--------------------------- MODULE PackageProofs ---------------------------
(***************************************************************************)
(* What is packed is what verifies, for any payload, any number of runs of *)
(* the script and any kill.  ScriptInv says how the four files of the      *)
(* script are related at each of its commands, and that no hash of a cut   *)
(* archive is ever written; BinInv what a program has taken over from it.  *)
(***************************************************************************)
EXTENDS Package, TLAPS

ScriptInv ==
  /\ pc = "tar" => outFile \in Archive
  /\ pc \in {"sha256sum", "cpTar", "copying", "cpHash", "build"} =>
       outFile \in Archive /\ outFile.whole
  /\ pc \in {"cpTar", "copying", "cpHash"} => hashFile \in {outFile, Empty}
  /\ pc = "copying" => decTar \in Archive
  /\ pc \in {"cpHash", "build"} => decTar = outFile
  /\ pc = "build" => decHash \in {decTar, Empty}
  /\ hashFile \in Archive => hashFile.whole
  /\ decHash \in Archive => decHash.whole

BinInv ==
  bin # None =>
    /\ bin.hash \in Archive => bin.hash.whole
    /\ byScript => bin.tar.whole /\ bin.hash \in {bin.tar, Empty}

PackInv == PackageTypeOK /\ ScriptInv /\ BinInv

-----------------------------------------------------------------------------
\* A cut and a completed archive are archives.
LEMMA ArchiveParts ==
  ASSUME NEW a \in Archive
  PROVE  /\ Cut(a) \in Archive /\ Whole(a) \in Archive /\ Whole(a).whole
         /\ a # None /\ a # Empty
BY PackageAssumption DEF Archive, Cut, Whole

\* A fresh work tree satisfies the invariant.
LEMMA PackInit == Init => PackInv
BY PackageAssumption DEF Init, PackInv, PackageTypeOK, ScriptInv, BinInv

\* A step of the script keeps the invariant if it keeps the script's part of it.
LEMMA ScriptStep ==
  ASSUME PackInv, UNCHANGED binVars,
         src' \in Rev,
         pc' \in {"idle", "tar", "sha256sum", "cpTar", "copying", "cpHash", "build"},
         outFile' \in Archive \cup {None}, hashFile' \in Archive \cup {None, Empty},
         decTar' \in Archive \cup {None}, decHash' \in Archive \cup {None, Empty},
         ScriptInv'
  PROVE  PackInv'
<1>1. bin' = bin /\ byScript' = byScript  BY DEF binVars
<1>2. BinInv'  BY <1>1 DEF PackInv, BinInv
<1>3. PackageTypeOK'  BY <1>1, Zenon DEF PackInv, PackageTypeOK
<1> QED  BY <1>2, <1>3 DEF PackInv

\* Packing: tar opens a new archive.
LEMMA PackKeeps == PackInv /\ Pack => PackInv'
<1> SUFFICES ASSUME PackInv, Pack PROVE PackInv'  OBVIOUS
<1>1. /\ src' = src /\ hashFile' = hashFile /\ decTar' = decTar /\ decHash' = decHash
      /\ UNCHANGED binVars /\ pc' = "tar" /\ outFile' = [rev |-> src, whole |-> FALSE]
  BY DEF Pack
<1>2. src \in Rev  BY DEF PackInv, PackageTypeOK
<1>3. outFile' \in Archive  BY <1>1, <1>2 DEF Archive
<1>4. ScriptInv'  BY <1>1, <1>3 DEF PackInv, ScriptInv
<1>5. /\ hashFile' \in Archive \cup {None, Empty} /\ decTar' \in Archive \cup {None}
      /\ decHash' \in Archive \cup {None, Empty}
  BY <1>1 DEF PackInv, PackageTypeOK
<1> QED  BY <1>1, <1>2, <1>3, <1>4, <1>5, ScriptStep

\* tar ends: with a whole archive, or the script stops.
LEMMA TarKeeps == PackInv /\ Tar => PackInv'
<1> SUFFICES ASSUME PackInv, Tar PROVE PackInv'  OBVIOUS
<1>1. outFile \in Archive  BY DEF Tar, PackInv, ScriptInv
<1>2. /\ src' = src /\ hashFile' = hashFile /\ decTar' = decTar /\ decHash' = decHash
      /\ UNCHANGED binVars
      /\ \/ outFile' = Whole(outFile) /\ pc' = "sha256sum"
         \/ outFile' \in {outFile, Whole(outFile)} /\ pc' = "idle"
  BY DEF Tar, Stops
<1>3. outFile' \in Archive /\ (pc' = "sha256sum" => outFile'.whole)
  BY <1>1, <1>2, ArchiveParts
<1>4. ScriptInv'  BY <1>2, <1>3 DEF PackInv, ScriptInv
<1>5. /\ hashFile' \in Archive \cup {None, Empty} /\ decTar' \in Archive \cup {None}
      /\ decHash' \in Archive \cup {None, Empty} /\ src' \in Rev
  BY <1>2 DEF PackInv, PackageTypeOK
<1> QED  BY <1>2, <1>3, <1>4, <1>5, ScriptStep

\* The hash is that of a whole archive, or none is written.
LEMMA Sha256sumKeeps == PackInv /\ Sha256sum => PackInv'
<1> SUFFICES ASSUME PackInv, Sha256sum PROVE PackInv'  OBVIOUS
<1>1. outFile \in Archive /\ outFile.whole  BY DEF Sha256sum, PackInv, ScriptInv
<1>2. /\ src' = src /\ outFile' = outFile /\ decTar' = decTar /\ decHash' = decHash
      /\ UNCHANGED binVars
      /\ \/ hashFile' \in {outFile, Empty} /\ pc' = "cpTar"
         \/ hashFile' \in {hashFile, Empty} /\ pc' = "idle"
  BY DEF Sha256sum, Stops
<1>3. /\ outFile' \in Archive \cup {None} /\ decTar' \in Archive \cup {None}
      /\ hashFile' \in Archive \cup {None, Empty}
      /\ decHash' \in Archive \cup {None, Empty} /\ src' \in Rev
  BY <1>1, <1>2 DEF PackInv, PackageTypeOK
<1>4. ScriptInv'  BY <1>1, <1>2, PackageAssumption DEF PackInv, ScriptInv
<1> QED  BY <1>2, <1>3, <1>4, ScriptStep

\* The archive is being copied: its copy is cut, as if the script died here.
LEMMA CpTarKeeps == PackInv /\ CpTar => PackInv'
<1> SUFFICES ASSUME PackInv, CpTar PROVE PackInv'  OBVIOUS
<1>1. outFile \in Archive /\ outFile.whole /\ hashFile \in {outFile, Empty}
  BY DEF CpTar, PackInv, ScriptInv
<1>2. /\ src' = src /\ outFile' = outFile /\ hashFile' = hashFile /\ decHash' = decHash
      /\ UNCHANGED binVars
      /\ decTar' = Cut(outFile) /\ pc' = "copying"
  BY DEF CpTar
<1>3. decTar' \in Archive
  BY <1>1, <1>2, ArchiveParts
<1>4. /\ outFile' \in Archive \cup {None} /\ hashFile' \in Archive \cup {None, Empty}
      /\ decHash' \in Archive \cup {None, Empty} /\ src' \in Rev
  BY <1>1, <1>2 DEF PackInv, PackageTypeOK
<1>5. ScriptInv'  BY <1>1, <1>2, <1>3 DEF PackInv, ScriptInv
<1> QED  BY <1>2, <1>3, <1>4, <1>5, ScriptStep

\* The copy of the archive is complete, or the script stops.
LEMMA CpTarDoneKeeps == PackInv /\ CpTarDone => PackInv'
<1> SUFFICES ASSUME PackInv, CpTarDone PROVE PackInv'  OBVIOUS
<1>1. outFile \in Archive /\ outFile.whole /\ hashFile \in {outFile, Empty} /\ decTar \in Archive
  BY DEF CpTarDone, PackInv, ScriptInv
<1>2. /\ src' = src /\ outFile' = outFile /\ hashFile' = hashFile /\ decHash' = decHash
      /\ UNCHANGED binVars
      /\ \/ decTar' = outFile /\ pc' = "cpHash"
         \/ decTar' = decTar /\ pc' = "idle"
  BY DEF CpTarDone, Stops
<1>3. /\ outFile' \in Archive \cup {None} /\ hashFile' \in Archive \cup {None, Empty}
      /\ decTar' \in Archive \cup {None}
      /\ decHash' \in Archive \cup {None, Empty} /\ src' \in Rev
  BY <1>1, <1>2 DEF PackInv, PackageTypeOK
<1>4. ScriptInv'  BY <1>1, <1>2 DEF PackInv, ScriptInv
<1> QED  BY <1>2, <1>3, <1>4, ScriptStep

\* The hash is copied after its archive, or the script stops.
LEMMA CpHashKeeps == PackInv /\ CpHash => PackInv'
<1> SUFFICES ASSUME PackInv, CpHash PROVE PackInv'  OBVIOUS
<1>1. /\ outFile \in Archive /\ outFile.whole
      /\ hashFile \in {outFile, Empty} /\ decTar = outFile
  BY DEF CpHash, PackInv, ScriptInv
<1>2. /\ src' = src /\ outFile' = outFile /\ hashFile' = hashFile /\ decTar' = decTar
      /\ UNCHANGED binVars
      /\ \/ decHash' = hashFile /\ pc' = "build"
         \/ decHash' \in {decHash, Empty} /\ pc' = "idle"
  BY DEF CpHash, CopiedHash, Stops
<1>3. /\ outFile' \in Archive \cup {None} /\ hashFile' \in Archive \cup {None, Empty}
      /\ decTar' \in Archive \cup {None}
      /\ decHash' \in Archive \cup {None, Empty} /\ src' \in Rev
  BY <1>1, <1>2 DEF PackInv, PackageTypeOK
<1>4. ScriptInv'  BY <1>1, <1>2, PackageAssumption DEF PackInv, ScriptInv
<1> QED  BY <1>2, <1>3, <1>4, ScriptStep

\* The payload changes, or the script dies: the files stay as they are.
LEMMA FilesStay ==
  ASSUME PackInv, pc' \in {pc, "idle"}, src' \in Rev,
         UNCHANGED <<outFile, hashFile, decTar, decHash, binVars>>
  PROVE  PackInv'
<1>1. outFile' = outFile /\ hashFile' = hashFile /\ decTar' = decTar /\ decHash' = decHash
  OBVIOUS
<1>2. /\ outFile' \in Archive \cup {None} /\ hashFile' \in Archive \cup {None, Empty}
      /\ decTar' \in Archive \cup {None} /\ decHash' \in Archive \cup {None, Empty}
      /\ pc' \in {"idle", "tar", "sha256sum", "cpTar", "copying", "cpHash", "build"}
  BY <1>1 DEF PackInv, PackageTypeOK
<1>3. ScriptInv'  BY <1>1 DEF PackInv, ScriptInv
<1> QED  BY <1>2, <1>3, ScriptStep

\* A program is built, by the script or by hand, from the files as they are.
LEMMA BuiltKeeps ==
  ASSUME PackInv, NEW s \in BOOLEAN, Built(s), s => pc = "build",
         pc' \in {pc, "idle"}, UNCHANGED <<src, outFile, hashFile, decTar, decHash>>
  PROVE  PackInv'
<1>1. /\ src' = src /\ outFile' = outFile /\ hashFile' = hashFile
      /\ decTar' = decTar /\ decHash' = decHash
  OBVIOUS
<1>2. decTar \in Archive /\ decHash \in Archive \cup {Empty}
  BY DEF Built, Embeds, PackInv, PackageTypeOK
<1>3. /\ bin' = [tar |-> decTar, hash |-> decHash] /\ byScript' = s
  BY DEF Built
<1>4. bin' \in [tar : Archive, hash : Archive \cup {Empty}]
      /\ bin'.tar = decTar /\ bin'.hash = decHash
  BY <1>2, <1>3
<1>5. /\ outFile' \in Archive \cup {None} /\ hashFile' \in Archive \cup {None, Empty}
      /\ decTar' \in Archive \cup {None} /\ decHash' \in Archive \cup {None, Empty}
      /\ src' \in Rev
      /\ pc' \in {"idle", "tar", "sha256sum", "cpTar", "copying", "cpHash", "build"}
  BY <1>1 DEF PackInv, PackageTypeOK
<1>6. byScript' \in BOOLEAN  BY <1>3, Zenon
<1>7. PackageTypeOK'  BY <1>4, <1>5, <1>6, Zenon DEF PackageTypeOK
<1>8. ScriptInv'  BY <1>1 DEF PackInv, ScriptInv
<1>9. s => decTar.whole /\ decHash \in {decTar, Empty}  BY DEF PackInv, ScriptInv
<1>10. BinInv'  BY <1>2, <1>3, <1>4, <1>9 DEF PackInv, ScriptInv, BinInv
<1> QED  BY <1>7, <1>8, <1>10 DEF PackInv

\* The invariant is inductive.
LEMMA PackStep == PackInv /\ [Next]_vars => PackInv'
<1> SUFFICES ASSUME PackInv, [Next]_vars PROVE PackInv'  OBVIOUS
<1>0. src \in Rev  BY DEF PackInv, PackageTypeOK
<1>1. ASSUME NEW r \in Rev, Edit(r) PROVE PackInv'
  BY <1>1, FilesStay DEF Edit
<1>2. CASE GoBuild
  <2>1. CASE Built(TRUE)  BY <1>2, <2>1, BuiltKeeps DEF GoBuild
  <2>2. CASE UNCHANGED binVars  BY <1>0, <1>2, <2>2, FilesStay DEF GoBuild
  <2> QED  BY <1>2, <2>1, <2>2 DEF GoBuild
<1>3. CASE GoBuildByHand  BY <1>3, BuiltKeeps DEF GoBuildByHand, scriptVars
<1>4. CASE Killed  BY <1>0, <1>4, FilesStay DEF Killed
<1>5. CASE UNCHANGED vars  BY <1>0, <1>5, FilesStay DEF vars, scriptVars
<1> QED
  BY <1>1, <1>2, <1>3, <1>4, <1>5, PackKeeps, TarKeeps, Sha256sumKeeps, CpTarKeeps,
     CpTarDoneKeeps, CpHashKeeps
  DEF Next

\* The invariant holds over any number of runs of the script.
LEMMA PackInvariant == Spec => []PackInv
BY PackInit, PackStep, PTL DEF Spec

-----------------------------------------------------------------------------
\* Type correctness of the files and the program.
THEOREM PackageTypes == Spec => []PackageTypeOK
<1>1. PackInv => PackageTypeOK  BY DEF PackInv
<1> QED  BY <1>1, PackInvariant, PTL

\* A program that accepts its own hash embeds an archive that was written to the
\* end (pack_resources.sh:67-92, decompress.go:92).
THEOREM VerifiedWhole == Spec => []VerifiedIsWhole
<1>1. PackInv => VerifiedIsWhole
  <2> SUFFICES ASSUME PackInv, bin # None, VerifyHash PROVE bin.tar.whole
    BY DEF VerifiedIsWhole
  <2>1. bin.tar \in Archive /\ bin.tar = bin.hash  BY DEF PackInv, PackageTypeOK, VerifyHash
  <2> QED  BY <2>1 DEF PackInv, BinInv
<1> QED  BY <1>1, PackInvariant, PTL

\* A program that the script has built matches its hash, unless there is none
\* (pack_resources.sh:67-92).
THEOREM ScriptMatches == Spec => []ScriptBuildsMatch
<1>1. PackInv => ScriptBuildsMatch  BY DEF PackInv, BinInv, ScriptBuildsMatch
<1> QED  BY <1>1, PackInvariant, PTL
=============================================================================
