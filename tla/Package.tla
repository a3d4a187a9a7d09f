------------------------------ MODULE Package ------------------------------
(***************************************************************************)
(* How the package and its hash get into the program.                      *)
(* pack_resources.sh archives the payload, hashes the archive, copies both *)
(* into internal/decompress and runs go build, which embeds them.  It may  *)
(* fail or be killed at any command, it starts from whatever an earlier    *)
(* run has left in the work tree, and go build is also run without it.     *)
(* The program checks the one against the other when it runs; what it      *)
(* unpacks is the subject of SysUpdate and TargetUpdate.                   *)
(***************************************************************************)
EXTENDS Naturals

CONSTANTS
  Rev,       \* states of the payload directory and config.json
  None,      \* there is no such file
  Empty      \* the file has no hash in it

\* An archive, or the beginning of one.
Archive == [rev : Rev, whole : BOOLEAN]

ASSUME PackageAssumption == None \notin Archive /\ Empty \notin Archive /\ None # Empty

VARIABLES
  src,        \* the revision in the work tree
  pc,         \* the command pack_resources.sh is at; "idle": it does not run
  outFile,    \* OUT_FILE
  hashFile,   \* HASH_FILE: the archive it is the hash of
  decTar,     \* DECOMPRESS_TAR
  decHash,    \* DECOMPRESS_HASH
  bin,        \* the program: its embeddedResources and embeddedHash
  byScript    \* history: the program was built by the script

scriptVars == <<src, pc, outFile, hashFile, decTar, decHash>>
binVars == <<bin, byScript>>
vars == <<scriptVars, binVars>>

PackageTypeOK ==
  /\ src \in Rev
  /\ pc \in {"idle", "tar", "sha256sum", "cpTar", "copying", "cpHash", "build"}
  /\ outFile \in Archive \cup {None} /\ hashFile \in Archive \cup {None, Empty}
  /\ decTar \in Archive \cup {None} /\ decHash \in Archive \cup {None, Empty}
  /\ bin \in [tar : Archive, hash : Archive \cup {Empty}] \cup {None}
  /\ byScript \in BOOLEAN

Init ==
  /\ src \in Rev /\ pc = "idle"
  /\ outFile = None /\ hashFile = None /\ decTar = None /\ decHash = None
  /\ bin = None /\ byScript = FALSE

-----------------------------------------------------------------------------
(* pack_resources.sh *)

Cut(a) == [rev |-> a.rev, whole |-> FALSE]
Whole(a) == [rev |-> a.rev, whole |-> TRUE]

\* The payload changes, but not while tar reads it.
Edit(r) ==
  /\ pc # "tar"
  /\ src' = r
  /\ UNCHANGED <<pc, outFile, hashFile, decTar, decHash, binVars>>

\* The script up to tar, which opens its output first.
Pack ==
  /\ pc = "idle"
  /\ pc' = "tar"
  /\ outFile' = [rev |-> src, whole |-> FALSE]
  /\ UNCHANGED <<src, hashFile, decTar, decHash, binVars>>

\* Slip: without set -e the script goes on.
GoesOn(next) == pc' = next

\* set -e
Stops(next) == pc' = "idle"

Tar ==
  /\ pc = "tar"
  /\ \/ outFile' = Whole(outFile) /\ pc' = "sha256sum"
     \/ outFile' \in {outFile, Whole(outFile)} /\ Stops("sha256sum")
  /\ UNCHANGED <<src, hashFile, decTar, decHash, binVars>>

\* The pipe's status is awk's: when sha256sum fails, an empty hash is written and
\* the script goes on.
Sha256sum ==
  /\ pc = "sha256sum"
  /\ \/ hashFile' \in {outFile, Empty} /\ pc' = "cpTar"
     \/ hashFile' \in {hashFile, Empty} /\ Stops("cpTar")
  /\ UNCHANGED <<src, outFile, decTar, decHash, binVars>>

\* cp truncates its destination first.
CpTar ==
  /\ pc = "cpTar"
  /\ decTar' = Cut(outFile) /\ pc' = "copying"
  /\ UNCHANGED <<src, outFile, hashFile, decHash, binVars>>

CpTarDone ==
  /\ pc = "copying"
  /\ \/ decTar' = outFile /\ pc' = "cpHash"
     \/ UNCHANGED decTar /\ Stops("cpHash")
  /\ UNCHANGED <<src, outFile, hashFile, decHash, binVars>>

\* Slip: a hash that is there already is kept.
KeptHash == IF decHash = None THEN hashFile ELSE decHash

CopiedHash == hashFile

CpHash ==
  /\ pc = "cpHash"
  /\ \/ decHash' = CopiedHash /\ pc' = "build"
     \/ decHash' \in {decHash, Empty} /\ Stops("build")
  /\ UNCHANGED <<src, outFile, hashFile, decTar, binVars>>

\* Slip: the program is built without the files.
EmbedsNothing == TRUE

\* go build fails when a file that go:embed names is missing.
Embeds == decTar # None /\ decHash # None

\* go build embeds the two files as they are, or fails.
Built(s) ==
  /\ Embeds
  /\ bin' = [tar |-> decTar, hash |-> decHash] /\ byScript' = s

GoBuild ==
  /\ pc = "build" /\ pc' = "idle"
  /\ Built(TRUE) \/ UNCHANGED binVars
  /\ UNCHANGED <<src, outFile, hashFile, decTar, decHash>>

GoBuildByHand == Built(FALSE) /\ UNCHANGED scriptVars

Killed ==
  /\ pc # "idle" /\ pc' = "idle"
  /\ UNCHANGED <<src, outFile, hashFile, decTar, decHash, binVars>>

-----------------------------------------------------------------------------
(* The program *)

\* The hash of the embedded archive is the embedded one.
VerifyHash == bin.tar = bin.hash

Next ==
  \/ \E r \in Rev : Edit(r)
  \/ Pack \/ Tar \/ Sha256sum \/ CpTar \/ CpTarDone \/ CpHash \/ GoBuild \/ Killed
  \/ GoBuildByHand

Spec == Init /\ [][Next]_vars

-----------------------------------------------------------------------------
(* Properties *)

\* A program that accepts its own hash embeds an archive that tar has written to
\* the end, however many runs of the script were killed or failed before and
\* whoever called go build (pack_resources.sh:67-92, decompress.go:92).
VerifiedIsWhole == bin # None /\ VerifyHash => bin.tar.whole

\* A program that the script has built rejects its package only if the hash could
\* not be computed: nothing of an earlier run is mixed into it
\* (pack_resources.sh:67-92).
ScriptBuildsMatch == bin # None /\ byScript => bin.tar.whole /\ bin.hash \in {bin.tar, Empty}
=============================================================================
