-------------------------- MODULE SysEffectProofs --------------------------
(***************************************************************************)
(* What a system update does to the machine: the invariant SysInv of       *)
(* module SysUpdate, and from it that a rollback is clean and a success    *)
(* complete, for any releases, mappings and scripts and any number of      *)
(* updates that fail, die and follow one another.                          *)
(***************************************************************************)
EXTENDS SysProofs

\* The mappings are neither MOTD nor boot actions, and not "idle".
LEMMA MappingNames ==
  ASSUME NEW m \in Mapping
  PROVE  m \in Action /\ m \notin {"idle", "motd", "grub", "init"} /\ Under[m] \subseteq File
BY SysAssumption, MappingAssumption, PlanTypes

\* The Do or Undo that is called belongs to one action, and to no other.
LEMMA OneCall ==
  ASSUME Txn!TxnInv, NEW a \in Action
  PROVE  /\ Txn!Reached(a) => effect[a] = "none" /\ \A b : Txn!Reached(b) => b = a
         /\ Txn!Unwinding(a) => effect[a] = "applied"
BY EngineInv, TP!ReachedIsNew, TP!UnwoundIsApplied
   DEF Txn!Reached, TP!Reached, Txn!Unwinding, TP!Unwinding

\* No copy is under way unless the Do of a mapping is.
LEMMA NoCopy ==
  ASSUME SysTypeOK, PlanInv, \A m \in Mapping : ~Txn!Reached(m)
  PROVE  copyPc = "idle" /\ copyTodo = {}
BY DEF SysTypeOK, C!CopyTypeOK, PlanInv

-----------------------------------------------------------------------------
\* RunTransaction registers the plan (run.go:76-86), and a copy begins and ends
\* with its Do.
LEMMA PlanStep == ASSUME CourseInv, PlanInv, [Next]_vars PROVE PlanInv'
<1> USE DEF CourseInv
<1>0. PcInv' /\ Txn!TxnInv' /\ SysTypeOK'
  BY PcStep, TypeStep
<1>1. ASSUME NEW m \in Mapping, DoCopy(m) PROVE PlanInv'
  <2>1. runPc' = "txn" /\ actions' = Plan
    BY <1>1, ClosureStep DEF PlanInv
  <2>2. Txn!Reached(m) /\ m # "idle"
    BY <1>1, MappingNames DEF DoCopy
  <2>3. copyPc # "idle" => copyPc = m
    BY <2>2, OneCall, MappingNames DEF PlanInv
  <2>4. CASE C!CopyBegin(m) /\ UNCHANGED txnVars
    BY <2>1, <2>2, <2>4 DEF PlanInv, C!CopyBegin, Txn!Reached, txnVars
  <2>5. ASSUME NEW f \in File, C!CopyFile(f), UNCHANGED txnVars PROVE PlanInv'
    BY <2>1, <2>2, <2>3, <2>5 DEF PlanInv, C!CopyFile, Txn!Reached, txnVars
  <2>6. CASE C!CopyErr(m) \/ C!CopyOk(m)
    BY <2>1, <2>2, <2>6 DEF PlanInv, C!CopyErr, C!CopyOk
  <2> QED BY <1>1, <2>4, <2>5, <2>6 DEF DoCopy
<1>2. ASSUME NEW m \in Mapping, UndoCopy(m) PROVE PlanInv'
  <2>1. runPc' = "txn" /\ actions' = Plan
    BY <1>2, ClosureStep DEF PlanInv
  <2>2. copyPc = "idle" /\ copyTodo = {}
    BY <1>2, NoCopy DEF UndoCopy, Txn!UndoOk, Txn!UndoErr, Txn!Unwinding, Txn!Reached
  <2> QED BY <1>2, <2>1, <2>2 DEF UndoCopy, C!CopyUndoOk, C!CopyUndoErr, PlanInv
<1>3. CASE DoMotd \/ DoGrub \/ DoInit \/ UndoMotd \/ UndoGrub
  <2>1. runPc' = "txn" /\ actions' = Plan
    BY <1>3, ClosureStep DEF PlanInv
  <2>2. \A m \in Mapping : ~Txn!Reached(m)
    <3> SUFFICES ASSUME NEW m \in Mapping, Txn!Reached(m) PROVE FALSE
      OBVIOUS
    <3> QED BY <1>3, MappingNames DEF DoMotd, DoGrub, DoInit, UndoMotd, UndoGrub, Txn!DoOk, Txn!DoErr,
          Txn!UndoOk, Txn!UndoErr, Txn!Reached, Txn!Unwinding
  <2>3. copyPc' = "idle" /\ copyTodo' = {}
    BY <1>3, <2>2, NoCopy DEF DoMotd, DoGrub, DoInit, UndoMotd, UndoGrub, copyVars
  <2> QED BY <2>1, <2>3 DEF PlanInv
<1>4. CASE Register
  <2>0. Len(actions) \in Nat /\ Len(Plan) \in Nat /\ actions \in Seq(Action) /\ Plan \in Seq(Action)
    BY PlanTypes DEF SysTypeOK, Txn!TxnTypeOK
  <2>1. copyPc' = "idle" /\ copyTodo' = {}
    BY <1>4, NoCopy DEF Register, PcInv, Txn!Reached, copyVars
  <2>2. CASE Len(actions) < Len(Plan)
    <3>1. actions' = Append(actions, Plan[Len(actions) + 1]) /\ runPc' = "register"
      BY <1>4, <2>2 DEF Register, Txn!Add, runVars
    <3>2. \A k \in 1..Len(actions') : k <= Len(Plan) /\ actions'[k] = Plan[k]
      BY <1>4, <2>0, <2>2, <3>1 DEF PlanInv, Register
    <3> QED BY <2>1, <3>1, <3>2 DEF PlanInv
  <2>3. CASE ~(Len(actions) < Len(Plan))
    <3>1. runPc' = "txn" /\ actions' = actions
      BY <1>4, <2>3 DEF Register, Txn!Run, Goto
    <3>2. \A k \in 1..Len(actions) : k <= Len(Plan) /\ actions[k] = Plan[k]
      BY <1>4 DEF PlanInv, Register
    <3>3. Len(actions) = Len(Plan)
      BY <2>0, <2>3, <3>2
    <3>4. actions = Plan
      BY <2>0, <3>2, <3>3
    <3> QED BY <2>1, <3>1, <3>4 DEF PlanInv
  <2> QED BY <2>2, <2>3
<1>5. CASE TxnReturn
  <2>1. \A m \in Mapping : ~Txn!Reached(m)
    BY <1>5 DEF TxnReturn, Deferred, Txn!Commit, Txn!Exhausted, Txn!Abort, Txn!Cleanup, Txn!Reached,
       SysTypeOK, Txn!TxnTypeOK
  <2>2. copyPc' = "idle" /\ copyTodo' = {}
    BY <1>5, <2>1, NoCopy DEF TxnReturn, copyVars
  <2>3. runPc' # "register" /\ (runPc' = "txn" => actions' = Plan)
    BY <1>5 DEF TxnReturn, PlanInv, Txn!Commit, Txn!Abort, Goto, Fail, runVars
  <2> QED BY <2>2, <2>3 DEF PlanInv
<1>6. CASE Load
  <2>1. copyPc' = "idle" /\ copyTodo' = {}
    BY <1>6, NoCopy DEF Load, PcInv, Txn!Reached, copyVars
  <2>2. runPc' = "register" => actions' = << >>
    BY <1>6 DEF Load, Txn!New, Txn!TxnInv, Txn!RestInv
  <2> QED BY <1>6, <2>1, <2>2 DEF PlanInv, Load
<1>7. CASE Crash
  BY <1>7 DEF Crash, C!CopyEnd, PlanInv
<1>8. CASE Extract \/ Verify \/ PkgDep \/ DaemonReload \/ DisableCloudInit \/ Return
           \/ (\E v \in Version : Start(v)) \/ \E u \in Unit : EnableAndStart(u)
  <2>1. runPc \notin {"register", "txn"} /\ runPc' \notin {"register", "txn"}
        /\ UNCHANGED <<copyPc, copyTodo>>
    BY <1>8 DEF Extract, Verify, Rejected, PkgDep, DaemonReload, DisableCloudInit, Return, Start,
       EnableAndStart, Goto, Fail, runVars, copyVars
  <2>2. copyPc = "idle" /\ copyTodo = {}
    BY <2>1, NoCopy DEF PcInv, Txn!Reached
  <2> QED BY <2>1, <2>2 DEF PlanInv
<1>9. CASE UNCHANGED vars
  BY <1>9 DEF vars, txnVars, copyVars, runVars, PlanInv, Txn!Reached
<1> QED
  BY <1>1, <1>2, <1>3, <1>4, <1>5, <1>6, <1>7, <1>8, <1>9 DEF Next, Progress

-----------------------------------------------------------------------------
\* The files of different mappings are different files (config.json).
LEMMA Apart ==
  ASSUME NEW m \in Mapping, NEW n \in Mapping, m # n, NEW f \in Under[n]
  PROVE  f \notin Under[m]
BY MappingAssumption

\* A copy changes its own mapping and nothing else (fileops.go:137-148).
LEMMA CopyStays ==
  ASSUME CourseInv, PlanInv, NEW m \in Mapping, DoCopy(m)
  PROVE  /\ \A f \in File \ Under[m] : dst'[f] = dst[f]
         /\ copyPc \in {"idle", m} /\ copyPc' \in {"idle", m}
         /\ effect[m] = "none"
         /\ \A a \in Action \ {m} : effect'[a] = effect[a]
         /\ \/ copyPc' = m /\ effect'[m] = "none"
            \/ copyPc' = "idle" /\ effect'[m] = "partial"
            \/ copyPc' = "idle" /\ effect'[m] = "applied" /\ copyPc = m /\ copyTodo = {} /\ UNCHANGED dst
<1> USE DEF CourseInv, SysTypeOK, C!CopyTypeOK, C!Tree
<1>1. Txn!Reached(m) /\ effect[m] = "none" /\ effect \in [Action -> Txn!Effect]
  BY OneCall, MappingNames DEF DoCopy, Txn!TxnTypeOK
<1>2. copyPc \in {"idle", m} /\ copyTodo \subseteq Under[m]
  BY <1>1, OneCall, MappingNames DEF PlanInv
<1>3. CASE C!CopyBegin(m) /\ UNCHANGED txnVars
  BY <1>1, <1>2, <1>3, MappingNames DEF C!CopyBegin, C!RemoveAllErr, C!Removed, txnVars
<1>4. CASE (\E f \in File : C!CopyFile(f)) /\ UNCHANGED txnVars
  BY <1>1, <1>2, <1>4, MappingNames DEF C!CopyFile, C!Copied, txnVars, PlanInv, Txn!Reached
<1>5. CASE C!CopyErr(m) /\ Txn!DoErr(m)
  BY <1>1, <1>2, <1>5, MappingNames DEF C!CopyErr, Txn!DoErr
<1>6. CASE C!CopyOk(m) /\ Txn!DoOk(m)
  BY <1>1, <1>2, <1>6, MappingNames DEF C!CopyOk, Txn!DoOk
<1> QED BY <1>3, <1>4, <1>5, <1>6 DEF DoCopy

\* Undo removes the files of its mapping (fileops.go:149-155) and no others.
LEMMA UndoCopyStays ==
  ASSUME CourseInv, NEW m \in Mapping, UndoCopy(m)
  PROVE  /\ \A f \in File \ Under[m] : dst'[f] = dst[f]
         /\ effect[m] = "applied" /\ txnPc = "rollback" /\ txnPc' = "rollback"
         /\ \A a \in Action \ {m} : effect'[a] = effect[a]
         /\ \/ effect'[m] = "undone" /\ \A f \in Under[m] : dst'[f] = Absent
            \/ effect'[m] = "stuck"
         /\ UNCHANGED <<tmp, copyPc, copyTodo>>
BY OneCall, MappingNames DEF CourseInv, SysTypeOK, C!CopyTypeOK, C!Tree, UndoCopy, C!CopyUndoOk, C!CopyUndoErr,
   C!RemoveAllErr, C!Removed, Txn!UndoOk, Txn!UndoErr, Txn!Unwinding, Txn!TxnTypeOK

\* The other closures change the effect of their own action only.
LEMMA OtherStays ==
  ASSUME CourseInv, DoMotd \/ UndoMotd \/ DoGrub \/ DoInit \/ UndoGrub
  PROVE  /\ UNCHANGED copyVars
         /\ \A a \in Mapping : effect'[a] = effect[a]
         /\ DoMotd \/ UndoMotd => UNCHANGED bootVars /\ effect'["grub"] = effect["grub"]
                                                     /\ effect'["init"] = effect["init"]
         /\ DoGrub \/ DoInit \/ UndoGrub => UNCHANGED motdVars /\ effect'["motd"] = effect["motd"]
<1>1. effect \in [Action -> Txn!Effect] /\ {"motd", "grub", "init"} \cap Mapping = {}
  BY MappingNames DEF CourseInv, SysTypeOK, Txn!TxnTypeOK
<1> USE PlanTypes DEF Txn!DoOk, Txn!DoErr, Txn!UndoOk, Txn!UndoErr, txnVars
<1>2. CASE DoMotd \/ UndoMotd
  <2>1. UNCHANGED copyVars /\ UNCHANGED bootVars
        /\ (UNCHANGED effect \/ \E e : effect' = [effect EXCEPT !["motd"] = e])
    BY <1>2 DEF DoMotd, UndoMotd
  <2>2. ~(DoGrub \/ DoInit \/ UndoGrub)
    BY <1>2 DEF DoMotd, UndoMotd, DoGrub, DoInit, UndoGrub, Txn!Reached, Txn!Unwinding
  <2> QED BY <1>1, <2>1, <2>2
<1>3. CASE DoGrub \/ DoInit \/ UndoGrub
  <2>1. UNCHANGED copyVars /\ UNCHANGED motdVars
        /\ \E a \in {"grub", "init"} : \E e : effect' = [effect EXCEPT ![a] = e]
    BY <1>3 DEF DoGrub, DoInit, UndoGrub
  <2>2. ~(DoMotd \/ UndoMotd)
    BY <1>3 DEF DoMotd, UndoMotd, DoGrub, DoInit, UndoGrub, Txn!Reached, Txn!Unwinding
  <2> QED BY <1>1, <2>1, <2>2
<1> QED BY <1>2, <1>3

\* A destination is as before until its Do has begun and gone once it is undone;
\* the grub file is as before until its Do and again after its Undo.
LEMMA BackStep == ASSUME CourseInv, PlanInv, BackInv, [Next]_vars PROVE BackInv'
<1>0. effect \in [Action -> Txn!Effect] /\ {"motd", "grub", "init"} \cap Mapping = {}
      /\ {"motd", "grub", "init"} \subseteq Action /\ Mapping \subseteq Action /\ "idle" \notin Mapping
      /\ (\A m \in Mapping : Under[m] \subseteq File)
  BY MappingNames, PlanTypes DEF CourseInv, SysTypeOK, Txn!TxnTypeOK
<1>1. ASSUME NEW m \in Mapping, DoCopy(m) PROVE BackInv'
  <2>1. runPc' = "txn" /\ UNCHANGED <<runPc, before, bootVars>> /\ runPc = "txn"
    BY <1>1, ClosureStep DEF CourseInv, DoCopy, runVars
  <2>2. effect'["grub"] = effect["grub"]
    BY <1>0, <1>1, CopyStays
  <2>3. ASSUME NEW n \in Mapping, NEW f \in Under[n]
        PROVE  /\ effect'[n] = "none" /\ copyPc' # n => dst'[f] = before.dst[f]
               /\ effect'[n] = "undone" => dst'[f] = Absent
    <3>1. CASE n = m
      BY <1>1, <3>1, CopyStays
    <3>2. CASE n # m
      <4>1. dst'[f] = dst[f] /\ effect'[n] = effect[n] /\ copyPc # n
        BY <1>0, <1>1, <3>2, CopyStays, Apart
      <4> QED BY <2>1, <4>1 DEF BackInv
    <3> QED BY <3>1, <3>2
  <2> QED BY <2>1, <2>2, <2>3 DEF BackInv, bootVars
<1>2. ASSUME NEW m \in Mapping, UndoCopy(m) PROVE BackInv'
  <2>1. runPc' = "txn" /\ UNCHANGED <<runPc, before, bootVars>> /\ runPc = "txn"
    BY <1>2, ClosureStep DEF CourseInv, UndoCopy, runVars
  <2>2. effect'["grub"] = effect["grub"]
    BY <1>0, <1>2, UndoCopyStays
  <2>3. ASSUME NEW n \in Mapping, NEW f \in Under[n]
        PROVE  /\ effect'[n] = "none" /\ copyPc' # n => dst'[f] = before.dst[f]
               /\ effect'[n] = "undone" => dst'[f] = Absent
    <3>1. CASE n = m
      BY <1>2, <3>1, UndoCopyStays
    <3>2. CASE n # m
      <4>1. dst'[f] = dst[f] /\ effect'[n] = effect[n] /\ copyPc' = copyPc
        BY <1>0, <1>2, <3>2, UndoCopyStays, Apart
      <4> QED BY <2>1, <4>1 DEF BackInv
    <3> QED BY <3>1, <3>2
  <2> QED BY <2>1, <2>2, <2>3 DEF BackInv, bootVars
<1>3. CASE DoMotd \/ UndoMotd
  BY <1>0, <1>3, ClosureStep, OtherStays DEF CourseInv, BackInv, copyVars, bootVars
<1>4. CASE DoGrub \/ DoInit \/ UndoGrub
  <2>1. runPc = "txn" /\ UNCHANGED <<runPc, before, origGrub>> /\ UNCHANGED copyVars
        /\ \A a \in Mapping : effect'[a] = effect[a]
    BY <1>4, ClosureStep, OtherStays DEF CourseInv
  <2>2. /\ effect'["grub"] = "none" => grubFile' = before.grub
        /\ effect'["grub"] = "undone" /\ B!NonEmpty(origGrub) => grubFile' = before.grub
    BY <1>0, <1>4, <2>1 DEF BackInv, DoGrub, DoInit, UndoGrub, Txn!DoOk, Txn!DoErr, Txn!UndoOk, Txn!UndoErr,
       B!GrubDoOk, B!GrubDoErr, B!InitDoOk, B!InitDoErr, B!GrubUndoOk, B!GrubUndoErr, B!NonEmpty, B!Restored
  <2> QED BY <2>1, <2>2 DEF BackInv, copyVars, B!NonEmpty
<1>5. CASE Register
  <2>1. runPc = "register" /\ UNCHANGED <<effect, copyVars, before>>
    BY <1>5 DEF Register, Txn!Add, Txn!Run, Goto, runVars
  <2>2. effect["grub"] = "none"
    BY <1>0, <2>1 DEF CourseInv, PcInv, Txn!TxnInv, Txn!RestInv
  <2>3. grubFile' = grubFile /\ origGrub' \in {origGrub, grubFile, "absent"}
    BY <1>5 DEF Register, B!Capture, B!Unreadable, bootVars
  <2> QED BY <2>1, <2>2, <2>3 DEF BackInv, copyVars
<1>6. CASE TxnReturn
  <2>1. CASE (Txn!Commit \/ Txn!Abort) /\ UNCHANGED <<motdVars, runVars>>
    BY <1>6, <2>1 DEF TxnReturn, BackInv, Txn!Commit, Txn!Abort, copyVars, bootVars, runVars
  <2>2. CASE runPc' \notin {"register", "txn"}
    BY <2>2 DEF BackInv
  <2> QED BY <1>6, <2>1, <2>2 DEF TxnReturn, Goto, Fail
<1>7. CASE Load
  <2>1. origGrub = "absent"
    BY <1>7 DEF Load, CourseInv, GateInv, Untouched
  <2>2. CASE runPc' = "idle"
    BY <2>2 DEF BackInv
  <2>3. CASE Txn!New /\ before' = [dst |-> dst, grub |-> grubFile]
    BY <1>0, <1>7, <2>1, <2>3 DEF Load, Txn!New, BackInv, copyVars, bootVars
  <2> QED BY <1>7, <2>2, <2>3 DEF Load
<1>8. CASE Extract \/ Verify \/ PkgDep \/ DaemonReload \/ DisableCloudInit \/ Return \/ Crash
           \/ (\E v \in Version : Start(v)) \/ \E u \in Unit : EnableAndStart(u)
  <2>1. runPc' \notin {"register", "txn"}
    BY <1>8 DEF Extract, Verify, Rejected, PkgDep, DaemonReload, DisableCloudInit, Return, Start,
       EnableAndStart, Crash, Goto, Fail, runVars
  <2> QED BY <2>1 DEF BackInv
<1>9. CASE UNCHANGED vars
  BY <1>9 DEF vars, txnVars, copyVars, bootVars, runVars, BackInv
<1> QED
  BY <1>1, <1>2, <1>3, <1>4, <1>5, <1>6, <1>7, <1>8, <1>9 DEF Next, Progress

-----------------------------------------------------------------------------
\* While Do walks update-motd.d, what is left in it is still to be visited
\* (motd.go:32-54).
LEMMA MotdLeft ==
  ASSUME CourseInv, StageInv, [Next]_vars
  PROVE  motdPc' = "do" => M!Present(motdDir)' \subseteq motdTodo'
<1>1. [M!MotdNext]_(M!motdVars) /\ motdDir \in [Script -> M!Entry]
      /\ (motdPc = "do" => M!Present(motdDir) \subseteq motdTodo)
  BY MotdDriven DEF StageInv, CourseInv, SysTypeOK, M!MotdTypeOK
<1>2. ASSUME NEW s \in Script, M!MotdMove(s) PROVE M!Present(motdDir)' \subseteq motdTodo'
  BY <1>1, <1>2 DEF M!MotdMove, M!Rest, M!Present, M!NoFile, M!Entry
<1>3. CASE M!MotdDoBegin
  BY <1>3 DEF M!MotdDoBegin, M!Present
<1>4. CASE M!MotdDoErr \/ M!MotdDoOk \/ M!MotdUndoBegin \/ M!MotdUndoErr \/ M!MotdUndoOk \/ M!MotdEnd
           \/ (\E s \in Script : M!MotdRestore(s)) \/ \E s \in Script, b \in Body : M!Vendor(s, b)
  BY <1>4 DEF M!MotdDoErr, M!MotdDoOk, M!MotdUndoBegin, M!MotdUndoErr, M!MotdUndoOk, M!MotdEnd,
     M!MotdRestore, M!Vendor
<1>5. CASE UNCHANGED M!motdVars
  BY <1>1, <1>5 DEF M!motdVars, M!Present
<1> QED BY <1>1, <1>2, <1>3, <1>4, <1>5 DEF M!MotdNext

\* While CopyDir walks its source, every file of the package that it has passed is
\* installed, and whatever else is there was there before (fileops.go:82-120).
LEMMA CopyPassed ==
  ASSUME CourseInv, PlanInv, StageInv, NEW m \in Mapping, DoCopy(m)
  PROVE  WalkInv'
<1>1. /\ runPc = "txn" /\ dst \in C!Tree /\ pkg # Absent /\ Under[m] \subseteq File
      /\ \A f \in Regular(pkg) : tmp[f] = pkg
      /\ \A f \in File \ Regular(pkg) : tmp[f] # Absent => f \in leftover
  BY ClosureStep, SysAssumption DEF CourseInv, SysTypeOK, C!CopyTypeOK, StageInv, TmpInv
<1>2. pkg' = pkg /\ Regular(pkg)' = Regular(pkg)
  BY ClosureStep DEF CourseInv, Regular
<1>3. CASE C!CopyBegin(m) /\ leftover' = leftover \cup {f \in Under[m] : dst'[f] # Absent}
  BY <1>1, <1>2, <1>3 DEF C!CopyBegin, WalkInv
<1>4. ASSUME NEW f \in File, C!CopyFile(f), UNCHANGED leftover PROVE WalkInv'
  <2>1. copyPc = m /\ f \in copyTodo /\ f \in Under[m] /\ m # "idle"
    BY <1>4, MappingNames, CopyStays DEF C!CopyFile, PlanInv
  <2>2. dst' = [dst EXCEPT ![f] = tmp[f]] /\ copyTodo' = copyTodo \ {f} /\ UNCHANGED <<tmp, copyPc>>
    BY <1>4 DEF C!CopyFile, C!Copied
  <2>3. tmp[f] # Absent /\ dst'[f] = tmp[f] /\ \A g \in File \ {f} : dst'[g] = dst[g]
    BY <1>1, <2>1, <2>2 DEF StageInv, WalkInv, C!Tree
  <2>4. \A g \in Under[m] \cap Regular(pkg) : g \in copyTodo' \/ dst'[g] = pkg
    BY <1>1, <2>1, <2>2, <2>3 DEF StageInv, WalkInv
  <2>5. \A g \in Under[m] \ Regular(pkg) : dst'[g] # Absent => g \in leftover'
    BY <1>1, <1>4, <2>1, <2>3 DEF StageInv, WalkInv
  <2>6. \A g \in copyTodo' : tmp'[g] # Absent
    BY <2>1, <2>2 DEF StageInv, WalkInv
  <2> QED BY <1>2, <2>1, <2>2, <2>3, <2>4, <2>5, <2>6 DEF WalkInv
<1>5. CASE C!CopyErr(m) \/ C!CopyOk(m)
  BY <1>5 DEF C!CopyErr, C!CopyOk, WalkInv
<1> QED BY <1>3, <1>4, <1>5 DEF DoCopy

\* The staging directory and the loops over it.
LEMMA StageStep == ASSUME CourseInv, PlanInv, StageInv, [Next]_vars PROVE StageInv'
<1>1. SUFFICES TmpInv' /\ WalkInv'
  BY MotdLeft DEF StageInv
<1>2. TmpInv /\ WalkInv
  BY DEF StageInv
<1>3. runPc \in {"idle", "extract", "return"} \cup Committed => copyPc = "idle"
  BY NoCopy DEF CourseInv, PcInv, Txn!Reached, Committed
<1>4. ASSUME NEW m \in Mapping, DoCopy(m) PROVE TmpInv' /\ WalkInv'
  <2>1. UNCHANGED <<runPc, pkg, tmp>> /\ leftover \subseteq leftover'
    BY <1>4, ClosureStep DEF CourseInv, DoCopy, C!CopyBegin, C!CopyFile, C!CopyErr, C!CopyOk
  <2>2. TmpInv'
    BY <1>2, <2>1 DEF TmpInv, Regular
  <2> QED BY <1>4, <2>2, CopyPassed
<1>5. ASSUME NEW m \in Mapping, UndoCopy(m) PROVE TmpInv' /\ WalkInv'
  <2>1. UNCHANGED <<runPc, pkg, tmp, copyPc, copyTodo, leftover>>
    BY <1>5, ClosureStep, UndoCopyStays DEF CourseInv, UndoCopy
  <2>2. copyPc = "idle"
    BY <1>5, UndoCopyStays, NoCopy DEF Txn!Reached, CourseInv
  <2> QED BY <1>2, <2>1, <2>2 DEF TmpInv, WalkInv, Regular
<1>6. CASE DoMotd \/ DoGrub \/ DoInit \/ UndoMotd \/ UndoGrub
  BY <1>2, <1>6, ClosureStep, OtherStays DEF CourseInv, copyVars, TmpInv, WalkInv, Regular
<1>7. CASE Extract
  <2>1. copyPc = "idle" /\ UNCHANGED <<copyPc, leftover, pkg>>
    BY <1>3, <1>7 DEF Extract, Goto, Fail
  <2>2. CASE runPc' = "return"
    BY <2>1, <2>2 DEF TmpInv, WalkInv
  <2>3. CASE tmp' = Unpacked(Regular(pkg)) /\ Goto("verify")
    <3>1. Regular(pkg) \subseteq File
      BY SysAssumption DEF CourseInv, SysTypeOK, Regular
    <3>2. (\A f \in Regular(pkg) : tmp'[f] = pkg) /\ \A f \in File \ Regular(pkg) : tmp'[f] = tmp[f]
      BY <2>3, <3>1 DEF Unpacked
    <3> QED BY <1>2, <1>7, <2>1, <3>2 DEF Extract, TmpInv, WalkInv, Regular
  <2> QED BY <1>7, <2>2, <2>3 DEF Extract, Fail
<1>8. ASSUME NEW v \in Version, Start(v) PROVE TmpInv' /\ WalkInv'
  BY <1>3, <1>8 DEF Start, TmpInv, WalkInv
<1>9. CASE Return \/ Crash
  BY <1>3, <1>9 DEF Return, Crash, Goto, C!CopyEnd, TmpInv, WalkInv
<1>10. CASE Verify \/ PkgDep \/ Load \/ Register
  BY <1>2, <1>10 DEF Verify, Rejected, PkgDep, Load, Register, Goto, Fail, copyVars, runVars, TmpInv,
     WalkInv, Regular
<1>11. CASE TxnReturn \/ DaemonReload \/ DisableCloudInit \/ \E u \in Unit : EnableAndStart(u)
  BY <1>2, <1>11 DEF TxnReturn, DaemonReload, DisableCloudInit, EnableAndStart, Goto, Fail,
     copyVars, runVars, TmpInv, WalkInv, Regular
<1>12. CASE UNCHANGED vars
  BY <1>2, <1>12 DEF vars, copyVars, runVars, TmpInv, WalkInv, Regular
<1> QED
  BY <1>4, <1>5, <1>6, <1>7, <1>8, <1>9, <1>10, <1>11, <1>12 DEF Next, Progress

-----------------------------------------------------------------------------
\* An action whose Do has returned nil has had its effect, and the actions after
\* it do not take it back.
LEMMA DoneStep == ASSUME CourseInv, PlanInv, StageInv, DoneInv, [Next]_vars PROVE DoneInv'
<1>0. effect \in [Action -> Txn!Effect] /\ {"motd", "grub", "init"} \cap Mapping = {}
      /\ {"motd", "grub", "init"} \subseteq Action /\ Mapping \subseteq Action
      /\ (\A m \in Mapping : Under[m] \subseteq File)
  BY MappingNames, PlanTypes DEF CourseInv, SysTypeOK, Txn!TxnTypeOK
<1>1. ASSUME NEW m \in Mapping, DoCopy(m) PROVE DoneInv'
  <2>1. txnPc = "run" /\ UNCHANGED <<pkg, motdVars, bootVars>>
    BY <1>1, ClosureStep DEF CourseInv, DoCopy, Txn!Reached
  <2>0. leftover \subseteq leftover'
    BY <1>1 DEF DoCopy
  <2>2. ASSUME NEW n \in Mapping, effect'[n] = "applied" PROVE Installed(n)'
    <3>1. CASE n = m
      <4>1. copyPc = m /\ copyTodo = {} /\ UNCHANGED dst /\ m # "idle"
        BY <1>1, <2>2, <3>1, CopyStays, MappingNames
      <4> QED BY <2>1, <2>0, <3>1, <4>1 DEF StageInv, WalkInv, Installed, Regular
    <3>2. CASE n # m
      <4>1. effect[n] = "applied" /\ \A f \in Under[n] : dst'[f] = dst[f]
        BY <1>0, <1>1, <2>2, <3>2, CopyStays, Apart
      <4> QED BY <2>0, <2>1, <4>1 DEF DoneInv, Installed, Regular
    <3> QED BY <3>1, <3>2
  <2>3. \A a \in {"motd", "grub", "init"} : effect'[a] = effect[a]
    BY <1>0, <1>1, CopyStays
  <2> QED BY <2>1, <2>2, <2>3 DEF DoneInv, motdVars, bootVars, M!Present
<1>2. CASE UndoMotd \/ UndoGrub \/ \E m \in Mapping : UndoCopy(m)
  BY <1>2 DEF UndoMotd, UndoGrub, UndoCopy, Txn!UndoOk, Txn!UndoErr, Txn!Unwinding, DoneInv, txnVars
<1>3. CASE DoMotd
  <2>1. txnPc = "run" /\ effect["motd"] = "none" /\ UNCHANGED <<pkg, copyVars, bootVars>>
        /\ \A a \in Mapping \cup {"grub", "init"} : effect'[a] = effect[a]
    BY <1>0, <1>3, OneCall, OtherStays, ClosureStep DEF CourseInv, DoMotd, Txn!Reached
  <2>2. ASSUME txnPc' = "run", effect'["motd"] = "applied" PROVE M!Present(motdDir)' = {}
    <3>1. M!MotdDoOk
      BY <1>3, <2>1, <2>2 DEF DoMotd, Txn!DoErr, txnVars
    <3> QED BY <3>1 DEF M!MotdDoOk, StageInv, M!Present
  <2>3. txnPc' \in {"run", "rollback"}
    BY <1>3, ClosureStep DEF CourseInv
  <2> QED BY <2>1, <2>2, <2>3 DEF DoneInv, copyVars, bootVars, Installed, Regular
<1>4. CASE DoGrub \/ DoInit
  <2>1. UNCHANGED <<pkg, copyVars, motdVars>> /\ txnPc' \in {"run", "rollback"}
        /\ \A a \in Mapping \cup {"motd"} : effect'[a] = effect[a]
    BY <1>4, OtherStays, ClosureStep DEF CourseInv
  <2>2. CASE B!GrubDoOk /\ Txn!DoOk("grub")
    BY <1>0, <2>1, <2>2 DEF DoneInv, B!GrubDoOk, B!WithCmdline, Txn!DoOk, Txn!Reached, copyVars,
       motdVars, Installed, Regular, M!Present
  <2>3. CASE B!InitDoOk /\ Txn!DoOk("init")
    BY <1>0, <2>1, <2>3 DEF DoneInv, B!InitDoOk, Txn!DoOk, Txn!Reached, copyVars, motdVars, Installed, Regular,
       M!Present
  <2>4. CASE Txn!DoErr("grub") \/ Txn!DoErr("init")
    BY <2>4 DEF DoneInv, Txn!DoErr
  <2> QED BY <1>4, <2>2, <2>3, <2>4 DEF DoGrub, DoInit
<1>5. CASE Register
  <2>1. effect' = effect /\ \A a \in Action : effect[a] = "none"
    BY <1>5 DEF Register, Txn!Add, Txn!Run, CourseInv, PcInv, Txn!TxnInv, Txn!RestInv
  <2> QED BY <1>0, <2>1 DEF DoneInv
<1>6. CASE TxnReturn
  BY <1>6 DEF TxnReturn, Deferred, Txn!Commit, Txn!Abort, Txn!Cleanup, DoneInv, Installed, Regular, copyVars,
     motdVars, bootVars, runVars, M!Present
<1>7. CASE runPc' # "txn"
  <2>1. PcInv'
    BY PcStep DEF CourseInv
  <2> QED BY <1>7, <2>1 DEF PcInv, DoneInv
<1>8. CASE Extract \/ Verify \/ PkgDep \/ Load \/ DaemonReload \/ DisableCloudInit \/ Return \/ Crash
           \/ (\E v \in Version : Start(v)) \/ \E u \in Unit : EnableAndStart(u)
  <2>1. runPc' # "txn"
    BY <1>8 DEF Extract, Verify, Rejected, PkgDep, Load, DaemonReload, DisableCloudInit, Return, Start,
       EnableAndStart, Crash, Goto, Fail, runVars
  <2> QED BY <1>7, <2>1
<1>9. CASE UNCHANGED vars
  BY <1>9 DEF vars, txnVars, copyVars, bootVars, motdVars, runVars, DoneInv, Installed, Regular, M!Present
<1> QED
  BY <1>1, <1>2, <1>3, <1>4, <1>5, <1>6, <1>8, <1>9 DEF Next, Progress

\* When Run has returned nil, every action of the plan is in effect.
LEMMA AllDone ==
  ASSUME CourseInv, PlanInv, DoneInv, txnPc = "returned", result = "nil"
  PROVE  Complete
<1>1. actions = Plan
  BY DEF CourseInv, PcInv, PlanInv
<1>2. \A a \in Action : effect[a] = "applied"
  <2> SUFFICES ASSUME NEW a \in Action PROVE effect[a] = "applied"
    OBVIOUS
  <2>1. PICK k \in 1..Len(Plan) : Plan[k] = a
    BY DEF Action
  <2> QED BY <1>1, <2>1 DEF CourseInv, Txn!TxnInv, Txn!CommitComplete
<1> QED BY <1>2, PlanTypes DEF DoneInv, Complete

\* Completeness lasts as long as what it speaks of.
LEMMA CompleteStays ==
  ASSUME Complete, UNCHANGED <<pkg, dst, leftover, motdDir, grubCfg, initImg>> PROVE Complete'
BY DEF Complete, Installed, Regular, M!Present

\* Nothing after the commit changes what the transaction has installed
\* (run.go:124-137).
LEMMA LastStep == ASSUME CourseInv, PlanInv, DoneInv, LastInv, [Next]_vars PROVE LastInv'
<1> USE DEF Committed, Goto, Fail
<1>1. CASE DoMotd \/ DoGrub \/ DoInit \/ UndoMotd \/ UndoGrub \/ \E m \in Mapping : DoCopy(m) \/ UndoCopy(m)
  BY <1>1, ClosureStep DEF CourseInv, PcInv, LastInv
<1>2. CASE Extract \/ Verify \/ PkgDep \/ Load \/ Register \/ Crash \/ \E v \in Version : Start(v)
  <2>1. runPc' \notin Committed /\ ret' # "ok"
    BY <1>2 DEF Extract, Verify, Rejected, PkgDep, Load, Register, Crash, Start, CourseInv, PcInv, runVars
  <2> QED BY <2>1 DEF LastInv
<1>3. CASE TxnReturn
  <2>1. ret' # "ok"
    BY <1>3 DEF TxnReturn, CourseInv, PcInv, runVars
  <2>2. CASE runPc' \notin Committed
    BY <2>1, <2>2 DEF LastInv
  <2>3. CASE runPc' \in Committed
    <3>1. txnPc = "returned" /\ result = "nil" /\ M!MotdEnd /\ UNCHANGED <<pkg, copyVars, bootVars>>
      BY <1>3, <2>3 DEF TxnReturn, Deferred, Txn!Cleanup, runVars
    <3>2. Complete'
      BY <3>1, AllDone, CompleteStays DEF M!MotdEnd, copyVars, bootVars
    <3> QED BY <2>1, <3>2 DEF LastInv
  <2> QED BY <2>2, <2>3
<1>4. CASE DaemonReload \/ DisableCloudInit \/ \E u \in Unit : EnableAndStart(u)
  <2>1. runPc \in Committed /\ UNCHANGED <<pkg, copyVars, bootVars, motdVars>>
    BY <1>4 DEF DaemonReload, DisableCloudInit, EnableAndStart, runVars
  <2>2. ret' = "ok" => marker'
    BY <1>4 DEF DaemonReload, DisableCloudInit, EnableAndStart, CourseInv, PcInv, runVars
  <2>3. Complete'
    BY <2>1, CompleteStays DEF LastInv, copyVars, bootVars, motdVars
  <2> QED BY <2>2, <2>3 DEF LastInv
<1>5. CASE Return
  <2>1. runPc' \notin Committed /\ UNCHANGED <<pkg, ret, dst, leftover, motdDir, grubCfg, initImg, marker>>
    BY <1>5 DEF Return, B!BootEnd, motdVars, sdVars
  <2> QED BY <2>1, CompleteStays DEF LastInv
<1>6. CASE UNCHANGED vars
  <2>1. UNCHANGED <<runPc, pkg, ret, dst, leftover, motdDir, grubCfg, initImg, marker>>
    BY <1>6 DEF vars, copyVars, bootVars, motdVars, sdVars, runVars
  <2> QED BY <2>1, CompleteStays DEF LastInv
<1> QED
  BY <1>1, <1>2, <1>3, <1>4, <1>5, <1>6 DEF Next, Progress

-----------------------------------------------------------------------------
(* The results *)

\* A machine on which no update has been started.
LEMMA SysInit == Init => CourseInv /\ SysInv
<1> SUFFICES ASSUME Init PROVE CourseInv /\ SysInv
  OBVIOUS
<1>1. SysTypeOK /\ Txn!TxnInv
  BY TypeInit
<1>2. PcInv /\ GateInv /\ PlanInv /\ BackInv /\ DoneInv
  BY DEF Init, PcInv, GateInv, PlanInv, BackInv, DoneInv, Untouched, Committed, Txn!TxnInit, B!BootInit
<1>3. StageInv /\ LastInv
  BY DEF Init, StageInv, TmpInv, WalkInv, LastInv, Committed, M!MotdInit
<1> QED BY <1>1, <1>2, <1>3 DEF CourseInv, SysInv

\* Every step, a crash and the start of the next update included, keeps it.
LEMMA SysStep == CourseInv /\ SysInv /\ [Next]_vars => CourseInv' /\ SysInv'
<1> SUFFICES ASSUME CourseInv, SysInv, [Next]_vars PROVE CourseInv' /\ SysInv'
  OBVIOUS
<1>1. CourseInv'
  BY TypeStep, PcStep, GateStep DEF CourseInv
<1>2. PlanInv' /\ BackInv' /\ StageInv' /\ DoneInv' /\ LastInv'
  BY PlanStep, BackStep, StageStep, DoneStep, LastStep DEF SysInv
<1> QED BY <1>1, <1>2 DEF CourseInv, SysInv

\* RunUpdate (run.go:106-137) maintains its invariant over any number of updates
\* that fail at any call, die at any point and are run again.
THEOREM SystemInvariant == Spec => []SysInv
BY SysInit, SysStep, PTL DEF Spec

\* After a rollback (run.go:88, fileops.go:149, grub.go:63) the mappings that were
\* undone are gone, those not reached are untouched, and an undone grub file has
\* the content it had before the transaction.
THEOREM RollbackIsClean == Spec => []RolledBack
<1>1. CourseInv /\ SysInv => RolledBack
  <2> SUFFICES ASSUME CourseInv, SysInv, txnPc = "returned", result = "error" PROVE RolledBack
    BY DEF RolledBack
  <2>1. runPc = "txn"
    BY DEF CourseInv, PcInv
  <2>2. copyPc = "idle"
    BY NoCopy DEF CourseInv, SysInv, Txn!Reached
  <2>3. \A m \in Mapping : copyPc # m
    BY <2>2, MappingNames
  <2> QED BY <2>1, <2>3 DEF SysInv, BackInv, RolledBack
<1> QED BY <1>1, SysInit, SysStep, PTL DEF Spec

\* An update that reports success (run.go:136) has installed every file of its
\* package that is unpacked, nothing but leftovers beside them, and everything the
\* machine boots with, whatever earlier updates, failed or killed, had left in the
\* staging directory and in the destinations.
THEOREM SuccessInstallsAll == Spec => []SuccessIsComplete
<1>1. SysInv => SuccessIsComplete
  BY DEF SysInv, LastInv, SuccessIsComplete
<1> QED BY <1>1, SystemInvariant, PTL

\* Whatever fails after the commit (run.go:128-134), or if the update dies there,
\* the machine keeps the complete release.
THEOREM CommitLasts == Spec => CommitIsFinal
<1> DEFINE P == \/ runPc \in {"systemd", "enable", "cloud"}
                \/ runPc = "return" /\ Complete
                => Complete'
<1>1. CourseInv /\ SysInv /\ [Next]_vars => [P]_vars
  <2> SUFFICES ASSUME CourseInv, SysInv, Next, runPc \in Committed \cup {"return"}, Complete
               PROVE  Complete'
    BY DEF SysInv, LastInv, Committed
  <2> USE DEF Committed
  <2>1. CASE DaemonReload \/ DisableCloudInit \/ \E u \in Unit : EnableAndStart(u)
    BY <2>1, CompleteStays DEF DaemonReload, DisableCloudInit, EnableAndStart, Goto, Fail, runVars,
       copyVars, bootVars, motdVars
  <2>2. CASE Return
    BY <2>2, CompleteStays DEF Return, Goto, B!BootEnd, motdVars
  <2>3. CASE Crash
    BY <2>3, CompleteStays DEF Crash, B!BootEnd, M!MotdEnd, C!CopyEnd
  <2>4. CASE DoMotd \/ DoGrub \/ DoInit \/ UndoMotd \/ UndoGrub \/ \E m \in Mapping : DoCopy(m) \/ UndoCopy(m)
    BY <2>4, ClosureStep DEF CourseInv
  <2>5. CASE Extract \/ Verify \/ PkgDep \/ Load \/ Register \/ TxnReturn \/ \E v \in Version : Start(v)
    BY <2>5 DEF Extract, Verify, PkgDep, Load, Register, TxnReturn, Start
  <2> QED BY <2>1, <2>2, <2>3, <2>4, <2>5 DEF Next, Progress
<1> QED BY <1>1, SysInit, SysStep, PTL DEF Spec, CommitIsFinal

-----------------------------------------------------------------------------
\* While Rollback is at work, the last action of the plan is not in effect.
LastUndone == txnPc = "rollback" => effect["init"] # "applied"

\* The Do that fails is either that of the last action or comes before it, so
\* Rollback starts without it (transaction.go:42-50).
LEMMA LastUndoneStep == ASSUME CourseInv, SysInv, LastUndone, [Next]_vars PROVE LastUndone'
<1>1. [Txn!TxnNext]_(Txn!txnVars) /\ effect \in [Action -> Txn!Effect] /\ "init" \in Action
  BY EngineDriven, PlanTypes DEF CourseInv, SysTypeOK, Txn!TxnTypeOK
<1>2. ASSUME NEW a \in Action, Txn!DoErr(a) PROVE LastUndone'
  <2>1. CASE a = "init"
    BY <1>1, <1>2, <2>1 DEF LastUndone, Txn!DoErr
  <2>2. CASE a # "init"
    <3> SUFFICES ASSUME effect["init"] = "applied" PROVE FALSE
      BY <1>1, <1>2, <2>2 DEF LastUndone, Txn!DoErr
    <3>1. txnPc = "run" /\ cur \in Nat /\ cur <= Len(actions) /\ actions = Plan
      BY <1>2 DEF Txn!DoErr, Txn!Reached, CourseInv, SysTypeOK, Txn!TxnTypeOK, SysInv, PcInv, PlanInv
    <3>2. PICK p \in 1..Len(executed) : executed[p] = "init"
      BY <1>1, <3>1 DEF SysInv, Txn!TxnInv, Txn!RunInv, Txn!Holds
    <3>3. PICK k \in 1..(cur - 1) : k <= Len(actions) /\ actions[k] = "init"
      BY <3>1, <3>2 DEF SysInv, Txn!TxnInv, Txn!RunInv, Txn!FromFirst
    <3>4. Len(actions) \in 1..Len(actions) /\ actions[Len(actions)] = "init"
      BY <3>1, PlanTypes, MappingAssumption DEF Plan
    <3>5. k = Len(actions)
      BY <3>1, <3>3, <3>4 DEF SysInv, Txn!TxnInv, Txn!Distinct
    <3> QED BY <3>1, <3>3, <3>5
  <2> QED BY <2>1, <2>2
<1>3. ASSUME NEW a \in Action, Txn!SkipUndo(a) \/ Txn!UndoOk(a) \/ Txn!UndoErr(a) PROVE LastUndone'
  BY <1>1, <1>3 DEF LastUndone, Txn!SkipUndo, Txn!UndoOk, Txn!UndoErr, Txn!Unwinding
<1>4. CASE txnPc' # "rollback" \/ UNCHANGED Txn!txnVars
  BY <1>4 DEF LastUndone, Txn!txnVars
<1>5. ASSUME NEW a \in Action, Txn!Add(a) \/ Txn!SkipDo(a) \/ Txn!DoOk(a) PROVE txnPc' # "rollback"
  BY <1>5 DEF Txn!Add, Txn!SkipDo, Txn!DoOk, Txn!Reached
<1>6. CASE Txn!Run \/ Txn!Commit \/ Txn!Abort \/ Txn!Cleanup \/ Txn!TxnCrash \/ Txn!New
  BY <1>4, <1>6 DEF Txn!Run, Txn!Commit, Txn!Abort, Txn!Cleanup, Txn!TxnCrash, Txn!New
<1> QED BY <1>1, <1>2, <1>3, <1>4, <1>5, <1>6 DEF Txn!TxnNext, Txn!RunStep

\* The Undo of the initramfs action (grub.go:105-116) is never called: it is
\* registered last, so when a Do fails it has not been executed.  This is why
\* module Boot has no such Undo.
THEOREM InitramfsUndoUnreachable == Spec => []~Txn!Unwinding("init")
<1>1. Init => LastUndone
  BY DEF Init, Txn!TxnInit, LastUndone
<1>2. CourseInv /\ LastUndone => ~Txn!Unwinding("init")
  BY OneCall, PlanTypes DEF CourseInv, LastUndone, Txn!Unwinding
<1> QED BY <1>1, <1>2, LastUndoneStep, SysInit, SysStep, PTL DEF Spec
=============================================================================
