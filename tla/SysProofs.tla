----------------------------- MODULE SysProofs -----------------------------
(***************************************************************************)
(* RunUpdate drives the transaction engine and the MOTD action: what is    *)
(* proved of those modules is carried over to the composed system, and     *)
(* with it the types of the system, the gate of the hash and the start of  *)
(* the services are proved.  What the update does to the machine is in     *)
(* module SysEffectProofs.                                                 *)
(***************************************************************************)
EXTENDS SysUpdate, TLAPS

\* The theorems of the components, about the variables of the system.  Every
\* action RunTransaction registers has a Do and an Undo (run.go:76-86).
TP == INSTANCE TransactionProofs WITH HasDo <- Action, HasUndo <- Action
MP == INSTANCE MotdProofs

\* The engine RunTransaction drives is the one the theorems are about: the same
\* invariant ...
LEMMA EngineInv == (Txn!TxnInv <=> TP!TxnInv) /\ (Txn!TxnInv' <=> TP!TxnInv')
BY DEF Txn!TxnInv, TP!TxnInv, Txn!TxnTypeOK, TP!TxnTypeOK, Txn!TxnPc, TP!TxnPc,
       Txn!Effect, TP!Effect, Txn!Distinct, TP!Distinct, Txn!InOrder, TP!InOrder,
       Txn!RunInv, TP!RunInv, Txn!RollbackInv, TP!RollbackInv, Txn!RestInv, TP!RestInv,
       Txn!FromFirst, TP!FromFirst, Txn!Holds, TP!Holds,
       Txn!RollbackComplete, TP!RollbackComplete, Txn!CommitComplete, TP!CommitComplete

\* ... and the same steps.
LEMMA EngineNext == [Txn!TxnNext]_(Txn!txnVars) <=> [TP!TxnNext]_(TP!txnVars)
BY DEF Txn!TxnNext, TP!TxnNext, Txn!txnVars, TP!txnVars, Txn!Add, TP!Add, Txn!Run, TP!Run,
       Txn!RunStep, TP!RunStep, Txn!SkipDo, TP!SkipDo, Txn!DoOk, TP!DoOk, Txn!DoErr, TP!DoErr,
       Txn!SkipUndo, TP!SkipUndo, Txn!UndoOk, TP!UndoOk, Txn!UndoErr, TP!UndoErr,
       Txn!Commit, TP!Commit, Txn!Abort, TP!Abort, Txn!Cleanup, TP!Cleanup,
       Txn!TxnCrash, TP!TxnCrash, Txn!New, TP!New, Txn!Reached, TP!Reached,
       Txn!Unwinding, TP!Unwinding, Txn!Listed, TP!Listed, Txn!ToUndo, TP!ToUndo,
       Txn!LastIndex, TP!LastIndex, Txn!Exhausted, TP!Exhausted, Txn!AfterSkip, TP!AfterSkip,
       Txn!AfterUndoErr, TP!AfterUndoErr

\* So a step of the engine keeps the invariant of Run and Rollback
\* (transaction.go:38-72).
LEMMA EngineStep == Txn!TxnInv /\ [Txn!TxnNext]_(Txn!txnVars) => Txn!TxnInv'
BY EngineInv, EngineNext, TP!NextInv

\* The MOTD action is the one of the theorems, too.
LEMMA MotdSame ==
  /\ M!MotdInit <=> MP!MotdInit
  /\ M!MotdTypeOK <=> MP!MotdTypeOK
  /\ M!MotdTypeOK' <=> MP!MotdTypeOK'
  /\ [M!MotdNext]_(M!motdVars) <=> [MP!MotdNext]_(MP!motdVars)
<1> USE DEF M!NoFile, MP!NoFile, M!Present, MP!Present
<1>1. M!MotdInit <=> MP!MotdInit
  BY DEF M!MotdInit, MP!MotdInit
<1>2. (M!MotdTypeOK <=> MP!MotdTypeOK) /\ (M!MotdTypeOK' <=> MP!MotdTypeOK')
  BY DEF M!MotdTypeOK, MP!MotdTypeOK, M!Entry, MP!Entry
<1>3. [M!MotdNext]_(M!motdVars) <=> [MP!MotdNext]_(MP!motdVars)
  BY DEF M!MotdNext, MP!MotdNext, M!motdVars, MP!motdVars, M!MotdDoBegin, MP!MotdDoBegin,
     M!MotdMove, MP!MotdMove, M!MotdDoErr, MP!MotdDoErr, M!MotdDoOk, MP!MotdDoOk,
     M!MotdUndoBegin, MP!MotdUndoBegin, M!MotdRestore, MP!MotdRestore, M!MotdUndoErr, MP!MotdUndoErr,
     M!MotdUndoOk, MP!MotdUndoOk, M!MotdEnd, MP!MotdEnd, M!Vendor, MP!Vendor, M!copyFile, MP!copyFile,
     M!Backup, MP!Backup, M!Rest, MP!Rest, M!UndoEntries, MP!UndoEntries
<1> QED BY <1>1, <1>2, <1>3

\* Its directories, backups and loops stay in their types (motd.go:32-72).
LEMMA MotdStep == M!MotdTypeOK /\ [M!MotdNext]_(M!motdVars) => M!MotdTypeOK'
BY SysAssumption, MotdSame, MP!MotdTypeStep

-----------------------------------------------------------------------------
\* Every action of the plan is an action of the transaction.
LEMMA PlanTypes ==
  /\ Plan \in Seq(Action) /\ Len(Plan) = Len(MappingSeq) + 3
  /\ Mapping \subseteq Action /\ {"motd", "grub", "init"} \subseteq Action
  /\ \A k \in 1..Len(Plan) : Plan[k] \in Action
<1>1. MappingSeq \in Seq(Mapping) /\ Len(MappingSeq) \in Nat
  BY MappingAssumption
<1>2. Len(Plan) = Len(MappingSeq) + 3 /\ Plan[1] = "motd"
      /\ \A k \in 1..Len(MappingSeq) : Plan[k + 1] = MappingSeq[k]
  BY <1>1 DEF Plan
<1>3. Plan[Len(MappingSeq) + 2] = "grub" /\ Plan[Len(MappingSeq) + 3] = "init"
  BY <1>1 DEF Plan
<1>4. \A k \in 1..Len(Plan) : Plan[k] \in Action
  BY DEF Action
<1>5. Plan \in Seq(Action)
  <2>1. Plan \in Seq(Mapping \cup {"motd", "grub", "init"})
    BY <1>1 DEF Plan
  <2> QED BY <2>1, <1>4
<1>6. ASSUME NEW m \in Mapping PROVE m \in Action
  <2>1. PICK k \in 1..Len(MappingSeq) : m = MappingSeq[k]
    BY DEF Mapping
  <2>2. k + 1 \in 1..Len(Plan) /\ Plan[k + 1] = m
    BY <1>1, <1>2, <2>1
  <2> QED BY <2>2, <1>4
<1>7. "motd" \in Action /\ "grub" \in Action /\ "init" \in Action
  <2>1. 1 \in 1..Len(Plan) /\ Len(MappingSeq) + 2 \in 1..Len(Plan) /\ Len(MappingSeq) + 3 \in 1..Len(Plan)
    BY <1>1, <1>2
  <2> QED BY <2>1, <1>2, <1>3, <1>4
<1> QED BY <1>2, <1>4, <1>5, <1>6, <1>7

\* Whatever a step of the update does, to its transaction it is a step of the
\* engine or none.
LEMMA EngineDriven ==
  ASSUME Txn!TxnInv, [Next]_vars PROVE [Txn!TxnNext]_(Txn!txnVars)
<1> USE DEF Txn!TxnNext, Txn!RunStep
<1>0. ASSUME UNCHANGED txnVars PROVE UNCHANGED Txn!txnVars
  BY <1>0 DEF txnVars, Txn!txnVars
<1>1. CASE Load
  BY <1>0, <1>1 DEF Load
<1>2. CASE Register
  <2>1. CASE Len(actions) < Len(Plan)
    <3>1. Len(actions) \in Nat
      BY DEF Txn!TxnInv, Txn!TxnTypeOK
    <3>2. Plan[Len(actions) + 1] \in Action
      BY <2>1, <3>1, PlanTypes
    <3> QED BY <1>2, <2>1, <3>2 DEF Register
  <2>2. CASE ~(Len(actions) < Len(Plan))
    BY <1>2, <2>2 DEF Register
  <2> QED BY <2>1, <2>2
<1>3. CASE DoMotd \/ UndoMotd
  BY <1>0, <1>3, PlanTypes DEF DoMotd, UndoMotd
<1>4. ASSUME NEW m \in Mapping, DoCopy(m) \/ UndoCopy(m) PROVE [Txn!TxnNext]_(Txn!txnVars)
  BY <1>0, <1>4, PlanTypes DEF DoCopy, UndoCopy
<1>5. CASE DoGrub \/ DoInit \/ UndoGrub
  BY <1>5, PlanTypes DEF DoGrub, DoInit, UndoGrub
<1>6. CASE TxnReturn
  BY <1>6 DEF TxnReturn, Deferred
<1>7. CASE Crash
  BY <1>0, <1>7 DEF Crash
<1>8. ASSUME NEW v \in Version, Start(v) PROVE [Txn!TxnNext]_(Txn!txnVars)
  BY <1>0, <1>8 DEF Start
<1>9. CASE Extract \/ Verify \/ PkgDep \/ DaemonReload \/ DisableCloudInit \/ Return
  BY <1>0, <1>9 DEF Extract, Verify, PkgDep, DaemonReload, DisableCloudInit, Return
<1>10. ASSUME NEW u \in Unit, EnableAndStart(u) PROVE [Txn!TxnNext]_(Txn!txnVars)
  BY <1>0, <1>10 DEF EnableAndStart
<1>11. CASE UNCHANGED vars
  BY <1>0, <1>11 DEF vars
<1> QED
  BY <1>1, <1>2, <1>3, <1>4, <1>5, <1>6, <1>7, <1>8, <1>9, <1>10, <1>11 DEF Next, Progress

\* The same for the MOTD action.
LEMMA MotdDriven == ASSUME [Next]_vars PROVE [M!MotdNext]_(M!motdVars)
<1> USE DEF M!MotdNext
<1>0. ASSUME UNCHANGED motdVars PROVE UNCHANGED M!motdVars
  BY <1>0 DEF motdVars, M!motdVars
<1>1. CASE DoMotd \/ UndoMotd
  BY <1>1 DEF DoMotd, UndoMotd
<1>2. CASE TxnReturn \/ Crash
  BY <1>0, <1>2 DEF TxnReturn, Crash
<1>3. CASE PkgDep
  BY <1>0, <1>3 DEF PkgDep
<1>4. ASSUME NEW m \in Mapping, DoCopy(m) \/ UndoCopy(m) PROVE UNCHANGED motdVars
  BY <1>4 DEF DoCopy, UndoCopy
<1>5. ASSUME NEW v \in Version, Start(v) PROVE UNCHANGED motdVars
  BY <1>5 DEF Start
<1>6. ASSUME NEW u \in Unit, EnableAndStart(u) PROVE UNCHANGED motdVars
  BY <1>6 DEF EnableAndStart
<1>7. CASE Extract \/ Verify \/ Load \/ Register \/ DoGrub \/ DoInit \/ UndoGrub
  BY <1>0, <1>7 DEF Extract, Verify, Load, Register, DoGrub, DoInit, UndoGrub
<1>8. CASE DaemonReload \/ DisableCloudInit \/ Return
  BY <1>0, <1>8 DEF DaemonReload, DisableCloudInit, Return
<1>9. CASE UNCHANGED vars
  BY <1>0, <1>9 DEF vars
<1> QED
  BY <1>0, <1>1, <1>2, <1>3, <1>4, <1>5, <1>6, <1>7, <1>8, <1>9 DEF Next, Progress

-----------------------------------------------------------------------------
\* The composed system runs its transaction as module Transaction says.
THEOREM SystemDrivesTransaction == Spec => DrivesTransaction
<1>1. Init => Txn!TxnInit /\ Txn!TxnInv
  BY EngineInv, TP!InitInv DEF Init, Txn!TxnInit, TP!TxnInit
<1>2. Txn!TxnInv /\ [Next]_vars => [Txn!TxnNext]_(Txn!txnVars) /\ Txn!TxnInv'
  BY EngineDriven, EngineStep
<1> QED BY <1>1, <1>2, PTL DEF Spec, DrivesTransaction, Txn!TxnSpec

-----------------------------------------------------------------------------
(* Types *)

\* Unpacking, copying and removing leave trees of complete, cut or absent files.
LEMMA CopyTypeStep == ASSUME SysTypeOK, [Next]_vars PROVE C!CopyTypeOK'
<1> USE SysAssumption DEF C!CopyTypeOK, C!Tree, copyVars
<1>0. C!CopyTypeOK /\ pkg \in Version /\ Regular(pkg) \subseteq File /\ Outside[pkg] \subseteq File
  BY DEF SysTypeOK, Regular
<1>1. CASE UNCHANGED copyVars
  BY <1>0, <1>1
<1>2. CASE Extract
  <2>1. ASSUME NEW S PROVE Unpacked(S) \in C!Tree /\ Strayed(S) \in C!Tree
    BY <1>0 DEF Unpacked, Strayed
  <2>2. ASSUME NEW S, NEW f \in File
        PROVE  [Unpacked(S) EXCEPT ![f] = Cut] \in C!Tree /\ [Strayed(S) EXCEPT ![f] = Cut] \in C!Tree
    BY <1>0, <2>1
  <2>3. tmp' \in C!Tree /\ dst' \in C!Tree
    BY <1>0, <1>2, <2>1, <2>2 DEF Extract
  <2> QED BY <1>0, <1>2, <2>3 DEF Extract
<1>3. ASSUME NEW t \in C!Tree, NEW S PROVE C!Removed(t, S) \in C!Tree /\ C!RemoveAllErr(t, S) \subseteq C!Tree
  BY DEF C!Removed, C!RemoveAllErr
<1>4. ASSUME NEW m \in Mapping, DoCopy(m) PROVE C!CopyTypeOK'
  <2>1. CASE C!CopyBegin(m)
    BY <1>0, <1>3, <2>1 DEF C!CopyBegin
  <2>2. ASSUME NEW f \in File, C!CopyFile(f) PROVE C!CopyTypeOK'
    BY <1>0, <2>2 DEF C!CopyFile, C!Copied
  <2>3. CASE C!CopyErr(m) \/ C!CopyOk(m)
    BY <1>0, <2>3 DEF C!CopyErr, C!CopyOk
  <2> QED BY <1>4, <2>1, <2>2, <2>3 DEF DoCopy
<1>5. ASSUME NEW m \in Mapping, UndoCopy(m) PROVE C!CopyTypeOK'
  BY <1>0, <1>3, <1>5 DEF UndoCopy, C!CopyUndoOk, C!CopyUndoErr
<1>6. CASE Return \/ Crash
  BY <1>0, <1>3, <1>6 DEF Return, Crash, C!CopyEnd
<1>7. ASSUME NEW v \in Version, Start(v) PROVE C!CopyTypeOK'
  BY <1>0, <1>7 DEF Start
<1>8. ASSUME NEW u \in Unit, EnableAndStart(u) PROVE UNCHANGED copyVars
  BY <1>8 DEF EnableAndStart
<1>9. CASE Verify \/ PkgDep \/ Load \/ Register \/ DoMotd \/ DoGrub \/ DoInit \/ UndoMotd \/ UndoGrub
  BY <1>1, <1>9 DEF Verify, PkgDep, Load, Register, DoMotd, DoGrub, DoInit, UndoMotd, UndoGrub
<1>10. CASE TxnReturn \/ DaemonReload \/ DisableCloudInit \/ UNCHANGED vars
  BY <1>1, <1>10 DEF TxnReturn, DaemonReload, DisableCloudInit, vars
<1> QED
  BY <1>1, <1>2, <1>4, <1>5, <1>6, <1>7, <1>8, <1>9, <1>10 DEF Next, Progress

\* The boot files hold one of the texts that are told apart.
LEMMA BootTypeStep == ASSUME SysTypeOK, [Next]_vars PROVE B!BootTypeOK'
<1> USE DEF B!BootTypeOK, B!Text, bootVars
<1>0. B!BootTypeOK
  BY DEF SysTypeOK
<1>1. CASE UNCHANGED bootVars
  BY <1>0, <1>1
<1>2. CASE Register
  BY <1>0, <1>2 DEF Register, B!Capture, B!Unreadable
<1>3. CASE DoGrub \/ DoInit \/ UndoGrub
  BY <1>0, <1>3 DEF DoGrub, DoInit, UndoGrub, B!GrubDoOk, B!GrubDoErr, B!InitDoOk, B!InitDoErr,
     B!GrubUndoOk, B!GrubUndoErr, B!WithCmdline, B!WriteErr, B!Restored
<1>4. CASE Return \/ Crash
  BY <1>0, <1>4 DEF Return, Crash, B!BootEnd
<1>5. ASSUME NEW m \in Mapping, DoCopy(m) \/ UndoCopy(m) PROVE UNCHANGED bootVars
  BY <1>5 DEF DoCopy, UndoCopy
<1>6. ASSUME NEW v \in Version, Start(v) PROVE UNCHANGED bootVars
  BY <1>6 DEF Start
<1>7. ASSUME NEW u \in Unit, EnableAndStart(u) PROVE UNCHANGED bootVars
  BY <1>7 DEF EnableAndStart
<1>8. CASE Extract \/ Verify \/ PkgDep \/ Load \/ DoMotd \/ UndoMotd
  BY <1>1, <1>8 DEF Extract, Verify, PkgDep, Load, DoMotd, UndoMotd
<1>9. CASE TxnReturn \/ DaemonReload \/ DisableCloudInit \/ UNCHANGED vars
  BY <1>1, <1>9 DEF TxnReturn, DaemonReload, DisableCloudInit, vars
<1> QED
  BY <1>1, <1>2, <1>3, <1>4, <1>5, <1>6, <1>7, <1>8, <1>9 DEF Next, Progress

\* RunUpdate's own variables.
RunTypes ==
  /\ runPc \in {"idle", "extract", "verify", "pkgdep", "load", "register",
                "txn", "systemd", "enable", "cloud", "return"}
  /\ pkg \in Version
  /\ ret \in {"none", "ok", "error", "fatal", "crash"}
  /\ units \in SUBSET Unit
  /\ loaded \in [Unit -> Version \cup {Vendored, Absent, Cut}]
  /\ started \in [Unit -> Version \cup {Vendored, Absent, Cut}]
  /\ marker \in BOOLEAN /\ profile \in {"before", "written"}
  /\ runs \in 0..MaxRuns
  /\ before \in [dst : C!Tree, grub : B!Text]

\* They keep their types.
LEMMA RunTypeStep == ASSUME SysTypeOK, [Next]_vars PROVE RunTypes'
<1> USE SysAssumption DEF RunTypes, runVars, sdVars
<1>0. RunTypes /\ dst \in C!Tree /\ grubFile \in B!Text
  BY DEF SysTypeOK, C!CopyTypeOK, B!BootTypeOK
<1>1. CASE UNCHANGED <<sdVars, runVars>>
  BY <1>0, <1>1
<1>2. ASSUME NEW v \in Version, Start(v) PROVE RunTypes'
  BY <1>0, <1>2 DEF Start, EnsureMimoRoot
<1>3. CASE Extract \/ Verify \/ PkgDep
  BY <1>0, <1>3 DEF Extract, Verify, PkgDep, Goto, Fail, Rejected
<1>4. CASE Load \/ Register
  BY <1>0, <1>4 DEF Load, Register, Goto
<1>5. CASE TxnReturn
  BY <1>0, <1>5 DEF TxnReturn, Goto, Fail
<1>6. CASE DaemonReload
  <2>1. \A u \in Unit : dst[u] \in Version \cup {Vendored, Absent, Cut}
    BY <1>0 DEF C!Tree
  <2> QED BY <1>0, <1>6, <2>1 DEF DaemonReload, services, Reread, Goto, Fail
<1>7. ASSUME NEW u \in Unit, EnableAndStart(u) PROVE RunTypes'
  BY <1>0, <1>7 DEF EnableAndStart, Goto
<1>8. CASE DisableCloudInit \/ Return \/ Crash
  BY <1>0, <1>8 DEF DisableCloudInit, Return, Crash, Goto, Fail
<1>9. ASSUME NEW m \in Mapping, DoCopy(m) \/ UndoCopy(m) PROVE UNCHANGED <<sdVars, runVars>>
  BY <1>9 DEF DoCopy, UndoCopy
<1>10. CASE DoMotd \/ DoGrub \/ DoInit \/ UndoMotd \/ UndoGrub \/ UNCHANGED vars
  BY <1>1, <1>10 DEF DoMotd, DoGrub, DoInit, UndoMotd, UndoGrub, vars
<1> QED
  BY <1>1, <1>2, <1>3, <1>4, <1>5, <1>6, <1>7, <1>8, <1>9, <1>10 DEF Next, Progress

\* What an update has met of earlier ones are files.
LEMMA LeftoverTypeStep == ASSUME SysTypeOK, [Next]_vars PROVE leftover' \in SUBSET File
<1> USE SysAssumption
<1>0. leftover \in SUBSET File
  BY DEF SysTypeOK
<1>1. ASSUME NEW v \in Version, Start(v) PROVE leftover' \in SUBSET File
  BY <1>1 DEF Start
<1>2. ASSUME NEW m \in Mapping, DoCopy(m) PROVE leftover' \in SUBSET File
  BY <1>0, <1>2 DEF DoCopy
<1>3. CASE UNCHANGED leftover
  BY <1>0, <1>3
<1>4. CASE Extract \/ Return \/ Crash \/ \E m \in Mapping : UndoCopy(m)
  BY <1>3, <1>4 DEF Extract, Return, Crash, UndoCopy
<1>5. CASE Verify \/ PkgDep \/ Load \/ Register \/ DoMotd \/ DoGrub \/ DoInit \/ UndoMotd \/ UndoGrub
  BY <1>3, <1>5 DEF Verify, PkgDep, Load, Register, DoMotd, DoGrub, DoInit, UndoMotd, UndoGrub, copyVars
<1>6. CASE TxnReturn \/ DaemonReload \/ DisableCloudInit \/ UNCHANGED vars \/ \E u \in Unit : EnableAndStart(u)
  BY <1>3, <1>6 DEF TxnReturn, DaemonReload, DisableCloudInit, EnableAndStart, vars, copyVars
<1> QED BY <1>1, <1>2, <1>4, <1>5, <1>6 DEF Next, Progress

\* The machine starts in its types.
LEMMA TypeInit == Init => SysTypeOK /\ Txn!TxnInv
<1> SUFFICES ASSUME Init PROVE SysTypeOK /\ Txn!TxnInv
  OBVIOUS
<1> USE SysAssumption
<1>1. Txn!TxnInv
  BY EngineInv, TP!InitInv DEF Init, Txn!TxnInit, TP!TxnInit
<1>2. M!MotdTypeOK
  BY MotdSame, MP!MotdTypeInit DEF Init
<1>3. dst \in C!Tree /\ tmp \in C!Tree
  BY DEF Init, C!Tree
<1>4. C!CopyTypeOK /\ B!BootTypeOK
  BY <1>3 DEF Init, C!CopyTypeOK, B!BootTypeOK, B!BootInit, B!Text
<1>5. RunTypes
  <2>1. \A u \in Unit : dst[u] \in Version \cup {Vendored, Absent, Cut}
    BY <1>3 DEF C!Tree
  <2>2. loaded \in [Unit -> Version \cup {Vendored, Absent, Cut}]
        /\ started \in [Unit -> Version \cup {Vendored, Absent, Cut}]
    BY <2>1 DEF Init
  <2>3. before \in [dst : C!Tree, grub : B!Text]
    BY <1>3, <1>4 DEF Init, B!BootTypeOK
  <2>4. marker \in BOOLEAN
    BY Zenon DEF Init
  <2>5. runPc = "idle" /\ ret = "none" /\ runs \in 0..MaxRuns /\ pkg \in Version /\ units = {}
        /\ profile = "before"
    BY DEF Init
  <2> QED BY <2>2, <2>3, <2>4, <2>5 DEF RunTypes
<1>6. leftover \in SUBSET File
  BY DEF Init
<1> QED BY <1>1, <1>2, <1>4, <1>5, <1>6 DEF SysTypeOK, RunTypes, Txn!TxnInv

\* Every step keeps every component in its types.
LEMMA TypeStep == SysTypeOK /\ Txn!TxnInv /\ [Next]_vars => SysTypeOK' /\ Txn!TxnInv'
<1> SUFFICES ASSUME SysTypeOK, Txn!TxnInv, [Next]_vars PROVE SysTypeOK' /\ Txn!TxnInv'
  OBVIOUS
<1>1. Txn!TxnInv' /\ Txn!TxnTypeOK'
  BY EngineDriven, EngineStep DEF Txn!TxnInv
<1>2. M!MotdTypeOK'
  BY MotdDriven, MotdStep DEF SysTypeOK
<1> QED BY <1>1, <1>2, CopyTypeStep, BootTypeStep, RunTypeStep, LeftoverTypeStep DEF SysTypeOK, RunTypes

\* Type correctness of the system update (run.go:106-137) and of the components it
\* drives.
THEOREM SystemTypes == Spec => []SysTypeOK
BY TypeInit, TypeStep, PTL DEF Spec

\* Over any number of updates that fail, are rolled back or are killed anywhere in
\* RunUpdate, and with apt installing scripts in between (run.go:119), no MOTD
\* script is lost and none is replaced by an older one, except where the Undo of
\* that script was itself cut short.
THEOREM UpdatesKeepScripts == Spec => [](M!NoScriptLost /\ M!NoStaleScript)
<1>1. Init => MP!LatestInv
  BY SysAssumption, MotdSame, MP!LatestInit DEF Init
<1>2. SysTypeOK /\ MP!LatestInv /\ [Next]_vars => MP!LatestInv'
  BY SysAssumption, MotdSame, MotdDriven, MP!LatestStep DEF SysTypeOK
<1>3. SysTypeOK /\ MP!LatestInv => M!NoScriptLost /\ M!NoStaleScript
  BY DEF SysTypeOK, M!MotdTypeOK, MP!LatestInv, M!NoScriptLost, M!NoStaleScript
<1> QED BY <1>1, <1>2, <1>3, SystemTypes, PTL DEF Spec

-----------------------------------------------------------------------------
(* The course of RunUpdate *)

\* A step of a closure keeps RunUpdate and what it has read; the engine stays in
\* its loop.
LEMMA ClosureStep ==
  ASSUME PcInv,
         DoMotd \/ DoGrub \/ DoInit \/ UndoMotd \/ UndoGrub \/ \E m \in Mapping : DoCopy(m) \/ UndoCopy(m)
  PROVE  /\ runPc = "txn" /\ txnPc' \in {"run", "rollback"}
         /\ UNCHANGED <<runPc, pkg, ret, before, units, loaded, started, marker, actions, origGrub, origInit>>
<1> USE DEF PcInv, Txn!DoOk, Txn!DoErr, Txn!UndoOk, Txn!UndoErr, Txn!Reached, Txn!Unwinding,
      runVars, sdVars, txnVars, bootVars
<1>1. CASE DoMotd \/ UndoMotd
  BY <1>1 DEF DoMotd, UndoMotd
<1>2. CASE DoGrub \/ DoInit \/ UndoGrub
  BY <1>2 DEF DoGrub, DoInit, UndoGrub, B!GrubDoOk, B!GrubDoErr, B!InitDoOk, B!InitDoErr,
     B!GrubUndoOk, B!GrubUndoErr
<1>3. ASSUME NEW m \in Mapping, DoCopy(m) PROVE runPc = "txn" /\ txnPc' \in {"run", "rollback"}
        /\ UNCHANGED <<runPc, pkg, ret, before, units, loaded, started, marker, actions, origGrub, origInit>>
  BY <1>3 DEF DoCopy
<1>4. ASSUME NEW m \in Mapping, UndoCopy(m) PROVE runPc = "txn" /\ txnPc' \in {"run", "rollback"}
        /\ UNCHANGED <<runPc, pkg, ret, before, units, loaded, started, marker, actions, origGrub, origInit>>
  BY <1>4 DEF UndoCopy
<1> QED BY <1>1, <1>2, <1>3, <1>4

\* The transaction is open while RunUpdate registers, and runs while it waits for
\* Run (run.go:72-95).
LEMMA PcStep == ASSUME SysTypeOK, PcInv, [Next]_vars PROVE PcInv'
<1> USE DEF PcInv, txnVars, runVars, sdVars, Goto, Fail
<1>1. CASE DoMotd \/ DoGrub \/ DoInit \/ UndoMotd \/ UndoGrub \/ \E m \in Mapping : DoCopy(m) \/ UndoCopy(m)
  BY <1>1, ClosureStep
<1>2. ASSUME NEW v \in Version, Start(v) PROVE PcInv'
  BY <1>2 DEF Start
<1>3. CASE Extract \/ Verify \/ PkgDep
  BY <1>3 DEF Extract, Verify, PkgDep, Rejected
<1>4. CASE Load
  BY <1>4 DEF Load, Txn!New
<1>5. CASE Register
  BY <1>5 DEF Register, Txn!Add, Txn!Run
<1>6. CASE TxnReturn
  BY <1>6 DEF TxnReturn, Deferred, Txn!Commit, Txn!Abort, Txn!Cleanup
<1>7. CASE DaemonReload
  BY <1>7 DEF DaemonReload
<1>8. ASSUME NEW u \in Unit, EnableAndStart(u) PROVE PcInv'
  BY <1>8 DEF EnableAndStart
<1>9. CASE DisableCloudInit \/ Return
  BY <1>9 DEF DisableCloudInit, Return
<1>10. CASE Crash
  <2>1. txnPc' \in {"closed", "crashed"}
    <3>1. CASE txnPc \in {"open", "run", "rollback"}
      BY <1>10, <3>1 DEF Crash, Txn!TxnCrash
    <3>2. CASE txnPc = "returned"
      BY <1>10, <3>2 DEF Crash, Txn!Cleanup
    <3>3. CASE txnPc \in {"closed", "crashed"}
      BY <1>10, <3>3 DEF Crash
    <3> QED BY <3>1, <3>2, <3>3 DEF SysTypeOK, Txn!TxnTypeOK, Txn!TxnPc
  <2> QED BY <1>10, <2>1 DEF Crash
<1>11. CASE UNCHANGED vars
  BY <1>11 DEF vars
<1> QED
  BY <1>1, <1>2, <1>3, <1>4, <1>5, <1>6, <1>7, <1>8, <1>9, <1>10, <1>11 DEF Next, Progress

\* Nothing but the hash check opens the gate (run.go:100-102), and what systemd
\* has read stays installed while the services are started (systemd.go:37-50).
LEMMA GateStep == ASSUME SysTypeOK, PcInv, GateInv, [Next]_vars PROVE GateInv'
<1> USE DEF GateInv, Untouched, Committed, runVars, sdVars, bootVars, copyVars, Goto, Fail
<1>1. CASE DoMotd \/ DoGrub \/ DoInit \/ UndoMotd \/ UndoGrub \/ \E m \in Mapping : DoCopy(m) \/ UndoCopy(m)
  BY <1>1, ClosureStep
<1>2. ASSUME NEW v \in Version, Start(v) PROVE GateInv'
  BY <1>2 DEF Start
<1>3. CASE Extract \/ Verify \/ PkgDep
  BY <1>3 DEF Extract, Verify, PkgDep, Rejected, VerifyHash
<1>4. CASE Load
  BY <1>4 DEF Load
<1>5. CASE Register
  BY <1>5 DEF Register, B!Capture
<1>6. CASE TxnReturn
  BY <1>6 DEF TxnReturn
<1>7. CASE DaemonReload
  BY <1>7 DEF DaemonReload, Reread
<1>8. ASSUME NEW u \in Unit, EnableAndStart(u) PROVE GateInv'
  BY <1>8 DEF EnableAndStart
<1>9. CASE DisableCloudInit
  BY <1>9 DEF DisableCloudInit
<1>10. CASE Return \/ Crash
  BY <1>10 DEF Return, Crash, B!BootEnd
<1>11. CASE UNCHANGED vars
  BY <1>11 DEF vars
<1> QED
  BY <1>1, <1>2, <1>3, <1>4, <1>5, <1>6, <1>7, <1>8, <1>9, <1>10, <1>11 DEF Next, Progress

\* What the following theorems rest on.
CourseInv == SysTypeOK /\ Txn!TxnInv /\ PcInv /\ GateInv

\* The course of RunUpdate, over any number of updates.
LEMMA Course == Spec => []CourseInv
<1>1. Init => CourseInv
  <2> SUFFICES ASSUME Init PROVE PcInv /\ GateInv
    BY TypeInit DEF CourseInv
  <2> QED BY DEF Init, PcInv, GateInv, Untouched, Committed, Txn!TxnInit, B!BootInit
<1>2. CourseInv /\ [Next]_vars => CourseInv'
  BY TypeStep, PcStep, GateStep DEF CourseInv
<1> QED BY <1>1, <1>2, PTL DEF Spec

\* Once it is unpacked, a release whose hash does not match changes nothing on the
\* machine (run.go:96-104): what precedes the check is the unpacking itself, which
\* writes to wherever the entry names lead, and EnsureMimoRoot (run.go:109), the
\* only one that writes the profile.
THEOREM UnverifiedStaysOut == Spec => UnverifiedNeverInstalled
<1> DEFINE Same == UNCHANGED <<dst, motdDir, motdBak, bootVars, units, loaded, started, marker>>
           P == /\ pkg \notin Genuine /\ runPc # "extract" => Same
                /\ runPc # "idle" => UNCHANGED profile
<1>1. CourseInv /\ [Next]_vars => [P]_vars
  <2> SUFFICES ASSUME CourseInv, Next PROVE P
    OBVIOUS
  <2> USE DEF CourseInv, PcInv, GateInv, Committed, copyVars, motdVars, bootVars, sdVars
  <2>0. pkg \notin Genuine => runPc \in {"idle", "extract", "verify", "return"}
    BY DEF SysTypeOK
  <2>1. CASE DoMotd \/ DoGrub \/ DoInit \/ UndoMotd \/ UndoGrub \/ \E m \in Mapping : DoCopy(m) \/ UndoCopy(m)
    <3>1. UNCHANGED profile
      BY <2>1 DEF DoMotd, DoGrub, DoInit, UndoMotd, UndoGrub, DoCopy, UndoCopy
    <3> QED BY <2>0, <2>1, <3>1, ClosureStep
  <2>2. ASSUME NEW v \in Version, Start(v) PROVE P
    BY <2>2 DEF Start
  <2>3. CASE Extract \/ Verify
    BY <2>3 DEF Extract, Verify
  <2>4. CASE Return
    BY <2>4 DEF Return, B!BootEnd
  <2>5. CASE Crash
    BY <2>0, <2>5 DEF Crash, B!BootEnd, M!MotdEnd, C!CopyEnd
  <2>6. CASE PkgDep \/ Load \/ Register \/ TxnReturn \/ DaemonReload \/ DisableCloudInit
             \/ \E u \in Unit : EnableAndStart(u)
    BY <2>0, <2>6 DEF PkgDep, Load, Register, TxnReturn, DaemonReload, DisableCloudInit, EnableAndStart
  <2> QED BY <2>1, <2>2, <2>3, <2>4, <2>5, <2>6 DEF Next, Progress
<1> QED BY <1>1, Course, PTL DEF Spec, UnverifiedNeverInstalled

\* Every unit is started from the file that is installed (systemd.go:37-50).
THEOREM InstalledUnitsStart == Spec => StartsInstalledUnit
<1> DEFINE P == \A u \in Unit : started'[u] # started[u] => started'[u] = dst[u] /\ ret = "none"
<1>1. CourseInv /\ [Next]_vars => [P]_vars
  <2> SUFFICES ASSUME CourseInv, Next PROVE P
    OBVIOUS
  <2> USE DEF CourseInv, sdVars
  <2>1. CASE DoMotd \/ DoGrub \/ DoInit \/ UndoMotd \/ UndoGrub \/ \E m \in Mapping : DoCopy(m) \/ UndoCopy(m)
    BY <2>1, ClosureStep
  <2>2. ASSUME NEW u \in Unit, EnableAndStart(u) PROVE P
    BY <2>2 DEF EnableAndStart, PcInv, GateInv, SysTypeOK
  <2>3. CASE Extract \/ Verify \/ PkgDep \/ Load \/ Register \/ \E v \in Version : Start(v)
    BY <2>3 DEF Extract, Verify, PkgDep, Load, Register, Start
  <2>4. CASE TxnReturn \/ DaemonReload \/ DisableCloudInit \/ Return \/ Crash
    BY <2>4 DEF TxnReturn, DaemonReload, DisableCloudInit, Return, Crash
  <2> QED BY <2>1, <2>2, <2>3, <2>4 DEF Next, Progress
<1> QED BY <1>1, Course, PTL DEF Spec, StartsInstalledUnit
=============================================================================
