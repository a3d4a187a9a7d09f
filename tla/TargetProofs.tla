---------------------------- MODULE TargetProofs ----------------------------
(***************************************************************************)
(* Proofs about module TargetUpdate, for any mappings and configurations,  *)
(* any number of updaters, updates and MIMO processes, and any             *)
(* interleaving of the updaters, the target and the operators.             *)
(***************************************************************************)
EXTENDS TargetUpdate, TLAPS

\* SaveSpdkConfigAndGetCommand has found a process by lsof and not killed it yet.
Saving == {"ps", "helper", "save", "saving", "kill"}

\* MIMO was stopped, or not found.
Stopped == {"load", "copy", "walk", "restart"}

\* What the memory of an updater says about where it is.
MemoryInv ==
  \A u \in Updater :
    /\ pc[u] \in {"copy", "walk"} => idx[u] <= Len(MappingSeq)
    /\ pc[u] \in Saving => pid[u] # 0
    /\ pc[u] \notin Saving \cup Stopped => u \notin orig
    /\ pc[u] \notin {"copy", "walk", "restart"} => idx[u] = 1

TypeInv == TgtTypeOK /\ MemoryInv

-----------------------------------------------------------------------------
\* The constants as the provers need them.
LEMMA Constants ==
  /\ Len(MappingSeq) \in Nat /\ MaxLaunch \in Nat
  /\ \A k \in 1..Len(MappingSeq) : MappingSeq[k] \in Mapping /\ Under[MappingSeq[k]] \subseteq File
BY TargetAssumption DEF Mapping

\* The files stay files: a copy or a removal leaves no other kind of entry.
LEMMA FileStep ==
  ASSUME FileTypes, MemTypes, MemoryInv, [Next]_vars PROVE FileTypes'
<1> USE TargetAssumption, Constants DEF FileTypes, Content, fileVars, At
<1>1. CASE UNCHANGED fileVars
  BY <1>1
<1>2. ASSUME NEW u \in Updater, Unpack(u) \/ Crash(u) PROVE FileTypes'
  <2>1. \A c \in {Cut, Release} : Closed(u, c) \in [File -> Content \cup Updater]
    BY DEF Closed
  <2>2. \A f \in File : Created(u, f) \in [File -> Content \cup Updater]
    BY <2>1 DEF Created
  <2>3. todo[u] \subseteq File
    BY DEF MemTypes
  <2> HIDE DEF Content
  <2> QED BY <1>2, <2>1, <2>2, <2>3 DEF Unpack, Crash
<1>3. ASSUME NEW u \in Updater, CopyHead(u) PROVE FileTypes'
  BY <1>3 DEF CopyHead, Removed
<1>4. ASSUME NEW u \in Updater, Walk(u) PROVE FileTypes'
  <2>1. \A f \in File : Read(f) \in {Installed, Release, Absent, Cut}
    BY DEF Read
  <2>2. todo[u] \subseteq File
    BY DEF MemTypes
  <2> QED BY <1>4, <2>1, <2>2 DEF Walk, Copied
<1>5. ASSUME NEW u \in Updater, Return(u) PROVE FileTypes'
  BY <1>5 DEF Return
<1>6. Environment => UNCHANGED fileVars
  BY DEF Environment, LaunchByHand, Launched, Reconfigure, ProcEnds, RemoveStaleSock,
    RestartedUp, RestartFails, Reaped
<1>7. ASSUME NEW u \in Updater, Start(u) \/ Proceed(u) \/ Detect(u) \/ ConfirmStop(u) \/ Lsof(u)
        \/ Ps(u) \/ StatHelper(u) \/ SaveBegin(u) \/ SaveEnd(u) \/ Kill(u) \/ LoadMappings(u)
        \/ Restart(u)
      PROVE UNCHANGED fileVars
  BY <1>7 DEF Start, Proceed, Detect, ConfirmStop, Lsof, Ps, StatHelper, SaveBegin, SaveEnd,
    Kill, LoadMappings, Restart
<1> QED BY <1>1, <1>2, <1>3, <1>4, <1>5, <1>6, <1>7 DEF Next, Progress, vars

\* A process that ends, or that lsof lists, is one of those that were started.
LEMMA Processes ==
  ASSUME MimoTypes
  PROVE  Holders \subseteq 1..MaxLaunch /\ (Up /\ Ended => dying' \subseteq 1..MaxLaunch)
<1>1. Up => proc \in 1..MaxLaunch
  BY TargetAssumption DEF MimoTypes, Up
<1>2. Holders \subseteq 1..MaxLaunch
  BY <1>1 DEF MimoTypes, Holders, Up
<1> QED BY <1>1, <1>2 DEF MimoTypes, Ended

\* The target's processes, its configurations and the saved one.
LEMMA MimoStep == ASSUME MimoTypes, [Next]_vars PROVE MimoTypes'
<1> USE TargetAssumption DEF MimoTypes, Up, mimoVars
<1>1. CASE UNCHANGED mimoVars
  BY <1>1
<1>2. ASSUME NEW c \in Config, Launched(c), starting' \subseteq Updater PROVE MimoTypes'
  BY <1>2 DEF Launched
<1>3. ASSUME NEW c \in Config, Reconfigure(c) PROVE MimoTypes'
  BY <1>3 DEF Reconfigure
<1>4. ASSUME ProcEnds \/ RemoveStaleSock \/ \E p \in dying : Reaped(p) PROVE MimoTypes'
  <2>1. CASE ProcEnds
    <3>1. dying' \subseteq 1..MaxLaunch
      BY <2>1, Processes DEF ProcEnds
    <3> QED BY <2>1, <3>1 DEF ProcEnds, Ended
  <2>2. CASE RemoveStaleSock
    BY <2>2 DEF RemoveStaleSock
  <2>3. ASSUME NEW p \in dying, Reaped(p) PROVE MimoTypes'
    BY <2>3 DEF Reaped
  <2> QED BY <1>4, <2>1, <2>2, <2>3
<1>5. ASSUME NEW u \in Updater, RestartFails(u) \/ Restart(u) PROVE MimoTypes'
  BY <1>5 DEF RestartFails, Restart
<1>6. ASSUME NEW u \in Updater, Lsof(u) \/ SaveBegin(u) \/ SaveEnd(u) \/ Kill(u) PROVE MimoTypes'
  <2>1. CASE Lsof(u)
    <3>1. seen' \subseteq Config
      <4>1. \A p \in Holders : p = proc => Up
        BY Processes DEF Up
      <4> QED BY <2>1, <4>1 DEF Lsof
    <3> QED BY <2>1, <3>1 DEF Lsof
  <2>2. CASE SaveBegin(u) \/ SaveEnd(u)
    BY <2>2 DEF Served, SaveBegin, SaveEnd
  <2>3. CASE Kill(u)
    <3>1. CASE Alive(u) /\ Ended
      <4>1. dying' \subseteq 1..MaxLaunch
        BY <3>1, Processes DEF Alive
      <4> QED BY <2>3, <3>1, <4>1 DEF Kill, Ended
    <3>2. CASE UNCHANGED <<proc, cfg, dying>>
      BY <2>3, <3>2 DEF Kill
    <3> QED BY <2>3, <3>1, <3>2 DEF Kill
  <2> QED BY <1>6, <2>1, <2>2, <2>3
<1>7. ASSUME NEW u \in Updater, Start(u) \/ Unpack(u) \/ Proceed(u) \/ Detect(u) \/ ConfirmStop(u)
        \/ Ps(u) \/ StatHelper(u) \/ LoadMappings(u) \/ CopyHead(u) \/ Walk(u) \/ Return(u) \/ Crash(u)
      PROVE UNCHANGED mimoVars
  BY <1>7 DEF Start, Unpack, Proceed, Detect, ConfirmStop, Ps, StatHelper, LoadMappings,
    CopyHead, Walk, Return, Crash
<1>8. Environment => MimoTypes'
  BY <1>2, <1>3, <1>4, <1>5 DEF Environment, LaunchByHand, RestartedUp
<1> QED BY <1>1, <1>5, <1>6, <1>7, <1>8 DEF Next, Progress, vars

\* An updater that returns or dies has nothing left to remember.
LEMMA LeaveStep ==
  ASSUME MemTypes, MemoryInv, NEW u \in Updater, Exit(u) \/ \E r \in {"nil", "error"} : Leave(u, r)
  PROVE  MemTypes' /\ MemoryInv'
<1> USE Constants DEF MemTypes, Exit, Leave, Forget, Saving, Stopped
<1>1. pc' = [pc EXCEPT ![u] = "idle"] \/ pc' = [pc EXCEPT ![u] = "return"]
  OBVIOUS
<1>2. ret' \in [Updater -> {"nil", "error"}]
  OBVIOUS
<1>3. Forget(u)
  OBVIOUS
<1> HIDE DEF Exit, Leave
<1>4. MemTypes'
  <2>1. pc' \in [Updater -> Location] /\ todo' \in [Updater -> SUBSET File]
    BY <1>1, <1>3 DEF Location
  <2>2. idx' \in [Updater -> 1..(Len(MappingSeq) + 1)]
    BY <1>3
  <2>3. pid' \in [Updater -> 0..MaxLaunch] /\ known' \in [Updater -> 0..MaxLaunch]
    BY <1>3
  <2>4. late' \subseteq Updater /\ orig' \subseteq Updater /\ \A v \in orig' : pid'[v] # 0
    BY <1>3
  <2> QED BY <1>2, <2>1, <2>2, <2>3, <2>4
<1>5. MemoryInv'
  BY <1>1, <1>3 DEF MemoryInv
<1> QED BY <1>4, <1>5

\* The memory of the updaters.
LEMMA MemStep ==
  ASSUME MimoTypes, MemTypes, MemoryInv, [Next]_vars PROVE MemTypes' /\ MemoryInv'
<1> DEFINE Goal == MemTypes' /\ MemoryInv'
<1> USE Constants DEF MemTypes, MemoryInv, MimoTypes, Location, Saving, Stopped, At, memVars
<1>1. CASE UNCHANGED <<pc, memVars>>
  BY <1>1
<1>2. ASSUME NEW u \in Updater, Exit(u) \/ Leave(u, "nil") \/ Fail(u) PROVE Goal
  BY <1>2, LeaveStep DEF Fail
<1>3. ASSUME NEW u \in Updater, Start(u) PROVE Goal
  BY <1>3 DEF Start
<1>4. ASSUME NEW u \in Updater, Unpack(u) PROVE Goal
  BY <1>2, <1>4 DEF Unpack, Visited, Goto
<1>5. ASSUME NEW u \in Updater, Proceed(u) \/ ConfirmStop(u) PROVE Goal
  BY <1>2, <1>5 DEF Proceed, ConfirmStop, Declined, Goto
<1>6. ASSUME NEW u \in Updater, Detect(u) PROVE Goal
  <2>1. CASE Fail(u)
    BY <1>2, <2>1
  <2>2. CASE ~Fail(u)
    <3>1. known' \in [Updater -> 0..MaxLaunch]
      BY <1>6, <2>2 DEF Detect
    <3>2. pc' = [pc EXCEPT ![u] = "stop"] \/ pc' = [pc EXCEPT ![u] = "load"]
      BY <1>6, <2>2 DEF Detect
    <3>3. UNCHANGED <<idx, todo, pid, orig, ret, late>> /\ u \notin orig /\ idx[u] = 1
      BY <1>6, <2>2 DEF Detect
    <3> QED BY <3>1, <3>2, <3>3
  <2> QED BY <2>1, <2>2
<1>7. ASSUME NEW u \in Updater, Lsof(u) PROVE Goal
  <2>1. CASE Fail(u)
    BY <1>2, <2>1
  <2>2. CASE ~Fail(u)
    <3>1. MemTypes'
      <4>1. pid' \in [Updater -> 0..MaxLaunch] /\ pid'[u] # 0
        <5>1. PICK p \in Holders : pid' = [pid EXCEPT ![u] = p]
          BY <1>7, <2>2 DEF Lsof
        <5>2. p \in 1..MaxLaunch
          BY Processes
        <5> QED BY <5>1, <5>2
      <4>2. pc' = [pc EXCEPT ![u] = "ps"] /\ UNCHANGED <<idx, todo, orig, ret, known, late>>
        BY <1>7, <2>2 DEF Lsof
      <4>3. \A v \in Updater \ {u} : pid'[v] = pid[v]
        BY <1>7, <2>2 DEF Lsof
      <4> QED BY <4>1, <4>2, <4>3
    <3>2. MemoryInv'
      <4>1. PICK p \in Holders : pid' = [pid EXCEPT ![u] = p]
        BY <1>7, <2>2 DEF Lsof
      <4>2. p # 0
        BY Processes
      <4> QED BY <1>7, <2>2, <4>1, <4>2 DEF Lsof
    <3> QED BY <3>1, <3>2
  <2> QED BY <2>1, <2>2
<1>8. ASSUME NEW u \in Updater, Ps(u) PROVE Goal
  <2>1. CASE Fail(u)
    BY <1>2, <2>1
  <2>2. CASE ~Fail(u)
    <3>1. MemTypes'
      BY <1>8, <2>2 DEF Ps
    <3>2. MemoryInv'
      BY <1>8, <2>2 DEF Ps
    <3> QED BY <3>1, <3>2
  <2> QED BY <2>1, <2>2
<1>9. ASSUME NEW u \in Updater, StatHelper(u) \/ SaveBegin(u) \/ SaveEnd(u) PROVE Goal
  <2>1. CASE Fail(u)
    BY <1>2, <2>1
  <2>2. CASE ~Fail(u)
    <3>1. pc[u] \in Saving /\ UNCHANGED memVars
      BY <1>9, <2>2 DEF StatHelper, SaveBegin, SaveEnd, SaveErr, Goto
    <3>2. \E p \in Saving : pc' = [pc EXCEPT ![u] = p]
      BY <1>9, <2>2 DEF StatHelper, SaveBegin, SaveEnd, SaveErr, Goto
    <3> QED BY <3>1, <3>2
  <2> QED BY <2>1, <2>2
<1>10. ASSUME NEW u \in Updater, Kill(u) PROVE Goal
  BY <1>2, <1>10 DEF Kill, KillErr, Goto
<1>11. ASSUME NEW u \in Updater, LoadMappings(u) PROVE Goal
  <2>1. CASE Exit(u)
    BY <1>2, <2>1
  <2>2. CASE ~Exit(u)
    <3>1. MemTypes'
      BY <1>11, <2>2 DEF LoadMappings, Loop, Goto
    <3>2. MemoryInv'
      BY <1>11, <2>2 DEF LoadMappings, Loop, Goto
    <3> QED BY <3>1, <3>2
  <2> QED BY <2>1, <2>2
<1>12. ASSUME NEW u \in Updater, CopyHead(u) PROVE Goal
  <2>1. CASE Fail(u)
    BY <1>2, <2>1
  <2>2. CASE ~Fail(u)
    <3>1. MemTypes'
      <4>1. {f \in Under[MappingSeq[idx[u]]] : tmp[f] # Absent} \in SUBSET File
        BY <1>12 DEF CopyHead
      <4>2. todo' \in [Updater -> SUBSET File]
        BY <1>12, <2>2, <4>1 DEF CopyHead
      <4>3. pc' = [pc EXCEPT ![u] = "walk"] /\ UNCHANGED <<idx, pid, orig, ret, known, late>>
        BY <1>12, <2>2 DEF CopyHead
      <4> QED BY <4>2, <4>3
    <3>2. MemoryInv'
      BY <1>12, <2>2 DEF CopyHead
    <3> QED BY <3>1, <3>2
  <2> QED BY <2>1, <2>2
<1>13. ASSUME NEW u \in Updater, Walk(u) PROVE Goal
  <2>1. CASE Fail(u)
    BY <1>2, <2>1
  <2>2. CASE ~Fail(u)
    <3>1. MemTypes'
      <4>0. idx[u] + 1 \in 1..(Len(MappingSeq) + 1)
        BY <1>13 DEF Walk
      <4>1. idx' \in [Updater -> 1..(Len(MappingSeq) + 1)] /\ pc' \in [Updater -> Location]
        BY <1>13, <2>2, <4>0 DEF Walk, Visited, Loop
      <4>2. UNCHANGED <<pid, orig, ret, known, late>>
        BY <1>13, <2>2 DEF Walk, Visited
      <4>3. todo' \in [Updater -> SUBSET File]
        BY <1>13, <2>2 DEF Walk, Visited
      <4> QED BY <4>1, <4>2, <4>3
    <3>2. MemoryInv'
      BY <1>13, <2>2 DEF Walk, Visited, Loop
    <3> QED BY <3>1, <3>2
  <2> QED BY <2>1, <2>2
<1>14. ASSUME NEW u \in Updater, Restart(u) \/ Return(u) \/ Crash(u) PROVE Goal
  BY <1>2, <1>14 DEF Restart, DoesNotWait, Return, Crash
<1>15. Environment => UNCHANGED <<pc, memVars>>
  BY DEF Environment, LaunchByHand, Launched, Reconfigure, ProcEnds, RemoveStaleSock,
    RestartedUp, RestartFails, Reaped
<1> QED
  BY <1>1, <1>3, <1>4, <1>5, <1>6, <1>7, <1>8, <1>9, <1>10, <1>11, <1>12, <1>13, <1>14, <1>15
  DEF Next, Progress, vars

\* The flags and the counter of updates.
LEMMA FlagStep == ASSUME FlagTypes, [Next]_vars PROVE FlagTypes'
<1> USE TargetAssumption DEF FlagTypes, runVars
<1>1. Environment => FlagTypes'
  BY DEF Environment, LaunchByHand, Launched, Reconfigure, ProcEnds, RemoveStaleSock,
    RestartedUp, RestartFails, Reaped
<1>2. ASSUME NEW u \in Updater, Start(u) PROVE FlagTypes'
  <2>1. overlap' \in BOOLEAN /\ sock' = sock /\ down' = down /\ hasty' = hasty
    BY <1>2 DEF Start, mimoVars
  <2>2. alone' \subseteq Updater /\ runs' \in 0..MaxRuns
    BY <1>2 DEF Start
  <2> QED BY <2>1, <2>2
<1>3. ASSUME NEW u \in Updater, Progress(u) \/ Crash(u)
      PROVE  /\ UNCHANGED <<runVars, sock>> /\ (UNCHANGED down \/ down' = TRUE)
             /\ UNCHANGED hasty \/ \E p \in Holders : hasty' = (hasty \/ p # proc)
  BY <1>3 DEF Progress, Crash, Unpack, Proceed, Detect, ConfirmStop, Lsof, Ps, StatHelper,
    SaveBegin, SaveEnd, Kill, LoadMappings, CopyHead, Walk, Restart, Return, mimoVars
<1>4. CASE UNCHANGED vars
  BY <1>4 DEF vars, mimoVars
<1> QED BY <1>1, <1>2, <1>3, <1>4 DEF Next

\* A machine before its first update.
LEMMA TypeInit == Init => TypeInv
<1> SUFFICES ASSUME Init PROVE TypeInv
  OBVIOUS
<1> USE TargetAssumption, Constants DEF Init, Up
<1>1. FileTypes
  BY DEF FileTypes, Content
<1>2. MimoTypes
  BY DEF MimoTypes
<1>3. MemTypes
  BY DEF MemTypes, Location
<1>4. FlagTypes
  <2>1. sock \in BOOLEAN /\ down \in BOOLEAN /\ hasty \in BOOLEAN /\ overlap \in BOOLEAN
    BY Zenon
  <2>2. alone \subseteq Updater /\ runs \in 0..MaxRuns
    OBVIOUS
  <2> HIDE DEF Init
  <2> QED BY <2>1, <2>2 DEF FlagTypes
<1>5. MemoryInv
  BY DEF MemoryInv, Saving, Stopped
<1> QED BY <1>1, <1>2, <1>3, <1>4, <1>5 DEF TypeInv, TgtTypeOK

\* Every step keeps the types.
LEMMA TypeStep == TypeInv /\ [Next]_vars => TypeInv'
BY FileStep, MimoStep, MemStep, FlagStep DEF TypeInv, TgtTypeOK

\* The variables keep their types, whatever the updaters, the target and the
\* operators do; a captured command line has a process it came from.
THEOREM TargetTypes == Spec => []TgtTypeOK
<1>1. TypeInv => TgtTypeOK
  BY DEF TypeInv
<1> QED BY <1>1, TypeInit, TypeStep, PTL DEF Spec

-----------------------------------------------------------------------------
\* MIMO processes are numbered in the order they start, and a running one has a
\* socket.  One that is up while an updater works on the files has come up after
\* the one the updater has found, and after the updater looked for it, unless lsof
\* has listed a process that had ended.
StopInv ==
  /\ Up => proc = launches /\ sock
  /\ \A p \in dying : p <= launches /\ p # proc
  /\ \A u \in Updater :
       /\ known[u] <= launches /\ pid[u] <= launches
       /\ ~hasty /\ pc[u] \in Saving => ~Up \/ proc = pid[u] \/ proc > known[u]
       /\ ~hasty /\ pc[u] \in {"load", "copy", "walk"} => ~Up \/ proc > known[u]
       /\ pc[u] \in Stopped /\ u \in orig => ~Up \/ proc > pid[u]
  /\ StoppedOnce

\* The target comes up after everything an updater knows of.
LEMMA StopEnvironment == ASSUME TypeInv, StopInv, Environment PROVE StopInv'
<1> USE TargetAssumption DEF TypeInv, TgtTypeOK, MimoTypes, MemTypes, StopInv, StoppedOnce, Up,
      memVars
<1>1. ASSUME NEW c, Launched(c) PROVE StopInv'
  BY <1>1 DEF Launched
<1>2. ASSUME ProcEnds \/ RemoveStaleSock \/ \E p \in dying : Reaped(p) PROVE StopInv'
  <2>1. CASE ProcEnds
    <3>1. \A p \in dying' : p <= launches /\ p # 0
      BY <2>1 DEF ProcEnds, Ended
    <3> QED BY <2>1, <3>1 DEF ProcEnds, Ended
  <2>2. CASE RemoveStaleSock
    BY <2>2 DEF RemoveStaleSock
  <2>3. ASSUME NEW p \in dying, Reaped(p) PROVE StopInv'
    BY <2>3 DEF Reaped
  <2> QED BY <1>2, <2>1, <2>2, <2>3
<1>3. ASSUME NEW c, Reconfigure(c) PROVE StopInv'
  BY <1>3 DEF Reconfigure
<1>4. ASSUME NEW u, RestartFails(u) PROVE StopInv'
  BY <1>4 DEF RestartFails
<1> QED BY <1>1, <1>2, <1>3, <1>4 DEF Environment, LaunchByHand, RestartedUp

\* A step that neither finds nor kills MIMO, and that forgets or keeps what the
\* updater knows, leaves the invariant alone.
LEMMA StopOther ==
  ASSUME TypeInv, StopInv, NEW u \in Updater,
         UNCHANGED <<proc, sock, launches, dying, hasty>>,
         \A v \in Updater \ {u} : pc'[v] = pc[v] /\ pid'[v] = pid[v] /\ known'[v] = known[v],
         orig' \subseteq orig, pid'[u] \in {pid[u], 0}, known'[u] \in {known[u], 0},
         late \subseteq late' \cup {u}, pc'[u] \in Stopped => late' = late,
         \/ pc'[u] \notin Stopped \cup Saving
         \/ pc[u] \in Saving /\ pc'[u] \in Saving /\ pid'[u] = pid[u] /\ known'[u] = known[u]
         \/ /\ pc[u] \in {"load", "copy", "walk"} /\ pc'[u] \in Stopped
            /\ pid'[u] = pid[u] /\ known'[u] = known[u]
  PROVE  StopInv'
<1> USE DEF TypeInv, TgtTypeOK, MimoTypes, MemTypes, StopInv, Up
<1>1. \A v \in Updater : pc'[v] \in Stopped =>
        /\ pc[v] \in Stopped /\ pid'[v] = pid[v] /\ known'[v] = known[v]
        /\ pc'[v] \in {"load", "copy", "walk"} => pc[v] \in {"load", "copy", "walk"}
  BY DEF Stopped, Saving
<1>2. StoppedOnce'
  BY <1>1 DEF StoppedOnce, Stopped
<1>4. \A v \in Updater : pc'[v] \in Saving =>
        pc[v] \in Saving /\ pid'[v] = pid[v] /\ known'[v] = known[v]
  BY DEF Stopped, Saving
<1>3. \A v \in Updater : known'[v] <= launches' /\ pid'[v] <= launches'
  <2>1. launches' = launches /\ launches \in Nat
    BY TargetAssumption
  <2>2. known'[u] <= launches /\ pid'[u] <= launches
    BY <2>1
  <2> QED BY <2>1, <2>2
<1> QED BY <1>1, <1>2, <1>3, <1>4 DEF Stopped

\* The steps of an updater.
LEMMA StopUpdater ==
  ASSUME TypeInv, StopInv, NEW u \in Updater, Start(u) \/ Progress(u) \/ Crash(u) PROVE StopInv'
<1> DEFINE Same == UNCHANGED <<proc, sock, launches, dying, hasty>>
<1> USE DEF At, memVars, mimoVars
<1>1. ASSUME Exit(u) \/ Leave(u, "nil") \/ Fail(u), Same PROVE StopInv'
  <2>1. /\ pc'[u] \notin Stopped \cup Saving /\ pid'[u] = 0 /\ known'[u] = 0
        /\ orig' \subseteq orig /\ late \subseteq late' \cup {u}
    BY <1>1 DEF Exit, Leave, Fail, Forget, TypeInv, TgtTypeOK, MemTypes, Stopped, Saving
  <2>2. \A v \in Updater \ {u} : pc'[v] = pc[v] /\ pid'[v] = pid[v] /\ known'[v] = known[v]
    BY <1>1 DEF Exit, Leave, Fail, Forget, TypeInv, TgtTypeOK, MemTypes
  <2> QED BY <1>1, <2>1, <2>2, StopOther
<1>2. ASSUME NEW p, pc' = [pc EXCEPT ![u] = p], Same, UNCHANGED <<pid, orig, known, late>>,
             \/ p \notin Stopped \cup Saving
             \/ pc[u] \in Saving /\ p \in Saving
             \/ pc[u] \in {"load", "copy", "walk"} /\ p \in Stopped
      PROVE  StopInv'
  <2>1. pc'[u] = p /\ \A v \in Updater \ {u} : pc'[v] = pc[v]
    BY <1>2 DEF TypeInv, TgtTypeOK, MemTypes
  <2> QED BY <1>2, <2>1, StopOther
<1>3. CASE UNCHANGED <<pc, pid, orig, known, late>> /\ Same
  BY <1>3 DEF StopInv, StoppedOnce, Up
<1>4. CASE Start(u)
  BY <1>2, <1>4 DEF Start, Stopped, Saving
<1>5. CASE Unpack(u)
  BY <1>1, <1>2, <1>3, <1>5 DEF Unpack, Visited, Goto, Stopped, Saving
<1>6. CASE Proceed(u) \/ ConfirmStop(u)
  BY <1>1, <1>2, <1>6 DEF Proceed, ConfirmStop, Declined, Goto, Stopped, Saving
<1>7. CASE Detect(u)
  <2>1. CASE Fail(u)
    BY <1>1, <1>7, <2>1 DEF Detect
  <2>2. CASE ~Fail(u)
    <3> USE DEF TypeInv, TgtTypeOK, MimoTypes, MemTypes, MemoryInv, StopInv, Up, Stopped, Saving
    <3>1. known'[u] = launches /\ Same /\ UNCHANGED <<pid, orig, late>> /\ u \notin orig
      BY <1>7, <2>2 DEF Detect
    <3>2. \A v \in Updater \ {u} : pc'[v] = pc[v] /\ known'[v] = known[v]
      BY <1>7, <2>2 DEF Detect
    <3>3. pc'[u] = IF sock THEN "stop" ELSE "load"
      BY <1>7, <2>2 DEF Detect
    <3>4. StoppedOnce'
      BY <3>1, <3>2 DEF StoppedOnce
    <3>5. launches \in Nat
      BY TargetAssumption
    <3>6. pc'[u] \notin Saving /\ (pc'[u] \in {"load", "copy", "walk"} => ~Up')
      BY <3>1, <3>3
    <3>7. \A v \in Updater : known'[v] <= launches' /\ pid'[v] <= launches'
      <4>1. known'[u] <= launches' /\ pid'[u] <= launches'
        BY <3>1, <3>5
      <4>2. \A v \in Updater \ {u} : known'[v] <= launches' /\ pid'[v] <= launches'
        BY <3>1, <3>2
      <4> QED BY <4>1, <4>2
    <3> QED BY <3>1, <3>2, <3>4, <3>6, <3>7
  <2> QED BY <2>1, <2>2
<1>8. CASE Lsof(u)
  <2>1. CASE Fail(u) /\ UNCHANGED <<seen, hasty>>
    BY <1>1, <1>8, <2>1 DEF Lsof
  <2>2. CASE ~(Fail(u) /\ UNCHANGED <<seen, hasty>>)
    <3> USE DEF TypeInv, TgtTypeOK, MimoTypes, MemTypes, StopInv, Up, Stopped
    <3>0. PICK p \in Holders : /\ pid' = [pid EXCEPT ![u] = p]
                                /\ hasty' = (hasty \/ p # proc)
      BY <1>8, <2>2 DEF Lsof
    <3>1. /\ pid'[u] = p /\ p <= launches /\ pc'[u] = "ps"
          /\ UNCHANGED <<proc, sock, launches, dying, orig, known, late>>
      <4>1. p <= launches
        BY TargetAssumption DEF Holders
      <4> QED BY <1>8, <2>2, <3>0, <4>1 DEF Lsof
    <3>2. \A v \in Updater \ {u} : pc'[v] = pc[v] /\ pid'[v] = pid[v]
      BY <1>8, <2>2 DEF Lsof
    <3>3. StoppedOnce'
      <4>1. \A v \in orig' : pc'[v] \in Stopped => v \in Updater \ {u}
        BY <3>1
      <4>2. StoppedOnce
        OBVIOUS
      <4> HIDE DEF TypeInv, StopInv
      <4> QED BY <3>1, <3>2, <4>1, <4>2 DEF StoppedOnce
    <3>4. (hasty => hasty') /\ (~hasty' => p = proc)
      BY <3>0
    <3> QED BY <3>1, <3>2, <3>3, <3>4
  <2> QED BY <2>1, <2>2
<1>9. CASE Ps(u)
  <2>1. CASE Fail(u)
    BY <1>1, <1>9, <2>1 DEF Ps
  <2>2. CASE ~Fail(u)
    <3> USE DEF TypeInv, TgtTypeOK, MemTypes, StopInv, Up, Stopped, Saving
    <3>1. pc'[u] = "helper" /\ orig' = orig \cup {u} /\ Same
          /\ UNCHANGED <<pid, known, late>> /\ pc[u] \in Saving
      BY <1>9, <2>2 DEF Ps
    <3>2. \A v \in Updater \ {u} : pc'[v] = pc[v]
      BY <1>9, <2>2 DEF Ps
    <3>3. StoppedOnce'
      BY <3>1, <3>2 DEF StoppedOnce
    <3> QED BY <3>1, <3>2, <3>3
  <2> QED BY <2>1, <2>2
<1>10. CASE StatHelper(u) \/ SaveBegin(u) \/ SaveEnd(u)
  BY <1>1, <1>2, <1>10 DEF StatHelper, SaveBegin, SaveEnd, SaveErr, Goto, Stopped, Saving
<1>11. CASE Kill(u)
  <2> DEFINE Hit == Alive(u) /\ Ended /\ UNCHANGED late
             Late == pid[u] \in dying /\ UNCHANGED <<proc, dying>> /\ late' = late \cup {u}
  <2>1. CASE Fail(u) /\ UNCHANGED <<proc, dying>>
    BY <1>1, <1>11, <2>1 DEF Kill
  <2>2. CASE (Hit \/ Late) /\ pc' = [pc EXCEPT ![u] = "load"] /\ UNCHANGED <<pid, orig, known>>
    <3> USE DEF TypeInv, TgtTypeOK, MimoTypes, MemTypes, StopInv, Up, Stopped, Saving
    <3>1. /\ pc'[u] = "load" /\ pc[u] = "kill" /\ UNCHANGED <<sock, launches, hasty, pid, orig, known>>
          /\ \A v \in Updater \ {u} : pc'[v] = pc[v]
      BY <1>11, <2>2 DEF Kill
    <3>2. CASE Hit
      <4>1. proc' = 0 /\ dying' = dying \cup {proc} /\ Up /\ proc = pid[u] /\ late' = late
        BY <3>2 DEF Alive, Ended
      <4>2. \A v \in Updater \ {u} : pc[v] \in Stopped /\ v \in orig => pid[v] # pid[u]
        BY <4>1, TargetAssumption
      <4>3. StoppedOnce'
        BY <3>1, <4>1, <4>2 DEF StoppedOnce
      <4>4. \A p \in dying' : p <= launches /\ p # 0
        BY <4>1, TargetAssumption
      <4> QED BY <3>1, <4>1, <4>3, <4>4
    <3>3. CASE Late
      <4>1. UNCHANGED <<proc, dying>> /\ late' = late \cup {u} /\ proc # pid[u]
        BY <3>3
      <4>2. ~Up \/ proc > pid[u]
        BY <4>1, TargetAssumption
      <4>3. StoppedOnce'
        BY <3>1, <4>1 DEF StoppedOnce
      <4>4. ~hasty => ~Up \/ proc > known[u]
        BY <3>1, <4>1
      <4> QED BY <3>1, <4>1, <4>2, <4>3, <4>4
    <3> QED BY <2>2, <3>2, <3>3
  <2> QED BY <1>11, <2>1, <2>2 DEF Kill, KillErr, Goto
<1>12. CASE LoadMappings(u)
  BY <1>1, <1>2, <1>12 DEF LoadMappings, Loop, Goto, Stopped
<1>13. CASE CopyHead(u)
  BY <1>1, <1>2, <1>13 DEF CopyHead, Stopped
<1>14. CASE Walk(u)
  BY <1>1, <1>2, <1>3, <1>14 DEF Walk, Visited, Loop, Stopped
<1>15. CASE Restart(u)
  BY <1>1, <1>15 DEF Restart, DoesNotWait
<1>16. CASE Return(u) \/ Crash(u)
  BY <1>1, <1>3, <1>16 DEF Return, Crash
<1> QED
  BY <1>4, <1>5, <1>6, <1>7, <1>8, <1>9, <1>10, <1>11, <1>12, <1>13, <1>14, <1>15, <1>16
  DEF Progress

\* The inductive step, and the start.
LEMMA StopStep == TypeInv /\ StopInv /\ [Next]_vars => StopInv'
<1>1. ASSUME StopInv, UNCHANGED vars PROVE StopInv'
  BY <1>1 DEF vars, mimoVars, memVars, StopInv, StoppedOnce, Up
<1> QED BY <1>1, StopEnvironment, StopUpdater DEF Next

\* No updater has looked for a process yet.
LEMMA StopInit == Init => StopInv
<1> SUFFICES ASSUME Init PROVE StopInv
  OBVIOUS
<1>1. orig = {} /\ launches = proc /\ launches \in Nat /\ sock = (proc # 0)
  BY DEF Init, Up
<1>2. \A u \in Updater : pc[u] = "idle" /\ known[u] = 0 /\ pid[u] = 0
  BY DEF Init
<1>3. Up => sock
  BY <1>1, Zenon DEF Up
<1>4. StoppedOnce
  BY <1>1 DEF StoppedOnce
<1>5. dying = {}
  BY DEF Init
<1> QED BY <1>1, <1>2, <1>3, <1>4, <1>5 DEF StopInv, Stopped, Saving

\* No updater replaces files under a MIMO that it could have seen (run.go:169-184),
\* however many updaters run at once, unless lsof listed one that had ended.
THEOREM StoppedFirst == Spec => ReplacedOnlyWhenStopped
<1>1. TypeInv /\ StopInv /\ [Next]_vars =>
        [\A u \in Updater : pc[u] \in {"copy", "walk"} /\ dst' # dst /\ ~hasty
           => ~Up \/ proc > known[u]]_vars
  BY DEF StopInv
<1> QED
  BY <1>1, TypeInit, TypeStep, StopInit, StopStep, PTL DEF Spec, ReplacedOnlyWhenStopped

\* What an updater is to restart has ended, and of several updaters that found the
\* same process one has ended it: the others' kill came too late (spdk.go:110-120).
THEOREM MimoStoppedOnce == Spec => []StoppedOnce
<1>1. StopInv => StoppedOnce
  BY DEF StopInv
<1> QED BY <1>1, TypeInit, TypeStep, StopInit, StopStep, PTL DEF Spec

-----------------------------------------------------------------------------
\* A step of an updater that is running moves no other updater.
LEMMA OneMoves ==
  ASSUME TypeInv, NEW u \in Updater, Progress(u) \/ Crash(u)
  PROVE  /\ pc[u] # "idle" /\ UNCHANGED runVars
         /\ \A v \in Updater \ {u} : pc'[v] = pc[v] /\ idx'[v] = idx[v] /\ todo'[v] = todo[v]
<1> USE DEF TypeInv, TgtTypeOK, MemTypes, At, Goto, Leave, Exit, Fail, Forget, Visited, memVars
<1>1. CASE Unpack(u) \/ Proceed(u) \/ Detect(u) \/ ConfirmStop(u)
  BY <1>1 DEF Unpack, Proceed, Detect, ConfirmStop, Declined
<1>2. CASE Lsof(u) \/ Ps(u) \/ StatHelper(u)
  BY <1>2 DEF Lsof, Ps, StatHelper
<1>3. CASE SaveBegin(u) \/ SaveEnd(u) \/ Kill(u) \/ LoadMappings(u)
  BY <1>3 DEF SaveBegin, SaveEnd, SaveErr, Kill, KillErr, LoadMappings
<1>4. CASE CopyHead(u)
  BY <1>4 DEF CopyHead
<1>5. CASE Walk(u)
  BY <1>5 DEF Walk
<1>6. CASE Restart(u) \/ Return(u) \/ Crash(u)
  BY <1>6 DEF Restart, DoesNotWait, Return, Crash
<1> QED BY <1>1, <1>2, <1>3, <1>4, <1>5, <1>6 DEF Progress

\* An updater counts as alone only while the others are idle; as long as no two
\* have overlapped, a running one is alone.
SoloInv ==
  /\ \A u \in Updater : ~overlap /\ pc[u] # "idle" => u \in alone
  /\ \A u \in alone : pc[u] # "idle" => \A v \in Updater \ {u} : pc[v] = "idle"

\* Starting beside another updater, and only that, ends being alone.
LEMMA SoloStep == ASSUME TypeInv, SoloInv, [Next]_vars PROVE SoloInv'
<1>1. CASE UNCHANGED <<pc, runVars>>
  BY <1>1 DEF SoloInv, runVars
<1>2. ASSUME NEW u \in Updater, Start(u) PROVE SoloInv'
  <2>1. pc'[u] = "unpack" /\ \A v \in Updater \ {u} : pc'[v] = pc[v]
    BY <1>2 DEF Start, TypeInv, TgtTypeOK, MemTypes
  <2>2. CASE \E v \in Updater \ {u} : pc[v] # "idle"
    <3>1. alone' = {} /\ overlap'
      BY <1>2, <2>2 DEF Start, At
    <3> QED BY <3>1 DEF SoloInv
  <2>3. CASE \A v \in Updater \ {u} : pc[v] = "idle"
    <3>1. alone' = {u}
      BY <1>2, <2>3 DEF Start, At
    <3> QED BY <2>1, <2>3, <3>1 DEF SoloInv
  <2> QED BY <2>2, <2>3
<1>3. ASSUME NEW u \in Updater, Progress(u) \/ Crash(u) PROVE SoloInv'
  <2>1. /\ pc[u] # "idle" /\ UNCHANGED runVars
        /\ \A v \in Updater \ {u} : pc'[v] = pc[v]
    BY <1>3, OneMoves
  <2> QED BY <2>1 DEF SoloInv, runVars, TypeInv, TgtTypeOK, FlagTypes
<1>4. Environment => UNCHANGED <<pc, runVars>>
  BY DEF Environment, LaunchByHand, Launched, Reconfigure, ProcEnds, RemoveStaleSock,
    RestartedUp, RestartFails, Reaped
<1> QED BY <1>1, <1>2, <1>3, <1>4 DEF Next, vars

\* The argument that orders the truncation of the saved configuration, its
\* completion and the kill (spdk.go:77-117), for an updater that is alone: the
\* file is only truncated after a process was found, which was alive unless the
\* updater was hasty, and only a complete
\* file, with a configuration of that process, lets the kill go ahead.
ConfigInv ==
  /\ Up => ~down /\ cfg \in seen
  /\ ~overlap /\ ~hasty /\ down => saved \in Config
  /\ \A u \in alone :
       /\ ~hasty /\ pc[u] \in Saving => ~down
       /\ pc[u] = "kill" => saved \in Config /\ (Up /\ proc = pid[u] => saved \in seen)
       /\ pc[u] \in Stopped /\ u \in orig => saved \in Config

\* The target and its operators never touch the saved configuration, and what
\* they change is seen.
LEMMA ConfigEnvironment == ASSUME TypeInv, StopInv, ConfigInv, Environment PROVE ConfigInv'
<1> USE TargetAssumption DEF ConfigInv, TypeInv, TgtTypeOK, MimoTypes, MemTypes, FlagTypes, StopInv, Up,
      memVars, runVars
<1>1. ASSUME NEW c \in Config, Launched(c) PROVE ConfigInv'
  BY <1>1 DEF Launched
<1>2. ASSUME NEW c \in Config, Reconfigure(c) PROVE ConfigInv'
  BY <1>2 DEF Reconfigure
<1>3. ASSUME ProcEnds \/ RemoveStaleSock \/ \E p \in dying : Reaped(p) PROVE ConfigInv'
  BY <1>3 DEF ProcEnds, Ended, RemoveStaleSock, Reaped
<1>4. ASSUME NEW u \in Updater, RestartFails(u) PROVE ConfigInv'
  BY <1>4 DEF RestartFails
<1> QED BY <1>1, <1>2, <1>3, <1>4 DEF Environment, LaunchByHand, RestartedUp

\* A step that does not concern the configuration and the process.
LEMMA ConfigOther ==
  ASSUME TypeInv, ConfigInv, NEW u \in Updater,
         UNCHANGED <<proc, cfg, saved, seen, down, hasty, overlap>>, alone' \subseteq alone \cup {u},
         \A v \in Updater \ {u} : pc'[v] = pc[v] /\ pid'[v] = pid[v],
         orig' \subseteq orig \/ pc'[u] \notin Stopped, orig' \subseteq orig \cup {u},
         \/ pc'[u] \notin Saving \cup Stopped
         \/ alone' = alone /\ pc[u] \in Saving /\ pc'[u] \in Saving \ {"kill"}
         \/ alone' = alone /\ pc[u] \in Stopped /\ pc'[u] \in Stopped
         \/ alone' = alone /\ u \notin orig /\ pc'[u] \in Stopped
  PROVE  ConfigInv'
<1>1. \A v \in alone' : v \in Updater
  BY DEF TypeInv, TgtTypeOK, FlagTypes
<1> QED BY <1>1 DEF ConfigInv, Saving, Stopped, Up

\* The steps of an updater.
LEMMA ConfigUpdater ==
  ASSUME TypeInv, StopInv, SoloInv, ConfigInv, NEW u \in Updater, Progress(u) \/ Crash(u)
  PROVE  ConfigInv'
<1> DEFINE Same == UNCHANGED <<proc, cfg, saved, seen, down, hasty>>
<1>1. /\ pc[u] # "idle" /\ UNCHANGED <<alone, overlap>>
      /\ \A v \in Updater \ {u} : pc'[v] = pc[v]
  BY OneMoves DEF runVars
<1>2. \A v \in alone : v \in Updater /\ (v # u => pc[v] = "idle")
  BY <1>1 DEF SoloInv, TypeInv, TgtTypeOK, FlagTypes
<1> USE DEF At, memVars, mimoVars
<1>3. ASSUME Exit(u) \/ Leave(u, "nil") \/ Fail(u), Same PROVE ConfigInv'
  <2>1. pc'[u] \notin Saving \cup Stopped /\ orig' \subseteq orig
    BY <1>3 DEF Exit, Leave, Fail, Forget, TypeInv, TgtTypeOK, MemTypes, Saving, Stopped
  <2>2. \A v \in Updater \ {u} : pid'[v] = pid[v]
    BY <1>3 DEF Exit, Leave, Fail, Forget, TypeInv, TgtTypeOK, MemTypes
  <2> QED BY <1>1, <1>3, <2>1, <2>2, ConfigOther
<1>4. ASSUME NEW p, pc' = [pc EXCEPT ![u] = p], Same, UNCHANGED <<pid, orig>>,
             \/ p \notin Saving \cup Stopped
             \/ pc[u] \in Saving /\ p \in Saving \ {"kill"}
             \/ pc[u] \in Stopped /\ p \in Stopped
             \/ u \notin orig /\ p \in Stopped
      PROVE  ConfigInv'
  <2>1. pc'[u] = p
    BY <1>4 DEF TypeInv, TgtTypeOK, MemTypes
  <2> QED BY <1>1, <1>4, <2>1, ConfigOther
<1>5. CASE UNCHANGED <<pc, pid, orig>> /\ Same
  BY <1>1, <1>5 DEF ConfigInv, Up
<1>6. CASE Unpack(u)
  BY <1>3, <1>4, <1>5, <1>6 DEF Unpack, Visited, Goto, Saving, Stopped
<1>7. CASE Proceed(u) \/ ConfirmStop(u)
  BY <1>3, <1>4, <1>7 DEF Proceed, ConfirmStop, Declined, Goto, Saving, Stopped
<1>8. CASE Detect(u)
  <2>1. u \notin orig
    BY <1>8 DEF Detect, TypeInv, MemoryInv, Saving, Stopped
  <2> QED BY <1>3, <1>4, <1>8, <2>1 DEF Detect, Saving, Stopped
<1>9. CASE Lsof(u)
  <2>1. CASE Fail(u) /\ Same
    BY <1>3, <2>1
  <2>2. ASSUME NEW p \in Holders, pid' = [pid EXCEPT ![u] = p], pc' = [pc EXCEPT ![u] = "ps"],
               seen' = (IF p = proc THEN {cfg} ELSE seen), hasty' = (hasty \/ p # proc)
        PROVE  ConfigInv'
    <3>1. pc'[u] = "ps"
      BY <2>2 DEF TypeInv, TgtTypeOK, MemTypes
    <3>2. UNCHANGED <<proc, cfg, saved, down>> /\ (hasty => hasty')
      BY <1>9, <2>2 DEF Lsof
    <3>3. ~hasty' => ~down
      <4>1. p # 0
        BY Processes DEF TypeInv, TgtTypeOK
      <4>2. ~hasty' => Up
        BY <2>2, <4>1 DEF Up
      <4> QED BY <4>2 DEF ConfigInv
    <3>4. Up => cfg \in seen'
      BY <2>2 DEF ConfigInv
    <3> QED BY <1>1, <1>2, <3>1, <3>2, <3>3, <3>4 DEF ConfigInv, Saving, Stopped, Up
  <2> QED BY <1>9, <2>1, <2>2 DEF Lsof
<1>10. CASE Ps(u)
  <2>1. CASE Fail(u)
    BY <1>3, <1>10, <2>1 DEF Ps
  <2>2. CASE ~Fail(u)
    <3>1. pc'[u] = "helper" /\ Same /\ orig' = orig \cup {u} /\ UNCHANGED pid /\ pc[u] \in Saving
      BY <1>10, <2>2 DEF Ps, TypeInv, TgtTypeOK, MemTypes, Saving
    <3> QED BY <1>1, <3>1, ConfigOther DEF Saving, Stopped
  <2> QED BY <2>1, <2>2
<1>11. CASE StatHelper(u)
  BY <1>3, <1>4, <1>11 DEF StatHelper, Goto, Saving
<1>12. CASE SaveBegin(u)
  <2>1. pc'[u] = "saving" /\ saved' = Cut /\ UNCHANGED <<proc, cfg, seen, down, hasty, pid, orig>>
    BY <1>12 DEF SaveBegin, Goto, TypeInv, TgtTypeOK, MemTypes
  <2>2. ~overlap /\ ~hasty => ~down
    BY <1>1, <1>12 DEF SaveBegin, SoloInv, ConfigInv, Saving
  <2>3. u \in alone /\ ~hasty => ~down
    BY <1>12 DEF SaveBegin, ConfigInv, Saving
  <2> QED BY <1>1, <1>2, <2>1, <2>2, <2>3 DEF ConfigInv, Saving, Stopped, Up
<1>13. CASE SaveEnd(u)
  <2>1. CASE Fail(u) /\ UNCHANGED saved
    BY <1>3, <1>13, <2>1 DEF SaveEnd
  <2>2. CASE Served /\ saved' = cfg /\ Goto(u, "kill")
    <3>1. pc'[u] = "kill" /\ UNCHANGED <<proc, cfg, seen, down, hasty, pid, orig>>
      BY <1>13, <2>2 DEF SaveEnd, Goto, TypeInv, TgtTypeOK, MemTypes
    <3>2. saved' \in Config /\ saved' \in seen /\ ~down
      BY <2>2 DEF Served, ConfigInv, TypeInv, TgtTypeOK, MimoTypes
    <3> QED BY <1>1, <1>2, <3>1, <3>2 DEF ConfigInv, Saving, Stopped, Up
  <2> QED BY <1>13, <2>1, <2>2 DEF SaveEnd, SaveErr
<1>14. CASE Kill(u)
  <2>1. CASE Fail(u) /\ UNCHANGED <<proc, cfg, down>>
    BY <1>3, <1>14, <2>1 DEF Kill
  <2>2. CASE proc' = 0 /\ down' = TRUE /\ Goto(u, "load")
    <3>1. pc'[u] = "load" /\ UNCHANGED <<saved, seen, hasty, pid, orig>>
      BY <1>14, <2>2 DEF Kill, Goto, TypeInv, TgtTypeOK, MemTypes
    <3>2. u \in alone => saved \in Config
      BY <1>14 DEF Kill, ConfigInv
    <3>3. ~overlap => saved \in Config
      BY <1>1, <3>2 DEF SoloInv
    <3> QED BY <1>1, <1>2, <2>2, <3>1, <3>2, <3>3 DEF ConfigInv, Saving, Stopped, Up
  <2>3. CASE UNCHANGED <<proc, cfg, down, pid, orig>> /\ pc' = [pc EXCEPT ![u] = "load"]
    <3>1. pc'[u] = "load" /\ pc[u] = "kill" /\ UNCHANGED <<saved, seen, hasty>>
      BY <1>14, <2>3 DEF Kill, TypeInv, TgtTypeOK, MemTypes
    <3> QED BY <1>1, <1>2, <2>3, <3>1 DEF ConfigInv, Saving, Stopped, Up
  <2> QED BY <1>14, <2>1, <2>2, <2>3 DEF Kill, KillErr, Ended
<1>15. CASE LoadMappings(u)
  BY <1>3, <1>4, <1>15 DEF LoadMappings, Loop, Goto, Stopped
<1>16. CASE CopyHead(u)
  BY <1>3, <1>4, <1>16 DEF CopyHead, Stopped
<1>17. CASE Walk(u)
  BY <1>3, <1>4, <1>5, <1>17 DEF Walk, Visited, Loop, Stopped
<1>18. CASE Restart(u)
  BY <1>3, <1>18 DEF Restart, DoesNotWait
<1>19. CASE Return(u) \/ Crash(u)
  BY <1>3, <1>5, <1>19 DEF Return, Crash
<1> QED
  BY <1>6, <1>7, <1>8, <1>9, <1>10, <1>11, <1>12, <1>13, <1>14, <1>15, <1>16, <1>17, <1>18, <1>19
  DEF Progress

\* The inductive step, and the start.
LEMMA ConfigStep ==
  TypeInv /\ StopInv /\ SoloInv /\ ConfigInv /\ [Next]_vars => ConfigInv'
<1> SUFFICES ASSUME TypeInv, StopInv, SoloInv, ConfigInv, [Next]_vars PROVE ConfigInv'
  OBVIOUS
<1>1. CASE UNCHANGED vars
  BY <1>1 DEF vars, mimoVars, memVars, runVars, ConfigInv, Up
<1>2. ASSUME NEW u \in Updater, Start(u) PROVE ConfigInv'
  <2>1. pc'[u] = "unpack" /\ \A v \in Updater \ {u} : pc'[v] = pc[v]
    BY <1>2 DEF Start, TypeInv, TgtTypeOK, MemTypes
  <2>2. alone' \subseteq {u} /\ (overlap => overlap')
    BY <1>2 DEF Start
  <2> QED BY <1>2, <2>1, <2>2 DEF Start, mimoVars, ConfigInv, Saving, Stopped, Up
<1> QED BY <1>1, <1>2, ConfigEnvironment, ConfigUpdater DEF Next

\* At the start no update has killed anything.
LEMMA ConfigInit == Init => SoloInv /\ ConfigInv
<1> SUFFICES ASSUME Init PROVE SoloInv /\ ConfigInv
  OBVIOUS
<1>1. alone = {} /\ ~down /\ (Up => cfg \in seen)
  BY DEF Init, Up
<1>2. \A u \in Updater : pc[u] = "idle"
  BY DEF Init
<1> QED BY <1>1, <1>2 DEF SoloInv, ConfigInv

\* A MIMO that an update has killed has a complete saved configuration to be
\* started from (spdk.go:99-117), as long as no two updates have run at once and
\* none has taken a dying MIMO for a running one.
THEOREM KilledHasConfig == Spec => []DownHasConfig
<1>1. ConfigInv => DownHasConfig
  BY DEF ConfigInv, DownHasConfig
<1>2. TypeInv /\ SoloInv /\ [Next]_vars => SoloInv'
  BY SoloStep
<1> QED
  BY <1>1, <1>2, TypeInit, TypeStep, StopInit, StopStep, ConfigInit, ConfigStep, PTL DEF Spec

\* The configuration kept at a kill is the killed process's own (spdk.go:110-117).
THEOREM KillKeepsOwnConfig == Spec => KillKeepsConfig
<1>1. TypeInv /\ SoloInv /\ [Next]_vars => SoloInv'
  BY SoloStep
<1>2. TypeInv /\ SoloInv /\ ConfigInv /\ [Next]_vars =>
        [(\E u \in Updater : At(u, "kill") /\ pc'[u] = "load") /\ proc' # proc /\ ~overlap
           => saved \in seen]_vars
  <2> SUFFICES ASSUME TypeInv, SoloInv, ConfigInv, Next, ~overlap, proc' # proc,
                      NEW u \in Updater, At(u, "kill"), pc'[u] = "load"
               PROVE  saved \in seen
    OBVIOUS
  <2>1. u \in alone /\ \A v \in Updater \ {u} : pc[v] = "idle"
    BY DEF SoloInv, At
  <2>2. Kill(u)
    <3>1. \A v \in Updater \ {u} : ~(Progress(v) \/ Crash(v))
      BY <2>1, OneMoves
    <3>2. \A v \in Updater \ {u} : ~Start(v)
      BY DEF Start, TypeInv, TgtTypeOK, MemTypes, At
    <3>3. ~Environment
      BY DEF Environment, LaunchByHand, Launched, Reconfigure, ProcEnds, RemoveStaleSock,
        RestartedUp, RestartFails, Reaped, At
    <3>4. ~Start(u) /\ ~Crash(u)
      BY DEF Start, Crash, Exit, At, TypeInv, TgtTypeOK, MemTypes
    <3>5. Progress(u)
      BY <3>1, <3>2, <3>3, <3>4 DEF Next
    <3> QED BY <3>5 DEF Progress, Unpack, Proceed, Detect, ConfirmStop, Lsof, Ps, StatHelper,
      SaveBegin, SaveEnd, LoadMappings, CopyHead, Walk, Restart, Return, At
  <2>3. Alive(u)
    BY <2>2 DEF Kill, KillErr, Fail, Leave, TypeInv, TgtTypeOK, MemTypes
  <2> QED BY <2>1, <2>3 DEF ConfigInv, Alive, At
<1> QED
  BY <1>1, <1>2, TypeInit, TypeStep, StopInit, StopStep, ConfigInit, ConfigStep, PTL
  DEF Spec, KillKeepsConfig

-----------------------------------------------------------------------------
\* What the loops of an updater that is alone have done so far: the files it has
\* unpacked are whole, and so are the files of the mappings before idx, but for
\* the ones the walk has still to copy.
CompleteInv ==
  \A u \in alone :
    /\ pc[u] = "unpack" => \A f \in File \ (todo[u] \cup Linked) : tmp[f] \in {u, Release}
    /\ pc[u] \notin {"idle", "unpack", "return"} => \A f \in File \ Linked : tmp[f] = Release
    /\ pc[u] \in {"copy", "restart"} =>
         \A k \in 1..Len(MappingSeq) : k < idx[u] =>
           \A f \in Under[MappingSeq[k]] \ Linked : dst[f] = Release
    /\ pc[u] = "walk" =>
         \A k \in 1..Len(MappingSeq) : k <= idx[u] =>
           \A f \in Under[MappingSeq[k]] \ (todo[u] \cup Linked) : dst[f] = Release
    /\ pc[u] = "restart" => idx[u] = Len(MappingSeq) + 1

\* The steps of an updater.
LEMMA CompleteUpdater ==
  ASSUME TypeInv, SoloInv, CompleteInv, NEW u \in Updater, Progress(u) \/ Crash(u)
  PROVE  CompleteInv'
<1>1. pc[u] # "idle" /\ UNCHANGED alone /\ \A v \in Updater \ {u} : pc'[v] = pc[v]
  BY OneMoves DEF runVars
<1>2. \A v \in alone \ {u} : pc'[v] = "idle"
  BY <1>1 DEF SoloInv, TypeInv, TgtTypeOK, FlagTypes
<1> SUFFICES ASSUME u \in alone PROVE CompleteInv'
  BY <1>1, <1>2 DEF CompleteInv
<1>3. ASSUME pc'[u] \in {"idle", "return"} PROVE CompleteInv'
  BY <1>1, <1>2, <1>3 DEF CompleteInv
<1> USE Constants DEF At, TypeInv, TgtTypeOK, FileTypes, MemTypes, memVars, fileVars
<1>4. ASSUME Exit(u) \/ Leave(u, "nil") \/ Fail(u) PROVE CompleteInv'
  BY <1>3, <1>4 DEF Exit, Leave, Fail
<1>5. ASSUME NEW p, pc' = [pc EXCEPT ![u] = p], UNCHANGED fileVars,
             pc[u] \notin {"idle", "unpack", "return", "copy", "walk", "restart"},
             p \notin {"unpack", "copy", "walk", "restart"}
      PROVE  CompleteInv'
  <2>1. pc'[u] = p /\ \A f \in File \ Linked : tmp'[f] = Release
    BY <1>5 DEF CompleteInv
  <2> QED BY <1>1, <1>2, <1>5, <2>1 DEF CompleteInv
<1>6. CASE Unpack(u)
  <2>1. ASSUME NEW f \in todo[u], tmp' = Created(u, f), Visited(u, f) PROVE CompleteInv'
    <3>1. pc'[u] = "unpack" /\ todo'[u] = todo[u] \ {f}
      BY <1>6, <2>1 DEF Unpack, Visited
    <3>2. \A g \in File \ (todo'[u] \cup Linked) : tmp'[g] \in {u, Release}
      BY <1>6, <2>1, <3>1 DEF Unpack, Created, Closed, CompleteInv
    <3> QED BY <1>1, <1>2, <3>1, <3>2 DEF CompleteInv
  <2>2. CASE todo[u] = {} /\ tmp' = Closed(u, Release) /\ Goto(u, "proceed")
    <3>1. pc'[u] = "proceed"
      BY <2>2 DEF Goto
    <3>2. \A g \in File \ Linked : tmp'[g] = Release
      BY <1>6, <2>2 DEF Unpack, Closed, CompleteInv
    <3> QED BY <1>1, <1>2, <3>1, <3>2 DEF CompleteInv
  <2> QED BY <1>4, <1>6, <2>1, <2>2 DEF Unpack
<1>7. CASE Proceed(u) \/ ConfirmStop(u)
  BY <1>4, <1>5, <1>7 DEF Proceed, ConfirmStop, Declined, Goto
<1>8. CASE Detect(u)
  BY <1>4, <1>5, <1>8 DEF Detect
<1>9. CASE Lsof(u) \/ Ps(u) \/ StatHelper(u)
  BY <1>4, <1>5, <1>9 DEF Lsof, Ps, StatHelper, Goto
<1>10. CASE SaveBegin(u) \/ SaveEnd(u) \/ Kill(u)
  BY <1>4, <1>5, <1>10 DEF SaveBegin, SaveEnd, SaveErr, Kill, KillErr, Goto
<1>11. CASE LoadMappings(u)
  <2>1. CASE Exit(u)
    BY <1>4, <2>1
  <2>2. CASE Goto(u, Loop(1))
    <3>1. pc'[u] = Loop(1) /\ idx'[u] = 1 /\ UNCHANGED fileVars
      BY <1>11, <2>2 DEF LoadMappings, Goto, MemoryInv
    <3>2. \A f \in File \ Linked : tmp'[f] = Release
      BY <1>11, <3>1 DEF LoadMappings, CompleteInv
    <3>3. Loop(1) \in {"copy", "restart"} /\ (Loop(1) = "restart" => Len(MappingSeq) = 0)
      BY DEF Loop
    <3>4. \A k \in 1..Len(MappingSeq) : ~(k < idx'[u])
      BY <3>1
    <3> HIDE DEF TypeInv, TgtTypeOK
    <3> QED BY <1>1, <1>2, <3>1, <3>2, <3>3, <3>4 DEF CompleteInv
  <2> QED BY <1>11, <2>1, <2>2 DEF LoadMappings
<1>12. CASE CopyHead(u)
  <2>1. CASE Fail(u)
    BY <1>4, <2>1
  <2>2. CASE ~Fail(u)
    <3> DEFINE m == MappingSeq[idx[u]]
    <3>1. /\ pc[u] = "copy" /\ pc'[u] = "walk" /\ UNCHANGED <<tmp, idx>> /\ dst' = Removed(Under[m])
          /\ todo'[u] = {f \in Under[m] : tmp[f] # Absent}
      BY <1>12, <2>2 DEF CopyHead
    <3>2. \A f \in File \ Linked : tmp[f] = Release
      BY <3>1 DEF CompleteInv
    <3>3. m \in Mapping /\ Under[m] \subseteq File
      BY <3>1 DEF MemoryInv
    <3>4. Under[m] \ Linked \subseteq todo'[u]
      BY <3>1, <3>2, <3>3, TargetAssumption
    <3>5. \A k \in 1..Len(MappingSeq) : k <= idx[u] =>
            \A f \in Under[MappingSeq[k]] \ (Under[m] \cup Linked) : dst'[f] = Release
      BY <3>1 DEF CompleteInv, Removed
    <3> QED BY <1>1, <1>2, <3>1, <3>2, <3>4, <3>5 DEF CompleteInv
  <2> QED BY <2>1, <2>2
<1>13. CASE Walk(u)
  <2>1. ASSUME NEW f \in todo[u], dst' = [dst EXCEPT ![f] = Read(f)], Visited(u, f), UNCHANGED tmp
        PROVE  CompleteInv'
    <3>1. pc[u] = "walk" /\ pc'[u] = "walk" /\ UNCHANGED idx /\ todo'[u] = todo[u] \ {f}
      BY <1>13, <2>1 DEF Walk, Visited
    <3>2. f \notin Linked => Read(f) = Release
      <4>1. f \notin Linked => tmp[f] = Release
        BY <3>1 DEF CompleteInv
      <4>2. Release \notin Updater
        BY TargetAssumption DEF Content
      <4> QED BY <4>1, <4>2 DEF Read
    <3>3. \A k \in 1..Len(MappingSeq) : k <= idx[u] =>
            \A g \in Under[MappingSeq[k]] \ (todo'[u] \cup Linked) : dst'[g] = Release
      BY <2>1, <3>1, <3>2 DEF CompleteInv
    <3> QED BY <1>1, <1>2, <2>1, <3>1, <3>3 DEF CompleteInv
  <2>2. CASE /\ todo[u] = {} /\ UNCHANGED <<dst, tmp>> /\ idx' = [idx EXCEPT ![u] = @ + 1]
             /\ pc' = [pc EXCEPT ![u] = Loop(idx[u] + 1)]
    <3>1. pc[u] = "walk" /\ pc'[u] = Loop(idx[u] + 1) /\ idx'[u] = idx[u] + 1
      BY <1>13, <2>2 DEF Walk
    <3>2. idx[u] \in 1..Len(MappingSeq)
      BY <3>1 DEF MemoryInv
    <3>3. \A k \in 1..Len(MappingSeq) : k < idx'[u] => \A g \in Under[MappingSeq[k]] \ Linked : dst'[g] = Release
      BY <2>2, <3>1, <3>2 DEF CompleteInv
    <3>4. pc'[u] = "restart" => idx'[u] = Len(MappingSeq) + 1
      BY <3>1, <3>2 DEF Loop
    <3>5. \A g \in File \ Linked : tmp'[g] = Release
      BY <2>2, <3>1 DEF CompleteInv
    <3>6. pc'[u] \in {"copy", "restart"}
      BY <3>1 DEF Loop
    <3> QED BY <1>1, <1>2, <3>3, <3>4, <3>5, <3>6 DEF CompleteInv
  <2> QED BY <1>4, <1>13, <2>1, <2>2 DEF Walk, Copied
<1>14. CASE Restart(u)
  BY <1>4, <1>14 DEF Restart, DoesNotWait
<1>15. CASE Return(u) \/ Crash(u)
  BY <1>3, <1>4, <1>15 DEF Return, Crash
<1> QED
  BY <1>6, <1>7, <1>8, <1>9, <1>10, <1>11, <1>12, <1>13, <1>14, <1>15 DEF Progress

\* The inductive step.
LEMMA CompleteStep == TypeInv /\ SoloInv /\ CompleteInv /\ [Next]_vars => CompleteInv'
<1> SUFFICES ASSUME TypeInv, SoloInv, CompleteInv, [Next]_vars PROVE CompleteInv'
  OBVIOUS
<1>1. CASE UNCHANGED <<fileVars, pc, memVars, alone>>
  BY <1>1 DEF fileVars, memVars, CompleteInv
<1>2. Environment => UNCHANGED <<fileVars, pc, memVars, alone>>
  BY DEF Environment, LaunchByHand, Launched, Reconfigure, ProcEnds, RemoveStaleSock,
    RestartedUp, RestartFails, Reaped, runVars
<1>3. ASSUME NEW u \in Updater, Start(u) PROVE CompleteInv'
  <2>1. pc'[u] = "unpack" /\ todo'[u] = File \ Linked /\ alone' \subseteq {u}
    BY <1>3 DEF Start, TypeInv, TgtTypeOK, MemTypes
  <2> QED BY <2>1 DEF CompleteInv
<1> QED BY <1>1, <1>2, <1>3, CompleteUpdater DEF Next, vars, runVars

\* An update that runs alone restarts MIMO over a complete installation, whatever
\* was left by updates that died or ran into each other (run.go:112, 192-220).
THEOREM AloneCompletes == Spec => []AloneIsComplete
<1>1. TypeInv /\ SoloInv /\ [Next]_vars => SoloInv'
  BY SoloStep
<1>2. Init => CompleteInv
  BY DEF Init, CompleteInv
<1>3. TypeInv /\ ConfigInv /\ CompleteInv => AloneIsComplete
  <2> SUFFICES ASSUME TypeInv, ConfigInv, CompleteInv, NEW u \in alone, At(u, "restart")
               PROVE  /\ \A m \in Mapping : \A f \in Under[m] \ Linked : dst[f] = Release
                      /\ u \in orig => saved \in Config
    BY DEF AloneIsComplete
  <2>1. \A k \in 1..Len(MappingSeq) : \A f \in Under[MappingSeq[k]] \ Linked : dst[f] = Release
    BY Constants DEF CompleteInv, At
  <2> QED BY <2>1 DEF ConfigInv, At, Stopped, Mapping
<1> QED
  BY <1>1, <1>2, <1>3, TypeInit, TypeStep, StopInit, StopStep, ConfigInit, ConfigStep, CompleteStep,
     PTL DEF Spec

-----------------------------------------------------------------------------
\* The loop of updater u has been through the k-th mapping's removal.
Past(u, k) ==
  \/ pc[u] \in {"copy", "restart"} /\ k < idx[u]
  \/ pc[u] = "walk" /\ k <= idx[u]

\* The installed program is gone from the staging directory as soon as an updater
\* has unpacked the target, and from its place once it was removed there.
GoneFor(u) ==
  /\ pc[u] = "unpack" /\ TgtFile \notin todo[u] => tmp[TgtFile] # Installed
  /\ pc[u] \notin {"idle", "unpack", "return"} => tmp[TgtFile] # Installed
  /\ \A k \in 1..Len(MappingSeq) :
       Past(u, k) /\ TgtFile \in Under[MappingSeq[k]] => dst[TgtFile] # Installed
  /\ pc[u] = "restart" => idx[u] = Len(MappingSeq) + 1

GoneInv == (\A u \in Updater : GoneFor(u)) /\ RestartRunsRelease

\* A target that is packed as a hard link is never unpacked.
Unpacked == TgtFile \notin Linked

\* No step brings the installed program back: what is created in the staging
\* directory is the release, and only unpacked updaters copy from it.
LEMMA NeverBack ==
  ASSUME Unpacked, TypeInv, GoneInv, [Next]_vars
  PROVE  /\ tmp[TgtFile] # Installed => tmp'[TgtFile] # Installed
         /\ dst[TgtFile] # Installed => dst'[TgtFile] # Installed
<1> USE TargetAssumption, Constants DEF TypeInv, TgtTypeOK, FileTypes, fileVars, At
<1>0. Installed \notin Updater /\ Installed \notin {Release, Absent, Cut} /\ TgtFile \in File
  BY DEF Content
<1>1. CASE UNCHANGED fileVars
  BY <1>1
<1>2. ASSUME NEW u \in Updater, Unpack(u) \/ Crash(u)
      PROVE  dst' = dst /\ (tmp[TgtFile] # Installed => tmp'[TgtFile] # Installed)
  <2>1. \A c \in {Cut, Release} :
          tmp[TgtFile] # Installed => Closed(u, c)[TgtFile] # Installed
    BY <1>0 DEF Closed
  <2>2. \A f \in File : tmp[TgtFile] # Installed => Created(u, f)[TgtFile] # Installed
    BY <1>0 DEF Closed, Created
  <2>3. todo[u] \subseteq File
    BY DEF MemTypes
  <2> QED BY <1>2, <2>1, <2>2, <2>3 DEF Unpack, Crash
<1>3. ASSUME NEW u \in Updater, CopyHead(u)
      PROVE  tmp' = tmp /\ (dst[TgtFile] # Installed => dst'[TgtFile] # Installed)
  BY <1>0, <1>3 DEF CopyHead, Removed
<1>4. ASSUME NEW u \in Updater, Walk(u)
      PROVE  tmp' = tmp /\ (dst[TgtFile] # Installed => dst'[TgtFile] # Installed)
  <2>1. Read(TgtFile) # Installed
    BY <1>0, <1>4 DEF Walk, Read, GoneInv, GoneFor
  <2>2. todo[u] \subseteq File
    BY DEF MemTypes
  <2> QED BY <1>0, <1>4, <2>1, <2>2 DEF Walk, Copied
<1>5. ASSUME NEW u \in Updater, Return(u)
      PROVE  dst' = dst /\ (tmp[TgtFile] # Installed => tmp'[TgtFile] # Installed)
  BY <1>0, <1>5 DEF Return
<1>6. Environment => UNCHANGED fileVars
  BY DEF Environment, LaunchByHand, Launched, Reconfigure, ProcEnds, RemoveStaleSock,
    RestartedUp, RestartFails, Reaped
<1>7. ASSUME NEW u \in Updater, Start(u) \/ Proceed(u) \/ Detect(u) \/ ConfirmStop(u) \/ Lsof(u)
        \/ Ps(u) \/ StatHelper(u) \/ SaveBegin(u) \/ SaveEnd(u) \/ Kill(u) \/ LoadMappings(u)
        \/ Restart(u)
      PROVE UNCHANGED fileVars
  BY <1>7 DEF Start, Proceed, Detect, ConfirmStop, Lsof, Ps, StatHelper, SaveBegin, SaveEnd,
    Kill, LoadMappings, Restart
<1> QED BY <1>1, <1>2, <1>3, <1>4, <1>5, <1>6, <1>7 DEF Next, Progress, vars

\* The steps of an updater, for itself.
LEMMA GoneUpdater ==
  ASSUME Unpacked, TypeInv, GoneInv, NEW u \in Updater, Progress(u) \/ Crash(u), Next
  PROVE  GoneFor(u)'
<1>1. GoneFor(u)
  BY DEF GoneInv
<1>2. /\ tmp[TgtFile] # Installed => tmp'[TgtFile] # Installed
      /\ dst[TgtFile] # Installed => dst'[TgtFile] # Installed
  BY NeverBack
<1>3. ASSUME pc'[u] \in {"idle", "return"} PROVE GoneFor(u)'
  BY <1>3 DEF GoneFor, Past
<1> USE Constants DEF At, TypeInv, TgtTypeOK, FileTypes, MemTypes, memVars, fileVars
<1>4. ASSUME Exit(u) \/ Leave(u, "nil") \/ Fail(u) PROVE GoneFor(u)'
  BY <1>3, <1>4 DEF Exit, Leave, Fail
<1>5. ASSUME NEW p, pc' = [pc EXCEPT ![u] = p],
             pc[u] \notin {"idle", "unpack", "return", "copy", "walk", "restart"},
             p \notin {"unpack", "copy", "walk", "restart"}
      PROVE  GoneFor(u)'
  <2>1. pc'[u] = p /\ tmp'[TgtFile] # Installed
    BY <1>1, <1>2, <1>5 DEF GoneFor
  <2> QED BY <1>5, <2>1 DEF GoneFor, Past
<1>6. CASE Unpack(u)
  <2>0. Installed \notin Updater /\ Installed \notin {Release, Absent, Cut} /\ TgtFile \in File
    BY TargetAssumption DEF Content
  <2>1. ASSUME NEW f \in todo[u], tmp' = Created(u, f), Visited(u, f) PROVE GoneFor(u)'
    <3>1. pc[u] = "unpack" /\ pc'[u] = "unpack" /\ todo'[u] = todo[u] \ {f} /\ f \in File
      BY <1>6, <2>1 DEF Unpack, Visited
    <3>2. TgtFile \notin todo'[u] => tmp'[TgtFile] # Installed
      <4>1. CASE f = TgtFile
        BY <2>0, <2>1, <4>1 DEF Created, Closed
      <4>2. CASE f # TgtFile
        BY <1>1, <1>2, <3>1, <4>2 DEF GoneFor
      <4> QED BY <4>1, <4>2
    <3> QED BY <3>1, <3>2 DEF GoneFor, Past
  <2>2. CASE todo[u] = {} /\ tmp' = Closed(u, Release) /\ Goto(u, "proceed")
    <3>1. pc'[u] = "proceed" /\ tmp'[TgtFile] # Installed
      BY <1>1, <1>2, <1>6, <2>2 DEF Unpack, Goto, GoneFor
    <3> QED BY <3>1 DEF GoneFor, Past
  <2> QED BY <1>4, <1>6, <2>1, <2>2 DEF Unpack
<1>7. CASE Proceed(u) \/ ConfirmStop(u)
  BY <1>4, <1>5, <1>7 DEF Proceed, ConfirmStop, Declined, Goto
<1>8. CASE Detect(u)
  BY <1>4, <1>5, <1>8 DEF Detect
<1>9. CASE Lsof(u) \/ Ps(u) \/ StatHelper(u)
  BY <1>4, <1>5, <1>9 DEF Lsof, Ps, StatHelper, Goto
<1>10. CASE SaveBegin(u) \/ SaveEnd(u) \/ Kill(u)
  BY <1>4, <1>5, <1>10 DEF SaveBegin, SaveEnd, SaveErr, Kill, KillErr, Goto
<1>11. CASE LoadMappings(u)
  <2>1. CASE Exit(u)
    BY <1>4, <2>1
  <2>2. CASE Goto(u, Loop(1))
    <3>1. pc'[u] = Loop(1) /\ idx'[u] = 1 /\ tmp'[TgtFile] # Installed
      BY <1>1, <1>2, <1>11, <2>2 DEF LoadMappings, Goto, MemoryInv, GoneFor
    <3>2. Loop(1) \in {"copy", "restart"} /\ (Loop(1) = "restart" => Len(MappingSeq) = 0)
      BY DEF Loop
    <3>3. \A k \in 1..Len(MappingSeq) : ~(k < idx'[u])
      BY <3>1
    <3> HIDE DEF TypeInv, TgtTypeOK
    <3> QED BY <3>1, <3>2, <3>3 DEF GoneFor, Past
  <2> QED BY <1>11, <2>1, <2>2 DEF LoadMappings
<1>12. CASE CopyHead(u)
  <2>1. CASE Fail(u)
    BY <1>4, <2>1
  <2>2. CASE ~Fail(u)
    <3> DEFINE m == MappingSeq[idx[u]]
    <3>1. /\ pc[u] = "copy" /\ pc'[u] = "walk" /\ idx' = idx /\ dst' = Removed(Under[m])
      BY <1>12, <2>2 DEF CopyHead
    <3>2. tmp'[TgtFile] # Installed
      BY <1>1, <1>2, <3>1 DEF GoneFor
    <3>3. TgtFile \in Under[m] => dst'[TgtFile] # Installed
      BY <3>1, TargetAssumption DEF Removed, Content
    <3>4. \A k \in 1..Len(MappingSeq) :
            k <= idx[u] /\ TgtFile \in Under[MappingSeq[k]] => dst'[TgtFile] # Installed
      <4>1. \A k \in 1..Len(MappingSeq) : k <= idx[u] => k < idx[u] \/ k = idx[u]
        OBVIOUS
      <4>2. \A k \in 1..Len(MappingSeq) :
              k < idx[u] /\ TgtFile \in Under[MappingSeq[k]] => dst'[TgtFile] # Installed
        BY <1>1, <1>2, <3>1 DEF GoneFor, Past
      <4> QED BY <3>3, <4>1, <4>2
    <3> QED BY <3>1, <3>2, <3>4 DEF GoneFor, Past
  <2> QED BY <2>1, <2>2
<1>13. CASE Walk(u)
  <2>1. ASSUME NEW f \in todo[u], Visited(u, f) PROVE GoneFor(u)'
    <3>1. pc[u] = "walk" /\ pc'[u] = "walk" /\ idx' = idx
      BY <1>13, <2>1 DEF Walk, Visited
    <3> QED BY <1>1, <1>2, <3>1 DEF GoneFor, Past
  <2>2. CASE /\ idx' = [idx EXCEPT ![u] = @ + 1]
             /\ pc' = [pc EXCEPT ![u] = Loop(idx[u] + 1)]
    <3>1. pc[u] = "walk" /\ pc'[u] = Loop(idx[u] + 1) /\ idx'[u] = idx[u] + 1
      BY <1>13, <2>2 DEF Walk
    <3>2. idx[u] \in 1..Len(MappingSeq)
      BY <3>1 DEF MemoryInv
    <3>3. \A k \in 1..Len(MappingSeq) :
            k < idx'[u] /\ TgtFile \in Under[MappingSeq[k]] => dst'[TgtFile] # Installed
      BY <1>1, <1>2, <3>1, <3>2 DEF GoneFor, Past
    <3>4. pc'[u] = "restart" => idx'[u] = Len(MappingSeq) + 1
      BY <3>1, <3>2 DEF Loop
    <3>5. tmp'[TgtFile] # Installed /\ pc'[u] \in {"copy", "restart"}
      BY <1>1, <1>2, <3>1 DEF GoneFor, Loop
    <3> HIDE DEF TypeInv, TgtTypeOK
    <3> QED BY <3>3, <3>4, <3>5 DEF GoneFor, Past
  <2> QED BY <1>4, <1>13, <2>1, <2>2 DEF Walk
<1>14. CASE Restart(u)
  BY <1>4, <1>14 DEF Restart, DoesNotWait
<1>15. CASE Return(u) \/ Crash(u)
  <2>1. CASE UNCHANGED <<pc, memVars>>
    BY <1>1, <1>2, <2>1 DEF GoneFor, Past
  <2> QED BY <1>4, <1>15, <2>1 DEF Return, Crash
<1> QED
  BY <1>6, <1>7, <1>8, <1>9, <1>10, <1>11, <1>12, <1>13, <1>14, <1>15 DEF Progress

\* The inductive step.
LEMMA GoneStep == Unpacked /\ TypeInv /\ GoneInv /\ [Next]_vars => GoneInv'
<1> SUFFICES ASSUME Unpacked, TypeInv, GoneInv, [Next]_vars PROVE GoneInv'
  OBVIOUS
<1>1. /\ tmp[TgtFile] # Installed => tmp'[TgtFile] # Installed
      /\ dst[TgtFile] # Installed => dst'[TgtFile] # Installed
  BY NeverBack
<1>2. ASSUME NEW v \in Updater, pc'[v] = pc[v], idx'[v] = idx[v], todo'[v] = todo[v]
      PROVE  GoneFor(v)'
  BY <1>1, <1>2 DEF GoneFor, Past, GoneInv
<1>3. ASSUME starting' \subseteq starting PROVE RestartRunsRelease'
  BY <1>1, <1>3 DEF GoneInv, RestartRunsRelease
<1>4. CASE UNCHANGED vars \/ Environment
  <2>1. UNCHANGED <<pc, idx, todo>> /\ starting' \subseteq starting
    BY <1>4 DEF Environment, LaunchByHand, Launched, Reconfigure, ProcEnds, RemoveStaleSock,
      RestartedUp, RestartFails, Reaped, vars, memVars, mimoVars
  <2> QED BY <1>2, <1>3, <2>1 DEF GoneInv
<1>5. ASSUME NEW u \in Updater, Start(u) PROVE GoneInv'
  <2>1. /\ pc'[u] = "unpack" /\ todo'[u] = File \ Linked /\ idx' = idx /\ starting' = starting
        /\ \A v \in Updater \ {u} : pc'[v] = pc[v] /\ todo'[v] = todo[v]
    BY <1>5 DEF Start, mimoVars, TypeInv, TgtTypeOK, MemTypes
  <2>2. GoneFor(u)'
    BY <2>1, TargetAssumption DEF GoneFor, Past, Unpacked
  <2> QED BY <1>2, <1>3, <2>1, <2>2 DEF GoneInv
<1>6. ASSUME NEW u \in Updater, Progress(u) \/ Crash(u) PROVE GoneInv'
  <2>1. GoneFor(u)'
    BY <1>6, GoneUpdater DEF Next
  <2>2. \A v \in Updater \ {u} : GoneFor(v)'
    BY <1>2, <1>6, OneMoves
  <2>3. RestartRunsRelease'
    <3>1. CASE Restart(u)
      <4>1. ASSUME NEW m \in Mapping, TgtFile \in Under[m] PROVE dst'[TgtFile] # Installed
        <5>1. PICK k \in 1..Len(MappingSeq) : m = MappingSeq[k]
          BY DEF Mapping
        <5>2. k < idx[u] /\ pc[u] = "restart"
          BY <3>1, Constants DEF Restart, At, GoneInv, GoneFor
        <5> QED BY <1>1, <4>1, <5>1, <5>2 DEF GoneInv, GoneFor, Past
      <4> QED BY <4>1 DEF RestartRunsRelease
    <3>2. CASE ~Restart(u)
      <4>1. starting' = starting
        BY <1>6, <3>2 DEF Progress, Crash, Unpack, Proceed, Detect, ConfirmStop, Lsof, Ps,
          StatHelper, SaveBegin, SaveEnd, Kill, LoadMappings, CopyHead, Walk, Return, mimoVars
      <4> QED BY <1>3, <4>1
    <3> QED BY <3>1, <3>2
  <2> QED BY <2>1, <2>2, <2>3 DEF GoneInv
<1> QED BY <1>4, <1>5, <1>6 DEF Next

\* The program that was installed is not started again, however many updates run
\* at once (spdk.go:56, run.go:202).
THEOREM NeverTheOldProgram == Spec => []RestartRunsRelease
<1>1. CASE Unpacked
  <2>1. Init => GoneInv
    BY DEF Init, GoneInv, GoneFor, Past, RestartRunsRelease
  <2>2. TypeInv /\ GoneInv /\ [Next]_vars => GoneInv'
    BY <1>1, GoneStep
  <2>3. GoneInv => RestartRunsRelease
    BY DEF GoneInv
  <2> QED BY <2>1, <2>2, <2>3, TypeInit, TypeStep, PTL DEF Spec
<1>2. CASE ~Unpacked
  <2>1. RestartRunsRelease
    BY <1>2 DEF Unpacked, RestartRunsRelease
  <2> QED BY <2>1, PTL
<1> QED BY <1>1, <1>2
=============================================================================
