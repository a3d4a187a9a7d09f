------------------------- MODULE TransactionProofs -------------------------
(***************************************************************************)
(* Proofs about module Transaction, for any set of actions, any of which   *)
(* may lack a Do or an Undo, and for any number of transactions and        *)
(* crashes.                                                                *)
(***************************************************************************)
EXTENDS Transaction, TLAPS

\* The abbreviations in the loops are always expanded.
USE DEF Listed, ToUndo, LastIndex, Exhausted, AfterSkip, AfterUndoErr

\* Initially nothing is registered, executed or in effect.
LEMMA InitInv == TxnInit => TxnInv
BY DEF TxnInit, TxnInv, TxnTypeOK, TxnPc, Effect, Distinct, InOrder, RunInv,
       RollbackInv, RestInv, RollbackComplete, CommitComplete

\* Every step keeps the variables in their types (transaction.go:16-78).
LEMMA TypeStep == TxnInv /\ [TxnNext]_txnVars => TxnTypeOK'
<1> SUFFICES ASSUME TxnInv, [TxnNext]_txnVars PROVE TxnTypeOK'
  OBVIOUS
<1> USE ClosureAssumption DEF TxnTypeOK, TxnPc, Effect
<1>0. TxnTypeOK
  BY DEF TxnInv
<1>1. CASE New
  BY <1>0, <1>1 DEF New
<1>2. ASSUME NEW a \in Action, Add(a) PROVE TxnTypeOK'
  BY <1>0, <1>2 DEF Add
<1>3. CASE Run
  BY <1>0, <1>3 DEF Run
<1>4. ASSUME NEW a \in Action, SkipDo(a) \/ DoOk(a) \/ DoErr(a) PROVE TxnTypeOK'
  <2>1. CASE SkipDo(a)
    BY <1>0, <2>1 DEF SkipDo
  <2>2. CASE DoOk(a)
    BY <1>0, <2>2 DEF DoOk
  <2>3. CASE DoErr(a)
    BY <1>0, <2>3 DEF DoErr
  <2> QED BY <1>4, <2>1, <2>2, <2>3
<1>5. ASSUME NEW a \in Action, SkipUndo(a) \/ UndoOk(a) \/ UndoErr(a) PROVE TxnTypeOK'
  BY <1>0, <1>5 DEF SkipUndo, UndoOk, UndoErr, Unwinding
<1>6. CASE Commit \/ Abort \/ Cleanup
  <2>1. CASE Commit
    BY <1>0, <2>1 DEF Commit
  <2>2. CASE Abort
    BY <1>0, <2>2 DEF Abort
  <2>3. CASE Cleanup
    BY <1>0, <2>3 DEF Cleanup
  <2> QED BY <1>6, <2>1, <2>2, <2>3
<1>7. CASE TxnCrash
  <2>1. CASE UNCHANGED effect
    BY <1>0, <1>7, <2>1 DEF TxnCrash
  <2>2. ASSUME NEW a \in HasDo, effect' = [effect EXCEPT ![a] = "partial"] PROVE TxnTypeOK'
    BY <1>0, <1>7, <2>2 DEF TxnCrash
  <2>3. ASSUME NEW a \in HasUndo, effect' = [effect EXCEPT ![a] = "stuck"] PROVE TxnTypeOK'
    BY <1>0, <1>7, <2>3 DEF TxnCrash
  <2> QED BY <1>7, <2>1, <2>2, <2>3 DEF TxnCrash
<1>8. CASE UNCHANGED txnVars
  BY <1>0, <1>8 DEF txnVars
<1> QED
  BY <1>1, <1>2, <1>3, <1>4, <1>5, <1>6, <1>7, <1>8 DEF TxnNext, RunStep
-----------------------------------------------------------------------------
\* A new transaction (transaction.go:22-35) starts with nothing in effect, and
\* registering an action that is not there yet keeps the list free of repeats.
LEMMA OpenStep ==
  ASSUME TxnInv, TxnTypeOK', New \/ Run \/ \E a \in Action : Add(a)
  PROVE  TxnInv'
<1> USE DEF TxnTypeOK
<1>0. TxnTypeOK /\ Distinct /\ InOrder /\ RestInv
  BY DEF TxnInv
<1>1. CASE New
  <2>1. actions' = <<>> /\ executed' = <<>> /\ txnPc' = "open" /\ result' = "none"
    BY <1>0, <1>1 DEF New, RestInv
  <2>2. \A a \in Action : effect'[a] = "none"
    BY <1>1 DEF New
  <2>3. Distinct' /\ InOrder'
    BY <2>1 DEF Distinct, InOrder
  <2>4. RunInv' /\ RollbackInv' /\ RestInv' /\ RollbackComplete' /\ CommitComplete'
    BY <2>1, <2>2 DEF RunInv, RollbackInv, RestInv, RollbackComplete, CommitComplete
  <2> QED BY <2>3, <2>4 DEF TxnInv
<1>2. CASE Run
  <2>1. actions' = actions /\ executed' = <<>> /\ txnPc' = "run" /\ result' = "none" /\ cur' = 1
    BY <1>0, <1>2 DEF Run, RestInv
  <2>2. \A a \in Action : effect'[a] = "none"
    BY <1>0, <1>2 DEF Run, RestInv
  <2>3. Distinct' /\ InOrder'
    BY <1>0, <2>1 DEF Distinct, InOrder
  <2>4. RunInv'
    BY <1>0, <2>1, <2>2 DEF RunInv, FromFirst, Holds
  <2>5. RollbackInv' /\ RestInv' /\ RollbackComplete' /\ CommitComplete'
    BY <2>1 DEF RollbackInv, RestInv, RollbackComplete, CommitComplete
  <2> QED BY <2>3, <2>4, <2>5 DEF TxnInv
<1>3. ASSUME NEW a \in Action, Add(a) PROVE TxnInv'
  <2>1. /\ executed' = <<>> /\ txnPc' = "open" /\ result' = "none" /\ effect' = effect
        /\ actions' = Append(actions, a)
    BY <1>0, <1>3 DEF Add, RestInv
  <2>2. Distinct'
    BY <1>0, <1>3, <2>1 DEF Distinct, Add
  <2>3. InOrder'
    BY <2>1 DEF InOrder
  <2>4. RunInv' /\ RollbackInv' /\ RollbackComplete' /\ CommitComplete'
    BY <2>1 DEF RunInv, RollbackInv, RollbackComplete, CommitComplete
  <2>5. RestInv'
    BY <1>0, <1>3, <2>1 DEF RestInv, Add
  <2> QED BY <2>2, <2>3, <2>4, <2>5 DEF TxnInv
<1> QED BY <1>1, <1>2, <1>3

\* The loop of Run (transaction.go:40-50) appends to executed the action it has
\* just applied, which comes after all the executed ones.
LEMMA RunLoopStep ==
  ASSUME TxnInv, TxnTypeOK', NEW a \in Action, SkipDo(a) \/ DoOk(a)
  PROVE  TxnInv'
<1> USE DEF TxnTypeOK
<1>0. /\ TxnTypeOK /\ Distinct /\ InOrder /\ RunInv
      /\ txnPc = "run" /\ cur <= Len(actions) /\ actions[cur] = a
  BY DEF TxnInv, SkipDo, DoOk, Reached
<1>1. /\ result = "none" /\ cur \in 1..Len(actions)
      /\ FromFirst(cur - 1)
      /\ \A b \in Action :
           /\ effect[b] \in {"none", "applied"}
           /\ effect[b] = "applied" <=> Holds(1, Len(executed), b)
      /\ \A k \in 1..Len(actions) :
           k < cur => effect[actions[k]] = IF actions[k] \in HasDo THEN "applied" ELSE "none"
  BY <1>0 DEF RunInv
<1>2. ~Holds(1, Len(executed), a)
  BY <1>0, <1>1 DEF Holds, FromFirst, Distinct
<1>3. /\ txnPc' = "run" /\ actions' = actions /\ result' = "none" /\ cur' = cur + 1
  BY <1>0, <1>1 DEF SkipDo, DoOk
<1>4. RollbackInv' /\ RestInv' /\ RollbackComplete' /\ CommitComplete' /\ Distinct'
  BY <1>0, <1>3 DEF RollbackInv, RestInv, RollbackComplete, CommitComplete, Distinct
<1>5. CASE SkipDo(a)
  <2>1. executed' = executed /\ effect' = effect /\ a \notin HasDo
    BY <1>5 DEF SkipDo
  <2>2. InOrder'
    BY <1>0, <1>3, <2>1 DEF InOrder
  <2>3. effect[a] = "none"
    BY <1>1, <1>2
  <2>4. FromFirst(cur - 1)'
    BY <1>0, <1>1, <1>3, <2>1 DEF FromFirst
  <2>5. \A k \in 1..Len(actions) : k < cur + 1 =>
          effect[actions[k]] = IF actions[k] \in HasDo THEN "applied" ELSE "none"
    BY <1>0, <1>1, <2>1, <2>3
  <2>6. RunInv'
    BY <1>0, <1>1, <1>3, <2>1, <2>4, <2>5 DEF RunInv, Holds
  <2> QED BY <1>4, <2>2, <2>6 DEF TxnInv
<1>6. CASE DoOk(a)
  <2>1. /\ executed' = Append(executed, a) /\ a \in HasDo
        /\ effect' = [effect EXCEPT ![a] = "applied"]
    BY <1>6 DEF DoOk
  <2>2. /\ Len(executed') = Len(executed) + 1 /\ executed'[Len(executed) + 1] = a
        /\ \A p \in 1..Len(executed) : executed'[p] = executed[p]
    BY <1>0, <2>1
  <2>3. InOrder'
    <3> SUFFICES ASSUME NEW p \in 1..Len(executed'), NEW q \in 1..Len(executed'),
                        NEW j \in 1..Len(actions), NEW k \in 1..Len(actions),
                        p < q, executed'[p] = actions[j], executed'[q] = actions[k]
                 PROVE  j < k
      BY <1>3 DEF InOrder
    <3>0. p \in 1..Len(executed) /\ executed[p] = actions[j]
      BY <1>0, <2>2
    <3>1. CASE q <= Len(executed)
      <4>1. q \in 1..Len(executed) /\ executed[q] = actions[k]
        BY <1>0, <2>2, <3>1
      <4> QED BY <1>0, <3>0, <4>1 DEF InOrder
    <3>2. CASE q = Len(executed) + 1
      <4>1. k = cur
        BY <1>0, <1>1, <2>2, <3>2 DEF Distinct
      <4>2. PICK i \in 1..(cur - 1) : i <= Len(actions) /\ executed[p] = actions[i]
        BY <1>1, <3>0 DEF FromFirst
      <4>3. i = j
        <5>1. i \in 1..Len(actions) /\ actions[i] = actions[j]
          BY <1>0, <1>1, <3>0, <4>2
        <5> QED BY <1>0, <5>1 DEF Distinct
      <4> QED BY <1>0, <1>1, <4>1, <4>2, <4>3
    <3> QED BY <1>0, <2>2, <3>1, <3>2
  <2>4. FromFirst(cur - 1)'
    BY <1>0, <1>1, <1>3, <2>2 DEF FromFirst
  <2>5. \A b \in Action : Holds(1, Len(executed), b)' <=> (b = a \/ Holds(1, Len(executed), b))
    <3> SUFFICES ASSUME NEW b \in Action
                 PROVE  Holds(1, Len(executed), b)' <=> (b = a \/ Holds(1, Len(executed), b))
      OBVIOUS
    <3>1. ASSUME Holds(1, Len(executed), b)' PROVE b = a \/ Holds(1, Len(executed), b)
      BY <1>0, <2>2, <3>1 DEF Holds
    <3>2. ASSUME Holds(1, Len(executed), b) PROVE Holds(1, Len(executed), b)'
      BY <1>0, <2>2, <3>2 DEF Holds
    <3>3. Holds(1, Len(executed), a)'
      BY <1>0, <2>2 DEF Holds
    <3> QED BY <3>1, <3>2, <3>3
  <2>6. \A b \in Action :
          /\ effect'[b] \in {"none", "applied"}
          /\ effect'[b] = "applied" <=> Holds(1, Len(executed), b)'
    BY <1>0, <1>1, <2>1, <2>5
  <2>7. \A k \in 1..Len(actions) : k < cur + 1 =>
          effect'[actions[k]] = IF actions[k] \in HasDo THEN "applied" ELSE "none"
    BY <1>0, <1>1, <2>1
  <2>8. RunInv'
    BY <1>0, <1>1, <1>3, <2>4, <2>6, <2>7 DEF RunInv
  <2> QED BY <1>4, <2>3, <2>8 DEF TxnInv
<1> QED BY <1>5, <1>6

\* A failing Do (transaction.go:44-47) starts Rollback at the newest executed
\* action; the end of the loop returns nil.
LEMMA RunEndStep ==
  ASSUME TxnInv, TxnTypeOK', Commit \/ \E a \in Action : DoErr(a)
  PROVE  TxnInv'
<1> USE DEF TxnTypeOK
<1>0. /\ TxnTypeOK /\ Distinct /\ InOrder /\ RunInv
      /\ txnPc = "run" /\ actions' = actions /\ executed' = executed
  BY DEF TxnInv, DoErr, Commit, Reached
<1>1. Distinct' /\ InOrder'
  BY <1>0 DEF Distinct, InOrder
<1>2. ASSUME NEW a \in Action, DoErr(a) PROVE TxnInv'
  <2>1. /\ txnPc' = "rollback" /\ cur' = Len(executed) /\ result' = "none"
        /\ effect' = [effect EXCEPT ![a] = "partial"]
        /\ cur \in 1..Len(actions) /\ actions[cur] = a
    BY <1>0, <1>2 DEF DoErr, Reached, RunInv
  <2>2. ~Holds(1, Len(executed), a)
    BY <1>0, <2>1 DEF RunInv, Holds, FromFirst, Distinct
  <2>3. FromFirst(Len(actions))'
    BY <1>0, <2>1 DEF RunInv, FromFirst
  <2>4. \A b \in Action : effect'[b] = "applied" <=> Holds(1, Len(executed), b)
    BY <1>0, <2>1, <2>2 DEF RunInv
  <2>5. \A b \in Action : effect'[b] \in {"none", "applied", "partial"}
    BY <1>0, <2>1 DEF RunInv
  <2>6. \A b \in Action : Holds(1, cur, b)' <=> Holds(1, Len(executed), b)
    BY <1>0, <2>1 DEF Holds
  <2>7. \A b \in Action : ~Holds(cur + 1, Len(executed), b)'
    BY <1>0, <2>1 DEF Holds
  <2>8. RollbackInv'
    BY <1>0, <2>1, <2>3, <2>4, <2>5, <2>6, <2>7 DEF RollbackInv
  <2>9. RunInv' /\ RestInv' /\ RollbackComplete' /\ CommitComplete'
    BY <2>1 DEF RunInv, RestInv, RollbackComplete, CommitComplete
  <2> QED BY <1>1, <2>8, <2>9 DEF TxnInv
<1>3. CASE Commit
  <2>1. /\ txnPc' = "returned" /\ result' = "nil" /\ effect' = effect
        /\ cur > Len(actions)
    BY <1>3 DEF Commit
  <2>2. RunInv' /\ RollbackInv' /\ RollbackComplete'
    BY <2>1 DEF RunInv, RollbackInv, RollbackComplete
  <2>3. RestInv'
    BY <1>0, <2>1 DEF RestInv, RunInv
  <2>4. CommitComplete'
    BY <1>0, <2>1 DEF RunInv, CommitComplete
  <2> QED BY <1>1, <2>2, <2>3, <2>4 DEF TxnInv
<1> QED BY <1>2, <1>3

\* An iteration of Rollback (transaction.go:57-65), whatever its Undo returns,
\* takes exactly one action out of effect.
LEMMA RollbackLoopStep ==
  ASSUME TxnInv, TxnTypeOK', NEW a \in Action, SkipUndo(a) \/ UndoOk(a) \/ UndoErr(a)
  PROVE  TxnInv'
<1> USE DEF TxnTypeOK
<1>0. /\ TxnTypeOK /\ Distinct /\ InOrder /\ RollbackInv
      /\ txnPc = "rollback" /\ cur > 0 /\ executed[cur] = a
  BY DEF TxnInv, SkipUndo, UndoOk, UndoErr, Unwinding
<1>1. /\ result = "none" /\ cur \in 1..Len(executed)
      /\ FromFirst(Len(actions))
      /\ \A b \in Action :
           /\ effect[b] = "applied" <=> Holds(1, cur, b)
           /\ effect[b] \in {"undone", "stuck", "kept"} <=> Holds(cur + 1, Len(executed), b)
  BY <1>0 DEF RollbackInv
<1>2. PICK e \in {"undone", "stuck", "kept"} : effect' = [effect EXCEPT ![a] = e]
  BY DEF SkipUndo, UndoOk, UndoErr
<1>3. /\ txnPc' = "rollback" /\ cur' = cur - 1 /\ result' = "none"
      /\ actions' = actions /\ executed' = executed
  BY <1>0, <1>1 DEF SkipUndo, UndoOk, UndoErr
<1>4. Distinct' /\ InOrder'
  BY <1>0, <1>3 DEF Distinct, InOrder
<1>5. RunInv' /\ RestInv' /\ RollbackComplete' /\ CommitComplete'
  BY <1>3 DEF RunInv, RestInv, RollbackComplete, CommitComplete
<1>6. ASSUME NEW p \in 1..Len(executed), executed[p] = a PROVE p = cur
  <2>1. PICK k \in 1..Len(actions) : executed[p] = actions[k]
    BY <1>0, <1>1 DEF FromFirst
  <2>2. executed[cur] = actions[k]
    BY <1>0, <1>6, <2>1
  <2>3. ~(p < cur) /\ ~(cur < p)
    BY <1>0, <1>1, <2>1, <2>2 DEF InOrder
  <2> QED BY <1>0, <1>1, <2>3
<1>7. \A b \in Action : Holds(1, cur, b)' <=> (b # a /\ Holds(1, cur, b))
  <2> SUFFICES ASSUME NEW b \in Action
               PROVE  Holds(1, cur, b)' <=> (b # a /\ Holds(1, cur, b))
    OBVIOUS
  <2>1. ASSUME Holds(1, cur, b)' PROVE b # a /\ Holds(1, cur, b)
    BY <1>0, <1>1, <1>3, <1>6, <2>1 DEF Holds
  <2>2. ASSUME b # a, Holds(1, cur, b) PROVE Holds(1, cur, b)'
    <3>1. PICK p \in 1..Len(executed) : 1 <= p /\ p <= cur /\ executed[p] = b
      BY <2>2 DEF Holds
    <3>2. p <= cur - 1
      BY <1>0, <1>1, <2>2, <3>1
    <3> QED BY <1>3, <3>1, <3>2 DEF Holds
  <2> QED BY <2>1, <2>2
<1>8. \A b \in Action : Holds(cur + 1, Len(executed), b)' <=>
                        (b = a \/ Holds(cur + 1, Len(executed), b))
  <2> SUFFICES ASSUME NEW b \in Action
               PROVE  Holds(cur + 1, Len(executed), b)' <=>
                        (b = a \/ Holds(cur + 1, Len(executed), b))
    OBVIOUS
  <2>1. ASSUME Holds(cur + 1, Len(executed), b)', b # a PROVE Holds(cur + 1, Len(executed), b)
    <3>1. PICK p \in 1..Len(executed) : cur <= p /\ p <= Len(executed) /\ executed[p] = b
      BY <1>1, <1>3, <2>1 DEF Holds
    <3>2. cur + 1 <= p
      BY <1>0, <1>1, <2>1, <3>1
    <3> QED BY <3>1, <3>2 DEF Holds
  <2>2. ASSUME Holds(cur + 1, Len(executed), b) PROVE Holds(cur + 1, Len(executed), b)'
    BY <1>1, <1>3, <2>2 DEF Holds
  <2>3. Holds(cur + 1, Len(executed), a)'
    BY <1>0, <1>1, <1>3 DEF Holds
  <2> QED BY <2>1, <2>2, <2>3
<1>9. \A b \in Action : effect'[b] = IF b = a THEN e ELSE effect[b]
  BY <1>0, <1>2
<1>10. \A b \in Action :
         /\ effect'[b] = "applied" <=> Holds(1, cur, b)'
         /\ effect'[b] \in {"undone", "stuck", "kept"} <=> Holds(cur + 1, Len(executed), b)'
  BY <1>1, <1>2, <1>7, <1>8, <1>9
<1>11. FromFirst(Len(actions))'
  BY <1>1, <1>3 DEF FromFirst
<1>12. RollbackInv'
  BY <1>0, <1>1, <1>3, <1>10, <1>11 DEF RollbackInv
<1> QED BY <1>4, <1>5, <1>12 DEF TxnInv

\* Rollback's end, Cleanup and the death of the process leave no transaction
\* whose executed actions could be undone again (transaction.go:66-67, 75-78).
LEMMA EndStep ==
  ASSUME TxnInv, TxnTypeOK', Abort \/ Cleanup \/ TxnCrash
  PROVE  TxnInv'
<1> USE DEF TxnTypeOK
<1>0. TxnTypeOK /\ Distinct /\ InOrder /\ RollbackInv
  BY DEF TxnInv
<1>1. CASE Abort
  <2>1. /\ actions' = actions /\ executed' = <<>> /\ effect' = effect
        /\ txnPc' = "returned" /\ result' = "error"
        /\ txnPc = "rollback" /\ cur = 0
    BY <1>1 DEF Abort
  <2>2. Distinct' /\ InOrder'
    BY <1>0, <2>1 DEF Distinct, InOrder
  <2>3. RunInv' /\ RollbackInv' /\ RestInv' /\ CommitComplete'
    BY <2>1 DEF RunInv, RollbackInv, RestInv, CommitComplete
  <2>4. \A a \in Action : ~Holds(1, cur, a)
    BY <1>0, <2>1 DEF Holds
  <2>5. RollbackComplete'
    BY <1>0, <2>1, <2>4 DEF RollbackComplete, RollbackInv
  <2> QED BY <2>2, <2>3, <2>5 DEF TxnInv
<1>2. CASE Cleanup \/ TxnCrash
  <2>1. actions' = <<>> /\ executed' = <<>> /\ txnPc' \in {"closed", "crashed"}
    BY <1>2 DEF Cleanup, TxnCrash
  <2>2. Distinct' /\ InOrder'
    BY <2>1 DEF Distinct, InOrder
  <2>3. RunInv' /\ RollbackInv' /\ RestInv' /\ RollbackComplete' /\ CommitComplete'
    BY <2>1 DEF RunInv, RollbackInv, RestInv, RollbackComplete, CommitComplete
  <2> QED BY <2>2, <2>3 DEF TxnInv
<1> QED BY <1>1, <1>2

-----------------------------------------------------------------------------
\* Every step of the engine keeps the invariant of its loops.
LEMMA NextInv == TxnInv /\ [TxnNext]_txnVars => TxnInv'
<1> SUFFICES ASSUME TxnInv, [TxnNext]_txnVars PROVE TxnInv'
  OBVIOUS
<1>0. TxnTypeOK'
  BY TypeStep
<1>1. CASE New \/ Run \/ \E a \in Action : Add(a)
  BY <1>0, <1>1, OpenStep
<1>2. ASSUME NEW a \in Action, SkipDo(a) \/ DoOk(a) PROVE TxnInv'
  BY <1>0, <1>2, RunLoopStep
<1>3. ASSUME NEW a \in Action, DoErr(a) PROVE TxnInv'
  BY <1>0, <1>3, RunEndStep
<1>4. ASSUME NEW a \in Action, SkipUndo(a) \/ UndoOk(a) \/ UndoErr(a) PROVE TxnInv'
  BY <1>0, <1>4, RollbackLoopStep
<1>5. CASE Commit
  BY <1>0, <1>5, RunEndStep
<1>6. CASE Abort \/ Cleanup \/ TxnCrash
  BY <1>0, <1>6, EndStep
<1>7. CASE UNCHANGED txnVars
  BY <1>7 DEF TxnInv, TxnTypeOK, Distinct, InOrder, RunInv, RollbackInv, RestInv,
       RollbackComplete, CommitComplete, FromFirst, Holds, txnVars
<1> QED
  BY <1>1, <1>2, <1>3, <1>4, <1>5, <1>6, <1>7 DEF TxnNext, RunStep

\* The invariant of Run's and Rollback's loops (transaction.go:38-72) holds in
\* every reachable state.
THEOREM Invariant == TxnSpec => []TxnInv
BY InitInv, NextInv, PTL DEF TxnSpec

\* Type correctness of the transaction (transaction.go:16-78).
THEOREM TxnTypes == TxnSpec => []TxnTypeOK
<1>1. TxnInv => TxnTypeOK
  BY DEF TxnInv
<1> QED BY <1>1, Invariant, PTL

\* No Do that succeeded is still in effect when Run returns an error
\* (transaction.go:44-48).
THEOREM RollbackIsComplete == TxnSpec => []RollbackComplete
<1>1. TxnInv => RollbackComplete
  BY DEF TxnInv
<1> QED BY <1>1, Invariant, PTL

\* Every Do is in effect when Run returns nil (transaction.go:51).
THEOREM CommitIsComplete == TxnSpec => []CommitComplete
<1>1. TxnInv => CommitComplete
  BY DEF TxnInv
<1> QED BY <1>1, Invariant, PTL

\* Rollback is newest first (transaction.go:57).
THEOREM RollbackNewestFirst == TxnSpec => []NewestFirst
<1>1. TxnInv => NewestFirst
  <2> SUFFICES ASSUME TxnInv, NEW j \in 1..Len(actions), NEW k \in 1..Len(actions),
                      j < k, effect[actions[j]] \in {"undone", "stuck"},
                      effect[actions[k]] = "applied"
               PROVE  FALSE
    BY DEF NewestFirst
  <2> USE DEF TxnTypeOK, TxnPc
  <2>0. /\ TxnTypeOK /\ InOrder /\ RunInv /\ RollbackInv /\ RestInv /\ RollbackComplete
        /\ actions[j] \in Action /\ actions[k] \in Action
    BY DEF TxnInv
  <2>1. CASE txnPc = "rollback"
    <3>1. PICK p \in 1..Len(executed) : cur + 1 <= p /\ executed[p] = actions[j]
      BY <2>0, <2>1 DEF RollbackInv, Holds
    <3>2. PICK q \in 1..Len(executed) : q <= cur /\ executed[q] = actions[k]
      BY <2>0, <2>1 DEF RollbackInv, Holds
    <3>3. q < p
      BY <2>0, <3>1, <3>2
    <3> QED BY <2>0, <3>1, <3>2, <3>3 DEF InOrder
  <2>2. CASE txnPc = "returned"
    BY <2>0, <2>2 DEF RestInv, RollbackComplete
  <2>3. CASE txnPc = "run"
    BY <2>0, <2>3 DEF RunInv
  <2>4. CASE txnPc \in {"open", "closed", "crashed"}
    BY <2>0, <2>4 DEF RestInv
  <2> QED BY <2>0, <2>1, <2>2, <2>3, <2>4
<1> QED BY <1>1, Invariant, PTL

\* An action whose Do is about to be called (transaction.go:38-44) has not been
\* called before.
LEMMA ReachedIsNew ==
  ASSUME TxnInv, NEW a \in Action, Reached(a) PROVE effect[a] = "none"
<1>0. TxnTypeOK /\ Distinct /\ RunInv
  BY DEF TxnInv
<1>1. cur \in 1..Len(actions) /\ actions[cur] = a /\ FromFirst(cur - 1)
  BY <1>0 DEF Reached, RunInv, TxnTypeOK
<1>2. ~Holds(1, Len(executed), a)
  BY <1>0, <1>1 DEF FromFirst, Distinct, Holds, TxnTypeOK
<1> QED BY <1>0, <1>2 DEF Reached, RunInv

\* An action whose Undo is about to be called (transaction.go:57-62) is in effect.
LEMMA UnwoundIsApplied ==
  ASSUME TxnInv, NEW a \in Action, Unwinding(a) PROVE effect[a] = "applied"
<1>0. TxnTypeOK /\ RollbackInv
  BY DEF TxnInv
<1>1. Holds(1, cur, a)
  BY <1>0 DEF Unwinding, RollbackInv, Holds, TxnTypeOK
<1> QED BY <1>0, <1>1 DEF Unwinding, RollbackInv

\* Only an action that is in effect is undone, and only once
\* (transaction.go:44-49, 57-67).
THEOREM UndoneOnce == TxnSpec => UndoAfterDoOnly
<1> DEFINE P(a) == /\ txnPc' # "open"
                   /\ effect'[a] # effect[a]
                   => \/ effect[a] = "none" /\ effect'[a] \in {"applied", "partial"}
                      \/ effect[a] = "applied" /\ effect'[a] \in {"undone", "stuck", "kept"}
<1>1. TxnInv /\ [TxnNext]_txnVars => [\A a \in Action : P(a)]_txnVars
  <2> SUFFICES ASSUME TxnInv, TxnNext, NEW b \in Action PROVE P(b)
    OBVIOUS
  <2> USE ClosureAssumption DEF TxnTypeOK
  <2>0. TxnTypeOK /\ Distinct /\ RunInv /\ RollbackInv
    BY DEF TxnInv
  <2>1. ASSUME NEW a \in Action, Reached(a) PROVE effect[a] = "none"
    BY <2>1, ReachedIsNew
  <2>2. ASSUME NEW a \in Action, Unwinding(a) PROVE effect[a] = "applied"
    BY <2>2, UnwoundIsApplied
  <2>3. CASE New \/ Run \/ Commit \/ Abort \/ Cleanup \/ \E a \in Action : Add(a)
    BY <2>3 DEF New, Run, Commit, Abort, Cleanup, Add
  <2>4. ASSUME NEW a \in Action, SkipDo(a) \/ DoOk(a) \/ DoErr(a) PROVE P(b)
    BY <2>0, <2>1, <2>4 DEF SkipDo, DoOk, DoErr
  <2>5. ASSUME NEW a \in Action, SkipUndo(a) \/ UndoOk(a) \/ UndoErr(a) PROVE P(b)
    BY <2>0, <2>2, <2>5 DEF SkipUndo, UndoOk, UndoErr
  <2>6. CASE TxnCrash
    <3>1. CASE UNCHANGED effect
      BY <3>1
    <3>2. ASSUME NEW a \in HasDo, Reached(a), effect' = [effect EXCEPT ![a] = "partial"]
          PROVE  P(b)
      BY <2>0, <2>1, <3>2
    <3>3. ASSUME NEW a \in HasUndo, Unwinding(a), effect' = [effect EXCEPT ![a] = "stuck"]
          PROVE  P(b)
      BY <2>0, <2>2, <3>3
    <3> QED BY <2>6, <3>1, <3>2, <3>3 DEF TxnCrash
  <2> QED BY <2>3, <2>4, <2>5, <2>6 DEF TxnNext, RunStep
<1> QED BY <1>1, Invariant, PTL DEF TxnSpec, UndoAfterDoOnly
=============================================================================
