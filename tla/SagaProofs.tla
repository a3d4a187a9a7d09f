----------------------------- MODULE SagaProofs -----------------------------
(***************************************************************************)
(* Module Transaction implements module Saga: the transaction engine has   *)
(* no behaviour that the promise to its callers does not allow.            *)
(***************************************************************************)
EXTENDS TransactionProofs, SequenceTheorems

\* The abbreviations in the loops are always expanded.
USE DEF Listed, ToUndo, LastIndex, Exhausted, AfterSkip, AfterUndoErr

\* What one iteration of Rollback's loop (transaction.go:57) takes off the
\* executed actions that are still to be visited.
LEMMA Prefix ==
  ASSUME NEW E, NEW s \in Seq(E), NEW n \in 1..Len(s)
  PROVE  /\ Len(SubSeq(s, 1, n)) = n
         /\ SubSeq(s, 1, n)[n] = s[n]
         /\ SubSeq(SubSeq(s, 1, n), 1, n - 1) = SubSeq(s, 1, n - 1)
<1> DEFINE t == SubSeq(s, 1, n)
<1>1. n \in Nat /\ 1 <= n /\ n <= Len(s) /\ Len(s) \in Nat
  BY LenProperties
<1>2. t \in Seq(E) /\ Len(t) = n /\ \A i \in 1..n : t[i] = s[i]
  <2>1. \A i \in 1..n : s[i] \in E
    BY <1>1, LenProperties
  <2> QED BY <1>1, <2>1, SubSeqProperties
<1>3. CASE n = 1
  <2>1. SubSeq(t, 1, 0) = <<>> /\ SubSeq(s, 1, 0) = <<>>
    BY SubSeqEmpty
  <2> QED BY <1>1, <1>2, <1>3, <2>1
<1>4. CASE n > 1
  <2>1. 1 \in 1..Len(s) /\ n \in 1..Len(s) /\ 1 \in 1..(n - 1 + 1) /\ n - 1 \in 1..(n - 1 + 1)
    BY <1>1, <1>4
  <2>2. SubSeq(SubSeq(s, 1, n), 1, n - 1) = SubSeq(s, 1 + 1 - 1, 1 + (n - 1) - 1)
    BY <2>1, SubSeqOfSubSeq
  <2> QED BY <1>1, <1>2, <1>4, <2>1, <2>2
<1> QED BY <1>1, <1>3, <1>4

\* A transaction that has not been created is an idle saga.
LEMMA SagaInit == TxnInit => S!Init
BY DEF TxnInit, S!Init, Stack, Residue, Outcome, Ended

\* Creating and filling a transaction (transaction.go:22-35).
LEMMA SagaOpen ==
  ASSUME TxnInv, TxnInv', New \/ Run \/ \E a \in Action : Add(a)
  PROVE  S!Begin \/ UNCHANGED S!vars
<1> USE DEF TxnTypeOK
<1>0. TxnTypeOK /\ RestInv /\ TxnTypeOK' /\ RestInv' /\ RunInv'
  BY DEF TxnInv
<1>1. CASE New
  <2>1. Residue' = {}
    BY <1>1 DEF New, Residue
  <2>2. Outcome' = "forward" /\ Stack' = <<>>
    BY <1>1 DEF New, Outcome, Ended, Stack
  <2>3. Outcome \in {"lost", "idle", "committed", "aborted"}
    <3>1. CASE txnPc = "crashed"
      BY <3>1 DEF Outcome, Ended
    <3>2. CASE txnPc = "closed"
      BY <3>2 DEF Outcome, Ended
    <3> QED BY <1>1, <3>1, <3>2 DEF New
  <2> QED BY <2>1, <2>2, <2>3 DEF S!Begin
<1>2. CASE Run
  <2>1. Residue' = Residue /\ Outcome' = Outcome /\ Stack' = <<>> /\ Stack = <<>>
    BY <1>2 DEF Run, Residue, Outcome, Ended, Stack
  <2> QED BY <2>1 DEF S!vars
<1>3. ASSUME NEW a \in Action, Add(a) PROVE UNCHANGED S!vars
  <2>1. Residue' = Residue /\ Outcome' = Outcome /\ Stack' = <<>> /\ Stack = <<>>
    BY <1>3 DEF Add, Residue, Outcome, Ended, Stack
  <2> QED BY <2>1 DEF S!vars
<1> QED BY <1>1, <1>2, <1>3

\* The loop of Run (transaction.go:40-51): an applied action is a step taken.
LEMMA SagaRun ==
  ASSUME TxnInv, TxnInv', Commit \/ \E a \in Action : SkipDo(a) \/ DoOk(a) \/ DoErr(a)
  PROVE  S!Next \/ UNCHANGED S!vars
<1> USE DEF TxnTypeOK
<1>0. TxnTypeOK /\ Distinct /\ RunInv /\ txnPc = "run" /\ result = "none"
  BY DEF TxnInv, RunInv, Commit, SkipDo, DoOk, DoErr, Reached
<1>1. Stack = executed /\ Outcome = "forward"
  BY <1>0 DEF Stack, Outcome, Ended
<1>2. CASE Commit
  <2>1. Residue' = Residue /\ Outcome' = "committed" /\ Stack' = <<>>
    BY <1>2 DEF Commit, Residue, Outcome, Ended, Stack
  <2> QED BY <1>1, <2>1 DEF S!Commit, S!Next
<1>3. ASSUME NEW a \in Action, SkipDo(a) PROVE UNCHANGED S!vars
  <2>1. Residue' = Residue /\ Outcome' = "forward" /\ Stack' = executed
    BY <1>0, <1>3 DEF SkipDo, Residue, Outcome, Ended, Stack
  <2> QED BY <1>1, <2>1 DEF S!vars
<1>4. ASSUME NEW a \in Action, DoOk(a) \/ DoErr(a) PROVE S!Next
  <2>1. cur \in 1..Len(actions) /\ actions[cur] = a /\ FromFirst(cur - 1)
    BY <1>0, <1>4 DEF DoOk, DoErr, Reached, RunInv
  <2>2. \A p \in 1..Len(executed) : executed[p] # a
    BY <1>0, <2>1 DEF FromFirst, Distinct
  <2>3. effect[a] = "none"
    BY <1>0, <2>2 DEF RunInv, Holds
  <2>4. CASE DoOk(a)
    <3>1. Outcome' = "forward" /\ Stack' = Append(executed, a)
      BY <1>0, <2>4 DEF DoOk, Outcome, Ended, Stack
    <3>2. Residue' = Residue
      BY <1>0, <2>3, <2>4 DEF DoOk, Residue
    <3> QED BY <1>1, <2>2, <3>1, <3>2 DEF S!Step, S!Next
  <2>5. CASE DoErr(a)
    <3>1. Outcome' = "back" /\ Stack' = SubSeq(executed, 1, Len(executed))
      BY <1>0, <2>5 DEF DoErr, Outcome, Ended, Stack
    <3>2. Stack' = executed
      BY <1>0, <3>1, SubSeqFull
    <3>3. Residue' = Residue \cup {a}
      BY <1>0, <2>5 DEF DoErr, Residue
    <3> QED BY <1>1, <2>2, <3>1, <3>2, <3>3 DEF S!Fail, S!Next
  <2> QED BY <1>4, <2>4, <2>5
<1> QED BY <1>2, <1>3, <1>4

\* The loop of Rollback (transaction.go:57-67): an Undo, whatever it returns,
\* is the compensation of the newest step.
LEMMA SagaRollback ==
  ASSUME TxnInv, TxnInv', Abort \/ \E a \in Action : SkipUndo(a) \/ UndoOk(a) \/ UndoErr(a)
  PROVE  S!Next
<1> USE DEF TxnTypeOK
<1>0. /\ TxnTypeOK /\ RollbackInv /\ txnPc = "rollback" /\ result = "none"
      /\ cur \in 0..Len(executed)
  BY DEF TxnInv, RollbackInv, Abort, SkipUndo, UndoOk, UndoErr, Unwinding
<1>1. Stack = SubSeq(executed, 1, cur) /\ Outcome = "back"
  BY <1>0 DEF Stack, Outcome, Ended
<1>2. CASE Abort
  <2>1. Residue' = Residue /\ Outcome' = "aborted" /\ Stack' = <<>>
    BY <1>2 DEF Abort, Residue, Outcome, Ended, Stack
  <2>2. Stack = <<>>
    BY <1>1, <1>2, SubSeqEmpty DEF Abort
  <2> QED BY <1>1, <2>1, <2>2 DEF S!Abort, S!Next
<1>3. ASSUME NEW a \in Action, SkipUndo(a) \/ UndoOk(a) \/ UndoErr(a) PROVE S!Next
  <2>1. cur \in 1..Len(executed) /\ executed[cur] = a /\ cur' = cur - 1
        /\ executed' = executed /\ txnPc' = "rollback"
    BY <1>0, <1>3 DEF SkipUndo, UndoOk, UndoErr, Unwinding
  <2>2. Outcome' = "back" /\ Stack' = SubSeq(executed, 1, cur - 1)
    BY <2>1 DEF Outcome, Ended, Stack
  <2>3. Len(Stack) = cur /\ Stack[Len(Stack)] = a /\ Stack' = SubSeq(Stack, 1, Len(Stack) - 1)
    BY <1>0, <1>1, <2>1, <2>2, Prefix
  <2>4. Stack # <<>>
    BY <2>1, <2>3
  <2>5. effect[a] = "applied"
    BY <1>0, <2>1 DEF RollbackInv, Holds
  <2>6. Residue' \in {Residue, Residue \cup {a}}
    <3>1. CASE SkipUndo(a)
      BY <1>0, <3>1 DEF SkipUndo, Residue
    <3>2. CASE UndoOk(a)
      BY <1>0, <2>5, <3>2 DEF UndoOk, Residue
    <3>3. CASE UndoErr(a)
      BY <1>0, <3>3 DEF UndoErr, Residue
    <3> QED BY <1>3, <3>1, <3>2, <3>3
  <2> QED BY <1>1, <2>2, <2>3, <2>4, <2>6 DEF S!Compensate, S!Next
<1> QED BY <1>2, <1>3

\* Cleanup is not seen by the caller; a process that dies loses the saga.
LEMMA SagaEnd ==
  ASSUME TxnInv, Cleanup \/ TxnCrash
  PROVE  S!Next \/ UNCHANGED S!vars
<1> USE ClosureAssumption DEF TxnTypeOK
<1>0. TxnTypeOK /\ RestInv /\ RunInv /\ RollbackInv
  BY DEF TxnInv
<1>1. CASE Cleanup
  <2>1. Residue' = Residue /\ Outcome' = Outcome /\ Stack' = <<>> /\ Stack = <<>>
    BY <1>1 DEF Cleanup, Residue, Outcome, Ended, Stack
  <2> QED BY <2>1 DEF S!vars
<1>2. CASE TxnCrash
  <2>1. Outcome \in {"forward", "back"} /\ Outcome' = "lost" /\ Stack' = <<>>
    BY <1>2 DEF TxnCrash, Outcome, Ended, Stack
  <2>2. Residue' = Residue \/ \E a \in Action : Residue' = Residue \cup {a}
    <3>1. CASE UNCHANGED effect
      BY <3>1 DEF Residue
    <3>2. ASSUME NEW a \in HasDo, effect' = [effect EXCEPT ![a] = "partial"]
          PROVE  a \in Action /\ Residue' = Residue \cup {a}
      BY <1>0, <3>2 DEF Residue
    <3>3. ASSUME NEW a \in HasUndo, effect' = [effect EXCEPT ![a] = "stuck"]
          PROVE  a \in Action /\ Residue' = Residue \cup {a}
      BY <1>0, <3>3 DEF Residue
    <3> QED BY <1>2, <3>1, <3>2, <3>3 DEF TxnCrash
  <2> QED BY <2>1, <2>2 DEF S!Lose, S!Next
<1> QED BY <1>1, <1>2

\* Run, Rollback and Cleanup (transaction.go:22-78) implement the saga.
THEOREM TransactionIsSaga == TxnSpec => IsSaga
<1>1. TxnInv /\ TxnInv' /\ [TxnNext]_txnVars => [S!Next]_(S!vars)
  <2> SUFFICES ASSUME TxnInv, TxnInv', [TxnNext]_txnVars PROVE [S!Next]_(S!vars)
    OBVIOUS
  <2>1. CASE New \/ Run \/ \E a \in Action : Add(a)
    BY <2>1, SagaOpen DEF S!Next
  <2>2. CASE Commit \/ \E a \in Action : SkipDo(a) \/ DoOk(a) \/ DoErr(a)
    BY <2>2, SagaRun
  <2>3. CASE Abort \/ \E a \in Action : SkipUndo(a) \/ UndoOk(a) \/ UndoErr(a)
    BY <2>3, SagaRollback
  <2>4. CASE Cleanup \/ TxnCrash
    BY <2>4, SagaEnd
  <2>5. CASE UNCHANGED txnVars
    BY <2>5 DEF txnVars, S!vars, Stack, Residue, Outcome, Ended
  <2> QED BY <2>1, <2>2, <2>3, <2>4, <2>5 DEF TxnNext, RunStep
<1> QED BY <1>1, SagaInit, Invariant, PTL DEF TxnSpec, IsSaga, S!Spec
=============================================================================
