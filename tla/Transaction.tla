---------------------------- MODULE Transaction ----------------------------
(***************************************************************************)
(* internal/transaction/transaction.go: a list of actions, each with a Do  *)
(* and an Undo closure, run in order; the first Do that returns an error   *)
(* makes Rollback call the Undo of every executed action in reverse.       *)
(*                                                                         *)
(* What a Do or an Undo does is left to the modules that compose this one. *)
(* Here the history variable effect only records how its last call ended.  *)
(***************************************************************************)
EXTENDS Naturals, Sequences

CONSTANTS Action,   \* the *Action values callers hand to Add
          HasDo,    \* those whose Do is not nil
          HasUndo   \* those whose Undo is not nil

ASSUME ClosureAssumption == HasDo \subseteq Action /\ HasUndo \subseteq Action

VARIABLES actions,   \* t.actions
          executed,  \* t.executed
          txnPc,     \* where the process is in New .. Cleanup
          cur,       \* loop index of Run, then of Rollback
          result,    \* what Run returned
          effect     \* history: what the calls made for an action left behind

txnVars == <<actions, executed, txnPc, cur, result, effect>>

TxnPc == {"open", "run", "rollback", "returned", "closed", "crashed"}
Effect == {"none",      \* Do was not called
           "applied",   \* Do returned nil
           "partial",   \* Do returned an error or was interrupted
           "undone",    \* Undo returned nil
           "stuck",     \* Undo returned an error or was interrupted
           "kept"}      \* Rollback passed it by: its Undo is nil

TxnTypeOK ==
  /\ actions \in Seq(Action)
  /\ executed \in Seq(Action)
  /\ txnPc \in TxnPc
  /\ cur \in Nat
  /\ result \in {"none", "nil", "error"}
  /\ effect \in [Action -> Effect]

-----------------------------------------------------------------------------
\* No transaction has been created yet.
TxnInit ==
  /\ actions = <<>>
  /\ executed = <<>>
  /\ txnPc = "closed"
  /\ cur = 1
  /\ result = "none"
  /\ effect = [a \in Action |-> "none"]

\* New(): an empty transaction; every update makes one of its own.
New ==
  /\ txnPc \in {"closed", "crashed"}
  /\ txnPc' = "open"
  /\ cur' = 1
  /\ result' = "none"
  /\ effect' = [a \in Action |-> "none"]
  /\ UNCHANGED <<actions, executed>>  \* empty already

\* Every caller allocates the Action it adds, so no action is added twice.
Add(a) ==
  /\ txnPc = "open"
  /\ \A k \in 1..Len(actions) : actions[k] # a
  /\ actions' = Append(actions, a)
  /\ UNCHANGED <<executed, txnPc, cur, result, effect>>

Run ==
  /\ txnPc = "open"
  /\ txnPc' = "run"
  /\ executed' = <<>>
  /\ cur' = 1
  /\ UNCHANGED <<actions, result, effect>>

\* The loop of Run has reached a; SkipDo, DoOk and DoErr are its body.
Reached(a) == txnPc = "run" /\ cur <= Len(actions) /\ actions[cur] = a

SkipDo(a) ==
  /\ Reached(a)
  /\ a \notin HasDo
  /\ cur' = cur + 1
  /\ UNCHANGED <<actions, executed, txnPc, result, effect>>

\* Slip: executed is kept newest first, and Rollback reverses it again.
Prepended(a) == <<a>> \o executed

\* t.executed = append(t.executed, a)
Listed(a) == Append(executed, a)

DoOk(a) ==
  /\ Reached(a)
  /\ a \in HasDo
  /\ effect' = [effect EXCEPT ![a] = "applied"]
  /\ executed' = Listed(a)
  /\ cur' = cur + 1
  /\ UNCHANGED <<actions, txnPc, result>>

\* Slip: the action is listed as executed although its Do failed.
ListedAnyway(a) == Append(executed, a)

\* What Rollback finds when the Do of a has failed.
ToUndo(a) == executed

\* Slip: Rollback starts one below the last executed action.
BelowLast(s) == Len(s) - 1

\* The index at which Rollback starts.
LastIndex(s) == Len(s)

DoErr(a) ==
  /\ Reached(a)
  /\ a \in HasDo
  /\ effect' = [effect EXCEPT ![a] = "partial"]
  /\ executed' = ToUndo(a)
  /\ txnPc' = "rollback"
  /\ cur' = LastIndex(executed')
  /\ UNCHANGED <<actions, result>>

\* Slip: the loop bound loses the last action.
AtLast == cur >= Len(actions)

Exhausted == cur > Len(actions)

Commit ==
  /\ txnPc = "run"
  /\ Exhausted
  /\ txnPc' = "returned"
  /\ result' = "nil"
  /\ UNCHANGED <<actions, executed, cur, effect>>

\* The loop of Rollback has reached a.
Unwinding(a) == txnPc = "rollback" /\ cur > 0 /\ executed[cur] = a

\* Slip: the index is not moved past an action without Undo.
Stay == cur

AfterSkip == cur - 1

SkipUndo(a) ==
  /\ Unwinding(a)
  /\ a \notin HasUndo
  /\ effect' = [effect EXCEPT ![a] = "kept"]
  /\ cur' = AfterSkip
  /\ UNCHANGED <<actions, executed, txnPc, result>>

UndoOk(a) ==
  /\ Unwinding(a)
  /\ a \in HasUndo
  /\ effect' = [effect EXCEPT ![a] = "undone"]
  /\ cur' = cur - 1
  /\ UNCHANGED <<actions, executed, txnPc, result>>

\* Slip: Rollback gives up at the first Undo that fails.
GiveUp == 0

AfterUndoErr == cur - 1

\* An Undo error is collected and the loop goes on; Run drops the collection.
UndoErr(a) ==
  /\ Unwinding(a)
  /\ a \in HasUndo
  /\ effect' = [effect EXCEPT ![a] = "stuck"]
  /\ cur' = AfterUndoErr
  /\ UNCHANGED <<actions, executed, txnPc, result>>

\* Rollback is through: executed is emptied and Run returns the Do's error.
Abort ==
  /\ txnPc = "rollback"
  /\ cur = 0
  /\ executed' = <<>>
  /\ txnPc' = "returned"
  /\ result' = "error"
  /\ UNCHANGED <<actions, cur, effect>>

\* Deferred by RunTransaction.
Cleanup ==
  /\ txnPc = "returned"
  /\ actions' = <<>>
  /\ executed' = <<>>
  /\ txnPc' = "closed"
  /\ UNCHANGED <<cur, result, effect>>

\* The process dies, between two calls or inside a Do or an Undo.
TxnCrash ==
  /\ txnPc \in {"open", "run", "rollback"}
  /\ actions' = <<>>
  /\ executed' = <<>>
  /\ txnPc' = "crashed"
  /\ \/ UNCHANGED effect
     \/ \E a \in HasDo : Reached(a) /\ effect' = [effect EXCEPT ![a] = "partial"]
     \/ \E a \in HasUndo : Unwinding(a) /\ effect' = [effect EXCEPT ![a] = "stuck"]
  /\ UNCHANGED <<cur, result>>

RunStep ==
  \/ \E a \in Action : SkipDo(a) \/ DoOk(a) \/ DoErr(a)
  \/ \E a \in Action : SkipUndo(a) \/ UndoOk(a) \/ UndoErr(a)
  \/ Commit \/ Abort \/ Cleanup

TxnNext ==
  \/ \E a \in Action : Add(a)
  \/ Run \/ RunStep \/ TxnCrash \/ New

TxnSpec == TxnInit /\ [][TxnNext]_txnVars

\* The closures return, so the loops go on: only a crash stops them.
TxnFairSpec == TxnSpec /\ WF_txnVars(RunStep)

-----------------------------------------------------------------------------
(* Properties *)

\* When Run has returned an error (transaction.go:44-48), Undo has been called
\* for every action whose Do had succeeded: none is still simply applied.
RollbackComplete ==
  txnPc = "returned" /\ result = "error" =>
    \A a \in Action : effect[a] # "applied"

\* When Run has returned nil (transaction.go:51), every action that has a Do
\* is applied and none was left half done.
CommitComplete ==
  txnPc = "returned" /\ result = "nil" =>
    \A k \in 1..Len(actions) :
      effect[actions[k]] = IF actions[k] \in HasDo THEN "applied" ELSE "none"

\* Rollback is newest first over the order of registration
\* (transaction.go:57): once an action's Undo has been tried, no action
\* registered after it is still applied.
NewestFirst ==
  \A j, k \in 1..Len(actions) :
    /\ j < k
    /\ effect[actions[j]] \in {"undone", "stuck"}
    => effect[actions[k]] # "applied"

\* An Undo is only ever called after that action's own Do has succeeded, and
\* at most once (transaction.go:44-49, 66-67): an action whose Do failed is
\* never undone, and nothing is undone again.
UndoAfterDoOnly ==
  [][\A a \in Action :
       /\ txnPc' # "open"
       /\ effect'[a] # effect[a]
       => \/ effect[a] = "none" /\ effect'[a] \in {"applied", "partial"}
          \/ effect[a] = "applied" /\ effect'[a] \in {"undone", "stuck", "kept"}
    ]_txnVars

\* Run always comes to an end and gives its memory back, unless the process
\* dies (transaction.go:38-78).
RunEnds == txnPc = "run" ~> txnPc \in {"closed", "crashed"}

-----------------------------------------------------------------------------
(* The inductive invariant: what the loops of Run and Rollback maintain. *)

Distinct == \A j, k \in 1..Len(actions) : actions[j] = actions[k] => j = k

\* Every executed action is one of the first n registered ones ...
FromFirst(n) ==
  \A p \in 1..Len(executed) : \E k \in 1..n : k <= Len(actions) /\ executed[p] = actions[k]

\* ... and they are in the order of registration.
InOrder ==
  \A p, q \in 1..Len(executed) : \A j, k \in 1..Len(actions) :
    p < q /\ executed[p] = actions[j] /\ executed[q] = actions[k] => j < k

\* Action a is among the executed ones at the positions lo to hi.
Holds(lo, hi, a) == \E p \in 1..Len(executed) : lo <= p /\ p <= hi /\ executed[p] = a

RunInv ==
  txnPc = "run" =>
    /\ result = "none"
    /\ cur \in 1..(Len(actions) + 1)
    /\ FromFirst(cur - 1)
    /\ \A a \in Action :
         /\ effect[a] \in {"none", "applied"}
         /\ effect[a] = "applied" <=> Holds(1, Len(executed), a)
    /\ \A k \in 1..Len(actions) :
         k < cur => effect[actions[k]] = IF actions[k] \in HasDo THEN "applied" ELSE "none"

RollbackInv ==
  txnPc = "rollback" =>
    /\ result = "none"
    /\ cur \in 0..Len(executed)
    /\ FromFirst(Len(actions))
    /\ \A a \in Action :
         /\ effect[a] = "applied" <=> Holds(1, cur, a)
         /\ effect[a] \in {"undone", "stuck", "kept"} <=> Holds(cur + 1, Len(executed), a)

\* Outside of the two loops.
RestInv ==
  /\ txnPc \in {"closed", "crashed"} => actions = <<>> /\ executed = <<>>
  /\ txnPc = "open" => /\ executed = <<>> /\ result = "none"
                       /\ \A a \in Action : effect[a] = "none"
  /\ txnPc = "returned" => /\ result # "none"
                           /\ result = "nil" => \A a \in Action : effect[a] \in {"none", "applied"}

\* Run and Rollback (transaction.go:38-72) keep executed an ordered part of
\* what was registered, and an action is in effect exactly when it is in the
\* part of executed that Rollback has still to visit.
TxnInv ==
  /\ TxnTypeOK
  /\ Distinct /\ InOrder
  /\ RunInv /\ RollbackInv /\ RestInv
  /\ RollbackComplete /\ CommitComplete

-----------------------------------------------------------------------------
(* Refinement: the transaction is a saga. *)

Stack == IF txnPc = "run" THEN executed
         ELSE IF txnPc = "rollback" THEN SubSeq(executed, 1, cur)
         ELSE <<>>

Residue == {a \in Action : effect[a] \in {"partial", "stuck", "kept"}}

Ended == IF result = "none" THEN "idle"
         ELSE IF result = "nil" THEN "committed" ELSE "aborted"

Outcome == IF txnPc = "open" \/ txnPc = "run" THEN "forward"
           ELSE IF txnPc = "rollback" THEN "back"
           ELSE IF txnPc = "crashed" THEN "lost" ELSE Ended

S == INSTANCE Saga WITH stack <- Stack, residue <- Residue, outcome <- Outcome

\* Run, Rollback and Cleanup together implement the saga of module Saga.
IsSaga == S!Spec
=============================================================================
