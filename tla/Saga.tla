-------------------------------- MODULE Saga --------------------------------
(***************************************************************************)
(* What internal/transaction promises its callers, without its loops and   *)
(* slices: steps are taken one at a time; after the first failing step the *)
(* steps taken so far are compensated, newest first, each exactly once; a  *)
(* compensation that does not succeed is remembered in residue and the     *)
(* next one is tried all the same.  A process that dies leaves everything  *)
(* where it is: nothing is recorded on disk to resume from.                *)
(***************************************************************************)
EXTENDS Naturals, Sequences

CONSTANT Action

VARIABLES stack,    \* steps in place that can still be compensated
          residue,  \* steps left half done, or not compensated
          outcome   \* "idle", "forward", "back", "committed", "aborted", "lost"

vars == <<stack, residue, outcome>>

Init == stack = <<>> /\ residue = {} /\ outcome = "idle"

\* Every transaction starts empty, whatever the one before it left.
Begin ==
  /\ outcome \notin {"forward", "back"}
  /\ stack' = <<>>
  /\ residue' = {}
  /\ outcome' = "forward"

Step(a) ==
  /\ outcome = "forward"
  /\ \A k \in 1..Len(stack) : stack[k] # a
  /\ stack' = Append(stack, a)
  /\ UNCHANGED <<residue, outcome>>

Fail(a) ==
  /\ outcome = "forward"
  /\ \A k \in 1..Len(stack) : stack[k] # a
  /\ outcome' = "back"
  /\ residue' = residue \cup {a}
  /\ UNCHANGED stack

Compensate ==
  /\ outcome = "back"
  /\ stack # <<>>
  /\ stack' = SubSeq(stack, 1, Len(stack) - 1)
  /\ residue' \in {residue, residue \cup {stack[Len(stack)]}}
  /\ UNCHANGED outcome

Commit ==
  /\ outcome = "forward"
  /\ outcome' = "committed"
  /\ stack' = <<>>
  /\ UNCHANGED residue

Abort ==
  /\ outcome = "back"
  /\ stack = <<>>
  /\ outcome' = "aborted"
  /\ UNCHANGED <<stack, residue>>

Lose ==
  /\ outcome \in {"forward", "back"}
  /\ outcome' = "lost"
  /\ stack' = <<>>
  /\ \/ residue' = residue
     \/ \E a \in Action : residue' = residue \cup {a}

Next ==
  \/ Begin
  \/ \E a \in Action : Step(a) \/ Fail(a)
  \/ Compensate \/ Commit \/ Abort \/ Lose

Spec == Init /\ [][Next]_vars
=============================================================================
