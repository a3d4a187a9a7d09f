--------------------------- MODULE MCTransaction ---------------------------
(* Four actions: two ordinary ones, one without Undo, one without Do. *)
EXTENDS Transaction

CONSTANTS a1, a2, a3, a4

MCAction == {a1, a2, a3, a4}
MCHasDo == {a1, a2, a3}
MCHasUndo == {a1, a2, a4}
=============================================================================
