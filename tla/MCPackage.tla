----------------------------- MODULE MCPackage -----------------------------
(* Two revisions of the payload: what an earlier run of the script has left  *)
(* may be of another revision than the one that is packed now.               *)
EXTENDS Package

CONSTANTS r1, r2
=============================================================================
