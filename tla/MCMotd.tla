------------------------------- MODULE MCMotd -------------------------------
(* Two scripts with two bodies: a script can change between updates, and one *)
(* can appear that an earlier update did not see.                            *)
EXTENDS Motd

CONSTANTS s1, s2, b1, b2

MCScript == {s1, s2}
MCBody == {b1, b2}
=============================================================================
