--------------------------- MODULE MCTargetUpdate ---------------------------
(* One updater: two mappings, the directory with the target and rpc.py, and  *)
(* one file that is copied after it.  Two updaters: the directory only.      *)
EXTENDS TargetUpdate, TLC

CONSTANTS tgt, rpc, etc, u1, u2

MCMappingSeq == <<"mimo", "etc">>
MCFile == {tgt, rpc, etc}
MCUnder == [m \in {"mimo", "etc"} |-> IF m = "mimo" THEN {tgt, rpc} ELSE {etc}]

MCDirSeq == <<"mimo">>
MCDirFile == {tgt, rpc}
MCDirUnder == [m \in {"mimo"} |-> MCDirFile]
MCUpdater == {u1, u2}
MCSymmetry == Permutations(MCUpdater)
=============================================================================
