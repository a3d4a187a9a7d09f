---------------------------- MODULE MCSysUpdate ----------------------------
(* Two mappings: a unit file and a directory of two files, one of which     *)
(* release v2 packs as a hard link; a name of release v1 leads to the unit. *)
EXTENDS SysUpdate

CONSTANTS v1, v2, boot, tgt, old

MCMappingSeq == <<"unit", "mimo">>
MCFile == {boot, tgt, old}
MCUnit == {boot}
MCUnder == [m \in {"unit", "mimo"} |-> IF m = "unit" THEN {boot} ELSE {tgt, old}]
MCManifest == [v \in {v1, v2} |-> MCFile]
MCLinked == [v \in {v1, v2} |-> IF v = v1 THEN {} ELSE {old}]
MCOutside == [v \in {v1, v2} |-> IF v = v1 THEN {boot} ELSE {}]

\* The same without a unit: one directory.
MCDirSeq == <<"mimo">>
MCDirFile == {tgt, old}
MCDirUnder == [m \in {"mimo"} |-> MCDirFile]
MCDirManifest == [v \in {v1, v2} |-> MCDirFile]
MCDirOutside == [v \in {v1, v2} |-> {}]
=============================================================================
