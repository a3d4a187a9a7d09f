----------------------------- MODULE MCSpdkCmd -----------------------------
(* All lines of up to MaxLen words over "-c", another option (--config is no *)
(* different to the loop), a file, and the saved configuration.              *)
EXTENDS SpdkCmd

CONSTANT MaxLen  \* bound: words of a line typed by hand

MCWord == {"/opt/spdk_tgt", "spdk_tgt", "-c", "-m", "x.json", "saved.json"}
MCLine ==
  {l \in UNION {[1..n -> MCWord \ {"spdk_tgt"}] : n \in 1..MaxLen} :
     /\ l[1] = "/opt/spdk_tgt" /\ \A k \in 2..Len(l) : l[k] # "/opt/spdk_tgt"
     /\ WellFormed(l)}
=============================================================================
