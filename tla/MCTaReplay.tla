----------------------------- MODULE MCTaReplay -----------------------------
(* Instances of TaReplay for TLC. *)
EXTENDS TaReplay

OffOrOn == {-1, 1}
=============================================================================
