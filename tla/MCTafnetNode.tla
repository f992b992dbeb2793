---------------------------- MODULE MCTafnetNode ----------------------------
(* Instances of TafnetNode for TLC. *)
EXTENDS TafnetNode, TLC

CONSTANTS alice, bob

(* alice sends game messages to bob; bob sends its HELLO only. *)
OneWay == (alice :> 1) @@ (bob :> 0)
=============================================================================
