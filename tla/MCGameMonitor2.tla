--------------------------- MODULE MCGameMonitor2 ---------------------------
(* Instances of GameMonitor2 for TLC. *)
EXTENDS GameMonitor2

(* Player 1 hosts. *)
Names == [d \in DplayId |-> d]

(* One map, and a status packet sent before the host has chosen it. *)
OneMap == {<<"Comet Catcher", 10>>, <<"", 0>>}

(* The host changes the unit limit and keeps the map. *)
TwoLimits == {<<"Comet Catcher", 10>>, <<"Comet Catcher", 20>>}
=============================================================================
