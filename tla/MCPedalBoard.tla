---------------------------- MODULE MCPedalBoard ----------------------------
(* Instances of PedalBoard for TLC: boards of up to three pedals, and a    *)
(* block that may take all of the grace period but one tick.               *)
EXTENDS PedalBoard
=============================================================================
