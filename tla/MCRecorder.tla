----------------------------- MODULE MCRecorder -----------------------------
(* Instances of Recorder for TLC: two recordings and a packet or two, and  *)
(* a size limit small enough to be met by one of them.                     *)
EXTENDS Recorder
=============================================================================
