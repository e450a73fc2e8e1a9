--------------------------- MODULE MCJitterBuffer ---------------------------
(* Instances of JitterBuffer for TLC: a ring of a few samples that wraps   *)
(* many times.  Two sample values tell any misplaced sample from the right *)
(* one, the code being indifferent to the values.                          *)
EXTENDS JitterBuffer
=============================================================================
