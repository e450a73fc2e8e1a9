---- MODULE MCBoxUnit ----
(* Instances of BoxUnit for TLC.                                           *)
EXTENDS BoxUnit
====
