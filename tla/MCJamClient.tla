---- MODULE MCJamClient ----
(* Two other players and three slots: a full map and a free one.           *)
EXTENDS JamClient
====
