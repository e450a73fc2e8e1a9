---------------------------- MODULE MCRoomServer ----------------------------
(* Instances of RoomServer for TLC.  Clients and addresses are model       *)
(* values; no symmetry, since the runs check action properties.            *)
EXTENDS RoomServer
=============================================================================
