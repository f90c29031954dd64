----------------------------- MODULE MCRoomServer -----------------------------
(* RoomServer for TLC: one diagram, two sockets and one owner.  No symmetry,   *)
(* because the run checks liveness too.                                       *)
EXTENDS RoomServer
=============================================================================
