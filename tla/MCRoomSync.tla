------------------------------ MODULE MCRoomSync ------------------------------
(* RoomSync for TLC: two instances and one commit between them.  They are not *)
(* interchangeable here, because the runs check liveness.                     *)
EXTENDS RoomSync
=============================================================================
