----------------------------- MODULE MCRoomLease -----------------------------
(* RoomLease for TLC: the leases and generations are interchangeable.       *)
EXTENDS RoomLease, TLC

Symmetry == Permutations(Lease) \cup Permutations(Generation)
=============================================================================
