----------------------------- MODULE MCRoomCommit -----------------------------
(* RoomCommit for TLC: leases and edits are interchangeable model values, the *)
(* generations are the ids the leases propose and recoveries start.          *)
EXTENDS RoomCommit, TLC

MCGeneration == Lease \X {"claim", "recovery"}
MCRecord == [state : SUBSET (Edit \cup (1..MaxRevision)), revision : 1..MaxRevision]
Symmetry == Permutations(Lease) \cup Permutations(Edit)
=============================================================================
