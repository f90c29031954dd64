------------------------------ MODULE MCPresence ------------------------------
(* Presence for TLC: two clients in batches of one, so that a round of two    *)
(* frames can fail between them.                                              *)
EXTENDS Presence
=============================================================================
