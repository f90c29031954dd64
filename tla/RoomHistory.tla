------------------------------ MODULE RoomHistory ------------------------------
(***************************************************************************)
(* What a collaboration room promises its users, whoever serves it: a      *)
(* document that only grows, a cloud revision that never goes back, and an *)
(* owner's restart that puts the document aside instead of losing it.      *)
(* Clients are told only of what the document has.                         *)
(***************************************************************************)
EXTENDS Integers

CONSTANTS Op, MaxRevision

VARIABLES
    document,  \* the operations of the room's document
    revision,  \* the cloud revision reconciled into it, 0 before the first
    archive,   \* documents put aside by a restart
    told       \* operations clients have been sent

historyVars == <<document, revision, archive, told>>

HistoryInit == document = {} /\ revision = 0 /\ archive = {} /\ told = {}

\* Edits and cloud content are merged in.
Commit ==
    /\ \E more \in SUBSET Op : document' = document \cup more
    /\ revision' \in (IF revision = 0 THEN 1 ELSE revision)..MaxRevision
    /\ UNCHANGED <<archive, told>>

Tell == /\ \E part \in SUBSET document : told' = told \cup part
        /\ UNCHANGED <<document, revision, archive>>

\* The owner starts over from the cloud copy.
Restart ==
    /\ revision > 0
    /\ document' \in SUBSET Op
    /\ revision' \in 1..MaxRevision
    /\ archive' = archive \cup {document}
    /\ UNCHANGED told

HistoryNext == Commit \/ Tell \/ Restart
HistorySpec == HistoryInit /\ [][HistoryNext]_historyVars
=============================================================================
