------------------------------ MODULE RoomLease ------------------------------
(***************************************************************************)
(* Server instances that hold a room through leases of the shared store    *)
(* (server/collaboration/distributedRoomLease.ts and its RPC client).      *)
(*                                                                         *)
(* A lease attempt l claims once, is admitted or refused, renews on a      *)
(* heartbeat and is closed once.  An instance trusts its own monotonic     *)
(* clock only: it believes in the lease for Hold units from the moment it  *)
(* SENT the request that granted or renewed it, while the store keeps it   *)
(* for Grant units from the moment it RAN the request.  Requests are sent  *)
(* once (no retries), run at any later time or never, and their answers    *)
(* may be lost; the caller gives up at any time and the request may still  *)
(* run afterwards.                                                         *)
(*                                                                         *)
(* What a holder does to the room (exchange, recover) is left to any       *)
(* arguments here; module RoomCommit gives the callers.                    *)
(***************************************************************************)
EXTENDS AtomicRoomStore

CONSTANTS
    Hold,      \* lifetime of the lease on the holder's clock (20 seconds)
    Beat,      \* renewals are sent this long after the previous one (8 seconds)
    Safety,    \* what the holder takes off the store's expiry (5 seconds)
    Drift,     \* how far a holder's clock can fall behind the store's
    WallSkew   \* difference of the holder's wall clock and the store's

ASSUME LeaseAssumption ==
    /\ Hold \in Nat /\ Beat \in Nat /\ Safety \in Nat
    /\ Drift \in Nat /\ WallSkew \in Nat
    /\ Hold + Drift <= Grant

VARIABLES
    lag,      \* lag[l]: the store's clock minus the monotonic clock of l's holder
    phase,    \* phase[l]: progress of the attempt
    kind,     \* kind[l]: what the attempt claims
    started,  \* started[l]: holder's clock when the last claim or renewal was sent
    receipt,  \* receipt[l]: the answer of the claim, the lease once admitted
    deadline, \* deadline[l]: holder's clock until which it believes in the lease
    renewal,  \* renewal[l]: the heartbeat
    calls     \* requests under way in the store, awaited or abandoned

holderVars == <<lag, phase, kind, started, receipt, deadline, renewal, calls>>
vars == <<storeVars, holderVars>>

Phase == {"idle", "claiming", "open", "aborted", "closed", "failed"}
Receipt == [generation : Generation \cup {NoGeneration}, expires : Nat]
NoReceipt == [generation |-> NoGeneration, expires |-> 0]
Renewal == {"waiting", "sent", "renewed", "denied"}
Call == [op : {"claim", "renew", "release"}, id : Lease, generation : Generation, kind : Kind]

TypeOK ==
    /\ StoreTypeOK
    /\ lag \in [Lease -> 0..Drift]
    /\ phase \in [Lease -> Phase]
    /\ kind \in [Lease -> Kind]
    /\ started \in [Lease -> Int]
    /\ receipt \in [Lease -> Receipt]
    /\ deadline \in [Lease -> Int]
    /\ renewal \in [Lease -> Renewal]
    /\ calls \in SUBSET Call

Clock(l) == now - lag[l]

\* assertActive(): the lease is admitted, not aborted and not past its deadline.
Active(l) == phase[l] = "open" /\ Clock(l) < deadline[l]

Request(o, l, g) == [op |-> o, id |-> l, generation |-> g, kind |-> kind[l]]

\* invalidate(): abort the lease's signal and stop its timers; the deadline and
\* the heartbeat of the attempt no longer matter.
StopTimers(l) ==
    /\ started' = [started EXCEPT ![l] = 0]
    /\ deadline' = [deadline EXCEPT ![l] = 0]
    /\ renewal' = [renewal EXCEPT ![l] = "waiting"]

Invalidate(l) == phase' = [phase EXCEPT ![l] = "aborted"] /\ StopTimers(l)

\* The attempt is over for its holder.
Finish(l, p) ==
    /\ phase' = [phase EXCEPT ![l] = p]
    /\ receipt' = [receipt EXCEPT ![l] = NoReceipt]
    /\ StopTimers(l)

-----------------------------------------------------------------------------
(* acquireDistributedRoomLease *)

StartClaim(l, k, g) ==
    /\ phase[l] = "idle"
    /\ phase' = [phase EXCEPT ![l] = "claiming"]
    /\ kind' = [kind EXCEPT ![l] = k]
    /\ started' = [started EXCEPT ![l] = Clock(l)]
    /\ calls' = calls \cup {[op |-> "claim", id |-> l, generation |-> g, kind |-> k]}
    /\ UNCHANGED <<storeVars, lag, receipt, deadline, renewal>>

\* The store runs the claim.  While the holder still waits, the receipt is on
\* its way, or null and the attempt fails.
RunClaim(c) ==
    /\ c \in calls /\ c.op = "claim"
    /\ Claim(c.id, c.generation, c.kind)
    /\ calls' = calls \ {c}
    /\ LET row == Granted(c.id, c.generation, c.kind) IN
       \/ /\ phase[c.id] = "claiming" /\ Claimable(c.id, c.kind)
          /\ receipt' = [receipt EXCEPT ![c.id] =
                            [generation |-> row.generation, expires |-> row.expires]]
          /\ UNCHANGED <<phase, started, deadline, renewal>>
       \/ /\ phase[c.id] = "claiming" /\ ~Claimable(c.id, c.kind)
          /\ Finish(c.id, "failed")
       \/ /\ phase[c.id] # "claiming"
          /\ UNCHANGED <<phase, receipt, started, deadline, renewal>>
    /\ UNCHANGED <<lag, kind>>

\* The claim times out, its answer is lost, or it is not a valid receipt: the
\* attempt fails, and nobody will release what the store may have granted.
ClaimFails(l) ==
    /\ phase[l] = "claiming"
    /\ Finish(l, "failed")
    /\ UNCHANGED <<storeVars, lag, kind, calls>>

\* Mutant of AdmissionDeadline: trusts the holder's wall clock alone.
WallClockDeadline(l, wall) ==
    LET left == receipt[l].expires - wall - Safety
    IN  Clock(l) + (IF left > 0 THEN left ELSE 0)

\* Deadline on the holder's clock, from its own wall clock and the receipt.
AdmissionDeadline(l, wall) ==
    LET left   == receipt[l].expires - wall - Safety
        own    == started[l] + Hold
        remote == Clock(l) + (IF left > 0 THEN left ELSE 0)
    IN  IF own < remote THEN own ELSE remote

\* The receipt arrives: the lease opens, or is released at once when it has
\* already run out.
Admit(l, wall) ==
    /\ phase[l] = "claiming"
    /\ receipt[l] # NoReceipt
    /\ \/ /\ Clock(l) < AdmissionDeadline(l, wall)
          /\ phase' = [phase EXCEPT ![l] = "open"]
          /\ deadline' = [deadline EXCEPT ![l] = AdmissionDeadline(l, wall)]
          /\ UNCHANGED <<started, receipt, renewal, calls>>
       \/ /\ Clock(l) >= AdmissionDeadline(l, wall)
          /\ calls' = calls \cup {Request("release", l, receipt[l].generation)}
          /\ Finish(l, "closed")
    /\ UNCHANGED <<storeVars, lag, kind>>

-----------------------------------------------------------------------------
(* The heartbeat *)

\* The timer runs Beat after the previous request was sent, or later.
StartRenew(l) ==
    /\ phase[l] = "open"
    /\ renewal[l] = "waiting"
    /\ Clock(l) >= started[l] + Beat
    /\ \/ /\ Active(l)
          /\ started' = [started EXCEPT ![l] = Clock(l)]
          /\ renewal' = [renewal EXCEPT ![l] = "sent"]
          /\ calls' = calls \cup {Request("renew", l, receipt[l].generation)}
          /\ UNCHANGED <<phase, deadline>>
       \/ /\ ~Active(l)
          /\ Invalidate(l)
          /\ UNCHANGED calls
    /\ UNCHANGED <<storeVars, lag, kind, receipt>>

RunRenew(c) ==
    /\ c \in calls /\ c.op = "renew"
    /\ Renew(c.id, c.generation)
    /\ calls' = calls \ {c}
    /\ renewal' = IF phase[c.id] # "open" THEN renewal
                  ELSE [renewal EXCEPT ![c.id] =
                          IF RenewOutcome(c.id, c.generation) THEN "renewed" ELSE "denied"]
    /\ UNCHANGED <<lag, phase, kind, started, receipt, deadline>>

\* Mutants of FinishRenew: the lifetime counts from the answer; the lease is
\* not looked at again after the wait.
FinishRenewFromAnswer(l) ==
    /\ phase[l] = "open"
    /\ renewal[l] \in {"renewed", "denied"}
    /\ \/ /\ Active(l) /\ renewal[l] = "renewed"
          /\ deadline' = [deadline EXCEPT ![l] = Clock(l) + Hold]
          /\ renewal' = [renewal EXCEPT ![l] = "waiting"]
          /\ UNCHANGED <<phase, started>>
       \/ /\ ~Active(l) \/ renewal[l] = "denied"
          /\ Invalidate(l)
    /\ UNCHANGED <<storeVars, lag, kind, receipt, calls>>

FinishRenewUnchecked(l) ==
    /\ phase[l] = "open"
    /\ renewal[l] = "renewed"
    /\ deadline' = [deadline EXCEPT ![l] = started[l] + Hold]
    /\ renewal' = [renewal EXCEPT ![l] = "waiting"]
    /\ UNCHANGED <<storeVars, phase, started, lag, kind, receipt, calls>>

\* The answer arrives.  A lease that ran out while the renewal was under way
\* is not revived by it.
FinishRenew(l) ==
    /\ phase[l] = "open"
    /\ renewal[l] \in {"renewed", "denied"}
    /\ \/ /\ Active(l) /\ renewal[l] = "renewed"
          /\ deadline' = [deadline EXCEPT ![l] = started[l] + Hold]
          /\ renewal' = [renewal EXCEPT ![l] = "waiting"]
          /\ UNCHANGED <<phase, started>>
       \/ /\ ~Active(l) \/ renewal[l] = "denied"
          /\ Invalidate(l)
    /\ UNCHANGED <<storeVars, lag, kind, receipt, calls>>

\* The renewal fails or times out; the request may still run.
RenewFails(l) ==
    /\ phase[l] = "open"
    /\ renewal[l] # "waiting"
    /\ Invalidate(l)
    /\ UNCHANGED <<storeVars, lag, kind, receipt, calls>>

\* The expiration timer, or an assertActive() that finds the deadline passed.
Expire(l) ==
    /\ phase[l] = "open"
    /\ ~Active(l)
    /\ Invalidate(l)
    /\ UNCHANGED <<storeVars, lag, kind, receipt, calls>>

-----------------------------------------------------------------------------
(* close(): abort, then release once; also after the lease was aborted.     *)

Close(l) ==
    /\ phase[l] \in {"open", "aborted"}
    /\ calls' = calls \cup {Request("release", l, receipt[l].generation)}
    /\ Finish(l, "closed")
    /\ UNCHANGED <<storeVars, lag, kind>>

RunRelease(c) ==
    /\ c \in calls /\ c.op = "release"
    /\ Release(c.id, c.generation)
    /\ calls' = calls \ {c}
    /\ UNCHANGED <<lag, phase, kind, started, receipt, deadline, renewal>>

-----------------------------------------------------------------------------
(* The environment *)

\* A request that never reaches the store or is rolled back by it.
LoseCall(c) ==
    /\ c \in calls
    /\ calls' = calls \ {c}
    /\ UNCHANGED <<storeVars, lag, phase, kind, started, receipt, deadline, renewal>>

\* The process of the holder dies: nothing is released.
Crash(l) ==
    /\ phase[l] \in {"claiming", "open", "aborted"}
    /\ Finish(l, "failed")
    /\ UNCHANGED <<storeVars, lag, kind, calls>>

\* Time passes; a holder's clock may stand still or catch up, never go back.
Elapse ==
    /\ Tick
    /\ lag' \in [Lease -> 0..Drift]
    /\ \A l \in Lease : lag'[l] <= lag[l] + 1
    /\ UNCHANGED <<phase, kind, started, receipt, deadline, renewal, calls>>

\* Requests that write the room, from any caller and with any arguments.
WriteRoom ==
    /\ \/ \E l \in Lease, g \in Generation, rec \in Record : Exchange(l, g, version, rec)
       \/ \E l \in Lease, g, newGen \in Generation, rec \in Record :
             Recover(l, g, newGen, record, rec)
    /\ UNCHANGED holderVars

Init ==
    /\ StoreInit
    /\ lag \in [Lease -> 0..Drift]
    /\ phase = [l \in Lease |-> "idle"]
    /\ kind = [l \in Lease |-> "edit"]
    /\ started = [l \in Lease |-> 0]
    /\ receipt = [l \in Lease |-> NoReceipt]
    /\ deadline = [l \in Lease |-> 0]
    /\ renewal = [l \in Lease |-> "waiting"]
    /\ calls = {}

\* What happens to an attempt once it has been started.
HolderProgress(l) ==
    \/ \E wall \in (now - WallSkew)..(now + WallSkew) : Admit(l, wall)
    \/ ClaimFails(l)
    \/ StartRenew(l) \/ FinishRenew(l) \/ RenewFails(l) \/ Expire(l)
    \/ Close(l) \/ Crash(l)

HolderStep(l) ==
    \/ \E k \in Kind, g \in Generation : StartClaim(l, k, g)
    \/ HolderProgress(l)

StoreStep(c) == RunClaim(c) \/ RunRenew(c) \/ RunRelease(c) \/ LoseCall(c)

LeaseStep ==
    \/ \E l \in Lease : HolderStep(l)
    \/ \E c \in calls : StoreStep(c)
    \/ Elapse

Next == LeaseStep \/ WriteRoom

Spec == Init /\ [][Next]_vars

-----------------------------------------------------------------------------
(* Properties *)

\* An editor whose lease passes assertActive() still has it in the store, live
\* and of the generation it was admitted to: the 20 seconds of the holder end
\* before the 30 seconds of the store, whatever the network delays.
ActiveIsBacked ==
    \A l \in Lease : kind[l] = "edit" /\ Active(l) => LiveAs(l, receipt[l].generation, "edit")

\* An active editor holds the room's current generation: it never serves a
\* room that a recovery has replaced.
ActiveHoldsGeneration ==
    \A l \in Lease : kind[l] = "edit" /\ Active(l) /\ version > 0
                        => receipt[l].generation = generation

\* A recovery happens only while no editor anywhere is active.
RecoveryFindsNoEditor ==
    [][version > 0 /\ generation' # generation
        => \A l \in Lease : kind[l] = "edit" => ~Active(l)]_vars

\* A lease that ran out never becomes active again, whatever answer is still
\* under way.
NoRevival ==
    [][\A l \in Lease : phase[l] = "open" /\ ~Active(l) => ~Active(l)']_vars

-----------------------------------------------------------------------------
(* Why ActiveIsBacked holds: the inductive invariant.                       *)

\* Requests under way belong to the attempt they name, at the point of its
\* life where it sends them.
CallsAreOfTheirAttempt ==
    \A c \in calls :
        /\ c.kind = kind[c.id]
        /\ c.op = "claim" => /\ phase[c.id] \in {"claiming", "failed"}
                             /\ receipt[c.id] = NoReceipt
        /\ c.op = "renew" => /\ phase[c.id] \notin {"idle", "claiming"}
                             /\ phase[c.id] = "open"
                                  => /\ c.generation = receipt[c.id].generation
                                     /\ renewal[c.id] = "sent"
        /\ c.op = "release" => phase[c.id] = "closed"

ClaimedOnce ==
    \A c, d \in calls : c.op = "claim" /\ d.op = "claim" /\ c.id = d.id => c = d

\* A holder never believes in the lease for longer than Hold after its request.
TimersAreConservative ==
    \A l \in Lease :
        /\ phase[l] \in {"claiming", "open"} => started[l] <= Clock(l)
        /\ phase[l] = "open" => deadline[l] <= started[l] + Hold

ReceiptsAreHeld ==
    \A l \in Lease :
        /\ receipt[l] # NoReceipt => /\ phase[l] \in {"claiming", "open", "aborted"}
                                     /\ receipt[l].generation \in Generation
        /\ phase[l] \in {"open", "aborted"} => receipt[l] # NoReceipt

\* A receipt on its way stands for a row for as long as that row is live.
ReceiptIsBacked ==
    \A l \in Lease :
        phase[l] = "claiming" /\ receipt[l] # NoReceipt =>
            /\ receipt[l].expires >= started[l] + Grant
            /\ kind[l] = "edit" /\ receipt[l].expires > now =>
                 [id |-> l, generation |-> receipt[l].generation, kind |-> "edit",
                  expires |-> receipt[l].expires] \in leases

\* The row of an active editor outlives its deadline, the next one included
\* when a renewal has been granted.
RowOutlives(r, l) ==
    /\ r.id = l /\ r.generation = receipt[l].generation /\ r.kind = "edit"
    /\ r.expires >= deadline[l] + Drift
    /\ renewal[l] = "renewed" => r.expires >= started[l] + Grant

DeadlineIsBacked ==
    \A l \in Lease : kind[l] = "edit" /\ Active(l) => \E r \in leases : RowOutlives(r, l)

LeaseInv ==
    /\ TypeOK /\ StoreInv
    /\ CallsAreOfTheirAttempt /\ ClaimedOnce
    /\ TimersAreConservative
    /\ ReceiptsAreHeld /\ ReceiptIsBacked /\ DeadlineIsBacked
=============================================================================
