------------------------------- MODULE RejectLog -------------------------------
(***************************************************************************)
(* The reject log (internal/security/reject.go): a ring of the most recent *)
(* denials and counters by tenant and reason, written by every goroutine   *)
(* that denies something and read by the dashboard.  Record inserts under  *)
(* one mutex, so it is one step; the modules that deny compose it.         *)
(***************************************************************************)
EXTENDS Integers, Sequences, FiniteSets

CONSTANTS
  Tenants, Reasons,
  RingSize     \* ringSize

ASSUME RingSizeType == RingSize \in Nat \ {0}

VARIABLES
  ring, ringPos,
  total, byReason, byTenant,
  history   \* every event, in the order of insertion

rejectVars == <<ring, ringPos, total, byReason, byTenant, history>>

Event == [tenant : Tenants, reason : Reasons]

RingFull == Len(ring) >= RingSize

(* The event takes the slot after the newest; ringPos counts from 0. *)
InsertInRing(event) ==
  IF RingFull
    THEN /\ ring' = [ring EXCEPT ![ringPos + 1] = event]
         /\ ringPos' = (ringPos + 1) % RingSize
    ELSE /\ ring' = Append(ring, event)
         /\ UNCHANGED ringPos

Count(event) ==
  /\ total' = total + 1
  /\ byReason' = [byReason EXCEPT ![event.reason] = @ + 1]
  /\ byTenant' = [byTenant EXCEPT ![event.tenant][event.reason] = @ + 1]

(* The critical section of Record. *)
Record(event) ==
  /\ Count(event)
  /\ InsertInRing(event)
  /\ history' = Append(history, event)

(* Mutant: the slot to write next is taken for the newest. *)
SnapshotIndexShifted(i) ==
  IF ~RingFull THEN Len(ring) - 1 - i ELSE (ringPos + RingSize - i) % RingSize

(* Where Snapshot finds the event i places behind the newest (from 0).     *)
(* ring[idx] of the code is ring[idx + 1] here.                             *)
SnapshotIndex(i) ==
  IF ~RingFull THEN Len(ring) - 1 - i
               ELSE (ringPos + RingSize - 1 - i) % RingSize

(* Snapshot(limit).Recent: a limit of 0 asks for all there is. *)
Snapshot(limit) ==
  LET n == IF limit > 0 /\ limit < Len(ring) THEN limit ELSE Len(ring)
  IN  [i \in 1..n |-> ring[SnapshotIndex(i - 1) + 1]]

RejectInit ==
  /\ ring = <<>>
  /\ ringPos = 0
  /\ total = 0
  /\ byReason = [r \in Reasons |-> 0]
  /\ byTenant = [t \in Tenants |-> [r \in Reasons |-> 0]]
  /\ history = <<>>

-----------------------------------------------------------------------------
RejectTypeOK ==
  /\ ring \in Seq(Event)
  /\ Len(ring) <= RingSize
  /\ ringPos \in 0..(RingSize - 1)
  /\ total \in Nat
  /\ byReason \in [Reasons -> Nat]
  /\ byTenant \in [Tenants -> [Reasons -> Nat]]
  /\ history \in Seq(Event)

(* Whatever the limit, a snapshot shows the latest events, each once, the   *)
(* one inserted last first, across the ring's wrap-around; the counters     *)
(* never forget an event that has left the ring, and the breakdowns by      *)
(* tenant and by reason agree with each other.                              *)
ShowsLatest(limit) ==
  LET shown == Snapshot(limit)
      n     == Len(shown)
  IN  /\ n = IF limit = 0 \/ limit > Len(history) \/ limit > RingSize
               THEN IF Len(history) < RingSize THEN Len(history) ELSE RingSize
               ELSE limit
      /\ \A i \in 1..n : shown[i] = history[Len(history) + 1 - i]

Occurrences(t, r) ==
  Cardinality({i \in DOMAIN history : history[i].tenant = t /\ history[i].reason = r})

RejectLogExact ==
  /\ \A limit \in 0..(RingSize + 1) : ShowsLatest(limit)
  /\ total = Len(history)
  /\ \A r \in Reasons :
       /\ \A t \in Tenants : byTenant[t][r] = Occurrences(t, r)
       /\ byReason[r] = Cardinality({i \in DOMAIN history : history[i].reason = r})
=============================================================================
