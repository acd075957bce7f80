----------------------------- MODULE LimiterProofs -----------------------------
(***************************************************************************)
(* Proofs about the quota limiter for every number of tenants and request  *)
(* goroutines, every quota and every export; before them, about the reject *)
(* log for every size of the ring and any number of denials: what Record   *)
(* keeps, whoever calls it.                                                *)
(***************************************************************************)
EXTENDS Limiter, FiniteSetTheorems, TLAPS

-----------------------------------------------------------------------------
(* The reject log. *)

(* The ring holds the history's end: below ringPos the events since it last *)
(* wrapped, from there on the older ones.                                   *)
HoldsEnd(r, p, h) ==
  IF Len(h) < RingSize
  THEN r = h /\ p = 0
  ELSE /\ Len(r) = RingSize
       /\ \A i \in 1..p : r[i] = h[Len(h) - p + i]
       /\ \A i \in (p + 1)..RingSize : r[i] = h[Len(h) - p - RingSize + i]

RingHoldsEnd == HoldsEnd(ring, ringPos, history)

CountsExact ==
  /\ total = Len(history)
  /\ \A r \in Reasons :
       /\ \A t \in Tenants : byTenant[t][r] = Occurrences(t, r)
       /\ byReason[r] = Cardinality({i \in DOMAIN history : history[i].reason = r})

LogInv == RejectTypeOK /\ RingHoldsEnd /\ CountsExact

LEMMA Modulo ==
  ASSUME NEW n \in Nat \ {0}, NEW a \in 0..(n - 1)
  PROVE  a % n = a /\ (a + n) % n = a /\ n % n = 0
OBVIOUS

CountIn(s, Hits) == Cardinality({i \in DOMAIN s : s[i] \in Hits})

(* How many elements of a sequence satisfy a condition grows by one when an *)
(* element that satisfies it is appended, and else not.                     *)
LEMMA CountAppended ==
  ASSUME NEW S, NEW s \in Seq(S), NEW e \in S, NEW Hits \in SUBSET S
  PROVE  CountIn(Append(s, e), Hits) = CountIn(s, Hits) + (IF e \in Hits THEN 1 ELSE 0)
<1> DEFINE n == Len(s)
           old == {i \in DOMAIN s : s[i] \in Hits}
           new == {i \in DOMAIN Append(s, e) : Append(s, e)[i] \in Hits}
<1>1. /\ n \in Nat /\ DOMAIN s = 1..n /\ DOMAIN Append(s, e) = 1..(n + 1)
      /\ \A i \in 1..n : Append(s, e)[i] = s[i]
      /\ Append(s, e)[n + 1] = e
  OBVIOUS
<1>2. IsFiniteSet(old) /\ Cardinality(old) \in Nat
  <2>1. IsFiniteSet(1..n)
    BY <1>1, FS_Interval
  <2>2. old \in SUBSET (1..n)
    BY <1>1
  <2> QED BY <2>1, <2>2, FS_Subset, FS_CardinalityType
<1>3. new = old \cup (IF e \in Hits THEN {n + 1} ELSE {})
  BY <1>1
<1>4. n + 1 \notin old
  BY <1>1
<1> HIDE DEF n, old, new
<1>5. Cardinality(new) = Cardinality(old) + (IF e \in Hits THEN 1 ELSE 0)
  <2>1. CASE e \in Hits
    BY <1>2, <1>3, <1>4, <2>1, FS_AddElement
  <2>2. CASE e \notin Hits
    BY <1>2, <1>3, <2>2
  <2> QED BY <2>1, <2>2
<1> QED BY <1>5 DEF old, new, CountIn

LEMMA RejectInitial == RejectInit => LogInv
<1> SUFFICES ASSUME RejectInit PROVE LogInv
  OBVIOUS
<1> USE RingSizeType DEF RejectInit
<1>1. history \in Seq(Event) /\ Len(history) = 0 /\ DOMAIN history = {}
  OBVIOUS
<1>2. RejectTypeOK
  BY <1>1 DEF RejectTypeOK
<1>3. RingHoldsEnd
  BY <1>1 DEF RingHoldsEnd, HoldsEnd
<1>4. CountsExact
  <2>1. ASSUME NEW r \in Reasons
        PROVE  Cardinality({i \in DOMAIN history : history[i].reason = r}) = 0
    <3>1. {i \in DOMAIN history : history[i].reason = r} = {}
      BY <1>1
    <3> QED BY <3>1, FS_EmptySet
  <2>2. ASSUME NEW t \in Tenants, NEW r \in Reasons
        PROVE  Occurrences(t, r) = 0
    <3>1. {i \in DOMAIN history : history[i].tenant = t /\ history[i].reason = r} = {}
      BY <1>1
    <3> QED BY <3>1, FS_EmptySet DEF Occurrences
  <2> QED BY <1>1, <2>1, <2>2 DEF CountsExact
<1> QED BY <1>2, <1>3, <1>4 DEF LogInv

LEMMA RecordKeepsRing ==
  ASSUME LogInv, NEW event \in Event, Record(event)
  PROVE  RingHoldsEnd' /\ ring' \in Seq(Event) /\ Len(ring') <= RingSize /\ ringPos' \in 0..(RingSize - 1)
<1> DEFINE n == Len(history)
<1>1. /\ history \in Seq(Event) /\ ring \in Seq(Event) /\ n \in Nat
      /\ ringPos \in 0..(RingSize - 1) /\ RingSize \in Nat \ {0}
      /\ history' = Append(history, event) /\ Len(history') = n + 1
      /\ \A i \in 1..n : history'[i] = history[i]
      /\ history'[n + 1] = event
  BY RingSizeType DEF LogInv, RejectTypeOK, Record
<1>2. CASE n < RingSize
  <2>1. ring = history /\ ringPos = 0 /\ ~RingFull
    BY <1>1, <1>2 DEF LogInv, RingHoldsEnd, HoldsEnd, RingFull
  <2>2. ring' = history' /\ ringPos' = 0
    BY <1>1, <2>1 DEF Record, InsertInRing
  <2>3. RingHoldsEnd'
    <3>1. CASE n + 1 < RingSize
      BY <1>1, <2>2, <3>1 DEF RingHoldsEnd, HoldsEnd
    <3>2. CASE n + 1 = RingSize
      <4>1. \A i \in 1..RingSize : (n + 1) - 0 - RingSize + i = i
        BY <1>1, <3>2, SMTT(30)
      <4>2. Len(history') = RingSize /\ Len(ring') = RingSize
        BY <1>1, <2>2, <3>2
      <4>3. /\ \A i \in 1..0 : ring'[i] = history'[(n + 1) - 0 + i]
            /\ \A i \in (0 + 1)..RingSize : ring'[i] = history'[(n + 1) - 0 - RingSize + i]
        BY <2>2, <4>1
      <4>4. HoldsEnd(ring', 0, history')
        <5> HIDE DEF n
        <5> QED BY <1>1, <2>2, <3>2, <4>2, <4>3 DEF HoldsEnd
      <4> QED BY <2>2, <4>4 DEF RingHoldsEnd
    <3> QED BY <1>1, <1>2, <3>1, <3>2
  <2> QED BY <1>1, <1>2, <2>2, <2>3
<1>3. CASE n >= RingSize
  <2>1. /\ Len(ring) = RingSize /\ DOMAIN ring = 1..RingSize
        /\ \A i \in 1..ringPos : ring[i] = history[n - ringPos + i]
        /\ \A i \in (ringPos + 1)..RingSize : ring[i] = history[n - ringPos - RingSize + i]
    BY <1>1, <1>3 DEF LogInv, RingHoldsEnd, HoldsEnd
  <2>2. /\ ring' = [ring EXCEPT ![ringPos + 1] = event]
        /\ ringPos' = (ringPos + 1) % RingSize
    BY <1>1, <2>1 DEF Record, InsertInRing, RingFull
  <2>3. ringPos' = IF ringPos + 1 = RingSize THEN 0 ELSE ringPos + 1
    <3>1. ringPos + 1 \in 0..(RingSize - 1) \/ ringPos + 1 = RingSize
      BY <1>1
    <3> QED BY <1>1, <2>2, <3>1, Modulo
  <2>4. /\ ring' \in Seq(Event) /\ Len(ring') = RingSize
        /\ ring'[ringPos + 1] = event
        /\ \A i \in 1..RingSize : i # ringPos + 1 => ring'[i] = ring[i]
    BY <1>1, <2>1, <2>2
  <2>5. ringPos' \in 0..(RingSize - 1)
    BY <1>1, <2>3
  <2>6. \A i \in 1..ringPos : ring'[i] = history'[n - ringPos + i]
    BY <1>1, <1>3, <2>1, <2>4
  <2>7. \A i \in (ringPos + 2)..RingSize : ring'[i] = history'[n - ringPos - RingSize + i]
    BY <1>1, <1>3, <2>1, <2>4
  <2>8. RingHoldsEnd'
    <3>1. CASE ringPos + 1 = RingSize
      <4>1. ringPos' = 0 /\ n - ringPos = (n + 1) - 0 - RingSize
        <5> HIDE DEF n
        <5> QED BY <1>1, <2>3, <3>1
      <4>2. ring'[RingSize] = history'[(n + 1) - 0 - RingSize + RingSize]
        <5>1. (n + 1) - 0 - RingSize + RingSize = n + 1
          BY <1>1
        <5> QED BY <1>1, <2>4, <3>1, <5>1
      <4>3. \A i \in 1..RingSize : i = RingSize \/ i \in 1..ringPos
        BY <1>1, <3>1
      <4>4. \A i \in 1..RingSize : ring'[i] = history'[(n + 1) - 0 - RingSize + i]
        BY <2>6, <4>1, <4>2, <4>3
      <4>5. \A i \in 1..0 : ring'[i] = history'[(n + 1) - 0 + i]
        OBVIOUS
      <4>6. HoldsEnd(ring', 0, history')
        <5>1. 0 + 1 = 1 /\ ~(n + 1 < RingSize)
          BY <1>1, <1>3
        <5> HIDE DEF n
        <5> QED BY <1>1, <2>4, <4>4, <4>5, <5>1, ZenonT(30) DEF HoldsEnd
      <4> QED BY <4>1, <4>6 DEF RingHoldsEnd
    <3>2. CASE ringPos + 1 < RingSize
      <4>1. /\ ringPos' = ringPos + 1 /\ (n + 1) - (ringPos + 1) = n - ringPos
            /\ n - ringPos + (ringPos + 1) = n + 1
        BY <1>1, <2>3, <3>2
      <4>2. \A i \in 1..(ringPos + 1) : i = ringPos + 1 \/ i \in 1..ringPos
        BY <1>1
      <4>3. \A i \in 1..(ringPos + 1) : ring'[i] = history'[(n + 1) - (ringPos + 1) + i]
        BY <1>1, <2>4, <2>6, <4>1, <4>2
      <4>4. \A i \in ((ringPos + 1) + 1)..RingSize :
              ring'[i] = history'[(n + 1) - (ringPos + 1) - RingSize + i]
        <5>1. (ringPos + 1) + 1 = ringPos + 2
          BY <1>1
        <5> QED BY <2>7, <4>1, <5>1
      <4>5. HoldsEnd(ring', ringPos + 1, history')
        <5>1. ~(n + 1 < RingSize)
          BY <1>1, <1>3
        <5> HIDE DEF n
        <5> QED BY <1>1, <2>4, <4>3, <4>4, <5>1 DEF HoldsEnd
      <4> QED BY <4>1, <4>5 DEF RingHoldsEnd
    <3> QED BY <1>1, <3>1, <3>2
  <2> QED BY <1>1, <2>4, <2>5, <2>8
<1> QED BY <1>1, <1>2, <1>3

LEMMA RecordKeepsCounts ==
  ASSUME LogInv, NEW event \in Event, Record(event)
  PROVE  /\ CountsExact'
         /\ total' \in Nat /\ byReason' \in [Reasons -> Nat]
         /\ byTenant' \in [Tenants -> [Reasons -> Nat]] /\ history' \in Seq(Event)
<1>1. /\ history \in Seq(Event) /\ Len(history) \in Nat
      /\ total \in Nat /\ byReason \in [Reasons -> Nat]
      /\ byTenant \in [Tenants -> [Reasons -> Nat]]
      /\ history' = Append(history, event) /\ history' \in Seq(Event)
      /\ Len(history') = Len(history) + 1
      /\ event.tenant \in Tenants /\ event.reason \in Reasons
  BY DEF LogInv, RejectTypeOK, Record, Event
<1>2. /\ total' = total + 1
      /\ byReason' = [byReason EXCEPT ![event.reason] = byReason[event.reason] + 1]
      /\ byTenant' = [byTenant EXCEPT ![event.tenant][event.reason]
                        = byTenant[event.tenant][event.reason] + 1]
  BY DEF Record, Count
<1>3. /\ total' \in Nat /\ byReason' \in [Reasons -> Nat]
      /\ byTenant' \in [Tenants -> [Reasons -> Nat]]
  BY <1>1, <1>2
<1>4. ASSUME NEW r \in Reasons
      PROVE  byReason'[r] = Cardinality({i \in DOMAIN history' : history'[i].reason = r})
  <2> DEFINE Hits == {e \in Event : e.reason = r}
  <2>1. /\ {i \in DOMAIN history : history[i].reason = r} = {i \in DOMAIN history : history[i] \in Hits}
        /\ {i \in DOMAIN history' : history'[i].reason = r} = {i \in DOMAIN history' : history'[i] \in Hits}
    BY <1>1
  <2>2. Hits \in SUBSET Event /\ (event \in Hits <=> event.reason = r)
    OBVIOUS
  <2> HIDE DEF Hits
  <2>3. CountIn(history', Hits) = CountIn(history, Hits) + (IF event \in Hits THEN 1 ELSE 0)
    BY <1>1, <2>2, CountAppended
  <2>4. byReason[r] = CountIn(history, Hits) /\ byReason[r] \in Nat
    BY <1>1, <2>1 DEF LogInv, CountIn, CountsExact
  <2>5. byReason'[r] = byReason[r] + (IF event.reason = r THEN 1 ELSE 0)
    BY <1>1, <1>2, <2>4
  <2> QED BY <2>1, <2>2, <2>3, <2>4, <2>5 DEF CountIn
<1>5. ASSUME NEW t \in Tenants, NEW r \in Reasons
      PROVE  byTenant'[t][r] = Occurrences(t, r)'
  <2> DEFINE Hits == {e \in Event : e.tenant = t /\ e.reason = r}
  <2>1. /\ {i \in DOMAIN history : history[i].tenant = t /\ history[i].reason = r}
             = {i \in DOMAIN history : history[i] \in Hits}
        /\ {i \in DOMAIN history' : history'[i].tenant = t /\ history'[i].reason = r}
             = {i \in DOMAIN history' : history'[i] \in Hits}
    BY <1>1
  <2>2. Hits \in SUBSET Event /\ (event \in Hits <=> event.tenant = t /\ event.reason = r)
    OBVIOUS
  <2> HIDE DEF Hits
  <2>3. CountIn(history', Hits) = CountIn(history, Hits) + (IF event \in Hits THEN 1 ELSE 0)
    BY <1>1, <2>2, CountAppended
  <2>4. byTenant[t][r] = CountIn(history, Hits) /\ byTenant[t][r] \in Nat
    BY <1>1, <2>1, ZenonT(30) DEF LogInv, CountIn, CountsExact, Occurrences
  <2>5. byTenant'[t][r] = byTenant[t][r] + (IF event.tenant = t /\ event.reason = r THEN 1 ELSE 0)
    BY <1>1, <1>2, <2>4
  <2> QED BY <2>1, <2>2, <2>3, <2>4, <2>5 DEF CountIn, Occurrences
<1>6. total' = Len(history')
  BY <1>1, <1>2 DEF LogInv, CountsExact
<1> QED BY <1>1, <1>3, <1>4, <1>5, <1>6 DEF CountsExact

LEMMA RecordKeeps == ASSUME LogInv, NEW event \in Event, Record(event) PROVE LogInv'
BY RecordKeepsRing, RecordKeepsCounts DEF LogInv, RejectTypeOK

(* Snapshot finds in the ring what was inserted i events before the last.   *)
LEMMA SnapshotFinds ==
  ASSUME LogInv, NEW i \in 0..(Len(ring) - 1)
  PROVE  ring[SnapshotIndex(i) + 1] = history[Len(history) - i]
<1> DEFINE n == Len(history)
           p == ringPos
<1>1. /\ n \in Nat /\ p \in 0..(RingSize - 1) /\ RingSize \in Nat \ {0}
  BY RingSizeType DEF LogInv, RejectTypeOK
<1>2. CASE n < RingSize
  <2>1. ring = history /\ SnapshotIndex(i) = n - 1 - i
    BY <1>1, <1>2 DEF LogInv, RingHoldsEnd, HoldsEnd, SnapshotIndex, RingFull
  <2> QED BY <1>1, <2>1
<1>3. CASE n >= RingSize
  <2>1. /\ Len(ring) = RingSize
        /\ \A j \in 1..p : ring[j] = history[n - p + j]
        /\ \A j \in (p + 1)..RingSize : ring[j] = history[n - p - RingSize + j]
    BY <1>1, <1>3 DEF LogInv, RingHoldsEnd, HoldsEnd
  <2>2. SnapshotIndex(i) = (p + RingSize - 1 - i) % RingSize
    BY <1>1, <2>1 DEF SnapshotIndex, RingFull
  <2>3. CASE i < p
    <3>1. p - 1 - i \in 0..(RingSize - 1) /\ p + RingSize - 1 - i = (p - 1 - i) + RingSize
      BY <1>1, <2>3
    <3>2. SnapshotIndex(i) = p - 1 - i
      BY <1>1, <2>2, <3>1, Modulo
    <3> QED BY <1>1, <2>1, <2>3, <3>2
  <2>4. CASE i >= p
    <3>1. p + RingSize - 1 - i \in 0..(RingSize - 1)
      BY <1>1, <2>1, <2>4
    <3>2. SnapshotIndex(i) = p + RingSize - 1 - i
      BY <1>1, <2>2, <3>1, Modulo
    <3>3. (p + RingSize - 1 - i) + 1 \in (p + 1)..RingSize
      BY <1>1, <2>1, <2>4
    <3>4. ring[(p + RingSize - 1 - i) + 1] = history[n - p - RingSize + ((p + RingSize - 1 - i) + 1)]
      BY <2>1, <3>3
    <3>5. n - p - RingSize + ((p + RingSize - 1 - i) + 1) = n - i
      BY <1>1
    <3> QED BY <3>2, <3>4, <3>5
  <2> QED BY <1>1, <2>3, <2>4
<1> QED BY <1>1, <1>2, <1>3

(* The invariant makes every snapshot the latest events, newest first.      *)
LEMMA LogIsExact == LogInv => RejectLogExact
<1> SUFFICES ASSUME LogInv, NEW limit \in 0..(RingSize + 1)
             PROVE  ShowsLatest(limit)
  BY DEF LogInv, CountsExact, RejectLogExact
<1> DEFINE shown == Snapshot(limit)
           n == IF limit > 0 /\ limit < Len(ring) THEN limit ELSE Len(ring)
<1>1. /\ Len(ring) \in Nat /\ Len(history) \in Nat /\ RingSize \in Nat \ {0} /\ limit \in Nat
      /\ Len(ring) = IF Len(history) < RingSize THEN Len(history) ELSE RingSize
  BY RingSizeType DEF LogInv, RejectTypeOK, RingHoldsEnd, HoldsEnd
<1>2. n \in 0..Len(ring)
  BY <1>1
<1>3. shown = [i \in 1..n |-> ring[SnapshotIndex(i - 1) + 1]] /\ Len(shown) = n
  BY <1>2 DEF Snapshot
<1>4. n = IF limit = 0 \/ limit > Len(history) \/ limit > RingSize
          THEN IF Len(history) < RingSize THEN Len(history) ELSE RingSize
          ELSE limit
  BY <1>1
<1>5. \A i \in 1..n : shown[i] = history[Len(history) + 1 - i]
  <2> SUFFICES ASSUME NEW i \in 1..n PROVE shown[i] = history[Len(history) + 1 - i]
    OBVIOUS
  <2>1. i - 1 \in 0..(Len(ring) - 1) /\ Len(history) - (i - 1) = Len(history) + 1 - i
    BY <1>1, <1>2
  <2>2. ring[SnapshotIndex(i - 1) + 1] = history[Len(history) - (i - 1)]
    BY <2>1, SnapshotFinds
  <2> QED BY <1>3, <2>1, <2>2
<1>6. Len(shown) = n
  BY <1>3
<1> HIDE DEF n, shown
<1>7. shown = Snapshot(limit)
  BY DEF shown
<1> QED BY <1>4, <1>5, <1>6, <1>7 DEF ShowsLatest
-----------------------------------------------------------------------------
(* The limiter. *)

Labels == {"idle", "create", "size", "request", "logs", "series", "record"}
Tokens == [requests : Nat, logs : Nat]

(* The types, of what the arithmetic and the lookups below read. *)
LimiterTypeOK ==
  /\ now \in Nat
  /\ limits \in [Tenants -> Requests \cup {Absent}]
  /\ buckets \in [Requests -> Tokens]
  /\ granted \in [Tenants -> Tokens]
  /\ pc \in [Requests -> Labels]
  /\ lim \in [Requests -> Requests \cup {Absent}]
  /\ batch \in [Requests -> Batches \cup {Absent}]
  /\ \A r \in Requests : pc[r] # "idle" => batch[r] \in Batches

TrackerType ==
  /\ series = [l \in Requests |-> series[l]]
  /\ \A l \in Requests : IsFiniteSet(DOMAIN series[l])

(* A tenantLimit is installed for its creator's tenant only, and once, *)
CreatedForTenant ==
  /\ \A t \in Tenants : limits[t] # Absent => TenantOf[limits[t]] = t
  /\ \A r \in Requests : pc[r] = "create" => limits[TenantOf[r]] # r

(* and whoever checks works with it. *)
ChecksInstalled ==
  \A r \in Requests : InUse(r) => lim[r] = limits[TenantOf[r]] /\ lim[r] \in Requests

(* Tokens in the buckets and tokens given away are never more than there *)
(* have been.                                                            *)
BudgetOf(t, tokens) ==
  /\ tokens.requests + granted[t].requests <= RequestBurst + RequestRate * now
  /\ tokens.logs + granted[t].logs <= LogBurst + LogRate * now

Budget ==
  \A t \in Tenants :
    IF limits[t] = Absent THEN granted[t] = [requests |-> 0, logs |-> 0]
                          ELSE BudgetOf(t, buckets[limits[t]])

(* Only an installed tenantLimit has series. *)
TrackedInstalled ==
  \A l \in Requests : limits[TenantOf[l]] # l => DOMAIN series[l] = {}

LimiterInv ==
  /\ LimiterTypeOK
  /\ TrackerType
  /\ CreatedForTenant
  /\ ChecksInstalled
  /\ Budget
  /\ TrackedInstalled
  /\ SeriesBounded

LEMMA ConstantTypes ==
  /\ TenantOf \in [Requests -> Tenants] /\ Absent \notin Requests
  /\ RequestBurst \in Nat /\ RequestRate \in Nat /\ LogBurst \in Nat /\ LogRate \in Nat
  /\ MaxSeries \in Nat /\ SeriesTTL \in Nat
  /\ \A b \in Batches : b.logs \in Nat /\ IsFiniteSet(b.keys)
BY LimiterAssumption

(* What the verdict of checkSeries leaves tracked. *)
AfterCheck(r) == Kept(lim[r]) \cup Tracked(r)

(* When the check passes, the series kept and the new ones fit the limit;   *)
(* when it denies, nothing is added to what was tracked.                    *)
LEMMA TrackedFits ==
  ASSUME LimiterInv, NEW r \in Requests, pc[r] = "series"
  PROVE  /\ IsFiniteSet(AfterCheck(r))
         /\ Cardinality(AfterCheck(r)) <= MaxSeries
<1> DEFINE l == lim[r]
           K == Kept(l)
           N == NewKeys(r)
<1>1. l \in Requests /\ batch[r] \in Batches
  BY DEF LimiterInv, LimiterTypeOK, ChecksInstalled, InUse
<1>2. /\ IsFiniteSet(DOMAIN series[l]) /\ Cardinality(DOMAIN series[l]) <= MaxSeries
      /\ K \in SUBSET DOMAIN series[l]
  BY <1>1 DEF LimiterInv, TrackerType, SeriesBounded, Kept
<1>3. /\ IsFiniteSet(K) /\ Cardinality(K) <= Cardinality(DOMAIN series[l])
      /\ Cardinality(K) \in Nat /\ Cardinality(DOMAIN series[l]) \in Nat
  BY <1>2, FS_Subset, FS_CardinalityType
<1>4. IsFiniteSet(N) /\ Cardinality(N) \in Nat
  <2>1. IsFiniteSet(batch[r].keys) /\ N \in SUBSET batch[r].keys
    BY <1>1, ConstantTypes DEF NewKeys
  <2> QED BY <2>1, FS_Subset, FS_CardinalityType
<1>5. CASE OverCardinality(r)
  <2>1. AfterCheck(r) = K
    BY <1>5 DEF AfterCheck, Tracked
  <2> QED BY <2>1, <1>2, <1>3, ConstantTypes
<1>6. CASE ~OverCardinality(r)
  <2>1. AfterCheck(r) = K \cup N
    BY <1>6 DEF AfterCheck, Tracked, NewKeys
  <2>2. Cardinality(K) + Cardinality(N) <= MaxSeries
    BY <1>6, <1>3, <1>4, ConstantTypes DEF OverCardinality
  <2>3. K \cap N = {}
    BY DEF NewKeys
  <2>4. /\ IsFiniteSet(K \cup N)
        /\ Cardinality(K \cup N) = Cardinality(K) + Cardinality(N) - Cardinality(K \cap N)
    <3> HIDE DEF K, N
    <3> QED BY <1>3, <1>4, FS_Union
  <2>5. Cardinality(K \cup N) = Cardinality(K) + Cardinality(N)
    <3>1. Cardinality(K \cap N) = 0
      BY <2>3, FS_EmptySet
    <3> HIDE DEF K, N
    <3> QED BY <3>1, <1>3, <1>4, <2>4
  <2> QED BY <2>1, <2>2, <2>4, <2>5
<1> QED BY <1>5, <1>6

(* The properties' invariant holds at the start. *)
LEMMA LimiterInitial == LimiterInit => LimiterInv
<1> SUFFICES ASSUME LimiterInit PROVE LimiterInv
  OBVIOUS
<1> USE ConstantTypes DEF LimiterInit
<1>1. LimiterTypeOK
  BY DEF LimiterTypeOK, Tokens, Labels, FullBuckets
<1>2. TrackerType /\ SeriesBounded /\ TrackedInstalled
  <2>1. \A l \in Requests : DOMAIN series[l] = {}
    OBVIOUS
  <2>2. series = [l \in Requests |-> series[l]]
    OBVIOUS
  <2> QED BY <2>1, <2>2, FS_EmptySet DEF TrackerType, SeriesBounded, TrackedInstalled
<1>3. CreatedForTenant /\ ChecksInstalled
  BY DEF CreatedForTenant, ChecksInstalled, InUse
<1>4. Budget
  BY DEF Budget
<1> QED BY <1>1, <1>2, <1>3, <1>4 DEF LimiterInv

(* Time passes: what the buckets gain, the bound gains.                     *)
LEMMA TickKeeps == LimiterInv /\ Tick => LimiterInv'
<1> SUFFICES ASSUME LimiterInv, Tick PROVE LimiterInv'
  OBVIOUS
<1> USE ConstantTypes DEF LimiterInv
<1>1. UNCHANGED <<limits, series, pc, lim, batch, granted>> /\ now' = now + 1
  BY DEF Tick, requestVars
<1>2. ASSUME NEW tokens \in Nat, NEW rate \in Nat, NEW burst \in Nat
      PROVE  Refilled(tokens, rate, burst) \in Nat /\ Refilled(tokens, rate, burst) <= tokens + rate
  BY DEF Refilled
<1>3. ASSUME NEW l \in Requests
      PROVE  /\ buckets'[l] \in Tokens
             /\ buckets'[l].requests <= buckets[l].requests + RequestRate
             /\ buckets'[l].logs <= buckets[l].logs + LogRate
  <2>1. buckets[l].requests \in Nat /\ buckets[l].logs \in Nat
    BY DEF LimiterTypeOK, Tokens
  <2>2. buckets'[l] = [requests |-> Refilled(buckets[l].requests, RequestRate, RequestBurst),
                       logs     |-> Refilled(buckets[l].logs, LogRate, LogBurst)]
    BY DEF Tick
  <2>3. /\ Refilled(buckets[l].requests, RequestRate, RequestBurst) \in Nat
        /\ Refilled(buckets[l].requests, RequestRate, RequestBurst) <= buckets[l].requests + RequestRate
        /\ Refilled(buckets[l].logs, LogRate, LogBurst) \in Nat
        /\ Refilled(buckets[l].logs, LogRate, LogBurst) <= buckets[l].logs + LogRate
    BY <1>2, <2>1
  <2> QED BY <2>2, <2>3 DEF Tokens
<1>4. LimiterTypeOK'
  <2>1. buckets' \in [Requests -> Tokens]
    BY <1>3 DEF Tick
  <2> QED BY <1>1, <2>1 DEF LimiterTypeOK
<1>5. TrackerType' /\ SeriesBounded' /\ TrackedInstalled' /\ CreatedForTenant' /\ ChecksInstalled'
  BY <1>1 DEF TrackerType, SeriesBounded, TrackedInstalled, CreatedForTenant, ChecksInstalled, InUse
<1>6. Budget'
  <2> SUFFICES ASSUME NEW t \in Tenants, limits[t] # Absent
               PROVE  BudgetOf(t, buckets[limits[t]])'
    BY <1>1 DEF Budget
  <2>1. limits[t] \in Requests /\ BudgetOf(t, buckets[limits[t]])
    BY DEF Budget, LimiterTypeOK
  <2>2. /\ RequestRate * (now + 1) = RequestRate * now + RequestRate
        /\ LogRate * (now + 1) = LogRate * now + LogRate
        /\ RequestRate * now \in Nat /\ LogRate * now \in Nat
    BY DEF LimiterTypeOK
  <2>3. /\ buckets[limits[t]] \in Tokens /\ buckets'[limits[t]] \in Tokens /\ granted[t] \in Tokens
    BY <2>1, <1>3 DEF LimiterTypeOK
  <2> QED BY <1>1, <1>3, <2>1, <2>2, <2>3 DEF BudgetOf, Tokens
<1> QED BY <1>4, <1>5, <1>6

(* The steps that only move one goroutine: the look under the read lock, the *)
(* check of the size, the end of a check, the record of a denial.           *)
LEMMA MoveKeeps ==
  ASSUME LimiterInv, NEW r \in Requests,
         UNCHANGED <<now, limits, buckets, series, granted>>,
         \E label \in Labels, l \in Requests \cup {Absent},
            b \in Batches \cup {Absent} :
           /\ pc' = [pc EXCEPT ![r] = label]
           /\ lim' = [lim EXCEPT ![r] = l]
           /\ batch' = [batch EXCEPT ![r] = b]
           /\ label # "idle" => b \in Batches
           /\ label = "create" => limits[TenantOf[r]] # r
           /\ label \notin {"idle", "create"} => l = limits[TenantOf[r]] /\ l \in Requests
  PROVE  LimiterInv'
<1> USE ConstantTypes DEF LimiterInv
<1>1. LimiterTypeOK'
  BY DEF LimiterTypeOK
<1>2. TrackerType' /\ SeriesBounded' /\ TrackedInstalled' /\ Budget'
  BY DEF TrackerType, SeriesBounded, TrackedInstalled, Budget, BudgetOf
<1>3. ChecksInstalled' /\ CreatedForTenant'
  BY DEF ChecksInstalled, CreatedForTenant, InUse, LimiterTypeOK
<1> QED BY <1>1, <1>2, <1>3

LEMMA LookupKeeps == ASSUME LimiterInv, NEW r \in Requests, Lookup(r) PROVE LimiterInv'
<1> DEFINE l == limits[TenantOf[r]]
           label == IF l = Absent THEN "create" ELSE "size"
<1>1. PICK b \in Batches : batch' = [batch EXCEPT ![r] = b]
  BY DEF Lookup
<1>2. l \in Requests \cup {Absent}
  BY ConstantTypes DEF LimiterInv, LimiterTypeOK
<1>3. /\ label \in Labels /\ (label \notin {"idle", "create"} => l \in Requests)
      /\ label = "create" => l # r
  BY <1>2, ConstantTypes DEF Labels
<1>4. /\ UNCHANGED <<now, limits, buckets, series, granted>>
      /\ pc' = [pc EXCEPT ![r] = label] /\ lim' = [lim EXCEPT ![r] = l]
  BY DEF Lookup, Goto
<1> HIDE DEF l, label
<1>5. l = limits[TenantOf[r]]
  BY DEF l
<1> QED BY <1>1, <1>2, <1>3, <1>4, <1>5, MoveKeeps

(* The steps behind the look-up that give no tokens and change no series. *)
LEMMA StayKeeps ==
  ASSUME LimiterInv, NEW r \in Requests, InUse(r),
         UNCHANGED <<now, limits, buckets, series, granted>>,
         \/ /\ UNCHANGED <<batch, lim>>
            /\ \E label \in Labels \ {"idle", "create"} : Goto(r, label)
         \/ ReturnFromCheck(r)
  PROVE  LimiterInv'
<1>1. /\ lim[r] = limits[TenantOf[r]] /\ lim[r] \in Requests
      /\ batch[r] \in Batches
      /\ lim = [lim EXCEPT ![r] = lim[r]] /\ batch = [batch EXCEPT ![r] = batch[r]]
  BY DEF LimiterInv, ChecksInstalled, LimiterTypeOK, InUse
<1>2. CASE UNCHANGED <<batch, lim>> /\ \E label \in Labels \ {"idle", "create"} : Goto(r, label)
  BY <1>1, <1>2, MoveKeeps DEF Goto
<1>3. CASE ReturnFromCheck(r)
  BY <1>1, <1>3, MoveKeeps DEF ReturnFromCheck, Goto, Labels
<1> QED BY <1>2, <1>3

LEMMA OtherChecksKeep ==
  ASSUME LimiterInv, NEW r \in Requests, CheckSize(r) \/ SkipSeries(r) \/ RecordDenial(r)
  PROVE  LimiterInv'
<1>1. InUse(r)
  BY DEF CheckSize, SkipSeries, RecordDenial, InUse
<1>2. UNCHANGED <<now, limits, buckets, series, granted>>
  BY DEF CheckSize, SkipSeries, RecordDenial
<1>3. {"record", "request"} \subseteq Labels \ {"idle", "create"}
  BY DEF Labels
<1>4. CASE CheckSize(r)
  BY <1>1, <1>2, <1>3, <1>4, StayKeeps DEF CheckSize, Deny, Continue
<1>5. CASE SkipSeries(r) \/ RecordDenial(r)
  BY <1>1, <1>2, <1>5, StayKeeps DEF SkipSeries, RecordDenial
<1> QED BY <1>4, <1>5

(* Only a goroutine that finds no tenantLimit under the write lock installs *)
(* its own, which nobody has worked with before.                            *)
LEMMA CreateKeeps == ASSUME LimiterInv, NEW r \in Requests, Create(r) PROVE LimiterInv'
<1> DEFINE t == TenantOf[r]
<1> USE ConstantTypes DEF LimiterInv
<1>1. /\ pc[r] = "create" /\ UNCHANGED <<now, batch, granted>>
      /\ lim' = [lim EXCEPT ![r] = Installed(r)] /\ pc' = [pc EXCEPT ![r] = "size"]
      /\ t \in Tenants /\ limits[t] \in Requests \cup {Absent}
      /\ batch[r] \in Batches /\ limits[t] # r
  BY DEF Create, Goto, LimiterTypeOK, CreatedForTenant
<1>2. CASE limits[t] # Absent
  <2>1. Installed(r) = limits[t] /\ limits[t] \in Requests /\ Installed(r) # r
    BY <1>1, <1>2 DEF Installed
  <2>2. UNCHANGED <<now, limits, buckets, series, granted>>
    BY <1>1, <2>1 DEF Create
  <2>3. "size" \in Labels /\ batch' = [batch EXCEPT ![r] = batch[r]]
    BY <1>1 DEF Labels, LimiterTypeOK
  <2> QED BY <1>1, <2>1, <2>2, <2>3, MoveKeeps
<1>3. CASE limits[t] = Absent
  <2>1. /\ Installed(r) = r
        /\ limits' = [limits EXCEPT ![t] = r]
        /\ buckets' = [buckets EXCEPT ![r] = FullBuckets]
        /\ series' = [series EXCEPT ![r] = <<>>]
    BY <1>3 DEF Installed, Create
  <2>2. LimiterTypeOK'
    BY <1>1, <2>1 DEF LimiterTypeOK, FullBuckets, Tokens, Labels
  <2>3. CreatedForTenant'
    BY <1>1, <2>1 DEF CreatedForTenant, LimiterTypeOK
  <2>4. ChecksInstalled'
    <3> SUFFICES ASSUME NEW q \in Requests, InUse(q)'
                 PROVE  lim'[q] = limits'[TenantOf[q]] /\ lim'[q] \in Requests
      BY DEF ChecksInstalled
    <3>1. CASE q = r
      BY <1>1, <2>1, <3>1 DEF LimiterTypeOK
    <3>2. CASE q # r
      <4>1. InUse(q) /\ lim'[q] = lim[q]
        BY <1>1, <3>2 DEF InUse, LimiterTypeOK
      <4>2. TenantOf[q] # t
        BY <1>3, <4>1 DEF ChecksInstalled
      <4> QED BY <2>1, <4>1, <4>2 DEF ChecksInstalled, LimiterTypeOK
    <3> QED BY <3>1, <3>2
  <2>5. Budget'
    <3> SUFFICES ASSUME NEW u \in Tenants
                 PROVE  IF limits'[u] = Absent THEN granted'[u] = [requests |-> 0, logs |-> 0]
                        ELSE BudgetOf(u, buckets[limits[u]])'
      BY DEF Budget
    <3>1. CASE u = t
      <4>1. granted'[t] = [requests |-> 0, logs |-> 0] /\ buckets'[limits'[t]] = FullBuckets
        BY <1>1, <1>3, <2>1 DEF Budget, LimiterTypeOK
      <4>2. RequestRate * now \in Nat /\ LogRate * now \in Nat
        BY DEF LimiterTypeOK
      <4> QED BY <1>1, <2>1, <3>1, <4>1, <4>2 DEF BudgetOf, FullBuckets, LimiterTypeOK
    <3>2. CASE u # t
      <4>1. limits'[u] = limits[u] /\ limits[u] # r
        BY <1>1, <2>1, <3>2 DEF LimiterTypeOK, CreatedForTenant
      <4>2. buckets'[limits'[u]] = buckets[limits[u]] \/ limits[u] = Absent
        BY <2>1, <4>1 DEF LimiterTypeOK
      <4> QED BY <1>1, <4>1, <4>2 DEF Budget, BudgetOf
    <3> QED BY <3>1, <3>2
  <2>6. TrackerType' /\ SeriesBounded' /\ TrackedInstalled'
    <3>1. series' = [l \in Requests |-> series'[l]]
      BY <2>1 DEF TrackerType
    <3>2. \A l \in Requests : series'[l] = IF l = r THEN <<>> ELSE series[l]
      BY <2>1 DEF TrackerType
    <3>3. DOMAIN series'[r] = {} /\ IsFiniteSet({}) /\ Cardinality({}) <= MaxSeries
      BY <3>2, FS_EmptySet
    <3>4. \A l \in Requests : TenantOf[l] # t \/ l = r => limits'[TenantOf[l]] = limits[TenantOf[l]] \/ l = r
      BY <2>1 DEF LimiterTypeOK
    <3>5. \A l \in Requests : TenantOf[l] = t => limits[TenantOf[l]] # l
      BY <1>3
    <3> QED BY <3>1, <3>2, <3>3, <3>4, <3>5 DEF TrackerType, SeriesBounded, TrackedInstalled
  <2> QED BY <2>2, <2>3, <2>4, <2>5, <2>6
<1> QED BY <1>2, <1>3

(* m requests and n logs go from the bucket r works with to its tenant.     *)
Grant(r, m, n) ==
  /\ buckets' \in [Requests -> Tokens] /\ granted' \in [Tenants -> Tokens]
  /\ \A l \in Requests \ {lim[r]} : buckets'[l] = buckets[l]
  /\ \A t \in Tenants \ {TenantOf[r]} : granted'[t] = granted[t]
  /\ buckets'[lim[r]].requests = buckets[lim[r]].requests - m
  /\ buckets'[lim[r]].logs = buckets[lim[r]].logs - n
  /\ granted'[TenantOf[r]].requests = granted[TenantOf[r]].requests + m
  /\ granted'[TenantOf[r]].logs = granted[TenantOf[r]].logs + n

(* The rate checks: what a bucket loses, the tenant has been granted.       *)
LEMMA RateChecksGrant ==
  ASSUME LimiterInv, NEW r \in Requests, CheckRequestRate(r) \/ CheckLogRate(r)
  PROVE  \E m \in Nat, n \in Nat : Grant(r, m, n)
<1> DEFINE l == lim[r]
           t == TenantOf[r]
<1>1. /\ l \in Requests /\ t \in Tenants /\ batch[r].logs \in Nat
      /\ buckets \in [Requests -> Tokens] /\ granted \in [Tenants -> Tokens]
  BY ConstantTypes DEF LimiterInv, ChecksInstalled, LimiterTypeOK, CheckRequestRate, CheckLogRate, InUse
<1>2. CASE UNCHANGED <<buckets, granted>>
  <2>1. Grant(r, 0, 0)
    BY <1>1, <1>2 DEF Grant, Tokens
  <2> QED BY <2>1
<1>3. CASE CheckRequestRate(r) /\ ~UNCHANGED <<buckets, granted>>
  <2>1. /\ Allows(buckets[l].requests, 1)
        /\ buckets' = [buckets EXCEPT ![l].requests = buckets[l].requests - 1]
        /\ granted' = [granted EXCEPT ![t].requests = granted[t].requests + 1]
    BY <1>3 DEF CheckRequestRate
  <2>2. Grant(r, 1, 0)
    BY <1>1, <2>1 DEF Grant, Tokens, Allows
  <2> QED BY <2>2
<1>4. CASE CheckLogRate(r) /\ ~UNCHANGED <<buckets, granted>>
  <2>1. /\ Allows(buckets[l].logs, batch[r].logs)
        /\ buckets' = [buckets EXCEPT ![l].logs = buckets[l].logs - batch[r].logs]
        /\ granted' = [granted EXCEPT ![t].logs = granted[t].logs + batch[r].logs]
    BY <1>4 DEF CheckLogRate
  <2>2. Grant(r, 0, batch[r].logs)
    BY <1>1, <2>1 DEF Grant, Tokens, Allows
  <2> QED BY <2>2, <1>1
<1> QED BY <1>2, <1>3, <1>4

LEMMA RateChecksKeep ==
  ASSUME LimiterInv, NEW r \in Requests, CheckRequestRate(r) \/ CheckLogRate(r)
  PROVE  LimiterInv'
<1> DEFINE l == lim[r]
           t == TenantOf[r]
<1> USE ConstantTypes
<1>1. PICK m \in Nat, n \in Nat : Grant(r, m, n)
  BY RateChecksGrant
<1>2. /\ InUse(r) /\ l = limits[t] /\ l \in Requests /\ t \in Tenants /\ batch[r] \in Batches
      /\ UNCHANGED <<now, limits, series, batch, lim>>
      /\ buckets[l] \in Tokens /\ granted[t] \in Tokens
  BY DEF LimiterInv, ChecksInstalled, LimiterTypeOK, CheckRequestRate, CheckLogRate, InUse, Deny, Continue
<1>3. PICK label \in Labels \ {"idle", "create"} : pc' = [pc EXCEPT ![r] = label]
  <2>1. {"record", "logs", "series"} \subseteq Labels \ {"idle", "create"}
    BY DEF Labels
  <2> QED BY <2>1 DEF CheckRequestRate, CheckLogRate, Deny, Continue, Goto
<1>5. LimiterTypeOK'
  <2>1. buckets' \in [Requests -> Tokens] /\ granted' \in [Tenants -> Tokens]
    BY <1>1 DEF Grant
  <2> QED BY <1>2, <1>3, <2>1 DEF LimiterInv, LimiterTypeOK
<1>6. TrackerType' /\ SeriesBounded' /\ TrackedInstalled'
  BY <1>2 DEF LimiterInv, TrackerType, SeriesBounded, TrackedInstalled
<1>7. CreatedForTenant' /\ ChecksInstalled'
  BY <1>2, <1>3 DEF LimiterInv, CreatedForTenant, ChecksInstalled, InUse, LimiterTypeOK
<1>8. Budget'
  <2> SUFFICES ASSUME NEW u \in Tenants
               PROVE  IF limits'[u] = Absent THEN granted'[u] = [requests |-> 0, logs |-> 0]
                      ELSE BudgetOf(u, buckets[limits[u]])'
    BY DEF Budget
  <2>1. CASE u = t
    <3>1. BudgetOf(t, buckets[l]) /\ l # Absent
      BY <1>2 DEF LimiterInv, Budget
    <3>2. /\ buckets'[l].requests + granted'[t].requests = buckets[l].requests + granted[t].requests
          /\ buckets'[l].logs + granted'[t].logs = buckets[l].logs + granted[t].logs
      BY <1>1, <1>2 DEF Grant, LimiterInv, LimiterTypeOK, Tokens
    <3> QED BY <1>2, <2>1, <3>1, <3>2 DEF BudgetOf
  <2>2. CASE u # t
    <3>1. granted'[u] = granted[u] /\ limits'[u] = limits[u]
      BY <1>1, <1>2, <2>2 DEF Grant, LimiterInv, LimiterTypeOK
    <3>2. limits[u] # Absent => limits[u] # l /\ buckets'[limits[u]] = buckets[limits[u]]
      BY <1>1, <1>2, <2>2 DEF Grant, LimiterInv, LimiterTypeOK, CreatedForTenant
    <3> QED BY <1>2, <3>1, <3>2 DEF LimiterInv, Budget, BudgetOf
  <2> QED BY <2>1, <2>2
<1> QED BY <1>5, <1>6, <1>7, <1>8 DEF LimiterInv

(* The series check changes the tracker of an installed tenantLimit only.   *)
LEMMA SeriesChanges ==
  ASSUME LimiterInv, NEW r \in Requests, CheckSeries(r)
  PROVE  /\ lim[r] \in Requests /\ limits[TenantOf[lim[r]]] = lim[r]
         /\ series' = [l \in Requests |-> series'[l]]
         /\ DOMAIN series'[lim[r]] = AfterCheck(r)
         /\ \A l \in Requests \ {lim[r]} : series'[l] = series[l]
<1>1. lim[r] \in Requests /\ lim[r] = limits[TenantOf[r]] /\ TenantOf[r] \in Tenants
  BY ConstantTypes DEF LimiterInv, ChecksInstalled, InUse, CheckSeries
<1>2. TenantOf[lim[r]] = TenantOf[r]
  BY <1>1, ConstantTypes DEF LimiterInv, CreatedForTenant
<1> DEFINE after == [k \in Kept(lim[r]) \cup Tracked(r) |-> IF k \in Tracked(r) THEN now ELSE series[lim[r]][k]]
<1>3. series' = [series EXCEPT ![lim[r]] = after] /\ DOMAIN after = AfterCheck(r)
  BY DEF CheckSeries, AfterCheck
<1> HIDE DEF after
<1>4. series = [l \in Requests |-> series[l]]
  BY DEF LimiterInv, TrackerType
<1> QED BY <1>1, <1>2, <1>3, <1>4

LEMMA CheckSeriesKeeps ==
  ASSUME LimiterInv, NEW r \in Requests, CheckSeries(r)
  PROVE  LimiterInv'
<1> USE ConstantTypes
<1>1. /\ InUse(r) /\ batch[r] \in Batches /\ pc[r] = "series"
      /\ UNCHANGED <<now, limits, buckets, granted>>
      /\ lim[r] \in Requests /\ lim[r] = limits[TenantOf[r]]
  BY DEF LimiterInv, ChecksInstalled, LimiterTypeOK, CheckSeries, InUse
<1>2. \/ pc' = [pc EXCEPT ![r] = "record"] /\ UNCHANGED <<lim, batch>>
      \/ /\ pc' = [pc EXCEPT ![r] = "idle"]
         /\ lim' = [lim EXCEPT ![r] = Absent] /\ batch' = [batch EXCEPT ![r] = Absent]
  BY DEF CheckSeries, Deny, ReturnFromCheck, Goto
<1>3. LimiterTypeOK'
  BY <1>1, <1>2 DEF LimiterInv, LimiterTypeOK, Labels
<1>4. CreatedForTenant' /\ ChecksInstalled' /\ Budget'
  BY <1>1, <1>2 DEF LimiterInv, CreatedForTenant, ChecksInstalled, InUse, Budget, BudgetOf, LimiterTypeOK
<1>5. TrackerType' /\ SeriesBounded' /\ TrackedInstalled'
  BY <1>1, SeriesChanges, TrackedFits DEF LimiterInv, TrackerType, SeriesBounded, TrackedInstalled
<1> QED BY <1>3, <1>4, <1>5 DEF LimiterInv

LEMMA LimiterInductive == LimiterInv /\ [LimiterNext]_limiterVars => LimiterInv'
<1> SUFFICES ASSUME LimiterInv, [LimiterNext]_limiterVars PROVE LimiterInv'
  OBVIOUS
<1>1. CASE Tick
  BY <1>1, TickKeeps
<1>2. ASSUME NEW r \in Requests, Check(r) PROVE LimiterInv'
  BY <1>2, LookupKeeps, CreateKeeps, OtherChecksKeep, RateChecksKeep, CheckSeriesKeeps DEF Check
<1>3. CASE UNCHANGED limiterVars
  BY <1>3 DEF limiterVars, requestVars, LimiterInv, LimiterTypeOK, TrackerType, CreatedForTenant,
     ChecksInstalled, InUse, Budget, BudgetOf, TrackedInstalled, SeriesBounded
<1> QED BY <1>1, <1>2, <1>3 DEF LimiterNext

LEMMA LimiterInvariance == LimiterSpec => []LimiterInv
BY LimiterInitial, LimiterInductive, PTL DEF LimiterSpec

-----------------------------------------------------------------------------
(* Racing first requests of a tenant share one tenantLimit, for any number  *)
(* of goroutines: tenant() in quota.go looks twice.                         *)
THEOREM OneLimit == LimiterSpec => []OneLimitPerTenant
<1>1. LimiterInv => OneLimitPerTenant
  BY DEF LimiterInv, ChecksInstalled, OneLimitPerTenant
<1> QED BY <1>1, LimiterInvariance, PTL

(* No tenant gets more requests or logs through than its burst and what     *)
(* time has refilled, whatever the quotas and however requests interleave.  *)
THEOREM RatesHold == LimiterSpec => []RateConformance
<1>1. ASSUME LimiterInv, NEW t \in Tenants
      PROVE  /\ granted[t].requests <= RequestBurst + RequestRate * now
             /\ granted[t].logs <= LogBurst + LogRate * now
  <2>1. granted[t] \in Tokens /\ RequestRate * now \in Nat /\ LogRate * now \in Nat
    BY <1>1, ConstantTypes DEF LimiterInv, LimiterTypeOK
  <2>2. CASE limits[t] = Absent
    <3>1. granted[t] = [requests |-> 0, logs |-> 0]
      BY <1>1, <2>2 DEF LimiterInv, Budget
    <3> QED BY <2>1, <3>1, ConstantTypes
  <2>3. CASE limits[t] # Absent
    <3>1. buckets[limits[t]] \in Tokens /\ BudgetOf(t, buckets[limits[t]])
      BY <1>1, <2>3 DEF LimiterInv, LimiterTypeOK, Budget
    <3> QED BY <2>1, <3>1, ConstantTypes DEF BudgetOf, Tokens
  <2> QED BY <2>2, <2>3
<1>2. LimiterInv => RateConformance
  BY <1>1 DEF RateConformance
<1> QED BY <1>2, LimiterInvariance, PTL

(* The series tracker never holds more series than allowed, whatever is     *)
(* swept, tracked or refused by checkSeries.                                *)
THEOREM SeriesWithinLimit == LimiterSpec => []SeriesBounded
<1>1. LimiterInv => SeriesBounded
  BY DEF LimiterInv
<1> QED BY <1>1, LimiterInvariance, PTL

(* What a step does to the series of one tenantLimit.                       *)
LEMMA SeriesSteps ==
  ASSUME LimiterInv, [LimiterNext]_limiterVars, NEW l \in Requests
  PROVE  \/ series'[l] = series[l]
         \/ DOMAIN series[l] = {}
         \/ \E r \in Requests : CheckSeries(r) /\ lim[r] = l
<1>1. CASE Tick \/ UNCHANGED limiterVars
  BY <1>1 DEF Tick, limiterVars
<1>2. ASSUME NEW r \in Requests, Check(r), ~Create(r), ~CheckSeries(r)
      PROVE  series' = series
  BY <1>2 DEF Check, Lookup, CheckSize, CheckRequestRate, CheckLogRate, SkipSeries, RecordDenial
<1>3. ASSUME NEW r \in Requests, Create(r)
      PROVE  series'[l] = series[l] \/ DOMAIN series[l] = {}
  <2>1. \/ series' = series
        \/ Installed(r) = r /\ series' = [series EXCEPT ![r] = <<>>]
    BY <1>3 DEF Create
  <2>2. Installed(r) = r => limits[TenantOf[r]] # r
    BY <1>3 DEF LimiterInv, CreatedForTenant, Create
  <2>3. series = [q \in Requests |-> series[q]]
    BY DEF LimiterInv, TrackerType
  <2> QED BY <2>1, <2>2, <2>3 DEF LimiterInv, TrackedInstalled
<1>4. ASSUME NEW r \in Requests, CheckSeries(r)
      PROVE  series'[l] = series[l] \/ lim[r] = l
  BY <1>4, SeriesChanges
<1> QED BY <1>1, <1>2, <1>3, <1>4 DEF LimiterNext

(* No step forgets a series that was seen within its TTL: a sweep drops     *)
(* expired ones only, and a check that stamps some keeps the others.        *)
LEMMA FreshSeriesStay ==
  ASSUME LimiterInv, [LimiterNext]_limiterVars, NEW l \in Requests,
         NEW k \in DOMAIN series[l], ~Expired(l, k)
  PROVE  k \in DOMAIN series'[l]
<1>1. CASE \E r \in Requests : CheckSeries(r) /\ lim[r] = l
  <2>1. PICK r \in Requests : CheckSeries(r) /\ lim[r] = l
    BY <1>1
  <2>2. k \in Kept(l)
    BY DEF Kept
  <2> QED BY <2>1, <2>2, SeriesChanges DEF AfterCheck
<1> QED BY <1>1, SeriesSteps

(* A denial leaves in the tracker what was there, or less.                  *)
LEMMA DenialTracksNothing ==
  ASSUME LimiterInv, [LimiterNext]_limiterVars,
         NEW r \in Requests, pc[r] = "series", pc'[r] = "record"
  PROVE  \A k \in DOMAIN series'[lim[r]] :
           k \in DOMAIN series[lim[r]] /\ series'[lim[r]][k] = series[lim[r]][k]
<1>1. CheckSeries(r) /\ OverCardinality(r)
  <2>1. pc \in [Requests -> Labels]
    BY DEF LimiterInv, LimiterTypeOK
  <2>2. ~Tick /\ ~UNCHANGED limiterVars
    BY DEF Tick, limiterVars, requestVars
  <2>3. PICK q \in Requests : Check(q)
    BY <2>2 DEF LimiterNext
  <2>4. \E label \in Labels : pc' = [pc EXCEPT ![q] = label]
    BY <2>3 DEF Check, Lookup, Create, CheckSize, CheckRequestRate, CheckLogRate, CheckSeries,
       SkipSeries, RecordDenial, Deny, Continue, ReturnFromCheck, Goto, Labels
  <2>5. q = r
    BY <2>1, <2>4
  <2>6. CheckSeries(r) \/ SkipSeries(r)
    BY <2>3, <2>5 DEF Check, Lookup, Create, CheckSize, CheckRequestRate, CheckLogRate, RecordDenial
  <2>7. ~ReturnFromCheck(r)
    BY <2>1 DEF ReturnFromCheck, Goto
  <2> QED BY <2>6, <2>7 DEF CheckSeries, SkipSeries
<1> DEFINE l == lim[r]
           after == [k \in Kept(l) \cup Tracked(r) |-> IF k \in Tracked(r) THEN now ELSE series[l][k]]
<1>2. Tracked(r) = {} /\ Kept(l) \subseteq DOMAIN series[l]
  BY <1>1 DEF Tracked, Kept
<1>3. l \in Requests /\ series = [q \in Requests |-> series[q]]
  BY <1>1 DEF LimiterInv, ChecksInstalled, InUse, TrackerType
<1>4. series'[l] = after
  BY <1>1, <1>3 DEF CheckSeries
<1> QED BY <1>2, <1>4

(* A series that was admitted stays known for its TTL, and a denied export  *)
(* adds none and renews none: checkSeries counts before it writes.          *)
THEOREM SeriesStayTracked == LimiterSpec => SeriesTracked
<1> DEFINE Fresh == \A l \in Requests : \A k \in DOMAIN series[l] : ~Expired(l, k) => k \in DOMAIN series'[l]
           Clean == \A r \in Requests :
                      pc[r] = "series" /\ pc'[r] = "record"
                        => \A k \in DOMAIN series'[lim[r]] :
                             k \in DOMAIN series[lim[r]] /\ series'[lim[r]][k] = series[lim[r]][k]
<1>1. LimiterInv /\ [LimiterNext]_limiterVars => Fresh
  BY FreshSeriesStay
<1>2. LimiterInv /\ [LimiterNext]_limiterVars => Clean
  BY DenialTracksNothing
<1>3. LimiterInv /\ [LimiterNext]_limiterVars => [Fresh]_limiterVars /\ [Clean]_limiterVars
  BY <1>1, <1>2
<1>4. LimiterSpec => [][Fresh]_limiterVars /\ [][Clean]_limiterVars
  BY <1>3, LimiterInvariance, PTL DEF LimiterSpec
<1> QED BY <1>4 DEF SeriesTracked

-----------------------------------------------------------------------------
(* What is recorded is a denial of the goroutine's tenant, with a reason.   *)
DenialNamed ==
  /\ denial \in [Requests -> QuotaReasons \cup {"none"}]
  /\ \A r \in Requests : pc[r] = "record" => denial[r] \in QuotaReasons

DeniedInv == LimiterTypeOK /\ DenialNamed /\ LogInv

LEMMA RecordedEvents ==
  ASSUME DeniedInv, NEW r \in Requests, pc[r] = "record"
  PROVE  [tenant |-> TenantOf[r], reason |-> denial[r]] \in Event
BY LimiterAssumption DEF DeniedInv, DenialNamed, Event

LEMMA DeniedInitial == LimiterInit => DenialNamed /\ LogInv
BY RejectInitial DEF LimiterInit, DenialNamed

LEMMA NamingInductive ==
  ASSUME DeniedInv, NEW r \in Requests, Check(r)
  PROVE  DenialNamed'
<1> USE DEF DeniedInv, LimiterTypeOK, DenialNamed
<1>1. CASE Lookup(r) \/ Create(r)
  <2>1. denial' = denial /\ \E label \in {"create", "size"} : pc' = [pc EXCEPT ![r] = label]
    BY <1>1 DEF Lookup, Create, Goto
  <2> QED BY <2>1
<1>2. CASE CheckSize(r) \/ CheckRequestRate(r) \/ CheckLogRate(r) \/ CheckSeries(r)
  <2>1. \/ \E reason \in QuotaReasons : Deny(r, reason)
        \/ \E label \in {"request", "logs", "series"} : Continue(r, label)
        \/ ReturnFromCheck(r)
    BY <1>2 DEF CheckSize, CheckRequestRate, CheckLogRate, CheckSeries, QuotaReasons
  <2> QED BY <2>1 DEF Deny, Continue, ReturnFromCheck, Goto
<1>3. CASE SkipSeries(r) \/ RecordDenial(r)
  BY <1>3 DEF SkipSeries, RecordDenial, ReturnFromCheck, Goto
<1> QED BY <1>1, <1>2, <1>3 DEF Check

LEMMA DeniedInductive == DeniedInv /\ [LimiterNext]_limiterVars => DenialNamed' /\ LogInv'
<1> SUFFICES ASSUME DeniedInv, [LimiterNext]_limiterVars PROVE DenialNamed' /\ LogInv'
  OBVIOUS
<1>1. ASSUME UNCHANGED rejectVars PROVE LogInv'
  BY <1>1, ZenonT(30) DEF rejectVars, DeniedInv, LogInv, RejectTypeOK, RingHoldsEnd, HoldsEnd, CountsExact, Occurrences
<1>2. CASE Tick \/ UNCHANGED limiterVars
  BY <1>1, <1>2 DEF Tick, limiterVars, requestVars, DeniedInv, DenialNamed
<1>3. ASSUME NEW r \in Requests, Check(r) PROVE DenialNamed' /\ LogInv'
  <2>1. UNCHANGED rejectVars \/ RecordDenial(r)
    BY <1>3 DEF Check, Lookup, Create, CheckSize, CheckRequestRate, CheckLogRate, CheckSeries, SkipSeries
  <2>2. CASE RecordDenial(r)
    <3>1. pc[r] = "record" /\ Record([tenant |-> TenantOf[r], reason |-> denial[r]])
      BY <2>2 DEF RecordDenial
    <3>2. LogInv'
      BY <3>1, RecordedEvents, RecordKeeps DEF DeniedInv
    <3> QED BY <1>3, <3>2, NamingInductive
  <2> QED BY <1>1, <1>3, <2>1, <2>2, NamingInductive
<1> QED BY <1>2, <1>3 DEF LimiterNext

(* Whatever is denied, in whatever order: the reject log shows the latest   *)
(* denials, newest first, and its counters agree with all there ever were.  *)
THEOREM DenialsLogged == LimiterSpec => []RejectLogExact
<1>1. LimiterInit => DeniedInv
  BY LimiterInitial, DeniedInitial DEF DeniedInv, LimiterInv
<1>2. LimiterInv => LimiterTypeOK
  BY DEF LimiterInv
<1>3. LimiterTypeOK' /\ DenialNamed' /\ LogInv' => DeniedInv'
  BY DEF DeniedInv
<1>4. DeniedInv => RejectLogExact
  BY LogIsExact DEF DeniedInv
<1> QED BY <1>1, <1>2, <1>3, <1>4, DeniedInductive, LimiterInvariance, PTL DEF LimiterSpec
=============================================================================
