------------------------------ MODULE ServerProofs ------------------------------
(***************************************************************************)
(* Proofs about the server side: what the sink acknowledges is stored, and *)
(* what it stores are prefixes; the store's window and lists are exact;    *)
(* the hub's clients get their own tenant's counters in order; the API's   *)
(* answers account for every entry; a token is judged by the issuer's      *)
(* keys; and a configuration that is normalized over and over still means  *)
(* what was written.                                                       *)
(***************************************************************************)
EXTENDS OtlpSink, Hub, Auth, Startup, LoopsProofs, FiniteSetTheorems, SequenceTheorems, TLAPS

-----------------------------------------------------------------------------
(* The sink. *)

Stored(r) == \E i \in 1..Len(accepted) : accepted[i] = r
Done(e, i) == Stored(Content[e][i]) /\ ~Oversized(Content[e][i])

SinkTypeOK ==
  /\ accepted \in Seq(Records)
  /\ exporter \in [Exports -> {"new", "sent", "timed_out", "failed", "acked"}]
  /\ attempts \in [Exports -> Nat]
  /\ queued \subseteq Exports \X Nat
  /\ job \in [Workers -> (Exports \X Nat) \cup {NoExport}]
  /\ next \in [Workers -> Nat \ {0}]
  /\ mirroring \in [Workers -> BOOLEAN]

(* A worker without an export starts at the first record.                   *)
IdleReset ==
  \A w \in Workers : job[w] = NoExport => next[w] = 1 /\ mirroring[w] = FALSE

(* What a worker has passed is stored.                                      *)
PassedStored ==
  \A w \in Workers : job[w] # NoExport =>
    \A i \in 1..Len(Content[job[w][1]]) :
      i < next[w] \/ (i = next[w] /\ mirroring[w] = TRUE) => Done(job[w][1], i)

AckedStored ==
  \A e \in Exports : exporter[e] = "acked" => \A i \in 1..Len(Content[e]) : Done(e, i)

SinkInv == SinkTypeOK /\ IdleReset /\ PassedStored /\ AckedStored

LEMMA SinkInitial == SinkInit => SinkInv
BY DEF SinkInit, StoreInit, SinkInv, SinkTypeOK, IdleReset, PassedStored, AckedStored

(* What is stored stays so: accepted only grows.                            *)
LEMMA StoredStays ==
  ASSUME accepted \in Seq(Records), NEW r \in Records, accepted' = Append(accepted, r)
  PROVE  /\ accepted' \in Seq(Records)
         /\ Stored(r)'
         /\ \A q : Stored(q) => Stored(q)'
BY AppendProperties DEF Stored

LEMMA SendKeeps == ASSUME SinkInv, NEW e \in Exports, Send(e) \/ TimeOut(e) PROVE SinkInv'
<1>1. UNCHANGED <<accepted, job, next, mirroring>>
  BY DEF Send, TimeOut, storeVars
<1>2. SinkTypeOK'
  <2>1. CASE Send(e)
    <3>1. attempts' \in [Exports -> Nat] /\ attempts'[e] \in Nat
      BY <2>1 DEF Send, SinkInv, SinkTypeOK
    <3> QED BY <1>1, <2>1, <3>1 DEF Send, SinkInv, SinkTypeOK
  <2>2. CASE TimeOut(e)
    BY <1>1, <2>2 DEF TimeOut, SinkInv, SinkTypeOK
  <2> QED BY <2>1, <2>2
<1>3. \A d \in Exports : exporter'[d] = "acked" => exporter[d] = "acked"
  BY DEF SinkInv, SinkTypeOK, Send, TimeOut
<1> QED BY <1>1, <1>2, <1>3 DEF SinkInv, IdleReset, PassedStored, AckedStored, Done, Stored

LEMMA BeginKeeps == ASSUME SinkInv, NEW w \in Workers, Begin(w) PROVE SinkInv'
<1>1. UNCHANGED <<accepted, exporter, attempts, next, mirroring>> /\ job[w] = NoExport
  BY DEF Begin, storeVars
<1>2. PICK attempt \in queued : queued' = queued \ {attempt} /\ job' = [job EXCEPT ![w] = attempt]
  BY DEF Begin
<1>3. SinkTypeOK'
  BY <1>1, <1>2 DEF SinkInv, SinkTypeOK
<1>4. next[w] = 1 /\ mirroring[w] = FALSE
  BY <1>1 DEF SinkInv, IdleReset
<1>5. \A v \in Workers : v # w => job'[v] = job[v]
  BY <1>2 DEF SinkInv, SinkTypeOK
<1>6. IdleReset' /\ PassedStored'
  BY <1>1, <1>4, <1>5 DEF SinkInv, IdleReset, PassedStored, Done, Stored
<1> QED BY <1>1, <1>3, <1>6 DEF SinkInv, AckedStored, Done, Stored

LEMMA IngestKeeps == ASSUME SinkInv, NEW w \in Workers, IngestRecord(w) PROVE SinkInv'
<1>1. /\ job[w] # NoExport /\ next[w] <= Len(Content[job[w][1]])
      /\ UNCHANGED <<exporter, attempts, queued, job, next>>
      /\ mirroring' = [mirroring EXCEPT ![w] = TRUE]
      /\ ~Oversized(Current(w)) /\ accepted' = Append(accepted, Current(w))
  BY DEF IngestRecord, Converting, Remaining, Ingest
<1>2. /\ job[w][1] \in Exports /\ Content[job[w][1]] \in Seq(Records) /\ next[w] \in Nat \ {0}
      /\ accepted \in Seq(Records) /\ mirroring \in [Workers -> BOOLEAN]
  BY <1>1, SinkAssumption DEF SinkInv, SinkTypeOK
<1>3. PICK r \in Records : r = Current(w)
  BY <1>1, <1>2 DEF Current
<1>4. /\ accepted' \in Seq(Records) /\ Stored(r)'
      /\ \A q : Stored(q) => Stored(q)'
  BY <1>1, <1>2, <1>3, StoredStays
<1>5. SinkTypeOK' /\ IdleReset' /\ \A v \in Workers : v # w => mirroring'[v] = mirroring[v]
  BY <1>1, <1>2, <1>4 DEF SinkInv, SinkTypeOK, IdleReset
<1>6. \A e, i : Done(e, i) => Done(e, i)'
  BY <1>4 DEF Done, Oversized
<1>7. Done(job[w][1], next[w])'
  BY <1>1, <1>3, <1>4 DEF Done, Current, Oversized
<1>8. PassedStored'
  BY <1>1, <1>5, <1>6, <1>7 DEF SinkInv, PassedStored
<1> QED BY <1>1, <1>5, <1>6, <1>8 DEF SinkInv, AckedStored

LEMMA MirrorKeeps == ASSUME SinkInv, NEW w \in Workers, Mirror(w) PROVE SinkInv'
<1>1. /\ mirroring[w] = TRUE /\ mirroring' = [mirroring EXCEPT ![w] = FALSE]
      /\ next' = [next EXCEPT ![w] = @ + 1]
      /\ UNCHANGED <<accepted, exporter, attempts, queued, job>>
  BY DEF Mirror, storeVars, SinkInv, SinkTypeOK
<1>2. /\ mirroring \in [Workers -> BOOLEAN] /\ next \in [Workers -> Nat \ {0}]
  BY DEF SinkInv, SinkTypeOK
<1>3. SinkTypeOK'
  BY <1>1, <1>2 DEF SinkInv, SinkTypeOK
<1>4. /\ job[w] # NoExport /\ next'[w] = next[w] + 1 /\ mirroring'[w] = FALSE
      /\ \A v \in Workers : v # w => next'[v] = next[v] /\ mirroring'[v] = mirroring[v]
  BY <1>1, <1>2 DEF SinkInv, IdleReset
<1>5. IdleReset'
  BY <1>1, <1>4 DEF SinkInv, IdleReset
<1>6. \A e, i : Done(e, i) => Done(e, i)'
  BY <1>1 DEF Done, Stored, Oversized
<1>7. \A i \in 1..Len(Content[job[w][1]]) :
        i < next'[w] => i < next[w] \/ i = next[w]
  BY <1>2, <1>4
<1>8. PassedStored'
  BY <1>1, <1>4, <1>6, <1>7 DEF SinkInv, PassedStored
<1> QED BY <1>1, <1>3, <1>5, <1>6, <1>8 DEF SinkInv, AckedStored

LEMMA ReturnKeeps ==
  ASSUME SinkInv, NEW w \in Workers, FailExport(w) \/ Complete(w) PROVE SinkInv'
<1>1. /\ job[w] # NoExport /\ mirroring[w] = FALSE
      /\ job' = [job EXCEPT ![w] = NoExport] /\ next' = [next EXCEPT ![w] = 1]
      /\ UNCHANGED <<accepted, attempts, queued, mirroring>>
  BY DEF FailExport, Complete, Return, Converting, storeVars, SinkInv, SinkTypeOK
<1>2. job[w][1] \in Exports
  BY <1>1 DEF SinkInv, SinkTypeOK
<1>3. /\ exporter' \in [Exports -> {"new", "sent", "timed_out", "failed", "acked"}]
      /\ \A e \in Exports : exporter'[e] = "acked" =>
           exporter[e] = "acked" \/ (e = job[w][1] /\ ~Remaining(w))
  BY <1>2 DEF FailExport, Complete, Return, SinkInv, SinkTypeOK
<1>4. SinkTypeOK'
  BY <1>1, <1>3 DEF SinkInv, SinkTypeOK
<1>5. /\ job'[w] = NoExport /\ next'[w] = 1
      /\ \A v \in Workers : v # w => job'[v] = job[v] /\ next'[v] = next[v]
  BY <1>1 DEF SinkInv, SinkTypeOK
<1>6. IdleReset' /\ PassedStored'
  BY <1>1, <1>5 DEF SinkInv, IdleReset, PassedStored, Done, Stored, Oversized
<1>7. ~Remaining(w) => \A i \in 1..Len(Content[job[w][1]]) : Done(job[w][1], i)
  <2> SUFFICES ASSUME ~Remaining(w), NEW i \in 1..Len(Content[job[w][1]]) PROVE i < next[w]
    BY <1>1 DEF SinkInv, PassedStored
  <2>1. Content[job[w][1]] \in Seq(Records) /\ next[w] \in Nat
    BY <1>2, SinkAssumption DEF SinkInv, SinkTypeOK
  <2> QED BY <2>1 DEF Remaining
<1>8. AckedStored'
  BY <1>1, <1>3, <1>7, SMTT(30) DEF SinkInv, AckedStored, Done, Stored, Oversized
<1> QED BY <1>4, <1>6, <1>8 DEF SinkInv

LEMMA SinkInductive == SinkInv /\ [SinkNext]_sinkSystemVars => SinkInv'
<1> SUFFICES ASSUME SinkInv, [SinkNext]_sinkSystemVars PROVE SinkInv'
  OBVIOUS
<1>1. CASE Show \/ UNCHANGED sinkSystemVars
  <2>1. UNCHANGED <<accepted, exporter, attempts, queued, job, next, mirroring>>
    BY <1>1 DEF Show, sinkSystemVars, sinkVars, storeVars
  <2> QED BY <2>1 DEF SinkInv, SinkTypeOK, IdleReset, PassedStored, AckedStored, Done, Stored, Oversized
<1> QED BY <1>1, SendKeeps, BeginKeeps, IngestKeeps, MirrorKeeps, ReturnKeeps DEF SinkNext

(* An export is acknowledged only behind its last record, so all of it is   *)
(* in the engine, whatever attempts were given up or failed in between and  *)
(* however many workers convert at once (otlp_sink.go).                     *)
THEOREM AcknowledgedIsStored == SinkSpec => []AckMeansAllStored
<1>1. SinkInv => AckMeansAllStored
  <2> SUFFICES ASSUME SinkInv, NEW e \in Exports, exporter[e] = "acked", NEW i \in DOMAIN Content[e]
               PROVE  Times(Content[e][i], accepted) >= 1 /\ ~Oversized(Content[e][i])
    BY DEF AckMeansAllStored
  <2>1. i \in 1..Len(Content[e])
    BY SinkAssumption
  <2>2. Stored(Content[e][i]) /\ ~Oversized(Content[e][i])
    BY <2>1 DEF SinkInv, AckedStored, Done
  <2> DEFINE found == {k \in DOMAIN accepted : accepted[k] = Content[e][i]}
  <2>3. DOMAIN accepted = 1..Len(accepted) /\ Len(accepted) \in Nat
    BY DEF SinkInv, SinkTypeOK
  <2>4. IsFiniteSet(found)
    <3>1. IsFiniteSet(1..Len(accepted))
      BY <2>3, FS_Interval
    <3> QED BY <2>3, <3>1, FS_Subset
  <2>5. found # {}
    BY <2>2, <2>3 DEF Stored
  <2> HIDE DEF found
  <2>6. Cardinality(found) \in Nat /\ Cardinality(found) # 0
    BY <2>4, <2>5, FS_CardinalityType, FS_EmptySet
  <2> QED BY <2>2, <2>6 DEF Times, found
<1> QED BY <1>1, SinkInitial, SinkInductive, PTL DEF SinkSpec

-----------------------------------------------------------------------------
(* What failed and repeated attempts leave in the engine.                   *)

(* The worker has stored record i of its export.                            *)
Past(w, i) == i < next[w] \/ (i = next[w] /\ mirroring[w] = TRUE)

Busy         == {w \in Workers : job[w] # NoExport}
Waiting(e)   == {a \in queued : a[1] = e}
Before(e, i) == {w \in Busy : job[w][1] = e /\ ~Past(w, i)}
At(e, i)     == {w \in Busy : job[w][1] = e /\ Past(w, i - 1) /\ ~Past(w, i)}

(* Every attempt stores a record at most once more: those that have, those  *)
(* that wait and those on their way to it are no more than were sent.  And  *)
(* whoever is about to store a record has stored the one before it.         *)
AttemptsCounted ==
  \A e \in Exports : \A i \in 1..Len(Content[e]) :
    /\ Times(Content[e][i], accepted) + Cardinality(Waiting(e)) + Cardinality(Before(e, i)) <= attempts[e]
    /\ i > 1 => Times(Content[e][i], accepted) + Cardinality(At(e, i)) <= Times(Content[e][i - 1], accepted)

PrefixInv == SinkInv /\ IsFiniteSet(queued) /\ IsFiniteSet(Busy) /\ AttemptsCounted

(* How often the members of a set occur in a sequence that grows.           *)
Places(s, P) == {i \in DOMAIN s : s[i] \in P}

LEMMA PlacesCounted ==
  ASSUME NEW S, NEW s \in Seq(S), NEW P
  PROVE  IsFiniteSet(Places(s, P)) /\ Cardinality(Places(s, P)) \in Nat
<1>1. IsFiniteSet(1..Len(s))
  BY FS_Interval
<1>2. Places(s, P) \in SUBSET (1..Len(s))
  BY DEF Places
<1> QED BY <1>1, <1>2, FS_Subset, FS_CardinalityType

LEMMA PlacesAppended ==
  ASSUME NEW S, NEW s \in Seq(S), NEW x \in S, NEW P
  PROVE  Cardinality(Places(Append(s, x), P)) =
           IF x \in P THEN Cardinality(Places(s, P)) + 1 ELSE Cardinality(Places(s, P))
<1> DEFINE n == Len(s) + 1
<1>1. /\ DOMAIN s = 1..Len(s) /\ Len(s) \in Nat
      /\ DOMAIN Append(s, x) = 1..(Len(s) + 1)
      /\ \A i \in 1..Len(s) : Append(s, x)[i] = s[i]
      /\ Append(s, x)[Len(s) + 1] = x
  BY AppendProperties
<1>2. n \notin Places(s, P) /\ n \in Nat
  BY <1>1 DEF Places
<1>3. Places(Append(s, x), P) = IF x \in P THEN Places(s, P) \cup {n} ELSE Places(s, P)
  <2>1. \A i : i \in DOMAIN Append(s, x) <=> i \in 1..Len(s) \/ i = n
    BY <1>1
  <2>2. \A i : i \in Places(Append(s, x), P) <=> i \in Places(s, P) \/ (i = n /\ x \in P)
    BY <1>1, <2>1 DEF Places
  <2> QED BY <2>2
<1> HIDE DEF n
<1> QED BY <1>2, <1>3, PlacesCounted, FS_AddElement

LEMMA TimesIsNat == ASSUME NEW s \in Seq(Records), NEW r PROVE Times(r, s) \in Nat
<1>1. Places(s, {r}) = {i \in DOMAIN s : s[i] = r}
  BY DEF Places
<1> QED BY <1>1, PlacesCounted DEF Times

LEMMA TimesAppended ==
  ASSUME NEW s \in Seq(Records), NEW x \in Records, NEW r
  PROVE  Times(r, Append(s, x)) = IF x = r THEN Times(r, s) + 1 ELSE Times(r, s)
<1>1. \A q : Times(r, q) = Cardinality(Places(q, {r}))
  BY DEF Times, Places
<1> QED BY <1>1, PlacesAppended

(* The sets of workers are finite, and their sizes numbers.                 *)
LEMMA CountsAreNat ==
  ASSUME PrefixInv, NEW e, NEW i
  PROVE  /\ IsFiniteSet(Waiting(e)) /\ Cardinality(Waiting(e)) \in Nat
         /\ IsFiniteSet(Before(e, i)) /\ Cardinality(Before(e, i)) \in Nat
         /\ IsFiniteSet(At(e, i)) /\ Cardinality(At(e, i)) \in Nat
<1>1. /\ Waiting(e) \in SUBSET queued
      /\ Before(e, i) \in SUBSET Busy /\ At(e, i) \in SUBSET Busy
  BY DEF Waiting, Before, At
<1> QED BY <1>1, FS_Subset, FS_CardinalityType DEF PrefixInv

(* A step that stores nothing, and adds no worker to those that stand       *)
(* before a record or at it, nor an attempt to those that wait.             *)
LEMMA NothingMore ==
  ASSUME PrefixInv, SinkInv', accepted' = accepted, IsFiniteSet(queued'), IsFiniteSet(Busy'),
         \A e \in Exports : attempts'[e] = attempts[e] /\ Waiting(e)' \subseteq Waiting(e),
         \A e \in Exports : \A i \in 1..Len(Content[e]) :
           Before(e, i)' \subseteq Before(e, i) /\ (i > 1 => At(e, i)' \subseteq At(e, i))
  PROVE  PrefixInv'
<1> SUFFICES ASSUME NEW e \in Exports, NEW i \in 1..Len(Content[e])
             PROVE  /\ Times(Content[e][i], accepted)' + Cardinality(Waiting(e))'
                         + Cardinality(Before(e, i))' <= attempts'[e]
                    /\ i > 1 => Times(Content[e][i], accepted)' + Cardinality(At(e, i))'
                                  <= Times(Content[e][i - 1], accepted)'
  BY DEF PrefixInv, AttemptsCounted
<1>1. /\ \A r : Times(r, accepted) \in Nat /\ Times(r, accepted)' = Times(r, accepted)
      /\ attempts[e] \in Nat /\ attempts'[e] = attempts[e]
  BY TimesIsNat DEF PrefixInv, SinkInv, SinkTypeOK, Times
<1>2. /\ Cardinality(Waiting(e)) \in Nat /\ Cardinality(Before(e, i)) \in Nat /\ Cardinality(At(e, i)) \in Nat
      /\ Cardinality(Waiting(e))' \in Nat /\ Cardinality(Waiting(e))' <= Cardinality(Waiting(e))
      /\ Cardinality(Before(e, i))' \in Nat /\ Cardinality(Before(e, i))' <= Cardinality(Before(e, i))
  BY CountsAreNat, FS_Subset, FS_CardinalityType
<1>3. i > 1 => Cardinality(At(e, i))' \in Nat /\ Cardinality(At(e, i))' <= Cardinality(At(e, i))
  BY CountsAreNat, FS_Subset, FS_CardinalityType
<1>4. /\ Times(Content[e][i], accepted) + Cardinality(Waiting(e)) + Cardinality(Before(e, i)) <= attempts[e]
      /\ i > 1 => Times(Content[e][i], accepted) + Cardinality(At(e, i)) <= Times(Content[e][i - 1], accepted)
  BY DEF PrefixInv, AttemptsCounted
<1> QED BY <1>1, <1>2, <1>3, <1>4

LEMMA PrefixInitial == SinkInit => PrefixInv
<1> SUFFICES ASSUME SinkInit PROVE PrefixInv
  OBVIOUS
<1>1. SinkInv
  BY SinkInitial
<1>2. queued = {} /\ Busy = {} /\ accepted = <<>>
  BY DEF SinkInit, StoreInit, Busy
<1>3. /\ \A e : Waiting(e) = {} /\ \A i : Before(e, i) = {} /\ At(e, i) = {}
      /\ \A r : Times(r, accepted) = 0
  <2>1. \A r : {i \in DOMAIN accepted : accepted[i] = r} = {}
    BY <1>2
  <2> QED BY <1>2, <2>1, FS_EmptySet DEF Waiting, Before, At, Times
<1>4. \A e \in Exports : attempts[e] = 0
  BY DEF SinkInit
<1>5. AttemptsCounted
  <2> SUFFICES ASSUME NEW e \in Exports, NEW i \in 1..Len(Content[e])
               PROVE  /\ Times(Content[e][i], accepted) + Cardinality(Waiting(e))
                           + Cardinality(Before(e, i)) <= attempts[e]
                      /\ i > 1 => Times(Content[e][i], accepted) + Cardinality(At(e, i))
                                    <= Times(Content[e][i - 1], accepted)
    BY DEF AttemptsCounted
  <2>1. Cardinality(Waiting(e)) = 0 /\ Cardinality(Before(e, i)) = 0 /\ Cardinality(At(e, i)) = 0
    BY <1>3, FS_EmptySet
  <2> QED BY <1>3, <1>4, <2>1
<1> QED BY <1>1, <1>2, <1>5, FS_EmptySet DEF PrefixInv

LEMMA SendCounts == ASSUME PrefixInv, NEW d \in Exports, Send(d) \/ TimeOut(d) PROVE PrefixInv'
<1>1. SinkInv'
  BY SendKeeps DEF PrefixInv
<1>2. /\ UNCHANGED <<accepted, job, next, mirroring>> /\ Busy' = Busy
      /\ \A e, i : Before(e, i)' = Before(e, i) /\ At(e, i)' = At(e, i)
  BY DEF Send, TimeOut, storeVars, Busy, Before, At, Past
<1>3. CASE TimeOut(d)
  <2>1. UNCHANGED <<attempts, queued>>
    BY <1>3 DEF TimeOut
  <2> QED BY <1>1, <1>2, <2>1, NothingMore DEF PrefixInv, Waiting
<1>4. CASE Send(d)
  <2> DEFINE a == <<d, attempts[d] + 1>>
  <2>1. /\ attempts \in [Exports -> Nat] /\ attempts'[d] = attempts[d] + 1
        /\ \A e \in Exports : e # d => attempts'[e] = attempts[e]
        /\ queued' = queued \cup {a}
    BY <1>4 DEF Send, PrefixInv, SinkInv, SinkTypeOK
  <2>2. IsFiniteSet(queued') /\ IsFiniteSet(Busy')
    BY <1>2, <2>1, FS_AddElement DEF PrefixInv
  <2>3. /\ Waiting(d)' = Waiting(d) \cup {a}
        /\ \A e \in Exports : e # d => Waiting(e)' = Waiting(e)
    BY <2>1 DEF Waiting
  <2>4. ASSUME NEW e \in Exports, NEW i \in 1..Len(Content[e])
        PROVE  /\ Times(Content[e][i], accepted)' + Cardinality(Waiting(e))'
                    + Cardinality(Before(e, i))' <= attempts'[e]
               /\ i > 1 => Times(Content[e][i], accepted)' + Cardinality(At(e, i))'
                             <= Times(Content[e][i - 1], accepted)'
    <3>1. /\ \A r : Times(r, accepted) \in Nat /\ Times(r, accepted)' = Times(r, accepted)
      BY <1>2, TimesIsNat DEF PrefixInv, SinkInv, SinkTypeOK, Times
    <3>2. /\ Cardinality(Waiting(e)) \in Nat /\ Cardinality(Before(e, i)) \in Nat
          /\ Cardinality(At(e, i)) \in Nat /\ IsFiniteSet(Waiting(e))
      BY CountsAreNat
    <3>3. /\ Times(Content[e][i], accepted) + Cardinality(Waiting(e)) + Cardinality(Before(e, i)) <= attempts[e]
          /\ i > 1 => Times(Content[e][i], accepted) + Cardinality(At(e, i)) <= Times(Content[e][i - 1], accepted)
      BY DEF PrefixInv, AttemptsCounted
    <3>4. CASE e = d
      <4>1. Cardinality(Waiting(e))' \in Nat /\ Cardinality(Waiting(e))' <= Cardinality(Waiting(e)) + 1
        <5>1. Waiting(e)' = Waiting(e) \cup {a}
          BY <2>3, <3>4
        <5> HIDE DEF a
        <5>2. /\ IsFiniteSet(Waiting(e) \cup {a})
              /\ Cardinality(Waiting(e) \cup {a}) =
                   IF a \in Waiting(e) THEN Cardinality(Waiting(e)) ELSE Cardinality(Waiting(e)) + 1
          BY <3>2, FS_AddElement
        <5> QED BY <3>2, <5>1, <5>2
      <4> HIDE DEF a
      <4> QED BY <1>2, <2>1, <3>1, <3>2, <3>3, <3>4, <4>1
    <3>5. CASE e # d
      BY <1>2, <2>1, <2>3, <3>1, <3>3, <3>5
    <3> QED BY <3>4, <3>5
  <2> QED BY <1>1, <2>2, <2>4 DEF PrefixInv, AttemptsCounted
<1> QED BY <1>3, <1>4

(* A worker that takes an attempt stands before every record of it.         *)
LEMMA BeginCounts == ASSUME PrefixInv, NEW w \in Workers, Begin(w) PROVE PrefixInv'
<1>1. SinkInv'
  BY BeginKeeps DEF PrefixInv
<1>2. PICK a \in queued : queued' = queued \ {a} /\ job' = [job EXCEPT ![w] = a]
  BY DEF Begin
<1>3. /\ job[w] = NoExport /\ next[w] = 1 /\ mirroring[w] = FALSE
      /\ UNCHANGED <<accepted, attempts, next, mirroring>>
      /\ a \in Exports \X Nat /\ a # NoExport
  <2>1. job[w] = NoExport /\ UNCHANGED <<accepted, attempts, next, mirroring>>
    BY DEF Begin, storeVars
  <2>2. next[w] = 1 /\ mirroring[w] = FALSE /\ a \in Exports \X Nat
    BY <1>2, <2>1 DEF PrefixInv, SinkInv, IdleReset, SinkTypeOK
  <2>3. a # NoExport
    BY <2>2, SinkAssumption
  <2> QED BY <2>1, <2>2, <2>3
<1>4. /\ job'[w] = a /\ \A v \in Workers : v # w => job'[v] = job[v]
  BY <1>2 DEF PrefixInv, SinkInv, SinkTypeOK
<1>5. Busy' = Busy \cup {w} /\ w \notin Busy
  BY <1>3, <1>4 DEF Busy
<1>6. IsFiniteSet(queued') /\ IsFiniteSet(Busy')
  BY <1>2, <1>5, FS_AddElement, FS_RemoveElement DEF PrefixInv
<1>7. ASSUME NEW e \in Exports, NEW i \in 1..Len(Content[e])
      PROVE  /\ Times(Content[e][i], accepted)' + Cardinality(Waiting(e))'
                  + Cardinality(Before(e, i))' <= attempts'[e]
             /\ i > 1 => Times(Content[e][i], accepted)' + Cardinality(At(e, i))'
                           <= Times(Content[e][i - 1], accepted)'
  <2>1. /\ \A r : Times(r, accepted) \in Nat /\ Times(r, accepted)' = Times(r, accepted)
        /\ attempts'[e] = attempts[e] /\ attempts[e] \in Nat
    BY <1>3, TimesIsNat DEF PrefixInv, SinkInv, SinkTypeOK, Times
  <2>2. /\ Cardinality(Waiting(e)) \in Nat /\ Cardinality(Before(e, i)) \in Nat
        /\ Cardinality(At(e, i)) \in Nat /\ IsFiniteSet(Waiting(e)) /\ IsFiniteSet(Before(e, i))
    BY CountsAreNat
  <2>3. /\ Times(Content[e][i], accepted) + Cardinality(Waiting(e)) + Cardinality(Before(e, i)) <= attempts[e]
        /\ i > 1 => Times(Content[e][i], accepted) + Cardinality(At(e, i)) <= Times(Content[e][i - 1], accepted)
    BY DEF PrefixInv, AttemptsCounted
  <2>4. ~Past(w, i)' /\ (i > 1 => ~Past(w, i - 1)')
    BY <1>3 DEF Past
  <2>5. \A v \in Busy : \A j : Past(v, j)' = Past(v, j)
    BY <1>3 DEF Past
  <2>6. i > 1 => At(e, i)' = At(e, i)
    BY <1>4, <1>5, <2>4, <2>5 DEF At, Busy
  <2>7. CASE a[1] = e
    <3>1. a \in Waiting(e) /\ Waiting(e)' = Waiting(e) \ {a}
      BY <1>2, <2>7 DEF Waiting
    <3>2. w \notin Before(e, i) /\ Before(e, i)' = Before(e, i) \cup {w}
      BY <1>4, <1>5, <2>4, <2>5, <2>7 DEF Before, Busy
    <3>3. Cardinality(Waiting(e))' = Cardinality(Waiting(e)) - 1
      BY <2>2, <3>1, FS_RemoveElement
    <3>4. Cardinality(Before(e, i))' = Cardinality(Before(e, i)) + 1
      BY <2>2, <3>2, FS_AddElement
    <3> QED BY <2>1, <2>2, <2>3, <2>6, <3>3, <3>4
  <2>8. CASE a[1] # e
    <3>1. Waiting(e)' = Waiting(e)
      BY <1>2, <2>8 DEF Waiting
    <3>2. Before(e, i)' = Before(e, i)
      BY <1>4, <1>5, <2>5, <2>8 DEF Before, Busy
    <3> QED BY <2>1, <2>2, <2>3, <2>6, <3>1, <3>2
  <2> QED BY <2>7, <2>8
<1> QED BY <1>1, <1>6, <1>7 DEF PrefixInv, AttemptsCounted

(* The record a worker stores is counted once more, and that worker is past *)
(* it: it no longer stands before it, and now stands at the next.           *)
LEMMA IngestCounts == ASSUME PrefixInv, NEW w \in Workers, IngestRecord(w) PROVE PrefixInv'
<1>1. SinkInv'
  BY IngestKeeps DEF PrefixInv
<1>2. PICK d \in Exports : d = job[w][1]
  BY DEF IngestRecord, Converting, PrefixInv, SinkInv, SinkTypeOK
<1>3. PICK n \in Nat \ {0} : n = next[w]
  BY DEF PrefixInv, SinkInv, SinkTypeOK
<1>4. /\ job[w] # NoExport /\ mirroring[w] = FALSE /\ n <= Len(Content[d])
      /\ UNCHANGED <<attempts, queued, job, next>>
      /\ mirroring' = [mirroring EXCEPT ![w] = TRUE]
      /\ accepted' = Append(accepted, Content[d][n])
  BY <1>2, <1>3 DEF IngestRecord, Converting, Remaining, Ingest, Current, PrefixInv, SinkInv, SinkTypeOK
<1>5. /\ accepted \in Seq(Records) /\ Content[d] \in Seq(Records) /\ n \in 1..Len(Content[d])
      /\ Content[d][n] \in Records
      /\ mirroring'[w] = TRUE /\ \A v \in Workers : v # w => mirroring'[v] = mirroring[v]
  BY <1>3, <1>4, SinkAssumption DEF PrefixInv, SinkInv, SinkTypeOK
<1>6. Busy' = Busy /\ w \in Busy /\ \A e : Waiting(e)' = Waiting(e)
  BY <1>4 DEF Busy, Waiting
<1>7. \A r : Times(r, accepted') = IF Content[d][n] = r THEN Times(r, accepted) + 1 ELSE Times(r, accepted)
  BY <1>4, <1>5, TimesAppended
<1>8. /\ \A v \in Busy : v # w => \A j : Past(v, j)' = Past(v, j)
      /\ \A j \in Nat : Past(w, j) <=> j < n
      /\ \A j \in Nat : Past(w, j)' <=> j <= n
  <2>1. \A v \in Busy : v # w => \A j : Past(v, j)' = Past(v, j)
    BY <1>4, <1>5 DEF Past, Busy
  <2>2. next[w] = n /\ next'[w] = n /\ mirroring[w] = FALSE /\ mirroring'[w] = TRUE
    BY <1>3, <1>4, <1>5
  <2> QED BY <2>1, <2>2 DEF Past
<1>9. ASSUME NEW e \in Exports, NEW i \in 1..Len(Content[e])
      PROVE  /\ Times(Content[e][i], accepted)' + Cardinality(Waiting(e))'
                  + Cardinality(Before(e, i))' <= attempts'[e]
             /\ i > 1 => Times(Content[e][i], accepted)' + Cardinality(At(e, i))'
                           <= Times(Content[e][i - 1], accepted)'
  <2>1. /\ Times(Content[e][i], accepted) \in Nat /\ Times(Content[e][i - 1], accepted) \in Nat
        /\ attempts'[e] = attempts[e] /\ attempts[e] \in Nat
    BY <1>4, TimesIsNat DEF PrefixInv, SinkInv, SinkTypeOK
  <2>2. /\ Cardinality(Waiting(e)) \in Nat /\ Cardinality(Before(e, i)) \in Nat
        /\ Cardinality(At(e, i)) \in Nat /\ IsFiniteSet(Before(e, i)) /\ IsFiniteSet(At(e, i))
    BY CountsAreNat
  <2>3. /\ Times(Content[e][i], accepted) + Cardinality(Waiting(e)) + Cardinality(Before(e, i)) <= attempts[e]
        /\ i > 1 => Times(Content[e][i], accepted) + Cardinality(At(e, i)) <= Times(Content[e][i - 1], accepted)
    BY DEF PrefixInv, AttemptsCounted
  <2>4. /\ DOMAIN Content[e] = 1..Len(Content[e]) /\ DOMAIN Content[d] = 1..Len(Content[d])
        /\ i \in Nat /\ i - 1 \in Nat /\ Len(Content[e]) \in Nat
    BY SinkAssumption
  <2>5. /\ Content[d][n] = Content[e][i] <=> e = d /\ i = n
        /\ i > 1 => (Content[d][n] = Content[e][i - 1] <=> e = d /\ i - 1 = n)
    BY <1>5, <2>4, RecordsApart
  <2>6. /\ Times(Content[e][i], accepted)' =
             IF e = d /\ i = n THEN Times(Content[e][i], accepted) + 1 ELSE Times(Content[e][i], accepted)
        /\ i > 1 => Times(Content[e][i - 1], accepted)' =
             IF e = d /\ i - 1 = n THEN Times(Content[e][i - 1], accepted) + 1
                                   ELSE Times(Content[e][i - 1], accepted)
    BY <1>7, <2>5 DEF Times
  <2>7. CASE e = d /\ i = n
    <3>1. w \in Before(e, i) /\ Before(e, i)' = Before(e, i) \ {w}
      BY <1>2, <1>4, <1>6, <1>8, <2>4, <2>7 DEF Before
    <3>2. i > 1 => w \in At(e, i) /\ At(e, i)' = At(e, i) \ {w}
      BY <1>2, <1>4, <1>6, <1>8, <2>4, <2>7 DEF At
    <3>3. Cardinality(Before(e, i))' = Cardinality(Before(e, i)) - 1
      BY <2>2, <3>1, FS_RemoveElement, ZenonT(30)
    <3>4. i > 1 => Cardinality(At(e, i))' = Cardinality(At(e, i)) - 1
      BY <2>2, <3>2, FS_RemoveElement
    <3> QED BY <1>6, <2>1, <2>2, <2>3, <2>4, <2>6, <2>7, <3>3, <3>4
  <2>8. CASE e = d /\ i - 1 = n
    <3>1. Before(e, i)' = Before(e, i)
      BY <1>2, <1>4, <1>6, <1>8, <2>4, <2>8 DEF Before
    <3>2. w \notin At(e, i) /\ At(e, i)' = At(e, i) \cup {w}
      BY <1>2, <1>4, <1>6, <1>8, <2>4, <2>8 DEF At
    <3>3. Cardinality(At(e, i))' = Cardinality(At(e, i)) + 1
      BY <2>2, <3>2, FS_AddElement
    <3> QED BY <1>6, <2>1, <2>2, <2>3, <2>4, <2>6, <2>8, <3>1, <3>3
  <2>9. CASE ~(e = d /\ (i = n \/ i - 1 = n))
    <3>1. \A v \in Busy : job[v][1] = e => /\ Past(v, i)' <=> Past(v, i)
                                           /\ Past(v, i - 1)' <=> Past(v, i - 1)
      BY <1>2, <1>8, <2>4, <2>9
    <3>2. Before(e, i)' = Before(e, i) /\ At(e, i)' = At(e, i)
      BY <1>4, <1>6, <3>1 DEF Before, At
    <3> QED BY <1>6, <2>1, <2>2, <2>3, <2>6, <2>9, <3>2
  <2> QED BY <2>7, <2>8, <2>9
<1> QED BY <1>1, <1>4, <1>6, <1>9 DEF PrefixInv, AttemptsCounted

LEMMA MirrorCounts == ASSUME PrefixInv, NEW w \in Workers, Mirror(w) PROVE PrefixInv'
<1>1. SinkInv'
  BY MirrorKeeps DEF PrefixInv
<1>2. /\ mirroring[w] = TRUE /\ mirroring' = [mirroring EXCEPT ![w] = FALSE]
      /\ next' = [next EXCEPT ![w] = @ + 1]
      /\ UNCHANGED <<accepted, attempts, queued, job>>
  BY DEF Mirror, storeVars
<1>3. \A v \in Workers : \A j \in Int : Past(v, j)' <=> Past(v, j)
  <2> SUFFICES ASSUME NEW v \in Workers, NEW j \in Int PROVE Past(v, j)' <=> Past(v, j)
    OBVIOUS
  <2>1. next[v] \in Nat
    BY DEF PrefixInv, SinkInv, SinkTypeOK
  <2>2. CASE v = w
    <3>1. next'[v] = next[v] + 1 /\ mirroring'[v] = FALSE /\ mirroring[v] = TRUE
      BY <1>2, <2>2 DEF PrefixInv, SinkInv, SinkTypeOK
    <3> QED BY <2>1, <3>1 DEF Past
  <2>3. CASE v # w
    BY <1>2, <2>3 DEF Past, PrefixInv, SinkInv, SinkTypeOK
  <2> QED BY <2>2, <2>3
<1>4. Busy' = Busy /\ \A v \in Busy : v \in Workers
  BY <1>2 DEF Busy
<1>5. \A e \in Exports : \A i \in 1..Len(Content[e]) :
        Before(e, i)' \subseteq Before(e, i) /\ At(e, i)' \subseteq At(e, i)
  BY <1>2, <1>3, <1>4 DEF Before, At
<1> QED BY <1>1, <1>2, <1>4, <1>5, NothingMore DEF PrefixInv, Waiting

LEMMA ReturnCounts ==
  ASSUME PrefixInv, NEW w \in Workers, FailExport(w) \/ Complete(w) PROVE PrefixInv'
<1>1. SinkInv'
  BY ReturnKeeps DEF PrefixInv
<1>2. /\ job' = [job EXCEPT ![w] = NoExport] /\ next' = [next EXCEPT ![w] = 1]
      /\ UNCHANGED <<accepted, attempts, queued, mirroring>>
  BY DEF FailExport, Complete, Return, storeVars
<1>3. job'[w] = NoExport /\ \A v \in Workers : v # w => job'[v] = job[v] /\ next'[v] = next[v]
  BY <1>2 DEF PrefixInv, SinkInv, SinkTypeOK
<1>4. Busy' = Busy \ {w}
  BY <1>3 DEF Busy
<1>5. IsFiniteSet(Busy')
  BY <1>4, FS_RemoveElement DEF PrefixInv
<1>6. \A e \in Exports : \A i \in 1..Len(Content[e]) :
        Before(e, i)' \subseteq Before(e, i) /\ At(e, i)' \subseteq At(e, i)
  BY <1>2, <1>3, <1>4 DEF Before, At, Busy, Past
<1> QED BY <1>1, <1>2, <1>5, <1>6, NothingMore DEF PrefixInv, Waiting

LEMMA PrefixInductive == PrefixInv /\ [SinkNext]_sinkSystemVars => PrefixInv'
<1> SUFFICES ASSUME PrefixInv, [SinkNext]_sinkSystemVars PROVE PrefixInv'
  OBVIOUS
<1>1. CASE Show \/ UNCHANGED sinkSystemVars
  <2>1. UNCHANGED <<accepted, attempts, queued, job, next, mirroring>>
    BY <1>1 DEF Show, sinkSystemVars, sinkVars, storeVars
  <2>2. SinkInv'
    BY SinkInductive DEF PrefixInv
  <2> QED BY <2>1, <2>2, ZenonT(30) DEF PrefixInv, AttemptsCounted, Busy, Waiting, Before, At, Past, Times
<1> QED BY <1>1, SendCounts, BeginCounts, IngestCounts, MirrorCounts, ReturnCounts DEF SinkNext

(* However many attempts of an export are given up, repeated while earlier  *)
(* ones still run, or fail halfway, a record is in the engine no more often *)
(* than its export was sent, and what a failed attempt leaves behind is the *)
(* beginning of the export (otlp_sink.go).                                  *)
THEOREM RepeatsStorePrefixes == SinkSpec => []AttemptsStorePrefixes
<1>1. PrefixInv => AttemptsStorePrefixes
  <2> SUFFICES ASSUME PrefixInv, NEW e \in Exports, NEW i \in DOMAIN Content[e]
               PROVE  /\ Times(Content[e][i], accepted) <= attempts[e]
                      /\ i > 1 => Times(Content[e][i], accepted) <= Times(Content[e][i - 1], accepted)
    BY DEF AttemptsStorePrefixes
  <2>1. i \in 1..Len(Content[e])
    BY SinkAssumption
  <2>2. /\ Cardinality(Waiting(e)) \in Nat /\ Cardinality(Before(e, i)) \in Nat /\ Cardinality(At(e, i)) \in Nat
    BY CountsAreNat
  <2>3. /\ Times(Content[e][i], accepted) \in Nat /\ Times(Content[e][i - 1], accepted) \in Nat
        /\ attempts[e] \in Nat
    BY TimesIsNat DEF PrefixInv, SinkInv, SinkTypeOK
  <2>4. /\ Times(Content[e][i], accepted) + Cardinality(Waiting(e)) + Cardinality(Before(e, i)) <= attempts[e]
        /\ i > 1 => Times(Content[e][i], accepted) + Cardinality(At(e, i)) <= Times(Content[e][i - 1], accepted)
    BY <2>1 DEF PrefixInv, AttemptsCounted
  <2> QED BY <2>2, <2>3, <2>4
<1> QED BY <1>1, PrefixInitial, PrefixInductive, PTL DEF SinkSpec

-----------------------------------------------------------------------------
(* The store.  The sizes of records, and what part of them the loop of      *)
(* ingest keeps.                                                            *)

SizesOf(s) == [i \in DOMAIN s |-> Size[s[i]]]

LEMMA SizesTyped ==
  ASSUME NEW s \in Seq(Records)
  PROVE  /\ SizesOf(s) \in Seq(Nat) /\ Len(SizesOf(s)) = Len(s)
         /\ \A i \in 1..Len(s) : SizesOf(s)[i] = Size[s[i]]
<1>1. Len(s) \in Nat /\ DOMAIN s = 1..Len(s) /\ \A i \in 1..Len(s) : Size[s[i]] \in Nat
  BY StoreAssumption
<1> QED BY <1>1 DEF SizesOf

(* The bytes of a part of s.                                                *)
LEMMA SizesOfPart ==
  ASSUME NEW s \in Seq(Records), NEW n \in 0..Len(s), NEW m \in 0..n
  PROVE  SumSizes(SubSeq(s, m + 1, n)) = PartialSums(SizesOf(s))[n] - PartialSums(SizesOf(s))[m]
<1>1. PICK v, t, a : v = SizesOf(s) /\ a = m + 1 /\ t = SubSeq(s, a, n)
  OBVIOUS
<1>2. v \in Seq(Nat) /\ Len(v) = Len(s) /\ \A i \in 1..Len(s) : v[i] = Size[s[i]]
  BY <1>1, SizesTyped
<1>3. /\ n \in Nat /\ m \in Nat /\ m <= n /\ n <= Len(s) /\ Len(s) \in Nat
      /\ n - a + 1 = n - m /\ a \in Int /\ n \in Int
      /\ \A i \in 1..(n - m) : a + i - 1 = m + i /\ m + i \in 1..Len(s)
  BY <1>1
<1>4. /\ t \in Seq(Records) /\ Len(t) = n - m /\ \A i \in 1..(n - m) : t[i] = s[m + i]
  <2>1. \A i \in a..n : s[i] \in Records
    BY <1>1, <1>3
  <2>2. /\ t \in Seq(Records) /\ Len(t) = (IF a <= n THEN n - a + 1 ELSE 0)
        /\ \A i \in 1..(n - a + 1) : t[i] = s[a + i - 1]
    BY <1>1, <1>3, <2>1, SubSeqProperties
  <2> QED BY <1>1, <1>3, <2>2
<1>5. /\ SubSeq(v, a, n) \in Seq(Nat) /\ Len(SubSeq(v, a, n)) = n - m
      /\ \A i \in 1..(n - m) : SubSeq(v, a, n)[i] = v[m + i]
  <2>1. \A i \in a..n : v[i] \in Nat
    <3>1. \A i \in a..n : i \in 1..Len(v)
      <4>1. a >= 1 /\ a \in Int /\ n \in Int /\ Len(v) = Len(s) /\ Len(s) \in Nat /\ n <= Len(s)
        BY <1>1, <1>2, <1>3
      <4> QED BY <4>1
    <3>2. \A i \in 1..Len(v) : v[i] \in Nat
      BY <1>2
    <3> QED BY <3>1, <3>2
  <2>2. /\ SubSeq(v, a, n) \in Seq(Nat) /\ Len(SubSeq(v, a, n)) = (IF a <= n THEN n - a + 1 ELSE 0)
        /\ \A i \in 1..(n - a + 1) : SubSeq(v, a, n)[i] = v[a + i - 1]
    BY <1>3, <2>1, SubSeqProperties
  <2> QED BY <1>1, <1>3, <2>2
<1>6. SizesOf(t) \in Seq(Nat) /\ Len(SizesOf(t)) = n - m /\ \A i \in 1..(n - m) : SizesOf(t)[i] = Size[t[i]]
  BY <1>4, SizesTyped
<1>7. ASSUME NEW i \in 1..(n - m) PROVE SizesOf(t)[i] = SubSeq(v, a, n)[i]
  <2>1. m + i \in 1..Len(s)
    BY <1>3
  <2>2. t[i] = s[m + i] /\ SubSeq(v, a, n)[i] = v[m + i] /\ SizesOf(t)[i] = Size[t[i]]
    BY <1>4, <1>5, <1>6
  <2>3. v[m + i] = Size[s[m + i]]
    BY <1>2, <2>1
  <2> QED BY <2>2, <2>3
<1>8. SizesOf(t) = SubSeq(v, a, n)
  BY <1>5, <1>6, <1>7, SeqEqual
<1>9. SeqSum(SubSeq(v, a, n)) = PartialSums(v)[n] - PartialSums(v)[m]
  <2>1. v \in Seq(Int) /\ n \in 0..Len(v) /\ m \in 0..n
    BY <1>2, <1>3
  <2> QED BY <1>1, <2>1, SumOfPart
<1>10. SumSizes(t) = SeqSum(SizesOf(t))
  BY DEF SumSizes, SizesOf
<1> QED BY <1>1, <1>8, <1>9, <1>10

(* The bytes of the records of s behind the first k, and what the loop of   *)
(* ingest asks of them.                                                     *)
BytesFrom(s, k) == PartialSums(SizesOf(s))[Len(s)] - PartialSums(SizesOf(s))[k]
FitsFrom(s, k) == WithinBudget(Len(s) - k, BytesFrom(s, k))

LEMMA BytesShrink ==
  ASSUME NEW s \in Seq(Records), NEW k \in 0..Len(s)
  PROVE  BytesFrom(s, k) \in Nat
<1>1. SizesOf(s) \in Seq(Nat) /\ k \in 0..Len(SizesOf(s)) /\ Len(SizesOf(s)) = Len(s) /\ Len(s) \in Nat
  BY SizesTyped
<1>2. PICK n, f : n = Len(s) /\ f = PartialSums(SizesOf(s))
  OBVIOUS
<1>3. n \in 0..Len(SizesOf(s)) /\ k \in 0..n
  BY <1>1, <1>2
<1>4. f[k] \in Nat /\ f[n] \in Nat /\ f[k] <= f[n]
  BY <1>1, <1>2, <1>3, SumsGrow
<1> QED BY <1>2, <1>4 DEF BytesFrom

LEMMA BytesAppend ==
  ASSUME NEW s \in Seq(Records), NEW r \in Records, NEW k \in 0..Len(s)
  PROVE  /\ BytesFrom(Append(s, r), k) = BytesFrom(s, k) + Size[r]
         /\ BytesFrom(s, k) \in Nat /\ Size[r] \in Nat
<1>1. PICK t, x, v : t = Append(s, r) /\ x = Size[r] /\ v = SizesOf(s)
  OBVIOUS
<1>2. /\ v \in Seq(Nat) /\ Len(v) = Len(s) /\ Len(s) \in Nat /\ x \in Nat
      /\ \A i \in 1..Len(s) : v[i] = Size[s[i]]
  BY <1>1, SizesTyped, StoreAssumption
<1>3. /\ t \in Seq(Records) /\ Len(t) = Len(s) + 1 /\ t[Len(s) + 1] = r
      /\ \A i \in 1..Len(s) : t[i] = s[i]
  BY <1>1, AppendProperties
<1>4. /\ Append(v, x) \in Seq(Nat) /\ Len(Append(v, x)) = Len(s) + 1
      /\ Append(v, x)[Len(s) + 1] = x /\ \A i \in 1..Len(s) : Append(v, x)[i] = v[i]
  BY <1>2, AppendProperties
<1>5. SizesOf(t) \in Seq(Nat) /\ Len(SizesOf(t)) = Len(s) + 1 /\ \A i \in 1..(Len(s) + 1) : SizesOf(t)[i] = Size[t[i]]
  BY <1>3, SizesTyped
<1>6. ASSUME NEW i \in 1..(Len(s) + 1) PROVE SizesOf(t)[i] = Append(v, x)[i]
  <2>1. CASE i \in 1..Len(s)
    BY <1>2, <1>3, <1>4, <1>5, <2>1
  <2>2. CASE i = Len(s) + 1
    BY <1>1, <1>3, <1>4, <1>5, <2>2
  <2> QED BY <1>2, <2>1, <2>2
<1>7. SizesOf(t) = Append(v, x)
  BY <1>4, <1>5, <1>6, SeqEqual
<1>8. v \in Seq(Int) /\ x \in Int
  BY <1>2
<1>9. /\ \A n \in 0..Len(v) : PartialSums(Append(v, x))[n] = PartialSums(v)[n]
      /\ SeqSum(Append(v, x)) = SeqSum(v) + x
  BY <1>8, SumsAppend
<1>10. /\ PartialSums(Append(v, x))[k] = PartialSums(v)[k]
       /\ PartialSums(Append(v, x))[Len(t)] = PartialSums(v)[Len(s)] + x
  BY <1>2, <1>3, <1>4, <1>9 DEF SeqSum
<1>11. PartialSums(v)[k] \in Nat /\ PartialSums(v)[Len(s)] \in Nat
  <2>1. k \in 0..Len(v) /\ Len(v) \in 0..Len(v) /\ k \in 0..k
    BY <1>2
  <2> QED BY <1>2, <2>1, SumsGrow
<1>12. BytesFrom(s, k) \in Nat
  BY BytesShrink
<1> QED BY <1>1, <1>2, <1>7, <1>10, <1>11, <1>12 DEF BytesFrom

(* The window starts behind the first k of the admitted records.            *)
WindowAt(k) ==
  /\ k \in 0..Len(accepted) /\ (accepted # <<>> => k < Len(accepted))
  /\ buffer = SubSeq(accepted, k + 1, Len(accepted))
  /\ bytes = BytesFrom(accepted, k)
  /\ FitsFrom(accepted, k)
  /\ k > 0 => ~FitsFrom(accepted, k - 1)

WindowInv == \E k \in Nat : WindowAt(k)

LEMMA PartOfRecords ==
  ASSUME NEW s \in Seq(Records), NEW n \in 0..Len(s), NEW m \in 0..n
  PROVE  /\ SubSeq(s, m + 1, n) \in Seq(Records) /\ Len(SubSeq(s, m + 1, n)) = n - m
         /\ \A i \in 1..(n - m) : SubSeq(s, m + 1, n)[i] = s[m + i]
<1>1. PICK a : a = m + 1
  OBVIOUS
<1>2. /\ n \in Nat /\ m \in Nat /\ m <= n /\ n <= Len(s) /\ Len(s) \in Nat
      /\ n - a + 1 = n - m /\ a \in Int /\ n \in Int
      /\ \A i \in 1..(n - m) : a + i - 1 = m + i
  BY <1>1
<1>3. \A i \in a..n : s[i] \in Records
  BY <1>1, <1>2
<1>4. /\ SubSeq(s, a, n) \in Seq(Records) /\ Len(SubSeq(s, a, n)) = (IF a <= n THEN n - a + 1 ELSE 0)
      /\ \A i \in 1..(n - a + 1) : SubSeq(s, a, n)[i] = s[a + i - 1]
  BY <1>2, <1>3, SubSeqProperties
<1> QED BY <1>1, <1>2, <1>4

LEMMA PartOfPart ==
  ASSUME NEW s \in Seq(Records), NEW k \in 0..Len(s),
         NEW n \in 0..(Len(s) - k), NEW m \in 0..n
  PROVE  SubSeq(SubSeq(s, k + 1, Len(s)), m + 1, n) = SubSeq(s, k + m + 1, k + n)
<1>1. PICK t : t = SubSeq(s, k + 1, Len(s))
  OBVIOUS
<1>2. /\ Len(s) \in Nat /\ Len(s) \in 0..Len(s) /\ k \in 0..Len(s) /\ k \in Nat /\ n \in Nat /\ m \in Nat
      /\ k + n \in 0..Len(s) /\ k + m \in 0..(k + n) /\ (k + n) - (k + m) = n - m
  OBVIOUS
<1>3. t \in Seq(Records) /\ Len(t) = Len(s) - k /\ \A i \in 1..(Len(s) - k) : t[i] = s[k + i]
  BY <1>1, <1>2, PartOfRecords
<1>4. /\ SubSeq(t, m + 1, n) \in Seq(Records) /\ Len(SubSeq(t, m + 1, n)) = n - m
      /\ \A i \in 1..(n - m) : SubSeq(t, m + 1, n)[i] = t[m + i]
  <2>1. n \in 0..Len(t)
    BY <1>3
  <2> QED BY <1>3, <2>1, PartOfRecords
<1>5. PICK o, p : o = k + m /\ p = k + n
  OBVIOUS
<1>6. o \in 0..p /\ p \in 0..Len(s) /\ p - o = n - m
  BY <1>2, <1>5
<1>7. /\ SubSeq(s, o + 1, p) \in Seq(Records) /\ Len(SubSeq(s, o + 1, p)) = n - m
      /\ \A i \in 1..(n - m) : SubSeq(s, o + 1, p)[i] = s[o + i]
  BY <1>6, PartOfRecords
<1>8. ASSUME NEW i \in 1..(n - m) PROVE SubSeq(t, m + 1, n)[i] = SubSeq(s, o + 1, p)[i]
  <2>1. m + i \in 1..(Len(s) - k) /\ k + (m + i) = o + i
    BY <1>2, <1>5
  <2> QED BY <1>3, <1>4, <1>7, <2>1
<1>9. SubSeq(t, m + 1, n) = SubSeq(s, o + 1, p)
  BY <1>4, <1>7, <1>8, SeqEqual
<1> QED BY <1>1, <1>5, <1>9

LEMMA LeastOf ==
  ASSUME NEW S, S \subseteq Nat, S # {}
  PROVE  Min(S) \in S /\ \A y \in S : Min(S) <= y
BY LeastNumber DEF Min

(* The loop of ingest leaves the longest window that fits.                  *)
LEMMA WindowMoves ==
  ASSUME accepted \in Seq(Records), WindowInv, NEW r \in Records, ~Oversized(r), AppendAndEvict(r),
         accepted' = Append(accepted, r)
  PROVE  WindowInv'
<1>1. PICK k \in Nat : WindowAt(k)
  BY DEF WindowInv
<1>2. PICK l, all, s, b : l = Len(accepted) /\ all = Append(accepted, r) /\ s = Append(buffer, r) /\ b = bytes + Size[r]
  OBVIOUS
<1>3. /\ l \in Nat /\ k \in 0..l /\ all \in Seq(Records) /\ Len(all) = l + 1 /\ all[l + 1] = r
      /\ \A i \in 1..l : all[i] = accepted[i]
  BY <1>1, <1>2, AppendProperties DEF WindowAt
<1>4. buffer \in Seq(Records) /\ Len(buffer) = l - k /\ \A i \in 1..(l - k) : buffer[i] = accepted[k + i]
  <2>1. buffer = SubSeq(accepted, k + 1, l) /\ l \in 0..Len(accepted) /\ k \in 0..l
    BY <1>1, <1>2, <1>3 DEF WindowAt
  <2> QED BY <2>1, PartOfRecords
<1>5. /\ s \in Seq(Records) /\ Len(s) = l + 1 - k /\ s[l + 1 - k] = r
      /\ \A i \in 1..(l - k) : s[i] = buffer[i]
  BY <1>2, <1>3, <1>4, AppendProperties
<1>6. s = SubSeq(all, k + 1, l + 1)
  <2>1. PICK z, whole : z = l + 1 /\ whole = SubSeq(all, k + 1, z)
    OBVIOUS
  <2>2. whole \in Seq(Records) /\ Len(whole) = z - k /\ \A i \in 1..(z - k) : whole[i] = all[k + i]
    <3>1. z \in 0..Len(all) /\ k \in 0..z
      BY <1>3, <2>1
    <3> QED BY <1>3, <2>1, <3>1, PartOfRecords
  <2>3. ASSUME NEW i \in 1..(z - k) PROVE s[i] = whole[i]
    <3>1. whole[i] = all[k + i]
      BY <2>2
    <3>2. CASE i \in 1..(l - k)
      <4>1. k + i \in 1..l
        BY <1>3, <3>2
      <4>2. s[i] = buffer[i] /\ buffer[i] = accepted[k + i]
        BY <1>4, <1>5, <3>2
      <4>3. all[k + i] = accepted[k + i]
        BY <1>3, <4>1
      <4> QED BY <3>1, <4>2, <4>3
    <3>3. CASE i = l + 1 - k
      <4>1. k + i = l + 1
        BY <1>3, <3>3
      <4>2. s[i] = r
        BY <1>5, <3>3
      <4>3. all[k + i] = r
        BY <1>3, <4>1
      <4> QED BY <3>1, <4>2, <4>3
    <3> QED BY <1>3, <2>1, <3>2, <3>3
  <2>4. Len(s) = z - k
    BY <1>3, <1>5, <2>1
  <2>5. s = whole
    BY <1>5, <2>2, <2>3, <2>4, SeqEqual
  <2> QED BY <2>1, <2>5
<1>7. b = BytesFrom(all, k) /\ b \in Int
  <2>1. bytes = BytesFrom(accepted, k)
    BY <1>1 DEF WindowAt
  <2> QED BY <1>2, <1>3, <2>1, BytesAppend
<1>8. ASSUME NEW n \in 0..(Len(s) - 1)
      PROVE  /\ k + n \in 0..l /\ Len(s) - n = Len(all) - (k + n)
             /\ b - SumSizes(SubSeq(s, 1, n)) = BytesFrom(all, k + n)
  <2>1. k + n \in 0..l /\ Len(s) - n = Len(all) - (k + n) /\ n \in 0..(Len(all) - k) /\ 0 \in 0..n
    <3>1. n \in Nat /\ n <= l - k /\ k <= l /\ Len(s) = l + 1 - k /\ Len(all) = l + 1
      BY <1>3, <1>5
    <3> QED BY <1>3, <3>1
  <2>2. SubSeq(s, 0 + 1, n) = SubSeq(all, k + 0 + 1, k + n)
    <3>1. k \in 0..Len(all)
      BY <1>3
    <3> QED BY <1>3, <1>6, <2>1, <3>1, PartOfPart
  <2>3. SubSeq(s, 1, n) = SubSeq(all, k + 1, k + n)
    <3>1. 0 + 1 = 1 /\ k + 0 + 1 = k + 1
      BY <1>3
    <3> QED BY <2>2, <3>1
  <2>4. SumSizes(SubSeq(all, k + 1, k + n)) = PartialSums(SizesOf(all))[k + n] - PartialSums(SizesOf(all))[k]
    <3>1. PICK z : z = k + n
      OBVIOUS
    <3>2. z \in 0..Len(all) /\ k \in 0..z
      BY <1>3, <2>1, <3>1
    <3> QED BY <1>3, <3>1, <3>2, SizesOfPart
  <2>5. PICK f : f = PartialSums(SizesOf(all))
    OBVIOUS
  <2>6. f[k] \in Int /\ f[k + n] \in Int /\ f[Len(all)] \in Int
    <3>1. SizesOf(all) \in Seq(Nat) /\ Len(SizesOf(all)) = Len(all)
      BY <1>3, SizesTyped
    <3>2. AreSums(f, SizesOf(all), Len(all))
      <4>1. SizesOf(all) \in Seq(Int)
        BY <3>1
      <4> QED BY <2>5, <3>1, <4>1, SumsAre
    <3>3. f \in [0..Len(all) -> Int]
      BY <3>2 DEF AreSums
    <3>4. k \in 0..Len(all) /\ k + n \in 0..Len(all) /\ Len(all) \in 0..Len(all)
      BY <1>3, <2>1
    <3> QED BY <3>3, <3>4
  <2>7. b = f[Len(all)] - f[k]
    BY <1>7, <2>5 DEF BytesFrom
  <2>8. SumSizes(SubSeq(s, 1, n)) = f[k + n] - f[k]
    BY <2>3, <2>4, <2>5
  <2>9. BytesFrom(all, k + n) = f[Len(all)] - f[k + n]
    BY <2>5 DEF BytesFrom
  <2>10. b - SumSizes(SubSeq(s, 1, n)) = BytesFrom(all, k + n)
    BY <2>6, <2>7, <2>8, <2>9, SMTT(30)
  <2> QED BY <2>1, <2>10
<1> DEFINE Enough == {n \in 0..(Len(s) - 1) :
                        \/ n = Len(s) - 1
                        \/ WithinBudget(Len(s) - n, b - SumSizes(SubSeq(s, 1, n)))}
<1>9. PICK n : n = Evictions(s, b)
  OBVIOUS
<1>10. n \in Enough /\ \A y \in Enough : n <= y
  <2>1. Enough \subseteq Nat /\ Len(s) - 1 \in Enough
    BY <1>3, <1>5
  <2>2. n = Min(Enough)
    BY <1>9 DEF Evictions
  <2> HIDE DEF Enough
  <2> QED BY <2>1, <2>2, LeastOf
<1>11. n \in 0..(Len(s) - 1) /\ n \in Nat
  BY <1>3, <1>5, <1>10
<1>12. n = Len(s) - 1 \/ FitsFrom(all, k + n)
  BY <1>8, <1>10, <1>11 DEF FitsFrom
<1>13. ASSUME NEW m \in 0..(Len(s) - 1), m < n PROVE ~FitsFrom(all, k + m)
  <2>1. m \notin Enough /\ m # Len(s) - 1
    BY <1>10, <1>11, <1>13
  <2>2. ~WithinBudget(Len(s) - m, b - SumSizes(SubSeq(s, 1, m)))
    BY <2>1
  <2> QED BY <1>8, <2>2 DEF FitsFrom
<1> HIDE DEF Enough
<1>14. PICK q : q = k + n
  OBVIOUS
<1>15. q \in Nat /\ q \in 0..l /\ q < Len(all) /\ q \in 0..Len(all)
  <2>1. k + n \in 0..l
    BY <1>8, <1>11
  <2> QED BY <1>3, <1>14, <2>1
<1>16. buffer' = SubSeq(all, q + 1, Len(all)) /\ bytes' = BytesFrom(all, q)
  <2>1. buffer' = SubSeq(s, n + 1, Len(s)) /\ bytes' = b - SumSizes(SubSeq(s, 1, n))
    BY <1>2, <1>9 DEF AppendAndEvict
  <2>2. bytes' = BytesFrom(all, q)
    BY <1>8, <1>11, <1>14, <2>1
  <2>3. SubSeq(SubSeq(all, k + 1, Len(all)), n + 1, Len(s)) = SubSeq(all, k + n + 1, k + Len(s))
    <3>1. PICK z : z = Len(s)
      OBVIOUS
    <3>2. k \in 0..Len(all) /\ z \in 0..(Len(all) - k) /\ n \in 0..z
      BY <1>3, <1>5, <1>11, <3>1
    <3> QED BY <1>3, <3>1, <3>2, PartOfPart
  <2>4. k + Len(s) = Len(all) /\ k + n + 1 = q + 1
    BY <1>3, <1>5, <1>11, <1>14
  <2> QED BY <1>3, <1>6, <2>1, <2>2, <2>3, <2>4
<1>17. FitsFrom(all, q)
  <2>1. CASE n = Len(s) - 1
    <3>1. q = l
      BY <1>3, <1>5, <1>14, <2>1
    <3>2. BytesFrom(all, l) = Size[r]
      <4>1. l \in 0..l /\ l \in 0..Len(accepted)
        BY <1>2, <1>3
      <4>2. BytesFrom(all, l) = BytesFrom(accepted, l) + Size[r] /\ Size[r] \in Nat
        BY <1>2, <4>1, BytesAppend
      <4>3. BytesFrom(accepted, l) = 0
        <5>1. PICK f : f = PartialSums(SizesOf(accepted))
          OBVIOUS
        <5>2. SizesOf(accepted) \in Seq(Nat) /\ Len(SizesOf(accepted)) = l
          BY <1>2, SizesTyped
        <5>3. f[l] \in Nat
          BY <4>1, <5>1, <5>2, SumsGrow
        <5> QED BY <1>2, <5>1, <5>3 DEF BytesFrom
      <4> QED BY <4>2, <4>3
    <3>3. Len(all) - q = 1 /\ 1 <= MaxBuffer /\ MaxBytes \in Nat /\ Size[r] \in Nat
      BY <1>3, <3>1, StoreAssumption
    <3>4. WithinBudget(1, Size[r])
      BY <3>3 DEF WithinBudget, Oversized
    <3> QED BY <3>1, <3>2, <3>3, <3>4 DEF FitsFrom
  <2>2. CASE FitsFrom(all, k + n)
    BY <1>14, <2>2
  <2> QED BY <1>12, <2>1, <2>2
<1>18. ASSUME q > 0 PROVE ~FitsFrom(all, q - 1)
  <2>1. CASE n > 0
    <3>1. n - 1 \in 0..(Len(s) - 1) /\ n - 1 < n /\ k + (n - 1) = q - 1
      BY <1>3, <1>11, <1>14, <2>1
    <3> QED BY <1>13, <3>1
  <2>2. CASE n = 0
    <3>1. q = k /\ k > 0 /\ k - 1 \in 0..l
      BY <1>3, <1>14, <1>18, <2>2
    <3>2. ~FitsFrom(accepted, k - 1)
      BY <1>1, <3>1 DEF WindowAt
    <3>3. PICK c, d : c = BytesFrom(accepted, k - 1) /\ d = BytesFrom(all, k - 1)
      OBVIOUS
    <3>4. c \in Nat /\ d \in Nat /\ c <= d
      <4>1. d = c + Size[r] /\ c \in Nat /\ Size[r] \in Nat
        <5>1. PICK z : z = k - 1
          OBVIOUS
        <5>2. z \in 0..Len(accepted)
          BY <1>2, <3>1, <5>1
        <5> QED BY <1>2, <3>3, <5>1, <5>2, BytesAppend
      <4> QED BY <4>1
    <3>5. ~WithinBudget(l - (k - 1), c)
      BY <1>2, <3>2, <3>3 DEF FitsFrom
    <3>6. ~WithinBudget((l + 1) - (k - 1), d)
      BY <1>3, <3>4, <3>5, StoreAssumption DEF WithinBudget
    <3> QED BY <1>3, <3>1, <3>3, <3>6 DEF FitsFrom
  <2> QED BY <1>11, <2>1, <2>2
<1>19. WindowAt(q)'
  <2>1. accepted' = all
    BY <1>2
  <2>2. BytesFrom(all, q) = BytesFrom(accepted', q)
    BY <2>1
  <2> QED BY <1>15, <1>16, <1>17, <1>18, <2>1 DEF WindowAt, BytesFrom, FitsFrom, SizesOf
<1> QED BY <1>15, <1>19 DEF WindowInv
LEMMA WindowFits ==
  ASSUME accepted \in Seq(Records), WindowInv
  PROVE  WindowIsLongestFit /\ bytes = SumSizes(buffer)
<1>1. PICK k \in Nat : WindowAt(k)
  BY DEF WindowInv
<1>2. PICK l : l = Len(accepted)
  OBVIOUS
<1>3. l \in Nat /\ k \in 0..l /\ l \in 0..l /\ (accepted # <<>> => k < l)
  BY <1>1, <1>2 DEF WindowAt
<1>4. buffer = SubSeq(accepted, k + 1, l) /\ bytes = BytesFrom(accepted, k)
  BY <1>1, <1>2 DEF WindowAt
<1>5. buffer \in Seq(Records) /\ Len(buffer) = l - k
  BY <1>2, <1>3, <1>4, PartOfRecords
<1>6. SumSizes(buffer) = BytesFrom(accepted, k)
  BY <1>2, <1>3, <1>4, SizesOfPart DEF BytesFrom
<1>7. WithinBudget(Len(buffer), SumSizes(buffer))
  BY <1>1, <1>2, <1>5, <1>6 DEF WindowAt, FitsFrom
<1>8. ASSUME Len(buffer) < l
      PROVE  LET longer == SubSeq(accepted, l - Len(buffer), l)
             IN  ~WithinBudget(Len(longer), SumSizes(longer))
  <2>1. k > 0
    BY <1>3, <1>5, <1>8
  <2>2. PICK j, longer : j = k - 1 /\ longer = SubSeq(accepted, j + 1, l)
    OBVIOUS
  <2>3. j \in 0..l /\ l - Len(buffer) = j + 1 /\ l \in 0..Len(accepted)
    BY <1>2, <1>3, <1>5, <2>1, <2>2
  <2>4. Len(longer) = l - j
    BY <2>2, <2>3, PartOfRecords
  <2>5. SumSizes(longer) = BytesFrom(accepted, j)
    BY <1>2, <2>2, <2>3, SizesOfPart DEF BytesFrom
  <2>6. ~FitsFrom(accepted, j)
    BY <1>1, <2>1, <2>2 DEF WindowAt
  <2> QED BY <1>2, <2>2, <2>3, <2>4, <2>5, <2>6 DEF FitsFrom
<1>9. buffer = SubSeq(accepted, l - Len(buffer) + 1, l) /\ Len(buffer) <= l
  <2>1. l - Len(buffer) + 1 = k + 1
    BY <1>3, <1>5
  <2> QED BY <1>3, <1>4, <1>5, <2>1
<1>10. accepted # <<>> => buffer # <<>>
  <2>1. accepted # <<>> => Len(buffer) # 0
    BY <1>3, <1>5
  <2> QED BY <2>1
<1> QED BY <1>2, <1>4, <1>6, <1>7, <1>8, <1>9, <1>10 DEF WindowIsLongestFit

LEMMA EmptyWindow == ASSUME accepted = <<>>, buffer = <<>>, bytes = 0 PROVE WindowInv
<1>1. <<>> \in Seq(Records) /\ Len(<<>>) = 0
  OBVIOUS
<1>2. BytesFrom(<<>>, 0) = 0
  <2>1. SizesOf(<<>>) \in Seq(Nat) /\ Len(SizesOf(<<>>)) = 0
    BY <1>1, SizesTyped
  <2>2. PartialSums(SizesOf(<<>>))[0] \in Nat
    BY <2>1, SumsGrow
  <2> QED BY <1>1, <2>2 DEF BytesFrom
<1>3. FitsFrom(<<>>, 0)
  BY <1>1, <1>2, StoreAssumption DEF FitsFrom, WithinBudget
<1>4. <<>> = SubSeq(<<>>, 0 + 1, Len(<<>>))
  <2>1. Len(SubSeq(<<>>, 0 + 1, 0)) = 0 /\ SubSeq(<<>>, 0 + 1, 0) \in Seq(Records)
    <3>1. 0 \in 0..Len(<<>>) /\ 0 \in 0..0
      BY <1>1
    <3> QED BY <1>1, <3>1, PartOfRecords
  <2> QED BY <1>1, <2>1
<1>5. WindowAt(0)
  BY <1>1, <1>2, <1>3, <1>4 DEF WindowAt
<1> QED BY <1>5 DEF WindowInv

-----------------------------------------------------------------------------
(* The listed services. *)

Listed == [service : Services, count : Nat \ {0}]

ListInv ==
  /\ lifetimeServices \in [Services -> Nat]
  /\ topServices \in Seq(Listed) /\ Len(topServices) <= TopServices
  /\ ListedServicesExact

(* What is left when an item is taken out of a list.                        *)
LEMMA Removed ==
  ASSUME NEW S, NEW s \in Seq(S), NEW i \in 1..Len(s)
  PROVE  /\ RemoveAt(s, i) \in Seq(S) /\ Len(RemoveAt(s, i)) = Len(s) - 1
         /\ \A j \in 1..(i - 1) : RemoveAt(s, i)[j] = s[j]
         /\ \A j \in i..(Len(s) - 1) : RemoveAt(s, i)[j] = s[j + 1]
<1>1. PICK n, h : n = Len(s) /\ h = i - 1
  OBVIOUS
<1>2. n \in Nat /\ i \in 1..n /\ h \in 0..(n - 1) /\ h = i - 1 /\ i \in Nat
  BY <1>1
<1>3. PICK a, b, u : a = SubSeq(s, 1, h) /\ b = SubSeq(s, i + 1, n) /\ u = a \o b
  OBVIOUS
<1>4. a \in Seq(S) /\ Len(a) = h /\ \A j \in 1..h : a[j] = s[j]
  <2>1. \A j \in 1..h : s[j] \in S
    BY <1>1, <1>2
  <2>2. /\ a \in Seq(S) /\ Len(a) = (IF 1 <= h THEN h - 1 + 1 ELSE 0)
        /\ \A j \in 1..(h - 1 + 1) : a[j] = s[1 + j - 1]
    BY <1>2, <1>3, <2>1, SubSeqProperties
  <2> QED BY <1>2, <2>2
<1>5. b \in Seq(S) /\ Len(b) = n - i /\ \A j \in 1..(n - i) : b[j] = s[i + j]
  <2>1. \A j \in (i + 1)..n : s[j] \in S
    BY <1>1, <1>2
  <2>2. PICK k : k = i + 1
    OBVIOUS
  <2>3. /\ b \in Seq(S) /\ Len(b) = (IF k <= n THEN n - k + 1 ELSE 0)
        /\ \A j \in 1..(n - k + 1) : b[j] = s[k + j - 1]
    BY <1>2, <1>3, <2>1, <2>2, SubSeqProperties
  <2>4. n - k + 1 = n - i /\ \A j \in 1..(n - i) : k + j - 1 = i + j
    BY <1>2, <2>2
  <2> QED BY <1>2, <2>2, <2>3, <2>4
<1>6. /\ u \in Seq(S) /\ Len(u) = n - 1
      /\ \A j \in 1..h : u[j] = s[j]
      /\ \A j \in i..(n - 1) : u[j] = s[j + 1]
  <2>1. /\ u \in Seq(S) /\ Len(u) = Len(a) + Len(b)
        /\ \A j \in 1..(Len(a) + Len(b)) : u[j] = IF j <= Len(a) THEN a[j] ELSE b[j - Len(a)]
    <3>1. a \in Seq(S) /\ b \in Seq(S)
      BY <1>4, <1>5
    <3> QED BY <1>3, <3>1, ConcatProperties
  <2>2. Len(a) + Len(b) = n - 1
    BY <1>2, <1>4, <1>5
  <2>3. ASSUME NEW j \in 1..h PROVE u[j] = s[j]
    <3>1. j \in 1..(n - 1) /\ j <= Len(a)
      BY <1>2, <1>4
    <3>2. u[j] = a[j] /\ a[j] = s[j]
      BY <1>4, <2>1, <2>2, <3>1
    <3> QED BY <3>2
  <2>4. ASSUME NEW j \in i..(n - 1) PROVE u[j] = s[j + 1]
    <3>1. j \in 1..(n - 1) /\ ~(j <= h) /\ j - h \in 1..(n - i) /\ i + (j - h) = j + 1
      BY <1>2
    <3> QED BY <1>4, <1>5, <2>1, <2>2, <3>1
  <2> QED BY <2>1, <2>2, <2>3, <2>4
<1>7. u = RemoveAt(s, i)
  BY <1>1, <1>3 DEF RemoveAt
<1> QED BY <1>1, <1>6, <1>7

(* t is s with the item at i replaced by e, which has moved forward to p.   *)
Moved(t, s, i, p, e) ==
  /\ Len(t) = Len(s) /\ t[p] = e
  /\ \A j \in 1..(p - 1) : t[j] = s[j]
  /\ \A j \in (p + 1)..i : t[j] = s[j - 1]
  /\ \A j \in (i + 1)..Len(s) : t[j] = s[j]

LEMMA MovedForward ==
  ASSUME NEW S, NEW s \in Seq(S), NEW i \in 1..Len(s), NEW p \in 1..i, NEW e \in S
  PROVE  /\ InsertAt(RemoveAt(s, i), p, e) \in Seq(S)
         /\ Moved(InsertAt(RemoveAt(s, i), p, e), s, i, p, e)
<1>1. PICK n, h, u : n = Len(s) /\ h = i - 1 /\ u = RemoveAt(s, i)
  OBVIOUS
<1>2. n \in Nat /\ i \in 1..n /\ p \in 1..i /\ h \in 0..(n - 1) /\ h = i - 1 /\ i \in Nat /\ p \in Nat
  BY <1>1
<1>6. /\ u \in Seq(S) /\ Len(u) = n - 1
      /\ \A j \in 1..h : u[j] = s[j]
      /\ \A j \in i..(n - 1) : u[j] = s[j + 1]
  BY <1>1, Removed
<1>7. PICK c, d, o : c = SubSeq(u, 1, p - 1) /\ d = SubSeq(u, p, n - 1) /\ o = c \o <<e>>
  OBVIOUS
<1>8. c \in Seq(S) /\ Len(c) = p - 1 /\ \A j \in 1..(p - 1) : c[j] = u[j]
  <2>1. PICK k : k = p - 1
    OBVIOUS
  <2>2. k \in 0..(n - 1)
    BY <1>2, <2>1
  <2>3. \A j \in 1..k : u[j] \in S
    BY <1>6, <2>2
  <2>4. /\ c \in Seq(S) /\ Len(c) = (IF 1 <= k THEN k - 1 + 1 ELSE 0)
        /\ \A j \in 1..(k - 1 + 1) : c[j] = u[1 + j - 1]
    BY <1>7, <2>1, <2>2, <2>3, SubSeqProperties
  <2> QED BY <2>1, <2>2, <2>4
<1>9. d \in Seq(S) /\ Len(d) = n - p /\ \A j \in 1..(n - p) : d[j] = u[p + j - 1]
  <2>1. PICK k : k = n - 1
    OBVIOUS
  <2>2. k \in Nat /\ k - p + 1 = n - p /\ p - 1 <= k
    BY <1>2, <2>1
  <2>3. \A j \in p..k : u[j] \in S
    BY <1>2, <1>6, <2>1
  <2>4. /\ d \in Seq(S) /\ Len(d) = (IF p <= k THEN k - p + 1 ELSE 0)
        /\ \A j \in 1..(k - p + 1) : d[j] = u[p + j - 1]
    BY <1>2, <1>7, <2>1, <2>2, <2>3, SubSeqProperties
  <2> QED BY <1>2, <2>1, <2>2, <2>4
<1>10. o \in Seq(S) /\ Len(o) = p /\ o[p] = e /\ \A j \in 1..(p - 1) : o[j] = u[j]
  <2>1. o = Append(c, e)
    BY <1>7, <1>8, AppendIsConcat
  <2> QED BY <1>2, <1>8, <2>1, AppendProperties
<1>11. PICK t : t = o \o d
  OBVIOUS
<1>12. /\ t \in Seq(S) /\ Len(t) = n
       /\ \A j \in 1..p : t[j] = o[j]
       /\ \A j \in (p + 1)..n : t[j] = d[j - p]
  <2>1. /\ t \in Seq(S) /\ Len(t) = Len(o) + Len(d)
        /\ \A j \in 1..(Len(o) + Len(d)) : t[j] = IF j <= Len(o) THEN o[j] ELSE d[j - Len(o)]
    BY <1>9, <1>10, <1>11, ConcatProperties
  <2>2. Len(o) + Len(d) = n
    BY <1>2, <1>9, <1>10
  <2> QED BY <1>2, <1>10, <2>1, <2>2
<1>13. ASSUME NEW j \in (p + 1)..n PROVE j - 1 \in 1..(n - 1) /\ t[j] = u[j - 1]
  <2>1. j - p \in 1..(n - p) /\ p + (j - p) - 1 = j - 1 /\ j - 1 \in 1..(n - 1)
    BY <1>2
  <2> QED BY <1>9, <1>12, <2>1
<1>14. ASSUME NEW j \in (p + 1)..i PROVE t[j] = s[j - 1]
  <2>1. j - 1 \in 1..h /\ j \in (p + 1)..n
    BY <1>2
  <2> QED BY <1>6, <1>13, <2>1
<1>15. ASSUME NEW j \in (i + 1)..n PROVE t[j] = s[j]
  <2>1. j - 1 \in i..(n - 1) /\ (j - 1) + 1 = j /\ j \in (p + 1)..n
    BY <1>2
  <2> QED BY <1>6, <1>13, <2>1
<1>16. ASSUME NEW j \in 1..(p - 1) PROVE t[j] = s[j]
  <2>1. j \in 1..p /\ j \in 1..h
    BY <1>2
  <2> QED BY <1>6, <1>10, <1>12, <2>1
<1>17. t[p] = e
  BY <1>2, <1>10, <1>12
<1>18. t = InsertAt(RemoveAt(s, i), p, e)
  BY <1>1, <1>6, <1>7, <1>11 DEF InsertAt
<1>19. Moved(t, s, i, p, e)
  BY <1>1, <1>12, <1>14, <1>15, <1>16, <1>17 DEF Moved
<1> QED BY <1>12, <1>18, <1>19
Ordered(list) == \A a, b \in 1..Len(list) : a < b => list[a].count >= list[b].count

(* The sort moves the item that grew before the first one that has less.    *)
LEMMA Resort ==
  ASSUME NEW list \in Seq(Listed), NEW i \in 1..Len(list),
         \A a, b \in 1..(i - 1) : a < b => list[a].count >= list[b].count,
         \A b \in (i + 1)..Len(list) : list[b].count < list[i].count
  PROVE  \E p \in 1..i :
           /\ Resorted(list, i) = InsertAt(RemoveAt(list, i), p, list[i])
           /\ \A j \in 1..(p - 1) : list[j].count >= list[i].count
           /\ \A j \in p..(i - 1) : list[j].count < list[i].count
<1>1. PICK n, c, rest : n = Len(list) /\ c = list[i].count /\ rest = RemoveAt(list, i)
  OBVIOUS
<1>2. n \in Nat /\ i \in 1..n /\ i \in Nat
  BY <1>1
<1>3. \A j \in 1..n : list[j] \in Listed /\ list[j].count \in Nat
  <2>1. \A j \in 1..n : list[j] \in Listed
    BY <1>1
  <2> QED BY <2>1 DEF Listed
<1>4. /\ rest \in Seq(Listed) /\ Len(rest) = n - 1
      /\ \A j \in 1..(i - 1) : rest[j] = list[j]
      /\ \A j \in i..(n - 1) : rest[j] = list[j + 1]
  BY <1>1, Removed
<1> DEFINE Less == {j \in 1..i : j = i \/ list[j].count < c}
<1>5. PICK p : p \in Less /\ \A y \in Less : p <= y
  <2>1. Less \subseteq Nat /\ i \in Less
    BY <1>2
  <2> HIDE DEF Less
  <2> QED BY <2>1, LeastNumber
<1>6. p \in 1..i /\ p \in Nat
  BY <1>5
<1>7. ASSUME NEW j \in 1..(p - 1) PROVE list[j].count >= c /\ j \in 1..(i - 1)
  <2>1. j \in 1..i /\ j # i /\ j \notin Less
    BY <1>2, <1>5, <1>6
  <2>2. ~(list[j].count < c) /\ list[j].count \in Nat /\ c \in Nat
    BY <1>1, <1>2, <1>3, <2>1
  <2> QED BY <1>2, <2>1, <2>2
<1>8. ASSUME NEW j \in p..(i - 1) PROVE list[j].count < c
  <2>1. p # i /\ list[p].count < c
    BY <1>2, <1>5, <1>8
  <2>2. list[p].count \in Nat /\ list[j].count \in Nat /\ c \in Nat
    BY <1>1, <1>2, <1>3, <1>6
  <2>3. CASE p = j
    BY <2>1, <2>3
  <2>4. CASE p # j
    <3>1. p \in 1..(i - 1) /\ j \in 1..(i - 1) /\ p < j
      BY <1>2, <1>6, <2>1, <2>4
    <3>2. list[p].count >= list[j].count
      BY <3>1
    <3> QED BY <2>1, <2>2, <3>2
  <2> QED BY <2>3, <2>4
<1>9. ASSUME NEW j \in i..(n - 1) PROVE rest[j].count < c
  <2>1. j + 1 \in (i + 1)..Len(list)
    BY <1>1, <1>2
  <2> QED BY <1>1, <1>4, <2>1
<1> HIDE DEF Less
<1> DEFINE Ahead == {j \in DOMAIN rest : rest[j].count >= c}
<1>10. Ahead = 1..(p - 1)
  <2>1. DOMAIN rest = 1..(n - 1)
    BY <1>4
  <2>2. ASSUME NEW j \in 1..(n - 1) PROVE rest[j].count >= c <=> j \in 1..(p - 1)
    <3>1. c \in Nat
      BY <1>1, <1>2, <1>3
    <3>2. CASE j \in 1..(p - 1)
      BY <1>4, <1>7, <3>2
    <3>3. CASE j \in p..(i - 1)
      <4>1. rest[j] = list[j] /\ list[j].count < c /\ list[j].count \in Nat
        BY <1>2, <1>3, <1>4, <1>6, <1>8, <3>3
      <4> QED BY <1>6, <3>1, <3>3, <4>1
    <3>4. CASE j \in i..(n - 1)
      <4>1. rest[j].count < c /\ rest[j].count \in Nat
        <5>1. rest[j] = list[j + 1] /\ j + 1 \in 1..n
          BY <1>2, <1>4, <3>4
        <5> QED BY <1>3, <1>9, <3>4, <5>1
      <4>2. j \notin 1..(p - 1)
        BY <1>2, <1>6, <3>4
      <4> QED BY <3>1, <4>1, <4>2
    <3> QED BY <1>2, <1>6, <3>2, <3>3, <3>4
  <2>3. 1..(p - 1) \subseteq 1..(n - 1)
    BY <1>2, <1>6
  <2> QED BY <2>1, <2>2, <2>3
<1>11. Cardinality(Ahead) = p - 1
  <2>1. PICK k : k = p - 1
    OBVIOUS
  <2>2. k \in Nat /\ Ahead = 1..k
    BY <1>6, <1>10, <2>1
  <2> HIDE DEF Ahead
  <2>3. Cardinality(1..k) = k
    BY <2>2, FS_Interval
  <2> QED BY <2>1, <2>2, <2>3
<1>12. Resorted(list, i) = InsertAt(rest, Cardinality(Ahead) + 1, list[i])
  BY <1>1 DEF Resorted
<1>13. Resorted(list, i) = InsertAt(rest, p, list[i])
  <2> HIDE DEF Ahead
  <2>1. Cardinality(Ahead) + 1 = p
    BY <1>6, <1>11
  <2> QED BY <1>12, <2>1
<1> QED BY <1>1, <1>6, <1>7, <1>8, <1>13

(* The first n of s are those of t, rearranged.                             *)
Arranged(s, t, n) ==
  \E from \in [1..n -> 1..n] :
    /\ \A j \in 1..n : s[j] = t[from[j]]
    /\ \A a, b \in 1..n : a < b => from[a] # from[b]
    /\ \A k \in 1..n : \E j \in 1..n : from[j] = k

SameItems(s, t) == Len(s) = Len(t) /\ Arranged(s, t, Len(t))

(* The sorted list has the same items, in order; if none of those before    *)
(* the item has less, it is the list as it was.                             *)
LEMMA Sorted ==
  ASSUME NEW list \in Seq(Listed), NEW i \in 1..Len(list),
         \A a, b \in 1..Len(list) : a < b /\ a # i /\ b # i => list[a].count >= list[b].count,
         \A b \in (i + 1)..Len(list) : list[b].count < list[i].count
  PROVE  /\ Resorted(list, i) \in Seq(Listed) /\ Ordered(Resorted(list, i))
         /\ SameItems(Resorted(list, i), list)
         /\ (\A j \in 1..(i - 1) : list[j].count >= list[i].count) => Resorted(list, i) = list
<1>1. PICK n, c, best : n = Len(list) /\ c = list[i].count /\ best = Resorted(list, i)
  OBVIOUS
<1>2. n \in Nat /\ i \in 1..n /\ i \in Nat /\ \A j \in 1..n : list[j] \in Listed /\ list[j].count \in Nat
  <2>1. \A j \in 1..n : list[j] \in Listed
    BY <1>1
  <2> QED BY <1>1, <2>1 DEF Listed
<1>3. PICK p \in 1..i :
        /\ best = InsertAt(RemoveAt(list, i), p, list[i])
        /\ \A j \in 1..(p - 1) : list[j].count >= c
        /\ \A j \in p..(i - 1) : list[j].count < c
  <2>1. ASSUME NEW a \in 1..(i - 1), NEW b \in 1..(i - 1), a < b PROVE list[a].count >= list[b].count
    <3>1. a \in 1..Len(list) /\ b \in 1..Len(list) /\ a # i /\ b # i
      BY <1>1, <1>2
    <3> QED BY <2>1, <3>1
  <2> QED BY <1>1, <2>1, Resort
<1>4. /\ best \in Seq(Listed) /\ Len(best) = n /\ best[p] = list[i]
      /\ \A j \in 1..(p - 1) : best[j] = list[j]
      /\ \A j \in (p + 1)..i : best[j] = list[j - 1]
      /\ \A j \in (i + 1)..n : best[j] = list[j]
  <2>1. PICK e : e = list[i]
    OBVIOUS
  <2>2. e \in Listed /\ i \in 1..Len(list) /\ p \in 1..i
    BY <1>2, <2>1
  <2>3. best = InsertAt(RemoveAt(list, i), p, e)
    BY <1>3, <2>1
  <2>4. best \in Seq(Listed) /\ Moved(best, list, i, p, e)
    BY <2>2, <2>3, MovedForward
  <2> QED BY <1>1, <2>1, <2>4 DEF Moved
<1>5. PICK from : from = [j \in 1..n |-> IF j < p \/ j > i THEN j ELSE IF j = p THEN i ELSE j - 1]
  OBVIOUS
<1>6. p \in Nat /\ p \in 1..i
  OBVIOUS
<1>7. from \in [1..n -> 1..n]
  <2>1. ASSUME NEW j \in 1..n PROVE (IF j < p \/ j > i THEN j ELSE IF j = p THEN i ELSE j - 1) \in 1..n
    BY <1>2, <1>6
  <2> QED BY <1>5, <2>1
<1>8. ASSUME NEW j \in 1..n PROVE best[j] = list[from[j]]
  <2>1. CASE j \in 1..(p - 1) \/ j \in (i + 1)..n
    BY <1>2, <1>4, <1>5, <1>6, <2>1
  <2>2. CASE j = p
    BY <1>2, <1>4, <1>5, <1>6, <2>2
  <2>3. CASE j \in (p + 1)..i
    BY <1>2, <1>4, <1>5, <1>6, <2>3
  <2> QED BY <1>2, <1>6, <2>1, <2>2, <2>3
<1>9. ASSUME NEW a \in 1..n, NEW b \in 1..n, a < b PROVE from[a] # from[b]
  BY <1>2, <1>5, <1>6, <1>9
<1>10. ASSUME NEW k \in 1..n PROVE \E j \in 1..n : from[j] = k
  <2>1. CASE k < p \/ k > i
    BY <1>5, <2>1
  <2>2. CASE k = i
    <3>1. p \in 1..n /\ from[p] = i
      BY <1>2, <1>5, <1>6
    <3> QED BY <2>2, <3>1
  <2>3. CASE ~(k < p \/ k > i) /\ k # i
    <3>1. k + 1 \in 1..n /\ from[k + 1] = k
      BY <1>2, <1>5, <1>6, <2>3
    <3> QED BY <3>1
  <2> QED BY <2>1, <2>2, <2>3
<1>11. ASSUME NEW a \in 1..n, NEW b \in 1..n, a < b PROVE best[a].count >= best[b].count
  <2>1. PICK x, y : x = from[a] /\ y = from[b]
    OBVIOUS
  <2>2. /\ x \in 1..n /\ y \in 1..n /\ best[a] = list[x] /\ best[b] = list[y]
        /\ list[x].count \in Nat /\ list[y].count \in Nat /\ c \in Nat
    BY <1>1, <1>2, <1>7, <1>8, <2>1
  <2>3. CASE x # i /\ y # i
    <3>1. x < y
      BY <1>2, <1>5, <1>6, <1>11, <2>1, <2>3
    <3>2. list[x].count >= list[y].count
      BY <1>1, <2>2, <2>3, <3>1
    <3> QED BY <2>2, <3>2
  <2>4. CASE x = i
    <3>1. y \in p..(i - 1) \/ y \in (i + 1)..n
      BY <1>2, <1>5, <1>6, <1>11, <2>1, <2>4
    <3>2. list[y].count < c
      BY <1>1, <1>3, <3>1
    <3> QED BY <1>1, <2>2, <2>4, <3>2
  <2>5. CASE y = i
    <3>1. x \in 1..(p - 1)
      BY <1>2, <1>5, <1>6, <1>11, <2>1, <2>5
    <3>2. list[x].count >= c
      BY <1>3, <3>1
    <3> QED BY <1>1, <2>2, <2>5, <3>2
  <2> QED BY <2>3, <2>4, <2>5
<1>12. ASSUME \A j \in 1..(i - 1) : list[j].count >= c PROVE best = list
  <2>1. p = i
    <3>1. ASSUME p # i PROVE FALSE
      <4>1. p \in p..(i - 1) /\ p \in 1..(i - 1) /\ p \in 1..n
        BY <1>2, <1>6, <3>1
      <4>2. list[p].count < c /\ list[p].count >= c /\ list[p].count \in Nat /\ c \in Nat
        BY <1>1, <1>2, <1>3, <1>12, <4>1
      <4> QED BY <4>2
    <3> QED BY <3>1
  <2>2. ASSUME NEW j \in 1..n PROVE best[j] = list[j]
    <3>1. from[j] = j
      BY <1>2, <1>5, <2>1
    <3> QED BY <1>8, <3>1
  <2> QED BY <1>1, <1>4, <2>2, SeqEqual
<1>13. Ordered(best)
  BY <1>4, <1>11 DEF Ordered
<1>14. SameItems(best, list)
  <2>1. Arranged(best, list, n)
    BY <1>7, <1>8, <1>9, <1>10 DEF Arranged
  <2>2. n = Len(list) /\ Len(best) = Len(list)
    BY <1>1, <1>4
  <2> QED BY <2>1, <2>2 DEF SameItems
<1> QED BY <1>1, <1>4, <1>12, <1>13, <1>14
LEMMA Lesser ==
  ASSUME NEW a \in Nat, NEW b \in Nat, a <= b PROVE Min({a, b}) = a
<1>1. {a, b} \subseteq Nat /\ {a, b} # {}
  OBVIOUS
<1>2. Min({a, b}) \in {a, b} /\ \A y \in {a, b} : Min({a, b}) <= y
  BY <1>1, LeastOf
<1> QED BY <1>2

LEMMA Beginning ==
  ASSUME NEW S, NEW s \in Seq(S), NEW t \in Seq(S), Len(t) <= Len(s), \A i \in 1..Len(t) : s[i] = t[i]
  PROVE  SubSeq(s, 1, Len(t)) = t
<1>1. PICK n : n = Len(t)
  OBVIOUS
<1>2. n \in Nat /\ n <= Len(s) /\ Len(s) \in Nat /\ n - 1 + 1 = n
  BY <1>1
<1>3. \A i \in 1..n : s[i] \in S
  BY <1>2
<1>4. /\ SubSeq(s, 1, n) \in Seq(S) /\ Len(SubSeq(s, 1, n)) = (IF 1 <= n THEN n - 1 + 1 ELSE 0)
      /\ \A i \in 1..(n - 1 + 1) : SubSeq(s, 1, n)[i] = s[1 + i - 1]
  BY <1>2, <1>3, SubSeqProperties
<1>5. Len(SubSeq(s, 1, n)) = n /\ \A i \in 1..n : SubSeq(s, 1, n)[i] = t[i]
  BY <1>1, <1>2, <1>4
<1> QED BY <1>1, <1>4, <1>5, SeqEqual

(* updateServicesBySeverity, beside the lifetime count.                     *)
LEMMA ListKeeps ==
  ASSUME ListInv, NEW x \in Services, CountService(x),
         lifetimeServices' = [lifetimeServices EXCEPT ![x] = @ + 1]
  PROVE  ListInv'
<1>1. PICK top, l : top = topServices /\ l = Len(top)
  OBVIOUS
<1>2. /\ lifetimeServices \in [Services -> Nat] /\ top \in Seq(Listed) /\ l \in Nat /\ l <= TopServices
      /\ TopServices \in Nat /\ DOMAIN top = 1..l
  BY <1>1, StoreAssumption DEF ListInv
<1>3. \A i \in 1..l : top[i].service \in Services /\ top[i].count \in Nat \ {0}
  <2>1. \A i \in 1..l : top[i] \in Listed
    BY <1>1, <1>2
  <2> QED BY <2>1 DEF Listed
<1>4. /\ \A i \in 1..l : top[i].count = lifetimeServices[top[i].service]
      /\ \A i, j \in 1..l : i < j => top[i].service # top[j].service /\ top[i].count >= top[j].count
      /\ l < TopServices => \A s \in Services : lifetimeServices[s] > 0 => \E i \in 1..l : top[i].service = s
  BY <1>1, <1>2, SMTT(30) DEF ListInv, ListedServicesExact
<1>5. /\ lifetimeServices' \in [Services -> Nat]
      /\ lifetimeServices'[x] = lifetimeServices[x] + 1
      /\ \A s \in Services : s # x => lifetimeServices'[s] = lifetimeServices[s]
  BY <1>2
<1> DEFINE Known == {i \in DOMAIN top : top[i].service = x}
<1>6. CASE Known = {}
  <2>1. PICK item, list, n : item = NewService(x) /\ list = Append(top, item) /\ n = l + 1
    OBVIOUS
  <2>2. item \in Listed /\ item.service = x /\ item.count = 1
    BY <2>1 DEF NewService, Listed
  <2>3. /\ list \in Seq(Listed) /\ Len(list) = n /\ list[n] = item /\ n \in Nat /\ n \in 1..n
        /\ \A i \in 1..l : list[i] = top[i]
    BY <1>1, <1>2, <2>1, <2>2, AppendProperties
  <2>4. Resorted(list, n) = list
    <3>1. \A a, b \in 1..n : a < b /\ a # n /\ b # n => list[a].count >= list[b].count
      <4> SUFFICES ASSUME NEW a \in 1..n, NEW b \in 1..n, a < b, a # n, b # n
                   PROVE  list[a].count >= list[b].count
        OBVIOUS
      <4>1. a \in 1..l /\ b \in 1..l
        BY <1>2, <2>1
      <4> QED BY <1>4, <2>3, <4>1
    <3>2. \A b \in (n + 1)..Len(list) : list[b].count < list[n].count
      BY <2>3
    <3>3. \A j \in 1..(n - 1) : list[j].count >= list[n].count
      <4> SUFFICES ASSUME NEW j \in 1..(n - 1) PROVE list[j].count >= list[n].count
        OBVIOUS
      <4>1. j \in 1..l
        BY <1>2, <2>1
      <4>2. list[j].count \in Nat \ {0}
        BY <1>3, <2>3, <4>1
      <4> QED BY <2>2, <2>3, <4>2
    <3> QED BY <2>3, <3>1, <3>2, <3>3, Sorted
  <2>5. topServices' = SubSeq(list, 1, Min({n, TopServices}))
    <3>1. topServices' = SubSeq(Resorted(list, n), 1, Min({Len(Resorted(list, n)), TopServices}))
      BY <1>1, <1>6, <2>1 DEF CountService
    <3> QED BY <2>3, <2>4, <3>1
  <2>6. CASE l < TopServices
    <3>1. topServices' = list
      <4>1. Min({n, TopServices}) = n
        BY <1>2, <2>1, <2>3, <2>6, Lesser
      <4>2. SubSeq(list, 1, Len(list)) = list
        BY <2>3, Beginning
      <4> QED BY <2>3, <2>5, <4>1, <4>2
    <3>2. \A i \in 1..l : top[i].service # x
      BY <1>2, <1>6
    <3>3. lifetimeServices[x] = 0
      BY <1>2, <1>4, <2>6, <3>2
    <3>4. DOMAIN list = 1..n /\ n <= TopServices
      BY <1>2, <2>1, <2>3, <2>6
    <3>5. ASSUME NEW i \in 1..n
          PROVE  /\ list[i].count = lifetimeServices'[list[i].service]
                 /\ \A j \in 1..n : i < j => list[i].service # list[j].service /\ list[i].count >= list[j].count
      <4>1. CASE i = n
        BY <1>2, <1>5, <2>2, <2>3, <3>3, <4>1
      <4>2. CASE i \in 1..l
        <5>1. list[i] = top[i] /\ top[i].service # x /\ top[i].service \in Services /\ top[i].count \in Nat \ {0}
          BY <1>3, <2>3, <3>2, <4>2
        <5>2. list[i].count = lifetimeServices'[list[i].service]
          BY <1>4, <1>5, <4>2, <5>1
        <5>3. ASSUME NEW j \in 1..n, i < j
              PROVE  list[i].service # list[j].service /\ list[i].count >= list[j].count
          <6>1. CASE j = n
            BY <2>2, <2>3, <5>1, <6>1
          <6>2. CASE j \in 1..l
            BY <1>4, <2>3, <4>2, <5>1, <5>3, <6>2
          <6> QED BY <1>2, <2>1, <6>1, <6>2
        <5> QED BY <5>2, <5>3
      <4> QED BY <1>2, <2>1, <4>1, <4>2
    <3>6. ASSUME NEW s \in Services, lifetimeServices'[s] > 0 PROVE \E i \in 1..n : list[i].service = s
      <4>1. CASE s = x
        BY <2>2, <2>3, <4>1
      <4>2. CASE s # x
        <5>1. PICK i \in 1..l : top[i].service = s
          BY <1>4, <1>5, <2>6, <3>6, <4>2
        <5>2. i \in 1..n /\ list[i].service = s
          BY <1>2, <2>1, <2>3, <5>1
        <5> QED BY <5>2
      <4> QED BY <4>1, <4>2
    <3> QED BY <1>5, <2>3, <3>1, <3>4, <3>5, <3>6 DEF ListInv, ListedServicesExact
  <2>7. CASE l = TopServices
    <3>1. topServices' = top
      <4>1. Min({n, TopServices}) = TopServices
        <5>1. {n, TopServices} = {TopServices, n} /\ TopServices <= n
          BY <1>2, <2>1, <2>7
        <5> QED BY <1>2, <2>3, <5>1, Lesser
      <4>2. SubSeq(list, 1, Len(top)) = top
        BY <1>1, <1>2, <2>1, <2>3, Beginning
      <4> QED BY <1>1, <2>5, <2>7, <4>1, <4>2
    <3>2. ASSUME NEW i \in 1..l PROVE lifetimeServices'[top[i].service] = lifetimeServices[top[i].service]
      BY <1>2, <1>3, <1>5, <1>6
    <3> QED BY <1>1, <1>2, <1>4, <1>5, <2>7, <3>1, <3>2 DEF ListInv, ListedServicesExact
  <2> QED BY <1>2, <2>6, <2>7
<1>7. CASE Known # {}
  <2>1. PICK i, list : i = (CHOOSE k \in Known : TRUE) /\ list = [top EXCEPT ![i].count = @ + 1]
    OBVIOUS
  <2>2. i \in 1..l /\ top[i].service = x
    <3>1. i \in Known
      BY <1>7, <2>1
    <3> QED BY <1>2, <3>1
  <2>3. PICK item : item = [service |-> x, count |-> top[i].count + 1]
    OBVIOUS
  <2>4. top[i] = [service |-> x, count |-> top[i].count] /\ item \in Listed
    <3>1. top[i] \in Listed
      BY <1>1, <1>2, <2>2
    <3> QED BY <2>2, <2>3, <3>1 DEF Listed
  <2>5. list \in Seq(Listed) /\ Len(list) = l /\ list[i] = item /\ \A j \in 1..l : j # i => list[j] = top[j]
    <3>1. [top[i] EXCEPT !.count = @ + 1] = item
      <4>1. PICK c : c = top[i].count
        OBVIOUS
      <4>2. top[i] = [service |-> x, count |-> c]
        BY <2>4, <4>1
      <4> QED BY <2>3, <4>1, <4>2
    <3>2. list = [top EXCEPT ![i] = item]
      BY <2>1, <3>1
    <3> QED BY <1>1, <1>2, <2>2, <2>4, <3>2
  <2>6. PICK c : c = top[i].count
    OBVIOUS
  <2>7. c \in Nat \ {0} /\ item.count = c + 1 /\ item.service = x
    BY <1>3, <2>2, <2>3, <2>6
  <2>8. PICK best : best = Resorted(list, i)
    OBVIOUS
  <2>9. best \in Seq(Listed) /\ Ordered(best) /\ SameItems(best, list)
    <3>1. \A a, b \in 1..Len(list) : a < b /\ a # i /\ b # i => list[a].count >= list[b].count
      BY <1>4, <2>5
    <3>2. \A b \in (i + 1)..Len(list) : list[b].count < list[i].count
      <4> SUFFICES ASSUME NEW b \in (i + 1)..Len(list) PROVE list[b].count < list[i].count
        OBVIOUS
      <4>1. b \in 1..l /\ i < b /\ list[b] = top[b]
        BY <1>2, <2>2, <2>5
      <4>2. c >= top[b].count /\ top[b].count \in Nat
        BY <1>3, <1>4, <2>2, <2>6, <4>1
      <4> QED BY <2>5, <2>7, <4>1, <4>2
    <3>3. i \in 1..Len(list)
      BY <2>2, <2>5
    <3> QED BY <2>5, <2>8, <3>1, <3>2, <3>3, Sorted
  <2>10. topServices' = best
    <3>1. topServices' = SubSeq(best, 1, Min({Len(best), TopServices}))
      BY <1>1, <1>7, <2>1, <2>8 DEF CountService
    <3>2. Len(best) = l
      BY <2>5, <2>9 DEF SameItems
    <3>3. Min({Len(best), TopServices}) = Len(best)
      BY <1>2, <3>2, Lesser
    <3>4. SubSeq(best, 1, Len(best)) = best
      BY <2>9, Beginning
    <3> QED BY <3>1, <3>3, <3>4
  <2>11. Arranged(best, list, l) /\ Len(best) = l
    BY <2>5, <2>9 DEF SameItems
  <2>12. PICK from \in [1..l -> 1..l] :
           /\ \A j \in 1..l : best[j] = list[from[j]]
           /\ \A a, b \in 1..l : a < b => from[a] # from[b]
           /\ \A k \in 1..l : \E j \in 1..l : from[j] = k
    BY <2>11 DEF Arranged
  <2>13. \A j \in 1..l : list[j].service = top[j].service
    BY <2>2, <2>5, <2>7
  <2>14. \A j \in 1..l : list[j].count = lifetimeServices'[list[j].service]
    <3> SUFFICES ASSUME NEW j \in 1..l PROVE list[j].count = lifetimeServices'[list[j].service]
      OBVIOUS
    <3>1. CASE j = i
      <4>1. list[j].count = c + 1 /\ list[j].service = x /\ c = lifetimeServices[x]
        BY <1>4, <2>2, <2>5, <2>6, <2>7, <3>1
      <4> QED BY <1>5, <4>1
    <3>2. CASE j # i
      <4>1. j < i \/ i < j
        BY <1>2, <2>2, <3>2
      <4>2. top[j].service # x /\ top[j].service \in Services
        BY <1>3, <1>4, <2>2, <4>1
      <4>3. list[j] = top[j]
        BY <2>5, <3>2
      <4> QED BY <1>4, <1>5, <4>2, <4>3
    <3> QED BY <3>1, <3>2
  <2>15. \A j, k \in 1..l : j # k => list[j].service # list[k].service
    <3> SUFFICES ASSUME NEW j \in 1..l, NEW k \in 1..l, j # k PROVE top[j].service # top[k].service
      BY <2>13
    <3>1. j < k \/ k < j
      BY <1>2
    <3> QED BY <1>4, <3>1
  <2>16. ASSUME NEW j \in 1..l
         PROVE  /\ best[j].count = lifetimeServices'[best[j].service]
                /\ \A k \in 1..l : j < k => best[j].service # best[k].service /\ best[j].count >= best[k].count
    <3>1. best[j] = list[from[j]] /\ from[j] \in 1..l
      BY <2>12
    <3>2. best[j].count = lifetimeServices'[best[j].service]
      BY <2>14, <3>1
    <3>3. ASSUME NEW k \in 1..l, j < k
          PROVE  best[j].service # best[k].service /\ best[j].count >= best[k].count
      <4>1. best[k] = list[from[k]] /\ from[k] \in 1..l /\ from[j] # from[k]
        BY <2>12, <3>3
      <4>2. best[j].service # best[k].service
        BY <2>15, <3>1, <4>1
      <4>3. best[j].count >= best[k].count
        BY <2>9, <2>11, <3>3 DEF Ordered
      <4> QED BY <4>2, <4>3
    <3> QED BY <3>2, <3>3
  <2>17. ASSUME l < TopServices, NEW s \in Services, lifetimeServices'[s] > 0
         PROVE  \E j \in 1..l : best[j].service = s
    <3>1. PICK k \in 1..l : top[k].service = s
      <4>1. CASE s = x
        BY <2>2, <4>1
      <4>2. CASE s # x
        BY <1>4, <1>5, <2>17, <4>2
      <4> QED BY <4>1, <4>2
    <3>2. PICK j \in 1..l : from[j] = k
      BY <2>12
    <3>3. best[j].service = s
      BY <2>12, <2>13, <3>1, <3>2
    <3> QED BY <3>3
  <2>18. DOMAIN best = 1..l
    BY <2>9, <2>11
  <2>19. \A j \in DOMAIN best :
           /\ best[j].count = lifetimeServices'[best[j].service]
           /\ \A k \in DOMAIN best : j < k => best[j].service # best[k].service /\ best[j].count >= best[k].count
    BY <2>16, <2>18
  <2>20. Len(best) < TopServices =>
           \A s \in Services : lifetimeServices'[s] > 0 => \E j \in DOMAIN best : best[j].service = s
    BY <2>11, <2>17, <2>18
  <2>21. ListedServicesExact'
    BY <2>10, <2>19, <2>20 DEF ListedServicesExact
  <2>22. topServices' \in Seq(Listed) /\ Len(topServices') <= TopServices
    BY <1>2, <2>9, <2>10, <2>11
  <2> QED BY <1>5, <2>21, <2>22 DEF ListInv
<1> QED BY <1>6, <1>7
StoreInv == WindowInv /\ ListInv

LEMMA StoreInitial == StoreInit => StoreInv
<1> SUFFICES ASSUME StoreInit PROVE StoreInv
  OBVIOUS
<1>1. WindowInv
  BY EmptyWindow DEF StoreInit
<1>2. ListInv
  <2>1. topServices = <<>> /\ lifetimeServices = [s \in Services |-> 0]
    BY DEF StoreInit
  <2>2. <<>> \in Seq(Listed) /\ Len(<<>>) = 0 /\ DOMAIN <<>> = {}
    OBVIOUS
  <2>3. lifetimeServices \in [Services -> Nat] /\ \A s \in Services : ~(lifetimeServices[s] > 0)
    BY <2>1
  <2>4. ListedServicesExact
    BY <2>1, <2>2, <2>3 DEF ListedServicesExact
  <2>5. Len(topServices) <= TopServices
    BY <2>1, <2>2, StoreAssumption
  <2> QED BY <2>1, <2>2, <2>3, <2>4, <2>5 DEF ListInv
<1> QED BY <1>1, <1>2 DEF StoreInv

LEMMA StoreRests == ASSUME StoreInv, UNCHANGED storeVars PROVE StoreInv'
BY DEF StoreInv, storeVars, WindowInv, WindowAt, BytesFrom, FitsFrom, SizesOf, ListInv, ListedServicesExact

LEMMA IngestKeepsStore ==
  ASSUME StoreInv, accepted \in Seq(Records), NEW r \in Records, Ingest(r) PROVE StoreInv'
<1>1. WindowInv'
  BY WindowMoves DEF StoreInv, Ingest
<1>2. ListInv'
  <2>1. CASE Service[r] = NoService
    BY <2>1 DEF StoreInv, Ingest, ListInv, ListedServicesExact
  <2>2. CASE Service[r] # NoService
    <3>1. Service[r] \in Services
      BY <2>2 DEF Services
    <3> QED BY <2>2, <3>1, ListKeeps DEF StoreInv, Ingest
  <2> QED BY <2>1, <2>2
<1> QED BY <1>1, <1>2 DEF StoreInv

LEMMA StoreInductive == SinkInv /\ StoreInv /\ [SinkNext]_sinkSystemVars => StoreInv'
<1> SUFFICES ASSUME SinkInv, StoreInv, [SinkNext]_sinkSystemVars PROVE StoreInv'
  OBVIOUS
<1>1. CASE UNCHANGED storeVars
  BY <1>1, StoreRests
<1>2. CASE UNCHANGED sinkSystemVars
  BY <1>1, <1>2 DEF sinkSystemVars
<1>3. ASSUME NEW w \in Workers, IngestRecord(w) PROVE StoreInv'
  <2>1. /\ job[w] # NoExport /\ next[w] <= Len(Content[job[w][1]]) /\ Ingest(Current(w))
    BY <1>3 DEF IngestRecord, Converting, Remaining
  <2>2. /\ job[w][1] \in Exports /\ Content[job[w][1]] \in Seq(Records) /\ next[w] \in Nat \ {0}
        /\ accepted \in Seq(Records)
    BY <2>1, SinkAssumption DEF SinkInv, SinkTypeOK
  <2>3. Current(w) \in Records
    BY <2>1, <2>2 DEF Current
  <2> QED BY <2>1, <2>2, <2>3, IngestKeepsStore
<1>4. CASE Show \/ \E e \in Exports : Send(e) \/ TimeOut(e)
  BY <1>1, <1>4 DEF Show, Send, TimeOut
<1>5. ASSUME NEW w \in Workers, Begin(w) \/ Mirror(w) \/ FailExport(w) \/ Complete(w) PROVE StoreInv'
  BY <1>1, <1>5 DEF Begin, Mirror, FailExport, Complete, Return
<1> QED BY <1>2, <1>3, <1>4, <1>5 DEF SinkNext

(* Under both budgets ingest keeps the longest run of the latest records    *)
(* that fits, its running byte count is the size of what is kept, and a     *)
(* listed service shows its lifetime count (state.go).                      *)
THEOREM StoreIsExact == SinkSpec => []StoreExact
<1>1. SinkInit => StoreInv
  BY StoreInitial DEF SinkInit
<1>2. SinkInv /\ StoreInv => StoreExact
  BY WindowFits DEF StoreInv, ListInv, SinkInv, SinkTypeOK, StoreExact
<1> QED BY <1>1, <1>2, SinkInitial, SinkInductive, StoreInductive, PTL DEF SinkSpec

-----------------------------------------------------------------------------
(* The engine.  A tenant has one state, whoever was first to ask for it,    *)
(* and it has counted every entry that was admitted for the tenant.         *)

Goroutines == Ingesters \cup Readers
Total(t)   == IF tenants[t] = None THEN 0 ELSE states[tenants[t]].total

EngineTypeOK ==
  /\ tenants \in [EngineTenants -> (Goroutines \X EngineTenants) \cup {None}]
  /\ admitted \in Seq(Entries)
  /\ DOMAIN at = Goroutines /\ DOMAIN task = Goroutines /\ DOMAIN held = Goroutines

(* What a goroutine does it does for a tenant, and an ingester for an entry.*)
TasksSet ==
  \A g \in Goroutines : at[g] # "idle" =>
    /\ task[g].tenant \in EngineTenants
    /\ g \in Ingesters => task[g] \in Entries

(* The states are those of the tenants, each named for its own.             *)
OneState ==
  /\ \A t \in EngineTenants : tenants[t] # None => tenants[t][2] = t /\ tenants[t] \in DOMAIN states
  /\ \A id \in DOMAIN states : id \in Goroutines \X EngineTenants /\ tenants[id[2]] = id

HeldIsRegistered ==
  \A g \in Goroutines : at[g] \notin {"idle", "insert"} =>
    held[g] = tenants[task[g].tenant] /\ held[g] # None

TotalsExact ==
  /\ \A id \in DOMAIN states : "total" \in DOMAIN states[id] /\ states[id].total \in Nat
  /\ \A t \in EngineTenants : Total(t) = AdmittedFor(t)

EngineInv == EngineTypeOK /\ TasksSet /\ OneState /\ HeldIsRegistered /\ TotalsExact

(* What a step of the engine leaves true of every tenant.                   *)
EngineGrows ==
  \A t \in EngineTenants :
    /\ tenants[t] # None => tenants'[t] = tenants[t]
    /\ Total(t) \in Nat /\ Total(t)' \in Nat /\ Total(t) <= Total(t)'

LEMMA EngineInitial == EngineInit => EngineInv
<1> SUFFICES ASSUME EngineInit PROVE EngineInv
  OBVIOUS
<1>1. /\ tenants = [t \in EngineTenants |-> None] /\ states = <<>> /\ admitted = <<>>
      /\ at = [g \in Goroutines |-> "idle"] /\ DOMAIN task = Goroutines /\ DOMAIN held = Goroutines
  BY DEF EngineInit, Goroutines
<1>2. EngineTypeOK /\ TasksSet /\ HeldIsRegistered
  BY <1>1 DEF EngineTypeOK, TasksSet, HeldIsRegistered
<1>3. DOMAIN states = {}
  BY <1>1
<1>4. OneState
  BY <1>1, <1>3 DEF OneState
<1>5. \A t \in EngineTenants : Total(t) = 0 /\ AdmittedFor(t) = 0
  <2>1. \A t : {k \in DOMAIN admitted : admitted[k].tenant = t} = {}
    BY <1>1
  <2> QED BY <1>1, <2>1, FS_EmptySet DEF Total, AdmittedFor
<1> QED BY <1>2, <1>3, <1>4, <1>5 DEF EngineInv, TotalsExact

LEMMA TotalIsNat == ASSUME EngineInv, NEW t \in EngineTenants PROVE Total(t) \in Nat
BY DEF EngineInv, OneState, TotalsExact, Total

(* tenantState.ingest adds one to the total of the state.                   *)
LEMMA IngestedTotal ==
  ASSUME NEW st, NEW e, NEW patterns, NEW by, "total" \in DOMAIN st
  PROVE  /\ "total" \in DOMAIN Ingested(st, e, patterns, by)
         /\ Ingested(st, e, patterns, by).total = st.total + 1
BY DEF Ingested

LEMMA AdmittedAppended ==
  ASSUME admitted \in Seq(Entries), NEW e \in Entries, admitted' = Append(admitted, e)
  PROVE  \A t : AdmittedFor(t)' = IF e.tenant = t THEN AdmittedFor(t) + 1 ELSE AdmittedFor(t)
<1> SUFFICES ASSUME NEW t
             PROVE  AdmittedFor(t)' = IF e.tenant = t THEN AdmittedFor(t) + 1 ELSE AdmittedFor(t)
  OBVIOUS
<1> DEFINE own == {d \in Entries : d.tenant = t}
<1>1. \A k \in DOMAIN admitted : admitted[k] \in Entries
  OBVIOUS
<1>2. AdmittedFor(t) = Cardinality(Places(admitted, own))
  BY <1>1 DEF AdmittedFor, Places
<1>3. \A k \in DOMAIN admitted' : admitted'[k] \in Entries
  BY AppendProperties
<1>4. AdmittedFor(t)' = Cardinality(Places(admitted', own))
  BY <1>3 DEF AdmittedFor, Places
<1>5. e.tenant = t <=> e \in own
  OBVIOUS
<1> HIDE DEF own
<1>6. Cardinality(Places(Append(admitted, e), own)) =
        IF e \in own THEN Cardinality(Places(admitted, own)) + 1 ELSE Cardinality(Places(admitted, own))
  BY PlacesAppended
<1> QED BY <1>2, <1>4, <1>5, <1>6

(* A step that leaves the tenants and their states alone.                   *)
LEMMA StatesStand ==
  ASSUME EngineInv, UNCHANGED <<tenants, states, admitted>>,
         DOMAIN at' = Goroutines, DOMAIN task' = Goroutines, DOMAIN held' = Goroutines
  PROVE  EngineTypeOK' /\ OneState' /\ TotalsExact' /\ EngineGrows
<1>1. \A t \in EngineTenants : Total(t) \in Nat /\ Total(t)' = Total(t) /\ AdmittedFor(t)' = AdmittedFor(t)
  BY TotalIsNat DEF Total, AdmittedFor
<1> QED BY <1>1 DEF EngineInv, EngineTypeOK, OneState, TotalsExact, EngineGrows

LEMMA FindKeeps ==
  ASSUME EngineInv, NEW g \in Goroutines, NEW x, x.tenant \in EngineTenants,
         g \in Ingesters => x \in Entries,
         task' = [task EXCEPT ![g] = x], FindState(g, x.tenant), UNCHANGED <<tenants, states, admitted>>
  PROVE  EngineInv' /\ EngineGrows
<1>1. /\ at' = [at EXCEPT ![g] = IF tenants[x.tenant] = None THEN "insert" ELSE "use"]
      /\ held' = [held EXCEPT ![g] = tenants[x.tenant]]
  BY DEF FindState, Goes
<1>2. DOMAIN at = Goroutines /\ DOMAIN task = Goroutines /\ DOMAIN held = Goroutines
  BY DEF EngineInv, EngineTypeOK
<1>3. EngineTypeOK' /\ OneState' /\ TotalsExact' /\ EngineGrows
  BY <1>1, <1>2, StatesStand
<1>4. TasksSet'
  BY <1>1, <1>2 DEF EngineInv, TasksSet
<1>5. HeldIsRegistered'
  BY <1>1, <1>2 DEF EngineInv, HeldIsRegistered
<1> QED BY <1>3, <1>4, <1>5 DEF EngineInv

LEMMA CallKeeps == ASSUME EngineInv, NEW g \in Ingesters, CallIngest(g) PROVE EngineInv' /\ EngineGrows
<1>1. PICK e \in Entries : task' = [task EXCEPT ![g] = e] /\ FindState(g, e.tenant)
  BY DEF CallIngest
<1>2. UNCHANGED <<tenants, states, admitted>>
  BY DEF CallIngest
<1> QED BY <1>1, <1>2, FindKeeps, EngineAssumption DEF Goroutines

LEMMA AskKeeps == ASSUME EngineInv, NEW g \in Readers, Ask(g) PROVE EngineInv' /\ EngineGrows
<1>1. PICK caller \in Callers, requested \in EngineTenants \cup {Unset} :
        LET t == resolveTenant(caller, requested)
        IN  task' = [task EXCEPT ![g] = [caller |-> caller, tenant |-> t]] /\ FindState(g, t)
  BY DEF Ask
<1>2. UNCHANGED <<tenants, states, admitted>> /\ g \in Goroutines /\ g \notin Ingesters
  BY EngineAssumption DEF Ask, Goroutines
<1>3. PICK t \in EngineTenants : t = resolveTenant(caller, requested)
  BY EngineAssumption DEF resolveTenant
<1>4. PICK x : x = [caller |-> caller, tenant |-> t]
  OBVIOUS
<1>5. x.tenant = t /\ task' = [task EXCEPT ![g] = x] /\ FindState(g, x.tenant)
  BY <1>1, <1>3, <1>4
<1> QED BY <1>2, <1>5, FindKeeps

(* A reader that looks at the state it holds changes nothing but its place. *)
LEMMA LookKeeps ==
  ASSUME EngineInv, NEW g \in Readers, Answer(g) \/ FirstLook(g) \/ SecondLook(g)
  PROVE  EngineInv' /\ EngineGrows
<1>1. /\ UNCHANGED <<tenants, states, task, held, admitted>> /\ at[g] \in {"use", "second"}
      /\ at' = [at EXCEPT ![g] = "idle"] \/ at' = [at EXCEPT ![g] = "second"]
  BY DEF Answer, FirstLook, SecondLook, Reply, Goes
<1>2. DOMAIN at = Goroutines /\ DOMAIN task = Goroutines /\ DOMAIN held = Goroutines
  BY DEF EngineInv, EngineTypeOK
<1>3. EngineTypeOK' /\ OneState' /\ TotalsExact' /\ EngineGrows
  BY <1>1, <1>2, StatesStand
<1>4. \A h \in Goroutines : at'[h] # "idle" => at[h] # "idle" /\ (at[h] = "insert" => at'[h] = "insert")
  BY <1>1, <1>2
<1>5. TasksSet' /\ HeldIsRegistered'
  BY <1>1, <1>4 DEF EngineInv, TasksSet, HeldIsRegistered
<1> QED BY <1>3, <1>5 DEF EngineInv

(* Whoever holds the lock second finds the state of the first, so a tenant  *)
(* that two goroutines create at once still has one state.                  *)
LEMMA InsertKeeps == ASSUME EngineInv, NEW g \in Goroutines, Insert(g) PROVE EngineInv' /\ EngineGrows
<1>1. PICK t \in EngineTenants : t = task[g].tenant
  BY DEF Insert, EngineInv, TasksSet
<1> DEFINE id == Existing(g, t)
<1>2. /\ at[g] = "insert" /\ tenants' = [tenants EXCEPT ![t] = id]
      /\ states' = [i \in DOMAIN states \cup {id} |-> IF i \in DOMAIN states THEN states[i] ELSE newTenantState]
      /\ held' = [held EXCEPT ![g] = id] /\ at' = [at EXCEPT ![g] = "use"]
      /\ UNCHANGED <<task, admitted>>
  BY <1>1 DEF Insert, Goes
<1>3. /\ DOMAIN at = Goroutines /\ DOMAIN task = Goroutines /\ DOMAIN held = Goroutines
      /\ tenants \in [EngineTenants -> (Goroutines \X EngineTenants) \cup {None}]
  BY DEF EngineInv, EngineTypeOK
<1>4. /\ id \in Goroutines \X EngineTenants /\ id[2] = t /\ id # None
      /\ tenants[t] # None => id = tenants[t] /\ id \in DOMAIN states
  BY <1>3, EngineAssumption DEF Existing, Goroutines, EngineInv, OneState
<1>5. tenants[t] = None => id \notin DOMAIN states
  BY <1>4 DEF EngineInv, OneState
<1> HIDE DEF id
<1>6. /\ tenants'[t] = id /\ \A u \in EngineTenants : u # t => tenants'[u] = tenants[u]
      /\ \A u \in EngineTenants : tenants[u] # None => tenants'[u] = tenants[u]
  BY <1>2, <1>3, <1>4
<1>7. /\ DOMAIN states' = DOMAIN states \cup {id}
      /\ \A k \in DOMAIN states : states'[k] = states[k]
      /\ id \notin DOMAIN states => states'[id] = newTenantState
  BY <1>2
<1>8. EngineTypeOK'
  <2>1. tenants' \in [EngineTenants -> (Goroutines \X EngineTenants) \cup {None}]
    BY <1>2, <1>3, <1>4
  <2> QED BY <1>2, <2>1 DEF EngineInv, EngineTypeOK
<1>9. TasksSet'
  BY <1>2, <1>3 DEF EngineInv, TasksSet
<1>10. OneState'
  <2>1. \A u \in EngineTenants : tenants'[u] # None => tenants'[u][2] = u /\ tenants'[u] \in DOMAIN states'
    <3> SUFFICES ASSUME NEW u \in EngineTenants, tenants'[u] # None
                 PROVE  tenants'[u][2] = u /\ tenants'[u] \in DOMAIN states'
      OBVIOUS
    <3>1. CASE u = t
      BY <1>4, <1>6, <1>7, <3>1
    <3>2. CASE u # t
      BY <1>6, <1>7, <3>2 DEF EngineInv, OneState
    <3> QED BY <3>1, <3>2
  <2>2. \A k \in DOMAIN states' : k \in Goroutines \X EngineTenants /\ tenants'[k[2]] = k
    <3> SUFFICES ASSUME NEW k \in DOMAIN states' PROVE k \in Goroutines \X EngineTenants /\ tenants'[k[2]] = k
      OBVIOUS
    <3>1. CASE k = id
      BY <1>4, <1>6, <3>1
    <3>2. CASE k # id
      <4>1. k \in Goroutines \X EngineTenants /\ tenants[k[2]] = k
        BY <1>7, <3>2 DEF EngineInv, OneState
      <4>2. k[2] \in EngineTenants /\ k # None
        BY <4>1, EngineAssumption DEF Goroutines
      <4> QED BY <1>6, <4>1, <4>2
    <3> QED BY <3>1, <3>2
  <2> QED BY <2>1, <2>2 DEF OneState
<1>11. HeldIsRegistered'
  <2> SUFFICES ASSUME NEW h \in Goroutines, at'[h] \notin {"idle", "insert"}
               PROVE  held'[h] = tenants'[task[h].tenant] /\ held'[h] # None
    BY <1>2 DEF HeldIsRegistered
  <2>1. CASE h = g
    BY <1>1, <1>2, <1>3, <1>4, <1>6, <2>1
  <2>2. CASE h # g
    <3>1. at[h] \notin {"idle", "insert"} /\ held'[h] = held[h]
      BY <1>2, <1>3, <2>2
    <3>2. held[h] = tenants[task[h].tenant] /\ held[h] # None /\ task[h].tenant \in EngineTenants
      BY <3>1 DEF EngineInv, HeldIsRegistered, TasksSet
    <3> QED BY <1>6, <3>1, <3>2
  <2> QED BY <2>1, <2>2
<1>12. ASSUME NEW u \in EngineTenants PROVE Total(u)' = Total(u) /\ AdmittedFor(u)' = AdmittedFor(u)
  <2>1. AdmittedFor(u)' = AdmittedFor(u)
    BY <1>2 DEF AdmittedFor
  <2>2. CASE tenants[u] # None
    <3>1. tenants'[u] = tenants[u] /\ tenants[u] \in DOMAIN states
      BY <1>6, <2>2 DEF EngineInv, OneState
    <3> QED BY <1>7, <2>1, <2>2, <3>1 DEF Total
  <2>3. CASE tenants[u] = None /\ u = t
    <3>1. states'[id] = newTenantState /\ tenants'[u] = id
      BY <1>5, <1>6, <1>7, <2>3
    <3> QED BY <1>4, <2>1, <2>3, <3>1 DEF Total, newTenantState
  <2>4. CASE tenants[u] = None /\ u # t
    BY <1>6, <2>1, <2>4 DEF Total
  <2> QED BY <2>2, <2>3, <2>4
<1>13. TotalsExact'
  <2>1. \A k \in DOMAIN states' : "total" \in DOMAIN states'[k] /\ states'[k].total \in Nat
    BY <1>7 DEF EngineInv, TotalsExact, newTenantState
  <2> QED BY <1>12, <2>1 DEF EngineInv, TotalsExact
<1> QED BY <1>6, <1>8, <1>9, <1>10, <1>11, <1>12, <1>13, TotalIsNat DEF EngineInv, EngineGrows

(* An entry is counted in the state that is registered for its tenant.      *)
LEMMA AdmitKeeps == ASSUME EngineInv, NEW g \in Ingesters, Admit(g) PROVE EngineInv' /\ EngineGrows
<1>1. at[g] = "use" /\ g \in Goroutines
  BY DEF Admit, Goroutines
<1>2. PICK e \in Entries : e = task[g] /\ e.tenant \in EngineTenants
  BY <1>1 DEF EngineInv, TasksSet
<1>3. PICK id \in DOMAIN states : id = held[g] /\ id = tenants[e.tenant] /\ id # None
  BY <1>1, <1>2 DEF EngineInv, HeldIsRegistered, OneState
<1>4. PICK patterns, by :
      /\ states' = [states EXCEPT ![id] = Ingested(@, e, patterns, by)]
      /\ admitted' = Append(admitted, e) /\ UNCHANGED tenants
      /\ task' = [task EXCEPT ![g] = None] /\ held' = [held EXCEPT ![g] = None]
      /\ at' = [at EXCEPT ![g] = "idle"]
  BY <1>2, <1>3 DEF Admit, Goes
<1>5. /\ DOMAIN at = Goroutines /\ DOMAIN task = Goroutines /\ DOMAIN held = Goroutines
      /\ admitted \in Seq(Entries)
  BY DEF EngineInv, EngineTypeOK
<1>6. DOMAIN states' = DOMAIN states /\ \A k \in DOMAIN states : k # id => states'[k] = states[k]
  BY <1>4
<1>7. states'[id] = Ingested(states[id], e, patterns, by)
  BY <1>4
<1>8. "total" \in DOMAIN states'[id] /\ states'[id].total = states[id].total + 1
  BY <1>7, IngestedTotal DEF EngineInv, TotalsExact
<1>9. \A t : AdmittedFor(t)' = IF e.tenant = t THEN AdmittedFor(t) + 1 ELSE AdmittedFor(t)
  BY <1>4, <1>5, AdmittedAppended
<1>10. ASSUME NEW t \in EngineTenants
       PROVE  Total(t)' = IF e.tenant = t THEN Total(t) + 1 ELSE Total(t)
  <2>1. CASE t = e.tenant
    BY <1>3, <1>4, <1>8, <2>1 DEF Total
  <2>2. CASE t # e.tenant
    <3>1. tenants[t] # None => tenants[t] \in DOMAIN states /\ tenants[t] # id
      BY <1>2, <1>3, <2>2 DEF EngineInv, OneState
    <3> QED BY <1>4, <1>6, <2>2, <3>1 DEF Total
  <2> QED BY <2>1, <2>2
<1>11. TotalsExact'
  <2>1. \A k \in DOMAIN states' : "total" \in DOMAIN states'[k] /\ states'[k].total \in Nat
    <3> SUFFICES ASSUME NEW k \in DOMAIN states PROVE "total" \in DOMAIN states'[k] /\ states'[k].total \in Nat
      BY <1>6
    <3>1. /\ "total" \in DOMAIN states[k] /\ states[k].total \in Nat /\ states[id].total \in Nat
      BY DEF EngineInv, TotalsExact
    <3> QED BY <1>6, <1>8, <3>1
  <2>2. \A t \in EngineTenants : Total(t)' = AdmittedFor(t)'
    BY <1>9, <1>10 DEF EngineInv, TotalsExact
  <2> QED BY <2>1, <2>2 DEF TotalsExact
<1>12. EngineTypeOK'
  <2>1. admitted' \in Seq(Entries)
    BY <1>4, <1>5, AppendProperties
  <2> QED BY <1>4, <1>5, <2>1 DEF EngineInv, EngineTypeOK
<1>13. \A h \in Goroutines : at'[h] # "idle" => at'[h] = at[h] /\ task'[h] = task[h] /\ held'[h] = held[h]
  BY <1>4, <1>5
<1>14. TasksSet' /\ OneState' /\ HeldIsRegistered'
  BY <1>4, <1>6, <1>13 DEF EngineInv, TasksSet, OneState, HeldIsRegistered
<1>15. EngineGrows
  BY <1>4, <1>10, TotalIsNat DEF EngineGrows
<1> QED BY <1>11, <1>12, <1>14, <1>15 DEF EngineInv

LEMMA EngineInductive == EngineInv /\ [EngineNext]_engineVars => EngineInv' /\ EngineGrows
<1> SUFFICES ASSUME EngineInv, [EngineNext]_engineVars PROVE EngineInv' /\ EngineGrows
  OBVIOUS
<1>1. CASE UNCHANGED engineVars
  <2>1. UNCHANGED <<tenants, states, at, task, held, answer, admitted>>
    BY <1>1 DEF engineVars
  <2>2. EngineTypeOK' /\ OneState' /\ TotalsExact' /\ EngineGrows
    BY <2>1, StatesStand DEF EngineInv, EngineTypeOK
  <2> QED BY <2>1, <2>2 DEF EngineInv, TasksSet, HeldIsRegistered
<1> QED BY <1>1, CallKeeps, AskKeeps, LookKeeps, InsertKeeps, AdmitKeeps DEF EngineNext, Goroutines

-----------------------------------------------------------------------------
(* The hub. *)

Connections == [tenant : EngineTenants, open : BOOLEAN, pump : {"runs", "ends", "done"}]
Counters    == [tenant : EngineTenants, total : Nat]

HubTypeOK ==
  /\ clients \subseteq Clients /\ closed \subseteq Clients
  /\ conn \in [Clients -> Connections \cup {None}]
  /\ send \in [Clients -> Seq(Counters)] /\ got \in [Clients -> Seq(Counters)]
  /\ lastCount \in [EngineTenants -> Nat]
  /\ update \in Counters \cup {None}
  /\ round # None => \A t \in round : t \in EngineTenants /\ tenants[t] # None

(* A registered client has an open channel, and a client connects once, so  *)
(* a channel that was closed is never registered again.                     *)
ClosedOnce ==
  /\ ~panicked
  /\ clients \cap closed = {}
  /\ \A c \in clients \cup closed : Connected(c)

(* What the broadcaster last saw is no more than there is, and what it is   *)
(* about to send is what it last saw.                                       *)
SeenIsReached ==
  /\ \A t \in EngineTenants : lastCount[t] <= Total(t)
  /\ update # None => update.total = lastCount[update.tenant] /\ update.total >= 1

(* A message on its way to c: its tenant's, seen, and older than the next.  *)
Due(c, m) ==
  /\ m.tenant = conn[c].tenant
  /\ m.total \in 1..lastCount[m.tenant]
  /\ update # None /\ update.tenant = m.tenant => m.total < update.total

Feeding(c) ==
  /\ ~Connected(c) => got[c] = <<>> /\ send[c] = <<>>
  /\ Increasing(got[c]) /\ Increasing(send[c])
  /\ \A i \in DOMAIN got[c], j \in DOMAIN send[c] : got[c][i].total < send[c][j].total
  /\ \A i \in DOMAIN got[c] : Due(c, got[c][i])
  /\ \A j \in DOMAIN send[c] : Due(c, send[c][j])

FeedInv == HubTypeOK /\ ClosedOnce /\ SeenIsReached /\ \A c \in Clients : Feeding(c)
HubInv  == EngineInv /\ FeedInv

LEMMA HubInitial == EngineInit /\ HubInit => HubInv
<1> SUFFICES ASSUME EngineInit, HubInit PROVE HubInv
  OBVIOUS
<1>1. EngineInv
  BY EngineInitial
<1>2. HubTypeOK
  BY DEF HubInit, HubTypeOK
<1>3. ClosedOnce
  BY DEF HubInit, ClosedOnce
<1>4. SeenIsReached
  BY <1>1, TotalIsNat DEF HubInit, SeenIsReached
<1>5. \A c \in Clients : Feeding(c)
  BY DEF HubInit, Feeding, Increasing
<1> QED BY <1>1, <1>2, <1>3, <1>4, <1>5 DEF HubInv, FeedInv

(* Rising counters stay so at either end of a channel.                      *)
LEMMA IncreasingTail ==
  ASSUME NEW s \in Seq(Counters), s # <<>>, Increasing(s)
  PROVE  /\ Tail(s) \in Seq(Counters) /\ Increasing(Tail(s)) /\ Head(s) = s[1] /\ 1 \in DOMAIN s
         /\ \A j \in DOMAIN Tail(s) : j + 1 \in DOMAIN s /\ Tail(s)[j] = s[j + 1] /\ s[1].total < s[j + 1].total
<1>1. /\ Tail(s) \in Seq(Counters) /\ Head(s) = s[1]
      /\ DOMAIN s = 1..Len(s) /\ Len(s) \in Nat \ {0}
      /\ DOMAIN Tail(s) = 1..(Len(s) - 1)
      /\ \A j \in 1..(Len(s) - 1) : Tail(s)[j] = s[j + 1]
  BY HeadTailProperties
<1>2. ASSUME NEW j \in DOMAIN Tail(s)
      PROVE  j + 1 \in DOMAIN s /\ 1 \in DOMAIN s /\ j \in Nat /\ Tail(s)[j] = s[j + 1] /\ 1 < j + 1
  BY <1>1
<1>3. \A i, j \in DOMAIN s : i < j => s[i].total < s[j].total
  BY DEF Increasing
<1>4. \A j \in DOMAIN Tail(s) : s[1].total < s[j + 1].total
  BY <1>2, <1>3
<1>5. ASSUME NEW i \in DOMAIN Tail(s), NEW j \in DOMAIN Tail(s), i < j
      PROVE  Tail(s)[i].total < Tail(s)[j].total
  <2>1. i + 1 \in DOMAIN s /\ j + 1 \in DOMAIN s /\ i + 1 < j + 1
    BY <1>2, <1>5
  <2> QED BY <1>2, <1>3, <2>1
<1> QED BY <1>1, <1>2, <1>4, <1>5 DEF Increasing

LEMMA IncreasingAppend ==
  ASSUME NEW s \in Seq(Counters), NEW m \in Counters, Increasing(s),
         \A i \in DOMAIN s : s[i].total < m.total
  PROVE  /\ Append(s, m) \in Seq(Counters) /\ Increasing(Append(s, m))
         /\ \A j \in DOMAIN Append(s, m) :
              Append(s, m)[j] = m \/ (j \in DOMAIN s /\ Append(s, m)[j] = s[j])
<1>1. /\ Append(s, m) \in Seq(Counters) /\ Len(s) \in Nat /\ DOMAIN s = 1..Len(s)
      /\ DOMAIN Append(s, m) = 1..(Len(s) + 1) /\ Append(s, m)[Len(s) + 1] = m
      /\ \A j \in 1..Len(s) : Append(s, m)[j] = s[j]
  BY AppendProperties
<1>2. \A j \in DOMAIN Append(s, m) : j = Len(s) + 1 \/ j \in 1..Len(s)
  BY <1>1
<1>3. ASSUME NEW i \in DOMAIN Append(s, m), NEW j \in DOMAIN Append(s, m), i < j
      PROVE  Append(s, m)[i].total < Append(s, m)[j].total
  <2>1. i \in 1..Len(s)
    BY <1>1, <1>3
  <2>2. CASE j = Len(s) + 1
    BY <1>1, <2>1, <2>2
  <2>3. CASE j \in 1..Len(s)
    BY <1>1, <1>3, <2>1, <2>3 DEF Increasing
  <2> QED BY <1>2, <2>2, <2>3
<1> QED BY <1>1, <1>2, <1>3 DEF Increasing

(* A step that leaves c's messages and tenant alone, and the broadcaster.   *)
LEMMA FeedStands ==
  ASSUME FeedInv, NEW c \in Clients, send'[c] = send[c], got'[c] = got[c], UNCHANGED <<update, lastCount>>,
         Connected(c) => Connected(c)' /\ conn'[c].tenant = conn[c].tenant
  PROVE  Feeding(c)'
<1>1. \A m : Connected(c) /\ Due(c, m) => Due(c, m)'
  BY DEF Due
<1>2. Feeding(c)
  BY DEF FeedInv
<1>3. CASE Connected(c)
  BY <1>1, <1>2, <1>3 DEF Feeding, Increasing
<1>4. CASE ~Connected(c)
  BY <1>2, <1>4 DEF Feeding, Increasing
<1> QED BY <1>3, <1>4

LEMMA FeedMoves ==
  ASSUME NEW c \in Clients, NEW q, NEW s, got'[c] = q, send'[c] = s, Connected(c)',
         Increasing(q), Increasing(s), \A i \in DOMAIN q, j \in DOMAIN s : q[i].total < s[j].total,
         \A i \in DOMAIN q : Due(c, q[i])', \A j \in DOMAIN s : Due(c, s[j])'
  PROVE  Feeding(c)'
BY DEF Feeding, Increasing

LEMMA ConnectKeeps == ASSUME HubInv, NEW c \in Clients, Connect(c), UNCHANGED engineVars PROVE FeedInv'
<1>1. /\ UNCHANGED <<send, closed, panicked, round, update, lastCount, got, tenants, states>>
      /\ clients' = clients \cup {c} /\ conn[c] = None
  BY DEF Connect, broadcasterVars, engineVars
<1>2. PICK t \in EngineTenants : conn' = [conn EXCEPT ![c] = [tenant |-> t, open |-> TRUE, pump |-> "runs"]]
  BY EngineAssumption DEF Connect, resolveTenant
<1>3. HubTypeOK
  BY DEF HubInv, FeedInv
<1>4. /\ conn' \in [Clients -> Connections \cup {None}] /\ conn'[c] # None
      /\ \A d \in Clients : d # c => conn'[d] = conn[d]
  <2>1. PICK k \in Connections : k = [tenant |-> t, open |-> TRUE, pump |-> "runs"]
    BY DEF Connections
  <2>2. conn' = [conn EXCEPT ![c] = k] /\ k # None
    BY <1>2, <2>1, HubAssumption DEF Connections
  <2> QED BY <1>3, <2>2 DEF HubTypeOK
<1>5. HubTypeOK'
  BY <1>1, <1>3, <1>4 DEF HubTypeOK
<1>6. ClosedOnce'
  BY <1>1, <1>3, <1>4 DEF HubInv, FeedInv, ClosedOnce, Connected, HubTypeOK
<1>7. SeenIsReached'
  BY <1>1 DEF HubInv, FeedInv, SeenIsReached, Total
<1>8. \A d \in Clients : Feeding(d)'
  <2> SUFFICES ASSUME NEW d \in Clients PROVE Feeding(d)'
    OBVIOUS
  <2>1. Connected(d) => Connected(d)' /\ conn'[d].tenant = conn[d].tenant
    BY <1>1, <1>4 DEF Connected
  <2>2. send'[d] = send[d] /\ got'[d] = got[d] /\ UNCHANGED <<update, lastCount>>
    BY <1>1
  <2> QED BY <2>1, <2>2, FeedStands DEF HubInv
<1> QED BY <1>5, <1>6, <1>7, <1>8 DEF FeedInv

(* The reader's failure and the pump's end change the connection alone.     *)
LEMMA EndsKeep ==
  ASSUME HubInv, NEW c \in Clients, Disconnect(c) \/ PumpEnds(c), UNCHANGED engineVars PROVE FeedInv'
<1>1. /\ UNCHANGED <<clients, send, closed, panicked, round, update, lastCount, got, tenants, states>>
      /\ Connected(c)
      /\ conn' = [conn EXCEPT ![c].open = FALSE] \/ conn' = [conn EXCEPT ![c].pump = "ends"]
  BY DEF Disconnect, PumpEnds, Pumping, broadcasterVars, engineVars
<1>2. HubTypeOK
  BY DEF HubInv, FeedInv
<1>3. PICK k \in Connections : conn[c] = k
  BY <1>1, <1>2 DEF HubTypeOK, Connected
<1>4. /\ conn'[c] \in Connections /\ conn'[c].tenant = k.tenant
      /\ \A d \in Clients : d # c => conn'[d] = conn[d]
  <2>1. \A d \in Clients : d # c => conn'[d] = conn[d]
    BY <1>1, <1>2 DEF HubTypeOK
  <2>2. conn'[c] = [k EXCEPT !.open = FALSE] \/ conn'[c] = [k EXCEPT !.pump = "ends"]
    BY <1>1, <1>2, <1>3 DEF HubTypeOK
  <2>3. /\ [k EXCEPT !.open = FALSE] \in Connections /\ [k EXCEPT !.open = FALSE].tenant = k.tenant
        /\ [k EXCEPT !.pump = "ends"] \in Connections /\ [k EXCEPT !.pump = "ends"].tenant = k.tenant
    BY DEF Connections
  <2> QED BY <2>1, <2>2, <2>3
<1>5. conn' \in [Clients -> Connections \cup {None}]
  BY <1>1, <1>2, <1>4 DEF HubTypeOK
<1>6. \A d \in Clients : Connected(d) => Connected(d)' /\ conn'[d].tenant = conn[d].tenant
  BY <1>3, <1>4, HubAssumption DEF Connected, Connections
<1>7. HubTypeOK'
  BY <1>1, <1>2, <1>5 DEF HubTypeOK
<1>8. ClosedOnce'
  BY <1>1, <1>2, <1>6 DEF HubInv, FeedInv, ClosedOnce, HubTypeOK
<1>9. SeenIsReached'
  BY <1>1 DEF HubInv, FeedInv, SeenIsReached, Total
<1>10. ASSUME NEW d \in Clients PROVE Feeding(d)'
  <2>1. send'[d] = send[d] /\ got'[d] = got[d] /\ UNCHANGED <<update, lastCount>>
    BY <1>1
  <2> QED BY <1>6, <2>1, FeedStands DEF HubInv
<1> QED BY <1>7, <1>8, <1>9, <1>10 DEF FeedInv

(* What has been taken out of a channel was older than what is left.        *)
LEMMA PumpKeeps == ASSUME HubInv, NEW c \in Clients, Pump(c), UNCHANGED engineVars PROVE FeedInv'
<1>1. /\ UNCHANGED <<clients, closed, panicked, round, update, lastCount, tenants, states>>
      /\ Connected(c) /\ send[c] # <<>> /\ send' = [send EXCEPT ![c] = Tail(send[c])]
      /\ \/ got' = [got EXCEPT ![c] = <<Head(send[c])>>] /\ conn' = conn
         \/ conn' = [conn EXCEPT ![c].pump = "ends"] /\ got' = got
  BY DEF Pump, Pumping, broadcasterVars, engineVars
<1>2. HubTypeOK
  BY DEF HubInv, FeedInv
<1>3. PICK k \in Connections : conn[c] = k
  BY <1>1, <1>2 DEF HubTypeOK, Connected
<1>4. PICK s \in Seq(Counters) : s = send[c] /\ s # <<>>
  BY <1>1, <1>2 DEF HubTypeOK
<1>5. /\ conn' \in [Clients -> Connections \cup {None}] /\ conn'[c] # None /\ conn'[c].tenant = k.tenant
      /\ \A d \in Clients : d # c => conn'[d] = conn[d]
  <2>1. \A d \in Clients : d # c => conn'[d] = conn[d]
    BY <1>1, <1>2 DEF HubTypeOK
  <2>2. conn'[c] = k \/ conn'[c] = [k EXCEPT !.pump = "ends"]
    BY <1>1, <1>2, <1>3 DEF HubTypeOK
  <2>3. [k EXCEPT !.pump = "ends"] \in Connections /\ [k EXCEPT !.pump = "ends"].tenant = k.tenant
    BY DEF Connections
  <2>4. conn'[c] \in Connections
    BY <2>2, <2>3
  <2> QED BY <1>1, <1>2, <2>1, <2>2, <2>3, <2>4, HubAssumption DEF HubTypeOK, Connections
<1>6. \A d \in Clients : Connected(d) => Connected(d)' /\ conn'[d].tenant = conn[d].tenant
  BY <1>3, <1>5 DEF Connected
<1>7. Feeding(c)
  BY DEF HubInv, FeedInv
<1>8. /\ Tail(s) \in Seq(Counters) /\ Increasing(Tail(s)) /\ Head(s) = s[1] /\ 1 \in DOMAIN s
      /\ \A j \in DOMAIN Tail(s) : j + 1 \in DOMAIN s /\ Tail(s)[j] = s[j + 1] /\ s[1].total < s[j + 1].total
  BY <1>4, <1>7, IncreasingTail DEF Feeding
<1>9. /\ send'[c] = Tail(s) /\ \A d \in Clients : d # c => send'[d] = send[d] /\ got'[d] = got[d]
      /\ got'[c] = <<s[1]>> \/ got'[c] = got[c]
  BY <1>1, <1>2, <1>4, <1>8 DEF HubTypeOK
<1>10. HubTypeOK'
  <2>1. s[1] \in Counters
    BY <1>8
  <2>2. <<s[1]>> \in Seq(Counters)
    BY <2>1
  <2>3. send' \in [Clients -> Seq(Counters)] /\ got' \in [Clients -> Seq(Counters)]
    <3>1. send' = [send EXCEPT ![c] = Tail(s)] /\ (got' = [got EXCEPT ![c] = <<s[1]>>] \/ got' = got)
      BY <1>1, <1>4, <1>8
    <3>2. Tail(s) \in Seq(Counters)
      BY <1>8
    <3> QED BY <1>2, <2>2, <3>1, <3>2 DEF HubTypeOK
  <2> QED BY <1>1, <1>2, <1>5, <2>3 DEF HubTypeOK
<1>11. ClosedOnce'
  BY <1>1, <1>2, <1>6 DEF HubInv, FeedInv, ClosedOnce, HubTypeOK
<1>12. SeenIsReached'
  BY <1>1 DEF HubInv, FeedInv, SeenIsReached, Total
<1>13. \A m : Due(c, m) => Due(c, m)'
  BY <1>1, <1>3, <1>5 DEF Due
<1>14. Feeding(c)'
  <2>1. PICK q : q = got[c]
    OBVIOUS
  <2>2. /\ Connected(c)' /\ \A j \in DOMAIN Tail(s) : Due(c, Tail(s)[j])'
    BY <1>1, <1>4, <1>6, <1>7, <1>8, <1>13 DEF Feeding
  <2>3. CASE got'[c] = q
    <3>1. Increasing(q) /\ \A i \in DOMAIN q : Due(c, q[i])'
      BY <1>7, <1>13, <2>1 DEF Feeding
    <3>2. \A i \in DOMAIN q, j \in DOMAIN Tail(s) : q[i].total < Tail(s)[j].total
      BY <1>4, <1>7, <1>8, <2>1 DEF Feeding
    <3> QED BY <1>8, <1>9, <2>2, <2>3, <3>1, <3>2, FeedMoves
  <2>4. CASE got'[c] = <<s[1]>>
    <3>1. PICK p : p = <<s[1]>>
      OBVIOUS
    <3>2. DOMAIN p = {1} /\ p[1] = s[1]
      BY <3>1
    <3>3. Increasing(p)
      BY <3>2 DEF Increasing
    <3>4. \A i \in DOMAIN p : Due(c, p[i])'
      BY <1>4, <1>7, <1>8, <1>13, <3>2 DEF Feeding
    <3>5. \A i \in DOMAIN p, j \in DOMAIN Tail(s) : p[i].total < Tail(s)[j].total
      BY <1>8, <3>2
    <3> QED BY <1>8, <1>9, <2>2, <2>4, <3>1, <3>3, <3>4, <3>5, FeedMoves
  <2> QED BY <1>9, <2>1, <2>3, <2>4
<1>15. ASSUME NEW d \in Clients, d # c PROVE Feeding(d)'
  <2>1. send'[d] = send[d] /\ got'[d] = got[d] /\ UNCHANGED <<update, lastCount>>
    BY <1>1, <1>9, <1>15
  <2> QED BY <1>6, <2>1, FeedStands DEF HubInv
<1> QED BY <1>10, <1>11, <1>12, <1>14, <1>15 DEF FeedInv

(* A channel is closed by whoever takes the client out of the map.          *)
LEMMA UnregisterKeeps ==
  ASSUME HubInv, NEW c \in Clients, Unregister(c), UNCHANGED engineVars PROVE FeedInv'
<1>1. /\ UNCHANGED <<send, round, update, lastCount, tenants, states>>
      /\ Connected(c) /\ closed' = closed \cup (clients \cap {c}) /\ clients' = clients \ (clients \cap {c})
      /\ panicked' = (panicked \/ (clients \cap {c}) \cap closed # {})
      /\ conn' = [conn EXCEPT ![c].pump = "done", ![c].open = FALSE]
      /\ got' = [got EXCEPT ![c] = <<>>]
  BY DEF Unregister, Close, ToUnregister, broadcasterVars, engineVars
<1>2. HubTypeOK
  BY DEF HubInv, FeedInv
<1>3. PICK k \in Connections : conn[c] = k
  BY <1>1, <1>2 DEF HubTypeOK, Connected
<1>4. /\ conn' \in [Clients -> Connections \cup {None}] /\ conn'[c] # None /\ conn'[c].tenant = k.tenant
      /\ \A d \in Clients : d # c => conn'[d] = conn[d]
  <2>1. \A d \in Clients : d # c => conn'[d] = conn[d]
    BY <1>1, <1>2 DEF HubTypeOK
  <2>2. conn'[c] = [k EXCEPT !.pump = "done", !.open = FALSE]
    BY <1>1, <1>2, <1>3 DEF HubTypeOK
  <2>3. /\ [k EXCEPT !.pump = "done", !.open = FALSE] \in Connections
        /\ [k EXCEPT !.pump = "done", !.open = FALSE].tenant = k.tenant
    BY DEF Connections
  <2> QED BY <1>1, <1>2, <2>1, <2>2, <2>3, HubAssumption DEF HubTypeOK, Connections
<1>5. \A d \in Clients : Connected(d) => Connected(d)' /\ conn'[d].tenant = conn[d].tenant
  BY <1>3, <1>4 DEF Connected
<1>6. HubTypeOK'
  <2>1. clients' \subseteq Clients /\ closed' \subseteq Clients
    BY <1>1, <1>2 DEF HubTypeOK
  <2>2. <<>> \in Seq(Counters)
    OBVIOUS
  <2>3. got' \in [Clients -> Seq(Counters)]
    BY <1>1, <1>2, <2>2 DEF HubTypeOK
  <2> QED BY <1>1, <1>2, <1>4, <2>1, <2>3 DEF HubTypeOK
<1>7. ClosedOnce'
  <2>1. ~panicked /\ clients \cap closed = {} /\ \A d \in clients \cup closed : Connected(d) /\ d \in Clients
    BY <1>2 DEF HubInv, FeedInv, ClosedOnce, HubTypeOK
  <2>2. ~panicked' /\ clients' \cap closed' = {}
    BY <1>1, <2>1
  <2> QED BY <1>1, <1>5, <2>1, <2>2 DEF ClosedOnce
<1>8. SeenIsReached'
  BY <1>1 DEF HubInv, FeedInv, SeenIsReached, Total
<1>9. Feeding(c)'
  <2>1. \A m : Due(c, m) => Due(c, m)'
    BY <1>1, <1>3, <1>4 DEF Due
  <2>2. got'[c] = <<>> /\ send'[c] = send[c] /\ Connected(c)'
    BY <1>1, <1>2, <1>5 DEF HubTypeOK
  <2>3. Feeding(c)
    BY DEF HubInv, FeedInv
  <2> QED BY <2>1, <2>2, <2>3 DEF Feeding, Increasing
<1>10. ASSUME NEW d \in Clients, d # c PROVE Feeding(d)'
  <2>1. send'[d] = send[d] /\ got'[d] = got[d] /\ UNCHANGED <<update, lastCount>>
    BY <1>1, <1>2, <1>10 DEF HubTypeOK
  <2> QED BY <1>5, <2>1, FeedStands DEF HubInv
<1> QED BY <1>6, <1>7, <1>8, <1>9, <1>10 DEF FeedInv

(* The end of the program, and the rounds of the broadcaster.               *)
LEMMA RoundsKeep ==
  ASSUME HubInv, End \/ RunReturns \/ StartBroadcasts \/ EndBroadcasts, UNCHANGED engineVars PROVE FeedInv'
<1>1. /\ UNCHANGED <<conn, send, update, lastCount, got, tenants, states>>
      /\ \/ UNCHANGED <<clients, closed, panicked>>
         \/ /\ clients' = {} /\ closed' = closed \cup clients
            /\ panicked' = (panicked \/ clients \cap closed # {})
      /\ round' # None /\ round' # round => \A t \in round' : t \in EngineTenants /\ tenants[t] # None
  BY DEF End, RunReturns, StartBroadcasts, EndBroadcasts, Close, broadcasterVars, engineVars
<1>2. HubTypeOK
  BY DEF HubInv, FeedInv
<1>3. HubTypeOK'
  BY <1>1, <1>2 DEF HubTypeOK
<1>4. ClosedOnce'
  <2>1. ~panicked /\ clients \cap closed = {} /\ \A d \in clients \cup closed : Connected(d)
    BY DEF HubInv, FeedInv, ClosedOnce
  <2>2. ~panicked' /\ clients' \cap closed' = {} /\ clients' \cup closed' \subseteq clients \cup closed
    <3>1. CASE UNCHANGED <<clients, closed, panicked>>
      BY <2>1, <3>1
    <3>2. CASE clients' = {} /\ closed' = closed \cup clients
                 /\ panicked' = (panicked \/ clients \cap closed # {})
      BY <2>1, <3>2
    <3> QED BY <1>1, <3>1, <3>2
  <2>3. \A d : Connected(d)' <=> Connected(d)
    BY <1>1 DEF Connected
  <2> QED BY <2>1, <2>2, <2>3 DEF ClosedOnce
<1>5. SeenIsReached'
  BY <1>1 DEF HubInv, FeedInv, SeenIsReached, Total
<1>6. ASSUME NEW d \in Clients PROVE Feeding(d)'
  <2>1. send'[d] = send[d] /\ got'[d] = got[d] /\ UNCHANGED <<update, lastCount>>
    BY <1>1
  <2>2. Connected(d) => Connected(d)' /\ conn'[d].tenant = conn[d].tenant
    BY <1>1 DEF Connected
  <2> QED BY <2>1, <2>2, FeedStands DEF HubInv
<1> QED BY <1>3, <1>4, <1>5, <1>6 DEF FeedInv

(* A total that is not the last one seen is newer than it, and so newer     *)
(* than every message on its way.                                           *)
LEMMA ReadKeeps == ASSUME HubInv, ReadStats, UNCHANGED engineVars PROVE FeedInv'
<1>1. /\ UNCHANGED <<clients, conn, send, closed, panicked, got, tenants, states>>
      /\ round # None /\ update = None
  BY DEF ReadStats, engineVars
<1>2. PICK t \in round :
        /\ round' = round \ {t}
        /\ lastCount' = [lastCount EXCEPT ![t] = states[tenants[t]].total]
        /\ update' = IF lastCount[t] = states[tenants[t]].total THEN None
                     ELSE [tenant |-> t, total |-> states[tenants[t]].total]
  BY DEF ReadStats
<1>3. HubTypeOK /\ EngineInv /\ SeenIsReached
  BY DEF HubInv, FeedInv
<1>4. t \in EngineTenants /\ tenants[t] # None
  BY <1>1, <1>3 DEF HubTypeOK
<1>5. PICK n \in Nat : n = states[tenants[t]].total /\ n = Total(t) /\ lastCount[t] <= n /\ lastCount[t] \in Nat
  BY <1>3, <1>4, TotalIsNat DEF Total, SeenIsReached, HubTypeOK
<1>6. /\ lastCount' \in [EngineTenants -> Nat] /\ lastCount'[t] = n
      /\ \A u \in EngineTenants : u # t => lastCount'[u] = lastCount[u]
      /\ \A u \in EngineTenants : lastCount[u] \in Nat /\ lastCount'[u] \in Nat /\ lastCount[u] <= lastCount'[u]
  BY <1>2, <1>3, <1>4, <1>5 DEF HubTypeOK
<1>7. PICK m \in Counters : m = [tenant |-> t, total |-> n]
  BY <1>4 DEF Counters
<1>8. update' = (IF lastCount[t] = n THEN None ELSE m) /\ m.tenant = t /\ m.total = n
  BY <1>2, <1>5, <1>7
<1>9. HubTypeOK'
  BY <1>1, <1>2, <1>3, <1>6, <1>8 DEF HubTypeOK
<1>10. ClosedOnce'
  BY <1>1 DEF HubInv, FeedInv, ClosedOnce, Connected
<1>11. SeenIsReached'
  <2>1. \A u \in EngineTenants : lastCount'[u] <= Total(u)'
    BY <1>1, <1>3, <1>5, <1>6 DEF SeenIsReached, Total
  <2>2. update' # None => update'.total = lastCount'[update'.tenant] /\ update'.total >= 1
    BY <1>5, <1>6, <1>8
  <2> QED BY <2>1, <2>2 DEF SeenIsReached
<1>12. ASSUME NEW c \in Clients, NEW x \in Counters, Due(c, x) PROVE Due(c, x)'
  <2>1. x.tenant = conn'[c].tenant /\ x.tenant \in EngineTenants /\ x.total \in 1..lastCount[x.tenant]
    BY <1>1, <1>12 DEF Due, Counters
  <2>2. x.total \in 1..lastCount'[x.tenant]
    BY <1>6, <2>1
  <2>3. update' # None /\ update'.tenant = x.tenant => x.total < update'.total
    BY <1>5, <1>8, <2>1
  <2> QED BY <2>1, <2>2, <2>3 DEF Due
<1>13. ASSUME NEW c \in Clients PROVE Feeding(c)'
  <2>1. /\ send'[c] = send[c] /\ got'[c] = got[c] /\ conn'[c] = conn[c]
        /\ \A j \in DOMAIN send[c] : send[c][j] \in Counters
        /\ \A i \in DOMAIN got[c] : got[c][i] \in Counters
    BY <1>1, <1>3 DEF HubTypeOK
  <2>2. Feeding(c)
    BY DEF HubInv, FeedInv
  <2> QED BY <1>12, <2>1, <2>2 DEF Feeding, Increasing, Connected
<1> QED BY <1>9, <1>10, <1>11, <1>13 DEF FeedInv

(* The message goes behind older ones, to clients of its tenant that have   *)
(* an open channel.                                                         *)
LEMMA BroadcastKeeps == ASSUME HubInv, Broadcast, UNCHANGED engineVars PROVE FeedInv'
<1>1. /\ UNCHANGED <<clients, conn, closed, round, lastCount, got, tenants, states>>
      /\ update # None /\ update' = None
  BY DEF Broadcast, engineVars
<1> DEFINE to == {c \in ClientsOf(update.tenant) : c \in closed \/ Len(send[c]) < SendDepth}
<1>2. /\ send' = [c \in Clients |-> IF c \in to \ closed THEN Append(send[c], update) ELSE send[c]]
      /\ panicked' = (panicked \/ to \cap closed # {})
  BY DEF Broadcast
<1>3. \A c \in to : c \in clients /\ conn[c].tenant = update.tenant
  BY DEF ClientsOf
<1> HIDE DEF to
<1>4. HubTypeOK /\ ClosedOnce /\ SeenIsReached
  BY DEF HubInv, FeedInv
<1>5. PICK m \in Counters : m = update
  BY <1>1, <1>4 DEF HubTypeOK
<1>6. m.tenant \in EngineTenants /\ m.total \in 1..lastCount[m.tenant]
  BY <1>1, <1>4, <1>5 DEF SeenIsReached, HubTypeOK, Counters
<1>7. ClosedOnce'
  <2>1. ~panicked'
    BY <1>2, <1>3, <1>4 DEF ClosedOnce
  <2> QED BY <1>1, <1>4, <2>1 DEF ClosedOnce, Connected
<1>8. SeenIsReached'
  BY <1>1, <1>4 DEF SeenIsReached, Total
<1>9. ASSUME NEW c \in Clients
      PROVE  send'[c] \in Seq(Counters) /\ Feeding(c)'
  <2>1. \A x : Due(c, x) => Due(c, x)'
    BY <1>1 DEF Due
  <2>2. Feeding(c) /\ got'[c] = got[c] /\ conn'[c] = conn[c] /\ send[c] \in Seq(Counters)
    BY <1>1, <1>4 DEF HubInv, FeedInv, HubTypeOK
  <2>3. CASE c \in to \ closed
    <3>1. /\ Connected(c) /\ m.tenant = conn[c].tenant /\ send'[c] = Append(send[c], m)
      BY <1>2, <1>3, <1>4, <1>5, <2>3 DEF ClosedOnce
    <3>2. \A j \in DOMAIN send[c] : send[c][j].total < m.total
      BY <1>1, <1>5, <2>2, <3>1 DEF Feeding, Due
    <3>3. \A i \in DOMAIN got[c] : got[c][i].total < m.total
      BY <1>1, <1>5, <2>2, <3>1 DEF Feeding, Due
    <3>4. PICK p \in Seq(Counters) : p = send[c]
      BY <2>2
    <3>5. PICK q : q = got[c]
      OBVIOUS
    <3>6. /\ Append(p, m) \in Seq(Counters) /\ Increasing(Append(p, m))
          /\ \A j \in DOMAIN Append(p, m) :
               Append(p, m)[j] = m \/ (j \in DOMAIN p /\ Append(p, m)[j] = p[j])
      BY <2>2, <3>2, <3>4, IncreasingAppend DEF Feeding
    <3>7. Connected(c)' /\ Due(c, m)'
      BY <1>1, <1>6, <2>2, <3>1 DEF Due, Connected
    <3>8. Increasing(q) /\ \A i \in DOMAIN q : Due(c, q[i])'
      BY <2>1, <2>2, <3>5 DEF Feeding
    <3>9. \A j \in DOMAIN Append(p, m) : Due(c, Append(p, m)[j])'
      BY <2>1, <2>2, <3>4, <3>6, <3>7 DEF Feeding
    <3>10. \A i \in DOMAIN q, j \in DOMAIN Append(p, m) : q[i].total < Append(p, m)[j].total
      BY <2>2, <3>3, <3>4, <3>5, <3>6 DEF Feeding
    <3>11. send'[c] = Append(p, m) /\ got'[c] = q
      BY <2>2, <3>1, <3>4, <3>5
    <3> QED BY <3>6, <3>7, <3>8, <3>9, <3>10, <3>11, FeedMoves
  <2>4. CASE c \notin to \ closed
    <3>1. send'[c] = send[c]
      BY <1>2, <2>4
    <3> QED BY <2>1, <2>2, <3>1 DEF Feeding, Increasing, Connected
  <2> QED BY <2>3, <2>4
<1>10. HubTypeOK'
  <2>1. send' \in [Clients -> Seq(Counters)]
    BY <1>2, <1>9
  <2> QED BY <1>1, <1>4, <2>1 DEF HubTypeOK
<1> QED BY <1>7, <1>8, <1>9, <1>10 DEF FeedInv

(* The engine's totals only grow, and its tenants stay.                     *)
LEMMA EngineStepKeeps == ASSUME HubInv, EngineGrows, UNCHANGED hubVars PROVE FeedInv'
<1>1. UNCHANGED <<clients, conn, send, closed, panicked, round, update, lastCount, got>>
  BY DEF hubVars
<1>2. HubTypeOK'
  BY <1>1 DEF HubInv, FeedInv, HubTypeOK, EngineGrows
<1>3. ClosedOnce'
  BY <1>1 DEF HubInv, FeedInv, ClosedOnce, Connected
<1>4. SeenIsReached'
  <2>1. ASSUME NEW t \in EngineTenants PROVE lastCount[t] <= Total(t)'
    <3>1. lastCount[t] \in Nat /\ lastCount[t] <= Total(t)
      BY DEF HubInv, FeedInv, HubTypeOK, SeenIsReached
    <3>2. Total(t) \in Nat /\ Total(t)' \in Nat /\ Total(t) <= Total(t)'
      BY DEF EngineGrows
    <3> QED BY <3>1, <3>2
  <2> QED BY <1>1, <2>1 DEF HubInv, FeedInv, SeenIsReached
<1>5. ASSUME NEW d \in Clients PROVE Feeding(d)'
  <2>1. send'[d] = send[d] /\ got'[d] = got[d] /\ UNCHANGED <<update, lastCount>>
    BY <1>1
  <2>2. Connected(d) => Connected(d)' /\ conn'[d].tenant = conn[d].tenant
    BY <1>1 DEF Connected
  <2> QED BY <2>1, <2>2, FeedStands DEF HubInv
<1> QED BY <1>2, <1>3, <1>4, <1>5 DEF FeedInv

LEMMA HubInductive == HubInv /\ [HubNext]_<<engineVars, hubVars>> => HubInv'
<1> SUFFICES ASSUME HubInv, [HubNext]_<<engineVars, hubVars>> PROVE HubInv'
  OBVIOUS
<1>1. CASE HubStep /\ UNCHANGED engineVars
  <2>1. EngineInv'
    BY <1>1, EngineInductive DEF HubInv
  <2>2. FeedInv'
    BY <1>1, ConnectKeeps, EndsKeep, PumpKeeps, UnregisterKeeps, RoundsKeep, ReadKeeps, BroadcastKeeps
       DEF HubStep
  <2> QED BY <2>1, <2>2 DEF HubInv
<1>2. CASE [EngineNext]_engineVars /\ UNCHANGED hubVars
  <2>1. EngineInv' /\ EngineGrows
    BY <1>2, EngineInductive DEF HubInv
  <2>2. FeedInv'
    BY <1>2, <2>1, EngineStepKeeps
  <2> QED BY <2>1, <2>2 DEF HubInv
<1> QED BY <1>1, <1>2 DEF HubNext

(* What a client has been sent and what is on its way, one after the other. *)
LEMMA FeedIsSound ==
  ASSUME HubInv, NEW c \in Clients, Connected(c)
  PROVE  /\ Increasing(got[c] \o send[c])
         /\ \A i \in DOMAIN (got[c] \o send[c]) :
              /\ (got[c] \o send[c])[i].tenant = conn[c].tenant
              /\ (got[c] \o send[c])[i].total <= AdmittedFor(conn[c].tenant)
<1>1. PICK s \in Seq(Counters), q \in Seq(Counters) : s = got[c] /\ q = send[c]
  BY DEF HubInv, FeedInv, HubTypeOK
<1>2. Feeding(c)
  BY DEF HubInv, FeedInv
<1>3. PICK t \in EngineTenants : t = conn[c].tenant
  BY DEF HubInv, FeedInv, HubTypeOK, Connected, Connections
<1>4. AdmittedFor(t) \in Nat /\ lastCount[t] \in Nat /\ lastCount[t] <= AdmittedFor(t)
  BY TotalIsNat DEF HubInv, FeedInv, HubTypeOK, SeenIsReached, EngineInv, TotalsExact
<1>5. /\ s \o q \in Seq(Counters) /\ Len(s) \in Nat /\ Len(q) \in Nat
      /\ DOMAIN s = 1..Len(s) /\ DOMAIN q = 1..Len(q)
      /\ DOMAIN (s \o q) = 1..(Len(s) + Len(q))
      /\ \A i \in 1..(Len(s) + Len(q)) : (s \o q)[i] = IF i <= Len(s) THEN s[i] ELSE q[i - Len(s)]
  BY ConcatProperties
<1>6. ASSUME NEW i \in DOMAIN (s \o q)
      PROVE  /\ Due(c, (s \o q)[i])
             /\ \/ i \in DOMAIN s /\ (s \o q)[i] = s[i]
                \/ i > Len(s) /\ i - Len(s) \in DOMAIN q /\ (s \o q)[i] = q[i - Len(s)]
  <2>1. i \in 1..(Len(s) + Len(q))
    BY <1>5
  <2>2. CASE i <= Len(s)
    <3>1. i \in DOMAIN s /\ (s \o q)[i] = s[i]
      BY <1>5, <2>1, <2>2
    <3> QED BY <1>1, <1>2, <3>1 DEF Feeding
  <2>3. CASE i > Len(s)
    <3>1. i - Len(s) \in DOMAIN q /\ (s \o q)[i] = q[i - Len(s)]
      BY <1>5, <2>1, <2>3
    <3> QED BY <1>1, <1>2, <2>3, <3>1 DEF Feeding
  <2> QED BY <1>5, <2>1, <2>2, <2>3
<1>7. ASSUME NEW i \in DOMAIN (s \o q), NEW j \in DOMAIN (s \o q), i < j
      PROVE  (s \o q)[i].total < (s \o q)[j].total
  <2>1. i \in Nat /\ j \in Nat
    BY <1>5
  <2>2. CASE i \in DOMAIN s /\ j \in DOMAIN s
    <3>1. s[i].total < s[j].total
      BY <1>1, <1>2, <1>7, <2>2 DEF Feeding, Increasing
    <3> QED BY <1>5, <2>2, <3>1
  <2>3. CASE i \in DOMAIN s /\ j - Len(s) \in DOMAIN q
    <3>1. s[i].total < q[j - Len(s)].total
      BY <1>1, <1>2, <2>3 DEF Feeding
    <3> QED BY <1>5, <2>1, <2>3, <3>1
  <2>4. CASE i - Len(s) \in DOMAIN q /\ j - Len(s) \in DOMAIN q
    <3>1. i - Len(s) < j - Len(s)
      BY <1>5, <1>7, <2>1
    <3>2. q[i - Len(s)].total < q[j - Len(s)].total
      BY <1>1, <1>2, <2>4, <3>1 DEF Feeding, Increasing
    <3> QED BY <1>5, <2>1, <2>4, <3>2
  <2> QED BY <1>5, <1>6, <1>7, <2>1, <2>2, <2>3, <2>4
<1>8. ASSUME NEW i \in DOMAIN (s \o q)
      PROVE  (s \o q)[i].tenant = t /\ (s \o q)[i].total <= AdmittedFor(t)
  <2>1. (s \o q)[i].tenant = t /\ (s \o q)[i].total \in 1..lastCount[t]
    BY <1>3, <1>6 DEF Due
  <2> QED BY <1>4, <2>1
<1>9. Increasing(s \o q)
  BY <1>7 DEF Increasing
<1> QED BY <1>1, <1>3, <1>8, <1>9

(* Whatever order clients come, go and stall in, ingestion runs and the     *)
(* program ends in, no channel is closed twice or sent to once closed, and  *)
(* every counter a client sees is its tenant's, newer than the one before   *)
(* and reached by what was admitted (websocket.go, server.go, state.go).    *)
THEOREM FeedsAreSound == HubSpec => []FeedsSound
<1>1. HubInv => FeedsSound
  BY FeedIsSound DEF FeedsSound, HubInv, FeedInv, ClosedOnce
<1> QED BY <1>1, HubInitial, HubInductive, PTL DEF HubSpec

(* A tenant has one state, however many goroutines find that it has none,   *)
(* and that state has counted every entry admitted for it: nothing goes to  *)
(* a state that lost the race for the map (engine.go, state.go).            *)
THEOREM EveryEntryInItsState == HubSpec => [](OneState /\ TotalsExact)
<1>1. HubInv => OneState /\ TotalsExact
  BY DEF HubInv, EngineInv
<1> QED BY <1>1, HubInitial, HubInductive, PTL DEF HubSpec

-----------------------------------------------------------------------------
(* The engine's answers.  First what the reports count.                     *)

Units(counts)  == UNION {{k} \X (1..counts[k]) : k \in DOMAIN counts}
Counts(counts) ==
  counts \in [DOMAIN counts -> Nat] /\ IsFiniteSet(DOMAIN counts) /\ IsFiniteSet(Units(counts))

LEMMA UnitsAre ==
  ASSUME NEW counts, NEW p
  PROVE  p \in Units(counts) <=> \E k \in DOMAIN counts : \E n \in 1..counts[k] : p = <<k, n>>
<1>1. ASSUME p \in Units(counts) PROVE \E k \in DOMAIN counts : \E n \in 1..counts[k] : p = <<k, n>>
  <2>1. PICK k \in DOMAIN counts : p \in {k} \X (1..counts[k])
    BY <1>1 DEF Units
  <2> QED BY <2>1
<1>2. ASSUME NEW k \in DOMAIN counts, NEW n \in 1..counts[k], p = <<k, n>> PROVE p \in Units(counts)
  <2>1. p \in {k} \X (1..counts[k])
    BY <1>2
  <2> QED BY <2>1 DEF Units
<1> QED BY <1>1, <1>2

LEMMA SumIsNat ==
  ASSUME NEW counts, Counts(counts)
  PROVE  SumOf(counts) \in Nat /\ SumOf(counts) = Cardinality(Units(counts))
BY FS_CardinalityType DEF Counts, Units, SumOf

LEMMA NothingCounted ==
  ASSUME NEW counts, DOMAIN counts = {}
  PROVE  counts \in [DOMAIN counts -> Nat] => Counts(counts) /\ SumOf(counts) = 0
<1>1. Units(counts) = {}
  BY DEF Units
<1> QED BY FS_EmptySet, <1>1, FS_EmptySet DEF Counts, SumOf, Units

(* One more of one key is one more in all.                                  *)
LEMMA OneMore ==
  ASSUME NEW old, Counts(old), NEW key, NEW new, new \in [DOMAIN new -> Nat],
         DOMAIN new = DOMAIN old \cup {key},
         \A k \in DOMAIN old \ {key} : new[k] = old[k],
         new[key] = IF key \in DOMAIN old THEN old[key] + 1 ELSE 1
  PROVE  Counts(new) /\ SumOf(new) = SumOf(old) + 1
<1>1. PICK unit : unit = <<key, new[key]>>
  OBVIOUS
<1>2. new[key] \in Nat /\ new[key] \in 1..new[key]
  <2>1. key \in DOMAIN old => old[key] \in Nat
    BY DEF Counts
  <2> QED BY <2>1
<1>3. \A n : n \in 1..new[key] <=> (key \in DOMAIN old /\ n \in 1..old[key]) \/ n = new[key]
  <2>1. CASE key \in DOMAIN old
    <3>1. old[key] \in Nat /\ new[key] = old[key] + 1
      BY <2>1 DEF Counts
    <3> QED BY <2>1, <3>1
  <2>2. CASE key \notin DOMAIN old
    BY <2>2
  <2> QED BY <2>1, <2>2
<1>4. \A p : p \in Units(new) <=> p \in Units(old) \/ p = unit
  <2> SUFFICES ASSUME NEW p PROVE p \in Units(new) <=> p \in Units(old) \/ p = unit
    OBVIOUS
  <2>1. ASSUME p \in Units(new) PROVE p \in Units(old) \/ p = unit
    <3>0. PICK k \in DOMAIN new : \E n \in 1..new[k] : p = <<k, n>>
      BY <2>1, UnitsAre
    <3>1. PICK n \in 1..new[k] : p = <<k, n>>
      BY <3>0
    <3>2. CASE k = key
      <4>1. CASE n = new[key]
        BY <1>1, <3>1, <3>2, <4>1
      <4>2. CASE n # new[key]
        <5>1. key \in DOMAIN old /\ n \in 1..old[key] /\ p = <<key, n>>
          BY <1>3, <3>1, <3>2, <4>2
        <5> QED BY <5>1, UnitsAre
      <4> QED BY <4>1, <4>2
    <3>3. CASE k # key
      <4>1. k \in DOMAIN old /\ n \in 1..old[k]
        BY <3>3
      <4> QED BY <3>1, <4>1, UnitsAre
    <3> QED BY <3>2, <3>3
  <2>2. ASSUME p \in Units(old) PROVE p \in Units(new)
    <3>0. PICK k \in DOMAIN old : \E n \in 1..old[k] : p = <<k, n>>
      BY <2>2, UnitsAre
    <3>1. PICK n \in 1..old[k] : p = <<k, n>>
      BY <3>0
    <3>2. k \in DOMAIN new /\ n \in 1..new[k]
      <4>1. CASE k = key
        BY <1>3, <4>1
      <4>2. CASE k # key
        BY <4>2
      <4> QED BY <4>1, <4>2
    <3> QED BY <3>1, <3>2, UnitsAre
  <2>3. ASSUME p = unit PROVE p \in Units(new)
    <3>1. key \in DOMAIN new /\ p = <<key, new[key]>>
      BY <1>1, <2>3
    <3> QED BY <1>2, <3>1, UnitsAre
  <2> QED BY <2>1, <2>2, <2>3
<1>5. Units(new) = Units(old) \cup {unit}
  BY <1>4
<1>6. unit \notin Units(old)
  <2> SUFFICES ASSUME unit \in Units(old) PROVE FALSE
    OBVIOUS
  <2>0. PICK k \in DOMAIN old : \E n \in 1..old[k] : unit = <<k, n>>
    BY UnitsAre
  <2>1. PICK n \in 1..old[k] : unit = <<k, n>>
    BY <2>0
  <2>2. k = key /\ n = new[key]
    BY <1>1, <2>1
  <2>3. old[key] \in Nat /\ new[key] = old[key] + 1
    BY <2>2 DEF Counts
  <2> QED BY <2>2, <2>3
<1>7. IsFiniteSet(Units(new)) /\ Cardinality(Units(new)) = Cardinality(Units(old)) + 1
  BY <1>5, <1>6, FS_AddElement DEF Counts
<1>8. IsFiniteSet(DOMAIN new)
  BY FS_AddElement DEF Counts
<1>9. Counts(new)
  BY <1>7, <1>8 DEF Counts
<1> QED BY <1>7, <1>9, SumIsNat

(* Bump, of a state's counts.                                               *)
LEMMA BumpCounts ==
  ASSUME NEW counts, Counts(counts), NEW key
  PROVE  Counts(Bump(counts, key)) /\ SumOf(Bump(counts, key)) = SumOf(counts) + 1
<1>1. PICK new : new = Bump(counts, key)
  OBVIOUS
<1>2. DOMAIN new = DOMAIN counts \cup {key}
  BY <1>1 DEF Bump, BumpAll
<1>3. \A k \in DOMAIN counts : counts[k] \in Nat
  BY DEF Counts
<1>4. \A k \in DOMAIN counts \ {key} : new[k] = counts[k] + 0
  BY <1>1 DEF Bump, BumpAll
<1>5. \A k \in DOMAIN counts \ {key} : new[k] = counts[k]
  BY <1>3, <1>4
<1>6. new[key] = IF key \in DOMAIN counts THEN counts[key] + 1 ELSE 0 + 1
  BY <1>1 DEF Bump, BumpAll
<1>7. new[key] = IF key \in DOMAIN counts THEN counts[key] + 1 ELSE 1
  BY <1>6
<1>8. new \in [DOMAIN new -> Nat]
  <2>1. \A k \in DOMAIN new : new[k] \in Nat
    BY <1>2, <1>3, <1>5, <1>7
  <2>2. new = [k \in DOMAIN new |-> new[k]]
    BY <1>1 DEF Bump, BumpAll
  <2> QED BY <2>1, <2>2
<1> QED BY <1>1, <1>2, <1>5, <1>7, <1>8, OneMore

(* A sequence has as many members as are counted of all its keys.           *)
CountUpTo(keys, n) == [k \in Range(keys) |-> Cardinality({i \in 1..n : keys[i] = k})]

LEMMA CountedUpTo ==
  ASSUME NEW S, NEW keys \in Seq(S), NEW n \in 0..Len(keys)
  PROVE  Counts(CountUpTo(keys, n)) /\ SumOf(CountUpTo(keys, n)) = n
<1>1. Len(keys) \in Nat /\ keys \in [1..Len(keys) -> S] /\ DOMAIN keys = 1..Len(keys)
  BY LenProperties
<1>2. IsFiniteSet(Range(keys))
  <2>1. keys \in [1..Len(keys) -> S] /\ IsFiniteSet(1..Len(keys))
    BY <1>1, FS_Interval
  <2>2. keys \in Surjection(1..Len(keys), Range(keys))
    BY <2>1 DEF Surjection, Range
  <2> QED BY <2>1, <2>2, FS_Surjection
<1> DEFINE A == {m \in Nat : m <= Len(keys) => Counts(CountUpTo(keys, m)) /\ SumOf(CountUpTo(keys, m)) = m}
<1>3. 0 \in A
  <2>1. PICK c : c = CountUpTo(keys, 0)
    OBVIOUS
  <2>2. \A k \in Range(keys) : {i \in 1..0 : keys[i] = k} = {}
    OBVIOUS
  <2>3. DOMAIN c = Range(keys) /\ \A k \in DOMAIN c : c[k] = 0
    BY <2>1, <2>2, FS_EmptySet DEF CountUpTo
  <2>4. c \in [DOMAIN c -> Nat]
    BY <2>1, <2>3 DEF CountUpTo
  <2>5. Units(c) = {}
    BY <2>3 DEF Units
  <2>6. Counts(c) /\ SumOf(c) = 0
    BY <1>2, <2>3, <2>4, <2>5, FS_EmptySet DEF Counts, SumOf, Units
  <2> QED BY <2>1, <2>6
<1>4. ASSUME NEW m \in 0..(Len(keys) - 1), m \in A PROVE m + 1 \in A
  <2>1. PICK old, new, key : old = CountUpTo(keys, m) /\ new = CountUpTo(keys, m + 1) /\ key = keys[m + 1]
    OBVIOUS
  <2>2. m \in Nat /\ m + 1 \in Nat /\ m <= Len(keys) /\ m + 1 \in 1..Len(keys)
    OBVIOUS
  <2>3. Counts(old) /\ SumOf(old) = m
    BY <1>4, <2>1, <2>2
  <2>4. key \in Range(keys)
    BY <2>1, <2>2 DEF Range
  <2>5. DOMAIN old = Range(keys) /\ DOMAIN new = Range(keys)
    BY <2>1 DEF CountUpTo
  <2>6. \A i : i \in 1..(m + 1) <=> i \in 1..m \/ i = m + 1
    BY <2>2
  <2>7. \A k \in Range(keys) :
          /\ old[k] = Cardinality({i \in 1..m : keys[i] = k})
          /\ new[k] = Cardinality({i \in 1..(m + 1) : keys[i] = k})
    BY <2>1 DEF CountUpTo
  <2>8. ASSUME NEW k \in Range(keys) PROVE new[k] = IF k = key THEN old[k] + 1 ELSE old[k]
    <3> DEFINE before == {i \in 1..m : keys[i] = k}
    <3>1. IsFiniteSet(before) /\ m + 1 \notin before
      <4>1. IsFiniteSet(1..m) /\ before \in SUBSET (1..m) /\ m + 1 \notin 1..m
        BY <2>2, FS_Interval
      <4> QED BY <4>1, FS_Subset
    <3>2. {i \in 1..(m + 1) : keys[i] = k} = IF k = key THEN before \cup {m + 1} ELSE before
      BY <2>1, <2>6
    <3> HIDE DEF before
    <3>3. Cardinality(before \cup {m + 1}) = Cardinality(before) + 1
      BY <3>1, FS_AddElement
    <3> QED BY <2>7, <3>2, <3>3 DEF before
  <2>9. new \in [DOMAIN new -> Nat]
    <3>1. \A k \in Range(keys) : old[k] \in Nat
      BY <2>3, <2>5 DEF Counts
    <3>2. \A k \in Range(keys) : new[k] \in Nat
      BY <2>8, <3>1
    <3>3. new = [k \in Range(keys) |-> new[k]]
      BY <2>1 DEF CountUpTo
    <3> QED BY <2>5, <3>2, <3>3
  <2>10. Counts(new) /\ SumOf(new) = SumOf(old) + 1
    <3>1. DOMAIN new = DOMAIN old \cup {key} /\ key \in DOMAIN old
      BY <2>4, <2>5
    <3>2. \A k \in DOMAIN old \ {key} : new[k] = old[k]
      BY <2>5, <2>8
    <3>3. new[key] = old[key] + 1
      BY <2>4, <2>8
    <3> QED BY <2>3, <2>9, <3>1, <3>2, <3>3, OneMore
  <2> QED BY <2>1, <2>2, <2>3, <2>10
<1>5. \A m \in 0..Len(keys) : m \in A
  <2> HIDE DEF A
  <2> QED BY <1>1, <1>3, <1>4, UpTo
<1> QED BY <1>1, <1>5

LEMMA CountsAll ==
  ASSUME NEW S, NEW keys \in Seq(S)
  PROVE  Counts(CountBy(keys)) /\ SumOf(CountBy(keys)) = Len(keys)
<1>1. CountBy(keys) = CountUpTo(keys, Len(keys))
  BY LenProperties DEF CountBy, CountUpTo
<1>2. Len(keys) \in 0..Len(keys)
  OBVIOUS
<1> QED BY <1>1, <1>2, CountedUpTo

LEMMA SeveritiesTyped ==
  ASSUME NEW S, NEW s \in Seq(S)
  PROVE  /\ Severities(s) \in Seq({s[i].severity : i \in DOMAIN s})
         /\ Len(Severities(s)) = Len(s)
<1>1. DOMAIN s = 1..Len(s) /\ Len(s) \in Nat
  BY LenProperties
<1>2. PICK T : T = {s[i].severity : i \in DOMAIN s}
  OBVIOUS
<1>3. Severities(s) \in [1..Len(s) -> T]
  BY <1>1, <1>2 DEF Severities
<1>4. Severities(s) \in Seq(T)
  BY <1>1, <1>3, IsASeq
<1>5. DOMAIN Severities(s) = 1..Len(s) /\ DOMAIN Severities(s) = 1..Len(Severities(s))
  BY <1>3, <1>4, LenProperties
<1>6. Len(Severities(s)) \in Nat
  BY <1>4, LenProperties
<1> QED BY <1>1, <1>2, <1>4, <1>5, <1>6

LEMMA SeveritiesAddUp ==
  ASSUME NEW S, NEW s \in Seq(S)
  PROVE  Counts(CountBy(Severities(s))) /\ SumOf(CountBy(Severities(s))) = Len(s)
BY SeveritiesTyped, CountsAll

(* Every member is in one group, so the groups are as large as the whole.   *)
LEMMA GroupsAddUp ==
  ASSUME NEW S, NEW s \in Seq(S), NEW group, NEW sizes,
         sizes = [g \in DOMAIN Split(s, group) |-> Len(Split(s, group)[g])]
  PROVE  SumOf(sizes) = Len(s) /\ \A g \in DOMAIN sizes : \E T : Split(s, group)[g] \in Seq(T)
<1>1. DOMAIN s = 1..Len(s) /\ Len(s) \in Nat /\ s \in [1..Len(s) -> S]
  BY LenProperties
<1>2. PICK K : K = {group[e] : e \in ToSet(s)}
  OBVIOUS
<1>3. PICK keys : keys = [i \in 1..Len(s) |-> group[s[i]]]
  OBVIOUS
<1>4. \A i \in 1..Len(s) : keys[i] = group[s[i]] /\ s[i] \in ToSet(s)
  BY <1>1, <1>3 DEF ToSet
<1>5. keys \in [1..Len(s) -> K]
  BY <1>2, <1>3, <1>4
<1>6. keys \in Seq(K)
  BY <1>1, <1>5, IsASeq
<1>7. DOMAIN keys = 1..Len(s) /\ Len(keys) = Len(s)
  BY <1>1, <1>5, <1>6, LenProperties
<1>8. Range(keys) = K
  <2>1. \A e \in ToSet(s) : \E i \in 1..Len(s) : e = s[i]
    BY <1>1 DEF ToSet
  <2>2. \A k \in K : \E i \in 1..Len(s) : k = keys[i]
    BY <1>2, <1>4, <2>1
  <2>3. \A i \in 1..Len(s) : keys[i] \in K
    BY <1>5
  <2> QED BY <1>7, <2>2, <2>3 DEF Range
<1>9. DOMAIN Split(s, group) = K
  BY <1>2 DEF Split
<1>10. ASSUME NEW g \in K
       PROVE  /\ Split(s, group)[g] \in Seq({e \in ToSet(s) : group[e] = g})
              /\ Len(Split(s, group)[g]) = Cardinality({i \in DOMAIN keys : keys[i] = g})
  <2>1. PICK T : T = {e \in ToSet(s) : group[e] = g}
    OBVIOUS
  <2>2. Split(s, group)[g] = Picked(s, T)
    BY <1>2, <2>1 DEF Split
  <2>3. {i \in 1..Len(s) : s[i] \in T} = {i \in DOMAIN keys : keys[i] = g}
    BY <1>4, <1>7, <2>1
  <2> QED BY <1>1, <2>1, <2>2, <2>3, PickedTyped, PickedCount
<1>11. sizes = CountBy(keys)
  <2>1. sizes = [g \in K |-> Len(Split(s, group)[g])]
    BY <1>9
  <2>2. CountBy(keys) = [g \in K |-> Cardinality({i \in DOMAIN keys : keys[i] = g})]
    BY <1>8 DEF CountBy
  <2> QED BY <1>10, <2>1, <2>2
<1>12. SumOf(sizes) = Len(s)
  BY <1>6, <1>7, <1>11, CountsAll
<1> QED BY <1>9, <1>10, <1>12

LEMMA SeverityGroupsAddUp ==
  ASSUME NEW S, NEW s \in Seq(S), NEW group
  PROVE  Totals(SeverityCounts(Split(s, group))) = Len(s)
<1>1. PICK split, groups, sizes : /\ split = Split(s, group) /\ groups = SeverityCounts(split)
                                  /\ sizes = [g \in DOMAIN split |-> Len(split[g])]
  OBVIOUS
<1>2. DOMAIN groups = DOMAIN split /\ DOMAIN sizes = DOMAIN split
  BY <1>1 DEF SeverityCounts
<1>3. SumOf(sizes) = Len(s) /\ \A g \in DOMAIN sizes : \E T : split[g] \in Seq(T)
  BY <1>1, GroupsAddUp
<1>4. ASSUME NEW g \in DOMAIN split PROVE SumOf(groups[g]) = Len(split[g])
  <2>1. groups[g] = CountBy(Severities(split[g]))
    BY <1>1 DEF SeverityCounts
  <2>2. PICK T : split[g] \in Seq(T)
    BY <1>2, <1>3
  <2> QED BY <2>1, <2>2, SeveritiesAddUp
<1>5. [g \in DOMAIN groups |-> SumOf(groups[g])] = sizes
  BY <1>1, <1>2, <1>4
<1> QED BY <1>1, <1>3, <1>5 DEF Totals

(* The entries that pass a filter are counted by it.                        *)
Passing(window, f) == {e \in ToSet(window) : Matches(e, f)}

LEMMA FilterCounts ==
  ASSUME NEW S, NEW window \in Seq(S), NEW f
  PROVE  /\ filterEntries(window, f) \in Seq(Passing(window, f))
         /\ Len(filterEntries(window, f)) = Cardinality({i \in DOMAIN window : Matches(window[i], f)})
         /\ Len(filterEntries(window, f)) \in 0..Len(window)
<1>1. DOMAIN window = 1..Len(window) /\ Len(window) \in Nat
  BY LenProperties
<1>2. filterEntries(window, f) = Picked(window, Passing(window, f))
  BY DEF filterEntries, Passing
<1>3. PICK T : T = Passing(window, f)
  OBVIOUS
<1>4. \A i \in 1..Len(window) : window[i] \in T <=> Matches(window[i], f)
  BY <1>1, <1>3 DEF Passing, ToSet
<1>5. {i \in 1..Len(window) : window[i] \in T} = {i \in DOMAIN window : Matches(window[i], f)}
  BY <1>1, <1>4
<1>6. /\ Picked(window, T) \in Seq(T)
      /\ Len(Picked(window, T)) = Cardinality({i \in 1..Len(window) : window[i] \in T})
  BY <1>1, PickedTyped, PickedCount
<1>7. Cardinality({i \in 1..Len(window) : window[i] \in T}) \in 0..Len(window)
  <2>1. IsFiniteSet(1..Len(window)) /\ Cardinality(1..Len(window)) = Len(window)
    BY <1>1, FS_Interval
  <2>2. {i \in 1..Len(window) : window[i] \in T} \in SUBSET (1..Len(window))
    OBVIOUS
  <2>3. /\ IsFiniteSet({i \in 1..Len(window) : window[i] \in T})
        /\ Cardinality({i \in 1..Len(window) : window[i] \in T}) <= Len(window)
    BY <2>1, <2>2, FS_Subset
  <2>4. Cardinality({i \in 1..Len(window) : window[i] \in T}) \in Nat
    BY <2>3, FS_CardinalityType
  <2> QED BY <1>1, <2>3, <2>4
<1> QED BY <1>2, <1>3, <1>5, <1>6, <1>7

(* Without a limit nothing is cut.                                          *)
LEMMA NothingCut ==
  ASSUME NEW counts, Counts(counts), NEW f, f.limit = Unset, NEW v \in CutsOf(counts, f)
  PROVE  v = counts
<1>1. Limit(f, Cardinality(DOMAIN counts)) = Cardinality(DOMAIN counts)
  BY DEF Limit
<1>2. PICK T \in SUBSET DOMAIN counts :
        v = Restrict(counts, T) /\ Cardinality(T) = Cardinality(DOMAIN counts)
  BY <1>1 DEF CutsOf, TopsOf
<1>3. T = DOMAIN counts
  BY <1>2, FS_Subset DEF Counts
<1>4. v = [k \in DOMAIN counts |-> counts[k]]
  BY <1>2, <1>3 DEF Restrict
<1> QED BY <1>4 DEF Counts

LEMMA LimitBounds ==
  ASSUME NEW f \in Filters, NEW n \in Nat
  PROVE  Limit(f, n) \in 0..n
<1>1. f.limit = Unset \/ f.limit \in Int
  BY EngineAssumption
<1>2. CASE f.limit # Unset /\ f.limit > 0 /\ f.limit < n
  <2>1. Limit(f, n) = f.limit
    BY <1>2 DEF Limit
  <2> QED BY <1>1, <1>2, <2>1
<1>3. CASE ~(f.limit # Unset /\ f.limit > 0 /\ f.limit < n)
  BY <1>3 DEF Limit
<1> QED BY <1>2, <1>3

(* queryLogSamples: as many as match, or the limit.                         *)
LEMMA SamplesCount ==
  ASSUME NEW S, NEW window \in Seq(S), NEW f \in Filters
  PROVE  Len(LogSamples(window, f)) = Limit(f, Len(filterEntries(window, f)))
<1>1. PICK s, n, l : s = filterEntries(window, f) /\ n = Len(s) /\ l = Limit(f, n)
  OBVIOUS
<1>2. s \in Seq(Passing(window, f)) /\ n \in Nat
  <2>1. s \in Seq(Passing(window, f))
    BY <1>1, FilterCounts
  <2> QED BY <1>1, <2>1, LenProperties
<1>3. l \in 0..n
  BY <1>1, <1>2, LimitBounds
<1>4. PICK a : a = n - l + 1
  OBVIOUS
<1>5. a \in Int /\ n \in Int /\ a >= 1 /\ (IF a <= n THEN n - a + 1 ELSE 0) = l
  BY <1>2, <1>3, <1>4
<1>6. \A i \in a..n : s[i] \in Passing(window, f)
  BY <1>1, <1>2, <1>5
<1>7. Len(SubSeq(s, a, n)) = IF a <= n THEN n - a + 1 ELSE 0
  BY <1>5, <1>6, SubSeqProperties
<1> QED BY <1>1, <1>4, <1>5, <1>7 DEF LogSamples

-----------------------------------------------------------------------------
(* The miners.  A miner of n texts has counted them all unless it is full,  *)
(* and none of them twice.                                                  *)

MinerExact(m, n) ==
  /\ Counts(m) /\ Cardinality(DOMAIN m) <= MaxClusters
  /\ SumOf(m) <= n
  /\ Cardinality(DOMAIN m) < MaxClusters => SumOf(m) = n

LEMMA FreshMiner == MinerExact(<<>>, 0)
<1>1. DOMAIN <<>> = {} /\ <<>> \in [DOMAIN <<>> -> Nat]
  OBVIOUS
<1>2. Counts(<<>>) /\ SumOf(<<>>) = 0
  BY <1>1, NothingCounted
<1>3. Cardinality(DOMAIN <<>>) = 0 /\ MaxClusters \in Nat
  BY <1>1, FS_EmptySet, EngineAssumption
<1> QED BY <1>2, <1>3 DEF MinerExact

(* What is left out of the counts was counted too.                          *)
LEMMA RestrictCounts ==
  ASSUME NEW counts, Counts(counts), NEW T \in SUBSET DOMAIN counts
  PROVE  /\ DOMAIN Restrict(counts, T) = T /\ Counts(Restrict(counts, T))
         /\ SumOf(Restrict(counts, T)) <= SumOf(counts)
<1>1. PICK kept : kept = Restrict(counts, T)
  OBVIOUS
<1>2. DOMAIN kept = T /\ \A k \in T : kept[k] = counts[k]
  BY <1>1 DEF Restrict
<1>3. kept \in [DOMAIN kept -> Nat] /\ IsFiniteSet(T)
  <2>1. \A k \in T : counts[k] \in Nat
    BY DEF Counts
  <2>2. kept = [k \in T |-> counts[k]]
    BY <1>1 DEF Restrict
  <2>3. IsFiniteSet(T)
    BY FS_Subset DEF Counts
  <2> QED BY <2>1, <2>2, <2>3
<1>4. Units(kept) \subseteq Units(counts)
  <2> SUFFICES ASSUME NEW p \in Units(kept) PROVE p \in Units(counts)
    OBVIOUS
  <2>1. PICK k \in DOMAIN kept : \E n \in 1..kept[k] : p = <<k, n>>
    BY UnitsAre
  <2>2. k \in DOMAIN counts /\ \E n \in 1..counts[k] : p = <<k, n>>
    BY <1>2, <2>1
  <2> QED BY <2>2, UnitsAre
<1>5. /\ IsFiniteSet(Units(kept))
      /\ Cardinality(Units(kept)) <= Cardinality(Units(counts))
  <2>1. IsFiniteSet(Units(counts)) /\ Units(kept) \in SUBSET Units(counts)
    BY <1>4 DEF Counts
  <2> QED BY <2>1, FS_Subset
<1>6. Counts(kept)
  BY <1>2, <1>3, <1>5 DEF Counts
<1> QED BY <1>1, <1>2, <1>5, <1>6, SumIsNat

(* Drain3Manager.AddLogMessage.                                             *)
LEMMA MinedExactly ==
  ASSUME NEW m, NEW n \in Nat, MinerExact(m, n), NEW body, NEW new \in Mined(m, body)
  PROVE  /\ body = Blank => MinerExact(new, n)
         /\ body # Blank => MinerExact(new, n + 1)
<1>1. /\ Counts(m) /\ IsFiniteSet(DOMAIN m) /\ SumOf(m) \in Nat
      /\ Cardinality(DOMAIN m) \in Nat /\ MaxClusters \in Nat \ {0}
  BY SumIsNat, FS_CardinalityType, EngineAssumption DEF MinerExact, Counts
<1>2. CASE body = Blank
  BY <1>2 DEF Mined
<1>3. CASE body # Blank /\ (body \in DOMAIN m \/ Cardinality(DOMAIN m) < MaxClusters)
  <2>1. new = Bump(m, body)
    BY <1>3 DEF Mined
  <2>2. Counts(new) /\ SumOf(new) = SumOf(m) + 1 /\ DOMAIN new = DOMAIN m \cup {body}
    BY <1>1, <2>1, BumpCounts DEF Bump, BumpAll
  <2>3. CASE body \in DOMAIN m
    <3>1. DOMAIN new = DOMAIN m
      BY <2>2, <2>3
    <3> QED BY <1>1, <1>3, <2>2, <3>1 DEF MinerExact
  <2>4. CASE body \notin DOMAIN m
    <3>1. Cardinality(DOMAIN m) < MaxClusters /\ SumOf(m) = n
      BY <1>3, <2>4 DEF MinerExact
    <3>2. Cardinality(DOMAIN new) = Cardinality(DOMAIN m) + 1
      BY <1>1, <2>2, <2>4, FS_AddElement
    <3> QED BY <1>1, <1>3, <2>2, <3>1, <3>2 DEF MinerExact
  <2> QED BY <2>3, <2>4
<1>4. CASE body # Blank /\ ~(body \in DOMAIN m \/ Cardinality(DOMAIN m) < MaxClusters)
  <2>1. PICK old \in DOMAIN m : new = Bump(Restrict(m, DOMAIN m \ {old}), body)
    BY <1>4 DEF Mined
  <2>2. PICK kept : kept = Restrict(m, DOMAIN m \ {old})
    OBVIOUS
  <2>3. DOMAIN kept = DOMAIN m \ {old} /\ Counts(kept) /\ SumOf(kept) <= SumOf(m)
    <3>1. DOMAIN m \ {old} \in SUBSET DOMAIN m
      OBVIOUS
    <3> QED BY <1>1, <2>2, <3>1, RestrictCounts
  <2>4. Counts(new) /\ SumOf(new) = SumOf(kept) + 1 /\ DOMAIN new = DOMAIN kept \cup {body}
    BY <2>1, <2>2, <2>3, BumpCounts DEF Bump, BumpAll
  <2>5. Cardinality(DOMAIN m) = MaxClusters /\ SumOf(m) <= n
    BY <1>1, <1>4 DEF MinerExact
  <2>6. /\ IsFiniteSet(DOMAIN kept) /\ Cardinality(DOMAIN kept) = MaxClusters - 1
    BY <1>1, <2>3, <2>5, FS_RemoveElement
  <2>7. body \notin DOMAIN kept
    BY <1>4, <2>3
  <2>8. Cardinality(DOMAIN new) = MaxClusters
    BY <1>1, <2>4, <2>6, <2>7, FS_AddElement
  <2>9. SumOf(kept) \in Nat
    BY <2>3, SumIsNat
  <2> QED BY <1>1, <1>4, <2>3, <2>4, <2>5, <2>8, <2>9 DEF MinerExact
<1> QED BY <1>2, <1>3, <1>4

(* What is listed of a miner's patterns, at most k of them.                 *)
LEMMA ListedExactly ==
  ASSUME NEW m, NEW n \in Nat, MinerExact(m, n), NEW k \in Nat, NEW list \in TopsOf(m, k)
  PROVE  /\ SumOf(list) <= n
         /\ Cardinality(DOMAIN list) < k /\ Cardinality(DOMAIN list) < MaxClusters => SumOf(list) = n
<1>1. /\ Counts(m) /\ IsFiniteSet(DOMAIN m) /\ SumOf(m) \in Nat
      /\ Cardinality(DOMAIN m) \in Nat /\ MaxClusters \in Nat
  BY SumIsNat, FS_CardinalityType, EngineAssumption DEF MinerExact, Counts
<1>2. PICK T \in SUBSET DOMAIN m :
        /\ list = Restrict(m, T)
        /\ Cardinality(T) = (IF k < Cardinality(DOMAIN m) THEN k ELSE Cardinality(DOMAIN m))
  BY DEF TopsOf
<1>3. DOMAIN list = T /\ Counts(list) /\ SumOf(list) <= SumOf(m) /\ SumOf(list) \in Nat
  BY <1>1, <1>2, RestrictCounts, SumIsNat
<1>4. SumOf(list) <= n
  BY <1>1, <1>3 DEF MinerExact
<1>5. ASSUME Cardinality(DOMAIN list) < k, Cardinality(DOMAIN list) < MaxClusters
      PROVE  SumOf(list) = n
  <2>1. Cardinality(T) = Cardinality(DOMAIN m)
    BY <1>1, <1>2, <1>3, <1>5
  <2>2. T = DOMAIN m
    BY <1>1, <2>1, FS_Subset
  <2>3. list = m
    <3>1. list = [x \in DOMAIN m |-> m[x]]
      BY <1>2, <2>2 DEF Restrict
    <3> QED BY <1>1, <3>1 DEF Counts
  <2> QED BY <1>3, <1>5, <2>2, <2>3 DEF MinerExact
<1> QED BY <1>4, <1>5

-----------------------------------------------------------------------------
(* What a state holds of the entries of its tenant.                         *)

StateOf(t) == IF tenants[t] = None THEN newTenantState ELSE states[tenants[t]]

Mapped    == {e \in Entries : OnHeatmap(e)}
Hot(t)    == {e \in Mapped : e.tenant = t}
HotFor(t) == Cardinality(Places(admitted, Hot(t)))

HeatTyped(heat) == heat \in [DOMAIN heat -> Nat] /\ \A cell \in DOMAIN heat : cell[1] > HeatCutoff

(* st is what a state is when its tenant's own entries have been ingested,  *)
(* hot of which are on the heatmap.                                         *)
Holds(st, own, hot) ==
  /\ DOMAIN st = DOMAIN newTenantState
  /\ st.window = Latest(own) /\ st.total = Len(own)
  /\ Counts(st.streams) /\ SumOf(st.streams) = Len(own)
  /\ HeatTyped(st.heat) /\ Counts(Heatmap(st.heat)) /\ SumOf(Heatmap(st.heat)) = hot
  /\ \A p \in DOMAIN st.attrs : st.attrs[p] \in 0..Len(own)
  /\ \A i \in DOMAIN own : getServiceName(own[i]) \in DOMAIN st.services \cup {"unknown"}

LEMMA NewHoldsNothing == Holds(newTenantState, <<>>, 0)
<1>1. Counts(<<>>) /\ SumOf(<<>>) = 0
  <2>1. DOMAIN <<>> = {} /\ <<>> \in [DOMAIN <<>> -> Nat]
    OBVIOUS
  <2> QED BY <2>1, NothingCounted
<1>2. Latest(<<>>) = <<>>
  <2>1. Len(<<>>) = 0 /\ MaxWindow \in Nat
    BY EngineAssumption
  <2>2. Latest(<<>>) = SubSeq(<<>>, 1, 0)
    BY <2>1 DEF Latest
  <2> QED BY <2>2
<1>3. Len(<<>>) = 0 /\ DOMAIN <<>> = {}
  OBVIOUS
<1>4. HeatTyped(<<>>) /\ Counts(Heatmap(<<>>)) /\ SumOf(Heatmap(<<>>)) = 0
  <2>1. HeatTyped(<<>>)
    BY DEF HeatTyped
  <2>2. PICK shown : shown = Heatmap(<<>>)
    OBVIOUS
  <2>3. DOMAIN shown = {} /\ shown \in [DOMAIN shown -> Nat]
    BY <2>2 DEF Heatmap, Restrict
  <2> QED BY <2>1, <2>2, <2>3, NothingCounted
<1> QED BY <1>1, <1>2, <1>3, <1>4 DEF Holds, newTenantState

(* updateHeatmapData: the cell is counted, or pruned at once, or not handed *)
(* on.                                                                      *)
LEMMA HeatCounts ==
  ASSUME NEW heat, HeatTyped(heat), Counts(Heatmap(heat)), NEW e \in Entries
  PROVE  /\ HeatTyped(HeatWith(heat, e)) /\ Counts(Heatmap(HeatWith(heat, e)))
         /\ SumOf(Heatmap(HeatWith(heat, e))) =
              IF e \in Mapped THEN SumOf(Heatmap(heat)) + 1 ELSE SumOf(Heatmap(heat))
<1>1. PICK minute, level : minute = e.second \div 60 /\ level = HeatLevel(e.severity)
  OBVIOUS
<1>2. PICK cell : cell = <<minute, level>>
  OBVIOUS
<1>3. PICK bumped : bumped = Bump(heat, cell)
  OBVIOUS
<1>4. PICK new : new = HeatWith(heat, e)
  OBVIOUS
<1>5. cell[1] = minute /\ cell[2] = level
  BY <1>2
<1>6. e \in Mapped <=> minute > HeatCutoff /\ level \in ShownLevels
  BY <1>1 DEF Mapped, OnHeatmap
<1>7. DOMAIN bumped = DOMAIN heat \cup {cell}
  BY <1>3 DEF Bump, BumpAll
<1>8. new = [c \in {c \in DOMAIN bumped : c[1] > HeatCutoff} |-> bumped[c]]
  BY <1>1, <1>2, <1>3, <1>4 DEF HeatWith, Restrict
<1>9. /\ \A c \in DOMAIN heat : heat[c] \in Nat /\ c[1] > HeatCutoff
      /\ \A c \in DOMAIN heat \ {cell} : bumped[c] = heat[c]
      /\ bumped[cell] = IF cell \in DOMAIN heat THEN heat[cell] + 1 ELSE 1
  <2>1. \A c \in DOMAIN heat : heat[c] \in Nat /\ c[1] > HeatCutoff
    BY DEF HeatTyped
  <2>2. \A c \in DOMAIN heat \ {cell} : bumped[c] = heat[c] + 0
    BY <1>3 DEF Bump, BumpAll
  <2>3. \A c \in DOMAIN heat \ {cell} : bumped[c] = heat[c]
    BY <2>1, <2>2
  <2>4. bumped[cell] = IF cell \in DOMAIN heat THEN heat[cell] + 1 ELSE 0 + 1
    BY <1>3 DEF Bump, BumpAll
  <2> QED BY <2>1, <2>3, <2>4
<1>10. DOMAIN new = IF minute > HeatCutoff THEN DOMAIN heat \cup {cell} ELSE DOMAIN heat
  <2>1. CASE minute > HeatCutoff
    BY <1>5, <1>7, <1>8, <1>9, <2>1
  <2>2. CASE ~(minute > HeatCutoff)
    <3>1. cell \notin DOMAIN heat
      BY <1>5, <1>9, <2>2
    <3> QED BY <1>5, <1>7, <1>8, <1>9, <2>2, <3>1
  <2> QED BY <2>1, <2>2
<1>11. \A c \in DOMAIN new : new[c] = bumped[c] /\ c \in DOMAIN bumped /\ c[1] > HeatCutoff
  BY <1>8
<1>12. HeatTyped(new)
  <2>1. \A c \in DOMAIN new : new[c] \in Nat
    BY <1>7, <1>9, <1>11
  <2>2. new = [c \in DOMAIN new |-> new[c]]
    BY <1>8
  <2> QED BY <1>11, <2>1, <2>2 DEF HeatTyped
<1>13. PICK old, shown : old = Heatmap(heat) /\ shown = Heatmap(new)
  OBVIOUS
<1>14. /\ old = [c \in {c \in DOMAIN heat : c[2] \in ShownLevels} |-> heat[c]]
       /\ shown = [c \in {c \in DOMAIN new : c[2] \in ShownLevels} |-> new[c]]
  BY <1>13 DEF Heatmap, Restrict
<1>15. CASE minute > HeatCutoff /\ level \in ShownLevels
  <2>1. DOMAIN shown = DOMAIN old \cup {cell}
    BY <1>5, <1>10, <1>14, <1>15
  <2>2. \A c \in DOMAIN old \ {cell} : shown[c] = old[c]
    BY <1>9, <1>10, <1>11, <1>14
  <2>3. cell \in DOMAIN old <=> cell \in DOMAIN heat
    BY <1>5, <1>14, <1>15
  <2>4. shown[cell] = IF cell \in DOMAIN old THEN old[cell] + 1 ELSE 1
    <3>1. cell \in DOMAIN new /\ cell \in DOMAIN shown
      BY <1>10, <1>15, <2>1
    <3>2. shown[cell] = bumped[cell]
      BY <1>11, <1>14, <3>1
    <3>3. cell \in DOMAIN old => old[cell] = heat[cell]
      BY <1>14
    <3> QED BY <1>9, <2>3, <3>2, <3>3
  <2>5. shown \in [DOMAIN shown -> Nat]
    <3>1. \A c \in DOMAIN shown : c \in DOMAIN new /\ shown[c] = new[c]
      BY <1>14
    <3>2. \A c \in DOMAIN shown : shown[c] \in Nat
      BY <1>12, <3>1 DEF HeatTyped
    <3>3. shown = [c \in DOMAIN shown |-> shown[c]]
      BY <1>14
    <3> QED BY <3>2, <3>3
  <2>6. Counts(shown) /\ SumOf(shown) = SumOf(old) + 1
    BY <1>13, <2>1, <2>2, <2>4, <2>5, OneMore
  <2> QED BY <1>4, <1>6, <1>12, <1>13, <1>15, <2>6
<1>16. CASE ~(minute > HeatCutoff /\ level \in ShownLevels)
  <2>1. {c \in DOMAIN new : c[2] \in ShownLevels} = {c \in DOMAIN heat : c[2] \in ShownLevels}
    <3>1. CASE minute > HeatCutoff
      BY <1>5, <1>10, <1>16, <3>1
    <3>2. CASE ~(minute > HeatCutoff)
      BY <1>10, <3>2
    <3> QED BY <3>1, <3>2
  <2>2. \A c \in {c \in DOMAIN heat : c[2] \in ShownLevels} : new[c] = heat[c]
    <3> SUFFICES ASSUME NEW c \in DOMAIN heat, c[2] \in ShownLevels PROVE new[c] = heat[c]
      OBVIOUS
    <3>1. c # cell
      BY <1>5, <1>9, <1>16
    <3>2. c \in DOMAIN new
      BY <1>10
    <3> QED BY <1>9, <1>11, <3>1, <3>2
  <2>3. shown = old
    BY <1>14, <2>1, <2>2
  <2> QED BY <1>4, <1>6, <1>12, <1>13, <1>16, <2>3
<1> QED BY <1>15, <1>16

(* The window takes the entry in and lets the oldest go.                    *)
LEMMA LatestAppended ==
  ASSUME NEW own \in Seq(Entries), NEW e \in Entries
  PROVE  Latest(Append(own, e)) =
           IF Len(Append(Latest(own), e)) > MaxWindow THEN Tail(Append(Latest(own), e))
           ELSE Append(Latest(own), e)
<1>1. PICK n, a, w, all : /\ n = Len(own) /\ a = (IF n > MaxWindow THEN n - MaxWindow + 1 ELSE 1)
                          /\ w = SubSeq(own, a, n) /\ all = Append(own, e)
  OBVIOUS
<1>2. n \in Nat /\ MaxWindow \in Nat /\ MaxWindow >= 1 /\ a \in Nat /\ a >= 1 /\ a <= n + 1
  BY <1>1, EngineAssumption
<1>3. Latest(own) = w
  BY <1>1 DEF Latest
<1>4. /\ w \in Seq(Entries) /\ Len(w) = n - a + 1
      /\ \A i \in 1..(n - a + 1) : w[i] = own[a + i - 1]
  <2>1. \A i \in a..n : own[i] \in Entries
    BY <1>1, <1>2
  <2>2. a \in Int /\ n \in Int
    BY <1>2
  <2>3. /\ w \in Seq(Entries) /\ Len(w) = (IF a <= n THEN n - a + 1 ELSE 0)
        /\ \A i \in 1..(n - a + 1) : w[i] = own[a + i - 1]
    BY <1>1, <2>1, <2>2, SubSeqProperties
  <2>4. (IF a <= n THEN n - a + 1 ELSE 0) = n - a + 1
    BY <1>2
  <2> QED BY <2>3, <2>4
<1>5. /\ all \in Seq(Entries) /\ Len(all) = n + 1 /\ all[n + 1] = e
      /\ \A i \in 1..n : all[i] = own[i]
  BY <1>1, AppendProperties
<1>6. PICK x : x = Append(w, e)
  OBVIOUS
<1>7. /\ x \in Seq(Entries) /\ Len(x) = n - a + 2
      /\ \A i \in 1..(n - a + 2) : x[i] = all[a + i - 1]
  <2>1. /\ x \in Seq(Entries) /\ Len(x) = Len(w) + 1 /\ x[Len(w) + 1] = e
        /\ \A i \in 1..Len(w) : x[i] = w[i]
    BY <1>4, <1>6, AppendProperties
  <2>2. Len(x) = n - a + 2 /\ x[n - a + 2] = e
    <3>1. Len(w) + 1 = n - a + 2
      BY <1>2, <1>4
    <3> QED BY <2>1, <3>1
  <2>3. ASSUME NEW i \in 1..(n - a + 2) PROVE x[i] = all[a + i - 1]
    <3>1. CASE i = n - a + 2
      <4>1. a + i - 1 = n + 1
        BY <1>2, <3>1
      <4> QED BY <1>5, <2>2, <3>1, <4>1
    <3>2. CASE i # n - a + 2
      <4>1. i \in 1..(n - a + 1) /\ a + i - 1 \in 1..n /\ i \in 1..Len(w)
        BY <1>2, <1>4, <3>2
      <4> QED BY <1>4, <1>5, <2>1, <4>1
    <3> QED BY <3>1, <3>2
  <2> QED BY <2>1, <2>2, <2>3
<1>8. PICK b, y : b = (IF n + 1 > MaxWindow THEN (n + 1) - MaxWindow + 1 ELSE 1) /\ y = SubSeq(all, b, n + 1)
  OBVIOUS
<1>9. b \in Nat /\ b >= 1 /\ b <= n + 1
  BY <1>2, <1>8
<1>10. /\ y \in Seq(Entries) /\ Len(y) = (n + 1) - b + 1
       /\ \A i \in 1..((n + 1) - b + 1) : y[i] = all[b + i - 1]
  <2>1. \A i \in b..(n + 1) : all[i] \in Entries
    BY <1>2, <1>5, <1>9
  <2>2. b \in Int /\ n + 1 \in Int
    BY <1>2, <1>9
  <2>3. /\ y \in Seq(Entries) /\ Len(y) = (IF b <= n + 1 THEN (n + 1) - b + 1 ELSE 0)
        /\ \A i \in 1..((n + 1) - b + 1) : y[i] = all[b + i - 1]
    BY <1>8, <2>1, <2>2, SubSeqProperties
  <2> QED BY <1>9, <2>3
<1>11. Latest(all) = y
  BY <1>5, <1>8 DEF Latest
<1>12. /\ Len(x) = n - a + 2
       /\ n > MaxWindow => a = n - MaxWindow + 1
       /\ ~(n > MaxWindow) => a = 1
       /\ n + 1 > MaxWindow => b = (n + 1) - MaxWindow + 1
       /\ ~(n + 1 > MaxWindow) => b = 1
  <2>1. /\ a = (IF n > MaxWindow THEN n - MaxWindow + 1 ELSE 1)
        /\ b = (IF n + 1 > MaxWindow THEN (n + 1) - MaxWindow + 1 ELSE 1)
    BY <1>1, <1>8
  <2>2. Len(x) = n - a + 2
    BY <1>7
  <2> QED BY <2>1, <2>2
<1>13. CASE Len(x) > MaxWindow
  <2>1. n >= MaxWindow /\ b = a + 1
    <3>1. n >= MaxWindow
      BY <1>2, <1>13, <1>12
    <3>2. CASE n > MaxWindow
      BY <1>2, <1>12, <3>2
    <3>3. CASE n = MaxWindow
      BY <1>2, <1>12, <3>3
    <3> QED BY <1>2, <3>1, <3>2, <3>3
  <2>2. x # <<>>
    BY <1>2, <1>7, <1>13
  <2>3. /\ Tail(x) \in Seq(Entries) /\ Len(Tail(x)) = Len(x) - 1
        /\ \A i \in 1..Len(Tail(x)) : Tail(x)[i] = x[i + 1]
    BY <1>7, <2>2, HeadTailProperties
  <2>4. Len(Tail(x)) = Len(y)
    BY <1>2, <1>7, <1>10, <2>1, <2>3
  <2>5. ASSUME NEW i \in 1..Len(y) PROVE y[i] = Tail(x)[i]
    <3>1. i + 1 \in 1..(n - a + 2) /\ a + (i + 1) - 1 = b + i - 1 /\ i \in 1..((n + 1) - b + 1)
      BY <1>2, <1>10, <2>1, <2>5
    <3>2. y[i] = all[b + i - 1]
      BY <1>10, <3>1
    <3>3. x[i + 1] = all[a + (i + 1) - 1]
      BY <1>7, <3>1
    <3>4. Tail(x)[i] = x[i + 1]
      BY <2>3, <2>4
    <3> QED BY <3>1, <3>2, <3>3, <3>4
  <2>6. y = Tail(x)
    BY <1>10, <2>3, <2>4, <2>5, SeqEqual
  <2> QED BY <1>1, <1>3, <1>6, <1>11, <1>13, <2>6
<1>14. CASE ~(Len(x) > MaxWindow)
  <2>1. a = 1 /\ b = 1
    <3>1. ~(n > MaxWindow)
      BY <1>2, <1>14, <1>12
    <3>2. n # MaxWindow
      BY <1>2, <1>14, <1>12, <3>1
    <3> QED BY <1>2, <1>12, <3>1, <3>2
  <2>2. Len(x) = Len(y)
    BY <1>2, <1>7, <1>10, <2>1
  <2>3. ASSUME NEW i \in 1..Len(y) PROVE y[i] = x[i]
    <3>1. i \in 1..(n - a + 2) /\ a + i - 1 = b + i - 1 /\ i \in 1..((n + 1) - b + 1)
      BY <1>2, <1>10, <2>1, <2>3
    <3> QED BY <1>7, <1>10, <3>1
  <2>4. y = x
    BY <1>7, <1>10, <2>2, <2>3, SeqEqual
  <2> QED BY <1>1, <1>3, <1>6, <1>11, <1>14, <2>4
<1> QED BY <1>13, <1>14

(* tenantState.ingest leaves the state of one entry more.                   *)
LEMMA IngestedHolds ==
  ASSUME NEW st, NEW own \in Seq(Entries), NEW hot \in Nat, Holds(st, own, hot), NEW e \in Entries,
         NEW patterns, NEW by
  PROVE  Holds(Ingested(st, e, patterns, by), Append(own, e), IF e \in Mapped THEN hot + 1 ELSE hot)
<1>1. PICK new, all, n : new = Ingested(st, e, patterns, by) /\ all = Append(own, e) /\ n = Len(own)
  OBVIOUS
<1>2. /\ n \in Nat /\ Len(all) = n + 1 /\ all[n + 1] = e /\ DOMAIN all = 1..(n + 1)
      /\ DOMAIN own = 1..n /\ \A i \in 1..n : all[i] = own[i]
  BY <1>1, AppendProperties
<1>3. DOMAIN st = DOMAIN newTenantState
  BY DEF Holds
<1>4. DOMAIN st = {"window", "total", "severities", "attrs", "heat", "patterns", "bySeverity",
                   "services", "streams"}
  BY <1>3 DEF newTenantState
<1>5. /\ DOMAIN new = DOMAIN st
      /\ new.window = (IF Len(Append(st.window, e)) > MaxWindow THEN Tail(Append(st.window, e))
                       ELSE Append(st.window, e))
      /\ new.total = st.total + 1
      /\ new.attrs = BumpAll(st.attrs, {<<k, e.attrs[k]>> : k \in DOMAIN e.attrs})
      /\ new.heat = HeatWith(st.heat, e)
      /\ new.services = (IF getServiceName(e) = "unknown" THEN st.services
                         ELSE Bump(st.services, getServiceName(e)))
      /\ new.streams = Bump(st.streams, StreamOf(e))
  BY <1>1, <1>4 DEF Ingested
<1>6. new.window = Latest(all) /\ new.total = Len(all)
  <2>1. st.window = Latest(own) /\ st.total = n
    BY <1>1 DEF Holds
  <2> QED BY <1>1, <1>2, <1>5, <2>1, LatestAppended
<1>7. Counts(new.streams) /\ SumOf(new.streams) = Len(all)
  <2>1. Counts(st.streams) /\ SumOf(st.streams) = n
    BY <1>1 DEF Holds
  <2> QED BY <1>2, <1>5, <2>1, BumpCounts
<1>8. /\ HeatTyped(new.heat) /\ Counts(Heatmap(new.heat))
      /\ SumOf(Heatmap(new.heat)) = IF e \in Mapped THEN hot + 1 ELSE hot
  <2>1. HeatTyped(st.heat) /\ Counts(Heatmap(st.heat)) /\ SumOf(Heatmap(st.heat)) = hot
    BY DEF Holds
  <2> QED BY <1>5, <2>1, HeatCounts
<1>9. \A p \in DOMAIN new.attrs : new.attrs[p] \in 0..Len(all)
  <2>1. PICK K, b : K = {<<k, e.attrs[k]>> : k \in DOMAIN e.attrs} /\ b = BumpAll(st.attrs, K)
    OBVIOUS
  <2>2. \A p \in DOMAIN st.attrs : st.attrs[p] \in 0..n
    BY <1>1 DEF Holds
  <2>3. DOMAIN b = DOMAIN st.attrs \cup K
    BY <2>1 DEF BumpAll
  <2>4. ASSUME NEW p \in DOMAIN b PROVE b[p] \in 0..(n + 1)
    <3>1. b[p] = (IF p \in DOMAIN st.attrs THEN st.attrs[p] ELSE 0) + (IF p \in K THEN 1 ELSE 0)
      BY <2>1, <2>3 DEF BumpAll
    <3>2. PICK x : x = IF p \in DOMAIN st.attrs THEN st.attrs[p] ELSE 0
      OBVIOUS
    <3>3. x \in 0..n
      BY <1>2, <2>2, <3>2
    <3>4. b[p] = x + (IF p \in K THEN 1 ELSE 0)
      BY <3>1, <3>2
    <3>5. b[p] = x + 1 \/ b[p] = x + 0
      BY <3>4
    <3> QED BY <1>2, <3>3, <3>5
  <2> QED BY <1>2, <1>5, <2>1, <2>4
<1>10. ASSUME NEW i \in DOMAIN all
       PROVE  getServiceName(all[i]) \in DOMAIN new.services \cup {"unknown"}
  <2>1. DOMAIN st.services \subseteq DOMAIN new.services
    BY <1>5 DEF Bump, BumpAll
  <2>2. getServiceName(e) \in DOMAIN new.services \cup {"unknown"}
    BY <1>5 DEF Bump, BumpAll
  <2>3. \A j \in DOMAIN own : getServiceName(own[j]) \in DOMAIN st.services \cup {"unknown"}
    BY DEF Holds
  <2>4. CASE i = n + 1
    BY <1>2, <2>2, <2>4
  <2>5. CASE i # n + 1
    <3>1. i \in 1..n
      BY <1>2, <2>5
    <3>2. all[i] = own[i] /\ i \in DOMAIN own
      BY <1>2, <3>1
    <3> QED BY <2>1, <2>3, <3>2
  <2> QED BY <2>4, <2>5
<1>11. DOMAIN new = DOMAIN newTenantState
  BY <1>3, <1>5
<1> QED BY <1>1, <1>6, <1>7, <1>8, <1>9, <1>10, <1>11 DEF Holds

(* The entries of a tenant, as a sequence and as a number.                  *)
LEMMA OwnCounted ==
  ASSUME admitted \in Seq(Entries), NEW t
  PROVE  Own(t) \in Seq(Entries) /\ Len(Own(t)) \in Nat /\ Len(Own(t)) = AdmittedFor(t)
<1>1. PICK T : T = {e \in Entries : e.tenant = t}
  OBVIOUS
<1>2. DOMAIN admitted = 1..Len(admitted) /\ Len(admitted) \in Nat
  BY LenProperties
<1>3. Own(t) \in Seq(T) /\ Len(Own(t)) = Cardinality({i \in 1..Len(admitted) : admitted[i] \in T})
  BY <1>1, <1>2, PickedTyped, PickedCount DEF Own
<1>4. {i \in 1..Len(admitted) : admitted[i] \in T} = {k \in DOMAIN admitted : admitted[k].tenant = t}
  BY <1>1, <1>2
<1>5. T \subseteq Entries
  BY <1>1
<1>6. Own(t) \in Seq(Entries)
  BY <1>3, <1>5, SeqMonotonic
<1> QED BY <1>3, <1>4, <1>6, LenProperties DEF AdmittedFor

LEMMA OwnAppended ==
  ASSUME admitted \in Seq(Entries), NEW e \in Entries, admitted' = Append(admitted, e), NEW t
  PROVE  /\ Own(t)' = IF e.tenant = t THEN Append(Own(t), e) ELSE Own(t)
         /\ HotFor(t) \in Nat
         /\ HotFor(t)' = IF e.tenant = t /\ e \in Mapped THEN HotFor(t) + 1 ELSE HotFor(t)
<1>1. PICK T : T = {d \in Entries : d.tenant = t}
  OBVIOUS
<1>2. Own(t) = Picked(admitted, T) /\ Own(t)' = Picked(admitted', T)
  BY <1>1 DEF Own
<1>3. e \in T <=> e.tenant = t
  BY <1>1
<1>4. Own(t)' = IF e \in T THEN Append(Own(t), e) ELSE Own(t)
  BY <1>2, PickedAppend
<1>5. e \in Hot(t) <=> e.tenant = t /\ e \in Mapped
  BY DEF Hot
<1>6. HotFor(t) \in Nat
  BY PlacesCounted DEF HotFor
<1>7. Cardinality(Places(Append(admitted, e), Hot(t))) =
        IF e \in Hot(t) THEN Cardinality(Places(admitted, Hot(t))) + 1 ELSE Cardinality(Places(admitted, Hot(t)))
  BY PlacesAppended
<1>8. HotFor(t)' = Cardinality(Places(Append(admitted, e), Hot(t)))
  BY DEF HotFor
<1> QED BY <1>3, <1>4, <1>5, <1>6, <1>7, <1>8 DEF HotFor

(* The entries with a text of a tenant, all or those of a severity.         *)
Texts(t, group) ==
  {e \in Entries : e.tenant = t /\ e.body # Blank /\ (group = "all" \/ e.severity = group)}
TextsFor(t, group) == Cardinality(Places(admitted, Texts(t, group)))

(* The miners of a state hold what has a text.                              *)
Mines(st, t) ==
  /\ DOMAIN st = DOMAIN newTenantState
  /\ MinerExact(st.patterns, TextsFor(t, "all"))
  /\ DOMAIN st.bySeverity = MinedSeverities
  /\ \A s \in MinedSeverities : MinerExact(st.bySeverity[s], TextsFor(t, s))
MinersExact == \A t \in EngineTenants : Mines(StateOf(t), t)

LEMMA TextsAppended ==
  ASSUME admitted \in Seq(Entries), NEW e \in Entries, admitted' = Append(admitted, e), NEW t, NEW group
  PROVE  /\ TextsFor(t, group) \in Nat
         /\ TextsFor(t, group)' = IF e \in Texts(t, group) THEN TextsFor(t, group) + 1 ELSE TextsFor(t, group)
<1>1. TextsFor(t, group)' = Cardinality(Places(Append(admitted, e), Texts(t, group)))
  BY DEF TextsFor, Texts
<1>2. PICK T : T = Texts(t, group)
  OBVIOUS
<1>3. Cardinality(Places(Append(admitted, e), T)) =
        IF e \in T THEN Cardinality(Places(admitted, T)) + 1 ELSE Cardinality(Places(admitted, T))
  BY PlacesAppended
<1>4. Cardinality(Places(admitted, T)) \in Nat
  BY PlacesCounted
<1> QED BY <1>1, <1>2, <1>3, <1>4 DEF TextsFor

(* tenantState.ingest leaves the miners of one entry more.                  *)
LEMMA IngestedMines ==
  ASSUME admitted \in Seq(Entries), NEW e \in Entries, admitted' = Append(admitted, e),
         NEW st, Mines(st, e.tenant),
         NEW patterns \in Mined(st.patterns, e.body), NEW by \in MinedBySeverity(st.bySeverity, e),
         NEW new, new = Ingested(st, e, patterns, by)
  PROVE  /\ DOMAIN new = DOMAIN newTenantState
         /\ MinerExact(new.patterns, TextsFor(e.tenant, "all")')
         /\ DOMAIN new.bySeverity = MinedSeverities
         /\ \A s \in MinedSeverities : MinerExact(new.bySeverity[s], TextsFor(e.tenant, s)')
<1>1. DOMAIN st = DOMAIN newTenantState
  BY DEF Mines
<1>2. "patterns" \in DOMAIN st /\ "bySeverity" \in DOMAIN st
  BY <1>1 DEF newTenantState
<1>3. DOMAIN new = DOMAIN st /\ new.patterns = patterns /\ new.bySeverity = by
  BY <1>2 DEF Ingested
<1>4. PICK t : t = e.tenant
  OBVIOUS
<1>5. ASSUME NEW group, NEW m, MinerExact(m, TextsFor(t, group)), group = "all" \/ e.severity = group,
             NEW x \in Mined(m, e.body)
      PROVE  MinerExact(x, TextsFor(t, group)')
  <2>1. PICK n, after : n = TextsFor(t, group) /\ after = TextsFor(t, group)'
    OBVIOUS
  <2>2. n \in Nat /\ after = IF e \in Texts(t, group) THEN n + 1 ELSE n
    BY <2>1, TextsAppended
  <2>3. e \in Texts(t, group) <=> e.body # Blank
    BY <1>4, <1>5 DEF Texts
  <2>4. (e.body = Blank => MinerExact(x, n)) /\ (e.body # Blank => MinerExact(x, n + 1))
    BY <1>5, <2>1, <2>2, MinedExactly
  <2>5. MinerExact(x, after)
    BY <2>2, <2>3, <2>4
  <2> QED BY <2>1, <2>5
<1>6. MinerExact(new.patterns, TextsFor(t, "all")')
  <2>1. MinerExact(st.patterns, TextsFor(t, "all"))
    BY <1>4 DEF Mines
  <2> QED BY <1>3, <1>5, <2>1
<1>7. ASSUME NEW s \in MinedSeverities, s # e.severity PROVE TextsFor(t, s)' = TextsFor(t, s)
  <2>1. s # "all"
    BY DEF MinedSeverities
  <2>2. e \notin Texts(t, s)
    BY <1>7, <2>1 DEF Texts
  <2> QED BY <2>2, TextsAppended
<1>8. DOMAIN st.bySeverity = MinedSeverities /\ \A s \in MinedSeverities : MinerExact(st.bySeverity[s], TextsFor(t, s))
  BY <1>4 DEF Mines
<1>9. CASE e.severity \in MinedSeverities
  <2>1. PICK m \in Mined(st.bySeverity[e.severity], e.body) :
          by = [st.bySeverity EXCEPT ![e.severity] = m]
    BY <1>9 DEF MinedBySeverity
  <2>2. DOMAIN by = MinedSeverities /\ by[e.severity] = m
    BY <1>8, <1>9, <2>1
  <2>3. \A s \in MinedSeverities \ {e.severity} : by[s] = st.bySeverity[s]
    BY <1>8, <2>1
  <2>4. MinerExact(m, TextsFor(t, e.severity)')
    BY <1>5, <1>8, <1>9, <2>1
  <2>5. ASSUME NEW s \in MinedSeverities PROVE MinerExact(by[s], TextsFor(t, s)')
    <3>1. CASE s = e.severity
      <4>1. TextsFor(t, s)' = TextsFor(t, e.severity)'
        BY <3>1 DEF TextsFor, Texts
      <4> QED BY <2>2, <2>4, <3>1, <4>1
    <3>2. CASE s # e.severity
      BY <1>7, <1>8, <2>3, <3>2
    <3> QED BY <3>1, <3>2
  <2> QED BY <1>1, <1>3, <1>4, <1>6, <2>2, <2>5
<1>10. CASE e.severity \notin MinedSeverities
  <2>1. by = st.bySeverity
    BY <1>10 DEF MinedBySeverity
  <2>2. \A s \in MinedSeverities : MinerExact(by[s], TextsFor(t, s)')
    BY <1>7, <1>8, <1>10, <2>1
  <2> QED BY <1>1, <1>3, <1>4, <1>6, <1>8, <2>1, <2>2
<1> QED BY <1>9, <1>10

(* Each tenant's state, or the one it would be given, holds its entries;    *)
(* a request is for a tenant its caller may see; and a first look has       *)
(* counted no more than there were.                                         *)
StatesExact == \A t \in EngineTenants : Holds(StateOf(t), Own(t), HotFor(t))

MayRead(request) == request.caller.admin \/ request.tenant = request.caller.tenant
Scoped           == \A g \in Readers : at[g] # "idle" => MayRead(task[g])

Looks         == {"attributes", "status", "summary"}
FirstOf(a, n) == \E kind \in Looks, first \in 0..n : a = [kind |-> kind, first |-> first]
FirstLooks    ==
  /\ answer = [g \in Readers |-> answer[g]]
  /\ \A g \in Readers : at[g] = "second" => FirstOf(answer[g], AdmittedFor(task[g].tenant))

AnswerInv == EngineInv /\ StatesExact /\ MinersExact /\ Scoped /\ FirstLooks

LEMMA AnswerInitial == EngineInit => AnswerInv
<1> SUFFICES ASSUME EngineInit PROVE AnswerInv
  OBVIOUS
<1>1. EngineInv
  BY EngineInitial
<1>2. /\ admitted = <<>> /\ tenants = [t \in EngineTenants |-> None]
      /\ at = [g \in Goroutines |-> "idle"] /\ answer = [g \in Readers |-> None]
  BY DEF EngineInit, Goroutines
<1>3. ASSUME NEW t \in EngineTenants PROVE Holds(StateOf(t), Own(t), HotFor(t))
  <2>1. StateOf(t) = newTenantState
    BY <1>2 DEF StateOf
  <2>2. Own(t) = <<>>
    BY <1>2, PickedNothing DEF Own
  <2>3. HotFor(t) = 0
    <3>1. Places(admitted, Hot(t)) = {}
      BY <1>2 DEF Places
    <3> QED BY <3>1, FS_EmptySet DEF HotFor
  <2> QED BY <2>1, <2>2, <2>3, NewHoldsNothing
<1>4. Scoped /\ FirstLooks
  BY <1>2 DEF Scoped, FirstLooks, Goroutines
<1>5. ASSUME NEW t \in EngineTenants PROVE Mines(StateOf(t), t)
  <2>1. StateOf(t) = newTenantState
    BY <1>2 DEF StateOf
  <2>2. ASSUME NEW group PROVE TextsFor(t, group) = 0
    <3>1. Places(admitted, Texts(t, group)) = {}
      BY <1>2 DEF Places
    <3> QED BY <3>1, FS_EmptySet DEF TextsFor
  <2>3. /\ newTenantState.patterns = <<>>
        /\ newTenantState.bySeverity = [s \in MinedSeverities |-> <<>>]
    BY DEF newTenantState
  <2>4. /\ DOMAIN newTenantState.bySeverity = MinedSeverities
        /\ \A s \in MinedSeverities : newTenantState.bySeverity[s] = <<>>
    BY <2>3
  <2> QED BY <2>1, <2>2, <2>3, <2>4, FreshMiner DEF Mines
<1> QED BY <1>1, <1>3, <1>4, <1>5 DEF AnswerInv, StatesExact, MinersExact

(* A step that admits nothing, with the states as they are or as they would *)
(* be given.                                                                *)
LEMMA StatesRest ==
  ASSUME StatesExact, MinersExact, admitted' = admitted,
         \A t \in EngineTenants : StateOf(t)' = StateOf(t)
  PROVE  StatesExact' /\ MinersExact'
<1>1. ASSUME NEW t \in EngineTenants PROVE Holds(StateOf(t)', Own(t)', HotFor(t)')
  <2>1. Own(t)' = Own(t)
    BY DEF Own
  <2>2. HotFor(t)' = HotFor(t)
    BY DEF HotFor
  <2> QED BY <2>1, <2>2 DEF StatesExact
<1>2. StatesExact'
  BY <1>1 DEF StatesExact, Holds, HeatTyped, Latest, Counts, Units, newTenantState
<1>3. ASSUME NEW t \in EngineTenants PROVE Mines(StateOf(t), t)'
  <2>1. Mines(StateOf(t), t)
    BY DEF MinersExact
  <2>2. \A group : TextsFor(t, group)' = TextsFor(t, group)
    BY DEF TextsFor, Texts
  <2>3. PICK st : st = StateOf(t)
    OBVIOUS
  <2>4. /\ MinerExact(st.patterns, TextsFor(t, "all")')
        /\ \A s \in MinedSeverities : MinerExact(st.bySeverity[s], TextsFor(t, s)')
    BY <2>1, <2>2, <2>3 DEF Mines
  <2> QED BY <2>1, <2>3, <2>4 DEF Mines, MinerExact, newTenantState
<1>4. MinersExact'
  BY <1>3 DEF MinersExact
<1> QED BY <1>2, <1>4

LEMMA InsertStands == ASSUME EngineInv, NEW g \in Goroutines, Insert(g), NEW u \in EngineTenants
                      PROVE  StateOf(u)' = StateOf(u)
<1>1. PICK t \in EngineTenants : t = task[g].tenant
  BY DEF Insert, EngineInv, TasksSet
<1> DEFINE id == Existing(g, t)
<1>2. /\ tenants' = [tenants EXCEPT ![t] = id]
      /\ states' = [i \in DOMAIN states \cup {id} |-> IF i \in DOMAIN states THEN states[i] ELSE newTenantState]
  BY <1>1 DEF Insert
<1>3. tenants \in [EngineTenants -> (Goroutines \X EngineTenants) \cup {None}]
  BY DEF EngineInv, EngineTypeOK
<1>4. /\ id # None
      /\ tenants[t] # None => id = tenants[t] /\ id \in DOMAIN states
      /\ tenants[t] = None => id \in Goroutines \X EngineTenants /\ id[2] = t
  BY <1>3, EngineAssumption DEF Existing, Goroutines, EngineInv, OneState
<1>5. tenants[t] = None => id \notin DOMAIN states
  BY <1>4 DEF EngineInv, OneState
<1> HIDE DEF id
<1>6. tenants'[t] = id /\ \A v \in EngineTenants : v # t => tenants'[v] = tenants[v]
  BY <1>2, <1>3
<1>7. /\ \A k \in DOMAIN states : states'[k] = states[k]
      /\ id \notin DOMAIN states => states'[id] = newTenantState
  BY <1>2
<1>8. \A v \in EngineTenants : tenants[v] # None => tenants[v] \in DOMAIN states
  BY DEF EngineInv, OneState
<1>9. StateOf(u)' = IF tenants'[u] = None THEN newTenantState ELSE states'[tenants'[u]]
  BY DEF StateOf, newTenantState
<1>10. CASE tenants[u] # None
  <2>1. tenants'[u] = tenants[u] /\ tenants[u] \in DOMAIN states
    BY <1>4, <1>6, <1>8, <1>10
  <2> QED BY <1>7, <1>9, <1>10, <2>1 DEF StateOf
<1>11. CASE tenants[u] = None /\ u = t
  <2>1. tenants'[u] = id /\ states'[id] = newTenantState
    BY <1>5, <1>6, <1>7, <1>11
  <2> QED BY <1>4, <1>9, <1>11, <2>1 DEF StateOf
<1>12. CASE tenants[u] = None /\ u # t
  BY <1>6, <1>9, <1>12 DEF StateOf
<1> QED BY <1>10, <1>11, <1>12

LEMMA AdmitExact == ASSUME AnswerInv, NEW g \in Ingesters, Admit(g) PROVE StatesExact' /\ MinersExact'
<1>1. at[g] = "use" /\ g \in Goroutines /\ EngineInv
  BY DEF Admit, Goroutines, AnswerInv
<1>2. PICK e \in Entries : e = task[g] /\ e.tenant \in EngineTenants
  BY <1>1 DEF EngineInv, TasksSet
<1>3. PICK id \in DOMAIN states : id = held[g] /\ id = tenants[e.tenant] /\ id # None
  BY <1>1, <1>2 DEF EngineInv, HeldIsRegistered, OneState
<1>4. PICK patterns \in Mined(states[id].patterns, e.body),
           by \in MinedBySeverity(states[id].bySeverity, e) :
        /\ states' = [states EXCEPT ![id] = Ingested(@, e, patterns, by)]
        /\ admitted' = Append(admitted, e) /\ UNCHANGED tenants
  BY <1>2, <1>3 DEF Admit
<1>5. admitted \in Seq(Entries)
  BY <1>1 DEF EngineInv, EngineTypeOK
<1>6. states'[id] = Ingested(states[id], e, patterns, by) /\ \A k \in DOMAIN states : k # id => states'[k] = states[k]
  BY <1>4
<1>7. ASSUME NEW t \in EngineTenants
      PROVE  /\ e.tenant = t => StateOf(t) = states[id] /\ StateOf(t)' = Ingested(states[id], e, patterns, by)
             /\ e.tenant # t => StateOf(t)' = StateOf(t)
  <2>1. StateOf(t)' = IF tenants[t] = None THEN newTenantState ELSE states'[tenants[t]]
    BY <1>4 DEF StateOf, newTenantState
  <2>2. CASE e.tenant = t
    BY <1>3, <1>6, <2>1, <2>2 DEF StateOf
  <2>3. CASE e.tenant # t
    <3>1. tenants[t] # None => tenants[t] \in DOMAIN states /\ tenants[t] # id
      BY <1>1, <1>2, <1>3, <2>3 DEF EngineInv, OneState
    <3>2. StateOf(t)' = StateOf(t)
      BY <1>6, <2>1, <3>1 DEF StateOf
    <3> QED BY <2>3, <3>2
  <2> QED BY <2>2, <2>3
<1>8. ASSUME NEW t \in EngineTenants PROVE Holds(StateOf(t)', Own(t)', HotFor(t)')
  <2>1. Holds(StateOf(t), Own(t), HotFor(t)) /\ Own(t) \in Seq(Entries)
    BY <1>5, OwnCounted DEF AnswerInv, StatesExact
  <2>2. /\ Own(t)' = IF e.tenant = t THEN Append(Own(t), e) ELSE Own(t)
        /\ HotFor(t) \in Nat
        /\ HotFor(t)' = IF e.tenant = t /\ e \in Mapped THEN HotFor(t) + 1 ELSE HotFor(t)
    BY <1>4, <1>5, OwnAppended
  <2>3. CASE e.tenant = t
    <3>1. StateOf(t) = states[id] /\ StateOf(t)' = Ingested(StateOf(t), e, patterns, by)
      BY <1>7, <2>3
    <3>2. Own(t)' = Append(Own(t), e) /\ HotFor(t)' = IF e \in Mapped THEN HotFor(t) + 1 ELSE HotFor(t)
      BY <2>2, <2>3
    <3> QED BY <2>1, <2>2, <3>1, <3>2, IngestedHolds
  <2>4. CASE e.tenant # t
    <3>1. StateOf(t)' = StateOf(t) /\ Own(t)' = Own(t) /\ HotFor(t)' = HotFor(t)
      BY <1>7, <2>2, <2>4
    <3> QED BY <2>1, <3>1
  <2> QED BY <2>3, <2>4
<1>9. StatesExact'
  BY <1>8 DEF StatesExact, Holds, HeatTyped, Latest, Counts, Units, newTenantState
<1>10. ASSUME NEW t \in EngineTenants PROVE Mines(StateOf(t), t)'
  <2>1. Mines(StateOf(t), t)
    BY DEF AnswerInv, MinersExact
  <2>2. PICK new : new = StateOf(t)'
    OBVIOUS
  <2>3. /\ DOMAIN new = DOMAIN newTenantState
        /\ MinerExact(new.patterns, TextsFor(t, "all")')
        /\ DOMAIN new.bySeverity = MinedSeverities
        /\ \A s \in MinedSeverities : MinerExact(new.bySeverity[s], TextsFor(t, s)')
    <3>1. CASE e.tenant = t
      <4>1. new = Ingested(states[id], e, patterns, by) /\ Mines(states[id], e.tenant)
        BY <1>7, <2>1, <2>2, <3>1
      <4>2. /\ DOMAIN new = DOMAIN newTenantState
            /\ MinerExact(new.patterns, TextsFor(e.tenant, "all")')
            /\ DOMAIN new.bySeverity = MinedSeverities
            /\ \A s \in MinedSeverities : MinerExact(new.bySeverity[s], TextsFor(e.tenant, s)')
        BY <1>4, <1>5, <4>1, IngestedMines
      <4>3. \A group : TextsFor(e.tenant, group)' = TextsFor(t, group)'
        BY <3>1 DEF TextsFor, Texts
      <4> QED BY <4>2, <4>3
    <3>2. CASE e.tenant # t
      <4>1. new = StateOf(t)
        BY <1>7, <2>2, <3>2
      <4>2. ASSUME NEW group PROVE TextsFor(t, group)' = TextsFor(t, group)
        <5>1. e \notin Texts(t, group)
          BY <3>2 DEF Texts
        <5> QED BY <1>4, <1>5, <5>1, TextsAppended
      <4> QED BY <2>1, <4>1, <4>2 DEF Mines
    <3> QED BY <3>1, <3>2
  <2> QED BY <2>2, <2>3 DEF Mines, MinerExact, newTenantState
<1>11. MinersExact'
  BY <1>10 DEF MinersExact
<1> QED BY <1>9, <1>11

(* The state a reader has in hand is its tenant's.                          *)
LEMMA HeldIsState ==
  ASSUME AnswerInv, NEW g \in Readers, at[g] \in {"use", "second"}
  PROVE  /\ task[g].tenant \in EngineTenants
         /\ states[held[g]] = StateOf(task[g].tenant)
         /\ MayRead(task[g])
<1>1. g \in Goroutines /\ at[g] \notin {"idle", "insert"}
  BY DEF Goroutines
<1>2. held[g] = tenants[task[g].tenant] /\ held[g] # None /\ task[g].tenant \in EngineTenants
  BY <1>1 DEF AnswerInv, EngineInv, HeldIsRegistered, TasksSet
<1>3. MayRead(task[g])
  BY <1>1 DEF AnswerInv, Scoped
<1> QED BY <1>2, <1>3 DEF StateOf

(* The most frequent attribute is in no more entries than there are.        *)
LEMMA MostBounded ==
  ASSUME NEW n \in Nat, NEW counts, \A k \in DOMAIN counts : counts[k] \in 0..n
  PROVE  Most(counts) \in 0..n
<1>1. CASE DOMAIN counts = {}
  BY <1>1 DEF Most
<1>2. CASE DOMAIN counts # {}
  <2>1. PICK V : V = {counts[k] : k \in DOMAIN counts}
    OBVIOUS
  <2>2. V # {} /\ \A v \in V : v \in 0..n
    BY <1>2, <2>1
  <2>3. PICK D : D = {n - v : v \in V}
    OBVIOUS
  <2>4. D \subseteq Nat /\ D # {}
    BY <2>2, <2>3
  <2>5. PICK d \in D : \A y \in D : d <= y
    BY <2>4, LeastNumber
  <2>6. PICK m \in V : d = n - m
    BY <2>3
  <2>7. \A v \in V : m >= v
    BY <2>2, <2>3, <2>5, <2>6
  <2>8. Max(V) \in V
    BY <2>7 DEF Max
  <2>9. Most(counts) = Max(V)
    BY <1>2, <2>1 DEF Most
  <2> QED BY <2>2, <2>8, <2>9
<1> QED BY <1>1, <1>2

LEMMA WindowCounted ==
  ASSUME NEW own \in Seq(Entries)
  PROVE  /\ Latest(own) \in Seq(Entries) /\ Len(Latest(own)) \in 0..Len(own)
         /\ \A i \in DOMAIN Latest(own) : \E j \in DOMAIN own : Latest(own)[i] = own[j]
<1>1. PICK n, a : n = Len(own) /\ a = (IF n > MaxWindow THEN n - MaxWindow + 1 ELSE 1)
  OBVIOUS
<1>2. n \in Nat /\ a \in Nat /\ a >= 1 /\ a <= n + 1 /\ DOMAIN own = 1..n
  BY <1>1, EngineAssumption
<1>3. \A i \in a..n : own[i] \in Entries
  BY <1>1, <1>2
<1>4. PICK w : w = SubSeq(own, a, n)
  OBVIOUS
<1>5. /\ w \in Seq(Entries) /\ Len(w) = (IF a <= n THEN n - a + 1 ELSE 0)
      /\ \A i \in 1..(n - a + 1) : w[i] = own[a + i - 1]
  BY <1>2, <1>3, <1>4, SubSeqProperties
<1>6. Len(w) = n - a + 1 /\ Len(w) \in 0..n
  BY <1>2, <1>5
<1>7. DOMAIN w = 1..(n - a + 1)
  BY <1>5, <1>6, LenProperties
<1>8. ASSUME NEW i \in DOMAIN w PROVE \E j \in DOMAIN own : w[i] = own[j]
  <2>1. i \in 1..(n - a + 1) /\ a + i - 1 \in 1..n
    BY <1>2, <1>7
  <2> QED BY <1>2, <1>5, <2>1
<1> QED BY <1>1, <1>4, <1>5, <1>6, <1>8 DEF Latest

LEMMA FirstBounded ==
  ASSUME NEW own \in Seq(Entries), NEW st, NEW hot, Holds(st, own, hot), NEW kind \in Looks, NEW f
  PROVE  FirstRead(kind, st, f) \in 0..Len(own)
<1>1. Len(own) \in Nat
  BY LenProperties
<1>2. CASE kind = "attributes"
  <2>1. FirstRead(kind, st, f) = Most(st.attrs)
    BY <1>2 DEF FirstRead
  <2> QED BY <1>1, <2>1, MostBounded DEF Holds
<1>3. CASE kind = "status"
  BY <1>1, <1>3 DEF FirstRead, Holds
<1>4. CASE kind = "summary"
  <2>1. FirstRead(kind, st, f) = Len(filterEntries(Latest(own), f))
    BY <1>4 DEF FirstRead, Holds
  <2>2. PICK w : w = Latest(own)
    OBVIOUS
  <2>3. w \in Seq(Entries) /\ Len(w) \in 0..Len(own)
    BY <2>2, WindowCounted
  <2>4. Len(filterEntries(w, f)) \in 0..Len(w)
    BY <2>3, FilterCounts
  <2> QED BY <1>1, <2>1, <2>2, <2>3, <2>4
<1> QED BY <1>2, <1>3, <1>4 DEF Looks

(* The second look at the counts reads them all.                            *)
LEMMA SecondIsAll ==
  ASSUME NEW own, NEW st, NEW hot, Holds(st, own, hot), NEW kind \in {"attributes", "status"},
         NEW second \in SecondReads(kind, st)
  PROVE  second = Len(own)
<1>1. CASE kind = "attributes"
  BY <1>1 DEF SecondReads, Holds
<1>2. CASE kind = "status"
  BY <1>2 DEF SecondReads, Holds
<1> QED BY <1>1, <1>2

(* A step of g's, with the readers other than g where they were.            *)
LEMMA ReaderMoves ==
  ASSUME AnswerInv, NEW g, answer' = [h \in Readers |-> answer'[h]],
         \A h \in Readers \ {g} : at'[h] = at[h] /\ task'[h] = task[h] /\ answer'[h] = answer[h],
         \A t \in EngineTenants : AdmittedFor(t) \in Nat /\ AdmittedFor(t)' \in Nat
                                  /\ AdmittedFor(t) <= AdmittedFor(t)',
         g \in Readers => /\ at'[g] # "idle" => MayRead(task'[g])
                          /\ at'[g] = "second" => FirstOf(answer[g], AdmittedFor(task[g].tenant))'
  PROVE  Scoped' /\ FirstLooks'
<1>1. ASSUME NEW h \in Readers, at'[h] # "idle" PROVE MayRead(task'[h])
  BY <1>1 DEF AnswerInv, Scoped
<1>2. ASSUME NEW h \in Readers, at'[h] = "second"
      PROVE  FirstOf(answer[h], AdmittedFor(task[h].tenant))'
  <2>1. CASE h = g
    BY <1>2, <2>1
  <2>2. CASE h # g
    <3>1. at[h] = "second" /\ task'[h] = task[h] /\ answer'[h] = answer[h]
      BY <1>2, <2>2
    <3>2. PICK t : t = task[h].tenant
      OBVIOUS
    <3>3. t \in EngineTenants
      BY <3>1, <3>2 DEF AnswerInv, EngineInv, TasksSet, Goroutines
    <3>4. FirstOf(answer[h], AdmittedFor(t))
      BY <3>1, <3>2 DEF AnswerInv, FirstLooks
    <3>5. PICK m, n : m = AdmittedFor(t) /\ n = AdmittedFor(t)'
      OBVIOUS
    <3>6. m \in Nat /\ n \in Nat /\ m <= n
      BY <3>3, <3>5
    <3>7. FirstOf(answer[h], n)
      BY <3>4, <3>5, <3>6 DEF FirstOf
    <3>8. FirstOf(answer[h], AdmittedFor(task[h].tenant))' <=> FirstOf(answer[h], n)
      BY <3>1, <3>2, <3>5 DEF FirstOf, AdmittedFor
    <3> QED BY <3>7, <3>8
  <2> QED BY <2>1, <2>2
<1>3. Scoped'
  BY <1>1 DEF Scoped, MayRead
<1>4. FirstLooks'
  <2> QED BY <1>2 DEF FirstLooks
<1> QED BY <1>3, <1>4

LEMMA AdmittedGrows ==
  ASSUME AnswerInv, [EngineNext]_engineVars
  PROVE  \A t \in EngineTenants :
           AdmittedFor(t) \in Nat /\ AdmittedFor(t)' \in Nat /\ AdmittedFor(t) <= AdmittedFor(t)'
<1>1. EngineInv /\ EngineInv' /\ EngineGrows
  BY EngineInductive DEF AnswerInv
<1>2. \A t \in EngineTenants : Total(t) = AdmittedFor(t) /\ Total(t)' = AdmittedFor(t)'
  BY <1>1 DEF EngineInv, TotalsExact
<1> QED BY <1>1, <1>2 DEF EngineGrows

(* The steps that find or make a state: none of them changes an answer but  *)
(* Ask, which forgets the last one.                                         *)
LEMMA FindingAnswers ==
  ASSUME AnswerInv, [EngineNext]_engineVars, NEW g \in Goroutines,
         \/ g \in Ingesters /\ (CallIngest(g) \/ Admit(g))
         \/ g \in Readers /\ Ask(g)
         \/ Insert(g)
  PROVE  Scoped' /\ FirstLooks'
<1>1. /\ DOMAIN at = Goroutines /\ DOMAIN task = Goroutines /\ answer = [h \in Readers |-> answer[h]]
  BY DEF AnswerInv, EngineInv, EngineTypeOK, FirstLooks
<1>2. \A t \in EngineTenants :
        AdmittedFor(t) \in Nat /\ AdmittedFor(t)' \in Nat /\ AdmittedFor(t) <= AdmittedFor(t)'
  BY AdmittedGrows
<1>3. CASE g \in Ingesters /\ (CallIngest(g) \/ Admit(g))
  <2>1. g \notin Readers /\ answer' = answer
    BY <1>3, EngineAssumption DEF CallIngest, Admit
  <2>2. \A h \in Readers \ {g} : at'[h] = at[h] /\ task'[h] = task[h]
    <3>1. CASE Admit(g)
      BY <1>1, <3>1 DEF Admit, Goes, Goroutines
    <3>2. CASE CallIngest(g)
      BY <1>1, <3>2 DEF CallIngest, FindState, Goes, Goroutines
    <3> QED BY <1>3, <3>1, <3>2
  <2>3. answer' = [h \in Readers |-> answer'[h]] /\ \A h \in Readers \ {g} : answer'[h] = answer[h]
    BY <1>1, <2>1
  <2> QED BY <1>2, <2>1, <2>2, <2>3, ReaderMoves
<1>4. CASE g \in Readers /\ Ask(g)
  <2>1. PICK caller \in Callers, requested \in EngineTenants \cup {Unset} :
          LET t == resolveTenant(caller, requested)
          IN  task' = [task EXCEPT ![g] = [caller |-> caller, tenant |-> t]] /\ FindState(g, t)
    BY <1>4 DEF Ask
  <2>2. PICK t, x : /\ t = resolveTenant(caller, requested)
                    /\ x = [caller |-> caller, tenant |-> t]
    OBVIOUS
  <2>3. /\ task' = [task EXCEPT ![g] = x] /\ answer' = [answer EXCEPT ![g] = None]
        /\ at' = [at EXCEPT ![g] = IF tenants[t] = None THEN "insert" ELSE "use"]
    BY <1>4, <2>1, <2>2 DEF Ask, FindState, Goes
  <2>4. MayRead(x)
    <3>1. x.caller = caller /\ x.tenant = t
      BY <2>2
    <3>2. caller.admin \/ t = caller.tenant
      BY <2>2 DEF resolveTenant
    <3> QED BY <3>1, <3>2 DEF MayRead
  <2>5. g \in Readers /\ task'[g] = x /\ at'[g] # "second"
    BY <1>1, <1>4, <2>3
  <2>6. /\ answer' = [h \in Readers |-> answer'[h]]
        /\ \A h \in Readers \ {g} : at'[h] = at[h] /\ task'[h] = task[h] /\ answer'[h] = answer[h]
    BY <1>1, <2>3 DEF Goroutines
  <2> QED BY <1>2, <2>4, <2>5, <2>6, ReaderMoves
<1>5. CASE Insert(g)
  <2>1. at[g] = "insert" /\ at' = [at EXCEPT ![g] = "use"] /\ task' = task /\ answer' = answer
    BY <1>5 DEF Insert, Goes
  <2>2. at'[g] = "use"
    BY <1>1, <2>1
  <2>3. g \in Readers => MayRead(task'[g])
    BY <2>1 DEF AnswerInv, Scoped
  <2>4. /\ answer' = [h \in Readers |-> answer'[h]]
        /\ \A h \in Readers \ {g} : at'[h] = at[h] /\ task'[h] = task[h] /\ answer'[h] = answer[h]
    BY <1>1, <2>1 DEF Goroutines
  <2> QED BY <1>2, <2>2, <2>3, <2>4, ReaderMoves
<1> QED BY <1>3, <1>4, <1>5

(* The steps that look at a state.                                          *)
LEMMA LookingAnswers ==
  ASSUME AnswerInv, [EngineNext]_engineVars, NEW g \in Readers, Answer(g) \/ FirstLook(g) \/ SecondLook(g)
  PROVE  Scoped' /\ FirstLooks'
<1>1. /\ DOMAIN at = Goroutines /\ DOMAIN task = Goroutines /\ answer = [h \in Readers |-> answer[h]]
      /\ g \in Goroutines
  BY DEF AnswerInv, EngineInv, EngineTypeOK, FirstLooks, Goroutines
<1>2. \A t \in EngineTenants :
        AdmittedFor(t) \in Nat /\ AdmittedFor(t)' \in Nat /\ AdmittedFor(t) <= AdmittedFor(t)'
  BY AdmittedGrows
<1>3. CASE Answer(g) \/ SecondLook(g)
  <2>1. PICK reply : Reply(g, reply)
    BY <1>3 DEF Answer, SecondLook
  <2>2. answer' = [answer EXCEPT ![g] = reply] /\ at' = [at EXCEPT ![g] = "idle"] /\ task' = task
    BY <2>1 DEF Reply, Goes
  <2>3. /\ answer' = [h \in Readers |-> answer'[h]] /\ at'[g] = "idle"
        /\ \A h \in Readers \ {g} : at'[h] = at[h] /\ task'[h] = task[h] /\ answer'[h] = answer[h]
    BY <1>1, <2>2 DEF Goroutines
  <2> QED BY <1>2, <2>3, ReaderMoves
<1>4. CASE FirstLook(g)
  <2>1. at[g] = "use" /\ at' = [at EXCEPT ![g] = "second"] /\ task' = task /\ admitted' = admitted
    BY <1>4 DEF FirstLook, Goes
  <2>2. PICK kind \in Looks, f \in Filters :
          answer' = [answer EXCEPT ![g] = [kind |-> kind, first |-> FirstRead(kind, states[held[g]], f)]]
    BY <1>4 DEF FirstLook, Looks
  <2>3. PICK t, st : t = task[g].tenant /\ st = states[held[g]]
    OBVIOUS
  <2>4. t \in EngineTenants /\ st = StateOf(t) /\ MayRead(task[g])
    BY <2>1, <2>3, HeldIsState
  <2>5. Holds(st, Own(t), HotFor(t))
    BY <2>4 DEF AnswerInv, StatesExact
  <2>6. Own(t) \in Seq(Entries) /\ Len(Own(t)) = AdmittedFor(t)
    BY OwnCounted DEF AnswerInv, EngineInv, EngineTypeOK
  <2>7. PICK first : first = FirstRead(kind, st, f)
    OBVIOUS
  <2>8. first \in 0..AdmittedFor(t)
    BY <2>5, <2>6, <2>7, FirstBounded
  <2>9. answer'[g] = [kind |-> kind, first |-> first]
    BY <1>1, <2>2, <2>3, <2>7
  <2>10. FirstOf(answer[g], AdmittedFor(task[g].tenant))'
    <3>1. AdmittedFor(task[g].tenant)' = AdmittedFor(t)
      BY <2>1, <2>3 DEF AdmittedFor
    <3>2. FirstOf(answer[g], AdmittedFor(task[g].tenant))' <=> FirstOf(answer'[g], AdmittedFor(t))
      BY <3>1 DEF FirstOf
    <3>3. FirstOf(answer'[g], AdmittedFor(t))
      BY <2>8, <2>9 DEF FirstOf
    <3> QED BY <3>2, <3>3
  <2>11. /\ answer' = [h \in Readers |-> answer'[h]]
         /\ \A h \in Readers \ {g} : at'[h] = at[h] /\ task'[h] = task[h] /\ answer'[h] = answer[h]
    BY <1>1, <2>1, <2>2 DEF Goroutines
  <2>12. at'[g] # "idle" => MayRead(task'[g])
    BY <2>1, <2>4
  <2> QED BY <1>2, <2>10, <2>11, <2>12, ReaderMoves
<1> QED BY <1>3, <1>4

LEMMA AnswerInductive == AnswerInv /\ [EngineNext]_engineVars => AnswerInv'
<1> SUFFICES ASSUME AnswerInv, [EngineNext]_engineVars PROVE AnswerInv'
  OBVIOUS
<1>1. EngineInv'
  BY EngineInductive DEF AnswerInv
<1>2. ASSUME NEW g \in Ingesters, CallIngest(g) \/ Insert(g) PROVE AnswerInv'
  <2>1. g \in Goroutines /\ EngineInv /\ admitted' = admitted
    BY <1>2 DEF Goroutines, AnswerInv, CallIngest, Insert
  <2>2. \A t \in EngineTenants : StateOf(t)' = StateOf(t)
    <3>1. CASE Insert(g)
      BY <2>1, <3>1, InsertStands
    <3>2. CASE CallIngest(g)
      BY <3>2 DEF CallIngest, StateOf, newTenantState
    <3> QED BY <1>2, <3>1, <3>2
  <2>3. StatesExact' /\ MinersExact'
    BY <2>1, <2>2, StatesRest DEF AnswerInv
  <2> QED BY <1>1, <1>2, <2>1, <2>3, FindingAnswers DEF AnswerInv
<1>3. ASSUME NEW g \in Ingesters, Admit(g) PROVE AnswerInv'
  <2>1. g \in Goroutines
    BY DEF Goroutines
  <2> QED BY <1>1, <1>3, <2>1, AdmitExact, FindingAnswers DEF AnswerInv
<1>4. ASSUME NEW g \in Readers, Ask(g) \/ Insert(g) PROVE AnswerInv'
  <2>1. g \in Goroutines /\ EngineInv /\ admitted' = admitted
    BY <1>4 DEF Goroutines, AnswerInv, Ask, Insert
  <2>2. \A t \in EngineTenants : StateOf(t)' = StateOf(t)
    <3>1. CASE Insert(g)
      BY <2>1, <3>1, InsertStands
    <3>2. CASE Ask(g)
      BY <3>2 DEF Ask, StateOf, newTenantState
    <3> QED BY <1>4, <3>1, <3>2
  <2>3. StatesExact' /\ MinersExact'
    BY <2>1, <2>2, StatesRest DEF AnswerInv
  <2> QED BY <1>1, <1>4, <2>1, <2>3, FindingAnswers DEF AnswerInv
<1>5. ASSUME NEW g \in Readers, Answer(g) \/ FirstLook(g) \/ SecondLook(g) PROVE AnswerInv'
  <2>1. UNCHANGED <<tenants, states, admitted>>
    BY <1>5 DEF Answer, FirstLook, SecondLook, Reply
  <2>2. \A t \in EngineTenants : StateOf(t)' = StateOf(t)
    BY <2>1 DEF StateOf, newTenantState
  <2>3. StatesExact' /\ MinersExact'
    BY <2>1, <2>2, StatesRest DEF AnswerInv
  <2> QED BY <1>1, <1>5, <2>3, LookingAnswers DEF AnswerInv
<1>6. CASE UNCHANGED engineVars
  <2>1. UNCHANGED <<tenants, states, at, task, held, answer, admitted>>
    BY <1>6 DEF engineVars
  <2>2. \A t \in EngineTenants : StateOf(t)' = StateOf(t)
    BY <2>1 DEF StateOf, newTenantState
  <2>3. StatesExact' /\ MinersExact'
    BY <2>1, <2>2, StatesRest DEF AnswerInv
  <2>4. Scoped' /\ FirstLooks'
    BY <2>1 DEF AnswerInv, Scoped, MayRead, FirstLooks, FirstOf, AdmittedFor
  <2> QED BY <1>1, <2>3, <2>4 DEF AnswerInv
<1> QED BY <1>2, <1>3, <1>4, <1>5, <1>6 DEF EngineNext

(* An answer read off one look accounts for what it should.                 *)
Matched(own, f) == Cardinality({i \in DOMAIN Latest(own) : Matches(Latest(own)[i], f)})

LEMMA ReportsAddUp ==
  ASSUME NEW own \in Seq(Entries), NEW st, NEW hot, Holds(st, own, hot), NEW f \in Filters,
         NEW kind \in {"logs", "severity", "series", "sentiment", "classes"},
         NEW v \in Answers(kind, st, f), NEW a, a = [kind |-> kind, filter |-> f, value |-> v],
         Countable(a)
  PROVE  Accounted(a) = IF kind = "logs" THEN Limit(f, Matched(own, f)) ELSE Matched(own, f)
<1>1. PICK w, s : w = Latest(own) /\ s = filterEntries(w, f)
  OBVIOUS
<1>2. w \in Seq(Entries) /\ st.window = w
  BY <1>1, WindowCounted DEF Holds
<1>3. s \in Seq(Passing(w, f)) /\ Len(s) = Matched(own, f)
  BY <1>1, <1>2, FilterCounts DEF Matched
<1>4. a.kind = kind /\ a.filter = f /\ a.value = v
  BY DEF Countable
<1>5. CASE kind = "logs"
  <2>1. v = LogSamples(w, f)
    BY <1>2, <1>5 DEF Answers
  <2>2. Accounted(a) = Len(v)
    BY <1>4, <1>5 DEF Accounted
  <2>3. Len(LogSamples(w, f)) = Limit(f, Len(s))
    BY <1>1, <1>2, SamplesCount
  <2> QED BY <1>3, <1>5, <2>1, <2>2, <2>3
<1>6. CASE kind = "severity"
  <2>1. v = SeverityData(w, f)
    BY <1>2, <1>6 DEF Answers
  <2>2. PICK group : group = [e \in ToSet(s) |-> getGroupValue(e, f.groupBy)]
    OBVIOUS
  <2>3. v = SeverityCounts(Split(s, group))
    BY <1>1, <2>1, <2>2 DEF SeverityData
  <2>4. Accounted(a) = Totals(v)
    BY <1>4, <1>6 DEF Accounted
  <2>5. Totals(SeverityCounts(Split(s, group))) = Len(s)
    BY <1>3, SeverityGroupsAddUp
  <2> QED BY <1>3, <1>6, <2>3, <2>4, <2>5
<1>7. CASE kind = "series"
  <2>1. v = SeverityTimeSeries(w, f)
    BY <1>2, <1>7 DEF Answers
  <2>2. PICK group : group = [e \in ToSet(s) |-> e.second]
    OBVIOUS
  <2>3. v = SeverityCounts(Split(s, group))
    BY <1>1, <2>1, <2>2 DEF SeverityTimeSeries
  <2>4. Accounted(a) = Totals(v)
    BY <1>4, <1>7 DEF Accounted
  <2>5. Totals(SeverityCounts(Split(s, group))) = Len(s)
    BY <1>3, SeverityGroupsAddUp
  <2> QED BY <1>3, <1>7, <2>3, <2>4, <2>5
<1>8. CASE kind = "sentiment"
  <2>1. v = SentimentData(w, f, 1)
    BY <1>2, <1>8 DEF Answers
  <2>2. PICK group : group = [e \in ToSet(s) |-> <<e.second \div 1, getGroupValue(e, f.groupBy)>>]
    OBVIOUS
  <2>3. PICK cells : cells = Split(s, group)
    OBVIOUS
  <2>4. v = [b \in DOMAIN cells |-> [entries |-> Len(cells[b]), sum |-> SentimentOf(cells[b])]]
    BY <1>1, <2>1, <2>2, <2>3 DEF SentimentData
  <2>5. Accounted(a) = SumOf([c \in DOMAIN v |-> v[c].entries])
    BY <1>4, <1>8 DEF Accounted
  <2>6. [c \in DOMAIN v |-> v[c].entries] = [c \in DOMAIN cells |-> Len(cells[c])]
    BY <2>4
  <2>7. SumOf([c \in DOMAIN cells |-> Len(cells[c])]) = Len(s)
    BY <1>3, <2>3, GroupsAddUp
  <2> QED BY <1>3, <1>8, <2>5, <2>6, <2>7
<1>9. CASE kind = "classes"
  <2>1. PICK counts : counts = CountBy(Severities(s))
    OBVIOUS
  <2>2. v \in CutsOf(counts, f)
    BY <1>1, <1>2, <1>9, <2>1 DEF Answers, Classes
  <2>3. f.limit = Unset
    BY <1>4, <1>9 DEF Countable
  <2>4. Counts(counts) /\ SumOf(counts) = Len(s)
    BY <1>3, <2>1, SeveritiesAddUp
  <2>5. v = counts
    BY <2>2, <2>3, <2>4, NothingCut
  <2>6. Accounted(a) = SumOf(v)
    BY <1>4, <1>9 DEF Accounted
  <2> QED BY <1>3, <1>9, <2>4, <2>5, <2>6
<1> QED BY <1>5, <1>6, <1>7, <1>8, <1>9

LEMMA LifetimesAddUp ==
  ASSUME NEW own \in Seq(Entries), NEW st, NEW hot, Holds(st, own, hot), NEW f,
         NEW kind \in {"streams", "heatmap"}, NEW v \in Answers(kind, st, f),
         NEW a, a = [kind |-> kind, filter |-> f, value |-> v]
  PROVE  Accounted(a) = IF kind = "heatmap" THEN hot ELSE Len(own)
<1>1. a.kind = kind /\ a.value = v
  OBVIOUS
<1>2. Accounted(a) = SumOf(v)
  BY <1>1 DEF Accounted
<1>3. CASE kind = "streams"
  BY <1>2, <1>3 DEF Answers, Holds
<1>4. CASE kind = "heatmap"
  <2>1. v = Heatmap(st.heat)
    BY <1>4 DEF Answers
  <2> QED BY <1>2, <1>4, <2>1 DEF Holds
<1> QED BY <1>3, <1>4

(* What is expected of an answer, in terms of the tenant's entries.         *)
LEMMA ExpectedIs ==
  ASSUME admitted \in Seq(Entries), NEW t, NEW f, NEW kind, NEW a, a.kind = kind, a.filter = f
  PROVE  /\ kind = "streams" => Expected(a, t) = Len(Own(t))
         /\ kind = "heatmap" => Expected(a, t) = HotFor(t)
         /\ kind = "logs" => Expected(a, t) = Limit(f, Matched(Own(t), f))
         /\ kind \in {"severity", "series", "sentiment", "classes"} => Expected(a, t) = Matched(Own(t), f)
<1>1. Cardinality(OwnEntries(t)) = Len(Own(t))
  BY OwnCounted DEF AdmittedFor, OwnEntries
<1>2. \A i \in DOMAIN admitted : admitted[i] \in Entries
  OBVIOUS
<1>3. Cardinality({i \in OwnEntries(t) : OnHeatmap(admitted[i])}) = HotFor(t)
  <2>1. {i \in OwnEntries(t) : OnHeatmap(admitted[i])} = Places(admitted, Hot(t))
    BY <1>2 DEF Places, Hot, Mapped, OwnEntries
  <2> QED BY <2>1 DEF HotFor
<1>4. Cardinality(Matching(t, f)) = Matched(Own(t), f)
  BY DEF Matching, Matched, Retained
<1> QED BY <1>1, <1>3, <1>4 DEF Expected

(* A list of a miner's patterns, of all texts or of those of a severity.    *)
LEMMA ListsExact ==
  ASSUME AnswerInv, NEW t \in EngineTenants, NEW m, NEW k \in Nat, NEW list \in TopsOf(m, k),
         NEW group, MinerExact(m, TextsFor(t, group))
  PROVE  ListExact(list, k, t, group)
<1>1. admitted \in Seq(Entries)
  BY DEF AnswerInv, EngineInv, EngineTypeOK
<1>2. PICK mined : mined = {i \in OwnEntries(t) : /\ admitted[i].body # Blank
                                                  /\ group = "all" \/ admitted[i].severity = group}
  OBVIOUS
<1>3. mined = Places(admitted, Texts(t, group))
  <2>1. \A i \in DOMAIN admitted : admitted[i] \in Entries
    BY <1>1
  <2> QED BY <1>2, <2>1 DEF Places, Texts, OwnEntries
<1>4. PICK n : n = Cardinality(mined)
  OBVIOUS
<1>5. n \in Nat /\ n = TextsFor(t, group)
  BY <1>1, <1>3, <1>4, PlacesCounted DEF TextsFor
<1>6. /\ SumOf(list) <= n
      /\ Cardinality(DOMAIN list) < k /\ Cardinality(DOMAIN list) < MaxClusters => SumOf(list) = n
  BY <1>5, ListedExactly
<1> QED BY <1>2, <1>4, <1>6 DEF ListExact

(* A severity with a text has a pattern.                                    *)
LEMMA SeverityListed ==
  ASSUME AnswerInv, NEW t \in EngineTenants, NEW st, Mines(st, t), NEW s \in MinedSeverities,
         NEW i \in OwnEntries(t), admitted[i].body # Blank, admitted[i].severity = s
  PROVE  st.bySeverity[s] # <<>>
<1> SUFFICES ASSUME st.bySeverity[s] = <<>> PROVE FALSE
  OBVIOUS
<1>1. admitted \in Seq(Entries)
  BY DEF AnswerInv, EngineInv, EngineTypeOK
<1>2. i \in Places(admitted, Texts(t, s))
  BY <1>1 DEF OwnEntries, Places, Texts
<1>3. TextsFor(t, s) # 0
  BY <1>1, <1>2, PlacesCounted, FS_EmptySet DEF TextsFor
<1>4. PICK m : m = st.bySeverity[s]
  OBVIOUS
<1>5. DOMAIN m = {} /\ MinerExact(m, TextsFor(t, s))
  BY <1>4 DEF Mines
<1>6. Cardinality(DOMAIN m) = 0 /\ SumOf(m) = 0
  BY <1>5, FS_EmptySet, NothingCounted DEF MinerExact, Counts
<1>7. SumOf(m) = TextsFor(t, s)
  BY <1>5, <1>6, EngineAssumption DEF MinerExact
<1> QED BY <1>3, <1>6, <1>7

(* queryPatterns.                                                           *)
LEMMA PatternsListed ==
  ASSUME AnswerInv, NEW t \in EngineTenants, NEW st, Mines(st, t), NEW f \in Filters,
         NEW lists \in Patterns(st, f)
  PROVE  PatternsExact(lists, f, t)
<1>1. PICK groups, k : groups = PatternGroups(st, f) /\ k = PatternLimit(f)
  OBVIOUS
<1>2. k \in Nat
  BY <1>1, EngineAssumption DEF PatternLimit
<1>3. DOMAIN lists = DOMAIN groups /\ \A g \in DOMAIN groups : lists[g] \in TopsOf(groups[g], k)
  BY <1>1 DEF Patterns
<1>4. CASE f.groupBy = "severity"
  <2>1. PICK some : some = {s \in MinedSeverities : st.bySeverity[s] # <<>>}
    OBVIOUS
  <2>2. groups = [s \in some |-> st.bySeverity[s]]
    BY <1>1, <1>4, <2>1 DEF PatternGroups, Restrict
  <2>3. DOMAIN groups = some /\ some \subseteq MinedSeverities /\ \A s \in some : groups[s] = st.bySeverity[s]
    BY <2>1, <2>2
  <2>4. ASSUME NEW group \in DOMAIN lists PROVE ListExact(lists[group], k, t, group)
    <3>1. group \in MinedSeverities /\ lists[group] \in TopsOf(st.bySeverity[group], k)
      BY <1>3, <2>3
    <3>2. MinerExact(st.bySeverity[group], TextsFor(t, group))
      BY <3>1 DEF Mines
    <3> QED BY <1>2, <3>1, <3>2, ListsExact
  <2>5. ASSUME NEW i \in OwnEntries(t), admitted[i].body # Blank, admitted[i].severity \in MinedSeverities
        PROVE  admitted[i].severity \in DOMAIN lists
    <3>1. st.bySeverity[admitted[i].severity] # <<>>
      BY <2>5, SeverityListed
    <3> QED BY <1>3, <2>1, <2>3, <2>5, <3>1
  <2> QED BY <1>1, <2>4, <2>5 DEF PatternsExact
<1>5. CASE f.groupBy # "severity"
  <2>1. groups = [all |-> st.patterns]
    BY <1>1, <1>5 DEF PatternGroups
  <2>2. DOMAIN lists = {"all"} /\ lists["all"] \in TopsOf(st.patterns, k)
    BY <1>3, <2>1
  <2>3. MinerExact(st.patterns, TextsFor(t, "all"))
    BY DEF Mines
  <2>4. ListExact(lists["all"], k, t, "all")
    BY <1>2, <2>2, <2>3, ListsExact
  <2> QED BY <1>1, <1>5, <2>2, <2>4 DEF PatternsExact
<1> QED BY <1>4, <1>5

LEMMA OneLookExact ==
  ASSUME AnswerInv, NEW g \in Readers, at[g] = "use", NEW kind \in Kinds, NEW f \in Filters,
         NEW v \in Answers(kind, states[held[g]], f), NEW a, a = [kind |-> kind, filter |-> f, value |-> v]
  PROVE  AnswerExact(g, a)
<1>1. PICK t, st, own : t = task[g].tenant /\ st = states[held[g]] /\ own = Own(t)
  OBVIOUS
<1>2. t \in EngineTenants /\ st = StateOf(t) /\ MayRead(task[g])
  BY <1>1, HeldIsState
<1>3. Holds(st, own, HotFor(t)) /\ Mines(st, t)
  BY <1>1, <1>2 DEF AnswerInv, StatesExact, MinersExact
<1>4. admitted \in Seq(Entries) /\ own \in Seq(Entries)
  BY <1>1, OwnCounted DEF AnswerInv, EngineInv, EngineTypeOK
<1>5. a.kind = kind /\ a.filter = f /\ a.value = v /\ "second" \notin DOMAIN a
  OBVIOUS
<1>6. ASSUME Countable(a) PROVE Accounted(a) = Expected(a, t)
  <2>1. kind \in {"logs", "severity", "series", "sentiment", "classes", "streams", "heatmap"}
    BY <1>5, <1>6 DEF Countable, Kinds
  <2>2. /\ kind = "streams" => Expected(a, t) = Len(Own(t))
        /\ kind = "heatmap" => Expected(a, t) = HotFor(t)
        /\ kind = "logs" => Expected(a, t) = Limit(f, Matched(Own(t), f))
        /\ kind \in {"severity", "series", "sentiment", "classes"} => Expected(a, t) = Matched(Own(t), f)
    BY <1>4, <1>5, ExpectedIs
  <2>4. v \in Answers(kind, st, f)
    BY <1>1
  <2>5. CASE kind \in {"logs", "severity", "series", "sentiment", "classes"}
    <3>1. Accounted(a) = IF kind = "logs" THEN Limit(f, Matched(own, f)) ELSE Matched(own, f)
      BY <1>3, <1>4, <1>6, <2>4, <2>5, ReportsAddUp
    <3> QED BY <1>1, <2>2, <2>5, <3>1
  <2>6. CASE kind \in {"streams", "heatmap"}
    <3>1. Accounted(a) = IF kind = "heatmap" THEN HotFor(t) ELSE Len(own)
      BY <1>3, <1>4, <2>4, <2>6, LifetimesAddUp
    <3> QED BY <1>1, <2>2, <2>6, <3>1
  <2> QED BY <2>1, <2>5, <2>6
<1>7. ASSUME kind = "params", NEW i \in DOMAIN Retained(t)
      PROVE  getServiceName(Retained(t)[i]) \in v.services \cup {"unknown"}
  <2>1. v = InsightsParams(st)
    BY <1>1, <1>7 DEF Answers
  <2>2. v.services = DOMAIN st.services
    BY <2>1 DEF InsightsParams
  <2>3. PICK j \in DOMAIN own : Retained(t)[i] = own[j]
    BY <1>1, <1>4, <1>7, WindowCounted DEF Retained
  <2>4. getServiceName(own[j]) \in DOMAIN st.services \cup {"unknown"}
    BY <1>3 DEF Holds
  <2> QED BY <2>2, <2>3, <2>4
<1>8. ASSUME kind = "patterns" PROVE PatternsExact(v, f, t)
  <2>1. v \in Patterns(st, f)
    BY <1>1, <1>8 DEF Answers
  <2> QED BY <1>2, <1>3, <2>1, PatternsListed
<1> QED BY <1>1, <1>2, <1>5, <1>6, <1>7, <1>8 DEF AnswerExact, MayRead

LEMMA TwoLooksExact ==
  ASSUME AnswerInv, NEW g \in Readers, at[g] = "second",
         NEW second \in SecondReads(answer[g].kind, states[held[g]])
  PROVE  AnswerExact(g, [kind |-> answer[g].kind, first |-> answer[g].first, second |-> second])
<1>1. PICK t, st, own : t = task[g].tenant /\ st = states[held[g]] /\ own = Own(t)
  OBVIOUS
<1>2. t \in EngineTenants /\ st = StateOf(t) /\ MayRead(task[g])
  BY <1>1, HeldIsState
<1>3. Holds(st, own, HotFor(t)) /\ Mines(st, t)
  BY <1>1, <1>2 DEF AnswerInv, StatesExact, MinersExact
<1>4. Len(own) = AdmittedFor(t) /\ Len(own) \in Nat
  BY <1>1, OwnCounted DEF AnswerInv, EngineInv, EngineTypeOK
<1>5. PICK kind \in Looks : \E first \in 0..AdmittedFor(t) : answer[g] = [kind |-> kind, first |-> first]
  BY <1>1 DEF AnswerInv, FirstLooks, FirstOf
<1>6. PICK first \in 0..AdmittedFor(t) : answer[g] = [kind |-> kind, first |-> first]
  BY <1>5
<1>7. second \in SecondReads(kind, st) /\ answer[g].kind = kind /\ answer[g].first = first
  BY <1>1, <1>6
<1>8. PICK a : a = [kind |-> kind, first |-> first, second |-> second]
  OBVIOUS
<1>9. a.kind = kind /\ a.first = first /\ a.second = second /\ "value" \notin DOMAIN a
  BY <1>8
<1>10. CASE kind # "summary"
  <2>1. kind \in {"attributes", "status"}
    BY <1>10 DEF Looks
  <2>2. second = Len(own)
    BY <1>3, <1>7, <2>1, SecondIsAll
  <2>3. a.first <= a.second
    BY <1>4, <1>9, <2>2
  <2>4. AnswerExact(g, a)
    BY <1>1, <1>2, <1>9, <1>10, <2>3 DEF AnswerExact, MayRead
  <2> QED BY <1>7, <1>8, <2>4
<1>11. CASE kind = "summary"
  <2>1. second \in TopsOf(st.patterns, SummaryPatterns) /\ SummaryPatterns \in Nat
    BY <1>7, <1>11, EngineAssumption DEF SecondReads
  <2>2. MinerExact(st.patterns, TextsFor(t, "all"))
    BY <1>3 DEF Mines
  <2>3. ListExact(second, SummaryPatterns, t, "all")
    BY <1>2, <2>1, <2>2, ListsExact
  <2>4. first <= Cardinality(OwnEntries(t))
    BY <1>4 DEF AdmittedFor, OwnEntries
  <2>5. AnswerExact(g, a)
    BY <1>1, <1>2, <1>9, <1>11, <2>3, <2>4 DEF AnswerExact, MayRead
  <2> QED BY <1>7, <1>8, <2>5
<1> QED BY <1>10, <1>11

(* Every answer.                                                            *)
LEMMA AnsweredExactly ==
  ASSUME AnswerInv, EngineNext, NEW g \in Readers, answer'[g] # answer[g], answer'[g] # None
  PROVE  AnswerExact(g, answer'[g])
<1>1. answer = [h \in Readers |-> answer[h]]
  BY DEF AnswerInv, FirstLooks
<1>2. PICK h \in Readers : Ask(h) \/ Answer(h) \/ FirstLook(h) \/ SecondLook(h)
  BY DEF EngineNext, CallIngest, Insert, Admit
<1>3. \E reply : answer' = [answer EXCEPT ![h] = reply]
  BY <1>2 DEF Ask, Answer, FirstLook, SecondLook, Reply
<1>4. h = g
  BY <1>1, <1>3
<1>5. CASE Ask(g)
  BY <1>1, <1>5 DEF Ask
<1>6. CASE Answer(g)
  <2>1. PICK kind \in Kinds, f \in Filters :
          \E value \in Answers(kind, states[held[g]], f) :
            Reply(g, [kind |-> kind, filter |-> f, value |-> value])
    BY <1>6 DEF Answer
  <2>2. PICK v \in Answers(kind, states[held[g]], f) :
          Reply(g, [kind |-> kind, filter |-> f, value |-> v])
    BY <2>1
  <2>3. answer'[g] = [kind |-> kind, filter |-> f, value |-> v]
    BY <1>1, <2>2 DEF Reply
  <2>4. at[g] = "use"
    BY <1>6 DEF Answer
  <2> QED BY <2>3, <2>4, OneLookExact
<1>7. CASE FirstLook(g)
  <2>1. PICK kind \in Looks, f \in Filters :
          answer' = [answer EXCEPT ![g] = [kind |-> kind, first |-> FirstRead(kind, states[held[g]], f)]]
    BY <1>7 DEF FirstLook, Looks
  <2>2. "value" \notin DOMAIN answer'[g] /\ "second" \notin DOMAIN answer'[g]
    BY <1>1, <2>1
  <2>3. MayRead(task[g])
    BY <1>7, HeldIsState DEF FirstLook
  <2> QED BY <2>2, <2>3 DEF AnswerExact, MayRead
<1>8. CASE SecondLook(g)
  <2>1. at[g] = "second" /\ \E second \in SecondReads(answer[g].kind, states[held[g]]) :
          Reply(g, [kind |-> answer[g].kind, first |-> answer[g].first, second |-> second])
    BY <1>8 DEF SecondLook
  <2>2. PICK second \in SecondReads(answer[g].kind, states[held[g]]) :
          answer'[g] = [kind |-> answer[g].kind, first |-> answer[g].first, second |-> second]
    BY <1>1, <2>1 DEF Reply
  <2> QED BY <2>1, <2>2, TwoLooksExact
<1> QED BY <1>2, <1>4, <1>5, <1>6, <1>7, <1>8

(* Whatever ingests and requests interleave, every answer of the API is     *)
(* about a tenant the caller may see and accounts for exactly the entries   *)
(* admitted for it that the window retains and the filter matches; the      *)
(* heatmap accounts for those of the levels it shows; a list of patterns    *)
(* for no more than the entries with a text, and for all of them while      *)
(* neither the list nor the miner is full, whatever these limits are; and   *)
(* what is read in two looks adds up (queries.go, state.go,                 *)
(* drain3_manager.go, scope.go, api.go).                                    *)
THEOREM AnswersAddUp == HubSpec => AnswersExact
<1>1. EngineInit /\ HubInit => AnswerInv
  BY AnswerInitial
<1>2. AnswerInv /\ [HubNext]_<<engineVars, hubVars>> => AnswerInv'
  <2>1. [HubNext]_<<engineVars, hubVars>> => [EngineNext]_engineVars
    BY DEF HubNext
  <2> QED BY <2>1, AnswerInductive
<1>3. AnswerInv /\ [HubNext]_<<engineVars, hubVars>> =>
        [\A g \in Readers : answer'[g] # answer[g] /\ answer'[g] # None => AnswerExact(g, answer'[g])]_engineVars
  <2>1. [HubNext]_<<engineVars, hubVars>> => [EngineNext]_engineVars
    BY DEF HubNext
  <2> QED BY <2>1, AnsweredExactly
<1> QED BY <1>1, <1>2, <1>3, PTL DEF HubSpec, AnswersExact

-----------------------------------------------------------------------------
(* Authentication. *)

Asking == {"fetch", "store", "look"}
Newest == Cardinality(DOMAIN Documents)

AuthTypeOK ==
  /\ published \in 1..Newest
  /\ stage \in [Verifiers -> {"idle", "done"} \cup Asking]
  /\ begun \in [Verifiers -> Nat] /\ \A r \in Verifiers : begun[r] \in 1..published
  /\ disturbed \in [Verifiers -> BOOLEAN]
  /\ evidence = [r \in Verifiers |-> evidence[r]]
  /\ document = [r \in Verifiers |-> document[r]]
  /\ verdict = [r \in Verifiers |-> verdict[r]]

(* The cache is a document the issuer has published.                        *)
CachePublished ==
  \/ DOMAIN cache = {} /\ ~fetched
  \/ \E n \in 1..published : cache = Documents[n]

(* A document that was fetched was published when the request was there.    *)
Since(r, keys) == \E n \in begun[r]..published : keys = Documents[n]

DocumentsFetched ==
  \A r \in Verifiers :
    /\ stage[r] \in Asking => IsJWT(evidence[r])
    /\ stage[r] = "store" => Since(r, document[r])

(* A request that nobody disturbs fetches alone, and what it then finds, or *)
(* will be found, in the cache is no older than the request.                *)
FetchesAlone ==
  \A r \in Verifiers : ~disturbed[r] =>
    /\ r \in Fetching => Fetching = {r}
    /\ stage[r] = "look" =>
         /\ Since(r, cache)
         /\ \A q \in Verifiers : stage[q] = "store" => Since(r, document[q])

(* How a request was decided: its signature held, or there was a reason.    *)
Accepted(r) ==
  /\ verdict[r] = Admitted(Authenticate(evidence[r], TRUE))
  /\ IsJWT(evidence[r]) =>
       LET jwt == JWT[evidence[r].bearer] IN EverPublished(jwt.kid, jwt.signer) \/ SecretSigned(jwt)

Refused(r) ==
  /\ verdict[r] = Admitted(Authenticate(evidence[r], FALSE))
  /\ Judged(r) /\ JWT[evidence[r].bearer].alg = "RS" => ~AlwaysPublished(r, JWT[evidence[r].bearer])

Ruled(r) == stage[r] = "done" => Accepted(r) \/ Refused(r)

CacheInv == AuthTypeOK /\ CachePublished /\ DocumentsFetched /\ FetchesAlone
AuthInv  == CacheInv /\ \A r \in Verifiers : Ruled(r)

LEMMA AuthInitial == AuthInit => AuthInv
<1> SUFFICES ASSUME AuthInit PROVE AuthInv
  OBVIOUS
<1>1. \A r \in Verifiers : stage[r] = "idle" /\ begun[r] = 1
  BY DEF AuthInit
<1>2. AuthTypeOK
  BY DocumentsAssumption DEF AuthInit, AuthTypeOK, Newest
<1>3. CachePublished
  BY DEF AuthInit, CachePublished
<1>4. DocumentsFetched /\ FetchesAlone
  BY <1>1 DEF DocumentsFetched, FetchesAlone, Fetching, Asking
<1> QED BY <1>1, <1>2, <1>3, <1>4 DEF AuthInv, CacheInv, Ruled

(* What the configuration decides does not change.                          *)
LEMMA SameConfig ==
  ASSUME config' = config, NEW e, NEW jwt
  PROVE  /\ IsJWT(e)' <=> IsJWT(e)
         /\ SecretSigned(jwt)' <=> SecretSigned(jwt)
         /\ Admitted(Authenticate(e, TRUE))' = Admitted(Authenticate(e, TRUE))
         /\ Admitted(Authenticate(e, FALSE))' = Admitted(Authenticate(e, FALSE))
BY DEF IsJWT, BearerDecides, LoopbackTrusted, NetworkMethods, SecretSigned, Admitted, Authenticate,
   BearerVerdict, JWTVerdict, APITokenVerdict, TenantFromSpiffe

(* A decision stands while the issuer publishes more.                       *)
LEMMA RulingStands ==
  ASSUME AuthInv, config' = config, published' \in Nat, published <= published', NEW r \in Verifiers,
         stage[r] = "done", stage'[r] = "done", verdict'[r] = verdict[r], evidence'[r] = evidence[r],
         begun'[r] = begun[r], disturbed'[r] = disturbed[r]
  PROVE  Ruled(r)'
<1>1. PICK e : e = evidence[r]
  OBVIOUS
<1>2. published \in Nat /\ begun[r] \in Nat
  BY DEF AuthInv, CacheInv, AuthTypeOK
<1>3. \A jwt : EverPublished(jwt.kid, jwt.signer) => EverPublished(jwt.kid, jwt.signer)'
  BY <1>2 DEF EverPublished
<1>4. \A jwt : AlwaysPublished(r, jwt)' => AlwaysPublished(r, jwt)
  BY <1>2 DEF AlwaysPublished
<1>5. CASE Accepted(r)
  BY <1>1, <1>3, <1>5, SameConfig DEF Accepted, Ruled
<1>6. CASE Refused(r)
  BY <1>1, <1>4, <1>6, SameConfig DEF Refused, Ruled, Judged
<1> QED BY <1>5, <1>6 DEF AuthInv, Ruled

(* A new decision stands on the cache as it is.                             *)
LEMMA NewRuling ==
  ASSUME AuthInv, AuthTypeOK', UNCHANGED <<config, published>>, NEW r \in Verifiers,
         NEW e, evidence'[r] = e,
         \/ /\ Decide(r, e, TRUE)
            /\ IsJWT(e) => EverPublished(JWT[e.bearer].kid, JWT[e.bearer].signer) \/ SecretSigned(JWT[e.bearer])
         \/ /\ Decide(r, e, FALSE)
            /\ IsJWT(e) /\ JWT[e.bearer].alg = "RS" /\ ~disturbed'[r] =>
                 ~AlwaysPublished(r, JWT[e.bearer])'
  PROVE  Ruled(r)'
<1>1. \A jwt : EverPublished(jwt.kid, jwt.signer)' <=> EverPublished(jwt.kid, jwt.signer)
  BY DEF EverPublished
<1>2. CASE Decide(r, e, TRUE) /\
           (IsJWT(e) => EverPublished(JWT[e.bearer].kid, JWT[e.bearer].signer) \/ SecretSigned(JWT[e.bearer]))
  <2>1. verdict'[r] = Admitted(Authenticate(e, TRUE))
    BY <1>2 DEF Decide, AuthInv, CacheInv, AuthTypeOK
  <2>2. Accepted(r)'
    BY <1>1, <1>2, <2>1, SameConfig DEF Accepted
  <2> QED BY <2>2 DEF Ruled
<1>3. CASE Decide(r, e, FALSE) /\
           (IsJWT(e) /\ JWT[e.bearer].alg = "RS" /\ ~disturbed'[r] =>
              ~AlwaysPublished(r, JWT[e.bearer])')
  <2>1. verdict'[r] = Admitted(Authenticate(e, FALSE))
    BY <1>3 DEF Decide, AuthInv, CacheInv, AuthTypeOK
  <2>2. Refused(r)'
    BY <1>3, <2>1, SameConfig DEF Refused, Judged
  <2> QED BY <2>2 DEF Ruled
<1> QED BY <1>2, <1>3

(* A key of the cache is the issuer's, and one that has been published all  *)
(* along is in it.                                                          *)
LEMMA CacheJudges ==
  ASSUME AuthInv, NEW jwt
  PROVE  /\ HasKey(cache, jwt) /\ Signed(cache, jwt) => EverPublished(jwt.kid, jwt.signer)
         /\ \A m, n \in 1..published :
              cache = Documents[m] /\ HasKey(cache, jwt)
                /\ jwt.kid \in DOMAIN Documents[n] /\ Documents[n][jwt.kid] = jwt.signer =>
                Signed(cache, jwt)
<1>1. published \in 1..Newest /\ Newest \in Nat /\ DOMAIN Documents = 1..Newest
  BY DocumentsAssumption DEF AuthInv, CacheInv, AuthTypeOK, Newest
<1>2. \A n \in 1..published : n \in DOMAIN Documents
  BY <1>1
<1>3. HasKey(cache, jwt) => \E n \in 1..published : cache = Documents[n]
  BY DEF AuthInv, CacheInv, CachePublished, HasKey
<1>4. HasKey(cache, jwt) /\ Signed(cache, jwt) => EverPublished(jwt.kid, jwt.signer)
  BY <1>3 DEF EverPublished, HasKey, Signed
<1>5. ASSUME NEW m \in 1..published, NEW n \in 1..published, cache = Documents[m], HasKey(cache, jwt),
             jwt.kid \in DOMAIN Documents[n], Documents[n][jwt.kid] = jwt.signer
      PROVE  Signed(cache, jwt)
  BY <1>2, <1>5, KidsNameKeys, ZenonT(30) DEF HasKey, Signed
<1> QED BY <1>4, <1>5

LEMMA RotateKeeps == ASSUME AuthInv, Rotate PROVE AuthInv'
<1>1. /\ published' = published + 1 /\ published < Newest
      /\ UNCHANGED <<config, cache, fetched, stage, evidence, document, verdict, calls, begun, disturbed>>
  BY DEF Rotate, Newest
<1>2. /\ published \in 1..Newest /\ Newest \in Nat
      /\ \A r \in Verifiers : begun[r] \in Nat /\ begun[r] \in 1..published
  BY DocumentsAssumption DEF AuthInv, CacheInv, AuthTypeOK, Newest
<1>3. AuthTypeOK'
  BY <1>1, <1>2 DEF AuthInv, CacheInv, AuthTypeOK, Newest
<1>4. CachePublished'
  BY <1>1, <1>2 DEF AuthInv, CacheInv, CachePublished
<1>5. \A r \in Verifiers : \A keys : Since(r, keys) => Since(r, keys)'
  BY <1>1, <1>2 DEF Since
<1>6. \A e : IsJWT(e)' <=> IsJWT(e)
  BY <1>1, SameConfig
<1>7. DocumentsFetched' /\ FetchesAlone'
  BY <1>1, <1>5, <1>6 DEF AuthInv, CacheInv, DocumentsFetched, FetchesAlone, Fetching
<1>8. ASSUME NEW r \in Verifiers PROVE Ruled(r)'
  <2>1. CASE stage[r] = "done"
    BY <1>1, <1>2, <2>1, RulingStands
  <2>2. CASE stage[r] # "done"
    BY <1>1, <2>2 DEF Ruled
  <2> QED BY <2>1, <2>2
<1> QED BY <1>3, <1>4, <1>7, <1>8 DEF AuthInv, CacheInv

(* The others' decisions stand whatever one request does.                   *)
LEMMA OthersStand ==
  ASSUME AuthInv, AuthTypeOK', UNCHANGED <<config, published>>, NEW r \in Verifiers,
         NEW q \in Verifiers, q # r, stage'[q] = stage[q],
         verdict'[q] = verdict[q], evidence'[q] = evidence[q], begun'[q] = begun[q],
         disturbed'[q] = disturbed[q] \/ q \in Fetching
  PROVE  Ruled(q)'
<1>1. CASE stage[q] = "done"
  <2>1. q \notin Fetching
    BY <1>1 DEF Fetching
  <2>2. published \in Nat /\ published' = published
    BY DEF AuthInv, CacheInv, AuthTypeOK
  <2> QED BY <1>1, <2>1, <2>2, RulingStands
<1>2. CASE stage[q] # "done"
  BY <1>2 DEF Ruled
<1> QED BY <1>1, <1>2

LEMMA ArriveKeeps == ASSUME AuthInv, NEW r \in Verifiers, Arrive(r) PROVE AuthInv'
<1>1. /\ stage[r] \in {"idle", "done"} /\ begun' = [begun EXCEPT ![r] = published]
      /\ UNCHANGED <<config, published, cache, fetched, document>>
  BY DEF Arrive
<1>2. PICK e \in Evidence :
        /\ evidence' = [evidence EXCEPT ![r] = e]
        /\ LET jwt == JWT[e.bearer] IN
           IF ~IsJWT(e) THEN Decide(r, e, FALSE)
           ELSE IF jwt.alg = "HS" THEN Decide(r, e, SecretSigned(jwt))
           ELSE IF jwt.alg = "none" THEN Decide(r, e, FALSE)
           ELSE IF HasKey(cache, jwt) THEN Decide(r, e, Signed(cache, jwt))
           ELSE IF NeedsFetch(jwt)
                  THEN Moves(r, "fetch") /\ verdict' = [verdict EXCEPT ![r] = Nothing]
                  ELSE Decide(r, e, FALSE)
  BY DEF Arrive
<1> DEFINE jwt == JWT[e.bearer]
<1>4. \/ Decide(r, e, TRUE) /\ (IsJWT(e) => SecretSigned(jwt) \/ (HasKey(cache, jwt) /\ Signed(cache, jwt)))
      \/ /\ Decide(r, e, FALSE)
         /\ IsJWT(e) /\ jwt.alg = "RS" =>
              (HasKey(cache, jwt) /\ ~Signed(cache, jwt)) \/ ~NeedsFetch(jwt)
      \/ /\ stage' = [stage EXCEPT ![r] = "fetch"] /\ verdict' = [verdict EXCEPT ![r] = Nothing]
         /\ IsJWT(e)
  <2>1. CASE ~IsJWT(e)
    BY <1>2, <2>1
  <2>2. CASE IsJWT(e) /\ jwt.alg = "HS"
    <3>1. Decide(r, e, SecretSigned(jwt))
      BY <1>2, <2>2
    <3>2. CASE SecretSigned(jwt)
      <4>1. Decide(r, e, TRUE)
        BY <3>1, <3>2 DEF Decide, Authenticate, BearerVerdict
      <4> QED BY <3>2, <4>1
    <3>3. CASE ~SecretSigned(jwt)
      <4>1. Decide(r, e, FALSE)
        BY <3>1, <3>3 DEF Decide, Authenticate, BearerVerdict
      <4> QED BY <2>2, <4>1
    <3> QED BY <3>2, <3>3
  <2>3. CASE IsJWT(e) /\ jwt.alg = "none"
    BY <1>2, <2>3
  <2>4. CASE IsJWT(e) /\ jwt.alg \notin {"HS", "none"} /\ HasKey(cache, jwt)
    <3>1. Decide(r, e, Signed(cache, jwt))
      BY <1>2, <2>4
    <3>2. CASE Signed(cache, jwt)
      <4>1. Decide(r, e, TRUE)
        BY <3>1, <3>2 DEF Decide, Authenticate, BearerVerdict
      <4> QED BY <2>4, <3>2, <4>1
    <3>3. CASE ~Signed(cache, jwt)
      <4>1. Decide(r, e, FALSE)
        BY <3>1, <3>3 DEF Decide, Authenticate, BearerVerdict
      <4> QED BY <2>4, <3>3, <4>1
    <3> QED BY <3>2, <3>3
  <2>5. CASE IsJWT(e) /\ jwt.alg \notin {"HS", "none"} /\ ~HasKey(cache, jwt)
    BY <1>2, <2>5 DEF Moves
  <2> QED BY <2>1, <2>2, <2>3, <2>4, <2>5
<1> HIDE DEF jwt
<1>5. \/ stage' = [stage EXCEPT ![r] = "done"] \/ stage' = [stage EXCEPT ![r] = "fetch"]
  BY <1>4 DEF Decide, Moves
<1>6. /\ stage'[r] \in {"done", "fetch"} /\ evidence'[r] = e /\ begun'[r] = published
      /\ verdict' = [q \in Verifiers |-> verdict'[q]] /\ evidence' = [q \in Verifiers |-> evidence'[q]]
      /\ \A q \in Verifiers : q # r => /\ stage'[q] = stage[q] /\ evidence'[q] = evidence[q]
                                        /\ begun'[q] = begun[q] /\ verdict'[q] = verdict[q]
  BY <1>1, <1>2, <1>4, <1>5 DEF Decide, Moves, AuthInv, CacheInv, AuthTypeOK
<1>7. /\ stage'[r] = "fetch" => disturbed' = [q \in Verifiers |->
             IF q = r THEN Fetching \ {r} # {} ELSE disturbed[q] \/ q \in Fetching]
      /\ stage'[r] = "done" => disturbed' = [disturbed EXCEPT ![r] = FALSE]
  BY <1>6 DEF Arrive
<1>8. AuthTypeOK'
  <2>1. published \in 1..Newest /\ published \in Nat /\ published \in 1..published
    BY DocumentsAssumption DEF AuthInv, CacheInv, AuthTypeOK, Newest
  <2>2. disturbed' \in [Verifiers -> BOOLEAN]
    BY <1>6, <1>7 DEF AuthInv, CacheInv, AuthTypeOK
  <2>3. stage' \in [Verifiers -> {"idle", "done"} \cup Asking]
    BY <1>5 DEF AuthInv, CacheInv, AuthTypeOK, Asking
  <2> QED BY <1>1, <1>6, <2>1, <2>2, <2>3 DEF AuthInv, CacheInv, AuthTypeOK
<1>9. r \notin Fetching /\ \A q \in Verifiers : q # r => (q \in Fetching' <=> q \in Fetching)
  BY <1>1, <1>6 DEF Fetching
<1>10. \A q \in Verifiers : q # r => disturbed'[q] = disturbed[q] \/ q \in Fetching
  BY <1>6, <1>7 DEF AuthInv, CacheInv, AuthTypeOK
<1>11. CachePublished'
  BY <1>1 DEF AuthInv, CacheInv, CachePublished
<1>12. stage'[r] = "fetch" => IsJWT(e)
  BY <1>4, <1>6 DEF Decide, Moves, AuthInv, CacheInv, AuthTypeOK
<1>13. DocumentsFetched'
  <2> SUFFICES ASSUME NEW q \in Verifiers
               PROVE  /\ stage'[q] \in Asking => IsJWT(evidence[q])'
                      /\ stage'[q] = "store" => Since(q, document[q])'
    BY DEF DocumentsFetched
  <2>1. CASE q = r
    BY <1>1, <1>6, <1>12, <2>1, SameConfig DEF Asking
  <2>2. CASE q # r
    BY <1>1, <1>6, <2>2, SameConfig DEF AuthInv, CacheInv, DocumentsFetched, Since
  <2> QED BY <2>1, <2>2
<1>14. FetchesAlone'
  <2> SUFFICES ASSUME NEW q \in Verifiers, ~disturbed'[q]
               PROVE  /\ q \in Fetching' => Fetching' = {q}
                      /\ stage'[q] = "look" =>
                           /\ Since(q, cache)'
                           /\ \A p \in Verifiers : stage'[p] = "store" => Since(q, document[p])'
    BY DEF FetchesAlone
  <2>1. CASE q = r
    <3>1. stage'[r] # "look"
      BY <1>6
    <3>2. q \in Fetching' => Fetching' = {q}
      BY <1>6, <1>7, <1>9, <2>1 DEF Fetching
    <3> QED BY <2>1, <3>1, <3>2
  <2>2. CASE q # r
    <3>1. ~disturbed[q]
      BY <1>6, <1>7, <2>2 DEF AuthInv, CacheInv, AuthTypeOK
    <3>2. q \in Fetching => stage'[r] = "done"
      BY <1>6, <1>7, <2>2
    <3>3. q \in Fetching' => Fetching' = {q}
      BY <1>6, <1>9, <2>2, <3>1, <3>2 DEF Fetching, AuthInv, CacheInv, FetchesAlone
    <3>4. \A keys : Since(q, keys)' <=> Since(q, keys)
      BY <1>1, <1>6, <2>2 DEF Since
    <3>5. \A p \in Verifiers : stage'[p] = "store" => stage[p] = "store"
      BY <1>6
    <3> QED BY <1>1, <1>6, <2>2, <3>1, <3>3, <3>4, <3>5 DEF AuthInv, CacheInv, FetchesAlone, Since
  <2> QED BY <2>1, <2>2
<1>15. Ruled(r)'
  <2>1. CASE Decide(r, e, TRUE) /\ (IsJWT(e) => SecretSigned(jwt) \/ (HasKey(cache, jwt) /\ Signed(cache, jwt)))
    BY <1>1, <1>6, <1>8, <2>1, CacheJudges, NewRuling DEF jwt
  <2>2. CASE Decide(r, e, FALSE) /\ (IsJWT(e) /\ jwt.alg = "RS" =>
               (HasKey(cache, jwt) /\ ~Signed(cache, jwt)) \/ ~NeedsFetch(jwt))
    <3>1. ASSUME IsJWT(e), jwt.alg = "RS", AlwaysPublished(r, jwt)' PROVE FALSE
      <4>1. published \in 1..Newest /\ published \in begun'[r]..published
            /\ published \in 1..published
        BY <1>6, DocumentsAssumption DEF AuthInv, CacheInv, AuthTypeOK, Newest
      <4>2. jwt.kid \in DOMAIN Documents[published] /\ Documents[published][jwt.kid] = jwt.signer
        BY <1>1, <3>1, <4>1 DEF AlwaysPublished
      <4>3. jwt.kid # ""
        BY <4>1, <4>2, DocumentsAssumption, KidsNameKeys DEF Newest
      <4>4. HasKey(cache, jwt) /\ ~Signed(cache, jwt)
        BY <2>2, <3>1, <4>3 DEF NeedsFetch
      <4>5. PICK m \in 1..published : cache = Documents[m]
        BY <4>4 DEF AuthInv, CacheInv, CachePublished, HasKey
      <4> QED BY <4>1, <4>2, <4>4, <4>5, CacheJudges
    <3> QED BY <1>1, <1>6, <1>8, <2>2, <3>1, NewRuling DEF jwt
  <2>3. CASE stage' = [stage EXCEPT ![r] = "fetch"]
    BY <2>3 DEF Ruled, AuthInv, CacheInv, AuthTypeOK
  <2> QED BY <1>4, <2>1, <2>2, <2>3
<1>16. \A q \in Verifiers : q # r => Ruled(q)'
  BY <1>1, <1>6, <1>8, <1>10, OthersStand
<1> QED BY <1>8, <1>11, <1>13, <1>14, <1>15, <1>16 DEF AuthInv, CacheInv

LEMMA FetchKeeps == ASSUME AuthInv, NEW r \in Verifiers, Fetch(r) PROVE AuthInv'
<1>1. /\ stage[r] = "fetch"
      /\ UNCHANGED <<config, published, cache, fetched, evidence, calls, begun>>
  BY DEF Fetch
<1>2. /\ published \in 1..Newest /\ published \in Nat
      /\ \A q \in Verifiers : begun[q] \in Nat /\ begun[q] \in 1..published
  BY DocumentsAssumption DEF AuthInv, CacheInv, AuthTypeOK, Newest
<1>3. \A q \in Verifiers : published \in begun[q]..published
  BY <1>2
<1>4. \A q \in Verifiers : \A keys : Since(q, keys)' <=> Since(q, keys)
  BY <1>1 DEF Since
<1>5. CachePublished'
  BY <1>1 DEF AuthInv, CacheInv, CachePublished
<1>6. \A q \in Verifiers : IsJWT(evidence[q])' <=> IsJWT(evidence[q])
  BY <1>1, SameConfig
<1>7. r \in Fetching
  BY <1>1 DEF Fetching
<1>8. CASE /\ document' = [document EXCEPT ![r] = Documents[published]]
           /\ Moves(r, "store")
           /\ UNCHANGED <<verdict, disturbed>>
  <2>1. /\ stage' = [stage EXCEPT ![r] = "store"] /\ stage'[r] = "store"
        /\ \A q \in Verifiers : q # r => stage'[q] = stage[q] /\ document'[q] = document[q]
        /\ document'[r] = Documents[published]
        /\ document' = [q \in Verifiers |-> document'[q]]
    BY <1>8 DEF Moves, AuthInv, CacheInv, AuthTypeOK
  <2>2. AuthTypeOK'
    BY <1>1, <1>8, <2>1 DEF AuthInv, CacheInv, AuthTypeOK, Asking
  <2>3. \A q \in Verifiers : Since(q, Documents[published])
    BY <1>3 DEF Since
  <2>4. DocumentsFetched'
    <3> SUFFICES ASSUME NEW q \in Verifiers
                 PROVE  /\ stage'[q] \in Asking => IsJWT(evidence[q])'
                        /\ stage'[q] = "store" => Since(q, document[q])'
      BY DEF DocumentsFetched
    <3>1. PICK keys : keys = document'[q]
      OBVIOUS
    <3>2. Since(q, document[q])' <=> Since(q, keys)
      BY <1>1, <3>1 DEF Since
    <3> QED BY <1>1, <1>6, <2>1, <2>3, <3>1, <3>2 DEF AuthInv, CacheInv, DocumentsFetched, Asking
  <2>5. Fetching' = Fetching
    BY <1>1, <2>1 DEF Fetching
  <2>6. FetchesAlone'
    <3> SUFFICES ASSUME NEW q \in Verifiers, ~disturbed'[q]
                 PROVE  /\ q \in Fetching' => Fetching' = {q}
                        /\ stage'[q] = "look" =>
                             /\ Since(q, cache)'
                             /\ \A p \in Verifiers : stage'[p] = "store" => Since(q, document[p])'
      BY DEF FetchesAlone
    <3>1. q \in Fetching' => Fetching' = {q}
      BY <1>8, <2>5 DEF AuthInv, CacheInv, FetchesAlone
    <3>2. ASSUME stage'[q] = "look" PROVE Since(q, cache)'
      BY <1>1, <1>8, <2>1, <3>2 DEF AuthInv, CacheInv, FetchesAlone, Since
    <3>3. ASSUME stage'[q] = "look", NEW p \in Verifiers, stage'[p] = "store" PROVE Since(q, document[p])'
      <4>1. PICK keys : keys = document'[p]
        OBVIOUS
      <4>2. Since(q, document[p])' <=> Since(q, keys)
        BY <1>1, <4>1 DEF Since
      <4> QED BY <1>8, <2>1, <2>3, <3>3, <4>1, <4>2 DEF AuthInv, CacheInv, FetchesAlone
    <3> QED BY <3>1, <3>2, <3>3
  <2>7. ASSUME NEW q \in Verifiers PROVE Ruled(q)'
    <3>1. CASE stage'[q] = "done"
      BY <1>1, <1>2, <1>8, <2>1, <3>1, RulingStands
    <3> QED BY <3>1 DEF Ruled
  <2> QED BY <1>5, <2>2, <2>4, <2>6, <2>7 DEF AuthInv, CacheInv
<1>9. CASE /\ Decide(r, evidence[r], FALSE)
           /\ disturbed' = [disturbed EXCEPT ![r] = TRUE]
           /\ UNCHANGED document
  <2>1. /\ stage' = [stage EXCEPT ![r] = "done"] /\ stage'[r] = "done" /\ disturbed'[r] = TRUE
        /\ \A q \in Verifiers : q # r => /\ stage'[q] = stage[q] /\ verdict'[q] = verdict[q]
                                          /\ disturbed'[q] = disturbed[q]
        /\ verdict' = [q \in Verifiers |-> verdict'[q]]
    BY <1>9 DEF Decide, Moves, AuthInv, CacheInv, AuthTypeOK
  <2>2. AuthTypeOK'
    BY <1>1, <1>9, <2>1 DEF AuthInv, CacheInv, AuthTypeOK, Asking
  <2>3. \A q \in Verifiers : stage'[q] \in Asking => q # r /\ stage'[q] = stage[q]
    BY <2>1 DEF Asking
  <2>4. DocumentsFetched'
    BY <1>1, <1>6, <1>9, <2>1, <2>3 DEF AuthInv, CacheInv, DocumentsFetched, Since, Asking
  <2>5. \A q \in Verifiers : q \in Fetching' => q # r /\ q \in Fetching
    BY <2>1 DEF Fetching
  <2>6. FetchesAlone'
    <3> SUFFICES ASSUME NEW q \in Verifiers, ~disturbed'[q]
                 PROVE  /\ q \in Fetching' => Fetching' = {q}
                        /\ stage'[q] = "look" =>
                             /\ Since(q, cache)'
                             /\ \A p \in Verifiers : stage'[p] = "store" => Since(q, document[p])'
      BY DEF FetchesAlone
    <3>1. q # r /\ ~disturbed[q]
      BY <2>1
    <3>2. q \notin Fetching'
      BY <1>7, <2>5, <3>1 DEF AuthInv, CacheInv, FetchesAlone
    <3>3. \A p \in Verifiers : stage'[p] = "store" => stage[p] = "store"
      BY <2>1
    <3> QED BY <1>1, <1>9, <2>1, <3>1, <3>2, <3>3 DEF AuthInv, CacheInv, FetchesAlone, Since
  <2>7. PICK e : e = evidence[r]
    OBVIOUS
  <2>8. Ruled(r)'
    BY <1>1, <1>9, <2>1, <2>2, <2>7, NewRuling
  <2>9. \A q \in Verifiers : q # r => Ruled(q)'
    <3> SUFFICES ASSUME NEW q \in Verifiers, q # r PROVE Ruled(q)'
      OBVIOUS
    <3>1. CASE stage'[q] = "done"
      BY <1>1, <1>2, <2>1, <3>1, RulingStands
    <3> QED BY <3>1 DEF Ruled
  <2> QED BY <1>5, <2>2, <2>4, <2>6, <2>8, <2>9 DEF AuthInv, CacheInv
<1> QED BY <1>8, <1>9 DEF Fetch

LEMMA StoreKeeps == ASSUME AuthInv, NEW r \in Verifiers, Store(r) PROVE AuthInv'
<1>1. /\ stage[r] = "store" /\ cache' = document[r] /\ fetched' = TRUE
      /\ UNCHANGED <<config, published, evidence, verdict, calls, begun, disturbed>>
  BY DEF Store
<1>2. /\ stage' = [stage EXCEPT ![r] = "look"] /\ stage'[r] = "look"
      /\ \A q \in Verifiers : q # r => stage'[q] = stage[q] /\ document'[q] = document[q]
      /\ document' = [q \in Verifiers |-> document'[q]]
  BY DEF Store, Moves, AuthInv, CacheInv, AuthTypeOK
<1>3. /\ published \in 1..Newest /\ published \in Nat
      /\ \A q \in Verifiers : begun[q] \in Nat /\ begun[q] \in 1..published
  BY DocumentsAssumption DEF AuthInv, CacheInv, AuthTypeOK, Newest
<1>4. AuthTypeOK'
  BY <1>1, <1>2 DEF AuthInv, CacheInv, AuthTypeOK, Asking
<1>5. Since(r, document[r])
  BY <1>1 DEF AuthInv, CacheInv, DocumentsFetched
<1>6. CachePublished'
  BY <1>1, <1>3, <1>5 DEF Since, CachePublished
<1>7. \A q \in Verifiers : IsJWT(evidence[q])' <=> IsJWT(evidence[q])
  BY <1>1, SameConfig
<1>8. DocumentsFetched'
  BY <1>1, <1>2, <1>7 DEF AuthInv, CacheInv, DocumentsFetched, Since, Asking
<1>9. r \in Fetching /\ \A q \in Verifiers : q \in Fetching' => q # r /\ q \in Fetching
  BY <1>1, <1>2 DEF Fetching
<1>10. FetchesAlone'
  <2> SUFFICES ASSUME NEW q \in Verifiers, ~disturbed'[q]
               PROVE  /\ q \in Fetching' => Fetching' = {q}
                      /\ stage'[q] = "look" =>
                           /\ Since(q, cache)'
                           /\ \A p \in Verifiers : stage'[p] = "store" => Since(q, document[p])'
    BY DEF FetchesAlone
  <2>1. q \notin Fetching'
    BY <1>1, <1>9 DEF AuthInv, CacheInv, FetchesAlone
  <2>2. \A keys : Since(q, keys)' <=> Since(q, keys)
    BY <1>1 DEF Since
  <2>3. PICK keys : keys = document[r]
    OBVIOUS
  <2>4. Since(q, cache)' <=> Since(q, keys)
    BY <1>1, <2>3 DEF Since
  <2>5. CASE q = r
    <3>1. \A p \in Verifiers : stage'[p] # "store"
      BY <1>1, <1>2, <1>9, <2>5 DEF AuthInv, CacheInv, FetchesAlone, Fetching
    <3> QED BY <1>5, <2>1, <2>3, <2>4, <2>5, <3>1
  <2>6. CASE q # r
    <3>1. stage'[q] = "look" => Since(q, cache)'
      BY <1>1, <1>2, <2>3, <2>4, <2>6 DEF AuthInv, CacheInv, FetchesAlone
    <3>2. ASSUME stage'[q] = "look", NEW p \in Verifiers, stage'[p] = "store"
          PROVE  Since(q, document[p])'
      <4>1. p # r /\ document'[p] = document[p] /\ stage[p] = "store" /\ stage[q] = "look"
        BY <1>2, <2>6, <3>2
      <4> QED BY <1>1, <4>1 DEF AuthInv, CacheInv, FetchesAlone, Since
    <3> QED BY <2>1, <3>1, <3>2
  <2> QED BY <2>5, <2>6
<1>11. ASSUME NEW q \in Verifiers PROVE Ruled(q)'
  <2>1. CASE stage'[q] = "done"
    BY <1>1, <1>2, <1>3, <2>1, RulingStands
  <2> QED BY <2>1 DEF Ruled
<1> QED BY <1>4, <1>6, <1>8, <1>10, <1>11 DEF AuthInv, CacheInv

LEMMA LookAgainKeeps == ASSUME AuthInv, NEW r \in Verifiers, LookAgain(r) PROVE AuthInv'
<1>1. /\ stage[r] = "look"
      /\ UNCHANGED <<config, published, cache, fetched, evidence, document, calls, begun, disturbed>>
  BY DEF LookAgain
<1>2. PICK e : e = evidence[r]
  OBVIOUS
<1> DEFINE jwt == JWT[e.bearer]
<1>3. \/ Decide(r, e, TRUE) /\ HasKey(cache, jwt) /\ Signed(cache, jwt)
      \/ Decide(r, e, FALSE) /\ ~(HasKey(cache, jwt) /\ Signed(cache, jwt))
  <2>1. Decide(r, e, HasKey(cache, jwt) /\ Signed(cache, jwt))
    BY <1>2 DEF LookAgain
  <2>2. CASE HasKey(cache, jwt) /\ Signed(cache, jwt)
    BY <2>1, <2>2 DEF Decide, Authenticate, BearerVerdict
  <2>3. CASE ~(HasKey(cache, jwt) /\ Signed(cache, jwt))
    BY <2>1, <2>3 DEF Decide, Authenticate, BearerVerdict
  <2> QED BY <2>2, <2>3
<1> HIDE DEF jwt
<1>4. /\ stage' = [stage EXCEPT ![r] = "done"] /\ stage'[r] = "done"
      /\ \A q \in Verifiers : q # r => stage'[q] = stage[q] /\ verdict'[q] = verdict[q]
      /\ verdict' = [q \in Verifiers |-> verdict'[q]]
  BY <1>3 DEF Decide, Moves, AuthInv, CacheInv, AuthTypeOK
<1>5. AuthTypeOK'
  BY <1>1, <1>4 DEF AuthInv, CacheInv, AuthTypeOK, Asking
<1>6. CachePublished'
  BY <1>1 DEF AuthInv, CacheInv, CachePublished
<1>7. \A q \in Verifiers : IsJWT(evidence[q])' <=> IsJWT(evidence[q])
  BY <1>1, SameConfig
<1>8. DocumentsFetched'
  BY <1>1, <1>4, <1>7 DEF AuthInv, CacheInv, DocumentsFetched, Since, Asking
<1>9. Fetching' = Fetching
  BY <1>1, <1>4 DEF Fetching
<1>10. FetchesAlone'
  <2>1. \A q \in Verifiers : /\ stage'[q] = "look" => stage[q] = "look"
                             /\ stage'[q] = "store" => stage[q] = "store"
    BY <1>4
  <2> SUFFICES ASSUME NEW q \in Verifiers, ~disturbed'[q]
               PROVE  /\ q \in Fetching' => Fetching' = {q}
                      /\ stage'[q] = "look" =>
                           /\ Since(q, cache)'
                           /\ \A p \in Verifiers : stage'[p] = "store" => Since(q, document[p])'
    BY DEF FetchesAlone
  <2>2. q \in Fetching' => Fetching' = {q}
    BY <1>1, <1>9 DEF AuthInv, CacheInv, FetchesAlone
  <2>3. ASSUME stage'[q] = "look" PROVE Since(q, cache)'
    BY <1>1, <2>1, <2>3 DEF AuthInv, CacheInv, FetchesAlone, Since
  <2>4. ASSUME stage'[q] = "look", NEW p \in Verifiers, stage'[p] = "store" PROVE Since(q, document[p])'
    <3>1. stage[q] = "look" /\ stage[p] = "store"
      BY <2>1, <2>4
    <3> QED BY <1>1, <3>1 DEF AuthInv, CacheInv, FetchesAlone, Since
  <2> QED BY <2>2, <2>3, <2>4
<1>11. Ruled(r)'
  <2>1. CASE Decide(r, e, TRUE) /\ HasKey(cache, jwt) /\ Signed(cache, jwt)
    BY <1>1, <1>2, <1>5, <2>1, CacheJudges, NewRuling DEF jwt
  <2>2. CASE Decide(r, e, FALSE) /\ ~(HasKey(cache, jwt) /\ Signed(cache, jwt))
    <3>1. ASSUME ~disturbed[r], AlwaysPublished(r, jwt)' PROVE FALSE
      <4>1. PICK n \in begun[r]..published : cache = Documents[n]
        BY <1>1, <3>1 DEF AuthInv, CacheInv, FetchesAlone, Since
      <4>2. jwt.kid \in DOMAIN Documents[n] /\ Documents[n][jwt.kid] = jwt.signer
        BY <1>1, <3>1 DEF AlwaysPublished
      <4> QED BY <2>2, <4>1, <4>2 DEF HasKey, Signed
    <3>2. ~disturbed'[r] => ~AlwaysPublished(r, jwt)'
      BY <1>1, <3>1
    <3> QED BY <1>1, <1>2, <1>5, <2>2, <3>2, NewRuling DEF jwt
  <2> QED BY <1>3, <2>1, <2>2
<1>12. ASSUME NEW q \in Verifiers, q # r PROVE Ruled(q)'
  <2>1. CASE stage'[q] = "done"
    <3>1. published \in Nat /\ published' = published
      BY <1>1 DEF AuthInv, CacheInv, AuthTypeOK
    <3> QED BY <1>1, <1>4, <1>12, <2>1, <3>1, RulingStands
  <2> QED BY <2>1 DEF Ruled
<1> QED BY <1>5, <1>6, <1>8, <1>10, <1>11, <1>12 DEF AuthInv, CacheInv

LEMMA AuthInductive == AuthInv /\ [AuthNext]_authVars => AuthInv'
<1> SUFFICES ASSUME AuthInv, [AuthNext]_authVars PROVE AuthInv'
  OBVIOUS
<1>1. CASE UNCHANGED authVars
  <2>1. UNCHANGED <<config, published, cache, fetched, stage, evidence, document, verdict, begun, disturbed>>
    BY <1>1 DEF authVars
  <2>2. CacheInv'
    <3>1. AuthTypeOK' /\ CachePublished'
      BY <2>1 DEF AuthInv, CacheInv, AuthTypeOK, CachePublished
    <3>2. \A q \in Verifiers : IsJWT(evidence[q])' <=> IsJWT(evidence[q])
      BY <2>1, SameConfig
    <3>3. DocumentsFetched' /\ FetchesAlone'
      BY <2>1, <3>2 DEF AuthInv, CacheInv, DocumentsFetched, FetchesAlone, Fetching, Since
    <3> QED BY <3>1, <3>3 DEF CacheInv
  <2>3. ASSUME NEW q \in Verifiers PROVE Ruled(q)'
    <3>1. published \in Nat
      BY DocumentsAssumption DEF AuthInv, CacheInv, AuthTypeOK, Newest
    <3>2. CASE stage'[q] = "done"
      BY <2>1, <3>1, <3>2, RulingStands
    <3> QED BY <3>2 DEF Ruled
  <2> QED BY <2>2, <2>3 DEF AuthInv
<1> QED BY <1>1, RotateKeeps, ArriveKeeps, FetchKeeps, StoreKeeps, LookAgainKeeps DEF AuthNext

(* What Authenticate says, and what of it survives admit.                   *)
LEMMA AuthenticateSays ==
  ASSUME NEW e, NEW signed \in BOOLEAN
  PROVE  LET a == Authenticate(e, signed) IN
         ~Failed(a) =>
           /\ a.method \in {"unix-socket", "loopback", "oidc", "api-token", "mtls-spiffe"}
           /\ a.method = "oidc" => IsJWT(e) /\ signed /\ JWT[e.bearer].valid
           /\ a.method = "loopback" => ~NetworkMethods
<1> DEFINE a == Authenticate(e, signed)
           Says(v) == ~Failed(v) =>
             /\ v.method \in {"unix-socket", "loopback", "oidc", "api-token", "mtls-spiffe"}
             /\ v.method = "oidc" => IsJWT(e) /\ signed /\ JWT[e.bearer].valid
             /\ v.method = "loopback" => ~NetworkMethods
<1>1. \A i : Failed(Failure(i))
  BY DEF Failed, Failure
<1>2. \A t, m, n, d : ~Failed(Identity(t, m, n, d)) /\ Identity(t, m, n, d).method = m
  BY DEF Failed, Identity
<1>3. \A i : Says(Failure(i))
  BY <1>1
<1>4. \A t, n, d : Says(Identity(t, "unix-socket", n, d)) /\ Says(Identity(t, "mtls-spiffe", n, d))
                   /\ Says(Identity(t, "api-token", n, d))
  BY <1>2
<1> SUFFICES Says(a)
  OBVIOUS
<1>5. CASE e.unix
  <2>1. Says(Identity("local", "unix-socket", "uid", FALSE))
    BY <1>4, Zenon
  <2>2. a = Identity("local", "unix-socket", "uid", FALSE)
    BY <1>5, Zenon DEF Authenticate, BearerDecides
  <2> QED BY <2>1, <2>2
<1>6. CASE ~e.unix /\ LoopbackTrusted(e)
  <2>1. ~NetworkMethods
    BY <1>6 DEF LoopbackTrusted
  <2>2. /\ ~Failed(Identity("local", "loopback", "loopback", FALSE))
        /\ Identity("local", "loopback", "loopback", FALSE).method = "loopback"
    BY DEF Identity, Failed
  <2>3. Says(Identity("local", "loopback", "loopback", FALSE))
    BY <2>1, <2>2
  <2>4. a = Identity("local", "loopback", "loopback", FALSE)
    BY <1>6, Zenon DEF Authenticate, BearerDecides
  <2> QED BY <2>3, <2>4
<1>7. CASE BearerDecides(e)
  <2>1. a = BearerVerdict(e, signed)
    BY <1>7 DEF Authenticate, BearerDecides
  <2>2. Says(APITokenVerdict(e.bearer))
    BY <1>3, <1>4 DEF APITokenVerdict
  <2>3. ASSUME IsJWT(e), signed, Verifies(JWT[e.bearer]) PROVE Says(JWTVerdict(JWT[e.bearer]))
    <3>1. \A t, n, d : Says(Identity(t, "oidc", n, d))
      <4>1. IsJWT(e) /\ signed /\ JWT[e.bearer].valid
        BY <2>3 DEF Verifies
      <4> QED BY <1>2, <4>1
    <3> QED BY <1>3, <3>1 DEF JWTVerdict
  <2> QED BY <2>1, <2>2, <2>3 DEF BearerVerdict
<1>8. CASE ~e.unix /\ ~LoopbackTrusted(e) /\ ~BearerDecides(e)
  BY <1>3, <1>4, <1>8 DEF Authenticate
<1>9. Says(a)
  BY <1>5, <1>6, <1>7, <1>8
<1> QED BY <1>9

LEMMA AdmittedSays ==
  ASSUME NEW e, NEW signed \in BOOLEAN, NEW v, v = Admitted(Authenticate(e, signed)), ~Failed(v)
  PROVE  /\ v.method = "oidc" => IsJWT(e) /\ signed /\ JWT[e.bearer].valid
         /\ v.method = "loopback" => ~NetworkMethods
         /\ v.method = "observe-only" => ~v.admin /\ config.observeOnly
<1> DEFINE a == Authenticate(e, signed)
<1>1. CASE Failed(a) /\ config.observeOnly
  <2>1. v = Identity("observe-unauthenticated", "observe-only", a.failure, FALSE)
    BY <1>1 DEF Admitted
  <2>2. v.method = "observe-only" /\ v.admin = FALSE
    BY <2>1 DEF Identity
  <2> QED BY <1>1, <2>2
<1>2. CASE ~(Failed(a) /\ config.observeOnly)
  <2>1. v = a
    BY <1>2 DEF Admitted
  <2> QED BY <2>1, AuthenticateSays
<1> QED BY <1>1, <1>2

(* Whatever the cache has been through, a token that is accepted bears a    *)
(* key the issuer has published under its ID, or a configured secret, and   *)
(* one that is good and signed with a key that has been published all along *)
(* is refused only when its fetch failed or another one overlapped; and a   *)
(* failure yields no tenant but the observe tenant (oidc.go, auth.go).      *)
THEOREM TokensJudged == AuthSpec => []JudgedByIssuer
<1>1. AuthInv => JudgedByIssuer
  <2> SUFFICES ASSUME AuthInv, NEW r \in Verifiers, stage[r] = "done"
               PROVE  LET v == verdict[r]
                          e == evidence[r] IN
                      /\ ~Failed(v) /\ v.method = "oidc" =>
                           LET jwt == JWT[e.bearer] IN
                           jwt.valid /\ (EverPublished(jwt.kid, jwt.signer) \/ SecretSigned(jwt))
                      /\ Judged(r) /\ JWT[e.bearer].alg = "RS" /\ AlwaysPublished(r, JWT[e.bearer]) =>
                           v = Admitted(BearerVerdict(e, TRUE))
                      /\ ~Failed(v) /\ v.method = "loopback" => ~NetworkMethods
                      /\ ~Failed(v) /\ v.method = "observe-only" => ~v.admin /\ config.observeOnly
    BY DEF JudgedByIssuer
  <2>1. PICK e, v : e = evidence[r] /\ v = verdict[r]
    OBVIOUS
  <2> DEFINE jwt == JWT[e.bearer]
  <2>2. Accepted(r) \/ Refused(r)
    BY DEF AuthInv, Ruled
  <2>3. PICK signed \in BOOLEAN :
          /\ v = Admitted(Authenticate(e, signed))
          /\ signed /\ IsJWT(e) => EverPublished(jwt.kid, jwt.signer) \/ SecretSigned(jwt)
          /\ ~signed /\ Judged(r) /\ jwt.alg = "RS" => ~AlwaysPublished(r, jwt)
    BY <2>1, <2>2 DEF Accepted, Refused
  <2>4. ~Failed(v) =>
          /\ v.method = "oidc" => jwt.valid /\ (EverPublished(jwt.kid, jwt.signer) \/ SecretSigned(jwt))
          /\ v.method = "loopback" => ~NetworkMethods
          /\ v.method = "observe-only" => ~v.admin /\ config.observeOnly
    BY <2>3, AdmittedSays
  <2>5. ASSUME Judged(r), jwt.alg = "RS", AlwaysPublished(r, jwt) PROVE v = Admitted(BearerVerdict(e, TRUE))
    <3>1. signed = TRUE /\ v = Admitted(Authenticate(e, TRUE))
      BY <2>3, <2>5
    <3>2. BearerDecides(e)
      BY <2>1, <2>5 DEF Judged, IsJWT
    <3> QED BY <3>1, <3>2 DEF Authenticate, BearerDecides
  <2> QED BY <2>1, <2>4, <2>5
<1> QED BY <1>1, AuthInitial, AuthInductive, PTL DEF AuthSpec

-----------------------------------------------------------------------------
(* Configuration. *)

(* The quotas as mergeQuota completes them out of the block.                *)
GeneralQuota == MergeQuota(DefaultQuota, block.quota)
TenantQuotas == [t \in DOMAIN block.overrides |-> MergeQuota(GeneralQuota, block.overrides[t])]

Completed(c) == c.quota = GeneralQuota /\ c.overrides = TenantQuotas

(* The surfaces that are open at each stage.                                *)
Opened(stg) ==
  CASE stg = "http" -> {"grpc"}
    [] stg = "unix" -> {"grpc", "http"}
    [] stg \in {"scheduler", "serving"} -> {"grpc", "http", "unix"}
    [] OTHER -> {}

StartupInv ==
  /\ block \in Blocks /\ DOMAIN secCfg = Fields
  /\ startup = "flags" => secCfg = block
  /\ startup # "flags" => Completed(secCfg)
  /\ startup \in {"created", "grpc", "http", "unix", "scheduler", "serving"} => Valid(secCfg)
  /\ startup \in {"grpc", "http", "unix", "scheduler", "serving"} => SurfaceAllowed(secCfg)
  /\ listening = {s \in Opened(startup) : secCfg[s] # ""}

(* A quota that mergeQuota has completed is a fixed point of it: no limit   *)
(* is left unset, and none is above the hard one.                           *)
LEMMA MergeTwice ==
  ASSUME NEW base \in [DOMAIN DefaultQuota -> Nat \ {0}], base["MaxMessageBytes"] <= HardMaxMessageBytes,
         NEW q \in [DOMAIN DefaultQuota -> Nat]
  PROVE  /\ MergeQuota(base, q) \in [DOMAIN DefaultQuota -> Nat \ {0}]
         /\ MergeQuota(base, q)["MaxMessageBytes"] <= HardMaxMessageBytes
         /\ MergeQuota(base, MergeQuota(base, q)) = MergeQuota(base, q)
<1> DEFINE merged == MergeQuota(base, q)
<1>1. HardMaxMessageBytes \in Nat \ {0} /\ "MaxMessageBytes" \in DOMAIN DefaultQuota
  BY StartupAssumption
<1>2. \A f \in DOMAIN DefaultQuota :
        /\ merged[f] \in Nat \ {0}
        /\ f = "MaxMessageBytes" => merged[f] <= HardMaxMessageBytes
  BY <1>1 DEF MergeQuota
<1>3. merged = [f \in DOMAIN DefaultQuota |-> merged[f]]
  BY DEF MergeQuota
<1> HIDE DEF merged
<1>4. MergeQuota(base, merged) = merged
  <2>1. MergeQuota(base, merged) = [f \in DOMAIN DefaultQuota |-> merged[f]]
    BY <1>1, <1>2 DEF MergeQuota
  <2> QED BY <1>3, <2>1
<1> QED BY <1>1, <1>2, <1>3, <1>4 DEF merged

LEMMA GeneralIsBase ==
  ASSUME block \in Blocks
  PROVE  /\ GeneralQuota \in [DOMAIN DefaultQuota -> Nat \ {0}]
         /\ GeneralQuota["MaxMessageBytes"] <= HardMaxMessageBytes
         /\ MergeQuota(DefaultQuota, GeneralQuota) = GeneralQuota
<1>1. DefaultQuota \in [DOMAIN DefaultQuota -> Nat \ {0}] /\ DefaultQuota["MaxMessageBytes"] <= HardMaxMessageBytes
  BY StartupAssumption, BlocksAssumption
<1>2. block.quota \in [DOMAIN DefaultQuota -> Nat]
  BY BlocksAssumption
<1> QED BY <1>1, <1>2, MergeTwice DEF GeneralQuota

(* Normalize, of the block and of what it has made of it before.            *)
LEMMA NormalizeCompletes ==
  ASSUME block \in Blocks, NEW c, DOMAIN c = Fields,
         Completed(c) \/ (c.quota = block.quota /\ c.overrides = block.overrides)
  PROVE  Completed(Normalized(c)) /\ DOMAIN Normalized(c) = Fields
<1>1. /\ Normalized(c).quota = MergeQuota(DefaultQuota, c.quota)
      /\ Normalized(c).overrides = Overrides(c)
      /\ DOMAIN Normalized(c) = Fields
  BY DEF Normalized, Fields
<1>2. MergeQuota(DefaultQuota, c.quota) = GeneralQuota
  BY GeneralIsBase DEF Completed, GeneralQuota
<1>3. Overrides(c) = TenantQuotas
  <2>1. Overrides(c) = [t \in DOMAIN c.overrides |-> MergeQuota(GeneralQuota, c.overrides[t])]
    BY <1>2 DEF Overrides
  <2>2. CASE c.overrides = block.overrides
    BY <2>1, <2>2 DEF TenantQuotas
  <2>3. CASE c.overrides = TenantQuotas
    <3>1. DOMAIN c.overrides = DOMAIN block.overrides
      BY <2>3 DEF TenantQuotas
    <3>2. ASSUME NEW t \in DOMAIN block.overrides
          PROVE  MergeQuota(GeneralQuota, c.overrides[t]) = MergeQuota(GeneralQuota, block.overrides[t])
      <4>1. block.overrides[t] \in [DOMAIN DefaultQuota -> Nat]
        BY BlocksAssumption
      <4>2. c.overrides[t] = MergeQuota(GeneralQuota, block.overrides[t])
        BY <2>3 DEF TenantQuotas
      <4> QED BY <4>1, <4>2, GeneralIsBase, MergeTwice
    <3> QED BY <2>1, <3>1, <3>2 DEF TenantQuotas
  <2> QED BY <2>2, <2>3 DEF Completed
<1> QED BY <1>1, <1>2, <1>3 DEF Completed

LEMMA StartupInitial == StartupInit => StartupInv
BY BlocksAssumption DEF StartupInit, StartupInv, Opened

LEMMA NormalizeKeeps ==
  ASSUME StartupInv, BuildConfig \/ NewAuthenticator \/ NewReceiver PROVE StartupInv'
<1>1. block \in Blocks /\ UNCHANGED <<block, listening>> /\ DOMAIN secCfg = Fields
  BY DEF StartupInv, BuildConfig, NewAuthenticator, NewReceiver
<1>2. \A c : Completed(c)' <=> Completed(c)
  BY <1>1 DEF Completed, GeneralQuota, TenantQuotas
<1>3. listening = {} /\ Opened(startup)' = {}
  BY DEF StartupInv, BuildConfig, NewAuthenticator, NewReceiver, Opened
<1>4. Completed(secCfg') /\ DOMAIN secCfg' = Fields
  <2>1. CASE BuildConfig
    <3>1. PICK f \in Flags : secCfg' = Normalized(Build(block, f))
      BY <2>1 DEF BuildConfig
    <3>2. /\ DOMAIN Build(block, f) = Fields
          /\ Build(block, f).quota = block.quota /\ Build(block, f).overrides = block.overrides
      BY <1>1, BlocksAssumption DEF Build, Fields
    <3> QED BY <1>1, <3>1, <3>2, NormalizeCompletes
  <2>2. CASE NewAuthenticator \/ NewReceiver
    <3>1. Completed(secCfg)
      BY <2>2 DEF StartupInv, NewAuthenticator, NewReceiver
    <3>2. secCfg' = secCfg \/ secCfg' = Normalized(secCfg)
      BY <2>2 DEF NewAuthenticator, NewReceiver
    <3> QED BY <1>1, <3>1, <3>2, NormalizeCompletes
  <2> QED BY <2>1, <2>2
<1>5. /\ startup' \in {"config", "ready", "refused", "created", "off"}
      /\ startup' = "created" => Valid(secCfg')
  BY DEF BuildConfig, NewAuthenticator, NewReceiver
<1>6. Completed(secCfg)'
  BY <1>1, <1>4 DEF Completed, GeneralQuota, TenantQuotas
<1>7. (startup' = "created" => Valid(secCfg)')
  BY <1>5 DEF Valid
<1> QED BY <1>1, <1>3, <1>4, <1>5, <1>6, <1>7 DEF StartupInv

LEMMA ListenKeeps ==
  ASSUME StartupInv, CheckSurface \/ Listen \/ SkipSurface \/ ListenFails \/ StartScheduler \/ StopReceiver
  PROVE  StartupInv'
<1>1. UNCHANGED <<block, secCfg>> /\ startup # "flags" /\ startup' # "flags"
  BY DEF CheckSurface, Listen, SkipSurface, ListenFails, StartScheduler, StopReceiver, NextSurface
<1>2. Completed(secCfg)' <=> Completed(secCfg)
  BY <1>1 DEF Completed, GeneralQuota, TenantQuotas
<1>3. Valid(secCfg)' <=> Valid(secCfg)
  BY <1>1 DEF Valid
<1>4. SurfaceAllowed(secCfg)' <=> SurfaceAllowed(secCfg)
  BY <1>1 DEF SurfaceAllowed, MethodsConfigured
<1>5. startup \in {"created", "grpc", "http", "unix", "scheduler", "serving"} /\ startup' # "created"
  BY DEF CheckSurface, Listen, SkipSurface, ListenFails, StartScheduler, StopReceiver, NextSurface
<1>6. startup' \in {"grpc", "http", "unix", "scheduler", "serving"} => SurfaceAllowed(secCfg)
  BY DEF StartupInv, CheckSurface, Listen, SkipSurface, ListenFails, StartScheduler, StopReceiver
<1>7. listening' = {s \in Opened(startup)' : secCfg[s] # ""}
  <2>1. CASE Listen \/ SkipSurface
    <3>1. startup \in {"grpc", "http", "unix"} /\ startup' = NextSurface(startup)
      BY <2>1 DEF Listen, SkipSurface
    <3>2. Opened(startup)' = Opened(startup) \cup {startup}
      BY <3>1 DEF Opened, NextSurface
    <3>3. listening' = IF secCfg[startup] = "" THEN listening ELSE listening \cup {startup}
      BY <2>1 DEF Listen, SkipSurface
    <3> QED BY <3>2, <3>3 DEF StartupInv
  <2>2. CASE CheckSurface \/ StartScheduler
    <3>1. Opened(startup)' = Opened(startup) /\ listening' = listening
      BY <2>2 DEF Opened, CheckSurface, StartScheduler
    <3> QED BY <3>1 DEF StartupInv
  <2>3. CASE ListenFails \/ StopReceiver
    BY <2>3 DEF Opened, ListenFails, StopReceiver
  <2> QED BY <2>1, <2>2, <2>3
<1>8. listening' = {s \in Opened(startup)' : secCfg'[s] # ""}
  BY <1>1, <1>7
<1> QED BY <1>1, <1>2, <1>3, <1>4, <1>5, <1>6, <1>8 DEF StartupInv

LEMMA StartupInductive == StartupInv /\ [StartupNext]_startupVars => StartupInv'
<1> SUFFICES ASSUME StartupInv, [StartupNext]_startupVars PROVE StartupInv'
  OBVIOUS
<1>1. CASE UNCHANGED startupVars
  BY <1>1 DEF startupVars, StartupInv, Completed, GeneralQuota, TenantQuotas, Valid, SurfaceAllowed,
              MethodsConfigured, Opened
<1> QED BY <1>1, NormalizeKeeps, ListenKeeps DEF StartupNext

(* Normalize runs up to three times over one Config and still leaves the    *)
(* limits the operator wrote; and the surfaces that are open are those the  *)
(* configuration may open, all of them or none (config.go, receiver.go).    *)
THEOREM ConfigurationStands == StartupSpec => []ConfiguredAsMeant
<1>1. StartupInv => QuotasAsMeant
  <2> SUFFICES ASSUME StartupInv, startup # "flags", NEW t \in DOMAIN block.overrides \union {AnyTenant},
                      NEW f \in DOMAIN DefaultQuota
               PROVE  QuotaFor(secCfg, t)[f] = Meant(t, f)
    BY DEF QuotasAsMeant
  <2>1. block \in Blocks /\ secCfg.quota = GeneralQuota /\ secCfg.overrides = TenantQuotas
    BY DEF StartupInv, Completed
  <2>2. /\ DOMAIN TenantQuotas = DOMAIN block.overrides
        /\ DOMAIN GeneralQuota = DOMAIN DefaultQuota
        /\ HardMaxMessageBytes \in Nat /\ DefaultQuota[f] \in Nat \ {0}
    BY StartupAssumption DEF TenantQuotas, GeneralQuota, MergeQuota
  <2>3. block.quota[f] \in Nat
    BY <2>1, BlocksAssumption
  <2>4. GeneralQuota[f] = Capped(f, IF block.quota[f] = 0 THEN DefaultQuota[f] ELSE block.quota[f])
    BY <2>2, <2>3 DEF GeneralQuota, MergeQuota, Capped
  <2>5. CASE t \in DOMAIN block.overrides
    <3>1. block.overrides[t][f] \in Nat
      BY <2>1, <2>5, BlocksAssumption
    <3>2. QuotaFor(secCfg, t)[f] =
            Capped(f, IF block.overrides[t][f] = 0 THEN GeneralQuota[f] ELSE block.overrides[t][f])
      BY <2>1, <2>2, <2>5 DEF QuotaFor, TenantQuotas, MergeQuota, Capped
    <3> QED BY <2>2, <2>3, <2>4, <2>5, <3>1, <3>2 DEF Meant, Capped
  <2>6. CASE t \notin DOMAIN block.overrides
    BY <2>1, <2>2, <2>4, <2>6 DEF QuotaFor, Meant
  <2> QED BY <2>5, <2>6
<1>2. StartupInv => SurfacesGuarded
  <2> SUFFICES ASSUME StartupInv PROVE SurfacesGuarded
    OBVIOUS
  <2>1. listening = {s \in Opened(startup) : secCfg[s] # ""}
    BY DEF StartupInv
  <2>2. startup \in {"off", "refused", "stopped"} => listening = {}
    BY <2>1 DEF Opened
  <2>3. startup = "serving" => listening = {s \in {"grpc", "http", "unix"} : secCfg[s] # ""}
    BY <2>1 DEF Opened
  <2>4. listening # {} => startup \in {"http", "unix", "scheduler", "serving"}
    BY <2>1 DEF Opened
  <2>5. listening \subseteq {"grpc", "http", "unix"}
    BY <2>1 DEF Opened
  <2>6. listening # {} => SurfaceAllowed(secCfg) /\ Valid(secCfg)
    BY <2>4 DEF StartupInv
  <2>7. \A s \in listening \ {"unix"} : secCfg[s] = "network" =>
          MethodsConfigured(secCfg) \/ secCfg.observeOnly
    BY <2>5, <2>6 DEF SurfaceAllowed
  <2>8. listening # {} /\ secCfg.tls # Off /\ secCfg.tls.require = "yes" => secCfg.tls.ca
    BY <2>6 DEF Valid
  <2> QED BY <2>2, <2>3, <2>7, <2>8 DEF SurfacesGuarded
<1> QED BY <1>1, <1>2, StartupInitial, StartupInductive, PTL DEF ConfiguredAsMeant, StartupSpec
=============================================================================
