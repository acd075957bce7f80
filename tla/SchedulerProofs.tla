---------------------------- MODULE SchedulerProofs ----------------------------
(***************************************************************************)
(* Proofs about the scheduler for every number of tenants, exporters and   *)
(* workers, every queue depth and every behaviour of the sink.             *)
(***************************************************************************)
EXTENDS SchedulerProperties, FiniteSetTheorems, SequenceTheorems, TLAPS

(* Sequences: how the two ends of a channel change what is in it.          *)
Occurs(x, s) == \E i \in DOMAIN s : s[i] = x
Distinct(s)  == \A i, j \in DOMAIN s : s[i] = s[j] => i = j

(* A send adds the element at the end. *)
LEMMA AppendFacts ==
  ASSUME NEW S, NEW s \in Seq(S), NEW x \in S
  PROVE  /\ Append(s, x) \in Seq(S)
         /\ Len(Append(s, x)) = Len(s) + 1
         /\ \A y : Occurs(y, Append(s, x)) <=> Occurs(y, s) \/ y = x
         /\ Distinct(s) /\ ~Occurs(x, s) => Distinct(Append(s, x))
<1> DEFINE a == Append(s, x)
<1>1. /\ a \in Seq(S)
      /\ Len(a) = Len(s) + 1
      /\ DOMAIN a = 1..(Len(s) + 1)
      /\ DOMAIN s = 1..Len(s)
      /\ Len(s) \in Nat
      /\ \A i \in 1..Len(s) : a[i] = s[i]
      /\ a[Len(s) + 1] = x
  OBVIOUS
<1> HIDE DEF a
<1>2. \A y : Occurs(y, a) <=> Occurs(y, s) \/ y = x
  BY <1>1 DEF Occurs
<1>3. Distinct(s) /\ ~Occurs(x, s) => Distinct(a)
  BY <1>1 DEF Occurs, Distinct
<1> QED BY <1>1, <1>2, <1>3 DEF a

(* A receive takes the first element, and only that one when none is       *)
(* repeated.                                                               *)
LEMMA TailFacts ==
  ASSUME NEW S, NEW s \in Seq(S), s # <<>>
  PROVE  /\ Head(s) \in S
         /\ Tail(s) \in Seq(S)
         /\ Len(Tail(s)) = Len(s) - 1
         /\ Occurs(Head(s), s)
         /\ \A y : Occurs(y, Tail(s)) => Occurs(y, s)
         /\ \A y : Occurs(y, s) => Occurs(y, Tail(s)) \/ y = Head(s)
         /\ Distinct(s) => Distinct(Tail(s)) /\ ~Occurs(Head(s), Tail(s))
<1> DEFINE a == Tail(s)
<1>1. /\ a \in Seq(S)
      /\ Len(s) \in Nat \ {0}
      /\ Len(a) = Len(s) - 1
      /\ DOMAIN a = 1..(Len(s) - 1)
      /\ DOMAIN s = 1..Len(s)
      /\ \A i \in 1..(Len(s) - 1) : a[i] = s[i + 1]
      /\ Head(s) = s[1]
      /\ s[1] \in S
  OBVIOUS
<1> HIDE DEF a
<1>2. Occurs(Head(s), s)
  BY <1>1 DEF Occurs
<1>3. \A y : Occurs(y, a) => Occurs(y, s)
  BY <1>1 DEF Occurs
<1>4. ASSUME NEW y, Occurs(y, s)
      PROVE  Occurs(y, a) \/ y = Head(s)
  <2>1. PICK i \in 1..Len(s) : s[i] = y
    BY <1>1, <1>4 DEF Occurs
  <2>2. CASE i = 1
    BY <2>1, <2>2, <1>1
  <2>3. CASE i # 1
    <3>1. i - 1 \in 1..(Len(s) - 1) /\ (i - 1) + 1 = i
      BY <1>1, <2>3
    <3>2. a[i - 1] = y
      BY <1>1, <2>1, <3>1
    <3> QED BY <1>1, <3>1, <3>2 DEF Occurs
  <2> QED BY <2>2, <2>3
<1>5. Distinct(s) => Distinct(a) /\ ~Occurs(Head(s), a)
  <2> SUFFICES ASSUME Distinct(s)
               PROVE  Distinct(a) /\ ~Occurs(Head(s), a)
    OBVIOUS
  <2>1. ASSUME NEW i \in 1..(Len(s) - 1), NEW j \in 1..(Len(s) - 1), a[i] = a[j]
        PROVE  i = j
    <3>1. i + 1 \in DOMAIN s /\ j + 1 \in DOMAIN s /\ s[i + 1] = s[j + 1]
      BY <1>1, <2>1
    <3>2. i + 1 = j + 1
      BY <3>1 DEF Distinct
    <3> QED BY <1>1, <3>2
  <2>2. ASSUME NEW i \in 1..(Len(s) - 1), a[i] = Head(s)
        PROVE  FALSE
    <3>1. i + 1 \in DOMAIN s /\ 1 \in DOMAIN s /\ s[i + 1] = s[1]
      BY <1>1, <2>2
    <3>2. i + 1 = 1
      BY <3>1 DEF Distinct
    <3> QED BY <1>1, <3>2
  <2> QED BY <1>1, <2>1, <2>2 DEF Distinct, Occurs
<1> QED BY <1>1, <1>2, <1>3, <1>4, <1>5 DEF a

(* registerTenant keeps a sequence of tenants one. *)
LEMMA WithTenantType ==
  ASSUME tenants \in Seq(Tenants), NEW t \in Tenants
  PROVE  WithTenant(t) \in Seq(Tenants)
<1> DEFINE smaller == {i \in DOMAIN tenants : tenants[i] < t}
           k == Cardinality(smaller)
<1>1. Len(tenants) \in Nat /\ DOMAIN tenants = 1..Len(tenants)
  OBVIOUS
<1>2. IsFiniteSet(1..Len(tenants)) /\ Cardinality(1..Len(tenants)) = Len(tenants)
  BY <1>1, FS_Interval
<1>3. k \in Nat /\ k <= Len(tenants)
  <2>1. smaller \subseteq 1..Len(tenants)
    BY <1>1
  <2>2. IsFiniteSet(smaller) /\ k <= Cardinality(1..Len(tenants))
    BY <1>2, <2>1, FS_Subset
  <2>3. k \in Nat
    BY <2>2, FS_CardinalityType
  <2> QED BY <1>2, <2>2, <2>3
<1> HIDE DEF k
<1>4. SubSeq(tenants, 1, k) \in Seq(Tenants)
  BY <1>1, <1>3
<1>5. SubSeq(tenants, k + 1, Len(tenants)) \in Seq(Tenants)
  BY <1>1, <1>3
<1>6. SubSeq(tenants, 1, k) \o <<t>> \o SubSeq(tenants, k + 1, Len(tenants)) \in Seq(Tenants)
  BY <1>4, <1>5
<1> QED BY <1>6 DEF WithTenant, k

-----------------------------------------------------------------------------
(* Type correctness.                                                       *)

(* Between two rounds the dispatcher's i is 0.                             *)
CursorAtStart == dpc \in {"start", "wait", "exited"} => pos = 0

TypeInv == TypeOK /\ CursorAtStart

LEMMA ModType ==
  ASSUME NEW a \in Nat, NEW n \in Nat \ {0}
  PROVE  a % n \in Nat /\ a % n < n
  OBVIOUS

(* The tenant a round serves is a tenant.                                  *)
LEMMA ServingType ==
  ASSUME TypeOK, dpc \in {"pop", "push", "requeue"}
  PROVE  Serving \in Tenants
<1>1. round \in Seq(Tenants) /\ Len(round) \in Nat \ {0} /\ rotation + pos \in Nat
  BY DEF TypeOK
<1>2. ((rotation + pos) % Len(round)) + 1 \in 1..Len(round)
  BY <1>1, ModType
<1> QED BY <1>1, <1>2 DEF Serving, TenantAt

(* The dispatcher's cursor after a round that ends at r.                   *)
LEMMA EndRoundType ==
  ASSUME TypeOK, NEW w \in BOOLEAN, NEW r \in Nat, round # <<>>, EndRound(w, r)
  PROVE  /\ round' \in Seq(Tenants)
         /\ rotation' \in Nat
         /\ pos' \in Nat
         /\ worked' \in BOOLEAN
         /\ dpc' \in {"start", "wait"}
         /\ CursorAtStart'
<1>1. Len(round) \in Nat \ {0}
  BY DEF TypeOK
<1>2. r % Len(round) \in Nat
  BY <1>1, ModType
<1>3. dpc' \in {"start", "wait"}
  BY Zenon DEF EndRound
<1>4. rotation' = r % Len(round) /\ pos' = 0 /\ worked' = FALSE /\ round' = <<>>
  BY Zenon DEF EndRound
<1>5. worked' \in BOOLEAN
  BY <1>4
<1>6. CursorAtStart'
  BY <1>4 DEF CursorAtStart
<1>7. round' \in Seq(Tenants)
  BY <1>4
<1> QED BY <1>2, <1>3, <1>4, <1>5, <1>6, <1>7

(* The dispatcher's cursor after one tenant of a round.                    *)
LEMMA NextTenantType ==
  ASSUME TypeOK, NEW w \in BOOLEAN, dpc \in {"pop", "push"}, NextTenant(w)
  PROVE  /\ round' \in Seq(Tenants)
         /\ rotation' \in Nat
         /\ pos' \in Nat
         /\ worked' \in BOOLEAN
         /\ dpc' \in {"start", "wait", "pop"}
         /\ dpc' \in {"pop", "push", "requeue"} => pos' < Len(round') /\ rotation' < Len(round')
         /\ CursorAtStart'
<1>1. round # <<>> /\ rotation \in Nat /\ rotation + 1 \in Nat /\ pos \in Nat /\ Len(round) \in Nat
      /\ round \in Seq(Tenants) /\ rotation < Len(round)
  BY DEF TypeOK
<1>2. CASE pos + 1 < Len(round)
  BY <1>1, <1>2 DEF NextTenant, CursorAtStart
<1>3. CASE ~(pos + 1 < Len(round))
  <2>1. EndRound(w, rotation + 1)
    BY <1>3 DEF NextTenant
  <2> QED BY <1>1, <2>1, EndRoundType
<1> QED BY <1>2, <1>3

LEMMA InitTypeInv == Init => TypeInv
<1> SUFFICES ASSUME Init PROVE TypeInv
  OBVIOUS
<1>1. Cardinality(Workers) \in Nat
  BY WorkersFinite, FS_CardinalityType
<1>2. TypeOK
  <2>1. /\ tenants \in Seq(Tenants)
        /\ queue \in [Tenants -> Seq(Exports)]
        /\ \A t \in Tenants : Len(queue[t]) <= QueueDepth
        /\ jobs \in Seq(Exports)
        /\ Len(jobs) <= Cardinality(Workers)
        /\ round \in Seq(Tenants)
    BY <1>1, QueueDepthType DEF Init
  <2>2. /\ req \in [Exports -> {"idle", "register", "enqueue", "kick", "waiting", "returned"}]
        /\ result \in [Exports -> Replies \cup {"none", "context_done"}]
        /\ reply \in [Exports -> Replies \cup {"none"}]
        /\ verdict \in [Exports -> Verdicts \cup {"none"}]
        /\ calls \in [Exports -> Nat]
        /\ wpc \in [Workers -> {"idle", "sink", "reply", "exited"}]
        /\ wjob \in [Workers -> Exports \cup {NoExport}]
        /\ \A w \in Workers : wjob[w] # NoExport <=> wpc[w] \in {"sink", "reply"}
    BY DEF Init
  <2>3. kick \in BOOLEAN /\ cancelled \in BOOLEAN /\ worked \in BOOLEAN
    BY DEF Init
  <2> QED BY <2>1, <2>2, <2>3 DEF Init, TypeOK
<1> QED BY <1>2 DEF Init, TypeInv, CursorAtStart

(* The dispatcher's cursor after a round that found the pool saturated.    *)
LEMMA EndSaturatedType ==
  ASSUME TypeOK, dpc = "requeue", EndSaturated
  PROVE  /\ round' \in Seq(Tenants)
         /\ rotation' \in Nat
         /\ pos' \in Nat
         /\ worked' \in BOOLEAN
         /\ dpc' \in {"start", "wait"}
         /\ CursorAtStart'
<1>1. worked \in BOOLEAN /\ rotation + pos + 1 \in Nat /\ round # <<>>
  BY DEF TypeOK
<1>2. EndRound(worked, rotation + pos + 1)
  BY DEF EndSaturated
<1> QED BY <1>1, <1>2, EndRoundType

(* A send to a parse queue that has room keeps its type and capacity.      *)
LEMMA SendType ==
  ASSUME TypeOK, NEW t \in Tenants, NEW x \in Exports,
         QueueHasRoom(t), queue' = [queue EXCEPT ![t] = Append(@, x)]
  PROVE  /\ queue' \in [Tenants -> Seq(Exports)]
         /\ \A u \in Tenants : Len(queue'[u]) <= QueueDepth
<1>1. queue \in [Tenants -> Seq(Exports)] /\ queue[t] \in Seq(Exports) /\ Len(queue[t]) \in Nat
  BY DEF TypeOK
<1>2. Append(queue[t], x) \in Seq(Exports) /\ Len(Append(queue[t], x)) = Len(queue[t]) + 1
  BY <1>1, AppendFacts
<1>3. Len(queue[t]) + 1 <= QueueDepth
  BY <1>1, QueueDepthType DEF QueueHasRoom
<1>4. \A u \in Tenants : queue'[u] = IF u = t THEN Append(queue[t], x) ELSE queue[u]
  BY <1>1
<1> QED BY <1>1, <1>2, <1>3, <1>4 DEF TypeOK

LEMMA NextTypeInv == TypeInv /\ [Next]_vars => TypeInv'
<1> SUFFICES ASSUME TypeInv, [Next]_vars PROVE TypeInv'
  OBVIOUS
<1> USE DEF TypeInv, CursorAtStart, submitVars, dispatchVars, workerVars, Verdicts, Reasons, Replies
<1> USE TenantOfType, NoExportType, SinkErrorsType
<1>0. Cardinality(Workers) \in Nat
  BY WorkersFinite, FS_CardinalityType
<1>1. CASE UNCHANGED vars
  BY <1>1 DEF TypeOK, vars
<1>2. ASSUME NEW e \in Exports, Admit(e) PROVE TypeInv'
  BY <1>2 DEF TypeOK, Admit
<1>3. ASSUME NEW e \in Exports, Register(e) PROVE TypeInv'
  <2>1. tenants' \in Seq(Tenants)
    BY <1>3, WithTenantType DEF Register, TypeOK
  <2> QED BY <1>3, <2>1 DEF TypeOK, Register
<1>4. ASSUME NEW e \in Exports, Enqueue(e) PROVE TypeInv'
  <2>1. TenantOf[e] \in Tenants
    OBVIOUS
  <2>2. /\ queue' \in [Tenants -> Seq(Exports)]
        /\ \A u \in Tenants : Len(queue'[u]) <= QueueDepth
    BY <1>4, <2>1, SendType DEF Enqueue
  <2>3. /\ req' \in [Exports -> {"idle", "register", "enqueue", "kick", "waiting", "returned"}]
        /\ UNCHANGED <<tenants, jobs, kick, cancelled, result, reply, dispatchVars, workerVars, ledger>>
    BY <1>4 DEF TypeOK, Enqueue
  <2> QED BY <2>2, <2>3 DEF TypeOK
<1>5. ASSUME NEW e \in Exports, Refuse(e) PROVE TypeInv'
  <2>1. /\ req' \in [Exports -> {"idle", "register", "enqueue", "kick", "waiting", "returned"}]
        /\ result' \in [Exports -> Replies \cup {"none", "context_done"}]
        /\ UNCHANGED <<tenants, queue, jobs, kick, cancelled, reply, dispatchVars, workerVars>>
    BY <1>5 DEF TypeOK, Refuse
  <2>2. ledger' \in SUBSET (Exports \X Reasons)
    BY <1>5 DEF TypeOK, Refuse, Record
  <2> QED BY <2>1, <2>2 DEF TypeOK
<1>6. ASSUME NEW e \in Exports, Kick(e) PROVE TypeInv'
  BY <1>6 DEF TypeOK, Kick
<1>7. ASSUME NEW e \in Exports, ReceiveReply(e) PROVE TypeInv'
  BY <1>7 DEF TypeOK, ReceiveReply
<1>8. ASSUME NEW e \in Exports, GiveUp(e) PROVE TypeInv'
  BY <1>8 DEF TypeOK, GiveUp
<1>9. CASE StartRound
  BY <1>9 DEF TypeOK, StartRound
<1>10. CASE Pop
  <2>1. Serving \in Tenants
    BY <1>10, ServingType DEF Pop
  <2>2. UNCHANGED <<submitVars, jobs, cancelled, reply, workerVars, ledger>>
    BY <1>10 DEF Pop
  <2>3. CASE queue[Serving] = <<>>
    <3>1. NextTenant(worked) /\ UNCHANGED <<queue, held>>
      BY <1>10, <2>3 DEF Pop
    <3>2. worked \in BOOLEAN /\ dpc = "pop"
      BY <1>10 DEF Pop, TypeOK
    <3>3. /\ round' \in Seq(Tenants)
          /\ rotation' \in Nat
          /\ pos' \in Nat
          /\ worked' \in BOOLEAN
          /\ dpc' \in {"start", "wait", "pop"}
          /\ dpc' \in {"pop", "push", "requeue"} => pos' < Len(round') /\ rotation' < Len(round')
          /\ CursorAtStart'
      BY <3>1, <3>2, NextTenantType
    <3> QED BY <2>2, <3>1, <3>2, <3>3 DEF TypeOK
  <2>4. CASE queue[Serving] # <<>>
    <3>1. /\ held' = Head(queue[Serving])
          /\ queue' = [queue EXCEPT ![Serving] = Tail(@)]
          /\ dpc' = "push" /\ dpc = "pop"
          /\ UNCHANGED <<round, rotation, pos, worked>>
      BY <1>10, <2>4 DEF Pop
    <3>2. queue[Serving] \in Seq(Exports) /\ Len(queue[Serving]) \in Nat /\ Len(queue[Serving]) <= QueueDepth
      BY <2>1 DEF TypeOK
    <3>3. /\ held' \in Exports
          /\ Tail(queue[Serving]) \in Seq(Exports)
          /\ Len(Tail(queue[Serving])) <= QueueDepth
      BY <2>4, <3>1, <3>2, TailFacts, QueueDepthType
    <3>4. /\ queue' \in [Tenants -> Seq(Exports)]
          /\ \A u \in Tenants : Len(queue'[u]) <= QueueDepth
      BY <2>1, <3>1, <3>3 DEF TypeOK
    <3> QED BY <2>2, <3>1, <3>3, <3>4 DEF TypeOK
  <2> QED BY <2>3, <2>4
<1>11. CASE Push
  <2>1. UNCHANGED <<submitVars, queue, cancelled, reply, workerVars, ledger>> /\ dpc = "push"
    BY <1>11 DEF Push
  <2>2. CASE JobsHasRoom
    <3>1. jobs' = Append(jobs, held) /\ held' = NoExport /\ NextTenant(TRUE)
      BY <1>11, <2>2 DEF Push
    <3>2. held \in Exports /\ jobs \in Seq(Exports) /\ Len(jobs) \in Nat
      BY <2>1 DEF TypeOK
    <3>3. jobs' \in Seq(Exports) /\ Len(jobs') = Len(jobs) + 1
      BY <3>1, <3>2, AppendFacts
    <3>4. Len(jobs') <= Cardinality(Workers)
      BY <1>0, <2>2, <3>2, <3>3 DEF JobsHasRoom
    <3>5. /\ round' \in Seq(Tenants)
          /\ rotation' \in Nat
          /\ pos' \in Nat
          /\ worked' \in BOOLEAN
          /\ dpc' \in {"start", "wait", "pop"}
          /\ dpc' \in {"pop", "push", "requeue"} => pos' < Len(round') /\ rotation' < Len(round')
          /\ CursorAtStart'
      BY <2>1, <3>1, NextTenantType
    <3> QED BY <2>1, <3>1, <3>3, <3>4, <3>5 DEF TypeOK
  <2>3. CASE ~JobsHasRoom
    BY <1>11, <2>3 DEF Push, TypeOK
  <2> QED BY <2>2, <2>3
<1>12. CASE Requeue
  <2>1. Serving \in Tenants /\ held \in Exports
    BY <1>12, ServingType DEF Requeue, TypeOK
  <2>2. /\ queue' \in [Tenants -> Seq(Exports)]
        /\ \A u \in Tenants : Len(queue'[u]) <= QueueDepth
    BY <1>12, <2>1, SendType DEF Requeue
  <2>3. held' = NoExport /\ UNCHANGED <<submitVars, jobs, cancelled, reply, workerVars, ledger>>
    BY <1>12 DEF Requeue, EndSaturated
  <2> QED BY <1>12, <2>2, <2>3, EndSaturatedType, SMTT(30) DEF Requeue, TypeOK
<1>13. CASE FailHeld
  <2>1. held \in Exports
    BY <1>13 DEF FailHeld, TypeOK
  <2>2. reply' \in [Exports -> Replies \cup {"none"}]
    BY <1>13, <2>1 DEF FailHeld, TypeOK
  <2>3. held' = NoExport /\ UNCHANGED <<submitVars, queue, jobs, cancelled, workerVars, ledger>>
    BY <1>13 DEF FailHeld, EndSaturated
  <2> QED BY <1>13, <2>2, <2>3, EndSaturatedType, SMTT(30) DEF FailHeld, TypeOK
<1>14. CASE Wake
  BY <1>14 DEF TypeOK, Wake
<1>15. CASE DispatcherExit
  BY <1>15 DEF TypeOK, DispatcherExit
<1>16. ASSUME NEW w \in Workers, Take(w) PROVE TypeInv'
  <2>1. jobs \in Seq(Exports) /\ jobs # <<>> /\ Len(jobs) \in Nat
    BY <1>16 DEF Take, TypeOK
  <2>2. /\ Head(jobs) \in Exports
        /\ jobs' \in Seq(Exports)
        /\ Len(jobs') = Len(jobs) - 1
    BY <1>16, <2>1, TailFacts DEF Take
  <2>3. Len(jobs') <= Cardinality(Workers)
    BY <1>0, <2>1, <2>2 DEF TypeOK
  <2>4. /\ wjob' \in [Workers -> Exports \cup {NoExport}]
        /\ wpc' \in [Workers -> {"idle", "sink", "reply", "exited"}]
        /\ \A v \in Workers : wjob'[v] # NoExport <=> wpc'[v] \in {"sink", "reply"}
    BY <1>16, <2>2 DEF Take, TypeOK
  <2>5. calls' \in [Exports -> Nat]
    BY <1>16, <2>2, SMTT(30) DEF Take, TypeOK
  <2>6. UNCHANGED <<submitVars, queue, cancelled, reply, dispatchVars, verdict, ledger>>
    BY <1>16 DEF Take
  <2> QED BY <2>2, <2>3, <2>4, <2>5, <2>6 DEF TypeOK
<1>17. ASSUME NEW w \in Workers, SinkReturns(w) PROVE TypeInv'
  BY <1>17 DEF TypeOK, SinkReturns, Record
<1>18. ASSUME NEW w \in Workers, Reply(w) PROVE TypeInv'
  <2>1. wjob[w] \in Exports
    BY <1>18 DEF Reply, TypeOK
  <2>2. reply' \in [Exports -> Replies \cup {"none"}]
    <3>1. verdict[wjob[w]] \in Replies \cup {"none"}
      BY <2>1 DEF TypeOK
    <3>2. reply' = reply \/ reply' = [reply EXCEPT ![wjob[w]] = verdict[wjob[w]]]
      BY <1>18, Zenon DEF Reply
    <3>3. reply \in [Exports -> Replies \cup {"none"}]
      BY DEF TypeOK
    <3> HIDE DEF Replies
    <3> QED BY <2>1, <3>1, <3>2, <3>3
  <2>3. /\ wjob' \in [Workers -> Exports \cup {NoExport}]
        /\ wpc' \in [Workers -> {"idle", "sink", "reply", "exited"}]
        /\ \A v \in Workers : wjob'[v] # NoExport <=> wpc'[v] \in {"sink", "reply"}
    BY <1>18 DEF Reply, TypeOK
  <2>4. UNCHANGED <<submitVars, queue, jobs, cancelled, dispatchVars, calls, verdict, ledger>>
    BY <1>18 DEF Reply
  <2> QED BY <2>2, <2>3, <2>4 DEF TypeOK
<1>19. ASSUME NEW w \in Workers, WorkerExit(w) PROVE TypeInv'
  BY <1>19 DEF TypeOK, WorkerExit
<1>20. CASE Cancel
  BY <1>20 DEF TypeOK, Cancel
<1> QED
  BY <1>1, <1>2, <1>3, <1>4, <1>5, <1>6, <1>7, <1>8, <1>9, <1>10, <1>11, <1>12, <1>13,
     <1>14, <1>15, <1>16, <1>17, <1>18, <1>19, <1>20
     DEF Next, Submit, Dispatcher, Worker

(* Every variable of the scheduler has its type, and no channel exceeds    *)
(* its capacity, whatever the numbers of tenants, exporters and workers.   *)
THEOREM TypeCorrect == Spec => []TypeOK
<1>1. Init => TypeInv
  BY InitTypeInv
<1>2. TypeInv /\ [Next]_vars => TypeInv'
  BY NextTypeInv
<1>3. TypeInv => TypeOK
  BY DEF TypeInv
<1> QED BY <1>1, <1>2, <1>3, PTL DEF Spec

-----------------------------------------------------------------------------
(* The inductive invariant of the export's way through the scheduler.      *)

Queued(e)  == Occurs(e, queue[TenantOf[e]])
Listed(e)  == Occurs(e, jobs)
Working(e) == \E w \in Workers : wjob[w] = e
Placed(e)  == Queued(e) \/ Listed(e) \/ held = e \/ Working(e)

(* A tenant's queue holds each export of that tenant at most once.         *)
OwnQueues ==
  \A t \in Tenants :
    /\ Distinct(queue[t])
    /\ \A e \in Exports : Occurs(e, queue[t]) => TenantOf[e] = t

NoRepeats ==
  /\ Distinct(jobs)
  /\ \A v, w \in Workers : wjob[v] = wjob[w] /\ wjob[v] # NoExport => v = w

HeldServed == held # NoExport => TenantOf[held] = Serving

(* No export is in two places, and an answered one is in none.             *)
OnePlace ==
  \A e \in Exports :
    /\ Queued(e) => ~Listed(e) /\ held # e /\ ~Working(e)
    /\ Listed(e) => held # e /\ ~Working(e)
    /\ held = e => ~Working(e)
    /\ Placed(e) => reply[e] = "none" /\ result[e] \in {"none", "context_done"}

NotLost ==
  \A e \in Exports : Awaiting(e) =>
    /\ result[e] = "none"
    /\ cancelled = TRUE \/ Placed(e) \/ reply[e] # "none"

(* An accepted export that is nowhere has its outcome.                     *)
Settled ==
  \A e \in Exports :
    /\ req[e] \in {"kick", "waiting", "returned"} =>
         \/ Placed(e) \/ verdict[e] \in Verdicts
         \/ reply[e] = "parse_queue_full" \/ result[e] = "parse_queue_full"
    /\ req[e] = "returned" <=> result[e] # "none"

(* What is known of an export before it is queued.                         *)
Fresh ==
  \A e \in Exports : req[e] \in {"idle", "register", "enqueue"} =>
    /\ ~Placed(e)
    /\ reply[e] = "none" /\ result[e] = "none"
    /\ calls[e] = 0 /\ verdict[e] = "none"

(* The sink is called once, by the worker that has the export.             *)
CalledOnce ==
  /\ \A e \in Exports :
       /\ calls[e] \in {0, 1}
       /\ Queued(e) \/ Listed(e) \/ held = e => calls[e] = 0 /\ verdict[e] = "none"
  /\ \A w \in Workers :
       /\ wpc[w] = "sink" => calls[wjob[w]] = 1 /\ verdict[wjob[w]] = "none"
       /\ wpc[w] = "reply" => calls[wjob[w]] = 1 /\ verdict[wjob[w]] \in Verdicts

(* An answer, sent or received, tells what happened.                       *)
Truthful(x, e) ==
  /\ x \in Verdicts => calls[e] = 1 /\ verdict[e] = x
  /\ x = "parse_queue_full" => calls[e] = 0 /\ verdict[e] = "none"

TruthfulAnswers == \A e \in Exports : Truthful(reply[e], e) /\ Truthful(result[e], e)

LedgerExact ==
  \A e \in Exports :
    /\ <<e, "parse_queue_full">> \in ledger => result[e] = "parse_queue_full"
    /\ \A r \in SinkErrors : <<e, r>> \in ledger <=> verdict[e] = r

Delivery ==
  /\ OwnQueues /\ NoRepeats /\ HeldServed /\ OnePlace /\ NotLost
  /\ Settled /\ Fresh /\ CalledOnce /\ TruthfulAnswers /\ LedgerExact

(* A send to the tenant's queue adds the export to it and to no other.     *)
LEMMA SendPlaces ==
  ASSUME TypeOK, OwnQueues, NEW x \in Exports, ~Queued(x),
         queue' = [queue EXCEPT ![TenantOf[x]] = Append(@, x)]
  PROVE  /\ OwnQueues'
         /\ \A y \in Exports : Queued(y)' <=> Queued(y) \/ y = x
<1> DEFINE t == TenantOf[x]
<1>1. t \in Tenants /\ queue \in [Tenants -> Seq(Exports)] /\ queue[t] \in Seq(Exports)
  BY TenantOfType DEF TypeOK
<1>2. /\ \A y : Occurs(y, Append(queue[t], x)) <=> Occurs(y, queue[t]) \/ y = x
      /\ Distinct(queue[t]) /\ ~Occurs(x, queue[t]) => Distinct(Append(queue[t], x))
  BY <1>1, AppendFacts
<1>3. queue'[t] = Append(queue[t], x) /\ \A u \in Tenants : u # t => queue'[u] = queue[u]
  BY <1>1
<1>4. OwnQueues'
  BY <1>1, <1>2, <1>3 DEF OwnQueues, Queued
<1>5. \A y \in Exports : Queued(y)' <=> Queued(y) \/ y = x
  <2> SUFFICES ASSUME NEW y \in Exports PROVE Queued(y)' <=> Queued(y) \/ y = x
    OBVIOUS
  <2>1. TenantOf[y] \in Tenants
    BY TenantOfType
  <2> QED BY <1>2, <1>3, <2>1 DEF Queued
<1> QED BY <1>4, <1>5

(* A receive from a tenant's queue takes one of its exports out of it.     *)
LEMMA ReceivePlaces ==
  ASSUME TypeOK, OwnQueues, NEW t \in Tenants, queue[t] # <<>>,
         queue' = [queue EXCEPT ![t] = Tail(@)]
  PROVE  /\ OwnQueues'
         /\ Head(queue[t]) \in Exports
         /\ TenantOf[Head(queue[t])] = t
         /\ Queued(Head(queue[t]))
         /\ \A y \in Exports : Queued(y)' <=> Queued(y) /\ y # Head(queue[t])
<1> DEFINE h == Head(queue[t])
<1>1. queue \in [Tenants -> Seq(Exports)] /\ queue[t] \in Seq(Exports)
  BY DEF TypeOK
<1>2. /\ h \in Exports
      /\ Occurs(h, queue[t])
      /\ \A y : Occurs(y, Tail(queue[t])) => Occurs(y, queue[t])
      /\ \A y : Occurs(y, queue[t]) => Occurs(y, Tail(queue[t])) \/ y = h
      /\ Distinct(queue[t]) => Distinct(Tail(queue[t])) /\ ~Occurs(h, Tail(queue[t]))
  BY <1>1, TailFacts
<1>3. queue'[t] = Tail(queue[t]) /\ \A u \in Tenants : u # t => queue'[u] = queue[u]
  BY <1>1
<1>4. TenantOf[h] = t /\ Queued(h)
  BY <1>2 DEF OwnQueues, Queued
<1> HIDE DEF h
<1>5. OwnQueues'
  BY <1>2, <1>3 DEF OwnQueues
<1>6. ASSUME NEW y \in Exports
      PROVE  Queued(y)' <=> Queued(y) /\ y # h
  <2>1. TenantOf[y] \in Tenants
    BY TenantOfType
  <2>2. CASE TenantOf[y] = t
    BY <1>2, <1>3, <2>2 DEF Queued, OwnQueues
  <2>3. CASE TenantOf[y] # t
    BY <1>3, <1>4, <2>1, <2>3 DEF Queued
  <2> QED BY <2>2, <2>3
<1> QED BY <1>2, <1>4, <1>5, <1>6 DEF h

(* Gone is the negation of Placed.                                         *)
LEMMA GoneIsUnplaced ==
  ASSUME TypeOK, OwnQueues, NEW e \in Exports
  PROVE  Gone(e) <=> ~Placed(e)
<1>1. TenantOf[e] \in Tenants
  BY TenantOfType
<1>2. (\A t \in Tenants : \A i \in DOMAIN queue[t] : queue[t][i] # e) <=> ~Queued(e)
  BY <1>1 DEF OwnQueues, Queued, Occurs
<1> QED BY <1>2 DEF Gone, Placed, Listed, Working, Occurs

(* An export is placed where it was when no channel and no hand changed.   *)
LEMMA SamePlaces ==
  ASSUME UNCHANGED <<queue, jobs, held, wjob>>
  PROVE  /\ OwnQueues => OwnQueues'
         /\ NoRepeats => NoRepeats'
         /\ \A e : /\ Queued(e)' <=> Queued(e)
                   /\ Listed(e)' <=> Listed(e)
                   /\ Working(e)' <=> Working(e)
                   /\ Placed(e)' <=> Placed(e)
  BY DEF OwnQueues, NoRepeats, Queued, Listed, Working, Placed

LEMMA InitDelivery == Init => Delivery
<1> SUFFICES ASSUME Init PROVE Delivery
  OBVIOUS
<1>1. \A x : \A t \in Tenants : ~Occurs(x, queue[t]) /\ Distinct(queue[t])
  BY DEF Init, Occurs, Distinct
<1>2. ASSUME NEW e \in Exports PROVE ~Placed(e)
  BY <1>1, TenantOfType, NoExportType DEF Init, Placed, Queued, Listed, Working, Occurs
<1>3. OwnQueues /\ NoRepeats /\ HeldServed
  BY <1>1 DEF Init, OwnQueues, NoRepeats, HeldServed, Distinct
<1>4. OnePlace
  BY <1>2 DEF OnePlace, Placed
<1>5. NotLost /\ Settled /\ Fresh
  BY <1>2 DEF Init, NotLost, Settled, Fresh, Awaiting
<1>6. CalledOnce
  BY <1>2 DEF Init, CalledOnce, Placed
<1>7. TruthfulAnswers /\ LedgerExact
  BY SinkErrorsType DEF Init, TruthfulAnswers, Truthful, LedgerExact, Verdicts
<1> QED BY <1>3, <1>4, <1>5, <1>6, <1>7 DEF Delivery

(* The steps that move no export leave all of it where it is.              *)
LEMMA QuietDelivery ==
  ASSUME TypeInv, Delivery, UNCHANGED <<queue, jobs, held, wjob, reply, calls, verdict, ledger>>
  PROVE  /\ OwnQueues' /\ NoRepeats'
         /\ UNCHANGED result => OnePlace' /\ TruthfulAnswers' /\ LedgerExact'
         /\ UNCHANGED wpc => CalledOnce'
<1>1. /\ OwnQueues' /\ NoRepeats'
      /\ \A e : /\ Queued(e)' <=> Queued(e)
                /\ Listed(e)' <=> Listed(e)
                /\ Working(e)' <=> Working(e)
                /\ Placed(e)' <=> Placed(e)
  BY SamePlaces DEF Delivery
<1>2. UNCHANGED result => OnePlace'
  BY <1>1 DEF Delivery, OnePlace
<1>3. UNCHANGED result => TruthfulAnswers' /\ LedgerExact'
  BY DEF Delivery, TruthfulAnswers, Truthful, LedgerExact
<1>4. UNCHANGED wpc => CalledOnce'
  BY <1>1 DEF Delivery, CalledOnce
<1> QED BY <1>1, <1>2, <1>3, <1>4

(* The steps of the request goroutine. *)
LEMMA RequestDelivery ==
  ASSUME TypeInv, Delivery, NEW e \in Exports,
         Admit(e) \/ Submit(e) \/ ReceiveReply(e) \/ GiveUp(e)
  PROVE  Delivery'
<1> USE DEF Delivery, TypeInv
<1> USE TenantOfType, NoExportType, SinkErrorsType
<1>1. HeldServed'
  BY DEF Admit, Submit, Register, Enqueue, Refuse, Kick, ReceiveReply, GiveUp, dispatchVars,
         HeldServed, Serving, TenantAt
<1>2. CASE Admit(e)
  <2>1. UNCHANGED <<queue, jobs, held, wjob, wpc, cancelled>>
    BY <1>2 DEF Admit, dispatchVars
  <2>2. /\ OwnQueues' /\ NoRepeats'
        /\ \A x : /\ Queued(x)' <=> Queued(x)
                  /\ Listed(x)' <=> Listed(x)
                  /\ Working(x)' <=> Working(x)
                  /\ Placed(x)' <=> Placed(x)
    BY <2>1, SamePlaces
  <2>3. ~Placed(e)
    BY <1>2, GoneIsUnplaced DEF Admit, Fresh
  <2>4. /\ req' = [req EXCEPT ![e] = "register"]
        /\ result' = [result EXCEPT ![e] = "none"]
        /\ reply' = [reply EXCEPT ![e] = "none"]
        /\ calls' = [calls EXCEPT ![e] = 0]
        /\ verdict' = [verdict EXCEPT ![e] = "none"]
        /\ ledger' = {entry \in ledger : entry[1] # e}
    BY <1>2 DEF Admit
  <2>5. OnePlace' /\ NotLost' /\ Settled' /\ Fresh'
    BY <2>1, <2>2, <2>3, <2>4 DEF OnePlace, NotLost, Settled, Fresh, TypeOK, Awaiting
  <2>6. CalledOnce'
    <3>1. \A w \in Workers : wjob[w] # e
      BY <2>3 DEF Placed, Working
    <3> QED BY <2>1, <2>2, <2>3, <2>4, <3>1 DEF CalledOnce, TypeOK, Placed
  <2>7. TruthfulAnswers'
    BY <2>4 DEF TruthfulAnswers, Truthful, TypeOK, Verdicts
  <2>8. LedgerExact'
    <3>1. /\ result'[e] = "none" /\ verdict'[e] = "none"
          /\ \A x \in Exports : x # e => result'[x] = result[x] /\ verdict'[x] = verdict[x]
      BY <2>4 DEF TypeOK
    <3>2. \A r : <<e, r>> \notin ledger'
      BY <2>4
    <3>3. \A x \in Exports : x # e => \A r : <<x, r>> \in ledger' <=> <<x, r>> \in ledger
      BY <2>4
    <3>4. "none" \notin SinkErrors
      OBVIOUS
    <3> QED BY <3>1, <3>2, <3>3, <3>4 DEF LedgerExact
  <2> QED BY <1>1, <2>2, <2>5, <2>6, <2>7, <2>8
<1>3. CASE Register(e)
  <2>1. /\ UNCHANGED <<queue, jobs, held, wjob, wpc, cancelled, reply, calls, verdict, ledger, result>>
        /\ req[e] = "register" /\ req' = [req EXCEPT ![e] = "enqueue"]
    BY <1>3 DEF Register, dispatchVars, workerVars
  <2>2. NotLost' /\ Settled' /\ Fresh'
    BY <2>1, SamePlaces DEF NotLost, Settled, Fresh, TypeOK, Awaiting
  <2> QED BY <1>1, <2>1, <2>2, QuietDelivery
<1>4. CASE Enqueue(e)
  <2>1. /\ UNCHANGED <<jobs, held, wjob, wpc, cancelled, reply, calls, verdict, ledger, result>>
        /\ req[e] = "enqueue" /\ req' = [req EXCEPT ![e] = "kick"]
        /\ queue' = [queue EXCEPT ![TenantOf[e]] = Append(@, e)]
    BY <1>4 DEF Enqueue, dispatchVars, workerVars
  <2>2. ~Placed(e) /\ ~Queued(e)
    BY <2>1 DEF Fresh, Placed
  <2>3. OwnQueues' /\ \A x \in Exports : Queued(x)' <=> Queued(x) \/ x = e
    BY <2>1, <2>2, SendPlaces
  <2>4. NoRepeats' /\ \A x : (Listed(x)' <=> Listed(x)) /\ (Working(x)' <=> Working(x))
    BY <2>1 DEF NoRepeats, Listed, Working
  <2>5. OnePlace'
    BY <2>1, <2>2, <2>3, <2>4 DEF OnePlace, Placed, Fresh
  <2>6. NotLost' /\ Settled' /\ Fresh'
    BY <2>1, <2>2, <2>3, <2>4 DEF NotLost, Settled, Fresh, Placed, Awaiting, TypeOK
  <2>7. CalledOnce'
    BY <2>1, <2>3, <2>4 DEF CalledOnce, Fresh
  <2>8. TruthfulAnswers' /\ LedgerExact'
    BY <2>1 DEF TruthfulAnswers, Truthful, LedgerExact
  <2> QED BY <1>1, <2>3, <2>4, <2>5, <2>6, <2>7, <2>8
<1>5. CASE Refuse(e)
  <2>1. /\ UNCHANGED <<queue, jobs, held, wjob, wpc, cancelled, reply, calls, verdict>>
        /\ req[e] = "enqueue" /\ req' = [req EXCEPT ![e] = "returned"]
        /\ result' = [result EXCEPT ![e] = "parse_queue_full"]
        /\ ledger' = ledger \cup {<<e, "parse_queue_full">>}
    BY <1>5 DEF Refuse, Record, dispatchVars, workerVars
  <2>2. /\ OwnQueues' /\ NoRepeats'
        /\ \A x : /\ Queued(x)' <=> Queued(x)
                  /\ Listed(x)' <=> Listed(x)
                  /\ Working(x)' <=> Working(x)
                  /\ Placed(x)' <=> Placed(x)
    BY <2>1, SamePlaces
  <2>3. ~Placed(e) /\ calls[e] = 0 /\ verdict[e] = "none"
    BY <2>1 DEF Fresh
  <2>4. OnePlace' /\ NotLost' /\ Settled' /\ Fresh'
    BY <2>1, <2>2, <2>3 DEF OnePlace, NotLost, Settled, Fresh, Awaiting, TypeOK
  <2>5. CalledOnce'
    BY <2>1, <2>2 DEF CalledOnce
  <2>6. TruthfulAnswers'
    BY <2>1, <2>3 DEF TruthfulAnswers, Truthful, TypeOK, Verdicts
  <2>7. LedgerExact'
    BY <2>1, ZenonT(30) DEF LedgerExact, TypeOK
  <2> QED BY <1>1, <2>2, <2>4, <2>5, <2>6, <2>7
<1>6. CASE Kick(e)
  <2>1. /\ UNCHANGED <<queue, jobs, held, wjob, wpc, cancelled, reply, calls, verdict, ledger, result>>
        /\ req[e] = "kick" /\ req' = [req EXCEPT ![e] = "waiting"]
    BY <1>6 DEF Kick, dispatchVars, workerVars
  <2>2. NotLost' /\ Settled' /\ Fresh'
    BY <2>1, SamePlaces DEF NotLost, Settled, Fresh, TypeOK, Awaiting
  <2> QED BY <1>1, <2>1, <2>2, QuietDelivery
<1>7. CASE ReceiveReply(e)
  <2>1. /\ UNCHANGED <<queue, jobs, held, wjob, wpc, cancelled, calls, verdict, ledger>>
        /\ req[e] = "waiting" /\ req' = [req EXCEPT ![e] = "returned"]
        /\ reply[e] # "none"
        /\ result' = [result EXCEPT ![e] = reply[e]]
        /\ reply' = [reply EXCEPT ![e] = "none"]
    BY <1>7 DEF ReceiveReply, dispatchVars, workerVars
  <2>2. /\ OwnQueues' /\ NoRepeats'
        /\ \A x : /\ Queued(x)' <=> Queued(x)
                  /\ Listed(x)' <=> Listed(x)
                  /\ Working(x)' <=> Working(x)
                  /\ Placed(x)' <=> Placed(x)
    BY <2>1, SamePlaces
  <2>3. ~Placed(e) /\ result[e] = "none"
    BY <2>1 DEF OnePlace, NotLost, Awaiting
  <2>4. OnePlace' /\ NotLost' /\ Settled' /\ Fresh'
    BY <2>1, <2>2, <2>3 DEF OnePlace, NotLost, Settled, Fresh, Awaiting, TypeOK, TruthfulAnswers, Truthful,
                                    Replies
  <2>5. CalledOnce'
    BY <2>1, <2>2 DEF CalledOnce
  <2>6. TruthfulAnswers'
    BY <2>1 DEF TruthfulAnswers, Truthful, TypeOK, Verdicts
  <2>7. LedgerExact'
    BY <2>1, <2>3 DEF LedgerExact, TypeOK
  <2> QED BY <1>1, <2>2, <2>4, <2>5, <2>6, <2>7
<1>8. CASE GiveUp(e)
  <2>1. /\ UNCHANGED <<queue, jobs, held, wjob, wpc, cancelled, reply, calls, verdict, ledger>>
        /\ req[e] = "waiting" /\ req' = [req EXCEPT ![e] = "returned"]
        /\ result' = [result EXCEPT ![e] = "context_done"]
    BY <1>8 DEF GiveUp, dispatchVars, workerVars
  <2>2. /\ OwnQueues' /\ NoRepeats'
        /\ \A x : /\ Queued(x)' <=> Queued(x)
                  /\ Listed(x)' <=> Listed(x)
                  /\ Working(x)' <=> Working(x)
                  /\ Placed(x)' <=> Placed(x)
    BY <2>1, SamePlaces
  <2>3. result[e] = "none"
    BY <2>1 DEF NotLost, Awaiting
  <2>4. OnePlace' /\ NotLost' /\ Settled' /\ Fresh'
    BY <2>1, <2>2 DEF OnePlace, NotLost, Settled, Fresh, Awaiting, TypeOK
  <2>5. CalledOnce'
    BY <2>1, <2>2 DEF CalledOnce
  <2>6. TruthfulAnswers'
    BY <2>1 DEF TruthfulAnswers, Truthful, TypeOK, Verdicts
  <2>7. LedgerExact'
    BY <2>1, <2>3 DEF LedgerExact, TypeOK
  <2> QED BY <1>1, <2>2, <2>4, <2>5, <2>6, <2>7
<1> QED BY <1>2, <1>3, <1>4, <1>5, <1>6, <1>7, <1>8 DEF Submit

(* The dispatcher's steps. *)
LEMMA DispatcherDelivery ==
  ASSUME TypeInv, Delivery, Dispatcher
  PROVE  Delivery'
<1> USE DEF Delivery, TypeInv
<1> USE TenantOfType, NoExportType, SinkErrorsType
<1>1. /\ UNCHANGED <<req, result, cancelled, wpc, wjob, calls, verdict, ledger>>
      /\ LedgerExact'
      /\ \A x : Working(x)' <=> Working(x)
  <2>1. UNCHANGED <<req, result, cancelled, wpc, wjob, calls, verdict, ledger>>
    BY DEF Dispatcher, StartRound, Pop, Push, Requeue, FailHeld, Wake, DispatcherExit,
           submitVars, workerVars
  <2> QED BY <2>1 DEF LedgerExact, Working
<1>2. ASSUME UNCHANGED <<queue, jobs, held, reply>>, HeldServed'
      PROVE  Delivery'
  <2>1. OnePlace' /\ TruthfulAnswers' /\ CalledOnce' /\ OwnQueues' /\ NoRepeats'
    BY <1>1, <1>2, QuietDelivery
  <2>2. NotLost' /\ Settled' /\ Fresh'
    BY <1>1, <1>2, SamePlaces DEF NotLost, Settled, Fresh, Awaiting
  <2> QED BY <1>1, <1>2, <2>1, <2>2
<1>3. CASE StartRound \/ Wake \/ DispatcherExit
  <2>1. UNCHANGED <<queue, jobs, held, reply>> /\ held = NoExport
    BY <1>3 DEF StartRound, Wake, DispatcherExit, submitVars, TypeOK
  <2> QED BY <1>2, <2>1 DEF HeldServed
<1>4. CASE Pop
  <2>1. Serving \in Tenants /\ held = NoExport /\ UNCHANGED <<jobs, reply>>
    BY <1>4, ServingType DEF Pop, TypeOK
  <2>2. CASE queue[Serving] = <<>>
    BY <1>2, <1>4, <2>1, <2>2 DEF Pop, HeldServed
  <2>3. CASE queue[Serving] # <<>>
    <3> DEFINE h == Head(queue[Serving])
    <3>1. /\ held' = h /\ UNCHANGED <<round, rotation, pos>>
          /\ queue' = [queue EXCEPT ![Serving] = Tail(@)]
      BY <1>4, <2>3 DEF Pop
    <3>2. /\ OwnQueues' /\ h \in Exports /\ TenantOf[h] = Serving /\ Queued(h)
          /\ \A y \in Exports : Queued(y)' <=> Queued(y) /\ y # h
      BY <2>1, <2>3, <3>1, ReceivePlaces
    <3> HIDE DEF h
    <3>3. HeldServed'
      BY <3>1, <3>2 DEF HeldServed, Serving, TenantAt
    <3>4. NoRepeats' /\ \A x : Listed(x)' <=> Listed(x)
      BY <1>1, <2>1 DEF NoRepeats, Listed
    <3>5. \A x \in Exports : Placed(x)' <=> Placed(x)
      BY <1>1, <2>1, <3>1, <3>2, <3>4 DEF Placed
    <3>6. OnePlace'
      BY <1>1, <2>1, <3>1, <3>2, <3>4, <3>5 DEF OnePlace
    <3>7. NotLost' /\ Settled' /\ Fresh'
      BY <1>1, <2>1, <3>5 DEF NotLost, Settled, Fresh, Awaiting
    <3>8. CalledOnce'
      BY <1>1, <2>1, <3>1, <3>2, <3>4 DEF CalledOnce
    <3>9. TruthfulAnswers'
      BY <1>1, <2>1 DEF TruthfulAnswers, Truthful
    <3> QED BY <1>1, <3>2, <3>3, <3>4, <3>6, <3>7, <3>8, <3>9
  <2> QED BY <2>2, <2>3
<1>5. CASE Push
  <2>1. held \in Exports /\ UNCHANGED <<queue, reply>> /\ jobs \in Seq(Exports)
    BY <1>5 DEF Push, TypeOK
  <2>2. CASE ~JobsHasRoom
    BY <1>2, <1>5, <2>1, <2>2 DEF Push, HeldServed, Serving, TenantAt
  <2>3. CASE JobsHasRoom
    <3>1. held' = NoExport /\ jobs' = Append(jobs, held)
      BY <1>5, <2>3 DEF Push
    <3>2. ~Queued(held) /\ ~Listed(held) /\ ~Working(held)
      BY <2>1 DEF OnePlace
    <3>3. \A x : Listed(x)' <=> Listed(x) \/ x = held
      BY <2>1, <3>1, AppendFacts DEF Listed
    <3>4. OwnQueues' /\ HeldServed' /\ \A x : Queued(x)' <=> Queued(x)
      BY <2>1, <3>1 DEF OwnQueues, HeldServed, Queued
    <3>5. NoRepeats'
      BY <1>1, <2>1, <3>1, <3>2, AppendFacts DEF NoRepeats, Listed
    <3>6. \A x \in Exports : Placed(x)' <=> Placed(x)
      BY <1>1, <3>1, <3>3, <3>4 DEF Placed
    <3>7. OnePlace'
      BY <1>1, <2>1, <3>1, <3>2, <3>3, <3>4, <3>6 DEF OnePlace
    <3>8. NotLost' /\ Settled' /\ Fresh'
      BY <1>1, <2>1, <3>6 DEF NotLost, Settled, Fresh, Awaiting
    <3>9. CalledOnce'
      BY <1>1, <2>1, <3>1, <3>3, <3>4 DEF CalledOnce
    <3>10. TruthfulAnswers'
      BY <1>1, <2>1 DEF TruthfulAnswers, Truthful
    <3> QED BY <1>1, <3>4, <3>5, <3>7, <3>8, <3>9, <3>10
  <2> QED BY <2>2, <2>3
<1>6. CASE Requeue
  <2>1. held \in Exports /\ UNCHANGED <<jobs, reply>> /\ held' = NoExport
    BY <1>6 DEF Requeue, EndSaturated, TypeOK
  <2>2. queue' = [queue EXCEPT ![TenantOf[held]] = Append(@, held)]
    BY <1>6, <2>1 DEF Requeue, HeldServed
  <2>3. ~Queued(held) /\ ~Listed(held) /\ ~Working(held)
    BY <2>1 DEF OnePlace
  <2>4. OwnQueues' /\ \A x \in Exports : Queued(x)' <=> Queued(x) \/ x = held
    BY <2>1, <2>2, <2>3, SendPlaces
  <2>5. NoRepeats' /\ HeldServed' /\ \A x : Listed(x)' <=> Listed(x)
    BY <1>1, <2>1 DEF NoRepeats, HeldServed, Listed
  <2>6. \A x \in Exports : Placed(x)' <=> Placed(x)
    BY <1>1, <2>1, <2>4, <2>5 DEF Placed
  <2>7. OnePlace'
    BY <1>1, <2>1, <2>3, <2>4, <2>5, <2>6 DEF OnePlace
  <2>8. NotLost' /\ Settled' /\ Fresh'
    BY <1>1, <2>1, <2>6 DEF NotLost, Settled, Fresh, Awaiting
  <2>9. CalledOnce'
    BY <1>1, <2>1, <2>4, <2>5 DEF CalledOnce
  <2>10. TruthfulAnswers'
    BY <1>1, <2>1 DEF TruthfulAnswers, Truthful
  <2> QED BY <1>1, <2>4, <2>5, <2>7, <2>8, <2>9, <2>10
<1>7. CASE FailHeld
  <2>1. held \in Exports /\ UNCHANGED <<jobs, queue>> /\ held' = NoExport
    BY <1>7 DEF FailHeld, EndSaturated, TypeOK
  <2>2. ~Queued(held) /\ ~Listed(held) /\ ~Working(held) /\ reply[held] = "none"
    BY <2>1 DEF OnePlace, Placed
  <2>3. reply' = [reply EXCEPT ![held] = "parse_queue_full"]
    BY <1>7, <2>2 DEF FailHeld
  <2>4. /\ reply'[held] = "parse_queue_full"
        /\ \A x \in Exports : x # held => reply'[x] = reply[x]
    BY <2>1, <2>3 DEF TypeOK
  <2>5. OwnQueues' /\ NoRepeats' /\ HeldServed'
    BY <1>1, <2>1 DEF OwnQueues, NoRepeats, HeldServed
  <2>6. \A x : (Listed(x)' <=> Listed(x)) /\ (Queued(x)' <=> Queued(x))
    BY <2>1 DEF Listed, Queued
  <2>7. \A x \in Exports : Placed(x)' <=> Placed(x) /\ x # held
    BY <1>1, <2>1, <2>2, <2>6 DEF Placed
  <2>8. OnePlace'
    BY <1>1, <2>1, <2>4, <2>6, <2>7 DEF OnePlace
  <2>9. NotLost' /\ Settled'
    BY <1>1, <2>4, <2>7 DEF NotLost, Settled, Awaiting
  <2>10. Fresh'
    BY <1>1, <2>1, <2>4, <2>7 DEF Fresh, Placed
  <2>11. CalledOnce'
    BY <1>1, <2>1, <2>6 DEF CalledOnce
  <2>12. calls[held] = 0 /\ verdict[held] = "none"
    BY <2>1 DEF CalledOnce
  <2>13. "parse_queue_full" \notin Verdicts
    BY DEF Verdicts
  <2>14. TruthfulAnswers'
    BY <1>1, <2>1, <2>4, <2>12, <2>13 DEF TruthfulAnswers, Truthful
  <2> QED BY <1>1, <2>5, <2>8, <2>9, <2>10, <2>11, <2>14
<1> QED BY <1>3, <1>4, <1>5, <1>6, <1>7 DEF Dispatcher

(* The steps of a worker. *)
LEMMA WorkerDelivery ==
  ASSUME TypeInv, Delivery, NEW w \in Workers, Worker(w)
  PROVE  Delivery'
<1> USE DEF Delivery, TypeInv
<1> USE TenantOfType, NoExportType, SinkErrorsType
<1>1. /\ UNCHANGED <<req, result, cancelled, queue, held>>
      /\ HeldServed'
      /\ OwnQueues'
      /\ \A x : Queued(x)' <=> Queued(x)
  <2>1. UNCHANGED <<req, result, cancelled, queue, dispatchVars>>
    BY DEF Worker, Take, SinkReturns, Reply, WorkerExit, submitVars
  <2> QED BY <2>1 DEF OwnQueues, HeldServed, Serving, TenantAt, Queued, dispatchVars
<1>2. CASE Take(w)
  <2>0. PICK h : h = Head(jobs)
    OBVIOUS
  <2>1. /\ wpc[w] = "idle" /\ wjob[w] = NoExport
        /\ jobs \in Seq(Exports) /\ jobs # <<>> /\ jobs' = Tail(jobs)
        /\ wjob' = [wjob EXCEPT ![w] = h]
        /\ calls' = [calls EXCEPT ![h] = @ + 1]
        /\ wpc' = [wpc EXCEPT ![w] = "sink"]
        /\ UNCHANGED <<reply, verdict, ledger>>
    BY <1>2, <2>0 DEF Take, TypeOK
  <2>2. /\ h \in Exports
        /\ Listed(h)
        /\ \A x : Listed(x)' => Listed(x)
        /\ \A x : Listed(x) => Listed(x)' \/ x = h
        /\ Distinct(jobs')
        /\ ~Listed(h)'
    BY <2>0, <2>1, TailFacts DEF Listed, NoRepeats
  <2>3. ~Queued(h) /\ held # h /\ ~Working(h) /\ calls[h] = 0 /\ verdict[h] = "none"
    BY <2>2 DEF OnePlace, CalledOnce
  <2>4. /\ wjob'[w] = h /\ wpc'[w] = "sink"
        /\ \A v \in Workers : v # w => wjob'[v] = wjob[v] /\ wpc'[v] = wpc[v]
        /\ calls'[h] = 1
        /\ \A x \in Exports : x # h => calls'[x] = calls[x]
    BY <2>1, <2>2, <2>3 DEF TypeOK
  <2>5. \A x \in Exports : Working(x)' <=> Working(x) \/ x = h
    BY <2>1, <2>4 DEF Working
  <2>6. NoRepeats'
    BY <2>2, <2>3, <2>4 DEF NoRepeats, Working
  <2>7. \A x \in Exports : Placed(x)' <=> Placed(x)
    BY <1>1, <2>2, <2>5 DEF Placed
  <2>8. OnePlace'
    BY <1>1, <2>1, <2>2, <2>3, <2>5, <2>7 DEF OnePlace
  <2>9. NotLost' /\ Settled' /\ Fresh'
    BY <1>1, <2>1, <2>2, <2>4, <2>7 DEF NotLost, Settled, Fresh, Awaiting, Placed
  <2>10. CalledOnce'
    <3>1. \A v \in Workers : v # w => wjob[v] # h
      BY <2>3 DEF Working
    <3>2. \A v \in Workers : wpc[v] \in {"sink", "reply"} => wjob[v] \in Exports
      BY DEF TypeOK
    <3> QED BY <1>1, <2>1, <2>2, <2>3, <2>4, <3>1, <3>2 DEF CalledOnce
  <2>11. "none" \notin Verdicts
    BY DEF Verdicts
  <2>12. TruthfulAnswers'
    BY <1>1, <2>1, <2>2, <2>3, <2>4, <2>7, <2>11 DEF TruthfulAnswers, Truthful, OnePlace, Placed, Verdicts
  <2>13. LedgerExact'
    BY <1>1, <2>1 DEF LedgerExact
  <2> QED BY <1>1, <2>6, <2>8, <2>9, <2>10, <2>12, <2>13
<1>3. CASE SinkReturns(w)
  <2> DEFINE h == wjob[w]
  <2>1. PICK v \in Verdicts :
          /\ verdict' = [verdict EXCEPT ![h] = v]
          /\ IF v = "ok" THEN UNCHANGED ledger ELSE Record(h, v)
    BY <1>3 DEF SinkReturns
  <2>2. /\ wpc[w] = "sink" /\ h \in Exports
        /\ wpc' = [wpc EXCEPT ![w] = "reply"]
        /\ UNCHANGED <<jobs, wjob, reply, calls>>
    BY <1>3 DEF SinkReturns, TypeOK
  <2>3. NoRepeats' /\ \A x : (Listed(x)' <=> Listed(x)) /\ (Working(x)' <=> Working(x))
    BY <2>2 DEF NoRepeats, Listed, Working
  <2>4. \A x : Placed(x)' <=> Placed(x)
    BY <1>1, <2>3 DEF Placed
  <2>5. OnePlace' /\ NotLost'
    BY <1>1, <2>2, <2>3, <2>4 DEF OnePlace, NotLost, Awaiting
  <2>6. /\ Working(h) /\ ~Queued(h) /\ ~Listed(h) /\ held # h
        /\ calls[h] = 1 /\ verdict[h] = "none" /\ reply[h] = "none"
        /\ result[h] \in {"none", "context_done"}
    BY <2>2 DEF Working, OnePlace, CalledOnce, Placed
  <2> HIDE DEF h
  <2>7. /\ verdict'[h] = v
        /\ \A x \in Exports : x # h => verdict'[x] = verdict[x]
    BY <2>1, <2>2 DEF TypeOK
  <2>8. Settled' /\ Fresh'
    BY <1>1, <2>2, <2>4, <2>6, <2>7 DEF Settled, Fresh, Placed
  <2>9. CalledOnce'
    <3>1. \A u \in Workers : u # w => wpc'[u] = wpc[u] /\ (wjob[u] # h \/ wpc[u] \notin {"sink", "reply"})
      BY <2>2, <2>6 DEF TypeOK, NoRepeats, h
    <3>2. wpc'[w] = "reply" /\ wjob'[w] = h
      BY <2>2 DEF TypeOK, h
    <3>3. \A u \in Workers : wpc[u] \in {"sink", "reply"} => wjob[u] \in Exports
      BY DEF TypeOK
    <3> QED BY <1>1, <2>2, <2>3, <2>6, <2>7, <3>1, <3>2, <3>3 DEF CalledOnce
  <2>10. TruthfulAnswers'
    BY <1>1, <2>2, <2>6, <2>7 DEF TruthfulAnswers, Truthful, Verdicts
  <2>11. LedgerExact'
    <3>1. \A r : <<h, r>> \in ledger' <=> <<h, r>> \in ledger \/ (r = v /\ v # "ok")
      BY <2>1 DEF Record
    <3>2. \A x : x # h => \A r : <<x, r>> \in ledger' <=> <<x, r>> \in ledger
      BY <2>1 DEF Record
    <3>3. v # "parse_queue_full" /\ (\A r \in SinkErrors : r # "none" /\ r # "ok")
      BY <2>1 DEF Verdicts
    <3>4. \A x \in Exports : <<x, "parse_queue_full">> \in ledger' => result'[x] = "parse_queue_full"
      BY <1>1, <3>1, <3>2, <3>3 DEF LedgerExact
    <3>5. \A r \in SinkErrors : <<h, r>> \in ledger' <=> verdict'[h] = r
      BY <2>2, <2>6, <2>7, <3>1, <3>3 DEF LedgerExact
    <3>6. \A x \in Exports : x # h => \A r \in SinkErrors : <<x, r>> \in ledger' <=> verdict'[x] = r
      BY <2>7, <3>2 DEF LedgerExact
    <3> QED BY <3>4, <3>5, <3>6 DEF LedgerExact
  <2> QED BY <1>1, <2>3, <2>5, <2>8, <2>9, <2>10, <2>11
<1>4. CASE Reply(w)
  <2> DEFINE h == wjob[w]
  <2>1. /\ wpc[w] = "reply" /\ h \in Exports
        /\ wjob' = [wjob EXCEPT ![w] = NoExport]
        /\ wpc' = [wpc EXCEPT ![w] = "idle"]
        /\ UNCHANGED <<jobs, calls, verdict, ledger>>
    BY <1>4 DEF Reply, TypeOK
  <2>2. \/ reply' = [reply EXCEPT ![h] = verdict[h]]
        \/ reply' = reply /\ cancelled = TRUE
    BY <1>4 DEF Reply, TypeOK
  <2>3. /\ Working(h) /\ ~Queued(h) /\ ~Listed(h) /\ held # h
        /\ calls[h] = 1 /\ verdict[h] \in Verdicts /\ reply[h] = "none"
    BY <2>1 DEF Working, OnePlace, CalledOnce, Placed
  <2> HIDE DEF h
  <2>4. /\ \A v \in Workers : v # w => wjob'[v] = wjob[v] /\ wpc'[v] = wpc[v]
        /\ wjob'[w] = NoExport /\ wpc'[w] = "idle"
    BY <2>1 DEF TypeOK
  <2>5. \A x \in Exports : Working(x)' <=> Working(x) /\ x # h
    <3>1. \A v \in Workers : v # w => wjob[v] # h
      BY <2>1 DEF NoRepeats, h
    <3> QED BY <2>1, <2>4, <3>1 DEF Working, h
  <2>6. NoRepeats' /\ \A x : Listed(x)' <=> Listed(x)
    BY <2>1, <2>4 DEF NoRepeats, Listed
  <2>7. \A x \in Exports : Placed(x)' <=> Placed(x) /\ x # h
    BY <1>1, <2>3, <2>5, <2>6 DEF Placed
  <2>8. /\ reply'[h] = verdict[h] \/ (reply'[h] = reply[h] /\ cancelled = TRUE)
        /\ \A x \in Exports : x # h => reply'[x] = reply[x]
    BY <2>1, <2>2 DEF TypeOK
  <2>9. "none" \notin Verdicts /\ "parse_queue_full" \notin Verdicts
    BY DEF Verdicts
  <2>10. OnePlace'
    BY <1>1, <2>1, <2>5, <2>6, <2>7, <2>8 DEF OnePlace
  <2>11. NotLost' /\ Settled'
    BY <1>1, <2>1, <2>3, <2>7, <2>8, <2>9 DEF NotLost, Settled, Awaiting
  <2>12. Fresh'
    BY <1>1, <2>1, <2>3, <2>7, <2>8 DEF Fresh, Placed
  <2>13. CalledOnce'
    BY <1>1, <2>1, <2>4, <2>6 DEF CalledOnce
  <2>14. TruthfulAnswers'
    BY <1>1, <2>1, <2>3, <2>8, <2>9 DEF TruthfulAnswers, Truthful
  <2>15. LedgerExact'
    BY <1>1, <2>1 DEF LedgerExact
  <2> QED BY <1>1, <2>6, <2>10, <2>11, <2>12, <2>13, <2>14, <2>15
<1>5. CASE WorkerExit(w)
  <2>1. /\ UNCHANGED <<jobs, wjob, reply, calls, verdict, ledger>>
        /\ wpc' = [wpc EXCEPT ![w] = "exited"]
    BY <1>5 DEF WorkerExit
  <2>2. OnePlace' /\ TruthfulAnswers' /\ LedgerExact' /\ NoRepeats'
    BY <1>1, <2>1, QuietDelivery
  <2>3. NotLost' /\ Settled' /\ Fresh' /\ \A x : Listed(x)' <=> Listed(x)
    BY <1>1, <2>1, SamePlaces DEF NotLost, Settled, Fresh, Awaiting
  <2>4. CalledOnce'
    BY <1>1, <2>1, <2>3 DEF CalledOnce, TypeOK
  <2> QED BY <1>1, <2>2, <2>3, <2>4
<1> QED BY <1>2, <1>3, <1>4, <1>5 DEF Worker

LEMMA NextDelivery == TypeInv /\ Delivery /\ [Next]_vars => Delivery'
<1> SUFFICES ASSUME TypeInv, Delivery, [Next]_vars PROVE Delivery'
  OBVIOUS
<1>1. ASSUME UNCHANGED <<queue, jobs, held, wjob, wpc, reply, calls, verdict, ledger, req, result,
                         round, rotation, pos>>,
             cancelled' \in {TRUE, cancelled}
      PROVE  Delivery'
  <2>1. OnePlace' /\ TruthfulAnswers' /\ LedgerExact' /\ OwnQueues' /\ NoRepeats' /\ CalledOnce'
    BY <1>1, QuietDelivery
  <2>2. HeldServed'
    BY <1>1 DEF Delivery, HeldServed, Serving, TenantAt
  <2>3. NotLost' /\ Settled' /\ Fresh'
    BY <1>1, SamePlaces DEF Delivery, NotLost, Settled, Fresh, Awaiting
  <2> QED BY <2>1, <2>2, <2>3 DEF Delivery
<1>2. CASE UNCHANGED vars
  BY <1>1, <1>2 DEF vars
<1>3. CASE Cancel
  BY <1>1, <1>3 DEF Cancel, submitVars, dispatchVars, workerVars
<1>4. CASE Next /\ ~Cancel
  BY <1>4, RequestDelivery, DispatcherDelivery, WorkerDelivery DEF Next
<1> QED BY <1>2, <1>3, <1>4

LEMMA DeliveryInvariant == Spec => [](TypeInv /\ Delivery)
<1>1. Init => TypeInv /\ Delivery
  BY InitTypeInv, InitDelivery
<1>2. TypeInv /\ Delivery /\ [Next]_vars => TypeInv' /\ Delivery'
  BY NextTypeInv, NextDelivery
<1> QED BY <1>1, <1>2, PTL DEF Spec

-----------------------------------------------------------------------------
(* The safety properties, each from the inductive invariant.               *)

(* What it is to hold an export. *)
LEMMA HoldersAre ==
  ASSUME NEW e, NEW h
  PROVE  h \in Holders(e) <=>
         \/ \E t \in Tenants : \E i \in DOMAIN queue[t] : queue[t][i] = e /\ h = <<"queue", t, i>>
         \/ \E i \in DOMAIN jobs : jobs[i] = e /\ h = <<"jobs", i>>
         \/ \E w \in Workers : wjob[w] = e /\ h = <<"worker", w>>
         \/ held = e /\ h = <<"dispatcher">>
         \/ reply[e] # "none" /\ h = <<"answered">>
<1>1. ASSUME NEW t \in Tenants
      PROVE  h \in InQueue(t, e) <=>
               \E i \in DOMAIN queue[t] : queue[t][i] = e /\ h = <<"queue", t, i>>
  BY Zenon DEF InQueue
<1>2. h \in InJobs(e) <=> \E i \in DOMAIN jobs : jobs[i] = e /\ h = <<"jobs", i>>
  BY Zenon DEF InJobs
<1>3. h \in InWorkers(e) <=> \E w \in Workers : wjob[w] = e /\ h = <<"worker", w>>
  BY Zenon DEF InWorkers
<1>4. h \in InHand(e) <=> held = e /\ h = <<"dispatcher">>
  BY DEF InHand
<1>5. h \in Answered(e) <=> reply[e] # "none" /\ h = <<"answered">>
  BY DEF Answered
<1>6. h \in Holders(e) <=>
        \/ \E t \in Tenants : h \in InQueue(t, e)
        \/ h \in InJobs(e) \/ h \in InWorkers(e) \/ h \in InHand(e) \/ h \in Answered(e)
  BY Zenon DEF Holders
<1> QED BY <1>1, <1>2, <1>3, <1>4, <1>5, <1>6

LEMMA PlacedIsHeld ==
  ASSUME TypeInv, Delivery, NEW e \in Exports, Placed(e) \/ reply[e] # "none"
  PROVE  Holders(e) # {}
<1>1. CASE Queued(e)
  <2>1. PICK i \in DOMAIN queue[TenantOf[e]] : queue[TenantOf[e]][i] = e
    BY <1>1 DEF Queued, Occurs
  <2>2. TenantOf[e] \in Tenants
    BY TenantOfType
  <2>3. <<"queue", TenantOf[e], i>> \in Holders(e)
    BY <2>1, <2>2, HoldersAre
  <2> QED BY <2>3
<1>2. CASE Listed(e)
  <2>1. PICK i \in DOMAIN jobs : jobs[i] = e
    BY <1>2 DEF Listed, Occurs
  <2>2. <<"jobs", i>> \in Holders(e)
    BY <2>1, HoldersAre
  <2> QED BY <2>2
<1>3. CASE Working(e)
  <2>1. PICK w \in Workers : wjob[w] = e
    BY <1>3 DEF Working
  <2>2. <<"worker", w>> \in Holders(e)
    BY <2>1, HoldersAre
  <2> QED BY <2>2
<1>4. CASE held = e
  <2>1. <<"dispatcher">> \in Holders(e)
    BY <1>4, HoldersAre
  <2> QED BY <2>1
<1>5. CASE reply[e] # "none"
  <2>1. <<"answered">> \in Holders(e)
    BY <1>5, HoldersAre
  <2> QED BY <2>1
<1> QED BY <1>1, <1>2, <1>3, <1>4, <1>5 DEF Placed

LEMMA OneHolder ==
  ASSUME TypeInv, Delivery, NEW e \in Exports, NEW h1 \in Holders(e), NEW h2 \in Holders(e)
  PROVE  h1 = h2
<1>1. ASSUME NEW t \in Tenants, NEW i \in DOMAIN queue[t], queue[t][i] = e
      PROVE  t = TenantOf[e] /\ Queued(e)
  BY <1>1 DEF Delivery, OwnQueues, Queued, Occurs
<1>2. \A i \in DOMAIN jobs : jobs[i] = e => Listed(e)
  BY DEF Listed, Occurs
<1>3. \A w \in Workers : wjob[w] = e => Working(e)
  BY DEF Working
<1>4. /\ Queued(e) => ~Listed(e) /\ held # e /\ ~Working(e) /\ reply[e] = "none"
      /\ Listed(e) => held # e /\ ~Working(e) /\ reply[e] = "none"
      /\ Working(e) => held # e /\ reply[e] = "none"
      /\ held = e => reply[e] = "none"
  BY DEF Delivery, OnePlace, Placed
<1>5. e # NoExport
  BY NoExportType
<1>6. CASE Queued(e)
  <2>1. \A h \in Holders(e) : \E t \in Tenants : \E i \in DOMAIN queue[t] :
           queue[t][i] = e /\ h = <<"queue", t, i>>
    BY <1>2, <1>3, <1>4, <1>6, HoldersAre
  <2>2. PICK t1 \in Tenants : \E i \in DOMAIN queue[t1] :
                        queue[t1][i] = e /\ h1 = <<"queue", t1, i>>
    BY <2>1
  <2>3. PICK i1 \in DOMAIN queue[t1] : queue[t1][i1] = e /\ h1 = <<"queue", t1, i1>>
    BY <2>2
  <2>4. PICK t2 \in Tenants : \E i \in DOMAIN queue[t2] :
                        queue[t2][i] = e /\ h2 = <<"queue", t2, i>>
    BY <2>1
  <2>5. PICK i2 \in DOMAIN queue[t2] : queue[t2][i2] = e /\ h2 = <<"queue", t2, i2>>
    BY <2>4
  <2>6. t1 = t2
    BY <1>1, <2>3, <2>5
  <2>7. i1 = i2
    BY <2>3, <2>5, <2>6 DEF Delivery, OwnQueues, Distinct
  <2> QED BY <2>3, <2>5, <2>6, <2>7
<1>7. CASE Listed(e)
  <2>1. \A h \in Holders(e) : \E i \in DOMAIN jobs : jobs[i] = e /\ h = <<"jobs", i>>
    BY <1>1, <1>3, <1>4, <1>7, HoldersAre
  <2> QED BY <2>1 DEF Delivery, NoRepeats, Distinct
<1>8. CASE Working(e)
  <2>1. \A h \in Holders(e) : \E w \in Workers : wjob[w] = e /\ h = <<"worker", w>>
    BY <1>1, <1>2, <1>4, <1>8, HoldersAre
  <2> QED BY <1>5, <2>1 DEF Delivery, NoRepeats
<1>9. CASE ~Queued(e) /\ ~Listed(e) /\ ~Working(e)
  <2>1. \A h \in Holders(e) : \/ held = e /\ h = <<"dispatcher">>
                              \/ reply[e] # "none" /\ h = <<"answered">>
    BY <1>1, <1>2, <1>3, <1>9, HoldersAre
  <2> QED BY <1>4, <2>1
<1> QED BY <1>6, <1>7, <1>8, <1>9

(* No interleaving duplicates an accepted export, and none loses it while  *)
(* the scheduler runs.                                                     *)
THEOREM NoneLostNorDuplicated == Spec => []ExactlyOneHolder
<1>1. TypeInv /\ Delivery => ExactlyOneHolder
  <2> SUFFICES ASSUME TypeInv, Delivery, NEW e \in Exports, Awaiting(e)
               PROVE  \/ \E h \in Holders(e) : Holders(e) = {h}
                      \/ Holders(e) = {} /\ cancelled
    BY DEF ExactlyOneHolder
  <2>1. CASE Holders(e) = {}
    BY <2>1, PlacedIsHeld DEF Delivery, NotLost
  <2>2. CASE Holders(e) # {}
    <3>1. PICK h : h \in Holders(e)
      BY <2>2
    <3>2. Holders(e) = {h}
      BY <3>1, OneHolder
    <3> QED BY <3>1, <3>2
  <2> QED BY <2>1, <2>2
<1> QED BY <1>1, DeliveryInvariant, PTL

(* The sink sees an export at most once, and ok means that it took it.     *)
THEOREM AcknowledgedIsIngested == Spec => []AckedOnlyIfIngested
<1>1. TypeInv /\ Delivery => AckedOnlyIfIngested
  BY DEF Delivery, CalledOnce, TruthfulAnswers, Truthful, AckedOnlyIfIngested, Verdicts
<1> QED BY <1>1, DeliveryInvariant, PTL

(* A refused export can be sent again without duplicating records.         *)
THEOREM RefusedIsUntouched == Spec => []RefusedNeverIngested
<1>1. TypeInv /\ Delivery => RefusedNeverIngested
  BY GoneIsUnplaced
     DEF TypeInv, Delivery, OnePlace, TruthfulAnswers, Truthful, RefusedNeverIngested
<1> QED BY <1>1, DeliveryInvariant, PTL

(* The reject log and the answers agree.                                   *)
THEOREM LedgerMatchesAnswers == Spec => []LedgerAgrees
<1>1. TypeInv /\ Delivery => LedgerAgrees
  <2> SUFFICES ASSUME TypeInv, Delivery, NEW e \in Exports
               PROVE  /\ result[e] = "ok" => \A r \in Reasons : <<e, r>> \notin ledger
                      /\ result[e] \in SinkErrors => <<e, result[e]>> \in ledger
    BY DEF LedgerAgrees
  <2>1. result[e] \in Verdicts => verdict[e] = result[e]
    BY DEF Delivery, TruthfulAnswers, Truthful
  <2>2. "ok" \notin SinkErrors
    BY SinkErrorsType
  <2> QED BY <2>1, <2>2 DEF Delivery, LedgerExact, Reasons, Verdicts
<1> QED BY <1>1, DeliveryInvariant, PTL

(* Only a tenant's own backlog costs it an export.                         *)
THEOREM OtherTenantsCostNothing == Spec => RefusedOnlyByOwnBacklog
<1>1. ASSUME TypeInv, Delivery, [Next]_vars, NEW e \in Exports, BecomesRefused(e)
      PROVE  FullOfOwn(TenantOf[e])
  <2> DEFINE t == TenantOf[e]
  <2>1. t \in Tenants /\ queue[t] \in Seq(Exports) /\ Len(queue[t]) \in Nat /\ Len(queue[t]) <= QueueDepth
    BY <1>1, TenantOfType DEF TypeInv, TypeOK
  <2>2. ~QueueHasRoom(t) => FullOfOwn(t)
    <3>1. ~QueueHasRoom(t) => Len(queue[t]) = QueueDepth
      BY <2>1, QueueDepthType DEF QueueHasRoom
    <3>2. \A i \in DOMAIN queue[t] : queue[t][i] \in Exports /\ Occurs(queue[t][i], queue[t])
      BY <2>1 DEF Occurs
    <3>3. \A i \in DOMAIN queue[t] : TenantOf[queue[t][i]] = t
      BY <1>1, <2>1, <3>2 DEF Delivery, OwnQueues
    <3> QED BY <3>1, <3>3 DEF FullOfOwn
  <2>3. \/ reply[e] = "none" /\ reply'[e] = "parse_queue_full"
        \/ reply[e] = "none" /\ result[e] = "none" /\ result'[e] = "parse_queue_full"
    BY <1>1 DEF BecomesRefused
  <2> HIDE DEF t
  <2>4. CASE UNCHANGED <<reply, result>>
    BY <2>3, <2>4
  <2>5. ASSUME NEW x \in Exports, Admit(x) \/ ReceiveReply(x) \/ GiveUp(x)
        PROVE  FALSE
    BY <1>1, <2>3, <2>5 DEF TypeInv, TypeOK, Admit, ReceiveReply, GiveUp
  <2>6. ASSUME NEW x \in Exports, Submit(x)
        PROVE  FullOfOwn(t)
    <3>1. CASE Refuse(x)
      <4>1. x = e
        BY <1>1, <2>3, <3>1 DEF TypeInv, TypeOK, Refuse
      <4> QED BY <2>2, <3>1, <4>1 DEF Refuse, t
    <3>2. CASE ~Refuse(x)
      <4>1. UNCHANGED <<reply, result>>
        BY <2>6, <3>2 DEF Submit, Register, Enqueue, Kick
      <4> QED BY <2>4, <4>1 DEF t
    <3> QED BY <3>1, <3>2
  <2>7. CASE Dispatcher
    <3>1. CASE FailHeld
      <4>1. e = held
        BY <1>1, <2>3, <3>1 DEF TypeInv, TypeOK, FailHeld, submitVars
      <4>2. TenantOf[held] = Serving
        BY <1>1, <4>1, NoExportType DEF Delivery, HeldServed
      <4> QED BY <2>2, <3>1, <4>1, <4>2 DEF FailHeld, t
    <3>2. CASE ~FailHeld
      BY <2>4, <2>7, <3>2 DEF Dispatcher, StartRound, Pop, Push, Requeue, Wake, DispatcherExit, submitVars
    <3> QED BY <3>1, <3>2
  <2>8. ASSUME NEW w \in Workers, Worker(w)
        PROVE  FALSE
    <3>1. CASE Reply(w)
      <4>1. verdict[wjob[w]] # "parse_queue_full"
        BY <1>1, <3>1, SinkErrorsType DEF TypeInv, TypeOK, Reply, Verdicts
      <4>2. reply' = reply \/ reply' = [reply EXCEPT ![wjob[w]] = verdict[wjob[w]]]
        BY <3>1, Zenon DEF Reply
      <4>3. UNCHANGED result
        BY <3>1 DEF Reply, submitVars
      <4> QED BY <1>1, <2>3, <4>1, <4>2, <4>3 DEF TypeInv, TypeOK
    <3>2. CASE ~Reply(w)
      BY <2>3, <2>8, <3>2 DEF Worker, Take, SinkReturns, WorkerExit, submitVars
    <3> QED BY <3>1, <3>2
  <2> QED BY <1>1, <2>3, <2>5, <2>6, <2>7, <2>8 DEF Next, vars, Cancel, submitVars, t
<1>2. TypeInv /\ Delivery /\ [Next]_vars
        => [\A e \in Exports : BecomesRefused(e) => FullOfOwn(TenantOf[e])]_vars
  BY <1>1
<1> QED BY <1>2, DeliveryInvariant, PTL DEF Spec, RefusedOnlyByOwnBacklog
=============================================================================
