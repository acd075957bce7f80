------------------------------- MODULE K8sProofs -------------------------------
(***************************************************************************)
(* Proofs about the Kubernetes source: no pod is streamed twice, no        *)
(* streamer is out of reach, and one that is told to end sends one line    *)
(* more at most.                                                           *)
(***************************************************************************)
EXTENDS K8sSource, SequenceTheorems, TLAPS

Streams == [watcher : Nat, pod : Pods, pc : {"entered", "opening", "reading", "sending", "ended"},
            stopped : BOOLEAN, late : Nat]

TypeInv ==
  /\ selected \in Seq(SUBSET Pods) /\ Len(selected) > 0
  /\ entries \in [1..Watcher -> [Pods -> Nat]]
  /\ handler \in [1..Watcher -> Nat]
  /\ streamers \in Seq(Streams)

(* Only the last watcher can be in use, and it is not while UpdateFilter    *)
(* builds the next.                                                         *)
LastInUse ==
  /\ \A w \in 1..Watcher : w # Watcher => w \in cancelled
  /\ update = "build" => Watcher \in cancelled

(* What an entry and a handler point to.                                    *)
Pointers ==
  /\ \A s \in Ids : streamers[s].watcher \in 1..Watcher
  /\ \A w \in 1..Watcher : handler[w] # 0 =>
       /\ handler[w] \in Ids
       /\ streamers[handler[w]].watcher = w /\ streamers[handler[w]].pc = "entered"
  /\ \A w \in 1..Watcher, p \in Pods : entries[w][p] # 0 =>
       /\ entries[w][p] \in Ids /\ streamers[entries[w][p]].pod = p

(* The streamer of the last watcher that is not told to end is its entry.   *)
LastTracked ==
  \A s \in Ids :
    ~Done(s) /\ streamers[s].watcher = Watcher /\ streamers[s].pc # "ended" =>
      entries[Watcher][streamers[s].pod] = s

(* A late line was on its way; the streamer scans no more after it.         *)
LateInv ==
  \A s \in Ids :
    /\ streamers[s].late <= 1
    /\ streamers[s].late # 0 => Done(s) /\ streamers[s].pc \in {"reading", "ended"}

K8sInv == TypeInv /\ LastInUse /\ Pointers /\ LastTracked /\ LateInv

LEMMA K8sInitial == Init => K8sInv
<1> SUFFICES ASSUME Init PROVE K8sInv
  OBVIOUS
<1>1. selected = <<Pods>> /\ Len(selected) = 1 /\ selected \in Seq(SUBSET Pods)
  BY DEF Init
<1>2. streamers = <<>> /\ Ids = {} /\ streamers \in Seq(Streams)
  BY DEF Init, Ids
<1>3. entries = <<[p \in Pods |-> 0]>> /\ handler = <<0>> /\ update = "idle"
  BY DEF Init
<1>4. entries \in [1..1 -> [Pods -> Nat]] /\ handler \in [1..1 -> Nat]
  BY <1>3
<1>5. \A w \in 1..1 : handler[w] = 0 /\ \A p \in Pods : entries[w][p] = 0
  BY <1>3
<1>6. \A w \in 1..1 : w = 1
  OBVIOUS
<1> QED BY <1>1, <1>2, <1>3, <1>4, <1>5, <1>6
        DEF K8sInv, TypeInv, LastInUse, Pointers, LastTracked, LateInv, Watcher

(* What the invariant says is what the properties say.                      *)
LEMMA InvTracks == K8sInv => LiveStreamsTracked
<1> SUFFICES ASSUME K8sInv, NEW s \in Ids, ~Done(s), streamers[s].pc # "ended"
             PROVE  streamers[s].watcher = Watcher /\ entries[Watcher][streamers[s].pod] = s
  BY DEF LiveStreamsTracked
<1>1. streamers[s].watcher = Watcher
  BY DEF K8sInv, Pointers, LastInUse, Done
<1> QED BY <1>1 DEF K8sInv, LastTracked

LEMMA InvBounds == K8sInv => LateLinesBounded
BY DEF K8sInv, LateInv, LateLinesBounded

-----------------------------------------------------------------------------
(* The steps. *)

(* A streamer's own step, or its start: it stays in its place.  What may    *)
(* change is where it stands and how many lines it was late with.           *)
LEMMA StreamerStays ==
  ASSUME K8sInv, NEW s \in Ids,
         UNCHANGED <<selected, cancelled, entries, update>>,
         \A w \in 1..Watcher : handler'[w] \in {handler[w], 0},
         handler' \in [1..Watcher -> Nat],
         streamers' \in Seq(Streams), Len(streamers') = Len(streamers),
         \A t \in Ids : t # s => streamers'[t] = streamers[t],
         streamers'[s].watcher = streamers[s].watcher,
         streamers'[s].pod = streamers[s].pod,
         streamers'[s].stopped = streamers[s].stopped,
         streamers[s].pc = "ended" => streamers'[s].pc = "ended",
         \A w \in 1..Watcher : handler'[w] # s,
         streamers'[s].late <= 1,
         streamers'[s].late # 0 => Done(s) /\ streamers'[s].pc \in {"reading", "ended"}
  PROVE  K8sInv'
<1>1. Watcher' = Watcher /\ Ids' = Ids
  <2>1. Ids = 1..Len(streamers) /\ Ids' = 1..Len(streamers')
    BY DEF Ids, K8sInv, TypeInv
  <2> QED BY <2>1 DEF Watcher
<1>2. \A t \in Ids : /\ streamers'[t].watcher = streamers[t].watcher
                     /\ streamers'[t].pod = streamers[t].pod
                     /\ streamers'[t].stopped = streamers[t].stopped
                     /\ streamers[t].pc = "ended" => streamers'[t].pc = "ended"
  OBVIOUS
<1>3. \A t \in Ids : Done(t)' <=> Done(t)
  BY <1>2 DEF Done
<1>4. TypeInv'
  BY <1>1 DEF K8sInv, TypeInv
<1>5. LastInUse'
  BY <1>1 DEF K8sInv, LastInUse
<1>6. Pointers'
  <2>1. \A t \in Ids : streamers'[t].watcher \in 1..Watcher
    BY <1>2 DEF K8sInv, Pointers
  <2>2. ASSUME NEW w \in 1..Watcher, handler'[w] # 0
        PROVE  /\ handler'[w] \in Ids
               /\ streamers'[handler'[w]].watcher = w /\ streamers'[handler'[w]].pc = "entered"
    <3>1. handler'[w] = handler[w] /\ handler'[w] # s
      BY <2>2
    <3>2. /\ handler[w] \in Ids
          /\ streamers[handler[w]].watcher = w /\ streamers[handler[w]].pc = "entered"
      BY <2>2, <3>1 DEF K8sInv, Pointers
    <3> QED BY <3>1, <3>2
  <2>3. ASSUME NEW w \in 1..Watcher, NEW p \in Pods, entries[w][p] # 0
        PROVE  entries[w][p] \in Ids /\ streamers'[entries[w][p]].pod = p
    BY <1>2, <2>3 DEF K8sInv, Pointers
  <2> QED BY <1>1, <2>1, <2>2, <2>3 DEF Pointers
<1>7. LastTracked'
  <2> SUFFICES ASSUME NEW t \in Ids, ~Done(t)', streamers'[t].watcher = Watcher,
                      streamers'[t].pc # "ended"
               PROVE  entries[Watcher][streamers'[t].pod] = t
    BY <1>1 DEF LastTracked
  <2>1. ~Done(t) /\ streamers[t].watcher = Watcher /\ streamers[t].pc # "ended"
    BY <1>2, <1>3
  <2> QED BY <1>2, <2>1 DEF K8sInv, LastTracked
<1>8. LateInv'
  <2> SUFFICES ASSUME NEW t \in Ids
               PROVE  /\ streamers'[t].late <= 1
                      /\ streamers'[t].late # 0 =>
                           Done(t)' /\ streamers'[t].pc \in {"reading", "ended"}
    BY <1>1 DEF LateInv
  <2>1. CASE t = s
    BY <1>3, <2>1
  <2>2. CASE t # s
    BY <1>3, <2>2 DEF K8sInv, LateInv
  <2> QED BY <2>1, <2>2
<1> QED BY <1>4, <1>5, <1>6, <1>7, <1>8 DEF K8sInv

(* Only s has changed, to pc and late.                                      *)
Moved(s, pc, late) ==
  /\ streamers' \in Seq(Streams) /\ Len(streamers') = Len(streamers)
  /\ \A t \in Ids : t # s => streamers'[t] = streamers[t]
  /\ streamers'[s].watcher = streamers[s].watcher
  /\ streamers'[s].pod = streamers[s].pod
  /\ streamers'[s].stopped = streamers[s].stopped
  /\ streamers'[s].pc = pc /\ streamers'[s].late = late

LEMMA SetStreamer ==
  ASSUME streamers \in Seq(Streams), NEW s \in 1..Len(streamers), NEW r \in Streams,
         streamers' = [streamers EXCEPT ![s] = r]
  PROVE  /\ streamers' \in Seq(Streams) /\ Len(streamers') = Len(streamers)
         /\ \A t \in Ids : t # s => streamers'[t] = streamers[t]
         /\ streamers'[s] = r
BY DEF Ids

LEMMA SetPlace ==
  ASSUME streamers \in Seq(Streams), NEW s \in 1..Len(streamers),
         NEW pc \in {"opening", "reading", "sending", "ended"},
         streamers' = [streamers EXCEPT ![s].pc = pc]
  PROVE  Moved(s, pc, streamers[s].late)
<1> DEFINE r == [streamers[s] EXCEPT !.pc = pc]
<1>1. streamers[s] \in Streams
  OBVIOUS
<1>2. /\ r \in Streams /\ r.pc = pc /\ r.late = streamers[s].late
      /\ r.watcher = streamers[s].watcher /\ r.pod = streamers[s].pod
      /\ r.stopped = streamers[s].stopped
  BY <1>1 DEF Streams
<1>3. streamers' = [streamers EXCEPT ![s] = r]
  OBVIOUS
<1> HIDE DEF r
<1> QED BY <1>2, <1>3, SetStreamer, SMTT(30) DEF Moved

LEMMA MovedStays ==
  ASSUME K8sInv, NEW s \in Ids, NEW pc, NEW late, Moved(s, pc, late),
         UNCHANGED <<selected, cancelled, entries, update, handler>>,
         streamers[s].pc # "entered", streamers[s].pc # "ended",
         late <= 1, late # 0 => Done(s) /\ pc \in {"reading", "ended"}
  PROVE  K8sInv'
<1>1. /\ streamers' \in Seq(Streams) /\ Len(streamers') = Len(streamers)
      /\ \A t \in Ids : t # s => streamers'[t] = streamers[t]
      /\ streamers'[s].watcher = streamers[s].watcher
      /\ streamers'[s].pod = streamers[s].pod
      /\ streamers'[s].stopped = streamers[s].stopped
      /\ streamers'[s].pc = pc /\ streamers'[s].late = late
  BY DEF Moved
<1>2. /\ handler' \in [1..Watcher -> Nat]
      /\ \A w \in 1..Watcher : handler'[w] \in {handler[w], 0} /\ handler'[w] # s
  <2>1. handler' = handler /\ handler \in [1..Watcher -> Nat] /\ s # 0
    BY DEF K8sInv, TypeInv, Ids
  <2> QED BY <2>1 DEF K8sInv, Pointers
<1> QED BY <1>1, <1>2, StreamerStays

LEMMA StreamerStepInductive ==
  ASSUME K8sInv, NEW s \in Ids, Streamer(s)
  PROVE  K8sInv'
<1>1. /\ UNCHANGED <<selected, cancelled, entries, update, handler>>
      /\ streamers[s].pc # "entered" /\ streamers[s].pc # "ended"
  BY DEF Streamer, OpenStream, Scan, EndScan, SendLine, SendOnClosed, LeaveSend, watcherVars
<1>2. streamers[s] \in Streams /\ s \in 1..Len(streamers) /\ streamers \in Seq(Streams)
  BY DEF K8sInv, TypeInv, Ids
<1>3. CASE OpenStream(s)
  <2>1. PICK pc \in {"reading", "ended"} : streamers' = [streamers EXCEPT ![s].pc = pc]
    BY <1>3 DEF OpenStream, Goto
  <2>2. Moved(s, pc, streamers[s].late)
    BY <1>2, <2>1, SetPlace
  <2> QED BY <1>1, <1>2, <2>2, MovedStays DEF K8sInv, LateInv
<1>4. CASE Scan(s)
  <2>1. streamers' = [streamers EXCEPT ![s].pc = "sending"] /\ ~Done(s)
    BY <1>4 DEF Scan, Goto
  <2>2. streamers[s].late = 0
    BY <2>1 DEF K8sInv, LateInv
  <2>3. Moved(s, "sending", streamers[s].late)
    BY <1>2, <2>1, SetPlace
  <2> QED BY <1>1, <1>2, <2>2, <2>3, MovedStays
<1>5. CASE EndScan(s) \/ LeaveSend(s)
  <2>1. streamers' = [streamers EXCEPT ![s].pc = "ended"]
    BY <1>5 DEF EndScan, LeaveSend, Goto
  <2>2. Moved(s, "ended", streamers[s].late)
    BY <1>2, <2>1, SetPlace
  <2> QED BY <1>1, <1>2, <2>2, MovedStays DEF K8sInv, LateInv
<1>6. CASE SendLine(s)
  <2> DEFINE late == IF Done(s) THEN streamers[s].late + 1 ELSE streamers[s].late
  <2>1. /\ streamers' = [streamers EXCEPT
              ![s].pc = "reading", ![s].late = IF Done(s) THEN @ + 1 ELSE @]
        /\ streamers[s].pc = "sending"
    BY <1>6 DEF SendLine
  <2>2. streamers[s].late = 0 /\ late \in Nat /\ late <= 1 /\ (late # 0 => Done(s))
    <3>1. streamers[s].late = 0 /\ 0 + 1 = 1
      BY <1>2, <2>1 DEF K8sInv, LateInv
    <3>2. CASE Done(s)
      BY <3>1, <3>2
    <3>3. CASE ~Done(s)
      BY <3>1, <3>3
    <3> QED BY <3>2, <3>3
  <2>3. Moved(s, "reading", late)
    <3> DEFINE r == [streamers[s] EXCEPT !.pc = "reading", !.late = late]
    <3>1. streamers' = [streamers EXCEPT ![s] = r]
      BY <1>2, <2>1 DEF Streams
    <3>2. late \in Nat
      BY <2>2
    <3> HIDE DEF late
    <3>3. /\ r \in Streams /\ r.pc = "reading" /\ r.late = late
          /\ r.watcher = streamers[s].watcher /\ r.pod = streamers[s].pod
          /\ r.stopped = streamers[s].stopped
      BY <1>2, <3>2 DEF Streams
    <3> HIDE DEF r
    <3> QED BY <1>2, <3>1, <3>3, SetStreamer DEF Moved
  <2> HIDE DEF late
  <2> QED BY <1>1, <1>2, <2>2, <2>3, MovedStays
<1>7. CASE SendOnClosed(s)
  <2>1. streamers' = streamers /\ streamers[s].pc = "sending"
    BY <1>7 DEF SendOnClosed
  <2>2. streamers[s].late = 0
    BY <2>1 DEF K8sInv, LateInv
  <2>3. Moved(s, "sending", streamers[s].late)
    BY <1>2, <2>1 DEF Moved
  <2> QED BY <1>1, <1>2, <2>2, <2>3, MovedStays
<1> QED BY <1>3, <1>4, <1>5, <1>6, <1>7 DEF Streamer

LEMMA StartStreamInductive ==
  ASSUME K8sInv, NEW w \in DOMAIN selected, StartStream(w)
  PROVE  K8sInv'
<1> DEFINE s == handler[w]
<1>1. /\ UNCHANGED <<selected, cancelled, entries, update>>
      /\ s # 0 /\ streamers' = [streamers EXCEPT ![s].pc = "opening"]
      /\ handler' = [handler EXCEPT ![w] = 0]
  BY DEF StartStream, Goto, watcherVars
<1>2. w \in 1..Watcher
  BY DEF K8sInv, TypeInv, Watcher
<1>3. /\ s \in Ids /\ streamers[s].watcher = w /\ streamers[s].pc = "entered"
      /\ s \in 1..Len(streamers) /\ streamers \in Seq(Streams) /\ streamers[s] \in Streams
  BY <1>1, <1>2 DEF K8sInv, Pointers, TypeInv, Ids
<1>4. /\ streamers' \in Seq(Streams) /\ Len(streamers') = Len(streamers)
      /\ \A t \in Ids : t # s => streamers'[t] = streamers[t]
      /\ streamers'[s].watcher = streamers[s].watcher
      /\ streamers'[s].pod = streamers[s].pod
      /\ streamers'[s].stopped = streamers[s].stopped
      /\ streamers'[s].late = streamers[s].late
  BY <1>1, <1>3, SetPlace DEF Moved
<1>5. streamers[s].late = 0
  BY <1>3 DEF K8sInv, LateInv
<1>6. handler \in [1..Watcher -> Nat]
  BY DEF K8sInv, TypeInv
<1>7. /\ handler' \in [1..Watcher -> Nat]
      /\ \A v \in 1..Watcher : handler'[v] \in {handler[v], 0}
  BY <1>1, <1>2, <1>6
<1>8. \A v \in 1..Watcher : handler'[v] # s
  <2> SUFFICES ASSUME NEW v \in 1..Watcher, handler'[v] = s PROVE FALSE
    OBVIOUS
  <2>1. v # w /\ handler[v] = s
    BY <1>1, <1>2, <1>6
  <2> QED BY <1>1, <1>3, <2>1 DEF K8sInv, Pointers
<1>9. /\ streamers[s].pc = "ended" => streamers'[s].pc = "ended"
      /\ streamers'[s].late <= 1
      /\ streamers'[s].late # 0 => Done(s) /\ streamers'[s].pc \in {"reading", "ended"}
  BY <1>3, <1>4, <1>5
<1>10. \A v \in 1..Watcher : handler'[v] \in {handler[v], 0}
  BY <1>7
<1> HIDE DEF s
<1> QED BY <1>1, <1>3, <1>4, <1>7, <1>8, <1>9, <1>10, StreamerStays

LEMMA EnterStreamInductive ==
  ASSUME K8sInv, NEW w \in DOMAIN selected, NEW p \in Pods, EnterStream(w, p)
  PROVE  K8sInv'
<1> DEFINE n == Len(streamers) + 1
           new == [watcher |-> w, pod |-> p, pc |-> "entered", stopped |-> FALSE, late |-> 0]
<1>1. /\ UNCHANGED <<selected, cancelled, update>>
      /\ handler[w] = 0 /\ entries[w][p] = 0
      /\ streamers' = Append(streamers, new)
      /\ entries' = [entries EXCEPT ![w][p] = n]
      /\ handler' = [handler EXCEPT ![w] = n]
  BY DEF EnterStream, NewStream
<1>2. /\ w \in 1..Watcher /\ w \in Nat /\ Watcher \in Nat /\ Watcher \in 1..Watcher /\ n \in Nat /\ n # 0
      /\ streamers \in Seq(Streams)
      /\ entries \in [1..Watcher -> [Pods -> Nat]] /\ handler \in [1..Watcher -> Nat]
  BY DEF K8sInv, TypeInv, Watcher
<1>3. Watcher' = Watcher
  BY <1>1 DEF Watcher
<1>4. new \in Streams
  BY <1>2 DEF Streams
<1>5. /\ streamers' \in Seq(Streams) /\ Ids = 1..Len(streamers) /\ Ids' = Ids \cup {n} /\ n \notin Ids
      /\ streamers'[n] = new /\ \A t \in Ids : streamers'[t] = streamers[t]
  <2> HIDE DEF new
  <2>1. streamers' \in Seq(Streams) /\ Len(streamers') = n
    BY <1>1, <1>2, <1>4
  <2>2. Ids = 1..Len(streamers) /\ Ids' = 1..n
    BY <1>2, <2>1 DEF Ids
  <2>3. Ids' = Ids \cup {n} /\ n \notin Ids
    BY <1>2, <2>2
  <2>4. streamers'[n] = new /\ \A t \in 1..Len(streamers) : streamers'[t] = streamers[t]
    BY <1>1, <1>2, <1>4
  <2> QED BY <2>1, <2>2, <2>3, <2>4
<1>6. new.watcher = w /\ new.pod = p /\ new.pc = "entered" /\ new.stopped = FALSE /\ new.late = 0
  OBVIOUS
<1> HIDE DEF new, n
<1>7. /\ entries' \in [1..Watcher -> [Pods -> Nat]] /\ handler' \in [1..Watcher -> Nat]
      /\ handler'[w] = n /\ \A v \in 1..Watcher : v # w => handler'[v] = handler[v]
      /\ entries'[w][p] = n
      /\ \A v \in 1..Watcher, q \in Pods : v # w \/ q # p => entries'[v][q] = entries[v][q]
  BY <1>1, <1>2
<1>8. \A t \in Ids : Done(t)' <=> Done(t)
  BY <1>1, <1>5 DEF Done
<1>9. TypeInv'
  BY <1>1, <1>3, <1>5, <1>7 DEF K8sInv, TypeInv
<1>10. LastInUse'
  BY <1>1, <1>3 DEF K8sInv, LastInUse
<1>11. Pointers'
  <2>1. \A t \in Ids' : streamers'[t].watcher \in 1..Watcher
    BY <1>2, <1>5, <1>6 DEF K8sInv, Pointers
  <2>2. ASSUME NEW v \in 1..Watcher, handler'[v] # 0
        PROVE  /\ handler'[v] \in Ids'
               /\ streamers'[handler'[v]].watcher = v /\ streamers'[handler'[v]].pc = "entered"
    BY <1>5, <1>6, <1>7, <2>2 DEF K8sInv, Pointers
  <2>3. ASSUME NEW v \in 1..Watcher, NEW q \in Pods, entries'[v][q] # 0
        PROVE  entries'[v][q] \in Ids' /\ streamers'[entries'[v][q]].pod = q
    BY <1>5, <1>6, <1>7, <2>3, SMTT(30) DEF K8sInv, Pointers
  <2> QED BY <1>3, <2>1, <2>2, <2>3 DEF Pointers
<1>12. LastTracked'
  <2> SUFFICES ASSUME NEW t \in Ids', ~Done(t)', streamers'[t].watcher = Watcher,
                      streamers'[t].pc # "ended"
               PROVE  entries'[Watcher][streamers'[t].pod] = t
    BY <1>3 DEF LastTracked
  <2>1. CASE t = n
    BY <1>5, <1>6, <1>7, <2>1
  <2>2. CASE t # n
    <3>1. t \in Ids /\ streamers'[t] = streamers[t] /\ ~Done(t)
      BY <1>5, <1>8, <2>2
    <3>2. entries[Watcher][streamers[t].pod] = t /\ streamers[t].pod \in Pods /\ t # 0
      <4>1. t \in 1..Len(streamers) /\ t # 0 /\ streamers[t] \in Streams
        BY <1>2, <1>5, <3>1
      <4>2. entries[Watcher][streamers[t].pod] = t
        BY <3>1 DEF K8sInv, LastTracked
      <4> QED BY <4>1, <4>2 DEF Streams
    <3>3. Watcher # w \/ streamers[t].pod # p
      BY <1>1, <3>2
    <3>4. entries'[Watcher][streamers[t].pod] = entries[Watcher][streamers[t].pod]
      BY <1>2, <1>7, <3>2, <3>3
    <3> QED BY <3>1, <3>2, <3>4
  <2> QED BY <2>1, <2>2
<1>13. LateInv'
  <2> SUFFICES ASSUME NEW t \in Ids'
               PROVE  /\ streamers'[t].late <= 1
                      /\ streamers'[t].late # 0 =>
                           Done(t)' /\ streamers'[t].pc \in {"reading", "ended"}
    BY DEF LateInv
  <2>1. CASE t = n
    BY <1>5, <1>6, <2>1
  <2>2. CASE t # n
    BY <1>5, <1>8, <2>2 DEF K8sInv, LateInv
  <2> QED BY <2>1, <2>2
<1> QED BY <1>9, <1>10, <1>11, <1>12, <1>13 DEF K8sInv

LEMMA StopStreamInductive ==
  ASSUME K8sInv, NEW w \in DOMAIN selected, NEW p \in Pods, StopStream(w, p)
  PROVE  K8sInv'
<1>0. PICK e : e = entries[w][p]
  OBVIOUS
<1> DEFINE r == [streamers[e] EXCEPT !.stopped = TRUE]
<1>1. /\ UNCHANGED <<selected, cancelled, update, handler>>
      /\ e # 0 /\ streamers' = [streamers EXCEPT ![e] = r]
      /\ entries' = [entries EXCEPT ![w][p] = 0]
  BY <1>0 DEF StopStream
<1>2. /\ w \in 1..Watcher /\ Watcher' = Watcher /\ Watcher \in 1..Watcher
      /\ streamers \in Seq(Streams) /\ Ids = 1..Len(streamers)
      /\ entries \in [1..Watcher -> [Pods -> Nat]] /\ handler \in [1..Watcher -> Nat]
  BY <1>1 DEF K8sInv, TypeInv, Watcher, Ids
<1>3. e \in Ids /\ e \in 1..Len(streamers) /\ streamers[e] \in Streams
  BY <1>0, <1>1, <1>2 DEF K8sInv, Pointers
<1>4. /\ r \in Streams /\ r.stopped = TRUE /\ r.watcher = streamers[e].watcher
      /\ r.pod = streamers[e].pod /\ r.pc = streamers[e].pc /\ r.late = streamers[e].late
  BY <1>3 DEF Streams
<1> HIDE DEF r
<1>5. /\ streamers' \in Seq(Streams) /\ Len(streamers') = Len(streamers)
      /\ \A t \in Ids : t # e => streamers'[t] = streamers[t]
      /\ streamers'[e] = r
  BY <1>1, <1>2, <1>3, <1>4, SetStreamer
<1>6. Ids' = Ids
  BY <1>2, <1>5 DEF Ids
<1>7. \A t \in Ids : /\ streamers'[t].watcher = streamers[t].watcher
                     /\ streamers'[t].pod = streamers[t].pod
                     /\ streamers'[t].pc = streamers[t].pc
                     /\ streamers'[t].late = streamers[t].late
                     /\ streamers[t].stopped => streamers'[t].stopped
  BY <1>4, <1>5
<1>8. /\ \A t \in Ids : Done(t) => Done(t)'
      /\ Done(e)'
  BY <1>1, <1>4, <1>5, <1>7 DEF Done
<1>9. /\ entries' \in [1..Watcher -> [Pods -> Nat]]
      /\ \A v \in 1..Watcher, q \in Pods :
           entries'[v][q] = (IF v = w /\ q = p THEN 0 ELSE entries[v][q])
  BY <1>1, <1>2
<1>10. TypeInv'
  BY <1>1, <1>2, <1>5, <1>9 DEF K8sInv, TypeInv
<1>11. LastInUse'
  BY <1>1, <1>2 DEF K8sInv, LastInUse
<1>12. Pointers'
  <2>1. \A t \in Ids : streamers'[t].watcher \in 1..Watcher
    BY <1>7 DEF K8sInv, Pointers
  <2>2. \A v \in 1..Watcher : handler[v] # 0 =>
          /\ handler[v] \in Ids
          /\ streamers'[handler[v]].watcher = v /\ streamers'[handler[v]].pc = "entered"
    BY <1>7 DEF K8sInv, Pointers
  <2>3. ASSUME NEW v \in 1..Watcher, NEW q \in Pods, entries'[v][q] # 0
        PROVE  entries'[v][q] \in Ids /\ streamers'[entries'[v][q]].pod = q
    <3>1. entries'[v][q] = entries[v][q]
      BY <1>9, <2>3
    <3> QED BY <1>7, <2>3, <3>1 DEF K8sInv, Pointers
  <2> QED BY <1>1, <1>2, <1>6, <2>1, <2>2, <2>3 DEF Pointers
<1>13. LastTracked'
  <2> SUFFICES ASSUME NEW t \in Ids, ~Done(t)', streamers'[t].watcher = Watcher,
                      streamers'[t].pc # "ended"
               PROVE  entries'[Watcher][streamers'[t].pod] = t
    BY <1>2, <1>6 DEF LastTracked
  <2>1. t # e /\ streamers'[t].pod = streamers[t].pod
    BY <1>7, <1>8
  <2>2. entries[Watcher][streamers[t].pod] = t
    BY <1>7, <1>8 DEF K8sInv, LastTracked
  <2>3. streamers[t].pod \in Pods
    <3>1. streamers[t] \in Streams
      BY <1>2
    <3> QED BY <3>1 DEF Streams
  <2>4. ~(Watcher = w /\ streamers[t].pod = p)
    BY <1>0, <2>1, <2>2
  <2> QED BY <1>2, <1>9, <2>1, <2>2, <2>3, <2>4
<1>14. LateInv'
  BY <1>6, <1>7, <1>8 DEF K8sInv, LateInv
<1> QED BY <1>10, <1>11, <1>12, <1>13, <1>14 DEF K8sInv

(* Stopping the last watcher tells all its streamers to end.                *)
LEMMA StopWatcherInductive ==
  ASSUME K8sInv, StopWatcher, UNCHANGED <<selected, handler, streamers>>
  PROVE  K8sInv'
<1>1. /\ cancelled' = cancelled \cup {Watcher}
      /\ entries' = [entries EXCEPT ![Watcher] = [p \in Pods |-> 0]]
      /\ Watcher' = Watcher /\ Ids' = Ids
  BY DEF StopWatcher, Watcher, Ids
<1>2. /\ Watcher \in 1..Watcher
      /\ entries \in [1..Watcher -> [Pods -> Nat]]
  BY DEF K8sInv, TypeInv, Watcher
<1>3. /\ entries' \in [1..Watcher -> [Pods -> Nat]]
      /\ \A v \in 1..Watcher, q \in Pods : entries'[v][q] \in {0, entries[v][q]}
  BY <1>1, <1>2
<1>4. \A t \in Ids : /\ Done(t) => Done(t)'
                     /\ streamers[t].watcher = Watcher => Done(t)'
  BY <1>1 DEF Done
<1>5. TypeInv'
  BY <1>1, <1>3 DEF K8sInv, TypeInv
<1>6. LastInUse'
  BY <1>1 DEF K8sInv, LastInUse
<1>7. Pointers'
  BY <1>1, <1>3 DEF K8sInv, Pointers
<1>8. LastTracked'
  BY <1>1, <1>4 DEF LastTracked
<1>9. LateInv'
  BY <1>1, <1>4 DEF K8sInv, LateInv
<1> QED BY <1>5, <1>6, <1>7, <1>8, <1>9 DEF K8sInv

LEMMA FunctionIsSeq ==
  ASSUME NEW S, NEW n \in Nat, NEW f \in [1..n -> S]
  PROVE  f \in Seq(S) /\ Len(f) = n
<1>1. f \in Seq(S)
  BY SeqDef
<1> QED BY <1>1, LenProperties

LEMMA AppendedFunction ==
  ASSUME NEW S, NEW n \in Nat, NEW f \in Seq(S), Len(f) = n, NEW x \in S
  PROVE  /\ Append(f, x) \in [1..(n + 1) -> S]
         /\ \A i \in 1..n : Append(f, x)[i] = f[i]
         /\ Append(f, x)[n + 1] = x
<1>1. /\ Append(f, x) \in Seq(S) /\ Len(Append(f, x)) = n + 1
      /\ \A i \in 1..n : Append(f, x)[i] = f[i]
      /\ Append(f, x)[n + 1] = x
  BY AppendProperties
<1>2. Append(f, x) \in [1..(n + 1) -> S]
  BY <1>1, LenProperties
<1> QED BY <1>1, <1>2

(* The new watcher starts without entries, and nothing is left that is not  *)
(* told to end.                                                             *)
LEMMA FinishUpdateInductive ==
  ASSUME K8sInv, FinishUpdate
  PROVE  K8sInv'
<1> DEFINE n == Len(selected)
<1>1. PICK selection \in Selections : selected' = Append(selected, selection)
  BY DEF FinishUpdate
<1>2. /\ update = "build" /\ update' = "idle" /\ UNCHANGED <<cancelled, streamers>>
      /\ entries' = Append(entries, [p \in Pods |-> 0]) /\ handler' = Append(handler, 0)
  BY DEF FinishUpdate
<1>3. /\ selected \in Seq(SUBSET Pods) /\ n \in Nat /\ Watcher = n
      /\ entries \in [1..n -> [Pods -> Nat]] /\ handler \in [1..n -> Nat]
      /\ streamers \in Seq(Streams)
  BY DEF K8sInv, TypeInv, Watcher
<1>4. selected' \in Seq(SUBSET Pods) /\ Len(selected') = n + 1 /\ Watcher' = n + 1
  BY <1>1, <1>3, K8sAssumption DEF Watcher
<1> HIDE DEF n
<1>6. /\ entries' \in [1..(n + 1) -> [Pods -> Nat]] /\ handler' \in [1..(n + 1) -> Nat]
      /\ \A v \in 1..n : entries'[v] = entries[v] /\ handler'[v] = handler[v]
      /\ entries'[n + 1] = [p \in Pods |-> 0] /\ handler'[n + 1] = 0
  <2> DEFINE zero == [p \in Pods |-> 0]
  <2>1. zero \in [Pods -> Nat]
    OBVIOUS
  <2> HIDE DEF zero
  <2>2. entries' = Append(entries, zero)
    BY <1>2 DEF zero
  <2>3. /\ entries' \in [1..(n + 1) -> [Pods -> Nat]]
        /\ \A v \in 1..n : entries'[v] = entries[v]
        /\ entries'[n + 1] = zero
    <3>1. /\ Append(entries, zero) \in [1..(n + 1) -> [Pods -> Nat]]
          /\ \A v \in 1..n : Append(entries, zero)[v] = entries[v]
          /\ Append(entries, zero)[n + 1] = zero
      <4>1. n \in Nat /\ entries \in [1..n -> [Pods -> Nat]]
        BY <1>3
      <4> DEFINE S == [Pods -> Nat]
      <4>2. zero \in S /\ entries \in [1..n -> S]
        BY <2>1, <4>1
      <4> HIDE DEF S
      <4>3. entries \in Seq(S) /\ Len(entries) = n
        BY <4>1, <4>2, FunctionIsSeq
      <4>4. /\ Append(entries, zero) \in [1..(n + 1) -> S]
            /\ \A v \in 1..n : Append(entries, zero)[v] = entries[v]
            /\ Append(entries, zero)[n + 1] = zero
        BY <4>1, <4>2, <4>3, AppendedFunction
      <4> QED BY <4>4 DEF S
    <3> QED BY <2>2, <3>1
  <2>4. /\ handler' \in [1..(n + 1) -> Nat]
        /\ \A v \in 1..n : handler'[v] = handler[v]
        /\ handler'[n + 1] = 0
    <3>1. /\ Append(handler, 0) \in [1..(n + 1) -> Nat]
          /\ \A v \in 1..n : Append(handler, 0)[v] = handler[v]
          /\ Append(handler, 0)[n + 1] = 0
      <4>1. n \in Nat /\ handler \in [1..n -> Nat] /\ 0 \in Nat
        BY <1>3
      <4> DEFINE S == Nat
      <4>2. 0 \in S /\ handler \in [1..n -> S]
        BY <4>1
      <4> HIDE DEF S
      <4>3. handler \in Seq(S) /\ Len(handler) = n
        BY <4>1, <4>2, FunctionIsSeq
      <4>4. /\ Append(handler, 0) \in [1..(n + 1) -> S]
            /\ \A v \in 1..n : Append(handler, 0)[v] = handler[v]
            /\ Append(handler, 0)[n + 1] = 0
        BY <4>1, <4>2, <4>3, AppendedFunction
      <4> QED BY <4>4 DEF S
    <3> QED BY <1>2, <3>1
  <2> QED BY <2>3, <2>4 DEF zero
<1>7. \A v \in 1..(n + 1) : v \in 1..n \/ v = n + 1
  BY <1>3
<1>8. /\ \A v \in 1..n : v \in 1..(n + 1) /\ v # n + 1 /\ v \in cancelled
      /\ Ids' = Ids
  BY <1>2, <1>3 DEF K8sInv, LastInUse, Ids
<1>9. \A t \in Ids : streamers[t].watcher \in 1..n /\ Done(t) /\ Done(t)'
  BY <1>2, <1>3, <1>8 DEF K8sInv, Pointers, Done
<1>10. TypeInv'
  <2>1. n + 1 > 0
    BY <1>3
  <2> QED BY <1>2, <1>3, <1>4, <1>6, <2>1 DEF TypeInv
<1>11. LastInUse'
  BY <1>2, <1>4, <1>7, <1>8 DEF LastInUse
<1>12. Pointers'
  <2>1. \A t \in Ids : streamers'[t].watcher \in 1..(n + 1)
    BY <1>2, <1>8, <1>9
  <2>2. \A v \in 1..(n + 1) : handler'[v] # 0 =>
          /\ handler'[v] \in Ids
          /\ streamers'[handler'[v]].watcher = v /\ streamers'[handler'[v]].pc = "entered"
    BY <1>2, <1>3, <1>6, <1>7 DEF K8sInv, Pointers
  <2>3. ASSUME NEW v \in 1..(n + 1), NEW q \in Pods, entries'[v][q] # 0
        PROVE  entries'[v][q] \in Ids /\ streamers'[entries'[v][q]].pod = q
    <3>1. v \in 1..n
      BY <1>6, <1>7, <2>3
    <3>2. entries'[v][q] = entries[v][q] /\ v \in 1..Watcher
      BY <1>3, <1>6, <3>1
    <3>3. entries[v][q] # 0
      BY <2>3, <3>2
    <3>4. entries[v][q] \in Ids /\ streamers[entries[v][q]].pod = q
      BY <3>2, <3>3 DEF K8sInv, Pointers
    <3> QED BY <1>2, <3>2, <3>4
  <2> QED BY <1>4, <1>8, <2>1, <2>2, <2>3 DEF Pointers
<1>13. LastTracked'
  BY <1>8, <1>9 DEF LastTracked
<1>14. LateInv'
  BY <1>2, <1>8, <1>9 DEF K8sInv, LateInv
<1> QED BY <1>10, <1>11, <1>12, <1>13, <1>14 DEF K8sInv

LEMMA K8sInductive == K8sInv /\ [Next]_vars => K8sInv'
<1> SUFFICES ASSUME K8sInv, [Next]_vars PROVE K8sInv'
  OBVIOUS
<1>1. ASSUME UNCHANGED <<watcherVars, handler, streamers, update>>
      PROVE  K8sInv'
  BY <1>1 DEF K8sInv, TypeInv, LastInUse, Pointers, LastTracked, LateInv, Watcher, Ids, Done, watcherVars
<1>2. ASSUME UNCHANGED <<watcherVars, handler, streamers>>, update' = "idle"
      PROVE  K8sInv'
  BY <1>2 DEF K8sInv, TypeInv, LastInUse, Pointers, LastTracked, LateInv, Watcher, Ids, Done, watcherVars
<1>3. ASSUME NEW p \in Pods, PhaseChange(p) PROVE K8sInv'
  BY <1>1, <1>3 DEF PhaseChange
<1>4. CASE TakeLine \/ CloseLines \/ UNCHANGED vars
  BY <1>1, <1>4 DEF TakeLine, CloseLines, vars
<1>5. CASE FailUpdate
  BY <1>2, <1>5 DEF FailUpdate
<1>6. CASE BeginUpdate
  BY <1>6, StopWatcherInductive DEF BeginUpdate
<1>7. CASE StopSource
  BY <1>7, StopWatcherInductive DEF StopSource
<1>8. CASE FinishUpdate
  BY <1>8, FinishUpdateInductive
<1>9. ASSUME NEW w \in DOMAIN selected, StartStream(w) \/ \E p \in Pods : PodEvent(w, p)
      PROVE  K8sInv'
  BY <1>9, StartStreamInductive, EnterStreamInductive, StopStreamInductive DEF PodEvent
<1>10. ASSUME NEW s \in Ids, Streamer(s) PROVE K8sInv'
  BY <1>10, StreamerStepInductive
<1> QED BY <1>3, <1>4, <1>5, <1>6, <1>7, <1>8, <1>9, <1>10 DEF Next, Update, Stop

-----------------------------------------------------------------------------
(* However often the filter is replaced and pods come and go, no pod has    *)
(* two live streamers, and none is out of reach of its pod's deletion or of *)
(* the next filter (watcher.go, source.go).                                 *)
THEOREM NoPodTwice == Spec => []LiveStreamsTracked
BY K8sInitial, K8sInductive, InvTracks, PTL DEF Spec

(* A streamer that is told to end sends one line more at most: the one it   *)
(* was already sending (streamer.go).                                       *)
THEOREM OneLateLine == Spec => []LateLinesBounded
BY K8sInitial, K8sInductive, InvBounds, PTL DEF Spec
=============================================================================
