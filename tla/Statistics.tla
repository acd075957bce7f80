------------------------------- MODULE Statistics -------------------------------
(***************************************************************************)
(* What is counted of the entries: the dashboard's lifetime counters,      *)
(* heatmap, rate and services (internal/tui/update.go), and the frequency   *)
(* memory of the program loop (internal/memory).  The buffer forgets old   *)
(* entries, the heatmap old minutes, the rate old seconds, the services     *)
(* all but the first ones and the memory rare terms, each on its own.       *)
(*                                                                         *)
(* An entry is [own, level, attrs, words]: own is how far its own time lies *)
(* behind its arrival, or Unset.  The clock counts seconds.                *)
(***************************************************************************)
EXTENDS Integers, Sequences, FiniteSets, Functions, FiniteSetsExt, SequencesExt, Loops

CONSTANTS
  Kinds,       \* the entries that may arrive
  Unset,       \* OrigTimestamp.IsZero()
  MaxSeen,     \* bound: entries
  MaxClock,    \* bound: seconds
  BufferSize,  \* maxLogBuffer
  Minute,      \* seconds of a heatmap minute (60 in the code)
  Horizon,     \* minutes the heatmap keeps (360)
  RateWindow,  \* seconds the rate keeps (10)
  TopServices, \* services listed per severity (10)
  MemorySize,  \* maxSize of the frequency memory
  Alphabet     \* words and attribute keys in alphabetical order

ASSUME StatisticsAssumption ==
  /\ {MaxSeen, MaxClock, MemorySize} \subseteq Nat
  /\ {BufferSize, Minute, Horizon, RateWindow, TopServices} \subseteq Nat \ {0}
  /\ Alphabet \in Seq(Range(Alphabet))
  /\ \A kind \in Kinds :
       /\ kind.own = Unset \/ kind.own \in Int
       /\ kind.words \in Seq(Range(Alphabet)) /\ DOMAIN kind.attrs \subseteq Range(Alphabet)

VARIABLES
  clock,
  seen,        \* all entries, with the time they arrived; the buffer is its end
  byLogTime,   \* useLogTime
  heatmap,     \* heatmapData: minute -> severity -> count
  rebuilt,     \* history: the entries the buffer had lost when T was pressed last
  rate,        \* [count: statsLogsThisSecond, since: statsLastSecond, peak, recent]
  services,    \* servicesBySeverity: a list of [service, count] each
  lifetime,    \* the lifetime counters: [levels, hosts, services, attributes, words]
  memory,      \* FrequencyMemory: [words, attributes]
  cleared      \* history: the entries before the memory was reset last

statisticsVars == <<clock, seen, byLogTime, heatmap, rebuilt, rate, services, lifetime,
                    memory, cleared>>

AtMostOf(m, n) == IF n < m THEN n ELSE m
Lost == Len(seen) - AtMostOf(BufferSize, Len(seen))
Buffered(all) == SubSeq(all, Len(all) - AtMostOf(BufferSize, Len(all)) + 1, Len(all))

\* One more of k in a function that counts.
Counted(f, k) == [x \in DOMAIN f \union {k} |->
                    (IF x \in DOMAIN f THEN f[x] ELSE 0) + (IF x = k THEN 1 ELSE 0)]
Where(s, x) == {i \in DOMAIN s : s[i] = x}
CountAll(f, ks) == [x \in DOMAIN f \union Range(ks) |->
                      (IF x \in DOMAIN f THEN f[x] ELSE 0) + Cardinality(Where(ks, x))]

-----------------------------------------------------------------------------
(* The heatmap. *)

DisplayMinute(e, logTime) ==
  (IF logTime /\ e.own # Unset THEN e.at - e.own ELSE e.at) \div Minute

MinuteKept(m) == m * Minute > clock - Horizon * Minute

\* updateHeatmapData: one entry more, then minutes behind the horizon go.
WithEntry(map, e, logTime) ==
  LET m == DisplayMinute(e, logTime)
      levels == Counted(IF m \in DOMAIN map THEN map[m] ELSE <<>>, e.level)
  IN  [n \in {n \in DOMAIN map \union {m} : MinuteKept(n)} |->
         IF n = m THEN levels ELSE map[n]]

\* The heatmap after each entry of es.
HeatmapsOf(map, es, logTime) ==
  LET after[n \in 0..Len(es)] ==
        IF n = 0 THEN map ELSE WithEntry(after[n - 1], es[n], logTime)
  IN  after

HeatmapOf(map, es, logTime) == HeatmapsOf(map, es, logTime)[Len(es)]

\* Mutant: the old counts stay.
RebuildOnTop(logTime) == HeatmapOf(heatmap, Buffered(seen), logTime)

\* rebuildHeatmap
Rebuild(logTime) == HeatmapOf(<<>>, Buffered(seen), logTime)

\* The T key.
ToggleLogTime ==
  /\ byLogTime' = ~byLogTime
  /\ heatmap' = Rebuild(byLogTime')
  /\ rebuilt' = Lost
  /\ UNCHANGED <<clock, seen, rate, services, lifetime, memory, cleared>>

-----------------------------------------------------------------------------
(* Services and lifetime counters. *)

FirstOf(keys, attrs) == SelectSeq(keys, LAMBDA k : k \in DOMAIN attrs)

\* getServiceName; a host is marked as one.
ServiceOf(attrs) ==
  LET found == FirstOf(<<"service", "service.name", "serviceName", "app", "application">>, attrs)
  IN  IF found # <<>> THEN [host |-> FALSE, name |-> attrs[Head(found)]]
      ELSE IF "host" \in DOMAIN attrs THEN [host |-> TRUE, name |-> attrs["host"]]
      ELSE [host |-> FALSE, name |-> "unknown"]

\* updateCountsModalServices and sortAndTrimServiceCounts: the service that
\* has one more changes places with the first one that has less.
ListService(list, service) ==
  LET known == SelectInSeq(list, LAMBDA s : s.service = service)
      place == IF known = 0 THEN Len(list) + 1 ELSE known
      count == IF known = 0 THEN 1 ELSE list[known].count + 1
      behind == SelectInSeq(list, LAMBDA s : s.count < count)
      item == [service |-> service, count |-> count]
      longer == IF known = 0 THEN Append(list, item) ELSE [list EXCEPT ![known] = item]
      sorted == IF behind \in 1..(place - 1)
                THEN [longer EXCEPT ![behind] = item, ![place] = longer[behind]] ELSE longer
  IN  SubSeq(sorted, 1, AtMostOf(TopServices, Len(sorted)))

Services(e) ==
  IF ServiceOf(e.attrs).name = "" THEN services
  ELSE [l \in DOMAIN services \union {e.level} |->
          IF l # e.level THEN services[l]
          ELSE ListService(IF l \in DOMAIN services THEN services[l] ELSE <<>>, ServiceOf(e.attrs))]

\* updateLifetimeStats; here service.name goes before service.
Lifetime(e) ==
  LET said(keys) == SelectSeq(keys, LAMBDA k : k \in DOMAIN e.attrs /\ e.attrs[k] # "")
      value(keys) == IF said(keys) = <<>> THEN <<>> ELSE <<e.attrs[Head(said(keys))]>>
      pairs == {<<k, e.attrs[k]>> : k \in DOMAIN e.attrs}
  IN  [levels     |-> Counted(lifetime.levels, e.level),
       hosts      |-> CountAll(lifetime.hosts, value(<<"host">>)),
       services   |-> CountAll(lifetime.services, value(<<"service.name", "service">>)),
       attributes |-> CountAll(lifetime.attributes, SetToSeq(pairs)),
       words      |-> CountAll(lifetime.words, e.words)]

-----------------------------------------------------------------------------
(* The frequency memory. *)

\* The order of GetSnapshot and of the prune functions: the higher worth
\* first, then the alphabet.
Place(term) == CHOOSE i \in DOMAIN Alphabet : Alphabet[i] = term

Before(worth, s, term) ==
  worth[s] > worth[term] \/ (worth[s] = worth[term] /\ Place(s) < Place(term))

Rank(worth, term) == Cardinality({s \in DOMAIN worth : Before(worth, s, term)}) + 1

Snapshot(worth) ==
  [i \in 1..Cardinality(DOMAIN worth) |-> CHOOSE term \in DOMAIN worth : Rank(worth, term) = i]

\* pruneWords, prunePhrases, pruneAttributes: when there are more than
\* maxSize, the best three quarters of maxSize stay.
Pruned(map, worth) ==
  IF Cardinality(DOMAIN map) > MemorySize
  THEN Restrict(map, {Snapshot(worth)[i] : i \in 1..((MemorySize * 3) \div 4)}) ELSE map

\* AddWords; AddPhrases is the same on a map of its own.
AddWords(map, words) == LET more == CountAll(map, words) IN Pruned(more, more)

\* AddAttributes: worth is the number of different values.
AddAttributes(map, attrs) ==
  LET values(k) == Counted(IF k \in DOMAIN map THEN map[k] ELSE <<>>, attrs[k])
      more == [k \in DOMAIN map \union DOMAIN attrs |->
                 IF k \in DOMAIN attrs THEN values(k) ELSE map[k]]
  IN  Pruned(more, [k \in DOMAIN more |-> Cardinality(DOMAIN more[k])])

\* ManualResetMsg: the memory forgets; the dashboard's counters do not.
ManualReset ==
  /\ memory' = [words |-> <<>>, attributes |-> <<>>]
  /\ cleared' = Len(seen)
  /\ UNCHANGED <<clock, seen, byLogTime, heatmap, rebuilt, rate, services, lifetime>>

-----------------------------------------------------------------------------
(* An entry, and time. *)

\* processSingleLogEntry and the counting part of addLogEntry, paused or not.
CountEntry ==
  /\ Len(seen) < MaxSeen
  /\ \E kind \in Kinds :
       LET e == [own |-> kind.own, level |-> kind.level, attrs |-> kind.attrs,
                 words |-> kind.words, at |-> clock]
       IN  /\ seen' = Append(seen, e)
           /\ heatmap' = WithEntry(heatmap, e, byLogTime)
           /\ services' = Services(e)
           /\ lifetime' = Lifetime(e)
           /\ memory' = [words |-> AddWords(memory.words, e.words),
                         attributes |-> AddAttributes(memory.attributes, e.attrs)]
  /\ rate' = [rate EXCEPT !.count = @ + 1]
  /\ UNCHANGED <<clock, byLogTime, rebuilt, cleared>>

SecondPasses ==
  /\ clock < MaxClock /\ clock' = clock + 1
  /\ UNCHANGED <<seen, byLogTime, heatmap, rebuilt, rate, services, lifetime, memory, cleared>>

\* updateProcessingRateStats, on a TickMsg of the dashboard: a second or more
\* has passed since the last one that was stored.
StoreRate ==
  /\ clock > rate.since
  /\ LET longer == Append(rate.recent, [count |-> rate.count, at |-> rate.since])
         last == IF Len(longer) > RateWindow THEN Tail(longer) ELSE longer
         old == {i \in DOMAIN last : \A j \in 1..i : last[j].at < clock - RateWindow}
         fresh == SubSeq(last, Cardinality(old) + 1, Len(last))
     IN  rate' = [count |-> 0, since |-> clock, recent |-> fresh,
                  peak |-> IF rate.count > rate.peak THEN rate.count ELSE rate.peak]
  /\ UNCHANGED <<clock, seen, byLogTime, heatmap, rebuilt, services, lifetime, memory, cleared>>

StatisticsInit ==
  /\ clock = Minute /\ seen = <<>> /\ byLogTime \in BOOLEAN /\ heatmap = <<>> /\ rebuilt = 0
  /\ rate = [count |-> 0, since |-> Minute, peak |-> 0, recent |-> <<>>]
  /\ services = <<>>
  /\ lifetime = [levels |-> <<>>, hosts |-> <<>>, services |-> <<>>, attributes |-> <<>>,
                 words |-> <<>>]
  /\ memory = [words |-> <<>>, attributes |-> <<>>] /\ cleared = 0

StatisticsNext == CountEntry \/ ToggleLogTime \/ ManualReset \/ SecondPasses \/ StoreRate

StatisticsSpec == StatisticsInit /\ [][StatisticsNext]_statisticsVars

-----------------------------------------------------------------------------
(* Properties. *)

\* How many entries pass the test, of all or of those behind the first n.
HowManyAfter(n, Test(_)) == Cardinality({i \in (n + 1)..Len(seen) : Test(seen[i])})
HowMany(Test(_)) == HowManyAfter(0, Test)

LevelsSeen == {seen[i].level : i \in DOMAIN seen}

HeatCount(map, m, l) == IF m \in DOMAIN map /\ l \in DOMAIN map[m] THEN map[m][l] ELSE 0

\* However often T is pressed between arrivals and evictions: a minute the
\* heatmap still has to keep counts each entry since the rebuild's buffer
\* began once, under the time that is chosen now.
HeatmapExact ==
  \A m \in {DisplayMinute(seen[i], byLogTime) : i \in DOMAIN seen}, l \in LevelsSeen :
    MinuteKept(m) =>
      HeatCount(heatmap, m, l)
        = HowManyAfter(rebuilt, LAMBDA e : DisplayMinute(e, byLogTime) = m /\ e.level = l)

\* The seconds of the rate's window and the running one have the entries of
\* their time, each once, although ticks come late or seldom.
RateExact ==
  LET from == IF rate.recent = <<>> THEN rate.since ELSE Head(rate.recent).at
      sum == rate.count + SeqSum([i \in DOMAIN rate.recent |-> rate.recent[i].count])
  IN  /\ sum <= HowMany(LAMBDA e : e.at >= from)
      /\ sum >= HowMany(LAMBDA e : e.at > from)

\* A service that is listed shows all its entries: what is cut from a full
\* list is never a service whose count goes on.
ListedServicesComplete ==
  \A l \in DOMAIN services : \A i \in DOMAIN services[l] :
    services[l][i].count =
      HowMany(LAMBDA e : e.level = l /\ ServiceOf(e.attrs) = services[l][i].service)

\* Where a word stands in the entries since the reset.
Occurrences(word) ==
  UNION {{i} \X Where(seen[i].words, word) : i \in (cleared + 1)..Len(seen)}

WordsSince(n) == UNION {Range(seen[i].words) : i \in (n + 1)..Len(seen)}

\* The memory keeps to its size, never counts a term more often than it
\* occurred since the reset, and exactly as often while it had room for all.
MemoryExact ==
  LET shown == Snapshot(memory.words) IN
  /\ Len(shown) <= MemorySize /\ Cardinality(DOMAIN memory.attributes) <= MemorySize
  /\ \A i \in DOMAIN shown : memory.words[shown[i]] <= Cardinality(Occurrences(shown[i]))
  /\ Cardinality(WordsSince(cleared)) <= MemorySize =>
       \A word \in WordsSince(cleared) :
         word \in Range(shown) /\ memory.words[word] = Cardinality(Occurrences(word))

LifetimeExact == \A l \in LevelsSeen : lifetime.levels[l] = HowMany(LAMBDA e : e.level = l)

\* All panels that count entries tell the same story, whatever each of them
\* has forgotten: every entry is in each count once.
StatisticsExact ==
  HeatmapExact /\ RateExact /\ ListedServicesComplete /\ MemoryExact /\ LifetimeExact
=============================================================================
