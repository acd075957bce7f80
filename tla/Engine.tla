--------------------------------- MODULE Engine ---------------------------------
(***************************************************************************)
(* The analysis engine (internal/engine) with the requests of the          *)
(* dashboard's API (internal/web/api.go): goroutines that ingest records   *)
(* and goroutines that answer requests share a map of per-tenant states,   *)
(* filled lazily by whichever needs a tenant first.  The map has a lock    *)
(* and each state has one, so a lookup, an insertion, an ingestion and a   *)
(* query are a step each; two endpoints read the state twice.              *)
(*                                                                         *)
(* The byte budget of a state is in TenantStore; Reset and ResetTenant,    *)
(* and explicit stream registration, have no callers.                      *)
(***************************************************************************)
EXTENDS Queries

CONSTANTS
  Ingesters,    \* goroutines that call Ingest
  Readers,      \* goroutines that answer API requests
  EngineTenants,
  Entries,      \* the entries that may arrive
  Filters,      \* the filters that may be asked for
  Callers,      \* the authenticated identities: [tenant, admin]
  MaxWindow,    \* entries a tenant keeps
  HeatCutoff,   \* the minute six hours ago
  RecentCutoff, \* the second five minutes ago
  Blank,        \* a body without text
  MaxClusters,  \* patterns a miner keeps: 100 in the code
  DefaultPatterns, \* patterns listed unless the filter says how many: 20 in the code
  SummaryPatterns, \* patterns listed by a summary: 5 in the code
  MaxEntries,   \* bound on the entries
  None          \* no state, no request

ASSUME EngineAssumption ==
  /\ \A e \in Entries : e.tenant \in EngineTenants /\ e.second \in Int
  /\ \A f \in Filters : f.limit = Unset \/ f.limit \in Int
  /\ \A c \in Callers : c.tenant \in EngineTenants /\ c.admin \in BOOLEAN
  /\ {MaxClusters, DefaultPatterns, SummaryPatterns} \subseteq Nat \ {0}
  /\ MaxWindow \in Nat \ {0} /\ MaxEntries \in Nat /\ HeatCutoff \in Int
  /\ Ingesters \cap Readers = {}
  /\ None \notin (Ingesters \cup Readers) \X EngineTenants

VARIABLES
  tenants,  \* Engine.tenants: tenant -> the state's name, <<creator, tenant>>
  states,   \* the tenantStates in existence, those that lost the race too
  at,       \* where each goroutine is
  task,     \* the entry it ingests, or the request it answers
  held,     \* the state it holds
  answer,   \* the last answer of each reader
  admitted  \* every entry Ingest has taken, in order

engineVars == <<tenants, states, at, task, held, answer, admitted>>

(* InitializeDrain3BySeverity: the severities with a miner of their own. *)
MinedSeverities == {"FATAL", "ERROR", "WARN", "INFO", "DEBUG", "TRACE", "UNKNOWN"}

newTenantState ==
  [window |-> <<>>, total |-> 0, severities |-> <<>>, attrs |-> <<>>, heat |-> <<>>,
   patterns |-> <<>>, bySeverity |-> [s \in MinedSeverities |-> <<>>],
   services |-> <<>>, streams |-> <<>>]

(* One more for each of the keys. *)
BumpAll(counts, keys) ==
  [k \in DOMAIN counts \cup keys |->
     (IF k \in DOMAIN counts THEN counts[k] ELSE 0) + (IF k \in keys THEN 1 ELSE 0)]

Bump(counts, key) == BumpAll(counts, {key})

(* updateStreamTracking: source and stream of an entry. *)
StreamOf(e) ==
  CASE Attribute(e, "namespace") # "" -> <<"k8s", Attribute(e, "namespace"), Attribute(e, "pod")>>
    [] Attribute(e, "namespace") = "" /\ "service.name" \in DOMAIN e.attrs -> <<"otlp", e.attrs["service.name"]>>
    [] OTHER -> IF "source_file" \in DOMAIN e.attrs THEN <<"file", e.attrs["source_file"]>> ELSE <<"stdin">>

(* The level of the heatmap that counts a severity. *)
HeatLevel(severity) ==
  CASE severity \in {"TRACE", "DEBUG", "INFO", "WARN", "ERROR", "FATAL", "CRITICAL"} -> severity
    [] severity = "WARNING" -> "WARN"
    [] OTHER -> "UNKNOWN"

(* updateHeatmapData: count, then prune what is six hours old. *)
HeatWith(heat, e) ==
  LET h == Bump(heat, <<e.second \div 60, HeatLevel(e.severity)>>)
  IN  Restrict(h, {cell \in DOMAIN h : cell[1] > HeatCutoff})

(* Drain3Manager.AddLogMessage: blank messages are skipped, and a miner     *)
(* that is full forgets a pattern for a new one, which one is up to the     *)
(* library.  Bodies of one pattern are one body here.                      *)
Mined(patterns, body) ==
  CASE body = Blank -> {patterns}
    [] body # Blank /\ (body \in DOMAIN patterns \/ Cardinality(DOMAIN patterns) < MaxClusters) ->
         {Bump(patterns, body)}
    [] OTHER -> {Bump(Restrict(patterns, DOMAIN patterns \ {old}), body) : old \in DOMAIN patterns}

MinedBySeverity(by, e) ==
  IF e.severity \in MinedSeverities
    THEN {[by EXCEPT ![e.severity] = m] : m \in Mined(by[e.severity], e.body)}
    ELSE {by}

(* tenantState.ingest, with what has become of the miners. *)
Ingested(st, e, patterns, by) ==
  LET w == Append(st.window, e)
  IN  [st EXCEPT
         !.window     = IF Len(w) > MaxWindow THEN Tail(w) ELSE w,
         !.total      = @ + 1,
         !.severities = Bump(@, e.severity),
         !.attrs      = BumpAll(@, {<<k, e.attrs[k]>> : k \in DOMAIN e.attrs}),
         !.heat       = HeatWith(@, e),
         !.patterns   = patterns,
         !.bySeverity = by,
         !.services   = IF getServiceName(e) = "unknown" THEN @ ELSE Bump(@, getServiceName(e)),
         !.streams    = Bump(@, StreamOf(e))]

Goes(g, place) == at' = [at EXCEPT ![g] = place]

(* g needs the state of t: stateFor under the read lock, and a fresh state  *)
(* to be inserted when there is none.                                      *)
FindState(g, t) ==
  /\ held' = [held EXCEPT ![g] = tenants[t]]
  /\ Goes(g, IF tenants[t] = None THEN "insert" ELSE "use")

(* Mutant: the second look is left out. *)
StateAfterInsert(g, t) == <<g, t>>

(* The state under the write lock: another one may have come first. *)
Existing(g, t) == IF tenants[t] # None THEN tenants[t] ELSE <<g, t>>

(* The rest of stateForRead and stateForWrite. *)
Insert(g) ==
  LET id == Existing(g, task[g].tenant) IN
  /\ at[g] = "insert"
  /\ tenants' = [tenants EXCEPT ![task[g].tenant] = id]
  /\ states' = [i \in DOMAIN states \cup {id} |-> IF i \in DOMAIN states THEN states[i] ELSE newTenantState]
  /\ held' = [held EXCEPT ![g] = id]
  /\ Goes(g, "use")
  /\ UNCHANGED <<task, answer, admitted>>

(* Ingest is called. *)
CallIngest(g) ==
  /\ at[g] = "idle"
  /\ Len(admitted) + Cardinality({i \in Ingesters : at[i] # "idle"}) < MaxEntries
  /\ \E e \in Entries : task' = [task EXCEPT ![g] = e] /\ FindState(g, e.tenant)
  /\ UNCHANGED <<tenants, states, answer, admitted>>

(* Its tenantState.ingest. *)
Admit(g) ==
  /\ at[g] = "use"
  /\ \E patterns \in Mined(states[held[g]].patterns, task[g].body),
        by \in MinedBySeverity(states[held[g]].bySeverity, task[g]) :
       states' = [states EXCEPT ![held[g]] = Ingested(@, task[g], patterns, by)]
  /\ admitted' = Append(admitted, task[g])
  /\ task' = [task EXCEPT ![g] = None]
  /\ held' = [held EXCEPT ![g] = None]
  /\ Goes(g, "idle")
  /\ UNCHANGED <<tenants, answer>>

-----------------------------------------------------------------------------
(* resolveTenant *)
resolveTenant(caller, requested) ==
  IF requested # Unset /\ caller.admin THEN requested ELSE caller.tenant

(* A request arrives and its handler looks the tenant up. *)
Ask(g) ==
  /\ at[g] = "idle"
  /\ \E caller \in Callers, requested \in EngineTenants \cup {Unset} :
       LET t == resolveTenant(caller, requested)
       IN  task' = [task EXCEPT ![g] = [caller |-> caller, tenant |-> t]] /\ FindState(g, t)
  /\ answer' = [answer EXCEPT ![g] = None]
  /\ UNCHANGED <<tenants, states, admitted>>

ValuesOf(st, keys) == {p[2] : p \in {p \in DOMAIN st.attrs : p[1] \in keys}}

(* insightsParams: what the dashboard may filter by. *)
InsightsParams(st) ==
  [hosts       |-> ValuesOf(st, {"host"}),
   services    |-> DOMAIN st.services,
   severities  |-> DOMAIN st.severities,
   environment |-> ValuesOf(st, {"environment", "env"}),
   pods        |-> ValuesOf(st, {"k8s.pod"}),
   namespaces  |-> ValuesOf(st, {"k8s.namespace"}),
   clusters    |-> ValuesOf(st, {"cluster"}),
   deployments |-> ValuesOf(st, {"k8s.deployment"}),
   total       |-> st.total,
   span        |-> IF st.window = <<>> THEN <<>> ELSE <<Head(st.window).second, Last(st.window).second>>]

PatternLimit(f) == IF f.limit # Unset /\ f.limit > 0 THEN f.limit ELSE DefaultPatterns

(* queryPatterns: the patterns of every severity that has some, or all. *)
PatternGroups(st, f) ==
  IF f.groupBy = "severity"
    THEN Restrict(st.bySeverity, {s \in MinedSeverities : st.bySeverity[s] # <<>>})
    ELSE [all |-> st.patterns]

Patterns(st, f) ==
  LET groups  == PatternGroups(st, f)
      tops(g) == TopsOf(groups[g], PatternLimit(f))
  IN  {lists \in [DOMAIN groups -> UNION {tops(g) : g \in DOMAIN groups}] :
         \A g \in DOMAIN groups : lists[g] \in tops(g)}

(* handleHeatmap hands on the counts of these levels, of the others (and    *)
(* the totals) nothing.                                                    *)
ShownLevels == {"FATAL", "ERROR", "WARN", "INFO", "DEBUG", "TRACE"}
Heatmap(heat) == Restrict(heat, {cell \in DOMAIN heat : cell[2] \in ShownLevels})

(* The answers that can be read off one look at a state. *)
Answers(kind, st, f) ==
  CASE kind = "logs"      -> {LogSamples(st.window, f)}
    [] kind = "severity"  -> {SeverityData(st.window, f)}
    [] kind = "sentiment" -> {SentimentData(st.window, f, 1)}
    [] kind = "heat text" -> {SentimentHeatmap(st.window, f)}
    [] kind = "classes"   -> Classes(st.window, f)
    [] kind = "series"    -> {SeverityTimeSeries(st.window, f)}
    [] kind = "anomalies" -> {Anomalies(st.window, f, RecentCutoff)}
    [] kind = "heatmap"   -> {Heatmap(st.heat)}
    [] kind = "patterns"  -> Patterns(st, f)
    [] kind = "streams"   -> {st.streams}
    [] kind = "params"    -> {InsightsParams(st)}

Kinds == {"logs", "severity", "sentiment", "heat text", "classes", "series", "anomalies",
          "heatmap", "patterns", "streams", "params"}

(* These endpoints ask for the caller's own tenant whatever was requested. *)
OwnOnly == {"heatmap", "streams", "attributes", "status"}

(* An unfiltered series is not computed from entries: AppLoop has it. *)
MayAsk(g, kind, f) ==
  /\ kind \in OwnOnly => task[g].tenant = task[g].caller.tenant
  /\ kind = "series" => SeriesIsFiltered(f)

Reply(g, reply) ==
  /\ answer' = [answer EXCEPT ![g] = reply]
  /\ Goes(g, "idle")
  /\ UNCHANGED <<tenants, states, task, held, admitted>>

Answer(g) ==
  /\ at[g] = "use"
  /\ \E kind \in Kinds, f \in Filters :
       /\ MayAsk(g, kind, f)
       /\ \E value \in Answers(kind, states[held[g]], f) :
            Reply(g, [kind |-> kind, filter |-> f, value |-> value])

Most(counts) == IF DOMAIN counts = {} THEN 0 ELSE Max({counts[k] : k \in DOMAIN counts})

(* What each look reads: /api/top-attributes the counts and then the total  *)
(* they are shares of, /api/status the total and then the streams, and      *)
(* /api/summary the entries and then, unlocked, the patterns.               *)
FirstRead(kind, st, f) ==
  CASE kind = "attributes" -> Most(st.attrs)
    [] kind = "status"     -> st.total
    [] kind = "summary"    -> Len(filterEntries(st.window, f))

SecondReads(kind, st) ==
  CASE kind = "attributes" -> {st.total}
    [] kind = "status"     -> {SumOf(st.streams)}
    [] kind = "summary"    -> TopsOf(st.patterns, SummaryPatterns)

FirstLook(g) ==
  /\ at[g] = "use"
  /\ \E kind \in {"attributes", "status", "summary"}, f \in Filters :
       /\ MayAsk(g, kind, f)
       /\ answer' = [answer EXCEPT ![g] =
            [kind |-> kind, first |-> FirstRead(kind, states[held[g]], f)]]
  /\ Goes(g, "second")
  /\ UNCHANGED <<tenants, states, task, held, admitted>>

SecondLook(g) ==
  LET a == answer[g] IN
  /\ at[g] = "second"
  /\ \E second \in SecondReads(a.kind, states[held[g]]) :
       Reply(g, [kind |-> a.kind, first |-> a.first, second |-> second])

-----------------------------------------------------------------------------
EngineInit ==
  /\ tenants = [t \in EngineTenants |-> None]
  /\ states = <<>>
  /\ at = [g \in Ingesters \cup Readers |-> "idle"]
  /\ task = [g \in Ingesters \cup Readers |-> None]
  /\ held = [g \in Ingesters \cup Readers |-> None]
  /\ answer = [g \in Readers |-> None]
  /\ admitted = <<>>

EngineNext ==
  \/ \E g \in Ingesters : CallIngest(g) \/ Insert(g) \/ Admit(g)
  \/ \E g \in Readers : Ask(g) \/ Insert(g) \/ Answer(g) \/ FirstLook(g) \/ SecondLook(g)

-----------------------------------------------------------------------------
Own(t)      == Picked(admitted, {e \in Entries : e.tenant = t})
Latest(s)   == SubSeq(s, IF Len(s) > MaxWindow THEN Len(s) - MaxWindow + 1 ELSE 1, Len(s))
Retained(t) == Latest(Own(t))

Matching(t, f) == {i \in DOMAIN Retained(t) : Matches(Retained(t)[i], f)}

Totals(groups) == SumOf([g \in DOMAIN groups |-> SumOf(groups[g])])

(* How many entries an answer accounts for, and how many there are. *)
Accounted(a) ==
  CASE a.kind = "logs" -> Len(a.value)
    [] a.kind \in {"severity", "series"} -> Totals(a.value)
    [] a.kind = "sentiment" -> SumOf([c \in DOMAIN a.value |-> a.value[c].entries])
    [] OTHER -> SumOf(a.value)

OwnEntries(t) == {i \in DOMAIN admitted : admitted[i].tenant = t}

OnHeatmap(e) == e.second \div 60 > HeatCutoff /\ HeatLevel(e.severity) \in ShownLevels

Expected(a, t) ==
  CASE a.kind = "streams" -> Cardinality(OwnEntries(t))
    [] a.kind = "heatmap" -> Cardinality({i \in OwnEntries(t) : OnHeatmap(admitted[i])})
    [] a.kind = "logs" -> Limit(a.filter, Cardinality(Matching(t, a.filter)))
    [] OTHER -> Cardinality(Matching(t, a.filter))

Countable(a) ==
  /\ a.kind \notin {"heat text", "anomalies", "params", "patterns"}
  /\ a.kind = "classes" => a.filter.limit = Unset

(* A list of n patterns of tenant t's entries, or of those of one severity: *)
(* it accounts for no entry twice, and for each that has a text unless the  *)
(* list, or the miner, is full.                                            *)
ListExact(list, n, t, group) ==
  LET mined == {i \in OwnEntries(t) : /\ admitted[i].body # Blank
                                      /\ group = "all" \/ admitted[i].severity = group}
  IN  /\ SumOf(list) <= Cardinality(mined)
      /\ Cardinality(DOMAIN list) < n /\ Cardinality(DOMAIN list) < MaxClusters =>
           SumOf(list) = Cardinality(mined)

PatternsExact(lists, f, t) ==
  /\ \A group \in DOMAIN lists : ListExact(lists[group], PatternLimit(f), t, group)
  /\ f.groupBy = "severity" =>
       \A i \in OwnEntries(t) :
         admitted[i].body # Blank /\ admitted[i].severity \in MinedSeverities =>
           admitted[i].severity \in DOMAIN lists

(* What holds of an answer a that g gives: it is about a tenant the caller  *)
(* may see, and agrees with what was admitted for that tenant.              *)
AnswerExact(g, a) ==
  LET t == task[g].tenant IN
  /\ task[g].caller.admin \/ t = task[g].caller.tenant
  /\ "value" \in DOMAIN a /\ Countable(a) => Accounted(a) = Expected(a, t)
  /\ "value" \in DOMAIN a /\ a.kind = "patterns" => PatternsExact(a.value, a.filter, t)
  /\ "value" \in DOMAIN a /\ a.kind = "params" =>
       \A i \in DOMAIN Retained(t) : getServiceName(Retained(t)[i]) \in a.value.services \cup {"unknown"}
  /\ "second" \in DOMAIN a /\ a.kind # "summary" => a.first <= a.second
  /\ "second" \in DOMAIN a /\ a.kind = "summary" =>
       a.first <= Cardinality(OwnEntries(t)) /\ ListExact(a.second, SummaryPatterns, t, "all")

(* Every answer accounts for exactly the entries admitted for the caller's  *)
(* tenant that the window retains and the filter matches, at the moment it  *)
(* is given: none is missed because two goroutines created the tenant at    *)
(* once, none is counted twice or lost between groups, none is another      *)
(* tenant's.  The heatmap accounts for the entries of the levels it shows   *)
(* (the API hands on six of eight), and a list of patterns for no more than *)
(* the entries with a text and for all of them while neither it nor the     *)
(* miner is full.  Every retained entry can be asked for by its service.    *)
(* And what is read in two looks adds up: no attribute is in more than all  *)
(* records, and the streams cover the total.                                *)
AnswersExact ==
  [][\A g \in Readers : answer'[g] # answer[g] /\ answer'[g] # None => AnswerExact(g, answer'[g])]_engineVars
=============================================================================
