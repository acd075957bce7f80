-------------------------------- MODULE Queries --------------------------------
(***************************************************************************)
(* What the engine computes for the dashboard's queries                    *)
(* (internal/engine/queries.go): filtering, grouping and the reports, as   *)
(* operators over a window of entries.                                     *)
(*                                                                         *)
(* An entry is [tenant, severity, body, second, attrs]: attrs maps the     *)
(* attribute keys that are set to their values, second is the time the     *)
(* engine goes by.  A filter is [start, end, severity, search, only,       *)
(* limit, groupBy], where Unset stands for a field that is not set, only    *)
(* maps dimensions to the values asked for.  Severities are spelled as     *)
(* the entries spell them.                                                 *)
(***************************************************************************)
EXTENDS Loops, FiniteSets, SequencesExt

CONSTANTS
  Unset,          \* a filter field that is not set
  SpikeErrors,    \* errors a spike takes: 5 in the code
  SentimentSample \* records a service is judged by: 10 in the code

ASSUME QueriesAssumption == SpikeErrors \in Nat /\ SentimentSample \in Nat

(* The attribute keys that tell a dimension, the first one set decides. *)
AttributeKeys ==
  [namespace   |-> <<"k8s.namespace">>,
   pod         |-> <<"k8s.pod">>,
   deployment  |-> <<"k8s.deployment">>,
   host        |-> <<"host">>,
   environment |-> <<"environment", "env">>,
   cluster     |-> <<"cluster">>,
   service     |-> <<"service", "service.name", "serviceName", "app", "application">>]

Attribute(e, dim) ==
  LET set == SelectSeq(AttributeKeys[dim], LAMBDA key : key \in DOMAIN e.attrs)
  IN  IF set = <<>> THEN "" ELSE e.attrs[Head(set)]

getServiceName(e) ==
  CASE Attribute(e, "service") # "" -> Attribute(e, "service")
    [] Attribute(e, "service") = "" /\ Attribute(e, "host") # "" -> "host:" \o Attribute(e, "host")
    [] OTHER -> "unknown"

DefaultGroup(dim) == IF dim \in {"namespace", "environment", "cluster"} THEN "default" ELSE "unknown"

getGroupValue(e, by) ==
  CASE by \in {"severity", "category"} -> e.severity
    [] by \in DOMAIN AttributeKeys \ {"service"} ->
         IF Attribute(e, by) # "" THEN Attribute(e, by) ELSE DefaultGroup(by)
    [] OTHER -> getServiceName(e)

matchesDimensionFilter(e, f) ==
  \A dim \in DOMAIN f.only : f.only[dim] # {} =>
    (IF dim = "service" THEN getServiceName(e) ELSE Attribute(e, dim)) \in f.only[dim]

Matches(e, f) ==
  /\ f.start = Unset \/ e.second >= f.start
  /\ f.end = Unset \/ e.second <= f.end
  /\ f.severity = Unset \/ e.severity = f.severity
  /\ f.search = Unset \/ e.body = f.search \/ \E key \in DOMAIN e.attrs : e.attrs[key] = f.search
  /\ matchesDimensionFilter(e, f)

filterEntries(window, f) == Picked(window, {e \in ToSet(window) : Matches(e, f)})

-----------------------------------------------------------------------------
(* How often each of the keys occurs in a sequence of them. *)
CountBy(keys) == [k \in Range(keys) |-> Cardinality({i \in DOMAIN keys : keys[i] = k})]

(* Their sum: how many things were counted. *)
SumOf(counts) == Cardinality(UNION {{k} \X (1..counts[k]) : k \in DOMAIN counts})

(* The entries of s by the group each of them is in. *)
Split(s, group) ==
  [g \in {group[e] : e \in ToSet(s)} |-> Picked(s, {e \in ToSet(s) : group[e] = g})]

Severities(s) == [i \in DOMAIN s |-> s[i].severity]

Limit(f, n) == IF f.limit # Unset /\ f.limit > 0 /\ f.limit < n THEN f.limit ELSE n

(* What may be left of counts after sorting and cutting to n of them. Ties  *)
(* come in any order.                                                      *)
TopsOf(counts, n) ==
  {Restrict(counts, S) : S \in {S \in SUBSET DOMAIN counts :
     /\ Cardinality(S) = (IF n < Cardinality(DOMAIN counts) THEN n ELSE Cardinality(DOMAIN counts))
     /\ \A k \in S, out \in DOMAIN counts \ S : counts[k] >= counts[out]}}

CutsOf(counts, f) == TopsOf(counts, Limit(f, Cardinality(DOMAIN counts)))

(* queryLogSamples: the latest entries that match, oldest first. *)
LogSamples(window, f) ==
  LET s == filterEntries(window, f)
  IN  SubSeq(s, Len(s) - Limit(f, Len(s)) + 1, Len(s))

(* Each group's counts by severity. *)
SeverityCounts(groups) == [g \in DOMAIN groups |-> CountBy(Severities(groups[g]))]

(* querySeverityData: groups are services unless the filter says otherwise. *)
SeverityData(window, f) ==
  LET s == filterEntries(window, f)
  IN  SeverityCounts(Split(s, [e \in ToSet(s) |-> getGroupValue(e, f.groupBy)]))

(* querySeverityTimeSeries computes from the entries only when the filter   *)
(* has one of these; otherwise it copies what the program recorded for each *)
(* interval.                                                                *)
SeriesIsFiltered(f) == \E field \in {"search", "severity", "start", "end"} : f[field] # Unset

SeverityTimeSeries(window, f) ==
  LET s == filterEntries(window, f) IN SeverityCounts(Split(s, [e \in ToSet(s) |-> e.second]))

(* queryClasses *)
Classes(window, f) == CutsOf(CountBy(Severities(filterEntries(window, f))), f)

-----------------------------------------------------------------------------
(* Sentiments in tenths. *)
severityToSentiment(severity) ==
  CASE severity \in {"FATAL", "CRITICAL"} -> -10
    [] severity = "ERROR" -> -6
    [] severity = "INFO"  -> 5
    [] severity = "DEBUG" -> 7
    [] severity = "TRACE" -> 9
    [] OTHER -> 0

SentimentOf(s) == FoldLeft(LAMBDA sum, e : sum + severityToSentiment(e.severity), 0, s)

(* querySentimentData and the cells of sentimentHeatmap, whose buckets are  *)
(* seconds or minutes.  The mean is sum / entries.                          *)
SentimentData(window, f, seconds) ==
  LET s == filterEntries(window, f)
      cells == Split(s, [e \in ToSet(s) |-> <<e.second \div seconds, getGroupValue(e, f.groupBy)>>])
  IN  [b \in DOMAIN cells |-> [entries |-> Len(cells[b]), sum |-> SentimentOf(cells[b])]]

sentimentToChar(cell) ==
  CASE cell.sum > 3 * cell.entries  -> "+"
    [] cell.sum < -3 * cell.entries -> "-"
    [] OTHER -> "."

SentimentHeatmap(window, f) ==
  LET cells == SentimentData(window, f, 60) IN [c \in DOMAIN cells |-> sentimentToChar(cells[c])]

-----------------------------------------------------------------------------
Fatals(s) == Len(SelectSeq(s, LAMBDA e : e.severity \in {"FATAL", "CRITICAL"}))
Errors(s) == Len(SelectSeq(s, LAMBDA e : e.severity = "ERROR"))

(* The last minutes hold more than twice their share of errors. *)
Spike(s, since) ==
  LET recent == SelectSeq(s, LAMBDA e : e.second > since)
      bad    == Fatals(recent) + Errors(recent)
  IN  /\ bad > SpikeErrors
      /\ bad * Len(s) > 2 * (Fatals(s) + Errors(s)) * Len(recent)

(* Services with enough records, in a bad mood on average. *)
GrimServices(s) ==
  {svc \in {getServiceName(s[i]) : i \in DOMAIN s} \ {"unknown"} :
     LET of == SelectSeq(s, LAMBDA e : getServiceName(e) = svc)
     IN  Len(of) >= SentimentSample /\ SentimentOf(of) < -3 * Len(of)}

(* The sections of the anomaly report. since is five minutes ago. *)
Anomalies(window, f, since) ==
  LET s == filterEntries(window, f)
  IN  [fatal |-> Fatals(s) > 0,
       rate  |-> 10 * Errors(s) > Len(s),
       spike |-> Spike(s, since),
       grim  |-> GrimServices(s)]
=============================================================================
