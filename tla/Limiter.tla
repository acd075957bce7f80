-------------------------------- MODULE Limiter --------------------------------
(***************************************************************************)
(* The per-tenant quota limiter (internal/security/quota.go): CheckRequest *)
(* run by concurrent request goroutines over lazily created, shared tenant *)
(* state.  The message size, the request rate, the log rate and the series *)
(* cardinality are checked in this order, each under a lock of its own, so *)
(* other requests of the tenant come in between; tokens taken by an        *)
(* earlier check are not given back when a later one denies.  A denial is  *)
(* entered in the reject log before CheckRequest returns, by checkSeries   *)
(* while it still holds the tenant's seriesMu.                             *)
(*                                                                         *)
(* rate.Limiter is the token bucket of golang.org/x/time/rate: it starts   *)
(* full, AllowN(n) takes n tokens or none, and a unit of time adds Rate    *)
(* tokens up to the burst.                                                 *)
(***************************************************************************)
EXTENDS RejectLog

CONSTANTS
  Requests,    \* request goroutines; each handles one export after the other
  TenantOf,    \* the authenticated tenant of each goroutine
  Batches,     \* the exports: [tooBig: BOOLEAN, logs: Nat, keys: SUBSET series keys]
  RequestBurst, RequestRate, LogBurst, LogRate,
  MaxSeries, SeriesTTL,
  MaxTime,     \* bound on the clock
  MaxDenials,  \* bound on the denials
  Absent       \* no tenantLimit, no export

(* The quotas a denial can name.                                            *)
QuotaReasons == {"message_size", "request_rate", "log_rate", "series_cardinality"}

ASSUME LimiterAssumption ==
  /\ QuotaReasons \subseteq Reasons
  /\ TenantOf \in [Requests -> Tenants]
  /\ Absent \notin Requests
  /\ {RequestBurst, RequestRate, LogBurst, LogRate, MaxSeries, SeriesTTL, MaxTime, MaxDenials} \subseteq Nat
  /\ \A b \in Batches : b.tooBig \in BOOLEAN /\ b.logs \in Nat /\ IsFiniteSet(b.keys)

VARIABLES
  now,        \* time.Now()
  limits,     \* Limiter.tenants: the tenantLimit of each tenant, named by its creator
  buckets,    \* reqLimiter and logLimiter of each tenantLimit
  series,     \* tenantLimit.series: series key -> last seen
  lastSweep,  \* tenantLimit.lastSweep
  pc,         \* where each request goroutine stands
  batch,      \* the export it handles
  lim,        \* the tenantLimit it works with
  denial,     \* the reason a denial is about to be recorded with
  granted     \* requests and logs that passed the rate checks, per tenant

requestVars == <<pc, batch, lim, denial>>
limiterVars == <<now, limits, buckets, series, lastSweep, requestVars, granted, rejectVars>>

FullBuckets == [requests |-> RequestBurst, logs |-> LogBurst]

Refilled(tokens, rate, burst) == IF tokens + rate > burst THEN burst ELSE tokens + rate

(* Mutant: off by one. *)
AllowsOneMore(tokens, n) == n <= tokens + 1

Allows(tokens, n) == n <= tokens

Goto(r, label) == pc' = [pc EXCEPT ![r] = label]

(* CheckRequest returns; the goroutine keeps nothing of the call. *)
ReturnFromCheck(r) ==
  /\ batch' = [batch EXCEPT ![r] = Absent]
  /\ lim' = [lim EXCEPT ![r] = Absent]
  /\ denial' = [denial EXCEPT ![r] = "none"]
  /\ Goto(r, "idle")

(* The check fails; the denial is recorded next. *)
Deny(r, reason) ==
  /\ denial' = [denial EXCEPT ![r] = reason]
  /\ Goto(r, "record")
  /\ UNCHANGED <<batch, lim>>

(* The check passes and the next one follows. *)
Continue(r, label) == Goto(r, label) /\ UNCHANGED <<batch, lim, denial>>

-----------------------------------------------------------------------------
(* Time passes; the buckets fill. *)
Tick ==
  /\ now < MaxTime
  /\ now' = now + 1
  /\ buckets' = [l \in Requests |->
       [requests |-> Refilled(buckets[l].requests, RequestRate, RequestBurst),
        logs     |-> Refilled(buckets[l].logs, LogRate, LogBurst)]]
  /\ UNCHANGED <<limits, series, lastSweep, requestVars, granted, rejectVars>>

(* A request arrives and looks its tenant up under the read lock. *)
Lookup(r) ==
  /\ pc[r] = "idle"
  /\ total + Cardinality({q \in Requests : pc[q] # "idle"}) < MaxDenials
  /\ \E b \in Batches : batch' = [batch EXCEPT ![r] = b]
  /\ lim' = [lim EXCEPT ![r] = limits[TenantOf[r]]]
  /\ Goto(r, IF limits[TenantOf[r]] = Absent THEN "create" ELSE "size")
  /\ UNCHANGED <<now, limits, buckets, series, lastSweep, denial, granted, rejectVars>>

(* Mutant: no second look. *)
InstalledOwn(r) == r

(* The tenantLimit r works with after the second look under the write lock: *)
(* the one another goroutine installed meanwhile, else its own.             *)
Installed(r) == IF limits[TenantOf[r]] # Absent THEN limits[TenantOf[r]] ELSE r

(* A fresh tenantLimit is built, and installed unless there is one by now. *)
Create(r) ==
  /\ pc[r] = "create"
  /\ lim' = [lim EXCEPT ![r] = Installed(r)]
  /\ IF Installed(r) = r
       THEN /\ limits' = [limits EXCEPT ![TenantOf[r]] = r]
            /\ buckets' = [buckets EXCEPT ![r] = FullBuckets]
            /\ series' = [series EXCEPT ![r] = <<>>]
            /\ lastSweep' = [lastSweep EXCEPT ![r] = -SeriesTTL - 1]
       ELSE UNCHANGED <<limits, buckets, series, lastSweep>>
  /\ Goto(r, "size")
  /\ UNCHANGED <<now, batch, denial, granted, rejectVars>>

(* msgBytes > MaxMessageBytes *)
CheckSize(r) ==
  /\ pc[r] = "size"
  /\ IF batch[r].tooBig
       THEN Deny(r, "message_size")
       ELSE Continue(r, "request")
  /\ UNCHANGED <<now, limits, buckets, series, lastSweep, granted, rejectVars>>

(* reqLimiter.Allow() *)
CheckRequestRate(r) ==
  /\ pc[r] = "request"
  /\ IF Allows(buckets[lim[r]].requests, 1)
       THEN /\ buckets' = [buckets EXCEPT ![lim[r]].requests = @ - 1]
            /\ granted' = [granted EXCEPT ![TenantOf[r]].requests = @ + 1]
            /\ Continue(r, "logs")
       ELSE /\ Deny(r, "request_rate")
            /\ UNCHANGED <<buckets, granted>>
  /\ UNCHANGED <<now, limits, series, lastSweep, rejectVars>>

(* nLogs > 0 && !logLimiter.AllowN(now, nLogs) *)
CheckLogRate(r) ==
  LET n == batch[r].logs IN
  /\ pc[r] = "logs"
  /\ IF Allows(buckets[lim[r]].logs, n)
       THEN /\ buckets' = [buckets EXCEPT ![lim[r]].logs = @ - n]
            /\ granted' = [granted EXCEPT ![TenantOf[r]].logs = @ + n]
            /\ Continue(r, "series")
       ELSE /\ Deny(r, "log_rate")
            /\ UNCHANGED <<buckets, granted>>
  /\ UNCHANGED <<now, limits, series, lastSweep, rejectVars>>

(* A sweep is due when the last one is more than the TTL ago. *)
SweepDue(l) == now - lastSweep[l] > SeriesTTL

Expired(l, k) == now - series[l][k] > SeriesTTL

(* The keys still tracked when checkSeries has swept, if it had to. *)
Kept(l) == {k \in DOMAIN series[l] : ~(SweepDue(l) /\ Expired(l, k))}

NewKeys(r) == batch[r].keys \ Kept(lim[r])

(* Mutant: off by one. *)
OverCardinalityByTwo(r) == Cardinality(Kept(lim[r])) + Cardinality(NewKeys(r)) > MaxSeries + 1

OverCardinality(r) == Cardinality(Kept(lim[r])) + Cardinality(NewKeys(r)) > MaxSeries

(* Mutant: the series are written before the limit is checked. *)
TrackedAnyway(r) == batch[r].keys

(* The keys stamped with the time of the check: none when it denies. *)
Tracked(r) == IF OverCardinality(r) THEN {} ELSE batch[r].keys

(* seriesMu is held over the sweep, the count and the record of a denial. *)
SeriesMuFree(l) ==
  \A q \in Requests : ~(lim[q] = l /\ pc[q] = "record" /\ denial[q] = "series_cardinality")

(* checkSeries up to its verdict. *)
CheckSeries(r) ==
  LET l == lim[r] IN
  /\ pc[r] = "series"
  /\ batch[r].keys # {}
  /\ SeriesMuFree(l)
  /\ series' = [series EXCEPT ![l] =
       [k \in Kept(l) \cup Tracked(r) |-> IF k \in Tracked(r) THEN now ELSE series[l][k]]]
  /\ lastSweep' = [lastSweep EXCEPT ![l] = IF SweepDue(l) THEN now ELSE @]
  /\ IF OverCardinality(r) THEN Deny(r, "series_cardinality") ELSE ReturnFromCheck(r)
  /\ UNCHANGED <<now, limits, buckets, granted, rejectVars>>

(* An export without series keys skips the check. *)
SkipSeries(r) ==
  /\ pc[r] = "series"
  /\ batch[r].keys = {}
  /\ ReturnFromCheck(r)
  /\ UNCHANGED <<now, limits, buckets, series, lastSweep, granted, rejectVars>>

(* The denial is entered in the reject log and returned. *)
RecordDenial(r) ==
  /\ pc[r] = "record"
  /\ Record([tenant |-> TenantOf[r], reason |-> denial[r]])
  /\ ReturnFromCheck(r)
  /\ UNCHANGED <<now, limits, buckets, series, lastSweep, granted>>

-----------------------------------------------------------------------------
LimiterInit ==
  /\ now = 0
  /\ limits = [t \in Tenants |-> Absent]
  /\ buckets = [l \in Requests |-> FullBuckets]
  /\ series = [l \in Requests |-> <<>>]
  /\ lastSweep = [l \in Requests |-> -SeriesTTL - 1]
  /\ pc = [r \in Requests |-> "idle"]
  /\ batch = [r \in Requests |-> Absent]
  /\ lim = [r \in Requests |-> Absent]
  /\ denial = [r \in Requests |-> "none"]
  /\ granted = [t \in Tenants |-> [requests |-> 0, logs |-> 0]]
  /\ RejectInit

Check(r) ==
  Lookup(r) \/ Create(r) \/ CheckSize(r) \/ CheckRequestRate(r) \/ CheckLogRate(r)
    \/ CheckSeries(r) \/ SkipSeries(r) \/ RecordDenial(r)

LimiterNext == Tick \/ \E r \in Requests : Check(r)

LimiterSpec == LimiterInit /\ [][LimiterNext]_limiterVars

-----------------------------------------------------------------------------
InUse(r) == pc[r] \notin {"idle", "create"}

(* Two first requests of a tenant that race in tenant() end up with the     *)
(* same state: no goroutine ever checks against a tenantLimit that is not   *)
(* the installed one, which would double the quotas and split the queue.    *)
OneLimitPerTenant ==
  \A r \in Requests : InUse(r) => lim[r] = limits[TenantOf[r]]

(* However requests interleave, a tenant gets no more through the rate      *)
(* checks than its burst and what the elapsed time refilled.                *)
RateConformance ==
  \A t \in Tenants :
    /\ granted[t].requests <= RequestBurst + RequestRate * now
    /\ granted[t].logs <= LogBurst + LogRate * now

(* The tracker never holds more series than the tenant's limit.             *)
SeriesBounded == \A l \in Requests : Cardinality(DOMAIN series[l]) <= MaxSeries

(* A series that was admitted counts as known for a whole TTL: no step      *)
(* forgets a series that was seen within the last TTL.  And a denied export *)
(* leaves no series behind: what a denial changes in the tracker is at most *)
(* the sweep.                                                               *)
SeriesTracked ==
  /\ [][\A l \in Requests : \A k \in DOMAIN series[l] :
          ~Expired(l, k) => k \in DOMAIN series'[l]]_limiterVars
  /\ [][\A r \in Requests :
          pc[r] = "series" /\ pc'[r] = "record"
            => \A k \in DOMAIN series'[lim[r]] :
                 k \in DOMAIN series[lim[r]] /\ series'[lim[r]][k] = series[lim[r]][k]]_limiterVars
=============================================================================
