------------------------- MODULE SchedulerProperties -------------------------
(* What the scheduler must guarantee: the properties of module Scheduler.  *)
EXTENDS Scheduler

(* Every variable has its type; channels keep their capacity, and the      *)
(* dispatcher's cursor stays inside the round it copied.                   *)
TypeOK ==
  /\ tenants \in Seq(Tenants)
  /\ queue \in [Tenants -> Seq(Exports)]
  /\ \A t \in Tenants : Len(queue[t]) <= QueueDepth
  /\ jobs \in Seq(Exports)
  /\ Len(jobs) <= Cardinality(Workers)
  /\ kick \in BOOLEAN
  /\ cancelled \in BOOLEAN
  /\ req \in [Exports -> {"idle", "register", "enqueue", "kick", "waiting", "returned"}]
  /\ result \in [Exports -> Replies \cup {"none", "context_done"}]
  /\ reply \in [Exports -> Replies \cup {"none"}]
  /\ dpc \in {"start", "pop", "push", "requeue", "wait", "exited"}
  /\ round \in Seq(Tenants)
  /\ rotation \in Nat
  /\ pos \in Nat
  /\ dpc \in {"pop", "push", "requeue"} => pos < Len(round) /\ rotation < Len(round)
  /\ worked \in BOOLEAN
  /\ held \in Exports \cup {NoExport}
  /\ held # NoExport <=> dpc \in {"push", "requeue"}
  /\ wpc \in [Workers -> {"idle", "sink", "reply", "exited"}]
  /\ wjob \in [Workers -> Exports \cup {NoExport}]
  /\ \A w \in Workers : wjob[w] # NoExport <=> wpc[w] \in {"sink", "reply"}
  /\ calls \in [Exports -> Nat]
  /\ verdict \in [Exports -> Verdicts \cup {"none"}]
  /\ ledger \in SUBSET (Exports \X Reasons)

(* Where an accepted export may be.                                        *)
InQueue(t, e) == {<<"queue", t, i>> : i \in {k \in DOMAIN queue[t] : queue[t][k] = e}}
InJobs(e)     == {<<"jobs", i>> : i \in {k \in DOMAIN jobs : jobs[k] = e}}
InWorkers(e)  == {<<"worker", w>> : w \in {v \in Workers : wjob[v] = e}}
InHand(e)     == IF held = e THEN {<<"dispatcher">>} ELSE {}
Answered(e)   == IF reply[e] # "none" THEN {<<"answered">>} ELSE {}

Holders(e) ==
  (UNION {InQueue(t, e) : t \in Tenants})
    \cup InJobs(e) \cup InWorkers(e) \cup InHand(e) \cup Answered(e)

Awaiting(e) == req[e] \in {"kick", "waiting"}

(* An accepted export is in exactly one place: one queue slot, the         *)
(* dispatcher's hand, one slot of jobs, one worker, or answered.  It is    *)
(* never duplicated, and never lost while the scheduler runs, whatever     *)
(* the pop, push and push-back of the dispatcher interleave with.          *)
ExactlyOneHolder ==
  \A e \in Exports : Awaiting(e) =>
    \/ \E h \in Holders(e) : Holders(e) = {h}
    \/ Holders(e) = {} /\ cancelled

(* No job is converted twice, and an exporter is told ok only when the     *)
(* sink took its export without error.                                     *)
AckedOnlyIfIngested ==
  \A e \in Exports :
    /\ calls[e] <= 1
    /\ result[e] = "ok" \/ reply[e] = "ok" => calls[e] = 1 /\ verdict[e] = "ok"

(* An export refused with parse_queue_full, by Submit or by the            *)
(* dispatcher, was never given to the sink and never will be: the          *)
(* exporter's retry of it cannot duplicate records.                        *)
RefusedNeverIngested ==
  \A e \in Exports :
    result[e] = "parse_queue_full" \/ reply[e] = "parse_queue_full"
      => calls[e] = 0 /\ Gone(e)

(* Only the tenant's own backlog costs it an export: whenever an export    *)
(* becomes refused, its tenant's queue is full of exports of that tenant.  *)
FullOfOwn(t) ==
  Len(queue[t]) = QueueDepth /\ \A i \in DOMAIN queue[t] : TenantOf[queue[t][i]] = t

BecomesRefused(e) ==
  \/ result[e] = "none" /\ reply[e] = "none" /\ result'[e] = "parse_queue_full"
  \/ reply[e] = "none" /\ reply'[e] = "parse_queue_full"

RefusedOnlyByOwnBacklog ==
  [][\A e \in Exports : BecomesRefused(e) => FullOfOwn(TenantOf[e])]_vars

(* What the reject log says and what the exporter was told agree: an       *)
(* export that was acknowledged has no reject entry, and a sink error the  *)
(* exporter was told of is in the log with its reason.                     *)
LedgerAgrees ==
  \A e \in Exports :
    /\ result[e] = "ok" => \A r \in Reasons : <<e, r>> \notin ledger
    /\ result[e] \in SinkErrors => <<e, result[e]>> \in ledger

(* The outcome of an export, and the answer to it, in the contract's terms. *)
StateOf(e) ==
  CASE req[e] = "idle" -> "idle"
    [] req[e] \in {"register", "enqueue"} -> "offered"
    [] result[e] = "parse_queue_full" \/ reply[e] = "parse_queue_full" -> "refused"
    [] verdict[e] = "ok" -> "stored"
    [] verdict[e] \in SinkErrors -> "failed"
    [] calls[e] > 0 /\ verdict[e] = "none" -> "ingesting"
    [] OTHER -> "accepted"

AnswerOf(r) ==
  CASE r = "ok" -> "stored"
    [] r \in SinkErrors -> "failed"
    [] r = "parse_queue_full" -> "refused"
    [] OTHER -> r

Contract == INSTANCE ExportContract WITH
  state <- [e \in Exports |-> StateOf(e)],
  answer <- [e \in Exports |-> AnswerOf(result[e])]

(* Queues, dispatcher and workers together do to an export only what the   *)
(* contract with its exporter allows, through every interleaving: no       *)
(* second ingestion, no change of outcome, no answer but the outcome.      *)
ImplementsContract == Contract!Spec

(* While the scheduler is not stopped, every accepted export is answered   *)
(* (or its request ended first), when exporters send finite bursts.        *)
AcceptedAreAnswered ==
  \A e \in Exports : Awaiting(e) ~> (~Awaiting(e) \/ cancelled)

(* What dispatch's comment promises ("rotating the start position so no    *)
(* tenant is permanently favored"): a tenant with a backlog gets a job to  *)
(* the workers, however fast the exporters of other tenants send.          *)
Backlog(t) == queue[t] # <<>> \/ (held # NoExport /\ TenantOf[held] = t)
Handed(t)  == \E i \in DOMAIN jobs : TenantOf[jobs[i]] = t

NoTenantFavored ==
  \A t \in Tenants : Backlog(t) ~> (Handed(t) \/ ~Backlog(t) \/ cancelled)

(* After cancel every goroutine of the scheduler exits (Scheduler.Wait).   *)
CancelStopsAll ==
  cancelled ~> (dpc = "exited" /\ \A w \in Workers : wpc[w] = "exited")
=============================================================================
