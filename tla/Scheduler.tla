------------------------------ MODULE Scheduler ------------------------------
(***************************************************************************)
(* The fair ingest scheduler (internal/security/scheduler.go) and the      *)
(* request goroutines that wait on it (admitRequest, receiver.go).         *)
(*                                                                         *)
(* An export that passed the limiter is put in its tenant's bounded queue  *)
(* by the request goroutine; one dispatcher goroutine moves exports from   *)
(* the tenant queues to the bounded channel `jobs`, one per tenant and     *)
(* round; worker goroutines take them from there, call the sink and answer *)
(* on the export's one-slot reply channel.  Every channel operation and    *)
(* every critical section is one step, so that a request goroutine may run *)
(* between any two operations of the dispatcher.                           *)
(*                                                                         *)
(* An element of Exports is the slot of one exporter: it has at most one   *)
(* export in flight.  The exporters in Repeating send the next export once *)
(* the last one is gone, the others send one.                              *)
(***************************************************************************)
EXTENDS Naturals, Sequences, FiniteSets

CONSTANTS
  Tenants,     \* tenant names, each the rank of its name in sort.Strings order
  Exports,     \* exporter slots: one IngestJob in flight each
  Repeating,   \* the slots whose exporter keeps sending
  Workers,     \* the worker goroutines
  QueueDepth,  \* capacity of a tenant's parse queue
  TenantOf,    \* the authenticated tenant of each slot
  SinkErrors,  \* the reasons the sink fails with: storage_quota, sink_error
  NoExport     \* no IngestJob

ASSUME TenantsAreRanks == Tenants \subseteq Nat
ASSUME TenantOfType    == TenantOf \in [Exports -> Tenants]
ASSUME WorkersFinite   == IsFiniteSet(Workers) /\ Workers # {}
ASSUME QueueDepthType  == QueueDepth \in Nat \ {0}
ASSUME RepeatingType   == Repeating \subseteq Exports
ASSUME NoExportType    == NoExport \notin Exports
ASSUME SinkErrorsType  == SinkErrors \subseteq {"storage_quota", "sink_error"}

VARIABLES
  tenants,    \* Scheduler.tenants: the tenants seen so far, sorted
  queue,      \* tenantLimit.queue of every tenant
  jobs,       \* Scheduler.jobs, the channel to the workers
  kick,       \* Scheduler.kick holds its one token
  cancelled,  \* Scheduler.ctx is done
  req,        \* where each request goroutine stands
  result,     \* what admitRequest returned to the exporter
  reply,      \* the content of each job's reply channel
  dpc,        \* where the dispatcher goroutine stands
  round,      \* dispatchRound's copy of tenants
  rotation,   \* dispatch's rotation
  pos,        \* dispatchRound's i
  worked,     \* dispatchRound's worked
  held,       \* the job the dispatcher holds between two channel operations
  wpc,        \* where each worker goroutine stands
  wjob,       \* the job each worker runs
  calls,      \* how often the sink was called with the export
  verdict,    \* what the sink returned for the export
  ledger      \* the export's entries in the reject log

submitVars   == <<tenants, kick, req, result>>
dispatchVars == <<dpc, round, rotation, pos, worked, held>>
workerVars   == <<wpc, wjob, calls, verdict>>
vars == <<tenants, queue, jobs, kick, cancelled, req, result, reply, dpc, round,
          rotation, pos, worked, held, wpc, wjob, calls, verdict, ledger>>

Verdicts   == {"ok"} \cup SinkErrors
Reasons    == {"parse_queue_full"} \cup SinkErrors
Replies    == Verdicts \cup {"parse_queue_full"}

-----------------------------------------------------------------------------
(* Channels *)

(* Mutant: all tenants share one quota of places. *)
SharedQueueHasRoom(t) == \A u \in Tenants : Len(queue[u]) < QueueDepth

QueueHasRoom(t) == Len(queue[t]) < QueueDepth

(* Mutant: off by one. *)
JobsHasRoomForOneMore == Len(jobs) <= Cardinality(Workers)

JobsHasRoom == Len(jobs) < Cardinality(Workers)

(* The tenants after registerTenant(t): unchanged when t is known, else t   *)
(* where sort.Strings puts it, behind the k smaller names.                 *)
WithTenant(t) ==
  LET k == Cardinality({i \in DOMAIN tenants : tenants[i] < t})
  IN  IF \E i \in DOMAIN tenants : tenants[i] = t
        THEN tenants
        ELSE SubSeq(tenants, 1, k) \o <<t>> \o SubSeq(tenants, k + 1, Len(tenants))

Record(e, reason) == ledger' = ledger \cup {<<e, reason>>}

(* The IngestJob of e is in no channel, queue or goroutine of the scheduler. *)
Gone(e) ==
  /\ \A t \in Tenants : \A i \in DOMAIN queue[t] : queue[t][i] # e
  /\ \A i \in DOMAIN jobs : jobs[i] # e
  /\ held # e
  /\ \A w \in Workers : wjob[w] # e

-----------------------------------------------------------------------------
(* The request goroutine: admitRequest and Submit *)

(* An export of e passed CheckRequest and enters Submit. *)
Admit(e) ==
  /\ \/ req[e] = "idle"
     \/ e \in Repeating /\ req[e] = "returned" /\ Gone(e)
  /\ req' = [req EXCEPT ![e] = "register"]
  /\ result' = [result EXCEPT ![e] = "none"]
  /\ reply' = [reply EXCEPT ![e] = "none"]
  /\ calls' = [calls EXCEPT ![e] = 0]
  /\ verdict' = [verdict EXCEPT ![e] = "none"]
  /\ ledger' = {entry \in ledger : entry[1] # e}
  /\ UNCHANGED <<tenants, queue, jobs, kick, cancelled, dispatchVars, wpc, wjob>>

(* registerTenant, under the scheduler's mutex. *)
Register(e) ==
  /\ req[e] = "register"
  /\ req' = [req EXCEPT ![e] = "enqueue"]
  /\ tenants' = WithTenant(TenantOf[e])
  /\ UNCHANGED <<queue, jobs, kick, cancelled, result, reply, dispatchVars, workerVars, ledger>>

(* The non-blocking send to the tenant's queue succeeds. *)
Enqueue(e) ==
  /\ req[e] = "enqueue"
  /\ QueueHasRoom(TenantOf[e])
  /\ queue' = [queue EXCEPT ![TenantOf[e]] = Append(@, e)]
  /\ req' = [req EXCEPT ![e] = "kick"]
  /\ UNCHANGED <<tenants, jobs, kick, cancelled, result, reply, dispatchVars, workerVars, ledger>>

(* The tenant's queue is full: the denial is recorded and returned at once. *)
Refuse(e) ==
  /\ req[e] = "enqueue"
  /\ ~QueueHasRoom(TenantOf[e])
  /\ Record(e, "parse_queue_full")
  /\ result' = [result EXCEPT ![e] = "parse_queue_full"]
  /\ req' = [req EXCEPT ![e] = "returned"]
  /\ UNCHANGED <<tenants, queue, jobs, kick, cancelled, reply, dispatchVars, workerVars>>

(* The non-blocking send on kick, after which admitRequest waits. *)
Kick(e) ==
  /\ req[e] = "kick"
  /\ kick' = TRUE
  /\ req' = [req EXCEPT ![e] = "waiting"]
  /\ UNCHANGED <<tenants, queue, jobs, cancelled, result, reply, dispatchVars, workerVars, ledger>>

(* admitRequest receives from job.Done(). *)
ReceiveReply(e) ==
  /\ req[e] = "waiting"
  /\ reply[e] # "none"
  /\ result' = [result EXCEPT ![e] = reply[e]]
  /\ reply' = [reply EXCEPT ![e] = "none"]
  /\ req' = [req EXCEPT ![e] = "returned"]
  /\ UNCHANGED <<tenants, queue, jobs, kick, cancelled, dispatchVars, workerVars, ledger>>

(* Mutant: an accepted request waits for its answer alone. *)
GiveUpUnqueued(e) ==
  /\ req[e] = "waiting" /\ reply[e] # "none"
  /\ result' = [result EXCEPT ![e] = "context_done"]
  /\ req' = [req EXCEPT ![e] = "returned"]
  /\ UNCHANGED <<tenants, queue, jobs, kick, cancelled, reply, dispatchVars, workerVars, ledger>>

(* The request's own context ends first: deadline, or the client went away. *)
GiveUp(e) ==
  /\ req[e] = "waiting"
  /\ result' = [result EXCEPT ![e] = "context_done"]
  /\ req' = [req EXCEPT ![e] = "returned"]
  /\ UNCHANGED <<tenants, queue, jobs, kick, cancelled, reply, dispatchVars, workerVars, ledger>>

-----------------------------------------------------------------------------
(* The dispatcher goroutine: dispatch and dispatchRound *)

(* The tenant at position i of a round that starts at rotation r. *)
TenantAt(r, i) == round[((r + i) % Len(round)) + 1]

Serving == TenantAt(rotation, pos)

(* The round returns w, its locals are gone, and the next one starts at r:  *)
(* at once when this one moved a job, else after a wait.                    *)
EndRound(w, r) ==
  /\ rotation' = r % Len(round)
  /\ dpc' = IF w THEN "start" ELSE "wait"
  /\ pos' = 0
  /\ worked' = FALSE
  /\ round' = <<>>

(* The next iteration of the round's loop, or its regular end. *)
NextTenant(w) ==
  IF pos + 1 < Len(round)
    THEN /\ pos' = pos + 1
         /\ dpc' = "pop"
         /\ worked' = w
         /\ UNCHANGED <<round, rotation>>
    ELSE EndRound(w, rotation + 1)

(* The round starts from a copy of the registered tenants. *)
StartRound ==
  /\ dpc = "start"
  /\ round' = tenants
  /\ rotation' = IF rotation >= Len(tenants) THEN 0 ELSE rotation
  /\ dpc' = IF tenants = <<>> THEN "wait" ELSE "pop"
  /\ UNCHANGED <<submitVars, queue, jobs, cancelled, reply, pos, worked, held, workerVars, ledger>>

(* Mutant: the job is looked at and stays in the queue. *)
Peek ==
  /\ dpc = "pop"
  /\ IF queue[Serving] = <<>>
       THEN NextTenant(worked) /\ UNCHANGED held
       ELSE /\ held' = Head(queue[Serving])
            /\ dpc' = "push"
            /\ UNCHANGED <<round, rotation, pos, worked>>
  /\ UNCHANGED <<submitVars, queue, jobs, cancelled, reply, workerVars, ledger>>

(* The non-blocking receive from the tenant's queue. *)
Pop ==
  /\ dpc = "pop"
  /\ IF queue[Serving] = <<>>
       THEN /\ NextTenant(worked)
            /\ UNCHANGED <<queue, held>>
       ELSE /\ held' = Head(queue[Serving])
            /\ queue' = [queue EXCEPT ![Serving] = Tail(@)]
            /\ dpc' = "push"
            /\ UNCHANGED <<round, rotation, pos, worked>>
  /\ UNCHANGED <<submitVars, jobs, cancelled, reply, workerVars, ledger>>

(* The non-blocking send to the workers. *)
Push ==
  /\ dpc = "push"
  /\ IF JobsHasRoom
       THEN /\ jobs' = Append(jobs, held)
            /\ held' = NoExport
            /\ NextTenant(TRUE)
       ELSE /\ dpc' = "requeue"
            /\ UNCHANGED <<jobs, held, round, rotation, pos, worked>>
  /\ UNCHANGED <<submitVars, queue, cancelled, reply, workerVars, ledger>>

(* The pool is saturated: the round ends after the tenant it was serving. *)
EndSaturated ==
  /\ held' = NoExport
  /\ EndRound(worked, rotation + pos + 1)

(* Mutant: the job is dropped without an answer. *)
DropHeld ==
  /\ dpc = "requeue"
  /\ QueueHasRoom(Serving)
  /\ EndSaturated
  /\ UNCHANGED <<submitVars, queue, jobs, cancelled, reply, workerVars, ledger>>

(* Mutant: the job is put back and failed as well. *)
RequeueAndFail ==
  /\ dpc = "requeue"
  /\ QueueHasRoom(Serving)
  /\ queue' = [queue EXCEPT ![Serving] = Append(@, held)]
  /\ reply' = [reply EXCEPT ![held] = "parse_queue_full"]
  /\ EndSaturated
  /\ UNCHANGED <<submitVars, jobs, cancelled, workerVars, ledger>>

(* The job goes back into its tenant's queue, behind what is there. *)
Requeue ==
  /\ dpc = "requeue"
  /\ QueueHasRoom(Serving)
  /\ queue' = [queue EXCEPT ![Serving] = Append(@, held)]
  /\ EndSaturated
  /\ UNCHANGED <<submitVars, jobs, cancelled, reply, workerVars, ledger>>

(* A Submit took the place the job had in the queue: the job is failed. *)
FailHeld ==
  /\ dpc = "requeue"
  /\ ~QueueHasRoom(Serving)
  /\ reply' = IF reply[held] = "none"
                THEN [reply EXCEPT ![held] = "parse_queue_full"] ELSE reply
  /\ EndSaturated
  /\ UNCHANGED <<submitVars, queue, jobs, cancelled, workerVars, ledger>>

(* Mutant: there is no tick. *)
WakeOnKick ==
  /\ dpc = "wait"
  /\ kick
  /\ kick' = FALSE
  /\ dpc' = "start"
  /\ UNCHANGED <<tenants, req, result, queue, jobs, cancelled, reply, round, rotation,
                 pos, worked, held, workerVars, ledger>>

(* The dispatcher wakes on the kick's token or on the 50 ms tick. *)
Wake ==
  /\ dpc = "wait"
  /\ dpc' = "start"
  /\ kick' \in {FALSE, kick}
  /\ UNCHANGED <<tenants, req, result, queue, jobs, cancelled, reply, round, rotation,
                 pos, worked, held, workerVars, ledger>>

(* Mutant: the select of dispatch does not return on ctx.Done(). *)
DispatcherGoesOn ==
  /\ dpc = "wait"
  /\ cancelled
  /\ dpc' = "start"
  /\ UNCHANGED <<submitVars, queue, jobs, cancelled, reply, round, rotation,
                 pos, worked, held, workerVars, ledger>>

DispatcherExit ==
  /\ dpc = "wait"
  /\ cancelled
  /\ dpc' = "exited"
  /\ UNCHANGED <<submitVars, queue, jobs, cancelled, reply, round, rotation,
                 pos, worked, held, workerVars, ledger>>

-----------------------------------------------------------------------------
(* The worker goroutines: Start's loop and runJob *)

(* The worker takes a job and calls the sink with it. *)
Take(w) ==
  /\ wpc[w] = "idle"
  /\ jobs # <<>>
  /\ wjob' = [wjob EXCEPT ![w] = Head(jobs)]
  /\ jobs' = Tail(jobs)
  /\ calls' = [calls EXCEPT ![Head(jobs)] = @ + 1]
  /\ wpc' = [wpc EXCEPT ![w] = "sink"]
  /\ UNCHANGED <<submitVars, queue, cancelled, reply, dispatchVars, verdict, ledger>>

(* Mutant: the sink's error is answered and not recorded. *)
SinkReturnsUnrecorded(w) ==
  /\ wpc[w] = "sink"
  /\ \E v \in Verdicts : verdict' = [verdict EXCEPT ![wjob[w]] = v]
  /\ wpc' = [wpc EXCEPT ![w] = "reply"]
  /\ UNCHANGED <<submitVars, queue, jobs, cancelled, reply, dispatchVars, wjob, calls, ledger>>

(* The sink returns; an error is recorded with its reason. *)
SinkReturns(w) ==
  /\ wpc[w] = "sink"
  /\ \E v \in Verdicts :
       /\ verdict' = [verdict EXCEPT ![wjob[w]] = v]
       /\ IF v = "ok" THEN UNCHANGED ledger ELSE Record(wjob[w], v)
  /\ wpc' = [wpc EXCEPT ![w] = "reply"]
  /\ UNCHANGED <<submitVars, queue, jobs, cancelled, reply, dispatchVars, wjob, calls>>

(* Mutant: the sink's error is not passed on. *)
ReplyOk(w) ==
  /\ wpc[w] = "reply"
  /\ reply' = [reply EXCEPT ![wjob[w]] = "ok"]
  /\ wjob' = [wjob EXCEPT ![w] = NoExport]
  /\ wpc' = [wpc EXCEPT ![w] = "idle"]
  /\ UNCHANGED <<submitVars, queue, jobs, cancelled, dispatchVars, calls, verdict, ledger>>

(* The send on the job's reply channel; once ctx is done the select may    *)
(* choose to drop the answer.                                              *)
Reply(w) ==
  /\ wpc[w] = "reply"
  /\ \/ /\ reply[wjob[w]] = "none"
        /\ reply' = [reply EXCEPT ![wjob[w]] = verdict[wjob[w]]]
     \/ /\ cancelled
        /\ UNCHANGED reply
  /\ wjob' = [wjob EXCEPT ![w] = NoExport]
  /\ wpc' = [wpc EXCEPT ![w] = "idle"]
  /\ UNCHANGED <<submitVars, queue, jobs, cancelled, dispatchVars, calls, verdict, ledger>>

WorkerExit(w) ==
  /\ wpc[w] = "idle"
  /\ cancelled
  /\ wpc' = [wpc EXCEPT ![w] = "exited"]
  /\ UNCHANGED <<submitVars, queue, jobs, cancelled, reply, dispatchVars, wjob, calls, verdict, ledger>>

(* Receiver.Stop and Scheduler.Wait cancel the shared context. *)
Cancel ==
  /\ ~cancelled
  /\ cancelled' = TRUE
  /\ UNCHANGED <<submitVars, queue, jobs, reply, dispatchVars, workerVars, ledger>>

-----------------------------------------------------------------------------
(* NewScheduler and Start: the goroutines run, nothing is queued. *)
Init ==
  /\ tenants = <<>>
  /\ queue = [t \in Tenants |-> <<>>]
  /\ jobs = <<>>
  /\ kick = FALSE
  /\ cancelled = FALSE
  /\ req = [e \in Exports |-> "idle"]
  /\ result = [e \in Exports |-> "none"]
  /\ reply = [e \in Exports |-> "none"]
  /\ dpc = "start"
  /\ round = <<>>
  /\ rotation = 0
  /\ pos = 0
  /\ worked = FALSE
  /\ held = NoExport
  /\ wpc = [w \in Workers |-> "idle"]
  /\ wjob = [w \in Workers |-> NoExport]
  /\ calls = [e \in Exports |-> 0]
  /\ verdict = [e \in Exports |-> "none"]
  /\ ledger = {}

Submit(e)  == Register(e) \/ Enqueue(e) \/ Refuse(e) \/ Kick(e)
Dispatcher == StartRound \/ Pop \/ Push \/ Requeue \/ FailHeld \/ Wake \/ DispatcherExit
Worker(w)  == Take(w) \/ SinkReturns(w) \/ Reply(w) \/ WorkerExit(w)

Next ==
  \/ \E e \in Exports : Admit(e) \/ Submit(e) \/ ReceiveReply(e) \/ GiveUp(e)
  \/ Dispatcher
  \/ \E w \in Workers : Worker(w)
  \/ Cancel

(* The Go scheduler runs every runnable goroutine and the sink returns.     *)
(* Nothing makes an exporter send, a request give up, or the program stop.  *)
Fairness ==
  /\ \A e \in Exports : WF_vars(Submit(e) \/ ReceiveReply(e))
  /\ WF_vars(Dispatcher)
  /\ \A w \in Workers : WF_vars(Worker(w))

Spec     == Init /\ [][Next]_vars
FairSpec == Spec /\ Fairness

=============================================================================
