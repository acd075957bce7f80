------------------------------- MODULE OtlpSink -------------------------------
(***************************************************************************)
(* The sink that converts OTLP exports and feeds the engine                *)
(* (cmd/gonzo/otlp_sink.go), with the exporters that retry what failed.    *)
(* IngestLogs hands the records of an export to the engine one by one and  *)
(* mirrors each to the TUI's channel if there is room; several workers run *)
(* it at once, and a record over the byte budget ends it with an error     *)
(* when earlier records are already in.                                    *)
(*                                                                         *)
(* The exporters are external: one sends an export again after an error,   *)
(* and after its deadline, when the first attempt may still be running.    *)
(***************************************************************************)
EXTENDS TenantStore

CONSTANTS
  Exports,      \* the exports
  Content,      \* the records of each, in order
  Workers,
  NoExport,
  DisplayDepth, \* capacity of the TUI's channel
  MaxAttempts   \* bound on the times an export is sent

ASSUME SinkAssumption ==
  /\ Content \in [Exports -> Seq(Records)]
  /\ NoExport \notin Exports \X Nat
  /\ DisplayDepth \in Nat \ {0}
  /\ MaxAttempts \in Nat \ {0}

(* A record is one of one export, at one place: two log lines that read     *)
(* alike are two records.                                                   *)
ASSUME RecordsApart ==
  \A e, d \in Exports : \A i \in DOMAIN Content[e], j \in DOMAIN Content[d] :
    Content[e][i] = Content[d][j] => e = d /\ i = j

VARIABLES
  exporter,  \* what each exporter is doing
  attempts,  \* how often it has sent its export
  queued,    \* attempts sent and not yet taken by a worker: <<export, number>>
  job,       \* the attempt each worker converts
  next,      \* the position of the record the worker is at
  mirroring, \* the worker has that record in the engine, not yet in the channel
  display    \* otlpChan, to the TUI

sinkVars == <<exporter, attempts, queued, job, next, mirroring, display>>
sinkSystemVars == <<storeVars, sinkVars>>

(* The exporter sends its export, for the first time or again. *)
Send(e) ==
  /\ exporter[e] \in {"new", "failed", "timed_out"}
  /\ attempts[e] < MaxAttempts
  /\ exporter' = [exporter EXCEPT ![e] = "sent"]
  /\ attempts' = [attempts EXCEPT ![e] = @ + 1]
  /\ queued' = queued \cup {<<e, attempts'[e]>>}
  /\ UNCHANGED <<storeVars, job, next, mirroring, display>>

(* Its deadline passes before the answer. *)
TimeOut(e) ==
  /\ exporter[e] = "sent"
  /\ exporter' = [exporter EXCEPT ![e] = "timed_out"]
  /\ UNCHANGED <<storeVars, attempts, queued, job, next, mirroring, display>>

(* A worker calls IngestLogs. *)
Begin(w) ==
  /\ job[w] = NoExport
  /\ \E attempt \in queued :
       /\ queued' = queued \ {attempt}
       /\ job' = [job EXCEPT ![w] = attempt]
  /\ UNCHANGED <<storeVars, exporter, attempts, next, mirroring, display>>

(* IngestLogs returns. The exporter hears of it if it still waits for this  *)
(* attempt.                                                                 *)
Return(w, outcome) ==
  LET e == job[w][1] IN
  /\ job' = [job EXCEPT ![w] = NoExport]
  /\ next' = [next EXCEPT ![w] = 1]
  /\ exporter' = IF exporter[e] = "sent" /\ job[w][2] = attempts[e]
                   THEN [exporter EXCEPT ![e] = outcome] ELSE exporter
  /\ UNCHANGED <<storeVars, attempts, queued, mirroring, display>>

(* The worker is between two records, or at the end of the export. *)
Converting(w) == job[w] # NoExport /\ ~mirroring[w]
Current(w)    == Content[job[w][1]][next[w]]

(* Mutant: the loop stops before the last record. *)
RemainingButLast(w) == next[w] < Len(Content[job[w][1]])

Remaining(w)  == next[w] <= Len(Content[job[w][1]])

(* The next record is admitted by the engine. *)
IngestRecord(w) ==
  /\ Converting(w) /\ Remaining(w)
  /\ Ingest(Current(w))
  /\ mirroring' = [mirroring EXCEPT ![w] = TRUE]
  /\ UNCHANGED <<exporter, attempts, queued, job, next, display>>

(* Mutant: a full channel is tried again with the whole record. *)
MirrorOrRepeat(w) ==
  /\ mirroring[w]
  /\ IF Len(display) < DisplayDepth
       THEN /\ display' = Append(display, Current(w))
            /\ next' = [next EXCEPT ![w] = @ + 1]
       ELSE UNCHANGED <<display, next>>
  /\ mirroring' = [mirroring EXCEPT ![w] = FALSE]
  /\ UNCHANGED <<storeVars, exporter, attempts, queued, job>>

(* The non-blocking send to the TUI, which drops the record for want of room. *)
Mirror(w) ==
  /\ mirroring[w]
  /\ display' = IF Len(display) < DisplayDepth THEN Append(display, Current(w)) ELSE display
  /\ mirroring' = [mirroring EXCEPT ![w] = FALSE]
  /\ next' = [next EXCEPT ![w] = @ + 1]
  /\ UNCHANGED <<storeVars, exporter, attempts, queued, job>>

(* The next record is over the budget: the whole export fails. *)
FailExport(w) ==
  /\ Converting(w) /\ Remaining(w)
  /\ Oversized(Current(w))
  /\ Return(w, "failed")

(* No record is left: the export succeeds. *)
Complete(w) ==
  /\ Converting(w) /\ ~Remaining(w)
  /\ Return(w, "acked")

(* waitOTLPEntries in the TUI takes an entry. *)
Show ==
  /\ display # <<>>
  /\ display' = Tail(display)
  /\ UNCHANGED <<storeVars, exporter, attempts, queued, job, next, mirroring>>

SinkInit ==
  /\ StoreInit
  /\ exporter = [e \in Exports |-> "new"]
  /\ attempts = [e \in Exports |-> 0]
  /\ queued = {}
  /\ job = [w \in Workers |-> NoExport]
  /\ next = [w \in Workers |-> 1]
  /\ mirroring = [w \in Workers |-> FALSE]
  /\ display = <<>>

SinkNext ==
  \/ \E e \in Exports : Send(e) \/ TimeOut(e)
  \/ \E w \in Workers : Begin(w) \/ IngestRecord(w) \/ Mirror(w) \/ FailExport(w) \/ Complete(w)
  \/ Show

SinkSpec == SinkInit /\ [][SinkNext]_sinkSystemVars

-----------------------------------------------------------------------------
Times(r, s) == Cardinality({i \in DOMAIN s : s[i] = r})

(* An acknowledged export is in the engine completely, whatever attempts of *)
(* it were given up, and none of its records was refused for its size.      *)
AckMeansAllStored ==
  \A e \in Exports : exporter[e] = "acked" =>
    \A i \in DOMAIN Content[e] :
      Times(Content[e][i], accepted) >= 1 /\ ~Oversized(Content[e][i])

(* Every attempt stores a prefix of its export: a record is stored at most  *)
(* once per attempt, and never more often than the record before it, so     *)
(* what a failed export leaves behind is its beginning.                     *)
AttemptsStorePrefixes ==
  \A e \in Exports : \A i \in DOMAIN Content[e] :
    /\ Times(Content[e][i], accepted) <= attempts[e]
    /\ i > 1 => Times(Content[e][i], accepted) <= Times(Content[e][i - 1], accepted)
=============================================================================
