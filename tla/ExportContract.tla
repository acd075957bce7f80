---------------------------- MODULE ExportContract ----------------------------
(***************************************************************************)
(* What an exporter may rely on, without queues, dispatcher or workers: an *)
(* export is offered, then either refused or accepted; an accepted export  *)
(* is ingested at most once, with success or failure, or refused before    *)
(* any of it was ingested; the answer is given once and tells the outcome, *)
(* unless the request's context ends first.  Module Scheduler implements   *)
(* this specification.                                                     *)
(***************************************************************************)
CONSTANTS Exports, Repeating

VARIABLES
  state,   \* what happened to each exporter's current export
  answer   \* what the exporter was told

vars == <<state, answer>>

Outcomes == {"refused", "stored", "failed"}

Offer(e) ==
  /\ \/ state[e] = "idle"
     \/ e \in Repeating /\ state[e] \in Outcomes /\ answer[e] # "none"
  /\ state' = [state EXCEPT ![e] = "offered"]
  /\ answer' = [answer EXCEPT ![e] = "none"]

Accept(e) ==
  /\ state[e] = "offered"
  /\ state' = [state EXCEPT ![e] = "accepted"]
  /\ UNCHANGED answer

(* Refused at once. *)
Refuse(e) ==
  /\ state[e] = "offered"
  /\ state' = [state EXCEPT ![e] = "refused"]
  /\ answer' = [answer EXCEPT ![e] = "refused"]

(* Refused after all, nothing of it ingested; the answer follows. *)
Withdraw(e) ==
  /\ state[e] = "accepted"
  /\ state' = [state EXCEPT ![e] = "refused"]
  /\ UNCHANGED answer

Ingest(e) ==
  /\ state[e] = "accepted"
  /\ state' = [state EXCEPT ![e] = "ingesting"]
  /\ UNCHANGED answer

Finish(e) ==
  /\ state[e] = "ingesting"
  /\ \E outcome \in {"stored", "failed"} : state' = [state EXCEPT ![e] = outcome]
  /\ UNCHANGED answer

Answer(e) ==
  /\ state[e] \in Outcomes
  /\ answer[e] = "none"
  /\ answer' = [answer EXCEPT ![e] = state[e]]
  /\ UNCHANGED state

GiveUp(e) ==
  /\ state[e] \notin {"idle", "offered"}
  /\ answer[e] = "none"
  /\ answer' = [answer EXCEPT ![e] = "context_done"]
  /\ UNCHANGED state

Init ==
  /\ state = [e \in Exports |-> "idle"]
  /\ answer = [e \in Exports |-> "none"]

Next ==
  \E e \in Exports :
    \/ Offer(e) \/ Accept(e) \/ Refuse(e) \/ Withdraw(e)
    \/ Ingest(e) \/ Finish(e) \/ Answer(e) \/ GiveUp(e)

Spec == Init /\ [][Next]_vars
=============================================================================
