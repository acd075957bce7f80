------------------------------- MODULE K8sSource -------------------------------
(***************************************************************************)
(* Streaming the logs of Kubernetes pods (internal/k8s).  The source has   *)
(* one pod watcher at a time; its informer reports the pods to a handler   *)
(* that keeps one streamer goroutine per container, and UpdateFilter, on   *)
(* the dashboard's goroutine, replaces the watcher.  All streamers send to *)
(* the source's bounded channel, which Stop closes when the reader of the  *)
(* channel has seen the application's context done.                        *)
(*                                                                         *)
(* A pod has one container here, and is running or not: pods that have     *)
(* succeeded, which are streamed too, are left out, and a deleted one does *)
(* not run.  The informer, external, reports a pod whenever it likes and   *)
(* again and again (it resyncs every minute), also from what it had queued *)
(* when the watcher was stopped.                                           *)
(***************************************************************************)
EXTENDS Naturals, Sequences, FiniteSets

CONSTANTS
  Pods,
  Selections,  \* what the dashboard may select: sets of pods
  LineDepth,   \* capacity of lineChan: 1000 in the code
  MaxUpdates,  \* bound on the calls of UpdateFilter
  MaxChanges,  \* bound on the changes of the pods' phases
  MaxStreams   \* bound on the streamers

ASSUME K8sAssumption ==
  /\ Selections \subseteq SUBSET Pods
  /\ {LineDepth, MaxStreams} \subseteq Nat \ {0}
  /\ {MaxUpdates, MaxChanges} \subseteq Nat

VARIABLES
  running,    \* the pods in phase Running
  changes,    \* how often that changed
  selected,   \* the pods each watcher so far selects; the last is Source.watcher
  cancelled,  \* the watchers whose context is done
  entries,    \* PodWatcher.streamers of each watcher: pod -> streamer, 0 for none
  handler,    \* the streamer each watcher's handler has yet to start, 0 for none
  streamers,  \* every PodLogStreamer: [watcher, pod, pc, stopped, late]
  lines,      \* how many lines lineChan holds
  closed,     \* lineChan was closed
  panicked,   \* a streamer sent to the closed channel
  update,     \* where UpdateFilter stands
  stop        \* where Stop stands

watcherVars == <<selected, cancelled, entries>>
chanVars    == <<lines, closed, panicked>>
vars == <<running, changes, watcherVars, handler, streamers, chanVars, update, stop>>

Watcher == Len(selected)
Ids     == DOMAIN streamers

(* The streamer's context, a child of its watcher's, is done. *)
Done(s) == streamers[s].stopped \/ streamers[s].watcher \in cancelled

Goto(s, label) == streamers' = [streamers EXCEPT ![s].pc = label]

-----------------------------------------------------------------------------
(* The cluster *)

PhaseChange(p) ==
  /\ changes < MaxChanges
  /\ changes' = changes + 1
  /\ running' = IF p \in running THEN running \ {p} ELSE running \cup {p}
  /\ UNCHANGED <<watcherVars, handler, streamers, chanVars, update, stop>>

-----------------------------------------------------------------------------
(* The informer's event handlers *)

ShouldWatch(w, p) == p \in running /\ p \in selected[w]

(* Mutant: whether there is a stream already is not looked up. *)
NewStreamUnchecked(w, p) == ShouldWatch(w, p)

NewStream(w, p) == ShouldWatch(w, p) /\ entries[w][p] = 0

(* startPodStreams enters a new streamer; the handler starts it afterwards. *)
EnterStream(w, p) ==
  /\ handler[w] = 0
  /\ NewStream(w, p)
  /\ Len(streamers) < MaxStreams
  /\ streamers' = Append(streamers,
       [watcher |-> w, pod |-> p, pc |-> "entered", stopped |-> FALSE, late |-> 0])
  /\ entries' = [entries EXCEPT ![w][p] = Len(streamers) + 1]
  /\ handler' = [handler EXCEPT ![w] = Len(streamers) + 1]
  /\ UNCHANGED <<running, changes, selected, cancelled, chanVars, update, stop>>

StartStream(w) ==
  /\ handler[w] # 0
  /\ Goto(handler[w], "opening")
  /\ handler' = [handler EXCEPT ![w] = 0]
  /\ UNCHANGED <<running, changes, watcherVars, chanVars, update, stop>>

(* stopPodStreams: the pod is gone or does not match any more. *)
StopStream(w, p) ==
  /\ handler[w] = 0
  /\ ~ShouldWatch(w, p)
  /\ entries[w][p] # 0
  /\ streamers' = [streamers EXCEPT ![entries[w][p]].stopped = TRUE]
  /\ entries' = [entries EXCEPT ![w][p] = 0]
  /\ UNCHANGED <<running, changes, selected, cancelled, handler, chanVars, update, stop>>

-----------------------------------------------------------------------------
(* streamLogs *)

(* The request for the stream succeeds or fails; it fails when the context  *)
(* is done.                                                                 *)
OpenStream(s) ==
  /\ streamers[s].pc = "opening"
  /\ \/ ~Done(s) /\ Goto(s, "reading")
     \/ Goto(s, "ended")
  /\ UNCHANGED <<running, changes, watcherVars, handler, chanVars, update, stop>>

(* Mutant: the context is not looked at between two lines. *)
ScanOn(s) ==
  /\ streamers[s].pc = "reading"
  /\ Goto(s, "sending")
  /\ UNCHANGED <<running, changes, watcherVars, handler, chanVars, update, stop>>

(* The scanner has a line, and the context is not done. *)
Scan(s) ==
  /\ streamers[s].pc = "reading"
  /\ ~Done(s)
  /\ Goto(s, "sending")
  /\ UNCHANGED <<running, changes, watcherVars, handler, chanVars, update, stop>>

(* The scanner has no more: the connection broke, the container ended; or   *)
(* the context is done.                                                     *)
EndScan(s) ==
  /\ streamers[s].pc = "reading"
  /\ Goto(s, "ended")
  /\ UNCHANGED <<running, changes, watcherVars, handler, chanVars, update, stop>>

(* The select between the send and the context: the send. *)
SendLine(s) ==
  /\ streamers[s].pc = "sending"
  /\ ~closed
  /\ lines < LineDepth
  /\ lines' = lines + 1
  /\ streamers' = [streamers EXCEPT
       ![s].pc = "reading", ![s].late = IF Done(s) THEN @ + 1 ELSE @]
  /\ UNCHANGED <<running, changes, watcherVars, handler, closed, panicked, update, stop>>

(* The send to the closed channel, which is always ready, panics. *)
SendOnClosed(s) ==
  /\ streamers[s].pc = "sending"
  /\ closed
  /\ panicked' = TRUE
  /\ UNCHANGED <<running, changes, watcherVars, handler, streamers, lines, closed, update, stop>>

(* Mutant: a streamer that waits for room does not see the context. *)
LeaveSendWithRoom(s) ==
  /\ streamers[s].pc = "sending"
  /\ Done(s) /\ lines < LineDepth
  /\ Goto(s, "ended")
  /\ UNCHANGED <<running, changes, watcherVars, handler, chanVars, update, stop>>

(* The select between the send and the context: the context. *)
LeaveSend(s) ==
  /\ streamers[s].pc = "sending"
  /\ Done(s)
  /\ Goto(s, "ended")
  /\ UNCHANGED <<running, changes, watcherVars, handler, chanVars, update, stop>>

-----------------------------------------------------------------------------
(* PodWatcher.Stop cancels the watcher's context, waits for the goroutine   *)
(* of the cache, which ends with it, and forgets the streamers.             *)
StopWatcher ==
  /\ cancelled' = cancelled \cup {Watcher}
  /\ entries' = [entries EXCEPT ![Watcher] = [p \in Pods |-> 0]]

(* UpdateFilter stops the watcher ... *)
BeginUpdate ==
  /\ update = "idle"
  /\ Watcher <= MaxUpdates
  /\ StopWatcher
  /\ update' = "build"
  /\ UNCHANGED <<running, changes, selected, handler, streamers, chanVars, stop>>

(* ... and starts a new one, whatever Stop has done meanwhile; ... *)
FinishUpdate ==
  /\ update = "build"
  /\ \E selection \in Selections : selected' = Append(selected, selection)
  /\ entries' = Append(entries, [p \in Pods |-> 0])
  /\ handler' = Append(handler, 0)
  /\ update' = "idle"
  /\ UNCHANGED <<running, changes, cancelled, streamers, chanVars, stop>>

(* ... or it cannot build a client, and the source is left with the stopped *)
(* watcher.                                                                 *)
FailUpdate ==
  /\ update = "build"
  /\ update' = "idle"
  /\ UNCHANGED <<running, changes, watcherVars, handler, streamers, chanVars, stop>>

(* readK8sAsync takes a line; one that has called Stop takes no more. *)
TakeLine ==
  /\ stop = "serving"
  /\ lines > 0
  /\ lines' = lines - 1
  /\ UNCHANGED <<running, changes, watcherVars, handler, streamers, closed, panicked, update, stop>>

(* The user quit: readK8sAsync calls Stop, which stops the watcher ... *)
StopSource ==
  /\ stop = "serving"
  /\ StopWatcher
  /\ stop' = "closing"
  /\ UNCHANGED <<running, changes, selected, handler, streamers, chanVars, update>>

(* ... and closes the channel. *)
CloseLines ==
  /\ stop = "closing"
  /\ closed' = TRUE
  /\ stop' = "stopped"
  /\ UNCHANGED <<running, changes, watcherVars, handler, streamers, lines, panicked, update>>

-----------------------------------------------------------------------------
(* NewKubernetesLogSource and Start: a watcher of all pods. *)
Init ==
  /\ running \in SUBSET Pods
  /\ changes = 0
  /\ selected = <<Pods>>
  /\ cancelled = {}
  /\ entries = <<[p \in Pods |-> 0]>>
  /\ handler = <<0>>
  /\ streamers = <<>>
  /\ lines = 0
  /\ closed = FALSE
  /\ panicked = FALSE
  /\ update = "idle"
  /\ stop = "serving"

PodEvent(w, p) == EnterStream(w, p) \/ StopStream(w, p)
Streamer(s)    == OpenStream(s) \/ Scan(s) \/ EndScan(s) \/ SendLine(s) \/ SendOnClosed(s) \/ LeaveSend(s)
Update         == BeginUpdate \/ FinishUpdate \/ FailUpdate
Stop           == StopSource \/ CloseLines

(* A panic ends the process. *)
Next ==
  /\ ~panicked
  /\ \/ \E p \in Pods : PhaseChange(p)
     \/ \E w \in DOMAIN selected : StartStream(w) \/ \E p \in Pods : PodEvent(w, p)
     \/ \E s \in Ids : Streamer(s)
     \/ Update
     \/ TakeLine
     \/ Stop

Watchers == 1..(MaxUpdates + 1)

(* The Go scheduler runs every runnable goroutine, and the informer reports *)
(* every pod to the watcher in use again and again.  Connections hold or    *)
(* break as they like.                                                      *)
Fairness ==
  /\ \A s \in 1..MaxStreams : WF_vars(~panicked /\ s \in Ids /\ Streamer(s))
  /\ \A w \in Watchers : WF_vars(~panicked /\ w \in DOMAIN selected /\ StartStream(w))
  /\ \A p \in Pods : WF_vars(~panicked /\ Watcher \notin cancelled /\ PodEvent(Watcher, p))
  /\ WF_vars(~panicked /\ (FinishUpdate \/ FailUpdate))
  /\ WF_vars(~panicked /\ TakeLine)
  /\ WF_vars(~panicked /\ CloseLines)

Spec     == Init /\ [][Next]_vars
FairSpec == Spec /\ Fairness

-----------------------------------------------------------------------------
(* Every streamer that is not told to end belongs to the watcher in use and *)
(* is the one it has entered for the pod: no pod is streamed twice, no      *)
(* streamer is out of reach of the pod's deletion or of the next filter.    *)
LiveStreamsTracked ==
  \A s \in Ids : ~Done(s) /\ streamers[s].pc # "ended" =>
    /\ streamers[s].watcher = Watcher
    /\ entries[Watcher][streamers[s].pod] = s

(* What a filter or a deletion ends is over after one line at most, the one *)
(* that was on its way.                                                     *)
LateLinesBounded == \A s \in Ids : streamers[s].late <= 1

(* A streamer that is told to end does, also when nobody takes lines any    *)
(* more.                                                                    *)
DoneStreamsEnd ==
  \A s \in 1..MaxStreams :
    (s \in Ids /\ Done(s)) ~> (panicked \/ (s \in Ids /\ streamers[s].pc = "ended"))

(* PodWatcher.Stop says that its streamers are "already stopped via context *)
(* cancellation" when it returns: closing the channel then does not crash   *)
(* the process.                                                             *)
NoSendOnClosed == ~panicked

(* The usage guide promises a "live tail of pod logs with automatic         *)
(* reconnection": a pod that keeps running and stays selected is streamed   *)
(* again after a failed request or a broken connection.                     *)
Wanted(p)   == Watcher \notin cancelled /\ ShouldWatch(Watcher, p)
Streamed(p) == \E s \in Ids : streamers[s].pod = p /\ ~Done(s) /\ streamers[s].pc # "ended"

Reconnects == \A p \in Pods : Wanted(p) ~> (Streamed(p) \/ ~Wanted(p))
=============================================================================
