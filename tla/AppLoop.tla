------------------------------- MODULE AppLoop -------------------------------
(***************************************************************************)
(* The program loop: which source is read, how its lines get to the loop,  *)
(* and what the loop does with the messages of its commands -- a line, the *)
(* end of the input, a tick of the update timer, a change of the interval, *)
(* a reset, a quit key.                                                    *)
(*                                                                         *)
(* A source's own goroutines are FileInput's and K8sSource's; here a       *)
(* source is a goroutine that forwards its lines over inputChan and closes *)
(* it.  A line too long for the scanner ends the input like its end does.  *)
(***************************************************************************)
EXTENDS LineDecoder

CONSTANTS
  MaxLines,      \* bound: lines read
  ChanSize,      \* capacity of inputChan (100 in the code)
  MaxTimers      \* bound: changes of the update interval

ASSUME AppLoopAssumption == MaxLines \in Nat /\ ChanSize \in Nat \ {0} /\ MaxTimers \in Nat

LineSources == {"k8s", "vmlogs", "files", "stdin"}

VARIABLES
  source,        \* the input that was started
  reader,        \* its goroutine: "scanning", "sending" a line, "done"
  stdinOpen,
  read,          \* lines read
  inHand,        \* the line the reader holds
  inputChan,     \* and those it has sent
  closed,        \* inputChan is closed
  check,         \* checkInputChannel: "waiting", a message on its way, "none"
  lineMsg,       \* the line of a logLineMsg
  finished,
  timerSequence,
  timers,        \* timers that will send a tick, by their sequence number
  engineCounts,  \* what the engine was told about the intervals
  ctxDone        \* the application's context is cancelled

inputLoopVars == <<source, reader, stdinOpen, read, inHand, inputChan, closed>>
timerVars == <<timerSequence, timers, engineCounts>>
appVars == <<inputLoopVars, check, lineMsg, finished, timerVars, ctxDone, decoderVars>>

-----------------------------------------------------------------------------
(* Init: the first configured source that starts, or else what is there. *)

SourceOrder == <<"k8s", "vmlogs", "otlp", "files">>

\* working: the sources that would start; pipe: standard input is no terminal.
ChosenSource(configured, working, pipe) ==
  LET starting == SelectSeq(SourceOrder, LAMBDA s : s \in configured \intersect working)
      found == SelectSeq(<<"k8s", "files">>, LAMBDA s : s \in working)  \* autoDetectLogSource
  IN  IF starting # <<>> THEN Head(starting)
      ELSE IF pipe THEN "stdin"
      ELSE IF configured = {} /\ found # <<>> THEN Head(found)
      ELSE "none"

AppInit ==
  /\ \E configured, working \in SUBSET ToSet(SourceOrder), pipe \in BOOLEAN :
       source = ChosenSource(configured, working, pipe)
  /\ reader = (IF source \in LineSources THEN "scanning" ELSE "done")
  /\ stdinOpen = TRUE /\ read = 0 /\ inHand = <<>> /\ inputChan = <<>> /\ closed = FALSE
  /\ check = (IF source = "none" THEN "none" ELSE "waiting") /\ lineMsg = <<>>
  /\ finished = FALSE
  /\ timerSequence = 0 /\ timers = [s \in 0..MaxTimers |-> IF s = 0 THEN 1 ELSE 0]
  /\ engineCounts = NoCounts /\ ctxDone = FALSE
  /\ DecoderInit

-----------------------------------------------------------------------------
(* The reader of the source. *)

ReaderVars(r) == reader' = r /\ UNCHANGED <<source, stdinOpen>>
LoopLeft == UNCHANGED <<check, lineMsg, finished, timerVars, ctxDone, decoderVars>>

\* A line without text is skipped.
ScanLine ==
  /\ reader = "scanning" /\ stdinOpen /\ read < MaxLines
  /\ read' = read + 1 /\ \E l \in Lines : inHand' = <<l>>
  /\ ReaderVars("sending") /\ UNCHANGED <<inputChan, closed>> /\ LoopLeft

SendLine ==
  /\ reader = "sending" /\ Len(inputChan) < ChanSize
  /\ inputChan' = inputChan \o inHand /\ inHand' = <<>>
  /\ ReaderVars("scanning") /\ UNCHANGED <<read, closed>> /\ LoopLeft

\* End of the input, a line too long, or the cancelled context; the line in
\* hand is lost.  On the context's end the stdin reader closes its input too.
ReaderEnds ==
  /\ reader \in {"scanning", "sending"}
  /\ ctxDone \/ reader = "scanning"
  /\ reader' = "done" /\ closed' = TRUE /\ inHand' = <<>>
  /\ stdinOpen' = (stdinOpen /\ ~(ctxDone /\ source = "stdin"))
  /\ UNCHANGED <<source, read, inputChan>> /\ LoopLeft

\* Authenticated entries come over a channel of their own, which is never closed.
EntryMirrored ==
  /\ source = "otlp" /\ read < MaxLines /\ Len(inputChan) < ChanSize
  /\ read' = read + 1 /\ inputChan' = Append(inputChan, "entry")
  /\ UNCHANGED <<source, reader, stdinOpen, inHand, closed>> /\ LoopLeft

-----------------------------------------------------------------------------
(* The commands, which run beside the loop. *)

CommandLeft == UNCHANGED <<source, reader, stdinOpen, read, inHand, closed, finished,
                           timerVars, ctxDone, decoderVars>>

ReceiveLine ==
  /\ check = "waiting" /\ inputChan # <<>>
  /\ check' = "line" /\ lineMsg' = <<Head(inputChan)>> /\ inputChan' = Tail(inputChan)
  /\ CommandLeft

\* The channel is closed and drained; the wait for OTLP entries ends with
\* the context even if there are some left.
EndOfInput ==
  /\ check = "waiting"
  /\ \/ source # "otlp" /\ closed /\ inputChan = <<>>
     \/ source = "otlp" /\ ctxDone
  /\ check' = "finished" /\ UNCHANGED <<lineMsg, inputChan>> /\ CommandLeft

-----------------------------------------------------------------------------
(* Update: one message at a time. *)

\* An OTLP entry is only shown: it was indexed by the sink.
Mirror == shown' = [shown EXCEPT !["INFO"] = @ + 1] /\ taken' = [taken EXCEPT !.all = @ + 1, !.decoded = @ + 1]
          /\ UNCHANGED <<jsonBuffer, jsonDepth, inJsonObject, logCount, severityCounts,
                         indexed, denied>>

LogLineMsg ==
  /\ check = "line" /\ lineMsg' = <<>>
  /\ IF source = "otlp" THEN Mirror ELSE ProcessLogLine(lineMsg[1])
  /\ check' = (IF finished THEN "none" ELSE "waiting")
  /\ UNCHANGED <<inputLoopVars, finished, timerVars, ctxDone>>

\* The charts get the counts of the running interval, which goes on.
FinishedMsg ==
  /\ check = "finished" /\ check' = "none" /\ finished' = TRUE
  /\ UNCHANGED <<inputLoopVars, lineMsg, timerVars, ctxDone, decoderVars>>

StartTimer(pending, seq) == [pending EXCEPT ![seq] = @ + 1]

\* Mutant: the new timer gets the number of the old ones.
SameSequence ==
  /\ timerSequence < MaxTimers
  /\ timerSequence' = timerSequence /\ timers' = StartTimer(timers, timerSequence)
  /\ UNCHANGED <<inputLoopVars, check, lineMsg, finished, engineCounts, ctxDone, decoderVars>>

UpdateIntervalMsg ==
  /\ timerSequence < MaxTimers
  /\ timerSequence' = timerSequence + 1
  /\ timers' = StartTimer(timers, timerSequence')
  /\ UNCHANGED <<inputLoopVars, check, lineMsg, finished, engineCounts, ctxDone, decoderVars>>

\* Mutant: the counts go on after they were handed to the engine.
KeepCounts(seq) ==
  /\ timers[seq] > 0 /\ seq = timerSequence /\ timers' = timers
  /\ engineCounts' = [s \in Levels |-> engineCounts[s] + severityCounts[s]]
  /\ UNCHANGED <<inputLoopVars, check, lineMsg, finished, timerSequence, ctxDone, decoderVars>>

\* A tick of an old timer is the end of that timer.
TickMsg(seq) ==
  /\ timers[seq] > 0
  /\ UNCHANGED <<inputLoopVars, check, lineMsg, finished, timerSequence, ctxDone>>
  /\ \/ seq # timerSequence /\ timers' = [timers EXCEPT ![seq] = @ - 1]
        /\ UNCHANGED <<engineCounts, decoderVars>>
     \/ seq = timerSequence
        /\ timers' = StartTimer([timers EXCEPT ![seq] = @ - 1], timerSequence)
        /\ engineCounts' = [s \in Levels |-> engineCounts[s] + severityCounts[s]]
        /\ severityCounts' = NoCounts /\ logCount' = 0
        /\ UNCHANGED <<jsonBuffer, jsonDepth, inJsonObject, indexed, denied, shown, taken>>

\* q and Ctrl-C: cancel the context and close standard input, before the
\* dashboard looks at the key.
QuitKeyMsg ==
  /\ ~ctxDone /\ ctxDone' = TRUE
  /\ stdinOpen' = (stdinOpen /\ source # "stdin")
  /\ UNCHANGED <<source, reader, read, inHand, inputChan, closed, check, lineMsg,
                 finished, timerVars, decoderVars>>

AppNext ==
  \/ ScanLine \/ SendLine \/ ReaderEnds \/ EntryMirrored
  \/ ReceiveLine \/ EndOfInput
  \/ LogLineMsg \/ FinishedMsg \/ UpdateIntervalMsg \/ QuitKeyMsg
  \/ \E seq \in 0..MaxTimers : TickMsg(seq)

AppSpec == AppInit /\ [][AppNext]_appVars

-----------------------------------------------------------------------------
(* Properties. *)

\* However often the interval is changed, exactly one timer drives the
\* updates: ticks of the old ones neither update nor start a new one.
OneLiveTimer == timers[timerSequence] = 1

\* The engine's counts and those of the running interval are, level by level,
\* what was shown: nothing is counted twice or lost at a tick, at a change of
\* the timer, or at the end of the input, which unless the user quits is
\* reported only when every line that was read has gone through the decoder.
EngineCountsEachEntry ==
  source # "otlp" =>
    /\ \A s \in Levels : engineCounts[s] + severityCounts[s] = shown[s]
    /\ indexed + denied = shown["TRACE"] + shown["DEBUG"] + shown["INFO"]
                          + shown["WARN"] + shown["ERROR"] + shown["FATAL"]
    /\ finished /\ ~ctxDone => taken.all = read

=============================================================================
