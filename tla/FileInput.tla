------------------------------- MODULE FileInput -------------------------------
(***************************************************************************)
(* From the files to the screen: readFilesAsync (cmd/gonzo/app.go) forwards*)
(* the file reader's lines to the bounded input channel, and the program   *)
(* loop, which runs one command checkInputChannel at a time, takes them    *)
(* from there until the channel is closed or the user quits.               *)
(***************************************************************************)
EXTENDS FileReader

CONSTANTS
  Blank,      \* the lines without text
  InputDepth  \* capacity of inputChan: 100 in the code

ASSUME FileInputAssumption ==
  /\ Blank \subseteq Files \X (1..MaxLines)
  /\ InputDepth \in Nat \ {0}

VARIABLES
  quit,         \* the application's context is done
  forwarder,    \* where readFilesAsync stands
  forwarded,    \* the line it is about to forward, <<>> for none
  inputChan, inputClosed,
  loop,         \* what the program loop waits for
  processed     \* the lines processLogLine was called with

inputVars == <<quit, forwarder, forwarded, inputChan, inputClosed, loop, processed>>
vars == <<readerVars, inputVars>>

-----------------------------------------------------------------------------
(* readFilesAsync *)

(* A line is taken from the reader; one without text is skipped. *)
Receive ==
  /\ forwarder = "receive"
  /\ lineChan # <<>>
  /\ lineChan' = Tail(lineChan)
  /\ IF Head(lineChan) \in Blank
       THEN UNCHANGED <<forwarder, forwarded>>
       ELSE /\ forwarded' = Head(lineChan)
            /\ forwarder' = "forward"
  /\ UNCHANGED <<follow, diskVars, stopped, closed, panicked, locked, main, current, watched,
                 tail, size, readVars, quit, inputChan, inputClosed, loop, processed>>

(* Mutant: what the closed channel still holds is left there. *)
ReaderDoneEarly ==
  /\ forwarder = "receive"
  /\ closed
  /\ inputClosed' = TRUE
  /\ forwarder' = "exited"
  /\ UNCHANGED <<readerVars, quit, forwarded, inputChan, loop, processed>>

(* The reader is done: the deferred close of the input channel. *)
ReaderDone ==
  /\ forwarder = "receive"
  /\ lineChan = <<>>
  /\ closed
  /\ inputClosed' = TRUE
  /\ forwarder' = "exited"
  /\ UNCHANGED <<readerVars, quit, forwarded, inputChan, loop, processed>>

(* The user quit: the reader is stopped. *)
StopReader ==
  /\ forwarder = "receive"
  /\ quit
  /\ stopped' = TRUE
  /\ inputClosed' = TRUE
  /\ forwarder' = "exited"
  /\ UNCHANGED <<follow, diskVars, lineChan, closed, panicked, locked, main, current, watched,
                 tail, size, readVars, quit, forwarded, inputChan, loop, processed>>

Forward ==
  /\ forwarder = "forward"
  /\ Len(inputChan) < InputDepth
  /\ inputChan' = Append(inputChan, forwarded)
  /\ forwarded' = <<>>
  /\ forwarder' = "receive"
  /\ UNCHANGED <<readerVars, quit, inputClosed, loop, processed>>

(* The user quit while the input channel was full: readFilesAsync returns   *)
(* without stopping the reader.                                             *)
LeaveReader ==
  /\ forwarder = "forward"
  /\ quit
  /\ inputClosed' = TRUE
  /\ forwarded' = <<>>
  /\ forwarder' = "exited"
  /\ UNCHANGED <<readerVars, quit, inputChan, loop, processed>>

-----------------------------------------------------------------------------
(* The program loop *)

(* Mutant: Update does not check for more. *)
ProcessLastLine ==
  /\ loop = "check"
  /\ inputChan # <<>>
  /\ inputChan' = Tail(inputChan)
  /\ processed' = Append(processed, Head(inputChan))
  /\ loop' = "finished"
  /\ UNCHANGED <<readerVars, quit, forwarder, forwarded, inputClosed>>

(* checkInputChannel returns a line, and Update processes it and goes on    *)
(* checking.                                                                *)
ProcessLine ==
  /\ loop = "check"
  /\ inputChan # <<>>
  /\ inputChan' = Tail(inputChan)
  /\ processed' = Append(processed, Head(inputChan))
  /\ UNCHANGED <<readerVars, quit, forwarder, forwarded, inputClosed, loop>>

(* checkInputChannel finds the channel closed: finishedMsg. *)
Finish ==
  /\ loop = "check"
  /\ inputChan = <<>>
  /\ inputClosed
  /\ loop' = "finished"
  /\ UNCHANGED <<readerVars, quit, forwarder, forwarded, inputChan, inputClosed, processed>>

(* handleQuitKey; the loop may take more messages before the program ends. *)
Quit ==
  /\ ~quit
  /\ quit' = TRUE
  /\ UNCHANGED <<readerVars, forwarder, forwarded, inputChan, inputClosed, loop, processed>>

-----------------------------------------------------------------------------
Init ==
  /\ ReaderInit
  /\ quit = FALSE
  /\ forwarder = "receive"
  /\ forwarded = <<>>
  /\ inputChan = <<>>
  /\ inputClosed = FALSE
  /\ loop = "check"
  /\ processed = <<>>

Disk     == (\E f \in Files : WriteLine(f) \/ Truncate(f)) /\ UNCHANGED inputVars
Reader   == StartGoroutine /\ UNCHANGED inputVars
Watch(f) == WatchFile(f) /\ UNCHANGED inputVars
Forwarder == Receive \/ ReaderDone \/ StopReader \/ Forward \/ LeaveReader
Loop      == ProcessLine \/ Finish

Next ==
  \/ Disk
  \/ Reader
  \/ \E f \in Files : Watch(f)
  \/ Forwarder
  \/ Loop
  \/ Quit

(* The Go scheduler runs every runnable goroutine; the writers of the files *)
(* and the user do what they like.                                          *)
Fairness ==
  /\ WF_vars(Reader)
  /\ \A f \in Files : WF_vars(Watch(f))
  /\ WF_vars(Forwarder)
  /\ WF_vars(Loop)

Spec     == Init /\ [][Next]_vars
FairSpec == Spec /\ Fairness

-----------------------------------------------------------------------------
(* The lines on the way from the readers to the program loop's Update, in   *)
(* the order in which they arrive there.                                    *)
Held      == IF forwarded = <<>> THEN <<>> ELSE <<forwarded>>
Travelled == processed \o inputChan \o Held \o lineChan

(* No line is read twice or out of its order, through the hand-over from    *)
(* the first reading to the watcher, truncations that are noticed late or   *)
(* not at all, and every hop to the program loop.                           *)
EachLineOnceInOrder ==
  /\ \A i, j \in DOMAIN Travelled :
       i < j /\ Travelled[i][1] = Travelled[j][1] => Travelled[i][2] < Travelled[j][2]
  /\ \A f \in Files : \A j \in DOMAIN scanned[f] :
       /\ \A i \in 1..(j - 1) : scanned[f][i] < scanned[f][j]
       /\ \A i \in DOMAIN Travelled : Travelled[i][1] = f => Travelled[i][2] < scanned[f][j]

(* No goroutine ever sends to the channel that the end of follow mode       *)
(* closes: the process would crash.                                         *)
NoSendOnClosed == ~panicked

(* When the program reports the end of the input and the user did not quit, *)
(* everything that was in the files at the start has been processed.        *)
FinishedMeansAllRead ==
  loop = "finished" /\ ~quit /\ truncations = 0 =>
    \A f \in Files : \A n \in 1..FirstLines :
      <<f, n>> \in Blank \/ \E i \in DOMAIN processed : processed[i] = <<f, n>>

Excused == truncations > 0 \/ quit

Feed == INSTANCE LineFeed WITH
  Needed <- (Files \X (1..FirstLines)) \ Blank,
  given <- processed,
  over <- loop = "finished",
  excused <- Excused

(* Reading, watching and both channels together are a feed of lines, step   *)
(* for step: whatever the goroutines, the writers and the user do, the loop *)
(* is given a line newer than all it has of that file, or told the end once *)
(* and behind everything that was in the files at the start, or nothing.    *)
ImplementsFeed == Feed!Spec

(* Without follow mode the input ends, and the program notices.             *)
ReadModeFinishes == ~follow ~> loop = "finished"

(* An appended line that fsnotify has reported, and that is on its way.     *)
Unread(f, n) ==
  /\ n \in (offset[f] + 1)..Len(content[f])
  /\ notified[f] > 0 \/ tail[f] \in {"stat", "scan"}

OnItsWay(f, n) ==
  \/ n \in Range(scanned[f])
  \/ <<f, n>> \in Range(lineChan \o inputChan) \cup {forwarded}

Appended == (Files \X ((FirstLines + 1)..MaxLines)) \ Blank
Pending  == {line \in Appended : Unread(line[1], line[2]) \/ OnItsWay(line[1], line[2])}
(* No hop drops a line that was reported, though events are merged, the     *)
(* channels are full, and more is written while a scan goes on: it is       *)
(* pending until it is processed, unless the user quits or a file is        *)
(* truncated.                                                               *)
NoneDropped ==
  [][\A line \in Pending : Excused' \/ line \in Pending' \/ line \in Range(processed)']_vars

(* None is dropped, and the hops never come to a halt: when the writers     *)
(* pause, everything they wrote and fsnotify reported reaches the program   *)
(* loop.                                                                    *)
PendingLinesArrive ==
  /\ NoneDropped
  /\ (~Excused /\ Pending # {}) ~> (Excused \/ Pending = {})

(* Stop's comment: it "stops the file reader and closes all resources": the *)
(* channel of lines is closed after it.                                     *)
StopCloses == stopped ~> closed
=============================================================================
