------------------------------ MODULE FileReader ------------------------------
(***************************************************************************)
(* Reading log files (internal/filereader/filereader.go).  One goroutine   *)
(* reads the files from beginning to end, one after the other; in follow   *)
(* mode it then sets up a watcher for each, whose own goroutine reads what *)
(* is appended whenever fsnotify reports a write.  All of them send to one *)
(* bounded channel, and the files change at any time.                      *)
(*                                                                         *)
(* A line is <<file, number>>, numbered in the order the file's writer     *)
(* wrote them; a rotation by copy and truncate empties the file.  A fill   *)
(* of the scanner's buffer takes all there is behind the file offset.      *)
(***************************************************************************)
EXTENDS Naturals, Sequences, Folds, Functions

CONSTANTS
  NumFiles,       \* the files are filePaths[1..NumFiles]
  FirstLines,     \* lines in each file at the start
  MaxAppends,     \* bound on the lines written after the start, to all files
  MaxTruncations, \* bound on the truncations
  LineDepth       \* capacity of lineChan: 100 in the code

ASSUME FileReaderAssumption ==
  /\ NumFiles \in Nat \ {0}
  /\ FirstLines \in Nat
  /\ MaxAppends \in Nat
  /\ MaxTruncations \in Nat
  /\ LineDepth \in Nat \ {0}

Files == 1..NumFiles
MaxLines == FirstLines + MaxAppends

VARIABLES
  follow,      \* FileReader.follow
  content,     \* the lines in each file
  written,     \* how many were written to it so far
  truncations,
  stopped,     \* FileReader.ctx is done
  lineChan, closed,  \* the channel and whether it was closed
  panicked,    \* a goroutine sent to the closed channel
  locked,      \* FileReader.mu is held for good
  main,        \* where the goroutine of startReadMode or startFollowMode stands
  current,     \* the file it is at
  watched,     \* the files with a watcher (FileReader.watchers)
  notified,    \* write events fsnotify holds for each file
  tail,        \* where each file's watchFile goroutine stands
  offset,      \* the offset in each file of the goroutine that reads it
  size,        \* fileState.size
  scanned      \* lines in the scanner's buffer of that goroutine

diskVars   == <<content, written, truncations, notified>>
readVars   == <<offset, scanned>>
readerVars == <<follow, diskVars, stopped, lineChan, closed, panicked, locked,
                main, current, watched, tail, size, readVars>>

Missing(f) == SubSeq(content[f], offset[f] + 1, Len(content[f]))

(* What reading on makes of the offset and the scanner's buffer. *)
Fill(f) ==
  /\ scanned' = [scanned EXCEPT ![f] = Missing(f)]
  /\ offset' = [offset EXCEPT ![f] = @ + Len(Missing(f))]

(* A select between ctx.Done and the send of the next scanned line: go says *)
(* what the goroutine does when it has sent, leave when it has not.         *)
SendOrDone(f, go, leave) ==
  \/ /\ ~closed
     /\ Len(lineChan) < LineDepth
     /\ lineChan' = Append(lineChan, <<f, Head(scanned[f])>>)
     /\ scanned' = [scanned EXCEPT ![f] = Tail(@)]
     /\ go
     /\ UNCHANGED <<panicked, offset>>
  \/ /\ closed
     /\ panicked' = TRUE
     /\ go
     /\ UNCHANGED <<lineChan, readVars>>
  \/ /\ stopped
     /\ scanned' = [scanned EXCEPT ![f] = <<>>]
     /\ leave
     /\ UNCHANGED <<lineChan, panicked, offset>>

-----------------------------------------------------------------------------
(* The writers of the files, and what fsnotify makes of it: a write is a    *)
(* new event, or is merged with one nobody has read yet; there are at most  *)
(* two, one on its way to watchFile and one in the kernel's queue.          *)
Notify(f) ==
  IF f \in watched
    THEN notified' \in {[notified EXCEPT ![f] = n] : n \in {notified[f], notified[f] + 1} \cap 1..2}
    ELSE UNCHANGED notified

WriteLine(f) ==
  /\ FoldFunction(+, 0, written) < NumFiles * FirstLines + MaxAppends
  /\ written' = [written EXCEPT ![f] = @ + 1]
  /\ content' = [content EXCEPT ![f] = Append(@, written'[f])]
  /\ Notify(f)
  /\ UNCHANGED <<follow, truncations, stopped, lineChan, closed, panicked, locked,
                 main, current, watched, tail, size, readVars>>

Truncate(f) ==
  /\ truncations < MaxTruncations
  /\ content[f] # <<>>
  /\ truncations' = truncations + 1
  /\ content' = [content EXCEPT ![f] = <<>>]
  /\ Notify(f)
  /\ UNCHANGED <<follow, written, stopped, lineChan, closed, panicked, locked,
                 main, current, watched, tail, size, readVars>>

-----------------------------------------------------------------------------
(* The goroutine of Start *)

(* The next file of the loop over filePaths, or what follows the loop. *)
NextFile(first, done) ==
  IF current < NumFiles
    THEN current' = current + 1 /\ main' = first
    ELSE current' = 1 /\ main' = done

AfterReading == IF follow THEN "watch" ELSE "close"

(* readFile: the scanner reads; at the end of the file it goes on with the  *)
(* next one.                                                                *)
ReadFill ==
  /\ main = "read"
  /\ scanned[current] = <<>>
  /\ IF Missing(current) # <<>>
       THEN Fill(current) /\ UNCHANGED <<main, current>>
       ELSE NextFile("read", AfterReading) /\ UNCHANGED readVars
  /\ UNCHANGED <<follow, diskVars, stopped, lineChan, closed, panicked, locked, watched, tail, size>>

(* readFile: the line is sent, or the context is done and readFile returns. *)
ReadSend ==
  /\ main = "read"
  /\ scanned[current] # <<>>
  /\ SendOrDone(current, UNCHANGED <<main, current>>, NextFile("read", AfterReading))
  /\ UNCHANGED <<follow, diskVars, stopped, closed, locked, watched, tail, size>>

(* Mutant: the watcher starts at the beginning. *)
SeekStart ==
  /\ main = "watch"
  /\ offset' = [offset EXCEPT ![current] = 0]
  /\ size' = [size EXCEPT ![current] = 0]
  /\ main' = "add"
  /\ UNCHANGED <<follow, diskVars, stopped, lineChan, closed, panicked, locked, current,
                 watched, tail, scanned>>

(* setupFileWatcher opens the file and seeks to its end. *)
SeekEnd ==
  /\ main = "watch"
  /\ offset' = [offset EXCEPT ![current] = Len(content[current])]
  /\ size' = [size EXCEPT ![current] = Len(content[current])]
  /\ main' = "add"
  /\ UNCHANGED <<follow, diskVars, stopped, lineChan, closed, panicked, locked, current,
                 watched, tail, scanned>>

(* watcher.Add succeeds and the file's goroutine starts, or it fails and    *)
(* cleanupFile forgets the file.                                            *)
AddWatcher ==
  /\ main = "add"
  /\ \/ /\ watched' = watched \cup {current}
        /\ tail' = [tail EXCEPT ![current] = "select"]
     \/ UNCHANGED <<watched, tail>>
  /\ NextFile("watch", "follow")
  /\ UNCHANGED <<follow, diskVars, stopped, lineChan, closed, panicked, locked, size, readVars>>

(* The context is done; closeAllWatchers follows. *)
EndFollow ==
  /\ main = "follow"
  /\ stopped
  /\ main' = "cleanup"
  /\ UNCHANGED <<follow, diskVars, stopped, lineChan, closed, panicked, locked, current,
                 watched, tail, size, readVars>>

(* Mutant: the lock is not taken twice. *)
CloseAllWatchersReentrant ==
  /\ main = "cleanup"
  /\ watched' = {}
  /\ main' = "close"
  /\ UNCHANGED <<follow, diskVars, stopped, lineChan, closed, panicked, locked, current,
                 tail, size, readVars>>

(* closeAllWatchers locks mu and calls cleanupFile, which locks mu, for     *)
(* each watcher: with any watcher, the goroutine waits for itself.          *)
CloseAllWatchers ==
  /\ main = "cleanup"
  /\ IF watched = {}
       THEN main' = "close" /\ UNCHANGED locked
       ELSE main' = "stuck" /\ locked' = TRUE
  /\ UNCHANGED <<follow, diskVars, stopped, lineChan, closed, panicked, current,
                 watched, tail, size, readVars>>

(* Mutant: the channel is not closed. *)
LeaveLinesOpen ==
  /\ main = "close"
  /\ main' = "exited"
  /\ UNCHANGED <<follow, diskVars, stopped, lineChan, closed, panicked, locked, current,
                 watched, tail, size, readVars>>

(* The deferred close(lineChan). *)
CloseLines ==
  /\ main = "close"
  /\ closed' = TRUE
  /\ main' = "exited"
  /\ UNCHANGED <<follow, diskVars, stopped, lineChan, panicked, locked, current,
                 watched, tail, size, readVars>>

-----------------------------------------------------------------------------
(* The watchFile goroutine of a file *)

Goto(f, label) == tail' = [tail EXCEPT ![f] = label]

(* Behind a critical section of mu, or blocked on it for good. *)
GotoLocking(f, label) == Goto(f, IF locked THEN "blocked" ELSE label)

(* A write event arrives; handleFileWrite looks the file's state up. *)
TakeEvent(f) ==
  /\ tail[f] = "select"
  /\ notified[f] > 0
  /\ notified' = [notified EXCEPT ![f] = @ - 1]
  /\ GotoLocking(f, "stat")
  /\ UNCHANGED <<follow, content, written, truncations, stopped, lineChan, closed, panicked,
                 locked, main, current, watched, size, readVars>>

(* The file is at least as long as it was. *)
StatGrown(f) ==
  /\ tail[f] = "stat"
  /\ Len(content[f]) >= size[f]
  /\ Goto(f, "scan")
  /\ UNCHANGED <<follow, diskVars, stopped, lineChan, closed, panicked, locked, main, current,
                 watched, size, readVars>>

(* The file was truncated: reopenFile starts over, and reads nothing yet. *)
Reopen(f) ==
  /\ tail[f] = "stat"
  /\ Len(content[f]) < size[f]
  /\ IF locked
       THEN UNCHANGED <<offset, size>>
       ELSE /\ offset' = [offset EXCEPT ![f] = 0]
            /\ size' = [size EXCEPT ![f] = 0]
  /\ GotoLocking(f, "select")
  /\ UNCHANGED <<follow, diskVars, stopped, lineChan, closed, panicked, locked, main, current,
                 watched, scanned>>

(* The fresh scanner reads on from the offset; at the end of the file the   *)
(* offset is remembered as the size.                                        *)
TailFill(f) ==
  /\ tail[f] = "scan"
  /\ scanned[f] = <<>>
  /\ IF Missing(f) # <<>>
       THEN Fill(f) /\ UNCHANGED <<size, tail>>
       ELSE /\ size' = IF locked THEN size ELSE [size EXCEPT ![f] = offset[f]]
            /\ GotoLocking(f, "select")
            /\ UNCHANGED readVars
  /\ UNCHANGED <<follow, diskVars, stopped, lineChan, closed, panicked, locked, main, current, watched>>

(* The line is sent, or the context is done and handleFileWrite returns. *)
TailSend(f) ==
  /\ tail[f] = "scan"
  /\ scanned[f] # <<>>
  /\ SendOrDone(f, UNCHANGED tail, Goto(f, "select"))
  /\ UNCHANGED <<follow, diskVars, stopped, closed, locked, main, current, watched, size>>

TailExit(f) ==
  /\ tail[f] = "select"
  /\ stopped
  /\ Goto(f, "exited")
  /\ UNCHANGED <<follow, diskVars, stopped, lineChan, closed, panicked, locked, main, current,
                 watched, size, readVars>>

-----------------------------------------------------------------------------
ReaderInit ==
  /\ follow \in BOOLEAN
  /\ content = [f \in Files |-> [n \in 1..FirstLines |-> n]]
  /\ written = [f \in Files |-> FirstLines]
  /\ truncations = 0
  /\ stopped = FALSE
  /\ lineChan = <<>>
  /\ closed = FALSE
  /\ panicked = FALSE
  /\ locked = FALSE
  /\ main = "read"
  /\ current = 1
  /\ watched = {}
  /\ notified = [f \in Files |-> 0]
  /\ tail = [f \in Files |-> "off"]
  /\ offset = [f \in Files |-> 0]
  /\ size = [f \in Files |-> 0]
  /\ scanned = [f \in Files |-> <<>>]

StartGoroutine == ReadFill \/ ReadSend \/ SeekEnd \/ AddWatcher \/ EndFollow \/ CloseAllWatchers \/ CloseLines
WatchFile(f) == TakeEvent(f) \/ StatGrown(f) \/ Reopen(f) \/ TailFill(f) \/ TailSend(f) \/ TailExit(f)
=============================================================================
