------------------------------ MODULE FileProofs ------------------------------
(***************************************************************************)
(* Proofs about the file input: nobody sends to the closed channel, the    *)
(* end of the input is reported only behind every line that was in the     *)
(* files at the start, the lines of a file are processed in order, and a   *)
(* line that was reported stays on its way until it is processed.          *)
(***************************************************************************)
EXTENDS FileInput, SequenceTheorems, TLAPS

(* Without a watcher no goroutine but that of Start sends, and that one has *)
(* left its loops before it closes the channel.                             *)
Places == {"off", "select", "stat", "scan", "blocked", "exited"}

SafeInv ==
  /\ tail \in [Files -> Places]
  /\ \A f \in Files : tail[f] # "off" => f \in watched
  /\ main \in {"read", "close", "exited"} => watched = {}
  /\ closed => main = "exited"
  /\ panicked = FALSE

LEMMA SafeInitial == Init => SafeInv
BY DEF Init, ReaderInit, SafeInv, Places

LEMMA GoroutineSafe ==
  ASSUME SafeInv, StartGoroutine PROVE SafeInv'
<1> USE DEF SafeInv
<1>1. CASE ReadFill
  BY <1>1 DEF ReadFill, NextFile, AfterReading
<1>2. CASE ReadSend
  <2>1. ~closed
    BY <1>2 DEF ReadSend
  <2> QED BY <1>2, <2>1 DEF ReadSend, SendOrDone, NextFile, AfterReading
<1>3. CASE SeekEnd
  BY <1>3 DEF SeekEnd
<1>4. CASE AddWatcher
  BY <1>4 DEF AddWatcher, NextFile, Places
<1>5. CASE EndFollow \/ CloseAllWatchers
  BY <1>5 DEF EndFollow, CloseAllWatchers
<1>6. CASE CloseLines
  BY <1>6 DEF CloseLines
<1> QED BY <1>1, <1>2, <1>3, <1>4, <1>5, <1>6 DEF StartGoroutine

LEMMA WatcherSafe ==
  ASSUME SafeInv, NEW f \in Files, WatchFile(f) PROVE SafeInv'
<1>1. tail[f] # "off" /\ f \in watched
  BY DEF SafeInv, WatchFile, TakeEvent, StatGrown, Reopen, TailFill, TailSend, TailExit
<1>2. ~closed
  BY <1>1 DEF SafeInv
<1>3. UNCHANGED <<main, watched, closed, panicked>>
  BY <1>2 DEF WatchFile, TakeEvent, StatGrown, Reopen, TailFill, TailSend, TailExit, SendOrDone
<1>4. tail' = tail \/ \E place \in Places \ {"off"} : tail' = [tail EXCEPT ![f] = place]
  BY DEF WatchFile, TakeEvent, StatGrown, Reopen, TailFill, TailSend, TailExit, SendOrDone,
         Goto, GotoLocking, Places
<1> QED BY <1>1, <1>3, <1>4 DEF SafeInv

LEMMA SafeInductive == SafeInv /\ [Next]_vars => SafeInv'
<1> SUFFICES ASSUME SafeInv, [Next]_vars PROVE SafeInv'
  OBVIOUS
<1>1. ASSUME UNCHANGED <<tail, watched, main, closed, panicked>> PROVE SafeInv'
  BY <1>1 DEF SafeInv
<1>2. CASE Disk
  BY <1>1, <1>2 DEF Disk, WriteLine, Truncate
<1>3. CASE Reader \/ \E f \in Files : Watch(f)
  BY <1>3, GoroutineSafe, WatcherSafe DEF Reader, Watch
<1>4. CASE Forwarder
  BY <1>1, <1>4 DEF Forwarder, Receive, ReaderDone, StopReader, Forward, LeaveReader, readerVars
<1>5. CASE Loop \/ Quit \/ UNCHANGED vars
  BY <1>1, <1>5 DEF Loop, ProcessLine, Finish, Quit, vars, readerVars
<1> QED BY <1>2, <1>3, <1>4, <1>5 DEF Next

LEMMA SafeInvariance == Spec => []SafeInv
BY SafeInitial, SafeInductive, PTL DEF Spec

(* No goroutine sends to the channel that the end of follow mode closes:    *)
(* it is closed only when there was never a watcher (filereader.go).        *)
THEOREM ClosedIsNotSentTo == Spec => []NoSendOnClosed
<1>1. SafeInv => NoSendOnClosed
  BY DEF SafeInv, NoSendOnClosed
<1> QED BY <1>1, SafeInvariance, PTL

-----------------------------------------------------------------------------
(* Where the lines of the start are. *)

Lines == Files \X Nat
Has(s, x) == \E i \in 1..Len(s) : s[i] = x

ReadTypes ==
  /\ content \in [Files -> Seq(Nat)] /\ written \in [Files -> Nat] /\ truncations \in Nat
  /\ offset \in [Files -> Nat] /\ scanned \in [Files -> Seq(Nat)]
  /\ lineChan \in Seq(Lines) /\ inputChan \in Seq(Lines) /\ processed \in Seq(Lines)
  /\ forwarder = "forward" => forwarded \in Lines
  /\ current \in Files /\ quit \in BOOLEAN

(* Nothing changes the first lines of a file that is not truncated.         *)
FirstLinesKept ==
  truncations = 0 =>
    \A f \in Files : /\ FirstLines <= Len(content[f])
                     /\ \A n \in 1..FirstLines : content[f][n] = n

(* Each stage ends behind the one before it.                                *)
StagesEnd ==
  quit = FALSE =>
    /\ stopped = FALSE
    /\ forwarder = "exited" => closed /\ lineChan = <<>>
    /\ inputClosed => forwarder = "exited"
    /\ loop = "finished" => inputClosed /\ inputChan = <<>>

(* A line is processed, or on its way, or its file is not read to the end.  *)
Travels(line) ==
  \/ line \in Blank
  \/ Has(processed, line) \/ Has(inputChan, line) \/ Has(lineChan, line)
  \/ forwarder = "forward" /\ forwarded = line

ToRead(f, n) ==
  main = "read" /\ f >= current /\ (Has(scanned[f], n) \/ n > offset[f])

Reached ==
  quit = FALSE /\ truncations = 0 =>
    \A f \in Files : \A n \in 1..FirstLines : Travels(<<f, n>>) \/ ToRead(f, n)

ReadInv == SafeInv /\ ReadTypes /\ FirstLinesKept /\ StagesEnd /\ Reached

LEMMA HasAppend ==
  ASSUME NEW S, NEW s \in Seq(S), NEW x \in S
  PROVE  /\ Append(s, x) \in Seq(S)
         /\ Has(Append(s, x), x)
         /\ \A y : Has(s, y) => Has(Append(s, x), y)
BY AppendProperties DEF Has

LEMMA HasTail ==
  ASSUME NEW S, NEW s \in Seq(S), s # <<>>
  PROVE  /\ Tail(s) \in Seq(S) /\ Head(s) \in S
         /\ \A y : Has(s, y) => y = Head(s) \/ Has(Tail(s), y)
<1>1. /\ Tail(s) \in Seq(S) /\ Head(s) \in S /\ Len(s) \in Nat /\ Len(Tail(s)) = Len(s) - 1
      /\ \A i \in 1..Len(Tail(s)) : Tail(s)[i] = s[i + 1]
      /\ Head(s) = s[1]
  BY HeadTailProperties
<1>2. ASSUME NEW y, Has(s, y), y # Head(s) PROVE Has(Tail(s), y)
  <2>1. PICK i \in 1..Len(s) : s[i] = y
    BY <1>2 DEF Has
  <2>2. i # 1
    BY <1>1, <1>2, <2>1
  <2>3. i - 1 \in 1..Len(Tail(s)) /\ (i - 1) + 1 = i
    BY <1>1, <2>2
  <2> QED BY <1>1, <2>1, <2>3 DEF Has
<1> QED BY <1>1, <1>2

LEMMA ReadInitial == Init => ReadInv
<1> SUFFICES ASSUME Init PROVE ReadInv
  OBVIOUS
<1> DEFINE first == [n \in 1..FirstLines |-> n]
<1>1. first \in Seq(Nat) /\ Len(first) = FirstLines /\ \A n \in 1..FirstLines : first[n] = n
  <2>1. first \in [1..FirstLines -> Nat]
    OBVIOUS
  <2>2. first \in Seq(Nat)
    BY <2>1, FileReaderAssumption, SeqDef
  <2>3. Len(first) = FirstLines
    BY <2>1, <2>2, FileReaderAssumption, LenProperties
  <2> QED BY <2>2, <2>3
<1>2. content = [f \in Files |-> first]
  BY DEF Init, ReaderInit
<1> HIDE DEF first
<1>3. ReadTypes
  <2>1. 1 \in Files
    BY FileReaderAssumption DEF Files
  <2>3. /\ content \in [Files -> Seq(Nat)] /\ written \in [Files -> Nat] /\ truncations \in Nat
        /\ offset \in [Files -> Nat] /\ scanned \in [Files -> Seq(Nat)]
    BY <1>1, <1>2, FileReaderAssumption DEF Init, ReaderInit
  <2>4. lineChan \in Seq(Lines) /\ inputChan \in Seq(Lines) /\ processed \in Seq(Lines)
    BY DEF Init, ReaderInit
  <2>5. quit \in BOOLEAN
    BY DEF Init
  <2>6. current \in Files /\ forwarder # "forward"
    BY <2>1 DEF Init, ReaderInit
  <2> QED BY <2>3, <2>4, <2>5, <2>6 DEF ReadTypes
<1>4. FirstLinesKept
  BY <1>1, <1>2, FileReaderAssumption DEF FirstLinesKept
<1>5. StagesEnd
  BY DEF Init, ReaderInit, StagesEnd
<1>6. Reached
  BY FileReaderAssumption DEF Init, ReaderInit, Reached, ToRead, Files
<1> QED BY <1>3, <1>4, <1>5, <1>6, SafeInitial DEF ReadInv

-----------------------------------------------------------------------------
(* The steps: what has to be carried on. *)

LEMMA Carried ==
  ASSUME ReadInv, SafeInv', ReadTypes', FirstLinesKept', StagesEnd',
         quit' = FALSE => quit = FALSE, truncations' = 0 => truncations = 0,
         ASSUME quit' = FALSE, truncations' = 0, NEW f \in Files, NEW n \in 1..FirstLines
         PROVE  /\ Travels(<<f, n>>) => Travels(<<f, n>>)'
                /\ ToRead(f, n) => Travels(<<f, n>>)' \/ ToRead(f, n)'
  PROVE  ReadInv'
<1>1. Reached'
  <2> SUFFICES ASSUME quit' = FALSE, truncations' = 0, NEW f \in Files, NEW n \in 1..FirstLines
               PROVE  Travels(<<f, n>>)' \/ ToRead(f, n)'
    BY DEF Reached
  <2>1. Travels(<<f, n>>) \/ ToRead(f, n)
    BY DEF ReadInv, Reached
  <2> QED BY <2>1
<1> QED BY <1>1 DEF ReadInv

(* Writers add lines, and a truncation is an excuse.                        *)
LEMMA DiskReaches ==
  ASSUME ReadInv, SafeInv', Disk PROVE ReadInv'
<1>1. UNCHANGED <<inputVars, follow, stopped, lineChan, closed, main, current, offset, scanned>>
  BY DEF Disk, WriteLine, Truncate, readVars
<1>2. ASSUME NEW f \in Files, WriteLine(f)
      PROVE  ReadTypes' /\ FirstLinesKept' /\ truncations' = truncations
  <2>1. /\ written' = [written EXCEPT ![f] = @ + 1] /\ truncations' = truncations
        /\ content' = [content EXCEPT ![f] = Append(@, written'[f])]
    BY <1>2 DEF WriteLine
  <2>2. written \in [Files -> Nat] /\ content \in [Files -> Seq(Nat)] /\ FirstLines \in Nat
    BY FileReaderAssumption DEF ReadInv, ReadTypes
  <2>3. written' \in [Files -> Nat] /\ written'[f] \in Nat /\ content[f] \in Seq(Nat)
    BY <2>1, <2>2
  <2>4. PICK longer : longer = Append(content[f], written'[f])
    OBVIOUS
  <2>5. /\ longer \in Seq(Nat) /\ Len(longer) = Len(content[f]) + 1
        /\ \A n \in 1..Len(content[f]) : longer[n] = content[f][n]
    BY <2>3, <2>4
  <2>6. /\ content' \in [Files -> Seq(Nat)] /\ content'[f] = longer
        /\ \A g \in Files : g # f => content'[g] = content[g]
    BY <2>1, <2>2, <2>4, <2>5
  <2>7. ReadTypes'
    BY <1>1, <2>1, <2>3, <2>6 DEF ReadInv, ReadTypes, inputVars
  <2>8. FirstLinesKept'
    <3> SUFFICES ASSUME truncations = 0, NEW g \in Files
                 PROVE  /\ FirstLines <= Len(content'[g])
                        /\ \A n \in 1..FirstLines : content'[g][n] = n
      BY <2>1 DEF FirstLinesKept
    <3>1. FirstLines <= Len(content[g]) /\ \A n \in 1..FirstLines : content[g][n] = n
      BY DEF ReadInv, FirstLinesKept
    <3>2. CASE g = f
      <4>1. Len(content[f]) \in Nat
        BY <2>3
      <4>2. FirstLines <= Len(longer) /\ \A n \in 1..FirstLines : n \in 1..Len(content[f])
        BY <2>2, <2>5, <3>1, <3>2, <4>1
      <4> QED BY <2>5, <2>6, <3>1, <3>2, <4>2
    <3>3. CASE g # f
      BY <2>6, <3>1, <3>3
    <3> QED BY <3>2, <3>3
  <2> QED BY <2>1, <2>7, <2>8
<1>3. ASSUME NEW f \in Files, Truncate(f)
      PROVE  ReadTypes' /\ FirstLinesKept' /\ truncations' # 0
  <2>1. /\ written' = written /\ truncations' = truncations + 1
        /\ content' = [content EXCEPT ![f] = <<>>]
    BY <1>3 DEF Truncate
  <2>2. content' \in [Files -> Seq(Nat)] /\ truncations' \in Nat /\ truncations' # 0
    BY <2>1 DEF ReadInv, ReadTypes
  <2> QED BY <1>1, <2>1, <2>2 DEF ReadInv, ReadTypes, FirstLinesKept, inputVars
<1>4. ReadTypes' /\ FirstLinesKept' /\ (truncations' = 0 => truncations = 0)
  BY <1>2, <1>3 DEF Disk
<1>5. StagesEnd'
  BY <1>1 DEF ReadInv, StagesEnd, inputVars
<1>6. ASSUME NEW f \in Files, NEW n \in 1..FirstLines
      PROVE  /\ Travels(<<f, n>>) => Travels(<<f, n>>)'
             /\ ToRead(f, n) => ToRead(f, n)'
  BY <1>1 DEF Travels, ToRead, inputVars
<1> QED BY <1>1, <1>4, <1>5, <1>6, Carried DEF inputVars

(* A line goes from a scanner's buffer to the channel.                      *)
LEMMA SendCarries ==
  ASSUME ReadInv, NEW f \in Files, scanned[f] # <<>>,
         lineChan' = Append(lineChan, <<f, Head(scanned[f])>>),
         scanned' = [scanned EXCEPT ![f] = Tail(@)]
  PROVE  /\ lineChan' \in Seq(Lines) /\ scanned' \in [Files -> Seq(Nat)]
         /\ \A line : Has(lineChan, line) => Has(lineChan', line)
         /\ \A g \in Files : \A n : Has(scanned[g], n) => Has(scanned'[g], n) \/ Has(lineChan', <<g, n>>)
<1>1. /\ scanned \in [Files -> Seq(Nat)] /\ scanned[f] \in Seq(Nat) /\ lineChan \in Seq(Lines)
  BY DEF ReadInv, ReadTypes
<1>2. /\ Tail(scanned[f]) \in Seq(Nat) /\ Head(scanned[f]) \in Nat
      /\ \A n : Has(scanned[f], n) => n = Head(scanned[f]) \/ Has(Tail(scanned[f]), n)
  BY <1>1, HasTail
<1>3. <<f, Head(scanned[f])>> \in Lines
  BY <1>2 DEF Lines
<1>4. /\ lineChan' \in Seq(Lines) /\ Has(lineChan', <<f, Head(scanned[f])>>)
      /\ \A line : Has(lineChan, line) => Has(lineChan', line)
  BY <1>1, <1>3, HasAppend
<1>5. /\ scanned' \in [Files -> Seq(Nat)] /\ scanned'[f] = Tail(scanned[f])
      /\ \A g \in Files : g # f => scanned'[g] = scanned[g]
  BY <1>1, <1>2
<1>6. ASSUME NEW g \in Files, NEW n, Has(scanned[g], n)
      PROVE  Has(scanned'[g], n) \/ Has(lineChan', <<g, n>>)
  <2>1. CASE g = f
    BY <1>2, <1>4, <1>5, <1>6, <2>1
  <2>2. CASE g # f
    BY <1>5, <1>6, <2>2
  <2> QED BY <2>1, <2>2
<1> QED BY <1>4, <1>5, <1>6

(* The rest of a sequence has all that is behind the offset.                *)
LEMMA RestOf ==
  ASSUME NEW c \in Seq(Nat), NEW o \in Nat
  PROVE  LET rest == SubSeq(c, o + 1, Len(c)) IN
         /\ rest \in Seq(Nat) /\ Len(rest) \in Nat
         /\ \A n \in 1..Len(c) : n > o => Has(rest, c[n])
<1> DEFINE rest == SubSeq(c, o + 1, Len(c))
           m == o + 1
           k == Len(c)
<1>1. k \in Nat /\ k \in Int /\ m \in Int /\ m = o + 1
  OBVIOUS
<1>2. \A i \in m..k : c[i] \in Nat
  OBVIOUS
<1>3. rest = SubSeq(c, m, k)
  OBVIOUS
<1> HIDE DEF m, k
<1>4. /\ SubSeq(c, m, k) \in Seq(Nat)
      /\ Len(SubSeq(c, m, k)) = IF m <= k THEN k - m + 1 ELSE 0
      /\ \A i \in 1..(k - m + 1) : SubSeq(c, m, k)[i] = c[m + i - 1]
  BY <1>1, <1>2, SubSeqProperties
<1> HIDE DEF rest
<1>5. rest \in Seq(Nat) /\ Len(rest) \in Nat
  BY <1>1, <1>3, <1>4
<1>6. ASSUME NEW n \in 1..k, n > o PROVE Has(rest, c[n])
  <2>1. PICK i : i = n - o
    OBVIOUS
  <2>2. i \in 1..(k - m + 1) /\ m + i - 1 = n /\ m <= k
    BY <1>1, <1>6, <2>1
  <2>3. rest[i] = c[n] /\ i \in 1..Len(rest)
    BY <1>3, <1>4, <2>2
  <2> QED BY <2>3 DEF Has
<1> QED BY <1>5, <1>6 DEF rest, k

(* What reading on takes is in the buffer afterwards.                       *)
LEMMA FillTakes ==
  ASSUME ReadInv, NEW f \in Files, Fill(f), scanned[f] = <<>>
  PROVE  /\ offset' \in [Files -> Nat] /\ scanned' \in [Files -> Seq(Nat)]
         /\ \A g \in Files : g # f => scanned'[g] = scanned[g] /\ offset'[g] = offset[g]
         /\ truncations = 0 =>
              \A n \in 1..FirstLines : n > offset[f] => Has(scanned'[f], n)
<1>1. /\ content[f] \in Seq(Nat) /\ offset[f] \in Nat /\ Len(content[f]) \in Nat
      /\ offset \in [Files -> Nat] /\ scanned \in [Files -> Seq(Nat)]
  BY DEF ReadInv, ReadTypes
<1>2. PICK missing : missing = Missing(f)
  OBVIOUS
<1>3. /\ missing \in Seq(Nat) /\ Len(missing) \in Nat
      /\ \A n \in 1..Len(content[f]) : n > offset[f] => Has(missing, content[f][n])
  BY <1>1, <1>2, RestOf DEF Missing
<1>4. /\ scanned' = [scanned EXCEPT ![f] = missing]
      /\ offset' = [offset EXCEPT ![f] = @ + Len(missing)]
  BY <1>2 DEF Fill
<1>5. /\ offset' \in [Files -> Nat] /\ scanned' \in [Files -> Seq(Nat)]
      /\ \A g \in Files : g # f => scanned'[g] = scanned[g] /\ offset'[g] = offset[g]
      /\ scanned'[f] = missing
  BY <1>1, <1>3, <1>4
<1>6. ASSUME truncations = 0, NEW n \in 1..FirstLines, n > offset[f] PROVE Has(missing, n)
  <2>1. n \in 1..Len(content[f]) /\ content[f][n] = n
    BY <1>1, <1>6, FileReaderAssumption, SMTT(30) DEF ReadInv, FirstLinesKept
  <2> QED BY <1>3, <1>6, <2>1
<1> QED BY <1>5, <1>6

(* At the end of a file nothing of it is left to read.                      *)
LEMMA NothingMissing ==
  ASSUME ReadInv, NEW f \in Files, Missing(f) = <<>>, scanned[f] = <<>>, truncations = 0,
         NEW n \in 1..FirstLines
  PROVE  ~Has(scanned[f], n) /\ ~(n > offset[f])
<1>1. /\ content[f] \in Seq(Nat) /\ offset[f] \in Nat /\ Len(content[f]) \in Nat
      /\ FirstLines <= Len(content[f]) /\ FirstLines \in Nat
  BY FileReaderAssumption DEF ReadInv, ReadTypes, FirstLinesKept
<1>2. Len(Missing(f)) = IF offset[f] + 1 <= Len(content[f]) THEN Len(content[f]) - (offset[f] + 1) + 1 ELSE 0
  <2>1. \A i \in (offset[f] + 1)..Len(content[f]) : content[f][i] \in Nat
    BY <1>1
  <2>2. offset[f] + 1 \in Int /\ Len(content[f]) \in Int
    BY <1>1
  <2> QED BY <2>1, <2>2, SubSeqProperties DEF Missing
<1>3. Len(Missing(f)) = 0
  OBVIOUS
<1>4. ~(n > offset[f])
  BY <1>1, <1>2, <1>3
<1> QED BY <1>4 DEF Has

(* What the goroutine of Start and the watchers leave alone.                *)
LEMMA ReadersOnly ==
  ASSUME ReadInv, SafeInv', UNCHANGED inputVars,
         UNCHANGED <<content, written, truncations, stopped>>,
         closed => closed' /\ lineChan' = lineChan,
         lineChan' \in Seq(Lines), offset' \in [Files -> Nat], scanned' \in [Files -> Seq(Nat)],
         current' \in Files,
         \A line : Has(lineChan, line) => Has(lineChan', line),
         ASSUME quit = FALSE, truncations = 0, NEW f \in Files, NEW n \in 1..FirstLines, ToRead(f, n)
         PROVE  Has(lineChan', <<f, n>>) \/ ToRead(f, n)'
  PROVE  ReadInv'
<1>1. ReadTypes' /\ FirstLinesKept' /\ quit' = quit
  BY DEF ReadInv, ReadTypes, FirstLinesKept, inputVars
<1>2. StagesEnd'
  BY DEF ReadInv, StagesEnd, inputVars
<1>3. ASSUME quit' = FALSE, truncations' = 0, NEW f \in Files, NEW n \in 1..FirstLines
      PROVE  /\ Travels(<<f, n>>) => Travels(<<f, n>>)'
             /\ ToRead(f, n) => Travels(<<f, n>>)' \/ ToRead(f, n)'
  BY <1>1, <1>3 DEF Travels, inputVars
<1> QED BY <1>1, <1>2, <1>3, Carried

(* The loop over the files goes on with the next one, or every file is done.*)
LEMMA NextFileOf ==
  ASSUME ReadInv, NEW first, NEW done, first # done, NextFile(first, done)
  PROVE  /\ current' \in Files
         /\ main' = first => \A f \in Files : f >= current /\ f # current => f >= current'
         /\ main' # first => \A f \in Files : f >= current => f = current
<1>1. NumFiles \in Nat \ {0} /\ current \in 1..NumFiles
  BY FileReaderAssumption DEF ReadInv, ReadTypes, Files
<1>2. CASE current < NumFiles
  <2>1. current' = current + 1 /\ main' = first
    BY <1>2 DEF NextFile
  <2> QED BY <1>1, <1>2, <2>1 DEF Files
<1>3. CASE ~(current < NumFiles)
  <2>1. current' = 1 /\ main' = done
    BY <1>3 DEF NextFile
  <2> QED BY <1>1, <1>3, <2>1 DEF Files
<1> QED BY <1>2, <1>3

LEMMA ReadFillReaches ==
  ASSUME ReadInv, SafeInv', ReadFill, UNCHANGED inputVars PROVE ReadInv'
<1>1. /\ main = "read" /\ scanned[current] = <<>> /\ current \in Files
      /\ UNCHANGED <<content, written, truncations, stopped, lineChan, closed>>
      /\ lineChan \in Seq(Lines) /\ offset \in [Files -> Nat] /\ scanned \in [Files -> Seq(Nat)]
  BY DEF ReadFill, diskVars, ReadInv, ReadTypes
<1>2. CASE Missing(current) # <<>>
  <2>1. Fill(current) /\ main' = main /\ current' = current
    BY <1>2 DEF ReadFill
  <2>2. /\ offset' \in [Files -> Nat] /\ scanned' \in [Files -> Seq(Nat)]
        /\ \A g \in Files : g # current => scanned'[g] = scanned[g] /\ offset'[g] = offset[g]
        /\ truncations = 0 =>
             \A n \in 1..FirstLines : n > offset[current] => Has(scanned'[current], n)
    BY <1>1, <2>1, FillTakes
  <2>3. ASSUME truncations = 0, NEW f \in Files, NEW n \in 1..FirstLines, ToRead(f, n)
        PROVE  ToRead(f, n)'
    <3>1. CASE f = current
      <4>1. ~Has(scanned[f], n)
        BY <1>1, <3>1 DEF Has
      <4> QED BY <1>1, <2>1, <2>2, <2>3, <3>1, <4>1 DEF ToRead
    <3>2. CASE f # current
      BY <2>1, <2>2, <2>3, <3>2 DEF ToRead
    <3> QED BY <3>1, <3>2
  <2> QED BY <1>1, <2>1, <2>2, <2>3, ReadersOnly
<1>3. CASE Missing(current) = <<>>
  <2>1. NextFile("read", AfterReading) /\ UNCHANGED <<offset, scanned>>
    BY <1>3 DEF ReadFill, readVars
  <2>2. AfterReading # "read"
    BY DEF AfterReading
  <2>3. /\ current' \in Files
        /\ main' = "read" => \A f \in Files : f >= current /\ f # current => f >= current'
        /\ main' # "read" => \A f \in Files : f >= current => f = current
    BY <2>1, <2>2, NextFileOf
  <2>4. ASSUME truncations = 0, NEW f \in Files, NEW n \in 1..FirstLines, ToRead(f, n)
        PROVE  ToRead(f, n)'
    <3>1. f >= current /\ (Has(scanned[f], n) \/ n > offset[f])
      BY <2>4 DEF ToRead
    <3>2. f # current
      BY <1>1, <1>3, <2>4, <3>1, NothingMissing
    <3> QED BY <2>1, <2>3, <3>1, <3>2 DEF ToRead
  <2> QED BY <1>1, <2>1, <2>3, <2>4, ReadersOnly
<1> QED BY <1>2, <1>3

LEMMA ReadSendReaches ==
  ASSUME ReadInv, SafeInv', ReadSend, UNCHANGED inputVars PROVE ReadInv'
<1>1. /\ main = "read" /\ scanned[current] # <<>> /\ current \in Files
      /\ UNCHANGED <<content, written, truncations, stopped, closed>>
      /\ lineChan \in Seq(Lines) /\ offset \in [Files -> Nat] /\ scanned \in [Files -> Seq(Nat)]
  BY DEF ReadSend, diskVars, ReadInv, ReadTypes
<1>2. ~closed
  BY DEF ReadSend, ReadInv, SafeInv
<1>3. CASE stopped /\ scanned' = [scanned EXCEPT ![current] = <<>>]
           /\ NextFile("read", AfterReading) /\ UNCHANGED <<lineChan, offset>>
  <2>1. quit # FALSE
    BY <1>3 DEF ReadInv, StagesEnd
  <2>2. current' \in Files
    <3>1. AfterReading # "read" /\ NextFile("read", AfterReading)
      BY <1>3 DEF AfterReading
    <3> QED BY <3>1, NextFileOf
  <2>3. scanned' \in [Files -> Seq(Nat)]
    BY <1>1, <1>3
  <2> QED BY <1>1, <1>2, <1>3, <2>1, <2>2, <2>3, ReadersOnly
<1>4. CASE /\ lineChan' = Append(lineChan, <<current, Head(scanned[current])>>)
           /\ scanned' = [scanned EXCEPT ![current] = Tail(@)]
           /\ UNCHANGED <<main, current, offset>>
  <2>1. /\ lineChan' \in Seq(Lines) /\ scanned' \in [Files -> Seq(Nat)]
        /\ \A line : Has(lineChan, line) => Has(lineChan', line)
        /\ \A g \in Files : \A n : Has(scanned[g], n) => Has(scanned'[g], n) \/ Has(lineChan', <<g, n>>)
    BY <1>1, <1>4, SendCarries
  <2>2. ASSUME NEW f \in Files, NEW n \in 1..FirstLines, ToRead(f, n)
        PROVE  Has(lineChan', <<f, n>>) \/ ToRead(f, n)'
    BY <1>4, <2>1, <2>2 DEF ToRead
  <2> QED BY <1>1, <1>2, <1>4, <2>1, <2>2, ReadersOnly
<1> QED BY <1>2, <1>3, <1>4 DEF ReadSend, SendOrDone

LEMMA GoroutineReaches ==
  ASSUME ReadInv, SafeInv', Reader PROVE ReadInv'
<1>1. UNCHANGED inputVars /\ StartGoroutine
  BY DEF Reader
<1>2. CASE SeekEnd \/ AddWatcher \/ EndFollow \/ CloseAllWatchers \/ CloseLines
  <2>1. /\ main # "read" /\ UNCHANGED <<content, written, truncations, stopped, lineChan, scanned>>
        /\ closed => closed'
    BY <1>2 DEF SeekEnd, AddWatcher, EndFollow, CloseAllWatchers, CloseLines, diskVars, readVars
  <2>2. /\ lineChan \in Seq(Lines) /\ offset \in [Files -> Nat] /\ scanned \in [Files -> Seq(Nat)]
        /\ current \in Files /\ content[current] \in Seq(Nat)
    BY DEF ReadInv, ReadTypes
  <2>3. offset' \in [Files -> Nat]
    BY <1>2, <2>2 DEF SeekEnd, AddWatcher, EndFollow, CloseAllWatchers, CloseLines, readVars
  <2>4. current' \in Files
    BY <1>2, <2>2, NextFileOf DEF SeekEnd, AddWatcher, EndFollow, CloseAllWatchers, CloseLines
  <2>5. \A f \in Files, n \in 1..FirstLines : ~ToRead(f, n)
    BY <2>1 DEF ToRead
  <2> QED BY <1>1, <2>1, <2>2, <2>3, <2>4, <2>5, ReadersOnly
<1> QED BY <1>1, <1>2, ReadFillReaches, ReadSendReaches DEF StartGoroutine

(* A watcher runs only when the files were read.                            *)
LEMMA WatcherReaches ==
  ASSUME ReadInv, SafeInv', NEW f \in Files, Watch(f) PROVE ReadInv'
<1>1. UNCHANGED inputVars /\ WatchFile(f)
  BY DEF Watch
<1>2. /\ UNCHANGED <<content, written, truncations, stopped, closed, main, current>>
      /\ tail[f] # "off"
  BY <1>1 DEF WatchFile, TakeEvent, StatGrown, Reopen, TailFill, TailSend, TailExit, diskVars
<1>3. main # "read" /\ ~closed
  BY <1>2 DEF ReadInv, SafeInv
<1>4. /\ lineChan \in Seq(Lines) /\ offset \in [Files -> Nat] /\ scanned \in [Files -> Seq(Nat)]
      /\ current \in Files
  BY DEF ReadInv, ReadTypes
<1>5. /\ lineChan' \in Seq(Lines) /\ offset' \in [Files -> Nat] /\ scanned' \in [Files -> Seq(Nat)]
      /\ \A line : Has(lineChan, line) => Has(lineChan', line)
  <2>1. CASE TakeEvent(f) \/ StatGrown(f) \/ Reopen(f) \/ TailExit(f)
    BY <1>4, <2>1 DEF TakeEvent, StatGrown, Reopen, TailExit, readVars
  <2>2. CASE TailFill(f)
    BY <1>4, <2>2, FillTakes DEF TailFill, readVars
  <2>3. CASE TailSend(f)
    <3>1. CASE /\ lineChan' = Append(lineChan, <<f, Head(scanned[f])>>)
               /\ scanned' = [scanned EXCEPT ![f] = Tail(@)]
               /\ UNCHANGED offset /\ scanned[f] # <<>>
      BY <1>4, <3>1, SendCarries
    <3>2. CASE scanned' = [scanned EXCEPT ![f] = <<>>] /\ UNCHANGED <<lineChan, offset>>
      BY <1>4, <3>2
    <3> QED BY <1>3, <2>3, <3>1, <3>2 DEF TailSend, SendOrDone
  <2> QED BY <1>1, <2>1, <2>2, <2>3 DEF WatchFile
<1>6. \A g \in Files, n \in 1..FirstLines : ~ToRead(g, n)
  BY <1>3 DEF ToRead
<1> QED BY <1>1, <1>2, <1>3, <1>4, <1>5, <1>6, ReadersOnly

(* The steps behind the reader leave everything to read where it is.        *)
LEMMA Behind ==
  ASSUME ReadInv, SafeInv', StagesEnd',
         UNCHANGED <<content, written, truncations, offset, scanned, main, current>>,
         quit' = FALSE => quit = FALSE, quit' \in BOOLEAN,
         lineChan' \in Seq(Lines), inputChan' \in Seq(Lines), processed' \in Seq(Lines),
         forwarder' = "forward" => forwarded' \in Lines,
         ASSUME quit = FALSE, NEW line \in Lines, Travels(line) PROVE Travels(line)'
  PROVE  ReadInv'
<1>1. ReadTypes' /\ FirstLinesKept'
  BY DEF ReadInv, ReadTypes, FirstLinesKept
<1>2. ASSUME quit' = FALSE, truncations' = 0, NEW f \in Files, NEW n \in 1..FirstLines
      PROVE  /\ Travels(<<f, n>>) => Travels(<<f, n>>)'
             /\ ToRead(f, n) => ToRead(f, n)'
  <2>1. <<f, n>> \in Lines
    BY FileReaderAssumption DEF Lines
  <2> QED BY <1>2, <2>1 DEF ToRead
<1> QED BY <1>1, <1>2, Carried

LEMMA ForwarderReaches ==
  ASSUME ReadInv, SafeInv', Forwarder PROVE ReadInv'
<1>1. /\ UNCHANGED <<content, written, truncations, offset, scanned, main, current, quit, processed, loop>>
      /\ forwarder \in {"receive", "forward"} /\ closed' = closed
  BY DEF Forwarder, Receive, ReaderDone, StopReader, Forward, LeaveReader, readerVars, diskVars, readVars
<1>2. /\ lineChan \in Seq(Lines) /\ inputChan \in Seq(Lines) /\ processed \in Seq(Lines)
      /\ forwarder = "forward" => forwarded \in Lines
      /\ quit \in BOOLEAN
  BY DEF ReadInv, ReadTypes
<1>3. ~inputClosed \/ quit # FALSE
  BY <1>1 DEF ReadInv, StagesEnd
<1>4. CASE Receive
  <2>1. /\ lineChan' \in Seq(Lines) /\ Head(lineChan) \in Lines
        /\ \A line : Has(lineChan, line) => line = Head(lineChan) \/ Has(lineChan', line)
    BY <1>2, <1>4, HasTail DEF Receive
  <2>2. /\ forwarder = "receive" /\ UNCHANGED <<inputChan, inputClosed, stopped>>
        /\ \/ Head(lineChan) \in Blank /\ forwarder' = "receive"
           \/ forwarded' = Head(lineChan) /\ forwarder' = "forward"
    BY <1>4 DEF Receive
  <2>3. StagesEnd'
    BY <1>1, <1>3, <2>2 DEF ReadInv, StagesEnd
  <2>4. forwarder' = "forward" => forwarded' \in Lines
    BY <2>1, <2>2
  <2>5. ASSUME NEW line, Travels(line) PROVE Travels(line)'
    BY <1>1, <2>1, <2>2, <2>5 DEF Travels
  <2> QED BY <1>1, <1>2, <2>1, <2>2, <2>3, <2>4, <2>5, Behind
<1>5. CASE Forward
  <2>1. /\ forwarder = "forward" /\ forwarder' = "receive" /\ inputChan' = Append(inputChan, forwarded)
        /\ UNCHANGED <<lineChan, inputClosed, stopped>>
    BY <1>5 DEF Forward, readerVars
  <2>2. /\ inputChan' \in Seq(Lines) /\ Has(inputChan', forwarded)
        /\ \A line : Has(inputChan, line) => Has(inputChan', line)
    BY <1>2, <2>1, HasAppend
  <2>3. StagesEnd'
    BY <1>1, <1>3, <2>1 DEF ReadInv, StagesEnd
  <2>4. ASSUME NEW line, Travels(line) PROVE Travels(line)'
    BY <1>1, <2>1, <2>2, <2>4 DEF Travels
  <2> QED BY <1>1, <1>2, <2>1, <2>2, <2>3, <2>4, Behind
<1>6. CASE ReaderDone
  <2>1. /\ forwarder = "receive" /\ forwarder' = "exited" /\ lineChan = <<>> /\ closed
        /\ UNCHANGED <<lineChan, inputChan, stopped>>
    BY <1>6 DEF ReaderDone, readerVars
  <2>2. StagesEnd'
    BY <1>1, <1>3, <2>1 DEF ReadInv, StagesEnd
  <2>3. ASSUME NEW line, Travels(line) PROVE Travels(line)'
    BY <1>1, <2>1, <2>3 DEF Travels
  <2> QED BY <1>1, <1>2, <2>1, <2>2, <2>3, Behind
<1>7. CASE StopReader \/ LeaveReader
  <2>1. quit /\ forwarder' = "exited" /\ UNCHANGED <<lineChan, inputChan>>
    BY <1>7 DEF StopReader, LeaveReader, readerVars
  <2>2. quit # FALSE /\ quit' # FALSE
    BY <1>1, <2>1
  <2>3. StagesEnd'
    BY <2>2 DEF StagesEnd
  <2> QED BY <1>1, <1>2, <2>1, <2>2, <2>3, Behind
<1> QED BY <1>4, <1>5, <1>6, <1>7 DEF Forwarder

LEMMA LoopReaches ==
  ASSUME ReadInv, SafeInv', Loop \/ Quit \/ UNCHANGED vars PROVE ReadInv'
<1>1. /\ UNCHANGED <<content, written, truncations, offset, scanned, main, current, lineChan, closed,
                     stopped, forwarder, forwarded, inputClosed>>
  BY DEF Loop, ProcessLine, Finish, Quit, vars, readerVars, diskVars, readVars, inputVars
<1>2. /\ lineChan \in Seq(Lines) /\ inputChan \in Seq(Lines) /\ processed \in Seq(Lines)
      /\ forwarder = "forward" => forwarded \in Lines
      /\ quit \in BOOLEAN
  BY DEF ReadInv, ReadTypes
<1>3. CASE ProcessLine
  <2>1. /\ loop = "check" /\ loop' = loop /\ quit' = quit /\ inputChan # <<>>
        /\ inputChan' = Tail(inputChan) /\ processed' = Append(processed, Head(inputChan))
    BY <1>3 DEF ProcessLine
  <2>2. /\ inputChan' \in Seq(Lines) /\ Head(inputChan) \in Lines
        /\ \A line : Has(inputChan, line) => line = Head(inputChan) \/ Has(inputChan', line)
    BY <1>2, <2>1, HasTail
  <2>3. /\ processed' \in Seq(Lines) /\ Has(processed', Head(inputChan))
        /\ \A line : Has(processed, line) => Has(processed', line)
    BY <1>2, <2>1, <2>2, HasAppend
  <2>4. StagesEnd'
    BY <1>1, <2>1 DEF ReadInv, StagesEnd
  <2>5. ASSUME NEW line, Travels(line) PROVE Travels(line)'
    BY <1>1, <2>2, <2>3, <2>5 DEF Travels
  <2> QED BY <1>1, <1>2, <2>1, <2>2, <2>3, <2>4, <2>5, Behind
<1>4. CASE Finish \/ Quit \/ UNCHANGED vars
  <2>1. /\ UNCHANGED <<inputChan, processed>> 
        /\ quit' = quit \/ quit' = TRUE
        /\ loop' = loop \/ (inputChan = <<>> /\ inputClosed)
    BY <1>4 DEF Finish, Quit, vars, inputVars
  <2>2. StagesEnd'
    BY <1>1, <2>1 DEF ReadInv, StagesEnd
  <2>3. ASSUME NEW line, Travels(line) PROVE Travels(line)'
    BY <1>1, <2>1, <2>3 DEF Travels
  <2> QED BY <1>1, <1>2, <2>1, <2>2, <2>3, Behind
<1> QED BY <1>3, <1>4 DEF Loop

LEMMA ReadInductive == ReadInv /\ [Next]_vars => ReadInv'
<1> SUFFICES ASSUME ReadInv, [Next]_vars PROVE ReadInv'
  OBVIOUS
<1>1. SafeInv'
  BY SafeInductive DEF ReadInv
<1> QED
  BY <1>1, DiskReaches, GoroutineReaches, WatcherReaches, ForwarderReaches, LoopReaches DEF Next

(* When the program reports the end of its input, every line that was in    *)
(* the files has been processed, whatever the capacities of the channels    *)
(* and however the goroutines interleave, unless the user quit or a file    *)
(* was truncated: each stage ends behind the stage before it.               *)
THEOREM EndMeansAllRead == Spec => []FinishedMeansAllRead
<1>1. ReadInv => FinishedMeansAllRead
  <2> SUFFICES ASSUME ReadInv, loop = "finished", ~quit, truncations = 0,
                      NEW f \in Files, NEW n \in 1..FirstLines, <<f, n>> \notin Blank
               PROVE  \E i \in DOMAIN processed : processed[i] = <<f, n>>
    BY DEF FinishedMeansAllRead
  <2>1. CASE quit = FALSE
    <3>1. inputChan = <<>> /\ lineChan = <<>> /\ forwarder = "exited" /\ closed
      BY <2>1 DEF ReadInv, StagesEnd
    <3>2. main = "exited"
      BY <3>1 DEF ReadInv, SafeInv
    <3>3. Travels(<<f, n>>)
      BY <2>1, <3>2 DEF ReadInv, Reached, ToRead
    <3>4. Has(processed, <<f, n>>)
      BY <3>1, <3>3 DEF Travels, Has
    <3>5. processed \in Seq(Lines)
      BY DEF ReadInv, ReadTypes
    <3> QED BY <3>4, <3>5 DEF Has
  <2> QED BY <2>1 DEF ReadInv, ReadTypes
<1>2. Spec => []ReadInv
  BY ReadInitial, ReadInductive, PTL DEF Spec
<1> QED BY <1>1, <1>2, PTL
-----------------------------------------------------------------------------
(* The order of the lines. *)

(* A sequence of lines has those of a file in the order they were written,  *)
(* and one sequence has only older lines of it than another.                *)
Rising(s) == \A i, j \in 1..Len(s) : i < j /\ s[i][1] = s[j][1] => s[i][2] < s[j][2]
Older(s, t) == \A x, y : Has(s, x) /\ Has(t, y) /\ x[1] = y[1] => x[2] < y[2]

LEMMA HasConcat ==
  ASSUME NEW S, NEW s \in Seq(S), NEW t \in Seq(S)
  PROVE  s \o t \in Seq(S) /\ \A x : Has(s \o t, x) <=> Has(s, x) \/ Has(t, x)
<1>1. /\ s \o t \in Seq(S) /\ Len(s \o t) = Len(s) + Len(t) /\ Len(s) \in Nat /\ Len(t) \in Nat
      /\ \A i \in 1..(Len(s) + Len(t)) : (s \o t)[i] = IF i <= Len(s) THEN s[i] ELSE t[i - Len(s)]
  BY ConcatProperties
<1>2. ASSUME NEW x, Has(s \o t, x) PROVE Has(s, x) \/ Has(t, x)
  <2>1. PICK i \in 1..(Len(s) + Len(t)) : (s \o t)[i] = x
    BY <1>1, <1>2 DEF Has
  <2>2. CASE i <= Len(s)
    <3>1. i \in 1..Len(s) /\ s[i] = x
      BY <1>1, <2>1, <2>2
    <3> QED BY <3>1 DEF Has
  <2>3. CASE i > Len(s)
    <3>1. i - Len(s) \in 1..Len(t) /\ t[i - Len(s)] = x
      BY <1>1, <2>1, <2>3
    <3> QED BY <3>1 DEF Has
  <2> QED BY <1>1, <2>2, <2>3
<1>3. ASSUME NEW x, Has(s, x) PROVE Has(s \o t, x)
  <2>1. PICK i \in 1..Len(s) : s[i] = x
    BY <1>3 DEF Has
  <2>2. i \in 1..(Len(s) + Len(t)) /\ (s \o t)[i] = x
    BY <1>1, <2>1
  <2> QED BY <1>1, <2>2 DEF Has
<1>4. ASSUME NEW x, Has(t, x) PROVE Has(s \o t, x)
  <2>1. PICK i \in 1..Len(t) : t[i] = x
    BY <1>4 DEF Has
  <2>2. PICK k : k = i + Len(s)
    OBVIOUS
  <2>3. k \in 1..(Len(s) + Len(t)) /\ ~(k <= Len(s)) /\ k - Len(s) = i
    BY <1>1, <2>1, <2>2
  <2>4. (s \o t)[k] = x
    BY <1>1, <2>1, <2>3
  <2> QED BY <1>1, <2>3, <2>4 DEF Has
<1> QED BY <1>1, <1>2, <1>3, <1>4

LEMMA RisingConcat ==
  ASSUME NEW s \in Seq(Lines), NEW t \in Seq(Lines)
  PROVE  Rising(s \o t) <=> Rising(s) /\ Rising(t) /\ Older(s, t)
<1>1. /\ s \o t \in Seq(Lines) /\ Len(s \o t) = Len(s) + Len(t) /\ Len(s) \in Nat /\ Len(t) \in Nat
      /\ \A i \in 1..(Len(s) + Len(t)) : (s \o t)[i] = IF i <= Len(s) THEN s[i] ELSE t[i - Len(s)]
  BY ConcatProperties
<1>2. \A i \in 1..Len(s) : i \in 1..(Len(s) + Len(t)) /\ (s \o t)[i] = s[i]
  BY <1>1
<1>3. ASSUME NEW i \in 1..Len(t)
      PROVE  i + Len(s) \in 1..(Len(s) + Len(t)) /\ (s \o t)[i + Len(s)] = t[i]
  <2>1. PICK k : k = i + Len(s)
    OBVIOUS
  <2>2. k \in 1..(Len(s) + Len(t)) /\ ~(k <= Len(s)) /\ k - Len(s) = i
    BY <1>1, <2>1
  <2> QED BY <1>1, <2>1, <2>2
<1>4. ASSUME Rising(s \o t) PROVE Rising(s) /\ Rising(t) /\ Older(s, t)
  <2>1. Rising(s)
    BY <1>1, <1>2, <1>4 DEF Rising
  <2>2. Rising(t)
    <3> SUFFICES ASSUME NEW i \in 1..Len(t), NEW j \in 1..Len(t), i < j, t[i][1] = t[j][1]
                 PROVE  t[i][2] < t[j][2]
      BY DEF Rising
    <3>1. PICK k, l : k = i + Len(s) /\ l = j + Len(s)
      OBVIOUS
    <3>2. /\ k \in 1..(Len(s) + Len(t)) /\ (s \o t)[k] = t[i]
          /\ l \in 1..(Len(s) + Len(t)) /\ (s \o t)[l] = t[j]
      BY <1>3, <3>1
    <3>3. k < l
      BY <1>1, <3>1
    <3> QED BY <1>1, <1>4, <3>2, <3>3 DEF Rising
  <2>3. Older(s, t)
    <3> SUFFICES ASSUME NEW i \in 1..Len(s), NEW j \in 1..Len(t), s[i][1] = t[j][1]
                 PROVE  s[i][2] < t[j][2]
      BY DEF Older, Has
    <3>1. PICK l : l = j + Len(s)
      OBVIOUS
    <3>2. l \in 1..(Len(s) + Len(t)) /\ (s \o t)[l] = t[j]
      BY <1>3, <3>1
    <3>3. i < l /\ i \in 1..(Len(s) + Len(t)) /\ (s \o t)[i] = s[i]
      BY <1>1, <1>2, <3>1
    <3> QED BY <1>1, <1>4, <3>2, <3>3 DEF Rising
  <2> QED BY <2>1, <2>2, <2>3
<1>5. ASSUME Rising(s), Rising(t), Older(s, t) PROVE Rising(s \o t)
  <2> SUFFICES ASSUME NEW i \in 1..(Len(s) + Len(t)), NEW j \in 1..(Len(s) + Len(t)), i < j,
                      (s \o t)[i][1] = (s \o t)[j][1]
               PROVE  (s \o t)[i][2] < (s \o t)[j][2]
    BY <1>1 DEF Rising
  <2>1. CASE j <= Len(s)
    <3>1. i \in 1..Len(s) /\ j \in 1..Len(s) /\ (s \o t)[i] = s[i] /\ (s \o t)[j] = s[j]
      BY <1>1, <2>1
    <3> QED BY <1>5, <3>1 DEF Rising
  <2>2. CASE i <= Len(s) /\ ~(j <= Len(s))
    <3>1. /\ i \in 1..Len(s) /\ j - Len(s) \in 1..Len(t)
          /\ (s \o t)[i] = s[i] /\ (s \o t)[j] = t[j - Len(s)]
      BY <1>1, <2>2
    <3>2. Has(s, s[i]) /\ Has(t, t[j - Len(s)])
      BY <3>1 DEF Has
    <3> QED BY <1>5, <3>1, <3>2 DEF Older
  <2>3. CASE ~(i <= Len(s))
    <3>1. /\ i - Len(s) \in 1..Len(t) /\ j - Len(s) \in 1..Len(t)
          /\ (s \o t)[i] = t[i - Len(s)] /\ (s \o t)[j] = t[j - Len(s)]
      BY <1>1, <2>3
    <3>2. i - Len(s) < j - Len(s)
      BY <1>1
    <3> QED BY <1>5, <3>1, <3>2 DEF Rising
  <2> QED BY <1>1, <2>1, <2>2, <2>3
<1> QED BY <1>4, <1>5

(* A line is dropped from among others: the others keep their order.        *)
LEMMA RisingWithout ==
  ASSUME NEW s \in Seq(Lines), NEW x \in Lines, NEW t \in Seq(Lines), Rising(s \o (<<x>> \o t))
  PROVE  Rising(s \o t) /\ \A y : Has(s \o t, y) => Has(s \o (<<x>> \o t), y)
<1>1. <<x>> \in Seq(Lines) /\ <<x>> \o t \in Seq(Lines)
  BY ConcatProperties
<1>2. Rising(s) /\ Rising(<<x>> \o t) /\ Older(s, <<x>> \o t)
  BY <1>1, RisingConcat
<1>3. Rising(t)
  BY <1>1, <1>2, RisingConcat
<1>4. \A y : Has(t, y) => Has(<<x>> \o t, y)
  BY <1>1, HasConcat
<1>5. Older(s, t)
  BY <1>2, <1>4 DEF Older
<1> QED BY <1>1, <1>2, <1>3, <1>4, <1>5, RisingConcat, HasConcat

(* A line goes to the end of a sequence that has only older ones.           *)
LEMMA RisingWith ==
  ASSUME NEW s \in Seq(Lines), NEW x \in Lines, Rising(s), \A y : Has(s, y) /\ y[1] = x[1] => y[2] < x[2]
  PROVE  /\ s \o <<x>> \in Seq(Lines) /\ Rising(s \o <<x>>)
         /\ \A y : Has(s \o <<x>>, y) <=> Has(s, y) \/ y = x
<1>1. <<x>> \in Seq(Lines) /\ Len(<<x>>) = 1 /\ <<x>>[1] = x
  OBVIOUS
<1>2. \A y : Has(<<x>>, y) <=> y = x
  BY <1>1 DEF Has
<1>3. Rising(<<x>>)
  BY <1>1 DEF Rising
<1>4. Older(s, <<x>>)
  BY <1>2 DEF Older
<1> QED BY <1>1, <1>2, <1>3, <1>4, RisingConcat, HasConcat


(* The scanner's buffer and the files have their lines in ascending order.  *)
Increasing(s) == \A i, j \in 1..Len(s) : i < j => s[i] < s[j]

LEMMA IncreasingTail ==
  ASSUME NEW s \in Seq(Nat), s # <<>>, Increasing(s)
  PROVE  /\ Head(s) \in Nat /\ Tail(s) \in Seq(Nat) /\ Increasing(Tail(s)) /\ Has(s, Head(s))
         /\ \A m : Has(Tail(s), m) => Has(s, m) /\ Head(s) < m
<1>1. /\ Head(s) = s[1] /\ Tail(s) \in Seq(Nat) /\ Len(s) \in Nat \ {0} /\ s[1] \in Nat
      /\ Len(Tail(s)) = Len(s) - 1 /\ \A i \in 1..Len(Tail(s)) : Tail(s)[i] = s[i + 1]
  BY HeadTailProperties
<1>2. ASSUME NEW i \in 1..Len(Tail(s)), NEW j \in 1..Len(Tail(s)), i < j
      PROVE  Tail(s)[i] < Tail(s)[j]
  <2>1. PICK k, l : k = i + 1 /\ l = j + 1
    OBVIOUS
  <2>2. k \in 1..Len(s) /\ l \in 1..Len(s) /\ k < l /\ Tail(s)[i] = s[k] /\ Tail(s)[j] = s[l]
    BY <1>1, <1>2, <2>1
  <2> QED BY <2>2 DEF Increasing
<1>3. ASSUME NEW m, Has(Tail(s), m) PROVE Has(s, m) /\ Head(s) < m
  <2>1. PICK i \in 1..Len(Tail(s)) : Tail(s)[i] = m
    BY <1>3 DEF Has
  <2>2. PICK k : k = i + 1
    OBVIOUS
  <2>3. k \in 1..Len(s) /\ 1 \in 1..Len(s) /\ 1 < k /\ s[k] = m
    BY <1>1, <2>1, <2>2
  <2> QED BY <1>1, <2>3 DEF Has, Increasing
<1>4. Has(s, Head(s))
  BY <1>1 DEF Has
<1> QED BY <1>1, <1>2, <1>3, <1>4 DEF Increasing

(* What is behind the offset, in its order.                                 *)
LEMMA IncreasingRest ==
  ASSUME NEW c \in Seq(Nat), NEW o \in Nat, Increasing(c)
  PROVE  LET rest == SubSeq(c, o + 1, Len(c)) IN
         /\ rest \in Seq(Nat) /\ Increasing(rest)
         /\ Len(rest) = IF o < Len(c) THEN Len(c) - o ELSE 0
         /\ \A m : Has(rest, m) => \E k \in 1..Len(c) : k > o /\ c[k] = m
<1> DEFINE rest == SubSeq(c, o + 1, Len(c))
           m == o + 1
           k == Len(c)
<1>1. k \in Nat /\ k \in Int /\ m \in Int /\ m = o + 1
  OBVIOUS
<1>2. \A i \in m..k : c[i] \in Nat
  OBVIOUS
<1>3. rest = SubSeq(c, m, k)
  OBVIOUS
<1> HIDE DEF m, k
<1>4. /\ SubSeq(c, m, k) \in Seq(Nat)
      /\ Len(SubSeq(c, m, k)) = IF m <= k THEN k - m + 1 ELSE 0
      /\ \A i \in 1..(k - m + 1) : SubSeq(c, m, k)[i] = c[m + i - 1]
  BY <1>1, <1>2, SubSeqProperties
<1> HIDE DEF rest
<1>5. rest \in Seq(Nat) /\ Len(rest) = IF o < k THEN k - o ELSE 0
  BY <1>1, <1>3, <1>4
<1>6. ASSUME NEW i \in 1..Len(rest) PROVE i + o \in 1..k /\ i + o > o /\ rest[i] = c[i + o]
  <2>1. i \in 1..(k - m + 1) /\ m + i - 1 = i + o
    BY <1>1, <1>5
  <2> QED BY <1>1, <1>3, <1>4, <2>1
<1>7. ASSUME NEW i \in 1..Len(rest), NEW j \in 1..Len(rest), i < j PROVE rest[i] < rest[j]
  <2>1. PICK a, b : a = i + o /\ b = j + o
    OBVIOUS
  <2>2. a \in 1..k /\ rest[i] = c[a] /\ b \in 1..k /\ rest[j] = c[b]
    BY <1>6, <2>1
  <2>3. a < b
    BY <1>7, <2>1
  <2> QED BY <2>2, <2>3 DEF Increasing, k
<1>8. ASSUME NEW n, Has(rest, n) PROVE \E a \in 1..k : a > o /\ c[a] = n
  BY <1>6, <1>8 DEF Has
<1> QED BY <1>5, <1>7, <1>8 DEF rest, k, Increasing

-----------------------------------------------------------------------------
(* The inductive invariant.  A line was taken when a scanner read it; the   *)
(* lines of a file that are still coming are those behind the offset, and   *)
(* all there are once the file was truncated to less than the offset.  They *)
(* are younger than everything that was taken: so a reader that goes on at  *)
(* its offset, or at 0 when it finds the file shorter than the last time,   *)
(* never reads a line twice.                                                *)
Taken(f, n)  == Has(Travelled, <<f, n>>) \/ Has(scanned[f], n)
Coming(f, k) == k > offset[f] \/ Len(content[f]) < offset[f]

SizeInv == size \in [Files -> Nat] /\ \A f \in Files : size[f] <= offset[f]
HeldInv == forwarder # "forward" => forwarded = <<>>

DiskInv ==
  \A f \in Files : /\ Increasing(content[f])
                   /\ \A k \in 1..Len(content[f]) : content[f][k] <= written[f]

TravelInv ==
  /\ Rising(Travelled)
  /\ \A f \in Files : /\ Increasing(scanned[f])
                      /\ \A n, m : Has(Travelled, <<f, n>>) /\ Has(scanned[f], m) => n < m

AheadInv ==
  \A f \in Files : \A n : Taken(f, n) =>
    /\ n <= written[f]
    /\ \A k \in 1..Len(content[f]) : Coming(f, k) => n < content[f][k]

OrderInv == ReadTypes /\ SizeInv /\ HeldInv /\ DiskInv /\ TravelInv /\ AheadInv

LEMMA SizeOf ==
  ASSUME SizeInv, NEW f \in Files, size' \in [Files -> Nat], size'[f] <= offset'[f],
         \A g \in Files : g # f => size'[g] = size[g] /\ offset'[g] = offset[g]
  PROVE  SizeInv'
<1> SUFFICES ASSUME NEW g \in Files PROVE size'[g] <= offset'[g]
  BY DEF SizeInv
<1>1. CASE g = f
  BY <1>1
<1>2. CASE g # f
  BY <1>2 DEF SizeInv
<1> QED BY <1>1, <1>2

LEMMA LineNotEmpty == ASSUME NEW x \in Lines PROVE x # <<>>
<1>1. PICK f \in Files, n \in Nat : x = <<f, n>>
  BY DEF Lines
<1>2. Len(x) = 2
  BY <1>1
<1>3. Len(<<>>) = 0
  OBVIOUS
<1> QED BY <1>2, <1>3

LEMMA Regroup ==
  \A s, t, u \in Seq(Lines) : (s \o t) \o u = s \o (t \o u)
BY ConcatAssociative

LEMMA TravelledLines ==
  ASSUME ReadTypes, HeldInv
  PROVE  /\ Held \in Seq(Lines) /\ processed \o inputChan \in Seq(Lines)
         /\ processed \o inputChan \o Held \in Seq(Lines) /\ Travelled \in Seq(Lines)
<1>1. <<>> \in Seq(Lines)
  OBVIOUS
<1>2. Held \in Seq(Lines)
  <2>1. CASE forwarded = <<>>
    BY <1>1, <2>1 DEF Held
  <2>2. CASE forwarded # <<>>
    <3>1. forwarded \in Lines
      BY <2>2 DEF ReadTypes, HeldInv
    <3> QED BY <2>2, <3>1 DEF Held
  <2> QED BY <2>1, <2>2
<1>3. processed \o inputChan \in Seq(Lines)
  BY ConcatProperties DEF ReadTypes
<1>4. processed \o inputChan \o Held \in Seq(Lines)
  BY <1>2, <1>3, ConcatProperties
<1> QED BY <1>2, <1>3, <1>4, ConcatProperties DEF ReadTypes, Travelled

LEMMA TakenNumber ==
  ASSUME OrderInv, NEW f \in Files, NEW n, Taken(f, n) PROVE n \in Nat
<1>1. CASE Has(scanned[f], n)
  <2>1. scanned[f] \in Seq(Nat)
    BY DEF OrderInv, ReadTypes
  <2> QED BY <1>1, <2>1 DEF Has
<1>2. CASE Has(Travelled, <<f, n>>)
  <2>1. Travelled \in Seq(Lines)
    BY TravelledLines DEF OrderInv
  <2>2. <<f, n>> \in Lines
    BY <1>2, <2>1 DEF Has
  <2> QED BY <2>2 DEF Lines
<1> QED BY <1>1, <1>2 DEF Taken

LEMMA OrderInitial == Init => OrderInv
<1> SUFFICES ASSUME Init PROVE OrderInv
  OBVIOUS
<1>1. ReadTypes
  BY ReadInitial DEF ReadInv
<1>2. SizeInv /\ HeldInv
  BY DEF Init, ReaderInit, SizeInv, HeldInv
<1>3. FirstLines \in Nat
  BY FileReaderAssumption
<1>4. DiskInv
  <2> SUFFICES ASSUME NEW f \in Files
               PROVE  /\ Increasing(content[f])
                      /\ \A k \in 1..Len(content[f]) : content[f][k] <= written[f]
    BY DEF DiskInv
  <2>1. content[f] = [n \in 1..FirstLines |-> n] /\ written[f] = FirstLines
    BY DEF Init, ReaderInit
  <2>2. Len(content[f]) = FirstLines
    BY <1>3, <2>1
  <2> QED BY <1>3, <2>1, <2>2 DEF Increasing
<1>5. Travelled = <<>> /\ \A f \in Files : scanned[f] = <<>>
  BY DEF Init, ReaderInit, Travelled, Held
<1>6. \A x : ~Has(<<>>, x)
  BY DEF Has
<1>7. TravelInv
  BY <1>5, <1>6 DEF TravelInv, Rising, Increasing
<1>8. AheadInv
  BY <1>5, <1>6 DEF AheadInv, Taken
<1> QED BY <1>1, <1>2, <1>4, <1>7, <1>8 DEF OrderInv

(* A step that takes nothing from the files, and lets nothing come that was *)
(* not coming before.                                                       *)
LEMMA NothingTaken ==
  ASSUME OrderInv, ReadTypes', SizeInv', HeldInv', UNCHANGED <<content, written>>,
         Rising(Travelled'),
         \A x : Has(Travelled', x) => Has(Travelled, x),
         \A f \in Files : /\ Increasing(scanned'[f])
                          /\ \A n : Has(scanned'[f], n) => Has(scanned[f], n),
         \A f \in Files : \A k \in 1..Len(content[f]) : Coming(f, k)' => Coming(f, k)
  PROVE  OrderInv'
<1>1. DiskInv'
  BY DEF OrderInv, DiskInv
<1>2. TravelInv'
  BY DEF OrderInv, TravelInv
<1>3. \A f \in Files : \A n : Taken(f, n)' => Taken(f, n)
  BY DEF Taken
<1>4. AheadInv'
  BY <1>3 DEF OrderInv, AheadInv
<1> QED BY <1>1, <1>2, <1>4 DEF OrderInv

(* What a writer adds is younger than all there was, and a truncation takes *)
(* away only.                                                               *)
LEMMA OrderDisk ==
  ASSUME OrderInv, ReadTypes', Disk PROVE OrderInv'
<1>1. PICK f \in Files : (WriteLine(f) \/ Truncate(f)) /\ UNCHANGED inputVars
  BY DEF Disk
<1>2. UNCHANGED <<lineChan, size, offset, scanned, forwarder, forwarded, inputChan, processed>>
  BY <1>1 DEF WriteLine, Truncate, readVars, inputVars
<1>3. Travelled' = Travelled
  BY <1>2 DEF Travelled, Held
<1>4. SizeInv' /\ HeldInv' /\ TravelInv'
  BY <1>2, <1>3 DEF OrderInv, SizeInv, HeldInv, TravelInv
<1>5. /\ content \in [Files -> Seq(Nat)] /\ written \in [Files -> Nat] /\ offset \in [Files -> Nat]
      /\ content[f] \in Seq(Nat) /\ written[f] \in Nat /\ Len(content[f]) \in Nat
  <2>1. content \in [Files -> Seq(Nat)] /\ written \in [Files -> Nat] /\ offset \in [Files -> Nat]
    BY DEF OrderInv, ReadTypes
  <2>2. content[f] \in Seq(Nat) /\ written[f] \in Nat
    BY <2>1
  <2> QED BY <2>1, <2>2
<1>6. \A g \in Files : \A n : Taken(g, n)' <=> Taken(g, n)
  BY <1>2, <1>3 DEF Taken
<1>7. CASE Truncate(f)
  <2>1. written' = written /\ content' = [content EXCEPT ![f] = <<>>]
    BY <1>7 DEF Truncate
  <2>2. /\ content'[f] = <<>> /\ Len(content'[f]) = 0
        /\ \A g \in Files : g # f => content'[g] = content[g]
    BY <1>5, <2>1
  <2>3. ASSUME NEW g \in Files
        PROVE  /\ Increasing(content'[g])
               /\ \A k \in 1..Len(content'[g]) :
                    /\ content'[g][k] <= written'[g]
                    /\ \A n : Taken(g, n) /\ Coming(g, k)' => n < content'[g][k]
    <3>1. CASE g = f
      BY <2>2, <3>1 DEF Increasing
    <3>2. CASE g # f
      BY <1>2, <2>1, <2>2, <3>2 DEF OrderInv, DiskInv, AheadInv, Coming
    <3> QED BY <3>1, <3>2
  <2>4. DiskInv'
    BY <2>3 DEF DiskInv
  <2>5. AheadInv'
    BY <1>6, <2>1, <2>3 DEF OrderInv, AheadInv
  <2> QED BY <1>4, <2>4, <2>5 DEF OrderInv
<1>8. CASE WriteLine(f)
  <2>1. /\ written' = [written EXCEPT ![f] = @ + 1]
        /\ content' = [content EXCEPT ![f] = Append(@, written'[f])]
    BY <1>8 DEF WriteLine
  <2>2. /\ written'[f] = written[f] + 1 /\ content'[f] = Append(content[f], written[f] + 1)
        /\ \A g \in Files : g # f => content'[g] = content[g] /\ written'[g] = written[g]
    BY <1>5, <2>1
  <2>3. /\ Len(content'[f]) = Len(content[f]) + 1 /\ content'[f][Len(content[f]) + 1] = written[f] + 1
        /\ \A k \in 1..Len(content[f]) : content'[f][k] = content[f][k] /\ content[f][k] \in Nat
    BY <1>5, <2>2, AppendProperties
  <2>4. \A k \in 1..Len(content[f]) : content[f][k] <= written[f]
    BY DEF OrderInv, DiskInv
  <2>5. Increasing(content'[f])
    <3> SUFFICES ASSUME NEW i \in 1..(Len(content[f]) + 1), NEW j \in 1..(Len(content[f]) + 1), i < j
                 PROVE  content'[f][i] < content'[f][j]
      BY <2>3 DEF Increasing
    <3>1. CASE j \in 1..Len(content[f])
      <4>1. i \in 1..Len(content[f])
        BY <1>5, <3>1
      <4> QED BY <2>3, <3>1, <4>1 DEF OrderInv, DiskInv, Increasing
    <3>2. CASE j \notin 1..Len(content[f])
      <4>1. PICK len : len = Len(content[f])
        OBVIOUS
      <4>2. len \in Nat /\ i \in 1..(len + 1) /\ j \in 1..(len + 1) /\ j \notin 1..len
        BY <1>5, <3>2, <4>1
      <4>3. j = len + 1 /\ i \in 1..len
        BY <4>2
      <4>4. content'[f][i] <= written[f] /\ content'[f][i] \in Nat
        BY <2>3, <2>4, <4>1, <4>3
      <4>5. content'[f][j] = written[f] + 1
        BY <2>3, <4>1, <4>3
      <4> QED BY <1>5, <4>4, <4>5
    <3> QED BY <3>1, <3>2
  <2>6. ASSUME NEW k \in 1..Len(content'[f])
        PROVE  /\ content'[f][k] <= written'[f]
               /\ \A n : Taken(f, n) /\ Coming(f, k)' => n < content'[f][k]
    <3>1. CASE k \in 1..Len(content[f])
      <4>1. content'[f][k] = content[f][k] /\ content[f][k] <= written[f] /\ content[f][k] \in Nat
        BY <2>3, <2>4, <3>1
      <4>2. Coming(f, k)' => Coming(f, k)
        BY <1>2, <1>5, <2>3 DEF Coming
      <4>3. \A n : Taken(f, n) /\ Coming(f, k)' => n < content[f][k]
        BY <3>1, <4>2 DEF OrderInv, AheadInv
      <4> QED BY <1>5, <2>2, <4>1, <4>3
    <3>2. CASE k \notin 1..Len(content[f])
      <4>1. k = Len(content[f]) + 1
        BY <1>5, <2>3, <3>2
      <4>2. \A n : Taken(f, n) => n \in Nat /\ n <= written[f]
        BY TakenNumber DEF OrderInv, AheadInv
      <4> QED BY <1>5, <2>2, <2>3, <4>1, <4>2
    <3> QED BY <3>1, <3>2
  <2>7. ASSUME NEW g \in Files
        PROVE  /\ Increasing(content'[g])
               /\ \A k \in 1..Len(content'[g]) :
                    /\ content'[g][k] <= written'[g]
                    /\ \A n : Taken(g, n) /\ Coming(g, k)' => n < content'[g][k]
    <3>1. CASE g = f
      BY <2>5, <2>6, <3>1
    <3>2. CASE g # f
      BY <1>2, <2>2, <3>2 DEF OrderInv, DiskInv, AheadInv, Coming
    <3> QED BY <3>1, <3>2
  <2>8. DiskInv'
    BY <2>7 DEF DiskInv
  <2>9. ASSUME NEW g \in Files, NEW n, Taken(g, n) PROVE n <= written'[g]
    <3>1. n <= written[g]
      BY <2>9 DEF OrderInv, AheadInv
    <3>2. written'[g] = written[g] \/ written'[g] = written[g] + 1
      BY <2>2
    <3>3. n \in Nat /\ written[g] \in Nat
      BY <1>5, <2>9, TakenNumber
    <3> QED BY <3>1, <3>2, <3>3
  <2>10. AheadInv'
    BY <1>6, <2>7, <2>9 DEF AheadInv
  <2> QED BY <1>4, <2>8, <2>10 DEF OrderInv
<1> QED BY <1>1, <1>7, <1>8

(* A scanner takes what is coming.                                          *)
LEMMA OrderFill ==
  ASSUME OrderInv, ReadTypes', NEW f \in Files, scanned[f] = <<>>, Missing(f) # <<>>, Fill(f),
         UNCHANGED <<content, written, size, lineChan, inputVars>>
  PROVE  OrderInv'
<1>1. /\ content[f] \in Seq(Nat) /\ offset[f] \in Nat /\ Len(content[f]) \in Nat
      /\ offset \in [Files -> Nat] /\ scanned \in [Files -> Seq(Nat)]
      /\ size[f] \in Nat /\ size[f] <= offset[f] /\ Increasing(content[f])
  <2>1. /\ content \in [Files -> Seq(Nat)] /\ offset \in [Files -> Nat]
        /\ scanned \in [Files -> Seq(Nat)] /\ size \in [Files -> Nat]
        /\ size[f] <= offset[f] /\ Increasing(content[f])
    BY DEF OrderInv, ReadTypes, SizeInv, DiskInv
  <2>2. content[f] \in Seq(Nat) /\ offset[f] \in Nat /\ size[f] \in Nat
    BY <2>1
  <2> QED BY <2>1, <2>2
<1>2. PICK missing : missing = Missing(f)
  OBVIOUS
<1>3. /\ missing \in Seq(Nat) /\ Increasing(missing)
      /\ Len(missing) = IF offset[f] < Len(content[f]) THEN Len(content[f]) - offset[f] ELSE 0
      /\ \A m : Has(missing, m) => \E k \in 1..Len(content[f]) : k > offset[f] /\ content[f][k] = m
  <2>1. PICK c, o : c = content[f] /\ o = offset[f]
    OBVIOUS
  <2>2. /\ missing = SubSeq(c, o + 1, Len(c)) /\ c \in Seq(Nat) /\ o \in Nat /\ Increasing(c)
    BY <1>1, <1>2, <2>1 DEF Missing
  <2>3. /\ missing \in Seq(Nat) /\ Increasing(missing)
        /\ Len(missing) = IF o < Len(c) THEN Len(c) - o ELSE 0
        /\ \A m : Has(missing, m) => \E k \in 1..Len(c) : k > o /\ c[k] = m
    BY <2>2, IncreasingRest, ZenonT(30)
  <2> QED BY <2>1, <2>3
<1>4. Len(missing) # 0
  BY <1>2, <1>3
<1>5. offset[f] < Len(content[f]) /\ offset[f] + Len(missing) = Len(content[f])
  BY <1>1, <1>3, <1>4
<1>6. /\ scanned'[f] = missing /\ offset'[f] = Len(content[f])
      /\ \A g \in Files : g # f => scanned'[g] = scanned[g] /\ offset'[g] = offset[g]
  BY <1>1, <1>2, <1>5 DEF Fill
<1>7. Travelled' = Travelled
  BY DEF Travelled, Held, inputVars
<1>8. SizeInv'
  <2>1. size' \in [Files -> Nat]
    BY DEF OrderInv, SizeInv
  <2>2. \A g \in Files : size'[g] <= offset'[g]
    <3>1. size'[f] <= offset'[f]
      BY <1>1, <1>5, <1>6
    <3> QED BY <1>6, <3>1 DEF OrderInv, SizeInv
  <2> QED BY <2>1, <2>2 DEF SizeInv
<1>9. HeldInv' /\ DiskInv'
  BY DEF OrderInv, HeldInv, DiskInv, inputVars
<1>10. \A n, m : Has(Travelled, <<f, n>>) /\ Has(missing, m) => n < m
  BY <1>3 DEF OrderInv, AheadInv, Coming, Taken
<1>11. TravelInv'
  BY <1>3, <1>6, <1>7, <1>10 DEF OrderInv, TravelInv
<1>12. ASSUME NEW n, Taken(f, n)'
       PROVE  /\ n <= written'[f]
              /\ \A k \in 1..Len(content'[f]) : Coming(f, k)' => n < content'[f][k]
  <2>1. \A k \in 1..Len(content[f]) : ~Coming(f, k)'
    BY <1>1, <1>6 DEF Coming
  <2>2. n <= written[f]
    <3>1. CASE Has(Travelled, <<f, n>>)
      BY <3>1 DEF OrderInv, AheadInv, Taken
    <3>2. CASE Has(missing, n)
      BY <1>3, <3>2 DEF OrderInv, DiskInv
    <3> QED BY <1>6, <1>7, <1>12, <3>1, <3>2 DEF Taken
  <2> QED BY <2>1, <2>2
<1>13. \A g \in Files : g # f => /\ \A n : Taken(g, n)' <=> Taken(g, n)
                                /\ \A k : Coming(g, k)' <=> Coming(g, k)
  BY <1>6, <1>7 DEF Taken, Coming
<1>14. AheadInv'
  BY <1>12, <1>13 DEF OrderInv, AheadInv
<1> QED BY <1>8, <1>9, <1>11, <1>14 DEF OrderInv

(* A scanned line is sent: it is younger than all that were sent.           *)
LEMMA OrderSend ==
  ASSUME OrderInv, ReadTypes', NEW f \in Files, scanned[f] # <<>>,
         lineChan' = Append(lineChan, <<f, Head(scanned[f])>>),
         scanned' = [scanned EXCEPT ![f] = Tail(@)],
         UNCHANGED <<content, written, size, offset, inputVars>>
  PROVE  OrderInv'
<1>1. /\ scanned[f] \in Seq(Nat) /\ lineChan \in Seq(Lines) /\ scanned \in [Files -> Seq(Nat)]
      /\ Increasing(scanned[f]) /\ Travelled \in Seq(Lines)
      /\ processed \o inputChan \o Held \in Seq(Lines)
  BY TravelledLines DEF OrderInv, ReadTypes, TravelInv
<1>2. PICK x : x = <<f, Head(scanned[f])>>
  OBVIOUS
<1>3. /\ Head(scanned[f]) \in Nat /\ Tail(scanned[f]) \in Seq(Nat) /\ Increasing(Tail(scanned[f]))
      /\ Has(scanned[f], Head(scanned[f]))
      /\ \A m : Has(Tail(scanned[f]), m) => Has(scanned[f], m) /\ Head(scanned[f]) < m
  BY <1>1, IncreasingTail
<1>4. x \in Lines /\ x[1] = f /\ x[2] = Head(scanned[f])
  BY <1>2, <1>3 DEF Lines
<1>5. lineChan' = lineChan \o <<x>> /\ <<x>> \in Seq(Lines)
  <2>1. Append(lineChan, x) = lineChan \o <<x>>
    BY <1>1, <1>4, AppendIsConcat
  <2>2. <<x>> \in Seq(Lines)
    BY <1>4
  <2> QED BY <1>2, <2>1, <2>2
<1>6. Travelled' = Travelled \o <<x>>
  <2>1. PICK before : before = processed \o inputChan \o Held
    OBVIOUS
  <2>2. Travelled = before \o lineChan /\ Travelled' = before \o (lineChan \o <<x>>)
    BY <1>5, <2>1 DEF Travelled, Held, inputVars
  <2>3. before \o (lineChan \o <<x>>) = (before \o lineChan) \o <<x>>
    <3>1. PICK one : one = <<x>>
      OBVIOUS
    <3>2. before \in Seq(Lines) /\ lineChan \in Seq(Lines) /\ one \in Seq(Lines)
      BY <1>1, <1>5, <2>1, <3>1
    <3>3. (before \o lineChan) \o one = before \o (lineChan \o one)
      BY <3>2, ConcatAssociative, SMTT(30)
    <3> QED BY <3>1, <3>3
  <2> QED BY <2>2, <2>3
<1>7. \A y : Has(Travelled, y) /\ y[1] = x[1] => y[2] < x[2]
  <2> SUFFICES ASSUME NEW y, Has(Travelled, y), y[1] = f PROVE y[2] < Head(scanned[f])
    BY <1>4
  <2>1. y \in Lines
    BY <1>1 DEF Has
  <2>2. y = <<f, y[2]>>
    BY <2>1 DEF Lines
  <2> QED BY <1>3, <2>2 DEF OrderInv, TravelInv
<1>8. /\ Rising(Travelled')
      /\ \A y : Has(Travelled', y) <=> Has(Travelled, y) \/ y = x
  BY <1>1, <1>4, <1>6, <1>7, RisingWith DEF OrderInv, TravelInv
<1>9. scanned'[f] = Tail(scanned[f]) /\ \A g \in Files : g # f => scanned'[g] = scanned[g]
  BY <1>1
<1>10. ASSUME NEW g \in Files, NEW n, NEW m, Has(Travelled', <<g, n>>), Has(scanned'[g], m)
       PROVE  n < m
  <2>1. Has(Travelled, <<g, n>>) \/ (g = f /\ n = Head(scanned[f]))
    BY <1>2, <1>8, <1>10
  <2>2. Has(scanned[g], m)
    BY <1>3, <1>9, <1>10
  <2> QED BY <1>3, <1>9, <1>10, <2>1, <2>2 DEF OrderInv, TravelInv
<1>11. TravelInv'
  <2>1. \A g \in Files : Increasing(scanned'[g])
    BY <1>3, <1>9 DEF OrderInv, TravelInv
  <2> QED BY <1>8, <1>10, <2>1 DEF TravelInv
<1>12. \A g \in Files : \A n : Taken(g, n)' => Taken(g, n)
  <2> SUFFICES ASSUME NEW g \in Files, NEW n, Taken(g, n)' PROVE Taken(g, n)
    OBVIOUS
  <2>1. CASE Has(Travelled', <<g, n>>)
    <3>1. Has(Travelled, <<g, n>>) \/ (g = f /\ n = Head(scanned[f]))
      BY <1>2, <1>8, <2>1
    <3> QED BY <1>3, <3>1 DEF Taken
  <2>2. CASE Has(scanned'[g], n)
    BY <1>3, <1>9, <2>2 DEF Taken
  <2> QED BY <2>1, <2>2 DEF Taken
<1>13. AheadInv'
  BY <1>12 DEF OrderInv, AheadInv, Coming
<1>14. SizeInv' /\ HeldInv' /\ DiskInv'
  BY DEF OrderInv, SizeInv, HeldInv, DiskInv, inputVars
<1> QED BY <1>11, <1>13, <1>14 DEF OrderInv

(* Lines in the buffer of a reader that ends are dropped.                   *)
LEMMA OrderDrop ==
  ASSUME OrderInv, ReadTypes', NEW f \in Files, scanned' = [scanned EXCEPT ![f] = <<>>],
         UNCHANGED <<content, written, size, offset, lineChan, inputVars>>
  PROVE  OrderInv'
<1>1. scanned \in [Files -> Seq(Nat)]
  BY DEF OrderInv, ReadTypes
<1>2. scanned'[f] = <<>> /\ \A g \in Files : g # f => scanned'[g] = scanned[g]
  BY <1>1
<1>3. Travelled' = Travelled
  BY DEF Travelled, Held, inputVars
<1>4. \A g \in Files : Increasing(scanned'[g]) /\ \A n : Has(scanned'[g], n) => Has(scanned[g], n)
  BY <1>2 DEF OrderInv, TravelInv, Increasing, Has
<1>5. SizeInv' /\ HeldInv' /\ Rising(Travelled')
  BY <1>3 DEF OrderInv, SizeInv, HeldInv, TravelInv, inputVars
<1>6. \A g \in Files : \A k \in 1..Len(content[g]) : Coming(g, k)' => Coming(g, k)
  BY DEF Coming
<1> QED BY <1>3, <1>4, <1>5, <1>6, NothingTaken

(* A reader goes on, or starts over, where it takes nothing twice.          *)
LEMMA OrderSeek ==
  ASSUME OrderInv, ReadTypes', SizeInv',
         UNCHANGED <<content, written, scanned, lineChan, inputVars>>,
         \A f \in Files : \A k \in 1..Len(content[f]) : Coming(f, k)' => Coming(f, k)
  PROVE  OrderInv'
<1>1. Travelled' = Travelled
  BY DEF Travelled, Held, inputVars
<1>2. HeldInv' /\ Rising(Travelled')
  BY <1>1 DEF OrderInv, HeldInv, TravelInv, inputVars
<1>3. \A g \in Files : Increasing(scanned'[g]) /\ \A n : Has(scanned'[g], n) => Has(scanned[g], n)
  BY DEF OrderInv, TravelInv
<1> QED BY <1>1, <1>2, <1>3, NothingTaken

LEMMA OrderGoroutine ==
  ASSUME ReadInv, OrderInv, ReadTypes', Reader PROVE OrderInv'
<1>1. UNCHANGED inputVars /\ StartGoroutine /\ current \in Files
  BY DEF Reader, OrderInv, ReadTypes
<1>2. /\ content \in [Files -> Seq(Nat)] /\ offset \in [Files -> Nat] /\ size \in [Files -> Nat]
      /\ content[current] \in Seq(Nat) /\ Len(content[current]) \in Nat
  <2>1. /\ content \in [Files -> Seq(Nat)] /\ offset \in [Files -> Nat] /\ size \in [Files -> Nat]
    BY DEF OrderInv, ReadTypes, SizeInv
  <2>2. content[current] \in Seq(Nat)
    BY <1>1, <2>1
  <2> QED BY <2>1, <2>2
<1>3. ASSUME UNCHANGED <<content, written, scanned, lineChan, size, offset>> PROVE OrderInv'
  <2>1. SizeInv'
    BY <1>3 DEF OrderInv, SizeInv
  <2> QED BY <1>1, <1>3, <2>1, OrderSeek DEF Coming
<1>4. CASE ReadFill
  <2>1. CASE Missing(current) # <<>> /\ Fill(current)
    BY <1>1, <1>4, <2>1, OrderFill DEF ReadFill, diskVars
  <2>2. CASE UNCHANGED readVars
    BY <1>3, <1>4, <2>2 DEF ReadFill, diskVars, readVars
  <2> QED BY <1>4, <2>1, <2>2 DEF ReadFill
<1>5. CASE ReadSend
  <2>1. ~closed /\ scanned[current] # <<>> /\ UNCHANGED <<content, written, size>>
    BY <1>5 DEF ReadSend, ReadInv, SafeInv, diskVars
  <2>2. CASE /\ lineChan' = Append(lineChan, <<current, Head(scanned[current])>>)
             /\ scanned' = [scanned EXCEPT ![current] = Tail(@)] /\ UNCHANGED offset
    BY <1>1, <2>1, <2>2, OrderSend
  <2>3. CASE scanned' = [scanned EXCEPT ![current] = <<>>] /\ UNCHANGED <<lineChan, offset>>
    BY <1>1, <2>1, <2>3, OrderDrop
  <2> QED BY <1>5, <2>1, <2>2, <2>3 DEF ReadSend, SendOrDone
<1>6. CASE SeekEnd
  <2>1. /\ offset' = [offset EXCEPT ![current] = Len(content[current])]
        /\ size' = [size EXCEPT ![current] = Len(content[current])]
        /\ UNCHANGED <<content, written, scanned, lineChan>>
    BY <1>6 DEF SeekEnd, diskVars
  <2>2. /\ offset'[current] = Len(content[current]) /\ size'[current] = Len(content[current])
        /\ size' \in [Files -> Nat]
        /\ \A f \in Files : f # current => offset'[f] = offset[f] /\ size'[f] = size[f]
    BY <1>1, <1>2, <2>1
  <2>3. SizeInv'
    <3>1. size'[current] <= offset'[current]
      BY <1>2, <2>2
    <3> QED BY <1>1, <2>2, <3>1, SizeOf DEF OrderInv
  <2>4. \A f \in Files : \A k \in 1..Len(content[f]) : Coming(f, k)' => Coming(f, k)
    BY <1>2, <2>1, <2>2 DEF Coming
  <2> QED BY <1>1, <2>1, <2>3, <2>4, OrderSeek
<1>7. CASE AddWatcher \/ EndFollow \/ CloseAllWatchers \/ CloseLines
  BY <1>3, <1>7 DEF AddWatcher, EndFollow, CloseAllWatchers, CloseLines, diskVars, readVars
<1> QED BY <1>1, <1>4, <1>5, <1>6, <1>7 DEF StartGoroutine

LEMMA OrderWatcher ==
  ASSUME ReadInv, OrderInv, ReadTypes', NEW f \in Files, Watch(f) PROVE OrderInv'
<1>1. UNCHANGED inputVars /\ WatchFile(f)
  BY DEF Watch
<1>2. /\ content \in [Files -> Seq(Nat)] /\ offset \in [Files -> Nat] /\ size \in [Files -> Nat]
      /\ Len(content[f]) \in Nat /\ size[f] \in Nat /\ offset[f] \in Nat /\ size[f] <= offset[f]
  <2>1. /\ content \in [Files -> Seq(Nat)] /\ offset \in [Files -> Nat] /\ size \in [Files -> Nat]
        /\ size[f] <= offset[f]
    BY DEF OrderInv, ReadTypes, SizeInv
  <2>2. content[f] \in Seq(Nat) /\ size[f] \in Nat /\ offset[f] \in Nat
    BY <2>1
  <2> QED BY <2>1, <2>2
<1>3. ASSUME UNCHANGED <<content, written, scanned, lineChan, size, offset>> PROVE OrderInv'
  <2>1. SizeInv'
    BY <1>3 DEF OrderInv, SizeInv
  <2> QED BY <1>1, <1>3, <2>1, OrderSeek DEF Coming
<1>4. CASE TakeEvent(f) \/ StatGrown(f) \/ TailExit(f)
  BY <1>3, <1>4 DEF TakeEvent, StatGrown, TailExit, diskVars, readVars
<1>5. CASE Reopen(f)
  <2>1. CASE UNCHANGED <<offset, size>>
    BY <1>3, <1>5, <2>1 DEF Reopen, diskVars
  <2>2. CASE offset' = [offset EXCEPT ![f] = 0] /\ size' = [size EXCEPT ![f] = 0]
    <3>1. Len(content[f]) < offset[f] /\ UNCHANGED <<content, written, scanned, lineChan>>
      BY <1>2, <1>5 DEF Reopen, diskVars
    <3>2. /\ offset'[f] = 0 /\ size'[f] = 0 /\ size' \in [Files -> Nat]
          /\ \A g \in Files : g # f => offset'[g] = offset[g] /\ size'[g] = size[g]
      BY <1>2, <2>2
    <3>3. SizeInv'
      BY <3>2, SizeOf DEF OrderInv
    <3>4. \A g \in Files : \A k \in 1..Len(content[g]) : Coming(g, k)' => Coming(g, k)
      BY <3>1, <3>2 DEF Coming
    <3> QED BY <1>1, <3>1, <3>3, <3>4, OrderSeek
  <2> QED BY <1>5, <2>1, <2>2 DEF Reopen
<1>6. CASE TailFill(f)
  <2>1. CASE Missing(f) # <<>> /\ Fill(f) /\ UNCHANGED size
    BY <1>1, <1>6, <2>1, OrderFill DEF TailFill, diskVars
  <2>2. CASE size' = (IF locked THEN size ELSE [size EXCEPT ![f] = offset[f]]) /\ UNCHANGED readVars
    <3>1. UNCHANGED <<content, written, scanned, lineChan, offset>>
      BY <1>6, <2>2 DEF TailFill, diskVars, readVars
    <3>2. /\ size' \in [Files -> Nat] /\ size'[f] \in {size[f], offset[f]}
          /\ \A g \in Files : g # f => size'[g] = size[g]
      BY <1>2, <2>2
    <3>3. SizeInv'
      <4>1. size'[f] <= offset'[f]
        BY <1>2, <3>1, <3>2
      <4> QED BY <3>1, <3>2, <4>1, SizeOf DEF OrderInv
    <3> QED BY <1>1, <3>1, <3>3, OrderSeek DEF Coming
  <2> QED BY <1>6, <2>1, <2>2 DEF TailFill
<1>7. CASE TailSend(f)
  <2>1. ~closed /\ scanned[f] # <<>> /\ UNCHANGED <<content, written, size>>
    <3>1. tail[f] = "scan" /\ scanned[f] # <<>> /\ UNCHANGED <<content, written, size>>
      BY <1>7 DEF TailSend, diskVars
    <3> QED BY <3>1 DEF ReadInv, SafeInv
  <2>2. CASE /\ lineChan' = Append(lineChan, <<f, Head(scanned[f])>>)
             /\ scanned' = [scanned EXCEPT ![f] = Tail(@)] /\ UNCHANGED offset
    BY <1>1, <2>1, <2>2, OrderSend
  <2>3. CASE scanned' = [scanned EXCEPT ![f] = <<>>] /\ UNCHANGED <<lineChan, offset>>
    BY <1>1, <2>1, <2>3, OrderDrop
  <2> QED BY <1>7, <2>1, <2>2, <2>3 DEF TailSend, SendOrDone
<1> QED BY <1>1, <1>4, <1>5, <1>6, <1>7 DEF WatchFile

(* A hop leaves what has travelled as it is, and a line without text, or    *)
(* the one given up when the user quits, is only taken out of it.           *)
LEMMA OrderHop ==
  ASSUME OrderInv, ReadTypes', HeldInv',
         UNCHANGED <<content, written, offset, size, scanned>>,
         \/ Travelled' = Travelled
         \/ \E s, t \in Seq(Lines), x \in Lines : Travelled = s \o (<<x>> \o t) /\ Travelled' = s \o t
  PROVE  OrderInv'
<1>1. Rising(Travelled)
  BY DEF OrderInv, TravelInv
<1>2. Rising(Travelled') /\ \A y : Has(Travelled', y) => Has(Travelled, y)
  <2>1. CASE Travelled' = Travelled
    BY <1>1, <2>1
  <2>2. CASE \E s, t \in Seq(Lines), x \in Lines : Travelled = s \o (<<x>> \o t) /\ Travelled' = s \o t
    <3>1. PICK s \in Seq(Lines), t \in Seq(Lines), x \in Lines :
                 Travelled = s \o (<<x>> \o t) /\ Travelled' = s \o t
      BY <2>2
    <3>2. Rising(s \o t) /\ \A y : Has(s \o t, y) => Has(s \o (<<x>> \o t), y)
      BY <1>1, <3>1, RisingWithout
    <3> QED BY <3>1, <3>2
  <2> QED BY <2>1, <2>2
<1>3. \A f \in Files : Increasing(scanned'[f]) /\ \A n : Has(scanned'[f], n) => Has(scanned[f], n)
  BY DEF OrderInv, TravelInv
<1>4. SizeInv' /\ \A f \in Files : \A k \in 1..Len(content[f]) : Coming(f, k)' => Coming(f, k)
  BY DEF OrderInv, SizeInv, Coming
<1> QED BY <1>2, <1>3, <1>4, NothingTaken

(* A sequence is its head followed by its tail.                             *)
LEMMA HeadThenTail ==
  ASSUME NEW S, NEW s \in Seq(S), s # <<>>
  PROVE  /\ Head(s) \in S /\ Tail(s) \in Seq(S) /\ <<Head(s)>> \in Seq(S)
         /\ s = <<Head(s)>> \o Tail(s)
<1>1. /\ Head(s) \in S /\ Tail(s) \in Seq(S) /\ Len(Tail(s)) = Len(s) - 1 /\ Head(s) = s[1]
      /\ Len(s) \in Nat \ {0} /\ \A i \in 1..Len(Tail(s)) : Tail(s)[i] = s[i + 1]
  BY HeadTailProperties
<1>2. PICK one, rest : one = <<Head(s)>> /\ rest = Tail(s)
  OBVIOUS
<1>3. one \in Seq(S) /\ Len(one) = 1 /\ one[1] = s[1]
  BY <1>1, <1>2
<1>4. /\ one \o rest \in Seq(S) /\ Len(one \o rest) = Len(s)
      /\ \A i \in 1..Len(s) : (one \o rest)[i] = IF i <= 1 THEN one[i] ELSE rest[i - 1]
  <2>1. /\ one \o rest \in Seq(S) /\ Len(one \o rest) = Len(one) + Len(rest)
        /\ \A i \in 1..(Len(one) + Len(rest)) :
             (one \o rest)[i] = IF i <= Len(one) THEN one[i] ELSE rest[i - Len(one)]
    BY <1>1, <1>2, <1>3, ConcatProperties
  <2> QED BY <1>1, <1>2, <1>3, <2>1
<1>5. ASSUME NEW i \in 1..Len(s) PROVE (one \o rest)[i] = s[i]
  <2>1. CASE i = 1
    BY <1>1, <1>3, <1>4, <2>1
  <2>2. CASE i # 1
    <3>1. PICK j : j = i - 1
      OBVIOUS
    <3>2. j \in 1..Len(Tail(s)) /\ j + 1 = i /\ ~(i <= 1)
      BY <1>1, <2>2, <3>1
    <3>3. Tail(s)[j] = s[i]
      BY <1>1, <3>2
    <3> QED BY <1>2, <1>4, <3>1, <3>2, <3>3
  <2> QED BY <2>1, <2>2
<1>6. one \o rest = s
  BY <1>4, <1>5, SeqEqual
<1> QED BY <1>1, <1>2, <1>3, <1>6

LEMMA OrderForwarder ==
  ASSUME OrderInv, ReadTypes', Forwarder PROVE OrderInv'
<1>1. /\ UNCHANGED <<content, written, offset, size, scanned, processed>>
      /\ processed \in Seq(Lines) /\ inputChan \in Seq(Lines) /\ lineChan \in Seq(Lines)
      /\ lineChan' \in Seq(Lines) /\ processed \o inputChan \in Seq(Lines)
      /\ processed \o inputChan \o Held \in Seq(Lines) /\ Held \in Seq(Lines)
  <2>1. UNCHANGED <<content, written, offset, size, scanned, processed>>
    BY DEF Forwarder, Receive, ReaderDone, StopReader, Forward, LeaveReader, readerVars, diskVars,
           readVars
  <2> QED BY <2>1, TravelledLines DEF OrderInv, ReadTypes
<1>2. <<>> \in Seq(Lines)
  OBVIOUS
<1>3. PICK sent : sent = processed \o inputChan
  OBVIOUS
<1>4. sent \in Seq(Lines) /\ sent \o <<>> = sent /\ <<>> \o lineChan = lineChan
  BY <1>1, <1>3, ConcatEmptySeq
<1>5. CASE ReaderDone \/ StopReader
  <2>1. UNCHANGED <<inputChan, lineChan, forwarded>> /\ forwarder = "receive"
    BY <1>5 DEF ReaderDone, StopReader, readerVars, diskVars
  <2>2. HeldInv' /\ Travelled' = Travelled
    BY <1>1, <2>1 DEF OrderInv, HeldInv, Travelled, Held
  <2> QED BY <1>1, <2>2, OrderHop
<1>6. CASE Receive
  <2>1. /\ forwarder = "receive" /\ lineChan # <<>> /\ lineChan' = Tail(lineChan)
        /\ forwarded = <<>> /\ UNCHANGED inputChan
    BY <1>6 DEF Receive, OrderInv, HeldInv
  <2>2. /\ Head(lineChan) \in Lines /\ <<Head(lineChan)>> \in Seq(Lines)
        /\ lineChan = <<Head(lineChan)>> \o Tail(lineChan) /\ Tail(lineChan) \in Seq(Lines)
    BY <1>1, <2>1, HeadThenTail
  <2>3. Held = <<>> /\ Travelled = sent \o lineChan
    BY <1>3, <1>4, <2>1 DEF Held, Travelled
  <2>4. CASE UNCHANGED <<forwarder, forwarded>>
    <3>1. HeldInv' /\ Travelled' = sent \o Tail(lineChan)
      BY <1>1, <1>3, <1>4, <2>1, <2>4 DEF HeldInv, Held, Travelled
    <3>2. \E s, t \in Seq(Lines), x \in Lines : Travelled = s \o (<<x>> \o t) /\ Travelled' = s \o t
      BY <1>4, <2>2, <2>3, <3>1
    <3> QED BY <1>1, <3>1, <3>2, OrderHop
  <2>5. CASE forwarded' = Head(lineChan) /\ forwarder' = "forward"
    <3>1. Head(lineChan) # <<>>
      BY <2>2 DEF Lines
    <3>2. HeldInv' /\ Travelled' = (sent \o <<Head(lineChan)>>) \o Tail(lineChan)
      BY <1>1, <1>3, <2>1, <2>5, <3>1 DEF HeldInv, Held, Travelled
    <3>3. Travelled' = sent \o (<<Head(lineChan)>> \o Tail(lineChan))
      BY <1>4, <2>2, <3>2, ConcatAssociative
    <3> QED BY <1>1, <2>2, <2>3, <3>2, <3>3, OrderHop
  <2> QED BY <1>6, <2>4, <2>5 DEF Receive
<1>7. ASSUME forwarder = "forward" PROVE Held = <<forwarded>> /\ forwarded \in Lines
  <2>1. forwarded \in Lines
    BY <1>7 DEF OrderInv, ReadTypes
  <2>2. forwarded # <<>>
    BY <2>1, LineNotEmpty
  <2> QED BY <2>1, <2>2 DEF Held
<1>8. CASE Forward
  <2>1. /\ forwarder = "forward" /\ inputChan' = Append(inputChan, forwarded) /\ forwarded' = <<>>
        /\ forwarder' = "receive" /\ UNCHANGED lineChan
    BY <1>8 DEF Forward, readerVars
  <2>2. PICK one : one = <<forwarded>>
    OBVIOUS
  <2>3. Held = one /\ one \in Seq(Lines) /\ inputChan' = inputChan \o one
    <3>1. Append(inputChan, forwarded) = inputChan \o <<forwarded>>
      BY <1>1, <1>7, <2>1, AppendIsConcat
    <3> QED BY <1>1, <1>7, <2>1, <2>2, <3>1
  <2>4. processed \o (inputChan \o one) = sent \o one
    <3>1. one \in Seq(Lines)
      BY <2>3
    <3>2. (processed \o inputChan) \o one = processed \o (inputChan \o one)
      <4>1. processed \in Seq(Lines) /\ inputChan \in Seq(Lines)
        BY <1>1
      <4> QED BY <3>1, <4>1, Regroup
    <3> QED BY <1>3, <3>2
  <2>5. sent \o one \in Seq(Lines) /\ (sent \o one) \o <<>> = sent \o one
    BY <1>4, <2>3, ConcatProperties, ConcatEmptySeq
  <2>6. Travelled' = Travelled
    <3>1. Travelled' = ((processed \o (inputChan \o one)) \o <<>>) \o lineChan
      BY <1>1, <2>1, <2>3 DEF Travelled, Held
    <3> QED BY <1>3, <2>3, <2>4, <2>5, <3>1 DEF Travelled
  <2>7. HeldInv'
    BY <2>1 DEF HeldInv
  <2> QED BY <1>1, <2>6, <2>7, OrderHop
<1>9. CASE LeaveReader
  <2>1. /\ forwarder = "forward" /\ forwarded' = <<>> /\ UNCHANGED <<lineChan, inputChan>>
    BY <1>9 DEF LeaveReader, readerVars
  <2>2. PICK one : one = <<forwarded>>
    OBVIOUS
  <2>3. Held = one /\ one \in Seq(Lines) /\ forwarded \in Lines
    BY <1>1, <1>7, <2>1, <2>2
  <2>4. Travelled = (sent \o one) \o lineChan /\ Travelled' = sent \o lineChan
    BY <1>1, <1>3, <1>4, <2>1, <2>3 DEF Travelled, Held
  <2>5. Travelled = sent \o (one \o lineChan)
    <3>1. one \in Seq(Lines)
      BY <2>3
    <3>2. (sent \o one) \o lineChan = sent \o (one \o lineChan)
      <4>1. sent \in Seq(Lines) /\ lineChan \in Seq(Lines)
        BY <1>1, <1>4
      <4> QED BY <3>1, <4>1, Regroup
    <3> QED BY <2>4, <3>2
  <2>6. HeldInv'
    BY <2>1 DEF HeldInv
  <2> QED BY <1>1, <1>4, <2>2, <2>3, <2>4, <2>5, <2>6, OrderHop
<1> QED BY <1>5, <1>6, <1>8, <1>9 DEF Forwarder

LEMMA OrderLoop ==
  ASSUME OrderInv, ReadTypes', Loop PROVE OrderInv'
<1>1. /\ UNCHANGED <<content, written, offset, size, scanned, forwarder, forwarded, lineChan>>
      /\ processed \in Seq(Lines) /\ inputChan \in Seq(Lines)
  BY DEF Loop, ProcessLine, Finish, readerVars, diskVars, readVars, OrderInv, ReadTypes
<1>2. HeldInv'
  BY <1>1 DEF OrderInv, HeldInv
<1>3. processed' \o inputChan' = processed \o inputChan
  <2>1. CASE Finish
    BY <2>1 DEF Finish
  <2>2. CASE ProcessLine
    <3>1. /\ inputChan # <<>> /\ inputChan' = Tail(inputChan)
          /\ processed' = Append(processed, Head(inputChan))
      BY <2>2 DEF ProcessLine
    <3>2. PICK one, rest : one = <<Head(inputChan)>> /\ rest = Tail(inputChan)
      OBVIOUS
    <3>3. one \in Seq(Lines) /\ rest \in Seq(Lines) /\ inputChan = one \o rest /\ Head(inputChan) \in Lines
      BY <1>1, <3>1, <3>2, HeadThenTail
    <3>4. processed' = processed \o one
      BY <1>1, <3>1, <3>2, <3>3, AppendIsConcat
    <3>5. (processed \o one) \o rest = processed \o (one \o rest)
      BY <1>1, <3>3, ConcatAssociative
    <3> QED BY <3>1, <3>2, <3>3, <3>4, <3>5
  <2> QED BY <2>1, <2>2 DEF Loop
<1>4. Travelled' = Travelled
  BY <1>1, <1>3 DEF Travelled, Held
<1> QED BY <1>1, <1>2, <1>4, OrderHop

LEMMA OrderInductive == ReadInv /\ ReadInv' /\ OrderInv /\ [Next]_vars => OrderInv'
<1> SUFFICES ASSUME ReadInv, ReadTypes', OrderInv, [Next]_vars PROVE OrderInv'
  BY DEF ReadInv
<1>1. CASE Quit \/ UNCHANGED vars
  <2>1. UNCHANGED <<content, written, offset, size, scanned, forwarder, forwarded, lineChan, inputChan,
                    processed>>
    BY <1>1 DEF Quit, vars, inputVars, readerVars, diskVars, readVars
  <2>2. HeldInv' /\ Travelled' = Travelled
    BY <2>1 DEF OrderInv, HeldInv, Travelled, Held
  <2> QED BY <2>1, <2>2, OrderHop
<1> QED BY <1>1, OrderDisk, OrderGoroutine, OrderWatcher, OrderForwarder, OrderLoop DEF Next

(* No line is read twice or out of its order, from the files to the         *)
(* program loop, through the hand-over to the watcher and truncations       *)
(* (filereader.go, readFilesAsync and checkInputChannel).                   *)
THEOREM LinesInOrder == Spec => []EachLineOnceInOrder
<1>1. OrderInv => EachLineOnceInOrder
  <2> SUFFICES ASSUME OrderInv PROVE EachLineOnceInOrder
    OBVIOUS
  <2>1. Travelled \in Seq(Lines) /\ DOMAIN Travelled = 1..Len(Travelled)
    BY TravelledLines DEF OrderInv
  <2>2. \A i, j \in DOMAIN Travelled :
          i < j /\ Travelled[i][1] = Travelled[j][1] => Travelled[i][2] < Travelled[j][2]
    BY <2>1 DEF OrderInv, TravelInv, Rising
  <2>3. ASSUME NEW f \in Files, NEW j \in DOMAIN scanned[f]
        PROVE  /\ \A i \in 1..(j - 1) : scanned[f][i] < scanned[f][j]
               /\ \A i \in DOMAIN Travelled : Travelled[i][1] = f => Travelled[i][2] < scanned[f][j]
    <3>1. scanned[f] \in Seq(Nat) /\ Increasing(scanned[f])
      BY DEF OrderInv, ReadTypes, TravelInv
    <3>2. Len(scanned[f]) \in Nat /\ j \in 1..Len(scanned[f])
      BY <2>3, <3>1
    <3>3. ASSUME NEW i \in 1..(j - 1) PROVE scanned[f][i] < scanned[f][j]
      <4>1. i \in 1..Len(scanned[f]) /\ i < j
        BY <3>2
      <4> QED BY <3>1, <3>2, <4>1 DEF Increasing
    <3>4. ASSUME NEW i \in DOMAIN Travelled, Travelled[i][1] = f
          PROVE  Travelled[i][2] < scanned[f][j]
      <4>1. Travelled[i] \in Lines
        BY <2>1
      <4>2. Travelled[i] = <<f, Travelled[i][2]>>
        BY <3>4, <4>1 DEF Lines
      <4>3. Has(Travelled, <<f, Travelled[i][2]>>) /\ Has(scanned[f], scanned[f][j])
        BY <2>1, <3>2, <4>2 DEF Has
      <4> QED BY <4>3 DEF OrderInv, TravelInv
    <3> QED BY <3>3, <3>4
  <2> QED BY <2>2, <2>3 DEF EachLineOnceInOrder
<1>2. Spec => []ReadInv
  BY ReadInitial, ReadInductive, PTL DEF Spec
<1>3. Spec => []OrderInv
  BY <1>2, OrderInitial, OrderInductive, PTL DEF Spec
<1> QED BY <1>1, <1>3, PTL

-----------------------------------------------------------------------------
(* The abstract feed. *)

(* A line the loop takes is newer than all it has of its file.              *)
LEMMA HeadIsNewer ==
  ASSUME ReadInv, OrderInv, inputChan # <<>>
  PROVE  Feed!Newer(Head(inputChan))
<1>1. PICK p, q, t, k : p = processed /\ q = inputChan /\ t = Travelled /\ k = Len(p)
  OBVIOUS
<1>2. p \in Seq(Lines) /\ q \in Seq(Lines) /\ k \in Nat /\ Len(q) \in Nat \ {0} /\ Head(q) = q[1]
  BY <1>1 DEF ReadInv, ReadTypes
<1>3. PICK r : r = Held \o lineChan
  OBVIOUS
<1>4. r \in Seq(Lines)
  <2>1. Held \in Seq(Lines)
    BY DEF Held, OrderInv, HeldInv, ReadTypes
  <2>2. lineChan \in Seq(Lines)
    BY DEF OrderInv, ReadTypes
  <2> QED BY <1>3, <2>1, <2>2
<1>5. t = p \o (q \o r)
  <2>1. Held \in Seq(Lines) /\ lineChan \in Seq(Lines) /\ p \o q \in Seq(Lines)
    BY <1>1, TravelledLines DEF OrderInv, ReadTypes
  <2>2. t = ((p \o q) \o Held) \o lineChan
    BY <1>1 DEF Travelled
  <2>3. t = (p \o q) \o r
    BY <1>3, <2>1, <2>2, Regroup
  <2> QED BY <1>2, <1>4, <2>3, Regroup
<1>6. q \o r \in Seq(Lines) /\ Len(q \o r) = Len(q) + Len(r) /\ (q \o r)[1] = q[1]
  BY <1>2, <1>4
<1>7. /\ Len(t) = k + Len(q \o r)
      /\ t[k + 1] = Head(q)
      /\ \A i \in 1..k : t[i] = p[i]
  BY <1>1, <1>2, <1>5, <1>6
<1>8. Rising(t)
  BY <1>1 DEF OrderInv, TravelInv
<1>9. ASSUME NEW i \in 1..k, p[i][1] = Head(q)[1] PROVE p[i][2] < Head(q)[2]
  <2>1. i \in 1..Len(t) /\ k + 1 \in 1..Len(t) /\ i < k + 1
    BY <1>2, <1>4, <1>6, <1>7
  <2> QED BY <1>7, <1>8, <1>9, <2>1 DEF Rising
<1>10. DOMAIN processed = 1..k
  BY <1>1, <1>2
<1> QED BY <1>1, <1>9, <1>10 DEF Feed!Newer

(* Every step gives the program loop the next line of a file, tells it the  *)
(* end behind all lines of the start, disturbs the input, or changes        *)
(* nothing the loop can see.                                                *)
LEMMA FileStepsMap ==
  ASSUME ReadInv, OrderInv, FinishedMeansAllRead', [Next]_vars
  PROVE  [Feed!Next]_(Feed!vars)
<1>0. quit \in BOOLEAN /\ truncations \in Nat /\ processed \in Seq(Lines) /\ inputChan \in Seq(Lines)
  BY DEF ReadInv, ReadTypes
<1>1. ASSUME UNCHANGED <<processed, loop, truncations, quit>> PROVE [Feed!Next]_(Feed!vars)
  BY <1>1 DEF Feed!vars, Excused
<1>2. CASE ProcessLine
  <2>1. /\ loop = "check" /\ loop' = loop /\ inputChan # <<>>
        /\ UNCHANGED <<truncations, quit>>
        /\ processed' = Append(processed, Head(inputChan))
    BY <1>2 DEF ProcessLine, readerVars, diskVars
  <2>2. Head(inputChan) \in Feed!Range(processed')
    <3>1. PICK x : x = Head(inputChan) /\ x \in Lines
      BY <1>0, <2>1
    <3>2. /\ Len(processed) + 1 \in DOMAIN Append(processed, x)
          /\ Append(processed, x)[Len(processed) + 1] = x
      BY <1>0, <3>1, AppendProperties
    <3> QED BY <2>1, <3>1, <3>2 DEF Feed!Range
  <2>3. Feed!Give
    BY <2>1, <2>2, HeadIsNewer DEF Feed!Give, Excused
  <2> QED BY <2>3 DEF Feed!Next
<1>3. CASE Finish
  <2>1. /\ loop = "check" /\ loop' = "finished"
        /\ UNCHANGED <<processed, truncations, quit>>
    BY <1>3 DEF Finish, readerVars, diskVars
  <2>2. Excused \/ (Files \X (1..FirstLines)) \ Blank \subseteq Feed!Range(processed)
    <3> SUFFICES ASSUME ~Excused, NEW x \in (Files \X (1..FirstLines)) \ Blank
                 PROVE  x \in Feed!Range(processed)
      OBVIOUS
    <3>1. PICK f \in Files, n \in 1..FirstLines : x = <<f, n>>
      OBVIOUS
    <3>2. ~quit' /\ truncations' = 0
      BY <1>0, <2>1 DEF Excused
    <3>3. \E i \in DOMAIN processed' : processed'[i] = <<f, n>>
      BY <2>1, <3>1, <3>2 DEF FinishedMeansAllRead
    <3> QED BY <2>1, <3>1, <3>3 DEF Feed!Range
  <2>3. Feed!End
    BY <2>1, <2>2 DEF Feed!End, Excused
  <2> QED BY <2>3 DEF Feed!Next
<1>4. CASE Quit \/ Disk
  <2>1. UNCHANGED <<processed, loop>> /\ (Excused => Excused')
    <3>1. CASE Quit
      BY <3>1 DEF Quit, readerVars, diskVars, Excused
    <3>2. ASSUME NEW f \in Files, WriteLine(f) \/ Truncate(f), UNCHANGED inputVars
          PROVE  UNCHANGED <<processed, loop>> /\ (Excused => Excused')
      <4>1. truncations' = truncations \/ truncations' = truncations + 1
        BY <3>2 DEF WriteLine, Truncate
      <4> QED BY <1>0, <3>2, <4>1 DEF inputVars, Excused
    <3> QED BY <1>4, <3>1, <3>2 DEF Disk
  <2>2. CASE ~Excused /\ Excused'
    <3>1. Excused \in BOOLEAN /\ Excused' \in BOOLEAN
      BY DEF Excused
    <3>2. Feed!Disturb
      BY <2>1, <2>2 DEF Feed!Disturb
    <3> QED BY <3>2 DEF Feed!Next
  <2>3. CASE Excused' = Excused
    BY <2>1, <2>3 DEF Feed!vars
  <2> QED BY <2>1, <2>2, <2>3 DEF Excused
<1>5. CASE Reader \/ \E f \in Files : Watch(f)
  <2>1. UNCHANGED <<processed, loop, quit>>
    BY <1>5 DEF Reader, Watch, inputVars
  <2>2. UNCHANGED truncations
    BY <1>5 DEF Reader, Watch, StartGoroutine, ReadFill, ReadSend, SeekEnd, AddWatcher, EndFollow,
       CloseAllWatchers, CloseLines, WatchFile, TakeEvent, StatGrown, Reopen, TailFill, TailSend, TailExit,
       diskVars
  <2> QED BY <1>1, <2>1, <2>2
<1>6. CASE Forwarder \/ UNCHANGED vars
  BY <1>1, <1>6 DEF Forwarder, Receive, ReaderDone, StopReader, Forward, LeaveReader, vars, readerVars,
     inputVars, diskVars
<1> QED BY <1>2, <1>3, <1>4, <1>5, <1>6 DEF Next, Loop

(* Whatever the goroutines, the writers and the user do, and whatever the   *)
(* capacities of the channels, what the program loop sees of its files is   *)
(* a feed of lines: each once, in order, and then the end (filereader.go,   *)
(* readFilesAsync and checkInputChannel).                                   *)
THEOREM FileInputIsAFeed == Spec => ImplementsFeed
<1>1. Init => Feed!Init
  BY DEF Init, ReaderInit, Feed!Init, Excused
<1>2. Spec => []ReadInv
  BY ReadInitial, ReadInductive, PTL DEF Spec
<1>3. Spec => []OrderInv
  BY <1>2, OrderInitial, OrderInductive, PTL DEF Spec
<1>4. ReadInv /\ OrderInv /\ FinishedMeansAllRead' /\ [Next]_vars => [Feed!Next]_(Feed!vars)
  BY FileStepsMap
<1>5. Spec => Feed!Spec
  BY <1>1, <1>2, <1>3, <1>4, EndMeansAllRead, PTL DEF Spec, Feed!Spec
<1> QED BY <1>5 DEF ImplementsFeed
-----------------------------------------------------------------------------
(* A file that was not truncated holds its lines at their places, and the   *)
(* offset is in it.  Only a watched file has events, and setupFileWatcher   *)
(* has not seen the file it is at; the lock is lost only behind Stop.       *)
WatchInv ==
  /\ truncations = 0 =>
       \A f \in Files : /\ written[f] = Len(content[f]) /\ offset[f] <= Len(content[f])
                        /\ \A k \in 1..Len(content[f]) : content[f][k] = k
  /\ watched \subseteq Files
  /\ notified \in [Files -> Nat] /\ \A f \in Files : notified[f] # 0 => f \in watched
  /\ main \in {"watch", "add"} => \A f \in watched : f < current
  /\ locked \/ main \in {"cleanup", "stuck"} => stopped

LEMMA WatchInitial == Init => WatchInv
<1> SUFFICES ASSUME Init PROVE WatchInv
  OBVIOUS
<1>1. FirstLines \in Nat /\ watched = {} /\ locked = FALSE /\ main = "read"
      /\ notified \in [Files -> Nat] /\ \A f \in Files : notified[f] = 0
  BY FileReaderAssumption DEF Init, ReaderInit
<1>2. ASSUME NEW f \in Files
      PROVE  /\ written[f] = Len(content[f]) /\ offset[f] <= Len(content[f])
             /\ \A k \in 1..Len(content[f]) : content[f][k] = k
  <2>1. content[f] = [n \in 1..FirstLines |-> n] /\ written[f] = FirstLines /\ offset[f] = 0
    BY DEF Init, ReaderInit
  <2>2. Len(content[f]) = FirstLines
    BY <1>1, <2>1
  <2> QED BY <1>1, <2>1, <2>2
<1> QED BY <1>1, <1>2 DEF WatchInv

LEMMA NotifyKeeps ==
  ASSUME WatchInv, NEW f \in Files, Notify(f), UNCHANGED watched
  PROVE  /\ notified' \in [Files -> Nat]
         /\ \A g \in Files : notified'[g] >= notified[g] /\ (notified'[g] # 0 => g \in watched')
<1>1. notified \in [Files -> Nat] /\ \A g \in Files : notified[g] # 0 => g \in watched
  BY DEF WatchInv
<1>2. CASE f \in watched
  <2>1. PICK n \in {notified[f], notified[f] + 1} : notified' = [notified EXCEPT ![f] = n]
    BY <1>2 DEF Notify
  <2> QED BY <1>1, <1>2, <2>1
<1>3. CASE f \notin watched
  BY <1>1, <1>3 DEF Notify
<1> QED BY <1>2, <1>3

(* A fill leaves the offset at the end of the file.                         *)
LEMMA FillEnds ==
  ASSUME ReadTypes, NEW f \in Files, offset[f] <= Len(content[f]), Fill(f)
  PROVE  offset' = [offset EXCEPT ![f] = Len(content[f])]
<1>1. content[f] \in Seq(Nat) /\ offset[f] \in Nat /\ Len(content[f]) \in Nat
  BY DEF ReadTypes
<1>2. Len(Missing(f)) = Len(content[f]) - offset[f]
  BY <1>1, SubSeqProperties DEF Missing
<1>3. offset[f] + Len(Missing(f)) = Len(content[f])
  BY <1>1, <1>2
<1> QED BY <1>3 DEF Fill

LEMMA WatchDisk ==
  ASSUME ReadInv, WatchInv, NEW f \in Files, WriteLine(f) \/ Truncate(f)
  PROVE  WatchInv'
<1> USE DEF WatchInv
<1>0. /\ content \in [Files -> Seq(Nat)] /\ written \in [Files -> Nat] /\ truncations \in Nat
      /\ offset \in [Files -> Nat]
  BY DEF ReadInv, ReadTypes
<1>1. /\ Notify(f) /\ UNCHANGED <<watched, main, current, locked, stopped, offset>>
  BY DEF WriteLine, Truncate, readVars
<1>2. notified' \in [Files -> Nat] /\ \A g \in Files : notified'[g] # 0 => g \in watched'
  BY <1>1, NotifyKeeps
<1>3. ASSUME truncations' = 0, NEW g \in Files
      PROVE  /\ written'[g] = Len(content'[g]) /\ offset'[g] <= Len(content'[g])
             /\ \A k \in 1..Len(content'[g]) : content'[g][k] = k
  <2>1. WriteLine(f) /\ truncations = 0
    <3>1. Truncate(f) => truncations' = truncations + 1
      BY DEF Truncate
    <3>2. WriteLine(f)
      BY <1>0, <1>3, <3>1
    <3>3. WriteLine(f) => truncations' = truncations
      BY DEF WriteLine
    <3> QED BY <1>3, <3>2, <3>3
  <2>2. PICK s, n : s = content[g] /\ n = written[g]
    OBVIOUS
  <2>3. /\ s \in Seq(Nat) /\ n \in Nat /\ n = Len(s) /\ \A k \in 1..n : s[k] = k
        /\ offset[g] \in Nat /\ offset[g] <= n
    BY <1>0, <2>1, <2>2
  <2>4. CASE g = f
    <3>1. written'[g] = n + 1 /\ content'[g] = Append(s, n + 1)
      BY <1>0, <2>1, <2>2, <2>4 DEF WriteLine
    <3>2. /\ Len(Append(s, n + 1)) = n + 1
          /\ \A k \in 1..(n + 1) : Append(s, n + 1)[k] = k
      BY <2>3
    <3> QED BY <1>1, <2>3, <3>1, <3>2
  <2>5. CASE g # f
    <3>1. written'[g] = n /\ content'[g] = s
      BY <1>0, <2>1, <2>2, <2>5 DEF WriteLine
    <3> QED BY <1>1, <2>3, <3>1
  <2> QED BY <2>4, <2>5
<1> QED BY <1>1, <1>2, <1>3

LEMMA WatchGoroutine == ASSUME ReadInv, WatchInv, StartGoroutine PROVE WatchInv'
<1> USE DEF WatchInv
<1>0. /\ content \in [Files -> Seq(Nat)] /\ offset \in [Files -> Nat] /\ current \in Files
      /\ \A f \in Files : Len(content[f]) \in Nat
      /\ main \in {"read", "close", "exited"} => watched = {}
  BY DEF ReadInv, ReadTypes, SafeInv
<1>1. ASSUME UNCHANGED <<content, written, truncations, watched, notified>>,
             truncations = 0 => \A f \in Files : offset'[f] <= Len(content[f]),
             main' \in {"watch", "add"} => \A f \in watched : f < current',
             locked' \/ main' \in {"cleanup", "stuck"} => stopped'
      PROVE  WatchInv'
  BY <1>1
<1>2. CASE ReadFill
  <2>1. UNCHANGED <<content, written, truncations, watched, notified, locked, stopped>>
    BY <1>2 DEF ReadFill, diskVars
  <2>2. truncations = 0 => \A f \in Files : offset'[f] <= Len(content[f])
    <3>1. CASE UNCHANGED readVars
      BY <3>1 DEF readVars
    <3>2. CASE truncations = 0 /\ Fill(current)
      <4>1. offset' = [offset EXCEPT ![current] = Len(content[current])]
        BY <1>0, <3>2, FillEnds DEF ReadInv
      <4> QED BY <1>0, <3>2, <4>1
    <3> QED BY <1>2, <3>1, <3>2 DEF ReadFill
  <2>3. watched = {} /\ main' \notin {"add", "cleanup", "stuck"}
    BY <1>0, <1>2 DEF ReadFill, NextFile, AfterReading
  <2>4. locked' => stopped'
    BY <2>1
  <2> QED BY <1>1, <2>1, <2>2, <2>3, <2>4
<1>3. CASE ReadSend
  <2>1. UNCHANGED <<content, written, truncations, watched, notified, locked, stopped, offset>>
    BY <1>3 DEF ReadSend, diskVars, SendOrDone, readVars
  <2>2. watched = {} /\ main' \notin {"add", "cleanup", "stuck"}
    BY <1>0, <1>3 DEF ReadSend, SendOrDone, NextFile, AfterReading
  <2> QED BY <1>1, <2>1, <2>2
<1>4. CASE SeekEnd
  <2>1. /\ UNCHANGED <<content, written, truncations, watched, notified, locked, stopped, current>>
        /\ main = "watch" /\ main' = "add"
        /\ offset' = [offset EXCEPT ![current] = Len(content[current])]
    BY <1>4 DEF SeekEnd, diskVars
  <2>2. truncations = 0 => \A f \in Files : offset'[f] <= Len(content[f])
    BY <1>0, <2>1
  <2> QED BY <1>1, <2>1, <2>2
<1>5. CASE AddWatcher
  <2>1. /\ UNCHANGED <<content, written, truncations, notified, locked, stopped, offset>>
        /\ main = "add" /\ watched \subseteq watched' /\ watched' \subseteq watched \cup {current}
    BY <1>5 DEF AddWatcher, diskVars, readVars
  <2>2. (main' = "watch" /\ current' = current + 1) \/ main' = "follow"
    BY <1>5 DEF AddWatcher, NextFile
  <2>3. \A f \in watched' : f \in Files /\ f < current + 1
    BY <1>0, <2>1 DEF Files
  <2>4. \A f \in Files : notified'[f] # 0 => f \in watched'
    BY <2>1
  <2> QED BY <2>1, <2>2, <2>3, <2>4
<1>6. CASE EndFollow \/ CloseAllWatchers \/ CloseLines
  <2>1. UNCHANGED <<content, written, truncations, watched, notified, stopped, offset>>
    BY <1>6 DEF EndFollow, CloseAllWatchers, CloseLines, diskVars, readVars
  <2>2. main' \notin {"watch", "add"} /\ (locked' \/ main' \in {"cleanup", "stuck"} => stopped')
    BY <1>6 DEF EndFollow, CloseAllWatchers, CloseLines
  <2> QED BY <1>1, <2>1, <2>2
<1> QED BY <1>2, <1>3, <1>4, <1>5, <1>6 DEF StartGoroutine

LEMMA WatchWatcher == ASSUME ReadInv, WatchInv, NEW f \in Files, WatchFile(f) PROVE WatchInv'
<1> USE DEF WatchInv
<1>0. /\ content \in [Files -> Seq(Nat)] /\ offset \in [Files -> Nat]
      /\ \A g \in Files : Len(content[g]) \in Nat
  BY DEF ReadInv, ReadTypes
<1>1. UNCHANGED <<content, written, truncations, watched, locked, stopped, main, current>>
  BY DEF WatchFile, TakeEvent, StatGrown, Reopen, TailFill, TailSend, TailExit, diskVars
<1>2. notified' \in [Files -> Nat] /\ \A g \in Files : notified'[g] # 0 => g \in watched'
  <2>1. CASE TakeEvent(f)
    <3>1. notified[f] \in Nat /\ notified[f] > 0 /\ notified' = [notified EXCEPT ![f] = @ - 1]
      BY <2>1 DEF TakeEvent
    <3> QED BY <1>1, <3>1
  <2>2. CASE UNCHANGED notified
    BY <1>1, <2>2
  <2> QED BY <2>1, <2>2 DEF WatchFile, StatGrown, Reopen, TailFill, TailSend, TailExit, diskVars
<1>3. ASSUME truncations = 0 PROVE \A g \in Files : offset'[g] <= Len(content[g])
  <2>1. CASE UNCHANGED offset
    BY <1>3, <2>1
  <2>2. CASE Reopen(f)
    <3> SUFFICES ASSUME NEW g \in Files PROVE offset'[g] <= Len(content[g])
      OBVIOUS
    <3>1. offset'[g] = offset[g] \/ offset'[g] = 0
      BY <1>0, <2>2 DEF Reopen
    <3>2. offset[g] <= Len(content[g]) /\ 0 <= Len(content[g])
      BY <1>0, <1>3
    <3> QED BY <3>1, <3>2
  <2>3. CASE Fill(f)
    <3>1. offset' = [offset EXCEPT ![f] = Len(content[f])]
      BY <1>3, <2>3, FillEnds DEF ReadInv
    <3> QED BY <1>0, <1>3, <3>1
  <2> QED BY <2>1, <2>2, <2>3 DEF WatchFile, TakeEvent, StatGrown, TailFill, TailSend, TailExit,
             SendOrDone, readVars
<1> QED BY <1>1, <1>2, <1>3

LEMMA WatchInductive == ReadInv /\ WatchInv /\ [Next]_vars => WatchInv'
<1> SUFFICES ASSUME ReadInv, WatchInv, [Next]_vars PROVE WatchInv'
  OBVIOUS
<1>1. ASSUME UNCHANGED <<content, written, truncations, offset, watched, notified, main, current, locked>>,
             stopped => stopped'
      PROVE  WatchInv'
  BY <1>1 DEF WatchInv
<1>2. CASE Disk
  BY <1>2, WatchDisk DEF Disk
<1>3. CASE Reader \/ \E f \in Files : Watch(f)
  BY <1>3, WatchGoroutine, WatchWatcher DEF Reader, Watch
<1>4. CASE Forwarder
  <2>1. UNCHANGED <<content, written, truncations, offset, watched, notified, main, current, locked>>
    BY <1>4 DEF Forwarder, Receive, ReaderDone, StopReader, Forward, LeaveReader, readerVars, diskVars,
       readVars
  <2>2. stopped => stopped'
    BY <1>4 DEF Forwarder, Receive, ReaderDone, StopReader, Forward, LeaveReader, readerVars
  <2> QED BY <1>1, <2>1, <2>2
<1>5. CASE Loop \/ Quit \/ UNCHANGED vars
  BY <1>1, <1>5 DEF Loop, ProcessLine, Finish, Quit, vars, readerVars, diskVars, readVars
<1> QED BY <1>2, <1>3, <1>4, <1>5 DEF Next

(* A reported line that the loop was not given yet.                         *)
Waiting(f, n) ==
  \/ Unread(f, n)
  \/ Has(scanned[f], n)
  \/ Has(lineChan, <<f, n>>) \/ Has(inputChan, <<f, n>>)
  \/ forwarded = <<f, n>>

LEMMA RangeHas == ASSUME NEW S, NEW s \in Seq(S), NEW x PROVE x \in Range(s) <=> Has(s, x)
<1>1. DOMAIN s = 1..Len(s)
  BY LenProperties
<1> QED BY <1>1 DEF Range, Has

LEMMA HasBoth ==
  ASSUME NEW S, NEW s \in Seq(S), NEW t \in Seq(S), NEW x
  PROVE  x \in Range(s \o t) <=> Has(s, x) \/ Has(t, x)
<1>1. s \o t \in Seq(S)
  OBVIOUS
<1>2. x \in Range(s \o t) <=> Has(s \o t, x)
  BY <1>1, RangeHas
<1> QED BY <1>2, HasConcat

LEMMA PendingWaits ==
  ASSUME ReadTypes, NEW f \in Files, NEW n, <<f, n>> \in Appended
  PROVE  <<f, n>> \in Pending <=> Waiting(f, n)
<1>1. /\ n \in Range(scanned[f]) <=> Has(scanned[f], n)
      /\ <<f, n>> \in Range(lineChan \o inputChan) <=> Has(lineChan, <<f, n>>) \/ Has(inputChan, <<f, n>>)
  BY RangeHas, HasBoth DEF ReadTypes
<1>2. <<f, n>>[1] = f /\ <<f, n>>[2] = n
  OBVIOUS
<1> QED BY <1>1, <1>2 DEF Pending, OnItsWay, Waiting

-----------------------------------------------------------------------------
(* What the steps do to one such line, when nobody has quit. *)

Undisturbed ==
  /\ ReadInv /\ OrderInv /\ WatchInv
  /\ truncations = 0 /\ ~quit

LEMMA Running ==
  ASSUME Undisturbed
  PROVE  /\ ~stopped /\ ~locked /\ panicked = FALSE
         /\ \A f \in Files : /\ content[f] \in Seq(Nat) /\ Len(content[f]) \in Nat /\ offset[f] \in Nat
                             /\ offset[f] <= Len(content[f]) /\ size[f] <= offset[f] /\ size[f] \in Nat
                             /\ \A k \in 1..Len(content[f]) : content[f][k] = k
                             /\ notified[f] \in Nat /\ (notified[f] # 0 => f \in watched)
                             /\ (tail[f] # "off" => f \in watched)
                             /\ scanned[f] \in Seq(Nat)
         /\ lineChan \in Seq(Lines) /\ inputChan \in Seq(Lines) /\ processed \in Seq(Lines)
<1>1. quit = FALSE
  BY DEF Undisturbed, ReadInv, ReadTypes
<1> QED BY <1>1 DEF Undisturbed, ReadInv, ReadTypes, SafeInv, StagesEnd, OrderInv, SizeInv, WatchInv

(* A fill takes what is unread.                                             *)
LEMMA FillWaits ==
  ASSUME Undisturbed, NEW f \in Files, NEW n \in Nat, Fill(f), Unread(f, n)
  PROVE  Has(scanned'[f], n)
<1>1. PICK s, o : s = content[f] /\ o = offset[f]
  OBVIOUS
<1>2. /\ s \in Seq(Nat) /\ Len(s) \in Nat /\ o \in Nat /\ o <= Len(s)
      /\ \A k \in 1..Len(s) : s[k] = k
      /\ n \in (o + 1)..Len(s)
  BY <1>1, Running DEF Unread
<1>3. PICK m : m = SubSeq(s, o + 1, Len(s))
  OBVIOUS
<1>4. /\ Len(m) = Len(s) - o
      /\ \A i \in 1..Len(m) : m[i] = s[o + i]
  BY <1>2, <1>3
<1>5. n - o \in 1..Len(m) /\ o + (n - o) = n /\ n \in 1..Len(s)
  BY <1>2, <1>4
<1>6. m[n - o] = n
  BY <1>2, <1>4, <1>5
<1>7. scanned'[f] = m
  BY <1>1, <1>3, Running DEF Fill, Missing, Undisturbed, ReadInv, ReadTypes
<1> QED BY <1>5, <1>6, <1>7 DEF Has

LEMMA FillElsewhere ==
  ASSUME ReadTypes, NEW g \in Files, Fill(g), NEW f \in Files, f # g
  PROVE  scanned'[f] = scanned[f] /\ offset'[f] = offset[f]
BY DEF Fill, ReadTypes

(* A line is sent, as the channel is open and nobody has stopped the reader. *)
LEMMA SendWaits ==
  ASSUME Undisturbed, ~closed, NEW g \in Files, scanned[g] # <<>>,
         NEW A, NEW B, SendOrDone(g, A, B),
         NEW f \in Files, NEW n, Has(scanned[f], n) \/ Has(lineChan, <<f, n>>)
  PROVE  Has(scanned'[f], n) \/ Has(lineChan', <<f, n>>)
<1>1. PICK s : s = scanned[g]
  OBVIOUS
<1>2. /\ lineChan' = Append(lineChan, <<g, Head(s)>>) /\ scanned' = [scanned EXCEPT ![g] = Tail(s)]
      /\ scanned \in [Files -> Seq(Nat)]
  BY <1>1, Running DEF SendOrDone, Undisturbed, ReadInv, ReadTypes
<1>3. /\ s \in Seq(Nat) /\ s # <<>> /\ Head(s) \in Nat
      /\ \A y : Has(s, y) => y = Head(s) \/ Has(Tail(s), y)
  BY <1>1, Running, HasTail
<1>4. <<g, Head(s)>> \in Lines /\ lineChan \in Seq(Lines)
  BY <1>3, Running DEF Lines
<1>5. /\ Has(lineChan', <<g, Head(s)>>)
      /\ \A x : Has(lineChan, x) => Has(lineChan', x)
  BY <1>2, <1>4, HasAppend
<1>6. CASE f = g
  <2>1. scanned'[f] = Tail(s) /\ scanned[f] = s
    BY <1>1, <1>2, <1>6
  <2> QED BY <1>3, <1>5, <1>6, <2>1
<1>7. CASE f # g
  BY <1>2, <1>5, <1>7
<1> QED BY <1>6, <1>7


LEMMA SameWaits ==
  ASSUME NEW f \in Files, NEW n, Waiting(f, n), UNCHANGED <<scanned, lineChan, inputChan, forwarded>>,
         Unread(f, n) => Unread(f, n)'
  PROVE  Waiting(f, n)'
BY DEF Waiting

LEMMA DiskWaits ==
  ASSUME Undisturbed, NEW f \in Files, NEW n, Waiting(f, n), Disk, truncations' = 0
  PROVE  Waiting(f, n)'
<1>1. PICK g \in Files : WriteLine(g) \/ Truncate(g)
  BY DEF Disk
<1>2. WriteLine(g)
  <2>1. Truncate(g) => truncations' = 1
    BY DEF Truncate, Undisturbed
  <2> QED BY <1>1, <2>1
<1>3. /\ UNCHANGED <<watched, tail, offset, scanned, lineChan, inputChan, forwarded>>
      /\ Notify(g)
  BY <1>2 DEF WriteLine, Disk, inputVars, readVars
<1>4. notified[f] \in Nat /\ notified'[f] \in Nat /\ notified'[f] >= notified[f]
  BY <1>3, NotifyKeeps, Running DEF Undisturbed
<1>5. Len(content'[f]) >= Len(content[f]) /\ Len(content'[f]) \in Nat
  <2>1. content \in [Files -> Seq(Nat)] /\ written'[g] \in Nat
    <3>1. content \in [Files -> Seq(Nat)] /\ written \in [Files -> Nat]
      BY DEF Undisturbed, ReadInv, ReadTypes
    <3>2. written' = [written EXCEPT ![g] = @ + 1]
      BY <1>2 DEF WriteLine
    <3> QED BY <3>1, <3>2
  <2>2. content' = [content EXCEPT ![g] = Append(@, written'[g])]
    BY <1>2 DEF WriteLine
  <2>3. Len(Append(content[g], written'[g])) = Len(content[g]) + 1
    BY <2>1
  <2> QED BY <2>1, <2>2, <2>3
<1>6. Unread(f, n) => Unread(f, n)'
  BY <1>3, <1>4, <1>5, Running DEF Unread
<1> QED BY <1>3, <1>6, SameWaits

LEMMA GoroutineWaits ==
  ASSUME Undisturbed, NEW f \in Files, NEW n \in Nat, Waiting(f, n), Reader
  PROVE  Waiting(f, n)'
<1>1. StartGoroutine /\ UNCHANGED <<inputChan, forwarded>>
  BY DEF Reader, inputVars
<1>2. CASE ReadFill
  <2>1. UNCHANGED <<content, notified, tail, lineChan>> /\ current \in Files
    BY <1>2 DEF ReadFill, diskVars, Undisturbed, ReadInv, ReadTypes
  <2>2. CASE UNCHANGED readVars
    BY <1>1, <2>1, <2>2, SameWaits DEF readVars, Unread
  <2>3. CASE Fill(current) /\ f = current
    <3>1. ~Has(scanned[f], n)
      BY <1>2, <2>3 DEF ReadFill, Has
    <3> QED BY <1>1, <2>1, <2>3, <3>1, FillWaits DEF Waiting
  <2>4. CASE Fill(current) /\ f # current
    BY <1>1, <2>1, <2>4, FillElsewhere DEF Waiting, Unread, Undisturbed, ReadInv
  <2> QED BY <1>2, <2>2, <2>3, <2>4 DEF ReadFill
<1>3. CASE ReadSend
  <2>1. UNCHANGED <<content, notified, tail, offset>> /\ current \in Files /\ ~closed
    BY <1>3, Running DEF ReadSend, diskVars, Undisturbed, ReadInv, ReadTypes, SafeInv, SendOrDone
  <2>2. PICK A, B : SendOrDone(current, A, B) /\ scanned[current] # <<>>
    BY <1>3 DEF ReadSend
  <2> QED BY <1>1, <2>1, <2>2, SendWaits DEF Waiting, Unread
<1>4. CASE SeekEnd
  <2>1. /\ UNCHANGED <<content, notified, tail, scanned, lineChan>> /\ main = "watch"
        /\ offset' = [offset EXCEPT ![current] = Len(content[current])]
        /\ offset \in [Files -> Nat] /\ current \in Files
    BY <1>4 DEF SeekEnd, diskVars, Undisturbed, ReadInv, ReadTypes
  <2>2. ~Unread(current, n)
    <3>1. current \notin watched
      <4>1. ~(current < current)
        BY <2>1 DEF Files
      <4> QED BY <2>1, <4>1 DEF Undisturbed, WatchInv
    <3>2. notified[current] = 0 /\ tail[current] = "off"
      BY <2>1, <3>1, Running
    <3> QED BY <3>2 DEF Unread
  <2>3. Unread(f, n) => Unread(f, n)'
    BY <2>1, <2>2 DEF Unread
  <2> QED BY <1>1, <2>1, <2>3, SameWaits
<1>5. CASE AddWatcher
  <2>1. /\ UNCHANGED <<content, notified, offset, scanned, lineChan>> /\ main = "add"
        /\ tail' = tail \/ tail' = [tail EXCEPT ![current] = "select"]
        /\ current \in Files
    BY <1>5 DEF AddWatcher, diskVars, readVars, Undisturbed, ReadInv, ReadTypes
  <2>2. tail[current] = "off"
    <3>1. ~(current < current)
      BY <2>1 DEF Files
    <3>2. current \notin watched
      BY <2>1, <3>1 DEF Undisturbed, WatchInv
    <3> QED BY <2>1, <3>2, Running
  <2>3. tail[f] \in {"stat", "scan"} => tail'[f] = tail[f]
    <3>1. tail \in [Files -> Places]
      BY DEF Undisturbed, ReadInv, SafeInv
    <3> QED BY <2>1, <2>2, <3>1
  <2>4. Unread(f, n) => Unread(f, n)'
    BY <2>1, <2>3 DEF Unread
  <2> QED BY <1>1, <2>1, <2>4, SameWaits
<1>6. CASE EndFollow \/ CloseAllWatchers \/ CloseLines
  <2>1. UNCHANGED <<content, notified, tail, offset, scanned, lineChan>>
    BY <1>6 DEF EndFollow, CloseAllWatchers, CloseLines, diskVars, readVars
  <2> QED BY <1>1, <2>1, SameWaits DEF Unread
<1> QED BY <1>1, <1>2, <1>3, <1>4, <1>5, <1>6 DEF StartGoroutine

LEMMA WatcherWaits ==
  ASSUME Undisturbed, NEW f \in Files, NEW n \in Nat, Waiting(f, n), NEW g \in Files, Watch(g)
  PROVE  Waiting(f, n)'
<1>1. WatchFile(g) /\ UNCHANGED <<inputChan, forwarded, content>>
  BY DEF Watch, inputVars, WatchFile, TakeEvent, StatGrown, Reopen, TailFill, TailSend, TailExit, diskVars
<1>2. tail \in [Files -> Places] /\ notified \in [Files -> Nat]
  BY DEF Undisturbed, ReadInv, SafeInv, WatchInv
<1>3. CASE TakeEvent(g)
  <2>1. /\ UNCHANGED <<offset, scanned, lineChan>>
        /\ notified[g] > 0 /\ notified' = [notified EXCEPT ![g] = @ - 1]
        /\ tail' = [tail EXCEPT ![g] = "stat"]
    BY <1>3, Running DEF TakeEvent, readVars, GotoLocking, Goto
  <2>2. Unread(f, n) => Unread(f, n)'
    BY <1>1, <1>2, <2>1 DEF Unread
  <2> QED BY <1>1, <2>1, <2>2, SameWaits
<1>4. CASE StatGrown(g)
  <2>1. UNCHANGED <<offset, scanned, lineChan, notified>> /\ tail' = [tail EXCEPT ![g] = "scan"]
    BY <1>4 DEF StatGrown, readVars, diskVars, Goto
  <2>2. Unread(f, n) => Unread(f, n)'
    BY <1>1, <1>2, <2>1 DEF Unread
  <2> QED BY <1>1, <2>1, <2>2, SameWaits
<1>5. ~Reopen(g)
  <2>1. offset[g] \in Nat /\ size[g] \in Nat /\ Len(content[g]) \in Nat
        /\ size[g] <= offset[g] /\ offset[g] <= Len(content[g])
    BY Running
  <2>2. ~(Len(content[g]) < size[g])
    BY <2>1
  <2> QED BY <2>2 DEF Reopen
<1>6. CASE TailFill(g)
  <2>1. UNCHANGED <<lineChan, notified>> /\ scanned[g] = <<>> /\ tail[g] = "scan"
    BY <1>6 DEF TailFill, diskVars
  <2>2. CASE Fill(g) /\ UNCHANGED tail /\ f = g
    <3>1. ~Has(scanned[f], n)
      BY <2>1, <2>2 DEF Has
    <3> QED BY <1>1, <2>1, <2>2, <3>1, FillWaits DEF Waiting
  <2>3. CASE Fill(g) /\ UNCHANGED tail /\ f # g
    BY <1>1, <2>1, <2>3, FillElsewhere DEF Waiting, Unread, Undisturbed, ReadInv
  <2>4. CASE Missing(g) = <<>> /\ UNCHANGED readVars /\ tail' = [tail EXCEPT ![g] = "select"]
    <3>1. PICK s, o : s = content[g] /\ o = offset[g]
      OBVIOUS
    <3>2. s \in Seq(Nat) /\ Len(s) \in Nat /\ o \in Nat /\ o <= Len(s)
      BY <3>1, Running
    <3>3. Len(SubSeq(s, o + 1, Len(s))) = Len(s) - o /\ Len(<<>>) = 0
      BY <3>2
    <3>4. Len(s) - o = 0
      BY <2>4, <3>1, <3>3 DEF Missing
    <3>5. ~Unread(g, n)
      BY <3>1, <3>2, <3>4 DEF Unread
    <3>6. Unread(f, n) => Unread(f, n)'
      BY <1>1, <1>2, <2>1, <2>4, <3>5 DEF Unread, readVars
    <3> QED BY <1>1, <2>1, <2>4, <3>6, SameWaits DEF readVars
  <2> QED BY <1>6, <2>2, <2>3, <2>4, Running DEF TailFill, GotoLocking, Goto
<1>7. CASE TailSend(g)
  <2>1. ~closed
    <3>1. tail[g] # "off"
      BY <1>7 DEF TailSend
    <3> QED BY <3>1, Running DEF Undisturbed, ReadInv, SafeInv
  <2>2. UNCHANGED <<notified, tail, offset>>
    BY <1>7, <2>1, Running DEF TailSend, diskVars, SendOrDone
  <2>3. PICK A, B : SendOrDone(g, A, B) /\ scanned[g] # <<>>
    BY <1>7 DEF TailSend
  <2> QED BY <1>1, <2>1, <2>2, <2>3, SendWaits DEF Waiting, Unread
<1>8. ~TailExit(g)
  BY Running DEF TailExit
<1> QED BY <1>1, <1>3, <1>4, <1>5, <1>6, <1>7, <1>8 DEF WatchFile

LEMMA HopsWait ==
  ASSUME Undisturbed, NEW f \in Files, NEW n \in Nat, <<f, n>> \notin Blank, Waiting(f, n),
         Forwarder \/ Loop
  PROVE  Waiting(f, n)' \/ Has(processed', <<f, n>>)
<1>1. UNCHANGED <<content, notified, tail, offset, scanned, quit>>
  BY DEF Forwarder, Loop, Receive, ReaderDone, StopReader, Forward, LeaveReader, ProcessLine, Finish,
     readerVars, diskVars, readVars
<1>2. Unread(f, n)' = Unread(f, n)
  BY <1>1 DEF Unread
<1>3. PICK x : x = <<f, n>>
  OBVIOUS
<1>4. x \in Lines /\ x # <<>>
  BY <1>3, LineNotEmpty DEF Lines
<1>5. ~StopReader /\ ~LeaveReader
  BY DEF Undisturbed, StopReader, LeaveReader
<1>6. lineChan \in Seq(Lines) /\ inputChan \in Seq(Lines) /\ processed \in Seq(Lines)
  BY Running
<1>7. CASE Receive
  <2>1. /\ UNCHANGED inputChan /\ forwarder = "receive" /\ lineChan' = Tail(lineChan)
        /\ Head(lineChan) \in Blank \/ forwarded' = Head(lineChan)
    BY <1>7 DEF Receive
  <2>2. forwarded # x
    BY <1>4, <2>1 DEF Undisturbed, OrderInv, HeldInv
  <2>3. Has(lineChan, x) => x = Head(lineChan) \/ Has(lineChan', x)
    BY <1>6, <1>7, <2>1, HasTail DEF Receive
  <2>4. x = Head(lineChan) => forwarded' = x
    BY <1>3, <2>1
  <2> QED BY <1>1, <1>2, <1>3, <2>1, <2>2, <2>3, <2>4 DEF Waiting
<1>8. CASE ReaderDone \/ Finish
  <2>1. UNCHANGED <<lineChan, inputChan, forwarded>>
    BY <1>8 DEF ReaderDone, Finish, readerVars
  <2> QED BY <1>1, <1>2, <2>1, SameWaits
<1>9. CASE Forward
  <2>1. /\ UNCHANGED lineChan /\ inputChan' = Append(inputChan, forwarded) /\ forwarded \in Lines
    BY <1>9 DEF Forward, readerVars, Undisturbed, ReadInv, ReadTypes
  <2>2. Has(inputChan', forwarded) /\ (Has(inputChan, x) => Has(inputChan', x))
    BY <1>6, <2>1, HasAppend
  <2> QED BY <1>1, <1>2, <1>3, <2>1, <2>2 DEF Waiting
<1>10. CASE ProcessLine
  <2>1. /\ UNCHANGED <<lineChan, forwarded>> /\ inputChan # <<>> /\ inputChan' = Tail(inputChan)
        /\ processed' = Append(processed, Head(inputChan))
    BY <1>10 DEF ProcessLine, readerVars
  <2>2. Head(inputChan) \in Lines /\ (Has(inputChan, x) => x = Head(inputChan) \/ Has(inputChan', x))
    BY <1>6, <2>1, HasTail
  <2>3. Has(processed', Head(inputChan))
    BY <1>6, <2>1, <2>2, HasAppend
  <2> QED BY <1>1, <1>2, <1>3, <2>1, <2>2, <2>3 DEF Waiting
<1> QED BY <1>5, <1>7, <1>8, <1>9, <1>10 DEF Forwarder, Loop

LEMMA StepWaits ==
  ASSUME ReadInv, ReadInv', OrderInv, WatchInv, [Next]_vars, ~Excused',
         NEW line \in Pending
  PROVE  line \in Pending' \/ line \in Range(processed)'
<1>1. PICK f \in Files, n \in (FirstLines + 1)..MaxLines : line = <<f, n>> /\ <<f, n>> \in Appended
  BY DEF Pending, Appended
<1>2. n \in Nat /\ <<f, n>> \notin Blank
  BY <1>1, FileReaderAssumption DEF Appended, MaxLines
<1>3. truncations' = 0 /\ quit' = FALSE
  BY DEF Excused, ReadInv, ReadTypes
<1>4. truncations = 0 /\ quit = FALSE
  <2>1. quit' = FALSE => quit = FALSE
    BY DEF Next, vars, Disk, Reader, Watch, Forwarder, Loop, Quit, Receive, ReaderDone, StopReader, Forward,
       LeaveReader, ProcessLine, Finish, inputVars
  <2>2. UNCHANGED truncations \/ Disk
    BY DEF Next, vars, Reader, Watch, Forwarder, Loop, Quit, Receive, ReaderDone, StopReader, Forward,
       LeaveReader, ProcessLine, Finish, readerVars, diskVars, StartGoroutine, ReadFill, ReadSend, SeekEnd,
       AddWatcher, EndFollow, CloseAllWatchers, CloseLines, WatchFile, TakeEvent, StatGrown, Reopen,
       TailFill, TailSend, TailExit
  <2>3. Disk => truncations' = truncations \/ truncations' = truncations + 1
    BY DEF Disk, WriteLine, Truncate
  <2>4. truncations \in Nat
    BY DEF ReadInv, ReadTypes
  <2> QED BY <1>3, <2>1, <2>2, <2>3, <2>4
<1>5. Undisturbed
  BY <1>4 DEF Undisturbed
<1>6. Waiting(f, n)
  BY <1>1, PendingWaits DEF ReadInv
<1>7. Waiting(f, n)' \/ Has(processed', <<f, n>>)
  <2>1. CASE Disk
    BY <1>3, <1>5, <1>6, <2>1, DiskWaits
  <2>2. CASE Reader
    BY <1>2, <1>5, <1>6, <2>2, GoroutineWaits
  <2>3. CASE \E g \in Files : Watch(g)
    BY <1>2, <1>5, <1>6, <2>3, WatcherWaits
  <2>4. CASE Forwarder \/ Loop
    BY <1>2, <1>5, <1>6, <2>4, HopsWait
  <2>5. CASE Quit \/ UNCHANGED vars
    <3>1. UNCHANGED <<content, notified, tail, offset, scanned, lineChan, inputChan, forwarded>>
      BY <2>5 DEF Quit, vars, inputVars, readerVars, diskVars, readVars
    <3> QED BY <1>6, <3>1, SameWaits DEF Unread
  <2> QED BY <2>1, <2>2, <2>3, <2>4, <2>5 DEF Next
<1>8. Has(processed', <<f, n>>) => line \in Range(processed)'
  <2>1. processed' \in Seq(Lines)
    BY DEF ReadInv, ReadTypes
  <2> QED BY <1>1, <2>1, RangeHas
<1>9. ASSUME Waiting(f, n)' PROVE line \in Pending'
  <2>1. /\ scanned'[f] \in Seq(Nat) /\ lineChan' \in Seq(Lines) /\ inputChan' \in Seq(Lines)
    BY DEF ReadInv, ReadTypes
  <2>2. n \in Range(scanned'[f]) <=> Has(scanned'[f], n)
    BY <2>1, RangeHas
  <2>3. <<f, n>> \in Range(lineChan' \o inputChan') <=> Has(lineChan', <<f, n>>) \/ Has(inputChan', <<f, n>>)
    BY <2>1, HasBoth
  <2>4. <<f, n>>[1] = f /\ <<f, n>>[2] = n
    OBVIOUS
  <2>5. Unread(f, n)' \/ OnItsWay(f, n)'
    BY <1>9, <2>2, <2>3 DEF Waiting, OnItsWay
  <2> QED BY <1>1, <2>4, <2>5 DEF Pending
<1> QED BY <1>7, <1>8, <1>9

(* Whatever is written, merged by fsnotify and sent through full channels   *)
(* by however many watchers, a line that was reported stays on its way      *)
(* until the program loop has it, unless the user quits or a file is        *)
(* truncated (filereader.go, readFilesAsync and checkInputChannel).         *)
THEOREM ReportedLinesStay == Spec => NoneDropped
<1> DEFINE A == \A line \in Pending : Excused' \/ line \in Pending' \/ line \in Range(processed)'
<1>1. ReadInv /\ ReadInv' /\ OrderInv /\ WatchInv /\ [Next]_vars => [A]_vars
  BY StepWaits
<1>2. Spec => []ReadInv
  BY ReadInitial, ReadInductive, PTL DEF Spec
<1>3. Spec => []OrderInv
  BY <1>2, OrderInitial, OrderInductive, PTL DEF Spec
<1>4. Spec => []WatchInv
  BY <1>2, WatchInitial, WatchInductive, PTL DEF Spec
<1>5. Spec => [][A]_vars
  BY <1>1, <1>2, <1>3, <1>4, PTL DEF Spec
<1> QED BY <1>5 DEF NoneDropped
=============================================================================
