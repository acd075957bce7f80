---------------------------- MODULE DashboardProofs ----------------------------
(***************************************************************************)
(* Proofs about the program loop and the dashboard: its timers, the lines  *)
(* and entries that pass through the loop, its windows, the log list with  *)
(* its filters, its pattern miner and its cursors, and the panels that     *)
(* count entries.                                                          *)
(***************************************************************************)
EXTENDS Modals, Columns, AppLoop, Statistics, LoopsProofs, FiniteSetTheorems, SequenceTheorems, TLAPS

-----------------------------------------------------------------------------
(* The update timers. *)

(* No timer has a number that was not given out.                            *)
TimersInv ==
  /\ timerSequence \in 0..MaxTimers
  /\ timers \in [0..MaxTimers -> Nat]
  /\ OneLiveTimer
  /\ \A s \in 0..MaxTimers : s > timerSequence => timers[s] = 0

LEMMA TimersInductive == TimersInv /\ [AppNext]_appVars => TimersInv'
<1> SUFFICES ASSUME TimersInv, [AppNext]_appVars PROVE TimersInv'
  OBVIOUS
<1> USE AppLoopAssumption DEF TimersInv, OneLiveTimer
<1>1. ASSUME UNCHANGED timerVars PROVE TimersInv'
  BY <1>1 DEF timerVars
<1>2. CASE UpdateIntervalMsg
  BY <1>2 DEF UpdateIntervalMsg, StartTimer
<1>3. ASSUME NEW seq \in 0..MaxTimers, TickMsg(seq)
      PROVE  TimersInv'
  <2>1. CASE seq # timerSequence
    BY <1>3, <2>1 DEF TickMsg
  <2>2. CASE seq = timerSequence
    BY <1>3, <2>2 DEF TickMsg, StartTimer
  <2> QED BY <2>1, <2>2
<1>4. CASE UNCHANGED appVars
  BY <1>1, <1>4 DEF appVars
<1>5. CASE ScanLine \/ SendLine \/ ReaderEnds \/ EntryMirrored \/ ReceiveLine \/ EndOfInput
  BY <1>1, <1>5 DEF ScanLine, SendLine, ReaderEnds, EntryMirrored, ReceiveLine, EndOfInput,
     LoopLeft, CommandLeft
<1>6. CASE LogLineMsg \/ FinishedMsg \/ QuitKeyMsg
  BY <1>1, <1>6 DEF LogLineMsg, FinishedMsg, QuitKeyMsg
<1> QED BY <1>2, <1>3, <1>4, <1>5, <1>6 DEF AppNext

(* However often the interval is changed, one timer drives the updates:     *)
(* TickMsg of an old sequence number starts none (app.go).                  *)
THEOREM TimersDieOut == AppSpec => []OneLiveTimer
<1>1. AppInit => TimersInv
  BY AppLoopAssumption DEF AppInit, TimersInv, OneLiveTimer
<1>2. TimersInv => OneLiveTimer
  BY DEF TimersInv
<1> QED BY <1>1, <1>2, TimersInductive, PTL DEF AppSpec

-----------------------------------------------------------------------------
(* The lines. *)

TakenKinds == [all : Nat, dropped : Nat, decoded : Nat]

LinesTyped ==
  /\ source # "otlp" => inHand \in Seq(Lines) /\ inputChan \in Seq(Lines) /\ lineMsg \in Seq(Lines)
  /\ source # "otlp" /\ check = "line" => Len(lineMsg) = 1
  /\ taken \in TakenKinds
  /\ jsonBuffer \in Seq(Lines) /\ jsonDepth \in Int

LinesInv == LinesTyped /\ LinesAccountedFor

DepthsOf(lines) == [i \in DOMAIN lines |-> lines[i].depth]

LEMMA DepthOfLine == ASSUME NEW l \in Lines PROVE l.depth \in Int
BY LineDecoderAssumption

(* The depth of a document grows with each line by that of the line.        *)
LEMMA DepthsAppend ==
  ASSUME NEW s \in Seq(Lines), NEW l \in Lines
  PROVE  /\ SumOfDepths(s) \in Int /\ l.depth \in Int
         /\ SumOfDepths(Append(s, l)) = SumOfDepths(s) + l.depth
<1>1. l.depth \in Int /\ \A i \in 1..Len(s) : s[i] \in Lines /\ s[i].depth \in Int
  BY DepthOfLine
<1>2. DepthsOf(s) \in Seq(Int) /\ Len(DepthsOf(s)) = Len(s) /\ Len(s) \in Nat
  BY <1>1 DEF DepthsOf
<1>3. /\ Append(s, l) \in Seq(Lines) /\ Len(Append(s, l)) = Len(s) + 1
      /\ \A i \in 1..Len(s) : Append(s, l)[i] = s[i] /\ Append(s, l)[Len(s) + 1] = l
  BY AppendProperties
<1>4. /\ Append(DepthsOf(s), l.depth) \in Seq(Int)
      /\ Len(Append(DepthsOf(s), l.depth)) = Len(s) + 1
      /\ \A i \in 1..Len(s) : Append(DepthsOf(s), l.depth)[i] = DepthsOf(s)[i]
      /\ Append(DepthsOf(s), l.depth)[Len(s) + 1] = l.depth
  BY <1>1, <1>2, AppendProperties
<1>5. PICK t : t = Append(s, l)
  OBVIOUS
<1>6. t \in Seq(Lines) /\ Len(t) = Len(s) + 1 /\ t[Len(s) + 1] = l
  BY <1>3, <1>5
<1>7. /\ DepthsOf(t) \in Seq(Int) /\ Len(DepthsOf(t)) = Len(s) + 1
      /\ \A i \in 1..(Len(s) + 1) : DepthsOf(t)[i] = t[i].depth
  <2>1. \A i \in 1..Len(t) : t[i].depth \in Int
    BY <1>6, DepthOfLine
  <2> QED BY <1>2, <1>6, <2>1 DEF DepthsOf
<1>8. ASSUME NEW i \in 1..(Len(s) + 1)
      PROVE  DepthsOf(t)[i] = Append(DepthsOf(s), l.depth)[i]
  <2>1. CASE i \in 1..Len(s)
    <3>1. t[i] = s[i] /\ DepthsOf(s)[i] = s[i].depth
      BY <1>3, <1>5, <2>1 DEF DepthsOf
    <3> QED BY <1>4, <1>7, <2>1, <3>1
  <2>2. CASE i = Len(s) + 1
    BY <1>4, <1>6, <1>7, <2>2
  <2> QED BY <1>2, <2>1, <2>2
<1>9. DepthsOf(t) = Append(DepthsOf(s), l.depth)
  BY <1>4, <1>7, <1>8, SeqEqual
<1>10. SeqSum(DepthsOf(s)) \in Int
  <2>1. AreSums(PartialSums(DepthsOf(s)), DepthsOf(s), Len(s))
    BY <1>2, SumsAre
  <2> QED BY <1>2, <2>1 DEF AreSums, SeqSum
<1>11. SeqSum(DepthsOf(t)) = SeqSum(DepthsOf(s)) + l.depth
  BY <1>1, <1>2, <1>9, SumsAppend
<1>12. \A r : SumOfDepths(r) = SeqSum(DepthsOf(r))
  BY DEF SumOfDepths, DepthsOf
<1> QED BY <1>1, <1>5, <1>10, <1>11, <1>12

LEMMA DepthOfNothing == SumOfDepths(<<>>) = 0
<1>1. [i \in DOMAIN <<>> |-> <<>>[i].depth] = <<>>
  OBVIOUS
<1> QED BY <1>1, SumOfNothing DEF SumOfDepths

LEMMA Takes ==
  ASSUME taken \in TakenKinds, NEW kind \in {"dropped", "decoded"}, NEW n \in Nat, Take(kind, n)
  PROVE  /\ taken' \in TakenKinds
         /\ taken.all \in Nat /\ taken.dropped \in Nat /\ taken.decoded \in Nat
         /\ taken'.all = taken.all + 1
         /\ taken'.dropped = taken.dropped + (IF kind = "dropped" THEN n ELSE 0)
         /\ taken'.decoded = taken.decoded + (IF kind = "decoded" THEN n ELSE 0)
<1>1. PICK a \in Nat, d \in Nat, e \in Nat : taken = [all |-> a, dropped |-> d, decoded |-> e]
  BY DEF TakenKinds
<1>2. taken' = [[all |-> a, dropped |-> d, decoded |-> e] EXCEPT !.all = @ + 1, ![kind] = @ + n]
  BY <1>1 DEF Take
<1>4. CASE kind = "dropped"
  <2>1. taken' = [all |-> a + 1, dropped |-> d + n, decoded |-> e]
    BY <1>2, <1>4
  <2> QED BY <1>1, <1>4, <2>1 DEF TakenKinds
<1>5. CASE kind = "decoded"
  <2>1. taken' = [all |-> a + 1, dropped |-> d, decoded |-> e + n]
    BY <1>2, <1>5
  <2> QED BY <1>1, <1>5, <2>1 DEF TakenKinds
<1> QED BY <1>4, <1>5

(* A line that is added to the open document, or opens one.                 *)
LEMMA Accumulates ==
  ASSUME LinesInv, NEW l \in Lines, Accumulate(l, jsonBuffer, jsonDepth)
  PROVE  /\ taken' \in TakenKinds /\ jsonBuffer' \in Seq(Lines) /\ jsonDepth' \in Int
         /\ taken'.all = taken.all + 1 /\ LinesAccountedFor'
<1>1. /\ jsonBuffer \in Seq(Lines) /\ jsonDepth \in Int /\ taken \in TakenKinds
      /\ taken.all = taken.dropped + taken.decoded + Len(jsonBuffer)
      /\ jsonDepth = SumOfDepths(jsonBuffer)
  BY DEF LinesInv, LinesTyped, LinesAccountedFor
<1>2. PICK longer, now : longer = Append(jsonBuffer, l) /\ now = jsonDepth + l.depth
  OBVIOUS
<1>3. /\ longer \in Seq(Lines) /\ Len(longer) = Len(jsonBuffer) + 1 /\ Len(jsonBuffer) \in Nat
      /\ longer # <<>>
  BY <1>1, <1>2, AppendProperties
<1>4. now \in Int /\ now = SumOfDepths(longer)
  BY <1>1, <1>2, DepthsAppend
<1>5. CASE now <= 0
  <2>1. Take("decoded", Len(longer)) /\ jsonBuffer' = <<>> /\ jsonDepth' = 0 /\ inJsonObject' = FALSE
    BY <1>2, <1>5 DEF Accumulate, ResetJSONAccumulation
  <2>2. /\ taken' \in TakenKinds /\ taken.all \in Nat /\ taken.dropped \in Nat /\ taken.decoded \in Nat
        /\ taken'.all = taken.all + 1 /\ taken'.dropped = taken.dropped
        /\ taken'.decoded = taken.decoded + Len(longer)
    <3>1. Len(longer) \in Nat
      BY <1>3
    <3> QED BY <1>1, <2>1, <3>1, Takes
  <2>3. taken'.all = taken'.dropped + taken'.decoded + Len(jsonBuffer')
    <3>1. Len(jsonBuffer') = 0
      BY <2>1
    <3> QED BY <1>1, <1>3, <2>2, <3>1
  <2>4. jsonDepth' = SumOfDepths(jsonBuffer')
    BY <2>1, DepthOfNothing
  <2>5. inJsonObject' = (jsonBuffer' # <<>>) /\ ~inJsonObject'
    BY <2>1
  <2>6. LinesAccountedFor'
    BY <2>3, <2>4, <2>5 DEF LinesAccountedFor
  <2> QED BY <2>1, <2>2, <2>6
<1>6. CASE ~(now <= 0)
  <2>1. /\ taken' = [taken EXCEPT !.all = @ + 1]
        /\ jsonBuffer' = longer /\ jsonDepth' = now /\ inJsonObject' = TRUE
    BY <1>2, <1>6 DEF Accumulate
  <2>2. /\ taken' \in TakenKinds /\ taken.all \in Nat /\ taken.dropped \in Nat /\ taken.decoded \in Nat
        /\ taken'.all = taken.all + 1 /\ taken'.dropped = taken.dropped
        /\ taken'.decoded = taken.decoded
    BY <1>1, <2>1 DEF TakenKinds
  <2>3. taken'.all = taken'.dropped + taken'.decoded + Len(jsonBuffer')
    <3>1. Len(jsonBuffer') = Len(jsonBuffer) + 1
      BY <1>3, <2>1
    <3> QED BY <1>1, <1>3, <2>2, <3>1
  <2>4. inJsonObject' = (jsonBuffer' # <<>>) /\ jsonDepth' > 0 /\ jsonDepth' = SumOfDepths(jsonBuffer')
    <3>1. inJsonObject' = (jsonBuffer' # <<>>)
      BY <1>3, <2>1
    <3>2. jsonDepth' > 0
      BY <1>4, <1>6, <2>1
    <3> QED BY <1>4, <2>1, <3>1, <3>2
  <2>5. LinesAccountedFor'
    BY <2>3, <2>4 DEF LinesAccountedFor
  <2> QED BY <1>3, <1>4, <2>1, <2>2, <2>5
<1> QED BY <1>5, <1>6

LEMMA LineProcessed ==
  ASSUME LinesInv, NEW l \in Lines, ProcessLogLine(l)
  PROVE  /\ taken' \in TakenKinds /\ jsonBuffer' \in Seq(Lines) /\ jsonDepth' \in Int
         /\ taken'.all = taken.all + 1 /\ LinesAccountedFor'
<1>1. taken \in TakenKinds /\ jsonBuffer \in Seq(Lines) /\ jsonDepth \in Int /\ LinesAccountedFor
  BY DEF LinesInv, LinesTyped
<1>2. ASSUME Take("dropped", 1) \/ Take("decoded", 1), UNCHANGED <<jsonBuffer, jsonDepth, inJsonObject>>
      PROVE  /\ taken' \in TakenKinds /\ taken'.all = taken.all + 1 /\ LinesAccountedFor'
  <2>1. /\ taken' \in TakenKinds /\ taken.all \in Nat /\ taken.dropped \in Nat /\ taken.decoded \in Nat
        /\ taken'.all = taken.all + 1
        /\ taken'.dropped + taken'.decoded = taken.dropped + taken.decoded + 1
    <3>1. CASE Take("dropped", 1)
      BY <1>1, <3>1, Takes
    <3>2. CASE Take("decoded", 1)
      BY <1>1, <3>2, Takes, SMTT(30)
    <3> QED BY <1>2, <3>1, <3>2
  <2>2. {taken'.dropped, taken'.decoded} \subseteq Nat /\ Len(jsonBuffer) \in Nat
    BY <1>1, <2>1 DEF TakenKinds
  <2>3. SumOfDepths(jsonBuffer') = SumOfDepths(jsonBuffer)
    BY <1>2
  <2> QED BY <1>1, <1>2, <2>1, <2>2, <2>3 DEF LinesAccountedFor
<1>3. CASE \/ l.signal /\ Take("dropped", 1) /\ UNCHANGED <<jsonBuffer, jsonDepth, inJsonObject>>
           \/ Take("decoded", 1) /\ UNCHANGED <<jsonBuffer, jsonDepth, inJsonObject>>
  BY <1>1, <1>2, <1>3
<1>4. CASE inJsonObject /\ Accumulate(l, jsonBuffer, jsonDepth)
  BY <1>4, Accumulates
<1>5. CASE ~inJsonObject /\ Accumulate(l, <<>>, 0)
  <2>1. jsonBuffer = <<>> /\ jsonDepth = 0
    BY <1>1, <1>5, DepthOfNothing DEF LinesAccountedFor
  <2> QED BY <1>5, <2>1, Accumulates
<1> QED BY <1>3, <1>4, <1>5 DEF ProcessLogLine

(* What is under way between the reader and the loop, and where it stands.  *)
HandOver ==
  source # "otlp" =>
    /\ read \in Nat
    /\ Len(inHand) = IF reader = "sending" THEN 1 ELSE 0
    /\ Len(lineMsg) = IF check = "line" THEN 1 ELSE 0
    /\ closed => reader = "done"
    /\ finished => check = "none"
    /\ ~ctxDone =>
         /\ read = taken.all + Len(lineMsg) + Len(inputChan) + Len(inHand)
         /\ check = "finished" \/ finished => closed /\ inputChan = <<>>

LoopInv == LinesInv /\ HandOver

LEMMA EmptyLine == <<>> \in Seq(Lines) /\ Len(<<>>) = 0
OBVIOUS

LEMMA LoopInitial == AppInit => LoopInv
<1> SUFFICES ASSUME AppInit PROVE LoopInv
  OBVIOUS
<1>1. LinesTyped
  BY EmptyLine DEF AppInit, DecoderInit, LinesTyped, TakenKinds
<1>2. LinesAccountedFor
  <2>1. jsonBuffer = <<>> /\ jsonDepth = 0 /\ inJsonObject = FALSE
    BY DEF AppInit, DecoderInit
  <2>2. Len(jsonBuffer) = 0 /\ inJsonObject = (jsonBuffer # <<>>)
    BY <2>1, EmptyLine
  <2>3. taken.all = 0 /\ taken.dropped = 0 /\ taken.decoded = 0
    BY DEF AppInit, DecoderInit
  <2>4. jsonDepth = SumOfDepths(jsonBuffer)
    BY <2>1, DepthOfNothing
  <2> QED BY <2>1, <2>2, <2>3, <2>4 DEF LinesAccountedFor
<1>3. HandOver
  BY EmptyLine DEF AppInit, DecoderInit, HandOver
<1> QED BY <1>1, <1>2, <1>3 DEF LoopInv, LinesInv

(* The decoder is left alone.                                               *)
LEMMA DecoderRests ==
  ASSUME LoopInv, UNCHANGED <<taken, jsonBuffer, jsonDepth, inJsonObject, source>>,
         source # "otlp" => /\ inHand' \in Seq(Lines) /\ inputChan' \in Seq(Lines) /\ lineMsg' \in Seq(Lines)
                            /\ HandOver'
  PROVE  LoopInv'
<1>1. LinesAccountedFor'
  BY DEF LoopInv, LinesInv, LinesAccountedFor
<1>2. LinesTyped'
  BY DEF LoopInv, LinesInv, LinesTyped, HandOver
<1>3. HandOver'
  BY DEF HandOver
<1> QED BY <1>1, <1>2, <1>3 DEF LoopInv, LinesInv

LEMMA ReaderHandsOver ==
  ASSUME LoopInv, ScanLine \/ SendLine \/ ReaderEnds \/ EntryMirrored PROVE LoopInv'
<1>1. UNCHANGED <<taken, jsonBuffer, jsonDepth, inJsonObject, source, lineMsg, check, finished, ctxDone>>
  BY DEF ScanLine, SendLine, ReaderEnds, EntryMirrored, ReaderVars, LoopLeft, decoderVars
<1>2. SUFFICES ASSUME source # "otlp"
               PROVE  inHand' \in Seq(Lines) /\ inputChan' \in Seq(Lines) /\ HandOver'
  BY <1>1, DecoderRests DEF LoopInv, LinesInv, LinesTyped
<1>3. /\ inHand \in Seq(Lines) /\ inputChan \in Seq(Lines) /\ lineMsg \in Seq(Lines) /\ HandOver
      /\ Len(inputChan) \in Nat /\ Len(lineMsg) \in Nat /\ taken.all \in Nat /\ read \in Nat
  BY <1>2 DEF LoopInv, LinesInv, LinesTyped, TakenKinds, HandOver
<1>4. CASE ScanLine
  <2>1. PICK l \in Lines : inHand' = <<l>>
    BY <1>4 DEF ScanLine
  <2>2. inHand' \in Seq(Lines) /\ Len(inHand') = 1
    BY <2>1
  <2>3. /\ reader = "scanning" /\ reader' = "sending" /\ read' = read + 1 /\ UNCHANGED <<inputChan, closed>>
    BY <1>4 DEF ScanLine, ReaderVars
  <2> QED BY <1>1, <1>2, <1>3, <2>2, <2>3 DEF HandOver
<1>5. CASE SendLine
  <2>1. /\ reader = "sending" /\ reader' = "scanning" /\ inputChan' = inputChan \o inHand /\ inHand' = <<>>
        /\ UNCHANGED <<read, closed>>
    BY <1>5 DEF SendLine, ReaderVars
  <2>2. Len(inHand) = 1 /\ ~closed
    BY <1>2, <1>3, <2>1 DEF HandOver
  <2>3. inputChan' \in Seq(Lines) /\ Len(inputChan') = Len(inputChan) + 1
    <3>1. /\ inputChan \o inHand \in Seq(Lines)
          /\ Len(inputChan \o inHand) = Len(inputChan) + Len(inHand)
      BY <1>3, ConcatProperties
    <3> QED BY <2>1, <2>2, <3>1
  <2> QED BY <1>1, <1>2, <1>3, <2>1, <2>2, <2>3, EmptyLine DEF HandOver
<1>6. CASE ReaderEnds
  <2>1. /\ ctxDone \/ reader = "scanning"
        /\ reader' = "done" /\ closed' = TRUE /\ inHand' = <<>> /\ UNCHANGED <<read, inputChan>>
    BY <1>6 DEF ReaderEnds
  <2> QED BY <1>1, <1>2, <1>3, <2>1, EmptyLine DEF HandOver
<1>7. CASE EntryMirrored
  BY <1>2, <1>7 DEF EntryMirrored
<1> QED BY <1>4, <1>5, <1>6, <1>7

LEMMA CommandHandsOver ==
  ASSUME LoopInv, ReceiveLine \/ EndOfInput PROVE LoopInv'
<1>1. UNCHANGED <<taken, jsonBuffer, jsonDepth, inJsonObject, source, inHand, reader, read, closed,
                  finished, ctxDone>>
  BY DEF ReceiveLine, EndOfInput, CommandLeft, decoderVars
<1>2. SUFFICES ASSUME source # "otlp"
               PROVE  inputChan' \in Seq(Lines) /\ lineMsg' \in Seq(Lines) /\ HandOver'
  BY <1>1, DecoderRests DEF LoopInv, LinesInv, LinesTyped
<1>3. /\ inHand \in Seq(Lines) /\ inputChan \in Seq(Lines) /\ lineMsg \in Seq(Lines) /\ HandOver
      /\ Len(inputChan) \in Nat /\ taken.all \in Nat /\ read \in Nat /\ Len(inHand) \in Nat
  BY <1>2 DEF LoopInv, LinesInv, LinesTyped, TakenKinds, HandOver
<1>4. check = "waiting" /\ Len(lineMsg) = 0 /\ ~finished
  BY <1>2, <1>3 DEF ReceiveLine, EndOfInput, HandOver
<1>5. CASE ReceiveLine
  <2>1. /\ inputChan # <<>> /\ check' = "line" /\ lineMsg' = <<Head(inputChan)>> /\ inputChan' = Tail(inputChan)
    BY <1>5 DEF ReceiveLine
  <2>2. /\ Head(inputChan) \in Lines /\ Tail(inputChan) \in Seq(Lines)
        /\ Len(Tail(inputChan)) = Len(inputChan) - 1
    BY <1>3, <2>1, HeadTailProperties
  <2>3. lineMsg' \in Seq(Lines) /\ Len(lineMsg') = 1 /\ inputChan' \in Seq(Lines)
        /\ Len(inputChan') = Len(inputChan) - 1
    BY <2>1, <2>2
  <2> QED BY <1>1, <1>2, <1>3, <1>4, <2>1, <2>3 DEF HandOver
<1>6. CASE EndOfInput
  <2>1. closed /\ inputChan = <<>> /\ check' = "finished" /\ UNCHANGED <<lineMsg, inputChan>>
    BY <1>2, <1>6 DEF EndOfInput
  <2> QED BY <1>1, <1>2, <1>3, <1>4, <2>1 DEF HandOver
<1> QED BY <1>5, <1>6

LEMMA UpdateHandsOver ==
  ASSUME LoopInv, LogLineMsg PROVE LoopInv'
<1>1. /\ UNCHANGED <<source, reader, read, inHand, inputChan, closed, finished, ctxDone>>
      /\ check = "line" /\ lineMsg' = <<>> /\ check' = (IF finished THEN "none" ELSE "waiting")
  BY DEF LogLineMsg, inputLoopVars
<1>2. CASE source = "otlp"
  <2>1. /\ taken' = [taken EXCEPT !.all = @ + 1, !.decoded = @ + 1]
        /\ UNCHANGED <<jsonBuffer, jsonDepth, inJsonObject>>
    BY <1>2 DEF LogLineMsg, Mirror
  <2>2. taken \in TakenKinds /\ jsonBuffer \in Seq(Lines) /\ LinesAccountedFor
    BY DEF LoopInv, LinesInv, LinesTyped
  <2>3. /\ taken' \in TakenKinds /\ taken'.all = taken.all + 1 /\ taken'.decoded = taken.decoded + 1
        /\ taken'.dropped = taken.dropped /\ taken.all \in Nat /\ taken.decoded \in Nat
        /\ taken.dropped \in Nat /\ Len(jsonBuffer) \in Nat
    <3>1. PICK a \in Nat, d \in Nat, e \in Nat : taken = [all |-> a, dropped |-> d, decoded |-> e]
      BY <2>2 DEF TakenKinds
    <3>2. taken' = [all |-> a + 1, dropped |-> d, decoded |-> e + 1]
      BY <2>1, <3>1
    <3>3. Len(jsonBuffer) \in Nat
      BY <2>2
    <3> QED BY <3>1, <3>2, <3>3 DEF TakenKinds
  <2>4. LinesAccountedFor'
    BY <2>1, <2>2, <2>3 DEF LinesAccountedFor
  <2>5. LinesTyped' /\ HandOver'
    BY <1>1, <1>2, <2>1, <2>3 DEF LoopInv, LinesInv, LinesTyped, HandOver
  <2> QED BY <2>4, <2>5 DEF LoopInv, LinesInv
<1>3. CASE source # "otlp"
  <2>1. /\ inHand \in Seq(Lines) /\ inputChan \in Seq(Lines) /\ lineMsg \in Seq(Lines) /\ HandOver
        /\ Len(inputChan) \in Nat /\ taken.all \in Nat /\ read \in Nat /\ Len(inHand) \in Nat
        /\ Len(lineMsg) = 1
    BY <1>1, <1>3 DEF LoopInv, LinesInv, LinesTyped, TakenKinds, HandOver
  <2>2. lineMsg[1] \in Lines
    <3>1. 1 \in 1..Len(lineMsg) /\ lineMsg \in Seq(Lines)
      BY <2>1
    <3> QED BY <3>1
  <2>3. ProcessLogLine(lineMsg[1])
    BY <1>3 DEF LogLineMsg
  <2>4. /\ taken' \in TakenKinds /\ jsonBuffer' \in Seq(Lines) /\ jsonDepth' \in Int
        /\ taken'.all = taken.all + 1 /\ LinesAccountedFor'
    BY <2>2, <2>3, LineProcessed DEF LoopInv
  <2>5. lineMsg' \in Seq(Lines) /\ Len(lineMsg') = 0
    BY <1>1, EmptyLine
  <2>6. ~finished
    BY <1>1, <1>3, <2>1 DEF HandOver
  <2>7. HandOver'
    BY <1>1, <1>3, <2>1, <2>4, <2>5, <2>6 DEF HandOver
  <2>8. LinesTyped'
    BY <1>1, <1>3, <2>1, <2>4, <2>5, <2>6 DEF LinesTyped
  <2> QED BY <2>4, <2>7, <2>8 DEF LoopInv, LinesInv
<1> QED BY <1>2, <1>3

LEMMA LoopInductive == LoopInv /\ [AppNext]_appVars => LoopInv'
<1> SUFFICES ASSUME LoopInv, [AppNext]_appVars PROVE LoopInv'
  OBVIOUS
<1>1. ASSUME UNCHANGED <<taken, jsonBuffer, jsonDepth, inJsonObject, source, inHand, inputChan, lineMsg,
                         read, reader, closed>>,
             \/ UNCHANGED <<check, finished>> /\ (ctxDone' = ctxDone \/ ctxDone' = TRUE)
             \/ check = "finished" /\ check' = "none" /\ finished' = TRUE /\ ctxDone' = ctxDone
      PROVE  LoopInv'
  <2>1. HandOver'
    BY <1>1 DEF LoopInv, HandOver
  <2>2. source # "otlp" => inHand \in Seq(Lines) /\ inputChan \in Seq(Lines) /\ lineMsg \in Seq(Lines)
    BY DEF LoopInv, LinesInv, LinesTyped
  <2> QED BY <1>1, <2>1, <2>2, DecoderRests
<1>2. CASE \/ FinishedMsg \/ UpdateIntervalMsg \/ QuitKeyMsg \/ UNCHANGED appVars
           \/ \E seq \in 0..MaxTimers : TickMsg(seq)
  BY <1>1, <1>2 DEF FinishedMsg, UpdateIntervalMsg, QuitKeyMsg, TickMsg, appVars, inputLoopVars, decoderVars
<1> QED BY <1>2, ReaderHandsOver, CommandHandsOver, UpdateHandsOver DEF AppNext

LEMMA LoopInvariance == AppSpec => []LoopInv
BY LoopInitial, LoopInductive, PTL DEF AppSpec

(* Every line the loop took was dropped, decoded in one document or waits   *)
(* in the buffer, whose depth is that of its lines (processLogLine and      *)
(* handleJSONAccumulation).                                                 *)
THEOREM NoLineLost == AppSpec => []LinesAccountedFor
<1>1. LoopInv => LinesAccountedFor
  BY DEF LoopInv, LinesInv
<1> QED BY <1>1, LoopInvariance, PTL

-----------------------------------------------------------------------------
(* The entries of the documents. *)

LEMMA SeverityIsLevel == \A r : SeverityOfRecord(r) \in Levels
<1>1. \A text : NormalizeSeverity(text) \in Levels
  BY DEF NormalizeSeverity, Levels
<1> QED BY <1>1 DEF SeverityOfRecord

LEMMA DisjointUnion ==
  ASSUME NEW S, NEW T, IsFiniteSet(S), IsFiniteSet(T), S \cap T = {}
  PROVE  /\ IsFiniteSet(S \cup T)
         /\ Cardinality(S) \in Nat /\ Cardinality(T) \in Nat
         /\ Cardinality(S \cup T) = Cardinality(S) + Cardinality(T)
BY FS_Union, FS_EmptySet, FS_CardinalityType, SMTT(30)

(* Every entry of a document is counted at one level.                       *)
LEMMA CountsAddUp ==
  ASSUME NEW made, NEW n \in Nat, DOMAIN made = 1..n
  PROVE  /\ \A s : CountOf(made, s) \in Nat
         /\ CountOf(made, "TRACE") + CountOf(made, "DEBUG") + CountOf(made, "INFO")
              + CountOf(made, "WARN") + CountOf(made, "ERROR") + CountOf(made, "FATAL") = n
<1> DEFINE At(s) == {i \in 1..n : SeverityOfRecord(made[i]) = s}
<1>1. IsFiniteSet(1..n) /\ Cardinality(1..n) = n
  BY FS_Interval
<1>2. ASSUME NEW s PROVE IsFiniteSet(At(s)) /\ Cardinality(At(s)) \in Nat /\ CountOf(made, s) = Cardinality(At(s))
  <2>1. At(s) \subseteq 1..n
    OBVIOUS
  <2> QED BY <1>1, <2>1, FS_Subset, FS_CardinalityType DEF CountOf
<1>3. ASSUME NEW s, NEW t, s # t PROVE At(s) \cap At(t) = {}
  BY <1>3
<1>4. 1..n = At("TRACE") \cup At("DEBUG") \cup At("INFO") \cup At("WARN") \cup At("ERROR") \cup At("FATAL")
  BY SeverityIsLevel DEF Levels
<1>5. PICK T, D, I, W, E, F :
        T = At("TRACE") /\ D = At("DEBUG") /\ I = At("INFO") /\ W = At("WARN") /\ E = At("ERROR") /\ F = At("FATAL")
  OBVIOUS
<1>6. /\ IsFiniteSet(T) /\ IsFiniteSet(D) /\ IsFiniteSet(I) /\ IsFiniteSet(W) /\ IsFiniteSet(E) /\ IsFiniteSet(F)
      /\ T \cap D = {} /\ (T \cup D) \cap I = {} /\ (T \cup D \cup I) \cap W = {}
      /\ (T \cup D \cup I \cup W) \cap E = {} /\ (T \cup D \cup I \cup W \cup E) \cap F = {}
  BY <1>2, <1>5
<1> HIDE DEF At
<1>7. Cardinality(T \cup D) = Cardinality(T) + Cardinality(D) /\ IsFiniteSet(T \cup D)
  BY <1>6, DisjointUnion
<1>8. /\ Cardinality(T \cup D \cup I) = Cardinality(T \cup D) + Cardinality(I)
      /\ IsFiniteSet(T \cup D \cup I)
  BY <1>6, <1>7, DisjointUnion
<1>9. /\ Cardinality(T \cup D \cup I \cup W) = Cardinality(T \cup D \cup I) + Cardinality(W)
      /\ IsFiniteSet(T \cup D \cup I \cup W)
  BY <1>6, <1>8, DisjointUnion
<1>10. /\ Cardinality(T \cup D \cup I \cup W \cup E) = Cardinality(T \cup D \cup I \cup W) + Cardinality(E)
       /\ IsFiniteSet(T \cup D \cup I \cup W \cup E)
  BY <1>6, <1>9, DisjointUnion
<1>11. Cardinality(T \cup D \cup I \cup W \cup E \cup F)
         = Cardinality(T \cup D \cup I \cup W \cup E) + Cardinality(F)
  BY <1>6, <1>10, DisjointUnion
<1>12. Cardinality(T) + Cardinality(D) + Cardinality(I) + Cardinality(W) + Cardinality(E) + Cardinality(F) = n
  BY <1>1, <1>2, <1>4, <1>5, <1>7, <1>8, <1>9, <1>10, <1>11, ZenonT(30)
<1> QED BY <1>2, <1>5, <1>12

Total(counts) == counts["TRACE"] + counts["DEBUG"] + counts["INFO"]
                 + counts["WARN"] + counts["ERROR"] + counts["FATAL"]

CountsInv ==
  /\ severityCounts \in [Levels -> Nat] /\ engineCounts \in [Levels -> Nat] /\ shown \in [Levels -> Nat]
  /\ indexed \in Nat /\ denied \in Nat
  /\ source # "otlp" =>
       /\ \A s \in Levels : engineCounts[s] + severityCounts[s] = shown[s]
       /\ indexed + denied = Total(shown)

LEMMA DocumentCounted ==
  ASSUME CountsInv, ProcessDocument, UNCHANGED <<engineCounts, source>> PROVE CountsInv'
<1>1. PICK made \in EntriesOf : ProcessSingleLogEntries(made)
  BY DEF ProcessDocument
<1>2. PICK n \in Nat : made \in [1..n -> LogRecords]
  BY LineDecoderAssumption DEF EntriesOf
<1>3. DOMAIN made = 1..n /\ Len(made) = n
  BY <1>2
<1>4. PICK c \in [Levels -> Nat] : c = [s \in Levels |-> CountOf(made, s)]
  BY <1>3, CountsAddUp
<1>5. Total(c) = n
  <2>1. /\ c["TRACE"] = CountOf(made, "TRACE") /\ c["DEBUG"] = CountOf(made, "DEBUG")
        /\ c["INFO"] = CountOf(made, "INFO") /\ c["WARN"] = CountOf(made, "WARN")
        /\ c["ERROR"] = CountOf(made, "ERROR") /\ c["FATAL"] = CountOf(made, "FATAL")
    BY <1>4 DEF Levels
  <2> QED BY <1>3, <2>1, CountsAddUp DEF Total
<1>6. /\ severityCounts' = [s \in Levels |-> severityCounts[s] + c[s]]
      /\ shown' = [s \in Levels |-> shown[s] + c[s]]
  BY <1>1, <1>4 DEF ProcessSingleLogEntries, Plus
<1>7. PICK refused \in 0..n : indexed' = indexed + n - refused /\ denied' = denied + refused
  BY <1>1, <1>3 DEF ProcessSingleLogEntries
<1>8. severityCounts \in [Levels -> Nat] /\ shown \in [Levels -> Nat] /\ engineCounts \in [Levels -> Nat]
  BY DEF CountsInv
<1>9. severityCounts' \in [Levels -> Nat] /\ shown' \in [Levels -> Nat]
  BY <1>6, <1>8
<1>10. indexed' \in Nat /\ denied' \in Nat /\ indexed' + denied' = indexed + denied + n
  BY <1>7 DEF CountsInv
<1>11. Total(shown') = Total(shown) + n
  <2>1. Total(shown') = Total(shown) + Total(c)
    BY <1>4, <1>6, <1>8 DEF Total, Levels
  <2> QED BY <1>5, <2>1
<1>12. ASSUME source # "otlp", NEW s \in Levels PROVE engineCounts[s] + severityCounts'[s] = shown'[s]
  <2>1. /\ engineCounts[s] \in Nat /\ severityCounts[s] \in Nat /\ shown[s] \in Nat /\ c[s] \in Nat
        /\ engineCounts[s] + severityCounts[s] = shown[s]
    BY <1>4, <1>8, <1>12 DEF CountsInv
  <2> QED BY <1>6, <2>1
<1>13. source # "otlp" => indexed' + denied' = Total(shown')
  BY <1>10, <1>11 DEF CountsInv
<1> QED BY <1>8, <1>9, <1>10, <1>12, <1>13 DEF CountsInv

LEMMA CountsRest ==
  ASSUME CountsInv, UNCHANGED <<severityCounts, engineCounts, shown, indexed, denied, source>> PROVE CountsInv'
BY DEF CountsInv

LEMMA CountsInductive == CountsInv /\ [AppNext]_appVars => CountsInv'
<1> SUFFICES ASSUME CountsInv, [AppNext]_appVars PROVE CountsInv'
  OBVIOUS
<1>1. CASE \/ ScanLine \/ SendLine \/ ReaderEnds \/ EntryMirrored \/ ReceiveLine \/ EndOfInput
           \/ FinishedMsg \/ UpdateIntervalMsg \/ QuitKeyMsg \/ UNCHANGED appVars
  BY <1>1, CountsRest DEF ScanLine, SendLine, ReaderEnds, EntryMirrored, ReceiveLine, EndOfInput,
     FinishedMsg, UpdateIntervalMsg, QuitKeyMsg, ReaderVars, LoopLeft, CommandLeft, appVars, timerVars,
     inputLoopVars, decoderVars
<1>2. CASE LogLineMsg
  <2>1. UNCHANGED <<engineCounts, source>>
    BY <1>2 DEF LogLineMsg, inputLoopVars, timerVars
  <2>2. CASE source = "otlp"
    <3>1. /\ shown' = [shown EXCEPT !["INFO"] = @ + 1]
          /\ UNCHANGED <<severityCounts, indexed, denied>>
      BY <1>2, <2>2 DEF LogLineMsg, Mirror
    <3> QED BY <2>1, <2>2, <3>1 DEF CountsInv, Levels
  <2>3. CASE source # "otlp"
    <3>1. ProcessLogLine(lineMsg[1])
      BY <1>2, <2>3 DEF LogLineMsg
    <3>2. ProcessDocument \/ NothingMade
      BY <3>1 DEF ProcessLogLine, Accumulate
    <3>3. CASE NothingMade
      BY <2>1, <3>3, CountsRest DEF NothingMade
    <3> QED BY <2>1, <3>2, <3>3, DocumentCounted
  <2> QED BY <2>2, <2>3
<1>3. ASSUME NEW seq \in 0..MaxTimers, TickMsg(seq) PROVE CountsInv'
  <2>1. UNCHANGED <<source, shown, indexed, denied>>
    BY <1>3 DEF TickMsg, inputLoopVars, decoderVars
  <2>2. CASE UNCHANGED <<engineCounts, severityCounts>>
    BY <2>1, <2>2, CountsRest
  <2>3. CASE /\ engineCounts' = [s \in Levels |-> engineCounts[s] + severityCounts[s]]
             /\ severityCounts' = NoCounts
    <3>1. engineCounts' \in [Levels -> Nat] /\ severityCounts' \in [Levels -> Nat]
      BY <2>3 DEF CountsInv, NoCounts
    <3>2. \A s \in Levels : engineCounts'[s] + severityCounts'[s] = engineCounts[s] + severityCounts[s]
      BY <2>3 DEF CountsInv, NoCounts
    <3> QED BY <2>1, <3>1, <3>2 DEF CountsInv
  <2> QED BY <1>3, <2>2, <2>3 DEF TickMsg, decoderVars
<1> QED BY <1>1, <1>2, <1>3 DEF AppNext

(* Across ticks, changes of the timer and the end of the input, the engine  *)
(* is told of every entry that was shown, at its level, and every line of   *)
(* an input that was read to its end was decoded (processSingleLogEntry,    *)
(* TickMsg and checkInputChannel).                                          *)
THEOREM EveryEntryReachesEngine == AppSpec => []EngineCountsEachEntry
<1>1. AppInit => CountsInv
  BY DEF AppInit, DecoderInit, NoCounts, CountsInv, Total, Levels
<1>2. CountsInv /\ LoopInv => EngineCountsEachEntry
  <2> SUFFICES ASSUME CountsInv, LoopInv, source # "otlp"
               PROVE  /\ \A s \in Levels : engineCounts[s] + severityCounts[s] = shown[s]
                      /\ indexed + denied = Total(shown)
                      /\ finished /\ ~ctxDone => taken.all = read
    BY DEF EngineCountsEachEntry, Total
  <2>1. ASSUME finished, ~ctxDone PROVE taken.all = read
    <3>1. HandOver /\ taken.all \in Nat
      BY DEF LoopInv, LinesInv, LinesTyped, TakenKinds
    <3>2. reader = "done" /\ check = "none" /\ inputChan = <<>>
      BY <2>1, <3>1 DEF HandOver
    <3>3. Len(inHand) = 0 /\ Len(lineMsg) = 0 /\ Len(inputChan) = 0
      BY <3>1, <3>2, EmptyLine DEF HandOver
    <3> QED BY <2>1, <3>1, <3>3 DEF HandOver
  <2> QED BY <2>1 DEF CountsInv
<1> QED BY <1>1, <1>2, CountsInductive, LoopInvariance, PTL DEF AppSpec

-----------------------------------------------------------------------------
(* The windows. *)

AnalysisInv ==
  /\ requests \in [Requests -> Nat] /\ analyzing \in BOOLEAN
  /\ UnderWay(requests) = (IF analyzing THEN 1 ELSE 0)

QuestionsInv ==
  /\ questions \in [Requests -> Nat] /\ asking \in BOOLEAN
  /\ asking => UnderWay(questions) > 0

(* The keys that start no analysis, and those that ask no question.  Only   *)
(* opening the window of an entry takes a flag down.                        *)
LEMMA KeysLeaveAnalyses ==
  ASSUME NEW k \in Keys, Dispatch(k), ~DetailKey(k)
  PROVE  UNCHANGED <<requests, analyzing>>
BY DEF Dispatch, InputKey, HelpKey, ChatKey, EscapeKey, QuitKey, ShortcutKey, CloseKey,
   ChooseModelKey, ReadingKey, ViewerKey, DashboardKey, aiVars

LEMMA KeysLeaveQuestions ==
  ASSUME NEW k \in Keys, Dispatch(k), ~AskQuestion, asking \in BOOLEAN
  PROVE  UNCHANGED questions /\ asking' \in {asking, FALSE}
<1>1. CASE DashboardKey(k)
  BY <1>1 DEF DashboardKey
<1>2. CASE ChatKey(k) \/ DetailKey(k) \/ ViewerKey(k)
  BY <1>2 DEF ChatKey, DetailKey, ViewerKey, questionVars
<1>3. CASE ~DashboardKey(k) /\ ~ChatKey(k) /\ ~DetailKey(k) /\ ~ViewerKey(k)
  BY <1>3 DEF Dispatch, InputKey, HelpKey, EscapeKey, QuitKey, ShortcutKey, CloseKey,
     ChooseModelKey, ReadingKey, aiVars, questionVars
<1> QED BY <1>1, <1>2, <1>3

(* What the steps of the flags' owners do to a pair of counts.              *)
LEMMA OneMoreOrLess ==
  ASSUME NEW asked \in [Requests -> Nat]
  PROVE  /\ UnderWay(asked) \in Nat
         /\ LET more == [asked EXCEPT !["started"] = @ + 1]
            IN  more \in [Requests -> Nat] /\ UnderWay(more) = UnderWay(asked) + 1
         /\ asked["started"] > 0 =>
              Sent(asked) \in [Requests -> Nat] /\ UnderWay(Sent(asked)) = UnderWay(asked)
         /\ asked["sent"] > 0 =>
              /\ Answered(asked) \in [Requests -> Nat]
              /\ UnderWay(Answered(asked)) = UnderWay(asked) - 1
BY DEF UnderWay, Sent, Answered, Requests

LEMMA AnalysisInductive == AnalysisInv /\ [ModalsNext]_modalVars => AnalysisInv'
<1> SUFFICES ASSUME AnalysisInv, [ModalsNext]_modalVars PROVE AnalysisInv'
  OBVIOUS
<1> USE DEF AnalysisInv
<1>1. ASSUME UNCHANGED <<requests, analyzing>> PROVE AnalysisInv'
  BY <1>1 DEF UnderWay
<1>2. ASSUME NEW k \in Keys, Key(k) PROVE AnalysisInv'
  <2>1. CASE DetailKey(k)
    <3>1. UNCHANGED <<requests, analyzing>> \/ Analyze
      BY <2>1 DEF DetailKey
    <3>2. CASE Analyze
      <4>1. ~analyzing /\ analyzing' /\ requests' = [requests EXCEPT !["started"] = @ + 1]
        BY <3>2 DEF Analyze, StartRequest
      <4>2. analyzing' \in BOOLEAN
        BY <3>2 DEF Analyze, StartRequest
      <4> QED BY <4>1, <4>2, OneMoreOrLess DEF UnderWay
    <3> QED BY <1>1, <3>1, <3>2
  <2> QED BY <1>1, <1>2, <2>1, KeysLeaveAnalyses DEF Key
<1>3. CASE RequestRuns
  <2>1. /\ UNCHANGED analyzing
        /\ UNCHANGED requests \/ (requests["started"] > 0 /\ requests' = Sent(requests))
    BY <1>3 DEF RequestRuns
  <2> QED BY <1>1, <2>1, OneMoreOrLess DEF UnderWay
<1>4. CASE AnswerArrives
  <2>1. CASE ChatAnswers
    BY <1>1, <2>1 DEF ChatAnswers
  <2>2. CASE AnalysisAnswers
    <3>1. requests["sent"] > 0 /\ requests' = Answered(requests) /\ analyzing' = FALSE
      BY <2>2 DEF AnalysisAnswers
    <3>2. UnderWay(Answered(requests)) = UnderWay(requests) - 1 /\ UnderWay(Answered(requests)) \in Nat
      BY <3>1, OneMoreOrLess
    <3>3. UnderWay(requests) = 1
      BY <3>2
    <3>4. UnderWay(requests)' = 0
      BY <3>1, <3>2, <3>3 DEF UnderWay
    <3>5. requests' \in [Requests -> Nat]
      BY <3>1, OneMoreOrLess
    <3> QED BY <3>1, <3>4, <3>5
  <2> QED BY <1>4, <2>1, <2>2 DEF AnswerArrives
<1>5. ASSUME \/ \E p \in {"info", "chat"} : ClickPane(p)
             \/ \E s \in ToSet(Sections) : ClickSection(s)
             \/ CheckNews \/ UNCHANGED modalVars
      PROVE  UNCHANGED <<requests, analyzing>>
  BY <1>5 DEF ClickPane, ClickSection, CheckNews, modalVars, aiVars
<1> QED BY <1>1, <1>2, <1>3, <1>4, <1>5 DEF ModalsNext

LEMMA QuestionsInductive == QuestionsInv /\ [ModalsNext]_modalVars => QuestionsInv'
<1> SUFFICES ASSUME QuestionsInv, [ModalsNext]_modalVars PROVE QuestionsInv'
  OBVIOUS
<1> USE DEF QuestionsInv
<1>1. ASSUME UNCHANGED questions, asking' \in {asking, FALSE} PROVE QuestionsInv'
  <2>1. UnderWay(questions)' = UnderWay(questions)
    BY <1>1 DEF UnderWay
  <2>2. asking \in BOOLEAN /\ (asking => UnderWay(questions) > 0)
    OBVIOUS
  <2>3. asking' = asking \/ asking' = FALSE
    BY <1>1, ZenonT(30)
  <2>4. CASE asking' = asking
    BY <1>1, <2>1, <2>2, <2>4
  <2>5. CASE asking' = FALSE
    BY <1>1, <2>1, <2>5
  <2> QED BY <2>3, <2>4, <2>5
<1>2. ASSUME NEW k \in Keys, Key(k) PROVE QuestionsInv'
  <2>1. CASE AskQuestion
    <3>1. asking' = TRUE /\ questions' = [questions EXCEPT !["started"] = @ + 1]
      BY <2>1 DEF AskQuestion
    <3>2. UnderWay(questions)' = UnderWay(questions) + 1 /\ UnderWay(questions) \in Nat
      BY <3>1, OneMoreOrLess DEF UnderWay
    <3>3. questions' \in [Requests -> Nat]
      BY <3>1, OneMoreOrLess
    <3>4. UnderWay(questions)' > 0 /\ asking' \in BOOLEAN
      BY <3>1, <3>2
    <3> QED BY <3>3, <3>4
  <2> QED BY <1>1, <1>2, <2>1, KeysLeaveQuestions DEF Key
<1>3. CASE RequestRuns
  <2>1. /\ UNCHANGED asking
        /\ UNCHANGED questions \/ (questions["started"] > 0 /\ questions' = Sent(questions))
    BY <1>3 DEF RequestRuns
  <2>2. CASE questions["started"] > 0 /\ questions' = Sent(questions)
    <3>1. UnderWay(questions)' = UnderWay(questions)
      BY <2>2, OneMoreOrLess DEF UnderWay
    <3>2. questions' \in [Requests -> Nat]
      BY <2>2, OneMoreOrLess
    <3> QED BY <2>1, <3>1, <3>2
  <2> QED BY <1>1, <2>1, <2>2
<1>4. CASE AnswerArrives
  <2>1. CASE AnalysisAnswers
    BY <1>1, <2>1 DEF AnalysisAnswers, questionVars
  <2>2. CASE ChatAnswers
    <3>1. questions["sent"] > 0 /\ questions' = Answered(questions) /\ asking' = FALSE
      BY <2>2 DEF ChatAnswers
    <3> QED BY <3>1, OneMoreOrLess
  <2> QED BY <1>4, <2>1, <2>2 DEF AnswerArrives
<1>5. ASSUME \/ \E p \in {"info", "chat"} : ClickPane(p)
             \/ \E s \in ToSet(Sections) : ClickSection(s)
             \/ CheckNews \/ UNCHANGED modalVars
      PROVE  UNCHANGED <<questions, asking>>
  BY <1>5 DEF ClickPane, ClickSection, CheckNews, modalVars, aiVars, questionVars
<1> QED BY <1>1, <1>2, <1>3, <1>4, <1>5 DEF ModalsNext

(* The dashboard asks for one analysis at a time, and its flag is up        *)
(* exactly while that one is under way, whatever is asked and answered in   *)
(* the chat; the chat's flag is up only while a question is under way.      *)
THEOREM NeverAsksTwice == ModalsSpec => []OneAnalysisAtATime
<1>1. ModalsInit => AnalysisInv /\ QuestionsInv
  <2> SUFFICES ASSUME ModalsInit PROVE AnalysisInv /\ QuestionsInv
    OBVIOUS
  <2>1. /\ requests \in [Requests -> Nat] /\ questions \in [Requests -> Nat]
        /\ UnderWay(requests) = 0
    BY DEF ModalsInit, Requests, UnderWay
  <2>2. analyzing = FALSE /\ asking = FALSE
    BY DEF ModalsInit
  <2> QED BY <2>1, <2>2 DEF AnalysisInv, QuestionsInv
<1>2. AnalysisInv /\ QuestionsInv => OneAnalysisAtATime
  BY DEF AnalysisInv, QuestionsInv, OneAnalysisAtATime
<1> QED BY <1>1, <1>2, AnalysisInductive, QuestionsInductive, PTL DEF ModalsSpec

LEMMA TextKeys ==
  ASSUME Focus \in {"filter", "search", "chat"},
         NEW k \in Keys \ {"esc", "enter", "tab", "ctrl+c"}, Key(k)
  PROVE  UNCHANGED <<open, typing, section, chatVars, aiVars, quit>>
<1>1. InputKey(k) \/ ChatKey(k)
  BY DEF Key, Dispatch, HelpKey, EscapeKey, QuitKey, ShortcutKey, Taken, CloseKey, ChooseModelKey,
     ReadingKey, ViewerKey, DetailKey, DashboardKey, WindowKey
<1>2. CASE InputKey(k)
  BY <1>2 DEF InputKey
<1>3. CASE ChatKey(k)
  BY <1>3 DEF ChatKey, inputVars, aiVars
<1> QED BY <1>1, <1>2, <1>3

(* The inputs come before every shortcut, so a key that is text moves       *)
(* nothing but the text (handleKeyPress).                                   *)
THEOREM TypedTextMovesNothing == ModalsSpec => TextIsOnlyText
<1> DEFINE A == (Focus \in {"filter", "search", "chat"}) =>
                  \/ UNCHANGED <<open, typing, section, chatVars, aiVars, quit>>
                  \/ \A k \in Keys \ {"esc", "enter", "tab", "ctrl+c"} : ~Key(k)
<1>1. [ModalsNext]_modalVars => [A]_modalVars
  BY TextKeys
<1>2. ModalsSpec => [][A]_modalVars
  BY <1>1, PTL DEF ModalsSpec
<1> QED BY <1>2 DEF TextIsOnlyText

(* The chat has the keys in the window of a log entry only.                 *)
WindowsInv ==
  /\ open \subseteq Windows /\ typing \in {"none", "filter", "search"}
  /\ chatActive => IsOpen("detail")

(* Whoever has the keys.                                                    *)
LEMMA FocusOf ==
  ASSUME WindowsInv
  PROVE  /\ Focus = typing <=> typing # "none"
         /\ Focus = "help" => typing = "none" /\ IsOpen("help")
         /\ Focus = "chat" => typing = "none" /\ chatActive
         /\ Focus = "shortcuts" => typing = "none" /\ ~IsOpen("help") /\ ~(IsOpen("detail") /\ chatActive)
<1>1. CASE typing # "none"
  BY <1>1 DEF Focus, WindowsInv
<1>2. CASE typing = "none" /\ IsOpen("help")
  BY <1>2 DEF Focus
<1>3. CASE typing = "none" /\ ~IsOpen("help") /\ IsOpen("detail") /\ chatActive
  BY <1>3 DEF Focus
<1>4. CASE typing = "none" /\ ~IsOpen("help") /\ ~(IsOpen("detail") /\ chatActive)
  <2>1. Focus = "shortcuts"
    BY <1>4 DEF Focus
  <2> QED BY <1>4, <2>1
<1> QED BY <1>1, <1>2, <1>3, <1>4

LEMMA KeyWindowIsOpen == KeyWindow = "dashboard" \/ IsOpen(KeyWindow)
<1>1. PICK T : T = {w \in open : TakesKeys(w)}
  OBVIOUS
<1>2. Len(KeyOrder) \in Nat
  BY DEF KeyOrder
<1>3. Picked(KeyOrder, T) # <<>> => Head(Picked(KeyOrder, T)) \in T
  BY <1>2, HeadPicked
<1>4. KeyWindow = IF Picked(KeyOrder, T) = <<>> THEN "dashboard" ELSE Head(Picked(KeyOrder, T))
  BY <1>1 DEF KeyWindow
<1> QED BY <1>1, <1>3, <1>4 DEF IsOpen

LEMMA ClosableIsOpen == Closable # <<>> => IsOpen(Head(Closable))
<1>1. Len(EscapeOrder) \in Nat
  BY DEF EscapeOrder
<1> QED BY <1>1, HeadPicked DEF Closable, IsOpen

LEMMA WindowsFinite == ASSUME NEW T \in SUBSET Windows PROVE IsFiniteSet(T)
<1>1. PICK f : f = <<"help", "whatsnew", "patterns", "stats", "counts", "k8s",
                     "severity", "columns", "viewer", "model", "detail">>
  OBVIOUS
<1>2. f \in [1..11 -> Windows] /\ \A w \in Windows : \E i \in 1..11 : f[i] = w
  BY <1>1 DEF Windows
<1>3. IsFiniteSet(1..11)
  <2>1. 1 \in Int /\ 11 \in Int
    OBVIOUS
  <2> QED BY <2>1, FS_Interval
<1>4. IsFiniteSet(Windows)
  BY <1>2, <1>3, FS_Surjection DEF Surjection
<1> QED BY <1>4, FS_Subset

LEMMA TypingTyped ==
  ASSUME typing \in {"none", "filter", "search"}, [ModalsNext]_modalVars
  PROVE  typing' \in {"none", "filter", "search"}
<1>1. ASSUME NEW k \in Keys, Dispatch(k) PROVE typing' \in {"none", "filter", "search"}
  <2>1. CASE InputKey(k)
    BY <2>1 DEF InputKey
  <2>2. CASE EscapeKey(k) \/ ShortcutKey(k)
    BY <2>2 DEF EscapeKey, ShortcutKey, inputVars
  <2>3. CASE ViewerKey(k)
    BY <2>3 DEF ViewerKey, inputVars
  <2>4. CASE HelpKey(k) \/ ChatKey(k) \/ QuitKey(k) \/ CloseKey(k) \/ ChooseModelKey(k)
              \/ ReadingKey(k) \/ DetailKey(k) \/ DashboardKey(k)
    BY <2>4 DEF HelpKey, ChatKey, QuitKey, CloseKey, ChooseModelKey, ReadingKey, DetailKey,
       DashboardKey, inputVars
  <2> QED BY <1>1, <2>1, <2>2, <2>3, <2>4 DEF Dispatch
<1>2. ASSUME \/ \E p \in {"info", "chat"} : ClickPane(p)
             \/ \E s \in ToSet(Sections) : ClickSection(s)
             \/ RequestRuns \/ AnswerArrives \/ CheckNews \/ UNCHANGED modalVars
      PROVE  UNCHANGED typing
  BY <1>2 DEF ClickPane, ClickSection, RequestRuns, AnswerArrives, CheckNews, modalVars, inputVars
<1> QED BY <1>1, <1>2 DEF ModalsNext, Key

LEMMA WindowsInductive == WindowsInv /\ [ModalsNext]_modalVars => WindowsInv'
<1> SUFFICES ASSUME WindowsInv, [ModalsNext]_modalVars PROVE WindowsInv'
  OBVIOUS
<1> USE DEF WindowsInv, IsOpen, Windows
<1>0. typing' \in {"none", "filter", "search"}
  BY TypingTyped
<1>1. ASSUME UNCHANGED <<open, chatActive>> PROVE WindowsInv'
  BY <1>0, <1>1
<1>2. ASSUME UNCHANGED chatActive, open' \subseteq Windows, "detail" \in open => "detail" \in open'
      PROVE  WindowsInv'
  BY <1>0, <1>2
<1>3. ASSUME NEW k \in Keys, Dispatch(k) PROVE WindowsInv'
  <2>1. CASE InputKey(k) \/ QuitKey(k)
    BY <1>1, <2>1 DEF InputKey, QuitKey, chatVars
  <2>2. CASE HelpKey(k) \/ CloseKey(k) \/ ChooseModelKey(k) \/ ReadingKey(k)
    BY <1>2, <2>2 DEF HelpKey, CloseKey, ChooseModelKey, ReadingKey, chatVars
  <2>3. CASE ChatKey(k)
    BY <1>0, <2>3 DEF ChatKey, chatVars
  <2>4. CASE EscapeKey(k)
    <3>1. UNCHANGED chatActive
      BY <2>4 DEF EscapeKey, chatVars
    <3>2. CASE UNCHANGED open
      BY <1>1, <3>1, <3>2
    <3>3. CASE Closable # <<>> /\ open' = open \ {Head(Closable)}
      <4>1. IsOpen("detail") => "detail" \in open' \/ ~chatActive
        BY <2>4, <3>3, FocusOf DEF EscapeKey
      <4> QED BY <1>0, <3>1, <3>3, <4>1
    <3> QED BY <2>4, <3>2, <3>3 DEF EscapeKey
  <2>5. CASE ShortcutKey(k)
    <3>1. UNCHANGED chatActive
      BY <2>5 DEF ShortcutKey, chatVars
    <3>2. open' \subseteq Windows /\ ("detail" \in open => "detail" \in open')
      BY <2>5 DEF ShortcutKey, Toggle
    <3> QED BY <1>2, <3>1, <3>2
  <2>6. CASE ViewerKey(k)
    BY <1>2, <2>6 DEF ViewerKey
  <2>7. CASE DetailKey(k)
    <3>1. IsOpen("detail")
      BY <2>7, KeyWindowIsOpen DEF DetailKey, WindowKey
    <3>2. open' \subseteq Windows /\ "detail" \in open'
      BY <2>7, <3>1 DEF DetailKey, Analyze, StartRequest
    <3> QED BY <1>0, <3>2
  <2>8. CASE DashboardKey(k)
    BY <1>2, <2>8 DEF DashboardKey, ShowDetails, ShowWindow
  <2> QED BY <1>3, <2>1, <2>2, <2>3, <2>4, <2>5, <2>6, <2>7, <2>8 DEF Dispatch
<1>4. ASSUME NEW p \in {"info", "chat"}, ClickPane(p) PROVE WindowsInv'
  BY <1>0, <1>4 DEF ClickPane
<1>5. CASE CheckNews
  BY <1>2, <1>5 DEF CheckNews, chatVars
<1>6. ASSUME \/ \E s \in ToSet(Sections) : ClickSection(s)
             \/ RequestRuns \/ AnswerArrives \/ UNCHANGED modalVars
      PROVE  UNCHANGED <<open, chatActive>>
  BY <1>6 DEF ClickSection, RequestRuns, AnswerArrives, modalVars, chatVars
<1> QED BY <1>1, <1>3, <1>4, <1>5, <1>6 DEF ModalsNext, Key

(* The windows of Escape's list are all but the help, which comes first.    *)
LEMMA WhatEscapeCloses == ASSUME WindowsInv, Closable = <<>> PROVE open \subseteq {"help"}
<1> SUFFICES ASSUME NEW w \in open, w # "help" PROVE FALSE
  OBVIOUS
<1>1. Len(EscapeOrder) \in Nat /\ \E i \in 1..Len(EscapeOrder) : EscapeOrder[i] = w
  BY DEF WindowsInv, Windows, EscapeOrder
<1>2. PICK i \in 1..Len(EscapeOrder) : EscapeOrder[i] = w
  BY <1>1
<1> QED BY <1>1, <1>2, SomePicked DEF Closable

(* No window, input or filter keeps Escape from whoever can take something  *)
(* back, though four handlers have lists of their own (handleKeyPress).     *)
THEOREM EscapeIsTaken == ModalsSpec => []EscIsTaken
<1>1. ModalsInit => WindowsInv
  BY DEF ModalsInit, WindowsInv
<1>2. WindowsInv => EscIsTaken
  <2> SUFFICES ASSUME WindowsInv, Focus = "shortcuts", Closable = <<>>, ~filterSet, ~searchSet,
                      Layers > 0
               PROVE  FALSE
    BY DEF EscIsTaken
  <2>1. typing = "none" /\ ~IsOpen("help") /\ ~(IsOpen("detail") /\ chatActive)
    BY FocusOf
  <2>2. open = {} /\ ~chatActive
    BY <2>1, WhatEscapeCloses DEF WindowsInv, IsOpen
  <2>3. Layers = 0
    BY <2>1, <2>2, FS_EmptySet DEF Layers
  <2> QED BY <2>3
<1> QED BY <1>1, <1>2, WindowsInductive, PTL DEF ModalsSpec

LEMMA LessOpen ==
  ASSUME NEW w, WindowsInv, IsOpen(w), open' = open \ {w},
         UNCHANGED <<typing, chatActive, filterSet, searchSet>>
  PROVE  Layers' < Layers
<1>1. IsFiniteSet(open)
  BY WindowsFinite DEF WindowsInv
<1>2. /\ Cardinality(open) \in Nat
      /\ Cardinality(open') = Cardinality(open) - 1
  BY <1>1, FS_RemoveElement, FS_CardinalityType DEF IsOpen
<1> QED BY <1>2 DEF Layers

LEMMA LessElse ==
  ASSUME WindowsInv, UNCHANGED open,
         typing' = "none", ~chatActive' \/ UNCHANGED chatActive,
         ~filterSet' \/ UNCHANGED filterSet, ~searchSet' \/ UNCHANGED searchSet,
         \/ typing # "none"
         \/ chatActive /\ ~chatActive'
         \/ filterSet /\ ~filterSet'
         \/ searchSet /\ ~searchSet'
  PROVE  Layers' < Layers
<1>1. IsFiniteSet(open)
  BY WindowsFinite DEF WindowsInv
<1>2. Cardinality(open) \in Nat /\ Cardinality(open') = Cardinality(open)
  BY <1>1, FS_CardinalityType
<1> QED BY <1>2 DEF Layers

LEMMA EscapeLessens == ASSUME WindowsInv, Key("esc") PROVE Layers' < Layers
<1>1. InputKey("esc") \/ HelpKey("esc") \/ ChatKey("esc") \/ EscapeKey("esc")
  BY DEF Key, Dispatch, QuitKey, ShortcutKey, Taken, CloseKey, ChooseModelKey, ReadingKey,
     ViewerKey, DetailKey, DashboardKey
<1>2. CASE InputKey("esc")
  <2>1. typing # "none"
    BY <1>2, FocusOf DEF InputKey
  <2> QED BY <1>2, <2>1, LessElse DEF InputKey, ClearInput, chatVars
<1>3. CASE HelpKey("esc")
  <2>1. IsOpen("help")
    BY <1>3, FocusOf DEF HelpKey
  <2> QED BY <1>3, <2>1, LessOpen DEF HelpKey, inputVars, chatVars
<1>4. CASE ChatKey("esc")
  <2>1. chatActive /\ typing = "none"
    BY <1>4, FocusOf DEF ChatKey
  <2> QED BY <1>4, <2>1, LessElse DEF ChatKey, inputVars
<1>5. CASE EscapeKey("esc")
  <2>1. typing = "none"
    BY <1>5, FocusOf DEF EscapeKey
  <2>2. CASE Closable # <<>> /\ open' = open \ {Head(Closable)} /\ UNCHANGED inputVars
    BY <1>5, <2>2, ClosableIsOpen, LessOpen DEF EscapeKey, inputVars, chatVars
  <2>3. CASE (filterSet \/ searchSet) /\ filterSet' = FALSE /\ searchSet' = FALSE
             /\ UNCHANGED <<open, typing>>
    BY <1>5, <2>1, <2>3, LessElse DEF EscapeKey, chatVars
  <2> QED BY <1>5, <2>2, <2>3 DEF EscapeKey
<1> QED BY <1>1, <1>2, <1>3, <1>4, <1>5

(* Whoever takes Escape closes, leaves or clears something and opens        *)
(* nothing, so pressing it often enough leads back to the bare dashboard    *)
(* (handleKeyPress: the inputs, the help window, the chat, the windows).    *)
THEOREM EscapeTakesBack == ModalsSpec => EscTakesBack
<1> DEFINE A == Key("esc") => Layers' < Layers
<1>1. ModalsInit => WindowsInv
  BY DEF ModalsInit, WindowsInv
<1>2. WindowsInv /\ [ModalsNext]_modalVars => [A]_modalVars
  BY EscapeLessens
<1>3. ModalsSpec => [][A]_modalVars
  BY <1>1, <1>2, WindowsInductive, PTL DEF ModalsSpec
<1> QED BY <1>3 DEF EscTakesBack

-----------------------------------------------------------------------------
(* The log list. *)

(* The steps that end with updateFilteredView, or leave the list alone.     *)
LEMMA ViewSteps ==
  ASSUME [LogViewNext]_logVars
  PROVE  \/ UpdateFilteredView
         \/ /\ UNCHANGED view
            /\ \/ paused'
               \/ window' # "none"
               \/ podsStale'
               \/ UNCHANGED <<buffer, regex, severities, kubeVars, podFilter, window, podsStale,
                               paused>>
<1> USE DEF LeaveView
<1>1. CASE AddLogEntry \/ SpaceKey \/ ResetKey \/ ResetDrain3
  BY <1>1 DEF AddLogEntry, SpaceKey, ResetKey, ResetDrain3, filterVars
<1>2. ASSUME NEW w \in {"severity", "k8s"}, OpenWindow(w)
      PROVE  UNCHANGED view /\ window' # "none"
  BY <1>2 DEF OpenWindow
<1>3. CASE FilterInput \/ ApplyFilter \/ CancelFilter
  BY <1>3 DEF FilterInput, ApplyFilter, CancelFilter
<1>4. CASE ToggleItem \/ ShowPods
  BY <1>4 DEF ToggleItem, ShowPods
<1>5. CASE MoveInList \/ MoveInViewer \/ ToggleViewer \/ UNCHANGED logVars
  BY <1>5 DEF MoveInList, MoveInViewer, ToggleViewer, logVars, filterVars
<1> QED BY <1>1, <1>2, <1>3, <1>4, <1>5 DEF LogViewNext

(* The list on the screen stays the buffer through the filters, whatever    *)
(* arrives, whichever window is confirmed or cancelled, and after a pause:  *)
(* updateFilteredView is called where it has to be.                         *)
THEOREM ListStaysFiltered == LogViewSpec => []ViewIsFiltered
<1>1. LogViewInit => ViewIsFiltered
  BY PickedNothing DEF LogViewInit, ViewIsFiltered, Filtered
<1>2. ViewIsFiltered /\ [LogViewNext]_logVars => ViewIsFiltered'
  BY ViewSteps DEF ViewIsFiltered, UpdateFilteredView, kubeVars
<1> QED BY <1>1, <1>2, PTL DEF LogViewSpec

(* The entries are numbered as they arrive, and the buffer is the end of    *)
(* what has arrived.                                                        *)
BufferInv ==
  /\ arrived \in 0..MaxArrivals
  /\ buffer \in Seq(Entries) /\ Len(buffer) <= MaxLogBuffer /\ Len(buffer) <= arrived
  /\ \A i \in 1..Len(buffer) : buffer[i] = arrived - Len(buffer) + i

(* Below the mark everything was mined once that arrived after the last     *)
(* reset, above it nothing was.                                             *)
MarkInv ==
  /\ \A e \in Entries : mined[e] <= 1
  /\ \A e \in Entries : e > arrived => mined[e] = 0
  /\ \A i \in 1..Len(buffer) :
       /\ i > processed => mined[buffer[i]] = 0
       /\ i <= processed /\ buffer[i] > resets.at => mined[buffer[i]] = 1
       /\ ~paused /\ buffer[i] > resets.at => i <= processed

MinerInv ==
  /\ BufferInv
  /\ mined \in [Entries -> Nat] /\ processed \in 0..Len(buffer) /\ paused \in BOOLEAN
  /\ resets \in [pending : Nat, at : Nat]
  /\ resets.pending = 0 => MarkInv

LEMMA MinerInitial == LogViewInit => MinerInv
<1> SUFFICES ASSUME LogViewInit PROVE MinerInv
  OBVIOUS
<1>1. BufferInv
  BY LogViewAssumption DEF LogViewInit, BufferInv
<1>2. mined = [e \in Entries |-> 0] /\ processed = 0 /\ paused = FALSE
  BY DEF LogViewInit
<1>3. resets \in [pending : Nat, at : Nat]
  BY DEF LogViewInit
<1>4. Len(buffer) = 0
  BY DEF LogViewInit
<1>5. MarkInv
  BY <1>2, <1>4 DEF MarkInv
<1>6. mined \in [Entries -> Nat] /\ processed \in 0..Len(buffer) /\ paused \in BOOLEAN
  <2>1. mined \in [Entries -> Nat]
    BY <1>2
  <2>2. processed \in 0..Len(buffer)
    BY <1>2, <1>4
  <2> QED BY <1>2, <2>1, <2>2
<1> QED BY <1>1, <1>3, <1>5, <1>6 DEF MinerInv

LEMMA MinerCounts == MinerInv => PatternsCountOnce
<1> SUFFICES ASSUME MinerInv, resets.pending = 0, ~paused,
                    NEW e \in ToSet(buffer), e > resets.at
             PROVE  mined[e] = 1
  BY DEF PatternsCountOnce, MinerInv, MarkInv
<1>1. PICK i \in 1..Len(buffer) : buffer[i] = e
  BY DEF ToSet, MinerInv, BufferInv
<1> QED BY <1>1 DEF MinerInv, MarkInv

(* An arrival shifts the buffer when it is full.                            *)
LEMMA BufferShifts ==
  ASSUME MinerInv, AddLogEntry
  PROVE  /\ BufferInv'
         /\ arrived' \in Entries /\ arrived' = arrived + 1
         /\ Len(buffer') > 0 /\ buffer'[Len(buffer')] = arrived'
         /\ \/ Len(buffer) = MaxLogBuffer /\ Len(buffer') = Len(buffer)
               /\ \A i \in 1..(Len(buffer') - 1) : buffer'[i] = buffer[i + 1]
            \/ Len(buffer) < MaxLogBuffer /\ Len(buffer') = Len(buffer) + 1
               /\ \A i \in 1..(Len(buffer') - 1) : buffer'[i] = buffer[i]
<1> DEFINE n == Len(buffer)
           longer == Append(buffer, arrived')
<1> USE LogViewAssumption
<1>1. /\ arrived \in Nat /\ arrived' = arrived + 1 /\ arrived' \in 1..MaxArrivals
      /\ arrived' \in 0..MaxArrivals /\ n \in Nat
      /\ n <= MaxLogBuffer /\ n <= arrived
      /\ buffer' = IF Len(longer) > MaxLogBuffer THEN Tail(longer) ELSE longer
  BY DEF MinerInv, BufferInv, AddLogEntry, Append1
<1>2. /\ longer \in Seq(Entries) /\ Len(longer) = n + 1
      /\ \A i \in 1..n : longer[i] = buffer[i]
      /\ longer[n + 1] = arrived'
  BY <1>1 DEF MinerInv, BufferInv, Entries
<1>3. \A i \in 1..(n + 1) : longer[i] = arrived' - (n + 1) + i
  <2>1. \A i \in 1..n : buffer[i] = arrived - n + i
    BY DEF MinerInv, BufferInv
  <2>2. \A i \in 1..n : arrived - n + i = arrived' - (n + 1) + i
    BY <1>1 DEF MinerInv, BufferInv
  <2>3. arrived - n + (n + 1) = arrived' /\ arrived' - (n + 1) + (n + 1) = arrived'
    BY <1>1
  <2> HIDE DEF n, longer
  <2>4. ASSUME NEW i \in 1..(n + 1) PROVE longer[i] = arrived' - (n + 1) + i
    <3>1. i \in 1..n \/ i = n + 1
      BY <1>1
    <3> QED BY <1>2, <2>1, <2>2, <2>3, <3>1
  <2> QED BY <2>4
<1> HIDE DEF longer
<1>4. CASE n = MaxLogBuffer
  <2>1. buffer' = Tail(longer)
    BY <1>1, <1>2, <1>4
  <2>2. /\ buffer' \in Seq(Entries) /\ Len(buffer') = n
        /\ \A i \in 1..n : buffer'[i] = longer[i + 1]
    BY <1>1, <1>2, <2>1
  <2> HIDE DEF n
  <2>3. ASSUME NEW i \in 1..n PROVE buffer'[i] = arrived' - n + i
    <3>1. i + 1 \in 1..(n + 1) /\ arrived' - (n + 1) + (i + 1) = arrived' - n + i
      BY <1>1
    <3> QED BY <1>3, <2>2, <3>1
  <2>4. ASSUME NEW i \in 1..(n - 1) PROVE buffer'[i] = buffer[i + 1]
    <3>1. i \in 1..n /\ i + 1 \in 1..n
      BY <1>1
    <3> QED BY <1>2, <2>2, <3>1
  <2>5. n \in 1..n /\ arrived' - n + n = arrived' /\ n > 0
    BY <1>1, <1>4
  <2>6. buffer'[n] = arrived'
    BY <2>3, <2>5
  <2>7. BufferInv'
    <3>1. n <= MaxLogBuffer /\ n <= arrived'
      BY <1>1
    <3> QED BY <1>1, <2>2, <2>3, <3>1 DEF BufferInv
  <2> QED BY <1>1, <1>4, <2>2, <2>4, <2>5, <2>6, <2>7 DEF n, Entries
<1>5. CASE n < MaxLogBuffer
  <2>1. buffer' = longer
    BY <1>1, <1>2, <1>5
  <2> HIDE DEF n
  <2>2. n + 1 <= MaxLogBuffer /\ n + 1 <= arrived' /\ n + 1 \in 1..(n + 1) /\ n + 1 > 0
    BY <1>1, <1>5
  <2>3. BufferInv'
    BY <1>1, <1>2, <1>3, <2>1, <2>2 DEF BufferInv
  <2>4. \A i \in 1..((n + 1) - 1) : buffer'[i] = buffer[i]
    BY <1>1, <1>2, <2>1
  <2> QED BY <1>1, <1>2, <1>5, <2>1, <2>2, <2>3, <2>4 DEF n, Entries
<1>6. n = MaxLogBuffer \/ n < MaxLogBuffer
  BY <1>1
<1> QED BY <1>4, <1>5, <1>6

LEMMA ArrivalKeepsMark == MinerInv /\ AddLogEntry => MinerInv'
<1> SUFFICES ASSUME MinerInv, AddLogEntry PROVE MinerInv'
  OBVIOUS
<1> DEFINE n == Len(buffer)
           m == Len(buffer')
<1>1. /\ BufferInv' /\ n \in Nat /\ m \in Nat /\ arrived \in Nat /\ processed \in 0..n
      /\ arrived' = arrived + 1 /\ arrived' \in Entries /\ m > 0 /\ buffer'[m] = arrived'
      /\ \A i \in 1..n : buffer[i] \in Entries
      /\ \A i \in 1..m : buffer'[i] \in Entries
  <2>1. /\ BufferInv' /\ arrived' = arrived + 1 /\ arrived' \in Entries
        /\ m > 0 /\ buffer'[m] = arrived'
    BY BufferShifts
  <2>2. buffer' \in Seq(Entries) /\ buffer \in Seq(Entries) /\ arrived \in Nat /\ processed \in 0..n
    BY <2>1 DEF MinerInv, BufferInv
  <2> QED BY <2>1, <2>2
<1>2. resets' = resets /\ paused' = paused /\ mined \in [Entries -> Nat]
  BY DEF AddLogEntry, MinerInv
<1>3. ASSUME paused PROVE /\ mined' = mined
                          /\ processed' = IF n = MaxLogBuffer /\ processed > 0
                                          THEN processed - 1 ELSE processed
                          /\ processed' \in 0..(m - 1)
  <2>1. /\ mined' = mined
        /\ processed' = IF n = MaxLogBuffer /\ processed > 0 THEN processed - 1 ELSE processed
    BY <1>3 DEF AddLogEntry, MarkAfter
  <2>2. \/ m = n /\ n = MaxLogBuffer
        \/ m = n + 1 /\ n < MaxLogBuffer
    BY BufferShifts
  <2> HIDE DEF n, m
  <2>3. processed' \in 0..(m - 1)
    BY <1>1, <2>1, <2>2, LogViewAssumption
  <2> QED BY <2>1, <2>3
<1>4. ASSUME ~paused PROVE mined' = Mine(mined, {arrived'}) /\ processed' = m
  BY <1>4 DEF AddLogEntry
<1>5. mined' \in [Entries -> Nat] /\ processed' \in 0..m
  BY <1>1, <1>2, <1>3, <1>4 DEF Mine
<1>6. ASSUME resets.pending = 0, paused PROVE MarkInv'
  <2>1. MarkInv
    BY <1>6 DEF MinerInv
  <2>2. /\ \A e \in Entries : mined'[e] <= 1
        /\ \A e \in Entries : e > arrived' => mined'[e] = 0
    BY <1>1, <1>2, <1>3, <1>6, <2>1 DEF MarkInv, Entries
  <2>3. ASSUME NEW i \in 1..m
        PROVE  /\ i > processed' => mined[buffer'[i]] = 0
               /\ i <= processed' /\ buffer'[i] > resets.at => mined[buffer'[i]] = 1
    <3>1. CASE i = m
      <4>1. mined[arrived'] = 0
        BY <1>1, <2>1 DEF MarkInv
      <4> HIDE DEF m
      <4>2. i > processed'
        BY <1>1, <1>3, <1>6, <3>1
      <4> QED BY <1>1, <1>3, <1>6, <3>1, <4>1, <4>2
    <3>2. CASE i # m /\ n = MaxLogBuffer
      <4>1. m = n /\ \A j \in 1..(m - 1) : buffer'[j] = buffer[j + 1]
        BY <3>2, BufferShifts
      <4> HIDE DEF m, n
      <4>2. i \in 1..(m - 1) /\ i + 1 \in 1..n
        BY <1>1, <3>2, <4>1
      <4>3. /\ i > processed' => i + 1 > processed
            /\ i <= processed' => i + 1 <= processed
        BY <1>1, <1>3, <1>6, <3>2
      <4>4. buffer'[i] = buffer[i + 1]
        BY <4>1, <4>2
      <4>5. /\ i + 1 > processed => mined[buffer[i + 1]] = 0
            /\ i + 1 <= processed /\ buffer[i + 1] > resets.at => mined[buffer[i + 1]] = 1
        BY <2>1, <4>2 DEF MarkInv, n
      <4> QED BY <4>3, <4>4, <4>5
    <3>3. CASE i # m /\ n # MaxLogBuffer
      <4>1. m = n + 1 /\ \A j \in 1..(m - 1) : buffer'[j] = buffer[j]
        BY <3>3, BufferShifts
      <4> HIDE DEF m, n
      <4>2. i \in 1..(m - 1) /\ i \in 1..n
        BY <1>1, <3>3, <4>1
      <4>3. processed' = processed
        BY <1>3, <1>6, <3>3
      <4>4. buffer'[i] = buffer[i]
        BY <4>1, <4>2
      <4>5. /\ i > processed => mined[buffer[i]] = 0
            /\ i <= processed /\ buffer[i] > resets.at => mined[buffer[i]] = 1
        BY <2>1, <4>2 DEF MarkInv, n
      <4> QED BY <4>3, <4>4, <4>5
    <3> QED BY <3>1, <3>2, <3>3
  <2> QED BY <1>2, <1>3, <1>6, <2>2, <2>3 DEF MarkInv
<1>7. ASSUME resets.pending = 0, ~paused PROVE MarkInv'
  <2>1. MarkInv
    BY <1>7 DEF MinerInv
  <2>2. \A e \in Entries : mined'[e] = mined[e] + (IF e = arrived' THEN 1 ELSE 0)
    BY <1>2, <1>4, <1>7 DEF Mine
  <2>3. mined[arrived'] = 0
    BY <1>1, <2>1 DEF MarkInv
  <2>4. ASSUME NEW e \in Entries
        PROVE  mined'[e] <= 1 /\ (e > arrived' => mined'[e] = 0)
    BY <1>1, <1>2, <2>1, <2>2, <2>3 DEF MarkInv, Entries
  <2>5. ASSUME NEW i \in 1..m, buffer'[i] > resets.at PROVE mined'[buffer'[i]] = 1
    <3>1. CASE i = m
      BY <1>1, <2>2, <2>3, <3>1
    <3>2. ASSUME i # m, NEW j \in 1..n, buffer'[i] = buffer[j] PROVE mined'[buffer'[i]] = 1
      <4>1. j <= processed /\ mined[buffer[j]] = 1
        BY <1>7, <2>1, <2>5, <3>2 DEF MarkInv
      <4>2. buffer'[i] # arrived'
        BY <2>3, <3>2, <4>1
      <4>3. mined'[buffer'[i]] = mined[buffer'[i]] + 0
        BY <1>1, <2>2, <4>2
      <4>4. mined[buffer'[i]] = 1
        BY <3>2, <4>1
      <4> QED BY <4>3, <4>4
    <3>3. CASE i # m /\ n = MaxLogBuffer
      <4>1. m = n /\ \A j \in 1..(m - 1) : buffer'[j] = buffer[j + 1]
        BY <3>3, BufferShifts
      <4> HIDE DEF m, n
      <4>2. i \in 1..(m - 1) /\ i + 1 \in 1..n
        BY <1>1, <3>3, <4>1
      <4> QED BY <3>2, <3>3, <4>1, <4>2
    <3>4. CASE i # m /\ n # MaxLogBuffer
      <4>1. m = n + 1 /\ \A j \in 1..(m - 1) : buffer'[j] = buffer[j]
        BY <3>4, BufferShifts
      <4> HIDE DEF m, n
      <4>2. i \in 1..(m - 1) /\ i \in 1..n
        BY <1>1, <3>4, <4>1
      <4> QED BY <3>2, <3>4, <4>1, <4>2
    <3> QED BY <3>1, <3>3, <3>4
  <2>6. \A i \in 1..m : ~(i > processed') /\ i <= processed'
    BY <1>1, <1>4, <1>7
  <2> QED BY <1>2, <2>4, <2>5, <2>6 DEF MarkInv
<1> QED BY <1>1, <1>2, <1>5, <1>6, <1>7 DEF MinerInv

LEMMA ResumeKeepsMark == MinerInv /\ SpaceKey => MinerInv'
<1> SUFFICES ASSUME MinerInv, SpaceKey PROVE MinerInv'
  OBVIOUS
<1>1. UNCHANGED <<arrived, buffer, resets>> /\ paused' \in BOOLEAN /\ Len(buffer) \in Nat
  <2>1. UNCHANGED <<arrived, buffer, resets>> /\ (paused' = TRUE \/ paused' = FALSE)
    BY DEF SpaceKey, Resume
  <2>2. paused' \in BOOLEAN
    BY <2>1
  <2>3. Len(buffer) \in Nat
    BY DEF MinerInv, BufferInv
  <2> QED BY <2>1, <2>2, <2>3
<1>2. CASE ~paused
  BY <1>1, <1>2 DEF SpaceKey, MinerInv, MarkInv, BufferInv
<1>3. CASE paused
  <2> DEFINE new == {buffer[i] : i \in (processed + 1)..Len(buffer)}
  <2>1. mined' = Mine(mined, new) /\ processed' = Len(buffer)
    BY <1>3 DEF SpaceKey, Resume
  <2>2. BufferInv' /\ mined' \in [Entries -> Nat] /\ processed' \in 0..Len(buffer')
    <3>1. BufferInv'
      BY <1>1 DEF MinerInv, BufferInv
    <3> HIDE DEF new
    <3>2. mined \in [Entries -> Nat]
      BY DEF MinerInv
    <3>3. mined' \in [Entries -> Nat]
      BY <2>1, <3>2 DEF Mine
    <3>4. processed' \in 0..Len(buffer')
      BY <1>1, <2>1
    <3> QED BY <3>1, <3>3, <3>4
  <2>3. ASSUME resets.pending = 0 PROVE MarkInv'
    <3>1. /\ MarkInv /\ mined \in [Entries -> Nat] /\ processed \in Nat /\ Len(buffer) \in Nat
          /\ arrived \in Nat /\ Len(buffer) <= arrived
          /\ \A i \in 1..Len(buffer) : buffer[i] = arrived - Len(buffer) + i /\ buffer[i] \in Entries
      BY <2>3 DEF MinerInv, BufferInv
    <3>2. \A e \in new : mined[e] = 0 /\ e <= arrived
      BY <3>1 DEF MarkInv
    <3>3. \A i \in 1..Len(buffer) : i > processed <=> buffer[i] \in new
      <4> SUFFICES ASSUME NEW i \in 1..Len(buffer), NEW j \in (processed + 1)..Len(buffer),
                          buffer[i] = buffer[j]
                   PROVE  i > processed
        BY <3>1
      <4>1. j \in 1..Len(buffer)
        BY <3>1
      <4>2. i = j
        BY <3>1, <4>1
      <4> QED BY <3>1, <4>2
    <3> HIDE DEF new
    <3>4. \A e \in Entries : mined'[e] = IF e \in new THEN mined[e] + 1 ELSE mined[e]
      BY <2>1, <3>1 DEF Mine
    <3>5. ASSUME NEW e \in Entries
          PROVE  mined'[e] <= 1 /\ (e > arrived => mined'[e] = 0)
      BY <3>1, <3>2, <3>4 DEF MarkInv, Entries
    <3>6. ASSUME NEW i \in 1..Len(buffer), buffer[i] > resets.at
          PROVE  mined'[buffer[i]] = 1
      <4>1. CASE i > processed
        BY <3>1, <3>2, <3>3, <3>4, <4>1
      <4>2. CASE ~(i > processed)
        <5>1. i <= processed
          BY <3>1, <4>2
        <5>2. mined[buffer[i]] = 1
          BY <3>1, <3>6, <5>1 DEF MarkInv
        <5> QED BY <3>1, <3>3, <3>4, <4>2, <5>2
      <4> QED BY <4>1, <4>2
    <3>7. \A i \in 1..Len(buffer) : ~(i > Len(buffer)) /\ i <= Len(buffer)
      BY <3>1
    <3> QED BY <1>1, <2>1, <3>5, <3>6, <3>7 DEF MarkInv
  <2> QED BY <1>1, <2>2, <2>3 DEF MinerInv
<1> QED BY <1>2, <1>3 DEF MinerInv

LEMMA ResetsKeepMark == MinerInv /\ (ResetKey \/ ResetDrain3) => MinerInv'
<1> SUFFICES ASSUME MinerInv, ResetKey \/ ResetDrain3 PROVE MinerInv'
  OBVIOUS
<1>1. UNCHANGED <<arrived, buffer, paused>> /\ processed' = 0
  BY DEF ResetKey, ResetDrain3
<1>2. CASE ResetKey
  BY <1>1, <1>2 DEF ResetKey, MinerInv, BufferInv
<1>3. CASE ResetDrain3
  <2>1. /\ mined' = [e \in Entries |-> 0]
        /\ resets' \in [pending : Nat, at : Nat] /\ resets'.at = arrived
    BY <1>3 DEF ResetDrain3, MinerInv, BufferInv
  <2>2. \A i \in 1..Len(buffer) : buffer[i] \in Entries /\ buffer[i] <= arrived
    BY DEF MinerInv, BufferInv
  <2>3. MarkInv'
    BY <1>1, <2>1, <2>2 DEF MarkInv, MinerInv, BufferInv
  <2> QED BY <1>1, <2>1, <2>3 DEF MinerInv, BufferInv
<1> QED BY <1>2, <1>3

LEMMA MinerInductive == MinerInv /\ [LogViewNext]_logVars => MinerInv'
<1> SUFFICES ASSUME MinerInv, [LogViewNext]_logVars PROVE MinerInv'
  OBVIOUS
<1>1. ASSUME UNCHANGED <<arrived, buffer, paused, processed, mined, resets>>
      PROVE  MinerInv'
  BY <1>1 DEF MinerInv, BufferInv, MarkInv
<1>2. CASE FilterInput \/ (\E w \in {"severity", "k8s"} : OpenWindow(w)) \/ ToggleItem
             \/ ShowPods \/ ApplyFilter \/ CancelFilter
  BY <1>1, <1>2 DEF FilterInput, OpenWindow, ToggleItem, ShowPods, ApplyFilter, CancelFilter, minerVars
<1>3. CASE MoveInList \/ MoveInViewer \/ ToggleViewer \/ UNCHANGED logVars
  BY <1>1, <1>3 DEF MoveInList, MoveInViewer, ToggleViewer, logVars, minerVars
<1> QED BY <1>2, <1>3, ArrivalKeepsMark, ResumeKeepsMark, ResetsKeepMark DEF LogViewNext

(* The pattern miner sees every entry once, whatever is paused, evicted or  *)
(* reset in between: drain3LastProcessed is moved along with the buffer.    *)
THEOREM MinedOnce == LogViewSpec => []PatternsCountOnce
BY MinerInitial, MinerInductive, MinerCounts, PTL DEF LogViewSpec

-----------------------------------------------------------------------------
(* The cursors. *)

SelectionInv ==
  /\ MinerInv
  /\ Len(view) \in Nat /\ selected \in Int
  /\ SelectionNotPastEnd

(* What Reselect leaves is on a list of n lines.                            *)
LEMMA ViewRenewed ==
  ASSUME SelectionInv, MinerInv', UpdateFilteredView
  PROVE  SelectionInv'
<1>1. Len(buffer') \in Nat
  BY DEF MinerInv, BufferInv
<1>2. PICK T : view' = Picked(buffer', T)
  BY DEF UpdateFilteredView, Filtered
<1>3. PICK n : n = Len(view')
  OBVIOUS
<1>4. n \in Nat
  <2>1. view' \in Seq(T)
    BY <1>1, <1>2, PickedTyped
  <2> QED BY <1>3, <2>1
<1>5. selected \in Int /\ selected' = Reselect(view')
  BY DEF SelectionInv, UpdateFilteredView
<1>6. selected' = AtLeast0(n - 1) \/ (selected' = selected /\ ~(selected >= n))
  BY <1>3, <1>5 DEF Reselect
<1>7. selected' \in Int /\ (selected' < n \/ selected' <= 0)
  BY <1>4, <1>5, <1>6 DEF AtLeast0
<1> QED BY <1>3, <1>4, <1>7 DEF SelectionInv, SelectionNotPastEnd

(* The keys that move the cursor, in the list and in the log viewer.        *)
LEMMA CursorMoves ==
  ASSUME SelectionInv, MoveInList \/ MoveInViewer \/ ToggleViewer
  PROVE  /\ selected' \in Int /\ SelectionNotPastEnd'
         /\ UNCHANGED view
<1> PICK n, s : n = Len(view) /\ s = selected
  OBVIOUS
<1>1. n \in Nat /\ s \in Int /\ (s < n \/ s <= 0) /\ Page \in Nat
  BY LogViewAssumption DEF SelectionInv, SelectionNotPastEnd
<1>2. UNCHANGED view
  BY DEF MoveInList, MoveInViewer, ToggleViewer
<1>3. CASE MoveInList
  <2>1. selected' \in {AtLeast0(AtMost(n - 1, s - 1)), AtLeast0(AtMost(n - 1, s + 1)),
                       AtMost(n - 1, s + Page), 0, n - 1, AtLeast0(s - Page)}
    <3>1. PICK m \in ListMoves : selected' = m.line
      BY <1>3 DEF MoveInList, ListMoves
    <3>2. PICK b : b = (autoScroll /\ AtLeast0(s - Page) # 0)
      OBVIOUS
    <3>3. m \in {MoveSelection(-1), MoveSelection(1), PageDown, [line |-> 0, follow |-> FALSE],
                 [line |-> n - 1, follow |-> TRUE], [line |-> AtLeast0(s - Page), follow |-> b]}
      BY <3>1, <3>2 DEF ListMoves, WheelMoves
    <3>4. PageDown.line = AtMost(n - 1, s + Page)
      BY DEF PageDown
    <3>5. \A d : MoveSelection(d).line = AtLeast0(AtMost(n - 1, s + d))
      BY DEF MoveSelection
    <3>6. s + -1 = s - 1
      BY <1>1
    <3>7. MoveSelection(-1).line = AtLeast0(AtMost(n - 1, s - 1))
      BY <3>5, <3>6
    <3> QED BY <3>1, <3>3, <3>4, <3>5, <3>7
  <2>2. selected' \in Int /\ (selected' < n \/ selected' <= 0)
    BY <1>1, <2>1 DEF AtLeast0, AtMost
  <2> QED BY <1>2, <2>2 DEF SelectionNotPastEnd
<1>4. CASE MoveInViewer
  <2>1. \/ selected' \in {0, AtLeast0(s - Page), AtMost(n - 1, s + Page)}
        \/ selected' \in {s - 1, s + 1} /\ 0 <= selected' /\ selected' < n
        \/ selected' = n - 1
    BY <1>4 DEF MoveInViewer, ViewerMoves, ViewerWheel
  <2>2. selected' \in Int /\ (selected' < n \/ selected' <= 0)
    BY <1>1, <2>1 DEF AtLeast0, AtMost
  <2> QED BY <1>2, <2>2 DEF SelectionNotPastEnd
<1>5. CASE ToggleViewer
  <2>1. selected' = s \/ selected' = AtLeast0(n - 1)
    BY <1>5 DEF ToggleViewer
  <2>2. selected' \in Int /\ (selected' < n \/ selected' <= 0)
    BY <1>1, <2>1 DEF AtLeast0
  <2> QED BY <1>2, <2>2 DEF SelectionNotPastEnd
<1> QED BY <1>2, <1>3, <1>4, <1>5

LEMMA SelectionInductive == SelectionInv /\ [LogViewNext]_logVars => SelectionInv'
<1> SUFFICES ASSUME SelectionInv, [LogViewNext]_logVars PROVE SelectionInv'
  OBVIOUS
<1>1. MinerInv'
  BY MinerInductive DEF SelectionInv
<1>2. ASSUME UNCHANGED <<view, selected>> PROVE SelectionInv'
  BY <1>1, <1>2 DEF SelectionInv, SelectionNotPastEnd
<1>3. CASE AddLogEntry \/ SpaceKey \/ ResetKey \/ ResetDrain3
  <2>1. UpdateFilteredView \/ UNCHANGED <<view, selected>>
    BY <1>3 DEF AddLogEntry, SpaceKey, ResetKey, ResetDrain3, LeaveView
  <2> QED BY <1>1, <1>2, <2>1, ViewRenewed
<1>4. CASE FilterInput \/ ApplyFilter \/ CancelFilter \/ ToggleItem \/ ShowPods
  <2>1. UpdateFilteredView \/ UNCHANGED <<view, selected>>
    BY <1>4 DEF FilterInput, ApplyFilter, CancelFilter, ToggleItem, ShowPods, LeaveView
  <2> QED BY <1>1, <1>2, <2>1, ViewRenewed
<1>5. ASSUME NEW w \in {"severity", "k8s"}, OpenWindow(w) PROVE SelectionInv'
  BY <1>2, <1>5 DEF OpenWindow, LeaveView
<1>6. CASE MoveInList \/ MoveInViewer \/ ToggleViewer
  BY <1>1, <1>6, CursorMoves DEF SelectionInv
<1>7. CASE UNCHANGED logVars
  BY <1>2, <1>7 DEF logVars
<1> QED BY <1>3, <1>4, <1>5, <1>6, <1>7 DEF LogViewNext

(* The window of the columns is open on a column.                           *)
ColumnsInv ==
  configuring => /\ Len(listed) \in Nat /\ DOMAIN listed = 1..Len(listed)
                 /\ Len(listed) >= Defaults
                 /\ line \in 1..(LineCount - 1) /\ line \notin HeaderLines

LEMMA DefaultsListed == Defaults \in Nat \ {0}
<1>1. DefaultColumns \in Seq(STRING) /\ DefaultColumns # <<>>
  BY ColumnsAssumption
<1> QED BY <1>1 DEF Defaults

LEMMA ColumnsInductive == ColumnsInv /\ [ColumnsNext]_columnVars => ColumnsInv'
<1> SUFFICES ASSUME ColumnsInv, [ColumnsNext]_columnVars PROVE ColumnsInv'
  OBVIOUS
<1>1. ASSUME UNCHANGED <<configuring, listed, line>> PROVE ColumnsInv'
  BY <1>1 DEF ColumnsInv, LineCount, HeaderLines
<1>2. ASSUME NEW keys, OpenColumnConfig(keys) PROVE ColumnsInv'
  <2>1. PICK d, a : d = DefaultColumns /\ a = Picked(Attributes, discovered \union keys)
    OBVIOUS
  <2>2. d \in Seq(STRING) /\ a \in Seq(discovered \union keys)
    <3>1. Len(Attributes) \in Nat
      BY ColumnsAssumption
    <3> QED BY <2>1, <3>1, ColumnsAssumption, PickedTyped
  <2>3. PICK S : S = STRING \union discovered \union keys
    OBVIOUS
  <2>4. d \in Seq(S) /\ a \in Seq(S)
    BY <2>2, <2>3
  <2>5. PICK l : l = d \o a
    OBVIOUS
  <2>6. l \in Seq(S) /\ Len(l) = Len(d) + Len(a)
    BY <2>4, <2>5, ConcatProperties
  <2>7. Len(l) \in Nat /\ DOMAIN l = 1..Len(l) /\ Len(l) >= Len(d) /\ Len(d) \in Nat
    BY <2>4, <2>6
  <2>8. listed' = l /\ line' = 1 /\ Len(d) = Defaults
    BY <1>2, <2>1, <2>5 DEF OpenColumnConfig, Defaults
  <2>9. Defaults \in Nat \ {0}
    BY DefaultsListed
  <2>10. /\ LineCount' = IF Len(l) = Defaults THEN Defaults + 1 ELSE Len(l) + 3
         /\ HeaderLines' = {0} \union (IF Len(l) = Defaults THEN {} ELSE {Defaults + 1, Defaults + 2})
    BY <2>8 DEF LineCount, HeaderLines, Defaults
  <2>11. line' \in 1..(LineCount' - 1) /\ line' \notin HeaderLines'
    <3> PICK c, n, h : c = LineCount' /\ n = Len(l) /\ h = Defaults
      OBVIOUS
    <3>1. c = (IF n = h THEN h + 1 ELSE n + 3) /\ n \in Nat /\ h \in Nat \ {0} /\ n >= h
      BY <2>7, <2>8, <2>9, <2>10
    <3>2. 1 \in 1..(c - 1) /\ 1 # 0 /\ 1 # h + 1 /\ 1 # h + 2
      BY <3>1
    <3> QED BY <2>8, <2>10, <3>2
  <2> QED BY <2>7, <2>8, <2>11 DEF ColumnsInv, Defaults
<1>3. CASE MoveLine
  <2>1. UNCHANGED <<configuring, listed>> /\ configuring
    BY <1>3 DEF MoveLine
  <2>2. LineCount' = LineCount /\ HeaderLines' = HeaderLines
    BY <2>1 DEF LineCount, HeaderLines, Defaults
  <2>3. LineCount \in Nat /\ line \in 1..(LineCount - 1)
    <3>1. line \in 1..(LineCount - 1) /\ Len(listed) \in Nat
      BY <2>1 DEF ColumnsInv
    <3>2. LineCount \in Nat
      BY <3>1, DefaultsListed DEF LineCount
    <3> QED BY <3>1, <3>2
  <2>4. line' \in 1..(LineCount - 1) /\ line' \notin HeaderLines
    BY <1>3, <2>3 DEF MoveLine
  <2> QED BY <2>1, <2>2, <2>4 DEF ColumnsInv, Defaults
<1>4. CASE ToggleColumnsMode \/ ToggleLine \/ UNCHANGED columnVars
  BY <1>1, <1>4 DEF ToggleColumnsMode, ToggleLine, columnVars
<1>5. CASE ApplyColumnConfig \/ RestoreColumnConfig
  BY <1>5 DEF ApplyColumnConfig, RestoreColumnConfig, CloseWindow, ColumnsInv
<1>6. ASSUME NEW keys, NEW kube, EntryArrives(keys, kube) PROVE ColumnsInv'
  BY <1>1, <1>6 DEF EntryArrives
<1> QED BY <1>2, <1>3, <1>4, <1>5, <1>6 DEF ColumnsNext

LEMMA CursorStandsOnColumn == ColumnsInv => CursorOnColumn
<1> SUFFICES ASSUME ColumnsInv, configuring PROVE line \notin HeaderLines /\ ColumnAt(line) \in DOMAIN listed
  BY DEF CursorOnColumn
<1> PICK n, d, l : n = Len(listed) /\ d = Defaults /\ l = line
  OBVIOUS
<1>1. n \in Nat /\ d \in Nat \ {0} /\ n >= d /\ l \notin HeaderLines /\ DOMAIN listed = 1..n
  BY DefaultsListed DEF ColumnsInv
<1>2. l \in 1..((IF n = d THEN d + 1 ELSE n + 3) - 1)
  BY DEF ColumnsInv, LineCount
<1>3. n # d => l # d + 1 /\ l # d + 2
  BY <1>1 DEF HeaderLines
<1>4. (IF l <= d THEN l ELSE l - 2) \in 1..n
  BY <1>1, <1>2, <1>3
<1> QED BY <1>1, <1>4 DEF ColumnAt

(* Neither cursor of the list leaves what is there: the selected line is    *)
(* moved by every key within the view and renewed with it                   *)
(* (updateFilteredView), and the window of the columns skips its headers.   *)
THEOREM CursorsStand == LogViewSpec /\ ColumnsSpec => []CursorsInRange
<1>1. LogViewInit => SelectionInv
  BY MinerInitial DEF LogViewInit, SelectionInv, SelectionNotPastEnd
<1>2. ColumnsInit => ColumnsInv
  BY DEF ColumnsInit, ColumnsInv
<1>3. SelectionInv /\ ColumnsInv => CursorsInRange
  BY CursorStandsOnColumn DEF SelectionInv, CursorsInRange
<1> QED BY <1>1, <1>2, <1>3, SelectionInductive, ColumnsInductive, PTL DEF LogViewSpec, ColumnsSpec

-----------------------------------------------------------------------------
(* What is counted of the entries. *)

(* The entries that were counted, and one more.                             *)
Kept == [own : {kind.own : kind \in Kinds}, level : {kind.level : kind \in Kinds},
         attrs : {kind.attrs : kind \in Kinds}, words : {kind.words : kind \in Kinds},
         at : Nat]

SeenInv ==
  /\ clock \in Nat /\ seen \in Seq(Kept)
  /\ \A i \in 1..Len(seen) : seen[i].at <= clock

(* What CountEntry does of the entry e.                                     *)
Counts(e) ==
  /\ seen' = Append(seen, e) /\ e.at = clock
  /\ heatmap' = WithEntry(heatmap, e, byLogTime)
  /\ services' = Services(e)
  /\ lifetime' = Lifetime(e)
  /\ memory' = [words |-> AddWords(memory.words, e.words),
                attributes |-> AddAttributes(memory.attributes, e.attrs)]
  /\ rate' = [rate EXCEPT !.count = @ + 1]
  /\ UNCHANGED <<clock, byLogTime, rebuilt, cleared>>

LEMMA EntryCounts ==
  ASSUME SeenInv, CountEntry
  PROVE  \E e \in Kept : Counts(e)
<1>1. PICK kind \in Kinds :
        LET e == [own |-> kind.own, level |-> kind.level, attrs |-> kind.attrs,
                  words |-> kind.words, at |-> clock]
        IN  /\ seen' = Append(seen, e)
            /\ heatmap' = WithEntry(heatmap, e, byLogTime)
            /\ services' = Services(e)
            /\ lifetime' = Lifetime(e)
            /\ memory' = [words |-> AddWords(memory.words, e.words),
                          attributes |-> AddAttributes(memory.attributes, e.attrs)]
  BY DEF CountEntry
<1>2. PICK e : e = [own |-> kind.own, level |-> kind.level, attrs |-> kind.attrs,
                    words |-> kind.words, at |-> clock]
  OBVIOUS
<1>3. e \in Kept /\ e.at = clock
  BY <1>2 DEF SeenInv, Kept
<1>4. Counts(e)
  BY <1>1, <1>2, <1>3 DEF Counts, CountEntry
<1> QED BY <1>3, <1>4

LEMMA OneMoreSeen ==
  ASSUME SeenInv, NEW e \in Kept, Counts(e)
  PROVE  /\ Len(seen) \in Nat /\ Len(seen') = Len(seen) + 1 /\ SeenInv'
         /\ seen'[Len(seen) + 1] = e
         /\ \A i \in 1..Len(seen) : seen'[i] = seen[i]
<1>1. seen \in Seq(Kept) /\ seen' = Append(seen, e) /\ e.at = clock /\ clock' = clock
  BY DEF SeenInv, Counts
<1>2. PICK n : n = Len(seen)
  OBVIOUS
<1>3. /\ n \in Nat /\ seen' \in Seq(Kept) /\ Len(seen') = n + 1 /\ seen'[n + 1] = e
      /\ \A i \in 1..n : seen'[i] = seen[i]
  BY <1>1, <1>2, AppendProperties
<1>4. ASSUME NEW i \in 1..Len(seen') PROVE seen'[i].at <= clock'
  <2>1. clock \in Nat /\ \A j \in 1..n : seen[j].at <= clock
    BY <1>2 DEF SeenInv
  <2>2. CASE i = n + 1
    BY <1>1, <1>3, <2>1, <2>2
  <2>3. CASE i \in 1..n
    BY <1>1, <1>3, <2>1, <2>3
  <2> QED BY <1>3, <2>2, <2>3
<1> QED BY <1>1, <1>2, <1>3, <1>4 DEF SeenInv

LEMMA OneMoreCounted ==
  ASSUME NEW n \in Nat, NEW k \in 0..n, NEW A \in SUBSET ((k + 1)..n), NEW p \in BOOLEAN,
         NEW B, B = IF p THEN A \union {n + 1} ELSE A
  PROVE  /\ IsFiniteSet(A) /\ Cardinality(A) \in Nat
         /\ Cardinality(B) = Cardinality(A) + (IF p THEN 1 ELSE 0)
<1>1. k + 1 \in Int /\ n \in Int
  OBVIOUS
<1>2. IsFiniteSet((k + 1)..n)
  BY <1>1, FS_Interval
<1>3. IsFiniteSet(A) /\ Cardinality(A) \in Nat
  BY <1>2, FS_Subset, FS_CardinalityType
<1>4. n + 1 \notin A
  OBVIOUS
<1>5. Cardinality(A \union {n + 1}) = Cardinality(A) + 1
  BY <1>3, <1>4, FS_AddElement
<1> QED BY <1>3, <1>5

(* The lifetime counters. *)
LevelCount(l) == IF l \in DOMAIN lifetime.levels THEN lifetime.levels[l] ELSE 0
AtLevel(l) == {i \in 1..Len(seen) : seen[i].level = l}
LifetimeInv ==
  /\ DOMAIN lifetime.levels = LevelsSeen
  /\ \A l : LevelCount(l) = Cardinality(AtLevel(l))

LEMMA LifetimeKeeps == ASSUME SeenInv, LifetimeInv, NEW e \in Kept, Counts(e) PROVE LifetimeInv'
<1>1. PICK n : n = Len(seen)
  OBVIOUS
<1>2. /\ n \in Nat /\ Len(seen') = n + 1 /\ seen'[n + 1] = e
      /\ \A i \in 1..n : seen'[i] = seen[i]
      /\ DOMAIN seen = 1..n /\ DOMAIN seen' = 1..(n + 1)
  BY <1>1, OneMoreSeen DEF SeenInv
<1>3. PICK f : f = lifetime.levels
  OBVIOUS
<1>4. lifetime'.levels = [l \in DOMAIN f \union {e.level} |->
                            (IF l \in DOMAIN f THEN f[l] ELSE 0) + (IF l = e.level THEN 1 ELSE 0)]
  BY <1>3 DEF Counts, Lifetime, Counted
<1>5. DOMAIN f = LevelsSeen /\ LevelsSeen' = LevelsSeen \union {e.level}
  BY <1>2, <1>3 DEF LifetimeInv, LevelsSeen
<1>6. ASSUME NEW l PROVE LevelCount(l)' = Cardinality(AtLevel(l)')
  <2>1. PICK A, B, b, k : A = AtLevel(l) /\ B = AtLevel(l)' /\ b = (e.level = l) /\ k = 0
    OBVIOUS
  <2>2. A \in SUBSET ((k + 1)..n) /\ B = IF b THEN A \union {n + 1} ELSE A
    <3>1. A = {i \in (k + 1)..n : seen[i].level = l}
      BY <1>1, <2>1 DEF AtLevel
    <3>2. B = {i \in (k + 1)..(n + 1) : seen'[i].level = l}
      BY <1>2, <2>1 DEF AtLevel
    <3>3. \A i : i \in (k + 1)..(n + 1) <=> i \in (k + 1)..n \/ i = n + 1
      BY <1>2, <2>1
    <3>4. \A i \in (k + 1)..n : seen'[i] = seen[i]
      BY <1>2, <2>1
    <3>5. \A i : i \in B <=> i \in A \/ (i = n + 1 /\ b)
      BY <1>2, <2>1, <3>1, <3>2, <3>3, <3>4
    <3> QED BY <2>1, <3>1, <3>5
  <2>3. k \in 0..n /\ b \in BOOLEAN
    BY <1>2, <2>1
  <2>4. Cardinality(A) \in Nat /\ Cardinality(B) = Cardinality(A) + (IF b THEN 1 ELSE 0)
    BY <1>2, <2>2, <2>3, OneMoreCounted
  <2>5. PICK c : c = IF l \in DOMAIN f THEN f[l] ELSE 0
    OBVIOUS
  <2>6. c = Cardinality(A)
    BY <1>3, <2>1, <2>5 DEF LifetimeInv, LevelCount
  <2>7. CASE b
    <3>1. l = e.level /\ Cardinality(B) = Cardinality(A) + 1
      BY <2>1, <2>4, <2>7
    <3>2. LevelCount(l)' = c + 1
      BY <1>4, <2>5, <3>1 DEF LevelCount
    <3> QED BY <2>1, <2>6, <3>1, <3>2
  <2>8. CASE ~b
    <3>1. l # e.level /\ Cardinality(B) = Cardinality(A)
      <4>1. Cardinality(B) = Cardinality(A) + 0
        BY <2>4, <2>8
      <4>2. l # e.level
        BY <2>1, <2>8
      <4> QED BY <2>4, <4>1, <4>2
    <3>2. LevelCount(l)' = IF l \in DOMAIN f THEN c + 0 ELSE 0
      BY <1>4, <2>5, <3>1 DEF LevelCount
    <3>3. LevelCount(l)' = c
      BY <2>4, <2>5, <2>6, <3>2
    <3> QED BY <2>1, <2>6, <3>1, <3>3
  <2> QED BY <2>3, <2>7, <2>8
<1> QED BY <1>4, <1>5, <1>6 DEF LifetimeInv

LEMMA LifetimeIsExact == SeenInv /\ LifetimeInv => LifetimeExact
<1> SUFFICES ASSUME SeenInv, LifetimeInv, NEW l \in LevelsSeen
             PROVE  lifetime.levels[l] = HowMany(LAMBDA e : e.level = l)
  BY DEF LifetimeExact
<1>1. HowMany(LAMBDA e : e.level = l) = Cardinality(AtLevel(l))
  BY DEF HowMany, HowManyAfter, AtLevel
<1> QED BY <1>1 DEF LifetimeInv, LevelCount

(* The heatmap.  An entry more adds one to its minute and level.            *)
LEMMA WithEntryCounts ==
  ASSUME NEW map, NEW e, NEW logTime, NEW m, NEW l, MinuteKept(m), HeatCount(map, m, l) \in Nat
  PROVE  HeatCount(WithEntry(map, e, logTime), m, l)
           = HeatCount(map, m, l) + (IF DisplayMinute(e, logTime) = m /\ e.level = l THEN 1 ELSE 0)
<1>1. PICK d, f : d = DisplayMinute(e, logTime) /\ f = IF d \in DOMAIN map THEN map[d] ELSE <<>>
  OBVIOUS
<1>2. PICK g : g = Counted(f, e.level)
  OBVIOUS
<1>3. PICK w : w = WithEntry(map, e, logTime)
  OBVIOUS
<1>4. w = [n \in {n \in DOMAIN map \union {d} : MinuteKept(n)} |-> IF n = d THEN g ELSE map[n]]
  BY <1>1, <1>2, <1>3 DEF WithEntry
<1>5. g = [k \in DOMAIN f \union {e.level} |->
             (IF k \in DOMAIN f THEN f[k] ELSE 0) + (IF k = e.level THEN 1 ELSE 0)]
  BY <1>2 DEF Counted
<1>6. DOMAIN <<>> = {}
  OBVIOUS
<1>7. CASE m = d
  <2>1. m \in DOMAIN w /\ w[m] = g
    BY <1>4, <1>7
  <2>2. HeatCount(map, m, l) = IF l \in DOMAIN f THEN f[l] ELSE 0
    BY <1>1, <1>6, <1>7 DEF HeatCount
  <2>3. HeatCount(w, m, l) = IF l \in DOMAIN g THEN g[l] ELSE 0
    BY <2>1 DEF HeatCount
  <2>4. CASE l = e.level
    <3>1. g[l] = (IF l \in DOMAIN f THEN f[l] ELSE 0) + 1 /\ l \in DOMAIN g
      BY <1>5, <2>4
    <3> QED BY <1>1, <1>3, <1>7, <2>2, <2>3, <2>4, <3>1
  <2>5. CASE l # e.level
    <3>1. (l \in DOMAIN g <=> l \in DOMAIN f) /\ (l \in DOMAIN f => g[l] = f[l] + 0)
      BY <1>5, <2>5
    <3>2. HeatCount(w, m, l) = HeatCount(map, m, l)
      BY <2>2, <2>3, <3>1
    <3> QED BY <1>1, <1>3, <1>7, <2>5, <3>2
  <2> QED BY <2>4, <2>5
<1>8. CASE m # d
  <2>1. (m \in DOMAIN w <=> m \in DOMAIN map) /\ (m \in DOMAIN map => w[m] = map[m])
    BY <1>4, <1>8
  <2>2. HeatCount(w, m, l) = HeatCount(map, m, l)
    BY <2>1 DEF HeatCount
  <2> QED BY <1>1, <1>3, <1>8, <2>2
<1> QED BY <1>7, <1>8

LEMMA MinuteOfEntry == ASSUME NEW e \in Kept, NEW logTime PROVE DisplayMinute(e, logTime) \in Int
<1>1. e.at \in Int /\ (e.own # Unset => e.own \in Int) /\ Minute \in Nat \ {0}
  BY StatisticsAssumption DEF Kept
<1>2. PICK x : x = IF logTime /\ e.own # Unset THEN e.at - e.own ELSE e.at
  OBVIOUS
<1>3. x \in Int /\ DisplayMinute(e, logTime) = x \div Minute
  BY <1>1, <1>2 DEF DisplayMinute
<1> QED BY <1>1, <1>3

(* The loop of rebuildHeatmap does what its recursive definition says.      *)
AreHeatmaps(f, map, es, logTime, n) ==
  /\ f = [i \in 0..n |-> f[i]]
  /\ f[0] = map
  /\ \A i \in 1..n : f[i] = WithEntry(f[i - 1], es[i], logTime)

LEMMA HeatmapsExist ==
  ASSUME NEW map, NEW es, NEW logTime, Len(es) \in Nat
  PROVE  \E f : AreHeatmaps(f, map, es, logTime, Len(es))
<1> DEFINE A == {n \in Nat : \E f : AreHeatmaps(f, map, es, logTime, n)}
<1>1. 0 \in A
  <2>1. AreHeatmaps([i \in 0..0 |-> map], map, es, logTime, 0)
    BY DEF AreHeatmaps
  <2> QED BY <2>1
<1>2. ASSUME NEW n \in 0..(Len(es) - 1), n \in A PROVE n + 1 \in A
  <2>1. PICK f : AreHeatmaps(f, map, es, logTime, n)
    BY <1>2
  <2>2. PICK g : g = [i \in 0..(n + 1) |-> IF i = n + 1 THEN WithEntry(f[n], es[n + 1], logTime) ELSE f[i]]
    OBVIOUS
  <2>3. n \in Nat /\ n \in 0..n
    OBVIOUS
  <2>4. (\A i \in 0..n : g[i] = f[i]) /\ g[n + 1] = WithEntry(f[n], es[n + 1], logTime)
    BY <2>2, <2>3
  <2>5. g = [i \in 0..(n + 1) |-> g[i]]
    BY <2>2
  <2>6. g[0] = map
    BY <2>1, <2>3, <2>4 DEF AreHeatmaps
  <2>7. ASSUME NEW i \in 1..(n + 1) PROVE g[i] = WithEntry(g[i - 1], es[i], logTime)
    <3>1. CASE i = n + 1
      <4>1. i - 1 = n /\ g[i - 1] = f[n]
        BY <2>3, <2>4, <3>1
      <4> QED BY <2>4, <3>1, <4>1
    <3>2. CASE i \in 1..n
      <4>1. g[i] = f[i] /\ g[i - 1] = f[i - 1]
        BY <2>3, <2>4, <3>2
      <4>2. f[i] = WithEntry(f[i - 1], es[i], logTime)
        BY <2>1, <3>2 DEF AreHeatmaps
      <4> QED BY <4>1, <4>2
    <3> QED BY <2>3, <3>1, <3>2
  <2>8. AreHeatmaps(g, map, es, logTime, n + 1)
    BY <2>5, <2>6, <2>7 DEF AreHeatmaps
  <2> QED BY <2>3, <2>8
<1> HIDE DEF A
<1>3. \A n \in 0..Len(es) : n \in A
  BY <1>1, <1>2, UpTo
<1>4. Len(es) \in A
  BY <1>3
<1> QED BY <1>4 DEF A

LEMMA HeatmapsAre ==
  ASSUME NEW map, NEW es, NEW logTime, Len(es) \in Nat
  PROVE  AreHeatmaps(HeatmapsOf(map, es, logTime), map, es, logTime, Len(es))
<1>1. PICK k, p : k = Len(es) /\ p = HeatmapsOf(map, es, logTime)
  OBVIOUS
<1>2. PICK f : AreHeatmaps(f, map, es, logTime, k)
  BY <1>1, HeatmapsExist
<1>3. f = [n \in 0..k |-> IF n = 0 THEN map ELSE WithEntry(f[n - 1], es[n], logTime)]
  <2>1. ASSUME NEW n \in 0..k
        PROVE  f[n] = IF n = 0 THEN map ELSE WithEntry(f[n - 1], es[n], logTime)
    <3>1. CASE n = 0
      BY <1>2, <3>1 DEF AreHeatmaps
    <3>2. CASE n \in 1..k
      <4>1. n # 0
        BY <1>1, <3>2
      <4>2. f[n] = WithEntry(f[n - 1], es[n], logTime)
        BY <1>2, <3>2 DEF AreHeatmaps
      <4> QED BY <4>1, <4>2
    <3> QED BY <1>1, <3>1, <3>2
  <2>2. f = [n \in 0..k |-> f[n]]
    BY <1>2 DEF AreHeatmaps
  <2> QED BY <2>1, <2>2
<1>4. p = CHOOSE g : g = [n \in 0..k |-> IF n = 0 THEN map ELSE WithEntry(g[n - 1], es[n], logTime)]
  BY <1>1 DEF HeatmapsOf
<1>5. p = [n \in 0..k |-> IF n = 0 THEN map ELSE WithEntry(p[n - 1], es[n], logTime)]
  BY <1>3, <1>4
<1>6. p = [n \in 0..k |-> p[n]]
  BY <1>5
<1>7. p[0] = map
  <2>1. 0 \in 0..k
    BY <1>1
  <2> QED BY <1>5, <2>1
<1>8. ASSUME NEW n \in 1..k PROVE p[n] = WithEntry(p[n - 1], es[n], logTime)
  <2>1. n # 0 /\ n \in 0..k
    BY <1>1, <1>8
  <2>2. p[n] = IF n = 0 THEN map ELSE WithEntry(p[n - 1], es[n], logTime)
    BY <1>5, <2>1
  <2> QED BY <2>1, <2>2
<1> QED BY <1>1, <1>6, <1>7, <1>8 DEF AreHeatmaps

(* A heatmap that is built of es counts them.                               *)
InMinute(es, logTime, m, l, n) ==
  {i \in 1..n : DisplayMinute(es[i], logTime) = m /\ es[i].level = l}

LEMMA HeatmapCounts ==
  ASSUME NEW es, NEW logTime, Len(es) \in Nat, NEW m, NEW l, MinuteKept(m)
  PROVE  HeatCount(HeatmapOf(<<>>, es, logTime), m, l)
           = Cardinality(InMinute(es, logTime, m, l, Len(es)))
<1>1. PICK k, p : k = Len(es) /\ p = HeatmapsOf(<<>>, es, logTime)
  OBVIOUS
<1>2. AreHeatmaps(p, <<>>, es, logTime, k)
  BY <1>1, HeatmapsAre
<1> DEFINE A == {n \in Nat : HeatCount(p[n], m, l) = Cardinality(InMinute(es, logTime, m, l, n))}
<1>3. 0 \in A
  <2>1. InMinute(es, logTime, m, l, 0) = {} /\ p[0] = <<>> /\ DOMAIN <<>> = {}
    BY <1>2 DEF InMinute, AreHeatmaps
  <2> QED BY <2>1, FS_EmptySet DEF HeatCount
<1>4. ASSUME NEW n \in 0..(k - 1), n \in A PROVE n + 1 \in A
  <2>1. n \in Nat /\ n + 1 \in 1..k /\ (n + 1) - 1 = n /\ 0 \in 0..n
    BY <1>1
  <2>2. PICK w, b : w = p[n] /\ b = (DisplayMinute(es[n + 1], logTime) = m /\ es[n + 1].level = l)
    OBVIOUS
  <2>3. PICK S, U : S = InMinute(es, logTime, m, l, n) /\ U = InMinute(es, logTime, m, l, n + 1)
    OBVIOUS
  <2>4. p[n + 1] = WithEntry(w, es[n + 1], logTime)
    BY <1>2, <2>1, <2>2 DEF AreHeatmaps
  <2>5. S \in SUBSET ((0 + 1)..n) /\ U = IF b THEN S \union {n + 1} ELSE S
    <3>1. /\ S = {i \in 1..n : DisplayMinute(es[i], logTime) = m /\ es[i].level = l}
          /\ U = {i \in 1..(n + 1) : DisplayMinute(es[i], logTime) = m /\ es[i].level = l}
      BY <2>3 DEF InMinute
    <3>2. \A i : i \in 1..(n + 1) <=> i \in 1..n \/ i = n + 1
      BY <2>1
    <3>3. \A i : i \in U <=> i \in S \/ (i = n + 1 /\ b)
      BY <2>2, <3>1, <3>2
    <3> QED BY <2>2, <3>1, <3>3
  <2>6. b \in BOOLEAN
    BY <2>2
  <2>7. Cardinality(S) \in Nat /\ Cardinality(U) = Cardinality(S) + (IF b THEN 1 ELSE 0)
    BY <2>1, <2>5, <2>6, OneMoreCounted
  <2>8. HeatCount(w, m, l) = Cardinality(S)
    BY <1>4, <2>2, <2>3
  <2>9. HeatCount(WithEntry(w, es[n + 1], logTime), m, l) = HeatCount(w, m, l) + (IF b THEN 1 ELSE 0)
    <3>1. HeatCount(w, m, l) \in Nat
      BY <2>7, <2>8
    <3>2. CASE b
      <4>1. (DisplayMinute(es[n + 1], logTime) = m /\ es[n + 1].level = l)
        BY <2>2, <3>2
      <4>2. HeatCount(WithEntry(w, es[n + 1], logTime), m, l) = HeatCount(w, m, l) + 1
        BY <3>1, <4>1, WithEntryCounts
      <4> QED BY <3>2, <4>2
    <3>3. CASE ~b
      <4>1. ~(DisplayMinute(es[n + 1], logTime) = m /\ es[n + 1].level = l)
        BY <2>2, <3>3
      <4>2. HeatCount(WithEntry(w, es[n + 1], logTime), m, l) = HeatCount(w, m, l) + 0
        BY <3>1, <4>1, WithEntryCounts
      <4> QED BY <3>3, <4>2
    <3> QED BY <2>6, <3>2, <3>3
  <2> QED BY <2>1, <2>3, <2>4, <2>7, <2>8, <2>9
<1> HIDE DEF A
<1>5. \A n \in 0..k : n \in A
  BY <1>1, <1>3, <1>4, UpTo
<1>6. k \in A
  BY <1>1, <1>5
<1> QED BY <1>1, <1>6 DEF A, HeatmapOf

HeatIn(m, l) ==
  {i \in (rebuilt + 1)..Len(seen) : DisplayMinute(seen[i], byLogTime) = m /\ seen[i].level = l}

HeatInv ==
  /\ rebuilt \in 0..Len(seen)
  /\ \A m \in Int : \A l : MinuteKept(m) => HeatCount(heatmap, m, l) = Cardinality(HeatIn(m, l))

LEMMA HeatKeeps == ASSUME SeenInv, HeatInv, NEW e \in Kept, Counts(e) PROVE HeatInv'
<1>1. PICK n, k, t : n = Len(seen) /\ k = rebuilt /\ t = byLogTime
  OBVIOUS
<1>2. /\ n \in Nat /\ Len(seen') = n + 1 /\ seen'[n + 1] = e /\ k \in 0..n
      /\ \A i \in 1..n : seen'[i] = seen[i]
  BY <1>1, OneMoreSeen DEF HeatInv
<1>3. rebuilt' = k /\ byLogTime' = t /\ clock' = clock /\ heatmap' = WithEntry(heatmap, e, t)
  BY <1>1 DEF Counts
<1>4. ASSUME NEW m \in Int, NEW l, MinuteKept(m)'
      PROVE  HeatCount(heatmap, m, l)' = Cardinality(HeatIn(m, l)')
  <2>1. PICK A, B, b : A = HeatIn(m, l) /\ B = HeatIn(m, l)' /\ b = (DisplayMinute(e, t) = m /\ e.level = l)
    OBVIOUS
  <2>2. A \in SUBSET ((k + 1)..n) /\ B = IF b THEN A \union {n + 1} ELSE A
    <3>1. A = {i \in (k + 1)..n : DisplayMinute(seen[i], t) = m /\ seen[i].level = l}
      BY <1>1, <2>1 DEF HeatIn
    <3>2. B = {i \in (k + 1)..(n + 1) : DisplayMinute(seen'[i], t) = m /\ seen'[i].level = l}
      BY <1>2, <1>3, <2>1 DEF HeatIn, DisplayMinute
    <3>3. \A i \in (k + 1)..n : seen'[i] = seen[i] /\ i # n + 1
      BY <1>2
    <3>4. \A i : i \in (k + 1)..(n + 1) <=> i \in (k + 1)..n \/ i = n + 1
      BY <1>2
    <3>5. \A i : i \in B <=> i \in A \/ (i = n + 1 /\ b)
      BY <1>2, <2>1, <3>1, <3>2, <3>3, <3>4
    <3> QED BY <2>1, <3>1, <3>5
  <2>3. b \in BOOLEAN
    BY <2>1
  <2>4. Cardinality(A) \in Nat /\ Cardinality(B) = Cardinality(A) + (IF b THEN 1 ELSE 0)
    BY <1>2, <2>2, <2>3, OneMoreCounted
  <2>5. MinuteKept(m)
    BY <1>3, <1>4 DEF MinuteKept
  <2>6. HeatCount(heatmap, m, l) = Cardinality(A)
    BY <2>1, <2>5 DEF HeatInv
  <2>7. HeatCount(WithEntry(heatmap, e, t), m, l) = HeatCount(heatmap, m, l) + (IF b THEN 1 ELSE 0)
    <3>1. HeatCount(heatmap, m, l) \in Nat
      BY <2>4, <2>6
    <3>2. CASE b
      <4>1. (DisplayMinute(e, t) = m /\ e.level = l)
        BY <2>1, <3>2
      <4>2. HeatCount(WithEntry(heatmap, e, t), m, l) = HeatCount(heatmap, m, l) + 1
        BY <2>5, <3>1, <4>1, WithEntryCounts
      <4> QED BY <3>2, <4>2
    <3>3. CASE ~b
      <4>1. ~(DisplayMinute(e, t) = m /\ e.level = l)
        BY <2>1, <3>3
      <4>2. HeatCount(WithEntry(heatmap, e, t), m, l) = HeatCount(heatmap, m, l) + 0
        BY <2>5, <3>1, <4>1, WithEntryCounts
      <4> QED BY <3>3, <4>2
    <3> QED BY <2>3, <3>2, <3>3
  <2>8. HeatCount(heatmap, m, l)' = HeatCount(WithEntry(heatmap, e, t), m, l)
    BY <1>3 DEF HeatCount
  <2> QED BY <2>1, <2>4, <2>6, <2>7, <2>8
<1> QED BY <1>2, <1>3, <1>4 DEF HeatInv

LEMMA HeatToggles == ASSUME SeenInv, HeatInv, ToggleLogTime PROVE HeatInv'
<1>1. PICK n, k, t : n = Len(seen) /\ k = Lost /\ t = byLogTime'
  OBVIOUS
<1>2. n \in Nat /\ BufferSize \in Nat \ {0} /\ seen \in Seq(Kept)
  BY <1>1, StatisticsAssumption DEF SeenInv
<1>3. k = (IF n < BufferSize THEN 0 ELSE n - BufferSize) /\ k \in 0..n /\ n - AtMostOf(BufferSize, n) = k
  BY <1>1, <1>2 DEF Lost, AtMostOf
<1>4. PICK es : es = Buffered(seen)
  OBVIOUS
<1>5. es \in Seq(Kept) /\ Len(es) = n - k /\ \A i \in 1..(n - k) : es[i] = seen[k + i]
  <2>1. PICK a : a = k + 1
    OBVIOUS
  <2>2. es = SubSeq(seen, a, n)
    BY <1>1, <1>3, <1>4, <2>1 DEF Buffered
  <2>3. a \in Int /\ n \in Int /\ \A i \in a..n : i \in 1..n
    BY <1>2, <1>3, <2>1
  <2>4. \A i \in a..n : seen[i] \in Kept
    BY <1>1, <1>2, <2>3
  <2>5. /\ es \in Seq(Kept) /\ Len(es) = (IF a <= n THEN n - a + 1 ELSE 0)
        /\ \A i \in 1..(n - a + 1) : es[i] = seen[a + i - 1]
    BY <2>2, <2>3, <2>4, SubSeqProperties
  <2>6. n - a + 1 = n - k /\ (IF a <= n THEN n - a + 1 ELSE 0) = n - k
        /\ \A i \in 1..(n - k) : a + i - 1 = k + i
    BY <1>2, <1>3, <2>1
  <2> QED BY <2>5, <2>6
<1>6. seen' = seen /\ rebuilt' = k /\ clock' = clock /\ heatmap' = HeatmapOf(<<>>, es, t)
  BY <1>1, <1>4 DEF ToggleLogTime, Rebuild
<1>7. ASSUME NEW m \in Int, NEW l, MinuteKept(m)'
      PROVE  HeatCount(heatmap, m, l)' = Cardinality(HeatIn(m, l)')
  <2>1. MinuteKept(m)
    BY <1>6, <1>7 DEF MinuteKept
  <2>2. PICK A, B : A = InMinute(es, t, m, l, n - k) /\ B = HeatIn(m, l)'
    OBVIOUS
  <2>3. HeatCount(heatmap, m, l)' = Cardinality(A)
    <3>1. HeatCount(HeatmapOf(<<>>, es, t), m, l) = Cardinality(InMinute(es, t, m, l, Len(es)))
      BY <1>2, <1>3, <1>5, <2>1, HeatmapCounts
    <3> QED BY <1>5, <1>6, <2>2, <3>1 DEF HeatCount
  <2>4. Cardinality(B) = Cardinality(A)
    <3>1. A = {i \in 1..(n - k) : DisplayMinute(seen[k + i], t) = m /\ seen[k + i].level = l}
      BY <1>5, <2>2 DEF InMinute
    <3>2. B = {i \in (k + 1)..n : DisplayMinute(seen[i], t) = m /\ seen[i].level = l}
      BY <1>1, <1>6, <2>2 DEF HeatIn, DisplayMinute
    <3>3. IsFiniteSet(A)
      <4>1. A \subseteq 1..(n - k) /\ 1 \in Int /\ n - k \in Int
        BY <1>2, <1>3, <3>1
      <4> QED BY <4>1, FS_Interval, FS_Subset
    <3>4. PICK f : f = [i \in A |-> k + i]
      OBVIOUS
    <3>5. f \in Bijection(A, B)
      <4>1. ASSUME NEW i \in A PROVE k + i \in B
        BY <1>2, <1>3, <3>1, <3>2
      <4>2. f \in [A -> B]
        BY <3>4, <4>1
      <4>3. \A i, j \in A : f[i] = f[j] => i = j
        BY <1>2, <1>3, <3>1, <3>4
      <4>4. ASSUME NEW j \in B PROVE \E i \in A : f[i] = j
        <5>1. j - k \in A /\ k + (j - k) = j
          <6>1. j - k \in 1..(n - k) /\ k + (j - k) = j
            BY <1>2, <1>3, <3>2
          <6> QED BY <3>1, <3>2, <6>1
        <5> QED BY <3>4, <5>1
      <4> QED BY <4>2, <4>3, <4>4 DEF Bijection, Injection, Surjection, IsInjective
    <3>6. ExistsBijection(A, B)
      BY <3>5 DEF ExistsBijection
    <3> QED BY <3>3, <3>6, FS_Bijection
  <2> QED BY <2>2, <2>3, <2>4
<1> QED BY <1>1, <1>3, <1>6, <1>7 DEF HeatInv

LEMMA HeatIsExact == SeenInv /\ HeatInv => HeatmapExact
<1> SUFFICES ASSUME SeenInv, HeatInv, NEW l \in LevelsSeen,
                    NEW m \in {DisplayMinute(seen[i], byLogTime) : i \in DOMAIN seen}, MinuteKept(m)
             PROVE  HeatCount(heatmap, m, l)
                      = HowManyAfter(rebuilt, LAMBDA e : DisplayMinute(e, byLogTime) = m /\ e.level = l)
  BY DEF HeatmapExact
<1>1. m \in Int
  <2>1. PICK i \in DOMAIN seen : m = DisplayMinute(seen[i], byLogTime)
    OBVIOUS
  <2>2. seen[i] \in Kept
    BY DEF SeenInv
  <2> QED BY <2>1, <2>2, MinuteOfEntry
<1>2. HowManyAfter(rebuilt, LAMBDA e : DisplayMinute(e, byLogTime) = m /\ e.level = l)
        = Cardinality(HeatIn(m, l))
  BY DEF HowManyAfter, HeatIn
<1> QED BY <1>1, <1>2 DEF HeatInv

(* Time passes: what is kept was kept.                                      *)
LEMMA HeatStays ==
  ASSUME HeatInv, SeenInv, clock' \in Nat, clock' >= clock, UNCHANGED <<seen, byLogTime, heatmap, rebuilt>>
  PROVE  HeatInv'
<1>1. ASSUME NEW m \in Int, MinuteKept(m)' PROVE MinuteKept(m)
  <2>1. PICK x, h, c, d : x = m * Minute /\ h = Horizon * Minute /\ c = clock /\ d = clock'
    OBVIOUS
  <2>2. x \in Int /\ h \in Int /\ c \in Nat /\ d \in Nat /\ d >= c
    BY <2>1, StatisticsAssumption, SMTT(30) DEF SeenInv
  <2>3. x > d - h
    BY <1>1, <2>1 DEF MinuteKept
  <2>4. x > c - h
    BY <2>2, <2>3
  <2> QED BY <2>1, <2>4 DEF MinuteKept
<1>2. \A m, l : HeatIn(m, l)' = HeatIn(m, l) /\ HeatCount(heatmap, m, l)' = HeatCount(heatmap, m, l)
  BY DEF HeatIn, HeatCount, DisplayMinute
<1> QED BY <1>1, <1>2 DEF HeatInv

(* The rate.  Where in seen each stored second begins, and the running one: *)
(* what is before was not younger, what is behind not older.                *)
Seconds == [count : Nat, at : Nat]

SecondAt(s, since, j) == IF j = Len(s) THEN since ELSE s[j + 1].at

MarkedBy(g, s, since, count) ==
  /\ g \in [0..Len(s) -> Nat] /\ g[Len(s)] = Len(seen) - count
  /\ \A j \in 1..Len(s) : g[j] = g[j - 1] + s[j].count
  /\ \A j \in 0..Len(s) : \A i \in 1..Len(seen) :
       /\ i <= g[j] => seen[i].at <= SecondAt(s, since, j)
       /\ i > g[j] => seen[i].at >= SecondAt(s, since, j)

RateInv ==
  /\ rate \in [count : Nat, since : Nat, peak : Nat, recent : Seq(Seconds)]
  /\ rate.since <= clock
  /\ \A j \in 1..Len(rate.recent) : rate.recent[j].at <= clock
  /\ \E g : MarkedBy(g, rate.recent, rate.since, rate.count)

(* Dropping the oldest seconds drops their marks.                           *)
LEMMA MarksOfRest ==
  ASSUME NEW g, NEW s \in Seq(Seconds), NEW since, NEW count, MarkedBy(g, s, since, count),
         NEW k \in 0..Len(s), NEW r \in Seq(Seconds), Len(r) = Len(s) - k,
         \A i \in 1..(Len(s) - k) : r[i] = s[k + i]
  PROVE  \E h : MarkedBy(h, r, since, count)
<1>1. PICK n, m : n = Len(s) /\ m = Len(r)
  OBVIOUS
<1>2. n \in Nat /\ m \in Nat /\ k \in Nat /\ m = n - k /\ k + m = n
  BY <1>1
<1>3. /\ g \in [0..n -> Nat] /\ g[n] = Len(seen) - count
      /\ \A j \in 1..n : g[j] = g[j - 1] + s[j].count
  BY <1>1 DEF MarkedBy
<1>4. PICK h : h = [j \in 0..m |-> g[k + j]]
  OBVIOUS
<1>5. \A j \in 0..m : k + j \in 0..n /\ h[j] = g[k + j]
  BY <1>2, <1>4
<1>6. h \in [0..m -> Nat] /\ h[m] = Len(seen) - count
  <2>1. m \in 0..m
    BY <1>2
  <2> QED BY <1>2, <1>3, <1>4, <1>5, <2>1
<1>7. ASSUME NEW j \in 1..m PROVE h[j] = h[j - 1] + r[j].count
  <2>1. k + j \in 1..n /\ k + (j - 1) = (k + j) - 1 /\ j \in 0..m /\ j - 1 \in 0..m
    BY <1>2
  <2>2. g[k + j] = g[(k + j) - 1] + s[k + j].count
    BY <1>3, <2>1
  <2>3. r[j] = s[k + j]
    BY <1>1, <1>2
  <2>4. h[j] = g[k + j] /\ h[j - 1] = g[(k + j) - 1]
    BY <1>5, <2>1
  <2> QED BY <2>2, <2>3, <2>4
<1>8. ASSUME NEW j \in 0..m PROVE SecondAt(r, since, j) = SecondAt(s, since, k + j)
  <2>1. CASE j = m
    BY <1>1, <1>2, <2>1 DEF SecondAt
  <2>2. CASE j # m
    <3>1. j + 1 \in 1..m /\ k + (j + 1) = (k + j) + 1 /\ k + j # n
      BY <1>2, <2>2
    <3>2. r[j + 1] = s[k + (j + 1)]
      BY <1>1, <1>2, <3>1
    <3> QED BY <1>1, <2>2, <3>1, <3>2 DEF SecondAt
  <2> QED BY <2>1, <2>2
<1>9. ASSUME NEW j \in 0..m, NEW i \in 1..Len(seen)
      PROVE  /\ i <= h[j] => seen[i].at <= SecondAt(r, since, j)
             /\ i > h[j] => seen[i].at >= SecondAt(r, since, j)
  <2>1. PICK q : q = k + j
    OBVIOUS
  <2>2. q \in 0..Len(s) /\ h[j] = g[q] /\ SecondAt(r, since, j) = SecondAt(s, since, q)
    BY <1>1, <1>5, <1>8, <2>1
  <2> QED BY <2>2 DEF MarkedBy
<1> QED BY <1>1, <1>6, <1>7, <1>9 DEF MarkedBy

LEMMA RateCounts == ASSUME SeenInv, RateInv, NEW e \in Kept, Counts(e) PROVE RateInv'
<1>1. PICK n, s, c, d : n = Len(seen) /\ s = rate.recent /\ c = rate.count /\ d = rate.since
  OBVIOUS
<1>2. /\ n \in Nat /\ Len(seen') = n + 1 /\ seen'[n + 1] = e
      /\ \A i \in 1..n : seen'[i] = seen[i]
  BY <1>1, OneMoreSeen
<1>3. s \in Seq(Seconds) /\ c \in Nat /\ d \in Nat /\ d <= clock /\ clock \in Nat /\ rate.peak \in Nat
  BY <1>1 DEF RateInv, SeenInv
<1>4. /\ rate'.recent = s /\ rate'.count = c + 1 /\ rate'.since = d
      /\ rate' \in [count : Nat, since : Nat, peak : Nat, recent : Seq(Seconds)]
  <2>1. rate' = [rate EXCEPT !.count = @ + 1]
    BY DEF Counts
  <2>2. rate \in [count : Nat, since : Nat, peak : Nat, recent : Seq(Seconds)]
    BY DEF RateInv
  <2> QED BY <1>1, <1>3, <2>1, <2>2
<1>5. clock' = clock /\ e.at = clock
  BY DEF Counts
<1>6. PICK g : MarkedBy(g, s, d, c)
  BY <1>1 DEF RateInv
<1>7. PICK r : r = Len(s)
  OBVIOUS
<1>8. r \in Nat /\ g \in [0..r -> Nat] /\ g[r] = n - c /\ r \in 0..r
  BY <1>1, <1>3, <1>6, <1>7 DEF MarkedBy
<1>9. \A j \in 0..r : g[j] <= n
  <2> DEFINE A == {j \in Nat : g[r - j] <= n}
  <2>1. 0 \in A
    BY <1>2, <1>3, <1>8
  <2>2. ASSUME NEW j \in 0..(r - 1), j \in A PROVE j + 1 \in A
    <3>1. PICK q : q = r - j
      OBVIOUS
    <3>2. q \in 1..r /\ r - (j + 1) = q - 1 /\ q \in 0..r /\ q - 1 \in 0..r /\ j + 1 \in Nat
      BY <1>8, <3>1
    <3>3. g[q] = g[q - 1] + s[q].count
      BY <1>6, <1>7, <3>2 DEF MarkedBy
    <3>4. s[q].count \in Nat
      <4>1. s[q] \in Seconds
        BY <1>3, <1>7, <3>2
      <4> QED BY <4>1 DEF Seconds
    <3>5. g[q] \in Nat /\ g[q - 1] \in Nat /\ g[q] <= n
      BY <1>8, <2>2, <3>1, <3>2
    <3>6. g[q - 1] <= n
      BY <1>2, <3>3, <3>4, <3>5
    <3> QED BY <3>2, <3>6
  <2> HIDE DEF A
  <2>3. \A j \in 0..r : j \in A
    BY <1>8, <2>1, <2>2, UpTo
  <2>4. ASSUME NEW j \in 0..r PROVE g[j] <= n
    <3>1. r - j \in 0..r /\ r - (r - j) = j
      BY <1>8
    <3>2. r - j \in A
      BY <2>3, <3>1
    <3> QED BY <3>1, <3>2 DEF A
  <2> QED BY <2>4
<1>10. \A j \in 1..r : s[j].at \in Nat /\ s[j].at <= clock
  <2>1. ASSUME NEW j \in 1..r PROVE s[j].at \in Nat
    <3>1. s[j] \in Seconds
      BY <1>3, <1>7
    <3> QED BY <3>1 DEF Seconds
  <2> QED BY <1>1, <1>7, <2>1 DEF RateInv
<1>11. ASSUME NEW j \in 0..r PROVE SecondAt(s, d, j) \in Nat /\ SecondAt(s, d, j) <= clock
  <2>1. CASE j = r
    BY <1>3, <1>7, <2>1 DEF SecondAt
  <2>2. CASE j # r
    <3>1. j + 1 \in 1..r
      BY <1>8, <2>2
    <3> QED BY <1>7, <1>10, <2>2, <3>1 DEF SecondAt
  <2> QED BY <2>1, <2>2
<1>12. ASSUME NEW j \in 0..r, NEW i \in 1..(n + 1)
       PROVE  /\ i <= g[j] => seen'[i].at <= SecondAt(s, d, j)
              /\ i > g[j] => seen'[i].at >= SecondAt(s, d, j)
  <2>1. CASE i = n + 1
    <3>1. ~(i <= g[j]) /\ seen'[i].at = clock
      <4>1. g[j] \in Nat /\ g[j] <= n
        BY <1>8, <1>9
      <4> QED BY <1>2, <1>5, <2>1, <4>1
    <3>2. SecondAt(s, d, j) \in Nat /\ SecondAt(s, d, j) <= clock
      BY <1>11
    <3> QED BY <1>3, <3>1, <3>2
  <2>2. CASE i \in 1..n
    <3>1. seen'[i] = seen[i]
      BY <1>2, <2>2
    <3> QED BY <1>1, <1>6, <1>7, <2>2, <3>1 DEF MarkedBy
  <2> QED BY <1>2, <2>1, <2>2
<1>13. MarkedBy(g, s, d, c + 1)'
  <2>1. Len(seen') - (c + 1) = n - c
    BY <1>2, <1>3
  <2>2. \A j \in 1..r : g[j] = g[j - 1] + s[j].count
    BY <1>6, <1>7 DEF MarkedBy
  <2> QED BY <1>2, <1>7, <1>8, <1>12, <2>1, <2>2 DEF MarkedBy, SecondAt
<1>14. \A j \in 1..Len(rate'.recent) : rate'.recent[j].at <= clock'
  BY <1>4, <1>5, <1>7, <1>10
<1> QED BY <1>3, <1>4, <1>5, <1>13, <1>14 DEF RateInv

LEMMA RateStores == ASSUME SeenInv, RateInv, StoreRate PROVE RateInv'
<1>1. PICK n, s, c, d, t :
        n = Len(seen) /\ s = rate.recent /\ c = rate.count /\ d = rate.since /\ t = clock
  OBVIOUS
<1>2. /\ n \in Nat /\ s \in Seq(Seconds) /\ c \in Nat /\ d \in Nat /\ t \in Nat /\ d <= t
      /\ \A i \in 1..n : seen[i].at \in Nat /\ seen[i].at <= t
  <2>1. \A i \in 1..n : seen[i] \in Kept
    BY <1>1 DEF SeenInv
  <2>2. \A i \in 1..n : seen[i].at \in Nat
    BY <2>1 DEF Kept
  <2> QED BY <1>1, <2>2 DEF RateInv, SeenInv
<1>3. PICK longer : longer = Append(s, [count |-> c, at |-> d])
  OBVIOUS
<1>4. PICK last : last = IF Len(longer) > RateWindow THEN Tail(longer) ELSE longer
  OBVIOUS
<1>5. PICK old : old = {i \in DOMAIN last : \A j \in 1..i : last[j].at < t - RateWindow}
  OBVIOUS
<1>6. PICK fresh : fresh = SubSeq(last, Cardinality(old) + 1, Len(last))
  OBVIOUS
<1>7. PICK p : p = IF c > rate.peak THEN c ELSE rate.peak
  OBVIOUS
<1>8. rate' = [count |-> 0, since |-> t, recent |-> fresh, peak |-> p]
  BY <1>1, <1>3, <1>4, <1>5, <1>6, <1>7 DEF StoreRate
<1>9. p \in Nat /\ seen' = seen /\ clock' = t
  BY <1>1, <1>2, <1>7 DEF RateInv, StoreRate
<1>10. PICK g : MarkedBy(g, s, d, c)
  BY <1>1 DEF RateInv
<1>11. PICK r : r = Len(s)
  OBVIOUS
<1>12. /\ r \in Nat /\ g \in [0..r -> Nat] /\ g[r] = n - c /\ r \in 0..r
       /\ \A j \in 1..r : g[j] = g[j - 1] + s[j].count
  BY <1>1, <1>2, <1>10, <1>11, SMTT(30) DEF MarkedBy
<1>13. /\ longer \in Seq(Seconds) /\ Len(longer) = r + 1
       /\ longer[r + 1] = [count |-> c, at |-> d] /\ \A j \in 1..r : longer[j] = s[j]
  <2>1. [count |-> c, at |-> d] \in Seconds
    BY <1>2 DEF Seconds
  <2> QED BY <1>2, <1>3, <1>11, <2>1, AppendProperties
<1>14. \A j \in 1..(r + 1) : longer[j].at <= t
  <2>1. \A j \in 1..r : s[j].at <= t
    BY <1>1, <1>11 DEF RateInv
  <2>2. ASSUME NEW j \in 1..(r + 1) PROVE longer[j].at <= t
    <3>1. CASE j = r + 1
      BY <1>2, <1>13, <3>1
    <3>2. CASE j \in 1..r
      BY <1>13, <2>1, <3>2
    <3> QED BY <1>12, <3>1, <3>2
  <2> QED BY <2>2
<1>15. PICK h : h = [j \in 0..(r + 1) |-> IF j = r + 1 THEN n ELSE g[j]]
  OBVIOUS
<1>16. h \in [0..(r + 1) -> Nat] /\ h[r + 1] = n /\ \A j \in 0..r : h[j] = g[j]
  BY <1>2, <1>12, <1>15
<1>17. MarkedBy(h, longer, t, 0)
  <2>1. n = n - 0
    BY <1>2
  <2>2. ASSUME NEW j \in 1..(r + 1) PROVE h[j] = h[j - 1] + longer[j].count
    <3>1. CASE j = r + 1
      <4>1. j - 1 = r /\ r \in 0..r
        BY <1>12, <3>1
      <4> QED BY <1>2, <1>12, <1>13, <1>16, <3>1, <4>1
    <3>2. CASE j \in 1..r
      <4>1. j \in 0..r /\ j - 1 \in 0..r
        BY <1>12, <3>2
      <4> QED BY <1>12, <1>13, <1>16, <3>2, <4>1
    <3> QED BY <1>12, <3>1, <3>2
  <2>3. ASSUME NEW j \in 0..(r + 1), NEW i \in 1..n
        PROVE  /\ i <= h[j] => seen[i].at <= SecondAt(longer, t, j)
               /\ i > h[j] => seen[i].at >= SecondAt(longer, t, j)
    <3>1. CASE j = r + 1
      <4>1. SecondAt(longer, t, j) = t
        BY <1>13, <3>1 DEF SecondAt
      <4>2. i <= h[j] /\ ~(i > h[j])
        BY <1>2, <1>16, <3>1
      <4> QED BY <1>2, <4>1, <4>2
    <3>2. CASE j \in 0..r
      <4>1. SecondAt(longer, t, j) = SecondAt(s, d, j)
        <5>1. j # r + 1
          BY <1>12, <3>2
        <5>2. CASE j = r
          BY <1>11, <1>13, <5>1, <5>2 DEF SecondAt
        <5>3. CASE j # r
          <6>1. j + 1 \in 1..r
            BY <1>12, <3>2, <5>3
          <6> QED BY <1>11, <1>13, <5>1, <5>3, <6>1 DEF SecondAt
        <5> QED BY <5>2, <5>3
      <4> QED BY <1>1, <1>10, <1>11, <1>16, <3>2, <4>1 DEF MarkedBy
    <3> QED BY <1>12, <3>1, <3>2
  <2> QED BY <1>1, <1>13, <1>16, <2>1, <2>2, <2>3 DEF MarkedBy
<1>18. /\ last \in Seq(Seconds) /\ \E k : MarkedBy(k, last, t, 0)
       /\ \A j \in 1..Len(last) : last[j].at <= t
  <2>1. CASE last = longer
    BY <1>13, <1>14, <1>17, <2>1
  <2>2. CASE last # longer
    <3>1. last = Tail(longer)
      BY <1>4, <2>2
    <3>2. /\ last \in Seq(Seconds) /\ Len(last) = (r + 1) - 1
          /\ \A i \in 1..((r + 1) - 1) : last[i] = longer[1 + i]
      <4>1. longer # <<>>
        BY <1>12, <1>13
      <4>2. last \in Seq(Seconds) /\ Len(last) = Len(longer) - 1
            /\ \A i \in 1..Len(last) : last[i] = longer[i + 1]
        BY <1>13, <3>1, <4>1, HeadTailProperties
      <4>3. \A i \in 1..Len(last) : i + 1 = 1 + i
        OBVIOUS
      <4> QED BY <1>13, <4>2, <4>3
    <3>3. 1 \in 0..Len(longer) /\ Len(last) = Len(longer) - 1
          /\ \A i \in 1..(Len(longer) - 1) : last[i] = longer[1 + i]
      BY <1>12, <1>13, <3>2
    <3>4. \E k : MarkedBy(k, last, t, 0)
      BY <1>13, <1>17, <3>2, <3>3, MarksOfRest
    <3>5. ASSUME NEW j \in 1..Len(last) PROVE last[j].at <= t
      <4>1. last[j] = longer[1 + j] /\ 1 + j \in 1..(r + 1)
        BY <1>12, <3>2
      <4> QED BY <1>14, <4>1
    <3> QED BY <3>2, <3>4, <3>5
  <2> QED BY <2>1, <2>2
<1>19. PICK m, q : m = Len(last) /\ q = Cardinality(old)
  OBVIOUS
<1>20. m \in Nat /\ q \in 0..m
  <2>1. m \in Nat /\ DOMAIN last = 1..m /\ old \subseteq 1..m
    BY <1>5, <1>18, <1>19
  <2>2. IsFiniteSet(1..m) /\ Cardinality(1..m) = m
    <3>1. 1 \in Int /\ m \in Int
      BY <2>1
    <3>2. IsFiniteSet(1..m) /\ Cardinality(1..m) = IF 1 > m THEN 0 ELSE m - 1 + 1
      BY <3>1, FS_Interval
    <3> QED BY <2>1, <3>2
  <2>3. IsFiniteSet(old) /\ Cardinality(old) <= Cardinality(1..m)
    BY <2>1, <2>2, FS_Subset
  <2>4. q \in Nat
    BY <1>19, <2>3, FS_CardinalityType
  <2> QED BY <1>19, <2>1, <2>2, <2>3, <2>4
<1>21. fresh \in Seq(Seconds) /\ Len(fresh) = m - q /\ \A i \in 1..(m - q) : fresh[i] = last[q + i]
  <2>1. PICK a : a = q + 1
    OBVIOUS
  <2>2. a \in Int /\ m \in Int /\ \A i \in a..m : i \in 1..m
    BY <1>20, <2>1
  <2>3. \A i \in a..m : last[i] \in Seconds
    BY <1>18, <1>19, <2>2
  <2>4. fresh = SubSeq(last, a, m)
    BY <1>6, <1>19, <2>1
  <2>5. /\ fresh \in Seq(Seconds) /\ Len(fresh) = (IF a <= m THEN m - a + 1 ELSE 0)
        /\ \A i \in 1..(m - a + 1) : fresh[i] = last[a + i - 1]
    BY <2>2, <2>3, <2>4, SubSeqProperties
  <2>6. m - a + 1 = m - q /\ (IF a <= m THEN m - a + 1 ELSE 0) = m - q
        /\ \A i \in 1..(m - q) : a + i - 1 = q + i
    BY <1>20, <2>1
  <2> QED BY <2>5, <2>6
<1>22. \E k : MarkedBy(k, fresh, t, 0)
  <2>1. PICK k : MarkedBy(k, last, t, 0)
    BY <1>18
  <2> QED BY <1>18, <1>19, <1>20, <1>21, <2>1, MarksOfRest
<1>23. (\E k : MarkedBy(k, fresh, t, 0))'
  BY <1>9, <1>22 DEF MarkedBy, SecondAt
<1>24. ASSUME NEW j \in 1..Len(fresh) PROVE fresh[j].at <= t
  <2>1. fresh[j] = last[q + j] /\ q + j \in 1..m
    BY <1>20, <1>21
  <2> QED BY <1>18, <1>19, <2>1
<1>25. /\ rate'.count = 0 /\ rate'.since = t /\ rate'.recent = fresh
       /\ rate' \in [count : Nat, since : Nat, peak : Nat, recent : Seq(Seconds)]
  BY <1>2, <1>8, <1>9, <1>21
<1>26. t <= t
  BY <1>2
<1> QED BY <1>9, <1>23, <1>24, <1>25, <1>26 DEF RateInv

LEMMA RateIsExact == SeenInv /\ RateInv => RateExact
<1> SUFFICES ASSUME SeenInv, RateInv PROVE RateExact
  OBVIOUS
<1>1. PICK n, s, c, d : n = Len(seen) /\ s = rate.recent /\ c = rate.count /\ d = rate.since
  OBVIOUS
<1>2. PICK g : MarkedBy(g, s, d, c)
  BY <1>1 DEF RateInv
<1>3. PICK r : r = Len(s)
  OBVIOUS
<1>4. n \in Nat /\ s \in Seq(Seconds) /\ c \in Nat /\ d \in Nat /\ r \in Nat /\ DOMAIN s = 1..r
  BY <1>1, <1>3 DEF SeenInv, RateInv
<1>5. /\ g \in [0..r -> Nat] /\ g[r] = n - c /\ r \in 0..r /\ 0 \in 0..r
      /\ \A j \in 1..r : g[j] = g[j - 1] + s[j].count
  BY <1>1, <1>2, <1>3, <1>4 DEF MarkedBy
<1>6. PICK v : v = [i \in 1..r |-> s[i].count]
  OBVIOUS
<1>7. v \in Seq(Int) /\ Len(v) = r /\ \A i \in 1..r : v[i] = s[i].count /\ s[i].count \in Nat
  <2>1. \A i \in 1..r : s[i] \in Seconds
    BY <1>3, <1>4
  <2>2. \A i \in 1..r : s[i].count \in Nat
    BY <2>1 DEF Seconds
  <2> QED BY <1>4, <1>6, <2>2
<1>8. PICK f : f = PartialSums(v)
  OBVIOUS
<1>9. AreSums(f, v, r)
  BY <1>7, <1>8, SumsAre
<1>10. \A j \in 0..r : g[j] = g[0] + f[j]
  <2> DEFINE A == {j \in Nat : g[j] = g[0] + f[j]}
  <2>1. 0 \in A
    BY <1>5, <1>9 DEF AreSums
  <2>2. ASSUME NEW j \in 0..(r - 1), j \in A PROVE j + 1 \in A
    <3>1. PICK q : q = j + 1
      OBVIOUS
    <3>2. q \in 1..r /\ q - 1 = j /\ j \in 0..r /\ q \in Nat /\ q \in 0..r
      BY <1>4, <3>1
    <3>3. g[q] = g[j] + s[q].count /\ f[q] = f[j] + s[q].count
      <4>1. g[q] = g[q - 1] + s[q].count /\ f[q] = f[q - 1] + v[q] /\ v[q] = s[q].count
        BY <1>5, <1>7, <1>9, <3>2 DEF AreSums
      <4> QED BY <3>2, <4>1
    <3>4. f[j] \in Int /\ g[0] \in Int /\ s[q].count \in Int
      <4>1. f \in [0..r -> Int]
        BY <1>9 DEF AreSums
      <4>2. f[j] \in Int
        BY <3>2, <4>1
      <4>3. g[0] \in Int
        BY <1>5
      <4>4. s[q].count \in Int
        BY <1>7, <3>2
      <4> QED BY <4>2, <4>3, <4>4
    <3>5. g[q] = g[0] + f[q]
      BY <2>2, <3>3, <3>4
    <3> QED BY <3>1, <3>2, <3>5
  <2> HIDE DEF A
  <2>3. \A j \in 0..r : j \in A
    BY <1>4, <2>1, <2>2, UpTo
  <2> QED BY <2>3 DEF A
<1>11. PICK a : a = g[0]
  OBVIOUS
<1>12. a \in Nat /\ f[r] \in Int /\ n - c = a + f[r]
  BY <1>5, <1>9, <1>10, <1>11 DEF AreSums
<1>13. f[r] \in Nat
  <2>1. v \in Seq(Nat) /\ r \in 0..Len(v) /\ 0 \in 0..r
    BY <1>4, <1>6, <1>7
  <2> QED BY <1>8, <2>1, SumsGrow
<1>14. PICK sum, from : sum = c + f[r] /\ from = IF s = <<>> THEN d ELSE Head(s).at
  OBVIOUS
<1>15. sum = n - a /\ sum \in Nat
  BY <1>4, <1>12, <1>13, <1>14
<1>16. from = SecondAt(s, d, 0)
  <2>1. CASE r = 0
    <3>1. s = <<>>
      BY <1>3, <1>4, <2>1
    <3> QED BY <1>3, <1>14, <2>1, <3>1 DEF SecondAt
  <2>2. CASE r # 0
    <3>1. s # <<>> /\ Head(s) = s[1] /\ 0 + 1 = 1
      BY <1>3, <1>4, <2>2
    <3> QED BY <1>3, <1>14, <2>2, <3>1 DEF SecondAt
  <2> QED BY <2>1, <2>2
<1>17. \A i \in 1..n : (i <= a => seen[i].at <= from) /\ (i > a => seen[i].at >= from)
  BY <1>1, <1>2, <1>3, <1>5, <1>11, <1>16 DEF MarkedBy
<1>18. from \in Nat /\ \A i \in 1..n : seen[i].at \in Nat
  <2>1. \A i \in 1..n : seen[i] \in Kept
    BY <1>1 DEF SeenInv
  <2>2. s # <<>> => Head(s) \in Seconds
    BY <1>4
  <2>3. from \in Nat
    BY <1>4, <1>14, <2>2 DEF Seconds
  <2> QED BY <2>1, <2>3 DEF Kept
<1>19. PICK M, L, H : /\ M = (a + 1)..n
                      /\ L = {i \in 1..n : seen[i].at > from} /\ H = {i \in 1..n : seen[i].at >= from}
  OBVIOUS
<1>20. IsFiniteSet(M) /\ Cardinality(M) = sum /\ IsFiniteSet(H)
  <2>1. PICK b : b = a + 1
    OBVIOUS
  <2>2. b \in Int /\ n \in Int /\ 1 \in Int
    BY <1>4, <1>12, <2>1
  <2>3. IsFiniteSet(b..n) /\ Cardinality(b..n) = IF b > n THEN 0 ELSE n - b + 1
    BY <2>2, FS_Interval
  <2>4. (IF b > n THEN 0 ELSE n - b + 1) = sum
    BY <1>4, <1>12, <1>15, <2>1
  <2>5. IsFiniteSet(1..n) /\ H \subseteq 1..n
    BY <1>19, <2>2, FS_Interval
  <2>6. IsFiniteSet(H)
    BY <2>5, FS_Subset
  <2> QED BY <1>19, <2>1, <2>3, <2>4, <2>6
<1>21. L \subseteq M /\ M \subseteq H
  <2>1. ASSUME NEW i \in L PROVE i \in M
    <3>1. i \in 1..n /\ seen[i].at > from
      BY <1>19
    <3>2. ~(i <= a)
      BY <1>17, <1>18, <3>1
    <3> QED BY <1>4, <1>12, <1>19, <3>1, <3>2
  <2>2. ASSUME NEW i \in M PROVE i \in H
    <3>1. i \in 1..n /\ i > a
      BY <1>4, <1>12, <1>19
    <3> QED BY <1>17, <1>19, <3>1
  <2> QED BY <2>1, <2>2
<1>22. Cardinality(L) <= sum /\ sum <= Cardinality(H)
  BY <1>20, <1>21, FS_Subset
<1>23. IsFiniteSet(L)
  BY <1>20, <1>21, FS_Subset
<1>24. HowMany(LAMBDA e : e.at >= from) = Cardinality(H)
  BY <1>1, <1>19 DEF HowMany, HowManyAfter
<1>25. HowMany(LAMBDA e : e.at > from) = Cardinality(L)
  BY <1>1, <1>19 DEF HowMany, HowManyAfter
<1>26. sum = rate.count + SeqSum([i \in DOMAIN rate.recent |-> rate.recent[i].count])
  <2>1. [i \in DOMAIN rate.recent |-> rate.recent[i].count] = v
    BY <1>1, <1>4, <1>6
  <2>2. SeqSum(v) = f[r]
    BY <1>7, <1>8 DEF SeqSum
  <2> QED BY <1>1, <1>14, <2>1, <2>2
<1>27. Cardinality(L) \in Nat /\ Cardinality(H) \in Nat
  BY <1>20, <1>23, FS_CardinalityType
<1>28. sum >= Cardinality(L)
  BY <1>15, <1>22, <1>27
<1> QED BY <1>1, <1>14, <1>22, <1>24, <1>25, <1>26, <1>28 DEF RateExact

(* The services.  A list has each service once.                             *)
ServicesOf == {ServiceOf(kind.attrs) : kind \in Kinds}
Items == [service : ServicesOf, count : Nat \ {0}]

EachOnce(list) == \A i, j \in 1..Len(list) : list[i].service = list[j].service => i = j
Listed(list, x) == \E j \in 1..Len(list) : list[j].service = x

LEMMA ItemTyped == ASSUME NEW i \in Items PROVE i.service \in ServicesOf /\ i.count \in Nat /\ i.count >= 1
BY DEF Items

(* What ListService returns for one more entry of the service x: a list     *)
(* that is full has no place for a service it does not have.                *)
ListMoved(list, x, r) ==
  /\ r \in Seq(Items) /\ Len(r) <= TopServices /\ EachOnce(r)
  /\ \A i \in 1..Len(r) :
       IF r[i].service = x
       THEN IF Listed(list, x)
            THEN \E j \in 1..Len(list) : list[j].service = x /\ r[i].count = list[j].count + 1
            ELSE r[i].count = 1 /\ Len(list) < TopServices
       ELSE \E j \in 1..Len(list) : r[i] = list[j]
  /\ Len(r) < TopServices =>
       Len(list) < TopServices /\ Listed(r, x) /\ \A j \in 1..Len(list) : Listed(r, list[j].service)

(* Where the item is and what is behind it change places.                   *)
ChangePlaces(s, a, b) == [s EXCEPT ![a] = s[b], ![b] = s[a]]
AllIn(r, s) == \A i \in 1..Len(r) : \E j \in 1..Len(s) : r[i] = s[j]

LEMMA PlacesChanged ==
  ASSUME NEW s \in Seq(Items), EachOnce(s), NEW a \in 1..Len(s), NEW b \in 1..Len(s), NEW r,
         r = ChangePlaces(s, a, b)
  PROVE  r \in Seq(Items) /\ Len(r) = Len(s) /\ EachOnce(r) /\ AllIn(r, s) /\ AllIn(s, r)
<1>1. PICK n : n = Len(s)
  OBVIOUS
<1>2. n \in Nat /\ DOMAIN s = 1..n /\ s \in [1..n -> Items] /\ a \in 1..n /\ b \in 1..n
  BY <1>1
<1>4. r = [s EXCEPT ![a] = s[b], ![b] = s[a]]
  BY DEF ChangePlaces
<1>5. QED
  <2>1. /\ DOMAIN r = 1..n /\ r[b] = s[a] /\ r[a] = s[b]
        /\ \A i \in 1..n : i # a /\ i # b => r[i] = s[i]
    BY <1>2, <1>4
  <2>2. r \in [1..n -> Items]
    BY <1>2, <1>4
  <2>3. r \in Seq(Items) /\ Len(r) = n
    BY <1>2, <2>2
  <2>4. PICK p : p = [i \in 1..n |-> IF i = a THEN b ELSE IF i = b THEN a ELSE i]
    OBVIOUS
  <2>5. \A i \in 1..n : p[i] \in 1..n /\ r[i] = s[p[i]] /\ p[p[i]] = i
    BY <1>2, <2>1, <2>4
  <2>6. \A i, j \in 1..n : p[i] = p[j] => i = j
    BY <2>5
  <2>7. ASSUME NEW i \in 1..n, NEW j \in 1..n, r[i].service = r[j].service PROVE i = j
    <3>1. p[i] \in 1..n /\ p[j] \in 1..n /\ s[p[i]].service = s[p[j]].service
      BY <2>5, <2>7
    <3>2. p[i] = p[j]
      BY <1>1, <3>1 DEF EachOnce
    <3> QED BY <2>6, <3>2
  <2>8. EachOnce(r)
    BY <2>3, <2>7 DEF EachOnce
  <2>9. \A j \in 1..n : p[j] \in 1..n /\ r[p[j]] = s[j]
    BY <2>5
  <2>10. AllIn(r, s)
    BY <1>1, <2>3, <2>5 DEF AllIn
  <2>11. AllIn(s, r)
    BY <1>1, <2>3, <2>9 DEF AllIn
  <2> QED BY <1>1, <2>3, <2>8, <2>10, <2>11

LEMMA LeastIndex == ASSUME NEW n \in Nat, NEW S, S \subseteq 1..n, S # {} PROVE Min(S) \in S
<1>1. S \subseteq Nat
  OBVIOUS
<1> QED BY <1>1, LeastNumber DEF Min

LEMMA BehindInList ==
  ASSUME NEW list \in Seq(Items), NEW c \in Nat, NEW b, b = SelectInSeq(list, LAMBDA s : s.count < c)
  PROVE  b \in 0..Len(list) /\ (b # 0 => list[b].count < c)
<1>1. PICK A : A = {i \in 1..Len(list) : list[i].count < c}
  OBVIOUS
<1>2. b = IF A # {} THEN Min(A) ELSE 0
  BY <1>1 DEF SelectInSeq
<1>3. CASE A = {}
  BY <1>2, <1>3
<1>4. CASE A # {}
  <2>1. b \in A
    <3>1. Len(list) \in Nat /\ A \subseteq 1..Len(list)
      BY <1>1
    <3> QED BY <1>2, <1>4, <3>1, LeastIndex
  <2>2. b \in 1..Len(list) /\ list[b].count < c
    BY <1>1, <2>1
  <2> QED BY <2>2
<1> QED BY <1>3, <1>4

LEMMA ServiceListed ==
  ASSUME NEW list \in Seq(Items), Len(list) <= TopServices, EachOnce(list), NEW x \in ServicesOf
  PROVE  ListMoved(list, x, ListService(list, x))
<1>1. PICK n : n = Len(list)
  OBVIOUS
<1>0. PICK k : k = SelectInSeq(list, LAMBDA s : s.service = x)
  OBVIOUS
<1>2. n \in Nat /\ n <= TopServices /\ TopServices \in Nat \ {0} /\ \A i \in 1..n : list[i] \in Items
  BY <1>1, StatisticsAssumption
<1>3. /\ Listed(list, x) => k \in 1..n /\ list[k].service = x
      /\ ~Listed(list, x) => k = 0
  <2>1. PICK A : A = {i \in 1..n : list[i].service = x}
    OBVIOUS
  <2>2. k = IF A # {} THEN Min(A) ELSE 0
    BY <1>0, <1>1, <2>1 DEF SelectInSeq
  <2>3. Listed(list, x) <=> A # {}
    BY <1>1, <2>1 DEF Listed
  <2>4. A # {} => k \in A
    BY <1>2, <2>1, <2>2, LeastIndex
  <2> QED BY <2>1, <2>2, <2>3, <2>4
<1>4. PICK p, c : /\ p = IF k = 0 THEN n + 1 ELSE k
                  /\ c = IF k = 0 THEN 1 ELSE list[k].count + 1
  OBVIOUS
<1>5. c \in Nat /\ c >= 1
  BY <1>2, <1>3, <1>4, ItemTyped
<1>6. PICK b : b = SelectInSeq(list, LAMBDA s : s.count < c)
  OBVIOUS
<1>7. b \in 0..n /\ (b # 0 => list[b].count < c)
  BY <1>1, <1>5, <1>6, BehindInList
<1>8. PICK item : item = [service |-> x, count |-> c]
  OBVIOUS
<1>9. item \in Items /\ item.service = x /\ item.count = c
  BY <1>5, <1>8 DEF Items
<1>10. PICK longer : longer = IF k = 0 THEN Append(list, item) ELSE [list EXCEPT ![k] = item]
  OBVIOUS
<1>11. PICK sorted : sorted = IF b \in 1..(p - 1)
                              THEN [longer EXCEPT ![b] = item, ![p] = longer[b]] ELSE longer
  OBVIOUS
<1>12. PICK r : r = SubSeq(sorted, 1, AtMostOf(TopServices, Len(sorted)))
  OBVIOUS
<1>13. ListService(list, x) = r
  BY <1>0, <1>1, <1>4, <1>6, <1>8, <1>10, <1>11, <1>12, SMTT(60) DEF ListService
<1>14. PICK m : m = Len(longer)
  OBVIOUS
<1>15. /\ longer \in Seq(Items) /\ m = (IF k = 0 THEN n + 1 ELSE n) /\ m \in Nat /\ p \in 1..m
       /\ longer[p] = item /\ \A i \in 1..m : i # p => i \in 1..n /\ longer[i] = list[i]
       /\ \A i \in 1..n : i # p => i \in 1..m
  <2>1. CASE k = 0
    <3>1. longer = Append(list, item) /\ p = n + 1
      BY <1>4, <1>10, <2>1
    <3>2. /\ longer \in Seq(Items) /\ Len(longer) = n + 1 /\ longer[n + 1] = item
          /\ \A i \in 1..n : longer[i] = list[i]
      BY <1>1, <1>9, <3>1, AppendProperties
    <3> QED BY <1>2, <1>14, <2>1, <3>1, <3>2
  <2>2. CASE k # 0
    <3>1. longer = [list EXCEPT ![k] = item] /\ p = k /\ k \in 1..n
      BY <1>3, <1>4, <1>10, <2>2
    <3>2. list \in [1..n -> Items]
      BY <1>1
    <3>3. longer \in [1..n -> Items] /\ longer[k] = item /\ \A i \in 1..n : i # k => longer[i] = list[i]
      BY <1>9, <3>1, <3>2
    <3>4. longer \in Seq(Items) /\ Len(longer) = n
      BY <1>2, <3>3
    <3> QED BY <1>2, <1>14, <2>2, <3>1, <3>3, <3>4
  <2> QED BY <2>1, <2>2
<1>16. \A i \in 1..n : list[i].service = x => i = k /\ i = p
  <2> SUFFICES ASSUME NEW i \in 1..n, list[i].service = x PROVE i = k /\ i = p
    OBVIOUS
  <2>1. Listed(list, x)
    BY <1>1 DEF Listed
  <2>2. k \in 1..n /\ list[k].service = x
    BY <1>3, <2>1
  <2>3. i = k
    BY <1>1, <2>2 DEF EachOnce
  <2> QED BY <1>4, <2>2, <2>3
<1>17. EachOnce(longer)
  <2> SUFFICES ASSUME NEW i \in 1..m, NEW j \in 1..m, longer[i].service = longer[j].service PROVE i = j
    BY <1>14 DEF EachOnce
  <2>1. CASE i = p
    <3>1. ASSUME j # p PROVE FALSE
      <4>1. j \in 1..n /\ list[j].service = x
        BY <1>9, <1>15, <2>1, <3>1
      <4> QED BY <1>16, <3>1, <4>1
    <3> QED BY <2>1, <3>1
  <2>2. CASE i # p /\ j = p
    <3>1. i \in 1..n /\ list[i].service = x
      BY <1>9, <1>15, <2>2
    <3> QED BY <1>16, <2>2, <3>1
  <2>3. CASE i # p /\ j # p
    <3>1. i \in 1..n /\ j \in 1..n /\ list[i].service = list[j].service
      BY <1>15, <2>3
    <3> QED BY <1>1, <3>1 DEF EachOnce
  <2> QED BY <2>1, <2>2, <2>3
<1>18. /\ sorted \in Seq(Items) /\ Len(sorted) = m /\ EachOnce(sorted)
       /\ \A i \in 1..m : \E j \in 1..m : sorted[i] = longer[j]
       /\ \A j \in 1..m : \E i \in 1..m : sorted[i] = longer[j]
  <2>1. CASE b \in 1..(p - 1)
    <3>1. b \in 1..m /\ p \in 1..m
      BY <1>15, <2>1
    <3>2. sorted = ChangePlaces(longer, b, p)
      BY <1>11, <1>15, <2>1 DEF ChangePlaces
    <3>3. longer \in Seq(Items) /\ b \in 1..Len(longer) /\ p \in 1..Len(longer)
      BY <1>14, <1>15, <3>1
    <3>4. /\ sorted \in Seq(Items) /\ Len(sorted) = Len(longer) /\ EachOnce(sorted)
          /\ AllIn(sorted, longer) /\ AllIn(longer, sorted)
      BY <1>17, <3>2, <3>3, PlacesChanged
    <3>5. \A i \in 1..m : \E j \in 1..m : sorted[i] = longer[j]
      BY <1>14, <3>4 DEF AllIn
    <3>6. \A j \in 1..m : \E i \in 1..m : sorted[i] = longer[j]
      <4>1. \A j \in 1..m : \E i \in 1..m : longer[j] = sorted[i]
        BY <1>14, <3>4 DEF AllIn
      <4> QED BY <4>1
    <3> QED BY <1>14, <3>4, <3>5, <3>6
  <2>2. CASE b \notin 1..(p - 1)
    BY <1>11, <1>14, <1>15, <1>17, <2>2
  <2> QED BY <2>1, <2>2
<1>19. CASE m <= TopServices
  <2>1. r = sorted
    <3>1. AtMostOf(TopServices, m) = m
      <4>1. m \in Nat
        BY <1>15
      <4>2. ~(m < TopServices) => TopServices = m
        BY <1>2, <1>19, <4>1
      <4> QED BY <4>2 DEF AtMostOf
    <3>2. r = SubSeq(sorted, 1, m)
      BY <1>12, <1>18, <3>1
    <3>3. \A i \in 1..m : sorted[i] \in Items
      BY <1>18
    <3>4. /\ r \in Seq(Items) /\ Len(r) = (IF 1 <= m THEN m - 1 + 1 ELSE 0)
          /\ \A i \in 1..(m - 1 + 1) : r[i] = sorted[1 + i - 1]
      BY <1>15, <3>2, <3>3, SubSeqProperties
    <3>5. Len(r) = m /\ m - 1 + 1 = m
      BY <1>15, <3>4
    <3>6. \A i \in 1..m : r[i] = sorted[i]
      <4> SUFFICES ASSUME NEW i \in 1..m PROVE r[i] = sorted[i]
        OBVIOUS
      <4>1. 1 + i - 1 = i /\ i \in 1..(m - 1 + 1)
        BY <1>15
      <4> QED BY <3>4, <4>1
    <3> QED BY <1>18, <3>4, <3>5, <3>6, SeqEqual
  <2>2. ASSUME NEW i \in 1..m, r[i].service = x
        PROVE  IF Listed(list, x)
               THEN \E j \in 1..n : list[j].service = x /\ r[i].count = list[j].count + 1
               ELSE r[i].count = 1 /\ n < TopServices
    <3>1. PICK j \in 1..m : r[i] = longer[j]
      BY <1>18, <2>1
    <3>2. j = p
      BY <1>15, <1>16, <2>2, <3>1
    <3>3. r[i].count = c
      BY <1>9, <1>15, <3>1, <3>2
    <3>4. CASE Listed(list, x)
      <4>1. k \in 1..n /\ list[k].service = x /\ c = list[k].count + 1
        BY <1>3, <1>4, <3>4
      <4> QED BY <3>3, <3>4, <4>1
    <3>5. CASE ~Listed(list, x)
      <4>1. k = 0 /\ c = 1 /\ m = n + 1
        BY <1>3, <1>4, <1>15, <3>5
      <4>2. n < TopServices
        BY <1>2, <1>19, <4>1
      <4> QED BY <3>3, <3>5, <4>1, <4>2
    <3> QED BY <3>4, <3>5
  <2>3. ASSUME NEW i \in 1..m, r[i].service # x PROVE \E j \in 1..n : r[i] = list[j]
    <3>1. PICK j \in 1..m : r[i] = longer[j]
      BY <1>18, <2>1
    <3>2. j # p
      BY <1>9, <1>15, <2>3, <3>1
    <3> QED BY <1>15, <3>1, <3>2
  <2>4. Listed(r, x)
    <3>1. PICK i \in 1..m : r[i] = longer[p]
      BY <1>15, <1>18, <2>1
    <3>2. r[i].service = x
      BY <1>9, <1>15, <3>1
    <3> QED BY <1>18, <2>1, <3>2 DEF Listed
  <2>5. ASSUME NEW j \in 1..n PROVE Listed(r, list[j].service)
    <3>1. CASE j = p
      <4>1. list[j].service = x
        <5>1. k # 0
          BY <1>2, <1>4, <3>1
        <5>2. k \in 1..n /\ list[k].service = x /\ p = k
          BY <1>3, <1>4, <5>1
        <5> QED BY <3>1, <5>2
      <4> QED BY <2>4, <4>1
    <3>2. CASE j # p
      <4>1. j \in 1..m /\ longer[j] = list[j]
        BY <1>15, <3>2
      <4>2. PICK i \in 1..m : r[i] = longer[j]
        BY <1>18, <2>1, <4>1
      <4>3. r[i].service = list[j].service /\ i \in 1..Len(r)
        BY <1>18, <2>1, <4>1, <4>2
      <4> QED BY <4>3 DEF Listed
    <3> QED BY <3>1, <3>2
  <2>6. n <= m
    BY <1>2, <1>15
  <2>7. m < TopServices => n < TopServices
    BY <1>2, <1>15, <2>6
  <2>8. r \in Seq(Items) /\ Len(r) = m /\ EachOnce(r)
    BY <1>18, <2>1
  <2>9. ListMoved(list, x, r)
    <3>1. ASSUME NEW i \in 1..m
          PROVE  IF r[i].service = x
                 THEN IF Listed(list, x)
                      THEN \E j \in 1..n : list[j].service = x /\ r[i].count = list[j].count + 1
                      ELSE r[i].count = 1 /\ n < TopServices
                 ELSE \E j \in 1..n : r[i] = list[j]
      BY <2>2, <2>3
    <3> QED BY <1>1, <1>19, <2>4, <2>5, <2>7, <2>8, <3>1 DEF ListMoved
  <2> QED BY <1>13, <2>9
<1>20. CASE ~(m <= TopServices)
  <2>1. k = 0 /\ m = n + 1 /\ n = TopServices /\ c = 1
    BY <1>2, <1>4, <1>15, <1>20
  <2>2. ~Listed(list, x)
    BY <1>3, <2>1
  <2>3. b = 0
    <3>1. ASSUME b # 0 PROVE FALSE
      <4>1. b \in 1..n /\ list[b].count < 1
        BY <1>2, <1>7, <2>1, <3>1
      <4>2. list[b].count \in Nat /\ list[b].count >= 1
        BY <1>2, <4>1, ItemTyped
      <4> QED BY <4>1, <4>2
    <3> QED BY <3>1
  <2>4. sorted = longer
    BY <1>2, <1>11, <1>15, <2>3
  <2>5. r = list
    <3>1. AtMostOf(TopServices, m) = n
      BY <1>2, <2>1 DEF AtMostOf
    <3>2. r = SubSeq(longer, 1, n)
      BY <1>12, <1>14, <2>4, <3>1
    <3>3. \A i \in 1..n : longer[i] = list[i]
      <4> SUFFICES ASSUME NEW i \in 1..n PROVE longer[i] = list[i]
        OBVIOUS
      <4>1. i # p /\ i \in 1..m
        BY <1>2, <1>4, <2>1
      <4> QED BY <1>15, <4>1
    <3>4. \A i \in 1..n : longer[i] \in Items
      BY <1>2, <3>3
    <3>5. /\ r \in Seq(Items) /\ Len(r) = (IF 1 <= n THEN n - 1 + 1 ELSE 0)
          /\ \A i \in 1..(n - 1 + 1) : r[i] = longer[1 + i - 1]
      BY <1>2, <3>2, <3>4, SubSeqProperties
    <3>6. Len(r) = n /\ n - 1 + 1 = n
      BY <1>2, <3>5
    <3>7. \A i \in 1..n : r[i] = list[i]
      <4> SUFFICES ASSUME NEW i \in 1..n PROVE r[i] = list[i]
        OBVIOUS
      <4>1. 1 + i - 1 = i /\ i \in 1..(n - 1 + 1)
        BY <1>2
      <4> QED BY <3>3, <3>5, <4>1
    <3> QED BY <1>1, <3>5, <3>6, <3>7, SeqEqual
  <2>6. \A i \in 1..n : list[i].service # x
    BY <1>1, <2>2 DEF Listed
  <2>7. ~(n < TopServices)
    BY <1>2, <2>1
  <2> QED BY <1>1, <1>13, <2>5, <2>6, <2>7 DEF ListMoved
<1>21. m <= TopServices \/ ~(m <= TopServices)
  OBVIOUS
<1> QED BY <1>19, <1>20, <1>21

Named(x) == x.name # ""

OfService(l, x) == {i \in 1..Len(seen) : seen[i].level = l /\ ServiceOf(seen[i].attrs) = x}

ListOf(l) == IF l \in DOMAIN services THEN services[l] ELSE <<>>

ListOk(l, list) ==
  /\ list \in Seq(Items) /\ Len(list) <= TopServices /\ EachOnce(list)
  /\ \A j \in 1..Len(list) :
       Named(list[j].service) /\ list[j].count = Cardinality(OfService(l, list[j].service))
  /\ Len(list) < TopServices =>
       \A i \in 1..Len(seen) :
         seen[i].level = l /\ Named(ServiceOf(seen[i].attrs)) => Listed(list, ServiceOf(seen[i].attrs))

ServicesInv == \A l : ListOk(l, ListOf(l))

LEMMA ServiceCounted ==
  ASSUME SeenInv, NEW e \in Kept, Counts(e), NEW l, NEW x
  PROVE  /\ Cardinality(OfService(l, x)) \in Nat
         /\ e.level = l /\ ServiceOf(e.attrs) = x =>
              Cardinality(OfService(l, x)') = Cardinality(OfService(l, x)) + 1
         /\ ~(e.level = l /\ ServiceOf(e.attrs) = x) =>
              Cardinality(OfService(l, x)') = Cardinality(OfService(l, x))
<1>1. PICK n, A, B, b : /\ n = Len(seen) /\ A = OfService(l, x) /\ B = OfService(l, x)'
                        /\ b = (e.level = l /\ ServiceOf(e.attrs) = x)
  OBVIOUS
<1>2. /\ n \in Nat /\ Len(seen') = n + 1 /\ seen'[n + 1] = e
      /\ \A i \in 1..n : seen'[i] = seen[i]
  BY <1>1, OneMoreSeen
<1>3. A = {i \in 1..n : seen[i].level = l /\ ServiceOf(seen[i].attrs) = x}
  BY <1>1 DEF OfService
<1>4. B = {i \in 1..(n + 1) : seen'[i].level = l /\ ServiceOf(seen'[i].attrs) = x}
  BY <1>1, <1>2 DEF OfService, ServiceOf
<1>5. \A i : i \in 1..(n + 1) <=> i \in 1..n \/ i = n + 1
  BY <1>2
<1>6. \A i : i \in B <=> i \in A \/ (i = n + 1 /\ b)
  BY <1>1, <1>2, <1>3, <1>4, <1>5
<1>7. A \in SUBSET ((0 + 1)..n) /\ B = IF b THEN A \union {n + 1} ELSE A
  BY <1>1, <1>3, <1>6
<1>8. b \in BOOLEAN /\ 0 \in 0..n
  BY <1>1, <1>2
<1>9. Cardinality(A) \in Nat /\ Cardinality(B) = Cardinality(A) + (IF b THEN 1 ELSE 0)
  BY <1>2, <1>7, <1>8, OneMoreCounted
<1>10. (b => Cardinality(B) = Cardinality(A) + 1) /\ (~b => Cardinality(B) = Cardinality(A))
  BY <1>9
<1>11. b <=> e.level = l /\ ServiceOf(e.attrs) = x
  BY <1>1
<1> QED BY <1>1, <1>9, <1>10, <1>11

LEMMA ServiceKnown == ASSUME NEW e \in Kept PROVE ServiceOf(e.attrs) \in ServicesOf
<1>1. PICK kind \in Kinds : e.attrs = kind.attrs
  BY DEF Kept
<1> QED BY <1>1 DEF ServicesOf

(* The list of a severity of which no service got an entry.                 *)
LEMMA ListKeeps ==
  ASSUME SeenInv, NEW e \in Kept, Counts(e), NEW l, NEW list, ListOk(l, list),
         e.level # l \/ ~Named(ServiceOf(e.attrs))
  PROVE  ListOk(l, list)'
<1>1. PICK n, x : n = Len(seen) /\ x = ServiceOf(e.attrs)
  OBVIOUS
<1>2. /\ n \in Nat /\ Len(seen') = n + 1 /\ seen'[n + 1] = e
      /\ \A i \in 1..n : seen'[i] = seen[i]
  BY <1>1, OneMoreSeen
<1>3. ASSUME NEW j \in 1..Len(list)
      PROVE  list[j].count = Cardinality(OfService(l, list[j].service)')
  <2>1. PICK y : y = list[j].service
    OBVIOUS
  <2>2. ~(e.level = l /\ ServiceOf(e.attrs) = y) /\ list[j].count = Cardinality(OfService(l, y))
    BY <2>1 DEF ListOk
  <2>3. Cardinality(OfService(l, y)') = Cardinality(OfService(l, y))
    BY <2>2, ServiceCounted
  <2>4. OfService(l, list[j].service)' = OfService(l, y)'
    BY <2>1 DEF OfService
  <2> QED BY <2>2, <2>3, <2>4
<1>4. ASSUME Len(list) < TopServices, NEW i \in 1..Len(seen'), seen'[i].level = l,
             Named(ServiceOf(seen'[i].attrs))
      PROVE  Listed(list, ServiceOf(seen'[i].attrs))
  <2>1. i # n + 1
    BY <1>2, <1>4
  <2>2. i \in 1..n
    <3>1. n \in Nat /\ i \in 1..(n + 1)
      BY <1>2, <1>4
    <3> QED BY <2>1, <3>1
  <2>3. seen'[i] = seen[i]
    BY <1>2, <2>2
  <2> QED BY <1>1, <1>4, <2>2, <2>3 DEF ListOk
<1>5. \A j \in 1..Len(list) : Named(list[j].service)
  BY DEF ListOk
<1>6. list \in Seq(Items) /\ Len(list) <= TopServices /\ EachOnce(list)
  BY DEF ListOk
<1>7. (\A j \in 1..Len(list) :
         Named(list[j].service) /\ list[j].count = Cardinality(OfService(l, list[j].service)))'
  BY <1>3, <1>5
<1>8. (Len(list) < TopServices =>
         \A i \in 1..Len(seen) :
           seen[i].level = l /\ Named(ServiceOf(seen[i].attrs)) => Listed(list, ServiceOf(seen[i].attrs)))'
  <2>1. (\A i \in 1..Len(seen) :
           seen[i].level = l /\ Named(ServiceOf(seen[i].attrs)) => Listed(list, ServiceOf(seen[i].attrs)))'
        <=> \A i \in 1..Len(seen') :
             seen'[i].level = l /\ Named(ServiceOf(seen'[i].attrs)) => Listed(list, ServiceOf(seen'[i].attrs))
    BY DEF ServiceOf, Listed
  <2> QED BY <1>4, <2>1
<1> QED BY <1>6, <1>7, <1>8 DEF ListOk, EachOnce

(* The list of the service that got one.                                    *)
LEMMA ListGrows ==
  ASSUME SeenInv, NEW e \in Kept, Counts(e), NEW list, ListOk(e.level, list),
         Named(ServiceOf(e.attrs))
  PROVE  ListOk(e.level, ListService(list, ServiceOf(e.attrs)))'
<1>1. PICK n, x, l : n = Len(seen) /\ x = ServiceOf(e.attrs) /\ l = e.level
  OBVIOUS
<1>2. /\ n \in Nat /\ Len(seen') = n + 1 /\ seen'[n + 1] = e
      /\ \A i \in 1..n : seen'[i] = seen[i]
  BY <1>1, OneMoreSeen
<1>3. PICK r : r = ListService(list, x)
  OBVIOUS
<1>4. list \in Seq(Items) /\ Len(list) <= TopServices /\ EachOnce(list) /\ x \in ServicesOf
  BY <1>1, ServiceKnown DEF ListOk
<1>5. ListMoved(list, x, r)
  BY <1>3, <1>4, ServiceListed
<1>6. /\ r \in Seq(Items) /\ Len(r) <= TopServices /\ EachOnce(r)
      /\ \A i \in 1..Len(r) :
           IF r[i].service = x
           THEN IF Listed(list, x)
                THEN \E j \in 1..Len(list) : list[j].service = x /\ r[i].count = list[j].count + 1
                ELSE r[i].count = 1 /\ Len(list) < TopServices
           ELSE \E j \in 1..Len(list) : r[i] = list[j]
      /\ Len(r) < TopServices =>
           Len(list) < TopServices /\ Listed(r, x) /\ \A j \in 1..Len(list) : Listed(r, list[j].service)
  BY <1>5 DEF ListMoved
<1>7. \A j \in 1..Len(list) :
        Named(list[j].service) /\ list[j].count = Cardinality(OfService(l, list[j].service))
  BY <1>1 DEF ListOk
<1>8. Len(list) < TopServices =>
        \A i \in 1..n : seen[i].level = l /\ Named(ServiceOf(seen[i].attrs))
                          => Listed(list, ServiceOf(seen[i].attrs))
  BY <1>1 DEF ListOk
<1>9. ASSUME NEW i \in 1..Len(r)
      PROVE  Named(r[i].service) /\ r[i].count = Cardinality(OfService(l, r[i].service)')
  <2>1. CASE r[i].service = x
    <3>4. OfService(l, r[i].service)' = OfService(l, x)'
      BY <2>1 DEF OfService
    <3>1. /\ Cardinality(OfService(l, x)) \in Nat
          /\ Cardinality(OfService(l, x)') = Cardinality(OfService(l, x)) + 1
      <4>1. e.level = l /\ ServiceOf(e.attrs) = x
        BY <1>1
      <4> QED BY <4>1, ServiceCounted
    <3>2. CASE Listed(list, x)
      <4>1. PICK j \in 1..Len(list) : list[j].service = x /\ r[i].count = list[j].count + 1
        BY <1>6, <2>1, <3>2
      <4>2. list[j].count = Cardinality(OfService(l, x))
        BY <1>7, <4>1
      <4>3. Named(x)
        BY <1>1
      <4> QED BY <2>1, <3>1, <3>4, <4>1, <4>2, <4>3
    <3>3. CASE ~Listed(list, x)
      <4>1. r[i].count = 1 /\ Len(list) < TopServices
        BY <1>6, <2>1, <3>3
      <4>2. OfService(l, x) = {}
        <5>1. ASSUME NEW k \in OfService(l, x) PROVE FALSE
          <6>1. k \in 1..n /\ seen[k].level = l /\ ServiceOf(seen[k].attrs) = x
            BY <1>1 DEF OfService
          <6>2. Listed(list, x)
            BY <1>1, <1>8, <4>1, <6>1
          <6> QED BY <3>3, <6>2
        <5> QED BY <5>1
      <4>3. Cardinality(OfService(l, x)) = 0
        BY <4>2, FS_EmptySet
      <4>4. Named(x)
        BY <1>1
      <4>5. Cardinality(OfService(l, x)') = 1
        BY <3>1, <4>3
      <4>6. Cardinality(OfService(l, r[i].service)') = 1
        BY <3>4, <4>5
      <4> QED BY <2>1, <4>1, <4>4, <4>6
    <3> QED BY <3>2, <3>3
  <2>2. CASE r[i].service # x
    <3>1. PICK j \in 1..Len(list) : r[i] = list[j]
      BY <1>6, <2>2
    <3>2. PICK y : y = list[j].service
      OBVIOUS
    <3>3. Named(y) /\ list[j].count = Cardinality(OfService(l, y)) /\ y # x
      BY <1>7, <2>2, <3>1, <3>2
    <3>4. ~(e.level = l /\ ServiceOf(e.attrs) = y)
      BY <1>1, <3>3
    <3>5. /\ Cardinality(OfService(l, y)) \in Nat
          /\ Cardinality(OfService(l, y)') = Cardinality(OfService(l, y))
      BY <3>4, ServiceCounted
    <3>6. OfService(l, r[i].service)' = OfService(l, y)'
      BY <3>1, <3>2 DEF OfService
    <3> QED BY <3>1, <3>2, <3>3, <3>5, <3>6
  <2> QED BY <2>1, <2>2
<1>10. ASSUME Len(r) < TopServices, NEW i \in 1..(n + 1), seen'[i].level = l,
              Named(ServiceOf(seen'[i].attrs))
       PROVE  Listed(r, ServiceOf(seen'[i].attrs))
  <2>1. CASE i = n + 1
    BY <1>1, <1>2, <1>6, <1>10, <2>1
  <2>2. CASE i # n + 1
    <3>1. PICK y : y = ServiceOf(seen[i].attrs)
      OBVIOUS
    <3>6. i \in 1..n
      <4>1. n \in Nat /\ i \in 1..(n + 1)
        BY <1>2, <1>10
      <4> QED BY <2>2, <4>1
    <3>2. i \in 1..n /\ seen'[i] = seen[i]
      BY <1>2, <3>6
    <3>3. Listed(list, y)
      BY <1>6, <1>8, <1>10, <3>1, <3>2
    <3>4. PICK j \in 1..Len(list) : list[j].service = y
      BY <3>3 DEF Listed
    <3>5. Listed(r, list[j].service)
      BY <1>6, <1>10
    <3> QED BY <3>1, <3>2, <3>4, <3>5
  <2> QED BY <2>1, <2>2
<1>11. (\A j \in 1..Len(r) :
         Named(r[j].service) /\ r[j].count = Cardinality(OfService(l, r[j].service)))'
  BY <1>9
<1>12. (Len(r) < TopServices =>
         \A i \in 1..Len(seen) :
           seen[i].level = l /\ Named(ServiceOf(seen[i].attrs)) => Listed(r, ServiceOf(seen[i].attrs)))'
  <2>1. (\A i \in 1..Len(seen) :
           seen[i].level = l /\ Named(ServiceOf(seen[i].attrs)) => Listed(r, ServiceOf(seen[i].attrs)))'
        <=> \A i \in 1..Len(seen') :
             seen'[i].level = l /\ Named(ServiceOf(seen'[i].attrs)) => Listed(r, ServiceOf(seen'[i].attrs))
    BY DEF ServiceOf, Listed
  <2> QED BY <1>2, <1>10, <2>1
<1>13. ListOk(l, r)'
  BY <1>6, <1>11, <1>12 DEF ListOk, EachOnce
<1> QED BY <1>1, <1>3, <1>13

LEMMA ServicesKeep == ASSUME SeenInv, ServicesInv, NEW e \in Kept, Counts(e) PROVE ServicesInv'
<1> SUFFICES ASSUME NEW l PROVE ListOk(l, ListOf(l))'
  BY DEF ServicesInv
<1>1. PICK s, t, x : s = ListOf(l) /\ t = ListOf(l)' /\ x = ServiceOf(e.attrs)
  OBVIOUS
<1>2. ListOk(l, s) /\ services' = Services(e)
  BY <1>1 DEF ServicesInv, Counts
<1>3. CASE ~Named(x)
  <2>1. services' = services
    BY <1>1, <1>2, <1>3 DEF Services, Named
  <2>2. t = s
    BY <1>1, <2>1 DEF ListOf
  <2>3. ListOk(l, s)'
    BY <1>1, <1>2, <1>3, ListKeeps
  <2>4. (ListOk(l, s) = ListOk(l, ListOf(l)))'
    BY <1>1, <2>2
  <2> QED BY <2>3, <2>4
<1>4. CASE Named(x)
  <2>1. services' = [k \in DOMAIN services \union {e.level} |->
                       IF k # e.level THEN services[k] ELSE ListService(ListOf(k), x)]
    BY <1>1, <1>2, <1>4 DEF Services, ListOf, Named
  <2>2. CASE l = e.level
    <3>1. t = ListService(s, x)
      BY <1>1, <2>1, <2>2 DEF ListOf
    <3>2. ListOk(l, ListService(s, x))'
      BY <1>1, <1>2, <1>4, <2>2, ListGrows
    <3> QED BY <1>1, <3>1, <3>2
  <2>3. CASE l # e.level
    <3>1. t = s
      BY <1>1, <2>1, <2>3 DEF ListOf
    <3>2. ListOk(l, s)'
      BY <1>1, <1>2, <2>3, ListKeeps
    <3> QED BY <1>1, <3>1, <3>2
  <2> QED BY <2>2, <2>3
<1> QED BY <1>3, <1>4

LEMMA ServicesAreComplete == SeenInv /\ ServicesInv => ListedServicesComplete
<1> SUFFICES ASSUME SeenInv, ServicesInv, NEW l \in DOMAIN services, NEW i \in DOMAIN services[l]
             PROVE  services[l][i].count
                      = HowMany(LAMBDA e : e.level = l /\ ServiceOf(e.attrs) = services[l][i].service)
  BY DEF ListedServicesComplete
<1>1. PICK s : s = services[l]
  OBVIOUS
<1>2. ListOk(l, s)
  BY <1>1 DEF ServicesInv, ListOf
<1>3. PICK x : x = s[i].service
  OBVIOUS
<1>4. s[i].count = Cardinality(OfService(l, x))
  <2>1. i \in 1..Len(s)
    <3>1. s \in Seq(Items) /\ i \in DOMAIN s
      BY <1>1, <1>2 DEF ListOk
    <3> QED BY <3>1
  <2> QED BY <1>2, <1>3, <2>1 DEF ListOk
<1>5. HowMany(LAMBDA e : e.level = l /\ ServiceOf(e.attrs) = x) = Cardinality(OfService(l, x))
  BY DEF HowMany, HowManyAfter, OfService
<1> QED BY <1>1, <1>3, <1>4, <1>5

(* The memory.  Terms that are ranked have each a rank of its own.          *)
Terms == Range(Alphabet)

LEMMA TermsFinite == IsFiniteSet(Terms)
<1>1. PICK n : n = Len(Alphabet)
  OBVIOUS
<1>2. n \in Nat /\ DOMAIN Alphabet = 1..n
  BY <1>1, StatisticsAssumption
<1>3. IsFiniteSet(1..n)
  BY <1>2, FS_Interval
<1>4. PICK f : f = [i \in 1..n |-> Alphabet[i]]
  OBVIOUS
<1>5. f \in Surjection(1..n, Terms)
  BY <1>2, <1>4 DEF Surjection, Terms, Range
<1> QED BY <1>3, <1>5, FS_Surjection

LEMMA PlaceOfTerm ==
  /\ \A t \in Terms : Place(t) \in Nat
  /\ \A s, t \in Terms : Place(s) = Place(t) => s = t
<1>1. DOMAIN Alphabet = 1..Len(Alphabet) /\ Len(Alphabet) \in Nat
  BY StatisticsAssumption
<1>2. ASSUME NEW t \in Terms PROVE Place(t) \in DOMAIN Alphabet /\ Alphabet[Place(t)] = t
  <2>1. \E i \in DOMAIN Alphabet : Alphabet[i] = t
    BY DEF Terms, Range
  <2> QED BY <2>1 DEF Place
<1> QED BY <1>1, <1>2

RankedBy(D, worth) ==
  IsFiniteSet(D) /\ D \subseteq Terms /\ DOMAIN worth = D /\ \A t \in D : worth[t] \in Nat

LEMMA BeforeOrders ==
  ASSUME NEW D, NEW worth, RankedBy(D, worth), NEW r \in D, NEW s \in D, NEW t \in D
  PROVE  /\ ~Before(worth, t, t)
         /\ s # t => Before(worth, s, t) \/ Before(worth, t, s)
         /\ Before(worth, r, s) /\ Before(worth, s, t) => Before(worth, r, t)
<1>1. r \in Terms /\ s \in Terms /\ t \in Terms
  BY DEF RankedBy
<1>2. Place(r) \in Nat /\ Place(s) \in Nat /\ Place(t) \in Nat /\ (Place(s) = Place(t) => s = t)
  BY <1>1, PlaceOfTerm
<1>3. worth[r] \in Nat /\ worth[s] \in Nat /\ worth[t] \in Nat
  BY DEF RankedBy
<1>4. PICK a, b, c, x, y, z : /\ a = worth[r] /\ b = worth[s] /\ c = worth[t]
                              /\ x = Place(r) /\ y = Place(s) /\ z = Place(t)
  OBVIOUS
<1>5. /\ (Before(worth, t, t) <=> c > c \/ (c = c /\ z < z))
      /\ (Before(worth, s, t) <=> b > c \/ (b = c /\ y < z))
      /\ (Before(worth, t, s) <=> c > b \/ (c = b /\ z < y))
      /\ (Before(worth, r, s) <=> a > b \/ (a = b /\ x < y))
      /\ (Before(worth, r, t) <=> a > c \/ (a = c /\ x < z))
  BY <1>4 DEF Before
<1>6. a \in Nat /\ b \in Nat /\ c \in Nat /\ x \in Nat /\ y \in Nat /\ z \in Nat /\ (y = z => s = t)
  BY <1>2, <1>3, <1>4
<1> QED BY <1>5, <1>6

LEMMA Ranks ==
  ASSUME NEW D, NEW worth, RankedBy(D, worth)
  PROVE  /\ \A t \in D : Rank(worth, t) \in 1..Cardinality(D)
         /\ \A s, t \in D : Rank(worth, s) = Rank(worth, t) => s = t
<1> DEFINE Better(t) == {s \in D : Before(worth, s, t)}
<1>1. IsFiniteSet(D) /\ Cardinality(D) \in Nat /\ DOMAIN worth = D
  BY FS_CardinalityType DEF RankedBy
<1>2. ASSUME NEW t \in D
      PROVE  /\ IsFiniteSet(Better(t)) /\ Cardinality(Better(t)) \in Nat
             /\ Rank(worth, t) = Cardinality(Better(t)) + 1
             /\ Cardinality(Better(t)) + 1 <= Cardinality(D)
  <2>1. Better(t) \subseteq D /\ t \notin Better(t)
    BY BeforeOrders
  <2>2. PICK B : B = Better(t)
    OBVIOUS
  <2>3. IsFiniteSet(B) /\ Cardinality(B) \in Nat
    BY <1>1, <2>1, <2>2, FS_Subset, FS_CardinalityType
  <2>4. Cardinality(B \union {t}) = Cardinality(B) + 1
    BY <2>1, <2>2, <2>3, FS_AddElement
  <2>5. B \union {t} \in SUBSET D
    BY <2>1, <2>2
  <2>6. Cardinality(B \union {t}) <= Cardinality(D)
    BY <1>1, <2>5, FS_Subset
  <2>7. Rank(worth, t) = Cardinality(B) + 1
    BY <1>1, <2>2 DEF Rank
  <2> QED BY <2>2, <2>3, <2>4, <2>6, <2>7
<1>3. ASSUME NEW s \in D, NEW t \in D, Before(worth, s, t) PROVE Rank(worth, s) # Rank(worth, t)
  <2>1. PICK A, B : A = Better(s) /\ B = Better(t)
    OBVIOUS
  <2>2. s \notin A /\ A \union {s} \in SUBSET B
    BY <1>3, <2>1, BeforeOrders
  <2>3. /\ IsFiniteSet(A) /\ Cardinality(A) \in Nat /\ Rank(worth, s) = Cardinality(A) + 1
        /\ IsFiniteSet(B) /\ Cardinality(B) \in Nat /\ Rank(worth, t) = Cardinality(B) + 1
    BY <1>2, <2>1
  <2>4. Cardinality(A \union {s}) = Cardinality(A) + 1
    BY <2>2, <2>3, FS_AddElement
  <2>5. Cardinality(A \union {s}) <= Cardinality(B)
    BY <2>2, <2>3, FS_Subset
  <2>6. Cardinality(A) + 1 <= Cardinality(B)
    BY <2>4, <2>5
  <2> QED BY <2>3, <2>6
<1>4. ASSUME NEW t \in D PROVE Rank(worth, t) \in 1..Cardinality(D)
  <2>1. PICK b, n : b = Cardinality(Better(t)) /\ n = Cardinality(D)
    OBVIOUS
  <2>2. b \in Nat /\ n \in Nat /\ b + 1 <= n /\ Rank(worth, t) = b + 1
    BY <1>1, <1>2, <2>1
  <2> QED BY <2>1, <2>2
<1>5. ASSUME NEW s \in D, NEW t \in D, Rank(worth, s) = Rank(worth, t) PROVE s = t
  BY <1>3, <1>5, BeforeOrders
<1> QED BY <1>4, <1>5

(* The snapshot lists each term once, and Pruned keeps of them what it has  *)
(* room for.                                                                *)
LEMMA SnapshotLists ==
  ASSUME NEW D, NEW worth, RankedBy(D, worth)
  PROVE  /\ Cardinality(D) \in Nat
         /\ Snapshot(worth) \in [1..Cardinality(D) -> D] /\ Len(Snapshot(worth)) = Cardinality(D)
         /\ \A t \in D : \E i \in 1..Cardinality(D) : Snapshot(worth)[i] = t
<1>1. PICK n, p : n = Cardinality(D) /\ p = Snapshot(worth)
  OBVIOUS
<1>2. n \in Nat /\ DOMAIN worth = D /\ IsFiniteSet(D)
  BY <1>1, FS_CardinalityType DEF RankedBy
<1>3. PICK f : f = [t \in D |-> Rank(worth, t)]
  OBVIOUS
<1>4. f \in [D -> 1..n] /\ \A s, t \in D : f[s] = f[t] => s = t
  BY <1>1, <1>3, Ranks
<1>5. f \in Injection(D, 1..n)
  BY <1>4 DEF Injection, IsInjective
<1>6. IsFiniteSet(1..n) /\ Cardinality(1..n) = n
  <2>1. 1 \in Int /\ n \in Int
    BY <1>2
  <2>2. IsFiniteSet(1..n) /\ Cardinality(1..n) = IF 1 > n THEN 0 ELSE n - 1 + 1
    BY <2>1, FS_Interval
  <2> QED BY <1>2, <2>2
<1>7. f \in Surjection(D, 1..n)
  BY <1>1, <1>5, <1>6, FS_Injection
<1>8. p = [i \in 1..n |-> CHOOSE t \in D : Rank(worth, t) = i]
  BY <1>1, <1>2 DEF Snapshot
<1>9. ASSUME NEW i \in 1..n PROVE p[i] \in D /\ Rank(worth, p[i]) = i
  <2>1. PICK t \in D : f[t] = i
    BY <1>7 DEF Surjection
  <2>2. Rank(worth, t) = i
    BY <1>3, <2>1
  <2>3. p[i] = CHOOSE q \in D : Rank(worth, q) = i
    BY <1>8
  <2> QED BY <2>2, <2>3
<1>10. p \in [1..n -> D]
  BY <1>8, <1>9
<1>11. Len(p) = n
  BY <1>2, <1>10
<1>12. ASSUME NEW t \in D PROVE \E i \in 1..n : p[i] = t
  <2>1. PICK i : i = Rank(worth, t)
    OBVIOUS
  <2>2. i \in 1..n
    BY <1>1, <2>1, Ranks
  <2>3. p[i] \in D /\ Rank(worth, p[i]) = Rank(worth, t)
    BY <1>9, <2>1, <2>2
  <2>4. p[i] = t
    BY <2>3, Ranks
  <2> QED BY <2>2, <2>4
<1> QED BY <1>1, <1>2, <1>10, <1>11, <1>12

LEMMA PrunedFits ==
  ASSUME NEW D, NEW worth, RankedBy(D, worth), NEW map, DOMAIN map = D, NEW p, p = Pruned(map, worth)
  PROVE  /\ IsFiniteSet(DOMAIN p) /\ DOMAIN p \subseteq D /\ Cardinality(DOMAIN p) <= MemorySize
         /\ \A t \in DOMAIN p : p[t] = map[t]
         /\ Cardinality(D) <= MemorySize => p = map
<1>1. PICK n, m : n = Cardinality(D) /\ m = MemorySize
  OBVIOUS
<1>2. n \in Nat /\ m \in Nat /\ IsFiniteSet(D)
  BY <1>1, StatisticsAssumption, FS_CardinalityType DEF RankedBy
<1>3. CASE n <= m
  <2>1. p = map
    BY <1>1, <1>2, <1>3 DEF Pruned
  <2> QED BY <1>1, <1>2, <1>3, <2>1
<1>4. CASE ~(n <= m)
  <2>1. PICK k : k = (m * 3) \div 4
    OBVIOUS
  <2>2. k \in Nat /\ k <= m /\ k <= n
    BY <1>2, <1>4, <2>1
  <2>3. PICK s, S : s = Snapshot(worth) /\ S = {s[i] : i \in 1..k}
    OBVIOUS
  <2>4. p = [t \in S |-> map[t]]
    BY <1>1, <1>2, <1>4, <2>1, <2>3 DEF Pruned, Restrict
  <2>5. \A i \in 1..k : s[i] \in D
    <3>1. s \in [1..n -> D]
      BY <1>1, <2>3, SnapshotLists
    <3>2. \A i \in 1..k : i \in 1..n
      BY <1>2, <2>2
    <3> QED BY <3>1, <3>2
  <2>6. S \subseteq D
    BY <2>3, <2>5
  <2>7. Cardinality(S) <= k
    <3>1. PICK f : f = [i \in 1..k |-> s[i]]
      OBVIOUS
    <3>2. f \in Surjection(1..k, S)
      BY <2>3, <3>1 DEF Surjection
    <3>3. ExistsSurjection(1..k, S)
      BY <3>2 DEF ExistsSurjection
    <3> QED BY <2>2, <3>3, FS_SurjCardinalityBound
  <2>8. IsFiniteSet(S) /\ Cardinality(S) \in Nat
    BY <1>2, <2>6, FS_Subset, FS_CardinalityType
  <2>9. DOMAIN p = S /\ \A t \in S : p[t] = map[t]
    BY <2>4
  <2>10. Cardinality(S) <= m
    BY <1>2, <2>2, <2>7, <2>8
  <2> QED BY <1>1, <1>4, <2>6, <2>8, <2>9, <2>10
<1> QED BY <1>3, <1>4

Frequency(f, t) == IF t \in DOMAIN f THEN f[t] ELSE 0

LEMMA WhereFinite ==
  ASSUME NEW T, NEW s \in Seq(T), NEW t
  PROVE  IsFiniteSet(Where(s, t)) /\ Cardinality(Where(s, t)) \in Nat /\ (t \notin Range(s) => Where(s, t) = {})
<1>1. DOMAIN s = 1..Len(s) /\ Len(s) \in Int /\ 1 \in Int
  OBVIOUS
<1>2. IsFiniteSet(DOMAIN s)
  BY <1>1, FS_Interval
<1>3. Where(s, t) \in SUBSET DOMAIN s
  BY DEF Where
<1>4. t \notin Range(s) => Where(s, t) = {}
  BY DEF Where, Range
<1> QED BY <1>2, <1>3, <1>4, FS_Subset, FS_CardinalityType

WordsInv ==
  /\ DOMAIN memory.words \subseteq Terms /\ Cardinality(DOMAIN memory.words) <= MemorySize
  /\ \A t \in DOMAIN memory.words : memory.words[t] \in Nat
  /\ \A t : IsFiniteSet(Occurrences(t)) /\ Frequency(memory.words, t) <= Cardinality(Occurrences(t))
  /\ Cardinality(WordsSince(cleared)) <= MemorySize =>
       /\ DOMAIN memory.words = WordsSince(cleared)
       /\ \A t : Frequency(memory.words, t) = Cardinality(Occurrences(t))

AttributesInv ==
  /\ DOMAIN memory.attributes \subseteq Terms /\ Cardinality(DOMAIN memory.attributes) <= MemorySize
  /\ \A k \in DOMAIN memory.attributes : IsFiniteSet(DOMAIN memory.attributes[k])

MemoryInv == cleared \in 0..Len(seen) /\ WordsInv /\ AttributesInv

LEMMA EntryTyped == ASSUME NEW e \in Kept PROVE e.words \in Seq(Terms) /\ DOMAIN e.attrs \subseteq Terms
<1>1. PICK kind \in Kinds : e.words = kind.words
  BY DEF Kept
<1>2. PICK other \in Kinds : e.attrs = other.attrs
  BY DEF Kept
<1> QED BY <1>1, <1>2, StatisticsAssumption DEF Terms

LEMMA WordsOccur ==
  ASSUME SeenInv, cleared \in 0..Len(seen), NEW e \in Kept, Counts(e), NEW t, IsFiniteSet(Occurrences(t))
  PROVE  /\ IsFiniteSet(Occurrences(t)')
         /\ Cardinality(Occurrences(t)) \in Nat
         /\ Cardinality(Occurrences(t)') = Cardinality(Occurrences(t)) + Cardinality(Where(e.words, t))
<1>1. PICK n, k, w : n = Len(seen) /\ k = cleared /\ w = Where(e.words, t)
  OBVIOUS
<1>2. /\ n \in Nat /\ Len(seen') = n + 1 /\ seen'[n + 1] = e /\ k \in 0..n
      /\ \A i \in 1..n : seen'[i] = seen[i]
  BY <1>1, OneMoreSeen
<1>3. PICK A, B, C : A = Occurrences(t) /\ B = Occurrences(t)' /\ C = {n + 1} \X w
  OBVIOUS
<1>4. cleared' = k
  BY <1>1 DEF Counts
<1>5. A = UNION {{i} \X Where(seen[i].words, t) : i \in (k + 1)..n}
  BY <1>1, <1>3 DEF Occurrences
<1>6. B = UNION {{i} \X Where(seen'[i].words, t) : i \in (k + 1)..(n + 1)}
  BY <1>2, <1>3, <1>4 DEF Occurrences, Where
<1>7. \A i : i \in (k + 1)..(n + 1) <=> i \in (k + 1)..n \/ i = n + 1
  BY <1>2
<1>8. \A i \in (k + 1)..n : seen'[i] = seen[i] /\ i # n + 1
  BY <1>2
<1>9. ASSUME NEW o PROVE o \in B <=> o \in A \union C
  <2>1. o \in B <=> \E i \in (k + 1)..(n + 1) : o \in {i} \X Where(seen'[i].words, t)
    BY <1>6
  <2>2. o \in A <=> \E i \in (k + 1)..n : o \in {i} \X Where(seen[i].words, t)
    BY <1>5
  <2>3. o \in C <=> o \in {n + 1} \X Where(seen'[n + 1].words, t)
    BY <1>1, <1>2, <1>3
  <2> QED BY <1>7, <1>8, <2>1, <2>2, <2>3
<1>10. A \cap C = {}
  <2>1. \A o \in C : o[1] = n + 1
    BY <1>3
  <2>2. \A o \in A : o[1] \in (k + 1)..n
    BY <1>5
  <2> QED BY <1>8, <2>1, <2>2
<1>11. IsFiniteSet(w) /\ Cardinality(w) \in Nat
  BY <1>1, EntryTyped, WhereFinite
<1>12. IsFiniteSet(C) /\ Cardinality(C) = Cardinality(w)
  <2>1. PICK f : f = [j \in w |-> <<n + 1, j>>]
    OBVIOUS
  <2>2. f \in Bijection(w, C)
    <3>1. f \in [w -> C]
      BY <1>3, <2>1
    <3>2. \A i, j \in w : f[i] = f[j] => i = j
      BY <2>1
    <3>3. \A o \in C : \E j \in w : f[j] = o
      BY <1>3, <2>1
    <3> QED BY <3>1, <3>2, <3>3 DEF Bijection, Injection, Surjection, IsInjective
  <2>3. ExistsBijection(w, C)
    BY <2>2 DEF ExistsBijection
  <2> QED BY <1>11, <2>3, FS_Bijection
<1>13. B = A \union C
  BY <1>9
<1>14. /\ IsFiniteSet(B) /\ Cardinality(A) \in Nat
       /\ Cardinality(B) = Cardinality(A) + Cardinality(C)
  <2>1. IsFiniteSet(A) /\ IsFiniteSet(C)
    BY <1>3, <1>12
  <2>2. /\ IsFiniteSet(A \union C) /\ Cardinality(A) \in Nat
        /\ Cardinality(A \union C) = Cardinality(A) + Cardinality(C)
    BY <1>10, <2>1, DisjointUnion
  <2> QED BY <1>13, <2>2
<1> QED BY <1>1, <1>3, <1>12, <1>14

LEMMA WordsOfMore ==
  ASSUME SeenInv, cleared \in 0..Len(seen), NEW e \in Kept, Counts(e)
  PROVE  /\ (WordsSince(cleared))' = WordsSince(cleared) \union Range(e.words)
         /\ WordsSince(cleared) \subseteq Terms /\ Range(e.words) \subseteq Terms
<1>1. PICK n, k : n = Len(seen) /\ k = cleared
  OBVIOUS
<1>2. /\ n \in Nat /\ Len(seen') = n + 1 /\ seen'[n + 1] = e /\ k \in 0..n
      /\ \A i \in 1..n : seen'[i] = seen[i]
  BY <1>1, OneMoreSeen
<1>3. cleared' = k
  BY <1>1 DEF Counts
<1>4. PICK A, B : A = WordsSince(cleared) /\ B = WordsSince(cleared)'
  OBVIOUS
<1>5. A = UNION {Range(seen[i].words) : i \in (k + 1)..n}
  BY <1>1, <1>4 DEF WordsSince
<1>6. B = UNION {Range(seen'[i].words) : i \in (k + 1)..(n + 1)}
  BY <1>2, <1>3, <1>4 DEF WordsSince, Range
<1>7. \A i : i \in (k + 1)..(n + 1) <=> i \in (k + 1)..n \/ i = n + 1
  BY <1>2
<1>8. \A i \in (k + 1)..n : seen'[i] = seen[i] /\ i \in 1..n
  BY <1>2
<1>9. ASSUME NEW o PROVE o \in B <=> o \in A \union Range(e.words)
  <2>1. o \in B <=> \E i \in (k + 1)..(n + 1) : o \in Range(seen'[i].words)
    BY <1>6
  <2>2. o \in A <=> \E i \in (k + 1)..n : o \in Range(seen[i].words)
    BY <1>5
  <2> QED BY <1>2, <1>7, <1>8, <2>1, <2>2
<1>10. ASSUME NEW d \in Kept PROVE Range(d.words) \subseteq Terms
  BY EntryTyped DEF Range
<1>11. \A i \in (k + 1)..n : seen[i] \in Kept
  BY <1>1, <1>8 DEF SeenInv
<1>12. A \subseteq Terms
  BY <1>5, <1>10, <1>11
<1> QED BY <1>4, <1>9, <1>10, <1>12

LEMMA WordsKeep ==
  ASSUME SeenInv, cleared \in 0..Len(seen), WordsInv, NEW e \in Kept, Counts(e)
  PROVE  WordsInv'
<1>1. PICK w, ks, more, p : /\ w = memory.words /\ ks = e.words /\ more = CountAll(w, ks)
                            /\ p = Pruned(more, more)
  OBVIOUS
<1>2. memory'.words = p
  BY <1>1 DEF Counts, AddWords
<1>3. PICK D : D = DOMAIN w \union Range(ks)
  OBVIOUS
<1>4. \A t : IsFiniteSet(Where(ks, t)) /\ Cardinality(Where(ks, t)) \in Nat
             /\ (t \notin Range(ks) => Where(ks, t) = {})
  BY <1>1, EntryTyped, WhereFinite
<1>5. DOMAIN more = D /\ \A t \in D : more[t] = Frequency(w, t) + Cardinality(Where(ks, t))
  BY <1>1, <1>3 DEF CountAll, Frequency
<1>6. \A t : Frequency(w, t) \in Nat
  BY <1>1 DEF WordsInv, Frequency
<1>7. IsFiniteSet(D) /\ D \subseteq Terms /\ IsFiniteSet(Terms)
  <2>1. D \subseteq Terms
    BY <1>1, <1>3, WordsOfMore DEF WordsInv
  <2> QED BY <2>1, TermsFinite, FS_Subset
<1>8. RankedBy(D, more)
  BY <1>4, <1>5, <1>6, <1>7 DEF RankedBy
<1>9. /\ IsFiniteSet(DOMAIN p) /\ DOMAIN p \subseteq D /\ Cardinality(DOMAIN p) <= MemorySize
      /\ \A t \in DOMAIN p : p[t] = more[t]
      /\ Cardinality(D) <= MemorySize => p = more
  BY <1>1, <1>5, <1>8, PrunedFits
<1>10. ASSUME NEW t
       PROVE  /\ IsFiniteSet(Occurrences(t)') /\ Cardinality(Occurrences(t)) \in Nat
              /\ Cardinality(Occurrences(t)') = Cardinality(Occurrences(t)) + Cardinality(Where(ks, t))
  BY <1>1, WordsOccur DEF WordsInv
<1>11. ASSUME NEW t \in DOMAIN p PROVE p[t] = Frequency(w, t) + Cardinality(Where(ks, t)) /\ p[t] \in Nat
  BY <1>4, <1>5, <1>6, <1>9
<1>12. ASSUME NEW t PROVE Frequency(p, t) <= Cardinality(Occurrences(t)')
  <2>1. PICK f, o, b : f = Frequency(w, t) /\ o = Cardinality(Occurrences(t)) /\ b = Cardinality(Where(ks, t))
    OBVIOUS
  <2>2. f \in Nat /\ o \in Nat /\ b \in Nat /\ f <= o /\ Cardinality(Occurrences(t)') = o + b
    BY <1>1, <1>4, <1>6, <1>10, <2>1 DEF WordsInv
  <2>3. Frequency(p, t) = f + b \/ Frequency(p, t) = 0
    BY <1>11, <2>1 DEF Frequency
  <2> QED BY <2>2, <2>3
<1>13. ASSUME Cardinality(WordsSince(cleared)') <= MemorySize
       PROVE  DOMAIN p = WordsSince(cleared)' /\ \A t : Frequency(p, t) = Cardinality(Occurrences(t)')
  <2>1. PICK A, B : A = WordsSince(cleared) /\ B = WordsSince(cleared)'
    OBVIOUS
  <2>2. B = A \union Range(ks) /\ B \subseteq Terms
    BY <1>1, <2>1, WordsOfMore
  <2>3. IsFiniteSet(B) /\ Cardinality(A) <= Cardinality(B)
    BY <1>7, <2>2, FS_Subset
  <2>4. Cardinality(A) \in Nat /\ Cardinality(B) \in Nat /\ MemorySize \in Nat
    BY <2>2, <2>3, FS_Subset, FS_CardinalityType, StatisticsAssumption
  <2>5. Cardinality(A) <= MemorySize
    BY <1>13, <2>1, <2>3, <2>4
  <2>6. DOMAIN w = A /\ \A t : Frequency(w, t) = Cardinality(Occurrences(t))
    BY <1>1, <2>1, <2>5 DEF WordsInv
  <2>7. D = B
    BY <1>3, <2>2, <2>6
  <2>8. p = more /\ DOMAIN p = B
    BY <1>5, <1>9, <1>13, <2>1, <2>7
  <2>9. ASSUME NEW t PROVE Frequency(p, t) = Cardinality(Occurrences(t)')
    <3>1. PICK o, b : o = Cardinality(Occurrences(t)) /\ b = Cardinality(Where(ks, t))
      OBVIOUS
    <3>2. o \in Nat /\ b \in Nat /\ Cardinality(Occurrences(t)') = o + b /\ Frequency(w, t) = o
      BY <1>4, <1>10, <2>6, <3>1
    <3>3. CASE t \in B
      BY <1>11, <2>8, <3>1, <3>2, <3>3 DEF Frequency
    <3>4. CASE t \notin B
      <4>1. t \notin A /\ t \notin Range(ks)
        BY <2>2, <3>4
      <4>2. b = 0
        BY <1>4, <3>1, <4>1, FS_EmptySet
      <4>3. o = 0
        BY <2>6, <3>2, <4>1 DEF Frequency
      <4> QED BY <2>8, <3>2, <3>4, <4>2, <4>3 DEF Frequency
    <3> QED BY <3>3, <3>4
  <2> QED BY <2>1, <2>8, <2>9
<1>14. (DOMAIN memory.words \subseteq Terms /\ Cardinality(DOMAIN memory.words) <= MemorySize)'
  BY <1>2, <1>7, <1>9 DEF Terms, Range
<1>15. (\A t \in DOMAIN memory.words : memory.words[t] \in Nat)'
  BY <1>2, <1>11
<1>16. (\A t : IsFiniteSet(Occurrences(t)) /\ Frequency(memory.words, t) <= Cardinality(Occurrences(t)))'
  BY <1>2, <1>10, <1>12 DEF Frequency
<1>17. (Cardinality(WordsSince(cleared)) <= MemorySize =>
          /\ DOMAIN memory.words = WordsSince(cleared)
          /\ \A t : Frequency(memory.words, t) = Cardinality(Occurrences(t)))'
  BY <1>2, <1>13 DEF Frequency
<1> QED BY <1>14, <1>15, <1>16, <1>17 DEF WordsInv

LEMMA AttributesKeep ==
  ASSUME SeenInv, AttributesInv, NEW e \in Kept, Counts(e)
  PROVE  AttributesInv'
<1>1. PICK map, attrs : map = memory.attributes /\ attrs = e.attrs
  OBVIOUS
<1>2. PICK more : more = [k \in DOMAIN map \union DOMAIN attrs |->
                            IF k \in DOMAIN attrs
                            THEN Counted(IF k \in DOMAIN map THEN map[k] ELSE <<>>, attrs[k])
                            ELSE map[k]]
  OBVIOUS
<1>3. PICK worth : worth = [k \in DOMAIN more |-> Cardinality(DOMAIN more[k])]
  OBVIOUS
<1>4. PICK p : p = Pruned(more, worth)
  OBVIOUS
<1>5. memory'.attributes = p
  BY <1>1, <1>2, <1>3, <1>4 DEF Counts, AddAttributes
<1>6. PICK D : D = DOMAIN map \union DOMAIN attrs
  OBVIOUS
<1>7. D \subseteq Terms /\ IsFiniteSet(D)
  <2>1. D \subseteq Terms
    BY <1>1, <1>6, EntryTyped DEF AttributesInv
  <2> QED BY <2>1, TermsFinite, FS_Subset
<1>8. ASSUME NEW k \in D PROVE IsFiniteSet(DOMAIN more[k]) /\ Cardinality(DOMAIN more[k]) \in Nat
  <2>1. CASE k \in DOMAIN attrs
    <3>1. PICK f : f = IF k \in DOMAIN map THEN map[k] ELSE <<>>
      OBVIOUS
    <3>2. DOMAIN <<>> = {}
      OBVIOUS
    <3>3. IsFiniteSet(DOMAIN f)
      BY <1>1, <3>1, <3>2, FS_EmptySet DEF AttributesInv
    <3>4. DOMAIN more[k] = DOMAIN f \union {attrs[k]}
      BY <1>2, <1>6, <2>1, <3>1 DEF Counted
    <3>5. IsFiniteSet(DOMAIN f \union {attrs[k]})
      BY <3>3, FS_AddElement
    <3>6. IsFiniteSet(DOMAIN more[k])
      BY <3>4, <3>5
    <3> QED BY <3>6, FS_CardinalityType
  <2>2. CASE k \notin DOMAIN attrs
    <3>1. k \in DOMAIN map /\ more[k] = map[k]
      BY <1>2, <1>6, <2>2
    <3> QED BY <1>1, <3>1, FS_CardinalityType DEF AttributesInv
  <2> QED BY <2>1, <2>2
<1>9. DOMAIN more = D /\ RankedBy(D, worth)
  BY <1>2, <1>3, <1>6, <1>7, <1>8 DEF RankedBy
<1>10. /\ IsFiniteSet(DOMAIN p) /\ DOMAIN p \subseteq D /\ Cardinality(DOMAIN p) <= MemorySize
       /\ \A k \in DOMAIN p : p[k] = more[k]
  BY <1>4, <1>9, PrunedFits
<1>11. (DOMAIN memory.attributes \subseteq Terms /\ Cardinality(DOMAIN memory.attributes) <= MemorySize)'
  BY <1>5, <1>7, <1>10 DEF Terms, Range
<1>12. (\A k \in DOMAIN memory.attributes : IsFiniteSet(DOMAIN memory.attributes[k]))'
  BY <1>5, <1>8, <1>10
<1> QED BY <1>11, <1>12 DEF AttributesInv

LEMMA MemoryKeeps == ASSUME SeenInv, MemoryInv, NEW e \in Kept, Counts(e) PROVE MemoryInv'
<1>1. cleared' \in 0..Len(seen')
  <2>1. Len(seen') = Len(seen) + 1 /\ Len(seen) \in Nat /\ cleared' = cleared
    BY OneMoreSeen DEF Counts
  <2> QED BY <2>1 DEF MemoryInv
<1> QED BY <1>1, WordsKeep, AttributesKeep DEF MemoryInv

LEMMA MemoryForgets == ASSUME SeenInv, ManualReset PROVE MemoryInv'
<1>1. PICK n : n = Len(seen)
  OBVIOUS
<1>2. n \in Nat /\ seen' = seen /\ cleared' = n /\ memory' = [words |-> <<>>, attributes |-> <<>>]
  BY <1>1 DEF SeenInv, ManualReset
<1>3. (n + 1)..n = {} /\ DOMAIN <<>> = {}
  BY <1>2
<1>4. WordsSince(cleared)' = {} /\ \A t : Occurrences(t)' = {}
  BY <1>1, <1>2, <1>3 DEF WordsSince, Occurrences
<1>5. DOMAIN memory'.words = {} /\ DOMAIN memory'.attributes = {}
  BY <1>2, <1>3
<1>6. MemorySize \in Nat
  BY StatisticsAssumption
<1>7. Cardinality({}) = 0 /\ IsFiniteSet({}) /\ 0 <= MemorySize
  BY <1>6, FS_EmptySet
<1>8. WordsInv'
  BY <1>4, <1>5, <1>7 DEF WordsInv, Frequency
<1>9. AttributesInv'
  BY <1>5, <1>7 DEF AttributesInv
<1>10. cleared' \in 0..Len(seen')
  BY <1>1, <1>2
<1>11. (cleared \in 0..Len(seen))'
  BY <1>10
<1> QED BY <1>8, <1>9, <1>11 DEF MemoryInv

LEMMA MemoryIsExact == SeenInv /\ MemoryInv => MemoryExact
<1> SUFFICES ASSUME SeenInv, MemoryInv PROVE MemoryExact
  OBVIOUS
<1>1. PICK w, D, s : w = memory.words /\ D = DOMAIN w /\ s = Snapshot(w)
  OBVIOUS
<1>2. RankedBy(D, w)
  <2>1. D \subseteq Terms /\ \A t \in D : w[t] \in Nat
    BY <1>1 DEF MemoryInv, WordsInv
  <2>2. IsFiniteSet(D)
    BY <2>1, TermsFinite, FS_Subset
  <2> QED BY <1>1, <2>1, <2>2 DEF RankedBy
<1>3. PICK n : n = Cardinality(D)
  OBVIOUS
<1>4. n \in Nat /\ s \in [1..n -> D] /\ Len(s) = n /\ \A t \in D : \E i \in 1..n : s[i] = t
  BY <1>1, <1>2, <1>3, SnapshotLists
<1>5. Len(s) <= MemorySize /\ Cardinality(DOMAIN memory.attributes) <= MemorySize
  BY <1>1, <1>3, <1>4 DEF MemoryInv, WordsInv, AttributesInv
<1>6. ASSUME NEW i \in DOMAIN s PROVE w[s[i]] <= Cardinality(Occurrences(s[i]))
  <2>1. s[i] \in D
    BY <1>4
  <2> QED BY <1>1, <2>1 DEF MemoryInv, WordsInv, Frequency
<1>7. ASSUME Cardinality(WordsSince(cleared)) <= MemorySize, NEW t \in WordsSince(cleared)
      PROVE  t \in Range(s) /\ w[t] = Cardinality(Occurrences(t))
  <2>1. t \in D /\ Frequency(w, t) = Cardinality(Occurrences(t))
    BY <1>1, <1>7 DEF MemoryInv, WordsInv
  <2>2. t \in Range(s)
    BY <1>4, <2>1 DEF Range
  <2> QED BY <1>1, <2>1, <2>2 DEF Frequency
<1> QED BY <1>1, <1>5, <1>6, <1>7 DEF MemoryExact

(* What a step does not touch stays as exact as it was, also as time goes.  *)
LEMMA LifetimeStays ==
  ASSUME LifetimeInv, UNCHANGED <<seen, lifetime>> PROVE LifetimeInv'
BY DEF LifetimeInv, LevelsSeen, LevelCount, AtLevel

LEMMA RateStays ==
  ASSUME RateInv, SeenInv, clock' \in Nat, clock' >= clock, UNCHANGED <<seen, rate>> PROVE RateInv'
<1>1. PICK c, d, s, r : c = clock /\ d = clock' /\ s = rate.since /\ r = rate.recent
  OBVIOUS
<1>2. /\ c \in Nat /\ d \in Nat /\ d >= c /\ s \in Nat /\ s <= c /\ r \in Seq(Seconds)
      /\ \A j \in 1..Len(r) : r[j].at <= c
  BY <1>1 DEF RateInv, SeenInv
<1>3. ASSUME NEW j \in 1..Len(r) PROVE r[j].at <= d
  <2>1. r[j] \in Seconds
    BY <1>2
  <2>2. r[j].at \in Nat /\ r[j].at <= c
    BY <1>2, <2>1 DEF Seconds
  <2> QED BY <1>2, <2>2
<1>4. PICK g : MarkedBy(g, rate.recent, rate.since, rate.count)
  BY DEF RateInv
<1>5. MarkedBy(g, rate.recent, rate.since, rate.count)'
  BY <1>4 DEF MarkedBy, SecondAt
<1>6. s <= d
  BY <1>2
<1>7. (/\ rate \in [count : Nat, since : Nat, peak : Nat, recent : Seq(Seconds)]
       /\ rate.since <= clock
       /\ \A j \in 1..Len(rate.recent) : rate.recent[j].at <= clock)'
  BY <1>1, <1>3, <1>6 DEF RateInv, Seconds
<1> QED BY <1>5, <1>7 DEF RateInv

LEMMA ServicesStay ==
  ASSUME ServicesInv, UNCHANGED <<seen, services>> PROVE ServicesInv'
<1> SUFFICES ASSUME NEW l PROVE ListOk(l, ListOf(l))'
  BY DEF ServicesInv
<1>1. PICK list : list = ListOf(l)
  OBVIOUS
<1>2. ListOk(l, list) /\ ListOf(l)' = list
  BY <1>1 DEF ServicesInv, ListOf
<1>3. \A x : OfService(l, x)' = OfService(l, x)
  BY DEF OfService
<1>4. (\A j \in 1..Len(list) :
         Named(list[j].service) /\ list[j].count = Cardinality(OfService(l, list[j].service)))'
  BY <1>2, <1>3 DEF ListOk
<1>5. (Len(list) < TopServices =>
         \A i \in 1..Len(seen) :
           seen[i].level = l /\ Named(ServiceOf(seen[i].attrs)) => Listed(list, ServiceOf(seen[i].attrs)))'
  BY <1>2 DEF ListOk, Listed
<1>6. list \in Seq(Items) /\ Len(list) <= TopServices /\ EachOnce(list)
  BY <1>2 DEF ListOk
<1>7. ListOk(l, list)'
  BY <1>4, <1>5, <1>6 DEF ListOk, EachOnce
<1> QED BY <1>2, <1>7

LEMMA MemoryStays ==
  ASSUME MemoryInv, UNCHANGED <<seen, memory, cleared>> PROVE MemoryInv'
<1>1. WordsInv'
  <2>1. /\ WordsSince(cleared)' = WordsSince(cleared)
        /\ \A t : Occurrences(t)' = Occurrences(t) /\ Frequency(memory.words, t)' = Frequency(memory.words, t)
    BY DEF WordsSince, Occurrences, Frequency, Range, Where
  <2> QED BY <2>1 DEF MemoryInv, WordsInv, Terms, Range
<1>2. AttributesInv'
  BY DEF MemoryInv, AttributesInv, Terms, Range
<1> QED BY <1>1, <1>2 DEF MemoryInv

PanelsInv ==
  SeenInv /\ HeatInv /\ RateInv /\ ServicesInv /\ MemoryInv /\ LifetimeInv

LEMMA PanelsInitial == StatisticsInit => PanelsInv
<1> SUFFICES ASSUME StatisticsInit PROVE PanelsInv
  OBVIOUS
<1>1. /\ clock = Minute /\ seen = <<>> /\ heatmap = <<>> /\ rebuilt = 0 /\ services = <<>> /\ cleared = 0
      /\ rate = [count |-> 0, since |-> Minute, peak |-> 0, recent |-> <<>>]
      /\ lifetime.levels = <<>> /\ memory.words = <<>> /\ memory.attributes = <<>>
  BY DEF StatisticsInit
<1>2. /\ Minute \in Nat /\ MemorySize \in Nat /\ TopServices \in Nat \ {0} /\ DOMAIN <<>> = {}
      /\ Len(<<>>) = 0 /\ \A T : <<>> \in Seq(T)
  BY StatisticsAssumption
<1>3. Cardinality({}) = 0 /\ IsFiniteSet({})
  BY FS_EmptySet
<1>4. 1..Len(seen) = {} /\ (0 + 1)..Len(seen) = {}
  BY <1>1, <1>2
<1>5. SeenInv
  BY <1>1, <1>2, <1>4 DEF SeenInv
<1>6. HeatInv
  <2>1. \A m, l : HeatIn(m, l) = {} /\ HeatCount(heatmap, m, l) = 0
    BY <1>1, <1>2, <1>4 DEF HeatIn, HeatCount
  <2>2. rebuilt \in 0..Len(seen)
    BY <1>1, <1>2
  <2> QED BY <1>3, <2>1, <2>2 DEF HeatInv
<1>7. RateInv
  <2>1. PICK g : g = [j \in 0..0 |-> 0]
    OBVIOUS
  <2>2. MarkedBy(g, <<>>, Minute, 0)
    <3>1. Len(seen) = 0
      BY <1>1, <1>2
    <3> QED BY <1>2, <2>1, <3>1 DEF MarkedBy
  <2>3. /\ rate.recent = <<>> /\ rate.since = Minute /\ rate.count = 0
        /\ rate \in [count : Nat, since : Nat, peak : Nat, recent : Seq(Seconds)]
    BY <1>1, <1>2
  <2>4. \A j \in 1..Len(rate.recent) : rate.recent[j].at <= clock
    BY <1>2, <2>3
  <2>5. rate.since <= clock
    BY <1>1, <1>2, <2>3
  <2> QED BY <2>2, <2>3, <2>4, <2>5 DEF RateInv
<1>8. ServicesInv
  <2> SUFFICES ASSUME NEW l PROVE ListOk(l, ListOf(l))
    BY DEF ServicesInv
  <2>1. ListOf(l) = <<>>
    BY <1>1, <1>2 DEF ListOf
  <2>2. ListOk(l, <<>>)
    BY <1>2, <1>4 DEF ListOk, EachOnce
  <2> QED BY <2>1, <2>2
<1>9. MemoryInv
  <2>1. WordsSince(cleared) = {} /\ \A t : Occurrences(t) = {}
    BY <1>1, <1>4 DEF WordsSince, Occurrences
  <2>5. DOMAIN memory.words = {} /\ \A t : Frequency(memory.words, t) = 0
    BY <1>1, <1>2 DEF Frequency
  <2>2. WordsInv
    BY <1>2, <1>3, <2>1, <2>5 DEF WordsInv
  <2>3. AttributesInv
    BY <1>1, <1>2, <1>3 DEF AttributesInv
  <2>4. cleared \in 0..Len(seen)
    BY <1>1, <1>2
  <2> QED BY <2>2, <2>3, <2>4 DEF MemoryInv
<1>10. LifetimeInv
  <2>1. LevelsSeen = {} /\ \A l : AtLevel(l) = {} /\ LevelCount(l) = 0
    BY <1>1, <1>2, <1>4 DEF LevelsSeen, AtLevel, LevelCount
  <2> QED BY <1>1, <1>2, <1>3, <2>1 DEF LifetimeInv
<1> QED BY <1>5, <1>6, <1>7, <1>8, <1>9, <1>10 DEF PanelsInv

LEMMA PanelsInductive == PanelsInv /\ [StatisticsNext]_statisticsVars => PanelsInv'
<1> SUFFICES ASSUME PanelsInv, [StatisticsNext]_statisticsVars PROVE PanelsInv'
  OBVIOUS
<1>1. SeenInv /\ HeatInv /\ RateInv /\ ServicesInv /\ MemoryInv /\ LifetimeInv /\ clock \in Nat
  BY DEF PanelsInv, SeenInv
<1>2. clock >= clock
  BY <1>1
<1>3. CASE CountEntry
  <2>1. PICK e \in Kept : Counts(e)
    BY <1>1, <1>3, EntryCounts
  <2> QED BY <1>1, <2>1, OneMoreSeen, HeatKeeps, RateCounts, ServicesKeep, MemoryKeeps, LifetimeKeeps
           DEF PanelsInv
<1>4. CASE ToggleLogTime
  <2>1. clock' = clock /\ UNCHANGED <<seen, rate, services, lifetime, memory, cleared>>
    BY <1>4 DEF ToggleLogTime
  <2>2. clock' \in Nat /\ clock' >= clock
    BY <1>1, <1>2, <2>1
  <2>3. SeenInv'
    BY <1>1, <2>1 DEF SeenInv, Kept
  <2>4. HeatInv'
    BY <1>1, <1>4, HeatToggles
  <2> QED BY <1>1, <2>1, <2>2, <2>3, <2>4, RateStays, ServicesStay, MemoryStays, LifetimeStays
           DEF PanelsInv
<1>5. CASE ManualReset
  <2>1. clock' = clock /\ UNCHANGED <<seen, byLogTime, heatmap, rebuilt, rate, services, lifetime>>
    BY <1>5 DEF ManualReset
  <2>2. clock' \in Nat /\ clock' >= clock
    BY <1>1, <1>2, <2>1
  <2>3. SeenInv'
    BY <1>1, <2>1 DEF SeenInv, Kept
  <2>4. MemoryInv'
    BY <1>1, <1>5, MemoryForgets
  <2> QED BY <1>1, <2>1, <2>2, <2>3, <2>4, HeatStays, RateStays, ServicesStay, LifetimeStays
           DEF PanelsInv
<1>6. CASE SecondPasses
  <2>1. /\ clock' = clock + 1
        /\ UNCHANGED <<seen, byLogTime, heatmap, rebuilt, rate, services, lifetime, memory, cleared>>
    BY <1>6 DEF SecondPasses
  <2>2. clock' \in Nat /\ clock' >= clock
    BY <1>1, <2>1
  <2>3. SeenInv'
    <3>1. PICK c, d : c = clock /\ d = clock'
      OBVIOUS
    <3>2. c \in Nat /\ d = c + 1 /\ seen \in Seq(Kept) /\ \A i \in 1..Len(seen) : seen[i].at <= c
      BY <1>1, <2>1, <3>1 DEF SeenInv
    <3>3. ASSUME NEW i \in 1..Len(seen) PROVE seen[i].at <= d
      <4>1. seen[i] \in Kept
        BY <3>2
      <4>2. seen[i].at \in Nat /\ seen[i].at <= c
        BY <3>2, <4>1 DEF Kept
      <4> QED BY <3>2, <4>2
    <3>4. (\A i \in 1..Len(seen) : seen[i].at <= clock)'
      BY <2>1, <3>1, <3>3
    <3> QED BY <2>1, <2>2, <3>2, <3>4 DEF SeenInv, Kept
  <2> QED BY <1>1, <2>1, <2>2, <2>3, HeatStays, RateStays, ServicesStay, MemoryStays, LifetimeStays
           DEF PanelsInv
<1>7. CASE StoreRate
  <2>1. /\ clock' = clock
        /\ UNCHANGED <<seen, byLogTime, heatmap, rebuilt, services, lifetime, memory, cleared>>
    BY <1>7 DEF StoreRate
  <2>2. clock' \in Nat /\ clock' >= clock
    BY <1>1, <1>2, <2>1
  <2>3. SeenInv'
    BY <1>1, <2>1 DEF SeenInv, Kept
  <2>4. RateInv'
    BY <1>1, <1>7, RateStores
  <2> QED BY <1>1, <2>1, <2>2, <2>3, <2>4, HeatStays, ServicesStay, MemoryStays, LifetimeStays
           DEF PanelsInv
<1>8. CASE UNCHANGED statisticsVars
  <2>1. /\ clock' = clock
        /\ UNCHANGED <<seen, byLogTime, heatmap, rebuilt, rate, services, lifetime, memory, cleared>>
    BY <1>8 DEF statisticsVars
  <2>2. clock' \in Nat /\ clock' >= clock
    BY <1>1, <1>2, <2>1
  <2>3. SeenInv'
    BY <1>1, <2>1 DEF SeenInv, Kept
  <2> QED BY <1>1, <2>1, <2>2, <2>3, HeatStays, RateStays, ServicesStay, MemoryStays, LifetimeStays
           DEF PanelsInv
<1> QED BY <1>3, <1>4, <1>5, <1>6, <1>7, <1>8 DEF StatisticsNext

(* Whatever the panels have forgotten, what each of them shows of the       *)
(* entries is exact: the heatmap, the rate, the services, the memory and    *)
(* the lifetime counters tell of the same arrivals (update.go, frequency.go). *)
THEOREM PanelsAgree == StatisticsSpec => []StatisticsExact
<1>1. PanelsInv => StatisticsExact
  BY HeatIsExact, RateIsExact, ServicesAreComplete, MemoryIsExact, LifetimeIsExact
     DEF PanelsInv, StatisticsExact
<1> QED BY <1>1, PanelsInitial, PanelsInductive, PTL DEF StatisticsSpec
=============================================================================
