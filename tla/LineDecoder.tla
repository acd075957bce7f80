----------------------------- MODULE LineDecoder -----------------------------
(***************************************************************************)
(* What the program makes of the lines it reads: lines about the           *)
(* collector's own signals are dropped, JSON that spans several lines is   *)
(* put together, and each document becomes the entries that are counted,   *)
(* indexed and shown.                                                      *)
(*                                                                         *)
(* A line is a record: signal (a collector's line on traces or metrics),   *)
(* brace (it starts with a brace) and depth (braces and brackets it opens  *)
(* minus those it closes).  Which format a document has is left open: the  *)
(* formats differ in how many log records they hold.                       *)
(***************************************************************************)
EXTENDS Integers, Sequences, FiniteSets, SequencesExt, Loops

CONSTANTS
  Lines,         \* the lines there are
  LogRecords,    \* records a document may hold: text, number, message
  MaxBatch       \* bound: records of one document

ASSUME LineDecoderAssumption ==
  /\ Lines \subseteq [signal : BOOLEAN, brace : BOOLEAN, depth : Int]
  /\ MaxBatch \in Nat \ {0}

VARIABLES
  jsonBuffer,      \* the lines put together so far
  jsonDepth,
  inJsonObject,
  logCount,        \* documents of the interval
  severityCounts,  \* entries of the interval by severity
  indexed,         \* entries the engine stored
  denied,          \* entries it refused, each a recorded denial
  shown,           \* entries given to the dashboard, by severity
  taken            \* history: lines processed, dropped, and part of a document

decoderVars == <<jsonBuffer, jsonDepth, inJsonObject, logCount, severityCounts,
                 indexed, denied, shown, taken>>

Levels == {"TRACE", "DEBUG", "INFO", "WARN", "ERROR", "FATAL"}
NoCounts == [s \in Levels |-> 0]

DecoderInit ==
  /\ jsonBuffer = <<>> /\ jsonDepth = 0 /\ inJsonObject = FALSE
  /\ logCount = 0 /\ severityCounts = NoCounts
  /\ indexed = 0 /\ denied = 0 /\ shown = NoCounts
  /\ taken = [all |-> 0, dropped |-> 0, decoded |-> 0]

-----------------------------------------------------------------------------
(* The severity of a record. *)

\* The usual spellings and everything that starts like one of them.
NormalizeSeverity(text) ==
  CASE text \in {"critical", "panic"} -> "FATAL"
    [] text = "warning" -> "WARN"
    [] text \in Levels -> text
    [] OTHER -> "INFO"

\* Only the first number of each range has a name.
SeverityNumberToString(n) ==
  LET names == [i \in {1, 5, 9, 13, 17, 21} |->
                  CASE i = 1 -> "TRACE" [] i = 5 -> "DEBUG" [] i = 9 -> "INFO"
                    [] i = 13 -> "WARN" [] i = 17 -> "ERROR" [] i = 21 -> "FATAL"]
  IN  IF n \in DOMAIN names THEN names[n] ELSE "INFO"

\* The first level the message mentions ("" for none).
SeverityFromText(message) == NormalizeSeverity(message)

\* The text, or else the number, or else the message.
SeverityOfRecord(r) ==
  NormalizeSeverity(IF r.text # "" THEN r.text
                    ELSE IF r.number # 0 THEN SeverityNumberToString(r.number)
                    ELSE SeverityFromText(r.message))

-----------------------------------------------------------------------------
(* Documents. *)

\* A batch and an expanded line hold any number of entries, none included
\* (records that fail to parse are left out); everything else is one entry,
\* if need be the text itself.
EntriesOf == UNION {[1..n -> LogRecords] : n \in 0..MaxBatch}

CountOf(made, s) == Cardinality({i \in DOMAIN made : SeverityOfRecord(made[i]) = s})
Plus(counts, made) == [s \in Levels |-> counts[s] + CountOf(made, s)]

\* Each entry is counted, indexed as far as the engine has room for it, and shown.
ProcessSingleLogEntries(made) ==
  /\ severityCounts' = Plus(severityCounts, made)
  /\ shown' = Plus(shown, made)
  /\ \E refused \in 0..Len(made) :
       indexed' = indexed + Len(made) - refused /\ denied' = denied + refused

\* One document is one line to logCount, whatever it holds.
ProcessDocument ==
  /\ logCount' = logCount + 1
  /\ \E made \in EntriesOf : ProcessSingleLogEntries(made)

NothingMade == UNCHANGED <<logCount, severityCounts, indexed, denied, shown>>

SumOfDepths(lines) == SeqSum([i \in DOMAIN lines |-> lines[i].depth])

Take(kind, n) == taken' = [taken EXCEPT !.all = @ + 1, ![kind] = @ + n]

\* Mutant: the depth is not taken back when a document is complete.
ResetBufferOnly == jsonBuffer' = <<>> /\ inJsonObject' = FALSE /\ jsonDepth' = jsonDepth

ResetJSONAccumulation == jsonBuffer' = <<>> /\ jsonDepth' = 0 /\ inJsonObject' = FALSE

Accumulate(line, buffer, depth) ==
  LET lines == Append(buffer, line)
      now == depth + line.depth
  IN  IF now <= 0
      THEN ResetJSONAccumulation /\ ProcessDocument /\ Take("decoded", Len(lines))
      ELSE /\ jsonBuffer' = lines /\ jsonDepth' = now /\ inJsonObject' = TRUE
           /\ NothingMade /\ taken' = [taken EXCEPT !.all = @ + 1]

\* A line is dropped even from the middle of a document.
ProcessLogLine(line) ==
  \/ /\ line.signal /\ Take("dropped", 1)
     /\ NothingMade /\ UNCHANGED <<jsonBuffer, jsonDepth, inJsonObject>>
  \/ /\ ~line.signal /\ inJsonObject
     /\ Accumulate(line, jsonBuffer, jsonDepth)
  \/ /\ ~line.signal /\ ~inJsonObject /\ line.brace
     /\ Accumulate(line, <<>>, 0)
  \/ /\ ~line.signal /\ ~inJsonObject /\ ~line.brace
     /\ ProcessDocument /\ Take("decoded", 1)
     /\ UNCHANGED <<jsonBuffer, jsonDepth, inJsonObject>>

-----------------------------------------------------------------------------

\* No line is lost or decoded twice: each was dropped, became part of exactly
\* one document, or waits in the buffer for its document to close -- and the
\* buffer is an open document, its depth that of its lines.
LinesAccountedFor ==
  /\ taken.all = taken.dropped + taken.decoded + Len(jsonBuffer)
  /\ inJsonObject = (jsonBuffer # <<>>)
  /\ jsonDepth = SumOfDepths(jsonBuffer)
  /\ inJsonObject => jsonDepth > 0
=============================================================================
