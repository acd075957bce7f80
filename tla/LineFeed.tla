------------------------------- MODULE LineFeed -------------------------------
(***************************************************************************)
(* What the program loop may rely on, without reader, watchers, channels   *)
(* or offsets: it is given the lines of the files one at a time, each once *)
(* and those of one file in the order they were written; then it is told   *)
(* once that the input is over, not before it was given all it must have,  *)
(* unless the input was disturbed.  Module FileInput implements this       *)
(* specification.                                                          *)
(***************************************************************************)
EXTENDS Naturals, Sequences, Functions

CONSTANT Needed   \* the lines that may not be missing at the end

VARIABLES
  given,    \* the lines, <<file, number>>, the loop was given so far
  over,     \* it was told that the input is over
  excused   \* the user has quit, or a file has lost lines

vars == <<given, over, excused>>

Newer(line) == \A i \in DOMAIN given : given[i][1] = line[1] => given[i][2] < line[2]

Give ==
  /\ ~over
  /\ \E line \in Range(given') : Newer(line) /\ given' = Append(given, line)
  /\ UNCHANGED <<over, excused>>

End ==
  /\ ~over
  /\ excused \/ Needed \subseteq Range(given)
  /\ over' = TRUE
  /\ UNCHANGED <<given, excused>>

Disturb ==
  /\ ~excused
  /\ excused' = TRUE
  /\ UNCHANGED <<given, over>>

Init == given = <<>> /\ over = FALSE /\ excused = FALSE

Next == Give \/ End \/ Disturb

Spec == Init /\ [][Next]_vars
=============================================================================
