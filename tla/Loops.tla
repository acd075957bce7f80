---------------------------------- MODULE Loops ----------------------------------
(***************************************************************************)
(* What a loop over a sequence holds after each of its rounds: the sum so  *)
(* far, or the elements it has picked.  Each is a recursive function of    *)
(* the number of rounds.  The folds of the community modules recurse over  *)
(* sets of indices, and SelectSeq takes an operator: the provers know      *)
(* nothing of either.  LoopsProofs has what these functions obey.          *)
(***************************************************************************)
EXTENDS Integers, Sequences

(* The sums of the first terms, from none of them to all. *)
PartialSums(values) ==
  LET sum[n \in 0..Len(values)] == IF n = 0 THEN 0 ELSE sum[n - 1] + values[n]
  IN  sum

SeqSum(values) == PartialSums(values)[Len(values)]

(* The elements of T among the first of s, in their order. *)
PartialPicks(s, T) ==
  LET picks[n \in 0..Len(s)] ==
        IF n = 0 THEN <<>>
        ELSE IF s[n] \in T THEN Append(picks[n - 1], s[n]) ELSE picks[n - 1]
  IN  picks

Picked(s, T) == PartialPicks(s, T)[Len(s)]
=============================================================================
