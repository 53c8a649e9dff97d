----------------------------- MODULE Selection -----------------------------
(***************************************************************************)
(* Elements taken from a sequence by their places: what a filter of an     *)
(* iterator collects, with the places that pass the filter as a set.       *)
(***************************************************************************)
EXTENDS Integers, Sequences

\* The elements of seq at the places in S, in the order of seq.
Chosen(seq, S) ==
    LET upto[n \in 0 .. Len(seq)] ==
          IF n = 0 THEN <<>>
          ELSE IF n \in S THEN Append(upto[n - 1], seq[n]) ELSE upto[n - 1]
    IN  upto[Len(seq)]
=============================================================================
