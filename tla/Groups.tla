------------------------------- MODULE Groups -------------------------------
(***************************************************************************)
(* groups.rs: Capstone's names of instruction groups, reduced to a small   *)
(* vocabulary.  Of the many vector families one name for each test of the  *)
(* code stands for all.                                                    *)
(***************************************************************************)
EXTENDS Integers, Sequences

CONSTANT None       \* Rust's None

\* Names that begin with sse, avx, mmx or vec, or are neon, in any case of letters.
VectorNames == {"sse2", "AVX512", "mmx", "vector", "neon"}

normalize(raw) ==
    CASE raw \in {"call", "jump", "ret", "branch_relative", "fpu", "vm"} -> raw
      [] raw \in {"int", "iret"} -> "int"
      [] raw = "privilege"       -> "privileged"
      [] raw \in VectorNames     -> "sse"
      [] OTHER                   -> None

\* Mutant of normalize_all: no de-duplication.
normalize_each(raw) == SelectSeq([k \in DOMAIN raw |-> normalize(raw[k])], LAMBDA g : g # None)

\* The names in a list.
Held(list) == {list[k] : k \in DOMAIN list}

\* The loop over the raw names: a name is dropped, or pushed if it is new.
normalize_all(raw) ==
    LET out[n \in 0 .. Len(raw)] ==
          IF n = 0 THEN <<>>
          ELSE IF normalize(raw[n]) \in Held(out[n - 1]) \cup {None} THEN out[n - 1]
          ELSE Append(out[n - 1], normalize(raw[n]))
    IN  out[Len(raw)]

(***************************************************************************)
(* What the list promises a query that filters on it: every group of the   *)
(* instruction once, in the order Capstone gave them, and no other name.   *)
(***************************************************************************)
FirstAt(raw, g) == CHOOSE k \in DOMAIN raw :
                     normalize(raw[k]) = g /\ \A j \in 1 .. k - 1 : normalize(raw[j]) # g

IsNormalized(list, raw) ==
    /\ Held(list) = {normalize(raw[k]) : k \in DOMAIN raw} \ {None}
    /\ \A k \in 1 .. Len(list) - 1 : FirstAt(raw, list[k]) < FirstAt(raw, list[k + 1])
=============================================================================
