------------------------------ MODULE Descent ------------------------------
(***************************************************************************)
(* Tuples of n natural numbers, the first the most significant, as         *)
(* measures of what a program has left to do.  A program each step of      *)
(* which leads to a smaller tuple takes finitely many steps.               *)
(***************************************************************************)
EXTENDS Integers

Below(a, b, n) ==
    /\ a \in [1 .. n -> Nat] /\ b \in [1 .. n -> Nat]
    /\ \E k \in 1 .. n : a[k] < b[k] /\ \A l \in 1 .. k - 1 : a[l] = b[l]
=============================================================================
