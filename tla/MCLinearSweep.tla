--------------------------- MODULE MCLinearSweep ---------------------------
(***************************************************************************)
(* Instances of LinearSweep for TLC: short blobs, instructions of up to    *)
(* three bytes, an output of a few rows.                                   *)
(***************************************************************************)
EXTENDS LinearSweep

RealLens == 1 .. 3      \* overlapping decodes, and one that does not fit
OddLens == {0, 2}       \* a decoder that may return an instruction of no bytes
=============================================================================
