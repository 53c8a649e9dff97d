----------------------------- MODULE MCStrings -----------------------------
(***************************************************************************)
(* All blobs of up to seven bytes, one more than is scanned: room for two  *)
(* runs of either encoding, at even and odd offsets, and for one that the  *)
(* end of the scan cuts.                                                   *)
(***************************************************************************)
EXTENDS Strings

ShortBlobs == UNION {[1 .. n -> Byte] : n \in 0 .. 7}

\* 8 and 10 are 0 and 2 as a usize.
SomeMinLens == {None, -1, 0, 1, 2, 8, 10}
=============================================================================
