------------------------------- MODULE Insns -------------------------------
(***************************************************************************)
(* Instruction rows, and what Capstone tells engine.rs about a byte slice. *)
(*                                                                         *)
(* A blob is the sequence of what the decoder says at each of its bytes:   *)
(* blob[p + 1] is the length of the instruction whose first byte is at     *)
(* file position p, or Undecodable.  A slice [off, len] of the blob is a   *)
(* region handed to the sweep.  The text of an instruction (mnemonic,      *)
(* operands, groups) is a function of its bytes and address and is left    *)
(* out; its length and its address are what the sweep computes with.       *)
(***************************************************************************)
EXTENDS Common

CONSTANTS
    InsnLens,   \* the lengths of the instructions the decoder knows
    MaxBlob,    \* bytes of the largest blob
    MaxInsns    \* limits.rs MAX_INSNS: rows of one disassemble call

ASSUME InsnLensAssumption == InsnLens \subseteq Nat
ASSUME MaxBlobAssumption == MaxBlob \in Nat
ASSUME MaxInsnsAssumption == MaxInsns \in Nat

Undecodable == -1

\* What a byte of a blob may tell the decoder.
Byte == InsnLens \cup {Undecodable}

Blobs == UNION {[1 .. n -> Byte] : n \in 0 .. MaxBlob}
Slices(n) == {c \in [off : 0 .. n, len : 0 .. n] : c.off + c.len <= n}

(***************************************************************************)
(* The length of the instruction at offset p of the slice c, if one        *)
(* decodes there.  Capstone sees the slice only, so an instruction that    *)
(* would run past its end does not decode.                                 *)
(***************************************************************************)
InsnAt(blob, c, p) ==
    IF /\ p < c.len
       /\ blob[c.off + p + 1] # Undecodable
       /\ p + blob[c.off + p + 1] <= c.len
    THEN blob[c.off + p + 1]
    ELSE Undecodable

(***************************************************************************)
(* A row of disassemble().  off is the file position of the row's first    *)
(* byte: with size it stands for the field bytes.                          *)
(***************************************************************************)
Row == [kind    : {"insn", ".byte", "(error)"},
        address : 0 .. AddrSpace - 1,
        off     : Nat,
        size    : InsnLens \cup {0, 1}]

\* Mutant of InsnRow: plain addition, which leaves the address space.
InsnRowUnwrapped(c, base, p, l) ==
    [kind |-> "insn", address |-> base + p, off |-> c.off + p, size |-> l]

\* The row of the instruction of length l at offset p of the slice c.
InsnRow(c, base, p, l) ==
    [kind |-> "insn", address |-> Wrap(base + p), off |-> c.off + p, size |-> l]

\* Insn::bad: the one-byte row of the undecodable byte at offset p.
BadRow(c, base, p) ==
    [kind |-> ".byte", address |-> Wrap(base + p), off |-> c.off + p, size |-> 1]

\* Insn::arch_required: the diagnostic row.
ArchRequired == [kind |-> "(error)", address |-> 0, off |-> 0, size |-> 0]

\* The row a reader expects at offset p: the instruction there, or its byte.
RowAt(blob, c, base, p) ==
    IF InsnAt(blob, c, p) = Undecodable
    THEN BadRow(c, base, p)
    ELSE InsnRow(c, base, p, InsnAt(blob, c, p))

\* Rows an earlier region may have left in the output: only their number counts.
EarlierRow == [kind |-> ".byte", address |-> 0, off |-> 0, size |-> 1]
EarlierRows == {[i \in 1 .. n |-> EarlierRow] : n \in 0 .. MaxInsns}
=============================================================================
