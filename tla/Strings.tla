------------------------------ MODULE Strings ------------------------------
(***************************************************************************)
(* strings::strings, behind the table function strings() and the string    *)
(* heuristics of capabilities(): a scan for runs of printable bytes, then  *)
(* a scan for runs of printable UTF-16LE units, into one output.           *)
(*                                                                         *)
(* A byte is "printable", "nul" or "other": which character it is does not *)
(* matter, so a hit is the place, the encoding and the length of its value.*)
(***************************************************************************)
EXTENDS Descent, Sequences

CONSTANTS
    None,           \* Rust's None
    Blobs,          \* the blobs to scan, sequences of bytes
    MinLenArgs,     \* values of the argument min_len, None if it is not given
    DefaultMinLen,  \* the default of strings.rs in the worker
    UsizeMax,       \* the largest usize: 2^64 - 1, or 2^32 - 1 in the wasm build
    MaxScanBytes, MaxStrings, MaxStringLen  \* limits.rs

Byte == {"printable", "nul", "other"}

ASSUME BlobsAssumption == Blobs \subseteq Seq(Byte)
ASSUME MinLenArgsAssumption == MinLenArgs \subseteq Int \cup {None}
ASSUME StringLimitsAssumption ==
    /\ DefaultMinLen \in Nat /\ UsizeMax \in Nat
    /\ MaxScanBytes \in Nat /\ MaxStrings \in Nat /\ MaxStringLen \in Nat

VARIABLES
    data,       \* the bytes scanned: the first MaxScanBytes of the blob
    min_len,    \* shortest run to report
    out,        \* the hits
    i,          \* index into data, from 0
    start,      \* index of the current run's first byte
    cur,        \* characters of the current run
    pc          \* "ascii", "utf16" or, inside its inner loop, "run", "done"

vars == <<data, min_len, out, i, start, cur, pc>>

Least(a, b) == IF a <= b THEN a ELSE b

-----------------------------------------------------------------------------
\* data[p] is printable; a UTF-16LE unit of a printable character begins at p.
Printable(p) == p \in 0 .. Len(data) - 1 /\ data[p + 1] = "printable"
Unit(p) == Printable(p) /\ p + 1 < Len(data) /\ data[p + 2] = "nul"

\* What the worker passes on: a negative min_len is ignored, any other cut to a usize.
Given(arg) == IF arg = None \/ arg < 0 THEN DefaultMinLen ELSE arg % (UsizeMax + 1)

EffectiveMinLenUnclamped(arg) == Given(arg)     \* mutant of EffectiveMinLen: no .max(1)

\* The scan reports no empty run.
EffectiveMinLen(arg) == IF Given(arg) = 0 THEN 1 ELSE Given(arg)

Hit(offset, encoding, chars) ==
    [offset |-> offset, encoding |-> encoding, length |-> Least(chars, MaxStringLen)]

PushRunUncapped(hits, encoding) == Append(hits, Hit(start, encoding, cur)) \* mutant of push_run

\* push_run drops the run when the output is full.
push_run(hits, encoding) ==
    IF Len(hits) >= MaxStrings THEN hits ELSE Append(hits, Hit(start, encoding, cur))

\* The output after a run that has ended.
Closed(encoding) == IF cur >= min_len THEN push_run(out, encoding) ELSE out

Init ==
    /\ \E b \in Blobs : data = SubSeq(b, 1, Least(Len(b), MaxScanBytes))
    /\ \E m \in MinLenArgs : min_len = EffectiveMinLen(m)
    /\ out = <<>>
    /\ i = 0
    /\ start = 0
    /\ cur = 0
    /\ pc = "ascii"

-----------------------------------------------------------------------------
(***************************************************************************)
(* extract_ascii: one step for each byte, and one behind the last.  The    *)
(* cap is tested after every byte.                                         *)
(***************************************************************************)
\* After a byte the scan goes on behind it, or ends if the output is full.
NextByte(hits) ==
    IF Len(hits) >= MaxStrings
    THEN i' = 0 /\ pc' = "utf16"
    ELSE i' = i + 1 /\ pc' = "ascii"

PrintableByte ==
    /\ pc = "ascii"
    /\ Printable(i)
    /\ start' = IF cur = 0 THEN i ELSE start
    /\ cur' = cur + 1
    /\ NextByte(out)
    /\ UNCHANGED <<data, min_len, out>>

BreakByteNoClear ==     \* mutant of BreakByte: cur is not cleared
    /\ pc = "ascii"
    /\ i < Len(data) /\ ~Printable(i)
    /\ out' = Closed("ascii")
    /\ NextByte(out')
    /\ UNCHANGED <<data, min_len, start, cur>>

BreakByte ==
    /\ pc = "ascii"
    /\ i < Len(data) /\ ~Printable(i)
    /\ out' = Closed("ascii")
    /\ cur' = 0
    /\ NextByte(out')
    /\ UNCHANGED <<data, min_len, start>>

EndOfBytesNoRun ==      \* mutant of EndOfBytes: the run at the end is lost
    /\ pc = "ascii"
    /\ i = Len(data)
    /\ i' = 0
    /\ pc' = "utf16"
    /\ UNCHANGED <<data, min_len, out, start, cur>>

EndOfBytes ==
    /\ pc = "ascii"
    /\ i = Len(data)
    /\ out' = Closed("ascii")
    /\ i' = 0
    /\ pc' = "utf16"
    /\ UNCHANGED <<data, min_len, start, cur>>

-----------------------------------------------------------------------------
(***************************************************************************)
(* extract_utf16le: two nested loops over one index.                       *)
(***************************************************************************)
InData == i + 1 < Len(data)

EnterRun ==
    /\ pc = "utf16"
    /\ InData /\ Unit(i)
    /\ start' = i
    /\ cur' = 0
    /\ pc' = "run"
    /\ UNCHANGED <<data, min_len, out, i>>

SkipByte ==
    /\ pc = "utf16"
    /\ InData /\ ~Unit(i)
    /\ i' = i + 1
    /\ UNCHANGED <<data, min_len, out, start, cur, pc>>

ExtendRunInPlace ==     \* mutant of ExtendRun: the index does not move
    /\ pc = "run"
    /\ InData /\ Unit(i)
    /\ cur' = Least(cur + 1, Len(data))
    /\ UNCHANGED <<data, min_len, out, i, start, pc>>

ExtendRun ==
    /\ pc = "run"
    /\ InData /\ Unit(i)
    /\ cur' = cur + 1
    /\ i' = i + 2
    /\ UNCHANGED <<data, min_len, out, start, pc>>

CloseRunRewound ==      \* mutant of CloseRun: the inner loop had an index of its own
    /\ pc = "run"
    /\ ~(InData /\ Unit(i))
    /\ out' = Closed("utf16le")
    /\ pc' = IF Len(out') >= MaxStrings THEN "done" ELSE "utf16"
    /\ i' = start
    /\ UNCHANGED <<data, min_len, start, cur>>

CloseRun ==
    /\ pc = "run"
    /\ ~(InData /\ Unit(i))
    /\ out' = Closed("utf16le")
    /\ pc' = IF Len(out') >= MaxStrings THEN "done" ELSE "utf16"
    /\ UNCHANGED <<data, min_len, i, start, cur>>

\* The scan ends; out.truncate(MAX_STRINGS) has nothing left to cut.
EndOfUnits ==
    /\ pc = "utf16"
    /\ ~InData
    /\ out' = SubSeq(out, 1, Least(Len(out), MaxStrings))
    /\ pc' = "done"
    /\ UNCHANGED <<data, min_len, i, start, cur>>

Next ==
    \/ PrintableByte \/ BreakByte \/ EndOfBytes
    \/ EnterRun \/ SkipByte \/ ExtendRun \/ CloseRun \/ EndOfUnits

Spec == Init /\ [][Next]_vars /\ WF_vars(Next)

-----------------------------------------------------------------------------
\* The type invariant.
TypeOK ==
    /\ data \in Seq(Byte)
    /\ min_len \in Nat \ {0}
    /\ out \in Seq([offset : Nat, encoding : {"ascii", "utf16le"}, length : 0 .. MaxStringLen])
    /\ i \in Nat /\ start \in Nat /\ cur \in Nat
    /\ pc \in {"ascii", "utf16", "run", "done"}

(***************************************************************************)
(* MAX_STRINGS bounds the output of both scans together.                   *)
(***************************************************************************)
StringsBounded == Len(out) <= MaxStrings

(***************************************************************************)
(* What a run is, whoever looks for it: n >= min_len characters in a row   *)
(* from s on, that cannot be made longer at either end.                    *)
(***************************************************************************)
IsAsciiRun(s, n) ==
    /\ \A k \in 0 .. n - 1 : Printable(s + k)
    /\ ~Printable(s - 1) /\ ~Printable(s + n)

IsUtf16Run(s, n) ==
    /\ \A k \in 0 .. n - 1 : Unit(s + 2 * k)
    /\ ~Unit(s - 2) /\ ~Unit(s + 2 * n)

IsRun(encoding, s, n) ==
    /\ n >= min_len
    /\ IF encoding = "ascii" THEN IsAsciiRun(s, n) ELSE IsUtf16Run(s, n)

(***************************************************************************)
(* Every hit is the whole of a longest run: none is reported from its      *)
(* middle, cut at its end (but to MaxStringLen) or below min_len, whatever *)
(* run was being read when the loops changed over.                         *)
(***************************************************************************)
HitsAreRuns ==
    \A h \in DOMAIN out :
        \E n \in min_len .. Len(data) :
            /\ IsRun(out[h].encoding, out[h].offset, n)
            /\ out[h].length = Least(n, MaxStringLen)

(***************************************************************************)
(* No run is lost: when the scan ends below the cap, every longest run of  *)
(* either encoding, at an even or an odd offset, is a hit; a full output   *)
(* lacks a UTF-16 run only if no ASCII run is missing before it.           *)
(***************************************************************************)
Found(encoding, s) ==
    \E h \in DOMAIN out : out[h].encoding = encoding /\ out[h].offset = s

AllFound(encoding) ==
    \A s \in 0 .. Len(data) - 1 : \A n \in min_len .. Len(data) :
        IsRun(encoding, s, n) => Found(encoding, s)

NoRunLost ==
    pc = "done" =>
        /\ Len(out) < MaxStrings => AllFound("ascii") /\ AllFound("utf16le")
        /\ (\E h \in DOMAIN out : out[h].encoding = "utf16le") => AllFound("ascii")

(***************************************************************************)
(* The hits are in the order of the file, the ASCII ones before the UTF-16 *)
(* ones, and none is reported twice.                                       *)
(***************************************************************************)
HitsInOrder ==
    \A h \in 1 .. Len(out) - 1 :
        \/ out[h].encoding = out[h + 1].encoding /\ out[h].offset < out[h + 1].offset
        \/ out[h].encoding = "ascii" /\ out[h + 1].encoding = "utf16le"

(***************************************************************************)
(* The nested loops come to an end on every blob.                          *)
(***************************************************************************)
ScanReturns == <>(pc = "done")

(***************************************************************************)
(* Why they do: every step leaves less to do.  The loops of the UTF-16     *)
(* scan are left and entered without a move of their common index only     *)
(* where the other one moves it.                                           *)
(***************************************************************************)
Passes == CASE pc = "ascii" -> 2 [] pc = "done" -> 0 [] OTHER -> 1
ChangesLoop == (pc = "run") # Unit(i)

Left == <<Passes, Len(data) - i, IF ChangesLoop THEN 1 ELSE 0>>

ScanAdvances == [][Below(Left', Left, 3)]_vars
=============================================================================
