---------------------------- MODULE LinearSweep ----------------------------
(***************************************************************************)
(* engine::sweep_into, the linear sweep with bad-byte resume, over one     *)
(* slice of a blob.                                                        *)
(*                                                                         *)
(* The sweep does not decode one instruction at a time: it calls           *)
(* Capstone's disasm_all on all the bytes that remain, copies the batch    *)
(* it returns into the output row by row while the row cap allows, and     *)
(* then advances by the bytes of the rows it copied.  Only when the batch  *)
(* is empty does it emit a byte and resume behind it.  Capstone's loop     *)
(* (external) runs in steps of its own here: it appends instructions       *)
(* until one does not decode.                                              *)
(***************************************************************************)
EXTENDS Insns, Descent

VARIABLES
    blob,       \* what the decoder says at each byte; fixed
    code,       \* the slice to sweep
    base,       \* address of the slice's first byte
    out,        \* the output vector, shared by all the regions of a request
    start,      \* its length when the sweep was called
    offset,     \* offset in the slice of the bytes not yet swept
    insns,      \* the batch disasm_all is building, or has returned
    csOff,      \* offset in the slice Capstone has decoded up to
    next,       \* index of the batch's next instruction to copy
    consumed,   \* bytes of the batch's instructions copied so far
    pc          \* "loop", "capstone" (in disasm_all), "rows" (copying), "done"

params == <<blob, code, base>>
locals == <<start, offset, insns, csOff, next, consumed>>
vars == <<blob, code, base, out, locals, pc>>

Insn == [at : Nat, len : InsnLens]

-----------------------------------------------------------------------------
\* The state of sweep_into when it is entered with the rows r in the output.
Entered(r) ==
    /\ start = Len(r)
    /\ offset = 0
    /\ insns = <<>>
    /\ csOff = 0
    /\ next = 1
    /\ consumed = 0

Init ==
    /\ blob \in Blobs
    /\ code \in Slices(Len(blob))
    /\ base \in 0 .. AddrSpace - 1
    /\ out \in EarlierRows
    /\ Entered(out)
    /\ pc = "loop"

Capped == Len(out) >= MaxInsns

(***************************************************************************)
(* while offset < code.len() { if out.len() >= max_total { break; } ...    *)
(***************************************************************************)
EndOfSlice ==
    /\ pc = "loop"
    /\ offset >= code.len
    /\ pc' = "done"
    /\ UNCHANGED <<params, out, locals>>

CapReached ==
    /\ pc = "loop"
    /\ offset < code.len
    /\ Capped
    /\ pc' = "done"
    /\ UNCHANGED <<params, out, locals>>

\* Mutant of CallCapstone: the loop does not test the cap.
CallCapstoneUncapped ==
    /\ pc = "loop"
    /\ offset < code.len
    /\ insns' = <<>>
    /\ csOff' = offset
    /\ pc' = "capstone"
    /\ UNCHANGED <<params, out, start, offset, next, consumed>>

CallCapstone ==
    /\ pc = "loop"
    /\ offset < code.len
    /\ ~Capped
    /\ insns' = <<>>
    /\ csOff' = offset
    /\ pc' = "capstone"
    /\ UNCHANGED <<params, out, start, offset, next, consumed>>

(***************************************************************************)
(* disasm_all (external): a greedy batch that ends where nothing decodes.  *)
(* Real instructions have a length; the engine still guards against a      *)
(* batch that advances by nothing, so a length 0 is allowed, last in its   *)
(* batch.                                                                  *)
(***************************************************************************)
BatchEnds ==
    \/ InsnAt(blob, code, csOff) = Undecodable
    \/ insns # <<>> /\ insns[Len(insns)].len = 0

CapstoneDecodes ==
    /\ pc = "capstone"
    /\ ~BatchEnds
    /\ LET l == InsnAt(blob, code, csOff)
       IN  /\ insns' = Append(insns, [at |-> csOff, len |-> l])
           /\ csOff' = csOff + l
    /\ UNCHANGED <<params, out, start, offset, next, consumed, pc>>

\* Mutant of BatchReturned: the index into the batch is not reset.
BatchReturnedNoReset ==
    /\ pc = "capstone"
    /\ BatchEnds
    /\ insns # <<>>
    /\ consumed' = 0
    /\ pc' = "rows"
    /\ UNCHANGED <<params, out, start, offset, insns, csOff, next>>

\* Ok(insns) if !insns.is_empty()
BatchReturned ==
    /\ pc = "capstone"
    /\ BatchEnds
    /\ insns # <<>>
    /\ next' = 1
    /\ consumed' = 0
    /\ pc' = "rows"
    /\ UNCHANGED <<params, out, start, offset, insns, csOff>>

EmptyBatch == pc = "capstone" /\ BatchEnds /\ insns = <<>>

\* Mutants of BadByte: the address is the base; the decoder is called again at
\* the same byte.
BadByteAtBase ==
    /\ EmptyBatch
    /\ out' = Append(out, [BadRow(code, base, offset) EXCEPT !.address = base])
    /\ offset' = offset + 1
    /\ pc' = "loop"
    /\ UNCHANGED <<params, start, insns, csOff, next, consumed>>

BadByteRetried ==
    /\ EmptyBatch
    /\ pc' = "loop"
    /\ UNCHANGED <<params, out, locals>>

\* Err or an empty batch: emit the byte, resume at the next one.
BadByte ==
    /\ EmptyBatch
    /\ out' = Append(out, BadRow(code, base, offset))
    /\ offset' = offset + 1
    /\ pc' = "loop"
    /\ UNCHANGED <<params, start, insns, csOff, next, consumed>>

\* Mutant of CopyRow: the inner loop does not test the cap.
CopyRowUncapped ==
    /\ pc = "rows"
    /\ next <= Len(insns)
    /\ out' = Append(out, InsnRow(code, base, insns[next].at, insns[next].len))
    /\ consumed' = consumed + insns[next].len
    /\ next' = next + 1
    /\ UNCHANGED <<params, start, offset, insns, csOff, pc>>

\* for insn in insns.iter() { if out.len() >= max_total { break; } ...
CopyRow ==
    /\ pc = "rows"
    /\ next <= Len(insns)
    /\ ~Capped
    /\ out' = Append(out, InsnRow(code, base, insns[next].at, insns[next].len))
    /\ consumed' = consumed + insns[next].len
    /\ next' = next + 1
    /\ UNCHANGED <<params, start, offset, insns, csOff, pc>>

BatchLeft == pc = "rows" /\ (next > Len(insns) \/ Capped)

\* Mutant of Advance: behind the whole batch, whatever was copied of it.
AdvanceByBatch ==
    /\ BatchLeft
    /\ consumed # 0
    /\ offset' = csOff
    /\ consumed' = 0
    /\ pc' = "loop"
    /\ UNCHANGED <<params, out, start, insns, csOff, next>>

\* Mutant of Advance: consumed is not tested.
AdvanceUntested ==
    /\ BatchLeft
    /\ offset' = offset + consumed
    /\ consumed' = 0
    /\ pc' = "loop"
    /\ UNCHANGED <<params, out, start, insns, csOff, next>>

\* offset += consumed
Advance ==
    /\ BatchLeft
    /\ consumed # 0
    /\ offset' = offset + consumed
    /\ consumed' = 0
    /\ pc' = "loop"
    /\ UNCHANGED <<params, out, start, insns, csOff, next>>

\* consumed == 0: the byte is emitted too, whatever the cap says.
NothingConsumed ==
    /\ BatchLeft
    /\ consumed = 0
    /\ out' = Append(out, BadRow(code, base, offset))
    /\ offset' = offset + 1
    /\ pc' = "loop"
    /\ UNCHANGED <<params, start, insns, csOff, next, consumed>>

Next ==
    \/ EndOfSlice \/ CapReached \/ CallCapstone
    \/ CapstoneDecodes \/ BatchReturned \/ BadByte
    \/ CopyRow \/ Advance \/ NothingConsumed

Spec == Init /\ [][Next]_vars /\ WF_vars(Next)

-----------------------------------------------------------------------------
TypeOK ==
    /\ blob \in Blobs
    /\ code \in Slices(Len(blob))
    /\ base \in 0 .. AddrSpace - 1
    /\ out \in Seq(Row)
    /\ start \in Nat
    /\ offset \in Nat
    /\ insns \in Seq(Insn)
    /\ csOff \in Nat
    /\ next \in Nat \ {0}
    /\ consumed \in Nat
    /\ pc \in {"loop", "capstone", "rows", "done"}

\* The rows this sweep appended, and the offset up to which they reach.
Mine == start + 1 .. Len(out)
Swept == offset + consumed

(***************************************************************************)
(* The output never holds more rows than the cap, however many regions     *)
(* and batches fill it: both loops test the cap, at different moments, and *)
(* the row of an undecodable byte is pushed without a test of its own.     *)
(***************************************************************************)
RowsBounded == Len(out) <= MaxInsns

(***************************************************************************)
(* With a decoder that may return an instruction of no bytes, the          *)
(* defensive branch of sweep_into pushes its byte without testing the cap: *)
(* the output holds one row too many at most, and the loop then stops.     *)
(***************************************************************************)
OneRowTooMany == Len(out) <= MaxInsns + 1

(***************************************************************************)
(* The rows tile the swept bytes: the first begins where the slice begins, *)
(* each begins where the one before it ended, and the last ends where the  *)
(* sweep has got to.  No byte is lost or listed twice, across batches and  *)
(* bad bytes.                                                              *)
(***************************************************************************)
RowsTile ==
    /\ \A i \in Mine :
         /\ i = start + 1 => out[i].off = code.off
         /\ i + 1 \in Mine => out[i + 1].off = out[i].off + out[i].size
         /\ i = Len(out) => out[i].off + out[i].size = code.off + Swept
    /\ Mine = {} => Swept = 0
    /\ Swept <= code.len

(***************************************************************************)
(* Every row is the row a reader expects at its place: the instruction     *)
(* that decodes there when nothing before it is looked at, at the address  *)
(* base + offset (modulo the address space), or the bad byte.  A byte is   *)
(* reported as undecodable only if it is.                                  *)
(***************************************************************************)
RowsFaithful ==
    \A i \in Mine :
        /\ out[i].off - code.off \in 0 .. code.len - 1
        /\ out[i] = RowAt(blob, code, base, out[i].off - code.off)

\* When the sweep returns, it has swept the whole slice unless the cap stopped it.
WholeSliceUnlessCapped == pc = "done" => Swept = code.len \/ Capped

\* Each instruction of the batch begins where the one before it ended, and is
\* the one that decodes there; Capstone has got to the end of the last one.
BatchIsChain ==
    /\ \A k \in 1 .. Len(insns) :
         /\ insns[k].len = InsnAt(blob, code, insns[k].at)
         /\ k < Len(insns) => insns[k + 1].at = insns[k].at + insns[k].len
         /\ k = Len(insns) => csOff = insns[k].at + insns[k].len
    /\ insns # <<>> => insns[1].at = offset
    /\ insns = <<>> => csOff = offset

\* The next instruction to copy begins where the copied rows end.
CopyInPlace ==
    /\ insns # <<>>
    /\ next <= Len(insns) + 1
    /\ next <= Len(insns) => insns[next].at = Swept
    /\ next = Len(insns) + 1 => csOff = Swept
    /\ next = 1 => consumed = 0 /\ ~Capped
    /\ next > 1 => consumed > 0

(***************************************************************************)
(* While a batch is built and copied, the three cursors agree: the batch   *)
(* is the chain of instructions that decode from offset on, csOff is where *)
(* it ends, and the next instruction to copy begins offset + consumed      *)
(* bytes into the slice.  Capstone is called only below the cap and before *)
(* the end of the slice, and the sweep returns only at one of the two.     *)
(***************************************************************************)
BatchInPlace ==
    /\ start <= Len(out)
    /\ pc # "rows" => consumed = 0
    /\ pc = "capstone" => BatchIsChain /\ offset < code.len /\ ~Capped
    /\ pc = "rows" => BatchIsChain /\ CopyInPlace
    /\ pc = "done" => offset >= code.len \/ Capped

(***************************************************************************)
(* Rows are only ever appended, and at most one at a time: a row that was  *)
(* pushed is never taken back, changed or moved.                           *)
(***************************************************************************)
AppendsOneRow ==
    \/ out' = out
    \/ /\ Len(out') = Len(out) + 1
       /\ \A i \in 1 .. Len(out) : out'[i] = out[i]

RowsAppended == [][AppendsOneRow]_vars

(***************************************************************************)
(* The sweep never stalls, not even with a decoder that may return         *)
(* instructions of no bytes: every step leaves less to do.  An iteration   *)
(* of the loop sweeps at least a byte, and within it a batch is built and  *)
(* copied in finitely many steps.                                          *)
(***************************************************************************)
Stage ==
    CASE pc = "loop" -> 3 [] pc = "capstone" -> 2 [] pc = "rows" -> 1 [] pc = "done" -> 0

StageLeft ==
    CASE pc = "capstone" -> code.len - csOff + IF BatchEnds THEN 0 ELSE 1
      [] pc = "rows"     -> Len(insns) + 1 - next
      [] OTHER           -> 0

Left == <<code.len - offset, Stage, StageLeft>>

SweepAdvances == [][Below(Left', Left, 3)]_vars

(***************************************************************************)
(* Batching cannot be seen in the output: the sweep implements the stream  *)
(* of instructions decoded one at a time.  That the cap is kept, that rows *)
(* are only appended, that only the cap stops the sweep before the end of  *)
(* its slice, and that it returns, all follow from that.                   *)
(***************************************************************************)
Stream == INSTANCE InsnStream WITH pos <- Swept, done <- (pc = "done")
StreamSpec == Stream!Spec
=============================================================================
