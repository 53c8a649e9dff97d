----------------------------- MODULE InsnStream -----------------------------
(***************************************************************************)
(* What a linear sweep promises, without batches: instructions are decoded *)
(* one at a time, each from where the one before it ended; a byte at which *)
(* nothing decodes becomes a row of its own.  The stream stops at the end  *)
(* of the slice or when the output holds MaxInsns rows.                    *)
(***************************************************************************)
EXTENDS Insns

VARIABLES
    blob, code, base,   \* the request: bytes, slice, address of its first byte
    out,                \* the rows so far, earlier regions' rows first
    pos,                \* offset in the slice of the next row's first byte
    done

vars == <<blob, code, base, out, pos, done>>

Init ==
    /\ blob \in Blobs
    /\ code \in Slices(Len(blob))
    /\ base \in 0 .. AddrSpace - 1
    /\ out \in EarlierRows
    /\ pos = 0
    /\ done = FALSE

Decode ==
    /\ ~done
    /\ pos < code.len
    /\ Len(out) < MaxInsns
    /\ LET row == RowAt(blob, code, base, pos)
       IN  /\ out' = Append(out, row)
           /\ pos' = pos + row.size
    /\ UNCHANGED <<blob, code, base, done>>

Stop ==
    /\ ~done
    /\ pos >= code.len \/ Len(out) >= MaxInsns
    /\ done' = TRUE
    /\ UNCHANGED <<blob, code, base, out, pos>>

Next == Decode \/ Stop

Spec == Init /\ [][Next]_vars /\ WF_vars(Next)
=============================================================================
