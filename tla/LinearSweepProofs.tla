------------------------- MODULE LinearSweepProofs -------------------------
(***************************************************************************)
(* Theorems about LinearSweep for every blob, cap, address space and set   *)
(* of instruction lengths.                                                 *)
(***************************************************************************)
EXTENDS LinearSweep, SelectionProofs

-----------------------------------------------------------------------------
(***************************************************************************)
(* Addresses stay in the address space.                                    *)
(***************************************************************************)
LEMMA WrapType == \A a \in Nat : Wrap(a) \in 0 .. AddrSpace - 1
BY AddrSpaceAssumption DEF Wrap

(***************************************************************************)
(* A blob is a sequence of bytes, so a slice of it has a byte at each of   *)
(* its offsets.                                                            *)
(***************************************************************************)
LEMMA BlobBytes ==
    ASSUME NEW b \in Blobs, NEW c \in Slices(Len(b)), NEW p \in Nat, p < c.len
    PROVE  /\ c.off \in Nat /\ c.len \in Nat
           /\ b[c.off + p + 1] \in Byte
<1>1. PICK n \in 0 .. MaxBlob : b \in [1 .. n -> Byte]
  BY DEF Blobs
<1>2. n \in Nat
  BY MaxBlobAssumption
<1>3. b \in Seq(Byte) /\ Len(b) = n
  BY <1>1, <1>2
<1>4. c.off \in 0 .. n /\ c.len \in 0 .. n /\ c.off + c.len <= n
  BY <1>3 DEF Slices
<1>5. c.off + p + 1 \in 1 .. n
  BY <1>2, <1>4
<1> QED
  BY <1>1, <1>4, <1>5

(***************************************************************************)
(* What decodes at an offset of a slice is an instruction length, and the  *)
(* instruction fits in the slice.                                          *)
(***************************************************************************)
LEMMA InsnAtType ==
    ASSUME NEW b \in Blobs, NEW c \in Slices(Len(b)), NEW p \in Nat,
           InsnAt(b, c, p) # Undecodable
    PROVE  /\ InsnAt(b, c, p) \in InsnLens
           /\ InsnAt(b, c, p) \in Nat
           /\ p < c.len
           /\ p + InsnAt(b, c, p) <= c.len
<1>1. p < c.len /\ InsnAt(b, c, p) = b[c.off + p + 1] /\ p + b[c.off + p + 1] <= c.len
  BY DEF InsnAt
<1>2. b[c.off + p + 1] \in Byte
  BY <1>1, BlobBytes
<1> QED
  BY <1>1, <1>2, InsnLensAssumption DEF Byte

(***************************************************************************)
(* Rows built from a slice, a base and an offset are rows.                 *)
(***************************************************************************)
LEMMA RowTypes ==
    ASSUME NEW c, c.off \in Nat, NEW b \in Nat, NEW p \in Nat, NEW l \in InsnLens
    PROVE  InsnRow(c, b, p, l) \in Row
<1>1. Wrap(b + p) \in 0 .. AddrSpace - 1
  BY WrapType
<1>2. c.off + p \in Nat
  OBVIOUS
<1> QED
  BY <1>1, <1>2 DEF InsnRow, Row

LEMMA BadRowType ==
    ASSUME NEW c, c.off \in Nat, NEW b \in Nat, NEW p \in Nat
    PROVE  BadRow(c, b, p) \in Row
<1>1. Wrap(b + p) \in 0 .. AddrSpace - 1
  BY WrapType
<1>2. c.off + p \in Nat
  OBVIOUS
<1> QED
  BY <1>1, <1>2 DEF BadRow, Row

-----------------------------------------------------------------------------
(***************************************************************************)
(* No step of the sweep changes the type of a variable.                    *)
(***************************************************************************)
LEMMA TypingStep == TypeOK /\ [Next]_vars => TypeOK'
<1> SUFFICES ASSUME TypeOK, [Next]_vars PROVE TypeOK'
  OBVIOUS
<1> USE DEF TypeOK, params, locals
<1>0. code.off \in Nat /\ code.len \in Nat /\ base \in Nat
  BY AddrSpaceAssumption DEF Slices
<1>1. BadRow(code, base, offset) \in Row
  BY <1>0, BadRowType
<1>2. CASE EndOfSlice
  BY <1>2 DEF EndOfSlice
<1>3. CASE CapReached
  BY <1>3 DEF CapReached
<1>4. CASE CallCapstone
  BY <1>4 DEF CallCapstone
<1>5. CASE CapstoneDecodes
  <2>1. InsnAt(blob, code, csOff) \in InsnLens /\ InsnAt(blob, code, csOff) \in Nat
    BY <1>5, InsnAtType DEF CapstoneDecodes, BatchEnds
  <2>2. [at |-> csOff, len |-> InsnAt(blob, code, csOff)] \in Insn
    BY <2>1 DEF Insn
  <2> QED
    BY <1>5, <2>1, <2>2 DEF CapstoneDecodes
<1>6. CASE BatchReturned
  BY <1>6 DEF BatchReturned
<1>7. CASE BadByte
  BY <1>1, <1>7 DEF BadByte, EmptyBatch
<1>8. CASE CopyRow
  <2>1. insns[next] \in Insn
    BY <1>8 DEF CopyRow
  <2>2. insns[next].at \in Nat /\ insns[next].len \in InsnLens /\ insns[next].len \in Nat
    BY <2>1, InsnLensAssumption DEF Insn
  <2>3. InsnRow(code, base, insns[next].at, insns[next].len) \in Row
    BY <1>0, <2>2, RowTypes
  <2> QED
    BY <1>8, <2>2, <2>3 DEF CopyRow
<1>9. CASE Advance
  BY <1>9 DEF Advance
<1>10. CASE NothingConsumed
  BY <1>1, <1>10 DEF NothingConsumed
<1>11. CASE UNCHANGED vars
  BY <1>11 DEF vars
<1> QED
  BY <1>2, <1>3, <1>4, <1>5, <1>6, <1>7, <1>8, <1>9, <1>10, <1>11 DEF Next

(***************************************************************************)
(* The variables of sweep_into keep their types: in particular every row   *)
(* has an address of the address space and the length of an instruction    *)
(* or of one byte.                                                         *)
(***************************************************************************)
THEOREM Typing == Spec => []TypeOK
<1>1. Init => TypeOK
  <2> SUFFICES ASSUME Init PROVE TypeOK
    OBVIOUS
  <2>1. PICK n \in 0 .. MaxInsns : out = [i \in 1 .. n |-> EarlierRow]
    BY DEF Init, EarlierRows
  <2>2. EarlierRow \in Row
    BY AddrSpaceAssumption DEF EarlierRow, Row
  <2>3. out \in Seq(Row) /\ Len(out) \in Nat
    BY <2>1, <2>2, MaxInsnsAssumption
  <2> QED
    BY <2>3 DEF Init, Entered, TypeOK, Insn
<1> QED
  BY <1>1, TypingStep, PTL DEF Spec

-----------------------------------------------------------------------------
(***************************************************************************)
(* The decoder's promise: an instruction has at least one byte.            *)
(***************************************************************************)
PositiveLens == 0 \notin InsnLens

(***************************************************************************)
(* The inductive invariant: what the rows say of the swept bytes holds     *)
(* because the batch is in place when it is copied.                        *)
(***************************************************************************)
IInv == TypeOK /\ BatchInPlace /\ RowsBounded /\ RowsTile /\ RowsFaithful

(***************************************************************************)
(* The row at an offset of the slice has at least one byte and stays in    *)
(* the slice.                                                              *)
(***************************************************************************)
LEMMA RowAtFits ==
    ASSUME PositiveLens,
           NEW b \in Blobs, NEW c \in Slices(Len(b)), NEW a \in Nat,
           NEW p \in Nat, p < c.len
    PROVE  /\ RowAt(b, c, a, p) \in Row
           /\ RowAt(b, c, a, p).off = c.off + p
           /\ RowAt(b, c, a, p).size \in Nat \ {0}
           /\ p + RowAt(b, c, a, p).size <= c.len
<1>1. c.off \in Nat /\ c.len \in Nat
  BY BlobBytes
<1>2. CASE InsnAt(b, c, p) = Undecodable
  <2>1. RowAt(b, c, a, p) = BadRow(c, a, p)
    BY <1>2 DEF RowAt
  <2> QED
    BY <1>1, <2>1, BadRowType DEF BadRow
<1>3. CASE InsnAt(b, c, p) # Undecodable
  <2>1. RowAt(b, c, a, p) = InsnRow(c, a, p, InsnAt(b, c, p))
    BY <1>3 DEF RowAt
  <2>2. /\ InsnAt(b, c, p) \in InsnLens
        /\ InsnAt(b, c, p) \in Nat \ {0}
        /\ p + InsnAt(b, c, p) <= c.len
    BY <1>3, InsnAtType DEF PositiveLens
  <2> QED
    BY <1>1, <2>1, <2>2, RowTypes DEF InsnRow
<1> QED
  BY <1>2, <1>3

(***************************************************************************)
(* Appending the row expected at the end of the swept bytes, and advancing *)
(* by its size, keeps the rows tiling and faithful.                        *)
(***************************************************************************)
LEMMA AppendKeepsTiling ==
    ASSUME PositiveLens, TypeOK, start <= Len(out), RowsTile, RowsFaithful,
           Swept < code.len,
           out' = Append(out, RowAt(blob, code, base, Swept)),
           Swept' = Swept + RowAt(blob, code, base, Swept).size,
           UNCHANGED <<params, start>>
    PROVE  RowsTile' /\ RowsFaithful'
<1> DEFINE r == RowAt(blob, code, base, Swept)
<1>1. Swept \in Nat /\ code.off \in Nat /\ code.len \in Nat /\ base \in Nat /\ start \in Nat
  BY AddrSpaceAssumption DEF TypeOK, Swept, Slices
<1>2. /\ r \in Row /\ r.off = code.off + Swept
      /\ r.size \in Nat \ {0} /\ Swept + r.size <= code.len
  BY <1>1, RowAtFits DEF TypeOK
<1>3. /\ out \in Seq(Row) /\ Len(out) \in Nat /\ Len(out') = Len(out) + 1
      /\ \A i \in 1 .. Len(out) : out'[i] = out[i]
      /\ out'[Len(out) + 1] = r
  BY <1>2 DEF TypeOK
<1>4. blob' = blob /\ code' = code /\ base' = base /\ start' = start
  BY DEF params
<1>5. Mine' = Mine \cup {Len(out) + 1} /\ Mine \subseteq 1 .. Len(out)
  BY <1>1, <1>3, <1>4 DEF Mine
<1>6. RowsTile'
  <2>1. ASSUME NEW i \in Mine'
        PROVE  /\ i = start' + 1 => out'[i].off = code'.off
               /\ i + 1 \in Mine' => out'[i + 1].off = out'[i].off + out'[i].size
               /\ i = Len(out') => out'[i].off + out'[i].size = code'.off + Swept'
    <3>1. CASE i \in Mine /\ i < Len(out)
      <4>1. i + 1 \in Mine /\ i + 1 \in 1 .. Len(out) /\ i \in 1 .. Len(out)
        BY <1>1, <1>3, <3>1 DEF Mine
      <4> QED
        BY <1>3, <1>4, <3>1, <4>1 DEF RowsTile
    <3>2. CASE i = Len(out) /\ i \in Mine
      <4>1. out[i].off + out[i].size = code.off + Swept
        BY <3>2 DEF RowsTile
      <4>2. i = start + 1 => out[i].off = code.off
        BY <3>2 DEF RowsTile
      <4> QED
        BY <1>2, <1>3, <1>4, <1>5, <3>2, <4>1, <4>2
    <3>3. CASE i = Len(out) + 1
      <4>1. i = start + 1 => Mine = {}
        BY <1>1, <1>3, <3>3 DEF Mine
      <4>2. i = start + 1 => Swept = 0
        BY <4>1 DEF RowsTile
      <4>3. i + 1 \notin Mine'
        BY <1>3, <3>3 DEF Mine
      <4> QED
        BY <1>1, <1>2, <1>3, <1>4, <3>3, <4>2, <4>3
    <3> QED
      BY <1>3, <1>5, <3>1, <3>2, <3>3
  <2>2. Mine' # {}
    BY <1>5
  <2>3. Swept' <= code'.len
    BY <1>2, <1>4
  <2> QED
    BY <2>1, <2>2, <2>3 DEF RowsTile
<1>7. RowsFaithful'
  <2>1. ASSUME NEW i \in Mine'
        PROVE  /\ out'[i].off - code'.off \in 0 .. code'.len - 1
               /\ out'[i] = RowAt(blob', code', base', out'[i].off - code'.off)
    <3>1. CASE i \in Mine
      BY <1>3, <1>4, <1>5, <3>1 DEF RowsFaithful
    <3>2. CASE i = Len(out) + 1
      <4>1. out'[i].off - code.off = Swept
        BY <1>1, <1>2, <1>3, <3>2
      <4> QED
        BY <1>1, <1>3, <1>4, <3>2, <4>1
    <3> QED
      BY <1>5, <3>1, <3>2
  <2> QED
    BY <2>1 DEF RowsFaithful
<1> QED
  BY <1>6, <1>7

(***************************************************************************)
(* The inductive step, without the appended rows: an action that leaves    *)
(* the output and the swept bytes alone keeps the rows' properties.        *)
(***************************************************************************)
LEMMA SameRows ==
    ASSUME RowsBounded, RowsTile, RowsFaithful,
           out' = out, Swept' = Swept, UNCHANGED <<params, start>>
    PROVE  RowsBounded' /\ RowsTile' /\ RowsFaithful'
BY DEF RowsBounded, RowsTile, RowsFaithful, Mine, params

(***************************************************************************)
(* Capstone's next instruction begins where the batch ends, so the batch   *)
(* stays a chain.                                                          *)
(***************************************************************************)
LEMMA ChainGoesOn ==
    ASSUME TypeOK, BatchIsChain, ~BatchEnds,
           insns' = Append(insns, [at |-> csOff, len |-> InsnAt(blob, code, csOff)]),
           csOff' = csOff + InsnAt(blob, code, csOff),
           UNCHANGED <<blob, code, offset>>
    PROVE  BatchIsChain'
<1> DEFINE l == InsnAt(blob, code, csOff)
<1>0. insns \in Seq(Insn) /\ Len(insns) \in Nat /\ csOff \in Nat
  BY DEF TypeOK
<1>1. l \in InsnLens /\ l \in Nat
  BY InsnAtType DEF BatchEnds, TypeOK
<1>2. [at |-> csOff, len |-> l] \in Insn
  BY <1>0, <1>1 DEF Insn
<1>3. /\ Len(insns') = Len(insns) + 1
      /\ insns'[Len(insns) + 1] = [at |-> csOff, len |-> l]
      /\ \A k \in 1 .. Len(insns) : insns'[k] = insns[k]
      /\ insns' # <<>>
      /\ csOff' = csOff + l
  BY <1>0, <1>2
<1>4. insns'[1].at = offset'
  <2>1. CASE insns = <<>>
    BY <1>3, <2>1 DEF BatchIsChain
  <2>2. CASE insns # <<>>
    <3>1. 1 \in 1 .. Len(insns)
      BY <1>0, <2>2
    <3> QED
      BY <1>3, <2>2, <3>1 DEF BatchIsChain
  <2> QED
    BY <2>1, <2>2
<1>5. ASSUME NEW k \in 1 .. Len(insns')
      PROVE  /\ insns'[k].len = InsnAt(blob', code', insns'[k].at)
             /\ k < Len(insns') => insns'[k + 1].at = insns'[k].at + insns'[k].len
             /\ k = Len(insns') => csOff' = insns'[k].at + insns'[k].len
  <2>1. CASE k \in 1 .. Len(insns) /\ k < Len(insns)
    <3>1. k + 1 \in 1 .. Len(insns)
      BY <1>0, <2>1
    <3> QED
      BY <1>0, <1>3, <2>1, <3>1 DEF BatchIsChain
  <2>2. CASE k = Len(insns) /\ k \in 1 .. Len(insns)
    BY <1>0, <1>3, <2>2 DEF BatchIsChain
  <2>3. CASE k = Len(insns) + 1
    BY <1>0, <1>1, <1>3, <2>3
  <2> QED
    BY <1>0, <1>3, <2>1, <2>2, <2>3
<1> QED
  BY <1>3, <1>4, <1>5 DEF BatchIsChain

(***************************************************************************)
(* The inductive step: no action of the sweep breaks the invariant.        *)
(***************************************************************************)
LEMMA SafetyStep ==
    ASSUME PositiveLens
    PROVE  IInv /\ [Next]_vars => (BatchInPlace /\ RowsBounded /\ RowsTile /\ RowsFaithful)'
<1> SUFFICES ASSUME TypeOK, BatchInPlace, RowsBounded, RowsTile, RowsFaithful, [Next]_vars
             PROVE  (BatchInPlace /\ RowsBounded /\ RowsTile /\ RowsFaithful)'
  BY DEF IInv
<1> USE DEF params, locals
<1>0. /\ offset \in Nat /\ consumed \in Nat /\ csOff \in Nat /\ next \in Nat \ {0}
      /\ insns \in Seq(Insn) /\ Len(insns) \in Nat /\ start \in Nat
      /\ out \in Seq(Row) /\ Len(out) \in Nat
      /\ code.len \in Nat /\ code.off \in Nat /\ base \in Nat
      /\ MaxInsns \in Nat /\ start <= Len(out)
  BY AddrSpaceAssumption, MaxInsnsAssumption DEF TypeOK, Slices, BatchInPlace
<1>1. CASE EndOfSlice
  <2>1. RowsBounded' /\ RowsTile' /\ RowsFaithful'
    BY <1>1, SameRows DEF EndOfSlice, Swept
  <2> QED
    BY <1>1, <2>1 DEF EndOfSlice, BatchInPlace
<1>2. CASE CapReached
  <2>1. RowsBounded' /\ RowsTile' /\ RowsFaithful'
    BY <1>2, SameRows DEF CapReached, Swept
  <2> QED
    BY <1>2, <2>1 DEF CapReached, BatchInPlace, Capped
<1>3. CASE CallCapstone
  <2>1. RowsBounded' /\ RowsTile' /\ RowsFaithful'
    BY <1>3, SameRows DEF CallCapstone, Swept
  <2> QED
    BY <1>3, <2>1 DEF CallCapstone, BatchInPlace, BatchIsChain, Capped
<1>4. CASE CapstoneDecodes
  <2>1. RowsBounded' /\ RowsTile' /\ RowsFaithful'
    BY <1>4, SameRows DEF CapstoneDecodes, Swept
  <2>2. BatchIsChain'
    BY <1>4, ChainGoesOn DEF CapstoneDecodes, BatchInPlace
  <2> QED
    BY <1>4, <2>1, <2>2 DEF CapstoneDecodes, BatchInPlace, Capped
<1>5. CASE BatchReturned
  <2>1. RowsBounded' /\ RowsTile' /\ RowsFaithful'
    BY <1>5, SameRows DEF BatchReturned, BatchInPlace, Swept
  <2>2. BatchIsChain /\ BatchIsChain'
    BY <1>5 DEF BatchReturned, BatchInPlace, BatchIsChain
  <2>3. CopyInPlace'
    <3>1. insns' = insns /\ insns # <<>> /\ Len(insns) >= 1 /\ next' = 1
          /\ consumed' = 0 /\ offset' = offset /\ out' = out
      BY <1>0, <1>5 DEF BatchReturned
    <3>2. insns[1].at = offset /\ ~Capped
      BY <1>5, <2>2, <3>1 DEF BatchReturned, BatchInPlace, BatchIsChain
    <3> QED
      BY <1>0, <3>1, <3>2 DEF CopyInPlace, Swept, Capped
  <2> QED
    BY <1>5, <2>1, <2>2, <2>3 DEF BatchReturned, BatchInPlace
<1>6. CASE BadByte
  <2>1. /\ csOff = offset /\ consumed = 0 /\ offset < code.len /\ ~Capped
    BY <1>6 DEF BadByte, EmptyBatch, BatchInPlace, BatchIsChain
  <2>2. InsnAt(blob, code, offset) = Undecodable
    BY <1>6, <2>1 DEF BadByte, EmptyBatch, BatchEnds
  <2>3. /\ RowAt(blob, code, base, Swept) = BadRow(code, base, offset)
        /\ RowAt(blob, code, base, Swept).size = 1
        /\ Swept = offset
    BY <1>0, <2>1, <2>2 DEF RowAt, Swept, BadRow
  <2>4. RowsTile' /\ RowsFaithful'
    BY <1>0, <1>6, <2>1, <2>3, AppendKeepsTiling DEF BadByte, EmptyBatch, Swept
  <2>5. RowsBounded' /\ start' <= Len(out')
    BY <1>0, <1>6, <2>1 DEF BadByte, EmptyBatch, RowsBounded, Capped
  <2> QED
    BY <1>6, <2>1, <2>4, <2>5 DEF BadByte, EmptyBatch, BatchInPlace
<1>7. CASE CopyRow
  <2> DEFINE l == insns[next].len
  <2>1. BatchIsChain /\ CopyInPlace
    BY <1>7 DEF CopyRow, BatchInPlace
  <2>2. next \in 1 .. Len(insns) /\ insns[next] \in Insn
    BY <1>0, <1>7 DEF CopyRow
  <2>3. insns[next].at = Swept /\ l = InsnAt(blob, code, Swept) /\ l \in Nat \ {0}
    <3>1. insns[next].at = Swept
      BY <2>1, <2>2 DEF CopyInPlace
    <3>2. l = InsnAt(blob, code, insns[next].at)
      BY <2>1, <2>2 DEF BatchIsChain
    <3>3. l \in InsnLens
      BY <2>2 DEF Insn
    <3> QED
      BY <3>1, <3>2, <3>3, InsnLensAssumption DEF PositiveLens
  <2>4. /\ RowAt(blob, code, base, Swept) = InsnRow(code, base, Swept, l)
        /\ RowAt(blob, code, base, Swept).size = l
    BY <2>3 DEF RowAt, InsnRow, Undecodable
  <2>5. Swept \in Nat /\ Swept < code.len
    BY <1>0, <2>3, InsnAtType DEF Swept, TypeOK, Undecodable
  <2>6. Swept' = Swept + l
    BY <1>0, <1>7, <2>3 DEF CopyRow, Swept
  <2>7. RowsTile' /\ RowsFaithful'
    BY <1>0, <1>7, <2>3, <2>4, <2>5, <2>6, AppendKeepsTiling DEF CopyRow
  <2>8. RowsBounded' /\ start' <= Len(out')
    BY <1>0, <1>7 DEF CopyRow, RowsBounded, Capped
  <2>9. BatchIsChain'
    BY <1>7, <2>1 DEF CopyRow, BatchIsChain
  <2>10. CopyInPlace'
    <3>1. next' = next + 1 /\ insns' = insns /\ csOff' = csOff /\ consumed' = consumed + l
      BY <1>7 DEF CopyRow
    <3>2. next < Len(insns) => insns[next + 1].at = Swept'
      BY <2>1, <2>2, <2>3, <2>6 DEF BatchIsChain
    <3>3. next = Len(insns) => csOff = Swept'
      BY <2>1, <2>2, <2>3, <2>6 DEF BatchIsChain
    <3>4. insns # <<>>
      BY <2>1 DEF CopyInPlace
    <3> QED
      BY <1>0, <2>2, <2>3, <3>1, <3>2, <3>3, <3>4 DEF CopyInPlace
  <2> QED
    BY <1>7, <2>7, <2>8, <2>9, <2>10 DEF CopyRow, BatchInPlace
<1>8. CASE Advance
  <2>1. Swept' = Swept
    BY <1>0, <1>8 DEF Advance, Swept
  <2>2. RowsBounded' /\ RowsTile' /\ RowsFaithful'
    BY <1>8, <2>1, SameRows DEF Advance
  <2> QED
    BY <1>8, <2>2 DEF Advance, BatchInPlace
<1>9. CASE NothingConsumed
  <2>1. CopyInPlace
    BY <1>9 DEF NothingConsumed, BatchLeft, BatchInPlace
  <2>2. next = 1 /\ ~Capped /\ Len(insns) >= 1
    BY <1>0, <1>9, <2>1 DEF NothingConsumed, CopyInPlace
  <2> QED
    BY <1>0, <1>9, <2>2 DEF NothingConsumed, BatchLeft
<1>10. CASE UNCHANGED vars
  <2>1. RowsBounded' /\ RowsTile' /\ RowsFaithful'
    BY <1>10, SameRows DEF vars, Swept
  <2> QED
    BY <1>10, <2>1 DEF vars, BatchInPlace, BatchIsChain, CopyInPlace, Capped, Swept
<1> QED
  BY <1>1, <1>2, <1>3, <1>4, <1>5, <1>6, <1>7, <1>8, <1>9, <1>10 DEF Next

(***************************************************************************)
(* If every instruction has at least one byte, then in every reachable     *)
(* state of the sweep the cap holds, the rows tile the swept bytes, each   *)
(* is the row that decodes at its place, and the batch is in place.        *)
(***************************************************************************)
LEMMA Safety ==
    ASSUME PositiveLens
    PROVE  Spec => [](RowsBounded /\ RowsTile /\ RowsFaithful /\ BatchInPlace)
<1>1. Init => BatchInPlace /\ RowsBounded /\ RowsTile /\ RowsFaithful
  <2> SUFFICES ASSUME Init PROVE BatchInPlace /\ RowsBounded /\ RowsTile /\ RowsFaithful
    OBVIOUS
  <2>1. PICK n \in 0 .. MaxInsns : out = [i \in 1 .. n |-> EarlierRow]
    BY DEF Init, EarlierRows
  <2>2. Len(out) \in Nat /\ Len(out) <= MaxInsns
    BY <2>1, MaxInsnsAssumption
  <2>3. Mine = {} /\ start = Len(out) /\ Swept = 0 /\ consumed = 0 /\ pc = "loop"
    BY <2>2 DEF Init, Entered, Mine, Swept
  <2>4. 0 <= code.len
    BY DEF Init, Slices
  <2> QED
    BY <2>2, <2>3, <2>4 DEF BatchInPlace, RowsBounded, RowsTile, RowsFaithful
<1> QED
  BY <1>1, SafetyStep, Typing, PTL DEF Spec, IInv

(***************************************************************************)
(* The cap holds, with a decoder whose instructions have a length.         *)
(***************************************************************************)
THEOREM Capping == ASSUME PositiveLens PROVE Spec => []RowsBounded
BY Safety, PTL

(***************************************************************************)
(* No swept byte is lost or listed twice, across batches and bad bytes.    *)
(***************************************************************************)
THEOREM Tiling == ASSUME PositiveLens PROVE Spec => []RowsTile
BY Safety, PTL

(***************************************************************************)
(* Every row is the row that decodes at its place.                         *)
(***************************************************************************)
THEOREM Faithfulness == ASSUME PositiveLens PROVE Spec => []RowsFaithful
BY Safety, PTL

(***************************************************************************)
(* The offset of the engine, the end of Capstone's batch and the bytes     *)
(* copied from it agree, whatever is cut off by the cap.                   *)
(***************************************************************************)
THEOREM CursorsAgree == ASSUME PositiveLens PROVE Spec => []BatchInPlace
BY Safety, PTL

(***************************************************************************)
(* When the sweep returns, every byte of the slice is listed, unless the   *)
(* cap stopped it.                                                         *)
(***************************************************************************)
THEOREM Completeness ==
    ASSUME PositiveLens
    PROVE  Spec => []WholeSliceUnlessCapped
<1>1. TypeOK /\ BatchInPlace /\ RowsTile => WholeSliceUnlessCapped
  <2> SUFFICES ASSUME TypeOK, BatchInPlace, RowsTile, pc = "done", ~Capped
               PROVE  Swept = code.len
    BY DEF WholeSliceUnlessCapped
  <2>1. offset \in Nat /\ code.len \in Nat
    BY DEF TypeOK, Slices
  <2>2. offset >= code.len /\ Swept = offset
    BY <2>1 DEF BatchInPlace, Swept
  <2> QED
    BY <2>1, <2>2 DEF RowsTile
<1> QED
  BY <1>1, Typing, Safety, PTL

(***************************************************************************)
(* Whatever the decoder returns, instructions of no bytes included: the    *)
(* cap is exceeded by one row at most.  Capstone is called only below the  *)
(* cap and a batch is copied up to it, so the one push without a test of   *)
(* its own comes after at most MaxInsns rows, and the loop then stops.     *)
(***************************************************************************)
CapInv ==
    /\ OneRowTooMany
    /\ pc = "capstone" => ~Capped
    /\ pc = "rows" => Len(out) <= MaxInsns

THEOREM CapExceededByOneAtMost == Spec => []OneRowTooMany
<1>1. Init => CapInv
  <2> SUFFICES ASSUME Init PROVE CapInv
    OBVIOUS
  <2>1. PICK n \in 0 .. MaxInsns : out = [i \in 1 .. n |-> EarlierRow]
    BY DEF Init, EarlierRows
  <2>2. Len(out) \in Nat /\ Len(out) <= MaxInsns
    BY <2>1, MaxInsnsAssumption
  <2> QED
    BY <2>2, MaxInsnsAssumption DEF Init, CapInv, OneRowTooMany
<1>2. TypeOK /\ CapInv /\ [Next]_vars => CapInv'
  <2> SUFFICES ASSUME TypeOK, CapInv, [Next]_vars PROVE CapInv'
    OBVIOUS
  <2> USE DEF CapInv, OneRowTooMany, Capped
  <2>1. Len(out) \in Nat /\ MaxInsns \in Nat
    BY MaxInsnsAssumption DEF TypeOK
  <2>2. CASE out' = out
    <3>1. Len(out') = Len(out)
      BY <2>2
    <3> QED
      BY <2>1, <2>2, <3>1 DEF Next, EndOfSlice, CapReached, CallCapstone,
                         CapstoneDecodes, BatchReturned, BadByte, EmptyBatch, CopyRow, Advance,
                         NothingConsumed, vars
  <2>3. CASE BadByte
    <3>1. Len(out') = Len(out) + 1 /\ pc' = "loop" /\ pc = "capstone"
      BY <2>3 DEF BadByte, EmptyBatch, TypeOK
    <3> QED
      BY <2>1, <3>1
  <2>4. CASE CopyRow
    <3>1. Len(out') = Len(out) + 1 /\ pc' = "rows" /\ ~Capped
      BY <2>4 DEF CopyRow, TypeOK
    <3> QED
      BY <2>1, <3>1
  <2>5. CASE NothingConsumed
    <3>1. Len(out') = Len(out) + 1 /\ pc' = "loop" /\ pc = "rows"
      BY <2>5 DEF NothingConsumed, BatchLeft, TypeOK
    <3> QED
      BY <2>1, <3>1
  <2> QED
    BY <2>2, <2>3, <2>4, <2>5 DEF Next, EndOfSlice, CapReached, CallCapstone,
                              CapstoneDecodes, BatchReturned, Advance, vars
<1> QED
  BY <1>1, <1>2, Typing, PTL DEF Spec, CapInv

-----------------------------------------------------------------------------
(***************************************************************************)
(* Rows already in the output are never changed: a step appends at most    *)
(* one row.  No assumption on the decoder is needed.                       *)
(***************************************************************************)
THEOREM Appending == Spec => RowsAppended
<1>1. TypeOK /\ [Next]_vars => AppendsOneRow
  <2> SUFFICES ASSUME TypeOK, Next, out' # out PROVE AppendsOneRow
    BY DEF vars, AppendsOneRow
  <2>1. ASSUME NEW r \in Row, out' = Append(out, r) PROVE AppendsOneRow
    BY <2>1 DEF AppendsOneRow, TypeOK
  <2>2. offset \in Nat /\ base \in Nat /\ code.off \in Nat
    BY AddrSpaceAssumption DEF TypeOK, Slices
  <2>3. BadRow(code, base, offset) \in Row
    BY <2>2, BadRowType
  <2>4. CASE BadByte
    BY <2>1, <2>3, <2>4 DEF BadByte, EmptyBatch
  <2>5. CASE NothingConsumed
    BY <2>1, <2>3, <2>5 DEF NothingConsumed
  <2>6. CASE CopyRow
    <3>1. insns[next] \in Insn
      BY <2>6 DEF CopyRow, TypeOK
    <3>2. InsnRow(code, base, insns[next].at, insns[next].len) \in Row
      BY <2>2, <3>1, RowTypes DEF Insn
    <3> QED
      BY <2>1, <2>6, <3>2 DEF CopyRow
  <2> QED
    BY <2>4, <2>5, <2>6 DEF Next, EndOfSlice, CapReached, CallCapstone,
                            CapstoneDecodes, BatchReturned, Advance
<1>2. TypeOK /\ [Next]_vars => [AppendsOneRow]_vars
  BY <1>1
<1> QED
  BY <1>2, Typing, PTL DEF Spec, RowsAppended

-----------------------------------------------------------------------------
(***************************************************************************)
(* Why the sweep returns, whatever the decoder returns: the cursors stay   *)
(* in the slice, and the engine's offset is at its end only when the loop  *)
(* is about to be left.  Unlike in CopyInPlace, copied instructions may    *)
(* have no bytes.                                                          *)
(***************************************************************************)
WithinSlice ==
    /\ offset <= code.len
    /\ pc \in {"capstone", "rows"} => BatchIsChain /\ csOff <= code.len /\ offset < code.len
    /\ pc = "rows" =>
         /\ next <= Len(insns) + 1
         /\ Swept <= code.len
         /\ next <= Len(insns) => insns[next].at = Swept

LEMMA WithinSliceStart == Init => WithinSlice
BY DEF Init, Entered, WithinSlice, Slices

LEMMA WithinSliceStep == TypeOK /\ WithinSlice /\ [Next]_vars => WithinSlice'
<1> SUFFICES ASSUME TypeOK, WithinSlice, [Next]_vars PROVE WithinSlice'
  OBVIOUS
<1> USE DEF params, locals
<1>0. /\ offset \in Nat /\ consumed \in Nat /\ csOff \in Nat /\ next \in Nat \ {0}
      /\ insns \in Seq(Insn) /\ Len(insns) \in Nat /\ code.len \in Nat
  BY DEF TypeOK, Slices
<1>1. CASE EndOfSlice \/ CapReached
  BY <1>1 DEF EndOfSlice, CapReached, WithinSlice
<1>2. CASE CallCapstone
  BY <1>0, <1>2 DEF CallCapstone, WithinSlice, BatchIsChain
<1>3. CASE CapstoneDecodes
  <2>1. csOff + InsnAt(blob, code, csOff) <= code.len
    BY <1>3, InsnAtType DEF CapstoneDecodes, BatchEnds, TypeOK
  <2>2. BatchIsChain'
    BY <1>3, ChainGoesOn DEF CapstoneDecodes, WithinSlice
  <2> QED
    BY <1>3, <2>1, <2>2 DEF CapstoneDecodes, WithinSlice
<1>4. CASE BatchReturned
  <2>1. Swept' = offset
    BY <1>0, <1>4 DEF BatchReturned, Swept
  <2>2. BatchIsChain' /\ insns[1].at = offset
    BY <1>4 DEF BatchReturned, WithinSlice, BatchIsChain
  <2> QED
    BY <1>0, <1>4, <2>1, <2>2 DEF BatchReturned, WithinSlice
<1>5. CASE BadByte \/ NothingConsumed
  <2>1. offset < code.len /\ offset' = offset + 1 /\ pc' = "loop" /\ code' = code
    BY <1>5 DEF BadByte, EmptyBatch, NothingConsumed, BatchLeft, WithinSlice
  <2> QED
    BY <1>0, <2>1 DEF WithinSlice
<1>6. CASE CopyRow
  <2> DEFINE l == insns[next].len
  <2>1. next \in 1 .. Len(insns) /\ insns[next] \in Insn /\ BatchIsChain
    BY <1>0, <1>6 DEF CopyRow, WithinSlice
  <2>2. insns[next].at = Swept /\ l \in InsnLens /\ l \in Nat /\ Swept \in Nat
    BY <1>0, <1>6, <2>1, InsnLensAssumption DEF CopyRow, WithinSlice, Insn, Swept
  <2>3. l = InsnAt(blob, code, Swept)
    BY <2>1, <2>2 DEF BatchIsChain
  <2>4. Swept + l <= code.len
    BY <2>2, <2>3, InsnAtType DEF TypeOK, Undecodable
  <2>5. Swept' = Swept + l
    BY <1>0, <1>6, <2>2 DEF CopyRow, Swept
  <2>6. next < Len(insns) => insns[next + 1].at = Swept'
    BY <2>1, <2>2, <2>5 DEF BatchIsChain
  <2>7. BatchIsChain'
    BY <1>6, <2>1 DEF CopyRow, BatchIsChain
  <2> QED
    BY <1>0, <1>6, <2>1, <2>4, <2>5, <2>6, <2>7 DEF CopyRow, WithinSlice
<1>7. CASE Advance
  <2>1. offset' = Swept /\ Swept <= code.len /\ pc' = "loop" /\ code' = code
    BY <1>7 DEF Advance, BatchLeft, WithinSlice, Swept
  <2> QED
    BY <2>1 DEF WithinSlice
<1>8. CASE UNCHANGED vars
  BY <1>8 DEF vars, WithinSlice, BatchIsChain, Swept
<1> QED
  BY <1>1, <1>2, <1>3, <1>4, <1>5, <1>6, <1>7, <1>8 DEF Next

\* What is left to do is a triple of natural numbers.
LeftIsTriple ==
    /\ code.len - offset \in Nat /\ Stage \in Nat /\ StageLeft \in Nat
    /\ Left \in [1 .. 3 -> Nat]

LEMMA LeftType == TypeOK /\ WithinSlice => LeftIsTriple
<1> SUFFICES ASSUME TypeOK, WithinSlice PROVE LeftIsTriple
  OBVIOUS
<1>1. /\ offset \in Nat /\ csOff \in Nat /\ next \in Nat \ {0} /\ Len(insns) \in Nat
      /\ code.len \in Nat /\ pc \in {"loop", "capstone", "rows", "done"}
  BY DEF TypeOK, Slices
<1>2. code.len - offset \in Nat
  BY <1>1 DEF WithinSlice
<1>3. Stage \in Nat
  BY <1>1 DEF Stage
<1>4. StageLeft \in Nat
  <2>1. CASE pc = "capstone"
    BY <1>1, <2>1 DEF StageLeft, WithinSlice
  <2>2. CASE pc = "rows"
    BY <1>1, <2>2 DEF StageLeft, WithinSlice
  <2>3. CASE pc \notin {"capstone", "rows"}
    BY <2>3 DEF StageLeft
  <2> QED
    BY <2>1, <2>2, <2>3
<1> QED
  BY <1>2, <1>3, <1>4 DEF Left, LeftIsTriple

\* Every step leaves less to do.
LEMMA LeftDecreases ==
    ASSUME TypeOK, WithinSlice, Next
    PROVE  Below(Left', Left, 3)
<1> USE DEF params, locals
<1>0. /\ offset \in Nat /\ consumed \in Nat /\ csOff \in Nat /\ next \in Nat \ {0}
      /\ insns \in Seq(Insn) /\ Len(insns) \in Nat /\ code.len \in Nat
  BY DEF TypeOK, Slices
<1>1. TypeOK' /\ WithinSlice'
  BY TypingStep, WithinSliceStep
<1>2. /\ code.len - offset \in Nat /\ Stage \in Nat /\ StageLeft \in Nat
      /\ (code.len - offset)' \in Nat /\ Stage' \in Nat /\ StageLeft' \in Nat
  <2>1. LeftIsTriple
    BY LeftType
  <2>2. LeftIsTriple'
    BY <1>1, LeftType, PTL
  <2> QED
    BY <2>1, <2>2 DEF LeftIsTriple
<1>3. \/ (code.len - offset)' < code.len - offset
      \/ (code.len - offset)' = code.len - offset /\ Stage' < Stage
      \/ (code.len - offset)' = code.len - offset /\ Stage' = Stage /\ StageLeft' < StageLeft
  <2>1. CASE EndOfSlice \/ CapReached \/ CallCapstone
    BY <2>1 DEF EndOfSlice, CapReached, CallCapstone, Stage
  <2>2. CASE CapstoneDecodes
    <3> DEFINE l == InsnAt(blob, code, csOff)
    <3>1. l \in InsnLens /\ l \in Nat
      BY <2>2, InsnAtType DEF CapstoneDecodes, BatchEnds, TypeOK
    <3>2. [at |-> csOff, len |-> l] \in Insn
      BY <1>0, <3>1 DEF Insn
    <3>3. Len(insns') = Len(insns) + 1 /\ insns'[Len(insns')] = [at |-> csOff, len |-> l]
      BY <1>0, <2>2, <3>2 DEF CapstoneDecodes
    <3>4. l = 0 => BatchEnds'
      <4>1. insns' # <<>>
        BY <1>0, <3>3
      <4>2. l = 0 => insns'[Len(insns')].len = 0
        BY <3>3
      <4> QED
        BY <4>1, <4>2 DEF BatchEnds
    <3>5. StageLeft = code.len - csOff + 1
      BY <1>0, <2>2 DEF CapstoneDecodes, StageLeft
    <3>6. StageLeft' = code.len - (csOff + l) + IF BatchEnds' THEN 0 ELSE 1
      BY <2>2 DEF CapstoneDecodes, StageLeft
    <3>7. StageLeft' < StageLeft
      <4>1. CASE l = 0
        BY <1>0, <3>4, <3>5, <3>6, <4>1
      <4>2. CASE l > 0
        BY <1>0, <3>1, <3>5, <3>6, <4>2
      <4> QED
        BY <3>1, <4>1, <4>2
    <3> QED
      BY <2>2, <3>7 DEF CapstoneDecodes, Stage
  <2>3. CASE BatchReturned
    BY <2>3 DEF BatchReturned, Stage
  <2>4. CASE BadByte \/ NothingConsumed
    BY <1>0, <2>4 DEF BadByte, EmptyBatch, NothingConsumed
  <2>5. CASE CopyRow
    BY <1>0, <2>5 DEF CopyRow, Stage, StageLeft
  <2>6. CASE Advance
    BY <1>0, <2>6 DEF Advance
  <2> QED
    BY <2>1, <2>2, <2>3, <2>4, <2>5, <2>6 DEF Next
<1> HIDE DEF Stage, StageLeft
<1> QED
  BY <1>2, <1>3, TripleBelow DEF Left

(***************************************************************************)
(* Every step of the sweep leaves less to do, whatever the decoder         *)
(* returns.  Tuples of natural numbers do not decrease for ever            *)
(* (NoEndlessDescent), so the sweep takes finitely many steps.             *)
(***************************************************************************)
THEOREM Advancing == Spec => SweepAdvances
<1>1. TypeOK /\ WithinSlice /\ [Next]_vars => [Below(Left', Left, 3)]_vars
  BY LeftDecreases
<1> QED
  BY <1>1, WithinSliceStart, WithinSliceStep, Typing, PTL DEF Spec, SweepAdvances

-----------------------------------------------------------------------------
(***************************************************************************)
(* The stream's instance of Insns means the same rows.                     *)
(***************************************************************************)
LEMMA StreamRowAt ==
    ASSUME NEW b, NEW c, NEW a, NEW p
    PROVE  Stream!RowAt(b, c, a, p) = RowAt(b, c, a, p)
BY DEF RowAt, InsnAt, InsnRow, BadRow, Wrap, Undecodable, Stream!RowAt,
       Stream!InsnAt, Stream!InsnRow, Stream!BadRow, Stream!Wrap, Stream!Undecodable

(***************************************************************************)
(* Every step of the sweep is a step of the stream, or one it does not see.*)
(***************************************************************************)
LEMMA StreamStep ==
    TypeOK /\ BatchInPlace /\ RowsTile /\ [Next]_vars => [Stream!Next]_(Stream!vars)
<1> SUFFICES ASSUME TypeOK, BatchInPlace, RowsTile, [Next]_vars
             PROVE  [Stream!Next]_(Stream!vars)
  OBVIOUS
<1> USE DEF params, locals
<1>0. /\ offset \in Nat /\ consumed \in Nat /\ next \in Nat \ {0}
      /\ insns \in Seq(Insn) /\ Len(insns) \in Nat /\ Len(out) \in Nat
      /\ code.len \in Nat /\ MaxInsns \in Nat /\ Swept <= code.len
  BY MaxInsnsAssumption DEF TypeOK, Slices, RowsTile
<1>1. CASE EndOfSlice \/ CapReached
  <2>1. Swept' = Swept /\ Swept = offset
    BY <1>0, <1>1 DEF EndOfSlice, CapReached, BatchInPlace, Swept
  <2>2. Stream!Stop
    BY <1>0, <1>1, <2>1 DEF EndOfSlice, CapReached, Capped, Stream!Stop
  <2> QED
    BY <2>2 DEF Stream!Next
<1>2. CASE CallCapstone \/ CapstoneDecodes
  BY <1>2 DEF CallCapstone, CapstoneDecodes, Swept, Stream!vars
<1>3. CASE BatchReturned
  BY <1>3 DEF BatchReturned, BatchInPlace, Swept, Stream!vars
<1>4. CASE BadByte
  <2>1. csOff = offset /\ consumed = 0 /\ offset < code.len /\ ~Capped
    BY <1>4 DEF BadByte, EmptyBatch, BatchInPlace, BatchIsChain
  <2>2. RowAt(blob, code, base, Swept) = BadRow(code, base, offset) /\ Swept = offset
    BY <1>0, <1>4, <2>1 DEF BadByte, EmptyBatch, BatchEnds, RowAt, Swept
  <2>3. Swept' = Swept + RowAt(blob, code, base, Swept).size
    BY <1>0, <1>4, <2>1, <2>2 DEF BadByte, EmptyBatch, BadRow, Swept
  <2>4. Stream!Decode
    BY <1>0, <1>4, <2>1, <2>2, <2>3, StreamRowAt DEF BadByte, EmptyBatch, Capped, Stream!Decode
  <2> QED
    BY <2>4 DEF Stream!Next
<1>5. CASE CopyRow
  <2> DEFINE l == insns[next].len
  <2>1. BatchIsChain /\ CopyInPlace /\ next \in 1 .. Len(insns) /\ insns[next] \in Insn
    BY <1>0, <1>5 DEF CopyRow, BatchInPlace
  <2>2. insns[next].at = Swept /\ l \in InsnLens /\ l \in Nat
    <3>1. insns[next].at = Swept
      BY <1>0, <2>1 DEF CopyInPlace
    <3>2. l \in InsnLens
      BY <2>1 DEF Insn
    <3> QED
      BY <3>1, <3>2, InsnLensAssumption
  <2>3. l = InsnAt(blob, code, Swept)
    BY <2>1, <2>2 DEF BatchIsChain
  <2>4. /\ RowAt(blob, code, base, Swept) = InsnRow(code, base, Swept, l)
        /\ RowAt(blob, code, base, Swept).size = l
    BY <2>2, <2>3 DEF RowAt, InsnRow, Undecodable
  <2>5. Swept \in Nat /\ Swept < code.len
    BY <1>0, <2>2, <2>3, InsnAtType DEF Swept, TypeOK, Undecodable
  <2>6. Swept' = Swept + l
    BY <1>0, <1>5, <2>2 DEF CopyRow, Swept
  <2>7. Stream!Decode
    BY <1>0, <1>5, <2>2, <2>4, <2>5, <2>6, StreamRowAt DEF CopyRow, Capped, Stream!Decode
  <2> QED
    BY <2>7 DEF Stream!Next
<1>6. CASE Advance
  BY <1>0, <1>6 DEF Advance, BatchLeft, Swept, Stream!vars
<1>7. CASE NothingConsumed
  <2>1. CopyInPlace
    BY <1>7 DEF NothingConsumed, BatchLeft, BatchInPlace
  <2>2. next = 1 /\ ~Capped /\ Len(insns) >= 1
    BY <1>0, <1>7, <2>1 DEF NothingConsumed, CopyInPlace
  <2> QED
    BY <1>0, <1>7, <2>2 DEF NothingConsumed, BatchLeft
<1>8. CASE UNCHANGED vars
  BY <1>8 DEF vars, Swept, Stream!vars
<1> QED
  BY <1>1, <1>2, <1>3, <1>4, <1>5, <1>6, <1>7, <1>8 DEF Next

(***************************************************************************)
(* A step leaves the rows and the swept bytes alone, or appends the row    *)
(* that belongs where they end.                                            *)
(***************************************************************************)
LEMMA OneRow ==
    ASSUME TypeOK, BatchInPlace, RowsTile, [Next]_vars
    PROVE  \/ out' = out /\ Swept' = Swept
           \/ /\ Swept < code.len
              /\ out' = Append(out, RowAt(blob, code, base, Swept))
              /\ Swept' = Swept + RowAt(blob, code, base, Swept).size
<1>1. [Stream!Next]_(Stream!vars)
  BY StreamStep
<1>2. CASE Stream!Decode
  BY <1>2, StreamRowAt DEF Stream!Decode
<1>3. CASE Stream!Stop
  BY <1>3 DEF Stream!Stop
<1>4. CASE UNCHANGED Stream!vars
  BY <1>4 DEF Stream!vars
<1> QED
  BY <1>1, <1>2, <1>3, <1>4 DEF Stream!Next

(***************************************************************************)
(* Batching cannot be seen in the output: up to fairness, the sweep        *)
(* implements the stream that decodes one instruction at a time.           *)
(***************************************************************************)
THEOREM Refinement ==
    ASSUME PositiveLens
    PROVE  Spec => Stream!Init /\ [][Stream!Next]_(Stream!vars)
<1> DEFINE Inv == TypeOK /\ BatchInPlace /\ RowsBounded /\ RowsTile
<1>1. Init => Stream!Init
  <2>1. /\ Stream!Blobs = Blobs
        /\ \A n : Stream!Slices(n) = Slices(n)
        /\ Stream!EarlierRows = EarlierRows
    BY DEF Blobs, Slices, EarlierRows, EarlierRow, Byte, Undecodable, Stream!Blobs,
           Stream!Slices, Stream!EarlierRows, Stream!EarlierRow, Stream!Byte, Stream!Undecodable
  <2> SUFFICES ASSUME Init PROVE Stream!Init
    OBVIOUS
  <2>2. Swept = 0 /\ ~(pc = "done")
    BY DEF Init, Entered, Swept
  <2> QED
    BY <2>1, <2>2 DEF Init, Stream!Init
<1>2. Inv /\ [Next]_vars => [Stream!Next]_(Stream!vars)
  BY StreamStep
<1> QED
  BY <1>1, <1>2, Typing, Safety, PTL DEF Spec
=============================================================================
