------------------------- MODULE DisassembleProofs -------------------------
(***************************************************************************)
(* Theorems about the composed request, for every container, blob,         *)
(* argument and limit.  What is known of one sweep and of the section      *)
(* table comes from the proofs of those components: Lin and Tab are their  *)
(* theorems about the variables of the request.                            *)
(***************************************************************************)
EXTENDS Disassemble, SelectionProofs, SequenceTheorems

\* Rows of instructions and bytes only.
Ordinary(rows) ==
    /\ \E S : rows \in Seq(S)
    /\ \A k \in DOMAIN rows : rows[k].kind \in {"insn", ".byte"}

(***************************************************************************)
(* What each phase knows of the selection, the handle and the rows.        *)
(***************************************************************************)
PhaseInv ==
    /\ phase \in {"resolve", "select", "build", "sweep", "error", "returned"}
    /\ phase \in {"resolve", "select", "build", "error"} => out = <<>> /\ region = 0
    /\ phase \in {"resolve", "select", "build"} => handle = None
    /\ phase \in {"select", "build", "sweep"} => sel # None
    /\ phase = "error" => sel = None \/ handle = None
    /\ phase = "sweep" => handle # None /\ Ordinary(out)
    /\ phase = "returned" =>
         \/ Diagnosed /\ region = 0 /\ (sel = None \/ handle = None)
         \/ Ordinary(out) /\ sel # None /\ handle # None

-----------------------------------------------------------------------------
LEMMA EmptyIsOrdinary == Ordinary(<<>>)
<1>1. <<>> \in Seq({}) /\ DOMAIN <<>> = {}
  OBVIOUS
<1> QED
  BY <1>1 DEF Ordinary

LEMMA AppendKeepsOrdinary ==
    ASSUME NEW rows, Ordinary(rows), NEW row, row.kind \in {"insn", ".byte"}
    PROVE  Ordinary(Append(rows, row))
<1>1. PICK S : rows \in Seq(S)
  BY DEF Ordinary
<1>2. rows \in Seq(S \cup {row}) /\ row \in S \cup {row}
  BY <1>1
<1>3. /\ Append(rows, row) \in Seq(S \cup {row})
      /\ Len(Append(rows, row)) = Len(rows) + 1
      /\ Len(rows) \in Nat
  BY <1>2
<1>4. \A k \in 1 .. Len(rows) + 1 : Append(rows, row)[k] = IF k <= Len(rows) THEN rows[k] ELSE row
  BY <1>2
<1>5. DOMAIN rows = 1 .. Len(rows) /\ DOMAIN Append(rows, row) = 1 .. Len(rows) + 1
  BY <1>2, <1>3
<1>6. ASSUME NEW k \in DOMAIN Append(rows, row)
      PROVE  Append(rows, row)[k].kind \in {"insn", ".byte"}
  BY <1>3, <1>4, <1>5 DEF Ordinary
<1> QED
  BY <1>3, <1>6 DEF Ordinary

\* Whatever a step of the sweep does, it leaves ordinary rows.
LEMMA SweepKeepsOrdinary ==
    ASSUME Ordinary(out), Sweep!Next
    PROVE  Ordinary(out')
<1>1. ASSUME NEW c, NEW b, NEW p, NEW l
      PROVE  /\ Ordinary(Append(out, Sweep!InsnRow(c, b, p, l)))
             /\ Ordinary(Append(out, Sweep!BadRow(c, b, p)))
  <2>1. Sweep!InsnRow(c, b, p, l).kind = "insn" /\ Sweep!BadRow(c, b, p).kind = ".byte"
    BY DEF Sweep!InsnRow, Sweep!BadRow
  <2> QED
    BY <2>1, AppendKeepsOrdinary
<1> QED
  BY <1>1 DEF Sweep!Next, Sweep!EndOfSlice, Sweep!CapReached, Sweep!CallCapstone,
     Sweep!CapstoneDecodes, Sweep!BatchReturned, Sweep!BadByte, Sweep!CopyRow,
     Sweep!Advance, Sweep!NothingConsumed

\* The handle a build makes is one.
LEMMA BuildMakesHandle == ASSUME NEW s PROVE Res!build(s) # None
<1>1. \A big : Res!endian_str(big) \in {"little", "big"}
  BY DEF Res!endian_str
<1>2. ASSUME NEW arch \in Res!SUPPORTED_ARCHES, NEW endian \in {"little", "big"},
             NEW mode \in {"x16", "x32", "x64", "thumb", "arm", "mips64", "mode64", "default",
                           "riscv64"},
             NEW fallback \in BOOLEAN
      PROVE  Res!Handle(arch, mode, endian, fallback) # None
  <2>1. Res!Handle(arch, mode, endian, fallback) \in Res!Handles
    BY <1>2 DEF Res!Handle, Res!Handles
  <2> QED
    BY <2>1, HandlesAssumption
<1> QED
  BY <1>1, <1>2 DEF Res!build, Res!SUPPORTED_ARCHES

LEMMA PhaseInit == Init => PhaseInv
  BY DEF Init, Res!Arrived, PhaseInv

LEMMA PhaseStep == PhaseInv /\ [Next]_vars => PhaseInv'
<1> SUFFICES ASSUME PhaseInv, [Next]_vars PROVE PhaseInv'
  OBVIOUS
<1>1. CASE Resolve
  <2>1. phase = "resolve" /\ out = <<>> /\ region = 0 /\ handle = None
    BY <1>1 DEF Resolve, Res!ResolveFromArgs, Res!ResolveFromHeader, PhaseInv
  <2>2. /\ phase' = IF sel' = None THEN "error" ELSE "select"
        /\ handle' = handle /\ out' = out /\ region' = region
    BY <1>1 DEF Resolve, Res!ResolveFromArgs, Res!ResolveFromHeader, Res!Resolved, sweepVars
  <2> QED
    BY <2>1, <2>2 DEF PhaseInv
<1>2. CASE SelectRegions
  BY <1>2 DEF SelectRegions, sweepVars, PhaseInv
<1>3. CASE Build
  <2>1. phase = "build" /\ out = <<>> /\ region = 0 /\ handle = None /\ sel # None
    BY <1>3 DEF Build, Res!BuildHandle, Res!BuildFails, PhaseInv
  <2>2. /\ sel' = sel /\ out' = out /\ region' = region
        /\ \/ phase' = "sweep" /\ handle' # None
           \/ phase' = "error" /\ handle' = handle
    BY <1>3, BuildMakesHandle DEF Build, Res!BuildHandle, Res!BuildFails, Res!request, sweepVars
  <2> QED
    BY <2>1, <2>2, EmptyIsOrdinary DEF PhaseInv
<1>4. CASE AnswerDiagnostic
  BY <1>4 DEF AnswerDiagnostic, Diagnosed, PhaseInv
<1>5. CASE EnterRegion
  BY <1>5 DEF EnterRegion, resVars, PhaseInv
<1>6. CASE SweepStep
  <2>1. phase = "sweep" /\ Ordinary(out) /\ Sweep!Next
    BY <1>6 DEF SweepStep, PhaseInv
  <2>2. Ordinary(out')
    BY <2>1, SweepKeepsOrdinary
  <2> QED
    BY <1>6, <2>1, <2>2 DEF SweepStep, resVars, PhaseInv
<1>7. CASE Return
  BY <1>7 DEF Return, sweepVars, PhaseInv
<1>8. CASE UNCHANGED vars
  BY <1>8 DEF vars, resVars, sweepVars, Diagnosed, PhaseInv
<1> QED
  BY <1>1, <1>2, <1>3, <1>4, <1>5, <1>6, <1>7, <1>8 DEF Next

(***************************************************************************)
(* DiagnosticAlone: the diagnostic row is never mixed with rows of code,   *)
(* and is the answer exactly if there is no decoder.                       *)
(***************************************************************************)
THEOREM Diagnostic == Spec => []DiagnosticAlone
<1>1. ArchRequired.kind = "(error)"
  BY DEF ArchRequired
<1>2. ASSUME NEW rows, Ordinary(rows)
      PROVE  /\ rows # <<ArchRequired>>
             /\ \A k \in DOMAIN rows : rows[k].kind # "(error)"
  <2>1. \A k \in DOMAIN rows : rows[k].kind # "(error)"
    BY <1>2 DEF Ordinary
  <2>2. 1 \in DOMAIN <<ArchRequired>> /\ <<ArchRequired>>[1].kind = "(error)"
    BY <1>1
  <2> QED
    BY <2>1, <2>2
<1>3. PhaseInv => DiagnosticAlone
  <2> SUFFICES ASSUME PhaseInv PROVE DiagnosticAlone
    OBVIOUS
  <2>1. CASE phase # "returned"
    <3>1. Ordinary(out)
      BY <2>1, EmptyIsOrdinary DEF PhaseInv
    <3> QED
      BY <1>2, <2>1, <3>1 DEF DiagnosticAlone, Answered
  <2>2. CASE phase = "returned" /\ Diagnosed /\ region = 0 /\ (sel = None \/ handle = None)
    BY <2>2 DEF DiagnosticAlone, Answered
  <2>3. CASE phase = "returned" /\ Ordinary(out) /\ sel # None /\ handle # None
    BY <1>2, <2>3 DEF DiagnosticAlone, Answered, Diagnosed
  <2> QED
    BY <2>1, <2>2, <2>3 DEF PhaseInv
<1> QED
  BY <1>3, PhaseInit, PhaseStep, PTL DEF Spec
-----------------------------------------------------------------------------
(***************************************************************************)
(* What LinearSweepProofs and EntryPointProofs prove of a sweep and of a   *)
(* section table, for the sweeps and the table of a request.  The lemmas   *)
(* about tables are about any container: their module's variables and sets *)
(* of containers and sizes play no part.                                   *)
(***************************************************************************)
Lin == INSTANCE LinearSweepProofs
Tab == INSTANCE EntryPointProofs
         WITH Objects <- {}, BlobSizes <- {}, size <- 0, i <- 1, j <- 1, entryPoint <- None

LEMMA SameSweep == Sweep!Next => Lin!Next
<1>1. Sweep!EndOfSlice <=> Lin!EndOfSlice
  BY DEF Sweep!EndOfSlice, Lin!EndOfSlice, Sweep!params, Lin!params, Sweep!locals, Lin!locals
<1>2. Sweep!CapReached <=> Lin!CapReached
  BY DEF Sweep!CapReached, Lin!CapReached, Sweep!Capped, Lin!Capped,
     Sweep!params, Lin!params, Sweep!locals, Lin!locals
<1>3. Sweep!CallCapstone <=> Lin!CallCapstone
  BY DEF Sweep!CallCapstone, Lin!CallCapstone, Sweep!Capped, Lin!Capped, Sweep!params, Lin!params
<1>4. Sweep!BatchEnds <=> Lin!BatchEnds
  BY DEF Sweep!BatchEnds, Lin!BatchEnds, Sweep!InsnAt, Lin!InsnAt, Sweep!Undecodable,
     Lin!Undecodable
<1>5. Sweep!CapstoneDecodes <=> Lin!CapstoneDecodes
  BY <1>4 DEF Sweep!CapstoneDecodes, Lin!CapstoneDecodes, Sweep!InsnAt, Lin!InsnAt,
     Sweep!Undecodable, Lin!Undecodable, Sweep!params, Lin!params
<1>6. Sweep!BatchReturned <=> Lin!BatchReturned
  BY <1>4 DEF Sweep!BatchReturned, Lin!BatchReturned, Sweep!params, Lin!params
<1>7. /\ \A c, b, p : Sweep!BadRow(c, b, p) = Lin!BadRow(c, b, p)
      /\ \A c, b, p, l : Sweep!InsnRow(c, b, p, l) = Lin!InsnRow(c, b, p, l)
  BY DEF Sweep!BadRow, Lin!BadRow, Sweep!InsnRow, Lin!InsnRow, Sweep!Wrap, Lin!Wrap
<1>8. Sweep!BadByte <=> Lin!BadByte
  BY <1>4, <1>7 DEF Sweep!BadByte, Lin!BadByte, Sweep!EmptyBatch, Lin!EmptyBatch,
     Sweep!params, Lin!params
<1>9. Sweep!CopyRow <=> Lin!CopyRow
  BY <1>7 DEF Sweep!CopyRow, Lin!CopyRow, Sweep!Capped, Lin!Capped, Sweep!params, Lin!params
<1>10. Sweep!Advance <=> Lin!Advance
  BY DEF Sweep!Advance, Lin!Advance, Sweep!BatchLeft, Lin!BatchLeft, Sweep!Capped, Lin!Capped,
     Sweep!params, Lin!params
<1>11. Sweep!NothingConsumed <=> Lin!NothingConsumed
  BY <1>7 DEF Sweep!NothingConsumed, Lin!NothingConsumed, Sweep!BatchLeft, Lin!BatchLeft,
     Sweep!Capped, Lin!Capped, Sweep!params, Lin!params
<1> QED
  BY <1>1, <1>2, <1>3, <1>5, <1>6, <1>8, <1>9, <1>10, <1>11 DEF Sweep!Next, Lin!Next

LEMMA SameInsns ==
    /\ Lin!Blobs = Blobs
    /\ \A n : Lin!Slices(n) = Slices(n)
    /\ Lin!Row = Row
    /\ \A b, c, a, p : Lin!RowAt(b, c, a, p) = RowAt(b, c, a, p)
    /\ Lin!Capped <=> Sweep!Capped
    /\ Lin!TypeOK <=> Sweep!TypeOK
<1>1. Lin!Blobs = Blobs /\ \A n : Lin!Slices(n) = Slices(n)
  BY DEF Lin!Blobs, Blobs, Lin!Byte, Byte, Lin!Undecodable, Undecodable, Lin!Slices, Slices
<1>2. Lin!Row = Row
  BY DEF Lin!Row, Row
<1>3. \A b, c, a, p : Lin!RowAt(b, c, a, p) = RowAt(b, c, a, p)
  BY DEF Lin!RowAt, RowAt, Lin!InsnAt, InsnAt, Lin!Undecodable, Undecodable, Lin!BadRow, BadRow,
     Lin!InsnRow, InsnRow, Lin!Wrap, Wrap
<1>4. Lin!Capped <=> Sweep!Capped
  BY DEF Lin!Capped, Sweep!Capped
<1>5. Lin!TypeOK <=> Sweep!TypeOK
  BY DEF Sweep!TypeOK, Lin!TypeOK, Sweep!Blobs, Lin!Blobs, Sweep!Slices, Lin!Slices, Sweep!Row,
     Lin!Row, Sweep!Insn, Lin!Insn, Sweep!Byte, Lin!Byte, Sweep!Undecodable, Lin!Undecodable
<1> QED
  BY <1>1, <1>2, <1>3, <1>4, <1>5

LEMMA SweepKeepsTypes == Lin!TypeOK /\ Sweep!Next => Lin!TypeOK'
  BY SameSweep, Lin!TypingStep, AddrSpaceAssumption, InsnLensAssumption, MaxBlobAssumption,
     MaxInsnsAssumption

LEMMA SameTable ==
    ASSUME NEW o, NEW n
    PROVE  Tab!SectionTable(o, n) = SectionTable(o, n)
<1>1. \A off, len : Tab!clamp_range(off, len, n) = clamp_range(off, len, n)
  BY DEF clamp_range, Smaller, Tab!clamp_range, Tab!Smaller
<1>2. \A h : Tab!elf_section(h, n) = elf_section(h, n)
  BY <1>1 DEF elf_section, Section, DebugNames, RodataNames, FirstRule, Tab!elf_section,
     Tab!Section, Tab!DebugNames, Tab!RodataNames, Tab!FirstRule
<1>3. \A base_, h : Tab!pe_section(base_, h, n) = pe_section(base_, h, n)
  BY <1>1 DEF pe_section, Section, DebugNames, FirstRule, Wrap, Smaller, Tab!pe_section,
     Tab!Section, Tab!DebugNames, Tab!FirstRule, Tab!Wrap, Tab!Smaller
<1>4. \A h : Tab!mach_section(h, n) = mach_section(h, n)
  BY <1>1 DEF mach_section, Section, MachDebugNames, FirstRule, Tab!mach_section,
     Tab!Section, Tab!MachDebugNames, Tab!FirstRule
<1>5. \A s : Tab!SegmentSections(s) = SegmentSections(s)
  BY DEF SegmentSections, SectionsUpTo, Tab!SegmentSections, Tab!SectionsUpTo
<1>6. Tab!HasPrimarySlice(o) <=> HasPrimarySlice(o)
  BY DEF HasPrimarySlice, Tab!HasPrimarySlice
<1>7. Tab!FullTable(o, n) = FullTable(o, n)
  <2>1. /\ [k \in 1 .. Len(o.sections) |-> Tab!elf_section(o.sections[k], n)]
           = [k \in 1 .. Len(o.sections) |-> elf_section(o.sections[k], n)]
        /\ [k \in 1 .. Len(o.sections) |-> Tab!pe_section(o.image_base, o.sections[k], n)]
           = [k \in 1 .. Len(o.sections) |-> pe_section(o.image_base, o.sections[k], n)]
    BY <1>2, <1>3
  <2>2. \A s : [k \in 1 .. Len(SegmentSections(s)) |-> Tab!mach_section(SegmentSections(s)[k], n)]
              = [k \in 1 .. Len(SegmentSections(s)) |-> mach_section(SegmentSections(s)[k], n)]
    BY <1>4
  <2> QED
    BY <1>5, <1>6, <2>1, <2>2, Zenon DEF FullTable, Tab!FullTable
<1> QED
  BY <1>7 DEF SectionTable, Smaller, Tab!SectionTable, Tab!Smaller

(***************************************************************************)
(* The table of a request: a list of sections that lie in the blob.        *)
(***************************************************************************)
LEMMA TableOfRequest ==
    ASSUME obj \in Objects, Len(blob) \in Nat
    PROVE  /\ IsList(Table)
           /\ \A k \in 1 .. Len(Table) : Tab!SectionIn(Table[k], Len(blob))
<1>1. Tab!HeadersRead(obj)
  BY HeadersAssumption DEF HeadersRead, Tab!HeadersRead, Each, Tab!Each, ElfHeader, Tab!ElfHeader,
     PeHeader, Tab!PeHeader, Segment, Tab!Segment, Ranged, Tab!Ranged, IsSeq, Tab!IsSeq,
     HasPrimarySlice, Tab!HasPrimarySlice
<1>2. Tab!IsTable(Tab!SectionTable(obj, Len(blob)), Len(blob))
  BY <1>1, Tab!TableIsIn, AddrSpaceAssumption, UsizeMaxAssumption, MaxSectionsAssumption,
     MaxSectionBytesAssumption, NoneAssumption
<1>3. Tab!IsTable(Table, Len(blob))
  BY <1>2, SameTable DEF Table
<1> QED
  BY <1>3 DEF Tab!IsTable, IsList

-----------------------------------------------------------------------------
(***************************************************************************)
(* A region: an address of the address space, and bytes of the blob.       *)
(***************************************************************************)
Fits(r, n) == r.start \in 0 .. AddrSpace - 1 /\ r.code \in Slices(n)

LEMMA BytesFit ==
    ASSUME NEW n \in Nat, NEW s, Tab!SectionIn(s, n)
    PROVE  section_bytes(s, n) \in Slices(n)
<1> DEFINE range == s.data_range
<1>1. CASE range = None \/ range.off > n
  <2>1. section_bytes(s, n) = NoBytes
    BY <1>1 DEF section_bytes
  <2> QED
    BY <2>1 DEF NoBytes, Slices
<1>2. CASE ~(range = None \/ range.off > n)
  <2>1. range.off \in Nat /\ range.len \in Nat /\ range.off <= n
    BY <1>2 DEF Tab!SectionIn, Tab!RangeIn
  <2>2. section_bytes(s, n) = [off |-> range.off, len |-> Smaller(range.len, n - range.off)]
    BY <1>2 DEF section_bytes
  <2>3. Smaller(range.len, n - range.off) \in 0 .. n - range.off
    BY <2>1 DEF Smaller
  <2> QED
    BY <2>1, <2>2, <2>3 DEF Slices
<1> QED
  BY <1>1, <1>2

LEMMA BaseFits ==
    ASSUME baseArg \in BaseArgs, NEW a \in 0 .. AddrSpace - 1
    PROVE  Base(a) \in 0 .. AddrSpace - 1
  BY BaseArgsAssumption DEF Base

\* What select_regions picks when it looks at the table.
Picked == Chosen(Table, Wanted)
Whole == [start |-> Base(0), code |-> [off |-> 0, len |-> Smaller(Len(blob), MaxSectionBytes)]]
ByTable == Table # <<>> /\ sectionArg # <<"all">>

LEMMA SelectsByTable ==
    select_regions(Table, Len(blob)) =
      IF ByTable THEN SectionRegions(Picked, Len(blob)) ELSE <<Whole>>
<1>1. Wanted = IF sectionArg = <<"auto">>
               THEN {k \in DOMAIN Table : Table[k].exec}
               ELSE {k \in DOMAIN Table : section_name_matches(Table[k].name, sectionArg)}
  BY DEF Wanted
<1> QED
  BY <1>1 DEF select_regions, ByTable, Picked, Whole

\* The region of the section at a place of the table, when n sections are picked.
RegionOf(w, n) ==
    [start |-> IF n = 1 THEN Base(Table[w].vaddr) ELSE Table[w].vaddr,
     code  |-> section_bytes(Table[w], Len(blob))]

(***************************************************************************)
(* What select_regions picks by the table: the regions of the wanted       *)
(* sections, as many as there are of them.                                 *)
(***************************************************************************)
LEMMA PickedRegions ==
    ASSUME obj \in Objects, Len(blob) \in Nat
    PROVE  LET r == SectionRegions(Picked, Len(blob))
           IN  /\ IsList(r) /\ Len(r) \in Nat /\ Len(r) = Cardinality(Wanted)
               /\ \A k \in 1 .. Len(r) : \E w \in Wanted : r[k] = RegionOf(w, Len(r))
               /\ \A w \in Wanted : \E k \in 1 .. Len(r) : r[k] = RegionOf(w, Len(r))
<1> DEFINE n == Len(Picked)
           r == SectionRegions(Picked, Len(blob))
<1>1. PICK X : Table \in Seq(X)
  BY TableOfRequest DEF IsList
<1>2. Len(Table) \in Nat /\ DOMAIN Table = 1 .. Len(Table)
  BY <1>1
<1>3. Wanted \cap 1 .. Len(Table) = Wanted
  BY <1>2 DEF Wanted
<1>4. Picks(Picked, Table, Wanted)
  BY <1>2, <1>3, ChosenPicks DEF Picked
<1>5. n \in Nat /\ n = Cardinality(Wanted)
  BY <1>4 DEF Picks
<1>6. r = [k \in 1 .. n |->
             [start |-> IF n = 1 THEN Base(Picked[k].vaddr) ELSE Picked[k].vaddr,
              code |-> section_bytes(Picked[k], Len(blob))]]
  BY DEF SectionRegions
<1> HIDE DEF n, r
<1>7. /\ r = [k \in 1 .. n |-> r[k]]
      /\ \A k \in 1 .. n :
           r[k] = [start |-> IF n = 1 THEN Base(Picked[k].vaddr) ELSE Picked[k].vaddr,
                   code |-> section_bytes(Picked[k], Len(blob))]
  BY <1>6
<1>8. IsList(r) /\ Len(r) = n
  BY <1>5, <1>7, FunctionIsList
<1>9. \A k \in 1 .. n, w \in Wanted : Picked[k] = Table[w] => r[k] = RegionOf(w, n)
  BY <1>7 DEF RegionOf
<1>10. /\ \A k \in 1 .. n : \E w \in Wanted : Picked[k] = Table[w]
       /\ \A w \in Wanted : \E k \in 1 .. n : Picked[k] = Table[w]
  BY <1>4 DEF Picks, n
<1>11. /\ \A k \in 1 .. n : \E w \in Wanted : r[k] = RegionOf(w, n)
       /\ \A w \in Wanted : \E k \in 1 .. n : r[k] = RegionOf(w, n)
  BY <1>9, <1>10
<1>12. /\ IsList(r) /\ Len(r) \in Nat /\ Len(r) = Cardinality(Wanted)
       /\ \A k \in 1 .. Len(r) : \E w \in Wanted : r[k] = RegionOf(w, Len(r))
       /\ \A w \in Wanted : \E k \in 1 .. Len(r) : r[k] = RegionOf(w, Len(r))
  BY <1>5, <1>8, <1>11
<1> QED
  BY <1>12, Zenon DEF r

LEMMA RegionsFit ==
    ASSUME obj \in Objects, baseArg \in BaseArgs, Len(blob) \in Nat
    PROVE  LET r == select_regions(Table, Len(blob))
           IN  /\ IsList(r) /\ Len(r) \in Nat
               /\ \A k \in 1 .. Len(r) : Fits(r[k], Len(blob))
<1> DEFINE n == Len(blob)
           r == select_regions(Table, n)
<1>1. CASE ByTable
  <2>1. r = SectionRegions(Picked, n)
    BY <1>1, SelectsByTable
  <2>2. /\ IsList(r) /\ Len(r) \in Nat
        /\ \A k \in 1 .. Len(r) : \E w \in Wanted : r[k] = RegionOf(w, Len(r))
    BY <2>1, PickedRegions
  <2>3. ASSUME NEW w \in Wanted
        PROVE  \A m : Fits(RegionOf(w, m), n)
    <3>1. PICK X : Table \in Seq(X)
      BY TableOfRequest DEF IsList
    <3>2. w \in 1 .. Len(Table)
      BY <3>1 DEF Wanted
    <3>3. Tab!SectionIn(Table[w], n)
      BY <3>2, TableOfRequest
    <3>4. Table[w].vaddr \in 0 .. AddrSpace - 1 /\ section_bytes(Table[w], n) \in Slices(n)
      BY <3>3, BytesFit DEF Tab!SectionIn
    <3> QED
      BY <3>4, BaseFits DEF Fits, RegionOf
  <2> HIDE DEF r
  <2> QED
    BY <2>2, <2>3 DEF r
<1>2. CASE ~ByTable
  <2>1. r = <<Whole>>
    BY <1>2, SelectsByTable
  <2>2. Fits(Whole, n)
    <3>1. 0 \in 0 .. AddrSpace - 1
      BY AddrSpaceAssumption
    <3>2. Smaller(n, MaxSectionBytes) \in 0 .. n
      BY MaxSectionBytesAssumption DEF Smaller
    <3> QED
      BY <3>1, <3>2, BaseFits DEF Fits, Whole, Slices
  <2>3. IsList(<<Whole>>) /\ Len(<<Whole>>) = 1 /\ <<Whole>>[1] = Whole
    <3>1. <<Whole>> \in Seq({Whole})
      OBVIOUS
    <3> QED
      BY <3>1 DEF IsList
  <2>4. Len(r) \in Nat /\ \A k \in 1 .. Len(r) : Fits(r[k], n)
    BY <2>1, <2>2, <2>3
  <2> QED
    BY <2>1, <2>3, <2>4
<1> QED
  BY <1>1, <1>2

-----------------------------------------------------------------------------
(***************************************************************************)
(* A selection is of a supported architecture.                             *)
(***************************************************************************)
LEMMA SelSupported ==
    ASSUME NEW s, s # None,
           \/ \E a, m : s = Res!resolve_explicit(a, m)
           \/ \E o : s = Res!arch_sel(Res!probe(o))
    PROVE  s.arch \in Res!SUPPORTED_ARCHES
<1>1. ASSUME NEW a, NEW m, s = Res!resolve_explicit(a, m)
      PROVE  s.arch \in Res!SUPPORTED_ARCHES
  <2> DEFINE c == Res!Canonical(a)
  <2>1. CASE c \in Res!X86Names
    <3>1. s = Res!ArchSel("x86", Res!X86Mode(Res!Canonical(m)), FALSE)
      BY <1>1, <2>1 DEF Res!resolve_explicit, Res!X86Names, Res!EndianNames
    <3> QED
      BY <3>1 DEF Res!ArchSel, Res!SUPPORTED_ARCHES
  <2>2. CASE c = "arm"
    <3>1. \E mode, big : s = Res!ArchSel("arm", mode, big)
      BY <1>1, <2>2 DEF Res!resolve_explicit, Res!X86Names, Res!EndianNames
    <3> QED
      BY <3>1 DEF Res!ArchSel, Res!SUPPORTED_ARCHES
  <2>3. CASE c \in DOMAIN Res!EndianNames
    <3>1. \E mode, big : s = Res!ArchSel(Res!EndianNames[c], mode, big)
      BY <1>1, <2>3 DEF Res!resolve_explicit, Res!X86Names, Res!EndianNames
    <3>2. Res!EndianNames[c] \in {"arm64", "mips", "ppc", "riscv"}
      BY <2>3 DEF Res!EndianNames
    <3> QED
      BY <3>1, <3>2 DEF Res!ArchSel, Res!SUPPORTED_ARCHES
  <2>4. CASE c \in {"sysz", "s390", "systemz"}
    <3>1. s = Res!ArchSel("sysz", "big", TRUE)
      BY <1>1, <2>4 DEF Res!resolve_explicit, Res!X86Names, Res!EndianNames
    <3> QED
      BY <3>1 DEF Res!ArchSel, Res!SUPPORTED_ARCHES
  <2>5. CASE c \notin Res!X86Names \cup {"arm", "sysz", "s390", "systemz"} \cup DOMAIN Res!EndianNames
    BY <1>1, <2>5 DEF Res!resolve_explicit
  <2> QED
    BY <2>1, <2>2, <2>3, <2>4, <2>5
<1>2. ASSUME NEW o, s = Res!arch_sel(Res!probe(o))
      PROVE  s.arch \in Res!SUPPORTED_ARCHES
  <2> DEFINE Named(am) == am[1] # None => am[1] \in Res!SUPPORTED_ARCHES
  <2>1. \A machine, big, entry : Named(Res!elf_arch(machine, big, entry))
    BY DEF Res!elf_arch, Res!SUPPORTED_ARCHES
  <2>2. \A machine : Named(Res!pe_arch(machine))
    BY DEF Res!pe_arch, Res!SUPPORTED_ARCHES
  <2>3. \A cputype, big : Named(Res!mach_arch(cputype, big))
    BY DEF Res!mach_arch, Res!SUPPORTED_ARCHES
  <2>4. ASSUME NEW container, NEW am, NEW is64, NEW big, NEW entry, Named(am)
        PROVE  LET p == Res!ProbeRow(container, am, is64, big, entry)
               IN  p.arch # None => p.arch \in Res!SUPPORTED_ARCHES
    BY <2>4 DEF Res!ProbeRow
  <2> HIDE DEF Named
  <2>5. LET p == Res!probe(o) IN p.arch # None => p.arch \in Res!SUPPORTED_ARCHES
    BY <2>1, <2>2, <2>3, <2>4 DEF Res!probe, Res!mach_probe, Res!EmptyProbe
  <2> QED
    BY <1>2, <2>5 DEF Res!arch_sel, Res!ArchSel
<1> QED
  BY <1>1, <1>2

(***************************************************************************)
(* The types of a request, with what the typing of the sweep needs of the  *)
(* regions: they are picked from the table once, before the handle is      *)
(* built.                                                                  *)
(***************************************************************************)
RegionsOK ==
    /\ IsList(regions) /\ region \in 0 .. Len(regions) /\ Len(regions) \in Nat
    /\ \A k \in 1 .. Len(regions) : Fits(regions[k], Len(blob))

\* Once they are selected, the regions are those of the request.
Selected ==
    phase \in {"build", "sweep"} \/ (phase = "returned" /\ ~Diagnosed) =>
        regions = select_regions(Table, Len(blob))

Typed ==
    /\ obj \in Objects /\ baseArg \in BaseArgs
    /\ sel = None \/ sel.arch \in Res!SUPPORTED_ARCHES
    /\ handle = None \/ handle = Res!build(sel)
    /\ Lin!TypeOK
    /\ RegionsOK
    /\ Selected

LEMMA BlobLength == blob \in Blobs => Len(blob) \in Nat
<1> SUFFICES ASSUME blob \in Blobs PROVE Len(blob) \in Nat
  OBVIOUS
<1>1. PICK n \in 0 .. MaxBlob : blob \in [1 .. n -> Byte]
  BY DEF Blobs
<1> QED
  BY <1>1, MaxBlobAssumption

LEMMA TypedInit == Init => Typed
<1> SUFFICES ASSUME Init PROVE Typed
  OBVIOUS
<1>1. /\ obj \in Objects /\ baseArg \in BaseArgs /\ sel = None /\ handle = None /\ phase = "resolve"
  BY DEF Init, Res!Arrived
<1>2. Len(blob) \in Nat /\ blob \in Blobs
  BY BlobLength DEF Init
<1>3. NoBytes \in Slices(Len(blob))
  BY <1>2 DEF NoBytes, Slices
<1>4. <<>> \in Seq(Row) /\ <<>> \in Seq(Lin!Insn) /\ Len(<<>>) = 0
  OBVIOUS
<1>5. Lin!TypeOK
  BY <1>2, <1>3, <1>4, SameInsns, AddrSpaceAssumption DEF Init, Sweep!Entered, Lin!TypeOK
<1>6. RegionsOK
  BY <1>4 DEF Init, RegionsOK, IsList
<1> QED
  BY <1>1, <1>5, <1>6 DEF Typed, Selected

LEMMA TypedStep == PhaseInv /\ Typed /\ [Next]_vars => Typed'
<1> SUFFICES ASSUME PhaseInv, Typed, [Next]_vars PROVE Typed'
  OBVIOUS
<1>0. /\ Len(blob) \in Nat /\ Len(out) \in Nat /\ Len(regions) \in Nat /\ region \in Nat
      /\ blob \in Blobs /\ code \in Slices(Len(blob))
      /\ out \in Seq(Row)
  BY BlobLength, SameInsns DEF Typed, RegionsOK, Lin!TypeOK
<1>a. ASSUME UNCHANGED <<obj, blob, sectionArg>> PROVE Table' = Table
  BY <1>a DEF Table
<1>b. ASSUME UNCHANGED <<obj, blob, sectionArg, baseArg>>
      PROVE  select_regions(Table, Len(blob))' = select_regions(Table, Len(blob))
  BY <1>b, <1>a DEF select_regions, SectionRegions, Base
<1>1. CASE Resolve
  <2>1. /\ sel' = None \/ sel'.arch \in Res!SUPPORTED_ARCHES
        /\ phase' \in {"error", "select"}
        /\ UNCHANGED <<obj, handle, blob, sweepVars, baseArg, sectionArg, regions, region>>
        /\ handle = None
    <3>1. \/ sel' = Res!resolve_explicit(archArg, modeArg)
          \/ sel' = Res!arch_sel(Res!probe(obj))
      BY <1>1 DEF Resolve, Res!ResolveFromArgs, Res!ResolveFromHeader, Res!Resolved
    <3>2. sel' = None \/ sel'.arch \in Res!SUPPORTED_ARCHES
      BY <3>1, SelSupported
    <3>3. phase = "resolve"
      BY <1>1 DEF Resolve, Res!ResolveFromArgs, Res!ResolveFromHeader
    <3>4. /\ phase' \in {"error", "select"}
          /\ UNCHANGED <<obj, handle, blob, sweepVars, baseArg, sectionArg, regions, region>>
      BY <1>1 DEF Resolve, Res!ResolveFromArgs, Res!ResolveFromHeader, Res!Resolved, Res!request
    <3> QED
      BY <3>2, <3>3, <3>4 DEF PhaseInv
  <2> QED
    BY <2>1 DEF sweepVars, locals, Typed, RegionsOK, Selected, Lin!TypeOK
<1>2. CASE SelectRegions
  <2>1. /\ regions' = select_regions(Table, Len(blob)) /\ phase' = "build" /\ region = 0
        /\ UNCHANGED <<obj, sel, handle, blob, sweepVars, baseArg, sectionArg, region>>
    BY <1>2 DEF SelectRegions, Table, PhaseInv
  <2>2. RegionsOK'
    BY <1>0, <2>1, RegionsFit DEF Typed, RegionsOK
  <2>3. Selected'
    BY <1>b, <2>1 DEF Selected, sweepVars
  <2> QED
    BY <2>1, <2>2, <2>3 DEF sweepVars, locals, Typed, Lin!TypeOK
<1>3. CASE Build
  <2>1. /\ handle' = None \/ handle' = Res!build(sel')
        /\ phase' \in {"error", "sweep"} /\ phase = "build"
        /\ UNCHANGED <<obj, sel, blob, sweepVars, baseArg, sectionArg, regions, region>>
    BY <1>3 DEF Build, Res!BuildHandle, Res!BuildFails, Res!request, PhaseInv
  <2>2. Selected'
    BY <1>b, <2>1 DEF Typed, Selected, sweepVars
  <2> QED
    BY <2>1, <2>2 DEF sweepVars, locals, Typed, RegionsOK, Lin!TypeOK
<1>4. CASE AnswerDiagnostic
  <2>1. /\ out' = <<ArchRequired>> /\ phase' = "returned"
        /\ UNCHANGED <<obj, blob, baseArg, sectionArg, sel, handle, code, base, locals, pc, regions, region>>
    BY <1>4 DEF AnswerDiagnostic, request
  <2>2. ArchRequired \in Row
    BY AddrSpaceAssumption DEF ArchRequired, Row
  <2>3. out' \in Seq(Row) /\ Diagnosed'
    BY <2>1, <2>2 DEF Diagnosed
  <2> QED
    BY <2>1, <2>3, SameInsns DEF locals, Typed, RegionsOK, Selected, Lin!TypeOK
<1>5. CASE EnterRegion
  <2>1. /\ region' = region + 1 /\ code' = regions[region + 1].code
        /\ base' = regions[region + 1].start
        /\ region < Len(regions) /\ phase = "sweep"
        /\ UNCHANGED <<obj, sel, handle, phase, blob, out, baseArg, sectionArg, regions>>
        /\ start' = Len(out) /\ offset' = 0 /\ insns' = <<>> /\ csOff' = 0 /\ next' = 1
        /\ consumed' = 0 /\ pc' = "loop"
    BY <1>5 DEF EnterRegion, resVars
  <2>2. region + 1 \in 1 .. Len(regions) /\ region + 1 \in 0 .. Len(regions)
    BY <1>0, <2>1
  <2>3. code' \in Slices(Len(blob)) /\ base' \in 0 .. AddrSpace - 1
    BY <2>1, <2>2 DEF Typed, RegionsOK, Fits
  <2>4. Lin!TypeOK'
    BY <1>0, <2>1, <2>3, SameInsns DEF Typed, Lin!TypeOK
  <2>5. RegionsOK'
    BY <2>1, <2>2 DEF Typed, RegionsOK
  <2>6. Selected'
    BY <1>b, <2>1 DEF Typed, Selected
  <2> QED
    BY <2>1, <2>4, <2>5, <2>6 DEF Typed
<1>6. CASE SweepStep
  <2>1. Lin!TypeOK'
    BY <1>6, SweepKeepsTypes DEF SweepStep, Typed
  <2>2. blob' = blob
    BY <1>6 DEF SweepStep, Sweep!Next, Sweep!EndOfSlice, Sweep!CapReached, Sweep!CallCapstone,
       Sweep!CapstoneDecodes, Sweep!BatchReturned, Sweep!BadByte, Sweep!CopyRow,
       Sweep!Advance, Sweep!NothingConsumed, Sweep!params
  <2>3. phase = "sweep" /\ UNCHANGED <<resVars, baseArg, sectionArg, regions, region>>
    BY <1>6 DEF SweepStep
  <2>4. Selected'
    BY <1>b, <2>2, <2>3 DEF resVars, Typed, Selected
  <2> QED
    BY <2>1, <2>2, <2>3, <2>4 DEF resVars, Typed, RegionsOK
<1>7. CASE Return
  <2>1. /\ phase = "sweep" /\ phase' = "returned"
        /\ UNCHANGED <<obj, blob, baseArg, sectionArg, sel, handle, sweepVars, regions, region>>
    BY <1>7 DEF Return, request
  <2>2. Selected'
    BY <1>b, <2>1 DEF sweepVars, Typed, Selected
  <2> QED
    BY <2>1, <2>2 DEF sweepVars, locals, Typed, RegionsOK, Lin!TypeOK
<1>8. CASE UNCHANGED vars
  <2>1. UNCHANGED <<obj, blob, baseArg, sectionArg, sel, handle, phase, code, base, out, start, offset,
                    insns, csOff, next, consumed, pc, regions, region>>
    BY <1>8 DEF vars, resVars, sweepVars, locals
  <2>2. Diagnosed' <=> Diagnosed
    BY <2>1 DEF Diagnosed
  <2>3. Selected'
    BY <1>b, <2>1, <2>2 DEF Typed, Selected
  <2> QED
    BY <2>1, <2>3 DEF Typed, RegionsOK, Lin!TypeOK
<1> QED
  BY <1>1, <1>2, <1>3, <1>4, <1>5, <1>6, <1>7, <1>8 DEF Next

(***************************************************************************)
(* TypeOK: in particular every region lies in the blob and every row has   *)
(* an address of the address space, whatever the headers declare.          *)
(***************************************************************************)
THEOREM Typing == Spec => []TypeOK
<1>1. PhaseInv /\ Typed => TypeOK
  <2> SUFFICES ASSUME PhaseInv, Typed PROVE TypeOK
    OBVIOUS
  <2>1. Sweep!TypeOK
    BY SameInsns DEF Typed
  <2>2. PICK X : regions \in Seq(X)
    BY DEF Typed, RegionsOK, IsList
  <2>3. DOMAIN regions = 1 .. Len(regions)
    BY <2>2
  <2> QED
    BY <2>1, <2>3 DEF TypeOK, Typed, RegionsOK, Fits, PhaseInv
<1> QED
  BY <1>1, PhaseInit, PhaseStep, TypedInit, TypedStep, PTL DEF Spec

-----------------------------------------------------------------------------
(***************************************************************************)
(* The reference listing of a slice, with its recursive function as a      *)
(* parameter: from the end of the slice back over its last m bytes.        *)
(***************************************************************************)
Lists(c, b, m, f) ==
    f = [p \in c.len - m .. c.len |->
            IF p = c.len THEN <<>>
            ELSE <<RowAt(blob, c, b, p)>> \o f[p + RowAt(blob, c, b, p).size]]

LEMMA RowFits ==
    ASSUME 0 \notin InsnLens, blob \in Blobs, NEW c \in Slices(Len(blob)), NEW b \in Nat,
           NEW p \in Nat, p < c.len
    PROVE  /\ RowAt(blob, c, b, p) \in Row
           /\ RowAt(blob, c, b, p).size \in Nat \ {0}
           /\ p + RowAt(blob, c, b, p).size <= c.len
<1>1. Lin!PositiveLens
  BY DEF Lin!PositiveLens
<1>2. blob \in Lin!Blobs /\ c \in Lin!Slices(Len(blob))
  BY SameInsns
<1>3. /\ Lin!RowAt(blob, c, b, p) \in Lin!Row
      /\ Lin!RowAt(blob, c, b, p).size \in Nat \ {0}
      /\ p + Lin!RowAt(blob, c, b, p).size <= c.len
  BY <1>1, <1>2, Lin!RowAtFits, AddrSpaceAssumption, InsnLensAssumption, MaxBlobAssumption,
     MaxInsnsAssumption
<1> QED
  BY <1>3, SameInsns

LEMMA ListsExist ==
    ASSUME 0 \notin InsnLens, blob \in Blobs, NEW c \in Slices(Len(blob)), NEW b \in Nat
    PROVE  \A m \in Nat : m <= c.len => \E f : Lists(c, b, m, f)
<1> DEFINE R(p) == RowAt(blob, c, b, p)
           T == {m \in Nat : m <= c.len => \E f : Lists(c, b, m, f)}
<1>0. c.len \in Nat
  BY BlobLength DEF Slices
<1>1. 0 \in T
  <2>1. c.len - 0 .. c.len = {c.len}
    BY <1>0
  <2>2. Lists(c, b, 0, [p \in c.len - 0 .. c.len |-> <<>>])
    BY <2>1 DEF Lists
  <2> QED
    BY <2>2
<1>2. ASSUME NEW m \in Nat, m \in T PROVE m + 1 \in T
  <2> SUFFICES ASSUME m + 1 <= c.len PROVE \E f : Lists(c, b, m + 1, f)
    OBVIOUS
  <2> DEFINE q == c.len - (m + 1)
  <2>1. PICK f : Lists(c, b, m, f)
    BY <1>0, <1>2
  <2>2. q \in 0 .. c.len - 1 /\ q + 1 = c.len - m
    BY <1>0
  <2> DEFINE E(h, p) == <<R(p)>> \o h[p + R(p).size]
             g == [p \in q .. c.len |-> IF p = q THEN E(f, q) ELSE f[p]]
  <2>3. \A p \in q .. c.len - 1 : p + R(p).size \in q + 1 .. c.len
    <3> TAKE p \in q .. c.len - 1
    <3>1. p \in Nat /\ p < c.len
      BY <1>0, <2>2
    <3>2. R(p).size \in Nat \ {0} /\ p + R(p).size <= c.len
      BY <3>1, RowFits
    <3> HIDE DEF R
    <3> QED
      BY <1>0, <2>2, <3>1, <3>2
  <2>4. \A p \in q + 1 .. c.len : f[p] = IF p = c.len THEN <<>> ELSE E(f, p)
    BY <2>1, <2>2 DEF Lists
  <2> HIDE DEF R
  <2>5. \A p \in q + 1 .. c.len : g[p] = f[p]
    BY <1>0, <2>2
  <2>6. g[q] = E(f, q)
    BY <1>0, <2>2
  <2>7. g = [p \in q .. c.len |-> g[p]]
    OBVIOUS
  <2> HIDE DEF g
  <2>8. \A p \in q .. c.len - 1 : E(g, p) = E(f, p)
    BY <2>3, <2>5
  <2>9. \A p \in q .. c.len : g[p] = IF p = c.len THEN <<>> ELSE E(g, p)
    <3> TAKE p \in q .. c.len
    <3>1. CASE p = q
      <4>1. q \in q .. c.len - 1 /\ q # c.len
        BY <1>0, <2>2
      <4>2. g[q] = E(g, q)
        BY <2>6, <2>8, <4>1, Zenon
      <4> QED
        BY <3>1, <4>1, <4>2, Zenon
    <3>2. CASE p # q
      <4>1. p \in q + 1 .. c.len
        BY <1>0, <2>2, <3>2
      <4>2. p # c.len => p \in q .. c.len - 1
        BY <1>0, <2>2
      <4> QED
        BY <2>4, <2>5, <2>8, <4>1, <4>2
    <3> QED
      BY <3>1, <3>2
  <2>10. Lists(c, b, m + 1, g)
    BY <2>7, <2>9 DEF Lists, R
  <2> QED
    BY <2>10
<1>3. \A m \in Nat : m \in T
  <2> HIDE DEF T
  <2> QED
    BY <1>1, <1>2, Induction
<1> QED
  BY <1>3

\* The equations of ListingFrom, and that its rows are rows.
LEMMA ListingEquations ==
    ASSUME 0 \notin InsnLens, blob \in Blobs, NEW c \in Slices(Len(blob)), NEW b \in Nat
    PROVE  /\ ListingFrom(c, b, c.len) = <<>>
           /\ \A p \in 0 .. c.len - 1 :
                ListingFrom(c, b, p) =
                  <<RowAt(blob, c, b, p)>> \o ListingFrom(c, b, p + RowAt(blob, c, b, p).size)
           /\ \A p \in 0 .. c.len : ListingFrom(c, b, p) \in Seq(Row)
<1> DEFINE R(p) == RowAt(blob, c, b, p)
           f == CHOOSE g : Lists(c, b, c.len, g)
<1>0. c.len \in Nat /\ c.len - c.len = 0
  BY BlobLength DEF Slices
<1>1. Lists(c, b, c.len, f)
  BY <1>0, ListsExist
<1>2. \A p : ListingFrom(c, b, p) = f[p]
  BY <1>0 DEF ListingFrom, Lists
<1> HIDE DEF f
<1>3. \A p \in 0 .. c.len :
        /\ p = c.len => f[p] = <<>>
        /\ p # c.len => f[p] = <<R(p)>> \o f[p + R(p).size]
  BY <1>0, <1>1 DEF Lists
<1>4. \A p \in 0 .. c.len - 1 :
        R(p) \in Row /\ R(p).size \in Nat \ {0} /\ p + R(p).size <= c.len
  BY <1>0, RowFits
<1> HIDE DEF R
<1>5. f[c.len] = <<>>
  <2>1. c.len \in 0 .. c.len
    BY <1>0
  <2> QED
    BY <1>3, <2>1, Zenon
<1>6. \A p \in 0 .. c.len - 1 : f[p] = <<R(p)>> \o f[p + R(p).size]
  <2>1. \A p \in 0 .. c.len - 1 : p \in 0 .. c.len /\ p # c.len
    BY <1>0
  <2> QED
    BY <1>3, <2>1, Zenon
<1> DEFINE T == {m \in Nat : \A p \in 0 .. c.len : p >= c.len - m => f[p] \in Seq(Row)}
<1>7. 0 \in T
  <2>1. <<>> \in Seq(Row)
    OBVIOUS
  <2>2. \A p \in 0 .. c.len : p >= c.len - 0 => p = c.len
    BY <1>0
  <2>3. \A p \in 0 .. c.len : p >= c.len - 0 => f[p] \in Seq(Row)
    BY <1>5, <2>1, <2>2, Zenon
  <2> QED
    BY <2>3
<1>8. ASSUME NEW m \in Nat, m \in T PROVE m + 1 \in T
  <2> SUFFICES ASSUME NEW p \in 0 .. c.len, p >= c.len - (m + 1) PROVE f[p] \in Seq(Row)
    OBVIOUS
  <2>1. CASE p >= c.len - m
    BY <1>8, <2>1
  <2>2. CASE p < c.len - m
    <3>1. p \in 0 .. c.len - 1
      BY <1>0, <2>2
    <3>2. p + R(p).size \in 0 .. c.len /\ p + R(p).size >= c.len - m
      BY <1>0, <1>4, <3>1
    <3>3. f[p + R(p).size] \in Seq(Row)
      BY <1>8, <3>2
    <3>4. \A r \in Row, rows \in Seq(Row) : <<r>> \o rows \in Seq(Row)
      OBVIOUS
    <3>5. R(p) \in Row /\ f[p] = <<R(p)>> \o f[p + R(p).size]
      BY <1>4, <1>6, <3>1, Zenon
    <3>6. <<R(p)>> \o f[p + R(p).size] \in Seq(Row)
      BY <3>3, <3>4, <3>5, Zenon
    <3> QED
      BY <3>5, <3>6, Zenon
  <2> QED
    BY <1>0, <2>1, <2>2
<1>9. \A m \in Nat : m \in T
  <2> HIDE DEF T
  <2> QED
    BY <1>7, <1>8, Induction
<1>10. \A p \in 0 .. c.len : f[p] \in Seq(Row)
  BY <1>0, <1>9
<1> QED
  BY <1>2, <1>5, <1>6, <1>10 DEF R

(***************************************************************************)
(* ListingUpTo with its recursive function as a parameter.                 *)
(***************************************************************************)
Joins(m, f) ==
    f = [k \in 0 .. m |->
            IF k = 0 THEN <<>>
            ELSE f[k - 1] \o ListingFrom(regions[k].code, regions[k].start, 0)]

LEMMA JoinsExist == \A m \in Nat : \E f : Joins(m, f)
<1> DEFINE L(k) == ListingFrom(regions[k].code, regions[k].start, 0)
           T == {m \in Nat : \E f : Joins(m, f)}
<1>1. 0 \in T
  <2>1. Joins(0, [k \in 0 .. 0 |-> <<>>])
    BY DEF Joins
  <2> QED
    BY <2>1
<1>2. ASSUME NEW m \in Nat, m \in T PROVE m + 1 \in T
  <2>1. PICK f : Joins(m, f)
    BY <1>2
  <2>2. \A k \in 0 .. m : f[k] = IF k = 0 THEN <<>> ELSE f[k - 1] \o L(k)
    BY <2>1 DEF Joins
  <2> HIDE DEF L
  <2> DEFINE last == f[m] \o L(m + 1)
  <2> HIDE DEF last
  <2> DEFINE g == [k \in 0 .. m + 1 |-> IF k = m + 1 THEN last ELSE f[k]]
  <2>3. \A k \in 0 .. m : g[k] = f[k]
    OBVIOUS
  <2>4. g[m + 1] = last /\ g = [k \in 0 .. m + 1 |-> g[k]]
    OBVIOUS
  <2> HIDE DEF g
  <2>5. \A k \in 0 .. m + 1 : g[k] = IF k = 0 THEN <<>> ELSE g[k - 1] \o L(k)
    <3> TAKE k \in 0 .. m + 1
    <3>1. CASE k = m + 1
      <4>1. k # 0 /\ k - 1 = m /\ g[m] = f[m]
        BY <2>3, <3>1
      <4> QED
        BY <2>4, <3>1, <4>1 DEF last
    <3>2. CASE k # m + 1
      <4>1. k \in 0 .. m /\ (k # 0 => k - 1 \in 0 .. m)
        BY <3>2
      <4> QED
        BY <2>2, <2>3, <4>1
    <3> QED
      BY <3>1, <3>2
  <2>6. Joins(m + 1, g)
    BY <2>4, <2>5 DEF Joins, L
  <2> QED
    BY <2>6
<1>3. \A m \in Nat : m \in T
  <2> HIDE DEF T
  <2> QED
    BY <1>1, <1>2, Induction
<1> QED
  BY <1>3

LEMMA UpToEquations ==
    ASSUME Len(regions) \in Nat
    PROVE  /\ ListingUpTo(0) = <<>>
           /\ \A k \in 1 .. Len(regions) :
                ListingUpTo(k) =
                  ListingUpTo(k - 1) \o ListingFrom(regions[k].code, regions[k].start, 0)
<1> DEFINE L(k) == ListingFrom(regions[k].code, regions[k].start, 0)
           f == CHOOSE g : Joins(Len(regions), g)
<1>1. Joins(Len(regions), f)
  BY JoinsExist
<1>2. \A k : ListingUpTo(k) = f[k]
  BY DEF ListingUpTo, Joins
<1> HIDE DEF f
<1>3. \A k \in 0 .. Len(regions) :
        /\ k = 0 => f[k] = <<>>
        /\ k # 0 => f[k] = f[k - 1] \o L(k)
  BY <1>1 DEF Joins
<1> HIDE DEF L
<1>4. f[0] = <<>>
  BY <1>3
<1>5. \A k \in 1 .. Len(regions) : f[k] = f[k - 1] \o L(k)
  <2>1. \A k \in 1 .. Len(regions) : k \in 0 .. Len(regions) /\ k # 0
    OBVIOUS
  <2> QED
    BY <1>3, <2>1, Zenon
<1> QED
  BY <1>2, <1>4, <1>5, Zenon DEF L

\* A listing of rows, and the beginning of the listing of more regions.
LEMMA UpToIsPrefix ==
    ASSUME 0 \notin InsnLens, blob \in Blobs, RegionsOK
    PROVE  \A k \in 0 .. Len(regions) :
             ListingUpTo(k) \in Seq(Row) /\ Prefix(ListingUpTo(k), FullListing)
<1> DEFINE N == Len(regions)
           U(k) == ListingUpTo(k)
           L(k) == ListingFrom(regions[k].code, regions[k].start, 0)
<1>0. N \in Nat
  BY DEF RegionsOK
<1>1. U(0) = <<>> /\ \A k \in 1 .. N : U(k) = U(k - 1) \o L(k)
  BY <1>0, UpToEquations
<1>2. \A k \in 1 .. N : L(k) \in Seq(Row)
  <2> TAKE k \in 1 .. N
  <2>1. regions[k].code \in Slices(Len(blob)) /\ regions[k].start \in Nat
    BY AddrSpaceAssumption DEF RegionsOK, Fits
  <2>2. 0 \in 0 .. regions[k].code.len
    BY <2>1, BlobLength DEF Slices
  <2> QED
    BY <2>1, <2>2, ListingEquations
<1> HIDE DEF U, L, N
<1> DEFINE T == {m \in Nat : m <= N => U(m) \in Seq(Row)}
<1>3. \A m \in Nat : m \in T
  <2>1. 0 \in T
    <3>1. <<>> \in Seq(Row)
      OBVIOUS
    <3>2. U(0) \in Seq(Row)
      BY <1>1, <3>1, Zenon
    <3> QED
      BY <3>2
  <2>2. ASSUME NEW m \in Nat, m \in T PROVE m + 1 \in T
    <3> SUFFICES ASSUME m + 1 <= N PROVE U(m + 1) \in Seq(Row)
      OBVIOUS
    <3>1. m + 1 \in 1 .. N /\ m + 1 - 1 = m /\ m <= N
      BY <1>0
    <3>2. U(m + 1) = U(m) \o L(m + 1) /\ U(m) \in Seq(Row) /\ L(m + 1) \in Seq(Row)
      BY <1>1, <1>2, <2>2, <3>1
    <3>3. \A p, q \in Seq(Row) : p \o q \in Seq(Row)
      OBVIOUS
    <3> QED
      BY <3>2, <3>3, Zenon
  <2> HIDE DEF T
  <2> QED
    BY <2>1, <2>2, Induction
<1>4. \A k \in 0 .. N : U(k) \in Seq(Row)
  BY <1>0, <1>3
<1> DEFINE P == {m \in Nat : m <= N => Prefix(U(N - m), U(N))}
<1>5. \A m \in Nat : m \in P
  <2>1. 0 \in P
    <3>1. U(N) \in Seq(Row) /\ N - 0 = N
      BY <1>0, <1>4
    <3>2. IsList(U(N)) /\ Len(U(N)) <= Len(U(N))
      BY <3>1 DEF IsList
    <3>3. Prefix(U(N), U(N))
      BY <3>2 DEF Prefix
    <3> QED
      BY <3>1, <3>3
  <2>2. ASSUME NEW m \in Nat, m \in P PROVE m + 1 \in P
    <3> SUFFICES ASSUME m + 1 <= N PROVE Prefix(U(N - (m + 1)), U(N))
      OBVIOUS
    <3> DEFINE k == N - m
    <3>1. k \in 1 .. N /\ k - 1 = N - (m + 1) /\ k - 1 \in 0 .. N /\ m <= N
      BY <1>0
    <3> HIDE DEF k
    <3>2. U(k) = U(k - 1) \o L(k) /\ U(k - 1) \in Seq(Row) /\ L(k) \in Seq(Row)
      BY <1>1, <1>2, <1>4, <3>1
    <3>3. Prefix(U(k - 1), U(k))
      BY <3>2, Concatenation DEF IsList
    <3>4. Prefix(U(k), U(N))
      BY <2>2, <3>1 DEF k
    <3>5. U(k - 1) \in Seq(Row) /\ U(k) \in Seq(Row) /\ U(N) \in Seq(Row)
      BY <1>0, <1>4, <3>1
    <3>6. Len(U(k - 1)) \in Nat /\ Len(U(k)) \in Nat /\ Len(U(N)) \in Nat
      BY <3>5
    <3>7. Prefix(U(k - 1), U(N))
      <4> DEFINE p == U(k - 1)
                 q == U(k)
      <4>1. \A x \in 1 .. Len(p) : x \in 1 .. Len(q)
        BY <3>3, <3>6 DEF Prefix
      <4> QED
        BY <3>3, <3>4, <3>6, <4>1 DEF Prefix
    <3> QED
      BY <3>1, <3>7
  <2> HIDE DEF P
  <2> QED
    BY <2>1, <2>2, Induction
<1>6. \A k \in 0 .. N : Prefix(U(k), U(N))
  <2> TAKE k \in 0 .. N
  <2>1. N - k \in Nat /\ N - k <= N /\ N - (N - k) = k
    BY <1>0
  <2> QED
    BY <1>5, <2>1
<1> QED
  BY <1>4, <1>6 DEF U, N, FullListing

-----------------------------------------------------------------------------
(***************************************************************************)
(* The inductive invariant behind OutputIsListing, for requests that get a *)
(* decoder: the sweep of the region is in order, and its rows so far       *)
(* followed by the listing of what is not swept of the region are the      *)
(* listing of the regions up to this one.                                  *)
(***************************************************************************)
Swept == Lin!Swept
InOrder == Lin!BatchInPlace /\ Lin!RowsBounded /\ Lin!RowsTile /\ Lin!RowsFaithful

Listed ==
    /\ InOrder
    /\ phase # "sweep" => pc = "done"
    /\ phase = "returned" => region = Len(regions) \/ Lin!Capped
    /\ out \o ListingFrom(code, base, Swept) = ListingUpTo(region)

WithoutDecoder == phase = "returned" /\ Diagnosed

\* What the invariants say of the sweep, in numbers.
LEMMA SweptIn ==
    ASSUME Lin!TypeOK, InOrder
    PROVE  /\ code.len \in Nat /\ Swept \in 0 .. code.len
           /\ base \in Nat /\ code \in Slices(Len(blob)) /\ blob \in Blobs
           /\ out \in Seq(Row) /\ Len(out) \in Nat
           /\ pc = "done" /\ ~Lin!Capped => Swept = code.len
<1>1. /\ blob \in Blobs /\ code \in Slices(Len(blob)) /\ out \in Seq(Row)
      /\ offset \in Nat /\ consumed \in Nat /\ base \in 0 .. AddrSpace - 1
  BY SameInsns DEF Lin!TypeOK
<1>2. code.len \in Nat
  BY <1>1, BlobLength DEF Slices
<1>3. offset + consumed <= code.len
  BY DEF InOrder, Lin!RowsTile, Lin!Swept
<1>4. pc = "done" => consumed = 0 /\ (offset >= code.len \/ Lin!Capped)
  BY DEF InOrder, Lin!BatchInPlace
<1> QED
  BY <1>1, <1>2, <1>3, <1>4, AddrSpaceAssumption DEF Swept, Lin!Swept

\* The listings are of the blob and the regions.
LEMMA ListingsFixed ==
    ASSUME blob' = blob
    PROVE  /\ \A c, b, q : ListingFrom(c, b, q)' = ListingFrom(c, b, q)
           /\ regions' = regions => \A r : ListingUpTo(r)' = ListingUpTo(r)
<1>1. \A c, b, q : ListingFrom(c, b, q)' = ListingFrom(c, b, q)
  BY DEF ListingFrom
<1> QED
  BY <1>1 DEF ListingUpTo

LEMMA AppendThenRest ==
    ASSUME NEW rows \in Seq(Row), NEW row \in Row, NEW rest \in Seq(Row)
    PROVE  Append(rows, row) \o rest = rows \o (<<row>> \o rest)
<1>1. <<row>> \in Seq(Row) /\ Append(rows, row) = rows \o <<row>>
  BY AppendIsConcat
<1>2. (rows \o <<row>>) \o rest = rows \o (<<row>> \o rest)
  BY <1>1, ConcatAssociative
<1> QED
  BY <1>1, <1>2

LEMMA InOrderStep ==
    ASSUME 0 \notin InsnLens, Lin!TypeOK, InOrder, [Lin!Next]_(Lin!vars)
    PROVE  InOrder'
<1>1. Lin!PositiveLens
  BY DEF Lin!PositiveLens
<1>2. Lin!IInv /\ [Lin!Next]_(Lin!vars)
        => (Lin!BatchInPlace /\ Lin!RowsBounded /\ Lin!RowsTile /\ Lin!RowsFaithful)'
  BY <1>1, Lin!SafetyStep, AddrSpaceAssumption, InsnLensAssumption, MaxBlobAssumption,
     MaxInsnsAssumption
<1>3. Lin!IInv
  BY DEF Lin!IInv, InOrder
<1> QED
  BY <1>2, <1>3 DEF InOrder

\* Between the steps of the sweep, its variables stay.
LEMMA InOrderStays ==
    ASSUME 0 \notin InsnLens, Lin!TypeOK, InOrder, UNCHANGED <<blob, sweepVars>>
    PROVE  /\ InOrder'
           /\ UNCHANGED <<blob, code, base, out, pc>>
           /\ Swept' = Swept
<1>1. UNCHANGED Lin!vars
  BY DEF sweepVars, locals, Lin!vars, Lin!locals
<1>2. InOrder'
  BY <1>1, InOrderStep
<1> QED
  BY <1>2 DEF sweepVars, locals, Swept, Lin!Swept

LEMMA ListedInit == Init => Listed
<1> SUFFICES ASSUME Init PROVE Listed
  OBVIOUS
<1>1. /\ out = <<>> /\ start = Len(out) /\ offset = 0 /\ consumed = 0 /\ pc = "done"
      /\ code = NoBytes /\ code.len = 0 /\ base = 0 /\ blob \in Blobs
      /\ region = 0 /\ regions = <<>> /\ phase = "resolve"
  BY DEF Init, Res!Arrived, Sweep!Entered, NoBytes
<1>2. Len(out) = 0 /\ Len(regions) = 0
  BY <1>1
<1>3. InOrder
  <2>1. Lin!Mine = {} /\ Lin!Swept = 0
    BY <1>1, <1>2 DEF Lin!Mine, Lin!Swept
  <2> QED
    BY <1>1, <1>2, <2>1, MaxInsnsAssumption DEF InOrder, Lin!BatchInPlace, Lin!RowsBounded,
       Lin!RowsTile, Lin!RowsFaithful
<1>4. out \o ListingFrom(code, base, Swept) = ListingUpTo(region)
  <2>1. code \in Slices(Len(blob)) /\ Swept = 0
    BY <1>1, BlobLength DEF NoBytes, Slices, Swept, Lin!Swept
  <2>2. ListingFrom(code, base, Swept) = <<>>
    <3> DEFINE f == CHOOSE g : Lists(code, base, 0, g)
    <3>1. Lists(code, base, 0, [p \in code.len - 0 .. code.len |-> <<>>])
      BY <1>1 DEF Lists
    <3>2. Lists(code, base, 0, f)
      BY <3>1
    <3>3. f[0] = <<>>
      BY <1>1, <3>2 DEF Lists
    <3>4. ListingFrom(code, base, 0) = f[0]
      BY <1>1 DEF ListingFrom, Lists
    <3> QED
      BY <2>1, <3>3, <3>4
  <2>3. ListingUpTo(0) = <<>>
    BY <1>2, UpToEquations
  <2>4. <<>> \o <<>> = <<>>
    BY EmptySeq, ConcatEmptySeq
  <2> QED
    BY <1>1, <2>2, <2>3, <2>4
<1> QED
  BY <1>1, <1>3, <1>4 DEF Listed

(***************************************************************************)
(* A step of the sweep appends the next row of the listing, or none.       *)
(***************************************************************************)
LEMMA SweepLists ==
    ASSUME 0 \notin InsnLens, Lin!TypeOK, InOrder, Sweep!Next
    PROVE  /\ InOrder' /\ UNCHANGED <<blob, code, base>>
           /\ (out \o ListingFrom(code, base, Swept))' = out \o ListingFrom(code, base, Swept)
<1>1. [Lin!Next]_(Lin!vars)
  BY SameSweep
<1>2. UNCHANGED <<blob, code, base>>
  BY DEF Sweep!Next, Sweep!EndOfSlice, Sweep!CapReached, Sweep!CallCapstone,
     Sweep!CapstoneDecodes, Sweep!BatchReturned, Sweep!BadByte, Sweep!CopyRow,
     Sweep!Advance, Sweep!NothingConsumed, Sweep!params
<1>3. \/ out' = out /\ Swept' = Swept
      \/ /\ Swept < code.len
         /\ out' = Append(out, RowAt(blob, code, base, Swept))
         /\ Swept' = Swept + RowAt(blob, code, base, Swept).size
  BY <1>1, Lin!OneRow, SameInsns, AddrSpaceAssumption, InsnLensAssumption, MaxBlobAssumption,
     MaxInsnsAssumption DEF InOrder, Swept
<1>4. (out \o ListingFrom(code, base, Swept))' = out' \o ListingFrom(code, base, Swept')
  BY <1>2, ListingsFixed
<1>5. CASE out' = out /\ Swept' = Swept
  BY <1>1, <1>2, <1>4, <1>5, InOrderStep
<1>6. CASE /\ Swept < code.len
           /\ out' = Append(out, RowAt(blob, code, base, Swept))
           /\ Swept' = Swept + RowAt(blob, code, base, Swept).size
  <2> DEFINE row == RowAt(blob, code, base, Swept)
             rest == ListingFrom(code, base, Swept + row.size)
  <2>1. /\ code.len \in Nat /\ Swept \in 0 .. code.len - 1 /\ base \in Nat
        /\ code \in Slices(Len(blob)) /\ blob \in Blobs /\ out \in Seq(Row)
    BY <1>6, SweptIn
  <2>2. row \in Row /\ row.size \in Nat /\ Swept + row.size \in 0 .. code.len
    BY <2>1, RowFits
  <2>3. ListingFrom(code, base, Swept) = <<row>> \o rest /\ rest \in Seq(Row)
    BY <2>1, <2>2, ListingEquations
  <2>4. Append(out, row) \o rest = out \o (<<row>> \o rest)
    BY <2>1, <2>2, <2>3, AppendThenRest
  <2>5. (out \o ListingFrom(code, base, Swept))' = out \o ListingFrom(code, base, Swept)
    BY <1>4, <1>6, <2>3, <2>4
  <2> QED
    BY <1>1, <1>2, <2>5, InOrderStep
<1> QED
  BY <1>3, <1>5, <1>6

LEMMA NothingListedYet == (Len(regions) \in Nat => ListingUpTo(0) = <<>>)'
<1>1. Len(regions) \in Nat => ListingUpTo(0) = <<>>
  BY UpToEquations
<1> QED
  BY <1>1, PTL

LEMMA ListedStep ==
    ASSUME 0 \notin InsnLens
    PROVE  PhaseInv /\ Typed /\ (WithoutDecoder \/ Listed) /\ [Next]_vars
             => (WithoutDecoder \/ Listed)'
<1> SUFFICES ASSUME PhaseInv, Typed, WithoutDecoder \/ Listed, [Next]_vars
             PROVE  (WithoutDecoder \/ Listed)'
  OBVIOUS
<1>0. Lin!TypeOK /\ Len(regions) \in Nat /\ region \in Nat
  BY DEF Typed, RegionsOK
<1>a. phase # "returned" => Listed
  BY DEF WithoutDecoder
<1>b. ASSUME UNCHANGED <<blob, sweepVars>>, Listed, region = 0, region' = 0, Len(regions') \in Nat,
             phase # "sweep", phase' # "returned"
      PROVE  Listed'
  <2>1. /\ InOrder' /\ Swept' = Swept /\ UNCHANGED <<blob, code, base, out, pc>>
    BY <1>0, <1>b, InOrderStays DEF Listed
  <2>2. ListingUpTo(0) = <<>>
    BY <1>0, UpToEquations
  <2>3. ListingUpTo(0)' = <<>>
    BY <1>b, NothingListedYet
  <2>4. (out \o ListingFrom(code, base, Swept))' = out \o ListingFrom(code, base, Swept)
    BY <2>1, ListingsFixed
  <2> QED
    BY <1>b, <2>1, <2>2, <2>3, <2>4 DEF Listed
<1>1. CASE Resolve
  <2>1. /\ phase = "resolve" /\ phase' \in {"error", "select"} /\ region = 0
        /\ UNCHANGED <<blob, sweepVars, regions, region>>
    BY <1>1 DEF Resolve, Res!ResolveFromArgs, Res!ResolveFromHeader, Res!Resolved, PhaseInv
  <2> QED
    BY <1>0, <1>a, <1>b, <2>1
<1>2. CASE SelectRegions
  <2>1. /\ phase = "select" /\ phase' = "build" /\ region = 0
        /\ UNCHANGED <<blob, sweepVars, region>>
    BY <1>2 DEF SelectRegions, PhaseInv
  <2>2. Len(regions') \in Nat
    BY <1>2, TypedStep DEF Typed, RegionsOK
  <2> QED
    BY <1>0, <1>a, <1>b, <2>1, <2>2
<1>3. CASE Build
  <2>1. /\ phase = "build" /\ phase' \in {"error", "sweep"} /\ region = 0
        /\ UNCHANGED <<blob, sweepVars, regions, region>>
    BY <1>3 DEF Build, Res!BuildHandle, Res!BuildFails, PhaseInv
  <2> QED
    BY <1>0, <1>a, <1>b, <2>1
<1>4. CASE AnswerDiagnostic
  BY <1>4 DEF AnswerDiagnostic, WithoutDecoder, Diagnosed
<1>5. CASE EnterRegion
  <2>1. /\ region' = region + 1 /\ region < Len(regions)
        /\ code' = regions[region + 1].code /\ base' = regions[region + 1].start
        /\ UNCHANGED <<phase, blob, out, regions>> /\ phase = "sweep"
        /\ start' = Len(out) /\ offset' = 0 /\ consumed' = 0 /\ pc' = "loop"
        /\ pc = "done" /\ ~Lin!Capped
    BY <1>5, SameInsns DEF EnterRegion, resVars
  <2>2. /\ code.len \in Nat /\ base \in Nat /\ code \in Slices(Len(blob)) /\ blob \in Blobs
        /\ out \in Seq(Row) /\ Len(out) \in Nat /\ Swept = code.len
    BY <1>0, <1>a, <2>1, SweptIn DEF Listed
  <2>3. InOrder'
    <3>1. Lin!Mine' = {} /\ Lin!Swept' = 0
      BY <2>1, <2>2 DEF Lin!Mine, Lin!Swept
    <3>2. region + 1 \in 1 .. Len(regions)
      BY <1>0, <2>1
    <3>3. code' \in Slices(Len(blob))
      BY <2>1, <3>2 DEF Typed, RegionsOK, Fits
    <3>4. code'.len \in Nat
      BY <2>2, <3>3, BlobLength DEF Slices
    <3>5. Len(out) <= MaxInsns
      BY <1>a, <2>1 DEF Listed, InOrder, Lin!RowsBounded
    <3> QED
      BY <2>1, <2>2, <3>1, <3>4, <3>5 DEF InOrder, Lin!BatchInPlace, Lin!RowsBounded,
         Lin!RowsTile, Lin!RowsFaithful
  <2>4. out = ListingUpTo(region)
    <3>1. ListingFrom(code, base, code.len) = <<>>
      BY <2>2, ListingEquations
    <3>2. out \o <<>> = out
      BY <2>2, ConcatEmptySeq
    <3>3. out \o ListingFrom(code, base, Swept) = ListingUpTo(region)
      BY <1>a, <2>1 DEF Listed
    <3>4. ListingFrom(code, base, Swept) = <<>>
      BY <2>2, <3>1, Zenon
    <3> QED
      BY <3>2, <3>3, <3>4, Zenon
  <2>5. ListingUpTo(region + 1) = out \o ListingFrom(code', base', 0)
    <3>1. PICK k \in 1 .. Len(regions) : k = region + 1 /\ k - 1 = region
      BY <1>0, <2>1
    <3>2. ListingUpTo(k) = ListingUpTo(k - 1) \o ListingFrom(regions[k].code, regions[k].start, 0)
      BY <1>0, UpToEquations
    <3>3. ListingUpTo(k) = out \o ListingFrom(regions[k].code, regions[k].start, 0)
      BY <2>4, <3>1, <3>2, Zenon
    <3> QED
      BY <2>1, <3>1, <3>3, Zenon
  <2>6. Swept' = 0
    BY <2>1 DEF Swept, Lin!Swept
  <2>7. (out \o ListingFrom(code, base, Swept))' = ListingUpTo(region)'
    BY <2>1, <2>5, <2>6, ListingsFixed
  <2> QED
    BY <2>1, <2>3, <2>7 DEF Listed
<1>6. CASE SweepStep
  <2>1. phase = "sweep" /\ Sweep!Next /\ UNCHANGED <<phase, regions, region>>
    BY <1>6 DEF SweepStep, resVars
  <2>2. /\ InOrder' /\ UNCHANGED <<blob, code, base>>
        /\ (out \o ListingFrom(code, base, Swept))' = out \o ListingFrom(code, base, Swept)
    BY <1>0, <1>a, <2>1, SweepLists DEF Listed
  <2>3. ListingUpTo(region)' = ListingUpTo(region)
    BY <2>1, <2>2, ListingsFixed
  <2> QED
    BY <1>a, <2>1, <2>2, <2>3 DEF Listed
<1>7. CASE Return
  <2>1. /\ phase = "sweep" /\ phase' = "returned" /\ pc = "done"
        /\ region = Len(regions) \/ Lin!Capped
        /\ UNCHANGED <<blob, sweepVars, regions, region>>
    BY <1>7, SameInsns DEF Return, request
  <2>2. /\ InOrder' /\ Swept' = Swept /\ UNCHANGED <<blob, code, base, out, pc>>
    BY <1>0, <1>a, <2>1, InOrderStays DEF Listed
  <2>3. /\ (out \o ListingFrom(code, base, Swept))' = out \o ListingFrom(code, base, Swept)
        /\ ListingUpTo(region)' = ListingUpTo(region)
    BY <2>1, <2>2, ListingsFixed
  <2> QED
    BY <1>a, <2>1, <2>2, <2>3 DEF Listed, Lin!Capped
<1>8. CASE UNCHANGED vars
  <2>1. UNCHANGED <<blob, sweepVars, regions, region, phase, pc, out>>
    BY <1>8 DEF vars, resVars, sweepVars
  <2>2. CASE WithoutDecoder
    BY <2>1, <2>2 DEF WithoutDecoder, Diagnosed
  <2>3. CASE Listed
    <3>1. /\ InOrder' /\ Swept' = Swept /\ UNCHANGED <<blob, code, base, out, pc>>
      BY <1>0, <2>1, <2>3, InOrderStays DEF Listed
    <3>2. /\ (out \o ListingFrom(code, base, Swept))' = out \o ListingFrom(code, base, Swept)
          /\ ListingUpTo(region)' = ListingUpTo(region)
      BY <2>1, <3>1, ListingsFixed
    <3> QED
      BY <2>1, <2>3, <3>1, <3>2 DEF Listed, Lin!Capped
  <2> QED
    BY <2>2, <2>3
<1> QED
  BY <1>1, <1>2, <1>3, <1>4, <1>5, <1>6, <1>7, <1>8 DEF Next

(***************************************************************************)
(* OutputIsListing, for a decoder whose instructions have at least one     *)
(* byte: the rows are the first rows of the listing of every selected      *)
(* region from its first byte to its last, and the answer is cut off at    *)
(* the cap only.                                                           *)
(***************************************************************************)
THEOREM Listing == ASSUME 0 \notin InsnLens PROVE Spec => []OutputIsListing
<1>1. PhaseInv /\ Typed /\ (WithoutDecoder \/ Listed) => OutputIsListing
  <2> SUFFICES ASSUME PhaseInv, Typed, Listed, phase \in {"sweep", "returned"}
               PROVE  /\ out = SubSeq(FullListing, 1, Len(out))
                      /\ Answered => Len(out) = Smaller(Len(FullListing), MaxInsns)
    BY DEF WithoutDecoder, OutputIsListing
  <2> DEFINE up == ListingUpTo(region)
             rest == ListingFrom(code, base, Swept)
  <2>1. /\ code.len \in Nat /\ Swept \in 0 .. code.len /\ base \in Nat
        /\ code \in Slices(Len(blob)) /\ blob \in Blobs /\ out \in Seq(Row) /\ Len(out) \in Nat
        /\ pc = "done" /\ ~Lin!Capped => Swept = code.len
    BY SweptIn DEF Typed, Listed
  <2>2. rest \in Seq(Row) /\ (Swept = code.len => rest = <<>>)
    BY <2>1, ListingEquations
  <2>3. up \in Seq(Row) /\ Prefix(up, FullListing)
    BY <2>1, UpToIsPrefix DEF Typed, RegionsOK
  <2>4. up = out \o rest
    BY DEF Listed
  <2>5. Prefix(out, up) /\ Len(up) = Len(out) + Len(rest) /\ Len(rest) \in Nat
    BY <2>1, <2>2, <2>4, Concatenation DEF IsList
  <2> HIDE DEF up, rest
  <2>6. PICK X : FullListing \in Seq(X)
    BY <2>3 DEF Prefix, IsList
  <2>7. Len(FullListing) \in Nat /\ Len(up) \in Nat
    BY <2>3, <2>6
  <2>8. /\ Len(out) <= Len(up) /\ Len(up) <= Len(FullListing)
        /\ \A k \in 1 .. Len(out) : out[k] = FullListing[k]
    <3>1. Len(out) <= Len(up) /\ Len(up) <= Len(FullListing)
      BY <2>3, <2>5 DEF Prefix
    <3>2. \A k \in 1 .. Len(out) : k \in 1 .. Len(up)
      BY <2>1, <2>7, <3>1
    <3> QED
      BY <2>3, <2>5, <3>1, <3>2 DEF Prefix
  <2>9. out = SubSeq(FullListing, 1, Len(out))
    <3> DEFINE cut == SubSeq(FullListing, 1, Len(out))
    <3>1. /\ cut \in Seq(X) /\ Len(cut) = Len(out)
          /\ \A k \in 1 .. Len(out) : cut[k] = FullListing[k]
      BY <2>1, <2>6, <2>7, <2>8
    <3>2. /\ cut \in Seq(X \cup Row) /\ out \in Seq(X \cup Row)
          /\ \A k \in 1 .. Len(out) : cut[k] = out[k]
      BY <2>1, <2>8, <3>1
    <3> QED
      BY <3>1, <3>2, SeqEqual
  <2>10. ASSUME Answered PROVE Len(out) = Smaller(Len(FullListing), MaxInsns)
    <3>1. Len(out) <= MaxInsns
      BY DEF Listed, InOrder, Lin!RowsBounded
    <3>2. CASE Lin!Capped
      BY <2>1, <2>7, <2>8, <3>1, <3>2, MaxInsnsAssumption DEF Lin!Capped, Smaller
    <3>3. CASE ~Lin!Capped
      <4>1. region = Len(regions) /\ pc = "done"
        BY <2>10, <3>3 DEF Listed, Answered
      <4>2. rest = <<>> /\ Len(rest) = 0 /\ up = FullListing
        BY <2>1, <2>2, <3>3, <4>1 DEF up, FullListing
      <4> QED
        BY <2>1, <2>5, <2>7, <3>1, <4>2, MaxInsnsAssumption DEF Smaller
    <3> QED
      BY <3>2, <3>3
  <2> QED
    BY <2>9, <2>10
<1> QED
  BY <1>1, PhaseInit, PhaseStep, TypedInit, TypedStep, ListedInit, ListedStep, PTL DEF Spec

-----------------------------------------------------------------------------
(***************************************************************************)
(* Where the rows come from: each shows what decodes at its place of a     *)
(* region entered so far, every byte of the regions before the present one *)
(* is shown, and so are the swept bytes of the present one.                *)
(***************************************************************************)
InRegion(row, r) ==
    LET p == row.off - r.code.off
    IN  p \in 0 .. r.code.len - 1 /\ row = RowAt(blob, r.code, r.start, p)

Traced ==
    /\ region = 0 => out = <<>> /\ code.len = 0
    /\ region > 0 => code = regions[region].code /\ base = regions[region].start
    /\ \A k \in 1 .. Len(out) : \E r \in 1 .. region : InRegion(out[k], regions[r])
    /\ \A r \in 1 .. region - 1 : BytesOf(regions[r].code) \subseteq Shown
    /\ region > 0 => code.off .. code.off + Swept - 1 \subseteq Shown

LEMMA TracedInit == Init => Traced
<1> SUFFICES ASSUME Init PROVE Traced
  OBVIOUS
<1>1. out = <<>> /\ Len(out) = 0 /\ region = 0 /\ code.len = 0
  BY DEF Init, NoBytes
<1> QED
  BY <1>1 DEF Traced

\* While no region was entered, there is nothing to trace.
LEMMA NotYetTraced ==
    ASSUME Traced, region = 0, region' = 0, UNCHANGED <<out, code>>
    PROVE  Traced'
<1>1. Len(out) = 0
  BY DEF Traced
<1> QED
  BY <1>1 DEF Traced

LEMMA TracedStays ==
    ASSUME Traced, UNCHANGED <<blob, code, base, out, regions, region>>, Swept' = Swept
    PROVE  Traced'
  BY DEF Traced, InRegion, Shown

\* The bytes of the rows, after one more row.
LEMMA OneMoreShown ==
    ASSUME out \in Seq(Row), NEW row \in Row, out' = Append(out, row)
    PROVE  /\ Len(out) \in Nat /\ Len(out') = Len(out) + 1
           /\ out'[Len(out) + 1] = row
           /\ \A k \in 1 .. Len(out) : out'[k] = out[k]
           /\ Shown' = Shown \cup BytesOfRow(row)
<1>1. /\ Len(out) \in Nat /\ Len(out') = Len(out) + 1
      /\ out'[Len(out) + 1] = row
      /\ \A k \in 1 .. Len(out) : out'[k] = out[k]
  BY AppendProperties
<1>2. out' \in Seq(Row)
  BY AppendProperties
<1>3. DOMAIN out = 1 .. Len(out) /\ DOMAIN out' = 1 .. Len(out) + 1
  BY <1>1, <1>2
<1>4. DOMAIN out' = DOMAIN out \cup {Len(out) + 1}
  BY <1>1, <1>3
<1>5. Shown' = UNION {BytesOfRow(out'[k]) : k \in DOMAIN out'}
  BY DEF Shown, BytesOfRow
<1>6. \A k \in DOMAIN out : out'[k] = out[k]
  BY <1>1, <1>3
<1> QED
  BY <1>1, <1>4, <1>5, <1>6 DEF Shown

(***************************************************************************)
(* The row at an offset of a slice has its bytes in the slice and its      *)
(* address as far behind the slice's.                                      *)
(***************************************************************************)
LEMMA RowPlaced ==
    ASSUME 0 \notin InsnLens, blob \in Blobs, NEW c \in Slices(Len(blob)), NEW b \in Nat,
           NEW p \in Nat, p < c.len
    PROVE  /\ RowAt(blob, c, b, p) \in Row
           /\ RowAt(blob, c, b, p).size \in Nat \ {0}
           /\ p + RowAt(blob, c, b, p).size <= c.len
           /\ c.off \in Nat /\ c.len \in Nat
           /\ RowAt(blob, c, b, p).off = c.off + p
           /\ RowAt(blob, c, b, p).address = Wrap(b + p)
           /\ BytesOfRow(RowAt(blob, c, b, p)) =
                c.off + p .. c.off + (p + RowAt(blob, c, b, p).size) - 1
<1>1. c.off \in Nat /\ c.len \in Nat
  BY BlobLength DEF Slices
<1>2. /\ RowAt(blob, c, b, p) \in Row /\ RowAt(blob, c, b, p).size \in Nat \ {0}
      /\ p + RowAt(blob, c, b, p).size <= c.len
  BY RowFits
<1>3. RowAt(blob, c, b, p).off = c.off + p /\ RowAt(blob, c, b, p).address = Wrap(b + p)
  BY DEF RowAt, BadRow, InsnRow
<1>4. BytesOfRow(RowAt(blob, c, b, p)) = c.off + p .. c.off + (p + RowAt(blob, c, b, p).size) - 1
  <2> DEFINE row == RowAt(blob, c, b, p)
  <2>1. BytesOfRow(row) = row.off .. row.off + row.size - 1
    BY DEF BytesOfRow
  <2>2. row.off = c.off + p /\ row.size \in Nat
    BY <1>2, <1>3
  <2> HIDE DEF row
  <2>3. c.off + p + row.size - 1 = c.off + (p + row.size) - 1
    BY <1>1, <2>2
  <2>4. BytesOfRow(row) = c.off + p .. c.off + p + row.size - 1
    BY <2>1, <2>2, Zenon
  <2> QED
    BY <2>3, <2>4 DEF row
<1> QED
  BY <1>1, <1>2, <1>3, <1>4

LEMMA TracedStep ==
    ASSUME 0 \notin InsnLens
    PROVE  PhaseInv /\ Typed /\ (WithoutDecoder \/ (Listed /\ Traced)) /\ [Next]_vars
             => (WithoutDecoder \/ Traced)'
<1> SUFFICES ASSUME PhaseInv, Typed, WithoutDecoder \/ (Listed /\ Traced), [Next]_vars
             PROVE  (WithoutDecoder \/ Traced)'
  OBVIOUS
<1>0. /\ Lin!TypeOK /\ Len(regions) \in Nat /\ region \in Nat
      /\ code.off \in Nat /\ code.len \in Nat /\ code \in Slices(Len(blob))
  <2>1. blob \in Blobs /\ code \in Slices(Len(blob))
    BY SameInsns DEF Typed, Lin!TypeOK
  <2> QED
    BY <2>1, BlobLength DEF Typed, RegionsOK, Slices
<1>a. phase # "returned" => Listed /\ Traced
  BY DEF WithoutDecoder
<1>b. /\ phase \in {"resolve", "select", "build"} => region = 0
      /\ UNCHANGED sweepVars => UNCHANGED <<code, base, out>>
      /\ UNCHANGED <<blob, sweepVars>> => Swept' = Swept
  BY DEF PhaseInv, sweepVars, locals, Swept, Lin!Swept
<1>1. CASE Resolve \/ SelectRegions \/ Build
  <2>1. phase \in {"resolve", "select", "build"} /\ UNCHANGED <<sweepVars, region>>
    BY <1>1 DEF Resolve, Res!ResolveFromArgs, Res!ResolveFromHeader, SelectRegions, Build,
       Res!BuildHandle, Res!BuildFails
  <2> QED
    BY <1>a, <1>b, <2>1, NotYetTraced
<1>2. CASE AnswerDiagnostic
  BY <1>2 DEF AnswerDiagnostic, WithoutDecoder, Diagnosed
<1>3. CASE EnterRegion
  <2>1. /\ region' = region + 1 /\ region < Len(regions)
        /\ code' = regions[region + 1].code /\ base' = regions[region + 1].start
        /\ UNCHANGED <<phase, blob, out, regions>> /\ phase = "sweep"
        /\ offset' = 0 /\ consumed' = 0
        /\ pc = "done" /\ ~Lin!Capped
    BY <1>3, SameInsns DEF EnterRegion, resVars
  <2>2. Swept = code.len /\ Swept' = 0
    BY <1>0, <1>a, <2>1, SweptIn DEF Listed, Swept, Lin!Swept
  <2>3. Shown' = Shown
    BY <2>1 DEF Shown
  <2>4. ASSUME NEW r \in 1 .. region' - 1 PROVE BytesOf(regions[r].code) \subseteq Shown
    <3>1. CASE r \in 1 .. region - 1
      BY <1>a, <2>1, <3>1 DEF Traced
    <3>2. CASE r = region
      BY <1>a, <2>1, <2>2, <3>2 DEF Traced, BytesOf
    <3> QED
      BY <1>0, <2>1, <3>1, <3>2
  <2>5. ASSUME NEW k \in 1 .. Len(out) PROVE \E r \in 1 .. region' : InRegion(out[k], regions[r])
    <3>1. PICK r \in 1 .. region : InRegion(out[k], regions[r])
      BY <1>a, <2>1 DEF Traced
    <3> QED
      BY <1>0, <2>1, <3>1
  <2>6. \A row, r : InRegion(row, r)' <=> InRegion(row, r)
    BY <2>1 DEF InRegion
  <2>7. code'.off .. code'.off + Swept' - 1 = {}
    <3>1. region + 1 \in 1 .. Len(regions)
      BY <1>0, <2>1
    <3>2. code'.off \in Nat
      BY <2>1, <3>1, BlobLength, SameInsns DEF Typed, RegionsOK, Fits, Slices, Lin!TypeOK
    <3> QED
      BY <2>2, <3>2
  <2> QED
    BY <1>0, <2>1, <2>3, <2>4, <2>5, <2>6, <2>7 DEF Traced
<1>4. CASE SweepStep
  <2>1. /\ phase = "sweep" /\ Sweep!Next /\ UNCHANGED <<regions, region>>
        /\ Listed /\ Traced
    BY <1>a, <1>4 DEF SweepStep
  <2>2. UNCHANGED <<blob, code, base>>
    BY <1>0, <2>1, SweepLists DEF Listed
  <2>3. \/ out' = out /\ Swept' = Swept
        \/ /\ Swept < code.len
           /\ out' = Append(out, RowAt(blob, code, base, Swept))
           /\ Swept' = Swept + RowAt(blob, code, base, Swept).size
    BY <1>0, <2>1, SameSweep, Lin!OneRow, SameInsns, AddrSpaceAssumption, InsnLensAssumption,
       MaxBlobAssumption, MaxInsnsAssumption DEF Listed, InOrder, Swept
  <2>4. CASE out' = out /\ Swept' = Swept
    BY <2>1, <2>2, <2>4, TracedStays
  <2>5. CASE /\ Swept < code.len
             /\ out' = Append(out, RowAt(blob, code, base, Swept))
             /\ Swept' = Swept + RowAt(blob, code, base, Swept).size
    <3> DEFINE row == RowAt(blob, code, base, Swept)
    <3>1. Swept \in Nat /\ base \in Nat /\ blob \in Blobs /\ out \in Seq(Row)
      BY <1>0, <2>1, SweptIn DEF Listed
    <3>2. /\ row \in Row /\ row.size \in Nat \ {0}
          /\ row.off = code.off + Swept
          /\ BytesOfRow(row) = code.off + Swept .. code.off + (Swept + row.size) - 1
      <4>1. Swept < code.len
        BY <2>5
      <4>2. row \in Row /\ row.size \in Nat \ {0}
        BY <1>0, <3>1, <4>1, RowPlaced
      <4>3. row.off = code.off + Swept
        BY <1>0, <3>1, <4>1, RowPlaced
      <4>4. BytesOfRow(row) = code.off + Swept .. code.off + (Swept + row.size) - 1
        BY <1>0, <3>1, <4>1, RowPlaced
      <4> QED
        BY <4>2, <4>3, <4>4
    <3>3. region > 0 /\ code = regions[region].code /\ base = regions[region].start
      BY <1>0, <2>1, <2>5, <3>1 DEF Traced
    <3>4. InRegion(row, regions[region])
      <4>1. row.off - code.off = Swept /\ Swept \in 0 .. code.len - 1
        BY <1>0, <2>5, <3>1, <3>2
      <4> QED
        BY <3>3, <4>1 DEF InRegion
    <3>5. Swept' = Swept + row.size /\ out' = Append(out, row)
      BY <2>5
    <3> HIDE DEF row
    <3>6. /\ Len(out) \in Nat /\ Len(out') = Len(out) + 1
          /\ out'[Len(out) + 1] = row
          /\ \A k \in 1 .. Len(out) : out'[k] = out[k]
          /\ Shown' = Shown \cup BytesOfRow(row)
      BY <3>1, <3>2, <3>5, OneMoreShown
    <3>7. ASSUME NEW k \in 1 .. Len(out')
          PROVE  \E r \in 1 .. region : InRegion(out'[k], regions[r])
      <4>1. CASE k \in 1 .. Len(out)
        BY <2>1, <3>6, <4>1 DEF Traced
      <4>2. CASE k = Len(out) + 1
        BY <1>0, <3>3, <3>4, <3>6, <4>2
      <4> QED
        BY <3>6, <4>1, <4>2
    <3>8. code.off .. code.off + Swept' - 1 \subseteq Shown'
      <4>1. \A x \in code.off .. code.off + Swept' - 1 :
              x \in code.off .. code.off + Swept - 1 \/ x \in BytesOfRow(row)
        BY <1>0, <3>1, <3>2, <3>5
      <4> QED
        BY <2>1, <3>3, <3>6, <4>1 DEF Traced
    <3>9. \A x, r : InRegion(x, r)' <=> InRegion(x, r)
      BY <2>2 DEF InRegion
    <3>10. \A r \in 1 .. region - 1 : BytesOf(regions[r].code) \subseteq Shown'
      BY <2>1, <3>6 DEF Traced
    <3> QED
      BY <2>1, <2>2, <3>3, <3>7, <3>8, <3>9, <3>10 DEF Traced
  <2> QED
    BY <2>3, <2>4, <2>5
<1>5. CASE Return
  <2>1. /\ phase = "sweep" /\ UNCHANGED <<blob, sweepVars, regions, region>>
    BY <1>5 DEF Return, request
  <2> QED
    BY <1>a, <1>b, <2>1, TracedStays
<1>6. CASE UNCHANGED vars
  <2>1. UNCHANGED <<blob, sweepVars, regions, region, phase, out>>
    BY <1>6 DEF vars, resVars, sweepVars
  <2>2. CASE WithoutDecoder
    BY <2>1, <2>2 DEF WithoutDecoder, Diagnosed
  <2>3. CASE Traced
    BY <1>b, <2>1, <2>3, TracedStays
  <2> QED
    BY <2>2, <2>3
<1> QED
  BY <1>1, <1>2, <1>3, <1>4, <1>5, <1>6 DEF Next

-----------------------------------------------------------------------------
LEMMA RowOfRegion ==
    ASSUME 0 \notin InsnLens, blob \in Blobs, NEW r, Fits(r, Len(blob)), NEW row, InRegion(row, r)
    PROVE  /\ BytesOfRow(row) \subseteq BytesOf(r.code)
           /\ r.code.len \in Nat \ {0} /\ r.code.off \in Nat /\ row.off \in Nat /\ r.start \in Nat
           /\ row.address = Wrap(r.start + (row.off - r.code.off))
<1> DEFINE p == row.off - r.code.off
           c == r.code
<1>1. c \in Slices(Len(blob)) /\ r.start \in Nat
  BY AddrSpaceAssumption DEF Fits
<1>2. c.off \in Nat /\ c.len \in Nat
  BY <1>1, BlobLength DEF Slices
<1>3. p \in 0 .. c.len - 1 /\ row = RowAt(blob, c, r.start, p)
  BY DEF InRegion
<1> HIDE DEF p, c
<1>4. p \in Nat /\ p < c.len
  BY <1>2, <1>3
<1> DEFINE at == RowAt(blob, c, r.start, p)
<1>a. at.size \in Nat /\ p + at.size <= c.len /\ at.off = c.off + p
  BY <1>1, <1>4, RowPlaced
<1>b. at.address = Wrap(r.start + p)
  <2>1. \A a \in Nat, q \in Nat : q < c.len => RowAt(blob, c, a, q).address = Wrap(a + q)
    BY <1>1, RowPlaced
  <2> QED
    BY <1>1, <1>4, <2>1, Zenon
<1>c. BytesOfRow(at) = c.off + p .. c.off + (p + at.size) - 1
  <2>1. \A a \in Nat, q \in Nat : q < c.len =>
          BytesOfRow(RowAt(blob, c, a, q)) = c.off + q .. c.off + (q + RowAt(blob, c, a, q).size) - 1
    BY <1>1, RowPlaced
  <2> QED
    BY <1>1, <1>4, <2>1, Zenon
<1>d. row = at
  BY <1>3
<1> HIDE DEF at
<1>5. row.size \in Nat /\ p + row.size <= c.len /\ row.off = c.off + p
  BY <1>a, <1>d
<1>6. row.address = Wrap(r.start + p)
  BY <1>b, <1>d
<1>7. BytesOfRow(row) = c.off + p .. c.off + (p + row.size) - 1
  BY <1>c, <1>d, Zenon
<1>8. \A x \in c.off + p .. c.off + (p + row.size) - 1 : x \in c.off .. c.off + c.len - 1
  BY <1>2, <1>4, <1>5
<1>9. BytesOfRow(row) \subseteq BytesOf(c)
  BY <1>7, <1>8 DEF BytesOf
<1> QED
  BY <1>1, <1>2, <1>4, <1>5, <1>6, <1>9 DEF p, c

(***************************************************************************)
(* What a request with a decoder knows of its regions, if it chooses among *)
(* the sections of a table.                                                *)
(***************************************************************************)
LEMMA RegionsAreWanted ==
    ASSUME Typed, ByTable, phase = "sweep" \/ (phase = "returned" /\ ~Diagnosed)
    PROVE  /\ Len(regions) \in Nat /\ Len(regions) = Cardinality(Wanted)
           /\ \A k \in 1 .. Len(regions) : \E w \in Wanted : regions[k] = RegionOf(w, Len(regions))
           /\ \A w \in Wanted : \E k \in 1 .. Len(regions) : regions[k] = RegionOf(w, Len(regions))
<1>1. obj \in Objects /\ Len(blob) \in Nat
  BY BlobLength, SameInsns DEF Typed, Lin!TypeOK
<1>2. regions = SectionRegions(Picked, Len(blob))
  BY SelectsByTable DEF Typed, Selected
<1> QED
  BY <1>1, <1>2, PickedRegions

LEMMA NothingShownYet == out = <<>> => Shown = {} /\ DOMAIN out = {}
<1> SUFFICES ASSUME out = <<>> PROVE Shown = {} /\ DOMAIN out = {}
  OBVIOUS
<1>1. DOMAIN out = {}
  OBVIOUS
<1> QED
  BY <1>1 DEF Shown

(***************************************************************************)
(* The inductive invariant of the request.                                 *)
(***************************************************************************)
RequestInv == PhaseInv /\ Typed /\ (WithoutDecoder \/ (Listed /\ Traced))

LEMMA RequestInvariant == ASSUME 0 \notin InsnLens PROVE Spec => []RequestInv
<1>1. Init => RequestInv
  BY PhaseInit, TypedInit, ListedInit, TracedInit DEF RequestInv
<1>2. RequestInv /\ [Next]_vars => RequestInv'
  <2>1. PhaseInv /\ Typed /\ (WithoutDecoder \/ (Listed /\ Traced)) /\ [Next]_vars
          => (WithoutDecoder \/ (Listed /\ Traced))'
    BY ListedStep, TracedStep
  <2> QED
    BY <2>1, PhaseStep, TypedStep DEF RequestInv
<1> QED
  BY <1>1, <1>2, PTL DEF Spec

LEMMA Shows ==
    ASSUME 0 \notin InsnLens, Typed, Listed, Traced, ByTable, ~Diagnosed,
           phase \in {"sweep", "returned"}
    PROVE  /\ Shown \subseteq WantedBytes
           /\ Answered /\ Len(out) < MaxInsns => Shown = WantedBytes
<1>0. /\ blob \in Blobs /\ out \in Seq(Row) /\ region \in 0 .. Len(regions)
      /\ code.len \in Nat /\ Swept \in 0 .. code.len
      /\ pc = "done" /\ ~Lin!Capped => Swept = code.len
      /\ \A k \in 1 .. Len(regions) : Fits(regions[k], Len(blob))
  BY SweptIn DEF Typed, Listed, RegionsOK
<1>1. /\ Len(regions) \in Nat
      /\ \A k \in 1 .. Len(regions) : \E w \in Wanted : regions[k] = RegionOf(w, Len(regions))
      /\ \A w \in Wanted : \E k \in 1 .. Len(regions) : regions[k] = RegionOf(w, Len(regions))
  BY RegionsAreWanted
<1>2. \A w : RegionOf(w, Len(regions)).code = section_bytes(Table[w], Len(blob))
  BY DEF RegionOf
<1>3. Shown \subseteq WantedBytes
  <2> SUFFICES ASSUME NEW k \in DOMAIN out PROVE BytesOfRow(out[k]) \subseteq WantedBytes
    BY DEF Shown
  <2>1. k \in 1 .. Len(out)
    BY <1>0
  <2>2. PICK r \in 1 .. region : InRegion(out[k], regions[r])
    BY <2>1 DEF Traced
  <2>3. r \in 1 .. Len(regions)
    BY <1>0, <1>1
  <2>4. BytesOfRow(out[k]) \subseteq BytesOf(regions[r].code)
    BY <1>0, <2>2, <2>3, RowOfRegion
  <2>5. PICK w \in Wanted : regions[r] = RegionOf(w, Len(regions))
    BY <1>1, <2>3
  <2>6. regions[r].code = section_bytes(Table[w], Len(blob))
    BY <1>2, <2>5
  <2> QED
    BY <2>4, <2>6 DEF WantedBytes
<1>4. ASSUME Answered, Len(out) < MaxInsns PROVE WantedBytes \subseteq Shown
  <2>1. region = Len(regions) /\ pc = "done" /\ ~Lin!Capped
    <3>1. ~Lin!Capped
      BY <1>0, <1>4, MaxInsnsAssumption DEF Lin!Capped
    <3> QED
      BY <1>4, <3>1 DEF Listed, Answered
  <2>2. \A k \in 1 .. Len(regions) : BytesOf(regions[k].code) \subseteq Shown
    <3> TAKE k \in 1 .. Len(regions)
    <3>1. CASE k \in 1 .. region - 1
      BY <3>1 DEF Traced
    <3>2. CASE k = region
      BY <1>0, <1>1, <2>1, <3>2 DEF Traced, BytesOf
    <3> QED
      BY <1>1, <2>1, <3>1, <3>2
  <2>3. ASSUME NEW w \in Wanted
        PROVE  BytesOf(section_bytes(Table[w], Len(blob))) \subseteq Shown
    BY <1>1, <1>2, <2>2
  <2> QED
    BY <2>3 DEF WantedBytes
<1> QED
  BY <1>3, <1>4

(***************************************************************************)
(* SelectedSectionsShown: only bytes of the sections that were asked for   *)
(* are shown, and all of them unless the cap stops the sweep.              *)
(***************************************************************************)
THEOREM Selecting == ASSUME 0 \notin InsnLens PROVE Spec => []SelectedSectionsShown
<1>1. RequestInv => SelectedSectionsShown
  <2> SUFFICES ASSUME RequestInv, ByTable, ~Diagnosed
               PROVE  /\ Shown \subseteq WantedBytes
                      /\ Answered /\ Len(out) < MaxInsns => Shown = WantedBytes
    BY DEF SelectedSectionsShown, ByTable
  <2>1. CASE phase \in {"sweep", "returned"}
    BY <2>1, Shows DEF RequestInv, WithoutDecoder
  <2>2. CASE phase \notin {"sweep", "returned"}
    BY <2>2, NothingShownYet DEF RequestInv, PhaseInv, Answered
  <2> QED
    BY <2>1, <2>2
<1> QED
  BY <1>1, RequestInvariant, PTL

(***************************************************************************)
(* A section's bytes begin at its file offset, if it has bytes.            *)
(***************************************************************************)
LEMMA BytesAtFileOff ==
    ASSUME NEW n \in Nat, NEW s, Tab!SectionIn(s, n), section_bytes(s, n).len # 0
    PROVE  section_bytes(s, n).off = s.file_off
<1>1. ~(s.data_range = None \/ s.data_range.off > n)
  BY DEF section_bytes, NoBytes
<1>2. s.data_range.off = s.file_off
  BY <1>1 DEF Tab!SectionIn, Tab!RangeIn
<1> QED
  BY <1>1, <1>2 DEF section_bytes

LEMMA Maps ==
    ASSUME 0 \notin InsnLens, Typed, Traced, Listed, ByTable, ~Diagnosed,
           phase \in {"sweep", "returned"},
           baseArg = None \/ Cardinality(Wanted) > 1,
           NEW k \in DOMAIN out
    PROVE  \E w \in Wanted : MappedBy(Table[w], out[k])
<1> DEFINE row == out[k]
           n == Len(blob)
<1>1. /\ blob \in Blobs /\ n \in Nat /\ out \in Seq(Row) /\ region \in 0 .. Len(regions)
      /\ obj \in Objects
      /\ \A r \in 1 .. Len(regions) : Fits(regions[r], n)
  BY SweptIn, BlobLength DEF Typed, Listed, RegionsOK
<1>2. /\ Len(regions) \in Nat /\ Len(regions) = Cardinality(Wanted)
      /\ \A r \in 1 .. Len(regions) : \E w \in Wanted : regions[r] = RegionOf(w, Len(regions))
  BY RegionsAreWanted
<1>3. k \in 1 .. Len(out)
  BY <1>1
<1>4. PICK r \in 1 .. region : InRegion(row, regions[r])
  BY <1>3 DEF Traced
<1>5. r \in 1 .. Len(regions) /\ Fits(regions[r], n)
  BY <1>1, <1>2
<1>6. /\ BytesOfRow(row) \subseteq BytesOf(regions[r].code)
      /\ regions[r].code.len # 0 /\ regions[r].code.off \in Nat /\ row.off \in Nat
      /\ regions[r].start \in Nat
      /\ row.address = Wrap(regions[r].start + (row.off - regions[r].code.off))
  BY <1>1, <1>4, <1>5, RowOfRegion
<1>7. PICK w \in Wanted : regions[r] = RegionOf(w, Len(regions))
  BY <1>2, <1>5
<1>8. regions[r].code = section_bytes(Table[w], n) /\ regions[r].start = Table[w].vaddr
  <2>1. Len(regions) = 1 => Base(Table[w].vaddr) = Table[w].vaddr
    BY <1>2 DEF Base
  <2> QED
    BY <1>7, <2>1 DEF RegionOf
<1>9. Tab!SectionIn(Table[w], n)
  <2>1. PICK X : Table \in Seq(X)
    BY <1>1, TableOfRequest DEF IsList
  <2>2. w \in 1 .. Len(Table)
    BY <2>1 DEF Wanted
  <2> QED
    BY <1>1, <2>2, TableOfRequest
<1>10. regions[r].code.off = Table[w].file_off
  BY <1>1, <1>6, <1>8, <1>9, BytesAtFileOff
<1>11. row.address = Wrap(Table[w].vaddr + row.off - Table[w].file_off)
  <2>1. Table[w].vaddr \in Nat /\ Table[w].file_off \in Nat
    BY <1>6, <1>8, <1>10
  <2>2. Table[w].vaddr + (row.off - Table[w].file_off) = Table[w].vaddr + row.off - Table[w].file_off
    BY <1>6, <2>1
  <2> QED
    BY <1>6, <1>8, <1>10, <2>2
<1> QED
  BY <1>6, <1>8, <1>11 DEF MappedBy

(***************************************************************************)
(* RowsKeepSectionAddresses: however the sections overlap and wherever the *)
(* table puts them, a row's address is the one its section maps its bytes  *)
(* to.                                                                     *)
(***************************************************************************)
THEOREM Mapping == ASSUME 0 \notin InsnLens PROVE Spec => []RowsKeepSectionAddresses
<1>1. RequestInv => RowsKeepSectionAddresses
  <2> SUFFICES ASSUME RequestInv, ByTable, ~Diagnosed,
                      baseArg = None \/ Cardinality(Wanted) > 1, NEW k \in DOMAIN out
               PROVE  \E w \in Wanted : MappedBy(Table[w], out[k])
    BY DEF RowsKeepSectionAddresses, ByTable
  <2>1. CASE phase \in {"sweep", "returned"}
    BY <2>1, Maps DEF RequestInv, WithoutDecoder
  <2>2. CASE phase \notin {"sweep", "returned"}
    BY <2>2, NothingShownYet DEF RequestInv, PhaseInv
  <2> QED
    BY <2>1, <2>2
<1> QED
  BY <1>1, RequestInvariant, PTL

-----------------------------------------------------------------------------
(***************************************************************************)
(* Why a request is answered: every step leaves less to do, of the phases, *)
(* of the regions or, by LinearSweepProofs, of the sweep of a region.      *)
(***************************************************************************)
LEMMA SameLeft == Sweep!Left = Lin!Left
<1>1. Sweep!BatchEnds <=> Lin!BatchEnds
  BY DEF Sweep!BatchEnds, Lin!BatchEnds, Sweep!InsnAt, Lin!InsnAt, Sweep!Undecodable,
     Lin!Undecodable
<1>2. Sweep!Stage = Lin!Stage
  BY DEF Sweep!Stage, Lin!Stage
<1>3. Sweep!StageLeft = Lin!StageLeft
  BY <1>1 DEF Sweep!StageLeft, Lin!StageLeft
<1> QED
  BY <1>2, <1>3 DEF Sweep!Left, Lin!Left

LEMMA WithinSliceInit == Init => Lin!WithinSlice
BY DEF Init, Sweep!Entered, NoBytes, Lin!WithinSlice

LEMMA WithinSliceStays ==
    PhaseInv /\ Typed /\ Lin!WithinSlice /\ [Next]_vars => Lin!WithinSlice'
<1> SUFFICES ASSUME PhaseInv, Typed, Lin!WithinSlice, [Next]_vars PROVE Lin!WithinSlice'
  OBVIOUS
<1>1. CASE EnterRegion
  <2>1. Typed'
    BY TypedStep
  <2>2. code' \in Slices(Len(blob))' /\ offset' = 0 /\ pc' = "loop"
    BY <1>1, <2>1, SameInsns DEF EnterRegion, Typed, Lin!TypeOK
  <2>3. code'.len \in Nat
    BY <2>2 DEF Slices
  <2> QED
    BY <2>2, <2>3 DEF Lin!WithinSlice
<1>2. CASE SweepStep
  <2>1. Lin!TypeOK /\ [Lin!Next]_(Lin!vars)
    BY <1>2, SameSweep DEF SweepStep, Typed
  <2> QED
    BY <2>1, Lin!WithinSliceStep, AddrSpaceAssumption, InsnLensAssumption, MaxBlobAssumption,
       MaxInsnsAssumption
<1>3. CASE ~(EnterRegion \/ SweepStep)
  <2>1. UNCHANGED <<blob, code, locals, pc>>
    BY <1>3 DEF Next, vars, sweepVars, Resolve, SelectRegions, Build, AnswerDiagnostic, Return,
                request
  <2> QED
    BY <2>1 DEF locals, Lin!WithinSlice, Lin!BatchIsChain, Lin!InsnAt, Lin!Undecodable, Lin!Swept
<1> QED
  BY <1>1, <1>2, <1>3

LeftIsTuple ==
    /\ PhasesLeft \in Nat /\ Len(regions) - region \in Nat
    /\ Sweep!Left \in [1 .. 3 -> Nat] /\ Sweep!Left = Lin!Left

LEMMA LeftType == PhaseInv /\ Typed /\ Lin!WithinSlice => LeftIsTuple
<1> SUFFICES ASSUME PhaseInv, Typed, Lin!WithinSlice PROVE LeftIsTuple
  OBVIOUS
<1>1. Len(regions) - region \in Nat
  BY DEF Typed, RegionsOK
<1>2. PhasesLeft \in Nat
  BY DEF PhaseInv, PhasesLeft
<1>3. Lin!LeftIsTriple
  BY Lin!LeftType, AddrSpaceAssumption, InsnLensAssumption, MaxBlobAssumption,
     MaxInsnsAssumption DEF Typed
<1> QED
  BY <1>1, <1>2, <1>3, SameLeft DEF Lin!LeftIsTriple, LeftIsTuple

LEMMA LeftDecreases ==
    ASSUME PhaseInv, Typed, Lin!WithinSlice, Next
    PROVE  Sweep!Below(Left', Left, 5)
<1>1. LeftIsTuple /\ LeftIsTuple'
  <2>1. LeftIsTuple
    BY LeftType
  <2>2. PhaseInv' /\ Typed' /\ Lin!WithinSlice'
    BY PhaseStep, TypedStep, WithinSliceStays
  <2>3. LeftIsTuple'
    BY <2>2, LeftType, PTL
  <2> QED
    BY <2>1, <2>3
<1>2. \A x, y : Lin!Below(x, y, 3) => Below(x, y, 3)
  BY DEF Lin!Below, Below
<1>3. \/ PhasesLeft' < PhasesLeft
      \/ PhasesLeft' = PhasesLeft /\ (Len(regions) - region)' < Len(regions) - region
      \/ /\ PhasesLeft' = PhasesLeft /\ (Len(regions) - region)' = Len(regions) - region
         /\ Below(Sweep!Left', Sweep!Left, 3)
  <2>1. CASE Resolve
    <3>1. phase = "resolve" /\ phase' \in {"error", "select"}
      BY <2>1 DEF Resolve, Res!ResolveFromArgs, Res!ResolveFromHeader, Res!Resolved
    <3> QED
      BY <3>1 DEF PhasesLeft
  <2>2. CASE SelectRegions
    BY <2>2 DEF SelectRegions, PhasesLeft
  <2>3. CASE Build
    <3>1. phase = "build" /\ phase' \in {"error", "sweep"}
      BY <2>3 DEF Build, Res!BuildHandle, Res!BuildFails
    <3> QED
      BY <3>1 DEF PhasesLeft
  <2>4. CASE AnswerDiagnostic
    BY <2>4 DEF AnswerDiagnostic, PhasesLeft
  <2>5. CASE EnterRegion
    <3>1. phase' = phase /\ regions' = regions /\ region' = region + 1
      BY <2>5 DEF EnterRegion, resVars
    <3>2. Len(regions) \in Nat /\ region \in Nat
      BY DEF Typed, RegionsOK
    <3> QED
      BY <3>1, <3>2 DEF PhasesLeft
  <2>6. CASE SweepStep
    <3>1. phase' = phase /\ regions' = regions /\ region' = region
      BY <2>6 DEF SweepStep, resVars
    <3>2. Lin!TypeOK /\ Lin!Next
      BY <2>6, SameSweep DEF SweepStep, Typed
    <3>3. Lin!Below(Lin!Left', Lin!Left, 3)
      BY <3>2, Lin!LeftDecreases, AddrSpaceAssumption, InsnLensAssumption, MaxBlobAssumption,
         MaxInsnsAssumption
    <3> QED
      BY <1>1, <1>2, <3>1, <3>3 DEF LeftIsTuple, PhasesLeft
  <2>7. CASE Return
    BY <2>7 DEF Return, PhasesLeft
  <2> QED
    BY <2>1, <2>2, <2>3, <2>4, <2>5, <2>6, <2>7 DEF Next
<1>4. Below(Left', Left, 5)
  <2> HIDE DEF PhasesLeft
  <2> QED
    BY <1>1, <1>3, PairInFront DEF Left, LeftIsTuple
<1> QED
  BY <1>4 DEF Below, Sweep!Below

(***************************************************************************)
(* Every step of a request leaves less to do, whatever the container, the  *)
(* arguments and the decoder: it takes finitely many steps                 *)
(* (NoEndlessDescent).                                                     *)
(***************************************************************************)
THEOREM Advancing == Spec => RequestAdvances
<1>1. PhaseInv /\ Typed /\ Lin!WithinSlice /\ [Next]_vars => [Sweep!Below(Left', Left, 5)]_vars
  BY LeftDecreases
<1> QED
  BY <1>1, PhaseInit, PhaseStep, TypedInit, TypedStep, WithinSliceInit, WithinSliceStays, PTL
     DEF Spec, RequestAdvances
=============================================================================
