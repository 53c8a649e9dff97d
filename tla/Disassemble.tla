---------------------------- MODULE Disassemble ----------------------------
(***************************************************************************)
(* sweep::disassemble, the function behind the table function              *)
(* disassemble(): resolve the architecture, read the section table, select *)
(* the regions, build one handle, sweep the regions one after another into *)
(* one output that the row cap bounds.                                     *)
(*                                                                         *)
(* The module composes ArchResolution (which decoder), Sections (which     *)
(* table) and LinearSweep (sweep_into, step by step) over the same         *)
(* variables.  blob is what the one decoder of the request says.           *)
(***************************************************************************)
EXTENDS FiniteSets, Insns, Sections

CONSTANTS
    Objects, ArchArgs, ModeArgs,    \* as in ArchResolution
    BaseArgs,       \* values of the argument base, None if it is not given
    SectionArgs     \* values of the argument section: <<"auto">>, <<"all">> or a name

\* The diagnostic row is one row.
ASSUME RoomForDiagnostic == MaxInsns > 0
ASSUME HeadersAssumption == \A o \in Objects : HeadersRead(o)
ASSUME BaseArgsAssumption == BaseArgs \subseteq (0 .. AddrSpace - 1) \cup {None}

VARIABLES
    obj, archArg, modeArg, sel, handle, phase,                          \* ArchResolution
    blob, code, base, out, start, offset, insns, csOff, next, consumed, pc, \* LinearSweep
    baseArg, sectionArg,    \* the rest of the request
    regions,                \* what select_regions picked
    region                  \* index of the region being swept, or swept last

Res == INSTANCE ArchResolution
Sweep == INSTANCE LinearSweep

ASSUME HandlesAssumption == None \notin Res!Handles

locals == <<start, offset, insns, csOff, next, consumed>>
sweepVars == <<code, base, out, locals, pc>>
resVars == <<obj, archArg, modeArg, sel, handle, phase>>
request == <<obj, archArg, modeArg, blob, baseArg, sectionArg>>
vars == <<resVars, blob, sweepVars, baseArg, sectionArg, regions, region>>

-----------------------------------------------------------------------------
\* section_name_matches: the full name, or the part behind its last comma.
section_name_matches(full, requested) ==
    full = requested \/ <<full[Len(full)]>> = requested

\* The address of a region, when the caller may override its default.
Base(default) == IF baseArg = None THEN default ELSE baseArg

\* Mutant of SectionRegions: base moves every region.
SectionRegionsRebased(picked, n) ==
    [k \in 1 .. Len(picked) |->
        [start |-> Base(picked[k].vaddr), code |-> section_bytes(picked[k], n)]]

(***************************************************************************)
(* select_regions: the whole blob if that is asked for or there is no      *)
(* table, else the bytes of the sections that are asked for, in the order  *)
(* of the table.  base overrides the address of a region only if it is the *)
(* only one.                                                               *)
(***************************************************************************)
SectionRegions(picked, n) ==
    [k \in 1 .. Len(picked) |->
        [start |-> IF Len(picked) = 1 THEN Base(picked[k].vaddr) ELSE picked[k].vaddr,
         code  |-> section_bytes(picked[k], n)]]

\* Mutants of select_regions: the length of the whole blob is not tested;
\* auto selects every section.
select_regions_unclamped(table, n) ==
    <<[start |-> Base(0), code |-> [off |-> 0, len |-> MaxSectionBytes]]>>

select_regions_any(table, n) ==
    IF sectionArg = <<"all">> \/ table = <<>>
    THEN <<[start |-> Base(0), code |-> [off |-> 0, len |-> Smaller(n, MaxSectionBytes)]]>>
    ELSE SectionRegions(table, n)

select_regions(table, n) ==
    LET whole == [start |-> Base(0), code |-> [off |-> 0, len |-> Smaller(n, MaxSectionBytes)]]
        exec == {k \in DOMAIN table : table[k].exec}
        matched == {k \in DOMAIN table : section_name_matches(table[k].name, sectionArg)}
    IN  IF sectionArg = <<"all">> \/ table = <<>>
        THEN <<whole>>
        ELSE SectionRegions(Chosen(table, IF sectionArg = <<"auto">> THEN exec ELSE matched), n)

-----------------------------------------------------------------------------
Init ==
    /\ Res!Arrived
    /\ blob \in Blobs
    /\ baseArg \in BaseArgs
    /\ sectionArg \in SectionArgs
    /\ regions = <<>>
    /\ region = 0
    /\ code = NoBytes
    /\ base = 0
    /\ out = <<>>
    /\ Sweep!Entered(<<>>)
    /\ pc = "done"

Resolve ==
    /\ Res!ResolveFromArgs("select") \/ Res!ResolveFromHeader("select")
    /\ UNCHANGED <<blob, sweepVars, baseArg, sectionArg, regions, region>>

SelectRegions ==
    /\ phase = "select"
    /\ \E table \in {SectionTable(obj, Len(blob))} : regions' = select_regions(table, Len(blob))
    /\ phase' = "build"
    /\ UNCHANGED <<obj, archArg, modeArg, sel, handle, blob, sweepVars, baseArg, sectionArg, region>>

Build ==
    /\ Res!BuildHandle("sweep") \/ Res!BuildFails
    /\ UNCHANGED <<blob, sweepVars, baseArg, sectionArg, regions, region>>

\* return vec![Insn::arch_required()]
AnswerDiagnostic ==
    /\ phase = "error"
    /\ out' = <<ArchRequired>>
    /\ phase' = "returned"
    /\ UNCHANGED <<request, sel, handle, code, base, locals, pc, regions, region>>

\* Mutant of EnterRegion: the offset in the slice is not reset.
EnterRegionNoReset ==
    /\ phase = "sweep" /\ pc = "done"
    /\ region < Len(regions)
    /\ ~Sweep!Capped
    /\ region' = region + 1
    /\ code' = regions[region + 1].code
    /\ base' = regions[region + 1].start
    /\ start' = Len(out)
    /\ pc' = "loop"
    /\ UNCHANGED <<resVars, blob, out, offset, insns, csOff, next, consumed,
                   baseArg, sectionArg, regions>>

\* for (start, code) in regions { if out.len() >= MAX_INSNS { break; } sweep_into(..) }
EnterRegion ==
    /\ phase = "sweep" /\ pc = "done"
    /\ region < Len(regions)
    /\ ~Sweep!Capped
    /\ region' = region + 1
    /\ code' = regions[region + 1].code
    /\ base' = regions[region + 1].start
    /\ start' = Len(out)
    /\ offset' = 0
    /\ insns' = <<>>
    /\ csOff' = 0
    /\ next' = 1
    /\ consumed' = 0
    /\ pc' = "loop"
    /\ UNCHANGED <<resVars, blob, out, baseArg, sectionArg, regions>>

SweepStep ==
    /\ phase = "sweep"
    /\ Sweep!Next
    /\ UNCHANGED <<resVars, baseArg, sectionArg, regions, region>>

\* Mutant of Return: only the last region ends the loop.
ReturnAtLastRegion ==
    /\ phase = "sweep" /\ pc = "done"
    /\ region = Len(regions)
    /\ phase' = "returned"
    /\ UNCHANGED <<request, sel, handle, sweepVars, regions, region>>

Return ==
    /\ phase = "sweep" /\ pc = "done"
    /\ region = Len(regions) \/ Sweep!Capped
    /\ phase' = "returned"
    /\ UNCHANGED <<request, sel, handle, sweepVars, regions, region>>

Next ==
    \/ Resolve \/ SelectRegions \/ Build \/ AnswerDiagnostic
    \/ EnterRegion \/ SweepStep \/ Return

Spec == Init /\ [][Next]_vars /\ WF_vars(Next)

-----------------------------------------------------------------------------
(***************************************************************************)
(* The reference answer: every selected region listed from its first byte  *)
(* to its last, one region after the other.                                *)
(***************************************************************************)
ListingFrom(c, b, q) ==
    LET from[p \in 0 .. c.len] ==
          IF p = c.len THEN <<>>
          ELSE <<RowAt(blob, c, b, p)>> \o from[p + RowAt(blob, c, b, p).size]
    IN  from[q]

ListingUpTo(r) ==
    LET upto[k \in 0 .. Len(regions)] ==
          IF k = 0 THEN <<>>
          ELSE upto[k - 1] \o ListingFrom(regions[k].code, regions[k].start, 0)
    IN  upto[r]

FullListing == ListingUpTo(Len(regions))

Answered == phase = "returned"
Diagnosed == out = <<ArchRequired>>

TypeOK ==
    /\ sel = None \/ sel.arch \in Res!SUPPORTED_ARCHES
    /\ handle = None \/ handle = Res!build(sel)
    /\ Sweep!TypeOK
    /\ phase \in {"resolve", "select", "build", "sweep", "error", "returned"}
    /\ region \in 0 .. Len(regions)
    /\ \A k \in DOMAIN regions :
         /\ regions[k].start \in 0 .. AddrSpace - 1
         /\ regions[k].code \in Slices(Len(blob))

(***************************************************************************)
(* The answer is the reference answer, cut off at the cap: at every moment *)
(* the rows are the first rows of the full listing, so a region gets rows  *)
(* only after all the bytes of the regions before it were listed, and in   *)
(* the end none is missing that the cap leaves room for.                   *)
(***************************************************************************)
OutputIsListing ==
    phase \in {"sweep", "returned"} /\ ~Diagnosed =>
        /\ out = SubSeq(FullListing, 1, Len(out))
        /\ Answered => Len(out) = Smaller(Len(FullListing), MaxInsns)

(***************************************************************************)
(* The diagnostic row comes alone, exactly for a request whose arch could  *)
(* not be told or whose handle could not be built; no region is swept.     *)
(***************************************************************************)
DiagnosticAlone ==
    /\ \A k \in DOMAIN out : out[k].kind = "(error)" => Diagnosed /\ Answered /\ region = 0
    /\ Answered => (Diagnosed <=> sel = None \/ handle = None)

(***************************************************************************)
(* What auto and a section name select: every row shows bytes of a section *)
(* that was asked for, and unless the cap stops the sweep every byte of    *)
(* every such section is shown.  (A blob without a table has no sections   *)
(* to choose from and is shown whole.)                                     *)
(***************************************************************************)
Table == SectionTable(obj, Len(blob))
Wanted == {k \in DOMAIN Table :
             IF sectionArg = <<"auto">> THEN Table[k].exec
             ELSE section_name_matches(Table[k].name, sectionArg)}

BytesOf(c) == c.off .. c.off + c.len - 1
BytesOfRow(row) == row.off .. row.off + row.size - 1
Shown == UNION {BytesOfRow(out[k]) : k \in DOMAIN out}
WantedBytes == UNION {BytesOf(section_bytes(Table[k], Len(blob))) : k \in Wanted}

SelectedSectionsShown ==
    Table # <<>> /\ sectionArg # <<"all">> /\ ~Diagnosed =>
        /\ Shown \subseteq WantedBytes
        /\ Answered /\ Len(out) < MaxInsns => Shown = WantedBytes

(***************************************************************************)
(* Without base, the address of every row is the address its section maps  *)
(* the row's bytes to, modulo the address space; base moves the rows of a  *)
(* lone section only.                                                      *)
(***************************************************************************)
MappedBy(s, row) ==
    /\ BytesOfRow(row) \subseteq BytesOf(section_bytes(s, Len(blob)))
    /\ row.address = Wrap(s.vaddr + row.off - s.file_off)

RowsKeepSectionAddresses ==
    /\ Table # <<>> /\ sectionArg # <<"all">> /\ ~Diagnosed
    /\ baseArg = None \/ Cardinality(Wanted) > 1
    => \A k \in DOMAIN out : \E w \in Wanted : MappedBy(Table[w], out[k])

(***************************************************************************)
(* Every request is answered.                                              *)
(***************************************************************************)
RequestAnswered == <>Answered

(***************************************************************************)
(* Why it is: every step of the request leaves less to do, of its phases,  *)
(* of the regions, or of the sweep of the region entered.                  *)
(***************************************************************************)
PhasesLeft ==
    CASE phase = "resolve" -> 4 [] phase = "select" -> 3 [] phase = "build" -> 2
      [] phase \in {"sweep", "error"} -> 1 [] phase = "returned" -> 0

Left ==
    <<PhasesLeft, Len(regions) - region, Sweep!Left[1], Sweep!Left[2], Sweep!Left[3]>>

RequestAdvances == [][Sweep!Below(Left', Left, 5)]_vars
=============================================================================
