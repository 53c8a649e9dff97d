------------------------------ MODULE Sections ------------------------------
(***************************************************************************)
(* sections.rs without its loops: the Section of one section header, and   *)
(* the table a container has.                                              *)
(*                                                                         *)
(* A section header is a record of what goblin (external) reads.  A name   *)
(* is the sequence of its parts between commas, <<".text">> for ELF and PE *)
(* and <<segment, section>> for Mach-O.  Flags are sets of the bits the    *)
(* code tests.  The entropy is left out: it is a function of the bytes.    *)
(***************************************************************************)
EXTENDS Common

CONSTANTS
    UsizeMax,           \* usize::MAX: 2^64-1, and 2^32-1 in the wasm build
    MaxSections,        \* limits.rs MAX_SECTIONS
    MaxSectionBytes     \* limits.rs MAX_SECTION_BYTES

\* A usize is at most a u64.
ASSUME UsizeMaxAssumption == UsizeMax \in 0 .. AddrSpace - 1
ASSUME MaxSectionsAssumption == MaxSections \in Nat
ASSUME MaxSectionBytesAssumption == MaxSectionBytes \in Nat
ASSUME NoneAssumption == None \notin [off : Nat, len : Nat]

\* What goblin reads of a header: a name, an address, any range of file positions.
Ranged(h, offset, length) == h.name # None /\ offset \in Nat /\ length \in Nat
ElfHeader(h) == Ranged(h, h.offset, h.size) /\ h.addr \in 0 .. AddrSpace - 1
PeHeader(h) ==
    /\ Ranged(h, h.pointer_to_raw_data, h.size_of_raw_data)
    /\ h.virtual_address \in Nat /\ h.virtual_size \in Nat
Each(table, Header(_)) == IsSeq(table) /\ \A k \in 1 .. Len(table) : Header(table[k])
Segment(s) == s.readable => Each(s.sections, ElfHeader)  \* Mach-O calls the fields the same
HeadersRead(o) ==
    /\ o.format = "elf" => Each(o.sections, ElfHeader)
    /\ o.format = "pe" => Each(o.sections, PeHeader) /\ o.image_base \in Nat
    /\ o.format = "macho" => Each(o.segments, Segment)
    /\ o.format = "fat" /\ HasPrimarySlice(o) => Each(o.slices[1].segments, Segment)

-----------------------------------------------------------------------------
\* Mutants of clamp_range: it trusts the declared length; it loses the
\* last byte of the blob.
clamp_range_trusting(off, len, n) ==
    IF off >= n \/ len = 0 THEN None ELSE [off |-> off, len |-> Smaller(len, MaxSectionBytes)]

clamp_range_short(off, len, n) ==
    LET length == Smaller(Smaller(len, n - off - 1), MaxSectionBytes)
    IN  IF off >= n \/ length <= 0 THEN None ELSE [off |-> off, len |-> length]

(***************************************************************************)
(* clamp_range: the part of the declared range [off, off + len) that is in *)
(* a blob of n bytes, at most MaxSectionBytes of it; None if it is empty.  *)
(***************************************************************************)
clamp_range(off, len, n) ==
    LET length == Smaller(Smaller(Smaller(len, UsizeMax), n - off), MaxSectionBytes)
    IN  IF off > UsizeMax \/ off >= n \/ length = 0
        THEN None
        ELSE [off |-> off, len |-> length]

\* Section::bytes, as a slice of a blob of n bytes.
NoBytes == [off |-> 0, len |-> 0]
section_bytes(s, n) ==
    IF s.data_range = None \/ s.data_range.off > n
    THEN NoBytes
    ELSE [off |-> s.data_range.off, len |-> Smaller(s.data_range.len, n - s.data_range.off)]

Section(name, kind, vaddr, size, off, exec, range) ==
    [name |-> name, kind |-> kind, vaddr |-> vaddr, size |-> size,
     file_off |-> off, exec |-> exec, data_range |-> range]

-----------------------------------------------------------------------------
\* Names whose prefix or infix the kinds depend on.
DebugNames == {<<".debug_info">>}
RodataNames == {<<".rodata">>, <<".rodata.str">>}
MachDebugNames == {<<"__DEBUG", "__info">>, <<"__DWARF", "__debug_info">>}

elf_section(sh, n) ==
    LET exec == "execinstr" \in sh.flags
        nobits == sh.type = "nobits"
        kind == FirstRule(<<
                  <<exec, "code">>,
                  <<sh.name \in DebugNames, "debug">>,
                  <<nobits, "bss">>,
                  <<sh.type = "progbits" /\ "write" \in sh.flags, "data">>,
                  <<sh.name \in RodataNames \cup {<<".rdata">>}, "rodata">>,
                  <<TRUE, "other">> >>)
    IN  Section(sh.name, kind, sh.addr, sh.size, sh.offset, exec,
                IF nobits THEN None ELSE clamp_range(sh.offset, sh.size, n))

pe_section(image_base, s, n) ==
    LET exec == s.flags \cap {"mem_execute", "cnt_code"} # {}
        uninit == "cnt_uninit" \in s.flags
        kind == FirstRule(<<
                  <<exec, "code">>,
                  <<s.name \in DebugNames, "debug">>,
                  <<uninit, "bss">>,
                  <<"mem_write" \in s.flags, "data">>,
                  <<s.name \in {<<".rdata">>, <<".rodata">>}, "rodata">>,
                  <<TRUE, "other">> >>)
        raw_len == Smaller(s.size_of_raw_data, s.virtual_size)
    IN  Section(s.name, kind, Wrap(image_base + s.virtual_address), s.virtual_size,
                s.pointer_to_raw_data, exec,
                IF uninit THEN None ELSE clamp_range(s.pointer_to_raw_data, raw_len, n))

mach_section(s, n) ==
    LET segment == s.name[1]
        exec == s.flags \cap {"pure_instructions", "some_instructions"} # {}
                    \/ s.name = <<"__TEXT", "__text">>
        zerofill == s.type = "zerofill"
        kind == FirstRule(<<
                  <<exec, "code">>,
                  <<s.name \in MachDebugNames, "debug">>,
                  <<zerofill \/ segment = "__BSS", "bss">>,
                  <<s.name[2] = "__const" \/ segment = "__TEXT", "rodata">>,
                  <<segment = "__DATA", "data">>,
                  <<TRUE, "other">> >>)
    IN  Section(s.name, kind, s.addr, s.size, s.offset, exec,
                IF zerofill THEN None ELSE clamp_range(s.offset, s.size, n))

-----------------------------------------------------------------------------
\* The sections of the first n segments, without those whose section list goblin
\* cannot read.
SectionsUpTo(segments, n) ==
    LET upto[i \in 0 .. Len(segments)] ==
          IF i = 0 THEN <<>>
          ELSE IF segments[i].readable THEN upto[i - 1] \o segments[i].sections
          ELSE upto[i - 1]
    IN  upto[n]

SegmentSections(segments) == SectionsUpTo(segments, Len(segments))

(***************************************************************************)
(* sections(blob) for a container obj found in a blob of n bytes: one      *)
(* Section for each header of its table, in the table's order, cut off at  *)
(* MaxSections.  Offsets of a fat slice are looked up in the whole blob.   *)
(***************************************************************************)
FullTable(obj, n) ==
    CASE obj.format = "elf" ->
           [i \in 1 .. Len(obj.sections) |-> elf_section(obj.sections[i], n)]
      [] obj.format = "pe" ->
           [i \in 1 .. Len(obj.sections) |-> pe_section(obj.image_base, obj.sections[i], n)]
      [] obj.format = "macho" ->
           LET all == SegmentSections(obj.segments)
           IN  [i \in 1 .. Len(all) |-> mach_section(all[i], n)]
      [] obj.format = "fat" /\ HasPrimarySlice(obj) ->
           LET all == SegmentSections(obj.slices[1].segments)
           IN  [i \in 1 .. Len(all) |-> mach_section(all[i], n)]
      [] OTHER -> <<>>

SectionTable(obj, n) ==
    SubSeq(FullTable(obj, n), 1, Smaller(Len(FullTable(obj, n)), MaxSections))
=============================================================================
