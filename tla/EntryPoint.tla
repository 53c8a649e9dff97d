----------------------------- MODULE EntryPoint -----------------------------
(***************************************************************************)
(* entrypoint::entrypoint, behind the scalar entrypoint(): probe the       *)
(* header, read the section table (SectionScan, step by step), find the    *)
(* section the entry address lies in, and map the address to a file        *)
(* offset.                                                                 *)
(***************************************************************************)
EXTENDS SectionScan, Probe

ASSUME EntriesAssumption ==
    \A o \in Objects :
        /\ o.format \in {"elf", "macho"} => o.entry \in 0 .. AddrSpace - 1
        /\ o.format = "pe" => o.entry \in Nat
        /\ o.format = "fat" /\ HasPrimarySlice(o) => o.slices[1].entry \in 0 .. AddrSpace - 1

VARIABLES
    entryPoint, \* the answer, None until returned
    phase       \* "probe", "sections", "returned"

vars == <<scanVars, entryPoint, phase>>

EntryRecord(arch, mode, vaddr, off, section) ==
    [arch |-> arch, mode |-> mode, vaddr |-> vaddr, file_off |-> off, section |-> section]

\* EntryPoint::default
NoEntryPoint == EntryRecord(None, None, None, None, None)

-----------------------------------------------------------------------------
\* The sums of two addresses that stop at the largest one.
SaturatingAdd(a, b) == Smaller(a + b, AddrSpace - 1)

\* Mutants of InSection: the sum wraps; the end counts as inside.
InSectionWrapping(va, s) == va >= s.vaddr /\ va < Wrap(s.vaddr + s.size)
InSectionInclusive(va, s) == va >= s.vaddr /\ va <= SaturatingAdd(s.vaddr, s.size)

InSection(va, s) == va >= s.vaddr /\ va < SaturatingAdd(s.vaddr, s.size)

\* secs.iter().find(..): the sections that contain va, of which the first counts.
Containing(va) == {k \in DOMAIN out : va # None /\ InSection(va, out[k])}
First(at) == CHOOSE k \in at : \A l \in at : k <= l

FileOffVirtual(va, s) == Wrap(s.file_off + va)  \* mutant of FileOff

\* The file offset of the byte that s maps to va; None without a section.
FileOff(va, s) == Wrap(s.file_off + (va - s.vaddr))

-----------------------------------------------------------------------------
Init ==
    /\ ScanInit
    /\ entryPoint = None
    /\ phase = "probe"

\* if p.container == "raw" { return EntryPoint::default(); }
ReturnRaw ==
    /\ phase = "probe"
    /\ probe(obj).container = "raw"
    /\ entryPoint' = NoEntryPoint
    /\ phase' = "returned"
    /\ UNCHANGED scanVars

CallSections ==
    /\ phase = "probe"
    /\ probe(obj).container # "raw"
    /\ phase' = "sections"
    /\ UNCHANGED <<scanVars, entryPoint>>

ScanStep ==
    /\ phase = "sections"
    /\ ScanNext
    /\ UNCHANGED <<entryPoint, phase>>

ReturnEntry ==
    /\ phase = "sections" /\ pc = "done"
    /\ LET p == probe(obj)
           at == Containing(p.entry)
           s == out[First(at)]
       IN  entryPoint' = EntryRecord(p.arch, p.mode, p.entry,
                                     IF at = {} THEN None ELSE FileOff(p.entry, s),
                                     IF at = {} THEN None ELSE s.name)
    /\ phase' = "returned"
    /\ UNCHANGED scanVars

Next == ReturnRaw \/ CallSections \/ ScanStep \/ ReturnEntry

Spec == Init /\ [][Next]_vars

-----------------------------------------------------------------------------
Located == phase = "returned" /\ entryPoint.section # None

(***************************************************************************)
(* No entry address that lies in a section is left without one: if the     *)
(* answer names no section, no section that was read covers the address.   *)
(* Only the largest address, behind every saturated end, is never covered, *)
(* and the sections behind the cap are not looked at.                      *)
(***************************************************************************)
Covers(s, va) == s.vaddr <= va /\ va < s.vaddr + s.size

EntrySectionFound ==
    phase = "returned" /\ entryPoint.vaddr # None /\ entryPoint.section = None =>
        \A k \in DOMAIN out : Covers(out[k], entryPoint.vaddr) =>
            entryPoint.vaddr = AddrSpace - 1

(***************************************************************************)
(* entrypoint() and disassemble() agree: where the section named has the   *)
(* entry's byte in the file, the sweep of that section puts the byte at    *)
(* file_off at the address vaddr, and the byte is in the blob.             *)
(***************************************************************************)
EntryAgreesWithSweep ==
    Located =>
        \E k \in DOMAIN out :
            /\ out[k].name = entryPoint.section
            /\ Covers(out[k], entryPoint.vaddr)
            /\ LET code == section_bytes(out[k], size)
               IN  entryPoint.vaddr - out[k].vaddr < code.len =>
                     /\ entryPoint.file_off \in code.off .. code.off + code.len - 1
                     /\ Wrap(out[k].vaddr + (entryPoint.file_off - code.off))
                          = entryPoint.vaddr
=============================================================================
