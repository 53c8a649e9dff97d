---------------------------- MODULE SectionScan ----------------------------
(***************************************************************************)
(* sections::sections with its loops: the table of a container is read     *)
(* header by header, and for a Mach-O segment by segment, until the output *)
(* holds MaxSections rows.                                                 *)
(***************************************************************************)
EXTENDS Sections

CONSTANTS
    Objects,    \* the containers to read
    BlobSizes   \* the sizes of the blobs they are found in

\* The length of a blob is a usize.
ASSUME BlobSizesAssumption == BlobSizes \subseteq 0 .. UsizeMax
ASSUME HeadersAssumption == \A o \in Objects : HeadersRead(o)

VARIABLES
    obj, size,  \* the container, and the bytes of its blob; fixed
    out,        \* the sections read so far
    i,          \* the next header of the table, or the segment being read
    j,          \* the next section of that segment
    pc          \* "scan", "done"

scanVars == <<obj, size, out, i, j, pc>>

ScanInit ==
    /\ obj \in Objects
    /\ size \in BlobSizes
    /\ out = <<>>
    /\ i = 1
    /\ j = 1
    /\ pc = "scan"

-----------------------------------------------------------------------------
Flat == obj.format \in {"elf", "pe"}
Segmented ==
    \/ obj.format = "macho"
    \/ obj.format = "fat" /\ HasPrimarySlice(obj)

Headers == IF Flat THEN obj.sections ELSE <<>>
Segments == CASE obj.format = "macho" -> obj.segments
              [] obj.format = "fat" /\ HasPrimarySlice(obj) -> obj.slices[1].segments
              [] OTHER -> <<>>

Capped == Len(out) >= MaxSections

\* for sh in headers { if out.len() >= MAX_SECTIONS { break; } out.push(..) }
ScanElfHeader ==
    /\ pc = "scan" /\ obj.format = "elf"
    /\ i <= Len(Headers) /\ ~Capped
    /\ out' = Append(out, elf_section(Headers[i], size))
    /\ i' = i + 1
    /\ UNCHANGED <<obj, size, j, pc>>

ScanPeHeader ==
    /\ pc = "scan" /\ obj.format = "pe"
    /\ i <= Len(Headers) /\ ~Capped
    /\ out' = Append(out, pe_section(obj.image_base, Headers[i], size))
    /\ i' = i + 1
    /\ UNCHANGED <<obj, size, j, pc>>

\* let Ok(sects) = seg.sections() else { continue };
SkipSegment ==
    /\ pc = "scan" /\ Segmented
    /\ i <= Len(Segments) /\ ~Segments[i].readable
    /\ i' = i + 1
    /\ UNCHANGED <<obj, size, out, j, pc>>

ScanMachSection ==
    /\ pc = "scan" /\ Segmented
    /\ i <= Len(Segments) /\ Segments[i].readable
    /\ j <= Len(Segments[i].sections) /\ ~Capped
    /\ out' = Append(out, mach_section(Segments[i].sections[j], size))
    /\ j' = j + 1
    /\ UNCHANGED <<obj, size, i, pc>>

\* Mutant of LeaveSegment: the next segment is read from where this one ended.
LeaveSegmentNoReset ==
    /\ pc = "scan" /\ Segmented
    /\ i <= Len(Segments) /\ Segments[i].readable
    /\ j > Len(Segments[i].sections) \/ Capped
    /\ i' = i + 1
    /\ UNCHANGED <<obj, size, out, j, pc>>

\* The cap breaks the inner loop only: the next segment is still looked at.
LeaveSegment ==
    /\ pc = "scan" /\ Segmented
    /\ i <= Len(Segments) /\ Segments[i].readable
    /\ j > Len(Segments[i].sections) \/ Capped
    /\ i' = i + 1
    /\ j' = 1
    /\ UNCHANGED <<obj, size, out, pc>>

\* out.truncate(MAX_SECTIONS)
EndOfTable ==
    /\ pc = "scan"
    /\ \/ Flat /\ (i > Len(Headers) \/ Capped)
       \/ Segmented /\ i > Len(Segments)
       \/ ~Flat /\ ~Segmented
    /\ out' = SubSeq(out, 1, Smaller(Len(out), MaxSections))
    /\ pc' = "done"
    /\ UNCHANGED <<obj, size, i, j>>

ScanNext ==
    \/ ScanElfHeader \/ ScanPeHeader
    \/ SkipSegment \/ ScanMachSection \/ LeaveSegment
    \/ EndOfTable

ScanSpec == ScanInit /\ [][ScanNext]_scanVars

-----------------------------------------------------------------------------
(***************************************************************************)
(* The nested loops compute the table: whatever segments are skipped or    *)
(* cut short by the cap, the sections read are the first ones of the full  *)
(* table, none left out in between, and in the end as many as the cap      *)
(* allows.                                                                 *)
(***************************************************************************)
ReadsTable ==
    /\ out = SubSeq(FullTable(obj, size), 1, Len(out))
    /\ pc = "done" => out = SectionTable(obj, size)

(***************************************************************************)
(* A header that lies about offset or size cannot make the code read out   *)
(* of bounds: the bytes of every section lie in the blob, are never more   *)
(* than MaxSectionBytes, and bytes() returns the whole range.              *)
(***************************************************************************)
BytesInBlob ==
    \A k \in DOMAIN out :
        LET s == out[k]
            b == section_bytes(s, size)
        IN  /\ b.off + b.len <= size
            /\ b.len <= MaxSectionBytes
            /\ IF s.data_range = None THEN b = NoBytes ELSE b = s.data_range /\ b.len > 0

(***************************************************************************)
(* Clamping loses nothing but what it has to, for every section whose      *)
(* header says it occupies file bytes: a byte of the blob belongs to it    *)
(* iff the header declares it, up to MaxSectionBytes of them.  It has none *)
(* only if the declared range misses the blob.                             *)
(***************************************************************************)
Positions(off, len) == {p \in 0 .. size - 1 : off <= p /\ p < off + len}

Declared(k) ==
    CASE obj.format = "pe" -> Smaller(Headers[k].size_of_raw_data, Headers[k].virtual_size)
      [] OTHER -> out[k].size

HasFileBytes(k) ==
    CASE obj.format = "elf" -> Headers[k].type # "nobits"
      [] obj.format = "pe"  -> "cnt_uninit" \notin Headers[k].flags
      [] OTHER -> SegmentSections(Segments)[k].type \notin {"zerofill", "gb_zerofill"}

ClampIsIntersection ==
    \A k \in DOMAIN out :
        out[k].data_range # None \/ HasFileBytes(k) =>
            LET b == section_bytes(out[k], size)
            IN  Positions(b.off, b.len)
                  = Positions(out[k].file_off, Smaller(Declared(k), MaxSectionBytes))

(***************************************************************************)
(* Section::data_range is documented as None for sections with no file     *)
(* bytes.  Mach-O has more zero-fill types than the one the code tests     *)
(* (S_GB_ZEROFILL, S_THREAD_LOCAL_ZEROFILL: "gb_zerofill" here).           *)
(***************************************************************************)
ZeroFillHasNoBytes ==
    \A k \in DOMAIN out : ~HasFileBytes(k) => out[k].data_range = None

(***************************************************************************)
(* Section::file_off is documented as the file offset of the section's     *)
(* bytes: in a fat container these lie inside the slice the header is of.  *)
(***************************************************************************)
FatBytesInSlice ==
    obj.format = "fat" /\ HasPrimarySlice(obj) =>
        LET slice == obj.slices[1]
        IN  \A k \in DOMAIN out :
              out[k].data_range # None =>
                  /\ out[k].file_off >= slice.start
                  /\ out[k].data_range.off + out[k].data_range.len <= slice.start + slice.length
=============================================================================
