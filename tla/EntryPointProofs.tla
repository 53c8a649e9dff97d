-------------------------- MODULE EntryPointProofs --------------------------
(***************************************************************************)
(* Theorems about the section table and the entry point, for headers that  *)
(* declare anything, blobs of any size and every limit.                    *)
(***************************************************************************)
EXTENDS EntryPoint, SelectionProofs, SequenceTheorems

\* A range of bytes from off on, in a blob of n bytes, that the limits allow; or none.
RangeIn(range, off, n) ==
    \/ range = None
    \/ /\ range \in [off : Nat, len : Nat]
       /\ range.off = off
       /\ range.off + range.len <= n
       /\ 0 < range.len /\ range.len <= MaxSectionBytes

SectionIn(s, n) ==
    /\ s.name # None
    /\ s.vaddr \in 0 .. AddrSpace - 1
    /\ s.size \in Nat /\ s.file_off \in Nat
    /\ RangeIn(s.data_range, s.file_off, n)

-----------------------------------------------------------------------------
(***************************************************************************)
(* clamp_range stays in the blob and within the limit, whatever is         *)
(* declared.                                                               *)
(***************************************************************************)
LEMMA ClampInBlob ==
    ASSUME NEW off \in Nat, NEW len \in Nat, NEW n \in Nat
    PROVE  RangeIn(clamp_range(off, len, n), off, n)
<1> DEFINE length == Smaller(Smaller(Smaller(len, UsizeMax), n - off), MaxSectionBytes)
<1>1. CASE off > UsizeMax \/ off >= n \/ length = 0
  BY <1>1 DEF clamp_range, RangeIn
<1>2. CASE ~(off > UsizeMax \/ off >= n \/ length = 0)
  <2>1. off < n /\ length # 0
    BY <1>2
  <2>2. length \in Nat /\ length <= n - off /\ length <= MaxSectionBytes
    BY <2>1, UsizeMaxAssumption, MaxSectionBytesAssumption DEF Smaller
  <2>3. clamp_range(off, len, n) = [off |-> off, len |-> length]
    BY <1>2 DEF clamp_range
  <2> HIDE DEF length
  <2> QED
    BY <2>1, <2>2, <2>3 DEF RangeIn
<1> QED
  BY <1>1, <1>2

(***************************************************************************)
(* clamp_range loses nothing of a blob that fits in memory: a position of  *)
(* the blob is in the clamped range iff it is in the declared one, cut to  *)
(* MaxSectionBytes.                                                        *)
(***************************************************************************)
THEOREM ClampIntersects ==
    ASSUME NEW off \in Nat, NEW len \in Nat, NEW n \in 0 .. UsizeMax, NEW p \in 0 .. n - 1
    PROVE  LET range == clamp_range(off, len, n)
           IN  range # None /\ range.off <= p /\ p < range.off + range.len
                 <=> off <= p /\ p < off + Smaller(len, MaxSectionBytes)
<1> DEFINE length == Smaller(Smaller(Smaller(len, UsizeMax), n - off), MaxSectionBytes)
           range == clamp_range(off, len, n)
<1>0. UsizeMax \in Nat /\ MaxSectionBytes \in Nat /\ n \in Nat
  BY UsizeMaxAssumption, MaxSectionBytesAssumption
<1>1. CASE off > UsizeMax \/ off >= n
  <2>1. range = None
    BY <1>1 DEF clamp_range
  <2>2. ~(off <= p)
    BY <1>0, <1>1
  <2> QED
    BY <2>1, <2>2
<1>2. CASE ~(off > UsizeMax \/ off >= n) /\ length = 0
  <2>1. range = None
    BY <1>2 DEF clamp_range
  <2>2. Smaller(len, MaxSectionBytes) = 0
    BY <1>0, <1>2 DEF Smaller
  <2> QED
    BY <1>0, <2>1, <2>2
<1>3. CASE ~(off > UsizeMax \/ off >= n) /\ length # 0
  <2>1. range = [off |-> off, len |-> length]
    BY <1>3 DEF clamp_range
  <2>2. range \in [off : Nat, len : Nat]
    BY <1>0, <1>3, <2>1 DEF Smaller
  <2>3. range # None
    BY <2>2, NoneAssumption
  <2>4. p < off + length <=> p < off + Smaller(len, MaxSectionBytes)
    BY <1>0, <1>3 DEF Smaller
  <2> QED
    BY <2>1, <2>3, <2>4
<1> QED
  BY <1>1, <1>2, <1>3

-----------------------------------------------------------------------------
LEMMA ElfSectionIn ==
    ASSUME NEW h, ElfHeader(h), NEW n \in Nat
    PROVE  SectionIn(elf_section(h, n), n) /\ SectionIn(mach_section(h, n), n)
<1>1. RangeIn(clamp_range(h.offset, h.size, n), h.offset, n) /\ RangeIn(None, h.offset, n)
  BY ClampInBlob DEF ElfHeader, Ranged, RangeIn
<1>2. SectionIn(elf_section(h, n), n)
  BY <1>1 DEF elf_section, Section, SectionIn, ElfHeader, Ranged
<1>3. SectionIn(mach_section(h, n), n)
  BY <1>1 DEF mach_section, Section, SectionIn, ElfHeader, Ranged
<1> QED
  BY <1>2, <1>3

LEMMA PeSectionIn ==
    ASSUME NEW h, PeHeader(h), NEW base \in Nat, NEW n \in Nat
    PROVE  SectionIn(pe_section(base, h, n), n)
<1> DEFINE raw_len == Smaller(h.size_of_raw_data, h.virtual_size)
<1>1. raw_len \in Nat
  BY DEF PeHeader, Ranged, Smaller
<1>2. /\ RangeIn(clamp_range(h.pointer_to_raw_data, raw_len, n), h.pointer_to_raw_data, n)
      /\ RangeIn(None, h.pointer_to_raw_data, n)
  BY <1>1, ClampInBlob DEF PeHeader, Ranged, RangeIn
<1>3. Wrap(base + h.virtual_address) \in 0 .. AddrSpace - 1
  BY AddrSpaceAssumption DEF PeHeader, Wrap
<1> QED
  BY <1>2, <1>3 DEF pe_section, Section, SectionIn, PeHeader, Ranged

-----------------------------------------------------------------------------
(***************************************************************************)
(* SectionsUpTo with its recursive function as a parameter, and that there *)
(* is one.                                                                 *)
(***************************************************************************)
Joining(segments, m, f) ==
    f = [n \in 0 .. m |->
            IF n = 0 THEN <<>>
            ELSE IF segments[n].readable THEN f[n - 1] \o segments[n].sections ELSE f[n - 1]]

LEMMA JoiningExists ==
    ASSUME NEW segments
    PROVE  \A m \in Nat : \E f : Joining(segments, m, f)
<1> DEFINE T == {m \in Nat : \E f : Joining(segments, m, f)}
<1>1. 0 \in T
  <2>1. Joining(segments, 0, [n \in 0 .. 0 |-> <<>>])
    BY DEF Joining
  <2> QED
    BY <2>1
<1>2. ASSUME NEW m \in Nat, m \in T PROVE m + 1 \in T
  <2>1. PICK f : Joining(segments, m, f)
    BY <1>2
  <2> DEFINE Next1(h, n) == IF segments[n].readable THEN h[n - 1] \o segments[n].sections
                            ELSE h[n - 1]
             g == [n \in 0 .. m + 1 |-> IF n = m + 1 THEN Next1(f, n) ELSE f[n]]
  <2>2. \A n \in 0 .. m : f[n] = IF n = 0 THEN <<>> ELSE Next1(f, n)
    BY <2>1 DEF Joining
  <2>3. \A n \in 0 .. m : g[n] = f[n]
    OBVIOUS
  <2>4. \A n \in 0 .. m + 1 : g[n] = IF n = 0 THEN <<>> ELSE Next1(g, n)
    <3> TAKE n \in 0 .. m + 1
    <3>1. n # 0 => g[n - 1] = f[n - 1]
      <4>1. n # 0 => n - 1 \in 0 .. m
        OBVIOUS
      <4> QED
        BY <2>3, <4>1
    <3>2. n = m + 1 => g[n] = Next1(f, n) /\ n # 0
      OBVIOUS
    <3>3. n # m + 1 => n \in 0 .. m
      OBVIOUS
    <3> HIDE DEF g
    <3> QED
      BY <2>2, <2>3, <3>1, <3>2, <3>3
  <2>5. g = [n \in 0 .. m + 1 |-> g[n]]
    OBVIOUS
  <2>6. Joining(segments, m + 1, g)
    <3> HIDE DEF g
    <3> QED
      BY <2>4, <2>5 DEF Joining
  <2> QED
    BY <2>6
<1>3. \A m \in Nat : m \in T
  <2> HIDE DEF T
  <2> QED
    BY <1>1, <1>2, Induction
<1> QED
  BY <1>3

\* The equations of SectionsUpTo.
LEMMA SectionsUpToEquations ==
    ASSUME NEW segments, Len(segments) \in Nat
    PROVE  /\ SectionsUpTo(segments, 0) = <<>>
           /\ \A n \in 1 .. Len(segments) :
                SectionsUpTo(segments, n) =
                  IF segments[n].readable
                  THEN SectionsUpTo(segments, n - 1) \o segments[n].sections
                  ELSE SectionsUpTo(segments, n - 1)
<1> DEFINE f == CHOOSE g : Joining(segments, Len(segments), g)
<1>1. Joining(segments, Len(segments), f)
  BY JoiningExists
<1>2. \A n : SectionsUpTo(segments, n) = f[n]
  BY DEF SectionsUpTo, Joining
<1> HIDE DEF f
<1>3. f[0] = <<>>
  BY <1>1 DEF Joining
<1>4. \A n \in 0 .. Len(segments) :
        f[n] = IF n = 0 THEN <<>>
               ELSE IF segments[n].readable THEN f[n - 1] \o segments[n].sections ELSE f[n - 1]
  BY <1>1 DEF Joining
<1>5. ASSUME NEW n \in 1 .. Len(segments)
      PROVE  SectionsUpTo(segments, n) =
               IF segments[n].readable
               THEN SectionsUpTo(segments, n - 1) \o segments[n].sections
               ELSE SectionsUpTo(segments, n - 1)
  <2>1. SectionsUpTo(segments, n) = f[n] /\ SectionsUpTo(segments, n - 1) = f[n - 1]
    BY <1>2
  <2> QED
    BY <1>4, <2>1
<1> QED
  BY <1>2, <1>3, <1>5

-----------------------------------------------------------------------------
(***************************************************************************)
(* The sections of a readable segment are in the table of all segments,    *)
(* behind those of the segments before it.                                 *)
(***************************************************************************)
LEMMA SegmentsAreLists ==
    ASSUME NEW segments, Each(segments, Segment)
    PROVE  /\ Len(segments) \in Nat
           /\ \A n \in 0 .. Len(segments) :
                Prefix(SectionsUpTo(segments, n), SegmentSections(segments))
<1> DEFINE N == Len(segments)
           U(n) == SectionsUpTo(segments, n)
<1>1. N \in Nat
  BY DEF Each, IsSeq
<1>2. U(0) = <<>>
  BY <1>1, SectionsUpToEquations
<1>3. \A n \in 1 .. N : U(n) = IF segments[n].readable THEN U(n - 1) \o segments[n].sections
                               ELSE U(n - 1)
  BY <1>1, SectionsUpToEquations
<1>4. \A n \in 1 .. N : segments[n].readable => IsList(segments[n].sections)
  BY <1>1 DEF Each, Segment, IsSeq, IsList
<1> HIDE DEF U
<1>5. ASSUME NEW n \in Nat, n + 1 <= N, IsList(U(n)) PROVE Prefix(U(n), U(n + 1))
  <2>1. n + 1 \in 1 .. N /\ (n + 1) - 1 = n
    BY <1>1, <1>5
  <2>2. CASE segments[n + 1].readable
    <3>1. U(n + 1) = U(n) \o segments[n + 1].sections
      BY <1>3, <2>1, <2>2
    <3>2. IsList(segments[n + 1].sections)
      BY <1>4, <2>1, <2>2
    <3>3. Prefix(U(n), U(n) \o segments[n + 1].sections)
      BY <1>5, <3>2, Concatenation
    <3> QED
      BY <3>1, <3>3
  <2>3. CASE ~segments[n + 1].readable
    <3>1. U(n + 1) = U(n)
      BY <1>3, <2>1, <2>3
    <3>2. Len(U(n)) \in Nat
      BY <1>5 DEF IsList
    <3> QED
      BY <1>5, <3>1, <3>2 DEF Prefix
  <2> QED
    BY <2>2, <2>3
<1> DEFINE T == {m \in Nat : m <= N => \A n \in 0 .. m : Prefix(U(n), U(m))}
<1>6. 0 \in T
  <2>1. <<>> \in Seq({}) /\ Len(<<>>) = 0
    OBVIOUS
  <2>2. Prefix(<<>>, <<>>)
    BY <2>1 DEF Prefix, IsList
  <2> QED
    BY <1>2, <2>2
<1>7. ASSUME NEW m \in Nat, m \in T PROVE m + 1 \in T
  <2> SUFFICES ASSUME m + 1 <= N, NEW n \in 0 .. m + 1 PROVE Prefix(U(n), U(m + 1))
    OBVIOUS
  <2>1. \A k \in 0 .. m : Prefix(U(k), U(m))
    BY <1>1, <1>7
  <2>2. Prefix(U(m), U(m + 1))
    <3>1. IsList(U(m))
      BY <2>1 DEF Prefix
    <3> QED
      BY <1>5, <3>1
  <2>3. Len(U(m)) \in Nat /\ Len(U(m + 1)) \in Nat
    BY <2>2 DEF Prefix, IsList
  <2>4. CASE n \in 0 .. m
    <3>1. Prefix(U(n), U(m))
      BY <2>1, <2>4
    <3>2. Len(U(n)) \in Nat
      BY <3>1 DEF Prefix, IsList
    <3> QED
      BY <2>2, <2>3, <3>1, <3>2 DEF Prefix
  <2>5. CASE n = m + 1
    BY <2>2, <2>3, <2>5 DEF Prefix
  <2> QED
    BY <2>4, <2>5
<1>8. \A m \in Nat : m \in T
  <2> HIDE DEF T
  <2> QED
    BY <1>6, <1>7, Induction
<1>9. \A n \in 0 .. N : Prefix(U(n), U(N))
  BY <1>1, <1>8
<1> QED
  BY <1>1, <1>9 DEF SegmentSections, U
-----------------------------------------------------------------------------
(***************************************************************************)
(* The table so far: a sequence of sections that lie in the blob.          *)
(***************************************************************************)
IsTable(table, n) ==
    /\ \E S : table \in Seq(S)
    /\ \A k \in 1 .. Len(table) : SectionIn(table[k], n)

TableIn ==
    /\ obj \in Objects
    /\ size \in 0 .. AddrSpace /\ size \in 0 .. UsizeMax
    /\ i \in Nat \ {0} /\ j \in Nat \ {0}
    /\ IsTable(out, size)

LEMMA AppendKeepsTable ==
    ASSUME NEW table, NEW n, IsTable(table, n), NEW s, SectionIn(s, n)
    PROVE  IsTable(Append(table, s), n)
<1>1. PICK S : table \in Seq(S)
  BY DEF IsTable
<1>2. table \in Seq(S \cup {s}) /\ s \in S \cup {s}
  BY <1>1
<1>3. Append(table, s) \in Seq(S \cup {s}) /\ Len(Append(table, s)) = Len(table) + 1
  BY <1>2
<1>4. \A k \in 1 .. Len(table) + 1 : Append(table, s)[k] = IF k <= Len(table) THEN table[k] ELSE s
  BY <1>2
<1>5. Len(table) \in Nat
  BY <1>1
<1>6. ASSUME NEW k \in 1 .. Len(Append(table, s)) PROVE SectionIn(Append(table, s)[k], n)
  BY <1>3, <1>4, <1>5, <1>6 DEF IsTable
<1> QED
  BY <1>3, <1>6 DEF IsTable

LEMMA TruncateKeepsTable ==
    ASSUME NEW table, NEW n, IsTable(table, n), NEW m \in Nat
    PROVE  IsTable(SubSeq(table, 1, Smaller(Len(table), m)), n)
<1> DEFINE cut == SubSeq(table, 1, Smaller(Len(table), m))
<1>1. PICK S : table \in Seq(S)
  BY DEF IsTable
<1>2. Len(table) \in Nat /\ Smaller(Len(table), m) \in 0 .. Len(table)
  BY <1>1 DEF Smaller
<1>3. cut \in Seq(S) /\ Len(cut) = Smaller(Len(table), m)
  BY <1>1, <1>2
<1>4. \A k \in 1 .. Len(cut) : cut[k] = table[k] /\ k \in 1 .. Len(table)
  BY <1>1, <1>2, <1>3
<1> QED
  BY <1>3, <1>4 DEF IsTable

-----------------------------------------------------------------------------
\* Every section of a readable segment has a header.
LEMMA SectionsAreHeaders ==
    ASSUME NEW segments, Each(segments, Segment)
    PROVE  \A k \in 1 .. Len(SegmentSections(segments)) : ElfHeader(SegmentSections(segments)[k])
<1> DEFINE N == Len(segments)
           U(n) == SectionsUpTo(segments, n)
           T == {m \in Nat : m <= N => \A k \in 1 .. Len(U(m)) : ElfHeader(U(m)[k])}
<1>1. N \in Nat /\ \A n \in 0 .. N : IsList(U(n)) /\ Len(U(n)) \in Nat
  BY SegmentsAreLists DEF Prefix, IsList
<1>2. /\ U(0) = <<>>
      /\ \A n \in 1 .. N : U(n) = IF segments[n].readable THEN U(n - 1) \o segments[n].sections
                                  ELSE U(n - 1)
  BY <1>1, SectionsUpToEquations
<1> HIDE DEF U
<1>3. 0 \in T
  BY <1>2
<1>4. ASSUME NEW m \in Nat, m \in T PROVE m + 1 \in T
  <2> SUFFICES ASSUME m + 1 <= N PROVE \A k \in 1 .. Len(U(m + 1)) : ElfHeader(U(m + 1)[k])
    OBVIOUS
  <2>1. m + 1 \in 1 .. N /\ m \in 0 .. N /\ (m + 1) - 1 = m
    BY <1>1
  <2>2. \A k \in 1 .. Len(U(m)) : ElfHeader(U(m)[k])
    BY <1>1, <1>4
  <2>3. CASE ~segments[m + 1].readable
    BY <1>2, <2>1, <2>2, <2>3
  <2>4. CASE segments[m + 1].readable
    <3> DEFINE more == segments[m + 1].sections
    <3>1. Each(more, ElfHeader)
      BY <2>1, <2>4 DEF Each, Segment
    <3>2. IsList(more) /\ \A k \in 1 .. Len(more) : ElfHeader(more[k])
      BY <3>1 DEF Each, IsSeq, IsList
    <3>3. U(m + 1) = U(m) \o more
      BY <1>2, <2>1, <2>4
    <3>4. IsList(U(m))
      BY <1>1, <2>1
    <3> HIDE DEF more
    <3>5. /\ Len(U(m)) \in Nat /\ Len(more) \in Nat /\ Len(U(m + 1)) = Len(U(m)) + Len(more)
          /\ \A k \in 1 .. Len(U(m)) : U(m + 1)[k] = U(m)[k]
          /\ \A k \in 1 .. Len(more) : U(m + 1)[Len(U(m)) + k] = more[k]
      <4>1. /\ Prefix(U(m), U(m) \o more)
            /\ Len(U(m)) \in Nat /\ Len(more) \in Nat
            /\ Len(U(m) \o more) = Len(U(m)) + Len(more)
            /\ \A k \in 1 .. Len(more) : (U(m) \o more)[Len(U(m)) + k] = more[k]
        BY <3>2, <3>4, Concatenation
      <4> QED
        BY <3>3, <4>1 DEF Prefix
    <3>6. ASSUME NEW k \in 1 .. Len(U(m + 1)), k > Len(U(m)) PROVE ElfHeader(U(m + 1)[k])
      <4>1. k - Len(U(m)) \in 1 .. Len(more) /\ k = Len(U(m)) + (k - Len(U(m)))
        BY <3>5, <3>6
      <4> QED
        BY <3>2, <3>5, <4>1
    <3> QED
      BY <2>2, <3>5, <3>6
  <2> QED
    BY <2>3, <2>4
<1>5. \A m \in Nat : m \in T
  <2> HIDE DEF T
  <2> QED
    BY <1>3, <1>4, Induction
<1> QED
  BY <1>1, <1>5 DEF SegmentSections, U

\* A table made header by header.
LEMMA MadeTable ==
    ASSUME NEW m \in Nat, NEW f, f = [k \in 1 .. m |-> f[k]], NEW n,
           \A k \in 1 .. m : SectionIn(f[k], n)
    PROVE  IsTable(f, n)
  BY FunctionIsList DEF IsTable, IsList

(***************************************************************************)
(* The sections of any container lie in the blob it was found in.          *)
(***************************************************************************)
LEMMA TableIsIn ==
    ASSUME NEW o, HeadersRead(o), NEW n \in Nat
    PROVE  IsTable(SectionTable(o, n), n)
<1> DEFINE full == FullTable(o, n)
<1>1. CASE o.format = "elf"
  <2>1. Each(o.sections, ElfHeader)
    BY <1>1 DEF HeadersRead
  <2>2. Len(o.sections) \in Nat /\ \A k \in 1 .. Len(o.sections) : ElfHeader(o.sections[k])
    BY <2>1 DEF Each, IsSeq
  <2>3. full = [k \in 1 .. Len(o.sections) |-> elf_section(o.sections[k], n)]
    BY <1>1 DEF FullTable
  <2> HIDE DEF full
  <2>4. \A k \in 1 .. Len(o.sections) : SectionIn(full[k], n)
    BY <2>2, <2>3, ElfSectionIn
  <2>5. IsTable(full, n)
    BY <2>2, <2>3, <2>4, MadeTable
  <2> QED
    BY <2>5, TruncateKeepsTable, MaxSectionsAssumption DEF SectionTable, full
<1>2. CASE o.format = "pe"
  <2>1. Each(o.sections, PeHeader) /\ o.image_base \in Nat
    BY <1>2 DEF HeadersRead
  <2>2. Len(o.sections) \in Nat /\ \A k \in 1 .. Len(o.sections) : PeHeader(o.sections[k])
    BY <2>1 DEF Each, IsSeq
  <2>3. full = [k \in 1 .. Len(o.sections) |-> pe_section(o.image_base, o.sections[k], n)]
    BY <1>2 DEF FullTable
  <2> HIDE DEF full
  <2>4. \A k \in 1 .. Len(o.sections) : SectionIn(full[k], n)
    BY <2>1, <2>2, <2>3, PeSectionIn
  <2>5. IsTable(full, n)
    BY <2>2, <2>3, <2>4, MadeTable
  <2> QED
    BY <2>5, TruncateKeepsTable, MaxSectionsAssumption DEF SectionTable, full
<1>3. ASSUME NEW segments, Each(segments, Segment),
             full = [k \in 1 .. Len(SegmentSections(segments)) |->
                       mach_section(SegmentSections(segments)[k], n)]
      PROVE  IsTable(SectionTable(o, n), n)
  <2> DEFINE all == SegmentSections(segments)
  <2>1. Len(all) \in Nat /\ \A k \in 1 .. Len(all) : ElfHeader(all[k])
    BY <1>3, SegmentsAreLists, SectionsAreHeaders DEF Prefix, IsList
  <2> HIDE DEF full
  <2>2. \A k \in 1 .. Len(all) : SectionIn(full[k], n)
    BY <1>3, <2>1, ElfSectionIn
  <2>3. IsTable(full, n)
    BY <1>3, <2>1, <2>2, MadeTable
  <2> QED
    BY <2>3, TruncateKeepsTable, MaxSectionsAssumption DEF SectionTable, full
<1>4. CASE o.format = "macho"
  BY <1>3, <1>4 DEF HeadersRead, FullTable
<1>5. CASE o.format = "fat" /\ HasPrimarySlice(o)
  BY <1>3, <1>5 DEF HeadersRead, FullTable
<1>6. CASE o.format \notin {"elf", "pe", "macho"} /\ ~(o.format = "fat" /\ HasPrimarySlice(o))
  <2>1. full = <<>>
    BY <1>6 DEF FullTable
  <2>2. <<>> \in Seq({}) /\ Len(<<>>) = 0
    OBVIOUS
  <2>3. IsTable(full, n)
    BY <2>1, <2>2 DEF IsTable
  <2> QED
    BY <2>3, TruncateKeepsTable, MaxSectionsAssumption DEF SectionTable
<1> QED
  BY <1>1, <1>2, <1>4, <1>5, <1>6

LEMMA TableInit == ScanInit => TableIn
<1> SUFFICES ASSUME ScanInit PROVE TableIn
  OBVIOUS
<1>1. out \in Seq({}) /\ Len(out) = 0
  BY DEF ScanInit
<1>2. size \in 0 .. AddrSpace /\ size \in 0 .. UsizeMax
  BY BlobSizesAssumption, UsizeMaxAssumption, AddrSpaceAssumption DEF ScanInit
<1> QED
  BY <1>1, <1>2 DEF ScanInit, TableIn, IsTable

(***************************************************************************)
(* One step per action of the scan.  The headers are those of a container  *)
(* goblin made, so a section made of one lies in the blob.                 *)
(***************************************************************************)
LEMMA TableStep == TableIn /\ [ScanNext]_scanVars => TableIn'
<1> SUFFICES ASSUME TableIn, [ScanNext]_scanVars PROVE TableIn'
  OBVIOUS
<1> USE DEF TableIn
<1>1. CASE ScanElfHeader
  <2>1. i \in 1 .. Len(obj.sections) /\ obj.format = "elf"
    BY <1>1, HeadersAssumption DEF ScanElfHeader, Headers, Flat
  <2>2. ElfHeader(obj.sections[i])
    BY <2>1, HeadersAssumption DEF HeadersRead, Each
  <2>3. IsTable(Append(out, elf_section(obj.sections[i], size)), size)
    BY <2>2, ElfSectionIn, AppendKeepsTable
  <2> QED
    BY <1>1, <2>1, <2>3 DEF ScanElfHeader, Headers, Flat
<1>2. CASE ScanPeHeader
  <2>1. i \in 1 .. Len(obj.sections) /\ obj.format = "pe"
    BY <1>2, HeadersAssumption DEF ScanPeHeader, Headers, Flat
  <2>2. PeHeader(obj.sections[i]) /\ obj.image_base \in Nat
    BY <2>1, HeadersAssumption DEF HeadersRead, Each
  <2>3. IsTable(Append(out, pe_section(obj.image_base, obj.sections[i], size)), size)
    BY <2>2, PeSectionIn, AppendKeepsTable
  <2> QED
    BY <1>2, <2>1, <2>3 DEF ScanPeHeader, Headers, Flat
<1>3. CASE SkipSegment
  BY <1>3 DEF SkipSegment
<1>4. CASE ScanMachSection
  <2>1. i \in 1 .. Len(Segments) /\ j \in 1 .. Len(Segments[i].sections)
    BY <1>4, HeadersAssumption DEF ScanMachSection
  <2>2. Each(Segments, Segment)
    BY <1>4, HeadersAssumption DEF HeadersRead, ScanMachSection, Segmented, Segments
  <2>3. ElfHeader(Segments[i].sections[j])
    BY <1>4, <2>1, <2>2 DEF ScanMachSection, Each, Segment
  <2>4. IsTable(Append(out, mach_section(Segments[i].sections[j], size)), size)
    BY <2>3, ElfSectionIn, AppendKeepsTable
  <2> QED
    BY <1>4, <2>4 DEF ScanMachSection
<1>5. CASE LeaveSegment
  BY <1>5 DEF LeaveSegment
<1>6. CASE EndOfTable
  BY <1>6, TruncateKeepsTable, MaxSectionsAssumption DEF EndOfTable
<1>7. CASE UNCHANGED scanVars
  BY <1>7 DEF scanVars
<1> QED
  BY <1>1, <1>2, <1>3, <1>4, <1>5, <1>6, <1>7 DEF ScanNext

\* Every step of entrypoint() is a step of the scan or leaves it alone.
LEMMA ScanOnly == [Next]_vars => [ScanNext]_scanVars
  BY DEF Next, ReturnRaw, CallSections, ScanStep, ReturnEntry, vars, scanVars

(***************************************************************************)
(* BytesInBlob: no header can make the code look outside the blob.         *)
(***************************************************************************)
THEOREM InBlob == Spec => []BytesInBlob
<1>1. Init => TableIn
  BY TableInit DEF Init
<1>2. TableIn /\ [Next]_vars => TableIn'
  BY TableStep, ScanOnly
<1>3. TableIn => BytesInBlob
  <2> SUFFICES ASSUME TableIn, NEW k \in DOMAIN out
               PROVE  LET s == out[k]
                          b == section_bytes(s, size)
                      IN  /\ b.off + b.len <= size
                          /\ b.len <= MaxSectionBytes
                          /\ IF s.data_range = None THEN b = NoBytes
                             ELSE b = s.data_range /\ b.len > 0
    BY DEF BytesInBlob
  <2>1. size \in Nat /\ RangeIn(out[k].data_range, out[k].file_off, size)
    BY DEF TableIn, IsTable, SectionIn
  <2>2. CASE out[k].data_range = None
    BY <2>1, <2>2, MaxSectionBytesAssumption DEF section_bytes, NoBytes
  <2>3. CASE out[k].data_range # None
    <3> DEFINE r == out[k].data_range
    <3>1. r \in [off : Nat, len : Nat] /\ r.off + r.len <= size
            /\ 0 < r.len /\ r.len <= MaxSectionBytes
      BY <2>1, <2>3 DEF RangeIn
    <3>2. section_bytes(out[k], size) = [off |-> r.off, len |-> r.len]
      BY <2>1, <2>3, <3>1 DEF section_bytes, Smaller
    <3>3. r = [off |-> r.off, len |-> r.len]
      BY <3>1
    <3> QED
      BY <2>3, <3>1, <3>2, <3>3
  <2> QED
    BY <2>2, <2>3
<1> QED
  BY <1>1, <1>2, <1>3, PTL DEF Spec

-----------------------------------------------------------------------------
(***************************************************************************)
(* The table a container has, header by header: as many sections as it has *)
(* headers, the k-th of them made of the k-th header.                      *)
(***************************************************************************)
Full == FullTable(obj, size)
AllSections == SegmentSections(Segments)

LEMMA FullOfElf ==
    ASSUME obj \in Objects, obj.format = "elf"
    PROVE  /\ IsList(Full) /\ Len(Headers) \in Nat /\ Len(Full) = Len(Headers)
           /\ \A k \in 1 .. Len(Full) :
                Full[k] = elf_section(Headers[k], size) /\ ElfHeader(Headers[k])
<1>1. Headers = obj.sections
  BY DEF Headers, Flat
<1>2. Len(Headers) \in Nat /\ \A k \in 1 .. Len(Headers) : ElfHeader(Headers[k])
  <2>1. Each(Headers, ElfHeader)
    BY <1>1, HeadersAssumption DEF HeadersRead
  <2> QED
    BY <2>1 DEF Each, IsSeq
<1>3. Full = [k \in 1 .. Len(Headers) |-> elf_section(Headers[k], size)]
  BY <1>1 DEF Full, FullTable
<1> QED
  BY <1>2, <1>3, FunctionIsList

LEMMA FullOfPe ==
    ASSUME obj \in Objects, obj.format = "pe"
    PROVE  /\ IsList(Full) /\ Len(Headers) \in Nat /\ Len(Full) = Len(Headers)
           /\ \A k \in 1 .. Len(Full) :
                Full[k] = pe_section(obj.image_base, Headers[k], size) /\ PeHeader(Headers[k])
<1>1. Headers = obj.sections
  BY DEF Headers, Flat
<1>2. Len(Headers) \in Nat /\ \A k \in 1 .. Len(Headers) : PeHeader(Headers[k])
  <2>1. Each(Headers, PeHeader)
    BY <1>1, HeadersAssumption DEF HeadersRead
  <2> QED
    BY <2>1 DEF Each, IsSeq
<1>3. Full = [k \in 1 .. Len(Headers) |-> pe_section(obj.image_base, Headers[k], size)]
  BY <1>1 DEF Full, FullTable
<1> QED
  BY <1>2, <1>3, FunctionIsList

LEMMA SegmentsMade ==
    ASSUME obj \in Objects, Segmented
    PROVE  Each(Segments, Segment)
<1>1. CASE obj.format = "macho"
  BY <1>1, HeadersAssumption DEF HeadersRead, Segments
<1>2. CASE obj.format = "fat" /\ HasPrimarySlice(obj)
  BY <1>2, HeadersAssumption DEF HeadersRead, Segments
<1> QED
  BY <1>1, <1>2 DEF Segmented

LEMMA FullOfSegments ==
    ASSUME obj \in Objects, Segmented
    PROVE  /\ IsList(Full) /\ Len(Full) = Len(AllSections)
           /\ \A k \in 1 .. Len(Full) : Full[k] = mach_section(AllSections[k], size)
<1>1. IsList(AllSections)
  BY SegmentsMade, SegmentsAreLists DEF AllSections, Prefix
<1>2. Full = [k \in 1 .. Len(AllSections) |-> mach_section(AllSections[k], size)]
  <2>1. CASE obj.format = "macho"
    BY <2>1 DEF Full, FullTable, AllSections, Segments
  <2>2. CASE obj.format = "fat" /\ HasPrimarySlice(obj)
    BY <2>2 DEF Full, FullTable, AllSections, Segments
  <2> QED
    BY <2>1, <2>2 DEF Segmented
<1>3. Len(AllSections) \in Nat
  BY <1>1 DEF IsList
<1> QED
  BY <1>2, <1>3, FunctionIsList

LEMMA FullOfNone ==
    ASSUME ~Flat, ~Segmented
    PROVE  IsList(Full) /\ Len(Full) = 0
<1>1. Full = <<>>
  BY DEF Full, FullTable, Flat, Segmented
<1>2. <<>> \in Seq({}) /\ Len(<<>>) = 0
  OBVIOUS
<1> QED
  BY <1>1, <1>2 DEF IsList

LEMMA FullIsList == ASSUME obj \in Objects PROVE IsList(Full) /\ Len(Full) \in Nat
<1>1. IsList(Full)
  BY FullOfElf, FullOfPe, FullOfSegments, FullOfNone DEF Flat
<1> QED
  BY <1>1 DEF IsList

(***************************************************************************)
(* The scan at work: it holds the first sections of the table, and i and j *)
(* say how many.  Once the cap is reached the segments are only counted.   *)
(***************************************************************************)
Reading ==
    /\ pc \in {"scan", "done"}
    /\ Len(out) <= Smaller(Len(Full), MaxSections)
    /\ \A k \in 1 .. Len(out) : out[k] = Full[k]
    /\ pc = "done" => Len(out) = Smaller(Len(Full), MaxSections)
    /\ pc = "scan" /\ Flat => i = Len(out) + 1
    /\ pc = "scan" /\ Segmented =>
         /\ i <= Len(Segments) + 1
         /\ IF i <= Len(Segments) /\ Segments[i].readable
            THEN j <= Len(Segments[i].sections) + 1 ELSE j = 1
         /\ ~Capped => Len(out) = Len(SectionsUpTo(Segments, i - 1)) + (j - 1)

LEMMA Fixed ==
    ASSUME obj' = obj, size' = size
    PROVE  /\ Full' = Full
           /\ Headers' = Headers
           /\ Segments' = Segments
           /\ Flat' = Flat
           /\ Segmented' = Segmented
<1>1. Full' = Full
  BY DEF Full
<1>2. Headers' = Headers /\ Flat' = Flat
  BY DEF Headers, Flat
<1>3. Segments' = Segments /\ Segmented' = Segmented
  BY DEF Segments, Segmented, HasPrimarySlice
<1> QED
  BY <1>1, <1>2, <1>3

\* A section read is the next one of the table.
LEMMA ReadNext ==
    ASSUME TableIn, Reading, ~Capped, Len(out) < Len(Full),
           out' = Append(out, Full[Len(out) + 1]), obj' = obj, size' = size
    PROVE  /\ Len(out') = Len(out) + 1
           /\ Len(out') <= Smaller(Len(Full), MaxSections)
           /\ \A k \in 1 .. Len(out') : out'[k] = Full[k]
<1> DEFINE s == Full[Len(out) + 1]
<1>1. PICK S : out \in Seq(S)
  BY DEF TableIn, IsTable
<1>2. out \in Seq(S \cup {s}) /\ s \in S \cup {s} /\ Len(out) \in Nat /\ out' = Append(out, s)
  BY <1>1
<1> HIDE DEF s
<1>3. Len(out') = Len(out) + 1
  BY <1>2
<1>4. \A k \in 1 .. Len(out) + 1 : out'[k] = IF k <= Len(out) THEN out[k] ELSE s
  BY <1>2
<1>5. \A k \in 1 .. Len(out') : out'[k] = Full[k]
  BY <1>2, <1>3, <1>4 DEF Reading, s
<1>6. Len(out) + 1 <= Smaller(Len(Full), MaxSections)
  BY <1>2, MaxSectionsAssumption, FullIsList DEF Capped, Smaller, TableIn
<1> QED
  BY <1>3, <1>5, <1>6

LEMMA ReadingInit == ScanInit => Reading
<1> SUFFICES ASSUME ScanInit PROVE Reading
  OBVIOUS
<1>1. out = <<>> /\ Len(out) = 0 /\ i = 1 /\ j = 1 /\ pc = "scan" /\ obj \in Objects
  BY DEF ScanInit
<1>2. Len(out) <= Smaller(Len(Full), MaxSections)
  BY <1>1, FullIsList, MaxSectionsAssumption DEF Smaller
<1>3. ASSUME Segmented
      PROVE  /\ i <= Len(Segments) + 1
             /\ IF i <= Len(Segments) /\ Segments[i].readable
                THEN j <= Len(Segments[i].sections) + 1 ELSE j = 1
             /\ Len(out) = Len(SectionsUpTo(Segments, i - 1)) + (j - 1)
  <2>1. Each(Segments, Segment)
    BY <1>1, <1>3, SegmentsMade
  <2>2. Len(Segments) \in Nat
    BY <2>1, SegmentsAreLists
  <2>3. SectionsUpTo(Segments, 0) = <<>>
    BY <2>2, SectionsUpToEquations
  <2>4. CASE 1 <= Len(Segments) /\ Segments[1].readable
    <3>1. Each(Segments[1].sections, ElfHeader)
      BY <2>1, <2>2, <2>4 DEF Each, Segment
    <3>2. Len(Segments[1].sections) \in Nat
      BY <3>1 DEF Each, IsSeq
    <3> QED
      BY <1>1, <2>2, <2>3, <2>4, <3>2
  <2>5. CASE ~(1 <= Len(Segments) /\ Segments[1].readable)
    BY <1>1, <2>2, <2>3, <2>5
  <2> QED
    BY <2>4, <2>5
<1> QED
  BY <1>1, <1>2, <1>3 DEF Reading

(***************************************************************************)
(* One step per action of the scan.  A Mach-O section is the next one of   *)
(* the table because those of the segments before it, and only those, have *)
(* been read: the cap has not been reached.                                *)
(***************************************************************************)
LEMMA ReadingStep == TableIn /\ Reading /\ [ScanNext]_scanVars => Reading'
<1> SUFFICES ASSUME TableIn, Reading, [ScanNext]_scanVars PROVE Reading'
  OBVIOUS
<1> DEFINE U(n) == SectionsUpTo(Segments, n)
<1>0. obj \in Objects /\ i \in Nat \ {0} /\ j \in Nat \ {0} /\ Len(out) \in Nat
  BY DEF TableIn, IsTable
<1>1. CASE ScanElfHeader
  <2>1. obj' = obj /\ size' = size /\ pc' = "scan" /\ i' = i + 1 /\ Flat /\ ~Segmented
    BY <1>1 DEF ScanElfHeader, Flat, Segmented
  <2>2. Len(out) < Len(Full) /\ Full[Len(out) + 1] = elf_section(Headers[i], size)
    BY <1>0, <1>1, <2>1, FullOfElf DEF ScanElfHeader, Reading
  <2>3. out' = Append(out, Full[Len(out) + 1]) /\ ~Capped
    BY <1>1, <2>2 DEF ScanElfHeader
  <2>4. i = Len(out) + 1
    BY <1>1, <2>1 DEF Reading, ScanElfHeader
  <2> QED
    BY <1>0, <2>1, <2>2, <2>3, <2>4, ReadNext, Fixed DEF Reading
<1>2. CASE ScanPeHeader
  <2>1. obj' = obj /\ size' = size /\ pc' = "scan" /\ i' = i + 1 /\ Flat /\ ~Segmented
    BY <1>2 DEF ScanPeHeader, Flat, Segmented
  <2>2. Len(out) < Len(Full) /\ Full[Len(out) + 1] = pe_section(obj.image_base, Headers[i], size)
    BY <1>0, <1>2, <2>1, FullOfPe DEF ScanPeHeader, Reading
  <2>3. out' = Append(out, Full[Len(out) + 1]) /\ ~Capped
    BY <1>2, <2>2 DEF ScanPeHeader
  <2>4. i = Len(out) + 1
    BY <1>2, <2>1 DEF Reading, ScanPeHeader
  <2> QED
    BY <1>0, <2>1, <2>2, <2>3, <2>4, ReadNext, Fixed DEF Reading
<1>3. CASE SkipSegment \/ ScanMachSection \/ LeaveSegment
  <2>1. /\ obj' = obj /\ size' = size /\ pc = "scan" /\ pc' = "scan"
        /\ Segmented /\ ~Flat /\ i <= Len(Segments)
    BY <1>3 DEF SkipSegment, ScanMachSection, LeaveSegment, Segmented, Flat
  <2>2. Each(Segments, Segment)
    BY <1>0, <2>1, SegmentsMade
  <2>3. Len(Segments) \in Nat /\ i \in 1 .. Len(Segments)
    BY <1>0, <2>1, <2>2, SegmentsAreLists
  <2>4. \A n \in 1 .. Len(Segments) : Segments[n].readable =>
          IsList(Segments[n].sections) /\ Len(Segments[n].sections) \in Nat
    <3> SUFFICES ASSUME NEW n \in 1 .. Len(Segments), Segments[n].readable
                 PROVE  IsList(Segments[n].sections) /\ Len(Segments[n].sections) \in Nat
      OBVIOUS
    <3>1. Each(Segments[n].sections, ElfHeader)
      BY <2>2, <2>3 DEF Each, Segment
    <3> QED
      BY <3>1 DEF Each, IsSeq, IsList
  <2>5. \A n \in 0 .. Len(Segments) : Prefix(U(n), AllSections) /\ Len(U(n)) \in Nat
    BY <2>2, SegmentsAreLists DEF AllSections, Prefix, IsList
  <2>6. U(i) = IF Segments[i].readable THEN U(i - 1) \o Segments[i].sections ELSE U(i - 1)
    BY <2>3, SectionsUpToEquations
  <2>7. Prefix(U(i - 1), AllSections) /\ Len(U(i - 1)) \in Nat
    BY <2>3, <2>5
  <2>8. Prefix(U(i), AllSections) /\ Len(U(i)) \in Nat
    BY <2>3, <2>5
  <2>9. Segments[i].readable =>
          /\ Len(U(i)) = Len(U(i - 1)) + Len(Segments[i].sections)
          /\ \A k \in 1 .. Len(Segments[i].sections) :
               U(i)[Len(U(i - 1)) + k] = Segments[i].sections[k]
    <3> SUFFICES ASSUME Segments[i].readable
                 PROVE  /\ Len(U(i)) = Len(U(i - 1)) + Len(Segments[i].sections)
                        /\ \A k \in 1 .. Len(Segments[i].sections) :
                             U(i)[Len(U(i - 1)) + k] = Segments[i].sections[k]
      OBVIOUS
    <3> DEFINE p == U(i - 1)
               q == Segments[i].sections
    <3>1. IsList(p) /\ IsList(q)
      BY <2>3, <2>4, <2>7 DEF Prefix
    <3>2. U(i) = p \o q
      BY <2>6
    <3>3. Len(p \o q) = Len(p) + Len(q) /\ \A k \in 1 .. Len(q) : (p \o q)[Len(p) + k] = q[k]
      <4> HIDE DEF p, q
      <4> QED
        BY <3>1, Concatenation
    <3> HIDE DEF U
    <3> QED
      BY <3>2, <3>3
  <2>10. ~Capped => Len(out) = Len(U(i - 1)) + (j - 1)
    BY <2>1 DEF Reading
  <2>11. Segments[i].readable => j <= Len(Segments[i].sections) + 1
    BY <2>1 DEF Reading
  <2>12. ~Segments[i].readable => j = 1
    BY <2>1 DEF Reading
  <2>13. Len(AllSections) \in Nat /\ Len(Full) = Len(AllSections)
           /\ \A k \in 1 .. Len(Full) : Full[k] = mach_section(AllSections[k], size)
    BY <1>0, <2>1, <2>7, FullOfSegments DEF Prefix, IsList
  <2>16. Segments[i].readable => Len(Segments[i].sections) \in Nat
    BY <2>3, <2>4
  <2> HIDE DEF U
  <2> DEFINE before == Len(U(i - 1))
             count == Len(Segments[i].sections)
  <2>17. /\ before \in Nat
         /\ Segments[i].readable => count \in Nat /\ Len(U(i)) = before + count /\ j <= count + 1
         /\ ~Capped => Len(out) = before + (j - 1)
    BY <2>7, <2>9, <2>10, <2>11, <2>16
  <2>14. CASE SkipSegment \/ LeaveSegment
    <3>1. out' = out /\ i' = i + 1 /\ j' = 1
      BY <2>12, <2>14 DEF SkipSegment, LeaveSegment
    <3>2. ~Capped => Len(out) = Len(U(i))
      <4>1. CASE SkipSegment
        BY <1>0, <2>6, <2>7, <2>10, <2>12, <4>1 DEF SkipSegment
      <4>2. CASE LeaveSegment
        <5>1. Segments[i].readable /\ (~Capped => j > Len(Segments[i].sections))
          BY <4>2 DEF LeaveSegment
        <5> HIDE DEF before
        <5> QED
          BY <1>0, <2>17, <5>1
      <4> QED
        BY <2>14, <4>1, <4>2
    <3>3. Capped' = Capped /\ (i + 1) - 1 = i
      BY <1>0, <3>1 DEF Capped
    <3>4. /\ i' <= Len(Segments) + 1
          /\ IF i' <= Len(Segments) /\ Segments[i'].readable
             THEN j' <= Len(Segments[i'].sections) + 1 ELSE j' = 1
      BY <2>3, <2>4, <3>1
    <3> QED
      BY <2>1, <3>1, <3>2, <3>3, <3>4, Fixed DEF Reading, U
  <2>15. CASE ScanMachSection
    <3>1. /\ Segments[i].readable /\ j \in 1 .. Len(Segments[i].sections) /\ ~Capped
          /\ i' = i /\ j' = j + 1
          /\ out' = Append(out, mach_section(Segments[i].sections[j], size))
      BY <1>0, <2>3, <2>4, <2>15 DEF ScanMachSection
    <3>2. Len(out) + 1 = Len(U(i - 1)) + j /\ Len(out) + 1 \in 1 .. Len(U(i))
      <4>1. j \in 1 .. count /\ count \in Nat /\ Len(U(i)) = before + count
        BY <2>17, <3>1
      <4>2. before \in Nat /\ Len(out) = before + (j - 1)
        BY <2>17, <3>1
      <4>3. Len(out) + 1 = before + j /\ Len(out) + 1 \in 1 .. before + count
        <5> HIDE DEF before, count
        <5> QED
          BY <1>0, <4>1, <4>2
      <4> QED
        BY <4>1, <4>3
    <3>3. AllSections[Len(out) + 1] = Segments[i].sections[j] /\ Len(out) < Len(Full)
      <4>1. U(i)[Len(out) + 1] = Segments[i].sections[j]
        BY <2>9, <3>1, <3>2
      <4>2. AllSections[Len(out) + 1] = U(i)[Len(out) + 1] /\ Len(U(i)) <= Len(Full)
        BY <2>8, <2>13, <3>2 DEF Prefix
      <4> QED
        BY <1>0, <2>8, <2>13, <3>2, <4>1, <4>2
    <3>4. Full[Len(out) + 1] = mach_section(Segments[i].sections[j], size)
      BY <1>0, <2>13, <3>3
    <3>5. /\ Len(out') = Len(out) + 1
          /\ Len(out') <= Smaller(Len(Full), MaxSections)
          /\ \A k \in 1 .. Len(out') : out'[k] = Full[k]
      BY <2>1, <3>1, <3>3, <3>4, ReadNext
    <3>6. Len(out') = Len(U(i - 1)) + (j' - 1) /\ j' <= Len(Segments[i].sections) + 1
      BY <1>0, <2>3, <2>4, <2>7, <3>1, <3>2, <3>5
    <3> QED
      BY <2>1, <2>3, <3>1, <3>5, <3>6, Fixed DEF Reading, U
  <2> QED
    BY <1>3, <2>14, <2>15
<1>4. CASE EndOfTable
  <2>1. /\ obj' = obj /\ size' = size /\ pc = "scan" /\ pc' = "done"
        /\ out' = SubSeq(out, 1, Smaller(Len(out), MaxSections))
    BY <1>4 DEF EndOfTable
  <2>2. IsList(Full) /\ Len(Full) \in Nat
    BY <1>0, FullIsList
  <2>3. Smaller(Len(out), MaxSections) = Len(out)
    BY <1>0, <2>2, MaxSectionsAssumption DEF Reading, Smaller
  <2>4. PICK S : out \in Seq(S)
    BY DEF TableIn, IsTable
  <2>5. out' = out
    BY <2>1, <2>3, <2>4
  <2>6. ~Capped => Len(out) = Len(Full)
    <3>1. CASE Flat
      <4>1. i > Len(Headers) \/ Capped
        BY <1>4, <3>1 DEF EndOfTable, Flat, Segmented
      <4>2. Len(Headers) = Len(Full)
        BY <1>0, <3>1, FullOfElf, FullOfPe DEF Flat
      <4> QED
        BY <1>0, <2>1, <2>2, <3>1, <4>1, <4>2, MaxSectionsAssumption DEF Reading, Smaller
    <3>2. CASE Segmented
      <4>1. i > Len(Segments)
        BY <1>4, <3>2 DEF EndOfTable, Flat, Segmented
      <4>2. Len(Segments) \in Nat
        BY <1>0, <3>2, SegmentsMade, SegmentsAreLists
      <4>3. i - 1 = Len(Segments) /\ (~Capped => Len(out) = Len(U(i - 1)) + (j - 1)) /\ j = 1
        BY <1>0, <2>1, <3>2, <4>1, <4>2 DEF Reading
      <4>4. Len(Full) = Len(AllSections) /\ AllSections = U(Len(Segments))
        BY <1>0, <3>2, FullOfSegments DEF AllSections, SegmentSections
      <4> HIDE DEF U
      <4> QED
        BY <1>0, <2>2, <4>3, <4>4
    <3>3. CASE ~Flat /\ ~Segmented
      BY <1>0, <2>2, <3>3, FullOfNone, MaxSectionsAssumption DEF Reading, Smaller
    <3> QED
      BY <3>1, <3>2, <3>3
  <2>7. Len(out) = Smaller(Len(Full), MaxSections)
    BY <1>0, <2>2, <2>6, MaxSectionsAssumption DEF Reading, Smaller, Capped
  <2> QED
    BY <2>1, <2>5, <2>7, Fixed DEF Reading
<1>5. CASE UNCHANGED scanVars
  <2>1. /\ obj' = obj /\ size' = size /\ out' = out /\ i' = i /\ j' = j /\ pc' = pc
    BY <1>5 DEF scanVars
  <2>2. Capped' = Capped
    BY <2>1 DEF Capped
  <2> QED
    BY <2>1, <2>2, Fixed DEF Reading
<1> QED
  BY <1>1, <1>2, <1>3, <1>4, <1>5 DEF ScanNext

(***************************************************************************)
(* ReadsTable: the loops, with the segments they skip and the cap that     *)
(* breaks only the inner one, read the first sections of the table.        *)
(***************************************************************************)
LEMMA TableRead == TableIn /\ Reading => ReadsTable
<1> SUFFICES ASSUME TableIn, Reading PROVE ReadsTable
  OBVIOUS
<1>1. PICK S : out \in Seq(S)
  BY DEF TableIn, IsTable
<1>2. PICK X : Full \in Seq(X)
  BY FullIsList DEF TableIn, IsList
<1>3. Len(out) \in Nat /\ Len(Full) \in Nat /\ Len(out) <= Len(Full)
  BY <1>1, <1>2, MaxSectionsAssumption DEF Reading, Smaller
<1>4. out \in Seq(S \cup X) /\ SubSeq(Full, 1, Len(out)) \in Seq(S \cup X)
  BY <1>1, <1>2, <1>3
<1>5. /\ Len(SubSeq(Full, 1, Len(out))) = Len(out)
      /\ \A k \in 1 .. Len(out) : SubSeq(Full, 1, Len(out))[k] = Full[k]
  BY <1>2, <1>3
<1>6. out = SubSeq(Full, 1, Len(out))
  BY <1>4, <1>5, SeqEqual DEF Reading
<1>7. pc = "done" => out = SectionTable(obj, size)
  BY <1>6 DEF Reading, SectionTable, Full
<1> QED
  BY <1>6, <1>7 DEF ReadsTable, Full

THEOREM TableReadInOrder == Spec => []ReadsTable
<1>1. Init => TableIn /\ Reading
  BY TableInit, ReadingInit DEF Init
<1>2. TableIn /\ Reading /\ [Next]_vars => TableIn' /\ Reading'
  BY TableStep, ReadingStep, ScanOnly
<1> QED
  BY <1>1, <1>2, TableRead, PTL DEF Spec

-----------------------------------------------------------------------------
\* The bytes of a section whose range is clamped are those declared, as far as
\* the blob and the limit go.
LEMMA BytesAreDeclared ==
    ASSUME size \in 0 .. UsizeMax, NEW off \in Nat, NEW len \in Nat,
           NEW s, s.data_range = clamp_range(off, len, size)
    PROVE  LET b == section_bytes(s, size)
           IN  Positions(b.off, b.len) = Positions(off, Smaller(len, MaxSectionBytes))
<1> DEFINE range == clamp_range(off, len, size)
           b == section_bytes(s, size)
<1>1. size \in Nat
  BY UsizeMaxAssumption
<1>2. RangeIn(range, off, size)
  BY <1>1, ClampInBlob
<1>3. \A p \in 0 .. size - 1 :
        range # None /\ range.off <= p /\ p < range.off + range.len
          <=> off <= p /\ p < off + Smaller(len, MaxSectionBytes)
  BY ClampIntersects
<1>4. CASE range = None
  <2>1. b = NoBytes
    BY <1>4 DEF section_bytes
  <2>2. Positions(b.off, b.len) = {}
    BY <1>1, <2>1 DEF Positions, NoBytes
  <2>3. Positions(off, Smaller(len, MaxSectionBytes)) = {}
    BY <1>3, <1>4 DEF Positions
  <2> QED
    BY <2>2, <2>3
<1>5. CASE range # None
  <2> HIDE DEF range
  <2>1. range \in [off : Nat, len : Nat] /\ range.off + range.len <= size
    BY <1>2, <1>5 DEF RangeIn
  <2>2. b = [off |-> range.off, len |-> range.len]
    BY <1>1, <1>5, <2>1 DEF section_bytes, Smaller, range
  <2> HIDE DEF b
  <2> QED
    BY <1>3, <1>5, <2>2 DEF Positions, b
<1> QED
  BY <1>4, <1>5

(***************************************************************************)
(* ClampIsIntersection: of every section whose header says it has bytes in *)
(* the file, the blob's part of them is read, up to the limit.             *)
(***************************************************************************)
LEMMA BytesIntersect == TableIn /\ Reading => ClampIsIntersection
<1> SUFFICES ASSUME TableIn, Reading, NEW k \in DOMAIN out,
                    out[k].data_range # None \/ HasFileBytes(k)
             PROVE  LET b == section_bytes(out[k], size)
                    IN  Positions(b.off, b.len)
                          = Positions(out[k].file_off, Smaller(Declared(k), MaxSectionBytes))
  BY DEF ClampIsIntersection
<1>1. obj \in Objects /\ size \in 0 .. UsizeMax /\ SectionIn(out[k], size) /\ k \in 1 .. Len(out)
  BY DEF TableIn, IsTable
<1>2. IsList(Full) /\ Len(Full) \in Nat
  BY <1>1, FullIsList
<1>3. out[k] = Full[k] /\ k \in 1 .. Len(Full)
  <2>1. Len(out) <= Len(Full)
    BY <1>2, MaxSectionsAssumption DEF Reading, Smaller
  <2> QED
    BY <1>1, <1>2, <2>1 DEF Reading
<1>4. out[k].data_range = clamp_range(out[k].file_off, Declared(k), size) /\ Declared(k) \in Nat
  <2>1. CASE obj.format = "elf"
    <3>1. out[k] = elf_section(Headers[k], size)
      BY <1>1, <1>3, <2>1, FullOfElf
    <3>2. HasFileBytes(k) = (Headers[k].type # "nobits") /\ Declared(k) = out[k].size
      BY <2>1 DEF HasFileBytes, Declared
    <3>3. /\ out[k].file_off = Headers[k].offset /\ out[k].size = Headers[k].size
          /\ out[k].data_range = IF Headers[k].type = "nobits" THEN None
                                 ELSE clamp_range(Headers[k].offset, Headers[k].size, size)
      BY <3>1 DEF elf_section, Section
    <3> QED
      BY <1>1, <3>2, <3>3 DEF SectionIn
  <2>2. CASE obj.format = "pe"
    <3>1. out[k] = pe_section(obj.image_base, Headers[k], size) /\ PeHeader(Headers[k])
      BY <1>1, <1>3, <2>2, FullOfPe
    <3>2. /\ HasFileBytes(k) = ("cnt_uninit" \notin Headers[k].flags)
          /\ Declared(k) = Smaller(Headers[k].size_of_raw_data, Headers[k].virtual_size)
      BY <2>2 DEF HasFileBytes, Declared
    <3>3. Declared(k) \in Nat
      BY <3>1, <3>2 DEF PeHeader, Ranged, Smaller
    <3>4. /\ out[k].file_off = Headers[k].pointer_to_raw_data
          /\ out[k].data_range =
               IF "cnt_uninit" \in Headers[k].flags THEN None
               ELSE clamp_range(Headers[k].pointer_to_raw_data,
                      Smaller(Headers[k].size_of_raw_data, Headers[k].virtual_size), size)
      BY <3>1 DEF pe_section, Section
    <3> QED
      BY <3>2, <3>3, <3>4
  <2>3. CASE Segmented
    <3>1. out[k] = mach_section(AllSections[k], size)
      BY <1>1, <1>3, <2>3, FullOfSegments
    <3>2. obj.format # "elf" /\ obj.format # "pe"
      BY <2>3 DEF Segmented
    <3>3. /\ HasFileBytes(k) => AllSections[k].type # "zerofill"
          /\ Declared(k) = out[k].size
      BY <3>2 DEF HasFileBytes, Declared, AllSections
    <3>4. LET h == AllSections[k]
          IN  /\ out[k].file_off = h.offset /\ out[k].size = h.size
              /\ out[k].data_range = IF h.type = "zerofill" THEN None
                                     ELSE clamp_range(h.offset, h.size, size)
      BY <3>1 DEF mach_section, Section
    <3> QED
      BY <1>1, <3>3, <3>4 DEF SectionIn
  <2>4. CASE ~Flat /\ ~Segmented
    BY <1>3, <2>4, FullOfNone
  <2> QED
    BY <2>1, <2>2, <2>3, <2>4 DEF Flat
<1>5. out[k].file_off \in Nat
  BY <1>1 DEF SectionIn
<1> QED
  BY <1>1, <1>4, <1>5, BytesAreDeclared

THEOREM BytesAsDeclared == Spec => []ClampIsIntersection
<1>1. Init => TableIn /\ Reading
  BY TableInit, ReadingInit DEF Init
<1>2. TableIn /\ Reading /\ [Next]_vars => TableIn' /\ Reading'
  BY TableStep, ReadingStep, ScanOnly
<1> QED
  BY <1>1, <1>2, BytesIntersect, PTL DEF Spec

-----------------------------------------------------------------------------
LEMMA EntryType ==
    ASSUME obj \in Objects
    PROVE  probe(obj).entry = None \/ probe(obj).entry \in 0 .. AddrSpace - 1
<1>1. CASE obj.format = "elf"
  BY <1>1, EntriesAssumption DEF probe, ProbeRow
<1>2. CASE obj.format = "pe"
  <2>1. obj.image_base + obj.entry \in Nat
    BY <1>2, EntriesAssumption, HeadersAssumption DEF HeadersRead
  <2> QED
    BY <1>2, <2>1, AddrSpaceAssumption DEF probe, ProbeRow, Wrap
<1>3. CASE obj.format = "macho"
  BY <1>3, EntriesAssumption DEF probe, mach_probe, ProbeRow
<1>4. CASE obj.format = "fat"
  BY <1>4, EntriesAssumption DEF probe, mach_probe, ProbeRow, EmptyProbe
<1>5. CASE obj.format \notin {"elf", "pe", "macho", "fat"}
  BY <1>5 DEF probe, EmptyProbe
<1> QED
  BY <1>1, <1>2, <1>3, <1>4, <1>5

LEMMA FirstIn ==
    ASSUME NEW at, at \subseteq Nat, at # {}
    PROVE  First(at) \in at
<1>1. \E k \in at : \A l \in at : k <= l
  BY LeastNumber
<1> QED
  BY <1>1 DEF First

LEMMA WrapIsIdentity ==
    ASSUME NEW a \in 0 .. AddrSpace - 1
    PROVE  Wrap(a) = a
  BY AddrSpaceAssumption DEF Wrap

(***************************************************************************)
(* EntrySectionFound: an entry address that lies in a section is never     *)
(* reported without one.  Only the last step matters: the table is         *)
(* complete then, and no step follows it.                                  *)
(***************************************************************************)
THEOREM EntryFound == Spec => []EntrySectionFound
<1>1. Init => TableIn /\ EntrySectionFound
  BY TableInit DEF Init, EntrySectionFound
<1>2. TableIn /\ EntrySectionFound /\ [Next]_vars => TableIn' /\ EntrySectionFound'
  <2> SUFFICES ASSUME TableIn, EntrySectionFound, [Next]_vars
               PROVE  EntrySectionFound'
    BY TableStep, ScanOnly
  <2>1. CASE ReturnRaw
    BY <2>1 DEF ReturnRaw, EntrySectionFound, NoEntryPoint, EntryRecord
  <2>2. CASE CallSections
    BY <2>2 DEF CallSections, EntrySectionFound
  <2>3. CASE ScanStep
    BY <2>3 DEF ScanStep, EntrySectionFound
  <2>4. CASE ReturnEntry
    <3> DEFINE va == probe(obj).entry
               at == Containing(va)
    <3>1. entryPoint'.vaddr = va /\ out' = out
      BY <2>4 DEF ReturnEntry, EntryRecord, scanVars
    <3>2. entryPoint'.section = IF at = {} THEN None ELSE out[First(at)].name
      BY <2>4 DEF ReturnEntry, EntryRecord
    <3>3. va # None => va \in 0 .. AddrSpace - 1
      BY EntryType DEF TableIn
    <3>4. DOMAIN out \subseteq Nat /\ \A k \in DOMAIN out : SectionIn(out[k], size)
      BY DEF TableIn, IsTable
    <3>5. ASSUME va # None, at = {}, NEW k \in DOMAIN out, Covers(out[k], va)
          PROVE  va = AddrSpace - 1
      <4>1. ~InSection(va, out[k])
        BY <3>5 DEF Containing
      <4>2. out[k].vaddr \in Nat /\ out[k].size \in Nat
        BY <3>4, AddrSpaceAssumption DEF SectionIn
      <4> QED
        BY <3>3, <3>5, <4>1, <4>2, AddrSpaceAssumption
           DEF InSection, Covers, SaturatingAdd, Smaller
    <3>6. ASSUME at # {} PROVE out[First(at)].name # None
      <4>1. at \subseteq Nat /\ at \subseteq DOMAIN out
        BY <3>4 DEF Containing
      <4>2. First(at) \in at
        BY <3>6, <4>1, FirstIn
      <4> QED
        BY <3>4, <4>1, <4>2 DEF SectionIn
    <3>7. entryPoint'.vaddr # None /\ entryPoint'.section = None =>
            \A k \in DOMAIN out' : Covers(out'[k], entryPoint'.vaddr) =>
              entryPoint'.vaddr = AddrSpace - 1
      <4> HIDE DEF at, va
      <4> QED
        BY <3>1, <3>2, <3>5, <3>6
    <3> QED
      BY <3>7 DEF EntrySectionFound, Covers
  <2>5. CASE UNCHANGED vars
    BY <2>5 DEF vars, scanVars, EntrySectionFound, Covers
  <2> QED
    BY <2>1, <2>2, <2>3, <2>4, <2>5 DEF Next
<1> QED
  BY <1>1, <1>2, PTL DEF Spec
(***************************************************************************)
(* The byte at an offset d into the bytes of a section: the sweep of the   *)
(* section puts it at the address vaddr + d, and FileOff finds it.         *)
(***************************************************************************)
LEMMA FileOffAgrees ==
    ASSUME NEW s, NEW n \in 0 .. AddrSpace, SectionIn(s, n),
           NEW va \in 0 .. AddrSpace - 1, s.vaddr <= va,
           va - s.vaddr < section_bytes(s, n).len
    PROVE  LET code == section_bytes(s, n)
           IN  /\ FileOff(va, s) \in code.off .. code.off + code.len - 1
               /\ Wrap(s.vaddr + (FileOff(va, s) - code.off)) = va
<1> DEFINE code == section_bytes(s, n)
           r == s.data_range
           d == va - s.vaddr
<1>1. n \in Nat /\ AddrSpace \in Nat
  BY AddrSpaceAssumption
<1>2. d \in Nat /\ d < code.len /\ s.vaddr \in Nat
  BY <1>1 DEF SectionIn
<1>3. s.data_range # None
  BY <1>2 DEF section_bytes, NoBytes
<1>4. /\ r \in [off : Nat, len : Nat] /\ r.off = s.file_off
      /\ r.off + r.len <= n
  BY <1>3 DEF SectionIn, RangeIn
<1>5. code.off = r.off /\ code.len = r.len
  BY <1>1, <1>3, <1>4 DEF section_bytes, Smaller
<1> HIDE DEF code
<1>6. s.file_off + d \in 0 .. AddrSpace - 1 /\ s.file_off + d \in r.off .. r.off + r.len - 1
  BY <1>1, <1>2, <1>4, <1>5
<1>7. FileOff(va, s) = s.file_off + d
  BY <1>6, WrapIsIdentity DEF FileOff
<1>8. s.vaddr + (FileOff(va, s) - code.off) = va
  BY <1>1, <1>2, <1>4, <1>5, <1>7
<1>9. Wrap(va) = va
  BY WrapIsIdentity
<1>10. FileOff(va, s) \in code.off .. code.off + code.len - 1
  BY <1>5, <1>6, <1>7
<1> QED
  BY <1>8, <1>9, <1>10 DEF code

(***************************************************************************)
(* EntryAgreesWithSweep: the file offset reported is where the sweep finds *)
(* the byte it lists at the entry address.                                 *)
(***************************************************************************)
THEOREM EntryAgrees == Spec => []EntryAgreesWithSweep
<1>1. Init => TableIn /\ EntryAgreesWithSweep
  BY TableInit DEF Init, EntryAgreesWithSweep, Located
<1>2. TableIn /\ EntryAgreesWithSweep /\ [Next]_vars => TableIn' /\ EntryAgreesWithSweep'
  <2> SUFFICES ASSUME TableIn, EntryAgreesWithSweep, [Next]_vars
               PROVE  EntryAgreesWithSweep'
    BY TableStep, ScanOnly
  <2>1. CASE ReturnRaw
    BY <2>1 DEF ReturnRaw, EntryAgreesWithSweep, Located, NoEntryPoint, EntryRecord
  <2>2. CASE CallSections
    BY <2>2 DEF CallSections, EntryAgreesWithSweep, Located
  <2>3. CASE ScanStep
    BY <2>3 DEF ScanStep, EntryAgreesWithSweep, Located
  <2>4. CASE ReturnEntry /\ entryPoint'.section # None
    <3> DEFINE va == probe(obj).entry
               at == Containing(va)
               k == First(at)
               code == section_bytes(out[k], size)
    <3>1. entryPoint'.vaddr = va /\ out' = out /\ size' = size
      BY <2>4 DEF ReturnEntry, EntryRecord, scanVars
    <3>2. /\ entryPoint'.section = IF at = {} THEN None ELSE out[First(at)].name
          /\ entryPoint'.file_off = IF at = {} THEN None ELSE FileOff(va, out[First(at)])
      BY <2>4 DEF ReturnEntry, EntryRecord
    <3>3. at # {}
      BY <2>4, <3>2
    <3>4. DOMAIN out \subseteq Nat /\ \A l \in DOMAIN out : SectionIn(out[l], size)
      BY DEF TableIn, IsTable
    <3>5. at \subseteq Nat /\ at \subseteq DOMAIN out
      BY <3>4 DEF Containing
    <3>6. k \in at
      BY <3>3, <3>5, FirstIn
    <3>7. va # None /\ InSection(va, out[k]) /\ k \in DOMAIN out
      BY <3>6 DEF Containing
    <3>8. va \in 0 .. AddrSpace - 1
      BY <3>7, EntryType DEF TableIn
    <3> HIDE DEF va, at, k
    <3>9. SectionIn(out[k], size) /\ size \in 0 .. AddrSpace
      BY <3>4, <3>7 DEF TableIn
    <3>10. Covers(out[k], va)
      <4>1. out[k].vaddr \in Nat /\ out[k].size \in Nat
        BY <3>9, AddrSpaceAssumption DEF SectionIn
      <4> QED
        BY <3>7, <3>8, <4>1, AddrSpaceAssumption DEF InSection, Covers, SaturatingAdd, Smaller
    <3>11. va - out[k].vaddr < code.len =>
             /\ FileOff(va, out[k]) \in code.off .. code.off + code.len - 1
             /\ Wrap(out[k].vaddr + (FileOff(va, out[k]) - code.off)) = va
      BY <3>8, <3>9, <3>10, FileOffAgrees DEF Covers
    <3>12. out[k].name = entryPoint'.section /\ FileOff(va, out[k]) = entryPoint'.file_off
      BY <3>2, <3>3 DEF k, at, va
    <3>13. section_bytes(out'[k], size') = code
      BY <3>1
    <3> HIDE DEF code
    <3> QED
      BY <3>1, <3>7, <3>10, <3>11, <3>12, <3>13
         DEF EntryAgreesWithSweep, Covers, section_bytes, Wrap, NoBytes, Smaller
  <2>5. CASE ReturnEntry /\ entryPoint'.section = None
    BY <2>5 DEF EntryAgreesWithSweep, Located
  <2>6. CASE UNCHANGED vars
    BY <2>6 DEF vars, scanVars, EntryAgreesWithSweep, Located, Covers, section_bytes, Wrap,
       NoBytes, Smaller
  <2> QED
    BY <2>1, <2>2, <2>3, <2>4, <2>5, <2>6 DEF Next
<1> QED
  BY <1>1, <1>2, PTL DEF Spec
=============================================================================
