---------------------------- MODULE MCEntryPoint ----------------------------
(***************************************************************************)
(* Tables of up to three headers, one more than MaxSections, that place    *)
(* their bytes before, across and behind the end of the blob; and smaller  *)
(* tables all over the address space, with every entry point.              *)
(***************************************************************************)
EXTENDS EntryPoint

UpTo(n, S) == UNION {[1 .. k -> S] : k \in 0 .. n}

ElfSet(tables, entries) ==
    [format : {"elf"}, machine : {"EM_X86_64"}, big : {FALSE}, is64 : {TRUE},
     entry : entries, sections : tables]
PeSet(tables) ==
    [format : {"pe"}, machine : {"AMD64"}, is64 : {TRUE}, image_base : {0, 5},
     entry : {0, 1, 6}, sections : tables]
\* start and length say where a slice of a fat container lies in the blob.
MachoSet(segmentLists) ==
    [format : {"macho"}, cputype : {"ARM64"}, big : {FALSE}, is64 : {TRUE}, entry : {0},
     segments : segmentLists, start : {2}, length : {2}]

-----------------------------------------------------------------------------
\* Any two headers, and any table of three from a handful.
ElfHeaders == [name : {<<".text">>, <<".debug_info">>}, type : {"progbits", "nobits"},
               flags : {{"execinstr"}, {"write"}, {}}, addr : {0}, offset : {0, 2, 6},
               size : {0, 2, 6}]
FewElfHeaders == {h \in ElfHeaders : h.flags = {} /\ h.size # 2 /\ h.offset # 0}
Elfs == ElfSet(UpTo(2, ElfHeaders) \cup UpTo(3, FewElfHeaders), {0})

PeHeaders == [name : {<<".text">>, <<".rdata">>},
              flags : {{"cnt_code"}, {"mem_write"}, {"cnt_uninit"}},
              virtual_address : {0, 5}, virtual_size : {1, 3}, size_of_raw_data : {0, 2, 6},
              pointer_to_raw_data : {0, 3}]
Pes == PeSet(UpTo(1, PeHeaders))

MachHeaders == [name : {<<"__TEXT", "__text">>, <<"__DATA", "__bss">>},
                type : {"regular", "zerofill"}, flags : {{}, {"some_instructions"}},
                addr : {0}, offset : {0, 3}, size : {1, 6}]
FewMachHeaders == {h \in MachHeaders : h.flags = {} /\ h.type = "regular" /\ h.size = 1}
MachSegments == [readable : BOOLEAN, sections : UpTo(1, MachHeaders) \cup UpTo(2, FewMachHeaders)]
SomeSegments == [readable : BOOLEAN, sections : UpTo(2, FewMachHeaders)]
Machos == MachoSet(UpTo(1, MachSegments) \cup UpTo(2, SomeSegments))

Other == [format |-> "other"]
\* The primary slice comes first; what follows it is not looked at.
Fats == {[format |-> "fat", slices |-> s] : s \in
            {<<>>, <<Other>>} \cup {<<m, Other>> : m \in MachoSet([1 .. 1 -> MachSegments])}}

\* Sections anywhere in the address space, overlapping ones too, and every entry.
PlacedHeaders == [name : {<<".text">>, <<".init">>}, type : {"progbits", "nobits"}, flags : {{}},
                  addr : {0, 3, 6}, offset : {1}, size : {2, 4}]
PlacedElfs == ElfSet(UpTo(2, PlacedHeaders), 0 .. AddrSpace - 1)

-----------------------------------------------------------------------------
\* A thread-local __bss: no file bytes, of a type mach_sections does not know.
GbHeader == [name |-> <<"__DATA", "__bss">>, type |-> "gb_zerofill", flags |-> {},
             addr |-> 0, offset |-> 0, size |-> 2]
GbMachos == MachoSet({<<[readable |-> TRUE, sections |-> <<h, GbHeader>>]>> : h \in MachHeaders})

AllObjects == Elfs \cup Pes \cup Machos \cup Fats \cup PlacedElfs \cup {Other}
MachObjects == Machos \cup GbMachos
FatsInFile == {f \in Fats : f.slices # <<>> /\ f.slices[1].format = "macho"}
Sizes == {0, 1, 4}
FullSize == {4}
=============================================================================
