--------------------------- MODULE MCDisassemble ---------------------------
(***************************************************************************)
(* Requests on blobs of up to four bytes: raw, without a table, and with   *)
(* one or two sections that overlap, touch, run past the end of the blob,  *)
(* lie anywhere in the address space or have no file bytes.                *)
(***************************************************************************)
EXTENDS Disassemble

Header(name, flags, addr, pos, size) ==
    [name |-> name, type |-> "progbits", flags |-> flags, addr |-> addr,
     offset |-> pos, size |-> size]

Text == <<".text">>
Exec == {"execinstr"}
TextHeaders == {Header(Text, Exec, a, o, s) : a \in {2, 7}, o \in {0, 1}, s \in {3}}
OtherHeaders == {Header(<<".init">>, Exec, 5, 2, 3), Header(<<".data">>, {"write"}, 4, 0, 2),
                 Header(<<"x", ".text">>, {}, 0, 3, 1), Header(<<".bss">>, Exec, 1, 4, 2)}

Elf(sections) ==
    [format |-> "elf", machine |-> "EM_X86_64", big |-> FALSE, is64 |-> TRUE,
     entry |-> 0, sections |-> sections]

Elfs == {Elf(s) : s \in {<<>>} \cup {<<h>> : h \in TextHeaders \cup OtherHeaders}
                         \cup {<<h, g>> : h \in TextHeaders, g \in OtherHeaders}
                         \cup {<<g, h>> : h \in TextHeaders, g \in OtherHeaders}}

Requests == Elfs \cup {[format |-> "other"]}
Archs == {None, "x86", "nonsense"}
Modes == {None}
Bases == {None, 6}
SectionNames == {<<"auto">>, <<"all">>, Text}

Lens == {2}
=============================================================================
