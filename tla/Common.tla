------------------------------- MODULE Common -------------------------------
(***************************************************************************)
(* What the modules of disasm-core share: 64-bit addresses, Rust's None,   *)
(* and the containers goblin (external) parses a blob into.                *)
(*                                                                         *)
(* A container is a record whose field format is "elf", "pe", "macho" or   *)
(* "fat", or "other" for a blob goblin rejects or knows as something else. *)
(* A fat container has the sequence of its slices; a slice that is not a   *)
(* Mach-O has the format "other".                                          *)
(***************************************************************************)
EXTENDS Selection

CONSTANTS
    AddrSpace,  \* number of addresses; the code's u64 makes it 2^64
    None        \* Rust's None, equal to no value

ASSUME AddrSpaceAssumption == AddrSpace \in Nat \ {0}

\* u64 arithmetic on addresses, as wrapping_add and a release build do it.
Wrap(a) == a % AddrSpace

\* s is a list of the program.
IsSeq(s) == s \in Seq({s[k] : k \in DOMAIN s})

Smaller(a, b) == IF a <= b THEN a ELSE b

\* The result of the first rule <<condition, result>> whose condition holds:
\* a chain of if / else if.
FirstRule(rules) ==
    rules[CHOOSE i \in 1 .. Len(rules) :
            rules[i][1] /\ \A j \in 1 .. i - 1 : ~rules[j][1]][2]

\* The first slice of a fat container is the only one read, if it is a Mach-O.
HasPrimarySlice(fat) == fat.slices # <<>> /\ fat.slices[1].format = "macho"
=============================================================================
