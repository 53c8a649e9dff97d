---------------------------- MODULE Capabilities ----------------------------
(***************************************************************************)
(* capabilities::capabilities: the import names, the strings and the       *)
(* instructions of a blob are matched one after another against the        *)
(* mapping tables, and every match is pushed into one capped output        *)
(* without duplicates.                                                     *)
(*                                                                         *)
(* The three signals are what imports(), strings() and disassemble()       *)
(* return for the blob (Imports, Strings, Disassemble); here a string is   *)
(* the set of patterns its lower-cased value contains and the evidence     *)
(* truncate_evidence makes of it, which long strings may share, and an     *)
(* instruction is its mnemonic, with the operand of an int.                *)
(***************************************************************************)
EXTENDS Imports, Functions

CONSTANTS
    ApiMap,         \* mappings.rs API_MAP: a sequence of [pattern, rule]
    StringMap,      \* mappings.rs STRING_MAP
    LowerCase,      \* function from import names to their lower case
    Objects,        \* the containers
    StringLists,    \* what strings() may return: sequences of [patterns, evidence]
    Listings,       \* what disassemble() may return: sequences of mnemonics
    MaxCapabilities \* limits.rs MAX_CAPABILITIES

HasSymbols(macho) == macho.imports = None \/ IsSeq(macho.imports)

ASSUME MaxCapabilitiesAssumption == MaxCapabilities \in Nat
ASSUME ListsAssumption ==
    /\ IsSeq(ApiMap) /\ IsSeq(StringMap)
    /\ \A s \in StringLists \cup Listings : IsSeq(s)
    /\ \A o \in Objects :
         /\ o.format = "elf" => IsSeq(o.dynsyms)
         /\ o.format = "pe" => IsSeq(o.imports)
         /\ o.format = "macho" => HasSymbols(o)
         /\ o.format = "fat" /\ HasPrimarySlice(o) => HasSymbols(o.slices[1])

VARIABLES
    obj, hits, insns,   \* the blob, as the three functions see it; fixed
    out, seen,          \* the rows, and the keys of the rows pushed so far
    saw,                \* the anti-analysis patterns seen in the listing
    i,                  \* the next import, string, instruction or pattern
    j,                  \* the next entry of the mapping table for it
    phase               \* "imports", "strings", "insns", "patterns", "done"

vars == <<obj, hits, insns, out, seen, saw, i, j, phase>>
inputs == <<obj, hits, insns>>

Capability(rule, evidence) == [rule |-> rule, evidence |-> evidence]

(***************************************************************************)
(* The closure push: nothing is pushed into a full output, or twice.  seen *)
(* holds the keys (rule, evidence), which is all a row consists of here.   *)
(***************************************************************************)
Full == Len(out) >= MaxCapabilities
Pushed(cap) == out' = Append(out, cap) /\ seen' = seen \cup {cap}
NotPushed == UNCHANGED <<out, seen>>

\* Mutants of push: rows are compared by their evidence; the cap is not tested;
\* two rows may have one key.
push_by_evidence(cap) ==
    IF Full \/ \E s \in seen : s.evidence = cap.evidence THEN NotPushed ELSE Pushed(cap)

push_uncapped(cap) == IF cap \in seen THEN NotPushed ELSE Pushed(cap)

push_again(cap) == IF Full THEN NotPushed ELSE Pushed(cap)

push(cap) == IF Full \/ cap \in seen THEN NotPushed ELSE Pushed(cap)

\* if test { push(cap) }
PushIf(test, cap) == IF test THEN push(cap) ELSE NotPushed

\* entry.0.eq_ignore_ascii_case(name), for an import that has a name
SameName(entry, imp) == imp.name # None /\ LowerCase[entry.pattern] = LowerCase[imp.name]

\* hay.contains(entry.0)
Contained(entry, hit) == entry.pattern \in hit.patterns

\* The four anti-analysis patterns, in the order they are pushed.
Patterns == <<[insns |-> {"rdtsc", "rdtscp"}, row |-> Capability("antivm:rdtsc_timing", "rdtsc")],
              [insns |-> {"cpuid"}, row |-> Capability("antivm:cpuid_check", "cpuid")],
              [insns |-> {"int3"}, row |-> Capability("antidbg:int3", "int3")],
              [insns |-> {"int 0x2d"}, row |-> Capability("antidbg:int_0x2d", "int 0x2d")]>>

-----------------------------------------------------------------------------
Init ==
    /\ obj \in Objects
    /\ hits \in StringLists
    /\ insns \in Listings
    /\ out = <<>>
    /\ seen = {}
    /\ saw = {}
    /\ i = 1
    /\ j = 1
    /\ phase = "imports"

\* for imp in imports(bytes) { .. for entry in API_MAP { .. push .. } }
MatchImport ==
    /\ phase = "imports"
    /\ i <= Len(imports(obj)) /\ imports(obj)[i].name # None
    /\ j <= Len(ApiMap)
    /\ LET imp == imports(obj)[i]
       IN  PushIf(SameName(ApiMap[j], imp), Capability(ApiMap[j].rule, imp.name))
    /\ j' = j + 1
    /\ UNCHANGED <<inputs, saw, i, phase>>

\* The end of the inner loop, or let Some(name) = .. else { continue };
NextImport ==
    /\ phase = "imports"
    /\ i <= Len(imports(obj))
    /\ j > Len(ApiMap) \/ imports(obj)[i].name = None
    /\ i' = i + 1
    /\ j' = 1
    /\ UNCHANGED <<inputs, out, seen, saw, phase>>

NoMoreImports ==
    /\ phase = "imports"
    /\ i > Len(imports(obj))
    /\ i' = 1
    /\ j' = 1
    /\ phase' = "strings"
    /\ UNCHANGED <<inputs, out, seen, saw>>

\* for hit in strings(bytes, 4) { .. for entry in STRING_MAP { .. push .. } }
MatchString ==
    /\ phase = "strings"
    /\ i <= Len(hits)
    /\ j <= Len(StringMap)
    /\ PushIf(Contained(StringMap[j], hits[i]), Capability(StringMap[j].rule, hits[i].evidence))
    /\ j' = j + 1
    /\ UNCHANGED <<inputs, saw, i, phase>>

NextString ==
    /\ phase = "strings"
    /\ i <= Len(hits)
    /\ j > Len(StringMap)
    /\ i' = i + 1
    /\ j' = 1
    /\ UNCHANGED <<inputs, out, seen, saw, phase>>

NoMoreStrings ==
    /\ phase = "strings"
    /\ i > Len(hits)
    /\ i' = 1
    /\ phase' = "insns"
    /\ UNCHANGED <<inputs, out, seen, saw, j>>

\* for insn in &insns { match mnemonic { .. => saw_rdtsc = true, .. } }
LookAtInsn ==
    /\ phase = "insns"
    /\ i <= Len(insns)
    /\ saw' = saw \cup {k \in DOMAIN Patterns : insns[i] \in Patterns[k].insns}
    /\ i' = i + 1
    /\ UNCHANGED <<inputs, out, seen, j, phase>>

NoMoreInsns ==
    /\ phase = "insns"
    /\ i > Len(insns)
    /\ i' = 1
    /\ phase' = "patterns"
    /\ UNCHANGED <<inputs, out, seen, saw, j>>

\* if saw_rdtsc { push(..) } if saw_cpuid ..
PushPatternUnseen ==    \* mutant of PushPattern: the flag is not tested
    /\ phase = "patterns"
    /\ i <= Len(Patterns)
    /\ push(Patterns[i].row)
    /\ i' = i + 1
    /\ UNCHANGED <<inputs, saw, j, phase>>

PushPattern ==
    /\ phase = "patterns"
    /\ i <= Len(Patterns)
    /\ PushIf(i \in saw, Patterns[i].row)
    /\ i' = i + 1
    /\ UNCHANGED <<inputs, saw, j, phase>>

Return ==
    /\ phase = "patterns"
    /\ i > Len(Patterns)
    /\ phase' = "done"
    /\ UNCHANGED <<inputs, out, seen, saw, i, j>>

Next ==
    \/ MatchImport \/ NextImport \/ NoMoreImports
    \/ MatchString \/ NextString \/ NoMoreStrings
    \/ LookAtInsn \/ NoMoreInsns
    \/ PushPattern \/ Return

Spec == Init /\ [][Next]_vars

-----------------------------------------------------------------------------
(***************************************************************************)
(* MAX_CAPABILITIES bounds the rows of all three signals together.         *)
(***************************************************************************)
CapabilitiesBounded == Len(out) <= MaxCapabilities

(***************************************************************************)
(* No two rows have the same rule and evidence, although an import may be  *)
(* listed twice, long strings may be cut to the same evidence, and a       *)
(* string row may name what an import row names; and seen, which is kept   *)
(* beside the output to tell, holds what the output holds.                 *)
(***************************************************************************)
NoDuplicates == IsInjective(out) /\ seen = Range(out)

(***************************************************************************)
(* What the blob shows, told without loops: an import of a known name in   *)
(* any spelling, a string that contains a pattern, an instruction.         *)
(***************************************************************************)
ImportRows(imp) ==
    {Capability(e.rule, imp.name) : e \in {f \in Range(ApiMap) : SameName(f, imp)}}
ImportSignals == UNION {ImportRows(imp) : imp \in Range(imports(obj))}

StringRows(hit) ==
    {Capability(e.rule, hit.evidence) : e \in {f \in Range(StringMap) : Contained(f, hit)}}
StringSignals == UNION {StringRows(hit) : hit \in Range(hits)}

InsnSignals ==
    {Patterns[k].row : k \in {l \in DOMAIN Patterns : Patterns[l].insns \cap Range(insns) # {}}}

Signals == ImportSignals \cup StringSignals \cup InsnSignals

(***************************************************************************)
(* Every row is a signal of the blob, and every signal has a row when the  *)
(* matcher returns: one is missing only if the output is full, and then no *)
(* row of a later kind was pushed before it (imports come first, strings   *)
(* before instructions), so instruction patterns are what a full output    *)
(* loses first.                                                            *)
(***************************************************************************)
RowsAreSignals == Range(out) \subseteq Signals

SignalsReported ==
    phase = "done" =>
        /\ Len(out) < MaxCapabilities => Signals \subseteq Range(out)
        /\ Range(out) \ ImportSignals # {} => ImportSignals \subseteq Range(out)
        /\ Range(out) \ (ImportSignals \cup StringSignals) # {} => StringSignals \subseteq Range(out)
=============================================================================
