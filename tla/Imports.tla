------------------------------ MODULE Imports ------------------------------
(***************************************************************************)
(* imports.rs without its loops: the row of one imported symbol, and the   *)
(* relation imports() returns.  A symbol is a record of what goblin        *)
(* (external) reads; "" is the empty string, None an entry it cannot read. *)
(***************************************************************************)
EXTENDS Common

CONSTANTS
    OrdinalNames,   \* the names goblin makes up for a PE import without one
    MaxImports      \* limits.rs MAX_IMPORTS

ASSUME MaxImportsAssumption == MaxImports \in Nat

Import(library, name, ordinal, kind) ==
    [library |-> library, name |-> name, ordinal |-> ordinal, kind |-> kind]

\* (!s.is_empty()).then_some(s)
NonEmpty(s) == IF s = "" THEN None ELSE s

-----------------------------------------------------------------------------
\* Which symbols have a row, and which row: a symbol is skipped or listed.
elf_listed(sym) == sym.is_import /\ sym.name \notin {None, ""}
elf_import(sym) == Import(None, sym.name, None, "named")

pe_import(imp) ==
    IF imp.name \in OrdinalNames \cup {""}
    THEN Import(NonEmpty(imp.dll), None, imp.ordinal, "ordinal")
    ELSE Import(NonEmpty(imp.dll), imp.name, imp.ordinal, "named")

mach_import(imp) ==
    Import(NonEmpty(imp.dylib), imp.name, None, IF imp.is_lazy THEN "delayed" ELSE "named")

(***************************************************************************)
(* The rows of a whole container, in the order of its symbols.  A Mach-O   *)
(* whose import list goblin cannot read (None) has none; of a fat          *)
(* container the primary slice is read.                                    *)
(***************************************************************************)
MachImports(macho) ==
    IF macho.imports = None THEN <<>>
    ELSE [k \in DOMAIN macho.imports |-> mach_import(macho.imports[k])]

AllImports(obj) ==
    CASE obj.format = "elf" ->
           LET listed == Chosen(obj.dynsyms, {k \in DOMAIN obj.dynsyms : elf_listed(obj.dynsyms[k])})
           IN  [k \in DOMAIN listed |-> elf_import(listed[k])]
      [] obj.format = "pe"    -> [k \in DOMAIN obj.imports |-> pe_import(obj.imports[k])]
      [] obj.format = "macho" -> MachImports(obj)
      [] obj.format = "fat"   -> IF HasPrimarySlice(obj) THEN MachImports(obj.slices[1]) ELSE <<>>
      [] OTHER -> <<>>

\* imports(blob): the loops stop at MaxImports rows, as out.truncate would.
imports(obj) == SubSeq(AllImports(obj), 1, Smaller(Len(AllImports(obj)), MaxImports))
=============================================================================
