------------------------------ MODULE MCWorker ------------------------------
(***************************************************************************)
(* Two calls on two threads and one file, which may be missing, small, of  *)
(* the largest size that is scanned, larger, or so large that its length   *)
(* is small again as a usize; readable or not.  The core's rows are named  *)
(* by what they are of, so that a row or field in a wrong place shows.     *)
(***************************************************************************)
EXTENDS Worker, TLC

\* A blob is named by its size.
BlobSize(b) == b
Limit == 2
Large == 3
Huge == 6           \* 6 % (4 + 1) = 1
FileBlobs == {Limit, Large, Huge}

\* The names Capstone gives the groups of each instruction of a blob; Various has
\* an instruction for every list of three of four: kept, renamed, merged, dropped.
Various == 4
GroupNames == <<"call", "int", "iret", "mode64">>
Digit(k, j) == (k \div 4^(j - 1)) % 4
Raw ==
    Limit :> <<<<"sse2", "call", "AVX512">>, <<>>>> @@ Large :> <<<<"jump">>>> @@ Huge :> <<<<"vm">>>>
      @@ Various :> [k \in 1 .. 64 |-> [j \in 1 .. 3 |-> GroupNames[Digit(k, j) + 1]]]

PathArgs == [p \in {"f", " f ", " "} |-> IF p = " " THEN "" ELSE "f"]

-----------------------------------------------------------------------------
\* The fields of the core's rows: Insn, Section, Import, StringHit, Capability, ...
CoreFields ==
    [disassemble  |-> {"address", "size", "bytes", "mnemonic", "op_str", "groups"},
     sections     |-> {"name", "kind", "vaddr", "size", "file_off", "exec", "entropy"},
     imports      |-> {"library", "name", "ordinal", "kind"},
     strings      |-> {"offset", "encoding", "value"},
     capabilities |-> {"rule", "attack_id", "attack_name", "severity", "evidence"},
     format       |-> {"container", "arch", "mode", "bits", "endian", "entry"},
     entrypoint   |-> {"arch", "mode", "vaddr", "file_off", "section"}]

Value(b, r, f, args) == [of |-> b, row |-> r, field |-> f, args |-> args]

CoreRow(fn, b, args, r) ==
    [f \in CoreFields[fn] |-> IF f = "groups" THEN Group!normalize_all(Raw[b][r])
                              ELSE Value(b, r, f, args)]

RawOfRow(b, args, r) == Raw[b][r]

RowsOfCore(fn, b, args) ==
    IF fn \in {"format", "entrypoint"} THEN <<CoreRow(fn, b, args, 1)>>
    ELSE [r \in DOMAIN Raw[b] |-> CoreRow(fn, b, args, r)]

-----------------------------------------------------------------------------
Bytes(b) == [type |-> "Binary", value |-> b]
Path(p) == [type |-> "Utf8", value |-> p]
Null(type) == [type |-> type, value |-> None]
Number == [type |-> "Int64", value |-> 7]

NoArgs == [none |-> None]
ArgsOf(fn) ==
    CASE fn = "disassemble" ->
           [arch : {"x86"}, mode : {"x64"}, base : {None, -1, 3}, section : {None, "all"}]
      [] fn = "strings" -> [min_len : {None, -1, 2, 7}]
      [] OTHER -> {NoArgs}

SomeArgsOf(fn) == {CHOOSE a \in ArgsOf(fn) : TRUE}

Requests(fns, cells, args(_)) ==
    UNION {[fn : {fn}, cells : cells, args : args(fn)] : fn \in fns}

TableNames == DOMAIN TableFunctions
ScalarNames == DOMAIN ScalarFunctions

Constant == {<<c>> : c \in {Bytes(Limit), Bytes(Large), Path(" f "), Path(" "),
                            Null("Utf8"), Number}}
Column == {<<>>, <<Path("f"), Path("f"), Path("f")>>, <<Null("Utf8"), Path(" f "), Path(" ")>>,
           <<Null("Int64"), Number>>, <<Null("Int64"), Null("Int64")>>}

\* One call of any kind next to one that ends at once, two calls on the file,
\* and calls whose instructions have any groups.
Idle == [fn |-> "format", cells |-> <<>>, args |-> NoArgs]
Alone ==
    Requests(TableNames, {<<Bytes(Limit)>>}, ArgsOf) \cup Requests({"imports"}, Constant, ArgsOf)
      \cup Requests(ScalarNames, {<<Bytes(Limit), Null("Binary"), Bytes(Large)>>}, ArgsOf)
      \cup Requests({"entrypoint"}, Column, ArgsOf)
Grouped == Requests({"disassemble"}, {<<Bytes(Various)>>}, SomeArgsOf)
OnFile == Requests({"sections"}, {<<Path("f")>>}, ArgsOf)
            \cup Requests({"format"}, {<<Path("f"), Path("f")>>}, ArgsOf)

Pairs(first, second) == {<<r, s>> : r \in first, s \in second}
OnFilePairs == Pairs(OnFile, OnFile)
Mix == Pairs(Alone \cup Grouped, {Idle}) \cup OnFilePairs

=============================================================================
