------------------------------- MODULE Worker -------------------------------
(***************************************************************************)
(* The worker around the core: disasm-worker.  Each call is served by a    *)
(* thread that first builds its worker (catalog_name), then resolves the   *)
(* input (arrow_io.rs), calls the core and puts its rows into Arrow        *)
(* columns: table functions (table/*.rs) through a producer that the       *)
(* client asks for batches until there is none, scalar functions           *)
(* (scalar/probe.rs) row by row into one batch.  Threads share the process *)
(* environment and the files, nothing else.  This is the wasm build with   *)
(* its serve threads; the native process builds one worker before all.     *)
(***************************************************************************)
EXTENDS Inputs, Columns, Descent

CONSTANTS
    Calls,              \* calls, each on a thread of its own
    Workloads,          \* what they may ask for: functions from Calls to requests
    EnvNames,           \* values VGI_WORKER_CATALOG_NAME may have, None if unset
    RowsOf(_, _, _),    \* the core: its rows for a function, a blob and arguments
    RawGroups(_, _, _), \* Capstone's groups of an instruction: blob, arguments, row
    AddrSpace           \* number of addresses, 2^64 in the code

ASSUME WorkerAddrSpaceAssumption == AddrSpace \in Nat \ {0}
ASSUME NoneAssumption == None # <<>> /\ None \notin Nat

\* The input of a table function is one constant, that of a scalar a column.
ASSUME WorkloadsAssumption ==
    \A w \in Workloads : \A c \in Calls :
        LET cells == w[c].cells
            args == w[c].args
        IN  /\ Len(cells) \in Nat /\ DOMAIN cells = 1 .. Len(cells)
            /\ \A k \in 1 .. Len(cells) :
                 cells[k].type \in PathTypes => cells[k].value \in DOMAIN Trimmed \cup {None}
            /\ \/ w[c].fn \in DOMAIN TableFunctions /\ Len(cells) = 1
               \/ w[c].fn \in DOMAIN ScalarFunctions
            /\ w[c].fn = "disassemble" => args.base = None \/ args.base \in Int
            /\ w[c].fn = "strings" => args.min_len = None \/ args.min_len \in Int

Group == INSTANCE Groups

VARIABLES
    preset,     \* VGI_WORKER_CATALOG_NAME when the process started
    env,        \* VGI_WORKER_CATALOG_NAME
    name,       \* the name in a thread's catalog
    req,        \* the request: function, input cells (a constant is one), arguments
    pc,         \* where a call is
    i,          \* the cell being looked at
    meta,       \* what std::fs::metadata found at the path of the cell
    bytes,      \* the input a cell was resolved to
    rows,       \* a producer's rows, None once they are taken
    cols,       \* a scalar's array builders
    valid,      \* a scalar's validity bits
    got         \* the rows the client has, read by the advertised names

threadVars == <<preset, env, name>>
callVars == <<req, pc, i, meta, bytes, rows, cols, valid, got>>
vars == <<fs, changes, threadVars, callVars>>

Scalar(c) == req[c].fn \in DOMAIN ScalarFunctions
Adapter(c) == AdapterOf(req[c].fn)

Goto(c, to) == pc' = [pc EXCEPT ![c] = to]
Transition(c, from, to) == pc[c] = from /\ Goto(c, to)

Init ==
    /\ fs \in [Files -> FileStates]
    /\ changes = 0
    /\ preset \in EnvNames
    /\ env = preset
    /\ name = [c \in Calls |-> None]
    /\ req \in Workloads
    /\ pc = [c \in Calls |-> "build"]
    /\ i = [c \in Calls |-> 1]
    /\ meta = [c \in Calls |-> None]
    /\ bytes = [c \in Calls |-> None]
    /\ rows = [c \in Calls |-> None]
    /\ cols = [c \in Calls |-> [k \in DOMAIN Adapter(c).arrays |-> <<>>]]
    /\ valid = [c \in Calls |-> <<>>]
    /\ got = [c \in Calls |-> <<>>]

-----------------------------------------------------------------------------
(***************************************************************************)
(* build_worker and its catalog_name: look, set, read.                     *)
(***************************************************************************)
\* Mutant of LookForName: the variable is set whether it has a value or not.
LookForNameNot(c) ==
    /\ Transition(c, "build", "set name")
    /\ UNCHANGED <<fs, changes, threadVars, req, i, meta, bytes, rows, cols, valid, got>>

LookForName(c) ==
    /\ Transition(c, "build", IF env = None THEN "set name" ELSE "read name")
    /\ UNCHANGED <<fs, changes, threadVars, req, i, meta, bytes, rows, cols, valid, got>>

SetName(c) ==
    /\ Transition(c, "set name", "read name")
    /\ env' = "disasm"
    /\ UNCHANGED <<fs, changes, preset, name, req, i, meta, bytes, rows, cols, valid, got>>

\* std::env::var fails if it is unset; a value that is no Unicode is left out.
ReadName(c) ==
    /\ Transition(c, "read name", "input")
    /\ name' = [name EXCEPT ![c] = IF env = None THEN "disasm" ELSE env]
    /\ UNCHANGED <<fs, changes, preset, env, req, i, meta, bytes, rows, cols, valid, got>>

-----------------------------------------------------------------------------
(***************************************************************************)
(* input_bytes for a cell of a column, const_input_bytes for a constant.   *)
(***************************************************************************)
Cell(c) == req[c].cells[i[c]]
AtCell(c) == pc[c] = "input" /\ i[c] <= Len(req[c].cells)

Resolved(c, b) ==
    /\ bytes' = [bytes EXCEPT ![c] = b]
    /\ Goto(c, "convert")
    /\ UNCHANGED meta

TakeInline(c) ==
    /\ AtCell(c)
    /\ Cell(c).value # None /\ Cell(c).type \in BlobTypes
    /\ Resolved(c, Cell(c).value)
    /\ UNCHANGED <<fs, changes, threadVars, req, i, rows, cols, valid, got>>

NullCell(c) ==
    /\ AtCell(c)
    /\ Cell(c).value = None
    /\ Resolved(c, None)
    /\ UNCHANGED <<fs, changes, threadVars, req, i, rows, cols, valid, got>>

\* input_bytes returns an error; a constant of such a type is no input.
OtherType(c) ==
    /\ AtCell(c)
    /\ Cell(c).value # None /\ Cell(c).type \notin BlobTypes \cup PathTypes
    /\ IF Scalar(c) THEN Goto(c, "failed") /\ UNCHANGED <<meta, bytes>>
                    ELSE Resolved(c, None)
    /\ UNCHANGED <<fs, changes, threadVars, req, i, rows, cols, valid, got>>

\* read_path looks at the file: std::fs::metadata and what is asked of it ...
LookAtFile(c) ==
    /\ AtCell(c)
    /\ Cell(c).value # None /\ Cell(c).type \in PathTypes
    /\ LET f == FileAt(Cell(c).value)
       IN  IF Accepted(f)
           THEN Goto(c, "read file") /\ meta' = [meta EXCEPT ![c] = f] /\ UNCHANGED bytes
           ELSE Resolved(c, None)
    /\ UNCHANGED <<fs, changes, threadVars, req, i, rows, cols, valid, got>>

\* ... and then reads what is there now.
ReadFile(c) ==
    /\ pc[c] = "read file"
    /\ Resolved(c, Contents(FileAt(Cell(c).value)))
    /\ UNCHANGED <<fs, changes, threadVars, req, i, rows, cols, valid, got>>

-----------------------------------------------------------------------------
(***************************************************************************)
(* The arguments the adapters pass to the core.  Numbers come as an i64;   *)
(* base is cast to the u64 of the same bits, min_len to a usize.           *)
(***************************************************************************)
disassemble_args(args) ==
    [args EXCEPT !.base = IF @ = None THEN None ELSE @ % AddrSpace,
                 !.section = IF @ = None THEN "auto" ELSE @]

strings_args(args) ==
    [args EXCEPT !.min_len = IF @ = None \/ @ < 0 THEN 4 ELSE @ % (UsizeMax + 1)]

core_args(r) ==
    CASE r.fn = "disassemble" -> disassemble_args(r.args)
      [] r.fn = "strings"     -> strings_args(r.args)
      [] OTHER                -> r.args

Core(c) == RowsOf(req[c].fn, bytes[c], core_args(req[c]))

\* What a call may take for its input.
InputsOf(r) ==
    Blobs \cup {r.cells[k].value : k \in {j \in DOMAIN r.cells : r.cells[j].type \in BlobTypes}}

\* The core returns a Vec of rows that have the fields the adapters read; format
\* and entrypoint return one row.
CoreRows(list, fn) ==
    /\ list # None /\ list \in Seq({list[k] : k \in DOMAIN list})
    /\ \A k \in DOMAIN list : list[k] = [f \in FieldsOf(fn) |-> list[k][f]]
    /\ fn \in DOMAIN ScalarFunctions => Len(list) = 1

ASSUME RowsAssumption ==
    \A w \in Workloads : \A c \in Calls : \A b \in InputsOf(w[c]) \ {None} :
        CoreRows(RowsOf(w[c].fn, b, core_args(w[c])), w[c].fn)

\* sweep_into gives every row of disassemble the groups normalize_all makes.
ASSUME GroupsAssumption ==
    \A w \in Workloads : \A c \in Calls : \A b \in InputsOf(w[c]) \ {None} :
        w[c].fn = "disassemble" =>
            LET args == core_args(w[c])
                list == RowsOf("disassemble", b, args)
            IN  \A k \in DOMAIN list :
                  /\ DOMAIN RawGroups(b, args, k) = 1 .. Len(RawGroups(b, args, k))
                  /\ Len(RawGroups(b, args, k)) \in Nat
                  /\ list[k].groups = Group!normalize_all(RawGroups(b, args, k))

(***************************************************************************)
(* What the client reads: the k-th column under the k-th advertised name,  *)
(* nothing if the column has not the advertised type.  Only the metadata   *)
(* of table functions advertises types.                                    *)
(***************************************************************************)
AdvertisedName(c, k) ==
    IF Scalar(c) THEN Adapter(c).result[k] ELSE Adapter(c).result[k][1]

AsAdvertised(c, k) ==
    Scalar(c) \/ SqlType[Adapter(c).schema[k][2]] = Adapter(c).result[k][2]

ReadByName(c, row) ==
    [n \in {AdvertisedName(c, k) : k \in DOMAIN Adapter(c).result} |->
       LET k == CHOOSE j \in DOMAIN row : AdvertisedName(c, j) = n
       IN  IF AsAdvertised(c, k) THEN row[k] ELSE None]

\* The values of a core row in the order of the arrays.
ArrayValues(c, row) ==
    [k \in DOMAIN Adapter(c).arrays |-> row[Adapter(c).arrays[k][1]]]

\* RecordBatch::try_new and StructArray::new (external): types have to agree.
TypesAgree(c) == TypesOf(Adapter(c).arrays) = TypesOf(Adapter(c).schema)

-----------------------------------------------------------------------------
(***************************************************************************)
(* Table functions: producer() calls the core once, next_batch() builds    *)
(* one batch of all the rows.                                              *)
(***************************************************************************)
Produce(c) ==
    /\ Transition(c, "convert", "batches") /\ ~Scalar(c)
    /\ rows' = [rows EXCEPT ![c] = IF bytes[c] = None THEN <<>> ELSE Core(c)]
    /\ i' = [i EXCEPT ![c] = @ + 1]
    /\ UNCHANGED <<fs, changes, threadVars, req, meta, bytes, cols, valid, got>>

Batch(c) == [r \in DOMAIN rows[c] |-> ReadByName(c, ArrayValues(c, rows[c][r]))]

\* Mutant of NextBatch: the rows are not taken out of the producer.
NextBatchAgain(c) ==
    /\ pc[c] = "batches" /\ rows[c] # None
    /\ TypesAgree(c)
    /\ got' = [got EXCEPT ![c] = Batch(c)]
    /\ UNCHANGED <<fs, changes, threadVars, req, pc, i, meta, bytes, rows, cols, valid>>

NextBatch(c) ==
    /\ pc[c] = "batches" /\ rows[c] # None
    /\ rows' = [rows EXCEPT ![c] = None]
    /\ IF TypesAgree(c)
       THEN got' = [got EXCEPT ![c] = @ \o Batch(c)] /\ UNCHANGED pc
       ELSE Goto(c, "failed") /\ UNCHANGED got
    /\ UNCHANGED <<fs, changes, threadVars, req, i, meta, bytes, cols, valid>>

NoMoreBatches(c) ==
    /\ Transition(c, "batches", "done")
    /\ rows[c] = None
    /\ UNCHANGED <<fs, changes, threadVars, req, i, meta, bytes, rows, cols, valid, got>>

-----------------------------------------------------------------------------
(***************************************************************************)
(* Scalar functions: process() appends to every builder for every cell.    *)
(***************************************************************************)
AppendTo(c, values, bit) ==
    /\ cols' = [cols EXCEPT ![c] = [k \in DOMAIN @ |-> Append(@[k], values[k])]]
    /\ valid' = [valid EXCEPT ![c] = Append(@, bit)]
    /\ i' = [i EXCEPT ![c] = @ + 1]

AppendRow(c) ==
    /\ Transition(c, "convert", "input") /\ Scalar(c)
    /\ bytes[c] # None
    /\ AppendTo(c, ArrayValues(c, Core(c)[1]), TRUE)
    /\ UNCHANGED <<fs, changes, threadVars, req, meta, bytes, rows, got>>

AppendNull(c) ==
    /\ Transition(c, "convert", "input") /\ Scalar(c)
    /\ bytes[c] = None
    /\ AppendTo(c, [k \in DOMAIN cols[c] |-> None], FALSE)
    /\ UNCHANGED <<fs, changes, threadVars, req, meta, bytes, rows, got>>

\* The rows in a scalar's builders; a row that is not valid is NULL.
Built(c) ==
    [r \in DOMAIN valid[c] |->
       IF valid[c][r] THEN ReadByName(c, [k \in DOMAIN cols[c] |-> cols[c][k][r]]) ELSE None]

ReturnColumn(c) ==
    /\ pc[c] = "input" /\ Scalar(c)
    /\ i[c] > Len(req[c].cells)
    /\ IF TypesAgree(c) /\ \A k \in DOMAIN cols[c] : Len(cols[c][k]) = Len(valid[c])
       THEN Goto(c, "done") /\ got' = [got EXCEPT ![c] = Built(c)]
       ELSE Goto(c, "failed") /\ UNCHANGED got
    /\ UNCHANGED <<fs, changes, threadVars, req, i, meta, bytes, rows, cols, valid>>

-----------------------------------------------------------------------------
Build(c) == LookForName(c) \/ SetName(c) \/ ReadName(c)
Resolve(c) == TakeInline(c) \/ NullCell(c) \/ OtherType(c) \/ LookAtFile(c) \/ ReadFile(c)
Table(c) == Produce(c) \/ NextBatch(c) \/ NoMoreBatches(c)
Process(c) == AppendRow(c) \/ AppendNull(c) \/ ReturnColumn(c)

Step(c) == Build(c) \/ Resolve(c) \/ Table(c) \/ Process(c)

FilesChange == Change /\ UNCHANGED <<threadVars, callVars>>

Next == FilesChange \/ \E c \in Calls : Step(c)

Spec == Init /\ [][Next]_vars /\ \A c \in Calls : WF_vars(Step(c))

-----------------------------------------------------------------------------
(***************************************************************************)
(* The answers of every call are those of Snapshots: each cell is looked   *)
(* at at one instant, although the file may change between the two steps   *)
(* of read_path and from one cell to the next; its rows reach the client   *)
(* once, in order, every field under the name it is advertised with, NULLs *)
(* in their places; and nothing but an input of another type is an error.  *)
(***************************************************************************)
Delivered(c) == pc[c] = "done" \/ (pc[c] = "batches" /\ rows[c] = None)

AbstractPhase(c) ==
    CASE pc[c] = "failed" -> "failed"
      [] Delivered(c)     -> "done"
      [] OTHER            -> "reading"

\* A cell counts as looked at once its input is resolved; its rows follow a step later.
Converting(c) == pc[c] = "convert"

RowsSoFar(c) ==
    IF Scalar(c) THEN Built(c)
    ELSE IF rows[c] # None THEN rows[c] ELSE got[c]

RowsToCome(c) ==
    IF ~Converting(c) THEN <<>>
    ELSE IF bytes[c] # None THEN Core(c)
    ELSE IF Scalar(c) THEN <<None>> ELSE <<>>

NextCell(c) == IF Converting(c) THEN i[c] + 1 ELSE i[c]
RowsSeen(c) == RowsSoFar(c) \o RowsToCome(c)

Promise == INSTANCE Snapshots WITH
    Scalars <- DOMAIN ScalarFunctions,
    next <- [c \in Calls |-> NextCell(c)],
    rows <- [c \in Calls |-> RowsSeen(c)],
    phase <- [c \in Calls |-> AbstractPhase(c)]

SnapshotSpec == Promise!Spec

(***************************************************************************)
(* What the comment of read_path says: what it reads of a path is bounded  *)
(* by MAX_SCAN_BYTES, and a file that is too large yields None.  It looks  *)
(* at the size and then reads all there is, so a file that grows between   *)
(* the two steps is read beyond the bound.                                 *)
(***************************************************************************)
ReadBounded ==
    \A c \in Calls :
        Converting(c) /\ bytes[c] # None /\ Cell(c).type \in PathTypes =>
            SizeOf(bytes[c]) <= MaxScanBytes

(***************************************************************************)
(* However the threads interleave on the environment, every worker serves  *)
(* the catalog under the preset name, or else under disasm.                *)
(***************************************************************************)
OneCatalogName ==
    \A c \in Calls : name[c] # None => name[c] = IF preset = None THEN "disasm" ELSE preset

(***************************************************************************)
(* Every instruction a client reads has the groups Capstone put it in:     *)
(* each name of the vocabulary once, in Capstone's order, and no other.    *)
(***************************************************************************)
GroupsNormalized ==
    \A c \in Calls : req[c].fn = "disassemble" =>
        \A k \in DOMAIN got[c] :
            Group!IsNormalized(got[c][k].groups, RawGroups(bytes[c], core_args(req[c]), k))

(***************************************************************************)
(* Every call comes to its end: the client that asks for batches until     *)
(* there is none is told so, and no row of a column stops the others.      *)
(***************************************************************************)
CallsAnswered == \A c \in Calls : <>(pc[c] \in {"done", "failed"})

(***************************************************************************)
(* Why it does, whatever the other calls and the files do: a step of a     *)
(* call leaves it less to do, and no other step gives it anything to do    *)
(* again.                                                                  *)
(***************************************************************************)
BuildLeft(c) ==
    CASE pc[c] = "build" -> 3 [] pc[c] = "set name" -> 2 [] pc[c] = "read name" -> 1
      [] OTHER -> 0

CellsLeft(c) == Len(req[c].cells) + 1 - i[c]

CellLeft(c) ==
    CASE pc[c] = "input" -> 3 [] pc[c] = "read file" -> 2 [] pc[c] = "convert" -> 1
      [] pc[c] = "batches" -> IF rows[c] = None THEN 1 ELSE 2
      [] OTHER -> 0

Left(c) == <<BuildLeft(c), CellsLeft(c), CellLeft(c)>>

Advances(c) ==
    /\ Below(Left(c)', Left(c), 3)
    /\ \A d \in Calls \ {c} : Left(d)' = Left(d)

CallsAdvance == [][UNCHANGED callVars \/ \E c \in Calls : Advances(c)]_vars
=============================================================================
