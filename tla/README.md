# vgi-disasm in TLA+

TLA+ modules, TLC runs and TLAPS proofs for the disassembler in `src/`: the
sweep that turns machine code into rows, the container readers that decide what
it is run on, the signal matchers built on top of them, and the worker that brings
their rows to a database. `PROJECT.json`
lists the runs, the mutants that show each property can fail, the lines each
definition stands for, the findings, the hazards and the theorems.

The modules are checked with `tlc -config MCLinearSweep.cfg MCLinearSweep` (and
so on), the proofs with `tlapm LinearSweepProofs.tla` and likewise for the other
modules whose names end in `Proofs`.

## 1. The system

`disasm-core` is a library of functions from a blob (bytes) to rows.
`disasm-worker` exposes them as SQL table and scalar functions over Arrow,
`disasm-wasm` is another entry to the same worker. No state of the core outlives
a call and nothing runs concurrently inside one. What is hard there is
sequential: nested loops that share an index, caps tested in several places,
declared offsets and sizes that lie, and results of one part used as input of
another that has its own idea of an address. What is hard in the worker is what
calls share with others: files that change while they are looked at and read, the
environment that serve threads set, and the agreement, position by position, of
builders, columns, schemas and documentation that no type checks.

| component | source | state during a call | operations | correct when |
|---|---|---|---|---|
| linear sweep | `engine.rs` | output rows, offset, Capstone's batch, bytes consumed | decode a batch, copy rows, emit a bad byte, advance | rows tile the slice, are what decodes there, never exceed `MAX_INSNS`; it returns |
| probe, arch resolution, handle | `probe.rs`, `engine.rs` | selection, handle | sniff a header, resolve arguments, build | the decoder is the one the header or the arguments ask for |
| section table | `sections.rs` | output, position in nested loops | read ELF, PE, Mach-O headers; clamp | table order, capped, every byte range inside the blob |
| disassemble request | `sweep.rs` | regions, region index, shared output | resolve, select, build, sweep each | the answer is the listing of the selected regions |
| entry point | `entrypoint.rs` | none | probe, scan, locate | agrees with the sections and the sweep |
| strings | `strings.rs` | current run, index, output | ASCII scan, UTF-16LE scan | exactly the longest printable runs, capped |
| imports | `imports.rs` | output | read ELF, PE, Mach-O imports | one row for each imported symbol, capped |
| capabilities | `capabilities.rs` | output, keys seen, flags | match imports, strings, instructions | the rows are the signals, without duplicates, capped |
| instruction groups | `groups.rs` | output list | rename, drop, de-duplicate | each group once, in Capstone's order |
| mapping tables, limits | `mappings.rs`, `limits.rs` | none | data | |
| table functions | `disasm-worker/src/table` | rows not yet returned | bind, call the core, give one batch | the core's rows, once, each field under its name |
| scalar functions | `disasm-worker/src/scalar` | array builders, validity bits | one row for each cell | rows and NULLs in the places of their cells |
| input | `arrow_io.rs` | what was seen of a file | take bytes, look at a file, read it | one state of the file, bounded by `MAX_SCAN_BYTES` (which fails, see 4) |
| catalog, wasm | `lib.rs`, `meta.rs`, `main.rs`, `disasm-wasm` | the process environment | build a worker, name its catalog, advertise | one name; what is advertised is accepted |
| packaging | scripts | none | | |

How they interact: `disassemble` calls probe, sections, build and then one sweep
per region into one output; `entrypoint` calls probe and sections;
`capabilities` calls imports, strings and `disassemble`. All calls are
synchronous. The worker resolves the input of a call and its arguments, calls one
function of the core and puts its rows into Arrow columns. The native process
builds one worker; in the browser every serve thread builds its own
(`vgi::wasm_worker!`), and all of them name their catalog through one variable of
the environment. Files belong to other processes.

## 2. Modules

| module | models | state and actions |
|---|---|---|
| `Common` | 64-bit addresses, None, containers as goblin parses them | operators |
| `Selection` | what a filter of an iterator collects | operators |
| `SelectionProofs` | lemmas about lists, selections, induction and descent, for the other proofs | |
| `Descent` | when one tuple of natural numbers is below another: a measure of what is left to do | operators |
| `Insns` | rows, bytes as the decoder sees them, slices | operators |
| `InsnStream` | what a linear sweep promises: one instruction at a time | `Decode`, `Stop` |
| `LinearSweep` | `engine::sweep_into` | one action per branch of its two loops, and one per instruction Capstone decodes |
| `LinearSweepProofs` | theorems about `LinearSweep` | |
| `Probe` | `probe.rs`, `engine::build` | operators |
| `ArchResolution` | steps 1 and 4 of `disassemble` | `ResolveFromArgs`, `ResolveFromHeader`, `BuildHandle`, `BuildFails` |
| `ArchResolutionProofs` | theorems about `ArchResolution` and `Probe` | |
| `Sections` | one header to one `Section`, `clamp_range`, `bytes`, the whole table as a relation | operators |
| `SectionScan` | the loops of `sections.rs` | one action per header, segment and exit |
| `EntryPoint` | `entrypoint()`, over the steps of `SectionScan` | `ReturnRaw`, `CallSections`, `ScanStep`, `ReturnEntry` |
| `EntryPointProofs` | theorems about `SectionScan`, `Sections` and `EntryPoint` | |
| `Disassemble` | `sweep::disassemble`; composes `ArchResolution`, `Sections` and `LinearSweep` over shared variables | `Resolve`, `SelectRegions`, `Build`, `AnswerDiagnostic`, `EnterRegion`, `SweepStep`, `Return` |
| `DisassembleProofs` | theorems about `Disassemble`, over those about its parts | |
| `Strings` | `strings::strings` and the worker's `min_len` | one action per byte class and loop exit of each scan |
| `StringsProofs` | theorems about `Strings` | |
| `Imports` | `imports.rs` | operators |
| `Capabilities` | `capabilities::capabilities` | one action per entry of a mapping table tried on an import or a string (`MatchImport`, `MatchString`), per instruction and per pattern, and per turn and end of a loop |
| `CapabilitiesProofs` | theorems about `Capabilities` | |
| `Groups` | `groups.rs` | operators |
| `Inputs` | the two ways an input comes, what `read_path` asks of a file, and the files | `Change` |
| `Columns` | the columns of the seven functions as bound, as built and as documented | operators |
| `Snapshots` | what a call of the worker promises, whatever the files do | `See`, `Deliver`, `Fail`, `FilesChange` |
| `Worker` | `catalog_name`, `arrow_io.rs`, the table and the scalar adapters, a thread for each call | `LookForName`, `SetName`, `ReadName`; `TakeInline`, `NullCell`, `OtherType`, `LookAtFile`, `ReadFile`; `Produce`, `NextBatch`, `NoMoreBatches`; `AppendRow`, `AppendNull`, `ReturnColumn`; `FilesChange` |
| `WorkerProofs` | theorems about `Worker`, `Columns` and `Groups` | |
| `MC*` | instances for TLC | |

How data is abstracted:

* A blob is, byte by byte, what the decoder says there: the length of the
  instruction that begins at the byte, or `Undecodable`. Overlapping decodes,
  which linear sweeps are sensitive to, are therefore all there. A row is its
  kind, its address, its file position and its size; text and groups are
  functions of the bytes and are left out.
* Capstone's `disasm_all` is external and modelled from the way the engine uses
  it: a greedy batch that ends where nothing decodes in the slice. A decoder
  that reports an instruction of no bytes is allowed where the engine defends
  against one (`sweep_no_progress`).
* A container is a record of what goblin reads. Section names are sequences of
  the parts between commas; flags are sets of the bits the code tests.
* Addresses are numbers modulo `AddrSpace` (2^64 in the code), sizes of slices
  are limited by `UsizeMax` (2^64-1, or 2^32-1 in the WebAssembly build), which
  is itself an address.
* For `Strings` a byte is printable, NUL or other; for `Capabilities` a string
  is the set of patterns it contains and the evidence it is cut to.

* For `Worker` the core is the constant operator `RowsOf`: what it computes is
  the subject of the other modules. That a row of `disassemble` carries what
  `normalize_all` makes of Capstone's groups of its instruction (`RawGroups`) is an
  assumption about it, `GroupsAssumption`, taken from `engine.rs`. In `MCWorker`
  its rows are symbolic, each value naming the blob, row, field and arguments it
  stands for, so that a value in a wrong place shows. The five table adapters have one shape and the two
  scalars another, so there is one set of actions for each and a record of
  columns for every function. A batch reaches the client by position, and the
  client reads it under the documented names and types.
* A file is missing, a directory, or has a blob and may be readable. Others
  replace files as a whole; a reader that meets a file half written is left out.
* The environment is accessed under the lock of Rust's standard library, so its
  three accesses in `catalog_name` are three atomic steps. A preset name that is
  not Unicode is left out.

Arithmetic follows a release build: `image_base + rva` and `file_off + delta`
wrap. In a debug build they panic instead, which is not a state of the model.

## 3. Runs

Every specification is of a function that returns, so TLC's deadlock check is
off in all of them; that the function does return is a property where it loops
over bytes (`StreamSpec`, `RequestAnswered`, `ScanReturns`), and so is the reason
why it does, that every step leaves less to do (`SweepAdvances`, `RequestAdvances`,
`ScanAdvances`, and `CallsAdvance` for the worker).

| run | bounds | shows |
|---|---|---|
| `sweep` | all blobs of 0 to 4 bytes with instructions of 1 to 3 bytes or undecodable, all slices, 4 addresses, cap of 3 rows, 0 to 3 earlier rows | type, tiling, faithfulness, cursors; implements `InsnStream`, from which follow the cap, completeness, that rows are only appended and that the sweep returns |
| `sweep_no_progress` | the same with lengths 0 and 2 | the cap is exceeded by one row at most, and every step leaves less to do |
| `arch` | every mapped machine and one more of ELF, PE and Mach-O, both byte orders, fat containers; every known argument and one more | right decoder and byte order, never the fallback, header and arguments agree; the tokens of the view `supported_targets` select what they name, and nothing else is selected |
| `arch_endianness` | the same | finding: `mode := 'big'` is ignored for arm64 and riscv |
| `entrypoint` | tables of up to 3 headers with a cap of 2, offsets and sizes before, across and behind the end of blobs of 0, 1 and 4 bytes, 3 bytes per section, a 3-bit address space with every entry | table order under skips and caps, byte ranges, entry point against sections and sweep |
| `fat_slice` | fat containers with one slice at 2..3 of 4 bytes | finding: slice-relative offsets applied to the file |
| `zerofill` | a section of another zero-fill type behind each header | finding: it has bytes |
| `disassemble` | raw blobs and 0 to 2 sections that overlap, touch, leave the blob, wrap or have no bytes; blobs of up to 4 bytes; cap of 3 rows, 3 bytes per section | the answer against the reference listing, selection, addresses, diagnostic, termination and its measure |
| `strings` | all blobs of up to 7 bytes, 6 scanned, 2 hits, 2 characters, all kinds of `min_len`, two of them beyond a usize | exactly the longest runs, in order, capped; returns, with its measure |
| `capabilities` | up to 2 imports of each format, 2 strings, 2 instructions, cap of 4 | rows are signals, none twice, none lost below the cap, later kinds lost first |
| `worker` | two calls on two threads, one file that changes once; every function alone, with columns of up to 3 cells of every type, paths, NULLs and all kinds of arguments, next to an idle call; two calls on one file; files below, at and beyond the limit, and one whose length is small again as a usize; the name preset or not; every list of three of four group names | implements `Snapshots`: each cell has one meaning, taken at one instant of the call, its rows come once, in place and under their names; one catalog name; groups are normalised; every call ends, with the measure of what it has left |
| `read_bound` | two calls of the same worker on one file that changes once | finding: a file that grows between look and reading is read beyond the limit |

Why the bounds suffice. The branches of the sweep depend on whether a batch is
empty, cut by the cap or followed by a bad byte, and on an instruction that runs
over the end of the slice: four bytes, lengths up to three and three rows hold
every pair of these in sequence, and a prefix of earlier rows moves the cap
through all of them. Two regions show every effect of one sweep on the next.
Two string runs separated by a byte, in a scan shorter than the blob, show
every change between the loops. Blobs of 4 bytes against section caps of 3 put
every end of a range before, at and behind each limit. `AddrSpace` is small so
that wrapping happens. In `worker` one change is enough: it can fall between any
two looks at the file, of one cell, of two cells or of two calls, and a second one
only leads to another of the states a file starts in.

Fairness. `Spec` is `WF_vars(Next)` in the modules with a liveness property and
nothing else: the code is one sequential thread that runs while it can take a
step. In `Worker` it is `WF_vars(Step(c))` for each call: each has a thread of its
own, and a client asks for batches until it is told there is none (an assumption
about the client; without it a call rests, and holds nothing). Changes of files
are not fair: they need not happen. No property assumes fairness of one branch
against another. Capstone is
assumed to return from `disasm_all`; in the model it does because its batch is
a finite chain in a finite slice.

## 4. Findings

* `arch_endianness`: `engine::build` passes no byte order for arm64 and riscv,
  while the `supported_targets` view offers `big` for both.
* `fat_slice`: Mach-O section offsets of a fat container are slice-relative and
  are looked up in the whole file.
* `zerofill`: `S_GB_ZEROFILL` and `S_THREAD_LOCAL_ZEROFILL` sections get a data
  range.
* `read_bound`: `read_path` compares the size of a file with `MAX_SCAN_BYTES` and
  then reads it whole, so a file that grows in between is read beyond the limit,
  while its comment says "bounded to `MAX_SCAN_BYTES`" and that a file too large
  yields None. `ReadBounded` says what the comment says. `Snapshots`, which the code
  implements, promises one state of the file and nothing about its size.

Seen while modelling, without a run: regions are swept in the order of the section
table, which is not sorted (`OutputIsListing` says so), while the description of
`disassemble()` says "Output is address-ordered" (`table/disassemble.rs:62`) and a
comment "sweep each region in address order" (`sweep.rs:108`): .init at address 5
comes before .text at address 2 if the table has them so. An explicit `mode`
without `arch` is ignored; a container without a section table is swept whole under `auto`; the
`(error)` row is returned also when Capstone fails to build a handle, with the
text for a missing arch; a Thumb entry keeps its low bit in `entrypoint()`. The
length of a file is cut to a usize before it is compared, which only matters in the
32-bit build, and there the file that passes for a small one cannot be read.
`min_len` is cut to a usize as well, so a value beyond 2^32 counts modulo 2^32 in
the browser; `Strings` and `Snapshots` say so.

## 5. Proofs

A theorem holds for every value of the constants that the named assumptions
allow; the runs show the same property on a small instance.

`LinearSweepProofs`, for every blob, instruction set, address space, cap and
output prefix:

* `Typing`: `Spec => []TypeOK`. One step per action.
* `Capping` (`RowsBounded`), `Tiling` (`RowsTile`), `Faithfulness`
  (`RowsFaithful`) and `CursorsAgree` (`BatchInPlace`), under `PositiveLens` (no
  instruction has length 0, which is Capstone's contract and is not assumed by the
  engine). None of the first three is inductive alone: a row pushed by `CopyRow`
  is right because the batch is a chain of instructions that decode from `offset`
  on (`BatchIsChain`) and because `next` and `consumed` point at the same byte of
  it (`CopyInPlace`); `BatchInPlace` says that, and the inductive invariant is the
  conjunction with `TypeOK`. `NothingConsumed` is disabled under it. `SafetyStep`
  and `TypingStep` carry the step, one case per action; `RowAtFits`,
  `AppendKeepsTiling` and `SameRows` are the lemmas about rows that several cases
  use.
* `Completeness`: `WholeSliceUnlessCapped`, from the same invariant. This, `Capping`
  and `Appending` are what `StreamSpec` says of the cap, the end and the output; the
  run checks it in their place.
* `CapExceededByOneAtMost`: `OneRowTooMany` with no assumption on the decoder.
  Its invariant adds that the output holds more than `MaxInsns` rows only where
  no further row can be pushed.
* `Appending`: the action property `RowsAppended`.
* `Refinement`: under `PositiveLens` every initial state of `LinearSweep` maps to
  one of `InsnStream`, and every step to a step or a stutter, with
  `pos = offset + consumed` and `done` when the sweep has returned. This is the
  safety part of `StreamSpec`.

`ArchResolutionProofs`, for every container and every spelling of the arguments:
`Advertised`, `NoFallback`, `ByteOrder` and `RoundTrips`, all from one invariant,
`SelInv`: from the first step on the selection is what `resolve_explicit` or
`arch_sel` returned, if it is not None it is of the view, and a handle is built of
it. None of the four says where the selection comes from, so none is inductive.
The rest is about the operators: `ExplicitSel` and `HeaderSel` (what is selected
is of the view, or nothing), `TokensSelect` (a token of the view selects itself).

`EntryPointProofs`, for headers that declare any offsets, sizes and addresses,
every limit and every word width:

* `ClampIntersects`: a byte of the blob is in the range `clamp_range` returns iff
  it is in the declared range, cut to `MaxSectionBytes`.
* `InBlob`: `BytesInBlob`. The invariant `TableIn` says of each section read that
  its range begins at `file_off`, lies in the blob and is within the limit
  (`ClampInBlob` for one range, `ElfSectionIn` and `PeSectionIn` for one header),
  and that its address is an address.
* `TableReadInOrder` (`ReadsTable`), with the invariant `Reading`: the output is a
  part of the whole table from its start, `segment` and `header` say how far it
  reaches, segments that cannot be read add nothing, and it is short of the loops
  only where the cap ended them. The whole table of a Mach-O joins its segments
  by a recursive function; `SectionsUpToEquations` gives the two equations of it.
* `BytesAsDeclared` (`ClampIsIntersection`), from `Reading`, `TableIn` and
  `ClampIntersects`.
* `EntryFound` (`EntrySectionFound`) and `EntryAgrees` (`EntryAgreesWithSweep`),
  each inductive together with `TableIn`: only `ReturnEntry` matters, as the
  table does not change behind it. That the first section that contains the
  address exists at all is `LeastNumber`, from the well-foundedness of `<`.

`StringsProofs`, for every blob, `min_len` and limit. `InPlace` is what the scans
know of the bytes behind them: in the ASCII scan that the last `cur` bytes are
printable, the one before is not and every hit is behind both; between two UTF-16
runs that a unit at `i` does not continue one at `i - 2`, and that none is at
`i - 1`; in a run that it began at `start` and reaches `i`. From it follow

* `Typing` and `Bounded`, and that every step leaves the output alone or pushes a
  longest run behind the earlier hits (`PushesRuns`), which gives `Runs`
  (`HitsAreRuns`) and `InOrder` (`HitsInOrder`);
* `NoneLost` (`NoRunLost`), whose invariant adds that every longest run that
  begins before the current one has been found, unless the output is full, and
  that an ASCII scan cut short leaves no UTF-16 hits behind it. `OnlyAsciiRun` and
  `OnlyUnitRun` say that no other longest run begins within one that has just
  ended: for UTF-16 that needs the two bytes of a unit to be told apart.

`CapabilitiesProofs`, for any two mapping tables, any imports, strings and listing,
and every cap: `Bounded` (`CapabilitiesBounded`), `Distinct` (`NoDuplicates`),
`Signalled` (`RowsAreSignals`) and `Reported` (`SignalsReported`), all from one
invariant. `Rows` says that the output is capped, has no row twice and is what the
set of keys says it is (`PushKeepsRows`); `Passes` says for each pass of which
signals the keys are, that while there is room every pair of a table entry and a
text `Behind` the two indices has its key, and that a key of a later kind is only
there if all keys of the earlier kinds are.

`DisassembleProofs`, for every container, blob, argument and limit. The theorems
of the parts are used on the variables of the request, not proved again: `Lin` and
`Tab` are instances of `LinearSweepProofs` and `EntryPointProofs`.

* `Diagnostic` (`DiagnosticAlone`), from what each phase knows of the selection,
  the handle and the rows (`PhaseInv`).
* `Typing` (`TypeOK`): each region lies in the blob and begins at an address, which
  needs that the regions are places of the table (`PickedRegions`), that the table
  is in the blob (`Tab!TableIn`) and that a step of the sweep keeps the types
  (`Lin!TypeOK`).
* `Listing` (`OutputIsListing`), if no instruction has length 0: the output and what
  the current sweep would still push make together the listings of the regions up
  to the current one (`Listed`), and each step of a sweep keeps that (`SweepLists`).
* `Selecting` (`SelectedSectionsShown`) and `Mapping`
  (`RowsKeepSectionAddresses`), under the same hypothesis: every row keeps the region
  and the place in it that it came from (`Traced`). The inductive invariant of the
  three is `RequestInv`, the conjunction of `PhaseInv`, `Typed`, `Listed` and
  `Traced`.

`WorkerProofs`, for any number of calls and files (for `Advancing` see below):

* `Names`: `OneCatalogName`, with the invariant that the environment holds the
  preset name if there is one, and None or `disasm` otherwise, and that a thread
  about to set the name has seen none (`CatalogInv`).
* `BoundedIfStill`: in a behaviour in which no file changes (`[][UNCHANGED fs]_vars`)
  `ReadBounded` holds, so the race that `read_bound` shows is the only way past the
  bound. The invariants are that between the two steps of `read_path` the cell is a
  path and the file looked at was acceptable (`LookedAt`, which holds whatever the
  files do), and that it is the file still there (`StillThere`). `ReadingSteps` says
  of every step what it may do to the reading of a file; `AcceptedFits` needs the
  width of a `usize`.
* `Normalized`: `normalize_all` returns each known group once, in order of first
  appearance, and nothing else, for a list of any length (`PushGroups` for one
  name more).
* `GroupsDelivered`: `GroupsNormalized`, the same of every row a client reads. Its
  invariant `FromCore` says that what a producer holds, and what its client has, is
  what the core made of the input that the call still holds; `Normalized` says the
  rest.
* `Implements`: `Spec => SnapshotSpec`, `Worker` implements `Snapshots`. What
  carries it:
  - the columns. `ColumnsSound`: for each of the seven functions the types of the
    arrays are those of the schema, and every field of the core's rows has one
    column, which the documentation gives its name and type. With that a row put
    into the arrays by position and read by name is the row again (`ReadBack`).
  - the invariant `CallsInv`: a producer has the core's rows until the client has
    them, and has nothing before; a scalar has as many values in every builder as
    validity bits; an input being converted is a blob that the call may take.
  - the arguments: a cast of `base` or `min_len` is the residue that `Snapshots`
    speaks of (`AskedIsPassed`).
  - one lemma for the steps of each part of a call (`BuildRefines`,
    `ResolveRefines`, `TableRefines`, `ProcessRefines`). A cell counts as looked at
    once its input is resolved, so the look of `read_path` at a file it accepts is
    a stutter and its reading is `See`; a file it rejects is `See` at the look. A
    row appended to the builders was seen a step before (`BuiltGrows`).
    `OthersUntouched` and `StaysWhenUntouched` are why a step of one call is none
    of another's.

Termination. Whether a function returns is a question in two parts. That it
cannot go on for ever is proved; that it does not stop halfway needs ENABLED and
fairness and stays with TLC. `NoEndlessDescent` (`SelectionProofs`): no sequence of
tuples of natural numbers descends for ever, in the lexicographic order and for
tuples of any length. The theorems `Advancing` then say of each loop that every
step leads to a smaller tuple:

* `LinearSweepProofs` (`SweepAdvances`): bytes of the slice left, then the stage of
  the iteration, then what is left of the batch. It holds for decoders that return
  instructions of no bytes as well, which is what the defensive branch is for. The
  invariant `WithinSlice` says that neither the loop nor a batch leaves the slice.
* `StringsProofs` (`ScanAdvances`): scans left, bytes left, and whether the next
  step is a change between the two UTF-16 loops, which moves no index: such a change
  cannot follow another.
* `DisassembleProofs` (`RequestAdvances`): phases left, regions left, and the tuple
  of the sweep in the region (`Lin!LeftDecreases`). What is left of a sweep counts
  for nothing once the next region is entered.
* `WorkerProofs` (`CallsAdvance`): for each call, steps to build its worker, cells
  left, steps left in the cell; and no step of another call or of the files adds
  to it (`OthersUntouched`). The invariant `InCells` keeps a call within its cells,
  `StepMoves` reduces the fourteen actions to going on in a cell or passing it.

Induction. `SelectionProofs` proves from the well-foundedness of `<` that every set
of natural numbers that is not empty has a least element (`LeastNumber`), and from that
that a set which has 0 and with each number the next has all of them
(`Induction`). Stated of a set, and not of an operator, it can be used for the
recursive functions of the modules: each is first shown to exist
(`ChoosingExists`, `JoiningExists`, `ListsExist`, `NormalizingExists`), which gives
its two equations, and what it computes is then shown for the set of arguments for
which it does.

The assumptions are those on the constants, each named in the module that declares
them, which TLC evaluates in the runs: `AddrSpace` positive; lengths and limits
natural numbers, and room for the diagnostic row; None no value of another kind;
header fields natural numbers and addresses in the address space; the size of a
blob a `usize`, and a `usize` no wider than an address; the lists of imports,
strings and table entries lists. For the worker (`WorkloadsAssumption`,
`RowsAssumption`, `GroupsAssumption`): path cells have the values `Trimmed` knows,
a table function has one input, `base` and `min_len` are integers or NULL, the core returns a list of
records with the fields its adapter reads, and exactly one for a scalar, and the
groups of a row are those `normalize_all` makes. No
instruction of length 0 (`PositiveLens`) is a hypothesis of those theorems that
name it and no assumption, as the engine defends against one.

Only model-checked is liveness: `RequestAnswered`, `ScanReturns`, `CallsAnswered`
and the fairness part of `StreamSpec`. Of them the theorems
`Advancing` prove that no behaviour takes steps for ever; what is left to TLC is
that fair scheduling takes one while there is one to take. `Refinement` states the
safety part of `StreamSpec`; `Snapshots` has no fairness, and `Implements` states
all of it. Every invariant and every action property of the runs that are expected
to pass is stated by a theorem; `StreamSpec` is, in its safety part.

## 6. Not modelled

Parsing (goblin) and decoding (Capstone) themselves; instruction text; the
entropy of sections; the contents of the mapping tables, two arrays of constants
whose matching `Capabilities` models for any contents; the descriptions, examples,
tags and links of functions, which have no behaviour; the vgi SDK (argument
parsing, the transport, what it makes of an error) and DuckDB; the packaging.
Memory is not modelled: that Capstone decodes the whole rest of a section before
the row cap is looked at is visible in `LinearSweep`, its cost is not.

## 7. Plan

The order was: the sweep and its proofs; arch resolution; sections; the composed
request; entry point; strings; imports and capabilities; the worker with its
inputs, columns and groups; then the proofs of the other modules. What is left:

1. A theorem that composes the two halves of `strings`, the core and its adapter,
   as `DisassembleProofs` does for a request: `RowsOf` instead of a constant.
2. Properties for the hazards that have only a note in `PROJECT.json`, where a
   model can tell them apart: the low bit of a Thumb entry and the 64-bit handle
   for 32-bit containers.
