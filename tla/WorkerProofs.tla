---------------------------- MODULE WorkerProofs ----------------------------
(***************************************************************************)
(* Theorems about Worker, for any number of calls, files, sizes and limits *)
(* and for every core whose rows have the fields that its columns are fed  *)
(* with: Worker implements Snapshots, what it delivers has the groups that *)
(* normalize_all makes, and a call takes finitely many steps.              *)
(***************************************************************************)
EXTENDS Worker, SelectionProofs

Phases == {"build", "set name", "read name", "input", "read file", "convert", "batches",
           "done", "failed"}

(***************************************************************************)
(* What the two invariants below rest on: requests stay what they are, and *)
(* files are files.                                                        *)
(***************************************************************************)
Typed ==
    /\ fs \in [Files -> FileStates]
    /\ req \in Workloads
    /\ pc \in [Calls -> Phases]
    /\ i \in [Calls -> Nat \ {0}]
    /\ DOMAIN name = Calls /\ DOMAIN meta = Calls /\ DOMAIN bytes = Calls

-----------------------------------------------------------------------------
(***************************************************************************)
(* A thread that is about to set the name has seen that none was preset,   *)
(* and what any thread sets is the name all others fall back to.           *)
(***************************************************************************)
CatalogInv ==
    /\ IF preset = None THEN env \in {None, "disasm"} ELSE env = preset
    /\ \A c \in Calls : pc[c] = "set name" => preset = None
    /\ OneCatalogName

\* Between the two steps of read_path, the file looked at was acceptable.
LookedAt ==
    \A c \in Calls : pc[c] = "read file" =>
        /\ i[c] <= Len(req[c].cells)
        /\ Cell(c).value # None /\ Cell(c).type \in PathTypes
        /\ meta[c] \in FileStates /\ Accepted(meta[c])

-----------------------------------------------------------------------------
(***************************************************************************)
(* What is at a path is a state of a file, and a file holds a blob.        *)
(***************************************************************************)
LEMMA FileAtType ==
    ASSUME fs \in [Files -> FileStates], NEW path \in DOMAIN Trimmed
    PROVE  FileAt(path) \in FileStates
<1>1. NoFile \in FileStates
  BY DEF FileStates
<1>2. Trimmed[path] \in Files \cup {""}
  BY TrimmedAssumption
<1> QED
  BY <1>1, <1>2 DEF FileAt

LEMMA FileHasBlob ==
    ASSUME NEW f \in FileStates, f.kind = "file"
    PROVE  f.blob \in Blobs
  BY DEF FileStates, NoFile

(***************************************************************************)
(* A length that is accepted and can be read at all is within the limit:   *)
(* cutting it to a usize changes only lengths that cannot be read.         *)
(***************************************************************************)
LEMMA AcceptedFits ==
    ASSUME NEW f \in FileStates, Accepted(f), SizeOf(f.blob) <= UsizeMax
    PROVE  SizeOf(f.blob) <= MaxScanBytes
<1>1. SizeOf(f.blob) \in Nat
  BY FileHasBlob, SizesAssumption DEF Accepted
<1>2. UsizeMax \in Nat /\ MaxScanBytes \in Nat
  BY InputLimitsAssumption
<1>3. SizeOf(f.blob) % (UsizeMax + 1) = SizeOf(f.blob)
  BY <1>1, <1>2
<1> QED
  BY <1>3 DEF Accepted

-----------------------------------------------------------------------------
LEMMA InitInv == Init => Typed /\ CatalogInv /\ LookedAt
<1> SUFFICES ASSUME Init PROVE Typed /\ CatalogInv /\ LookedAt
  OBVIOUS
<1>1. Typed
  BY DEF Init, Typed, Phases
<1>2. CatalogInv
  BY DEF Init, CatalogInv, OneCatalogName
<1>3. LookedAt
  BY DEF Init, LookedAt
<1> QED
  BY <1>1, <1>2, <1>3

\* Passing on to the next cell keeps Typed.
LEMMA CellPassed ==
    ASSUME Typed, NEW c \in Calls, NEW to \in Phases,
           pc' = [pc EXCEPT ![c] = to], i' = [i EXCEPT ![c] = i[c] + 1],
           UNCHANGED <<fs, req, name, meta, bytes>>
    PROVE  Typed'
<1>1. i' \in [Calls -> Nat \ {0}]
  BY DEF Typed
<1>2. pc' \in [Calls -> Phases]
  BY DEF Typed
<1> QED
  BY <1>1, <1>2 DEF Typed

(***************************************************************************)
(* Typed is inductive by itself.                                           *)
(***************************************************************************)
LEMMA TypedStep == Typed /\ [Next]_vars => Typed'
<1> SUFFICES ASSUME Typed, [Next]_vars PROVE Typed'
  OBVIOUS
<1> USE DEF Typed
<1>1. ASSUME FilesChange PROVE Typed'
  <2>1. fs' \in [Files -> FileStates]
    BY <1>1 DEF FilesChange, Change
  <2> QED
    BY <1>1, <2>1 DEF FilesChange, threadVars, callVars
<1>2. ASSUME NEW c \in Calls, Build(c) PROVE Typed'
  BY <1>2 DEF Build, LookForName, SetName, ReadName, Transition, Goto, threadVars, Phases
<1>3. ASSUME NEW c \in Calls, Resolve(c) PROVE Typed'
  <2>1. CASE TakeInline(c)
    BY <2>1 DEF TakeInline, Resolved, Goto, threadVars, Phases
  <2>2. CASE NullCell(c)
    BY <2>2 DEF NullCell, Resolved, Goto, threadVars, Phases
  <2>3. CASE OtherType(c)
    BY <2>3 DEF OtherType, Resolved, Goto, threadVars, Phases
  <2>4. CASE LookAtFile(c)
    <3>1. CASE Accepted(FileAt(Cell(c).value))
      BY <2>4, <3>1 DEF LookAtFile, Goto, threadVars, Phases
    <3>2. CASE ~Accepted(FileAt(Cell(c).value))
      BY <2>4, <3>2 DEF LookAtFile, Resolved, Goto, threadVars, Phases
    <3> QED
      BY <3>1, <3>2
  <2>5. CASE ReadFile(c)
    BY <2>5 DEF ReadFile, Resolved, Goto, threadVars, Phases
  <2> QED
    BY <1>3, <2>1, <2>2, <2>3, <2>4, <2>5 DEF Resolve
<1>4. ASSUME NEW c \in Calls, Table(c) PROVE Typed'
  <2>1. CASE Produce(c)
    <3>1. pc' = [pc EXCEPT ![c] = "batches"] /\ i' = [i EXCEPT ![c] = i[c] + 1]
      BY <2>1 DEF Produce, Transition, Goto
    <3>2. UNCHANGED <<fs, req, name, meta, bytes>>
      BY <2>1 DEF Produce, threadVars
    <3> QED
      BY <3>1, <3>2, CellPassed DEF Phases
  <2>2. CASE NextBatch(c)
    BY <2>2 DEF NextBatch, Goto, threadVars, Phases
  <2>3. CASE NoMoreBatches(c)
    BY <2>3 DEF NoMoreBatches, Transition, Goto, threadVars, Phases
  <2> QED
    BY <1>4, <2>1, <2>2, <2>3 DEF Table
<1>5. ASSUME NEW c \in Calls, Process(c) PROVE Typed'
  <2>1. CASE AppendRow(c) \/ AppendNull(c)
    <3>1. pc' = [pc EXCEPT ![c] = "input"] /\ i' = [i EXCEPT ![c] = i[c] + 1]
      BY <2>1 DEF AppendRow, AppendNull, AppendTo, Transition, Goto
    <3>2. UNCHANGED <<fs, req, name, meta, bytes>>
      BY <2>1 DEF AppendRow, AppendNull, threadVars
    <3> QED
      BY <3>1, <3>2, CellPassed DEF Phases
  <2>2. CASE ReturnColumn(c)
    BY <2>2 DEF ReturnColumn, Goto, threadVars, Phases
  <2> QED
    BY <1>5, <2>1, <2>2 DEF Process
<1>6. CASE UNCHANGED vars
  BY <1>6 DEF vars, threadVars, callVars
<1> QED
  BY <1>1, <1>2, <1>3, <1>4, <1>5, <1>6 DEF Next, Step

-----------------------------------------------------------------------------
(***************************************************************************)
(* What a call does once its worker is built leaves the environment and    *)
(* the names alone, and leads no thread back to setting the name.          *)
(***************************************************************************)
LEMMA NamesLeftAlone ==
    ASSUME Typed, NEW c \in Calls, Resolve(c) \/ Table(c) \/ Process(c)
    PROVE  /\ UNCHANGED threadVars
           /\ \A d \in Calls : pc'[d] = "set name" => pc[d] = "set name"
<1> USE DEF Typed, threadVars
<1>1. CASE Resolve(c)
  <2>1. CASE LookAtFile(c)
    BY <2>1 DEF LookAtFile, Resolved, Goto
  <2>2. CASE OtherType(c)
    BY <2>2 DEF OtherType, Resolved, Goto
  <2> QED
    BY <1>1, <2>1, <2>2 DEF Resolve, TakeInline, NullCell, ReadFile, Resolved, Goto
<1>2. CASE Table(c)
  BY <1>2 DEF Table, Produce, NextBatch, NoMoreBatches, Transition, Goto
<1>3. CASE Process(c)
  BY <1>3 DEF Process, AppendRow, AppendNull, ReturnColumn, Transition, Goto
<1> QED
  BY <1>1, <1>2, <1>3

LEMMA CatalogStep == Typed /\ CatalogInv /\ [Next]_vars => CatalogInv'
<1> SUFFICES ASSUME Typed, CatalogInv, [Next]_vars PROVE CatalogInv'
  OBVIOUS
<1> USE DEF CatalogInv, OneCatalogName
<1>1. ASSUME NEW c \in Calls, Build(c) PROVE CatalogInv'
  <2>1. CASE LookForName(c)
    BY <2>1 DEF LookForName, Transition, Goto, threadVars, Typed
  <2>2. CASE SetName(c)
    BY <2>2 DEF SetName, Transition, Goto, Typed
  <2>3. CASE ReadName(c)
    BY <2>3 DEF ReadName, Transition, Goto, Typed
  <2> QED
    BY <1>1, <2>1, <2>2, <2>3 DEF Build
<1>2. ASSUME NEW c \in Calls, Resolve(c) \/ Table(c) \/ Process(c) PROVE CatalogInv'
  BY <1>2, NamesLeftAlone DEF threadVars
<1>3. CASE FilesChange
  BY <1>3 DEF FilesChange, threadVars, callVars
<1>4. CASE UNCHANGED vars
  BY <1>4 DEF vars, threadVars, callVars
<1> QED
  BY <1>1, <1>2, <1>3, <1>4 DEF Next, Step

(***************************************************************************)
(* OneCatalogName: every thread that built its worker serves the preset    *)
(* name, or disasm if there is none, in whatever order the threads look at *)
(* the environment and set it.                                             *)
(***************************************************************************)
THEOREM Names == Spec => []OneCatalogName
<1>1. Init => Typed /\ CatalogInv
  BY InitInv
<1>2. Typed /\ CatalogInv /\ [Next]_vars => (Typed /\ CatalogInv)'
  BY TypedStep, CatalogStep
<1>3. CatalogInv => OneCatalogName
  BY DEF CatalogInv
<1> QED
  BY <1>1, <1>2, <1>3, PTL DEF Spec

-----------------------------------------------------------------------------
(***************************************************************************)
(* What a step may do to the reading of a file: nothing, as it leaves the  *)
(* inputs as they are and starts neither a look nor a reading; resolve the *)
(* input of a call, from a file only by reading what is there; or accept a *)
(* file that was looked at.                                                *)
(***************************************************************************)
Quiet ==
    /\ UNCHANGED <<req, meta, bytes>>
    /\ \A c \in Calls : pc'[c] \in {"read file", "convert"} => pc'[c] = pc[c] /\ i'[c] = i[c]

Takes(c, b) ==
    /\ Resolved(c, b) /\ UNCHANGED <<req, i>>
    /\ Cell(c).type \in PathTypes =>
          \/ b = None
          \/ pc[c] = "read file" /\ b = Contents(FileAt(Cell(c).value))

Accepts(c) ==
    /\ i[c] <= Len(req[c].cells)
    /\ Cell(c).value # None /\ Cell(c).type \in PathTypes
    /\ Accepted(FileAt(Cell(c).value))
    /\ Goto(c, "read file") /\ meta' = [meta EXCEPT ![c] = FileAt(Cell(c).value)]
    /\ UNCHANGED <<req, i, bytes>>

LEMMA ReadingSteps ==
    ASSUME Typed, [Next]_vars
    PROVE  Quiet \/ \E c \in Calls : Accepts(c) \/ \E b : Takes(c, b)
<1>1. ASSUME NEW c \in Calls, Build(c) PROVE Quiet
  <2>1. UNCHANGED <<req, meta, bytes, i>>
    BY <1>1 DEF Build, LookForName, SetName, ReadName
  <2>2. \A d \in Calls : pc'[d] \in {"read file", "convert"} => pc'[d] = pc[d]
    BY <1>1 DEF Build, LookForName, SetName, ReadName, Transition, Goto, Typed
  <2> QED
    BY <2>1, <2>2 DEF Quiet
<1>2. ASSUME NEW c \in Calls, Resolve(c) PROVE Quiet \/ Accepts(c) \/ \E b : Takes(c, b)
  <2>1. CASE TakeInline(c)
    <3>1. Cell(c).type \notin PathTypes
      BY <2>1 DEF TakeInline, BlobTypes, PathTypes
    <3> QED
      BY <2>1, <3>1 DEF TakeInline, Takes
  <2>2. CASE NullCell(c)
    BY <2>2 DEF NullCell, Takes
  <2>3. CASE OtherType(c)
    <3>1. CASE Scalar(c)
      <4>1. UNCHANGED <<req, meta, bytes, i>>
        BY <2>3, <3>1 DEF OtherType
      <4>2. \A d \in Calls : pc'[d] \in {"read file", "convert"} => pc'[d] = pc[d]
        BY <2>3, <3>1 DEF OtherType, Goto, Typed
      <4> QED
        BY <4>1, <4>2 DEF Quiet
    <3>2. CASE ~Scalar(c)
      BY <2>3, <3>2 DEF OtherType, Takes
    <3> QED
      BY <3>1, <3>2
  <2>4. CASE LookAtFile(c)
    <3>1. /\ i[c] <= Len(req[c].cells) /\ Cell(c).value # None /\ Cell(c).type \in PathTypes
          /\ UNCHANGED <<req, i>>
      BY <2>4 DEF LookAtFile, AtCell
    <3>2. CASE Accepted(FileAt(Cell(c).value))
      BY <2>4, <3>1, <3>2 DEF LookAtFile, Accepts
    <3>3. CASE ~Accepted(FileAt(Cell(c).value))
      BY <2>4, <3>1, <3>3 DEF LookAtFile, Takes
    <3> QED
      BY <3>2, <3>3
  <2>5. CASE ReadFile(c)
    BY <2>5 DEF ReadFile, Takes
  <2> QED
    BY <1>2, <2>1, <2>2, <2>3, <2>4, <2>5 DEF Resolve
<1>3. ASSUME NEW c \in Calls, Table(c) PROVE Quiet
  <2>1. UNCHANGED <<req, meta, bytes>>
    BY <1>3 DEF Table, Produce, NextBatch, NoMoreBatches
  <2>2. \A d \in Calls : pc'[d] \in {"read file", "convert"} => pc'[d] = pc[d] /\ i'[d] = i[d]
    BY <1>3 DEF Table, Produce, NextBatch, NoMoreBatches, Transition, Goto, Typed
  <2> QED
    BY <2>1, <2>2 DEF Quiet
<1>4. ASSUME NEW c \in Calls, Process(c) PROVE Quiet
  <2>1. UNCHANGED <<req, meta, bytes>>
    BY <1>4 DEF Process, AppendRow, AppendNull, ReturnColumn
  <2>2. \A d \in Calls : pc'[d] \in {"read file", "convert"} => pc'[d] = pc[d] /\ i'[d] = i[d]
    BY <1>4 DEF Process, AppendRow, AppendNull, AppendTo, ReturnColumn, Transition, Goto, Typed
  <2> QED
    BY <2>1, <2>2 DEF Quiet
<1>5. CASE FilesChange \/ UNCHANGED vars
  BY <1>5 DEF FilesChange, vars, callVars, Quiet
<1> QED
  BY <1>1, <1>2, <1>3, <1>4, <1>5 DEF Next, Step

-----------------------------------------------------------------------------
\* The path of a cell that holds one is known to str::trim.
LEMMA CellPath ==
    ASSUME Typed, NEW c \in Calls, i[c] <= Len(req[c].cells),
           Cell(c).value # None, Cell(c).type \in PathTypes
    PROVE  FileAt(Cell(c).value) \in FileStates
<1>1. i[c] \in 1 .. Len(req[c].cells)
  BY WorkloadsAssumption DEF Typed
<1>2. Cell(c).value \in DOMAIN Trimmed
  BY <1>1, WorkloadsAssumption DEF Typed, Cell
<1> QED
  BY <1>2, FileAtType DEF Typed

\* LookedAt is inductive relative to Typed, whatever the files do.
LEMMA ReadStep == Typed /\ LookedAt /\ [Next]_vars => LookedAt'
<1> SUFFICES ASSUME Typed, LookedAt, [Next]_vars PROVE LookedAt'
  OBVIOUS
<1>1. CASE Quiet
  <2>1. \A d \in Calls : pc'[d] = "read file" => Cell(d)' = Cell(d)
    BY <1>1 DEF Quiet, Cell
  <2> QED
    BY <1>1, <2>1 DEF Quiet, LookedAt
<1>2. ASSUME NEW c \in Calls, NEW b, Takes(c, b) PROVE LookedAt'
  <2>1. \A d \in Calls : Cell(d)' = Cell(d)
    BY <1>2 DEF Takes, Cell
  <2> QED
    BY <1>2, <2>1 DEF Takes, Resolved, Goto, Typed, LookedAt
<1>3. ASSUME NEW c \in Calls, Accepts(c) PROVE LookedAt'
  <2> DEFINE f == FileAt(Cell(c).value)
  <2>1. f \in FileStates /\ Accepted(f)
    BY <1>3, CellPath DEF Accepts
  <2>2. \A d \in Calls : Cell(d)' = Cell(d)
    BY <1>3 DEF Accepts, Cell
  <2>3. /\ meta'[c] = f /\ UNCHANGED <<req, i>>
        /\ \A d \in Calls \ {c} : pc'[d] = pc[d] /\ meta'[d] = meta[d]
    BY <1>3 DEF Accepts, Goto, Typed
  <2>4. i[c] <= Len(req[c].cells) /\ Cell(c).value # None /\ Cell(c).type \in PathTypes
    BY <1>3 DEF Accepts
  <2> SUFFICES ASSUME NEW d \in Calls, pc'[d] = "read file"
               PROVE  /\ i'[d] <= Len(req'[d].cells)
                      /\ Cell(d)'.value # None /\ Cell(d)'.type \in PathTypes
                      /\ meta'[d] \in FileStates /\ Accepted(meta'[d])
    BY DEF LookedAt, Accepted
  <2>5. CASE d = c
    BY <2>1, <2>2, <2>3, <2>4, <2>5
  <2>6. CASE d # c
    BY <2>2, <2>3, <2>6 DEF LookedAt
  <2> QED
    BY <2>5, <2>6
<1> QED
  BY <1>1, <1>2, <1>3, ReadingSteps

-----------------------------------------------------------------------------
(***************************************************************************)
(* If no file changes, then the file read is the one looked at.            *)
(***************************************************************************)
StillThere == \A c \in Calls : pc[c] = "read file" => meta[c] = FileAt(Cell(c).value)

LEMMA BoundedStep ==
    ASSUME Typed, LookedAt, StillThere, ReadBounded, [Next]_vars, UNCHANGED fs
    PROVE  (StillThere /\ ReadBounded)'
<1> DEFINE Kept(d) == Cell(d)' = Cell(d) /\ FileAt(Cell(d).value)' = FileAt(Cell(d).value)
<1>1. ASSUME NEW d \in Calls, UNCHANGED req, i'[d] = i[d] PROVE Kept(d)
  BY <1>1 DEF Cell, FileAt
<1> HIDE DEF Kept
<1>2. CASE Quiet
  <2>1. \A d \in Calls : pc'[d] \in {"read file", "convert"} => Kept(d)
    BY <1>1, <1>2 DEF Quiet
  <2> QED
    BY <1>2, <2>1 DEF Quiet, Kept, StillThere, ReadBounded, Converting
<1>3. ASSUME NEW c \in Calls, NEW b, Takes(c, b) PROVE (StillThere /\ ReadBounded)'
  <2>1. \A d \in Calls : Kept(d)
    BY <1>1, <1>3 DEF Takes
  <2>2. /\ pc'[c] = "convert" /\ bytes'[c] = b /\ meta' = meta
        /\ \A d \in Calls \ {c} : pc'[d] = pc[d] /\ bytes'[d] = bytes[d]
    BY <1>3 DEF Takes, Resolved, Goto, Typed
  <2>3. StillThere'
    BY <2>1, <2>2 DEF Kept, StillThere
  <2>4. Cell(c).type \in PathTypes /\ b # None => SizeOf(b) <= MaxScanBytes
    <3> SUFFICES ASSUME Cell(c).type \in PathTypes, b # None PROVE SizeOf(b) <= MaxScanBytes
      OBVIOUS
    <3>1. pc[c] = "read file" /\ b = Contents(FileAt(Cell(c).value))
      BY <1>3 DEF Takes
    <3>2. b = meta[c].blob /\ SizeOf(b) <= UsizeMax
      BY <3>1 DEF StillThere, Contents
    <3>3. meta[c] \in FileStates /\ Accepted(meta[c])
      BY <3>1 DEF LookedAt
    <3> QED
      BY <3>2, <3>3, AcceptedFits
  <2>5. ASSUME NEW d \in Calls, Converting(d)', bytes'[d] # None, (Cell(d).type \in PathTypes)'
        PROVE  SizeOf(bytes'[d]) <= MaxScanBytes
    <3>1. CASE d = c
      BY <2>1, <2>2, <2>4, <2>5, <3>1 DEF Kept
    <3>2. CASE d # c
      BY <2>1, <2>2, <2>5, <3>2 DEF Kept, ReadBounded, Converting
    <3> QED
      BY <3>1, <3>2
  <2> QED
    BY <2>3, <2>5 DEF ReadBounded
<1>4. ASSUME NEW c \in Calls, Accepts(c) PROVE (StillThere /\ ReadBounded)'
  <2>1. \A d \in Calls : Kept(d)
    BY <1>1, <1>4 DEF Accepts
  <2>2. /\ pc'[c] = "read file" /\ meta'[c] = FileAt(Cell(c).value) /\ bytes' = bytes
        /\ \A d \in Calls \ {c} : pc'[d] = pc[d] /\ meta'[d] = meta[d]
    BY <1>4 DEF Accepts, Goto, Typed
  <2>3. StillThere'
    BY <2>1, <2>2 DEF Kept, StillThere
  <2>4. ReadBounded'
    BY <2>1, <2>2 DEF Kept, ReadBounded, Converting
  <2> QED
    BY <2>3, <2>4
<1> QED
  BY <1>2, <1>3, <1>4, ReadingSteps

(***************************************************************************)
(* ReadBounded fails in the code (the run read_bound), but only through a  *)
(* file that changes: in a behaviour in which none does, no call takes     *)
(* more than MaxScanBytes from a path, whatever the width of a usize that  *)
(* read_path cuts the length to.                                           *)
(***************************************************************************)
THEOREM BoundedIfStill == Spec /\ [][UNCHANGED fs]_vars => []ReadBounded
<1> DEFINE Inv == Typed /\ LookedAt /\ StillThere /\ ReadBounded
<1>1. Init => Inv
  <2> SUFFICES ASSUME Init PROVE Inv
    OBVIOUS
  <2>1. StillThere /\ ReadBounded
    BY DEF Init, StillThere, ReadBounded, Converting
  <2> QED
    BY <2>1, InitInv
<1>2. Inv /\ [Next]_vars /\ [UNCHANGED fs]_vars => Inv'
  <2> SUFFICES ASSUME Inv, [Next]_vars, [UNCHANGED fs]_vars PROVE Inv'
    OBVIOUS
  <2>1. UNCHANGED fs
    BY DEF vars
  <2>2. Typed' /\ LookedAt'
    BY TypedStep, ReadStep
  <2>3. StillThere' /\ ReadBounded'
    BY <2>1, BoundedStep
  <2> QED
    BY <2>2, <2>3
<1>3. Inv => ReadBounded
  OBVIOUS
<1> QED
  BY <1>1, <1>2, <1>3, PTL DEF Spec

-----------------------------------------------------------------------------
(***************************************************************************)
(* normalize_all with its recursive function as a parameter.               *)
(***************************************************************************)
Pushed(raw, n, out) ==
    IF Group!normalize(raw[n]) \in Group!Held(out) \cup {None} THEN out
    ELSE Append(out, Group!normalize(raw[n]))

Normalizing(raw, m, f) == f = [n \in 0 .. m |-> IF n = 0 THEN <<>> ELSE Pushed(raw, n, f[n - 1])]

LEMMA NormalizingExists ==
    ASSUME NEW raw
    PROVE  \A m \in Nat : \E f : Normalizing(raw, m, f)
<1> DEFINE T == {m \in Nat : \E f : Normalizing(raw, m, f)}
<1>1. 0 \in T
  <2>1. Normalizing(raw, 0, [n \in 0 .. 0 |-> <<>>])
    BY DEF Normalizing
  <2> QED
    BY <2>1
<1>2. ASSUME NEW m \in Nat, m \in T PROVE m + 1 \in T
  <2>1. PICK f : Normalizing(raw, m, f)
    BY <1>2
  <2> DEFINE g == [n \in 0 .. m + 1 |-> IF n = m + 1 THEN Pushed(raw, n, f[m]) ELSE f[n]]
  <2>2. \A n \in 0 .. m : f[n] = IF n = 0 THEN <<>> ELSE Pushed(raw, n, f[n - 1])
    BY <2>1 DEF Normalizing
  <2>3. g[m + 1] = Pushed(raw, m + 1, f[m]) /\ \A n \in 0 .. m : g[n] = f[n]
    OBVIOUS
  <2>4. g = [n \in 0 .. m + 1 |-> g[n]]
    OBVIOUS
  <2> HIDE DEF g
  <2>5. \A n \in 0 .. m + 1 : g[n] = IF n = 0 THEN <<>> ELSE Pushed(raw, n, g[n - 1])
    <3> TAKE n \in 0 .. m + 1
    <3>1. CASE n = m + 1
      <4>1. n - 1 = m /\ m \in 0 .. m /\ n # 0
        BY <3>1
      <4> QED
        BY <2>3, <3>1, <4>1
    <3>2. CASE n \in 0 .. m
      <4>1. n # 0 => n - 1 \in 0 .. m
        BY <3>2
      <4> QED
        BY <2>2, <2>3, <3>2, <4>1
    <3> QED
      BY <3>1, <3>2
  <2>6. Normalizing(raw, m + 1, g)
    BY <2>4, <2>5 DEF Normalizing
  <2> QED
    BY <2>6
<1>3. \A m \in Nat : m \in T
  <2> HIDE DEF T
  <2> QED
    BY <1>1, <1>2, Induction
<1> QED
  BY <1>3

LEMMA NormalizeAllIsNormalizing ==
    ASSUME NEW raw, Len(raw) \in Nat
    PROVE  \E f : Normalizing(raw, Len(raw), f) /\ Group!normalize_all(raw) = f[Len(raw)]
<1> DEFINE f == CHOOSE g : Normalizing(raw, Len(raw), g)
<1>1. Normalizing(raw, Len(raw), f)
  BY NormalizingExists
<1>2. Group!normalize_all(raw) = f[Len(raw)]
  BY DEF Group!normalize_all, Normalizing, Pushed
<1> QED
  BY <1>1, <1>2

\* The first place of a name is one, and there is no other.
LEMMA FirstPlace ==
    ASSUME NEW raw, NEW n \in Nat, DOMAIN raw = 1 .. n, NEW k \in 1 .. n, NEW g,
           Group!normalize(raw[k]) = g,
           \A j \in 1 .. k - 1 : Group!normalize(raw[j]) # g
    PROVE  Group!FirstAt(raw, g) = k
<1> DEFINE P(j) == Group!normalize(raw[j]) = g /\ \A l \in 1 .. j - 1 : Group!normalize(raw[l]) # g
<1>1. P(k)
  OBVIOUS
<1>2. \A j \in 1 .. n : P(j) => j = k
  <2> SUFFICES ASSUME NEW j \in 1 .. n, P(j), j # k PROVE FALSE
    OBVIOUS
  <2>1. j \in 1 .. k - 1 \/ k \in 1 .. j - 1
    OBVIOUS
  <2> QED
    BY <2>1
<1>3. Group!FirstAt(raw, g) = CHOOSE j \in 1 .. n : P(j)
  BY DEF Group!FirstAt
<1> QED
  <2> HIDE DEF P
  <2> QED
    BY <1>1, <1>2, <1>3

(***************************************************************************)
(* What the loop has after n names: those of the n names that are known,   *)
(* each where it comes first.                                              *)
(***************************************************************************)
Grouped(out, raw, n) ==
    /\ out \in Seq({Group!normalize(raw[k]) : k \in 1 .. n} \ {None})
    /\ Group!Held(out) = {Group!normalize(raw[k]) : k \in 1 .. n} \ {None}
    /\ \A k \in 1 .. Len(out) : Group!FirstAt(raw, out[k]) \in 1 .. n
    /\ \A k \in 1 .. Len(out) - 1 : Group!FirstAt(raw, out[k]) < Group!FirstAt(raw, out[k + 1])

LEMMA PushGroups ==
    ASSUME NEW raw, Len(raw) \in Nat, DOMAIN raw = 1 .. Len(raw),
           NEW n \in Nat, n + 1 <= Len(raw), NEW out, Grouped(out, raw, n)
    PROVE  Grouped(Pushed(raw, n + 1, out), raw, n + 1)
<1> DEFINE g == Group!normalize(raw[n + 1])
           Known(m) == {Group!normalize(raw[k]) : k \in 1 .. m} \ {None}
<1>1. Known(n + 1) = Known(n) \cup ({g} \ {None})
  <2>1. 1 .. n + 1 = (1 .. n) \cup {n + 1}
    OBVIOUS
  <2> QED
    BY <2>1
<1>2. Len(out) \in Nat /\ DOMAIN out = 1 .. Len(out)
  BY DEF Grouped
<1>3. CASE g \in Group!Held(out) \cup {None}
  <2>1. Pushed(raw, n + 1, out) = out
    BY <1>3 DEF Pushed
  <2>2. Known(n + 1) = Known(n)
    BY <1>1, <1>3 DEF Grouped
  <2>3. \A k \in 1 .. Len(out) : Group!FirstAt(raw, out[k]) \in 1 .. n + 1
    BY DEF Grouped
  <2> QED
    BY <2>1, <2>2, <2>3 DEF Grouped
<1>4. CASE g \notin Group!Held(out) \cup {None}
  <2> DEFINE more == Append(out, g)
  <2>1. Pushed(raw, n + 1, out) = more
    BY <1>4 DEF Pushed
  <2>2. g \notin Known(n) /\ g # None /\ Known(n + 1) = Known(n) \cup {g}
    BY <1>1, <1>4 DEF Grouped
  <2>3. out \in Seq(Known(n + 1)) /\ g \in Known(n + 1)
    <3>1. out \in Seq(Known(n)) /\ Known(n) \subseteq Known(n + 1)
      BY <2>2 DEF Grouped
    <3> HIDE DEF Known, g
    <3>2. out \in [1 .. Len(out) -> Known(n + 1)]
      BY <1>2, <3>1
    <3> QED
      BY <1>2, <2>2, <3>2
  <2>4. more \in Seq(Known(n + 1)) /\ Len(more) = Len(out) + 1
        /\ more[Len(out) + 1] = g /\ \A k \in 1 .. Len(out) : more[k] = out[k]
    <3> HIDE DEF Known, g
    <3> QED
      BY <2>3
  <2>5. Group!FirstAt(raw, g) = n + 1
    <3>1. \A j \in 1 .. n : Group!normalize(raw[j]) # g
      BY <2>2
    <3>2. (n + 1) - 1 = n /\ n + 1 \in 1 .. Len(raw)
      OBVIOUS
    <3> QED
      BY <3>1, <3>2, FirstPlace
  <2>6. Group!Held(more) = Known(n + 1)
    <3>1. Group!Held(out) = Known(n)
      BY DEF Grouped
    <3>2. DOMAIN more = 1 .. Len(out) + 1
      <4> HIDE DEF Known, g
      <4> QED
        BY <2>4
    <3>3. 1 .. Len(out) + 1 = (1 .. Len(out)) \cup {Len(out) + 1}
      BY <1>2
    <3> HIDE DEF more, Known, g
    <3>4. Group!Held(more) = Group!Held(out) \cup {g}
      BY <1>2, <2>4, <3>2, <3>3 DEF Group!Held
    <3> QED
      BY <2>2, <3>1, <3>4
  <2> HIDE DEF more, g
  <2>7. \A k \in 1 .. Len(more) : Group!FirstAt(raw, more[k]) \in 1 .. n + 1
    <3> TAKE k \in 1 .. Len(more)
    <3>1. CASE k = Len(out) + 1
      BY <2>4, <2>5, <3>1
    <3>2. CASE k \in 1 .. Len(out)
      BY <2>4, <3>2 DEF Grouped
    <3> QED
      BY <1>2, <2>4, <3>1, <3>2
  <2>8. \A k \in 1 .. Len(more) - 1 : Group!FirstAt(raw, more[k]) < Group!FirstAt(raw, more[k + 1])
    <3> TAKE k \in 1 .. Len(more) - 1
    <3>1. k \in 1 .. Len(out)
      BY <1>2, <2>4
    <3>2. Group!FirstAt(raw, more[k]) \in 1 .. n
      BY <2>4, <3>1 DEF Grouped
    <3>3. CASE k = Len(out)
      BY <2>4, <2>5, <3>2, <3>3
    <3>4. CASE k \in 1 .. Len(out) - 1
      <4>1. k + 1 \in 1 .. Len(out)
        BY <1>2, <3>4
      <4> QED
        BY <2>4, <3>1, <3>4, <4>1 DEF Grouped
    <3>5. k = Len(out) \/ k \in 1 .. Len(out) - 1
      <4>1. \A l \in Nat : \A j \in 1 .. l : j = l \/ j \in 1 .. l - 1
        OBVIOUS
      <4>2. Len(out) \in Nat
        BY <1>2
      <4> QED
        BY <3>1, <4>1, <4>2
    <3> QED
      BY <3>3, <3>4, <3>5
  <2>9. Known(n + 1) = {Group!normalize(raw[k]) : k \in 1 .. n + 1} \ {None}
    OBVIOUS
  <2>10. Grouped(more, raw, n + 1)
    <3> HIDE DEF Known
    <3> QED
      BY <2>4, <2>6, <2>7, <2>8, <2>9, Zenon DEF Grouped
  <2> QED
    BY <2>1, <2>10
<1> QED
  BY <1>3, <1>4

(***************************************************************************)
(* normalize_all: for every list of names Capstone may give, of whatever   *)
(* length, each known group comes out once, in Capstone's order, and       *)
(* nothing else does.  The property GroupsNormalized of the run states it  *)
(* of the rows a client reads.                                             *)
(***************************************************************************)
THEOREM Normalized ==
    ASSUME NEW raw, Len(raw) \in Nat, DOMAIN raw = 1 .. Len(raw)
    PROVE  Group!IsNormalized(Group!normalize_all(raw), raw)
<1>1. PICK f : Normalizing(raw, Len(raw), f) /\ Group!normalize_all(raw) = f[Len(raw)]
  BY NormalizeAllIsNormalizing
<1>2. \A n \in 0 .. Len(raw) : f[n] = IF n = 0 THEN <<>> ELSE Pushed(raw, n, f[n - 1])
  BY <1>1 DEF Normalizing
<1> DEFINE T == {n \in Nat : n <= Len(raw) => Grouped(f[n], raw, n)}
<1>3. 0 \in T
  <2>1. f[0] = <<>> /\ 1 .. 0 = {} /\ DOMAIN <<>> = {} /\ Len(<<>>) = 0
    BY <1>2
  <2>2. {Group!normalize(raw[k]) : k \in 1 .. 0} \ {None} = {} /\ Group!Held(<<>>) = {}
    BY <2>1 DEF Group!Held
  <2>3. <<>> \in Seq({Group!normalize(raw[k]) : k \in 1 .. 0} \ {None})
    OBVIOUS
  <2>4. Grouped(<<>>, raw, 0)
    BY <2>1, <2>2, <2>3 DEF Grouped
  <2> QED
    BY <2>1, <2>4
<1>4. ASSUME NEW n \in Nat, n \in T PROVE n + 1 \in T
  <2> SUFFICES ASSUME n + 1 <= Len(raw) PROVE Grouped(f[n + 1], raw, n + 1)
    OBVIOUS
  <2>1. Grouped(f[n], raw, n)
    BY <1>4
  <2>2. n + 1 \in 0 .. Len(raw) /\ n + 1 # 0 /\ (n + 1) - 1 = n
    OBVIOUS
  <2>3. f[n + 1] = Pushed(raw, n + 1, f[n])
    BY <1>2, <2>2
  <2> QED
    BY <2>1, <2>3, PushGroups
<1>5. \A n \in Nat : n \in T
  <2> HIDE DEF T
  <2> QED
    BY <1>3, <1>4, Induction
<1>6. Grouped(f[Len(raw)], raw, Len(raw))
  BY <1>5
<1> QED
  BY <1>1, <1>6 DEF Grouped, Group!IsNormalized

-----------------------------------------------------------------------------
(***************************************************************************)
(* The columns of a function as built and as advertised.                   *)
(***************************************************************************)
\* The columns have these names, each of them once.
Columned(arrays, names) ==
    /\ IsList(arrays)
    /\ \A n \in names : \E k \in 1 .. Len(arrays) : arrays[k][1] = n
    /\ \A k \in 1 .. Len(arrays) : arrays[k][1] \in names
    /\ \A j, k \in 1 .. Len(arrays) : arrays[j][1] = arrays[k][1] => j = k

\* The metadata gives every column its name and type.
Documented(arrays, result) ==
    /\ IsList(arrays) /\ IsList(result) /\ Len(result) = Len(arrays)
    /\ \A k \in 1 .. Len(arrays) : result[k] = <<arrays[k][1], SqlType[arrays[k][2]]>>

Block(arrays, result, names) == Columned(arrays, names) /\ Documented(arrays, result)

\* Columns put side by side.
LEMMA MoreColumns ==
    ASSUME NEW p, NEW M, Columned(p, M), NEW q, NEW N, Columned(q, N), M \cap N = {}
    PROVE  Columned(p \o q, M \cup N)
<1> DEFINE s == p \o q
<1>1. /\ IsList(s) /\ Len(p) \in Nat /\ Len(q) \in Nat
      /\ Len(s) = Len(p) + Len(q)
      /\ \A k \in 1 .. Len(p) : s[k] = p[k]
      /\ \A k \in 1 .. Len(q) : s[Len(p) + k] = q[k]
  BY Concatenation DEF Columned, Prefix
<1> HIDE DEF s
<1>2. \A k \in 1 .. Len(s) : k \notin 1 .. Len(p) =>
        k - Len(p) \in 1 .. Len(q) /\ s[k] = q[k - Len(p)]
  <2> TAKE k \in 1 .. Len(s)
  <2> HAVE k \notin 1 .. Len(p)
  <2>1. k - Len(p) \in 1 .. Len(q) /\ Len(p) + (k - Len(p)) = k
    BY <1>1
  <2> QED
    BY <1>1, <2>1
<1>3. ASSUME NEW n \in M \cup N PROVE \E k \in 1 .. Len(s) : s[k][1] = n
  <2>1. CASE n \in M
    <3>1. PICK k \in 1 .. Len(p) : p[k][1] = n
      BY <2>1 DEF Columned
    <3> QED
      BY <1>1, <3>1
  <2>2. CASE n \in N
    <3>1. PICK k \in 1 .. Len(q) : q[k][1] = n
      BY <2>2 DEF Columned
    <3>2. Len(p) + k \in 1 .. Len(s)
      BY <1>1
    <3> QED
      BY <1>1, <3>1, <3>2
  <2> QED
    BY <2>1, <2>2
<1>4. \A k \in 1 .. Len(s) : IF k \in 1 .. Len(p) THEN s[k][1] \in M ELSE s[k][1] \in N
  BY <1>1, <1>2 DEF Columned
<1>5. ASSUME NEW j \in 1 .. Len(s), NEW k \in 1 .. Len(s), s[j][1] = s[k][1] PROVE j = k
  <2>1. CASE j \in 1 .. Len(p)
    <3>1. k \in 1 .. Len(p)
      BY <1>4, <1>5, <2>1
    <3> QED
      BY <1>1, <1>5, <2>1, <3>1 DEF Columned
  <2>2. CASE j \notin 1 .. Len(p)
    <3>1. k \notin 1 .. Len(p)
      BY <1>4, <1>5, <2>2
    <3>2. /\ j - Len(p) \in 1 .. Len(q) /\ s[j] = q[j - Len(p)]
          /\ k - Len(p) \in 1 .. Len(q) /\ s[k] = q[k - Len(p)]
      BY <1>2, <2>2, <3>1
    <3>3. j - Len(p) = k - Len(p)
      BY <1>5, <3>2 DEF Columned
    <3> QED
      BY <1>1, <3>3
  <2> QED
    BY <2>1, <2>2
<1>6. Columned(s, M \cup N)
  BY <1>1, <1>3, <1>4, <1>5 DEF Columned
<1> QED
  BY <1>6 DEF s

LEMMA MoreDocumented ==
    ASSUME NEW p, NEW r, Documented(p, r), NEW q, NEW s, Documented(q, s)
    PROVE  Documented(p \o q, r \o s)
<1> DEFINE a == p \o q
           b == r \o s
<1>0. IsList(p) /\ IsList(q) /\ IsList(r) /\ IsList(s)
  BY DEF Documented
<1>1. /\ IsList(a) /\ Len(p) \in Nat /\ Len(q) \in Nat
      /\ Len(a) = Len(p) + Len(q)
      /\ \A k \in 1 .. Len(p) : a[k] = p[k]
      /\ \A k \in 1 .. Len(q) : a[Len(p) + k] = q[k]
  BY <1>0, Concatenation DEF Prefix
<1>2. /\ IsList(b)
      /\ Len(b) = Len(r) + Len(s)
      /\ \A k \in 1 .. Len(r) : b[k] = r[k]
      /\ \A k \in 1 .. Len(s) : b[Len(r) + k] = s[k]
  BY <1>0, Concatenation DEF Prefix
<1>5. Len(r) = Len(p) /\ Len(s) = Len(q)
  BY DEF Documented
<1> HIDE DEF a, b
<1>3. ASSUME NEW k \in 1 .. Len(a) PROVE b[k] = <<a[k][1], SqlType[a[k][2]]>>
  <2>1. CASE k \in 1 .. Len(p)
    <3>1. a[k] = p[k] /\ b[k] = r[k]
      BY <1>1, <1>2, <1>5, <2>1
    <3> QED
      BY <2>1, <3>1 DEF Documented
  <2>2. CASE k \notin 1 .. Len(p)
    <3>1. k - Len(p) \in 1 .. Len(q) /\ Len(p) + (k - Len(p)) = k
      BY <1>1, <2>2
    <3>2. a[k] = q[k - Len(p)] /\ b[k] = s[k - Len(p)]
      BY <1>1, <1>2, <1>5, <3>1
    <3> QED
      BY <3>1, <3>2 DEF Documented
  <2> QED
    BY <2>1, <2>2
<1>4. Documented(a, b)
  BY <1>1, <1>2, <1>3, <1>5 DEF Documented
<1> QED
  BY <1>4 DEF a, b

LEMMA MoreBlocks ==
    ASSUME NEW p, NEW r, NEW M, Block(p, r, M), NEW q, NEW s, NEW N, Block(q, s, N), M \cap N = {}
    PROVE  Block(p \o q, r \o s, M \cup N)
  BY MoreColumns, MoreDocumented DEF Block

\* Where the elements of p \o q come from.
Joins(s, p, q) ==
    /\ IsList(s) /\ Len(p) \in Nat /\ Len(q) \in Nat
    /\ Len(s) = Len(p) + Len(q)
    /\ \A k \in 1 .. Len(p) : s[k] = p[k]
    /\ \A k \in 1 .. Len(q) : s[Len(p) + k] = q[k]

LEMMA Joined ==
    ASSUME NEW p, IsList(p), NEW q, IsList(q)
    PROVE  Joins(p \o q, p, q)
<1> DEFINE s == p \o q
<1>1. /\ IsList(s) /\ Len(p) \in Nat /\ Len(q) \in Nat
      /\ Len(s) = Len(p) + Len(q)
      /\ \A k \in 1 .. Len(p) : s[k] = p[k]
      /\ \A k \in 1 .. Len(q) : s[Len(p) + k] = q[k]
  BY Concatenation DEF Prefix
<1> HIDE DEF s
<1>2. Joins(s, p, q)
  BY <1>1 DEF Joins
<1> QED
  BY <1>2 DEF s

\* Tuples are lists.
LEMMA Tuples ==
    ASSUME NEW a, NEW b, NEW c, NEW d, NEW e
    PROVE  /\ IsList(<<a>>) /\ Len(<<a>>) = 1
           /\ IsList(<<a, b>>) /\ Len(<<a, b>>) = 2
           /\ IsList(<<a, b, c>>) /\ Len(<<a, b, c>>) = 3
           /\ IsList(<<a, b, c, d, e>>) /\ Len(<<a, b, c, d, e>>) = 5
<1> DEFINE X == {a, b, c, d, e}
<1>1. /\ <<a>> \in Seq(X) /\ <<a, b>> \in Seq(X)
      /\ <<a, b, c>> \in Seq(X) /\ <<a, b, c, d, e>> \in Seq(X)
  OBVIOUS
<1> QED
  BY <1>1 DEF IsList

\* Blocks of one, two, three and five columns.
LEMMA OneColumn ==
    ASSUME NEW a, NEW t
    PROVE  Block(<<<<a, t>>>>, <<<<a, SqlType[t]>>>>, {a})
<1> DEFINE p == <<<<a, t>>>>
           r == <<<<a, SqlType[t]>>>>
<1>1. IsList(p) /\ Len(p) = 1 /\ IsList(r) /\ Len(r) = 1
  BY Tuples
<1>2. p[1] = <<a, t>> /\ r[1] = <<a, SqlType[t]>>
  OBVIOUS
<1> HIDE DEF p, r
<1>3. Columned(p, {a})
  BY <1>1, <1>2 DEF Columned
<1>4. Documented(p, r)
  BY <1>1, <1>2 DEF Documented
<1> QED
  BY <1>3, <1>4 DEF p, r, Block

LEMMA TwoColumns ==
    ASSUME NEW a, NEW t, NEW b, NEW u, a # b
    PROVE  Block(<<<<a, t>>, <<b, u>>>>, <<<<a, SqlType[t]>>, <<b, SqlType[u]>>>>, {a, b})
<1> DEFINE p == <<<<a, t>>, <<b, u>>>>
           r == <<<<a, SqlType[t]>>, <<b, SqlType[u]>>>>
<1>1. IsList(p) /\ Len(p) = 2 /\ IsList(r) /\ Len(r) = 2
  BY Tuples
<1>2. p[1] = <<a, t>> /\ r[1] = <<a, SqlType[t]>> /\ p[2] = <<b, u>> /\ r[2] = <<b, SqlType[u]>>
  OBVIOUS
<1> HIDE DEF p, r
<1>3. Columned(p, {a, b})
  BY <1>1, <1>2 DEF Columned
<1>4. Documented(p, r)
  BY <1>1, <1>2 DEF Documented
<1> QED
  BY <1>3, <1>4 DEF p, r, Block

LEMMA ThreeColumns ==
    ASSUME NEW a, NEW t, NEW b, NEW u, NEW c, NEW v, a # b, a # c, b # c
    PROVE  Block(<<<<a, t>>, <<b, u>>, <<c, v>>>>,
                 <<<<a, SqlType[t]>>, <<b, SqlType[u]>>, <<c, SqlType[v]>>>>, {a, b, c})
<1> DEFINE p == <<<<a, t>>, <<b, u>>, <<c, v>>>>
           r == <<<<a, SqlType[t]>>, <<b, SqlType[u]>>, <<c, SqlType[v]>>>>
<1>1. IsList(p) /\ Len(p) = 3 /\ IsList(r) /\ Len(r) = 3
  BY Tuples
<1>2. /\ p[1] = <<a, t>> /\ p[2] = <<b, u>> /\ p[3] = <<c, v>>
      /\ r[1] = <<a, SqlType[t]>> /\ r[2] = <<b, SqlType[u]>> /\ r[3] = <<c, SqlType[v]>>
  OBVIOUS
<1> HIDE DEF p, r
<1>3. Columned(p, {a, b, c})
  BY <1>1, <1>2 DEF Columned
<1>4. Documented(p, r)
  BY <1>1, <1>2 DEF Documented
<1> QED
  BY <1>3, <1>4 DEF p, r, Block

LEMMA FiveColumns ==
    ASSUME NEW a, NEW b, NEW c, NEW d, NEW e, NEW t,
           a \notin {b, c, d, e}, b \notin {c, d, e}, c \notin {d, e}, d # e
    PROVE  Block(<<<<a, t>>, <<b, t>>, <<c, t>>, <<d, t>>, <<e, t>>>>,
                 <<<<a, SqlType[t]>>, <<b, SqlType[t]>>, <<c, SqlType[t]>>,
                   <<d, SqlType[t]>>, <<e, SqlType[t]>>>>,
                 {a, b, c, d, e})
<1> DEFINE p == <<<<a, t>>, <<b, t>>, <<c, t>>, <<d, t>>, <<e, t>>>>
           r == <<<<a, SqlType[t]>>, <<b, SqlType[t]>>, <<c, SqlType[t]>>,
                  <<d, SqlType[t]>>, <<e, SqlType[t]>>>>
<1>1. IsList(p) /\ Len(p) = 5 /\ IsList(r) /\ Len(r) = 5
  BY Tuples
<1>2. /\ p[1] = <<a, t>> /\ p[2] = <<b, t>> /\ p[3] = <<c, t>> /\ p[4] = <<d, t>> /\ p[5] = <<e, t>>
      /\ r[1] = <<a, SqlType[t]>> /\ r[2] = <<b, SqlType[t]>> /\ r[3] = <<c, SqlType[t]>>
      /\ r[4] = <<d, SqlType[t]>> /\ r[5] = <<e, SqlType[t]>>
  OBVIOUS
<1> HIDE DEF p, r
<1>3. Columned(p, {a, b, c, d, e})
  BY <1>1, <1>2 DEF Columned
<1>4. Documented(p, r)
  BY <1>1, <1>2 DEF Documented
<1> QED
  BY <1>3, <1>4 DEF p, r, Block

\* The columns of each table function.
LEMMA SectionsBlock == \E N : Block(sections_arrays, sections_result, N)
<1>1. Block(Each(<<"name", "kind">>, "Utf8"), Each(<<"name", "kind">>, "VARCHAR"), {"name", "kind"})
  BY TwoColumns DEF Each, SqlType
<1>2. Block(Each(<<"vaddr", "size", "file_off">>, "UInt64"),
            Each(<<"vaddr", "size", "file_off">>, "UBIGINT"),
            {"vaddr", "size", "file_off"})
  BY ThreeColumns DEF Each, SqlType
<1>3. Block(<<<<"exec", "Boolean">>, <<"entropy", "Float64">>>>,
            <<<<"exec", "BOOLEAN">>, <<"entropy", "DOUBLE">>>>, {"exec", "entropy"})
  BY TwoColumns DEF SqlType
<1>4. Block(Each(<<"name", "kind">>, "Utf8") \o Each(<<"vaddr", "size", "file_off">>, "UInt64"),
            Each(<<"name", "kind">>, "VARCHAR") \o Each(<<"vaddr", "size", "file_off">>, "UBIGINT"),
            {"name", "kind"} \cup {"vaddr", "size", "file_off"})
  BY <1>1, <1>2, MoreBlocks
<1>5. Block(sections_arrays, sections_result,
            ({"name", "kind"} \cup {"vaddr", "size", "file_off"}) \cup {"exec", "entropy"})
  BY <1>3, <1>4, MoreBlocks DEF sections_arrays, sections_result
<1> QED
  BY <1>5

LEMMA DisassembleBlock == \E N : Block(disassemble_arrays, disassemble_result, N)
<1>1. Block(<<<<"address", "UInt64">>, <<"size", "UInt8">>, <<"bytes", "Binary">>>>,
            <<<<"address", "UBIGINT">>, <<"size", "UTINYINT">>, <<"bytes", "BLOB">>>>,
            {"address", "size", "bytes"})
  BY ThreeColumns DEF SqlType
<1>2. Block(Each(<<"mnemonic", "op_str">>, "Utf8"), Each(<<"mnemonic", "op_str">>, "VARCHAR"),
            {"mnemonic", "op_str"})
  BY TwoColumns DEF Each, SqlType
<1>3. Block(Each(<<"groups">>, "ListUtf8"), Each(<<"groups">>, "VARCHAR[]"), {"groups"})
  BY OneColumn DEF Each, SqlType
<1>4. Block(<<<<"address", "UInt64">>, <<"size", "UInt8">>, <<"bytes", "Binary">>>>
              \o Each(<<"mnemonic", "op_str">>, "Utf8"),
            <<<<"address", "UBIGINT">>, <<"size", "UTINYINT">>, <<"bytes", "BLOB">>>>
              \o Each(<<"mnemonic", "op_str">>, "VARCHAR"),
            {"address", "size", "bytes"} \cup {"mnemonic", "op_str"})
  BY <1>1, <1>2, MoreBlocks
<1>5. Block(disassemble_arrays, disassemble_result,
            ({"address", "size", "bytes"} \cup {"mnemonic", "op_str"}) \cup {"groups"})
  BY <1>3, <1>4, MoreBlocks DEF disassemble_arrays, disassemble_result
<1> QED
  BY <1>5

LEMMA ImportsBlock == \E N : Block(imports_arrays, imports_result, N)
<1>1. Block(Each(<<"library", "name">>, "Utf8"), Each(<<"library", "name">>, "VARCHAR"),
            {"library", "name"})
  BY TwoColumns DEF Each, SqlType
<1>2. Block(<<<<"ordinal", "Int32">>, <<"kind", "Utf8">>>>,
            <<<<"ordinal", "INTEGER">>, <<"kind", "VARCHAR">>>>, {"ordinal", "kind"})
  BY TwoColumns DEF SqlType
<1>3. Block(imports_arrays, imports_result, {"library", "name"} \cup {"ordinal", "kind"})
  BY <1>1, <1>2, MoreBlocks DEF imports_arrays, imports_result
<1> QED
  BY <1>3

LEMMA StringsBlock == \E N : Block(strings_arrays, strings_result, N)
<1>1. Block(<<<<"offset", "UInt64">>>>, <<<<"offset", "UBIGINT">>>>, {"offset"})
  BY OneColumn DEF SqlType
<1>2. Block(Each(<<"encoding", "value">>, "Utf8"), Each(<<"encoding", "value">>, "VARCHAR"),
            {"encoding", "value"})
  BY TwoColumns DEF Each, SqlType
<1>3. Block(strings_arrays, strings_result, {"offset"} \cup {"encoding", "value"})
  BY <1>1, <1>2, MoreBlocks DEF strings_arrays, strings_result
<1> QED
  BY <1>3

LEMMA CapabilitiesBlock == \E N : Block(capabilities_arrays, capabilities_result, N)
<1>1. Block(capabilities_arrays, capabilities_result,
            {"rule", "attack_id", "attack_name", "severity", "evidence"})
  BY FiveColumns DEF capabilities_arrays, capabilities_result, Each, SqlType
<1> QED
  BY <1>1

(***************************************************************************)
(* The arrays of a table function are those of the bound schema, and what  *)
(* the metadata says of them is true.                                      *)
(***************************************************************************)
LEMMA TableColumns ==
    ASSUME NEW fn \in DOMAIN TableFunctions
    PROVE  /\ TableFunctions[fn].schema = TableFunctions[fn].arrays
           /\ \E N : Block(TableFunctions[fn].arrays, TableFunctions[fn].result, N)
<1> USE DEF TableFunctions, Function
<1>1. CASE fn = "disassemble"
  <2>1. disassemble_schema = disassemble_arrays
    BY DEF disassemble_schema, disassemble_arrays
  <2> QED
    BY <1>1, <2>1, DisassembleBlock
<1>2. CASE fn = "sections"
  <2>1. sections_schema = sections_arrays
    BY DEF sections_schema, sections_arrays
  <2> QED
    BY <1>2, <2>1, SectionsBlock
<1>3. CASE fn = "imports"
  <2>1. imports_schema = imports_arrays
    BY DEF imports_schema, imports_arrays
  <2> QED
    BY <1>3, <2>1, ImportsBlock
<1>4. CASE fn = "strings"
  <2>1. strings_schema = strings_arrays
    BY DEF strings_schema, strings_arrays
  <2> QED
    BY <1>4, <2>1, StringsBlock
<1>5. CASE fn = "capabilities"
  <2>1. capabilities_schema = capabilities_arrays
    BY DEF capabilities_schema, capabilities_arrays
  <2> QED
    BY <1>5, <2>1, CapabilitiesBlock
<1>6. fn \in {"disassemble", "sections", "imports", "strings", "capabilities"}
  OBVIOUS
<1> QED
  BY <1>1, <1>2, <1>3, <1>4, <1>5, <1>6

\* The names of a scalar's fields, one after the other.
Listed(arrays, result) ==
    /\ IsList(result) /\ Len(result) = Len(arrays)
    /\ \A k \in 1 .. Len(arrays) : result[k] = arrays[k][1]

\* The columns of each scalar function.
LEMMA FormatBlock == Listed(format_arrays, format_result) /\ \E N : Columned(format_arrays, N)
<1> DEFINE p == Each(<<"container", "arch", "mode">>, "Utf8")
           q == <<<<"bits", "UInt8">>, <<"endian", "Utf8">>, <<"entry", "UInt64">>>>
<1>1. p = <<<<"container", "Utf8">>, <<"arch", "Utf8">>, <<"mode", "Utf8">>>>
  BY DEF Each
<1>2. Columned(p, {"container", "arch", "mode"}) /\ Len(p) = 3
  <2>1. Len(p) = 3
    BY <1>1
  <2> QED
    BY <1>1, <2>1, ThreeColumns DEF Block
<1>3. Columned(q, {"bits", "endian", "entry"}) /\ Len(q) = 3
  BY ThreeColumns DEF Block
<1>4. /\ p[1][1] = "container" /\ p[2][1] = "arch" /\ p[3][1] = "mode"
      /\ q[1][1] = "bits" /\ q[2][1] = "endian" /\ q[3][1] = "entry"
  BY <1>1
<1>5. format_arrays = p \o q
  BY DEF format_arrays
<1> HIDE DEF p, q
<1>6. Columned(format_arrays, {"container", "arch", "mode"} \cup {"bits", "endian", "entry"})
  BY <1>2, <1>3, <1>5, MoreColumns
<1>7. /\ Len(format_arrays) = 6
      /\ \A k \in 1 .. 3 : format_arrays[k] = p[k]
      /\ \A k \in 1 .. 3 : format_arrays[3 + k] = q[k]
  <2>1. Joins(format_arrays, p, q)
    BY <1>2, <1>3, <1>5, Joined DEF Columned
  <2> QED
    BY <1>2, <1>3, <2>1 DEF Joins
<1>8. /\ format_arrays[1][1] = "container" /\ format_arrays[2][1] = "arch"
      /\ format_arrays[3][1] = "mode" /\ format_arrays[4][1] = "bits"
      /\ format_arrays[5][1] = "endian" /\ format_arrays[6][1] = "entry"
  <2>1. 3 + 1 = 4 /\ 3 + 2 = 5 /\ 3 + 3 = 6
    OBVIOUS
  <2> QED
    BY <1>4, <1>7, <2>1
<1>9. /\ format_result \in Seq({"container", "arch", "mode", "bits", "endian", "entry"})
      /\ Len(format_result) = 6
  BY DEF format_result
<1>10. \A k \in 1 .. 6 : format_result[k] = format_arrays[k][1]
  BY <1>8 DEF format_result
<1> QED
  BY <1>5, <1>6, <1>7, <1>9, <1>10 DEF Listed, IsList

LEMMA EntrypointBlock ==
    Listed(entrypoint_arrays, entrypoint_result) /\ \E N : Columned(entrypoint_arrays, N)
<1> DEFINE p == Each(<<"arch", "mode">>, "Utf8")
           q == Each(<<"vaddr", "file_off">>, "UInt64")
           r == <<<<"section", "Utf8">>>>
<1>1. /\ p = <<<<"arch", "Utf8">>, <<"mode", "Utf8">>>>
      /\ q = <<<<"vaddr", "UInt64">>, <<"file_off", "UInt64">>>>
  BY DEF Each
<1>2. Len(p) = 2 /\ Len(q) = 2 /\ Len(r) = 1
  BY <1>1
<1>3. Columned(p, {"arch", "mode"})
  BY <1>1, TwoColumns DEF Block
<1>4. Columned(q, {"vaddr", "file_off"})
  BY <1>1, TwoColumns DEF Block
<1>5. Columned(r, {"section"})
  BY OneColumn DEF Block
<1>6. /\ p[1][1] = "arch" /\ p[2][1] = "mode" /\ q[1][1] = "vaddr"
      /\ q[2][1] = "file_off" /\ r[1][1] = "section"
  BY <1>1
<1>7. entrypoint_arrays = (p \o q) \o r
  BY DEF entrypoint_arrays
<1> HIDE DEF p, q, r
<1>8. Columned(p \o q, {"arch", "mode"} \cup {"vaddr", "file_off"})
  BY <1>3, <1>4, MoreColumns
<1>9. Columned(entrypoint_arrays, ({"arch", "mode"} \cup {"vaddr", "file_off"}) \cup {"section"})
  BY <1>5, <1>7, <1>8, MoreColumns
<1> DEFINE s == p \o q
<1>10. /\ IsList(s) /\ Len(s) = 4
       /\ \A k \in 1 .. 2 : s[k] = p[k]
       /\ \A k \in 1 .. 2 : s[2 + k] = q[k]
  <2>1. Joins(s, p, q)
    BY <1>3, <1>4, Joined DEF Columned
  <2> HIDE DEF s
  <2> QED
    BY <1>2, <2>1 DEF Joins
<1> HIDE DEF s
<1>11. /\ Len(entrypoint_arrays) = 5
       /\ \A k \in 1 .. 4 : entrypoint_arrays[k] = s[k]
       /\ \A k \in 1 .. 1 : entrypoint_arrays[4 + k] = r[k]
  <2>1. IsList(r) /\ entrypoint_arrays = s \o r
    BY <1>5, <1>7 DEF Columned, s
  <2>2. Joins(entrypoint_arrays, s, r)
    BY <1>10, <2>1, Joined
  <2> QED
    BY <1>2, <1>10, <2>2 DEF Joins
<1>12. /\ entrypoint_arrays[1][1] = "arch" /\ entrypoint_arrays[2][1] = "mode"
       /\ entrypoint_arrays[3][1] = "vaddr" /\ entrypoint_arrays[4][1] = "file_off"
       /\ entrypoint_arrays[5][1] = "section"
  <2>1. 2 + 1 = 3 /\ 2 + 2 = 4 /\ 4 + 1 = 5
    OBVIOUS
  <2> QED
    BY <1>6, <1>10, <1>11, <2>1
<1>13. /\ entrypoint_result \in Seq({"arch", "mode", "vaddr", "file_off", "section"})
       /\ Len(entrypoint_result) = 5
  BY DEF entrypoint_result
<1>14. \A k \in 1 .. 5 : entrypoint_result[k] = entrypoint_arrays[k][1]
  BY <1>12 DEF entrypoint_result
<1> QED
  BY <1>9, <1>11, <1>13, <1>14 DEF Listed, IsList

\* The fields of a scalar are those of its STRUCT, in the order its description lists.
LEMMA ScalarColumns ==
    ASSUME NEW fn \in DOMAIN ScalarFunctions
    PROVE  /\ ScalarFunctions[fn].schema = ScalarFunctions[fn].arrays
           /\ Listed(ScalarFunctions[fn].arrays, ScalarFunctions[fn].result)
           /\ \E N : Columned(ScalarFunctions[fn].arrays, N)
<1> USE DEF ScalarFunctions, Function
<1>1. CASE fn = "format"
  <2>1. format_fields = format_arrays
    BY DEF format_fields, format_arrays
  <2> QED
    BY <1>1, <2>1, FormatBlock
<1>2. CASE fn = "entrypoint"
  <2>1. entrypoint_fields = entrypoint_arrays
    BY DEF entrypoint_fields, entrypoint_arrays
  <2> QED
    BY <1>2, <2>1, EntrypointBlock
<1> QED
  BY <1>1, <1>2

(***************************************************************************)
(* The columns of a call's function: names and types agree in all three    *)
(* places, and every field of the core's rows has one column.              *)
(***************************************************************************)
Sound(c) ==
    /\ TypesAgree(c)
    /\ Columned(Adapter(c).arrays, FieldsOf(req[c].fn))
    /\ DOMAIN Adapter(c).arrays = 1 .. Len(Adapter(c).arrays)
    /\ DOMAIN Adapter(c).result = 1 .. Len(Adapter(c).arrays)
    /\ \A k \in 1 .. Len(Adapter(c).arrays) :
         AdvertisedName(c, k) = Adapter(c).arrays[k][1] /\ AsAdvertised(c, k)

\* The names of the columns are the fields the builders are fed with.
LEMMA NamesAreFields ==
    ASSUME NEW fn, NEW N, Columned(AdapterOf(fn).arrays, N)
    PROVE  N = FieldsOf(fn) /\ DOMAIN AdapterOf(fn).arrays = 1 .. Len(AdapterOf(fn).arrays)
<1> DEFINE a == AdapterOf(fn).arrays
<1>1. DOMAIN a = 1 .. Len(a)
  BY DEF Columned, IsList
<1>2. \A n \in N : \E k \in DOMAIN a : a[k][1] = n
  BY <1>1 DEF Columned
<1>3. \A k \in DOMAIN a : a[k][1] \in N
  BY <1>1 DEF Columned
<1> QED
  BY <1>1, <1>2, <1>3 DEF FieldsOf

\* The columns of all seven functions are sound.
LEMMA ColumnsSound ==
    ASSUME NEW c \in Calls, req \in Workloads
    PROVE  Sound(c)
<1> DEFINE fn == req[c].fn
<1>1. fn \in DOMAIN TableFunctions \/ fn \in DOMAIN ScalarFunctions
  BY WorkloadsAssumption
<1>2. CASE Scalar(c)
  <2>1. /\ fn \in DOMAIN ScalarFunctions /\ Adapter(c) = ScalarFunctions[fn]
        /\ AdapterOf(fn) = ScalarFunctions[fn]
    BY <1>2 DEF Scalar, Adapter, AdapterOf
  <2>2. /\ Adapter(c).schema = Adapter(c).arrays
        /\ Listed(Adapter(c).arrays, Adapter(c).result)
        /\ \E N : Columned(Adapter(c).arrays, N)
    BY <2>1, ScalarColumns
  <2>3. /\ Columned(Adapter(c).arrays, FieldsOf(fn))
        /\ DOMAIN Adapter(c).arrays = 1 .. Len(Adapter(c).arrays)
    BY <2>1, <2>2, NamesAreFields
  <2>4. DOMAIN Adapter(c).result = 1 .. Len(Adapter(c).arrays)
    BY <2>2 DEF Listed, IsList
  <2>5. TypesAgree(c)
    BY <2>2 DEF TypesAgree
  <2>6. \A k \in 1 .. Len(Adapter(c).arrays) :
          AdvertisedName(c, k) = Adapter(c).arrays[k][1] /\ AsAdvertised(c, k)
    BY <1>2, <2>2 DEF Listed, AdvertisedName, AsAdvertised
  <2> QED
    BY <2>3, <2>4, <2>5, <2>6 DEF Sound
<1>3. CASE ~Scalar(c)
  <2>1. /\ fn \in DOMAIN TableFunctions /\ Adapter(c) = TableFunctions[fn]
        /\ AdapterOf(fn) = TableFunctions[fn]
    BY <1>1, <1>3 DEF Scalar, Adapter, AdapterOf
  <2>2. /\ Adapter(c).schema = Adapter(c).arrays
        /\ \E N : Block(Adapter(c).arrays, Adapter(c).result, N)
    BY <2>1, TableColumns
  <2>3. Documented(Adapter(c).arrays, Adapter(c).result) /\ \E N : Columned(Adapter(c).arrays, N)
    BY <2>2 DEF Block
  <2>4. /\ Columned(Adapter(c).arrays, FieldsOf(fn))
        /\ DOMAIN Adapter(c).arrays = 1 .. Len(Adapter(c).arrays)
    BY <2>1, <2>3, NamesAreFields
  <2>5. DOMAIN Adapter(c).result = 1 .. Len(Adapter(c).arrays)
    BY <2>3 DEF Documented, IsList
  <2>6. TypesAgree(c)
    BY <2>2 DEF TypesAgree
  <2>7. \A k \in 1 .. Len(Adapter(c).arrays) :
          AdvertisedName(c, k) = Adapter(c).arrays[k][1] /\ AsAdvertised(c, k)
    BY <1>3, <2>2, <2>3 DEF Documented, AdvertisedName, AsAdvertised
  <2> QED
    BY <2>4, <2>5, <2>6, <2>7 DEF Sound
<1> QED
  BY <1>2, <1>3

(***************************************************************************)
(* The values of a core row, in the order of the arrays and read by the    *)
(* advertised names, are the row.                                          *)
(***************************************************************************)
LEMMA ReadBack ==
    ASSUME NEW c \in Calls, Sound(c), NEW row, row = [f \in FieldsOf(req[c].fn) |-> row[f]],
           NEW v, DOMAIN v = DOMAIN Adapter(c).arrays,
           \A k \in DOMAIN v : v[k] = row[Adapter(c).arrays[k][1]]
    PROVE  ReadByName(c, v) = row
<1> DEFINE a == Adapter(c).arrays
           N == FieldsOf(req[c].fn)
<1>1. DOMAIN v = 1 .. Len(a) /\ DOMAIN Adapter(c).result = 1 .. Len(a)
  BY DEF Sound
<1>2. {AdvertisedName(c, k) : k \in DOMAIN Adapter(c).result} = N
  BY <1>1 DEF Sound, Columned
<1>3. ASSUME NEW n \in N
      PROVE  LET k == CHOOSE j \in DOMAIN v : AdvertisedName(c, j) = n
             IN  AsAdvertised(c, k) /\ v[k] = row[n]
  <2>1. \E j \in DOMAIN v : AdvertisedName(c, j) = n
    BY <1>1 DEF Sound, Columned
  <2> DEFINE k == CHOOSE j \in DOMAIN v : AdvertisedName(c, j) = n
  <2>2. k \in DOMAIN v /\ AdvertisedName(c, k) = n
    BY <2>1
  <2> HIDE DEF k
  <2>3. AsAdvertised(c, k) /\ a[k][1] = n
    BY <1>1, <2>2 DEF Sound
  <2>4. v[k] = row[n]
    BY <2>2, <2>3
  <2>5. AsAdvertised(c, k) /\ v[k] = row[n]
    BY <2>3, <2>4
  <2> QED
    BY <2>5 DEF k
<1>4. ReadByName(c, v) = [n \in N |-> row[n]]
  <2>1. ReadByName(c, v) =
          [n \in N |-> LET k == CHOOSE j \in DOMAIN v : AdvertisedName(c, j) = n
                       IN  IF AsAdvertised(c, k) THEN v[k] ELSE None]
    BY <1>2 DEF ReadByName
  <2>2. \A n \in N : (LET k == CHOOSE j \in DOMAIN v : AdvertisedName(c, j) = n
                      IN  IF AsAdvertised(c, k) THEN v[k] ELSE None) = row[n]
    BY <1>3
  <2> HIDE DEF N
  <2> QED
    BY <2>1, <2>2
<1> QED
  BY <1>4

LEMMA ArraysReadBack ==
    ASSUME NEW c \in Calls, Sound(c), NEW row, row = [f \in FieldsOf(req[c].fn) |-> row[f]]
    PROVE  ReadByName(c, ArrayValues(c, row)) = row
<1> DEFINE v == ArrayValues(c, row)
<1>1. DOMAIN v = DOMAIN Adapter(c).arrays /\ \A k \in DOMAIN v : v[k] = row[Adapter(c).arrays[k][1]]
  BY DEF ArrayValues
<1> HIDE DEF v
<1>2. ReadByName(c, v) = row
  BY <1>1, ReadBack
<1> QED
  BY <1>2 DEF v

-----------------------------------------------------------------------------
(***************************************************************************)
(* The remainder of a division is the only residue among the addresses, so *)
(* a cast of base keeps what it counts as.                                 *)
(***************************************************************************)
LEMMA OneRemainder ==
    ASSUME NEW n \in Nat \ {0}, NEW p \in Int, NEW q \in Int,
           NEW r \in 0 .. n - 1, NEW s \in 0 .. n - 1, n * p + r = n * q + s
    PROVE  r = s
<1>1. ASSUME NEW d \in Nat \ {0} PROVE n * d >= n
  BY <1>1
<1>2. n * (p - q) = n * p - n * q /\ n * (q - p) = n * q - n * p
  BY Z3
<1>3. n * p \in Int /\ n * q \in Int
  OBVIOUS
<1>4. CASE p > q
  <2>1. p - q \in Nat \ {0}
    BY <1>4
  <2>2. n * p - n * q >= n
    BY <1>1, <1>2, <2>1
  <2> QED
    BY <1>3, <2>2
<1>5. CASE q > p
  <2>1. q - p \in Nat \ {0}
    BY <1>5
  <2>2. n * q - n * p >= n
    BY <1>1, <1>2, <2>1
  <2> QED
    BY <1>3, <2>2
<1>6. CASE p = q
  BY <1>3, <1>6
<1> QED
  BY <1>4, <1>5, <1>6

LEMMA Division ==
    ASSUME NEW n \in Nat \ {0}, NEW y \in Int
    PROVE  y \div n \in Int /\ y % n \in 0 .. n - 1 /\ n * (y \div n) + (y % n) = y
<1>1. y % n \in 0 .. n - 1 /\ y = n * (y \div n) + (y % n)
  BY SMTT(30)
<1>2. y \div n \in Int
  BY SMTT(30)
<1>3. n * (y \div n) + (y % n) = y
  BY <1>1
<1> QED
  BY <1>1, <1>2, <1>3

LEMMA Residue ==
    ASSUME NEW n \in Nat \ {0}, NEW x \in Int
    PROVE  (CHOOSE a \in 0 .. n - 1 : (x - a) % n = 0) = x % n
<1>1. \A y \in Int : y \div n \in Int /\ y % n \in 0 .. n - 1 /\ n * (y \div n) + (y % n) = y
  BY Division
<1> DEFINE r == x % n
           p == x \div n
<1>2. p \in Int /\ r \in 0 .. n - 1 /\ n * p + r = x
  BY <1>1
<1>3. (x - r) % n = 0
  <2> DEFINE s == (x - r) % n
             q == (x - r) \div n
  <2>1. x - r \in Int
    BY <1>2
  <2>2. q \in Int /\ s \in 0 .. n - 1 /\ n * q + s = x - r
    BY <1>1, <2>1
  <2> HIDE DEF s, q, r, p
  <2>3. n * p \in Int /\ n * q \in Int
    BY <1>2, <2>2
  <2>4. n * p + 0 = n * q + s
    BY <1>2, <2>2, <2>3
  <2>5. 0 \in 0 .. n - 1
    OBVIOUS
  <2>6. s = 0
    BY <1>2, <2>2, <2>4, <2>5, OneRemainder
  <2> QED
    BY <2>6 DEF s
<1>4. ASSUME NEW a \in 0 .. n - 1, (x - a) % n = 0 PROVE a = r
  <2> DEFINE q == (x - a) \div n
  <2>1. x - a \in Int
    OBVIOUS
  <2>2. q \in Int /\ n * q + 0 = x - a
    BY <1>1, <1>4, <2>1
  <2> HIDE DEF q, r, p
  <2>3. n * p \in Int /\ n * q \in Int
    BY <1>2, <2>2
  <2>4. n * q + a = n * p + r
    BY <1>2, <2>2, <2>3
  <2> QED
    BY <1>2, <2>2, <2>4, OneRemainder
<1> QED
  BY <1>2, <1>3, <1>4

-----------------------------------------------------------------------------
\* Lists of one length with the same elements.
LEMMA SameLists ==
    ASSUME NEW s, IsList(s), NEW t, IsList(t), Len(s) = Len(t), \A k \in 1 .. Len(s) : s[k] = t[k]
    PROVE  s = t
<1>1. PICK X : s \in Seq(X)
  BY DEF IsList
<1>2. PICK Y : t \in Seq(Y)
  BY DEF IsList
<1>3. s = [k \in 1 .. Len(s) |-> s[k]] /\ t = [k \in 1 .. Len(t) |-> t[k]]
  BY <1>1, <1>2
<1> QED
  BY <1>3

\* Nothing appended, and one element appended.
LEMMA NothingMore ==
    ASSUME NEW s, IsList(s)
    PROVE  s \o <<>> = s /\ <<>> \o s = s
<1>1. PICK X : s \in Seq(X)
  BY DEF IsList
<1>2. s \o <<>> = s
  BY <1>1
<1>3. <<>> \o s = s
  BY <1>1
<1> QED
  BY <1>2, <1>3

LEMMA OneMore ==
    ASSUME NEW s, IsList(s), NEW one, IsList(one), Len(one) = 1
    PROVE  /\ IsList(s \o one) /\ Len(s \o one) = Len(s) + 1
           /\ \A k \in 1 .. Len(s) : (s \o one)[k] = s[k]
           /\ (s \o one)[Len(s) + 1] = one[1]
<1> DEFINE t == s \o one
<1>1. Joins(t, s, one)
  BY Joined
<1> HIDE DEF t
<1>2. IsList(t) /\ Len(t) = Len(s) + 1 /\ t[Len(s) + 1] = one[1]
  <2>1. 1 \in 1 .. Len(one)
    OBVIOUS
  <2> QED
    BY <1>1, <2>1 DEF Joins
<1>3. \A k \in 1 .. Len(s) : t[k] = s[k]
  BY <1>1 DEF Joins
<1> QED
  BY <1>2, <1>3 DEF t

\* What the client asks for is what the core is passed.
LEMMA AskedIsPassed ==
    ASSUME Typed, NEW c \in Calls
    PROVE  Promise!Asked(req[c]) = core_args(req[c])
<1> DEFINE r == req[c]
<1>1. CASE r.fn = "disassemble"
  <2> DEFINE cast(x) == IF x = None THEN None ELSE x % AddrSpace
             asked(x) == IF x = None THEN None
                         ELSE CHOOSE a \in 0 .. AddrSpace - 1 : (x - a) % AddrSpace = 0
  <2>1. r.args.base = None \/ r.args.base \in Int
    BY <1>1, WorkloadsAssumption DEF Typed
  <2>2. asked(r.args.base) = cast(r.args.base)
    BY <2>1, Residue, WorkerAddrSpaceAssumption
  <2>3. core_args(r) = [r.args EXCEPT !.base = cast(@), !.section = IF @ = None THEN "auto" ELSE @]
    BY <1>1 DEF core_args, disassemble_args
  <2>4. Promise!Asked(r)
          = [r.args EXCEPT !.base = asked(@), !.section = IF @ = None THEN "auto" ELSE @]
    BY <1>1 DEF Promise!Asked
  <2> HIDE DEF cast, asked
  <2> QED
    BY <2>2, <2>3, <2>4
<1>2. CASE r.fn = "strings"
  <2> DEFINE passed(x) == IF x = None \/ x < 0 THEN 4 ELSE x % (UsizeMax + 1)
             asked(x) == IF x \in Nat THEN x % (UsizeMax + 1) ELSE 4
  <2>1. r.args.min_len = None \/ r.args.min_len \in Int
    BY <1>2, WorkloadsAssumption DEF Typed
  <2>2. asked(r.args.min_len) = passed(r.args.min_len)
    <3>1. CASE r.args.min_len = None
      BY <3>1, NoneAssumption
    <3>2. CASE r.args.min_len \in Nat
      BY <3>2, NoneAssumption
    <3>3. CASE r.args.min_len \in Int \ Nat
      BY <3>3
    <3> QED
      BY <2>1, <3>1, <3>2, <3>3
  <2>3. core_args(r) = [r.args EXCEPT !.min_len = passed(@)]
    BY <1>2 DEF core_args, strings_args
  <2>4. Promise!Asked(r) = [r.args EXCEPT !.min_len = asked(@)]
    BY <1>2 DEF Promise!Asked
  <2> HIDE DEF passed, asked
  <2> QED
    BY <2>2, <2>3, <2>4
<1>3. CASE r.fn # "disassemble" /\ r.fn # "strings"
  BY <1>3 DEF core_args, Promise!Asked
<1> QED
  BY <1>1, <1>2, <1>3

-----------------------------------------------------------------------------
(***************************************************************************)
(* The inductive invariant of the refinement: where the rows of a call are *)
(* at each place of its code.                                              *)
(***************************************************************************)
\* Before its first answer.
Early(c) == pc[c] \in {"build", "set name", "read name", "input", "read file", "convert"}

\* A producer has the rows until the client has them.
TableInv(c) ==
    /\ Early(c) => rows[c] = None /\ got[c] = <<>> /\ i[c] = 1
    /\ pc[c] = "batches" =>
         /\ i[c] = 2
         /\ rows[c] # None => got[c] = <<>> /\ CoreRows(rows[c], req[c].fn)
    /\ pc[c] = "done" => rows[c] = None
    /\ pc[c] # "failed"

\* Every builder has as many values as there are validity bits.
ScalarInv(c) ==
    /\ pc[c] # "batches"
    /\ IsList(valid[c])
    /\ DOMAIN cols[c] = DOMAIN Adapter(c).arrays
    /\ \A k \in DOMAIN cols[c] : IsList(cols[c][k]) /\ Len(cols[c][k]) = Len(valid[c])

CallInv(c) ==
    /\ Scalar(c) => ScalarInv(c)
    /\ ~Scalar(c) => TableInv(c)
    /\ Converting(c) => bytes[c] \in InputsOf(req[c]) \cup {None}

CallsInv ==
    /\ DOMAIN rows = Calls /\ DOMAIN cols = Calls /\ DOMAIN valid = Calls /\ DOMAIN got = Calls
    /\ \A c \in Calls : CallInv(c)

\* What a call works on, its request aside.
Untouched(d) ==
    /\ pc'[d] = pc[d] /\ i'[d] = i[d] /\ bytes'[d] = bytes[d] /\ rows'[d] = rows[d]
    /\ cols'[d] = cols[d] /\ valid'[d] = valid[d] /\ got'[d] = got[d]

(***************************************************************************)
(* The steps of a call touch no other call.                                *)
(***************************************************************************)
LEMMA OthersUntouched ==
    ASSUME Typed, CallsInv, NEW c \in Calls, Step(c)
    PROVE  /\ UNCHANGED <<fs, changes, req>>
           /\ (/\ DOMAIN rows = Calls /\ DOMAIN cols = Calls
               /\ DOMAIN valid = Calls /\ DOMAIN got = Calls)'
           /\ \A d \in Calls \ {c} : Untouched(d)
<1> USE DEF Typed, CallsInv, Untouched
<1>1. CASE Build(c)
  BY <1>1 DEF Build, LookForName, SetName, ReadName, Transition, Goto
<1>2. CASE Resolve(c)
  <2>1. CASE LookAtFile(c)
    BY <2>1 DEF LookAtFile, Resolved, Goto
  <2>2. CASE OtherType(c)
    BY <2>2 DEF OtherType, Resolved, Goto
  <2> QED
    BY <1>2, <2>1, <2>2 DEF Resolve, TakeInline, NullCell, ReadFile, Resolved, Goto
<1>3. CASE Table(c)
  BY <1>3 DEF Table, Produce, NextBatch, NoMoreBatches, Transition, Goto
<1>4. CASE Process(c)
  BY <1>4 DEF Process, AppendRow, AppendNull, AppendTo, ReturnColumn, Transition, Goto
<1> QED
  BY <1>1, <1>2, <1>3, <1>4 DEF Step

\* A call that no step touches keeps its invariant.
LEMMA CallInvKept ==
    ASSUME NEW d \in Calls, CallInv(d), UNCHANGED req, Untouched(d)
    PROVE  CallInv(d)'
<1> USE DEF Untouched, Scalar, Adapter
<1>1. ScalarInv(d) => ScalarInv(d)'
  BY DEF ScalarInv, IsList
<1>2. TableInv(d) => TableInv(d)'
  BY DEF TableInv, Early, CoreRows
<1> QED
  BY <1>1, <1>2 DEF CallInv, Converting

LEMMA CallsInit == ASSUME Init PROVE CallsInv
<1>1. ASSUME NEW c \in Calls PROVE CallInv(c)
  <2>1. TableInv(c)
    BY DEF Init, TableInv, Early
  <2>2. ScalarInv(c)
    <3>1. /\ pc[c] = "build" /\ valid[c] = <<>>
          /\ cols[c] = [k \in DOMAIN Adapter(c).arrays |-> <<>>]
      BY DEF Init
    <3>2. IsList(<<>>)
      BY DEF IsList
    <3> QED
      BY <3>1, <3>2 DEF ScalarInv
  <2> QED
    BY <2>1, <2>2 DEF Init, CallInv, Converting
<1> QED
  BY <1>1 DEF CallsInv, Init

\* A step of a call that leaves its rows and its place in the input alone.
LEMMA PhaseKept ==
    ASSUME Typed, NEW c \in Calls, CallInv(c), UNCHANGED <<req, rows, cols, valid, got, i>>,
           Early(c), pc'[c] \in {"set name", "read name", "input", "read file", "convert"},
           pc'[c] = "convert" => bytes'[c] \in InputsOf(req[c]) \cup {None}
    PROVE  CallInv(c)'
<1> USE DEF Scalar, Adapter
<1>1. ScalarInv(c) => ScalarInv(c)'
  BY DEF ScalarInv, IsList
<1>2. TableInv(c) => TableInv(c)'
  BY DEF TableInv, Early
<1> QED
  BY <1>1, <1>2 DEF CallInv, Converting

\* One more value in every builder.
LEMMA RowAppended ==
    ASSUME Typed, CallsInv, NEW c \in Calls, Scalar(c), NEW values, NEW bit,
           AppendTo(c, values, bit), UNCHANGED req
    PROVE  /\ valid'[c] = Append(valid[c], bit)
           /\ IsList(valid'[c])
           /\ DOMAIN cols'[c] = DOMAIN cols[c]
           /\ \A k \in DOMAIN cols[c] :
                /\ cols'[c][k] = Append(cols[c][k], values[k])
                /\ IsList(cols'[c][k]) /\ Len(cols'[c][k]) = Len(valid'[c])
<1>1. ScalarInv(c)
  BY DEF CallsInv, CallInv
<1>2. /\ valid'[c] = Append(valid[c], bit)
      /\ cols'[c] = [k \in DOMAIN cols[c] |-> Append(cols[c][k], values[k])]
  BY DEF AppendTo, CallsInv
<1>3. ASSUME NEW s, IsList(s), NEW x PROVE IsList(Append(s, x)) /\ Len(Append(s, x)) = Len(s) + 1
  <2>1. s \in Seq({s[k] : k \in DOMAIN s} \cup {x})
    BY <1>3 DEF IsList
  <2>2. Append(s, x) \in Seq({s[k] : k \in DOMAIN s} \cup {x}) /\ Len(Append(s, x)) = Len(s) + 1
    BY <2>1
  <2> QED
    BY <2>2 DEF IsList
<1> QED
  BY <1>1, <1>2, <1>3 DEF ScalarInv

\* What is read from a file is a blob.
LEMMA ContentsType ==
    ASSUME NEW f \in FileStates
    PROVE  Contents(f) \in Blobs \cup {None}
  BY FileHasBlob DEF Contents

\* What the core returns for the input of a call are rows.
LEMMA CoreIsRows ==
    ASSUME Typed, NEW c \in Calls, CallInv(c), Converting(c), bytes[c] # None
    PROVE  CoreRows(Core(c), req[c].fn)
<1>1. bytes[c] \in InputsOf(req[c]) \ {None}
  BY DEF CallInv
<1> QED
  BY <1>1, RowsAssumption DEF Core, Typed

\* CallInv after a step of the call itself.
LEMMA ResolveStep ==
    ASSUME Typed, LookedAt, CallsInv, NEW c \in Calls, Resolve(c)
    PROVE  CallInv(c)'
<1>1. CallInv(c)
  BY DEF CallsInv
<1>2. ASSUME NEW b \in InputsOf(req[c]) \cup {None}, Resolved(c, b), Early(c),
             UNCHANGED <<req, i, rows, cols, valid, got>>
      PROVE  CallInv(c)'
  <2>1. pc'[c] = "convert" /\ bytes'[c] = b
    BY <1>2 DEF Resolved, Goto, Typed
  <2> QED
    BY <1>1, <1>2, <2>1, PhaseKept
<1>3. ASSUME AtCell(c) PROVE Early(c) /\ i[c] \in 1 .. Len(req[c].cells)
  <2>1. Len(req[c].cells) \in Nat
    BY WorkloadsAssumption DEF Typed
  <2> QED
    BY <1>3, <2>1 DEF AtCell, Early, Typed
<1>4. CASE TakeInline(c)
  <2>1. i[c] \in DOMAIN req[c].cells
    BY <1>3, <1>4, WorkloadsAssumption DEF TakeInline, Typed
  <2>2. Cell(c).value \in InputsOf(req[c])
    BY <1>4, <2>1 DEF TakeInline, Cell, InputsOf
  <2> QED
    BY <1>2, <1>3, <1>4, <2>2 DEF TakeInline
<1>5. CASE NullCell(c)
  BY <1>2, <1>3, <1>5 DEF NullCell
<1>6. CASE OtherType(c)
  <2>1. CASE Scalar(c)
    <3>1. pc'[c] = "failed"
      BY <1>6, <2>1 DEF OtherType, Goto, Typed
    <3>2. UNCHANGED <<req, i, rows, cols, valid, got>>
      BY <1>6 DEF OtherType
    <3>3. ScalarInv(c)'
      BY <1>1, <2>1, <3>1, <3>2 DEF CallInv, ScalarInv, IsList, Adapter
    <3> QED
      BY <2>1, <3>1, <3>2, <3>3 DEF CallInv, Converting, Scalar
  <2>2. CASE ~Scalar(c)
    BY <1>2, <1>3, <1>6, <2>2 DEF OtherType
  <2> QED
    BY <2>1, <2>2
<1>7. CASE LookAtFile(c)
  <2>1. CASE Accepted(FileAt(Cell(c).value))
    <3>1. pc'[c] = "read file" /\ UNCHANGED <<req, i, rows, cols, valid, got>>
      BY <1>7, <2>1 DEF LookAtFile, Goto, Typed
    <3> QED
      BY <1>1, <1>3, <1>7, <3>1, PhaseKept DEF LookAtFile
  <2>2. CASE ~Accepted(FileAt(Cell(c).value))
    BY <1>2, <1>3, <1>7, <2>2 DEF LookAtFile
  <2> QED
    BY <2>1, <2>2
<1>8. CASE ReadFile(c)
  <2>1. FileAt(Cell(c).value) \in FileStates
    BY <1>8, CellPath DEF ReadFile, LookedAt
  <2>2. Contents(FileAt(Cell(c).value)) \in InputsOf(req[c]) \cup {None}
    BY <2>1, ContentsType DEF InputsOf
  <2> QED
    BY <1>2, <1>8, <2>2 DEF ReadFile, Early
<1> QED
  BY <1>4, <1>5, <1>6, <1>7, <1>8 DEF Resolve

LEMMA TableStep ==
    ASSUME Typed, CallsInv, NEW c \in Calls, Table(c)
    PROVE  CallInv(c)'
<1>1. CallInv(c)
  BY DEF CallsInv
<1>2. CASE Produce(c)
  <2>1. TableInv(c) /\ pc[c] = "convert" /\ i[c] = 1 /\ got[c] = <<>>
    BY <1>1, <1>2 DEF CallInv, TableInv, Early, Produce, Transition
  <2>2. /\ pc'[c] = "batches" /\ i'[c] = 2 /\ UNCHANGED <<req, got>> /\ ~Scalar(c)
        /\ rows'[c] = IF bytes[c] = None THEN <<>> ELSE Core(c)
    BY <1>2, <2>1 DEF Produce, Transition, Goto, Typed, CallsInv
  <2>3. CoreRows(rows'[c], req[c].fn)
    <3>1. CASE bytes[c] = None
      <4>1. CoreRows(<<>>, req[c].fn)
        BY <2>2, NoneAssumption DEF CoreRows, Scalar
      <4> QED
        BY <2>2, <3>1, <4>1
    <3>2. CASE bytes[c] # None
      BY <1>1, <2>1, <2>2, <3>2, CoreIsRows DEF Converting
    <3> QED
      BY <3>1, <3>2
  <2>4. TableInv(c)'
    BY <2>1, <2>2, <2>3 DEF TableInv, Early, CoreRows
  <2> QED
    BY <2>2, <2>4 DEF CallInv, Scalar, Converting
<1>3. CASE NextBatch(c)
  <2>1. ~Scalar(c) /\ TableInv(c)
    BY <1>1, <1>3 DEF CallInv, ScalarInv, NextBatch
  <2>2. TypesAgree(c)
    BY ColumnsSound DEF Typed, Sound
  <2>3. /\ pc'[c] = "batches" /\ pc[c] = "batches" /\ UNCHANGED <<req, i>> /\ rows'[c] = None
    BY <1>3, <2>2 DEF NextBatch, CallsInv
  <2>4. TableInv(c)'
    BY <2>1, <2>3 DEF TableInv, Early
  <2> QED
    BY <2>1, <2>3, <2>4 DEF CallInv, Scalar, Converting
<1>4. CASE NoMoreBatches(c)
  <2>1. /\ pc'[c] = "done" /\ pc[c] = "batches" /\ UNCHANGED <<req, rows>> /\ rows[c] = None
    BY <1>4 DEF NoMoreBatches, Transition, Goto, Typed
  <2>2. ~Scalar(c)
    BY <1>1, <2>1 DEF CallInv, ScalarInv
  <2>3. TableInv(c)'
    BY <2>1 DEF TableInv, Early
  <2> QED
    BY <2>1, <2>2, <2>3 DEF CallInv, Scalar, Converting
<1> QED
  BY <1>2, <1>3, <1>4 DEF Table

LEMMA ProcessStep ==
    ASSUME Typed, CallsInv, NEW c \in Calls, Process(c)
    PROVE  CallInv(c)'
<1>1. CallInv(c)
  BY DEF CallsInv
<1>2. ASSUME Scalar(c), ScalarInv(c), pc'[c] = "input", UNCHANGED req, NEW values, NEW bit,
             AppendTo(c, values, bit)
      PROVE  CallInv(c)'
  <2>1. ScalarInv(c)'
    BY <1>2, RowAppended DEF ScalarInv, Adapter
  <2> QED
    BY <1>2, <2>1 DEF CallInv, Scalar, Converting
<1>3. CASE AppendRow(c)
  BY <1>1, <1>2, <1>3 DEF AppendRow, CallInv, Transition, Goto, Typed
<1>4. CASE AppendNull(c)
  BY <1>1, <1>2, <1>4 DEF AppendNull, CallInv, Transition, Goto, Typed
<1>5. CASE ReturnColumn(c)
  <2>1. pc'[c] \in {"done", "failed"} /\ UNCHANGED <<req, cols, valid>> /\ Scalar(c)
    BY <1>5 DEF ReturnColumn, Goto, Typed
  <2>2. ScalarInv(c)'
    BY <1>1, <2>1 DEF CallInv, ScalarInv, Adapter, IsList
  <2> QED
    BY <2>1, <2>2 DEF CallInv, Scalar, Converting
<1> QED
  BY <1>3, <1>4, <1>5 DEF Process

(***************************************************************************)
(* CallsInv is inductive relative to Typed and LookedAt.                   *)
(***************************************************************************)
LEMMA CallsStep == Typed /\ LookedAt /\ CallsInv /\ [Next]_vars => CallsInv'
<1> SUFFICES ASSUME Typed, LookedAt, CallsInv, [Next]_vars PROVE CallsInv'
  OBVIOUS
<1>1. ASSUME NEW c \in Calls, Step(c) PROVE CallsInv'
  <2>1. CallInv(c)'
    <3>1. CASE Build(c)
      <4>1. /\ UNCHANGED <<req, rows, cols, valid, got, i>> /\ Early(c)
            /\ pc'[c] \in {"set name", "read name", "input"}
        BY <3>1 DEF Build, LookForName, SetName, ReadName, Transition, Goto, Early, Typed
      <4> QED
        BY <4>1, PhaseKept DEF CallsInv
    <3>2. CASE Resolve(c)
      BY <3>2, ResolveStep
    <3> QED
      BY <1>1, <3>1, <3>2, TableStep, ProcessStep DEF Step
  <2>2. \A d \in Calls \ {c} : CallInv(d)'
    BY <1>1, OthersUntouched, CallInvKept DEF CallsInv
  <2> QED
    BY <1>1, <2>1, <2>2, OthersUntouched DEF CallsInv
<1>2. CASE FilesChange \/ UNCHANGED vars
  <2>1. UNCHANGED callVars
    BY <1>2 DEF FilesChange, vars
  <2> QED
    BY <2>1, CallInvKept DEF callVars, CallsInv, Untouched
<1> QED
  BY <1>1, <1>2 DEF Next

-----------------------------------------------------------------------------
(***************************************************************************)
(* The steps of Snapshots, told of one call at a time.                     *)
(***************************************************************************)
\* What Snapshots sees of a call stays as it is.
Stays(d) ==
    NextCell(d)' = NextCell(d) /\ RowsSeen(d)' = RowsSeen(d) /\ AbstractPhase(d)' = AbstractPhase(d)

\* Built and Core depend on the request, the builders and the input of the call.
LEMMA BuiltKept ==
    ASSUME NEW d \in Calls, UNCHANGED req, cols'[d] = cols[d], valid'[d] = valid[d]
    PROVE  Built(d)' = Built(d)
  BY DEF Built, ReadByName, AdvertisedName, AsAdvertised, Adapter, Scalar

LEMMA StaysWhenUntouched ==
    ASSUME NEW d \in Calls, UNCHANGED req, Untouched(d)
    PROVE  Stays(d)
<1> USE DEF Untouched, Scalar, Converting
<1>1. NextCell(d)' = NextCell(d)
  BY DEF NextCell
<1>2. AbstractPhase(d)' = AbstractPhase(d)
  BY DEF AbstractPhase, Delivered
<1>3. Built(d)' = Built(d)
  BY BuiltKept
<1>4. Core(d)' = Core(d)
  BY DEF Core
<1>5. RowsSeen(d)' = RowsSeen(d)
  BY <1>3, <1>4 DEF RowsSeen, RowsSoFar, RowsToCome
<1> QED
  BY <1>1, <1>2, <1>5 DEF Stays

\* A step that changes nothing Snapshots sees, and its three actions on calls.
LEMMA Stutters ==
    ASSUME \A c \in Calls : Stays(c), UNCHANGED <<fs, changes, req, got>>
    PROVE  UNCHANGED Promise!vars
  BY DEF Stays, Promise!vars

LEMMA Sees ==
    ASSUME NEW c \in Calls, \A d \in Calls \ {c} : Stays(d), UNCHANGED <<fs, changes, req, got>>,
           AbstractPhase(c) = "reading", AbstractPhase(c)' = "reading",
           NextCell(c) <= Len(req[c].cells), NextCell(c)' = NextCell(c) + 1,
           NEW m \in Promise!Meanings(req[c].cells[NextCell(c)]),
           RowsSeen(c)' = RowsSeen(c) \o Promise!Answer(req[c], m)
    PROVE  Promise!See(c)
<1>1. [d \in Calls |-> NextCell(d)]' = [[d \in Calls |-> NextCell(d)] EXCEPT ![c] = @ + 1]
  BY DEF Stays
<1>2. [d \in Calls |-> RowsSeen(d)]'
        = [[d \in Calls |-> RowsSeen(d)] EXCEPT ![c] = @ \o Promise!Answer(req[c], m)]
  BY DEF Stays
<1>3. [d \in Calls |-> AbstractPhase(d)]' = [d \in Calls |-> AbstractPhase(d)]
  BY DEF Stays
<1> QED
  BY <1>1, <1>2, <1>3 DEF Promise!See

LEMMA Delivers ==
    ASSUME NEW c \in Calls, \A d \in Calls \ {c} : Stays(d), UNCHANGED <<fs, changes, req>>,
           AbstractPhase(c) = "reading", AbstractPhase(c)' = "done",
           NextCell(c) > Len(req[c].cells), NextCell(c)' = NextCell(c),
           RowsSeen(c)' = RowsSeen(c), got' = [got EXCEPT ![c] = RowsSeen(c)]
    PROVE  Promise!Deliver(c)
<1>1. [d \in Calls |-> NextCell(d)]' = [d \in Calls |-> NextCell(d)]
  BY DEF Stays
<1>2. [d \in Calls |-> RowsSeen(d)]' = [d \in Calls |-> RowsSeen(d)]
  BY DEF Stays
<1>3. [d \in Calls |-> AbstractPhase(d)]'
        = [[d \in Calls |-> AbstractPhase(d)] EXCEPT ![c] = "done"]
  BY DEF Stays
<1> QED
  BY <1>1, <1>2, <1>3 DEF Promise!Deliver

LEMMA Fails ==
    ASSUME NEW c \in Calls, \A d \in Calls \ {c} : Stays(d), UNCHANGED <<fs, changes, req, got>>,
           AbstractPhase(c) = "reading", AbstractPhase(c)' = "failed", Scalar(c),
           NextCell(c)' = NextCell(c), RowsSeen(c)' = RowsSeen(c),
           NEW k \in DOMAIN req[c].cells,
           req[c].cells[k].value # None, req[c].cells[k].type \notin BlobTypes \cup PathTypes
    PROVE  Promise!Fail(c)
<1>1. [d \in Calls |-> NextCell(d)]' = [d \in Calls |-> NextCell(d)]
  BY DEF Stays
<1>2. [d \in Calls |-> RowsSeen(d)]' = [d \in Calls |-> RowsSeen(d)]
  BY DEF Stays
<1>3. [d \in Calls |-> AbstractPhase(d)]'
        = [[d \in Calls |-> AbstractPhase(d)] EXCEPT ![c] = "failed"]
  BY DEF Stays
<1>4. Promise!Scalar(c)
  BY DEF Promise!Scalar, Scalar
<1> QED
  BY <1>1, <1>2, <1>3, <1>4
  DEF Promise!Fail, Promise!BlobTypes, Promise!PathTypes, BlobTypes, PathTypes

-----------------------------------------------------------------------------
\* A scalar's rows are as many as its validity bits.
LEMMA BuiltIsList ==
    ASSUME NEW c \in Calls, ScalarInv(c)
    PROVE  IsList(Built(c)) /\ Len(Built(c)) = Len(valid[c]) /\ Len(valid[c]) \in Nat
<1> DEFINE s == Built(c)
<1>1. DOMAIN valid[c] = 1 .. Len(valid[c]) /\ Len(valid[c]) \in Nat
  BY DEF ScalarInv, IsList
<1>2. s = [k \in 1 .. Len(valid[c]) |-> s[k]]
  BY <1>1 DEF Built
<1> HIDE DEF s
<1>3. IsList(s) /\ Len(s) = Len(valid[c])
  BY <1>1, <1>2, FunctionIsList
<1> QED
  BY <1>1, <1>3 DEF s

\* Before a table call has its rows and once a cell of a scalar is done.
LEMMA SeenSoFar ==
    ASSUME NEW c \in Calls, CallInv(c), Early(c)
    PROVE  /\ IsList(RowsSoFar(c)) /\ AbstractPhase(c) = "reading"
           /\ ~Scalar(c) => RowsSoFar(c) = <<>>
           /\ ~Converting(c) => RowsSeen(c) = RowsSoFar(c)
<1>1. IsList(RowsSoFar(c)) /\ (~Scalar(c) => RowsSoFar(c) = <<>>)
  <2>1. CASE Scalar(c)
    BY <2>1, BuiltIsList DEF CallInv, RowsSoFar
  <2>2. CASE ~Scalar(c)
    <3>1. IsList(<<>>)
      BY DEF IsList
    <3> QED
      BY <2>2, <3>1 DEF CallInv, TableInv, RowsSoFar
  <2> QED
    BY <2>1, <2>2
<1>2. AbstractPhase(c) = "reading"
  BY DEF AbstractPhase, Delivered, Early
<1>3. ASSUME ~Converting(c) PROVE RowsSeen(c) = RowsSoFar(c)
  <2>1. RowsToCome(c) = <<>>
    BY <1>3 DEF RowsToCome
  <2> QED
    BY <1>1, <2>1, NothingMore DEF RowsSeen
<1> QED
  BY <1>1, <1>2, <1>3

\* Both begin with nothing looked at.
LEMMA RefinedInit == ASSUME Init PROVE Promise!Init
<1>1. ASSUME NEW c \in Calls
      PROVE  NextCell(c) = 1 /\ RowsSeen(c) = <<>> /\ AbstractPhase(c) = "reading"
  <2>1. CallInv(c) /\ Early(c) /\ ~Converting(c)
    BY CallsInit DEF Init, CallsInv, Early, Converting
  <2>2. RowsSoFar(c) = <<>>
    <3>1. CASE Scalar(c)
      <4>1. Built(c) = <<>>
        BY DEF Built, Init
      <4> QED
        BY <3>1, <4>1 DEF RowsSoFar
    <3>2. CASE ~Scalar(c)
      BY <2>1, <3>2, SeenSoFar
    <3> QED
      BY <3>1, <3>2
  <2> QED
    BY <2>1, <2>2, SeenSoFar DEF Init, NextCell
<1>2. fs \in [Files -> Promise!FileStates]
  BY DEF Init, FileStates, NoFile, Promise!FileStates, Promise!NoFile
<1> QED
  BY <1>1, <1>2 DEF Init, Promise!Init

\* A call that goes on to another place before its answer.
LEMMA QuietStep ==
    ASSUME NEW c \in Calls, CallInv(c), UNCHANGED <<req, i, rows, cols, valid, got>>,
           Early(c), Early(c)', ~Converting(c), ~Converting(c)'
    PROVE  Stays(c)
<1>1. NextCell(c)' = NextCell(c)
  BY DEF NextCell
<1>2. AbstractPhase(c)' = AbstractPhase(c)
  BY DEF AbstractPhase, Delivered, Early
<1>3. RowsSoFar(c)' = RowsSoFar(c)
  BY BuiltKept DEF RowsSoFar, Scalar
<1>4. RowsSeen(c)' = RowsSeen(c)
  BY <1>3 DEF RowsSeen, RowsToCome
<1> QED
  BY <1>1, <1>2, <1>4 DEF Stays

-----------------------------------------------------------------------------
(***************************************************************************)
(* What the steps of a call are for Snapshots.                             *)
(***************************************************************************)
(***************************************************************************)
(* A cell that is resolved to something it may mean now has been seen.     *)
(***************************************************************************)
LEMMA ResolvedIsSeen ==
    ASSUME Typed, CallsInv, NEW c \in Calls, \A d \in Calls \ {c} : Stays(d),
           pc[c] \in {"input", "read file"}, i[c] <= Len(req[c].cells),
           NEW b \in Promise!Meanings(Cell(c)), Resolved(c, b),
           UNCHANGED <<fs, changes, req, i, rows, cols, valid, got>>
    PROVE  Promise!See(c)
<1>1. pc'[c] = "convert" /\ bytes'[c] = b
  BY DEF Resolved, Goto, Typed, CallsInv
<1>2. CallInv(c) /\ Early(c) /\ ~Converting(c) /\ Converting(c)'
  BY <1>1 DEF CallsInv, Early, Converting
<1>3. AbstractPhase(c) = "reading" /\ AbstractPhase(c)' = "reading"
  BY <1>1, <1>2, SeenSoFar DEF AbstractPhase, Delivered
<1>4. NextCell(c) = i[c] /\ NextCell(c)' = NextCell(c) + 1
  BY <1>2 DEF NextCell
<1>5. RowsSoFar(c)' = RowsSeen(c)
  <2>1. RowsSoFar(c)' = RowsSoFar(c)
    BY BuiltKept DEF RowsSoFar, Scalar
  <2> QED
    BY <1>2, <2>1, SeenSoFar
<1>6. RowsToCome(c)' = Promise!Answer(req[c], b)
  BY <1>1, <1>2, AskedIsPassed DEF RowsToCome, Core, Scalar, Promise!Answer
<1>7. RowsSeen(c)' = RowsSeen(c) \o Promise!Answer(req[c], b)
  BY <1>5, <1>6 DEF RowsSeen
<1>8. b \in Promise!Meanings(req[c].cells[NextCell(c)])
  BY <1>4 DEF Cell
<1> QED
  BY <1>3, <1>4, <1>7, <1>8, Sees

\* A look at a cell is See, Fail if its type is another one, or nothing yet.
LEMMA ResolveRefines ==
    ASSUME Typed, LookedAt, CallsInv, NEW c \in Calls, Resolve(c)
    PROVE  Promise!See(c) \/ Promise!Fail(c) \/ UNCHANGED Promise!vars
<1> USE DEF Promise!BlobTypes, Promise!PathTypes, BlobTypes, PathTypes
<1>1. CallInv(c)
  BY DEF CallsInv
<1>2. UNCHANGED <<fs, changes, req>> /\ \A d \in Calls \ {c} : Stays(d)
  BY OthersUntouched, StaysWhenUntouched DEF Step
<1>3. UNCHANGED <<i, rows, cols, valid, got>>
  BY DEF Resolve, TakeInline, NullCell, OtherType, LookAtFile, ReadFile
<1>4. CASE TakeInline(c)
  <2>1. Cell(c).value \in Promise!Meanings(Cell(c))
    BY <1>4 DEF TakeInline, Promise!Meanings
  <2> QED
    BY <1>2, <1>3, <1>4, <2>1, ResolvedIsSeen DEF TakeInline, AtCell
<1>5. CASE NullCell(c)
  <2>1. None \in Promise!Meanings(Cell(c))
    BY <1>5 DEF NullCell, Promise!Meanings
  <2> QED
    BY <1>2, <1>3, <1>5, <2>1, ResolvedIsSeen DEF NullCell, AtCell
<1>6. CASE OtherType(c)
  <2>1. CASE Scalar(c)
    <3>1. pc[c] = "input" /\ pc'[c] = "failed"
      BY <1>6, <2>1 DEF OtherType, AtCell, Goto, Typed
    <3>2. i[c] \in DOMAIN req[c].cells
      <4>1. DOMAIN req[c].cells = 1 .. Len(req[c].cells) /\ Len(req[c].cells) \in Nat
        BY WorkloadsAssumption DEF Typed
      <4> QED
        BY <1>6, <4>1 DEF OtherType, AtCell, Typed
    <3>3. AbstractPhase(c) = "reading" /\ AbstractPhase(c)' = "failed"
      BY <3>1 DEF AbstractPhase, Delivered
    <3>4. NextCell(c)' = NextCell(c)
      BY <1>3, <3>1 DEF NextCell, Converting
    <3>5. RowsSeen(c)' = RowsSeen(c)
      BY <1>2, <1>3, <2>1, <3>1, BuiltKept DEF RowsSeen, RowsSoFar, RowsToCome, Converting, Scalar
    <3> QED
      BY <1>2, <1>3, <1>6, <2>1, <3>2, <3>3, <3>4, <3>5, Fails DEF OtherType, Cell
  <2>2. CASE ~Scalar(c)
    <3>1. None \in Promise!Meanings(Cell(c))
      BY <1>6 DEF OtherType, Promise!Meanings
    <3> QED
      BY <1>2, <1>3, <1>6, <2>2, <3>1, ResolvedIsSeen DEF OtherType, AtCell
  <2> QED
    BY <2>1, <2>2
<1>7. CASE LookAtFile(c)
  <2> DEFINE f == FileAt(Cell(c).value)
  <2>1. CASE Accepted(f)
    <3>1. pc[c] = "input" /\ pc'[c] = "read file"
      BY <1>7, <2>1 DEF LookAtFile, AtCell, Goto, Typed
    <3>2. Stays(c)
      BY <1>1, <1>2, <1>3, <3>1, QuietStep DEF Early, Converting
    <3> QED
      BY <1>2, <1>3, <3>2, Stutters
  <2>2. CASE ~Accepted(f)
    <3>1. None \in Promise!Meanings(Cell(c))
      BY <1>7, <2>2
      DEF LookAtFile, Promise!Meanings, Accepted, Promise!Accepted, FileAt, Promise!FileAt,
          NoFile, Promise!NoFile
    <3> QED
      BY <1>2, <1>3, <1>7, <2>2, <3>1, ResolvedIsSeen DEF LookAtFile, AtCell
  <2> QED
    BY <2>1, <2>2
<1>8. CASE ReadFile(c)
  <2> DEFINE f == FileAt(Cell(c).value)
  <2>1. i[c] <= Len(req[c].cells) /\ Cell(c).value # None /\ Cell(c).type \in PathTypes
    BY <1>8 DEF ReadFile, LookedAt
  <2>2. Contents(f) \in Promise!Meanings(Cell(c))
    BY <2>1 DEF Promise!Meanings, Contents, Promise!Contents, FileAt, Promise!FileAt,
                NoFile, Promise!NoFile
  <2> QED
    BY <1>2, <1>3, <1>8, <2>1, <2>2, ResolvedIsSeen DEF ReadFile
<1> QED
  BY <1>4, <1>5, <1>6, <1>7, <1>8 DEF Resolve

\* Building the worker is no part of a call's answer.
LEMMA BuildRefines ==
    ASSUME Typed, CallsInv, NEW c \in Calls, Build(c)
    PROVE  UNCHANGED Promise!vars
<1>1. UNCHANGED <<fs, changes, req>> /\ \A d \in Calls \ {c} : Stays(d)
  BY OthersUntouched, StaysWhenUntouched DEF Step
<1>2. UNCHANGED <<i, rows, cols, valid, got>>
  BY DEF Build, LookForName, SetName, ReadName
<1>3. /\ pc[c] \in {"build", "set name", "read name"}
      /\ pc'[c] \in {"set name", "read name", "input"}
  BY DEF Build, LookForName, SetName, ReadName, Transition, Goto, Typed
<1>4. Stays(c)
  BY <1>1, <1>2, <1>3, QuietStep DEF CallsInv, Early, Converting
<1> QED
  BY <1>1, <1>2, <1>4, Stutters

\* The core's rows are what the client reads of the batch.
LEMMA BatchIsRows ==
    ASSUME Typed, NEW c \in Calls, CoreRows(rows[c], req[c].fn)
    PROVE  Batch(c) = rows[c]
<1>1. Sound(c)
  BY ColumnsSound DEF Typed
<1>2. \A r \in DOMAIN rows[c] : ReadByName(c, ArrayValues(c, rows[c][r])) = rows[c][r]
  BY <1>1, ArraysReadBack DEF CoreRows
<1>3. rows[c] = [r \in DOMAIN rows[c] |-> rows[c][r]]
  BY DEF CoreRows
<1> QED
  BY <1>2, <1>3 DEF Batch

\* A batch is Deliver; the call before it and the end after it are nothing.
LEMMA TableRefines ==
    ASSUME Typed, CallsInv, NEW c \in Calls, Table(c)
    PROVE  Promise!Deliver(c) \/ UNCHANGED Promise!vars
<1>1. CallInv(c)
  BY DEF CallsInv
<1>2. UNCHANGED <<fs, changes, req>> /\ \A d \in Calls \ {c} : Stays(d)
  BY OthersUntouched, StaysWhenUntouched DEF Step
<1>3. CASE Produce(c)
  <2>1. /\ Converting(c) /\ Early(c) /\ ~Scalar(c) /\ pc'[c] = "batches" /\ i'[c] = i[c] + 1
        /\ rows'[c] = (IF bytes[c] = None THEN <<>> ELSE Core(c)) /\ UNCHANGED got
    BY <1>3 DEF Produce, Transition, Goto, Typed, CallsInv, Converting, Early
  <2>2. IsList(rows'[c]) /\ rows'[c] # None
    <3>1. CASE bytes[c] = None
      <4>1. IsList(<<>>)
        BY DEF IsList
      <4> QED
        BY <2>1, <3>1, <4>1, NoneAssumption
    <3>2. CASE bytes[c] # None
      BY <1>1, <2>1, <3>2, CoreIsRows DEF CoreRows, IsList
    <3> QED
      BY <3>1, <3>2
  <2>3. RowsSeen(c) = rows'[c]
    <3>1. RowsSoFar(c) = <<>>
      BY <1>1, <2>1, SeenSoFar
    <3>2. RowsToCome(c) = rows'[c]
      BY <2>1 DEF RowsToCome
    <3> QED
      BY <2>2, <3>1, <3>2, NothingMore DEF RowsSeen
  <2>4. RowsSeen(c)' = rows'[c]
    <3>1. RowsSoFar(c)' = rows'[c]
      BY <1>2, <2>1, <2>2 DEF RowsSoFar, Scalar
    <3>2. RowsToCome(c)' = <<>>
      BY <2>1 DEF RowsToCome, Converting
    <3> QED
      BY <2>2, <3>1, <3>2, NothingMore DEF RowsSeen
  <2>5. AbstractPhase(c)' = AbstractPhase(c)
    <3>1. AbstractPhase(c)' = "reading"
      BY <2>1, <2>2 DEF AbstractPhase, Delivered
    <3> QED
      BY <1>1, <2>1, <3>1, SeenSoFar
  <2>6. NextCell(c)' = NextCell(c)
    BY <2>1 DEF NextCell, Converting
  <2> QED
    BY <1>2, <2>1, <2>3, <2>4, <2>5, <2>6, Stutters DEF Stays
<1>4. CASE NextBatch(c)
  <2>1. ~Scalar(c) /\ TableInv(c)
    BY <1>1, <1>4 DEF CallInv, ScalarInv, NextBatch
  <2>2. TypesAgree(c)
    BY ColumnsSound DEF Typed, Sound
  <2>3. /\ pc[c] = "batches" /\ rows[c] # None /\ i[c] = 2
        /\ got[c] = <<>> /\ CoreRows(rows[c], req[c].fn)
    BY <1>4, <2>1 DEF NextBatch, TableInv
  <2>4. UNCHANGED <<pc, i>> /\ rows'[c] = None /\ got' = [got EXCEPT ![c] = got[c] \o Batch(c)]
    BY <1>4, <2>2 DEF NextBatch, CallsInv
  <2>5. IsList(rows[c])
    BY <2>3 DEF CoreRows, IsList
  <2>6. got[c] \o Batch(c) = rows[c]
    BY <2>3, <2>5, BatchIsRows, NothingMore
  <2>7. RowsSeen(c) = rows[c]
    <3>1. RowsSoFar(c) = rows[c] /\ RowsToCome(c) = <<>>
      BY <2>1, <2>3 DEF RowsSoFar, RowsToCome, Converting
    <3> QED
      BY <2>5, <3>1, NothingMore DEF RowsSeen
  <2>8. RowsSeen(c)' = rows[c]
    <3>1. got'[c] = rows[c]
      BY <2>4, <2>6 DEF CallsInv
    <3>2. RowsSoFar(c)' = rows[c] /\ RowsToCome(c)' = <<>>
      BY <1>2, <2>1, <2>3, <2>4, <3>1 DEF RowsSoFar, RowsToCome, Converting, Scalar
    <3> QED
      BY <2>5, <3>2, NothingMore DEF RowsSeen
  <2>9. AbstractPhase(c) = "reading" /\ AbstractPhase(c)' = "done"
    BY <2>3, <2>4 DEF AbstractPhase, Delivered
  <2>10. NextCell(c) = 2 /\ NextCell(c)' = NextCell(c)
    BY <2>3, <2>4 DEF NextCell, Converting
  <2>11. NextCell(c) > Len(req[c].cells)
    <3>1. Len(req[c].cells) = 1
      BY <2>1, WorkloadsAssumption DEF Typed, Scalar
    <3> QED
      BY <2>10, <3>1
  <2>12. got' = [got EXCEPT ![c] = RowsSeen(c)]
    BY <2>4, <2>6, <2>7
  <2> QED
    BY <1>2, <2>7, <2>8, <2>9, <2>10, <2>11, <2>12, Delivers
<1>5. CASE NoMoreBatches(c)
  <2>1. pc[c] = "batches" /\ pc'[c] = "done" /\ rows[c] = None /\ UNCHANGED <<i, rows, got>>
    BY <1>5 DEF NoMoreBatches, Transition, Goto, Typed
  <2>2. ~Scalar(c)
    BY <1>1, <2>1 DEF CallInv, ScalarInv
  <2>3. RowsSeen(c)' = RowsSeen(c)
    BY <1>2, <2>1, <2>2 DEF RowsSeen, RowsSoFar, RowsToCome, Converting, Scalar
  <2>4. NextCell(c)' = NextCell(c)
    BY <2>1 DEF NextCell, Converting
  <2>5. AbstractPhase(c)' = AbstractPhase(c)
    BY <2>1 DEF AbstractPhase, Delivered
  <2> QED
    BY <1>2, <2>1, <2>3, <2>4, <2>5, Stutters DEF Stays
<1> QED
  BY <1>3, <1>4, <1>5 DEF Table

(***************************************************************************)
(* A row appended to the builders is read as one row more.                 *)
(***************************************************************************)
LEMMA BuiltGrows ==
    ASSUME Typed, CallsInv, NEW c \in Calls, Scalar(c), NEW values, NEW bit, NEW one,
           AppendTo(c, values, bit), UNCHANGED req,
           values = [k \in DOMAIN cols[c] |-> values[k]],
           (IF bit THEN ReadByName(c, values) ELSE None) = one
    PROVE  IsList(Built(c)') /\ Built(c)' = Built(c) \o <<one>>
<1> DEFINE n == Len(valid[c])
           A == DOMAIN cols[c]
           s == Built(c) \o <<one>>
           t == Built(c)'
<1>1. ScalarInv(c)
  BY DEF CallsInv, CallInv
<1>2. /\ IsList(Built(c)) /\ Len(Built(c)) = n /\ n \in Nat
      /\ DOMAIN valid[c] = 1 .. n
  BY <1>1, BuiltIsList DEF ScalarInv, IsList
<1>3. IsList(s) /\ Len(s) = n + 1 /\ s[n + 1] = one /\ \A r \in 1 .. n : s[r] = Built(c)[r]
  <2> DEFINE last == <<one>>
             b == Built(c)
  <2>1. IsList(last) /\ Len(last) = 1 /\ last[1] = one
    BY Tuples
  <2>2. IsList(b) /\ Len(b) = n
    BY <1>2
  <2> HIDE DEF last, b, n
  <2>3. /\ IsList(b \o last) /\ Len(b \o last) = n + 1
        /\ \A r \in 1 .. n : (b \o last)[r] = b[r]
        /\ (b \o last)[n + 1] = last[1]
    BY <2>1, <2>2, OneMore
  <2> QED
    BY <2>1, <2>3 DEF b, last
<1>4. /\ valid'[c] = Append(valid[c], bit)
      /\ DOMAIN valid'[c] = 1 .. n + 1
      /\ valid'[c][n + 1] = bit
      /\ \A r \in 1 .. n : valid'[c][r] = valid[c][r]
  <2>1. valid'[c] = Append(valid[c], bit)
    BY RowAppended
  <2>2. PICK X : valid[c] \in Seq(X)
    BY <1>1 DEF ScalarInv, IsList
  <2>3. valid[c] \in Seq(X \cup {bit})
    BY <2>2
  <2> QED
    BY <2>1, <2>3
<1>5. /\ DOMAIN cols'[c] = A
      /\ \A k \in A : /\ cols'[c][k][n + 1] = values[k]
                      /\ \A r \in 1 .. n : cols'[c][k][r] = cols[c][k][r]
  <2>1. DOMAIN cols'[c] = A /\ \A k \in A : cols'[c][k] = Append(cols[c][k], values[k])
    BY RowAppended
  <2>2. ASSUME NEW k \in A
        PROVE  /\ Append(cols[c][k], values[k])[n + 1] = values[k]
               /\ \A r \in 1 .. n : Append(cols[c][k], values[k])[r] = cols[c][k][r]
    <3>1. PICK X : cols[c][k] \in Seq(X)
      BY <1>1 DEF ScalarInv, IsList
    <3>2. cols[c][k] \in Seq(X \cup {values[k]}) /\ Len(cols[c][k]) = n
      BY <1>1, <3>1 DEF ScalarInv
    <3> QED
      BY <3>2
  <2> QED
    BY <2>1, <2>2
<1>6. t = [r \in 1 .. n + 1 |->
             IF valid'[c][r] THEN ReadByName(c, [k \in A |-> cols'[c][k][r]]) ELSE None]
  BY <1>4, <1>5 DEF Built, ReadByName, AdvertisedName, AsAdvertised, Adapter, Scalar
<1>7. Built(c) = [r \in 1 .. n |->
                    IF valid[c][r] THEN ReadByName(c, [k \in A |-> cols[c][k][r]]) ELSE None]
  BY <1>2 DEF Built
<1>8. ASSUME NEW r \in 1 .. n PROVE t[r] = s[r]
  <2>1. [k \in A |-> cols'[c][k][r]] = [k \in A |-> cols[c][k][r]]
    BY <1>5
  <2>2. valid'[c][r] = valid[c][r] /\ r \in 1 .. n + 1
    BY <1>2, <1>4
  <2>3. s[r] = Built(c)[r]
    BY <1>3
  <2> HIDE DEF s, t
  <2> QED
    BY <1>6, <1>7, <2>1, <2>2, <2>3
<1>9. t[n + 1] = s[n + 1]
  <2>1. [k \in A |-> cols'[c][k][n + 1]] = values
    BY <1>5
  <2>2. valid'[c][n + 1] = bit /\ n + 1 \in 1 .. n + 1 /\ s[n + 1] = one
    BY <1>2, <1>3, <1>4
  <2> HIDE DEF s, t
  <2>3. t[n + 1] = IF bit THEN ReadByName(c, values) ELSE None
    BY <1>6, <2>1, <2>2
  <2> QED
    BY <2>2, <2>3
<1> HIDE DEF s, t
<1>10. IsList(t) /\ Len(t) = n + 1
  <2>1. t = [r \in 1 .. n + 1 |-> t[r]] /\ n + 1 \in Nat
    BY <1>2, <1>6
  <2> QED
    BY <2>1, FunctionIsList
<1>11. \A r \in 1 .. n + 1 : t[r] = s[r]
  BY <1>2, <1>8, <1>9
<1>12. t = s
  BY <1>3, <1>10, <1>11, SameLists
<1> QED
  BY <1>10, <1>12 DEF s, t

\* A cell that is taken into the builders: its row was seen before.
LEMMA AppendedStays ==
    ASSUME Typed, CallsInv, NEW c \in Calls, Scalar(c), Converting(c), pc'[c] = "input",
           NEW values, NEW bit, NEW one, AppendTo(c, values, bit), UNCHANGED req,
           values = [k \in DOMAIN cols[c] |-> values[k]],
           (IF bit THEN ReadByName(c, values) ELSE None) = one,
           RowsToCome(c) = <<one>>
    PROVE  Stays(c)
<1>1. Built(c)' = RowsSeen(c) /\ IsList(Built(c)')
  BY BuiltGrows DEF RowsSeen, RowsSoFar
<1>2. RowsSeen(c)' = RowsSeen(c)
  <2>1. RowsSoFar(c)' = Built(c)' /\ RowsToCome(c)' = <<>>
    BY DEF RowsSoFar, RowsToCome, Scalar, Converting
  <2>2. Built(c)' \o <<>> = Built(c)'
    BY <1>1, NothingMore
  <2> QED
    BY <1>1, <2>1, <2>2 DEF RowsSeen
<1>3. NextCell(c)' = NextCell(c)
  BY DEF NextCell, Converting, AppendTo, Typed
<1>4. AbstractPhase(c)' = AbstractPhase(c)
  BY DEF AbstractPhase, Delivered, Converting
<1> QED
  BY <1>2, <1>3, <1>4 DEF Stays

\* A row appended is nothing, the column returned is Deliver.
LEMMA ProcessRefines ==
    ASSUME Typed, CallsInv, NEW c \in Calls, Process(c)
    PROVE  Promise!Deliver(c) \/ UNCHANGED Promise!vars
<1>1. CallInv(c) /\ Scalar(c) /\ ScalarInv(c)
  BY DEF CallsInv, CallInv, Process, AppendRow, AppendNull, ReturnColumn
<1>2. UNCHANGED <<fs, changes, req>> /\ \A d \in Calls \ {c} : Stays(d)
  BY OthersUntouched, StaysWhenUntouched DEF Step
<1>3. CASE AppendRow(c)
  <2> DEFINE row == Core(c)[1]
  <2>1. /\ Converting(c) /\ pc'[c] = "input" /\ bytes[c] # None /\ UNCHANGED got
        /\ AppendTo(c, ArrayValues(c, row), TRUE)
    BY <1>3 DEF AppendRow, Transition, Goto, Typed, Converting
  <2>2. CoreRows(Core(c), req[c].fn)
    BY <1>1, <2>1, CoreIsRows
  <2>3. IsList(Core(c)) /\ Len(Core(c)) = 1
    BY <1>1, <2>2 DEF CoreRows, IsList, Scalar
  <2>4. Core(c) = <<row>>
    <3>1. IsList(<<row>>) /\ Len(<<row>>) = 1 /\ <<row>>[1] = row
      BY Tuples
    <3> QED
      BY <2>3, <3>1, SameLists
  <2>5. row = [f \in FieldsOf(req[c].fn) |-> row[f]]
    <3>1. 1 \in DOMAIN Core(c)
      BY <2>3 DEF IsList
    <3> QED
      BY <2>2, <3>1 DEF CoreRows
  <2>6. ReadByName(c, ArrayValues(c, row)) = row
    BY <2>5, ColumnsSound, ArraysReadBack DEF Typed
  <2>7. ArrayValues(c, row) = [k \in DOMAIN cols[c] |-> ArrayValues(c, row)[k]]
    BY <1>1 DEF ArrayValues, ScalarInv
  <2>8. RowsToCome(c) = <<row>>
    BY <2>1, <2>4 DEF RowsToCome
  <2> HIDE DEF row
  <2>9. Stays(c)
    BY <1>1, <1>2, <2>1, <2>6, <2>7, <2>8, AppendedStays
  <2> QED
    BY <1>2, <2>1, <2>9, Stutters
<1>4. CASE AppendNull(c)
  <2> DEFINE values == [k \in DOMAIN cols[c] |-> None]
  <2>1. /\ Converting(c) /\ pc'[c] = "input" /\ bytes[c] = None /\ UNCHANGED got
        /\ AppendTo(c, values, FALSE)
    BY <1>4 DEF AppendNull, Transition, Goto, Typed, Converting
  <2>2. values = [k \in DOMAIN cols[c] |-> values[k]]
    OBVIOUS
  <2>3. RowsToCome(c) = <<None>>
    BY <1>1, <2>1 DEF RowsToCome
  <2> HIDE DEF values
  <2>4. Stays(c)
    BY <1>1, <1>2, <2>1, <2>2, <2>3, AppendedStays
  <2> QED
    BY <1>2, <2>1, <2>4, Stutters
<1>5. CASE ReturnColumn(c)
  <2>1. TypesAgree(c) /\ \A k \in DOMAIN cols[c] : Len(cols[c][k]) = Len(valid[c])
    BY <1>1, ColumnsSound DEF Typed, Sound, ScalarInv
  <2>2. /\ pc[c] = "input" /\ pc'[c] = "done" /\ i[c] > Len(req[c].cells)
        /\ got' = [got EXCEPT ![c] = Built(c)] /\ UNCHANGED <<i, cols, valid>>
    BY <1>5, <2>1 DEF ReturnColumn, Goto, Typed
  <2>3. RowsSeen(c) = Built(c)
    BY <1>1, <2>2, SeenSoFar DEF RowsSoFar, Early, Converting
  <2>4. RowsSeen(c)' = RowsSeen(c)
    BY <1>1, <1>2, <2>2, BuiltKept DEF RowsSeen, RowsSoFar, RowsToCome, Scalar, Converting
  <2>5. AbstractPhase(c) = "reading" /\ AbstractPhase(c)' = "done"
    BY <2>2 DEF AbstractPhase, Delivered
  <2>6. NextCell(c) > Len(req[c].cells) /\ NextCell(c)' = NextCell(c)
    BY <2>2 DEF NextCell, Converting
  <2>7. got' = [got EXCEPT ![c] = RowsSeen(c)]
    BY <2>2, <2>3
  <2> QED
    BY <1>2, <2>4, <2>5, <2>6, <2>7, Delivers
<1> QED
  BY <1>3, <1>4, <1>5 DEF Process

-----------------------------------------------------------------------------
\* Every step of Worker is a step of Snapshots or none.
LEMMA StepRefines ==
    ASSUME Typed, LookedAt, CallsInv, [Next]_vars
    PROVE  [Promise!Next]_(Promise!vars)
<1>1. ASSUME NEW c \in Calls, Step(c) PROVE [Promise!Next]_(Promise!vars)
  <2>1. CASE Build(c)
    BY <2>1, BuildRefines
  <2>2. CASE Resolve(c)
    BY <2>2, ResolveRefines DEF Promise!Next
  <2>3. CASE Table(c)
    BY <2>3, TableRefines DEF Promise!Next
  <2>4. CASE Process(c)
    BY <2>4, ProcessRefines DEF Promise!Next
  <2> QED
    BY <1>1, <2>1, <2>2, <2>3, <2>4 DEF Step
<1>2. CASE FilesChange
  <2>1. UNCHANGED callVars
    BY <1>2 DEF FilesChange
  <2>2. \A d \in Calls : Stays(d)
    BY <2>1, StaysWhenUntouched DEF callVars, Untouched
  <2>3. Promise!Change
    BY <1>2 DEF FilesChange, Change, Promise!Change, FileStates, Promise!FileStates,
                NoFile, Promise!NoFile
  <2>4. /\ UNCHANGED <<req, got>>
        /\ [d \in Calls |-> NextCell(d)]' = [d \in Calls |-> NextCell(d)]
        /\ [d \in Calls |-> RowsSeen(d)]' = [d \in Calls |-> RowsSeen(d)]
        /\ [d \in Calls |-> AbstractPhase(d)]' = [d \in Calls |-> AbstractPhase(d)]
    BY <2>1, <2>2 DEF callVars, Stays
  <2>5. Promise!FilesChange
    BY <2>3, <2>4 DEF Promise!FilesChange
  <2> QED
    BY <2>5 DEF Promise!Next
<1>3. CASE UNCHANGED vars
  <2>1. \A d \in Calls : Stays(d)
    BY <1>3, StaysWhenUntouched DEF vars, callVars, Untouched
  <2> QED
    BY <1>3, <2>1, Stutters DEF vars, callVars
<1> QED
  BY <1>1, <1>2, <1>3 DEF Next

(***************************************************************************)
(* SnapshotSpec: however calls interleave with each other and with changes *)
(* of the files, the answer of each is the core's rows for one state of    *)
(* every input cell, delivered once and in order, with every field under   *)
(* its advertised name; nothing but an input of another type is an error.  *)
(***************************************************************************)
THEOREM Implements == Spec => SnapshotSpec
<1> DEFINE Inv == Typed /\ LookedAt /\ CallsInv
<1>1. Init => Inv
  BY InitInv, CallsInit
<1>2. Inv /\ [Next]_vars => Inv'
  BY TypedStep, ReadStep, CallsStep
<1>3. Init => Promise!Init
  BY RefinedInit
<1>4. Inv /\ [Next]_vars => [Promise!Next]_(Promise!vars)
  BY StepRefines
<1> QED
  BY <1>1, <1>2, <1>3, <1>4, PTL DEF Spec, SnapshotSpec, Promise!Spec
-----------------------------------------------------------------------------
(***************************************************************************)
(* Where the rows of a table function come from: what a producer holds and *)
(* what its client has is what the core made of the input, whole or not    *)
(* there yet.                                                              *)
(***************************************************************************)
Made(c) == IF bytes[c] = None THEN <<>> ELSE Core(c)

FromCore(c) ==
    ~Scalar(c) =>
        /\ pc[c] \in {"convert", "batches", "done"} => bytes[c] \in InputsOf(req[c]) \cup {None}
        /\ pc[c] = "batches" /\ rows[c] # None => rows[c] = Made(c)
        /\ got[c] \in {<<>>, Made(c)}

AllFromCore == \A c \in Calls : FromCore(c)

\* A call that keeps its input and its rows.
LEMMA FromCoreKept ==
    ASSUME NEW d \in Calls, FromCore(d), UNCHANGED req, bytes'[d] = bytes[d], got'[d] = got[d],
           pc'[d] = "batches" => pc[d] = "batches" /\ rows'[d] = rows[d],
           pc'[d] \in {"convert", "batches", "done"} => pc[d] \in {"convert", "batches", "done"}
    PROVE  FromCore(d)'
  BY DEF FromCore, Made, Core, Scalar

\* A call that has no rows yet and, if it is to convert an input, a sound one.
LEMMA FromCoreEarly ==
    ASSUME NEW d \in Calls, CallInv(d)', Early(d)'
    PROVE  FromCore(d)'
  BY DEF FromCore, CallInv, TableInv, Early, Converting

LEMMA FromCoreTable ==
    ASSUME Typed, CallsInv, NEW c \in Calls, FromCore(c), Table(c)
    PROVE  FromCore(c)'
<1>1. CallInv(c) /\ UNCHANGED req
  BY OthersUntouched DEF CallsInv, Step
<1>2. CASE Produce(c)
  <2>1. /\ Converting(c) /\ ~Scalar(c) /\ pc'[c] = "batches" /\ UNCHANGED <<bytes, got>>
        /\ rows'[c] = Made(c)
    BY <1>2 DEF Produce, Transition, Goto, Typed, CallsInv, Converting, Made
  <2>2. Made(c)' = Made(c)
    BY <1>1, <2>1 DEF Made, Core
  <2>3. bytes[c] \in InputsOf(req[c]) \cup {None} /\ got[c] = <<>>
    BY <1>1, <2>1 DEF CallInv, TableInv, Early, Converting
  <2> QED
    BY <1>1, <2>1, <2>2, <2>3 DEF FromCore
<1>3. CASE NextBatch(c)
  <2>1. ~Scalar(c) /\ TableInv(c) /\ pc[c] = "batches" /\ rows[c] # None
    BY <1>1, <1>3 DEF CallInv, ScalarInv, NextBatch
  <2>2. TypesAgree(c)
    BY ColumnsSound DEF Typed, Sound
  <2>3. UNCHANGED <<pc, bytes>> /\ rows'[c] = None /\ got'[c] = got[c] \o Batch(c)
    BY <1>3, <2>2 DEF NextBatch, CallsInv
  <2>4. got[c] = <<>> /\ CoreRows(rows[c], req[c].fn) /\ rows[c] = Made(c)
    BY <2>1 DEF TableInv, FromCore
  <2>5. got'[c] = Made(c)
    <3>1. IsList(rows[c])
      BY <2>4 DEF CoreRows, IsList
    <3> QED
      BY <2>3, <2>4, <3>1, BatchIsRows, NothingMore
  <2>6. Made(c)' = Made(c)
    BY <1>1, <2>3 DEF Made, Core
  <2> QED
    BY <1>1, <2>1, <2>3, <2>5, <2>6 DEF FromCore
<1>4. CASE NoMoreBatches(c)
  <2>1. pc[c] = "batches" /\ pc'[c] = "done" /\ UNCHANGED <<bytes, rows, got>>
    BY <1>4 DEF NoMoreBatches, Transition, Goto, Typed
  <2> QED
    BY <1>1, <2>1, FromCoreKept
<1> QED
  BY <1>2, <1>3, <1>4 DEF Table

LEMMA FromCoreStep ==
    ASSUME Typed, LookedAt, CallsInv, AllFromCore, [Next]_vars
    PROVE  AllFromCore'
<1>1. ASSUME NEW c \in Calls, Step(c) PROVE AllFromCore'
  <2>1. UNCHANGED req /\ \A d \in Calls \ {c} : Untouched(d)
    BY <1>1, OthersUntouched
  <2>2. CallInv(c)'
    <3>1. CallsInv'
      BY <1>1, CallsStep DEF Next
    <3> QED
      BY <3>1 DEF CallsInv
  <2>3. FromCore(c)'
    <3>1. CASE Build(c)
      <4>1. Early(c)'
        BY <3>1 DEF Build, LookForName, SetName, ReadName, Transition, Goto, Early, Typed
      <4> QED
        BY <2>2, <4>1, FromCoreEarly
    <3>2. CASE Resolve(c)
      <4>1. Early(c)' \/ (Scalar(c) /\ UNCHANGED req)
        <5>1. CASE OtherType(c)
          BY <5>1 DEF OtherType, Resolved, Goto, Early, Typed
        <5>2. CASE LookAtFile(c)
          BY <5>2 DEF LookAtFile, Resolved, Goto, Early, Typed
        <5> QED
          BY <3>2, <5>1, <5>2 DEF Resolve, TakeInline, NullCell, ReadFile, Resolved, Goto, Early,
                                  Typed
      <4> QED
        BY <2>2, <4>1, FromCoreEarly DEF FromCore, Scalar
    <3>3. CASE Table(c)
      BY <3>3, FromCoreTable DEF AllFromCore
    <3>4. CASE Process(c)
      <4>1. Scalar(c)
        BY <3>4 DEF Process, AppendRow, AppendNull, ReturnColumn
      <4> QED
        BY <2>1, <4>1 DEF FromCore, Scalar
    <3> QED
      BY <1>1, <3>1, <3>2, <3>3, <3>4 DEF Step
  <2>4. \A d \in Calls \ {c} : FromCore(d)'
    BY <2>1, FromCoreKept DEF AllFromCore, Untouched
  <2> QED
    BY <2>3, <2>4 DEF AllFromCore
<1>2. CASE FilesChange \/ UNCHANGED vars
  <2>1. UNCHANGED callVars
    BY <1>2 DEF FilesChange, vars
  <2> QED
    BY <2>1, FromCoreKept DEF callVars, AllFromCore
<1> QED
  BY <1>1, <1>2 DEF Next

\* What the core made of an input has the groups normalize_all makes.
LEMMA GroupsOfRows ==
    ASSUME Typed, CallsInv, AllFromCore
    PROVE  GroupsNormalized
<1> SUFFICES ASSUME NEW c \in Calls, req[c].fn = "disassemble", NEW k \in DOMAIN got[c]
             PROVE  Group!IsNormalized(got[c][k].groups,
                                       RawGroups(bytes[c], core_args(req[c]), k))
  BY DEF GroupsNormalized
<1> DEFINE raw == RawGroups(bytes[c], core_args(req[c]), k)
<1>1. ~Scalar(c)
  BY DEF Scalar, ScalarFunctions
<1>2. got[c] # <<>>
  OBVIOUS
<1>3. pc[c] \in {"batches", "done"} /\ bytes[c] \in InputsOf(req[c]) \cup {None}
  <2>1. TableInv(c)
    BY <1>1 DEF CallsInv, CallInv
  <2> QED
    BY <1>1, <1>2, <2>1 DEF AllFromCore, FromCore, TableInv, Early, Typed, Phases
<1>4. bytes[c] # None /\ got[c] = Core(c)
  BY <1>1, <1>2 DEF AllFromCore, FromCore, Made
<1>5. got[c] = RowsOf("disassemble", bytes[c], core_args(req[c]))
  BY <1>4 DEF Core
<1>6. /\ DOMAIN raw = 1 .. Len(raw) /\ Len(raw) \in Nat
      /\ got[c][k].groups = Group!normalize_all(raw)
  <2> DEFINE args == core_args(req[c])
             list == RowsOf("disassemble", bytes[c], args)
  <2>1. bytes[c] \in InputsOf(req[c]) \ {None} /\ req \in Workloads
    BY <1>3, <1>4 DEF Typed
  <2>2. \A j \in DOMAIN list :
          /\ DOMAIN RawGroups(bytes[c], args, j) = 1 .. Len(RawGroups(bytes[c], args, j))
          /\ Len(RawGroups(bytes[c], args, j)) \in Nat
          /\ list[j].groups = Group!normalize_all(RawGroups(bytes[c], args, j))
    BY <2>1, GroupsAssumption
  <2> QED
    BY <1>5, <2>2
<1> HIDE DEF raw
<1>7. Group!IsNormalized(Group!normalize_all(raw), raw)
  BY <1>6, Normalized
<1> QED
  BY <1>6, <1>7 DEF raw

(***************************************************************************)
(* GroupsNormalized: whatever names Capstone gives the groups of however   *)
(* many instructions, a client that filters a disassembly on a group finds *)
(* exactly the instructions that are in it, each name once and in order.   *)
(***************************************************************************)
THEOREM GroupsDelivered == Spec => []GroupsNormalized
<1> DEFINE Inv == Typed /\ LookedAt /\ CallsInv /\ AllFromCore
<1>1. Init => Inv
  <2> SUFFICES ASSUME Init PROVE Inv
    OBVIOUS
  <2>1. Typed /\ LookedAt /\ CallsInv
    BY InitInv, CallsInit
  <2>2. AllFromCore
    BY DEF Init, AllFromCore, FromCore
  <2> QED
    BY <2>1, <2>2
<1>2. Inv /\ [Next]_vars => Inv'
  BY TypedStep, ReadStep, CallsStep, FromCoreStep
<1>3. Inv => GroupsNormalized
  BY GroupsOfRows
<1> QED
  BY <1>1, <1>2, <1>3, PTL DEF Spec

-----------------------------------------------------------------------------
(***************************************************************************)
(* No call looks beyond the cell behind its last, and one that is at work  *)
(* on a cell has it before it.                                             *)
(***************************************************************************)
InCells(c) ==
    /\ i[c] <= Len(req[c].cells) + 1
    /\ pc[c] \in {"read file", "convert"} => i[c] <= Len(req[c].cells)

AllInCells == \A c \in Calls : InCells(c)

\* How many cells there are, and where a call is.
LEMMA PlaceType ==
    ASSUME Typed, NEW c \in Calls
    PROVE  Len(req[c].cells) \in Nat /\ i[c] \in Nat \ {0} /\ pc[c] \in Phases
  BY WorkloadsAssumption DEF Typed

\* A step of a call: it goes on in its phases, or to the next cell.
GoesOn(c) ==
    /\ UNCHANGED <<req, i>>
    /\ \/ /\ pc[c] = "build" /\ pc'[c] \in {"set name", "read name"}
       \/ pc[c] = "set name" /\ pc'[c] = "read name"
       \/ pc[c] = "read name" /\ pc'[c] = "input"
       \/ /\ AtCell(c) /\ pc'[c] \in {"read file", "convert", "failed"}
       \/ pc[c] = "read file" /\ pc'[c] = "convert"
       \/ pc[c] = "input" /\ pc'[c] \in {"done", "failed"}
       \/ /\ pc[c] = "batches" /\ pc'[c] \in {"batches", "failed"}
          /\ rows[c] # None /\ rows'[c] = None
       \/ pc[c] = "batches" /\ pc'[c] = "done"

PassesCell(c) ==
    /\ UNCHANGED req
    /\ pc[c] = "convert" /\ pc'[c] \in {"batches", "input"} /\ i'[c] = i[c] + 1

LEMMA StepMoves ==
    ASSUME Typed, CallsInv, NEW c \in Calls, Step(c)
    PROVE  GoesOn(c) \/ PassesCell(c)
<1>1. CASE Build(c)
  BY <1>1 DEF Build, LookForName, SetName, ReadName, Transition, Goto, Typed, GoesOn
<1>2. CASE Resolve(c)
  <2>1. CASE OtherType(c)
    BY <2>1 DEF OtherType, Resolved, Goto, Typed, GoesOn
  <2>2. CASE LookAtFile(c)
    BY <2>2 DEF LookAtFile, Resolved, Goto, Typed, GoesOn
  <2> QED
    BY <1>2, <2>1, <2>2 DEF Resolve, TakeInline, NullCell, ReadFile, Resolved, Goto, Typed, GoesOn
<1>3. CASE Produce(c)
  BY <1>3 DEF Produce, Transition, Goto, Typed, PassesCell
<1>4. CASE NextBatch(c)
  BY <1>4 DEF NextBatch, Goto, Typed, CallsInv, GoesOn
<1>5. CASE NoMoreBatches(c)
  BY <1>5 DEF NoMoreBatches, Transition, Goto, Typed, GoesOn
<1>6. CASE AppendRow(c) \/ AppendNull(c)
  BY <1>6 DEF AppendRow, AppendNull, AppendTo, Transition, Goto, Typed, PassesCell
<1>7. CASE ReturnColumn(c)
  BY <1>7 DEF ReturnColumn, Goto, Typed, GoesOn
<1> QED
  BY <1>1, <1>2, <1>3, <1>4, <1>5, <1>6, <1>7 DEF Step, Table, Process

LEMMA InCellsStep ==
    ASSUME Typed, CallsInv, AllInCells, [Next]_vars
    PROVE  AllInCells'
<1>1. ASSUME NEW c \in Calls, Step(c) PROVE AllInCells'
  <2>1. UNCHANGED req /\ \A d \in Calls \ {c} : Untouched(d)
    BY <1>1, OthersUntouched
  <2>2. InCells(c)'
    <3>1. InCells(c) /\ Len(req[c].cells) \in Nat /\ i[c] \in Nat
      BY PlaceType DEF AllInCells
    <3>2. CASE GoesOn(c)
      BY <3>1, <3>2 DEF GoesOn, AtCell, InCells
    <3>3. CASE PassesCell(c)
      <4> DEFINE n == Len(req[c].cells)
      <4>1. i'[c] = i[c] + 1 /\ i[c] <= n /\ n' = n
        BY <3>1, <3>3 DEF PassesCell, InCells
      <4>2. pc'[c] \notin {"read file", "convert"}
        BY <3>3 DEF PassesCell
      <4>3. n \in Nat /\ i[c] \in Nat
        BY <3>1
      <4>4. InCells(c)' <=> i'[c] <= n' + 1
        BY <4>2 DEF InCells
      <4> HIDE DEF n
      <4> QED
        BY <4>1, <4>3, <4>4
    <3> QED
      BY <1>1, <3>2, <3>3, StepMoves
  <2>3. \A d \in Calls \ {c} : InCells(d)'
    BY <2>1 DEF Untouched, AllInCells, InCells
  <2> QED
    BY <2>2, <2>3 DEF AllInCells
<1>2. CASE FilesChange \/ UNCHANGED vars
  BY <1>2 DEF FilesChange, vars, callVars, AllInCells, InCells
<1> QED
  BY <1>1, <1>2 DEF Next

LeftIsTriple(c) == BuildLeft(c) \in Nat /\ CellsLeft(c) \in Nat /\ CellLeft(c) \in Nat

AllLeftAreTriples == \A c \in Calls : LeftIsTriple(c)

LEMMA LeftType == Typed /\ AllInCells => AllLeftAreTriples
<1> USE DEF AllLeftAreTriples
<1> SUFFICES ASSUME Typed, AllInCells, NEW c \in Calls PROVE LeftIsTriple(c)
  OBVIOUS
<1>1. BuildLeft(c) \in Nat /\ CellLeft(c) \in Nat
  <2>1. pc[c] \in Phases
    BY PlaceType
  <2>2. BuildLeft(c) \in Nat
    BY <2>1 DEF BuildLeft, Phases
  <2>3. CellLeft(c) \in Nat
    BY <2>1 DEF CellLeft, Phases
  <2> QED
    BY <2>2, <2>3
<1>2. CellsLeft(c) \in Nat
  <2> DEFINE n == Len(req[c].cells)
  <2>1. n \in Nat /\ i[c] \in Nat /\ i[c] <= n + 1
    BY PlaceType DEF AllInCells, InCells
  <2>2. CellsLeft(c) = n + 1 - i[c]
    BY DEF CellsLeft
  <2> HIDE DEF n
  <2> QED
    BY <2>1, <2>2
<1> QED
  BY <1>1, <1>2 DEF LeftIsTriple

\* What is left to do to build the worker and in a cell, phase by phase.
ToBuild(phase, left) ==
    /\ phase = "build" => left = 3
    /\ phase = "set name" => left = 2
    /\ phase = "read name" => left = 1
    /\ phase \notin {"build", "set name", "read name"} => left = 0

InCell(phase, list, left) ==
    /\ phase = "input" => left = 3
    /\ phase = "read file" => left = 2
    /\ phase = "convert" => left = 1
    /\ phase = "batches" => left = IF list = None THEN 1 ELSE 2
    /\ phase \notin {"input", "read file", "convert", "batches"} => left = 0

LEMMA BuildingLeft ==
    ASSUME NEW c \in Calls
    PROVE  ToBuild(pc[c], BuildLeft(c)) /\ ToBuild(pc'[c], BuildLeft(c)')
  BY DEF ToBuild, BuildLeft

LEMMA CellWorkLeft ==
    ASSUME NEW c \in Calls
    PROVE  InCell(pc[c], rows[c], CellLeft(c)) /\ InCell(pc'[c], rows'[c], CellLeft(c)')
  BY DEF InCell, CellLeft

\* One after the other, in each of the two.
LEMMA Falls ==
    ASSUME NEW l, NEW m,
           \/ l = 3 /\ m \in {0, 1, 2}
           \/ l = 2 /\ m \in {0, 1}
           \/ l = 1 /\ m = 0
    PROVE  m < l
  OBVIOUS

LEMMA BuildingFalls ==
    ASSUME NEW p, NEW q, NEW l, NEW m, ToBuild(p, l), ToBuild(q, m),
           \/ p = "build" /\ q \in {"set name", "read name"}
           \/ p = "set name" /\ q = "read name"
           \/ p = "read name" /\ q = "input"
    PROVE  m < l
<1>1. \/ l = 3 /\ m \in {0, 1, 2}
      \/ l = 2 /\ m \in {0, 1}
      \/ l = 1 /\ m = 0
  BY DEF ToBuild
<1> QED
  BY <1>1, Falls, Zenon

LEMMA CellWorkFalls ==
    ASSUME NEW p, NEW q, NEW r, NEW s, NEW l, NEW m, InCell(p, r, l), InCell(q, s, m),
           \/ p = "input" /\ q \in {"read file", "convert", "done", "failed"}
           \/ p = "read file" /\ q = "convert"
           \/ p = "batches" /\ q \in {"done", "failed"}
           \/ p = "batches" /\ q = "batches" /\ r # None /\ s = None
    PROVE  m < l
<1>1. \/ l = 3 /\ m \in {0, 1, 2}
      \/ l = 2 /\ m \in {0, 1}
      \/ l = 1 /\ m = 0
  BY DEF InCell
<1> QED
  BY <1>1, Falls, Zenon

\* A step leaves its call less to do ...
LEMMA LeftDecreases ==
    ASSUME Typed, CallsInv, AllInCells, NEW c \in Calls, GoesOn(c) \/ PassesCell(c),
           LeftIsTriple(c), LeftIsTriple(c)'
    PROVE  Below(Left(c)', Left(c), 3)
<1>1. \/ BuildLeft(c)' < BuildLeft(c)
      \/ BuildLeft(c)' = BuildLeft(c) /\ CellsLeft(c)' < CellsLeft(c)
      \/ /\ BuildLeft(c)' = BuildLeft(c) /\ CellsLeft(c)' = CellsLeft(c)
         /\ CellLeft(c)' < CellLeft(c)
  <2>1. CASE GoesOn(c)
    <3>1. CellsLeft(c)' = CellsLeft(c)
      BY <2>1 DEF GoesOn, CellsLeft
    <3>2. ToBuild(pc[c], BuildLeft(c)) /\ ToBuild(pc'[c], BuildLeft(c)')
      BY BuildingLeft
    <3>3. InCell(pc[c], rows[c], CellLeft(c)) /\ InCell(pc'[c], rows'[c], CellLeft(c)')
      BY CellWorkLeft
    <3> HIDE DEF BuildLeft, CellLeft
    <3>4. CASE pc[c] \in {"build", "set name", "read name"}
      <4>1. \/ pc[c] = "build" /\ pc'[c] \in {"set name", "read name"}
            \/ pc[c] = "set name" /\ pc'[c] = "read name"
            \/ pc[c] = "read name" /\ pc'[c] = "input"
        BY <2>1, <3>4 DEF GoesOn, AtCell
      <4> QED
        BY <3>2, <4>1, BuildingFalls
    <3>5. CASE pc[c] \notin {"build", "set name", "read name"}
      <4>1. BuildLeft(c)' = BuildLeft(c)
        BY <2>1, <3>2, <3>5 DEF GoesOn, AtCell, ToBuild
      <4>2. CellLeft(c)' < CellLeft(c)
        <5>1. \/ pc[c] = "input" /\ pc'[c] \in {"read file", "convert", "done", "failed"}
              \/ pc[c] = "read file" /\ pc'[c] = "convert"
              \/ pc[c] = "batches" /\ pc'[c] \in {"done", "failed"}
              \/ /\ pc[c] = "batches" /\ pc'[c] = "batches"
                 /\ rows[c] # None /\ rows'[c] = None
          BY <2>1, <3>5 DEF GoesOn, AtCell
        <5> QED
          BY <3>3, <5>1, CellWorkFalls
      <4> QED
        BY <3>1, <4>1, <4>2
    <3> QED
      BY <3>4, <3>5
  <2>2. CASE PassesCell(c)
    <3>1. BuildLeft(c)' = BuildLeft(c)
      BY <2>2 DEF PassesCell, BuildLeft
    <3>2. CellsLeft(c)' < CellsLeft(c)
      BY <2>2, PlaceType DEF PassesCell, CellsLeft
    <3> QED
      BY <3>1, <3>2
  <2> QED
    BY <2>1, <2>2
<1> HIDE DEF BuildLeft, CellsLeft, CellLeft
<1> QED
  BY <1>1, TripleBelow DEF Left, LeftIsTriple

\* ... and every other call as much as it had.
LEMMA LeftAdvances ==
    ASSUME Typed, CallsInv, AllInCells, Typed', AllInCells', NEW c \in Calls, Step(c)
    PROVE  Advances(c)
<1>1. LeftIsTriple(c) /\ LeftIsTriple(c)'
  <2>1. AllLeftAreTriples
    BY LeftType
  <2>2. AllLeftAreTriples'
    BY LeftType, PTL
  <2> QED
    BY <2>1, <2>2 DEF AllLeftAreTriples
<1>2. Below(Left(c)', Left(c), 3)
  BY <1>1, StepMoves, LeftDecreases
<1>3. UNCHANGED req /\ \A d \in Calls \ {c} : Untouched(d)
  BY OthersUntouched
<1>4. \A d \in Calls \ {c} : Left(d)' = Left(d)
  BY <1>3 DEF Untouched, Left, BuildLeft, CellsLeft, CellLeft
<1> QED
  BY <1>2, <1>4 DEF Advances

(***************************************************************************)
(* CallsAdvance: whatever the calls, their cells and the files are and     *)
(* however the threads interleave, a step of a call leaves it less to do   *)
(* and takes nothing back from another: it takes finitely many steps       *)
(* (NoEndlessDescent).                                                     *)
(***************************************************************************)
THEOREM Advancing == Spec => CallsAdvance
<1> DEFINE Inv == Typed /\ LookedAt /\ CallsInv /\ AllInCells
           Advance == UNCHANGED callVars \/ \E c \in Calls : Advances(c)
<1>1. Init => Inv
  <2> SUFFICES ASSUME Init PROVE Inv
    OBVIOUS
  <2>1. Typed /\ LookedAt /\ CallsInv
    BY InitInv, CallsInit
  <2>2. AllInCells
    BY <2>1, PlaceType DEF Init, AllInCells, InCells
  <2> QED
    BY <2>1, <2>2
<1>2. Inv /\ [Next]_vars => Inv'
  BY TypedStep, ReadStep, CallsStep, InCellsStep
<1>3. Inv /\ [Next]_vars => [Advance]_vars
  <2> SUFFICES ASSUME Inv, Next PROVE Advance
    OBVIOUS
  <2>1. CASE FilesChange
    BY <2>1 DEF FilesChange
  <2>2. ASSUME NEW c \in Calls, Step(c) PROVE Advances(c)
    <3>1. Inv'
      BY <1>2, <2>2 DEF Next
    <3> QED
      BY <2>2, <3>1, LeftAdvances
  <2> QED
    BY <2>1, <2>2 DEF Next
<1> QED
  BY <1>1, <1>2, <1>3, PTL DEF Spec, CallsAdvance
=============================================================================
