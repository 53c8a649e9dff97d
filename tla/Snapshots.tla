----------------------------- MODULE Snapshots -----------------------------
(***************************************************************************)
(* What the worker promises about a call, whatever happens to the files    *)
(* meanwhile: every input cell is given its meaning at one instant of the  *)
(* call, the rows are the core's rows for it, and they are delivered once. *)
(***************************************************************************)
EXTENDS Inputs

CONSTANTS
    Calls,              \* the calls
    Workloads,          \* what they may ask for: functions from Calls to requests
    Scalars,            \* the names of the scalar functions
    RowsOf(_, _, _),    \* the core: its rows for a function, a blob and arguments
    AddrSpace           \* number of addresses, 2^64 in the code

VARIABLES
    req,        \* the request of a call: function, input cells, arguments
    next,       \* the first cell not looked at yet
    rows,       \* the rows of the cells looked at
    got,        \* the rows delivered
    phase       \* "reading", "done" or "failed"

vars == <<fs, changes, req, next, rows, got, phase>>

Scalar(c) == req[c].fn \in Scalars

\* What the arguments ask for; base counts modulo the address space, and min_len
\* modulo the usize, which is narrower than an i64 in the wasm build.
Asked(r) ==
    CASE r.fn = "disassemble" ->
           [r.args EXCEPT
              !.base = IF @ = None THEN None
                       ELSE CHOOSE a \in 0 .. AddrSpace - 1 : (@ - a) % AddrSpace = 0,
              !.section = IF @ = None THEN "auto" ELSE @]
      [] r.fn = "strings" -> [r.args EXCEPT !.min_len = IF @ \in Nat THEN @ % (UsizeMax + 1) ELSE 4]
      [] OTHER -> r.args

\* What a cell may be taken for now.  A file that can be read may be too large:
\* what is promised is one state of it, and not that it is small.
Meanings(cell) ==
    CASE cell.value # None /\ cell.type \in BlobTypes -> {cell.value}
      [] cell.value # None /\ cell.type \in PathTypes ->
           LET f == FileAt(cell.value)
           IN  {Contents(f)} \cup (IF Accepted(f) THEN {} ELSE {None})
      [] OTHER -> {None}

\* A scalar has a row for every cell, NULL if there is no input.
Answer(r, bytes) ==
    IF bytes = None THEN (IF r.fn \in Scalars THEN <<None>> ELSE <<>>)
    ELSE RowsOf(r.fn, bytes, Asked(r))

Init ==
    /\ fs \in [Files -> FileStates]
    /\ changes = 0
    /\ req \in Workloads
    /\ next = [c \in Calls |-> 1]
    /\ rows = [c \in Calls |-> <<>>]
    /\ got = [c \in Calls |-> <<>>]
    /\ phase = [c \in Calls |-> "reading"]

See(c) ==
    /\ phase[c] = "reading"
    /\ next[c] <= Len(req[c].cells)
    /\ \E m \in Meanings(req[c].cells[next[c]]) :
         rows' = [rows EXCEPT ![c] = @ \o Answer(req[c], m)]
    /\ next' = [next EXCEPT ![c] = @ + 1]
    /\ UNCHANGED <<fs, changes, req, got, phase>>

Deliver(c) ==
    /\ phase[c] = "reading"
    /\ next[c] > Len(req[c].cells)
    /\ got' = [got EXCEPT ![c] = rows[c]]
    /\ phase' = [phase EXCEPT ![c] = "done"]
    /\ UNCHANGED <<fs, changes, req, next, rows>>

\* The only error: a column of a scalar is of another type and not all NULL.
Fail(c) ==
    /\ phase[c] = "reading" /\ Scalar(c)
    /\ \E k \in DOMAIN req[c].cells :
         req[c].cells[k].value # None /\ req[c].cells[k].type \notin BlobTypes \cup PathTypes
    /\ phase' = [phase EXCEPT ![c] = "failed"]
    /\ UNCHANGED <<fs, changes, req, next, rows, got>>

FilesChange == Change /\ UNCHANGED <<req, next, rows, got, phase>>

Next == FilesChange \/ \E c \in Calls : See(c) \/ Deliver(c) \/ Fail(c)

Spec == Init /\ [][Next]_vars
=============================================================================
