------------------------------- MODULE Inputs -------------------------------
(***************************************************************************)
(* What a call of the worker is given: bytes inline, or the path of a file *)
(* it opens itself (arrow_io.rs).  The files belong to others, who change  *)
(* them while calls run.  A change replaces a file as a whole: a writer    *)
(* that edits a file in place could be seen half done, which is left out.  *)
(***************************************************************************)
EXTENDS Integers, Sequences

CONSTANTS
    None,           \* Rust's None, SQL's NULL
    Blobs,          \* what files may contain
    SizeOf(_),      \* the number of bytes of a blob
    Trimmed,        \* path arguments, and the path str::trim makes of each
    Files,          \* the paths at which a file may be
    MaxScanBytes,   \* limits.rs MAX_SCAN_BYTES
    UsizeMax,       \* the largest usize: 2^64 - 1, or 2^32 - 1 in the wasm build
    MaxChanges      \* bound: changes of files in a behaviour

ASSUME InputLimitsAssumption ==
    MaxScanBytes \in Nat /\ UsizeMax \in Nat /\ MaxScanBytes <= UsizeMax /\ MaxChanges \in Nat
ASSUME SizesAssumption == \A b \in Blobs : SizeOf(b) \in Nat
ASSUME TrimmedAssumption == \A p \in DOMAIN Trimmed : Trimmed[p] \in Files \cup {""}

VARIABLES
    fs,         \* what is at each path
    changes     \* number of changes so far

NoFile == [kind |-> "missing"]
FileStates == [kind : {"file"}, blob : Blobs, readable : BOOLEAN]
                \cup {NoFile, [kind |-> "directory"]}

\* A path of nothing but blanks names no file.
FileAt(path) == IF Trimmed[path] = "" THEN NoFile ELSE fs[Trimmed[path]]

BlobTypes == {"Binary", "LargeBinary"}
PathTypes == {"Utf8", "LargeUtf8"}

\* The checks of read_path on the metadata; the length is cut to a usize.
Accepted(file) ==
    /\ file.kind = "file"
    /\ SizeOf(file.blob) % (UsizeMax + 1) <= MaxScanBytes

\* std::fs::read: all the bytes there are, if they can be read and fit in memory.
Contents(file) ==
    IF file.kind = "file" /\ file.readable /\ SizeOf(file.blob) <= UsizeMax
    THEN file.blob ELSE None

Change ==
    /\ changes < MaxChanges
    /\ \E p \in Files : \E f \in FileStates \ {fs[p]} : fs' = [fs EXCEPT ![p] = f]
    /\ changes' = changes + 1
=============================================================================
