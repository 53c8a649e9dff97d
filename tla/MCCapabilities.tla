--------------------------- MODULE MCCapabilities ---------------------------
(***************************************************************************)
(* Two API names, one of them in two spellings, two string patterns, and   *)
(* strings that contain both, or share their evidence.                     *)
(***************************************************************************)
EXTENDS Capabilities

UpTo(n, S) == UNION {[1 .. k -> S] : k \in 0 .. n}

Ordinals == {"ORDINAL 7"}
Apis == <<[pattern |-> "VirtualAllocEx", rule |-> "inject:VirtualAllocEx"],
          [pattern |-> "IsDebuggerPresent", rule |-> "antidbg:IsDebuggerPresent"]>>
Texts == <<[pattern |-> "powershell", rule |-> "exec:powershell"],
           [pattern |-> "-enc", rule |-> "exec:encoded"]>>
Lower == [n \in {"VirtualAllocEx", "VIRTUALALLOCEX", "IsDebuggerPresent", "puts", "ORDINAL 7"} |->
            CASE n \in {"VirtualAllocEx", "VIRTUALALLOCEX"} -> "virtualallocex"
              [] n = "IsDebuggerPresent" -> "isdebuggerpresent"
              [] OTHER -> n]

ElfSyms == [is_import : BOOLEAN, name : {"VirtualAllocEx", "puts", "", None}]
PeSyms == [name : {"VirtualAllocEx", "VIRTUALALLOCEX", "IsDebuggerPresent", "ORDINAL 7"},
           dll : {"", "KERNEL32.dll"}, ordinal : {3}]
MachSyms == [name : {"puts", "VirtualAllocEx"}, dylib : {"libSystem"}, is_lazy : BOOLEAN]
Machos == [format : {"macho"}, imports : {None} \cup UpTo(1, MachSyms)]

AllObjects ==
    [format : {"elf"}, dynsyms : UpTo(2, ElfSyms)]
      \cup [format : {"pe"}, imports : UpTo(2, PeSyms)]
      \cup Machos
      \cup {[format |-> "fat", slices |-> s] : s \in
                {<<>>, <<[format |-> "other"]>>} \cup {<<m>> : m \in Machos}}
      \cup {[format |-> "other"]}

Hits == [patterns : {{"powershell"}, {"powershell", "-enc"}}, evidence : {"a", "b"}]
SomeStrings == UpTo(2, Hits)

Mnemonics == {"rdtscp", "int3", "int 0x2d", "mov"}
SomeListings == UpTo(2, Mnemonics)
=============================================================================
