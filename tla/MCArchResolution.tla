-------------------------- MODULE MCArchResolution --------------------------
(***************************************************************************)
(* Every mapped machine and one that is not, in both byte orders; every    *)
(* name and mode resolve_explicit knows and one it does not.               *)
(***************************************************************************)
EXTENDS ArchResolution

Elfs == [format : {"elf"}, machine : Machines, big : BOOLEAN, is64 : BOOLEAN, entry : 0 .. 3]
Pes == [format : {"pe"}, machine : PeMachines, is64 : BOOLEAN, image_base : {0, 5}, entry : {0, 3}]
Machos == [format : {"macho"}, cputype : CpuTypes, big : BOOLEAN, is64 : BOOLEAN, entry : {0, 2}]
NotMacho == [format |-> "other"]
Fats == {[format |-> "fat", slices |-> s] :
           s \in {<<>>, <<NotMacho>>} \cup {<<m, NotMacho>> : m \in Machos}}

AllObjects == Elfs \cup Pes \cup Machos \cup Fats \cup {NotMacho}

AllArchArgs == {None, "nonsense"} \cup X86Names \cup DOMAIN EndianNames
                 \cup {"arm", "sysz", "s390", "systemz", "X86", "AArch64"}
AllModeArgs == {None, "32", "64", "nonsense", " thumb ", "BIG"} \cup SUPPORTED_MODES
=============================================================================
