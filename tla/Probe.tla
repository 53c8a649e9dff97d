------------------------------- MODULE Probe -------------------------------
(***************************************************************************)
(* probe.rs and engine::build: from a container header, or from the        *)
(* arguments arch and mode, to an architecture selection, and from there   *)
(* to the Capstone handle that decodes.                                    *)
(***************************************************************************)
EXTENDS Common

Machines == {"EM_386", "EM_X86_64", "EM_ARM", "EM_AARCH64", "EM_MIPS", "EM_PPC",
             "EM_PPC64", "EM_S390", "EM_RISCV", "EM_other"}
PeMachines == {"I386", "AMD64", "ARM", "ARMNT", "ARM64", "RISCV64", "PE_other"}
CpuTypes == {"X86", "X86_64", "ARM", "ARM64", "POWERPC", "POWERPC64", "CPU_other"}

-----------------------------------------------------------------------------
(***************************************************************************)
(* ArchSel: the architecture, its mode and whether it decodes big-endian.  *)
(***************************************************************************)
ArchSel(arch, mode, big) == [arch |-> arch, mode |-> mode, big_endian |-> big]

SUPPORTED_ARCHES == {"x86", "arm", "arm64", "mips", "ppc", "sysz", "riscv"}
SUPPORTED_MODES == {"x16", "x32", "x64", "arm", "thumb", "big", "little"}

endian_str(big) == IF big THEN "big" ELSE "little"

\* Spellings that resolve_explicit trims and lowercases, and what they become.
Spelling == [s \in {"X86", "AArch64", " thumb ", "BIG"} |->
               CASE s = "X86"     -> "x86"
                 [] s = "AArch64" -> "aarch64"
                 [] s = " thumb " -> "thumb"
                 [] s = "BIG"     -> "big"]
Canonical(s) == IF s \in DOMAIN Spelling THEN Spelling[s] ELSE s

X86Names == {"x86", "x86_64", "x64", "i386"}
EndianNames ==      \* the names of the architectures whose mode is an endianness
    [a \in {"arm64", "aarch64", "mips", "ppc", "powerpc", "riscv"} |->
       CASE a = "aarch64" -> "arm64" [] a = "powerpc" -> "ppc" [] OTHER -> a]

X86Mode(m) == CASE m = "x16" -> "x16" [] m \in {"x32", "32"} -> "x32" [] OTHER -> "x64"

\* Mutant of resolve_explicit: any name is an architecture.
resolve_explicit_unchecked(archArg, modeArg) ==
    ArchSel(Canonical(archArg), X86Mode(Canonical(modeArg)), FALSE)

resolve_explicit(archArg, modeArg) ==
    LET a == Canonical(archArg)
        m == Canonical(modeArg)
        big == m = "big"
    IN  CASE a \in X86Names            -> ArchSel("x86", X86Mode(m), FALSE)
          [] a = "arm"                 -> ArchSel("arm", IF m = "thumb" THEN m ELSE "arm", big)
          [] a \in DOMAIN EndianNames  -> ArchSel(EndianNames[a], endian_str(big), big)
          [] a \in {"sysz", "s390", "systemz"} -> ArchSel("sysz", "big", TRUE)
          [] OTHER                     -> None

-----------------------------------------------------------------------------
(***************************************************************************)
(* <<arch, mode>> of a header, <<None, None>> for a machine not mapped.    *)
(***************************************************************************)
elf_arch(machine, big, entry) ==
    CASE machine = "EM_386"               -> <<"x86", "x32">>
      [] machine = "EM_X86_64"            -> <<"x86", "x64">>
      [] machine = "EM_ARM"               -> <<"arm", IF entry % 2 = 1 THEN "thumb" ELSE "arm">>
      [] machine = "EM_AARCH64"           -> <<"arm64", endian_str(big)>>
      [] machine = "EM_MIPS"              -> <<"mips", endian_str(big)>>
      [] machine \in {"EM_PPC", "EM_PPC64"} -> <<"ppc", endian_str(big)>>
      [] machine = "EM_S390"              -> <<"sysz", "big">>
      [] machine = "EM_RISCV"             -> <<"riscv", endian_str(big)>>
      [] OTHER                            -> <<None, None>>

pe_arch(machine) ==
    CASE machine = "I386"           -> <<"x86", "x32">>
      [] machine = "AMD64"          -> <<"x86", "x64">>
      [] machine \in {"ARM", "ARMNT"} -> <<"arm", "thumb">>
      [] machine = "ARM64"          -> <<"arm64", "little">>
      [] machine = "RISCV64"        -> <<"riscv", "little">>
      [] OTHER                      -> <<None, None>>

mach_arch(cputype, big) ==
    CASE cputype = "X86"    -> <<"x86", "x32">>
      [] cputype = "X86_64" -> <<"x86", "x64">>
      [] cputype = "ARM"    -> <<"arm", "arm">>
      [] cputype = "ARM64"  -> <<"arm64", endian_str(big)>>
      [] cputype \in {"POWERPC", "POWERPC64"} -> <<"ppc", "big">>
      [] OTHER              -> <<None, None>>

ProbeRow(container, am, is64, big, entry) ==
    [container |-> container, arch |-> am[1], mode |-> am[2],
     bits |-> IF is64 THEN 64 ELSE 32, endian |-> endian_str(big), entry |-> entry]

\* Probe::default with a container name: every other field is None.
EmptyProbe(container) ==
    [container |-> container, arch |-> None, mode |-> None, bits |-> None,
     endian |-> None, entry |-> None]

mach_probe(m, container) ==
    ProbeRow(container, mach_arch(m.cputype, m.big), m.is64, m.big, m.entry)

probe(obj) ==
    CASE obj.format = "elf" ->
           ProbeRow("elf", elf_arch(obj.machine, obj.big, obj.entry), obj.is64, obj.big, obj.entry)
      [] obj.format = "pe" ->
           ProbeRow("pe", pe_arch(obj.machine), obj.is64, FALSE,
                    Wrap(obj.image_base + obj.entry))
      [] obj.format = "macho" -> mach_probe(obj, "macho")
      [] obj.format = "fat" ->
           IF HasPrimarySlice(obj) THEN mach_probe(obj.slices[1], "fat-macho")
                              ELSE EmptyProbe("fat-macho")
      [] OTHER -> EmptyProbe("raw")

\* Mutant of arch_sel: the byte order of the header is lost.
arch_sel_little(p) ==
    IF p.arch = None \/ p.mode = None THEN None ELSE ArchSel(p.arch, p.mode, FALSE)

\* Probe::arch_sel
arch_sel(p) ==
    IF p.arch = None \/ p.mode = None THEN None
    ELSE ArchSel(p.arch, p.mode, p.endian = "big")

-----------------------------------------------------------------------------
(***************************************************************************)
(* engine::build: the decoder the handle is configured for.  fallback is   *)
(* the arm of the match for an architecture it does not know.              *)
(***************************************************************************)
Handle(arch, mode, endian, fallback) ==
    [arch |-> arch, mode |-> mode, endian |-> endian, fallback |-> fallback]

Handles == [arch : SUPPORTED_ARCHES,
            mode : {"x16", "x32", "x64", "thumb", "arm", "mips64", "mode64", "default", "riscv64"},
            endian : {"little", "big"}, fallback : BOOLEAN]

\* Mutants of build: architectures are missing; ARM ignores the byte order.
build_without_riscv(sel) ==
    IF sel.arch = "riscv" THEN Handle("x86", "x64", "little", TRUE)
                          ELSE Handle(sel.arch, sel.mode, endian_str(sel.big_endian), FALSE)

build_arm_little(sel) ==
    Handle(sel.arch, sel.mode,
           IF sel.arch = "arm" THEN "little" ELSE endian_str(sel.big_endian), FALSE)

build(sel) ==
    LET endian == endian_str(sel.big_endian)
    IN  CASE sel.arch = "x86"   -> Handle("x86", IF sel.mode \in {"x16", "x32"} THEN sel.mode
                                                 ELSE "x64", "little", FALSE)
          [] sel.arch = "arm"   -> Handle("arm", IF sel.mode = "thumb" THEN "thumb" ELSE "arm",
                                          endian, FALSE)
          [] sel.arch = "arm64" -> Handle("arm64", "arm", "little", FALSE)
          [] sel.arch = "mips"  -> Handle("mips", "mips64", endian, FALSE)
          [] sel.arch = "ppc"   -> Handle("ppc", "mode64", endian, FALSE)
          [] sel.arch = "sysz"  -> Handle("sysz", "default", "big", FALSE)
          [] sel.arch = "riscv" -> Handle("riscv", "riscv64", "little", FALSE)
          [] OTHER              -> Handle("x86", "x64", "little", TRUE)
=============================================================================
