--------------------------- MODULE ArchResolution ---------------------------
(***************************************************************************)
(* The first and the fourth step of sweep::disassemble: which decoder a    *)
(* request gets.  An explicit arch wins over the container header; without *)
(* either, or when Capstone (external) refuses to build the handle, the    *)
(* request is answered with one diagnostic row.                            *)
(*                                                                         *)
(* Disassemble composes these steps with the section selection and the     *)
(* sweeps; the specification here leaves those out.                        *)
(***************************************************************************)
EXTENDS Probe

CONSTANTS
    Objects,    \* the containers requests may bring
    ArchArgs,   \* values of the argument arch, None if it is not given
    ModeArgs    \* values of the argument mode, None if it is not given

ASSUME NoArchAssumption ==
    /\ None \notin SUPPORTED_ARCHES
    /\ None \notin [arch : SUPPORTED_ARCHES, mode : SUPPORTED_MODES, big_endian : BOOLEAN]

VARIABLES
    obj,        \* the container goblin makes of the blob
    archArg, modeArg,
    sel,        \* the selection, None until resolved
    handle,     \* the decoder, None until built
    phase       \* the step disassemble is at

request == <<obj, archArg, modeArg>>
resVars == <<obj, archArg, modeArg, sel, handle, phase>>

\* A request that has just arrived.
Arrived ==
    /\ obj \in Objects
    /\ archArg \in ArchArgs
    /\ modeArg \in ModeArgs
    /\ sel = None
    /\ handle = None
    /\ phase = "resolve"

Resolved(s, after) ==
    /\ sel' = s
    /\ phase' = IF s = None THEN "error" ELSE after
    /\ UNCHANGED <<request, handle>>

\* match arch { Some(a) => resolve_explicit(a, mode) ...
ResolveFromArgs(after) ==
    /\ phase = "resolve"
    /\ archArg # None
    /\ Resolved(resolve_explicit(archArg, modeArg), after)

\* ... None => probe(blob).arch_sel() }: the mode is not looked at.
ResolveFromHeader(after) ==
    /\ phase = "resolve"
    /\ archArg = None
    /\ Resolved(arch_sel(probe(obj)), after)

BuildHandle(after) ==
    /\ phase = "build"
    /\ handle' = build(sel)
    /\ phase' = after
    /\ UNCHANGED <<request, sel>>

\* Mutant of BuildFails: the sweep goes on without a handle.
BuildFailsUnnoticed ==
    /\ phase = "build"
    /\ phase' = "sweep"
    /\ UNCHANGED <<request, sel, handle>>

\* engine::build returns Err: Capstone could not allocate or configure a handle.
BuildFails ==
    /\ phase = "build"
    /\ phase' = "error"
    /\ UNCHANGED <<request, sel, handle>>

Init == Arrived

Next ==
    \/ ResolveFromArgs("build")
    \/ ResolveFromHeader("build")
    \/ BuildHandle("built")
    \/ BuildFails

Spec == Init /\ [][Next]_resVars

-----------------------------------------------------------------------------
Built == phase = "built"

(***************************************************************************)
(* The arch and mode tokens the view supported_targets shows to users; its *)
(* comment says that view, argument choices and decoder cannot drift apart.*)
(***************************************************************************)
SupportedTargets ==
    [a \in SUPPORTED_ARCHES |->
       CASE a = "x86"  -> {"x16", "x32", "x64"}
         [] a = "arm"  -> {"arm", "thumb"}
         [] a = "sysz" -> {"big"}
         [] OTHER      -> {"little", "big"}]

(***************************************************************************)
(* They do not: the tokens of the view select what they say, and whatever  *)
(* a header or other spellings select is an architecture and mode of the   *)
(* view.                                                                   *)
(***************************************************************************)
TargetsAdvertised ==
    /\ archArg \in SUPPORTED_ARCHES /\ modeArg \in SupportedTargets[archArg] =>
         phase = "resolve" \/ (sel # None /\ sel.arch = archArg /\ sel.mode = modeArg)
    /\ sel # None => sel.arch \in SUPPORTED_ARCHES /\ sel.mode \in SupportedTargets[sel.arch]

(***************************************************************************)
(* No request is decoded with the x86-64 fallback of engine::build: every  *)
(* selection that gets past the resolution is of a known architecture, and *)
(* the handle decodes that architecture.                                   *)
(***************************************************************************)
NeverFallsBack == Built => ~handle.fallback /\ handle.arch = sel.arch

(***************************************************************************)
(* format() and disassemble() agree: passing the arch and mode of a        *)
(* header's probe as explicit arguments selects the handle the header      *)
(* itself selects.  It holds of the headers whose byte order is the one    *)
(* their mode names; 32-bit ARM, whose mode names the instruction set and  *)
(* not the byte order, has to be little-endian.                            *)
(***************************************************************************)
PlainHeader(p) ==
    CASE p.arch = "arm" -> p.endian = "little"
      [] p.arch \in {"mips", "ppc"} -> p.endian = p.mode
      [] OTHER -> TRUE

HeaderRoundTrips ==
    Built /\ archArg = None =>
        LET p == probe(obj)
        IN  PlainHeader(p) => handle = build(resolve_explicit(p.arch, p.mode))

(***************************************************************************)
(* Where the byte order of the code can vary and Capstone is told of it    *)
(* (ARM, MIPS, PowerPC), a header is decoded in the byte order it declares *)
(* and an explicit request in the one its mode asks for.                   *)
(***************************************************************************)
ByteOrderHonoured ==
    Built /\ sel.arch \in {"arm", "mips", "ppc"} =>
        handle.endian = IF archArg = None THEN probe(obj).endian
                                          ELSE endian_str(Canonical(modeArg) = "big")

(***************************************************************************)
(* The view supported_targets (disasm-worker lib.rs) says of arm64 that it *)
(* is decoded little-endian unless mode is 'big', and lists 'little, big'  *)
(* for riscv: a mode that names a byte order selects it.                   *)
(***************************************************************************)
ModeSelectsEndianness ==
    Built /\ archArg # None /\ Canonical(archArg) \in DOMAIN EndianNames =>
        handle.endian = endian_str(Canonical(modeArg) = "big")
=============================================================================
