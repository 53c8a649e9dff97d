------------------------ MODULE ArchResolutionProofs ------------------------
(***************************************************************************)
(* Theorems about the selection of a decoder, for every container, and     *)
(* every spelling of the arguments arch and mode.                          *)
(***************************************************************************)
EXTENDS ArchResolution, TLAPS

\* An architecture and mode that supported_targets lists.
IsSel(s) ==
    /\ s \in [arch : SUPPORTED_ARCHES, mode : SUPPORTED_MODES, big_endian : BOOLEAN]
    /\ s.mode \in SupportedTargets[s.arch]

(***************************************************************************)
(* Where a selection comes from, and that a handle is made of it.          *)
(***************************************************************************)
SelInv ==
    /\ phase = "resolve" => sel = None /\ handle = None
    /\ phase # "resolve" =>
         sel = IF archArg # None THEN resolve_explicit(archArg, modeArg)
                                 ELSE arch_sel(probe(obj))
    /\ phase \in {"build", "built"} => sel # None
    /\ sel # None => IsSel(sel)
    /\ phase = "built" => handle = build(sel)

-----------------------------------------------------------------------------
LEMMA ExplicitSel ==
    ASSUME NEW a, NEW m
    PROVE  resolve_explicit(a, m) = None \/ IsSel(resolve_explicit(a, m))
<1> DEFINE n == Canonical(a)
           k == Canonical(m)
           big == k = "big"
<1>1. CASE n \in X86Names
  <2>1. resolve_explicit(a, m) = ArchSel("x86", X86Mode(k), FALSE)
    BY <1>1 DEF resolve_explicit, X86Names, EndianNames
  <2>2. X86Mode(k) \in {"x16", "x32", "x64"}
    BY DEF X86Mode
  <2> QED
    BY <2>1, <2>2 DEF IsSel, ArchSel, SupportedTargets, SUPPORTED_ARCHES, SUPPORTED_MODES
<1>2. CASE n = "arm"
  <2>1. resolve_explicit(a, m) = ArchSel("arm", IF k = "thumb" THEN k ELSE "arm", big)
    BY <1>2 DEF resolve_explicit, X86Names, EndianNames
  <2> QED
    BY <2>1 DEF IsSel, ArchSel, SupportedTargets, SUPPORTED_ARCHES, SUPPORTED_MODES
<1>3. CASE n \in DOMAIN EndianNames
  <2>1. resolve_explicit(a, m) = ArchSel(EndianNames[n], endian_str(big), big)
    BY <1>3 DEF resolve_explicit, X86Names, EndianNames
  <2>2. EndianNames[n] \in {"arm64", "mips", "ppc", "riscv"}
    BY <1>3 DEF EndianNames
  <2>3. endian_str(big) \in {"little", "big"}
    BY DEF endian_str
  <2> QED
    BY <2>1, <2>2, <2>3 DEF IsSel, ArchSel, SupportedTargets, SUPPORTED_ARCHES, SUPPORTED_MODES
<1>4. CASE n \in {"sysz", "s390", "systemz"}
  <2>1. resolve_explicit(a, m) = ArchSel("sysz", "big", TRUE)
    BY <1>4 DEF resolve_explicit, X86Names, EndianNames
  <2> QED
    BY <2>1 DEF IsSel, ArchSel, SupportedTargets, SUPPORTED_ARCHES, SUPPORTED_MODES
<1>5. CASE n \notin X86Names \cup {"arm", "sysz", "s390", "systemz"} \cup DOMAIN EndianNames
  BY <1>5 DEF resolve_explicit
<1> QED
  BY <1>1, <1>2, <1>3, <1>4, <1>5

\* What a header names is of the view, or nothing.
LEMMA HeaderArch ==
    ASSUME NEW o
    PROVE  LET p == probe(o)
           IN  p.arch # None /\ p.mode # None =>
                 p.arch \in SUPPORTED_ARCHES /\ p.mode \in SupportedTargets[p.arch]
<1> DEFINE Named(am) == am[1] # None /\ am[2] # None =>
                          am[1] \in SUPPORTED_ARCHES /\ am[2] \in SupportedTargets[am[1]]
<1>1. \A big : endian_str(big) \in {"little", "big"}
  BY DEF endian_str
<1>2. \A machine, big, entry : Named(elf_arch(machine, big, entry))
  BY <1>1 DEF elf_arch, SupportedTargets, SUPPORTED_ARCHES
<1>3. \A machine : Named(pe_arch(machine))
  BY DEF pe_arch, SupportedTargets, SUPPORTED_ARCHES
<1>4. \A cputype, big : Named(mach_arch(cputype, big))
  BY <1>1 DEF mach_arch, SupportedTargets, SUPPORTED_ARCHES
<1>5. ASSUME NEW container, NEW am, NEW is64, NEW big, NEW entry, Named(am)
      PROVE  LET p == ProbeRow(container, am, is64, big, entry)
             IN  p.arch # None /\ p.mode # None =>
                   p.arch \in SUPPORTED_ARCHES /\ p.mode \in SupportedTargets[p.arch]
  BY <1>5 DEF ProbeRow
<1> HIDE DEF Named
<1> QED
  BY <1>2, <1>3, <1>4, <1>5 DEF probe, mach_probe, EmptyProbe

LEMMA HeaderSel ==
    ASSUME NEW o
    PROVE  arch_sel(probe(o)) = None \/ IsSel(arch_sel(probe(o)))
<1>1. \A a \in SUPPORTED_ARCHES : SupportedTargets[a] \subseteq SUPPORTED_MODES
  BY DEF SupportedTargets, SUPPORTED_ARCHES, SUPPORTED_MODES
<1> QED
  BY <1>1, HeaderArch DEF arch_sel, ArchSel, IsSel
\* The byte order of a header that names an architecture is one of the two.
LEMMA HeaderEndian ==
    ASSUME NEW o, arch_sel(probe(o)) # None
    PROVE  probe(o).endian \in {"little", "big"}
<1>1. probe(o).arch # None
  BY DEF arch_sel
<1>2. \A big : endian_str(big) \in {"little", "big"}
  BY DEF endian_str
<1> QED
  BY <1>1, <1>2 DEF probe, mach_probe, ProbeRow, EmptyProbe

(***************************************************************************)
(* An architecture of the view and a mode it has there, given as they are  *)
(* spelt there, are selected.                                              *)
(***************************************************************************)
LEMMA TokensSelect ==
    ASSUME NEW a \in SUPPORTED_ARCHES, NEW m \in SupportedTargets[a]
    PROVE  LET s == resolve_explicit(a, m)
           IN  IsSel(s) /\ s.arch = a /\ s.mode = m
<1>1. Canonical(a) = a /\ Canonical(m) = m
  BY DEF Canonical, Spelling, SUPPORTED_ARCHES, SupportedTargets
<1>2. CASE a = "x86"
  BY <1>1, <1>2 DEF resolve_explicit, X86Names, EndianNames, X86Mode, ArchSel, IsSel,
     SupportedTargets, SUPPORTED_ARCHES, SUPPORTED_MODES
<1>3. CASE a = "arm"
  BY <1>1, <1>3 DEF resolve_explicit, X86Names, EndianNames, ArchSel, IsSel,
     SupportedTargets, SUPPORTED_ARCHES, SUPPORTED_MODES
<1>4. CASE a \in {"arm64", "mips", "ppc", "riscv"}
  BY <1>1, <1>4 DEF resolve_explicit, X86Names, EndianNames, endian_str, ArchSel, IsSel,
     SupportedTargets, SUPPORTED_ARCHES, SUPPORTED_MODES
<1>5. CASE a = "sysz"
  BY <1>1, <1>5 DEF resolve_explicit, X86Names, EndianNames, ArchSel, IsSel,
     SupportedTargets, SUPPORTED_ARCHES, SUPPORTED_MODES
<1> QED
  BY <1>2, <1>3, <1>4, <1>5 DEF SUPPORTED_ARCHES

-----------------------------------------------------------------------------
LEMMA SelInit == Init => SelInv
  BY DEF Init, Arrived, SelInv

LEMMA SelStep == SelInv /\ [Next]_resVars => SelInv'
<1> SUFFICES ASSUME SelInv, [Next]_resVars PROVE SelInv'
  OBVIOUS
<1>1. CASE ResolveFromArgs("build")
  BY <1>1, ExplicitSel DEF ResolveFromArgs, Resolved, request, SelInv
<1>2. CASE ResolveFromHeader("build")
  BY <1>2, HeaderSel DEF ResolveFromHeader, Resolved, request, SelInv
<1>3. CASE BuildHandle("built")
  BY <1>3 DEF BuildHandle, request, SelInv
<1>4. CASE BuildFails
  BY <1>4 DEF BuildFails, request, SelInv
<1>5. CASE UNCHANGED resVars
  BY <1>5 DEF resVars, SelInv
<1> QED
  BY <1>1, <1>2, <1>3, <1>4, <1>5 DEF Next

(***************************************************************************)
(* TargetsAdvertised: view, arguments, headers and decoder do not drift    *)
(* apart.                                                                  *)
(***************************************************************************)
THEOREM Advertised == Spec => []TargetsAdvertised
<1>1. SelInv => TargetsAdvertised
  <2> SUFFICES ASSUME SelInv PROVE TargetsAdvertised
    OBVIOUS
  <2>1. sel # None => sel.arch \in SUPPORTED_ARCHES /\ sel.mode \in SupportedTargets[sel.arch]
    BY DEF SelInv, IsSel
  <2>2. ASSUME archArg \in SUPPORTED_ARCHES, modeArg \in SupportedTargets[archArg],
               phase # "resolve"
        PROVE  sel # None /\ sel.arch = archArg /\ sel.mode = modeArg
    <3>1. CASE archArg = None
      BY <2>2, <3>1, NoArchAssumption
    <3>2. CASE archArg # None
      <4>1. sel = resolve_explicit(archArg, modeArg)
        BY <2>2, <3>2 DEF SelInv
      <4> QED
        BY <2>2, <4>1, TokensSelect, NoArchAssumption DEF IsSel
    <3> QED
      BY <3>1, <3>2
  <2> QED
    BY <2>1, <2>2 DEF TargetsAdvertised
<1> QED
  BY <1>1, SelInit, SelStep, PTL DEF Spec
(***************************************************************************)
(* NeverFallsBack: no request gets the x86-64 fallback of engine::build.   *)
(***************************************************************************)
THEOREM NoFallback == Spec => []NeverFallsBack
<1>1. ASSUME NEW s, IsSel(s) PROVE ~build(s).fallback /\ build(s).arch = s.arch
  <2>1. s.arch \in SUPPORTED_ARCHES
    BY <1>1 DEF IsSel
  <2> QED
    BY <2>1 DEF build, Handle, SUPPORTED_ARCHES
<1>2. SelInv => NeverFallsBack
  BY <1>1 DEF SelInv, NeverFallsBack, Built
<1> QED
  BY <1>2, SelInit, SelStep, PTL DEF Spec

(***************************************************************************)
(* ByteOrderHonoured: where Capstone is told of the byte order, it is the  *)
(* one declared or asked for.                                              *)
(***************************************************************************)
THEOREM ByteOrder == Spec => []ByteOrderHonoured
<1>1. ASSUME NEW s, s.arch \in {"arm", "mips", "ppc"}
      PROVE  build(s).endian = endian_str(s.big_endian)
  BY <1>1 DEF build, Handle
<1>2. ASSUME NEW a, NEW m, resolve_explicit(a, m).arch \in {"arm", "mips", "ppc"},
             resolve_explicit(a, m) # None
      PROVE  resolve_explicit(a, m).big_endian = (Canonical(m) = "big")
  <2> DEFINE n == Canonical(a)
  <2>1. CASE n = "arm"
    BY <2>1 DEF resolve_explicit, X86Names, EndianNames, ArchSel
  <2>2. CASE n \in DOMAIN EndianNames
    BY <2>2 DEF resolve_explicit, X86Names, EndianNames, ArchSel
  <2>3. CASE n \in X86Names
    BY <1>2, <2>3 DEF resolve_explicit, X86Names, EndianNames, ArchSel
  <2>4. CASE n \in {"sysz", "s390", "systemz"}
    BY <1>2, <2>4 DEF resolve_explicit, X86Names, EndianNames, ArchSel
  <2>5. CASE n \notin X86Names \cup {"arm", "sysz", "s390", "systemz"} \cup DOMAIN EndianNames
    BY <1>2, <2>5 DEF resolve_explicit
  <2> QED
    BY <2>1, <2>2, <2>3, <2>4, <2>5
<1>3. ASSUME NEW o, arch_sel(probe(o)) # None
      PROVE  endian_str(arch_sel(probe(o)).big_endian) = probe(o).endian
  BY <1>3, HeaderEndian DEF arch_sel, ArchSel, endian_str
<1>4. SelInv => ByteOrderHonoured
  <2> SUFFICES ASSUME SelInv, Built, sel.arch \in {"arm", "mips", "ppc"}
               PROVE  handle.endian = IF archArg = None THEN probe(obj).endian
                                      ELSE endian_str(Canonical(modeArg) = "big")
    BY DEF ByteOrderHonoured
  <2>1. /\ sel # None /\ handle.endian = endian_str(sel.big_endian)
        /\ sel = IF archArg # None THEN resolve_explicit(archArg, modeArg)
                                   ELSE arch_sel(probe(obj))
    BY <1>1 DEF SelInv, Built
  <2>2. CASE archArg = None
    BY <1>3, <2>1, <2>2
  <2>3. CASE archArg # None
    BY <1>2, <2>1, <2>3
  <2> QED
    BY <2>2, <2>3
<1> QED
  BY <1>4, SelInit, SelStep, PTL DEF Spec

(***************************************************************************)
(* HeaderRoundTrips: what the probe of a header says of arch and mode,     *)
(* given back as arguments, builds the handle the header builds.           *)
(***************************************************************************)
THEOREM RoundTrips == Spec => []HeaderRoundTrips
<1>1. ASSUME NEW p, arch_sel(p) # None, IsSel(arch_sel(p)), PlainHeader(p)
      PROVE  build(arch_sel(p)) = build(resolve_explicit(p.arch, p.mode))
  <2> DEFINE s == arch_sel(p)
             t == resolve_explicit(p.arch, p.mode)
  <2>1. s = ArchSel(p.arch, p.mode, p.endian = "big")
    BY <1>1 DEF arch_sel
  <2>2. p.arch \in SUPPORTED_ARCHES /\ p.mode \in SupportedTargets[p.arch]
    BY <1>1, <2>1 DEF IsSel, ArchSel
  <2>3. t.arch = p.arch /\ t.mode = p.mode
    BY <2>2, TokensSelect
  <2>4. s.arch = p.arch /\ s.mode = p.mode /\ s.big_endian = (p.endian = "big")
    BY <2>1 DEF ArchSel
  <2>5. CASE p.arch \in {"x86", "arm64", "sysz", "riscv"}
    BY <2>3, <2>4, <2>5 DEF build
  <2>6. CASE p.arch \in {"arm", "mips", "ppc"}
    <3>1. s.big_endian = (p.mode = "big")
      BY <1>1, <2>2, <2>4, <2>6 DEF PlainHeader, SupportedTargets, SUPPORTED_ARCHES
    <3>2. Canonical(p.arch) = p.arch /\ Canonical(p.mode) = p.mode
      BY <2>2, <2>6 DEF Canonical, Spelling, SupportedTargets, SUPPORTED_ARCHES
    <3>3. t.big_endian = (p.mode = "big")
      BY <2>6, <3>2 DEF resolve_explicit, X86Names, EndianNames, ArchSel
    <3>4. build(s) = build(t)
      BY <2>3, <2>4, <2>6, <3>1, <3>3 DEF build
    <3> QED
      BY <3>4
  <2> QED
    BY <2>2, <2>5, <2>6 DEF SUPPORTED_ARCHES
<1>2. SelInv => HeaderRoundTrips
  BY <1>1 DEF SelInv, HeaderRoundTrips, Built
<1> QED
  BY <1>2, SelInit, SelStep, PTL DEF Spec
=============================================================================
