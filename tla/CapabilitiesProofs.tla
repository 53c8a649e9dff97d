------------------------- MODULE CapabilitiesProofs -------------------------
(***************************************************************************)
(* Theorems about the capability matcher, for every blob, every listing,   *)
(* any two mapping tables and every cap.                                   *)
(***************************************************************************)
EXTENDS Capabilities, SequenceTheorems, SelectionProofs

Phases == {"imports", "strings", "insns", "patterns", "done"}

\* The types that the proofs need of the fixed input and of the indices.
Scanning ==
    /\ obj \in Objects /\ hits \in StringLists /\ insns \in Listings
    /\ i \in Nat \ {0} /\ j \in Nat \ {0}
    /\ phase \in Phases

\* The rows: a capped output without duplicates, and the keys it is of.
Rows ==
    /\ \E S : out \in Seq(S)
    /\ CapabilitiesBounded
    /\ NoDuplicates

\* The places (n, m) of the two loops that are behind the current one.
Behind(n, m) == n < i \/ (n = i /\ m < j)

ImportsMatched ==
    \A n \in DOMAIN imports(obj), m \in DOMAIN ApiMap :
        Behind(n, m) /\ SameName(ApiMap[m], imports(obj)[n])
            => Capability(ApiMap[m].rule, imports(obj)[n].name) \in seen

StringsMatched ==
    \A n \in DOMAIN hits, m \in DOMAIN StringMap :
        Behind(n, m) /\ Contained(StringMap[m], hits[n])
            => Capability(StringMap[m].rule, hits[n].evidence) \in seen

PatternsMatched == \A k \in saw : k < i => Patterns[k].row \in seen

TextSignals == ImportSignals \cup StringSignals

(***************************************************************************)
(* What each pass knows of the keys: where they come from, which are there *)
(* while there is room, and that a key of a later signal is only there if  *)
(* all keys of the earlier ones are.                                       *)
(***************************************************************************)
Passes ==
    /\ phase = "imports" => seen \subseteq ImportSignals /\ (~Full => ImportsMatched)
    /\ phase # "imports" =>
         (~Full \/ ~(seen \subseteq ImportSignals) => ImportSignals \subseteq seen)
    /\ phase = "strings" => seen \subseteq TextSignals /\ (~Full => StringsMatched)
    /\ phase \notin {"imports", "strings"} =>
         (~Full \/ ~(seen \subseteq TextSignals) => StringSignals \subseteq seen)
    /\ phase = "imports" \/ phase = "strings" => saw = {}
    /\ phase = "insns" =>
         /\ seen \subseteq TextSignals
         /\ saw = {k \in DOMAIN Patterns :
                     \E l \in DOMAIN insns : l < i /\ insns[l] \in Patterns[k].insns}
    /\ phase \in {"patterns", "done"} =>
         /\ seen \subseteq Signals
         /\ saw = {k \in DOMAIN Patterns : Patterns[k].insns \cap Range(insns) # {}}
    /\ phase = "patterns" /\ ~Full => PatternsMatched
    /\ phase = "done" /\ ~Full => InsnSignals \subseteq seen

-----------------------------------------------------------------------------
(***************************************************************************)
(* imports(), and what is matched against, are sequences.                  *)
(***************************************************************************)
IsSequence(s) == Len(s) \in Nat /\ DOMAIN s = 1 .. Len(s)

LEMMA SeqIsSequence == ASSUME NEW s, IsSeq(s) PROVE IsSequence(s)
BY DEF IsSeq, IsSequence

LEMMA ListIsSequence ==
    ASSUME NEW n \in Nat, NEW f, f = [k \in 1 .. n |-> f[k]]
    PROVE  IsSequence(f)
<1>1. DOMAIN f = 1 .. n
  OBVIOUS
<1> QED
  BY <1>1, FunctionIsList DEF IsSequence

LEMMA AllImportsAreSequence == ASSUME NEW o \in Objects PROVE IsSequence(AllImports(o))
<1> DEFINE all == AllImports(o)
<1>1. ASSUME NEW macho, HasSymbols(macho) PROVE IsSequence(MachImports(macho))
  <2>1. CASE macho.imports = None
    BY <2>1 DEF MachImports, IsSequence
  <2>2. CASE macho.imports # None
    <3>1. IsSequence(macho.imports)
      BY <1>1, <2>2, SeqIsSequence DEF HasSymbols
    <3>2. MachImports(macho) = [k \in 1 .. Len(macho.imports) |-> mach_import(macho.imports[k])]
      BY <2>2, <3>1 DEF MachImports, IsSequence
    <3> QED
      BY <3>1, <3>2, ListIsSequence DEF IsSequence
  <2> QED
    BY <2>1, <2>2
<1>2. CASE o.format = "elf"
  <2> DEFINE listed == Chosen(o.dynsyms, {k \in DOMAIN o.dynsyms : elf_listed(o.dynsyms[k])})
  <2>1. IsSequence(o.dynsyms)
    BY <1>2, ListsAssumption, SeqIsSequence
  <2>2. \E S : listed \in Seq(S)
    BY <2>1, ChosenPicks DEF IsSequence, Picks
  <2>3. IsSequence(listed)
    BY <2>2 DEF IsSequence
  <2>4. all = [k \in 1 .. Len(listed) |-> elf_import(listed[k])]
    BY <1>2, <2>3 DEF AllImports, IsSequence
  <2> HIDE DEF listed
  <2> QED
    BY <2>3, <2>4, ListIsSequence DEF IsSequence
<1>3. CASE o.format = "pe"
  <2>1. IsSequence(o.imports)
    BY <1>3, ListsAssumption, SeqIsSequence
  <2>2. all = [k \in 1 .. Len(o.imports) |-> pe_import(o.imports[k])]
    BY <1>3, <2>1 DEF AllImports, IsSequence
  <2> QED
    BY <2>1, <2>2, ListIsSequence DEF IsSequence
<1>4. CASE o.format = "macho"
  BY <1>1, <1>4, ListsAssumption DEF AllImports
<1>5. CASE o.format = "fat"
  <2>1. CASE HasPrimarySlice(o)
    BY <1>1, <1>5, <2>1, ListsAssumption DEF AllImports
  <2>2. CASE ~HasPrimarySlice(o)
    BY <1>5, <2>2 DEF AllImports, IsSequence
  <2> QED
    BY <2>1, <2>2
<1>6. CASE o.format \notin {"elf", "pe", "macho", "fat"}
  BY <1>6 DEF AllImports, IsSequence
<1> QED
  BY <1>2, <1>3, <1>4, <1>5, <1>6

LEMMA ImportsAreSequence == ASSUME NEW o \in Objects PROVE IsSequence(imports(o))
<1> DEFINE all == AllImports(o)
<1>1. IsSequence(all)
  BY AllImportsAreSequence
<1> DEFINE n == Smaller(Len(all), MaxImports)
<1>2. n \in Nat /\ n <= Len(all)
  BY <1>1, MaxImportsAssumption DEF Smaller, IsSequence
<1>3. imports(o) = SubSeq(all, 1, n)
  BY DEF imports
<1> HIDE DEF all, n
<1>4. \A k \in 1 .. n : all[k] \in {all[l] : l \in 1 .. n}
  OBVIOUS
<1>5. SubSeq(all, 1, n) \in Seq({all[l] : l \in 1 .. n})
  BY <1>2, <1>4, SubSeqProperties
<1> QED
  BY <1>3, <1>5 DEF IsSequence

-----------------------------------------------------------------------------
(***************************************************************************)
(* push keeps the rows in order, whatever it is given; it adds the key it  *)
(* is given at most, and does add it if there is room afterwards.          *)
(***************************************************************************)
Adds(keys) ==
    /\ seen \subseteq seen' /\ seen' \subseteq seen \cup keys
    /\ Full => seen' = seen
    /\ Full' \/ (~Full /\ keys \subseteq seen')

LEMMA RowsOfKeys ==
    ASSUME Rows
    PROVE  /\ Len(out) \in Nat /\ DOMAIN out = 1 .. Len(out)
           /\ seen = {out[k] : k \in 1 .. Len(out)}
<1>1. PICK S : out \in Seq(S)
  BY DEF Rows
<1>2. Len(out) \in Nat /\ DOMAIN out = 1 .. Len(out)
  BY <1>1
<1> QED
  BY <1>2 DEF Rows, NoDuplicates, Range

LEMMA PushKeepsRows ==
    ASSUME Rows, NEW cap, push(cap)
    PROVE  Rows' /\ Adds({cap})
<1>1. CASE Full \/ cap \in seen
  <2>1. out' = out /\ seen' = seen
    BY <1>1 DEF push, NotPushed
  <2>2. Full' <=> Full
    BY <2>1 DEF Full
  <2> QED
    BY <1>1, <2>1, <2>2 DEF Rows, CapabilitiesBounded, NoDuplicates, Adds
<1>2. CASE ~Full /\ cap \notin seen
  <2>1. out' = Append(out, cap) /\ seen' = seen \cup {cap}
    BY <1>2 DEF push, Pushed
  <2>2. PICK S : out \in Seq(S)
    BY DEF Rows
  <2>3. out \in Seq(S \cup {cap}) /\ cap \in S \cup {cap} /\ Len(out) \in Nat
    BY <2>2
  <2>4. /\ out' \in Seq(S \cup {cap})
        /\ Len(out') = Len(out) + 1
        /\ \A k \in 1 .. Len(out) : out'[k] = out[k]
        /\ out'[Len(out) + 1] = cap
        /\ DOMAIN out' = 1 .. Len(out) + 1
    BY <2>1, <2>3
  <2>5. seen = {out[k] : k \in 1 .. Len(out)} /\ DOMAIN out = 1 .. Len(out)
    BY RowsOfKeys
  <2>6. seen' = Range(out')
    <3>1. \A x : x \in seen' <=> \E k \in 1 .. Len(out) + 1 : out'[k] = x
      <4> TAKE x
      <4>1. ASSUME x \in seen' PROVE \E k \in 1 .. Len(out) + 1 : out'[k] = x
        <5>1. CASE x = cap
          BY <2>3, <2>4, <5>1
        <5>2. CASE x \in seen
          BY <2>3, <2>4, <2>5, <5>2
        <5> QED
          BY <2>1, <4>1, <5>1, <5>2
      <4>2. ASSUME NEW k \in 1 .. Len(out) + 1, out'[k] = x PROVE x \in seen'
        <5>1. CASE k = Len(out) + 1
          BY <2>1, <2>4, <4>2, <5>1
        <5>2. CASE k \in 1 .. Len(out)
          BY <2>1, <2>4, <2>5, <4>2, <5>2
        <5> QED
          BY <2>3, <5>1, <5>2
      <4> QED
        BY <4>1, <4>2
    <3> QED
      BY <2>4, <3>1 DEF Range
  <2>7. IsInjective(out')
    <3> SUFFICES ASSUME NEW k \in 1 .. Len(out) + 1, NEW l \in 1 .. Len(out) + 1,
                        out'[k] = out'[l]
                 PROVE  k = l
      BY <2>4 DEF IsInjective
    <3>1. CASE k \in 1 .. Len(out) /\ l \in 1 .. Len(out)
      BY <2>4, <2>5, <3>1 DEF Rows, NoDuplicates, IsInjective
    <3>2. CASE k = Len(out) + 1 /\ l \in 1 .. Len(out)
      BY <1>2, <2>4, <2>5, <3>2
    <3>3. CASE l = Len(out) + 1 /\ k \in 1 .. Len(out)
      BY <1>2, <2>4, <2>5, <3>3
    <3> QED
      BY <2>3, <3>1, <3>2, <3>3
  <2>8. Len(out') <= MaxCapabilities
    BY <1>2, <2>3, <2>4, MaxCapabilitiesAssumption DEF Full
  <2>9. Rows'
    BY <2>4, <2>6, <2>7, <2>8 DEF Rows, CapabilitiesBounded, NoDuplicates
  <2> QED
    BY <1>2, <2>1, <2>9 DEF Adds
<1> QED
  BY <1>1, <1>2

LEMMA PushIfKeepsRows ==
    ASSUME Rows, NEW test \in BOOLEAN, NEW cap, PushIf(test, cap)
    PROVE  Rows' /\ Adds(IF test THEN {cap} ELSE {})
<1>1. CASE test
  BY <1>1, PushKeepsRows DEF PushIf
<1>2. CASE ~test
  <2>1. out' = out /\ seen' = seen
    BY <1>2 DEF PushIf, NotPushed
  <2>2. Full' <=> Full
    BY <2>1 DEF Full
  <2> QED
    BY <1>2, <2>1, <2>2 DEF Rows, CapabilitiesBounded, NoDuplicates, Adds
<1> QED
  BY <1>1, <1>2

\* Sets of signals do not change, and the input stays what it is.
LEMMA SignalsFixed ==
    ASSUME UNCHANGED inputs
    PROVE  /\ ImportSignals' = ImportSignals /\ StringSignals' = StringSignals
           /\ InsnSignals' = InsnSignals
           /\ TextSignals' = TextSignals /\ Signals' = Signals
<1>1. obj' = obj /\ hits' = hits /\ insns' = insns
  BY DEF inputs
<1>2. ImportSignals' = ImportSignals
  BY <1>1 DEF ImportSignals
<1>3. StringSignals' = StringSignals
  BY <1>1 DEF StringSignals
<1>4. InsnSignals' = InsnSignals
  BY <1>1 DEF InsnSignals
<1> QED
  BY <1>2, <1>3, <1>4 DEF TextSignals, Signals

\* Where the loops range.
LEMMA Ranges ==
    ASSUME Scanning
    PROVE  /\ IsSequence(imports(obj)) /\ IsSequence(hits) /\ IsSequence(insns)
           /\ IsSequence(ApiMap) /\ IsSequence(StringMap)
<1>1. IsSequence(ApiMap) /\ IsSequence(StringMap)
  BY ListsAssumption, SeqIsSequence
<1>2. IsSequence(hits) /\ IsSequence(insns)
  BY ListsAssumption, SeqIsSequence DEF Scanning
<1> QED
  BY <1>1, <1>2, ImportsAreSequence DEF Scanning

\* The keys of an earlier signal stay complete when keys of a later one are added.
LEMMA StaysComplete ==
    ASSUME NEW keys, Adds(keys), NEW earlier, NEW signals,
           ~Full \/ ~(seen \subseteq earlier) => signals \subseteq seen
    PROVE  ~Full' \/ ~(seen' \subseteq earlier) => signals \subseteq seen'
BY DEF Adds

LEMMA PatternsAre ==
    /\ DOMAIN Patterns = 1 .. 4 /\ Len(Patterns) = 4
    /\ InsnSignals = {Patterns[k].row : k \in {l \in DOMAIN Patterns :
                                                 Patterns[l].insns \cap Range(insns) # {}}}
BY DEF Patterns, InsnSignals

-----------------------------------------------------------------------------
Inv == Scanning /\ Rows /\ Passes

LEMMA InvInit == Init => Inv
<1> SUFFICES ASSUME Init PROVE Inv
  OBVIOUS
<1>1. Scanning
  BY DEF Init, Scanning, Phases
<1>2. <<>> \in Seq({}) /\ Len(<<>>) = 0 /\ DOMAIN <<>> = {}
  OBVIOUS
<1>3. Rows
  BY <1>2, MaxCapabilitiesAssumption
  DEF Init, Rows, CapabilitiesBounded, NoDuplicates, IsInjective, Range
<1>4. \A n \in DOMAIN imports(obj), m \in DOMAIN ApiMap : ~Behind(n, m)
  BY <1>1, Ranges DEF Init, Behind, IsSequence
<1>5. Passes
  BY <1>4 DEF Init, Passes, ImportsMatched
<1> QED
  BY <1>1, <1>3, <1>5 DEF Inv

LEMMA MatchImportStep == ASSUME Inv, MatchImport PROVE Inv'
<1> DEFINE imp == imports(obj)[i]
           cap == Capability(ApiMap[j].rule, imp.name)
           keys == IF SameName(ApiMap[j], imp) THEN {cap} ELSE {}
<1>1. /\ phase = "imports" /\ phase' = phase /\ i' = i /\ j' = j + 1 /\ saw' = saw
      /\ UNCHANGED inputs
      /\ i \in DOMAIN imports(obj) /\ j \in DOMAIN ApiMap
      /\ PushIf(SameName(ApiMap[j], imp), cap)
  BY Ranges DEF MatchImport, Inv, Scanning, IsSequence
<1>2. Scanning'
  BY <1>1 DEF Inv, Scanning, inputs
<1>3. Rows' /\ Adds(keys)
  <2>1. SameName(ApiMap[j], imp) \in BOOLEAN
    BY DEF SameName
  <2> QED
    BY <1>1, <2>1, PushIfKeepsRows DEF Inv
<1>4. keys \subseteq ImportSignals
  <2>1. SameName(ApiMap[j], imp) => cap \in ImportRows(imp)
    BY <1>1 DEF ImportRows, Range
  <2>2. imp \in Range(imports(obj))
    BY <1>1 DEF Range
  <2> HIDE DEF imp, cap
  <2> QED
    BY <2>1, <2>2 DEF ImportSignals
<1> HIDE DEF keys
<1>5. seen' \subseteq ImportSignals'
  BY <1>1, <1>3, <1>4, SignalsFixed DEF Adds, Inv, Passes
<1>6. ASSUME ~Full' PROVE ImportsMatched'
  <2>1. imports(obj)' = imports(obj)
    BY <1>1 DEF inputs
  <2> SUFFICES ASSUME NEW n \in DOMAIN imports(obj), NEW m \in DOMAIN ApiMap,
                      Behind(n, m)', SameName(ApiMap[m], imports(obj)[n])
               PROVE  Capability(ApiMap[m].rule, imports(obj)[n].name) \in seen'
    BY <2>1 DEF ImportsMatched
  <2>2. CASE Behind(n, m)
    BY <1>1, <1>3, <1>6, <2>2 DEF Adds, Inv, Passes, ImportsMatched
  <2>3. CASE ~Behind(n, m)
    <3>1. n = i /\ m = j
      BY <1>1, <2>3, Ranges DEF Behind, Inv, Scanning, IsSequence
    <3> QED
      BY <1>3, <1>6, <3>1 DEF Adds, keys
  <2> QED
    BY <2>2, <2>3
<1>7. Passes'
  BY <1>1, <1>5, <1>6 DEF Inv, Passes
<1> QED
  BY <1>2, <1>3, <1>7 DEF Inv

LEMMA NextImportStep == ASSUME Inv, NextImport PROVE Inv'
<1>1. /\ phase = "imports" /\ phase' = phase /\ i' = i + 1 /\ j' = 1
      /\ out' = out /\ seen' = seen /\ saw' = saw
      /\ UNCHANGED inputs
      /\ j > Len(ApiMap) \/ imports(obj)[i].name = None
  BY DEF NextImport
<1>2. Scanning' /\ Rows'
  BY <1>1 DEF Inv, Scanning, inputs, Rows, CapabilitiesBounded, NoDuplicates
<1>3. ASSUME ~Full, ImportsMatched PROVE ImportsMatched'
  <2>1. imports(obj)' = imports(obj)
    BY <1>1 DEF inputs
  <2> SUFFICES ASSUME NEW n \in DOMAIN imports(obj), NEW m \in DOMAIN ApiMap,
                      Behind(n, m)', SameName(ApiMap[m], imports(obj)[n])
               PROVE  Capability(ApiMap[m].rule, imports(obj)[n].name) \in seen
    BY <1>1, <2>1 DEF ImportsMatched
  <2>2. Behind(n, m)
    BY <1>1, Ranges DEF Behind, Inv, Scanning, IsSequence, SameName
  <2> QED
    BY <1>3, <2>2 DEF ImportsMatched
<1>4. Full' <=> Full
  BY <1>1 DEF Full
<1>5. Passes'
  BY <1>1, <1>3, <1>4, SignalsFixed DEF Inv, Passes
<1> QED
  BY <1>2, <1>5 DEF Inv

LEMMA NoMoreImportsStep == ASSUME Inv, NoMoreImports PROVE Inv'
<1>1. /\ phase = "imports" /\ phase' = "strings" /\ i' = 1 /\ j' = 1
      /\ out' = out /\ seen' = seen /\ saw' = saw
      /\ UNCHANGED inputs
      /\ i > Len(imports(obj))
  BY DEF NoMoreImports
<1>2. Scanning' /\ Rows'
  BY <1>1 DEF Inv, Scanning, Phases, inputs, Rows, CapabilitiesBounded, NoDuplicates
<1>3. ASSUME ImportsMatched PROVE ImportSignals \subseteq seen
  <2> SUFFICES ASSUME NEW n \in DOMAIN imports(obj), NEW m \in DOMAIN ApiMap,
                      SameName(ApiMap[m], imports(obj)[n])
               PROVE  Capability(ApiMap[m].rule, imports(obj)[n].name) \in seen
    BY DEF ImportSignals, ImportRows, Range
  <2>1. Behind(n, m)
    BY <1>1, Ranges DEF Behind, Inv, Scanning, IsSequence
  <2> QED
    BY <1>3, <2>1 DEF ImportsMatched
<1>4. StringsMatched'
  <2>1. \A n \in DOMAIN hits, m \in DOMAIN StringMap : ~Behind(n, m)'
    BY <1>1, Ranges DEF Behind, Inv, IsSequence
  <2>2. hits' = hits
    BY <1>1 DEF inputs
  <2> QED
    BY <2>1, <2>2 DEF StringsMatched
<1>5. Full' <=> Full
  BY <1>1 DEF Full
<1>6. Passes'
  BY <1>1, <1>3, <1>4, <1>5, SignalsFixed DEF Inv, Passes, TextSignals
<1> QED
  BY <1>2, <1>6 DEF Inv

LEMMA MatchStringStep == ASSUME Inv, MatchString PROVE Inv'
<1> DEFINE hit == hits[i]
           cap == Capability(StringMap[j].rule, hit.evidence)
           keys == IF Contained(StringMap[j], hit) THEN {cap} ELSE {}
<1>1. /\ phase = "strings" /\ phase' = phase /\ i' = i /\ j' = j + 1 /\ saw' = saw
      /\ UNCHANGED inputs
      /\ i \in DOMAIN hits /\ j \in DOMAIN StringMap
      /\ PushIf(Contained(StringMap[j], hit), cap)
  BY Ranges DEF MatchString, Inv, Scanning, IsSequence
<1>2. Scanning'
  BY <1>1 DEF Inv, Scanning, inputs
<1>3. Rows' /\ Adds(keys)
  <2>1. Contained(StringMap[j], hit) \in BOOLEAN
    BY DEF Contained
  <2> QED
    BY <1>1, <2>1, PushIfKeepsRows DEF Inv
<1>4. keys \subseteq StringSignals
  <2>1. Contained(StringMap[j], hit) => cap \in StringRows(hit)
    BY <1>1 DEF StringRows, Range
  <2>2. hit \in Range(hits)
    BY <1>1 DEF Range
  <2> HIDE DEF hit, cap
  <2> QED
    BY <2>1, <2>2 DEF StringSignals
<1> HIDE DEF keys
<1>5. seen' \subseteq TextSignals'
  BY <1>1, <1>3, <1>4, SignalsFixed DEF Adds, Inv, Passes, TextSignals
<1>6. ASSUME ~Full' PROVE StringsMatched'
  <2>1. hits' = hits
    BY <1>1 DEF inputs
  <2> SUFFICES ASSUME NEW n \in DOMAIN hits, NEW m \in DOMAIN StringMap,
                      Behind(n, m)', Contained(StringMap[m], hits[n])
               PROVE  Capability(StringMap[m].rule, hits[n].evidence) \in seen'
    BY <2>1 DEF StringsMatched
  <2>2. CASE Behind(n, m)
    BY <1>1, <1>3, <1>6, <2>2 DEF Adds, Inv, Passes, StringsMatched
  <2>3. CASE ~Behind(n, m)
    <3>1. n = i /\ m = j
      BY <1>1, <2>3, Ranges DEF Behind, Inv, Scanning, IsSequence
    <3> QED
      BY <1>3, <1>6, <3>1 DEF Adds, keys
  <2> QED
    BY <2>2, <2>3
<1>7. ~Full' \/ ~(seen' \subseteq ImportSignals') => ImportSignals' \subseteq seen'
  BY <1>1, <1>3, StaysComplete, SignalsFixed DEF Inv, Passes
<1>8. Passes'
  BY <1>1, <1>5, <1>6, <1>7 DEF Inv, Passes
<1> QED
  BY <1>2, <1>3, <1>8 DEF Inv

LEMMA NextStringStep == ASSUME Inv, NextString PROVE Inv'
<1>1. /\ phase = "strings" /\ phase' = phase /\ i' = i + 1 /\ j' = 1
      /\ out' = out /\ seen' = seen /\ saw' = saw
      /\ UNCHANGED inputs
      /\ j > Len(StringMap)
  BY DEF NextString
<1>2. Scanning' /\ Rows'
  BY <1>1 DEF Inv, Scanning, inputs, Rows, CapabilitiesBounded, NoDuplicates
<1>3. ASSUME StringsMatched PROVE StringsMatched'
  <2>1. hits' = hits
    BY <1>1 DEF inputs
  <2> SUFFICES ASSUME NEW n \in DOMAIN hits, NEW m \in DOMAIN StringMap,
                      Behind(n, m)', Contained(StringMap[m], hits[n])
               PROVE  Capability(StringMap[m].rule, hits[n].evidence) \in seen
    BY <1>1, <2>1 DEF StringsMatched
  <2>2. Behind(n, m)
    BY <1>1, Ranges DEF Behind, Inv, Scanning, IsSequence
  <2> QED
    BY <1>3, <2>2 DEF StringsMatched
<1>4. Full' <=> Full
  BY <1>1 DEF Full
<1>5. Passes'
  BY <1>1, <1>3, <1>4, SignalsFixed DEF Inv, Passes
<1> QED
  BY <1>2, <1>5 DEF Inv

LEMMA NoMoreStringsStep == ASSUME Inv, NoMoreStrings PROVE Inv'
<1>1. /\ phase = "strings" /\ phase' = "insns" /\ i' = 1 /\ j' = j
      /\ out' = out /\ seen' = seen /\ saw' = saw
      /\ UNCHANGED inputs
      /\ i > Len(hits)
  BY DEF NoMoreStrings
<1>2. Scanning' /\ Rows'
  BY <1>1 DEF Inv, Scanning, Phases, inputs, Rows, CapabilitiesBounded, NoDuplicates
<1>3. ASSUME StringsMatched PROVE StringSignals \subseteq seen
  <2> SUFFICES ASSUME NEW n \in DOMAIN hits, NEW m \in DOMAIN StringMap,
                      Contained(StringMap[m], hits[n])
               PROVE  Capability(StringMap[m].rule, hits[n].evidence) \in seen
    BY DEF StringSignals, StringRows, Range
  <2>1. Behind(n, m)
    BY <1>1, Ranges DEF Behind, Inv, Scanning, IsSequence
  <2> QED
    BY <1>3, <2>1 DEF StringsMatched
<1>4. {k \in DOMAIN Patterns :
         \E l \in DOMAIN insns' : l < 1 /\ insns'[l] \in Patterns[k].insns} = {}
  <2>1. insns' = insns
    BY <1>1 DEF inputs
  <2>2. \A l \in DOMAIN insns : ~(l < 1)
    BY Ranges DEF Inv, IsSequence
  <2> QED
    BY <2>1, <2>2
<1>5. Full' <=> Full
  BY <1>1 DEF Full
<1>6. Passes'
  BY <1>1, <1>3, <1>4, <1>5, SignalsFixed DEF Inv, Passes
<1> QED
  BY <1>2, <1>6 DEF Inv

LEMMA LookAtInsnStep == ASSUME Inv, LookAtInsn PROVE Inv'
<1>1. /\ phase = "insns" /\ phase' = phase /\ i' = i + 1 /\ j' = j
      /\ out' = out /\ seen' = seen
      /\ saw' = saw \cup {k \in DOMAIN Patterns : insns[i] \in Patterns[k].insns}
      /\ UNCHANGED inputs
      /\ i \in DOMAIN insns
  BY Ranges DEF LookAtInsn, Inv, Scanning, IsSequence
<1>2. Scanning' /\ Rows'
  BY <1>1 DEF Inv, Scanning, inputs, Rows, CapabilitiesBounded, NoDuplicates
<1>3. saw' = {k \in DOMAIN Patterns :
                \E l \in DOMAIN insns' : l < i' /\ insns'[l] \in Patterns[k].insns}
  <2>1. insns' = insns
    BY <1>1 DEF inputs
  <2>2. \A l \in DOMAIN insns : l < i + 1 <=> l < i \/ l = i
    BY Ranges DEF Inv, Scanning, IsSequence
  <2>3. saw = {k \in DOMAIN Patterns :
                 \E l \in DOMAIN insns : l < i /\ insns[l] \in Patterns[k].insns}
    BY <1>1 DEF Inv, Passes
  <2> QED
    BY <1>1, <2>1, <2>2, <2>3
<1>4. Full' <=> Full
  BY <1>1 DEF Full
<1>5. Passes'
  BY <1>1, <1>3, <1>4, SignalsFixed DEF Inv, Passes
<1> QED
  BY <1>2, <1>5 DEF Inv

LEMMA NoMoreInsnsStep == ASSUME Inv, NoMoreInsns PROVE Inv'
<1>1. /\ phase = "insns" /\ phase' = "patterns" /\ i' = 1 /\ j' = j
      /\ out' = out /\ seen' = seen /\ saw' = saw
      /\ UNCHANGED inputs
      /\ i > Len(insns)
  BY DEF NoMoreInsns
<1>2. Scanning' /\ Rows'
  BY <1>1 DEF Inv, Scanning, Phases, inputs, Rows, CapabilitiesBounded, NoDuplicates
<1>3. saw = {k \in DOMAIN Patterns : Patterns[k].insns \cap Range(insns) # {}}
  <2>1. \A l \in DOMAIN insns : l < i
    BY <1>1, Ranges DEF Inv, Scanning, IsSequence
  <2>2. saw = {k \in DOMAIN Patterns :
                 \E l \in DOMAIN insns : l < i /\ insns[l] \in Patterns[k].insns}
    BY <1>1 DEF Inv, Passes
  <2> QED
    BY <2>1, <2>2 DEF Range
<1>4. insns' = insns
  BY <1>1 DEF inputs
<1>5. PatternsMatched'
  BY <1>1, <1>3, PatternsAre DEF PatternsMatched
<1>6. Full' <=> Full
  BY <1>1 DEF Full
<1>7. Passes'
  BY <1>1, <1>3, <1>4, <1>5, <1>6, SignalsFixed DEF Inv, Passes, Signals, TextSignals
<1> QED
  BY <1>2, <1>7 DEF Inv

LEMMA PushPatternStep == ASSUME Inv, PushPattern PROVE Inv'
<1> DEFINE keys == IF i \in saw THEN {Patterns[i].row} ELSE {}
<1>1. /\ phase = "patterns" /\ phase' = phase /\ i' = i + 1 /\ j' = j /\ saw' = saw
      /\ UNCHANGED inputs
      /\ i \in DOMAIN Patterns
      /\ PushIf(i \in saw, Patterns[i].row)
  BY PatternsAre DEF PushPattern, Inv, Scanning
<1>2. Scanning'
  BY <1>1 DEF Inv, Scanning, inputs
<1>3. Rows' /\ Adds(keys)
  BY <1>1, PushIfKeepsRows, (i \in saw) \in BOOLEAN DEF Inv
<1>4. saw = {k \in DOMAIN Patterns : Patterns[k].insns \cap Range(insns) # {}}
  BY <1>1 DEF Inv, Passes
<1>5. keys \subseteq InsnSignals
  BY <1>1, <1>4, PatternsAre
<1> HIDE DEF keys
<1>6. seen' \subseteq Signals'
  BY <1>1, <1>3, <1>5, SignalsFixed DEF Adds, Inv, Passes, Signals
<1>7. ASSUME ~Full' PROVE PatternsMatched'
  <2> SUFFICES ASSUME NEW k \in saw, k < i + 1 PROVE Patterns[k].row \in seen'
    BY <1>1 DEF PatternsMatched
  <2>1. CASE k < i
    BY <1>1, <1>3, <1>7, <2>1 DEF Adds, Inv, Passes, PatternsMatched
  <2>2. CASE ~(k < i)
    <3>1. k = i
      BY <1>1, <1>4, <2>2, PatternsAre
    <3> QED
      BY <1>3, <1>7, <3>1 DEF Adds, keys
  <2> QED
    BY <2>1, <2>2
<1>8. ~Full' \/ ~(seen' \subseteq ImportSignals') => ImportSignals' \subseteq seen'
  BY <1>1, <1>3, StaysComplete, SignalsFixed DEF Inv, Passes
<1>9. ~Full' \/ ~(seen' \subseteq TextSignals') => StringSignals' \subseteq seen'
  BY <1>1, <1>3, StaysComplete, SignalsFixed DEF Inv, Passes
<1>10. insns' = insns
  BY <1>1 DEF inputs
<1>11. Passes'
  BY <1>1, <1>4, <1>6, <1>7, <1>8, <1>9, <1>10 DEF Inv, Passes
<1> QED
  BY <1>2, <1>3, <1>11 DEF Inv

LEMMA ReturnStep == ASSUME Inv, Return PROVE Inv'
<1>1. /\ phase = "patterns" /\ phase' = "done" /\ i' = i /\ j' = j
      /\ out' = out /\ seen' = seen /\ saw' = saw
      /\ UNCHANGED inputs
      /\ i > 4
  BY PatternsAre DEF Return
<1>2. Scanning' /\ Rows'
  BY <1>1 DEF Inv, Scanning, Phases, inputs, Rows, CapabilitiesBounded, NoDuplicates
<1>3. saw = {k \in DOMAIN Patterns : Patterns[k].insns \cap Range(insns) # {}}
  BY <1>1 DEF Inv, Passes
<1>4. ASSUME PatternsMatched PROVE InsnSignals \subseteq seen
  <2>1. \A k \in saw : k < i
    BY <1>1, <1>3, PatternsAre DEF Inv, Scanning
  <2> QED
    BY <1>3, <1>4, <2>1, PatternsAre DEF PatternsMatched
<1>5. (Full' <=> Full) /\ insns' = insns
  BY <1>1 DEF Full, inputs
<1>6. Passes'
  BY <1>1, <1>3, <1>4, <1>5, SignalsFixed DEF Inv, Passes
<1> QED
  BY <1>2, <1>6 DEF Inv

-----------------------------------------------------------------------------
LEMMA InvStep == Inv /\ [Next]_vars => Inv'
<1> SUFFICES ASSUME Inv, [Next]_vars PROVE Inv'
  OBVIOUS
<1>1. CASE UNCHANGED vars
  <2>1. /\ UNCHANGED inputs /\ out' = out /\ seen' = seen /\ saw' = saw
        /\ i' = i /\ j' = j /\ phase' = phase
    BY <1>1 DEF vars, inputs
  <2>2. obj' = obj /\ hits' = hits /\ insns' = insns
    BY <2>1 DEF inputs
  <2>3. Scanning' /\ Rows'
    BY <2>1, <2>2 DEF Inv, Scanning, Rows, CapabilitiesBounded, NoDuplicates
  <2>4. (ImportsMatched' <=> ImportsMatched) /\ (StringsMatched' <=> StringsMatched)
        /\ (PatternsMatched' <=> PatternsMatched) /\ (Full' <=> Full)
    BY <2>1, <2>2 DEF ImportsMatched, StringsMatched, PatternsMatched, Behind, Full
  <2>5. Passes'
    BY <2>1, <2>2, <2>4, SignalsFixed DEF Inv, Passes
  <2> QED
    BY <2>3, <2>5 DEF Inv
<1> QED
  BY <1>1, MatchImportStep, NextImportStep, NoMoreImportsStep, MatchStringStep, NextStringStep,
     NoMoreStringsStep, LookAtInsnStep, NoMoreInsnsStep, PushPatternStep, ReturnStep DEF Next

LEMMA Invariance == Spec => []Inv
BY InvInit, InvStep, PTL DEF Spec

(***************************************************************************)
(* The rows of all three signals together are within MAX_CAPABILITIES.     *)
(***************************************************************************)
THEOREM Bounded == Spec => []CapabilitiesBounded
<1>1. Inv => CapabilitiesBounded
  BY DEF Inv, Rows
<1> QED
  BY <1>1, Invariance, PTL

(***************************************************************************)
(* No rule is reported twice with the same evidence, and the list of keys  *)
(* that push looks at is that of the rows.                                 *)
(***************************************************************************)
THEOREM Distinct == Spec => []NoDuplicates
<1>1. Inv => NoDuplicates
  BY DEF Inv, Rows
<1> QED
  BY <1>1, Invariance, PTL

(***************************************************************************)
(* Every row is of an import, a string or an instruction of the blob.      *)
(***************************************************************************)
THEOREM Signalled == Spec => []RowsAreSignals
<1>1. Inv => RowsAreSignals
  <2> SUFFICES ASSUME Inv PROVE seen \subseteq Signals
    BY DEF Inv, Rows, NoDuplicates, RowsAreSignals
  <2> QED
    BY DEF Inv, Scanning, Phases, Passes, TextSignals, Signals
<1> QED
  BY <1>1, Invariance, PTL

(***************************************************************************)
(* When the matcher returns below the cap every signal has its row; a full *)
(* output misses rows of later signals first.                              *)
(***************************************************************************)
THEOREM Reported == Spec => []SignalsReported
<1>1. Inv => SignalsReported
  <2> SUFFICES ASSUME Inv, phase = "done"
               PROVE  /\ Len(out) < MaxCapabilities => Signals \subseteq seen
                      /\ seen \ ImportSignals # {} => ImportSignals \subseteq seen
                      /\ seen \ TextSignals # {} => StringSignals \subseteq seen
    BY DEF Inv, Rows, NoDuplicates, SignalsReported, TextSignals
  <2>1. Len(out) < MaxCapabilities => ~Full
    BY RowsOfKeys, MaxCapabilitiesAssumption DEF Inv, Full
  <2> QED
    BY <2>1 DEF Inv, Passes, Signals
<1> QED
  BY <1>1, Invariance, PTL
=============================================================================
