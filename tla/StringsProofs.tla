--------------------------- MODULE StringsProofs ---------------------------
(***************************************************************************)
(* Theorems about the string scan, for every blob, min_len and limit: the  *)
(* hits are longest runs, in the order of the file, capped, and none is    *)
(* lost below the cap.                                                     *)
(***************************************************************************)
EXTENDS Strings, SelectionProofs

Encodings == {"ascii", "utf16le"}
HitType == [offset : Nat, encoding : Encodings, length : 0 .. MaxStringLen]

(***************************************************************************)
(* What the ASCII scan knows of the bytes behind it: the last cur of them  *)
(* are printable, the one before these is not, and the hits are behind     *)
(* both.                                                                   *)
(***************************************************************************)
AsciiInPlace ==
    /\ i <= Len(data) /\ cur <= i
    /\ \A p \in i - cur .. i - 1 : Printable(p)
    /\ ~Printable(i - cur - 1)
    /\ cur > 0 => start = i - cur
    /\ Len(out) < MaxStrings \/ i = 0
    /\ \A h \in DOMAIN out : out[h].encoding = "ascii" /\ out[h].offset < i - cur

\* Between two UTF-16 runs: a unit at i is the first of its run.
BetweenUnits ==
    /\ ~Unit(i - 1)
    /\ ~(Unit(i - 2) /\ Unit(i))
    /\ \A h \in DOMAIN out : out[h].encoding = "utf16le" => out[h].offset < i

\* In a UTF-16 run: cur units from start on, the first of them the first of all.
UnitsInPlace ==
    /\ i = start + 2 * cur
    /\ \A k \in 0 .. cur - 1 : Unit(start + 2 * k)
    /\ ~Unit(start - 2)
    /\ cur = 0 => Unit(i)
    /\ \A h \in DOMAIN out : out[h].encoding = "utf16le" => out[h].offset < start

InPlace ==
    /\ TypeOK
    /\ StringsBounded
    /\ pc = "ascii" => AsciiInPlace
    /\ pc = "utf16" => BetweenUnits
    /\ pc = "run" => UnitsInPlace

(***************************************************************************)
(* A push into the output: a longest run, behind the hits pushed before.   *)
(***************************************************************************)
PushesRun(e) ==
    /\ Len(out) < MaxStrings
    /\ out' = Append(out, Hit(start, e, cur))
    /\ cur \in min_len .. Len(data)
    /\ IsRun(e, start, cur)
    /\ \A h \in DOMAIN out :
         \/ out[h].encoding = e /\ out[h].offset < start
         \/ out[h].encoding = "ascii" /\ e = "utf16le"

Encoding == IF pc = "ascii" THEN "ascii" ELSE "utf16le"

-----------------------------------------------------------------------------
LEMMA ClosedOut ==
    ASSUME NEW e
    PROVE  \/ Closed(e) = out /\ (~(cur >= min_len) \/ Len(out) >= MaxStrings)
           \/ /\ cur >= min_len /\ ~(Len(out) >= MaxStrings)
              /\ Closed(e) = Append(out, Hit(start, e, cur))
  BY DEF Closed, push_run

\* What is appended is behind what was there.
LEMMA Appended ==
    ASSUME TypeOK, NEW e \in Encodings, NEW n \in Nat, NEW s \in Nat
    PROVE  LET longer == Append(out, Hit(s, e, n))
           IN  /\ longer \in Seq(HitType)
               /\ Len(longer) = Len(out) + 1
               /\ \A h \in 1 .. Len(out) : longer[h] = out[h]
               /\ longer[Len(out) + 1] = Hit(s, e, n)
<1>1. Hit(s, e, n) \in HitType
  BY StringLimitsAssumption DEF Hit, HitType, Least
<1>2. out \in Seq(HitType)
  BY DEF TypeOK, HitType, Encodings
<1> QED
  BY <1>1, <1>2

\* Two printable characters never share a byte of a UTF-16 unit.
LEMMA UnitsApart ==
    ASSUME TypeOK, NEW p \in Int, Unit(p)
    PROVE  ~Unit(p + 1) /\ p \in 0 .. Len(data) - 2
<1>1. p \in 0 .. Len(data) - 2 /\ data[p + 2] = "nul"
  BY DEF Unit, Printable, TypeOK
<1>2. ~Printable(p + 1)
  BY <1>1 DEF Printable
<1> QED
  BY <1>1, <1>2 DEF Unit

LEMMA HitIs ==
    ASSUME TypeOK, NEW h \in DOMAIN out
    PROVE  out[h].offset \in Nat /\ out[h].encoding \in Encodings
<1>1. out \in Seq(HitType)
  BY DEF TypeOK, HitType, Encodings
<1>2. out[h] \in HitType
  <2> HIDE DEF HitType
  <2> QED
    BY <1>1
<1> QED
  BY <1>2 DEF HitType

\* out.truncate(MAX_STRINGS) has nothing left to cut.
LEMMA NothingToCut ==
    ASSUME TypeOK
    PROVE  SubSeq(out, 1, Len(out)) = out
<1>1. out \in Seq(HitType) /\ Len(out) \in Nat
  BY DEF TypeOK, HitType, Encodings
<1> HIDE DEF HitType
<1> QED
  BY <1>1

LEMMA SameBytes ==
    ASSUME data' = data
    PROVE  \A p : (Printable(p)' <=> Printable(p)) /\ (Unit(p)' <=> Unit(p))
  BY DEF Printable, Unit

-----------------------------------------------------------------------------
LEMMA InPlaceInit == Init => InPlace
<1> SUFFICES ASSUME Init PROVE InPlace
  OBVIOUS
<1>1. data \in Seq(Byte)
  <2>1. PICK b \in Blobs : data = SubSeq(b, 1, Least(Len(b), MaxScanBytes))
    BY DEF Init
  <2>2. b \in Seq(Byte) /\ Least(Len(b), MaxScanBytes) \in 0 .. Len(b)
    BY BlobsAssumption, StringLimitsAssumption DEF Least
  <2> QED
    BY <2>1, <2>2
<1>2. min_len \in Nat \ {0}
  <2>1. PICK m \in MinLenArgs : min_len = EffectiveMinLen(m)
    BY DEF Init
  <2>2. Given(m) \in Nat
    BY MinLenArgsAssumption, StringLimitsAssumption DEF Given
  <2> QED
    BY <2>1, <2>2 DEF EffectiveMinLen
<1>3. out \in Seq(HitType) /\ Len(out) = 0 /\ DOMAIN out = {}
  BY DEF Init
<1>4. TypeOK
  BY <1>1, <1>2, <1>3 DEF Init, TypeOK, HitType, Encodings
<1>5. StringsBounded
  BY <1>3, StringLimitsAssumption DEF StringsBounded
<1>6. AsciiInPlace
  <2>1. i = 0 /\ cur = 0 /\ Len(data) \in Nat
    BY <1>1 DEF Init
  <2>2. ~Printable(-1) /\ i - cur - 1 = -1
    BY <2>1 DEF Printable
  <2> QED
    BY <1>3, <2>1, <2>2 DEF AsciiInPlace
<1> QED
  BY <1>4, <1>5, <1>6 DEF InPlace, Init

-----------------------------------------------------------------------------
\* A run that the ASCII scan has reached the end of.
LEMMA AsciiRunEnds ==
    ASSUME TypeOK, AsciiInPlace, ~Printable(i), cur >= min_len
    PROVE  /\ IsRun("ascii", start, cur)
           /\ cur \in min_len .. Len(data)
           /\ \A h \in DOMAIN out : out[h].encoding = "ascii" /\ out[h].offset < start
<1>1. i \in Nat /\ cur \in Nat /\ cur > 0 /\ min_len \in Nat /\ Len(data) \in Nat
  BY DEF TypeOK
<1>2. start = i - cur /\ cur <= i /\ i <= Len(data)
  BY <1>1 DEF AsciiInPlace
<1>3. ASSUME NEW k \in 0 .. cur - 1 PROVE Printable(start + k)
  <2>1. start + k \in i - cur .. i - 1
    BY <1>1, <1>2
  <2> QED
    BY <2>1 DEF AsciiInPlace
<1>4. ~Printable(start - 1) /\ start + cur = i
  BY <1>1, <1>2 DEF AsciiInPlace
<1> QED
  BY <1>1, <1>2, <1>3, <1>4 DEF IsRun, IsAsciiRun, AsciiInPlace

\* A run that the inner UTF-16 loop has reached the end of.
LEMMA UnitRunEnds ==
    ASSUME TypeOK, UnitsInPlace, ~Unit(i)
    PROVE  /\ cur > 0 /\ cur <= Len(data)
           /\ IsUtf16Run(start, cur)
<1>1. i \in Nat /\ start \in Nat /\ cur \in Nat /\ cur > 0
  BY DEF TypeOK, UnitsInPlace
<1>2. Unit(start + 2 * (cur - 1))
  BY <1>1 DEF UnitsInPlace
<1>3. start + 2 * (cur - 1) \in 0 .. Len(data) - 2
  BY <1>1, <1>2, UnitsApart
<1>4. Len(data) \in Nat
  BY DEF TypeOK
<1> QED
  BY <1>1, <1>3, <1>4 DEF UnitsInPlace, IsUtf16Run

(***************************************************************************)
(* Every step leaves the output alone or pushes a longest run behind it.   *)
(***************************************************************************)
LEMMA PushesRuns ==
    ASSUME InPlace, [Next]_vars
    PROVE  /\ data' = data /\ min_len' = min_len
           /\ out' = out \/ PushesRun(Encoding)
<1> USE DEF InPlace
<1>1. CASE PrintableByte
  BY <1>1 DEF PrintableByte
<1>2. CASE BreakByte \/ EndOfBytes
  <2>1. pc = "ascii" /\ AsciiInPlace /\ TypeOK /\ out' = Closed("ascii")
    BY <1>2 DEF BreakByte, EndOfBytes
  <2>2. ~Printable(i)
    BY <1>2 DEF BreakByte, EndOfBytes, Printable, TypeOK
  <2>3. CASE Closed("ascii") = out
    BY <1>2, <2>1, <2>3 DEF BreakByte, EndOfBytes
  <2>4. CASE Closed("ascii") # out
    <3>1. cur >= min_len /\ ~(Len(out) >= MaxStrings)
            /\ out' = Append(out, Hit(start, "ascii", cur))
      BY <2>1, <2>4, ClosedOut
    <3>2. Len(out) < MaxStrings
      BY <2>1, <3>1, StringLimitsAssumption DEF TypeOK
    <3>3. PushesRun("ascii")
      BY <2>1, <2>2, <3>1, <3>2, AsciiRunEnds DEF PushesRun
    <3> QED
      BY <1>2, <2>1, <3>3 DEF BreakByte, EndOfBytes, Encoding
  <2> QED
    BY <2>3, <2>4
<1>3. CASE CloseRun
  <2>1. pc = "run" /\ UnitsInPlace /\ TypeOK /\ out' = Closed("utf16le")
    BY <1>3 DEF CloseRun
  <2>2. ~Unit(i)
    BY <1>3 DEF CloseRun, InData, Unit
  <2>3. CASE Closed("utf16le") = out
    BY <1>3, <2>1, <2>3 DEF CloseRun
  <2>4. CASE Closed("utf16le") # out
    <3>1. cur >= min_len /\ ~(Len(out) >= MaxStrings)
            /\ out' = Append(out, Hit(start, "utf16le", cur))
      BY <2>1, <2>4, ClosedOut
    <3>2. Len(out) < MaxStrings
      BY <2>1, <3>1, StringLimitsAssumption DEF TypeOK
    <3>3. cur \in min_len .. Len(data) /\ IsRun("utf16le", start, cur)
      BY <2>1, <2>2, <3>1, UnitRunEnds DEF IsRun, TypeOK
    <3>4. ASSUME NEW h \in DOMAIN out, out[h].encoding # "ascii"
          PROVE  out[h].encoding = "utf16le" /\ out[h].offset < start
      BY <2>1, <3>4, HitIs DEF UnitsInPlace, Encodings
    <3>5. PushesRun("utf16le")
      BY <3>1, <3>2, <3>3, <3>4 DEF PushesRun
    <3> QED
      BY <1>3, <2>1, <3>5 DEF CloseRun, Encoding
  <2> QED
    BY <2>3, <2>4
<1>4. CASE EnterRun \/ SkipByte \/ ExtendRun
  BY <1>4 DEF EnterRun, SkipByte, ExtendRun
<1>5. CASE EndOfUnits
  <2>1. Len(out) <= MaxStrings
    BY DEF StringsBounded
  <2>2. SubSeq(out, 1, Len(out)) = out
    BY NothingToCut
  <2> QED
    BY <1>5, <2>1, <2>2 DEF EndOfUnits, Least
<1>6. CASE UNCHANGED vars
  BY <1>6 DEF vars
<1> QED
  BY <1>1, <1>2, <1>3, <1>4, <1>5, <1>6 DEF Next

LEMMA TypingStep == InPlace /\ [Next]_vars => TypeOK' /\ StringsBounded'
<1> SUFFICES ASSUME InPlace, [Next]_vars PROVE TypeOK' /\ StringsBounded'
  OBVIOUS
<1>1. TypeOK /\ StringsBounded
  BY DEF InPlace
<1>2. out' \in Seq(HitType) /\ Len(out') <= MaxStrings
  <2>1. CASE out' = out
    BY <1>1, <2>1 DEF TypeOK, StringsBounded, HitType, Encodings
  <2>2. CASE PushesRun(Encoding)
    <3>1. /\ start \in Nat /\ cur \in Nat /\ Len(out) \in Nat /\ Len(out) < MaxStrings
          /\ Encoding \in Encodings
      BY <1>1, <2>2 DEF TypeOK, PushesRun, Encoding, Encodings
    <3> QED
      BY <1>1, <2>2, <3>1, Appended, StringLimitsAssumption DEF PushesRun
  <2> QED
    BY <2>1, <2>2, PushesRuns
<1>3. i' \in Nat /\ start' \in Nat /\ cur' \in Nat /\ pc' \in {"ascii", "utf16", "run", "done"}
  BY <1>1 DEF TypeOK, Next, vars, PrintableByte, BreakByte, EndOfBytes, NextByte, EnterRun,
              SkipByte, ExtendRun, CloseRun, EndOfUnits
<1> QED
  BY <1>1, <1>2, <1>3, PushesRuns DEF TypeOK, StringsBounded, HitType, Encodings

\* The hit a push appends.
LEMMA PushedHit ==
    ASSUME TypeOK, NEW e \in Encodings, PushesRun(e)
    PROVE  /\ Len(out) \in Nat /\ DOMAIN out = 1 .. Len(out)
           /\ DOMAIN out' = 1 .. Len(out) + 1
           /\ \A h \in 1 .. Len(out) : out'[h] = out[h]
           /\ out'[Len(out) + 1] = Hit(start, e, cur)
<1>1. out \in Seq(HitType) /\ start \in Nat /\ cur \in Nat
  BY DEF TypeOK, HitType, Encodings
<1>2. /\ out' \in Seq(HitType)
      /\ Len(out') = Len(out) + 1
      /\ \A h \in 1 .. Len(out) : out'[h] = out[h]
      /\ out'[Len(out) + 1] = Hit(start, e, cur)
  BY <1>1, Appended DEF PushesRun
<1> HIDE DEF HitType
<1> QED
  BY <1>1, <1>2

(***************************************************************************)
(* A hit of the next state is one of this state, or the run just ended.    *)
(***************************************************************************)
LEMMA HitsThen ==
    ASSUME InPlace, [Next]_vars, NEW h \in DOMAIN out'
    PROVE  \/ h \in DOMAIN out /\ out'[h] = out[h]
           \/ PushesRun(Encoding) /\ out'[h].encoding = Encoding /\ out'[h].offset = start
<1>1. CASE out' = out
  BY <1>1
<1>2. CASE PushesRun(Encoding)
  <2>1. TypeOK /\ Encoding \in Encodings
    BY DEF InPlace, Encoding, Encodings
  <2>2. h \in 1 .. Len(out) \/ h = Len(out) + 1
    BY <1>2, <2>1, PushedHit
  <2>3. Hit(start, Encoding, cur).encoding = Encoding /\ Hit(start, Encoding, cur).offset = start
    BY DEF Hit
  <2> QED
    BY <1>2, <2>1, <2>2, <2>3, PushedHit
<1> QED
  BY <1>1, <1>2, PushesRuns

LEMMA AsciiStep ==
    ASSUME InPlace, [Next]_vars, pc' = "ascii"
    PROVE  AsciiInPlace'
<1>1. pc = "ascii" /\ AsciiInPlace /\ TypeOK /\ data' = data
  <2>1. pc = "ascii"
    BY DEF Next, vars, PrintableByte, BreakByte, EndOfBytes, NextByte, EnterRun,
           SkipByte, ExtendRun, CloseRun, EndOfUnits
  <2> QED
    BY <2>1, PushesRuns DEF InPlace
<1>2. i \in Nat /\ cur \in Nat /\ start \in Nat /\ Len(data) \in Nat /\ min_len \in Nat \ {0}
  BY <1>1 DEF TypeOK
<1>3. /\ \A p : Printable(p)' <=> Printable(p)
      /\ Printable(i - cur - 1)' <=> Printable(i' - cur' - 1)
  BY <1>1 DEF Printable
<1>4. CASE PrintableByte
  <2>1. /\ Printable(i) /\ i \in 0 .. Len(data) - 1
        /\ i' = i + 1 /\ cur' = cur + 1 /\ out' = out
        /\ ~(Len(out) >= MaxStrings)
        /\ start' = IF cur = 0 THEN i ELSE start
    BY <1>1, <1>4 DEF PrintableByte, NextByte, Printable
  <2>2. i' - cur' = i - cur
    BY <1>2, <2>1
  <2>3. \A p \in i' - cur' .. i' - 1 : p \in i - cur .. i - 1 \/ p = i
    BY <1>2, <2>1
  <2>4. (\A p \in i - cur .. i - 1 : Printable(p)) /\ ~Printable(i - cur - 1)
    BY <1>1 DEF AsciiInPlace
  <2>5. \A p \in i' - cur' .. i' - 1 : Printable(p)'
    BY <1>3, <2>1, <2>3, <2>4
  <2>6. ~Printable(i - cur - 1)'
    BY <1>3, <2>2, <2>4
  <2>7. start' = i' - cur'
    BY <1>1, <1>2, <2>1 DEF AsciiInPlace
  <2>8. Len(out) < MaxStrings
    BY <1>1, <2>1, StringLimitsAssumption DEF TypeOK
  <2>9. \A h \in DOMAIN out' : out'[h].encoding = "ascii" /\ out'[h].offset < i' - cur'
    BY <1>1, <2>1, <2>2 DEF AsciiInPlace
  <2>10. i' <= Len(data') /\ cur' <= i'
    BY <1>1, <1>2, <2>1 DEF AsciiInPlace
  <2> QED
    BY <2>1, <2>5, <2>6, <2>7, <2>8, <2>9, <2>10 DEF AsciiInPlace
<1>5. CASE BreakByte
  <2>1. /\ ~Printable(i) /\ i < Len(data)
        /\ i' = i + 1 /\ cur' = 0
        /\ ~(Len(out') >= MaxStrings)
    BY <1>1, <1>5 DEF BreakByte, NextByte
  <2>2. Len(out') < MaxStrings
    BY <2>1, TypingStep, StringLimitsAssumption DEF TypeOK
  <2>3. ASSUME NEW h \in DOMAIN out'
        PROVE  out'[h].encoding = "ascii" /\ out'[h].offset < i + 1
    <3>1. CASE h \in DOMAIN out /\ out'[h] = out[h]
      BY <1>1, <1>2, <3>1, HitIs DEF AsciiInPlace
    <3>2. CASE PushesRun(Encoding) /\ out'[h].encoding = Encoding /\ out'[h].offset = start
      <4>1. cur > 0 /\ start = i - cur
        BY <1>1, <1>2, <3>2 DEF PushesRun, AsciiInPlace
      <4> QED
        BY <1>1, <1>2, <3>2, <4>1 DEF Encoding
    <3> QED
      BY <2>3, <3>1, <3>2, HitsThen
  <2>4. \A p \in i' - cur' .. i' - 1 : FALSE
    BY <1>2, <2>1
  <2>5. ~Printable(i - cur - 1)'
    <3>1. i' - cur' - 1 = i
      BY <1>2, <2>1
    <3> QED
      BY <1>3, <2>1, <3>1
  <2> QED
    BY <1>1, <1>2, <2>1, <2>2, <2>3, <2>4, <2>5 DEF AsciiInPlace
<1>6. CASE UNCHANGED vars
  BY <1>1, <1>6 DEF vars, AsciiInPlace, Printable
<1> QED
  BY <1>1, <1>4, <1>5, <1>6 DEF Next, EndOfBytes, EnterRun, SkipByte, ExtendRun, CloseRun, EndOfUnits

LEMMA BetweenStep ==
    ASSUME InPlace, [Next]_vars, pc' = "utf16"
    PROVE  BetweenUnits'
<1>1. TypeOK /\ data' = data
  BY PushesRuns DEF InPlace
<1>2. i \in Nat /\ cur \in Nat /\ start \in Nat /\ Len(data) \in Nat /\ min_len \in Nat \ {0}
  BY <1>1 DEF TypeOK
<1>3. /\ Unit(i - 1)' <=> Unit(i' - 1)
      /\ Unit(i - 2)' <=> Unit(i' - 2)
      /\ Unit(i)' <=> Unit(i')
  BY <1>1 DEF Unit, Printable
<1>4. CASE pc = "ascii"
  <2>1. i' = 0 /\ AsciiInPlace
    BY <1>4 DEF InPlace, Next, vars, PrintableByte, BreakByte, EndOfBytes, NextByte, EnterRun,
                SkipByte, ExtendRun, CloseRun, EndOfUnits
  <2>2. ~Unit(i' - 1) /\ ~Unit(i' - 2)
    BY <2>1 DEF Unit, Printable
  <2>3. ASSUME NEW h \in DOMAIN out' PROVE out'[h].encoding = "ascii"
    BY <1>4, <2>1, HitsThen DEF AsciiInPlace, Encoding
  <2> QED
    BY <1>3, <2>2, <2>3 DEF BetweenUnits
<1>5. CASE SkipByte
  <2>1. i' = i + 1 /\ ~Unit(i) /\ BetweenUnits /\ out' = out
    BY <1>5 DEF SkipByte, InPlace
  <2>2. i' - 1 = i /\ i' - 2 = i - 1
    BY <1>2, <2>1
  <2>3. \A h \in DOMAIN out : out[h].encoding = "utf16le" => out[h].offset < i + 1
    BY <1>1, <1>2, <2>1, HitIs DEF BetweenUnits
  <2>4. ~Unit(i - 1)
    BY <2>1 DEF BetweenUnits
  <2> QED
    BY <1>3, <2>1, <2>2, <2>3, <2>4 DEF BetweenUnits
<1>6. CASE CloseRun
  <2>1. i' = i /\ ~Unit(i) /\ UnitsInPlace /\ pc = "run"
    BY <1>6 DEF CloseRun, InPlace, InData, Unit
  <2>2. cur > 0
    BY <1>1, <2>1, UnitRunEnds
  <2>3. Unit(i - 2)
    <3>1. Unit(start + 2 * (cur - 1)) /\ start + 2 * (cur - 1) = i - 2
      BY <1>2, <2>1, <2>2 DEF UnitsInPlace
    <3> QED
      BY <3>1
  <2>4. ~Unit(i - 1)
    <3>1. i - 2 \in Int /\ (i - 2) + 1 = i - 1
      BY <1>2
    <3> QED
      BY <1>1, <2>3, <3>1, UnitsApart
  <2>5. start < i
    BY <1>2, <2>1, <2>2 DEF UnitsInPlace
  <2>6. ASSUME NEW h \in DOMAIN out', out'[h].encoding = "utf16le" PROVE out'[h].offset < i
    <3>1. CASE h \in DOMAIN out /\ out'[h] = out[h]
      BY <1>1, <1>2, <2>1, <2>5, <2>6, <3>1, HitIs DEF UnitsInPlace
    <3>2. CASE out'[h].offset = start
      BY <2>5, <3>2
    <3> QED
      BY <3>1, <3>2, HitsThen
  <2> QED
    BY <1>3, <2>1, <2>4, <2>6 DEF BetweenUnits
<1>7. CASE UNCHANGED vars
  BY <1>7 DEF vars, InPlace, BetweenUnits, Unit, Printable
<1> QED
  BY <1>4, <1>5, <1>6, <1>7 DEF Next, EnterRun, ExtendRun, EndOfUnits,
     PrintableByte, BreakByte, EndOfBytes

LEMMA RunStep ==
    ASSUME InPlace, [Next]_vars, pc' = "run"
    PROVE  UnitsInPlace'
<1>1. TypeOK /\ data' = data
  BY PushesRuns DEF InPlace
<1>2. i \in Nat /\ cur \in Nat /\ start \in Nat
  BY <1>1 DEF TypeOK
<1>3. /\ \A p : Unit(p)' <=> Unit(p)
      /\ Unit(start - 2)' <=> Unit(start' - 2)
      /\ Unit(i)' <=> Unit(i')
      /\ \A k : Unit(start + 2 * k)' <=> Unit(start' + 2 * k)
  BY <1>1 DEF Unit, Printable
<1>4. CASE EnterRun
  <2>1. Unit(i) /\ start' = i /\ cur' = 0 /\ i' = i /\ out' = out /\ BetweenUnits
    BY <1>4 DEF EnterRun, InPlace
  <2>2. ~Unit(i - 2)
    BY <2>1 DEF BetweenUnits
  <2>3. i' = start' + 2 * cur' /\ 0 .. cur' - 1 = {}
    BY <1>2, <2>1
  <2> QED
    BY <1>3, <2>1, <2>2, <2>3 DEF UnitsInPlace, BetweenUnits
<1>5. CASE ExtendRun
  <2>1. Unit(i) /\ start' = start /\ cur' = cur + 1 /\ i' = i + 2 /\ out' = out /\ UnitsInPlace
    BY <1>5 DEF ExtendRun, InPlace
  <2>2. i = start + 2 * cur /\ i' = start' + 2 * cur'
    BY <1>2, <2>1 DEF UnitsInPlace
  <2>3. ASSUME NEW k \in 0 .. cur' - 1 PROVE Unit(start + 2 * k)
    <3>1. k \in 0 .. cur - 1 \/ k = cur
      BY <1>2, <2>1
    <3> QED
      BY <2>1, <2>2, <3>1 DEF UnitsInPlace
  <2>4. cur' # 0
    BY <1>2, <2>1
  <2>5. ~Unit(start - 2) /\ \A h \in DOMAIN out : out[h].encoding = "utf16le" => out[h].offset < start
    BY <2>1 DEF UnitsInPlace
  <2>6. /\ ~Unit(start - 2)'
        /\ \A k \in 0 .. cur' - 1 : Unit(start + 2 * k)'
    BY <1>3, <2>1, <2>3, <2>5
  <2> QED
    BY <2>1, <2>2, <2>4, <2>5, <2>6 DEF UnitsInPlace
<1>6. CASE UNCHANGED vars
  BY <1>6 DEF vars, InPlace, UnitsInPlace, Unit, Printable
<1> QED
  BY <1>4, <1>5, <1>6 DEF Next, PrintableByte, BreakByte, EndOfBytes, NextByte,
     SkipByte, CloseRun, EndOfUnits

LEMMA InPlaceStep == InPlace /\ [Next]_vars => InPlace'
  BY TypingStep, AsciiStep, BetweenStep, RunStep DEF InPlace
-----------------------------------------------------------------------------
(***************************************************************************)
(* TypeOK.                                                                 *)
(***************************************************************************)
THEOREM Typing == Spec => []TypeOK
<1>1. InPlace => TypeOK
  BY DEF InPlace
<1> QED
  BY <1>1, InPlaceInit, InPlaceStep, PTL DEF Spec

(***************************************************************************)
(* StringsBounded: the cap holds over both scans.                          *)
(***************************************************************************)
THEOREM Bounded == Spec => []StringsBounded
<1>1. InPlace => StringsBounded
  BY DEF InPlace
<1> QED
  BY <1>1, InPlaceInit, InPlaceStep, PTL DEF Spec

(***************************************************************************)
(* HitsAreRuns: a hit is the whole of a longest run, since one is pushed   *)
(* only where InPlace says that the run ends.                              *)
(***************************************************************************)
THEOREM Runs == Spec => []HitsAreRuns
<1>1. Init => HitsAreRuns
  <2>1. Init => DOMAIN out = {}
    BY DEF Init
  <2> QED
    BY <2>1 DEF HitsAreRuns
<1>2. InPlace /\ HitsAreRuns /\ [Next]_vars => HitsAreRuns'
  <2> SUFFICES ASSUME InPlace, HitsAreRuns, [Next]_vars, NEW h \in DOMAIN out'
               PROVE  \E n \in min_len' .. Len(data') :
                        /\ IsRun(out[h].encoding, out[h].offset, n)'
                        /\ out'[h].length = Least(n, MaxStringLen)
    BY DEF HitsAreRuns
  <2>1. data' = data /\ min_len' = min_len /\ TypeOK /\ Encoding \in Encodings
    BY PushesRuns DEF InPlace, Encoding, Encodings
  <2>2. ASSUME NEW e, NEW s, NEW n, IsRun(e, s, n), e = out'[h].encoding, s = out'[h].offset
        PROVE  IsRun(out[h].encoding, out[h].offset, n)'
    BY <2>1, <2>2 DEF IsRun, IsAsciiRun, IsUtf16Run, Printable, Unit
  <2>3. CASE h \in DOMAIN out /\ out'[h] = out[h]
    <3>1. PICK n \in min_len .. Len(data) :
                 /\ IsRun(out[h].encoding, out[h].offset, n)
                 /\ out[h].length = Least(n, MaxStringLen)
      BY <2>3 DEF HitsAreRuns
    <3> QED
      BY <2>1, <2>2, <2>3, <3>1
  <2>4. CASE ~(h \in DOMAIN out /\ out'[h] = out[h])
    <3>1. /\ PushesRun(Encoding)
          /\ out'[h].encoding = Encoding /\ out'[h].offset = start
      BY <2>4, HitsThen
    <3>2. /\ Len(out) \in Nat /\ DOMAIN out = 1 .. Len(out)
          /\ h \in 1 .. Len(out) + 1
          /\ \A g \in 1 .. Len(out) : out'[g] = out[g]
          /\ out'[Len(out) + 1] = Hit(start, Encoding, cur)
      BY <2>1, <3>1, PushedHit
    <3>3. out'[h] = Hit(start, Encoding, cur)
      BY <2>4, <3>2
    <3>4. out'[h].length = Least(cur, MaxStringLen)
      BY <3>3 DEF Hit
    <3>5. cur \in min_len .. Len(data) /\ IsRun(Encoding, start, cur)
      BY <3>1 DEF PushesRun
    <3> QED
      BY <2>1, <2>2, <3>1, <3>4, <3>5
  <2> QED
    BY <2>3, <2>4
<1> QED
  BY <1>1, <1>2, InPlaceInit, InPlaceStep, PTL DEF Spec

(***************************************************************************)
(* HitsInOrder: every hit is pushed behind those of its encoding.          *)
(***************************************************************************)
THEOREM InOrder == Spec => []HitsInOrder
<1>1. Init => HitsInOrder
  <2>1. Init => Len(out) = 0
    BY DEF Init
  <2> QED
    BY <2>1 DEF HitsInOrder
<1>2. InPlace /\ HitsInOrder /\ [Next]_vars => HitsInOrder'
  <2> SUFFICES ASSUME InPlace, HitsInOrder, [Next]_vars PROVE HitsInOrder'
    OBVIOUS
  <2>1. CASE out' = out
    BY <2>1 DEF HitsInOrder
  <2>2. CASE PushesRun(Encoding)
    <3>1. TypeOK /\ Encoding \in Encodings
      BY DEF InPlace, Encoding, Encodings
    <3>2. /\ Len(out) \in Nat /\ DOMAIN out = 1 .. Len(out)
          /\ DOMAIN out' = 1 .. Len(out) + 1
          /\ \A h \in 1 .. Len(out) : out'[h] = out[h]
          /\ out'[Len(out) + 1] = Hit(start, Encoding, cur)
      BY <2>2, <3>1, PushedHit
    <3>3. Len(out') = Len(out) + 1
      BY <3>1, <2>2, Appended DEF PushesRun, TypeOK
    <3>4. Hit(start, Encoding, cur).encoding = Encoding /\ Hit(start, Encoding, cur).offset = start
      BY DEF Hit
    <3>5. ASSUME NEW h \in 1 .. Len(out)
          PROVE  \/ out'[h].encoding = out'[h + 1].encoding /\ out'[h].offset < out'[h + 1].offset
                 \/ out'[h].encoding = "ascii" /\ out'[h + 1].encoding = "utf16le"
      <4>1. CASE h = Len(out)
        <5>1. \/ out[h].encoding = Encoding /\ out[h].offset < start
              \/ out[h].encoding = "ascii" /\ Encoding = "utf16le"
          BY <2>2, <3>2 DEF PushesRun
        <5> QED
          BY <3>2, <3>4, <4>1, <5>1
      <4>2. CASE h # Len(out)
        <5>1. Len(out) \in Nat
          BY <3>2
        <5>2. h \in 1 .. Len(out) - 1 /\ h + 1 \in 1 .. Len(out)
          BY <4>2, <5>1
        <5> QED
          BY <3>2, <5>2 DEF HitsInOrder
      <4> QED
        BY <4>1, <4>2
    <3>6. Len(out') - 1 = Len(out)
      BY <3>2, <3>3
    <3> QED
      BY <3>5, <3>6 DEF HitsInOrder
  <2> QED
    BY <2>1, <2>2, PushesRuns
<1> QED
  BY <1>1, <1>2, InPlaceInit, InPlaceStep, PTL DEF Spec

-----------------------------------------------------------------------------
\* Every longest run that begins before b is a hit.
FoundBefore(e, b) ==
    \A s \in 0 .. Len(data) - 1 : \A n \in min_len .. Len(data) :
        s < b /\ IsRun(e, s, n) => Found(e, s)

(***************************************************************************)
(* What is not lost so far.  The ASCII scan ends early only with a full    *)
(* output, and then no UTF-16 run gets into it.                            *)
(***************************************************************************)
NoneLostYet ==
    /\ pc = "ascii" => FoundBefore("ascii", i - cur)
    /\ pc # "ascii" =>
         \/ AllFound("ascii")
         \/ Len(out) >= MaxStrings /\ \A h \in DOMAIN out : out[h].encoding # "utf16le"
    /\ Len(out) < MaxStrings =>
         /\ pc = "utf16" => FoundBefore("utf16le", i)
         /\ pc = "run" => FoundBefore("utf16le", start)
         /\ pc = "done" => AllFound("utf16le")

\* Hits stay hits, and runs stay runs.
LEMMA HitsStay ==
    ASSUME InPlace, [Next]_vars
    PROVE  /\ data' = data /\ min_len' = min_len
           /\ \A e, s, n : IsRun(e, s, n)' <=> IsRun(e, s, n)
           /\ \A e, s : Found(e, s) => Found(e, s)'
           /\ Len(out) >= MaxStrings => out' = out
<1>1. data' = data /\ min_len' = min_len
  BY PushesRuns
<1>2. \A e, s, n : IsRun(e, s, n)' <=> IsRun(e, s, n)
  BY <1>1 DEF IsRun, IsAsciiRun, IsUtf16Run, Printable, Unit
<1>3. ASSUME NEW e, NEW s, Found(e, s) PROVE Found(e, s)'
  <2>1. PICK h \in DOMAIN out : out[h].encoding = e /\ out[h].offset = s
    BY <1>3 DEF Found
  <2>2. CASE out' = out
    BY <2>1, <2>2 DEF Found
  <2>3. CASE PushesRun(Encoding)
    <3>1. TypeOK /\ Encoding \in Encodings
      BY DEF InPlace, Encoding, Encodings
    <3>2. /\ Len(out) \in Nat /\ DOMAIN out = 1 .. Len(out)
          /\ DOMAIN out' = 1 .. Len(out) + 1
          /\ \A g \in 1 .. Len(out) : out'[g] = out[g]
      BY <2>3, <3>1, PushedHit
    <3>3. h \in DOMAIN out' /\ out'[h] = out[h]
      BY <3>2
    <3> QED
      BY <2>1, <3>3 DEF Found
  <2> QED
    BY <2>2, <2>3, PushesRuns
<1>4. Len(out) >= MaxStrings => out' = out
  BY PushesRuns, StringLimitsAssumption DEF PushesRun, InPlace, TypeOK
<1> QED
  BY <1>1, <1>2, <1>3, <1>4

(***************************************************************************)
(* A run that ends is reported if there is room.                           *)
(***************************************************************************)
LEMMA RunReported ==
    ASSUME TypeOK, NEW e \in Encodings, out' = Closed(e), cur >= min_len, Len(out) < MaxStrings,
           NEW s, s = start
    PROVE  Found(e, s)'
<1>1. start \in Nat /\ cur \in Nat /\ Len(out) \in Nat
  BY DEF TypeOK
<1>2. out' = Append(out, Hit(start, e, cur))
  BY <1>1, ClosedOut, StringLimitsAssumption
<1>3. out' \in Seq(HitType) /\ Len(out') = Len(out) + 1 /\ out'[Len(out) + 1] = Hit(start, e, cur)
  BY <1>1, <1>2, Appended
<1>4. DOMAIN out' = 1 .. Len(out')
  <2> HIDE DEF HitType
  <2> QED
    BY <1>3
<1>5. Len(out) + 1 \in DOMAIN out'
  BY <1>1, <1>3, <1>4
<1>6. out'[Len(out) + 1].encoding = e /\ out'[Len(out) + 1].offset = s
  BY <1>3 DEF Hit
<1>7. \E h \in DOMAIN out' : out'[h].encoding = e /\ out'[h].offset = s
  BY <1>5, <1>6
<1> QED
  BY <1>7 DEF Found

(***************************************************************************)
(* Where a run ends, no other longest run begins between its first byte    *)
(* and the byte the scan is at.                                            *)
(***************************************************************************)
LEMMA OnlyAsciiRun ==
    ASSUME TypeOK, AsciiInPlace, ~Printable(i),
           NEW s \in Nat, NEW n \in Nat, n >= min_len, IsAsciiRun(s, n),
           i - cur <= s, s <= i
    PROVE  s = start /\ n = cur
<1>1. i \in Nat /\ cur \in Nat /\ n > 0
  BY DEF TypeOK
<1>2. Printable(s) /\ s + n \in Nat /\ ~Printable(s - 1) /\ ~Printable(s + n)
  <2>1. 0 \in 0 .. n - 1 /\ s + 0 = s
    BY <1>1
  <2> QED
    BY <2>1 DEF IsAsciiRun
<1>3. s # i
  BY <1>2
<1>4. s = i - cur
  <2>1. s > i - cur => s - 1 \in i - cur .. i - 1
    BY <1>1, <1>3
  <2> QED
    BY <1>1, <1>2, <2>1 DEF AsciiInPlace
<1>5. cur > 0 /\ start = s
  BY <1>1, <1>3, <1>4 DEF AsciiInPlace
<1>6. n >= cur
  <2>1. n < cur => s + n \in i - cur .. i - 1
    BY <1>1, <1>4
  <2> QED
    BY <1>1, <1>2, <2>1 DEF AsciiInPlace
<1>7. n <= cur
  <2>1. n > cur => cur \in 0 .. n - 1 /\ s + cur = i
    BY <1>1, <1>4
  <2>2. n > cur => Printable(i)
    BY <2>1 DEF IsAsciiRun
  <2> QED
    BY <1>1, <2>2
<1> QED
  BY <1>1, <1>5, <1>6, <1>7

LEMMA OnlyUnitRun ==
    ASSUME TypeOK, UnitsInPlace, ~Unit(i),
           NEW s \in Nat, NEW n \in Nat, n >= min_len, IsUtf16Run(s, n),
           start <= s, s <= i
    PROVE  s = start /\ n = cur
<1>1. i \in Nat /\ cur \in Nat /\ start \in Nat /\ n > 0 /\ i = start + 2 * cur
  BY DEF TypeOK, UnitsInPlace
<1>2. Unit(s) /\ ~Unit(s - 2) /\ ~Unit(s + 2 * n)
  <2>1. 0 \in 0 .. n - 1 /\ s + 2 * 0 = s
    BY <1>1
  <2> QED
    BY <2>1 DEF IsUtf16Run
<1>3. s # i
  BY <1>2
<1>4. PICK k \in Nat : s = start + 2 * k \/ s = start + 2 * k + 1
  <2> DEFINE m == (s - start) \div 2
  <2>1. m \in Nat /\ (s - start = 2 * m \/ s - start = 2 * m + 1)
    BY <1>1
  <2> HIDE DEF m
  <2> QED
    BY <1>1, <2>1
<1>5. k \in 0 .. cur - 1
  BY <1>1, <1>3, <1>4
<1>6. Unit(start + 2 * k)
  BY <1>5 DEF UnitsInPlace
<1>7. s = start + 2 * k
  <2>1. start + 2 * k \in Int
    BY <1>1, <1>4
  <2>2. ~Unit(start + 2 * k + 1)
    BY <1>6, <2>1, UnitsApart
  <2> QED
    BY <1>2, <1>4, <2>2
<1>8. k = 0
  <2>1. k > 0 => k - 1 \in 0 .. cur - 1 /\ start + 2 * (k - 1) = s - 2
    BY <1>1, <1>5, <1>7
  <2>2. k > 0 => Unit(s - 2)
    BY <2>1 DEF UnitsInPlace
  <2> QED
    BY <1>2, <1>4, <2>2
<1>9. s = start
  BY <1>1, <1>7, <1>8
<1>10. n >= cur
  <2>1. n < cur => n \in 0 .. cur - 1
    BY <1>1
  <2> QED
    BY <1>1, <1>2, <1>9, <2>1 DEF UnitsInPlace
<1>11. n <= cur
  <2>1. n > cur => cur \in 0 .. n - 1
    BY <1>1
  <2>2. n > cur => Unit(i)
    BY <1>1, <1>9, <2>1 DEF IsUtf16Run
  <2> QED
    BY <1>1, <2>2
<1> QED
  BY <1>1, <1>9, <1>10, <1>11
LEMMA NoneLostAscii ==
    ASSUME InPlace, NoneLostYet, [Next]_vars, pc = "ascii"
    PROVE  NoneLostYet'
<1>1. /\ TypeOK /\ AsciiInPlace /\ FoundBefore("ascii", i - cur)
      /\ data' = data /\ min_len' = min_len
  BY HitsStay DEF InPlace, NoneLostYet
<1>2. /\ i \in Nat /\ cur \in Nat /\ start \in Nat /\ Len(data) \in Nat /\ Len(out) \in Nat
      /\ min_len \in Nat \ {0} /\ MaxStrings \in Nat /\ i <= Len(data)
  BY <1>1, StringLimitsAssumption DEF TypeOK, AsciiInPlace
<1>3. \A h \in DOMAIN out' : out'[h].encoding = "ascii"
  BY <1>1, HitsThen DEF AsciiInPlace, Encoding
\* A run that begins before i + 1 is found when the current run has ended.
<1>4. ASSUME ~Printable(i), out' = Closed("ascii"), Len(out) < MaxStrings \/ i = 0,
             NEW s \in 0 .. Len(data) - 1, NEW n \in min_len .. Len(data),
             s <= i, IsRun("ascii", s, n)
      PROVE  Found("ascii", s)'
  <2>1. s \in Nat /\ n \in Nat /\ n >= min_len /\ IsAsciiRun(s, n)
    BY <1>2, <1>4 DEF IsRun
  <2>2. CASE s < i - cur
    <3>1. Found("ascii", s)
      BY <1>1, <1>4, <2>2 DEF FoundBefore
    <3> QED
      BY <3>1, HitsStay
  <2>3. CASE i - cur <= s
    <3>1. s = start /\ n = cur
      BY <1>1, <1>4, <2>1, <2>3, OnlyAsciiRun
    <3>2. Len(out) < MaxStrings
      BY <1>1, <1>2, <1>4, <2>1, <3>1 DEF AsciiInPlace
    <3> QED
      BY <1>1, <1>4, <2>1, <3>1, <3>2, RunReported DEF Encodings
  <2> QED
    BY <1>2, <2>1, <2>2, <2>3
<1>5. CASE PrintableByte
  <2>1. /\ (i' = i + 1 /\ cur' = cur + 1 /\ pc' = "ascii") \/ (i' = 0 /\ pc' = "utf16")
        /\ out' = out
        /\ pc' = "utf16" => Len(out) >= MaxStrings
    BY <1>5 DEF PrintableByte, NextByte
  <2>2. CASE pc' = "ascii"
    <3>1. i' - cur' = i - cur
      BY <1>2, <2>1, <2>2
    <3>2. FoundBefore("ascii", i - cur)'
      BY <1>1, <3>1, HitsStay DEF FoundBefore
    <3> QED
      BY <2>2, <3>2 DEF NoneLostYet
  <2>3. CASE pc' = "utf16"
    BY <1>2, <1>3, <2>1, <2>3 DEF NoneLostYet
  <2> QED
    BY <2>1, <2>2, <2>3
<1>6. CASE BreakByte
  <2>1. /\ ~Printable(i) /\ out' = Closed("ascii")
        /\ cur' = 0
        /\ \/ i' = i + 1 /\ pc' = "ascii"
           \/ i' = 0 /\ pc' = "utf16" /\ Len(out') >= MaxStrings
    BY <1>6 DEF BreakByte, NextByte
  <2>2. CASE pc' = "ascii"
    <3>1. i' - cur' = i + 1
      BY <1>2, <2>1, <2>2
    <3>2. Len(out) < MaxStrings \/ i = 0
      BY <1>1 DEF AsciiInPlace
    <3>3. ASSUME NEW s \in 0 .. Len(data) - 1, NEW n \in min_len .. Len(data),
                 s < i + 1, IsRun("ascii", s, n)
          PROVE  Found("ascii", s)'
      BY <1>2, <1>4, <2>1, <3>2, <3>3
    <3>4. FoundBefore("ascii", i - cur)'
      BY <1>1, <3>1, <3>3, HitsStay DEF FoundBefore
    <3> QED
      BY <2>2, <3>4 DEF NoneLostYet
  <2>3. CASE pc' = "utf16"
    <3>1. Len(out') <= MaxStrings /\ Len(out') \in Nat
      BY TypingStep DEF StringsBounded, TypeOK
    <3> QED
      BY <1>2, <1>3, <2>1, <2>3, <3>1 DEF NoneLostYet
  <2> QED
    BY <2>1, <2>2, <2>3
<1>7. CASE EndOfBytes
  <2>1. i = Len(data) /\ out' = Closed("ascii") /\ i' = 0 /\ pc' = "utf16"
    BY <1>7 DEF EndOfBytes
  <2>2. ~Printable(i)
    BY <2>1 DEF Printable
  <2>3. Len(out) < MaxStrings \/ i = 0
    BY <1>1 DEF AsciiInPlace
  <2>4. ASSUME NEW s \in 0 .. Len(data) - 1, NEW n \in min_len .. Len(data), IsRun("ascii", s, n)
        PROVE  Found("ascii", s)'
    BY <1>2, <1>4, <2>1, <2>2, <2>3, <2>4
  <2>5. AllFound("ascii")'
    BY <1>1, <2>4, HitsStay DEF AllFound
  <2>6. FoundBefore("utf16le", i)'
    BY <1>1, <2>1 DEF FoundBefore
  <2> QED
    BY <2>1, <2>5, <2>6 DEF NoneLostYet
<1>8. CASE UNCHANGED vars
  BY <1>8 DEF vars, NoneLostYet, FoundBefore, AllFound, Found, IsRun, IsAsciiRun, IsUtf16Run,
     Printable, Unit
<1> QED
  BY <1>5, <1>6, <1>7, <1>8 DEF Next, EnterRun, SkipByte, ExtendRun, CloseRun, EndOfUnits
\* Behind the ASCII scan, nothing that it found or had no room for changes.
LEMMA AsciiKept ==
    ASSUME InPlace, NoneLostYet, [Next]_vars, pc # "ascii"
    PROVE  \/ AllFound("ascii")'
           \/ Len(out') >= MaxStrings /\ \A h \in DOMAIN out' : out'[h].encoding # "utf16le"
<1>1. CASE AllFound("ascii")
  BY <1>1, HitsStay DEF AllFound
<1>2. CASE Len(out) >= MaxStrings /\ \A h \in DOMAIN out : out[h].encoding # "utf16le"
  BY <1>2, HitsStay
<1> QED
  BY <1>1, <1>2 DEF NoneLostYet

LEMMA NoneLostUtf16 ==
    ASSUME InPlace, NoneLostYet, [Next]_vars, pc # "ascii"
    PROVE  NoneLostYet'
<1>1. TypeOK /\ data' = data /\ min_len' = min_len
  BY HitsStay DEF InPlace
<1>2. /\ i \in Nat /\ cur \in Nat /\ start \in Nat /\ Len(data) \in Nat /\ Len(out) \in Nat
      /\ min_len \in Nat \ {0} /\ MaxStrings \in Nat
  BY <1>1, StringLimitsAssumption DEF TypeOK
<1>3. pc' # "ascii"
  BY DEF Next, vars, PrintableByte, BreakByte, EndOfBytes, EnterRun, SkipByte, ExtendRun, CloseRun,
         EndOfUnits
<1>4. Len(out') < MaxStrings => Len(out) < MaxStrings
  BY <1>2, HitsStay
<1>5. ASSUME NEW s, NEW n \in min_len .. Len(data), IsRun("utf16le", s, n), s \in Nat
      PROVE  Unit(s) /\ IsUtf16Run(s, n) /\ n \in Nat /\ n >= min_len
  <2>1. IsUtf16Run(s, n) /\ 0 \in 0 .. n - 1 /\ s + 2 * 0 = s
    BY <1>2, <1>5 DEF IsRun
  <2> QED
    BY <1>2, <2>1 DEF IsUtf16Run
<1> SUFFICES ASSUME Len(out') < MaxStrings
             PROVE  /\ pc' = "utf16" => FoundBefore("utf16le", i)'
                    /\ pc' = "run" => FoundBefore("utf16le", start)'
                    /\ pc' = "done" => AllFound("utf16le")'
  BY <1>3, AsciiKept DEF NoneLostYet
<1>6. CASE EnterRun
  <2>1. pc' = "run" /\ start' = i /\ FoundBefore("utf16le", i)
    BY <1>4, <1>6 DEF EnterRun, NoneLostYet
  <2> QED
    BY <1>1, <2>1, HitsStay DEF FoundBefore
<1>7. CASE SkipByte
  <2>1. pc' = "utf16" /\ i' = i + 1 /\ ~Unit(i) /\ FoundBefore("utf16le", i)
    BY <1>4, <1>7 DEF SkipByte, NoneLostYet
  <2>2. ASSUME NEW s \in 0 .. Len(data) - 1, NEW n \in min_len .. Len(data),
               s < i + 1, IsRun("utf16le", s, n)
        PROVE  Found("utf16le", s)'
    <3>1. Unit(s) /\ s \in Nat
      BY <1>2, <1>5, <2>2
    <3>2. s # i
      BY <2>1, <3>1
    <3>3. s < i
      BY <1>2, <2>2, <3>1, <3>2
    <3>4. Found("utf16le", s)
      BY <2>1, <2>2, <3>3 DEF FoundBefore
    <3> QED
      BY <3>4, HitsStay
  <2> QED
    BY <1>1, <2>1, <2>2, HitsStay DEF FoundBefore
<1>8. CASE ExtendRun
  <2>1. pc' = "run" /\ start' = start /\ FoundBefore("utf16le", start)
    BY <1>4, <1>8 DEF ExtendRun, NoneLostYet
  <2> QED
    BY <1>1, <2>1, HitsStay DEF FoundBefore
<1>9. CASE CloseRun
  <2>1. /\ pc = "run" /\ UnitsInPlace /\ FoundBefore("utf16le", start)
        /\ out' = Closed("utf16le") /\ i' = i
        /\ pc' = IF Len(out') >= MaxStrings THEN "done" ELSE "utf16"
    BY <1>4, <1>9 DEF CloseRun, NoneLostYet, InPlace
  <2>2. ~Unit(i)
    BY <1>9 DEF CloseRun, InData, Unit
  <2>3. pc' = "utf16"
    <3>1. Len(out') \in Nat
      BY TypingStep DEF TypeOK
    <3> QED
      BY <1>2, <2>1, <3>1
  <2>4. ASSUME NEW s \in 0 .. Len(data) - 1, NEW n \in min_len .. Len(data),
               s < i, IsRun("utf16le", s, n)
        PROVE  Found("utf16le", s)'
    <3>1. s \in Nat /\ IsUtf16Run(s, n) /\ n \in Nat /\ n >= min_len
      BY <1>2, <1>5, <2>4
    <3>2. CASE s < start
      <4>1. Found("utf16le", s)
        BY <2>1, <2>4, <3>2 DEF FoundBefore
      <4> QED
        BY <4>1, HitsStay
    <3>3. CASE start <= s
      <4>1. s <= i
        BY <1>2, <2>4, <3>1
      <4>2. s = start /\ n = cur
        BY <1>1, <2>1, <2>2, <3>1, <3>3, <4>1, OnlyUnitRun
      <4> QED
        BY <1>1, <1>4, <2>1, <3>1, <4>2, RunReported DEF Encodings
    <3> QED
      BY <1>2, <3>1, <3>2, <3>3
  <2> QED
    BY <1>1, <2>1, <2>3, <2>4, HitsStay DEF FoundBefore
<1>10. CASE EndOfUnits
  <2>1. pc' = "done" /\ ~InData /\ FoundBefore("utf16le", i)
    BY <1>4, <1>10 DEF EndOfUnits, NoneLostYet
  <2>2. ASSUME NEW s \in 0 .. Len(data) - 1, NEW n \in min_len .. Len(data), IsRun("utf16le", s, n)
        PROVE  Found("utf16le", s)'
    <3>1. Unit(s) /\ s \in Nat
      BY <1>2, <1>5, <2>2
    <3>2. s < i
      <4>1. s <= Len(data) - 2
        BY <1>1, <3>1, UnitsApart
      <4>2. i + 1 >= Len(data)
        BY <1>2, <2>1 DEF InData
      <4> QED
        BY <1>2, <3>1, <4>1, <4>2
    <3>3. Found("utf16le", s)
      BY <2>1, <2>2, <3>2 DEF FoundBefore
    <3> QED
      BY <3>3, HitsStay
  <2> QED
    BY <1>1, <2>1, <2>2, HitsStay DEF AllFound
<1>11. CASE UNCHANGED vars
  BY <1>11 DEF vars, NoneLostYet, FoundBefore, AllFound, Found, IsRun, IsAsciiRun, IsUtf16Run,
     Printable, Unit
<1> QED
  BY <1>6, <1>7, <1>8, <1>9, <1>10, <1>11 DEF Next, PrintableByte, BreakByte, EndOfBytes

(***************************************************************************)
(* NoRunLost: a scan that returns below the cap has reported every longest *)
(* run, and a full output lacks UTF-16 runs first.                         *)
(***************************************************************************)
THEOREM NoneLost == Spec => []NoRunLost
<1>1. Init => NoneLostYet
  <2> SUFFICES ASSUME Init PROVE NoneLostYet
    OBVIOUS
  <2>1. pc = "ascii" /\ i - cur = 0
    BY DEF Init
  <2>2. \A s \in 0 .. Len(data) - 1 : ~(s < 0)
    OBVIOUS
  <2> QED
    BY <2>1, <2>2 DEF NoneLostYet, FoundBefore
<1>2. InPlace /\ NoneLostYet /\ [Next]_vars => NoneLostYet'
  BY NoneLostAscii, NoneLostUtf16
<1>3. InPlace /\ NoneLostYet => NoRunLost
  BY StringLimitsAssumption DEF NoneLostYet, NoRunLost, InPlace, TypeOK
<1> QED
  BY <1>1, <1>2, <1>3, InPlaceInit, InPlaceStep, PTL DEF Spec

-----------------------------------------------------------------------------
(***************************************************************************)
(* Why the scan returns.  The index never passes the end of the data, and  *)
(* where a step does not move it, a pass ends, or one of the nested loops  *)
(* is left for the other, which moves it.                                  *)
(***************************************************************************)
WithinData == i <= Len(data)

LEMMA WithinDataStep == InPlace /\ WithinData /\ [Next]_vars => WithinData'
<1> SUFFICES ASSUME InPlace, WithinData, [Next]_vars PROVE i' <= Len(data)
  BY PushesRuns DEF WithinData
<1>1. i \in Nat /\ Len(data) \in Nat /\ WithinData
  BY DEF InPlace, TypeOK
<1>2. CASE PrintableByte \/ BreakByte
  <2>1. i < Len(data) /\ i' \in {0, i + 1}
    BY <1>1, <1>2 DEF PrintableByte, BreakByte, NextByte, Printable
  <2> QED
    BY <1>1, <2>1
<1>3. CASE ~(PrintableByte \/ BreakByte)
  BY <1>1, <1>3 DEF WithinData, Next, vars, EndOfBytes, EnterRun, SkipByte, ExtendRun,
                    CloseRun, EndOfUnits, InData
<1> QED
  BY <1>2, <1>3

LeftIsTriple ==
    /\ Passes \in Nat /\ Len(data) - i \in Nat /\ (IF ChangesLoop THEN 1 ELSE 0) \in Nat

LEMMA LeftType == InPlace /\ WithinData => LeftIsTriple
<1> SUFFICES ASSUME InPlace, WithinData PROVE LeftIsTriple
  OBVIOUS
<1>1. i \in Nat /\ Len(data) \in Nat /\ pc \in {"ascii", "utf16", "run", "done"}
  BY DEF InPlace, TypeOK
<1>2. Passes \in Nat
  BY <1>1 DEF Passes
<1> QED
  BY <1>1, <1>2 DEF LeftIsTriple, WithinData

\* Every step leaves less to do.
LEMMA LeftDecreases ==
    ASSUME InPlace, WithinData, Next
    PROVE  Below(Left', Left, 3)
<1>1. i \in Nat /\ Len(data) \in Nat /\ data' = data
  BY PushesRuns DEF InPlace, TypeOK
<1>2. LeftIsTriple /\ LeftIsTriple'
  <2>1. LeftIsTriple
    BY LeftType
  <2>2. InPlace' /\ WithinData'
    BY InPlaceStep, WithinDataStep
  <2>3. LeftIsTriple'
    BY <2>2, LeftType, PTL
  <2> QED
    BY <2>1, <2>3
<1>3. Unit(i)' <=> Unit(i')
  BY <1>1 DEF Unit, Printable
<1>4. \/ Passes' < Passes
      \/ Passes' = Passes /\ (Len(data) - i)' < Len(data) - i
      \/ /\ Passes' = Passes /\ (Len(data) - i)' = Len(data) - i
         /\ ChangesLoop /\ ~ChangesLoop'
  <2>1. CASE PrintableByte \/ BreakByte
    <3>1. pc = "ascii" /\ (pc' = "utf16" \/ (pc' = "ascii" /\ i' = i + 1))
      BY <2>1 DEF PrintableByte, BreakByte, NextByte
    <3> QED
      BY <1>1, <3>1 DEF Passes
  <2>2. CASE EndOfBytes
    BY <2>2 DEF EndOfBytes, Passes
  <2>3. CASE EnterRun
    <3>1. pc = "utf16" /\ pc' = "run" /\ i' = i /\ Unit(i) /\ Unit(i)'
      BY <1>3, <2>3 DEF EnterRun
    <3>2. ChangesLoop /\ ~ChangesLoop'
      BY <3>1 DEF ChangesLoop
    <3> QED
      BY <1>1, <3>1, <3>2 DEF Passes
  <2>4. CASE SkipByte \/ ExtendRun
    <3>1. pc' = pc /\ i' > i
      BY <1>1, <2>4 DEF SkipByte, ExtendRun
    <3> QED
      BY <1>1, <2>4, <3>1 DEF Passes, SkipByte, ExtendRun
  <2>5. CASE CloseRun
    <3>1. pc = "run" /\ i' = i /\ ~Unit(i) /\ ~Unit(i)' /\ pc' \in {"done", "utf16"}
      BY <1>3, <2>5 DEF CloseRun, InData, Unit
    <3>2. CASE pc' = "done"
      BY <3>1, <3>2 DEF Passes
    <3>3. CASE pc' = "utf16"
      <4>1. ChangesLoop /\ ~ChangesLoop'
        BY <3>1, <3>3 DEF ChangesLoop, Unit
      <4> QED
        BY <1>1, <3>1, <3>3, <4>1 DEF Passes
    <3> QED
      BY <3>1, <3>2, <3>3
  <2>6. CASE EndOfUnits
    BY <2>6 DEF EndOfUnits, Passes
  <2> QED
    BY <2>1, <2>2, <2>3, <2>4, <2>5, <2>6 DEF Next
<1> HIDE DEF Passes, ChangesLoop
<1> QED
  BY <1>2, <1>4, TripleBelow DEF Left, LeftIsTriple

(***************************************************************************)
(* Every step of the scan leaves less to do, on every blob and with every  *)
(* min_len and limit: it takes finitely many steps (NoEndlessDescent).     *)
(***************************************************************************)
THEOREM Advancing == Spec => ScanAdvances
<1>1. Init => WithinData
  BY InPlaceInit DEF Init, InPlace, AsciiInPlace, WithinData
<1>2. InPlace /\ WithinData /\ [Next]_vars => [Below(Left', Left, 3)]_vars
  BY LeftDecreases
<1> QED
  BY <1>1, <1>2, InPlaceInit, InPlaceStep, WithinDataStep, PTL DEF Spec, ScanAdvances
=============================================================================
