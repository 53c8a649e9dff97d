-------------------------- MODULE SelectionProofs --------------------------
(***************************************************************************)
(* Induction over the natural numbers for sets, and with it what the       *)
(* recursive function Chosen returns.  The theorems of NaturalsInduction   *)
(* are about operators; a set is a value, so these can be cited anywhere.  *)
(* Also that measures of what is left to do cannot decrease for ever.      *)
(***************************************************************************)
EXTENDS Selection, Descent, FiniteSetTheorems, WellFoundedInduction, TLAPS

\* Natural numbers have a least one.
LEMMA LeastNumber ==
    ASSUME NEW T, T \subseteq Nat, T # {}
    PROVE  \E k \in T : \A l \in T : k <= l
<1> DEFINE Less == OpToRel(<, Nat)
<1>1. IsWellFoundedOn(Less, Nat)
  BY NatLessThanWellFounded
<1>2. PICK k \in T : \A l \in T : <<l, k>> \notin Less
  <2> HIDE DEF Less
  <2> QED
    BY <1>1, WFMin
<1>3. \A l \in T : ~(l < k)
  BY <1>2 DEF OpToRel
<1> QED
  BY <1>3

\* A set that holds 0 and the successor of each of its numbers holds all numbers.
LEMMA Induction ==
    ASSUME NEW T, 0 \in T, \A n \in Nat : n \in T => n + 1 \in T
    PROVE  \A n \in Nat : n \in T
<1> SUFFICES ASSUME Nat \ T # {} PROVE FALSE
  OBVIOUS
<1>1. PICK k \in Nat \ T : \A l \in Nat \ T : k <= l
  BY LeastNumber
<1>2. k - 1 \in Nat /\ k - 1 \in T
  BY <1>1
<1> QED
  BY <1>1, <1>2

-----------------------------------------------------------------------------
(***************************************************************************)
(* No sequence of tuples descends for ever: a program each step of which   *)
(* leads to a smaller tuple takes finitely many steps.                     *)
(***************************************************************************)
THEOREM NoEndlessDescent ==
    ASSUME NEW n \in Nat
    PROVE  ~ \E f \in [Nat -> [1 .. n -> Nat]] : \A k \in Nat : Below(f[k + 1], f[k], n)
<1> DEFINE Less == OpToRel(<, Nat)
           Lex  == LexProductOrdering(Less, Nat, n)
<1>1. IsWellFoundedOn(Less, Nat)
  BY NatLessThanWellFounded
<1>2. IsWellFoundedOn(Lex, [1 .. n -> Nat])
  <2> HIDE DEF Less
  <2> QED
    BY <1>1, WFLexProductOrdering
<1>3. ASSUME NEW a, NEW b, Below(a, b, n) PROVE <<a, b>> \in Lex
  <2>1. a \in [1 .. n -> Nat] /\ b \in [1 .. n -> Nat]
    BY <1>3 DEF Below
  <2>2. PICK k \in 1 .. n : a[k] < b[k] /\ \A l \in 1 .. k - 1 : a[l] = b[l]
    BY <1>3 DEF Below
  <2>3. a[k] \in Nat /\ b[k] \in Nat
    BY <2>1
  <2>4. <<a[k], b[k]>> \in Less
    BY <2>2, <2>3 DEF OpToRel
  <2> HIDE DEF Less
  <2> QED
    BY <2>1, <2>2, <2>4 DEF LexProductOrdering
<1> QED
  <2> HIDE DEF Lex
  <2> QED
    BY <1>2, <1>3 DEF IsWellFoundedOn

\* What it takes to be below, for the lengths that measures have.
LEMMA TripleBelow ==
    ASSUME NEW a1 \in Nat, NEW a2 \in Nat, NEW a3 \in Nat,
           NEW b1 \in Nat, NEW b2 \in Nat, NEW b3 \in Nat,
           \/ a1 < b1
           \/ a1 = b1 /\ a2 < b2
           \/ a1 = b1 /\ a2 = b2 /\ a3 < b3
    PROVE  Below(<<a1, a2, a3>>, <<b1, b2, b3>>, 3)
<1> DEFINE a == <<a1, a2, a3>>
           b == <<b1, b2, b3>>
<1>1. a \in [1 .. 3 -> Nat] /\ b \in [1 .. 3 -> Nat]
  OBVIOUS
<1>2. CASE a1 < b1
  <2>1. a[1] < b[1] /\ 1 \in 1 .. 3 /\ \A l \in 1 .. 1 - 1 : a[l] = b[l]
    BY <1>2
  <2> QED
    BY <1>1, <2>1 DEF Below
<1>3. CASE a1 = b1 /\ a2 < b2
  <2>1. a[2] < b[2] /\ 2 \in 1 .. 3 /\ \A l \in 1 .. 2 - 1 : a[l] = b[l]
    BY <1>3
  <2> QED
    BY <1>1, <2>1 DEF Below
<1>4. CASE a1 = b1 /\ a2 = b2 /\ a3 < b3
  <2>1. a[3] < b[3] /\ 3 \in 1 .. 3 /\ \A l \in 1 .. 3 - 1 : a[l] = b[l]
    BY <1>4
  <2> QED
    BY <1>1, <2>1 DEF Below
<1> QED
  BY <1>2, <1>3, <1>4

\* Two counters in front of a measure.
LEMMA PairInFront ==
    ASSUME NEW p \in Nat, NEW q \in Nat, NEW u \in Nat, NEW v \in Nat,
           NEW a \in [1 .. 3 -> Nat], NEW b \in [1 .. 3 -> Nat],
           \/ p < u
           \/ p = u /\ q < v
           \/ p = u /\ q = v /\ Below(a, b, 3)
    PROVE  Below(<<p, q, a[1], a[2], a[3]>>, <<u, v, b[1], b[2], b[3]>>, 5)
<1>1. ASSUME NEW h \in Nat, NEW j \in Nat, NEW c \in [1 .. 3 -> Nat]
      PROVE  /\ <<h, j, c[1], c[2], c[3]>> \in [1 .. 5 -> Nat]
             /\ <<h, j, c[1], c[2], c[3]>>[1] = h /\ <<h, j, c[1], c[2], c[3]>>[2] = j
             /\ \A k \in 1 .. 3 : <<h, j, c[1], c[2], c[3]>>[k + 2] = c[k]
  <2> DEFINE s == <<h, j, c[1], c[2], c[3]>>
  <2>1. c[1] \in Nat /\ c[2] \in Nat /\ c[3] \in Nat
    OBVIOUS
  <2>2. s \in [1 .. 5 -> Nat]
    BY <2>1
  <2>3. s[1] = h /\ s[2] = j /\ s[3] = c[1] /\ s[4] = c[2] /\ s[5] = c[3]
    OBVIOUS
  <2> HIDE DEF s
  <2>4. ASSUME NEW k \in 1 .. 3 PROVE s[k + 2] = c[k]
    <3>1. k = 1 \/ k = 2 \/ k = 3
      OBVIOUS
    <3>2. 1 + 2 = 3 /\ 2 + 2 = 4 /\ 3 + 2 = 5
      OBVIOUS
    <3> QED
      BY <2>3, <3>1, <3>2
  <2> QED
    BY <2>2, <2>3, <2>4 DEF s
<1> DEFINE s == <<p, q, a[1], a[2], a[3]>>
           t == <<u, v, b[1], b[2], b[3]>>
<1>2. /\ s \in [1 .. 5 -> Nat] /\ t \in [1 .. 5 -> Nat]
      /\ s[1] = p /\ s[2] = q /\ t[1] = u /\ t[2] = v
      /\ \A k \in 1 .. 3 : s[k + 2] = a[k] /\ t[k + 2] = b[k]
  <2>1. s \in [1 .. 5 -> Nat] /\ s[1] = p /\ s[2] = q /\ \A k \in 1 .. 3 : s[k + 2] = a[k]
    BY <1>1
  <2>2. t \in [1 .. 5 -> Nat] /\ t[1] = u /\ t[2] = v /\ \A k \in 1 .. 3 : t[k + 2] = b[k]
    BY <1>1
  <2> HIDE DEF s, t
  <2> QED
    BY <2>1, <2>2
<1> HIDE DEF s, t
<1> SUFFICES Below(s, t, 5)
  BY DEF s, t
<1>3. CASE p < u
  <2>1. s[1] < t[1] /\ 1 \in 1 .. 5 /\ \A l \in 1 .. 1 - 1 : s[l] = t[l]
    BY <1>2, <1>3
  <2> QED
    BY <1>2, <2>1 DEF Below
<1>4. CASE p = u /\ q < v
  <2>1. s[2] < t[2] /\ 2 \in 1 .. 5 /\ \A l \in 1 .. 2 - 1 : s[l] = t[l]
    BY <1>2, <1>4
  <2> QED
    BY <1>2, <2>1 DEF Below
<1>5. CASE p = u /\ q = v /\ Below(a, b, 3)
  <2>1. PICK k \in 1 .. 3 : a[k] < b[k] /\ \A l \in 1 .. k - 1 : a[l] = b[l]
    BY <1>5 DEF Below
  <2>2. s[k + 2] < t[k + 2] /\ k + 2 \in 1 .. 5
    BY <1>2, <2>1
  <2>3. ASSUME NEW l \in 1 .. (k + 2) - 1 PROVE s[l] = t[l]
    <3>1. CASE l \in {1, 2}
      BY <1>2, <1>5, <3>1
    <3>2. CASE l - 2 \in 1 .. k - 1
      <4>1. l - 2 \in 1 .. 3 /\ (l - 2) + 2 = l
        BY <3>2
      <4>2. s[(l - 2) + 2] = a[l - 2] /\ t[(l - 2) + 2] = b[l - 2]
        BY <1>2, <4>1
      <4> QED
        BY <2>1, <3>2, <4>1, <4>2
    <3> QED
      BY <3>1, <3>2
  <2> QED
    BY <1>2, <2>2, <2>3 DEF Below
<1> QED
  BY <1>3, <1>4, <1>5

-----------------------------------------------------------------------------
\* s is a list, whatever its elements are.
IsList(s) == \E X : s \in Seq(X)
Prefix(p, q) ==
    IsList(p) /\ IsList(q) /\ Len(p) <= Len(q) /\ \A k \in 1 .. Len(p) : p[k] = q[k]

LEMMA Concatenation ==
    ASSUME NEW p, IsList(p), NEW q, IsList(q)
    PROVE  /\ Prefix(p, p \o q)
           /\ Len(p) \in Nat /\ Len(q) \in Nat
           /\ Len(p \o q) = Len(p) + Len(q)
           /\ \A k \in 1 .. Len(q) : (p \o q)[Len(p) + k] = q[k]
<1>1. PICK X : p \in Seq(X)
  BY DEF IsList
<1>2. PICK Y : q \in Seq(Y)
  BY DEF IsList
<1>3. p \in Seq(X \cup Y) /\ q \in Seq(X \cup Y)
  BY <1>1, <1>2
<1>4. p \o q \in Seq(X \cup Y) /\ Len(p) \in Nat /\ Len(q) \in Nat
  BY <1>3
<1>5. Len(p \o q) = Len(p) + Len(q)
  BY <1>3
<1>6. \A k \in 1 .. Len(p) : (p \o q)[k] = p[k]
  BY <1>3
<1>7. \A k \in 1 .. Len(q) : (p \o q)[Len(p) + k] = q[k]
  BY <1>3
<1> QED
  BY <1>4, <1>5, <1>6, <1>7 DEF Prefix, IsList

LEMMA FunctionIsList ==
    ASSUME NEW n \in Nat, NEW f, f = [k \in 1 .. n |-> f[k]]
    PROVE  IsList(f) /\ Len(f) = n
<1>1. f \in [1 .. n -> {f[k] : k \in 1 .. n}]
  BY SMT
<1>2. f \in Seq({f[k] : k \in 1 .. n})
  BY <1>1
<1>3. Len(f) = n
  BY <1>1
<1> QED
  BY <1>2, <1>3 DEF IsList

-----------------------------------------------------------------------------
(***************************************************************************)
(* Chosen with its recursive function as a parameter.                      *)
(***************************************************************************)
Choosing(seq, S, m, f) ==
    f = [n \in 0 .. m |->
            IF n = 0 THEN <<>>
            ELSE IF n \in S THEN Append(f[n - 1], seq[n]) ELSE f[n - 1]]

LEMMA ChoosingExists ==
    ASSUME NEW seq, NEW S
    PROVE  \A m \in Nat : \E f : Choosing(seq, S, m, f)
<1> DEFINE T == {m \in Nat : \E f : Choosing(seq, S, m, f)}
<1>1. 0 \in T
  <2>1. Choosing(seq, S, 0, [n \in 0 .. 0 |-> <<>>])
    BY DEF Choosing
  <2> QED
    BY <2>1
<1>2. ASSUME NEW m \in Nat, m \in T PROVE m + 1 \in T
  <2>1. PICK f : Choosing(seq, S, m, f)
    BY <1>2
  <2> DEFINE g == [n \in 0 .. m + 1 |->
                     IF n = m + 1 THEN IF n \in S THEN Append(f[m], seq[n]) ELSE f[m] ELSE f[n]]
  <2>2. \A n \in 0 .. m : f[n] = IF n = 0 THEN <<>>
                                 ELSE IF n \in S THEN Append(f[n - 1], seq[n]) ELSE f[n - 1]
    BY <2>1 DEF Choosing
  <2>3. \A n \in 0 .. m : g[n] = f[n]
    OBVIOUS
  <2>4. \A n \in 0 .. m + 1 : g[n] = IF n = 0 THEN <<>>
                                     ELSE IF n \in S THEN Append(g[n - 1], seq[n]) ELSE g[n - 1]
    <3> TAKE n \in 0 .. m + 1
    <3>1. CASE n = m + 1
      <4>1. n - 1 = m /\ n # 0
        BY <3>1
      <4>2. g[m] = f[m]
        BY <2>3
      <4> QED
        BY <3>1, <4>1, <4>2
    <3>2. CASE n \in 0 .. m
      <4>1. n # 0 => n - 1 \in 0 .. m
        BY <3>2
      <4>2. g[n] = f[n] /\ (n # 0 => g[n - 1] = f[n - 1])
        BY <2>3, <3>2, <4>1
      <4> HIDE DEF g
      <4> QED
        BY <2>2, <3>2, <4>2
    <3> QED
      BY <3>1, <3>2
  <2>5. g = [n \in 0 .. m + 1 |-> g[n]]
    OBVIOUS
  <2>6. Choosing(seq, S, m + 1, g)
    <3> HIDE DEF g
    <3> QED
      BY <2>4, <2>5 DEF Choosing
  <2> QED
    BY <2>6
<1>3. \A m \in Nat : m \in T
  <2> HIDE DEF T
  <2> QED
    BY <1>1, <1>2, Induction
<1> QED
  BY <1>3

LEMMA ChosenIsChoosing ==
    ASSUME NEW seq, NEW S, Len(seq) \in Nat
    PROVE  \E f : Choosing(seq, S, Len(seq), f) /\ Chosen(seq, S) = f[Len(seq)]
<1> DEFINE f == CHOOSE g : Choosing(seq, S, Len(seq), g)
<1>1. Choosing(seq, S, Len(seq), f)
  BY ChoosingExists
<1>2. Chosen(seq, S) = f[Len(seq)]
  BY DEF Chosen, Choosing
<1> QED
  BY <1>1, <1>2

(***************************************************************************)
(* What Chosen returns holds the chosen elements, all of them, and is as   *)
(* long as they are many.                                                  *)
(***************************************************************************)
Picks(picked, seq, places) ==
    /\ \E X : picked \in Seq(X)
    /\ Len(picked) = Cardinality(places)
    /\ \A k \in 1 .. Len(picked) : \E p \in places : picked[k] = seq[p]
    /\ \A p \in places : \E k \in 1 .. Len(picked) : picked[k] = seq[p]

LEMMA AppendPick ==
    ASSUME NEW picked, NEW seq, NEW places, IsFiniteSet(places), Picks(picked, seq, places),
           NEW p, p \notin places
    PROVE  Picks(Append(picked, seq[p]), seq, places \cup {p})
<1> DEFINE more == Append(picked, seq[p])
<1>1. PICK X : picked \in Seq(X)
  BY DEF Picks
<1>2. picked \in Seq(X \cup {seq[p]}) /\ seq[p] \in X \cup {seq[p]} /\ Len(picked) \in Nat
  BY <1>1
<1>3. /\ more \in Seq(X \cup {seq[p]})
      /\ Len(more) = Len(picked) + 1
      /\ \A k \in 1 .. Len(picked) : more[k] = picked[k]
      /\ more[Len(picked) + 1] = seq[p]
  BY <1>2
<1>4. Cardinality(places \cup {p}) = Cardinality(places) + 1
  BY FS_AddElement
<1> HIDE DEF more
<1>5. ASSUME NEW k \in 1 .. Len(more) PROVE \E q \in places \cup {p} : more[k] = seq[q]
  <2>1. CASE k \in 1 .. Len(picked)
    BY <1>3, <2>1 DEF Picks
  <2>2. CASE k = Len(picked) + 1
    BY <1>3, <2>2
  <2> QED
    BY <1>2, <1>3, <2>1, <2>2
<1>6. ASSUME NEW q \in places \cup {p} PROVE \E k \in 1 .. Len(more) : more[k] = seq[q]
  <2>1. CASE q = p
    BY <1>2, <1>3, <2>1
  <2>2. CASE q \in places
    <3>1. PICK k \in 1 .. Len(picked) : picked[k] = seq[q]
      BY <2>2 DEF Picks
    <3> QED
      BY <1>2, <1>3, <3>1
  <2> QED
    BY <2>1, <2>2
<1>7. \E Y : more \in Seq(Y)
  BY <1>3
<1>8. Picks(more, seq, places \cup {p})
  BY <1>3, <1>4, <1>5, <1>6, <1>7 DEF Picks
<1> QED
  BY <1>8 DEF more

LEMMA ChosenPicks ==
    ASSUME NEW seq, Len(seq) \in Nat, NEW S
    PROVE  Picks(Chosen(seq, S), seq, S \cap 1 .. Len(seq))
<1>1. PICK f : Choosing(seq, S, Len(seq), f) /\ Chosen(seq, S) = f[Len(seq)]
  BY ChosenIsChoosing
<1>2. \A n \in 0 .. Len(seq) : f[n] = IF n = 0 THEN <<>>
                                     ELSE IF n \in S THEN Append(f[n - 1], seq[n]) ELSE f[n - 1]
  BY <1>1 DEF Choosing
<1> DEFINE T == {n \in Nat : n <= Len(seq) => Picks(f[n], seq, S \cap 1 .. n)}
<1>3. 0 \in T
  <2>1. f[0] = <<>> /\ S \cap 1 .. 0 = {}
    BY <1>2
  <2>2. Cardinality({}) = 0 /\ <<>> \in Seq({}) /\ Len(<<>>) = 0
    BY FS_EmptySet
  <2>3. Picks(<<>>, seq, {})
    BY <2>2 DEF Picks
  <2> QED
    BY <2>1, <2>3
<1>4. ASSUME NEW n \in Nat, n \in T PROVE n + 1 \in T
  <2> SUFFICES ASSUME n + 1 <= Len(seq) PROVE Picks(f[n + 1], seq, S \cap 1 .. n + 1)
    OBVIOUS
  <2>1. Picks(f[n], seq, S \cap 1 .. n)
    BY <1>4
  <2>2. n + 1 \in 0 .. Len(seq) /\ n + 1 # 0 /\ (n + 1) - 1 = n
    OBVIOUS
  <2>3. f[n + 1] = IF n + 1 \in S THEN Append(f[n], seq[n + 1]) ELSE f[n]
    BY <1>2, <2>2
  <2>4. CASE n + 1 \notin S
    <3>1. S \cap 1 .. n + 1 = S \cap 1 .. n
      BY <2>4
    <3> QED
      BY <2>1, <2>3, <2>4, <3>1
  <2>5. CASE n + 1 \in S
    <3>1. S \cap 1 .. n + 1 = (S \cap 1 .. n) \cup {n + 1} /\ n + 1 \notin S \cap 1 .. n
      BY <2>5
    <3>2. IsFiniteSet(S \cap 1 .. n)
      <4>1. IsFiniteSet(1 .. n)
        BY FS_Interval
      <4>2. S \cap 1 .. n \subseteq 1 .. n
        OBVIOUS
      <4> QED
        BY <4>1, <4>2, FS_Subset
    <3>3. Picks(Append(f[n], seq[n + 1]), seq, (S \cap 1 .. n) \cup {n + 1})
      BY <2>1, <3>1, <3>2, AppendPick
    <3> QED
      BY <2>3, <2>5, <3>1, <3>3
  <2> QED
    BY <2>4, <2>5
<1>5. \A n \in Nat : n \in T
  <2> HIDE DEF T
  <2> QED
    BY <1>3, <1>4, Induction
<1>6. Picks(f[Len(seq)], seq, S \cap 1 .. Len(seq))
  BY <1>5
<1> QED
  BY <1>1, <1>6
=============================================================================
