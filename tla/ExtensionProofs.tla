--------------------------- MODULE ExtensionProofs ---------------------------
(***************************************************************************)
(* What normalize_extensions and the two conversions compute, for any set  *)
(* of extensions: lemmas on the operators of ExtDescriptor.                *)
(***************************************************************************)
EXTENDS IsaString, SequenceTheorems, WellFoundedInduction, TLAPS

\* Numbers have a least one, so that what holds of 0 and of the successor of
\* any number of which it holds, holds of all.
LEMMA Induction ==
    ASSUME NEW S \in SUBSET Nat, 0 \in S, \A n \in S : n + 1 \in S
    PROVE  S = Nat
<1> DEFINE R == {pair \in Nat \X Nat : pair[1] < pair[2]}
           Rest == Nat \ S
<1>1. \A x, y \in Nat : <<y, x>> \in R <=> y < x
  OBVIOUS
<1>2. IsWellFoundedOn(R, Nat)
  BY NatLessThanWellFounded DEF OpToRel
<1> HIDE DEF R
<1>3. SUFFICES ASSUME Rest # {} PROVE FALSE
  OBVIOUS
<1>4. PICK m \in Rest : \A n \in Rest : ~ (<<n, m>> \in R)
  BY <1>2, <1>3, WFMin
<1>5. m - 1 \in Nat /\ m - 1 < m
  BY <1>4
<1>6. m - 1 \in S
  BY <1>1, <1>4, <1>5
<1>7. m - 1 + 1 \in S
  BY <1>6
<1> QED BY <1>4, <1>7

-----------------------------------------------------------------------------
(* The table of composites.                                                *)

LEMMA TableSize == Len(Composites) = 12 /\ DOMAIN Composites = 1 .. 12
BY DEF Composites

\* Every composite has one rule.
LEMMA OneRule ==
    \A j, k \in 1 .. 12 : Composites[j].whole = Composites[k].whole => j = k
BY DEF Composites, Composite

\* A composite is replaced before one that it is a part of.
LEMMA PartsFirst ==
    \A j, k \in 1 .. 12 : j <= k => Composites[k].whole \notin Composites[j].parts
BY DEF Composites, Composite

\* The parts of a part are no composites.
LEMMA TwoDeep ==
    \A j, k, l \in 1 .. 12 :
        Composites[k].whole \in Composites[j].parts =>
            Composites[l].whole \notin Composites[k].parts
BY DEF Composites, Composite

\* What the other rules look at, and what no string holds, has no part in the
\* rules for composites, except that G brings I, F and D.
Plain == {"e", "c", "zca", "zcf", "zcd"} \cup Unwritten

LEMMA PlainIs ==
    \A k \in 1 .. 12 : /\ Composites[k].whole \notin Plain
                       /\ Composites[k].parts \cap Plain = {}
BY DEF Plain, Composites, Composite, Unwritten, ReservedLetters, TranslationModes

LEMMA BaseOfG ==
    /\ Composites[1].whole = "g"
    /\ {"i", "f", "d"} \subseteq Composites[1].parts
    /\ \A k \in 1 .. 12 : /\ Composites[k].whole \notin {"i", "f", "d"}
                          /\ k # 1 => Composites[k].parts \cap {"i", "f", "d"} = {}
                          /\ "g" \notin Composites[k].parts
BY DEF Composites, Composite

LEMMA TableInLists ==
    \A k \in 1 .. 12 : /\ Composites[k].whole \in Extensions
                       /\ Composites[k].parts \subseteq Extensions
BY DEF Composites, Composite, Extensions, ToSet, Misa, Multi, Standard,
       Privileged, Custom

-----------------------------------------------------------------------------
(* The fold over it.                                                       *)

\* Replacing as the fold does it, from the greatest index of a set down.
Replacing(g, X, n) ==
    g = [s \in SUBSET (1 .. n) |->
            IF s = {} THEN X ELSE Expand(g[s \ {Max(s)}], Composites[Max(s)])]

\* The greatest element is the Max.
LEMMA MaxIs ==
    ASSUME NEW S \in SUBSET Nat, NEW m \in S, \A n \in S : n <= m
    PROVE  Max(S) = m
<1>1. \A x \in S : (\A y \in S : x >= y) <=> x = m
  OBVIOUS
<1>2. (CHOOSE x \in S : \A y \in S : x >= y) = m
  BY <1>1
<1> QED BY <1>2 DEF Max

LEMMA ReplacingExists ==
    ASSUME NEW X, NEW n \in Nat
    PROVE  \E g : Replacing(g, X, n)
<1> DEFINE S == {k \in Nat : \E g : Replacing(g, X, k)}
<1>1. 0 \in S
  <2> DEFINE g == [s \in SUBSET (1 .. 0) |-> X]
  <2>1. SUBSET (1 .. 0) = {{}}
    OBVIOUS
  <2>2. Replacing(g, X, 0)
    BY <2>1 DEF Replacing
  <2> QED BY <2>2
<1>2. ASSUME NEW k \in S PROVE k + 1 \in S
  <2>1. PICK f : Replacing(f, X, k)
    OBVIOUS
  <2> DEFINE Step(s) == Expand(f[s \ {k + 1}], Composites[k + 1])
             g == [s \in SUBSET (1 .. (k + 1)) |-> IF k + 1 \in s THEN Step(s) ELSE f[s]]
  <2>2. ASSUME NEW s \in SUBSET (1 .. (k + 1))
        PROVE  g[s] = IF s = {} THEN X
                      ELSE Expand(g[s \ {Max(s)}], Composites[Max(s)])
    <3>1. CASE k + 1 \in s
      <4>1. Max(s) = k + 1
        BY <3>1, MaxIs
      <4>2. s \ {k + 1} \in SUBSET (1 .. (k + 1)) /\ k + 1 \notin s \ {k + 1}
        OBVIOUS
      <4>3. g[s \ {k + 1}] = f[s \ {k + 1}]
        BY <4>2
      <4>4. g[s] = Step(s)
        BY <3>1
      <4> QED BY <3>1, <4>1, <4>3, <4>4
    <3>2. CASE k + 1 \notin s
      <4>1. s \in SUBSET (1 .. k) /\ g[s] = f[s]
        BY <3>2
      <4>2. CASE s = {}
        BY <2>1, <4>1, <4>2 DEF Replacing
      <4>3. CASE s # {}
        <5>1. f[s] = Expand(f[s \ {Max(s)}], Composites[Max(s)])
          BY <2>1, <4>1, <4>3 DEF Replacing
        <5>2. g[s \ {Max(s)}] = f[s \ {Max(s)}]
          BY <3>2
        <5> QED BY <4>1, <4>3, <5>1, <5>2
      <4> QED BY <4>2, <4>3
    <3> QED BY <3>1, <3>2
  <2>3. Replacing(g, X, k + 1)
    <3> HIDE DEF Step
    <3>1. g = [s \in SUBSET (1 .. (k + 1)) |-> g[s]]
      OBVIOUS
    <3> HIDE DEF g
    <3> QED BY <2>2, <3>1, Zenon DEF Replacing
  <2> QED BY <2>3
<1>3. S \in SUBSET Nat
  OBVIOUS
<1>4. S = Nat
  <2> HIDE DEF S
  <2> QED BY <1>1, <1>2, <1>3, Induction
<1> QED BY <1>4

\* The replacements one after the other.
Replaced(f, X) ==
    /\ f[0] = X
    /\ \A k \in 1 .. 12 : f[k] = Expand(f[k - 1], Composites[k])

LEMMA FoldInSteps ==
    ASSUME NEW X
    PROVE  \E f : Replaced(f, X) /\ FoldLeft(Expand, X, Composites) = f[12]
<1> DEFINE iter == CHOOSE g : Replacing(g, X, 12)
           f == [k \in 0 .. 12 |-> iter[1 .. k]]
<1>1. Replacing(iter, X, 12)
  BY ReplacingExists
<1>2. FoldLeft(Expand, X, Composites) = iter[1 .. 12]
  BY TableSize, Zenon DEF FoldLeft, MapThenFoldSet, Replacing
<1> HIDE DEF iter
<1>3. ASSUME NEW k \in 1 .. 12 PROVE f[k] = Expand(f[k - 1], Composites[k])
  <2>1. Max(1 .. k) = k
    BY MaxIs
  <2>2. 1 .. k \in SUBSET (1 .. 12) /\ 1 .. k # {} /\ (1 .. k) \ {k} = 1 .. (k - 1)
    OBVIOUS
  <2>3. iter[1 .. k] = Expand(iter[1 .. (k - 1)], Composites[k])
    BY <1>1, <2>1, <2>2 DEF Replacing
  <2> QED BY <2>3
<1>4. f[0] = X
  <2>1. 1 .. 0 = {} /\ {} \in SUBSET (1 .. 12)
    OBVIOUS
  <2> QED BY <1>1, <2>1 DEF Replacing
<1>5. Replaced(f, X) /\ f[12] = iter[1 .. 12]
  BY <1>3, <1>4 DEF Replaced
<1> QED BY <1>2, <1>5

\* Since a composite is replaced before one that has it as a part, the fold
\* opens every composite once.
LEMMA FoldOpens ==
    ASSUME NEW X
    PROVE  FoldLeft(Expand, X, Composites) = Opened(X)
<1>1. PICK f : Replaced(f, X) /\ FoldLeft(Expand, X, Composites) = f[12]
  BY FoldInSteps
<1> DEFINE After(k) ==
             {e \in X : \A j \in 1 .. k : Composites[j].whole # e}
               \cup UNION {Composites[j].parts : j \in {i \in 1 .. k : Composites[i].whole \in X}}
           S == {k \in Nat : k <= 12 => f[k] = After(k)}
<1>2. 0 \in S
  <2>1. 1 .. 0 = {}
    OBVIOUS
  <2>2. f[0] = X
    BY <1>1 DEF Replaced
  <2> QED BY <2>1, <2>2
<1>3. ASSUME NEW k \in S PROVE k + 1 \in S
  <2>1. SUFFICES ASSUME k + 1 <= 12 PROVE f[k + 1] = After(k + 1)
    OBVIOUS
  <2>2. f[k + 1] = Expand(f[k], Composites[k + 1]) /\ f[k] = After(k)
    BY <1>1, <2>1 DEF Replaced
  <2> DEFINE w == Composites[k + 1].whole
             p == Composites[k + 1].parts
  <2>3. \A j \in 1 .. k : w # Composites[j].whole /\ w \notin Composites[j].parts
    BY <2>1, OneRule, PartsFirst
  <2>4. w \notin p
    BY <2>1, PartsFirst
  <2>5. w \in After(k) <=> w \in X
    BY <2>3
  <2>6. \A j \in 1 .. (k + 1) : j \in 1 .. k \/ j = k + 1
    OBVIOUS
  <2>7. 1 .. k \subseteq 1 .. (k + 1) /\ k + 1 \in 1 .. (k + 1)
    OBVIOUS
  <2>8. ASSUME NEW e
        PROVE  e \in After(k + 1) <=>
                 \/ e \in After(k) /\ e # w
                 \/ w \in X /\ e \in p
    BY <2>3, <2>6, <2>7
  <2>9. ASSUME NEW e PROVE e \in f[k + 1] <=> e \in After(k + 1)
    <3> HIDE DEF After
    <3> QED BY <2>2, <2>5, <2>8, <2>4 DEF Expand
  <2> HIDE DEF After
  <2> QED BY <2>9, <2>2 DEF Expand
<1>4. S \in SUBSET Nat
  OBVIOUS
<1>5. S = Nat
  <2> HIDE DEF S
  <2> QED BY <1>2, <1>3, <1>4, Induction
<1>6. f[12] = After(12)
  <2>1. 12 \in S
    BY <1>5
  <2> QED BY <2>1
<1>7. ASSUME NEW e PROVE e \in After(12) <=> e \in Opened(X)
  BY TableSize DEF Opened, Wholes, PartsOf
<1> QED BY <1>1, <1>6, <1>7
-----------------------------------------------------------------------------
(* Lists in their order.                                                   *)

\* What is appended, element by element of the order.
Listing(f, order, S, n) ==
    f = [k \in 0 .. n |->
            IF k = 0 THEN <<>>
            ELSE IF order[k] \in S THEN Append(f[k - 1], order[k])
            ELSE f[k - 1]]

LEMMA ListingExists ==
    ASSUME NEW order, NEW S, NEW n \in Nat
    PROVE  \E f : Listing(f, order, S, n)
<1> DEFINE N == {k \in Nat : \E f : Listing(f, order, S, k)}
<1>1. 0 \in N
  <2> DEFINE f == [k \in 0 .. 0 |-> <<>>]
  <2>1. Listing(f, order, S, 0)
    BY DEF Listing
  <2> QED BY <2>1
<1>2. ASSUME NEW k \in N PROVE k + 1 \in N
  <2>1. PICK f : Listing(f, order, S, k)
    OBVIOUS
  <2> DEFINE next == IF order[k + 1] \in S THEN Append(f[k], order[k + 1]) ELSE f[k]
             g == [m \in 0 .. (k + 1) |-> IF m = k + 1 THEN next ELSE f[m]]
  <2> HIDE DEF next
  <2>2. ASSUME NEW m \in 0 .. (k + 1)
        PROVE  g[m] = IF m = 0 THEN <<>>
                      ELSE IF order[m] \in S THEN Append(g[m - 1], order[m])
                      ELSE g[m - 1]
    <3>1. CASE m = k + 1
      BY <3>1 DEF next
    <3>2. CASE m # k + 1
      <4>1. m \in 0 .. k /\ g[m] = f[m]
        BY <3>2
      <4>2. m # 0 => g[m - 1] = f[m - 1]
        BY <3>2
      <4> QED BY <2>1, <4>1, <4>2 DEF Listing
    <3> QED BY <3>1, <3>2
  <2>3. Listing(g, order, S, k + 1)
    <3>1. g = [m \in 0 .. (k + 1) |-> g[m]]
      OBVIOUS
    <3> HIDE DEF g
    <3> QED BY <2>2, <3>1, Zenon DEF Listing
  <2> QED BY <2>3
<1>3. N \in SUBSET Nat
  OBVIOUS
<1>4. N = Nat
  <2> HIDE DEF N
  <2> QED BY <1>1, <1>2, <1>3, Induction
<1> QED BY <1>4

\* No element of it is there twice.
Distinct(order) == \A i, j \in 1 .. Len(order) : order[i] = order[j] => i = j

\* The elements of an order up to a place that are in a set, in this order.
Picks(s, order, S, n) ==
    /\ DOMAIN s = 1 .. Len(s)
    /\ \A e : e \in ToSet(s) <=> e \in S /\ \E j \in 1 .. n : order[j] = e
    /\ Distinct(order) => \A l, m \in DOMAIN s : l < m =>
          \A i, j \in 1 .. Len(order) : order[i] = s[l] /\ order[j] = s[m] => i < j

LEMMA InOrderPicks ==
    ASSUME NEW T, NEW order \in Seq(T), NEW S
    PROVE  Picks(InOrder(order, S), order, S, Len(order))
<1> DEFINE n == Len(order)
           f == CHOOSE g : Listing(g, order, S, n)
           N == {k \in Nat : k <= n => f[k] \in Seq(T) /\ Picks(f[k], order, S, k)}
<1>0. n \in Nat
  OBVIOUS
<1>1. Listing(f, order, S, n)
  <2> HIDE DEF n
  <2> QED BY <1>0, ListingExists
<1>2. InOrder(order, S) = f[n]
  BY Zenon DEF InOrder, Listing
<1> HIDE DEF f
<1>3. 0 \in N
  <2>1. f[0] = <<>>
    BY <1>0, <1>1 DEF Listing
  <2>2. <<>> \in Seq(T) /\ Picks(<<>>, order, S, 0)
    BY DEF Picks, ToSet
  <2> QED BY <2>1, <2>2
<1>4. ASSUME NEW k \in N PROVE k + 1 \in N
  <2>1. SUFFICES ASSUME k + 1 <= n
                 PROVE  f[k + 1] \in Seq(T) /\ Picks(f[k + 1], order, S, k + 1)
    OBVIOUS
  <2> DEFINE s == f[k]
             x == order[k + 1]
  <2>2. s \in Seq(T) /\ Picks(s, order, S, k) /\ x \in T
    BY <2>1
  <2>3. f[k + 1] = IF x \in S THEN Append(s, x) ELSE s
    <3>1. k \in Nat /\ k + 1 \in 0 .. n /\ k + 1 # 0 /\ (k + 1) - 1 = k
      BY <1>0, <2>1
    <3> HIDE DEF n
    <3> QED BY <1>1, <3>1 DEF Listing
  <2>4. \A j \in 1 .. (k + 1) : j \in 1 .. k \/ j = k + 1
    OBVIOUS
  <2>5. 1 .. k \subseteq 1 .. (k + 1) /\ k + 1 \in 1 .. (k + 1) /\ 1 .. (k + 1) \subseteq 1 .. n
    BY <2>1
  <2>6. CASE x \notin S
    <3>1. ASSUME NEW e
          PROVE  (e \in S /\ \E j \in 1 .. (k + 1) : order[j] = e)
                   <=> (e \in S /\ \E j \in 1 .. k : order[j] = e)
      BY <2>4, <2>5, <2>6
    <3> HIDE DEF s
    <3> QED BY <2>2, <2>3, <2>6, <3>1 DEF Picks
  <2>7. CASE x \in S
    <3> DEFINE t == Append(s, x)
    <3>1. /\ t \in Seq(T) /\ Len(t) = Len(s) + 1 /\ t[Len(s) + 1] = x
          /\ \A m \in 1 .. Len(s) : t[m] = s[m]
          /\ DOMAIN t = 1 .. Len(t) /\ DOMAIN s = 1 .. Len(s) /\ Len(s) \in Nat
      <4> HIDE DEF s, x
      <4> QED BY <2>2
    <3> HIDE DEF t, s
    <3>2. ASSUME NEW e
          PROVE  e \in ToSet(t) <=> e \in S /\ \E j \in 1 .. (k + 1) : order[j] = e
      <4>1. e \in ToSet(t) <=> e \in ToSet(s) \/ e = x
        <5> HIDE DEF x
        <5> QED BY <3>1 DEF ToSet
      <4>2. (\E j \in 1 .. (k + 1) : order[j] = e)
              <=> (\E j \in 1 .. k : order[j] = e) \/ e = x
        BY <2>4, <2>5
      <4> QED BY <2>2, <2>7, <4>1, <4>2 DEF Picks
    <3>3. ASSUME Distinct(order), NEW l \in DOMAIN t, NEW m \in DOMAIN t, l < m,
                 NEW i \in 1 .. n, NEW j \in 1 .. n, order[i] = t[l], order[j] = t[m]
          PROVE  i < j
      <4>1. l \in DOMAIN s /\ t[l] = s[l]
        BY <3>1, <3>3
      <4>2. CASE m \in DOMAIN s
        BY <2>2, <3>1, <3>3, <4>1, <4>2 DEF Picks
      <4>3. CASE m \notin DOMAIN s
        <5>1. t[m] = x
          BY <3>1, <4>3
        <5>2. j = k + 1
          BY <2>5, <3>3, <5>1 DEF Distinct
        <5>3. s[l] \in ToSet(s)
          BY <4>1 DEF ToSet
        <5>4. PICK h \in 1 .. k : order[h] = s[l]
          BY <2>2, <5>3 DEF Picks
        <5>5. i = h
          BY <2>5, <3>3, <4>1, <5>4 DEF Distinct
        <5> QED BY <5>2, <5>4, <5>5
      <4> QED BY <4>2, <4>3
    <3>4. Picks(t, order, S, k + 1)
      BY <3>1, <3>2, <3>3 DEF Picks
    <3> QED BY <2>3, <2>7, <3>1, <3>4 DEF t
  <2> QED BY <2>6, <2>7
<1>5. N \in SUBSET Nat
  OBVIOUS
<1>6. N = Nat
  <2> HIDE DEF N
  <2> QED BY <1>3, <1>4, <1>5, Induction
<1>7. n \in N
  BY <1>6
<1> QED BY <1>2, <1>7

-----------------------------------------------------------------------------
(* Opening the composites of a set.                                        *)

LEMMA OpenedHas ==
    ASSUME NEW X, NEW e
    PROVE  e \in Opened(X) <=>
             \/ e \in X /\ \A k \in 1 .. 12 : Composites[k].whole # e
             \/ \E k \in 1 .. 12 : Composites[k].whole \in X /\ e \in Composites[k].parts
BY TableSize DEF Opened, Wholes, PartsOf

\* What has no part in the rules is left alone.
LEMMA OpenedPlain ==
    ASSUME NEW X, NEW e \in Plain
    PROVE  e \in Opened(X) <=> e \in X
BY OpenedHas, PlainIs

LEMMA OpenedMinus ==
    ASSUME NEW X, NEW P \in SUBSET Plain
    PROVE  Opened(X \ P) = Opened(X) \ P
<1>1. \A k \in 1 .. 12 : Composites[k].whole \notin P /\ Composites[k].parts \cap P = {}
  BY PlainIs
<1>2. ASSUME NEW e PROVE e \in Opened(X \ P) <=> e \in Opened(X) \ P
  BY <1>1, OpenedHas
<1> QED BY <1>2

LEMMA OpenedUnion ==
    ASSUME NEW X, NEW Y
    PROVE  Opened(X \cup Y) = Opened(X) \cup Opened(Y)
<1>1. ASSUME NEW e PROVE e \in Opened(X \cup Y) <=> e \in Opened(X) \cup Opened(Y)
  BY OpenedHas
<1> QED BY <1>1

LEMMA OpenedPlus ==
    ASSUME NEW X, NEW P \in SUBSET Plain
    PROVE  Opened(X \cup P) = Opened(X) \cup P
<1>1. ASSUME NEW e PROVE e \in Opened(P) <=> e \in P
  BY OpenedHas, PlainIs
<1> QED BY <1>1, OpenedUnion

LEMMA OpenedEdited ==
    ASSUME NEW X, NEW P \in SUBSET Plain, NEW Q \in SUBSET Plain
    PROVE  Opened((X \ P) \cup Q) = (Opened(X) \ P) \cup Q
<1> DEFINE Z == X \ P
<1>1. Opened(Z) = Opened(X) \ P
  BY OpenedMinus
<1> HIDE DEF Z
<1>2. Opened(Z \cup Q) = Opened(Z) \cup Q
  BY OpenedPlus
<1> QED BY <1>1, <1>2 DEF Z

\* G brings I, F and D and is nobody's part.
LEMMA OpenedBase ==
    ASSUME NEW X
    PROVE  /\ "g" \notin Opened(X)
           /\ \A e \in {"i", "f", "d"} : e \in Opened(X) <=> e \in X \/ "g" \in X
<1>1. 1 \in 1 .. 12
  OBVIOUS
<1>2. "g" \notin Opened(X)
  BY <1>1, BaseOfG, OpenedHas
<1>3. ASSUME NEW e \in {"i", "f", "d"} PROVE e \in Opened(X) <=> e \in X \/ "g" \in X
  BY <1>1, BaseOfG, OpenedHas
<1> QED BY <1>2, <1>3

\* After the second time no composite is left.
NoWhole(X) == \A k \in 1 .. 12 : Composites[k].whole \notin X

LEMMA OpenedNoWhole ==
    ASSUME NEW X, NoWhole(X)
    PROVE  Opened(X) = X
<1>1. ASSUME NEW e PROVE e \in Opened(X) <=> e \in X
  BY OpenedHas DEF NoWhole
<1> QED BY <1>1

LEMMA OpenedTwice ==
    ASSUME NEW X
    PROVE  NoWhole(Opened(Opened(X)))
<1> SUFFICES ASSUME NEW k \in 1 .. 12, Composites[k].whole \in Opened(Opened(X))
             PROVE  FALSE
  BY DEF NoWhole
<1>1. PICK j \in 1 .. 12 : /\ Composites[j].whole \in Opened(X)
                           /\ Composites[k].whole \in Composites[j].parts
  BY OpenedHas
<1>2. PICK l \in 1 .. 12 : Composites[j].whole \in Composites[l].parts
  BY <1>1, OpenedHas
<1> QED BY <1>1, <1>2, TwoDeep

-----------------------------------------------------------------------------
(* normalize_extensions.                                                   *)

\* What the choice of I takes away, what the rule for C adds.
Lost(X) == IF "i" \in X THEN {"e"} ELSE {}
Won(X, wide) == IF ImpliesC(X, wide) THEN {"c"} ELSE {}

LEMMA NormIs ==
    ASSUME NEW X, NEW wide
    PROVE  normalize_extensions(X, wide)
             = (Opened(X) \ Lost(X)) \cup Won(Opened(X), wide)
<1>1. SelectI(X) = X \ Lost(X)
  BY DEF SelectI, Lost
<1>2. Lost(X) \in SUBSET Plain
  BY DEF Lost, Plain
<1> DEFINE Z == Opened(X) \ Lost(X)
<1>3. FoldLeft(Expand, SelectI(X), Composites) = Z
  BY <1>1, <1>2, FoldOpens, OpenedMinus
<1>4. ImpliesC(Z, wide) <=> ImpliesC(Opened(X), wide)
  BY DEF ImpliesC, Lost
<1> HIDE DEF Z
<1>5. normalize_extensions(X, wide) = WithC(Z, wide)
  BY <1>3 DEF normalize_extensions
<1> QED BY <1>4, <1>5 DEF WithC, Won, Z

LEMMA MeaningIs ==
    ASSUME NEW X, NEW wide
    PROVE  Meaning(X, wide)
             = ((Opened(Opened(X)) \ Lost(Opened(X))) \cup Won(Opened(X), wide)) \ Unwritten
<1> DEFINE O == Opened(X)
           Z == Opened(O) \ Lost(O)
<1>1. "g" \notin O /\ ("i" \in Opened(O) <=> "i" \in O)
  BY OpenedBase
<1>2. SelectI(Opened(O)) = Z
  BY <1>1 DEF SelectI, Lost
<1>3. \A e \in {"f", "d"} : e \in Opened(O) <=> e \in O
  BY <1>1, OpenedBase
<1>4. \A e \in {"zca", "zcf", "zcd"} : e \in Opened(O) <=> e \in O
  BY OpenedPlain DEF Plain
<1>5. ImpliesC(Z, wide) <=> ImpliesC(O, wide)
  BY <1>3, <1>4 DEF ImpliesC, Lost
<1> HIDE DEF O, Z
<1>6. Meaning(X, wide) = WithC(Z, wide) \ Unwritten
  BY <1>2 DEF Meaning, O
<1>7. WithC(Z, wide) = Z \cup Won(O, wide)
  BY <1>5 DEF WithC, Won
<1> QED BY <1>6, <1>7 DEF O, Z

\* One pass leaves the set with composites of the second depth opened next.
LEMMA OpenedNorm ==
    ASSUME NEW X, NEW wide
    PROVE  Opened(normalize_extensions(X, wide))
             = (Opened(Opened(X)) \ Lost(X)) \cup Won(Opened(X), wide)
<1>1. Lost(X) \in SUBSET Plain /\ Won(Opened(X), wide) \in SUBSET Plain
  BY DEF Lost, Won, Plain
<1>2. normalize_extensions(X, wide) = (Opened(X) \ Lost(X)) \cup Won(Opened(X), wide)
  BY NormIs
<1> QED BY <1>1, <1>2, OpenedEdited

\* What the rule for C looks at is the same after any opening.
LEMMA WonOf ==
    ASSUME NEW X, NEW Y, NEW wide, {"zca", "zcf", "zcd", "f", "d"} \cap X
                                     = {"zca", "zcf", "zcd", "f", "d"} \cap Y
    PROVE  Won(X, wide) = Won(Y, wide)
<1>1. \A e \in {"zca", "zcf", "zcd", "f", "d"} : e \in X <=> e \in Y
  OBVIOUS
<1>2. ImpliesC(X, wide) <=> ImpliesC(Y, wide)
  BY <1>1 DEF ImpliesC
<1> QED BY <1>2 DEF Won

\* A configuration means the same before and after a pass.
LEMMA NormMeans ==
    ASSUME NEW X, NEW wide
    PROVE  Meaning(normalize_extensions(X, wide), wide) = Meaning(X, wide)
<1> DEFINE O == Opened(X)
           OO == Opened(O)
           C == Won(O, wide)
           Z == (OO \ Lost(X)) \cup C
           M == normalize_extensions(X, wide)
<1>1. Opened(M) = Z
  BY OpenedNorm
<1>2. Opened(Z) = Z
  <2>1. Lost(X) \in SUBSET Plain /\ C \in SUBSET Plain
    BY DEF Lost, Won, Plain
  <2>2. Opened(OO) = OO
    BY OpenedTwice, OpenedNoWhole
  <2> HIDE DEF C, OO
  <2> QED BY <2>1, <2>2, OpenedEdited
<1>3. "g" \notin O /\ \A e \in {"i", "f", "d"} : e \in OO <=> e \in O
  BY OpenedBase
<1>4. \A e \in {"zca", "zcf", "zcd"} : e \in OO <=> e \in O
  BY OpenedPlain DEF Plain
<1>5. C \in SUBSET {"c"} /\ Lost(X) \in SUBSET {"e"}
  BY DEF Won, Lost
<1>6. "i" \in X => "i" \in O
  BY OpenedBase
<1>7. "i" \in Z <=> "i" \in O
  <2> HIDE DEF O, OO, C
  <2> QED BY <1>3, <1>5
<1>8. Lost(Z) = Lost(O) /\ Lost(X) \subseteq Lost(O)
  BY <1>6, <1>7 DEF Lost
<1>9. Won(Z, wide) = C
  <2>1. \A e \in {"zca", "zcf", "zcd", "f", "d"} : e \in Z <=> e \in O
    <3> HIDE DEF O, OO, C
    <3> QED BY <1>3, <1>4, <1>5
  <2> HIDE DEF O, OO, Z
  <2> QED BY <2>1, WonOf DEF C
<1>10. Meaning(M, wide) = ((Z \ Lost(O)) \cup C) \ Unwritten
  BY <1>1, <1>2, <1>8, <1>9, MeaningIs
<1>11. Meaning(X, wide) = ((OO \ Lost(O)) \cup C) \ Unwritten
  BY MeaningIs
<1> HIDE DEF O, OO, C
<1> QED BY <1>8, <1>10, <1>11

\* What no string holds is carried through and makes no difference.
LEMMA Carried ==
    ASSUME NEW X, NEW wide
    PROVE  /\ normalize_extensions(X \ Unwritten, wide)
                = normalize_extensions(X, wide) \ Unwritten
           /\ Meaning(X \ Unwritten, wide) = Meaning(X, wide)
<1>1. Unwritten \in SUBSET Plain /\ {"c", "e", "i", "f", "d", "zca", "zcf", "zcd"} \cap Unwritten = {}
  BY DEF Plain, Unwritten, ReservedLetters, TranslationModes
<1>2. /\ Opened(X \ Unwritten) = Opened(X) \ Unwritten
      /\ Opened(Opened(X) \ Unwritten) = Opened(Opened(X)) \ Unwritten
  BY <1>1, OpenedMinus
<1>3. \A Y : Lost(Y \ Unwritten) = Lost(Y) /\ Won(Y \ Unwritten, wide) = Won(Y, wide)
  BY <1>1, WonOf DEF Lost
<1>4. \A Y : Lost(Y) \cap Unwritten = {} /\ Won(Y, wide) \cap Unwritten = {}
  BY <1>1 DEF Lost, Won
<1> DEFINE O == Opened(X)
           OO == Opened(O)
<1>5. normalize_extensions(X \ Unwritten, wide) = normalize_extensions(X, wide) \ Unwritten
  <2>1. normalize_extensions(X \ Unwritten, wide)
          = ((O \ Unwritten) \ Lost(X)) \cup Won(O, wide)
    BY <1>2, <1>3, NormIs
  <2>2. normalize_extensions(X, wide) = (O \ Lost(X)) \cup Won(O, wide)
    BY NormIs
  <2> HIDE DEF O
  <2> QED BY <1>4, <2>1, <2>2
<1>6. Meaning(X \ Unwritten, wide) = Meaning(X, wide)
  <2>1. Meaning(X \ Unwritten, wide)
          = (((OO \ Unwritten) \ Lost(O)) \cup Won(O, wide)) \ Unwritten
    BY <1>2, <1>3, MeaningIs
  <2>2. Meaning(X, wide) = ((OO \ Lost(O)) \cup Won(O, wide)) \ Unwritten
    BY MeaningIs
  <2> HIDE DEF O, OO
  <2> QED BY <2>1, <2>2
<1> QED BY <1>5, <1>6

\* What two passes make of a set, another one leaves as it is.
LEMMA TwoPasses ==
    ASSUME NEW X, NEW wide
    PROVE  LET M == normalize_extensions(normalize_extensions(X, wide), wide)
           IN  normalize_extensions(M, wide) = M
<1> DEFINE O == Opened(X)
           OO == Opened(O)
           C == Won(O, wide)
           Y == normalize_extensions(X, wide)
           Z == (OO \ Lost(X)) \cup C
           M == normalize_extensions(Y, wide)
<1>1. Opened(Y) = Z
  BY OpenedNorm
<1>2. M = (Z \ Lost(Y)) \cup Won(Z, wide)
  BY <1>1, NormIs
<1>3. Opened(M) = (Opened(Z) \ Lost(Y)) \cup Won(Z, wide)
  BY <1>1, OpenedNorm
<1>4. Opened(Z) = Z
  <2>1. Lost(X) \in SUBSET Plain /\ C \in SUBSET Plain
    BY DEF Lost, Won, Plain
  <2>2. Opened(OO) = OO
    BY OpenedTwice, OpenedNoWhole
  <2> HIDE DEF C, OO
  <2> QED BY <2>1, <2>2, OpenedEdited
<1>5. Opened(M) = M
  BY <1>2, <1>3, <1>4
<1>6. "i" \in Y <=> "i" \in M
  <2>1. "i" \in Opened(Y) <=> "i" \in Y
    <3>1. "g" \notin Y
      <4>1. "g" \notin O
        BY OpenedBase
      <4> QED BY <4>1, NormIs DEF Won
    <3> QED BY <3>1, OpenedBase
  <2> QED BY <1>1, <1>2, <2>1 DEF Lost, Won
<1>7. Lost(M) = Lost(Y) /\ Lost(Y) \cap Won(Z, wide) = {}
  BY <1>6 DEF Lost, Won
<1>8. Won(M, wide) = Won(Z, wide)
  <2>1. \A e \in {"zca", "zcf", "zcd", "f", "d"} : e \in M <=> e \in Z
    BY <1>2 DEF Lost, Won
  <2> HIDE DEF M, Z
  <2> QED BY <2>1, WonOf
<1>9. normalize_extensions(M, wide) = (M \ Lost(M)) \cup Won(M, wide)
  BY <1>5, NormIs
<1> HIDE DEF Z
<1> QED BY <1>2, <1>7, <1>8, <1>9

-----------------------------------------------------------------------------
(* The lists of extensions.                                                *)

LEMMA Selected ==
    ASSUME NEW T, NEW order \in Seq(T), NEW S
    PROVE  ToSet(InOrder(order, S)) = ToSet(order) \cap S
<1>1. \A e : e \in ToSet(InOrder(order, S)) <=> e \in S /\ \E j \in 1 .. Len(order) : order[j] = e
  BY InOrderPicks DEF Picks
<1>2. \A e : e \in ToSet(order) <=> \E j \in 1 .. Len(order) : order[j] = e
  BY DEF ToSet
<1> QED BY <1>1, <1>2

LEMMA ToSetHas ==
    ASSUME NEW T, NEW s \in Seq(T)
    PROVE  \A e : e \in ToSet(s) <=> \E k \in 1 .. Len(s) : s[k] = e
<1>1. DOMAIN s = 1 .. Len(s)
  OBVIOUS
<1> QED BY <1>1 DEF ToSet

LEMMA ToSetJoin ==
    ASSUME NEW T, NEW s \in Seq(T), NEW t \in Seq(T)
    PROVE  ToSet(s \o t) = ToSet(s) \cup ToSet(t)
<1>1. /\ Len(s \o t) = Len(s) + Len(t)
      /\ \A k \in 1 .. Len(s) : (s \o t)[k] = s[k]
      /\ \A k \in 1 .. Len(t) : (s \o t)[Len(s) + k] = t[k]
      /\ \A k \in 1 .. (Len(s) + Len(t)) :
            \/ k \in 1 .. Len(s)
            \/ k - Len(s) \in 1 .. Len(t) /\ Len(s) + (k - Len(s)) = k
      /\ \A k \in 1 .. Len(s) : k \in 1 .. (Len(s) + Len(t))
      /\ \A k \in 1 .. Len(t) : Len(s) + k \in 1 .. (Len(s) + Len(t))
  OBVIOUS
<1>2. ASSUME NEW e PROVE e \in ToSet(s \o t) <=> e \in ToSet(s) \cup ToSet(t)
  <2>1. e \in ToSet(s \o t) <=> \E k \in 1 .. (Len(s) + Len(t)) : (s \o t)[k] = e
    <3>1. s \o t \in Seq(T)
      OBVIOUS
    <3>2. e \in ToSet(s \o t) <=> \E k \in 1 .. Len(s \o t) : (s \o t)[k] = e
      BY <3>1, ToSetHas
    <3> QED BY <1>1, <3>2
  <2>2. e \in ToSet(s) <=> \E k \in 1 .. Len(s) : s[k] = e
    BY ToSetHas
  <2>3. e \in ToSet(t) <=> \E k \in 1 .. Len(t) : t[k] = e
    BY ToSetHas
  <2> QED BY <1>1, <2>1, <2>2, <2>3
<1> QED BY <1>2

LEMMA ToSetPrefix ==
    ASSUME NEW T, NEW s \in Seq(T), NEW n \in 0 .. Len(s)
    PROVE  \A e : e \in ToSet(SubSeq(s, 1, n)) <=> \E k \in 1 .. n : s[k] = e
<1>1. /\ DOMAIN SubSeq(s, 1, n) = 1 .. n
      /\ \A k \in 1 .. n : SubSeq(s, 1, n)[k] = s[k]
  OBVIOUS
<1> QED BY <1>1 DEF ToSet

\* The elements of all lists.
Listable == ToSet(Misa) \cup ToSet(Standard) \cup ToSet(Privileged) \cup ToSet(Custom)

LEMMA ListIs ==
    ASSUME NEW T, NEW s, Len(s) \in Nat, s \in [1 .. Len(s) -> ToSet(s)], ToSet(s) \subseteq T
    PROVE  s \in Seq(T)
<1> DEFINE S == ToSet(s)
<1>1. s \in [1 .. Len(s) -> S]
  OBVIOUS
<1> HIDE DEF S
<1>2. S \subseteq T
  BY DEF S
<1>3. s \in [1 .. Len(s) -> T]
  BY <1>1, <1>2
<1> QED BY <1>3, SeqDef

LEMMA Lists ==
    /\ Misa \in Seq(Listable) /\ Len(Misa) = 26 /\ DOMAIN Misa = 1 .. 26
    /\ Standard \in Seq(Listable) /\ Len(Standard) = 38 /\ DOMAIN Standard = 1 .. 38
    /\ Privileged \in Seq(Listable) /\ Len(Privileged) = 15 /\ DOMAIN Privileged = 1 .. 15
    /\ Custom \in Seq(Listable) /\ Len(Custom) = 1 /\ DOMAIN Custom = 1 .. 1
<1>1. Misa \in Seq(Listable)
  <2>1. Misa \in [1 .. Len(Misa) -> ToSet(Misa)] /\ Len(Misa) \in Nat
    BY DEF Misa, ToSet
  <2>2. ToSet(Misa) \subseteq Listable
    BY DEF Listable
  <2> QED BY <2>1, <2>2, ListIs
<1>2. Standard \in Seq(Listable)
  <2>1. Standard \in [1 .. Len(Standard) -> ToSet(Standard)] /\ Len(Standard) \in Nat
    BY DEF Standard, ToSet
  <2>2. ToSet(Standard) \subseteq Listable
    BY DEF Listable
  <2> QED BY <2>1, <2>2, ListIs
<1>3. Privileged \in Seq(Listable)
  <2>1. Privileged \in [1 .. Len(Privileged) -> ToSet(Privileged)] /\ Len(Privileged) \in Nat
    BY DEF Privileged, ToSet
  <2>2. ToSet(Privileged) \subseteq Listable
    BY DEF Listable
  <2> QED BY <2>1, <2>2, ListIs
<1>4. Custom \in Seq(Listable)
  <2>1. Custom \in [1 .. Len(Custom) -> ToSet(Custom)] /\ Len(Custom) \in Nat
    BY DEF Custom, ToSet
  <2>2. ToSet(Custom) \subseteq Listable
    BY DEF Listable
  <2> QED BY <2>1, <2>2, ListIs
<1>5. /\ Len(Misa) = 26 /\ DOMAIN Misa = 1 .. 26
      /\ Len(Standard) = 38 /\ DOMAIN Standard = 1 .. 38
      /\ Len(Privileged) = 15 /\ DOMAIN Privileged = 1 .. 15
      /\ Len(Custom) = 1 /\ DOMAIN Custom = 1 .. 1
  BY DEF Misa, Standard, Privileged, Custom
<1> QED BY <1>1, <1>2, <1>3, <1>4, <1>5

LEMMA MisaDistinct == Distinct(Misa)
BY DEF Distinct, Misa

LEMMA MultiIs ==
    /\ Multi \in Seq(Listable)
    /\ ToSet(Multi) = ToSet(Standard) \cup ToSet(Privileged) \cup ToSet(Custom)
<1> DEFINE s == Standard \o Privileged
<1>1. s \in Seq(Listable) /\ ToSet(s) = ToSet(Standard) \cup ToSet(Privileged)
  BY Lists, ToSetJoin
<1> HIDE DEF s
<1>2. s \o Custom \in Seq(Listable) /\ ToSet(s \o Custom) = ToSet(s) \cup ToSet(Custom)
  BY <1>1, Lists, ToSetJoin
<1>3. Multi = s \o Custom
  BY DEF Multi, s
<1> QED BY <1>1, <1>2, <1>3

LEMMA WithinHas ==
    ASSUME NEW size \in Sizes
    PROVE  \A e : e \in Within(size) <=>
             \/ \E k \in 1 .. size.ZExtSize : Standard[k] = e
             \/ \E k \in 1 .. size.SExtSize : Privileged[k] = e
             \/ \E k \in 1 .. size.XExtSize : Custom[k] = e
<1>1. /\ size.ZExtSize \in 0 .. Len(Standard)
      /\ size.SExtSize \in 0 .. Len(Privileged)
      /\ size.XExtSize \in 0 .. Len(Custom)
  BY DEF Sizes
<1> DEFINE z == ToSet(SubSeq(Standard, 1, size.ZExtSize))
           p == ToSet(SubSeq(Privileged, 1, size.SExtSize))
           x == ToSet(SubSeq(Custom, 1, size.XExtSize))
<1>2. \A e : e \in z <=> \E k \in 1 .. size.ZExtSize : Standard[k] = e
  <2>1. Standard \in Seq(Listable)
    BY Lists
  <2> QED BY <1>1, <2>1, ToSetPrefix
<1>3. \A e : e \in p <=> \E k \in 1 .. size.SExtSize : Privileged[k] = e
  <2>1. Privileged \in Seq(Listable)
    BY Lists
  <2> QED BY <1>1, <2>1, ToSetPrefix
<1>4. \A e : e \in x <=> \E k \in 1 .. size.XExtSize : Custom[k] = e
  <2>1. Custom \in Seq(Listable)
    BY Lists
  <2> QED BY <1>1, <2>1, ToSetPrefix
<1>5. Within(size) = z \cup p \cup x
  BY DEF Within
<1> HIDE DEF z, p, x
<1> QED BY <1>2, <1>3, <1>4, <1>5

LEMMA WithinLists ==
    /\ InitSizes \in Sizes
    /\ Within(InitSizes) = ToSet(Multi)
    /\ \A size \in Sizes : Within(size) \subseteq ToSet(Multi)
<1>1. InitSizes \in Sizes
  BY Lists DEF InitSizes, Sizes
<1>2. /\ \A e : e \in ToSet(Standard) <=> \E k \in 1 .. 38 : Standard[k] = e
      /\ \A e : e \in ToSet(Privileged) <=> \E k \in 1 .. 15 : Privileged[k] = e
      /\ \A e : e \in ToSet(Custom) <=> \E k \in 1 .. 1 : Custom[k] = e
  <2>1. \A e : e \in ToSet(Standard) <=> \E k \in 1 .. 38 : Standard[k] = e
    BY Lists DEF ToSet
  <2>2. \A e : e \in ToSet(Privileged) <=> \E k \in 1 .. 15 : Privileged[k] = e
    BY Lists DEF ToSet
  <2>3. \A e : e \in ToSet(Custom) <=> \E k \in 1 .. 1 : Custom[k] = e
    BY Lists DEF ToSet
  <2> QED BY <2>1, <2>2, <2>3
<1>3. InitSizes.ZExtSize = 38 /\ InitSizes.SExtSize = 15 /\ InitSizes.XExtSize = 1
  BY Lists DEF InitSizes
<1>4. Within(InitSizes) = ToSet(Multi)
  <2>1. \A e : e \in Within(InitSizes) <=>
                 \/ \E k \in 1 .. 38 : Standard[k] = e
                 \/ \E k \in 1 .. 15 : Privileged[k] = e
                 \/ \E k \in 1 .. 1 : Custom[k] = e
    <3> DEFINE size == InitSizes
    <3> HIDE DEF size
    <3>1. size \in Sizes /\ size.ZExtSize = 38 /\ size.SExtSize = 15 /\ size.XExtSize = 1
      BY <1>1, <1>3 DEF size
    <3>2. \A e : e \in Within(size) <=>
             \/ \E k \in 1 .. size.ZExtSize : Standard[k] = e
             \/ \E k \in 1 .. size.SExtSize : Privileged[k] = e
             \/ \E k \in 1 .. size.XExtSize : Custom[k] = e
      BY <3>1, WithinHas
    <3> QED BY <3>1, <3>2 DEF size
  <2>2. \A e : e \in ToSet(Multi) <=>
                 e \in ToSet(Standard) \/ e \in ToSet(Privileged) \/ e \in ToSet(Custom)
    BY MultiIs
  <2>3. \A e : e \in Within(InitSizes) <=> e \in ToSet(Multi)
    BY <1>2, <2>1, <2>2
  <2> QED BY <2>3
<1>5. ASSUME NEW size \in Sizes, NEW e \in Within(size) PROVE e \in ToSet(Multi)
  <2>1. size.ZExtSize \in 0 .. 38 /\ size.SExtSize \in 0 .. 15 /\ size.XExtSize \in 0 .. 1
    BY Lists DEF Sizes
  <2>2. /\ 1 .. size.ZExtSize \subseteq 1 .. 38
        /\ 1 .. size.SExtSize \subseteq 1 .. 15
        /\ 1 .. size.XExtSize \subseteq 1 .. 1
    BY <2>1
  <2>3. \/ \E k \in 1 .. size.ZExtSize : Standard[k] = e
        \/ \E k \in 1 .. size.SExtSize : Privileged[k] = e
        \/ \E k \in 1 .. size.XExtSize : Custom[k] = e
    BY <1>5, WithinHas
  <2>4. e \in ToSet(Standard) \/ e \in ToSet(Privileged) \/ e \in ToSet(Custom)
    BY <1>2, <2>2, <2>3
  <2> QED BY <2>4, MultiIs
<1> QED BY <1>1, <1>4, <1>5

-----------------------------------------------------------------------------
(* create_isa_string.                                                      *)

\* It writes what is left after a pass, without what strings do not hold,
\* within the sizes.
Writes(made, norm, size, wide) ==
    /\ made.bits = IF wide THEN 64 ELSE 32
    /\ made.letters = InOrder(Misa, norm)
    /\ ToSet(made.letters) = ToSet(Misa) \cap norm
    /\ ToSet(made.names) = Within(size) \cap norm
    /\ Listed(made) = norm \cap (ToSet(Misa) \cup Within(size))

LEMMA CreateWrites ==
    ASSUME NEW X, NEW size \in Sizes, NEW wide
    PROVE  Writes(create_isa_string(X, size, wide),
                  normalize_extensions(X, wide) \ Unwritten, size, wide)
<1> DEFINE made == create_isa_string(X, size, wide)
           norm == normalize_extensions(X, wide) \ Unwritten
<1>1. /\ made.bits = IF wide THEN 64 ELSE 32
      /\ made.letters = InOrder(Misa, norm)
      /\ made.names = InOrder(Multi, norm \cap Within(size))
  BY DEF create_isa_string
<1> HIDE DEF made, norm
<1>2. ToSet(made.letters) = ToSet(Misa) \cap norm
  BY <1>1, Lists, Selected
<1>3. ToSet(made.names) = ToSet(Multi) \cap (norm \cap Within(size))
  BY <1>1, MultiIs, Selected
<1>4. Within(size) \subseteq ToSet(Multi)
  BY WithinLists
<1>5. Listed(made) = norm \cap (ToSet(Misa) \cup Within(size))
  BY <1>2, <1>3, <1>4 DEF Listed
<1>6. Writes(made, norm, size, wide)
  BY <1>1, <1>2, <1>3, <1>4, <1>5 DEF Writes
<1> QED BY <1>6 DEF made, norm

LEMMA CreateLists ==
    ASSUME NEW X, NEW size \in Sizes, NEW wide
    PROVE  Listed(create_isa_string(X, size, wide))
             = (normalize_extensions(X, wide) \ Unwritten) \cap (ToSet(Misa) \cup Within(size))
<1> DEFINE made == create_isa_string(X, size, wide)
           norm == normalize_extensions(X, wide) \ Unwritten
<1>1. Writes(made, norm, size, wide)
  BY CreateWrites
<1> HIDE DEF made, norm
<1>2. Listed(made) = norm \cap (ToSet(Misa) \cup Within(size))
  BY <1>1 DEF Writes
<1> QED BY <1>2 DEF made, norm

LEMMA CreateBits ==
    ASSUME NEW X, NEW size, NEW wide \in BOOLEAN
    PROVE  (create_isa_string(X, size, wide).bits = 64) = wide
<1>1. create_isa_string(X, size, wide).bits = IF wide THEN 64 ELSE 32
  BY DEF create_isa_string
<1> QED BY <1>1

\* A letter has the rank of its only place.
LEMMA RankIs ==
    ASSUME NEW k \in 1 .. Len(Misa)
    PROVE  SelectInSeq(Misa, LAMBDA m : m = Misa[k]) = k
<1> DEFINE I == {j \in 1 .. Len(Misa) : Misa[j] = Misa[k]}
<1>1. I = {k}
  BY MisaDistinct DEF Distinct
<1>2. \A x \in {k} : (\A y \in {k} : x <= y) <=> x = k
  OBVIOUS
<1>3. Min({k}) = k
  <2>1. (CHOOSE x \in {k} : \A y \in {k} : x <= y) = k
    BY <1>2
  <2> QED BY <2>1 DEF Min
<1>4. SelectInSeq(Misa, LAMBDA m : m = Misa[k]) = IF I # {} THEN Min(I) ELSE 0
  BY Zenon DEF SelectInSeq
<1> QED BY <1>1, <1>3, <1>4

LEMMA InOrderOrdered ==
    ASSUME NEW S
    PROVE  Ordered(InOrder(Misa, S))
<1> DEFINE s == InOrder(Misa, S)
           Rank(e) == SelectInSeq(Misa, LAMBDA m : m = e)
<1>1. Picks(s, Misa, S, Len(Misa))
  BY Lists, InOrderPicks
<1> HIDE DEF s
<1>2. ASSUME NEW l \in DOMAIN s, NEW m \in DOMAIN s, l < m
      PROVE  Rank(s[l]) < Rank(s[m])
  <2>1. s[l] \in ToSet(s) /\ s[m] \in ToSet(s)
    BY DEF ToSet
  <2>2. PICK i \in 1 .. Len(Misa) : Misa[i] = s[l]
    BY <1>1, <2>1 DEF Picks
  <2>3. PICK j \in 1 .. Len(Misa) : Misa[j] = s[m]
    BY <1>1, <2>1 DEF Picks
  <2>4. i < j
    <3>1. \A a, b \in 1 .. Len(Misa) : Misa[a] = s[l] /\ Misa[b] = s[m] => a < b
      BY <1>1, <1>2, MisaDistinct, Zenon DEF Picks
    <3> QED BY <2>2, <2>3, <3>1, Zenon
  <2>5. Rank(Misa[i]) = i /\ Rank(Misa[j]) = j
    BY RankIs
  <2> QED BY <2>2, <2>3, <2>4, <2>5
<1> HIDE DEF Rank
<1>3. Ordered(s)
  BY <1>2, Zenon DEF Ordered, Rank
<1> QED BY <1>3 DEF s

\* A base survives every pass: E unless I is there, which G brings.
LEMMA BaseSurvives ==
    ASSUME NEW X, NEW wide, {"i", "e", "g"} \cap X # {}
    PROVE  {"i", "e"} \cap normalize_extensions(X, wide) # {}
<1>1. normalize_extensions(X, wide) = (Opened(X) \ Lost(X)) \cup Won(Opened(X), wide)
  BY NormIs
<1>2. CASE "i" \in X \/ "g" \in X
  <2>1. "i" \in Opened(X)
    BY <1>2, OpenedBase
  <2> QED BY <1>1, <2>1 DEF Lost
<1>3. CASE "e" \in X /\ "i" \notin X
  <2>1. "e" \in Opened(X)
    BY <1>3, OpenedPlain DEF Plain
  <2> QED BY <1>1, <1>3, <2>1 DEF Lost
<1> QED BY <1>2, <1>3

LEMMA CreateAccepted ==
    ASSUME NEW X, NEW size \in Sizes, NEW wide, {"i", "e", "g"} \cap X # {}
    PROVE  Accepts(create_isa_string(X, size, wide))
<1> DEFINE made == create_isa_string(X, size, wide)
           norm == normalize_extensions(X, wide) \ Unwritten
<1>1. Writes(made, norm, size, wide)
  BY CreateWrites
<1>2. {"i", "e"} \subseteq ToSet(Misa) /\ {"i", "e"} \cap Unwritten = {}
  BY DEF ToSet, Misa, Unwritten, ReservedLetters, TranslationModes
<1>3. PICK b \in {"i", "e"} : b \in norm
  BY <1>2, BaseSurvives
<1>4. norm \cap ReservedLetters = {}
  BY DEF Unwritten
<1> HIDE DEF made, norm
<1>5. WellFormed(made)
  <2>1. Ordered(made.letters)
    BY <1>1, InOrderOrdered DEF Writes
  <2>2. ToSet(made.letters) \cap ReservedLetters = {}
    BY <1>1, <1>4 DEF Writes
  <2>3. ToSet(made.names) \subseteq ToSet(Multi)
    BY <1>1, WithinLists DEF Writes
  <2> QED BY <1>1, <2>1, <2>2, <2>3 DEF WellFormed, Writes
<1>6. b \in Listed(made) /\ b \in ToSet(made.letters)
  BY <1>1, <1>2, <1>3 DEF Writes
<1>7. ~ParsesPastEnd(made)
  BY <1>6 DEF ParsesPastEnd, ToSet
<1>8. {"i", "e"} \cap parse_isa_string(made) # {}
  <2>1. b \in Listed(made) \cap Extensions
    BY <1>2, <1>6 DEF Extensions
  <2> QED BY <2>1, BaseSurvives DEF parse_isa_string
<1>9. Accepts(made)
  BY <1>5, <1>7, <1>8 DEF Accepts
<1> QED BY <1>9 DEF made

-----------------------------------------------------------------------------
(* What a string keeps of a descriptor.                                    *)

LEMMA NormInLists ==
    ASSUME NEW X \in SUBSET Extensions, NEW wide
    PROVE  normalize_extensions(X, wide) \subseteq Extensions
<1>1. Opened(X) \subseteq Extensions
  BY OpenedHas, TableInLists
<1>2. "c" \in Extensions
  BY DEF Extensions, Misa, ToSet
<1> QED BY <1>1, <1>2, NormIs DEF Won

\* What strings do not hold makes no difference to them.
LEMMA CreateSame ==
    ASSUME NEW X, NEW Y, X \ Unwritten = Y \ Unwritten, NEW size, NEW wide
    PROVE  create_isa_string(X, size, wide) = create_isa_string(Y, size, wide)
<1>1. normalize_extensions(X, wide) \ Unwritten = normalize_extensions(Y, wide) \ Unwritten
  BY Carried
<1> QED BY <1>1 DEF create_isa_string

\* A composite that is a part comes before the whole in the list, so that
\* sizes which hold the whole hold the part.
LEMMA NestedWithin ==
    ASSUME NEW size \in Sizes, NEW j \in 1 .. 12, NEW k \in 1 .. 12,
           Composites[j].whole \in Composites[k].parts,
           Composites[k].whole \in ToSet(Misa) \cup Within(size)
    PROVE  Composites[j].whole \in Within(size)
<1> DEFINE part == Composites[j].whole
           whole == Composites[k].whole
           n == size.ZExtSize
<1>1. \/ whole = "zk" /\ part \in {"zkn", "zks"}
      \/ whole \in {"zvknc", "zvkng"} /\ part = "zvkn"
      \/ whole \in {"zvksc", "zvksg"} /\ part = "zvks"
  BY DEF Composites, Composite
<1>2. /\ Standard[35] = "zkn" /\ Standard[36] = "zks"
      /\ Standard[23] = "zvkn" /\ Standard[26] = "zvks"
  BY DEF Standard
<1>3. {"zk", "zvknc", "zvkng", "zvksc", "zvksg"} \cap (ToSet(Misa) \cup ToSet(Privileged) \cup ToSet(Custom)) = {}
  BY DEF ToSet, Misa, Privileged, Custom
<1>4. /\ n \in 0 .. 38
      /\ size.SExtSize \in 0 .. 15
      /\ size.XExtSize \in 0 .. 1
  BY Lists DEF Sizes
<1>5. PICK m \in 1 .. n : Standard[m] = whole
  <2>1. whole \notin ToSet(Misa) \cup ToSet(Privileged) \cup ToSet(Custom)
    BY <1>1, <1>3
  <2>2. \A h \in 1 .. size.SExtSize : Privileged[h] \in ToSet(Privileged)
    <3>1. \A h \in 1 .. size.SExtSize : h \in 1 .. 15
      BY <1>4
    <3> QED BY <3>1, Lists, Zenon DEF ToSet
  <2>3. \A h \in 1 .. size.XExtSize : Custom[h] \in ToSet(Custom)
    <3>1. \A h \in 1 .. size.XExtSize : h \in 1 .. 1
      BY <1>4
    <3> QED BY <3>1, Lists, Zenon DEF ToSet
  <2>4. \/ \E h \in 1 .. n : Standard[h] = whole
        \/ \E h \in 1 .. size.SExtSize : Privileged[h] = whole
        \/ \E h \in 1 .. size.XExtSize : Custom[h] = whole
    BY <2>1, WithinHas
  <2> QED BY <2>1, <2>2, <2>3, <2>4
<1> HIDE DEF part, whole, n
<1>6. \E h \in 1 .. n : Standard[h] = part
  <2>1. m \in 1 .. 38 /\ m <= n /\ n \in Nat
    BY <1>4, <1>5
  <2>2. CASE whole = "zk" /\ part \in {"zkn", "zks"}
    <3>1. m = 37
      <4>1. Standard[m] = "zk"
        BY <1>5, <2>2
      <4> QED BY <2>1, <4>1 DEF Standard
    <3>2. 35 \in 1 .. n /\ 36 \in 1 .. n
      BY <2>1, <3>1
    <3> QED BY <1>2, <2>2, <3>2
  <2>3. CASE whole \in {"zvknc", "zvkng"} /\ part = "zvkn"
    <3>1. m > 23
      <4>1. Standard[m] \in {"zvknc", "zvkng"}
        BY <1>5, <2>3
      <4> QED BY <2>1, <4>1 DEF Standard
    <3>2. 23 \in 1 .. n
      BY <2>1, <3>1
    <3> QED BY <1>2, <2>3, <3>2
  <2>4. CASE whole \in {"zvksc", "zvksg"} /\ part = "zvks"
    <3>1. m > 26
      <4>1. Standard[m] \in {"zvksc", "zvksg"}
        BY <1>5, <2>4
      <4> QED BY <2>1, <4>1 DEF Standard
    <3>2. 26 \in 1 .. n
      BY <2>1, <3>1
    <3> QED BY <1>2, <2>4, <3>2
  <2> QED BY <1>1, <2>2, <2>3, <2>4
<1> QED BY <1>6, WithinHas DEF part, n

\* What create_isa_string may write for these sizes, and that they part no
\* composite from its parts (Uncut, of any descriptor).
Known(size) == ToSet(Misa) \cup Within(size)
FitsIn(X, size) ==
    /\ Opened(Opened(X \cap Known(size))) \subseteq Known(size)
    /\ (X \ Known(size)) \cap (Wholes \cup {"zca", "zcf", "zcd"}) = {}

\* A string means what the descriptor meant that it is made of, unless the
\* sizes part a composite from its parts or something that a rule looks at is
\* set beyond them.
LEMMA CreateMeans ==
    ASSUME NEW X, NEW size \in Sizes, NEW wide, FitsIn(X, size)
    PROVE  Meaning(Listed(create_isa_string(X, size, wide)) \cap Extensions, wide)
             = Meaning(X \cap Known(size), wide)
<1> DEFINE K == Known(size)
           E == X \cap K
           R == X \ K
           O == Opened(E)
<1>1. Opened(O) \subseteq K /\ R \cap (Wholes \cup {"zca", "zcf", "zcd"}) = {}
  BY DEF FitsIn
<1>2. K = ToSet(Misa) \cup Within(size)
  BY DEF Known
<1> HIDE DEF K
<1>3. {"i", "e", "f", "d", "c"} \subseteq K
  BY <1>2 DEF ToSet, Misa
<1>4. K \subseteq Extensions
  BY <1>2, WithinLists DEF Extensions
<1>5. O \subseteq K
  <2>1. ASSUME NEW e \in O PROVE e \in K
    <3>1. CASE \A k \in 1 .. 12 : Composites[k].whole # e
      <4>1. e \in Opened(O)
        BY <3>1, OpenedHas
      <4> QED BY <1>1, <4>1
    <3>2. ASSUME NEW j \in 1 .. 12, Composites[j].whole = e PROVE e \in K
      <4>1. PICK k \in 1 .. 12 : Composites[k].whole \in E /\ e \in Composites[k].parts
        BY <3>2, OpenedHas
      <4> QED BY <1>2, <3>2, <4>1, NestedWithin
    <3> QED BY <3>1, <3>2
  <2> QED BY <2>1
<1>6. Opened(X) = O \cup R
  <2>1. NoWhole(R)
    BY <1>1, TableSize DEF NoWhole, Wholes
  <2>2. Opened(R) = R
    BY <2>1, OpenedNoWhole
  <2>3. X = E \cup R
    OBVIOUS
  <2> HIDE DEF E, R
  <2> QED BY <2>2, <2>3, OpenedUnion
<1>7. Lost(X) = Lost(E)
  BY <1>3 DEF Lost
<1>8. Won(Opened(X), wide) = Won(O, wide)
  <2>1. \A e \in {"zca", "zcf", "zcd", "f", "d"} : e \in Opened(X) <=> e \in O
    BY <1>1, <1>3, <1>6
  <2> HIDE DEF O
  <2> QED BY <2>1, WonOf
<1>9. normalize_extensions(X, wide) \cap K = normalize_extensions(E, wide)
  <2>1. normalize_extensions(X, wide) = ((O \cup R) \ Lost(E)) \cup Won(O, wide)
    BY <1>6, <1>7, <1>8, NormIs
  <2>2. normalize_extensions(E, wide) = (O \ Lost(E)) \cup Won(O, wide)
    BY NormIs
  <2>3. Won(O, wide) \subseteq K
    BY <1>3 DEF Won
  <2>4. R \cap K = {}
    OBVIOUS
  <2> HIDE DEF O, R, E
  <2> QED BY <1>5, <2>1, <2>2, <2>3, <2>4
<1>10. Listed(create_isa_string(X, size, wide)) = (normalize_extensions(X, wide) \ Unwritten) \cap K
  BY <1>2, CreateLists
<1>11. Listed(create_isa_string(X, size, wide)) \cap Extensions
         = normalize_extensions(E, wide) \ Unwritten
  <2> DEFINE whole == normalize_extensions(X, wide)
             known == normalize_extensions(E, wide)
  <2> HIDE DEF whole, known, E
  <2>1. whole \cap K = known /\ K \subseteq Extensions
    BY <1>4, <1>9 DEF whole, known
  <2>2. ((whole \ Unwritten) \cap K) \cap Extensions = known \ Unwritten
    BY <2>1
  <2> QED BY <1>10, <2>2 DEF whole, known
<1> HIDE DEF E
<1>12. Meaning(normalize_extensions(E, wide) \ Unwritten, wide) = Meaning(E, wide)
  <2> DEFINE N == normalize_extensions(E, wide)
             M == N \ Unwritten
  <2>1. Meaning(N, wide) = Meaning(E, wide)
    BY NormMeans
  <2> HIDE DEF N
  <2>2. M \ Unwritten = N \ Unwritten
    OBVIOUS
  <2> HIDE DEF M
  <2>3. Meaning(M, wide) = Meaning(N, wide)
    BY <2>2, Carried
  <2> QED BY <2>1, <2>3 DEF M, N
<1>13. Meaning(Listed(create_isa_string(X, size, wide)) \cap Extensions, wide) = Meaning(E, wide)
  BY <1>11, <1>12, Zenon
<1> QED BY <1>13 DEF E, K

\* A string that is made of what one pass leaves is made again of what it is
\* parsed into.
LEMMA CreateSettles ==
    ASSUME NEW L \in SUBSET Extensions, NEW wide, NEW X, NEW made,
           made = create_isa_string(normalize_extensions(L, wide), InitSizes, wide),
           X \ Unwritten = normalize_extensions(Listed(made) \cap Extensions, wide) \ Unwritten
    PROVE  create_isa_string(X, InitSizes, wide) = made
<1> DEFINE N == normalize_extensions(L, wide)
           M == normalize_extensions(N, wide)
<1>1. M \subseteq Extensions
  BY NormInLists
<1>2. normalize_extensions(M, wide) = M
  BY TwoPasses
<1>3. Listed(made) = (M \ Unwritten) \cap Extensions
  <2>1. InitSizes \in Sizes /\ Extensions = ToSet(Misa) \cup Within(InitSizes)
    BY WithinLists DEF Extensions
  <2> QED BY <2>1, CreateLists
<1>4. Listed(made) \cap Extensions = M \ Unwritten
  BY <1>1, <1>3
<1>5. normalize_extensions(M \ Unwritten, wide) = M \ Unwritten
  BY <1>2, Carried
<1> HIDE DEF M
<1>6. X \ Unwritten = M \ Unwritten
  BY <1>4, <1>5
<1>7. create_isa_string(X, InitSizes, wide) = create_isa_string(M, InitSizes, wide)
  BY <1>6, CreateSame
<1>8. create_isa_string(M, InitSizes, wide) = create_isa_string(N, InitSizes, wide)
  BY <1>2 DEF create_isa_string, M
<1> QED BY <1>7, <1>8
=============================================================================
