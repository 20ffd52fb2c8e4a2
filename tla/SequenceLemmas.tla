---------------------------- MODULE SequenceLemmas ----------------------------
(***************************************************************************)
(* Induction over the natural numbers, stated with sets, and which         *)
(* elements a sequence has after Append, Tail, RemoveAt and RemoveFirst,   *)
(* or after a pass that collects what has a property into another one      *)
(* (FiltersFrom).                                                          *)
(***************************************************************************)
EXTENDS SequencesExt, WellFoundedInduction, SequenceTheorems, TLAPS

\* A nonempty set of natural numbers has a smallest member, which Min returns.
LEMMA SmallestMember ==
  ASSUME NEW I \in SUBSET Nat, I # {}
  PROVE  Min(I) \in I /\ \A i \in I : Min(I) <= i
<1>1. \A x, y \in Nat : <<y, x>> \in OpToRel(<, Nat) <=> y < x
  BY DEF OpToRel
<1>2. PICK m \in I : \A i \in I : <<i, m>> \notin OpToRel(<, Nat)
  BY NatLessThanWellFounded, WFMin
<1>3. \A i \in I : ~ (i < m)
  BY <1>1, <1>2
<1>4. \A i \in I : m <= i
  BY <1>3
<1>. QED
  BY <1>4 DEF Min

\* A nonempty set of positions has a last one, which Max returns.
LEMMA LastPosition ==
  ASSUME NEW n \in Nat, NEW I \in SUBSET (1 .. n), I # {}
  PROVE  \E i \in I : \A j \in I : j <= i
<1>. DEFINE D == {n - i : i \in I}
<1>1. D \in SUBSET Nat /\ D # {}
  <2>1. \A i \in I : n - i \in Nat
    OBVIOUS
  <2>. QED
    BY <2>1
<1>2. PICK d \in D : \A e \in D : d <= e
  <2>. HIDE DEF D
  <2>. QED
    BY <1>1, SmallestMember
<1>3. PICK i \in I : d = n - i
  OBVIOUS
<1>4. \A j \in I : n - i <= n - j
  BY <1>2, <1>3
<1>. QED
  BY <1>4

LEMMA LastOfPositions ==
  ASSUME NEW n \in Nat, NEW I \in SUBSET (1 .. n), I # {}
  PROVE  /\ Max(I) \in I /\ \A i \in I : i <= Max(I)
         /\ n \in I => Max(I) = n
<1>1. \E i \in I : \A j \in I : i >= j
  <2>1. PICK i \in I : \A j \in I : j <= i
    BY LastPosition
  <2>2. \A j \in I : i >= j
    BY <2>1
  <2>. QED
    BY <2>2
<1>2. PICK m \in I : m = Max(I) /\ \A j \in I : m >= j
  BY <1>1 DEF Max
<1>3. \A i \in I : i \in Nat /\ i <= n
  OBVIOUS
<1>4. (\A i \in I : i <= m) /\ (n \in I => m = n)
  BY <1>2, <1>3
<1>. QED
  BY <1>2, <1>4

\* A set that has 0 and the successor of each of its members has every number.
LEMMA NumberInduction ==
  ASSUME NEW S, 0 \in S, \A n \in S \cap Nat : n + 1 \in S
  PROVE  Nat \subseteq S
<1>. DEFINE I == Nat \ S
<1>. SUFFICES ASSUME I # {} PROVE FALSE
  OBVIOUS
<1>1. PICK m \in I : \A i \in I : m <= i
  BY SmallestMember
<1>2. m \in Nat \ {0}
  OBVIOUS
<1>3. PICK n \in Nat : m = n + 1
  BY <1>2
<1>4. n \in S
  BY <1>1, <1>3
<1>. QED
  BY <1>3, <1>4

\* An interval with one more number.
LEMMA OneMoreNumber ==
  ASSUME NEW c \in Nat, NEW m \in Nat
  PROVE  /\ c .. c + (m + 1) = (c .. c + m) \cup {c + (m + 1)}
         /\ c + 1 .. c + (m + 1) = (c + 1 .. c + m) \cup {c + (m + 1)}
OBVIOUS

\* The elements of a sequence with one more element.
LEMMA AppendElements ==
  ASSUME NEW S, NEW s \in Seq(S), NEW e \in S
  PROVE  Append(s, e) \in Seq(S) /\ ToSet(Append(s, e)) = ToSet(s) \cup {e}
<1>1. /\ Append(s, e) \in Seq(S) /\ Len(Append(s, e)) = Len(s) + 1
      /\ \A i \in 1 .. Len(s) : Append(s, e)[i] = s[i]
      /\ Append(s, e)[Len(s) + 1] = e
  BY AppendProperties
<1>2. Len(s) \in Nat /\ DOMAIN s = 1 .. Len(s)
  BY LenProperties
<1>3. DOMAIN Append(s, e) = 1 .. Len(s) + 1
  BY <1>1, LenProperties
<1>4. 1 .. Len(s) + 1 = (1 .. Len(s)) \cup {Len(s) + 1}
  BY <1>2
<1>. QED
  BY <1>1, <1>2, <1>3, <1>4 DEF ToSet

\* The elements of a nonempty sequence are its head and those of its tail.
LEMMA HeadTailElements ==
  ASSUME NEW S, NEW s \in Seq(S), s # <<>>
  PROVE  ToSet(s) = {Head(s)} \cup ToSet(Tail(s))
<1>1. Len(s) \in Nat \ {0} /\ DOMAIN s = 1 .. Len(s)
  BY EmptySeq, LenProperties
<1>2. /\ Len(Tail(s)) = Len(s) - 1 /\ DOMAIN Tail(s) = 1 .. Len(s) - 1
      /\ \A i \in 1 .. Len(s) - 1 : Tail(s)[i] = s[i + 1]
      /\ Head(s) = s[1]
  BY <1>1, HeadTailProperties, LenProperties
<1>3. \A i \in 1 .. Len(s) : i = 1 \/ (i - 1 \in 1 .. Len(s) - 1 /\ (i - 1) + 1 = i)
  BY <1>1
<1>4. \A i \in 1 .. Len(s) - 1 : i + 1 \in 1 .. Len(s)
  BY <1>1
<1>5. ASSUME NEW i \in 1 .. Len(s), i # 1
      PROVE  s[i] = Tail(s)[i - 1]
  BY <1>2, <1>3, <1>5
<1>6. \A i \in 1 .. Len(s) : s[i] = Head(s) \/ s[i] \in ToSet(Tail(s))
  BY <1>2, <1>3, <1>5 DEF ToSet
<1>7. \A i \in 1 .. Len(s) - 1 : Tail(s)[i] \in ToSet(s)
  BY <1>1, <1>2, <1>4 DEF ToSet
<1>8. Head(s) \in ToSet(s)
  BY <1>1, <1>2 DEF ToSet
<1>. QED
  BY <1>1, <1>2, <1>6, <1>7, <1>8 DEF ToSet

\* A sequence and the rest of it: moving the next element over, none left to move.
LEMMA MoveElement ==
  ASSUME NEW S, NEW s \in Seq(S), NEW t \in Seq(S), t # <<>>
  PROVE  Append(s, Head(t)) \o Tail(t) = s \o t
<1>1. Head(t) \in S /\ Tail(t) \in Seq(S)
  BY HeadTailProperties
<1>2. Append(s, Head(t)) = s \o <<Head(t)>> /\ <<Head(t)>> \in Seq(S)
  BY <1>1, AppendIsConcat
<1>3. <<Head(t)>> \o Tail(t) = t
  <2>. DEFINE u == <<Head(t)>> \o Tail(t)
  <2>1. Len(t) \in Nat \ {0} /\ DOMAIN t = 1 .. Len(t) /\ Head(t) = t[1]
    BY EmptySeq, LenProperties
  <2>2. Len(Tail(t)) = Len(t) - 1 /\ \A i \in 1 .. Len(t) - 1 : Tail(t)[i] = t[i + 1]
    BY HeadTailProperties
  <2>3. Len(<<Head(t)>>) = 1 /\ <<Head(t)>>[1] = t[1]
    BY <2>1
  <2>4. /\ u \in Seq(S) /\ Len(u) = Len(t)
        /\ \A i \in 1 .. Len(t) : u[i] = IF i <= 1 THEN t[1] ELSE Tail(t)[i - 1]
    BY <1>1, <1>2, <2>1, <2>2, <2>3, ConcatProperties
  <2>5. \A i \in 1 .. Len(t) : i <= 1 => i = 1
    BY <2>1
  <2>6. \A i \in 1 .. Len(t) : ~(i <= 1) => i - 1 \in 1 .. Len(t) - 1 /\ (i - 1) + 1 = i
    BY <2>1
  <2>7. \A i \in 1 .. Len(t) : u[i] = t[i]
    BY <2>2, <2>4, <2>5, <2>6
  <2>. QED
    BY <2>4, <2>7, SeqEqual
<1>. QED
  BY <1>1, <1>2, <1>3, ConcatAssociative

-----------------------------------------------------------------------------
\* f[i] is the sequence start, and behind it those of the members c + 1 .. i of
\* the sequence order that are in P.
FilterStep(f, i, c, start, order, P) ==
  IF i = c THEN start
  ELSE IF order[i] \in P THEN Append(f[i - 1], order[i])
  ELSE f[i - 1]
FiltersFrom(f, c, n, start, order, P) ==
  f = [i \in c .. n |-> FilterStep(f, i, c, start, order, P)]
Hits(order, c, n, P) == {order[i] : i \in {i \in c + 1 .. n : order[i] \in P}}

LEMMA FilterExistsUpTo ==
  ASSUME NEW c \in Nat, NEW start, NEW order, NEW P, NEW d \in Nat
  PROVE  \E f : FiltersFrom(f, c, c + d, start, order, P)
<1>. DEFINE Step(f, i) == FilterStep(f, i, c, start, order, P)
            Defined == {m \in Nat : \E f : f = [i \in c .. c + m |-> Step(f, i)]}
<1>1. 0 \in Defined
  <2>. DEFINE f == [i \in c .. c + 0 |-> start]
  <2>1. f = [i \in c .. c + 0 |-> Step(f, i)]
    BY DEF FilterStep
  <2>. HIDE DEF f, Step
  <2>. QED
    BY <2>1
<1>2. ASSUME NEW m \in Nat, NEW f, f = [i \in c .. c + m |-> Step(f, i)]
      PROVE  \E g : g = [i \in c .. c + (m + 1) |-> Step(g, i)]
  <2>. DEFINE g == [i \in c .. c + (m + 1) |-> IF i = c + (m + 1) THEN Step(f, i) ELSE f[i]]
  <2>1. \A i \in c .. c + m : g[i] = f[i] /\ f[i] = Step(f, i)
    <3>. HIDE DEF Step
    <3>. QED
      BY <1>2
  <2>2. ASSUME NEW i \in c .. c + (m + 1)
        PROVE  g[i] = Step(g, i)
    <3>1. i = c + (m + 1) \/ i \in c .. c + m
      BY OneMoreNumber
    <3>2. g[i] = Step(f, i)
      <4>. HIDE DEF Step
      <4>. QED
        BY <2>1, <3>1
    <3>3. i # c => g[i - 1] = f[i - 1]
      <4>1. i # c => i - 1 \in c .. c + m
        OBVIOUS
      <4>. HIDE DEF g
      <4>. QED
        BY <2>1, <4>1
    <3>. HIDE DEF g
    <3>. QED
      BY <3>2, <3>3 DEF FilterStep
  <2>3. g = [i \in c .. c + (m + 1) |-> g[i]]
    OBVIOUS
  <2>. HIDE DEF g, Step
  <2>. QED
    BY <2>2, <2>3
<1>3. \A m \in Defined \cap Nat : m + 1 \in Defined
  <2>. HIDE DEF Step
  <2>. QED
    BY <1>2
<1>4. d \in Defined
  <2>. HIDE DEF Defined
  <2>. QED
    BY <1>1, <1>3, NumberInduction
<1>. QED
  BY <1>4 DEF FiltersFrom

\* There is such a function,
LEMMA FilterExists ==
  ASSUME NEW order, NEW P, NEW start, NEW c \in Nat, NEW n \in Nat, c <= n
  PROVE  LET f == CHOOSE f : FiltersFrom(f, c, n, start, order, P)
         IN  FiltersFrom(f, c, n, start, order, P)
<1>. DEFINE d == n - c
<1>1. d \in Nat /\ n = c + d
  OBVIOUS
<1>. HIDE DEF d
<1>2. \E f : FiltersFrom(f, c, c + d, start, order, P)
  BY <1>1, FilterExistsUpTo
<1>. QED
  BY <1>1, <1>2

\* and it does what its description says.
LEMMA FilterElements ==
  ASSUME NEW S, NEW order \in Seq(S), NEW P, NEW start \in Seq(S),
         NEW c \in Nat, NEW n \in c .. Len(order), NEW f,
         FiltersFrom(f, c, n, start, order, P)
  PROVE  f[n] \in Seq(S) /\ ToSet(f[n]) = ToSet(start) \cup Hits(order, c, n, P)
<1>. DEFINE RightAt(m) == /\ f[m] \in Seq(S)
                          /\ ToSet(f[m]) = ToSet(start) \cup Hits(order, c, m, P)
            Right == {m \in Nat : c + m <= n => RightAt(c + m)}
<1>1. Len(order) \in Nat /\ n \in Nat /\ \A i \in 1 .. Len(order) : order[i] \in S
  BY LenProperties
<1>2. \A i \in c .. n : f[i] = FilterStep(f, i, c, start, order, P)
  BY DEF FiltersFrom
<1>3. 0 \in Right
  <2>1. f[c] = start
    BY <1>1, <1>2 DEF FilterStep
  <2>2. Hits(order, c, c, P) = {}
    BY DEF Hits
  <2>. QED
    BY <2>1, <2>2
<1>4. ASSUME NEW m \in Nat, c + (m + 1) <= n, RightAt(c + m)
      PROVE  RightAt(c + (m + 1))
  <2>. DEFINE e == order[c + (m + 1)]
  <2>1. /\ c + (m + 1) \in c .. n /\ c + (m + 1) # c
        /\ c + (m + 1) - 1 = c + m /\ c + (m + 1) \in 1 .. Len(order)
    BY <1>1, <1>4
  <2>2. f[c + (m + 1)] = IF e \in P THEN Append(f[c + m], e) ELSE f[c + m]
    BY <1>2, <2>1 DEF FilterStep
  <2>3. Hits(order, c, c + (m + 1), P)
        = Hits(order, c, c + m, P) \cup (IF e \in P THEN {e} ELSE {})
    BY OneMoreNumber DEF Hits
  <2>4. e \in S
    BY <1>1, <2>1
  <2>. HIDE DEF e
  <2>. QED
    BY <1>4, <2>2, <2>3, <2>4, AppendElements
<1>5. \A m \in Right \cap Nat : m + 1 \in Right
  <2>. HIDE DEF RightAt
  <2>1. \A m \in Nat : c + (m + 1) <= n => c + m <= n
    BY <1>1
  <2>. QED
    BY <1>4, <2>1
<1>6. n - c \in Nat /\ c + (n - c) = n
  BY <1>1
<1>7. n - c \in Right
  <2>. HIDE DEF Right
  <2>. QED
    BY <1>3, <1>5, <1>6, NumberInduction
<1>8. RightAt(c + (n - c))
  <2>. HIDE DEF RightAt
  <2>. QED
    BY <1>1, <1>6, <1>7
<1>. QED
  BY <1>6, <1>8

\* One more element to go over, and the sequence grows by it or stays.
LEMMA FilterGrows ==
  ASSUME NEW n \in Nat, NEW start, NEW P, NEW order, NEW longer,
         \A i \in 1 .. n : longer[i] = order[i],
         NEW f, FiltersFrom(f, 0, n, start, order, P),
         NEW g, FiltersFrom(g, 0, n + 1, start, longer, P)
  PROVE  g[n + 1] = IF longer[n + 1] \in P THEN Append(f[n], longer[n + 1]) ELSE f[n]
<1>. DEFINE Same == {m \in Nat : m <= n => g[m] = f[m]}
<1>1. /\ \A i \in 0 .. n : f[i] = FilterStep(f, i, 0, start, order, P)
      /\ \A i \in 0 .. n + 1 : g[i] = FilterStep(g, i, 0, start, longer, P)
  BY DEF FiltersFrom
<1>2. 0 \in Same
  BY <1>1 DEF FilterStep
<1>3. ASSUME NEW m \in Nat, m <= n => g[m] = f[m], m + 1 <= n
      PROVE  g[m + 1] = f[m + 1]
  <2>1. /\ m + 1 \in 0 .. n /\ m + 1 \in 0 .. n + 1 /\ m + 1 \in 1 .. n
        /\ m + 1 # 0 /\ (m + 1) - 1 = m /\ m <= n
    BY <1>3
  <2>. QED
    BY <1>1, <1>3, <2>1 DEF FilterStep
<1>4. \A m \in Same \cap Nat : m + 1 \in Same
  BY <1>3
<1>5. n \in Same
  <2>. HIDE DEF Same
  <2>. QED
    BY <1>2, <1>4, NumberInduction
<1>6. g[n] = f[n]
  BY <1>5
<1>7. n + 1 \in 0 .. n + 1 /\ n + 1 # 0 /\ (n + 1) - 1 = n
  OBVIOUS
<1>. QED
  BY <1>1, <1>6, <1>7 DEF FilterStep

-----------------------------------------------------------------------------
\* Removing the element at a position leaves a sequence over the same set.
LEMMA RemoveAtType ==
  ASSUME NEW S, NEW s \in Seq(S), NEW i \in DOMAIN s
  PROVE  RemoveAt(s, i) \in Seq(S)
<1>1. i \in 1 .. Len(s)
  BY LenProperties
<1>2. SubSeq(s, 1, i - 1) \in Seq(S) /\ SubSeq(s, i + 1, Len(s)) \in Seq(S)
  BY <1>1, LenProperties, SubSeqProperties
<1>. QED
  BY <1>2, ConcatProperties DEF RemoveAt

\* RemoveFirst removes one element equal to the one it is given, or none.
LEMMA RemoveFirstRemovesOne ==
  ASSUME NEW S, NEW s \in Seq(S), NEW e
  PROVE  \/ RemoveFirst(s, e) = s
         \/ \E i \in DOMAIN s : s[i] = e /\ RemoveFirst(s, e) = RemoveAt(s, i)
<1>1. CASE \E i \in 1 .. Len(s) : s[i] = e
  <2>. DEFINE I == {i \in 1 .. Len(s) : s[i] = e}
  <2>1. I \in SUBSET Nat /\ I # {}
    BY <1>1, LenProperties
  <2>2. Min(I) \in I
    <3>. HIDE DEF I
    <3>. QED BY <2>1, SmallestMember
  <2>3. SelectInSeq(s, LAMBDA v : v = e) = Min(I)
    BY <2>1 DEF SelectInSeq
  <2>4. RemoveFirst(s, e) = RemoveAt(s, Min(I))
    BY <1>1, <2>3 DEF RemoveFirst
  <2>5. DOMAIN s = 1 .. Len(s)
    BY LenProperties
  <2>. QED
    BY <2>2, <2>4, <2>5
<1>2. CASE ~ \E i \in 1 .. Len(s) : s[i] = e
  BY <1>2 DEF RemoveFirst
<1>. QED
  BY <1>1, <1>2
-----------------------------------------------------------------------------
\* No element occurs twice.
Distinct(s) == \A i, j \in DOMAIN s : s[i] = s[j] => i = j

\* A new element keeps a sequence free of repetitions.
LEMMA AppendDistinct ==
  ASSUME NEW S, NEW s \in Seq(S), NEW e \in S, Distinct(s), e \notin ToSet(s)
  PROVE  Distinct(Append(s, e))
<1>1. /\ Append(s, e) \in Seq(S) /\ Len(Append(s, e)) = Len(s) + 1
      /\ \A i \in 1 .. Len(s) : Append(s, e)[i] = s[i]
      /\ Append(s, e)[Len(s) + 1] = e
  BY AppendProperties
<1>2. DOMAIN s = 1 .. Len(s) /\ DOMAIN Append(s, e) = 1 .. Len(s) + 1 /\ Len(s) \in Nat
  BY <1>1, LenProperties
<1>3. \A i \in 1 .. Len(s) : s[i] # e
  BY <1>2 DEF ToSet
<1>. QED
  BY <1>1, <1>2, <1>3 DEF Distinct

\* What is left of a sequence from which one position is removed.
LEMMA RemoveAtLeaves ==
  ASSUME NEW S, NEW s \in Seq(S), NEW i \in 1 .. Len(s)
  PROVE  /\ Len(RemoveAt(s, i)) = Len(s) - 1
         /\ \A j \in 1 .. Len(s) - 1 :
              RemoveAt(s, i)[j] = s[IF j < i THEN j ELSE j + 1]
<1>. DEFINE a == SubSeq(s, 1, i - 1)
            b == SubSeq(s, i + 1, Len(s))
<1>1. Len(s) \in Nat
  BY LenProperties
<1>2. /\ a \in Seq(S) /\ Len(a) = i - 1
      /\ \A j \in 1 .. i - 1 : a[j] = s[j]
  <2>1. 1 \in 1 .. Len(s) + 1 /\ i - 1 \in 1 - 1 .. Len(s)
    BY <1>1
  <2>2. /\ a \in Seq(S)
        /\ Len(a) = IF 1 <= i - 1 THEN i - 1 - 1 + 1 ELSE 0
        /\ \A j \in 1 .. i - 1 - 1 + 1 : a[j] = s[1 + j - 1]
    BY <1>1, <2>1, SubSeqProperties
  <2>3. i - 1 - 1 + 1 = i - 1 /\ \A j \in 1 .. i - 1 : 1 + j - 1 = j
    BY <1>1
  <2>. HIDE DEF a
  <2>. QED
    BY <1>1, <2>2, <2>3
<1>3. /\ b \in Seq(S) /\ Len(b) = Len(s) - i
      /\ \A j \in 1 .. Len(s) - i : b[j] = s[i + j]
  <2>1. i + 1 \in 1 .. Len(s) + 1 /\ Len(s) \in (i + 1) - 1 .. Len(s)
    BY <1>1
  <2>2. /\ b \in Seq(S)
        /\ Len(b) = IF i + 1 <= Len(s) THEN Len(s) - (i + 1) + 1 ELSE 0
        /\ \A j \in 1 .. Len(s) - (i + 1) + 1 : b[j] = s[i + 1 + j - 1]
    BY <1>1, <2>1, SubSeqProperties
  <2>3. Len(s) - (i + 1) + 1 = Len(s) - i
    BY <1>1
  <2>. HIDE DEF b
  <2>4. Len(b) = Len(s) - i
    BY <1>1, <2>2
  <2>5. ASSUME NEW j \in 1 .. Len(s) - i
        PROVE  b[j] = s[i + j]
    <3>1. i + 1 + j - 1 = i + j
      BY <1>1
    <3>2. b[j] = s[i + 1 + j - 1]
      BY <2>2, <2>3
    <3>. QED
      BY <3>1, <3>2
  <2>. QED
    BY <2>2, <2>4, <2>5
<1>4. RemoveAt(s, i) = a \o b
  BY DEF RemoveAt
<1>. HIDE DEF a, b
<1>5. /\ Len(a \o b) = Len(a) + Len(b)
      /\ \A j \in 1 .. Len(a) + Len(b) :
           (a \o b)[j] = IF j <= Len(a) THEN a[j] ELSE b[j - Len(a)]
  BY <1>2, <1>3, ConcatProperties
<1>6. Len(a) + Len(b) = Len(s) - 1
  BY <1>1, <1>2, <1>3
<1>7. ASSUME NEW j \in 1 .. Len(s) - 1
      PROVE  (a \o b)[j] = s[IF j < i THEN j ELSE j + 1]
  <2>1. CASE j < i
    BY <1>1, <1>2, <1>5, <1>6, <2>1
  <2>2. CASE ~ (j < i)
    <3>1. ~ (j <= Len(a)) /\ j - Len(a) \in 1 .. Len(s) - i /\ i + (j - Len(a)) = j + 1
      BY <1>1, <1>2, <2>2
    <3>. QED
      BY <1>3, <1>5, <1>6, <2>2, <3>1
  <2>. QED
    BY <2>1, <2>2
<1>. QED
  BY <1>4, <1>5, <1>6, <1>7

\* Without repetitions, it is the other elements, still without repetitions.
LEMMA RemoveAtElements ==
  ASSUME NEW S, NEW s \in Seq(S), NEW i \in DOMAIN s, Distinct(s)
  PROVE  /\ Distinct(RemoveAt(s, i))
         /\ ToSet(RemoveAt(s, i)) = ToSet(s) \ {s[i]}
<1>. DEFINE t == RemoveAt(s, i)
            at(j) == IF j < i THEN j ELSE j + 1
<1>1. Len(s) \in Nat /\ DOMAIN s = 1 .. Len(s) /\ i \in 1 .. Len(s)
  BY LenProperties
<1>2. Len(t) = Len(s) - 1 /\ \A j \in 1 .. Len(s) - 1 : t[j] = s[at(j)]
  BY <1>1, RemoveAtLeaves
<1>3. DOMAIN t = 1 .. Len(s) - 1
  <2>1. t \in Seq(S)
    BY RemoveAtType
  <2>. QED
    BY <1>2, <2>1, LenProperties
<1>4. \A j \in 1 .. Len(s) - 1 : at(j) \in DOMAIN s \ {i}
  BY <1>1
<1>5. \A j, k \in 1 .. Len(s) - 1 : at(j) = at(k) => j = k
  BY <1>1
<1>6. \A m \in DOMAIN s \ {i} : \E j \in 1 .. Len(s) - 1 : at(j) = m
  <2>. TAKE m \in DOMAIN s \ {i}
  <2>1. CASE m < i
    <3>1. m \in 1 .. Len(s) - 1 /\ at(m) = m
      BY <1>1, <2>1
    <3>. QED
      BY <3>1
  <2>2. CASE ~ (m < i)
    <3>1. m - 1 \in 1 .. Len(s) - 1 /\ at(m - 1) = m
      BY <1>1, <2>2
    <3>. QED
      BY <3>1
  <2>. QED
    BY <2>1, <2>2
<1>. HIDE DEF t, at
<1>7. Distinct(t)
  BY <1>2, <1>3, <1>4, <1>5 DEF Distinct
<1>8. \A e \in ToSet(t) : e \in ToSet(s) \ {s[i]}
  BY <1>2, <1>3, <1>4 DEF Distinct, ToSet
<1>9. ASSUME NEW e \in ToSet(s) \ {s[i]}
      PROVE  e \in ToSet(t)
  <2>1. PICK m \in DOMAIN s \ {i} : e = s[m]
    BY DEF ToSet
  <2>2. PICK j \in 1 .. Len(s) - 1 : at(j) = m
    BY <1>6
  <2>. QED
    BY <1>2, <1>3, <2>1, <2>2 DEF ToSet
<1>. QED
  BY <1>7, <1>8, <1>9 DEF t

\* So RemoveFirst takes its argument out of a sequence without repetitions.
LEMMA RemoveFirstElements ==
  ASSUME NEW S, NEW s \in Seq(S), NEW e, Distinct(s)
  PROVE  /\ RemoveFirst(s, e) \in Seq(S) /\ Distinct(RemoveFirst(s, e))
         /\ ToSet(RemoveFirst(s, e)) = ToSet(s) \ {e}
<1>1. CASE e \in ToSet(s)
  <2>. DEFINE I == {i \in 1 .. Len(s) : s[i] = e}
  <2>1. DOMAIN s = 1 .. Len(s)
    BY LenProperties
  <2>2. I \in SUBSET Nat /\ I # {}
    BY <1>1, <2>1, LenProperties DEF ToSet
  <2>3. Min(I) \in I
    <3>. HIDE DEF I
    <3>. QED BY <2>2, SmallestMember
  <2>4. SelectInSeq(s, LAMBDA v : v = e) = Min(I)
    BY <2>2 DEF SelectInSeq
  <2>5. RemoveFirst(s, e) = RemoveAt(s, Min(I))
    BY <2>2, <2>4 DEF RemoveFirst
  <2>6. PICK m \in DOMAIN s : s[m] = e /\ RemoveFirst(s, e) = RemoveAt(s, m)
    BY <2>1, <2>3, <2>5
  <2>. HIDE DEF I
  <2>. QED
    BY <2>6, RemoveAtElements, RemoveAtType
<1>2. CASE e \notin ToSet(s)
  <2>1. RemoveFirst(s, e) = s
    BY <1>2, LenProperties DEF ToSet, RemoveFirst
  <2>. QED
    BY <1>2, <2>1
<1>. QED
  BY <1>1, <1>2

\* RemoveFirst takes out the first of several equal elements.
LEMMA RemoveFirstIs ==
  ASSUME NEW S, NEW s \in Seq(S), NEW i \in DOMAIN s, \A j \in 1 .. i - 1 : s[j] # s[i]
  PROVE  RemoveFirst(s, s[i]) = RemoveAt(s, i)
<1>. DEFINE I == {j \in 1 .. Len(s) : s[j] = s[i]}
<1>1. Len(s) \in Nat /\ i \in 1 .. Len(s)
  BY LenProperties
<1>2. I \in SUBSET Nat /\ i \in I /\ \A j \in I : i <= j
  BY <1>1
<1>3. Min(I) = i
  <2>. HIDE DEF I
  <2>1. Min(I) \in I /\ Min(I) <= i
    BY <1>2, SmallestMember
  <2>2. i <= Min(I) /\ Min(I) \in Nat /\ i \in Nat
    BY <1>2, <2>1
  <2>. QED
    BY <2>1, <2>2
<1>4. SelectInSeq(s, LAMBDA v : v = s[i]) = Min(I)
  BY <1>2 DEF SelectInSeq
<1>. QED
  BY <1>1, <1>3, <1>4 DEF RemoveFirst
=============================================================================
