--------------------------- MODULE SequenceLemmas ---------------------------
(***************************************************************************)
(* The lemmas the other proofs share: induction over the naturals, in a    *)
(* form the provers can use (a set instead of a predicate), and what       *)
(* flattening and filtering do to the members of a sequence.               *)
(***************************************************************************)
EXTENDS Sequencing, TLAPS, NaturalsInduction, WellFoundedInduction

LEMMA SetInduction ==
  ASSUME NEW P, 0 \in P, \A n \in Nat : n \in P => n + 1 \in P
  PROVE  Nat \subseteq P
<1> SUFFICES ASSUME NEW m \in Nat, m \notin P PROVE FALSE
  OBVIOUS
<1> DEFINE T == {n \in Nat : n \notin P}
<1>1. T \subseteq Nat /\ T # {}
  OBVIOUS
<1> HIDE DEF T
<1>2. PICK i \in T : \A j \in T : ~(<<j, i>> \in OpToRel(<, Nat))
  BY <1>1, NatLessThanWellFounded, WFMin
<1>3. \A j \in T : ~(j < i)
  BY <1>1, <1>2 DEF OpToRel
<1>4. i \in Nat /\ i # 0
  BY <1>1 DEF T
<1>5. i - 1 \in Nat /\ i - 1 < i /\ (i - 1) + 1 = i
  BY <1>4
<1>6. i - 1 \in P
  BY <1>3, <1>5 DEF T
<1> QED
  BY <1>2, <1>5, <1>6 DEF T

-----------------------------------------------------------------------------
(* The members of a sequence.                                              *)

LEMMA Concatenated ==
  ASSUME NEW a, NEW b, IsSeq(a), IsSeq(b)
  PROVE  IsSeq(a \o b) /\ Range(a \o b) = Range(a) \cup Range(b)
<1> DEFINE A == Range(a)
<1> DEFINE B == Range(b)
<1>1. a \in Seq(A \cup B) /\ b \in Seq(A \cup B)
  BY DEF IsSeq
<1>2. /\ a \o b \in Seq(A \cup B) /\ Len(a) \in Nat /\ Len(b) \in Nat
      /\ DOMAIN a = 1..Len(a) /\ DOMAIN b = 1..Len(b)
      /\ DOMAIN (a \o b) = 1..(Len(a) + Len(b)) /\ Len(a \o b) = Len(a) + Len(b)
      /\ \A i \in 1..(Len(a) + Len(b)) : (a \o b)[i] = IF i <= Len(a) THEN a[i] ELSE b[i - Len(a)]
  BY <1>1
<1>3. Range(a \o b) \subseteq A \cup B
  BY <1>1, <1>2 DEF Range
<1>4. ASSUME NEW i \in DOMAIN a PROVE a[i] \in Range(a \o b)
  BY <1>2, <1>4 DEF Range
<1>5. ASSUME NEW i \in DOMAIN b PROVE b[i] \in Range(a \o b)
  <2>1. i + Len(a) \in DOMAIN (a \o b) /\ (a \o b)[i + Len(a)] = b[i]
    BY <1>2, <1>5
  <2> QED
    BY <2>1 DEF Range
<1>6. Range(a \o b) = A \cup B
  BY <1>3, <1>4, <1>5 DEF Range
<1> HIDE DEF A, B
<1>7. IsSeq(a \o b)
  BY <1>2, <1>6 DEF IsSeq
<1> QED
  BY <1>6, <1>7 DEF A, B

FlatTo(ss, f, i) == IF i = 1 THEN ss[1] ELSE f[i - 1] \o ss[i]
Flat(ss, f, n) == f = [i \in 1..n |-> FlatTo(ss, f, i)]

LEMMA FlatAt ==
  ASSUME NEW ss, NEW n, NEW f, Flat(ss, f, n)
  PROVE  \A i \in 1..n : f[i] = FlatTo(ss, f, i)
BY Zenon DEF Flat

LEMMA FlatExists ==
  ASSUME NEW ss, NEW n \in Nat
  PROVE  \E f : Flat(ss, f, n)
<1> DEFINE P == {m \in Nat : \E f : Flat(ss, f, m)}
<1>1. 0 \in P
  <2>1. Flat(ss, <<>>, 0)
    BY DEF Flat
  <2> QED
    BY <2>1
<1>2. ASSUME NEW m \in Nat, m \in P PROVE m + 1 \in P
  <2>1. PICK f : Flat(ss, f, m)
    BY <1>2
  <2> DEFINE g == [i \in 1..(m + 1) |-> IF i <= m THEN f[i] ELSE IF i = 1 THEN ss[1] ELSE f[m] \o ss[i]]
  <2>2. ASSUME NEW i \in 1..(m + 1) PROVE g[i] = FlatTo(ss, g, i)
    <3>1. CASE i <= m
      <4>1. f[i] = FlatTo(ss, f, i)
        BY <3>1, <2>1, FlatAt
      <4>2. g[i] = f[i] /\ (i # 1 => g[i - 1] = f[i - 1])
        BY <3>1
      <4> QED
        BY <4>1, <4>2, Zenon DEF FlatTo
    <3>2. CASE i = m + 1
      BY <3>2 DEF FlatTo
    <3>3. i <= m \/ i = m + 1
      OBVIOUS
    <3> QED
      BY <3>1, <3>2, <3>3, Zenon
  <2>3. g = [i \in 1..(m + 1) |-> FlatTo(ss, g, i)]
    BY <2>2
  <2> HIDE DEF g
  <2>4. Flat(ss, g, m + 1)
    BY <2>3 DEF Flat
  <2> QED
    BY <2>4
<1> HIDE DEF P
<1>3. Nat \subseteq P
  BY <1>1, <1>2, SetInduction
<1> QED
  BY <1>3 DEF P

LEMMA FlatIs ==
  ASSUME NEW ss, IsSeq(ss), Len(ss) # 0
  PROVE  \E f : Flat(ss, f, Len(ss)) /\ FlattenSeq(ss) = f[Len(ss)]
<1> DEFINE f == CHOOSE g : Flat(ss, g, Len(ss))
<1>1. FlattenSeq(ss) = f[Len(ss)]
  BY DEF FlattenSeq, Flat, FlatTo
<1>2. Flat(ss, f, Len(ss))
  BY FlatExists DEF IsSeq
<1> QED
  BY <1>1, <1>2

LEMMA Flattened ==
  ASSUME NEW ss, IsSeq(ss), \A i \in DOMAIN ss : IsSeq(ss[i])
  PROVE  IsSeq(FlattenSeq(ss)) /\ Range(FlattenSeq(ss)) = UNION {Range(ss[i]) : i \in DOMAIN ss}
<1> DEFINE n == Len(ss)
<1>1. n \in Nat /\ DOMAIN ss = 1..n
  BY DEF IsSeq
<1>2. CASE n = 0
  <2>1. FlattenSeq(ss) = ss
    BY <1>2 DEF FlattenSeq
  <2>2. DOMAIN ss = {}
    BY <1>1, <1>2
  <2> QED
    BY <2>1, <2>2 DEF Range
<1>3. CASE n # 0
  <2>1. PICK f : Flat(ss, f, n) /\ FlattenSeq(ss) = f[n]
    BY <1>3, FlatIs
  <2> HIDE DEF n
  <2>3. f[1] = ss[1]
    BY <2>1, <1>1, <1>3, FlatAt DEF FlatTo
  <2>3b. \A j \in 1..n : f[j] = FlatTo(ss, f, j)
    BY <2>1, FlatAt, Zenon
  <2>3a. ASSUME NEW i \in Nat, i # 0, i + 1 <= n PROVE f[i + 1] = f[i] \o ss[i + 1]
    <3>1. PICK j \in 1..n : j = i + 1 /\ j # 1 /\ j - 1 = i
      BY <2>3a, <1>1
    <3>2. f[j] = FlatTo(ss, f, j)
      BY <2>3b
    <3> QED
      BY <3>1, <3>2, Zenon DEF FlatTo
  <2> DEFINE Good(m) == IsSeq(f[m]) /\ Range(f[m]) = UNION {Range(ss[i]) : i \in 1..m}
  <2> DEFINE P == {m \in Nat : m = 0 \/ m > n \/ Good(m)}
  <2>4. 0 \in P
    OBVIOUS
  <2>5. ASSUME NEW m \in Nat, m \in P PROVE m + 1 \in P
    <3>1. CASE m + 1 > n
      BY <3>1
    <3>2. CASE m = 0
      <4>1. Good(1)
        <5>1. 1 \in DOMAIN ss /\ 1..1 = {1}
          BY <1>1, <1>3
        <5> QED
          BY <5>1, <2>3
      <4> QED
        BY <4>1, <3>2
    <3>3. CASE m # 0 /\ m + 1 <= n
      <4>1. Good(m)
        BY <2>5, <3>3, <1>1
      <4>2. f[m + 1] = f[m] \o ss[m + 1]
        BY <2>3a, <3>3
      <4>3. IsSeq(ss[m + 1])
        BY <1>1, <3>3
      <4>4. IsSeq(f[m + 1]) /\ Range(f[m + 1]) = Range(f[m]) \cup Range(ss[m + 1])
        BY <4>1, <4>2, <4>3, Concatenated
      <4>5. 1..(m + 1) = (1..m) \cup {m + 1}
        OBVIOUS
      <4>6. Range(f[m + 1]) = UNION {Range(ss[i]) : i \in 1..(m + 1)}
        BY <4>1, <4>4, <4>5
      <4> HIDE DEF Good
      <4>7. Good(m + 1)
        BY <4>4, <4>6 DEF Good
      <4> QED
        BY <4>7
    <3> QED
      BY <3>1, <3>2, <3>3, <1>1
  <2> HIDE DEF P
  <2>6. Nat \subseteq P
    BY <2>4, <2>5, SetInduction
  <2>7. n \in P
    BY <2>6, <1>1
  <2>8. Good(n)
    BY <2>7, <1>1, <1>3 DEF P
  <2> QED
    BY <2>1, <2>8, <1>1
<1> QED
  BY <1>2, <1>3

LEMMA FunctionSeq ==
  ASSUME NEW n \in Nat, NEW s, DOMAIN s = 1..n, s = [i \in 1..n |-> s[i]]
  PROVE  IsSeq(s) /\ Len(s) = n
<1>1. s \in [1..n -> Range(s)]
  BY DEF Range
<1> QED
  BY <1>1 DEF IsSeq

LEMMA Singles ==
  /\ IsSeq(<<>>) /\ Range(<<>>) = {}
  /\ \A x : IsSeq(<<x>>) /\ Range(<<x>>) = {x}
<1>1. ASSUME NEW x PROVE IsSeq(<<x>>) /\ Range(<<x>>) = {x}
  <2>1. Range(<<x>>) = {x}
    BY DEF Range
  <2> QED
    BY <2>1 DEF IsSeq
<1>2. Range(<<>>) = {}
  BY DEF Range
<1> QED
  BY <1>1, <1>2 DEF IsSeq

LEMMA ChosenAre ==
  ASSUME NEW s, IsSeq(s), NEW I
  PROVE  IsSeq(Chosen(s, I)) /\ Range(Chosen(s, I)) = {s[i] : i \in I \cap DOMAIN s}
<1> DEFINE ss == [i \in DOMAIN s |-> IF i \in I THEN <<s[i]>> ELSE <<>>]
<1>1. DOMAIN s = 1..Len(s) /\ Len(s) \in Nat
  BY DEF IsSeq
<1>2. DOMAIN ss = 1..Len(s) /\ \A i \in 1..Len(s) : ss[i] = IF i \in I THEN <<s[i]>> ELSE <<>>
  BY <1>1
<1>3. IsSeq(ss)
  BY <1>1, <1>2, FunctionSeq
<1>4. Chosen(s, I) = FlattenSeq(ss)
  BY DEF Chosen
<1> HIDE DEF ss
<1>5. \A i \in DOMAIN ss : IsSeq(ss[i]) /\ Range(ss[i]) = IF i \in I THEN {s[i]} ELSE {}
  BY <1>2, Singles
<1>6. IsSeq(FlattenSeq(ss)) /\ Range(FlattenSeq(ss)) = UNION {Range(ss[i]) : i \in DOMAIN ss}
  BY <1>3, <1>5, Flattened
<1>7. (UNION {Range(ss[i]) : i \in DOMAIN ss}) = {s[i] : i \in I \cap DOMAIN s}
  BY <1>1, <1>2, <1>5
<1> QED
  BY <1>4, <1>6, <1>7

LEMMA HeadOf ==
  ASSUME NEW s, IsSeq(s), s # <<>>
  PROVE  Head(s) \in Range(s)
<1>1. s \in Seq(Range(s))
  BY DEF IsSeq
<1>2. 1 \in DOMAIN s /\ Head(s) = s[1]
  BY <1>1
<1> QED
  BY <1>2 DEF Range

LEMMA EmptyOnes ==
  ASSUME NEW s, IsSeq(s), Range(s) = {}
  PROVE  s = <<>>
<1>1. s \in Seq(Range(s))
  BY DEF IsSeq
<1>2. DOMAIN s = {}
  BY DEF Range
<1> QED
  BY <1>1, <1>2

LEMMA FrontOf ==
  ASSUME NEW s, IsSeq(s), s # <<>>
  PROVE  /\ IsSeq(Front(s)) /\ Range(Front(s)) \subseteq Range(s) /\ Last(s) \in Range(s)
         /\ Front(s) \in Seq(Range(s)) /\ Len(Front(s)) = Len(s) - 1 /\ \A i \in 1..(Len(s) - 1) : Front(s)[i] = s[i]
<1>1. s \in Seq(Range(s)) /\ Len(s) \in Nat /\ Len(s) # 0 /\ DOMAIN s = 1..Len(s) BY DEF IsSeq
<1>2. /\ Front(s) \in Seq(Range(s)) /\ Len(Front(s)) = Len(s) - 1
      /\ \A i \in 1..(Len(s) - 1) : Front(s)[i] = s[i]
  BY <1>1 DEF Front
<1>3. Range(Front(s)) \subseteq Range(s) BY <1>1, <1>2 DEF Range
<1>4. Last(s) \in Range(s) BY <1>1 DEF Last, Range
<1>5. DOMAIN Front(s) = 1..(Len(s) - 1) /\ Front(s) = [i \in 1..(Len(s) - 1) |-> Front(s)[i]] BY <1>1, <1>2
<1>6. IsSeq(Front(s)) BY <1>1, <1>5, FunctionSeq
<1> QED BY <1>2, <1>3, <1>4, <1>6

LEMMA TailOf ==
  ASSUME NEW s, IsSeq(s), s # <<>>
  PROVE  IsSeq(Tail(s)) /\ Range(Tail(s)) \subseteq Range(s)
<1>1. s \in Seq(Range(s)) /\ Len(s) \in Nat /\ Len(s) # 0 /\ DOMAIN s = 1..Len(s) BY DEF IsSeq
<1>2. /\ Tail(s) \in Seq(Range(s)) /\ Len(Tail(s)) = Len(s) - 1
      /\ \A i \in 1..(Len(s) - 1) : Tail(s)[i] = s[i + 1]
  BY <1>1
<1> DEFINE t == Tail(s)
<1>3. t \in Seq(Range(s)) /\ Len(t) = Len(s) - 1 /\ \A i \in 1..(Len(s) - 1) : t[i] = s[i + 1] BY <1>2
<1> HIDE DEF t
<1>4. Range(t) \subseteq Range(s) BY <1>1, <1>3 DEF Range
<1>5. DOMAIN t = 1..(Len(s) - 1) /\ t = [i \in 1..(Len(s) - 1) |-> t[i]] BY <1>1, <1>3
<1>6. IsSeq(t) BY <1>1, <1>5, FunctionSeq
<1> QED BY <1>4, <1>6 DEF t

LEMMA AppendOf ==
  ASSUME NEW s, IsSeq(s), NEW x
  PROVE  IsSeq(Append(s, x)) /\ Range(Append(s, x)) = Range(s) \cup {x}
<1>1. s \in Seq(Range(s)) /\ Len(s) \in Nat /\ DOMAIN s = 1..Len(s) BY DEF IsSeq
<1>2. Append(s, x) = s \o <<x>> BY <1>1
<1> QED BY <1>2, Singles, Concatenated

\* Flattening the one-element pieces of a sequence gives it back.
LEMMA SinglesFlatten ==
  ASSUME NEW s, IsSeq(s)
  PROVE  FlattenSeq([i \in DOMAIN s |-> <<s[i]>>]) = s
<1> DEFINE n == Len(s)
<1> DEFINE ss == [i \in DOMAIN s |-> <<s[i]>>]
<1>1. n \in Nat /\ DOMAIN s = 1..n /\ s \in Seq(Range(s))
  BY DEF IsSeq
<1>2. DOMAIN ss = 1..n /\ \A i \in 1..n : ss[i] = <<s[i]>>
  BY <1>1
<1>3. IsSeq(ss) /\ Len(ss) = n
  BY <1>1, <1>2, FunctionSeq
<1> HIDE DEF ss
<1>4. CASE n = 0
  <2>1. FlattenSeq(ss) = ss
    BY <1>3, <1>4 DEF FlattenSeq
  <2>2. ss = <<>> /\ s = <<>>
    BY <1>1, <1>3, <1>4 DEF IsSeq
  <2> QED
    BY <2>1, <2>2 DEF ss
<1>5. CASE n # 0
  <2>1. PICK f : Flat(ss, f, n) /\ FlattenSeq(ss) = f[n]
    BY <1>3, <1>5, FlatIs
  <2> HIDE DEF n
  <2>2. \A j \in 1..n : f[j] = FlatTo(ss, f, j)
    BY <2>1, FlatAt, Zenon
  <2> DEFINE Good(m) == f[m] \in Seq(Range(s)) /\ Len(f[m]) = m /\ \A i \in 1..m : f[m][i] = s[i]
  <2> DEFINE P == {m \in Nat : m = 0 \/ m > n \/ Good(m)}
  <2>3. 0 \in P
    OBVIOUS
  <2>4. ASSUME NEW m \in Nat, m \in P PROVE m + 1 \in P
    <3>1. CASE m + 1 > n
      BY <3>1
    <3>2. CASE m + 1 <= n
      <4>1. PICK j \in 1..n : j = m + 1 /\ (j # 1 => j - 1 = m)
        BY <3>2, <1>1
      <4>2. f[j] = IF j = 1 THEN ss[1] ELSE f[j - 1] \o ss[j]
        BY <2>2 DEF FlatTo
      <4>3. ss[j] = <<s[j]>> /\ s[j] \in Range(s)
        BY <1>1, <1>2 DEF Range
      <4>4. CASE m = 0
        <5>1. f[j] = <<s[j]>>
          BY <4>1, <4>2, <4>3, <4>4
        <5>2. Good(j)
          BY <5>1, <4>1, <4>3, <4>4
        <5> QED
          BY <5>2, <4>1
      <4>5. CASE m # 0
        <5>1. Good(m)
          BY <2>4, <3>2, <4>5, <1>1
        <5> DEFINE a == f[m]
        <5>2. f[j] = a \o <<s[j]>>
          BY <4>1, <4>2, <4>3, <4>5
        <5>3. a \in Seq(Range(s)) /\ Len(a) = m /\ \A i \in 1..m : a[i] = s[i]
          BY <5>1
        <5> HIDE DEF a
        <5>4. f[j] \in Seq(Range(s)) /\ Len(f[j]) = j
          BY <5>2, <5>3, <4>1, <4>3
        <5>5. \A i \in 1..j : f[j][i] = s[i]
          BY <5>2, <5>3, <4>1, <4>3
        <5>6. Good(j)
          BY <5>4, <5>5
        <5> QED
          BY <5>6, <4>1
      <4> QED
        BY <4>4, <4>5
    <3> QED
      BY <3>1, <3>2, <1>1
  <2> HIDE DEF P
  <2>5. Nat \subseteq P
    BY <2>3, <2>4, SetInduction
  <2>6. Good(n)
    BY <2>5, <1>1, <1>5 DEF P
  <2>7. f[n] = s
    BY <2>6, <1>1 DEF n
  <2> QED
    BY <2>1, <2>7 DEF ss
<1> QED
  BY <1>4, <1>5

=============================================================================
