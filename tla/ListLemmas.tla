------------------------------ MODULE ListLemmas ------------------------------
(* Least and greatest numbers, and what FlattenSeq makes of a list of lists. *)
EXTENDS Integers, SequencesExt, SequenceTheorems, FiniteSetTheorems,
        WellFoundedInduction, TLAPS

\* A set of numbers has a least one.
LEMMA Least ==
    ASSUME NEW S \in SUBSET Nat, S # {}
    PROVE  \E m \in S : \A k \in S : m <= k
<1>1. PICK m \in S : \A k \in S : <<k, m>> \notin OpToRel(<, Nat)
  BY NatLessThanWellFounded, WFMin
<1>2. \A k \in S : ~(k < m)
  BY <1>1 DEF OpToRel
<1> QED BY <1>2

\* The operator Min finds it.
LEMMA MinIs ==
    ASSUME NEW S \in SUBSET Nat, S # {}
    PROVE  Min(S) \in S /\ \A k \in S : Min(S) <= k
BY Least DEF Min

\* A set of numbers that has a bound has a greatest one.
LEMMA MaxIs ==
    ASSUME NEW n \in Nat, NEW S \in SUBSET (0 .. n), S # {}
    PROVE  Max(S) \in S /\ \A k \in S : k <= Max(S)
<1> DEFINE bounds == {m \in Nat : \A k \in S : k <= m}
<1>1. PICK m \in bounds : \A b \in bounds : m <= b
  <2>1. n \in bounds
    OBVIOUS
  <2> QED BY <2>1, Least
<1>2. m \in S
  <2>1. SUFFICES ASSUME m \notin S PROVE FALSE
    OBVIOUS
  <2>2. \A k \in S : k < m
    BY <1>1, <2>1
  <2>3. PICK k \in S : TRUE
    OBVIOUS
  <2>4. k \in Nat /\ m \in Nat /\ k < m
    BY <1>1, <2>2, <2>3
  <2>5. m - 1 \in bounds
    BY <2>2, <2>4
  <2> QED BY <1>1, <2>4, <2>5
<1>3. \E x \in S : \A y \in S : x >= y
  BY <1>1, <1>2
<1>4. Max(S) \in S /\ \A y \in S : Max(S) >= y
  BY <1>3 DEF Max
<1> QED BY <1>4

\* What holds of 1 and passes from each number to the next holds up to n.
LEMMA Counting ==
    ASSUME NEW n \in Nat, NEW S, n > 0 => 1 \in S,
           \A i \in 1 .. n - 1 : i \in S => i + 1 \in S
    PROVE  1 .. n \subseteq S
<1> DEFINE missing == (1 .. n) \ S
<1>1. SUFFICES ASSUME missing # {} PROVE FALSE
  OBVIOUS
<1>2. PICK m \in missing : \A k \in missing : m <= k
  <2>1. missing \in SUBSET Nat
    OBVIOUS
  <2> HIDE DEF missing
  <2> QED BY <1>1, <2>1, Least
<1>3. m # 1 /\ m \in 1 .. n
  BY <1>2
<1>4. m - 1 \in 1 .. n - 1 /\ m - 1 \notin missing /\ (m - 1) + 1 = m
  BY <1>2, <1>3
<1> QED BY <1>2, <1>4

-----------------------------------------------------------------------------
\* The first lists of s joined, one list at a time.
Rows(f, s, n) == f = [i \in 1 .. n |-> IF i = 1 THEN s[i] ELSE f[i - 1] \o s[i]]

\* Every list has its rows.
LEMMA RowsExist ==
    ASSUME NEW s, NEW n \in Nat, n > 0
    PROVE  \E f : Rows(f, s, n)
<1> DEFINE S == {m \in 1 .. n : \E f : Rows(f, s, m)}
<1>1. 1 \in S
  <2> DEFINE f == [i \in 1 .. 1 |-> s[1]]
  <2>1. f = [i \in 1 .. 1 |-> IF i = 1 THEN s[i] ELSE f[i - 1] \o s[i]]
    OBVIOUS
  <2> HIDE DEF f
  <2>2. Rows(f, s, 1)
    BY <2>1 DEF Rows
  <2> QED BY <2>2
<1>2. ASSUME NEW m \in 1 .. n - 1, m \in S PROVE m + 1 \in S
  <2>1. PICK g : Rows(g, s, m)
    BY <1>2
  <2> DEFINE f == [i \in 1 .. m + 1 |-> IF i = m + 1 THEN g[m] \o s[i] ELSE g[i]]
  <2>2. ASSUME NEW i \in 1 .. m + 1
        PROVE  f[i] = IF i = 1 THEN s[i] ELSE f[i - 1] \o s[i]
    <3>1. CASE i = m + 1
      <4>1. m \in 1 .. m + 1 /\ m # m + 1 /\ i - 1 = m /\ i # 1
        BY <3>1
      <4>2. f[i] = g[m] \o s[i] /\ f[m] = g[m]
        BY <3>1, <4>1
      <4> QED BY <4>1, <4>2
    <3>2. CASE i # m + 1
      <4>1. i \in 1 .. m /\ (i # 1 => i - 1 \in 1 .. m)
        BY <3>2
      <4>2. f[i] = g[i] /\ (i # 1 => f[i - 1] = g[i - 1])
        BY <3>2, <4>1
      <4>3. g[i] = IF i = 1 THEN s[i] ELSE g[i - 1] \o s[i]
        BY <2>1, <4>1 DEF Rows
      <4> QED BY <4>1, <4>2, <4>3
    <3> QED BY <3>1, <3>2
  <2>3. f = [i \in 1 .. m + 1 |-> IF i = 1 THEN s[i] ELSE f[i - 1] \o s[i]]
    <3>1. f = [i \in 1 .. m + 1 |-> f[i]]
      OBVIOUS
    <3> QED BY <2>2, <3>1
  <2>4. \E h : Rows(h, s, m + 1)
    BY <2>3 DEF Rows
  <2> QED BY <2>4
<1>3. 1 .. n \subseteq S
  <2> HIDE DEF S
  <2> QED BY <1>1, <1>2, Counting
<1> QED BY <1>3

\* FlattenSeq joins all of them.
LEMMA FlattenIs ==
    ASSUME NEW s, Len(s) \in Nat, Len(s) > 0
    PROVE  \E f : Rows(f, s, Len(s)) /\ FlattenSeq(s) = f[Len(s)]
<1> DEFINE flatten == CHOOSE f : f = [i \in 1 .. Len(s) |-> IF i = 1 THEN s[i] ELSE f[i - 1] \o s[i]]
<1>1. Rows(flatten, s, Len(s))
  BY RowsExist DEF Rows
<1>2. FlattenSeq(s) = flatten[Len(s)]
  BY DEF FlattenSeq
<1> QED BY <1>1, <1>2

\* The first row, and the next ones.
LEMMA RowIs ==
    ASSUME NEW f, NEW s, NEW n \in Nat, Rows(f, s, n)
    PROVE  /\ n > 0 => 1 \in 1 .. n /\ f[1] = s[1]
           /\ \A i \in 1 .. n - 1 :
                i \in 1 .. n /\ i + 1 \in 1 .. n /\ f[i + 1] = f[i] \o s[i + 1]
<1>1. \A i \in 1 .. n : f[i] = IF i = 1 THEN s[i] ELSE f[i - 1] \o s[i]
  BY DEF Rows
<1>2. \A i \in 1 .. n - 1 :
        i \in 1 .. n /\ i + 1 \in 1 .. n /\ i + 1 # 1 /\ (i + 1) - 1 = i
  OBVIOUS
<1>3. n > 0 => 1 \in 1 .. n
  OBVIOUS
<1> QED BY <1>1, <1>2, <1>3

\* A row is a list of the same elements.
LEMMA RowsType ==
    ASSUME NEW T, NEW s \in Seq(Seq(T)), NEW f, Rows(f, s, Len(s))
    PROVE  \A i \in 1 .. Len(s) : f[i] \in Seq(T)
<1> DEFINE S == {i \in 1 .. Len(s) : f[i] \in Seq(T)}
<1>1. Len(s) \in Nat /\ \A i \in 1 .. Len(s) : s[i] \in Seq(T)
  OBVIOUS
<1>2. Len(s) > 0 => 1 \in S
  BY <1>1, RowIs, Zenon
<1>3. ASSUME NEW i \in 1 .. Len(s) - 1, i \in S PROVE i + 1 \in S
  <2>1. f[i + 1] = f[i] \o s[i + 1] /\ i + 1 \in 1 .. Len(s)
    BY <1>1, RowIs, Zenon
  <2>2. f[i] \in Seq(T) /\ s[i + 1] \in Seq(T)
    BY <1>1, <1>3, <2>1
  <2>3. f[i] \o s[i + 1] \in Seq(T)
    BY <2>2
  <2> QED BY <2>1, <2>3, Zenon
<1>4. 1 .. Len(s) \subseteq S
  <2> HIDE DEF S
  <2> QED BY <1>1, <1>2, <1>3, Counting
<1> QED BY <1>4

\* Nothing flattens to nothing.
LEMMA FlattenEmpty == FlattenSeq(<<>>) = <<>>
BY DEF FlattenSeq

\* Lists of T flatten to a list of T.
LEMMA FlattenType ==
    ASSUME NEW T, NEW s \in Seq(Seq(T))
    PROVE  FlattenSeq(s) \in Seq(T)
<1>1. CASE s = <<>>
  <2>1. FlattenSeq(s) = <<>>
    BY <1>1, FlattenEmpty
  <2> QED BY <2>1
<1>2. CASE s # <<>>
  <2>1. Len(s) \in Nat /\ Len(s) > 0 /\ Len(s) \in 1 .. Len(s)
    BY <1>2
  <2>2. PICK f : Rows(f, s, Len(s)) /\ FlattenSeq(s) = f[Len(s)]
    BY <2>1, FlattenIs
  <2> QED BY <2>1, <2>2, RowsType
<1> QED BY <1>1, <1>2

\* Two lists joined, element by element.
LEMMA ConcatAt ==
    ASSUME NEW T, NEW a \in Seq(T), NEW b \in Seq(T)
    PROVE  /\ a \o b \in Seq(T) /\ Len(a \o b) = Len(a) + Len(b)
           /\ Len(a) \in Nat /\ Len(b) \in Nat
           /\ \A i \in 1 .. Len(a) : (a \o b)[i] = a[i]
           /\ \A i \in 1 .. Len(b) : (a \o b)[Len(a) + i] = b[i]
OBVIOUS

\* What a list contains.
In(x, list) == \E k \in 1 .. Len(list) : list[k] = x

\* What two lists contain together.
LEMMA InConcat ==
    ASSUME NEW T, NEW a \in Seq(T), NEW b \in Seq(T), NEW x
    PROVE  In(x, a \o b) <=> In(x, a) \/ In(x, b)
<1> DEFINE c == a \o b
<1> HIDE DEF c
<1>2. /\ Len(c) = Len(a) + Len(b) /\ Len(a) \in Nat /\ Len(b) \in Nat
      /\ \A i \in 1 .. Len(a) : c[i] = a[i]
      /\ \A i \in 1 .. Len(b) : c[Len(a) + i] = b[i]
  BY ConcatAt DEF c
<1>3. ASSUME In(x, c) PROVE In(x, a) \/ In(x, b)
  <2>1. PICK k \in 1 .. Len(c) : c[k] = x
    BY <1>3 DEF In
  <2>2. CASE k <= Len(a)
    BY <1>2, <2>1, <2>2 DEF In
  <2>3. CASE k > Len(a)
    <3>1. k - Len(a) \in 1 .. Len(b) /\ Len(a) + (k - Len(a)) = k
      BY <1>2, <2>3
    <3>2. b[k - Len(a)] = x
      BY <1>2, <2>1, <3>1
    <3> QED BY <3>1, <3>2 DEF In
  <2> QED BY <1>2, <2>2, <2>3
<1>4. ASSUME In(x, a) PROVE In(x, c)
  <2>1. PICK k \in 1 .. Len(a) : a[k] = x
    BY <1>4 DEF In
  <2>2. k \in 1 .. Len(c) /\ c[k] = x
    BY <1>2, <2>1
  <2> QED BY <2>2 DEF In
<1>5. ASSUME In(x, b) PROVE In(x, c)
  <2>1. PICK k \in 1 .. Len(b) : b[k] = x
    BY <1>5 DEF In
  <2>2. Len(a) + k \in 1 .. Len(c) /\ c[Len(a) + k] = x
    BY <1>2, <2>1
  <2> QED BY <2>2 DEF In
<1> QED BY <1>3, <1>4, <1>5 DEF c

\* FlattenSeq loses nothing and adds nothing.
LEMMA FlattenIn ==
    ASSUME NEW T, NEW s \in Seq(Seq(T)), NEW x
    PROVE  In(x, FlattenSeq(s)) <=> \E j \in 1 .. Len(s) : In(x, s[j])
<1>1. CASE s = <<>>
  <2>1. FlattenSeq(s) = <<>> /\ Len(s) = 0
    BY <1>1, FlattenEmpty
  <2>2. Len(FlattenSeq(s)) = 0
    BY <2>1
  <2> QED BY <2>1, <2>2 DEF In
<1>2. CASE s # <<>>
  <2>1. /\ Len(s) \in Nat /\ Len(s) > 0 /\ Len(s) \in 1 .. Len(s)
        /\ \A i \in 1 .. Len(s) : s[i] \in Seq(T)
    BY <1>2
  <2>2. PICK f : Rows(f, s, Len(s)) /\ FlattenSeq(s) = f[Len(s)]
    BY <2>1, FlattenIs
  <2> DEFINE S == {i \in 1 .. Len(s) : In(x, f[i]) <=> \E j \in 1 .. i : In(x, s[j])}
  <2>3. 1 \in S
    <3>1. f[1] = s[1] /\ 1 \in 1 .. Len(s)
      BY <2>1, <2>2, RowIs, Zenon
    <3>2. \A j \in 1 .. 1 : j = 1
      OBVIOUS
    <3> QED BY <3>1, <3>2
  <2>4. ASSUME NEW i \in 1 .. Len(s) - 1, i \in S PROVE i + 1 \in S
    <3>1. f[i + 1] = f[i] \o s[i + 1] /\ i \in 1 .. Len(s) /\ i + 1 \in 1 .. Len(s)
      BY <2>1, <2>2, RowIs, Zenon
    <3>2. f[i] \in Seq(T) /\ s[i + 1] \in Seq(T)
      BY <2>1, <2>2, <3>1, RowsType
    <3>3. In(x, f[i + 1]) <=> In(x, f[i]) \/ In(x, s[i + 1])
      BY <3>1, <3>2, InConcat
    <3>4. 1 .. i + 1 = (1 .. i) \cup {i + 1}
      OBVIOUS
    <3>5. In(x, f[i + 1]) <=> \E j \in 1 .. i + 1 : In(x, s[j])
      BY <2>4, <3>3, <3>4
    <3> QED BY <3>1, <3>5
  <2>5. 1 .. Len(s) \subseteq S
    <3> HIDE DEF S
    <3> QED BY <2>1, <2>3, <2>4, Counting
  <2> QED BY <2>1, <2>2, <2>5
<1> QED BY <1>1, <1>2

\* Lists of one element each give the list of those elements.
LEMMA FlattenSingles ==
    ASSUME NEW T, NEW s \in Seq(Seq(T)), \A j \in 1 .. Len(s) : Len(s[j]) = 1
    PROVE  FlattenSeq(s) = [j \in 1 .. Len(s) |-> s[j][1]]
<1>1. CASE s = <<>>
  <2>1. FlattenSeq(s) = <<>> /\ Len(s) = 0
    BY <1>1, FlattenEmpty
  <2> QED BY <2>1
<1>2. CASE s # <<>>
  <2>1. /\ Len(s) \in Nat /\ Len(s) > 0 /\ Len(s) \in 1 .. Len(s)
        /\ \A i \in 1 .. Len(s) : s[i] \in Seq(T)
    BY <1>2
  <2>2. PICK f : Rows(f, s, Len(s)) /\ FlattenSeq(s) = f[Len(s)]
    BY <2>1, FlattenIs
  <2> DEFINE Is(i) == Len(f[i]) = i /\ \A j \in 1 .. i : f[i][j] = s[j][1]
             S == {i \in 1 .. Len(s) : Is(i)}
  <2>3. 1 \in S
    <3>1. f[1] = s[1] /\ 1 \in 1 .. Len(s) /\ Len(s[1]) = 1
      <4>1. f[1] = s[1] /\ 1 \in 1 .. Len(s)
        BY <2>1, <2>2, RowIs, Zenon
      <4> QED BY <4>1
    <3>2. \A j \in 1 .. 1 : j = 1
      OBVIOUS
    <3> QED BY <3>1, <3>2
  <2>4. ASSUME NEW i \in 1 .. Len(s) - 1, i \in S PROVE i + 1 \in S
    <3>1. f[i + 1] = f[i] \o s[i + 1] /\ i \in 1 .. Len(s) /\ i + 1 \in 1 .. Len(s)
      BY <2>1, <2>2, RowIs, Zenon
    <3> DEFINE a == f[i]
               b == s[i + 1]
    <3>2. a \in Seq(T) /\ b \in Seq(T) /\ Len(b) = 1
      BY <2>1, <2>2, <3>1, RowsType
    <3>0. i \in Nat
      OBVIOUS
    <3>3. Len(a) = i /\ \A j \in 1 .. i : a[j] = s[j][1]
      BY <2>4
    <3> DEFINE c == a \o b
    <3> HIDE DEF a, b, c
    <3>4. Len(c) = i + 1 /\ (\A j \in 1 .. i : c[j] = a[j]) /\ c[i + 1] = b[1]
      <4>1. /\ Len(c) = Len(a) + Len(b)
            /\ \A j \in 1 .. Len(a) : c[j] = a[j]
            /\ \A j \in 1 .. Len(b) : c[Len(a) + j] = b[j]
        <5>1. a \in Seq(T) /\ b \in Seq(T)
          BY <3>2
        <5>2. /\ Len(a \o b) = Len(a) + Len(b)
              /\ \A j \in 1 .. Len(a) : (a \o b)[j] = a[j]
              /\ \A j \in 1 .. Len(b) : (a \o b)[Len(a) + j] = b[j]
          BY <5>1, ConcatAt
        <5> QED BY <5>2, Zenon DEF c
      <4>2. 1 \in 1 .. Len(b)
        BY <3>2
      <4> QED BY <3>0, <3>2, <3>3, <4>1, <4>2
    <3>5. \A j \in 1 .. i + 1 : c[j] = s[j][1]
      <4> TAKE j \in 1 .. i + 1
      <4>1. CASE j \in 1 .. i
        BY <3>3, <3>4, <4>1
      <4>2. CASE j = i + 1
        BY <3>4, <4>2 DEF b
      <4> QED BY <4>1, <4>2
    <3>6. Is(i + 1)
      BY <3>1, <3>4, <3>5 DEF a, b, c
    <3> QED BY <3>1, <3>6
  <2>5. 1 .. Len(s) \subseteq S
    <3> HIDE DEF S
    <3> QED BY <2>1, <2>3, <2>4, Counting
  <2>6. Is(Len(s)) /\ f[Len(s)] \in Seq(T)
    BY <2>1, <2>2, <2>5, RowsType
  <2> DEFINE h == f[Len(s)]
  <2>7. h \in Seq(T) /\ Len(h) = Len(s) /\ \A j \in 1 .. Len(s) : h[j] = s[j][1]
    BY <2>6
  <2> HIDE DEF h
  <2>8. h = [j \in 1 .. Len(s) |-> s[j][1]]
    <3>1. h = [j \in 1 .. Len(h) |-> h[j]]
      BY <2>7
    <3> QED BY <2>7, <3>1
  <2> QED BY <2>2, <2>8 DEF h
<1> QED BY <1>1, <1>2

\* How many elements of a list lie in a set.
Count(list, M) == Cardinality({k \in 1 .. Len(list) : list[k] \in M})

\* A number up to one.
LEMMA NoneOrOne == \A n \in Nat : n <= 1 => n = 0 \/ n = 1
OBVIOUS

\* How a list of at most one element adds to the count.
LEMMA CountConcat ==
    ASSUME NEW T, NEW a \in Seq(T), NEW b \in Seq(T), Len(b) <= 1, NEW M
    PROVE  /\ Count(a \o b, M) =
                IF Len(b) = 1 /\ b[1] \in M THEN Count(a, M) + 1 ELSE Count(a, M)
           /\ Count(a, M) \in Nat
<1> DEFINE c == a \o b
           A == {k \in 1 .. Len(a) : a[k] \in M}
           C == {k \in 1 .. Len(c) : c[k] \in M}
<1>1. /\ Len(c) = Len(a) + Len(b) /\ Len(a) \in Nat /\ Len(b) \in Nat
      /\ \A i \in 1 .. Len(a) : c[i] = a[i]
      /\ \A i \in 1 .. Len(b) : c[Len(a) + i] = b[i]
  BY ConcatAt
<1> HIDE DEF c
<1>2. IsFiniteSet(A) /\ Cardinality(A) \in Nat /\ Len(a) + 1 \notin A
  <2>1. IsFiniteSet(1 .. Len(a))
    BY <1>1, FS_Interval
  <2>2. IsFiniteSet(A)
    BY <2>1, FS_Subset
  <2> QED BY <1>1, <2>2, FS_CardinalityType
<1>3. C = IF Len(b) = 1 /\ b[1] \in M THEN A \cup {Len(a) + 1} ELSE A
  <2>1. CASE Len(b) = 0
    BY <1>1, <2>1
  <2>2. CASE Len(b) = 1
    <3>1. Len(c) = Len(a) + 1 /\ c[Len(a) + 1] = b[1]
      <4>1. 1 \in 1 .. Len(b)
        BY <2>2
      <4> QED BY <1>1, <2>2, <4>1
    <3>2. 1 .. Len(a) + 1 = (1 .. Len(a)) \cup {Len(a) + 1}
      BY <1>1
    <3>3. C = A \cup {k \in {Len(a) + 1} : c[k] \in M}
      BY <1>1, <3>1, <3>2
    <3>4. {k \in {Len(a) + 1} : c[k] \in M} = IF b[1] \in M THEN {Len(a) + 1} ELSE {}
      BY <3>1
    <3> QED BY <2>2, <3>3, <3>4
  <2>3. Len(b) = 0 \/ Len(b) = 1
    BY <1>1, NoneOrOne, Zenon
  <2> QED BY <2>1, <2>2, <2>3
<1>4. Cardinality(A \cup {Len(a) + 1}) = Cardinality(A) + 1
  BY <1>2, FS_AddElement
<1>5. Count(c, M) = Cardinality(C) /\ Count(a, M) = Cardinality(A)
  BY DEF Count
<1> QED BY <1>2, <1>3, <1>4, <1>5 DEF c

\* Where lists of at most one element are joined, each counts for itself.
LEMMA FlattenCount ==
    ASSUME NEW T, NEW s \in Seq(Seq(T)), \A j \in 1 .. Len(s) : Len(s[j]) <= 1, NEW M
    PROVE  Count(FlattenSeq(s), M) =
             Cardinality({j \in 1 .. Len(s) : Len(s[j]) = 1 /\ s[j][1] \in M})
<1> DEFINE Hits(i) == {j \in 1 .. i : Len(s[j]) = 1 /\ s[j][1] \in M}
<1>1. CASE s = <<>>
  <2>1. FlattenSeq(s) = <<>> /\ Len(s) = 0
    BY <1>1, FlattenEmpty
  <2>2. Len(FlattenSeq(s)) = 0 /\ 1 .. 0 = {}
    BY <2>1
  <2>3. Hits(Len(s)) = {} /\ {k \in 1 .. Len(FlattenSeq(s)) : FlattenSeq(s)[k] \in M} = {}
    BY <2>1, <2>2
  <2> QED BY <2>3 DEF Count
<1>2. CASE s # <<>>
  <2>1. /\ Len(s) \in Nat /\ Len(s) > 0 /\ Len(s) \in 1 .. Len(s)
        /\ \A i \in 1 .. Len(s) : s[i] \in Seq(T)
    BY <1>2
  <2>2. PICK f : Rows(f, s, Len(s)) /\ FlattenSeq(s) = f[Len(s)]
    BY <2>1, FlattenIs
  <2>3. \A i \in 1 .. Len(s) : IsFiniteSet(Hits(i)) /\ Cardinality(Hits(i)) \in Nat
    <3> TAKE i \in 1 .. Len(s)
    <3>1. IsFiniteSet(1 .. i)
      BY FS_Interval
    <3>2. IsFiniteSet(Hits(i))
      BY <3>1, FS_Subset
    <3> QED BY <3>2, FS_CardinalityType
  <2> DEFINE S == {i \in 1 .. Len(s) : Count(f[i], M) = Cardinality(Hits(i))}
  <2>4. 1 \in S
    <3>1. f[1] = s[1] /\ 1 \in 1 .. Len(s)
      BY <2>1, <2>2, RowIs, Zenon
    <3> DEFINE b == s[1]
    <3>2. b \in Seq(T) /\ (Len(b) = 0 \/ Len(b) = 1)
      <4>1. b \in Seq(T) /\ Len(b) <= 1
        BY <2>1, <3>1
      <4> HIDE DEF b
      <4>2. Len(b) \in Nat
        BY <4>1
      <4> QED BY <4>1, <4>2, NoneOrOne, Zenon
    <3>3. \A k : k \in 1 .. 1 <=> k = 1
      OBVIOUS
    <3>4. {k \in 1 .. Len(b) : b[k] \in M} = Hits(1)
      <4>1. CASE Len(b) = 0
        BY <3>3, <4>1
      <4>2. CASE Len(b) = 1
        BY <3>3, <4>2
      <4> QED BY <3>2, <4>1, <4>2
    <3>5. Count(f[1], M) = Cardinality(Hits(1))
      BY <3>1, <3>4 DEF Count
    <3> HIDE DEF Hits
    <3> QED BY <3>1, <3>5
  <2>5. ASSUME NEW i \in 1 .. Len(s) - 1, i \in S PROVE i + 1 \in S
    <3>1. f[i + 1] = f[i] \o s[i + 1] /\ i \in 1 .. Len(s) /\ i + 1 \in 1 .. Len(s)
      BY <2>1, <2>2, RowIs, Zenon
    <3>2. f[i] \in Seq(T) /\ s[i + 1] \in Seq(T) /\ Len(s[i + 1]) <= 1
      BY <2>1, <2>2, <3>1, RowsType
    <3>3. Count(f[i] \o s[i + 1], M) =
            IF Len(s[i + 1]) = 1 /\ s[i + 1][1] \in M THEN Count(f[i], M) + 1 ELSE Count(f[i], M)
      BY <3>2, CountConcat
    <3>4. Hits(i + 1) = IF Len(s[i + 1]) = 1 /\ s[i + 1][1] \in M
                        THEN Hits(i) \cup {i + 1} ELSE Hits(i)
      <4>1. 1 .. i + 1 = (1 .. i) \cup {i + 1}
        OBVIOUS
      <4> QED BY <4>1
    <3>5. i + 1 \notin Hits(i)
      OBVIOUS
    <3> HIDE DEF Hits
    <3>6. Cardinality(Hits(i) \cup {i + 1}) = Cardinality(Hits(i)) + 1
      BY <2>3, <3>1, <3>5, FS_AddElement
    <3>7. Count(f[i + 1], M) = Cardinality(Hits(i + 1))
      BY <2>5, <3>1, <3>3, <3>4, <3>6
    <3> QED BY <3>1, <3>7
  <2>6. 1 .. Len(s) \subseteq S
    <3> HIDE DEF S
    <3> QED BY <2>1, <2>4, <2>5, Counting
  <2>7. Count(f[Len(s)], M) = Cardinality(Hits(Len(s)))
    <3> HIDE DEF Hits
    <3> QED BY <2>1, <2>6
  <2> QED BY <2>2, <2>7
<1> QED BY <1>1, <1>2
=============================================================================
