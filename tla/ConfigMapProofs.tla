--------------------------- MODULE ConfigMapProofs ---------------------------
(* The conversion for every list of items and every order of visit.        *)
EXTENDS ConfigMap, SequenceTheorems, FiniteSetTheorems, TLAPS

Parts == Seq(Names) \ {<<>>}

\* Prefixes, seen position by position.
LEMMA PrefixAt ==
    ASSUME NEW S, NEW p \in Seq(S), NEW q \in Seq(S)
    PROVE  IsPrefix(p, q) <=> Len(p) <= Len(q) /\ \A i \in 1 .. Len(p) : p[i] = q[i]
<1>1. SubSeq(p, 1, Len(p)) = p
  OBVIOUS
<1>2. CASE Len(p) <= Len(q)
  <2>1. SubSeq(q, 1, Len(p)) = [i \in 1 .. Len(p) |-> q[i]]
    BY <1>2
  <2>2. p = [i \in 1 .. Len(p) |-> p[i]]
    OBVIOUS
  <2> QED BY <1>1, <1>2, <2>1, <2>2 DEF IsPrefix
<1> QED BY <1>2 DEF IsPrefix

\* The first elements of a sequence.
LEMMA PrefixOf ==
    ASSUME NEW S, NEW p \in Seq(S), NEW n \in 0 .. Len(p)
    PROVE  /\ SubSeq(p, 1, n) \in Seq(S)
           /\ Len(SubSeq(p, 1, n)) = n
           /\ \A i \in 1 .. n : SubSeq(p, 1, n)[i] = p[i]
OBVIOUS

\* Sequences that agree everywhere are equal.
LEMMA SeqEq ==
    ASSUME NEW S, NEW p \in Seq(S), NEW q \in Seq(S), Len(p) = Len(q),
           \A i \in 1 .. Len(p) : p[i] = q[i]
    PROVE  p = q
BY SeqEqual

\* A path is a list of names that has a length.
LEMMA PathLen == \A p \in Seq(Names) : p \in Parts <=> Len(p) > 0
<1> TAKE p \in Seq(Names)
<1>1. p = <<>> => Len(p) = 0
  OBVIOUS
<1>2. Len(p) = 0 => p = <<>>
  OBVIOUS
<1>3. Len(p) \in Nat
  OBVIOUS
<1> QED BY <1>1, <1>2, <1>3 DEF Parts

\* The prefixes of a sequence are what it begins with.
LEMMA PrefixIsSubSeq ==
    ASSUME NEW S, NEW p \in Seq(S), NEW q \in Seq(S), IsPrefix(p, q)
    PROVE  Len(p) \in 0 .. Len(q) /\ p = SubSeq(q, 1, Len(p))
<1>1. Len(p) \in 0 .. Len(q) /\ \A i \in 1 .. Len(p) : p[i] = q[i]
  BY PrefixAt
<1>2. SubSeq(q, 1, Len(p)) \in Seq(S) /\ Len(SubSeq(q, 1, Len(p))) = Len(p)
      /\ \A i \in 1 .. Len(p) : SubSeq(q, 1, Len(p))[i] = q[i]
  BY <1>1, PrefixOf
<1> QED BY <1>1, <1>2, SeqEq

\* A sequence with a first element.
LEMMA ConsAt ==
    ASSUME NEW S, NEW a \in S, NEW r \in Seq(S)
    PROVE  /\ <<a>> \o r \in Seq(S)
           /\ Len(<<a>> \o r) = Len(r) + 1
           /\ (<<a>> \o r)[1] = a
           /\ \A i \in 1 .. Len(r) : (<<a>> \o r)[i + 1] = r[i]
           /\ Head(<<a>> \o r) = a
           /\ Tail(<<a>> \o r) = r
<1>1. <<a>> \o r \in Seq(S) /\ Len(<<a>> \o r) = Len(r) + 1
  OBVIOUS
<1>2. (<<a>> \o r)[1] = a /\ \A i \in 1 .. Len(r) : (<<a>> \o r)[i + 1] = r[i]
  OBVIOUS
<1>3. Head(<<a>> \o r) = a
  BY <1>1, <1>2
<1>4. Tail(<<a>> \o r) = r
  <2>1. Tail(<<a>> \o r) \in Seq(S) /\ Len(Tail(<<a>> \o r)) = Len(r)
        /\ \A i \in 1 .. Len(r) : Tail(<<a>> \o r)[i] = (<<a>> \o r)[i + 1]
    BY <1>1
  <2> QED BY <1>2, <2>1, SeqEq
<1> QED BY <1>1, <1>2, <1>3, <1>4

\* A sequence that is not empty is its head before its tail.
LEMMA Uncons ==
    ASSUME NEW S, NEW p \in Seq(S), p # <<>>
    PROVE  /\ Head(p) \in S /\ Head(p) = p[1]
           /\ Tail(p) \in Seq(S) /\ Len(Tail(p)) = Len(p) - 1
           /\ p = <<Head(p)>> \o Tail(p)
<1>1. /\ Head(p) \in S /\ Head(p) = p[1]
      /\ Tail(p) \in Seq(S) /\ Len(Tail(p)) = Len(p) - 1
      /\ \A i \in 1 .. Len(Tail(p)) : Tail(p)[i] = p[i + 1]
      /\ Len(p) \in Nat \ {0}
  OBVIOUS
<1>2. p = <<Head(p)>> \o Tail(p)
  <2>1. <<Head(p)>> \o Tail(p) \in Seq(S) /\ Len(<<Head(p)>> \o Tail(p)) = Len(p)
        /\ (<<Head(p)>> \o Tail(p))[1] = p[1]
        /\ \A i \in 1 .. Len(Tail(p)) : (<<Head(p)>> \o Tail(p))[i + 1] = p[i + 1]
    BY <1>1, ConsAt
  <2>2. \A i \in 1 .. Len(p) : (<<Head(p)>> \o Tail(p))[i] = p[i]
    <3> TAKE i \in 1 .. Len(p)
    <3>1. CASE i = 1
      BY <2>1, <3>1
    <3>2. CASE i # 1
      <4>1. i - 1 \in 1 .. Len(Tail(p)) /\ (i - 1) + 1 = i
        BY <1>1, <3>2
      <4> QED BY <2>1, <4>1
    <3> QED BY <3>1, <3>2
  <2> QED BY <2>1, <2>2, SeqEq
<1> QED BY <1>1, <1>2

\* Prefixes below a common first element.
LEMMA ConsPrefix ==
    ASSUME NEW S, NEW a \in S, NEW b \in S, NEW p \in Seq(S), NEW q \in Seq(S)
    PROVE  IsPrefix(<<a>> \o p, <<b>> \o q) <=> a = b /\ IsPrefix(p, q)
<1> DEFINE x == <<a>> \o p
           y == <<b>> \o q
<1>1. /\ x \in Seq(S) /\ Len(x) = Len(p) + 1 /\ x[1] = a
      /\ \A i \in 1 .. Len(p) : x[i + 1] = p[i]
  BY ConsAt
<1>2. /\ y \in Seq(S) /\ Len(y) = Len(q) + 1 /\ y[1] = b
      /\ \A i \in 1 .. Len(q) : y[i + 1] = q[i]
  BY ConsAt
<1>3. Len(p) \in Nat /\ Len(q) \in Nat
  OBVIOUS
<1> HIDE DEF x, y
<1>4. IsPrefix(x, y) <=> Len(x) <= Len(y) /\ \A i \in 1 .. Len(x) : x[i] = y[i]
  <2>1. x \in Seq(S) /\ y \in Seq(S)
    BY <1>1, <1>2
  <2> QED BY <2>1, PrefixAt
<1>5. IsPrefix(p, q) <=> Len(p) <= Len(q) /\ \A i \in 1 .. Len(p) : p[i] = q[i]
  BY PrefixAt
<1>6. ASSUME IsPrefix(x, y) PROVE a = b /\ IsPrefix(p, q)
  <2>1. a = b
    BY <1>1, <1>2, <1>3, <1>4, <1>6
  <2>2. \A i \in 1 .. Len(p) : x[i + 1] = y[i + 1]
    BY <1>1, <1>3, <1>4, <1>6
  <2>3. Len(p) <= Len(q)
    BY <1>1, <1>2, <1>3, <1>4, <1>6
  <2>4. \A i \in 1 .. Len(p) : p[i] = q[i]
    BY <1>1, <1>2, <1>3, <2>2, <2>3
  <2> QED BY <1>5, <2>1, <2>3, <2>4
<1>7. ASSUME a = b, IsPrefix(p, q) PROVE IsPrefix(x, y)
  <2>1. \A i \in 1 .. Len(x) : x[i] = y[i]
    <3> TAKE i \in 1 .. Len(x)
    <3>1. CASE i = 1
      BY <1>1, <1>2, <1>7, <3>1
    <3>2. CASE i # 1
      <4>1. i - 1 \in 1 .. Len(p) /\ (i - 1) + 1 = i
        BY <1>1, <1>3, <3>2
      <4>2. i - 1 \in 1 .. Len(q) /\ p[i - 1] = q[i - 1]
        BY <1>3, <1>5, <1>7, <4>1
      <4> QED BY <1>1, <1>2, <4>1, <4>2
    <3> QED BY <3>1, <3>2
  <2> QED BY <1>1, <1>2, <1>3, <1>4, <1>5, <1>7, <2>1
<1>8. IsPrefix(x, y) <=> a = b /\ IsPrefix(p, q)
  BY <1>6, <1>7
<1> QED BY <1>8 DEF x, y

\* The prefix order, as far as tables need it.
LEMMA PrefixOrder ==
    ASSUME NEW S, NEW p \in Seq(S), NEW q \in Seq(S), NEW r \in Seq(S)
    PROVE  /\ IsPrefix(p, p)
           /\ IsPrefix(p, q) /\ IsPrefix(q, r) => IsPrefix(p, r)
           /\ IsPrefix(p, q) /\ IsPrefix(q, p) => p = q
           /\ IsPrefix(p, r) /\ IsPrefix(q, r) => IsPrefix(p, q) \/ IsPrefix(q, p)
<1>1. /\ Len(p) \in Nat /\ Len(q) \in Nat /\ Len(r) \in Nat
  OBVIOUS
<1>2. IsPrefix(p, p)
  BY <1>1, PrefixAt
<1>3. ASSUME IsPrefix(p, q), IsPrefix(q, r) PROVE IsPrefix(p, r)
  <2>1. Len(p) <= Len(q) /\ \A i \in 1 .. Len(p) : p[i] = q[i]
    BY <1>3, PrefixAt
  <2>2. Len(q) <= Len(r) /\ \A i \in 1 .. Len(q) : q[i] = r[i]
    BY <1>3, PrefixAt
  <2>3. Len(p) <= Len(r) /\ \A i \in 1 .. Len(p) : p[i] = r[i]
    BY <1>1, <2>1, <2>2
  <2> QED BY <2>3, PrefixAt
<1>4. ASSUME IsPrefix(p, q), IsPrefix(q, p) PROVE p = q
  <2>1. Len(p) <= Len(q) /\ \A i \in 1 .. Len(p) : p[i] = q[i]
    BY <1>4, PrefixAt
  <2>2. Len(q) <= Len(p)
    BY <1>4, PrefixAt
  <2>3. Len(p) = Len(q)
    BY <1>1, <2>1, <2>2
  <2> QED BY <2>1, <2>3, SeqEq
<1>5. ASSUME IsPrefix(p, r), IsPrefix(q, r) PROVE IsPrefix(p, q) \/ IsPrefix(q, p)
  <2>1. Len(p) <= Len(r) /\ \A i \in 1 .. Len(p) : p[i] = r[i]
    BY <1>5, PrefixAt
  <2>2. Len(q) <= Len(r) /\ \A i \in 1 .. Len(q) : q[i] = r[i]
    BY <1>5, PrefixAt
  <2>3. CASE Len(p) <= Len(q)
    <3>1. \A i \in 1 .. Len(p) : p[i] = q[i]
      BY <1>1, <2>1, <2>2, <2>3
    <3> QED BY <2>3, <3>1, PrefixAt
  <2>4. CASE Len(q) <= Len(p)
    <3>1. \A i \in 1 .. Len(q) : q[i] = p[i]
      BY <1>1, <2>1, <2>2, <2>4
    <3> QED BY <2>4, <3>1, PrefixAt
  <2> QED BY <1>1, <2>3, <2>4
<1> QED BY <1>2, <1>3, <1>4, <1>5

\* What begins with a path is a path.
LEMMA PrefixNotEmpty ==
    ASSUME NEW p \in Parts, NEW q \in Seq(Names), IsPrefix(p, q)
    PROVE  q \in Parts
<1>1. p \in Seq(Names) /\ Len(p) > 0
  BY PathLen DEF Parts
<1>2. Len(p) <= Len(q)
  BY <1>1, PrefixAt
<1>3. Len(p) \in Nat /\ Len(q) \in Nat
  BY <1>1
<1>4. Len(q) > 0
  BY <1>1, <1>2, <1>3
<1> QED BY <1>4, PathLen

\* A table keeps its shape, stated with prefixes.
LEMMA Shape ==
    ASSUME NEW T
    PROVE  WellFormed(T) <=>
             \A p \in DOMAIN T :
               /\ p \in Parts
               /\ \A q \in Parts : IsPrefix(q, p) /\ q # p => q \in DOMAIN T /\ T[q].table
               /\ T[p].table => \E q \in DOMAIN T : IsPrefix(p, q) /\ p # q
<1> SUFFICES ASSUME NEW p \in DOMAIN T, p \in Parts
             PROVE  (\A n \in 1 .. Len(p) - 1 :
                       SubSeq(p, 1, n) \in DOMAIN T /\ T[SubSeq(p, 1, n)].table)
                    <=> \A q \in Parts : IsPrefix(q, p) /\ q # p => q \in DOMAIN T /\ T[q].table
  BY Zenon DEF WellFormed, IsStrictPrefix, Parts
<1>1. ASSUME NEW q \in Parts, IsPrefix(q, p), q # p
      PROVE  Len(q) \in 1 .. Len(p) - 1 /\ q = SubSeq(p, 1, Len(q))
  <2>1. Len(q) \in 0 .. Len(p) /\ q = SubSeq(p, 1, Len(q))
    BY <1>1, PrefixIsSubSeq DEF Parts
  <2>2. Len(q) # 0 /\ Len(q) \in Nat /\ Len(p) \in Nat
    BY DEF Parts
  <2>3. Len(q) # Len(p)
    <3> SUFFICES ASSUME Len(q) = Len(p) PROVE FALSE
      OBVIOUS
    <3>1. SubSeq(p, 1, Len(p)) = p
      BY DEF Parts
    <3> QED BY <1>1, <2>1, <3>1
  <2> QED BY <2>1, <2>2, <2>3
<1>2. ASSUME NEW n \in 1 .. Len(p) - 1
      PROVE  /\ SubSeq(p, 1, n) \in Parts
             /\ IsPrefix(SubSeq(p, 1, n), p) /\ SubSeq(p, 1, n) # p
  <2>1. p \in Seq(Names) /\ Len(p) \in Nat /\ n \in 0 .. Len(p) /\ n \in Nat
    BY DEF Parts
  <2>2. /\ SubSeq(p, 1, n) \in Seq(Names)
        /\ Len(SubSeq(p, 1, n)) = n
        /\ \A i \in 1 .. n : SubSeq(p, 1, n)[i] = p[i]
    BY <2>1, PrefixOf
  <2> DEFINE s == SubSeq(p, 1, n)
  <2> HIDE DEF s
  <2>3. s \in Seq(Names) /\ Len(s) = n /\ \A i \in 1 .. n : s[i] = p[i]
    BY <2>2 DEF s
  <2>4. IsPrefix(s, p)
    BY <2>1, <2>3, PrefixAt
  <2>5. s # <<>> /\ s # p
    BY <2>1, <2>3
  <2> QED BY <2>3, <2>4, <2>5 DEF s, Parts
<1> QED BY <1>1, <1>2

-----------------------------------------------------------------------------
\* One part, alone and before others.
LEMMA OnePart ==
    ASSUME NEW a \in Names
    PROVE  /\ <<a>> \in Parts /\ Len(<<a>>) = 1 /\ Head(<<a>>) = a
           /\ \A r \in Parts :
                /\ <<a>> \o r \in Parts /\ Len(<<a>> \o r) > 1
                /\ Head(<<a>> \o r) = a /\ Tail(<<a>> \o r) = r
                /\ IsPrefix(<<a>>, <<a>> \o r) /\ <<a>> # <<a>> \o r
<1>1. <<a>> \in Parts /\ Len(<<a>>) = 1 /\ Head(<<a>>) = a
  <2>1. <<a>> \in Seq(Names) /\ Len(<<a>>) = 1 /\ <<a>>[1] = a
    OBVIOUS
  <2>2. <<a>> # <<>> /\ Head(<<a>>) = a
    OBVIOUS
  <2> QED BY <2>1, <2>2 DEF Parts
<1>2. ASSUME NEW r \in Parts
      PROVE  /\ <<a>> \o r \in Parts /\ Len(<<a>> \o r) > 1
             /\ Head(<<a>> \o r) = a /\ Tail(<<a>> \o r) = r
             /\ IsPrefix(<<a>>, <<a>> \o r) /\ <<a>> # <<a>> \o r
  <2>1. r \in Seq(Names) /\ Len(r) \in Nat \ {0}
    BY DEF Parts
  <2>2. /\ <<a>> \o r \in Seq(Names) /\ Len(<<a>> \o r) = Len(r) + 1
        /\ (<<a>> \o r)[1] = a
        /\ Head(<<a>> \o r) = a /\ Tail(<<a>> \o r) = r
    BY <2>1, ConsAt
  <2> DEFINE x == <<a>> \o r
  <2> HIDE DEF x
  <2>3. x \in Seq(Names) /\ Len(x) > 1 /\ x[1] = a
    BY <2>1, <2>2 DEF x
  <2> DEFINE z == <<a>>
  <2>4. /\ z \in Seq(Names) /\ Len(z) = 1 /\ z[1] = a
    OBVIOUS
  <2> HIDE DEF z
  <2>5. IsPrefix(z, x) /\ z # x
    <3>1. x \in Seq(Names) /\ Len(x) \in Nat /\ 1 <= Len(x)
      BY <2>3
    <3>2. \A i \in 1 .. Len(z) : z[i] = x[i]
      BY <2>3, <2>4
    <3>3. IsPrefix(z, x) <=> Len(z) <= Len(x) /\ \A i \in 1 .. Len(z) : z[i] = x[i]
      <4>1. x \in Seq(Names) /\ z \in Seq(Names)
        BY <2>4, <3>1
      <4> QED BY <4>1, PrefixAt
    <3>4. Len(z) <= Len(x) /\ z # x
      <4>1. Len(z) = 1 /\ Len(x) > 1
        BY <2>3, <2>4
      <4>2. ASSUME z = x PROVE FALSE
        <5>1. Len(z) > 1
          BY <4>1, <4>2, Zenon
        <5> QED BY <4>1, <5>1
      <4> QED BY <3>1, <4>1, <4>2
    <3> QED BY <3>2, <3>3, <3>4
  <2>6. x \in Parts
    BY <2>3 DEF Parts
  <2> QED BY <2>2, <2>3, <2>5, <2>6 DEF x, z
<1> QED BY <1>1, <1>2

\* A path is one part, or one part and the rest.
LEMMA PartsOf ==
    ASSUME NEW p \in Parts
    PROVE  /\ Head(p) \in Names /\ Len(p) \in Nat \ {0}
           /\ Len(p) = 1 => p = <<Head(p)>>
           /\ Len(p) > 1 => Tail(p) \in Parts /\ p = <<Head(p)>> \o Tail(p)
<1>1. p \in Seq(Names) /\ p # <<>>
  BY DEF Parts
<1>2. Head(p) \in Names /\ Len(p) \in Nat \ {0}
  BY <1>1
<1>3. Len(p) = 1 => p = <<Head(p)>>
  BY <1>1
<1>4. Tail(p) \in Seq(Names) /\ Len(Tail(p)) = Len(p) - 1 /\ p = <<Head(p)>> \o Tail(p)
  BY <1>1, Uncons
<1>5. ASSUME Len(p) > 1 PROVE Tail(p) \in Parts
  <2>1. Len(Tail(p)) > 0
    BY <1>2, <1>4, <1>5
  <2> QED BY <1>4, <2>1, PathLen
<1> QED BY <1>2, <1>3, <1>4, <1>5

\* into_table() gives what is below a name.
LEMMA IntoTableIs ==
    ASSUME NEW T, WellFormed(T), NEW a \in Names
    PROVE  /\ \A q : q \in DOMAIN IntoTable(T, a) <=> q \in Parts /\ <<a>> \o q \in DOMAIN T
           /\ \A q \in DOMAIN IntoTable(T, a) : IntoTable(T, a)[q] = T[<<a>> \o q]
<1> DEFINE under == {Tail(q) : q \in {r \in DOMAIN T : Len(r) > 1 /\ Head(r) = a}}
<1>1. \A p \in DOMAIN T : p \in Parts
  BY Shape
<1>2. ASSUME NEW q PROVE q \in under <=> q \in Parts /\ <<a>> \o q \in DOMAIN T
  <2>1. ASSUME q \in under PROVE q \in Parts /\ <<a>> \o q \in DOMAIN T
    <3>1. PICK r \in DOMAIN T : Len(r) > 1 /\ Head(r) = a /\ q = Tail(r)
      BY <2>1
    <3> QED BY <1>1, <3>1, PartsOf
  <2>2. ASSUME q \in Parts, <<a>> \o q \in DOMAIN T PROVE q \in under
    BY <2>2, OnePart
  <2> QED BY <2>1, <2>2
<1>3. CASE <<a>> \in DOMAIN T /\ T[<<a>>].table
  <2>1. IntoTable(T, a) = [q \in under |-> T[<<a>> \o q]]
    BY <1>3 DEF IntoTable
  <2> HIDE DEF under
  <2> QED BY <1>2, <2>1
<1>4. CASE ~(<<a>> \in DOMAIN T /\ T[<<a>>].table)
  <2>1. IntoTable(T, a) = <<>>
    BY <1>4 DEF IntoTable, Empty
  <2>2. ASSUME NEW q \in Parts, <<a>> \o q \in DOMAIN T PROVE FALSE
    BY <1>4, <2>2, OnePart, Shape
  <2>3. DOMAIN IntoTable(T, a) = {}
    BY <2>1
  <2> QED BY <2>2, <2>3
<1> QED BY <1>3, <1>4

\* The table a name leads to is well formed.
LEMMA IntoTableWellFormed ==
    ASSUME NEW T, WellFormed(T), NEW a \in Names
    PROVE  WellFormed(IntoTable(T, a))
<1> DEFINE N == IntoTable(T, a)
<1>1. /\ \A q : q \in DOMAIN N <=> q \in Parts /\ <<a>> \o q \in DOMAIN T
      /\ \A q \in DOMAIN N : N[q] = T[<<a>> \o q]
  BY IntoTableIs
<1> HIDE DEF N
<1> SUFFICES ASSUME NEW p \in DOMAIN N
             PROVE  /\ p \in Parts
                    /\ \A q \in Parts : IsPrefix(q, p) /\ q # p => q \in DOMAIN N /\ N[q].table
                    /\ N[p].table => \E q \in DOMAIN N : IsPrefix(p, q) /\ p # q
  BY Shape DEF N
<1>2. p \in Parts /\ <<a>> \o p \in DOMAIN T /\ N[p] = T[<<a>> \o p]
  BY <1>1
<1>3. \A q, r \in Parts : IsPrefix(<<a>> \o q, <<a>> \o r) <=> IsPrefix(q, r)
  BY ConsPrefix DEF Parts
<1>4. ASSUME NEW q \in Parts, IsPrefix(q, p), q # p
      PROVE  q \in DOMAIN N /\ N[q].table
  <2>1. <<a>> \o q \in Parts /\ <<a>> \o q # <<a>> \o p
    BY <1>2, <1>4, OnePart
  <2>2. <<a>> \o q \in DOMAIN T /\ T[<<a>> \o q].table
    BY <1>2, <1>3, <1>4, <2>1, Shape
  <2> QED BY <1>1, <2>2
<1>5. ASSUME N[p].table
      PROVE  \E q \in DOMAIN N : IsPrefix(p, q) /\ p # q
  <2>1. PICK y \in DOMAIN T : IsPrefix(<<a>> \o p, y) /\ <<a>> \o p # y
    BY <1>2, <1>5, Shape
  <2>2. y \in Parts /\ <<a>> \o p \in Parts
    BY <1>2, Shape, OnePart
  <2>3. Head(y) \in Names /\ Tail(y) \in Seq(Names) /\ y = <<Head(y)>> \o Tail(y)
    BY <2>2, Uncons DEF Parts
  <2>4. Head(y) = a /\ IsPrefix(p, Tail(y))
    <3>1. p \in Seq(Names)
      BY <1>2 DEF Parts
    <3>2. IsPrefix(<<a>> \o p, <<Head(y)>> \o Tail(y)) <=> a = Head(y) /\ IsPrefix(p, Tail(y))
      BY <2>3, <3>1, ConsPrefix
    <3> QED BY <2>1, <2>3, <3>2
  <2>6. Tail(y) \in Parts
    BY <1>2, <2>3, <2>4, PrefixNotEmpty
  <2>7. Tail(y) \in DOMAIN N
    BY <1>1, <2>3, <2>4, <2>6
  <2> QED BY <2>1, <2>3, <2>4, <2>7
<1> QED BY <1>2, <1>4, <1>5

-----------------------------------------------------------------------------
\* What insert() leaves.
LEMMA PutIs ==
    ASSUME NEW T, WellFormed(T), NEW a \in Names, NEW node,
           NEW B, \A p \in DOMAIN B : p \in Parts
    PROVE  /\ \A p : p \in DOMAIN Put(T, a, node, B) <=>
                /\ p \in Parts
                /\ \/ Head(p) # a /\ p \in DOMAIN T
                   \/ Head(p) = a /\ Len(p) = 1
                   \/ Head(p) = a /\ Len(p) > 1 /\ Tail(p) \in DOMAIN B
           /\ \A p \in DOMAIN Put(T, a, node, B) :
                Put(T, a, node, B)[p] =
                  IF Head(p) # a THEN T[p] ELSE IF Len(p) = 1 THEN node ELSE B[Tail(p)]
           /\ Put(T, a, node, B) =
                [p \in DOMAIN Put(T, a, node, B) |-> Put(T, a, node, B)[p]]
<1> DEFINE others == {q \in DOMAIN T : Head(q) # a}
           under  == {<<a>> \o q : q \in DOMAIN B}
           D      == others \cup {<<a>>} \cup under
<1>1. Put(T, a, node, B) =
        [p \in D |-> IF Head(p) # a THEN T[p] ELSE IF Len(p) = 1 THEN node ELSE B[Tail(p)]]
  BY DEF Put
<1>2. \A p \in DOMAIN T : p \in Parts
  BY Shape
<1>3. ASSUME NEW p
      PROVE  p \in D <=>
                /\ p \in Parts
                /\ \/ Head(p) # a /\ p \in DOMAIN T
                   \/ Head(p) = a /\ Len(p) = 1
                   \/ Head(p) = a /\ Len(p) > 1 /\ Tail(p) \in DOMAIN B
  <2>1. p \in others <=> p \in Parts /\ Head(p) # a /\ p \in DOMAIN T
    BY <1>2
  <2>2. p = <<a>> <=> p \in Parts /\ Head(p) = a /\ Len(p) = 1
    BY OnePart, PartsOf
  <2>3. p \in under <=> p \in Parts /\ Head(p) = a /\ Len(p) > 1 /\ Tail(p) \in DOMAIN B
    <3>1. ASSUME p \in under
          PROVE  p \in Parts /\ Head(p) = a /\ Len(p) > 1 /\ Tail(p) \in DOMAIN B
      <4>1. PICK q \in DOMAIN B : p = <<a>> \o q
        BY <3>1
      <4> QED BY <4>1, OnePart
    <3>2. ASSUME p \in Parts, Head(p) = a, Len(p) > 1, Tail(p) \in DOMAIN B
          PROVE  p \in under
      BY <3>2, PartsOf
    <3> QED BY <3>1, <3>2
  <2> HIDE DEF others, under
  <2> QED BY <2>1, <2>2, <2>3
<1> HIDE DEF D
<1> QED BY <1>1, <1>3

\* The tables on the way to a place.
LEMMA WayIs ==
    ASSUME NEW parts \in Parts, NEW p
    PROVE  p \in {SubSeq(parts, 1, n) : n \in 1 .. Len(parts)} <=>
             p \in Parts /\ IsPrefix(p, parts)
<1>1. parts \in Seq(Names) /\ Len(parts) \in Nat
  BY DEF Parts
<1>2. ASSUME NEW n \in 1 .. Len(parts), p = SubSeq(parts, 1, n)
      PROVE  p \in Parts /\ IsPrefix(p, parts)
  <2>1. n \in 0 .. Len(parts) /\ n \in Nat /\ n > 0 /\ n <= Len(parts)
    BY <1>1
  <2>2. p \in Seq(Names) /\ Len(p) = n /\ \A i \in 1 .. n : p[i] = parts[i]
    BY <1>1, <1>2, <2>1, PrefixOf
  <2>3. IsPrefix(p, parts)
    BY <1>1, <2>1, <2>2, PrefixAt
  <2> QED BY <2>1, <2>2, <2>3, PathLen
<1>3. ASSUME p \in Parts, IsPrefix(p, parts)
      PROVE  \E n \in 1 .. Len(parts) : p = SubSeq(parts, 1, n)
  <2>1. p \in Seq(Names) /\ Len(p) > 0
    BY <1>3, PathLen DEF Parts
  <2>2. Len(p) \in 0 .. Len(parts) /\ p = SubSeq(parts, 1, Len(p))
    BY <1>1, <1>3, <2>1, PrefixIsSubSeq
  <2>3. Len(p) \in 1 .. Len(parts)
    BY <1>1, <2>1, <2>2
  <2> QED BY <2>2, <2>3
<1> QED BY <1>2, <1>3

\* What is found where after an insertion.
LEMMA InsertedIs ==
    ASSUME NEW T, WellFormed(T), NEW parts \in Parts, NEW v
    PROVE  /\ \A p : p \in DOMAIN Inserted(T, parts, v) <=>
                /\ p \in Parts
                /\ (p \in DOMAIN T /\ ~IsPrefix(parts, p)) \/ IsPrefix(p, parts)
           /\ \A p \in DOMAIN Inserted(T, parts, v) :
                Inserted(T, parts, v)[p] =
                  IF p = parts THEN Scalar(v) ELSE IF IsPrefix(p, parts) THEN Nested ELSE T[p]
           /\ Inserted(T, parts, v) =
                [p \in DOMAIN Inserted(T, parts, v) |-> Inserted(T, parts, v)[p]]
<1> DEFINE way == {SubSeq(parts, 1, n) : n \in 1 .. Len(parts)}
           D   == {q \in DOMAIN T : ~IsPrefix(parts, q)} \cup way
<1>1. Inserted(T, parts, v) =
        [p \in D |-> IF p = parts THEN Scalar(v) ELSE IF p \in way THEN Nested ELSE T[p]]
  BY DEF Inserted
<1>2. \A p \in DOMAIN T : p \in Parts
  BY Shape
<1>3. \A p : p \in way <=> p \in Parts /\ IsPrefix(p, parts)
  BY WayIs
<1> HIDE DEF way
<1>4. \A p : p \in D <=>
        p \in Parts /\ ((p \in DOMAIN T /\ ~IsPrefix(parts, p)) \/ IsPrefix(p, parts))
  BY <1>2, <1>3
<1> HIDE DEF D
<1> QED BY <1>1, <1>3, <1>4

\* Functions that agree on one domain are equal.
LEMMA SameFunction ==
    ASSUME NEW f, NEW g, f = [x \in DOMAIN f |-> f[x]], g = [x \in DOMAIN g |-> g[x]],
           \A x : x \in DOMAIN f <=> x \in DOMAIN g, \A x \in DOMAIN f : f[x] = g[x]
    PROVE  f = g
<1>1. DOMAIN f = DOMAIN g
  OBVIOUS
<1> QED BY <1>1

-----------------------------------------------------------------------------
\* insert_parts with one part does a whole insertion.
LEMMA PlaceInserts ==
    ASSUME NEW T, WellFormed(T), NEW a \in Names, NEW v
    PROVE  Put(T, a, Scalar(v), Empty) = Inserted(T, <<a>>, v)
<1> DEFINE f == Put(T, a, Scalar(v), Empty)
           g == Inserted(T, <<a>>, v)
<1>1. <<a>> \in Parts
  BY OnePart
<1>2. DOMAIN Empty = {}
  BY DEF Empty
<1>3. /\ \A p : p \in DOMAIN f <=>
           p \in Parts /\ ((Head(p) # a /\ p \in DOMAIN T) \/ (Head(p) = a /\ Len(p) = 1))
      /\ \A p \in DOMAIN f : f[p] = IF Head(p) # a THEN T[p] ELSE Scalar(v)
      /\ f = [p \in DOMAIN f |-> f[p]]
  BY <1>2, PutIs
<1>4. /\ \A p : p \in DOMAIN g <=>
           p \in Parts /\ ((p \in DOMAIN T /\ ~IsPrefix(<<a>>, p)) \/ IsPrefix(p, <<a>>))
      /\ \A p \in DOMAIN g :
           g[p] = IF p = <<a>> THEN Scalar(v) ELSE IF IsPrefix(p, <<a>>) THEN Nested ELSE T[p]
      /\ g = [p \in DOMAIN g |-> g[p]]
  BY <1>1, InsertedIs
<1> HIDE DEF f, g
<1>5. ASSUME NEW p \in Parts
      PROVE  /\ IsPrefix(<<a>>, p) <=> Head(p) = a
             /\ IsPrefix(p, <<a>>) <=> p = <<a>>
             /\ p = <<a>> <=> Head(p) = a /\ Len(p) = 1
  <2>1. p = <<a>> <=> Head(p) = a /\ Len(p) = 1
    BY OnePart, PartsOf
  <2> DEFINE z == <<a>>
  <2>2. z \in Seq(Names) /\ Len(z) = 1 /\ z[1] = a
    OBVIOUS
  <2>3. p \in Seq(Names) /\ Len(p) \in Nat /\ Len(p) >= 1 /\ Head(p) = p[1]
    BY PartsOf, Uncons DEF Parts
  <2> HIDE DEF z
  <2>4. z \in Seq(Names) /\ p \in Seq(Names)
    BY <2>2, <2>3
  <2>5. IsPrefix(z, p) <=> Len(z) <= Len(p) /\ \A i \in 1 .. Len(z) : z[i] = p[i]
    BY <2>4, PrefixAt
  <2>6. IsPrefix(p, z) => Len(p) <= Len(z) /\ \A i \in 1 .. Len(p) : p[i] = z[i]
    BY <2>4, PrefixAt
  <2>7. IsPrefix(z, p) <=> Head(p) = a
    BY <2>2, <2>3, <2>5
  <2>8. IsPrefix(p, z) => Head(p) = a /\ Len(p) = 1
    BY <2>2, <2>3, <2>6
  <2>9. IsPrefix(z, z)
    BY <2>4, PrefixOrder
  <2> QED BY <2>1, <2>7, <2>8, <2>9 DEF z
<1>6. \A p : p \in DOMAIN f <=> p \in DOMAIN g
  BY <1>3, <1>4, <1>5
<1>7. \A p \in DOMAIN f : f[p] = g[p]
  BY <1>3, <1>4, <1>5, <1>6
<1>8. f = g
  BY <1>3, <1>4, <1>6, <1>7, SameFunction
<1> QED BY <1>8 DEF f, g

\* So does insert_parts with more, when the call for the rest has done it on the
\* nested table and that is put back.
LEMMA PutBackInserts ==
    ASSUME NEW T, WellFormed(T), NEW a \in Names, NEW r \in Parts, NEW v
    PROVE  Put(T, a, Nested, Inserted(IntoTable(T, a), r, v)) = Inserted(T, <<a>> \o r, v)
<1> DEFINE N  == IntoTable(T, a)
           R  == Inserted(N, r, v)
           ar == <<a>> \o r
           f  == Put(T, a, Nested, R)
           g  == Inserted(T, ar, v)
<1>1. ar \in Parts
  BY OnePart
<1>2. WellFormed(N)
  BY IntoTableWellFormed
<1>3. /\ \A q : q \in DOMAIN N <=> q \in Parts /\ <<a>> \o q \in DOMAIN T
      /\ \A q \in DOMAIN N : N[q] = T[<<a>> \o q]
  BY IntoTableIs
<1>11. ASSUME NEW b \in Names, NEW q \in Seq(Names)
       PROVE  /\ IsPrefix(ar, <<b>> \o q) <=> a = b /\ IsPrefix(r, q)
              /\ IsPrefix(<<b>> \o q, ar) <=> a = b /\ IsPrefix(q, r)
  <2>1. r \in Seq(Names)
    BY DEF Parts
  <2>2. IsPrefix(<<a>> \o r, <<b>> \o q) <=> a = b /\ IsPrefix(r, q)
    BY <2>1, ConsPrefix
  <2>3. IsPrefix(<<b>> \o q, <<a>> \o r) <=> b = a /\ IsPrefix(q, r)
    BY <2>1, ConsPrefix
  <2> QED BY <2>2, <2>3, Zenon
<1>12. Head(ar) = a /\ Tail(ar) = r /\ IsPrefix(<<a>>, ar) /\ <<a>> # ar
  BY OnePart
<1>13. ar = <<a>> \o r
  OBVIOUS
<1> HIDE DEF N, ar
<1>4. /\ \A q : q \in DOMAIN R <=>
           q \in Parts /\ ((q \in DOMAIN N /\ ~IsPrefix(r, q)) \/ IsPrefix(q, r))
      /\ \A q \in DOMAIN R :
           R[q] = IF q = r THEN Scalar(v) ELSE IF IsPrefix(q, r) THEN Nested ELSE N[q]
  BY <1>2, InsertedIs
<1> HIDE DEF R
<1>5. /\ \A p : p \in DOMAIN f <=>
           /\ p \in Parts
           /\ \/ Head(p) # a /\ p \in DOMAIN T
              \/ Head(p) = a /\ Len(p) = 1
              \/ Head(p) = a /\ Len(p) > 1 /\ Tail(p) \in DOMAIN R
      /\ \A p \in DOMAIN f :
           f[p] = IF Head(p) # a THEN T[p] ELSE IF Len(p) = 1 THEN Nested ELSE R[Tail(p)]
      /\ f = [p \in DOMAIN f |-> f[p]]
  BY <1>4, PutIs
<1> HIDE DEF f
<1>6. /\ \A p : p \in DOMAIN g <=>
           p \in Parts /\ ((p \in DOMAIN T /\ ~IsPrefix(ar, p)) \/ IsPrefix(p, ar))
      /\ \A p \in DOMAIN g :
           g[p] = IF p = ar THEN Scalar(v) ELSE IF IsPrefix(p, ar) THEN Nested ELSE T[p]
      /\ g = [p \in DOMAIN g |-> g[p]]
  BY <1>1, InsertedIs
<1> HIDE DEF g
<1>7. ASSUME NEW p \in Parts
      PROVE  /\ p \in DOMAIN f <=> p \in DOMAIN g
             /\ p \in DOMAIN f => f[p] = g[p]
  <2>0. /\ Head(p) \in Names /\ Tail(p) \in Seq(Names) /\ p = <<Head(p)>> \o Tail(p)
        /\ r \in Seq(Names) /\ Len(p) \in Nat \ {0}
    BY Uncons, PartsOf DEF Parts
  <2>1. CASE Head(p) # a
    <3>1. ~IsPrefix(ar, p) /\ ~IsPrefix(p, ar)
      BY <1>11, <2>0, <2>1, Zenon
    <3>2. p # ar
      BY <1>12, <2>1
    <3> QED BY <1>5, <1>6, <2>1, <3>1, <3>2
  <2>2. CASE Head(p) = a /\ Len(p) = 1
    <3>1. p = <<a>>
      BY <2>2, PartsOf
    <3>2. IsPrefix(p, ar) /\ p # ar
      BY <1>12, <3>1
    <3> QED BY <1>5, <1>6, <2>2, <3>2
  <2>3. CASE Head(p) = a /\ Len(p) > 1
    <3> DEFINE t == Tail(p)
    <3>1. t \in Parts /\ p = <<a>> \o t
      BY <2>3, PartsOf
    <3>2. /\ IsPrefix(ar, p) <=> IsPrefix(r, t)
          /\ IsPrefix(p, ar) <=> IsPrefix(t, r)
      BY <1>11, <2>0, <2>3, Zenon
    <3>4. p = ar <=> t = r
      BY <1>12, <1>13, <3>1
    <3>11. Len(p) # 1
      BY <2>0, <2>3
    <3>8. p \in DOMAIN f <=> t \in DOMAIN R
      BY <1>5, <2>3, <3>11, Zenon
    <3>10. p \in DOMAIN f => f[p] = R[t]
      BY <1>5, <2>3, <3>11, Zenon
    <3> HIDE DEF t
    <3>5. t \in DOMAIN N <=> p \in DOMAIN T
      BY <1>3, <3>1
    <3>6. t \in DOMAIN N => N[t] = T[p]
      BY <1>3, <3>1
    <3>7. t \in DOMAIN R <=> p \in DOMAIN g
      BY <1>4, <1>6, <3>1, <3>2, <3>5
    <3>9. t \in DOMAIN R => R[t] = g[p]
      BY <1>4, <1>6, <3>1, <3>2, <3>4, <3>6, <3>7
    <3> QED BY <3>7, <3>8, <3>9, <3>10
  <2> QED BY <2>0, <2>1, <2>2, <2>3
<1>8. \A p : p \in DOMAIN f <=> p \in DOMAIN g
  BY <1>5, <1>6, <1>7
<1>9. \A p \in DOMAIN f : f[p] = g[p]
  BY <1>5, <1>7
<1>10. f = g
  BY <1>5, <1>6, <1>8, <1>9, SameFunction
<1> QED BY <1>10 DEF f, g, R, N, ar

\* An insertion leaves a well-formed table.
LEMMA InsertedWellFormed ==
    ASSUME NEW T, WellFormed(T), NEW parts \in Parts, NEW v
    PROVE  WellFormed(Inserted(T, parts, v))
<1> DEFINE G == Inserted(T, parts, v)
<1>1. /\ \A p : p \in DOMAIN G <=>
           p \in Parts /\ ((p \in DOMAIN T /\ ~IsPrefix(parts, p)) \/ IsPrefix(p, parts))
      /\ \A p \in DOMAIN G :
           G[p] = IF p = parts THEN Scalar(v) ELSE IF IsPrefix(p, parts) THEN Nested ELSE T[p]
  BY InsertedIs
<1>2. Nested.table /\ ~Scalar(v).table
  BY DEF Nested, Scalar
<1>3. \A p, q, r \in Parts :
        /\ IsPrefix(p, p)
        /\ IsPrefix(p, q) /\ IsPrefix(q, r) => IsPrefix(p, r)
        /\ IsPrefix(p, q) /\ IsPrefix(q, p) => p = q
        /\ IsPrefix(p, r) /\ IsPrefix(q, r) => IsPrefix(p, q) \/ IsPrefix(q, p)
  BY PrefixOrder DEF Parts
<1> HIDE DEF G
<1> SUFFICES ASSUME NEW p \in DOMAIN G
             PROVE  /\ p \in Parts
                    /\ \A q \in Parts : IsPrefix(q, p) /\ q # p => q \in DOMAIN G /\ G[q].table
                    /\ G[p].table => \E q \in DOMAIN G : IsPrefix(p, q) /\ p # q
  BY Shape DEF G
<1>4. p \in Parts
  BY <1>1
<1>5. ASSUME NEW q \in Parts, IsPrefix(q, p), q # p
      PROVE  q \in DOMAIN G /\ G[q].table
  <2>1. CASE IsPrefix(p, parts)
    <3>1. IsPrefix(q, parts) /\ q # parts
      BY <1>3, <1>4, <1>5, <2>1
    <3> QED BY <1>1, <1>2, <3>1
  <2>2. CASE p \in DOMAIN T /\ ~IsPrefix(parts, p)
    <3>1. q \in DOMAIN T /\ T[q].table
      BY <1>5, <2>2, Shape
    <3>2. ~IsPrefix(parts, q) /\ q # parts
      BY <1>3, <1>4, <1>5, <2>2
    <3> QED BY <1>1, <1>2, <3>1, <3>2
  <2> QED BY <1>1, <2>1, <2>2
<1>6. ASSUME G[p].table
      PROVE  \E q \in DOMAIN G : IsPrefix(p, q) /\ p # q
  <2>1. p # parts
    BY <1>1, <1>2, <1>6
  <2>2. CASE IsPrefix(p, parts)
    <3>1. parts \in DOMAIN G
      BY <1>1, <1>3
    <3> QED BY <2>1, <2>2, <3>1
  <2>3. CASE ~IsPrefix(p, parts)
    <3>1. p \in DOMAIN T /\ ~IsPrefix(parts, p) /\ T[p].table
      BY <1>1, <1>6, <2>1, <2>3
    <3>2. PICK y \in DOMAIN T : IsPrefix(p, y) /\ p # y
      BY <3>1, Shape
    <3>3. y \in Parts
      BY Shape
    <3>4. ~IsPrefix(parts, y)
      BY <1>3, <1>4, <2>3, <3>1, <3>2, <3>3
    <3>5. y \in DOMAIN G
      BY <1>1, <3>3, <3>4
    <3> QED BY <3>2, <3>5
  <2> QED BY <2>2, <2>3
<1> QED BY <1>4, <1>5, <1>6

\* The values of a table after an insertion are those that one insertion into a
\* set of paths leaves.
LEMMA LeavesInserted ==
    ASSUME NEW T, WellFormed(T), NEW parts \in Parts, NEW v
    PROVE  /\ Leaves(Inserted(T, parts, v)) =
                {p \in Leaves(T) : ~(p = parts \/ IsPrefix(p, parts) \/ IsPrefix(parts, p))}
                  \cup {parts}
           /\ \A p \in Leaves(Inserted(T, parts, v)) :
                Inserted(T, parts, v)[p].value = IF p = parts THEN v ELSE T[p].value
<1> DEFINE G == Inserted(T, parts, v)
<1>1. /\ \A p : p \in DOMAIN G <=>
           p \in Parts /\ ((p \in DOMAIN T /\ ~IsPrefix(parts, p)) \/ IsPrefix(p, parts))
      /\ \A p \in DOMAIN G :
           G[p] = IF p = parts THEN Scalar(v) ELSE IF IsPrefix(p, parts) THEN Nested ELSE T[p]
  BY InsertedIs
<1>2. Nested.table /\ ~Scalar(v).table /\ Scalar(v).value = v
  BY DEF Nested, Scalar
<1>3. IsPrefix(parts, parts)
  BY PrefixOrder DEF Parts
<1>4. \A p \in DOMAIN T : p \in Parts
  BY Shape
<1> HIDE DEF G
<1>5. ASSUME NEW p
      PROVE  p \in DOMAIN G /\ ~G[p].table <=>
               \/ p = parts
               \/ /\ p \in DOMAIN T /\ ~T[p].table
                  /\ ~(p = parts \/ IsPrefix(p, parts) \/ IsPrefix(parts, p))
  BY <1>1, <1>2, <1>3, <1>4
<1>6. \A p \in DOMAIN G : ~G[p].table => G[p].value = IF p = parts THEN v ELSE T[p].value
  BY <1>1, <1>2
<1> QED BY <1>5, <1>6 DEF Leaves, G

-----------------------------------------------------------------------------
\* The calls under way are a stack.
Stack == \E S : frames \in Seq(S)

IInv == TypeOK /\ CallsNest /\ data = FromItems(items) /\ Stack

\* The keys of a dictionary are those of its items, so their parts are names.
LEMMA KeysHavePaths ==
    ASSUME NEW list \in Lists
    PROVE  \A k \in DOMAIN FromItems(list) : Path(k) \in Seq(Names)
<1>1. DOMAIN FromItems(list) = {KeyOf(list[i]) : i \in DOMAIN list}
  BY DEF FromItems
<1>2. \A i \in DOMAIN list : list[i] \in Items
  BY DEF Lists
<1> QED BY <1>1, <1>2, ConfigMapAssumption

\* The stack grows and shrinks by one.
LEMMA Push ==
    ASSUME NEW S, NEW f \in Seq(S), NEW t
    PROVE  /\ \E U : Append(f, t) \in Seq(U)
           /\ Len(Append(f, t)) = Len(f) + 1
           /\ \A i \in 1 .. Len(f) : Append(f, t)[i] = f[i]
           /\ Append(f, t)[Len(f) + 1] = t
<1>1. f \in Seq(S \cup {t})
  BY SeqDef
<1> QED BY <1>1

Cut(f, n, t) == [SubSeq(f, 1, n) EXCEPT ![n] = t]

\* A stack cut at a frame and with that frame replaced.
LEMMA Replace ==
    ASSUME NEW S, NEW f \in Seq(S), NEW n \in 1 .. Len(f), NEW t
    PROVE  /\ \E U : Cut(f, n, t) \in Seq(U)
           /\ Len(Cut(f, n, t)) = n
           /\ \A i \in 1 .. n - 1 : Cut(f, n, t)[i] = f[i]
           /\ Cut(f, n, t)[n] = t
<1> DEFINE h == SubSeq(f, 1, n)
           g == [h EXCEPT ![n] = t]
<1>1. f \in Seq(S \cup {t}) /\ n \in Nat /\ n \in 0 .. Len(f)
  BY SeqDef
<1>2. h \in Seq(S \cup {t}) /\ Len(h) = n /\ \A i \in 1 .. n : h[i] = f[i]
  BY <1>1, PrefixOf
<1> HIDE DEF h
<1>3. g \in Seq(S \cup {t}) /\ Len(g) = n
  BY <1>1, <1>2
<1>4. g[n] = t /\ \A i \in 1 .. n - 1 : g[i] = h[i]
  BY <1>1, <1>2
<1>5. \A i \in 1 .. n - 1 : g[i] = f[i]
  BY <1>1, <1>2, <1>4
<1> QED BY <1>3, <1>4, <1>5 DEF g, h, Cut

\* The last element is replaced in place.
LEMMA ReplaceLast ==
    ASSUME NEW S, NEW f \in Seq(S), Len(f) > 0, NEW t
    PROVE  LET g == [f EXCEPT ![Len(f)] = t]
           IN  /\ \E U : g \in Seq(U)
               /\ Len(g) = Len(f)
               /\ \A i \in 1 .. Len(f) - 1 : g[i] = f[i]
               /\ g[Len(f)] = t
<1> DEFINE g == [f EXCEPT ![Len(f)] = t]
<1>1. f \in Seq(S \cup {t}) /\ Len(f) \in Nat
  BY SeqDef
<1>2. g \in Seq(S \cup {t}) /\ Len(g) = Len(f)
  BY <1>1
<1>3. g[Len(f)] = t /\ \A i \in 1 .. Len(f) - 1 : g[i] = f[i]
  BY <1>1
<1> QED BY <1>2, <1>3

\* The parts that are left, and the first of them.
LEMMA PathFromIs ==
    ASSUME Path(key) \in Seq(Names), NEW n \in 1 .. Len(Path(key))
    PROVE  /\ PathFrom(n) \in Parts /\ Len(PathFrom(n)) = Len(Path(key)) - n + 1
           /\ Path(key)[n] \in Names
           /\ Head(PathFrom(n)) = Path(key)[n]
           /\ Tail(PathFrom(n)) = PathFrom(n + 1)
           /\ PathFrom(1) = Path(key)
<1> DEFINE p == Path(key)
<1>1. p \in Seq(Names) /\ n \in 1 .. Len(p) /\ Len(p) \in Nat
  OBVIOUS
<1> HIDE DEF p
<1>2. /\ SubSeq(p, n, Len(p)) \in Seq(Names)
      /\ Len(SubSeq(p, n, Len(p))) = Len(p) - n + 1
      /\ \A i \in 1 .. Len(p) - n + 1 : SubSeq(p, n, Len(p))[i] = p[n + i - 1]
  BY <1>1
<1>3. Head(SubSeq(p, n, Len(p))) = p[n] /\ p[n] \in Names
  BY <1>1, <1>2
<1>4. Tail(SubSeq(p, n, Len(p))) = SubSeq(p, n + 1, Len(p))
  BY <1>1
<1>5. SubSeq(p, 1, Len(p)) = p
  BY <1>1
<1>6. SubSeq(p, n, Len(p)) \in Parts
  <2>1. Len(SubSeq(p, n, Len(p))) > 0
    BY <1>1, <1>2
  <2> QED BY <1>2, <2>1, PathLen
<1> QED BY <1>2, <1>3, <1>4, <1>5, <1>6 DEF PathFrom, p

-----------------------------------------------------------------------------
\* While a call is under way its key has parts, and the stack is as deep as the
\* call has come.
LEMMA CallFacts ==
    ASSUME IInv
    PROVE  /\ Len(frames) \in Nat /\ Len(frames) > 0
           /\ DOMAIN frames = 1 .. Len(frames)
           /\ \A i \in 1 .. Len(frames) : WellFormed(frames[i])
           /\ Busy => /\ Path(key) \in Parts /\ Len(frames) \in 1 .. Len(Path(key))
                      /\ key \in DOMAIN data \ todo
<1>1. Len(frames) \in Nat /\ Len(frames) > 0 /\ DOMAIN frames = 1 .. Len(frames)
  BY DEF IInv, TypeOK, Stack
<1>2. \A i \in 1 .. Len(frames) : WellFormed(frames[i])
  BY <1>1 DEF IInv, TypeOK
<1>3. ASSUME Busy
      PROVE  /\ Path(key) \in Parts /\ Len(frames) \in 1 .. Len(Path(key))
             /\ key \in DOMAIN data \ todo
  <2>1. key \in DOMAIN data \ todo /\ Len(frames) <= Len(Path(key))
    BY <1>3 DEF IInv, CallsNest
  <2>2. Path(key) \in Seq(Names)
    BY <2>1, KeysHavePaths DEF IInv, TypeOK
  <2>3. Len(Path(key)) \in Nat
    BY <2>2
  <2>4. Len(Path(key)) > 0
    BY <1>1, <2>1, <2>3
  <2> QED BY <1>1, <2>1, <2>2, <2>3, <2>4, PathLen
<1> QED BY <1>1, <1>2, <1>3

\* A call with more than one part.
LEMMA DescendStep ==
    ASSUME IInv, Descend
    PROVE  IInv' /\ Busy /\ Busy' /\ frames'[1] = frames[1]
<1> DEFINE n == Len(frames)
           copy == IntoTable(frames[n], Path(key)[n])
<1>1. Busy /\ rest # <<>>
  <2>1. rest # <<>>
    BY PathLen DEF Descend, IInv, TypeOK, Parts
  <2> QED BY <2>1 DEF Busy
<1>2. /\ n \in 1 .. Len(Path(key)) /\ n \in Nat /\ n > 0
      /\ Path(key) \in Seq(Names) /\ Len(Path(key)) \in Nat
      /\ key \in DOMAIN data \ todo
  BY <1>1, CallFacts DEF Parts
<1>3. rest = PathFrom(n)
  BY <1>1 DEF IInv, CallsNest
<1>4. /\ Len(rest) = Len(Path(key)) - n + 1 /\ Head(rest) = Path(key)[n]
      /\ Tail(rest) = PathFrom(n + 1) /\ Path(key)[n] \in Names
  BY <1>2, <1>3, PathFromIs
<1>5. n + 1 \in 1 .. Len(Path(key))
  BY <1>2, <1>4 DEF Descend
<1>6. frames' = Append(frames, copy) /\ rest' = PathFrom(n + 1)
      /\ UNCHANGED <<items, data, todo, key>>
  BY <1>4 DEF Descend, Last
<1>7. WellFormed(copy)
  BY <1>2, <1>4, CallFacts, IntoTableWellFormed
<1> HIDE DEF copy
<1>8. /\ \E U : frames' \in Seq(U)
      /\ Len(frames') = n + 1
      /\ \A i \in 1 .. n : frames'[i] = frames[i]
      /\ frames'[n + 1] = copy
  <2>1. PICK S : frames \in Seq(S)
    BY DEF IInv, Stack
  <2>2. /\ \E U : Append(frames, copy) \in Seq(U)
        /\ Len(Append(frames, copy)) = n + 1
        /\ \A i \in 1 .. n : Append(frames, copy)[i] = frames[i]
        /\ Append(frames, copy)[n + 1] = copy
    BY <2>1, Push
  <2> QED BY <1>6, <2>2, Zenon
<1>9. PathFrom(n + 1) \in Seq(Names) /\ PathFrom(n + 1) # <<>>
  BY <1>2, <1>5, PathFromIs DEF Parts
<1>10. TypeOK'
  <2>1. \A i \in 1 .. n + 1 : WellFormed(frames'[i])
    BY <1>2, <1>7, <1>8, CallFacts
  <2>2. DOMAIN frames' = 1 .. n + 1
    BY <1>8
  <2> QED BY <1>2, <1>6, <1>8, <1>9, <2>1, <2>2 DEF IInv, TypeOK
<1>11. CallsNest'
  <2>1. ASSUME NEW i \in 2 .. n + 1
        PROVE  frames'[i] = IntoTable(frames'[i - 1], Path(key)[i - 1])
    <3>1. CASE i = n + 1
      <4>1. i - 1 = n /\ frames'[n] = frames[n]
        BY <1>2, <1>8, <3>1
      <4> QED BY <1>8, <3>1, <4>1 DEF copy
    <3>2. CASE i # n + 1
      <4>1. i \in 2 .. n /\ i - 1 \in 1 .. n /\ i \in 1 .. n
        BY <1>2, <3>2
      <4>2. frames[i] = IntoTable(frames[i - 1], Path(key)[i - 1])
        BY <1>1, <4>1 DEF IInv, CallsNest
      <4> QED BY <1>8, <4>1, <4>2
    <3> QED BY <3>1, <3>2
  <2>2. rest' # <<>> /\ rest' = PathFrom(n + 1)
    BY <1>6, <1>9
  <2>3. PathFrom(Len(frames))' = PathFrom(n + 1)
    BY <1>6, <1>8 DEF PathFrom
  <2>4. n + 1 <= Len(Path(key'))
    BY <1>2, <1>5, <1>6
  <2>5. key' \in DOMAIN data' \ todo'
    BY <1>2, <1>6
  <2>6. Path(key') = Path(key)
    BY <1>6
  <2> QED BY <1>8, <2>1, <2>2, <2>3, <2>4, <2>5, <2>6 DEF CallsNest
<1>12. IInv'
  BY <1>6, <1>8, <1>10, <1>11 DEF IInv, Stack
<1>13. frames'[1] = frames[1]
  BY <1>2, <1>8
<1>14. Busy'
  BY <1>6, <1>9 DEF Busy
<1> QED BY <1>1, <1>12, <1>13, <1>14

\* What a step that ends a call leaves to the calls above it, and what it does
\* to the root table.
LEMMA CallEnds ==
    ASSUME IInv, Busy, NEW m \in 1 .. Len(frames),
           rest' = <<>>, UNCHANGED <<items, data, todo, key>>,
           rest = <<>> => m < Len(frames),
           \E U : frames' \in Seq(U), Len(frames') = m,
           \A i \in 1 .. m - 1 : frames'[i] = frames[i],
           frames'[m] = Inserted(frames[m], PathFrom(m), data[key])
    PROVE  /\ IInv'
           /\ IF Busy' THEN frames'[1] = frames[1]
              ELSE frames'[1] = Inserted(frames[1], Path(key), data[key])
<1> DEFINE v == data[key]
<1>1. /\ m \in Nat /\ m > 0 /\ m <= Len(frames) /\ Len(frames) \in Nat
      /\ Path(key) \in Seq(Names) /\ Len(Path(key)) \in Nat
      /\ m \in 1 .. Len(Path(key)) /\ key \in DOMAIN data \ todo
  BY CallFacts DEF Parts
<1>2. PathFrom(m) \in Parts /\ PathFrom(1) = Path(key)
  BY <1>1, PathFromIs
<1>3. WellFormed(frames'[m])
  BY <1>1, <1>2, CallFacts, InsertedWellFormed
<1>4. \A i \in 1 .. m : WellFormed(frames'[i])
  <2> TAKE i \in 1 .. m
  <2>1. CASE i = m
    BY <1>3, <2>1
  <2>2. CASE i # m
    <3>1. i \in 1 .. m - 1 /\ i \in 1 .. Len(frames)
      BY <1>1, <2>2
    <3> QED BY <3>1, CallFacts
  <2> QED BY <2>1, <2>2
<1>5. TypeOK'
  <2>1. DOMAIN frames' = 1 .. m
    OBVIOUS
  <2>2. <<>> \in Seq(Names)
    OBVIOUS
  <2> QED BY <1>1, <1>4, <2>1, <2>2 DEF IInv, TypeOK
<1>6. CallsNest'
  <2>1. ASSUME NEW i \in 2 .. m
        PROVE  frames'[i] =
                 LET copy == IntoTable(frames'[i - 1], Path(key)[i - 1])
                 IN  IF i = m THEN Inserted(copy, PathFrom(m), v) ELSE copy
    <3>1. i \in 2 .. Len(frames) /\ i \in 1 .. m /\ i - 1 \in 1 .. m - 1
      BY <1>1
    <3>2. frames'[i - 1] = frames[i - 1]
      BY <3>1
    <3>3. rest = <<>> => i # Len(frames)
      BY <1>1
    <3>4. frames[i] = IntoTable(frames[i - 1], Path(key)[i - 1])
      BY <3>1, <3>3 DEF IInv, CallsNest
    <3>5. CASE i = m
      BY <3>2, <3>4, <3>5
    <3>6. CASE i # m
      <4>1. i \in 1 .. m - 1
        BY <1>1, <3>1, <3>6
      <4> QED BY <3>2, <3>4, <3>6, <4>1
    <3> QED BY <3>5, <3>6
  <2>2. PathFrom(Len(frames))' = PathFrom(m)
    BY DEF PathFrom
  <2>3. m <= Len(Path(key')) /\ key' \in DOMAIN data' \ todo'
    BY <1>1
  <2>4. Path(key') = Path(key) /\ data'[key'] = v
    OBVIOUS
  <2> QED BY <2>1, <2>2, <2>3, <2>4 DEF CallsNest
<1>7. IInv'
  BY <1>5, <1>6 DEF IInv, Stack
<1>8. CASE m = 1
  <2>1. ~Busy'
    BY <1>8 DEF Busy
  <2> QED BY <1>2, <1>7, <1>8, <2>1
<1>9. CASE m # 1
  <2>1. Busy'
    BY <1>1, <1>9 DEF Busy
  <2>2. 1 \in 1 .. m - 1
    BY <1>1, <1>9
  <2> QED BY <1>7, <2>1, <2>2
<1> QED BY <1>8, <1>9

\* A call with one part.
LEMMA PlaceStep ==
    ASSUME IInv, Place
    PROVE  /\ IInv' /\ Busy
           /\ IF Busy' THEN frames'[1] = frames[1]
              ELSE frames'[1] = Inserted(frames[1], Path(key), data[key])
<1> DEFINE n == Len(frames)
           t == Put(frames[n], Head(rest), Scalar(data[key]), Empty)
<1>1. Busy /\ rest # <<>>
  <2>1. rest # <<>>
    BY PathLen DEF Place, IInv, TypeOK, Parts
  <2> QED BY <2>1 DEF Busy
<1>2. /\ n \in 1 .. Len(Path(key)) /\ n \in Nat /\ n > 0 /\ n \in 1 .. n
      /\ Path(key) \in Seq(Names) /\ WellFormed(frames[n])
  BY <1>1, CallFacts DEF Parts
<1>3. rest = PathFrom(n)
  BY <1>1 DEF IInv, CallsNest
<1>4. PathFrom(n) \in Parts
  BY <1>2, PathFromIs
<1>5. Head(rest) \in Names /\ rest = <<Head(rest)>>
  BY <1>3, <1>4, PartsOf DEF Place
<1>6. t = Inserted(frames[n], PathFrom(n), data[key])
  <2>1. t = Inserted(frames[n], <<Head(rest)>>, data[key])
    BY <1>2, <1>5, PlaceInserts
  <2> QED BY <1>3, <1>5, <2>1, Zenon
<1>7. frames' = [frames EXCEPT ![n] = t] /\ rest' = <<>> /\ UNCHANGED <<items, data, todo, key>>
  BY DEF Place
<1> HIDE DEF t
<1>8. /\ \E U : frames' \in Seq(U)
      /\ Len(frames') = n
      /\ \A i \in 1 .. n - 1 : frames'[i] = frames[i]
      /\ frames'[n] = t
  <2>1. PICK S : frames \in Seq(S)
    BY DEF IInv, Stack
  <2>2. LET g == [frames EXCEPT ![n] = t]
        IN  /\ \E U : g \in Seq(U)
            /\ Len(g) = n
            /\ \A i \in 1 .. n - 1 : g[i] = frames[i]
            /\ g[n] = t
    BY <1>2, <2>1, ReplaceLast
  <2> QED BY <1>7, <2>2, Zenon
<1>9. frames'[n] = Inserted(frames[n], PathFrom(n), data[key])
  BY <1>6, <1>8
<1> QED BY <1>1, <1>2, <1>7, <1>8, <1>9, CallEnds

\* The call for the rest has returned.
LEMMA PutBackStep ==
    ASSUME IInv, PutBack
    PROVE  /\ IInv' /\ Busy
           /\ IF Busy' THEN frames'[1] = frames[1]
              ELSE frames'[1] = Inserted(frames[1], Path(key), data[key])
<1> DEFINE n == Len(frames)
           m == n - 1
           a == Path(key)[m]
           t == Put(frames[m], a, Nested, frames[n])
<1>1. n \in Nat /\ n > 0
  BY CallFacts
<1>2. m > 0 /\ rest = <<>>
  BY DEF PutBack
<1>3. Busy
  BY <1>1, <1>2 DEF Busy
<1>4. /\ n \in 1 .. Len(Path(key)) /\ Len(Path(key)) \in Nat
      /\ Path(key) \in Seq(Names) /\ WellFormed(frames[m])
      /\ m \in 1 .. n /\ m \in 1 .. Len(Path(key)) /\ n \in 2 .. n /\ m + 1 = n /\ m < n
  BY <1>1, <1>2, <1>3, CallFacts DEF Parts
<1>5. frames[n] = Inserted(IntoTable(frames[m], a), PathFrom(n), data[key])
  BY <1>2, <1>4 DEF IInv, CallsNest
<1>6. a \in Names /\ PathFrom(n) \in Parts /\ PathFrom(m) = <<a>> \o PathFrom(n)
  <2>1. /\ PathFrom(m) \in Parts /\ a \in Names
        /\ Head(PathFrom(m)) = a /\ Tail(PathFrom(m)) = PathFrom(m + 1)
    BY <1>4, PathFromIs
  <2>2. PathFrom(n) \in Parts
    BY <1>4, PathFromIs
  <2>3. PathFrom(m) = <<Head(PathFrom(m))>> \o Tail(PathFrom(m))
    BY <2>1, Uncons DEF Parts
  <2> QED BY <1>4, <2>1, <2>2, <2>3, Zenon
<1>7. t = Inserted(frames[m], PathFrom(m), data[key])
  <2>1. t = Put(frames[m], a, Nested, Inserted(IntoTable(frames[m], a), PathFrom(n), data[key]))
    BY <1>5, Zenon
  <2>2. Put(frames[m], a, Nested, Inserted(IntoTable(frames[m], a), PathFrom(n), data[key]))
          = Inserted(frames[m], <<a>> \o PathFrom(n), data[key])
    BY <1>4, <1>6, PutBackInserts
  <2> QED BY <1>6, <2>1, <2>2, Zenon
<1>8. /\ frames' = [SubSeq(frames, 1, m) EXCEPT ![m] = t]
      /\ rest' = <<>> /\ UNCHANGED <<items, data, todo, key>>
  <2>1. \A g \in {SubSeq(frames, 1, m)} :
          [g EXCEPT ![m] = Put(g[m], a, Nested, frames[n])] = [g EXCEPT ![m] = Put(@, a, Nested, frames[n])]
    OBVIOUS
  <2>2. SubSeq(frames, 1, m)[m] = frames[m]
    <3>1. PICK S : frames \in Seq(S)
      BY DEF IInv, Stack
    <3> QED BY <1>1, <1>4, <3>1
  <2>3. frames' = [SubSeq(frames, 1, m) EXCEPT ![m] = Put(SubSeq(frames, 1, m)[m], a, Nested, frames[n])]
    BY <2>1 DEF PutBack, Last
  <2> QED BY <1>2, <2>2, <2>3 DEF PutBack
<1> HIDE DEF t, m
<1>9. /\ \E U : frames' \in Seq(U)
      /\ Len(frames') = m
      /\ \A i \in 1 .. m - 1 : frames'[i] = frames[i]
      /\ frames'[m] = t
  <2>1. PICK S : frames \in Seq(S)
    BY DEF IInv, Stack
  <2>2. /\ \E U : Cut(frames, m, t) \in Seq(U)
        /\ Len(Cut(frames, m, t)) = m
        /\ \A i \in 1 .. m - 1 : Cut(frames, m, t)[i] = frames[i]
        /\ Cut(frames, m, t)[m] = t
    BY <1>4, <2>1, Replace
  <2> QED BY <1>8, <2>2 DEF Cut
<1>10. frames'[m] = Inserted(frames[m], PathFrom(m), data[key])
  BY <1>7, <1>9
<1> QED BY <1>3, <1>4, <1>8, <1>9, <1>10, CallEnds

-----------------------------------------------------------------------------
\* Nothing is under way on an empty root table.
Fresh ==
    /\ items \in Lists /\ data = FromItems(items) /\ todo = DOMAIN data
    /\ key = <<>> /\ rest = <<>> /\ frames = <<Empty>>

\* The start of a conversion satisfies the invariant.
LEMMA Rested == Fresh => IInv
<1> SUFFICES ASSUME Fresh PROVE IInv
  OBVIOUS
<1> USE DEF Fresh
<1>1. WellFormed(Empty)
  <2>1. DOMAIN Empty = {}
    BY DEF Empty
  <2> QED BY <2>1 DEF WellFormed
<1>2. frames \in Seq({Empty}) /\ Len(frames) = 1 /\ DOMAIN frames = {1} /\ frames[1] = Empty
  OBVIOUS
<1>3. \A i \in DOMAIN frames : WellFormed(frames[i])
  BY <1>1, <1>2, Zenon
<1>4. rest \in Seq(Names)
  OBVIOUS
<1>5. TypeOK
  BY <1>2, <1>3, <1>4 DEF TypeOK
<1>6. ~Busy
  BY <1>2 DEF Busy
<1>7. CallsNest
  BY <1>2, <1>6 DEF CallsNest
<1> QED BY <1>2, <1>5, <1>7 DEF IInv, Stack

\* A visit begins at the outermost table.
LEMMA VisitStep ==
    ASSUME IInv, NEW k \in todo, Visit(k)
    PROVE  IInv' /\ ~Busy /\ frames' = frames /\ (Busy' <=> Path(k) # <<>>)
<1>1. /\ k \in DOMAIN data /\ Path(k) \in Seq(Names)
      /\ ~Busy /\ rest = <<>> /\ Len(frames) = 1
  <2>1. k \in DOMAIN data /\ items \in Lists /\ data = FromItems(items)
    BY DEF IInv, TypeOK
  <2>2. Path(k) \in Seq(Names)
    BY <2>1, KeysHavePaths
  <2>3. ~Busy
    BY DEF Visit
  <2>4. rest = <<>> /\ Len(frames) = 1
    BY <2>3, CallFacts DEF Busy
  <2> QED BY <2>1, <2>2, <2>3, <2>4
<1>2. /\ key' = k /\ rest' = Path(k) /\ todo' = todo \ {k}
      /\ UNCHANGED <<items, data, frames>>
  BY DEF Visit
<1>3. TypeOK'
  BY <1>1, <1>2 DEF IInv, TypeOK
<1>4. Busy' <=> Path(k) # <<>>
  BY <1>1, <1>2 DEF Busy
<1>5. CallsNest'
  <2>1. PathFrom(Len(frames))' = Path(k)
    <3>1. SubSeq(Path(k), 1, Len(Path(k))) = Path(k)
      BY <1>1
    <3> QED BY <1>1, <1>2, <3>1 DEF PathFrom
  <2>2. Path(k) # <<>> => 1 <= Len(Path(k))
    BY <1>1, PathLen DEF Parts
  <2>3. 2 .. Len(frames)' = {}
    <3>1. Len(frames)' = 1
      BY <1>1, <1>2
    <3>2. 2 .. 1 = {}
      OBVIOUS
    <3> QED BY <3>1, <3>2, Zenon
  <2>4. Len(frames)' = 1 /\ (Busy' => Path(k) # <<>>)
    BY <1>1, <1>2, <1>4
  <2>5. key' = k /\ rest' = Path(k) /\ k \in DOMAIN data' \ todo'
    BY <1>1, <1>2
  <2> QED BY <2>1, <2>2, <2>3, <2>4, <2>5 DEF CallsNest
<1> QED BY <1>1, <1>2, <1>3, <1>4, <1>5 DEF IInv, Stack

\* An edit starts a conversion anew.
LEMMA EditStep ==
    ASSUME IInv, NEW i \in DOMAIN items, Edit(i)
    PROVE  IInv' /\ ~Busy /\ ~Busy'
<1>1. PICK item \in Items : items' = [items EXCEPT ![i] = item]
  BY DEF Edit
<1>2. items' \in Lists
  <2>1. PICK n \in 0 .. MaxItems : items \in [1 .. n -> Items]
    BY DEF IInv, TypeOK, Lists
  <2>2. items' \in [1 .. n -> Items]
    BY <1>1, <2>1
  <2> QED BY <2>2 DEF Lists
<1>3. rest' = <<>> /\ Len(frames') = 1
  BY DEF Edit, Busy
<1>4. IInv'
  <2>1. Fresh'
    BY <1>2 DEF Fresh, Edit, Busy
  <2>2. Fresh' => IInv'
    BY Rested, PTL
  <2> QED BY <2>1, <2>2
<1> QED BY <1>3, <1>4 DEF Edit, Busy

\* The stack of calls in a running conversion is what the recursion says.
THEOREM Invariant == Spec => []IInv
<1>1. Init => IInv
  BY Rested DEF Init, Fresh
<1>2. IInv /\ [Next]_vars => IInv'
  <2> SUFFICES ASSUME IInv, [Next]_vars PROVE IInv'
    OBVIOUS
  <2>1. ASSUME NEW k \in todo, Visit(k) PROVE IInv'
    BY <2>1, VisitStep
  <2>2. CASE Descend
    BY <2>2, DescendStep
  <2>3. CASE Place
    BY <2>3, PlaceStep
  <2>4. CASE PutBack
    BY <2>4, PutBackStep
  <2>5. ASSUME NEW i \in DOMAIN items, Edit(i) PROVE IInv'
    BY <2>5, EditStep
  <2>6. CASE UNCHANGED vars
    BY <2>6 DEF vars, IInv, TypeOK, Lists, CallsNest, Busy, PathFrom, Stack
  <2> QED BY <2>1, <2>2, <2>3, <2>4, <2>5, <2>6 DEF Next
<1> QED BY <1>1, <1>2, PTL DEF Spec

\* For every list of items: above a node there are only tables, and no table of
\* a configuration map is empty.
THEOREM TypeCorrect == Spec => []TypeOK
<1>1. IInv => TypeOK
  BY DEF IInv
<1> QED BY <1>1, Invariant, PTL

-----------------------------------------------------------------------------
(* The refinement.                                                         *)

todoBar    == IF Busy THEN todo \cup {key} ELSE todo
entriesBar == [p \in Leaves(map) |-> map[p].value]

\* The module of the abstract specification has the same paths and prefixes.
LEMMA SameNotions ==
    /\ \A k : Flat!Path(k) = Path(k)
    /\ \A p, q : Flat!Comparable(p, q) <=> p = q \/ IsPrefix(p, q) \/ IsPrefix(q, p)
<1>1. \A k : Flat!Path(k) = Path(k)
  BY DEF Flat!Path, Path, Flat!Separators, Separators
<1>2. \A p, q : Flat!Comparable(p, q) <=> p = q \/ IsPrefix(p, q) \/ IsPrefix(q, p)
  BY DEF Flat!Comparable, Flat!IsPrefix, IsPrefix
<1> QED BY <1>1, <1>2

\* A conversion starts as one of the flat map.
LEMMA StartMaps == Init => Flat!Start
<1> SUFFICES ASSUME Init PROVE Flat!Start
  OBVIOUS
<1>1. ~Busy
  BY DEF Init, Busy
<1>2. Leaves(map) = {}
  BY DEF Init, Leaves, map, Empty
<1> QED BY <1>1, <1>2 DEF Init, Flat!Start

\* An insertion that comes to its end is one insertion into the flat map.
LEMMA EndMaps ==
    ASSUME IInv, Busy, ~Busy', UNCHANGED <<items, data, todo, key>>,
           frames'[1] = Inserted(frames[1], Path(key), data[key]),
           NEW k, k = key
    PROVE  Flat!Insert(k)
<1> DEFINE T == frames[1]
           G == Inserted(T, Path(key), data[key])
<1>1. WellFormed(T) /\ Path(key) \in Parts /\ key \in DOMAIN data \ todo
  BY CallFacts
<1>2. Path(key) # <<>>
  BY <1>1 DEF Parts
<1>3. /\ Leaves(G) =
           {p \in Leaves(T) : ~(p = Path(key) \/ IsPrefix(p, Path(key)) \/ IsPrefix(Path(key), p))}
             \cup {Path(key)}
      /\ \A p \in Leaves(G) : G[p].value = IF p = Path(key) THEN data[key] ELSE T[p].value
  BY <1>1, LeavesInserted
<1>4. map = T /\ map' = G
  BY DEF map
<1> HIDE DEF G, T
<1> DEFINE kept == {p \in Leaves(T) : ~Flat!Comparable(p, Path(key))}
<1>5. Leaves(G) = kept \cup {Path(key)}
  BY <1>3, SameNotions
<1>6. [p \in Leaves(G) |-> G[p].value] =
        [p \in kept \cup {Path(key)} |-> IF p = Path(key) THEN data[key] ELSE T[p].value]
  BY <1>3, <1>5
<1>7. entriesBar' = [p \in kept \cup {Path(key)} |->
                       IF p = Path(key) THEN data[key] ELSE entriesBar[p]]
  BY <1>4, <1>6, <1>1 DEF entriesBar
<1>8. todoBar = todo \cup {key} /\ todoBar' = todoBar \ {key}
  BY <1>1 DEF todoBar
<1>9. DOMAIN entriesBar = Leaves(T)
  BY <1>4 DEF entriesBar
<1>10. data' = data /\ Flat!Path(key) = Path(key)
  BY SameNotions
<1>11. Flat!Path(k) = Path(key)
  BY SameNotions
<1> QED BY <1>2, <1>7, <1>8, <1>9, <1>10, <1>11 DEF Flat!Insert, entriesBar, todoBar

\* A step within an insertion is none of the flat map.
LEMMA WithinMaps ==
    ASSUME Busy, Busy', UNCHANGED <<items, data, todo, key>>, frames'[1] = frames[1]
    PROVE  UNCHANGED Flat!fvars
BY DEF Flat!fvars, map, Leaves

\* A visit is an insertion only when the key has no part; otherwise it changes
\* nothing yet.
LEMMA VisitMaps ==
    ASSUME IInv, NEW k \in todo, Visit(k)
    PROVE  [Flat!Next]_(Flat!fvars)
<1>1. /\ ~Busy /\ frames' = frames /\ (Busy' <=> Path(k) # <<>>)
      /\ key' = k /\ todo' = todo \ {k} /\ data' = data
  BY VisitStep DEF Visit
<1>2. entriesBar' = entriesBar
  BY <1>1 DEF entriesBar, map, Leaves
<1>3. CASE Path(k) # <<>>
  <2>1. todoBar' = todoBar
    BY <1>1, <1>3 DEF todoBar
  <2> QED BY <1>1, <1>2, <2>1 DEF Flat!fvars, todoBar, entriesBar
<1>4. CASE Path(k) = <<>>
  <2>1. todoBar = todo /\ todoBar' = todo \ {k}
    BY <1>1, <1>4 DEF todoBar
  <2>2. Flat!Path(k) = <<>>
    BY <1>4, SameNotions
  <2>3. Flat!Insert(k)
    BY <1>1, <1>2, <2>1, <2>2 DEF Flat!Insert, todoBar, entriesBar
  <2> QED BY <2>1, <2>3 DEF Flat!Next, todoBar
<1> QED BY <1>3, <1>4

\* The return of the outermost call is the insertion of the flat map, every
\* other step of the calls changes nothing there.
LEMMA CallMaps ==
    ASSUME IInv, Place \/ PutBack
    PROVE  [Flat!Next]_(Flat!fvars)
<1>1. /\ Busy /\ UNCHANGED <<items, data, todo, key>>
      /\ IF Busy' THEN frames'[1] = frames[1]
         ELSE frames'[1] = Inserted(frames[1], Path(key), data[key])
  BY PlaceStep, PutBackStep DEF Place, PutBack
<1>2. CASE Busy'
  BY <1>1, <1>2, WithinMaps
<1>3. CASE ~Busy'
  <2>1. PICK k : k = key
    OBVIOUS
  <2>2. Flat!Insert(k)
    BY <1>1, <1>3, <2>1, EndMaps
  <2>3. k \in IF Busy THEN todo \cup {key} ELSE todo
    BY <1>1, <2>1
  <2> QED BY <2>2, <2>3 DEF Flat!Next
<1> QED BY <1>2, <1>3

\* An edit is one of the flat map.
LEMMA EditMaps ==
    ASSUME IInv, NEW i \in DOMAIN items, Edit(i)
    PROVE  Flat!Next
<1>1. ~Busy /\ ~Busy' /\ todo = {} /\ todo' = DOMAIN data' /\ frames' = <<Empty>>
  BY EditStep DEF Edit
<1>2. Leaves(map)' = {}
  BY <1>1 DEF Leaves, map, Empty
<1> QED BY <1>1, <1>2 DEF Flat!Next, Flat!Restart

\* For every list of items and every order of visit, the recursion that copies
\* nested tables and puts them back does what one insertion into a set of paths
\* does.
THEOREM ConversionImplementsFlatMap == Spec => ImplementsFlatMap
<1>1. Init => Flat!Start
  BY StartMaps
<1>2. IInv /\ [Next]_vars => [Flat!Next]_(Flat!fvars)
  <2> SUFFICES ASSUME IInv, [Next]_vars PROVE [Flat!Next]_(Flat!fvars)
    OBVIOUS
  <2>1. ASSUME NEW k \in todo, Visit(k) PROVE [Flat!Next]_(Flat!fvars)
    BY <2>1, VisitMaps
  <2>2. CASE Descend
    <3>1. Busy /\ Busy' /\ frames'[1] = frames[1] /\ UNCHANGED <<items, data, todo, key>>
      BY <2>2, DescendStep DEF Descend
    <3> QED BY <3>1, WithinMaps
  <2>3. CASE Place \/ PutBack
    BY <2>3, CallMaps
  <2>4. ASSUME NEW i \in DOMAIN items, Edit(i) PROVE [Flat!Next]_(Flat!fvars)
    BY <2>4, EditMaps
  <2>5. CASE UNCHANGED vars
    BY <2>5 DEF vars, Flat!fvars, Busy, map, Leaves
  <2> QED BY <2>1, <2>2, <2>3, <2>4, <2>5 DEF Next
<1> QED BY <1>1, <1>2, Invariant, PTL DEF Spec, ImplementsFlatMap, Flat!Spec

-----------------------------------------------------------------------------
(* What is proved of the flat map holds of the nested tables.              *)

FlatThms == INSTANCE FlatMapProofs WITH
    todo    <- IF Busy THEN todo \cup {key} ELSE todo,
    entries <- [p \in Leaves(map) |-> map[p].value]

\* The instance that the theorems of FlatMapProofs speak of is the same.
LEMMA SameFlatMap ==
    /\ Flat!Start <=> FlatThms!Start
    /\ [Flat!Next]_(Flat!fvars) <=> [FlatThms!Next]_(FlatThms!fvars)
    /\ Flat!KeptUnlessContested <=> FlatThms!KeptUnlessContested
    /\ Flat!NothingInvented <=> FlatThms!NothingInvented
<1> USE DEF Flat!Path, FlatThms!Path, Flat!Comparable, FlatThms!Comparable,
            Flat!Separators, FlatThms!Separators, Flat!IsPrefix, FlatThms!IsPrefix
<1>1. Flat!Start <=> FlatThms!Start
  BY DEF Flat!Start, FlatThms!Start
<1>2. [Flat!Next]_(Flat!fvars) <=> [FlatThms!Next]_(FlatThms!fvars)
  BY DEF Flat!Next, FlatThms!Next, Flat!Insert, FlatThms!Insert, Flat!Restart,
         FlatThms!Restart, Flat!fvars, FlatThms!fvars
<1>3. Flat!KeptUnlessContested <=> FlatThms!KeptUnlessContested
  BY DEF Flat!KeptUnlessContested, FlatThms!KeptUnlessContested, Flat!Contested,
         FlatThms!Contested
<1>4. Flat!NothingInvented <=> FlatThms!NothingInvented
  BY DEF Flat!NothingInvented, FlatThms!NothingInvented
<1> QED BY <1>1, <1>2, <1>3, <1>4

\* In whatever order the dictionary is visited, a value is found at the path of
\* its key unless another key has a path at, above or below it.
THEOREM ValuesAreKept == Spec => []KeptUnlessContested
<1>1. Spec => Flat!Spec
  BY ConversionImplementsFlatMap DEF ImplementsFlatMap
<1>2. Flat!Spec => []Flat!KeptUnlessContested
  BY FlatThms!ValuesAreKept, SameFlatMap, PTL DEF FlatThms!Spec, Flat!Spec
<1> QED BY <1>1, <1>2, PTL DEF KeptUnlessContested

\* No value is found at a path that is not that of its key.
THEOREM NothingIsInvented == Spec => []NothingInvented
<1>1. Spec => Flat!Spec
  BY ConversionImplementsFlatMap DEF ImplementsFlatMap
<1>2. Flat!Spec => []Flat!NothingInvented
  BY FlatThms!ValuesAreThoseOfKeys, SameFlatMap, PTL DEF FlatThms!Spec, Flat!Spec
<1> QED BY <1>1, <1>2, PTL DEF NothingInvented
-----------------------------------------------------------------------------
(* The digest.                                                             *)

\* A dictionary has no more keys than the list has items.
LEMMA FinitelyManyKeys ==
    ASSUME NEW list \in Lists
    PROVE  IsFiniteSet(DOMAIN FromItems(list))
<1> DEFINE keys == DOMAIN FromItems(list)
           f == [i \in DOMAIN list |-> KeyOf(list[i])]
<1>1. keys = {KeyOf(list[i]) : i \in DOMAIN list}
  BY DEF FromItems
<1>2. IsFiniteSet(DOMAIN list)
  <2>1. PICK n \in 0 .. MaxItems : list \in [1 .. n -> Items]
    BY DEF Lists
  <2>2. n \in Int /\ DOMAIN list = 1 .. n
    BY <2>1, ConfigMapAssumption
  <2> QED BY <2>2, FS_Interval
<1>3. f \in Surjection(DOMAIN list, keys)
  BY <1>1 DEF Surjection
<1> QED BY <1>2, <1>3, FS_Surjection

\* When one value of a dictionary changes, there is one less of the old one.
LEMMA OneChange ==
    ASSUME NEW d, NEW f, DOMAIN f = DOMAIN d, IsFiniteSet(DOMAIN d),
           Cardinality({k \in DOMAIN d : f[k] # d[k]}) = 1
    PROVE  Digest(f) # Digest(d)
<1> DEFINE D == DOMAIN d
           Count(g, v) == Cardinality({k \in D : g[k] = v})
<1>1. PICK x \in D : {k \in D : f[k] # d[k]} = {x}
  <2>1. IsFiniteSet({k \in D : f[k] # d[k]})
    BY FS_Subset
  <2>2. \E x : {k \in D : f[k] # d[k]} = {x}
    BY <2>1, FS_Singleton
  <2> QED BY <2>2
<1> DEFINE v == d[x]
           had == {k \in D : d[k] = v}
<1>2. {k \in D : f[k] = v} = had \ {x} /\ x \in had
  BY <1>1
<1>3. IsFiniteSet(had)
  BY FS_Subset
<1>4. Cardinality(had) \in Nat /\ Cardinality(had \ {x}) = Cardinality(had) - 1
  BY <1>2, <1>3, FS_RemoveElement, FS_CardinalityType
<1>5. SUFFICES ASSUME Digest(f) = Digest(d) PROVE FALSE
  OBVIOUS
<1>6. [u \in Values(f) |-> Count(f, u)] = [u \in Values(d) |-> Count(d, u)]
  BY <1>5 DEF Digest
<1>7. v \in Values(d)
  BY DEF Values
<1>8. v \in Values(f) /\ Count(f, v) = Count(d, v)
  <2> HIDE DEF Count, v
  <2>1. Values(f) = Values(d)
    BY <1>6
  <2> QED BY <1>6, <1>7, <2>1
<1>9. Cardinality(had \ {x}) = Cardinality(had)
  BY <1>2, <1>8
<1> QED BY <1>4, <1>9

\* For every list the servers may publish: the digest sees every edit that adds
\* or removes a key or changes one value.
THEOREM DigestSeesEdits == Spec => DigestSeesEdit
<1>1. IInv => IsFiniteSet(DOMAIN data)
  BY FinitelyManyKeys DEF IInv, TypeOK
<1>2. ASSUME IsFiniteSet(DOMAIN data)
      PROVE  [(\/ DOMAIN data' # DOMAIN data
               \/ Cardinality({k \in DOMAIN data : data'[k] # data[k]}) = 1)
              => Digest(data') # Digest(data)]_vars
  <2>1. ASSUME DOMAIN data' # DOMAIN data
        PROVE  Digest(data') # Digest(data)
    BY <2>1 DEF Digest
  <2>2. ASSUME DOMAIN data' = DOMAIN data,
               Cardinality({k \in DOMAIN data : data'[k] # data[k]}) = 1
        PROVE  Digest(data') # Digest(data)
    BY <1>2, <2>2, OneChange
  <2> QED BY <2>1, <2>2
<1> QED BY <1>1, <1>2, Invariant, PTL DEF DigestSeesEdit
=============================================================================
