------------------------- MODULE ClientOptionsProofs -------------------------
(* Options and addresses for every list of nodes.                           *)
EXTENDS ClientOptions, ListLemmas

Text == Seq(Chars)

\* What is left after the end of a text is trimmed.
LEMMA TrimEndIs ==
    ASSUME NEW text \in Text, NEW c
    PROVE  \E n \in 0 .. Len(text) :
             /\ TrimEnd(text, c) = SubSeq(text, 1, n)
             /\ n # 0 => text[n] # c
             /\ \A i \in 1 .. Len(text) : text[i] # c => i <= n
<1> DEFINE S == {0} \cup {i \in DOMAIN text : text[i] # c}
<1>1. Len(text) \in Nat /\ DOMAIN text = 1 .. Len(text)
  BY DEF Text
<1>2. S \in SUBSET (0 .. Len(text)) /\ S # {}
  BY <1>1
<1>3. Max(S) \in S /\ \A k \in S : k <= Max(S)
  <2> HIDE DEF S
  <2> QED BY <1>1, <1>2, MaxIs
<1>4. TrimEnd(text, c) = SubSeq(text, 1, Max(S))
  BY DEF TrimEnd
<1> DEFINE n == Max(S)
<1> HIDE DEF n
<1>5. n \in S /\ \A k \in S : k <= n
  BY <1>3 DEF n
<1>6. /\ n \in 0 .. Len(text)
      /\ n # 0 => text[n] # c
      /\ \A i \in 1 .. Len(text) : text[i] # c => i <= n
  BY <1>1, <1>5
<1> QED BY <1>4, <1>6 DEF n

\* What is left after both ends of a text are trimmed.
LEMMA TrimIs ==
    ASSUME NEW text \in Text
    PROVE  \/ /\ Trim(text) = <<>>
              /\ \A i \in 1 .. Len(text) : text[i] = Blank
           \/ \E m, n \in 1 .. Len(text) :
                /\ m <= n
                /\ Trim(text) = SubSeq(text, m, n)
                /\ text[m] # Blank
                /\ \A i \in 1 .. Len(text) : text[i] # Blank => m <= i /\ i <= n
<1> DEFINE S == {i \in DOMAIN text : text[i] # Blank}
<1>1. Len(text) \in Nat /\ DOMAIN text = 1 .. Len(text)
  BY DEF Text
<1>2. CASE S = {}
  <2>1. Trim(text) = <<>>
    BY <1>2 DEF Trim
  <2> QED BY <1>1, <1>2, <2>1
<1>3. CASE S # {}
  <2>1. S \in SUBSET Nat /\ S \in SUBSET (0 .. Len(text))
    BY <1>1
  <2>2. Trim(text) = SubSeq(text, Min(S), Max(S))
    BY <1>3 DEF Trim
  <2> DEFINE m == Min(S)
             n == Max(S)
  <2>3. m \in S /\ n \in S /\ \A k \in S : m <= k /\ k <= n
    <3> HIDE DEF S
    <3>1. Min(S) \in S /\ \A k \in S : Min(S) <= k
      BY <1>3, <2>1, MinIs
    <3>2. Max(S) \in S /\ \A k \in S : k <= Max(S)
      BY <1>1, <1>3, <2>1, MaxIs
    <3> QED BY <3>1, <3>2
  <2>4. Trim(text) = SubSeq(text, m, n)
    BY <2>2
  <2> HIDE DEF m, n
  <2>5. /\ m \in 1 .. Len(text) /\ n \in 1 .. Len(text) /\ m <= n
        /\ text[m] # Blank
        /\ \A i \in 1 .. Len(text) : text[i] # Blank => m <= i /\ i <= n
    BY <1>1, <2>3
  <2> QED BY <2>4, <2>5
<1> QED BY <1>2, <1>3

\* A stretch of a text, character by character.
LEMMA StretchIs ==
    ASSUME NEW text \in Text, NEW m \in 1 .. Len(text) + 1, NEW n \in 0 .. Len(text), m <= n + 1
    PROVE  /\ SubSeq(text, m, n) \in Text
           /\ Len(SubSeq(text, m, n)) = n - m + 1
           /\ \A i \in 1 .. n - m + 1 : SubSeq(text, m, n)[i] = text[m + i - 1]
BY DEF Text

\* What a stretch contains.
LEMMA StretchIn ==
    ASSUME NEW text \in Text, NEW m \in 1 .. Len(text) + 1, NEW n \in 0 .. Len(text), m <= n + 1,
           NEW x
    PROVE  In(x, SubSeq(text, m, n)) <=> \E i \in m .. n : text[i] = x
<1> DEFINE s == SubSeq(text, m, n)
<1>1. Len(s) = n - m + 1 /\ \A i \in 1 .. n - m + 1 : s[i] = text[m + i - 1]
  BY StretchIs
<1>2. Len(text) \in Nat
  BY DEF Text
<1> HIDE DEF s
<1>3. ASSUME In(x, s) PROVE \E i \in m .. n : text[i] = x
  <2>1. PICK k \in 1 .. Len(s) : s[k] = x
    BY <1>3 DEF In
  <2>2. m + k - 1 \in m .. n /\ text[m + k - 1] = x
    BY <1>1, <1>2, <2>1
  <2> QED BY <2>2
<1>4. ASSUME NEW i \in m .. n, text[i] = x PROVE In(x, s)
  <2>1. i - m + 1 \in 1 .. Len(s) /\ m + (i - m + 1) - 1 = i
    BY <1>1, <1>2
  <2>2. s[i - m + 1] = x
    BY <1>1, <1>4, <2>1
  <2> QED BY <2>1, <2>2 DEF In
<1> QED BY <1>3, <1>4 DEF s

\* Trimming takes away the character it is told, and no other.
LEMMA TrimEndIn ==
    ASSUME NEW text \in Text, NEW c
    PROVE  /\ TrimEnd(text, c) \in Text
           /\ \A x : In(x, TrimEnd(text, c)) => In(x, text)
           /\ \A x : x # c /\ In(x, text) => In(x, TrimEnd(text, c))
           /\ TrimEnd(text, c) # <<>> => TrimEnd(text, c)[1] = text[1]
<1>1. PICK n \in 0 .. Len(text) :
        /\ TrimEnd(text, c) = SubSeq(text, 1, n)
        /\ n # 0 => text[n] # c
        /\ \A i \in 1 .. Len(text) : text[i] # c => i <= n
  BY TrimEndIs
<1>2. Len(text) \in Nat /\ 1 \in 1 .. Len(text) + 1 /\ 1 <= n + 1
  BY DEF Text
<1> DEFINE s == SubSeq(text, 1, n)
<1>3. /\ s \in Text /\ Len(s) = n
      /\ \A i \in 1 .. n : s[i] = text[i]
  <2>1. /\ s \in Text /\ Len(s) = n - 1 + 1
        /\ \A i \in 1 .. n - 1 + 1 : s[i] = text[1 + i - 1]
    BY <1>2, StretchIs
  <2> HIDE DEF s
  <2> QED BY <1>2, <2>1
<1>4. \A x : In(x, s) <=> \E i \in 1 .. n : text[i] = x
  BY <1>2, StretchIn
<1>5. \A x : In(x, s) => In(x, text)
  BY <1>2, <1>4 DEF In
<1>6. \A x : x # c /\ In(x, text) => In(x, s)
  BY <1>1, <1>2, <1>4 DEF In
<1>7. s # <<>> => s[1] = text[1]
  <2> HIDE DEF s
  <2>1. s # <<>> => 1 \in 1 .. n
    BY <1>3 DEF Text
  <2> QED BY <1>3, <2>1
<1> HIDE DEF s
<1>8. TrimEnd(text, c) = s
  BY <1>1 DEF s
<1> QED BY <1>3, <1>5, <1>6, <1>7, <1>8

\* Trimming keeps every character but blanks, and starts with none.
LEMMA TrimIn ==
    ASSUME NEW text \in Text
    PROVE  /\ Trim(text) \in Text
           /\ \A x : In(x, Trim(text)) => In(x, text)
           /\ \A x : x # Blank /\ In(x, text) => In(x, Trim(text))
           /\ Trim(text) # <<>> <=> \E x : x # Blank /\ In(x, text)
           /\ Trim(text) # <<>> => Trim(text)[1] # Blank
<1>0. Len(text) \in Nat
  BY DEF Text
<1>1. CASE Trim(text) = <<>> /\ \A i \in 1 .. Len(text) : text[i] = Blank
  <2>1. ~\E x : x # Blank /\ In(x, text)
    BY <1>1 DEF In
  <2>2. \A x : ~In(x, <<>>)
    <3>1. 1 .. Len(<<>>) = {}
      OBVIOUS
    <3> QED BY <3>1 DEF In
  <2>3. <<>> \in Text
    BY DEF Text
  <2> QED BY <1>1, <2>1, <2>2, <2>3
<1>2. ASSUME NEW m \in 1 .. Len(text), NEW n \in 1 .. Len(text), m <= n,
             Trim(text) = SubSeq(text, m, n), text[m] # Blank,
             \A i \in 1 .. Len(text) : text[i] # Blank => m <= i /\ i <= n
      PROVE  /\ Trim(text) \in Text
             /\ \A x : In(x, Trim(text)) => In(x, text)
             /\ \A x : x # Blank /\ In(x, text) => In(x, Trim(text))
             /\ Trim(text) # <<>> <=> \E x : x # Blank /\ In(x, text)
             /\ Trim(text) # <<>> => Trim(text)[1] # Blank
  <2> DEFINE s == SubSeq(text, m, n)
  <2>1. m \in 1 .. Len(text) + 1 /\ n \in 0 .. Len(text) /\ m <= n + 1
    BY <1>0, <1>2
  <2>2. /\ s \in Text /\ Len(s) = n - m + 1
        /\ \A i \in 1 .. n - m + 1 : s[i] = text[m + i - 1]
    BY <2>1, StretchIs
  <2>3. \A x : In(x, s) <=> \E i \in m .. n : text[i] = x
    BY <2>1, StretchIn
  <2> HIDE DEF s
  <2>4. \A x : In(x, s) => In(x, text)
    BY <1>0, <2>3 DEF In
  <2>5. \A x : x # Blank /\ In(x, text) => In(x, s)
    <3> SUFFICES ASSUME NEW x, x # Blank, In(x, text) PROVE In(x, s)
      OBVIOUS
    <3>1. PICK k \in 1 .. Len(text) : text[k] = x
      BY DEF In
    <3>2. k \in m .. n
      BY <1>0, <1>2, <3>1
    <3> QED BY <2>3, <3>1, <3>2
  <2>6. Len(s) > 0 /\ s[1] = text[m]
    <3>1. 1 \in 1 .. n - m + 1 /\ m + 1 - 1 = m /\ n - m + 1 > 0
      BY <1>0, <1>2
    <3> QED BY <2>2, <3>1
  <2>7. s # <<>> /\ s[1] # Blank
    BY <1>2, <2>2, <2>6
  <2>8. \E x : x # Blank /\ In(x, text)
    BY <1>2 DEF In
  <2>9. Trim(text) = s
    BY <1>2 DEF s
  <2> QED BY <2>2, <2>4, <2>5, <2>7, <2>8, <2>9
<1> QED BY <1>1, <1>2, TrimIs

-----------------------------------------------------------------------------
\* What becomes of a piece: it keeps its name, gets no comma, and becomes empty
\* only if it has no name.
LEMMA CleanedIs ==
    ASSUME NEW piece \in Text
    PROVE  /\ Cleaned(piece) \in Seq(Text)
           /\ Len(Cleaned(piece)) = IF Trim(piece) = <<>> THEN 0 ELSE 1
           /\ Trim(piece) # <<>> => Cleaned(piece)[1] = TrimEnd(Trim(piece), "/")
<1>1. Trim(piece) \in Text
  BY TrimIn
<1> DEFINE t == TrimEnd(Trim(piece), "/")
<1>2. t \in Text
  BY <1>1, TrimEndIn
<1>3. CASE Trim(piece) = <<>>
  <2>1. Cleaned(piece) = <<>>
    BY <1>3 DEF Cleaned
  <2> QED BY <1>3, <2>1
<1>4. CASE Trim(piece) # <<>>
  <2>1. Cleaned(piece) = <<t>>
    BY <1>4 DEF Cleaned
  <2> HIDE DEF t
  <2>2. <<t>> \in Seq(Text) /\ Len(<<t>>) = 1 /\ <<t>>[1] = t
    BY <1>2
  <2> QED BY <1>4, <2>1, <2>2 DEF t
<1> QED BY <1>3, <1>4

\* A name is a character that trimming leaves.
LEMMA NamedIs ==
    ASSUME NEW text \in Text
    PROVE  Named(text) <=> \E x : x \notin {Blank, "/", ","} /\ In(x, text)
<1>1. DOMAIN text = 1 .. Len(text)
  BY DEF Text
<1> DEFINE D == 1 .. Len(text)
<1>2. Named(text) <=> \E i \in D : text[i] \notin {Blank, "/", ","}
  BY <1>1 DEF Named
<1>3. \A x : In(x, text) <=> \E i \in D : text[i] = x
  BY DEF In
<1> HIDE DEF D
<1> QED BY <1>2, <1>3, Zenon

\* What becomes of a piece says an address when the piece does, gains no comma
\* and is not blank.
LEMMA CleanedKeeps ==
    ASSUME NEW piece \in Text, Trim(piece) # <<>>, NEW t, t = TrimEnd(Trim(piece), "/")
    PROVE  /\ t \in Text
           /\ Named(t) <=> Named(piece)
           /\ In(",", t) => In(",", piece)
           /\ t # <<>> => \E x : x # Blank /\ In(x, t)
<1> DEFINE u == Trim(piece)
<1>1. /\ u \in Text /\ u[1] # Blank
      /\ \A x : In(x, u) => In(x, piece)
      /\ \A x : x # Blank /\ In(x, piece) => In(x, u)
  BY TrimIn
<1> HIDE DEF u
<1>2. /\ t \in Text
      /\ \A x : In(x, t) => In(x, u)
      /\ \A x : x # "/" /\ In(x, u) => In(x, t)
      /\ t # <<>> => t[1] = u[1]
  <2>1. t = TrimEnd(u, "/")
    BY DEF u
  <2> QED BY <1>1, <2>1, TrimEndIn
<1>3. Named(t) <=> Named(piece)
  BY <1>1, <1>2, NamedIs
<1>4. t # <<>> => \E x : x # Blank /\ In(x, t)
  <2> SUFFICES ASSUME t # <<>> PROVE In(t[1], t)
    BY <1>1, <1>2
  <2>1. 1 \in 1 .. Len(t)
    BY <1>2 DEF Text
  <2> QED BY <2>1 DEF In
<1> QED BY <1>1, <1>2, <1>3, <1>4

\* A piece has no comma, and a text without a comma is one piece.
LEMMA PiecesAre ==
    ASSUME NEW text \in Text
    PROVE  /\ Pieces(text) \in Seq(Text)
           /\ \A p : In(p, Pieces(text)) => ~In(",", p)
           /\ ~In(",", text) => Pieces(text) = <<text>>
<1> DEFINE n == Len(text)
           commas == {i \in DOMAIN text : text[i] = ","}
           Before(i) == {0} \cup {j \in commas : j < i}
           Piece(i) == SubSeq(text, Max(Before(i)) + 1, i - 1)
           ends == commas \cup {n + 1}
           s == [i \in 1 .. n + 1 |-> IF i \in ends THEN <<Piece(i)>> ELSE <<>>]
<1>1. Pieces(text) = FlattenSeq(s)
  BY DEF Pieces
<1>2. n \in Nat /\ DOMAIN text = 1 .. n
  BY DEF Text
<1>9. commas \subseteq 1 .. n
  BY <1>2
<1>10. \A j \in 1 .. n : j \in commas <=> text[j] = ","
  BY <1>2
<1> HIDE DEF commas
<1>3. ends \subseteq 1 .. n + 1 /\ n + 1 \in ends /\ n + 1 \in 1 .. n + 1
  <2> HIDE DEF n
  <2> QED BY <1>2, <1>9
<1>4. ASSUME NEW i \in 1 .. n + 1
      PROVE  Piece(i) \in Text /\ ~In(",", Piece(i))
  <2>1. Before(i) \in SUBSET (0 .. i - 1) /\ Before(i) # {} /\ i - 1 \in Nat
    <3> HIDE DEF n
    <3>1. \A j \in Before(i) : j \in 0 .. i - 1
      BY <1>2, <1>9
    <3>2. Before(i) # {}
      OBVIOUS
    <3>3. i - 1 \in Nat
      BY <1>2
    <3> HIDE DEF Before
    <3> QED BY <3>1, <3>2, <3>3
  <2> DEFINE m == Max(Before(i))
  <2>2. m \in Before(i) /\ \A k \in Before(i) : k <= m
    <3> HIDE DEF Before
    <3> QED BY <2>1, MaxIs
  <2> HIDE DEF m
  <2>3. m \in 0 .. i - 1
    <3> HIDE DEF Before
    <3> QED BY <2>1, <2>2
  <2>4. ASSUME NEW k \in m + 1 .. i - 1, text[k] = "," PROVE FALSE
    <3> HIDE DEF n
    <3>1. k \in 1 .. n /\ k < i /\ m < k
      BY <1>2, <2>3
    <3>2. k \in Before(i)
      BY <1>10, <2>4, <3>1
    <3> HIDE DEF Before
    <3> QED BY <2>2, <2>3, <3>1, <3>2
  <2> DEFINE from == m + 1
             to == i - 1
  <2>5. from \in 1 .. n + 1 /\ to \in 0 .. n /\ from <= to + 1
    <3> HIDE DEF n
    <3> QED BY <1>2, <2>3
  <2>6. \A k \in from .. to : text[k] # ","
    BY <2>4
  <2>7. Piece(i) = SubSeq(text, from, to)
    BY DEF m
  <2> HIDE DEF from, to
  <2>8. SubSeq(text, from, to) \in Text
    BY <2>5, StretchIs
  <2>9. \A x : In(x, SubSeq(text, from, to)) <=> \E k \in from .. to : text[k] = x
    BY <2>5, StretchIn
  <2> HIDE DEF Piece
  <2> QED BY <2>6, <2>7, <2>8, <2>9
<1> HIDE DEF Piece, ends
<1>5. /\ s \in Seq(Seq(Text)) /\ Len(s) = n + 1
      /\ \A i \in 1 .. n + 1 : s[i] = IF i \in ends THEN <<Piece(i)>> ELSE <<>>
  <2>1. \A q \in Text : <<q>> \in Seq(Text)
    OBVIOUS
  <2>2. <<>> \in Seq(Text)
    OBVIOUS
  <2> DEFINE row(i) == IF i \in ends THEN <<Piece(i)>> ELSE <<>>
  <2>3. \A i \in 1 .. n + 1 : row(i) \in Seq(Text)
    BY <1>4, <2>1, <2>2, Zenon
  <2> HIDE DEF row
  <2>4. n + 1 \in Nat /\ s = [i \in 1 .. n + 1 |-> row(i)]
    BY <1>2 DEF row
  <2> HIDE DEF s, n
  <2>5. s \in Seq(Seq(Text)) /\ Len(s) = n + 1 /\ \A i \in 1 .. n + 1 : s[i] = row(i)
    BY <2>3, <2>4
  <2> QED BY <2>5 DEF row
<1> HIDE DEF s
<1>14. Pieces(text) \in Seq(Text)
  BY <1>1, <1>5, FlattenType
<1>6. ASSUME NEW p PROVE In(p, Pieces(text)) <=> \E i \in ends : p = Piece(i)
  <2>1. In(p, Pieces(text)) <=> \E j \in 1 .. n + 1 : In(p, s[j])
    BY <1>1, <1>5, FlattenIn
  <2>2. ASSUME NEW j \in 1 .. n + 1
        PROVE  In(p, s[j]) <=> j \in ends /\ p = Piece(j)
    <3> DEFINE q == Piece(j)
    <3>1. s[j] = IF j \in ends THEN <<q>> ELSE <<>>
      BY <1>5
    <3> HIDE DEF q
    <3>2. Len(<<q>>) = 1 /\ <<q>>[1] = q /\ Len(<<>>) = 0 /\ 1 .. 0 = {} /\ 1 .. 1 = {1}
      OBVIOUS
    <3>3. In(p, <<q>>) <=> p = q
      BY <3>2 DEF In
    <3>4. ~In(p, <<>>)
      BY <3>2 DEF In
    <3>5. CASE j \in ends
      BY <3>1, <3>3, <3>5, Zenon DEF q
    <3>6. CASE j \notin ends
      BY <3>1, <3>4, <3>6, Zenon
    <3> QED BY <3>5, <3>6
  <2> QED BY <1>3, <2>1, <2>2
<1>7. \A p : In(p, Pieces(text)) => ~In(",", p)
  BY <1>3, <1>4, <1>6
<1>8. ASSUME ~In(",", text) PROVE Pieces(text) = <<text>>
  <2>1. commas = {} /\ ends = {n + 1}
    BY <1>9, <1>10, <1>8 DEF In, ends
  <2>2. Piece(n + 1) = text
    <3>1. Before(n + 1) = {0}
      BY <2>1
    <3>2. Max({0}) = 0
      <4>1. {0} \in SUBSET (0 .. 0) /\ {0} # {} /\ 0 \in Nat
        OBVIOUS
      <4>2. Max({0}) \in {0}
        BY <4>1, MaxIs
      <4> QED BY <4>2
    <3>3. Piece(n + 1) = SubSeq(text, Max({0}) + 1, (n + 1) - 1)
      BY <3>1 DEF Piece
    <3>4. 0 + 1 = 1 /\ (n + 1) - 1 = n
      BY <1>2
    <3>5. SubSeq(text, 1, n) = text
      BY DEF Text
    <3> QED BY <3>2, <3>3, <3>4, <3>5
  <2>3. \A p : In(p, Pieces(text)) <=> p = text
    BY <1>6, <2>1, <2>2
  <2> DEFINE P == Pieces(text)
             hits == {j \in 1 .. Len(s) : Len(s[j]) = 1 /\ s[j][1] \in {text}}
  <2>4. \A j \in 1 .. n + 1 :
          /\ Len(s[j]) <= 1
          /\ Len(s[j]) = 1 /\ s[j][1] \in {text} <=> j = n + 1
    <3> TAKE j \in 1 .. n + 1
    <3>1. CASE j = n + 1
      <4>1. s[j] = <<text>>
        BY <1>3, <1>5, <2>2, <3>1
      <4> QED BY <3>1, <4>1
    <3>2. CASE j # n + 1
      <4>1. s[j] = <<>>
        BY <1>5, <2>1, <3>2
      <4> QED BY <3>2, <4>1
    <3> QED BY <3>1, <3>2
  <2>5. hits = {n + 1}
    <3>1. 1 .. Len(s) = 1 .. n + 1
      BY <1>5
    <3> QED BY <1>3, <2>4, <3>1
  <2>6. Count(P, {text}) = Cardinality(hits)
    <3>1. \A j \in 1 .. Len(s) : Len(s[j]) <= 1
      BY <1>5, <2>4
    <3>2. s \in Seq(Seq(Text))
      BY <1>5
    <3>3. Count(FlattenSeq(s), {text}) = Cardinality(hits)
      BY <3>1, <3>2, FlattenCount
    <3> QED BY <1>1, <3>3
  <2> HIDE DEF P, hits
  <2>7. P \in Seq(Text) /\ \A k \in 1 .. Len(P) : P[k] = text
    BY <1>14, <2>3 DEF P, In
  <2>8. Cardinality(1 .. Len(P)) = 1
    <3>1. {k \in 1 .. Len(P) : P[k] \in {text}} = 1 .. Len(P)
      BY <2>7
    <3>2. Cardinality({n + 1}) = 1
      BY FS_Singleton
    <3> QED BY <2>5, <2>6, <3>1, <3>2 DEF Count
  <2>9. Len(P) = 1
    <3>1. Len(P) \in Nat
      BY <2>7
    <3>2. Cardinality(1 .. Len(P)) = IF 1 > Len(P) THEN 0 ELSE Len(P) - 1 + 1
      BY <3>1, FS_Interval
    <3> QED BY <2>8, <3>1, <3>2
  <2>10. P[1] = text
    BY <2>7, <2>9
  <2> QED BY <2>7, <2>9, <2>10 DEF P
<1> QED BY <1>14, <1>7, <1>8

-----------------------------------------------------------------------------
\* A list of lists, one for each index.
LEMMA ListIs ==
    ASSUME NEW T, NEW n \in Nat, NEW f, f = [i \in 1 .. n |-> f[i]],
           \A i \in 1 .. n : f[i] \in T
    PROVE  f \in Seq(T) /\ Len(f) = n
<1>1. f \in [1 .. n -> T]
  <2>1. [i \in 1 .. n |-> f[i]] \in [1 .. n -> T]
    OBVIOUS
  <2> QED BY <2>1
<1> QED BY <1>1

\* The pieces of a list of nodes have no commas; of nodes without commas they
\* are the nodes.
LEMMA AllPiecesAre ==
    ASSUME NEW nodes \in Seq(Text)
    PROVE  /\ AllPieces(nodes) \in Seq(Text)
           /\ \A p : In(p, AllPieces(nodes)) => ~In(",", p)
           /\ (\A p : In(p, nodes) => ~In(",", p)) => AllPieces(nodes) = nodes
<1> DEFINE n == Len(nodes)
           s == [i \in DOMAIN nodes |-> Pieces(nodes[i])]
<1>1. n \in Nat /\ DOMAIN nodes = 1 .. n /\ \A i \in 1 .. n : nodes[i] \in Text
  OBVIOUS
<1>2. AllPieces(nodes) = FlattenSeq(s)
  BY DEF AllPieces
<1>3. s = [i \in 1 .. n |-> s[i]] /\ \A i \in 1 .. n : s[i] = Pieces(nodes[i])
  BY <1>1
<1> HIDE DEF s
<1>4. \A i \in 1 .. n : s[i] \in Seq(Text) /\ \A p : In(p, s[i]) => ~In(",", p)
  BY <1>1, <1>3, PiecesAre
<1>5. s \in Seq(Seq(Text)) /\ Len(s) = n
  <2> HIDE DEF n
  <2> QED BY <1>1, <1>3, <1>4, ListIs
<1>6. AllPieces(nodes) \in Seq(Text)
  BY <1>2, <1>5, FlattenType
<1>7. \A p : In(p, AllPieces(nodes)) <=> \E i \in 1 .. n : In(p, s[i])
  BY <1>2, <1>5, FlattenIn
<1>8. ASSUME \A p : In(p, nodes) => ~In(",", p)
      PROVE  AllPieces(nodes) = nodes
  <2>1. \A i \in 1 .. n : s[i] = <<nodes[i]>>
    <3> TAKE i \in 1 .. n
    <3>1. ~In(",", nodes[i])
      BY <1>8 DEF In
    <3> QED BY <1>1, <1>3, <3>1, PiecesAre
  <2>2. \A i \in 1 .. Len(s) : Len(s[i]) = 1 /\ s[i][1] = nodes[i]
    <3>1. \A x : Len(<<x>>) = 1 /\ <<x>>[1] = x
      OBVIOUS
    <3> QED BY <1>5, <2>1, <3>1, Zenon
  <2>3. FlattenSeq(s) = [i \in 1 .. Len(s) |-> s[i][1]]
    BY <1>5, <2>2, FlattenSingles
  <2>4. [i \in 1 .. Len(s) |-> s[i][1]] = [i \in 1 .. n |-> nodes[i]]
    BY <1>5, <2>2
  <2>5. [i \in 1 .. n |-> nodes[i]] = nodes
    OBVIOUS
  <2> QED BY <1>2, <2>3, <2>4, <2>5
<1> QED BY <1>4, <1>6, <1>7, <1>8

\* What normalize_nodes returns is what its pieces become, and no address is
\* lost or won.
LEMMA NormalizeIs ==
    ASSUME NEW nodes \in Seq(Text)
    PROVE  /\ NormalizeNodes(nodes) \in Seq(Text)
           /\ \A t : In(t, NormalizeNodes(nodes)) <=>
                \E p : /\ In(p, AllPieces(nodes)) /\ p \in Text
                       /\ Trim(p) # <<>> /\ t = TrimEnd(Trim(p), "/")
           /\ Addresses(NormalizeNodes(nodes)) = Addresses(AllPieces(nodes))
<1> DEFINE P == AllPieces(nodes)
           n == Len(P)
           s == [i \in DOMAIN P |-> Cleaned(P[i])]
           N == NormalizeNodes(nodes)
           M == {t \in Text : Named(t)}
<1>1. P \in Seq(Text)
  BY AllPiecesAre
<1>2. N = FlattenSeq(s)
  BY DEF NormalizeNodes
<1> HIDE DEF P, N
<1>3. n \in Nat /\ DOMAIN P = 1 .. n /\ \A i \in 1 .. n : P[i] \in Text
  BY <1>1
<1>4. s = [i \in 1 .. n |-> s[i]] /\ \A i \in 1 .. n : s[i] = Cleaned(P[i])
  BY <1>3
<1> HIDE DEF s
<1>5. \A i \in 1 .. n :
        /\ s[i] \in Seq(Text)
        /\ Len(s[i]) = IF Trim(P[i]) = <<>> THEN 0 ELSE 1
        /\ Trim(P[i]) # <<>> => s[i][1] = TrimEnd(Trim(P[i]), "/")
  BY <1>3, <1>4, CleanedIs
<1>6. s \in Seq(Seq(Text)) /\ Len(s) = n
  <2> HIDE DEF n
  <2> QED BY <1>3, <1>4, <1>5, ListIs
<1>7. N \in Seq(Text)
  BY <1>2, <1>6, FlattenType
<1>8. ASSUME NEW t
      PROVE  In(t, N) <=> \E p : /\ In(p, P) /\ p \in Text
                                 /\ Trim(p) # <<>> /\ t = TrimEnd(Trim(p), "/")
  <2>1. In(t, N) <=> \E i \in 1 .. n : In(t, s[i])
    BY <1>2, <1>6, FlattenIn
  <2>2. \A i \in 1 .. n : In(t, s[i]) <=> Trim(P[i]) # <<>> /\ t = TrimEnd(Trim(P[i]), "/")
    <3> TAKE i \in 1 .. n
    <3>1. CASE Trim(P[i]) = <<>>
      <4>1. 1 .. Len(s[i]) = {}
        BY <1>5, <3>1
      <4> QED BY <3>1, <4>1 DEF In
    <3>2. CASE Trim(P[i]) # <<>>
      <4>1. 1 .. Len(s[i]) = {1} /\ s[i][1] = TrimEnd(Trim(P[i]), "/")
        BY <1>5, <3>2
      <4> QED BY <3>2, <4>1 DEF In
    <3> QED BY <3>1, <3>2
  <2>3. \A p : In(p, P) <=> \E i \in 1 .. n : P[i] = p
    BY DEF In
  <2> QED BY <1>3, <2>1, <2>2, <2>3
<1>9. Addresses(N) = Addresses(P)
  <2>1. Addresses(N) = Count(N, M)
    <3>1. DOMAIN N = 1 .. Len(N) /\ \A i \in 1 .. Len(N) : N[i] \in Text
      BY <1>7
    <3>2. {i \in DOMAIN N : Named(N[i])} = {i \in 1 .. Len(N) : N[i] \in M}
      BY <3>1
    <3> QED BY <3>2 DEF Addresses, Count
  <2>2. Count(N, M) = Cardinality({i \in 1 .. n : Len(s[i]) = 1 /\ s[i][1] \in M})
    <3>1. \A i \in 1 .. Len(s) : Len(s[i]) <= 1
      <4> TAKE i \in 1 .. Len(s)
      <4>1. i \in 1 .. n
        BY <1>6
      <4>2. CASE Trim(P[i]) = <<>>
        BY <1>5, <4>1, <4>2
      <4>3. CASE Trim(P[i]) # <<>>
        BY <1>5, <4>1, <4>3
      <4> QED BY <4>2, <4>3
    <3> HIDE DEF M
    <3>2. Count(FlattenSeq(s), M) = Cardinality({i \in 1 .. Len(s) : Len(s[i]) = 1 /\ s[i][1] \in M})
      BY <1>6, <3>1, FlattenCount
    <3> QED BY <1>2, <1>6, <3>2
  <2>3. \A i \in 1 .. n : Len(s[i]) = 1 /\ s[i][1] \in M <=> Named(P[i])
    <3> TAKE i \in 1 .. n
    <3>0. P[i] \in Text
      BY <1>3
    <3>1. CASE Trim(P[i]) = <<>>
      <4>1. ~Named(P[i])
        BY <3>0, <3>1, TrimIn, NamedIs
      <4> QED BY <1>5, <3>1, <4>1
    <3>2. CASE Trim(P[i]) # <<>>
      <4> DEFINE t == TrimEnd(Trim(P[i]), "/")
      <4>1. t \in Text /\ (Named(t) <=> Named(P[i]))
        BY <3>0, <3>2, CleanedKeeps
      <4>2. Len(s[i]) = 1 /\ s[i][1] = t
        BY <1>5, <3>2
      <4> HIDE DEF t
      <4> QED BY <4>1, <4>2
    <3> QED BY <3>1, <3>2
  <2>4. {i \in 1 .. n : Len(s[i]) = 1 /\ s[i][1] \in M} = {i \in DOMAIN P : Named(P[i])}
    BY <1>3, <2>3
  <2> QED BY <2>1, <2>2, <2>4 DEF Addresses
<1> QED BY <1>7, <1>8, <1>9 DEF P, N

-----------------------------------------------------------------------------
\* The inductive invariant.  Normalising once more may empty a node that has no
\* name, so what such a node stems from is kept as well, and that a node is not
\* blank and has no comma.
Stems == \E i \in DOMAIN AllPieces(given) :
             Trim(AllPieces(given)[i]) # <<>> /\ ~Named(AllPieces(given)[i])

Settled ==
    /\ options.app_id = "name"
    /\ options.interval # "zero"
    /\ options.nodes # <<>>
    /\ options.encrypt => MayEncrypt
    /\ Addresses(options.nodes) = Addresses(AllPieces(given))
    /\ \A t : In(t, options.nodes) =>
         /\ ~In(",", t)
         /\ t # <<>> => \E x : x # Blank /\ In(x, t)
         /\ ~Named(t) => Stems

OptionsInv ==
    /\ options \in [app_id : {"blank", "padded", "name"}, nodes : Seq(Text),
                    interval : {"zero", "set", "default"}, encrypt : BOOLEAN]
    /\ given \in Seq(Text)
    /\ stage \in {"fields", "options", "client",
                  "EmptyAppId", "EmptyNodes", "CacheEncryptDisabled"}
    /\ stage = "fields" => options.nodes = given
    /\ stage \in {"options", "client"} => Settled

\* The indices of a list of texts.
LEMMA ListDomain == \A list \in Seq(Text) : DOMAIN list = 1 .. Len(list)
OBVIOUS

\* One normalisation settles the fields of an application, and a second one
\* keeps what is settled.
LEMMA NodesSettle ==
    ASSUME OptionsInv, stage \in {"fields", "options"}
    PROVE  /\ NormalizeNodes(options.nodes) \in Seq(Text)
           /\ Addresses(NormalizeNodes(options.nodes)) = Addresses(AllPieces(given))
           /\ \A t : In(t, NormalizeNodes(options.nodes)) =>
                /\ ~In(",", t)
                /\ t # <<>> => \E x : x # Blank /\ In(x, t)
                /\ ~Named(t) => Stems
<1> DEFINE nodes == options.nodes
           N == NormalizeNodes(nodes)
           P == AllPieces(nodes)
<1>1. nodes \in Seq(Text) /\ given \in Seq(Text)
  BY DEF OptionsInv
<1>2. /\ N \in Seq(Text)
      /\ \A t : In(t, N) <=> \E p : /\ In(p, P) /\ p \in Text
                                    /\ Trim(p) # <<>> /\ t = TrimEnd(Trim(p), "/")
      /\ Addresses(N) = Addresses(P)
  BY <1>1, NormalizeIs
<1>3. P \in Seq(Text) /\ \A p : In(p, P) => ~In(",", p)
  BY <1>1, AllPiecesAre
<1>4. stage = "options" => P = nodes
  <2>1. stage = "options" => \A p : In(p, nodes) => ~In(",", p)
    BY DEF OptionsInv, Settled
  <2> QED BY <1>1, <2>1, AllPiecesAre
<1>5. Addresses(P) = Addresses(AllPieces(given))
  <2>1. CASE stage = "fields"
    BY <2>1 DEF OptionsInv
  <2>2. CASE stage = "options"
    BY <1>4, <2>2 DEF OptionsInv, Settled
  <2> QED BY <2>1, <2>2
<1>6. ASSUME NEW p, In(p, P), Trim(p) # <<>>, ~Named(p) PROVE Stems
  <2>1. CASE stage = "fields"
    <3>1. nodes = given
      BY <2>1 DEF OptionsInv
    <3>2. DOMAIN P = 1 .. Len(P)
      BY <1>3, ListDomain, Zenon
    <3>3. \E i \in DOMAIN P : P[i] = p
      BY <1>6, <3>2 DEF In
    <3> QED BY <1>6, <3>1, <3>3 DEF Stems
  <2>2. CASE stage = "options"
    BY <1>4, <1>6, <2>2 DEF OptionsInv, Settled
  <2> QED BY <2>1, <2>2
<1> HIDE DEF N, P
<1>7. ASSUME NEW t, In(t, N)
      PROVE  /\ ~In(",", t)
             /\ t # <<>> => \E x : x # Blank /\ In(x, t)
             /\ ~Named(t) => Stems
  <2>1. PICK p : /\ In(p, P) /\ p \in Text
                 /\ Trim(p) # <<>> /\ t = TrimEnd(Trim(p), "/")
    BY <1>2, <1>7
  <2>2. /\ Named(t) <=> Named(p)
        /\ In(",", t) => In(",", p)
        /\ t # <<>> => \E x : x # Blank /\ In(x, t)
    BY <2>1, CleanedKeeps
  <2> QED BY <1>3, <1>6, <2>1, <2>2
<1> QED BY <1>2, <1>5, <1>7 DEF N, P

\* Normalising, in build_options() or in Client::new, keeps the invariant.
LEMMA NormalizeStep ==
    ASSUME OptionsInv, stage \in {"fields", "options"}, NEW next \in {"options", "client"},
           Normalize(next), given' = given
    PROVE  OptionsInv'
<1>1. CASE Rejection(options) = "none"
  <2>1. stage' = next /\ options' = Normalized(options)
    BY <1>1 DEF Normalize
  <2>2. /\ options.app_id # "blank" /\ NormalizeNodes(options.nodes) # <<>>
        /\ options.encrypt => MayEncrypt
    BY <1>1 DEF Rejection
  <2>3. /\ options'.app_id = "name" /\ options'.nodes = NormalizeNodes(options.nodes)
        /\ options'.interval = IF options.interval = "zero" THEN "default" ELSE options.interval
        /\ options'.encrypt = options.encrypt
    BY <2>1 DEF Normalized, OptionsInv
  <2>4. options' \in [app_id : {"blank", "padded", "name"}, nodes : Seq(Text),
                      interval : {"zero", "set", "default"}, encrypt : BOOLEAN]
    <3>1. NormalizeNodes(options.nodes) \in Seq(Text)
      BY NodesSettle
    <3> QED BY <2>1, <3>1 DEF Normalized, OptionsInv
  <2>5. Stems' <=> Stems
    BY DEF Stems
  <2>6. Settled'
    <3>1. options'.interval # "zero"
      BY <2>3
    <3>2. Addresses(options'.nodes) = Addresses(AllPieces(given'))
      BY <2>3, NodesSettle
    <3>3. \A t : In(t, options'.nodes) =>
            /\ ~In(",", t)
            /\ t # <<>> => \E x : x # Blank /\ In(x, t)
            /\ ~Named(t) => Stems'
      BY <2>3, <2>5, NodesSettle
    <3> QED BY <2>2, <2>3, <3>1, <3>2, <3>3 DEF Settled
  <2>7. given' \in Seq(Text) /\ stage' \in {"options", "client"}
    BY <2>1 DEF OptionsInv
  <2> QED BY <2>4, <2>6, <2>7 DEF OptionsInv
<1>2. CASE Rejection(options) # "none"
  <2>1. stage' = Rejection(options) /\ options' = options
    BY <1>2 DEF Normalize
  <2>2. stage' \in {"EmptyAppId", "EmptyNodes", "CacheEncryptDisabled"}
    BY <1>2, <2>1 DEF Rejection
  <2> QED BY <2>1, <2>2 DEF OptionsInv
<1> QED BY <1>1, <1>2

\* Once options are normalised, by whomever, they stay settled.
THEOREM OptionsInvariant == OptionsSpec => []OptionsInv
<1>1. OptionsInit => OptionsInv
  <2> SUFFICES ASSUME OptionsInit PROVE OptionsInv
    OBVIOUS
  <2>1. options.nodes \in Seq(Text)
    BY ClientOptionsAssumption DEF OptionsInit, Fields, Text
  <2> QED BY <2>1 DEF OptionsInit, OptionsInv, Fields
<1>2. OptionsInv /\ [OptionsNext]_settings => OptionsInv'
  <2> SUFFICES ASSUME OptionsInv, [OptionsNext]_settings PROVE OptionsInv'
    OBVIOUS
  <2>1. CASE BuildOptions
    BY <2>1, NormalizeStep DEF BuildOptions
  <2>2. CASE NewClient
    BY <2>2, NormalizeStep DEF NewClient
  <2>3. ASSUME NEW n \in DOMAIN options.nodes, Dial(n) PROVE OptionsInv'
    BY <2>3 DEF Dial, OptionsInv, Settled, Stems
  <2>4. CASE UNCHANGED settings
    BY <2>4 DEF settings, OptionsInv, Settled, Stems
  <2> QED BY <2>1, <2>2, <2>3, <2>4 DEF OptionsNext
<1> QED BY <1>1, <1>2, PTL DEF OptionsSpec

\* A client has an application id, intervals that make its loops wait, nodes,
\* and encryption only if it is built in.
THEOREM ClientsAreUsable == OptionsSpec => []ClientUsable
<1>1. OptionsInv => ClientUsable
  BY DEF OptionsInv, Settled, ClientUsable
<1> QED BY <1>1, OptionsInvariant, PTL

\* For every list of nodes: no address is lost or won, and an empty one stems
\* from a piece of slashes and blanks.
THEOREM NodesAreAccounted == OptionsSpec => []NodesAccounted
<1>1. OptionsInv => NodesAccounted
  <2> SUFFICES ASSUME OptionsInv, stage \in {"options", "client"},
                      NEW i \in DOMAIN options.nodes, options.nodes[i] = <<>>
               PROVE  Stems
    BY DEF OptionsInv, Settled, NodesAccounted, Stems
  <2>1. DOMAIN options.nodes = 1 .. Len(options.nodes)
    BY DEF OptionsInv
  <2>2. In(<<>>, options.nodes)
    BY <2>1 DEF In
  <2>3. ~Named(<<>>)
    BY DEF Named
  <2> QED BY <2>2, <2>3 DEF OptionsInv, Settled
<1> QED BY <1>1, OptionsInvariant, PTL

\* What build_options() returns, Client::new accepts, unless all its nodes have
\* become empty.
THEOREM BuiltOptionsAccepted == OptionsSpec => BuiltOptionsAreAccepted
<1>1. ASSUME OptionsInv, [OptionsNext]_settings, stage = "options"
      PROVE  \/ stage' = "client"
             \/ options.nodes # <<>> /\ \A i \in DOMAIN options.nodes : options.nodes[i] = <<>>
             \/ UNCHANGED settings
  <2>1. Settled /\ options.nodes \in Seq(Text)
    BY <1>1 DEF OptionsInv
  <2>2. CASE NewClient
    <3> SUFFICES ASSUME NEW i \in DOMAIN options.nodes, options.nodes[i] # <<>>
                 PROVE  stage' = "client"
      BY <2>1 DEF Settled
    <3> DEFINE t == options.nodes[i]
    <3>1. t \in Text /\ In(t, options.nodes)
      <4>1. DOMAIN options.nodes = 1 .. Len(options.nodes)
        BY <2>1
      <4> QED BY <2>1, <4>1 DEF In
    <3> HIDE DEF t
    <3>2. t # <<>>
      BY DEF t
    <3>3. Trim(t) # <<>>
      BY <2>1, <3>1, <3>2, TrimIn DEF Settled
    <3>4. AllPieces(options.nodes) = options.nodes
      BY <2>1, AllPiecesAre DEF Settled
    <3>5. In(TrimEnd(Trim(t), "/"), NormalizeNodes(options.nodes))
      BY <2>1, <3>1, <3>3, <3>4, NormalizeIs
    <3>6. NormalizeNodes(options.nodes) # <<>>
      <4>1. 1 .. Len(<<>>) = {}
        OBVIOUS
      <4> QED BY <3>5, <4>1 DEF In
    <3>7. Rejection(options) = "none"
      BY <2>1, <3>6 DEF Rejection, Settled
    <3> QED BY <2>2, <3>7 DEF NewClient, Normalize
  <2>3. CASE UNCHANGED settings
    BY <2>3
  <2>4. ~BuildOptions /\ \A n : ~Dial(n)
    BY <1>1 DEF BuildOptions, Dial
  <2> QED BY <1>1, <2>2, <2>3, <2>4 DEF OptionsNext
<1>2. OptionsInv /\ [OptionsNext]_settings =>
        [stage = "options" =>
           \/ stage' = "client"
           \/ options.nodes # <<>> /\ \A i \in DOMAIN options.nodes : options.nodes[i] = <<>>]_settings
  BY <1>1
<1> QED BY <1>2, OptionsInvariant, PTL DEF OptionsSpec, BuiltOptionsAreAccepted

-----------------------------------------------------------------------------
(* The address.                                                            *)

Start(text, n) == SubSeq(text, 1, n)

\* Where all characters are ASCII, a text takes as many bytes.
LEMMA BytesOf ==
    ASSUME NEW text \in Text, NEW n \in 0 .. Len(text)
    PROVE  /\ Bytes(Start(text, n)) \in Nat /\ n <= Bytes(Start(text, n))
           /\ (\A i \in 1 .. n : text[i] \notin Wide) => Bytes(Start(text, n)) = n
<1> DEFINE s == Start(text, n)
           wide == {i \in DOMAIN s : s[i] \in Wide}
<1>1. n \in Nat /\ 1 \in 1 .. Len(text) + 1 /\ 1 <= n + 1 /\ Len(text) \in Nat
  BY DEF Text
<1>2. s \in Text /\ Len(s) = n /\ \A i \in 1 .. n : s[i] = text[i]
  <2>1. /\ s \in Text /\ Len(s) = n - 1 + 1
        /\ \A i \in 1 .. n - 1 + 1 : s[i] = text[1 + i - 1]
    BY <1>1, StretchIs DEF Start
  <2> HIDE DEF s
  <2> QED BY <1>1, <2>1
<1>3. Bytes(s) = Len(s) + Cardinality(wide)
  BY DEF Bytes
<1> HIDE DEF s
<1>4. DOMAIN s = 1 .. n
  BY <1>2 DEF Text
<1>5. IsFiniteSet(wide) /\ Cardinality(wide) \in Nat
  <2>1. IsFiniteSet(1 .. n)
    BY <1>1, FS_Interval
  <2>2. IsFiniteSet(wide)
    BY <1>4, <2>1, FS_Subset
  <2> QED BY <2>2, FS_CardinalityType
<1>6. ASSUME \A i \in 1 .. n : text[i] \notin Wide
      PROVE  Cardinality(wide) = 0
  <2>1. wide = {}
    BY <1>2, <1>4, <1>6
  <2> QED BY <2>1, FS_EmptySet
<1> HIDE DEF wide
<1> QED BY <1>1, <1>2, <1>3, <1>5, <1>6 DEF s

\* Of a text whose first eight characters are ASCII, stripping a prefix of at
\* most eight gives the rest, or nothing when the text begins otherwise.
LEMMA StripIs ==
    ASSUME NEW text \in Text, \A i \in DOMAIN text : i <= 8 => text[i] \notin Wide,
           NEW prefix \in Text, Len(prefix) <= 8
    PROVE  StripPrefix(text, prefix) =
             IF IsPrefix(prefix, Lower(text))
             THEN Url(SubSeq(text, Len(prefix) + 1, Len(text))) ELSE Absent
<1> DEFINE n == Len(text)
           k == Len(prefix)
<1>1. n \in Nat /\ k \in Nat /\ k <= 8 /\ DOMAIN text = 1 .. n
  BY DEF Text
<1>2. /\ Len(Lower(text)) = n /\ DOMAIN Lower(text) = 1 .. n
      /\ Lower(text) = [i \in 1 .. n |-> LowerOf(text[i])]
  BY <1>1 DEF Lower
<1>3. ASSUME NEW j \in 0 .. n
      PROVE  /\ Bytes(Start(text, j)) \in Nat /\ j <= Bytes(Start(text, j))
             /\ j <= 8 => Bytes(Start(text, j)) = j
  <2>1. j <= 8 => \A i \in 1 .. j : text[i] \notin Wide
    <3> HIDE DEF n
    <3> QED BY <1>1
  <2> QED BY <2>1, BytesOf
<1>4. Start(text, n) = text /\ n \in 0 .. n
  BY DEF Start, Text
<1>5. SubSeq(prefix, 1, k) = prefix
  BY DEF Text
<1>6. CASE n < k
  <2>1. Bytes(text) = n
    <3>1. n <= 8 /\ n \in 0 .. n
      <4> HIDE DEF n, k
      <4> QED BY <1>1, <1>6
    <3>2. Bytes(Start(text, n)) = n
      BY <1>3, <3>1
    <3> QED BY <1>4, <3>2, Zenon
  <2>2. Bytes(text) < Len(prefix)
    BY <1>6, <2>1
  <2>3. ~IsPrefix(prefix, Lower(text))
    <3>1. ~(k <= n)
      <4> HIDE DEF n, k
      <4> QED BY <1>1, <1>6
    <3> QED BY <1>2, <3>1 DEF IsPrefix
  <2> QED BY <2>2, <2>3 DEF StripPrefix
<1>7. CASE k <= n
  <2>1. ~(Bytes(text) < Len(prefix))
    <3>1. Bytes(text) \in Nat /\ n <= Bytes(text)
      BY <1>3, <1>4
    <3> DEFINE b == Bytes(text)
    <3> HIDE DEF b, n, k
    <3>2. ~(b < k)
      BY <1>1, <1>7, <3>1 DEF b
    <3> QED BY <3>2 DEF b, k
  <2>2. Heads(text, k) = {Start(text, k)}
    <3>1. \A j \in 0 .. n : Bytes(SubSeq(text, 1, j)) = k <=> j = k
      <4> TAKE j \in 0 .. n
      <4> DEFINE b == Bytes(Start(text, j))
      <4>1. b \in Nat /\ j <= b /\ (j <= 8 => b = j)
        BY <1>3
      <4> HIDE DEF b, n, k
      <4>2. b = k <=> j = k
        BY <1>1, <4>1
      <4> QED BY <4>2 DEF b, Start
    <3>2. k \in 0 .. n
      BY <1>1, <1>7
    <3>3. {j \in 0 .. Len(text) : Bytes(SubSeq(text, 1, j)) = k} = {k}
      <4> HIDE DEF k
      <4> QED BY <3>1, <3>2
    <3> QED BY <3>3 DEF Heads, Start
  <2>3. Lower(Start(text, k)) = SubSeq(Lower(text), 1, k)
    <3>1. k \in 0 .. n
      BY <1>1, <1>7
    <3>2. Start(text, k) = [i \in 1 .. k |-> text[i]]
      BY <1>1, <3>1 DEF Start, Text
    <3>3. Lower(Start(text, k)) = [i \in 1 .. k |-> LowerOf(text[i])]
      BY <3>2 DEF Lower
    <3>4. SubSeq(Lower(text), 1, k) = [i \in 1 .. k |-> Lower(text)[i]]
      BY <1>2, <3>1
    <3>5. \A i \in 1 .. k : Lower(text)[i] = LowerOf(text[i])
      <4>1. \A i \in 1 .. k : i \in 1 .. n
        <5> HIDE DEF n, k
        <5> QED BY <1>1, <1>7
      <4> QED BY <1>2, <4>1
    <3> QED BY <3>3, <3>4, <3>5
  <2>4. IsPrefix(prefix, Lower(text)) <=> Lower(Start(text, k)) = prefix
    BY <1>2, <1>5, <1>7, <2>3 DEF IsPrefix
  <2>5. StripPrefix(text, prefix) =
          IF Lower(Start(text, k)) = prefix
          THEN Url(SubSeq(text, Len(prefix) + 1, Len(text))) ELSE Absent
    BY <2>1, <2>2 DEF StripPrefix
  <2> QED BY <2>4, <2>5
<1> QED BY <1>1, <1>6, <1>7

\* The four prefixes.
LEMMA SchemesAre ==
    /\ DOMAIN Schemes = 1 .. 4
    /\ \A n \in 1 .. 4 : Schemes[n] \in Text /\ Len(Schemes[n]) \in 1 .. 8
    /\ Len(Https) = 8
<1>0. /\ "h" \in Chars /\ "t" \in Chars /\ "p" \in Chars /\ "s" \in Chars
      /\ "w" \in Chars /\ ":" \in Chars /\ "/" \in Chars
  BY ClientOptionsAssumption
<1>1. Https \in Text /\ Len(Https) = 8
  BY <1>0 DEF Https, Text
<1>2. Http \in Text /\ Len(Http) = 7
  BY <1>0 DEF Http, Text
<1>3. Wss \in Text /\ Len(Wss) = 6
  BY <1>0 DEF Wss, Text
<1>4. Ws \in Text /\ Len(Ws) = 5
  BY <1>0 DEF Ws, Text
<1>5. DOMAIN Schemes = 1 .. 4
  BY DEF Schemes
<1>6. Schemes[1] = Https /\ Schemes[2] = Http /\ Schemes[3] = Wss /\ Schemes[4] = Ws
  BY DEF Schemes
<1>7. \A n \in 1 .. 4 : n = 1 \/ n = 2 \/ n = 3 \/ n = 4
  OBVIOUS
<1>8. \A n \in 1 .. 4 : Schemes[n] \in Text /\ Len(Schemes[n]) \in 1 .. 8
  BY <1>1, <1>2, <1>3, <1>4, <1>6, <1>7
<1> QED BY <1>1, <1>5, <1>8

\* The conversion of a text whose first eight characters are ASCII.
LEMMA ConversionIs ==
    ASSUME NEW text \in Text, \A i \in DOMAIN text : i <= 8 => text[i] \notin Wide
    PROVE  /\ HttpToWsUrl(text).kind # "panic"
           /\ HttpToWsUrl(text).kind = "url" <=>
                \E n \in DOMAIN Schemes : IsPrefix(Schemes[n], Lower(text))
<1> DEFINE fits == {n \in DOMAIN Schemes : IsPrefix(Schemes[n], Lower(text))}
           hits == {n \in DOMAIN Schemes : StripPrefix(text, Schemes[n]) # Absent}
           n == CHOOSE m \in hits : \A k \in hits : m <= k
           rest == StripPrefix(text, Schemes[n])
<1>1. \A t : Url(t) # Absent /\ Url(t) # Panic /\ Url(t).kind = "url"
  BY DEF Url, Absent, Panic
<1>2. Absent.kind = "invalid"
  BY DEF Absent
<1>3. \A m \in DOMAIN Schemes :
        StripPrefix(text, Schemes[m]) =
          IF IsPrefix(Schemes[m], Lower(text))
          THEN Url(SubSeq(text, Len(Schemes[m]) + 1, Len(text))) ELSE Absent
  <2> TAKE m \in DOMAIN Schemes
  <2> DEFINE k == Len(Schemes[m])
  <2>1. Schemes[m] \in Text /\ k \in 1 .. 8
    BY SchemesAre, Zenon
  <2>2. k <= 8
    <3> HIDE DEF k
    <3> QED BY <2>1
  <2> QED BY <2>1, <2>2, StripIs
<1>4. hits = fits
  BY <1>1, <1>3
<1>5. HttpToWsUrl(text) =
        IF hits = {} THEN Absent
        ELSE IF rest = Panic THEN Panic
        ELSE Url(TrimEnd(Replacements[n] \o rest.text, "/"))
  BY DEF HttpToWsUrl
<1>6. CASE hits = {}
  <2>1. HttpToWsUrl(text).kind = "invalid"
    <3>1. HttpToWsUrl(text) = Absent
      BY <1>5, <1>6
    <3> QED BY <1>2, <3>1
  <2> QED BY <1>4, <1>6, <2>1
<1>7. CASE hits # {}
  <2>1. hits \in SUBSET Nat
    BY SchemesAre
  <2>2. n \in hits
    <3> HIDE DEF hits
    <3>1. \E m \in hits : \A k \in hits : m <= k
      BY <1>7, <2>1, Least
    <3> QED BY <3>1
  <2> HIDE DEF n
  <2>3. rest # Panic
    <3>1. n \in DOMAIN Schemes /\ IsPrefix(Schemes[n], Lower(text))
      BY <1>4, <2>2
    <3> QED BY <1>1, <1>3, <3>1
  <2> HIDE DEF rest, hits
  <2>4. HttpToWsUrl(text).kind = "url"
    BY <1>1, <1>5, <1>7, <2>3
  <2>5. fits # {}
    BY <1>4, <1>7
  <2> QED BY <2>4, <2>5
<1> QED BY <1>6, <1>7

DialInv ==
    /\ node \in Text
    /\ url = HttpToWsUrl(node) \/ (node = <<>> /\ url = Absent)

\* For every node whose first eight bytes are ASCII characters, the conversion
\* does not panic and tells the four schemes from the rest.
THEOREM AsciiNodesAreConverted == OptionsSpec => []AsciiNodesConverted
<1>1. OptionsInit => DialInv
  <2>1. <<>> \in Text
    BY DEF Text
  <2> QED BY <2>1 DEF OptionsInit, DialInv
<1>2. OptionsInv /\ DialInv /\ [OptionsNext]_settings => DialInv'
  <2> SUFFICES ASSUME OptionsInv, DialInv, [OptionsNext]_settings PROVE DialInv'
    OBVIOUS
  <2>1. ASSUME NEW n \in DOMAIN options.nodes, Dial(n) PROVE DialInv'
    <3>1. options.nodes[n] \in Text
      BY DEF OptionsInv
    <3> QED BY <2>1, <3>1 DEF Dial, DialInv
  <2>2. CASE UNCHANGED <<node, url>>
    BY <2>2 DEF DialInv
  <2> QED BY <2>1, <2>2 DEF OptionsNext, BuildOptions, NewClient, settings
<1>3. DialInv => AsciiNodesConverted
  <2> SUFFICES ASSUME DialInv, \A i \in DOMAIN node : i <= Len(Https) => node[i] \notin Wide
               PROVE  /\ url.kind # "panic"
                      /\ url.kind = "url" <=>
                           \E n \in DOMAIN Schemes : IsPrefix(Schemes[n], Lower(node))
    BY DEF AsciiNodesConverted
  <2>1. node \in Text /\ \A i \in DOMAIN node : i <= 8 => node[i] \notin Wide
    BY SchemesAre DEF DialInv
  <2>2. CASE url = HttpToWsUrl(node)
    BY <2>1, <2>2, ConversionIs
  <2>3. CASE node = <<>> /\ url = Absent
    <3>1. url.kind = "invalid"
      BY <2>3 DEF Absent
    <3>2. Len(Lower(node)) = 0
      BY <2>3 DEF Lower
    <3>3. \A n \in DOMAIN Schemes : ~IsPrefix(Schemes[n], Lower(node))
      BY <3>2, SchemesAre DEF IsPrefix
    <3> QED BY <3>1, <3>3
  <2> QED BY <2>2, <2>3 DEF DialInv
<1> QED BY <1>1, <1>2, <1>3, OptionsInvariant, PTL DEF OptionsSpec
=============================================================================
