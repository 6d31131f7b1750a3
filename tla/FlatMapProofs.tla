---------------------------- MODULE FlatMapProofs ----------------------------
(* The flat map for every dictionary and every order of insertion.         *)
EXTENDS FlatMap, TLAPS

\* Only keys of the snapshot are inserted.
KeysOfData == todo \subseteq DOMAIN data

\* No step makes up a key.
LEMMA KeysOfDataInductive ==
    ASSUME KeysOfData, [Next]_fvars
    PROVE  KeysOfData'
BY DEF KeysOfData, Next, Restart, Insert, fvars

\* Likewise in every reachable state.
LEMMA KeysOfDataInvariant == Spec => []KeysOfData
<1>1. Start => KeysOfData
  BY DEF Start, KeysOfData
<1> QED BY <1>1, KeysOfDataInductive, PTL DEF Spec

\* What an insertion leaves: its own path, and all that is not comparable.
LEMMA Inserted ==
    ASSUME NEW key, Insert(key), Path(key) # <<>>
    PROVE  /\ DOMAIN entries' =
                {p \in DOMAIN entries : ~Comparable(p, Path(key))} \cup {Path(key)}
           /\ entries'[Path(key)] = data[key]
           /\ \A p \in DOMAIN entries' : p # Path(key) => entries'[p] = entries[p]
BY DEF Insert

-----------------------------------------------------------------------------
\* Every step keeps what nobody contests.
LEMMA KeptInductive ==
    ASSUME KeysOfData, KeptUnlessContested, [Next]_fvars
    PROVE  KeptUnlessContested'
<1>1. CASE Restart
  BY <1>1 DEF Restart, KeptUnlessContested
<1>2. ASSUME NEW key \in todo, Insert(key) PROVE KeptUnlessContested'
  <2> SUFFICES ASSUME NEW k \in DOMAIN data \ todo', Path(k) # <<>>, ~Contested(k)
               PROVE  Path(k) \in DOMAIN entries' /\ entries'[Path(k)] = data[k]
    BY <1>2 DEF Insert, KeptUnlessContested, Contested
  <2>1. CASE k = key
    BY <1>2, <2>1, Inserted
  <2>2. CASE k # key /\ Path(key) = <<>>
    BY <1>2, <2>2 DEF Insert, KeptUnlessContested
  <2>3. CASE k # key /\ Path(key) # <<>>
    <3>1. Path(k) \in DOMAIN entries /\ entries[Path(k)] = data[k]
      BY <1>2, <2>3 DEF Insert, KeptUnlessContested
    <3>2. ~Comparable(Path(k), Path(key))
      BY <2>3 DEF Contested, KeysOfData
    <3>3. Path(k) # Path(key)
      BY <3>2 DEF Comparable
    <3> QED BY <1>2, <2>3, <3>1, <3>2, <3>3, Inserted
  <2> QED BY <2>1, <2>2, <2>3
<1>3. CASE UNCHANGED fvars
  BY <1>3 DEF fvars, KeptUnlessContested, Contested
<1> QED BY <1>1, <1>2, <1>3 DEF Next

\* For every set of keys and in every order, a value survives unless another key
\* has a path at, above or below its own.
THEOREM ValuesAreKept == Spec => []KeptUnlessContested
<1>1. Start => KeptUnlessContested
  BY DEF Start, KeptUnlessContested
<1> QED BY <1>1, KeptInductive, KeysOfDataInvariant, PTL DEF Spec

-----------------------------------------------------------------------------
\* No step invents a value.
LEMMA InventedInductive ==
    ASSUME KeysOfData, NothingInvented, [Next]_fvars
    PROVE  NothingInvented'
<1>1. CASE Restart
  BY <1>1 DEF Restart, NothingInvented
<1>2. ASSUME NEW key \in todo, Insert(key) PROVE NothingInvented'
  <2>1. CASE Path(key) = <<>>
    BY <1>2, <2>1 DEF Insert, NothingInvented
  <2>2. CASE Path(key) # <<>>
    <3>1. ASSUME NEW p \in DOMAIN entries'
          PROVE  \E k \in DOMAIN data \ todo' : Path(k) = p /\ data[k] = entries'[p]
      <4>1. CASE p = Path(key)
        BY <1>2, <2>2, <4>1, Inserted DEF Insert, KeysOfData
      <4>2. CASE p # Path(key)
        BY <1>2, <2>2, <3>1, <4>2, Inserted DEF Insert, NothingInvented
      <4> QED BY <4>1, <4>2
    <3>2. ASSUME NEW p \in DOMAIN entries', NEW q \in DOMAIN entries', Comparable(p, q)
          PROVE  p = q
      <4>1. Comparable(q, p)
        BY <3>2 DEF Comparable
      <4>2. \A r \in DOMAIN entries' :
              r = Path(key) \/ (r \in DOMAIN entries /\ ~Comparable(r, Path(key)))
        BY <1>2, <2>2, Inserted
      <4>3. CASE p = Path(key) \/ q = Path(key)
        BY <3>2, <4>1, <4>2, <4>3
      <4>4. CASE p # Path(key) /\ q # Path(key)
        BY <3>2, <4>2, <4>4 DEF NothingInvented
      <4> QED BY <4>3, <4>4
    <3> QED BY <1>2, <3>1, <3>2 DEF Insert, NothingInvented
  <2> QED BY <2>1, <2>2
<1>3. CASE UNCHANGED fvars
  BY <1>3 DEF fvars, NothingInvented
<1> QED BY <1>1, <1>2, <1>3 DEF Next

\* The map never holds a value that is not that of a key with this path, nor a
\* value at a place where it holds a table.
THEOREM ValuesAreThoseOfKeys == Spec => []NothingInvented
<1>1. Start => NothingInvented
  BY DEF Start, NothingInvented
<1> QED BY <1>1, InventedInductive, KeysOfDataInvariant, PTL DEF Spec
=============================================================================
