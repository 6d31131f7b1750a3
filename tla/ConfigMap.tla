------------------------------ MODULE ConfigMap ------------------------------
(***************************************************************************)
(* The snapshot of store.rs: from_items, the digest that stands for its    *)
(* version, and to_config_map, which visits the dictionary in the order of *)
(* a HashMap, that is in any order, and inserts into nested tables.        *)
(*                                                                         *)
(* The conversion copies the snapshot, so nothing else touches what it     *)
(* works on.  A step is one call or one return of insert_parts: the calls  *)
(* under way are a stack of the tables each of them works on, the first of *)
(* which is the root.                                                      *)
(***************************************************************************)
EXTENDS Keys, Naturals, SequencesExt

CONSTANTS
    Items,      \* the items the servers may publish
    MaxItems    \* bound: the length of a published list

VARIABLES
    items,   \* ConfigSnapshot::items
    data,    \* ConfigSnapshot::data
    todo,    \* the keys the conversion has not visited yet
    key,     \* the key visited last
    rest,    \* the parts of its path that no call has consumed yet
    frames   \* the tables of the calls under way, the root table first

vars == <<items, data, todo, key, rest, frames>>

\* The parts of keys.
Names == STRING

KeyOf(item) == ComposedKey(item.group, item.key)

\* A list has a length; a key has parts that are strings.
ASSUME ConfigMapAssumption ==
    /\ MaxItems \in Nat
    /\ \A item \in Items : Path(KeyOf(item)) \in Seq(Names)

\* from_items: of several items with one key the first counts.
FromItems(list) ==
    LET keys == {KeyOf(list[i]) : i \in DOMAIN list}
        First(k) == CHOOSE i \in DOMAIN list :
            KeyOf(list[i]) = k /\ \A j \in 1 .. i - 1 : KeyOf(list[j]) # k
    IN  [k \in keys |-> list[First(k)].value]

Values(dict) == {dict[k] : k \in DOMAIN dict}

\* Mutant of Digest: a value that occurs twice counts once.
DigestOfSets(dict) == <<DOMAIN dict, Values(dict)>>

\* data_md5_version: the sorted keys and, apart from them, the sorted values.
\* Sorting forgets the order and nothing else; so do the separators and the hash
\* for keys and values without "&".
Digest(dict) ==
    <<DOMAIN dict, [v \in Values(dict) |-> Cardinality({k \in DOMAIN dict : dict[k] = v})]>>

-----------------------------------------------------------------------------
(* Tables.  A table is the set of its nodes: every path in it leads to a    *)
(* value or to a nested table.                                             *)

Empty     == <<>>
Scalar(v) == [table |-> FALSE, value |-> v]
Nested    == [table |-> TRUE]

\* Mutant of IntoTable: every table starts afresh.
IntoFresh(table, name) == Empty

\* Mutant of IntoTable: the value in the way is kept below the new table.
IntoTableKeeping(table, name) ==
    IF <<name>> \notin DOMAIN table THEN Empty
    ELSE IF ~table[<<name>>].table THEN [p \in {<<"">>} |-> table[<<name>>]]
    ELSE [p \in {Tail(q) : q \in {r \in DOMAIN table : Len(r) > 1 /\ Head(r) = name}} |->
            table[<<name>> \o p]]

\* A copy of the table at name.  into_table().unwrap_or_default(): a value gives
\* way to an empty table.
IntoTable(table, name) ==
    IF <<name>> \in DOMAIN table /\ table[<<name>>].table
    THEN [p \in {Tail(q) : q \in {r \in DOMAIN table : Len(r) > 1 /\ Head(r) = name}} |->
            table[<<name>> \o p]]
    ELSE Empty

\* insert: the node replaces what name had, with all that was below it.
Put(table, name, node, below) ==
    [p \in {q \in DOMAIN table : Head(q) # name}
             \cup {<<name>>} \cup {<<name>> \o q : q \in DOMAIN below} |->
        IF Head(p) # name THEN table[p]
        ELSE IF Len(p) = 1 THEN node
        ELSE below[Tail(p)]]

-----------------------------------------------------------------------------
Lists == UNION {[1 .. n -> Items] : n \in 0 .. MaxItems}

map == frames[1]

\* A call of insert_parts is under way.
Busy == rest # <<>> \/ Len(frames) > 1

Init ==
    /\ items \in Lists
    /\ data = FromItems(items)
    /\ todo = DOMAIN data
    /\ key = <<>>
    /\ rest = <<>>
    /\ frames = <<Empty>>

\* Mutant of Visit: the last part stands for the whole key.
VisitLastPart(k) ==
    /\ ~Busy
    /\ k \in todo
    /\ todo' = todo \ {k}
    /\ key' = k
    /\ rest' = IF Path(k) = <<>> THEN <<>> ELSE <<Last(Path(k))>>
    /\ UNCHANGED <<items, data, frames>>

\* insert_dotted, which returns at once when the key has no parts.
Visit(k) ==
    /\ ~Busy
    /\ k \in todo
    /\ todo' = todo \ {k}
    /\ key' = k
    /\ rest' = Path(k)
    /\ UNCHANGED <<items, data, frames>>

\* insert_parts with more than one part: a call for the rest, on a copy of the
\* nested table.
Descend ==
    /\ Len(rest) > 1
    /\ rest' = Tail(rest)
    /\ frames' = Append(frames, IntoTable(Last(frames), Head(rest)))
    /\ UNCHANGED <<items, data, todo, key>>

\* insert_parts with one part.
Place ==
    /\ Len(rest) = 1
    /\ rest' = <<>>
    /\ frames' = [frames EXCEPT ![Len(frames)] = Put(@, Head(rest), Scalar(data[key]), Empty)]
    /\ UNCHANGED <<items, data, todo, key>>

\* Mutant of PutBack: the nested table is put back as it was.
PutBackUntouched ==
    LET n == Len(frames) - 1
        first == Path(key)[n]
    IN  /\ rest = <<>> /\ n > 0
        /\ frames' = [SubSeq(frames, 1, n) EXCEPT ![n] =
                        Put(@, first, Nested, IntoTable(@, first))]
        /\ UNCHANGED <<items, data, todo, key, rest>>

\* The call for the rest has returned; its caller puts the copy back and returns.
PutBack ==
    LET n == Len(frames) - 1
    IN  /\ rest = <<>> /\ n > 0
        /\ frames' = [SubSeq(frames, 1, n) EXCEPT ![n] =
                        Put(@, Path(key)[n], Nested, Last(frames))]
        /\ UNCHANGED <<items, data, todo, key, rest>>

\* The servers publish the list with one item edited; the client pulls it.
Edit(i) ==
    /\ ~Busy
    /\ todo = {}
    /\ \E item \in Items : items' = [items EXCEPT ![i] = item]
    /\ data' = FromItems(items')
    /\ todo' = DOMAIN data'
    /\ key' = <<>>
    /\ frames' = <<Empty>>
    /\ UNCHANGED rest

Next ==
    \/ \E k \in todo : Visit(k)
    \/ Descend \/ Place \/ PutBack
    \/ \E i \in DOMAIN items : Edit(i)

Spec == Init /\ [][Next]_vars

-----------------------------------------------------------------------------
(* Properties.                                                             *)

\* What is above a node is a table, and a table is made for something below it.
WellFormed(table) ==
    \A p \in DOMAIN table :
        /\ p \in Seq(Names) \ {<<>>}
        /\ \A n \in 1 .. Len(p) - 1 :
             SubSeq(p, 1, n) \in DOMAIN table /\ table[SubSeq(p, 1, n)].table
        /\ table[p].table => \E q \in DOMAIN table : IsStrictPrefix(p, q)

\* Every variable keeps its type, and every table its shape.
TypeOK ==
    /\ items \in Lists
    /\ todo \subseteq DOMAIN data
    /\ key \in DOMAIN data \cup {<<>>}
    /\ rest \in Seq(Names)
    /\ Len(frames) > 0
    /\ \A i \in DOMAIN frames : WellFormed(frames[i])

\* The paths of a table that end in a value.
Leaves(table) == {p \in DOMAIN table : ~table[p].table}

\* An insertion takes place when the outermost call returns.
Flat == INSTANCE FlatMap WITH
    todo    <- IF Busy THEN todo \cup {key} ELSE todo,
    entries <- [p \in Leaves(map) |-> map[p].value]

\* The recursion over nested tables, which copies and puts back, does what one
\* insertion into a set of paths does.
ImplementsFlatMap == Flat!Spec

\* In whatever order the dictionary is visited, a value is found at the path of
\* its key unless another key has a path at, above or below it.
KeptUnlessContested == Flat!KeptUnlessContested

\* No value is found at a path that is not that of its key.
NothingInvented == Flat!NothingInvented

\* A key that comes or goes and a single value that changes are seen in the
\* digest; two values that change places are not.
DigestSeesEdit ==
    [][(\/ DOMAIN data' # DOMAIN data
        \/ Cardinality({k \in DOMAIN data : data'[k] # data[k]}) = 1)
       => Digest(data') # Digest(data)]_vars

-----------------------------------------------------------------------------
(* Why they hold.                                                          *)

\* A table after a whole insertion.
Inserted(table, parts, value) ==
    LET way == {SubSeq(parts, 1, n) : n \in 1 .. Len(parts)}
    IN  [p \in {q \in DOMAIN table : ~IsPrefix(parts, q)} \cup way |->
            IF p = parts THEN Scalar(value)
            ELSE IF p \in way THEN Nested
            ELSE table[p]]

\* The parts of the key from the nth on.
PathFrom(n) == SubSeq(Path(key), n, Len(Path(key)))

\* A call works on a copy of the nested table of its caller until the call below
\* it has returned; then the copy holds the value.
CallsNest ==
    LET n == Len(frames)
    IN  /\ Busy => key \in DOMAIN data \ todo /\ n <= Len(Path(key))
        /\ rest # <<>> => rest = PathFrom(n)
        /\ \A i \in 2 .. n :
             frames[i] =
               LET copy == IntoTable(frames[i - 1], Path(key)[i - 1])
               IN  IF i = n /\ rest = <<>> THEN Inserted(copy, PathFrom(n), data[key])
                   ELSE copy
=============================================================================
