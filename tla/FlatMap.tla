------------------------------- MODULE FlatMap -------------------------------
(***************************************************************************)
(* What to_config_map promises, without nested tables: the map is a set of *)
(* paths with a value each, no path at or below another.  The entries of a *)
(* snapshot are inserted in any order; one that is inserted drives out     *)
(* whatever is at, above or below its path.                                *)
(***************************************************************************)
EXTENDS Keys, SequencesExt

VARIABLES
    data,     \* the flat dictionary of the snapshot
    todo,     \* the keys not inserted yet
    entries   \* the value of each path

\* At, above or below.
Comparable(p, q) == p = q \/ IsPrefix(p, q) \/ IsPrefix(q, p)

Start ==
    /\ todo = DOMAIN data
    /\ entries = <<>>

Insert(key) ==
    /\ key \in todo
    /\ todo' = todo \ {key}
    /\ entries' =
         LET path == Path(key)
             kept == {p \in DOMAIN entries : ~Comparable(p, path)}
         IN  IF path = <<>> THEN entries
             ELSE [p \in kept \cup {path} |-> IF p = path THEN data[key] ELSE entries[p]]
    /\ UNCHANGED data

\* The next snapshot.
Restart ==
    /\ todo = {}
    /\ todo' = DOMAIN data'
    /\ entries' = <<>>

Next == Restart \/ \E key \in todo : Insert(key)

fvars == <<data, todo, entries>>

Spec == Start /\ [][Next]_fvars

\* Some other key has a path at, above or below that of this one.
Contested(key) ==
    \E other \in DOMAIN data \ {key} :
        Path(other) # <<>> /\ Comparable(Path(key), Path(other))

\* Whatever the order, a value that has been inserted stays in its place unless
\* another key contests it.
KeptUnlessContested ==
    \A key \in DOMAIN data \ todo :
        Path(key) # <<>> /\ ~Contested(key) =>
            Path(key) \in DOMAIN entries /\ entries[Path(key)] = data[key]

\* The map has no value that is not that of a key with its path, and no value
\* where a table is needed.
NothingInvented ==
    /\ \A p \in DOMAIN entries :
        \E key \in DOMAIN data \ todo : Path(key) = p /\ data[key] = entries[p]
    /\ \A p, q \in DOMAIN entries : Comparable(p, q) => p = q
=============================================================================
