----------------------------- MODULE RandomNodes -----------------------------
(***************************************************************************)
(* The node iteration of nodes.rs.  Every load and every dial makes a      *)
(* RandomNodes: it starts at an index that depends on the clock and goes   *)
(* round once.  Client::new rejects an empty list of nodes.                *)
(***************************************************************************)
EXTENDS Integers

CONSTANT NodeCount

ASSUME NodeCountAssumption == NodeCount \in Nat \ {0}

Indexes == 0 .. NodeCount - 1

\* Mutant of Order: the iteration does not wrap round.
Clamped(start) ==
    [offset \in Indexes |->
        IF start + offset < NodeCount THEN start + offset ELSE NodeCount - 1]

\* RandomNodes::order for the index that random_index returned.
Order(start) == [offset \in Indexes |-> (start + offset) % NodeCount]

\* The nodes that have been handed out when the iterator stands at next.
Visited(start, next) == {Order(start)[k] : k \in 0 .. next - 1}
=============================================================================
