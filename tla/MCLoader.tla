------------------------------ MODULE MCLoader ------------------------------
(* Module Loader on small instances.                                       *)
EXTENDS Loader, TLC

\* Loads are interchangeable; only safety runs use this.
Symmetry == Permutations(Loads)

\* Every version is shorter than the one before it: the one written last may be
\* the one that does not cover the other, or the other way round.
Shrinking == [v \in 0 .. MaxVersion |-> MaxVersion - v]
=============================================================================
