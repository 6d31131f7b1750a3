----------------------------- MODULE MCSession -----------------------------
(* Module Session on small instances.                                      *)
EXTENDS Session, TLC

\* Callers and sockets are interchangeable; only safety runs use this.
Symmetry == Permutations(Callers) \cup Permutations(Sockets)
=============================================================================
