----------------------------- MODULE MCCollector -----------------------------
(* Instances of Collector: two threads, two sessions, a buffer of two. *)
EXTENDS Collector, TLC

CONSTANTS t1, t2, s1, s2

Symmetry == Permutations({t1, t2}) \cup Permutations({s1, s2})
=============================================================================
