----------------------------- MODULE MCWatchdog -----------------------------
(* The watchdog on small instances.                                        *)
EXTENDS Watchdog, TLC

CONSTANTS o1, o2, s1, s2

Symmetry == Permutations({o1, o2}) \cup Permutations({s1, s2})
=============================================================================
