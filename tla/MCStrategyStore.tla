-------------------------- MODULE MCStrategyStore --------------------------
(* Small instances of StrategyStore for TLC.                               *)
EXTENDS StrategyStore, TLC

CONSTANTS u1, u2, r1, r2, r3

(* The requests are interchangeable, and so are the users.                 *)
Symmetry == Permutations(Request) \cup Permutations(User)
=============================================================================
