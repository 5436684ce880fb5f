-------------------------- MODULE MCClientSession --------------------------
(* Small instances of ClientSession for TLC.                               *)
EXTENDS ClientSession, TLC

CONSTANTS t1, t2, c1, c2, s1, s2, s3

(* Tabs, calls and sessions are interchangeable.                           *)
Symmetry == Permutations(Tab) \cup Permutations(Call) \cup Permutations(Session)
=============================================================================
