----------------------------- MODULE MCRoleCache -----------------------------
(* Small instances of RoleCache for TLC.                                   *)
EXTENDS RoleCache, TLC

Chains == {1, 137}
Symmetry == Permutations(Request) \cup Permutations(Role)
PerChain == [c \in ChainId |-> IF c = 1 THEN 1 ELSE 2]

(* Time passes only while no handler is in flight: the handlers are quick, *)
(* so that a role in the cache was read when it was first stored.          *)
Prompt == now' # now => \A r \in Request : req[r] = Idle
PromptSpec == Init /\ [][Next /\ Prompt]_vars
=============================================================================
