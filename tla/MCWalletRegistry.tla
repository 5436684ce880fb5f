-------------------------- MODULE MCWalletRegistry --------------------------
(* Small instances of WalletRegistry for TLC.                              *)
EXTENDS WalletRegistry, TLC

CONSTANTS u1, u2, w1, w2, r1, r2, a1, a2, c1, c2

(* No set has a member apart from the others.                              *)
Symmetry ==
  UNION {Permutations(S) : S \in {User, Wallet, Request, Address, Chain}}
=============================================================================
