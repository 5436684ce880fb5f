-------------------------- MODULE MCPortfolioSync --------------------------
(* Small instances of PortfolioSync for TLC.                               *)
EXTENDS PortfolioSync, TLC

CONSTANTS w1, w2, eth, bsc

(* One wallet on one chain, and two chains with one wallet each.           *)
One == w1 :> eth
Apart == (w1 :> eth) @@ (w2 :> bsc)
=============================================================================
