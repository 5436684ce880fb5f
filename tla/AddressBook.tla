---------------------------- MODULE AddressBook ----------------------------
(***************************************************************************)
(* What the table wallets promises of an address on a chain: it has at     *)
(* most one holder, is taken only while it has none, and passes to another *)
(* only after its holder has given it up.  WalletRegistry implements it    *)
(* (its AddressBookSpec).                                                  *)
(***************************************************************************)
CONSTANTS User, Key

VARIABLE holders  \* of each address on each chain

Init == holders = [k \in Key |-> {}]

Take(k, u) ==
  /\ holders[k] = {}
  /\ holders' = [holders EXCEPT ![k] = {u}]

GiveUp(k) ==
  /\ holders[k] # {}
  /\ holders' = [holders EXCEPT ![k] = {}]

Next == \E k \in Key : GiveUp(k) \/ \E u \in User : Take(k, u)

Spec == Init /\ [][Next]_holders
=============================================================================
