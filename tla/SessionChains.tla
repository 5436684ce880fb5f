---------------------------- MODULE SessionChains ----------------------------
(***************************************************************************)
(* What the session layer of the API promises, without saying how: a      *)
(* login opens a CHAIN of sessions; at any moment a chain has at most one *)
(* live session; a refresh moves the chain to a fresh session; a chain    *)
(* that has ended never lives again; a nonce grants one login; and only a *)
(* session whose tokens were handed to a client can be refreshed.         *)
(*                                                                         *)
(* A chain is named by its first session.  AuthSession implements this     *)
(* specification (its ChainsSpec).                                         *)
(***************************************************************************)
CONSTANTS Nonce, Session

VARIABLES
  live,     \* live[c]: the live sessions of the chain c
  used,     \* the session ids allocated so far
  given,    \* the sessions whose tokens a client has received
  granted   \* the nonces that have granted a login

vars == <<live, used, given, granted>>

Init ==
  /\ live = [c \in Session |-> {}]
  /\ used = {}
  /\ given = {}
  /\ granted = {}

(* A login stores the first session of a new chain.                        *)
Open(c) ==
  /\ c \notin used
  /\ used' = used \cup {c}
  /\ live' = [live EXCEPT ![c] = {c}]
  /\ UNCHANGED <<given, granted>>

(* The login's answer reaches the client, at most once per nonce.          *)
Grant(n, c) ==
  /\ n \notin granted
  /\ c \in used
  /\ granted' = granted \cup {n}
  /\ given' = given \cup {c}
  /\ UNCHANGED <<live, used>>

(* A refresh replaces the one live session of a chain by a fresh one.      *)
Rotate(c, s, t) ==
  /\ s \in given
  /\ live[c] = {s}
  /\ t \notin used
  /\ used' = used \cup {t}
  /\ live' = [live EXCEPT ![c] = {t}]
  /\ UNCHANGED <<given, granted>>

(* The refresh's answer reaches the client.                                *)
Give(t) ==
  /\ t \in used
  /\ given' = given \cup {t}
  /\ UNCHANGED <<live, used, granted>>

(* Logout, revocation and wallet deletion end chains for good.             *)
End ==
  /\ UNCHANGED <<used, given, granted>>
  /\ live' \in [Session -> SUBSET Session]
  /\ \A c \in Session : live'[c] \in {live[c], {}}

Next ==
  \/ End
  \/ \E c \in Session : Open(c)
  \/ \E n \in Nonce, c \in Session : Grant(n, c)
  \/ \E c, s, t \in Session : Rotate(c, s, t)
  \/ \E t \in Session : Give(t)

Spec == Init /\ [][Next]_vars
=============================================================================
