----------------------------- MODULE AuthSession -----------------------------
(***************************************************************************)
(* Nonces, logins, rolling sessions and their revocation: the service      *)
(* OnChainAuthService of backend/auth/src/lib.rs, run by concurrent        *)
(* handlers against one Postgres database.                                 *)
(*                                                                         *)
(* A handler is a slot r of Request.  Each of its actions is what happens  *)
(* between two awaits that touch the database: one SQL statement, or one   *)
(* transaction phase.  Between them other handlers run, time passes, an    *)
(* awaited call fails, or the client disconnects and the server drops the  *)
(* handler (Abort).  What was committed stays.                             *)
(*                                                                         *)
(* Left out: the text of the SIWE message and its signature (a handler     *)
(* that fails those checks changes nothing), the user's role (module       *)
(* RoleCache) and which address owns which wallet row (WalletRegistry).    *)
(***************************************************************************)
EXTENDS Integers

CONSTANTS
  Nonce,       \* nonces, fresh random ids
  Session,     \* ids of user_sessions rows, fresh random ids
  Wallet,      \* ids of wallets rows
  Request,     \* slots for handlers in flight
  None,        \* no nonce, wallet or session
  NonceTTL, RefreshTTL, AccessTTL,
  Leeway,      \* what the JWT library adds to a token's expiry
  MaxTime      \* bound: the clock stops here

ASSUME ConstantsAssumption ==
  /\ NonceTTL \in Nat /\ RefreshTTL \in Nat /\ AccessTTL \in Nat
  /\ Leeway \in Nat /\ MaxTime \in Nat
  /\ None \notin Nonce \cup Session \cup Wallet

VARIABLES
  nonces,         \* table auth_nonces
  wallets,        \* table wallets: is the row there?
  user_sessions,  \* table user_sessions
  req,            \* the handlers in flight: where they are, what they hold
  held,           \* the token pairs clients have received
  now,            \* the clock
  \* History, kept for the properties only:
  chain,          \* chain[s]: the login session that s descends from
  granted,        \* granted[n]: the sessions handed out by logins with n
  linked,         \* the nonces a link_wallet consumed
  revokes         \* <<chain, answer>> of the admin's revocations

dbVars == <<nonces, wallets, user_sessions>>
history == <<chain, granted, linked, revokes>>
vars == <<nonces, wallets, user_sessions, req, held, now,
          chain, granted, linked, revokes>>

-----------------------------------------------------------------------------
NonceRow == [state : {"absent", "open", "consumed"}, expires_at : Nat]
SessionRow == [status : {"none", "active", "revoked", "deleted"},
               wallet_id : Wallet \cup {None}, expires_at : Nat]
Token == [session_id : Session, exp : Int]

(* What a handler holds at each of its awaits.                             *)
Handler(pcs, N, W, S) == [pc : pcs, nonce : N, wallet : W, session : S]
HandlerState ==
  Handler({"idle"}, {None}, {None}, {None})
    \cup Handler({"checked", "linking"}, Nonce, {None}, {None})
    \cup Handler({"bound", "linked"}, Nonce, Wallet, {None})
    \cup Handler({"stored", "consumed"}, Nonce, Wallet, Session)
    \cup Handler({"locked", "rotated", "authorised"}, {None}, {None}, Session)

At(pc, n, w, s) == [pc |-> pc, nonce |-> n, wallet |-> w, session |-> s]
Idle == At("idle", None, None, None)

NoRow == [status |-> "none", wallet_id |-> None, expires_at |-> 0]

Init ==
  /\ nonces = [n \in Nonce |-> [state |-> "absent", expires_at |-> 0]]
  /\ wallets = [w \in Wallet |-> "absent"]
  /\ user_sessions = [s \in Session |-> NoRow]
  /\ req = [r \in Request |-> Idle]
  /\ held = {}
  /\ now = 0
  /\ chain = [s \in Session |-> None]
  /\ granted = [n \in Nonce |-> {}]
  /\ linked = {}
  /\ revokes = {}

Active(s) == user_sessions[s].status = "active"
Unexpired(s) == now <= user_sessions[s].expires_at
Fresh(s) == user_sessions[s].status = "none"

(* A bug: the SELECT does not lock the row.  Breaks OneLivePerChain.       *)
BugNoRowLock(s) == FALSE

(* SELECT ... FOR UPDATE: the refresh transaction holds the row from its   *)
(* first statement to its commit; whoever writes that row waits.           *)
Locked(s) == \E r \in Request : req[r].pc = "locked" /\ req[r].session = s

NewRow(w) ==
  [status |-> "active", wallet_id |-> w, expires_at |-> now + RefreshTTL]
Revoked(s) == [user_sessions[s] EXCEPT !.status = "revoked"]

-----------------------------------------------------------------------------
(* Plausible bugs of the actions below.  No action uses them: each shows   *)
(* that the property named after it would catch the bug.                   *)

(* The failure of consume_nonce is ignored, as that of store_role_cache    *)
(* is: NonceSingleUse.                                                     *)
BugIgnoreNonceTaken(r) ==
  /\ req[r].pc = "stored"
  /\ nonces[req[r].nonce].state # "open"
  /\ req' = [req EXCEPT ![r].pc = "consumed"]
  /\ UNCHANGED <<dbVars, held, now, history>>

(* A refused login leaves its slot half cleared: TypeOK.                   *)
BugKeepHandlerData(r) ==
  /\ req[r].pc = "stored"
  /\ nonces[req[r].nonce].state # "open"
  /\ req' = [req EXCEPT ![r].pc = "idle"]
  /\ UNCHANGED <<dbVars, held, now, history>>

(* The login answers without consuming its nonce: TokensPaidFor.           *)
BugSkipConsume(r) ==
  /\ req[r].pc = "stored"
  /\ nonces[req[r].nonce].state = "open"
  /\ req' = [req EXCEPT ![r].pc = "consumed"]
  /\ UNCHANGED <<dbVars, held, now, history>>

(* The refresh forgets the session's own expiry: DormantForever.           *)
BugRefreshExpired(r, s) ==
  /\ req[r] = Idle
  /\ \E k \in held : k.session_id = s
  /\ ~Locked(s)
  /\ Active(s)
  /\ req' = [req EXCEPT ![r] = At("locked", None, None, s)]
  /\ UNCHANGED <<dbVars, held, now, history>>

(* The refresh leaves the old session active: ChainsSpec.                  *)
BugKeepOldSession(r, t) ==
  LET s == req[r].session
  IN /\ req[r].pc = "locked"
     /\ Fresh(t)
     /\ user_sessions' = [user_sessions EXCEPT
                            ![t] = NewRow(user_sessions[s].wallet_id)]
     /\ chain' = [chain EXCEPT ![t] = chain[s]]
     /\ req' = [req EXCEPT ![r] = At("rotated", None, None, t)]
     /\ UNCHANGED <<nonces, wallets, held, now, granted, linked, revokes>>

(* The admin's revocation does not wait for a refresh: RevokedChainEnds.   *)
BugRevokeDuringRefresh(s) ==
  /\ Active(s)
  /\ user_sessions' = [user_sessions EXCEPT ![s] = Revoked(s)]
  /\ revokes' = revokes \cup {<<chain[s], 204>>}
  /\ UNCHANGED <<nonces, wallets, req, held, now, chain, granted, linked>>

(* No ON DELETE CASCADE: ActiveSessionHasWallet.                           *)
BugNoCascade(w) ==
  /\ wallets[w] = "live"
  /\ wallets' = [wallets EXCEPT ![w] = "deleted"]
  /\ UNCHANGED <<nonces, user_sessions, req, held, now, history>>

-----------------------------------------------------------------------------
(* Nonces.  The id is fresh, so ON CONFLICT never applies.                 *)

IssueNonce(n) ==
  /\ nonces[n].state = "absent"
  /\ nonces' = [nonces EXCEPT ![n] =
                  [state |-> "open", expires_at |-> now + NonceTTL]]
  /\ UNCHANGED <<wallets, user_sessions, req, held, now, history>>

NonceValid(n) == nonces[n].state = "open" /\ now <= nonces[n].expires_at

-----------------------------------------------------------------------------
(* Login: check the nonce, find or create the wallet, store a session, and *)
(* only then consume the nonce and answer.                                 *)

LoginCheck(r, n) ==
  /\ req[r] = Idle
  /\ NonceValid(n)
  /\ req' = [req EXCEPT ![r] = At("checked", n, None, None)]
  /\ UNCHANGED <<dbVars, held, now, history>>

(* The row the signed address has, or a new one.  A deleted row's id is    *)
(* never used again.  Losing the insert race to a twin is an error: Abort. *)
LoginBindWallet(r, w) ==
  /\ req[r].pc = "checked"
  /\ wallets[w] # "deleted"
  /\ wallets' = [wallets EXCEPT ![w] = "live"]
  /\ req' = [req EXCEPT ![r] = At("bound", req[r].nonce, w, None)]
  /\ UNCHANGED <<nonces, user_sessions, held, now, history>>

LoginCreateSession(r, s) ==
  /\ req[r].pc = "bound"
  /\ wallets[req[r].wallet] = "live"      \* foreign key wallet_id
  /\ Fresh(s)
  /\ user_sessions' = [user_sessions EXCEPT ![s] = NewRow(req[r].wallet)]
  /\ req' = [req EXCEPT ![r] = At("stored", req[r].nonce, req[r].wallet, s)]
  /\ chain' = [chain EXCEPT ![s] = s]
  /\ UNCHANGED <<nonces, wallets, held, now, granted, linked, revokes>>

(* UPDATE ... WHERE consumed_at IS NULL changed a row.  The nonce's expiry *)
(* is not looked at again.                                                 *)
LoginConsumeNonce(r) ==
  /\ req[r].pc = "stored"
  /\ nonces[req[r].nonce].state = "open"
  /\ nonces' = [nonces EXCEPT ![req[r].nonce].state = "consumed"]
  /\ req' = [req EXCEPT ![r].pc = "consumed"]
  /\ UNCHANGED <<wallets, user_sessions, held, now, history>>

(* It changed none: 401, and the stored session stays behind.              *)
LoginNonceTaken(r) ==
  /\ req[r].pc = "stored"
  /\ nonces[req[r].nonce].state # "open"
  /\ req' = [req EXCEPT ![r] = Idle]
  /\ UNCHANGED <<dbVars, held, now, history>>

(* The access token's expiry was fixed when the session was stored.        *)
LoginAnswer(r) ==
  LET n == req[r].nonce
      s == req[r].session
  IN /\ req[r].pc = "consumed"
     /\ held' = held \cup
          {[session_id |-> s,
            exp |-> user_sessions[s].expires_at - RefreshTTL + AccessTTL]}
     /\ granted' = [granted EXCEPT ![n] = @ \cup {s}]
     /\ req' = [req EXCEPT ![r] = Idle]
     /\ UNCHANGED <<dbVars, now, chain, linked, revokes>>

-----------------------------------------------------------------------------
(* Refresh: one transaction revokes the session and inserts its successor; *)
(* the wallet and the role are looked up after the commit.                 *)

RefreshLock(r, s) ==
  /\ req[r] = Idle
  /\ \E k \in held : k.session_id = s     \* a client presents its token
  /\ ~Locked(s)
  /\ Active(s) /\ Unexpired(s)
  /\ req' = [req EXCEPT ![r] = At("locked", None, None, s)]
  /\ UNCHANGED <<dbVars, held, now, history>>

RefreshCommit(r, t) ==
  LET s == req[r].session
  IN /\ req[r].pc = "locked"
     /\ Fresh(t)
     /\ user_sessions' = [user_sessions EXCEPT
                            ![s] = Revoked(s),
                            ![t] = NewRow(user_sessions[s].wallet_id)]
     /\ chain' = [chain EXCEPT ![t] = chain[s]]
     /\ req' = [req EXCEPT ![r] = At("rotated", None, None, t)]
     /\ UNCHANGED <<nonces, wallets, held, now, granted, linked, revokes>>

(* The successor's tokens are sent if its wallet is still there.  A        *)
(* missing wallet or a failed role lookup is an error: Abort.              *)
RefreshAnswer(r) ==
  LET t == req[r].session
  IN /\ req[r].pc = "rotated"
     /\ wallets[user_sessions[t].wallet_id] = "live"
     /\ held' = held \cup {[session_id |-> t, exp |-> now + AccessTTL]}
     /\ req' = [req EXCEPT ![r] = Idle]
     /\ UNCHANGED <<dbVars, now, history>>

-----------------------------------------------------------------------------
(* Logout: the middleware accepts the token, then the session is revoked.  *)

TokenAccepted(k) ==
  /\ k.exp + Leeway >= now
  /\ Active(k.session_id) /\ Unexpired(k.session_id)

LogoutAuthorise(r, k) ==
  /\ req[r] = Idle
  /\ TokenAccepted(k)
  /\ req' = [req EXCEPT ![r] = At("authorised", None, None, k.session_id)]
  /\ UNCHANGED <<dbVars, held, now, history>>

(* UPDATE without a condition on revoked_at: 204 whatever it finds.        *)
LogoutRevoke(r) ==
  LET s == req[r].session
  IN /\ req[r].pc = "authorised"
     /\ ~Locked(s)
     /\ user_sessions' = [user_sessions EXCEPT ![s].status =
                            IF @ = "active" THEN "revoked" ELSE @]
     /\ req' = [req EXCEPT ![r] = Idle]
     /\ UNCHANGED <<nonces, wallets, held, now, history>>

-----------------------------------------------------------------------------
(* A signed-in client links a wallet with a signed message of its own: the *)
(* nonce is checked, the row found or inserted, and the nonce consumed.    *)

LinkCheck(r, k, n) ==
  /\ req[r] = Idle
  /\ TokenAccepted(k)
  /\ NonceValid(n)
  /\ req' = [req EXCEPT ![r] = At("linking", n, None, None)]
  /\ UNCHANGED <<dbVars, held, now, history>>

LinkBindWallet(r, w) ==
  /\ req[r].pc = "linking"
  /\ wallets[w] # "deleted"
  /\ wallets' = [wallets EXCEPT ![w] = "live"]
  /\ req' = [req EXCEPT ![r] = At("linked", req[r].nonce, w, None)]
  /\ UNCHANGED <<nonces, user_sessions, held, now, history>>

LinkConsumeNonce(r) ==
  /\ req[r].pc = "linked"
  /\ nonces[req[r].nonce].state = "open"
  /\ nonces' = [nonces EXCEPT ![req[r].nonce].state = "consumed"]
  /\ linked' = linked \cup {req[r].nonce}
  /\ req' = [req EXCEPT ![r] = Idle]
  /\ UNCHANGED <<wallets, user_sessions, held, now, chain, granted, revokes>>

(* 401, and the linked row stays.                                          *)
LinkNonceTaken(r) ==
  /\ req[r].pc = "linked"
  /\ nonces[req[r].nonce].state # "open"
  /\ req' = [req EXCEPT ![r] = Idle]
  /\ UNCHANGED <<dbVars, held, now, history>>

-----------------------------------------------------------------------------
(* The admin revokes a row of the session list: POST .../revoke, or the    *)
(* CLI.  UPDATE ... WHERE revoked_at IS NULL: 204 if it changed the row,   *)
(* 404 if the session was revoked or rotated before.                       *)

AdminRevoke(s) ==
  /\ ~Locked(s)
  /\ Active(s)
  /\ user_sessions' = [user_sessions EXCEPT ![s] = Revoked(s)]
  /\ revokes' = revokes \cup {<<chain[s], 204>>}
  /\ UNCHANGED <<nonces, wallets, req, held, now, chain, granted, linked>>

AdminRevokeNotFound(s) ==
  /\ ~Locked(s)
  /\ user_sessions[s].status = "revoked"
  /\ revokes' = revokes \cup {<<chain[s], 404>>}
  /\ UNCHANGED <<dbVars, req, held, now, chain, granted, linked>>

(* DELETE FROM wallets cascades to the wallet's sessions, and waits for    *)
(* those a refresh has locked.                                             *)
DeleteWallet(w) ==
  /\ wallets[w] = "live"
  /\ \A s \in Session : user_sessions[s].wallet_id = w => ~Locked(s)
  /\ wallets' = [wallets EXCEPT ![w] = "deleted"]
  /\ user_sessions' = [s \in Session |->
                         IF user_sessions[s].wallet_id = w
                           THEN [user_sessions[s] EXCEPT !.status = "deleted"]
                           ELSE user_sessions[s]]
  /\ UNCHANGED <<nonces, req, held, now, history>>

-----------------------------------------------------------------------------
(* An awaited call fails, the client disconnects or the server stops: the  *)
(* handler ends where it is.  An open transaction is rolled back.          *)
Abort(r) ==
  /\ req[r].pc # "idle"
  /\ req' = [req EXCEPT ![r] = Idle]
  /\ UNCHANGED <<dbVars, held, now, history>>

Tick ==
  /\ now < MaxTime
  /\ now' = now + 1
  /\ UNCHANGED <<dbVars, req, held, history>>

LoginStep(r) ==
  \/ \E n \in Nonce : LoginCheck(r, n)
  \/ \E w \in Wallet : LoginBindWallet(r, w)
  \/ \E s \in Session : LoginCreateSession(r, s)
  \/ LoginConsumeNonce(r)
  \/ LoginNonceTaken(r)
  \/ LoginAnswer(r)

RefreshStep(r) ==
  \/ \E s \in Session : RefreshLock(r, s)
  \/ \E t \in Session : RefreshCommit(r, t)
  \/ RefreshAnswer(r)

LogoutStep(r) ==
  \/ \E k \in held : LogoutAuthorise(r, k)
  \/ LogoutRevoke(r)

LinkStep(r) ==
  \/ \E k \in held, n \in Nonce : LinkCheck(r, k, n)
  \/ \E w \in Wallet : LinkBindWallet(r, w)
  \/ LinkConsumeNonce(r)
  \/ LinkNonceTaken(r)

Next ==
  \/ \E n \in Nonce : IssueNonce(n)
  \/ \E r \in Request :
       LoginStep(r) \/ RefreshStep(r) \/ LogoutStep(r) \/ LinkStep(r) \/ Abort(r)
  \/ \E s \in Session : AdminRevoke(s) \/ AdminRevokeNotFound(s)
  \/ \E w \in Wallet : DeleteWallet(w)
  \/ Tick

Spec == Init /\ [][Next]_vars
-----------------------------------------------------------------------------
(* PROPERTIES                                                              *)

(* Every table, handler and token has its shape: an idle handler holds     *)
(* nothing, and one at an await holds just what the code has by then.      *)
TypeOK ==
  /\ nonces \in [Nonce -> NonceRow]
  /\ wallets \in [Wallet -> {"absent", "live", "deleted"}]
  /\ user_sessions \in [Session -> SessionRow]
  /\ req \in [Request -> HandlerState]
  /\ held \subseteq Token
  /\ now \in Nat
  /\ chain \in [Session -> Session \cup {None}]
  /\ granted \in [Nonce -> SUBSET Session]
  /\ linked \subseteq Nonce
  /\ revokes \subseteq (Session \cup {None}) \X {204, 404}

(* However many logins and links race with the same nonce, at most one of  *)
(* them succeeds: ensure_nonce_valid is long before consume_nonce, and     *)
(* only the conditional UPDATE decides.                                    *)
NonceSingleUse ==
  \A n \in Nonce :
    /\ \A s, t \in granted[n] : s = t
    /\ n \in linked => granted[n] = {}

(* Of the sessions that descend from one login, at most one is active: a   *)
(* refresh token presented twice, in two tabs or by a retry, is exchanged  *)
(* once, whatever else runs between the statements of the refresh.         *)
OneLivePerChain ==
  \A s, t \in Session :
    Active(s) /\ Active(t) /\ chain[s] = chain[t] => s = t

(* Once the admin's revocation of a session was answered 204, no session   *)
(* of that chain is active, not even through a refresh that was already    *)
(* under way.                                                              *)
RevokedChainEnds ==
  \A s \in Session : <<chain[s], 204>> \in revokes => ~Active(s)

(* The sessions clients hold tokens of; the chains a consumed nonce opened. *)
HeldSessions == {k.session_id : k \in held}
Paid(c) == \E n \in Nonce : nonces[n].state = "consumed" /\ c \in granted[n]

(* Every token pair a client holds goes back to a login whose nonce is     *)
(* consumed: the session an unlucky login leaves behind, and those of a    *)
(* handler that died before consuming, never reach a client, nor do        *)
(* successors of theirs.                                                   *)
TokensPaidFor == \A k \in held : Paid(chain[k.session_id])

(* No session is active for a wallet that was deleted, although logins and *)
(* refreshes insert sessions for a wallet they looked up earlier.          *)
ActiveSessionHasWallet ==
  \A s \in Session : Active(s) => wallets[user_sessions[s].wallet_id] = "live"

(* A chain is dormant when a client can do nothing with it any more: it    *)
(* was opened, none of its sessions is active and unexpired, and no        *)
(* refresh of one of them is under way.                                    *)
Dormant(c) ==
  /\ chain[c] = c
  /\ \A s \in Session : chain[s] = c => ~(Active(s) /\ Unexpired(s)) /\ ~Locked(s)

(* A dormant chain stays dormant: no step of a login, refresh, logout or   *)
(* the clock brings back a session that was revoked, logged out or left    *)
(* to expire.                                                              *)
DormantForever ==
  [][\A c \in Session : Dormant(c) => Dormant(c)']_vars

(* A login's or refresh's steps, with their failures, are those of the     *)
(* abstract chains.                                                        *)
LiveSessions == [c \in Session |-> {s \in Session : Active(s) /\ chain[s] = c}]
UsedSessions == {s \in Session : ~Fresh(s)}
GrantedNonces == {n \in Nonce : granted[n] # {}}

Chains == INSTANCE SessionChains WITH
  live <- LiveSessions, used <- UsedSessions, given <- HeldSessions,
  granted <- GrantedNonces

ChainsSpec == Chains!Spec

-----------------------------------------------------------------------------
(* The inductive invariant behind the proofs in AuthSessionProofs.         *)

(* A row has a chain from the moment it exists, and the chain's first      *)
(* session is its own chain.                                               *)
ChainInv ==
  \A s \in Session :
    /\ Fresh(s) <=> chain[s] = None
    /\ chain[s] # None => chain[chain[s]] = chain[s]
    /\ Active(s) => user_sessions[s].wallet_id \in Wallet
    /\ Fresh(s) => user_sessions[s].wallet_id = None

(* What a handler may rely on across its awaits.                           *)
HandlerHolds(r) ==
  /\ req[r].pc \in {"stored", "consumed"} => chain[req[r].session] = req[r].session
  /\ req[r].pc \in {"checked", "bound", "stored", "linking", "linked"} =>
       nonces[req[r].nonce].state # "absent"
  /\ req[r].pc = "consumed" => /\ nonces[req[r].nonce].state = "consumed"
                               /\ granted[req[r].nonce] = {}
                               /\ req[r].nonce \notin linked
  /\ req[r].pc = "locked" => /\ Active(req[r].session)
                             /\ Paid(chain[req[r].session])
                             /\ req[r].session \in HeldSessions
  /\ req[r].pc = "rotated" => Paid(chain[req[r].session])
  /\ req[r].pc = "authorised" => ~Fresh(req[r].session)

HandlerInv == \A r \in Request : HandlerHolds(r)

(* Two handlers never consumed the same nonce nor lock the same session.   *)
ExclusionInv ==
  \A q, r \in Request :
    /\ req[q].pc = "consumed" /\ req[r].pc = "consumed" /\ req[q].nonce = req[r].nonce
         => q = r
    /\ req[q].pc = "locked" /\ req[r].pc = "locked" /\ req[q].session = req[r].session
         => q = r

GrantInv ==
  \A n \in Nonce : granted[n] # {} \/ n \in linked => nonces[n].state = "consumed"

RevokeInv ==
  \A a \in revokes : a[1] \in Session /\ chain[a[1]] = a[1]

IInv ==
  /\ TypeOK /\ ChainInv /\ HandlerInv /\ ExclusionInv /\ GrantInv /\ RevokeInv
  /\ NonceSingleUse /\ OneLivePerChain /\ RevokedChainEnds
  /\ TokensPaidFor /\ ActiveSessionHasWallet

-----------------------------------------------------------------------------
(* What the documents say and the code does not do.                        *)

(* README.md:87 says that revoking a session includes "the refresh that    *)
(* was already rotated".  The code updates the one row it is given.        *)
RevokeReachesRotated ==
  \A s \in Session : \A a \in {204, 404} : <<chain[s], a>> \in revokes => ~Active(s)
=============================================================================
