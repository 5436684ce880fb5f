-------------------------- MODULE AuthSessionProofs --------------------------
(***************************************************************************)
(* Proofs about AuthSession, for any sets of nonces, sessions, wallets and *)
(* handlers and any values of the time limits.                             *)
(***************************************************************************)
EXTENDS AuthSession, TLAPS

-----------------------------------------------------------------------------
(* Type correctness.                                                       *)

LEMMA InitTypeOK == Init => TypeOK
<1> USE DEF Init, TypeOK, Idle, At, NoRow, NonceRow, SessionRow, HandlerState, Handler
<1> QED BY ConstantsAssumption

LEMMA NextTypeOK == TypeOK /\ [Next]_vars => TypeOK'
<1> SUFFICES ASSUME TypeOK, [Next]_vars PROVE TypeOK'
  OBVIOUS
<1> USE ConstantsAssumption DEF TypeOK, NonceRow, history, dbVars
<1>1. ASSUME NEW n \in Nonce, IssueNonce(n) PROVE TypeOK'
  BY <1>1 DEF IssueNonce
<1>2. ASSUME NEW r \in Request, LoginStep(r) PROVE TypeOK'
  <2>1. ASSUME NEW n \in Nonce, LoginCheck(r, n) PROVE TypeOK'
    BY <2>1 DEF LoginCheck, At, Handler, HandlerState
  <2>2. ASSUME NEW w \in Wallet, LoginBindWallet(r, w) PROVE TypeOK'
    <3>1. req[r].nonce \in Nonce
      BY <2>2 DEF LoginBindWallet, Handler, HandlerState
    <3> QED BY <2>2, <3>1 DEF LoginBindWallet, At, Handler, HandlerState
  <2>3. ASSUME NEW s \in Session, LoginCreateSession(r, s) PROVE TypeOK'
    <3>1. req[r].nonce \in Nonce /\ req[r].wallet \in Wallet
      BY <2>3 DEF LoginCreateSession, Handler, HandlerState
    <3>2. NewRow(req[r].wallet) \in SessionRow
      BY <3>1 DEF NewRow, SessionRow
    <3> QED BY <2>3, <3>1, <3>2 DEF LoginCreateSession, At, Handler, HandlerState
  <2>4. ASSUME LoginConsumeNonce(r) PROVE TypeOK'
    <3>0. /\ req[r] \in Handler({"stored", "consumed"}, Nonce, Wallet, Session)
          /\ req[r].nonce \in Nonce
      BY <2>4 DEF LoginConsumeNonce, Handler, HandlerState
    <3>1. nonces' \in [Nonce -> NonceRow]
      BY <2>4, <3>0 DEF LoginConsumeNonce
    <3>2. req' \in [Request -> HandlerState]
      <4>1. [req[r] EXCEPT !.pc = "consumed"] \in HandlerState
        BY <3>0 DEF Handler, HandlerState
      <4> QED BY <2>4, <4>1 DEF LoginConsumeNonce
    <3> QED BY <2>4, <3>1, <3>2 DEF LoginConsumeNonce
  <2>5. ASSUME LoginNonceTaken(r) PROVE TypeOK'
    BY <2>5 DEF LoginNonceTaken, Idle, At, Handler, HandlerState
  <2>6. ASSUME LoginAnswer(r) PROVE TypeOK'
    <3>1. req[r].nonce \in Nonce /\ req[r].session \in Session
      BY <2>6 DEF LoginAnswer, Handler, HandlerState
    <3> QED BY <2>6, <3>1 DEF LoginAnswer, Idle, At, Handler, HandlerState, Token, SessionRow
  <2> QED BY <1>2, <2>1, <2>2, <2>3, <2>4, <2>5, <2>6 DEF LoginStep
<1>3. ASSUME NEW r \in Request, RefreshStep(r) PROVE TypeOK'
  <2>1. ASSUME NEW s \in Session, RefreshLock(r, s) PROVE TypeOK'
    BY <2>1 DEF RefreshLock, At, Handler, HandlerState
  <2>2. ASSUME NEW t \in Session, RefreshCommit(r, t) PROVE TypeOK'
    <3>1. req[r].session \in Session
      BY <2>2 DEF RefreshCommit, Handler, HandlerState
    <3>2. NewRow(user_sessions[req[r].session].wallet_id) \in SessionRow
      BY <3>1 DEF NewRow, SessionRow
    <3>3. Revoked(req[r].session) \in SessionRow
      <4>1. user_sessions[req[r].session] \in SessionRow
        BY <3>1
      <4> QED BY ZenonT(60), <4>1 DEF Revoked, SessionRow
    <3>4. user_sessions' = [user_sessions EXCEPT
                              ![req[r].session] = Revoked(req[r].session),
                              ![t] = NewRow(user_sessions[req[r].session].wallet_id)]
      BY <2>2 DEF RefreshCommit
    <3>5. user_sessions' \in [Session -> SessionRow]
      BY <3>1, <3>2, <3>3, <3>4
    <3> QED BY <2>2, <3>1, <3>5 DEF RefreshCommit, At, Handler, HandlerState
  <2>3. ASSUME RefreshAnswer(r) PROVE TypeOK'
    <3>1. req[r].session \in Session
      BY <2>3 DEF RefreshAnswer, Handler, HandlerState
    <3> QED BY <2>3, <3>1 DEF RefreshAnswer, Idle, At, Handler, HandlerState, Token
  <2> QED BY <1>3, <2>1, <2>2, <2>3 DEF RefreshStep
<1>4. ASSUME NEW r \in Request, LogoutStep(r) PROVE TypeOK'
  <2>1. ASSUME NEW k \in held, LogoutAuthorise(r, k) PROVE TypeOK'
    BY <2>1 DEF LogoutAuthorise, At, Handler, HandlerState, Token
  <2>2. ASSUME LogoutRevoke(r) PROVE TypeOK'
    <3>1. req[r].session \in Session
      BY <2>2 DEF LogoutRevoke, Handler, HandlerState
    <3>2. user_sessions' \in [Session -> SessionRow]
      BY SMTT(60), <2>2, <3>1 DEF LogoutRevoke, SessionRow
    <3> QED BY <2>2, <3>2 DEF LogoutRevoke, Idle, At, Handler, HandlerState
  <2> QED BY <1>4, <2>1, <2>2 DEF LogoutStep
<1>5. ASSUME NEW r \in Request, LinkStep(r) PROVE TypeOK'
  <2>1. ASSUME NEW k \in held, NEW n \in Nonce, LinkCheck(r, k, n) PROVE TypeOK'
    BY <2>1 DEF LinkCheck, At, Handler, HandlerState
  <2>2. ASSUME NEW w \in Wallet, LinkBindWallet(r, w) PROVE TypeOK'
    <3>1. req[r].nonce \in Nonce
      BY <2>2 DEF LinkBindWallet, Handler, HandlerState
    <3> QED BY <2>2, <3>1 DEF LinkBindWallet, At, Handler, HandlerState
  <2>3. ASSUME LinkConsumeNonce(r) PROVE TypeOK'
    <3>1. req[r].nonce \in Nonce
      BY <2>3 DEF LinkConsumeNonce, Handler, HandlerState
    <3>2. nonces' \in [Nonce -> NonceRow]
      BY <2>3, <3>1 DEF LinkConsumeNonce
    <3>3. req' \in [Request -> HandlerState]
      BY <2>3 DEF LinkConsumeNonce, Idle, At, Handler, HandlerState
    <3> QED BY <2>3, <3>1, <3>2, <3>3 DEF LinkConsumeNonce
  <2>4. ASSUME LinkNonceTaken(r) PROVE TypeOK'
    BY <2>4 DEF LinkNonceTaken, Idle, At, Handler, HandlerState
  <2> QED BY <1>5, <2>1, <2>2, <2>3, <2>4 DEF LinkStep
<1>6. ASSUME NEW r \in Request, Abort(r) PROVE TypeOK'
  BY <1>6 DEF Abort, Idle, At, Handler, HandlerState
<1>7. ASSUME NEW s \in Session, AdminRevoke(s) PROVE TypeOK'
  BY <1>7 DEF AdminRevoke, Revoked, SessionRow
<1>8. ASSUME NEW s \in Session, AdminRevokeNotFound(s) PROVE TypeOK'
  BY <1>8 DEF AdminRevokeNotFound
<1>9. ASSUME NEW w \in Wallet, DeleteWallet(w) PROVE TypeOK'
  <2>1. user_sessions' \in [Session -> SessionRow]
    <3>1. ASSUME NEW s \in Session
          PROVE  [user_sessions[s] EXCEPT !.status = "deleted"] \in SessionRow
      <4>1. user_sessions[s] \in SessionRow
        OBVIOUS
      <4> QED BY <4>1 DEF SessionRow
    <3> QED BY <1>9, <3>1 DEF DeleteWallet
  <2>2. wallets' \in [Wallet -> {"absent", "live", "deleted"}]
    BY <1>9 DEF DeleteWallet
  <2> QED BY <1>9, <2>1, <2>2 DEF DeleteWallet
<1>10. ASSUME Tick PROVE TypeOK'
  BY <1>10 DEF Tick
<1>11. ASSUME UNCHANGED vars PROVE TypeOK'
  BY <1>11 DEF vars
<1> QED BY <1>1, <1>2, <1>3, <1>4, <1>5, <1>6, <1>7, <1>8, <1>9, <1>10, <1>11 DEF Next

(* Every table, handler and token always has its shape.                    *)
THEOREM TypeCorrect == Spec => []TypeOK
BY InitTypeOK, NextTypeOK, PTL DEF Spec

-----------------------------------------------------------------------------
(* What a step may do to the sessions: nothing but end some, store the     *)
(* first of a chain, or move a chain on to a fresh one.                    *)

(* No session starts; those a refresh has locked are left alone.           *)
Ends ==
  /\ UNCHANGED chain
  /\ \A x \in Session :
       /\ Active(x)' => Active(x)
       /\ Locked(x) /\ Active(x) => Active(x)'
       /\ Fresh(x)' <=> Fresh(x)
       /\ user_sessions'[x].wallet_id = user_sessions[x].wallet_id
       /\ user_sessions'[x].expires_at = user_sessions[x].expires_at

(* The handler r stores s as the first session of its chain.               *)
Opens(r, s) ==
  /\ LoginCreateSession(r, s)
  /\ \A x \in Session :
       /\ Active(x)' <=> x = s \/ Active(x)
       /\ Fresh(x)' <=> x # s /\ Fresh(x)
       /\ chain'[x] = IF x = s THEN s ELSE chain[x]
       /\ user_sessions'[x].wallet_id =
            IF x = s THEN req[r].wallet ELSE user_sessions[x].wallet_id
       /\ x # s => user_sessions'[x].expires_at = user_sessions[x].expires_at

(* The handler r replaces the session it has locked by t.                  *)
Moves(r, t) ==
  /\ RefreshCommit(r, t)
  /\ \A x \in Session :
       /\ Active(x)' <=> x = t \/ (x # req[r].session /\ Active(x))
       /\ Fresh(x)' <=> x # t /\ Fresh(x)
       /\ chain'[x] = IF x = t THEN chain[req[r].session] ELSE chain[x]
       /\ user_sessions'[x].wallet_id =
            IF x = t THEN user_sessions[req[r].session].wallet_id
                     ELSE user_sessions[x].wallet_id
       /\ x # t => user_sessions'[x].expires_at = user_sessions[x].expires_at

LEMMA CreateOpens ==
  ASSUME TypeOK, NEW r \in Request, NEW s \in Session, LoginCreateSession(r, s)
  PROVE  Opens(r, s)
BY DEF Opens, LoginCreateSession, TypeOK, NewRow, Active, Fresh

LEMMA CommitMoves ==
  ASSUME TypeOK, HandlerInv,
         NEW r \in Request, NEW t \in Session, RefreshCommit(r, t)
  PROVE  Moves(r, t)
<1> DEFINE s == req[r].session
<1>1. s \in Session /\ Active(s) /\ s # t
  BY DEF RefreshCommit, TypeOK, HandlerInv, HandlerHolds, HandlerState, Handler, Active, Fresh
<1>2. user_sessions' = [user_sessions EXCEPT
                          ![s] = Revoked(s),
                          ![t] = NewRow(user_sessions[s].wallet_id)]
  BY DEF RefreshCommit
<1>3. Revoked(s).status = "revoked"
      /\ Revoked(s).wallet_id = user_sessions[s].wallet_id
      /\ Revoked(s).expires_at = user_sessions[s].expires_at
  <2>1. user_sessions[s] \in SessionRow
    BY <1>1 DEF TypeOK
  <2> QED BY <2>1 DEF Revoked, SessionRow
<1>4. ASSUME NEW x \in Session
      PROVE  user_sessions'[x] = IF x = t THEN NewRow(user_sessions[s].wallet_id)
                                 ELSE IF x = s THEN Revoked(s)
                                 ELSE user_sessions[x]
  BY <1>1, <1>2 DEF TypeOK
<1>5. ASSUME NEW x \in Session
      PROVE  chain'[x] = IF x = t THEN chain[s] ELSE chain[x]
  BY DEF RefreshCommit, TypeOK
<1> QED BY <1>1, <1>3, <1>4, <1>5 DEF Moves, NewRow, Active, Fresh

LEMMA OtherEnds ==
  ASSUME TypeOK, ChainInv, [Next]_vars
  PROVE  \/ Ends
         \/ \E r \in Request, s \in Session : LoginCreateSession(r, s)
         \/ \E r \in Request, t \in Session : RefreshCommit(r, t)
<1>1. ASSUME UNCHANGED <<user_sessions, chain>> PROVE Ends
  BY <1>1 DEF Ends, Active, Fresh
<1>2. ASSUME NEW r \in Request, LogoutRevoke(r) PROVE Ends
  <2>1. req[r].session \in Session
    BY <1>2 DEF LogoutRevoke, TypeOK, HandlerState, Handler
  <2> QED BY <1>2, <2>1 DEF LogoutRevoke, TypeOK, SessionRow, Ends, Active, Fresh, history
<1>3. ASSUME NEW s \in Session, AdminRevoke(s) PROVE Ends
  <2>1. /\ user_sessions[s] \in SessionRow
        /\ user_sessions' = [user_sessions EXCEPT ![s] = Revoked(s)]
    BY <1>3 DEF AdminRevoke, TypeOK
  <2>2. /\ Revoked(s).status = "revoked"
        /\ Revoked(s).wallet_id = user_sessions[s].wallet_id
        /\ Revoked(s).expires_at = user_sessions[s].expires_at
      /\ Revoked(s).expires_at = user_sessions[s].expires_at
    BY <2>1 DEF Revoked, SessionRow
  <2> QED BY <1>3, <2>1, <2>2 DEF AdminRevoke, TypeOK, Ends, Active, Fresh
<1>4. ASSUME NEW w \in Wallet, DeleteWallet(w) PROVE Ends
  <2>1. ASSUME NEW x \in Session
        PROVE  /\ user_sessions'[x].wallet_id = user_sessions[x].wallet_id
               /\ user_sessions'[x].expires_at = user_sessions[x].expires_at
               /\ IF user_sessions[x].wallet_id = w
                    THEN user_sessions'[x].status = "deleted"
                    ELSE user_sessions'[x] = user_sessions[x]
    <3>1. user_sessions[x] \in SessionRow
      BY DEF TypeOK
    <3> QED BY <1>4, <3>1 DEF DeleteWallet, SessionRow
  <2>2. ASSUME NEW x \in Session, user_sessions[x].wallet_id = w
        PROVE  ~Locked(x) /\ ~Fresh(x)
    BY <1>4, <2>2, ConstantsAssumption DEF DeleteWallet, ChainInv
  <2>3. chain' = chain
    BY <1>4 DEF DeleteWallet, history
  <2> QED BY <2>1, <2>2, <2>3 DEF Ends, Active, Fresh
<1> QED
  BY <1>1, <1>2, <1>3, <1>4
  DEF Next, IssueNonce, LoginStep, LoginCheck, LoginBindWallet, LoginConsumeNonce,
      LoginNonceTaken, LoginAnswer, RefreshStep, RefreshLock, RefreshAnswer,
      LogoutStep, LogoutAuthorise, LinkStep, LinkCheck, LinkBindWallet,
      LinkConsumeNonce, LinkNonceTaken, AdminRevokeNotFound, Abort, Tick,
      dbVars, history, vars

-----------------------------------------------------------------------------
(* What only grows, and what a step leaves to the handlers it is not of.   *)

LEMMA NonceStep ==
  ASSUME [Next]_vars
  PROVE  \/ UNCHANGED nonces
         \/ \E n \in Nonce : IssueNonce(n)
         \/ \E r \in Request : LoginConsumeNonce(r) \/ LinkConsumeNonce(r)
BY DEF Next, LoginStep, LoginCheck, LoginBindWallet, LoginCreateSession,
       LoginNonceTaken, LoginAnswer, RefreshStep, RefreshLock, RefreshCommit,
       RefreshAnswer, LogoutStep, LogoutAuthorise, LogoutRevoke, LinkStep, LinkCheck,
       LinkBindWallet, LinkNonceTaken, AdminRevoke,
       AdminRevokeNotFound, DeleteWallet, Abort, Tick, dbVars, history, vars

LEMMA TokenStep ==
  ASSUME [Next]_vars
  PROVE  \/ UNCHANGED <<held, granted>>
         \/ \E r \in Request : LoginAnswer(r)
         \/ UNCHANGED granted /\ \E r \in Request : RefreshAnswer(r)
BY ZenonT(60) DEF Next, IssueNonce, LoginStep, LoginCheck, LoginBindWallet, LoginCreateSession,
       LoginConsumeNonce, LoginNonceTaken, RefreshStep, RefreshLock, RefreshCommit,
       RefreshAnswer, LogoutStep, LogoutAuthorise, LogoutRevoke, LinkStep, LinkCheck,
       LinkBindWallet, LinkConsumeNonce, LinkNonceTaken, AdminRevoke,
       AdminRevokeNotFound, DeleteWallet, Abort, Tick, dbVars, history, vars

LEMMA LinkedStep ==
  ASSUME [Next]_vars
  PROVE  \/ UNCHANGED linked
         \/ UNCHANGED granted /\ \E r \in Request : LinkConsumeNonce(r)
BY ZenonT(60) DEF Next, IssueNonce, LoginStep, LoginCheck, LoginBindWallet, LoginCreateSession,
       LoginConsumeNonce, LoginNonceTaken, LoginAnswer, RefreshStep, RefreshLock,
       RefreshCommit, RefreshAnswer, LogoutStep, LogoutAuthorise, LogoutRevoke,
       LinkStep, LinkCheck, LinkBindWallet, LinkConsumeNonce, LinkNonceTaken,
       AdminRevoke, AdminRevokeNotFound, DeleteWallet, Abort, Tick, dbVars,
       history, vars

LEMMA NoncesLast ==
  ASSUME TypeOK, [Next]_vars, NEW n \in Nonce
  PROVE  /\ nonces[n].state # "absent" => nonces'[n].state # "absent"
         /\ nonces[n].state = "consumed" => nonces'[n].state = "consumed"
<1>1. ASSUME NEW m \in Nonce, IssueNonce(m)
      PROVE  nonces[m].state = "absent" /\ (n # m => nonces'[n] = nonces[n])
  BY <1>1 DEF IssueNonce, TypeOK
<1>2. ASSUME NEW r \in Request, LoginConsumeNonce(r) \/ LinkConsumeNonce(r)
      PROVE  nonces'[n].state \in {nonces[n].state, "consumed"}
  BY <1>2 DEF LoginConsumeNonce, LinkConsumeNonce, TypeOK, NonceRow
<1> QED BY <1>1, <1>2, NonceStep DEF IssueNonce

LEMMA GrantsLast ==
  ASSUME TypeOK, [Next]_vars
  PROVE  /\ \A n \in Nonce : granted[n] \subseteq granted'[n]
         /\ HeldSessions \subseteq HeldSessions'
<1>1. ASSUME NEW r \in Request, LoginAnswer(r)
      PROVE  held \subseteq held' /\ \A n \in Nonce : granted[n] \subseteq granted'[n]
  BY <1>1 DEF LoginAnswer, TypeOK
<1>2. ASSUME NEW r \in Request, RefreshAnswer(r) PROVE held \subseteq held'
  BY <1>2 DEF RefreshAnswer
<1> QED BY <1>1, <1>2, TokenStep DEF HeldSessions

LEMMA PaidLasts ==
  ASSUME TypeOK, [Next]_vars, NEW c, Paid(c)
  PROVE  Paid(c)'
BY NoncesLast, GrantsLast DEF Paid

(* The chain of a session that exists never changes.                       *)
LEMMA ChainsLast ==
  ASSUME TypeOK, ChainInv, HandlerInv, [Next]_vars,
         NEW s \in Session, chain[s] # None
  PROVE  chain'[s] = chain[s] /\ ~Fresh(s)'
<1>1. ~Fresh(s)
  BY DEF ChainInv
<1>2. CASE Ends
  BY <1>1, <1>2 DEF Ends
<1>3. ASSUME NEW r \in Request, NEW t \in Session, LoginCreateSession(r, t)
      PROVE  chain'[s] = chain[s] /\ ~Fresh(s)'
  BY <1>1, <1>3, CreateOpens DEF Opens, LoginCreateSession
<1>4. ASSUME NEW r \in Request, NEW t \in Session, RefreshCommit(r, t)
      PROVE  chain'[s] = chain[s] /\ ~Fresh(s)'
  BY <1>1, <1>4, CommitMoves DEF Moves, RefreshCommit
<1> QED BY <1>2, <1>3, <1>4, OtherEnds

-----------------------------------------------------------------------------
(* The conjuncts of IInv, one by one.                                      *)

LEMMA NextChainInv ==
  ASSUME TypeOK, ChainInv, HandlerInv, [Next]_vars
  PROVE  ChainInv'
<1>1. CASE Ends
  BY <1>1 DEF Ends, ChainInv
<1>2. ASSUME NEW r \in Request, NEW s \in Session, LoginCreateSession(r, s)
      PROVE  ChainInv'
  <2>1. req[r].wallet \in Wallet
    BY <1>2 DEF LoginCreateSession, TypeOK, HandlerState, Handler
  <2>2. Opens(r, s) /\ chain[s] = None
    BY <1>2, CreateOpens DEF LoginCreateSession, ChainInv
  <2> QED BY <2>1, <2>2, ConstantsAssumption DEF Opens, ChainInv, TypeOK
<1>3. ASSUME NEW r \in Request, NEW t \in Session, RefreshCommit(r, t)
      PROVE  ChainInv'
  <2>1. /\ req[r].session \in Session
        /\ Active(req[r].session)
    BY <1>3 DEF RefreshCommit, TypeOK, HandlerState, Handler, HandlerInv, HandlerHolds
  <2>2. Moves(r, t) /\ chain[t] = None /\ chain[req[r].session] # None
    BY <1>3, <2>1, CommitMoves DEF RefreshCommit, ChainInv, Active, Fresh
  <2> QED BY <2>1, <2>2, ConstantsAssumption DEF Moves, ChainInv, TypeOK
<1> QED BY <1>1, <1>2, <1>3, OtherEnds

LEMMA NextOneLivePerChain ==
  ASSUME TypeOK, ChainInv, HandlerInv, OneLivePerChain, [Next]_vars
  PROVE  OneLivePerChain'
<1>1. CASE Ends
  BY <1>1 DEF Ends, OneLivePerChain
<1>2. ASSUME NEW r \in Request, NEW s \in Session, LoginCreateSession(r, s)
      PROVE  OneLivePerChain'
  <2>1. Opens(r, s) /\ chain[s] = None
    BY <1>2, CreateOpens DEF LoginCreateSession, ChainInv
  <2>2. \A x \in Session : chain[x] # s
    BY <2>1, ConstantsAssumption DEF ChainInv
  <2> QED BY <2>1, <2>2 DEF Opens, OneLivePerChain
<1>3. ASSUME NEW r \in Request, NEW t \in Session, RefreshCommit(r, t)
      PROVE  OneLivePerChain'
  <2>1. /\ req[r].session \in Session
        /\ Active(req[r].session)
    BY <1>3 DEF RefreshCommit, TypeOK, HandlerState, Handler, HandlerInv, HandlerHolds
  <2> QED BY <1>3, <2>1, CommitMoves DEF Moves, OneLivePerChain
<1> QED BY <1>1, <1>2, <1>3, OtherEnds

LEMMA RevokeStep ==
  ASSUME [Next]_vars
  PROVE  \/ UNCHANGED revokes
         \/ \E s \in Session : AdminRevoke(s)
         \/ UNCHANGED <<user_sessions, chain>> /\ \E s \in Session : AdminRevokeNotFound(s)
BY DEF Next, IssueNonce, LoginStep, LoginCheck, LoginBindWallet, LoginCreateSession,
       LoginConsumeNonce, LoginNonceTaken, LoginAnswer, RefreshStep, RefreshLock,
       RefreshCommit, RefreshAnswer, LogoutStep, LogoutAuthorise, LogoutRevoke, LinkStep, LinkCheck,
       LinkBindWallet, LinkConsumeNonce, LinkNonceTaken, AdminRevokeNotFound, DeleteWallet, Abort, Tick, dbVars, history, vars

LEMMA NextRevokeInv ==
  ASSUME TypeOK, ChainInv, HandlerInv, RevokeInv, [Next]_vars
  PROVE  RevokeInv'
<1>1. ASSUME NEW a \in revokes
      PROVE  a[1] \in Session /\ chain'[a[1]] = a[1]
  BY ChainsLast, ConstantsAssumption DEF RevokeInv
<1>2. CASE UNCHANGED revokes
  BY <1>1, <1>2 DEF RevokeInv
<1>3. ASSUME NEW s \in Session, ~Fresh(s), UNCHANGED chain,
             NEW answer, revokes' = revokes \cup {<<chain[s], answer>>}
      PROVE  RevokeInv'
  <2>1. chain[s] \in Session /\ chain'[chain[s]] = chain[s]
    BY <1>3 DEF ChainInv, TypeOK
  <2> QED BY <1>1, <1>3, <2>1 DEF RevokeInv
<1> QED BY SMT, ZenonT(60), <1>2, <1>3, RevokeStep DEF AdminRevoke, AdminRevokeNotFound, Active, Fresh

LEMMA NextRevokedChainEnds ==
  ASSUME TypeOK, ChainInv, HandlerInv, RevokeInv, OneLivePerChain,
         RevokedChainEnds, [Next]_vars
  PROVE  RevokedChainEnds'
<1>1. ASSUME NEW s \in Session, AdminRevoke(s) PROVE RevokedChainEnds'
  <2>1. ASSUME NEW x \in Session, <<chain'[x], 204>> \in revokes', Active(x)'
        PROVE  FALSE
    <3>1. /\ chain'[x] = chain[x]
          /\ user_sessions'[x] = IF x = s THEN Revoked(s) ELSE user_sessions[x]
          /\ revokes' = revokes \cup {<<chain[s], 204>>}
      BY <1>1 DEF AdminRevoke, TypeOK
    <3>2. Revoked(s).status = "revoked"
      <4>1. user_sessions[s] \in SessionRow
        BY DEF TypeOK
      <4> QED BY <4>1 DEF Revoked, SessionRow
    <3>3. x # s /\ Active(x)
      BY <2>1, <3>1, <3>2 DEF Active
    <3>4. <<chain[x], 204>> \in revokes \/ chain[x] = chain[s]
      BY <2>1, <3>1
    <3> QED BY <1>1, <3>3, <3>4 DEF AdminRevoke, RevokedChainEnds, OneLivePerChain
  <2> QED BY <2>1 DEF RevokedChainEnds
<1>2. ASSUME NEW s \in Session, AdminRevokeNotFound(s),
             UNCHANGED <<user_sessions, chain>>
      PROVE  RevokedChainEnds'
  <2>1. \A c : <<c, 204>> \in revokes' => <<c, 204>> \in revokes
    BY <1>2 DEF AdminRevokeNotFound
  <2> QED BY <1>2, <2>1 DEF RevokedChainEnds, Active
<1>3. CASE UNCHANGED revokes
  <2>1. CASE Ends
    BY <1>3, <2>1 DEF Ends, RevokedChainEnds
  <2>2. ASSUME NEW r \in Request, NEW s \in Session, LoginCreateSession(r, s)
        PROVE  RevokedChainEnds'
    <3>1. Opens(r, s) /\ chain[s] = None
      BY <2>2, CreateOpens DEF LoginCreateSession, ChainInv
    <3>2. <<s, 204>> \notin revokes
      BY <3>1, ConstantsAssumption DEF RevokeInv
    <3> QED BY <1>3, <3>1, <3>2 DEF Opens, RevokedChainEnds
  <2>3. ASSUME NEW r \in Request, NEW t \in Session, RefreshCommit(r, t)
        PROVE  RevokedChainEnds'
    <3>1. /\ req[r].session \in Session
          /\ Active(req[r].session)
      BY <2>3 DEF RefreshCommit, TypeOK, HandlerState, Handler, HandlerInv, HandlerHolds
    <3> QED BY <1>3, <2>3, <3>1, CommitMoves DEF Moves, RevokedChainEnds
  <2> QED BY <2>1, <2>2, <2>3, OtherEnds
<1> QED BY <1>1, <1>2, <1>3, RevokeStep

LEMMA WalletStep ==
  ASSUME [Next]_vars
  PROVE  \/ UNCHANGED wallets
         \/ UNCHANGED <<user_sessions, chain>>
              /\ \E r \in Request, w \in Wallet :
                   LoginBindWallet(r, w) \/ LinkBindWallet(r, w)
         \/ \E w \in Wallet : DeleteWallet(w)
BY ZenonT(60) DEF Next, IssueNonce, LoginStep, LoginCheck, LoginBindWallet, LoginCreateSession,
       LoginConsumeNonce, LoginNonceTaken, LoginAnswer, RefreshStep, RefreshLock,
       RefreshCommit, RefreshAnswer, LogoutStep, LogoutAuthorise, LogoutRevoke, LinkStep, LinkCheck,
       LinkBindWallet, LinkConsumeNonce, LinkNonceTaken, AdminRevoke, AdminRevokeNotFound, Abort, Tick, dbVars, history, vars

LEMMA NextActiveSessionHasWallet ==
  ASSUME TypeOK, ChainInv, HandlerInv, ActiveSessionHasWallet, [Next]_vars
  PROVE  ActiveSessionHasWallet'
<1>1. ASSUME NEW w \in Wallet, DeleteWallet(w) PROVE ActiveSessionHasWallet'
  <2>1. ASSUME NEW x \in Session, Active(x)'
        PROVE  wallets'[user_sessions'[x].wallet_id] = "live"
    <3>1. user_sessions[x] \in SessionRow
      BY DEF TypeOK
    <3>2. /\ user_sessions[x].wallet_id # w
          /\ user_sessions'[x] = user_sessions[x]
      BY <1>1, <2>1, <3>1 DEF DeleteWallet, Active, SessionRow
    <3>3. wallets[user_sessions[x].wallet_id] = "live" /\ user_sessions[x].wallet_id \in Wallet
      BY <2>1, <3>2 DEF ActiveSessionHasWallet, ChainInv, Active
    <3> QED BY <1>1, <3>2, <3>3 DEF DeleteWallet, TypeOK
  <2> QED BY <2>1 DEF ActiveSessionHasWallet
<1>2. ASSUME NEW r \in Request, NEW w \in Wallet,
             LoginBindWallet(r, w) \/ LinkBindWallet(r, w),
             UNCHANGED <<user_sessions, chain>>
      PROVE  ActiveSessionHasWallet'
  BY <1>2 DEF LoginBindWallet, LinkBindWallet, ActiveSessionHasWallet, Active, TypeOK, ChainInv
<1>3. CASE UNCHANGED wallets
  <2>1. CASE Ends
    BY <1>3, <2>1 DEF Ends, ActiveSessionHasWallet
  <2>2. ASSUME NEW r \in Request, NEW s \in Session, LoginCreateSession(r, s)
        PROVE  ActiveSessionHasWallet'
    <3>1. Opens(r, s) /\ wallets[req[r].wallet] = "live"
      BY <2>2, CreateOpens DEF LoginCreateSession
    <3> QED BY <1>3, <3>1 DEF Opens, ActiveSessionHasWallet
  <2>3. ASSUME NEW r \in Request, NEW t \in Session, RefreshCommit(r, t)
        PROVE  ActiveSessionHasWallet'
    <3>1. /\ req[r].session \in Session
          /\ Active(req[r].session)
      BY <2>3 DEF RefreshCommit, TypeOK, HandlerState, Handler, HandlerInv, HandlerHolds
    <3> QED BY <1>3, <2>3, <3>1, CommitMoves DEF Moves, ActiveSessionHasWallet
  <2> QED BY <2>1, <2>2, <2>3, OtherEnds
<1> QED BY <1>1, <1>2, <1>3, WalletStep

LEMMA NextNonceSingleUse ==
  ASSUME TypeOK, HandlerInv, GrantInv, NonceSingleUse, [Next]_vars
  PROVE  GrantInv' /\ NonceSingleUse'
<1>1. CASE UNCHANGED <<granted, linked>>
  BY <1>1, NoncesLast DEF GrantInv, NonceSingleUse
<1>3. ASSUME NEW r \in Request, LinkConsumeNonce(r), UNCHANGED granted
      PROVE  GrantInv' /\ NonceSingleUse'
  <2>1. /\ req[r].nonce \in Nonce
        /\ nonces[req[r].nonce].state = "open"
    BY <1>3 DEF LinkConsumeNonce, TypeOK, HandlerState, Handler
  <2>2. nonces'[req[r].nonce].state = "consumed" /\ linked' = linked \cup {req[r].nonce}
    BY <1>3, <2>1 DEF LinkConsumeNonce, TypeOK, NonceRow
  <2> QED BY <1>3, <2>1, <2>2, NoncesLast DEF GrantInv, NonceSingleUse
<1>2. ASSUME NEW r \in Request, LoginAnswer(r)
      PROVE  GrantInv' /\ NonceSingleUse'
  <2>1. /\ req[r].nonce \in Nonce
        /\ granted[req[r].nonce] = {} /\ req[r].nonce \notin linked
        /\ nonces[req[r].nonce].state = "consumed"
        /\ UNCHANGED linked
    BY <1>2 DEF LoginAnswer, HandlerInv, HandlerHolds, TypeOK, HandlerState, Handler
  <2>2. \A n \in Nonce : granted'[n] = IF n = req[r].nonce THEN {req[r].session}
                                       ELSE granted[n]
    BY <1>2, <2>1 DEF LoginAnswer, TypeOK
  <2> QED BY <2>1, <2>2, NoncesLast DEF GrantInv, NonceSingleUse
<1> QED BY <1>1, <1>2, <1>3, TokenStep, LinkedStep

LEMMA NextTokensPaidFor ==
  ASSUME TypeOK, ChainInv, HandlerInv, GrantInv, TokensPaidFor, [Next]_vars
  PROVE  TokensPaidFor'
<1>1. ASSUME NEW x \in Session, Paid(chain[x])
      PROVE  Paid(chain[x])'
  <2>1. chain[x] \in Session
    BY <1>1 DEF Paid, TypeOK
  <2>2. chain'[x] = chain[x]
    BY <2>1, ChainsLast, ConstantsAssumption
  <2>3. Paid(chain[x])
    BY <1>1
  <2>4. PICK n \in Nonce : nonces[n].state = "consumed" /\ chain[x] \in granted[n]
    BY <2>3 DEF Paid
  <2>5. nonces'[n].state = "consumed" /\ chain[x] \in granted'[n]
    BY <2>4, NoncesLast, GrantsLast
  <2> QED BY <2>2, <2>5 DEF Paid
<1>2. ASSUME NEW k \in held PROVE k.session_id \in Session /\ Paid(chain[k.session_id])
  BY DEF TokensPaidFor, TypeOK, Token
<1>3. CASE UNCHANGED held
  BY <1>1, <1>2, <1>3 DEF TokensPaidFor
<1>4. ASSUME NEW r \in Request, LoginAnswer(r) PROVE TokensPaidFor'
  <2>1. PICK n \in Nonce, s \in Session :
          /\ n = req[r].nonce /\ s = req[r].session
          /\ nonces[n].state = "consumed" /\ chain[s] = s
    BY <1>4 DEF LoginAnswer, HandlerInv, HandlerHolds, TypeOK, HandlerState, Handler
  <2>2. nonces' = nonces /\ chain' = chain /\ s \in granted'[n]
    BY <1>4, <2>1 DEF LoginAnswer, TypeOK, dbVars
  <2>3. Paid(chain[s])'
    BY <2>1, <2>2 DEF Paid
  <2>4. \A k \in held' : k \in held \/ k.session_id = s
    BY <1>4, <2>1 DEF LoginAnswer
  <2> QED BY <1>1, <1>2, <2>1, <2>3, <2>4 DEF TokensPaidFor
<1>5. ASSUME NEW r \in Request, RefreshAnswer(r) PROVE TokensPaidFor'
  <2>1. req[r].session \in Session /\ Paid(chain[req[r].session])
    BY <1>5 DEF RefreshAnswer, HandlerInv, HandlerHolds, TypeOK, HandlerState, Handler
  <2>2. \A k \in held' : k \in held \/ k.session_id = req[r].session
    BY <1>5 DEF RefreshAnswer
  <2> QED BY <1>1, <1>2, <2>1, <2>2 DEF TokensPaidFor
<1> QED BY <1>3, <1>4, <1>5, TokenStep

-----------------------------------------------------------------------------
(* The handlers.  A step is of one handler, and the others keep their      *)
(* place.                                                                  *)

LoginStepOf(r) ==
  \/ \E n \in Nonce : LoginCheck(r, n)
  \/ \E w \in Wallet : LoginBindWallet(r, w)
  \/ \E s \in Session : LoginCreateSession(r, s)
  \/ LoginConsumeNonce(r)

SessionStepOf(r) ==
  \/ \E s \in Session : RefreshLock(r, s)
  \/ \E t \in Session : RefreshCommit(r, t)
  \/ \E k \in held : LogoutAuthorise(r, k)

LinkStepOf(r) ==
  \/ \E k \in held, n \in Nonce : LinkCheck(r, k, n)
  \/ \E w \in Wallet : LinkBindWallet(r, w)

HandlerSteps(r) ==
  /\ \A q \in Request \ {r} : req'[q] = req[q]
  /\ req'[r] = Idle \/ LoginStepOf(r) \/ SessionStepOf(r) \/ LinkStepOf(r)

LEMMA HandlerStep ==
  ASSUME TypeOK, [Next]_vars
  PROVE  UNCHANGED req \/ \E r \in Request : HandlerSteps(r)
<1>1. ASSUME NEW r \in Request, LoginStep(r) PROVE HandlerSteps(r)
  BY <1>1 DEF HandlerSteps, LoginStep, LoginStepOf, LoginCheck, LoginBindWallet,
              LoginCreateSession, LoginConsumeNonce, LoginNonceTaken, LoginAnswer, TypeOK
<1>2. ASSUME NEW r \in Request, RefreshStep(r) PROVE HandlerSteps(r)
  BY <1>2 DEF HandlerSteps, RefreshStep, SessionStepOf, RefreshLock, RefreshCommit,
              RefreshAnswer, TypeOK
<1>3. ASSUME NEW r \in Request, LogoutStep(r) PROVE HandlerSteps(r)
  BY <1>3 DEF HandlerSteps, LogoutStep, SessionStepOf, LogoutAuthorise, LogoutRevoke, TypeOK
<1>4. ASSUME NEW r \in Request, Abort(r) PROVE HandlerSteps(r)
  BY <1>4 DEF HandlerSteps, Abort, TypeOK
<1>5. ASSUME NEW r \in Request, LinkStep(r) PROVE HandlerSteps(r)
  BY <1>5 DEF HandlerSteps, LinkStep, LinkStepOf, LinkCheck, LinkBindWallet,
              LinkConsumeNonce, LinkNonceTaken, TypeOK
<1> QED
  BY <1>1, <1>2, <1>3, <1>4, <1>5 DEF Next, IssueNonce, AdminRevoke, AdminRevokeNotFound,
     DeleteWallet, Tick, vars

(* A refresh's session is not touched by anyone else.                      *)
LEMMA LockHolds ==
  ASSUME TypeOK, ChainInv, HandlerInv, ExclusionInv, [Next]_vars,
         NEW q \in Request, req[q].pc = "locked", req'[q] = req[q]
  PROVE  Active(req[q].session)'
<1>1. /\ req[q].session \in Session
      /\ Active(req[q].session) /\ Locked(req[q].session)
  BY DEF TypeOK, HandlerState, Handler, HandlerInv, HandlerHolds, Locked
<1>2. CASE Ends
  BY <1>1, <1>2 DEF Ends, Active
<1>3. ASSUME NEW r \in Request, NEW s \in Session, LoginCreateSession(r, s)
      PROVE  Active(req[q].session)'
  BY <1>1, <1>3, CreateOpens DEF Opens, Active
<1>4. ASSUME NEW r \in Request, NEW t \in Session, RefreshCommit(r, t)
      PROVE  Active(req[q].session)'
  <2>1. r # q
    BY <1>4 DEF RefreshCommit, At, TypeOK
  <2>2. req[r].session # req[q].session
    BY <1>4, <2>1 DEF RefreshCommit, ExclusionInv
  <2> QED BY <1>1, <1>4, <2>2, CommitMoves DEF Moves, Active
<1> QED BY <1>2, <1>3, <1>4, OtherEnds

(* A handler that is not stepping keeps what it relies on.                 *)
LEMMA BystanderHolds ==
  ASSUME TypeOK, ChainInv, HandlerInv, ExclusionInv, GrantInv, [Next]_vars,
         NEW q \in Request, req'[q] = req[q]
  PROVE  HandlerHolds(q)'
<1>1. req[q] \in HandlerState /\ HandlerHolds(q)
  BY DEF TypeOK, HandlerInv
<1>2. CASE req[q].pc \in {"checked", "bound", "stored", "consumed", "linking", "linked"}
  <2>1. req[q].nonce \in Nonce
    BY <1>1, <1>2 DEF HandlerState, Handler
  <2>2. /\ nonces[req[q].nonce].state # "absent" => nonces'[req[q].nonce].state # "absent"
        /\ nonces[req[q].nonce].state = "consumed" => nonces'[req[q].nonce].state = "consumed"
    BY <2>1, NoncesLast
  <2>3. req[q].pc \in {"stored", "consumed"} => chain'[req[q].session] = chain[req[q].session]
    <3>1. ASSUME req[q].pc \in {"stored", "consumed"}
          PROVE  req[q].session \in Session /\ chain[req[q].session] # None
      BY <1>1, <3>1, ConstantsAssumption DEF HandlerState, Handler, HandlerHolds
    <3> QED BY <3>1, ChainsLast
  <2>4. ASSUME req[q].pc = "consumed" PROVE granted'[req[q].nonce] = {}
    <3>1. granted[req[q].nonce] = {}
      BY <1>1, <2>4 DEF HandlerHolds
    <3>2. ASSUME NEW r \in Request, LoginAnswer(r)
          PROVE  granted'[req[q].nonce] = granted[req[q].nonce]
      <4>1. r # q
        BY <3>2, <2>4 DEF LoginAnswer, Idle, At, TypeOK
      <4>2. req[r].nonce # req[q].nonce
        BY <3>2, <2>4, <4>1 DEF LoginAnswer, ExclusionInv
      <4> QED BY <2>1, <3>2, <4>2 DEF LoginAnswer, TypeOK
    <3> QED BY <3>1, <3>2, TokenStep
  <2>5. ASSUME req[q].pc = "consumed" PROVE req[q].nonce \notin linked'
    <3>1. /\ req[q].nonce \notin linked
          /\ nonces[req[q].nonce].state = "consumed"
      BY <1>1, <2>5 DEF HandlerHolds
    <3>2. ASSUME NEW r \in Request, LinkConsumeNonce(r)
          PROVE  linked' = linked \cup {req[r].nonce} /\ req[r].nonce # req[q].nonce
      BY <3>1, <3>2 DEF LinkConsumeNonce
    <3> QED BY <3>1, <3>2, LinkedStep
  <2> QED BY <1>1, <1>2, <2>2, <2>3, <2>4, <2>5 DEF HandlerHolds
<1>3. CASE req[q].pc \in {"locked", "rotated", "authorised"}
  <2>1. req[q].session \in Session
    BY <1>1, <1>3 DEF HandlerState, Handler
  <2>2. chain[req[q].session] # None
    BY <1>1, <1>3, <2>1, ConstantsAssumption DEF HandlerHolds, ChainInv, Active, Fresh, Paid, TypeOK
  <2>3. chain'[req[q].session] = chain[req[q].session] /\ ~Fresh(req[q].session)'
    <3>1. PICK s \in Session : s = req[q].session
      BY <2>1
    <3>2. chain'[s] = chain[s] /\ ~Fresh(s)'
      BY <2>2, <3>1, ChainsLast
    <3> QED BY <3>1, <3>2 DEF Fresh
  <2>4. Paid(chain[req[q].session]) => Paid(chain[req[q].session])'
    <3>1. PICK c : c = chain[req[q].session]
      OBVIOUS
    <3>2. Paid(c) => Paid(c)'
      BY PaidLasts
    <3> QED BY <2>3, <3>1, <3>2 DEF Paid
  <2>5. req[q].pc = "locked" => Active(req[q].session)'
    BY LockHolds
  <2>6. req[q].session \in HeldSessions => (req[q].session \in HeldSessions)'
    BY GrantsLast
  <2> QED BY <1>1, <1>3, <2>3, <2>4, <2>5, <2>6 DEF HandlerHolds
<1>4. CASE req[q].pc = "idle"
  BY <1>4 DEF HandlerHolds
<1> QED BY <1>1, <1>2, <1>3, <1>4 DEF HandlerState, Handler

(* The handler whose step it is relies on what it has just established.    *)
LEMMA StepperHolds ==
  ASSUME TypeOK, ChainInv, HandlerInv, GrantInv, TokensPaidFor, [Next]_vars,
         NEW r \in Request, HandlerSteps(r)
  PROVE  HandlerHolds(r)'
<1>1. CASE req'[r] = Idle
  BY <1>1 DEF HandlerHolds, Idle, At
<1>2. ASSUME NEW n \in Nonce, LoginCheck(r, n) PROVE HandlerHolds(r)'
  BY <1>2 DEF LoginCheck, NonceValid, At, HandlerHolds, TypeOK, dbVars
<1>3. ASSUME NEW w \in Wallet, LoginBindWallet(r, w) PROVE HandlerHolds(r)'
  BY <1>3 DEF LoginBindWallet, At, HandlerInv, HandlerHolds, TypeOK
<1>4. ASSUME NEW s \in Session, LoginCreateSession(r, s) PROVE HandlerHolds(r)'
  <2>1. nonces[req[r].nonce].state # "absent"
    BY <1>4 DEF LoginCreateSession, HandlerInv, HandlerHolds
  <2> QED BY <1>4, <2>1 DEF LoginCreateSession, At, HandlerHolds, TypeOK
<1>5. CASE LoginConsumeNonce(r)
  <2>1. /\ req[r].nonce \in Nonce
        /\ chain[req[r].session] = req[r].session
        /\ granted[req[r].nonce] = {} /\ req[r].nonce \notin linked
    BY <1>5 DEF LoginConsumeNonce, HandlerInv, HandlerHolds, GrantInv, TypeOK,
                HandlerState, Handler
  <2> QED BY <1>5, <2>1 DEF LoginConsumeNonce, HandlerHolds, TypeOK, NonceRow, history
<1>6. ASSUME NEW s \in Session, RefreshLock(r, s) PROVE HandlerHolds(r)'
  <2>1. Active(s) /\ s \in HeldSessions /\ Paid(chain[s])
    BY <1>6 DEF RefreshLock, HeldSessions, TokensPaidFor
  <2>2. req'[r] = At("locked", None, None, s)
    BY <1>6 DEF RefreshLock, TypeOK
  <2>3. UNCHANGED <<nonces, user_sessions, held, chain, granted>>
    BY <1>6 DEF RefreshLock, dbVars, history
  <2> QED BY <2>1, <2>2, <2>3 DEF At, HandlerHolds, Active, HeldSessions, Paid
<1>7. ASSUME NEW t \in Session, RefreshCommit(r, t) PROVE HandlerHolds(r)'
  <2>1. Paid(chain[req[r].session])
    BY <1>7 DEF RefreshCommit, HandlerInv, HandlerHolds
  <2>2. /\ req'[r] = At("rotated", None, None, t)
        /\ chain'[t] = chain[req[r].session]
        /\ UNCHANGED <<nonces, granted>>
    BY <1>7 DEF RefreshCommit, TypeOK
  <2> QED BY <2>1, <2>2 DEF At, HandlerHolds, Paid
<1>8. ASSUME NEW k \in held, LogoutAuthorise(r, k) PROVE HandlerHolds(r)'
  BY <1>8 DEF LogoutAuthorise, TokenAccepted, Active, Fresh, At, HandlerHolds, TypeOK, dbVars
<1>9. ASSUME NEW k \in held, NEW n \in Nonce, LinkCheck(r, k, n) PROVE HandlerHolds(r)'
  BY <1>9 DEF LinkCheck, NonceValid, At, HandlerHolds, TypeOK, dbVars
<1>10. ASSUME NEW w \in Wallet, LinkBindWallet(r, w) PROVE HandlerHolds(r)'
  BY <1>10 DEF LinkBindWallet, At, HandlerInv, HandlerHolds, TypeOK
<1> QED
  BY <1>1, <1>2, <1>3, <1>4, <1>5, <1>6, <1>7, <1>8, <1>9, <1>10
  DEF HandlerSteps, LoginStepOf, SessionStepOf, LinkStepOf

LEMMA NextHandlerInv ==
  ASSUME TypeOK, ChainInv, HandlerInv, ExclusionInv, GrantInv, TokensPaidFor, [Next]_vars
  PROVE  HandlerInv'
<1>1. CASE UNCHANGED req
  BY <1>1, BystanderHolds DEF HandlerInv
<1>2. ASSUME NEW r \in Request, HandlerSteps(r) PROVE HandlerInv'
  BY <1>2, StepperHolds, BystanderHolds DEF HandlerSteps, HandlerInv
<1> QED BY <1>1, <1>2, HandlerStep

LEMMA NextExclusionInv ==
  ASSUME TypeOK, HandlerInv, ExclusionInv, [Next]_vars
  PROVE  ExclusionInv'
<1>1. CASE UNCHANGED req
  BY <1>1 DEF ExclusionInv
<1>2. ASSUME NEW r \in Request, HandlerSteps(r),
             req'[r].pc \notin {"consumed", "locked"}
      PROVE  ExclusionInv'
  BY <1>2 DEF ExclusionInv, HandlerSteps
<1>3. ASSUME NEW r \in Request, HandlerSteps(r), LoginConsumeNonce(r)
      PROVE  ExclusionInv'
  <2>1. req'[r].pc = "consumed" /\ req'[r].nonce = req[r].nonce
    BY <1>3 DEF LoginConsumeNonce, TypeOK, HandlerState, Handler
  <2>2. ASSUME NEW q \in Request, q # r, req[q].pc = "consumed"
        PROVE  req[q].nonce # req[r].nonce
    BY <1>3, <2>2 DEF LoginConsumeNonce, HandlerInv, HandlerHolds
  <2> QED BY <1>3, <2>1, <2>2 DEF ExclusionInv, HandlerSteps
<1>4. ASSUME NEW r \in Request, HandlerSteps(r), NEW s \in Session, RefreshLock(r, s)
      PROVE  ExclusionInv'
  <2>1. req'[r].pc = "locked" /\ req'[r].session = s
    BY <1>4 DEF RefreshLock, At, TypeOK
  <2>2. \A q \in Request : req[q].pc = "locked" => req[q].session # s
    BY <1>4 DEF RefreshLock, Locked
  <2> QED BY <1>4, <2>1, <2>2 DEF ExclusionInv, HandlerSteps
<1>5. ASSUME NEW r \in Request, HandlerSteps(r),
             req'[r].pc \in {"consumed", "locked"}
      PROVE  LoginConsumeNonce(r) \/ \E s \in Session : RefreshLock(r, s)
  BY <1>5 DEF HandlerSteps, LoginStepOf, SessionStepOf, LoginCheck, LoginBindWallet,
              LoginCreateSession, RefreshCommit, LogoutAuthorise, LinkStepOf,
              LinkCheck, LinkBindWallet, Idle, At, TypeOK
<1> QED BY <1>1, <1>2, <1>3, <1>4, <1>5, HandlerStep

-----------------------------------------------------------------------------
(* The inductive invariant and what follows from it.                       *)

LEMMA InitIInv == Init => IInv
<1> SUFFICES ASSUME Init PROVE IInv
  OBVIOUS
<1>1. TypeOK
  BY InitTypeOK
<1>2. ChainInv
  BY ConstantsAssumption DEF Init, ChainInv, Active, Fresh, NoRow
<1>3. HandlerInv /\ ExclusionInv
  BY DEF Init, HandlerInv, HandlerHolds, ExclusionInv, Idle, At
<1>4. GrantInv /\ RevokeInv /\ NonceSingleUse /\ RevokedChainEnds /\ TokensPaidFor
  BY DEF Init, GrantInv, RevokeInv, NonceSingleUse, RevokedChainEnds, TokensPaidFor
<1>5. OneLivePerChain /\ ActiveSessionHasWallet
  BY DEF Init, OneLivePerChain, ActiveSessionHasWallet, Active, NoRow
<1> QED BY <1>1, <1>2, <1>3, <1>4, <1>5 DEF IInv

LEMMA NextIInv == IInv /\ [Next]_vars => IInv'
BY NextTypeOK, NextChainInv, NextHandlerInv, NextExclusionInv, NextNonceSingleUse,
   NextRevokeInv, NextOneLivePerChain, NextRevokedChainEnds, NextTokensPaidFor,
   NextActiveSessionHasWallet
DEF IInv

LEMMA Invariance == Spec => []IInv
BY InitIInv, NextIInv, PTL DEF Spec

(* One signed message logs in at most once, however many handlers race.    *)
THEOREM SingleUse == Spec => []NonceSingleUse
<1>1. IInv => NonceSingleUse
  BY DEF IInv
<1> QED BY <1>1, Invariance, PTL

(* A login has one active session at a time: no refresh forks it.          *)
THEOREM NoFork == Spec => []OneLivePerChain
<1>1. IInv => OneLivePerChain
  BY DEF IInv
<1> QED BY <1>1, Invariance, PTL

(* A revocation answered 204 ends the login for good.                      *)
THEOREM RevocationHolds == Spec => []RevokedChainEnds
<1>1. IInv => RevokedChainEnds
  BY DEF IInv
<1> QED BY <1>1, Invariance, PTL

(* Clients hold tokens of consumed logins only.                            *)
THEOREM NoFreeTokens == Spec => []TokensPaidFor
<1>1. IInv => TokensPaidFor
  BY DEF IInv
<1> QED BY <1>1, Invariance, PTL

(* A session is active only as long as its wallet exists.                  *)
THEOREM NoOrphanSession == Spec => []ActiveSessionHasWallet
<1>1. IInv => ActiveSessionHasWallet
  BY DEF IInv
<1> QED BY <1>1, Invariance, PTL

-----------------------------------------------------------------------------
(* Dormant chains.                                                         *)

LEMMA ClockStep ==
  ASSUME TypeOK, [Next]_vars
  PROVE  now' \in Nat /\ now <= now'
<1>1. CASE UNCHANGED now
  BY <1>1 DEF TypeOK
<1>2. CASE Tick
  BY <1>2 DEF Tick, TypeOK
<1> QED
  BY <1>1, <1>2
  DEF Next, IssueNonce, LoginStep, LoginCheck, LoginBindWallet, LoginCreateSession,
      LoginConsumeNonce, LoginNonceTaken, LoginAnswer, RefreshStep, RefreshLock,
      RefreshCommit, RefreshAnswer, LogoutStep, LogoutAuthorise, LogoutRevoke, LinkStep, LinkCheck,
      LinkBindWallet, LinkConsumeNonce, LinkNonceTaken, AdminRevoke, AdminRevokeNotFound, DeleteWallet, Abort, vars

(* Only a client with an active, unexpired session starts a refresh.       *)
LEMMA LockStep ==
  ASSUME TypeOK, [Next]_vars, NEW s \in Session, Locked(s)', ~Locked(s)
  PROVE  Active(s) /\ Unexpired(s)
<1>1. PICK q \in Request : req'[q].pc = "locked" /\ req'[q].session = s
  BY DEF Locked
<1>2. req'[q] # req[q]
  BY <1>1 DEF Locked
<1>3. HandlerSteps(q)
  BY <1>2, HandlerStep DEF HandlerSteps
<1>4. PICK x \in Session : RefreshLock(q, x)
  BY <1>1, <1>3 DEF HandlerSteps, LoginStepOf, SessionStepOf, LoginCheck,
     LoginBindWallet, LoginCreateSession, LoginConsumeNonce, RefreshCommit,
     LogoutAuthorise, LinkStepOf, LinkCheck, LinkBindWallet, Idle, At, TypeOK, HandlerState, Handler
<1>5. x = s
  BY <1>1, <1>4 DEF RefreshLock, At, TypeOK
<1> QED BY <1>4, <1>5 DEF RefreshLock

LEMMA NextDormant ==
  ASSUME IInv, [Next]_vars, NEW c \in Session, Dormant(c)
  PROVE  Dormant(c)'
<1> USE DEF IInv
<1>1. chain[c] = c /\ chain'[c] = c
  BY ChainsLast, ConstantsAssumption DEF Dormant
<1>2. ASSUME NEW s \in Session, chain[s] = c
      PROVE  ~Locked(s)' /\ ~(Active(s) /\ Unexpired(s))
  BY <1>2, LockStep DEF Dormant
<1>3. ASSUME NEW s \in Session, chain[s] = c, Active(s)' => Active(s),
             user_sessions'[s].expires_at = user_sessions[s].expires_at
      PROVE  ~(Active(s)' /\ Unexpired(s)')
  <2>1. user_sessions[s].expires_at \in Nat
    BY DEF TypeOK, SessionRow
  <2> QED BY <1>2, <1>3, <2>1, ClockStep DEF Unexpired, TypeOK
<1>4. CASE Ends
  BY <1>1, <1>2, <1>3, <1>4 DEF Ends, Dormant
<1>5. ASSUME NEW r \in Request, NEW t \in Session, LoginCreateSession(r, t)
      PROVE  Dormant(c)'
  <2>1. Opens(r, t) /\ t # c
    BY <1>1, <1>5, CreateOpens, ConstantsAssumption DEF LoginCreateSession, ChainInv
  <2>2. \A s \in Session : chain'[s] = c => s # t /\ chain[s] = c
    BY <2>1 DEF Opens
  <2> QED BY <1>1, <1>2, <1>3, <2>1, <2>2 DEF Opens, Dormant
<1>6. ASSUME NEW r \in Request, NEW t \in Session, RefreshCommit(r, t)
      PROVE  Dormant(c)'
  <2>1. /\ req[r].session \in Session
        /\ Locked(req[r].session)
    BY <1>6 DEF RefreshCommit, Locked, TypeOK, HandlerState, Handler
  <2>2. chain[req[r].session] # c
    BY <2>1 DEF Dormant
  <2>3. Moves(r, t)
    BY <1>6, CommitMoves
  <2>4. \A s \in Session : chain'[s] = c => s # t /\ chain[s] = c
    BY <2>2, <2>3 DEF Moves
  <2> QED BY <1>1, <1>2, <1>3, <2>3, <2>4 DEF Moves, Dormant
<1> QED BY <1>4, <1>5, <1>6, OtherEnds

(* A session that ended, by logout, revocation or time, never lives again. *)
THEOREM NoResurrection == Spec => DormantForever
<1>1. IInv /\ [Next]_vars => [\A c \in Session : Dormant(c) => Dormant(c)']_vars
  BY NextDormant
<1> QED BY <1>1, Invariance, PTL DEF Spec, DormantForever

-----------------------------------------------------------------------------
(* AuthSession implements SessionChains.                                   *)

LEMMA InitChains == Init => Chains!Init
BY DEF Init, Chains!Init, LiveSessions, UsedSessions, HeldSessions, GrantedNonces,
       Active, Fresh, NoRow

LEMMA HandOut ==
  ASSUME NEW s, NEW exp, held' = held \cup {[session_id |-> s, exp |-> exp]}
  PROVE  HeldSessions' = HeldSessions \cup {s}
<1> DEFINE k == [session_id |-> s, exp |-> exp]
<1>1. k.session_id = s /\ held' = held \cup {k}
  OBVIOUS
<1> HIDE DEF k
<1>2. ASSUME NEW x PROVE x \in HeldSessions' <=> x \in HeldSessions \cup {s}
  BY <1>1 DEF HeldSessions
<1> QED BY <1>2

(* The tables of sessions change, and nothing is handed out; or tokens are *)
(* handed out, and no session changes.                                     *)
LEMMA ChainsStep ==
  ASSUME IInv, [Next]_vars
  PROVE  [Chains!Next]_(Chains!vars)
<1> USE DEF IInv
<1>1. CASE Ends /\ UNCHANGED <<held, granted>>
  <2>1. ASSUME NEW c \in Session
        PROVE  LiveSessions'[c] \in {LiveSessions[c], {}}
    <3>1. LiveSessions'[c] \subseteq LiveSessions[c]
      BY <1>1 DEF Ends, LiveSessions
    <3>2. \A s, t \in LiveSessions[c] : s = t
      BY DEF LiveSessions, OneLivePerChain
    <3> QED BY <3>1, <3>2
  <2>2. LiveSessions' \in [Session -> SUBSET Session]
    BY DEF LiveSessions
  <2>3. UsedSessions' = UsedSessions
    BY <1>1 DEF Ends, UsedSessions
  <2>4. HeldSessions' = HeldSessions /\ GrantedNonces' = GrantedNonces
    BY <1>1 DEF HeldSessions, GrantedNonces
  <2>5. Chains!End
    BY <2>1, <2>2, <2>3, <2>4 DEF Chains!End
  <2> QED BY <2>5 DEF Chains!Next
<1>2. ASSUME NEW r \in Request, LoginAnswer(r) PROVE Chains!Next
  <2>1. PICK n \in Nonce, s \in Session :
          /\ n = req[r].nonce /\ s = req[r].session
          /\ granted[n] = {} /\ chain[s] = s
    BY <1>2 DEF LoginAnswer, HandlerInv, HandlerHolds, TypeOK, HandlerState, Handler
  <2>2. granted' = [granted EXCEPT ![n] = @ \cup {s}]
    BY <1>2, <2>1 DEF LoginAnswer
  <2>3. n \notin GrantedNonces /\ GrantedNonces' = GrantedNonces \cup {n}
    BY <2>1, <2>2 DEF GrantedNonces, TypeOK
  <2>4. HeldSessions' = HeldSessions \cup {s}
    <3>1. PICK exp \in Int : held' = held \cup {[session_id |-> s, exp |-> exp]}
      <4>1. user_sessions[s].expires_at - RefreshTTL + AccessTTL \in Int
        BY ConstantsAssumption DEF TypeOK, SessionRow
      <4> QED BY <1>2, <2>1, <4>1 DEF LoginAnswer
    <3> QED BY <3>1, HandOut
  <2>5. LiveSessions' = LiveSessions /\ UsedSessions' = UsedSessions
    BY <1>2 DEF LoginAnswer, LiveSessions, UsedSessions, Active, Fresh, dbVars
  <2>6. s \in UsedSessions
    BY <2>1, ConstantsAssumption DEF UsedSessions, ChainInv
  <2>7. Chains!Grant(n, s)
    BY <2>3, <2>4, <2>5, <2>6 DEF Chains!Grant
  <2> QED BY <2>7 DEF Chains!Next
<1>3. ASSUME NEW r \in Request, RefreshAnswer(r) PROVE Chains!Next
  <2>1. PICK t \in Session : t = req[r].session /\ Paid(chain[t])
    BY <1>3 DEF RefreshAnswer, HandlerInv, HandlerHolds, TypeOK, HandlerState, Handler
  <2>2. HeldSessions' = HeldSessions \cup {t}
    <3>1. PICK exp \in Int : held' = held \cup {[session_id |-> t, exp |-> exp]}
      <4>1. now + AccessTTL \in Int
        BY ConstantsAssumption DEF TypeOK
      <4> QED BY <1>3, <2>1, <4>1 DEF RefreshAnswer
    <3> QED BY <3>1, HandOut
  <2>3. UNCHANGED <<LiveSessions, UsedSessions, GrantedNonces>>
    BY <1>3 DEF RefreshAnswer, LiveSessions, UsedSessions, GrantedNonces, Active,
                Fresh, dbVars, history
  <2>4. t \in UsedSessions
    BY <2>1, ConstantsAssumption DEF UsedSessions, ChainInv, Paid, TypeOK
  <2>5. Chains!Give(t)
    BY <2>2, <2>3, <2>4 DEF Chains!Give
  <2> QED BY <2>5 DEF Chains!Next
<1>4. ASSUME NEW r \in Request, NEW s \in Session, LoginCreateSession(r, s)
      PROVE  Chains!Next
  <2>1. Opens(r, s) /\ Fresh(s) /\ chain[s] = None
    BY <1>4, CreateOpens DEF LoginCreateSession, ChainInv
  <2>2. UsedSessions' = UsedSessions \cup {s} /\ s \notin UsedSessions
    BY <2>1 DEF Opens, UsedSessions
  <2>3. ASSUME NEW c \in Session
        PROVE  LiveSessions'[c] = IF c = s THEN {s} ELSE LiveSessions[c]
    <3>1. \A x \in Session : chain[x] # s
      BY <2>1, ConstantsAssumption DEF ChainInv
    <3>2. LiveSessions'[c] = {x \in Session : Active(x)' /\ chain'[x] = c}
      BY DEF LiveSessions
    <3>3. LiveSessions[c] = {x \in Session : Active(x) /\ chain[x] = c}
      BY DEF LiveSessions
    <3>4. ASSUME NEW x \in Session
          PROVE  /\ Active(x)' <=> x = s \/ Active(x)
                 /\ chain'[x] = IF x = s THEN s ELSE chain[x]
      BY <2>1 DEF Opens
    <3>5. ~Active(s)
      BY <2>1 DEF Active, Fresh
    <3> QED BY <3>1, <3>2, <3>3, <3>4, <3>5
  <2>4. LiveSessions' = [LiveSessions EXCEPT ![s] = {s}]
    BY <2>3 DEF LiveSessions
  <2>5. UNCHANGED <<HeldSessions, GrantedNonces>>
    BY <1>4 DEF LoginCreateSession, HeldSessions, GrantedNonces
  <2>6. Chains!Open(s)
    BY <2>2, <2>4, <2>5 DEF Chains!Open
  <2> QED BY <2>6 DEF Chains!Next
<1>5. ASSUME NEW r \in Request, NEW t \in Session, RefreshCommit(r, t)
      PROVE  Chains!Next
  <2>1. PICK s \in Session : /\ s = req[r].session
                             /\ Active(s) /\ s \in HeldSessions /\ Paid(chain[s])
    BY <1>5 DEF RefreshCommit, HandlerInv, HandlerHolds, TypeOK, HandlerState, Handler
  <2>2. PICK c \in Session : c = chain[s]
    BY <2>1 DEF Paid, TypeOK
  <2>3. Moves(r, t) /\ Fresh(t) /\ chain[t] = None /\ s # t
    BY <1>5, <2>1, CommitMoves DEF RefreshCommit, ChainInv, Active, Fresh
  <2>4. UsedSessions' = UsedSessions \cup {t} /\ t \notin UsedSessions
    BY <2>3 DEF Moves, UsedSessions
  <2>5. LiveSessions[c] = {s}
    BY <2>1, <2>2 DEF LiveSessions, OneLivePerChain
  <2>6. ASSUME NEW d \in Session
        PROVE  LiveSessions'[d] = IF d = c THEN {t} ELSE LiveSessions[d]
    <3>1. LiveSessions'[d] = {x \in Session : Active(x)' /\ chain'[x] = d}
      BY DEF LiveSessions
    <3>2. LiveSessions[d] = {x \in Session : Active(x) /\ chain[x] = d}
      BY DEF LiveSessions
    <3>3. ~Active(t)
      BY <2>3 DEF Active, Fresh
    <3>4. ASSUME NEW x \in Session
          PROVE  /\ Active(x)' <=> x = t \/ (x # s /\ Active(x))
                 /\ chain'[x] = IF x = t THEN c ELSE chain[x]
      BY <2>1, <2>2, <2>3 DEF Moves
    <3> QED BY <2>1, <2>2, <2>5, <3>1, <3>2, <3>3, <3>4
  <2>7. LiveSessions' = [LiveSessions EXCEPT ![c] = {t}]
    BY <2>6 DEF LiveSessions
  <2>8. UNCHANGED <<HeldSessions, GrantedNonces>>
    BY <1>5 DEF RefreshCommit, HeldSessions, GrantedNonces
  <2>9. Chains!Rotate(c, s, t)
    BY <2>1, <2>4, <2>5, <2>7, <2>8 DEF Chains!Rotate
  <2> QED BY <2>9 DEF Chains!Next
<1> QED BY <1>1, <1>2, <1>3, <1>4, <1>5, OtherEnds, TokenStep

(* The handlers of the API implement the abstract session chains.          *)
THEOREM ImplementsChains == Spec => ChainsSpec
<1>1. IInv /\ [Next]_vars => [Chains!Next]_(Chains!vars)
  BY ChainsStep
<1> QED BY <1>1, InitChains, Invariance, PTL DEF Spec, ChainsSpec, Chains!Spec
=============================================================================
