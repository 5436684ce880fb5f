--------------------------- MODULE RoleCacheProofs ---------------------------
(***************************************************************************)
(* Proofs about RoleCache, for any sets of accounts, chains, roles and     *)
(* handlers and any TTLs.                                                  *)
(***************************************************************************)
EXTENDS RoleCache, TLAPS

-----------------------------------------------------------------------------
(* Type correctness.                                                       *)

LEMMA Bounds == MaxTime \in Nat /\ MaxSets \in Nat /\ MaxSets >= 1
  BY RoleAssumption

LEMMA InitShapeOK == Init => ShapeOK
<1> SUFFICES ASSUME Init PROVE ShapeOK
  OBVIOUS
<1>0. ASSUME NEW a \in Account
      PROVE  roles[a] \in Seq(RoleEntry) /\ Len(roles[a]) = 1
  <2>1. PICK role \in Role : roles[a] = <<[role |-> role, since |-> 0]>>
    BY DEF Init
  <2>2. [role |-> role, since |-> 0] \in RoleEntry
    BY Bounds DEF RoleEntry
  <2> QED BY <2>1, <2>2
<1>1. roles \in [Account -> Seq(RoleEntry)]
  BY <1>0 DEF Init
<1>2. \A a \in Account : Len(roles[a]) \in Version
  <2>1. 1 \in Version
    BY Bounds DEF Version
  <2> QED BY <1>0, <2>1
<1>3. rows \in [Wallets -> RowState]
  BY DEF Init, RowState, Row
<1>4. req \in [Request -> HandlerState]
  BY DEF Init, Idle, HandlerState, Handler
<1>5. now \in 0..MaxTime /\ floor \in [Account -> {0} \cup Version]
  BY Bounds DEF Init
<1> QED BY <1>1, <1>2, <1>3, <1>4, <1>5 DEF ShapeOK

(* What is known of a handler that holds a role, and of one that does not. *)
Holding(r) ==
  /\ req[r].account \in Account
  /\ req[r].chain \in ChainId
  /\ req[r].role \in Role
  /\ req[r].version \in Version

LEMMA HandlerFacts ==
  ASSUME ShapeOK, NEW r \in Request
  PROVE  /\ req[r].pc \in {"read", "have", "bound", "fetched"} => Holding(r)
         /\ req[r].role # None => Holding(r)
         /\ req[r].pc \in {"insert", "load", "ask"} =>
              req[r].account \in Account /\ req[r].chain \in ChainId
         /\ req[r].kind = "link" /\ req[r].pc = "insert" => req[r].role = None
         /\ req[r].pc \in {"load", "ask"} => req[r].role = None
         /\ req[r].pc = "walk" => req[r].account = None
  BY DEF ShapeOK, HandlerState, Handler, Holding, SignInKind

LEMMA HandlerCases ==
  ASSUME ShapeOK, NEW r \in Request
  PROVE  /\ req[r].pc \in {"load", "ask"} =>
              req[r] \in Handler({"load", "ask"}, SignInKind, Account, ChainId, {None}, {0}, {{}})
         /\ req[r].pc \in {"read", "have"} =>
              req[r] \in Handler({"read", "have"}, SignInKind, Account, ChainId, Role, Version, {{}})
         /\ req[r].pc = "insert" /\ req[r].kind = "link" =>
              req[r] \in Handler({"insert"}, {"link"}, Account, ChainId, {None}, {0}, {{}})
         /\ req[r].pc = "insert" /\ req[r].kind # "link" =>
              req[r] \in Handler({"insert", "bound"}, {"login"}, Account, ChainId, Role, Version, {{}})
         /\ req[r].pc = "walk" =>
              req[r] \in Handler({"walk"}, {"admin"}, {None}, {None}, {None}, {0}, SUBSET Wallets)
         /\ req[r].pc = "fetched" =>
              req[r] \in Handler({"fetched"}, {"admin"}, Account, ChainId, Role, Version, SUBSET Wallets)
<1>1. req[r] \in HandlerState
  BY DEF ShapeOK
<1> QED BY <1>1 DEF HandlerState, Handler

LEMMA StoreShapeOK ==
  ASSUME ShapeOK, NEW r \in Request, Holding(r), StoreRole(r)
  PROVE  rows' \in [Wallets -> RowState]
  BY DEF ShapeOK, Holding, StoreRole, RowState

LEMMA ReceiveFacts ==
  ASSUME ShapeOK, NEW a \in Account
  PROVE  /\ RoleNow(a) \in Role
         /\ Len(roles[a]) \in Version
         /\ Len(roles[a]) \in DOMAIN roles[a]
<1>1. roles[a] \in Seq(RoleEntry) /\ Len(roles[a]) \in Version
  BY DEF ShapeOK
<1>2. Len(roles[a]) \in DOMAIN roles[a]
  BY <1>1 DEF Version
<1>3. roles[a][Len(roles[a])] \in RoleEntry
  BY <1>1, <1>2
<1> QED BY <1>1, <1>2, <1>3 DEF RoleNow, RoleEntry

LEMMA NextShapeOK == ShapeOK /\ [Next]_vars => ShapeOK'
<1> SUFFICES ASSUME ShapeOK, [Next]_vars PROVE ShapeOK'
  OBVIOUS
<1> USE DEF ShapeOK
<1>1. ASSUME NEW a \in Account, NEW role \in Role, SetRole(a, role) PROVE ShapeOK'
  <2>0. roles[a] \in Seq(RoleEntry) /\ [role |-> role, since |-> now] \in RoleEntry
    BY DEF RoleEntry
  <2>1. Append(roles[a], [role |-> role, since |-> now]) \in Seq(RoleEntry)
    BY <2>0
  <2>2. Len(Append(roles[a], [role |-> role, since |-> now])) \in Version
    BY <1>1, <2>0, Bounds DEF SetRole, Version
  <2> QED BY <1>1, <2>1, <2>2 DEF SetRole
<1>2. ASSUME NEW r \in Request, SignIn(r) PROVE ShapeOK'
  <2>1. ASSUME NEW kind \in SignInKind, NEW a \in Account, NEW c \in ChainId,
               StartSignIn(r, kind, a, c)
        PROVE  ShapeOK'
    BY <2>1 DEF StartSignIn, Idle, HandlerState, Handler, SignInKind
  <2>2. ASSUME NEW a \in Account, NEW c \in ChainId,
               StartLogin(r, a, c) \/ StartRefresh(r, a, c) \/ StartLink(r, a, c)
        PROVE  ShapeOK'
    BY <2>1, <2>2 DEF StartLogin, StartRefresh, StartLink, SignInKind
  <2>3. ASSUME InsertWallet(r) PROVE ShapeOK'
    <3>1. rows' \in [Wallets -> RowState]
      BY <2>3 DEF InsertWallet, Row, RowState
    <3>2. req' \in [Request -> HandlerState]
      <4>1. CASE req[r].kind = "link"
        <5>1. [req[r] EXCEPT !.pc = "load"]
                \in Handler({"load", "ask"}, SignInKind, Account, ChainId, {None}, {0}, {{}})
          BY <2>3, <4>1, HandlerCases DEF InsertWallet, Handler, SignInKind
        <5> QED BY <2>3, <4>1, <5>1 DEF InsertWallet, HandlerState
      <4>2. CASE req[r].kind # "link"
        <5>1. [req[r] EXCEPT !.pc = "bound"]
                \in Handler({"insert", "bound"}, {"login"}, Account, ChainId, Role, Version, {{}})
          BY <2>3, <4>2, HandlerCases DEF InsertWallet, Handler
        <5> QED BY <2>3, <4>2, <5>1 DEF InsertWallet, HandlerState
      <4> QED BY <4>1, <4>2
    <3> QED BY <2>3, <3>1, <3>2 DEF InsertWallet
  <2>4. ASSUME LoadHit(r) PROVE ShapeOK'
    <3>1. PICK w \in RowsOf(req[r].account) :
            /\ Hit(w, req[r].chain)
            /\ req' = [req EXCEPT ![r].pc = "have", ![r].role = rows[w].role,
                                  ![r].version = rows[w].version]
      BY <2>4 DEF LoadHit
    <3>2. rows[w].role \in Role /\ rows[w].version \in Version
      BY <3>1 DEF RowsOf, Hit, RowState
    <3>3. req' \in [Request -> HandlerState]
      <4>1. [req[r] EXCEPT !.pc = "have", !.role = rows[w].role, !.version = rows[w].version]
              \in Handler({"read", "have"}, SignInKind, Account, ChainId, Role, Version, {{}})
        <5>1. req[r] \in Handler({"load", "ask"}, SignInKind, Account, ChainId, {None}, {0}, {{}})
          BY <2>4, HandlerCases DEF LoadHit
        <5> QED BY <3>2, <5>1 DEF Handler
      <4> QED BY <3>1, <4>1 DEF HandlerState
    <3> QED BY <2>4, <3>3 DEF LoadHit
  <2>5. ASSUME LoadMiss(r) PROVE ShapeOK'
    <3>1. [req[r] EXCEPT !.pc = "ask"]
            \in Handler({"load", "ask"}, SignInKind, Account, ChainId, {None}, {0}, {{}})
      BY <2>5, HandlerCases DEF LoadMiss, Handler
    <3>2. req' \in [Request -> HandlerState]
      BY <2>5, <3>1 DEF LoadMiss, HandlerState
    <3> QED BY <2>5, <3>2 DEF LoadMiss
  <2>6. ASSUME AskChain(r) PROVE ShapeOK'
    <3>1. req[r].account \in Account
      BY <2>6, HandlerFacts DEF AskChain
    <3>2. req' \in [Request -> HandlerState]
      <4>1. [req[r] EXCEPT !.pc = "read", !.account = req[r].account, !.chain = req[r].chain,
                           !.role = RoleNow(req[r].account),
                           !.version = Len(roles[req[r].account])]
              \in Handler({"read", "have"}, SignInKind, Account, ChainId, Role, Version, {{}})
        BY <2>6, <3>1, HandlerCases, ReceiveFacts DEF AskChain, Handler
      <4> QED BY ZenonT(60), <2>6, <4>1 DEF AskChain, Receive, HandlerState
    <3> QED BY <2>6, <3>2 DEF AskChain
  <2>7. ASSUME StoreRead(r) PROVE ShapeOK'
    <3>1. rows' \in [Wallets -> RowState]
      BY <2>7, HandlerFacts, StoreShapeOK DEF StoreRead
    <3>2. req' \in [Request -> HandlerState]
      <4>1. [req[r] EXCEPT !.pc = "have"]
              \in Handler({"read", "have"}, SignInKind, Account, ChainId, Role, Version, {{}})
        BY <2>7, HandlerCases DEF StoreRead, Handler
      <4> QED BY <2>7, <4>1 DEF StoreRead, HandlerState
    <3> QED BY <2>7, <3>1, <3>2 DEF StoreRead
  <2>8. ASSUME FindWallet(r) PROVE ShapeOK'
    <3>1. ASSUME NEW pc \in {"insert", "bound"}
          PROVE  [req[r] EXCEPT !.pc = pc]
                   \in Handler({"insert", "bound"}, {"login"}, Account, ChainId, Role, Version, {{}})
      BY <2>8, HandlerCases DEF FindWallet, Handler
    <3>2. req' \in [Request -> HandlerState]
      BY <2>8, <3>1 DEF FindWallet, HandlerState
    <3> QED BY <2>8, <3>2 DEF FindWallet
  <2>9. ASSUME StoreAgain(r) PROVE ShapeOK'
    <3>1. rows' \in [Wallets -> RowState]
      BY <2>9, HandlerFacts, StoreShapeOK DEF StoreAgain
    <3> QED BY <2>9, <3>1 DEF StoreAgain, Idle, HandlerState, Handler
  <2> QED BY <1>2, <2>2, <2>3, <2>4, <2>5, <2>6, <2>7, <2>8, <2>9 DEF SignIn
<1>3. ASSUME NEW r \in Request, AdminRefresh(r) PROVE ShapeOK'
  <2>1. ASSUME AdminList(r) PROVE ShapeOK'
    <3> DEFINE all == UNION {RowsOf(a) : a \in Account}
    <3>1. all \in SUBSET Wallets
      BY DEF RowsOf
    <3> HIDE DEF all
    <3>2. [req[r] EXCEPT !.pc = "walk", !.kind = "admin", !.todo = all]
            \in Handler({"walk"}, {"admin"}, {None}, {None}, {None}, {0}, SUBSET Wallets)
      BY <2>1, <3>1 DEF AdminList, Idle, Handler
    <3>3. req' \in [Request -> HandlerState]
      BY <2>1, <3>2 DEF AdminList, HandlerState, all
    <3> QED BY <2>1, <3>3 DEF AdminList
  <2>2. ASSUME NEW w \in Wallets, AdminAsk(r, w) PROVE ShapeOK'
    <3>1. w[1] \in Account /\ w[2] \in ChainId
      BY DEF Wallets
    <3>2. req' \in [Request -> HandlerState]
      <4>1. [req[r] EXCEPT !.pc = "fetched", !.account = w[1], !.chain = w[2],
                           !.role = RoleNow(w[1]), !.version = Len(roles[w[1]])]
              \in Handler({"fetched"}, {"admin"}, Account, ChainId, Role, Version, SUBSET Wallets)
        BY <2>2, <3>1, HandlerCases, ReceiveFacts DEF AdminAsk, Handler
      <4> QED BY ZenonT(60), <2>2, <4>1 DEF AdminAsk, Receive, HandlerState
    <3> QED BY <2>2, <3>2 DEF AdminAsk
  <2>3. ASSUME NEW w \in Wallets, AdminSkip(r, w) PROVE ShapeOK'
    <3>1. [req[r] EXCEPT !.todo = @ \ {w}]
            \in Handler({"walk"}, {"admin"}, {None}, {None}, {None}, {0}, SUBSET Wallets)
      BY <2>3, HandlerCases DEF AdminSkip, Handler
    <3>2. req' \in [Request -> HandlerState]
      BY <2>3, <3>1 DEF AdminSkip, HandlerState
    <3> QED BY <2>3, <3>2 DEF AdminSkip
  <2>4. ASSUME AdminStore(r) PROVE ShapeOK'
    <3>1. Holding(r)
      BY <2>4, HandlerFacts DEF AdminStore
    <3>2. rows' \in [Wallets -> RowState]
      BY <2>4, <3>1, StoreShapeOK DEF AdminStore
    <3>3. req[r].todo \ {<<req[r].account, req[r].chain>>} \in SUBSET Wallets
      BY <2>4 DEF AdminStore, HandlerState, Handler
    <3>4. req' \in [Request -> HandlerState]
      BY <2>4, <3>3 DEF AdminStore, Idle, HandlerState, Handler
    <3>5. floor' \in [Account -> {0} \cup Version]
      BY <2>4, <3>1 DEF AdminStore, Holding
    <3> QED BY <2>4, <3>2, <3>4, <3>5 DEF AdminStore
  <2>5. ASSUME AdminAnswer(r) PROVE ShapeOK'
    BY <2>5 DEF AdminAnswer, Idle, HandlerState, Handler
  <2> QED BY <1>3, <2>1, <2>2, <2>3, <2>4, <2>5 DEF AdminRefresh
<1>4. ASSUME NEW r \in Request, Abort(r) PROVE ShapeOK'
  BY <1>4 DEF Abort, Idle, HandlerState, Handler
<1>5. ASSUME NEW a \in Account, NEW c \in ChainId,
             CreateWallet(a, c) \/ DeleteWallet(a, c)
      PROVE  ShapeOK'
  <2>1. rows' \in [Wallets -> RowState]
    <3>1. Row("null") \in RowState /\ Row("absent") \in RowState
      BY DEF Row, RowState
    <3> QED BY <1>5, <3>1 DEF CreateWallet, DeleteWallet
  <2> QED BY <1>5, <2>1 DEF CreateWallet, DeleteWallet
<1>6. ASSUME Tick PROVE ShapeOK'
  BY <1>6, Bounds DEF Tick
<1>7. ASSUME UNCHANGED vars PROVE ShapeOK'
  BY <1>7 DEF vars
<1> QED BY <1>1, <1>2, <1>3, <1>4, <1>5, <1>6, <1>7 DEF Next

LEMMA ShapeCorrect == Spec => []ShapeOK
BY InitShapeOK, NextShapeOK, PTL DEF Spec

-----------------------------------------------------------------------------
(* What a step may do to the cache, to a handler's role and to the         *)
(* contract.                                                               *)

(* It leaves the rows alone, empties one, or stores the role of a handler. *)
RowsStep ==
  \/ UNCHANGED rows
  \/ \E w \in Wallets, state \in {"absent", "null"} :
       rows' = [rows EXCEPT ![w] = Row(state)]
  \/ \E r \in Request : Holding(r) /\ StoreRole(r)

(* The role in a handler's hands comes from the handler itself, from a row *)
(* of its account, or from the contract.                                   *)
Kept(r) ==
  /\ Holding(r)
  /\ req'[r].account = req[r].account
  /\ req'[r].role = req[r].role
  /\ req'[r].version = req[r].version
Cached(r) ==
  \E w \in Wallets :
    /\ rows[w].state = "cached"
    /\ req'[r].account = w[1]
    /\ req'[r].role = rows[w].role
    /\ req'[r].version = rows[w].version
Asked(r) ==
  /\ req'[r].account \in Account
  /\ req'[r].role = RoleNow(req'[r].account)
  /\ req'[r].version = Len(roles[req'[r].account])
HandsStep ==
  \A r \in Request : req'[r].role = None \/ Kept(r) \/ Cached(r) \/ Asked(r)

RolesGrow ==
  \A a \in Account :
    /\ DOMAIN roles[a] \subseteq DOMAIN roles'[a]
    /\ \A v \in DOMAIN roles[a] : roles'[a][v] = roles[a][v]

LEMMA RowsSteps == ShapeOK /\ [Next]_vars => RowsStep
<1> SUFFICES ASSUME ShapeOK, [Next]_vars PROVE RowsStep
  OBVIOUS
<1>1. ASSUME NEW a \in Account, NEW role \in Role, SetRole(a, role) PROVE RowsStep
  BY <1>1 DEF SetRole, RowsStep
<1>2. ASSUME NEW r \in Request, SignIn(r) PROVE RowsStep
  <2>1. ASSUME NEW a \in Account, NEW c \in ChainId,
               StartLogin(r, a, c) \/ StartRefresh(r, a, c) \/ StartLink(r, a, c)
        PROVE  RowsStep
    BY <2>1 DEF StartLogin, StartRefresh, StartLink, StartSignIn, RowsStep
  <2>2. ASSUME InsertWallet(r) PROVE RowsStep
    <3>1. <<req[r].account, req[r].chain>> \in Wallets
      BY <2>2, HandlerFacts DEF InsertWallet, Wallets
    <3> QED BY <2>2, <3>1 DEF InsertWallet, RowsStep
  <2>3. ASSUME StoreRead(r) \/ StoreAgain(r) PROVE RowsStep
    <3>1. Holding(r)
      BY <2>3, HandlerFacts DEF StoreRead, StoreAgain
    <3> QED BY <2>3, <3>1 DEF StoreRead, StoreAgain, RowsStep
  <2>4. ASSUME LoadHit(r) \/ LoadMiss(r) \/ AskChain(r) \/ FindWallet(r) PROVE RowsStep
    BY <2>4 DEF LoadHit, LoadMiss, AskChain, FindWallet, RowsStep
  <2> QED BY <1>2, <2>1, <2>2, <2>3, <2>4 DEF SignIn
<1>3. ASSUME NEW r \in Request, AdminRefresh(r) PROVE RowsStep
  <2>1. ASSUME AdminStore(r) PROVE RowsStep
    <3>1. Holding(r)
      BY <2>1, HandlerFacts DEF AdminStore
    <3> QED BY <2>1, <3>1 DEF AdminStore, RowsStep
  <2> QED BY <1>3, <2>1
           DEF AdminRefresh, AdminList, AdminAsk, AdminSkip, AdminAnswer, RowsStep
<1>4. ASSUME NEW r \in Request, Abort(r) PROVE RowsStep
  BY <1>4 DEF Abort, RowsStep
<1>5. ASSUME NEW a \in Account, NEW c \in ChainId,
             CreateWallet(a, c) \/ DeleteWallet(a, c)
      PROVE  RowsStep
  <2>1. <<a, c>> \in Wallets
    BY DEF Wallets
  <2> QED BY <1>5, <2>1 DEF CreateWallet, DeleteWallet, RowsStep
<1>6. ASSUME Tick \/ UNCHANGED vars PROVE RowsStep
  BY <1>6 DEF Tick, vars, RowsStep
<1> QED BY <1>1, <1>2, <1>3, <1>4, <1>5, <1>6 DEF Next

(* No row is stamped ahead of the clock.                                   *)
NotAhead == \A w \in Wallets : rows[w].updated_at <= now

LEMMA NotAheadStep ==
  ASSUME ShapeOK, NotAhead, RowsStep, now' \in 0..MaxTime, now' >= now
  PROVE  NotAhead'
<1>n. now \in Nat /\ now' \in Nat
  BY Bounds DEF ShapeOK
<1>0. ASSUME NEW w \in Wallets
      PROVE  rows[w].updated_at \in Int /\ rows[w].updated_at <= now
  BY Bounds DEF ShapeOK, RowState, NotAhead
<1>1. CASE UNCHANGED rows
  BY <1>n, <1>0, <1>1 DEF NotAhead
<1>2. ASSUME NEW w \in Wallets, NEW state, rows' = [rows EXCEPT ![w] = Row(state)]
      PROVE  NotAhead'
  <2>1. rows'[w].updated_at = 0 /\ \A x \in Wallets : x # w => rows'[x] = rows[x]
    BY <1>2 DEF ShapeOK, Row
  <2> QED BY <1>n, <1>0, <2>1 DEF NotAhead
<1>3. ASSUME NEW r \in Request, StoreRole(r) PROVE NotAhead'
  <2>1. \A w \in Wallets : rows'[w].updated_at = now \/ rows'[w] = rows[w]
    BY <1>3 DEF StoreRole
  <2> QED BY <1>n, <1>0, <2>1 DEF NotAhead
<1> QED BY <1>1, <1>2, <1>3 DEF RowsStep

LEMMA ClockStep == ShapeOK /\ [Next]_vars => now' \in 0..MaxTime /\ now' >= now
<1> SUFFICES ASSUME ShapeOK, [Next]_vars PROVE now' \in 0..MaxTime /\ now' >= now
  OBVIOUS
<1>1. now \in Nat /\ now \in 0..MaxTime
  BY Bounds DEF ShapeOK
<1>2. CASE Tick
  BY <1>1, <1>2, Bounds DEF Tick
<1>3. CASE UNCHANGED now
  BY <1>1, <1>3
<1>4. ASSUME NEW r \in Request, SignIn(r) PROVE UNCHANGED now
  BY <1>4 DEF SignIn, StartLogin, StartRefresh, StartLink, StartSignIn, InsertWallet, LoadHit,
              LoadMiss, AskChain, StoreRead, FindWallet, StoreAgain
<1>5. ASSUME NEW r \in Request, AdminRefresh(r) PROVE UNCHANGED now
  BY <1>5 DEF AdminRefresh, AdminList, AdminAsk, AdminSkip, AdminStore, AdminAnswer
<1> QED BY <1>2, <1>3, <1>4, <1>5 DEF Next, vars, SetRole, Abort, CreateWallet, DeleteWallet

(* Rows, handlers and history always have their shape, and no row outlives *)
(* its TTL by a stamp from the future.                                     *)
THEOREM TypeCorrect == Spec => []TypeOK
<1>1. Init => NotAhead
  BY Bounds DEF Init, Row, NotAhead
<1>2. ShapeOK /\ NotAhead /\ [Next]_vars => NotAhead'
  BY RowsSteps, ClockStep, NotAheadStep
<1>3. ShapeOK /\ NotAhead => TypeOK
  BY DEF TypeOK, NotAhead
<1> QED BY <1>1, <1>2, <1>3, ShapeCorrect, PTL DEF Spec

(* The other handlers keep what they have.                                 *)
LEMMA Bystanders ==
  ASSUME ShapeOK, NEW r \in Request, NEW h, req' = [req EXCEPT ![r] = h],
         req'[r].role = None \/ Kept(r) \/ Cached(r) \/ Asked(r)
  PROVE  HandsStep
<1> SUFFICES ASSUME NEW q \in Request, q # r, req'[q].role # None
             PROVE  Kept(q)
  BY DEF HandsStep
<1>1. req'[q] = req[q]
  BY DEF ShapeOK
<1> QED BY <1>1, HandlerFacts DEF Kept

LEMMA HandsSteps == ShapeOK /\ [Next]_vars => HandsStep
<1> SUFFICES ASSUME ShapeOK, [Next]_vars PROVE HandsStep
  OBVIOUS
<1>0. ASSUME UNCHANGED req PROVE HandsStep
  BY <1>0, HandlerFacts DEF HandsStep, Kept
<1>r. req \in [Request -> HandlerState]
  BY DEF ShapeOK
<1>1. ASSUME NEW r \in Request, SignIn(r) PROVE HandsStep
  <2>1. ASSUME NEW a \in Account, NEW c \in ChainId,
               StartLogin(r, a, c) \/ StartRefresh(r, a, c) \/ StartLink(r, a, c)
        PROVE  HandsStep
    <3>1. PICK kind : StartSignIn(r, kind, a, c)
      BY <2>1 DEF StartLogin, StartRefresh, StartLink
    <3>2. req'[r].role = None
      BY <3>1, <1>r DEF StartSignIn, Idle
    <3> QED BY <3>1, <3>2, Bystanders DEF StartSignIn
  <2>2. ASSUME InsertWallet(r) \/ FindWallet(r) \/ StoreRead(r) PROVE HandsStep
    <3>1. req'[r].role = None \/ Kept(r)
      <4>1. PICK pc : req' = [req EXCEPT ![r].pc = pc]
        BY <2>2 DEF InsertWallet, FindWallet, StoreRead
      <4> QED BY <1>r, <4>1, HandlerFacts DEF Kept
    <3> QED BY <2>2, <3>1, Bystanders DEF InsertWallet, FindWallet, StoreRead
  <2>3. ASSUME LoadHit(r) PROVE HandsStep
    <3>1. PICK w \in RowsOf(req[r].account) :
            /\ Hit(w, req[r].chain)
            /\ req' = [req EXCEPT ![r].pc = "have", ![r].role = rows[w].role,
                                  ![r].version = rows[w].version]
      BY <2>3 DEF LoadHit
    <3>2. Cached(r)
      BY <3>1, <1>r DEF RowsOf, Hit, Cached
    <3> QED BY <3>1, <3>2, Bystanders
  <2>4. ASSUME LoadMiss(r) PROVE HandsStep
    <3>1. req'[r].role = None
      BY <2>4, <1>r, HandlerFacts DEF LoadMiss
    <3> QED BY <2>4, <3>1, Bystanders DEF LoadMiss
  <2>5. ASSUME AskChain(r) PROVE HandsStep
    <3>1. Asked(r)
      BY <2>5, <1>r, HandlerFacts DEF AskChain, Receive, Asked
    <3> QED BY <2>5, <3>1, Bystanders DEF AskChain, Receive
  <2>6. ASSUME StoreAgain(r) PROVE HandsStep
    <3>1. req'[r].role = None
      BY <2>6, <1>r DEF StoreAgain, Idle
    <3> QED BY <2>6, <3>1, Bystanders DEF StoreAgain
  <2> QED BY <1>1, <2>1, <2>2, <2>3, <2>4, <2>5, <2>6 DEF SignIn
<1>2. ASSUME NEW r \in Request, AdminRefresh(r) PROVE HandsStep
  <2>1. ASSUME AdminList(r) \/ AdminAnswer(r) \/ AdminStore(r) PROVE HandsStep
    <3>1. req'[r].role = None
      <4>1. ASSUME AdminList(r) PROVE req'[r].role = None
        BY <1>r, <4>1 DEF AdminList, Idle
      <4>2. ASSUME AdminAnswer(r) PROVE req'[r].role = None
        BY <1>r, <4>2 DEF AdminAnswer, Idle
      <4>3. ASSUME AdminStore(r) PROVE req'[r].role = None
        BY <1>r, <4>3 DEF AdminStore, Idle
      <4> QED BY <2>1, <4>1, <4>2, <4>3
    <3> QED BY <2>1, <3>1, Bystanders DEF AdminList, AdminAnswer, AdminStore
  <2>2. ASSUME NEW w \in Wallets, AdminAsk(r, w) PROVE HandsStep
    <3>1. w[1] \in Account
      BY DEF Wallets
    <3>2. Asked(r)
      BY <2>2, <3>1, <1>r DEF AdminAsk, Receive, Asked
    <3> QED BY <2>2, <3>2, Bystanders DEF AdminAsk, Receive
  <2>3. ASSUME NEW w \in Wallets, AdminSkip(r, w) PROVE HandsStep
    <3>1. req'[r].role = None \/ Kept(r)
      BY <2>3, <1>r, HandlerFacts DEF AdminSkip, Kept
    <3> QED BY <2>3, <3>1, Bystanders DEF AdminSkip
  <2> QED BY <1>2, <2>1, <2>2, <2>3 DEF AdminRefresh
<1>3. ASSUME NEW r \in Request, Abort(r) PROVE HandsStep
  <2>1. req'[r].role = None
    BY <1>3, <1>r DEF Abort, Idle
  <2> QED BY <1>3, <2>1, Bystanders DEF Abort
<1>4. ASSUME \/ \E a \in Account, role \in Role : SetRole(a, role)
             \/ \E a \in Account, c \in ChainId : CreateWallet(a, c) \/ DeleteWallet(a, c)
             \/ Tick
             \/ UNCHANGED vars
      PROVE  HandsStep
  BY <1>4, <1>0 DEF SetRole, CreateWallet, DeleteWallet, Tick, vars
<1> QED BY <1>1, <1>2, <1>3, <1>4 DEF Next

LEMMA RolesGrowing == ShapeOK /\ [Next]_vars => RolesGrow
<1> SUFFICES ASSUME ShapeOK, [Next]_vars PROVE RolesGrow
  OBVIOUS
<1>1. ASSUME NEW b \in Account, NEW role \in Role, SetRole(b, role) PROVE RolesGrow
  <2>1. ASSUME NEW a \in Account
        PROVE  /\ DOMAIN roles[a] \subseteq DOMAIN roles'[a]
               /\ \A v \in DOMAIN roles[a] : roles'[a][v] = roles[a][v]
    <3>1. roles[a] \in Seq(RoleEntry) /\ [role |-> role, since |-> now] \in RoleEntry
      BY DEF ShapeOK, RoleEntry
    <3>2. roles'[a] = roles[a] \/ roles'[a] = Append(roles[a], [role |-> role, since |-> now])
      BY <1>1 DEF SetRole, ShapeOK
    <3>3. CASE roles'[a] = roles[a]
      BY <3>3
    <3>4. CASE roles'[a] = Append(roles[a], [role |-> role, since |-> now])
      BY <3>1, <3>4
    <3> QED BY <3>2, <3>3, <3>4
  <2> QED BY <2>1 DEF RolesGrow
<1>2. ASSUME UNCHANGED roles PROVE RolesGrow
  BY <1>2 DEF RolesGrow
<1>3. ASSUME NEW r \in Request, SignIn(r) PROVE UNCHANGED roles
  BY <1>3 DEF SignIn, StartLogin, StartRefresh, StartLink, StartSignIn, InsertWallet,
              LoadHit, LoadMiss, AskChain, StoreRead, FindWallet, StoreAgain
<1>4. ASSUME NEW r \in Request, AdminRefresh(r) PROVE UNCHANGED roles
  BY <1>4 DEF AdminRefresh, AdminList, AdminAsk, AdminSkip, AdminStore, AdminAnswer
<1>5. ASSUME NEW r \in Request, Abort(r) PROVE UNCHANGED roles
  BY <1>5 DEF Abort
<1>6. ASSUME NEW a \in Account, NEW c \in ChainId,
             CreateWallet(a, c) \/ DeleteWallet(a, c)
      PROVE  UNCHANGED roles
  BY <1>6 DEF CreateWallet, DeleteWallet
<1>7. ASSUME Tick \/ UNCHANGED vars PROVE UNCHANGED roles
  BY <1>7 DEF Tick, vars
<1> QED BY <1>1, <1>2, <1>3, <1>4, <1>5, <1>6, <1>7 DEF Next

-----------------------------------------------------------------------------
(* The rows of an account agree.                                           *)

LEMMA AgreeStep == ShapeOK /\ RowsAgree /\ RowsStep => RowsAgree'
<1> SUFFICES ASSUME ShapeOK, RowsAgree, RowsStep,
                    NEW v \in Wallets, NEW w \in Wallets, v[1] = w[1],
                    rows'[v].state = "cached", rows'[w].state = "cached"
             PROVE  rows'[v] = rows'[w]
  BY DEF RowsAgree
<1>1. CASE UNCHANGED rows
  BY <1>1 DEF RowsAgree
<1>2. ASSUME NEW x \in Wallets, NEW state \in {"absent", "null"},
             rows' = [rows EXCEPT ![x] = Row(state)]
      PROVE  rows'[v] = rows'[w]
  <2>1. rows'[v] = rows[v] /\ rows'[w] = rows[w]
    BY <1>2 DEF ShapeOK, Row
  <2> QED BY <2>1 DEF RowsAgree
<1>3. ASSUME NEW r \in Request, Holding(r), StoreRole(r) PROVE rows'[v] = rows'[w]
  BY <1>3 DEF StoreRole, RowsOf, RowsAgree
<1> QED BY <1>1, <1>2, <1>3 DEF RowsStep

(* Whichever row of an account the cache is read from, it is the same.     *)
THEOREM OneRolePerAccount == Spec => []RowsAgree
<1>1. Init => RowsAgree
  BY DEF Init, Row, RowsAgree
<1>2. ShapeOK /\ RowsAgree /\ [Next]_vars => RowsAgree'
  <2>1. RowsAgree /\ UNCHANGED vars => RowsAgree'
    BY DEF vars, RowsAgree
  <2> QED BY <2>1, RowsSteps, AgreeStep
<1> QED BY <1>1, <1>2, ShapeCorrect, PTL DEF Spec

-----------------------------------------------------------------------------
(* Roles come from the contract.                                           *)

LEMMA FromChainStep ==
  ShapeOK /\ RolesFromChain /\ RowsStep /\ HandsStep /\ RolesGrow => RolesFromChain'
<1> SUFFICES ASSUME ShapeOK, RolesFromChain, RowsStep, HandsStep, RolesGrow
             PROVE  RolesFromChain'
  OBVIOUS
<1>0. ASSUME NEW a \in Account, NEW v, NEW role, WasRole(a, v, role)
      PROVE  WasRole(a, v, role)'
  BY <1>0 DEF WasRole, RolesGrow
<1>h. ASSUME NEW r \in Request, Holding(r)
      PROVE  WasRole(req[r].account, req[r].version, req[r].role)
  <2>1. req[r].role # None
    BY <1>h, RoleAssumption DEF Holding
  <2> QED BY <2>1 DEF RolesFromChain
<1>1. ASSUME NEW w \in Wallets, rows'[w].state = "cached"
      PROVE  WasRole(w[1], rows[w].version, rows[w].role)'
  <2>0. w[1] \in Account
    BY DEF Wallets
  <2>1. CASE rows'[w] = rows[w]
    BY <1>0, <1>1, <2>0, <2>1 DEF RolesFromChain
  <2>2. ASSUME NEW x \in Wallets, NEW state \in {"absent", "null"},
               rows' = [rows EXCEPT ![x] = Row(state)]
        PROVE  rows'[w] = rows[w]
    BY <1>1, <2>2 DEF ShapeOK, Row
  <2>3. ASSUME NEW r \in Request, Holding(r), StoreRole(r)
        PROVE  WasRole(w[1], rows[w].version, rows[w].role)'
    <3>1. CASE w \in RowsOf(req[r].account)
      <4>1. /\ w[1] = req[r].account
            /\ rows'[w].role = req[r].role
            /\ rows'[w].version = req[r].version
        BY <2>3, <3>1 DEF StoreRole, RowsOf
      <4>2. WasRole(w[1], req[r].version, req[r].role)
        BY <1>h, <2>3, <4>1
      <4> QED BY <1>0, <2>0, <4>1, <4>2 DEF WasRole
    <3>2. CASE w \notin RowsOf(req[r].account)
      BY <2>1, <2>3, <3>2 DEF StoreRole
    <3> QED BY <3>1, <3>2
  <2> QED BY <2>1, <2>2, <2>3 DEF RowsStep
<1>2. ASSUME NEW r \in Request, req'[r].role # None
      PROVE  WasRole(req[r].account, req[r].version, req[r].role)'
  <2>1. CASE Kept(r)
    <3>1. req[r].account \in Account /\ WasRole(req[r].account, req[r].version, req[r].role)
      BY <1>h, <2>1 DEF Kept, Holding
    <3> QED BY <1>0, <2>1, <3>1 DEF Kept, WasRole
  <2>2. CASE Cached(r)
    <3>1. PICK w \in Wallets :
            /\ rows[w].state = "cached"
            /\ req'[r].account = w[1]
            /\ req'[r].role = rows[w].role
            /\ req'[r].version = rows[w].version
      BY <2>2 DEF Cached
    <3>2. w[1] \in Account /\ WasRole(w[1], rows[w].version, rows[w].role)
      BY <3>1 DEF RolesFromChain, Wallets
    <3> QED BY <1>0, <3>1, <3>2 DEF WasRole
  <2>3. CASE Asked(r)
    <3>1. WasRole(req'[r].account, Len(roles[req'[r].account]), RoleNow(req'[r].account))
      BY <2>3, ReceiveFacts DEF Asked, WasRole, RoleNow
    <3> QED BY <1>0, <2>3, <3>1 DEF Asked, WasRole
  <2> QED BY <1>2, <2>1, <2>2, <2>3 DEF HandsStep
<1> QED BY <1>1, <1>2 DEF RolesFromChain

(* No role in the cache or in an answer is made up.                        *)
THEOREM NoMadeUpRole == Spec => []RolesFromChain
<1>1. Init => RolesFromChain
  BY DEF Init, Row, Idle, RolesFromChain
<1>2. ShapeOK /\ RolesFromChain /\ [Next]_vars => RolesFromChain'
  BY RowsSteps, HandsSteps, RolesGrowing, FromChainStep
<1> QED BY <1>1, <1>2, ShapeCorrect, PTL DEF Spec

-----------------------------------------------------------------------------
(* What roles/refresh stored undisturbed stays.  The invariant needs that  *)
(* the version it stored exists: then a role asked for later is no older.  *)

FloorExists == \A a \in Account : floor[a] <= Len(roles[a])

StickInv == FloorExists /\ QuietRefreshSticks

(* floor changes in AdminStore only.                                       *)
QuietStore(r) ==
  /\ Holding(r)
  /\ StoreRole(r)
  /\ req'[r].role = None
  /\ \A q \in Request \ {r} : req'[q] = req[q] /\ ~Holds(q, req[r].account)
  /\ floor' = [floor EXCEPT ![req[r].account] = req[r].version]

LEMMA FloorSteps ==
  ShapeOK /\ [Next]_vars => UNCHANGED floor \/ \E r \in Request : QuietStore(r)
<1> SUFFICES ASSUME ShapeOK, [Next]_vars
             PROVE  UNCHANGED floor \/ \E r \in Request : QuietStore(r)
  OBVIOUS
<1>1. ASSUME NEW r \in Request, SignIn(r) PROVE UNCHANGED floor
  BY <1>1 DEF SignIn, StartLogin, StartRefresh, StartLink, StartSignIn, InsertWallet,
              LoadHit, LoadMiss, AskChain, StoreRead, FindWallet, StoreAgain
<1>2. ASSUME NEW r \in Request, AdminStore(r), floor' # floor PROVE QuietStore(r)
  <2>1. Holding(r)
    BY <1>2, HandlerFacts DEF AdminStore
  <2>2. req'[r].role = None /\ \A q \in Request \ {r} : req'[q] = req[q]
    BY <1>2 DEF AdminStore, ShapeOK, Idle
  <2> QED BY <1>2, <2>1, <2>2 DEF AdminStore, QuietStore
<1>3. ASSUME NEW r \in Request, AdminRefresh(r), ~AdminStore(r) PROVE UNCHANGED floor
  BY <1>3 DEF AdminRefresh, AdminList, AdminAsk, AdminSkip, AdminAnswer
<1>4. ASSUME NEW r \in Request, Abort(r) PROVE UNCHANGED floor
  BY <1>4 DEF Abort
<1>5. ASSUME NEW a \in Account, NEW c \in ChainId,
             CreateWallet(a, c) \/ DeleteWallet(a, c)
      PROVE  UNCHANGED floor
  BY <1>5 DEF CreateWallet, DeleteWallet
<1>6. ASSUME NEW a \in Account, NEW role \in Role, SetRole(a, role) PROVE UNCHANGED floor
  BY <1>6 DEF SetRole
<1>7. ASSUME Tick \/ UNCHANGED vars PROVE UNCHANGED floor
  BY <1>7 DEF Tick, vars
<1> QED BY <1>1, <1>2, <1>3, <1>4, <1>5, <1>6, <1>7 DEF Next

LEMMA HoldersHold ==
  ASSUME ShapeOK, NEW r \in Request, Holding(r)
  PROVE  Holds(r, req[r].account)
  BY RoleAssumption DEF Holding, Holds

(* The versions stay below the number of roles, which only grows.          *)
LEMMA FloorExistsStep ==
  ASSUME ShapeOK, ShapeOK', RolesFromChain, FloorExists, RolesGrow,
         UNCHANGED floor \/ \E r \in Request : QuietStore(r)
  PROVE  FloorExists'
<1> SUFFICES ASSUME NEW a \in Account PROVE floor'[a] <= Len(roles'[a])
  BY DEF FloorExists
<1>1. /\ Len(roles[a]) \in Nat /\ DOMAIN roles[a] = 1..Len(roles[a])
      /\ Len(roles'[a]) \in Nat /\ DOMAIN roles'[a] = 1..Len(roles'[a])
  BY DEF ShapeOK
<1>2. Len(roles[a]) <= Len(roles'[a])
  <2>1. 1..Len(roles[a]) \subseteq 1..Len(roles'[a])
    BY <1>1 DEF RolesGrow
  <2> QED BY <1>1, <2>1
<1>3. CASE UNCHANGED floor
  <2>1. floor[a] \in Int /\ floor[a] <= Len(roles[a])
    BY Bounds DEF ShapeOK, Version, FloorExists
  <2> QED BY <1>1, <1>2, <1>3, <2>1
<1>4. ASSUME NEW r \in Request, QuietStore(r), a = req[r].account
      PROVE  floor'[a] <= Len(roles'[a])
  <2>1. req[r].version \in 1..Len(roles[a])
    BY <1>1, <1>4, RoleAssumption DEF QuietStore, Holding, RolesFromChain, WasRole
  <2>2. floor'[a] = req[r].version
    BY <1>4 DEF QuietStore, ShapeOK
  <2> QED BY <1>1, <1>2, <2>1, <2>2
<1>5. ASSUME NEW r \in Request, QuietStore(r), a # req[r].account
      PROVE  floor'[a] <= Len(roles'[a])
  <2>1. floor'[a] = floor[a]
    BY <1>5 DEF QuietStore, ShapeOK
  <2>2. floor[a] \in Int /\ floor[a] <= Len(roles[a])
    BY Bounds DEF ShapeOK, Version, FloorExists
  <2> QED BY <1>1, <1>2, <2>1, <2>2
<1> QED BY <1>3, <1>4, <1>5

(* Versions are numbers.                                                   *)
LEMMA Numbers ==
  ASSUME ShapeOK
  PROVE  /\ \A a \in Account : floor[a] \in Int /\ Len(roles[a]) \in Int
         /\ \A w \in Wallets : rows[w].state = "cached" => rows[w].version \in Int
         /\ \A r \in Request : Holding(r) => req[r].version \in Int
  BY Bounds DEF ShapeOK, Version, RowState, Holding

(* While floor stays, no step makes a row or a handler older than it.      *)
LEMMA StickStep ==
  ASSUME ShapeOK, FloorExists, QuietRefreshSticks, RowsStep, HandsStep, UNCHANGED floor
  PROVE  QuietRefreshSticks'
<1>1. ASSUME NEW w \in Wallets, rows'[w].state = "cached"
      PROVE  rows'[w].version >= floor'[w[1]]
  <2>1. CASE rows'[w] = rows[w]
    BY <1>1, <2>1 DEF QuietRefreshSticks
  <2>2. ASSUME NEW x \in Wallets, NEW state \in {"absent", "null"},
               rows' = [rows EXCEPT ![x] = Row(state)]
        PROVE  rows'[w] = rows[w]
    BY <1>1, <2>2 DEF ShapeOK, Row
  <2>3. ASSUME NEW r \in Request, Holding(r), StoreRole(r), w \in RowsOf(req[r].account)
        PROVE  rows'[w].version >= floor'[w[1]]
    <3>1. rows'[w].version = req[r].version /\ w[1] = req[r].account
      BY <2>3 DEF StoreRole, RowsOf
    <3>2. req[r].version >= floor[req[r].account]
      BY <2>3, HoldersHold DEF QuietRefreshSticks, Holding
    <3> QED BY <3>1, <3>2
  <2>4. ASSUME NEW r \in Request, StoreRole(r), w \notin RowsOf(req[r].account)
        PROVE  rows'[w] = rows[w]
    BY <2>4 DEF StoreRole
  <2> QED BY <2>1, <2>2, <2>3, <2>4 DEF RowsStep
<1>2. ASSUME NEW r \in Request, NEW a \in Account, Holds(r, a)'
      PROVE  req'[r].version >= floor'[a]
  <2>0. req'[r].account = a /\ req'[r].role # None
    BY <1>2 DEF Holds
  <2>1. CASE Kept(r)
    <3>1. Holds(r, a)
      BY <2>0, <2>1, HoldersHold DEF Kept
    <3> QED BY <2>1, <3>1 DEF Kept, QuietRefreshSticks
  <2>2. CASE Cached(r)
    BY <2>0, <2>2 DEF Cached, QuietRefreshSticks
  <2>3. CASE Asked(r)
    BY <2>0, <2>3, Numbers DEF Asked, FloorExists
  <2> QED BY <2>0, <2>1, <2>2, <2>3 DEF HandsStep
<1> QED BY <1>1, <1>2 DEF QuietRefreshSticks

(* An undisturbed store raises floor to what every row of the account then *)
(* holds; the others have no role of it.                                   *)
LEMMA QuietStoreSticks ==
  ASSUME ShapeOK, QuietRefreshSticks, NEW r \in Request, QuietStore(r)
  PROVE  QuietRefreshSticks'
<1> DEFINE a == req[r].account
<1>0. floor'[a] = req[r].version /\ \A b \in Account \ {a} : floor'[b] = floor[b]
  BY DEF QuietStore, Holding, ShapeOK
<1>1. ASSUME NEW w \in Wallets, rows'[w].state = "cached"
      PROVE  rows'[w].version >= floor'[w[1]]
  <2>0. w[1] \in Account
    BY DEF Wallets
  <2>1. CASE w[1] = a
    <3>1. w \in RowsOf(a)
      BY <1>1, <2>1 DEF QuietStore, StoreRole, RowsOf, ShapeOK, RowState
    <3>2. rows'[w].version = req[r].version
      BY <3>1 DEF QuietStore, StoreRole
    <3>3. req[r].version \in Int
      BY Numbers DEF QuietStore
    <3> QED BY <1>0, <2>1, <3>2, <3>3
  <2>2. CASE w[1] # a
    <3>1. rows'[w] = rows[w]
      BY <2>2 DEF QuietStore, StoreRole, RowsOf
    <3> QED BY <1>0, <1>1, <2>0, <2>2, <3>1 DEF QuietRefreshSticks
  <2> QED BY <2>1, <2>2
<1>2. ASSUME NEW q \in Request, NEW b \in Account, Holds(q, b)'
      PROVE  req'[q].version >= floor'[b]
  <2>1. q # r
    BY <1>2 DEF QuietStore, Holds
  <2>2. req'[q] = req[q] /\ ~Holds(q, a)
    BY <2>1 DEF QuietStore
  <2>3. Holds(q, b) /\ b # a
    BY <1>2, <2>2 DEF Holds
  <2> QED BY <1>0, <2>2, <2>3 DEF QuietRefreshSticks
<1> QED BY <1>1, <1>2 DEF QuietRefreshSticks

(* Once a roles/refresh stored a role undisturbed, no older one is served. *)
THEOREM RefreshSticks == Spec => []QuietRefreshSticks
<1>1. Init => StickInv
  <2> SUFFICES ASSUME Init PROVE StickInv
    OBVIOUS
  <2>1. ShapeOK
    BY InitShapeOK
  <2>2. FloorExists
    <3> SUFFICES ASSUME NEW a \in Account PROVE floor[a] <= Len(roles[a])
      BY DEF FloorExists
    <3>1. floor[a] = 0
      BY DEF Init
    <3>2. Len(roles[a]) \in Nat
      BY <2>1 DEF ShapeOK
    <3> QED BY <3>1, <3>2
  <2>3. QuietRefreshSticks
    BY DEF Init, Row, Idle, Holds, QuietRefreshSticks
  <2> QED BY <2>2, <2>3 DEF StickInv
<1>2. ShapeOK /\ ShapeOK' /\ RolesFromChain /\ StickInv /\ [Next]_vars => StickInv'
  <2> SUFFICES ASSUME ShapeOK, ShapeOK', RolesFromChain, StickInv, [Next]_vars
               PROVE  StickInv'
    OBVIOUS
  <2>1. UNCHANGED floor \/ \E r \in Request : QuietStore(r)
    BY FloorSteps
  <2>2. FloorExists'
    BY <2>1, RolesGrowing, FloorExistsStep DEF StickInv
  <2>3. QuietRefreshSticks'
    BY <2>1, RowsSteps, HandsSteps, StickStep, QuietStoreSticks DEF StickInv
  <2> QED BY <2>2, <2>3 DEF StickInv
<1>3. StickInv => QuietRefreshSticks
  BY DEF StickInv
<1> QED BY <1>1, <1>2, <1>3, ShapeCorrect, NoMadeUpRole, PTL DEF Spec
=============================================================================
