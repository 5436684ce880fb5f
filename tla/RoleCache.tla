------------------------------ MODULE RoleCache ------------------------------
(***************************************************************************)
(* The roles of wallets: the contract RoleManager says which role an       *)
(* account has, the table wallets caches it, and logins, refreshes, links  *)
(* and the admin's roles/refresh read and write that cache concurrently    *)
(* (resolve_role_cached and store_role_cache of backend/auth/src/lib.rs).  *)
(*                                                                         *)
(* A handler's actions are what it does between two awaits.  Only what a   *)
(* handler does about roles is here: its nonce and its session are in      *)
(* AuthSession.  The contract is configured; without it every role is      *)
(* Viewer.  Database and service read one clock.                           *)
(***************************************************************************)
EXTENDS Integers, Sequences

CONSTANTS
  Account,     \* wallet addresses
  ChainId,
  Role,        \* what getRole answers; the cache stores it as a number
  TTL,         \* TTL[c]: role_cache_ttl_for_chain
  Request,     \* slots for handlers in flight
  None,        \* no account, chain or role
  MaxTime,     \* bound: the clock stops here
  MaxSets      \* bound: roles an account has had

ASSUME RoleAssumption ==
  /\ TTL \in [ChainId -> Nat]
  /\ MaxTime \in Nat /\ MaxSets \in Nat \ {0}
  /\ None \notin Account \cup ChainId \cup Role

VARIABLES
  roles,       \* roles[a]: the roles a has had in the contract, the last is _roles[a]
  rows,        \* table wallets, UNIQUE (address, chain_id): the cached role
  req,         \* the handlers in flight
  now,         \* the clock
  floor        \* history: floor[a] is the last version of a's role that a
               \* roles/refresh stored while no other handler held a role of a

vars == <<roles, rows, req, now, floor>>

-----------------------------------------------------------------------------
(* A version counts the roles an account has had; the version kept beside  *)
(* a role is history and says where in roles[a] the role was read.         *)
Version == 1..MaxSets
RoleEntry == [role : Role, since : 0..MaxTime]

RowState ==
  [state : {"absent", "null"}, role : {None}, version : {0}, updated_at : {0}]
    \cup [state : {"cached"}, role : Role, version : Version, updated_at : 0..MaxTime]
Row(state) == [state |-> state, role |-> None, version |-> 0, updated_at |-> 0]

(* A handler at pc of the given kinds, on an account or on none, with a    *)
(* role in its hands or with none, and the rows roles/refresh has to do.   *)
Wallets == Account \X ChainId
SignInKind == {"login", "refresh", "link"}
Handler(pcs, kinds, accounts, chains, held, versions, todo) ==
  [pc : pcs, kind : kinds, account : accounts, chain : chains,
   role : held, version : versions, todo : todo]
HandlerState ==
  Handler({"idle"}, {"none"}, {None}, {None}, {None}, {0}, {{}})
    \cup Handler({"load", "ask"}, SignInKind, Account, ChainId, {None}, {0}, {{}})
    \cup Handler({"read", "have"}, SignInKind, Account, ChainId, Role, Version, {{}})
    \cup Handler({"insert", "bound"}, {"login"}, Account, ChainId, Role, Version, {{}})
    \cup Handler({"insert"}, {"link"}, Account, ChainId, {None}, {0}, {{}})
    \cup Handler({"walk"}, {"admin"}, {None}, {None}, {None}, {0}, SUBSET Wallets)
    \cup Handler({"fetched"}, {"admin"}, Account, ChainId, Role, Version, SUBSET Wallets)

Idle == [pc |-> "idle", kind |-> "none", account |-> None, chain |-> None,
         role |-> None, version |-> 0, todo |-> {}]

Init ==
  /\ roles \in [Account -> {<<[role |-> role, since |-> 0]>> : role \in Role}]
  /\ rows = [w \in Wallets |-> Row("absent")]
  /\ req = [r \in Request |-> Idle]
  /\ now = 0
  /\ floor = [a \in Account |-> 0]

RowsOf(a) == {w \in Wallets : w[1] = a /\ rows[w].state # "absent"}

(* getRole at this moment, into the handler's hands.                       *)
RoleNow(a) == roles[a][Len(roles[a])].role
Receive(r, pc, a, c) ==
  req' = [req EXCEPT ![r].pc = pc, ![r].account = a, ![r].chain = c,
                     ![r].role = RoleNow(a), ![r].version = Len(roles[a])]

(* A handler with a role of a that it may still store or answer.           *)
Holds(r, a) == req[r].account = a /\ req[r].role # None

-----------------------------------------------------------------------------
(* Plausible bugs of the actions below; no action uses them.               *)

(* A lookup that fails answers some role: RolesFromChain.                  *)
BugLookupFailureIsRole(r) ==
  /\ req[r].pc = "ask"
  /\ \E role \in Role :
       req' = [req EXCEPT ![r].pc = "read", ![r].role = role,
                          ![r].version = Len(roles[req[r].account])]
  /\ UNCHANGED <<roles, rows, now, floor>>

(* The UPDATE is of the wallet's own row only: RowsAgree.                  *)
BugStoreOneRow(r) ==
  rows' = [w \in Wallets |->
             IF w = <<req[r].account, req[r].chain>> /\ rows[w].state # "absent"
               THEN [state |-> "cached", role |-> req[r].role,
                     version |-> req[r].version, updated_at |-> now]
               ELSE rows[w]]

(* getRole is asked of an old block: QuietRefreshSticks.                   *)
BugAskOldBlock(r) ==
  LET log == roles[req[r].account]
  IN /\ req[r].pc = "ask"
     /\ \E v \in DOMAIN log :
          req' = [req EXCEPT ![r].pc = "read", ![r].role = log[v].role, ![r].version = v]
     /\ UNCHANGED <<roles, rows, now, floor>>

(* The end of the TTL is stored for the time of the role: TypeOK.          *)
BugStampExpiry(r) ==
  rows' = [w \in Wallets |->
             IF w[1] = req[r].account /\ rows[w].state # "absent"
               THEN [state |-> "cached", role |-> req[r].role, version |-> req[r].version,
                     updated_at |-> now + TTL[req[r].chain]]
               ELSE rows[w]]

-----------------------------------------------------------------------------
(* setRole by an admin of the contract.                                    *)
SetRole(a, role) ==
  /\ role # RoleNow(a)
  /\ Len(roles[a]) < MaxSets
  /\ roles' = [roles EXCEPT ![a] = Append(@, [role |-> role, since |-> now])]
  /\ UNCHANGED <<rows, req, now, floor>>

(* UPDATE wallets ... WHERE address = the handler's: every row it has.     *)
StoreRole(r) ==
  rows' = [w \in Wallets |->
             IF w \in RowsOf(req[r].account)
               THEN [state |-> "cached", role |-> req[r].role,
                     version |-> req[r].version, updated_at |-> now]
               ELSE rows[w]]

(* A login names the chain in its message; a refresh takes the chain of    *)
(* the session's wallet row; a link finds no row of the address.           *)
StartSignIn(r, kind, a, c) ==
  /\ req[r] = Idle
  /\ req' = [req EXCEPT ![r].pc = IF kind = "link" THEN "insert" ELSE "load",
                        ![r].kind = kind, ![r].account = a, ![r].chain = c]
  /\ UNCHANGED <<roles, rows, now, floor>>

StartLogin(r, a, c) == StartSignIn(r, "login", a, c)
StartRefresh(r, a, c) == <<a, c>> \in RowsOf(a) /\ StartSignIn(r, "refresh", a, c)
StartLink(r, a, c) == RowsOf(a) = {} /\ StartSignIn(r, "link", a, c)

(* The wallet's row comes with an empty cache.  When the row is there by   *)
(* now the INSERT fails: Abort.                                            *)
InsertWallet(r) ==
  LET w == <<req[r].account, req[r].chain>>
  IN /\ req[r].pc = "insert"
     /\ rows[w].state = "absent"
     /\ rows' = [rows EXCEPT ![w] = Row("null")]
     /\ req' = [req EXCEPT ![r].pc = IF req[r].kind = "link" THEN "load" ELSE "bound"]
     /\ UNCHANGED <<roles, now, floor>>

(* What load_role_cache finds in a row, LIMIT 1, and how long it counts:   *)
(* by the TTL of the chain the handler is on, not of the row's.            *)
Hit(w, c) == rows[w].state = "cached" /\ rows[w].updated_at + TTL[c] > now

LoadHit(r) ==
  /\ req[r].pc = "load"
  /\ \E w \in RowsOf(req[r].account) :
       /\ Hit(w, req[r].chain)
       /\ req' = [req EXCEPT ![r].pc = "have", ![r].role = rows[w].role,
                             ![r].version = rows[w].version]
  /\ UNCHANGED <<roles, rows, now, floor>>

LoadMiss(r) ==
  LET found == RowsOf(req[r].account)
  IN /\ req[r].pc = "load"
     /\ found = {} \/ \E w \in found : ~Hit(w, req[r].chain)
     /\ req' = [req EXCEPT ![r].pc = "ask"]
     /\ UNCHANGED <<roles, rows, now, floor>>

(* getRole; its failure is an error of the handler: Abort.                 *)
AskChain(r) ==
  /\ req[r].pc = "ask"
  /\ Receive(r, "read", req[r].account, req[r].chain)
  /\ UNCHANGED <<roles, rows, now, floor>>

StoreRead(r) ==
  /\ req[r].pc = "read"
  /\ StoreRole(r)
  /\ req' = [req EXCEPT ![r].pc = "have"]
  /\ UNCHANGED <<roles, now, floor>>

(* The login looks for a row of the address, on whichever chain.           *)
FindWallet(r) ==
  /\ req[r].pc = "have" /\ req[r].kind = "login"
  /\ req' = [req EXCEPT ![r].pc = IF RowsOf(req[r].account) = {} THEN "insert" ELSE "bound"]
  /\ UNCHANGED <<roles, rows, now, floor>>

(* The role is stored once more, wherever it came from, then answered.  An *)
(* error of this second store is ignored: .ok().                           *)
StoreAgain(r) ==
  /\ \/ req[r].pc = "bound"
     \/ req[r].pc = "have" /\ req[r].kind # "login"
  /\ StoreRole(r) \/ UNCHANGED rows
  /\ req' = [req EXCEPT ![r] = Idle]
  /\ UNCHANGED <<roles, now, floor>>

-----------------------------------------------------------------------------
(* POST /api/admin/roles/refresh, and admin_tools roles-refresh: every row *)
(* of the table, one after the other.                                      *)
AdminList(r) ==
  /\ req[r] = Idle
  /\ req' = [req EXCEPT ![r].pc = "walk", ![r].kind = "admin",
                        ![r].todo = UNION {RowsOf(a) : a \in Account}]
  /\ UNCHANGED <<roles, rows, now, floor>>

AdminAsk(r, w) ==
  /\ req[r].pc = "walk"
  /\ w \in req[r].todo
  /\ Receive(r, "fetched", w[1], w[2])
  /\ UNCHANGED <<roles, rows, now, floor>>

(* The command line skips a row whose lookup fails; the route gives up.    *)
AdminSkip(r, w) ==
  /\ req[r].pc = "walk"
  /\ w \in req[r].todo
  /\ req' = [req EXCEPT ![r].todo = @ \ {w}]
  /\ UNCHANGED <<roles, rows, now, floor>>

AdminStore(r) ==
  LET h == req[r]
      quiet == \A q \in Request \ {r} : ~Holds(q, h.account)
  IN /\ h.pc = "fetched"
     /\ StoreRole(r)
     /\ req' = [req EXCEPT ![r] = [Idle EXCEPT !.pc = "walk", !.kind = "admin",
                                     !.todo = h.todo \ {<<h.account, h.chain>>}]]
     /\ floor' = IF quiet THEN [floor EXCEPT ![h.account] = h.version] ELSE floor
     /\ UNCHANGED <<roles, now>>

AdminAnswer(r) ==
  /\ req[r].pc = "walk" /\ req[r].todo = {}
  /\ req' = [req EXCEPT ![r] = Idle]
  /\ UNCHANGED <<roles, rows, now, floor>>

-----------------------------------------------------------------------------
(* POST and DELETE /api/wallets: rows come with an empty cache and take it *)
(* with them.                                                              *)
CreateWallet(a, c) ==
  /\ rows[<<a, c>>].state = "absent"
  /\ rows' = [rows EXCEPT ![<<a, c>>] = Row("null")]
  /\ UNCHANGED <<roles, req, now, floor>>

DeleteWallet(a, c) ==
  /\ rows[<<a, c>>].state # "absent"
  /\ rows' = [rows EXCEPT ![<<a, c>>] = Row("absent")]
  /\ UNCHANGED <<roles, req, now, floor>>

(* A failed call, or a client that went away.                              *)
Abort(r) ==
  /\ req[r].pc # "idle"
  /\ req' = [req EXCEPT ![r] = Idle]
  /\ UNCHANGED <<roles, rows, now, floor>>

Tick ==
  /\ now < MaxTime
  /\ now' = now + 1
  /\ UNCHANGED <<roles, rows, req, floor>>

SignIn(r) ==
  \/ \E a \in Account, c \in ChainId :
       StartLogin(r, a, c) \/ StartRefresh(r, a, c) \/ StartLink(r, a, c)
  \/ InsertWallet(r)
  \/ LoadHit(r)
  \/ LoadMiss(r)
  \/ AskChain(r)
  \/ StoreRead(r)
  \/ FindWallet(r)
  \/ StoreAgain(r)

AdminRefresh(r) ==
  \/ AdminList(r)
  \/ \E w \in Wallets : AdminAsk(r, w) \/ AdminSkip(r, w)
  \/ AdminStore(r)
  \/ AdminAnswer(r)

Next ==
  \/ \E a \in Account, role \in Role : SetRole(a, role)
  \/ \E r \in Request : SignIn(r) \/ AdminRefresh(r) \/ Abort(r)
  \/ \E a \in Account, c \in ChainId : CreateWallet(a, c) \/ DeleteWallet(a, c)
  \/ Tick

Spec == Init /\ [][Next]_vars
-----------------------------------------------------------------------------
(* PROPERTIES                                                              *)

ShapeOK ==
  /\ roles \in [Account -> Seq(RoleEntry)]
  /\ \A a \in Account : Len(roles[a]) \in Version
  /\ rows \in [Wallets -> RowState]
  /\ req \in [Request -> HandlerState]
  /\ now \in 0..MaxTime
  /\ floor \in [Account -> {0} \cup Version]

(* Rows, handlers and history have their shape, and no row of the cache is *)
(* stamped ahead of the clock: it would be answered after its TTL.         *)
TypeOK == ShapeOK /\ \A w \in Wallets : rows[w].updated_at <= now

(* The cache is read with LIMIT 1 and no order: whichever row of an        *)
(* account the database picks, it holds the same role, stored at the same  *)
(* time, or none.                                                          *)
RowsAgree ==
  \A v, w \in Wallets :
    v[1] = w[1] /\ rows[v].state = "cached" /\ rows[w].state = "cached"
      => rows[v] = rows[w]

(* Version v of a's role exists and is that role.                          *)
WasRole(a, v, role) == v \in DOMAIN roles[a] /\ role = roles[a][v].role

(* A role in the cache or in an answer is one that the contract gave the   *)
(* account: no failed lookup, new row or mixed-up handler makes one up.    *)
RolesFromChain ==
  /\ \A w \in Wallets :
       rows[w].state = "cached" => WasRole(w[1], rows[w].version, rows[w].role)
  /\ \A r \in Request :
       req[r].role # None => WasRole(req[r].account, req[r].version, req[r].role)

(* What roles/refresh stored for an account while no other handler held a  *)
(* role of it is never replaced by an older role: neither in the cache nor *)
(* in the hands of a handler.                                              *)
QuietRefreshSticks ==
  /\ \A w \in Wallets : rows[w].state = "cached" => rows[w].version >= floor[w[1]]
  /\ \A r \in Request, a \in Account : Holds(r, a) => req[r].version >= floor[a]
=============================================================================
