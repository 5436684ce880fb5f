--------------------------- MODULE WalletRegistry ---------------------------
(***************************************************************************)
(* Users and their wallets: the tables users and wallets as the sign-in    *)
(* and link_wallet of auth/src/lib.rs, routes/wallets.rs and their         *)
(* repositories read and write them.  A request's actions are what it does *)
(* between two awaits; a request of one statement is one action.           *)
(*                                                                         *)
(* Nonces and sessions are the module AuthSession and the columns of the   *)
(* role cache RoleCache: here a sign-in ends when it has its wallet and a  *)
(* link when it has its row.  Addresses are stored in lower case.          *)
(***************************************************************************)
CONSTANTS
  User, Wallet,    \* ids, of which each is created once
  Address, Chain,
  Request,
  None, Gone

(* vetted: the lookup of the login or link that inserted the row was still *)
(* true when it did (history; create_wallet looks nothing up).             *)
Row == [user : User, address : Address, chain : Chain, vetted : BOOLEAN]

ASSUME RegistryAssumption ==
  /\ None \notin User \cup Wallet \cup Address \cup Chain
  /\ None # Gone /\ {None, Gone} \cap Row = {}

VARIABLES
  primary,  \* users.primary_wallet, None for a user that is not there yet
  wallets,  \* table wallets: None before and Gone after an id has its row
  request   \* the handlers

vars == <<primary, wallets, request>>

Active == {"find", "insert", "load", "session", "update"}
Answer == {"200", "204", "404", "403", "409", "500"}

(* fresh: no row of the address was inserted since the lookup (history).   *)
Handler ==
  [pc : {"idle"} \cup Active \cup Answer, op : {"login", "link", "primary"},
   user : User \cup {None}, address : Address \cup {None}, chain : Chain \cup {None},
   wallet : Wallet \cup {None}, fresh : BOOLEAN]

Blank ==
  [pc |-> "idle", op |-> "login", user |-> None, address |-> None,
   chain |-> None, wallet |-> None, fresh |-> TRUE]

Init ==
  /\ primary = [u \in User |-> None]
  /\ wallets = [w \in Wallet |-> None]
  /\ request = [r \in Request |-> Blank]

Rows == {w \in Wallet : wallets[w] \notin {None, Gone}}
RowsOf(a) == {w \in Rows : wallets[w].address = a}
Registered == {u \in User : primary[u] # None}

Become(r, h) == request' = [request EXCEPT ![r] = h]
Goes(r, pc) == Become(r, [request[r] EXCEPT !.pc = pc])

-----------------------------------------------------------------------------
(* Mutant: the unique constraint is missing.                               *)
BugNotUnique(a, c) == TRUE

(* UNIQUE (address, chain_id).                                             *)
Free(a, c) == \A w \in RowsOf(a) : wallets[w].chain # c

(* An INSERT into wallets; the other requests' lookups grow old.           *)
InsertRow(w, u, a, c, vetted) ==
  /\ wallets[w] = None
  /\ wallets' = [wallets EXCEPT ![w] = [user |-> u, address |-> a, chain |-> c, vetted |-> vetted]]

Overtaken(a) ==
  [r \in Request |-> IF request[r].address = a THEN [request[r] EXCEPT !.fresh = FALSE]
                     ELSE request[r]]

StartLogin(r, a, c) ==
  /\ request[r].pc = "idle"
  /\ Become(r, [Blank EXCEPT !.pc = "find", !.address = a, !.chain = c])
  /\ UNCHANGED <<primary, wallets>>

StartLink(r, u, a, c) ==
  /\ request[r].pc = "idle" /\ u \in Registered
  /\ Become(r, [Blank EXCEPT !.pc = "find", !.op = "link", !.user = u,
                             !.address = a, !.chain = c])
  /\ UNCHANGED <<primary, wallets>>

(* Mutant: the lookup asks for the chain as well.                          *)
BugFindOnChain(r) ==
  {w \in RowsOf(request[r].address) : wallets[w].chain = request[r].chain}

(* The rows that find_wallet_owner and upsert_user_wallet may come upon:   *)
(* any one of the address, on whatever chain.                              *)
Found(r) == RowsOf(request[r].address)

FindNone(r) ==
  /\ request[r].pc = "find" /\ Found(r) = {}
  /\ Become(r, [request[r] EXCEPT !.pc = "insert", !.fresh = TRUE])
  /\ UNCHANGED <<primary, wallets>>

(* The user of the row is who signs in.                                    *)
FindUser(r) ==
  /\ request[r].pc = "find" /\ request[r].op = "login"
  /\ \E w \in Found(r) :
       Become(r, [request[r] EXCEPT !.pc = "session", !.user = wallets[w].user, !.wallet = w])
  /\ UNCHANGED <<primary, wallets>>

(* A link stops at another user's row, and consumes its nonce at its own.  *)
FindOwner(r) ==
  /\ request[r].pc = "find" /\ request[r].op = "link"
  /\ \E w \in Found(r) :
       Goes(r, IF wallets[w].user = request[r].user THEN "load" ELSE "409")
  /\ UNCHANGED <<primary, wallets>>

(* load_wallet_by_address answers any row the address has by now.          *)
Load(r) ==
  /\ request[r].pc = "load"
  /\ \/ \E w \in Found(r) : Become(r, [request[r] EXCEPT !.pc = "200", !.wallet = w])
     \/ Found(r) = {} /\ Goes(r, "500")
  /\ UNCHANGED <<primary, wallets>>

(* Mutant: the user's INSERT is not part of the transaction that commits.  *)
BugUserUnsaved(u, a) == UNCHANGED primary

InsertUser(u, a) == primary' = [primary EXCEPT ![u] = a]

(* Users and wallets are inserted in one transaction.                      *)
Register(r, u, w) ==
  /\ request[r].pc = "insert" /\ request[r].op = "login" /\ u \notin Registered
  /\ LET h == request[r]
     IN /\ Free(h.address, h.chain)
        /\ InsertRow(w, u, h.address, h.chain, h.fresh)
        /\ InsertUser(u, h.address)
        /\ request' = [Overtaken(h.address) EXCEPT
                         ![r] = [h EXCEPT !.pc = "session", !.user = u, !.wallet = w]]

(* Mutant: the user's INSERT is not rolled back.                           *)
BugUserStays(r) == \E u \in User \ Registered : InsertUser(u, request[r].address)

RegisterFails(r) == UNCHANGED primary

(* The session references the wallet, which may be gone.                   *)
CreateSession(r) ==
  /\ request[r].pc = "session"
  /\ Goes(r, IF request[r].wallet \in Rows THEN "200" ELSE "500")
  /\ UNCHANGED <<primary, wallets>>

(* The UPDATE that follows finds no user whose primary wallet is empty.    *)
LinkRow(r, w) ==
  /\ request[r].pc = "insert" /\ request[r].op = "link"
  /\ LET h == request[r]
     IN /\ Free(h.address, h.chain)
        /\ InsertRow(w, h.user, h.address, h.chain, h.fresh)
        /\ request' = [Overtaken(h.address) EXCEPT ![r] = [h EXCEPT !.pc = "200", !.wallet = w]]
  /\ UNCHANGED primary

(* The role or the nonce fails when the row is there.                      *)
LinkUnanswered(r, w) ==
  /\ request[r].pc = "insert" /\ request[r].op = "link"
  /\ LET h == request[r]
     IN /\ Free(h.address, h.chain)
        /\ InsertRow(w, h.user, h.address, h.chain, h.fresh)
        /\ request' = [Overtaken(h.address) EXCEPT ![r] = [h EXCEPT !.pc = "500"]]
  /\ UNCHANGED primary

(* Any query may fail, an INSERT also for its constraint.                  *)
Fails(r) ==
  /\ request[r].pc \in Active
  /\ Goes(r, "500")
  /\ IF request[r].pc = "insert" /\ request[r].op = "login" THEN RegisterFails(r)
     ELSE UNCHANGED primary
  /\ UNCHANGED wallets

-----------------------------------------------------------------------------
(* routes/wallets.rs.                                                      *)

CreateWallet(u, w, a, c) ==
  /\ u \in Registered /\ Free(a, c)
  /\ InsertRow(w, u, a, c, FALSE)
  /\ request' = Overtaken(a)
  /\ UNCHANGED primary

DeleteWallet(u, w) ==
  /\ w \in Rows /\ wallets[w].user = u
  /\ wallets' = [wallets EXCEPT ![w] = Gone]
  /\ UNCHANGED <<primary, request>>

(* set_primary_wallet finds the wallet and its user first.                 *)
FindWallet(r, u, w) ==
  /\ request[r].pc = "idle" /\ u \in Registered /\ wallets[w] # None
  /\ LET pc == IF w \notin Rows THEN "404" ELSE IF wallets[w].user # u THEN "403" ELSE "update"
     IN Become(r, [Blank EXCEPT !.pc = pc, !.op = "primary", !.user = u, !.wallet = w,
                     !.address = IF w \in Rows THEN wallets[w].address ELSE None])
  /\ UNCHANGED <<primary, wallets>>

(* Mutant: the UPDATE trusts the lookup.                                   *)
BugTrustsLookup(r) == TRUE

(* UPDATE users FROM wallets WHERE the wallet is the user's.               *)
StillThere(r) ==
  request[r].wallet \in Rows /\ wallets[request[r].wallet].user = request[r].user

SetPrimary(r) ==
  /\ request[r].pc = "update"
  /\ IF StillThere(r)
       THEN /\ primary' = [primary EXCEPT ![request[r].user] = request[r].address]
            /\ Goes(r, "204")
       ELSE Goes(r, "404") /\ UNCHANGED primary
  /\ UNCHANGED wallets

(* A slot takes its next request.                                          *)
Done(r) ==
  /\ request[r].pc \in Answer
  /\ Become(r, Blank)
  /\ UNCHANGED <<primary, wallets>>

Handle(r) ==
  \/ FindNone(r) \/ FindUser(r) \/ FindOwner(r) \/ Load(r) \/ CreateSession(r)
  \/ Fails(r) \/ SetPrimary(r) \/ Done(r)
  \/ \E w \in Wallet : LinkRow(r, w) \/ LinkUnanswered(r, w)
  \/ \E u \in User, w \in Wallet : Register(r, u, w) \/ FindWallet(r, u, w)
  \/ \E a \in Address, c \in Chain :
       StartLogin(r, a, c) \/ \E u \in User : StartLink(r, u, a, c)

Next ==
  \/ \E r \in Request : Handle(r)
  \/ \E u \in User, w \in Wallet :
       DeleteWallet(u, w) \/ \E a \in Address, c \in Chain : CreateWallet(u, w, a, c)

Spec == Init /\ [][Next]_vars

-----------------------------------------------------------------------------
(* Properties.                                                             *)

TypeOK ==
  /\ primary \in [User -> Address \cup {None}]
  /\ wallets \in [Wallet -> Row \cup {None, Gone}]
  /\ request \in [Request -> Handler]
  /\ \A w \in Rows : wallets[w].user \in Registered

(* A user's primary wallet is only ever set to the address of a wallet the *)
(* user has at that moment: neither a deletion between the lookup and the  *)
(* UPDATE of set_primary_wallet nor a sign-in whose INSERT fails makes up  *)
(* another.                                                                *)
PrimaryOwnedWhenSet ==
  [][\A u \in User : primary'[u] # primary[u] =>
       \E w \in Rows' : wallets'[w].user = u /\ wallets'[w].address = primary'[u]]_vars

(* Only (address, chain_id) is unique, so that an address may come to have *)
(* rows of several users: but a login or a link adds such a row only when  *)
(* another row came between its lookup and its INSERT.                     *)
VettedIsSole ==
  [][\A w \in Wallet :
       (w \notin Rows /\ w \in Rows' /\ wallets'[w].vetted) =>
         RowsOf(wallets'[w].address) = {}]_vars

(* Sign-ins, links and created wallets that race for an address on a chain *)
(* leave it with one holder until that holder deletes it.                  *)
Book == INSTANCE AddressBook WITH
  Key <- Address \X Chain,
  holders <- [k \in Address \X Chain |->
                {wallets[w].user : w \in {v \in RowsOf(k[1]) : wallets[v].chain = k[2]}}]

AddressBookSpec == Book!Spec
=============================================================================
