------------------------ MODULE WalletRegistryProofs ------------------------
(***************************************************************************)
(* Proofs about WalletRegistry, for any users, wallets, addresses, chains  *)
(* and requests.                                                           *)
(***************************************************************************)
EXTENDS WalletRegistry, TLAPS

-----------------------------------------------------------------------------
(* The inductive invariant.                                                *)

(* UNIQUE (address, chain_id) holds of the table.                          *)
UniqueRows ==
  \A v, w \in Rows :
    wallets[v].address = wallets[w].address /\ wallets[v].chain = wallets[w].chain => v = w

(* What a handler knows: who links, what was found, and whether it holds.  *)
Knows(h) ==
  /\ h.pc \in {"find", "insert", "load"} => h.address \in Address /\ h.chain \in Chain
  /\ h.op = "link" => h.user \in Registered
  /\ (h.pc = "insert" /\ h.fresh) => RowsOf(h.address) = {}
  /\ h.pc = "update" =>
       /\ h.wallet \in Wallet /\ wallets[h.wallet] # None
       /\ h.wallet \in Rows => wallets[h.wallet].address = h.address

IInv ==
  /\ TypeOK
  /\ UniqueRows
  /\ \A r \in Request : Knows(request[r])

LEMMA RowFacts ==
  ASSUME TypeOK, NEW w \in Rows
  PROVE  /\ w \in Wallet /\ wallets[w] \in Row
         /\ wallets[w].user \in Registered /\ wallets[w].user \in User
         /\ wallets[w].address \in Address /\ wallets[w].chain \in Chain
  BY DEF TypeOK, Rows, Row, Registered

LEMMA RowIsRow ==
  ASSUME NEW u \in User, NEW a \in Address, NEW c \in Chain, NEW v \in BOOLEAN
  PROVE  /\ [user |-> u, address |-> a, chain |-> c, vetted |-> v] \in Row
         /\ [user |-> u, address |-> a, chain |-> c, vetted |-> v] \notin {None, Gone}
  BY RegistryAssumption DEF Row

LEMMA InitIInv == Init => IInv
<1> SUFFICES ASSUME Init PROVE IInv
  OBVIOUS
<1>1. Rows = {}
  BY DEF Init, Rows
<1>2. Blank \in Handler /\ Knows(Blank)
  BY DEF Blank, Handler, Active, Knows
<1>3. request \in [Request -> Handler] /\ \A r \in Request : request[r] = Blank
  BY <1>2 DEF Init
<1>4. TypeOK
  BY <1>1, <1>3 DEF Init, TypeOK
<1>5. UniqueRows
  BY <1>1 DEF UniqueRows
<1> QED BY <1>2, <1>3, <1>4, <1>5 DEF IInv

-----------------------------------------------------------------------------
(* Steps that leave the tables alone.                                      *)

LEMMA HandlerStep ==
  ASSUME IInv, NEW r \in Request, NEW h \in Handler, Knows(h),
         Become(r, h), UNCHANGED <<primary, wallets>>
  PROVE  IInv'
<1>1. /\ request' \in [Request -> Handler]
      /\ \A q \in Request : request'[q] = IF q = r THEN h ELSE request[q]
  BY DEF Become, IInv, TypeOK
<1>2. Rows' = Rows /\ Registered' = Registered
  BY DEF Rows, Registered
<1>3. \A a : RowsOf(a)' = RowsOf(a)
  BY <1>2 DEF RowsOf
<1>4. \A q \in Request : Knows(request[q])'
  BY <1>1, <1>2, <1>3 DEF Knows, IInv
<1>5. TypeOK'
  BY <1>1, <1>2 DEF TypeOK, IInv
<1>6. UniqueRows'
  BY <1>2 DEF UniqueRows, IInv
<1> QED BY <1>4, <1>5, <1>6 DEF IInv

LEMMA GoesStep ==
  ASSUME IInv, NEW r \in Request, NEW pc \in Answer \cup {"load"}, Goes(r, pc),
         request[r].pc \in {"find", "load", "session", "insert", "update"},
         pc = "load" => request[r].pc = "find",
         UNCHANGED <<primary, wallets>>
  PROVE  IInv'
<1> DEFINE h == [request[r] EXCEPT !.pc = pc]
<1>1. request[r] \in Handler /\ Knows(request[r])
  BY DEF IInv, TypeOK
<1>2. h \in Handler
  BY <1>1 DEF Handler, Active, Answer
<1>3. Knows(h)
  BY <1>1, <1>2 DEF Knows, Handler, Answer
<1> QED BY <1>2, <1>3, HandlerStep DEF Goes

LEMMA DoneStep ==
  ASSUME IInv, NEW r \in Request, Done(r)
  PROVE  IInv'
<1>1. Blank \in Handler /\ Knows(Blank)
  BY DEF Blank, Handler, Active, Knows
<1> QED BY <1>1, HandlerStep DEF Done

LEMMA StartStep ==
  ASSUME IInv, NEW r \in Request, NEW a \in Address, NEW c \in Chain,
         StartLogin(r, a, c) \/ \E u \in User : StartLink(r, u, a, c)
  PROVE  IInv'
<1>1. CASE StartLogin(r, a, c)
  <2> DEFINE h == [Blank EXCEPT !.pc = "find", !.address = a, !.chain = c]
  <2>1. h \in Handler /\ Knows(h)
    BY DEF Blank, Handler, Active, Knows
  <2> QED BY <1>1, <2>1, HandlerStep DEF StartLogin
<1>2. ASSUME NEW u \in User, StartLink(r, u, a, c) PROVE IInv'
  <2> DEFINE h == [Blank EXCEPT !.pc = "find", !.op = "link", !.user = u,
                                !.address = a, !.chain = c]
  <2>1. h \in Handler /\ Knows(h)
    BY <1>2 DEF StartLink, Blank, Handler, Active, Knows
  <2> QED BY <1>2, <2>1, HandlerStep DEF StartLink
<1> QED BY <1>1, <1>2

LEMMA FindStep ==
  ASSUME IInv, NEW r \in Request, FindNone(r) \/ FindUser(r) \/ FindOwner(r) \/ Load(r)
  PROVE  IInv'
<1>1. request[r] \in Handler /\ Knows(request[r])
  BY DEF IInv, TypeOK
<1>2. CASE FindNone(r)
  <2> DEFINE h == [request[r] EXCEPT !.pc = "insert", !.fresh = TRUE]
  <2>1. h \in Handler
    BY <1>1 DEF Handler, Active
  <2>2. Knows(h)
    BY <1>1, <1>2, <2>1 DEF Knows, Handler, FindNone, Found
  <2> QED BY <1>2, <2>1, <2>2, HandlerStep DEF FindNone
<1>3. CASE FindUser(r)
  <2>1. PICK w \in Found(r) :
          Become(r, [request[r] EXCEPT !.pc = "session", !.user = wallets[w].user, !.wallet = w])
    BY <1>3 DEF FindUser
  <2> DEFINE h == [request[r] EXCEPT !.pc = "session", !.user = wallets[w].user, !.wallet = w]
  <2>2. w \in Wallet /\ wallets[w].user \in User
    BY <2>1, RowFacts DEF Found, RowsOf, IInv
  <2>3. h \in Handler
    BY <1>1, <2>2 DEF Handler, Active
  <2>4. Knows(h)
    BY <1>1, <1>3, <2>3 DEF Knows, Handler, FindUser
  <2> QED BY <1>3, <2>1, <2>3, <2>4, HandlerStep DEF FindUser
<1>4. CASE FindOwner(r)
  <2>1. PICK pc \in {"load", "409"} : Goes(r, pc)
    BY <1>4 DEF FindOwner
  <2>2. pc \in Answer \cup {"load"} /\ request[r].pc = "find"
    BY <1>4 DEF FindOwner, Answer
  <2> QED BY <1>4, <2>1, <2>2, GoesStep DEF FindOwner
<1>5. CASE Load(r)
  <2>1. ASSUME NEW w \in Found(r), Become(r, [request[r] EXCEPT !.pc = "200", !.wallet = w])
        PROVE  IInv'
    <3> DEFINE h == [request[r] EXCEPT !.pc = "200", !.wallet = w]
    <3>1. w \in Wallet
      BY <2>1 DEF Found, RowsOf, Rows
    <3>2. h \in Handler
      BY <1>1, <3>1 DEF Handler, Answer
    <3>3. Knows(h)
      BY <1>1, <3>2 DEF Knows, Handler
    <3> QED BY <1>5, <2>1, <3>2, <3>3, HandlerStep DEF Load
  <2>2. CASE Goes(r, "500")
    BY <1>5, <2>2, GoesStep DEF Load, Answer
  <2> QED BY <1>5, <2>1, <2>2 DEF Load
<1> QED BY <1>2, <1>3, <1>4, <1>5

LEMMA AnswerStep ==
  ASSUME IInv, NEW r \in Request, CreateSession(r) \/ Fails(r)
  PROVE  IInv'
<1>1. CASE CreateSession(r)
  <2>1. PICK pc \in {"200", "500"} : Goes(r, pc)
    BY <1>1 DEF CreateSession
  <2>2. pc \in Answer \cup {"load"} /\ pc # "load"
    BY DEF Answer
  <2> QED BY <1>1, <2>1, <2>2, GoesStep DEF CreateSession
<1>2. CASE Fails(r)
  <2>1. UNCHANGED <<primary, wallets>>
    BY <1>2 DEF Fails, RegisterFails
  <2>2. "500" \in Answer \cup {"load"} /\ request[r].pc \in Active
    BY <1>2 DEF Fails, Answer
  <2> QED BY <1>2, <2>1, <2>2, GoesStep DEF Fails, Active
<1> QED BY <1>1, <1>2

LEMMA FindWalletStep ==
  ASSUME IInv, NEW r \in Request, NEW u \in User, NEW w \in Wallet, FindWallet(r, u, w)
  PROVE  IInv'
<1> DEFINE pc == IF w \notin Rows THEN "404" ELSE IF wallets[w].user # u THEN "403" ELSE "update"
           a == IF w \in Rows THEN wallets[w].address ELSE None
           h == [Blank EXCEPT !.pc = pc, !.op = "primary", !.user = u, !.wallet = w, !.address = a]
<1>1. a \in Address \cup {None}
  BY RowFacts DEF IInv
<1>2. pc \in {"404", "403", "update"}
  OBVIOUS
<1> HIDE DEF pc, a
<1>3. h \in Handler
  BY <1>1, <1>2 DEF Handler, Blank, Active, Answer
<1>4. h.pc = pc /\ h.op = "primary" /\ h.wallet = w /\ h.address = a
  BY DEF Blank
<1>5. Knows(h)
  BY <1>2, <1>4 DEF Knows, FindWallet, a
<1> QED BY <1>3, <1>5, HandlerStep DEF FindWallet, pc, a

(* The UPDATE of set_primary_wallet gives the address of the user's row.   *)
LEMMA UpdateFacts ==
  ASSUME IInv, NEW r \in Request, request[r].pc = "update", StillThere(r)
  PROVE  /\ request[r].wallet \in Rows
         /\ wallets[request[r].wallet].user = request[r].user
         /\ wallets[request[r].wallet].address = request[r].address
         /\ request[r].user \in Registered /\ request[r].address \in Address
<1>1. Knows(request[r])
  BY DEF IInv
<1>2. request[r].wallet \in Rows /\ wallets[request[r].wallet].user = request[r].user
  BY DEF StillThere
<1>3. wallets[request[r].wallet].address = request[r].address
  BY <1>1, <1>2 DEF Knows
<1> QED BY <1>2, <1>3, RowFacts DEF IInv

LEMMA SetPrimaryStep ==
  ASSUME IInv, NEW r \in Request, SetPrimary(r)
  PROVE  IInv'
<1>1. CASE ~StillThere(r)
  <2>1. Goes(r, "404") /\ UNCHANGED <<primary, wallets>> /\ request[r].pc = "update"
    BY <1>1 DEF SetPrimary
  <2>2. "404" \in Answer \cup {"load"}
    BY DEF Answer
  <2> QED BY <2>1, <2>2, GoesStep
<1>2. CASE StillThere(r)
  <2> DEFINE h == [request[r] EXCEPT !.pc = "204"]
  <2>1. /\ primary' = [primary EXCEPT ![request[r].user] = request[r].address]
        /\ Become(r, h) /\ UNCHANGED wallets
    BY <1>2 DEF SetPrimary, Goes
  <2>2. request[r].user \in Registered /\ request[r].address \in Address
    BY <1>2, UpdateFacts DEF SetPrimary
  <2>3. request[r] \in Handler /\ Knows(request[r])
    BY DEF IInv, TypeOK
  <2>4. h \in Handler /\ Knows(h)
    BY <2>3 DEF Handler, Answer, Knows
  <2>5. primary' \in [User -> Address \cup {None}]
    BY <2>1, <2>2 DEF IInv, TypeOK
  <2>6. Rows' = Rows /\ \A a : RowsOf(a)' = RowsOf(a)
    BY <2>1 DEF Rows, RowsOf
  <2>7. Registered' = Registered
    BY <2>1, <2>2, RegistryAssumption DEF Registered, IInv, TypeOK
  <2>8. /\ request' \in [Request -> Handler]
        /\ \A q \in Request : request'[q] = IF q = r THEN h ELSE request[q]
    BY <2>1, <2>4 DEF Become, IInv, TypeOK
  <2> HIDE DEF h
  <2>9. \A q \in Request : Knows(request[q])'
    BY <2>1, <2>4, <2>6, <2>7, <2>8 DEF Knows, IInv
  <2>10. TypeOK'
    BY <2>1, <2>5, <2>6, <2>7, <2>8 DEF TypeOK, IInv
  <2>11. UniqueRows'
    BY <2>1, <2>6 DEF UniqueRows, IInv
  <2> QED BY <2>9, <2>10, <2>11 DEF IInv
<1> QED BY <1>1, <1>2

-----------------------------------------------------------------------------
(* Steps that insert a row.                                                *)

(* The table after an INSERT.                                              *)
LEMMA InsertedRow ==
  ASSUME IInv, NEW w \in Wallet, NEW u \in User, NEW a \in Address, NEW c \in Chain,
         NEW v \in BOOLEAN, InsertRow(w, u, a, c, v)
  PROVE  /\ wallets' \in [Wallet -> Row \cup {None, Gone}]
         /\ wallets'[w] = [user |-> u, address |-> a, chain |-> c, vetted |-> v]
         /\ \A x \in Wallet : x # w => wallets'[x] = wallets[x]
         /\ w \notin Rows /\ Rows' = Rows \cup {w}
<1> DEFINE row == [user |-> u, address |-> a, chain |-> c, vetted |-> v]
<1>1. row \in Row /\ row \notin {None, Gone}
  BY RowIsRow
<1>2. wallets \in [Wallet -> Row \cup {None, Gone}] /\ wallets[w] = None
  BY DEF IInv, TypeOK, InsertRow
<1>3. wallets' = [wallets EXCEPT ![w] = row]
  BY DEF InsertRow
<1> HIDE DEF row
<1>4. /\ wallets' \in [Wallet -> Row \cup {None, Gone}] /\ wallets'[w] = row
      /\ \A x \in Wallet : x # w => wallets'[x] = wallets[x]
  BY <1>1, <1>2, <1>3
<1>5. w \notin Rows /\ Rows' = Rows \cup {w}
  BY <1>1, <1>2, <1>4 DEF Rows
<1> QED BY <1>4, <1>5 DEF row

LEMMA OvertakenFacts ==
  ASSUME IInv, NEW a, NEW q \in Request
  PROVE  /\ Overtaken(a)[q] \in Handler
         /\ Overtaken(a)[q].pc = request[q].pc /\ Overtaken(a)[q].op = request[q].op
         /\ Overtaken(a)[q].user = request[q].user /\ Overtaken(a)[q].address = request[q].address
         /\ Overtaken(a)[q].chain = request[q].chain /\ Overtaken(a)[q].wallet = request[q].wallet
         /\ request[q].address = a => ~Overtaken(a)[q].fresh
         /\ Overtaken(a)[q].fresh => request[q].fresh
<1>1. request[q] \in Handler
  BY DEF IInv, TypeOK
<1>2. Overtaken(a)[q] = IF request[q].address = a THEN [request[q] EXCEPT !.fresh = FALSE]
                        ELSE request[q]
  BY DEF Overtaken
<1>3. CASE request[q].address = a
  <2> DEFINE old == request[q]
             new == [old EXCEPT !.fresh = FALSE]
  <2>1. Overtaken(a)[q] = new
    BY <1>2, <1>3
  <2>2. new \in Handler
    BY <1>1 DEF Handler
  <2>3. /\ new.pc = old.pc /\ new.op = old.op /\ new.user = old.user
        /\ new.address = old.address /\ new.chain = old.chain /\ new.wallet = old.wallet
        /\ ~new.fresh
    BY <1>1 DEF Handler
  <2> HIDE DEF new
  <2> QED BY <2>1, <2>2, <2>3
<1>4. CASE request[q].address # a
  BY <1>1, <1>2, <1>4
<1> QED BY <1>3, <1>4

(* Whoever inserts, the other handlers still know what they know.          *)
LEMMA InsertStep ==
  ASSUME IInv, NEW w \in Wallet, NEW u \in User, NEW a \in Address, NEW c \in Chain,
         NEW v \in BOOLEAN, Free(a, c), InsertRow(w, u, a, c, v),
         primary' \in [User -> Address \cup {None}],
         u \in Registered', Registered \subseteq Registered',
         request' \in [Request -> Handler],
         \A q \in Request :
           \/ request'[q] = Overtaken(a)[q]
           \/ /\ request'[q].pc \in {"session", "200", "500"}
              /\ request'[q].op = "link" => request'[q].user \in Registered'
  PROVE  IInv'
<1>1. /\ wallets' \in [Wallet -> Row \cup {None, Gone}]
      /\ wallets'[w] = [user |-> u, address |-> a, chain |-> c, vetted |-> v]
      /\ \A x \in Wallet : x # w => wallets'[x] = wallets[x]
      /\ w \notin Rows /\ Rows' = Rows \cup {w}
  BY InsertedRow
<1>2. Rows \subseteq Wallet
  BY DEF Rows
<1>3. \A x \in Rows : wallets'[x] = wallets[x]
  BY <1>1, <1>2
<1>4. TypeOK'
  <2>1. \A x \in Rows' : wallets'[x].user \in Registered'
    BY <1>1, <1>3, RowFacts DEF IInv
  <2> QED BY <1>1, <2>1 DEF TypeOK
<1>5. UniqueRows'
  <2> SUFFICES ASSUME NEW x \in Rows', NEW y \in Rows',
                      wallets'[x].address = wallets'[y].address,
                      wallets'[x].chain = wallets'[y].chain
               PROVE  x = y
    BY DEF UniqueRows
  <2>1. CASE x \in Rows /\ y \in Rows
    BY <1>3, <2>1 DEF UniqueRows, IInv
  <2>2. \A z \in Rows : ~(wallets'[z].address = a /\ wallets'[z].chain = c)
    BY <1>3 DEF Free, RowsOf
  <2>3. wallets'[w].address = a /\ wallets'[w].chain = c
    BY <1>1
  <2> QED BY <1>1, <2>1, <2>2, <2>3
<1>6. ASSUME NEW q \in Request PROVE Knows(request[q])'
  <2>1. CASE request'[q] = Overtaken(a)[q]
    <3>1. Knows(request[q]) /\ request[q] \in Handler
      BY DEF IInv, TypeOK
    <3>2. /\ request'[q].pc = request[q].pc /\ request'[q].op = request[q].op
          /\ request'[q].user = request[q].user /\ request'[q].address = request[q].address
          /\ request'[q].chain = request[q].chain /\ request'[q].wallet = request[q].wallet
          /\ request[q].address = a => ~request'[q].fresh
          /\ request'[q].fresh => request[q].fresh
      BY <2>1, OvertakenFacts
    <3>3. ASSUME request'[q].pc = "insert", request'[q].fresh
          PROVE  RowsOf(request[q].address)' = {}
      <4>1. request'[q].address # a /\ RowsOf(request'[q].address) = {}
            /\ request'[q].address = request[q].address
        BY <3>1, <3>2, <3>3 DEF Knows
      <4> QED BY <1>1, <1>3, <4>1 DEF RowsOf
    <3>4. ASSUME request'[q].pc = "update"
          PROVE  /\ request'[q].wallet \in Wallet /\ wallets'[request'[q].wallet] # None
                 /\ request'[q].wallet \in Rows' =>
                      wallets'[request'[q].wallet].address = request'[q].address
      <4>1. /\ request'[q].wallet \in Wallet /\ wallets[request'[q].wallet] # None
            /\ request'[q].wallet \in Rows =>
                 wallets[request'[q].wallet].address = request'[q].address
        BY <3>1, <3>2, <3>4 DEF Knows
      <4>2. request'[q].wallet # w
        BY <4>1 DEF InsertRow
      <4> QED BY <1>1, <4>1, <4>2
    <3>5. /\ request'[q].pc \in {"find", "insert", "load"} =>
               request'[q].address \in Address /\ request'[q].chain \in Chain
          /\ request'[q].op = "link" => request'[q].user \in Registered'
      BY <3>1, <3>2 DEF Knows
    <3> QED BY <3>3, <3>4, <3>5 DEF Knows
  <2>2. CASE /\ request'[q].pc \in {"session", "200", "500"}
             /\ request'[q].op = "link" => request'[q].user \in Registered'
    BY <2>2 DEF Knows
  <2> QED BY <2>1, <2>2
<1> QED BY <1>4, <1>5, <1>6 DEF IInv

LEMMA CreateWalletStep ==
  ASSUME IInv, NEW u \in User, NEW w \in Wallet, NEW a \in Address, NEW c \in Chain,
         CreateWallet(u, w, a, c)
  PROVE  IInv'
<1>1. /\ u \in Registered /\ Free(a, c) /\ InsertRow(w, u, a, c, FALSE)
      /\ request' = Overtaken(a) /\ primary' = primary
  BY DEF CreateWallet
<1>2. Registered' = Registered
  BY <1>1 DEF Registered
<1>3. primary' \in [User -> Address \cup {None}]
  BY <1>1 DEF IInv, TypeOK
<1>4. request' \in [Request -> Handler]
  <2>1. request' = [q \in Request |-> Overtaken(a)[q]]
    BY <1>1 DEF Overtaken
  <2> QED BY <2>1, OvertakenFacts
<1> QED BY <1>1, <1>2, <1>3, <1>4, InsertStep

(* A handler that has inserted its row.                                    *)
LEMMA InsertedStep ==
  ASSUME IInv, NEW r \in Request, NEW w \in Wallet, NEW u \in User, NEW h,
         h = request[r], h.pc = "insert", Free(h.address, h.chain),
         InsertRow(w, u, h.address, h.chain, h.fresh),
         primary' \in [User -> Address \cup {None}],
         u \in Registered', Registered \subseteq Registered',
         NEW g \in Handler, g.pc \in {"session", "200", "500"},
         g.op = "link" => g.user \in Registered',
         request' = [Overtaken(h.address) EXCEPT ![r] = g]
  PROVE  IInv'
<1>1. h.address \in Address /\ h.chain \in Chain /\ h.fresh \in BOOLEAN
  BY DEF IInv, TypeOK, Knows, Handler
<1>2. \A q \in Request : request'[q] = IF q = r THEN g ELSE Overtaken(h.address)[q]
  BY DEF Overtaken
<1>3. request' \in [Request -> Handler]
  <2>1. request' = [q \in Request |-> request'[q]]
    BY DEF Overtaken
  <2>2. \A q \in Request : request'[q] \in Handler
    BY <1>2, OvertakenFacts
  <2> QED BY <2>1, <2>2
<1>4. \A q \in Request :
        \/ request'[q] = Overtaken(h.address)[q]
        \/ /\ request'[q].pc \in {"session", "200", "500"}
           /\ request'[q].op = "link" => request'[q].user \in Registered'
  BY <1>2
<1> QED BY <1>1, <1>3, <1>4, InsertStep

(* The user who signs in for the first time is there from then on.         *)
LEMMA RegisterFacts ==
  ASSUME IInv, NEW r \in Request, NEW u \in User, NEW w \in Wallet, Register(r, u, w)
  PROVE  /\ primary' \in [User -> Address \cup {None}]
         /\ primary'[u] = request[r].address
         /\ \A x \in User : x # u => primary'[x] = primary[x]
         /\ Registered' = Registered \cup {u}
<1>1. /\ primary' = [primary EXCEPT ![u] = request[r].address]
      /\ request[r].address \in Address
  BY DEF Register, InsertUser, IInv, Knows
<1> QED BY <1>1, RegistryAssumption DEF Registered, IInv, TypeOK

LEMMA RegisterStep ==
  ASSUME IInv, NEW r \in Request, NEW u \in User, NEW w \in Wallet, Register(r, u, w)
  PROVE  IInv'
<1> DEFINE h == request[r]
           g == [h EXCEPT !.pc = "session", !.user = u, !.wallet = w]
<1>1. /\ h.pc = "insert" /\ h.op = "login" /\ Free(h.address, h.chain)
      /\ InsertRow(w, u, h.address, h.chain, h.fresh)
      /\ request' = [Overtaken(h.address) EXCEPT ![r] = g]
  BY DEF Register
<1>2. h \in Handler
  BY DEF IInv, TypeOK
<1>3. g \in Handler /\ g.pc = "session" /\ g.op = "login"
  BY <1>1, <1>2 DEF Handler, Active
<1>4. /\ primary' \in [User -> Address \cup {None}]
      /\ Registered \subseteq Registered' /\ u \in Registered'
  BY RegisterFacts
<1> HIDE DEF h, g
<1>5. h = request[r]
  BY DEF h
<1> QED BY <1>1, <1>3, <1>4, <1>5, InsertedStep

LEMMA LinkStep ==
  ASSUME IInv, NEW r \in Request, NEW w \in Wallet, LinkRow(r, w) \/ LinkUnanswered(r, w)
  PROVE  IInv'
<1> DEFINE h == request[r]
<1>1. /\ h.pc = "insert" /\ h.op = "link" /\ Free(h.address, h.chain)
      /\ InsertRow(w, h.user, h.address, h.chain, h.fresh)
      /\ primary' = primary
  BY DEF LinkRow, LinkUnanswered
<1>2. h \in Handler /\ Knows(h)
  BY DEF IInv, TypeOK
<1>3. h.user \in Registered /\ h.user \in User
  BY <1>1, <1>2 DEF Knows, Registered
<1>4. Registered' = Registered /\ primary' \in [User -> Address \cup {None}]
  BY <1>1 DEF Registered, IInv, TypeOK
<1>5. PICK g \in Handler :
        /\ request' = [Overtaken(h.address) EXCEPT ![r] = g]
        /\ g.pc \in {"200", "500"} /\ g.user = h.user
  <2>1. CASE LinkRow(r, w)
    <3> DEFINE g == [h EXCEPT !.pc = "200", !.wallet = w]
    <3>1. g \in Handler /\ g.pc = "200" /\ g.user = h.user
      BY <1>2 DEF Handler, Answer
    <3>2. request' = [Overtaken(h.address) EXCEPT ![r] = g]
      BY <2>1 DEF LinkRow
    <3> HIDE DEF g
    <3> QED BY <3>1, <3>2
  <2>2. CASE LinkUnanswered(r, w)
    <3> DEFINE g == [h EXCEPT !.pc = "500"]
    <3>1. g \in Handler /\ g.pc = "500" /\ g.user = h.user
      BY <1>2 DEF Handler, Answer
    <3>2. request' = [Overtaken(h.address) EXCEPT ![r] = g]
      BY <2>2 DEF LinkUnanswered
    <3> HIDE DEF g
    <3> QED BY <3>1, <3>2
  <2> QED BY <2>1, <2>2
<1> HIDE DEF h
<1>6. h = request[r]
  BY DEF h
<1> QED BY <1>1, <1>3, <1>4, <1>5, <1>6, InsertedStep

-----------------------------------------------------------------------------
(* The step that deletes a row, and the invariant.                         *)

LEMMA DeletedRow ==
  ASSUME IInv, NEW u \in User, NEW w \in Wallet, DeleteWallet(u, w)
  PROVE  /\ w \in Rows /\ Rows' = Rows \ {w}
         /\ wallets'[w] = Gone
         /\ \A x \in Wallet : x # w => wallets'[x] = wallets[x]
         /\ wallets' \in [Wallet -> Row \cup {None, Gone}]
         /\ primary' = primary /\ request' = request
<1>1. /\ w \in Rows /\ wallets' = [wallets EXCEPT ![w] = Gone]
      /\ wallets \in [Wallet -> Row \cup {None, Gone}]
      /\ primary' = primary /\ request' = request
  BY DEF DeleteWallet, IInv, TypeOK
<1>2. /\ wallets'[w] = Gone
      /\ \A x \in Wallet : x # w => wallets'[x] = wallets[x]
      /\ wallets' \in [Wallet -> Row \cup {None, Gone}]
  BY <1>1
<1>3. Rows' = Rows \ {w}
  BY <1>2 DEF Rows
<1> QED BY <1>1, <1>2, <1>3

LEMMA DeleteStep ==
  ASSUME IInv, NEW u \in User, NEW w \in Wallet, DeleteWallet(u, w)
  PROVE  IInv'
<1>1. /\ w \in Rows /\ Rows' = Rows \ {w} /\ wallets'[w] = Gone
      /\ \A x \in Wallet : x # w => wallets'[x] = wallets[x]
      /\ wallets' \in [Wallet -> Row \cup {None, Gone}]
      /\ primary' = primary /\ request' = request
  BY DeletedRow
<1>2. Registered' = Registered
  BY <1>1 DEF Registered
<1>3. \A x \in Rows' : x \in Rows /\ wallets'[x] = wallets[x]
  BY <1>1 DEF Rows
<1>4. TypeOK'
  BY <1>1, <1>2, <1>3 DEF TypeOK, IInv
<1>5. UniqueRows'
  BY <1>3 DEF UniqueRows, IInv
<1>6. ASSUME NEW q \in Request PROVE Knows(request[q])'
  <2>1. Knows(request[q]) /\ request'[q] = request[q]
    BY <1>1 DEF IInv
  <2>2. \A a : RowsOf(a) = {} => RowsOf(a)' = {}
    BY <1>3 DEF RowsOf
  <2>3. \A x \in Wallet : wallets[x] # None => wallets'[x] # None
    BY <1>1, RegistryAssumption
  <2> QED BY <1>2, <1>3, <2>1, <2>2, <2>3 DEF Knows
<1> QED BY <1>4, <1>5, <1>6 DEF IInv

LEMMA Invariance == IInv /\ [Next]_vars => IInv'
<1> SUFFICES ASSUME IInv, [Next]_vars PROVE IInv'
  OBVIOUS
<1>1. CASE UNCHANGED vars
  BY <1>1 DEF vars, IInv, TypeOK, UniqueRows, Knows, Rows, RowsOf, Registered
<1>2. ASSUME NEW r \in Request, Handle(r) PROVE IInv'
  <2>1. CASE \/ FindNone(r) \/ FindUser(r) \/ FindOwner(r) \/ Load(r) \/ CreateSession(r)
             \/ Fails(r) \/ SetPrimary(r) \/ Done(r)
    BY <2>1, FindStep, AnswerStep, SetPrimaryStep, DoneStep
  <2>2. CASE \E w \in Wallet : LinkRow(r, w) \/ LinkUnanswered(r, w)
    BY <2>2, LinkStep
  <2>3. CASE \E u \in User, w \in Wallet : Register(r, u, w) \/ FindWallet(r, u, w)
    BY <2>3, RegisterStep, FindWalletStep
  <2>4. CASE \E a \in Address, c \in Chain :
               StartLogin(r, a, c) \/ \E u \in User : StartLink(r, u, a, c)
    BY <2>4, StartStep
  <2> QED BY <1>2, <2>1, <2>2, <2>3, <2>4 DEF Handle
<1>3. ASSUME NEW u \in User, NEW w \in Wallet,
             DeleteWallet(u, w) \/ \E a \in Address, c \in Chain : CreateWallet(u, w, a, c)
      PROVE  IInv'
  BY <1>3, DeleteStep, CreateWalletStep
<1> QED BY <1>1, <1>2, <1>3 DEF Next

(* The tables and the handlers keep their types, and a row always belongs  *)
(* to a user that is there.                                                *)
THEOREM TypeCorrect == Spec => []TypeOK
<1>1. IInv => TypeOK
  BY DEF IInv
<1> QED BY <1>1, InitIInv, Invariance, PTL DEF Spec

-----------------------------------------------------------------------------
(* What a step may do to the tables.                                       *)

LEMMA WalletsStep ==
  ASSUME IInv, [Next]_vars
  PROVE  \/ wallets' = wallets
         \/ \E w \in Wallet, u \in User, a \in Address, c \in Chain, v \in BOOLEAN :
              /\ Free(a, c) /\ InsertRow(w, u, a, c, v)
              /\ v => RowsOf(a) = {}
         \/ \E u \in User, w \in Wallet : DeleteWallet(u, w)
<1> DEFINE Inserts ==
      \E w \in Wallet, u \in User, a \in Address, c \in Chain, v \in BOOLEAN :
        /\ Free(a, c) /\ InsertRow(w, u, a, c, v)
        /\ v => RowsOf(a) = {}
<1>1. UNCHANGED vars => wallets' = wallets
  BY DEF vars
<1>2. ASSUME NEW r \in Request, NEW w \in Wallet, NEW u \in User, request[r].pc = "insert",
             LET h == request[r]
             IN Free(h.address, h.chain) /\ InsertRow(w, u, h.address, h.chain, h.fresh)
      PROVE  Inserts
  <2>1. /\ request[r].address \in Address /\ request[r].chain \in Chain
        /\ request[r].fresh \in BOOLEAN
        /\ request[r].fresh => RowsOf(request[r].address) = {}
    BY <1>2 DEF IInv, TypeOK, Knows, Handler
  <2> QED BY <1>2, <2>1
<1>3. ASSUME NEW r \in Request, Handle(r) PROVE wallets' = wallets \/ Inserts
  <2>1. ASSUME NEW w \in Wallet, LinkRow(r, w) \/ LinkUnanswered(r, w) PROVE Inserts
    <3>1. request[r].pc = "insert" /\ request[r].op = "link"
      BY <2>1 DEF LinkRow, LinkUnanswered
    <3>2. request[r].user \in User
      BY <3>1 DEF IInv, Knows, Registered
    <3>3. LET h == request[r]
          IN Free(h.address, h.chain) /\ InsertRow(w, h.user, h.address, h.chain, h.fresh)
      BY <2>1 DEF LinkRow, LinkUnanswered
    <3> HIDE DEF Inserts
    <3> QED BY <1>2, <3>1, <3>2, <3>3
  <2>2. ASSUME NEW u \in User, NEW w \in Wallet, Register(r, u, w) PROVE Inserts
    <3>1. /\ request[r].pc = "insert"
          /\ LET h == request[r]
             IN Free(h.address, h.chain) /\ InsertRow(w, u, h.address, h.chain, h.fresh)
      BY <2>2 DEF Register
    <3> HIDE DEF Inserts
    <3> QED BY <1>2, <3>1
  <2> HIDE DEF Inserts
  <2> QED
    BY <1>3, <2>1, <2>2
    DEF Handle, FindNone, FindUser, FindOwner, Load, CreateSession, Fails, SetPrimary, Done,
        FindWallet, StartLogin, StartLink
<1>4. ASSUME NEW u \in User, NEW w \in Wallet, NEW a \in Address, NEW c \in Chain,
             CreateWallet(u, w, a, c)
      PROVE  Inserts
  BY <1>4 DEF CreateWallet
<1> HIDE DEF Inserts
<1>5. \/ wallets' = wallets \/ Inserts
      \/ \E u \in User, w \in Wallet : DeleteWallet(u, w)
  <2>1. CASE \E r \in Request : Handle(r)
    BY <1>3, <2>1
  <2>2. CASE \E u \in User, w \in Wallet :
               DeleteWallet(u, w) \/ \E a \in Address, c \in Chain : CreateWallet(u, w, a, c)
    BY <1>4, <2>2
  <2>3. CASE UNCHANGED vars
    BY <1>1, <2>3
  <2> QED BY <2>1, <2>2, <2>3 DEF Next
<1> QED BY <1>5 DEF Inserts

-----------------------------------------------------------------------------
(* A primary wallet is set to the address of a row of the user's: the      *)
(* UPDATE asks for it again, and the first sign-in inserts user and wallet *)
(* together.                                                               *)
LEMMA PrimaryStep ==
  ASSUME IInv, [Next]_vars, NEW u \in User, primary'[u] # primary[u]
  PROVE  \E w \in Rows' : wallets'[w].user = u /\ wallets'[w].address = primary'[u]
<1>1. PICK r \in Request : Handle(r)
  BY DEF Next, vars, DeleteWallet, CreateWallet
<1>2. SetPrimary(r) \/ \E x \in User, w \in Wallet : Register(r, x, w)
  BY <1>1
  DEF Handle, FindNone, FindUser, FindOwner, Load, CreateSession, Fails, RegisterFails, Done,
      FindWallet, StartLogin, StartLink, LinkRow, LinkUnanswered
<1>3. CASE SetPrimary(r)
  <2>1. /\ request[r].pc = "update" /\ StillThere(r) /\ wallets' = wallets
        /\ primary' = [primary EXCEPT ![request[r].user] = request[r].address]
    BY <1>3 DEF SetPrimary
  <2>2. /\ request[r].wallet \in Rows
        /\ wallets[request[r].wallet].user = request[r].user
        /\ wallets[request[r].wallet].address = request[r].address
    BY <2>1, UpdateFacts
  <2>3. u = request[r].user /\ primary'[u] = request[r].address
    BY <2>1 DEF IInv, TypeOK
  <2>4. Rows' = Rows
    BY <2>1 DEF Rows
  <2> QED BY <2>1, <2>2, <2>3, <2>4
<1>4. ASSUME NEW x \in User, NEW w \in Wallet, Register(r, x, w)
      PROVE  \E v \in Rows' : wallets'[v].user = u /\ wallets'[v].address = primary'[u]
  <2>1. u = x /\ primary'[u] = request[r].address
    BY <1>4, RegisterFacts
  <2>2. /\ InsertRow(w, x, request[r].address, request[r].chain, request[r].fresh)
        /\ request[r].pc = "insert"
    BY <1>4 DEF Register
  <2>3. PICK a \in Address, c \in Chain, v \in BOOLEAN :
          a = request[r].address /\ c = request[r].chain /\ v = request[r].fresh
    BY <2>2 DEF IInv, TypeOK, Knows, Handler
  <2>4. InsertRow(w, x, a, c, v)
    BY <2>2, <2>3
  <2>5. /\ wallets'[w] = [user |-> x, address |-> a, chain |-> c, vetted |-> v]
        /\ Rows' = Rows \cup {w}
    BY <2>4, InsertedRow
  <2>6. w \in Rows' /\ wallets'[w].user = x /\ wallets'[w].address = request[r].address
    BY <2>3, <2>5
  <2> QED BY <2>1, <2>6
<1> QED BY <1>2, <1>3, <1>4

(* set_primary_wallet and the first sign-in set a user's primary wallet    *)
(* only to an address of which the user has a row at that moment.          *)
THEOREM PrimaryOwned == Spec => PrimaryOwnedWhenSet
<1>1. IInv /\ [Next]_vars =>
        [\A u \in User : primary'[u] # primary[u] =>
           \E w \in Rows' : wallets'[w].user = u /\ wallets'[w].address = primary'[u]]_vars
  BY PrimaryStep
<1> QED BY <1>1, InitIInv, Invariance, PTL DEF Spec, PrimaryOwnedWhenSet

-----------------------------------------------------------------------------
LEMMA VettedStep ==
  ASSUME IInv, [Next]_vars, NEW w \in Wallet, w \notin Rows, w \in Rows', wallets'[w].vetted
  PROVE  RowsOf(wallets'[w].address) = {}
<1>1. CASE wallets' = wallets
  BY <1>1 DEF Rows
<1>2. ASSUME NEW x \in Wallet, NEW u \in User, NEW a \in Address, NEW c \in Chain,
             NEW v \in BOOLEAN, Free(a, c), InsertRow(x, u, a, c, v), v => RowsOf(a) = {}
      PROVE  RowsOf(wallets'[w].address) = {}
  <2>1. w = x /\ wallets'[w] = [user |-> u, address |-> a, chain |-> c, vetted |-> v]
    BY <1>2, InsertedRow
  <2> QED BY <1>2, <2>1
<1>3. ASSUME NEW u \in User, NEW x \in Wallet, DeleteWallet(u, x)
      PROVE  RowsOf(wallets'[w].address) = {}
  BY <1>3, DeletedRow
<1> QED BY <1>1, <1>2, <1>3, WalletsStep

(* A sign-in or a link whose lookup still holds adds its row to an address *)
(* that has none, so that rows of several users come from a race only.     *)
THEOREM VettedSole == Spec => VettedIsSole
<1>1. IInv /\ [Next]_vars =>
        [\A w \in Wallet :
           (w \notin Rows /\ w \in Rows' /\ wallets'[w].vetted) =>
             RowsOf(wallets'[w].address) = {}]_vars
  BY VettedStep
<1> QED BY <1>1, InitIInv, Invariance, PTL DEF Spec, VettedIsSole

-----------------------------------------------------------------------------
(* The refinement.                                                         *)

(* The users of the rows of an address on a chain.                         *)
Holders ==
  [k \in Address \X Chain |->
     {wallets[w].user : w \in {v \in RowsOf(k[1]) : wallets[v].chain = k[2]}}]

LEMMA BookInit == Init => Book!Init
<1> SUFFICES ASSUME Init PROVE Book!Init
  OBVIOUS
<1>1. \A a : RowsOf(a) = {}
  BY DEF Init, Rows, RowsOf
<1>2. Holders = [k \in Address \X Chain |-> {}]
  BY <1>1 DEF Holders
<1> QED BY <1>2 DEF Book!Init, Holders

LEMMA InsertTakes ==
  ASSUME IInv, NEW w \in Wallet, NEW u \in User, NEW a \in Address, NEW c \in Chain,
         NEW v \in BOOLEAN, Free(a, c), InsertRow(w, u, a, c, v)
  PROVE  /\ Holders[<<a, c>>] = {}
         /\ Holders' = [Holders EXCEPT ![<<a, c>>] = {u}]
<1>1. /\ wallets'[w] = [user |-> u, address |-> a, chain |-> c, vetted |-> v]
      /\ \A x \in Wallet : x # w => wallets'[x] = wallets[x]
      /\ w \notin Rows /\ Rows' = Rows \cup {w}
  BY InsertedRow
<1>2. Rows \subseteq Wallet
  BY DEF Rows
<1>3. Holders[<<a, c>>] = {}
  BY DEF Holders, Free
<1>4. ASSUME NEW k \in Address \X Chain
      PROVE  Holders'[k] = IF k = <<a, c>> THEN {u} ELSE Holders[k]
  <2>1. PICK b \in Address, d \in Chain : k = <<b, d>>
    OBVIOUS
  <2> DEFINE Old == {x \in RowsOf(b) : wallets[x].chain = d}
             New == {x \in RowsOf(b)' : wallets'[x].chain = d}
  <2>2. Holders[k] = {wallets[x].user : x \in Old} /\ Holders'[k] = {wallets'[x].user : x \in New}
    BY <2>1 DEF Holders
  <2>3. CASE b = a /\ d = c
    <3>1. Old = {} /\ New = {w}
      BY <1>1, <1>2, <2>3 DEF Free, RowsOf
    <3> QED BY <1>1, <2>1, <2>2, <2>3, <3>1
  <2>4. CASE ~(b = a /\ d = c)
    <3>1. Old = New /\ \A x \in Old : wallets'[x] = wallets[x]
      BY <1>1, <1>2, <2>4 DEF RowsOf
    <3>2. k # <<a, c>>
      BY <2>1, <2>4
    <3> QED BY <2>2, <3>1, <3>2
  <2> QED BY <2>3, <2>4
<1>5. Holders' = [k \in Address \X Chain |-> Holders'[k]]
  BY DEF Holders
<1>6. Holders = [k \in Address \X Chain |-> Holders[k]]
  BY DEF Holders
<1> HIDE DEF Holders
<1> QED BY <1>3, <1>4, <1>5, <1>6

LEMMA DeleteGivesUp ==
  ASSUME IInv, NEW u \in User, NEW w \in Wallet, DeleteWallet(u, w)
  PROVE  \E k \in Address \X Chain :
           Holders[k] # {} /\ Holders' = [Holders EXCEPT ![k] = {}]
<1>1. /\ w \in Rows /\ Rows' = Rows \ {w}
      /\ \A x \in Wallet : x # w => wallets'[x] = wallets[x]
  BY DeletedRow
<1>2. Rows \subseteq Wallet
  BY DEF Rows
<1> DEFINE a == wallets[w].address
           c == wallets[w].chain
<1>3. a \in Address /\ c \in Chain
  BY <1>1, RowFacts DEF IInv
<1>4. \A x \in Rows : wallets[x].address = a /\ wallets[x].chain = c => x = w
  BY <1>1 DEF IInv, UniqueRows
<1> HIDE DEF a, c
<1>5. Holders[<<a, c>>] # {}
  BY <1>1, <1>3 DEF Holders, RowsOf, a, c
<1>6. ASSUME NEW k \in Address \X Chain
      PROVE  Holders'[k] = IF k = <<a, c>> THEN {} ELSE Holders[k]
  <2>1. PICK b \in Address, d \in Chain : k = <<b, d>>
    OBVIOUS
  <2> DEFINE Old == {x \in RowsOf(b) : wallets[x].chain = d}
             New == {x \in RowsOf(b)' : wallets'[x].chain = d}
  <2>2. Holders[k] = {wallets[x].user : x \in Old} /\ Holders'[k] = {wallets'[x].user : x \in New}
    BY <2>1 DEF Holders
  <2>3. CASE b = a /\ d = c
    <3>1. New = {}
      BY <1>1, <1>2, <1>4, <2>3 DEF RowsOf
    <3> QED BY <2>1, <2>2, <2>3, <3>1
  <2>4. CASE ~(b = a /\ d = c)
    <3>1. Old = New /\ \A x \in Old : wallets'[x] = wallets[x]
      BY <1>1, <1>2, <2>4 DEF RowsOf, a, c
    <3>2. k # <<a, c>>
      BY <2>1, <2>4
    <3> QED BY <2>2, <3>1, <3>2
  <2> QED BY <2>3, <2>4
<1>7. /\ Holders' = [k \in Address \X Chain |-> Holders'[k]]
      /\ Holders = [k \in Address \X Chain |-> Holders[k]]
  BY DEF Holders
<1> HIDE DEF Holders
<1>8. <<a, c>> \in Address \X Chain /\ Holders' = [Holders EXCEPT ![<<a, c>>] = {}]
  BY <1>3, <1>6, <1>7
<1> QED BY <1>5, <1>8

LEMMA BookStep == IInv /\ [Next]_vars => [Book!Next]_Holders
<1> SUFFICES ASSUME IInv, [Next]_vars PROVE [Book!Next]_Holders
  OBVIOUS
<1>1. CASE wallets' = wallets
  <2>1. Rows' = Rows
    BY <1>1 DEF Rows
  <2> QED BY <1>1, <2>1 DEF Holders, RowsOf
<1>2. ASSUME NEW w \in Wallet, NEW u \in User, NEW a \in Address, NEW c \in Chain,
             NEW v \in BOOLEAN, Free(a, c), InsertRow(w, u, a, c, v)
      PROVE  Book!Next
  <2>1. <<a, c>> \in Address \X Chain
    OBVIOUS
  <2> DEFINE k == <<a, c>>
  <2>2. Holders[k] = {} /\ Holders' = [Holders EXCEPT ![k] = {u}]
    BY <1>2, InsertTakes
  <2> HIDE DEF k
  <2>3. Book!Take(k, u)
    BY <2>2 DEF Book!Take, Holders
  <2>4. k \in Address \X Chain
    BY <2>1 DEF k
  <2> QED BY <2>3, <2>4 DEF Book!Next
<1>3. ASSUME NEW u \in User, NEW w \in Wallet, DeleteWallet(u, w) PROVE Book!Next
  <2>1. PICK k \in Address \X Chain : Holders[k] # {} /\ Holders' = [Holders EXCEPT ![k] = {}]
    BY <1>3, DeleteGivesUp
  <2>2. Book!GiveUp(k)
    BY <2>1 DEF Book!GiveUp, Holders
  <2> QED BY <2>2 DEF Book!Next
<1> QED BY <1>1, <1>2, <1>3, WalletsStep

(* The table keeps the promise of AddressBook: an address on a chain has   *)
(* one holder until that holder deletes it, whoever races for it.          *)
THEOREM ImplementsBook == Spec => AddressBookSpec
<1> QED BY BookInit, BookStep, InitIInv, Invariance, PTL
        DEF Spec, AddressBookSpec, Book!Spec, Holders
====
