------------------------- MODULE StrategyStoreProofs -------------------------
(***************************************************************************)
(* Proofs about StrategyStore, for any users, strategies and requests and  *)
(* any window and limit.                                                   *)
(***************************************************************************)
EXTENDS StrategyStore, FiniteSetTheorems, TLAPS

-----------------------------------------------------------------------------
(* The inductive invariant.                                                *)

(* Which handler is at which await, and that it has its user and a         *)
(* strategy that was created.                                              *)
AtWork(h) ==
  /\ h.pc \in {"load", "fetch", "persist", "save", "insert"} => h.op = "run"
  /\ h.pc = "query" => h.op = "list"
  /\ h.pc = "delete" => h.op = "delete"
  /\ h.pc = "find" => h.op # "delete"
  /\ h.pc # "idle" => h.strategy \in Strategy /\ h.user \in User /\ strategies[h.strategy] # None

IInv ==
  /\ TypeOK
  /\ \A r \in Request : AtWork(request[r])
  /\ NoOrphanBacktests
  /\ AnsweredIsStored

LEMMA Bounds ==
  /\ Window \in Nat /\ MaxTime \in Nat /\ Hour \in Nat \ {0} /\ Limit \in Nat \ {0}
  /\ None \notin User /\ Gone \notin User /\ None # Gone
  BY StrategyAssumption

LEMMA BlankFacts ==
  /\ Blank \in Handler /\ AtWork(Blank) /\ Blank.points = {} /\ Blank.pc = "idle"
  BY Bounds DEF Blank, Handler, AtWork, Prices, Operation

LEMMA InitIInv == Init => IInv
<1> SUFFICES ASSUME Init PROVE IInv
  OBVIOUS
<1>1. request \in [Request -> Handler] /\ \A r \in Request : request[r] = Blank
  BY BlankFacts DEF Init
<1>2. TypeOK
  BY <1>1, BlankFacts, Bounds DEF Init, TypeOK
<1>3. NoOrphanBacktests
  BY DEF Init, NoOrphanBacktests
<1>4. AnsweredIsStored
  BY <1>1, BlankFacts DEF AnsweredIsStored
<1> QED BY <1>1, <1>2, <1>3, <1>4, BlankFacts DEF IInv

-----------------------------------------------------------------------------
(* Steps of a handler that leave strategies and backtests alone.           *)

LEMMA BecomeFacts ==
  ASSUME TypeOK, NEW r \in Request, NEW h \in Handler, Become(r, h)
  PROVE  /\ request' \in [Request -> Handler]
         /\ \A q \in Request : request'[q] = IF q = r THEN h ELSE request[q]
  BY DEF TypeOK, Become

(* What keeps an answered result out of reach of everybody else's steps:   *)
(* the result itself, that the strategy is gone, and the delete that took  *)
(* the result alone.                                                       *)
Accounted(r) ==
  \/ \E b \in backtests[request[r].strategy] : b.by = r
  \/ strategies[request[r].strategy] = Gone
  \/ \E d \in Request : TookAlone(d, r)

(* Who has taken a result alone is never asked again.                      *)
LEMMA StillTook ==
  ASSUME IInv, NEW r \in Request, NEW q \in Request, NEW d \in Request, TookAlone(d, q),
         \A x \in Request : x # r => request'[x] = request[x],
         request[r].pc \in Active \cup {"idle"}, q # r, UNCHANGED strategies
  PROVE  TookAlone(d, q)'
<1>1. d # r
  BY DEF TookAlone, Active
<1>2. request'[d] = request[d] /\ request'[q] = request[q]
  BY <1>1
<1> QED BY <1>2 DEF TookAlone

LEMMA HandlerStep ==
  ASSUME IInv, NEW r \in Request, NEW h \in Handler, Become(r, h), AtWork(h),
         h.points # {} => h.pc = "persist", h.op = "run" => h.pc # "200", h.pc # "204",
         request[r].pc \in Active \cup {"idle"},
         history' \in SUBSET Int, UNCHANGED <<strategies, backtests, now>>
  PROVE  IInv'
<1>1. /\ request' \in [Request -> Handler]
      /\ \A q \in Request : request'[q] = IF q = r THEN h ELSE request[q]
  BY BecomeFacts DEF IInv
<1>2. TypeOK'
  BY <1>1 DEF IInv, TypeOK
<1>3. \A q \in Request : AtWork(request[q])'
  BY <1>1 DEF IInv, AtWork
<1>4. NoOrphanBacktests'
  BY DEF IInv, NoOrphanBacktests
<1>5. AnsweredIsStored'
  <2> SUFFICES ASSUME NEW q \in Request, request'[q].op = "run", request'[q].pc = "200"
               PROVE  Accounted(q)'
    BY DEF AnsweredIsStored, Accounted
  <2>1. q # r /\ request'[q] = request[q]
    BY <1>1
  <2>2. Accounted(q)
    BY <2>1 DEF IInv, AnsweredIsStored, Accounted
  <2>3. ASSUME NEW d \in Request, TookAlone(d, q) PROVE TookAlone(d, q)'
    BY <1>1, <2>1, <2>3, StillTook
  <2> QED BY <2>1, <2>2, <2>3 DEF Accounted
<1> QED BY <1>2, <1>3, <1>4, <1>5 DEF IInv

(* What IInv says of one handler.                                          *)
LEMMA HandlerFacts ==
  ASSUME IInv, NEW r \in Request
  PROVE  /\ request[r] \in Handler /\ AtWork(request[r])
         /\ request[r].points # {} => request[r].pc = "persist"
         /\ request[r].pc = "204" => strategies[request[r].strategy] = Gone
         /\ history \in SUBSET Int /\ now \in 0..MaxTime
         /\ strategies \in [Strategy -> User \cup {None, Gone}]
         /\ backtests \in [Strategy -> SUBSET Result]
  BY DEF IInv, TypeOK

(* A handler that only moves on.                                           *)
LEMMA GoesStep ==
  ASSUME IInv, NEW r \in Request, NEW pc, Goes(r, pc),
         pc \in {"query", "save", "fetch", "404", "500"},
         request[r].pc \in Active, request[r].points = {},
         pc = "query" => request[r].op = "list",
         pc \in {"save", "fetch"} => request[r].op = "run",
         UNCHANGED <<strategies, backtests, history, now>>
  PROVE  IInv'
<1>1. PICK h : h = [request[r] EXCEPT !.pc = pc]
  OBVIOUS
<1>2. request[r] \in Handler /\ AtWork(request[r])
  BY HandlerFacts
<1>3. /\ h \in Handler /\ h.pc = pc /\ h.op = request[r].op /\ h.points = {}
      /\ h.strategy = request[r].strategy /\ h.user = request[r].user
  BY <1>1, <1>2 DEF Handler, Active, Answer
<1>4. AtWork(h)
  BY <1>2, <1>3 DEF AtWork, Active
<1>5. Become(r, h) /\ pc # "200" /\ pc # "204"
  BY <1>1 DEF Goes, Active
<1>6. history' \in SUBSET Int
  BY HandlerFacts
<1> QED BY <1>3, <1>4, <1>5, <1>6, HandlerStep

LEMMA ArriveStep ==
  ASSUME IInv, NEW r \in Request, NEW op \in Operation, NEW u \in User, NEW s \in Strategy,
         NEW p \in Prices, Arrive(r, op, u, s, p)
  PROVE  IInv'
<1>1. PICK pc : pc = IF op = "delete" THEN "delete" ELSE "find"
  OBVIOUS
<1>2. PICK h : h = [Blank EXCEPT !.pc = pc, !.op = op, !.user = u, !.strategy = s, !.prices = p]
  OBVIOUS
<1>3. pc \in Active /\ pc \in {"delete", "find"} /\ (pc = "delete" <=> op = "delete")
  BY <1>1 DEF Active
<1>4. /\ h \in Handler /\ h.pc = pc /\ h.op = op /\ h.user = u /\ h.strategy = s
      /\ h.points = {}
  BY <1>2, <1>3, BlankFacts DEF Handler
<1>6. /\ Become(r, h) /\ request[r].pc = "idle" /\ strategies[s] # None
      /\ UNCHANGED <<strategies, backtests, history, now>>
  BY <1>1, <1>2 DEF Arrive
<1>5. AtWork(h)
  BY <1>3, <1>4, <1>6 DEF AtWork
<1>7. history' \in SUBSET Int
  BY <1>6, HandlerFacts
<1>8. h.pc \notin {"200", "204"}
  BY <1>3, <1>4
<1> QED BY <1>4, <1>5, <1>6, <1>7, <1>8, HandlerStep

LEMMA FindStep ==
  ASSUME IInv, NEW r \in Request, Find(r)
  PROVE  IInv'
<1>1. /\ request[r].pc = "find" /\ request[r].pc \in Active
      /\ UNCHANGED <<strategies, backtests, history, now>>
  BY DEF Find, Active
<1>2. /\ request[r] \in Handler /\ AtWork(request[r]) /\ request[r].points = {}
      /\ now \in 0..MaxTime /\ history \in SUBSET Int
  BY <1>1, HandlerFacts
<1>3. request[r].op \in {"run", "list"}
  BY <1>1, <1>2 DEF AtWork, Handler, Operation
<1>4. CASE Goes(r, "404") \/ (request[r].op = "list" /\ Goes(r, "query"))
  BY <1>1, <1>2, <1>4, GoesStep
<1>5. CASE request[r].op = "run" /\ Goes(r, "save")
  BY <1>1, <1>2, <1>5, GoesStep
<1>6. CASE request[r].op = "run" /\ Become(r, [request[r] EXCEPT !.pc = "load", !.to = now])
  <2>1. PICK h : h = [request[r] EXCEPT !.pc = "load", !.to = now]
    OBVIOUS
  <2>2. /\ h \in Handler /\ h.pc = "load" /\ h.op = "run" /\ h.points = {}
        /\ h.strategy = request[r].strategy /\ h.user = request[r].user
    BY <1>2, <1>6, <2>1 DEF Handler, Active
  <2>3. AtWork(h)
    BY <1>1, <1>2, <2>2 DEF AtWork
  <2>4. Become(r, h) /\ h.pc \notin {"200", "204"}
    BY <1>6, <2>1, <2>2
  <2> QED BY <1>1, <1>2, <2>2, <2>3, <2>4, HandlerStep
<1> QED BY <1>3, <1>4, <1>5, <1>6 DEF Find

(* A backtest that goes on with other prices than it asked for.            *)
LEMMA PricesStep ==
  ASSUME IInv, NEW r \in Request, NEW p \in Prices,
         request[r].pc \in {"load", "fetch", "persist"},
         Become(r, [request[r] EXCEPT !.pc = "save", !.prices = p, !.points = {}]),
         history' \in SUBSET Int, UNCHANGED <<strategies, backtests, now>>
  PROVE  IInv'
<1>1. PICK h : h = [request[r] EXCEPT !.pc = "save", !.prices = p, !.points = {}]
  OBVIOUS
<1>2. request[r] \in Handler /\ AtWork(request[r])
  BY HandlerFacts
<1>3. /\ h \in Handler /\ h.pc = "save" /\ h.op = request[r].op /\ h.points = {}
      /\ h.strategy = request[r].strategy /\ h.user = request[r].user
  BY <1>1, <1>2 DEF Handler, Active
<1>4. AtWork(h)
  BY <1>2, <1>3 DEF AtWork
<1>5. Become(r, h) /\ request[r].pc \in Active /\ h.pc \notin {"200", "204"}
  BY <1>1, <1>3 DEF Active
<1> QED BY <1>3, <1>4, <1>5, HandlerStep

LEMMA LoadStep ==
  ASSUME IInv, NEW r \in Request,
         ReadHistory(r) \/ Fetch(r) \/ Persist(r) \/ HistoryFails(r)
  PROVE  IInv'
<1>1. /\ request[r] \in Handler /\ AtWork(request[r]) /\ history \in SUBSET Int
      /\ request[r].points # {} => request[r].pc = "persist"
      /\ request[r].points \in SUBSET Int
  BY HandlerFacts DEF Handler
<1>2. CASE ReadHistory(r)
  <2>1. /\ request[r].pc = "load" /\ request[r].op = "run" /\ request[r].points = {}
        /\ Goes(r, "save") \/ Goes(r, "fetch")
        /\ UNCHANGED <<strategies, backtests, history, now>>
    BY <1>1, <1>2 DEF ReadHistory, AtWork
  <2>2. request[r].pc \in Active
    BY <2>1 DEF Active
  <2> QED BY <2>1, <2>2, GoesStep
<1>3. CASE Fetch(r)
  <2>1. /\ request[r].pc = "fetch" /\ request[r].points = {} /\ request[r].op = "run"
        /\ UNCHANGED <<strategies, backtests, history, now>>
    BY <1>1, <1>3 DEF Fetch, AtWork
  <2>2. CASE Synthetic(r)
    <3>1. PICK h : h = [request[r] EXCEPT !.pc = "save", !.prices = "synthetic"]
      OBVIOUS
    <3>2. /\ h \in Handler /\ h.pc = "save" /\ h.op = "run" /\ h.points = {}
          /\ h.strategy = request[r].strategy /\ h.user = request[r].user
      BY <1>1, <2>1, <3>1 DEF Handler, Active, Prices
    <3>3. AtWork(h)
      BY <1>1, <2>1, <3>2 DEF AtWork
    <3>4. Become(r, h) /\ request[r].pc \in Active /\ h.pc \notin {"200", "204"}
      BY <2>1, <2>2, <3>1, <3>2 DEF Synthetic, Active
    <3> QED BY <1>1, <2>1, <3>2, <3>3, <3>4, HandlerStep
  <2>3. CASE Become(r, [request[r] EXCEPT !.pc = "persist", !.points = Market(request[r].to)])
    <3>1. PICK h : h = [request[r] EXCEPT !.pc = "persist", !.points = Market(request[r].to)]
      OBVIOUS
    <3>2. Market(request[r].to) \in SUBSET Int
      BY <1>1, Bounds DEF Market, From, Handler
    <3>3. /\ h \in Handler /\ h.pc = "persist" /\ h.op = "run"
          /\ h.strategy = request[r].strategy /\ h.user = request[r].user
      BY <1>1, <2>1, <3>1, <3>2 DEF Handler, Active
    <3>4. AtWork(h)
      BY <1>1, <2>1, <3>3 DEF AtWork
    <3>5. Become(r, h) /\ request[r].pc \in Active /\ h.pc \notin {"200", "204"}
      BY <2>1, <2>3, <3>1, <3>3 DEF Active
    <3> QED BY <1>1, <2>1, <3>3, <3>4, <3>5, HandlerStep
  <2> QED BY <1>3, <2>2, <2>3 DEF Fetch
<1>4. CASE Persist(r)
  <2>1. /\ request[r].pc = "persist" /\ history' = history \cup request[r].points
        /\ Become(r, [request[r] EXCEPT !.pc = "save", !.prices = "fetched", !.points = {}])
        /\ UNCHANGED <<strategies, backtests, now>>
    BY <1>4 DEF Persist
  <2>2. history' \in SUBSET Int /\ "fetched" \in Prices
    BY <1>1, <2>1 DEF Prices
  <2> QED BY <2>1, <2>2, PricesStep
<1>5. CASE HistoryFails(r)
  <2>1. /\ request[r].pc \in {"load", "fetch", "persist"}
        /\ Become(r, [request[r] EXCEPT !.pc = "save", !.prices = "synthetic", !.points = {}])
        /\ UNCHANGED <<strategies, backtests, history, now>>
    BY <1>5 DEF HistoryFails, LoadFails
  <2>2. "synthetic" \in Prices
    BY DEF Prices
  <2> QED BY <1>1, <2>1, <2>2, PricesStep
<1> QED BY <1>2, <1>3, <1>4, <1>5

LEMMA DatabaseFailsStep ==
  ASSUME IInv, NEW r \in Request, DatabaseFails(r)
  PROVE  IInv'
<1>1. /\ request[r].pc \in {"find", "insert", "query"} /\ Goes(r, "500")
      /\ UNCHANGED <<strategies, backtests, history, now>>
  BY DEF DatabaseFails, Fails
<1>2. request[r].pc \in Active /\ request[r].points = {}
  BY <1>1, HandlerFacts DEF Active
<1> QED BY <1>1, <1>2, GoesStep

(* The INSERT of a result begins.                                          *)
LEMMA BeginSaveStep ==
  ASSUME IInv, NEW r \in Request, BeginSave(r)
  PROVE  IInv'
<1>1. PICK s : s = request[r].strategy
  OBVIOUS
<1>2. PICK h : h = [request[r] EXCEPT !.pc = "insert", !.older = Begun(s)]
  OBVIOUS
<1>3. /\ request[r].pc = "save" /\ Become(r, h)
      /\ UNCHANGED <<strategies, backtests, history, now>>
  BY <1>1, <1>2 DEF BeginSave
<1>4. /\ request[r] \in Handler /\ AtWork(request[r]) /\ request[r].points = {}
      /\ history \in SUBSET Int /\ backtests \in [Strategy -> SUBSET Result]
      /\ request[r].pc \in Active
  BY <1>3, HandlerFacts DEF Active
<1>5. s \in Strategy /\ request[r].op = "run"
  BY <1>1, <1>3, <1>4 DEF AtWork
<1>6. Begun(s) \in SUBSET Request
  <2>1. \A b \in backtests[s] : b.by \in Request
    BY <1>4, <1>5 DEF Result
  <2> QED BY <2>1 DEF Begun
<1>7. /\ h \in Handler /\ h.pc = "insert" /\ h.op = "run" /\ h.points = {}
      /\ h.strategy = request[r].strategy /\ h.user = request[r].user
  BY <1>2, <1>4, <1>5, <1>6 DEF Handler, Active
<1>8. AtWork(h) /\ h.pc \notin {"200", "204"}
  BY <1>3, <1>4, <1>7 DEF AtWork
<1> QED BY <1>3, <1>4, <1>7, <1>8, HandlerStep

(* A list that is answered.                                                *)
LEMMA QueryStep ==
  ASSUME IInv, NEW r \in Request, Query(r)
  PROVE  IInv'
<1>1. PICK found : found = IF Owned(r) THEN Newest(request[r].strategy) ELSE {}
  OBVIOUS
<1>2. PICK h : h = [request[r] EXCEPT !.pc = "200", !.listed = {b \in found : b.readable}]
  OBVIOUS
<1>3. /\ request[r].pc = "query" /\ Become(r, h)
      /\ UNCHANGED <<strategies, backtests, history, now>>
  BY <1>1, <1>2 DEF Query
<1>4. /\ request[r] \in Handler /\ AtWork(request[r]) /\ request[r].points = {}
      /\ history \in SUBSET Int /\ backtests \in [Strategy -> SUBSET Result]
  BY <1>3, HandlerFacts
<1>5. request[r].op = "list" /\ request[r].strategy \in Strategy /\ request[r].user \in User
  BY <1>3, <1>4 DEF AtWork
<1>6. {b \in found : b.readable} \in SUBSET Result
  <2>1. backtests[request[r].strategy] \in SUBSET Result
    BY <1>4, <1>5
  <2>2. Newest(request[r].strategy) \subseteq backtests[request[r].strategy]
    BY DEF Newest
  <2>3. found \subseteq Result
    BY <1>1, <2>1, <2>2
  <2> QED BY <2>3
<1>7. /\ h \in Handler /\ h.pc = "200" /\ h.op = "list" /\ h.points = {}
      /\ h.strategy = request[r].strategy /\ h.user = request[r].user
  BY <1>2, <1>4, <1>5, <1>6 DEF Handler, Answer
<1>8. AtWork(h) /\ request[r].pc \in Active /\ h.pc # "204"
  BY <1>3, <1>4, <1>7 DEF AtWork, Active
<1> QED BY <1>3, <1>4, <1>7, <1>8, HandlerStep

LEMMA DeleteStep ==
  ASSUME IInv, NEW r \in Request, DeleteBacktests(r)
  PROVE  IInv'
<1>1. PICK h : h = [request[r] EXCEPT !.matched = backtests[request[r].strategy]]
  OBVIOUS
<1>2. /\ request[r].pc = "delete" /\ Become(r, h)
      /\ UNCHANGED <<strategies, backtests, history, now>>
  BY <1>1 DEF DeleteBacktests
<1>3. /\ request[r] \in Handler /\ AtWork(request[r]) /\ request[r].points = {}
      /\ history \in SUBSET Int /\ backtests \in [Strategy -> SUBSET Result]
  BY <1>2, HandlerFacts
<1>4. request[r].op = "delete" /\ request[r].strategy \in Strategy /\ request[r].user \in User
  BY <1>2, <1>3 DEF AtWork
<1>5. backtests[request[r].strategy] \in SUBSET Result
  BY <1>3, <1>4
<1>6. /\ h \in Handler /\ h.pc = "delete" /\ h.op = "delete" /\ h.points = {}
      /\ h.strategy = request[r].strategy /\ h.user = request[r].user
  BY <1>1, <1>2, <1>3, <1>4, <1>5 DEF Handler
<1>7. AtWork(h) /\ request[r].pc \in Active /\ h.pc # "204"
  BY <1>2, <1>3, <1>6 DEF AtWork, Active
<1> QED BY <1>2, <1>3, <1>6, <1>7, HandlerStep

(* A transaction that is rolled back.                                      *)
LEMMA DeleteFailsStep ==
  ASSUME IInv, NEW r \in Request, DeleteFails(r)
  PROVE  IInv'
<1>1. PICK h : h = [request[r] EXCEPT !.pc = "500", !.matched = {}]
  OBVIOUS
<1>2. /\ request[r].pc = "delete" /\ Become(r, h)
      /\ UNCHANGED <<strategies, backtests, history, now>>
  BY <1>1 DEF DeleteFails, RollBack
<1>3. /\ request[r] \in Handler /\ AtWork(request[r]) /\ request[r].points = {}
      /\ history \in SUBSET Int /\ request[r].pc \in Active
  BY <1>2, HandlerFacts DEF Active
<1>4. /\ h \in Handler /\ h.pc = "500" /\ h.op = request[r].op /\ h.points = {}
      /\ h.strategy = request[r].strategy /\ h.user = request[r].user
  BY <1>1, <1>3 DEF Handler, Answer
<1>5. AtWork(h)
  BY <1>2, <1>3, <1>4 DEF AtWork
<1> QED BY <1>2, <1>3, <1>4, <1>5, HandlerStep

-----------------------------------------------------------------------------
(* Steps that change the tables.                                           *)

(* A result is stored, answered or not.                                    *)
LEMMA SaveStep ==
  ASSUME IInv, NEW r \in Request, NEW pc \in {"200", "500"}, Save(r), Goes(r, pc)
  PROVE  IInv'
<1>1. PICK h : h = [request[r] EXCEPT !.pc = pc]
  OBVIOUS
<1>2. PICK s : s = request[r].strategy
  OBVIOUS
<1>3. PICK readable \in BOOLEAN : backtests' = Added(r, readable)
  BY DEF Save, Readable
<1>4. PICK new : new = [by |-> r, readable |-> readable, older |-> request[r].older]
  OBVIOUS
<1>5. /\ request[r].pc = "insert" /\ strategies[s] \in User
      /\ UNCHANGED <<strategies, history, now>>
  BY <1>2 DEF Save, CanSave
<1>6. /\ request[r] \in Handler /\ AtWork(request[r]) /\ request[r].points = {}
      /\ request[r].older \in SUBSET Request
      /\ backtests \in [Strategy -> SUBSET Result]
  BY <1>5, HandlerFacts DEF Handler
<1>7. /\ s \in Strategy /\ request[r].user \in User /\ request[r].op = "run"
      /\ strategies[s] # None
  BY <1>2, <1>5, <1>6 DEF AtWork
<1>8. new \in Result /\ new.by = r
  BY <1>4, <1>6 DEF Result
<1>9. /\ backtests' \in [Strategy -> SUBSET Result]
      /\ \A x \in Strategy : backtests'[x] = IF x = s THEN backtests[s] \cup {new} ELSE backtests[x]
  BY <1>2, <1>3, <1>4, <1>6, <1>7, <1>8 DEF Added
<1>10. /\ h \in Handler /\ h.pc = pc /\ h.op = "run" /\ h.points = {} /\ h.strategy = s
       /\ h.user = request[r].user
  BY <1>1, <1>2, <1>6, <1>7 DEF Handler, Answer
<1>11. /\ request' \in [Request -> Handler]
       /\ \A q \in Request : request'[q] = IF q = r THEN h ELSE request[q]
  BY <1>1, <1>10, BecomeFacts DEF IInv, Goes
<1>12. TypeOK'
  BY <1>5, <1>9, <1>10, <1>11 DEF IInv, TypeOK
<1>13. \A q \in Request : AtWork(request[q])'
  BY <1>5, <1>7, <1>10, <1>11 DEF IInv, AtWork
<1>14. NoOrphanBacktests'
  BY <1>5, <1>9 DEF IInv, NoOrphanBacktests
<1>15. AnsweredIsStored'
  <2> SUFFICES ASSUME NEW q \in Request, request'[q].op = "run", request'[q].pc = "200"
               PROVE  Accounted(q)'
    BY DEF AnsweredIsStored, Accounted
  <2>1. CASE q = r
    BY <1>7, <1>8, <1>9, <1>10, <1>11, <2>1 DEF Accounted
  <2>2. CASE q # r
    <3>1. request'[q] = request[q] /\ request[q].strategy \in Strategy
      BY <1>11, <2>2 DEF IInv, AtWork
    <3>2. Accounted(q)
      BY <3>1 DEF IInv, AnsweredIsStored, Accounted
    <3>3. backtests[request[q].strategy] \subseteq backtests'[request[q].strategy]
      BY <1>9, <3>1
    <3>4. ASSUME NEW d \in Request, TookAlone(d, q) PROVE TookAlone(d, q)'
      <4>1. request[r].pc \in Active
        BY <1>5 DEF Active
      <4> QED BY <1>5, <1>11, <2>2, <3>4, <4>1, StillTook
    <3> QED BY <1>5, <3>1, <3>2, <3>3, <3>4 DEF Accounted
  <2> QED BY <2>1, <2>2
<1> QED BY <1>12, <1>13, <1>14, <1>15 DEF IInv

(* A delete that commits, answered or not: the owner's takes the strategy  *)
(* and every result, another user's what its first statement found.        *)
LEMMA CommitStep ==
  ASSUME IInv, NEW r \in Request, NEW pc \in {"204", "404", "500"},
         request[r].pc = "delete", Delete(r), Goes(r, pc),
         pc = "204" => Owned(r), pc = "404" => ~Owned(r), UNCHANGED <<history, now>>
  PROVE  IInv'
<1>1. PICK s : s = request[r].strategy
  OBVIOUS
<1>2. PICK kept : kept = IF Owned(r) THEN {} ELSE Left(r)
  OBVIOUS
<1>3. PICK h : h = [request[r] EXCEPT !.pc = pc]
  OBVIOUS
<1>4. /\ Become(r, h) /\ backtests' = [backtests EXCEPT ![s] = kept]
      /\ strategies' = IF Owned(r) THEN [strategies EXCEPT ![s] = Gone] ELSE strategies
  BY <1>1, <1>2, <1>3 DEF Delete, Cascade, Goes
<1>5. /\ request[r] \in Handler /\ AtWork(request[r]) /\ request[r].points = {}
      /\ backtests \in [Strategy -> SUBSET Result]
      /\ strategies \in [Strategy -> User \cup {None, Gone}]
  BY HandlerFacts
<1>6. /\ s \in Strategy /\ request[r].user \in User /\ request[r].op = "delete"
      /\ strategies[s] # None
  BY <1>1, <1>5 DEF AtWork
<1>7. kept \subseteq backtests[s] /\ kept \in SUBSET Result /\ (Owned(r) => kept = {})
  BY <1>1, <1>2, <1>5, <1>6 DEF Left
<1>8. /\ backtests' \in [Strategy -> SUBSET Result]
      /\ \A x \in Strategy : backtests'[x] = IF x = s THEN kept ELSE backtests[x]
  BY <1>4, <1>5, <1>6, <1>7
<1>9. /\ strategies' \in [Strategy -> User \cup {None, Gone}]
      /\ \A x \in Strategy : strategies'[x] = IF x = s /\ Owned(r) THEN Gone ELSE strategies[x]
  BY <1>4, <1>5, <1>6
<1>10. /\ h \in Handler /\ h.pc = pc /\ h.op = "delete" /\ h.points = {}
       /\ h.strategy = s /\ h.user = request[r].user /\ h.matched = request[r].matched
  BY <1>1, <1>3, <1>5, <1>6 DEF Handler, Answer
<1>11. /\ request' \in [Request -> Handler]
       /\ \A q \in Request : request'[q] = IF q = r THEN h ELSE request[q]
  BY <1>4, <1>10, BecomeFacts DEF IInv
<1>12. TypeOK'
  <2>1. \A q \in Request : request'[q].points # {} => request'[q].pc = "persist"
    BY <1>10, <1>11 DEF IInv, TypeOK
  <2>2. ASSUME NEW q \in Request, request'[q].pc = "204"
        PROVE  strategies'[request'[q].strategy] = Gone
    <3>1. CASE q = r
      BY <1>6, <1>9, <1>10, <1>11, <2>2, <3>1
    <3>2. CASE q # r
      <4>1. request'[q] = request[q] /\ request[q].strategy \in Strategy
        BY <1>11, <2>2, <3>2 DEF IInv, AtWork
      <4>2. strategies[request[q].strategy] = Gone
        BY <2>2, <4>1 DEF IInv, TypeOK
      <4> QED BY <1>9, <4>1, <4>2
    <3> QED BY <3>1, <3>2
  <2> QED BY <1>8, <1>9, <1>11, <2>1, <2>2 DEF IInv, TypeOK
<1>13. \A q \in Request : AtWork(request[q])'
  <2>1. \A x \in Strategy : strategies[x] # None => strategies'[x] # None
    BY <1>9, Bounds
  <2>2. AtWork(h)'
    BY <1>6, <1>10, <2>1 DEF AtWork
  <2> QED BY <1>11, <2>1, <2>2 DEF IInv, AtWork
<1>14. NoOrphanBacktests'
  <2> SUFFICES ASSUME NEW x \in Strategy, backtests'[x] # {}
               PROVE  strategies'[x] \in User
    BY DEF NoOrphanBacktests
  <2>1. strategies[x] \in User
    BY <1>7, <1>8 DEF IInv, NoOrphanBacktests
  <2>2. strategies'[x] = strategies[x]
    BY <1>7, <1>8, <1>9
  <2> QED BY <2>1, <2>2
<1>15. AnsweredIsStored'
  <2> SUFFICES ASSUME NEW q \in Request, request'[q].op = "run", request'[q].pc = "200"
               PROVE  Accounted(q)'
    BY DEF AnsweredIsStored, Accounted
  <2>1. q # r /\ request'[q] = request[q] /\ request[q].strategy \in Strategy
    BY <1>10, <1>11 DEF IInv, AtWork
  <2>2. Accounted(q)
    BY <2>1 DEF IInv, AnsweredIsStored, Accounted
  <2>3. CASE request[q].strategy = s /\ Owned(r)
    BY <1>9, <2>1, <2>3 DEF Accounted
  <2>4. CASE ~(request[q].strategy = s /\ Owned(r))
    <3>1. strategies'[request[q].strategy] = strategies[request[q].strategy]
      BY <1>9, <2>1, <2>4
    <3>2. ASSUME NEW d \in Request, TookAlone(d, q) PROVE TookAlone(d, q)'
      <4>1. d # r
        BY <3>2 DEF TookAlone
      <4>2. request'[d] = request[d] /\ request[d].strategy = request[q].strategy
        BY <1>11, <3>2, <4>1 DEF TookAlone
      <4> QED BY <2>1, <3>1, <3>2, <4>2 DEF TookAlone
    <3>3. CASE \E b \in backtests[request[q].strategy] : b.by = q
      <4>1. PICK b \in backtests[request[q].strategy] : b.by = q
        BY <3>3
      <4>2. CASE b \in backtests'[request[q].strategy]
        BY <2>1, <4>1, <4>2 DEF Accounted
      <4>3. CASE b \notin backtests'[request[q].strategy]
        <5>1. request[q].strategy = s /\ ~Owned(r)
          BY <1>8, <2>1, <2>4, <4>1, <4>3
        <5>2. b \in request[r].matched
          <6>1. b \in backtests[s] /\ b \notin kept
            BY <1>6, <1>8, <4>1, <4>3, <5>1
          <6>2. kept = backtests[s] \ request[r].matched
            BY <1>1, <1>2, <5>1 DEF Left
          <6> QED BY <6>1, <6>2
        <5>3. request[r].user # strategies[s] /\ pc # "204"
          BY <1>1, <5>1 DEF Owned
        <5>4. TookAlone(r, q)'
          BY <1>10, <1>11, <2>1, <3>1, <4>1, <5>1, <5>2, <5>3 DEF TookAlone
        <5> QED BY <5>4 DEF Accounted
      <4> QED BY <4>2, <4>3
    <3> QED BY <2>1, <2>2, <3>1, <3>2, <3>3 DEF Accounted
  <2> QED BY <2>3, <2>4
<1> QED BY <1>12, <1>13, <1>14, <1>15 DEF IInv

(* No handler knows of a strategy before it is created.                    *)
LEMMA CreateStep ==
  ASSUME IInv, NEW u \in User, NEW s \in Strategy, CreateStrategy(u, s)
  PROVE  IInv'
<1>1. /\ strategies[s] = None /\ strategies' = [strategies EXCEPT ![s] = u]
      /\ UNCHANGED <<backtests, history, request, now>>
  BY DEF CreateStrategy
<1>2. strategies' \in [Strategy -> User \cup {None, Gone}] /\ u # None
  BY <1>1, Bounds DEF IInv, TypeOK
<1>3. ASSUME NEW q \in Request, request[q].pc # "idle"
      PROVE  /\ request[q].strategy \in Strategy
             /\ strategies'[request[q].strategy] = strategies[request[q].strategy]
  BY <1>1, <1>3 DEF IInv, TypeOK, AtWork
<1>4. TypeOK'
  <2>1. \A q \in Request : request[q].pc = "204" => strategies'[request[q].strategy] = Gone
    BY <1>3 DEF IInv, TypeOK
  <2> QED BY <1>1, <1>2, <2>1 DEF IInv, TypeOK
<1>5. NoOrphanBacktests'
  BY <1>1 DEF IInv, NoOrphanBacktests, TypeOK
<1>6. AnsweredIsStored'
  <2> SUFFICES ASSUME NEW q \in Request, request[q].op = "run", request[q].pc = "200"
               PROVE  Accounted(q)'
    BY <1>1 DEF AnsweredIsStored, Accounted
  <2>1. Accounted(q)
    BY DEF IInv, AnsweredIsStored, Accounted
  <2>2. ASSUME NEW d \in Request, TookAlone(d, q) PROVE TookAlone(d, q)'
    <3>1. request[d].pc # "idle"
      BY <2>2 DEF TookAlone
    <3> QED BY <1>1, <1>3, <2>2, <3>1 DEF TookAlone
  <2> QED BY <1>1, <1>3, <2>1, <2>2 DEF Accounted
<1>7. \A q \in Request : AtWork(request[q])'
  BY <1>1, <1>3 DEF IInv, AtWork
<1> QED BY <1>4, <1>5, <1>6, <1>7 DEF IInv

(* The clock, fetch_prices, and steps of nothing.                          *)
LEMMA OtherStep ==
  ASSUME IInv, FetchPrices \/ Tick \/ UNCHANGED vars
  PROVE  IInv'
<1>1. UNCHANGED <<strategies, backtests, request>>
  BY DEF FetchPrices, Tick, vars
<1>2. now' \in 0..MaxTime
  BY Bounds DEF IInv, TypeOK, FetchPrices, Tick, vars
<1>3. history' \in SUBSET Int
  <2>1. ASSUME NEW to \in 0..now PROVE Market(to) \in SUBSET Int
    BY <2>1, Bounds DEF IInv, TypeOK, Market, From
  <2>2. CASE FetchPrices
    BY <2>1, <2>2 DEF IInv, TypeOK, FetchPrices
  <2> QED BY <2>2 DEF IInv, TypeOK, Tick, vars
<1>4. TypeOK'
  BY <1>1, <1>2, <1>3 DEF IInv, TypeOK
<1>5. NoOrphanBacktests' /\ \A q \in Request : AtWork(request[q])'
  BY <1>1 DEF IInv, NoOrphanBacktests, AtWork
<1>6. AnsweredIsStored'
  BY <1>1 DEF IInv, AnsweredIsStored, TookAlone
<1> QED BY <1>4, <1>5, <1>6 DEF IInv

LEMMA Inductive == IInv /\ [Next]_vars => IInv'
<1> SUFFICES ASSUME IInv, [Next]_vars PROVE IInv'
  OBVIOUS
<1>1. CASE \E u \in User, s \in Strategy : CreateStrategy(u, s)
  BY <1>1, CreateStep
<1>2. CASE \E r \in Request, op \in Operation, u \in User, s \in Strategy, p \in Prices :
             Arrive(r, op, u, s, p)
  BY <1>2, ArriveStep
<1>3. CASE \E r \in Request : Handle(r)
  <2> SUFFICES ASSUME NEW r \in Request, Handle(r) PROVE IInv'
    BY <1>3
  <2>1. CASE SaveBacktest(r) \/ SaveUnanswered(r)
    <3>1. Save(r) /\ (Goes(r, "200") \/ Goes(r, "500"))
      BY <2>1 DEF SaveBacktest, SaveUnanswered, Fails
    <3> QED BY <3>1, SaveStep
  <2>2. CASE CommitDelete(r)
    <3>1. /\ request[r].pc = "delete" /\ Delete(r) /\ UNCHANGED <<history, now>>
          /\ (Owned(r) /\ Goes(r, "204")) \/ (~Owned(r) /\ Goes(r, "404"))
      BY <2>2 DEF CommitDelete, Verdict
    <3> QED BY <3>1, CommitStep
  <2>3. CASE CommitUnanswered(r)
    <3>1. request[r].pc = "delete" /\ Delete(r) /\ Goes(r, "500") /\ UNCHANGED <<history, now>>
      BY <2>3 DEF CommitUnanswered, Fails
    <3> QED BY <3>1, CommitStep
  <2> QED BY <2>1, <2>2, <2>3, FindStep, LoadStep, DatabaseFailsStep, BeginSaveStep, QueryStep,
             DeleteStep, DeleteFailsStep DEF Handle
<1>4. CASE FetchPrices \/ Tick \/ UNCHANGED vars
  BY <1>4, OtherStep
<1> QED BY <1>1, <1>2, <1>3, <1>4 DEF Next

LEMMA Invariance == Spec => []IInv
BY InitIInv, Inductive, PTL DEF Spec

-----------------------------------------------------------------------------
(* The theorems.                                                           *)

(* Every table and handler keeps its type: what a list answers are results *)
(* of the table, and points wait only for the INSERT of the history.       *)
THEOREM TypeCorrect == Spec => []TypeOK
<1>1. IInv => TypeOK
  BY DEF IInv
<1> QED BY <1>1, Invariance, PTL

(* However inserts and the two statements of deletes interleave, no        *)
(* backtest outlives its strategy.                                         *)
THEOREM NoOrphans == Spec => []NoOrphanBacktests
<1>1. IInv => NoOrphanBacktests
  BY DEF IInv
<1> QED BY <1>1, Invariance, PTL

(* run_backtest answers 200 only for a result that is stored, and however  *)
(* deletes fail or lose their answers it stays as long as its strategy,    *)
(* but for the delete of another user whose first statement found it.      *)
THEOREM AnsweredStored == Spec => []AnsweredIsStored
<1>1. IInv => AnsweredIsStored
  BY DEF IInv
<1> QED BY <1>1, Invariance, PTL

(* Whatever the table of prices and Coingecko do, a backtest that asked    *)
(* them goes on to be stored.                                              *)
THEOREM PricesNeverRefused == Spec => PricesNeverRefuse
<1> DEFINE Loading == {"load", "fetch", "persist"}
           Kept == \A r \in Request : request[r].pc \in Loading =>
                     request'[r].pc \in Loading \cup {"save"}
<1>1. IInv /\ [Next]_vars => Kept
  <2> SUFFICES ASSUME IInv, [Next]_vars, NEW r \in Request, request[r].pc \in Loading
               PROVE  request'[r].pc \in Loading \cup {"save"}
    BY DEF Kept
  <2>1. request \in [Request -> Handler]
    BY DEF IInv, TypeOK
  <2>2. CASE request'[r] = request[r]
    BY <2>2
  <2>3. ASSUME NEW q \in Request, q # r, \E h : Become(q, h)
        PROVE  request'[r] = request[r]
    BY <2>1, <2>3 DEF Become
  <2>4. CASE Next /\ request'[r] # request[r]
    <3>1. PICK q \in Request : Handle(q) \/ \E op \in Operation, u \in User, s \in Strategy, p \in Prices :
                                               Arrive(q, op, u, s, p)
      BY <2>4 DEF Next, CreateStrategy, FetchPrices, Tick
    <3>2. \E h : Become(q, h)
      BY <3>1 DEF Handle, Arrive, Find, ReadHistory, Fetch, Persist, HistoryFails, BeginSave,
                  SaveBacktest, SaveUnanswered, DatabaseFails, Query, DeleteBacktests,
                  CommitDelete, CommitUnanswered, DeleteFails, Goes, Fails, LoadFails, Synthetic
    <3>3. q = r
      BY <2>3, <2>4, <3>2
    <3>4. ReadHistory(r) \/ Fetch(r) \/ Persist(r) \/ HistoryFails(r)
      BY <3>1, <3>3 DEF Handle, Arrive, Find, BeginSave, Save, SaveBacktest, SaveUnanswered,
                        DatabaseFails, Query, DeleteBacktests, CommitDelete, CommitUnanswered,
                        DeleteFails
    <3>5. CASE ReadHistory(r)
      BY <2>1, <3>5 DEF ReadHistory, Goes, Become, Handler
    <3>6. CASE Fetch(r)
      BY <2>1, <3>6 DEF Fetch, Synthetic, Become, Handler
    <3>7. CASE Persist(r)
      BY <2>1, <3>7 DEF Persist, Become, Handler
    <3>8. CASE HistoryFails(r)
      BY <2>1, <3>8 DEF HistoryFails, LoadFails, Become, Handler
    <3> QED BY <3>4, <3>5, <3>6, <3>7, <3>8
  <2>5. CASE UNCHANGED vars
    BY <2>5 DEF vars
  <2> QED BY <2>2, <2>4, <2>5
<1>2. Kept => (\A r \in Request : request[r].pc \in {"load", "fetch", "persist"} =>
                 request'[r].pc \in {"load", "fetch", "persist", "save"})
  BY DEF Kept
<1>3. IInv /\ [Next]_vars =>
        (\A r \in Request : request[r].pc \in {"load", "fetch", "persist"} =>
           request'[r].pc \in {"load", "fetch", "persist", "save"})
  BY <1>1, <1>2
<1> QED BY <1>3, Invariance, PTL DEF Spec, PricesNeverRefuse

(* ORDER BY completed_at DESC LIMIT: with any limit of at least one the    *)
(* result whose INSERT began last is in a list, in whatever order INSERTs  *)
(* commit, unless reading it back fails.                                   *)
THEOREM NewestListed == Spec => ListsNewest
<1> DEFINE Right(r) ==
      (request[r].pc = "query" /\ request'[r].pc = "200" /\ Owned(r)) =>
        LET all == backtests[request[r].strategy]
            got == request'[r].listed
        IN /\ got \subseteq all
           /\ \A b \in all : b.readable /\ (\A x \in all : b.by \notin x.older) => b \in got
<1>1. ASSUME IInv, [Next]_vars, NEW r \in Request
      PROVE  Right(r)
  <2> SUFFICES ASSUME request[r].pc = "query", request'[r].pc = "200", Owned(r)
               PROVE  LET all == backtests[request[r].strategy]
                          got == request'[r].listed
                      IN /\ got \subseteq all
                         /\ \A b \in all :
                              b.readable /\ (\A x \in all : b.by \notin x.older) => b \in got
    BY DEF Right
  <2>1. request \in [Request -> Handler]
    BY <1>1 DEF IInv, TypeOK
  <2>2. request'[r] # request[r]
    OBVIOUS
  <2>3. ASSUME NEW q \in Request, q # r, \E h : Become(q, h)
        PROVE  request'[r] = request[r]
    BY <2>1, <2>3 DEF Become
  <2>4. PICK q \in Request : Handle(q) \/ \E op \in Operation, u \in User, s \in Strategy, p \in Prices :
                                             Arrive(q, op, u, s, p)
    BY <1>1, <2>2 DEF Next, CreateStrategy, FetchPrices, Tick, vars
  <2>5. \E h : Become(q, h)
    BY <2>4 DEF Handle, Arrive, Find, ReadHistory, Fetch, Persist, HistoryFails, BeginSave,
                SaveBacktest, SaveUnanswered, DatabaseFails, Query, DeleteBacktests,
                CommitDelete, CommitUnanswered, DeleteFails, Goes, Fails, LoadFails, Synthetic
  <2>6. q = r
    BY <2>2, <2>3, <2>5
  <2>7. Query(r)
    <3>1. Query(r) \/ DatabaseFails(r)
      BY <2>4, <2>6 DEF Handle, Arrive, Find, ReadHistory, Fetch, Persist, HistoryFails,
                        BeginSave, Save, SaveBacktest, SaveUnanswered, DeleteBacktests,
                        CommitDelete, CommitUnanswered, DeleteFails
    <3>2. ~DatabaseFails(r)
      BY <2>1 DEF DatabaseFails, Fails, Goes, Become, Handler
    <3> QED BY <3>1, <3>2
  <2>8. PICK s : s = request[r].strategy
    OBVIOUS
  <2>9. request'[r].listed = {b \in Newest(s) : b.readable}
    BY <2>1, <2>7, <2>8 DEF Query, Become, Handler
  <2>10. ASSUME NEW b \in backtests[s], \A x \in backtests[s] : b.by \notin x.older
         PROVE  b \in Newest(s)
    <3>1. {x \in backtests[s] : b.by \in x.older} = {}
      BY <2>10
    <3>2. Cardinality({x \in backtests[s] : b.by \in x.older}) = 0
      BY <3>1, FS_EmptySet
    <3> QED BY <3>2, Bounds DEF Newest
  <2> QED BY <2>8, <2>9, <2>10 DEF Newest
<1>2. IInv /\ [Next]_vars => \A r \in Request : Right(r)
  BY <1>1
<1> QED BY <1>2, Invariance, PTL DEF Spec, ListsNewest, Right
=============================================================================
