--------------------------- MODULE StrategyStore ---------------------------
(***************************************************************************)
(* Strategies, their backtests and the price history they run on:          *)
(* backend/api/src/routes/strategies.rs with strategy_repository.rs,       *)
(* services/history.rs and price_history_repository.rs.                    *)
(*                                                                         *)
(* A request's actions are what its handler does between two awaits, the   *)
(* begin and the end of an INSERT, and the two statements and the commit   *)
(* of the deleting transaction.  A result is told apart by the request     *)
(* that stored it, and its completed_at by the results that are older;     *)
(* what is computed is the module Backtest.  The history is that of one    *)
(* symbol, the rows of chain 0, which only load_prices_from_history        *)
(* writes: here and in bin/fetch_prices.                                   *)
(***************************************************************************)
EXTENDS Integers, FiniteSets

CONSTANTS
  User,
  Strategy,   \* ids, of which each is created once
  Request,
  None, Gone,
  Window,     \* the days of a request
  Hour,       \* Coingecko's points lie on multiples of it
  Limit,      \* of a list: between 1 and 20
  MaxTime     \* bound: the clock stops here

ASSUME StrategyAssumption ==
  /\ IsFiniteSet(Request) /\ None \notin User /\ Gone \notin User /\ None # Gone
  /\ Window \in Nat /\ Hour \in Nat \ {0} /\ Limit \in Nat \ {0} /\ MaxTime \in Nat

VARIABLES
  strategies,  \* table strategies: the user of each, None before and Gone after
  backtests,   \* table strategy_backtests of each strategy
  history,     \* times of the rows of table price_history
  request,     \* the handlers
  now

vars == <<strategies, backtests, history, request, now>>

Prices == {"given", "stored", "fetched", "synthetic"}
Result == [by : Request, readable : BOOLEAN, older : SUBSET Request]

Active == {"find", "load", "fetch", "persist", "save", "insert", "delete", "query"}
Answer == {"200", "204", "404", "500"}
Operation == {"run", "delete", "list"}

(* to is the time of the read; points and listed are what was fetched or   *)
(* answered; older are the requests whose INSERT began before; matched is  *)
(* what the DELETE of the backtests found, and nothing after a rollback.   *)
Handler ==
  [pc : {"idle"} \cup Active \cup Answer, op : Operation,
   user : User \cup {None}, strategy : Strategy \cup {None}, prices : Prices,
   to : 0..MaxTime, points : SUBSET Int, older : SUBSET Request,
   matched : SUBSET Result, listed : SUBSET Result]

Blank ==
  [pc |-> "idle", op |-> "run", user |-> None, strategy |-> None, prices |-> "given",
   to |-> 0, points |-> {}, older |-> {}, matched |-> {}, listed |-> {}]

Init ==
  /\ strategies = [s \in Strategy |-> None]
  /\ backtests = [s \in Strategy |-> {}]
  /\ history = {}
  /\ request = [r \in Request |-> Blank]
  /\ now = 0

Become(r, h) == request' = [request EXCEPT ![r] = h]
Goes(r, pc) == Become(r, [request[r] EXCEPT !.pc = pc])
Fails(r) == Goes(r, "500")
Owned(r) == strategies[request[r].strategy] = request[r].user

-----------------------------------------------------------------------------
CreateStrategy(u, s) ==
  /\ strategies[s] = None
  /\ strategies' = [strategies EXCEPT ![s] = u]
  /\ UNCHANGED <<backtests, history, request, now>>

(* A request of a user for any strategy that was ever there; a backtest    *)
(* brings its prices along or names a symbol and days.                     *)
Arrive(r, op, u, s, p) ==
  /\ request[r].pc = "idle" /\ strategies[s] # None
  /\ p \in {"given", "stored"} /\ (op # "run" => p = "given")
  /\ Become(r, [Blank EXCEPT !.pc = IF op = "delete" THEN "delete" ELSE "find",
                             !.op = op, !.user = u, !.strategy = s, !.prices = p])
  /\ UNCHANGED <<strategies, backtests, history, now>>

(* run_backtest and list_backtests look the strategy up first.             *)
Find(r) ==
  /\ request[r].pc = "find"
  /\ IF ~Owned(r) THEN Goes(r, "404")
     ELSE IF request[r].op = "list" THEN Goes(r, "query")
     ELSE IF request[r].prices = "given" THEN Goes(r, "save")
     ELSE Become(r, [request[r] EXCEPT !.pc = "load", !.to = now])
  /\ UNCHANGED <<strategies, backtests, history, now>>

-----------------------------------------------------------------------------
(* load_prices_from_history.                                               *)

Synthetic(r) == Become(r, [request[r] EXCEPT !.pc = "save", !.prices = "synthetic"])

From(to) == to - Window
InWindow(to, t) == From(to) <= t /\ t <= to

(* The rows between from and to, by their first and last.                  *)
Covered(to) ==
  LET rows == {t \in history : InWindow(to, t)}
  IN \E first, last \in rows :
       /\ \A t \in rows : first <= t /\ t <= last
       /\ first <= From(to) /\ last >= to - Hour

ReadHistory(r) ==
  /\ request[r].pc = "load"
  /\ IF Covered(request[r].to) THEN Goes(r, "save") ELSE Goes(r, "fetch")
  /\ UNCHANGED <<strategies, backtests, history, now>>

(* What Coingecko has between from and to.                                 *)
Market(to) == {t \in From(to)..to : t % Hour = 0}

(* Coingecko answers its points, or none.                                  *)
Fetch(r) ==
  /\ request[r].pc = "fetch"
  /\ \E points \in {Market(request[r].to), {}} :
       IF points = {} THEN Synthetic(r)
       ELSE Become(r, [request[r] EXCEPT !.pc = "persist", !.points = points])
  /\ UNCHANGED <<strategies, backtests, history, now>>

Persist(r) ==
  /\ request[r].pc = "persist"
  /\ history' = history \cup request[r].points
  /\ Become(r, [request[r] EXCEPT !.pc = "save", !.prices = "fetched", !.points = {}])
  /\ UNCHANGED <<strategies, backtests, now>>

(* Mutant: the error of the price source is answered.                      *)
BugLoadFails(r) == Fails(r)

(* The table cannot be read, Coingecko does not answer, or what it         *)
(* answered cannot be stored.                                              *)
LoadFails(r) == Become(r, [request[r] EXCEPT !.pc = "save", !.prices = "synthetic", !.points = {}])

HistoryFails(r) ==
  /\ request[r].pc \in {"load", "fetch", "persist"}
  /\ LoadFails(r)
  /\ UNCHANGED <<strategies, backtests, history, now>>

-----------------------------------------------------------------------------
(* Mutant: a result is stored though its strategy is gone.                 *)
BugSaveUnchecked(r) == TRUE

(* strategy_backtests references strategies.                               *)
CanSave(r) == strategies[request[r].strategy] \in User

(* A curve with a point that is no number is stored with nulls and cannot  *)
(* be parsed again.  Prices with a 0 can make one (ZeroSpoils of Backtest),*)
(* and all that are read from price_history are 0: they are NUMERIC, and   *)
(* reading them as f64 fails.  Synthetic prices are above 0.               *)
Readable(p) == IF p = "synthetic" THEN {TRUE} ELSE BOOLEAN

Added(r, readable) ==
  [backtests EXCEPT ![request[r].strategy] =
     @ \cup {[by |-> r, readable |-> readable, older |-> request[r].older]}]

(* completed_at is NOW(), the begin of the statement.                      *)
Begun(s) ==
  {b.by : b \in backtests[s]}
    \cup {q \in Request : request[q].pc = "insert" /\ request[q].strategy = s}

BeginSave(r) ==
  /\ request[r].pc = "save"
  /\ Become(r, [request[r] EXCEPT !.pc = "insert", !.older = Begun(request[r].strategy)])
  /\ UNCHANGED <<strategies, backtests, history, now>>

(* The INSERT commits, and its answer arrives or is lost.                  *)
Save(r) ==
  /\ request[r].pc = "insert" /\ CanSave(r)
  /\ \E readable \in Readable(request[r].prices) : backtests' = Added(r, readable)
  /\ UNCHANGED <<strategies, history, now>>

SaveBacktest(r) == Save(r) /\ Goes(r, "200")
SaveUnanswered(r) == Save(r) /\ Fails(r)

(* A query fails, the INSERT also when the strategy is gone.               *)
DatabaseFails(r) ==
  /\ request[r].pc \in {"find", "insert", "query"}
  /\ Fails(r)
  /\ UNCHANGED <<strategies, backtests, history, now>>

-----------------------------------------------------------------------------
(* Mutant: ORDER BY completed_at ASC.                                      *)
BugOldestFirst(s) ==
  {b \in backtests[s] : Cardinality({x \in backtests[s] : x.by \in b.older}) < Limit}

Newest(s) ==
  {b \in backtests[s] : Cardinality({x \in backtests[s] : b.by \in x.older}) < Limit}

(* The rows are joined with the strategies of the user.                    *)
Query(r) ==
  /\ request[r].pc = "query"
  /\ LET found == IF Owned(r) THEN Newest(request[r].strategy) ELSE {}
     IN Become(r, [request[r] EXCEPT !.pc = "200", !.listed = {b \in found : b.readable}])
  /\ UNCHANGED <<strategies, backtests, history, now>>

(* The transaction deletes the backtests by the id of the strategy alone.  *)
DeleteBacktests(r) ==
  /\ request[r].pc = "delete" /\ request[r].matched = {}
  /\ backtests[request[r].strategy] # {}
  /\ Become(r, [request[r] EXCEPT !.matched = backtests[request[r].strategy]])
  /\ UNCHANGED <<strategies, backtests, history, now>>

Left(r) == backtests[request[r].strategy] \ request[r].matched

(* Mutant: the foreign key does not cascade.                               *)
BugNoCascade(r) == Left(r)

(* ON DELETE CASCADE takes what was stored in between.                     *)
Cascade(r) == {}

(* Then it deletes the strategy by id and user, and commits either way.    *)
Delete(r) ==
  LET s == request[r].strategy
  IN IF Owned(r)
       THEN /\ strategies' = [strategies EXCEPT ![s] = Gone]
            /\ backtests' = [backtests EXCEPT ![s] = Cascade(r)]
       ELSE /\ backtests' = [backtests EXCEPT ![s] = Left(r)]
            /\ UNCHANGED strategies

(* Mutant: the answer does not ask whether a strategy was deleted.         *)
BugAlwaysDeleted(r) == "204"

Verdict(r) == IF Owned(r) THEN "204" ELSE "404"

CommitDelete(r) ==
  /\ request[r].pc = "delete"
  /\ Delete(r)
  /\ Goes(r, Verdict(r))
  /\ UNCHANGED <<history, now>>

(* The transaction commits and its answer is lost.                         *)
CommitUnanswered(r) ==
  /\ request[r].pc = "delete"
  /\ Delete(r)
  /\ Fails(r)
  /\ UNCHANGED <<history, now>>

(* Mutant: the two statements are no transaction.                          *)
BugNoTransaction(r) == backtests' = [backtests EXCEPT ![request[r].strategy] = Left(r)]

RollBack(r) == UNCHANGED backtests

(* A statement or the commit fails.                                        *)
DeleteFails(r) ==
  /\ request[r].pc = "delete"
  /\ RollBack(r)
  /\ Become(r, [request[r] EXCEPT !.pc = "500", !.matched = {}])
  /\ UNCHANGED <<strategies, history, now>>

(* bin/fetch_prices, a process of its own, loads the history of the symbol *)
(* as a backtest does; until its INSERT commits it changes nothing.        *)
FetchPrices ==
  /\ \E to \in 0..now : history' = history \cup Market(to)
  /\ UNCHANGED <<strategies, backtests, request, now>>

Tick ==
  /\ now < MaxTime
  /\ now' = now + 1
  /\ UNCHANGED <<strategies, backtests, history, request>>

Handle(r) ==
  \/ Find(r) \/ ReadHistory(r) \/ Fetch(r) \/ Persist(r) \/ HistoryFails(r)
  \/ BeginSave(r) \/ SaveBacktest(r) \/ SaveUnanswered(r) \/ DatabaseFails(r) \/ Query(r)
  \/ DeleteBacktests(r) \/ CommitDelete(r) \/ CommitUnanswered(r) \/ DeleteFails(r)

Next ==
  \/ \E u \in User, s \in Strategy : CreateStrategy(u, s)
  \/ \E r \in Request, op \in Operation, u \in User, s \in Strategy, p \in Prices :
       Arrive(r, op, u, s, p)
  \/ \E r \in Request : Handle(r)
  \/ FetchPrices
  \/ Tick

Spec == Init /\ [][Next]_vars

-----------------------------------------------------------------------------
(* Properties.                                                             *)

(* Tables and handlers have their shape, points wait only for their        *)
(* INSERT, and 204 is answered only when the strategy is gone.             *)
TypeOK ==
  /\ strategies \in [Strategy -> User \cup {None, Gone}]
  /\ backtests \in [Strategy -> SUBSET Result]
  /\ history \in SUBSET Int
  /\ request \in [Request -> Handler]
  /\ \A r \in Request :
       /\ request[r].points # {} => request[r].pc = "persist"
       /\ request[r].pc = "204" => strategies[request[r].strategy] = Gone
  /\ now \in 0..MaxTime

(* No backtest is kept without its strategy, in whatever order results are *)
(* stored, deletes begin and deletes commit.                               *)
NoOrphanBacktests ==
  \A s \in Strategy : backtests[s] # {} => strategies[s] \in User

(* A result that was answered with 200 stays as long as its strategy,      *)
(* however deletes fail, lose their answers and overlap: the owner's       *)
(* delete takes both or none.  Only the delete of another user takes a     *)
(* result alone, and only one that its first statement found, as that      *)
(* statement asks for no user.                                             *)
TookAlone(d, r) ==
  LET h == request[d]
  IN /\ h.op = "delete" /\ h.pc \in {"404", "500"}
     /\ h.strategy = request[r].strategy /\ h.user # strategies[h.strategy]
     /\ \E b \in h.matched : b.by = r

AnsweredIsStored ==
  \A r \in Request :
    (request[r].op = "run" /\ request[r].pc = "200") =>
      \/ \E b \in backtests[request[r].strategy] : b.by = r
      \/ strategies[request[r].strategy] = Gone
      \/ \E d \in Request : TookAlone(d, r)

(* The sources of prices may fail in any way: a backtest is refused with   *)
(* an error only by the database that keeps the strategies.                *)
PricesNeverRefuse ==
  [][\A r \in Request : request[r].pc \in {"load", "fetch", "persist"} =>
       request'[r].pc \in {"load", "fetch", "persist", "save"}]_vars

(* Limited and unreadable rows left out, a list still has what its user    *)
(* looks for: of the results that are stored when it is asked for, the one *)
(* whose INSERT began last is in it, if it can be read, and nothing of     *)
(* another strategy, in whatever order overlapping INSERTs commit.         *)
ListsNewest ==
  [][\A r \in Request :
       (request[r].pc = "query" /\ request'[r].pc = "200" /\ Owned(r)) =>
         LET all == backtests[request[r].strategy]
             got == request'[r].listed
         IN /\ got \subseteq all
            /\ \A b \in all : b.readable /\ (\A x \in all : b.by \notin x.older) => b \in got]_vars
=============================================================================
