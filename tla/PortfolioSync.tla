--------------------------- MODULE PortfolioSync ---------------------------
(***************************************************************************)
(* The portfolio indexer of backend/api/src/services/portfolio.rs: a task  *)
(* that syncs all wallets every PORTFOLIO_SYNC_INTERVAL_SECS and one task  *)
(* per websocket that syncs the wallets of its chain at every block.  A    *)
(* call of sync_all_wallets spawns a task per wallet, at most              *)
(* max_concurrency at once; the task stores a snapshot, the day's snapshot *)
(* and the cursor of the wallet's transfers, and is tried again when it    *)
(* fails.                                                                  *)
(*                                                                         *)
(* A task's actions are what it does between two awaits, except that the   *)
(* block number, the balances and the prices of one attempt are read in    *)
(* one step (Observe).  A total is told apart by the time it was taken at. *)
(* Nothing follows the request for transfer logs: H256::from_slice panics  *)
(* on the 20 bytes of an address, so what the code does with logs is not   *)
(* modelled.                                                               *)
(***************************************************************************)
EXTENDS Integers, Sequences, FiniteSets

CONSTANTS
  Wallet,          \* ids of wallets
  Chain,
  ChainOf,         \* the chain of each wallet
  Listening,       \* chains with a websocket
  TokenChain,      \* chains with a configured token
  Indexer,         \* the caller that is no websocket
  None,
  MaxConcurrency,  \* PORTFOLIO_MAX_CONCURRENCY, at least 1
  MaxRetries,      \* PORTFOLIO_SYNC_RETRIES, at least 1
  Interval,        \* both the time between two runs and the minimum interval
  DayLength,
  Lookback,        \* blocks a first sync goes back: 500
  MaxTime,         \* bound: the clock stops here
  MaxHeight        \* bound: the chains stop growing here

ASSUME SyncAssumption ==
  /\ IsFiniteSet(Wallet) /\ ChainOf \in [Wallet -> Chain]
  /\ Listening \subseteq Chain /\ TokenChain \subseteq Chain /\ Indexer \notin Chain
  /\ MaxConcurrency \in Nat \ {0} /\ MaxRetries \in Nat \ {0} /\ DayLength \in Nat \ {0}
  /\ Interval \in Nat /\ Lookback \in Nat /\ MaxTime \in Nat /\ MaxHeight \in Nat
  /\ None \notin Int

VARIABLES
  wallets,    \* table wallets: present or deleted
  snapshots,  \* table portfolio_snapshots of each wallet, in the order of the INSERTs
  daily,      \* table portfolio_daily_snapshots: the snapshot of each day
  cursor,     \* last_tx_block of wallet_sync_cursors, None without a row
  indexer_runs, \* table portfolio_indexer_runs: the statuses logged of each wallet
  call,       \* the calls of sync_all_wallets, one per caller
  permits,    \* the semaphore of each call
  task,       \* the task of each call and wallet
  heard,      \* the blocks each websocket has delivered
  height,     \* the newest block of each chain
  now

db == <<wallets, snapshots, daily, cursor, indexer_runs>>
chains == <<heard, height>>
vars == <<db, call, permits, task, chains, now>>

Caller == {Indexer} \cup Listening
Time == 0..MaxTime
Block == 0..MaxHeight
Day == 0..(MaxTime \div DayLength)

-----------------------------------------------------------------------------
(* saw is history: how many snapshots of the wallet there were when the    *)
(* task checked the minimum interval.                                      *)
Snapshot == [at : Time, saw : Nat]

Running == {"check", "observe", "insert", "daily", "touch", "read", "write", "backoff"}
Finished == {"ok", "error", "panicked"}
Task == [pc : {"none"} \cup Running \cup Finished, attempt : 0..MaxRetries,
         saw : Nat, block : Block, at : Time]
NoTask == [pc |-> "none", attempt |-> 0, saw |-> 0, block |-> 0, at |-> 0]

Call == [pc : {"asleep", "list", "spawn", "join"}, wake_at : Nat,
         todo : SUBSET Wallet, handles : Seq(Wallet)]
Asleep(t) == [pc |-> "asleep", wake_at |-> t, todo |-> {}, handles |-> <<>>]

Init ==
  /\ wallets = [w \in Wallet |-> "present"]
  /\ snapshots = [w \in Wallet |-> <<>>]
  /\ daily = [w \in Wallet |-> [d \in Day |-> None]]
  /\ cursor = [w \in Wallet |-> None]
  /\ indexer_runs = [w \in Wallet |-> {}]
  /\ call = [s \in Caller |-> Asleep(0)]
  /\ permits = [s \in Caller |-> MaxConcurrency]
  /\ task = [s \in Caller |-> [w \in Wallet |-> NoTask]]
  /\ heard = [c \in Listening |-> 0]
  /\ height = [c \in Chain |-> 0]
  /\ now = 0

-----------------------------------------------------------------------------
(* A call of sync_all_wallets.                                             *)

(* The indexer's sleep is over, or a websocket delivers a block.           *)
Wake(s) ==
  /\ call[s].pc = "asleep"
  /\ IF s = Indexer
       THEN now >= call[s].wake_at /\ UNCHANGED heard
       ELSE heard[s] < height[s] /\ heard' = [heard EXCEPT ![s] = @ + 1]
  /\ call' = [call EXCEPT ![s].pc = "list"]
  /\ UNCHANGED <<db, permits, task, height, now>>

(* A call that returned: the indexer sleeps, a websocket waits for blocks. *)
Returned(s) == Asleep(IF s = Indexer THEN now + Interval ELSE 0)

Covered(s) ==
  {w \in Wallet : wallets[w] = "present" /\ (s # Indexer => ChainOf[w] = s)}

ListWallets(s) ==
  /\ call[s].pc = "list"
  /\ call' = [call EXCEPT ![s].pc = "spawn", ![s].todo = Covered(s)]
  /\ UNCHANGED <<db, permits, task, chains, now>>

ListFails(s) ==
  /\ call[s].pc = "list"
  /\ call' = [call EXCEPT ![s] = Returned(s)]
  /\ UNCHANGED <<db, permits, task, chains, now>>

(* The permit is taken before the task is spawned and moves into it.  The  *)
(* wallets come in any order.                                              *)
Spawn(s, w) ==
  /\ call[s].pc = "spawn" /\ w \in call[s].todo
  /\ permits[s] > 0
  /\ permits' = [permits EXCEPT ![s] = @ - 1]
  /\ task' = [task EXCEPT ![s][w] = [NoTask EXCEPT !.pc = "check", !.attempt = 1]]
  /\ call' = [call EXCEPT ![s].todo = @ \ {w}, ![s].handles = Append(@, w)]
  /\ UNCHANGED <<db, chains, now>>

AllSpawned(s) ==
  /\ call[s].pc = "spawn" /\ call[s].todo = {}
  /\ call' = [call EXCEPT ![s].pc = "join"]
  /\ UNCHANGED <<db, permits, task, chains, now>>

(* The handles are awaited in the order of their spawning.  The outcome is *)
(* logged; a log row that cannot be written is given up, and that a task   *)
(* panicked is not logged at all.                                          *)
Log(w, outcome) ==
  \/ /\ outcome # "panicked" /\ wallets[w] = "present"
     /\ indexer_runs' = [indexer_runs EXCEPT ![w] = @ \cup {outcome}]
  \/ UNCHANGED indexer_runs

Join(s) ==
  /\ call[s].pc = "join" /\ call[s].handles # <<>>
  /\ LET w == Head(call[s].handles)
     IN /\ task[s][w].pc \in Finished
        /\ Log(w, task[s][w].pc)
        /\ task' = [task EXCEPT ![s][w] = NoTask]
  /\ call' = [call EXCEPT ![s].handles = Tail(@)]
  /\ UNCHANGED <<wallets, snapshots, daily, cursor, permits, chains, now>>

AllJoined(s) ==
  /\ call[s].pc = "join" /\ call[s].handles = <<>>
  /\ call' = [call EXCEPT ![s] = Returned(s)]
  /\ UNCHANGED <<db, permits, task, chains, now>>

-----------------------------------------------------------------------------
(* The task of a wallet.  What it has no more use for is forgotten.        *)

Become(s, w, t) == task' = [task EXCEPT ![s][w] = t]

(* Mutant: the permit is dropped with the task and added once more.        *)
BugReleasedTwice(s, w, outcome) ==
  /\ Become(s, w, [NoTask EXCEPT !.pc = outcome])
  /\ permits' = [permits EXCEPT ![s] = @ + 2]

(* However a task ends, by unwinding too, its permit is dropped.           *)
Ends(s, w, outcome) ==
  /\ Become(s, w, [NoTask EXCEPT !.pc = outcome])
  /\ permits' = [permits EXCEPT ![s] = @ + 1]

(* Mutant: latest_by_wallet orders by snapshot_time ASC.                   *)
BugOldestSnapshot(w) == snapshots[w] # <<>> /\ now - snapshots[w][1].at < Interval

(* The newest snapshot is younger than the minimum interval.               *)
Recent(w) == \E i \in DOMAIN snapshots[w] : now - snapshots[w][i].at < Interval

CheckInterval(s, w) ==
  /\ task[s][w].pc = "check" /\ ~Recent(w)
  /\ Become(s, w, [task[s][w] EXCEPT !.pc = "observe", !.saw = Len(snapshots[w])])
  /\ UNCHANGED <<db, call, permits, chains, now>>

SkipRecent(s, w) ==
  /\ task[s][w].pc = "check" /\ Recent(w)
  /\ Ends(s, w, "ok")
  /\ UNCHANGED <<db, call, chains, now>>

(* The node answers its height and the balances, the oracle the prices;    *)
(* the snapshot bears the time of the native balance's price.              *)
Observe(s, w) ==
  /\ task[s][w].pc = "observe"
  /\ Become(s, w, [task[s][w] EXCEPT !.pc = "insert", !.block = height[ChainOf[w]], !.at = now])
  /\ UNCHANGED <<db, call, permits, chains, now>>

Stored(s, w) ==
  [snapshots EXCEPT ![w] = Append(@, [at |-> task[s][w].at, saw |-> task[s][w].saw])]

InsertSnapshot(s, w) ==
  /\ task[s][w].pc = "insert" /\ wallets[w] = "present"
  /\ snapshots' = Stored(s, w)
  /\ Become(s, w, [NoTask EXCEPT !.pc = "daily", !.block = task[s][w].block, !.at = task[s][w].at])
  /\ UNCHANGED <<wallets, daily, cursor, indexer_runs, call, permits, chains, now>>

(* Mutant: the permit is given back for the time of the pause.             *)
BugPauseWithoutPermit(s, w) ==
  IF task[s][w].attempt < MaxRetries
    THEN /\ Become(s, w, [NoTask EXCEPT !.pc = "backoff", !.attempt = task[s][w].attempt + 1])
         /\ permits' = [permits EXCEPT ![s] = @ + 1]
    ELSE Ends(s, w, "error")

(* Mutant: the last error is swallowed like those of the later steps.      *)
BugErrorSwallowed(s, w) ==
  IF task[s][w].attempt < MaxRetries
    THEN /\ Become(s, w, [NoTask EXCEPT !.pc = "backoff", !.attempt = task[s][w].attempt + 1])
         /\ UNCHANGED permits
    ELSE Ends(s, w, "ok")

(* Mutant: the attempts are counted per pause and not per task.            *)
BugRetryForever(s, w) ==
  /\ Become(s, w, [NoTask EXCEPT !.pc = "backoff", !.attempt = 1])
  /\ UNCHANGED permits

(* An attempt fails: the next is due after a pause, or the task ends.      *)
Failed(s, w) ==
  IF task[s][w].attempt < MaxRetries
    THEN /\ Become(s, w, [NoTask EXCEPT !.pc = "backoff", !.attempt = task[s][w].attempt + 1])
         /\ UNCHANGED permits
    ELSE Ends(s, w, "error")

(* The interval cannot be checked, the node or the oracle does not answer, *)
(* or the snapshot is not stored, for its wallet is gone or the database.  *)
AttemptFails(s, w) ==
  /\ task[s][w].pc \in {"check", "observe", "insert"}
  /\ Failed(s, w)
  /\ UNCHANGED <<db, call, chains, now>>

(* The INSERT commits and its answer is lost.                              *)
InsertUnanswered(s, w) ==
  /\ task[s][w].pc = "insert" /\ wallets[w] = "present"
  /\ snapshots' = Stored(s, w)
  /\ Failed(s, w)
  /\ UNCHANGED <<wallets, daily, cursor, indexer_runs, call, chains, now>>

Retry(s, w) ==
  /\ task[s][w].pc = "backoff"
  /\ Become(s, w, [task[s][w] EXCEPT !.pc = "check"])
  /\ UNCHANGED <<db, call, permits, chains, now>>

(* Mutant: the day's row is written under the day of the writing.          *)
BugDayOfWriting(s, w) ==
  LET day == now \div DayLength
  IN daily' = [daily EXCEPT ![w][day] = task[s][w].at]

(* From here on errors are ignored.                                        *)
StoreDaily(s, w) ==
  LET day == task[s][w].at \div DayLength
  IN daily' = [daily EXCEPT ![w][day] = task[s][w].at]

UpsertDaily(s, w) ==
  /\ task[s][w].pc = "daily"
  /\ \/ wallets[w] = "present" /\ StoreDaily(s, w)
     \/ UNCHANGED daily
  /\ Become(s, w, [task[s][w] EXCEPT !.pc = "touch", !.at = 0])
  /\ UNCHANGED <<wallets, snapshots, cursor, indexer_runs, call, permits, chains, now>>

(* update_last_daily_snapshot inserts the cursor row with last_tx_block 0. *)
TouchCursor(s, w) ==
  /\ task[s][w].pc = "touch"
  /\ \/ /\ wallets[w] = "present"
        /\ cursor' = [cursor EXCEPT ![w] = IF @ = None THEN 0 ELSE @]
     \/ UNCHANGED cursor
  /\ Become(s, w, [task[s][w] EXCEPT !.pc = "read"])
  /\ UNCHANGED <<wallets, snapshots, daily, indexer_runs, call, permits, chains, now>>

(* sync_transactions: the first block whose transfers are wanted.          *)
Last(s, w) == IF cursor[w] = None THEN task[s][w].block ELSE cursor[w]
Start(s, w) ==
  IF Last(s, w) > 0 THEN Last(s, w) + 1
  ELSE IF task[s][w].block > Lookback THEN task[s][w].block - Lookback ELSE 0

NothingToFetch(s, w) ==
  Start(s, w) > task[s][w].block \/ ChainOf[w] \notin TokenChain

ReadCursor(s, w) ==
  /\ task[s][w].pc = "read" /\ NothingToFetch(s, w)
  /\ Become(s, w, [task[s][w] EXCEPT !.pc = "write"])
  /\ UNCHANGED <<db, call, permits, chains, now>>

ReadFails(s, w) ==
  /\ task[s][w].pc = "read"
  /\ Ends(s, w, "ok")
  /\ UNCHANGED <<db, call, chains, now>>

FetchPanics(s, w) ==
  /\ task[s][w].pc = "read" /\ ~NothingToFetch(s, w)
  /\ Ends(s, w, "panicked")
  /\ UNCHANGED <<db, call, chains, now>>

WriteCursor(s, w) ==
  /\ task[s][w].pc = "write"
  /\ \/ wallets[w] = "present" /\ cursor' = [cursor EXCEPT ![w] = task[s][w].block]
     \/ UNCHANGED cursor
  /\ Ends(s, w, "ok")
  /\ UNCHANGED <<wallets, snapshots, daily, indexer_runs, call, chains, now>>

-----------------------------------------------------------------------------
(* The world around the indexer.                                           *)

(* A wallet is deleted and its rows with it (ON DELETE CASCADE).           *)
DeleteWallet(w) ==
  /\ wallets[w] = "present"
  /\ wallets' = [wallets EXCEPT ![w] = "deleted"]
  /\ snapshots' = [snapshots EXCEPT ![w] = <<>>]
  /\ daily' = [daily EXCEPT ![w] = [d \in Day |-> None]]
  /\ cursor' = [cursor EXCEPT ![w] = None]
  /\ indexer_runs' = [indexer_runs EXCEPT ![w] = {}]
  /\ UNCHANGED <<call, permits, task, chains, now>>

(* The process stops and starts again: its tasks are gone, the indexer     *)
(* syncs at once and the websockets deliver the blocks from now on.        *)
Restart ==
  /\ call' = [s \in Caller |-> Asleep(0)]
  /\ permits' = [s \in Caller |-> MaxConcurrency]
  /\ task' = [s \in Caller |-> [w \in Wallet |-> NoTask]]
  /\ heard' = [c \in Listening |-> height[c]]
  /\ UNCHANGED <<db, height, now>>

Mine(c) ==
  /\ height[c] < MaxHeight
  /\ height' = [height EXCEPT ![c] = @ + 1]
  /\ UNCHANGED <<db, call, permits, task, heard, now>>

Tick ==
  /\ now < MaxTime
  /\ now' = now + 1
  /\ UNCHANGED <<db, call, permits, task, chains>>

CallStep(s) ==
  \/ Wake(s) \/ ListWallets(s) \/ ListFails(s)
  \/ \E w \in Wallet : Spawn(s, w)
  \/ AllSpawned(s) \/ Join(s) \/ AllJoined(s)

Attempt(s, w) ==
  \/ CheckInterval(s, w) \/ SkipRecent(s, w) \/ Observe(s, w)
  \/ InsertSnapshot(s, w) \/ InsertUnanswered(s, w) \/ AttemptFails(s, w)
  \/ Retry(s, w)
Follow(s, w) ==
  \/ UpsertDaily(s, w) \/ TouchCursor(s, w) \/ ReadCursor(s, w)
  \/ ReadFails(s, w) \/ FetchPanics(s, w) \/ WriteCursor(s, w)
TaskStep(s, w) == Attempt(s, w) \/ Follow(s, w)

Next ==
  \/ \E s \in Caller : CallStep(s) \/ \E w \in Wallet : TaskStep(s, w)
  \/ \E w \in Wallet : DeleteWallet(w)
  \/ \E c \in Chain : Mine(c)
  \/ Restart
  \/ Tick

(* The runtime polls every task that is ready, and every call to the node  *)
(* and the database returns, with an answer or an error.                   *)
Fairness ==
  \A s \in Caller :
    /\ WF_vars(CallStep(s))
    /\ \A w \in Wallet : WF_vars(TaskStep(s, w))

Spec == Init /\ [][Next]_vars /\ Fairness

-----------------------------------------------------------------------------
(* Properties.                                                             *)

TypeOK ==
  /\ wallets \in [Wallet -> {"present", "deleted"}]
  /\ snapshots \in [Wallet -> Seq(Snapshot)]
  /\ daily \in [Wallet -> [Day -> Time \cup {None}]]
  /\ cursor \in [Wallet -> Block \cup {None}]
  /\ indexer_runs \in [Wallet -> SUBSET {"ok", "error"}]
  /\ call \in [Caller -> Call]
  /\ permits \in [Caller -> 0..MaxConcurrency]
  /\ task \in [Caller -> [Wallet -> Task]]
  /\ heard \in [Listening -> Block]
  /\ height \in [Chain -> Block]
  /\ now \in Time

(* Two snapshots of a wallet lie at least the minimum interval apart,      *)
(* through retries, lost answers, restarts and several callers, unless the *)
(* later one's check came before the earlier one was stored.               *)
SpacedUnlessRaced ==
  \A w \in Wallet : \A j \in DOMAIN snapshots[w] : \A i \in 1..snapshots[w][j].saw :
    i < j => snapshots[w][j].at >= snapshots[w][i].at + Interval

(* The day's row is a snapshot of that very day which is also stored on    *)
(* its own, whoever wrote last.                                            *)
DailyFromSnapshot ==
  \A w \in Wallet, d \in Day :
    daily[w][d] # None =>
      /\ daily[w][d] \div DayLength = d
      /\ \E i \in DOMAIN snapshots[w] : snapshots[w][i].at = daily[w][d]

(* A permit is out for each task that has not ended, and for no other, so  *)
(* that a panic costs none and a call never syncs more wallets at once     *)
(* than it may.                                                            *)
PermitsAccounted ==
  \A s \in Caller :
    permits[s] + Cardinality({w \in Wallet : task[s][w].pc \in Running}) = MaxConcurrency

(* A wallet whose sync was ever logged as ok has a snapshot.               *)
OkMeansSnapshot ==
  \A w \in Wallet : "ok" \in indexer_runs[w] => snapshots[w] # <<>>

(* Every call of sync_all_wallets returns, whatever fails or panics in it, *)
(* so that the indexer goes on and the websocket is read again.            *)
CallsReturn == \A s \in Caller : call[s].pc # "asleep" ~> call[s].pc = "asleep"
=============================================================================
