------------------------ MODULE PortfolioSyncProofs ------------------------
(***************************************************************************)
(* Proofs about PortfolioSync, for any finite set of wallets, any chains,  *)
(* websockets, retries and permits, and any bounds.                        *)
(***************************************************************************)
EXTENDS PortfolioSync, FiniteSetTheorems, TLAPS

-----------------------------------------------------------------------------
(* Type correctness.                                                       *)

LEMMA Bounds ==
  /\ MaxTime \in Nat /\ MaxHeight \in Nat /\ Interval \in Nat /\ Lookback \in Nat
  /\ MaxConcurrency \in Nat /\ MaxConcurrency > 0
  /\ MaxRetries \in Nat /\ MaxRetries > 0
  /\ DayLength \in Nat /\ DayLength > 0
  BY SyncAssumption

LEMMA DayOf == ASSUME NEW t \in Time PROVE t \div DayLength \in Day
<1>1. t \in 0..MaxTime /\ MaxTime \in Nat /\ DayLength \in Nat /\ DayLength > 0
  BY Bounds DEF Time
<1>2. t \div DayLength \in Nat /\ MaxTime \div DayLength \in Nat
  BY <1>1
<1>3. t \div DayLength <= MaxTime \div DayLength
  BY <1>1
<1> QED BY <1>2, <1>3 DEF Day

LEMMA NoTaskType == NoTask \in Task /\ NoTask.pc = "none"
  BY Bounds DEF NoTask, Task, Time, Block

LEMMA AsleepType ==
  ASSUME NEW t \in Nat
  PROVE  Asleep(t) \in Call /\ Asleep(t).pc = "asleep"
  BY DEF Asleep, Call

(* TypeOK, but for the upper bound of the permits, which takes counting.   *)
ShapeOK ==
  /\ wallets \in [Wallet -> {"present", "deleted"}]
  /\ snapshots \in [Wallet -> Seq(Snapshot)]
  /\ daily \in [Wallet -> [Day -> Time \cup {None}]]
  /\ cursor \in [Wallet -> Block \cup {None}]
  /\ indexer_runs \in [Wallet -> SUBSET {"ok", "error"}]
  /\ call \in [Caller -> Call]
  /\ permits \in [Caller -> Nat]
  /\ task \in [Caller -> [Wallet -> Task]]
  /\ heard \in [Listening -> Block]
  /\ height \in [Chain -> Block]
  /\ now \in Time

LEMMA ReturnedType ==
  ASSUME ShapeOK, NEW s \in Caller
  PROVE  Returned(s) \in Call /\ Returned(s).pc = "asleep" /\ Returned(s).todo = {}
<1>1. now \in Nat /\ now + Interval \in Nat
  BY Bounds DEF ShapeOK, Time
<1> QED BY <1>1, AsleepType DEF Returned, Asleep

LEMMA TaskFacts ==
  ASSUME ShapeOK, NEW s \in Caller, NEW w \in Wallet
  PROVE  /\ task[s][w] \in Task
         /\ task[s][w].saw \in Nat /\ task[s][w].at \in Time
         /\ task[s][w].block \in Block /\ task[s][w].attempt \in 0..MaxRetries
  BY DEF ShapeOK, Task

LEMMA BecomeType ==
  ASSUME ShapeOK, NEW s \in Caller, NEW w \in Wallet, NEW t \in Task, Become(s, w, t)
  PROVE  /\ task' \in [Caller -> [Wallet -> Task]]
         /\ task'[s][w] = t
         /\ \A c \in Caller, x \in Wallet : c # s \/ x # w => task'[c][x] = task[c][x]
  BY DEF ShapeOK, Become

LEMMA InitShapeOK == Init => ShapeOK
<1> SUFFICES ASSUME Init PROVE ShapeOK
  OBVIOUS
<1>1. call \in [Caller -> Call] /\ task \in [Caller -> [Wallet -> Task]]
  BY NoTaskType, AsleepType DEF Init
<1>2. permits \in [Caller -> Nat] /\ now \in Time
  BY Bounds DEF Init, Time
<1>3. heard \in [Listening -> Block] /\ height \in [Chain -> Block]
  BY Bounds DEF Init, Block
<1>4. /\ wallets \in [Wallet -> {"present", "deleted"}]
      /\ snapshots \in [Wallet -> Seq(Snapshot)]
      /\ daily \in [Wallet -> [Day -> Time \cup {None}]]
      /\ cursor \in [Wallet -> Block \cup {None}]
      /\ indexer_runs \in [Wallet -> SUBSET {"ok", "error"}]
  BY DEF Init
<1> QED BY <1>1, <1>2, <1>3, <1>4 DEF ShapeOK

LEMMA CallShape ==
  ASSUME ShapeOK, NEW s \in Caller, CallStep(s)
  PROVE  ShapeOK'
<1> USE DEF ShapeOK
<1>0. call[s] \in Call
  OBVIOUS
<1>1. CASE Wake(s)
  <2>1. heard' \in [Listening -> Block]
    <3>1. CASE s = Indexer
      BY <1>1, <3>1 DEF Wake
    <3>2. CASE s # Indexer
      <4>1. s \in Listening /\ s \in Chain
        BY <3>2, SyncAssumption DEF Caller
      <4>2. heard[s] + 1 \in Block
        BY <1>1, <3>2, <4>1, Bounds DEF Wake, Block
      <4> QED BY <1>1, <3>2, <4>1, <4>2 DEF Wake
    <3> QED BY <3>1, <3>2
  <2>2. call' \in [Caller -> Call]
    <3>1. [call[s] EXCEPT !.pc = "list"] \in Call
      BY <1>0 DEF Call
    <3> QED BY <1>1, <3>1 DEF Wake
  <2> QED BY <1>1, <2>1, <2>2 DEF Wake, db
<1>2. CASE ListWallets(s)
  <2>1. call' \in [Caller -> Call]
    <3>1. Covered(s) \subseteq Wallet
      BY DEF Covered
    <3>2. [call[s] EXCEPT !.pc = "spawn", !.todo = Covered(s)] \in Call
      BY <1>0, <3>1 DEF Call
    <3> QED BY <1>2, <3>2 DEF ListWallets
  <2> QED BY <1>2, <2>1 DEF ListWallets, db, chains
<1>3. CASE ListFails(s) \/ AllJoined(s)
  BY <1>3, ReturnedType DEF ListFails, AllJoined, db, chains
<1>4. ASSUME NEW w \in Wallet, Spawn(s, w) PROVE ShapeOK'
  <2>1. permits' \in [Caller -> Nat]
    <3>1. permits[s] - 1 \in Nat
      BY <1>4 DEF Spawn
    <3> QED BY <1>4, <3>1 DEF Spawn
  <2>2. [NoTask EXCEPT !.pc = "check", !.attempt = 1] \in Task
    <3>1. 1 \in 0..MaxRetries
      BY Bounds
    <3> QED BY <3>1, NoTaskType DEF Task, Running
  <2>3. task' \in [Caller -> [Wallet -> Task]]
    BY <1>4, <2>2 DEF Spawn
  <2>4. call' \in [Caller -> Call]
    <3>1. call[s].handles \in Seq(Wallet) /\ Append(call[s].handles, w) \in Seq(Wallet)
      BY DEF Call
    <3>2. [call[s] EXCEPT !.todo = @ \ {w}, !.handles = Append(@, w)] \in Call
      BY <3>1 DEF Call
    <3> QED BY <1>4, <3>2 DEF Spawn
  <2> QED BY <1>4, <2>1, <2>3, <2>4 DEF Spawn, db, chains
<1>5. CASE AllSpawned(s)
  <2>1. call' \in [Caller -> Call]
    <3>1. [call[s] EXCEPT !.pc = "join"] \in Call
      BY <1>0 DEF Call
    <3> QED BY <1>5, <3>1 DEF AllSpawned
  <2> QED BY <1>5, <2>1 DEF AllSpawned, db, chains
<1>6. CASE Join(s)
  <2>1. call[s].handles \in Seq(Wallet) /\ call[s].handles # <<>>
    BY <1>6 DEF Join, Call
  <2>2. Head(call[s].handles) \in Wallet /\ Tail(call[s].handles) \in Seq(Wallet)
    BY <2>1
  <2>3. call' \in [Caller -> Call]
    <3>1. [call[s] EXCEPT !.handles = Tail(@)] \in Call
      BY <2>2 DEF Call
    <3> QED BY <1>6, <3>1 DEF Join
  <2>4. task' \in [Caller -> [Wallet -> Task]]
    BY <1>6, <2>2, NoTaskType DEF Join
  <2>5. indexer_runs' \in [Wallet -> SUBSET {"ok", "error"}]
    <3> DEFINE w == Head(call[s].handles)
    <3>1. task[s][w].pc \in Finished /\ Log(w, task[s][w].pc)
      BY <1>6 DEF Join
    <3>2. CASE UNCHANGED indexer_runs
      BY <3>2
    <3>3. CASE indexer_runs' = [indexer_runs EXCEPT ![w] = @ \cup {task[s][w].pc}]
               /\ task[s][w].pc # "panicked"
      <4>1. task[s][w].pc \in {"ok", "error"}
        BY <3>1, <3>3 DEF Finished
      <4> QED BY <2>2, <3>3, <4>1
    <3> QED BY <3>1, <3>2, <3>3 DEF Log
  <2> QED BY <1>6, <2>3, <2>4, <2>5 DEF Join, chains
<1> QED BY <1>1, <1>2, <1>3, <1>4, <1>5, <1>6 DEF CallStep

(* What a task's step may put in its place, and into its permits.          *)
LEMMA EndsShape ==
  ASSUME ShapeOK, NEW s \in Caller, NEW w \in Wallet, NEW o \in Finished, Ends(s, w, o)
  PROVE  /\ task' \in [Caller -> [Wallet -> Task]]
         /\ permits' \in [Caller -> Nat]
<1>1. [NoTask EXCEPT !.pc = o] \in Task
  BY NoTaskType DEF Task
<1> QED BY <1>1, BecomeType DEF Ends, ShapeOK

LEMMA FailedShape ==
  ASSUME ShapeOK, NEW s \in Caller, NEW w \in Wallet, Failed(s, w)
  PROVE  /\ task' \in [Caller -> [Wallet -> Task]]
         /\ permits' \in [Caller -> Nat]
<1>1. CASE task[s][w].attempt < MaxRetries
  <2>1. task[s][w].attempt + 1 \in 0..MaxRetries
    BY <1>1, TaskFacts, Bounds
  <2>2. [NoTask EXCEPT !.pc = "backoff", !.attempt = task[s][w].attempt + 1] \in Task
    BY <2>1, NoTaskType DEF Task, Running
  <2> QED BY <1>1, <2>2, BecomeType DEF Failed, ShapeOK
<1>2. CASE ~(task[s][w].attempt < MaxRetries)
  <2>1. "error" \in Finished
    BY DEF Finished
  <2> QED BY <1>2, <2>1, EndsShape DEF Failed
<1> QED BY <1>1, <1>2

LEMMA StoredShape ==
  ASSUME ShapeOK, NEW s \in Caller, NEW w \in Wallet
  PROVE  Stored(s, w) \in [Wallet -> Seq(Snapshot)]
<1>1. [at |-> task[s][w].at, saw |-> task[s][w].saw] \in Snapshot
  BY TaskFacts DEF Snapshot
<1>2. Append(snapshots[w], [at |-> task[s][w].at, saw |-> task[s][w].saw]) \in Seq(Snapshot)
  BY <1>1 DEF ShapeOK
<1> QED BY <1>2 DEF Stored, ShapeOK

LEMMA AttemptShape ==
  ASSUME ShapeOK, NEW s \in Caller, NEW w \in Wallet, Attempt(s, w)
  PROVE  ShapeOK'
<1>0. /\ task[s][w] \in Task
      /\ {"ok", "error", "panicked"} = Finished
      /\ {"check", "observe", "insert", "daily", "touch", "read", "write", "backoff"} = Running
  BY TaskFacts DEF Finished, Running
<1>1. CASE CheckInterval(s, w)
  <2>1. Len(snapshots[w]) \in Nat
    BY DEF ShapeOK
  <2>2. [task[s][w] EXCEPT !.pc = "observe", !.saw = Len(snapshots[w])] \in Task
    BY <1>0, <2>1 DEF Task
  <2> QED BY <1>1, <2>2, BecomeType DEF CheckInterval, ShapeOK, db, chains
<1>2. CASE SkipRecent(s, w)
  BY <1>0, <1>2, EndsShape DEF SkipRecent, ShapeOK, db, chains
<1>3. CASE Observe(s, w)
  <2>1. height[ChainOf[w]] \in Block /\ now \in Time
    BY SyncAssumption DEF ShapeOK
  <2>2. [task[s][w] EXCEPT !.pc = "insert", !.block = height[ChainOf[w]], !.at = now] \in Task
    BY <1>0, <2>1 DEF Task
  <2> QED BY <1>3, <2>2, BecomeType DEF Observe, ShapeOK, db, chains
<1>4. CASE InsertSnapshot(s, w)
  <2>1. [NoTask EXCEPT !.pc = "daily", !.block = task[s][w].block, !.at = task[s][w].at] \in Task
    BY <1>0, NoTaskType, TaskFacts DEF Task
  <2> QED BY <1>4, <2>1, BecomeType, StoredShape DEF InsertSnapshot, ShapeOK, chains
<1>5. CASE InsertUnanswered(s, w)
  BY <1>5, FailedShape, StoredShape DEF InsertUnanswered, ShapeOK, chains
<1>6. CASE AttemptFails(s, w)
  BY <1>6, FailedShape DEF AttemptFails, ShapeOK, db, chains
<1>7. CASE Retry(s, w)
  <2>1. [task[s][w] EXCEPT !.pc = "check"] \in Task
    BY <1>0 DEF Task
  <2> QED BY <1>7, <2>1, BecomeType DEF Retry, ShapeOK, db, chains
<1> QED BY <1>1, <1>2, <1>3, <1>4, <1>5, <1>6, <1>7 DEF Attempt

LEMMA FollowShape ==
  ASSUME ShapeOK, NEW s \in Caller, NEW w \in Wallet, Follow(s, w)
  PROVE  ShapeOK'
<1>0. /\ task[s][w] \in Task
      /\ {"ok", "error", "panicked"} = Finished
      /\ {"check", "observe", "insert", "daily", "touch", "read", "write", "backoff"} = Running
  BY TaskFacts DEF Finished, Running
<1>1. CASE UpsertDaily(s, w)
  <2>1. [task[s][w] EXCEPT !.pc = "touch", !.at = 0] \in Task
    <3>1. 0 \in Time
      BY Bounds DEF Time
    <3> QED BY <1>0, <3>1 DEF Task
  <2>2. daily' \in [Wallet -> [Day -> Time \cup {None}]]
    <3>1. task[s][w].at \in Time /\ task[s][w].at \div DayLength \in Day
      BY TaskFacts, DayOf
    <3>2. CASE StoreDaily(s, w)
      <4>1. [daily[w] EXCEPT ![task[s][w].at \div DayLength] = task[s][w].at]
              \in [Day -> Time \cup {None}]
        BY <3>1 DEF ShapeOK
      <4> QED BY <3>2, <4>1 DEF StoreDaily, ShapeOK
    <3> QED BY <1>1, <3>2 DEF UpsertDaily, ShapeOK
  <2> QED BY <1>1, <2>1, <2>2, BecomeType DEF UpsertDaily, ShapeOK, chains
<1>2. CASE TouchCursor(s, w)
  <2>1. [task[s][w] EXCEPT !.pc = "read"] \in Task
    BY <1>0 DEF Task
  <2>2. cursor' \in [Wallet -> Block \cup {None}]
    <3>1. 0 \in Block /\ cursor \in [Wallet -> Block \cup {None}]
      BY Bounds DEF Block, ShapeOK
    <3>2. PICK b : b = IF cursor[w] = None THEN 0 ELSE cursor[w]
      OBVIOUS
    <3>3. b \in Block \cup {None}
      BY <3>1, <3>2
    <3>4. cursor' = [cursor EXCEPT ![w] = b] \/ cursor' = cursor
      BY <1>2, <3>2 DEF TouchCursor
    <3> QED BY <3>1, <3>3, <3>4
  <2> QED BY <1>2, <2>1, <2>2, BecomeType DEF TouchCursor, ShapeOK, chains
<1>3. CASE ReadCursor(s, w)
  <2>1. [task[s][w] EXCEPT !.pc = "write"] \in Task
    BY <1>0 DEF Task
  <2> QED BY <1>3, <2>1, BecomeType DEF ReadCursor, ShapeOK, db, chains
<1>4. CASE ReadFails(s, w)
  BY <1>0, <1>4, EndsShape DEF ReadFails, ShapeOK, db, chains
<1>5. CASE FetchPanics(s, w)
  BY <1>0, <1>5, EndsShape DEF FetchPanics, ShapeOK, db, chains
<1>6. CASE WriteCursor(s, w)
  <2>1. cursor' \in [Wallet -> Block \cup {None}]
    BY <1>6, TaskFacts DEF WriteCursor, ShapeOK
  <2> QED BY <1>0, <1>6, <2>1, EndsShape DEF WriteCursor, ShapeOK, chains
<1> QED BY <1>1, <1>2, <1>3, <1>4, <1>5, <1>6 DEF Follow

LEMMA NextShapeOK == ShapeOK /\ [Next]_vars => ShapeOK'
<1> SUFFICES ASSUME ShapeOK, [Next]_vars PROVE ShapeOK'
  OBVIOUS
<1>1. ASSUME NEW s \in Caller, CallStep(s) PROVE ShapeOK'
  BY <1>1, CallShape
<1>2. ASSUME NEW s \in Caller, NEW w \in Wallet, TaskStep(s, w) PROVE ShapeOK'
  BY <1>2, AttemptShape, FollowShape DEF TaskStep
<1>3. ASSUME NEW w \in Wallet, DeleteWallet(w) PROVE ShapeOK'
  BY <1>3 DEF DeleteWallet, ShapeOK, chains
<1>4. CASE Restart
  <2>1. Asleep(0) \in Call /\ NoTask \in Task /\ MaxConcurrency \in Nat
    BY AsleepType, NoTaskType, Bounds
  <2>2. heard' \in [Listening -> Block]
    BY <1>4, SyncAssumption DEF Restart, ShapeOK
  <2> QED BY <1>4, <2>1, <2>2 DEF Restart, ShapeOK, db
<1>5. ASSUME NEW c \in Chain, Mine(c) PROVE ShapeOK'
  <2>1. height[c] + 1 \in Block
    BY <1>5, Bounds DEF Mine, ShapeOK, Block
  <2> QED BY <1>5, <2>1 DEF Mine, ShapeOK, db
<1>6. CASE Tick
  <2>1. now' \in Time
    BY <1>6, Bounds DEF Tick, ShapeOK, Time
  <2> QED BY <1>6, <2>1 DEF Tick, ShapeOK, db, chains
<1>7. CASE UNCHANGED vars
  BY <1>7 DEF vars, db, chains, ShapeOK
<1> QED BY <1>1, <1>2, <1>3, <1>4, <1>5, <1>6, <1>7 DEF Next

-----------------------------------------------------------------------------
(* The permits.                                                            *)

(* What every step of a task has in common: it is the step of a running    *)
(* task, and it gives the permit back when, and only when, it ends it.     *)
LEMMA TaskStepFacts ==
  ASSUME ShapeOK, NEW s \in Caller, NEW w \in Wallet, TaskStep(s, w)
  PROVE  /\ task[s][w].pc \in Running
         /\ UNCHANGED <<call, now, wallets>>
         /\ \A c \in Caller, x \in Wallet : c # s \/ x # w => task'[c][x] = task[c][x]
         /\ \/ task'[s][w].pc \in Running /\ UNCHANGED permits
            \/ task'[s][w].pc \in Finished /\ permits' = [permits EXCEPT ![s] = @ + 1]
<1>0. /\ task[s][w] \in Task
      /\ {"ok", "error", "panicked"} = Finished
      /\ {"check", "observe", "insert", "daily", "touch", "read", "write", "backoff"} = Running
  BY TaskFacts DEF Finished, Running
<1> DEFINE Goal == /\ \A c \in Caller, x \in Wallet : c # s \/ x # w => task'[c][x] = task[c][x]
                   /\ \/ task'[s][w].pc \in Running /\ UNCHANGED permits
                      \/ task'[s][w].pc \in Finished /\ permits' = [permits EXCEPT ![s] = @ + 1]
<1>1. ASSUME NEW t, Become(s, w, t)
      PROVE  /\ \A c \in Caller, x \in Wallet : c # s \/ x # w => task'[c][x] = task[c][x]
             /\ task'[s][w] = t
  BY <1>1 DEF Become, ShapeOK
<1>2. ASSUME NEW o \in Finished, Ends(s, w, o) PROVE Goal
  <2>1. [NoTask EXCEPT !.pc = o].pc = o
    BY NoTaskType DEF Task
  <2> QED BY <1>1, <1>2, <2>1 DEF Ends
<1>3. ASSUME NEW t, NEW pc \in Running, Become(s, w, t), t.pc = pc, UNCHANGED permits PROVE Goal
  BY <1>1, <1>3
<1>4. ASSUME Failed(s, w) PROVE Goal
  <2>1. CASE task[s][w].attempt < MaxRetries
    <3> DEFINE t == [NoTask EXCEPT !.pc = "backoff", !.attempt = task[s][w].attempt + 1]
    <3>1. t.pc = "backoff"
      BY NoTaskType DEF Task
    <3> QED BY <1>0, <1>3, <1>4, <2>1, <3>1 DEF Failed
  <2> QED BY <1>0, <1>2, <1>4, <2>1 DEF Failed
<1> HIDE DEF Goal
<1>5. CASE CheckInterval(s, w)
  <2>1. [task[s][w] EXCEPT !.pc = "observe", !.saw = Len(snapshots[w])].pc = "observe"
    BY <1>0 DEF Task
  <2> QED BY <1>0, <1>3, <1>5, <2>1 DEF CheckInterval, Goal, db
<1>6. CASE SkipRecent(s, w)
  BY <1>0, <1>2, <1>6 DEF SkipRecent, Goal, db
<1>7. CASE Observe(s, w)
  <2>1. [task[s][w] EXCEPT !.pc = "insert", !.block = height[ChainOf[w]], !.at = now].pc = "insert"
    BY <1>0 DEF Task
  <2> QED BY <1>0, <1>3, <1>7, <2>1 DEF Observe, Goal, db
<1>8. CASE InsertSnapshot(s, w)
  <2>1. [NoTask EXCEPT !.pc = "daily", !.block = task[s][w].block, !.at = task[s][w].at].pc = "daily"
    BY NoTaskType DEF Task
  <2> QED BY <1>0, <1>3, <1>8, <2>1 DEF InsertSnapshot, Goal
<1>9. CASE InsertUnanswered(s, w) \/ AttemptFails(s, w)
  BY <1>0, <1>4, <1>9 DEF InsertUnanswered, AttemptFails, Goal, db
<1>10. CASE Retry(s, w)
  <2>1. [task[s][w] EXCEPT !.pc = "check"].pc = "check"
    BY <1>0 DEF Task
  <2> QED BY <1>0, <1>3, <1>10, <2>1 DEF Retry, Goal, db
<1>11. CASE UpsertDaily(s, w)
  <2>1. [task[s][w] EXCEPT !.pc = "touch", !.at = 0].pc = "touch"
    BY <1>0 DEF Task
  <2> QED BY <1>0, <1>3, <1>11, <2>1 DEF UpsertDaily, Goal
<1>12. CASE TouchCursor(s, w)
  <2>1. [task[s][w] EXCEPT !.pc = "read"].pc = "read"
    BY <1>0 DEF Task
  <2> QED BY <1>0, <1>3, <1>12, <2>1 DEF TouchCursor, Goal
<1>13. CASE ReadCursor(s, w)
  <2>1. [task[s][w] EXCEPT !.pc = "write"].pc = "write"
    BY <1>0 DEF Task
  <2> QED BY <1>0, <1>3, <1>13, <2>1 DEF ReadCursor, Goal, db
<1>14. CASE ReadFails(s, w) \/ FetchPanics(s, w) \/ WriteCursor(s, w)
  BY <1>0, <1>2, <1>14 DEF ReadFails, FetchPanics, WriteCursor, Goal, db
<1> QED BY <1>5, <1>6, <1>7, <1>8, <1>9, <1>10, <1>11, <1>12, <1>13, <1>14
        DEF TaskStep, Attempt, Follow, Goal

(* A call's tasks are those of its handles, and a wallet that is still to  *)
(* be spawned has none.                                                    *)
CallInv ==
  \A s \in Caller :
    /\ \A w \in Wallet : task[s][w].pc # "none" =>
         /\ call[s].pc \in {"spawn", "join"}
         /\ w \notin call[s].todo
         /\ \E i \in DOMAIN call[s].handles : call[s].handles[i] = w
    /\ call[s].pc # "spawn" => call[s].todo = {}

LEMMA CallRecord ==
  ASSUME ShapeOK, NEW s \in Caller
  PROVE  call[s] \in Call /\ call[s].handles \in Seq(Wallet)
  BY DEF ShapeOK, Call

LEMMA CallStepInv ==
  ASSUME ShapeOK, CallInv, NEW s \in Caller, CallStep(s)
  PROVE  CallInv'
<1>0. /\ call \in [Caller -> Call] /\ task \in [Caller -> [Wallet -> Task]]
      /\ call[s] \in Call /\ call[s].handles \in Seq(Wallet)
  BY CallRecord DEF ShapeOK
<1>1. CASE Wake(s)
  BY <1>0, <1>1 DEF Wake, CallInv, Call
<1>2. CASE ListWallets(s)
  BY <1>0, <1>2 DEF ListWallets, CallInv, Call
<1>3. CASE ListFails(s)
  BY <1>0, <1>3, ReturnedType DEF ListFails, CallInv
<1>4. ASSUME NEW w \in Wallet, Spawn(s, w) PROVE CallInv'
  <2> DEFINE old == call[s].handles
             new == Append(old, w)
  <2>1. /\ call' = [call EXCEPT ![s].todo = @ \ {w}, ![s].handles = new]
        /\ call[s].pc = "spawn"
        /\ task' = [task EXCEPT ![s][w] = [NoTask EXCEPT !.pc = "check", !.attempt = 1]]
    BY <1>4 DEF Spawn
  <2>2. /\ \A i \in DOMAIN old : i \in DOMAIN new /\ new[i] = old[i]
        /\ \E i \in DOMAIN new : new[i] = w
    <3>1. Len(old) + 1 \in DOMAIN new /\ new[Len(old) + 1] = w
      BY <1>0
    <3> QED BY <1>0, <3>1
  <2> HIDE DEF new
  <2>3. /\ call'[s].pc = "spawn" /\ call'[s].todo = call[s].todo \ {w} /\ call'[s].handles = new
        /\ \A c \in Caller : c # s => call'[c] = call[c]
    BY <1>0, <2>1 DEF Call
  <2>4. \A c \in Caller, x \in Wallet : c # s \/ x # w => task'[c][x] = task[c][x]
    BY <1>0, <2>1
  <2>5. ASSUME NEW x \in Wallet, task'[s][x].pc # "none"
        PROVE  x \notin call'[s].todo /\ \E i \in DOMAIN new : new[i] = x
    BY <2>2, <2>3, <2>4, <2>5 DEF CallInv
  <2> QED BY <2>3, <2>4, <2>5 DEF CallInv
<1>5. CASE AllSpawned(s)
  BY <1>0, <1>5 DEF AllSpawned, CallInv, Call
<1>6. CASE Join(s)
  <2> DEFINE old == call[s].handles
  <2>1. /\ old # <<>> /\ call[s].pc = "join"
        /\ task' = [task EXCEPT ![s][Head(old)] = NoTask]
        /\ call' = [call EXCEPT ![s].handles = Tail(old)]
    BY <1>6 DEF Join
  <2>2. Head(old) \in Wallet /\ Tail(old) \in Seq(Wallet)
    BY <1>0, <2>1
  <2>3. \A i \in DOMAIN old :
          old[i] = Head(old) \/ \E j \in DOMAIN Tail(old) : Tail(old)[j] = old[i]
    <3>1. ASSUME NEW i \in DOMAIN old, i # 1
          PROVE  i - 1 \in DOMAIN Tail(old) /\ Tail(old)[i - 1] = old[i]
      BY <1>0, <2>1, <3>1
    <3>2. 1 \in DOMAIN old => old[1] = Head(old)
      BY <1>0
    <3> QED BY <3>1, <3>2
  <2>4. /\ call'[s].pc = "join" /\ call'[s].todo = call[s].todo /\ call'[s].handles = Tail(old)
        /\ \A c \in Caller : c # s => call'[c] = call[c]
    BY <1>0, <2>1 DEF Call
  <2>5. /\ task'[s][Head(old)].pc = "none"
        /\ \A c \in Caller, x \in Wallet : c # s \/ x # Head(old) => task'[c][x] = task[c][x]
    BY <1>0, <2>1, <2>2, NoTaskType
  <2>6. ASSUME NEW x \in Wallet, task'[s][x].pc # "none"
        PROVE  x \notin call'[s].todo /\ \E j \in DOMAIN Tail(old) : Tail(old)[j] = x
    BY <2>3, <2>4, <2>5, <2>6 DEF CallInv
  <2> QED BY <2>1, <2>4, <2>5, <2>6 DEF CallInv
<1>7. CASE AllJoined(s)
  <2>1. \A w \in Wallet : task[s][w].pc = "none"
    BY <1>7 DEF AllJoined, CallInv
  <2> QED BY <1>0, <1>7, <2>1, ReturnedType DEF AllJoined, CallInv
<1> QED BY <1>1, <1>2, <1>3, <1>4, <1>5, <1>6, <1>7 DEF CallStep

LEMMA NextCallInv == ShapeOK /\ CallInv /\ [Next]_vars => CallInv'
<1> SUFFICES ASSUME ShapeOK, CallInv, [Next]_vars PROVE CallInv'
  OBVIOUS
<1>1. ASSUME NEW s \in Caller, NEW w \in Wallet, TaskStep(s, w) PROVE CallInv'
  <2>1. \A c \in Caller, x \in Wallet : task'[c][x].pc # "none" => task[c][x].pc # "none"
    BY <1>1, TaskStepFacts DEF Running
  <2> QED BY <1>1, <2>1, TaskStepFacts DEF CallInv
<1>2. CASE Restart
  BY <1>2, NoTaskType, AsleepType DEF Restart, CallInv, Asleep
<1>3. CASE UNCHANGED <<call, task>>
  BY <1>3 DEF CallInv
<1> QED BY <1>1, <1>2, <1>3, CallStepInv DEF Next, DeleteWallet, Mine, Tick, vars

Held(s) == {w \in Wallet : task[s][w].pc \in Running}

LEMMA HeldFinite ==
  ASSUME NEW s
  PROVE  IsFiniteSet(Held(s)) /\ Cardinality(Held(s)) \in Nat
  BY SyncAssumption, FS_Subset, FS_CardinalityType DEF Held

(* A step that changes no one's holding, or the holding of one.            *)
LEMMA KeepsPermit ==
  ASSUME NEW s, permits'[s] = permits[s], PermitsAccounted, s \in Caller,
         \A w \in Wallet : task'[s][w].pc \in Running <=> task[s][w].pc \in Running
  PROVE  permits'[s] + Cardinality(Held(s)') = MaxConcurrency
<1>1. Held(s)' = Held(s)
  BY DEF Held
<1> QED BY <1>1 DEF PermitsAccounted, Held

LEMMA TakesPermit ==
  ASSUME ShapeOK, PermitsAccounted, NEW s \in Caller, NEW w \in Wallet,
         permits'[s] = permits[s] - 1,
         task[s][w].pc \notin Running, task'[s][w].pc \in Running,
         \A x \in Wallet : x # w => task'[s][x] = task[s][x]
  PROVE  permits'[s] + Cardinality(Held(s)') = MaxConcurrency
<1>1. Held(s)' = Held(s) \cup {w} /\ w \notin Held(s)
  BY DEF Held
<1>2. Cardinality(Held(s)') = Cardinality(Held(s)) + 1
  BY <1>1, HeldFinite, FS_AddElement
<1>3. permits[s] + Cardinality(Held(s)) = MaxConcurrency
  BY DEF PermitsAccounted, Held
<1> QED BY <1>2, <1>3, HeldFinite DEF ShapeOK

LEMMA GivesPermit ==
  ASSUME ShapeOK, PermitsAccounted, NEW s \in Caller, NEW w \in Wallet,
         permits'[s] = permits[s] + 1,
         task[s][w].pc \in Running, task'[s][w].pc \notin Running,
         \A x \in Wallet : x # w => task'[s][x] = task[s][x]
  PROVE  permits'[s] + Cardinality(Held(s)') = MaxConcurrency
<1>1. Held(s)' = Held(s) \ {w} /\ w \in Held(s)
  BY DEF Held
<1>2. Cardinality(Held(s)') = Cardinality(Held(s)) - 1
  BY <1>1, HeldFinite, FS_RemoveElement
<1>3. permits[s] + Cardinality(Held(s)) = MaxConcurrency
  BY DEF PermitsAccounted, Held
<1> QED BY <1>2, <1>3, HeldFinite DEF ShapeOK

LEMMA RunningFinished == Running \cap Finished = {} /\ "none" \notin Running /\ "check" \in Running
  BY DEF Running, Finished

LEMMA InitPermits == Init => PermitsAccounted
<1> SUFFICES ASSUME Init, NEW s \in Caller
             PROVE  permits[s] + Cardinality(Held(s)) = MaxConcurrency
  BY DEF PermitsAccounted, Held
<1>1. Held(s) = {}
  BY NoTaskType, RunningFinished DEF Init, Held
<1> QED BY <1>1, FS_EmptySet, Bounds DEF Init

LEMMA NextPermits ==
  ShapeOK /\ CallInv /\ PermitsAccounted /\ [Next]_vars => PermitsAccounted'
<1> SUFFICES ASSUME ShapeOK, CallInv, PermitsAccounted, [Next]_vars, NEW c \in Caller
             PROVE  permits'[c] + Cardinality(Held(c)') = MaxConcurrency
  BY DEF PermitsAccounted, Held
<1> DEFINE Goal == permits'[c] + Cardinality(Held(c)') = MaxConcurrency
<1>0. permits \in [Caller -> Nat] /\ task \in [Caller -> [Wallet -> Task]]
  BY DEF ShapeOK
<1>1. ASSUME NEW s \in Caller, NEW w \in Wallet, TaskStep(s, w) PROVE Goal
  <2>1. CASE c # s
    <3>1. permits'[c] = permits[c] /\ \A x \in Wallet : task'[c][x] = task[c][x]
      BY <1>0, <1>1, <2>1, TaskStepFacts
    <3> QED BY <3>1, KeepsPermit
  <2>2. CASE c = s /\ task'[s][w].pc \in Running
    <3>1. permits' = permits
      BY <1>1, <2>2, TaskStepFacts, RunningFinished
    <3>2. \A x \in Wallet : task'[s][x].pc \in Running <=> task[s][x].pc \in Running
      BY <1>1, <2>2, TaskStepFacts
    <3> QED BY <2>2, <3>1, <3>2, KeepsPermit
  <2>3. CASE c = s /\ task'[s][w].pc \notin Running
    <3>1. permits'[s] = permits[s] + 1 /\ task[s][w].pc \in Running
      BY <1>0, <1>1, <2>3, TaskStepFacts
    <3>2. \A x \in Wallet : x # w => task'[s][x] = task[s][x]
      BY <1>1, TaskStepFacts
    <3> QED BY <2>3, <3>1, <3>2, GivesPermit
  <2> QED BY <2>1, <2>2, <2>3
<1>2. ASSUME NEW s \in Caller, NEW w \in Wallet, Spawn(s, w) PROVE Goal
  <2>1. /\ permits' = [permits EXCEPT ![s] = @ - 1]
        /\ task' = [task EXCEPT ![s][w] = [NoTask EXCEPT !.pc = "check", !.attempt = 1]]
        /\ w \in call[s].todo
    BY <1>2 DEF Spawn
  <2>2. CASE c # s
    <3>1. permits'[c] = permits[c] /\ task'[c] = task[c]
      BY <1>0, <2>1, <2>2
    <3> QED BY <3>1, KeepsPermit
  <2>3. CASE c = s
    <3>1. [NoTask EXCEPT !.pc = "check", !.attempt = 1].pc = "check"
      BY NoTaskType DEF Task
    <3>2. task'[s][w].pc \in Running /\ \A x \in Wallet : x # w => task'[s][x] = task[s][x]
      BY <1>0, <2>1, <3>1, RunningFinished
    <3>3. task[s][w].pc \notin Running
      BY <2>1, RunningFinished DEF CallInv
    <3>4. permits'[s] = permits[s] - 1
      BY <1>0, <2>1
    <3> QED BY <2>3, <3>2, <3>3, <3>4, TakesPermit
  <2> QED BY <2>2, <2>3
<1>3. ASSUME NEW s \in Caller, Join(s) PROVE Goal
  <2> DEFINE w == Head(call[s].handles)
  <2>1. /\ permits' = permits /\ task' = [task EXCEPT ![s][w] = NoTask]
        /\ task[s][w].pc \in Finished
    BY <1>3 DEF Join
  <2> HIDE DEF w
  <2>2. \A x \in Wallet : task'[c][x].pc \in Running <=> task[c][x].pc \in Running
    <3>1. TAKE x \in Wallet
    <3>2. CASE c = s /\ x = w
      BY <1>0, <2>1, <3>2, NoTaskType, RunningFinished
    <3>3. CASE c # s \/ x # w
      BY <1>0, <2>1, <3>3
    <3> QED BY <3>2, <3>3
  <2> QED BY <2>1, <2>2, KeepsPermit
<1>4. CASE Restart
  <2>1. Held(c)' = {}
    BY <1>4, NoTaskType, RunningFinished DEF Restart, Held
  <2>2. permits'[c] = MaxConcurrency
    BY <1>4 DEF Restart
  <2> QED BY <2>1, <2>2, FS_EmptySet, Bounds
<1>5. CASE UNCHANGED <<permits, task>>
  BY <1>5, KeepsPermit
<1> QED BY <1>1, <1>2, <1>3, <1>4, <1>5
        DEF Next, CallStep, Wake, ListWallets, ListFails, AllSpawned, AllJoined,
            DeleteWallet, Mine, Tick, vars

SyncInv == ShapeOK /\ CallInv /\ PermitsAccounted

LEMMA SyncInvariant == Spec => []SyncInv
<1>1. Init => SyncInv
  <2> SUFFICES ASSUME Init PROVE CallInv
    BY InitShapeOK, InitPermits DEF SyncInv
  <2> QED BY NoTaskType DEF Init, CallInv, Asleep
<1>2. SyncInv /\ [Next]_vars => SyncInv'
  BY NextShapeOK, NextCallInv, NextPermits DEF SyncInv
<1> QED BY <1>1, <1>2, PTL DEF Spec

(* Type correctness: with the permits counted, no call has more of them    *)
(* than it began with.                                                     *)
THEOREM TypeCorrect == Spec => []TypeOK
<1>1. SyncInv => TypeOK
  <2> SUFFICES ASSUME SyncInv, NEW s \in Caller
               PROVE  permits[s] \in 0..MaxConcurrency
    BY DEF SyncInv, ShapeOK, TypeOK
  <2>1. permits[s] + Cardinality(Held(s)) = MaxConcurrency /\ permits[s] \in Nat
    BY DEF SyncInv, PermitsAccounted, ShapeOK, Held
  <2> QED BY <2>1, HeldFinite, Bounds
<1> QED BY <1>1, SyncInvariant, PTL

(* A permit is out for each task that has not ended and for no other,      *)
(* however the tasks end: no panic, retry or deleted wallet leaks one.     *)
THEOREM PermitsBalance == Spec => []PermitsAccounted
<1>1. SyncInv => PermitsAccounted
  BY DEF SyncInv
<1> QED BY <1>1, SyncInvariant, PTL

-----------------------------------------------------------------------------
(* The snapshots.  What a step may do to the snapshots of a wallet, and    *)
(* with them to the task of one call.                                      *)

Add(w, s) == /\ task[s][w].pc = "insert" /\ wallets[w] = "present"
             /\ snapshots' = Stored(s, w)

SnapshotsMove(w) ==
  \/ wallets'[w] = wallets[w] /\ snapshots'[w] = snapshots[w]
  \/ wallets'[w] = wallets[w] /\ \E s \in Caller : Add(w, s)
  \/ wallets'[w] = "deleted" /\ snapshots'[w] = <<>> /\ indexer_runs'[w] = {}
     /\ daily'[w] = [d \in Day |-> None]

Stands == UNCHANGED <<snapshots, now>>

After == {"daily", "touch", "read", "write", "ok"}

TaskMoves(s, w) ==
  \/ task'[s][w] = task[s][w]
  \/ task'[s][w].pc \in {"none", "check", "backoff", "error", "panicked"}
  \/ /\ task'[s][w].pc = "observe" /\ ~Recent(w)
     /\ task'[s][w].saw = Len(snapshots[w]) /\ Stands
  \/ /\ task[s][w].pc = "observe" /\ task'[s][w].pc = "insert"
     /\ task'[s][w].saw = task[s][w].saw /\ task'[s][w].at = now /\ Stands
  \/ task'[s][w].pc = "daily" /\ task'[s][w].at = task[s][w].at /\ Add(w, s)
  \/ task[s][w].pc \in After /\ task'[s][w].pc \in After \ {"daily"} /\ Stands
  \/ task'[s][w].pc = "ok" /\ snapshots[w] # <<>> /\ Stands

LEMMA AttemptMoves ==
  ASSUME ShapeOK, NEW s \in Caller, NEW w \in Wallet, Attempt(s, w)
  PROVE  TaskMoves(s, w) /\ SnapshotsMove(w) /\ UNCHANGED <<daily, indexer_runs>>
<1>0. task[s][w] \in Task /\ task \in [Caller -> [Wallet -> Task]]
  BY TaskFacts DEF ShapeOK
<1>1. ASSUME NEW t, Become(s, w, t) PROVE task'[s][w] = t
  BY <1>0, <1>1 DEF Become
<1>2. ASSUME NEW o, Ends(s, w, o) PROVE task'[s][w].pc = o
  BY <1>1, <1>2, NoTaskType DEF Ends, Task
<1>3. ASSUME Failed(s, w) PROVE task'[s][w].pc \in {"backoff", "error"}
  <2>1. CASE task[s][w].attempt < MaxRetries
    <3> DEFINE t == [NoTask EXCEPT !.pc = "backoff", !.attempt = task[s][w].attempt + 1]
    <3>1. t.pc = "backoff"
      BY NoTaskType DEF Task
    <3> QED BY <1>1, <1>3, <2>1, <3>1 DEF Failed
  <2> QED BY <1>2, <1>3, <2>1 DEF Failed
<1>4. CASE CheckInterval(s, w)
  <2> DEFINE t == [task[s][w] EXCEPT !.pc = "observe", !.saw = Len(snapshots[w])]
  <2>1. t.pc = "observe" /\ t.saw = Len(snapshots[w])
    BY <1>0 DEF Task
  <2> QED BY <1>1, <1>4, <2>1 DEF CheckInterval, db, TaskMoves, SnapshotsMove, Stands
<1>5. CASE SkipRecent(s, w)
  <2>1. snapshots[w] # <<>>
    BY <1>5 DEF SkipRecent, Recent
  <2> QED BY <1>2, <1>5, <2>1 DEF SkipRecent, db, TaskMoves, SnapshotsMove, Stands
<1>6. CASE Observe(s, w)
  <2> DEFINE t == [task[s][w] EXCEPT !.pc = "insert", !.block = height[ChainOf[w]], !.at = now]
  <2>1. t.pc = "insert" /\ t.saw = task[s][w].saw /\ t.at = now
    BY <1>0 DEF Task
  <2> QED BY <1>1, <1>6, <2>1 DEF Observe, db, TaskMoves, SnapshotsMove, Stands
<1>7. CASE InsertSnapshot(s, w)
  <2> DEFINE t == [NoTask EXCEPT !.pc = "daily", !.block = task[s][w].block, !.at = task[s][w].at]
  <2>1. t.pc = "daily" /\ t.at = task[s][w].at
    BY NoTaskType DEF Task
  <2> QED BY <1>1, <1>7, <2>1 DEF InsertSnapshot, TaskMoves, SnapshotsMove, Add
<1>8. CASE AttemptFails(s, w) \/ InsertUnanswered(s, w)
  BY <1>3, <1>8 DEF AttemptFails, InsertUnanswered, db, TaskMoves, SnapshotsMove, Add
<1>9. CASE Retry(s, w)
  <2>1. [task[s][w] EXCEPT !.pc = "check"].pc = "check"
    BY <1>0 DEF Task
  <2> QED BY <1>1, <1>9, <2>1 DEF Retry, db, TaskMoves, SnapshotsMove
<1> QED BY <1>4, <1>5, <1>6, <1>7, <1>8, <1>9 DEF Attempt

LEMMA FollowMoves ==
  ASSUME ShapeOK, NEW s \in Caller, NEW w \in Wallet, Follow(s, w)
  PROVE  TaskMoves(s, w) /\ UNCHANGED <<wallets, snapshots, indexer_runs>>
<1>0. task[s][w] \in Task /\ task \in [Caller -> [Wallet -> Task]]
  BY TaskFacts DEF ShapeOK
<1>1. ASSUME NEW t, Become(s, w, t) PROVE task'[s][w] = t
  BY <1>0, <1>1 DEF Become
<1>2. ASSUME NEW o, Ends(s, w, o) PROVE task'[s][w].pc = o
  BY <1>1, <1>2, NoTaskType DEF Ends, Task
<1>3. CASE UpsertDaily(s, w)
  <2>1. [task[s][w] EXCEPT !.pc = "touch", !.at = 0].pc = "touch"
    BY <1>0 DEF Task
  <2> QED BY <1>1, <1>3, <2>1 DEF UpsertDaily, TaskMoves, Stands, After
<1>4. CASE TouchCursor(s, w)
  <2>1. [task[s][w] EXCEPT !.pc = "read"].pc = "read"
    BY <1>0 DEF Task
  <2> QED BY <1>1, <1>4, <2>1 DEF TouchCursor, TaskMoves, Stands, After
<1>5. CASE ReadCursor(s, w)
  <2>1. [task[s][w] EXCEPT !.pc = "write"].pc = "write"
    BY <1>0 DEF Task
  <2> QED BY <1>1, <1>5, <2>1 DEF ReadCursor, db, TaskMoves, Stands, After
<1>6. CASE ReadFails(s, w)
  BY <1>2, <1>6 DEF ReadFails, db, TaskMoves, Stands, After
<1>7. CASE FetchPanics(s, w)
  BY <1>2, <1>7 DEF FetchPanics, db, TaskMoves
<1>8. CASE WriteCursor(s, w)
  BY <1>2, <1>8 DEF WriteCursor, TaskMoves, Stands, After
<1> QED BY <1>3, <1>4, <1>5, <1>6, <1>7, <1>8 DEF Follow

LEMMA AttemptElsewhere ==
  ASSUME ShapeOK, NEW s \in Caller, NEW w \in Wallet, Attempt(s, w),
         NEW x \in Wallet, x # w
  PROVE  wallets'[x] = wallets[x] /\ snapshots'[x] = snapshots[x]
  BY DEF Attempt, CheckInterval, SkipRecent, Observe, InsertSnapshot, InsertUnanswered,
         AttemptFails, Retry, Stored, db, ShapeOK

LEMMA StepMoves ==
  ASSUME ShapeOK, [Next]_vars, NEW c \in Caller, NEW x \in Wallet
  PROVE  TaskMoves(c, x) /\ SnapshotsMove(x) /\ now' >= now
<1>0. now \in Nat /\ task \in [Caller -> [Wallet -> Task]]
  BY Bounds DEF ShapeOK, Time
<1>1. ASSUME NEW s \in Caller, NEW w \in Wallet, TaskStep(s, w)
      PROVE  TaskMoves(c, x) /\ SnapshotsMove(x)
  <2>1. c # s \/ x # w => task'[c][x] = task[c][x]
    BY <1>1, TaskStepFacts
  <2>2. TaskMoves(c, x)
    <3>1. CASE c = s /\ x = w
      BY <1>1, <3>1, AttemptMoves, FollowMoves DEF TaskStep
    <3>2. CASE c # s \/ x # w
      BY <2>1, <3>2 DEF TaskMoves
    <3> QED BY <3>1, <3>2
  <2>3. SnapshotsMove(x)
    <3>1. CASE Attempt(s, w) /\ x = w
      BY <3>1, AttemptMoves
    <3>2. CASE Attempt(s, w) /\ x # w
      BY <3>2, AttemptElsewhere DEF SnapshotsMove
    <3>3. CASE Follow(s, w)
      BY <3>3, FollowMoves DEF SnapshotsMove
    <3> QED BY <1>1, <3>1, <3>2, <3>3 DEF TaskStep
  <2> QED BY <2>2, <2>3
<1>2. ASSUME NEW s \in Caller, CallStep(s)
      PROVE  TaskMoves(c, x) /\ UNCHANGED <<wallets, snapshots, now>>
  <2>1. task'[c][x] = task[c][x] \/ task'[c][x].pc \in {"none", "check"}
    <3>1. ASSUME NEW w \in Wallet, Spawn(s, w)
          PROVE  task'[c][x] = task[c][x] \/ task'[c][x].pc \in {"none", "check"}
      <4>1. [NoTask EXCEPT !.pc = "check", !.attempt = 1].pc = "check"
        BY NoTaskType DEF Task
      <4> QED BY <1>0, <3>1, <4>1 DEF Spawn
    <3>2. CASE Join(s)
      BY <1>0, <3>2, NoTaskType DEF Join
    <3> QED BY <1>2, <3>1, <3>2 DEF CallStep, Wake, ListWallets, ListFails, AllSpawned, AllJoined
  <2> QED BY <1>2, <2>1 DEF TaskMoves, CallStep, Wake, ListWallets, ListFails, Spawn,
                            AllSpawned, Join, AllJoined, db
<1>3. ASSUME NEW w \in Wallet, DeleteWallet(w) PROVE TaskMoves(c, x) /\ SnapshotsMove(x)
  <2>1. CASE x = w
    BY <1>3, <2>1 DEF DeleteWallet, ShapeOK, TaskMoves, SnapshotsMove
  <2>2. CASE x # w
    BY <1>3, <2>2 DEF DeleteWallet, ShapeOK, TaskMoves, SnapshotsMove
  <2> QED BY <2>1, <2>2
<1>4. ASSUME Restart PROVE TaskMoves(c, x) /\ SnapshotsMove(x)
  <2>1. task'[c][x].pc = "none" /\ wallets'[x] = wallets[x] /\ snapshots'[x] = snapshots[x]
    BY <1>4, NoTaskType DEF Restart, db
  <2>2. TaskMoves(c, x)
    BY <2>1 DEF TaskMoves
  <2>3. SnapshotsMove(x)
    BY <2>1 DEF SnapshotsMove
  <2> QED BY <2>2, <2>3
<1>5. ASSUME UNCHANGED <<wallets, snapshots, task>>
      PROVE  TaskMoves(c, x) /\ SnapshotsMove(x)
  <2>1. /\ task'[c][x] = task[c][x]
        /\ wallets'[x] = wallets[x] /\ snapshots'[x] = snapshots[x]
    BY <1>5
  <2>2. TaskMoves(c, x)
    BY <2>1 DEF TaskMoves
  <2>3. SnapshotsMove(x)
    BY <2>1 DEF SnapshotsMove
  <2> QED BY <2>2, <2>3
<1>6. now' >= now
  <2>1. CASE Tick
    BY <1>0, <2>1 DEF Tick
  <2>2. CASE UNCHANGED now
    BY <1>0, <2>2
  <2>3. CASE \E s \in Caller : CallStep(s) \/ \E w \in Wallet : TaskStep(s, w)
    BY <1>2, <2>2, <2>3, TaskStepFacts
  <2> QED BY <2>1, <2>2, <2>3 DEF Next, DeleteWallet, Restart, Mine, vars
<1>7. ASSUME NEW d \in Chain, Mine(d) PROVE UNCHANGED <<wallets, snapshots, task>>
  BY <1>7 DEF Mine, db
<1>8. ASSUME Tick \/ UNCHANGED vars PROVE TaskMoves(c, x) /\ SnapshotsMove(x)
  BY <1>5, <1>8 DEF Tick, vars, db
<1>9. ASSUME NEW s \in Caller, CallStep(s) PROVE TaskMoves(c, x) /\ SnapshotsMove(x)
  BY <1>2, <1>9 DEF SnapshotsMove
<1> QED BY <1>1, <1>3, <1>4, <1>5, <1>6, <1>7, <1>8, <1>9 DEF Next

(* What a task knows of the snapshots of a wallet that is still there.     *)
Storing ==
  \A s \in Caller, w \in Wallet : wallets[w] = "present" =>
    /\ task[s][w].pc \in {"observe", "insert"} => task[s][w].saw <= Len(snapshots[w])
    /\ task[s][w].pc = "observe" =>
         \A i \in 1..task[s][w].saw : snapshots[w][i].at + Interval <= now
    /\ task[s][w].pc = "insert" =>
         \A i \in 1..task[s][w].saw : snapshots[w][i].at + Interval <= task[s][w].at
    /\ task[s][w].pc = "daily" =>
         \E i \in DOMAIN snapshots[w] : snapshots[w][i].at = task[s][w].at
    /\ task[s][w].pc \in After => snapshots[w] # <<>>

LEMMA SnapshotsType ==
  ASSUME ShapeOK, NEW w \in Wallet
  PROVE  /\ snapshots[w] \in Seq(Snapshot)
         /\ Len(snapshots[w]) \in Nat /\ DOMAIN snapshots[w] = 1..Len(snapshots[w])
         /\ \A i \in DOMAIN snapshots[w] : snapshots[w][i].at \in Nat
<1>1. snapshots[w] \in Seq(Snapshot)
  BY DEF ShapeOK
<1>2. \A r \in Snapshot : r.at \in Nat
  BY Bounds DEF Snapshot, Time
<1> QED BY <1>1, <1>2

(* The snapshots of a wallet that stays keep their places.                 *)
LEMMA SnapshotsStay ==
  ASSUME ShapeOK, NEW w \in Wallet, SnapshotsMove(w), wallets'[w] = "present"
  PROVE  /\ wallets[w] = "present"
         /\ Len(snapshots'[w]) \in Nat /\ Len(snapshots'[w]) >= Len(snapshots[w])
         /\ \A i \in 1..Len(snapshots[w]) : snapshots'[w][i] = snapshots[w][i]
         /\ DOMAIN snapshots'[w] = 1..Len(snapshots'[w])
<1>1. CASE wallets'[w] = wallets[w] /\ snapshots'[w] = snapshots[w]
  BY <1>1, SnapshotsType
<1>2. ASSUME NEW s \in Caller, wallets'[w] = wallets[w], Add(w, s)
      PROVE  /\ wallets[w] = "present"
             /\ Len(snapshots'[w]) \in Nat /\ Len(snapshots'[w]) >= Len(snapshots[w])
             /\ \A i \in 1..Len(snapshots[w]) : snapshots'[w][i] = snapshots[w][i]
             /\ DOMAIN snapshots'[w] = 1..Len(snapshots'[w])
  <2> DEFINE new == [at |-> task[s][w].at, saw |-> task[s][w].saw]
  <2>1. new \in Snapshot
    BY TaskFacts DEF Snapshot
  <2>2. snapshots'[w] = Append(snapshots[w], new)
    BY <1>2 DEF Add, Stored, ShapeOK
  <2> HIDE DEF new
  <2> QED BY <1>2, <2>1, <2>2, SnapshotsType
<1> QED BY <1>1, <1>2 DEF SnapshotsMove

LEMMA AddedLast ==
  ASSUME ShapeOK, NEW s \in Caller, NEW w \in Wallet, Add(w, s)
  PROVE  /\ Len(snapshots'[w]) = Len(snapshots[w]) + 1
         /\ DOMAIN snapshots'[w] = 1..Len(snapshots'[w])
         /\ snapshots'[w][Len(snapshots'[w])].at = task[s][w].at
         /\ snapshots'[w][Len(snapshots'[w])].saw = task[s][w].saw
<1> DEFINE new == [at |-> task[s][w].at, saw |-> task[s][w].saw]
<1>1. new \in Snapshot /\ new.at = task[s][w].at /\ new.saw = task[s][w].saw
  BY TaskFacts DEF Snapshot
<1>2. snapshots'[w] = Append(snapshots[w], new)
  BY DEF Add, Stored, ShapeOK
<1> HIDE DEF new
<1> QED BY <1>1, <1>2, SnapshotsType

LEMMA NextStoring == ShapeOK /\ Storing /\ [Next]_vars => Storing'
<1> SUFFICES ASSUME ShapeOK, Storing, [Next]_vars,
                    NEW s \in Caller, NEW w \in Wallet, wallets'[w] = "present"
             PROVE  /\ task'[s][w].pc \in {"observe", "insert"} => task'[s][w].saw <= Len(snapshots'[w])
                    /\ task'[s][w].pc = "observe" =>
                         \A i \in 1..task'[s][w].saw : snapshots'[w][i].at + Interval <= now'
                    /\ task'[s][w].pc = "insert" =>
                         \A i \in 1..task'[s][w].saw :
                           snapshots'[w][i].at + Interval <= task'[s][w].at
                    /\ task'[s][w].pc = "daily" =>
                         \E i \in DOMAIN snapshots'[w] : snapshots'[w][i].at = task'[s][w].at
                    /\ task'[s][w].pc \in After => snapshots'[w] # <<>>
  BY DEF Storing
<1>1. /\ TaskMoves(s, w) /\ SnapshotsMove(w) /\ now' >= now
      /\ now \in Nat /\ now' \in Nat /\ Interval \in Nat
      /\ task[s][w].saw \in Nat
  BY StepMoves, NextShapeOK, TaskFacts, Bounds DEF ShapeOK, Time
<1>2. /\ wallets[w] = "present"
      /\ Len(snapshots'[w]) \in Nat /\ Len(snapshots'[w]) >= Len(snapshots[w])
      /\ \A i \in 1..Len(snapshots[w]) : snapshots'[w][i] = snapshots[w][i]
      /\ DOMAIN snapshots'[w] = 1..Len(snapshots'[w])
  BY <1>1, SnapshotsStay
<1>3. /\ Len(snapshots[w]) \in Nat /\ DOMAIN snapshots[w] = 1..Len(snapshots[w])
      /\ \A i \in DOMAIN snapshots[w] : snapshots[w][i].at \in Nat
      /\ snapshots[w] # <<>> => Len(snapshots[w]) > 0
  BY SnapshotsType
<1>4. snapshots[w] # <<>> => snapshots'[w] # <<>>
  BY <1>2, <1>3
<1>5. CASE task'[s][w] = task[s][w]
  <2>1. CASE task[s][w].pc = "observe"
    <3>1. /\ task[s][w].saw <= Len(snapshots[w])
          /\ \A i \in 1..task[s][w].saw : snapshots[w][i].at + Interval <= now
      BY <1>2, <2>1 DEF Storing
    <3>2. \A i \in 1..task[s][w].saw : snapshots'[w][i].at + Interval <= now'
      <4>1. TAKE i \in 1..task[s][w].saw
      <4>2. i \in DOMAIN snapshots[w] /\ snapshots'[w][i] = snapshots[w][i]
        BY <1>1, <1>2, <1>3, <3>1
      <4>3. snapshots[w][i].at \in Nat /\ snapshots[w][i].at + Interval <= now
        BY <1>3, <3>1, <4>2
      <4> QED BY <1>1, <4>2, <4>3
    <3> QED BY <1>1, <1>2, <1>3, <1>5, <2>1, <3>1, <3>2 DEF After
  <2>2. CASE task[s][w].pc = "insert"
    <3>1. /\ task[s][w].saw <= Len(snapshots[w])
          /\ \A i \in 1..task[s][w].saw : snapshots[w][i].at + Interval <= task[s][w].at
      BY <1>2, <2>2 DEF Storing
    <3>2. \A i \in 1..task[s][w].saw : snapshots'[w][i].at + Interval <= task[s][w].at
      BY <1>1, <1>2, <1>3, <3>1
    <3> QED BY <1>1, <1>2, <1>3, <1>5, <2>2, <3>1, <3>2 DEF After
  <2>3. CASE task[s][w].pc \in After
    <3>1. snapshots[w] # <<>>
      BY <1>2, <2>3 DEF Storing
    <3>2. task[s][w].pc = "daily" =>
            \E i \in DOMAIN snapshots[w] : snapshots[w][i].at = task[s][w].at
      BY <1>2 DEF Storing
    <3>3. task[s][w].pc = "daily" =>
            \E i \in DOMAIN snapshots'[w] : snapshots'[w][i].at = task[s][w].at
      BY <1>2, <1>3, <3>2
    <3> QED BY <1>4, <1>5, <2>3, <3>1, <3>3 DEF After
  <2> QED BY <1>5, <2>1, <2>2, <2>3 DEF After
<1>6. CASE task'[s][w].pc \in {"none", "check", "backoff", "error", "panicked"}
  BY <1>6 DEF After
<1>7. CASE /\ task'[s][w].pc = "observe" /\ ~Recent(w)
           /\ task'[s][w].saw = Len(snapshots[w]) /\ Stands
  <2>1. \A i \in DOMAIN snapshots[w] : snapshots[w][i].at + Interval <= now
    BY <1>1, <1>3, <1>7 DEF Recent
  <2> QED BY <1>3, <1>7, <2>1 DEF Stands, After
<1>8. CASE /\ task[s][w].pc = "observe" /\ task'[s][w].pc = "insert"
           /\ task'[s][w].saw = task[s][w].saw /\ task'[s][w].at = now /\ Stands
  BY <1>2, <1>8 DEF Storing, Stands, After
<1>9. CASE task'[s][w].pc = "daily" /\ task'[s][w].at = task[s][w].at /\ Add(w, s)
  <2>1. /\ Len(snapshots'[w]) \in DOMAIN snapshots'[w]
        /\ snapshots'[w][Len(snapshots'[w])].at = task'[s][w].at
    BY <1>2, <1>3, <1>9, AddedLast
  <2>2. snapshots'[w] # <<>>
    BY <2>1
  <2> QED BY <1>9, <2>1, <2>2
<1>10. CASE task[s][w].pc \in After /\ task'[s][w].pc \in After \ {"daily"} /\ Stands
  BY <1>2, <1>4, <1>10 DEF Storing, After
<1>11. CASE task'[s][w].pc = "ok" /\ snapshots[w] # <<>> /\ Stands
  BY <1>4, <1>11
<1> QED BY <1>1, <1>5, <1>6, <1>7, <1>8, <1>9, <1>10, <1>11 DEF TaskMoves

LEMMA NextSpaced == ShapeOK /\ Storing /\ SpacedUnlessRaced /\ [Next]_vars => SpacedUnlessRaced'
<1> SUFFICES ASSUME ShapeOK, Storing, SpacedUnlessRaced, [Next]_vars,
                    NEW w \in Wallet, NEW j \in DOMAIN snapshots'[w],
                    NEW i \in 1..snapshots'[w][j].saw, i < j
             PROVE  snapshots'[w][j].at >= snapshots'[w][i].at + Interval
  BY DEF SpacedUnlessRaced
<1>1. CASE snapshots'[w] = snapshots[w]
  BY <1>1 DEF SpacedUnlessRaced
<1>2. ASSUME NEW s \in Caller, wallets'[w] = wallets[w], Add(w, s)
      PROVE  snapshots'[w][j].at >= snapshots'[w][i].at + Interval
  <2> DEFINE n == Len(snapshots[w])
  <2>1. /\ n \in Nat /\ DOMAIN snapshots[w] = 1..n
        /\ task[s][w].at \in Nat /\ task[s][w].saw \in Nat /\ Interval \in Nat
        /\ \A k \in 1..n : snapshots[w][k].at \in Nat
    BY SnapshotsType, TaskFacts, Bounds DEF Time
  <2>2. /\ DOMAIN snapshots'[w] = 1..(n + 1)
        /\ snapshots'[w][n + 1].at = task[s][w].at
        /\ snapshots'[w][n + 1].saw = task[s][w].saw
    BY <1>2, AddedLast
  <2>3. wallets[w] = "present" /\ \A k \in 1..n : snapshots'[w][k] = snapshots[w][k]
    BY <1>2, SnapshotsStay DEF SnapshotsMove, Add
  <2>4. CASE j \in 1..n
    BY <2>1, <2>3, <2>4 DEF SpacedUnlessRaced
  <2>5. CASE j = n + 1
    <3>1. task[s][w].saw <= n /\ snapshots[w][i].at + Interval <= task[s][w].at
      BY <1>2, <2>2, <2>3, <2>5 DEF Storing, Add
    <3>2. i \in 1..n /\ snapshots'[w][i] = snapshots[w][i]
      BY <2>1, <2>2, <2>3, <2>5, <3>1
    <3> QED BY <2>1, <2>2, <2>5, <3>1, <3>2
  <2> QED BY <2>1, <2>2, <2>4, <2>5
<1>3. CASE wallets'[w] = "deleted" /\ snapshots'[w] = <<>>
  BY <1>3
<1>4. PICK c \in Caller : TRUE
  BY DEF Caller
<1> QED BY <1>1, <1>2, <1>3, <1>4, StepMoves DEF SnapshotsMove

(* What a step writes into the days and the log of a wallet.               *)
LogsOk(w, s) == task[s][w].pc = "ok" /\ wallets[w] = "present" /\ UNCHANGED <<wallets, snapshots>>

Books(w, s) == /\ task[s][w].pc = "daily" /\ wallets[w] = "present"
               /\ StoreDaily(s, w) /\ UNCHANGED <<wallets, snapshots>>

LEMMA StepWrites ==
  ASSUME ShapeOK, [Next]_vars, NEW w \in Wallet
  PROVE  /\ \/ daily'[w] = daily[w]
            \/ \E s \in Caller : Books(w, s)
            \/ daily'[w] = [d \in Day |-> None]
         /\ \/ "ok" \in indexer_runs'[w] => "ok" \in indexer_runs[w]
            \/ \E s \in Caller : LogsOk(w, s)
<1> DEFINE Goal == /\ \/ daily'[w] = daily[w]
                      \/ \E s \in Caller : Books(w, s)
                      \/ daily'[w] = [d \in Day |-> None]
                   /\ \/ "ok" \in indexer_runs'[w] => "ok" \in indexer_runs[w]
                      \/ \E s \in Caller : LogsOk(w, s)
<1>0. ASSUME UNCHANGED <<daily, indexer_runs>> PROVE Goal
  BY <1>0
<1>1. ASSUME NEW s \in Caller, Join(s) PROVE Goal
  <2> DEFINE x == Head(call[s].handles)
  <2>1. /\ call[s].handles # <<>> /\ daily' = daily /\ wallets' = wallets /\ snapshots' = snapshots
        /\ Log(x, task[s][x].pc)
    BY <1>1 DEF Join
  <2> HIDE DEF x
  <2>2. CASE UNCHANGED indexer_runs
    BY <2>1, <2>2, <1>0
  <2>3. CASE /\ wallets[x] = "present"
             /\ indexer_runs' = [indexer_runs EXCEPT ![x] = @ \cup {task[s][x].pc}]
    <3>1. CASE w = x /\ task[s][x].pc = "ok"
      BY <2>1, <2>3, <3>1 DEF LogsOk
    <3>2. CASE w # x \/ task[s][x].pc # "ok"
      <4>1. "ok" \in indexer_runs'[w] => "ok" \in indexer_runs[w]
        BY <2>3, <3>2 DEF ShapeOK
      <4> QED BY <2>1, <4>1
    <3> QED BY <3>1, <3>2
  <2> QED BY <2>1, <2>2, <2>3 DEF Log
<1>2. ASSUME NEW s \in Caller, NEW x \in Wallet, UpsertDaily(s, x) PROVE Goal
  <2>1. UNCHANGED <<wallets, snapshots, indexer_runs>> /\ task[s][x].pc = "daily"
    BY <1>2 DEF UpsertDaily
  <2>2. CASE UNCHANGED daily
    BY <2>1, <2>2, <1>0
  <2>3. CASE wallets[x] = "present" /\ StoreDaily(s, x)
    <3>1. CASE w = x
      <4>1. Books(w, s)
        BY <2>1, <2>3, <3>1 DEF Books
      <4> QED BY <2>1, <4>1
    <3>2. CASE w # x
      <4>1. daily'[w] = daily[w]
        BY <2>3, <3>2 DEF StoreDaily, ShapeOK
      <4> QED BY <2>1, <4>1
    <3> QED BY <3>1, <3>2
  <2> QED BY <1>2, <2>2, <2>3 DEF UpsertDaily
<1>3. ASSUME NEW x \in Wallet, DeleteWallet(x) PROVE Goal
  BY <1>3 DEF DeleteWallet, ShapeOK
<1>4. ASSUME NEW s \in Caller, CallStep(s) PROVE Goal
  BY <1>0, <1>1, <1>4 DEF CallStep, Wake, ListWallets, ListFails, Spawn, AllSpawned, AllJoined, db
<1>5. ASSUME NEW s \in Caller, NEW x \in Wallet, TaskStep(s, x) PROVE Goal
  <2>1. CASE Attempt(s, x)
    BY <1>0, <2>1, AttemptMoves
  <2>2. CASE Follow(s, x)
    BY <1>0, <1>2, <2>2 DEF Follow, TouchCursor, ReadCursor, ReadFails, FetchPanics, WriteCursor, db
  <2> QED BY <1>5, <2>1, <2>2 DEF TaskStep
<1>6. ASSUME Restart \/ Tick \/ UNCHANGED vars \/ \E c \in Chain : Mine(c) PROVE Goal
  BY <1>0, <1>6 DEF Restart, Tick, Mine, vars, db
<1> HIDE DEF Goal
<1>7. Goal
  BY <1>3, <1>4, <1>5, <1>6 DEF Next
<1> QED BY <1>7 DEF Goal

LEMMA NextDaily == ShapeOK /\ Storing /\ DailyFromSnapshot /\ [Next]_vars => DailyFromSnapshot'
<1> SUFFICES ASSUME ShapeOK, Storing, DailyFromSnapshot, [Next]_vars,
                    NEW w \in Wallet, NEW d \in Day, daily'[w][d] # None
             PROVE  /\ daily'[w][d] \div DayLength = d
                    /\ \E i \in DOMAIN snapshots'[w] : snapshots'[w][i].at = daily'[w][d]
  BY DEF DailyFromSnapshot
<1>1. PICK c \in Caller : TRUE
  BY DEF Caller
<1>2. SnapshotsMove(w)
  BY <1>1, StepMoves
<1>3. CASE wallets'[w] = "deleted" /\ daily'[w] = [e \in Day |-> None]
  BY <1>3
<1>4. CASE daily'[w] = daily[w] /\ \A i \in DOMAIN snapshots[w] :
              i \in DOMAIN snapshots'[w] /\ snapshots'[w][i] = snapshots[w][i]
  BY <1>4 DEF DailyFromSnapshot
<1>5. ASSUME NEW s \in Caller, Books(w, s)
      PROVE  /\ daily'[w][d] \div DayLength = d
             /\ \E i \in DOMAIN snapshots'[w] : snapshots'[w][i].at = daily'[w][d]
  <2> DEFINE day == task[s][w].at \div DayLength
  <2>1. /\ snapshots' = snapshots
        /\ daily' = [daily EXCEPT ![w][day] = task[s][w].at]
        /\ \E i \in DOMAIN snapshots[w] : snapshots[w][i].at = task[s][w].at
    BY <1>5 DEF Books, StoreDaily, Storing
  <2>2. CASE d = day
    <3>1. daily'[w][d] = task[s][w].at
      BY <2>1, <2>2 DEF ShapeOK
    <3> QED BY <2>1, <2>2, <3>1
  <2>3. CASE d # day
    <3>1. daily'[w][d] = daily[w][d]
      BY <2>1, <2>3 DEF ShapeOK
    <3> QED BY <2>1, <3>1 DEF DailyFromSnapshot
  <2> QED BY <2>2, <2>3
<1>6. CASE daily'[w] = [e \in Day |-> None]
  BY <1>6
<1>7. wallets'[w] = "present" => \A i \in DOMAIN snapshots[w] :
              i \in DOMAIN snapshots'[w] /\ snapshots'[w][i] = snapshots[w][i]
  BY <1>2, SnapshotsStay, SnapshotsType
<1>8. CASE daily'[w] = daily[w] /\ wallets'[w] # "present"
  <2>1. CASE snapshots'[w] = snapshots[w]
    BY <1>8, <2>1 DEF DailyFromSnapshot
  <2> QED BY <1>2, <1>3, <1>8, <2>1 DEF SnapshotsMove, Add
<1> QED BY <1>4, <1>5, <1>6, <1>7, <1>8, StepWrites

LEMMA NextOk == ShapeOK /\ Storing /\ OkMeansSnapshot /\ [Next]_vars => OkMeansSnapshot'
<1> SUFFICES ASSUME ShapeOK, Storing, OkMeansSnapshot, [Next]_vars,
                    NEW w \in Wallet, "ok" \in indexer_runs'[w]
             PROVE  snapshots'[w] # <<>>
  BY DEF OkMeansSnapshot
<1>1. PICK c \in Caller : TRUE
  BY DEF Caller
<1>2. SnapshotsMove(w)
  BY <1>1, StepMoves
<1>3. ASSUME NEW s \in Caller, LogsOk(w, s) PROVE snapshots'[w] # <<>>
  BY <1>3 DEF LogsOk, Storing, After
<1>4. CASE "ok" \in indexer_runs[w]
  <2>1. snapshots[w] # <<>>
    BY <1>4 DEF OkMeansSnapshot
  <2>2. ASSUME NEW s \in Caller, Add(w, s) PROVE snapshots'[w] # <<>>
    BY <2>2, AddedLast, SnapshotsType
  <2> QED BY <1>2, <2>1, <2>2 DEF SnapshotsMove
<1> QED BY <1>3, <1>4, StepWrites

StoreInv == ShapeOK /\ Storing /\ SpacedUnlessRaced /\ DailyFromSnapshot /\ OkMeansSnapshot

LEMMA StoreInvariant == Spec => []StoreInv
<1>1. Init => StoreInv
  <2> SUFFICES ASSUME Init PROVE Storing /\ SpacedUnlessRaced /\ DailyFromSnapshot /\ OkMeansSnapshot
    BY InitShapeOK DEF StoreInv
  <2>1. Storing
    BY NoTaskType DEF Init, Storing, After
  <2> QED BY <2>1 DEF Init, SpacedUnlessRaced, DailyFromSnapshot, OkMeansSnapshot
<1>2. StoreInv /\ [Next]_vars => StoreInv'
  BY NextShapeOK, NextStoring, NextSpaced, NextDaily, NextOk DEF StoreInv
<1> QED BY <1>1, <1>2, PTL DEF Spec

(* Two snapshots of a wallet lie at least the minimum interval apart,      *)
(* unless the later one's check came before the earlier one was stored.    *)
THEOREM Spaced == Spec => []SpacedUnlessRaced
<1>1. StoreInv => SpacedUnlessRaced
  BY DEF StoreInv
<1> QED BY <1>1, StoreInvariant, PTL

(* A day's row is a snapshot of that day which is also stored on its own.  *)
THEOREM DailyIsASnapshot == Spec => []DailyFromSnapshot
<1>1. StoreInv => DailyFromSnapshot
  BY DEF StoreInv
<1> QED BY <1>1, StoreInvariant, PTL

(* A wallet whose sync was ever logged as ok has a snapshot.               *)
THEOREM OkHasSnapshot == Spec => []OkMeansSnapshot
<1>1. StoreInv => OkMeansSnapshot
  BY DEF StoreInv
<1> QED BY <1>1, StoreInvariant, PTL

-----------------------------------------------------------------------------
(* That a call returns.  Fairness is out of the prover's reach; what it    *)
(* needs of the model is that a call which has not returned waits for a    *)
(* running task at most, and that its steps run out.                       *)

(* A handle is of a task that has not been joined, and of one only.        *)
HandleInv ==
  \A s \in Caller :
    /\ \A i \in DOMAIN call[s].handles :
         /\ task[s][call[s].handles[i]].pc # "none"
         /\ \A j \in DOMAIN call[s].handles :
              call[s].handles[j] = call[s].handles[i] => j = i
    /\ call[s].pc \in {"asleep", "list"} => call[s].handles = <<>>

(* The guards of the steps of a call but for Wake.                         *)
Goes(s) ==
  \/ call[s].pc = "list"
  \/ call[s].pc = "spawn" /\ (call[s].todo = {} \/ permits[s] > 0)
  \/ call[s].pc = "join" /\ (call[s].handles = <<>>
                             \/ task[s][Head(call[s].handles)].pc \in Finished)

(* What a call that cannot go on waits for is a task of its own that runs. *)
WaitsForRunning ==
  \A s \in Caller : call[s].pc # "asleep" => Goes(s) \/ Held(s) # {}

(* How many more steps a task can make, its joining included, and how many *)
(* a call can make with the wallet and without any.                        *)
Retried == {"check", "observe", "insert", "backoff"}
Place == [none |-> 0, ok |-> 1, error |-> 1, panicked |-> 1, write |-> 2, read |-> 3,
          touch |-> 4, daily |-> 5, insert |-> 6, observe |-> 7, check |-> 8, backoff |-> 9]
TaskAhead(t) == Place[t.pc] + (IF t.pc \in Retried THEN 4 * (MaxRetries - t.attempt) ELSE 0)
MostAhead == 4 * MaxRetries + 10
WalletAhead(s, w) ==
  IF call[s].pc = "list" \/ w \in call[s].todo THEN MostAhead ELSE TaskAhead(task[s][w])
CallAhead(s) == [asleep |-> 0, join |-> 1, spawn |-> 2, list |-> 3][call[s].pc]

(* All the steps a call can still make.                                    *)
StepsAhead(s) ==
  CallAhead(s) + Cardinality({p \in Wallet \X (1..MostAhead) : p[2] <= WalletAhead(s, p[1])})

StepsBounded ==
  \A s \in Caller :
    /\ StepsAhead(s) \in 0..(3 + Cardinality(Wallet) * MostAhead)
    /\ StepsAhead(s) = 0 <=> call[s].pc = "asleep"

StepsRunOut ==
  \A s \in Caller : call[s].pc # "asleep" =>
    /\ StepsAhead(s)' <= StepsAhead(s)
    /\ CallStep(s) \/ (\E w \in Wallet : TaskStep(s, w)) => StepsAhead(s)' < StepsAhead(s)

LEMMA NextHandleInv == ShapeOK /\ CallInv /\ HandleInv /\ [Next]_vars => HandleInv'
<1> SUFFICES ASSUME ShapeOK, CallInv, HandleInv, [Next]_vars PROVE HandleInv'
  OBVIOUS
<1>0. /\ call \in [Caller -> Call] /\ task \in [Caller -> [Wallet -> Task]]
      /\ \A s \in Caller : call[s] \in Call /\ call[s].handles \in Seq(Wallet)
  BY CallRecord DEF ShapeOK
<1>1. ASSUME NEW s \in Caller, NEW w \in Wallet, TaskStep(s, w) PROVE HandleInv'
  <2>1. \A c \in Caller, x \in Wallet : task[c][x].pc # "none" => task'[c][x].pc # "none"
    BY <1>1, TaskStepFacts DEF Running, Finished
  <2>2. \A c \in Caller : \A i \in DOMAIN call[c].handles : call[c].handles[i] \in Wallet
    BY <1>0
  <2> QED BY <1>1, <2>1, <2>2, TaskStepFacts DEF HandleInv
<1>2. ASSUME NEW s \in Caller, NEW w \in Wallet, Spawn(s, w) PROVE HandleInv'
  <2> DEFINE old == call[s].handles
             new == Append(old, w)
  <2>1. /\ call' = [call EXCEPT ![s].todo = call[s].todo \ {w}, ![s].handles = new]
        /\ call[s].pc = "spawn" /\ w \in call[s].todo
        /\ task' = [task EXCEPT ![s][w] = [NoTask EXCEPT !.pc = "check", !.attempt = 1]]
    BY <1>2 DEF Spawn
  <2>2. /\ DOMAIN new = DOMAIN old \cup {Len(old) + 1} /\ Len(old) + 1 \notin DOMAIN old
        /\ new[Len(old) + 1] = w
        /\ \A i \in DOMAIN old : new[i] = old[i] /\ old[i] \in Wallet
    BY <1>0
  <2> HIDE DEF new
  <2>3. call'[s].pc = "spawn" /\ call'[s].handles = new
    BY <1>0, <2>1 DEF Call
  <2>4. \A c \in Caller, x \in Wallet : c # s \/ x # w => task'[c][x] = task[c][x]
    BY <1>0, <2>1
  <2>5. task'[s][w].pc = "check"
    BY <1>0, <2>1, NoTaskType DEF Task
  <2>6. \A i \in DOMAIN old : old[i] # w
    BY <2>1 DEF CallInv, HandleInv
  <2>7. \A i \in DOMAIN new : /\ task'[s][new[i]].pc # "none"
                              /\ \A j \in DOMAIN new : new[j] = new[i] => j = i
    BY <2>2, <2>4, <2>5, <2>6 DEF HandleInv
  <2>8. \A c \in Caller : c # s => call'[c] = call[c] /\ task'[c] = task[c]
    BY <1>0, <2>1
  <2> QED BY <2>3, <2>7, <2>8 DEF HandleInv
<1>3. ASSUME NEW s \in Caller, Join(s) PROVE HandleInv'
  <2> DEFINE old == call[s].handles
             new == Tail(old)
  <2>1. /\ old # <<>> /\ call[s].pc = "join"
        /\ task' = [task EXCEPT ![s][Head(old)] = NoTask]
        /\ call' = [call EXCEPT ![s].handles = new]
    BY <1>3 DEF Join
  <2>2. /\ 1 \in DOMAIN old /\ Head(old) = old[1]
        /\ \A i \in DOMAIN old : old[i] \in Wallet
        /\ \A i \in DOMAIN new : i + 1 \in DOMAIN old /\ i + 1 # 1 /\ new[i] = old[i + 1]
        /\ \A i, j \in DOMAIN new : i + 1 = j + 1 => i = j
    BY <1>0, <2>1
  <2> HIDE DEF new
  <2>3. call'[s].pc = "join" /\ call'[s].handles = new
    BY <1>0, <2>1 DEF Call
  <2>4. \A x \in Wallet : x # Head(old) => task'[s][x] = task[s][x]
    BY <1>0, <2>1
  <2>5. ASSUME NEW i \in DOMAIN new
        PROVE  /\ task'[s][new[i]].pc # "none"
               /\ \A j \in DOMAIN new : new[j] = new[i] => j = i
    BY <2>2, <2>4 DEF HandleInv
  <2>6. \A c \in Caller : c # s => call'[c] = call[c] /\ task'[c] = task[c]
    BY <1>0, <2>1
  <2> QED BY <2>3, <2>5, <2>6 DEF HandleInv
<1>4. ASSUME NEW s \in Caller, Wake(s) \/ ListWallets(s) \/ AllSpawned(s) PROVE HandleInv'
  <2>1. /\ UNCHANGED task /\ call'[s].handles = call[s].handles
        /\ call'[s].pc \in {"asleep", "list"} => call[s].pc \in {"asleep", "list"}
        /\ \A c \in Caller : c # s => call'[c] = call[c]
    BY <1>0, <1>4 DEF Wake, ListWallets, AllSpawned, Call
  <2> QED BY <2>1 DEF HandleInv
<1>5. ASSUME NEW s \in Caller, ListFails(s) \/ AllJoined(s) PROVE HandleInv'
  <2>1. /\ UNCHANGED task /\ call'[s].handles = <<>>
        /\ \A c \in Caller : c # s => call'[c] = call[c]
    BY <1>0, <1>5 DEF ListFails, AllJoined, Returned, Asleep
  <2> QED BY <2>1 DEF HandleInv
<1>6. CASE Restart
  <2>1. \A c \in Caller : call'[c].handles = <<>>
    BY <1>6 DEF Restart, Asleep
  <2> QED BY <2>1 DEF HandleInv
<1>7. CASE UNCHANGED <<call, task>>
  BY <1>7 DEF HandleInv
<1> QED BY <1>1, <1>2, <1>3, <1>4, <1>5, <1>6, <1>7
        DEF Next, CallStep, DeleteWallet, Mine, Tick, vars

CallsInv == SyncInv /\ HandleInv

LEMMA CallsInvariant == Spec => []CallsInv
<1>1. Init => HandleInv
  BY DEF Init, HandleInv, Asleep
<1>2. SyncInv /\ HandleInv /\ [Next]_vars => HandleInv'
  BY NextHandleInv DEF SyncInv
<1> QED BY <1>1, <1>2, SyncInvariant, PTL DEF Spec, CallsInv

(* Nobody waits for nobody: an awake call can go on, or a task of it runs, *)
(* for any number of wallets and permits.  A spawn without a permit waits  *)
(* for a task that has not ended, and a join for one that runs or ended.   *)
THEOREM NeverStuck == Spec => []WaitsForRunning
<1>1. CallsInv => WaitsForRunning
  <2> SUFFICES ASSUME CallsInv, NEW s \in Caller, call[s].pc # "asleep", ~Goes(s)
               PROVE  Held(s) # {}
    BY DEF WaitsForRunning
  <2>1. ShapeOK /\ call[s] \in Call /\ call[s].handles \in Seq(Wallet)
    BY CallRecord DEF CallsInv, SyncInv
  <2>2. CASE call[s].pc = "spawn"
    <3>1. permits[s] = 0
      BY <2>1, <2>2 DEF Goes, ShapeOK
    <3>2. permits[s] + Cardinality(Held(s)) = MaxConcurrency
      BY DEF CallsInv, SyncInv, PermitsAccounted, Held
    <3> QED BY <3>1, <3>2, Bounds, FS_EmptySet
  <2>3. CASE call[s].pc = "join"
    <3> DEFINE w == Head(call[s].handles)
    <3>1. call[s].handles # <<>> /\ task[s][w].pc \notin Finished
      BY <2>3 DEF Goes
    <3>2. 1 \in DOMAIN call[s].handles /\ w = call[s].handles[1] /\ w \in Wallet
      BY <2>1, <3>1
    <3>3. task[s][w].pc # "none"
      BY <3>2 DEF CallsInv, HandleInv
    <3>4. task[s][w].pc \in {"none"} \cup Running \cup Finished
      BY <2>1, <3>2, TaskFacts DEF Task
    <3> QED BY <3>1, <3>2, <3>3, <3>4 DEF Held
  <2> QED BY <2>1, <2>2, <2>3 DEF Goes, Call
<1> QED BY <1>1, CallsInvariant, PTL

-----------------------------------------------------------------------------
(* The steps of a call run out.  The set that is counted is that of the    *)
(* pairs below a function on the wallets.                                  *)

Under(f) == {p \in Wallet \X (1..MostAhead) : p[2] <= f[p[1]]}

LEMMA UnderFinite ==
  ASSUME NEW f
  PROVE  /\ IsFiniteSet(Under(f)) /\ Cardinality(Under(f)) \in Nat
         /\ Cardinality(Under(f)) <= Cardinality(Wallet) * MostAhead
<1>1. MostAhead \in Nat
  BY Bounds DEF MostAhead
<1>2. IsFiniteSet(1..MostAhead) /\ Cardinality(1..MostAhead) = MostAhead
  BY <1>1, FS_Interval
<1>3. /\ IsFiniteSet(Wallet \X (1..MostAhead))
      /\ Cardinality(Wallet \X (1..MostAhead)) = Cardinality(Wallet) * MostAhead
  BY <1>2, FS_Product, SyncAssumption
<1>4. Under(f) \in SUBSET (Wallet \X (1..MostAhead))
  BY DEF Under
<1> QED BY <1>3, <1>4, FS_Subset, FS_CardinalityType

LEMMA UnderFalls ==
  ASSUME NEW f \in [Wallet -> 0..MostAhead], NEW g \in [Wallet -> 0..MostAhead],
         \A w \in Wallet : g[w] <= f[w]
  PROVE  /\ Cardinality(Under(g)) <= Cardinality(Under(f))
         /\ (\E w \in Wallet : g[w] < f[w]) => Cardinality(Under(g)) < Cardinality(Under(f))
<1>0. MostAhead \in Nat
  BY Bounds DEF MostAhead
<1>1. Under(g) \subseteq Under(f)
  <2> SUFFICES ASSUME NEW w \in Wallet, NEW i \in 1..MostAhead, i <= g[w]
               PROVE  i <= f[w]
    BY DEF Under
  <2>1. g[w] \in Int /\ f[w] \in Int /\ g[w] <= f[w]
    BY <1>0
  <2> QED BY <2>1
<1>2. Cardinality(Under(g)) <= Cardinality(Under(f))
  BY <1>1, UnderFinite, FS_Subset
<1>3. ASSUME NEW w \in Wallet, g[w] < f[w]
      PROVE  Cardinality(Under(g)) < Cardinality(Under(f))
  <2>1. f[w] \in 1..MostAhead /\ ~(f[w] <= g[w])
    <3>1. g[w] \in 0..MostAhead /\ f[w] \in 0..MostAhead
      OBVIOUS
    <3> QED BY <1>0, <1>3, <3>1
  <2>2. <<w, f[w]>> \in Under(f) /\ <<w, f[w]>> \notin Under(g)
    BY <1>0, <2>1 DEF Under
  <2>3. Cardinality(Under(g)) # Cardinality(Under(f))
    BY <1>1, <2>2, UnderFinite, FS_Subset
  <2> QED BY <1>2, <2>3, UnderFinite
<1> QED BY <1>2, <1>3

(* What is ahead of a call's wallets, as a function.                       *)
Ahead(s) == [w \in Wallet |-> WalletAhead(s, w)]

LEMMA StepsAreCounted ==
  ASSUME NEW s PROVE StepsAhead(s) = CallAhead(s) + Cardinality(Under(Ahead(s)))
<1>1. {p \in Wallet \X (1..MostAhead) : p[2] <= WalletAhead(s, p[1])} = Under(Ahead(s))
  BY DEF Under, Ahead
<1> QED BY <1>1 DEF StepsAhead

LEMMA Places ==
  /\ Place["none"] = 0 /\ Place["ok"] = 1 /\ Place["error"] = 1 /\ Place["panicked"] = 1
  /\ Place["write"] = 2 /\ Place["read"] = 3 /\ Place["touch"] = 4 /\ Place["daily"] = 5
  /\ Place["insert"] = 6 /\ Place["observe"] = 7 /\ Place["check"] = 8 /\ Place["backoff"] = 9
  BY DEF Place

LEMMA TaskAheadIs ==
  ASSUME NEW t \in Task
  PROVE  /\ TaskAhead(t) \in 0..MostAhead - 1 /\ TaskAhead(t) \in Int
         /\ t.pc = "none" => TaskAhead(t) = 0
         /\ t.pc \in Finished => TaskAhead(t) = 1
         /\ t.pc = "write" => TaskAhead(t) = 2
         /\ t.pc = "read" => TaskAhead(t) = 3
         /\ t.pc = "touch" => TaskAhead(t) = 4
         /\ t.pc = "daily" => TaskAhead(t) = 5
         /\ t.pc = "insert" => TaskAhead(t) = 6 + 4 * (MaxRetries - t.attempt)
         /\ t.pc = "observe" => TaskAhead(t) = 7 + 4 * (MaxRetries - t.attempt)
         /\ t.pc = "check" => TaskAhead(t) = 8 + 4 * (MaxRetries - t.attempt)
         /\ t.pc = "backoff" => TaskAhead(t) = 9 + 4 * (MaxRetries - t.attempt)
<1>1. /\ t.pc \in {"none"} \cup Running \cup Finished /\ t.attempt \in 0..MaxRetries
      /\ MaxRetries \in Nat
  BY Bounds DEF Task
<1>2. /\ Place[t.pc] \in 0..9
      /\ t.pc = "none" => Place[t.pc] = 0 /\ t.pc \notin Retried
      /\ t.pc \in Finished => Place[t.pc] = 1 /\ t.pc \notin Retried
      /\ t.pc = "write" => Place[t.pc] = 2 /\ t.pc \notin Retried
      /\ t.pc = "read" => Place[t.pc] = 3 /\ t.pc \notin Retried
      /\ t.pc = "touch" => Place[t.pc] = 4 /\ t.pc \notin Retried
      /\ t.pc = "daily" => Place[t.pc] = 5 /\ t.pc \notin Retried
      /\ t.pc = "insert" => Place[t.pc] = 6 /\ t.pc \in Retried
      /\ t.pc = "observe" => Place[t.pc] = 7 /\ t.pc \in Retried
      /\ t.pc = "check" => Place[t.pc] = 8 /\ t.pc \in Retried
      /\ t.pc = "backoff" => Place[t.pc] = 9 /\ t.pc \in Retried
  BY <1>1, Places DEF Running, Finished, Retried
<1>3. TaskAhead(t) = Place[t.pc] + (IF t.pc \in Retried THEN 4 * (MaxRetries - t.attempt) ELSE 0)
  BY DEF TaskAhead
<1>4. MostAhead = 4 * MaxRetries + 10
  BY DEF MostAhead
<1> DEFINE place == Place[t.pc]
           more == t.pc \in Retried
<1> HIDE DEF place, more
<1>5. place \in 0..9 /\ TaskAhead(t) = place + (IF more THEN 4 * (MaxRetries - t.attempt) ELSE 0)
  BY <1>2, <1>3 DEF place, more
<1>6. TaskAhead(t) \in 0..MostAhead - 1 /\ TaskAhead(t) \in Int
  BY <1>1, <1>4, <1>5
<1> QED BY <1>1, <1>2, <1>3, <1>6

LEMMA AheadType ==
  ASSUME ShapeOK, CallInv, NEW s \in Caller
  PROVE  /\ Ahead(s) \in [Wallet -> 0..MostAhead]
         /\ CallAhead(s) \in 0..3
         /\ call[s].pc = "asleep" => CallAhead(s) = 0
         /\ call[s].pc = "join" => CallAhead(s) = 1
         /\ call[s].pc = "spawn" => CallAhead(s) = 2
         /\ call[s].pc = "list" => CallAhead(s) = 3
<1>1. call[s] \in Call /\ MostAhead \in Nat
  BY Bounds DEF ShapeOK, MostAhead
<1>2. ASSUME NEW w \in Wallet PROVE WalletAhead(s, w) \in 0..MostAhead
  <2>1. TaskAhead(task[s][w]) \in 0..MostAhead - 1
    BY TaskFacts, TaskAheadIs
  <2> QED BY <1>1, <2>1 DEF WalletAhead
<1>3. /\ call[s].pc = "asleep" => CallAhead(s) = 0
      /\ call[s].pc = "join" => CallAhead(s) = 1
      /\ call[s].pc = "spawn" => CallAhead(s) = 2
      /\ call[s].pc = "list" => CallAhead(s) = 3
  BY DEF CallAhead
<1>4. call[s].pc \in {"asleep", "list", "spawn", "join"}
  BY <1>1 DEF Call
<1>5. CallAhead(s) \in 0..3
  BY <1>3, <1>4
<1> QED BY <1>2, <1>3, <1>5 DEF Ahead

AheadOK ==
  \A s \in Caller :
    /\ Ahead(s) \in [Wallet -> 0..MostAhead]
    /\ CallAhead(s) \in 0..3
    /\ call[s].pc = "asleep" <=> CallAhead(s) = 0
    /\ call[s].pc = "asleep" => \A w \in Wallet : Ahead(s)[w] = 0

LEMMA AheadNow == ShapeOK /\ CallInv => AheadOK
<1> SUFFICES ASSUME ShapeOK, CallInv, NEW s \in Caller
             PROVE  /\ Ahead(s) \in [Wallet -> 0..MostAhead]
                    /\ CallAhead(s) \in 0..3
                    /\ call[s].pc = "asleep" <=> CallAhead(s) = 0
                    /\ call[s].pc = "asleep" => \A w \in Wallet : Ahead(s)[w] = 0
  BY DEF AheadOK
<1>1. call[s].pc \in {"asleep", "list", "spawn", "join"}
  BY DEF ShapeOK, Call
<1>2. ASSUME call[s].pc = "asleep", NEW w \in Wallet PROVE Ahead(s)[w] = 0
  <2>1. task[s][w].pc = "none" /\ w \notin call[s].todo /\ task[s][w] \in Task
    BY <1>2, TaskFacts DEF CallInv
  <2>2. WalletAhead(s, w) = 0
    BY <1>2, <2>1, TaskAheadIs DEF WalletAhead
  <2> QED BY <2>2 DEF Ahead
<1> QED BY <1>1, <1>2, AheadType

LEMMA AheadNext == ShapeOK' /\ CallInv' => AheadOK'
  BY AheadNow, PTL

LEMMA WalletAheadNext ==
  ASSUME NEW s, NEW w
  PROVE  WalletAhead(s, w)' = IF call'[s].pc = "list" \/ w \in call'[s].todo
                                THEN MostAhead ELSE TaskAhead(task'[s][w])
  BY DEF WalletAhead, TaskAhead, MostAhead

(* All of a call's numbers stay or fall.                                   *)
NoneMore(s) ==
  /\ CallAhead(s)' <= CallAhead(s)
  /\ \A w \in Wallet : WalletAhead(s, w)' <= WalletAhead(s, w)

LEMMA StepsFall ==
  ASSUME AheadOK, AheadOK', NEW s \in Caller, NoneMore(s)
  PROVE  /\ StepsAhead(s)' <= StepsAhead(s)
         /\ CallAhead(s)' < CallAhead(s) => StepsAhead(s)' < StepsAhead(s)
         /\ \A w \in Wallet : WalletAhead(s, w)' < WalletAhead(s, w) =>
                              StepsAhead(s)' < StepsAhead(s)
<1> DEFINE f == Ahead(s)
           g == Ahead(s)'
<1>1. /\ f \in [Wallet -> 0..MostAhead] /\ g \in [Wallet -> 0..MostAhead]
      /\ CallAhead(s) \in Int /\ CallAhead(s)' \in Int
  BY DEF AheadOK
<1>2. /\ CallAhead(s)' <= CallAhead(s)
      /\ \A w \in Wallet : WalletAhead(s, w)' <= WalletAhead(s, w)
      /\ \A w \in Wallet : f[w] = WalletAhead(s, w) /\ g[w] = WalletAhead(s, w)'
  BY DEF Ahead, NoneMore
<1>3. StepsAhead(s) = CallAhead(s) + Cardinality(Under(f))
  BY StepsAreCounted
<1>4. StepsAhead(s)' = CallAhead(s)' + Cardinality(Under(g))
  <2>1. {p \in Wallet \X (1..MostAhead) : p[2] <= WalletAhead(s, p[1])'} = Under(g)
    BY DEF Under, Ahead
  <2> QED BY <2>1 DEF StepsAhead, MostAhead
<1> HIDE DEF f, g
<1>5. /\ Cardinality(Under(f)) \in Int /\ Cardinality(Under(g)) \in Int
      /\ Cardinality(Under(g)) <= Cardinality(Under(f))
      /\ (\E w \in Wallet : g[w] < f[w]) => Cardinality(Under(g)) < Cardinality(Under(f))
  BY <1>1, <1>2, UnderFalls, UnderFinite
<1> QED BY <1>1, <1>2, <1>3, <1>4, <1>5

LEMMA StepsEnd ==
  ASSUME AheadOK, NEW s \in Caller
  PROVE  /\ StepsAhead(s) \in 0..(3 + Cardinality(Wallet) * MostAhead)
         /\ StepsAhead(s) = 0 <=> call[s].pc = "asleep"
<1>1. /\ Cardinality(Wallet) \in Nat /\ MostAhead \in Nat
      /\ Cardinality(Wallet) * MostAhead \in Nat
  BY Bounds, SyncAssumption, FS_CardinalityType DEF MostAhead
<1> DEFINE n == Cardinality(Under(Ahead(s)))
           most == Cardinality(Wallet) * MostAhead
<1>2. /\ n \in Nat /\ n <= most /\ most \in Nat /\ StepsAhead(s) = CallAhead(s) + n
      /\ CallAhead(s) \in 0..3
  BY <1>1, UnderFinite, StepsAreCounted DEF AheadOK
<1>3. ASSUME call[s].pc = "asleep" PROVE n = 0
  <2>1. Ahead(s) \in [Wallet -> 0..MostAhead] /\ \A w \in Wallet : Ahead(s)[w] = 0
    BY <1>3 DEF AheadOK
  <2>2. Under(Ahead(s)) = {}
    BY <1>1, <2>1 DEF Under
  <2> QED BY <2>2, FS_EmptySet
<1> HIDE DEF n, most
<1>4. call[s].pc = "asleep" <=> CallAhead(s) = 0
  BY DEF AheadOK
<1>5. StepsAhead(s) \in 0..(3 + most)
  BY <1>2
<1>6. StepsAhead(s) = 0 <=> call[s].pc = "asleep"
  BY <1>2, <1>3, <1>4
<1> QED BY <1>5, <1>6 DEF most

(* A step of a task.                                                       *)
LEMMA TaskFalls ==
  ASSUME ShapeOK, ShapeOK', NEW s \in Caller, NEW w \in Wallet, TaskStep(s, w)
  PROVE  TaskAhead(task'[s][w]) < TaskAhead(task[s][w])
<1>0. /\ task[s][w] \in Task /\ task'[s][w] \in Task
      /\ task[s][w].attempt \in 0..MaxRetries /\ MaxRetries \in Nat
      /\ task[s][w].attempt \in Int /\ task[s][w].attempt <= MaxRetries
  BY TaskFacts, Bounds DEF ShapeOK
<1> DEFINE old == task[s][w]
           new == task'[s][w]
           Moved(pc) == new.pc = pc /\ new.attempt = old.attempt
<1>1. ASSUME NEW t, Become(s, w, t) PROVE new = t
  BY <1>1 DEF Become, ShapeOK
<1>2. ASSUME NEW o \in Finished, Ends(s, w, o) PROVE new.pc \in Finished
  <2>1. [NoTask EXCEPT !.pc = o].pc = o
    BY NoTaskType DEF Task
  <2> QED BY <1>1, <1>2, <2>1 DEF Ends
<1>3. ASSUME Failed(s, w)
      PROVE  \/ new.pc \in Finished
             \/ new.pc = "backoff" /\ new.attempt = old.attempt + 1
  <2>1. CASE old.attempt < MaxRetries
    <3> DEFINE t == [NoTask EXCEPT !.pc = "backoff", !.attempt = old.attempt + 1]
    <3>1. t.pc = "backoff" /\ t.attempt = old.attempt + 1
      BY NoTaskType DEF Task
    <3> QED BY <1>1, <1>3, <2>1, <3>1 DEF Failed
  <2>2. CASE ~(old.attempt < MaxRetries)
    <3>1. "error" \in Finished /\ Ends(s, w, "error")
      BY <1>3, <2>2 DEF Failed, Finished
    <3> QED BY <1>2, <3>1
  <2> QED BY <2>1, <2>2
<1>4. CASE CheckInterval(s, w)
  <2>1. new = [old EXCEPT !.pc = "observe", !.saw = Len(snapshots[w])]
    BY <1>1, <1>4 DEF CheckInterval
  <2>2. old.pc = "check" /\ Moved("observe")
    BY <1>0, <1>4, <2>1 DEF CheckInterval, Task
  <2> QED BY <1>0, <2>2, TaskAheadIs
<1>5. CASE Observe(s, w)
  <2>1. new = [old EXCEPT !.pc = "insert", !.block = height[ChainOf[w]], !.at = now]
    BY <1>1, <1>5 DEF Observe
  <2>2. old.pc = "observe" /\ Moved("insert")
    BY <1>0, <1>5, <2>1 DEF Observe, Task
  <2> QED BY <1>0, <2>2, TaskAheadIs
<1>6. CASE Retry(s, w)
  <2>1. new = [old EXCEPT !.pc = "check"]
    BY <1>1, <1>6 DEF Retry
  <2>2. old.pc = "backoff" /\ Moved("check")
    BY <1>0, <1>6, <2>1 DEF Retry, Task
  <2> QED BY <1>0, <2>2, TaskAheadIs
<1>7. CASE InsertSnapshot(s, w)
  <2>1. new = [NoTask EXCEPT !.pc = "daily", !.block = old.block, !.at = old.at]
    BY <1>1, <1>7 DEF InsertSnapshot
  <2>2. old.pc = "insert" /\ new.pc = "daily"
    BY <1>7, <2>1, NoTaskType DEF InsertSnapshot, Task
  <2> QED BY <1>0, <2>2, TaskAheadIs
<1>8. CASE InsertUnanswered(s, w) \/ AttemptFails(s, w)
  <2>1. old.pc \in {"check", "observe", "insert"}
    BY <1>8 DEF InsertUnanswered, AttemptFails
  <2>2. TaskAhead(old) >= 6 + 4 * (MaxRetries - old.attempt) /\ TaskAhead(old) \in Int
    BY <1>0, <2>1, TaskAheadIs
  <2>3. \/ new.pc \in Finished
        \/ new.pc = "backoff" /\ new.attempt = old.attempt + 1
    BY <1>3, <1>8 DEF InsertUnanswered, AttemptFails
  <2>4. TaskAhead(new) = 1 \/ TaskAhead(new) = 9 + 4 * (MaxRetries - (old.attempt + 1))
    BY <1>0, <2>3, TaskAheadIs
  <2> QED BY <1>0, <2>2, <2>4
<1>9. CASE UpsertDaily(s, w)
  <2>1. new = [old EXCEPT !.pc = "touch", !.at = 0]
    BY <1>1, <1>9 DEF UpsertDaily
  <2>2. old.pc = "daily" /\ new.pc = "touch"
    BY <1>0, <1>9, <2>1 DEF UpsertDaily, Task
  <2> QED BY <1>0, <2>2, TaskAheadIs
<1>10. CASE TouchCursor(s, w)
  <2>1. new = [old EXCEPT !.pc = "read"]
    BY <1>1, <1>10 DEF TouchCursor
  <2>2. old.pc = "touch" /\ new.pc = "read"
    BY <1>0, <1>10, <2>1 DEF TouchCursor, Task
  <2> QED BY <1>0, <2>2, TaskAheadIs
<1>11. CASE ReadCursor(s, w)
  <2>1. new = [old EXCEPT !.pc = "write"]
    BY <1>1, <1>11 DEF ReadCursor
  <2>2. old.pc = "read" /\ new.pc = "write"
    BY <1>0, <1>11, <2>1 DEF ReadCursor, Task
  <2> QED BY <1>0, <2>2, TaskAheadIs
<1>12. CASE SkipRecent(s, w) \/ ReadFails(s, w) \/ FetchPanics(s, w) \/ WriteCursor(s, w)
  <2>1. old.pc \in {"check", "read", "write"} /\ "ok" \in Finished /\ "panicked" \in Finished
    BY <1>12 DEF SkipRecent, ReadFails, FetchPanics, WriteCursor, Finished
  <2>2. new.pc \in Finished
    BY <1>2, <1>12, <2>1 DEF SkipRecent, ReadFails, FetchPanics, WriteCursor
  <2>3. TaskAhead(new) = 1
    BY <1>0, <2>2, TaskAheadIs
  <2>4. TaskAhead(old) >= 2
    BY <1>0, <2>1, TaskAheadIs
  <2> QED BY <2>3, <2>4, <1>0, TaskAheadIs
<1> QED BY <1>4, <1>5, <1>6, <1>7, <1>8, <1>9, <1>10, <1>11, <1>12
        DEF TaskStep, Attempt, Follow

Good == ShapeOK /\ CallInv /\ AheadOK

LEMMA TaskStepRunsDown ==
  ASSUME Good, Good', NEW s \in Caller, NEW w \in Wallet, TaskStep(s, w)
  PROVE  StepsAhead(s)' < StepsAhead(s)
<1>1. /\ UNCHANGED call /\ task[s][w].pc # "none"
      /\ \A x \in Wallet : x # w => task'[s][x] = task[s][x]
  BY TaskStepFacts, RunningFinished DEF Good
<1>2. call[s].pc # "list" /\ w \notin call[s].todo
  BY <1>1 DEF Good, CallInv
<1>3. CallAhead(s)' = CallAhead(s)
  BY <1>1 DEF CallAhead
<1>4. \A x \in Wallet : x # w => WalletAhead(s, x)' = WalletAhead(s, x)
  BY <1>1, WalletAheadNext DEF WalletAhead
<1>5. WalletAhead(s, w) = TaskAhead(task[s][w]) /\ WalletAhead(s, w)' = TaskAhead(task'[s][w])
  BY <1>1, <1>2, WalletAheadNext DEF WalletAhead
<1>6. WalletAhead(s, w)' < WalletAhead(s, w)
  BY <1>5, TaskFalls DEF Good
<1>7. \A x \in Wallet : WalletAhead(s, x) \in Int /\ WalletAhead(s, x)' \in Int
  <2>1. MostAhead \in Nat
    BY Bounds DEF MostAhead
  <2>2. \A x \in Wallet : TaskAhead(task[s][x]) \in Int /\ TaskAhead(task'[s][x]) \in Int
    BY TaskAheadIs DEF Good, ShapeOK
  <2> QED BY <1>1, <2>1, <2>2 DEF WalletAhead
<1>8. \A x \in Wallet : WalletAhead(s, x)' <= WalletAhead(s, x)
  BY <1>4, <1>6, <1>7
<1>9. CallAhead(s)' <= CallAhead(s)
  BY <1>3 DEF Good, AheadOK
<1> QED BY <1>6, <1>8, <1>9, StepsFall DEF Good, NoneMore

(* A step that ends the call takes everything with it.                     *)
LEMMA ReturnRunsDown ==
  ASSUME Good, Good', NEW s \in Caller, call[s].pc # "asleep", call'[s].pc = "asleep"
  PROVE  StepsAhead(s)' < StepsAhead(s)
<1>1. StepsAhead(s) \in Nat /\ StepsAhead(s) # 0
  <2>1. MostAhead \in Nat /\ Cardinality(Wallet) \in Nat
    BY Bounds, SyncAssumption, FS_CardinalityType DEF MostAhead
  <2> QED BY <2>1, StepsEnd DEF Good
<1>2. \A x \in Wallet : WalletAhead(s, x)' <= WalletAhead(s, x)
  <2> SUFFICES ASSUME NEW x \in Wallet PROVE WalletAhead(s, x)' <= WalletAhead(s, x)
    OBVIOUS
  <2>1. Ahead(s)'[x] = 0 /\ Ahead(s)[x] \in 0..MostAhead
    BY DEF Good, AheadOK
  <2>2. WalletAhead(s, x)' = 0 /\ WalletAhead(s, x) \in 0..MostAhead
    BY <2>1 DEF Ahead
  <2>3. MostAhead \in Nat
    BY Bounds DEF MostAhead
  <2> QED BY <2>2, <2>3
<1>3. CallAhead(s)' = 0 /\ CallAhead(s) \in 0..3 /\ CallAhead(s) # 0
  BY DEF Good, AheadOK
<1>4. CallAhead(s)' < CallAhead(s) /\ CallAhead(s)' <= CallAhead(s)
  BY <1>3
<1> QED BY <1>2, <1>4, StepsFall DEF Good, NoneMore

LEMMA CallStepRunsDown ==
  ASSUME Good, Good', NEW s \in Caller, call[s].pc # "asleep", CallStep(s)
  PROVE  StepsAhead(s)' < StepsAhead(s)
<1>0. /\ call \in [Caller -> Call] /\ call[s] \in Call /\ call[s].handles \in Seq(Wallet)
      /\ task \in [Caller -> [Wallet -> Task]] /\ MaxRetries \in Nat /\ MaxRetries > 0
  BY CallRecord, Bounds DEF Good, ShapeOK
<1>1. \A w \in Wallet : /\ WalletAhead(s, w) \in Int /\ WalletAhead(s, w)' \in Int
                        /\ WalletAhead(s, w)' <= MostAhead
                        /\ MostAhead \in Int
  <2>1. MostAhead \in Nat
    BY <1>0 DEF MostAhead
  <2>2. Ahead(s) \in [Wallet -> 0..MostAhead] /\ Ahead(s)' \in [Wallet -> 0..MostAhead]
    <3>1. Ahead(s)' \in [Wallet -> 0..MostAhead]'
      BY DEF Good, AheadOK
    <3> QED BY <3>1 DEF Good, AheadOK, MostAhead
  <2> SUFFICES ASSUME NEW w \in Wallet
               PROVE  /\ WalletAhead(s, w) \in Int /\ WalletAhead(s, w)' \in Int
                      /\ WalletAhead(s, w)' <= MostAhead
    BY <2>1
  <2>3. Ahead(s)[w] = WalletAhead(s, w) /\ Ahead(s)'[w] = WalletAhead(s, w)'
    BY DEF Ahead
  <2>4. WalletAhead(s, w) \in 0..MostAhead /\ WalletAhead(s, w)' \in 0..MostAhead
    BY <2>2, <2>3
  <2> QED BY <2>1, <2>4
<1>2. CASE ListFails(s) \/ AllJoined(s)
  <2>1. call'[s].pc = "asleep"
    BY <1>0, <1>2, ReturnedType DEF ListFails, AllJoined, Good
  <2> QED BY <2>1, ReturnRunsDown
<1>3. CASE ListWallets(s)
  <2>1. call[s].pc = "list" /\ call'[s].pc = "spawn"
    BY <1>0, <1>3 DEF ListWallets, Call
  <2>2. CallAhead(s) = 3 /\ CallAhead(s)' = 2
    BY <2>1 DEF CallAhead
  <2>3. \A w \in Wallet : WalletAhead(s, w) = MostAhead
    BY <2>1 DEF WalletAhead
  <2>4. CallAhead(s)' <= CallAhead(s) /\ CallAhead(s)' < CallAhead(s)
    BY <2>2
  <2> QED BY <1>1, <2>3, <2>4, StepsFall DEF Good, NoneMore
<1>4. CASE AllSpawned(s)
  <2>1. /\ call[s].pc = "spawn" /\ call'[s].pc = "join" /\ call'[s].todo = call[s].todo
        /\ UNCHANGED task
    BY <1>0, <1>4 DEF AllSpawned, Call
  <2>2. CallAhead(s) = 2 /\ CallAhead(s)' = 1
    BY <2>1 DEF CallAhead
  <2>3. \A w \in Wallet : WalletAhead(s, w)' = WalletAhead(s, w)
    BY <2>1, WalletAheadNext DEF WalletAhead
  <2>4. CallAhead(s)' <= CallAhead(s) /\ CallAhead(s)' < CallAhead(s)
    BY <2>2
  <2>5. \A w \in Wallet : WalletAhead(s, w)' <= WalletAhead(s, w)
    BY <1>1, <2>3
  <2> QED BY <2>4, <2>5, StepsFall DEF Good, NoneMore
<1>5. ASSUME NEW w \in Wallet, Spawn(s, w) PROVE StepsAhead(s)' < StepsAhead(s)
  <2> DEFINE t == [NoTask EXCEPT !.pc = "check", !.attempt = 1]
  <2>1. /\ call[s].pc = "spawn" /\ w \in call[s].todo
        /\ call' = [call EXCEPT ![s].todo = @ \ {w}, ![s].handles = Append(@, w)]
        /\ task' = [task EXCEPT ![s][w] = t]
    BY <1>5 DEF Spawn
  <2>2. call'[s].pc = "spawn" /\ call'[s].todo = call[s].todo \ {w}
    BY <1>0, <2>1 DEF Call
  <2>3. t.pc = "check" /\ t.attempt = 1
    BY NoTaskType DEF Task
  <2>4. task'[s][w] = t /\ \A x \in Wallet : x # w => task'[s][x] = task[s][x]
    BY <1>0, <2>1
  <2>5. CallAhead(s)' = CallAhead(s)
    BY <2>1, <2>2 DEF CallAhead
  <2>6. ASSUME NEW x \in Wallet, x # w PROVE WalletAhead(s, x)' = WalletAhead(s, x)
    <3>1. x \in call'[s].todo <=> x \in call[s].todo
      BY <2>2, <2>6
    <3>2. task'[s][x] = task[s][x] /\ call[s].pc # "list" /\ call'[s].pc # "list"
      BY <2>1, <2>2, <2>4, <2>6
    <3> QED BY <3>1, <3>2, WalletAheadNext DEF WalletAhead
  <2>7. WalletAhead(s, w) = MostAhead /\ WalletAhead(s, w)' = TaskAhead(t)
    BY <2>1, <2>2, <2>4, WalletAheadNext DEF WalletAhead
  <2>8. TaskAhead(t) = 8 + 4 * (MaxRetries - 1)
    <3>1. t \in Task
      BY <2>4 DEF Good, ShapeOK
    <3> QED BY <2>3, <3>1, TaskAheadIs
  <2>9. WalletAhead(s, w)' < WalletAhead(s, w)
    BY <1>0, <2>7, <2>8 DEF MostAhead
  <2>10. \A x \in Wallet : WalletAhead(s, x)' <= WalletAhead(s, x)
    BY <1>1, <2>6, <2>9
  <2>11. CallAhead(s)' <= CallAhead(s)
    BY <2>5 DEF Good, AheadOK
  <2> QED BY <2>9, <2>10, <2>11, StepsFall DEF Good, NoneMore
<1>6. CASE Join(s)
  <2>0. PICK w \in Wallet : w = Head(call[s].handles)
    BY <1>0, <1>6 DEF Join
  <2>1. /\ call[s].pc = "join" /\ task[s][w].pc \in Finished
        /\ call' = [call EXCEPT ![s].handles = Tail(@)]
        /\ task' = [task EXCEPT ![s][w] = NoTask]
    BY <1>6, <2>0 DEF Join
  <2>2. /\ call'[s].pc = "join" /\ call'[s].todo = call[s].todo /\ call[s].todo = {}
    BY <1>0, <2>1 DEF Call, Good, CallInv
  <2>3. task'[s][w] = NoTask /\ \A x \in Wallet : x # w => task'[s][x] = task[s][x]
    BY <1>0, <2>1
  <2>4. CallAhead(s)' = CallAhead(s)
    BY <2>1, <2>2 DEF CallAhead
  <2>5. \A x \in Wallet : x # w => WalletAhead(s, x)' = WalletAhead(s, x)
    BY <2>1, <2>2, <2>3, WalletAheadNext DEF WalletAhead
  <2>6. WalletAhead(s, w) = TaskAhead(task[s][w]) /\ WalletAhead(s, w)' = TaskAhead(NoTask)
    <3>1. WalletAhead(s, w) = TaskAhead(task[s][w])
      BY <2>1, <2>2 DEF WalletAhead
    <3>2. WalletAhead(s, w)' = TaskAhead(task'[s][w])
      BY <2>1, <2>2, WalletAheadNext
    <3> QED BY <2>3, <3>1, <3>2
  <2>7. WalletAhead(s, w)' < WalletAhead(s, w)
    <3>1. TaskAhead(task[s][w]) = 1
      BY <1>0, <2>1, TaskAheadIs
    <3>2. TaskAhead(NoTask) = 0
      BY NoTaskType, TaskAheadIs
    <3> QED BY <2>6, <3>1, <3>2
  <2>8. ASSUME NEW x \in Wallet PROVE WalletAhead(s, x)' <= WalletAhead(s, x)
    <3>1. WalletAhead(s, x) \in Int /\ WalletAhead(s, x)' \in Int
      BY <1>1
    <3>2. WalletAhead(s, x)' = WalletAhead(s, x) \/ WalletAhead(s, x)' < WalletAhead(s, x)
      BY <2>5, <2>7
    <3> QED BY <3>1, <3>2
  <2>9. CallAhead(s)' <= CallAhead(s)
    BY <2>4 DEF Good, AheadOK
  <2> QED BY <2>1, <2>7, <2>8, <2>9, StepsFall DEF Good, NoneMore
<1> QED BY <1>2, <1>3, <1>4, <1>5, <1>6 DEF CallStep, Wake

LEMMA NextRunsDown == Good /\ Good' /\ [Next]_vars => StepsRunOut
<1> SUFFICES ASSUME Good, Good', [Next]_vars, NEW s \in Caller, call[s].pc # "asleep"
             PROVE  /\ StepsAhead(s)' <= StepsAhead(s)
                    /\ CallStep(s) \/ (\E w \in Wallet : TaskStep(s, w)) =>
                         StepsAhead(s)' < StepsAhead(s)
  BY DEF StepsRunOut
<1>1. StepsAhead(s) \in Int /\ StepsAhead(s)' \in Int
  <2>1. Cardinality(Under(Ahead(s))) \in Int /\ CallAhead(s) \in Int /\ CallAhead(s)' \in Int
    BY UnderFinite DEF Good, AheadOK
  <2> DEFINE g == Ahead(s)'
  <2>2. StepsAhead(s)' = CallAhead(s)' + Cardinality(Under(g))
    <3>1. {p \in Wallet \X (1..MostAhead) : p[2] <= WalletAhead(s, p[1])'} = Under(g)
      BY DEF Under, Ahead
    <3> QED BY <3>1 DEF StepsAhead, MostAhead
  <2> HIDE DEF g
  <2>3. Cardinality(Under(g)) \in Int
    BY UnderFinite
  <2> QED BY <2>1, <2>2, <2>3, StepsAreCounted
<1>2. CallStep(s) \/ (\E w \in Wallet : TaskStep(s, w)) => StepsAhead(s)' < StepsAhead(s)
  BY CallStepRunsDown, TaskStepRunsDown
<1>3. ASSUME call'[s] = call[s], task'[s] = task[s] PROVE StepsAhead(s)' = StepsAhead(s)
  BY <1>3 DEF StepsAhead, CallAhead, WalletAhead, TaskAhead, MostAhead
<1>4. ASSUME NEW c \in Caller, c # s, CallStep(c) PROVE StepsAhead(s)' = StepsAhead(s)
  <2>1. call'[s] = call[s] /\ task'[s] = task[s]
    BY <1>4 DEF CallStep, Wake, ListWallets, ListFails, Spawn, AllSpawned, Join, AllJoined,
                Good, ShapeOK
  <2> QED BY <1>3, <2>1
<1>5. ASSUME NEW c \in Caller, c # s, NEW w \in Wallet, TaskStep(c, w)
      PROVE  StepsAhead(s)' = StepsAhead(s)
  <2>1. call' = call /\ \A x \in Wallet : task'[s][x] = task[s][x]
    BY <1>5, TaskStepFacts DEF Good
  <2>2. task \in [Caller -> [Wallet -> Task]] /\ task' \in [Caller -> [Wallet -> Task]]
    BY DEF Good, ShapeOK, Task, Time, Block
  <2>3. task'[s] = task[s]
    BY <2>1, <2>2
  <2> QED BY <1>3, <2>1, <2>3
<1>6. CASE Restart
  <2>1. call'[s].pc = "asleep"
    BY <1>6, AsleepType DEF Restart, Asleep
  <2> QED BY <1>1, <1>2, <2>1, ReturnRunsDown
<1>7. CASE UNCHANGED <<call, task>>
  BY <1>1, <1>2, <1>3, <1>7
<1> QED BY <1>1, <1>2, <1>4, <1>5, <1>6, <1>7 DEF Next, DeleteWallet, Mine, Tick, vars

(* A call makes finitely many steps: however its attempts fail, its tasks  *)
(* panic and its wallets are deleted, each step of the call and of its     *)
(* tasks leaves fewer ahead of it, no other step leaves more, none are     *)
(* left exactly when it has returned, and at the most there are some for   *)
(* each wallet and retry.                                                  *)
THEOREM CallsRunDown == Spec => []StepsBounded /\ [][StepsRunOut]_vars
<1>1. SyncInv => Good
  BY AheadNow DEF SyncInv, Good
<1>2. Good => StepsBounded
  BY StepsEnd DEF Good, StepsBounded
<1>3. Good /\ Good' /\ [Next]_vars => StepsRunOut
  BY NextRunsDown
<1> QED BY <1>1, <1>2, <1>3, SyncInvariant, PTL DEF Spec
=============================================================================
