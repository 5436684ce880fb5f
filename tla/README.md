# Verification of rust-web3-risk-platform

TLA+ models of the platform's backend and of the browser's side of its
sessions, TLC configurations that check them on small instances, and theorems
that TLAPS proves for every value of the constants. The models are translated
from the code under `src/`; where a document says something else, the code is
modelled and the difference is a property that a run refutes, or named in
section 5.

1. [The system](#1-the-system) - parts, state, operations, what is hard
2. [Modules](#2-modules) - how they correspond to the code
3. [Runs](#3-runs) - what is checked, with which bounds
4. [Theorems](#4-theorems) - what is proved and along which argument
5. [Where documents and code differ](#5-where-documents-and-code-differ)
6. [Assumptions and limits](#6-assumptions-and-limits)
7. [Plan](#7-plan)

To check: `tlc -config AuthSession.cfg MCAuthSession.tla` (the run table names
module and configuration) and `tlapm AuthSessionProofs.tla`.

## 1. The system

A Rust backend (axum, sqlx on Postgres, ethers-rs, tokio) that signs wallets in
with a signed message, keeps rolling sessions in cookies, reads a wallet's role
from a contract, values its tokens periodically, and raises alerts; a contract
that says who is an admin; a Next.js frontend. Handlers of axum and background
tasks run concurrently; all shared state is in Postgres, apart from the nonce
limiter's map, the contract, and the browser's cookies.

| Component | State | Operations | What is hard | Status |
|---|---|---|---|---|
| Authentication and sessions (`auth/src/lib.rs`, `routes/auth.rs`, `auth_middleware.rs`, `session_repository.rs`) | `auth_nonces`, `user_sessions`, tokens in clients | nonce, login, refresh, logout, link, revoke, delete wallet | each is several statements with awaits between; one refresh token presented twice; a handler dropped half way; revocation and logout racing a refresh | modelled, proved |
| Role cache (`auth/src/lib.rs`, `routes/secure.rs`, `admin_tools.rs`) | `wallets.role_cache*` | resolve with TTL, store again, roles/refresh | a role read now and stored awaits later; several rows of one address | modelled, proved |
| Alert evaluator and rules (`services/alert.rs`, `alert_repository.rs`, `routes/alerts.rs`, `bin/alert_worker.rs`) | `alert_rules`, `alert_triggers` | a run each minute, rules edited and tested | two evaluators, check then insert, rules deleted during a run, a task that dies | modelled, proved |
| Portfolio sync (`services/portfolio.rs`, `portfolio_repository.rs`, `transaction_repository.rs`) | snapshots, daily snapshots, cursors, indexer runs, permits, tasks | sync of all wallets by timer and by block | two syncs of a wallet at once, retries after lost answers, restarts, a panic half way through a task that holds a permit | modelled, proved; liveness checked |
| Wallet registry (`auth/src/lib.rs`, `routes/wallets.rs`, `user_repository.rs`) | `users`, `wallets`, `users.primary_wallet` | register at login, link, create, delete, set primary | lookups by address, uniqueness only by address and chain; rows deleted between a check and an UPDATE | modelled, proved |
| Browser session (`auth-context.tsx`, `login/page.tsx`, `routes/auth.rs`) | cookie jar, profile of each tab | refreshProfile, signOut, handleLogin | tabs that refresh one cookie; answers that arrive late, in another order or never | modelled, proved |
| Strategies and backtests (`routes/strategies.rs`, `strategy_repository.rs`, `services/history.rs`) | `strategies`, `strategy_backtests`, `price_history` | create, run, list, delete | a strategy deleted during its backtest; a transaction of two deletes; every source of prices may fail | modelled, proved |
| Backtest algorithms (`strategy_engine`) | none | moving average, volatility, correlation, drawdown | windows at their edges, look-ahead, division by zero | modelled as far as fractions reach, partly proved |
| Price oracles, cache | `price_cache`, `price_history` per chain | cached, recording, fallback, Coingecko | entries never used, check then write | only the history that backtests read (in `StrategyStore`) |
| Role contract (`RoleManager.sol`) | owner, roles | setRole, transfer, renounce | - | setRole and getRole (in `RoleCache`) |
| Nonce limiter | map or Redis keys | check | - | not modelled: one atomic step that only refuses |
| Read-only routes, configuration, pages, stubs, mock token | - | - | - | not modelled: no state of their own |

Interactions. A login asks the nonce limiter, then the auth service, which reads
and writes `auth_nonces`, `wallets`, `users`, the role cache and
`user_sessions`, and asks the contract when the cache misses. Every other route
first has its token validated against `user_sessions` by the middleware and
then runs its handler. The indexer and one listener per chain sync wallets; the
evaluator reads the snapshots they store, without a call between them. Deleting
a wallet removes, by foreign keys, its sessions, snapshots, cursors and triggers;
deleting a rule removes its triggers, and a strategy its backtests. A backtest
reads and fills the price history, asks Coingecko, computes and stores. The
browser calls the session routes with the cookies its jar holds when a request
is sent, and takes cookies when an answer arrives.

What makes each component correct is stated as properties in its module; what
is hard to test is listed as `hazards` in `PROJECT.json`, each at the line where
it bites, with the properties that would catch it.

## 2. Modules

In every module an action is what one handler or task does between two awaits
that touch shared state: one SQL statement, or one phase of a transaction. The
other handlers run in between; an awaited call may fail there, or the client
may be gone and the handler with it (`Abort`, `Fail`, `Restart`). What was
committed stays. `Bug...` definitions are plausible bugs, used by no action:
replacing the definition they alter breaks the property they name.

### SessionChains and AuthSession

`SessionChains` is what the session layer promises: a login opens a chain of
sessions, a chain has at most one live session, a refresh moves it on, an ended
chain stays ended, a nonce grants one login, only a session handed to a client
can be refreshed.

`AuthSession` is the code. A slot of `Request` holds a handler in flight:

| Action | Code (`auth/src/lib.rs` unless said) |
|---|---|
| `IssueNonce` | `issue_nonce`, `persist_nonce` |
| `LoginCheck`, `LoginBindWallet`, `LoginCreateSession`, `LoginConsumeNonce` or `LoginNonceTaken`, `LoginAnswer` | `login`: `ensure_nonce_valid`, `upsert_user_wallet`, `create_session`, `consume_nonce`, the answer, in the code's order: the session is stored *before* the nonce is consumed |
| `RefreshLock`, `RefreshCommit`, `RefreshAnswer` | `refresh_session`: SELECT ... FOR UPDATE, revoke and insert and commit, role and answer |
| `LogoutAuthorise`, `LogoutRevoke` | the middleware's `validate_token`, then `revoke_session` |
| `LinkCheck` ... `LinkNonceTaken` | `link_wallet` |
| `AdminRevoke`, `AdminRevokeNotFound`, `DeleteWallet` | `session_repository.rs`, `wallet_repository.rs` |
| `Abort`, `Tick` | an error returned half way or a dropped handler; the clock |

The row lock is `Locked`: whoever writes a session row waits for the refresh
that selected it. History variables (`chain`, `granted`, `linked`, `revokes`)
serve the properties. Sessions and nonces are fresh random ids.

### RoleCache

`roles[a]` is the sequence of roles the contract has given account `a`; a cached
row and a handler remember, as history, the *version* they hold. `StartSignIn`
to `StoreAgain` are the role lookup inside a login, refresh or link: load the
cache, take a hit or ask the contract and store, and at the end store whatever
was found *again*. `AdminList` to `AdminAnswer` are roles/refresh, of the API
or of `admin_tools` (which skips what fails, where the route gives up). `floor`
is history: the last version that a roles/refresh stored while nobody else held
a role of that account. A sign-in by nonce is not repeated here: `AuthSession`
has it.

### AlertEvaluator

`ev[e]` is an evaluator, in the API server or in `alert_worker`, between two
awaits of `run_once`: users (`ListUsers`), rules (`Collect`), wallets
(`ListWallets`), per wallet the two last totals (`TakeWallet`), the approvals
(`NoNode` when the node cannot be asked, `Panic` when it answers), then per
rule `Hold`, or `Check` with the cooldown, and `Insert`. `CheckBlindly` is a
`last_trigger_at` that failed: `.ok().flatten()` takes it for "never". `Fail` is
a `?` that leaves the run. The user meanwhile creates, changes, deletes and
tests rules and deletes the wallet, and snapshots arrive. Totals, drop and
"below" rules are computed as in the code, the double reversal of the history
included. Exposure and outflow rules fire or not by chance, and may fire for
several tokens. A trigger carries as history whether its check was blind and
whether another trigger was written between its check and its INSERT.

### PortfolioSync

`call[s]` is a call of `sync_all_wallets` by the indexer's timer or by the
websocket of a chain: list the wallets, spawn a task for each that gets a
permit, join them in the order of spawning, log the outcome, sleep.
`permits[s]` is the semaphore *of that call*. `task[s][w]` is `sync_wallet`
between two awaits:

| Action | Code (`services/portfolio.rs`) |
|---|---|
| `CheckInterval`, `SkipRecent` | the last snapshot's age against the minimum interval |
| `Observe` | height, balances and prices, read in one step |
| `InsertSnapshot`, `InsertUnanswered` | `insert_snapshot`; its answer may be lost though it committed |
| `AttemptFails`, `Retry` | `sync_wallet_with_retry`, the pause keeping its permit |
| `UpsertDaily`, `TouchCursor` | the day's row and `update_last_daily_snapshot`, whose errors are swallowed |
| `ReadCursor`, `ReadFails`, `FetchPanics`, `WriteCursor` | `sync_transactions` up to the request for transfer logs, where `H256::from_slice` panics on 20 bytes |
| `DeleteWallet`, `Restart`, `Mine`, `Tick` | foreign keys, the process, chains, the clock |

What would follow the panic (storing transfers) is never reached and not
modelled. `saw` in a snapshot is history: how many snapshots its check had seen.

### Backtest

The loops of `strategy_engine` as a machine with one step per price: the window
slides (`Slide`), the rule decides (`Rising`), the equity grows by the position
of the point *before* (`Growth`), and a second pass finds the drawdown
(`Higher`, `Deeper`). f64 is an exact fraction; denominator 0 stands for an
infinity or NaN, which no later product makes a number again.

### StrategyStore

`request[r]` is a handler of `routes/strategies.rs`: `Find`, then for a backtest
`ReadHistory`, `Fetch`, `Persist` (any of which may fail over to `Synthetic`
prices), then the INSERT, which begins (`BeginSave`, where NOW() is taken) and
commits (`SaveBacktest`, or `SaveUnanswered` when its answer is lost); for a list
`Query`; for a delete the two statements of the transaction, `DeleteBacktests`
and `CommitDelete`, whose answer may be lost as well (`CommitUnanswered`), or a
rollback (`DeleteFails`). `bin/fetch_prices` fills the same history
(`FetchPrices`). A result is who stored it, whether it can be read back, and
whose INSERTs began before its own (`older`), which is all that ORDER BY
completed_at needs. `matched` is what the first DELETE of a handler found; it is
kept after a commit for `AnsweredIsStored` to tell what that delete took.
`Readable` says what can be read back: `price` is NUMERIC, the read as f64 fails
and yields 0, a curve over zeros may be no numbers (`ZeroSpoils` of `Backtest`)
and its JSON then holds nulls; over prices above 0, as the synthetic ones, it
never does. Which case a curve over given or stored prices is, is left open.

### AddressBook and WalletRegistry

`AddressBook` is the promise: an address on a chain has at most one holder,
taken only while it has none. `WalletRegistry` is the code: `FindNone`,
`FindUser`, `FindOwner` are lookups by address alone, of any one row; `Register`
inserts user and wallet in one transaction, `LinkRow` a row for the user who
links, `Load` reads again a row that may be gone; `FindWallet` and `SetPrimary`
are the two awaits of set_primary_wallet; `CreateWallet` looks nothing up.
`fresh` and `vetted` are history: whether a lookup was still true at the INSERT
it led to.

### ClientSession

A call of `refreshProfile`, `signOut` or `handleLogin` carries the cookies of
the moment it is sent (`RefreshProfile`, `RequestTokenRefresh`, `SignOut`); the
server acts (`Me`, `SignIn`, `Rotate`, `Refuse`, `Authorise`, `RevokeSession`);
its answer sets or clears cookies at the moment it arrives (`SetProfile`,
`Refreshed`, `LoggedIn`, `SignedOut`, `DropProfile`) or is lost (`Lost`). A
rotation is one step; `AuthSession` says of what it consists. `spoilt`,
`signedOut` and `raced` are history.

## 3. Runs

| Run | Module, cfg | Instance | Shows |
|---|---|---|---|
| `auth` | MCAuthSession, AuthSession.cfg | two handlers, two nonces, three sessions, one wallet, clock 0..2; 1.1 million states | `NonceSingleUse`, `OneLivePerChain`, `RevokedChainEnds`, `TokensPaidFor`, `ActiveSessionHasWallet`, `DormantForever`, and the refinement of `SessionChains` |
| `roles` | MCRoleCache, RoleCache.cfg | one account on two chains with TTLs 1 and 2, two handlers, three versions of its role, clock 0..2; 2.3 million states | `RowsAgree`, `RolesFromChain`, `QuietRefreshSticks` |
| `alerts` | MCAlertEvaluator, AlertEvaluator.cfg | two evaluators, one rule that may say three things, one wallet, two triggers, clock 0..3; 1.3 million states | `CooldownUnlessRaced`, `NoOrphanTriggers` |
| `sync` | MCPortfolioSync, PortfolioSync.cfg | the indexer and a websocket over one wallet, two attempts, one permit each, minimum interval 2, days of 2, clock 0..2, one block; 628 thousand states | `SpacedUnlessRaced`, `DailyFromSnapshot`, `OkMeansSnapshot` |
| `sync_calls` | MCPortfolioSync, SyncCalls.cfg | the indexer alone, two wallets for one permit, one of which panics; 33 thousand states | `PermitsAccounted`, and under fairness `CallsReturn` |
| `backtest` | Backtest, Backtest.cfg | every series of up to four prices 0..3, every pair of windows up to 3, three kinds; 137 thousand states | `WindowIsSuffix`, `EquityFromStretches`, `DrawdownIsDeepest`, `FiniteOnPositive`, `ZeroSpoils` |
| `research` | MCStrategyStore, StrategyStore.cfg | two users, one strategy, three requests, limit 1, window and point distance 2, clock 0..1; 296 thousand states | `NoOrphanBacktests`, `AnsweredIsStored`, `PricesNeverRefuse`, `ListsNewest` |
| `accounts` | MCWalletRegistry, WalletRegistry.cfg | two users, two wallet rows, two addresses, two chains, two requests; 68 thousand states | `PrimaryOwnedWhenSet`, `VettedIsSole`, and the refinement of `AddressBook` |
| `browser` | MCClientSession, ClientSession.cfg | two tabs, two calls, three sessions; 562 thousand states | `SessionKept`, `SignOutHolds`, `ProfileOfTheJar` |
| `revoke_rotated`, `alert_panic`, `alert_drop` | MCAuthSession and MCAlertEvaluator, smaller instances | | a document's claim is refuted, see section 5 |

Each passing run also checks its module's `TypeOK` (except `sync_calls`, whose
module `sync` checks). Some say a little more than the shape: no row of the role
cache is stamped ahead of the clock, an evaluator that judges holds two totals,
204 is answered only for a strategy that is gone. Every property is matched by a
mutant of a mapped definition that TLC finds to violate it.

Why the bounds suffice for what is asked. The races are between two handlers
over one nonce, one session, one rule, one wallet or one address: two slots
show them, and a third handler meets them pairwise. Three sessions are a login
and two rotations, or two logins and a rotation; two nonces let two logins be
independent. Clock and TTLs are chosen so that nonces and sessions do expire
(`RefreshTTL` 1, `MaxTime` 2). Two chains are needed for rows to disagree; three
versions for an old role, a refreshed one and a newer one. Two triggers are the
earlier and the later of a cooldown, and the rule's cooldowns are 0 and 1 within
a clock of 3. A clock of 0..2 with an interval of 2 has snapshots that are too
close, just far enough apart, in one day and in two. One permit for two wallets
makes one wait while the other pauses, panics or ends. Four prices are enough
to enter the market, earn there and leave it, with a window of 2 that has slid. A
limit of 1 makes a list drop a result as soon as there are two; three requests
are two results and a list or a delete. What these instances leave
open, the theorems settle for every size. `sync` with an interval of 1 and
a clock of 0..2 (6.1 million states), or with two blocks (2.8 million), and
`browser` with four sessions (2.3 million) hold as well; they are no runs of
their own only for the time they take.

Symmetry is used for safety properties only. `CHECK_DEADLOCK FALSE` is set where
a bounded instance runs out of time, sessions, versions, rows or requests and
stops; evaluators can always be restarted, and `alerts` checks deadlock.

Fairness is assumed in `PortfolioSync` only: weak fairness of each call and of
each task (`Fairness`). Tokio polls every task that is ready, and the model's
steps after an await include the error, so that what is assumed of the outside
is that a call to the node or the database returns with an answer *or* an
error. The code sets no timeout of its own; a node that never answers would hold
a call for ever. Nothing is assumed of wallets, blocks, restarts or the clock:
`CallsReturn` holds for a call under way whatever they do, and needs neither the
retry to succeed nor a panic not to happen. The other modules state safety: their
handlers are driven by clients who may stop.

## 4. Theorems

All are proved by TLAPS from the named assumptions on the constants
(`ConstantsAssumption`, `RoleAssumption`, `AlertAssumption`, `SyncAssumption`, `BacktestAssumption`,
`StrategyAssumption`, `RegistryAssumption`, `ClientAssumption`), for any number of
handlers, rows, accounts, chains, evaluators, callers, tabs and for series of
any length.

**AuthSessionProofs.** `IInv` is the inductive invariant: `TypeOK`; `ChainInv`
(a row has a chain from the moment it exists, and the first session of a chain
is its own chain); `HandlerInv` (what a handler may rely on over an await, such
as: between consuming a nonce and answering, nothing was granted for it);
`ExclusionInv` (no two handlers have consumed one nonce or lock one session);
`GrantInv`, `RevokeInv`; and the five safety properties. They are not inductive
alone: that a nonce grants one login depends on no *other* handler being past
its conditional UPDATE, which only `ExclusionInv` says. Instead of a case per
action and property, every action is first shown to change the sessions in one
of three ways (opens a chain, moves one on, or only ends sessions), and
properties are proved over these. `NextHandlerInv` separates the handler that
steps from the bystanders. Theorems: `TypeCorrect`, `SingleUse`, `NoFork`,
`RevocationHolds`, `NoFreeTokens`, `NoOrphanSession`, `NoResurrection` (an
action property), and `ImplementsChains`: `Spec => ChainsSpec`, with the
mapping live = active sessions of a chain, used = rows that exist, given =
sessions in clients' hands, granted = nonces that granted.

**RoleCacheProofs.** Each step leaves the rows alone, adds or drops a row, or
stores what one handler holds in *all* rows of its account (`RowsStep`), and a
handler's role comes from the contract, from a row, or stays (`HandsStep`).
`ShapeOK` is inductive by itself; that no stamp is ahead of the clock needs
`RowsStep` and that the clock only goes on (`NotAheadStep`).
Theorems: `TypeCorrect`, `OneRolePerAccount`, `NoMadeUpRole`, `RefreshSticks`.
The last needs `StickInv`: the floor is a version that exists, and no row or
hand is below it; since versions only grow, an undisturbed store raises the
floor to something nobody is below.

**AlertEvaluatorProofs.** The check looks at the last trigger only. `InOrder`
(triggers are in the order of time and none is in the future) makes the last
one speak for all (`LastSpeaks`), and `CheckHolds` says that what a check found
is still true at the INSERT unless the evaluator is marked as overtaken.
Together with `CooldownUnlessRaced` they are the inductive `CooldownInv`.
What a trigger says of the totals is a theorem of its own,
`DropRulesFireOnRises` (`TriggerMeans`): an evaluator about to insert holds a
rule that fires on the pair of totals it read (`FiringInv`, which `TypeCorrect`
needs too), and by the double reversal a
`tvl_drop_pct` rule fires on that pair only if the total *rose*, a `tvl_below`
rule judges the older total, and an `approval_spike` rule needs a threshold of 0
or less. It is the code's true statement in place of `DropMeansDrop`, which
section 5 refutes. Theorems: `TypeCorrect`, `CooldownHolds`, `NoOrphans`,
`DropRulesFireOnRises`.

**PortfolioSyncProofs.** Permits first: a step of a task gives its permit back
when, and only when, it ends the task, and `CallInv` says that a call's running
tasks are among its handles, so that none is spawned twice; the cardinality of
`Held(s)` then moves against `permits[s]`. Together with the shape this is
`SyncInv` (`TypeCorrect`, `PermitsBalance`). The snapshots next: `Storing` is
what a task knows between its check and its INSERT of a wallet that is still
there (the snapshots it saw are an interval away from its own total), and with
the three properties it is `StoreInv` (`Spaced`, `DailyIsASnapshot`,
`OkHasSnapshot`).

That calls return is split. `NeverStuck` (`WaitsForRunning`): a call under way
can take its next step or a task of it runs. It needs `HandleInv` (a handle
belongs to one spawned task that has not been joined) and the counted permits: a
spawn without a permit waits for the holder of one, who has not ended.
`CallsRunDown`: `StepsAhead` counts the steps a call can still make, for a wallet
not yet spawned the most a task can take through all its retries; a step of the
call or of a task of it lowers the count, no other step of the system raises it
while the call is under way, and it is 0 exactly when the call has returned. The
bound is 3 + |Wallet| * `MostAhead`. What is missing to `CallsReturn` is fairness:
that a step that can be taken is taken.

**BacktestProofs.** `BacktestInv`: the window is the end of the series, and over
positive prices every factor of the curve has a divisor that is a price
(`TypeCorrect`, `WindowIsTheEnd`, `PositiveIsFinite`). Three more invariants, one
for each of the other properties:

- `SpoilInv`: a point of the curve is a number exactly if the prices its factors
  divided by are above 0 (`ZeroIsWhatSpoils`).
- `DrawdownInv`: the numbers of a curve come before its spoilt points; the peak
  is one of the points seen and none is above it; the drawdown is one of the
  ratios of a point to an earlier one and none is below it (`DeepestFound`).
- `StretchInv`: the equity is what the finished stretches in the market and the
  open one have earned, as a cross product of numerators and denominators
  (`EquityIsEarned`). The stretches are a set and their earnings a fold over it;
  a step of the loop opens a stretch, moves the end of the open one, or leaves
  the set alone, and the fold changes by just that factor. That the loop's
  decision over its window is the rule over the series is `DecisionIsTheRule`.

Induction is over sets of numbers: the least element of the set of
counterexamples exists as `<` is well-founded (`LeastNat`), which needs no
operator as a parameter. That a fold over a finite set gives the same in any
order is shown once (`FoldTakesAny`, `FoldsAgree`) from the function that its
definition chooses.

**StrategyStoreProofs.** `AtWork` says which operation is at which await and that
its strategy was created. Steps that leave both tables alone share one lemma
(`HandlerStep`); inserts and the committing delete are proved by themselves
(`SaveStep`, `CommitStep`). An answered result is `Accounted` for: it is stored,
its strategy is gone, or another user's delete took it alone. Only a commit,
answered or not, takes anything away. The owner's makes the strategy `Gone`
together with its results, whatever they are by then; another user's takes what
it had matched, and being over it stays in `TookAlone` for good (`StillTook`).
A strategy never comes back, so that neither is undone. Theorems: `TypeCorrect`, `NoOrphans`,
`AnsweredStored`, `PricesNeverRefused`, `NewestListed`.

**WalletRegistryProofs.** `Knows` says what a handler knows of its address,
above all that a lookup which found nobody and was not overtaken is still true;
`UniqueRows` is the table's constraint. Every step inserts one row where none
was, takes one away, or leaves the rows (`TypeCorrect`, `PrimaryOwned`,
`VettedSole`). `ImplementsBook`: `Spec => AddressBookSpec`; an insert maps to
`Take`, a deletion to `GiveUp`, as by `UniqueRows` the deleted row was the only
one of its key.

**ClientSessionProofs.** `SessionKept` rests on `Sole` (a login has one live
session) and `InFlight` (a session on its way to the jar is in one answer only);
`ProfileOfTheJar` on `Unraced` (what a call that nothing raced knows of jar and
session, by where it stands); `SignOutHolds` on `Quiet` (after such a sign-out
nothing with a session is on its way to the jar). `NewUnused` says that fresh
ids are in nobody's hands. `MovesLikeChains` closes the gap to `AuthSession`,
of which this model keeps a rotation in one step: `ChainsMove` says that every
step is one of `SessionChains` or a stutter, with `live` the live sessions of a
login and `used` those that exist. `given` is every session, as nothing here
follows who was handed which token, and no nonces are granted; that tokens and
nonces are paid for is `TokensPaidFor` of `AuthSession`. Theorems:
`LoginSurvives`, `SignOutStays`, `ProfileTrue`, `TypeCorrect`, `MovesLikeChains`.

Every invariant and action property of the passing runs is thus a theorem. Only
model-checked: `CallsReturn`, whose fairness and ENABLED are out of the prover's
reach (`NeverStuck` and `CallsRunDown` are what it needs of the model besides),
and the refutations of section 5, each of which is one behaviour.

## 5. Where documents and code differ

Refuted by a run:

| Run, property | Document | Code |
|---|---|---|
| `revoke_rotated`, `RevokeReachesRotated` | README.md:87, revocation includes a refresh already rotated | one row is updated; a rotated session answers 404 and its successor stays |
| `alert_panic`, `KeepsEvaluating` | v0.0.2.md:174, evaluates every 60 seconds | `H256::from_slice` on 20 bytes panics and ends the task |
| `alert_drop`, `DropMeansDrop` | README.md:96, fires when the total fell | the history is reversed twice: fires when it rose |

Seen while modelling, allowed by the models, and without a run of their own:

- README.md:70, logout clears the session: a refresh that commits between the
  middleware and the UPDATE leaves its successor active, and its answer may
  sign the browser in again; and `signOut` ignores a 401 of an expired token,
  after which the refresh cookie signs the browser in at the next reload.
  `SignOutHolds` says when a sign-out does hold.
- v0.0.2.md:236, the role cache has a TTL: each sign-in stores a hit with a
  new timestamp, so that an entry need never expire.
- v0.0.1.md:48, not twice within the cooldown: two evaluators may both check
  before either inserts. `CooldownUnlessRaced` excepts just that.
- A stored price is never read back as itself (NUMERIC read as f64, then
  `unwrap_or(0.0)`): backtests over the table's history store curves of nulls
  that lists leave out, the price cache never answers, and net outflow is 0.
- The DELETE of a strategy by another user answers 404 and removes the backtests
  it found all the same: the first statement asks for no user. No document says
  what a delete removes, so that this refutes none; `AnsweredIsStored` names it
  (`TookAlone`) as the only way in which a result is lost before its strategy.
- A history counts as covered only with a row exactly as old as the window,
  so that most backtests over symbols ask Coingecko again.
- A deleted wallet may stay somebody's primary wallet, and an address may have
  rows of two users on two chains; which of them signs in by it is not
  determined.

The positive counterparts say how far the code does keep the promise:
`RevokedChainEnds` (a revocation that was answered 204 ends the chain, even with
a refresh under way), `SignOutHolds`, `QuietRefreshSticks`, `CooldownUnlessRaced`,
`SpacedUnlessRaced`, `VettedIsSole`, and `DropRulesFireOnRises` for what a
trigger does mean.

## 6. Assumptions and limits

- One clock for database and services. Integers stand for seconds; `MaxTime`
  stops the clock in the instances.
- A statement is atomic; transactions other than the refresh are one statement
  or have one visible effect.
- `getRole` is answered from the newest block.
- The text of the signed message, signatures, the token's encoding and cookies
  are not modelled: a handler that refuses them changes nothing.
- One user in `AlertEvaluator`, whose wallets and rules are worked off in any
  order; one owner per wallet in `AuthSession` and `RoleCache`. Owners of one
  address on several chains are in `WalletRegistry`.
- `PortfolioSync` reads height, balances and prices in one step, and tells a
  total apart by its time. The timer's interval and the minimum interval are
  one constant, as `bootstrap.rs` passes one value for both.
- `GET /me` is one step in `ClientSession`, though it reads in two queries.
- Prices and amounts are integers or fractions; floating-point rounding is not
  modelled.
- Redis, the node, Coingecko and Postgres itself are external.

Not modelled, and why:

- What follows `H256::from_slice` in `sync_transactions` and
  `recent_approvals`: it panics whenever it is reached.
- Square roots, powers and rounding: volatility, Sharpe ratio, CAGR, the value
  of a correlation. TLC has no reals.
- The oracles' chain (cache, recording, fallback): what it answers is the value
  of a snapshot, which no property tells apart, and its tables are read by
  nobody else.
- Ownership in `RoleManager.sol`: single guarded assignments, each in one
  transaction of the chain.
- The nonce limiter: it only refuses what `AuthSession` may leave undone anyway.
- Configuration, telemetry, read-only routes, pages and stubs: no state, or
  state that is set once.
- Strategy parameters that are no object, or more days than a date can hold,
  panic in the handler of that request and change nothing.

## 7. Plan

Done, in this order: `SessionChains` and `AuthSession`, `RoleCache`,
`AlertEvaluator`, `PortfolioSync`, `Backtest`, `StrategyStore`, `AddressBook` and
`WalletRegistry`, `ClientSession`, each with its proofs.

What could be added:

1. The composition of `ClientSession` with `AuthSession`, in place of its
   rotation in one step: the browser's calls as the clients of the handlers,
   two tabs and two handlers. That both move sessions as `SessionChains` does is
   shown (`ImplementsChains`, `MovesLikeChains`).
2. The composition of `PortfolioSync` and `AlertEvaluator` over one table of
   snapshots: how far apart the two totals lie that a drop is computed from.
3. `PriceOracle`: cache, recording and fallback, once prices are read back.
   Property: recorded points are spaced unless raced.
