--------------------------- MODULE AlertEvaluator ---------------------------
(***************************************************************************)
(* The alert evaluator of backend/api/src/services/alert.rs: a task that   *)
(* judges the rules of a user on his wallets every minute and writes a     *)
(* trigger when one fires, unless the rule's cooldown forbids it.  The API *)
(* server and the alert_worker process each may run one, on one database,  *)
(* while the user edits rules, tests them and removes wallets, and the     *)
(* indexer stores snapshots.                                               *)
(*                                                                         *)
(* A run's actions are what it does between two awaits.  One user is       *)
(* modelled: the users are worked off one after the other.  The wallets    *)
(* and the rules of a run are worked off in any order.  Rules that look at *)
(* more than the totals (exposure of a token, net outflow) fire or do not  *)
(* by chance, and may fire again for another token.  The wallet of a test  *)
(* is any of the user's.  The notifier prints a line and keeps nothing.    *)
(***************************************************************************)
EXTENDS Integers, Sequences

CONSTANTS
  Evaluator,
  Rule,        \* ids of alert_rules
  Wallet,      \* ids of the user's wallets
  Config,      \* what a rule can say
  Value,       \* total_usd_value of a snapshot
  None,
  Interval,    \* the time an evaluator sleeps between two runs
  MaxTime,     \* bound: the clock stops here
  MaxTriggers  \* bound: triggers of one rule on one wallet

RuleType == {"tvl_drop_pct", "tvl_below", "approval_spike", "by_chance"}

ASSUME AlertAssumption ==
  /\ Config \subseteq [type : RuleType, threshold : Int, enabled : BOOLEAN, cooldown_secs : Int]
  /\ Value \subseteq Nat
  /\ Interval \in Nat /\ MaxTime \in Nat /\ MaxTriggers \in Nat
  /\ None \notin Config \cup Rule \cup Wallet

VARIABLES
  alert_rules,    \* table alert_rules: the rule's content
  wallets,        \* table wallets: the ids present, and those not yet used
  snapshots,      \* the two newest totals of each wallet, older first
  alert_triggers, \* table alert_triggers of each rule and wallet, in order
  ev,             \* the evaluators
  now             \* the clock

vars == <<alert_rules, wallets, snapshots, alert_triggers, ev, now>>

-----------------------------------------------------------------------------
(* A row that was deleted never comes back: ids are random.                *)
RuleRow == [state : {"unused", "deleted"}, config : {None}]
             \cup [state : {"present"}, config : Config]

(* blind and raced are history: the writer's cooldown check failed to read *)
(* the last trigger, or another trigger was written after it.              *)
Trigger ==
  [created_at : 0..MaxTime, by : {"evaluator"}, cooldown : Int,
   blind : BOOLEAN, raced : BOOLEAN]
    \cup [created_at : 0..MaxTime, by : {"test"}, cooldown : {0},
          blind : {FALSE}, raced : {FALSE}]

(* wake_at: the end of the sleep.  rules: those read at the start of the   *)
(* run.  todo: the wallets left; left: the rules left for this wallet.     *)
Book == [Rule -> Config \cup {None}]
EvaluatorState ==
  {s \in [pc : {"sleep", "rules", "wallets", "walk", "approvals", "judge", "insert", "dead"},
          wake_at : Nat, rules : Book, todo : SUBSET Wallet, wallet : Wallet \cup {None},
          pair : Seq(Value), left : SUBSET Rule, rule : Rule \cup {None},
          blind : BOOLEAN, raced : BOOLEAN] :
     /\ s.pc \in {"approvals", "judge", "insert"} => s.wallet \in Wallet
     /\ s.pc = "insert" => s.rule \in Rule /\ s.rules[s.rule] \in Config
     /\ \A r \in s.left : s.rules[r] \in Config}

EmptyBook == [r \in Rule |-> None]
Asleep(t) ==
  [pc |-> "sleep", wake_at |-> t, rules |-> EmptyBook, todo |-> {}, wallet |-> None,
   pair |-> <<>>, left |-> {}, rule |-> None, blind |-> FALSE, raced |-> FALSE]

Init ==
  /\ alert_rules = [r \in Rule |-> [state |-> "unused", config |-> None]]
  /\ wallets = [w \in Wallet |-> "present"]
  /\ snapshots = [w \in Wallet |-> <<>>]
  /\ alert_triggers = [p \in Rule \X Wallet |-> <<>>]
  /\ ev = [e \in Evaluator |-> Asleep(0)]
  /\ now = 0

Cooldown(c) == IF c.cooldown_secs > 0 THEN c.cooldown_secs ELSE 0

(* The condition of a rule on the pair of totals the evaluator holds.      *)
(* history_by_wallet answers older first; the evaluator reverses it and    *)
(* takes the first for the previous total and the second for the latest.   *)
DropPct(prev, latest) == IF prev <= 0 THEN 0 ELSE ((prev - latest) * 100) \div prev
Fires(c, pair) ==
  LET prev == pair[2]
      latest == pair[1]
  IN CASE c.type = "tvl_drop_pct" -> DropPct(prev, latest) >= c.threshold
       [] c.type = "tvl_below" -> latest <= c.threshold
       [] c.type = "approval_spike" -> 0 >= c.threshold
       [] c.type = "by_chance" -> TRUE
MayHold(c, pair) == ~Fires(c, pair) \/ c.type = "by_chance"

-----------------------------------------------------------------------------
(* Writing a trigger: rule and wallet must exist (foreign keys).           *)
CanWrite(r, w) ==
  /\ alert_rules[r].state = "present"
  /\ wallets[w] = "present"
  /\ Len(alert_triggers[<<r, w>>]) < MaxTriggers

Write(r, w, trigger) ==
  alert_triggers' = [alert_triggers EXCEPT ![<<r, w>>] = Append(@, trigger)]

(* An evaluator past its check of r and w learns nothing of a new trigger. *)
Raced(r, w) ==
  [e \in Evaluator |->
     IF ev[e].pc = "insert" /\ ev[e].rule = r /\ ev[e].wallet = w
       THEN [ev[e] EXCEPT !.raced = TRUE] ELSE ev[e]]

-----------------------------------------------------------------------------
(* Plausible bugs of the actions below; no action uses them.               *)

(* Deleting a wallet leaves its triggers: NoOrphanTriggers.                *)
BugNoCascade(w) ==
  /\ wallets[w] = "present"
  /\ wallets' = [wallets EXCEPT ![w] = "deleted"]
  /\ UNCHANGED <<alert_rules, snapshots, alert_triggers, ev, now>>

(* A trigger exactly at the end of the cooldown's last second is too early *)
(* by one: CooldownUnlessRaced.                                            *)
BugCooldownOffByOne(r, w, c) ==
  LET rows == alert_triggers[<<r, w>>]
  IN rows # <<>> /\ now + 1 < rows[Len(rows)].created_at + Cooldown(c)

(* One snapshot is enough, and the index 1 out of range: TypeOK.           *)
BugOneIsEnough(e, w) ==
  /\ ev[e].pc = "walk" /\ w \in ev[e].todo
  /\ ev' = IF Len(snapshots[w]) < 1
             THEN [ev EXCEPT ![e].todo = @ \ {w}]
             ELSE [ev EXCEPT ![e].pc = "approvals", ![e].todo = @ \ {w},
                             ![e].wallet = w, ![e].pair = snapshots[w]]
  /\ UNCHANGED <<alert_rules, wallets, snapshots, alert_triggers, now>>

-----------------------------------------------------------------------------
(* A run of evaluator e.                                                   *)

(* collect_rules_grouped: the users who have rules, then their rules.      *)
ListUsers(e) ==
  /\ ev[e].pc = "sleep" /\ now >= ev[e].wake_at
  /\ ev' = [ev EXCEPT ![e] = IF \E r \in Rule : alert_rules[r].state = "present"
                               THEN [Asleep(0) EXCEPT !.pc = "rules"]
                               ELSE Asleep(now + Interval)]
  /\ UNCHANGED <<alert_rules, wallets, snapshots, alert_triggers, now>>

Collect(e) ==
  /\ ev[e].pc = "rules"
  /\ ev' = [ev EXCEPT ![e] = [Asleep(0) EXCEPT
                !.pc = "wallets", !.rules = [r \in Rule |-> alert_rules[r].config]]]
  /\ UNCHANGED <<alert_rules, wallets, snapshots, alert_triggers, now>>

ListWallets(e) ==
  /\ ev[e].pc = "wallets"
  /\ ev' = [ev EXCEPT ![e].pc = "walk", ![e].todo = {w \in Wallet : wallets[w] = "present"}]
  /\ UNCHANGED <<alert_rules, wallets, snapshots, alert_triggers, now>>

(* The wallet's two newest snapshots, or too few of them: continue.  The   *)
(* snapshots of a wallet deleted by now are gone.                          *)
TakeWallet(e, w) ==
  /\ ev[e].pc = "walk" /\ w \in ev[e].todo
  /\ ev' = IF Len(snapshots[w]) < 2
             THEN [ev EXCEPT ![e].todo = @ \ {w}]
             ELSE [ev EXCEPT ![e].pc = "approvals", ![e].todo = @ \ {w},
                             ![e].wallet = w, ![e].pair = snapshots[w]]
  /\ UNCHANGED <<alert_rules, wallets, snapshots, alert_triggers, now>>

(* recent_approvals without a node to ask: no approvals.                   *)
NoNode(e) ==
  /\ ev[e].pc = "approvals"
  /\ ev' = [ev EXCEPT ![e].pc = "judge",
                      ![e].left = {r \in Rule : ev[e].rules[r] # None /\ ev[e].rules[r].enabled}]
  /\ UNCHANGED <<alert_rules, wallets, snapshots, alert_triggers, now>>

(* With a node, it builds a 32 byte topic from the 20 bytes of an address: *)
(* H256::from_slice panics and takes the task with it.                     *)
Panic(e) ==
  /\ ev[e].pc = "approvals"
  /\ ev' = [ev EXCEPT ![e] = [Asleep(0) EXCEPT !.pc = "dead"]]
  /\ UNCHANGED <<alert_rules, wallets, snapshots, alert_triggers, now>>

(* A rule that does not fire, or a rule of chance that has fired enough.   *)
Hold(e, r) ==
  /\ ev[e].pc = "judge" /\ r \in ev[e].left
  /\ MayHold(ev[e].rules[r], ev[e].pair)
  /\ ev' = [ev EXCEPT ![e].left = @ \ {r}]
  /\ UNCHANGED <<alert_rules, wallets, snapshots, alert_triggers, now>>

(* The rule fires: the last trigger forbids it, or not.  A read that fails *)
(* counts as no trigger.  Exposure fires for every token: the rule stays.  *)
OnCooldown(r, w, c) ==
  LET rows == alert_triggers[<<r, w>>]
  IN rows # <<>> /\ now < rows[Len(rows)].created_at + Cooldown(c)

Remaining(e, r) ==
  IF ev[e].rules[r].type = "by_chance" THEN ev[e].left ELSE ev[e].left \ {r}

Check(e, r) ==
  LET c == ev[e].rules[r]
      held == OnCooldown(r, ev[e].wallet, c)
  IN /\ ev[e].pc = "judge" /\ r \in ev[e].left
     /\ Fires(c, ev[e].pair)
     /\ ev' = IF held
                THEN [ev EXCEPT ![e].left = Remaining(e, r)]
                ELSE [ev EXCEPT ![e].left = Remaining(e, r), ![e].pc = "insert",
                                ![e].rule = r, ![e].blind = FALSE, ![e].raced = FALSE]
     /\ UNCHANGED <<alert_rules, wallets, snapshots, alert_triggers, now>>

CheckBlindly(e, r) ==
  /\ ev[e].pc = "judge" /\ r \in ev[e].left
  /\ Fires(ev[e].rules[r], ev[e].pair)
  /\ ev' = [ev EXCEPT ![e].left = Remaining(e, r), ![e].pc = "insert",
                      ![e].rule = r, ![e].blind = TRUE, ![e].raced = FALSE]
  /\ UNCHANGED <<alert_rules, wallets, snapshots, alert_triggers, now>>

(* insert_trigger and notify.  An INSERT that fails ends the run: Fail.    *)
Insert(e) ==
  LET r == ev[e].rule
      w == ev[e].wallet
  IN /\ ev[e].pc = "insert"
     /\ CanWrite(r, w)
     /\ Write(r, w, [created_at |-> now, by |-> "evaluator",
                     cooldown |-> Cooldown(ev[e].rules[r]),
                     blind |-> ev[e].blind, raced |-> ev[e].raced])
     /\ ev' = [Raced(r, w) EXCEPT ![e].pc = "judge", ![e].rule = None,
                                  ![e].blind = FALSE, ![e].raced = FALSE]
     /\ UNCHANGED <<alert_rules, wallets, snapshots, now>>

NextWallet(e) ==
  /\ ev[e].pc = "judge" /\ ev[e].left = {}
  /\ ev' = [ev EXCEPT ![e].pc = "walk", ![e].wallet = None, ![e].pair = <<>>]
  /\ UNCHANGED <<alert_rules, wallets, snapshots, alert_triggers, now>>

(* The run is over, or a call that is not forgiven failed: sleep.          *)
EndRun(e) ==
  /\ ev[e].pc = "walk" /\ ev[e].todo = {}
  /\ ev' = [ev EXCEPT ![e] = Asleep(now + Interval)]
  /\ UNCHANGED <<alert_rules, wallets, snapshots, alert_triggers, now>>

Fail(e) ==
  /\ \/ ev[e].pc = "sleep" /\ now >= ev[e].wake_at
     \/ ev[e].pc \in {"rules", "wallets", "walk", "insert"}
  /\ ev' = [ev EXCEPT ![e] = Asleep(now + Interval)]
  /\ UNCHANGED <<alert_rules, wallets, snapshots, alert_triggers, now>>

(* The process is stopped and started again; the first run is at once.     *)
Restart(e) ==
  /\ ev' = [ev EXCEPT ![e] = Asleep(now)]
  /\ UNCHANGED <<alert_rules, wallets, snapshots, alert_triggers, now>>

-----------------------------------------------------------------------------
(* The routes of the user, and the indexer.                                *)

SetRule(r, from, config) ==
  /\ alert_rules[r].state = from
  /\ alert_rules[r].config # config
  /\ alert_rules' = [alert_rules EXCEPT ![r] = [state |-> "present", config |-> config]]
  /\ UNCHANGED <<wallets, snapshots, alert_triggers, ev, now>>

CreateAlert(r, config) == SetRule(r, "unused", config)
UpdateAlert(r, config) == SetRule(r, "present", config)

DeleteAlert(r) ==
  /\ alert_rules[r].state = "present"
  /\ alert_rules' = [alert_rules EXCEPT ![r] = [state |-> "deleted", config |-> None]]
  /\ alert_triggers' = [p \in Rule \X Wallet |-> IF p[1] = r THEN <<>> ELSE alert_triggers[p]]
  /\ UNCHANGED <<wallets, snapshots, ev, now>>

(* POST /api/alerts/:id/test writes a trigger without asking the cooldown. *)
SimulateTrigger(r, w) ==
  /\ CanWrite(r, w)
  /\ Write(r, w, [created_at |-> now, by |-> "test", cooldown |-> 0,
                  blind |-> FALSE, raced |-> FALSE])
  /\ ev' = Raced(r, w)
  /\ UNCHANGED <<alert_rules, wallets, snapshots, now>>

DeleteWallet(w) ==
  /\ wallets[w] = "present"
  /\ wallets' = [wallets EXCEPT ![w] = "deleted"]
  /\ snapshots' = [snapshots EXCEPT ![w] = <<>>]
  /\ alert_triggers' = [p \in Rule \X Wallet |-> IF p[2] = w THEN <<>> ELSE alert_triggers[p]]
  /\ UNCHANGED <<alert_rules, ev, now>>

(* insert_snapshot; only the newest total before it is looked at again.    *)
Snapshot(w, total) ==
  /\ wallets[w] = "present"
  /\ snapshots' = [snapshots EXCEPT ![w] =
                     IF @ = <<>> THEN <<total>> ELSE <<@[Len(@)], total>>]
  /\ UNCHANGED <<alert_rules, wallets, alert_triggers, ev, now>>

Tick ==
  /\ now < MaxTime
  /\ now' = now + 1
  /\ UNCHANGED <<alert_rules, wallets, snapshots, alert_triggers, ev>>

Run(e) ==
  \/ ListUsers(e)
  \/ Collect(e)
  \/ ListWallets(e)
  \/ \E w \in Wallet : TakeWallet(e, w)
  \/ NoNode(e)
  \/ Panic(e)
  \/ \E r \in Rule : Hold(e, r) \/ Check(e, r) \/ CheckBlindly(e, r)
  \/ Insert(e)
  \/ NextWallet(e)
  \/ EndRun(e)
  \/ Fail(e)
  \/ Restart(e)

Edit ==
  \/ \E r \in Rule, c \in Config : CreateAlert(r, c) \/ UpdateAlert(r, c)
  \/ \E r \in Rule : DeleteAlert(r)
  \/ \E r \in Rule, w \in Wallet : SimulateTrigger(r, w)
  \/ \E w \in Wallet : DeleteWallet(w)

Next ==
  \/ \E e \in Evaluator : Run(e)
  \/ Edit
  \/ \E w \in Wallet, total \in Value : Snapshot(w, total)
  \/ Tick

Spec == Init /\ [][Next]_vars
-----------------------------------------------------------------------------
(* PROPERTIES                                                              *)

ShapeOK ==
  /\ alert_rules \in [Rule -> RuleRow]
  /\ wallets \in [Wallet -> {"present", "deleted"}]
  /\ snapshots \in [Wallet -> Seq(Value)]
  /\ alert_triggers \in [Rule \X Wallet -> Seq(Trigger)]
  /\ ev \in [Evaluator -> EvaluatorState]
  /\ now \in 0..MaxTime

(* Tables and evaluators have their shape; and whatever happened to its    *)
(* wallet since, an evaluator that judges has two totals in hand: it never *)
(* reads a total that is not there.                                        *)
Judging == {"approvals", "judge", "insert"}
TypeOK == ShapeOK /\ \A e \in Evaluator : ev[e].pc \in Judging => Len(ev[e].pair) = 2

(* An evaluator writes no trigger of a rule on a wallet before the rule's  *)
(* cooldown, as the run read it, has passed since every earlier trigger,   *)
(* be it another evaluator's or a test's.  The only exceptions are a check *)
(* whose read failed and one that another trigger overtook.                *)
Spaced(rows, j) ==
  \A i \in 1..(j - 1) : rows[j].created_at >= rows[i].created_at + rows[j].cooldown
CooldownUnlessRaced ==
  \A p \in Rule \X Wallet :
    LET rows == alert_triggers[p]
    IN \A j \in DOMAIN rows : Spaced(rows, j) \/ rows[j].blind \/ rows[j].raced

(* No trigger outlives its rule or its wallet, whatever an evaluator still *)
(* has in hand when they are deleted.                                      *)
NoOrphanTriggers ==
  \A r \in Rule, w \in Wallet :
    alert_triggers[<<r, w>>] # <<>> =>
      alert_rules[r].state = "present" /\ wallets[w] = "present"

-----------------------------------------------------------------------------
(* What the documents say and the code does not do.                        *)

(* v0.0.2.md:174 has the evaluator judge the rules every 60 seconds.  The  *)
(* first wallet with two snapshots ends it for good as soon as the node    *)
(* answers, and nothing starts it again while the process lives.           *)
KeepsEvaluating == \A e \in Evaluator : ev[e].pc # "dead"

(* README.md:96 says that tvl_drop_pct fires when the latest total is that *)
(* much below the one before.  The pair is reversed: it fires on a rise.   *)
DropMeansDrop ==
  \A e \in Evaluator :
    LET c == ev[e].rules[ev[e].rule]
    IN ev[e].pc = "insert" /\ c.type = "tvl_drop_pct" /\ c.threshold > 0
         => ev[e].pair[2] < ev[e].pair[1]
=============================================================================
