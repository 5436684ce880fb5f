------------------------ MODULE AlertEvaluatorProofs ------------------------
(***************************************************************************)
(* Proofs about AlertEvaluator, for any number of evaluators, rules and    *)
(* wallets, any rules' contents and any bounds.                            *)
(***************************************************************************)
EXTENDS AlertEvaluator, TLAPS

-----------------------------------------------------------------------------
(* Type correctness.                                                       *)

LEMMA Bounds == Interval \in Nat /\ MaxTime \in Nat /\ MaxTriggers \in Nat
  BY AlertAssumption

LEMMA AsleepState == ASSUME NEW t \in Nat PROVE Asleep(t) \in EvaluatorState
  BY DEF Asleep, EvaluatorState, EmptyBook, Book

(* An evaluator that has the rules of the run in hand and nothing else.    *)
LEMMA FreshState ==
  ASSUME NEW pc \in {"rules", "wallets", "dead"}, NEW book \in Book
  PROVE  [Asleep(0) EXCEPT !.pc = pc, !.rules = book] \in EvaluatorState
<1>1. Asleep(0) \in EvaluatorState
  BY AsleepState
<1>2. Asleep(0).left = {}
  BY DEF Asleep
<1> QED BY <1>1, <1>2 DEF EvaluatorState

LEMMA FreshPc ==
  ASSUME NEW pc \in {"rules", "dead"}
  PROVE  [Asleep(0) EXCEPT !.pc = pc] \in EvaluatorState
<1>1. Asleep(0) \in EvaluatorState
  BY AsleepState
<1>2. Asleep(0).left = {}
  BY DEF Asleep
<1> QED BY <1>1, <1>2 DEF EvaluatorState

LEMMA InitShapeOK == Init => ShapeOK
<1> SUFFICES ASSUME Init PROVE ShapeOK
  OBVIOUS
<1>1. ev \in [Evaluator -> EvaluatorState]
  BY AsleepState DEF Init
<1>2. alert_rules \in [Rule -> RuleRow]
  BY DEF Init, RuleRow
<1>3. now \in 0..MaxTime
  BY Bounds DEF Init
<1>4. /\ wallets \in [Wallet -> {"present", "deleted"}]
      /\ snapshots \in [Wallet -> Seq(Value)]
      /\ alert_triggers \in [Rule \X Wallet -> Seq(Trigger)]
  BY DEF Init
<1> QED BY <1>1, <1>2, <1>3, <1>4 DEF ShapeOK

LEMMA CooldownFacts == ASSUME NEW c \in Config PROVE Cooldown(c) \in Nat
  BY AlertAssumption DEF Cooldown

(* What an evaluator has in hand.                                          *)
LEMMA EvaluatorFacts ==
  ASSUME ShapeOK, NEW e \in Evaluator
  PROVE  /\ ev[e] \in EvaluatorState
         /\ ev[e].rules \in Book
         /\ ev[e].left \subseteq Rule
         /\ ev[e].pc \in {"approvals", "judge", "insert"} => ev[e].wallet \in Wallet
         /\ ev[e].pc = "insert" => ev[e].rule \in Rule /\ ev[e].rules[ev[e].rule] \in Config
         /\ \A r \in ev[e].left : ev[e].rules[r] \in Config
  BY DEF ShapeOK, EvaluatorState

LEMMA RacedType ==
  ASSUME ShapeOK, NEW r, NEW w
  PROVE  Raced(r, w) \in [Evaluator -> EvaluatorState]
<1> SUFFICES ASSUME NEW e \in Evaluator
             PROVE  [ev[e] EXCEPT !.raced = TRUE] \in EvaluatorState
  BY EvaluatorFacts DEF Raced
<1> QED BY EvaluatorFacts DEF EvaluatorState

LEMMA WriteType ==
  ASSUME ShapeOK, NEW r \in Rule, NEW w \in Wallet, NEW t \in Trigger, Write(r, w, t)
  PROVE  alert_triggers' \in [Rule \X Wallet -> Seq(Trigger)]
<1>1. Append(alert_triggers[<<r, w>>], t) \in Seq(Trigger)
  BY DEF ShapeOK
<1> QED BY <1>1 DEF Write, ShapeOK

LEMMA NextShapeOK == ShapeOK /\ [Next]_vars => ShapeOK'
<1> SUFFICES ASSUME ShapeOK, [Next]_vars PROVE ShapeOK'
  OBVIOUS
<1> USE DEF ShapeOK
<1>n. now \in Nat /\ now + Interval \in Nat
  BY Bounds
<1>1. ASSUME NEW e \in Evaluator, Run(e) PROVE ShapeOK'
  <2>e. ASSUME NEW h \in EvaluatorState, ev' = [ev EXCEPT ![e] = h],
               UNCHANGED <<alert_rules, wallets, snapshots, alert_triggers, now>>
        PROVE  ShapeOK'
    BY <2>e
  <2>0. ASSUME NEW t \in Nat, ev' = [ev EXCEPT ![e] = Asleep(t)],
               UNCHANGED <<alert_rules, wallets, snapshots, alert_triggers, now>>
        PROVE  ShapeOK'
    BY <2>0, <2>e, AsleepState
  <2>1. ASSUME ListUsers(e) PROVE ShapeOK'
    <3>1. [Asleep(0) EXCEPT !.pc = "rules"] \in EvaluatorState
      BY FreshPc
    <3> QED BY <1>n, <2>0, <2>1, <2>e, <3>1 DEF ListUsers
  <2>2. ASSUME Collect(e) PROVE ShapeOK'
    <3> DEFINE book == [r \in Rule |-> alert_rules[r].config]
    <3>1. book \in Book
      BY DEF Book, RuleRow
    <3>2. [Asleep(0) EXCEPT !.pc = "wallets", !.rules = book] \in EvaluatorState
      BY <3>1, FreshState
    <3> QED BY <2>2, <2>e, <3>2 DEF Collect
  <2>3. ASSUME ListWallets(e) PROVE ShapeOK'
    <3>1. [ev[e] EXCEPT !.pc = "walk", !.todo = {w \in Wallet : wallets[w] = "present"}]
            \in EvaluatorState
      BY ZenonT(60), EvaluatorFacts DEF EvaluatorState
    <3> QED BY <2>3, <2>e, <3>1 DEF ListWallets
  <2>4. ASSUME NEW w \in Wallet, TakeWallet(e, w) PROVE ShapeOK'
    <3>1. [ev[e] EXCEPT !.todo = @ \ {w}] \in EvaluatorState
      BY ZenonT(60), EvaluatorFacts DEF EvaluatorState
    <3>2. [ev[e] EXCEPT !.pc = "approvals", !.todo = @ \ {w}, !.wallet = w, !.pair = snapshots[w]]
            \in EvaluatorState
      BY ZenonT(60), EvaluatorFacts DEF EvaluatorState
    <3> QED BY <2>4, <2>e, <3>1, <3>2 DEF TakeWallet
  <2>5. ASSUME NoNode(e) PROVE ShapeOK'
    <3> DEFINE on == {r \in Rule : ev[e].rules[r] # None /\ ev[e].rules[r].enabled}
    <3>1. \A r \in on : ev[e].rules[r] \in Config
      BY EvaluatorFacts DEF Book
    <3>2. [ev[e] EXCEPT !.pc = "judge", !.left = on] \in EvaluatorState
      BY ZenonT(60), <2>5, <3>1, EvaluatorFacts DEF EvaluatorState, NoNode
    <3> QED BY <2>5, <2>e, <3>2 DEF NoNode
  <2>6. ASSUME Panic(e) PROVE ShapeOK'
    <3>1. [Asleep(0) EXCEPT !.pc = "dead"] \in EvaluatorState
      BY FreshPc
    <3> QED BY <2>6, <2>e, <3>1 DEF Panic
  <2>7. ASSUME NEW r \in Rule, Hold(e, r) PROVE ShapeOK'
    <3>1. [ev[e] EXCEPT !.left = @ \ {r}] \in EvaluatorState
      BY ZenonT(60), EvaluatorFacts DEF EvaluatorState
    <3> QED BY <2>7, <2>e, <3>1 DEF Hold
  <2>8. ASSUME NEW r \in Rule, Check(e, r) \/ CheckBlindly(e, r) PROVE ShapeOK'
    <3>1. Remaining(e, r) \subseteq ev[e].left
      BY DEF Remaining
    <3>2. [ev[e] EXCEPT !.left = Remaining(e, r)] \in EvaluatorState
      BY ZenonT(60), <3>1, EvaluatorFacts DEF EvaluatorState
    <3>3. ASSUME NEW b \in BOOLEAN
          PROVE  [ev[e] EXCEPT !.left = Remaining(e, r), !.pc = "insert", !.rule = r,
                               !.blind = b, !.raced = FALSE] \in EvaluatorState
      <4>1. r \in ev[e].left /\ ev[e].pc = "judge"
        BY <2>8 DEF Check, CheckBlindly
      <4>2. ev[e].wallet \in Wallet /\ ev[e].rules[r] \in Config
        BY <4>1, EvaluatorFacts
      <4> QED BY ZenonT(60), <3>1, <4>2, EvaluatorFacts DEF EvaluatorState
    <3>4. ASSUME Check(e, r) PROVE ShapeOK'
      <4>1. CASE OnCooldown(r, ev[e].wallet, ev[e].rules[r])
        BY <2>e, <3>2, <3>4, <4>1 DEF Check
      <4>2. CASE ~OnCooldown(r, ev[e].wallet, ev[e].rules[r])
        BY <2>e, <3>3, <3>4, <4>2 DEF Check
      <4> QED BY <4>1, <4>2
    <3>5. ASSUME CheckBlindly(e, r) PROVE ShapeOK'
      BY <2>e, <3>3, <3>5 DEF CheckBlindly
    <3> QED BY <2>8, <3>4, <3>5
  <2>9. ASSUME Insert(e) PROVE ShapeOK'
    <3> DEFINE r == ev[e].rule
               w == ev[e].wallet
               t == [created_at |-> now, by |-> "evaluator",
                     cooldown |-> Cooldown(ev[e].rules[r]),
                     blind |-> ev[e].blind, raced |-> ev[e].raced]
    <3>1. r \in Rule /\ w \in Wallet /\ Cooldown(ev[e].rules[r]) \in Nat
      BY <2>9, EvaluatorFacts, CooldownFacts DEF Insert
    <3>2. ev[e].blind \in BOOLEAN /\ ev[e].raced \in BOOLEAN
      BY EvaluatorFacts DEF EvaluatorState
    <3>3. t \in Trigger
      BY <3>1, <3>2 DEF Trigger
    <3>4. Write(r, w, t)
      BY <2>9 DEF Insert
    <3>5. alert_triggers' \in [Rule \X Wallet -> Seq(Trigger)]
      BY <3>1, <3>3, <3>4, WriteType
    <3>6. Raced(r, w) \in [Evaluator -> EvaluatorState]
      BY RacedType
    <3>7. [Raced(r, w)[e] EXCEPT !.pc = "judge", !.rule = None, !.blind = FALSE, !.raced = FALSE]
            \in EvaluatorState
      <4>1. Raced(r, w)[e] \in EvaluatorState /\ Raced(r, w)[e].wallet \in Wallet
        BY <3>1, <3>6, EvaluatorFacts DEF Raced, EvaluatorState
      <4> QED BY <4>1 DEF EvaluatorState
    <3>8. ev' \in [Evaluator -> EvaluatorState]
      BY <2>9, <3>6, <3>7 DEF Insert
    <3> QED BY <2>9, <3>5, <3>8 DEF Insert
  <2>10. ASSUME NextWallet(e) PROVE ShapeOK'
    <3>1. [ev[e] EXCEPT !.pc = "walk", !.wallet = None, !.pair = <<>>] \in EvaluatorState
      <4>1. <<>> \in Seq(Value)
        OBVIOUS
      <4> QED BY ZenonT(60), <4>1, EvaluatorFacts DEF EvaluatorState
    <3> QED BY <2>10, <2>e, <3>1 DEF NextWallet
  <2>11. ASSUME EndRun(e) \/ Fail(e) PROVE ShapeOK'
    BY <1>n, <2>0, <2>11 DEF EndRun, Fail
  <2>12. ASSUME Restart(e) PROVE ShapeOK'
    BY <1>n, <2>0, <2>12 DEF Restart
  <2> QED BY <1>1, <2>1, <2>2, <2>3, <2>4, <2>5, <2>6, <2>7, <2>8, <2>9, <2>10, <2>11, <2>12
          DEF Run
<1>2. ASSUME Edit PROVE ShapeOK'
  <2>1. ASSUME NEW r \in Rule, NEW c \in Config, CreateAlert(r, c) \/ UpdateAlert(r, c)
        PROVE  ShapeOK'
    <3>1. [state |-> "present", config |-> c] \in RuleRow
      BY DEF RuleRow
    <3>2. alert_rules' \in [Rule -> RuleRow]
      BY <2>1, <3>1 DEF CreateAlert, UpdateAlert, SetRule
    <3> QED BY <2>1, <3>2 DEF CreateAlert, UpdateAlert, SetRule
  <2>2. ASSUME NEW r \in Rule, DeleteAlert(r) PROVE ShapeOK'
    <3>1. alert_triggers' \in [Rule \X Wallet -> Seq(Trigger)]
      BY <2>2 DEF DeleteAlert
    <3>2. alert_rules' \in [Rule -> RuleRow]
      BY <2>2 DEF DeleteAlert, RuleRow
    <3> QED BY <2>2, <3>1, <3>2 DEF DeleteAlert
  <2>3. ASSUME NEW r \in Rule, NEW w \in Wallet, SimulateTrigger(r, w) PROVE ShapeOK'
    <3> DEFINE t == [created_at |-> now, by |-> "test", cooldown |-> 0,
                     blind |-> FALSE, raced |-> FALSE]
    <3>1. t \in Trigger
      BY DEF Trigger
    <3>2. alert_triggers' \in [Rule \X Wallet -> Seq(Trigger)]
      BY <2>3, <3>1, WriteType DEF SimulateTrigger
    <3>3. ev' \in [Evaluator -> EvaluatorState]
      BY <2>3, RacedType DEF SimulateTrigger
    <3> QED BY <2>3, <3>2, <3>3 DEF SimulateTrigger
  <2>4. ASSUME NEW w \in Wallet, DeleteWallet(w) PROVE ShapeOK'
    <3>1. alert_triggers' \in [Rule \X Wallet -> Seq(Trigger)]
      BY <2>4 DEF DeleteWallet
    <3>2. snapshots' \in [Wallet -> Seq(Value)]
      BY <2>4 DEF DeleteWallet
    <3>3. wallets' \in [Wallet -> {"present", "deleted"}]
      BY <2>4 DEF DeleteWallet
    <3> QED BY <2>4, <3>1, <3>2, <3>3 DEF DeleteWallet
  <2> QED BY <1>2, <2>1, <2>2, <2>3, <2>4 DEF Edit
<1>3. ASSUME NEW w \in Wallet, NEW total \in Value, Snapshot(w, total) PROVE ShapeOK'
  <2>1. snapshots[w] # <<>> => snapshots[w][Len(snapshots[w])] \in Value
    <3>1. snapshots[w] \in Seq(Value)
      OBVIOUS
    <3> QED BY <3>1
  <2>2. snapshots' \in [Wallet -> Seq(Value)]
    BY <1>3, <2>1 DEF Snapshot
  <2> QED BY <1>3, <2>2 DEF Snapshot
<1>4. ASSUME Tick PROVE ShapeOK'
  BY <1>4, Bounds DEF Tick
<1>5. ASSUME UNCHANGED vars PROVE ShapeOK'
  BY <1>5 DEF vars
<1> QED BY <1>1, <1>2, <1>3, <1>4, <1>5 DEF Next

-----------------------------------------------------------------------------
(* The cooldown.  The check looks at the last trigger only, which speaks   *)
(* for the others because triggers are written in the order of time; and   *)
(* what the check found holds until the INSERT, unless it is overtaken.    *)

Rows(p) == alert_triggers[p]
Pairs == Rule \X Wallet

InOrder ==
  \A p \in Pairs : \A j \in DOMAIN Rows(p) :
    /\ Rows(p)[j].created_at <= now
    /\ \A i \in 1..(j - 1) : Rows(p)[i].created_at <= Rows(p)[j].created_at

Due(p, c) == \A i \in DOMAIN Rows(p) : now >= Rows(p)[i].created_at + c

Certain(e) == ev[e].pc = "insert" /\ ~ev[e].blind /\ ~ev[e].raced
Pair(e) == <<ev[e].rule, ev[e].wallet>>
Wait(e) == Cooldown(ev[e].rules[ev[e].rule])

CheckHolds == \A e \in Evaluator : Certain(e) => Due(Pair(e), Wait(e))

CooldownInv == InOrder /\ CheckHolds /\ CooldownUnlessRaced

(* Triggers are left alone or deleted, while time may pass; or one is      *)
(* written, now, which is due unless it says otherwise.                    *)
Quiet ==
  /\ now' \in Nat /\ now' >= now
  /\ \A p \in Pairs : Rows(p)' = Rows(p) \/ Rows(p)' = <<>>
Wrote(r, w, t) ==
  /\ now' = now
  /\ t \in Trigger /\ t.created_at = now
  /\ Write(r, w, t)
  /\ t.blind \/ t.raced \/ Due(<<r, w>>, t.cooldown)
TriggerStep == Quiet \/ \E r \in Rule, w \in Wallet, t \in Trigger : Wrote(r, w, t)

(* An evaluator that is certain was so and its rows are the same or gone,  *)
(* or it has just looked.                                                  *)
EvaluatorStep ==
  \A e \in Evaluator : Certain(e)' =>
    \/ /\ ev'[e] = ev[e]
       /\ Rows(Pair(e))' = Rows(Pair(e)) \/ Rows(Pair(e))' = <<>>
       /\ now' >= now
    \/ /\ UNCHANGED <<alert_triggers, now>>
       /\ ~OnCooldown(ev'[e].rule, ev'[e].wallet, ev'[e].rules[ev'[e].rule])

LEMMA TriggerFacts ==
  ASSUME ShapeOK, NEW p \in Pairs
  PROVE  /\ Rows(p) \in Seq(Trigger)
         /\ Len(Rows(p)) \in Nat
         /\ DOMAIN Rows(p) = 1..Len(Rows(p))
         /\ \A i \in DOMAIN Rows(p) :
              /\ Rows(p)[i].created_at \in Nat /\ Rows(p)[i].cooldown \in Int
              /\ Rows(p)[i].blind \in BOOLEAN /\ Rows(p)[i].raced \in BOOLEAN
<1>1. Rows(p) \in Seq(Trigger)
  BY DEF ShapeOK, Rows, Pairs
<1>2. ASSUME NEW t \in Trigger
      PROVE  /\ t.created_at \in Nat /\ t.cooldown \in Int
             /\ t.blind \in BOOLEAN /\ t.raced \in BOOLEAN
  <2>1. CASE t.by = "evaluator"
    <3>1. t \in [created_at : 0..MaxTime, by : {"evaluator"}, cooldown : Int,
                 blind : BOOLEAN, raced : BOOLEAN]
      BY <2>1 DEF Trigger
    <3>2. t.cooldown \in Int /\ t.created_at \in Nat
      BY <3>1, Bounds
    <3>3. t.blind \in BOOLEAN /\ t.raced \in BOOLEAN
      BY <3>1, Zenon
    <3> QED BY <3>2, <3>3
  <2>2. CASE t.by # "evaluator"
    <3>1. t \in [created_at : 0..MaxTime, by : {"test"}, cooldown : {0},
                 blind : {FALSE}, raced : {FALSE}]
      BY <2>2 DEF Trigger
    <3>2. t.cooldown \in Int /\ t.created_at \in Nat
      BY <3>1, Bounds
    <3>3. t.blind \in BOOLEAN /\ t.raced \in BOOLEAN
      BY <3>1, Zenon
    <3> QED BY <3>2, <3>3
  <2> QED BY <2>1, <2>2
<1> QED BY <1>1, <1>2

LEMMA CertainFacts ==
  ASSUME ShapeOK, NEW e \in Evaluator, ev[e].pc = "insert"
  PROVE  Pair(e) \in Pairs /\ Wait(e) \in Nat
  BY EvaluatorFacts, CooldownFacts DEF Pair, Pairs, Wait

LEMMA TriggerSteps == ShapeOK /\ CooldownInv /\ [Next]_vars => TriggerStep
<1> SUFFICES ASSUME ShapeOK, CooldownInv, [Next]_vars PROVE TriggerStep
  OBVIOUS
<1>n. now \in Nat
  BY Bounds DEF ShapeOK
<1>0. ASSUME UNCHANGED <<alert_triggers, now>> PROVE TriggerStep
  BY <1>0, <1>n DEF TriggerStep, Quiet, Rows
<1>1. ASSUME NEW e \in Evaluator, Insert(e) PROVE TriggerStep
  <2> DEFINE r == ev[e].rule
             w == ev[e].wallet
             t == [created_at |-> now, by |-> "evaluator",
                   cooldown |-> Cooldown(ev[e].rules[r]),
                   blind |-> ev[e].blind, raced |-> ev[e].raced]
  <2>1. r \in Rule /\ w \in Wallet /\ Cooldown(ev[e].rules[r]) \in Nat
    BY <1>1, EvaluatorFacts, CooldownFacts DEF Insert
  <2>2. t \in Trigger
    <3>1. ev[e].blind \in BOOLEAN /\ ev[e].raced \in BOOLEAN
      BY EvaluatorFacts DEF EvaluatorState
    <3>2. now \in 0..MaxTime
      BY DEF ShapeOK
    <3> QED BY <2>1, <3>1, <3>2 DEF Trigger
  <2>3. t.blind \/ t.raced \/ Due(<<r, w>>, t.cooldown)
    BY <1>1 DEF Insert, CooldownInv, CheckHolds, Certain, Pair, Wait
  <2>4. Write(r, w, t) /\ now' = now
    BY <1>1 DEF Insert
  <2>5. Wrote(r, w, t)
    BY <2>2, <2>3, <2>4 DEF Wrote
  <2> QED BY <2>1, <2>2, <2>5 DEF TriggerStep
<1>2. ASSUME NEW r \in Rule, NEW w \in Wallet, SimulateTrigger(r, w) PROVE TriggerStep
  <2> DEFINE t == [created_at |-> now, by |-> "test", cooldown |-> 0,
                   blind |-> FALSE, raced |-> FALSE]
  <2>1. t \in Trigger
    BY DEF ShapeOK, Trigger
  <2>2. Due(<<r, w>>, 0)
    <3>1. <<r, w>> \in Pairs
      BY DEF Pairs
    <3> QED BY <1>n, <3>1, TriggerFacts DEF CooldownInv, InOrder, Due
  <2>3. Write(r, w, t) /\ now' = now
    BY <1>2 DEF SimulateTrigger
  <2>4. Wrote(r, w, t)
    BY <2>1, <2>2, <2>3 DEF Wrote
  <2> QED BY <2>1, <2>4 DEF TriggerStep
<1>3. ASSUME \/ \E r \in Rule : DeleteAlert(r)
             \/ \E w \in Wallet : DeleteWallet(w)
      PROVE  TriggerStep
  <2>1. \A p \in Pairs : Rows(p)' = Rows(p) \/ Rows(p)' = <<>>
    BY <1>3 DEF DeleteAlert, DeleteWallet, Rows, Pairs
  <2>2. now' = now
    BY <1>3 DEF DeleteAlert, DeleteWallet
  <2> QED BY <1>n, <2>1, <2>2 DEF TriggerStep, Quiet
<1>4. ASSUME Tick PROVE TriggerStep
  BY <1>4, <1>n DEF Tick, TriggerStep, Quiet, Rows
<1>5. ASSUME NEW e \in Evaluator, Run(e), ~Insert(e) PROVE TriggerStep
  BY <1>0, <1>5 DEF Run, ListUsers, Collect, ListWallets, TakeWallet, NoNode, Panic, Hold,
                    Check, CheckBlindly, NextWallet, EndRun, Fail, Restart
<1>6. ASSUME NEW r \in Rule, NEW c \in Config, CreateAlert(r, c) \/ UpdateAlert(r, c)
      PROVE  TriggerStep
  BY <1>0, <1>6 DEF CreateAlert, UpdateAlert, SetRule
<1>7. ASSUME NEW w \in Wallet, NEW total \in Value, Snapshot(w, total) PROVE TriggerStep
  BY <1>0, <1>7 DEF Snapshot
<1>8. ASSUME UNCHANGED vars PROVE TriggerStep
  BY <1>0, <1>8 DEF vars
<1> QED BY <1>1, <1>2, <1>3, <1>4, <1>5, <1>6, <1>7, <1>8 DEF Next, Edit

(* A step of e alone that leaves it uncertain disturbs nobody.             *)
LEMMA OwnStep ==
  ASSUME ShapeOK, NEW e \in Evaluator, \A q \in Evaluator \ {e} : ev'[q] = ev[q],
         UNCHANGED <<alert_triggers, now>>,
         Certain(e)' => ~OnCooldown(ev'[e].rule, ev'[e].wallet, ev'[e].rules[ev'[e].rule])
  PROVE  EvaluatorStep
<1>1. now \in Nat
  BY Bounds DEF ShapeOK
<1>2. \A q \in Evaluator : ev'[q] = ev[q] => Rows(Pair(q))' = Rows(Pair(q))
  BY DEF Rows, Pair
<1> QED BY <1>1, <1>2 DEF EvaluatorStep

LEMMA WriterStep ==
  ASSUME ShapeOK, NEW r \in Rule, NEW w \in Wallet, NEW t \in Trigger, Write(r, w, t),
         now' = now, NEW e \in Evaluator, Certain(e)', ev'[e] = Raced(r, w)[e]
  PROVE  ev'[e] = ev[e] /\ Rows(Pair(e))' = Rows(Pair(e))
<1>1. ~(ev[e].pc = "insert" /\ ev[e].rule = r /\ ev[e].wallet = w)
  <2> SUFFICES ASSUME ev[e].pc = "insert" /\ ev[e].rule = r /\ ev[e].wallet = w PROVE FALSE
    OBVIOUS
  <2>1. ev'[e] = [ev[e] EXCEPT !.raced = TRUE]
    BY DEF Raced
  <2>2. ev[e] \in EvaluatorState
    BY EvaluatorFacts
  <2>3. ev'[e].raced = TRUE
    BY <2>1, <2>2 DEF EvaluatorState
  <2> QED BY <2>3 DEF Certain
<1>2. ev'[e] = ev[e]
  BY <1>1 DEF Raced
<1>3. Pair(e) \in Pairs /\ Pair(e) # <<r, w>>
  BY <1>1, <1>2, CertainFacts DEF Certain, Pair
<1> QED BY <1>2, <1>3 DEF Write, Rows, Pair, Pairs, ShapeOK

LEMMA EvaluatorSteps == ShapeOK /\ [Next]_vars => EvaluatorStep
<1> SUFFICES ASSUME ShapeOK, [Next]_vars PROVE EvaluatorStep
  OBVIOUS
<1>n. now \in Nat
  BY Bounds DEF ShapeOK
<1>e. ev \in [Evaluator -> EvaluatorState]
  BY DEF ShapeOK
<1>1. ASSUME NEW e \in Evaluator, Run(e) PROVE EvaluatorStep
  <2>f. ASSUME NEW q \in Evaluator PROVE ev[q] \in EvaluatorState
    BY <1>e
  <2>o. ASSUME ~Insert(e) PROVE \A q \in Evaluator \ {e} : ev'[q] = ev[q]
    BY <1>1, <1>e, <2>o DEF Run, ListUsers, Collect, ListWallets, TakeWallet, NoNode, Panic,
         Hold, Check, CheckBlindly, NextWallet, EndRun, Fail, Restart
  <2>u. ASSUME ~Insert(e) PROVE UNCHANGED <<alert_triggers, now>>
    BY <1>1, <2>u DEF Run, ListUsers, Collect, ListWallets, TakeWallet, NoNode, Panic,
         Hold, Check, CheckBlindly, NextWallet, EndRun, Fail, Restart
  <2>c. ASSUME ~Insert(e), ev'[e].pc # "insert" PROVE EvaluatorStep
    BY <2>c, <2>o, <2>u, OwnStep DEF Certain
  <2>1. ASSUME ListUsers(e) \/ Collect(e) \/ Panic(e) PROVE EvaluatorStep
    <3>1. ev'[e].pc \in {"rules", "sleep", "wallets", "dead"}
      <4>1. CASE ListUsers(e)
        BY <1>e, <4>1 DEF ListUsers, Asleep
      <4>2. CASE Collect(e)
        BY <1>e, <4>2 DEF Collect, Asleep
      <4>3. CASE Panic(e)
        BY <1>e, <4>3 DEF Panic, Asleep
      <4> QED BY <2>1, <4>1, <4>2, <4>3
    <3>2. ~Insert(e)
      BY <2>1 DEF ListUsers, Collect, Panic, Insert
    <3> QED BY <2>c, <3>1, <3>2
  <2>2. ASSUME ListWallets(e) PROVE EvaluatorStep
    <3>1. ev'[e].pc = "walk" /\ ~Insert(e)
      BY <1>e, <2>2 DEF ListWallets, Insert, EvaluatorState
    <3> QED BY <2>c, <3>1
  <2>3. ASSUME NEW w \in Wallet, TakeWallet(e, w) PROVE EvaluatorStep
    <3>1. ev'[e].pc \in {"walk", "approvals"}
      <4>1. CASE Len(snapshots[w]) < 2
        BY <1>e, <2>3, <2>f, <4>1 DEF TakeWallet, EvaluatorState
      <4>2. CASE ~(Len(snapshots[w]) < 2)
        BY <1>e, <2>3, <2>f, <4>2 DEF TakeWallet, EvaluatorState
      <4> QED BY <4>1, <4>2
    <3>2. ~Insert(e)
      BY <2>3 DEF TakeWallet, Insert
    <3> QED BY <2>c, <3>1, <3>2
  <2>4. ASSUME NoNode(e) PROVE EvaluatorStep
    <3>1. ev'[e].pc = "judge" /\ ~Insert(e)
      BY <1>e, <2>4 DEF NoNode, Insert, EvaluatorState
    <3> QED BY <2>c, <3>1
  <2>5. ASSUME NEW r \in Rule, Hold(e, r) PROVE EvaluatorStep
    <3>1. ev'[e].pc = "judge" /\ ~Insert(e)
      BY <1>e, <2>5 DEF Hold, Insert, EvaluatorState
    <3> QED BY <2>c, <3>1
  <2>6. ASSUME NEW r \in Rule, Check(e, r) PROVE EvaluatorStep
    <3>0. ~Insert(e)
      BY <2>6 DEF Check, Insert
    <3>1. CASE OnCooldown(r, ev[e].wallet, ev[e].rules[r])
      <4>1. ev' = [ev EXCEPT ![e].left = Remaining(e, r)]
        BY <2>6, <3>1 DEF Check
      <4>2. ev'[e].pc = "judge"
        BY <1>e, <2>6, <4>1 DEF Check, EvaluatorState
      <4> QED BY <2>c, <3>0, <4>2
    <3>2. CASE ~OnCooldown(r, ev[e].wallet, ev[e].rules[r])
      <4>1. ev' = [ev EXCEPT ![e].left = Remaining(e, r), ![e].pc = "insert",
                             ![e].rule = r, ![e].blind = FALSE, ![e].raced = FALSE]
        BY <2>6, <3>2 DEF Check
      <4>2. ev'[e].rule = r /\ ev'[e].wallet = ev[e].wallet /\ ev'[e].rules = ev[e].rules
        BY <2>f, <1>e, <4>1 DEF EvaluatorState
      <4>3. ~OnCooldown(ev'[e].rule, ev'[e].wallet, ev'[e].rules[ev'[e].rule])
        BY <3>2, <4>2
      <4> QED BY <2>o, <2>u, <3>0, <4>3, OwnStep
    <3> QED BY <3>1, <3>2
  <2>7. ASSUME NEW r \in Rule, CheckBlindly(e, r) PROVE EvaluatorStep
    <3>1. ev'[e].blind
      BY <1>e, <2>7 DEF CheckBlindly, EvaluatorState
    <3>2. ~Insert(e) /\ ~Certain(e)'
      BY <2>7, <3>1 DEF CheckBlindly, Insert, Certain
    <3> QED BY <2>o, <2>u, <3>2, OwnStep
  <2>8. ASSUME Insert(e) PROVE EvaluatorStep
    <3> DEFINE r == ev[e].rule
               w == ev[e].wallet
    <3>1. r \in Rule /\ w \in Wallet
      BY <2>8, EvaluatorFacts DEF Insert
    <3>2. PICK t : t \in Trigger /\ Write(r, w, t)
      <4>1. Cooldown(ev[e].rules[r]) \in Nat
        BY <2>8, EvaluatorFacts, CooldownFacts DEF Insert
      <4>2. ev[e].blind \in BOOLEAN /\ ev[e].raced \in BOOLEAN
        BY EvaluatorFacts DEF EvaluatorState
      <4>3. [created_at |-> now, by |-> "evaluator", cooldown |-> Cooldown(ev[e].rules[r]),
             blind |-> ev[e].blind, raced |-> ev[e].raced] \in Trigger
        BY <4>1, <4>2 DEF Trigger, ShapeOK
      <4> QED BY <2>8, <4>3 DEF Insert
    <3>3. Raced(r, w) \in [Evaluator -> EvaluatorState]
      BY RacedType
    <3>4. ev'[e].pc = "judge"
      BY <2>8, <3>3 DEF Insert, EvaluatorState
    <3>5. \A q \in Evaluator \ {e} : ev'[q] = Raced(r, w)[q]
      BY <2>8, <3>3 DEF Insert
    <3>6. now' = now
      BY <2>8 DEF Insert
    <3>7. ASSUME NEW q \in Evaluator, Certain(q)'
          PROVE  ev'[q] = ev[q] /\ Rows(Pair(q))' = Rows(Pair(q))
      <4>1. q # e
        BY <3>4, <3>7 DEF Certain
      <4> QED BY <3>1, <3>2, <3>5, <3>6, <3>7, <4>1, WriterStep
    <3> QED BY <1>n, <3>6, <3>7 DEF EvaluatorStep
  <2>9. ASSUME NextWallet(e) PROVE EvaluatorStep
    <3>1. ev'[e].pc = "walk" /\ ~Insert(e)
      BY <1>e, <2>9 DEF NextWallet, Insert, EvaluatorState
    <3> QED BY <2>c, <3>1
  <2>10. ASSUME EndRun(e) \/ Fail(e) \/ Restart(e), ~Insert(e) PROVE EvaluatorStep
    <3>1. ev'[e].pc = "sleep"
      BY <1>e, <2>10 DEF EndRun, Fail, Restart, Asleep
    <3> QED BY <2>c, <2>10, <3>1
  <2> QED BY <1>1, <2>1, <2>2, <2>3, <2>4, <2>5, <2>6, <2>7, <2>8, <2>9, <2>10 DEF Run
<1>2. ASSUME NEW r \in Rule, NEW w \in Wallet, SimulateTrigger(r, w) PROVE EvaluatorStep
  <2>1. PICK t : t \in Trigger /\ Write(r, w, t)
    <3>1. [created_at |-> now, by |-> "test", cooldown |-> 0,
           blind |-> FALSE, raced |-> FALSE] \in Trigger
      BY DEF ShapeOK, Trigger
    <3> QED BY <1>2, <3>1 DEF SimulateTrigger
  <2>2. ev' = Raced(r, w) /\ now' = now
    BY <1>2 DEF SimulateTrigger
  <2> QED BY <1>n, <2>1, <2>2, WriterStep DEF EvaluatorStep
<1>3. ASSUME \/ \E r \in Rule : DeleteAlert(r)
             \/ \E w \in Wallet : DeleteWallet(w)
      PROVE  EvaluatorStep
  <2>1. UNCHANGED <<ev, now>>
    BY <1>3 DEF DeleteAlert, DeleteWallet
  <2>2. \A p \in Pairs : Rows(p)' = Rows(p) \/ Rows(p)' = <<>>
    BY <1>3 DEF DeleteAlert, DeleteWallet, Rows, Pairs
  <2>3. \A e \in Evaluator : Certain(e)' => Pair(e) \in Pairs
    BY <2>1, CertainFacts DEF Certain
  <2>4. \A e \in Evaluator : Rows(Pair(e))' = alert_triggers'[Pair(e)]
    BY <2>1 DEF Rows, Pair
  <2> QED BY <1>n, <2>1, <2>2, <2>3, <2>4 DEF EvaluatorStep, Rows
<1>4. ASSUME \/ Tick
             \/ \E r \in Rule, c \in Config : CreateAlert(r, c) \/ UpdateAlert(r, c)
             \/ \E w \in Wallet, total \in Value : Snapshot(w, total)
             \/ UNCHANGED vars
      PROVE  EvaluatorStep
  <2>1. UNCHANGED <<ev, alert_triggers>> /\ now' >= now
    BY <1>4, <1>n DEF Tick, CreateAlert, UpdateAlert, SetRule, Snapshot, vars
  <2> QED BY <2>1 DEF EvaluatorStep, Rows, Pair
<1> QED BY <1>1, <1>2, <1>3, <1>4 DEF Next, Edit

(* Rows that are the same, gone or have one more at the end stay in order. *)
LEMMA Appended ==
  ASSUME ShapeOK, NEW r \in Rule, NEW w \in Wallet, NEW t \in Trigger, Wrote(r, w, t)
  PROVE  /\ \A p \in Pairs : p # <<r, w>> => Rows(p)' = Rows(p)
         /\ Len(Rows(<<r, w>>)') = Len(Rows(<<r, w>>)) + 1
         /\ DOMAIN Rows(<<r, w>>)' = 1..(Len(Rows(<<r, w>>)) + 1)
         /\ Rows(<<r, w>>)'[Len(Rows(<<r, w>>)) + 1] = t
         /\ \A i \in 1..Len(Rows(<<r, w>>)) : Rows(<<r, w>>)'[i] = Rows(<<r, w>>)[i]
<1>1. <<r, w>> \in Pairs
  BY DEF Pairs
<1>2. Rows(<<r, w>>)' = Append(Rows(<<r, w>>), t)
  BY <1>1 DEF Wrote, Write, Rows, Pairs, ShapeOK
<1>3. \A p \in Pairs : p # <<r, w>> => Rows(p)' = Rows(p)
  BY DEF Wrote, Write, Rows, Pairs, ShapeOK
<1>4. Rows(<<r, w>>) \in Seq(Trigger)
  BY <1>1, TriggerFacts
<1> QED BY <1>2, <1>3, <1>4

LEMMA OrderKept == ShapeOK /\ InOrder /\ TriggerStep => InOrder'
<1> SUFFICES ASSUME ShapeOK, InOrder, TriggerStep PROVE InOrder'
  OBVIOUS
<1>n. now \in Nat
  BY Bounds DEF ShapeOK
<1> SUFFICES ASSUME NEW p \in Pairs, NEW j \in DOMAIN Rows(p)'
             PROVE  /\ Rows(p)'[j].created_at <= now'
                    /\ \A i \in 1..(j - 1) : Rows(p)'[i].created_at <= Rows(p)'[j].created_at
  BY DEF InOrder
<1>1. CASE Rows(p)' = Rows(p) /\ now' >= now /\ now' \in Nat
  <2>1. \A i \in DOMAIN Rows(p) : Rows(p)[i].created_at \in Nat /\ Rows(p)[i].created_at <= now
    BY TriggerFacts DEF InOrder
  <2> QED BY <1>n, <1>1, <2>1 DEF InOrder
<1>2. CASE Rows(p)' = <<>>
  BY <1>2
<1>3. ASSUME NEW r \in Rule, NEW w \in Wallet, NEW t \in Trigger, Wrote(r, w, t), p = <<r, w>>
      PROVE  /\ Rows(p)'[j].created_at <= now'
             /\ \A i \in 1..(j - 1) : Rows(p)'[i].created_at <= Rows(p)'[j].created_at
  <2> DEFINE n == Len(Rows(p))
  <2>1. n \in Nat /\ DOMAIN Rows(p) = 1..n
    BY TriggerFacts
  <2>2. /\ Rows(p)'[n + 1] = t /\ t.created_at = now /\ now' = now
        /\ \A i \in 1..n : Rows(p)'[i] = Rows(p)[i]
    BY <1>3, Appended DEF Wrote
  <2>3. j \in 1..(n + 1)
    BY <1>3, Appended
  <2>4. \A i \in 1..n : Rows(p)[i].created_at \in Nat /\ Rows(p)[i].created_at <= now
    BY <2>1, TriggerFacts DEF InOrder
  <2>5. CASE j = n + 1
    BY <1>n, <2>1, <2>2, <2>4, <2>5
  <2>6. CASE j \in 1..n
    <3>1. \A i \in 1..(j - 1) : i \in 1..n /\ Rows(p)[i].created_at <= Rows(p)[j].created_at
      BY <2>1, <2>6 DEF InOrder
    <3> QED BY <2>2, <2>4, <2>6, <3>1
  <2> QED BY <2>1, <2>3, <2>5, <2>6
<1>4. CASE Quiet
  BY <1>1, <1>2, <1>4 DEF Quiet
<1>5. ASSUME NEW r \in Rule, NEW w \in Wallet, NEW t \in Trigger, Wrote(r, w, t), p # <<r, w>>
      PROVE  Rows(p)' = Rows(p) /\ now' >= now /\ now' \in Nat
  BY <1>5, <1>n, Appended DEF Wrote
<1> QED BY <1>1, <1>3, <1>4, <1>5 DEF TriggerStep

(* What a check found still holds when its evaluator comes to the INSERT.  *)
LEMMA LastSpeaks ==
  ASSUME ShapeOK, InOrder, NEW p \in Pairs, NEW c \in Config, ~OnCooldown(p[1], p[2], c)
  PROVE  Due(p, Cooldown(c))
<1>1. Rows(p) = alert_triggers[<<p[1], p[2]>>]
  BY DEF Rows, Pairs
<1> DEFINE n == Len(Rows(p))
<1>2. n \in Nat /\ DOMAIN Rows(p) = 1..n /\ now \in Nat /\ Cooldown(c) \in Nat
  BY TriggerFacts, Bounds, CooldownFacts DEF ShapeOK
<1>3. \A i \in 1..n : Rows(p)[i].created_at \in Nat
  BY <1>2, TriggerFacts
<1>4. CASE Rows(p) = <<>>
  BY <1>4 DEF Due
<1>5. CASE Rows(p) # <<>>
  <2>1. n \in 1..n
    BY <1>2, <1>5, TriggerFacts
  <2>2. now >= Rows(p)[n].created_at + Cooldown(c)
    BY <1>1, <1>2, <1>3, <1>5, <2>1 DEF OnCooldown
  <2>3. \A i \in 1..n : Rows(p)[i].created_at <= Rows(p)[n].created_at
    <3>1. \A i \in 1..(n - 1) : Rows(p)[i].created_at <= Rows(p)[n].created_at
      BY <1>2, <2>1 DEF InOrder
    <3> QED BY <1>2, <1>3, <2>1, <3>1
  <2> QED BY <1>2, <1>3, <2>1, <2>2, <2>3 DEF Due
<1> QED BY <1>4, <1>5

LEMMA CheckKept == ShapeOK /\ ShapeOK' /\ InOrder /\ CheckHolds /\ EvaluatorStep => CheckHolds'
<1> SUFFICES ASSUME ShapeOK, ShapeOK', InOrder, CheckHolds, EvaluatorStep,
                    NEW e \in Evaluator, Certain(e)'
             PROVE  Due(Pair(e), Wait(e))'
  BY DEF CheckHolds
<1>n. now \in Nat /\ now' \in Nat
  BY Bounds DEF ShapeOK
<1>1. CASE /\ ev'[e] = ev[e]
           /\ Rows(Pair(e))' = Rows(Pair(e)) \/ Rows(Pair(e))' = <<>>
           /\ now' >= now
  <2>1. ev[e].pc = "insert" /\ Pair(e)' = Pair(e) /\ Wait(e)' = Wait(e) /\ Due(Pair(e), Wait(e))
    BY <1>1 DEF Certain, CheckHolds, Pair, Wait
  <2>2. Pair(e) \in Pairs /\ Wait(e) \in Nat
    BY <2>1, CertainFacts
  <2>3. \A i \in DOMAIN Rows(Pair(e)) : Rows(Pair(e))[i].created_at \in Nat
    BY <2>2, TriggerFacts
  <2>4. \A i \in DOMAIN Rows(Pair(e)) : now' >= Rows(Pair(e))[i].created_at + Wait(e)
    BY <1>1, <1>n, <2>1, <2>2, <2>3 DEF Due
  <2> QED BY <1>1, <2>1, <2>4 DEF Due
<1>2. CASE /\ UNCHANGED <<alert_triggers, now>>
           /\ ~OnCooldown(ev'[e].rule, ev'[e].wallet, ev'[e].rules[ev'[e].rule])
  <2> DEFINE p == <<ev'[e].rule, ev'[e].wallet>>
             c == ev'[e].rules[ev'[e].rule]
  <2>1. ev'[e] \in EvaluatorState /\ ev'[e].pc = "insert"
    BY DEF ShapeOK, Certain
  <2>2. p \in Pairs /\ c \in Config
    BY <2>1 DEF EvaluatorState, Pairs
  <2>3. Due(p, Cooldown(c))
    BY <1>2, <2>2, LastSpeaks
  <2>4. Pair(e)' = p /\ Wait(e)' = Cooldown(c)
    BY DEF Pair, Wait
  <2> QED BY <1>2, <2>3, <2>4 DEF Due, Rows
<1> QED BY <1>1, <1>2 DEF EvaluatorStep

(* A trigger that is appended is due, or says why not.                     *)
Kept(p, j) == Spaced(Rows(p), j) \/ Rows(p)[j].blind \/ Rows(p)[j].raced

LEMMA SpacedKept == ShapeOK /\ CooldownUnlessRaced /\ TriggerStep => CooldownUnlessRaced'
<1> SUFFICES ASSUME ShapeOK, CooldownUnlessRaced, TriggerStep PROVE CooldownUnlessRaced'
  OBVIOUS
<1>0. \A p \in Pairs : \A j \in DOMAIN Rows(p) : Kept(p, j)
  BY DEF CooldownUnlessRaced, Kept, Rows, Pairs
<1> SUFFICES ASSUME NEW p \in Pairs, NEW j \in DOMAIN Rows(p)' PROVE Kept(p, j)'
  BY DEF CooldownUnlessRaced, Kept, Rows, Pairs
<1>1. CASE Rows(p)' = Rows(p)
  BY <1>0, <1>1 DEF Kept
<1>2. CASE Rows(p)' = <<>>
  BY <1>2
<1>3. ASSUME NEW r \in Rule, NEW w \in Wallet, NEW t \in Trigger, Wrote(r, w, t), p = <<r, w>>
      PROVE  Kept(p, j)'
  <2> DEFINE n == Len(Rows(p))
  <2>1. n \in Nat /\ DOMAIN Rows(p) = 1..n /\ j \in 1..(n + 1)
    BY <1>3, TriggerFacts, Appended
  <2>2. /\ Rows(p)'[n + 1] = t /\ t.created_at = now
        /\ \A i \in 1..n : Rows(p)'[i] = Rows(p)[i]
    BY <1>3, Appended DEF Wrote
  <2>3. CASE j \in 1..n
    <3>1. \A i \in 1..(j - 1) : i \in 1..n
      BY <2>1, <2>3
    <3>2. Rows(p)'[j] = Rows(p)[j] /\ \A i \in 1..(j - 1) : Rows(p)'[i] = Rows(p)[i]
      BY <2>2, <2>3, <3>1
    <3>3. Kept(p, j)
      BY <1>0, <2>1, <2>3
    <3> QED BY <3>2, <3>3 DEF Kept, Spaced
  <2>4. CASE j = n + 1
    <3>1. CASE t.blind \/ t.raced
      BY <2>2, <2>4, <3>1 DEF Kept
    <3>2. CASE Due(p, t.cooldown)
      <4>1. \A i \in 1..(j - 1) : now >= Rows(p)[i].created_at + t.cooldown /\ i \in 1..n
        BY <2>1, <2>4, <3>2 DEF Due
      <4>2. Spaced(Rows(p)', j)
        BY <2>2, <2>4, <4>1 DEF Spaced
      <4> QED BY <4>2 DEF Kept
    <3> QED BY <1>3, <3>1, <3>2 DEF Wrote
  <2> QED BY <2>1, <2>3, <2>4
<1>4. CASE Quiet
  BY <1>1, <1>2, <1>4 DEF Quiet
<1>5. ASSUME NEW r \in Rule, NEW w \in Wallet, NEW t \in Trigger, Wrote(r, w, t), p # <<r, w>>
      PROVE  Rows(p)' = Rows(p)
  BY <1>5, Appended
<1> QED BY <1>1, <1>3, <1>4, <1>5 DEF TriggerStep

LEMMA InitCooldownInv == Init => CooldownInv
BY DEF Init, CooldownInv, InOrder, CheckHolds, CooldownUnlessRaced, Rows, Pairs, Certain, Asleep

LEMMA NextCooldownInv == ShapeOK /\ CooldownInv /\ [Next]_vars => CooldownInv'
<1> SUFFICES ASSUME ShapeOK, CooldownInv, [Next]_vars PROVE CooldownInv'
  OBVIOUS
<1>1. ShapeOK' /\ TriggerStep /\ EvaluatorStep
  BY NextShapeOK, TriggerSteps, EvaluatorSteps
<1> QED BY <1>1, OrderKept, CheckKept, SpacedKept DEF CooldownInv

(* No evaluator's trigger comes before the cooldown has passed since every *)
(* earlier one, unless its check failed to read or was overtaken.          *)
THEOREM CooldownHolds == Spec => []CooldownUnlessRaced
<1>1. Init => ShapeOK /\ CooldownInv
  BY InitShapeOK, InitCooldownInv
<1>2. ShapeOK /\ CooldownInv /\ [Next]_vars => ShapeOK' /\ CooldownInv'
  BY NextShapeOK, NextCooldownInv
<1>3. CooldownInv => CooldownUnlessRaced
  BY DEF CooldownInv
<1> QED BY <1>1, <1>2, <1>3, PTL DEF Spec

-----------------------------------------------------------------------------
(* Triggers go with their rule and their wallet.                           *)

Alive(p) == alert_rules[p[1]].state = "present" /\ wallets[p[2]] = "present"

(* Nobody else takes a rule or a wallet away, or adds to a dead one.       *)
LEMMA AliveSteps ==
  ASSUME ShapeOK, NoOrphanTriggers, [Next]_vars, NEW p \in Pairs, Rows(p)' # <<>>
  PROVE  Alive(p)'
<1>0. Rows(p) # <<>> => Alive(p)
  BY DEF NoOrphanTriggers, Alive, Rows, Pairs
<1>1. ASSUME UNCHANGED <<alert_rules, wallets, alert_triggers>> PROVE Alive(p)'
  BY <1>0, <1>1 DEF Alive, Rows
<1>2. ASSUME NEW r \in Rule, NEW w \in Wallet, NEW t, CanWrite(r, w), Write(r, w, t),
             UNCHANGED <<alert_rules, wallets>>
      PROVE  Alive(p)'
  <2>1. CASE p = <<r, w>>
    BY <1>2, <2>1 DEF CanWrite, Alive
  <2>2. CASE p # <<r, w>>
    <3>1. Rows(p)' = Rows(p)
      BY <1>2, <2>2 DEF Write, Rows, Pairs, ShapeOK
    <3> QED BY <1>0, <1>2, <3>1 DEF Alive
  <2> QED BY <2>1, <2>2
<1>3. ASSUME NEW e \in Evaluator, Insert(e) PROVE Alive(p)'
  <2>1. ev[e].rule \in Rule /\ ev[e].wallet \in Wallet
    BY <1>3, EvaluatorFacts DEF Insert
  <2> QED BY <1>2, <1>3, <2>1 DEF Insert
<1>4. ASSUME NEW e \in Evaluator, Run(e), ~Insert(e) PROVE Alive(p)'
  BY <1>1, <1>4 DEF Run, ListUsers, Collect, ListWallets, TakeWallet, NoNode, Panic, Hold,
                    Check, CheckBlindly, NextWallet, EndRun, Fail, Restart
<1>5. ASSUME NEW r \in Rule, NEW c \in Config, CreateAlert(r, c) \/ UpdateAlert(r, c)
      PROVE  Alive(p)'
  <2>1. Rows(p)' = Rows(p) /\ wallets' = wallets
    BY <1>5 DEF CreateAlert, UpdateAlert, SetRule, Rows
  <2>2. alert_rules'[p[1]].state = "present" \/ alert_rules'[p[1]] = alert_rules[p[1]]
    BY <1>5 DEF CreateAlert, UpdateAlert, SetRule, ShapeOK, Pairs
  <2> QED BY <1>0, <2>1, <2>2 DEF Alive
<1>6. ASSUME NEW r \in Rule, DeleteAlert(r) PROVE Alive(p)'
  <2>1. p[1] # r /\ Rows(p)' = Rows(p)
    BY <1>6 DEF DeleteAlert, Rows, Pairs
  <2>2. alert_rules'[p[1]] = alert_rules[p[1]] /\ wallets' = wallets
    BY <1>6, <2>1 DEF DeleteAlert, ShapeOK, Pairs
  <2> QED BY <1>0, <2>1, <2>2 DEF Alive
<1>7. ASSUME NEW r \in Rule, NEW w \in Wallet, SimulateTrigger(r, w) PROVE Alive(p)'
  BY <1>2, <1>7 DEF SimulateTrigger
<1>8. ASSUME NEW w \in Wallet, DeleteWallet(w) PROVE Alive(p)'
  <2>1. p[2] # w /\ Rows(p)' = Rows(p)
    BY <1>8 DEF DeleteWallet, Rows, Pairs
  <2>2. wallets'[p[2]] = wallets[p[2]] /\ alert_rules' = alert_rules
    BY <1>8, <2>1 DEF DeleteWallet, ShapeOK, Pairs
  <2> QED BY <1>0, <2>1, <2>2 DEF Alive
<1>9. ASSUME \/ Tick \/ UNCHANGED vars
             \/ \E w \in Wallet, total \in Value : Snapshot(w, total)
      PROVE  Alive(p)'
  BY <1>1, <1>9 DEF Tick, Snapshot, vars
<1> QED BY <1>3, <1>4, <1>5, <1>6, <1>7, <1>8, <1>9 DEF Next, Edit

(* No trigger outlives its rule or its wallet.                             *)
THEOREM NoOrphans == Spec => []NoOrphanTriggers
<1>1. Init => NoOrphanTriggers
  BY DEF Init, NoOrphanTriggers
<1>2. ShapeOK /\ NoOrphanTriggers /\ [Next]_vars => NoOrphanTriggers'
  BY AliveSteps DEF NoOrphanTriggers, Alive, Rows, Pairs
<1> QED BY <1>1, <1>2, InitShapeOK, NextShapeOK, PTL DEF Spec

-----------------------------------------------------------------------------
(* What a trigger says about the totals.                                   *)

(* An evaluator that judges holds two totals, and one that is to write a   *)
(* trigger holds a rule that fires on them.                                *)
Justified(h) ==
  /\ h.pc \in Judging => Len(h.pair) = 2
  /\ h.pc = "insert" => Fires(h.rules[h.rule], h.pair)

TwoNewest == \A w \in Wallet : Len(snapshots[w]) <= 2
FiringInv == TwoNewest /\ \A e \in Evaluator : Justified(ev[e])

(* A trigger of a drop rule means that the total rose, by the threshold's  *)
(* per cent of the newer total; one of a floor rule, that the older of the *)
(* two totals was below the floor; and no rule on approvals ever fires but *)
(* one that needs none.                                                    *)
TriggerMeans ==
  \A e \in Evaluator :
    LET c == ev[e].rules[ev[e].rule]
        older == ev[e].pair[1]
        newer == ev[e].pair[2]
    IN ev[e].pc = "insert" =>
         /\ c.type = "tvl_drop_pct" /\ c.threshold > 0 =>
              older < newer /\ (newer - older) * 100 >= c.threshold * newer
         /\ c.type = "tvl_below" => older <= c.threshold
         /\ c.type = "approval_spike" => c.threshold <= 0

LEMMA NextTwoNewest == ShapeOK /\ TwoNewest /\ [Next]_vars => TwoNewest'
<1> SUFFICES ASSUME ShapeOK, TwoNewest, [Next]_vars PROVE TwoNewest'
  OBVIOUS
<1>1. CASE UNCHANGED snapshots
  BY <1>1 DEF TwoNewest
<1>2. ASSUME NEW w \in Wallet, NEW total \in Value, Snapshot(w, total) PROVE TwoNewest'
  <2>1. /\ \A x \in Wallet : x # w => snapshots'[x] = snapshots[x]
        /\ snapshots'[w] = IF snapshots[w] = <<>> THEN <<total>>
                           ELSE <<snapshots[w][Len(snapshots[w])], total>>
    BY <1>2 DEF Snapshot, ShapeOK
  <2>2. Len(snapshots'[w]) <= 2
    BY <2>1
  <2> QED BY <2>1, <2>2 DEF TwoNewest
<1>3. ASSUME NEW w \in Wallet, DeleteWallet(w) PROVE TwoNewest'
  <2>1. \A x \in Wallet : snapshots'[x] = snapshots[x] \/ snapshots'[x] = <<>>
    BY <1>3 DEF DeleteWallet, ShapeOK
  <2> QED BY <2>1 DEF TwoNewest
<1>4. ASSUME NEW e \in Evaluator, Run(e) PROVE UNCHANGED snapshots
  BY <1>4 DEF Run, ListUsers, Collect, ListWallets, TakeWallet, NoNode, Panic, Hold,
              Check, CheckBlindly, Insert, NextWallet, EndRun, Fail, Restart
<1> QED BY <1>1, <1>2, <1>3, <1>4
        DEF Next, Edit, CreateAlert, UpdateAlert, SetRule, DeleteAlert, SimulateTrigger,
            Tick, vars

(* Being overtaken takes nothing out of an evaluator's hands.              *)
LEMMA RacedJustified ==
  ASSUME ShapeOK, NEW e \in Evaluator, Justified(ev[e]), NEW r, NEW w
  PROVE  Justified(Raced(r, w)[e])
<1>1. ev[e] \in EvaluatorState
  BY EvaluatorFacts
<1>2. PICK h : h = [ev[e] EXCEPT !.raced = TRUE]
  OBVIOUS
<1>3. h.pc = ev[e].pc /\ h.pair = ev[e].pair /\ h.rules = ev[e].rules /\ h.rule = ev[e].rule
  BY <1>1, <1>2 DEF EvaluatorState
<1>4. Raced(r, w)[e] \in {h, ev[e]}
  BY <1>2 DEF Raced
<1> QED BY <1>3, <1>4 DEF Justified

LEMMA RunJustified ==
  ASSUME ShapeOK, FiringInv, NEW e \in Evaluator, Run(e)
  PROVE  Justified(ev'[e])
<1>0. ev \in [Evaluator -> EvaluatorState] /\ ev[e] \in EvaluatorState /\ Justified(ev[e])
  BY DEF ShapeOK, FiringInv
<1>1. ASSUME ev'[e].pc \notin Judging PROVE Justified(ev'[e])
  BY <1>1 DEF Justified, Judging
<1>2. ASSUME ev'[e].pc \in Judging \ {"insert"}, ev'[e].pair = ev[e].pair, ev[e].pc \in Judging
      PROVE  Justified(ev'[e])
  BY <1>0, <1>2 DEF Justified
<1>3. CASE ListUsers(e)
  <2>1. ev'[e].pc \in {"rules", "sleep"}
    BY <1>0, <1>3 DEF ListUsers, Asleep
  <2> QED BY <1>1, <2>1 DEF Judging
<1>4. CASE Collect(e)
  <2>1. ev'[e].pc = "wallets"
    BY <1>0, <1>4 DEF Collect, Asleep
  <2> QED BY <1>1, <2>1 DEF Judging
<1>5. CASE Panic(e)
  <2>1. ev'[e].pc = "dead"
    BY <1>0, <1>5 DEF Panic, Asleep
  <2> QED BY <1>1, <2>1 DEF Judging
<1>6. CASE ListWallets(e) \/ NextWallet(e)
  <2>1. ev'[e].pc = "walk"
    BY <1>0, <1>6 DEF ListWallets, NextWallet, EvaluatorState
  <2> QED BY <1>1, <2>1 DEF Judging
<1>7. ASSUME NEW w \in Wallet, TakeWallet(e, w) PROVE Justified(ev'[e])
  <2>1. CASE Len(snapshots[w]) < 2
    <3>1. ev'[e].pc = "walk"
      BY <1>0, <1>7, <2>1 DEF TakeWallet, EvaluatorState
    <3> QED BY <1>1, <3>1 DEF Judging
  <2>2. CASE ~(Len(snapshots[w]) < 2)
    <3>1. ev'[e].pc = "approvals" /\ ev'[e].pair = snapshots[w]
      BY <1>0, <1>7, <2>2 DEF TakeWallet, EvaluatorState
    <3>2. Len(snapshots[w]) = 2
      <4>1. snapshots[w] \in Seq(Value) /\ Len(snapshots[w]) <= 2
        BY DEF FiringInv, TwoNewest, ShapeOK
      <4>2. PICK n : n = Len(snapshots[w])
        OBVIOUS
      <4>3. n \in Nat
        BY <4>1, <4>2
      <4>4. n <= 2
        BY <4>1, <4>2
      <4>5. ~(n < 2)
        BY <2>2, <4>2
      <4>6. n = 2
        BY <4>3, <4>4, <4>5
      <4> QED BY <4>2, <4>6
    <3> QED BY <3>1, <3>2 DEF Justified
  <2> QED BY <2>1, <2>2
<1>8. CASE NoNode(e)
  <2>1. ev'[e].pc = "judge" /\ ev'[e].pair = ev[e].pair /\ ev[e].pc = "approvals"
    BY <1>0, <1>8 DEF NoNode, EvaluatorState
  <2> QED BY <1>2, <2>1 DEF Judging
<1>9. ASSUME NEW r \in Rule, Hold(e, r) PROVE Justified(ev'[e])
  <2>1. ev'[e].pc = "judge" /\ ev'[e].pair = ev[e].pair /\ ev[e].pc = "judge"
    BY <1>0, <1>9 DEF Hold, EvaluatorState
  <2> QED BY <1>2, <2>1 DEF Judging
<1>10. ASSUME NEW r \in Rule, NEW b, NEW left, Fires(ev[e].rules[r], ev[e].pair),
              ev[e].pc = "judge",
              ev' = [ev EXCEPT ![e].left = left, ![e].pc = "insert", ![e].rule = r,
                               ![e].blind = b, ![e].raced = FALSE]
       PROVE  Justified(ev'[e])
  <2>1. /\ ev'[e].pc = "insert" /\ ev'[e].pair = ev[e].pair
        /\ ev'[e].rules = ev[e].rules /\ ev'[e].rule = r
    BY <1>0, <1>10 DEF EvaluatorState
  <2> QED BY <1>0, <1>10, <2>1 DEF Justified, Judging
<1>11. ASSUME NEW r \in Rule, Check(e, r) PROVE Justified(ev'[e])
  <2>1. CASE OnCooldown(r, ev[e].wallet, ev[e].rules[r])
    <3>1. ev'[e].pc = "judge" /\ ev'[e].pair = ev[e].pair /\ ev[e].pc = "judge"
      BY <1>0, <1>11, <2>1 DEF Check, EvaluatorState
    <3> QED BY <1>2, <3>1 DEF Judging
  <2>2. CASE ~OnCooldown(r, ev[e].wallet, ev[e].rules[r])
    BY <1>10, <1>11, <2>2 DEF Check
  <2> QED BY <2>1, <2>2
<1>12. ASSUME NEW r \in Rule, CheckBlindly(e, r) PROVE Justified(ev'[e])
  BY <1>10, <1>12 DEF CheckBlindly
<1>13. CASE Insert(e)
  <2>1. PICK old : old = Raced(ev[e].rule, ev[e].wallet)
    OBVIOUS
  <2>2. old[e].pc = "insert" /\ Justified(old[e]) /\ old \in [Evaluator -> EvaluatorState]
    <3>1. old \in [Evaluator -> EvaluatorState] /\ Justified(old[e])
      BY <1>0, <2>1, RacedJustified, RacedType
    <3>2. old[e] = [ev[e] EXCEPT !.raced = TRUE] /\ ev[e].pc = "insert"
      BY <1>13, <2>1 DEF Insert, Raced
    <3>3. old[e].pc = "insert"
      BY <1>0, <3>2 DEF EvaluatorState
    <3> QED BY <3>1, <3>3
  <2>3. ev' = [old EXCEPT ![e].pc = "judge", ![e].rule = None, ![e].blind = FALSE,
                          ![e].raced = FALSE]
    BY <1>13, <2>1 DEF Insert
  <2>4. ev'[e].pc = "judge" /\ ev'[e].pair = old[e].pair
    BY <2>2, <2>3 DEF EvaluatorState
  <2> QED BY <2>2, <2>4 DEF Justified, Judging
<1>14. CASE EndRun(e) \/ Fail(e) \/ Restart(e)
  <2>1. ev'[e].pc = "sleep"
    BY <1>0, <1>14 DEF EndRun, Fail, Restart, Asleep
  <2> QED BY <1>1, <2>1 DEF Judging
<1> QED BY <1>3, <1>4, <1>5, <1>6, <1>7, <1>8, <1>9, <1>11, <1>12, <1>13, <1>14 DEF Run

LEMMA NextFiring == ShapeOK /\ FiringInv /\ [Next]_vars => FiringInv'
<1> SUFFICES ASSUME ShapeOK, FiringInv, [Next]_vars, NEW q \in Evaluator
             PROVE  Justified(ev'[q])
  BY NextTwoNewest DEF FiringInv, Justified, Fires, DropPct, Judging
<1>0. ev \in [Evaluator -> EvaluatorState] /\ Justified(ev[q])
  BY DEF ShapeOK, FiringInv
<1>1. ASSUME NEW e \in Evaluator, Run(e) PROVE Justified(ev'[q])
  <2>1. CASE q = e
    BY <1>1, <2>1, RunJustified
  <2>2. CASE q # e /\ ~Insert(e)
    <3>1. ev'[q] = ev[q]
      BY <1>0, <1>1, <2>2
         DEF Run, ListUsers, Collect, ListWallets, TakeWallet, NoNode, Panic, Hold, Check,
             CheckBlindly, NextWallet, EndRun, Fail, Restart
    <3> QED BY <1>0, <3>1
  <2>3. CASE q # e /\ Insert(e)
    <3>1. PICK old : old = Raced(ev[e].rule, ev[e].wallet)
      OBVIOUS
    <3>2. ev'[q] = old[q]
      <4>1. old \in [Evaluator -> EvaluatorState]
        BY <3>1, RacedType
      <4> QED BY <2>3, <3>1, <4>1 DEF Insert
    <3> QED BY <1>0, <3>1, <3>2, RacedJustified
  <2> QED BY <2>1, <2>2, <2>3
<1>2. ASSUME NEW r \in Rule, NEW w \in Wallet, SimulateTrigger(r, w) PROVE Justified(ev'[q])
  BY <1>0, <1>2, RacedJustified DEF SimulateTrigger
<1>3. CASE UNCHANGED ev
  BY <1>0, <1>3
<1> QED BY <1>1, <1>2, <1>3
        DEF Next, Edit, CreateAlert, UpdateAlert, SetRule, DeleteAlert, DeleteWallet,
            Snapshot, Tick, vars

LEMMA InitFiring == Init => FiringInv
BY DEF Init, FiringInv, TwoNewest, Justified, Judging, Asleep

(* Tables and evaluators always have their shape, and an evaluator judges  *)
(* two totals, also when the wallet was deleted after it took them.        *)
THEOREM TypeCorrect == Spec => []TypeOK
<1>1. ShapeOK /\ FiringInv => TypeOK
  BY DEF TypeOK, FiringInv, Justified
<1> QED BY <1>1, InitShapeOK, NextShapeOK, InitFiring, NextFiring, PTL DEF Spec

(* A quotient that reaches a threshold above 0.                            *)
LEMMA QuotientReaches ==
  ASSUME NEW d \in Int, NEW b \in Int, NEW t \in Int, b > 0, t > 0, d \div b >= t
  PROVE  d >= t * b /\ d > 0
<1>1. PICK q \in Int : q = d \div b
  OBVIOUS
<1>2. q * b <= d
  BY <1>1
<1>3. t * b <= q * b
  BY <1>1
<1>4. t * b > 0 /\ t * b \in Int /\ q * b \in Int
  OBVIOUS
<1> QED BY <1>2, <1>3, <1>4

(* Whatever the rules, totals and evaluators: a trigger of tvl_drop_pct is *)
(* written on a rise and never on a fall, tvl_below judges the older total *)
(* and approval_spike does not fire.  That is what is left of DropMeansDrop.*)
THEOREM DropRulesFireOnRises == Spec => []TriggerMeans
<1>1. ShapeOK /\ FiringInv => TriggerMeans
  <2> SUFFICES ASSUME ShapeOK, FiringInv, NEW e \in Evaluator, ev[e].pc = "insert"
               PROVE  LET c == ev[e].rules[ev[e].rule]
                          older == ev[e].pair[1]
                          newer == ev[e].pair[2]
                      IN /\ c.type = "tvl_drop_pct" /\ c.threshold > 0 =>
                              older < newer /\ (newer - older) * 100 >= c.threshold * newer
                         /\ c.type = "tvl_below" => older <= c.threshold
                         /\ c.type = "approval_spike" => c.threshold <= 0
    BY DEF TriggerMeans
  <2> DEFINE c == ev[e].rules[ev[e].rule]
             older == ev[e].pair[1]
             newer == ev[e].pair[2]
  <2>1. c \in Config /\ c.threshold \in Int
    BY EvaluatorFacts, AlertAssumption
  <2>2. older \in Nat /\ newer \in Nat
    <3>1. ev[e].pair \in Seq(Value)
      BY EvaluatorFacts DEF EvaluatorState
    <3>2. Len(ev[e].pair) = 2
      BY DEF FiringInv, Justified, Judging
    <3>3. older \in Value /\ newer \in Value
      BY <3>1, <3>2
    <3> QED BY <3>3, AlertAssumption
  <2>3. Fires(c, ev[e].pair)
    BY DEF FiringInv, Justified
  <2>4. c.type = "tvl_drop_pct" => DropPct(newer, older) >= c.threshold
    BY <2>3 DEF Fires
  <2>5. c.type = "tvl_below" => older <= c.threshold
    BY <2>3 DEF Fires
  <2>6. c.type = "approval_spike" => 0 >= c.threshold
    BY <2>3 DEF Fires
  <2> HIDE DEF c, older, newer
  <2>7. ASSUME c.type = "tvl_drop_pct", c.threshold > 0
        PROVE  older < newer /\ (newer - older) * 100 >= c.threshold * newer
    <3>1. newer > 0 /\ ((newer - older) * 100) \div newer >= c.threshold
      BY <2>1, <2>2, <2>4, <2>7 DEF DropPct
    <3>2. PICK d \in Int : d = (newer - older) * 100
      BY <2>2
    <3>3. d >= c.threshold * newer /\ d > 0
      BY <2>1, <2>2, <2>7, <3>1, <3>2, QuotientReaches
    <3> QED BY <2>2, <3>2, <3>3
  <2>8. c.type = "approval_spike" => c.threshold <= 0
    BY <2>1, <2>6
  <2> QED BY <2>5, <2>7, <2>8 DEF c, older, newer
<1> QED BY <1>1, InitShapeOK, NextShapeOK, InitFiring, NextFiring, PTL DEF Spec
=============================================================================
