------------------------------ MODULE Backtest ------------------------------
(***************************************************************************)
(* The backtests of backend/strategy_engine/src/lib.rs as the loops they   *)
(* are: one pass over the prices that builds the equity curve, and one     *)
(* over the curve that finds its maximum drawdown.                         *)
(*                                                                         *)
(* Prices are natural numbers and every quotient an exact fraction: that   *)
(* f64 rounds is left out.  What division by zero yields, an infinity or   *)
(* a NaN, is the fraction with denominator 0; it stays so through every    *)
(* product and compares false, as NaN does and as an infinity does here,   *)
(* where all the points after it are no numbers either.  Metrics that take *)
(* square roots or powers are left out.                                    *)
(***************************************************************************)
EXTENDS Integers, Sequences, Functions

CONSTANTS
  Kind,       \* the strategy types: "ma_cross" (also any unknown one), "volatility", "correlation"
  MaxWindow,  \* bound of short_window and long_window
  MaxPrice,   \* bound of a price
  MaxLength   \* bound of the number of prices

ASSUME BacktestAssumption ==
  /\ Kind \subseteq {"ma_cross", "volatility", "correlation"}
  /\ MaxWindow \in Nat /\ MaxPrice \in Nat /\ MaxLength \in Nat

VARIABLES
  kind, short, long,  \* of the strategy and its params
  prices,             \* the series the request gives
  next,               \* the point the loop is at
  window, prev_position, equity,
  equity_curve,
  seen,               \* the points of the curve the drawdown loop has passed
  peak, max_drawdown

input == <<kind, short, long, prices>>
vars == <<input, next, window, prev_position, equity, equity_curve, seen, peak, max_drawdown>>

Price == 0..MaxPrice
Window == 0..MaxWindow

-----------------------------------------------------------------------------
(* Fractions.                                                              *)

Fraction == [n : Nat, d : Nat]
One == [n |-> 1, d |-> 1]
Times(x, y) == [n |-> x.n * y.n, d |-> x.d * y.d]
Over(p, q) == [n |-> p, d |-> q]
Finite(x) == x.d # 0
Less(x, y) == Finite(x) /\ Finite(y) /\ x.n * y.d < y.n * x.d

Init ==
  /\ kind \in Kind /\ short \in Window /\ long \in Window
  /\ prices \in UNION {[1..n -> Price] : n \in 0..MaxLength}
  /\ next = 1
  /\ window = <<>> /\ prev_position = 0 /\ equity = One
  /\ equity_curve = <<>>
  /\ seen = 0 /\ peak = One /\ max_drawdown = One

-----------------------------------------------------------------------------
(* backtest_ma.                                                            *)

(* Mutant: the window may keep one price more than it should.              *)
BugWindowTooLong(p) ==
  LET pushed == Append(window, p)
  IN IF Len(pushed) > long + 1 THEN Tail(pushed) ELSE pushed

(* Mutant: the price that goes is the newest.                              *)
BugDropsNewest(p) ==
  IF Len(window) + 1 > long THEN window ELSE Append(window, p)

(* The last prices, at most long_window of them.                           *)
Slide(p) ==
  LET pushed == Append(window, p)
  IN IF Len(pushed) > long THEN Tail(pushed) ELSE pushed

(* The last price against the average, until there are short_window of     *)
(* them.  An average over nothing compares false.                          *)
Rising(w, p) ==
  /\ w # <<>>
  /\ IF Len(w) >= short
       THEN LET last == SumFunctionOnSet(w, (Len(w) - short + 1)..Len(w))
            IN short > 0 /\ last * Len(w) > SumFunction(w) * short
       ELSE p * Len(w) > SumFunction(w)

(* Mutant: the return is earned by the position taken at its end.          *)
BugLookAhead(w, p) ==
  IF w = <<>> THEN One
  ELSE LET prev == w[IF Len(w) > 1 THEN Len(w) - 1 ELSE 1]
       IN IF prev = 0 THEN Over(1, 0)
          ELSE IF Rising(w, p) THEN Over(p, prev) ELSE One

(* Mutant: the first price has a price of 0 before it.                     *)
BugNoPrevious(w, p) ==
  IF w = <<>> THEN One
  ELSE LET prev == IF Len(w) > 1 THEN w[Len(w) - 1] ELSE 0
       IN IF prev = 0 THEN Over(1, 0)
          ELSE IF prev_position = 1 THEN Over(p, prev) ELSE One

(* Mutant: the return is computed only where it is earned.                 *)
BugOnlyWhenHeld(w, p) ==
  IF w = <<>> \/ prev_position = 0 THEN One
  ELSE Over(p, w[IF Len(w) > 1 THEN Len(w) - 1 ELSE 1])

(* 1 + ret * prev_position.  A return from a price of 0 is no number, and  *)
(* no number times a position of 0 is none either.                         *)
Growth(w, p) ==
  IF w = <<>> THEN One
  ELSE LET prev == w[IF Len(w) > 1 THEN Len(w) - 1 ELSE 1]
       IN IF prev = 0 THEN Over(1, 0)
          ELSE IF prev_position = 1 THEN Over(p, prev) ELSE One

MovingAverage ==
  /\ kind = "ma_cross" /\ next <= Len(prices)
  /\ LET p == prices[next]
     IN /\ window' = Slide(p)
        /\ equity' = Times(equity, Growth(window', p))
        /\ prev_position' = IF Rising(window', p) THEN 1 ELSE 0
  /\ equity_curve' = Append(equity_curve, equity')
  /\ next' = next + 1
  /\ UNCHANGED <<input, seen, peak, max_drawdown>>

-----------------------------------------------------------------------------
(* backtest_volatility and backtest_correlation.                           *)

(* Every point of the curve grows by the one last return of the series.    *)
LastGrowth ==
  LET n == Len(prices)
  IN IF n < 2 THEN One
     ELSE IF prices[n - 1] = 0 THEN Over(1, 0)
     ELSE Over(prices[n], prices[n - 1])

Volatility ==
  /\ kind = "volatility" /\ next <= Len(prices)
  /\ equity' = Times(equity, LastGrowth)
  /\ equity_curve' = Append(equity_curve, equity')
  /\ next' = next + 1
  /\ UNCHANGED <<input, window, prev_position, seen, peak, max_drawdown>>

(* The curve of a correlation is 1 throughout: correlation() divides only  *)
(* by what is not 0.                                                       *)
Correlation ==
  /\ kind = "correlation" /\ next <= Len(prices)
  /\ equity_curve' = Append(equity_curve, One)
  /\ next' = next + 1
  /\ UNCHANGED <<input, window, prev_position, equity, seen, peak, max_drawdown>>

-----------------------------------------------------------------------------
(* build_metrics: the maximum drawdown, as the ratio to the peak.          *)

(* Mutant: the peak follows the curve down.                                *)
BugPeakFollows(v) == v

Higher(v) == IF Less(peak, v) THEN v ELSE peak

Deeper(v, top) ==
  LET ratio == Times(v, Over(top.d, top.n))
  IN IF Less(Over(0, 1), top) /\ Less(ratio, max_drawdown) THEN ratio ELSE max_drawdown

Drawdown ==
  /\ next > Len(prices) /\ seen < Len(equity_curve)
  /\ LET v == equity_curve[seen + 1]
     IN /\ peak' = IF seen = 0 THEN v ELSE Higher(v)
        /\ max_drawdown' = Deeper(v, peak')
  /\ seen' = seen + 1
  /\ UNCHANGED <<input, next, window, prev_position, equity, equity_curve>>

Next == MovingAverage \/ Volatility \/ Correlation \/ Drawdown

Spec == Init /\ [][Next]_vars

-----------------------------------------------------------------------------
(* Properties.                                                             *)

Done == next - 1

TypeOK ==
  /\ kind \in Kind /\ short \in Window /\ long \in Window
  /\ prices \in Seq(Price) /\ Len(prices) <= MaxLength
  /\ next \in 1..(MaxLength + 1)
  /\ window \in Seq(Price) /\ Len(window) <= long
  /\ prev_position \in {0, 1} /\ equity \in Fraction
  /\ equity_curve \in Seq(Fraction) /\ Len(equity_curve) = Done
  /\ seen \in 0..Len(equity_curve)
  /\ peak \in Fraction /\ max_drawdown \in Fraction

(* The window holds the prices just passed, in their order, as many as     *)
(* there are up to long_window and never one that has left it.             *)
WindowIsSuffix ==
  kind = "ma_cross" =>
    /\ Len(window) = IF Done < long THEN Done ELSE long
    /\ \A i \in DOMAIN window : window[i] = prices[Done - Len(window) + i]

(* Whether the rule holds the asset after point k, said over the series:   *)
(* the average of the last short_window prices is above that of the last   *)
(* long_window, or of all there are; the price stands for a short average  *)
(* that has not enough prices.                                             *)
Mean(from, to) == Over(SumFunctionOnSet(prices, from..to), to - from + 1)
Holds(k) ==
  LET all == Mean(IF k < long THEN 1 ELSE k - long + 1, k)
  IN IF short <= k /\ short <= long
       THEN short > 0 /\ Less(all, Mean(k - short + 1, k))
       ELSE Less(all, Over(prices[k], 1))

(* Time spent in the market, from the point it is entered to the point it  *)
(* is left or the last one.                                                *)
Stretches ==
  {s \in (1..Done) \X (1..Done) :
     /\ s[1] < s[2]
     /\ \A k \in s[1]..(s[2] - 1) : Holds(k)
     /\ s[1] = 1 \/ ~Holds(s[1] - 1)
     /\ s[2] = Done \/ ~Holds(s[2])}

(* The equity is what one unit of money has become that was in the market  *)
(* exactly while the rule held, from each decision on and not before it:   *)
(* the product over the stretches of the price at the end by the price at  *)
(* the start.  A long_window of 1 forgets the price before and earns none. *)
EquityFromStretches ==
  (kind = "ma_cross" /\ long >= 2 /\ Finite(equity)) =>
    LET product(i) ==
          FoldFunction(LAMBDA a, b : a * b, 1, [s \in Stretches |-> prices[s[i]]])
    IN equity.n * product(1) = equity.d * product(2)

(* The drawdown is the deepest fall from a point to a later one, or to     *)
(* itself, among the points that are numbers.                              *)
DrawdownIsDeepest ==
  LET fall(i, j) == Times(equity_curve[j], Over(equity_curve[i].d, equity_curve[i].n))
      pairs == {p \in (1..seen) \X (1..seen) : p[1] <= p[2]}
  IN /\ \A p \in pairs : ~Less(fall(p[1], p[2]), max_drawdown)
     /\ \/ ~Less(max_drawdown, One) /\ ~Less(One, max_drawdown)
        \/ \E p \in pairs : fall(p[1], p[2]) = max_drawdown

(* Prices above 0 give a curve of numbers, which alone can be stored and   *)
(* read back: every divisor is a price that has been paid.                 *)
FiniteOnPositive ==
  (\A i \in DOMAIN prices : prices[i] > 0) => \A i \in DOMAIN equity_curve : Finite(equity_curve[i])

(* A price of 0 spoils the curve of a moving average from the next point   *)
(* on, also when nothing was held then.                                    *)
ZeroSpoils ==
  (kind = "ma_cross" /\ long >= 2) =>
    \A i \in DOMAIN equity_curve :
      Finite(equity_curve[i]) <=> prices[1] > 0 /\ \A k \in 1..(i - 1) : prices[k] > 0
=============================================================================
