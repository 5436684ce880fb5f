--------------------------- MODULE BacktestProofs ---------------------------
(***************************************************************************)
(* Proofs about Backtest, for series of every length, any prices and any   *)
(* windows.                                                                *)
(***************************************************************************)
EXTENDS Backtest, FiniteSets, SequenceTheorems, FiniteSetTheorems, WellFoundedInduction, TLAPS

LEMMA Bounds == MaxWindow \in Nat /\ MaxPrice \in Nat /\ MaxLength \in Nat
  BY BacktestAssumption

LEMMA FractionFacts ==
  /\ One \in Fraction /\ Finite(One)
  /\ \A p, q \in Nat : Over(p, q) \in Fraction /\ (q > 0 => Finite(Over(p, q)))
  BY DEF One, Fraction, Over, Finite

LEMMA TimesFacts ==
  ASSUME NEW x \in Fraction, NEW y \in Fraction
  PROVE  Times(x, y) \in Fraction /\ (Finite(x) /\ Finite(y) => Finite(Times(x, y)))
<1>1. x.n \in Nat /\ x.d \in Nat /\ y.n \in Nat /\ y.d \in Nat
  BY DEF Fraction
<1>2. \A a, b \in Nat : a * b \in Nat /\ (a # 0 /\ b # 0 => a * b # 0)
  OBVIOUS
<1> QED BY <1>1, <1>2 DEF Times, Fraction, Finite

(* The window, point by point.                                             *)
LEMMA Slides ==
  ASSUME TypeOK, WindowIsSuffix, kind = "ma_cross", next <= Len(prices)
  PROVE  LET w == Slide(prices[next])
         IN /\ w \in Seq(Price)
            /\ Len(w) = IF next < long THEN next ELSE long
            /\ \A i \in DOMAIN w : w[i] = prices[next - Len(w) + i]
            /\ w # <<>> => w[Len(w)] = prices[next]
<1> DEFINE p == prices[next]
           pushed == Append(window, p)
<1>1. /\ window \in Seq(Price) /\ prices \in Seq(Price) /\ p \in Price
      /\ next \in Nat /\ next > 0 /\ long \in Nat
      /\ Len(window) \in Nat /\ DOMAIN window = 1..Len(window)
  BY Bounds DEF TypeOK, Window
<1>2. /\ Len(window) = IF next - 1 < long THEN next - 1 ELSE long
      /\ \A i \in DOMAIN window : window[i] = prices[(next - 1) - Len(window) + i]
  BY DEF WindowIsSuffix, Done
<1>3. /\ pushed \in Seq(Price) /\ Len(pushed) = Len(window) + 1
      /\ DOMAIN pushed = 1..(Len(window) + 1)
      /\ \A i \in DOMAIN pushed : pushed[i] = prices[next - Len(pushed) + i]
  BY <1>1, <1>2
<1> HIDE DEF pushed
<1>4. CASE Len(pushed) > long
  <2> DEFINE w == Tail(pushed)
  <2>1. Slide(p) = w
    BY <1>4 DEF Slide, pushed
  <2>2. /\ w \in Seq(Price) /\ Len(w) = Len(window)
        /\ DOMAIN w = 1..Len(window) /\ \A i \in DOMAIN w : w[i] = pushed[i + 1]
    BY <1>1, <1>3, HeadTailProperties
  <2> HIDE DEF w
  <2>3. \A i \in DOMAIN w : w[i] = prices[next - Len(w) + i]
    <3>1. TAKE i \in DOMAIN w
    <3>2. i \in Nat /\ i + 1 \in DOMAIN pushed /\ w[i] = pushed[i + 1]
      BY <1>1, <1>3, <2>2
    <3>3. w[i] = prices[next - Len(pushed) + (i + 1)]
      BY <1>3, <3>2
    <3>4. next - Len(pushed) + (i + 1) = next - Len(w) + i
      BY <1>1, <1>3, <2>2, <3>2
    <3> QED BY <3>3, <3>4
  <2>4. Len(w) = IF next < long THEN next ELSE long
    BY <1>1, <1>2, <1>3, <1>4, <2>2
  <2>5. w # <<>> => w[Len(w)] = prices[next]
    BY <1>1, <2>2, <2>3
  <2> QED BY <2>1, <2>2, <2>3, <2>4, <2>5
<1>5. CASE ~(Len(pushed) > long)
  <2>1. Slide(p) = pushed
    BY <1>5 DEF Slide, pushed
  <2>2. Len(pushed) = IF next < long THEN next ELSE long
    BY <1>1, <1>2, <1>3, <1>5
  <2>3. pushed # <<>> => pushed[Len(pushed)] = prices[next]
    BY <1>1, <1>3
  <2> QED BY <1>3, <2>1, <2>2, <2>3
<1> QED BY <1>4, <1>5

Positive == \A i \in DOMAIN prices : prices[i] > 0

(* A factor of the curve is a fraction, and a number when prices are.      *)
LEMMA GrowthFacts ==
  ASSUME TypeOK, WindowIsSuffix, kind = "ma_cross", next <= Len(prices)
  PROVE  LET g == Growth(Slide(prices[next]), prices[next])
         IN g \in Fraction /\ (Positive => Finite(g))
<1> DEFINE p == prices[next]
           w == Slide(p)
           k == IF Len(w) > 1 THEN Len(w) - 1 ELSE 1
<1>1. /\ prices \in Seq(Price) /\ DOMAIN prices = 1..Len(prices) /\ Len(prices) \in Nat
      /\ next \in 1..Len(prices) /\ long \in Nat /\ p \in Nat
      /\ \A i \in DOMAIN prices : prices[i] \in Nat
  BY Bounds DEF TypeOK, Window, Price
<1>2. /\ w \in Seq(Price) /\ Len(w) = IF next < long THEN next ELSE long
      /\ \A i \in DOMAIN w : w[i] = prices[next - Len(w) + i]
  BY Slides
<1> SUFFICES Growth(w, p) \in Fraction /\ (Positive => Finite(Growth(w, p)))
  OBVIOUS
<1> HIDE DEF w
<1>3. CASE w = <<>>
  BY <1>3, FractionFacts DEF Growth
<1>4. CASE w # <<>>
  <2>1. k \in DOMAIN w /\ next - Len(w) + k \in DOMAIN prices
    BY <1>1, <1>2, <1>4
  <2>2. w[k] \in Nat /\ (Positive => w[k] > 0)
    BY <1>1, <1>2, <2>1 DEF Positive
  <2>3. Growth(w, p) = IF w[k] = 0 THEN Over(1, 0)
                       ELSE IF prev_position = 1 THEN Over(p, w[k]) ELSE One
    BY <1>4 DEF Growth
  <2>4. /\ Over(1, 0) \in Fraction /\ One \in Fraction /\ Finite(One)
        /\ Over(p, w[k]) \in Fraction /\ (w[k] > 0 => Finite(Over(p, w[k])))
    BY <1>1, <2>2, FractionFacts
  <2>5. CASE w[k] = 0
    BY <2>2, <2>3, <2>4, <2>5
  <2>6. CASE w[k] # 0
    BY <2>2, <2>3, <2>4, <2>6
  <2> QED BY <2>5, <2>6
<1> QED BY <1>3, <1>4

LEMMA LastGrowthFacts ==
  ASSUME TypeOK
  PROVE  LastGrowth \in Fraction /\ (Positive => Finite(LastGrowth))
<1>1. /\ prices \in Seq(Price) /\ Len(prices) \in Nat /\ DOMAIN prices = 1..Len(prices)
      /\ \A i \in DOMAIN prices : prices[i] \in Nat
  BY Bounds DEF TypeOK, Price
<1>2. CASE Len(prices) < 2
  BY <1>2, FractionFacts DEF LastGrowth
<1>3. CASE ~(Len(prices) < 2)
  <2> DEFINE n == Len(prices)
  <2>1. n \in DOMAIN prices /\ n - 1 \in DOMAIN prices
    BY <1>1, <1>3
  <2>2. /\ prices[n] \in Nat /\ prices[n - 1] \in Nat
        /\ Positive => prices[n - 1] > 0
    BY <1>1, <2>1 DEF Positive
  <2>3. LastGrowth = IF prices[n - 1] = 0 THEN Over(1, 0) ELSE Over(prices[n], prices[n - 1])
    BY <1>3 DEF LastGrowth
  <2>4. Over(1, 0) \in Fraction /\ Over(prices[n], prices[n - 1]) \in Fraction
        /\ (prices[n - 1] > 0 => Finite(Over(prices[n], prices[n - 1])))
    BY <2>2, FractionFacts
  <2> HIDE DEF n
  <2> QED BY <2>2, <2>3, <2>4
<1> QED BY <1>2, <1>3

BacktestInv ==
  /\ TypeOK /\ WindowIsSuffix
  /\ Positive => Finite(equity) /\ \A i \in DOMAIN equity_curve : Finite(equity_curve[i])

(* A point of the curve is added.                                          *)
LEMMA PointAdded ==
  ASSUME TypeOK, NEW e \in Fraction, next <= Len(prices),
         equity_curve' = Append(equity_curve, e), next' = next + 1, UNCHANGED prices
  PROVE  /\ equity_curve' \in Seq(Fraction) /\ Len(equity_curve') = next' - 1
         /\ next' \in 1..(MaxLength + 1) /\ seen \in 0..Len(equity_curve')
         /\ \A i \in DOMAIN equity_curve' :
              (i \in DOMAIN equity_curve /\ equity_curve'[i] = equity_curve[i]) \/ equity_curve'[i] = e
<1>1. /\ equity_curve \in Seq(Fraction) /\ Len(equity_curve) = next - 1
      /\ next \in Nat /\ next > 0 /\ Len(prices) \in Nat /\ Len(prices) <= MaxLength
      /\ seen \in Nat /\ seen <= Len(equity_curve) /\ MaxLength \in Nat
  BY Bounds DEF TypeOK, Done
<1> QED BY <1>1

LEMMA InitBacktest == Init => BacktestInv
<1> SUFFICES ASSUME Init PROVE BacktestInv
  OBVIOUS
<1>1. PICK n \in 0..MaxLength : prices \in [1..n -> Price]
  BY DEF Init
<1>2. prices \in Seq(Price) /\ Len(prices) <= MaxLength
  BY <1>1, Bounds
<1>3. short \in Nat /\ long \in Nat /\ 1 \in 1..(MaxLength + 1)
  BY Bounds DEF Init, Window
<1> QED BY <1>2, <1>3, FractionFacts
        DEF Init, BacktestInv, TypeOK, WindowIsSuffix, Done

LEMMA NextBacktest == BacktestInv /\ [Next]_vars => BacktestInv'
<1> SUFFICES ASSUME BacktestInv, [Next]_vars PROVE BacktestInv'
  OBVIOUS
<1>0. /\ TypeOK /\ WindowIsSuffix /\ equity \in Fraction
      /\ Positive => Finite(equity) /\ \A i \in DOMAIN equity_curve : Finite(equity_curve[i])
  BY DEF BacktestInv, TypeOK
<1>1. CASE MovingAverage
  <2> DEFINE w == Slide(prices[next])
             g == Growth(w, prices[next])
  <2>1. /\ kind = "ma_cross" /\ next <= Len(prices)
        /\ window' = w /\ equity' = Times(equity, g)
        /\ prev_position' \in {0, 1}
        /\ equity_curve' = Append(equity_curve, equity') /\ next' = next + 1
        /\ UNCHANGED <<kind, short, long, prices, seen, peak, max_drawdown>>
    BY <1>1 DEF MovingAverage, input
  <2>2. equity' \in Fraction /\ (Positive => Finite(equity'))
    BY <1>0, <2>1, GrowthFacts, TimesFacts
  <2>3. /\ w \in Seq(Price) /\ Len(w) = IF next < long THEN next ELSE long
        /\ \A i \in DOMAIN w : w[i] = prices[next - Len(w) + i]
    BY <1>0, <2>1, Slides
  <2> HIDE DEF w, g
  <2>4. next' - 1 = next /\ Len(w) <= long
    <3>1. next \in Nat /\ long \in Nat
      BY <1>0, Bounds DEF TypeOK, Window
    <3> QED BY <2>1, <2>3, <3>1
  <2>5. TypeOK'
    BY <1>0, <2>1, <2>2, <2>3, <2>4, PointAdded DEF TypeOK, Done
  <2>6. WindowIsSuffix'
    BY <2>1, <2>3, <2>4 DEF WindowIsSuffix, Done
  <2>7. Positive => \A i \in DOMAIN equity_curve' : Finite(equity_curve'[i])
    BY <1>0, <2>1, <2>2, PointAdded
  <2> QED BY <2>1, <2>2, <2>5, <2>6, <2>7 DEF BacktestInv, Positive
<1>2. CASE Volatility \/ Correlation
  <2>1. PICK e \in Fraction :
          /\ Positive => Finite(e) /\ Finite(equity')
          /\ equity' \in Fraction
          /\ equity_curve' = Append(equity_curve, e)
    BY <1>0, <1>2, LastGrowthFacts, TimesFacts, FractionFacts DEF Volatility, Correlation
  <2>2. /\ kind # "ma_cross" /\ next <= Len(prices) /\ next' = next + 1
        /\ UNCHANGED <<kind, short, long, prices, window, prev_position, seen, peak, max_drawdown>>
    BY <1>2 DEF Volatility, Correlation, input
  <2>3. TypeOK'
    BY <1>0, <2>1, <2>2, PointAdded DEF TypeOK, Done
  <2>4. Positive => \A i \in DOMAIN equity_curve' : Finite(equity_curve'[i])
    BY <1>0, <2>1, <2>2, PointAdded
  <2> QED BY <2>1, <2>2, <2>3, <2>4 DEF BacktestInv, WindowIsSuffix, Positive
<1>3. CASE Drawdown
  <2> DEFINE v == equity_curve[seen + 1]
  <2>1. /\ next > Len(prices) /\ seen < Len(equity_curve) /\ seen' = seen + 1
        /\ peak' = IF seen = 0 THEN v ELSE Higher(v)
        /\ max_drawdown' = Deeper(v, peak')
        /\ UNCHANGED <<kind, short, long, prices, next, window, prev_position, equity, equity_curve>>
    BY <1>3 DEF Drawdown, input
  <2>2. seen' \in 0..Len(equity_curve) /\ v \in Fraction
    BY <1>0, <2>1 DEF TypeOK
  <2> HIDE DEF v
  <2>3. peak' \in Fraction
    BY <1>0, <2>1, <2>2 DEF TypeOK, Higher
  <2>4. max_drawdown' \in Fraction
    <3>1. peak'.n \in Nat /\ peak'.d \in Nat
      BY <2>3 DEF Fraction
    <3>2. Times(v, Over(peak'.d, peak'.n)) \in Fraction
      BY <2>2, <3>1, FractionFacts, TimesFacts
    <3> QED BY <1>0, <2>1, <3>2 DEF TypeOK, Deeper
  <2>5. TypeOK'
    BY <1>0, <2>1, <2>2, <2>3, <2>4 DEF TypeOK, Done
  <2> QED BY <1>0, <2>1, <2>5 DEF BacktestInv, WindowIsSuffix, Positive, Done
<1>4. CASE UNCHANGED vars
  BY <1>4 DEF vars, input, BacktestInv, TypeOK, WindowIsSuffix, Positive, Done
<1> QED BY <1>1, <1>2, <1>3, <1>4 DEF Next

LEMMA BacktestInvariant == Spec => []BacktestInv
  BY InitBacktest, NextBacktest, PTL DEF Spec

(* Type correctness.                                                       *)
THEOREM TypeCorrect == Spec => []TypeOK
<1>1. BacktestInv => TypeOK
  BY DEF BacktestInv
<1> QED BY <1>1, BacktestInvariant, PTL

(* The window is the end of the series passed so far, for every series and *)
(* every long_window.                                                      *)
THEOREM WindowIsTheEnd == Spec => []WindowIsSuffix
<1>1. BacktestInv => WindowIsSuffix
  BY DEF BacktestInv
<1> QED BY <1>1, BacktestInvariant, PTL

(* Prices above 0 give a curve of numbers, whatever the strategy.          *)
THEOREM PositiveIsFinite == Spec => []FiniteOnPositive
<1>1. BacktestInv => FiniteOnPositive
  BY DEF BacktestInv, FiniteOnPositive, Positive
<1> QED BY <1>1, BacktestInvariant, PTL

-----------------------------------------------------------------------------
(* A price of 0 and the curve of a moving average.                         *)

LEMMA TimesFinite ==
  ASSUME NEW x \in Fraction, NEW y \in Fraction
  PROVE  Finite(Times(x, y)) <=> Finite(x) /\ Finite(y)
<1>1. x.d \in Nat /\ y.d \in Nat
  BY DEF Fraction
<1>2. \A a, b \in Nat : a * b # 0 <=> a # 0 /\ b # 0
  OBVIOUS
<1>3. Times(x, y).d = x.d * y.d
  BY DEF Times
<1> QED BY <1>1, <1>2, <1>3 DEF Finite

(* The prices that are divided by up to point i are above 0.               *)
Paid(i) == \A k \in 1..(IF i > 1 THEN i - 1 ELSE i) : prices[k] > 0

SpoilInv ==
  (kind = "ma_cross" /\ long >= 2) =>
    /\ Finite(equity) <=> Paid(Done)
    /\ \A i \in DOMAIN equity_curve : Finite(equity_curve[i]) <=> Paid(i)

(* The factor of a point is a number if the price before it is not 0.      *)
LEMMA GrowthFinite ==
  ASSUME TypeOK, WindowIsSuffix, kind = "ma_cross", long >= 2, next <= Len(prices)
  PROVE  /\ Growth(Slide(prices[next]), prices[next]) \in Fraction
         /\ Finite(Growth(Slide(prices[next]), prices[next]))
              <=> prices[IF next > 1 THEN next - 1 ELSE 1] > 0
         /\ Growth(Slide(prices[next]), prices[next])
              = IF prices[IF next > 1 THEN next - 1 ELSE 1] = 0 THEN Over(1, 0)
                ELSE IF prev_position = 1
                       THEN Over(prices[next], prices[IF next > 1 THEN next - 1 ELSE 1])
                       ELSE One
<1> DEFINE p == prices[next]
           w == Slide(p)
           k == IF Len(w) > 1 THEN Len(w) - 1 ELSE 1
           b == IF next > 1 THEN next - 1 ELSE 1
<1>1. /\ prices \in Seq(Price) /\ DOMAIN prices = 1..Len(prices) /\ Len(prices) \in Nat
      /\ next \in 1..Len(prices) /\ long \in Nat /\ p \in Nat
      /\ \A i \in DOMAIN prices : prices[i] \in Nat
  BY Bounds DEF TypeOK, Window, Price
<1>2. /\ w \in Seq(Price) /\ Len(w) = IF next < long THEN next ELSE long
      /\ \A i \in DOMAIN w : w[i] = prices[next - Len(w) + i]
  BY Slides
<1>3. Growth(w, p) \in Fraction
  BY GrowthFacts
<1> HIDE DEF w
<1>4. w # <<>> /\ k \in DOMAIN w /\ next - Len(w) + k = b /\ b \in DOMAIN prices
  BY <1>1, <1>2
<1>5. w[k] = prices[b] /\ prices[b] \in Nat
  <2> HIDE DEF p, k, b
  <2> QED BY <1>1, <1>2, <1>4
<1>6. Growth(w, p) = IF prices[b] = 0 THEN Over(1, 0)
                     ELSE IF prev_position = 1 THEN Over(p, prices[b]) ELSE One
  BY <1>4, <1>5 DEF Growth
<1>7. ~Finite(Over(1, 0)) /\ Finite(One) /\ (prices[b] # 0 => Finite(Over(p, prices[b])))
  BY <1>5 DEF Finite, Over, One
<1>8. Finite(Growth(w, p)) <=> prices[b] > 0
  <2> HIDE DEF p, k, b
  <2> QED BY <1>5, <1>6, <1>7
<1> QED BY <1>3, <1>6, <1>8 DEF w

LEMMA InitSpoil == Init => SpoilInv
<1> SUFFICES ASSUME Init PROVE SpoilInv
  OBVIOUS
<1>1. Done = 0 /\ equity = One /\ equity_curve = <<>>
  BY DEF Init, Done
<1>2. Paid(0)
  BY DEF Paid
<1> QED BY <1>1, <1>2, FractionFacts DEF SpoilInv

LEMMA NextSpoil == BacktestInv /\ SpoilInv /\ [Next]_vars => SpoilInv'
<1> SUFFICES ASSUME BacktestInv, SpoilInv, [Next]_vars, kind' = "ma_cross", long' >= 2
             PROVE  /\ Finite(equity') <=> Paid(Done)'
                    /\ \A i \in DOMAIN equity_curve' : Finite(equity_curve'[i]) <=> Paid(i)'
  BY DEF SpoilInv
<1>0. /\ UNCHANGED <<kind, long, prices>> /\ TypeOK /\ WindowIsSuffix
      /\ kind = "ma_cross" /\ long >= 2
      /\ Finite(equity) <=> Paid(Done)
      /\ \A i \in DOMAIN equity_curve : Finite(equity_curve[i]) <=> Paid(i)
  BY DEF Next, MovingAverage, Volatility, Correlation, Drawdown, vars, input, BacktestInv, SpoilInv
<1>1. CASE MovingAverage
  <2> DEFINE g == Growth(Slide(prices[next]), prices[next])
             b == IF next > 1 THEN next - 1 ELSE 1
  <2>1. /\ next <= Len(prices) /\ equity' = Times(equity, g)
        /\ equity_curve' = Append(equity_curve, equity') /\ next' = next + 1
    BY <1>1 DEF MovingAverage
  <2>2. g \in Fraction /\ (Finite(g) <=> prices[b] > 0)
    BY <1>0, <2>1, GrowthFinite
  <2> HIDE DEF g
  <2>3. /\ equity \in Fraction /\ next \in Nat /\ next > 0
        /\ equity_curve \in Seq(Fraction) /\ Len(equity_curve) = next - 1 /\ Done = next - 1
    BY <1>0, Bounds DEF TypeOK, Done
  <2>4. Finite(equity') <=> Paid(Done) /\ prices[b] > 0
    BY <1>0, <2>1, <2>2, <2>3, TimesFinite
  <2>5. Paid(next) <=> Paid(next - 1) /\ prices[b] > 0
    BY <2>3 DEF Paid
  <2>6. Done' = next /\ \A i : Paid(i)' <=> Paid(i)
    BY <1>0, <2>1, <2>3 DEF Done, Paid
  <2>7. Finite(equity') <=> Paid(next)
    BY <2>3, <2>4, <2>5
  <2>8. equity' \in Fraction
    BY <2>1, <2>2, <2>3, TimesFacts
  <2>9. \A i \in DOMAIN equity_curve' :
          (i \in DOMAIN equity_curve /\ equity_curve'[i] = equity_curve[i])
            \/ (i = next /\ equity_curve'[i] = equity')
    BY <2>1, <2>3, <2>8
  <2> QED BY <1>0, <2>6, <2>7, <2>9 DEF Done, Paid
<1>2. CASE Volatility \/ Correlation
  BY <1>0, <1>2 DEF Volatility, Correlation
<1>3. CASE Drawdown \/ UNCHANGED vars
  <2>1. UNCHANGED <<prices, next, equity, equity_curve>>
    BY <1>3 DEF Drawdown, vars, input
  <2> QED BY <1>0, <2>1 DEF Paid, Done
<1> QED BY <1>1, <1>2, <1>3 DEF Next

(* A price of 0 spoils the curve from the next point on and nothing else   *)
(* does, for every series and every pair of windows but a long_window      *)
(* below 2.                                                                *)
THEOREM ZeroIsWhatSpoils == Spec => []ZeroSpoils
<1>1. BacktestInv /\ SpoilInv => ZeroSpoils
  <2> SUFFICES ASSUME BacktestInv, SpoilInv, kind = "ma_cross", long >= 2,
                      NEW i \in DOMAIN equity_curve
               PROVE  Paid(i) <=> prices[1] > 0 /\ \A k \in 1..(i - 1) : prices[k] > 0
    BY DEF ZeroSpoils, SpoilInv
  <2>1. i \in Nat /\ i > 0
    BY DEF BacktestInv, TypeOK
  <2> QED BY <2>1 DEF Paid
<1>2. Init => SpoilInv
  BY InitSpoil
<1>3. BacktestInv /\ SpoilInv /\ [Next]_vars => SpoilInv'
  BY NextSpoil
<1> QED BY <1>1, <1>2, <1>3, BacktestInvariant, PTL DEF Spec

-----------------------------------------------------------------------------
(* The order of the fractions.                                             *)

(* Two quotients that follow one another, multiplied out.                  *)
LEMMA CrossMultiply ==
  ASSUME NEW a \in Nat, NEW b \in Nat, NEW c \in Nat, NEW d \in Nat,
         NEW e \in Nat, NEW f \in Nat,
         d > 0, a * d <= c * b, c * f <= e * d
  PROVE  a * f <= e * b
<1>1. \A x, y, z \in Nat : x <= y => x * z <= y * z
  OBVIOUS
<1>2. \A x, y \in Nat : x * y \in Nat /\ x * y = y * x
  OBVIOUS
<1>3. (a * d) * f <= (c * b) * f /\ (c * f) * b <= (e * d) * b
  BY <1>1, <1>2
<1>4. \A x, y, z \in Nat : (x * y) * z = (x * z) * y
  OBVIOUS
<1>5. (a * f) * d <= (e * b) * d
  <2>1. (a * d) * f = (a * f) * d /\ (c * b) * f = (c * f) * b /\ (e * d) * b = (e * b) * d
    BY <1>4
  <2>2. (a * d) * f \in Nat /\ (c * b) * f \in Nat /\ (e * d) * b \in Nat
    BY <1>2
  <2>3. \A x, y, z \in Nat : x <= y /\ y <= z => x <= z
    OBVIOUS
  <2> QED BY <1>3, <2>1, <2>2, <2>3
<1>6. \A x, y, z \in Nat : z > 0 /\ x * z <= y * z => x <= y
  OBVIOUS
<1> QED BY <1>2, <1>5, <1>6

LEMMA LessTransitive ==
  ASSUME NEW x \in Fraction, NEW y \in Fraction, NEW z \in Fraction, Finite(y),
         ~Less(y, x), ~Less(z, y)
  PROVE  ~Less(z, x)
<1>1. /\ x.n \in Nat /\ x.d \in Nat /\ y.n \in Nat /\ y.d \in Nat
      /\ z.n \in Nat /\ z.d \in Nat /\ y.d > 0
  BY DEF Fraction, Finite
<1> SUFFICES ASSUME Finite(x), Finite(z) PROVE ~(z.n * x.d < x.n * z.d)
  BY DEF Less
<1>2. \A a, b \in Nat : a * b \in Nat
  OBVIOUS
<1>3. x.n * y.d <= y.n * x.d /\ y.n * z.d <= z.n * y.d
  BY <1>1, <1>2 DEF Less
<1>4. x.n * z.d <= z.n * x.d
  BY <1>1, <1>3, CrossMultiply
<1> QED BY <1>1, <1>2, <1>4

LEMMA LessAsymmetric ==
  ASSUME NEW x \in Fraction, NEW y \in Fraction, Less(x, y)
  PROVE  Finite(x) /\ Finite(y) /\ ~Less(y, x)
<1>1. x.n \in Nat /\ x.d \in Nat /\ y.n \in Nat /\ y.d \in Nat
  BY DEF Fraction
<1>2. \A a, b \in Nat : a * b \in Nat
  OBVIOUS
<1> QED BY <1>1, <1>2 DEF Less

(* The ratio of a point to a peak, and to a point that is not above it.    *)
Ratio(v, top) == Times(v, Over(top.d, top.n))

LEMMA RatioFacts ==
  ASSUME NEW v \in Fraction, NEW x \in Fraction
  PROVE  /\ Ratio(v, x) \in Fraction
         /\ Finite(Ratio(v, x)) <=> Finite(v) /\ x.n > 0
<1>1. x.n \in Nat /\ x.d \in Nat
  BY DEF Fraction
<1>2. Over(x.d, x.n) \in Fraction /\ (Finite(Over(x.d, x.n)) <=> x.n > 0)
  BY <1>1 DEF Over, Fraction, Finite
<1> QED BY <1>2, TimesFacts, TimesFinite DEF Ratio

LEMMA RatioToPeak ==
  ASSUME NEW v \in Fraction, NEW top \in Fraction, NEW x \in Fraction,
         Finite(v), Finite(x), Finite(top), x.n > 0, ~Less(top, x)
  PROVE  /\ Less(Over(0, 1), top)
         /\ Finite(Ratio(v, top)) /\ ~Less(Ratio(v, x), Ratio(v, top))
<1>1. /\ v.n \in Nat /\ v.d \in Nat /\ top.n \in Nat /\ top.d \in Nat
      /\ x.n \in Nat /\ x.d \in Nat /\ v.d > 0 /\ top.d > 0 /\ x.d > 0
  BY DEF Fraction, Finite
<1>2. \A a, b \in Nat : a * b \in Nat /\ a * b = b * a /\ (a * b > 0 <=> a > 0 /\ b > 0)
  OBVIOUS
<1>3. x.n * top.d <= top.n * x.d
  BY <1>1, <1>2 DEF Less
<1>4. top.n > 0
  <2>1. x.n * top.d > 0
    BY <1>1, <1>2
  <2>2. x.n * top.d \in Nat /\ top.n * x.d \in Nat
    BY <1>1, <1>2
  <2>3. top.n * x.d > 0
    BY <1>3, <2>1, <2>2
  <2> QED BY <1>1, <1>2, <2>3
<1>5. Less(Over(0, 1), top)
  BY <1>1, <1>4 DEF Less, Over, Finite
<1>6. /\ Ratio(v, top).n = v.n * top.d /\ Ratio(v, top).d = v.d * top.n
      /\ Ratio(v, x).n = v.n * x.d /\ Ratio(v, x).d = v.d * x.n
  BY DEF Ratio, Times, Over
<1>7. \A a, b, c, d \in Nat : (a * b) * (c * d) = (a * c) * (d * b)
  OBVIOUS
<1>8. /\ (v.n * x.d) * (v.d * top.n) = (v.n * v.d) * (top.n * x.d)
      /\ (v.n * top.d) * (v.d * x.n) = (v.n * v.d) * (x.n * top.d)
  BY <1>1, <1>7
<1>9. \A a, b, c \in Nat : a <= b => c * a <= c * b
  OBVIOUS
<1>10. (v.n * v.d) * (x.n * top.d) <= (v.n * v.d) * (top.n * x.d)
  BY <1>1, <1>2, <1>3, <1>9
<1>11. ~((v.n * x.d) * (v.d * top.n) < (v.n * top.d) * (v.d * x.n))
  <2>1. /\ (v.n * v.d) * (x.n * top.d) \in Nat /\ (v.n * v.d) * (top.n * x.d) \in Nat
    BY <1>1, <1>2
  <2> QED BY <1>8, <1>10, <2>1
<1> QED BY <1>4, <1>5, <1>6, <1>11, RatioFacts DEF Less

-----------------------------------------------------------------------------
(* The drawdown.                                                           *)

(* The points that are numbers come first.                                 *)
NumbersFirst ==
  /\ \A i, j \in DOMAIN equity_curve :
       i <= j /\ Finite(equity_curve[j]) => Finite(equity_curve[i])
  /\ \A i \in DOMAIN equity_curve :
       kind # "correlation" /\ Finite(equity) => Finite(equity_curve[i])
  /\ \A i \in DOMAIN equity_curve : kind = "correlation" => Finite(equity_curve[i])

(* The peak is one of the points seen, none of them is above it, and it is *)
(* a number if one of them is.                                             *)
PeakInv ==
  /\ seen > 0 => \E i \in 1..seen : peak = equity_curve[i]
  /\ \A i \in 1..seen : ~Less(peak, equity_curve[i])
  /\ \A i \in 1..seen : Finite(equity_curve[i]) => Finite(peak)

(* The drawdown is the least of the ratios of a point to an earlier one.   *)
DeepestInv ==
  /\ Finite(max_drawdown)
  /\ \A i, j \in 1..seen : i <= j => ~Less(Ratio(equity_curve[j], equity_curve[i]), max_drawdown)
  /\ \/ max_drawdown = One
     \/ \E i, j \in 1..seen : i <= j /\ Ratio(equity_curve[j], equity_curve[i]) = max_drawdown

DrawdownInv == NumbersFirst /\ PeakInv /\ DeepestInv

LEMMA InitDrawdown == Init => DrawdownInv
  BY FractionFacts DEF Init, DrawdownInv, NumbersFirst, PeakInv, DeepestInv

(* A loop over the prices leaves the drawdown alone and the points that    *)
(* have been seen as they are.                                             *)
LEMMA CurveGrows ==
  ASSUME TypeOK, DrawdownInv, NEW e \in Fraction, next <= Len(prices),
         equity_curve' = Append(equity_curve, e), next' = next + 1,
         UNCHANGED <<kind, prices, seen, peak, max_drawdown>>,
         \/ /\ kind = "correlation" /\ Finite(e)
         \/ /\ kind # "correlation" /\ equity' = e /\ (Finite(e) => Finite(equity))
  PROVE  DrawdownInv'
<1>1. /\ equity_curve \in Seq(Fraction) /\ Len(equity_curve) \in Nat
      /\ DOMAIN equity_curve = 1..Len(equity_curve) /\ seen \in Nat /\ seen <= Len(equity_curve)
  BY DEF TypeOK
<1>2. /\ DOMAIN equity_curve' = 1..(Len(equity_curve) + 1)
      /\ \A i \in DOMAIN equity_curve : i \in DOMAIN equity_curve' /\ equity_curve'[i] = equity_curve[i]
      /\ \A i \in DOMAIN equity_curve' : i \in DOMAIN equity_curve \/ equity_curve'[i] = e
      /\ \A i, j \in DOMAIN equity_curve' : i <= j /\ j \in DOMAIN equity_curve => i \in DOMAIN equity_curve
  BY <1>1
<1>3. NumbersFirst'
  BY <1>2 DEF DrawdownInv, NumbersFirst
<1>4. \A i \in 1..seen : i \in DOMAIN equity_curve /\ equity_curve'[i] = equity_curve[i]
  BY <1>1, <1>2
<1>5. PeakInv'
  BY <1>4 DEF DrawdownInv, PeakInv
<1>6. DeepestInv'
  BY <1>4 DEF DrawdownInv, DeepestInv
<1> QED BY <1>3, <1>5, <1>6 DEF DrawdownInv

(* The peak after one more point.                                          *)
LEMMA PeakGrows ==
  ASSUME TypeOK, NumbersFirst, PeakInv, Drawdown
  PROVE  PeakInv' /\ peak' \in Fraction
<1> DEFINE v == equity_curve[seen + 1]
<1>1. /\ seen < Len(equity_curve) /\ seen' = seen + 1 /\ UNCHANGED equity_curve
      /\ peak' = IF seen = 0 THEN v ELSE Higher(v)
  BY DEF Drawdown
<1>2. /\ seen \in Nat /\ Len(equity_curve) \in Nat /\ peak \in Fraction
      /\ DOMAIN equity_curve = 1..Len(equity_curve)
      /\ \A i \in DOMAIN equity_curve : equity_curve[i] \in Fraction
  BY DEF TypeOK
<1>3. /\ \A i \in 1..(seen + 1) : i \in DOMAIN equity_curve /\ (i \in 1..seen \/ i = seen + 1)
      /\ \A i \in 1..seen : i \in 1..(seen + 1)
      /\ seen + 1 \in 1..(seen + 1) /\ seen + 1 > 0 /\ seen + 1 \in DOMAIN equity_curve
  BY <1>1, <1>2
<1>4. v \in Fraction
  BY <1>2, <1>3
<1>5. \A x \in Fraction : ~Less(x, x)
  BY LessAsymmetric
<1>6. CASE seen = 0
  <2>1. peak' = v /\ \A i \in 1..(seen + 1) : i = seen + 1
    BY <1>1, <1>6
  <2> QED BY <1>1, <1>3, <1>4, <1>5, <2>1 DEF PeakInv
<1>7. CASE seen # 0 /\ Less(peak, v)
  <2>1. peak' = v /\ Finite(v) /\ Finite(peak) /\ ~Less(v, peak)
    BY <1>1, <1>2, <1>4, <1>7, LessAsymmetric DEF Higher
  <2>2. ASSUME NEW i \in 1..seen
        PROVE  ~Less(v, equity_curve[i])
    <3>1. equity_curve[i] \in Fraction /\ ~Less(peak, equity_curve[i])
      BY <1>2, <1>3 DEF PeakInv
    <3> QED BY <1>2, <1>4, <2>1, <3>1, LessTransitive
  <2> QED BY <1>1, <1>3, <1>4, <1>5, <2>1, <2>2 DEF PeakInv
<1>8. CASE seen # 0 /\ ~Less(peak, v)
  <2>1. peak' = peak /\ seen > 0 /\ 1 \in 1..seen /\ 1 <= seen + 1
    BY <1>1, <1>2, <1>8 DEF Higher
  <2>2. Finite(v) => Finite(peak)
    <3>1. Finite(v) => Finite(equity_curve[1])
      BY <1>3, <2>1 DEF NumbersFirst
    <3> QED BY <2>1, <3>1 DEF PeakInv
  <2> QED BY <1>1, <1>2, <1>3, <1>8, <2>1, <2>2 DEF PeakInv
<1> QED BY <1>6, <1>7, <1>8

(* The drawdown after one more point.                                      *)
LEMMA DrawdownGrows ==
  ASSUME TypeOK, NumbersFirst, PeakInv, DeepestInv, Drawdown
  PROVE  DeepestInv'
<1> DEFINE v == equity_curve[seen + 1]
           r == Ratio(v, peak')
           d == max_drawdown
           dd == max_drawdown'
<1>1. /\ seen < Len(equity_curve) /\ seen' = seen + 1 /\ UNCHANGED equity_curve
      /\ dd = IF Less(Over(0, 1), peak') /\ Less(r, d) THEN r ELSE d
  BY DEF Drawdown, Deeper, Ratio
<1>2. /\ seen \in Nat /\ Len(equity_curve) \in Nat /\ d \in Fraction
      /\ DOMAIN equity_curve = 1..Len(equity_curve)
      /\ \A i \in DOMAIN equity_curve : equity_curve[i] \in Fraction
  BY DEF TypeOK
<1>3. /\ \A i \in 1..(seen + 1) : i \in DOMAIN equity_curve /\ (i \in 1..seen \/ i = seen + 1)
      /\ \A i \in 1..seen : i \in 1..(seen + 1) /\ i <= seen + 1 /\ ~(seen + 1 <= i)
      /\ seen + 1 \in 1..(seen + 1) /\ seen + 1 <= seen + 1
  BY <1>1, <1>2
<1>4. PeakInv' /\ peak' \in Fraction
  BY PeakGrows
<1>5. v \in Fraction /\ r \in Fraction
  BY <1>2, <1>3, <1>4, RatioFacts
<1>6. PICK top \in 1..(seen + 1) : peak' = equity_curve[top]
  <2>1. seen' > 0 /\ seen' = seen + 1
    BY <1>1, <1>2
  <2> QED BY <1>1, <1>4, <2>1 DEF PeakInv
<1>7. \A i \in 1..(seen + 1) : ~Less(peak', equity_curve[i]) /\ (Finite(equity_curve[i]) => Finite(peak'))
  BY <1>1, <1>4 DEF PeakInv
<1>8. Finite(d) /\ Finite(dd) /\ dd \in Fraction
  BY <1>1, <1>2, <1>5, LessAsymmetric DEF DeepestInv
<1> HIDE DEF r
<1>9. ASSUME NEW x \in Fraction, ~Less(x, d) PROVE ~Less(x, dd)
  <2>1. CASE dd = d
    BY <1>9, <2>1
  <2>2. CASE dd = r /\ Less(r, d)
    <3>1. ~Less(d, r)
      BY <1>2, <1>5, <2>2, LessAsymmetric
    <3> QED BY <1>2, <1>5, <1>8, <1>9, <2>2, <3>1, LessTransitive
  <2> QED BY <1>1, <2>1, <2>2
<1>10. ASSUME NEW i \in 1..(seen + 1)
       PROVE  ~Less(Ratio(v, equity_curve[i]), dd)
  <2> DEFINE x == equity_curve[i]
  <2>1. x \in Fraction /\ Ratio(v, x) \in Fraction
    BY <1>2, <1>3, <1>5, RatioFacts
  <2>2. CASE ~Finite(Ratio(v, x))
    BY <2>2 DEF Less
  <2>3. CASE Finite(Ratio(v, x))
    <3>1. Finite(v) /\ x.n > 0
      BY <1>5, <2>1, <2>3, RatioFacts
    <3>2. Finite(x)
      <4>1. i \in DOMAIN equity_curve /\ seen + 1 \in DOMAIN equity_curve /\ i <= seen + 1
        BY <1>2, <1>3
      <4> QED BY <3>1, <4>1 DEF NumbersFirst
    <3>3. Finite(peak') /\ ~Less(peak', x)
      BY <1>7, <3>2
    <3>4. Less(Over(0, 1), peak') /\ Finite(r) /\ ~Less(Ratio(v, x), r)
      BY <1>4, <1>5, <2>1, <3>1, <3>2, <3>3, RatioToPeak DEF r
    <3>5. ~Less(r, dd)
      <4>1. CASE Less(r, d)
        BY <1>1, <1>5, <3>4, <4>1, LessAsymmetric
      <4>2. CASE ~Less(r, d)
        BY <1>5, <1>9, <4>2
      <4> QED BY <4>1, <4>2
    <3> QED BY <1>5, <1>8, <2>1, <3>4, <3>5, LessTransitive
  <2> QED BY <2>2, <2>3
<1>11. ASSUME NEW i \in 1..(seen + 1), NEW j \in 1..(seen + 1), i <= j
       PROVE  ~Less(Ratio(equity_curve[j], equity_curve[i]), dd)
  <2>1. CASE j = seen + 1
    BY <1>10, <2>1
  <2>2. CASE j \in 1..seen
    <3>1. i \in 1..seen
      BY <1>3, <1>11, <2>2
    <3>2. ~Less(Ratio(equity_curve[j], equity_curve[i]), d)
      BY <1>11, <2>2, <3>1 DEF DeepestInv
    <3>3. Ratio(equity_curve[j], equity_curve[i]) \in Fraction
      BY <1>2, <1>3, RatioFacts
    <3> QED BY <1>9, <3>2, <3>3
  <2> QED BY <1>3, <2>1, <2>2
<1>12. \/ dd = One
       \/ \E i, j \in 1..(seen + 1) : i <= j /\ Ratio(equity_curve[j], equity_curve[i]) = dd
  <2>1. CASE dd = r
    <3>1. top <= seen + 1 /\ Ratio(equity_curve[seen + 1], equity_curve[top]) = dd
      BY <1>2, <1>6, <2>1 DEF r
    <3> QED BY <1>3, <1>6, <3>1
  <2>2. CASE dd = d
    BY <1>3, <2>2 DEF DeepestInv
  <2> QED BY <1>1, <2>1, <2>2
<1> QED BY <1>1, <1>8, <1>11, <1>12 DEF DeepestInv, Ratio, Finite, Less, Times, Over, One

LEMMA NextDrawdown == BacktestInv /\ DrawdownInv /\ [Next]_vars => DrawdownInv'
<1> SUFFICES ASSUME BacktestInv, DrawdownInv, [Next]_vars PROVE DrawdownInv'
  OBVIOUS
<1>0. TypeOK /\ WindowIsSuffix /\ equity \in Fraction
  BY DEF BacktestInv, TypeOK
<1>1. CASE MovingAverage
  <2> DEFINE g == Growth(Slide(prices[next]), prices[next])
  <2>1. /\ kind = "ma_cross" /\ next <= Len(prices) /\ equity' = Times(equity, g)
        /\ equity_curve' = Append(equity_curve, equity') /\ next' = next + 1
        /\ UNCHANGED <<kind, prices, seen, peak, max_drawdown>>
    BY <1>1 DEF MovingAverage, input
  <2>2. g \in Fraction
    BY <1>0, <2>1, GrowthFacts
  <2> HIDE DEF g
  <2>3. PICK e \in Fraction : e = equity'
    BY <1>0, <2>1, <2>2, TimesFacts
  <2>4. Finite(e) => Finite(equity)
    BY <1>0, <2>1, <2>2, <2>3, TimesFinite
  <2> QED BY <1>0, <2>1, <2>3, <2>4, CurveGrows
<1>2. CASE Volatility
  <2>1. /\ kind = "volatility" /\ next <= Len(prices) /\ equity' = Times(equity, LastGrowth)
        /\ equity_curve' = Append(equity_curve, equity') /\ next' = next + 1
        /\ UNCHANGED <<kind, prices, seen, peak, max_drawdown>>
    BY <1>2 DEF Volatility, input
  <2>2. PICK e \in Fraction : e = equity'
    BY <1>0, <2>1, LastGrowthFacts, TimesFacts
  <2>3. Finite(e) => Finite(equity)
    BY <1>0, <2>1, <2>2, LastGrowthFacts, TimesFinite
  <2> QED BY <1>0, <2>1, <2>2, <2>3, CurveGrows
<1>3. CASE Correlation
  <2>1. /\ kind = "correlation" /\ next <= Len(prices)
        /\ equity_curve' = Append(equity_curve, One) /\ next' = next + 1
        /\ UNCHANGED <<kind, prices, seen, peak, max_drawdown>>
    BY <1>3 DEF Correlation, input
  <2> QED BY <1>0, <2>1, FractionFacts, CurveGrows
<1>4. CASE Drawdown
  <2>1. PeakInv' /\ DeepestInv'
    BY <1>0, <1>4, PeakGrows, DrawdownGrows DEF DrawdownInv
  <2>2. UNCHANGED <<kind, equity, equity_curve>>
    BY <1>4 DEF Drawdown, input
  <2> QED BY <2>1, <2>2 DEF DrawdownInv, NumbersFirst
<1>5. CASE UNCHANGED vars
  BY <1>5 DEF vars, input, DrawdownInv, NumbersFirst, PeakInv, DeepestInv
<1> QED BY <1>1, <1>2, <1>3, <1>4, <1>5 DEF Next

(* The maximum drawdown is the deepest fall from a point of the curve to a *)
(* later one or to itself, for curves of every length: one pass that keeps *)
(* a peak finds what the pairs of points define.                           *)
THEOREM DeepestFound == Spec => []DrawdownIsDeepest
<1>1. DrawdownInv => DrawdownIsDeepest
  <2> SUFFICES ASSUME DrawdownInv PROVE DrawdownIsDeepest
    OBVIOUS
  <2> DEFINE fall(i, j) == Times(equity_curve[j], Over(equity_curve[i].d, equity_curve[i].n))
             pairs == {p \in (1..seen) \X (1..seen) : p[1] <= p[2]}
  <2>1. \A i, j : fall(i, j) = Ratio(equity_curve[j], equity_curve[i])
    BY DEF Ratio
  <2> HIDE DEF fall
  <2>2. \A p \in pairs : ~Less(fall(p[1], p[2]), max_drawdown)
    BY <2>1 DEF DrawdownInv, DeepestInv
  <2>3. ~Less(One, One)
    BY FractionFacts, LessAsymmetric
  <2>4. \/ ~Less(max_drawdown, One) /\ ~Less(One, max_drawdown)
        \/ \E p \in pairs : fall(p[1], p[2]) = max_drawdown
    <3>1. CASE max_drawdown = One
      BY <2>3, <3>1
    <3>2. CASE \E i, j \in 1..seen : i <= j /\ Ratio(equity_curve[j], equity_curve[i]) = max_drawdown
      <4>1. PICK i \in 1..seen, j \in 1..seen :
              i <= j /\ Ratio(equity_curve[j], equity_curve[i]) = max_drawdown
        BY <3>2
      <4>2. fall(i, j) = max_drawdown
        BY <2>1, <4>1
      <4> DEFINE p == <<i, j>>
      <4>3. p \in pairs /\ p[1] = i /\ p[2] = j
        BY <4>1
      <4> HIDE DEF pairs, p
      <4>4. fall(p[1], p[2]) = max_drawdown
        BY <4>2, <4>3
      <4> QED BY <4>3, <4>4
    <3> QED BY <3>1, <3>2 DEF DrawdownInv, DeepestInv
  <2> QED BY <2>2, <2>4 DEF DrawdownIsDeepest, fall
<1>2. Init => DrawdownInv
  BY InitDrawdown
<1>3. BacktestInv /\ DrawdownInv /\ [Next]_vars => DrawdownInv'
  BY NextDrawdown
<1> QED BY <1>1, <1>2, <1>3, BacktestInvariant, PTL DEF Spec

-----------------------------------------------------------------------------
(* Induction, said of sets: what holds is the set of those it holds for.   *)

LEMMA LeastNat ==
  ASSUME NEW T, T \subseteq Nat, T # {}
  PROVE  \E x \in T : \A y \in T : x <= y
<1> DEFINE R == {ss \in Nat \X Nat : ss[1] < ss[2]}
<1>1. IsWellFoundedOn(R, Nat)
  BY NatLessThanWellFounded DEF OpToRel
<1>2. \A x, y \in Nat : <<y, x>> \in R <=> y < x
  OBVIOUS
<1> HIDE DEF R
<1>3. \E x \in T : \A y \in T : ~(<<y, x>> \in R)
  BY <1>1, WFMin
<1>4. PICK x \in T : \A y \in T : ~(<<y, x>> \in R)
  BY <1>3
<1>5. ASSUME NEW y \in T PROVE x <= y
  <2>1. x \in Nat /\ y \in Nat
    OBVIOUS
  <2>2. ~(y < x)
    BY <1>2, <1>4, <2>1
  <2> QED BY <2>1, <2>2
<1> QED BY <1>5

LEMMA CountUp ==
  ASSUME NEW X, 0 \in X, \A n \in Nat : n \in X => n + 1 \in X
  PROVE  Nat \subseteq X
<1> SUFFICES ASSUME Nat \ X # {} PROVE FALSE
  OBVIOUS
<1> DEFINE T == Nat \ X
<1>1. PICK x \in T : \A y \in T : x <= y
  <2>1. T \subseteq Nat /\ T # {}
    OBVIOUS
  <2> HIDE DEF T
  <2> QED BY <2>1, LeastNat
<1>2. x # 0 /\ x - 1 \in Nat /\ ~(x <= x - 1) /\ x - 1 + 1 = x
  BY <1>1
<1>3. x - 1 \in X
  BY <1>1, <1>2
<1> QED BY <1>1, <1>2, <1>3

(* A set of subsets of a finite set has them all if it has each of which   *)
(* it has those with an element less.                                      *)
LEMMA BuildUp ==
  ASSUME NEW S, IsFiniteSet(S), NEW X,
         \A t \in SUBSET S : (\A x \in t : t \ {x} \in X) => t \in X
  PROVE  SUBSET S \subseteq X
<1> DEFINE Left == {t \in SUBSET S : t \notin X}
           T == {Cardinality(t) : t \in Left}
<1> SUFFICES ASSUME Left # {} PROVE FALSE
  OBVIOUS
<1>1. ASSUME NEW t \in SUBSET S
      PROVE  /\ IsFiniteSet(t) /\ Cardinality(t) \in Nat
             /\ \A x \in t : Cardinality(t \ {x}) = Cardinality(t) - 1
  <2>1. IsFiniteSet(t)
    BY FS_Subset
  <2> QED BY <2>1, FS_CardinalityType, FS_RemoveElement
<1>2. T \subseteq Nat /\ T # {}
  BY <1>1
<1>3. PICK n \in T : \A m \in T : n <= m
  <2> HIDE DEF T
  <2> QED BY <1>2, LeastNat
<1>4. PICK t \in Left : n = Cardinality(t)
  BY <1>3
<1>5. ASSUME NEW x \in t PROVE t \ {x} \in X
  <2>1. Cardinality(t \ {x}) = n - 1 /\ n \in Nat /\ ~(n <= n - 1)
    BY <1>1, <1>4
  <2>2. Cardinality(t \ {x}) \notin T
    BY <1>3, <2>1
  <2> QED BY <1>4, <2>2
<1> QED BY <1>4, <1>5

-----------------------------------------------------------------------------
(* Folds of natural numbers over a finite set.                             *)

(* An operation on numbers that may be applied in any order.               *)
AnyOrder(op) ==
  /\ op \in [Nat \X Nat -> Nat]
  /\ \A a, b, c \in Nat : op[<<a, op[<<b, c>>]>>] = op[<<b, op[<<a, c>>]>>]

Plus == [p \in Nat \X Nat |-> p[1] + p[2]]
Product == [p \in Nat \X Nat |-> p[1] * p[2]]

(* The element a fold takes first.                                         *)
First(s) == CHOOSE x \in s : TRUE

(* What f is on a family of sets closed under the removal of that element. *)
FoldsOn(op, base, fun, D, f) ==
  /\ f \in [D -> Nat]
  /\ \A s \in D : f[s] = IF s = {} THEN base ELSE op[<<fun[First(s)], f[s \ {First(s)}]>>]

LEMMA FirstIn == \A s : s # {} => First(s) \in s
  BY DEF First

LEMMA OperationFacts ==
  /\ AnyOrder(Plus) /\ AnyOrder(Product)
  /\ \A a, b \in Nat : Plus[<<a, b>>] = a + b /\ Product[<<a, b>>] = a * b
<1>1. \A a, b \in Nat : Plus[<<a, b>>] = a + b /\ Product[<<a, b>>] = a * b
  BY DEF Plus, Product
<1>2. Plus \in [Nat \X Nat -> Nat] /\ Product \in [Nat \X Nat -> Nat]
  <2>1. \A p \in Nat \X Nat : p[1] + p[2] \in Nat /\ p[1] * p[2] \in Nat
    OBVIOUS
  <2> QED BY <2>1 DEF Plus, Product
<1>3. \A a, b \in Nat : a + b \in Nat /\ a * b \in Nat
  OBVIOUS
<1>4. \A a, b, c \in Nat : a + (b + c) = b + (a + c)
  OBVIOUS
<1>5. \A a, b, c \in Nat : a * (b * c) = b * (a * c)
  OBVIOUS
<1> QED BY <1>1, <1>2, <1>3, <1>4, <1>5 DEF AnyOrder

(* There is such a function on the subsets of a finite set.                *)
LEMMA FoldExists ==
  ASSUME NEW S, IsFiniteSet(S), NEW op, AnyOrder(op), NEW base \in Nat,
         NEW fun, \A x \in S : fun[x] \in Nat
  PROVE  \E f : FoldsOn(op, base, fun, SUBSET S, f)
<1> DEFINE D(n) == {s \in SUBSET S : Cardinality(s) <= n}
           X == {n \in Nat : \E f : FoldsOn(op, base, fun, D(n), f)}
<1>1. ASSUME NEW s \in SUBSET S
      PROVE  /\ Cardinality(s) \in Nat /\ (Cardinality(s) = 0 <=> s = {})
             /\ s # {} => Cardinality(s \ {First(s)}) = Cardinality(s) - 1
  <2>1. IsFiniteSet(s)
    BY FS_Subset
  <2> QED BY <2>1, FirstIn, FS_CardinalityType, FS_RemoveElement, FS_EmptySet
<1>2. 0 \in X
  <2> DEFINE f == [s \in D(0) |-> base]
  <2>1. ASSUME NEW s \in D(0) PROVE s = {}
    <3>1. s \in SUBSET S /\ Cardinality(s) <= 0
      OBVIOUS
    <3>2. Cardinality(s) \in Nat /\ (Cardinality(s) = 0 <=> s = {})
      BY <1>1
    <3> QED BY <3>1, <3>2
  <2>2. FoldsOn(op, base, fun, D(0), f)
    BY <2>1 DEF FoldsOn
  <2> QED BY <2>2
<1>3. ASSUME NEW n \in Nat, n \in X PROVE n + 1 \in X
  <2>1. PICK f : FoldsOn(op, base, fun, D(n), f)
    BY <1>3
  <2> DEFINE g == [s \in D(n + 1) |->
                     IF s = {} THEN base ELSE op[<<fun[First(s)], f[s \ {First(s)}]>>]]
  <2>2. ASSUME NEW s \in D(n + 1), s # {}
        PROVE  /\ First(s) \in S /\ s \ {First(s)} \in D(n) /\ s \ {First(s)} \in D(n + 1)
    <3> DEFINE t == s \ {First(s)}
    <3>1. /\ Cardinality(s) \in Nat /\ Cardinality(s) <= n + 1
          /\ Cardinality(t) = Cardinality(s) - 1 /\ t \in SUBSET S
      BY <1>1, <2>2
    <3>2. Cardinality(t) <= n /\ Cardinality(t) <= n + 1
      BY <3>1
    <3> QED BY <2>2, <3>1, <3>2, FirstIn
  <2>3. ASSUME NEW s \in D(n) PROVE s \in D(n + 1)
    <3>1. Cardinality(s) \in Nat /\ Cardinality(s) <= n
      BY <1>1
    <3> QED BY <3>1
  <2> HIDE DEF D
  <2>4. g \in [D(n + 1) -> Nat]
    <3>1. ASSUME NEW s \in D(n + 1)
          PROVE  (IF s = {} THEN base ELSE op[<<fun[First(s)], f[s \ {First(s)}]>>]) \in Nat
      BY <2>1, <2>2 DEF FoldsOn, AnyOrder
    <3> QED BY <3>1
  <2>5. \A s \in D(n) : g[s] = f[s]
    BY <2>1, <2>3 DEF FoldsOn
  <2>6. \A s \in D(n + 1) : g[s] = IF s = {} THEN base ELSE op[<<fun[First(s)], g[s \ {First(s)}]>>]
    BY <2>2, <2>5
  <2>7. FoldsOn(op, base, fun, D(n + 1), g)
    BY <2>4, <2>6 DEF FoldsOn
  <2> HIDE DEF g
  <2> QED BY <2>7
<1>4. Cardinality(S) \in X
  <2> HIDE DEF X
  <2>1. Nat \subseteq X
    BY <1>2, <1>3, CountUp
  <2> QED BY <1>1, <2>1
<1>5. D(Cardinality(S)) = SUBSET S
  BY FS_Subset
<1> QED BY <1>4, <1>5

(* The fold may take any element first.                                    *)
LEMMA FoldTakesAny ==
  ASSUME NEW S, IsFiniteSet(S), NEW op, AnyOrder(op), NEW base \in Nat,
         NEW fun, \A x \in S : fun[x] \in Nat,
         NEW f, FoldsOn(op, base, fun, SUBSET S, f)
  PROVE  \A s \in SUBSET S : \A x \in s : f[s] = op[<<fun[x], f[s \ {x}]>>]
<1> DEFINE X == {s \in SUBSET S : \A x \in s : f[s] = op[<<fun[x], f[s \ {x}]>>]}
<1>1. ASSUME NEW s \in SUBSET S, \A x \in s : s \ {x} \in X PROVE s \in X
  <2> SUFFICES ASSUME NEW x \in s PROVE f[s] = op[<<fun[x], f[s \ {x}]>>]
    OBVIOUS
  <2> DEFINE c == First(s)
  <2>1. c \in s
    BY FirstIn
  <2>2. f[s] = op[<<fun[c], f[s \ {c}]>>]
    BY DEF FoldsOn
  <2> HIDE DEF c
  <2>3. CASE x = c
    BY <2>2, <2>3
  <2>4. CASE x # c
    <3>1. f[s \ {c}] = op[<<fun[x], f[(s \ {c}) \ {x}]>>]
      BY <1>1, <2>1, <2>4
    <3>2. f[s \ {x}] = op[<<fun[c], f[(s \ {x}) \ {c}]>>]
      BY <1>1, <2>1, <2>4
    <3>3. (s \ {c}) \ {x} = (s \ {x}) \ {c} /\ (s \ {x}) \ {c} \in SUBSET S
      OBVIOUS
    <3>4. fun[c] \in Nat /\ fun[x] \in Nat /\ f[(s \ {x}) \ {c}] \in Nat
      BY <2>1, <3>3 DEF FoldsOn
    <3> DEFINE d == f[(s \ {x}) \ {c}]
    <3>5. \A a, b, e \in Nat : op[<<a, op[<<b, e>>]>>] = op[<<b, op[<<a, e>>]>>]
      BY DEF AnyOrder
    <3> HIDE DEF d
    <3>6. op[<<fun[c], op[<<fun[x], d>>]>>] = op[<<fun[x], op[<<fun[c], d>>]>>]
      BY <3>4, <3>5 DEF d
    <3>7. f[s \ {c}] = op[<<fun[x], d>>] /\ f[s \ {x}] = op[<<fun[c], d>>]
      BY <3>1, <3>2, <3>3 DEF d
    <3> QED BY <2>2, <3>6, <3>7
  <2> QED BY <2>3, <2>4
<1>2. SUBSET S \subseteq X
  <2> HIDE DEF X
  <2> QED BY <1>1, BuildUp
<1> QED BY <1>2

Alike(f, D, g, E, S) ==
  SUBSET S \subseteq D /\ SUBSET S \subseteq E /\ \A x \in S : f[x] = g[x]

(* What a fold gives depends on nothing but the values it takes.           *)
LEMMA FoldsAgree ==
  ASSUME NEW S, IsFiniteSet(S), NEW op, NEW base, NEW fun, NEW g, NEW D, NEW E,
         Alike(fun, D, g, E, S),
         NEW f, FoldsOn(op, base, fun, D, f),
         NEW h, FoldsOn(op, base, g, E, h)
  PROVE  f[S] = h[S]
<1> DEFINE X == {s \in SUBSET S : f[s] = h[s]}
<1>1. ASSUME NEW s \in SUBSET S, \A x \in s : s \ {x} \in X PROVE s \in X
  <2>0. s \in D /\ s \in E
    BY DEF Alike
  <2>1. f[s] = IF s = {} THEN base ELSE op[<<fun[First(s)], f[s \ {First(s)}]>>]
    BY <2>0 DEF FoldsOn
  <2>2. h[s] = IF s = {} THEN base ELSE op[<<g[First(s)], h[s \ {First(s)}]>>]
    BY <2>0 DEF FoldsOn
  <2> QED BY <1>1, <2>1, <2>2, FirstIn DEF Alike
<1>2. SUBSET S \subseteq X
  <2> HIDE DEF X
  <2> QED BY <1>1, BuildUp
<1> QED BY <1>2

(* The recursive functions behind a sum and a product are such folds.      *)
SumIter(S, fun) ==
  CHOOSE iter : iter = [s \in SUBSET S |->
    IF s = {} THEN 0 ELSE fun[CHOOSE x \in s : TRUE] + iter[s \ {CHOOSE x \in s : TRUE}]]
ProductIter(S, fun) ==
  CHOOSE iter : iter = [s \in SUBSET S |->
    IF s = {} THEN 1 ELSE fun[CHOOSE x \in s : TRUE] * iter[s \ {CHOOSE x \in s : TRUE}]]

LEMMA SumIterFolds ==
  ASSUME NEW S, IsFiniteSet(S), NEW fun, \A x \in S : fun[x] \in Nat
  PROVE  FoldsOn(Plus, 0, fun, SUBSET S, SumIter(S, fun))
<1> DEFINE Body(s, f) == IF s = {} THEN 0 ELSE fun[First(s)] + f[s \ {First(s)}]
           k == SumIter(S, fun)
<1>1. PICK f : FoldsOn(Plus, 0, fun, SUBSET S, f)
  BY FoldExists, OperationFacts
<1>2. ASSUME NEW s \in SUBSET S, NEW g,
             \A x \in s : g[s \ {x}] \in Nat
      PROVE  /\ Body(s, g) \in Nat
             /\ Body(s, g) = IF s = {} THEN 0 ELSE Plus[<<fun[First(s)], g[s \ {First(s)}]>>]
  <2>1. CASE s = {}
    BY <2>1
  <2>2. CASE s # {}
    <3>1. First(s) \in s /\ fun[First(s)] \in Nat /\ g[s \ {First(s)}] \in Nat
      BY <1>2, <2>2, FirstIn
    <3>2. Plus[<<fun[First(s)], g[s \ {First(s)}]>>] = fun[First(s)] + g[s \ {First(s)}]
      BY <3>1, OperationFacts
    <3> QED BY <2>2, <3>1, <3>2
  <2> QED BY <2>1, <2>2
<1>3. ASSUME NEW s \in SUBSET S PROVE \A x \in s : f[s \ {x}] \in Nat
  BY <1>1 DEF FoldsOn
<1>4. \A s \in SUBSET S : f[s] = Body(s, f)
  BY <1>1, <1>2, <1>3 DEF FoldsOn
<1>5. f = [s \in SUBSET S |-> Body(s, f)]
  BY <1>1, <1>4 DEF FoldsOn
<1>6. k = [s \in SUBSET S |-> Body(s, k)]
  BY <1>5 DEF SumIter, First
<1> HIDE DEF k
<1> DEFINE X == {s \in SUBSET S : k[s] \in Nat}
<1>7. SUBSET S \subseteq X
  <2>1. ASSUME NEW s \in SUBSET S, \A x \in s : s \ {x} \in X PROVE s \in X
    <3>1. Body(s, k) \in Nat
      BY <1>2, <2>1
    <3>2. k[s] = Body(s, k)
      BY <1>6
    <3> QED BY <3>1, <3>2
  <2> HIDE DEF X
  <2> QED BY <2>1, BuildUp
<1>8. \A s \in SUBSET S : k[s] \in Nat /\ k[s] = Body(s, k)
  BY <1>6, <1>7
<1>9. k \in [SUBSET S -> Nat]
  BY <1>6, <1>8
<1>10. \A s \in SUBSET S : k[s] = IF s = {} THEN 0 ELSE Plus[<<fun[First(s)], k[s \ {First(s)}]>>]
  BY <1>2, <1>8
<1>11. FoldsOn(Plus, 0, fun, SUBSET S, k)
  BY <1>9, <1>10 DEF FoldsOn
<1> QED BY <1>11 DEF k

LEMMA ProductIterFolds ==
  ASSUME NEW S, IsFiniteSet(S), NEW fun, \A x \in S : fun[x] \in Nat
  PROVE  FoldsOn(Product, 1, fun, SUBSET S, ProductIter(S, fun))
<1> DEFINE Body(s, f) == IF s = {} THEN 1 ELSE fun[First(s)] * f[s \ {First(s)}]
           k == ProductIter(S, fun)
<1>1. PICK f : FoldsOn(Product, 1, fun, SUBSET S, f)
  BY FoldExists, OperationFacts
<1>2. ASSUME NEW s \in SUBSET S, NEW g,
             \A x \in s : g[s \ {x}] \in Nat
      PROVE  /\ Body(s, g) \in Nat
             /\ Body(s, g) = IF s = {} THEN 1 ELSE Product[<<fun[First(s)], g[s \ {First(s)}]>>]
  <2>1. CASE s = {}
    BY <2>1
  <2>2. CASE s # {}
    <3>1. First(s) \in s /\ fun[First(s)] \in Nat /\ g[s \ {First(s)}] \in Nat
      BY <1>2, <2>2, FirstIn
    <3>2. Product[<<fun[First(s)], g[s \ {First(s)}]>>] = fun[First(s)] * g[s \ {First(s)}]
      BY <3>1, OperationFacts
    <3> QED BY <2>2, <3>1, <3>2
  <2> QED BY <2>1, <2>2
<1>3. ASSUME NEW s \in SUBSET S PROVE \A x \in s : f[s \ {x}] \in Nat
  BY <1>1 DEF FoldsOn
<1>4. \A s \in SUBSET S : f[s] = Body(s, f)
  BY <1>1, <1>2, <1>3 DEF FoldsOn
<1>5. f = [s \in SUBSET S |-> Body(s, f)]
  BY <1>1, <1>4 DEF FoldsOn
<1>6. k = [s \in SUBSET S |-> Body(s, k)]
  BY <1>5 DEF ProductIter, First
<1> HIDE DEF k
<1> DEFINE X == {s \in SUBSET S : k[s] \in Nat}
<1>7. SUBSET S \subseteq X
  <2>1. ASSUME NEW s \in SUBSET S, \A x \in s : s \ {x} \in X PROVE s \in X
    <3>1. Body(s, k) \in Nat
      BY <1>2, <2>1
    <3>2. k[s] = Body(s, k)
      BY <1>6
    <3> QED BY <3>1, <3>2
  <2> HIDE DEF X
  <2> QED BY <2>1, BuildUp
<1>8. \A s \in SUBSET S : k[s] \in Nat /\ k[s] = Body(s, k)
  BY <1>6, <1>7
<1>9. k \in [SUBSET S -> Nat]
  BY <1>6, <1>8
<1>10. \A s \in SUBSET S : k[s] = IF s = {} THEN 1 ELSE Product[<<fun[First(s)], k[s \ {First(s)}]>>]
  BY <1>2, <1>8
<1>11. FoldsOn(Product, 1, fun, SUBSET S, k)
  BY <1>9, <1>10 DEF FoldsOn
<1> QED BY <1>11 DEF k

(* Sums and products over finite sets of numbers.                          *)
LEMMA SumFacts ==
  ASSUME NEW S, IsFiniteSet(S), NEW fun, \A x \in S : fun[x] \in Nat
  PROVE  /\ SumFunctionOnSet(fun, S) \in Nat
         /\ S = {} => SumFunctionOnSet(fun, S) = 0
         /\ \A x \in S : SumFunctionOnSet(fun, S) = fun[x] + SumFunctionOnSet(fun, S \ {x})
<1> DEFINE k == SumIter(S, fun)
<1>1. \A T : SumFunctionOnSet(fun, T) = SumIter(T, fun)[T]
  BY DEF SumFunctionOnSet, FoldFunctionOnSet, MapThenFoldSet, SumIter
<1>2. FoldsOn(Plus, 0, fun, SUBSET S, k)
  BY SumIterFolds
<1>3. k[S] \in Nat /\ (S = {} => k[S] = 0)
  BY <1>2 DEF FoldsOn
<1>4. ASSUME NEW x \in S PROVE k[S] = fun[x] + SumFunctionOnSet(fun, S \ {x})
  <2> DEFINE T == S \ {x}
  <2>1. IsFiniteSet(T) /\ T \subseteq S
    BY FS_RemoveElement
  <2>2. FoldsOn(Plus, 0, fun, SUBSET T, SumIter(T, fun))
    BY <2>1, SumIterFolds
  <2> DEFINE h == SumIter(T, fun)
  <2> HIDE DEF k, h, T
  <2>3. h[T] = k[T]
    <3>1. FoldsOn(Plus, 0, fun, SUBSET T, h)
      BY <2>2 DEF h
    <3> DEFINE D == SUBSET T
               E == SUBSET S
    <3>2. Alike(fun, D, fun, E, T)
      BY <2>1 DEF Alike
    <3> HIDE DEF D, E
    <3>3. FoldsOn(Plus, 0, fun, D, h) /\ FoldsOn(Plus, 0, fun, E, k)
      BY <1>2, <3>1 DEF D, E
    <3> QED BY <2>1, <3>2, <3>3, FoldsAgree
  <2>4. k[S] = Plus[<<fun[x], k[T]>>]
    <3>1. AnyOrder(Plus) /\ 0 \in Nat
      BY OperationFacts
    <3>2. \A s \in SUBSET S : \A y \in s : k[s] = Plus[<<fun[y], k[s \ {y}]>>]
      BY <1>2, <3>1, FoldTakesAny
    <3> QED BY <3>2 DEF T
  <2>5. k[T] \in Nat /\ fun[x] \in Nat
    BY <1>2, <2>1 DEF FoldsOn
  <2>6. SumFunctionOnSet(fun, T) = h[T]
    BY <1>1 DEF h
  <2> QED BY <2>3, <2>4, <2>5, <2>6, OperationFacts DEF T
<1> QED BY <1>1, <1>3, <1>4

Prod(fun) == FoldFunction(LAMBDA a, b : a * b, 1, fun)
Without(fun, x, g) == DOMAIN g = DOMAIN fun \ {x} /\ \A y \in DOMAIN g : g[y] = fun[y]

LEMMA ProdFacts ==
  ASSUME NEW S, IsFiniteSet(S), NEW fun, DOMAIN fun = S, \A x \in S : fun[x] \in Nat
  PROVE  /\ Prod(fun) \in Nat
         /\ S = {} => Prod(fun) = 1
         /\ \A x \in S : \A g : Without(fun, x, g) => Prod(fun) = fun[x] * Prod(g)
<1> DEFINE k == ProductIter(S, fun)
<1>1. \A g : Prod(g) = ProductIter(DOMAIN g, g)[DOMAIN g]
  BY DEF Prod, FoldFunction, FoldFunctionOnSet, MapThenFoldSet, ProductIter
<1>2. FoldsOn(Product, 1, fun, SUBSET S, k)
  BY ProductIterFolds
<1>3. k[S] \in Nat /\ (S = {} => k[S] = 1)
  BY <1>2 DEF FoldsOn
<1>4. ASSUME NEW x \in S, NEW g, Without(fun, x, g)
      PROVE  k[S] = fun[x] * Prod(g)
  <2> DEFINE T == S \ {x}
  <2>0. DOMAIN g = T /\ \A y \in T : g[y] = fun[y]
    BY <1>4 DEF Without
  <2>1. IsFiniteSet(T) /\ T \subseteq S
    BY FS_RemoveElement
  <2>2. FoldsOn(Product, 1, g, SUBSET T, ProductIter(T, g))
    <3>1. \A y \in T : g[y] \in Nat
      BY <2>0
    <3> QED BY <2>1, <3>1, ProductIterFolds
  <2> DEFINE h == ProductIter(T, g)
  <2>3. Alike(g, SUBSET T, fun, SUBSET S, T)
    BY <2>0, <2>1 DEF Alike
  <2> HIDE DEF k, h, T
  <2>4. h[T] = k[T]
    <3>1. FoldsOn(Product, 1, g, SUBSET T, h)
      BY <2>2 DEF h
    <3> DEFINE D == SUBSET T
               E == SUBSET S
    <3> HIDE DEF D, E
    <3>2. Alike(g, D, fun, E, T)
      BY <2>3 DEF D, E
    <3>3. FoldsOn(Product, 1, g, D, h) /\ FoldsOn(Product, 1, fun, E, k)
      BY <1>2, <3>1 DEF D, E
    <3> QED BY <2>1, <3>2, <3>3, FoldsAgree
  <2>5. k[S] = Product[<<fun[x], k[T]>>]
    <3>1. AnyOrder(Product) /\ 1 \in Nat
      BY OperationFacts
    <3>2. \A s \in SUBSET S : \A y \in s : k[s] = Product[<<fun[y], k[s \ {y}]>>]
      BY <1>2, <3>1, FoldTakesAny
    <3> QED BY <3>2 DEF T
  <2>6. k[T] \in Nat /\ fun[x] \in Nat
    BY <1>2, <2>1 DEF FoldsOn
  <2>7. Prod(g) = h[T]
    BY <1>1, <2>0 DEF h
  <2> QED BY <2>4, <2>5, <2>6, <2>7, OperationFacts
<1>5. Prod(fun) = k[S]
  BY <1>1
<1> HIDE DEF k
<1> QED BY <1>3, <1>4, <1>5

-----------------------------------------------------------------------------
(* The sums of the moving averages.                                        *)

(* A sum over an interval, without its last term.                          *)
LEMMA IntervalSum ==
  ASSUME NEW a \in Int, NEW b \in Int, NEW fun, \A i \in a..b : fun[i] \in Nat
  PROVE  /\ SumFunctionOnSet(fun, a..b) \in Nat
         /\ a > b => SumFunctionOnSet(fun, a..b) = 0
         /\ a <= b => SumFunctionOnSet(fun, a..b) = fun[b] + SumFunctionOnSet(fun, a..(b - 1))
<1> DEFINE S == a..b
<1>1. IsFiniteSet(S)
  BY FS_Interval
<1>2. a > b => S = {}
  OBVIOUS
<1>3. a <= b => b \in S /\ S \ {b} = a..(b - 1)
  OBVIOUS
<1>4. \A x \in S : fun[x] \in Nat
  OBVIOUS
<1> HIDE DEF S
<1>5. /\ SumFunctionOnSet(fun, S) \in Nat
      /\ S = {} => SumFunctionOnSet(fun, S) = 0
      /\ \A x \in S : SumFunctionOnSet(fun, S) = fun[x] + SumFunctionOnSet(fun, S \ {x})
  BY <1>1, <1>4, SumFacts
<1>6. a <= b => SumFunctionOnSet(fun, S) = fun[b] + SumFunctionOnSet(fun, a..(b - 1))
  BY <1>3, <1>5
<1> QED BY <1>2, <1>5, <1>6 DEF S

(* The same terms in another place have the same sum.                      *)
Shifted(w, a, b, g, o) == \A i \in a..b : w[i] \in Nat /\ w[i] = g[i + o]

LEMMA SameSum ==
  ASSUME NEW a \in Int, NEW b \in Int, NEW c \in Int, NEW d \in Int, NEW o \in Int,
         c = a + o, d = b + o, a <= b + 1, NEW w, NEW g, Shifted(w, a, b, g, o)
  PROVE  SumFunctionOnSet(w, a..b) = SumFunctionOnSet(g, c..d)
<1> PICK n \in Nat : n = b - a + 1
  OBVIOUS
<1>0a. a + n - 1 = b /\ a + o + n - 1 = d
  OBVIOUS
<1>0b. \A i \in a..(a + n - 1) : w[i] \in Nat /\ w[i] = g[i + o]
  BY <1>0a DEF Shifted
<1> DEFINE L(m) == SumFunctionOnSet(w, a..(a + m - 1))
           R(m) == SumFunctionOnSet(g, (a + o)..(a + o + m - 1))
           X == {m \in Nat : m <= n => L(m) = R(m)}
<1>1. /\ \A i \in a..(a + n - 1) : w[i] \in Nat
      /\ \A i \in (a + o)..(a + o + n - 1) : g[i] \in Nat
  <2>1. ASSUME NEW i \in (a + o)..(a + o + n - 1) PROVE g[i] \in Nat
    <3>1. i - o \in a..(a + n - 1) /\ (i - o) + o = i
      OBVIOUS
    <3> QED BY <1>0b, <3>1
  <2> QED BY <1>0b, <2>1
<1>2. 0 \in X
  <2>1. L(0) = 0 /\ R(0) = 0
    <3>1. a + 0 - 1 \in Int /\ a > a + 0 - 1 /\ a + o \in Int /\ a + o + 0 - 1 \in Int
          /\ a + o > a + o + 0 - 1 /\ 0 <= n
      OBVIOUS
    <3>2. /\ \A i \in a..(a + 0 - 1) : w[i] \in Nat
          /\ \A i \in (a + o)..(a + o + 0 - 1) : g[i] \in Nat
      OBVIOUS
    <3>3. L(0) = 0
      BY <3>1, <3>2, IntervalSum
    <3>4. R(0) = 0
      BY <3>1, <3>2, IntervalSum
    <3> QED BY <3>3, <3>4
  <2> QED BY <2>1
<1>3. ASSUME NEW m \in Nat, m \in X PROVE m + 1 \in X
  <2> SUFFICES ASSUME m + 1 <= n PROVE L(m + 1) = R(m + 1)
    OBVIOUS
  <2>1. L(m) = R(m) /\ m <= n
    BY <1>3
  <2>2. /\ a + (m + 1) - 1 = a + m /\ a + o + (m + 1) - 1 = a + o + m
        /\ a + m \in Int /\ a <= a + m /\ a + o \in Int /\ a + o + m \in Int /\ a + o <= a + o + m
    OBVIOUS
  <2>3. L(m + 1) = w[a + m] + L(m)
    <3>1. \A i \in a..(a + m) : w[i] \in Nat
      BY <1>1, <2>2
    <3>2. SumFunctionOnSet(w, a..(a + m)) = w[a + m] + SumFunctionOnSet(w, a..(a + m - 1))
      BY <2>2, <3>1, IntervalSum
    <3> QED BY <2>2, <3>2
  <2>4. R(m + 1) = g[a + o + m] + R(m)
    <3>1. \A i \in (a + o)..(a + o + m) : g[i] \in Nat
      BY <1>1, <2>2
    <3>2. SumFunctionOnSet(g, (a + o)..(a + o + m))
            = g[a + o + m] + SumFunctionOnSet(g, (a + o)..(a + o + m - 1))
      BY <2>2, <3>1, IntervalSum
    <3> QED BY <2>2, <3>2
  <2>5. w[a + m] = g[a + o + m]
    <3>1. a + m \in a..(a + n - 1) /\ (a + m) + o = a + o + m
      OBVIOUS
    <3> QED BY <1>0b, <3>1
  <2> HIDE DEF L, R
  <2> QED BY <2>1, <2>3, <2>4, <2>5
<1>4. n \in X
  <2> HIDE DEF X
  <2>1. Nat \subseteq X
    BY <1>2, <1>3, CountUp
  <2> QED BY <2>1
<1> QED BY <1>0a, <1>4

(* The decision of the loop, taken on the window, is the rule said over    *)
(* the series.                                                             *)
LEMMA DecisionIsTheRule ==
  ASSUME TypeOK, WindowIsSuffix, kind = "ma_cross", long >= 2, next <= Len(prices)
  PROVE  Rising(Slide(prices[next]), prices[next]) <=> Holds(next)
<1> DEFINE p == prices[next]
           w == Slide(p)
           l == Len(w)
           from == IF next < long THEN 1 ELSE next - long + 1
           all == SumFunctionOnSet(prices, from..next)
           last == SumFunctionOnSet(prices, (next - short + 1)..next)
<1>1. /\ prices \in Seq(Price) /\ DOMAIN prices = 1..Len(prices) /\ Len(prices) \in Nat
      /\ next \in 1..Len(prices) /\ long \in Nat /\ short \in Nat /\ p \in Nat
      /\ \A i \in DOMAIN prices : prices[i] \in Nat
  BY Bounds DEF TypeOK, Window, Price
<1>2. /\ w \in Seq(Price) /\ l = IF next < long THEN next ELSE long
      /\ \A i \in DOMAIN w : w[i] = prices[next - l + i]
  BY Slides
<1> HIDE DEF w
<1>3. /\ l \in Nat /\ l > 0 /\ w # <<>> /\ DOMAIN w = 1..l
      /\ from = next - l + 1 /\ from \in Nat /\ from > 0 /\ from <= next /\ next - from + 1 = l
  BY <1>1, <1>2
<1>4. \A i \in 1..l : w[i] \in Nat /\ w[i] = prices[i + (next - l)]
  <2> SUFFICES ASSUME NEW i \in 1..l
               PROVE  w[i] \in Nat /\ w[i] = prices[i + (next - l)]
    OBVIOUS
  <2>1. next - l + i = i + (next - l) /\ i + (next - l) \in DOMAIN prices
    BY <1>1, <1>3
  <2> QED BY <1>1, <1>2, <1>3, <2>1
<1>5. SumFunction(w) = all
  <2> DEFINE o == next - l
  <2>1. /\ o \in Int /\ from = 1 + o /\ next = l + o /\ 1 <= l + 1
        /\ 1 \in Int /\ l \in Int /\ from \in Int /\ next \in Int
    BY <1>1, <1>3
  <2>2. Shifted(w, 1, l, prices, o)
    BY <1>4 DEF Shifted
  <2>3. SumFunctionOnSet(w, 1..l) = SumFunctionOnSet(prices, from..next)
    <3> HIDE DEF o, l, from
    <3> QED BY <2>1, <2>2, SameSum
  <2> QED BY <1>3, <2>3 DEF SumFunction
<1>6. ASSUME l >= short
      PROVE  SumFunctionOnSet(w, (l - short + 1)..l) = last
  <2> DEFINE a == l - short + 1
             b == next - short + 1
             o == next - l
  <2>1. /\ o \in Int /\ b = a + o /\ next = l + o /\ a <= l + 1
        /\ a \in Int /\ l \in Int /\ b \in Int /\ next \in Int
        /\ \A i \in a..l : i \in 1..l
    BY <1>1, <1>3, <1>6
  <2>2. Shifted(w, a, l, prices, o)
    BY <1>4, <2>1 DEF Shifted
  <2>3. SumFunctionOnSet(w, a..l) = SumFunctionOnSet(prices, b..next)
    <3> HIDE DEF o, a, b, l
    <3> QED BY <2>1, <2>2, SameSum
  <2> QED BY <2>3
<1>7. all \in Nat
  <2>1. \A i \in from..next : prices[i] \in Nat
    BY <1>1, <1>3
  <2> QED BY <1>1, <1>3, <2>1, IntervalSum
<1>8. short <= next => last \in Nat
  <2> HAVE short <= next
  <2>1. \A i \in (next - short + 1)..next : prices[i] \in Nat
    BY <1>1
  <2>2. next - short + 1 \in Int /\ next \in Int
    BY <1>1
  <2> QED BY <2>1, <2>2, IntervalSum
<1>9. Holds(next) <=> IF short <= next /\ short <= long
                        THEN short > 0 /\ all * short < last * l
                        ELSE all * 1 < p * l
  <2>1. next - (next - short + 1) + 1 = short
    BY <1>1
  <2>2. Mean(from, next) = Over(all, l) /\ Mean(next - short + 1, next) = Over(last, short)
    BY <1>3, <2>1 DEF Mean
  <2>3. short > 0 => (Less(Over(all, l), Over(last, short)) <=> all * short < last * l)
    BY <1>1, <1>3 DEF Less, Over, Finite
  <2>4. Less(Over(all, l), Over(p, 1)) <=> all * 1 < p * l
    BY <1>3 DEF Less, Over, Finite
  <2> HIDE DEF all, last, l
  <2> QED BY <1>1, <2>2, <2>3, <2>4 DEF Holds
<1>10. l >= short <=> short <= next /\ short <= long
  BY <1>1, <1>2
<1>11. Rising(w, p) <=> IF l >= short
                          THEN short > 0 /\ last * l > all * short
                          ELSE p * l > all
  BY <1>3, <1>5, <1>6 DEF Rising
<1>12. Rising(w, p) <=> Holds(next)
  <2> HIDE DEF all, last, l, p
  <2> QED BY <1>1, <1>3, <1>7, <1>8, <1>9, <1>10, <1>11
<1> QED BY <1>12 DEF w

-----------------------------------------------------------------------------
(* The stretches in the market and what they earn.                         *)

StretchesTo(m) ==
  {s \in (1..m) \X (1..m) :
     /\ s[1] < s[2]
     /\ \A k \in s[1]..(s[2] - 1) : Holds(k)
     /\ s[1] = 1 \/ ~Holds(s[1] - 1)
     /\ s[2] = m \/ ~Holds(s[2])}

(* The product of the prices at the starts (1) or the ends (2).            *)
PriceOf(S, i) == [s \in S |-> prices[s[i]]]

(* A point after the rule did not hold changes no stretch.                 *)
LEMMA NoNewStretch ==
  ASSUME NEW m \in Nat, m >= 2, ~Holds(m - 1)
  PROVE  StretchesTo(m) = StretchesTo(m - 1)
<1>1. ASSUME NEW s \in StretchesTo(m) PROVE s \in StretchesTo(m - 1)
  <2>1. /\ s \in (1..m) \X (1..m) /\ s[1] \in Nat /\ s[2] \in Nat /\ s[1] < s[2]
        /\ s[1] >= 1 /\ s[2] <= m
        /\ \A k \in s[1]..(s[2] - 1) : Holds(k)
        /\ s[1] = 1 \/ ~Holds(s[1] - 1)
        /\ s[2] = m \/ ~Holds(s[2])
    BY DEF StretchesTo
  <2>2. s[2] # m
    <3>1. s[2] = m => m - 1 \in s[1]..(s[2] - 1)
      BY <2>1
    <3> QED BY <2>1, <3>1
  <2>3. s \in (1..(m - 1)) \X (1..(m - 1))
    BY <2>1, <2>2
  <2> QED BY <2>1, <2>2, <2>3 DEF StretchesTo
<1>2. ASSUME NEW s \in StretchesTo(m - 1) PROVE s \in StretchesTo(m)
  <2>1. /\ s \in (1..(m - 1)) \X (1..(m - 1)) /\ s[1] < s[2]
        /\ \A k \in s[1]..(s[2] - 1) : Holds(k)
        /\ s[1] = 1 \/ ~Holds(s[1] - 1)
        /\ s[2] = m - 1 \/ ~Holds(s[2])
    BY DEF StretchesTo
  <2>2. s \in (1..m) \X (1..m) /\ ~Holds(s[2])
    BY <2>1
  <2> QED BY <2>1, <2>2 DEF StretchesTo
<1> QED BY <1>1, <1>2

(* A point after the rule held prolongs the last stretch, or opens one.    *)
LEMMA StretchProlonged ==
  ASSUME NEW m \in Nat, m >= 2, Holds(m - 1)
  PROVE  \E a \in 1..(m - 1) :
           /\ <<a, m>> \in StretchesTo(m)
           /\ a = m - 1 => StretchesTo(m - 1) = StretchesTo(m) \ {<<a, m>>}
           /\ a < m - 1 => /\ <<a, m - 1>> \in StretchesTo(m - 1)
                           /\ StretchesTo(m - 1) \ {<<a, m - 1>>} = StretchesTo(m) \ {<<a, m>>}
<1> DEFINE Run == {a \in 1..(m - 1) : \A k \in a..(m - 1) : Holds(k)}
<1>1. m - 1 \in Run
  BY \A k \in (m - 1)..(m - 1) : k = m - 1
<1>2. PICK a \in Run : \A b \in Run : a <= b
  <2>1. Run \subseteq Nat /\ Run # {}
    BY <1>1
  <2> HIDE DEF Run
  <2> QED BY <2>1, LeastNat
<1>3. a \in Nat /\ a >= 1 /\ a <= m - 1 /\ \A k \in a..(m - 1) : Holds(k)
  BY <1>2
<1>4. a = 1 \/ ~Holds(a - 1)
  <2> SUFFICES ASSUME a # 1, Holds(a - 1) PROVE FALSE
    OBVIOUS
  <2>1. \A k \in (a - 1)..(m - 1) : k = a - 1 \/ k \in a..(m - 1)
    BY <1>3
  <2>2. a - 1 \in Run
    BY <1>3, <2>1
  <2> QED BY <1>2, <1>3, <2>2
<1>5. ASSUME NEW b \in Nat, b >= 1, b <= m - 1, \A k \in b..(m - 1) : Holds(k),
             b = 1 \/ ~Holds(b - 1)
      PROVE  b = a
  <2>1. b \in Run /\ a <= b
    BY <1>2, <1>5
  <2>2. b > a => b - 1 \in a..(m - 1) /\ b # 1
    BY <1>3, <1>5
  <2> QED BY <1>3, <1>5, <2>1, <2>2
<1> HIDE DEF Run
<1>6. <<a, m>> \in StretchesTo(m)
  <2>1. <<a, m>> \in (1..m) \X (1..m) /\ a < m
    BY <1>3
  <2> QED BY <1>3, <1>4, <2>1 DEF StretchesTo
<1>7. a < m - 1 => <<a, m - 1>> \in StretchesTo(m - 1)
  <2> HAVE a < m - 1
  <2>1. <<a, m - 1>> \in (1..(m - 1)) \X (1..(m - 1))
    BY <1>3
  <2>2. \A k \in a..((m - 1) - 1) : Holds(k)
    BY <1>3
  <2> QED BY <1>4, <2>1, <2>2 DEF StretchesTo
<1>8. ASSUME NEW s \in StretchesTo(m), s # <<a, m>>
      PROVE  s \in StretchesTo(m - 1) /\ s[2] < m - 1
  <2>1. /\ s \in (1..m) \X (1..m) /\ s[1] \in Nat /\ s[2] \in Nat /\ s[1] < s[2]
        /\ s[1] >= 1 /\ s[2] <= m /\ s = <<s[1], s[2]>>
        /\ \A k \in s[1]..(s[2] - 1) : Holds(k)
        /\ s[1] = 1 \/ ~Holds(s[1] - 1)
        /\ s[2] = m \/ ~Holds(s[2])
    BY DEF StretchesTo
  <2>2. s[2] # m
    <3> SUFFICES ASSUME s[2] = m PROVE FALSE
      OBVIOUS
    <3>1. s[1] = a
      BY <1>5, <2>1
    <3> QED BY <1>8, <2>1, <3>1
  <2>3. s[2] < m - 1 /\ s \in (1..(m - 1)) \X (1..(m - 1))
    BY <2>1, <2>2
  <2> QED BY <2>1, <2>2, <2>3 DEF StretchesTo
<1>9. ASSUME NEW s \in StretchesTo(m - 1)
      PROVE  \/ s = <<a, m - 1>> /\ a < m - 1
             \/ s # <<a, m - 1>> /\ s \in StretchesTo(m) /\ s # <<a, m>>
  <2>1. /\ s \in (1..(m - 1)) \X (1..(m - 1)) /\ s[1] \in Nat /\ s[2] \in Nat /\ s[1] < s[2]
        /\ s[1] >= 1 /\ s[2] <= m - 1 /\ s = <<s[1], s[2]>>
        /\ \A k \in s[1]..(s[2] - 1) : Holds(k)
        /\ s[1] = 1 \/ ~Holds(s[1] - 1)
        /\ s[2] = m - 1 \/ ~Holds(s[2])
    BY DEF StretchesTo
  <2>2. CASE s[2] = m - 1
    <3>1. \A k \in s[1]..(m - 1) : k = m - 1 \/ k \in s[1]..(s[2] - 1)
      BY <2>1, <2>2
    <3>2. s[1] = a
      BY <1>5, <2>1, <2>2, <3>1
    <3> QED BY <2>1, <2>2, <3>2
  <2>3. CASE s[2] # m - 1
    <3>1. s \in (1..m) \X (1..m) /\ s # <<a, m - 1>> /\ s # <<a, m>>
      BY <2>1, <2>3
    <3> QED BY <2>1, <2>3, <3>1 DEF StretchesTo
  <2> QED BY <2>2, <2>3
<1>10. ASSUME a = m - 1 PROVE StretchesTo(m - 1) = StretchesTo(m) \ {<<a, m>>}
  BY <1>8, <1>9, <1>10
<1>11. ASSUME a < m - 1
       PROVE  StretchesTo(m - 1) \ {<<a, m - 1>>} = StretchesTo(m) \ {<<a, m>>}
  <2>1. ASSUME NEW s \in StretchesTo(m), s # <<a, m>>
        PROVE  s # <<a, m - 1>>
    <3>1. s[2] < m - 1
      BY <1>8, <2>1
    <3> QED BY <3>1
  <2> QED BY <1>8, <1>9, <2>1
<1> QED BY <1>3, <1>6, <1>7, <1>10, <1>11

(* The prices of the stretches are numbers, and there are finitely many.   *)
LEMMA StretchPrices ==
  ASSUME TypeOK, NEW m \in Nat, m <= Len(prices), NEW i \in {1, 2}, NEW S, S \subseteq StretchesTo(m)
  PROVE  /\ IsFiniteSet(S) /\ DOMAIN PriceOf(S, i) = S
         /\ \A s \in S : PriceOf(S, i)[s] = prices[s[i]] /\ prices[s[i]] \in Nat
<1>1. /\ prices \in Seq(Price) /\ DOMAIN prices = 1..Len(prices) /\ Len(prices) \in Nat
      /\ \A k \in DOMAIN prices : prices[k] \in Nat
  BY Bounds DEF TypeOK, Price
<1>2. IsFiniteSet(S)
  <2>1. IsFiniteSet(1..m)
    BY FS_Interval
  <2>2. IsFiniteSet((1..m) \X (1..m))
    BY <2>1, FS_Product
  <2>3. S \in SUBSET ((1..m) \X (1..m))
    BY DEF StretchesTo
  <2> QED BY <2>2, <2>3, FS_Subset
<1>3. ASSUME NEW s \in S PROVE prices[s[i]] \in Nat
  <2>1. s \in (1..m) \X (1..m)
    BY DEF StretchesTo
  <2>2. s[i] \in 1..m
    BY <2>1
  <2> QED BY <1>1, <2>2
<1> QED BY <1>2, <1>3 DEF PriceOf

(* A product without one of its stretches.                                 *)
LEMMA WithoutOne ==
  ASSUME TypeOK, NEW m \in Nat, m <= Len(prices), NEW i \in {1, 2}, NEW x \in StretchesTo(m)
  PROVE  /\ Prod(PriceOf(StretchesTo(m), i)) = prices[x[i]] * Prod(PriceOf(StretchesTo(m) \ {x}, i))
         /\ Prod(PriceOf(StretchesTo(m) \ {x}, i)) \in Nat /\ prices[x[i]] \in Nat
<1> DEFINE S == StretchesTo(m)
           R == S \ {x}
           f == PriceOf(S, i)
           g == PriceOf(R, i)
<1>1. /\ IsFiniteSet(S) /\ DOMAIN f = S
      /\ \A s \in S : f[s] = prices[s[i]] /\ prices[s[i]] \in Nat
  BY StretchPrices
<1>2. /\ IsFiniteSet(R) /\ DOMAIN g = R
      /\ \A s \in R : g[s] = prices[s[i]] /\ prices[s[i]] \in Nat
  BY StretchPrices
<1>3. x \in S
  OBVIOUS
<1>4. R = S \ {x}
  OBVIOUS
<1> HIDE DEF S, R, f, g
<1>5. Prod(g) \in Nat
  BY <1>2, ProdFacts
<1>6. Without(f, x, g)
  BY <1>1, <1>2, <1>4 DEF Without
<1>7. Prod(f) = f[x] * Prod(g)
  BY <1>1, <1>3, <1>6, ProdFacts
<1> QED BY <1>1, <1>3, <1>5, <1>7 DEF S, R, f, g

(* The product of the prices at the ends of the stretches up to point m.   *)
EndPrices(m, i) == Prod(PriceOf(StretchesTo(m), i))

(* What is held is what the rule says, and the equity what the stretches   *)
(* so far have earned.                                                     *)
StretchInv ==
  (kind = "ma_cross" /\ long >= 2) =>
    /\ prev_position = 1 <=> Done > 0 /\ Holds(Done)
    /\ Finite(equity) => equity.n * EndPrices(Done, 1) = equity.d * EndPrices(Done, 2)

LEMMA NoStretchYet ==
  ASSUME TypeOK, NEW m \in {0, 1}, m <= Len(prices), NEW i \in {1, 2}
  PROVE  EndPrices(m, i) = 1
<1>1. StretchesTo(m) = {}
  BY DEF StretchesTo
<1> DEFINE f == PriceOf(StretchesTo(m), i)
<1>2. IsFiniteSet({}) /\ DOMAIN f = {}
  BY <1>1, FS_EmptySet DEF PriceOf
<1> HIDE DEF f
<1>3. Prod(f) = 1
  BY <1>2, ProdFacts
<1> QED BY <1>3 DEF EndPrices, f

(* A price that ends one return and starts the next cancels.               *)
Owed(n, d, q, r, P, Q) == (r = q /\ n * P = d * Q) \/ n * (r * P) = d * (q * Q)
Settled(n, d, p, q, r, P, Q) == (n * p) * (r * P) = (d * q) * (p * Q)

LEMMA PriceCancels ==
  ASSUME NEW n \in Nat, NEW d \in Nat, NEW p \in Nat, NEW q \in Nat, NEW r \in Nat,
         NEW P \in Nat, NEW Q \in Nat,
         Owed(n, d, q, r, P, Q)
  PROVE  Settled(n, d, p, q, r, P, Q)
<1>1. (n * p) * (r * P) = p * (n * (r * P)) /\ (d * q) * (p * Q) = p * (d * (q * Q))
  OBVIOUS
<1>2. CASE r = q /\ n * P = d * Q
  <2>1. n * (q * P) = q * (n * P) /\ d * (q * Q) = q * (d * Q)
    OBVIOUS
  <2> QED BY <1>1, <1>2, <2>1 DEF Settled
<1>3. CASE n * (r * P) = d * (q * Q)
  BY <1>1, <1>3 DEF Settled
<1> QED BY <1>2, <1>3 DEF Owed

(* What the stretches earn with one more price.                            *)
LEMMA OneMorePrice ==
  ASSUME TypeOK, NEW m \in Nat, m >= 2, m <= Len(prices),
         NEW e \in Fraction, e.n * EndPrices(m - 1, 1) = e.d * EndPrices(m - 1, 2)
  PROVE  LET g == IF Holds(m - 1) THEN Times(e, Over(prices[m], prices[m - 1])) ELSE e
         IN g.n * EndPrices(m, 1) = g.d * EndPrices(m, 2)
<1>1. /\ e.n \in Nat /\ e.d \in Nat /\ m - 1 \in Nat /\ m - 1 <= Len(prices) /\ m - 1 # m
  BY DEF Fraction
<1>2. CASE ~Holds(m - 1)
  BY <1>2, NoNewStretch DEF EndPrices
<1>3. CASE Holds(m - 1)
  <2>1. PICK a \in 1..(m - 1) :
           /\ <<a, m>> \in StretchesTo(m)
           /\ a = m - 1 => StretchesTo(m - 1) = StretchesTo(m) \ {<<a, m>>}
           /\ a < m - 1 => /\ <<a, m - 1>> \in StretchesTo(m - 1)
                           /\ StretchesTo(m - 1) \ {<<a, m - 1>>} = StretchesTo(m) \ {<<a, m>>}
    BY <1>3, StretchProlonged
  <2> DEFINE x == <<a, m>>
             y == <<a, m - 1>>
             P == Prod(PriceOf(StretchesTo(m) \ {x}, 1))
             Q == Prod(PriceOf(StretchesTo(m) \ {x}, 2))
  <2>2. x[1] = a /\ x[2] = m /\ y[1] = a /\ y[2] = m - 1
    OBVIOUS
  <2>3. /\ EndPrices(m, 1) = prices[x[1]] * P /\ EndPrices(m, 2) = prices[x[2]] * Q
        /\ P \in Nat /\ Q \in Nat /\ prices[x[1]] \in Nat /\ prices[x[2]] \in Nat
    BY <2>1, WithoutOne DEF EndPrices
  <2>4. a = m - 1 => EndPrices(m - 1, 1) = P /\ EndPrices(m - 1, 2) = Q
    BY <2>1 DEF EndPrices
  <2>5. a < m - 1 => EndPrices(m - 1, 1) = prices[y[1]] * P /\ EndPrices(m - 1, 2) = prices[y[2]] * Q
    <3> HAVE a < m - 1
    <3>1. y \in StretchesTo(m - 1) /\ StretchesTo(m - 1) \ {y} = StretchesTo(m) \ {x}
      BY <2>1
    <3>2. PICK l \in Nat : l = m - 1
      BY <1>1
    <3> HIDE DEF x, y
    <3>3. /\ EndPrices(l, 1) = prices[y[1]] * Prod(PriceOf(StretchesTo(l) \ {y}, 1))
          /\ EndPrices(l, 2) = prices[y[2]] * Prod(PriceOf(StretchesTo(l) \ {y}, 2))
      BY <1>1, <3>1, <3>2, WithoutOne DEF EndPrices
    <3> QED BY <3>1, <3>2, <3>3
  <2>6. prices[m - 1] \in Nat
    <3>1. /\ DOMAIN prices = 1..Len(prices) /\ Len(prices) \in Nat
          /\ \A i \in DOMAIN prices : prices[i] \in Nat
      BY Bounds DEF TypeOK, Price
    <3>2. m - 1 \in 1..Len(prices)
      BY <3>1
    <3> QED BY <3>1, <3>2
  <2> HIDE DEF x, y, P, Q
  <2> DEFINE p == prices[m]
             q == prices[m - 1]
             r == prices[a]
  <2>7. /\ p \in Nat /\ q \in Nat /\ r \in Nat
        /\ EndPrices(m, 1) = r * P /\ EndPrices(m, 2) = p * Q
        /\ a = m - 1 => r = q /\ e.n * P = e.d * Q
        /\ a < m - 1 => e.n * (r * P) = e.d * (q * Q)
    BY <2>2, <2>3, <2>4, <2>5, <2>6
  <2> HIDE DEF p, q, r
  <2>8. (e.n * p) * (r * P) = (e.d * q) * (p * Q)
    <3>1. a = m - 1 \/ a < m - 1
      BY <2>1
    <3>2. Owed(e.n, e.d, q, r, P, Q)
      BY <2>7, <3>1 DEF Owed
    <3>3. Settled(e.n, e.d, p, q, r, P, Q)
      BY <1>1, <2>3, <2>7, <3>2, PriceCancels
    <3> QED BY <3>3 DEF Settled
  <2>9. /\ Times(e, Over(p, q)).n = e.n * p /\ Times(e, Over(p, q)).d = e.d * q
    BY DEF Times, Over
  <2> QED BY <1>3, <2>7, <2>8, <2>9 DEF p, q
<1> QED BY <1>2, <1>3

LEMMA InitStretch == Init => StretchInv
<1> SUFFICES ASSUME Init PROVE StretchInv
  OBVIOUS
<1>1. Done = 0 /\ prev_position = 0 /\ equity = One /\ TypeOK
  BY InitBacktest DEF Init, Done, BacktestInv
<1>2. 0 \in {0, 1} /\ 0 <= Len(prices)
  BY <1>1 DEF TypeOK
<1>3. EndPrices(0, 1) = 1 /\ EndPrices(0, 2) = 1
  BY <1>1, <1>2, NoStretchYet
<1> QED BY <1>1, <1>3 DEF StretchInv, One

LEMMA NextStretch == BacktestInv /\ StretchInv /\ [Next]_vars => StretchInv'
<1> SUFFICES ASSUME BacktestInv, StretchInv, [Next]_vars, kind' = "ma_cross", long' >= 2
             PROVE  /\ prev_position' = 1 <=> Done' > 0 /\ Holds(Done)'
                    /\ Finite(equity') => equity'.n * EndPrices(Done, 1)' = equity'.d * EndPrices(Done, 2)'
  BY DEF StretchInv
<1>0. /\ UNCHANGED <<kind, short, long, prices>> /\ TypeOK /\ WindowIsSuffix
      /\ kind = "ma_cross" /\ long >= 2
      /\ prev_position = 1 <=> Done > 0 /\ Holds(Done)
      /\ Finite(equity) => equity.n * EndPrices(Done, 1) = equity.d * EndPrices(Done, 2)
  BY DEF Next, MovingAverage, Volatility, Correlation, Drawdown, vars, input, BacktestInv, StretchInv
<1>1. CASE MovingAverage
  <2> DEFINE m == next
             g == Growth(Slide(prices[m]), prices[m])
             b == IF m > 1 THEN m - 1 ELSE 1
  <2>1. /\ m <= Len(prices) /\ equity' = Times(equity, g)
        /\ prev_position' = (IF Rising(Slide(prices[m]), prices[m]) THEN 1 ELSE 0)
        /\ next' = m + 1
    BY <1>1 DEF MovingAverage
  <2>2. /\ g \in Fraction /\ (Finite(g) <=> prices[b] > 0)
        /\ g = IF prices[b] = 0 THEN Over(1, 0)
               ELSE IF prev_position = 1 THEN Over(prices[m], prices[b]) ELSE One
    BY <1>0, <2>1, GrowthFinite
  <2>3. Rising(Slide(prices[m]), prices[m]) <=> Holds(m)
    BY <1>0, <2>1, DecisionIsTheRule
  <2>4. /\ equity \in Fraction /\ equity.n \in Nat /\ equity.d \in Nat
        /\ m \in Nat /\ m > 0 /\ Done = m - 1 /\ Done' = m
    BY <1>0, <2>1, Bounds DEF TypeOK, Done, Fraction
  <2>5. /\ Holds(Done)' <=> Holds(m)
        /\ EndPrices(Done, 1)' = EndPrices(m, 1) /\ EndPrices(Done, 2)' = EndPrices(m, 2)
    <3>1. Holds(Done)' <=> Holds(m)
      BY <1>0, <2>4 DEF Holds, Mean
    <3>2. StretchesTo(Done)' = StretchesTo(m)
      BY <1>0, <2>4 DEF Holds, Mean, StretchesTo
    <3>3. EndPrices(Done, 1)' = EndPrices(m, 1) /\ EndPrices(Done, 2)' = EndPrices(m, 2)
      BY <1>0, <2>4, <3>2 DEF EndPrices, PriceOf
    <3> QED BY <3>1, <3>3
  <2> HIDE DEF g
  <2>6. prev_position' = 1 <=> Done' > 0 /\ Holds(Done)'
    BY <2>1, <2>3, <2>4, <2>5
  <2>7. ASSUME Finite(equity')
        PROVE  /\ equity.n * EndPrices(Done, 1) = equity.d * EndPrices(Done, 2)
               /\ g = IF prev_position = 1 THEN Over(prices[m], prices[b]) ELSE One
    <3>1. Finite(equity) /\ Finite(g)
      BY <2>1, <2>2, <2>4, <2>7, TimesFinite
    <3>2. ~(prices[b] = 0)
      BY <2>2, <3>1 DEF Finite, Over
    <3> QED BY <1>0, <2>2, <3>1, <3>2
  <2>8. Times(equity, One).n = equity.n /\ Times(equity, One).d = equity.d
    BY <2>4 DEF Times, One
  <2>9. ASSUME Finite(equity')
        PROVE  equity'.n * EndPrices(m, 1) = equity'.d * EndPrices(m, 2)
    <3>1. CASE m = 1
      <4>1. Done = 0 /\ prev_position # 1 /\ g = One
        BY <1>0, <2>4, <2>7, <2>9, <3>1
      <4>2. \A i \in {0, 1} : i <= Len(prices) => EndPrices(i, 1) = 1 /\ EndPrices(i, 2) = 1
        BY <1>0, NoStretchYet
      <4>3. 0 <= Len(prices) /\ 1 <= Len(prices) /\ 0 \in {0, 1} /\ 1 \in {0, 1}
        BY <1>0, <2>1, <3>1 DEF TypeOK
      <4>4. /\ EndPrices(Done, 1) = 1 /\ EndPrices(Done, 2) = 1
            /\ EndPrices(m, 1) = 1 /\ EndPrices(m, 2) = 1
        BY <3>1, <4>1, <4>2, <4>3
      <4> QED BY <2>1, <2>4, <2>7, <2>8, <2>9, <4>1, <4>4
    <3>2. CASE m >= 2
      <4>1. /\ b = m - 1 /\ Done = m - 1 /\ (prev_position = 1 <=> Holds(m - 1))
        BY <1>0, <2>4, <3>2
      <4>2. LET x == IF Holds(m - 1) THEN Times(equity, Over(prices[m], prices[m - 1])) ELSE equity
            IN x.n * EndPrices(m, 1) = x.d * EndPrices(m, 2)
        BY <1>0, <2>1, <2>4, <2>7, <2>9, <3>2, <4>1, OneMorePrice
      <4> HIDE DEF m, b
      <4>3. CASE Holds(m - 1)
        BY <2>1, <2>7, <2>9, <4>1, <4>2, <4>3
      <4>4. CASE ~Holds(m - 1)
        BY <2>1, <2>7, <2>8, <2>9, <4>1, <4>2, <4>4
      <4> QED BY <4>3, <4>4
    <3> QED BY <2>4, <3>1, <3>2
  <2> QED BY <2>5, <2>6, <2>9
<1>2. CASE Volatility \/ Correlation
  BY <1>0, <1>2 DEF Volatility, Correlation
<1>3. CASE Drawdown \/ UNCHANGED vars
  <2>1. UNCHANGED <<prices, short, long, next, prev_position, equity>>
    BY <1>3 DEF Drawdown, vars, input
  <2>2. Done' = Done
    BY <2>1 DEF Done
  <2>3. /\ Holds(Done)' <=> Holds(Done)
        /\ EndPrices(Done, 1)' = EndPrices(Done, 1) /\ EndPrices(Done, 2)' = EndPrices(Done, 2)
    BY <2>1, <2>2 DEF Holds, Mean, EndPrices, StretchesTo, PriceOf
  <2> QED BY <1>0, <2>1, <2>2, <2>3
<1> QED BY <1>1, <1>2, <1>3 DEF Next

(* The equity of the moving-average backtest is what the stretches in the  *)
(* market have earned, for every series and every pair of windows with a   *)
(* long_window of at least 2: no return is earned by a decision taken at   *)
(* its end, none is missed and none counted twice.                         *)
THEOREM EquityIsEarned == Spec => []EquityFromStretches
<1>1. StretchInv => EquityFromStretches
  BY DEF StretchInv, EquityFromStretches, EndPrices, Prod, PriceOf, StretchesTo, Stretches
<1>2. Init => StretchInv
  BY InitStretch
<1>3. BacktestInv /\ StretchInv /\ [Next]_vars => StretchInv'
  BY NextStretch
<1> QED BY <1>1, <1>2, <1>3, BacktestInvariant, PTL DEF Spec
=============================================================================
