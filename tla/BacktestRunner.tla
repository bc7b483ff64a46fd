--------------------------- MODULE BacktestRunner ---------------------------
(***************************************************************************)
(* The backtest runner (runner/backtest.py): the live cycle over a window  *)
(* that slides along the symbols' histories, on a paper broker of its own, *)
(* bar by bar, and the figures it reports.  What a composite score is at a *)
(* bar, and in which order the scores come, is left open; the engine's     *)
(* decision and the guard are TradingRules.                                *)
(***************************************************************************)
EXTENDS Integers, Sequences, SequencesExt, FiniteSets, FiniteSetsExt, Functions

CONSTANTS
  Tradables,    \* the requested symbols
  HistorySets,  \* what a source may hold: [Tradables -> sequence of closes]
  InitialCash,
  Notional,     \* DecisionConfig: the notional of an entry
  Shorts,       \* DecisionConfig.allow_short
  OrderCap, PositionCap, OpenCap, NotionalCap \* RiskLimits

ASSUME BacktestAssumption ==
  /\ IsFiniteSet(Tradables) /\ HistorySets \subseteq [Tradables -> Seq(Nat \ {0})]
  /\ InitialCash \in Int /\ Shorts \in BOOLEAN /\ {Notional, OrderCap, PositionCap, OpenCap, NotionalCap} \subseteq Nat

Rules == INSTANCE TradingRules WITH
  Symbols <- Tradables, AllowShort <- Shorts, MaxOrderQty <- OrderCap, MaxPositionQty <- PositionCap,
  MaxOpenPositions <- OpenCap, MaxNotional <- NotionalCap

VARIABLES
  aligned,  \* active symbol -> its closes, all of one length
  barIndex, \* bars walked
  desk,     \* the paper broker and what the runner notes: [cash, qty, avg, mark, orders, realized]
  curve,    \* equity after each bar
  result    \* the metrics, once there; <<>> before

backtestVars == <<aligned, barIndex, desk, curve, result>>

Active == DOMAIN aligned
SpanOf(histories) == Min({Len(histories[s]) : s \in DOMAIN histories})

\* Symbols with bars, each cut to the last of them all have.
Align(source) ==
  LET some == {s \in Tradables : source[s] # <<>>}
      n == Min({Len(source[s]) : s \in some})
  IN [s \in some |-> SubSeq(source[s], Len(source[s]) - n + 1, Len(source[s]))]

NewDesk(cash) ==
  [cash |-> cash, qty |-> [s \in Tradables |-> 0], avg |-> [s \in Tradables |-> 0],
   mark |-> [s \in Tradables |-> 0], orders |-> 0, realized |-> <<>>]

BacktestInit ==
  /\ \E source \in HistorySets : (\E s \in Tradables : source[s] # <<>>) /\ aligned = Align(source)
  /\ barIndex = 0 /\ desk = NewDesk(InitialCash) /\ curve = <<>> /\ result = <<>>

\* Mutant: the position is looked up after the cycle.
HeldAfter(before, after, s) == [qty |-> after.qty[s], avg |-> after.avg[s]]

\* The position a sale closed is that held before the cycle.
HeldBefore(before, after, s) == [qty |-> before.qty[s], avg |-> before.avg[s]]

\* An order fills whole at the close: it opens a flat position or closes one.
FillAt(d, s, intent, price) ==
  LET signed == Rules!Delta(intent)
      left == d.qty[s] + signed
  IN [d EXCEPT !.cash = @ - signed * price, !.qty[s] = left, !.mark[s] = price, !.orders = @ + 1,
               !.avg[s] = IF left = 0 THEN 0 ELSE IF d.qty[s] = 0 THEN price ELSE @]

\* run_cycle for one composite: what the engine wants and the guard lets through.
Trade(d, s, signal) ==
  LET price == aligned[s][barIndex + 1]
      intent == Rules!Decide(Notional, signal, d.qty[s], price)
  IN IF intent # Rules!None /\ Rules!GuardAllows(d.qty, s, intent, price) THEN FillAt(d, s, intent, price) ELSE d

\* run_cycle: the composites come by score.
Cycled(order, signals) ==
  LET held[k \in 0 .. Len(order)] == IF k = 0 THEN desk ELSE Trade(held[k - 1], order[k], signals[order[k]])
  IN held[Len(order)]

\* The realized P&L with that of a symbol's sale, if the cycle sold what was held.
Note(realized, after, s) ==
  LET held == HeldBefore(desk, after, s)
  IN IF after.qty[s] < desk.qty[s] /\ held.qty > 0
     THEN Append(realized, (aligned[s][barIndex + 1] - held.avg) * (desk.qty[s] - after.qty[s]))
     ELSE realized

Noted(order, after) ==
  LET noted[k \in 0 .. Len(order)] == IF k = 0 THEN desk.realized ELSE Note(noted[k - 1], after, order[k])
  IN noted[Len(order)]

\* Equity: a position without a mark counts at its entry.
Equity(d) ==
  d.cash + SumFunction([s \in Tradables |-> d.qty[s] * (IF d.mark[s] = 0 THEN d.avg[s] ELSE d.mark[s])])

\* One bar: the cycle, the P&L of its sales, the marks and the equity.
WalkBar(order, signals) ==
  /\ barIndex < SpanOf(aligned)
  /\ LET after == Cycled(order, signals)
     IN desk' = [after EXCEPT !.mark = [s \in Tradables |-> IF s \in Active THEN aligned[s][barIndex + 1] ELSE @[s]],
                              !.realized = Noted(order, after)]
  /\ curve' = Append(curve, Equity(desk'))
  /\ barIndex' = barIndex + 1
  /\ UNCHANGED <<aligned, result>>

\* Mutant: the peak is not raised on the way.
FallenFromStart(worst, e) ==
  IF (worst.peak - e) * worst.of > worst.drop * worst.peak
  THEN [worst EXCEPT !.drop = worst.peak - e, !.of = worst.peak] ELSE worst

\* The running peak, and the worst fall from it as drop/of.
Fallen(worst, e) ==
  LET peak == IF e > worst.peak THEN e ELSE worst.peak
  IN IF peak > 0 /\ (peak - e) * worst.of > worst.drop * peak
     THEN [peak |-> peak, drop |-> peak - e, of |-> peak] ELSE [worst EXCEPT !.peak = peak]

\* _max_drawdown; the first equity is the first peak.
MaxDrawdown(equity) ==
  LET worst[k \in 0 .. Len(equity)] ==
        IF k = 0 THEN [peak |-> equity[1], drop |-> 0, of |-> 1] ELSE Fallen(worst[k - 1], equity[k])
  IN worst[Len(equity)]

Report ==
  /\ barIndex = SpanOf(aligned) /\ result = <<>>
  /\ LET worst == MaxDrawdown(curve)
     IN result' = <<[final |-> Last(curve), drop |-> worst.drop, of |-> worst.of, trades |-> desk.orders,
                     closed |-> Len(desk.realized),
                     wins |-> Cardinality({k \in DOMAIN desk.realized : desk.realized[k] > 0})]>>
  /\ UNCHANGED <<aligned, barIndex, desk, curve>>

\* The composites come by score, in any order the scores may have.
ScoreOrders == Bijection(1 .. Cardinality(Active), Active)

BacktestNext ==
  \/ \E order \in ScoreOrders, signals \in [Active -> Rules!Signals] : WalkBar(order, signals)
  \/ Report

-----------------------------------------------------------------------------
(***************************************************************************)
(* Properties.                                                             *)
(***************************************************************************)
BacktestTypeOK ==
  /\ barIndex \in 0 .. SpanOf(aligned) /\ Len(curve) = barIndex
  /\ \A s \in Tradables : desk.qty[s] \in Int /\ desk.avg[s] \in Nat
  /\ \A s \in Tradables \ Active : desk.qty[s] = 0

\* Without shorts the equity is explained at every bar: what the backtest began with, the P&L
\* it noted for each closed trade, and what its open positions gained since their entry; so
\* its win rate leaves no trade out.
EquityExplained ==
  ~Shorts /\ curve # <<>> =>
    Last(curve) = InitialCash + SumFunction(desk.realized)
                  + SumFunction([s \in Tradables |-> desk.qty[s] * (desk.mark[s] - desk.avg[s])])

\* The drawdown reported is the worst fall from an earlier equity to a later one: from any to one that
\* is not negative, and below zero from the highest so far.
DrawdownTrue ==
  result # <<>> =>
    LET r == result[1]
    IN /\ \A j \in DOMAIN curve : \A i \in 1 .. j :
            curve[i] > 0 /\ (curve[j] >= 0 \/ \A h \in 1 .. j : curve[h] <= curve[i])
              => (curve[i] - curve[j]) * r.of <= r.drop * curve[i]
       /\ r.drop > 0 => \E j \in DOMAIN curve : \E i \in 1 .. j :
            curve[i] = r.of /\ curve[i] - curve[j] = r.drop

\* Every sale closed a trade: at the end the orders are the closed trades twice and the open ones.
OrdersCounted ==
  ~Shorts /\ result # <<>> =>
    result[1].trades = 2 * result[1].closed + Cardinality({s \in Tradables : desk.qty[s] # 0})

BacktestExplained == EquityExplained /\ DrawdownTrue /\ OrdersCounted
=============================================================================
