--------------------------- MODULE TradeSimulator --------------------------
(***************************************************************************)
(* The simulators of the offline backtests                                 *)
(* (waystone_backtests/wsbt/engine.py), one trading day a step: a target   *)
(* position filled at the next open, discrete trades with stops, targets   *)
(* and holding limits in one symbol or in many, and a book of weights      *)
(* rebalanced at the next open.  Prices and P&L are ticks; a weight's      *)
(* return over a night or a day is the ticks its symbol moved.  The index  *)
(* hedge and a book's cash yield are left out.                             *)
(***************************************************************************)
EXTENDS Integers, Sequences, FiniteSets, Functions

CONSTANTS
  Stocks,        \* symbols with bars
  Bars,          \* bars a day may bring: [open, high, low, close]
  NoBar,         \* a day without one (a halt or a gap in the data)
  CalendarDays,  \* length of the calendar
  Specs,         \* trades to attempt: sequence of [stock, day, side, entry, level, stop, target,
                 \*   hold, trail, rule, rank]; rule: days on which its rule says leave
  NoLevel,       \* a stop, target or trail that is not set
  MaxTrades,     \* open at once
  Slip, Fee,     \* ticks a fill gives away; commission of one side, or of a unit of turnover
  Targets,       \* positions a strategy may want
  WeightSets     \* books it may want: [Stocks -> weight], no weight negative

ASSUME SimulatorAssumption ==
  /\ CalendarDays \in Nat \ {0} /\ MaxTrades \in Nat \ {0} /\ {Slip, Fee, NoLevel} \subseteq Int
  /\ IsFiniteSet(Stocks) /\ Stocks # {} /\ NoBar \notin Bars
  /\ \A bar \in Bars : /\ bar \in [open : Int, high : Int, low : Int, close : Int]
                       /\ bar.low <= bar.open /\ bar.open <= bar.high
                       /\ bar.low <= bar.close /\ bar.close <= bar.high
  /\ Specs \in Seq([stock : Stocks, day : Nat, side : {-1, 1}, entry : {"open", "close", "stop", "limit"},
                    level : Int, stop : Int, target : Int, hold : Nat, trail : Int, rule : SUBSET Nat, rank : Int])
  /\ Targets \subseteq Int /\ WeightSets \subseteq [Stocks -> Nat]

VARIABLES
  simMode,    \* the simulator that runs
  tape,       \* the bars so far: day -> stock -> bar
  openTrades, \* open trades, or legs of a book
  tradeRows,  \* closed ones
  dailyPnl,   \* sum of the daily P&L
  decided     \* at the last close: a target position, or a book

simulatorVars == <<simMode, tape, openTrades, tradeRows, dailyPnl, decided>>

Sim == Len(tape) + 1  \* the day to simulate
LastBar == Sim = CalendarDays
Fill(price, side) == price + side * Slip
Higher(a, b) == IF a > b THEN a ELSE b
Lower(a, b) == IF a < b THEN a ELSE b
Amount(n) == IF n < 0 THEN -n ELSE n

\* Closing a trade at a price: its row, and what the day gains since the trade's mark.
Closed(tr, price, reason) ==
  [tr EXCEPT !.exitDay = Sim, !.exit = Fill(price, -tr.side), !.reason = reason,
             !.pnl = (Fill(price, -tr.side) - tr.entry) * tr.side * tr.units - 2 * Fee * tr.units]

\* Mutant: the day of the exit gains the trade's whole P&L again.
DayGainFromEntry(tr, price) == (Fill(price, -tr.side) - tr.entry) * tr.side * tr.units - 2 * Fee * tr.units

DayGain(tr, price) == (Fill(price, -tr.side) - tr.mark) * tr.side * tr.units - 2 * Fee * tr.units
MarkGain(tr, price) == (price - tr.mark) * tr.side * tr.units

Opened(id, stock, side, units, fill, stop) ==
  [id |-> id, stock |-> stock, side |-> side, units |-> units, entryDay |-> Sim, entry |-> fill,
   mark |-> fill, stop |-> stop, best |-> fill, held |-> 0,
   exitDay |-> 0, exit |-> 0, reason |-> "open", pnl |-> 0]

SimulatorInit ==
  /\ simMode \in {"positions", "single", "multi", "weights"}
  /\ tape = <<>> /\ openTrades = {} /\ tradeRows = {} /\ dailyPnl = 0
  /\ decided = IF simMode = "weights" THEN [s \in Stocks |-> 0] ELSE [s \in {} |-> 0]

-----------------------------------------------------------------------------
(***************************************************************************)
(* simulate_positions.                                                     *)
(***************************************************************************)
PositionDay(bar, want) ==
  LET turn == want # SumFunction([t \in openTrades |-> t.side * t.units])
      side == IF want > 0 THEN 1 ELSE -1
      sold == IF turn THEN openTrades ELSE {}
      kept == IF ~turn THEN openTrades
              ELSE IF want = 0 THEN {}
              ELSE {Opened(Sim, CHOOSE s \in Stocks : TRUE, side, Amount(want), Fill(bar.open, side), NoLevel)}
      marked == {[t EXCEPT !.mark = bar.close] : t \in kept}
      ended == IF LastBar THEN marked ELSE {}
  IN /\ tradeRows' = tradeRows \cup {Closed(t, bar.open, "signal") : t \in sold}
                              \cup {Closed(t, bar.close, "end") : t \in ended}
     /\ openTrades' = marked \ ended
     /\ dailyPnl' = dailyPnl + SumFunction([t \in sold |-> DayGain(t, bar.open)])
                             + SumFunction([t \in kept |-> MarkGain(t, bar.close)])
                             + SumFunction([t \in ended |-> DayGain(t, bar.close)])

PositionStep ==
  /\ simMode = "positions" /\ Sim <= CalendarDays
  /\ \E bar \in Bars : \E want \in Targets :
       /\ tape' = Append(tape, [s \in Stocks |-> bar])
       /\ IF Sim = 1 THEN UNCHANGED <<openTrades, tradeRows, dailyPnl>>
          ELSE PositionDay(bar, decided["target"])
       /\ decided' = [d \in {"target"} |-> want]
  /\ UNCHANGED simMode

-----------------------------------------------------------------------------
(***************************************************************************)
(* simulate_trades and simulate_trades_multi.                              *)
(***************************************************************************)
\* The price an entry fills at, NoLevel if the day does not reach it.
EntryPrice(spec, bar) ==
  LET above == (spec.entry = "stop") = (spec.side > 0)  \* filled when the day trades up to the level
  IN CASE spec.entry = "open" -> bar.open
       [] spec.entry = "close" -> bar.close
       [] OTHER -> IF above THEN IF bar.high >= spec.level THEN Higher(bar.open, spec.level) ELSE NoLevel
                   ELSE IF bar.low <= spec.level THEN Lower(bar.open, spec.level) ELSE NoLevel

\* Mutant: the cap on open trades is not looked at.
RoomAlways(held, stock) == TRUE

Room(held, stock) ==
  Cardinality(held) < MaxTrades /\ (simMode = "multi" => \A t \in held : t.stock # stock)

\* Today's specs of symbols that have a bar today and had one before, in an order of best rank first.
Candidates(bars) ==
  {i \in DOMAIN Specs : /\ Specs[i].day = Sim /\ bars[Specs[i].stock] # NoBar
                        /\ \E d \in DOMAIN tape : tape[d][Specs[i].stock] # NoBar}

Ranked(bars) ==
  LET before(i, j) == IF simMode = "single" THEN i < j
                      ELSE Specs[i].rank < Specs[j].rank \/ (Specs[i].rank = Specs[j].rank /\ i < j)
  IN {order \in Bijection(1 .. Cardinality(Candidates(bars)), Candidates(bars)) :
        \A a, b \in DOMAIN order : a < b => before(order[a], order[b])}

\* A candidate enters if there is room and the day reaches its level.
Admit(held, i, bars) ==
  LET spec == Specs[i]
      price == EntryPrice(spec, bars[spec.stock])
  IN IF Room(held, spec.stock) /\ price # NoLevel
     THEN held \cup {Opened(i, spec.stock, spec.side, 1, Fill(price, spec.side), spec.stop)}
     ELSE held

Entered(order, bars) ==
  LET held[k \in 0 .. Len(order)] == IF k = 0 THEN openTrades ELSE Admit(held[k - 1], order[k], bars)
  IN held[Len(order)]

\* The stop after today's extreme moved the trail.
Trailed(tr, bar) ==
  LET spec == Specs[tr.id]
      best == IF tr.side > 0 THEN Higher(tr.best, bar.high) ELSE Lower(tr.best, bar.low)
      trail == best - tr.side * spec.trail
  IN IF spec.trail = NoLevel THEN tr
     ELSE [tr EXCEPT !.best = best,
                     !.stop = IF @ = NoLevel THEN trail
                              ELSE IF tr.side > 0 THEN Higher(@, trail) ELSE Lower(@, trail)]

Reached(level, bar, up) == level # NoLevel /\ IF up THEN bar.high >= level ELSE bar.low <= level

\* Mutant: a gap through the stop fills at the stop.
StopPriceAtStop(tr, bar) == tr.stop

\* A stop fills at the stop, or at an open already beyond it.
StopPrice(tr, bar) == IF tr.side > 0 THEN Lower(tr.stop, bar.open) ELSE Higher(tr.stop, bar.open)

TargetPrice(tr, bar) ==
  LET target == Specs[tr.id].target
  IN IF tr.side > 0 THEN Higher(target, bar.open) ELSE Lower(target, bar.open)

\* The row a trade closes with today, or none; the stop goes before the target.
Leaves(tr, bar) ==
  LET spec == Specs[tr.id]
      atClose == spec.entry = "close" /\ tr.entryDay = Sim
  IN IF ~atClose /\ Reached(tr.stop, bar, tr.side < 0) THEN {<<StopPrice(tr, bar), "stop">>}
     ELSE IF ~atClose /\ Reached(spec.target, bar, tr.side > 0) THEN {<<TargetPrice(tr, bar), "target">>}
     ELSE IF Sim \in spec.rule \/ tr.held >= spec.hold \/ LastBar
          THEN {<<bar.close, IF tr.held >= spec.hold THEN "time" ELSE IF spec.rule # {} THEN "rule" ELSE "end">>}
          ELSE {}

\* The day's bars: one instrument has one every day, a symbol among many may miss a day.
DaysBars == IF simMode = "single" THEN {[s \in Stocks |-> bar] : bar \in Bars}
            ELSE {bars \in [Stocks -> Bars \cup {NoBar}] : \E s \in Stocks : bars[s] # NoBar}

\* An open trade after the day's bar counted: its holding time, and its trail unless it was entered at the close.
Counted(tr, bar) ==
  LET older == [tr EXCEPT !.held = @ + 1]
  IN IF Specs[tr.id].entry = "close" /\ tr.entryDay = Sim THEN older ELSE Trailed(older, bar)

TradeStep ==
  /\ simMode \in {"single", "multi"} /\ Sim <= CalendarDays
  /\ \E bars \in DaysBars : \E order \in Ranked(bars) :
       LET entered == Entered(order, bars)
           carried == {t \in entered : bars[t.stock] = NoBar}
           managed == {Counted(t, bars[t.stock]) : t \in entered \ carried}
           leaving == {t \in managed : Leaves(t, bars[t.stock]) # {}}
           Leave(t) == CHOOSE x \in Leaves(t, bars[t.stock]) : TRUE
       IN /\ tradeRows' = tradeRows \cup {Closed(t, Leave(t)[1], Leave(t)[2]) : t \in leaving}
          /\ openTrades' = carried \cup {[t EXCEPT !.mark = bars[t.stock].close] : t \in managed \ leaving}
          /\ dailyPnl' = dailyPnl + SumFunction([t \in leaving |-> DayGain(t, Leave(t)[1])])
                                  + SumFunction([t \in managed \ leaving |-> MarkGain(t, bars[t.stock].close)])
          /\ tape' = Append(tape, bars)
  /\ UNCHANGED <<simMode, decided>>

-----------------------------------------------------------------------------
(***************************************************************************)
(* simulate_weights: a leg is a symbol's round trip out of the book; its   *)
(* units are the weight held.                                              *)
(***************************************************************************)
HeldWeight(s) == SumFunction([leg \in {l \in openTrades : l.stock = s} |-> leg.units])

\* What a symbol adds to the day: a rebalanced book carries the old weight through the night
\* and the new one through the day, and pays for the difference.
Contribution(s, bar, want, rebalanced) ==
  LET before == tape[Sim - 1][s].close
  IN IF rebalanced
     THEN HeldWeight(s) * (bar.open - before) + want[s] * (bar.close - bar.open) - Fee * Amount(want[s] - HeldWeight(s))
     ELSE HeldWeight(s) * (bar.close - before)

WeightDay(bars, want) ==
  LET rebalanced == want # [s \in Stocks |-> HeldWeight(s)]
      Gain(s) == Contribution(s, bars[s], want, rebalanced)
      begun == {Opened(Sim, s, 1, want[s], bars[s].open, NoLevel) :
                  s \in {x \in Stocks : rebalanced /\ HeldWeight(x) = 0 /\ want[x] > 0}}
      legs == {[leg EXCEPT !.pnl = @ + Gain(leg.stock), !.units = want[leg.stock],
                           !.best = Higher(IF leg.entryDay = Sim THEN 0 ELSE @, want[leg.stock])] :
                 leg \in openTrades \cup begun}
      done == {leg \in legs : leg.units = 0 \/ LastBar}
  IN /\ dailyPnl' = dailyPnl + SumFunction([s \in Stocks |-> Gain(s)])
     /\ openTrades' = legs \ done
     /\ tradeRows' = tradeRows \cup {[leg EXCEPT !.exitDay = Sim, !.reason = IF leg.units = 0 THEN "rotation" ELSE "end"] :
                                        leg \in done}

WeightStep ==
  /\ simMode = "weights" /\ Sim <= CalendarDays
  /\ \E bars \in [Stocks -> Bars] : \E want \in WeightSets :
       /\ tape' = Append(tape, bars)
       /\ IF Sim = 1 THEN UNCHANGED <<openTrades, tradeRows, dailyPnl>> ELSE WeightDay(bars, decided)
       /\ decided' = want
  /\ UNCHANGED simMode

SimulatorNext == PositionStep \/ TradeStep \/ WeightStep

-----------------------------------------------------------------------------
(* Properties *)

\* Type invariant.
SimulatorTypeOK ==
  /\ simMode \in {"positions", "single", "multi", "weights"}
  /\ Len(tape) <= CalendarDays /\ \A d \in DOMAIN tape : tape[d] \in [Stocks -> Bars \cup {NoBar}]
  /\ dailyPnl \in Int
  /\ \A tr \in openTrades \cup tradeRows : tr.stock \in Stocks /\ tr.entryDay \in 1..Len(tape) /\ tr.units \in Nat

\* What a trade made, or stands at.
Worth(tr) ==
  IF simMode = "weights" \/ tr.reason # "open" THEN tr.pnl ELSE (tr.mark - tr.entry) * tr.side * tr.units

\* Whatever the order of entries, stops, targets, gaps, rebalances and days without a bar, the daily
\* P&L that makes the equity curve and the trades or legs that make the trade statistics say the same:
\* the sum of the days is what the closed ones made and the open ones stand at.
BooksBalance ==
  dailyPnl = SumFunction([tr \in openTrades |-> Worth(tr)]) + SumFunction([tr \in tradeRows |-> Worth(tr)])

\* A trade is entered and left at a price its day traded at, slippage aside, with stops and limits
\* jumped over by the open; and no more trades are open than allowed, in the portfolio one per symbol.
FillsHonest ==
  LET InRange(price, d, s) == tape[d][s].low <= price /\ price <= tape[d][s].high
  IN /\ \A tr \in IF simMode = "weights" THEN {} ELSE openTrades \cup tradeRows :
          /\ InRange(tr.entry - tr.side * Slip, tr.entryDay, tr.stock)
          /\ tr.reason # "open" => InRange(tr.exit + tr.side * Slip, tr.exitDay, tr.stock)
     /\ simMode \in {"single", "multi"} => Cardinality(openTrades) <= MaxTrades
     /\ simMode = "multi" => \A s, t \in openTrades : s.stock = t.stock => s = t

=============================================================================
