---------------------------- MODULE TradingRules ----------------------------
(***************************************************************************)
(* The pure rules every trading path shares: what the decision engine      *)
(* wants (decision/engine.py) and what the risk guard lets through         *)
(* (risk/guard.py).  Quantities and prices are integers; a composite score *)
(* is reduced to the set of thresholds it meets, because the engine looks  *)
(* at nothing else.  Nothing orders the two thresholds in the code, so a   *)
(* score may meet both.                                                    *)
(***************************************************************************)
EXTENDS Integers, FiniteSets

CONSTANTS
  Symbols,            \* tradable symbols
  AllowShort,         \* DecisionConfig.allow_short
  MaxOrderQty,        \* RiskLimits.max_order_qty
  MaxPositionQty,     \* RiskLimits.max_position_qty
  MaxOpenPositions,   \* RiskLimits.max_open_positions
  MaxNotional         \* RiskLimits.max_notional_per_order

ASSUME SymbolsAssumption == IsFiniteSet(Symbols)
ASSUME AllowShortAssumption == AllowShort \in BOOLEAN
ASSUME LimitsAssumption ==
  /\ MaxOrderQty \in Nat /\ MaxPositionQty \in Nat
  /\ MaxOpenPositions \in Nat /\ MaxNotional \in Nat

\* The thresholds a composite score meets.
Signals == SUBSET {"bullish", "bearish"}

Positions == [Symbols -> Int]
Flat == [s \in Symbols |-> 0]

\* None is `None` in decide(): no intent for this symbol.
None == [side |-> "none", qty |-> 0]
Buy(q) == [side |-> "buy", qty |-> q]
Sell(q) == [side |-> "sell", qty |-> q]
Intents == [side : {"none", "buy", "sell"}, qty : Int]

\* The signed change of position an order makes.
Delta(i) == CASE i.side = "buy" -> i.qty
              [] i.side = "sell" -> -i.qty
              [] OTHER -> 0

AtLeast(n, low) == IF n < low THEN low ELSE n

-----------------------------------------------------------------------------
\* Fixed notional, and at least one share however dear it is.
EntryQty(notional, price) ==
  IF price <= 0 THEN 0 ELSE AtLeast(notional \div price, 1)

\* Open only when flat, exit only what is held, never add to a position.
Decide(notional, signal, position, price) ==
  CASE position = 0 /\ "bullish" \in signal -> Buy(EntryQty(notional, price))
    [] position = 0 /\ "bullish" \notin signal /\ "bearish" \in signal /\ AllowShort
         -> Sell(EntryQty(notional, price))
    [] position > 0 /\ "bearish" \in signal -> Sell(position)
    [] position < 0 /\ "bullish" \in signal -> Buy(-position)
    [] OTHER -> None

-----------------------------------------------------------------------------
OpenPositions(view) == {s \in Symbols : view[s] # 0}

WithinPositionCap(projected) ==
  -MaxPositionQty <= projected /\ projected <= MaxPositionQty

OpensNew(view, s, delta) == view[s] = 0 /\ delta # 0

WithinOpenCap(view, s, delta) ==
  OpensNew(view, s, delta) => Cardinality(OpenPositions(view)) < MaxOpenPositions

\* RiskGuard.check on the guard's own view of the positions: every clause
\* that would raise RiskViolationError is a conjunct here.
GuardAllows(view, s, intent, price) ==
  /\ intent.qty > 0
  /\ intent.qty <= MaxOrderQty
  /\ intent.qty * price <= MaxNotional
  /\ WithinPositionCap(view[s] + Delta(intent))
  /\ WithinOpenCap(view, s, Delta(intent))

\* RiskGuard.apply_fill, PaperBroker._apply_fill and run_cycle's local dict
\* all add the signed quantity; a position that reaches zero is dropped.
Filled(view, s, intent) == [view EXCEPT ![s] = @ + Delta(intent)]

\* What the hard caps promise of an account.
WithinCaps(pos) ==
  /\ \A s \in Symbols : WithinPositionCap(pos[s])
  /\ Cardinality(OpenPositions(pos)) <= MaxOpenPositions
=============================================================================
