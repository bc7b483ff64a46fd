-------------------------- MODULE TradingRulesProofs --------------------------
(***************************************************************************)
(* Lemmas about the rules every trading path shares, for any symbols,      *)
(* limits, prices and scores: what the engine asks for, what the guard     *)
(* lets through and what a fill makes of a position.                       *)
(***************************************************************************)
EXTENDS TradingRules, FiniteSetTheorems, TLAPS

\* The engine asks for one of the three kinds of intent, with a whole quantity.
LEMMA DecideType ==
  ASSUME NEW notional \in Nat, NEW signal, NEW position \in Int, NEW price \in Int
  PROVE  Decide(notional, signal, position, price) \in Intents
<1>1. EntryQty(notional, price) \in Int
  <2>1. CASE price <= 0
    BY <2>1 DEF EntryQty
  <2>2. CASE price > 0
    <3>1. notional \div price \in Int
      BY <2>2
    <3> QED BY <2>2, <3>1 DEF EntryQty, AtLeast
  <2> QED BY <2>1, <2>2
<1> QED BY <1>1 DEF Decide, Intents, Buy, Sell, None

LEMMA FilledType ==
  ASSUME NEW p \in Positions, NEW s \in Symbols, NEW i \in Intents
  PROVE  /\ Delta(i) \in Int
         /\ Filled(p, s, i) \in Positions
         /\ \A t \in Symbols : Filled(p, s, i)[t] = IF t = s THEN p[t] + Delta(i) ELSE p[t]
BY DEF Positions, Intents, Filled, Delta

\* Only symbols are held, and there are finitely many.
LEMMA OpenFinite ==
  ASSUME NEW p \in Positions
  PROVE  IsFiniteSet(OpenPositions(p)) /\ Cardinality(OpenPositions(p)) \in Nat
<1>1. OpenPositions(p) \subseteq Symbols
  BY DEF OpenPositions
<1> QED BY <1>1, SymbolsAssumption, FS_Subset, FS_CardinalityType

\* A fill the guard allowed keeps the number of open positions capped.
LEMMA FilledOpenCap ==
  ASSUME NEW p \in Positions, NEW s \in Symbols, NEW i \in Intents,
         Cardinality(OpenPositions(p)) <= MaxOpenPositions, WithinOpenCap(p, s, Delta(i))
  PROVE  Cardinality(OpenPositions(Filled(p, s, i))) <= MaxOpenPositions
<1> DEFINE before == OpenPositions(p)
           after == OpenPositions(Filled(p, s, i))
<1>1. Delta(i) \in Int /\ Filled(p, s, i) \in Positions
      /\ \A t \in Symbols : Filled(p, s, i)[t] = IF t = s THEN p[t] + Delta(i) ELSE p[t]
  BY FilledType
<1>2. IsFiniteSet(before) /\ IsFiniteSet(after) /\ Cardinality(before) \in Nat
      /\ Cardinality(after) \in Nat
  BY <1>1, OpenFinite
<1>3. after \subseteq before \cup {s}
  BY <1>1 DEF OpenPositions
<1>4. CASE OpensNew(p, s, Delta(i))
  <2>1. Cardinality(before) < MaxOpenPositions /\ s \notin before
    BY <1>4 DEF WithinOpenCap, OpensNew, OpenPositions
  <2>2. Cardinality(before \cup {s}) = Cardinality(before) + 1 /\ IsFiniteSet(before \cup {s})
    BY <1>2, <2>1, FS_AddElement
  <2>3. Cardinality(after) <= Cardinality(before) + 1
    BY <1>3, <2>2, FS_Subset
  <2> QED BY <1>2, <2>1, <2>3, LimitsAssumption
<1>5. CASE ~OpensNew(p, s, Delta(i))
  <2>1. after \subseteq before
    BY <1>1, <1>5 DEF OpenPositions, OpensNew, Positions
  <2>2. Cardinality(after) <= Cardinality(before)
    BY <1>2, <2>1, FS_Subset
  <2> QED BY <1>2, <2>2, LimitsAssumption
<1> QED BY <1>4, <1>5

\* Where short sales are off the engine sells what is held and no more.
LEMMA DecideNeverShort ==
  ASSUME ~AllowShort, NEW notional \in Nat, NEW signal, NEW position \in Nat, NEW price \in Nat \ {0}
  PROVE  position + Delta(Decide(notional, signal, position, price)) >= 0
<1>1. EntryQty(notional, price) \in Nat
  <2>1. notional \div price \in Int
    OBVIOUS
  <2> QED
    BY <2>1 DEF EntryQty, AtLeast
<1> QED
  BY <1>1 DEF Decide, Delta, Buy, Sell, None

\* What the guard lets through leaves an account within the hard caps, provided the
\* guard's view is the account.
THEOREM GuardKeepsCaps ==
  ASSUME NEW p \in Positions, WithinCaps(p), NEW s \in Symbols, NEW i \in Intents, NEW price,
         GuardAllows(p, s, i, price)
  PROVE  WithinCaps(Filled(p, s, i))
<1>1. Cardinality(OpenPositions(Filled(p, s, i))) <= MaxOpenPositions
  BY FilledOpenCap DEF WithinCaps, GuardAllows
<1>2. \A t \in Symbols : WithinPositionCap(Filled(p, s, i)[t])
  BY FilledType DEF WithinCaps, GuardAllows
<1> QED
  BY <1>1, <1>2 DEF WithinCaps
=============================================================================
