--------------------------- MODULE WorkspaceProofs ---------------------------
(***************************************************************************)
(* Proofs about the shared workspace, for any number of calls, symbols,    *)
(* strategies and prices and for both brokers.                             *)
(***************************************************************************)
EXTENDS Workspace, TradingRulesProofs

\* A call past the lock runs a strategy somebody set.
ConfigInv ==
  \A c \in Calls :
    /\ pc[c] = "waiting" => strategy \in Strategies
    /\ Inside(c) => cfg[c] \in Strategies
    /\ pc[c] = "submit" => order[c].symbol \in Symbols /\ order[c].intent.side \in Sides
                           /\ order[c].intent.qty > 0

TypeInv == TypeOK /\ ConfigInv

-----------------------------------------------------------------------------
LEMMA BookedType ==
  ASSUME working \in [Symbols -> [Sides -> Nat]],
         NEW s \in Symbols, NEW side \in Sides, NEW n \in Nat
  PROVE  /\ Booked(s, side, n) \in [Symbols -> [Sides -> Nat]]
         /\ \A t \in Symbols, d \in Sides :
              Booked(s, side, n)[t][d] = IF t = s /\ d = side THEN n ELSE working[t][d]
BY DEF Booked

\* What a broker makes of an order keeps its own state well typed.
LEMMA ReceivedType ==
  ASSUME TypeOK, NEW o \in Orders, o.symbol \in Symbols, o.intent.side \in Sides,
         o.intent.qty > 0, Received(o)
  PROVE  /\ pos' \in Positions
         /\ working' \in [Symbols -> [Sides -> Nat]]
<1>1. o.intent \in Intents /\ o.intent.qty \in Nat
  BY DEF Orders, Intents
<1>2. CASE Remote
  <2>1. working[o.symbol][o.intent.side] + o.intent.qty \in Nat
    BY <1>1 DEF TypeOK
  <2>2. Booked(o.symbol, o.intent.side, working[o.symbol][o.intent.side] + o.intent.qty)
          \in [Symbols -> [Sides -> Nat]]
    BY <2>1, BookedType DEF TypeOK
  <2> QED BY <1>2, <2>2 DEF Received, TypeOK
<1>3. CASE ~Remote
  BY <1>1, <1>3, FilledType DEF Received, TypeOK
<1> QED BY <1>2, <1>3
-----------------------------------------------------------------------------
LEMMA InitTyped == Init => TypeInv
<1> SUFFICES ASSUME Init PROVE TypeInv
  OBVIOUS
<1>1. NoOrder \in Orders
  BY DEF NoOrder, Orders, Intents, None
<1>2. working \in [Symbols -> [Sides -> Nat]]
  BY DEF Init, NoOrders, Sides
<1>3. Flat \in Positions /\ queue \in Seq(Calls) /\ store \in Switches
  BY DEF Init, Flat, Positions, Switches
<1>4. TypeOK
  BY <1>1, <1>2, <1>3 DEF Init, TypeOK, PCs
<1> QED BY <1>4 DEF TypeInv, ConfigInv, Init, Inside

LEMMA LeaveTyped ==
  ASSUME TypeInv, NEW c \in Calls, Leave(c), pos' \in Positions,
         working' \in [Symbols -> [Sides -> Nat]]
  PROVE  TypeInv'
<1>1. NoOrder \in Orders /\ Flat \in Positions
  BY DEF NoOrder, Orders, Intents, None, Flat, Positions
<1>2. TypeOK'
  BY <1>1 DEF TypeInv, TypeOK, Leave, Release, shared, PCs
<1>3. \A d \in Calls : (pc'[d] = "idle" /\ d = c)
         \/ (pc'[d] = pc[d] /\ cfg'[d] = cfg[d] /\ order'[d] = order[d])
  BY DEF Leave, Release, TypeInv, TypeOK
<1>4. ConfigInv'
  BY <1>3 DEF TypeInv, ConfigInv, Leave, Release, shared, Inside
<1> QED BY <1>2, <1>4 DEF TypeInv

LEMMA NextTyped == TypeInv /\ [Next]_vars => TypeInv'
<1> SUFFICES ASSUME TypeInv, [Next]_vars PROVE TypeInv'
  OBVIOUS
<1> USE DEF TypeInv
<1>1. ASSUME NEW e \in BOOLEAN, SetTrading(e) PROVE TypeInv'
  BY <1>1 DEF SetTrading, Save, TypeOK, ConfigInv, Switches, Inside, locals, account
<1>2. ASSUME NEW st \in Strategies, SetStrategy(st) PROVE TypeInv'
  BY <1>2 DEF SetStrategy, Save, TypeOK, ConfigInv, Switches, Inside, locals, account, history
<1>3. ASSUME SaveFails PROVE TypeInv'
  BY <1>3 DEF SaveFails, TypeOK, ConfigInv, Inside, locals, account
<1>4. ASSUME NEW c \in Calls, RunCycle(c) PROVE TypeInv'
  <2>1. TypeOK'
    BY <1>4 DEF RunCycle, TypeOK, PCs, shared, locals, account, history
  <2>2. \A d \in Calls : pc'[d] = IF d = c THEN "waiting" ELSE pc[d]
    BY <1>4 DEF RunCycle, TypeOK
  <2>3. strategy \in Strategies
    BY <1>4 DEF RunCycle, TypeOK
  <2>4. ConfigInv'
    BY <1>4, <2>2, <2>3 DEF RunCycle, ConfigInv, Inside, shared, locals
  <2> QED BY <2>1, <2>4
<1>5. ASSUME NEW c \in Calls, BeginCycle(c) PROVE TypeInv'
  <2>0. strategy \in Strategies
    BY <1>5 DEF BeginCycle, ConfigInv
  <2>1. TypeOK'
    BY <1>5, <2>0 DEF BeginCycle, TypeOK, PCs, shared, account
  <2>2. \A d \in Calls : /\ pc'[d] = IF d = c THEN "gather" ELSE pc[d]
                         /\ cfg'[d] = IF d = c THEN strategy ELSE cfg[d]
    BY <1>5 DEF BeginCycle, TypeOK
  <2>3. ConfigInv'
    BY <1>5, <2>0, <2>2 DEF BeginCycle, ConfigInv, Inside, shared
  <2> QED BY <2>1, <2>3
<1>6. ASSUME NEW c \in Calls, GatherBars(c) PROVE TypeInv'
  <2>1. cfg[c].watchlist \subseteq Symbols
    BY <1>6, StrategiesAssumption DEF GatherBars, ConfigInv, Inside
  <2>2. TypeOK'
    BY <1>6, <2>1 DEF GatherBars, TypeOK, PCs, shared, account, history
  <2>3. \A d \in Calls : pc'[d] = IF d = c THEN "snapshot" ELSE pc[d]
    BY <1>6 DEF GatherBars, TypeOK
  <2>4. ConfigInv'
    BY <1>6, <2>3 DEF GatherBars, ConfigInv, Inside, shared
  <2> QED BY <2>2, <2>4
<1>7. ASSUME NEW c \in Calls, Snapshot(c) PROVE TypeInv'
  <2>1. TypeOK'
    BY <1>7 DEF Snapshot, TypeOK, PCs, shared, account
  <2>2. \A d \in Calls : pc'[d] = IF d = c THEN "decide" ELSE pc[d]
    BY <1>7 DEF Snapshot, TypeOK
  <2>3. ConfigInv'
    BY <1>7, <2>2 DEF Snapshot, ConfigInv, Inside, shared
  <2> QED BY <2>1, <2>3
<1>8. ASSUME NEW c \in Calls, PassOver(c) PROVE TypeInv'
  <2>1. TypeOK'
    BY <1>8 DEF PassOver, TypeOK, shared, account, history
  <2>2. ConfigInv'
    BY <1>8 DEF PassOver, ConfigInv, Inside, shared
  <2> QED BY <2>1, <2>2
<1>9. ASSUME NEW c \in Calls, PlaceOrder(c) PROVE TypeInv'
  <2>1. PICK s \in todo[c], signal \in Signals, price \in Prices :
          LET intent == Wanted(c, s, signal, price)
          IN  /\ intent # None
              /\ ~Refused(c, s, intent, price)
              /\ order' = [order EXCEPT ![c] = [symbol |-> s, intent |-> intent]]
    BY <1>9 DEF PlaceOrder
  <2> DEFINE intent == Wanted(c, s, signal, price)
  <2>2. s \in Symbols /\ price \in Int /\ view[c][s] \in Int /\ cfg[c].notional \in Nat
    BY <1>9, PricesAssumption, StrategiesAssumption
    DEF PlaceOrder, TypeOK, Positions, ConfigInv, Inside
  <2>3. intent \in Intents
    BY <2>2, DecideType DEF Wanted
  <2>4. intent.qty > 0
    BY <2>1 DEF Refused, GuardAllows
  <2>5. intent.side \in Sides
    BY <2>1, <2>3, <2>4 DEF Wanted, Decide, None, Buy, Sell, Sides
  <2>6. [symbol |-> s, intent |-> intent] \in Orders
    BY <2>2, <2>3 DEF Orders
  <2> HIDE DEF intent
  <2>7. order' = [order EXCEPT ![c] = [symbol |-> s, intent |-> intent]]
    BY <2>1 DEF intent
  <2>8. TypeOK'
    BY <1>9, <2>6, <2>7 DEF PlaceOrder, TypeOK, PCs, shared, account, history
  <2>9. \A d \in Calls : /\ pc'[d] = IF d = c THEN "submit" ELSE pc[d]
                         /\ order'[d] = IF d = c THEN [symbol |-> s, intent |-> intent] ELSE order[d]
    BY <1>9, <2>7 DEF PlaceOrder, TypeOK
  <2>10. ConfigInv'
    BY <1>9, <2>2, <2>4, <2>5, <2>9 DEF PlaceOrder, ConfigInv, Inside, shared
  <2> QED BY <2>8, <2>10
<1>10. ASSUME NEW c \in Calls, OrderAccepted(c) PROVE TypeInv'
  <2>1. order[c] \in Orders /\ order[c].intent \in Intents /\ order[c].symbol \in Symbols
    BY <1>10 DEF OrderAccepted, TypeOK, ConfigInv, Orders
  <2>2. pos' \in Positions /\ working' \in [Symbols -> [Sides -> Nat]]
    BY <1>10, <2>1, ReceivedType DEF OrderAccepted, ConfigInv
  <2>3. Filled(view[c], order[c].symbol, order[c].intent) \in Positions
    BY <2>1, FilledType DEF TypeOK
  <2>4. NoOrder \in Orders
    BY DEF NoOrder, Orders, Intents, None
  <2>5. TypeOK'
    BY <1>10, <2>2, <2>3, <2>4 DEF OrderAccepted, TypeOK, PCs, shared, history
  <2>6. \A d \in Calls : /\ pc'[d] = IF d = c THEN "decide" ELSE pc[d]
                         /\ d # c => order'[d] = order[d]
    BY <1>10 DEF OrderAccepted, TypeOK
  <2>7. ConfigInv'
    BY <1>10, <2>6 DEF OrderAccepted, ConfigInv, Inside, shared
  <2> QED BY <2>5, <2>7
<1>11. ASSUME NEW c \in Calls, FinishCycle(c) PROVE TypeInv'
  BY <1>11, LeaveTyped DEF FinishCycle, account, TypeOK
<1>12. ASSUME NEW c \in Calls, CycleRaises(c) PROVE TypeInv'
  <2>1. pos' \in Positions /\ working' \in [Symbols -> [Sides -> Nat]]
    <3>1. CASE UNCHANGED account
      BY <3>1 DEF account, TypeOK
    <3>2. CASE pc[c] = "submit" /\ Received(order[c])
      BY <3>2, ReceivedType DEF TypeOK, ConfigInv
    <3> QED BY <1>12, <3>1, <3>2 DEF CycleRaises
  <2> QED BY <1>12, <2>1, LeaveTyped DEF CycleRaises
<1>13. ASSUME NEW s \in Symbols, Fill(s) PROVE TypeInv'
  <2>0. PICK side \in Sides : \E q \in 1..working[s][side] :
          /\ working' = Booked(s, side, working[s][side] - q)
          /\ pos' = Filled(pos, s, [side |-> side, qty |-> q])
    BY <1>13 DEF Fill
  <2>1. PICK q \in 1..working[s][side] :
          /\ working' = Booked(s, side, working[s][side] - q)
          /\ pos' = Filled(pos, s, [side |-> side, qty |-> q])
    BY <2>0
  <2>2. q \in Nat /\ working[s][side] - q \in Nat
    BY DEF TypeOK
  <2>3. [side |-> side, qty |-> q] \in Intents
    BY <2>2 DEF Intents, Sides
  <2>4. pos' \in Positions /\ working' \in [Symbols -> [Sides -> Nat]]
    BY <2>1, <2>2, <2>3, FilledType, BookedType DEF TypeOK
  <2> QED BY <1>13, <2>4 DEF Fill, TypeOK, ConfigInv, Inside, shared, locals, history
<1>14. ASSUME NEW s \in Symbols, Expire(s) PROVE TypeInv'
  <2>1. working' \in [Symbols -> [Sides -> Nat]]
    BY <1>14, BookedType DEF Expire, TypeOK
  <2> QED BY <1>14, <2>1 DEF Expire, TypeOK, ConfigInv, Inside, shared, locals, history
<1>15. ASSUME Restart PROVE TypeInv'
  <2>1. NoOrder \in Orders /\ Flat \in Positions /\ NoOrders \in [Symbols -> [Sides -> Nat]]
    BY DEF NoOrder, Orders, Intents, None, Flat, Positions, NoOrders
  <2>2. pos' \in Positions /\ working' \in [Symbols -> [Sides -> Nat]]
    <3>1. CASE UNCHANGED account
      BY <3>1 DEF account, TypeOK
    <3>2. ASSUME NEW c \in Calls, pc[c] = "submit", Received(order[c])
          PROVE  pos' \in Positions /\ working' \in [Symbols -> [Sides -> Nat]]
      BY <3>2, ReceivedType DEF TypeOK, ConfigInv
    <3> QED BY <1>15, <2>1, <3>1, <3>2 DEF Restart
  <2>3. TypeOK'
    BY <1>15, <2>1, <2>2 DEF Restart, Reload, TypeOK, PCs, Switches
  <2>4. ConfigInv'
    BY <1>15 DEF Restart, ConfigInv, Inside
  <2> QED BY <2>3, <2>4
<1>16. CASE UNCHANGED vars
  BY <1>16 DEF vars, shared, locals, account, history, TypeOK, ConfigInv, Inside
<1> QED
  BY <1>1, <1>2, <1>3, <1>4, <1>5, <1>6, <1>7, <1>8, <1>9, <1>10, <1>11, <1>12, <1>13,
     <1>14, <1>15, <1>16 DEF Next, CycleStep

\* Every variable keeps its type, whatever the broker and the members do.
THEOREM Typing == Spec => []TypeOK
<1>1. Spec => []TypeInv
  BY InitTyped, NextTyped, PTL DEF Spec
<1>2. TypeInv => TypeOK
  BY DEF TypeInv
<1> QED BY <1>1, <1>2, PTL
-----------------------------------------------------------------------------
(***************************************************************************)
(* Mutual exclusion.  The lock names the one call past `async with`, so    *)
(* nobody else can be there.                                               *)
(***************************************************************************)
LockInv == \A c \in Calls : Inside(c) <=> lock = c

LEMMA InitLock == Init => LockInv
BY CallsAssumption DEF Init, LockInv, Inside

LEMMA NextLock == TypeInv /\ LockInv /\ [Next]_vars => LockInv'
<1> SUFFICES ASSUME TypeInv, LockInv, [Next]_vars PROVE LockInv'
  OBVIOUS
<1> USE DEF TypeInv
<1>1. ASSUME NEW c \in Calls, RunCycle(c) PROVE LockInv'
  BY <1>1 DEF RunCycle, LockInv, Inside, TypeOK
<1>2. ASSUME NEW c \in Calls, BeginCycle(c) PROVE LockInv'
  BY <1>2, CallsAssumption DEF BeginCycle, LockFree, LockInv, Inside, TypeOK
<1>3. ASSUME NEW c \in Calls, GatherBars(c) \/ Snapshot(c) \/ PlaceOrder(c) \/ OrderAccepted(c)
      PROVE LockInv'
  BY <1>3 DEF GatherBars, Snapshot, PlaceOrder, OrderAccepted, LockInv, Inside, TypeOK
<1>4. ASSUME NEW c \in Calls, FinishCycle(c) \/ CycleRaises(c) PROVE LockInv'
  <2>1. lock = c
    BY <1>4 DEF FinishCycle, CycleRaises, LockInv, Inside
  <2>2. Leave(c)
    BY <1>4 DEF FinishCycle, CycleRaises
  <2> QED BY <2>1, <2>2, CallsAssumption DEF Leave, Release, LockInv, Inside, TypeOK
<1>5. ASSUME Restart PROVE LockInv'
  BY <1>5, CallsAssumption DEF Restart, LockInv, Inside
<1>6. ASSUME UNCHANGED <<lock, pc>> PROVE LockInv'
  BY <1>6 DEF LockInv, Inside
<1>7. ASSUME \/ \E e \in BOOLEAN : SetTrading(e)
             \/ \E st \in Strategies : SetStrategy(st)
             \/ SaveFails
             \/ \E c \in Calls : PassOver(c)
             \/ \E t \in Symbols : Fill(t) \/ Expire(t)
             \/ UNCHANGED vars
      PROVE  UNCHANGED <<lock, pc>>
  BY <1>7 DEF SetTrading, SetStrategy, SaveFails, PassOver, Fill, Expire, vars
<1> QED
  BY <1>1, <1>2, <1>3, <1>4, <1>5, <1>6, <1>7 DEF Next, CycleStep

\* Whatever raises, returns or restarts, no two cycles trade at once.
THEOREM MutualExclusion == Spec => []OneCycleAtATime
<1>1. Spec => [](TypeInv /\ LockInv)
  BY InitTyped, NextTyped, InitLock, NextLock, PTL DEF Spec
<1>2. LockInv => OneCycleAtATime
  BY DEF LockInv, OneCycleAtATime
<1> QED BY <1>1, <1>2, PTL

-----------------------------------------------------------------------------
(***************************************************************************)
(* The kill-switch.  While a halt stands, memory and database agree on it, *)
(* so nothing a restart or a later cycle can read permits an order.        *)
(***************************************************************************)
SwitchInv ==
  /\ HasStore /\ calm => ~trading_enabled /\ ~store.enabled
  /\ \A c \in Calls : /\ HasStore /\ calmAt[c] => ~permit[c]
                      /\ pc[c] = "submit" => permit[c]

LEMMA InitSwitch == Init => SwitchInv
BY DEF Init, SwitchInv

LEMMA NextSwitch == TypeInv /\ SwitchInv /\ [Next]_vars => SwitchInv'
<1> SUFFICES ASSUME TypeInv, SwitchInv, [Next]_vars PROVE SwitchInv'
  OBVIOUS
<1> USE DEF TypeInv
<1>1. ASSUME NEW e \in BOOLEAN, SetTrading(e) PROVE SwitchInv'
  BY <1>1 DEF SetTrading, Save, SwitchInv, TypeOK, Switches, locals, account
<1>2. ASSUME NEW st \in Strategies, SetStrategy(st) PROVE SwitchInv'
  BY <1>2 DEF SetStrategy, Save, SwitchInv, TypeOK, Switches, locals, account, history
<1>3. ASSUME SaveFails PROVE SwitchInv'
  BY <1>3 DEF SaveFails, SwitchInv, TypeOK, locals, account
<1>4. ASSUME NEW c \in Calls, RunCycle(c) PROVE SwitchInv'
  BY <1>4 DEF RunCycle, SwitchInv, TypeOK, shared, locals, history
<1>5. ASSUME NEW c \in Calls, BeginCycle(c) PROVE SwitchInv'
  BY <1>5 DEF BeginCycle, SwitchInv, TypeOK, shared
<1>6. ASSUME NEW c \in Calls, GatherBars(c) \/ Snapshot(c) \/ OrderAccepted(c) PROVE SwitchInv'
  BY <1>6 DEF GatherBars, Snapshot, OrderAccepted, SwitchInv, TypeOK, shared, history
<1>7. ASSUME NEW c \in Calls, PlaceOrder(c) PROVE SwitchInv'
  <2>1. permit[c]
    BY <1>7 DEF PlaceOrder, Refused
  <2> QED BY <1>7, <2>1 DEF PlaceOrder, SwitchInv, TypeOK, shared, history
<1>8. ASSUME NEW c \in Calls, FinishCycle(c) \/ CycleRaises(c) PROVE SwitchInv'
  <2>1. Leave(c)
    BY <1>8 DEF FinishCycle, CycleRaises
  <2> QED BY <2>1 DEF Leave, Release, SwitchInv, TypeOK, shared
<1>9. ASSUME Restart PROVE SwitchInv'
  BY <1>9 DEF Restart, Reload, SwitchInv, TypeOK
<1>10. ASSUME UNCHANGED <<shared, pc, permit, history>> PROVE SwitchInv'
  BY <1>10 DEF SwitchInv, shared, history
<1>11. ASSUME \/ \E c \in Calls : PassOver(c)
              \/ \E t \in Symbols : Fill(t) \/ Expire(t)
              \/ UNCHANGED vars
       PROVE  UNCHANGED <<shared, pc, permit, history>>
  BY <1>11 DEF PassOver, Fill, Expire, vars, locals
<1> QED
  BY <1>1, <1>2, <1>3, <1>4, <1>5, <1>6, <1>7, <1>8, <1>9, <1>10, <1>11 DEF Next, CycleStep

\* An acknowledged halt binds every later cycle, also across restarts.
THEOREM HaltBinds == Spec => []HaltBindsLaterCycles
<1>1. Spec => [](TypeInv /\ SwitchInv)
  BY InitTyped, NextTyped, InitSwitch, NextSwitch, PTL DEF Spec
<1>2. SwitchInv => HaltBindsLaterCycles
  BY DEF SwitchInv, HaltBindsLaterCycles
<1> QED BY <1>1, <1>2, PTL
-----------------------------------------------------------------------------
(***************************************************************************)
(* The caps.  Until a snapshot overlaps open orders, the cycle inside the  *)
(* lock sees every symbol it has still to handle exactly as the account is *)
(* and with nothing open on it, so a cap the guard checked on its view     *)
(* holds of the account, whichever part of the open orders fills.          *)
(***************************************************************************)
Exposed(s) ==
  /\ pos[s] - working[s]["sell"] >= 0
  /\ pos[s] + working[s]["buy"] <= MaxPositionQty

Untouched(c, s) ==
  view[c][s] = pos[s] /\ working[s]["buy"] = 0 /\ working[s]["sell"] = 0

Looping(c) == pc[c] \in {"decide", "submit"}

Ordered(c) ==
  LET o == order[c]
      after == view[c][o.symbol] + Delta(o.intent)
  IN  o.symbol \in todo[c] /\ 0 <= after /\ after <= MaxPositionQty

ExposureInv ==
  ~overlap /\ ~AllowShort =>
    /\ \A s \in Symbols : Exposed(s)
    /\ \A c \in Calls : Looping(c) => \A s \in todo[c] : Untouched(c, s)
    /\ \A c \in Calls : pc[c] = "submit" => Ordered(c)

\* Without shorting an intent on a long or flat position never takes it below zero.
LEMMA NeverShort ==
  ASSUME ~AllowShort, NEW notional \in Nat, NEW signal, NEW position \in Int, position >= 0,
         NEW price \in Int, Decide(notional, signal, position, price).qty > 0
  PROVE  position + Delta(Decide(notional, signal, position, price)) >= 0
<1> DEFINE i == Decide(notional, signal, position, price)
<1>1. CASE position = 0 /\ "bullish" \in signal
  <2>1. i = Buy(EntryQty(notional, price))
    BY <1>1 DEF Decide
  <2>2. i.qty \in Int /\ i.side = "buy"
    BY <2>1, DecideType DEF Buy, Intents
  <2> QED BY <2>2, <1>1 DEF Delta
<1>2. CASE position = 0 /\ "bullish" \notin signal
  BY <1>2 DEF Decide, None
<1>3. CASE position > 0
  BY <1>3 DEF Decide, None, Sell, Delta
<1> QED BY <1>1, <1>2, <1>3

\* What the broker receives moves one symbol and no other.
LEMMA ReceivedEffect ==
  ASSUME TypeOK, NEW o \in Orders, o.symbol \in Symbols, o.intent.side \in Sides,
         o.intent.qty > 0, Received(o)
  PROVE  /\ \A t \in Symbols : t # o.symbol => pos'[t] = pos[t] /\ working'[t] = working[t]
         /\ Remote => /\ pos' = pos
                      /\ \A d \in Sides : working'[o.symbol][d] =
                           working[o.symbol][d] + IF d = o.intent.side THEN o.intent.qty ELSE 0
         /\ ~Remote => /\ working' = working
                       /\ pos'[o.symbol] = pos[o.symbol] + Delta(o.intent)
<1>1. o.intent \in Intents /\ o.intent.qty \in Nat
  BY DEF Orders, Intents
<1>2. CASE Remote
  <2> DEFINE n == working[o.symbol][o.intent.side] + o.intent.qty
  <2>1. n \in Nat
    BY <1>1 DEF TypeOK
  <2>2. working' = Booked(o.symbol, o.intent.side, n) /\ pos' = pos
    BY <1>2 DEF Received
  <2>3. \A t \in Symbols : t # o.symbol => working'[t] = working[t]
    BY <2>2 DEF Booked, TypeOK
  <2>4. \A d \in Sides : working'[o.symbol][d] = IF d = o.intent.side THEN n ELSE working[o.symbol][d]
    BY <2>1, <2>2, BookedType DEF TypeOK
  <2>5. \A d \in Sides : working[o.symbol][d] \in Nat
    BY DEF TypeOK
  <2> QED BY <1>1, <1>2, <2>2, <2>3, <2>4, <2>5
<1>3. CASE ~Remote
  BY <1>1, <1>3, FilledType DEF Received, TypeOK
<1> QED BY <1>2, <1>3

\* Receiving the order of a cycle whose view is exact keeps the account safe.
LEMMA ReceivedExposure ==
  ASSUME TypeInv, ~overlap, ~AllowShort, ExposureInv, NEW c \in Calls, pc[c] = "submit",
         NEW CONSTANT o, o = order[c], Received(o)
  PROVE  \A s \in Symbols : Exposed(s)'
<1>1. o \in Orders /\ o.symbol \in Symbols /\ o.intent.side \in Sides /\ o.intent.qty > 0
      /\ o.intent.qty \in Int
  BY DEF TypeInv, TypeOK, ConfigInv, Orders, Intents
<1>2. Ordered(c) /\ Untouched(c, o.symbol) /\ \A s \in Symbols : Exposed(s)
  BY DEF ExposureInv, Looping, Ordered
<1>3. \A s \in Symbols : s # o.symbol => Exposed(s)'
  BY <1>1, <1>2, ReceivedEffect DEF Exposed, TypeInv
<1>4. pos[o.symbol] \in Int /\ view[c][o.symbol] = pos[o.symbol]
      /\ working[o.symbol]["buy"] = 0 /\ working[o.symbol]["sell"] = 0
  BY <1>1, <1>2 DEF Untouched, TypeInv, TypeOK, Positions
<1>5. /\ 0 <= pos[o.symbol] /\ pos[o.symbol] <= MaxPositionQty
      /\ 0 <= pos[o.symbol] + Delta(o.intent) /\ pos[o.symbol] + Delta(o.intent) <= MaxPositionQty
  BY <1>1, <1>2, <1>4, LimitsAssumption DEF Ordered, Exposed
<1>6. CASE ~Remote
  <2>1. pos'[o.symbol] = pos[o.symbol] + Delta(o.intent) /\ working' = working
    BY <1>1, <1>6, ReceivedEffect DEF TypeInv
  <2>2. Delta(o.intent) \in Int
    BY <1>1 DEF Delta
  <2>3. Exposed(o.symbol)'
    BY <1>4, <1>5, <2>1, <2>2, LimitsAssumption DEF Exposed
  <2> QED BY <1>3, <2>3
<1>7. CASE Remote
  <2>1. pos' = pos /\ \A d \in Sides : working'[o.symbol][d] =
                           working[o.symbol][d] + IF d = o.intent.side THEN o.intent.qty ELSE 0
    BY <1>1, <1>7, ReceivedEffect DEF TypeInv
  <2>2. CASE o.intent.side = "buy"
    <3>1. working'[o.symbol]["buy"] = o.intent.qty /\ working'[o.symbol]["sell"] = 0
      BY <1>1, <1>4, <2>1, <2>2 DEF Sides
    <3>2. Exposed(o.symbol)'
      BY <1>1, <1>4, <1>5, <2>1, <2>2, <3>1 DEF Exposed, Delta
    <3> QED BY <1>3, <3>2
  <2>3. CASE o.intent.side = "sell"
    <3>1. working'[o.symbol]["sell"] = o.intent.qty /\ working'[o.symbol]["buy"] = 0
      BY <1>1, <1>4, <2>1, <2>3 DEF Sides
    <3>2. Exposed(o.symbol)'
      BY <1>1, <1>4, <1>5, <2>1, <2>3, <3>1 DEF Exposed, Delta
    <3> QED BY <1>3, <3>2
  <2> QED BY <1>1, <2>2, <2>3 DEF Sides
<1> QED BY <1>6, <1>7
LEMMA InitExposure == Init => ExposureInv
BY LimitsAssumption DEF Init, ExposureInv, Exposed, Looping, Flat, NoOrders, Sides

\* Once the lock is free again only the account matters.
LEMMA OutsideExposure ==
  ASSUME \A c \in Calls : ~Looping(c)',
         ~overlap' /\ ~AllowShort => \A s \in Symbols : Exposed(s)'
  PROVE  ExposureInv'
BY DEF ExposureInv, Looping

LEMMA NextExposure == TypeInv /\ LockInv /\ ExposureInv /\ [Next]_vars => ExposureInv'
<1> SUFFICES ASSUME TypeInv, LockInv, ExposureInv, [Next]_vars, ~overlap', ~AllowShort
             PROVE ExposureInv'
  BY DEF ExposureInv
<1>0. ~overlap
  <2>1. overlap => overlap'
    BY DEF Next, CycleStep, SetTrading, SetStrategy, SaveFails, RunCycle, BeginCycle, GatherBars,
           Snapshot, PassOver, PlaceOrder, OrderAccepted, FinishCycle, CycleRaises, Leave, Fill,
           Expire, Restart, vars, history
  <2> QED BY <2>1
<1>a. /\ \A s \in Symbols : Exposed(s)
      /\ \A c \in Calls : Looping(c) => \A s \in todo[c] : Untouched(c, s)
      /\ \A c \in Calls : pc[c] = "submit" => Ordered(c)
  BY <1>0 DEF ExposureInv
<1>1. ASSUME UNCHANGED <<locals, account>>, \A c \in Calls : pc'[c] = pc[c] PROVE ExposureInv'
  BY <1>1, <1>a DEF ExposureInv, Exposed, Looping, Untouched, Ordered, locals, account
<1>2. ASSUME NEW c \in Calls, RunCycle(c) \/ BeginCycle(c) \/ GatherBars(c) PROVE ExposureInv'
  <2>1. UNCHANGED <<account, view, order>>
    BY <1>2 DEF RunCycle, BeginCycle, GatherBars, locals, account
  <2>2. \A d \in Calls : (pc'[d] = pc[d] /\ todo'[d] = todo[d]) \/ ~Looping(d)'
    BY <1>2 DEF RunCycle, BeginCycle, GatherBars, Looping, TypeInv, TypeOK, locals
  <2> QED BY <1>a, <2>1, <2>2 DEF ExposureInv, Exposed, Looping, Untouched, Ordered, account
<1>3. ASSUME NEW c \in Calls, Snapshot(c) PROVE ExposureInv'
  <2>1. Settled /\ UNCHANGED <<account, todo, order>>
    BY <1>3 DEF Snapshot, account
  <2>2. \A s \in Symbols : working[s]["buy"] = 0 /\ working[s]["sell"] = 0
    BY <2>1 DEF Settled, NoOrders, Sides
  <2>3. \A d \in Calls : d # c => ~Looping(d)'
    BY <1>3 DEF Snapshot, LockInv, Inside, Looping, TypeInv, TypeOK
  <2>4. view'[c] = pos /\ pc'[c] = "decide"
    BY <1>3 DEF Snapshot, TypeInv, TypeOK
  <2>5. \A s \in todo[c] : Untouched(c, s)'
    BY <2>1, <2>2, <2>4 DEF Untouched, account, TypeInv, TypeOK
  <2> QED BY <1>a, <2>1, <2>3, <2>4, <2>5 DEF ExposureInv, Exposed, Looping, account
<1>4. ASSUME NEW c \in Calls, PassOver(c) PROVE ExposureInv'
  <2>1. UNCHANGED <<account, pc, view, order>> /\ pc[c] = "decide"
    BY <1>4 DEF PassOver, account
  <2>2. \A d \in Calls : /\ todo'[d] \subseteq todo[d]
                         /\ d # c => todo'[d] = todo[d]
    BY <1>4 DEF PassOver, TypeInv, TypeOK
  <2> QED BY <1>a, <2>1, <2>2 DEF ExposureInv, Exposed, Looping, Untouched, Ordered, account
<1>5. ASSUME NEW c \in Calls, PlaceOrder(c) PROVE ExposureInv'
  <2>1. PICK s \in todo[c], signal \in Signals, price \in Prices :
          LET intent == Wanted(c, s, signal, price)
          IN  /\ intent # None
              /\ ~Refused(c, s, intent, price)
              /\ order' = [order EXCEPT ![c] = [symbol |-> s, intent |-> intent]]
    BY <1>5 DEF PlaceOrder
  <2>2. /\ s \in Symbols /\ price \in Int /\ pos[s] \in Int /\ cfg[c].notional \in Nat
        /\ working[s]["sell"] \in Nat
    BY <1>5, PricesAssumption, StrategiesAssumption
    DEF PlaceOrder, TypeInv, TypeOK, Positions, ConfigInv, Inside, Sides
  <2>3. view[c][s] = pos[s] /\ pos[s] >= 0
    BY <1>5, <1>a, <2>2 DEF PlaceOrder, Looping, Untouched, Exposed
  <2> DEFINE intent == Wanted(c, s, signal, price)
             after == view[c][s] + Delta(intent)
  <2>4. intent.qty > 0 /\ after <= MaxPositionQty
    BY <2>1 DEF Refused, GuardAllows, WithinPositionCap
  <2>5. 0 <= after
    BY <2>2, <2>3, <2>4, NeverShort DEF Wanted
  <2>6. \A d \in Calls : /\ todo'[d] = todo[d] /\ view'[d] = view[d]
                         /\ d # c => pc'[d] = pc[d] /\ order'[d] = order[d]
    BY <1>5 DEF PlaceOrder, TypeInv, TypeOK
  <2>7. order'[c] = [symbol |-> s, intent |-> intent]
    BY <2>1 DEF TypeInv, TypeOK
  <2>8. Ordered(c)'
    BY <2>4, <2>5, <2>6, <2>7 DEF Ordered
  <2>9. UNCHANGED account /\ Looping(c)
    BY <1>5 DEF PlaceOrder, Looping
  <2>10. \A d \in Calls : Looping(d)' => Looping(d)
    BY <2>6, <2>9 DEF Looping
  <2>11. \A d \in Calls : Looping(d)' => \A t \in todo'[d] : Untouched(d, t)'
    BY <1>a, <2>6, <2>9, <2>10 DEF Untouched, account
  <2>12. \A d \in Calls : pc'[d] = "submit" => Ordered(d)'
    BY <1>a, <2>6, <2>8 DEF Ordered
  <2> QED BY <1>a, <2>9, <2>11, <2>12 DEF ExposureInv, Exposed, account
<1>6. ASSUME NEW c \in Calls, OrderAccepted(c) PROVE ExposureInv'
  <2>0. PICK o : o = order[c]
    OBVIOUS
  <2>1. pc[c] = "submit" /\ Received(o) /\ o \in Orders /\ o.symbol \in Symbols
        /\ o.intent.side \in Sides /\ o.intent.qty > 0
    BY <1>6, <2>0 DEF OrderAccepted, TypeInv, TypeOK, ConfigInv
  <2>2. \A s \in Symbols : Exposed(s)'
    BY <1>0, <2>0, <2>1, ReceivedExposure
  <2>3. \A t \in Symbols : t # o.symbol => pos'[t] = pos[t] /\ working'[t] = working[t]
    BY <2>1, ReceivedEffect DEF TypeInv
  <2>4. \A d \in Calls : d # c => ~Looping(d)'
    BY <1>6 DEF OrderAccepted, LockInv, Inside, Looping, TypeInv, TypeOK
  <2>5. todo'[c] = todo[c] \ {o.symbol} /\ view'[c] = Filled(view[c], o.symbol, o.intent)
        /\ pc'[c] = "decide" /\ todo[c] \subseteq Symbols /\ view[c] \in Positions
    BY <1>6, <2>0 DEF OrderAccepted, TypeInv, TypeOK
  <2>6. \A t \in todo'[c] : view'[c][t] = view[c][t]
    BY <2>5 DEF Filled, Positions
  <2>7. \A t \in todo'[c] : Untouched(c, t)'
    BY <1>a, <2>1, <2>3, <2>5, <2>6 DEF Untouched, Looping
  <2> QED BY <2>2, <2>4, <2>5, <2>7 DEF ExposureInv, Looping
<1>7. ASSUME NEW c \in Calls, FinishCycle(c) \/ CycleRaises(c) PROVE ExposureInv'
  <2>0. PICK o : o = order[c]
    OBVIOUS
  <2>1. Inside(c) /\ Leave(c)
    BY <1>7 DEF FinishCycle, CycleRaises, Inside
  <2>2. \A d \in Calls : ~Looping(d)'
    BY <2>1 DEF Leave, Release, LockInv, Inside, Looping, TypeInv, TypeOK
  <2>3. UNCHANGED account \/ (pc[c] = "submit" /\ Received(o))
    BY <1>7, <2>0 DEF FinishCycle, CycleRaises
  <2>4. \A s \in Symbols : Exposed(s)'
    BY <1>0, <1>a, <2>0, <2>3, ReceivedExposure DEF Exposed, account
  <2> QED BY <2>2, <2>4, OutsideExposure
<1>8. ASSUME NEW t \in Symbols, Fill(t) PROVE ExposureInv'
  <2>0. PICK side \in Sides : \E q \in 1..working[t][side] :
          /\ working' = Booked(t, side, working[t][side] - q)
          /\ pos' = Filled(pos, t, [side |-> side, qty |-> q])
    BY <1>8 DEF Fill
  <2>1. PICK q \in 1..working[t][side] :
          /\ working' = Booked(t, side, working[t][side] - q)
          /\ pos' = Filled(pos, t, [side |-> side, qty |-> q])
    BY <2>0
  <2>2. q \in Nat /\ q > 0 /\ working[t][side] - q \in Nat /\ working[t][side] > 0
        /\ [side |-> side, qty |-> q] \in Intents
    BY DEF TypeInv, TypeOK, Intents, Sides
  <2>3. \A s \in Symbols, d \in Sides :
          working'[s][d] = IF s = t /\ d = side THEN working[t][side] - q ELSE working[s][d]
    <3> DEFINE n == working[t][side] - q
    <3>1. n \in Nat /\ working \in [Symbols -> [Sides -> Nat]] /\ working' = Booked(t, side, n)
      BY <2>1, <2>2 DEF TypeInv, TypeOK
    <3> HIDE DEF n
    <3>2. \A s \in Symbols, d \in Sides :
            working'[s][d] = IF s = t /\ d = side THEN n ELSE working[s][d]
      BY <3>1, BookedType
    <3> QED BY <3>2 DEF n
  <2>4. \A s \in Symbols : pos'[s] = IF s = t THEN pos[s] + Delta([side |-> side, qty |-> q]) ELSE pos[s]
    BY <2>1, <2>2, FilledType DEF TypeInv, TypeOK
  <2>5. Delta([side |-> side, qty |-> q]) = IF side = "buy" THEN q ELSE -q
    BY DEF Delta, Sides
  <2>6. \A s \in Symbols : pos[s] \in Int /\ working[s]["buy"] \in Nat /\ working[s]["sell"] \in Nat
    BY DEF TypeInv, TypeOK, Positions, Sides
  <2>7. \A s \in Symbols : Exposed(s)'
    <3>1. ASSUME NEW s \in Symbols, s # t PROVE Exposed(s)'
      BY <1>a, <2>3, <2>4, <3>1 DEF Exposed, Sides
    <3>2. CASE side = "buy"
      <4>1. working'[t]["buy"] = working[t]["buy"] - q /\ working'[t]["sell"] = working[t]["sell"]
            /\ pos'[t] = pos[t] + q
        BY <2>3, <2>4, <2>5, <3>2 DEF Sides
      <4>2. Exposed(t)'
        BY <1>a, <2>2, <2>6, <4>1, LimitsAssumption DEF Exposed
      <4> QED BY <3>1, <4>2
    <3>3. CASE side = "sell"
      <4>1. working'[t]["sell"] = working[t]["sell"] - q /\ working'[t]["buy"] = working[t]["buy"]
            /\ pos'[t] = pos[t] - q
        BY <2>3, <2>4, <2>5, <2>6, <2>2, <3>3 DEF Sides
      <4>2. Exposed(t)'
        BY <1>a, <2>2, <2>6, <4>1, LimitsAssumption DEF Exposed
      <4> QED BY <3>1, <4>2
    <3> QED BY <3>2, <3>3 DEF Sides
  <2>8. UNCHANGED <<pc, locals>>
    BY <1>8 DEF Fill
  <2>9. ASSUME NEW c \in Calls, Looping(c), NEW s \in todo[c] PROVE Untouched(c, s)'
    <3>1. Untouched(c, s) /\ s \in Symbols
      BY <1>a, <2>9 DEF TypeInv, TypeOK
    <3>2. s # t
      BY <2>2, <3>1 DEF Untouched, Sides
    <3> QED BY <2>3, <2>4, <2>8, <3>1, <3>2 DEF Untouched, locals, Sides
  <2> QED BY <1>a, <2>7, <2>8, <2>9 DEF ExposureInv, Looping, Ordered, locals
<1>9. ASSUME NEW t \in Symbols, Expire(t) PROVE ExposureInv'
  <2>1. PICK side \in Sides : working[t][side] > 0 /\ working' = Booked(t, side, 0)
    BY <1>9 DEF Expire
  <2>2. \A s \in Symbols, d \in Sides :
          working'[s][d] = IF s = t /\ d = side THEN 0 ELSE working[s][d]
    <3>1. 0 \in Nat /\ working \in [Symbols -> [Sides -> Nat]]
      BY DEF TypeInv, TypeOK
    <3> QED BY <2>1, <3>1, BookedType
  <2>3. \A s \in Symbols : pos[s] \in Int /\ working[s]["buy"] \in Nat /\ working[s]["sell"] \in Nat
    BY DEF TypeInv, TypeOK, Positions, Sides
  <2>4. UNCHANGED <<pc, pos, locals>>
    BY <1>9 DEF Expire
  <2>5. \A s \in Symbols : Exposed(s)'
    BY <1>a, <2>2, <2>3, <2>4, LimitsAssumption DEF Exposed, Sides
  <2>6. ASSUME NEW c \in Calls, Looping(c), NEW s \in todo[c] PROVE Untouched(c, s)'
    BY <1>a, <2>2, <2>4, <2>6 DEF Untouched, TypeInv, TypeOK, locals, Sides
  <2> QED BY <1>a, <2>4, <2>5, <2>6 DEF ExposureInv, Looping, Ordered, locals
<1>10. ASSUME Restart PROVE ExposureInv'
  <2>1. \A d \in Calls : ~Looping(d)'
    BY <1>10 DEF Restart, Looping
  <2>2. \A s \in Symbols : Exposed(s)'
    <3>1. CASE UNCHANGED account
      BY <1>a, <3>1 DEF Exposed, account
    <3>2. ASSUME NEW c \in Calls, pc[c] = "submit", Received(order[c])
          PROVE  \A s \in Symbols : Exposed(s)'
      BY <1>0, <3>2, ReceivedExposure
    <3>3. CASE pos' = Flat /\ working' = NoOrders
      BY <3>3, LimitsAssumption DEF Exposed, Flat, NoOrders, Sides
    <3> QED BY <1>10, <3>1, <3>2, <3>3 DEF Restart
  <2> QED BY <2>1, <2>2, OutsideExposure
<1>11. ASSUME \/ \E e \in BOOLEAN : SetTrading(e)
              \/ \E st \in Strategies : SetStrategy(st)
              \/ SaveFails
              \/ UNCHANGED vars
       PROVE  UNCHANGED <<locals, account>> /\ \A c \in Calls : pc'[c] = pc[c]
  BY <1>11 DEF SetTrading, SetStrategy, SaveFails, vars
<1> QED
  BY <1>1, <1>2, <1>3, <1>4, <1>5, <1>6, <1>7, <1>8, <1>9, <1>10, <1>11 DEF Next, CycleStep

\* Caps and long-only hold of the account as long as no snapshot overlaps open orders.
THEOREM CapsHold == Spec => []CapsHoldWhenSettled
<1>1. Spec => [](TypeInv /\ LockInv /\ ExposureInv)
  BY InitTyped, NextTyped, InitLock, NextLock, InitExposure, NextExposure, PTL DEF Spec
<1>2. ExposureInv => CapsHoldWhenSettled
  BY DEF ExposureInv, CapsHoldWhenSettled, Exposed
<1> QED BY <1>1, <1>2, PTL

-----------------------------------------------------------------------------
\* The workspace on a PaperBroker implements the abstract TradingDesk.
\* On a PaperBroker nothing stays open, so the cycle inside the lock sees the
\* account as it is, and the number of open positions is capped too.
PaperInv ==
  ~Remote =>
    /\ Settled /\ ~overlap
    /\ Cardinality(OpenPositions(pos)) <= MaxOpenPositions
    /\ \A c \in Calls : Looping(c) => view[c] = pos
    /\ \A c \in Calls : pc[c] = "submit" =>
         WithinOpenCap(view[c], order[c].symbol, Delta(order[c].intent))

LEMMA InitPaper == Init => PaperInv
<1> SUFFICES ASSUME Init PROVE PaperInv
  OBVIOUS
<1>1. OpenPositions(pos) = {}
  BY DEF Init, OpenPositions, Flat
<1>2. Cardinality({}) = 0
  BY FS_EmptySet
<1> QED BY <1>1, <1>2, LimitsAssumption DEF Init, PaperInv, Settled, Looping

LEMMA NextPaper == TypeInv /\ LockInv /\ PaperInv /\ [Next]_vars => PaperInv'
<1> SUFFICES ASSUME TypeInv, LockInv, PaperInv, [Next]_vars, ~Remote PROVE PaperInv'
  BY DEF PaperInv
<1>a. /\ Settled /\ ~overlap
      /\ Cardinality(OpenPositions(pos)) <= MaxOpenPositions
      /\ \A c \in Calls : Looping(c) => view[c] = pos
      /\ \A c \in Calls : pc[c] = "submit" =>
           WithinOpenCap(view[c], order[c].symbol, Delta(order[c].intent))
  BY DEF PaperInv
<1>1. ASSUME UNCHANGED <<account, view, order, overlap>>,
             \A c \in Calls : pc'[c] = pc[c] \/ ~Looping(c)'
      PROVE PaperInv'
  BY <1>1, <1>a DEF PaperInv, Settled, OpenPositions, Looping, WithinOpenCap, OpensNew, account
<1>2. ASSUME NEW c \in Calls, RunCycle(c) \/ BeginCycle(c) \/ GatherBars(c)
      PROVE  UNCHANGED <<account, view, order, overlap>> /\ \A d \in Calls : pc'[d] = pc[d] \/ ~Looping(d)'
  BY <1>2 DEF RunCycle, BeginCycle, GatherBars, Looping, TypeInv, TypeOK, locals, account, history
<1>3. ASSUME NEW c \in Calls, Snapshot(c) PROVE PaperInv'
  <2>0. overlap' = (overlap \/ ~Settled) /\ UNCHANGED <<pos, working, order>>
    BY <1>3 DEF Snapshot, account
  <2>1. Settled' /\ ~overlap' /\ UNCHANGED <<pos, order>>
    BY <1>a, <2>0 DEF Settled, NoOrders
  <2>2. \A d \in Calls : (d = c /\ pc'[d] = "decide" /\ view'[d] = pos) \/ ~Looping(d)'
    BY <1>3 DEF Snapshot, LockInv, Inside, Looping, TypeInv, TypeOK
  <2> QED BY <1>a, <2>1, <2>2 DEF PaperInv, Settled, OpenPositions, Looping
<1>4. ASSUME NEW c \in Calls, PlaceOrder(c) PROVE PaperInv'
  <2>1. PICK s \in todo[c], signal \in Signals, price \in Prices :
          LET intent == Wanted(c, s, signal, price)
          IN  /\ intent # None
              /\ ~Refused(c, s, intent, price)
              /\ order' = [order EXCEPT ![c] = [symbol |-> s, intent |-> intent]]
    BY <1>4 DEF PlaceOrder
  <2> DEFINE intent == Wanted(c, s, signal, price)
  <2>2. WithinOpenCap(view[c], s, Delta(intent))
    BY <2>1 DEF Refused, GuardAllows
  <2>3. UNCHANGED <<account, view, overlap>> /\ pc[c] = "decide"
    BY <1>4 DEF PlaceOrder, history
  <2>4. \A d \in Calls : d # c => pc'[d] = pc[d] /\ order'[d] = order[d]
    BY <1>4 DEF PlaceOrder, TypeInv, TypeOK
  <2>5. order'[c].symbol = s /\ order'[c].intent = intent
    BY <2>1 DEF TypeInv, TypeOK
  <2>6. WithinOpenCap(view[c], order[c].symbol, Delta(order[c].intent))'
    BY <2>2, <2>3, <2>5 DEF WithinOpenCap, OpensNew, OpenPositions
  <2>7. \A d \in Calls : pc'[d] = "submit" =>
          WithinOpenCap(view[d], order[d].symbol, Delta(order[d].intent))'
    BY <1>a, <2>3, <2>4, <2>6 DEF WithinOpenCap, OpensNew, OpenPositions
  <2>8. \A d \in Calls : Looping(d)' => view'[d] = pos'
    BY <1>a, <2>3, <2>4 DEF Looping, account
  <2> QED BY <1>a, <2>3, <2>7, <2>8 DEF PaperInv, Settled, OpenPositions, account
<1>5. ASSUME NEW c \in Calls, OrderAccepted(c) PROVE PaperInv'
  <2>1. order[c].symbol \in Symbols /\ order[c].intent \in Intents /\ pos \in Positions
        /\ pc[c] = "submit" /\ view[c] = pos
    BY <1>5, <1>a DEF OrderAccepted, TypeInv, TypeOK, ConfigInv, Orders, Looping
  <2>2. pos' = Filled(pos, order[c].symbol, order[c].intent) /\ working' = working
    BY <1>5 DEF OrderAccepted, Received
  <2>3. Cardinality(OpenPositions(pos')) <= MaxOpenPositions
    BY <1>a, <2>1, <2>2, FilledOpenCap
  <2>4. \A d \in Calls : (d = c /\ pc'[d] = "decide" /\ view'[d] = pos') \/ ~Looping(d)'
    BY <1>5, <2>1, <2>2 DEF OrderAccepted, LockInv, Inside, Looping, TypeInv, TypeOK
  <2>5. Settled' /\ ~overlap'
    BY <1>5, <1>a, <2>2 DEF OrderAccepted, Settled, NoOrders, history
  <2> QED BY <2>3, <2>4, <2>5 DEF PaperInv, OpenPositions, Looping
<1>6. ASSUME NEW c \in Calls, FinishCycle(c) \/ CycleRaises(c) PROVE PaperInv'
  <2>1. Inside(c) /\ Leave(c) /\ UNCHANGED account
    BY <1>6 DEF FinishCycle, CycleRaises, Inside
  <2>2. \A d \in Calls : ~Looping(d)'
    BY <2>1 DEF Leave, Release, LockInv, Inside, Looping, TypeInv, TypeOK
  <2> QED BY <1>a, <2>1, <2>2 DEF PaperInv, Settled, OpenPositions, Looping, Leave, Release, account
<1>7. ASSUME NEW s \in Symbols, Fill(s) \/ Expire(s) PROVE FALSE
  <2>1. \A side \in Sides : working[s][side] = 0
    BY <1>a DEF Settled, NoOrders
  <2>2. ~ Expire(s)
    BY <2>1 DEF Expire
  <2>3. ASSUME Fill(s) PROVE FALSE
    <3>1. PICK side \in Sides : \E q \in 1..working[s][side] : TRUE
      BY <2>3 DEF Fill
    <3> QED BY <2>1, <3>1
  <2> QED BY <1>7, <2>2, <2>3
<1>8. ASSUME Restart PROVE PaperInv'
  <2>1. pos' = Flat /\ working' = NoOrders /\ ~overlap' /\ \A d \in Calls : ~Looping(d)'
    BY <1>8, <1>a DEF Restart, Looping
  <2>2. OpenPositions(pos') = {} /\ Cardinality({}) = 0
    BY <2>1, FS_EmptySet DEF OpenPositions, Flat
  <2> QED BY <2>1, <2>2, LimitsAssumption DEF PaperInv, Settled, OpenPositions, Looping
<1>9. ASSUME \/ \E e \in BOOLEAN : SetTrading(e)
             \/ \E st \in Strategies : SetStrategy(st)
             \/ SaveFails
             \/ \E c \in Calls : PassOver(c)
             \/ UNCHANGED vars
      PROVE  UNCHANGED <<account, view, order, overlap>> /\ \A d \in Calls : pc'[d] = pc[d]
  BY <1>9 DEF SetTrading, SetStrategy, SaveFails, PassOver, vars, locals, history
<1> QED
  BY <1>1, <1>2, <1>3, <1>4, <1>5, <1>6, <1>7, <1>8, <1>9 DEF Next, CycleStep

-----------------------------------------------------------------------------
DeskInv == TypeInv /\ LockInv /\ SwitchInv /\ ExposureInv /\ PaperInv

\* The pass under way, as the refinement mapping of Workspace reads it.
Pass == IF lock = NoCall THEN "none" ELSE IF permit[lock] THEN "armed" ELSE "disarmed"

\* An accepted order is a trade of the desk: it was placed under an armed pass, it
\* moves one position, and it leaves the account long and within the caps.
LEMMA AcceptedIsTrade ==
  ASSUME ~Remote, ~AllowShort, DeskInv, DeskInv', NEW c \in Calls, OrderAccepted(c)
  PROVE  Desk!Trade
<1> USE DEF DeskInv
<1> DEFINE s == order[c].symbol
           i == order[c].intent
<1>1. /\ pc[c] = "submit" /\ lock = c /\ permit[c] /\ c # NoCall
      /\ s \in Symbols /\ i \in Intents /\ pos \in Positions /\ pos' \in Positions
  BY CallsAssumption
     DEF OrderAccepted, LockInv, Inside, SwitchInv, TypeInv, TypeOK, ConfigInv, Orders
<1>2. pos' = Filled(pos, s, i) /\ UNCHANGED <<trading_enabled, lock, permit>>
  BY DEF OrderAccepted, Received, shared
<1>3. pos' = [pos EXCEPT ![s] = pos'[s]]
  BY <1>1, <1>2 DEF Filled, Positions
<1>4. \A t \in Symbols : 0 <= pos'[t] /\ pos'[t] <= MaxPositionQty
  <2>1. ~overlap' /\ \A t \in Symbols : working'[t]["buy"] = 0 /\ working'[t]["sell"] = 0
    BY DEF PaperInv, Settled, NoOrders, Sides
  <2>2. \A t \in Symbols : Exposed(t)'
    BY <2>1 DEF ExposureInv
  <2> QED BY <1>1, <2>1, <2>2, LimitsAssumption DEF Exposed, Positions
<1>5. pos'[s] \in 0..MaxPositionQty
  BY <1>1, <1>4, LimitsAssumption DEF Positions
<1>6. Desk!WithinCaps(pos')
  <2>1. Cardinality(OpenPositions(pos')) <= MaxOpenPositions
    BY DEF PaperInv, OpenPositions
  <2>2. Desk!OpenPositions(pos') = OpenPositions(pos')
    BY DEF OpenPositions, Desk!OpenPositions
  <2>3. \A t \in Symbols : Desk!WithinPositionCap(pos'[t])
    BY <1>1, <1>4, LimitsAssumption DEF Desk!WithinPositionCap, Positions
  <2>4. Desk!Cardinality(OpenPositions(pos')) = Cardinality(OpenPositions(pos'))
    BY DEF Cardinality, Desk!Cardinality
  <2> QED BY <2>1, <2>2, <2>3, <2>4 DEF Desk!WithinCaps
<1>7. \E t \in Symbols, q \in 0..MaxPositionQty : pos' = [pos EXCEPT ![t] = q]
  BY <1>1, <1>3, <1>5
<1>8. Pass = "armed" /\ Pass' = Pass /\ trading_enabled' = trading_enabled
  BY <1>1, <1>2 DEF Pass
<1> QED BY <1>6, <1>7, <1>8 DEF Desk!Trade, Pass

LEMMA StepIsDeskStep ==
  ASSUME ~Remote, ~AllowShort, DeskInv, DeskInv', [Next]_vars
  PROVE  [Desk!DeskNext]_(Desk!deskVars)
<1> USE DEF DeskInv
<1> USE CallsAssumption
<1>1. ASSUME NEW e \in BOOLEAN, SetTrading(e) PROVE Desk!Switch
  BY <1>1 DEF SetTrading, Desk!Switch, locals, account
<1>2. ASSUME NEW st \in Strategies, SetStrategy(st) PROVE UNCHANGED Desk!deskVars
  BY <1>2 DEF SetStrategy, Desk!deskVars, locals, account
<1>3. ASSUME SaveFails PROVE Desk!Switch
  BY <1>3 DEF SaveFails, Desk!Switch, locals, account, TypeInv, TypeOK
<1>4. ASSUME NEW c \in Calls, BeginCycle(c) PROVE Desk!BeginPass
  BY <1>4 DEF BeginCycle, LockFree, Desk!BeginPass, shared, account, TypeInv, TypeOK
<1>5. ASSUME NEW c \in Calls, OrderAccepted(c) PROVE Desk!Trade
  BY <1>5, AcceptedIsTrade
<1>6. ASSUME NEW c \in Calls, FinishCycle(c) \/ CycleRaises(c) PROVE Desk!EndPass
  <2>1. Inside(c) /\ lock' = NoCall /\ UNCHANGED <<trading_enabled, pos>>
    BY <1>6 DEF FinishCycle, CycleRaises, Leave, Release, Inside, shared, account
  <2>2. lock = c
    BY <2>1 DEF LockInv
  <2> QED BY <2>1, <2>2 DEF Desk!EndPass
<1>7. ASSUME Restart PROVE Desk!Crash
  BY <1>7 DEF Restart, Reload, Desk!Crash, Flat, Desk!Flat, TypeInv, TypeOK
<1>8. ASSUME NEW c \in Calls,
             RunCycle(c) \/ GatherBars(c) \/ Snapshot(c) \/ PassOver(c) \/ PlaceOrder(c)
      PROVE  UNCHANGED Desk!deskVars
  BY <1>8 DEF RunCycle, GatherBars, Snapshot, PassOver, PlaceOrder, Desk!deskVars, shared, locals, account
<1>9. ASSUME NEW t \in Symbols, Fill(t) \/ Expire(t) PROVE FALSE
  <2>1. \A side \in Sides : working[t][side] = 0
    BY DEF PaperInv, Settled, NoOrders
  <2>2. ~ Expire(t)
    BY <2>1 DEF Expire
  <2>3. ASSUME Fill(t) PROVE FALSE
    <3>1. PICK side \in Sides : \E q \in 1..working[t][side] : TRUE
      BY <2>3 DEF Fill
    <3> QED BY <2>1, <3>1
  <2> QED BY <1>9, <2>2, <2>3
<1>10. ASSUME UNCHANGED vars PROVE UNCHANGED Desk!deskVars
  BY <1>10 DEF vars, Desk!deskVars, shared, locals, account
<1> QED
  BY <1>1, <1>2, <1>3, <1>4, <1>5, <1>6, <1>7, <1>8, <1>9, <1>10 DEF Next, CycleStep, Desk!DeskNext

\* With the in-process PaperBroker and no shorting, the lock, the snapshot of the
\* positions and the guard together give what TradingDesk promises.
THEOREM DeskImplemented ==
  ASSUME ~Remote, ~AllowShort
  PROVE  Spec => ImplementsDesk
<1>1. Init => DeskInv
  BY InitTyped, InitLock, InitSwitch, InitExposure, InitPaper DEF DeskInv
<1>2. DeskInv /\ [Next]_vars => DeskInv'
  BY NextTyped, NextLock, NextSwitch, NextExposure, NextPaper DEF DeskInv
<1>3. Init => Desk!DeskInit
  BY DEF Init, Desk!DeskInit, Flat, Desk!Flat
<1>4. DeskInv /\ DeskInv' /\ [Next]_vars => [Desk!DeskNext]_(Desk!deskVars)
  BY StepIsDeskStep
<1> QED BY <1>1, <1>2, <1>3, <1>4, PTL DEF Spec, ImplementsDesk, Desk!DeskSpec
=============================================================================
