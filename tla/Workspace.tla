------------------------------ MODULE Workspace ------------------------------
(***************************************************************************)
(* The shared team workspace (workspace/workspace.py) running the trading  *)
(* cycle (runner/cycle.py) on one shared account.  Everything runs on one  *)
(* asyncio loop, so a handler is atomic between two awaits; run_cycle      *)
(* awaits its lock, the bars of the watchlist, the positions of the broker *)
(* and every submitted order, and each of these is a step of its own.      *)
(*                                                                         *)
(* The account is either PaperBroker, in the process and filling at once,  *)
(* or (Remote) Alpaca, whose orders stay open for a while, whose calls may *)
(* raise, and which outlives the process.  The guard is always armed on a  *)
(* paper account: on a live one RiskGuard raises before anything happens.  *)
(* The audit list and the events of the bus are written and never read     *)
(* back, and are left out.                                                 *)
(***************************************************************************)
EXTENDS TradingRules, Sequences

CONSTANTS
  Calls,        \* run_cycle requests that may be open at once
  NoCall,       \* nobody: the value of a free lock
  Strategies,   \* strategies members may set: [watchlist, notional]
  NoStrategy,   \* `None`
  Prices,       \* last closes the data source may report
  Remote,       \* Alpaca (TRUE) or the in-process PaperBroker (FALSE)
  HasStore,     \* WAYSTONE_DB is set
  MaxWorking    \* bound: shares in open orders above which no call is made

ASSUME CallsAssumption == NoCall \notin Calls
ASSUME StrategiesAssumption ==
  /\ \A st \in Strategies : st.watchlist \subseteq Symbols /\ st.notional \in Nat
  /\ NoStrategy \notin Strategies
ASSUME PricesAssumption == Prices \subseteq Int
ASSUME ModesAssumption == Remote \in BOOLEAN /\ HasStore \in BOOLEAN
ASSUME MaxWorkingAssumption == MaxWorking \in Nat

VARIABLES
  trading_enabled,  \* TradingWorkspace.trading_enabled
  strategy,         \* TradingWorkspace.strategy
  store,            \* the meta table: the saved switch and strategy
  lock,             \* the call inside `async with self._lock`
  queue,            \* the calls waiting for it, first come first served
  pc,               \* where each call is
  cfg,              \* the strategy the call read under the lock
  permit,           \* the trading_enabled argument of its run_cycle
  todo,             \* composites still to be handled, as their symbols
  view,             \* positions as the cycle and its guard see them
  order,            \* the order being submitted: [symbol, intent]
  pos,              \* the broker's positions
  working,          \* open orders at the broker, per symbol and side
  calm,             \* history: a halt was acknowledged, no resume since
  calmAt,           \* history: calm as the call entered the lock
  overlap           \* history: a snapshot was taken with orders still open

shared == <<trading_enabled, strategy, store>>
account == <<pos, working>>
locals == <<cfg, permit, todo, view, order>>
history == <<calm, calmAt, overlap>>
vars == <<shared, lock, queue, pc, locals, account, history>>

Sides == {"buy", "sell"}
NoOrders == [s \in Symbols |-> [side \in Sides |-> 0]]
Settled == working = NoOrders

\* The open orders once n shares are open on one side of a symbol.
Booked(s, side, n) == [working EXCEPT ![s][side] = n]

Orders == [symbol : Symbols \cup {NoCall}, intent : Intents]
NoOrder == [symbol |-> NoCall, intent |-> None]

-----------------------------------------------------------------------------
Init ==
  /\ trading_enabled = TRUE
  /\ strategy = NoStrategy
  /\ store = [enabled |-> TRUE, strategy |-> NoStrategy]
  /\ lock = NoCall
  /\ queue = <<>>
  /\ pc = [c \in Calls |-> "idle"]
  /\ cfg = [c \in Calls |-> NoStrategy]
  /\ permit = [c \in Calls |-> FALSE]
  /\ todo = [c \in Calls |-> {}]
  /\ view = [c \in Calls |-> Flat]
  /\ order = [c \in Calls |-> NoOrder]
  /\ pos = Flat
  /\ working = NoOrders
  /\ calm = FALSE
  /\ calmAt = [c \in Calls |-> FALSE]
  /\ overlap = FALSE

-----------------------------------------------------------------------------
(***************************************************************************)
(* The operators' switches.  Each handler changes memory first and the     *)
(* database second; a failing write leaves the two apart and raises, so    *)
(* the member is not told that it worked.                                  *)
(***************************************************************************)
Save(field, value) == IF HasStore THEN [store EXCEPT ![field] = value] ELSE store

SetTrading(enabled) ==
  /\ trading_enabled' = enabled
  /\ store' = Save("enabled", enabled)
  /\ calm' = ~enabled
  /\ UNCHANGED <<strategy, lock, queue, pc, locals, account, calmAt, overlap>>

SetStrategy(config) ==
  /\ strategy' = config
  /\ store' = Save("strategy", config)
  /\ UNCHANGED <<trading_enabled, lock, queue, pc, locals, account, history>>

\* SQLite raises in save_trading_enabled or save_strategy.  A resume that
\* was asked for ends the calm even when it is not saved.
SaveFails ==
  /\ HasStore
  /\ \/ \E enabled \in BOOLEAN :
          /\ trading_enabled' = enabled
          /\ calm' = (calm /\ ~enabled)
          /\ UNCHANGED strategy
     \/ \E config \in Strategies :
          /\ strategy' = config
          /\ UNCHANGED <<trading_enabled, calm>>
  /\ UNCHANGED <<store, lock, queue, pc, locals, account, calmAt, overlap>>

-----------------------------------------------------------------------------
(***************************************************************************)
(* One run_cycle request.                                                  *)
(***************************************************************************)
\* The bound: no call is made while a symbol has more than MaxWorking
\* shares in open orders on one side.
RoomForOrders ==
  \A s \in Symbols : working[s]["buy"] <= MaxWorking /\ working[s]["sell"] <= MaxWorking

\* TradingWorkspace.run_cycle up to the lock; without a strategy it raises.
RunCycle(c) ==
  /\ pc[c] = "idle"
  /\ strategy # NoStrategy
  /\ RoomForOrders
  /\ queue' = Append(queue, c)
  /\ pc' = [pc EXCEPT ![c] = "waiting"]
  /\ UNCHANGED <<shared, lock, locals, account, history>>

\* Mutant: no lock around the cycle.
NoLockTaken == TRUE

LockFree == lock = NoCall

\* Inside the lock, before the first await: the strategy and the switch are
\* read here and not again.
BeginCycle(c) ==
  /\ pc[c] = "waiting"
  /\ LockFree
  /\ queue # <<>> /\ Head(queue) = c
  /\ lock' = c
  /\ queue' = Tail(queue)
  /\ pc' = [pc EXCEPT ![c] = "gather"]
  /\ cfg' = [cfg EXCEPT ![c] = strategy]
  /\ permit' = [permit EXCEPT ![c] = trading_enabled]
  /\ calmAt' = [calmAt EXCEPT ![c] = calm]
  /\ UNCHANGED <<shared, todo, view, order, account, calm, overlap>>

\* _gather_bars, score_all and fuse: a symbol without bars, or that no
\* contributor scored, has no composite.
GatherBars(c) ==
  /\ pc[c] = "gather"
  /\ \E scored \in SUBSET cfg[c].watchlist : todo' = [todo EXCEPT ![c] = scored]
  /\ pc' = [pc EXCEPT ![c] = "snapshot"]
  /\ UNCHANGED <<shared, lock, queue, cfg, permit, view, order, account, history>>

\* Mutant: the guard keeps its own account of the positions.
SnapshotUnsynced(c) ==
  /\ pc[c] = "snapshot"
  /\ overlap' = (overlap \/ ~Settled)
  /\ pc' = [pc EXCEPT ![c] = "decide"]
  /\ UNCHANGED <<shared, lock, queue, locals, account, calm, calmAt>>

\* broker.get_positions and guard.sync_positions; open orders are not asked for.
Snapshot(c) ==
  /\ pc[c] = "snapshot"
  /\ view' = [view EXCEPT ![c] = pos]
  /\ overlap' = (overlap \/ ~Settled)
  /\ pc' = [pc EXCEPT ![c] = "decide"]
  /\ UNCHANGED <<shared, lock, queue, cfg, permit, todo, order, account, calm, calmAt>>

\* The order the cycle would place for symbol s, if the data say so.
Wanted(c, s, signal, price) ==
  Decide(cfg[c].notional, signal, view[c][s], price)

\* Mutant: the switch is not looked at.
RefusedByGuard(c, s, intent, price) == ~GuardAllows(view[c], s, intent, price)

Refused(c, s, intent, price) ==
  \/ ~permit[c]
  \/ ~GuardAllows(view[c], s, intent, price)

\* One turn of the loop over the composites that places nothing: no intent,
\* trading disabled, or the guard raised RiskViolationError.
PassOver(c) ==
  /\ pc[c] = "decide"
  /\ \E s \in todo[c], signal \in Signals, price \in Prices :
       /\ LET intent == Wanted(c, s, signal, price)
          IN  intent = None \/ Refused(c, s, intent, price)
       /\ todo' = [todo EXCEPT ![c] = @ \ {s}]
  /\ UNCHANGED <<shared, lock, queue, pc, cfg, permit, view, order, account, history>>

\* One turn that gets as far as `await broker.submit_order`.
PlaceOrder(c) ==
  /\ pc[c] = "decide"
  /\ \E s \in todo[c], signal \in Signals, price \in Prices :
       LET intent == Wanted(c, s, signal, price)
       IN  /\ intent # None
           /\ ~Refused(c, s, intent, price)
           /\ order' = [order EXCEPT ![c] = [symbol |-> s, intent |-> intent]]
  /\ pc' = [pc EXCEPT ![c] = "submit"]
  /\ UNCHANGED <<shared, lock, queue, cfg, permit, todo, view, account, history>>

\* What the broker does with an order it receives.
Received(o) ==
  IF Remote
  THEN /\ working' = Booked(o.symbol, o.intent.side,
                            working[o.symbol][o.intent.side] + o.intent.qty)
       /\ UNCHANGED pos
  ELSE /\ pos' = Filled(pos, o.symbol, o.intent)
       /\ UNCHANGED working

\* submit_order returns: apply_fill and the local positions book the order
\* as filled, whatever its status.
OrderAccepted(c) ==
  /\ pc[c] = "submit"
  /\ Received(order[c])
  /\ view' = [view EXCEPT ![c] = Filled(@, order[c].symbol, order[c].intent)]
  /\ todo' = [todo EXCEPT ![c] = @ \ {order[c].symbol}]
  /\ order' = [order EXCEPT ![c] = NoOrder]
  /\ pc' = [pc EXCEPT ![c] = "decide"]
  /\ UNCHANGED <<shared, lock, queue, cfg, permit, history>>

\* Mutant: released after the loop, and not when something raises.
ReleaseOnReturn(c) == lock' = IF pc[c] = "decide" THEN NoCall ELSE lock

Release(c) == lock' = NoCall

\* Leaving `async with`, by return or by exception, frees the lock and drops
\* the locals.
Leave(c) ==
  /\ Release(c)
  /\ pc' = [pc EXCEPT ![c] = "idle"]
  /\ cfg' = [cfg EXCEPT ![c] = NoStrategy]
  /\ permit' = [permit EXCEPT ![c] = FALSE]
  /\ todo' = [todo EXCEPT ![c] = {}]
  /\ view' = [view EXCEPT ![c] = Flat]
  /\ order' = [order EXCEPT ![c] = NoOrder]
  /\ calmAt' = [calmAt EXCEPT ![c] = FALSE]
  /\ UNCHANGED <<shared, queue, calm, overlap>>

FinishCycle(c) ==
  /\ pc[c] = "decide" /\ todo[c] = {}
  /\ Leave(c)
  /\ UNCHANGED account

\* The data source raises, or a remote broker does; an order whose answer was
\* lost may have been received all the same.
CycleRaises(c) ==
  /\ \/ pc[c] = "gather" /\ UNCHANGED account
     \/ Remote /\ pc[c] \in {"snapshot", "submit"} /\ UNCHANGED account
     \/ Remote /\ pc[c] = "submit" /\ Received(order[c])
  /\ Leave(c)

-----------------------------------------------------------------------------
(***************************************************************************)
(* Alpaca (external): fills an open order in parts, or drops what is left  *)
(* of it (a rejection, or the end of the day for a DAY order).             *)
(***************************************************************************)
Fill(s) ==
  /\ \E side \in Sides : \E q \in 1..working[s][side] :
       /\ working' = Booked(s, side, working[s][side] - q)
       /\ pos' = Filled(pos, s, [side |-> side, qty |-> q])
  /\ UNCHANGED <<shared, lock, queue, pc, locals, history>>

Expire(s) ==
  /\ \E side \in Sides :
       /\ working[s][side] > 0
       /\ working' = Booked(s, side, 0)
  /\ UNCHANGED <<shared, lock, queue, pc, locals, pos, history>>

-----------------------------------------------------------------------------
\* Mutant: the switch is saved and never read back.
ReloadArmed ==
  /\ trading_enabled' = TRUE
  /\ strategy' = IF HasStore THEN store.strategy ELSE NoStrategy

\* Mutant: without its default, the switch nobody has saved yet loads as None.
ReloadWithoutDefault ==
  /\ trading_enabled' = IF HasStore /\ ~store.enabled THEN FALSE ELSE NoStrategy
  /\ strategy' = IF HasStore THEN store.strategy ELSE NoStrategy

\* The process dies, with or without the order in flight having reached the
\* remote broker, and starts again: _load reads the switch and the strategy
\* (without a database, the defaults), and a PaperBroker is empty.
Reload ==
  /\ trading_enabled' = (HasStore => store.enabled)
  /\ strategy' = IF HasStore THEN store.strategy ELSE NoStrategy

Restart ==
  /\ Reload
  /\ lock' = NoCall
  /\ queue' = <<>>
  /\ pc' = [c \in Calls |-> "idle"]
  /\ cfg' = [c \in Calls |-> NoStrategy]
  /\ permit' = [c \in Calls |-> FALSE]
  /\ todo' = [c \in Calls |-> {}]
  /\ view' = [c \in Calls |-> Flat]
  /\ order' = [c \in Calls |-> NoOrder]
  /\ calmAt' = [c \in Calls |-> FALSE]
  /\ IF Remote
     THEN \/ UNCHANGED account
          \/ \E c \in Calls : pc[c] = "submit" /\ Received(order[c])
     ELSE pos' = Flat /\ working' = NoOrders
  /\ UNCHANGED <<store, calm, overlap>>

-----------------------------------------------------------------------------
CycleStep(c) ==
  \/ BeginCycle(c)
  \/ GatherBars(c)
  \/ Snapshot(c)
  \/ PassOver(c)
  \/ PlaceOrder(c)
  \/ OrderAccepted(c)
  \/ FinishCycle(c)
  \/ CycleRaises(c)

Next ==
  \/ \E enabled \in BOOLEAN : SetTrading(enabled)
  \/ \E config \in Strategies : SetStrategy(config)
  \/ SaveFails
  \/ \E c \in Calls : RunCycle(c) \/ CycleStep(c)
  \/ \E s \in Symbols : Fill(s) \/ Expire(s)
  \/ Restart

Spec == Init /\ [][Next]_vars

\* The event loop runs every task that is ready, and every call it awaits
\* returns or raises.  Nobody has to ask for anything, and the market need
\* not fill.
FairSpec == Spec /\ \A c \in Calls : WF_vars(CycleStep(c))

-----------------------------------------------------------------------------
(***************************************************************************)
(* Properties.                                                             *)
(***************************************************************************)
PCs == {"idle", "waiting", "gather", "snapshot", "decide", "submit"}
Inside(c) == pc[c] \in {"gather", "snapshot", "decide", "submit"}
Switches == [enabled : BOOLEAN, strategy : Strategies \cup {NoStrategy}]

\* Types of every variable.
TypeOK ==
  /\ trading_enabled \in BOOLEAN
  /\ strategy \in Strategies \cup {NoStrategy}
  /\ store \in Switches
  /\ lock \in Calls \cup {NoCall}
  /\ queue \in Seq(Calls)
  /\ pc \in [Calls -> PCs]
  /\ cfg \in [Calls -> Strategies \cup {NoStrategy}]
  /\ permit \in [Calls -> BOOLEAN]
  /\ todo \in [Calls -> SUBSET Symbols]
  /\ view \in [Calls -> Positions]
  /\ order \in [Calls -> Orders]
  /\ pos \in Positions
  /\ working \in [Symbols -> [Sides -> Nat]]
  /\ calm \in BOOLEAN
  /\ calmAt \in [Calls -> BOOLEAN]
  /\ overlap \in BOOLEAN

\* The module docstring's "a single-cycle lock prevents two operators from
\* trading at once": no two requests are ever inside the lock, on any path out
\* of it (a return, an exception, a restart).
OneCycleAtATime == \A c, d \in Calls : Inside(c) /\ Inside(d) => c = d

\* A halt that was acknowledged binds every cycle that enters the lock after
\* it, until somebody asks to resume: also one that was queued before the halt,
\* and also after a restart, which has to find the halt in the database.
HaltBindsLaterCycles ==
  HasStore => \A c \in Calls : calmAt[c] => pc[c] # "submit"

\* The guard's caps hold of the real account whatever fills and whatever
\* expires, and it never goes short, as long as no cycle took its snapshot
\* while orders were still open.  PaperBroker fills at once, so there it is
\* unconditional.
CapsHoldWhenSettled ==
  ~overlap /\ ~AllowShort =>
    \A s \in Symbols : /\ pos[s] - working[s]["sell"] >= 0
                       /\ pos[s] + working[s]["buy"] <= MaxPositionQty

\* risk/guard.py promises "a small set of hard caps" that every order passes
\* through: a position never grows beyond max_position_qty.
PositionCapIsHard == \A s \in Symbols : WithinPositionCap(pos[s])

\* mcp_server.py's halt is documented to "stop the workspace from placing any
\* new orders": no order goes to the broker while the switch is off.
HaltStopsOrders == [][\A c \in Calls : PlaceOrder(c) => trading_enabled]_vars

\* Every request that waits for the lock gets its answer, so the lock is
\* released on every path and nobody is overtaken for ever.
CallsReturn == \A c \in Calls : pc[c] = "waiting" ~> pc[c] = "idle"

\* A halt that nobody lifts ends trading: eventually no order is in flight and
\* none ever will be.
HaltQuiets ==
  <>[](~trading_enabled) => <>[](\A c \in Calls : pc[c] # "submit")

\* The workspace on a PaperBroker implements the abstract desk: the request
\* inside the lock is the pass under way.
Desk == INSTANCE TradingDesk WITH
  enabled <- trading_enabled,
  pass <- IF lock = NoCall THEN "none"
          ELSE IF permit[lock] THEN "armed" ELSE "disarmed",
  held <- pos
ImplementsDesk == Desk!DeskSpec
=============================================================================
