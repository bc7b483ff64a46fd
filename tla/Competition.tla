----------------------------- MODULE Competition -----------------------------
(***************************************************************************)
(* The trading competition (competition/competition.py, store.py): each    *)
(* entrant has a paper account, a guard and a strategy; run_cycle takes no *)
(* lock, so calls on one event loop interleave wherever one of them waits: *)
(* for bars, and at every published event when the competition has a bus.  *)
(***************************************************************************)
EXTENDS TradingRules

CONSTANTS
  MaxPlayers,   \* max_players
  Entrants,     \* user ids: 1, 2, ...
  CycleCalls,   \* calls of run_cycle
  Notionals,    \* notional_per_trade of submitted strategies
  BarPrices,    \* last closes
  MaxCycles,    \* bound: cycles ever begun
  Nobody        \* the event loop is free

ASSUME CompetitionAssumption ==
  /\ MaxPlayers \in Nat /\ MaxCycles \in Nat
  /\ Entrants \subseteq Nat \ {0} /\ IsFiniteSet(Entrants)
  /\ Notionals \subseteq Nat \ {0} /\ BarPrices \subseteq Nat \ {0} /\ Nobody \notin CycleCalls

VARIABLES
  hasBus,      \* whether the competition was given a bus
  entries,     \* _entries: each entrant's strategy, account and cycles_run
  guards,      \* each entrant's RiskGuard: its view of the positions
  players,     \* the players table
  cycle,       \* where each call is
  loop,        \* the call that holds the event loop
  cyclesBegun, \* bounded counter
  unsaved,     \* history: entrants whose last save raised
  overlapping  \* history: entrants with two cycles at once on a bus

competitionVars ==
  <<hasBus, entries, guards, players, cycle, loop, cyclesBegun, unsaved, overlapping>>

NoEntry == [config |-> 0, pos |-> Flat, cash |-> 0, cycles |-> -1]
NewEntry == [config |-> 0, pos |-> Flat, cash |-> 0, cycles |-> 0]
Waiting == [step |-> "none"]

Registered(u) == entries[u] # NoEntry
InCycle(c, step) == cycle[c].step = step
Goes(c, next) == cycle' = [cycle EXCEPT ![c] = next]
LoopFree(c) == loop \in {Nobody, c}

\* Without a bus nothing in a cycle waits once the bars are there.
Yield(c) == loop' = IF hasBus THEN Nobody ELSE c

\* _persist: the upsert is one transaction, and may raise.
Persist(u, e) ==
  \/ players' = [players EXCEPT ![u] = e] /\ unsaved' = unsaved \ {u}
  \/ UNCHANGED players /\ unsaved' = unsaved \cup {u}

-----------------------------------------------------------------------------
\* _ids continues after the highest id ever given, or loaded at the start.
Register(u) ==
  /\ loop = Nobody
  /\ \A v \in Entrants : Registered(v) => v < u
  /\ \A v \in Entrants : v < u => Registered(v)
  /\ Cardinality({v \in Entrants : Registered(v)}) < MaxPlayers
  /\ entries' = [entries EXCEPT ![u] = NewEntry]
  /\ guards' = [guards EXCEPT ![u] = Flat]
  /\ Persist(u, NewEntry)
  /\ UNCHANGED <<hasBus, cycle, loop, cyclesBegun, overlapping>>

\* The account is saved with the strategy, in the middle of a cycle too.
SubmitStrategy(u, notional) ==
  /\ loop = Nobody
  /\ Registered(u)
  /\ entries' = [entries EXCEPT ![u].config = notional]
  /\ Persist(u, entries'[u])
  /\ UNCHANGED <<hasBus, guards, cycle, loop, cyclesBegun, overlapping>>

\* run_cycle reads the strategy, then waits for bars.
BeginCycle(c, u) ==
  /\ loop = Nobody /\ InCycle(c, "none")
  /\ Registered(u) /\ entries[u].config # 0
  /\ cyclesBegun < MaxCycles /\ cyclesBegun' = cyclesBegun + 1
  /\ Goes(c, [step |-> "bars", who |-> u, notional |-> entries[u].config])
  /\ UNCHANGED <<hasBus, entries, guards, players, loop, unsaved, overlapping>>

\* The positions are read, and the guard is synced to them, once.
BarsArrive(c) ==
  LET u == cycle[c].who
  IN /\ loop = Nobody /\ InCycle(c, "bars")
     /\ \E symbols \in SUBSET Symbols : \E price \in [symbols -> BarPrices] :
          Goes(c, [step |-> "decide", who |-> u, notional |-> cycle[c].notional,
                   todo |-> symbols, price |-> price, seen |-> entries[u].pos])
     /\ guards' = [guards EXCEPT ![u] = entries[u].pos]
     /\ loop' = c
     /\ overlapping' = IF \E d \in CycleCalls \ {c} :
                            cycle[d].step \in {"decide", "place"} /\ cycle[d].who = u
                       THEN overlapping \cup {u} ELSE overlapping
     /\ UNCHANGED <<hasBus, entries, players, cyclesBegun, unsaved>>

\* One composite: a decision is announced before its order is placed.
DecideSymbol(c, s, signal) ==
  LET x == cycle[c] intent == Decide(x.notional, signal, x.seen[s], x.price[s])
  IN /\ LoopFree(c) /\ InCycle(c, "decide") /\ s \in x.todo
     /\ Goes(c, IF intent = None THEN [x EXCEPT !.todo = @ \ {s}]
                ELSE [step |-> "place", who |-> x.who, notional |-> x.notional, todo |-> x.todo \ {s},
                      price |-> x.price, seen |-> x.seen, symbol |-> s, intent |-> intent])
     /\ Yield(c)
     /\ UNCHANGED <<hasBus, entries, guards, players, cyclesBegun, unsaved, overlapping>>

NextSymbol(x, seen) ==
  [step |-> "decide", who |-> x.who, notional |-> x.notional, todo |-> x.todo,
   price |-> x.price, seen |-> seen]

GuardPasses(c) ==
  GuardAllows(guards[cycle[c].who], cycle[c].symbol, cycle[c].intent, cycle[c].price[cycle[c].symbol])

\* PaperBroker fills at once, and the guard and the cycle's own view follow.
Traded(e, s, intent, price) ==
  [e EXCEPT !.pos = Filled(@, s, intent), !.cash = @ - Delta(intent) * price]

PlaceOrder(c) ==
  LET x == cycle[c] s == x.symbol
  IN /\ LoopFree(c) /\ InCycle(c, "place")
     /\ GuardPasses(c)
     /\ entries' = [entries EXCEPT ![x.who] = Traded(@, s, x.intent, x.price[s])]
     /\ guards' = [guards EXCEPT ![x.who] = Filled(@, s, x.intent)]
     /\ Goes(c, NextSymbol(x, Filled(x.seen, s, x.intent)))
     /\ Yield(c)
     /\ UNCHANGED <<hasBus, players, cyclesBegun, unsaved, overlapping>>

\* Mutant: an order the guard refuses is placed.
PlaceBlocked(c) ==
  LET x == cycle[c] s == x.symbol
  IN /\ LoopFree(c) /\ InCycle(c, "place")
     /\ ~GuardPasses(c)
     /\ entries' = [entries EXCEPT ![x.who] = Traded(@, s, x.intent, x.price[s])]
     /\ Goes(c, NextSymbol(x, Filled(x.seen, s, x.intent)))
     /\ Yield(c)
     /\ UNCHANGED <<hasBus, guards, players, cyclesBegun, unsaved, overlapping>>

BlockOrder(c) ==
  /\ LoopFree(c) /\ InCycle(c, "place")
  /\ ~GuardPasses(c)
  /\ Goes(c, NextSymbol(cycle[c], cycle[c].seen))
  /\ Yield(c)
  /\ UNCHANGED <<hasBus, entries, guards, players, cyclesBegun, unsaved, overlapping>>

Ends(c) == LoopFree(c) /\ InCycle(c, "decide") /\ cycle[c].todo = {}

\* Mutant: the cycle is counted and not saved.
FinishUnsaved(c) ==
  /\ Ends(c)
  /\ entries' = [entries EXCEPT ![cycle[c].who].cycles = @ + 1]
  /\ Goes(c, Waiting) /\ loop' = Nobody
  /\ UNCHANGED <<hasBus, guards, players, cyclesBegun, unsaved, overlapping>>

FinishCycle(c) ==
  LET u == cycle[c].who
  IN /\ Ends(c)
     /\ entries' = [entries EXCEPT ![u].cycles = @ + 1]
     /\ Persist(u, entries'[u])
     /\ Goes(c, Waiting) /\ loop' = Nobody
     /\ UNCHANGED <<hasBus, guards, cyclesBegun, overlapping>>

\* The data source raises, or a caller gives up while a cycle waits.
CycleAborted(c) ==
  /\ loop = Nobody /\ ~InCycle(c, "none")
  /\ Goes(c, Waiting)
  /\ unsaved' = IF InCycle(c, "bars") THEN unsaved ELSE unsaved \cup {cycle[c].who}
  /\ UNCHANGED <<hasBus, entries, guards, players, loop, cyclesBegun, overlapping>>

\* _load: what was not saved is gone, fresh guards are armed.
RestartCompetition ==
  /\ entries' = players
  /\ guards' = [u \in Entrants |-> Flat]
  /\ cycle' = [c \in CycleCalls |-> Waiting] /\ loop' = Nobody
  /\ unsaved' = {}
  /\ UNCHANGED <<hasBus, players, cyclesBegun, overlapping>>

CompetitionInit ==
  /\ hasBus \in BOOLEAN
  /\ entries = [u \in Entrants |-> NoEntry] /\ players = entries
  /\ guards = [u \in Entrants |-> Flat]
  /\ cycle = [c \in CycleCalls |-> Waiting] /\ loop = Nobody
  /\ cyclesBegun = 0 /\ unsaved = {} /\ overlapping = {}

CompetitionNext ==
  \/ \E u \in Entrants :
       Register(u) \/ \E notional \in Notionals : SubmitStrategy(u, notional)
  \/ \E c \in CycleCalls :
       \/ \E u \in Entrants : BeginCycle(c, u)
       \/ \E s \in Symbols, signal \in Signals : DecideSymbol(c, s, signal)
       \/ BarsArrive(c) \/ PlaceOrder(c) \/ BlockOrder(c) \/ FinishCycle(c) \/ CycleAborted(c)
  \/ RestartCompetition

CompetitionSpec == CompetitionInit /\ [][CompetitionNext]_competitionVars

-----------------------------------------------------------------------------
EntryRecords == [config : Nat, pos : Positions, cash : Int, cycles : Nat] \cup {NoEntry}

CompetitionTypeOK ==
  /\ hasBus \in BOOLEAN
  /\ entries \in [Entrants -> EntryRecords] /\ players \in [Entrants -> EntryRecords]
  /\ guards \in [Entrants -> Positions]
  /\ loop \in CycleCalls \cup {Nobody} /\ cyclesBegun \in 0..MaxCycles
  /\ unsaved \subseteq Entrants /\ overlapping \subseteq Entrants

\* An entrant's account stays within the hard caps although cycles of it may
\* overlap and share one guard, and although a restart brings back an older
\* account with a guard that knows nothing; and it is never short, as no
\* strategy may sell short, unless two of its cycles overlapped on a bus.
EntrantWithinCaps ==
  \A u \in Entrants :
    /\ WithinCaps(entries[u].pos)
    /\ AllowShort \/ u \in overlapping \/ \A s \in Symbols : entries[u].pos[s] >= 0

\* Between calls the table holds every account as it is in memory, so that a
\* restart loses nothing; except when a save raised, and, on a bus, during a
\* cycle and after one that was aborted.
SavedIsCurrent ==
  loop = Nobody =>
    \A u \in Entrants \ unsaved :
      \/ players[u] = entries[u]
      \/ hasBus /\ \E c \in CycleCalls : cycle[c].step \in {"decide", "place"} /\ cycle[c].who = u
=============================================================================
