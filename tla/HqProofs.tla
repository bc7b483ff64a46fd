------------------------------- MODULE HqProofs -------------------------------
(***************************************************************************)
(* Proofs about the headquarters.  First what they keep: the competition's *)
(* accounts and their table, the execution ledger and the daily dumps made *)
(* from it, the slots of the sentiment job, the record of sandbox runs and *)
(* the cards of the research gate; each for any number of calls,           *)
(* exporters, recorders or runs, of entrants, days, sessions or grids; and *)
(* what the KPI sheets make of the published days.                         *)
(* Then the headquarters as one system: each component, seen alone,        *)
(* behaves as its own specification says, so that what is proved of a      *)
(* component holds of the whole.                                           *)
(***************************************************************************)
EXTENDS MCHq, HqRunnerProofs, TradingRulesProofs

-----------------------------------------------------------------------------
\* The competition.

\* The calls that are past their bars, and whose entrant they trade for.
Trading(c) == cycle[c].step \in {"decide", "place"}
TradesFor(c, u) == Trading(c) /\ cycle[c].who = u

PriceMaps == UNION {[symbols -> BarPrices] : symbols \in SUBSET Symbols}

CycleRecords ==
  {Waiting} \cup [step : {"bars"}, who : Entrants, notional : Nat]
  \cup [step : {"decide"}, who : Entrants, notional : Nat, todo : SUBSET Symbols,
        price : PriceMaps, seen : Positions]
  \cup [step : {"place"}, who : Entrants, notional : Nat, todo : SUBSET Symbols,
        price : PriceMaps, seen : Positions, symbol : Symbols, intent : Intents]

CyclesTyped ==
  /\ cycle \in [CycleCalls -> CycleRecords]
  /\ \A c \in CycleCalls :
       /\ Trading(c) => cycle[c].todo \subseteq DOMAIN cycle[c].price
       /\ InCycle(c, "place") => cycle[c].symbol \in DOMAIN cycle[c].price
       /\ ~InCycle(c, "none") => Registered(cycle[c].who)

\* The guard of an entrant who trades has the account it guards.
GuardsSynced == \A c \in CycleCalls : \A u \in Entrants : TradesFor(c, u) => guards[u] = entries[u].pos

\* In memory and in the table.
AccountsCapped == \A u \in Entrants : WithinCaps(entries[u].pos) /\ WithinCaps(players[u].pos)

NeverShort(pos) == \A s \in Symbols : pos[s] >= 0

\* An entrant without overlapping cycles: the one cycle knows the account and
\* will not sell more than is held.
LongOnly(u) ==
  /\ NeverShort(entries[u].pos) /\ NeverShort(players[u].pos)
  /\ \A c \in CycleCalls : TradesFor(c, u) =>
       /\ \A d \in CycleCalls : TradesFor(d, u) => d = c
       /\ cycle[c].seen = entries[u].pos
       /\ InCycle(c, "place") => cycle[c].seen[cycle[c].symbol] + Delta(cycle[c].intent) >= 0

\* What is not saved is being traded for, or its save raised.
Saved ==
  \A u \in Entrants \ unsaved :
    players[u] = entries[u] \/ \E c \in CycleCalls : TradesFor(c, u)

LoopHeld == ~hasBus => \A c \in CycleCalls : Trading(c) => loop = c

-----------------------------------------------------------------------------
LEMMA EntryFields ==
  ASSUME NEW e \in EntryRecords
  PROVE  /\ e.pos \in Positions /\ e.config \in Nat /\ e.cash \in Int
         /\ e # NoEntry => e \in [config : Nat, pos : Positions, cash : Int, cycles : Nat]
  BY DEF EntryRecords, NoEntry, Flat, Positions

LEMMA EntriesGiven ==
  /\ Flat \in Positions /\ NoEntry.pos = Flat /\ NewEntry.pos = Flat
  /\ NoEntry \in EntryRecords /\ NewEntry \in EntryRecords /\ NewEntry # NoEntry
  BY DEF EntryRecords, NoEntry, NewEntry, Flat, Positions

\* What a strategy, a finished cycle and a trade change of an entry.
EntryUpdated(f, pos) == f \in EntryRecords /\ f # NoEntry /\ f.pos = pos

LEMMA FullEntries ==
  ASSUME NEW r \in [config : Nat, pos : Positions, cash : Int, cycles : Nat]
  PROVE  r \in EntryRecords /\ r # NoEntry
  BY DEF EntryRecords, NoEntry

LEMMA ConfigUpdate ==
  ASSUME NEW e \in EntryRecords, e # NoEntry, NEW n \in Nat
  PROVE  EntryUpdated([e EXCEPT !.config = n], e.pos)
<1>1. e \in [config : Nat, pos : Positions, cash : Int, cycles : Nat]
  BY EntryFields
<1>2. [e EXCEPT !.config = n] \in [config : Nat, pos : Positions, cash : Int, cycles : Nat]
  BY <1>1
<1>3. [e EXCEPT !.config = n].pos = e.pos
  BY <1>1
<1> QED
  BY <1>2, <1>3, FullEntries DEF EntryUpdated

LEMMA CountUpdate ==
  ASSUME NEW e \in EntryRecords, e # NoEntry
  PROVE  EntryUpdated([e EXCEPT !.cycles = @ + 1], e.pos)
<1>1. e \in [config : Nat, pos : Positions, cash : Int, cycles : Nat]
  BY EntryFields
<1>2. [e EXCEPT !.cycles = @ + 1] \in [config : Nat, pos : Positions, cash : Int, cycles : Nat]
  BY <1>1
<1>3. [e EXCEPT !.cycles = @ + 1].pos = e.pos
  BY <1>1
<1> QED
  BY <1>2, <1>3, FullEntries DEF EntryUpdated

LEMMA TradeUpdate ==
  ASSUME NEW e \in EntryRecords, e # NoEntry, NEW s \in Symbols, NEW i \in Intents, NEW price \in Nat
  PROVE  EntryUpdated(Traded(e, s, i, price), Filled(e.pos, s, i))
<1>1. e \in [config : Nat, pos : Positions, cash : Int, cycles : Nat]
  BY EntryFields
<1>2. Delta(i) * price \in Int /\ Filled(e.pos, s, i) \in Positions
  BY <1>1, FilledType
<1>3. ASSUME NEW p \in Positions, NEW cash \in Int
      PROVE  /\ [e EXCEPT !.pos = p, !.cash = cash]
                  \in [config : Nat, pos : Positions, cash : Int, cycles : Nat]
             /\ [e EXCEPT !.pos = p, !.cash = cash].pos = p
  BY <1>1
<1>4. Traded(e, s, i, price) =
        [e EXCEPT !.pos = Filled(e.pos, s, i), !.cash = e.cash - Delta(i) * price]
  BY DEF Traded
<1>5. e.cash - Delta(i) * price \in Int
  BY <1>1, <1>2
<1> QED
  BY <1>2, <1>3, <1>4, <1>5, FullEntries DEF EntryUpdated

\* A cycle's record, by its step.
LEMMA CycleShapes ==
  ASSUME CyclesTyped, NEW c \in CycleCalls
  PROVE  /\ InCycle(c, "bars") => cycle[c] \in [step : {"bars"}, who : Entrants, notional : Nat]
         /\ InCycle(c, "decide") =>
              cycle[c] \in [step : {"decide"}, who : Entrants, notional : Nat, todo : SUBSET Symbols,
                            price : PriceMaps, seen : Positions]
         /\ InCycle(c, "place") =>
              cycle[c] \in [step : {"place"}, who : Entrants, notional : Nat, todo : SUBSET Symbols,
                            price : PriceMaps, seen : Positions, symbol : Symbols, intent : Intents]
         /\ ~InCycle(c, "none") => cycle[c].who \in Entrants
         /\ InCycle(c, "none") \/ InCycle(c, "bars") \/ InCycle(c, "decide") \/ InCycle(c, "place")
<1>1. cycle[c] \in CycleRecords
  BY DEF CyclesTyped
<1> QED
  BY <1>1 DEF CycleRecords, InCycle, Waiting

LEMMA PricesAre ==
  ASSUME NEW price \in PriceMaps, NEW s \in DOMAIN price
  PROVE  price[s] \in Nat \ {0} /\ s \in Symbols
<1>1. PICK symbols \in SUBSET Symbols : price \in [symbols -> BarPrices]
  BY DEF PriceMaps
<1> QED
  BY <1>1, CompetitionAssumption

\* One call goes on, the others stay where they are.
LEMMA CycleGoes ==
  ASSUME CyclesTyped, NEW c \in CycleCalls, NEW next, Goes(c, next)
  PROVE  cycle'[c] = next /\ \A d \in CycleCalls \ {c} : cycle'[d] = cycle[d]
  BY DEF CyclesTyped, Goes

LEMMA CyclesStayTyped ==
  ASSUME CyclesTyped, NEW c \in CycleCalls, NEW next \in CycleRecords, Goes(c, next),
         next.step \in {"decide", "place"} => next.todo \subseteq DOMAIN next.price,
         next.step = "place" => next.symbol \in DOMAIN next.price,
         next.step # "none" => Registered(next.who)',
         \A u \in Entrants : Registered(u) => Registered(u)'
  PROVE  CyclesTyped'
<1>1. cycle' \in [CycleCalls -> CycleRecords]
  BY DEF CyclesTyped, Goes
<1>2. cycle'[c] = next /\ \A d \in CycleCalls \ {c} : cycle'[d] = cycle[d]
  BY CycleGoes
<1>3. \A d \in CycleCalls : ~InCycle(d, "none") => cycle[d].who \in Entrants
  BY CycleShapes
<1> QED
  BY <1>1, <1>2, <1>3 DEF CyclesTyped, Trading, InCycle

LEMMA CyclesUntouched ==
  ASSUME CyclesTyped, UNCHANGED cycle, \A u \in Entrants : Registered(u) => Registered(u)'
  PROVE  CyclesTyped'
<1>1. \A d \in CycleCalls : ~InCycle(d, "none") => cycle[d].who \in Entrants
  BY CycleShapes
<1> QED
  BY <1>1 DEF CyclesTyped, Trading, InCycle

LEMMA AllWaiting ==
  ASSUME cycle' = [c \in CycleCalls |-> Waiting]
  PROVE  CyclesTyped' /\ \A c \in CycleCalls : ~Trading(c)'
  BY DEF CyclesTyped, CycleRecords, Waiting, InCycle, Trading

CompetitionTyped == CompetitionTypeOK /\ CyclesTyped

\* What is saved is typed as what it is saved from.
LEMMA PersistTyped ==
  ASSUME CompetitionTypeOK, NEW u \in Entrants, NEW e \in EntryRecords, Persist(u, e)
  PROVE  /\ players' \in [Entrants -> EntryRecords] /\ unsaved' \subseteq Entrants
         /\ \A v \in Entrants : players'[v] = players[v] \/ (v = u /\ players'[v] = e)
         /\ \A v \in Entrants \ unsaved' :
              (v = u /\ players'[v] = e) \/ (v # u /\ v \notin unsaved /\ players'[v] = players[v])
  BY DEF CompetitionTypeOK, Persist

\* An entry is replaced by a registered one.
LEMMA EntrySet ==
  ASSUME CompetitionTypeOK, NEW u \in Entrants, NEW e \in EntryRecords, e # NoEntry,
         entries' = [entries EXCEPT ![u] = e]
  PROVE  /\ entries' \in [Entrants -> EntryRecords] /\ entries'[u] = e
         /\ \A v \in Entrants \ {u} : entries'[v] = entries[v]
         /\ \A v \in Entrants : Registered(v) => Registered(v)'
  BY DEF CompetitionTypeOK, Registered

LEMMA RegisterTyped ==
  ASSUME CompetitionTyped, NEW u \in Entrants, Register(u)
  PROVE  CompetitionTyped'
<1>1. /\ entries' \in [Entrants -> EntryRecords]
      /\ \A v \in Entrants : Registered(v) => Registered(v)'
  BY EntriesGiven, EntrySet DEF CompetitionTyped, Register
<1>2. players' \in [Entrants -> EntryRecords] /\ unsaved' \subseteq Entrants
  BY EntriesGiven, PersistTyped DEF CompetitionTyped, Register
<1>3. guards' \in [Entrants -> Positions]
  BY EntriesGiven DEF CompetitionTyped, CompetitionTypeOK, Register
<1>4. CyclesTyped'
  BY <1>1, CyclesUntouched DEF CompetitionTyped, Register
<1> QED
  BY <1>1, <1>2, <1>3, <1>4 DEF CompetitionTyped, CompetitionTypeOK, Register

LEMMA SubmitTyped ==
  ASSUME CompetitionTyped, NEW u \in Entrants, NEW notional \in Notionals, SubmitStrategy(u, notional)
  PROVE  /\ CompetitionTyped'
         /\ \A v \in Entrants : entries'[v].pos = entries[v].pos /\ (v # u => entries'[v] = entries[v])
         /\ \A v \in Entrants : Registered(v) => Registered(v)'
<1> DEFINE e == [entries[u] EXCEPT !.config = notional]
<1>1. entries[u] \in EntryRecords /\ entries[u] # NoEntry /\ notional \in Nat
  BY CompetitionAssumption DEF CompetitionTyped, CompetitionTypeOK, SubmitStrategy, Registered
<1>2. e \in EntryRecords /\ e # NoEntry /\ e.pos = entries[u].pos
  BY <1>1, ConfigUpdate DEF EntryUpdated
<1>3. entries' = [entries EXCEPT ![u] = e]
  BY DEF CompetitionTyped, CompetitionTypeOK, SubmitStrategy
<1>4. /\ entries' \in [Entrants -> EntryRecords] /\ entries'[u] = e
      /\ \A v \in Entrants \ {u} : entries'[v] = entries[v]
      /\ \A v \in Entrants : Registered(v) => Registered(v)'
  BY <1>2, <1>3, EntrySet DEF CompetitionTyped
<1>5. players' \in [Entrants -> EntryRecords] /\ unsaved' \subseteq Entrants
  BY <1>2, <1>4, PersistTyped DEF CompetitionTyped, SubmitStrategy
<1>6. CyclesTyped'
  BY <1>4, CyclesUntouched DEF CompetitionTyped, SubmitStrategy
<1>7. CompetitionTypeOK'
  BY <1>4, <1>5 DEF CompetitionTyped, CompetitionTypeOK, SubmitStrategy
<1> QED
  BY <1>2, <1>4, <1>6, <1>7 DEF CompetitionTyped

LEMMA BeginTyped ==
  ASSUME CompetitionTyped, NEW c \in CycleCalls, NEW u \in Entrants, BeginCycle(c, u)
  PROVE  CompetitionTyped'
<1> DEFINE next == [step |-> "bars", who |-> u, notional |-> entries[u].config]
<1>1. next \in CycleRecords
  BY EntryFields DEF CompetitionTyped, CompetitionTypeOK, CycleRecords
<1>2. UNCHANGED entries /\ Registered(u) /\ Goes(c, next)
  BY DEF BeginCycle
<1>3. CyclesTyped'
  BY <1>1, <1>2, CyclesStayTyped DEF CompetitionTyped, Registered
<1> QED
  BY <1>3, CompetitionAssumption DEF CompetitionTyped, CompetitionTypeOK, BeginCycle

\* The step a call takes when its bars are there.
LEMMA BarsGiven ==
  ASSUME CompetitionTyped, NEW c \in CycleCalls, BarsArrive(c)
  PROVE  /\ cycle[c].who \in Entrants /\ Registered(cycle[c].who)
         /\ \E next \in CycleRecords :
              /\ Goes(c, next) /\ next.step = "decide" /\ next.who = cycle[c].who
              /\ next.seen = entries[cycle[c].who].pos
              /\ next.todo \subseteq DOMAIN next.price
<1>1. /\ cycle[c] \in [step : {"bars"}, who : Entrants, notional : Nat]
      /\ ~InCycle(c, "none")
  BY CycleShapes DEF CompetitionTyped, BarsArrive, InCycle
<1>2. entries[cycle[c].who].pos \in Positions /\ Registered(cycle[c].who)
  BY <1>1, EntryFields DEF CompetitionTyped, CompetitionTypeOK, CyclesTyped
<1>3. PICK symbols \in SUBSET Symbols : \E price \in [symbols -> BarPrices] :
        Goes(c, [step |-> "decide", who |-> cycle[c].who, notional |-> cycle[c].notional,
                 todo |-> symbols, price |-> price, seen |-> entries[cycle[c].who].pos])
  BY DEF BarsArrive
<1>4. PICK price \in [symbols -> BarPrices] :
        Goes(c, [step |-> "decide", who |-> cycle[c].who, notional |-> cycle[c].notional,
                 todo |-> symbols, price |-> price, seen |-> entries[cycle[c].who].pos])
  BY <1>3
<1> DEFINE next == [step |-> "decide", who |-> cycle[c].who, notional |-> cycle[c].notional,
                    todo |-> symbols, price |-> price, seen |-> entries[cycle[c].who].pos]
<1>5. price \in PriceMaps /\ DOMAIN price = symbols
  BY DEF PriceMaps
<1>6. next \in CycleRecords
  BY <1>1, <1>2, <1>5 DEF CycleRecords
<1> QED
  BY <1>1, <1>2, <1>4, <1>5, <1>6

LEMMA BarsTyped ==
  ASSUME CompetitionTyped, NEW c \in CycleCalls, BarsArrive(c)
  PROVE  CompetitionTyped'
<1>1. PICK next \in CycleRecords :
        /\ Goes(c, next) /\ next.step = "decide" /\ next.who = cycle[c].who
        /\ next.todo \subseteq DOMAIN next.price
  BY BarsGiven
<1>2. /\ cycle[c].who \in Entrants /\ Registered(cycle[c].who)
      /\ entries[cycle[c].who].pos \in Positions
  BY BarsGiven, EntryFields DEF CompetitionTyped, CompetitionTypeOK
<1>3. CyclesTyped'
  BY <1>1, <1>2, CyclesStayTyped DEF CompetitionTyped, BarsArrive, Registered
<1> QED
  BY <1>2, <1>3 DEF CompetitionTyped, CompetitionTypeOK, BarsArrive

\* The step a call takes when it decides on a symbol.
LEMMA DecisionGiven ==
  ASSUME CompetitionTyped, NEW c \in CycleCalls, NEW s \in Symbols, NEW signal,
         DecideSymbol(c, s, signal)
  PROVE  /\ cycle[c].who \in Entrants /\ Registered(cycle[c].who) /\ Trading(c)
         /\ cycle[c].notional \in Nat /\ cycle[c].seen \in Positions
         /\ cycle[c].price[s] \in Nat \ {0}
         /\ \E next \in CycleRecords :
              /\ Goes(c, next) /\ next.step \in {"decide", "place"}
              /\ next.who = cycle[c].who /\ next.seen = cycle[c].seen
              /\ next.todo \subseteq DOMAIN next.price
              /\ next.step = "place" =>
                   /\ next.symbol = s /\ s \in DOMAIN next.price
                   /\ next.intent = Decide(cycle[c].notional, signal, cycle[c].seen[s], cycle[c].price[s])
<1> DEFINE x == cycle[c]
           intent == Decide(x.notional, signal, x.seen[s], x.price[s])
<1>1. /\ x \in [step : {"decide"}, who : Entrants, notional : Nat, todo : SUBSET Symbols,
                price : PriceMaps, seen : Positions]
      /\ InCycle(c, "decide") /\ Trading(c) /\ ~InCycle(c, "none")
      /\ s \in x.todo
  BY CycleShapes DEF CompetitionTyped, DecideSymbol, InCycle, Trading
<1>2. x.todo \subseteq DOMAIN x.price /\ Registered(x.who)
  BY <1>1 DEF CompetitionTyped, CyclesTyped
<1>3. x.price[s] \in Nat \ {0}
  BY <1>1, <1>2, PricesAre
<1>4. intent \in Intents
  <2>1. x.seen[s] \in Int
    BY <1>1 DEF Positions
  <2> QED
    BY <1>1, <1>3, <2>1, DecideType
<1>5. CASE Goes(c, [x EXCEPT !.todo = @ \ {s}])
  <2> DEFINE next == [x EXCEPT !.todo = @ \ {s}]
  <2>1. next \in [step : {"decide"}, who : Entrants, notional : Nat, todo : SUBSET Symbols,
                  price : PriceMaps, seen : Positions]
    BY <1>1
  <2>2. /\ next.step = "decide" /\ next.who = x.who /\ next.seen = x.seen
        /\ next.todo = x.todo \ {s} /\ next.price = x.price
    BY <1>1
  <2>3. next \in CycleRecords
    BY <2>1 DEF CycleRecords
  <2>4. next.todo \subseteq DOMAIN next.price
    BY <1>2, <2>2
  <2> QED
    BY <1>1, <1>2, <1>3, <1>5, <2>2, <2>3, <2>4
<1>6. CASE Goes(c, [step |-> "place", who |-> x.who, notional |-> x.notional, todo |-> x.todo \ {s},
                    price |-> x.price, seen |-> x.seen, symbol |-> s, intent |-> intent])
  <2> DEFINE next == [step |-> "place", who |-> x.who, notional |-> x.notional, todo |-> x.todo \ {s},
                      price |-> x.price, seen |-> x.seen, symbol |-> s, intent |-> intent]
  <2>1. next \in CycleRecords
    BY <1>1, <1>4 DEF CycleRecords
  <2> QED
    BY <1>1, <1>2, <1>3, <1>6, <2>1
<1> QED
  BY <1>5, <1>6 DEF DecideSymbol

LEMMA DecideTyped ==
  ASSUME CompetitionTyped, NEW c \in CycleCalls, NEW s \in Symbols, NEW signal,
         DecideSymbol(c, s, signal)
  PROVE  CompetitionTyped'
<1>1. PICK next \in CycleRecords :
        /\ Goes(c, next) /\ next.step \in {"decide", "place"} /\ next.who = cycle[c].who
        /\ next.todo \subseteq DOMAIN next.price
        /\ next.step = "place" => next.symbol \in DOMAIN next.price
  BY DecisionGiven
<1>2. CyclesTyped'
  BY <1>1, DecisionGiven, CyclesStayTyped DEF CompetitionTyped, DecideSymbol, Registered
<1>3. loop' \in CycleCalls \cup {Nobody}
  BY DEF DecideSymbol, Yield
<1> QED
  BY <1>2, <1>3 DEF CompetitionTyped, CompetitionTypeOK, DecideSymbol

\* A call that is about to place an order, and the step it takes next.
LEMMA PlacingShape ==
  ASSUME CompetitionTyped, NEW c \in CycleCalls, InCycle(c, "place")
  PROVE  /\ cycle[c] \in [step : {"place"}, who : Entrants, notional : Nat, todo : SUBSET Symbols,
                          price : PriceMaps, seen : Positions, symbol : Symbols, intent : Intents]
         /\ cycle[c].todo \subseteq DOMAIN cycle[c].price
         /\ Registered(cycle[c].who) /\ Trading(c)
         /\ cycle[c].price[cycle[c].symbol] \in Nat
<1>1. /\ cycle[c] \in [step : {"place"}, who : Entrants, notional : Nat, todo : SUBSET Symbols,
                       price : PriceMaps, seen : Positions, symbol : Symbols, intent : Intents]
      /\ ~InCycle(c, "none") /\ Trading(c)
  BY CycleShapes DEF CompetitionTyped, InCycle, Trading
<1>2. /\ cycle[c].todo \subseteq DOMAIN cycle[c].price /\ Registered(cycle[c].who)
      /\ cycle[c].symbol \in DOMAIN cycle[c].price
  BY <1>1 DEF CompetitionTyped, CyclesTyped
<1> QED
  BY <1>1, <1>2, PricesAre

LEMMA PlacingGoes ==
  ASSUME CompetitionTyped, NEW c \in CycleCalls, InCycle(c, "place"), NEW seen \in Positions
  PROVE  LET next == NextSymbol(cycle[c], seen)
         IN /\ next \in CycleRecords /\ next.step = "decide" /\ next.who = cycle[c].who
            /\ next.seen = seen /\ next.todo \subseteq DOMAIN next.price
<1>1. NextSymbol(cycle[c], seen) \in
        [step : {"decide"}, who : Entrants, notional : Nat, todo : SUBSET Symbols,
         price : PriceMaps, seen : Positions]
  BY PlacingShape DEF NextSymbol
<1>2. NextSymbol(cycle[c], seen) \in CycleRecords
  BY <1>1 DEF CycleRecords
<1> QED
  BY <1>2, PlacingShape DEF NextSymbol

\* What a placed order does.
LEMMA PlaceGives ==
  ASSUME CompetitionTyped, NEW c \in CycleCalls, PlaceOrder(c)
  PROVE  LET x == cycle[c] u == x.who
         IN /\ u \in Entrants /\ Registered(u) /\ TradesFor(c, u)
            /\ x.symbol \in Symbols /\ x.intent \in Intents /\ x.seen \in Positions
            /\ entries' \in [Entrants -> EntryRecords]
            /\ entries'[u].pos = Filled(entries[u].pos, x.symbol, x.intent)
            /\ \A v \in Entrants \ {u} : entries'[v] = entries[v]
            /\ \A v \in Entrants : Registered(v) => Registered(v)'
            /\ guards' \in [Entrants -> Positions]
            /\ guards'[u] = Filled(guards[u], x.symbol, x.intent)
            /\ \A v \in Entrants \ {u} : guards'[v] = guards[v]
            /\ \E next \in CycleRecords :
                 /\ Goes(c, next) /\ next.step = "decide" /\ next.who = u
                 /\ next.seen = Filled(x.seen, x.symbol, x.intent)
                 /\ next.todo \subseteq DOMAIN next.price
<1> DEFINE x == cycle[c]
           u == x.who
<1>1. /\ u \in Entrants /\ Registered(u) /\ Trading(c) /\ InCycle(c, "place")
      /\ x.symbol \in Symbols /\ x.intent \in Intents /\ x.seen \in Positions
      /\ x.price[x.symbol] \in Nat
  BY PlacingShape DEF PlaceOrder
<1>2. /\ Filled(x.seen, x.symbol, x.intent) \in Positions
      /\ guards[u] \in Positions /\ Filled(guards[u], x.symbol, x.intent) \in Positions
  BY <1>1, FilledType DEF CompetitionTyped, CompetitionTypeOK
<1>3. Goes(c, NextSymbol(x, Filled(x.seen, x.symbol, x.intent)))
  BY DEF PlaceOrder
<1>4. \E next \in CycleRecords :
        /\ Goes(c, next) /\ next.step = "decide" /\ next.who = u
        /\ next.seen = Filled(x.seen, x.symbol, x.intent)
        /\ next.todo \subseteq DOMAIN next.price
  BY <1>1, <1>2, <1>3, PlacingGoes
<1> DEFINE e == Traded(entries[u], x.symbol, x.intent, x.price[x.symbol])
<1>5. e \in EntryRecords /\ e # NoEntry /\ e.pos = Filled(entries[u].pos, x.symbol, x.intent)
  <2>1. entries[u] \in EntryRecords /\ entries[u] # NoEntry
    BY <1>1 DEF CompetitionTyped, CompetitionTypeOK, Registered
  <2> QED
    BY <1>1, <2>1, TradeUpdate DEF EntryUpdated
<1>6. entries' = [entries EXCEPT ![u] = e]
  BY DEF CompetitionTyped, CompetitionTypeOK, PlaceOrder
<1>7. /\ entries' \in [Entrants -> EntryRecords] /\ entries'[u] = e
      /\ \A v \in Entrants \ {u} : entries'[v] = entries[v]
      /\ \A v \in Entrants : Registered(v) => Registered(v)'
  BY <1>1, <1>5, <1>6, EntrySet DEF CompetitionTyped
<1>8. guards' = [guards EXCEPT ![u] = Filled(guards[u], x.symbol, x.intent)]
  BY DEF CompetitionTyped, CompetitionTypeOK, PlaceOrder
<1>9. /\ guards' \in [Entrants -> Positions]
      /\ guards'[u] = Filled(guards[u], x.symbol, x.intent)
      /\ \A v \in Entrants \ {u} : guards'[v] = guards[v]
  BY <1>1, <1>2, <1>8 DEF CompetitionTyped, CompetitionTypeOK
<1> QED
  BY <1>1, <1>4, <1>5, <1>7, <1>9 DEF TradesFor

\* What a finished cycle does.
LEMMA FinishGives ==
  ASSUME CompetitionTyped, NEW c \in CycleCalls, FinishCycle(c)
  PROVE  LET u == cycle[c].who
         IN /\ u \in Entrants /\ TradesFor(c, u) /\ Goes(c, Waiting)
            /\ entries' \in [Entrants -> EntryRecords]
            /\ \A v \in Entrants : entries'[v].pos = entries[v].pos
            /\ \A v \in Entrants \ {u} : entries'[v] = entries[v]
            /\ \A v \in Entrants : Registered(v) => Registered(v)'
            /\ entries'[u] \in EntryRecords /\ Persist(u, entries'[u])
<1> DEFINE u == cycle[c].who
           e == [entries[u] EXCEPT !.cycles = @ + 1]
<1>1. u \in Entrants /\ Registered(u) /\ Trading(c)
  <2>1. InCycle(c, "decide") /\ ~InCycle(c, "none")
    BY DEF FinishCycle, Ends, InCycle
  <2> QED
    BY <2>1, CycleShapes DEF CompetitionTyped, CyclesTyped, Trading, InCycle
<1>2. entries[u] \in EntryRecords /\ entries[u] # NoEntry
  BY <1>1 DEF CompetitionTyped, CompetitionTypeOK, Registered
<1>3. e \in EntryRecords /\ e # NoEntry /\ e.pos = entries[u].pos
  BY <1>2, CountUpdate DEF EntryUpdated
<1>4. entries' = [entries EXCEPT ![u] = e]
  BY DEF CompetitionTyped, CompetitionTypeOK, FinishCycle
<1>5. /\ entries' \in [Entrants -> EntryRecords] /\ entries'[u] = e
      /\ \A v \in Entrants \ {u} : entries'[v] = entries[v]
      /\ \A v \in Entrants : Registered(v) => Registered(v)'
  BY <1>1, <1>3, <1>4, EntrySet DEF CompetitionTyped
<1>6. \A v \in Entrants : entries'[v].pos = entries[v].pos
  BY <1>3, <1>5
<1> QED
  BY <1>1, <1>3, <1>5, <1>6 DEF TradesFor, FinishCycle

LEMMA WaitingIs ==
  /\ Waiting \in CycleRecords /\ Waiting.step = "none"
  BY DEF CycleRecords, Waiting

\* The other steps of a cycle.
LEMMA CycleStepsTyped ==
  ASSUME CompetitionTyped, NEW c \in CycleCalls,
         PlaceOrder(c) \/ BlockOrder(c) \/ FinishCycle(c) \/ CycleAborted(c)
  PROVE  CompetitionTyped'
<1>1. CASE PlaceOrder(c)
  <2>1. PICK next \in CycleRecords :
          /\ Goes(c, next) /\ next.step = "decide" /\ next.who = cycle[c].who
          /\ next.todo \subseteq DOMAIN next.price
    BY <1>1, PlaceGives
  <2>2. CyclesTyped'
    BY <1>1, <2>1, PlaceGives, CyclesStayTyped DEF CompetitionTyped
  <2>3. loop' \in CycleCalls \cup {Nobody}
    BY <1>1 DEF PlaceOrder, Yield
  <2> QED
    BY <1>1, <2>2, <2>3, PlaceGives DEF CompetitionTyped, CompetitionTypeOK, PlaceOrder
<1>2. CASE BlockOrder(c)
  <2>1. InCycle(c, "place") /\ cycle[c].seen \in Positions /\ Goes(c, NextSymbol(cycle[c], cycle[c].seen))
    BY <1>2, CycleShapes DEF CompetitionTyped, BlockOrder
  <2>2. CyclesTyped'
    BY <1>2, <2>1, PlacingShape, PlacingGoes, CyclesStayTyped DEF CompetitionTyped, BlockOrder, Registered
  <2>3. loop' \in CycleCalls \cup {Nobody}
    BY <1>2 DEF BlockOrder, Yield
  <2> QED
    BY <1>2, <2>2, <2>3 DEF CompetitionTyped, CompetitionTypeOK, BlockOrder
<1>3. CASE FinishCycle(c)
  <2>1. CyclesTyped'
    BY <1>3, FinishGives, WaitingIs, CyclesStayTyped DEF CompetitionTyped
  <2>2. players' \in [Entrants -> EntryRecords] /\ unsaved' \subseteq Entrants
    BY <1>3, FinishGives, PersistTyped DEF CompetitionTyped
  <2> QED
    BY <1>3, <2>1, <2>2, FinishGives DEF CompetitionTyped, CompetitionTypeOK, FinishCycle
<1>4. CASE CycleAborted(c)
  <2>1. CyclesTyped'
    BY <1>4, WaitingIs, CyclesStayTyped DEF CompetitionTyped, CycleAborted, Registered
  <2>2. cycle[c].who \in Entrants
    BY <1>4, CycleShapes DEF CompetitionTyped, CycleAborted
  <2> QED
    BY <1>4, <2>1, <2>2 DEF CompetitionTyped, CompetitionTypeOK, CycleAborted
<1> QED
  BY <1>1, <1>2, <1>3, <1>4

LEMMA RestartTyped ==
  ASSUME CompetitionTyped, RestartCompetition
  PROVE  CompetitionTyped' /\ \A c \in CycleCalls : ~Trading(c)'
  BY AllWaiting, EntriesGiven
     DEF CompetitionTyped, CompetitionTypeOK, RestartCompetition

LEMMA CompetitionStepsTyped ==
  CompetitionTyped /\ [CompetitionNext]_competitionVars => CompetitionTyped'
<1> SUFFICES ASSUME CompetitionTyped, [CompetitionNext]_competitionVars PROVE CompetitionTyped'
  OBVIOUS
<1>1. CASE UNCHANGED competitionVars
  BY <1>1, CyclesUntouched DEF competitionVars, CompetitionTyped, CompetitionTypeOK, Registered
<1> QED
  BY <1>1, RegisterTyped, SubmitTyped, BeginTyped, BarsTyped, DecideTyped, CycleStepsTyped,
     RestartTyped DEF CompetitionNext

-----------------------------------------------------------------------------
\* The table gets an account as it is in memory, or keeps the one it has.
TableFollows == \A v \in Entrants : players'[v] = players[v] \/ players'[v] = entries'[v]

LongOnlyAll == ~AllowShort => \A u \in Entrants \ overlapping : LongOnly(u)

AccountsInv == GuardsSynced /\ AccountsCapped /\ LongOnlyAll

\* No cycle learns anything new and none comes to place an order.
QuietCycles ==
  \A d \in CycleCalls : Trading(d)' =>
    /\ Trading(d) /\ cycle'[d].who = cycle[d].who /\ cycle'[d].seen = cycle[d].seen
    /\ InCycle(d, "place")' => cycle'[d] = cycle[d]

LEMMA QuietKeeps ==
  ASSUME AccountsInv, QuietCycles, TableFollows, UNCHANGED overlapping,
         \A u \in Entrants : entries'[u].pos = entries[u].pos,
         \A u \in Entrants : guards'[u] = guards[u] \/ \A c \in CycleCalls : ~TradesFor(c, u)
  PROVE  AccountsInv'
<1>1. \A d \in CycleCalls, u \in Entrants : TradesFor(d, u)' => TradesFor(d, u)
  BY DEF QuietCycles, TradesFor
<1>2. GuardsSynced'
  BY <1>1 DEF AccountsInv, GuardsSynced
<1>3. AccountsCapped'
  BY DEF AccountsInv, AccountsCapped, TableFollows
<1>4. LongOnlyAll'
  <2> SUFFICES ASSUME ~AllowShort, NEW u \in Entrants \ overlapping PROVE LongOnly(u)'
    BY DEF LongOnlyAll
  <2>1. LongOnly(u)
    BY DEF AccountsInv, LongOnlyAll
  <2>2. NeverShort(entries'[u].pos) /\ NeverShort(players'[u].pos)
    BY <2>1 DEF LongOnly, TableFollows, NeverShort
  <2>3. ASSUME NEW c \in CycleCalls, TradesFor(c, u)'
        PROVE  /\ cycle'[c].seen = entries'[u].pos
               /\ InCycle(c, "place")' =>
                    cycle'[c].seen[cycle'[c].symbol] + Delta(cycle'[c].intent) >= 0
    <3>1. TradesFor(c, u) /\ Trading(c)'
      BY <1>1, <2>3 DEF TradesFor
    <3>2. InCycle(c, "place")' => InCycle(c, "place")
      BY <3>1 DEF QuietCycles, InCycle
    <3> QED
      BY <2>1, <3>1, <3>2 DEF LongOnly, QuietCycles
  <2> QED
    BY <1>1, <2>1, <2>2, <2>3 DEF LongOnly
<1> QED
  BY <1>2, <1>3, <1>4 DEF AccountsInv

\* One call goes on quietly.
LEMMA QuietGoes ==
  ASSUME CyclesTyped, NEW c \in CycleCalls, NEW next, Goes(c, next), next.step # "place",
         next.step = "decide" => Trading(c) /\ next.who = cycle[c].who /\ next.seen = cycle[c].seen
  PROVE  QuietCycles
  BY CycleGoes DEF QuietCycles, Trading, InCycle

LEMMA StillCycles ==
  ASSUME UNCHANGED cycle
  PROVE  QuietCycles
  BY DEF QuietCycles, Trading, InCycle

CompetitionInv ==
  /\ CompetitionTyped /\ AccountsInv /\ Saved /\ LoopHeld

LEMMA RegisterKeeps ==
  ASSUME CompetitionTyped, AccountsInv, NEW u \in Entrants, Register(u)
  PROVE  AccountsInv'
<1>1. /\ entries' = [entries EXCEPT ![u] = NewEntry] /\ entries \in [Entrants -> EntryRecords]
      /\ entries[u] = NoEntry \/ Registered(u)
  BY DEF CompetitionTyped, CompetitionTypeOK, Register, Registered
<1>2. entries[u] = NoEntry
  BY <1>1, CompetitionAssumption DEF Register
<1>3. \A v \in Entrants : entries'[v].pos = entries[v].pos
  BY <1>1, <1>2, EntriesGiven
<1>4. \A c \in CycleCalls : ~TradesFor(c, u)
  BY <1>2 DEF CompetitionTyped, CyclesTyped, Registered, TradesFor, Trading, InCycle
<1>5. TableFollows
  BY <1>1, EntriesGiven, PersistTyped DEF CompetitionTyped, Register, TableFollows
<1>6. \A v \in Entrants : v # u => guards'[v] = guards[v]
  BY DEF CompetitionTyped, CompetitionTypeOK, Register
<1> QED
  BY <1>3, <1>4, <1>5, <1>6, StillCycles, QuietKeeps DEF Register

LEMMA SubmitKeeps ==
  ASSUME CompetitionTyped, AccountsInv, NEW u \in Entrants, NEW notional \in Notionals,
         SubmitStrategy(u, notional)
  PROVE  AccountsInv'
<1>1. entries'[u] \in EntryRecords
  BY SubmitTyped DEF CompetitionTyped, CompetitionTypeOK
<1>2. TableFollows
  BY <1>1, PersistTyped DEF CompetitionTyped, SubmitStrategy, TableFollows
<1> QED
  BY <1>2, SubmitTyped, StillCycles, QuietKeeps DEF SubmitStrategy

LEMMA BeginKeeps ==
  ASSUME CompetitionTyped, AccountsInv, NEW c \in CycleCalls, NEW u \in Entrants, BeginCycle(c, u)
  PROVE  AccountsInv'
<1>1. QuietCycles
  BY QuietGoes DEF CompetitionTyped, BeginCycle
<1> QED
  BY <1>1, QuietKeeps DEF BeginCycle, TableFollows

LEMMA BarsKeep ==
  ASSUME CompetitionTyped, AccountsInv, NEW c \in CycleCalls, BarsArrive(c)
  PROVE  AccountsInv'
<1> DEFINE u == cycle[c].who
<1>1. PICK next \in CycleRecords :
        /\ Goes(c, next) /\ next.step = "decide" /\ next.who = u /\ next.seen = entries[u].pos
  BY BarsGiven
<1>2. u \in Entrants /\ UNCHANGED <<entries, players>>
  BY BarsGiven DEF BarsArrive
<1>3. cycle'[c] = next /\ \A d \in CycleCalls \ {c} : cycle'[d] = cycle[d]
  BY <1>1, CycleGoes DEF CompetitionTyped
<1>4. /\ guards'[u] = entries[u].pos
      /\ \A v \in Entrants \ {u} : guards'[v] = guards[v]
  BY <1>2 DEF CompetitionTyped, CompetitionTypeOK, BarsArrive
<1>5. \A d \in CycleCalls, v \in Entrants :
        TradesFor(d, v)' <=> (d = c /\ v = u) \/ (d # c /\ TradesFor(d, v))
  BY <1>1, <1>2, <1>3 DEF TradesFor, Trading
<1>6. GuardsSynced'
  BY <1>2, <1>4, <1>5 DEF AccountsInv, GuardsSynced
<1>7. AccountsCapped'
  BY <1>2 DEF AccountsInv, AccountsCapped
<1>8. LongOnlyAll'
  <2> SUFFICES ASSUME ~AllowShort, NEW v \in Entrants \ overlapping' PROVE LongOnly(v)'
    BY DEF LongOnlyAll
  <2>1. LongOnly(v)
    BY DEF AccountsInv, LongOnlyAll, BarsArrive
  <2>2. v = u => \A d \in CycleCalls \ {c} : ~TradesFor(d, v)
    BY DEF BarsArrive, TradesFor, Trading
  <2>3. \A d \in CycleCalls : TradesFor(d, v)' =>
          /\ \A d2 \in CycleCalls : TradesFor(d2, v)' => d2 = d
          /\ cycle'[d].seen = entries'[v].pos
    BY <1>1, <1>2, <1>3, <1>5, <2>1, <2>2 DEF LongOnly
  <2>4. \A d \in CycleCalls : TradesFor(d, v)' /\ InCycle(d, "place")' =>
          cycle'[d].seen[cycle'[d].symbol] + Delta(cycle'[d].intent) >= 0
    BY <1>1, <1>3, <1>5, <2>1 DEF LongOnly, InCycle
  <2> QED
    BY <1>2, <2>1, <2>3, <2>4 DEF LongOnly, NeverShort
<1> QED
  BY <1>6, <1>7, <1>8 DEF AccountsInv

LEMMA DecideKeeps ==
  ASSUME CompetitionTyped, AccountsInv, NEW c \in CycleCalls, NEW s \in Symbols, NEW signal,
         DecideSymbol(c, s, signal)
  PROVE  AccountsInv'
<1> DEFINE u == cycle[c].who
<1>1. PICK next \in CycleRecords :
        /\ Goes(c, next) /\ next.step \in {"decide", "place"} /\ next.who = u
        /\ next.seen = cycle[c].seen
        /\ next.step = "place" =>
             /\ next.symbol = s
             /\ next.intent = Decide(cycle[c].notional, signal, cycle[c].seen[s], cycle[c].price[s])
  BY DecisionGiven
<1>2. /\ u \in Entrants /\ Trading(c) /\ UNCHANGED <<entries, guards, players, overlapping>>
      /\ cycle[c].notional \in Nat /\ cycle[c].seen \in Positions /\ cycle[c].price[s] \in Nat \ {0}
  BY DecisionGiven DEF DecideSymbol
<1>3. cycle'[c] = next /\ \A d \in CycleCalls \ {c} : cycle'[d] = cycle[d]
  BY <1>1, CycleGoes DEF CompetitionTyped
<1>4. \A d \in CycleCalls, v \in Entrants : TradesFor(d, v)' <=> TradesFor(d, v)
  BY <1>1, <1>2, <1>3 DEF TradesFor, Trading
<1>5. GuardsSynced' /\ AccountsCapped'
  BY <1>2, <1>4 DEF AccountsInv, GuardsSynced, AccountsCapped
<1>6. LongOnlyAll'
  <2> SUFFICES ASSUME ~AllowShort, NEW v \in Entrants \ overlapping PROVE LongOnly(v)'
    BY <1>2 DEF LongOnlyAll
  <2>1. LongOnly(v)
    BY DEF AccountsInv, LongOnlyAll
  <2>2. ASSUME TradesFor(c, v), next.step = "place"
        PROVE  next.seen[next.symbol] + Delta(next.intent) >= 0
    <3>1. cycle[c].seen[s] \in Nat
      BY <1>2, <2>1, <2>2 DEF LongOnly, NeverShort, Positions
    <3> QED
      BY <1>1, <1>2, <2>2, <3>1, DecideNeverShort
  <2>3. \A d \in CycleCalls : TradesFor(d, v)' /\ InCycle(d, "place")' =>
          cycle'[d].seen[cycle'[d].symbol] + Delta(cycle'[d].intent) >= 0
    BY <1>3, <1>4, <2>1, <2>2 DEF LongOnly, InCycle
  <2>4. \A d \in CycleCalls : TradesFor(d, v)' => cycle'[d].seen = entries'[v].pos
    BY <1>1, <1>2, <1>3, <1>4, <2>1 DEF LongOnly
  <2> QED
    BY <1>2, <1>4, <2>1, <2>3, <2>4 DEF LongOnly, NeverShort
<1> QED
  BY <1>5, <1>6 DEF AccountsInv

LEMMA PlaceKeeps ==
  ASSUME CompetitionTyped, AccountsInv, NEW c \in CycleCalls, PlaceOrder(c)
  PROVE  AccountsInv'
<1> DEFINE x == cycle[c]
           u == x.who
           s == x.symbol
           i == x.intent
<1>1. /\ u \in Entrants /\ TradesFor(c, u) /\ s \in Symbols /\ i \in Intents /\ x.seen \in Positions
      /\ entries'[u].pos = Filled(entries[u].pos, s, i) /\ entries[u].pos \in Positions
      /\ \A v \in Entrants \ {u} : entries'[v] = entries[v]
      /\ guards'[u] = Filled(guards[u], s, i)
      /\ \A v \in Entrants \ {u} : guards'[v] = guards[v]
      /\ UNCHANGED <<players, overlapping>>
  BY PlaceGives, EntryFields DEF PlaceOrder, CompetitionTyped, CompetitionTypeOK
<1>2. PICK next \in CycleRecords :
        Goes(c, next) /\ next.step = "decide" /\ next.who = u /\ next.seen = Filled(x.seen, s, i)
  BY PlaceGives
<1>3. cycle'[c] = next /\ \A d \in CycleCalls \ {c} : cycle'[d] = cycle[d]
  BY <1>2, CycleGoes DEF CompetitionTyped
<1>4. \A d \in CycleCalls, v \in Entrants : TradesFor(d, v)' <=> TradesFor(d, v)
  BY <1>1, <1>2, <1>3 DEF TradesFor, Trading
<1>5. guards[u] = entries[u].pos
  BY <1>1 DEF AccountsInv, GuardsSynced
<1>6. GuardsSynced'
  BY <1>1, <1>4, <1>5 DEF AccountsInv, GuardsSynced
<1>7. WithinCaps(entries'[u].pos)
  BY <1>1, <1>5, GuardKeepsCaps DEF AccountsInv, AccountsCapped, PlaceOrder, GuardPasses
<1>8. AccountsCapped'
  BY <1>1, <1>7 DEF AccountsInv, AccountsCapped
<1>9. LongOnlyAll'
  <2> SUFFICES ASSUME ~AllowShort, NEW v \in Entrants \ overlapping PROVE LongOnly(v)'
    BY <1>1 DEF LongOnlyAll
  <2>1. LongOnly(v)
    BY DEF AccountsInv, LongOnlyAll
  <2>2. CASE v # u
    <3>1. \A d \in CycleCalls : TradesFor(d, v)' => d # c
      BY <1>4, <2>2 DEF TradesFor
    <3>2. \A d \in CycleCalls : TradesFor(d, v)' =>
            cycle'[d] = cycle[d] /\ (InCycle(d, "place")' <=> InCycle(d, "place"))
      BY <1>3, <3>1 DEF InCycle
    <3> QED
      BY <1>1, <1>4, <2>1, <2>2, <3>2 DEF LongOnly, NeverShort
  <2>3. CASE v = u
    <3>1. \A d \in CycleCalls : TradesFor(d, v)' => d = c
      BY <1>1, <1>4, <2>1, <2>3 DEF LongOnly
    <3>2. ~InCycle(c, "place")' /\ cycle'[c].seen = entries'[u].pos
      BY <1>1, <1>2, <1>3, <2>1, <2>3 DEF LongOnly, InCycle
    <3>3. entries[u].pos[s] + Delta(i) >= 0
      BY <1>1, <2>1, <2>3 DEF LongOnly, PlaceOrder
    <3>4. NeverShort(entries'[u].pos)
      BY <1>1, <2>1, <2>3, <3>3, FilledType DEF LongOnly, NeverShort
    <3> QED
      BY <1>1, <2>1, <2>3, <3>1, <3>2, <3>4 DEF LongOnly, NeverShort
  <2> QED
    BY <2>2, <2>3
<1> QED
  BY <1>6, <1>8, <1>9 DEF AccountsInv

LEMMA OthersKeep ==
  ASSUME CompetitionTyped, AccountsInv,
         \/ \E c \in CycleCalls : BlockOrder(c) \/ FinishCycle(c) \/ CycleAborted(c)
         \/ RestartCompetition
         \/ UNCHANGED competitionVars
  PROVE  AccountsInv'
<1>1. ASSUME NEW c \in CycleCalls, BlockOrder(c) PROVE AccountsInv'
  <2>1. InCycle(c, "place") /\ cycle[c].seen \in Positions /\ Goes(c, NextSymbol(cycle[c], cycle[c].seen))
    BY <1>1, CycleShapes DEF CompetitionTyped, BlockOrder
  <2>2. QuietCycles
    BY <2>1, QuietGoes, PlacingGoes, PlacingShape DEF CompetitionTyped
  <2> QED
    BY <1>1, <2>2, QuietKeeps DEF BlockOrder, TableFollows
<1>2. ASSUME NEW c \in CycleCalls, FinishCycle(c) PROVE AccountsInv'
  <2>1. QuietCycles
    BY <1>2, FinishGives, WaitingIs, QuietGoes DEF CompetitionTyped
  <2>2. TableFollows
    BY <1>2, FinishGives, PersistTyped DEF CompetitionTyped, TableFollows
  <2> QED
    BY <1>2, <2>1, <2>2, FinishGives, QuietKeeps DEF FinishCycle
<1>3. ASSUME NEW c \in CycleCalls, CycleAborted(c) PROVE AccountsInv'
  <2>1. QuietCycles
    BY <1>3, WaitingIs, QuietGoes DEF CompetitionTyped, CycleAborted
  <2> QED
    BY <1>3, <2>1, QuietKeeps DEF CycleAborted, TableFollows
<1>4. ASSUME RestartCompetition PROVE AccountsInv'
  <2>1. \A c \in CycleCalls, u \in Entrants : ~TradesFor(c, u)'
    BY <1>4, RestartTyped DEF TradesFor
  <2>2. entries' = players /\ players' = players /\ overlapping' = overlapping
    BY <1>4 DEF RestartCompetition
  <2>3. GuardsSynced' /\ AccountsCapped'
    BY <2>1, <2>2 DEF AccountsInv, GuardsSynced, AccountsCapped
  <2>4. LongOnlyAll'
    BY <2>1, <2>2 DEF AccountsInv, LongOnlyAll, LongOnly, NeverShort
  <2> QED
    BY <2>3, <2>4 DEF AccountsInv
<1>5. ASSUME UNCHANGED competitionVars PROVE AccountsInv'
  BY <1>5, StillCycles, QuietKeeps DEF competitionVars, TableFollows
<1> QED
  BY <1>1, <1>2, <1>3, <1>4, <1>5

LEMMA AccountsSteps ==
  CompetitionTyped /\ AccountsInv /\ [CompetitionNext]_competitionVars => AccountsInv'
  BY RegisterKeeps, SubmitKeeps, BeginKeeps, BarsKeep, DecideKeeps, PlaceKeeps, OthersKeep
     DEF CompetitionNext

-----------------------------------------------------------------------------
\* Saving what was changed leaves no other entrant behind.
LEMMA PersistSaves ==
  ASSUME CompetitionTypeOK, Saved, NEW u \in Entrants, entries'[u] \in EntryRecords,
         Persist(u, entries'[u]), \A v \in Entrants \ {u} : entries'[v] = entries[v],
         \A c \in CycleCalls, v \in Entrants : v # u /\ TradesFor(c, v) => TradesFor(c, v)'
  PROVE  Saved'
<1> SUFFICES ASSUME NEW v \in Entrants \ unsaved'
             PROVE  players'[v] = entries'[v] \/ \E c \in CycleCalls : TradesFor(c, v)'
  BY DEF Saved
<1>1. \/ v = u /\ players'[v] = entries'[u]
      \/ v # u /\ v \notin unsaved /\ players'[v] = players[v]
  BY PersistTyped
<1> QED
  BY <1>1 DEF Saved

\* What nobody touched, somebody still trades for, or is saved as it is.
LEMMA SavedFollows ==
  ASSUME Saved, unsaved \subseteq unsaved', UNCHANGED players,
         \A v \in Entrants \ unsaved' :
           \/ entries'[v] = entries[v]
           \/ \E c \in CycleCalls : TradesFor(c, v)',
         \A c \in CycleCalls, v \in Entrants \ unsaved' : TradesFor(c, v) => TradesFor(c, v)'
  PROVE  Saved'
  BY DEF Saved

LEMMA SavedSteps ==
  CompetitionTyped /\ Saved /\ [CompetitionNext]_competitionVars => Saved'
<1> SUFFICES ASSUME CompetitionTyped, Saved, [CompetitionNext]_competitionVars PROVE Saved'
  OBVIOUS
<1> USE DEF CompetitionTyped
<1>1. ASSUME NEW u \in Entrants, Register(u) PROVE Saved'
  <2>1. /\ entries'[u] = NewEntry /\ \A v \in Entrants \ {u} : entries'[v] = entries[v]
    BY <1>1 DEF CompetitionTypeOK, Register
  <2> QED
    BY <1>1, <2>1, EntriesGiven, PersistSaves DEF Register, TradesFor, Trading
<1>2. ASSUME NEW u \in Entrants, NEW notional \in Notionals, SubmitStrategy(u, notional) PROVE Saved'
  <2>1. entries'[u] \in EntryRecords /\ \A v \in Entrants \ {u} : entries'[v] = entries[v]
    BY <1>2, SubmitTyped DEF CompetitionTypeOK
  <2> QED
    BY <1>2, <2>1, PersistSaves DEF SubmitStrategy, TradesFor, Trading
<1>3. ASSUME NEW c \in CycleCalls, NEW u \in Entrants, BeginCycle(c, u) PROVE Saved'
  <2>1. \A d \in CycleCalls \ {c} : cycle'[d] = cycle[d]
    BY <1>3, CycleGoes DEF BeginCycle
  <2>2. \A v \in Entrants : ~TradesFor(c, v)
    BY <1>3 DEF BeginCycle, TradesFor, Trading, InCycle
  <2> QED
    BY <1>3, <2>1, <2>2, SavedFollows DEF BeginCycle, TradesFor, Trading
<1>4. ASSUME NEW c \in CycleCalls, BarsArrive(c) PROVE Saved'
  <2>1. \A d \in CycleCalls \ {c} : cycle'[d] = cycle[d]
    BY <1>4, BarsGiven, CycleGoes
  <2>2. \A v \in Entrants : ~TradesFor(c, v)
    BY <1>4 DEF BarsArrive, TradesFor, Trading, InCycle
  <2> QED
    BY <1>4, <2>1, <2>2, SavedFollows DEF BarsArrive, TradesFor, Trading
<1>5. ASSUME NEW c \in CycleCalls, NEW s \in Symbols, NEW signal, DecideSymbol(c, s, signal)
      PROVE  Saved'
  <2>1. PICK next \in CycleRecords :
          Goes(c, next) /\ next.step \in {"decide", "place"} /\ next.who = cycle[c].who
    BY <1>5, DecisionGiven
  <2>2. \A d \in CycleCalls, v \in Entrants : TradesFor(d, v) => TradesFor(d, v)'
    BY <2>1, CycleGoes DEF TradesFor, Trading
  <2> QED
    BY <1>5, <2>2, SavedFollows DEF DecideSymbol
<1>6. ASSUME NEW c \in CycleCalls, PlaceOrder(c) PROVE Saved'
  <2>1. PICK next \in CycleRecords :
          Goes(c, next) /\ next.step = "decide" /\ next.who = cycle[c].who
    BY <1>6, PlaceGives
  <2>2. \A d \in CycleCalls, v \in Entrants : TradesFor(d, v) => TradesFor(d, v)'
    BY <2>1, CycleGoes DEF TradesFor, Trading
  <2>3. /\ TradesFor(c, cycle[c].who) /\ cycle[c].who \in Entrants
        /\ \A v \in Entrants \ {cycle[c].who} : entries'[v] = entries[v]
    BY <1>6, PlaceGives
  <2>4. TradesFor(c, cycle[c].who)'
    BY <2>1, CycleGoes DEF TradesFor, Trading
  <2>5. \A v \in Entrants : entries'[v] = entries[v] \/ \E d \in CycleCalls : TradesFor(d, v)'
    BY <2>2, <2>3
  <2>6. UNCHANGED <<players, unsaved>>
    BY <1>6 DEF PlaceOrder
  <2> QED
    BY <2>2, <2>5, <2>6, SavedFollows
<1>7. ASSUME NEW c \in CycleCalls, BlockOrder(c) PROVE Saved'
  <2>1. InCycle(c, "place") /\ cycle[c].seen \in Positions /\ Goes(c, NextSymbol(cycle[c], cycle[c].seen))
    BY <1>7, CycleShapes DEF BlockOrder
  <2>2. \A d \in CycleCalls, v \in Entrants : TradesFor(d, v) => TradesFor(d, v)'
    BY <2>1, CycleGoes, PlacingGoes DEF TradesFor, Trading
  <2> QED
    BY <1>7, <2>2, SavedFollows DEF BlockOrder
<1>8. ASSUME NEW c \in CycleCalls, FinishCycle(c) PROVE Saved'
  <2>1. \A d \in CycleCalls \ {c} : cycle'[d] = cycle[d]
    BY <1>8, FinishGives, CycleGoes
  <2>2. \A d \in CycleCalls, v \in Entrants : v # cycle[c].who /\ TradesFor(d, v) => TradesFor(d, v)'
    BY <2>1 DEF TradesFor, Trading
  <2> QED
    BY <1>8, <2>2, FinishGives, PersistSaves
<1>9. ASSUME NEW c \in CycleCalls, CycleAborted(c) PROVE Saved'
  <2>1. \A d \in CycleCalls \ {c} : cycle'[d] = cycle[d]
    BY <1>9, CycleGoes DEF CycleAborted
  <2>2. Trading(c) => cycle[c].who \in unsaved'
    BY <1>9 DEF CycleAborted, Trading, InCycle
  <2> QED
    BY <1>9, <2>1, <2>2, SavedFollows DEF CycleAborted, TradesFor, Trading
<1>10. CASE RestartCompetition
  BY <1>10 DEF RestartCompetition, Saved
<1>11. CASE UNCHANGED competitionVars
  BY <1>11 DEF competitionVars, Saved, TradesFor, Trading
<1> QED
  BY <1>1, <1>2, <1>3, <1>4, <1>5, <1>6, <1>7, <1>8, <1>9, <1>10, <1>11 DEF CompetitionNext

\* Without a bus a cycle holds the loop from its bars to its end.
LEMMA LoopSteps ==
  CompetitionTyped /\ LoopHeld /\ [CompetitionNext]_competitionVars => LoopHeld'
<1> SUFFICES ASSUME CompetitionTyped, LoopHeld, [CompetitionNext]_competitionVars, ~hasBus'
             PROVE  \A d \in CycleCalls : Trading(d)' => loop' = d
  BY DEF LoopHeld
<1> USE DEF CompetitionTyped
<1>b. hasBus' = hasBus
  BY DEF CompetitionNext, Register, SubmitStrategy, BeginCycle, BarsArrive, DecideSymbol,
         PlaceOrder, BlockOrder, FinishCycle, CycleAborted, RestartCompetition, competitionVars
<1>0. ~hasBus /\ \A d \in CycleCalls : Trading(d) => loop = d
  BY <1>b DEF LoopHeld
<1>n. loop = Nobody => \A d \in CycleCalls : ~Trading(d)
  BY <1>0, CompetitionAssumption
<1>1. ASSUME NEW u \in Entrants, Register(u) \/ \E notional \in Notionals : SubmitStrategy(u, notional)
      PROVE  \A d \in CycleCalls : ~Trading(d)'
  BY <1>1, <1>n DEF Register, SubmitStrategy, Trading
<1>2. ASSUME NEW c \in CycleCalls, (\E u \in Entrants : BeginCycle(c, u)) \/ CycleAborted(c)
      PROVE  \A d \in CycleCalls : ~Trading(d)'
  <2>1. loop = Nobody
    BY <1>2 DEF BeginCycle, CycleAborted
  <2>2. ASSUME NEW next, Goes(c, next), next.step \in {"bars", "none"}
        PROVE  \A d \in CycleCalls : ~Trading(d)'
    BY <1>n, <2>1, <2>2, CycleGoes DEF Trading
  <2>3. ASSUME NEW u \in Entrants, BeginCycle(c, u) PROVE \A d \in CycleCalls : ~Trading(d)'
    <3> DEFINE next == [step |-> "bars", who |-> u, notional |-> entries[u].config]
    <3>1. Goes(c, next) /\ next.step = "bars"
      BY <2>3 DEF BeginCycle
    <3> HIDE DEF next
    <3> QED
      BY <2>2, <3>1
  <2>4. ASSUME CycleAborted(c) PROVE \A d \in CycleCalls : ~Trading(d)'
    <3>1. Goes(c, Waiting) /\ Waiting.step = "none"
      BY <2>4, WaitingIs DEF CycleAborted
    <3> QED
      BY <2>2, <3>1
  <2> QED
    BY <1>2, <2>3, <2>4
<1>3. ASSUME NEW c \in CycleCalls, BarsArrive(c) PROVE \A d \in CycleCalls : Trading(d)' => loop' = d
  <2>1. \A d \in CycleCalls \ {c} : cycle'[d] = cycle[d]
    BY <1>3, BarsGiven, CycleGoes
  <2> QED
    BY <1>3, <1>n, <2>1 DEF BarsArrive, Trading
<1>4. ASSUME NEW c \in CycleCalls, LoopFree(c), Yield(c) \/ ~Trading(c)',
             NEW next, Goes(c, next)
      PROVE  \A d \in CycleCalls : Trading(d)' => loop' = d
  <2>1. \A d \in CycleCalls \ {c} : cycle'[d] = cycle[d]
    BY <1>4, CycleGoes
  <2>2. \A d \in CycleCalls \ {c} : ~Trading(d)'
    BY <1>0, <1>4, <2>1, CompetitionAssumption DEF LoopFree, Trading
  <2> QED
    BY <1>0, <1>4, <2>2 DEF Yield
<1>5. ASSUME NEW c \in CycleCalls, NEW s \in Symbols, NEW signal, DecideSymbol(c, s, signal)
      PROVE  \A d \in CycleCalls : Trading(d)' => loop' = d
  BY <1>4, <1>5 DEF DecideSymbol
<1>6. ASSUME NEW c \in CycleCalls, PlaceOrder(c) \/ BlockOrder(c)
      PROVE  \A d \in CycleCalls : Trading(d)' => loop' = d
  BY <1>4, <1>6 DEF PlaceOrder, BlockOrder
<1>7. ASSUME NEW c \in CycleCalls, FinishCycle(c)
      PROVE  \A d \in CycleCalls : Trading(d)' => loop' = d
  <2>1. LoopFree(c) /\ Goes(c, Waiting)
    BY <1>7 DEF FinishCycle, Ends
  <2>2. ~Trading(c)'
    BY <2>1, CycleGoes, WaitingIs DEF Trading
  <2> QED
    BY <1>4, <2>1, <2>2
<1>8. CASE RestartCompetition
  BY <1>8, RestartTyped
<1>9. CASE UNCHANGED competitionVars
  BY <1>0, <1>9 DEF competitionVars, Trading
<1> QED
  BY <1>1, <1>2, <1>3, <1>5, <1>6, <1>7, <1>8, <1>9 DEF CompetitionNext

\* A competition begins without entrants.
LEMMA CompetitionStarts == CompetitionInit => CompetitionInv
<1> SUFFICES ASSUME CompetitionInit PROVE CompetitionInv
  OBVIOUS
<1>1. CyclesTyped /\ (\A c \in CycleCalls : ~Trading(c)) /\ \A c \in CycleCalls, u \in Entrants : ~TradesFor(c, u)
  BY DEF CompetitionInit, CyclesTyped, CycleRecords, Waiting, InCycle, Trading, TradesFor
<1>2. CompetitionTypeOK
  BY EntriesGiven, CompetitionAssumption DEF CompetitionInit, CompetitionTypeOK
<1>3. WithinCaps(Flat)
  <2>1. OpenPositions(Flat) = {}
    BY DEF OpenPositions, Flat
  <2> QED
    BY <2>1, FS_EmptySet, LimitsAssumption DEF WithinCaps, WithinPositionCap, Flat
<1>4. \A u \in Entrants : entries[u].pos = Flat /\ players[u].pos = Flat /\ players[u] = entries[u]
  BY EntriesGiven DEF CompetitionInit
<1>5. AccountsInv
  BY <1>1, <1>3, <1>4 DEF AccountsInv, GuardsSynced, AccountsCapped, LongOnlyAll, LongOnly,
     NeverShort, Flat
<1>6. Saved /\ LoopHeld
  BY <1>1, <1>4 DEF Saved, LoopHeld
<1> QED
  BY <1>1, <1>2, <1>5, <1>6 DEF CompetitionInv, CompetitionTyped

LEMMA CompetitionSteps == CompetitionInv /\ [CompetitionNext]_competitionVars => CompetitionInv'
  BY CompetitionStepsTyped, AccountsSteps, SavedSteps, LoopSteps DEF CompetitionInv

\* For any number of entrants, cycles and symbols: through overlapping cycles, failing
\* saves and restarts an entrant's account keeps the caps, and between calls the table
\* holds it, but for what EntrantWithinCaps and SavedIsCurrent except.
THEOREM EntrantsAreSound ==
  CompetitionSpec => [](CompetitionTypeOK /\ EntrantWithinCaps /\ SavedIsCurrent)
<1>1. CompetitionInv => CompetitionTypeOK /\ EntrantWithinCaps
  BY DEF CompetitionInv, CompetitionTyped, AccountsInv, AccountsCapped, LongOnlyAll, LongOnly,
         NeverShort, EntrantWithinCaps
<1>2. CompetitionInv => SavedIsCurrent
  BY CompetitionAssumption
     DEF CompetitionInv, Saved, LoopHeld, SavedIsCurrent, CompetitionTyped, CompetitionTypeOK,
         TradesFor, Trading
<1> QED
  BY <1>1, <1>2, CompetitionStarts, CompetitionSteps, PTL DEF CompetitionSpec

-----------------------------------------------------------------------------
\* The ledger and the daily dumps.

Reports == [fills : SUBSET Fills, taken : 0..LastDay]
Taken == 0..LastDay

ExportRecords ==
  {Away} \cup [step : {"fetch"}, day : LedgerDays, taken : Taken, only : BOOLEAN]
  \cup [step : {"merge"}, day : LedgerDays, taken : Taken, only : BOOLEAN, now : LedgerDays,
        fills : SUBSET Fills]
  \cup [step : {"write"}, day : LedgerDays, taken : Taken, only : BOOLEAN, now : LedgerDays,
        fills : SUBSET Fills, group : LedgerDays, read : SUBSET Fills]
  \cup [step : {"snap"}, day : LedgerDays, taken : Taken, only : BOOLEAN, now : LedgerDays]
  \cup [step : {"load"}, day : LedgerDays, taken : Taken]
  \cup [step : {"put"}, day : LedgerDays, next : 1 .. Len(Objects) + 1, report : Reports]

DumpsTyped ==
  /\ DumpsTypeOK
  /\ dump \in [LedgerDays -> [ToSet(Objects) -> Reports \cup {NoReport}]]
  /\ export \in [Exporters -> ExportRecords]

\* Of a day whose merges stayed apart, the one that is under way has read what is there.
MergesApart ==
  \A e \in Exporters : Exporting(e, "write") /\ export[e].group \notin spoiled =>
    /\ export[e].read = ledger[export[e].group]
    /\ \A g \in Exporters \ {e} : ~Merging(g, export[e].group)

\* What was published of such a day, and what is about to be, is in its ledger.
PublishedKept ==
  \A d \in LedgerDays \ spoiled :
    /\ issued[d] \subseteq ledger[d]
    /\ \A e \in Exporters : Publishing(e, d) => export[e].report.fills \subseteq ledger[d]

\* The objects put so far are there.
PutSoFar ==
  /\ \A d \in success : \A o \in ToSet(Objects) : dump[d][o] # NoReport
  /\ \A e \in Exporters : Exporting(e, "put") =>
       \A i \in 1 .. export[e].next - 1 : dump[Day(e)][Objects[i]] # NoReport

\* A published day is of one report that misses nothing published before, unless one of its
\* objects is already replaced.
OneReport(d) ==
  /\ \A o, p \in ToSet(Objects) : dump[d][o] = dump[d][p]
  /\ d \in spoiled \/ issued[d] \subseteq dump[d]["executions"].fills

Replacing(e, d) == Publishing(e, d) /\ export[e].next > 1

\* Of a day whose publications stayed apart.
PublishedApart ==
  \A d \in LedgerDays \ disturbed :
    /\ d \in success => OneReport(d) \/ \E e \in Exporters : Replacing(e, d)
    /\ \A e \in Exporters : Publishing(e, d) =>
         /\ \A g \in Exporters \ {e} : ~Publishing(g, d)
         /\ \A i \in 1 .. export[e].next - 1 : dump[d][Objects[i]] = export[e].report
         /\ d \in spoiled \/ issued[d] \subseteq export[e].report.fills

\* Positions of a day, where they are kept and on their way.
OfDay(taken, d) == taken \in {0, d} \/ d \in backdated

Dated ==
  /\ \A d \in LedgerDays : OfDay(snapshot[d], d)
  /\ \A d \in LedgerDays : \A o \in ToSet(Objects) :
       dump[d][o] = NoReport \/ OfDay(dump[d][o].taken, d)
  /\ \A e \in Exporters :
       /\ export[e].step \in {"fetch", "merge", "write", "snap", "load"} => OfDay(export[e].taken, Day(e))
       /\ Exporting(e, "put") => OfDay(export[e].report.taken, Day(e))

DumpsInv ==
  DumpsTyped /\ LedgerKeeps /\ MergesApart /\ PublishedKept /\ PutSoFar /\ PublishedApart /\ Dated

-----------------------------------------------------------------------------
\* An exporter's record, by its step.
LEMMA ExportShapes ==
  ASSUME DumpsTyped, NEW e \in Exporters
  PROVE  /\ Exporting(e, "fetch") =>
              export[e] \in [step : {"fetch"}, day : LedgerDays, taken : Taken, only : BOOLEAN]
         /\ Exporting(e, "merge") =>
              export[e] \in [step : {"merge"}, day : LedgerDays, taken : Taken, only : BOOLEAN,
                             now : LedgerDays, fills : SUBSET Fills]
         /\ Exporting(e, "write") =>
              export[e] \in [step : {"write"}, day : LedgerDays, taken : Taken, only : BOOLEAN,
                             now : LedgerDays, fills : SUBSET Fills, group : LedgerDays,
                             read : SUBSET Fills]
         /\ Exporting(e, "snap") =>
              export[e] \in [step : {"snap"}, day : LedgerDays, taken : Taken, only : BOOLEAN,
                             now : LedgerDays]
         /\ Exporting(e, "load") => export[e] \in [step : {"load"}, day : LedgerDays, taken : Taken]
         /\ Exporting(e, "put") =>
              export[e] \in [step : {"put"}, day : LedgerDays, next : 1 .. Len(Objects) + 1,
                             report : Reports]
         /\ ~Exporting(e, "away") => Day(e) \in LedgerDays
<1>1. export[e] \in ExportRecords
  BY DEF DumpsTyped
<1> QED
  BY <1>1 DEF ExportRecords, Exporting, Away, Day

\* One exporter goes on, the others stay where they are.
LEMMA ExportGoes ==
  ASSUME DumpsTyped, NEW e \in Exporters, NEW next \in ExportRecords, Exports(e, next)
  PROVE  /\ export' \in [Exporters -> ExportRecords] /\ export'[e] = next
         /\ \A g \in Exporters \ {e} : export'[g] = export[g]
  BY DEF DumpsTyped, Exports

LEMMA AwayIs == Away \in ExportRecords /\ Away.step = "away"
  BY DEF ExportRecords, Away

\* What a merge goes on to.
LEMMA MergeGoes ==
  ASSUME NEW x, x.day \in LedgerDays, x.taken \in Taken, x.only \in BOOLEAN,
         NEW now \in LedgerDays, NEW fills \in SUBSET Fills
  PROVE  LET next == MergeNext(x, now, fills)
         IN /\ next \in ExportRecords /\ next.step \in {"snap", "merge"}
            /\ next.day = x.day /\ next.taken = x.taken /\ next.now = now
<1>1. CASE fills = {}
  BY <1>1 DEF MergeNext, ExportRecords
<1>2. CASE fills # {}
  <2> DEFINE next == [step |-> "merge", day |-> x.day, taken |-> x.taken, only |-> x.only, now |-> now,
                      fills |-> fills]
  <2>1. next \in ExportRecords
    BY DEF ExportRecords
  <2>2. MergeNext(x, now, fills) = next
    BY <1>2 DEF MergeNext
  <2> QED
    BY <2>1, <2>2
<1> QED
  BY <1>1, <1>2

\* Where an exporter goes in each of its steps.
LEMMA ExportDayGoes ==
  ASSUME DumpsTyped, NEW e \in Exporters, NEW d \in LedgerDays, NEW only \in BOOLEAN,
         ExportDay(e, d, only)
  PROVE  \E next \in ExportRecords :
           /\ Exports(e, next) /\ next.step \in {"fetch", "load"}
           /\ next.day = d /\ next.taken = snapshot[d]
<1>1. snapshot[d] \in Taken
  BY DEF DumpsTyped, DumpsTypeOK, Taken
<1> DEFINE fetch == [step |-> "fetch", day |-> d, taken |-> snapshot[d], only |-> only]
           load == [step |-> "load", day |-> d, taken |-> snapshot[d]]
<1>2. fetch \in ExportRecords /\ load \in ExportRecords
  BY <1>1 DEF ExportRecords
<1>3. Exports(e, fetch) \/ Exports(e, load)
  BY DEF ExportDay
<1> QED
  BY <1>2, <1>3

LEMMA FetchGoes ==
  ASSUME DumpsTyped, NEW e \in Exporters, Fetch(e)
  PROVE  /\ Exporting(e, "fetch") /\ Day(e) \in LedgerDays
         /\ \E next \in ExportRecords :
              /\ Exports(e, next) /\ next.step \in {"snap", "merge"}
              /\ next.day = Day(e) /\ next.taken = export[e].taken
<1>1. /\ Exporting(e, "fetch")
      /\ export[e] \in [step : {"fetch"}, day : LedgerDays, taken : Taken, only : BOOLEAN]
  BY ExportShapes DEF Fetch
<1>2. today \in LedgerDays /\ session \in SUBSET Fills
  BY DEF DumpsTyped, DumpsTypeOK
<1> QED
  BY <1>1, <1>2, MergeGoes DEF Fetch, Day

\* Reading a day's file begins a merge of it, unless the file is torn.
LEMMA ReadGoes ==
  ASSUME DumpsTyped, NEW e \in Exporters, MergeRead(e)
  PROVE  /\ Exporting(e, "merge") /\ Day(e) \in LedgerDays
         /\ \E d \in LedgerDays : \E next \in ExportRecords :
              /\ Exports(e, next) /\ next.step \in {"away", "write"}
              /\ next.step = "write" =>
                   /\ next.day = Day(e) /\ next.taken = export[e].taken
                   /\ next.group = d /\ next.read = ledger[d]
              /\ spoiled' = IF \E g \in Exporters \ {e} : Merging(g, d) THEN spoiled \cup {d} ELSE spoiled
<1> DEFINE x == export[e]
<1>1. /\ Exporting(e, "merge")
      /\ x \in [step : {"merge"}, day : LedgerDays, taken : Taken, only : BOOLEAN,
                now : LedgerDays, fills : SUBSET Fills]
  BY ExportShapes DEF MergeRead
<1> DEFINE write(d) == [step |-> "write", day |-> x.day, taken |-> x.taken, only |-> x.only,
                        now |-> x.now, fills |-> x.fills, group |-> d, read |-> ledger[d]]
<1>2. PICK f \in x.fills :
        /\ Exports(e, IF ledger[FillDay[f]] = Torn THEN Away ELSE write(FillDay[f]))
        /\ spoiled' = IF \E g \in Exporters \ {e} : Merging(g, FillDay[f])
                      THEN spoiled \cup {FillDay[f]} ELSE spoiled
  BY DEF MergeRead
<1>3. FillDay[f] \in LedgerDays
  BY <1>1, <1>2, DumpsAssumption DEF Fills, LedgerDays
<1>4. CASE ledger[FillDay[f]] = Torn
  <2>1. Exports(e, Away)
    BY <1>2, <1>4
  <2> QED
    BY <1>1, <1>2, <1>3, <2>1, AwayIs DEF Day
<1>5. CASE ledger[FillDay[f]] # Torn
  <2>1. ledger[FillDay[f]] \in SUBSET Fills
    BY <1>3, <1>5 DEF DumpsTyped, DumpsTypeOK
  <2>2. write(FillDay[f]) \in ExportRecords
    BY <1>1, <1>3, <2>1 DEF ExportRecords
  <2>3. Exports(e, write(FillDay[f]))
    BY <1>2, <1>5
  <2> QED
    BY <1>1, <1>2, <1>3, <2>2, <2>3 DEF Day
<1> QED
  BY <1>4, <1>5

LEMMA WriteGoes ==
  ASSUME DumpsTyped, NEW e \in Exporters, MergeWrite(e)
  PROVE  /\ Exporting(e, "write") /\ Day(e) \in LedgerDays /\ export[e].group \in LedgerDays
         /\ export[e].read \in SUBSET Fills
         /\ OfGroup(e) \in SUBSET Fills /\ \A f \in OfGroup(e) : FillDay[f] = export[e].group
         /\ ledger' \in [LedgerDays -> (SUBSET Fills) \cup {Torn}]
         /\ ledger'[export[e].group] = export[e].read \cup OfGroup(e)
         /\ \A d \in LedgerDays \ {export[e].group} : ledger'[d] = ledger[d]
         /\ \E next \in ExportRecords :
              /\ Exports(e, next) /\ next.step \in {"snap", "merge"}
              /\ next.day = Day(e) /\ next.taken = export[e].taken
<1> DEFINE x == export[e]
<1>1. /\ Exporting(e, "write")
      /\ x \in [step : {"write"}, day : LedgerDays, taken : Taken, only : BOOLEAN, now : LedgerDays,
                fills : SUBSET Fills, group : LedgerDays, read : SUBSET Fills]
  BY ExportShapes DEF MergeWrite
<1>2. OfGroup(e) \in SUBSET Fills /\ \A f \in OfGroup(e) : FillDay[f] = x.group
  BY <1>1 DEF OfGroup
<1>3. Merged(e) = x.read \cup OfGroup(e) /\ Merged(e) \in SUBSET Fills
  BY <1>1, <1>2 DEF Merged
<1>4. /\ ledger' \in [LedgerDays -> (SUBSET Fills) \cup {Torn}] /\ ledger'[x.group] = Merged(e)
      /\ \A d \in LedgerDays \ {x.group} : ledger'[d] = ledger[d]
  BY <1>1, <1>3 DEF MergeWrite, DumpsTyped, DumpsTypeOK
<1>5. x.fills \ OfGroup(e) \in SUBSET Fills
  BY <1>1
<1>6. Exports(e, MergeNext(x, x.now, x.fills \ OfGroup(e)))
  BY DEF MergeWrite
<1>7. LET next == MergeNext(x, x.now, x.fills \ OfGroup(e))
      IN /\ next \in ExportRecords /\ next.step \in {"snap", "merge"}
         /\ next.day = x.day /\ next.taken = x.taken
  BY <1>1, <1>5, MergeGoes
<1> QED
  BY <1>1, <1>2, <1>3, <1>4, <1>6, <1>7 DEF Day

LEMMA SnapGoes ==
  ASSUME DumpsTyped, NEW e \in Exporters, SaveSnapshot(e)
  PROVE  /\ Exporting(e, "snap") /\ Day(e) \in LedgerDays /\ export[e].now \in LedgerDays
         /\ snapshot' \in [LedgerDays -> Taken] /\ snapshot'[Day(e)] = export[e].now
         /\ \A d \in LedgerDays \ {Day(e)} : snapshot'[d] = snapshot[d]
         /\ backdated' = IF export[e].now # Day(e) THEN backdated \cup {Day(e)} ELSE backdated
         /\ \E next \in ExportRecords :
              /\ Exports(e, next) /\ next.step \in {"away", "load"}
              /\ next.step = "load" =>
                   next.day = Day(e) /\ next.taken \in {export[e].now, export[e].taken}
<1> DEFINE x == export[e]
<1>1. /\ Exporting(e, "snap")
      /\ x \in [step : {"snap"}, day : LedgerDays, taken : Taken, only : BOOLEAN, now : LedgerDays]
  BY ExportShapes DEF SaveSnapshot
<1>2. x.now \in Taken
  BY <1>1, DumpsAssumption DEF Taken, LedgerDays
<1>3. /\ snapshot' \in [LedgerDays -> Taken] /\ snapshot'[Day(e)] = x.now
      /\ \A d \in LedgerDays \ {Day(e)} : snapshot'[d] = snapshot[d]
  BY <1>1, <1>2 DEF SaveSnapshot, DumpsTyped, DumpsTypeOK, Taken, Day
<1> DEFINE load(taken) == [step |-> "load", day |-> Day(e), taken |-> taken]
<1>4. \A taken \in Taken : load(taken) \in ExportRecords
  BY <1>1 DEF ExportRecords, Day
<1>5. Exports(e, IF x.only THEN Away ELSE load(IF Day(e) = today THEN x.now ELSE x.taken))
  BY DEF SaveSnapshot
<1>6. \/ Exports(e, Away)
      \/ \E taken \in {x.now, x.taken} : Exports(e, load(taken))
  BY <1>5
<1>7. \E next \in ExportRecords :
        /\ Exports(e, next) /\ next.step \in {"away", "load"}
        /\ next.step = "load" => next.day = Day(e) /\ next.taken \in {x.now, x.taken}
  BY <1>1, <1>2, <1>4, <1>6, AwayIs
<1> QED
  BY <1>1, <1>3, <1>7 DEF SaveSnapshot, Day

LEMMA LoadGoes ==
  ASSUME DumpsTyped, NEW e \in Exporters, Load(e)
  PROVE  /\ Exporting(e, "load") /\ Day(e) \in LedgerDays
         /\ \E next \in ExportRecords :
              /\ Exports(e, next) /\ next.step \in {"away", "put"}
              /\ next.step = "put" =>
                   /\ next.day = Day(e) /\ next.next = 1
                   /\ next.report.fills = ledger[Day(e)] /\ next.report.taken = export[e].taken
<1> DEFINE d == Day(e)
           put == [step |-> "put", day |-> d, next |-> 1,
                   report |-> [fills |-> ledger[d], taken |-> export[e].taken]]
<1>1. Exporting(e, "load") /\ export[e] \in [step : {"load"}, day : LedgerDays, taken : Taken]
  BY ExportShapes DEF Load
<1>2. CASE ledger[d] = Torn
  BY <1>1, <1>2, AwayIs DEF Load, Day
<1>3. CASE ledger[d] # Torn
  <2>1. ledger[d] \in SUBSET Fills
    BY <1>1, <1>3 DEF DumpsTyped, DumpsTypeOK, Day
  <2>2. [fills |-> ledger[d], taken |-> export[e].taken] \in Reports
    BY <1>1, <2>1 DEF Reports, Taken
  <2>3. Len(Objects) \in Nat
    BY DumpsAssumption
  <2>4. put \in ExportRecords
    BY <1>1, <2>2, <2>3 DEF ExportRecords, Day
  <2>5. Exports(e, put)
    BY <1>3 DEF Load
  <2> QED
    BY <1>1, <2>4, <2>5 DEF Day
<1> QED
  BY <1>2, <1>3

\* The next object of a day becomes the report's.
LEMMA PutGoes ==
  ASSUME DumpsTyped, NEW e \in Exporters, PutObject(e)
  PROVE  LET d == Day(e) n == export[e].next report == export[e].report
         IN /\ Exporting(e, "put") /\ d \in LedgerDays /\ n \in 1 .. Len(Objects)
            /\ report \in Reports /\ report # NoReport /\ Objects[n] \in ToSet(Objects)
            /\ dump' \in [LedgerDays -> [ToSet(Objects) -> Reports \cup {NoReport}]]
            /\ dump'[d][Objects[n]] = report
            /\ \A o \in ToSet(Objects) : o # Objects[n] => dump'[d][o] = dump[d][o]
            /\ \A c \in LedgerDays \ {d} : dump'[c] = dump[c]
            /\ \E next \in ExportRecords :
                 /\ Exports(e, next) /\ next.step = "put" /\ next.day = d
                 /\ next.next = n + 1 /\ next.report = report
<1> DEFINE x == export[e]
           d == Day(e)
           o == Objects[x.next]
<1>1. /\ Exporting(e, "put")
      /\ x \in [step : {"put"}, day : LedgerDays, next : 1 .. Len(Objects) + 1, report : Reports]
  BY ExportShapes DEF PutObject
<1>2. x.next \in 1 .. Len(Objects) /\ Len(Objects) \in Nat
  BY <1>1, DumpsAssumption DEF PutObject
<1>3. o \in ToSet(Objects)
  BY <1>2, DumpsAssumption DEF ToSet
<1>4. x.report \in Reports /\ x.report # NoReport
  BY <1>1 DEF Reports, NoReport
<1>5. d \in LedgerDays
  BY <1>1 DEF Day
<1>6. dump' = [dump EXCEPT ![d][o] = x.report]
  BY DEF PutObject
<1>7. /\ dump' = [dump EXCEPT ![d] = [dump[d] EXCEPT ![o] = x.report]]
      /\ dump[d] \in [ToSet(Objects) -> Reports \cup {NoReport}]
  BY <1>5, <1>6 DEF DumpsTyped
<1>8. [dump[d] EXCEPT ![o] = x.report] \in [ToSet(Objects) -> Reports \cup {NoReport}]
  BY <1>4, <1>7
<1>9. /\ dump' \in [LedgerDays -> [ToSet(Objects) -> Reports \cup {NoReport}]]
      /\ dump'[d] = [dump[d] EXCEPT ![o] = x.report]
      /\ \A c \in LedgerDays \ {d} : dump'[c] = dump[c]
  BY <1>5, <1>7, <1>8 DEF DumpsTyped
<1>10. dump'[d][o] = x.report /\ \A p \in ToSet(Objects) : p # o => dump'[d][p] = dump[d][p]
  BY <1>3, <1>7, <1>9
<1>11. \E next \in ExportRecords :
         /\ Exports(e, next) /\ next.step = "put" /\ next.day = d
         /\ next.next = x.next + 1 /\ next.report = x.report
  <2> DEFINE next == [x EXCEPT !.next = @ + 1]
  <2>1. next \in [step : {"put"}, day : LedgerDays, next : 1 .. Len(Objects) + 1, report : Reports]
    BY <1>1, <1>2
  <2>2. next.step = "put" /\ next.day = x.day /\ next.next = x.next + 1 /\ next.report = x.report
    BY <1>1
  <2>3. next \in ExportRecords
    BY <2>1 DEF ExportRecords
  <2>4. Exports(e, next)
    BY DEF PutObject
  <2> QED
    BY <2>2, <2>3, <2>4 DEF Day
<1> QED
  BY <1>1, <1>2, <1>3, <1>4, <1>5, <1>9, <1>10, <1>11

LEMMA MarkGoes ==
  ASSUME DumpsTyped, NEW e \in Exporters, PutSuccess(e)
  PROVE  LET d == Day(e)
         IN /\ Exporting(e, "put") /\ d \in LedgerDays /\ export[e].next = Len(Objects) + 1
            /\ Len(Objects) \in Nat
            /\ export[e].report.fills \in SUBSET Fills
            /\ issued' \in [LedgerDays -> SUBSET Fills]
            /\ issued'[d] = issued[d] \cup export[e].report.fills
            /\ \A c \in LedgerDays \ {d} : issued'[c] = issued[c]
            /\ success' = success \cup {d} /\ Exports(e, Away)
<1>1. /\ Exporting(e, "put")
      /\ export[e] \in [step : {"put"}, day : LedgerDays, next : 1 .. Len(Objects) + 1, report : Reports]
  BY ExportShapes DEF PutSuccess
<1>2. export[e].next = Len(Objects) + 1 /\ Len(Objects) \in Nat
  BY <1>1, DumpsAssumption DEF PutSuccess
<1>3. export[e].report.fills \in SUBSET Fills /\ Day(e) \in LedgerDays
  BY <1>1 DEF Reports, Day
<1>4. issued' = [issued EXCEPT ![Day(e)] = @ \cup export[e].report.fills]
  BY DEF PutSuccess
<1> QED
  BY <1>1, <1>2, <1>3, <1>4 DEF PutSuccess, DumpsTyped, DumpsTypeOK

\* An exporter that fails leaves at most the file it was writing changed.
LEMMA FailGoes ==
  ASSUME DumpsTyped, NEW e \in Exporters, ExporterFails(e)
  PROVE  /\ Exports(e, Away) /\ Day(e) \in LedgerDays /\ spoiled \subseteq spoiled'
         /\ disturbed' = IF Exporting(e, "put") /\ export[e].next > 1
                         THEN disturbed \cup {Day(e)} ELSE disturbed
         /\ ledger' \in [LedgerDays -> (SUBSET Fills) \cup {Torn}] /\ spoiled' \subseteq LedgerDays
         /\ \A d \in LedgerDays : d \in spoiled' \/ ledger'[d] = ledger[d]
<1>1. Exports(e, Away) /\ Day(e) \in LedgerDays
  BY ExportShapes DEF ExporterFails
<1>2. CASE ~Exporting(e, "write")
  BY <1>1, <1>2 DEF ExporterFails, DumpsTyped, DumpsTypeOK
<1>3. CASE Exporting(e, "write")
  <2>1. export[e].group \in LedgerDays
    BY <1>3, ExportShapes
  <2>2. /\ ledger' \in {ledger, [ledger EXCEPT ![export[e].group] = Torn],
                        [ledger EXCEPT ![export[e].group] = {}]}
        /\ spoiled' = IF ledger' = ledger THEN spoiled ELSE spoiled \cup {export[e].group}
    BY <1>3 DEF ExporterFails
  <2>3. /\ ledger' \in [LedgerDays -> (SUBSET Fills) \cup {Torn}]
        /\ \A d \in LedgerDays \ {export[e].group} : ledger'[d] = ledger[d]
    BY <2>1, <2>2 DEF DumpsTyped, DumpsTypeOK
  <2> QED
    BY <1>1, <2>1, <2>2, <2>3 DEF ExporterFails, DumpsTyped, DumpsTypeOK
<1> QED
  BY <1>2, <1>3

\* Every step keeps the types.
LEMMA DumpsStepsTyped ==
  ASSUME DumpsTyped, [DumpsNext]_dumpsVars
  PROVE  DumpsTyped'
<1> USE DEF DumpsTyped
<1>1. ASSUME NEW f \in Fills, Trade(f) PROVE DumpsTyped'
  BY <1>1 DEF Trade, DumpsTypeOK, dumpsHistory
<1>2. CASE Midnight
  <2>1. today' \in LedgerDays
    BY <1>2, DumpsAssumption DEF Midnight, DumpsTypeOK, LedgerDays
  <2>2. session' \subseteq Fills
    BY <1>2 DEF Midnight, DumpsTypeOK
  <2> QED
    BY <1>2, <2>1, <2>2 DEF Midnight, DumpsTypeOK, dumpsHistory
<1>3. ASSUME NEW e \in Exporters, NEW d \in LedgerDays, NEW only \in BOOLEAN, ExportDay(e, d, only)
      PROVE  DumpsTyped'
  <2>1. export' \in [Exporters -> ExportRecords]
    BY <1>3, ExportDayGoes, ExportGoes
  <2> QED
    BY <1>3, <2>1, DumpsAssumption DEF ExportDay, DumpsTypeOK, dumpsHistory
<1>4. ASSUME NEW e \in Exporters, Fetch(e) PROVE DumpsTyped'
  <2>1. export' \in [Exporters -> ExportRecords]
    BY <1>4, FetchGoes, ExportGoes
  <2> QED
    BY <1>4, <2>1 DEF Fetch, DumpsTypeOK, dumpsHistory
<1>5. ASSUME NEW e \in Exporters, MergeRead(e) PROVE DumpsTyped'
  <2>1. export' \in [Exporters -> ExportRecords] /\ spoiled' \subseteq LedgerDays
    BY <1>5, ReadGoes, ExportGoes DEF DumpsTypeOK
  <2> QED
    BY <1>5, <2>1 DEF MergeRead, DumpsTypeOK, dumpsHistory
<1>6. ASSUME NEW e \in Exporters, MergeWrite(e) PROVE DumpsTyped'
  <2>1. /\ export' \in [Exporters -> ExportRecords] /\ OfGroup(e) \in SUBSET Fills
        /\ ledger' \in [LedgerDays -> (SUBSET Fills) \cup {Torn}]
    BY <1>6, WriteGoes, ExportGoes
  <2> QED
    BY <1>6, <2>1 DEF MergeWrite, DumpsTypeOK
<1>7. ASSUME NEW e \in Exporters, SaveSnapshot(e) PROVE DumpsTyped'
  <2>1. /\ export' \in [Exporters -> ExportRecords] /\ Day(e) \in LedgerDays
        /\ snapshot' \in [LedgerDays -> Taken]
    BY <1>7, SnapGoes, ExportGoes
  <2> QED
    BY <1>7, <2>1 DEF SaveSnapshot, DumpsTypeOK, Taken
<1>8. ASSUME NEW e \in Exporters, Load(e) PROVE DumpsTyped'
  <2>1. export' \in [Exporters -> ExportRecords] /\ Day(e) \in LedgerDays
    BY <1>8, LoadGoes, ExportGoes
  <2> QED
    BY <1>8, <2>1 DEF Load, DumpsTypeOK
<1>9. ASSUME NEW e \in Exporters, PutObject(e) PROVE DumpsTyped'
  <2>1. /\ export' \in [Exporters -> ExportRecords]
        /\ dump' \in [LedgerDays -> [ToSet(Objects) -> Reports \cup {NoReport}]]
    BY <1>9, PutGoes, ExportGoes
  <2> QED
    BY <1>9, <2>1 DEF PutObject, DumpsTypeOK, dumpsHistory
<1>10. ASSUME NEW e \in Exporters, PutSuccess(e) PROVE DumpsTyped'
  <2>1. /\ export' \in [Exporters -> ExportRecords] /\ Day(e) \in LedgerDays
        /\ issued' \in [LedgerDays -> SUBSET Fills]
    BY <1>10, MarkGoes, AwayIs, ExportGoes
  <2> QED
    BY <1>10, <2>1 DEF PutSuccess, DumpsTypeOK
<1>11. ASSUME NEW e \in Exporters, ExporterFails(e) PROVE DumpsTyped'
  <2>1. export' \in [Exporters -> ExportRecords] /\ Day(e) \in LedgerDays
    BY <1>11, FailGoes, AwayIs, ExportGoes
  <2>2. ledger' \in [LedgerDays -> (SUBSET Fills) \cup {Torn}] /\ spoiled' \subseteq LedgerDays
    BY <1>11, FailGoes
  <2> QED
    BY <1>11, <2>1, <2>2 DEF ExporterFails, DumpsTypeOK
<1>12. CASE UNCHANGED dumpsVars
  BY <1>12 DEF dumpsVars, DumpsTypeOK
<1> QED
  BY <1>1, <1>2, <1>3, <1>4, <1>5, <1>6, <1>7, <1>8, <1>9, <1>10, <1>11, <1>12 DEF DumpsNext

-----------------------------------------------------------------------------
\* Steps that begin no merge, and change only files that are spoiled.
LEMMA MergesHold ==
  ASSUME DumpsTyped, MergesApart, spoiled \subseteq spoiled',
         \A d \in LedgerDays : d \in spoiled' \/ ledger'[d] = ledger[d],
         \A g \in Exporters : export'[g].step = "write" => export'[g] = export[g]
  PROVE  MergesApart'
<1>1. \A g \in Exporters : Exporting(g, "write") => export[g].group \in LedgerDays
  BY ExportShapes
<1> QED
  BY <1>1 DEF MergesApart, Exporting, Merging

LEMMA MergeSteps ==
  ASSUME DumpsTyped, DumpsTyped', LedgerKeeps, MergesApart, [DumpsNext]_dumpsVars
  PROVE  LedgerKeeps' /\ MergesApart'
<1>1. ASSUME UNCHANGED <<ledger, merged>>, spoiled \subseteq spoiled'
      PROVE  LedgerKeeps'
  BY <1>1 DEF LedgerKeeps
<1>2. ASSUME UNCHANGED <<ledger, merged, spoiled>>, NEW e \in Exporters, NEW next \in ExportRecords,
             Exports(e, next), next.step # "write"
      PROVE  LedgerKeeps' /\ MergesApart'
  <2>1. \A g \in Exporters : export'[g].step = "write" => export'[g] = export[g]
    BY <1>2, ExportGoes
  <2> QED
    BY <1>1, <1>2, <2>1, MergesHold
<1>3. ASSUME UNCHANGED <<ledger, merged, spoiled, export>> PROVE LedgerKeeps' /\ MergesApart'
  BY <1>1, <1>3, MergesHold
<1>4. ASSUME NEW e \in Exporters, MergeRead(e) PROVE LedgerKeeps' /\ MergesApart'
  <2>1. PICK d \in LedgerDays : \E next \in ExportRecords :
          /\ Exports(e, next) /\ next.step \in {"away", "write"}
          /\ next.step = "write" => next.group = d /\ next.read = ledger[d]
          /\ spoiled' = IF \E g \in Exporters \ {e} : Merging(g, d) THEN spoiled \cup {d} ELSE spoiled
    BY <1>4, ReadGoes
  <2>2. PICK next \in ExportRecords :
          /\ Exports(e, next) /\ next.step \in {"away", "write"}
          /\ next.step = "write" => next.group = d /\ next.read = ledger[d]
    BY <2>1
  <2>3. export'[e] = next /\ \A g \in Exporters \ {e} : export'[g] = export[g]
    BY <2>2, ExportGoes
  <2>4. UNCHANGED <<ledger, merged>> /\ spoiled \subseteq spoiled'
    BY <1>4, <2>1 DEF MergeRead
  <2>5. d \in spoiled' \/ \A g \in Exporters \ {e} : ~Merging(g, d)
    BY <2>1
  <2>6. MergesApart'
    <3> SUFFICES ASSUME NEW h \in Exporters, Exporting(h, "write")', export'[h].group \notin spoiled'
                 PROVE  /\ export'[h].read = ledger'[export'[h].group]
                        /\ \A g \in Exporters \ {h} : ~Merging(g, export[h].group)'
      BY DEF MergesApart
    <3>1. CASE h = e
      BY <2>2, <2>3, <2>4, <2>5, <3>1 DEF Exporting, Merging
    <3>2. CASE h # e
      <4>1. /\ export[h].read = ledger[export[h].group] /\ export'[h] = export[h]
            /\ \A g \in Exporters \ {h} : ~Merging(g, export[h].group)
        BY <2>3, <2>4, <3>2 DEF MergesApart, Exporting
      <4>2. export[h].group # d \/ ~Exporting(e, "write")'
        BY <2>3, <2>5, <3>2, <4>1 DEF Exporting, Merging
      <4> QED
        BY <2>2, <2>3, <2>4, <3>2, <4>1, <4>2 DEF Exporting, Merging
    <3> QED
      BY <3>1, <3>2
  <2> QED
    BY <1>1, <2>4, <2>6
<1>5. ASSUME NEW e \in Exporters, MergeWrite(e) PROVE LedgerKeeps' /\ MergesApart'
  <2> DEFINE d == export[e].group
  <2>1. PICK next \in ExportRecords : Exports(e, next) /\ next.step \in {"snap", "merge"}
    BY <1>5, WriteGoes
  <2>2. export'[e] = next /\ \A g \in Exporters \ {e} : export'[g] = export[g]
    BY <2>1, ExportGoes
  <2>3. /\ d \in LedgerDays /\ ledger'[d] = export[e].read \cup OfGroup(e)
        /\ \A c \in LedgerDays \ {d} : ledger'[c] = ledger[c]
        /\ \A f \in OfGroup(e) : FillDay[f] = d
        /\ OfGroup(e) \in SUBSET Fills /\ Exporting(e, "write")
    BY <1>5, WriteGoes
  <2>4. d \in spoiled \/ (export[e].read = ledger[d] /\ \A g \in Exporters \ {e} : ~Merging(g, d))
    BY <2>3 DEF MergesApart
  <2>5. UNCHANGED spoiled /\ merged' = merged \cup OfGroup(e)
    BY <1>5 DEF MergeWrite
  <2>6. LedgerKeeps'
    <3> SUFFICES ASSUME NEW f \in merged', FillDay[f] \notin spoiled
                 PROVE  f \in ledger'[FillDay[f]]
      BY <2>5 DEF LedgerKeeps
    <3>1. FillDay[f] \in LedgerDays
      BY DumpsAssumption DEF DumpsTyped, DumpsTypeOK, Fills, LedgerDays
    <3>2. f \in merged => f \in ledger[FillDay[f]]
      BY DEF LedgerKeeps
    <3> QED
      BY <2>3, <2>4, <2>5, <3>1, <3>2
  <2>7. MergesApart'
    <3> SUFFICES ASSUME NEW h \in Exporters, Exporting(h, "write")', export'[h].group \notin spoiled
                 PROVE  /\ export'[h].read = ledger'[export'[h].group]
                        /\ \A g \in Exporters \ {h} : ~Merging(g, export[h].group)'
      BY <2>5 DEF MergesApart
    <3>1. h # e /\ export'[h] = export[h] /\ Exporting(h, "write")
      BY <2>1, <2>2 DEF Exporting
    <3>2. /\ export[h].read = ledger[export[h].group]
          /\ \A g \in Exporters \ {h} : ~Merging(g, export[h].group)
      BY <3>1 DEF MergesApart
    <3>3. export[h].group # d /\ export[h].group \in LedgerDays
      BY <2>3, <3>1, <3>2, ExportShapes DEF Merging
    <3> QED
      BY <2>1, <2>2, <2>3, <3>1, <3>2, <3>3 DEF Exporting, Merging
  <2> QED
    BY <2>6, <2>7
<1>6. ASSUME NEW e \in Exporters, ExporterFails(e) PROVE LedgerKeeps' /\ MergesApart'
  <2>1. Exports(e, Away) /\ UNCHANGED merged
    BY <1>6, FailGoes DEF ExporterFails
  <2>2. spoiled \subseteq spoiled' /\ \A d \in LedgerDays : d \in spoiled' \/ ledger'[d] = ledger[d]
    BY <1>6, FailGoes
  <2>3. \A f \in merged : FillDay[f] \in LedgerDays
    BY DumpsAssumption DEF DumpsTyped, DumpsTypeOK, Fills, LedgerDays
  <2>4. \A g \in Exporters : export'[g].step = "write" => export'[g] = export[g]
    BY <2>1, AwayIs, ExportGoes
  <2> QED
    BY <2>1, <2>2, <2>3, <2>4, MergesHold DEF LedgerKeeps
<1>7. ASSUME NEW e \in Exporters, NEW d \in LedgerDays, NEW only \in BOOLEAN, ExportDay(e, d, only)
      PROVE  LedgerKeeps' /\ MergesApart'
  BY <1>2, <1>7, ExportDayGoes DEF ExportDay, dumpsHistory
<1>8. ASSUME NEW e \in Exporters, Fetch(e) PROVE LedgerKeeps' /\ MergesApart'
  BY <1>2, <1>8, FetchGoes DEF Fetch, dumpsHistory
<1>9. ASSUME NEW e \in Exporters, SaveSnapshot(e) PROVE LedgerKeeps' /\ MergesApart'
  BY <1>2, <1>9, SnapGoes DEF SaveSnapshot
<1>10. ASSUME NEW e \in Exporters, Load(e) PROVE LedgerKeeps' /\ MergesApart'
  BY <1>2, <1>10, LoadGoes DEF Load
<1>11. ASSUME NEW e \in Exporters, PutObject(e) PROVE LedgerKeeps' /\ MergesApart'
  BY <1>2, <1>11, PutGoes DEF PutObject, dumpsHistory
<1>12. ASSUME NEW e \in Exporters, PutSuccess(e) PROVE LedgerKeeps' /\ MergesApart'
  BY <1>2, <1>12, MarkGoes, AwayIs DEF PutSuccess
<1>13. (\E f \in Fills : Trade(f)) \/ Midnight \/ UNCHANGED dumpsVars => LedgerKeeps' /\ MergesApart'
  BY <1>3 DEF Trade, Midnight, dumpsHistory, dumpsVars
<1> QED
  BY <1>4, <1>5, <1>6, <1>7, <1>8, <1>9, <1>10, <1>11, <1>12, <1>13 DEF DumpsNext

-----------------------------------------------------------------------------
\* Steps that load no report, publish none, and take nothing from a file that is not spoiled.
LEMMA KeptHolds ==
  ASSUME DumpsTyped, PublishedKept, spoiled \subseteq spoiled', UNCHANGED issued,
         \A d \in LedgerDays : d \in spoiled' \/ ledger[d] \subseteq ledger'[d],
         \A g \in Exporters : export'[g].step = "put" =>
           Exporting(g, "put") /\ export'[g].day = Day(g) /\ export'[g].report = export[g].report
  PROVE  PublishedKept'
  BY DEF PublishedKept, Publishing, Exporting, Day

LEMMA KeptSteps ==
  ASSUME DumpsTyped, MergesApart, PublishedKept, [DumpsNext]_dumpsVars
  PROVE  PublishedKept'
<1>1. ASSUME UNCHANGED issued, spoiled \subseteq spoiled',
             \A d \in LedgerDays : d \in spoiled' \/ ledger[d] \subseteq ledger'[d],
             NEW e \in Exporters, NEW next \in ExportRecords, Exports(e, next),
             next.step = "put" =>
               Exporting(e, "put") /\ next.day = Day(e) /\ next.report = export[e].report
      PROVE  PublishedKept'
  <2>1. export'[e] = next /\ \A g \in Exporters \ {e} : export'[g] = export[g]
    BY <1>1, ExportGoes
  <2>2. \A g \in Exporters : export'[g].step = "put" =>
          Exporting(g, "put") /\ export'[g].day = Day(g) /\ export'[g].report = export[g].report
    BY <1>1, <2>1 DEF Exporting, Day
  <2> QED
    BY <1>1, <2>2, KeptHolds
<1>2. ASSUME UNCHANGED <<issued, spoiled, ledger, export>> PROVE PublishedKept'
  BY <1>2 DEF PublishedKept, Publishing, Exporting, Day
<1>3. ASSUME NEW e \in Exporters, MergeWrite(e) PROVE PublishedKept'
  <2> DEFINE d == export[e].group
  <2>1. PICK next \in ExportRecords : Exports(e, next) /\ next.step \in {"snap", "merge"}
    BY <1>3, WriteGoes
  <2>2. /\ d \in LedgerDays /\ ledger'[d] = export[e].read \cup OfGroup(e) /\ Exporting(e, "write")
        /\ \A c \in LedgerDays \ {d} : ledger'[c] = ledger[c]
    BY <1>3, WriteGoes
  <2>3. d \in spoiled \/ export[e].read = ledger[d]
    BY <2>2 DEF MergesApart
  <2>4. UNCHANGED <<issued, spoiled>>
    BY <1>3 DEF MergeWrite
  <2>5. \A c \in LedgerDays : c \in spoiled' \/ ledger[c] \subseteq ledger'[c]
    BY <2>2, <2>3, <2>4
  <2> QED
    BY <1>1, <2>1, <2>4, <2>5
<1>4. ASSUME NEW e \in Exporters, Load(e) PROVE PublishedKept'
  <2>1. PICK next \in ExportRecords :
          /\ Exports(e, next) /\ next.step \in {"away", "put"}
          /\ next.step = "put" => next.day = Day(e) /\ next.report.fills = ledger[Day(e)]
    BY <1>4, LoadGoes
  <2>2. export'[e] = next /\ \A g \in Exporters \ {e} : export'[g] = export[g]
    BY <2>1, ExportGoes
  <2>3. UNCHANGED <<issued, spoiled, ledger>>
    BY <1>4 DEF Load
  <2> QED
    BY <2>1, <2>2, <2>3 DEF PublishedKept, Publishing, Exporting, Day
<1>5. ASSUME NEW e \in Exporters, PutSuccess(e) PROVE PublishedKept'
  <2>1. /\ Exporting(e, "put") /\ Day(e) \in LedgerDays
        /\ issued'[Day(e)] = issued[Day(e)] \cup export[e].report.fills
        /\ \A c \in LedgerDays \ {Day(e)} : issued'[c] = issued[c]
    BY <1>5, MarkGoes
  <2>2. export'[e] = Away /\ \A g \in Exporters \ {e} : export'[g] = export[g]
    BY <1>5, MarkGoes, AwayIs, ExportGoes
  <2>3. UNCHANGED <<spoiled, ledger>>
    BY <1>5 DEF PutSuccess
  <2>4. \A g \in Exporters, c \in LedgerDays : Publishing(g, c)' => g # e /\ Publishing(g, c)
    BY <2>2, AwayIs DEF Publishing, Exporting, Day
  <2>5. \A c \in LedgerDays \ spoiled : issued'[c] \subseteq ledger[c]
    BY <2>1 DEF PublishedKept, Publishing
  <2> QED
    BY <2>2, <2>3, <2>4, <2>5 DEF PublishedKept
<1>6. ASSUME NEW e \in Exporters, ExporterFails(e) PROVE PublishedKept'
  <2>1. Exports(e, Away) /\ spoiled \subseteq spoiled' /\ UNCHANGED issued
    BY <1>6, FailGoes DEF ExporterFails
  <2>2. \A d \in LedgerDays : d \in spoiled' \/ ledger'[d] = ledger[d]
    BY <1>6, FailGoes
  <2> QED
    BY <1>1, <2>1, <2>2, AwayIs
<1>7. ASSUME NEW e \in Exporters, MergeRead(e) PROVE PublishedKept'
  <2>1. PICK next \in ExportRecords : Exports(e, next) /\ next.step \in {"away", "write"}
    BY <1>7, ReadGoes
  <2>2. UNCHANGED <<issued, ledger>> /\ spoiled \subseteq spoiled'
    BY <1>7, ReadGoes DEF MergeRead
  <2> QED
    BY <1>1, <2>1, <2>2
<1>8. ASSUME NEW e \in Exporters, NEW d \in LedgerDays, NEW only \in BOOLEAN, ExportDay(e, d, only)
      PROVE  PublishedKept'
  BY <1>1, <1>8, ExportDayGoes DEF ExportDay, dumpsHistory
<1>9. ASSUME NEW e \in Exporters, Fetch(e) PROVE PublishedKept'
  BY <1>1, <1>9, FetchGoes DEF Fetch, dumpsHistory
<1>10. ASSUME NEW e \in Exporters, SaveSnapshot(e) PROVE PublishedKept'
  BY <1>1, <1>10, SnapGoes DEF SaveSnapshot
<1>11. ASSUME NEW e \in Exporters, PutObject(e) PROVE PublishedKept'
  BY <1>1, <1>11, PutGoes DEF PutObject, dumpsHistory
<1>12. (\E f \in Fills : Trade(f)) \/ Midnight \/ UNCHANGED dumpsVars => PublishedKept'
  BY <1>2 DEF Trade, Midnight, dumpsHistory, dumpsVars
<1> QED
  BY <1>3, <1>4, <1>5, <1>6, <1>7, <1>8, <1>9, <1>10, <1>11, <1>12 DEF DumpsNext

-----------------------------------------------------------------------------
\* Steps that neither put nor mark anything, nor begin to.
LEMMA PutsHold ==
  ASSUME DumpsTyped, PutSoFar, PublishedApart, UNCHANGED <<dump, success, issued>>,
         spoiled \subseteq spoiled', disturbed \subseteq disturbed',
         \A g \in Exporters : export'[g].step = "put" => export'[g] = export[g],
         \A g \in Exporters, d \in LedgerDays :
           Replacing(g, d) => d \in disturbed' \/ export'[g] = export[g]
  PROVE  PutSoFar' /\ PublishedApart'
<1>1. PutSoFar'
  BY DEF PutSoFar, Exporting, Day
<1>2. ASSUME NEW d \in LedgerDays, d \notin disturbed', d \in success'
      PROVE  OneReport(d)' \/ \E e \in Exporters : Replacing(e, d)'
  <2>1. OneReport(d) \/ \E e \in Exporters : Replacing(e, d)
    BY <1>2 DEF PublishedApart
  <2> QED
    BY <1>2, <2>1 DEF OneReport, Replacing, Publishing, Exporting, Day
<1>3. ASSUME NEW d \in LedgerDays, d \notin disturbed', NEW e \in Exporters, Publishing(e, d)'
      PROVE  /\ \A g \in Exporters \ {e} : ~Publishing(g, d)'
             /\ \A i \in 1 .. export'[e].next - 1 : dump'[d][Objects[i]] = export'[e].report
             /\ d \in spoiled' \/ issued'[d] \subseteq export'[e].report.fills
  <2>1. Publishing(e, d) /\ export'[e] = export[e] /\ d \notin disturbed
    BY <1>3 DEF Publishing, Exporting, Day
  <2>2. /\ \A g \in Exporters \ {e} : ~Publishing(g, d)
        /\ \A i \in 1 .. export[e].next - 1 : dump[d][Objects[i]] = export[e].report
        /\ d \in spoiled \/ issued[d] \subseteq export[e].report.fills
    BY <2>1 DEF PublishedApart
  <2> QED
    BY <2>1, <2>2 DEF Publishing, Exporting, Day
<1> QED
  BY <1>1, <1>2, <1>3 DEF PublishedApart

\* A step of an exporter that is not publishing.
LEMMA QuietPuts ==
  ASSUME DumpsTyped, PutSoFar, PublishedApart, UNCHANGED <<dump, success, issued, disturbed>>,
         spoiled \subseteq spoiled',
         NEW e \in Exporters, ~Exporting(e, "put"), NEW next \in ExportRecords, Exports(e, next),
         next.step # "put"
  PROVE  PutSoFar' /\ PublishedApart'
<1>1. export'[e] = next /\ \A g \in Exporters \ {e} : export'[g] = export[g]
  BY ExportGoes
<1>2. \A g \in Exporters : export'[g].step = "put" => export'[g] = export[g]
  BY <1>1
<1>3. \A g \in Exporters, d \in LedgerDays : Replacing(g, d) => export'[g] = export[g]
  BY <1>1 DEF Replacing, Publishing
<1> QED
  BY <1>2, <1>3, PutsHold

LEMMA LoadPuts ==
  ASSUME DumpsTyped, PublishedKept, PutSoFar, PublishedApart, NEW e \in Exporters, Load(e)
  PROVE  PutSoFar' /\ PublishedApart'
<1> DEFINE d == Day(e)
<1>1. PICK next \in ExportRecords :
        /\ Exports(e, next) /\ next.step \in {"away", "put"}
        /\ next.step = "put" => next.day = d /\ next.next = 1 /\ next.report.fills = ledger[d]
  BY LoadGoes
<1>2. export'[e] = next /\ \A g \in Exporters \ {e} : export'[g] = export[g]
  BY <1>1, ExportGoes
<1>3. /\ UNCHANGED <<dump, success, issued, spoiled>> /\ d \in LedgerDays /\ ~Exporting(e, "put")
      /\ disturbed' = IF \E g \in Exporters \ {e} : Publishing(g, d) THEN disturbed \cup {d} ELSE disturbed
  BY LoadGoes DEF Load, Exporting
<1>4. PutSoFar'
  <2>1. export'[e].step = "put" => 1 .. export'[e].next - 1 = {}
    BY <1>1, <1>2
  <2> QED
    BY <1>2, <1>3, <2>1 DEF PutSoFar, Exporting, Day
<1>5. ASSUME NEW c \in LedgerDays, c \notin disturbed', c \in success'
      PROVE  OneReport(c)' \/ \E g \in Exporters : Replacing(g, c)'
  <2>1. OneReport(c) \/ \E g \in Exporters : Replacing(g, c)
    BY <1>3, <1>5 DEF PublishedApart
  <2>2. OneReport(c) => OneReport(c)'
    BY <1>3 DEF OneReport
  <2>3. \A g \in Exporters : Replacing(g, c) => Replacing(g, c)'
    BY <1>2, <1>3 DEF Replacing, Publishing, Exporting, Day
  <2> QED
    BY <2>1, <2>2, <2>3
<1>6. ASSUME NEW c \in LedgerDays, c \notin disturbed', NEW h \in Exporters, Publishing(h, c)'
      PROVE  /\ \A g \in Exporters \ {h} : ~Publishing(g, c)'
             /\ \A i \in 1 .. export'[h].next - 1 : dump'[c][Objects[i]] = export'[h].report
             /\ c \in spoiled' \/ issued'[c] \subseteq export'[h].report.fills
  <2>1. CASE h = e
    <3>1. c = d /\ next.step = "put"
      BY <1>1, <1>2, <1>6, <2>1 DEF Publishing, Exporting, Day
    <3>2. \A g \in Exporters \ {e} : ~Publishing(g, d)
      BY <1>3, <1>6, <3>1
    <3>3. \A g \in Exporters \ {e} : ~Publishing(g, c)'
      BY <1>2, <3>1, <3>2 DEF Publishing, Exporting, Day
    <3>4. d \in spoiled \/ issued[d] \subseteq ledger[d]
      BY <1>3 DEF PublishedKept
    <3>5. 1 .. export'[e].next - 1 = {}
      BY <1>1, <1>2, <3>1
    <3> QED
      BY <1>1, <1>2, <1>3, <2>1, <3>1, <3>3, <3>4, <3>5
  <2>2. CASE h # e
    <3>1. export'[h] = export[h] /\ Publishing(h, c) /\ c \notin disturbed
      BY <1>2, <1>3, <1>6, <2>2 DEF Publishing, Exporting, Day
    <3>2. ~Publishing(e, c)'
      <4>1. Publishing(e, c)' => c = d
        BY <1>1, <1>2 DEF Publishing, Exporting, Day
      <4>2. c = d => d \in disturbed'
        BY <1>3, <2>2, <3>1
      <4> QED
        BY <1>6, <4>1, <4>2
    <3>3. /\ \A g \in Exporters \ {h} : ~Publishing(g, c)
          /\ \A i \in 1 .. export[h].next - 1 : dump[c][Objects[i]] = export[h].report
          /\ c \in spoiled \/ issued[c] \subseteq export[h].report.fills
      BY <3>1 DEF PublishedApart
    <3>4. \A g \in Exporters \ {h} : ~Publishing(g, c)'
      BY <1>2, <3>2, <3>3 DEF Publishing, Exporting, Day
    <3> QED
      BY <1>3, <3>1, <3>3, <3>4
  <2> QED
    BY <2>1, <2>2
<1> QED
  BY <1>4, <1>5, <1>6 DEF PublishedApart

LEMMA ObjectsPut ==
  ASSUME DumpsTyped, NEW e \in Exporters, Exporting(e, "put")
  PROVE  /\ export[e].next \in Nat /\ export[e].report # NoReport
         /\ \A i \in 1 .. export[e].next - 1 : Objects[i] \in ToSet(Objects)
<1>1. export[e] \in [step : {"put"}, day : LedgerDays, next : 1 .. Len(Objects) + 1, report : Reports]
  BY ExportShapes
<1>2. export[e].report # NoReport
  BY <1>1 DEF Reports, NoReport
<1>3. Len(Objects) \in Nat /\ DOMAIN Objects = 1 .. Len(Objects)
  BY DumpsAssumption
<1>4. export[e].next \in 1 .. Len(Objects) + 1
  BY <1>1
<1>5. \A i \in 1 .. export[e].next - 1 : i \in DOMAIN Objects
  BY <1>3, <1>4
<1> QED
  BY <1>2, <1>3, <1>4, <1>5 DEF ToSet

LEMMA PutPuts ==
  ASSUME DumpsTyped, PutSoFar, PublishedApart, NEW e \in Exporters, PutObject(e)
  PROVE  PutSoFar' /\ PublishedApart'
<1> DEFINE d == Day(e)
           n == export[e].next
           report == export[e].report
<1>1. /\ Exporting(e, "put") /\ d \in LedgerDays /\ n \in 1 .. Len(Objects)
      /\ report # NoReport /\ Objects[n] \in ToSet(Objects)
      /\ dump'[d][Objects[n]] = report
      /\ \A p \in ToSet(Objects) : p # Objects[n] => dump'[d][p] = dump[d][p]
      /\ \A c \in LedgerDays \ {d} : dump'[c] = dump[c]
  BY PutGoes
<1>2. PICK next \in ExportRecords :
        /\ Exports(e, next) /\ next.step = "put" /\ next.day = d
        /\ next.next = n + 1 /\ next.report = report
  BY PutGoes
<1>3. export'[e] = next /\ \A g \in Exporters \ {e} : export'[g] = export[g]
  BY <1>2, ExportGoes
<1>4. UNCHANGED <<success, issued, spoiled, disturbed>>
  BY DEF PutObject, dumpsHistory
<1>n. n \in Nat /\ n \in 1 .. n
  BY <1>1
<1>o. \A g \in Exporters : Exporting(g, "put") =>
        Day(g) \in LedgerDays /\ \A i \in 1 .. export[g].next - 1 : Objects[i] \in ToSet(Objects)
  BY ObjectsPut, ExportShapes DEF Exporting
<1>5. \A c \in LedgerDays, p \in ToSet(Objects) : dump[c][p] # NoReport => dump'[c][p] # NoReport
  BY <1>1
<1>6. PutSoFar'
  <2>1. \A c \in success' : \A p \in ToSet(Objects) : dump'[c][p] # NoReport
    BY <1>4, <1>5 DEF PutSoFar, DumpsTyped, DumpsTypeOK
  <2>2. ASSUME NEW g \in Exporters, export'[g].step = "put", NEW i \in 1 .. export'[g].next - 1
        PROVE  dump'[export'[g].day][Objects[i]] # NoReport
    <3>1. CASE g # e
      <4>1. Exporting(g, "put") /\ export'[g] = export[g]
        BY <1>3, <2>2, <3>1 DEF Exporting
      <4>2. dump[Day(g)][Objects[i]] # NoReport
        BY <2>2, <4>1 DEF PutSoFar
      <4> QED
        BY <1>5, <1>o, <2>2, <4>1, <4>2 DEF Day
    <3>2. CASE g = e
      <4>1. i \in 1 .. n /\ export'[g].day = d
        BY <1>2, <1>3, <1>n, <2>2, <3>2
      <4>2. CASE i = n
        BY <1>1, <4>1, <4>2
      <4>3. CASE i # n
        <5>1. i \in 1 .. n - 1
          BY <1>n, <4>1, <4>3
        <5>2. dump[d][Objects[i]] # NoReport /\ Objects[i] \in ToSet(Objects)
          BY <1>1, <1>o, <5>1 DEF PutSoFar
        <5> QED
          BY <1>1, <1>5, <4>1, <5>2
      <4> QED
        BY <4>2, <4>3
    <3> QED
      BY <3>1, <3>2
  <2> QED
    BY <2>1, <2>2 DEF PutSoFar, Exporting, Day
<1>7. ASSUME NEW c \in LedgerDays, c \notin disturbed', c \in success'
      PROVE  OneReport(c)' \/ \E g \in Exporters : Replacing(g, c)'
  <2>1. CASE c = d
    <3>1. Replacing(e, c)'
      BY <1>2, <1>3, <1>n, <2>1 DEF Replacing, Publishing, Exporting, Day
    <3> QED
      BY <3>1
  <2>2. CASE c # d
    <3>1. OneReport(c) \/ \E g \in Exporters : Replacing(g, c)
      BY <1>4, <1>7 DEF PublishedApart
    <3>2. OneReport(c) => OneReport(c)'
      BY <1>1, <1>4, <2>2 DEF OneReport
    <3>3. \A g \in Exporters : Replacing(g, c) => Replacing(g, c)'
      BY <1>3, <2>2 DEF Replacing, Publishing, Exporting, Day
    <3> QED
      BY <3>1, <3>2, <3>3
  <2> QED
    BY <2>1, <2>2
<1>8. ASSUME NEW c \in LedgerDays, c \notin disturbed', NEW h \in Exporters, Publishing(h, c)'
      PROVE  /\ \A g \in Exporters \ {h} : ~Publishing(g, c)'
             /\ \A i \in 1 .. export'[h].next - 1 : dump'[c][Objects[i]] = export'[h].report
             /\ c \in spoiled' \/ issued'[c] \subseteq export'[h].report.fills
  <2>1. \A g \in Exporters : Publishing(g, c)' <=> Publishing(g, c)
    BY <1>1, <1>2, <1>3 DEF Publishing, Exporting, Day
  <2>2. /\ Publishing(h, c) /\ \A g \in Exporters \ {h} : ~Publishing(g, c)
        /\ \A i \in 1 .. export[h].next - 1 : dump[c][Objects[i]] = export[h].report
        /\ c \in spoiled \/ issued[c] \subseteq export[h].report.fills
    BY <1>4, <1>8, <2>1 DEF PublishedApart
  <2>3. export'[h].report = export[h].report
    BY <1>2, <1>3
  <2>4. ASSUME NEW i \in 1 .. export'[h].next - 1
        PROVE  dump'[c][Objects[i]] = export'[h].report
    <3>1. CASE h # e
      <4>1. export'[h] = export[h] /\ c # d /\ dump'[c] = dump[c]
        BY <1>1, <1>3, <2>2, <3>1 DEF Publishing
      <4> QED
        BY <2>2, <2>4, <4>1
    <3>2. CASE h = e
      <4>1. c = d /\ i \in 1 .. n
        BY <1>2, <1>3, <1>n, <2>2, <2>4, <3>2 DEF Publishing
      <4>2. CASE i = n
        BY <1>1, <2>3, <3>2, <4>1, <4>2
      <4>3. CASE i # n
        <5>1. i \in 1 .. n - 1
          BY <1>n, <4>1, <4>3
        <5>2. dump[d][Objects[i]] = report /\ Objects[i] \in ToSet(Objects)
          BY <1>1, <1>o, <2>2, <3>2, <4>1, <5>1
        <5>3. dump'[d][Objects[i]] = report
          BY <1>1, <5>2
        <5> QED
          BY <2>3, <3>2, <4>1, <5>3
      <4> QED
        BY <4>2, <4>3
    <3> QED
      BY <3>1, <3>2
  <2> QED
    BY <1>4, <2>1, <2>2, <2>3, <2>4
<1> QED
  BY <1>6, <1>7, <1>8 DEF PublishedApart

LEMMA MarkPuts ==
  ASSUME DumpsTyped, PutSoFar, PublishedApart, NEW e \in Exporters, PutSuccess(e)
  PROVE  PutSoFar' /\ PublishedApart'
<1> DEFINE d == Day(e)
           report == export[e].report
<1>1. /\ Exporting(e, "put") /\ d \in LedgerDays /\ export[e].next = Len(Objects) + 1
      /\ Len(Objects) \in Nat
      /\ issued'[d] = issued[d] \cup report.fills
      /\ \A c \in LedgerDays \ {d} : issued'[c] = issued[c]
      /\ success' = success \cup {d}
  BY MarkGoes
<1>2. export'[e] = Away /\ \A g \in Exporters \ {e} : export'[g] = export[g]
  BY MarkGoes, AwayIs, ExportGoes
<1>3. UNCHANGED <<dump, spoiled, disturbed>>
  BY DEF PutSuccess
<1>4. \A o \in ToSet(Objects) : \E i \in 1 .. export[e].next - 1 : o = Objects[i]
  BY <1>1, DumpsAssumption DEF ToSet
<1>5. PutSoFar'
  <2>1. \A o \in ToSet(Objects) : dump[d][o] # NoReport
    BY <1>1, <1>4 DEF PutSoFar
  <2>2. \A g \in Exporters : export'[g].step = "put" => export'[g] = export[g]
    BY <1>2, AwayIs
  <2> QED
    BY <1>1, <1>3, <2>1, <2>2 DEF PutSoFar, Exporting, Day
<1>6. \A g \in Exporters, c \in LedgerDays : Publishing(g, c)' => g # e /\ Publishing(g, c)
  BY <1>2, AwayIs DEF Publishing, Exporting, Day
<1>7. ASSUME NEW c \in LedgerDays, c \notin disturbed', c \in success'
      PROVE  OneReport(c)' \/ \E g \in Exporters : Replacing(g, c)'
  <2>1. CASE c = d
    <3>1. /\ \A i \in 1 .. export[e].next - 1 : dump[d][Objects[i]] = report
          /\ d \in spoiled \/ issued[d] \subseteq report.fills
      BY <1>1, <1>3, <1>7, <2>1 DEF PublishedApart, Publishing
    <3>2. \A o \in ToSet(Objects) : dump[d][o] = report
      BY <1>4, <3>1
    <3>3. d \in spoiled \/ issued'[d] \subseteq dump[d]["executions"].fills
      BY <1>1, <3>1, <3>2, DumpsAssumption
    <3> QED
      BY <1>3, <2>1, <3>2, <3>3 DEF OneReport
  <2>2. CASE c # d
    <3>1. OneReport(c) \/ \E g \in Exporters : Replacing(g, c)
      BY <1>1, <1>3, <1>7, <2>2 DEF PublishedApart
    <3>2. OneReport(c) => OneReport(c)'
      BY <1>1, <1>3, <2>2 DEF OneReport
    <3>3. \A g \in Exporters : Replacing(g, c) => Replacing(g, c)'
      BY <1>2, <2>2 DEF Replacing, Publishing, Exporting, Day
    <3> QED
      BY <3>1, <3>2, <3>3
  <2> QED
    BY <2>1, <2>2
<1>8. ASSUME NEW c \in LedgerDays, c \notin disturbed', NEW h \in Exporters, Publishing(h, c)'
      PROVE  /\ \A g \in Exporters \ {h} : ~Publishing(g, c)'
             /\ \A i \in 1 .. export'[h].next - 1 : dump'[c][Objects[i]] = export'[h].report
             /\ c \in spoiled' \/ issued'[c] \subseteq export'[h].report.fills
  <2>1. h # e /\ Publishing(h, c) /\ export'[h] = export[h]
    BY <1>2, <1>6, <1>8
  <2>2. /\ \A g \in Exporters \ {h} : ~Publishing(g, c)
        /\ \A i \in 1 .. export[h].next - 1 : dump[c][Objects[i]] = export[h].report
        /\ c \in spoiled \/ issued[c] \subseteq export[h].report.fills
    BY <1>3, <1>8, <2>1 DEF PublishedApart
  <2>3. c # d
    BY <1>1, <2>1, <2>2 DEF Publishing
  <2> QED
    BY <1>1, <1>3, <1>6, <2>1, <2>2, <2>3
<1> QED
  BY <1>5, <1>7, <1>8 DEF PublishedApart

LEMMA FailPuts ==
  ASSUME DumpsTyped, PutSoFar, PublishedApart, NEW e \in Exporters, ExporterFails(e)
  PROVE  PutSoFar' /\ PublishedApart'
<1>1. export'[e] = Away /\ \A g \in Exporters \ {e} : export'[g] = export[g]
  BY FailGoes, AwayIs, ExportGoes
<1>2. /\ UNCHANGED <<dump, success, issued>> /\ spoiled \subseteq spoiled' /\ disturbed \subseteq disturbed'
      /\ Exporting(e, "put") /\ export[e].next > 1 => Day(e) \in disturbed'
  BY FailGoes DEF ExporterFails
<1>3. \A g \in Exporters : export'[g].step = "put" => export'[g] = export[g]
  BY <1>1, AwayIs
<1>4. \A g \in Exporters, d \in LedgerDays : Replacing(g, d) => d \in disturbed' \/ export'[g] = export[g]
  BY <1>1, <1>2 DEF Replacing, Publishing
<1> QED
  BY <1>2, <1>3, <1>4, PutsHold

LEMMA PutSteps ==
  ASSUME DumpsTyped, PublishedKept, PutSoFar, PublishedApart, [DumpsNext]_dumpsVars
  PROVE  PutSoFar' /\ PublishedApart'
<1>1. ASSUME NEW e \in Exporters, NEW d \in LedgerDays, NEW only \in BOOLEAN, ExportDay(e, d, only)
      PROVE  PutSoFar' /\ PublishedApart'
  BY <1>1, ExportDayGoes, QuietPuts DEF ExportDay, dumpsHistory, Exporting
<1>2. ASSUME NEW e \in Exporters, Fetch(e) PROVE PutSoFar' /\ PublishedApart'
  BY <1>2, FetchGoes, QuietPuts DEF Fetch, dumpsHistory, Exporting
<1>3. ASSUME NEW e \in Exporters, MergeRead(e) PROVE PutSoFar' /\ PublishedApart'
  <2>1. PICK next \in ExportRecords : Exports(e, next) /\ next.step \in {"away", "write"}
    BY <1>3, ReadGoes
  <2>2. ~Exporting(e, "put") /\ spoiled \subseteq spoiled'
    BY <1>3, ReadGoes DEF Exporting
  <2>3. UNCHANGED <<dump, success, issued, disturbed>>
    BY <1>3 DEF MergeRead
  <2> QED
    BY <2>1, <2>2, <2>3, QuietPuts
<1>4. ASSUME NEW e \in Exporters, MergeWrite(e) PROVE PutSoFar' /\ PublishedApart'
  BY <1>4, WriteGoes, QuietPuts DEF MergeWrite, Exporting
<1>5. ASSUME NEW e \in Exporters, SaveSnapshot(e) PROVE PutSoFar' /\ PublishedApart'
  BY <1>5, SnapGoes, QuietPuts DEF SaveSnapshot, Exporting
<1>6. (\E f \in Fills : Trade(f)) \/ Midnight \/ UNCHANGED dumpsVars => PutSoFar' /\ PublishedApart'
  BY PutsHold DEF Trade, Midnight, dumpsHistory, dumpsVars
<1> QED
  BY <1>1, <1>2, <1>3, <1>4, <1>5, <1>6, LoadPuts, PutPuts, MarkPuts, FailPuts DEF DumpsNext

-----------------------------------------------------------------------------
\* A step of one exporter that leaves snapshots and dumps.
LEMMA DatedHolds ==
  ASSUME DumpsTyped, Dated, UNCHANGED <<snapshot, dump, backdated>>,
         NEW e \in Exporters, NEW next \in ExportRecords, Exports(e, next),
         next.step \in {"fetch", "merge", "write", "snap", "load"} => OfDay(next.taken, next.day),
         next.step = "put" => OfDay(next.report.taken, next.day)
  PROVE  Dated'
<1>1. export'[e] = next /\ \A g \in Exporters \ {e} : export'[g] = export[g]
  BY ExportGoes
<1>2. ASSUME NEW g \in Exporters
      PROVE  /\ export'[g].step \in {"fetch", "merge", "write", "snap", "load"} =>
                  OfDay(export'[g].taken, export'[g].day)
             /\ export'[g].step = "put" => OfDay(export'[g].report.taken, export'[g].day)
  BY <1>1 DEF Dated, Exporting, Day
<1> QED
  BY <1>2 DEF Dated, OfDay, Exporting, Day

LEMMA DatedSteps ==
  ASSUME DumpsTyped, Dated, [DumpsNext]_dumpsVars
  PROVE  Dated'
<1>1. ASSUME NEW e \in Exporters, NEW d \in LedgerDays, NEW only \in BOOLEAN, ExportDay(e, d, only)
      PROVE  Dated'
  BY <1>1, ExportDayGoes, DatedHolds DEF ExportDay, dumpsHistory, Dated
<1>2. ASSUME NEW e \in Exporters, Fetch(e) PROVE Dated'
  BY <1>2, FetchGoes, DatedHolds DEF Fetch, dumpsHistory, Dated, Exporting
<1>3. ASSUME NEW e \in Exporters, MergeRead(e) PROVE Dated'
  <2>1. PICK next \in ExportRecords :
          /\ Exports(e, next) /\ next.step \in {"away", "write"}
          /\ next.step = "write" => next.day = Day(e) /\ next.taken = export[e].taken
    BY <1>3, ReadGoes
  <2>2. OfDay(export[e].taken, Day(e))
    BY <1>3, ReadGoes DEF Dated, Exporting
  <2>3. UNCHANGED <<snapshot, dump, backdated>>
    BY <1>3 DEF MergeRead
  <2> QED
    BY <2>1, <2>2, <2>3, DatedHolds
<1>4. ASSUME NEW e \in Exporters, MergeWrite(e) PROVE Dated'
  <2>1. PICK next \in ExportRecords :
          /\ Exports(e, next) /\ next.step \in {"snap", "merge"}
          /\ next.day = Day(e) /\ next.taken = export[e].taken
    BY <1>4, WriteGoes
  <2>2. OfDay(export[e].taken, Day(e))
    BY <1>4, WriteGoes DEF Dated, Exporting
  <2>3. UNCHANGED <<snapshot, dump, backdated>>
    BY <1>4 DEF MergeWrite
  <2> QED
    BY <2>1, <2>2, <2>3, DatedHolds
<1>5. ASSUME NEW e \in Exporters, SaveSnapshot(e) PROVE Dated'
  <2> DEFINE d == Day(e)
  <2>1. /\ Exporting(e, "snap") /\ d \in LedgerDays
        /\ snapshot'[d] = export[e].now /\ \A c \in LedgerDays \ {d} : snapshot'[c] = snapshot[c]
        /\ backdated' = IF export[e].now # d THEN backdated \cup {d} ELSE backdated
    BY <1>5, SnapGoes
  <2>2. PICK next \in ExportRecords :
          /\ Exports(e, next) /\ next.step \in {"away", "load"}
          /\ next.step = "load" => next.day = d /\ next.taken \in {export[e].now, export[e].taken}
    BY <1>5, SnapGoes
  <2>3. export'[e] = next /\ \A g \in Exporters \ {e} : export'[g] = export[g]
    BY <2>2, ExportGoes
  <2>4. /\ \A t, c : OfDay(t, c) => t \in {0, c} \/ c \in backdated'
        /\ export[e].now = d \/ d \in backdated'
    BY <2>1 DEF OfDay
  <2>5. \A c \in LedgerDays : snapshot'[c] \in {0, c} \/ c \in backdated'
    BY <2>1, <2>4 DEF Dated
  <2>6. dump' = dump
    BY <1>5 DEF SaveSnapshot
  <2>7. export[e].taken \in {0, d} \/ d \in backdated'
    BY <2>1, <2>4 DEF Dated, Exporting
  <2>8. ASSUME NEW g \in Exporters
        PROVE  /\ export'[g].step \in {"fetch", "merge", "write", "snap", "load"} =>
                    export'[g].taken \in {0, export'[g].day} \/ export'[g].day \in backdated'
               /\ export'[g].step = "put" =>
                    export'[g].report.taken \in {0, export'[g].day} \/ export'[g].day \in backdated'
    <3>1. CASE g = e
      BY <2>2, <2>3, <2>4, <2>7, <3>1
    <3>2. CASE g # e
      BY <2>3, <2>4, <3>2 DEF Dated, Exporting, Day
    <3> QED
      BY <3>1, <3>2
  <2>9. \A c \in LedgerDays : \A o \in ToSet(Objects) :
          dump[c][o] = NoReport \/ dump[c][o].taken \in {0, c} \/ c \in backdated'
    BY <2>4 DEF Dated
  <2> QED
    BY <2>5, <2>6, <2>8, <2>9 DEF Dated, OfDay, Exporting, Day
<1>6. ASSUME NEW e \in Exporters, Load(e) PROVE Dated'
  BY <1>6, LoadGoes, DatedHolds DEF Load, Dated, Exporting
<1>7. ASSUME NEW e \in Exporters, PutObject(e) PROVE Dated'
  <2> DEFINE d == Day(e)
             n == export[e].next
             report == export[e].report
  <2>1. /\ Exporting(e, "put") /\ d \in LedgerDays
        /\ dump'[d][Objects[n]] = report
        /\ \A p \in ToSet(Objects) : p # Objects[n] => dump'[d][p] = dump[d][p]
        /\ \A c \in LedgerDays \ {d} : dump'[c] = dump[c]
    BY <1>7, PutGoes
  <2>2. PICK next \in ExportRecords :
          Exports(e, next) /\ next.step = "put" /\ next.day = d /\ next.report = report
    BY <1>7, PutGoes
  <2>3. export'[e] = next /\ \A g \in Exporters \ {e} : export'[g] = export[g]
    BY <2>2, ExportGoes
  <2>4. UNCHANGED <<snapshot, backdated>>
    BY <1>7 DEF PutObject, dumpsHistory
  <2>5. OfDay(report.taken, d)
    BY <2>1 DEF Dated
  <2>6. ASSUME NEW c \in LedgerDays, NEW o \in ToSet(Objects)
        PROVE  dump'[c][o] = NoReport \/ OfDay(dump'[c][o].taken, c)
    <3>1. dump'[c][o] = dump[c][o] \/ (c = d /\ dump'[c][o] = report)
      BY <2>1
    <3> QED
      BY <2>5, <3>1 DEF Dated
  <2>7. ASSUME NEW g \in Exporters
        PROVE  /\ export'[g].step \in {"fetch", "merge", "write", "snap", "load"} =>
                    OfDay(export'[g].taken, export'[g].day)
               /\ export'[g].step = "put" => OfDay(export'[g].report.taken, export'[g].day)
    <3>1. CASE g = e
      BY <2>2, <2>3, <2>5, <3>1
    <3>2. CASE g # e
      BY <2>3, <3>2 DEF Dated, Exporting, Day
    <3> QED
      BY <3>1, <3>2
  <2> QED
    BY <2>4, <2>6, <2>7 DEF Dated, OfDay, Exporting, Day
<1>8. ASSUME NEW e \in Exporters, PutSuccess(e) PROVE Dated'
  BY <1>8, MarkGoes, AwayIs, DatedHolds DEF PutSuccess
<1>9. ASSUME NEW e \in Exporters, ExporterFails(e) PROVE Dated'
  BY <1>9, FailGoes, AwayIs, DatedHolds DEF ExporterFails
<1>10. (\E f \in Fills : Trade(f)) \/ Midnight \/ UNCHANGED dumpsVars => Dated'
  BY DEF Trade, Midnight, dumpsHistory, dumpsVars, Dated, OfDay, Exporting, Day
<1> QED
  BY <1>1, <1>2, <1>3, <1>4, <1>5, <1>6, <1>7, <1>8, <1>9, <1>10 DEF DumpsNext

-----------------------------------------------------------------------------
LEMMA DumpsStart == DumpsInit => DumpsInv
<1> SUFFICES ASSUME DumpsInit PROVE DumpsInv
  OBVIOUS
<1>1. export = [e \in Exporters |-> Away] /\ export \in [Exporters -> ExportRecords]
  BY DEF DumpsInit, ExportRecords
<1>2. DumpsTyped
  <2>1. /\ ledger \in [LedgerDays -> (SUBSET Fills) \cup {Torn}] /\ issued \in [LedgerDays -> SUBSET Fills]
        /\ snapshot \in [LedgerDays -> 0..LastDay]
    BY DumpsAssumption DEF DumpsInit
  <2>2. dump \in [LedgerDays -> [ToSet(Objects) -> Reports \cup {NoReport}]]
    BY DEF DumpsInit
  <2>3. today \in LedgerDays /\ exports \in 0..MaxExports
    BY DumpsAssumption DEF DumpsInit, LedgerDays
  <2> QED
    BY <1>1, <2>1, <2>2, <2>3 DEF DumpsInit, DumpsTyped, DumpsTypeOK
<1>3. \A e \in Exporters : export[e].step = "away"
  BY <1>1, AwayIs
<1>4. LedgerKeeps /\ MergesApart /\ PublishedKept
  BY <1>3 DEF DumpsInit, LedgerKeeps, MergesApart, PublishedKept, Publishing, Exporting
<1>5. PutSoFar /\ PublishedApart
  BY <1>3 DEF DumpsInit, PutSoFar, PublishedApart, Publishing, Exporting
<1>6. Dated
  BY <1>3 DEF DumpsInit, Dated, OfDay, Exporting
<1> QED
  BY <1>2, <1>4, <1>5, <1>6 DEF DumpsInv

LEMMA DumpsStep == DumpsInv /\ [DumpsNext]_dumpsVars => DumpsInv'
  BY DumpsStepsTyped, MergeSteps, KeptSteps, PutSteps, DatedSteps DEF DumpsInv

\* For any number of exporters, days and fills: an execution that was merged is never lost from
\* the ledger, and a day marked complete is whole, of one report, and shows its own positions,
\* but for what LedgerKeeps and PublishedDays except.
THEOREM DumpsAreKept == DumpsSpec => [](DumpsTypeOK /\ LedgerKeeps /\ PublishedDays)
<1>1. DumpsInv => DumpWhole
  <2> SUFFICES ASSUME DumpsInv, NEW d \in success
               PROVE  /\ \A o \in ToSet(Objects) : dump[d][o] # NoReport
                      /\ \/ d \in disturbed \/ \E e \in Exporters : Publishing(e, d)
                         \/ OneReport(d)
    BY DEF DumpWhole, OneReport
  <2>1. d \in LedgerDays
    BY DEF DumpsInv, DumpsTyped, DumpsTypeOK
  <2> QED
    BY <2>1 DEF DumpsInv, PutSoFar, PublishedApart, Replacing
<1>2. DumpsInv => PositionsOfTheDay
  BY DumpsAssumption DEF DumpsInv, Dated, OfDay, PositionsOfTheDay, NoReport
<1>3. DumpsInv => DumpsTypeOK /\ LedgerKeeps /\ PublishedDays
  BY <1>1, <1>2 DEF DumpsInv, DumpsTyped, PublishedDays
<1> QED
  BY <1>3, DumpsStart, DumpsStep, PTL DEF DumpsSpec

-----------------------------------------------------------------------------
\* The sentiment job.

Runs0 == SentimentRuns \cup {0}
Rows == [Scores -> Runs0]

WorkRecords ==
  {[step |-> "none"]}
  \cup [step : {"refresh"}, job : SentimentJobs, late : BOOLEAN]
  \cup [step : {"slots"}, job : SentimentJobs, late : BOOLEAN, fed : BOOLEAN, todo : SUBSET Slots]
  \cup [step : {"tx"}, job : SentimentJobs, late : BOOLEAN, fed : BOOLEAN, todo : SUBSET Slots,
        slot : Slots, seen : Rows]
  \cup [step : {"finish"}, fed : BOOLEAN]

SentimentTyped == SentimentTypeOK /\ work \in [SentimentRuns -> WorkRecords]

\* A run that met no other is alone at work.
AloneOrMet ==
  \A q, p \in SentimentRuns : q # p /\ ~AtWork(q, "none") /\ ~AtWork(p, "none") => q \in met

\* A transaction has seen the rows it replaces, unless another was in its slot, or wrote the
\* efficacy rows, meanwhile.
SeenIsCurrent ==
  \A q \in SentimentRuns : \A s \in Slots : Writing(q, s) =>
    /\ s \notin concurrent =>
         /\ \A k \in {"always", "feed"} : work[q].seen[k] = scores[s][k]
         /\ \A p \in SentimentRuns \ {q} : ~Writing(p, s)
    /\ q \notin met => work[q].seen["efficacy"] = scores[s]["efficacy"]

\* Today's slot is behind a daily run.
PastToday(q) ==
  /\ work[q].step \in {"slots", "tx"} /\ work[q].job = "daily"
  /\ Today \notin work[q].todo /\ ~Writing(q, Today)

\* Whose rows a daily run finds in the slot it wrote: its own, or those of a run it met.
TodayWritten ==
  \A q \in SentimentRuns : PastToday(q) => snapshots[Today].run \in {q} \cup met

EfficacyOfToday == \A s \in Slots \ {Today} : scores[s]["efficacy"] = 0

SentimentInv ==
  SentimentTyped /\ SlotWhole /\ AloneOrMet /\ SeenIsCurrent /\ TodayWritten /\ EfficacyOfToday

-----------------------------------------------------------------------------
\* A nonempty set of slots has a first one.
SlotBefore == {p \in Nat \X Nat : p[1] < p[2]}

LEMMA FirstSlot ==
  ASSUME NEW todo \in SUBSET Slots, todo # {}
  PROVE  FirstOf(todo) \in todo
<1>0. todo \in SUBSET Nat
  BY SentimentAssumption DEF Slots, HalfHour
<1>1. IsWellFoundedOn(SlotBefore, Nat)
  BY NatLessThanWellFounded, Zenon DEF OpToRel, SlotBefore
<1>2. \E s \in todo : \A t \in todo : ~(<<t, s>> \in SlotBefore)
  BY <1>0, <1>1, WFMin
<1>3. ASSUME NEW s \in todo, NEW t \in todo, ~(<<t, s>> \in SlotBefore) PROVE s <= t
  BY <1>0, <1>3 DEF SlotBefore
<1> QED
  BY <1>2, <1>3 DEF FirstOf

LEMMA TodayIsASlot == Today \in Slots /\ HalfHour \in Slots /\ HalfHour # Today
  BY SentimentAssumption DEF Slots, HalfHour

\* A run's record, by its step.
LEMMA WorkShapes ==
  ASSUME SentimentTyped, NEW r \in SentimentRuns
  PROVE  /\ AtWork(r, "refresh") =>
              work[r] \in [step : {"refresh"}, job : SentimentJobs, late : BOOLEAN]
         /\ AtWork(r, "slots") =>
              work[r] \in [step : {"slots"}, job : SentimentJobs, late : BOOLEAN, fed : BOOLEAN,
                           todo : SUBSET Slots]
         /\ AtWork(r, "tx") =>
              work[r] \in [step : {"tx"}, job : SentimentJobs, late : BOOLEAN, fed : BOOLEAN,
                           todo : SUBSET Slots, slot : Slots, seen : Rows]
<1>1. work[r] \in WorkRecords
  BY DEF SentimentTyped
<1> QED
  BY <1>1 DEF WorkRecords, AtWork

\* One run goes on, the others stay where they are.
LEMMA RunGoes ==
  ASSUME SentimentTyped, NEW r \in SentimentRuns, NEW next \in WorkRecords, Works(r, next)
  PROVE  /\ work' \in [SentimentRuns -> WorkRecords] /\ work'[r] = next
         /\ \A q \in SentimentRuns \ {r} : work'[q] = work[q]
  BY DEF SentimentTyped, Works

Idle == [step |-> "none"]

LEMMA IdleIs == Idle \in WorkRecords /\ Idle.step = "none"
  BY DEF Idle, WorkRecords

\* What each step of a run does.
LEMMA StartGoes ==
  ASSUME SentimentTyped, NEW r \in SentimentRuns, NEW which \in SentimentJobs, StartRun(r, which)
  PROVE  /\ \E next \in WorkRecords : Works(r, next) /\ next.step = "refresh"
         /\ met \subseteq met' /\ met' \subseteq SentimentRuns
         /\ \A q \in SentimentRuns \ {r} : ~AtWork(q, "none") => q \in met' /\ r \in met'
<1> DEFINE next == [step |-> "refresh", job |-> which, late |-> evening]
<1>1. next \in WorkRecords
  BY DEF WorkRecords, SentimentTyped, SentimentTypeOK
<1>2. Works(r, next)
  BY DEF StartRun
<1>3. LET others == {q \in SentimentRuns : ~AtWork(q, "none")}
      IN met' = met \cup others \cup (IF others = {} THEN {} ELSE {r})
  BY DEF StartRun
<1> QED
  BY <1>1, <1>2, <1>3 DEF SentimentTyped, SentimentTypeOK

LEMMA RefreshGoes ==
  ASSUME SentimentTyped, NEW r \in SentimentRuns, Refresh(r)
  PROVE  /\ AtWork(r, "refresh")
         /\ \E next \in WorkRecords :
              /\ Works(r, next) /\ next.step = "slots"
              /\ next.job = "daily" => Today \in next.todo
         /\ scores' \in [Slots -> Rows]
         /\ \A s \in Slots : \A k \in Scores \ {"put_call"} : scores'[s][k] = scores[s][k]
<1>1. /\ AtWork(r, "refresh")
      /\ work[r] \in [step : {"refresh"}, job : SentimentJobs, late : BOOLEAN]
  BY WorkShapes DEF Refresh
<1>2. PICK fed \in BOOLEAN, todo \in SlotsOf(work[r].job) :
        Works(r, [step |-> "slots", job |-> work[r].job, late |-> work[r].late, fed |-> fed,
                  todo |-> todo])
  BY DEF Refresh
<1>3. todo \in SUBSET Slots /\ (work[r].job = "daily" => Today \in todo)
  BY <1>2, SentimentAssumption DEF SlotsOf, Slots
<1> DEFINE next == [step |-> "slots", job |-> work[r].job, late |-> work[r].late, fed |-> fed,
                    todo |-> todo]
<1>4. next \in WorkRecords
  BY <1>1, <1>3 DEF WorkRecords
<1>5. PICK got \in {{}, {s \in 1..Today : scores[s]["put_call"] = 0}} :
        scores' = [s \in Slots |-> IF s \in got THEN [scores[s] EXCEPT !["put_call"] = r]
                                   ELSE scores[s]]
  BY DEF Refresh
<1>6. \A s \in Slots : scores[s] \in Rows
  BY DEF SentimentTyped, SentimentTypeOK, Rows, Runs0
<1>7. \A s \in Slots :
        /\ [scores[s] EXCEPT !["put_call"] = r] \in Rows
        /\ \A k \in Scores \ {"put_call"} : [scores[s] EXCEPT !["put_call"] = r][k] = scores[s][k]
  BY <1>6 DEF Rows, Runs0
<1>8. /\ scores' \in [Slots -> Rows]
      /\ \A s \in Slots : \A k \in Scores \ {"put_call"} : scores'[s][k] = scores[s][k]
  BY <1>5, <1>6, <1>7
<1> QED
  BY <1>1, <1>2, <1>3, <1>4, <1>8

LEMMA DeleteGoes ==
  ASSUME SentimentTyped, NEW r \in SentimentRuns, DeleteSlot(r)
  PROVE  /\ AtWork(r, "slots")
         /\ \E place \in Slots : \E next \in WorkRecords :
              /\ Works(r, next) /\ next.step = "tx" /\ next.job = work[r].job
              /\ next.todo = work[r].todo \ {place} /\ next.slot = place /\ next.seen = scores[place]
              /\ concurrent' = IF \E q \in SentimentRuns : Writing(q, place)
                               THEN concurrent \cup {place} ELSE concurrent
<1> DEFINE x == work[r]
           place == FirstOf(x.todo)
           next == [step |-> "tx", job |-> x.job, late |-> x.late, fed |-> x.fed,
                    todo |-> x.todo \ {place}, slot |-> place, seen |-> scores[place]]
<1>1. /\ AtWork(r, "slots") /\ x.todo # {}
      /\ x \in [step : {"slots"}, job : SentimentJobs, late : BOOLEAN, fed : BOOLEAN,
                todo : SUBSET Slots]
  BY WorkShapes DEF DeleteSlot
<1>2. place \in Slots
  BY <1>1, FirstSlot
<1>3. scores[place] \in Rows
  BY <1>2 DEF SentimentTyped, SentimentTypeOK, Rows, Runs0
<1>4. /\ Works(r, next)
      /\ concurrent' = IF \E q \in SentimentRuns : Writing(q, place)
                       THEN concurrent \cup {place} ELSE concurrent
  BY DEF DeleteSlot
<1> HIDE DEF place
<1>5. next \in WorkRecords
  BY <1>1, <1>2, <1>3 DEF WorkRecords
<1> QED
  BY <1>1, <1>2, <1>4, <1>5

LEMMA CommitGoes ==
  ASSUME SentimentTyped, NEW r \in SentimentRuns, CommitSlot(r)
  PROVE  LET place == work[r].slot
         IN /\ Writing(r, place) /\ place \in Slots
            /\ \E next \in WorkRecords :
                 /\ Works(r, next) /\ next.step = "slots"
                 /\ next.job = work[r].job /\ next.todo = work[r].todo
            /\ scores' \in [Slots -> Rows]
            /\ \A s \in Slots \ {place} : scores'[s] = scores[s]
            /\ scores'[place]["always"] = r
            /\ scores'[place]["feed"] = r \/ scores'[place]["feed"] = 0
                 \/ work[r].seen["feed"] # scores[place]["feed"]
            /\ scores'[place]["efficacy"] \in {0, scores[place]["efficacy"]}
            /\ scores'[place]["efficacy"] = 0
                 \/ work[r].seen["efficacy"] # scores[place]["efficacy"]
            /\ verdicts' \in [Slots -> Runs0] /\ verdicts'[place] = r
            /\ \A s \in Slots \ {place} : verdicts'[s] = verdicts[s]
            /\ snapshots' \in [Slots -> [run : Runs0, final : BOOLEAN]] /\ snapshots'[place].run = r
            /\ \A s \in Slots \ {place} : snapshots'[s] = snapshots[s]
<1> DEFINE x == work[r]
           place == x.slot
<1>1. /\ Writing(r, place)
      /\ x \in [step : {"tx"}, job : SentimentJobs, late : BOOLEAN, fed : BOOLEAN,
                todo : SUBSET Slots, slot : Slots, seen : Rows]
  BY WorkShapes DEF CommitSlot, Writing
<1>2. place \in Slots /\ scores[place] \in Rows
  BY <1>1 DEF SentimentTyped, SentimentTypeOK, Rows, Runs0
<1>3. \E next \in WorkRecords :
        Works(r, next) /\ next.step = "slots" /\ next.job = x.job /\ next.todo = x.todo
  <2> DEFINE next == [step |-> "slots", job |-> x.job, late |-> x.late, fed |-> x.fed, todo |-> x.todo]
  <2>1. next \in WorkRecords
    BY <1>1 DEF WorkRecords
  <2>2. Works(r, next)
    BY DEF CommitSlot
  <2> QED
    BY <2>1, <2>2
<1> DEFINE row == [k \in Scores |-> IF k \in Written(r) THEN r ELSE Kept(r, scores[place])[k]]
<1>4. Kept(r, scores[place]) \in Rows
  BY <1>2 DEF Kept, Rows, Runs0
<1>5. row \in Rows
  BY <1>4 DEF Rows, Runs0
<1>6. /\ row["always"] = r
      /\ row["feed"] = r \/ row["feed"] = 0 \/ x.seen["feed"] # scores[place]["feed"]
      /\ row["efficacy"] \in {0, scores[place]["efficacy"]}
      /\ row["efficacy"] = 0 \/ x.seen["efficacy"] # scores[place]["efficacy"]
  BY DEF Scores, Written, Kept
<1>7. scores' = [scores EXCEPT ![place] = row]
  BY DEF CommitSlot
<1> HIDE DEF row
<1>8. scores' \in [Slots -> Rows] /\ scores'[place] = row /\ \A s \in Slots \ {place} : scores'[s] = scores[s]
  BY <1>2, <1>5, <1>7 DEF SentimentTyped, SentimentTypeOK, Rows, Runs0
<1>9. /\ verdicts' \in [Slots -> Runs0] /\ verdicts'[place] = r
      /\ \A s \in Slots \ {place} : verdicts'[s] = verdicts[s]
  BY <1>2 DEF CommitSlot, SentimentTyped, SentimentTypeOK, Runs0
<1>10. /\ snapshots' \in [Slots -> [run : Runs0, final : BOOLEAN]] /\ snapshots'[place].run = r
       /\ \A s \in Slots \ {place} : snapshots'[s] = snapshots[s]
  <2>1. snapshots' = [snapshots EXCEPT ![place] = [run |-> r, final |-> Final(r, place)]]
    BY DEF CommitSlot
  <2>2. Final(r, place) \in BOOLEAN
    BY <1>1 DEF Final
  <2>3. [run |-> r, final |-> Final(r, place)] \in [run : Runs0, final : BOOLEAN]
    BY <2>2 DEF Runs0
  <2> QED
    BY <1>2, <2>1, <2>3 DEF SentimentTyped, SentimentTypeOK, Runs0
<1> QED
  BY <1>1, <1>2, <1>3, <1>6, <1>8, <1>9, <1>10

LEMMA EfficacyGoes ==
  ASSUME SentimentTyped, NEW r \in SentimentRuns, WriteEfficacy(r)
  PROVE  /\ PastToday(r)
         /\ \E next \in WorkRecords : Works(r, next) /\ next.step = "finish"
         /\ scores' \in [Slots -> Rows]
         /\ \A s \in Slots \ {Today} : scores'[s] = scores[s]
         /\ \A k \in Scores \ {"efficacy"} : scores'[Today][k] = scores[Today][k]
         /\ scores'[Today]["efficacy"] = r
<1>1. /\ AtWork(r, "slots") /\ work[r].todo = {} /\ work[r].job # "intraday"
      /\ work[r] \in [step : {"slots"}, job : SentimentJobs, late : BOOLEAN, fed : BOOLEAN,
                      todo : SUBSET Slots]
  BY WorkShapes DEF WriteEfficacy
<1>2. PastToday(r)
  BY <1>1 DEF PastToday, AtWork, Writing, SentimentJobs
<1>3. [step |-> "finish", fed |-> work[r].fed] \in WorkRecords
  BY <1>1 DEF WorkRecords
<1>4. scores[Today] \in Rows /\ Today \in Slots
  BY TodayIsASlot DEF SentimentTyped, SentimentTypeOK, Rows, Runs0
<1> DEFINE row == [scores[Today] EXCEPT !["efficacy"] = r]
<1>5. /\ row \in Rows /\ row["efficacy"] = r
      /\ \A k \in Scores \ {"efficacy"} : row[k] = scores[Today][k]
  BY <1>4 DEF Rows, Runs0, Scores
<1>6. scores' = [scores EXCEPT ![Today] = row]
  BY DEF WriteEfficacy
<1> HIDE DEF row
<1>7. scores' \in [Slots -> Rows] /\ scores'[Today] = row /\ \A s \in Slots \ {Today} : scores'[s] = scores[s]
  BY <1>4, <1>5, <1>6 DEF SentimentTyped, SentimentTypeOK, Rows, Runs0
<1> QED
  BY <1>2, <1>3, <1>5, <1>7 DEF WriteEfficacy

\* A run ends, well or not.
RunEnds(r) == Works(r, Idle) /\ UNCHANGED <<scores, verdicts, snapshots, concurrent, met>>

LEMMA EndGoes ==
  ASSUME NEW r \in SentimentRuns, FinishRun(r) \/ FailRun(r)
  PROVE  RunEnds(r) /\ ~AtWork(r, "none")
  BY DEF FinishRun, FailRun, RunEnds, AtWork, Idle

LEMMA SentimentStepsTyped ==
  ASSUME SentimentTyped, [SentimentNext]_sentimentVars
  PROVE  SentimentTyped'
<1> USE DEF SentimentTyped
<1>1. CASE EveningFalls
  BY <1>1 DEF EveningFalls, SentimentTypeOK
<1>2. ASSUME NEW r \in SentimentRuns, NEW which \in SentimentJobs, StartRun(r, which)
      PROVE  SentimentTyped'
  <2>1. work' \in [SentimentRuns -> WorkRecords] /\ met' \subseteq SentimentRuns
    BY <1>2, StartGoes, RunGoes
  <2> QED
    BY <1>2, <2>1 DEF StartRun, SentimentTypeOK
<1>3. ASSUME NEW r \in SentimentRuns, Refresh(r) PROVE SentimentTyped'
  <2>1. work' \in [SentimentRuns -> WorkRecords] /\ scores' \in [Slots -> Rows]
    BY <1>3, RefreshGoes, RunGoes
  <2> QED
    BY <1>3, <2>1 DEF Refresh, SentimentTypeOK, Rows, Runs0
<1>4. ASSUME NEW r \in SentimentRuns, DeleteSlot(r) PROVE SentimentTyped'
  <2>1. work' \in [SentimentRuns -> WorkRecords] /\ concurrent' \subseteq Slots
    BY <1>4, DeleteGoes, RunGoes DEF SentimentTypeOK
  <2> QED
    BY <1>4, <2>1 DEF DeleteSlot, SentimentTypeOK
<1>5. ASSUME NEW r \in SentimentRuns, CommitSlot(r) PROVE SentimentTyped'
  <2>1. /\ work' \in [SentimentRuns -> WorkRecords] /\ scores' \in [Slots -> Rows]
        /\ verdicts' \in [Slots -> Runs0] /\ snapshots' \in [Slots -> [run : Runs0, final : BOOLEAN]]
    BY <1>5, CommitGoes, RunGoes
  <2> QED
    BY <1>5, <2>1 DEF CommitSlot, SentimentTypeOK, Rows, Runs0
<1>6. ASSUME NEW r \in SentimentRuns, WriteEfficacy(r) PROVE SentimentTyped'
  <2>1. work' \in [SentimentRuns -> WorkRecords] /\ scores' \in [Slots -> Rows]
    BY <1>6, EfficacyGoes, RunGoes
  <2> QED
    BY <1>6, <2>1 DEF WriteEfficacy, SentimentTypeOK, Rows, Runs0
<1>7. ASSUME NEW r \in SentimentRuns, FinishRun(r) \/ FailRun(r) PROVE SentimentTyped'
  <2>1. work' \in [SentimentRuns -> WorkRecords]
    BY <1>7, EndGoes, IdleIs, RunGoes DEF RunEnds
  <2>2. status' \in [SentimentRuns -> {"NONE", "RUNNING", "OK", "PARTIAL", "FAILED"}]
    BY <1>7 DEF FinishRun, FailRun, SentimentTypeOK
  <2> QED
    BY <1>7, <2>1, <2>2 DEF FinishRun, FailRun, SentimentTypeOK
<1>8. CASE UNCHANGED sentimentVars
  BY <1>8 DEF sentimentVars, SentimentTypeOK
<1> QED
  BY <1>1, <1>2, <1>3, <1>4, <1>5, <1>6, <1>7, <1>8 DEF SentimentNext

-----------------------------------------------------------------------------
\* Whoever is at work stays among those that are, but for a run that starts.
LEMMA MetSteps ==
  ASSUME SentimentTyped, AloneOrMet, [SentimentNext]_sentimentVars
  PROVE  AloneOrMet' /\ met \subseteq met'
<1>1. ASSUME UNCHANGED met, \A q \in SentimentRuns : AtWork(q, "none") => AtWork(q, "none")'
      PROVE  AloneOrMet'
  BY <1>1 DEF AloneOrMet, AtWork
<1>2. ASSUME NEW r \in SentimentRuns, ~AtWork(r, "none"), NEW next \in WorkRecords, Works(r, next),
             UNCHANGED met
      PROVE  AloneOrMet'
  <2>1. work'[r] = next /\ \A q \in SentimentRuns \ {r} : work'[q] = work[q]
    BY <1>2, RunGoes
  <2> QED
    BY <1>1, <1>2, <2>1 DEF AtWork
<1>3. ASSUME NEW r \in SentimentRuns, NEW which \in SentimentJobs, StartRun(r, which)
      PROVE  AloneOrMet' /\ met \subseteq met'
  <2>1. PICK next \in WorkRecords : Works(r, next) /\ next.step = "refresh"
    BY <1>3, StartGoes
  <2>2. \A q \in SentimentRuns \ {r} : work'[q] = work[q]
    BY <2>1, RunGoes
  <2>3. /\ met \subseteq met'
        /\ \A q \in SentimentRuns \ {r} : ~AtWork(q, "none") => q \in met' /\ r \in met'
    BY <1>3, StartGoes
  <2>4. ASSUME NEW q \in SentimentRuns, NEW p \in SentimentRuns, q # p,
               ~AtWork(q, "none")', ~AtWork(p, "none")'
        PROVE  q \in met'
    <3>1. CASE q = r
      BY <2>2, <2>3, <2>4, <3>1 DEF AtWork
    <3>2. CASE p = r
      BY <2>2, <2>3, <2>4, <3>2 DEF AtWork
    <3>3. CASE q # r /\ p # r
      BY <2>2, <2>3, <2>4, <3>3 DEF AtWork, AloneOrMet
    <3> QED
      BY <3>1, <3>2, <3>3
  <2> QED
    BY <2>3, <2>4 DEF AloneOrMet
<1>4. ASSUME NEW r \in SentimentRuns, Refresh(r) PROVE AloneOrMet' /\ met \subseteq met'
  BY <1>2, <1>4, RefreshGoes DEF Refresh, AtWork
<1>5. ASSUME NEW r \in SentimentRuns, DeleteSlot(r) PROVE AloneOrMet' /\ met \subseteq met'
  BY <1>2, <1>5, DeleteGoes DEF DeleteSlot, AtWork
<1>6. ASSUME NEW r \in SentimentRuns, CommitSlot(r) PROVE AloneOrMet' /\ met \subseteq met'
  BY <1>2, <1>6, CommitGoes DEF CommitSlot, AtWork
<1>7. ASSUME NEW r \in SentimentRuns, WriteEfficacy(r) PROVE AloneOrMet' /\ met \subseteq met'
  BY <1>2, <1>7, EfficacyGoes DEF WriteEfficacy, AtWork
<1>8. ASSUME NEW r \in SentimentRuns, FinishRun(r) \/ FailRun(r) PROVE AloneOrMet' /\ met \subseteq met'
  BY <1>2, <1>8, EndGoes, IdleIs DEF RunEnds
<1>9. EveningFalls \/ UNCHANGED sentimentVars => AloneOrMet' /\ met \subseteq met'
  BY <1>1 DEF EveningFalls, sentimentVars, AtWork
<1> QED
  BY <1>3, <1>4, <1>5, <1>6, <1>7, <1>8, <1>9 DEF SentimentNext

\* Steps that write no row but put/call ratios, and begin no transaction.
LEMMA SeenHolds ==
  ASSUME SentimentTyped, SeenIsCurrent, met \subseteq met', UNCHANGED concurrent,
         \A s \in Slots : \A k \in Scores \ {"put_call"} : scores'[s][k] = scores[s][k],
         NEW r \in SentimentRuns, NEW next \in WorkRecords, Works(r, next), next.step # "tx"
  PROVE  SeenIsCurrent'
<1>1. work'[r] = next /\ \A q \in SentimentRuns \ {r} : work'[q] = work[q]
  BY RunGoes
<1>2. \A q \in SentimentRuns, s \in Slots :
        Writing(q, s)' => q # r /\ Writing(q, s) /\ work'[q] = work[q]
  BY <1>1 DEF Writing, AtWork
<1>3. {"always", "feed", "efficacy"} \subseteq Scores \ {"put_call"}
  BY DEF Scores
<1> QED
  BY <1>2, <1>3 DEF SeenIsCurrent

LEMMA SeenSteps ==
  ASSUME SentimentTyped, AloneOrMet, SeenIsCurrent, [SentimentNext]_sentimentVars
  PROVE  SeenIsCurrent'
<1>m. met \subseteq met'
  BY MetSteps
<1>1. ASSUME NEW r \in SentimentRuns, NEW which \in SentimentJobs, StartRun(r, which)
      PROVE  SeenIsCurrent'
  BY <1>1, <1>m, StartGoes, SeenHolds DEF StartRun
<1>2. ASSUME NEW r \in SentimentRuns, Refresh(r) PROVE SeenIsCurrent'
  BY <1>2, <1>m, RefreshGoes, SeenHolds DEF Refresh
<1>3. ASSUME NEW r \in SentimentRuns, FinishRun(r) \/ FailRun(r) PROVE SeenIsCurrent'
  BY <1>3, <1>m, EndGoes, IdleIs, SeenHolds DEF RunEnds
<1>4. ASSUME NEW r \in SentimentRuns, DeleteSlot(r) PROVE SeenIsCurrent'
  <2>1. PICK place \in Slots : \E next \in WorkRecords :
          /\ Works(r, next) /\ next.step = "tx" /\ next.slot = place /\ next.seen = scores[place]
          /\ concurrent' = IF \E q \in SentimentRuns : Writing(q, place)
                           THEN concurrent \cup {place} ELSE concurrent
    BY <1>4, DeleteGoes
  <2>2. PICK next \in WorkRecords :
          Works(r, next) /\ next.step = "tx" /\ next.slot = place /\ next.seen = scores[place]
    BY <2>1
  <2>3. work'[r] = next /\ \A q \in SentimentRuns \ {r} : work'[q] = work[q]
    BY <2>2, RunGoes
  <2>4. scores' = scores /\ met' = met
    BY <1>4 DEF DeleteSlot
  <2>5. concurrent \subseteq concurrent' /\ (place \in concurrent' \/ \A q \in SentimentRuns : ~Writing(q, place))
    BY <2>1
  <2>6. ASSUME NEW q \in SentimentRuns, NEW s \in Slots, Writing(q, s)'
        PROVE  /\ s \notin concurrent' =>
                    /\ \A k \in {"always", "feed"} : work'[q].seen[k] = scores'[s][k]
                    /\ \A p \in SentimentRuns \ {q} : ~Writing(p, s)'
               /\ q \notin met' => work'[q].seen["efficacy"] = scores'[s]["efficacy"]
    <3>1. CASE q = r
      <4>1. s = place /\ work'[q].seen = scores'[s]
        BY <2>2, <2>3, <2>4, <2>6, <3>1 DEF Writing, AtWork
      <4>2. s \notin concurrent' => \A p \in SentimentRuns \ {q} : ~Writing(p, s)'
        BY <2>3, <2>5, <3>1, <4>1 DEF Writing, AtWork
      <4> QED
        BY <4>1, <4>2
    <3>2. CASE q # r
      <4>1. Writing(q, s) /\ work'[q] = work[q]
        BY <2>3, <2>6, <3>2 DEF Writing, AtWork
      <4>2. s \notin concurrent' => s # place
        BY <2>5, <4>1
      <4>3. s # place => ~Writing(r, s)'
        BY <2>2, <2>3 DEF Writing, AtWork
      <4>4. \A p \in SentimentRuns \ {r} : Writing(p, s)' <=> Writing(p, s)
        BY <2>3 DEF Writing, AtWork
      <4>5. s \notin concurrent' => s \notin concurrent
        BY <2>5
      <4>6. /\ s \notin concurrent =>
                 /\ \A k \in {"always", "feed"} : work[q].seen[k] = scores[s][k]
                 /\ \A p \in SentimentRuns \ {q} : ~Writing(p, s)
            /\ q \notin met => work[q].seen["efficacy"] = scores[s]["efficacy"]
        BY <4>1 DEF SeenIsCurrent
      <4> QED
        BY <2>4, <4>1, <4>2, <4>3, <4>4, <4>5, <4>6
    <3> QED
      BY <3>1, <3>2
  <2> QED
    BY <2>6 DEF SeenIsCurrent
<1>5. ASSUME NEW r \in SentimentRuns, CommitSlot(r) PROVE SeenIsCurrent'
  <2> DEFINE place == work[r].slot
  <2>1. /\ Writing(r, place) /\ place \in Slots /\ \A s \in Slots \ {place} : scores'[s] = scores[s]
    BY <1>5, CommitGoes
  <2>2. PICK next \in WorkRecords : Works(r, next) /\ next.step = "slots"
    BY <1>5, CommitGoes
  <2>3. work'[r] = next /\ \A q \in SentimentRuns \ {r} : work'[q] = work[q]
    BY <2>2, RunGoes
  <2>4. UNCHANGED <<concurrent, met>>
    BY <1>5 DEF CommitSlot
  <2>5. ASSUME NEW q \in SentimentRuns, NEW s \in Slots, Writing(q, s)'
        PROVE  /\ s \notin concurrent' =>
                    /\ \A k \in {"always", "feed"} : work'[q].seen[k] = scores'[s][k]
                    /\ \A p \in SentimentRuns \ {q} : ~Writing(p, s)'
               /\ q \notin met' => work'[q].seen["efficacy"] = scores'[s]["efficacy"]
    <3>1. q # r /\ Writing(q, s) /\ work'[q] = work[q]
      BY <2>2, <2>3, <2>5 DEF Writing, AtWork
    <3>2. q \in met
      BY <2>1, <3>1 DEF AloneOrMet, Writing, AtWork
    <3>3. s \notin concurrent => s # place
      BY <2>1, <3>1 DEF SeenIsCurrent
    <3>4. s \notin concurrent =>
            /\ \A k \in {"always", "feed"} : work[q].seen[k] = scores[s][k]
            /\ \A p \in SentimentRuns \ {q} : ~Writing(p, s)
      BY <3>1 DEF SeenIsCurrent
    <3>5. \A p \in SentimentRuns : Writing(p, s)' => Writing(p, s)
      BY <2>2, <2>3 DEF Writing, AtWork
    <3> QED
      BY <2>1, <2>4, <3>1, <3>2, <3>3, <3>4, <3>5
  <2> QED
    BY <2>5 DEF SeenIsCurrent
<1>6. ASSUME NEW r \in SentimentRuns, WriteEfficacy(r) PROVE SeenIsCurrent'
  <2>1. /\ \A s \in Slots \ {Today} : scores'[s] = scores[s]
        /\ \A k \in Scores \ {"efficacy"} : scores'[Today][k] = scores[Today][k]
        /\ ~AtWork(r, "none")
    BY <1>6, EfficacyGoes DEF PastToday, AtWork
  <2>2. PICK next \in WorkRecords : Works(r, next) /\ next.step = "finish"
    BY <1>6, EfficacyGoes
  <2>3. work'[r] = next /\ \A q \in SentimentRuns \ {r} : work'[q] = work[q]
    BY <2>2, RunGoes
  <2>4. UNCHANGED <<concurrent, met>>
    BY <1>6 DEF WriteEfficacy
  <2>5. ASSUME NEW q \in SentimentRuns, NEW s \in Slots, Writing(q, s)'
        PROVE  /\ s \notin concurrent' =>
                    /\ \A k \in {"always", "feed"} : work'[q].seen[k] = scores'[s][k]
                    /\ \A p \in SentimentRuns \ {q} : ~Writing(p, s)'
               /\ q \notin met' => work'[q].seen["efficacy"] = scores'[s]["efficacy"]
    <3>1. q # r /\ Writing(q, s) /\ work'[q] = work[q]
      BY <2>2, <2>3, <2>5 DEF Writing, AtWork
    <3>2. q \in met
      BY <2>1, <3>1 DEF AloneOrMet, Writing, AtWork
    <3>3. \A k \in {"always", "feed"} : scores'[s][k] = scores[s][k]
      BY <2>1 DEF Scores
    <3>4. s \notin concurrent =>
            /\ \A k \in {"always", "feed"} : work[q].seen[k] = scores[s][k]
            /\ \A p \in SentimentRuns \ {q} : ~Writing(p, s)
      BY <3>1 DEF SeenIsCurrent
    <3>5. \A p \in SentimentRuns : Writing(p, s)' => Writing(p, s)
      BY <2>2, <2>3 DEF Writing, AtWork
    <3> QED
      BY <2>4, <3>1, <3>2, <3>3, <3>4, <3>5
  <2> QED
    BY <2>5 DEF SeenIsCurrent
<1>7. EveningFalls \/ UNCHANGED sentimentVars => SeenIsCurrent'
  BY DEF EveningFalls, sentimentVars, SeenIsCurrent, Writing, AtWork
<1> QED
  BY <1>1, <1>2, <1>3, <1>4, <1>5, <1>6, <1>7 DEF SentimentNext

-----------------------------------------------------------------------------
\* Steps that write no slot, nor bring their run past today's.
LEMMA TodayHolds ==
  ASSUME SentimentTyped, TodayWritten, UNCHANGED snapshots, met \subseteq met',
         NEW r \in SentimentRuns, NEW next \in WorkRecords, Works(r, next),
         PastToday(r)' => PastToday(r)
  PROVE  TodayWritten'
<1>1. \A q \in SentimentRuns \ {r} : work'[q] = work[q]
  BY RunGoes
<1>2. \A q \in SentimentRuns : PastToday(q)' => PastToday(q)
  BY <1>1 DEF PastToday, Writing, AtWork
<1> QED
  BY <1>2 DEF TodayWritten

LEMMA TodaySteps ==
  ASSUME SentimentTyped, AloneOrMet, TodayWritten, [SentimentNext]_sentimentVars
  PROVE  TodayWritten'
<1>m. met \subseteq met'
  BY MetSteps
<1>1. ASSUME UNCHANGED snapshots, NEW r \in SentimentRuns, NEW next \in WorkRecords, Works(r, next),
             next.step \in {"none", "refresh", "finish"} \/ (next.step = "slots" /\ (next.job = "daily" => Today \in next.todo))
      PROVE  TodayWritten'
  <2>1. work'[r] = next
    BY <1>1, RunGoes
  <2>2. ~PastToday(r)'
    BY <1>1, <2>1 DEF PastToday
  <2> QED
    BY <1>1, <1>m, <2>2, TodayHolds
<1>2. ASSUME NEW r \in SentimentRuns, NEW which \in SentimentJobs, StartRun(r, which)
      PROVE  TodayWritten'
  BY <1>1, <1>2, StartGoes DEF StartRun
<1>3. ASSUME NEW r \in SentimentRuns, Refresh(r) PROVE TodayWritten'
  BY <1>1, <1>3, RefreshGoes DEF Refresh
<1>4. ASSUME NEW r \in SentimentRuns, WriteEfficacy(r) PROVE TodayWritten'
  BY <1>1, <1>4, EfficacyGoes DEF WriteEfficacy
<1>5. ASSUME NEW r \in SentimentRuns, FinishRun(r) \/ FailRun(r) PROVE TodayWritten'
  BY <1>1, <1>5, EndGoes, IdleIs DEF RunEnds
<1>6. ASSUME NEW r \in SentimentRuns, DeleteSlot(r) PROVE TodayWritten'
  <2>1. PICK place \in Slots, next \in WorkRecords :
          /\ Works(r, next) /\ next.step = "tx" /\ next.job = work[r].job
          /\ next.todo = work[r].todo \ {place} /\ next.slot = place
    BY <1>6, DeleteGoes
  <2>2. work'[r] = next /\ AtWork(r, "slots")
    BY <1>6, <2>1, DeleteGoes, RunGoes
  <2>3. PastToday(r)' => PastToday(r)
    BY <2>1, <2>2 DEF PastToday, Writing, AtWork
  <2> QED
    BY <1>6, <1>m, <2>1, <2>3, TodayHolds DEF DeleteSlot
<1>7. ASSUME NEW r \in SentimentRuns, CommitSlot(r) PROVE TodayWritten'
  <2> DEFINE place == work[r].slot
  <2>1. /\ Writing(r, place) /\ place \in Slots /\ snapshots'[place].run = r
        /\ \A s \in Slots \ {place} : snapshots'[s] = snapshots[s]
    BY <1>7, CommitGoes
  <2>2. PICK next \in WorkRecords :
          Works(r, next) /\ next.step = "slots" /\ next.job = work[r].job /\ next.todo = work[r].todo
    BY <1>7, CommitGoes
  <2>3. work'[r] = next /\ \A q \in SentimentRuns \ {r} : work'[q] = work[q]
    BY <2>2, RunGoes
  <2>4. met' = met
    BY <1>7 DEF CommitSlot
  <2>5. ASSUME NEW q \in SentimentRuns, PastToday(q)'
        PROVE  snapshots'[Today].run \in {q} \cup met'
    <3>1. CASE place = Today /\ q = r
      BY <2>1, <3>1
    <3>2. CASE place = Today /\ q # r
      <4>1. ~AtWork(q, "none") /\ ~AtWork(r, "none")
        BY <2>1, <2>3, <2>5, <3>2 DEF PastToday, Writing, AtWork
      <4> QED
        BY <2>1, <2>4, <3>2, <4>1 DEF AloneOrMet
    <3>3. CASE place # Today
      <4>1. PastToday(q)
        BY <2>1, <2>2, <2>3, <2>5, <3>3 DEF PastToday, Writing, AtWork
      <4> QED
        BY <2>1, <2>4, <3>3, <4>1, TodayIsASlot DEF TodayWritten
    <3> QED
      BY <3>1, <3>2, <3>3
  <2> QED
    BY <2>5 DEF TodayWritten
<1>8. EveningFalls \/ UNCHANGED sentimentVars => TodayWritten'
  BY DEF EveningFalls, sentimentVars, TodayWritten, PastToday, Writing, AtWork
<1> QED
  BY <1>2, <1>3, <1>4, <1>5, <1>6, <1>7, <1>8 DEF SentimentNext

-----------------------------------------------------------------------------
\* Steps that write no row but put/call ratios.
LEMMA SlotHolds ==
  ASSUME SlotWhole, EfficacyOfToday, UNCHANGED <<verdicts, snapshots>>, met \subseteq met',
         concurrent \subseteq concurrent',
         \A s \in Slots : \A k \in Scores \ {"put_call"} : scores'[s][k] = scores[s][k]
  PROVE  SlotWhole' /\ EfficacyOfToday'
<1>1. {"always", "feed", "efficacy"} \subseteq Scores \ {"put_call"}
  BY DEF Scores
<1> QED
  BY <1>1 DEF SlotWhole, EfficacyOfToday

LEMMA SlotSteps ==
  ASSUME SentimentInv, [SentimentNext]_sentimentVars
  PROVE  SlotWhole' /\ EfficacyOfToday'
<1> USE DEF SentimentInv
<1>m. met \subseteq met'
  BY MetSteps
<1>1. ASSUME NEW r \in SentimentRuns, NEW which \in SentimentJobs, StartRun(r, which)
      PROVE  SlotWhole' /\ EfficacyOfToday'
  BY <1>1, <1>m, SlotHolds DEF StartRun
<1>2. ASSUME NEW r \in SentimentRuns, Refresh(r) PROVE SlotWhole' /\ EfficacyOfToday'
  BY <1>2, <1>m, RefreshGoes, SlotHolds DEF Refresh
<1>3. ASSUME NEW r \in SentimentRuns, DeleteSlot(r) PROVE SlotWhole' /\ EfficacyOfToday'
  <2>1. concurrent \subseteq concurrent'
    BY <1>3, DeleteGoes
  <2> QED
    BY <1>3, <1>m, <2>1, SlotHolds DEF DeleteSlot
<1>4. ASSUME NEW r \in SentimentRuns, FinishRun(r) \/ FailRun(r) PROVE SlotWhole' /\ EfficacyOfToday'
  BY <1>4, <1>m, EndGoes, SlotHolds DEF RunEnds
<1>5. EveningFalls \/ UNCHANGED sentimentVars => SlotWhole' /\ EfficacyOfToday'
  BY <1>m, SlotHolds DEF EveningFalls, sentimentVars
<1>6. ASSUME NEW r \in SentimentRuns, CommitSlot(r) PROVE SlotWhole' /\ EfficacyOfToday'
  <2> DEFINE place == work[r].slot
  <2>1. /\ Writing(r, place) /\ place \in Slots
        /\ \A s \in Slots \ {place} :
             scores'[s] = scores[s] /\ verdicts'[s] = verdicts[s] /\ snapshots'[s] = snapshots[s]
        /\ verdicts'[place] = r /\ snapshots'[place].run = r
    BY <1>6, CommitGoes
  <2>2. UNCHANGED <<concurrent, met>>
    BY <1>6 DEF CommitSlot
  <2>3. place \in concurrent \/ (scores'[place]["always"] = r /\ scores'[place]["feed"] \in {0, r})
    <3>1. place \notin concurrent => work[r].seen["feed"] = scores[place]["feed"]
      BY <2>1 DEF SeenIsCurrent
    <3> QED
      BY <1>6, <3>1, CommitGoes
  <2>4. r \in met \/ scores'[place]["efficacy"] \in {0, r}
    <3>1. r \notin met => work[r].seen["efficacy"] = scores[place]["efficacy"]
      BY <2>1 DEF SeenIsCurrent
    <3> QED
      BY <1>6, <3>1, CommitGoes
  <2>5. place # Today => scores'[place]["efficacy"] = 0
    BY <1>6, <2>1, CommitGoes DEF EfficacyOfToday
  <2>6. SlotWhole'
    BY <2>1, <2>2, <2>3, <2>4 DEF SlotWhole
  <2>7. EfficacyOfToday'
    BY <2>1, <2>5 DEF EfficacyOfToday
  <2> QED
    BY <2>6, <2>7
<1>7. ASSUME NEW r \in SentimentRuns, WriteEfficacy(r) PROVE SlotWhole' /\ EfficacyOfToday'
  <2>1. /\ \A s \in Slots \ {Today} : scores'[s] = scores[s]
        /\ scores'[Today]["always"] = scores[Today]["always"]
        /\ scores'[Today]["feed"] = scores[Today]["feed"] /\ scores'[Today]["efficacy"] = r
    BY <1>7, EfficacyGoes DEF Scores
  <2>2. snapshots[Today].run \in {r} \cup met
    BY <1>7, EfficacyGoes DEF TodayWritten
  <2>3. UNCHANGED <<verdicts, snapshots, concurrent, met>>
    BY <1>7 DEF WriteEfficacy
  <2> QED
    BY <2>1, <2>2, <2>3 DEF SlotWhole, EfficacyOfToday
<1> QED
  BY <1>1, <1>2, <1>3, <1>4, <1>5, <1>6, <1>7 DEF SentimentNext

LEMMA SentimentStarts == SentimentInit => SentimentInv
<1> SUFFICES ASSUME SentimentInit PROVE SentimentInv
  OBVIOUS
<1>1. work = [r \in SentimentRuns |-> Idle] /\ work \in [SentimentRuns -> WorkRecords]
  BY IdleIs DEF SentimentInit, Idle
<1>2. \A r \in SentimentRuns : AtWork(r, "none") /\ work[r].step = "none"
  BY <1>1, IdleIs DEF AtWork
<1>3. \A s \in Slots : /\ \A k \in Scores : scores[s][k] = 0
                       /\ verdicts[s] = 0 /\ snapshots[s].run = 0
  BY DEF SentimentInit, NoScores
<1>4. SentimentTyped
  BY <1>1 DEF SentimentInit, SentimentTyped, SentimentTypeOK, NoScores
<1>5. SlotWhole /\ EfficacyOfToday
  BY <1>3 DEF SlotWhole, EfficacyOfToday, Scores
<1>6. AloneOrMet /\ SeenIsCurrent /\ TodayWritten
  BY <1>2 DEF AloneOrMet, SeenIsCurrent, TodayWritten, PastToday, Writing, AtWork
<1> QED
  BY <1>4, <1>5, <1>6 DEF SentimentInv

LEMMA SentimentSteps == SentimentInv /\ [SentimentNext]_sentimentVars => SentimentInv'
  BY SentimentStepsTyped, MetSteps, SeenSteps, TodaySteps, SlotSteps DEF SentimentInv

\* For any number of sentiment runs and sessions: what a slot shows was written by one run,
\* however runs overlap, fail and die, but for what SlotWhole excepts.
THEOREM SlotsAreWhole == SentimentSpec => [](SentimentTypeOK /\ SlotWhole)
<1>1. SentimentInv => SentimentTypeOK /\ SlotWhole
  BY DEF SentimentInv, SentimentTyped
<1> QED
  BY <1>1, SentimentStarts, SentimentSteps, PTL DEF SentimentSpec

-----------------------------------------------------------------------------
\* The record of sandbox backtests.

Finished == {n \in SandboxIds : Contains(completed, n)}

RecordingSteps ==
  {Resting} \cup [step : {"object", "read"}, id : SandboxIds]
  \cup [step : {"write"}, id : SandboxIds, rows : Seq(SandboxIds)]

SandboxTyped ==
  /\ objects \subseteq SandboxIds /\ overlapped \in BOOLEAN
  /\ index \in Seq(SandboxIds) /\ Len(index) <= IndexCap
  /\ completed \in Seq(SandboxIds)
  /\ recent \in [Recorders -> Seq(SandboxIds)]
  /\ \A p \in Recorders : Len(recent[p]) <= MemoryCap
  /\ recording \in [Recorders -> RecordingSteps]

\* A run that is being recorded is nobody else's, is remembered and not yet complete.
OwnRuns ==
  \A p \in Recorders : ~Recording(p, "rest") =>
    /\ recording[p].id \notin Finished
    /\ Contains(recent[p], recording[p].id)
    /\ \A q \in Recorders : ~Recording(q, "rest") /\ recording[q].id = recording[p].id => q = p

\* Every row, in the index or about to be, is of a run with an object; and of a complete one,
\* or the one recorded.
RowsStored ==
  /\ \A i \in DOMAIN index : index[i] \in objects \cap Finished
  /\ \A p \in Recorders :
       /\ Recording(p, "read") => recording[p].id \in objects
       /\ Recording(p, "write") =>
            /\ Len(recording[p].rows) <= IndexCap
            /\ recording[p].id \in objects
            /\ \A i \in DOMAIN recording[p].rows :
                 recording[p].rows[i] \in objects /\ recording[p].rows[i] \in Finished \cup {recording[p].id}

\* While no recordings overlap, the index is the latest runs, and what is to be written to it
\* is those with the new one.
IndexLatest ==
  overlapped \/
    /\ \A p, q \in Recorders : ~Recording(p, "rest") /\ ~Recording(q, "rest") => p = q
    /\ index = Latest(completed, IndexCap)
    /\ \A p \in Recorders : Recording(p, "write") =>
         recording[p].rows = Latest(<<recording[p].id>> \o completed, IndexCap)

SandboxInv == SandboxTyped /\ OwnRuns /\ RowsStored /\ IndexLatest

\* The rows a process is about to write are of their own.
LEMMA RecordingShapes ==
  ASSUME NEW r \in RecordingSteps
  PROVE  /\ r.step \in {"rest", "object", "read", "write"}
         /\ r.step # "rest" => r.id \in SandboxIds
         /\ r.step = "write" => r.rows \in Seq(SandboxIds)
  BY DEF RecordingSteps, Resting

LEMMA LatestIs ==
  ASSUME NEW S, NEW s \in Seq(S), NEW n \in Nat
  PROVE  /\ Latest(s, n) \in Seq(S) /\ Len(Latest(s, n)) = IF Len(s) < n THEN Len(s) ELSE n
         /\ \A i \in 1 .. Len(Latest(s, n)) : i \in 1 .. Len(s) /\ Latest(s, n)[i] = s[i]
<1> DEFINE k == IF Len(s) < n THEN Len(s) ELSE n
<1>1. k \in Nat /\ k <= Len(s)
  BY LenProperties
<1>2. \A i \in 1 .. k : s[i] \in S
  BY <1>1, ElementOfSeq
<1>3. /\ SubSeq(s, 1, k) \in Seq(S)
      /\ Len(SubSeq(s, 1, k)) = IF 1 <= k THEN k - 1 + 1 ELSE 0
      /\ \A i \in 1 .. k - 1 + 1 : SubSeq(s, 1, k)[i] = s[1 + i - 1]
  <2> HIDE DEF k
  <2> QED
    BY <1>1, <1>2, SubSeqProperties
<1> QED
  BY <1>1, <1>3, LenProperties DEF Latest

\* Of a sequence with one element in front.
LEMMA PushIs ==
  ASSUME NEW S, NEW s \in Seq(S), NEW e \in S
  PROVE  /\ <<e>> \o s \in Seq(S) /\ Len(<<e>> \o s) = Len(s) + 1 /\ (<<e>> \o s)[1] = e
         /\ \A i \in 2 .. Len(s) + 1 : (<<e>> \o s)[i] = s[i - 1]
<1>1. <<e>> \in Seq(S) /\ Len(<<e>>) = 1 /\ <<e>>[1] = e
  OBVIOUS
<1> QED
  BY <1>1, ConcatProperties, LenProperties

LEMMA NothingWithout ==
  ASSUME NEW S, NEW rows \in Seq(S), NEW n, \A i \in DOMAIN rows : rows[i] # n
  PROVE  Without(rows, n) = rows
<1> DEFINE others == {i \in DOMAIN rows : rows[i] # n}
           place(k) == CHOOSE i \in others : Cardinality(others \cap 1 .. i) = k
<1>1. Len(rows) \in Nat /\ DOMAIN rows = 1 .. Len(rows) /\ rows = [k \in 1 .. Len(rows) |-> rows[k]]
  BY LenProperties
<1>2. others = 1 .. Len(rows)
  BY <1>1
<1>3. \A i \in 1 .. Len(rows) : others \cap 1 .. i = 1 .. i /\ Cardinality(1 .. i) = i
  BY <1>1, <1>2, FS_Interval
<1>4. Cardinality(others) = Len(rows)
  <2> HIDE DEF others
  <2>1. Cardinality(1 .. Len(rows)) = IF 1 > Len(rows) THEN 0 ELSE Len(rows) - 1 + 1
    BY LenProperties, FS_Interval
  <2> QED
    BY <1>1, <1>2, <2>1
<1>5. ASSUME NEW k \in 1 .. Len(rows) PROVE place(k) = k
  <2>1. \A i \in others : Cardinality(others \cap 1 .. i) = i
    BY <1>2, <1>3
  <2>2. k \in others
    BY <1>2
  <2> HIDE DEF others
  <2> QED
    BY <2>1, <2>2
<1>6. Without(rows, n) = [k \in 1 .. Cardinality(others) |-> rows[place(k)]]
  BY DEF Without
<1> HIDE DEF others, place
<1> QED
  BY <1>1, <1>4, <1>5, <1>6

\* The latest of the latest are the latest.
LEMMA LatestAgain ==
  ASSUME NEW S, NEW s \in Seq(S), NEW e \in S, NEW n \in Nat
  PROVE  Latest(<<e>> \o Latest(s, n), n) = Latest(<<e>> \o s, n)
<1> DEFINE t == Latest(s, n)
           a == <<e>> \o t
           b == <<e>> \o s
<1>1. Len(s) \in Nat
  BY LenProperties
<1>2. t \in Seq(S) /\ Len(t) = (IF Len(s) < n THEN Len(s) ELSE n) /\ \A i \in 1 .. Len(t) : t[i] = s[i]
  BY LatestIs
<1> HIDE DEF t
<1>3. a \in Seq(S) /\ Len(a) = Len(t) + 1 /\ a[1] = e /\ \A i \in 2 .. Len(t) + 1 : a[i] = t[i - 1]
  BY <1>2, PushIs
<1>4. b \in Seq(S) /\ Len(b) = Len(s) + 1 /\ b[1] = e /\ \A i \in 2 .. Len(s) + 1 : b[i] = s[i - 1]
  BY PushIs
<1> HIDE DEF a, b
<1>5. /\ Latest(a, n) \in Seq(S) /\ Len(Latest(a, n)) = (IF Len(a) < n THEN Len(a) ELSE n)
      /\ \A i \in 1 .. Len(Latest(a, n)) : Latest(a, n)[i] = a[i]
  BY <1>3, LatestIs
<1>6. /\ Latest(b, n) \in Seq(S) /\ Len(Latest(b, n)) = (IF Len(b) < n THEN Len(b) ELSE n)
      /\ \A i \in 1 .. Len(Latest(b, n)) : Latest(b, n)[i] = b[i]
  BY <1>4, LatestIs
<1>7. Len(Latest(a, n)) = Len(Latest(b, n))
  BY <1>1, <1>2, <1>3, <1>4, <1>5, <1>6
<1>8. \A i \in 1 .. Len(Latest(a, n)) : a[i] = b[i]
  <2> TAKE i \in 1 .. Len(Latest(a, n))
  <2>1. CASE i = 1
    BY <2>1, <1>3, <1>4
  <2>2. CASE i # 1
    <3>1. i \in 2 .. Len(t) + 1 /\ i \in 2 .. Len(s) + 1 /\ i - 1 \in 1 .. Len(t)
      BY <2>2, <1>1, <1>2, <1>3, <1>4, <1>5
    <3> QED
      BY <3>1, <1>2, <1>3, <1>4
  <2> QED
    BY <2>1, <2>2
<1>9. Latest(a, n) = Latest(b, n)
  BY <1>5, <1>6, <1>7, <1>8, SeqEqual
<1> QED
  BY <1>9 DEF a, b, t

LEMMA NoRows ==
  \E none \in Seq(SandboxIds) : none = <<>> /\ Len(none) = 0 /\ DOMAIN none = {}
<1>1. <<>> \in Seq(SandboxIds) /\ Len(<<>>) = 0
  BY EmptySeq
<1>2. DOMAIN <<>> = 1 .. 0
  BY <1>1, LenProperties
<1>3. DOMAIN <<>> = {}
  BY <1>2
<1> WITNESS <<>> \in Seq(SandboxIds)
<1> QED
  BY <1>1, <1>3

LEMMA RecordGoes ==
  ASSUME NEW p \in Recorders, NEW next \in RecordingSteps, recording \in [Recorders -> RecordingSteps],
         Records(p, next)
  PROVE  /\ recording' \in [Recorders -> RecordingSteps] /\ recording'[p] = next
         /\ \A q \in Recorders \ {p} : recording'[q] = recording[q]
  BY DEF Records

LEMMA SandboxStarts == SandboxInit => SandboxInv
<1> SUFFICES ASSUME SandboxInit PROVE SandboxInv
  OBVIOUS
<1>1. Resting \in RecordingSteps /\ Resting.step = "rest"
  BY DEF Resting, RecordingSteps
<1>2. recording \in [Recorders -> RecordingSteps] /\ \A p \in Recorders : recording[p].step = "rest"
  BY <1>1 DEF SandboxInit
<1>3. \A p \in Recorders : Recording(p, "rest") /\ ~Recording(p, "read") /\ ~Recording(p, "write")
  BY <1>2 DEF Recording
<1>4. PICK none \in Seq(SandboxIds) : none = <<>> /\ Len(none) = 0 /\ DOMAIN none = {}
  BY NoRows
<1>5. SandboxTyped
  <2>1. index = none /\ completed = none /\ recent = [p \in Recorders |-> none]
    BY <1>4 DEF SandboxInit
  <2>2. objects = {} /\ overlapped = FALSE
    BY DEF SandboxInit
  <2>3. recent \in [Recorders -> Seq(SandboxIds)] /\ \A p \in Recorders : recent[p] = none
    BY <2>1
  <2>4. 0 <= IndexCap /\ 0 <= MemoryCap
    BY SandboxAssumption
  <2> QED
    BY <1>2, <1>4, <2>1, <2>2, <2>3, <2>4 DEF SandboxTyped
<1>6. Latest(none, IndexCap) = none
  <2>0. IndexCap \in Nat
    BY SandboxAssumption
  <2>1. /\ Latest(none, IndexCap) \in Seq(SandboxIds)
        /\ Len(Latest(none, IndexCap)) = IF Len(none) < IndexCap THEN Len(none) ELSE IndexCap
    BY <2>0, LatestIs
  <2> DEFINE t == Latest(none, IndexCap)
  <2>2. t \in Seq(SandboxIds) /\ Len(t) = Len(none) /\ \A i \in 1 .. Len(t) : t[i] = none[i]
    BY <1>4, <2>0, <2>1
  <2> HIDE DEF t
  <2>3. t = none
    BY <2>2, SeqEqual
  <2> QED
    BY <2>3 DEF t
<1>7. index = none /\ completed = none
  BY <1>4 DEF SandboxInit
<1>8. OwnRuns /\ RowsStored /\ IndexLatest
  BY <1>3, <1>4, <1>6, <1>7 DEF OwnRuns, RowsStored, IndexLatest
<1> QED
  BY <1>5, <1>8 DEF SandboxInv

\* What a new recording finds: its run is in nobody's memory, has no object and is not complete.
LEMMA RecordRunGoes ==
  ASSUME SandboxInv, NEW p \in Recorders, RecordRun(p)
  PROVE  SandboxInv'
<1> USE DEF SandboxInv, SandboxTyped
<1>1. PICK n \in SandboxIds :
        /\ \A q \in Recorders : ~Contains(completed, n) /\ n \notin objects /\ ~Contains(recent[q], n)
        /\ recent' = [recent EXCEPT ![p] = Latest(<<n>> \o recent[p], MemoryCap)]
        /\ Records(p, [step |-> "object", id |-> n])
  <2>1. \A n \in SandboxIds : n >= n
    BY SandboxAssumption
  <2> QED
    BY <2>1 DEF RecordRun
<1> DEFINE next == [step |-> "object", id |-> n]
<1>2. next \in RecordingSteps /\ next.step = "object" /\ next.id = n
  BY DEF RecordingSteps
<1>3. /\ recording' \in [Recorders -> RecordingSteps] /\ recording'[p] = next
      /\ \A q \in Recorders \ {p} : recording'[q] = recording[q]
  BY <1>1, <1>2, RecordGoes
<1>4. recording[p].step = "rest" /\ UNCHANGED <<objects, index, completed>>
  BY DEF RecordRun, Recording
<1>5. Latest(<<n>> \o recent[p], MemoryCap) \in Seq(SandboxIds)
      /\ Len(Latest(<<n>> \o recent[p], MemoryCap)) <= MemoryCap
      /\ Contains(Latest(<<n>> \o recent[p], MemoryCap), n)
  <2> DEFINE s == <<n>> \o recent[p]
  <2>1. s \in Seq(SandboxIds) /\ Len(s) = Len(recent[p]) + 1 /\ s[1] = n /\ Len(recent[p]) \in Nat
    BY PushIs, LenProperties
  <2> HIDE DEF s
  <2>2. /\ Latest(s, MemoryCap) \in Seq(SandboxIds)
        /\ Len(Latest(s, MemoryCap)) = (IF Len(s) < MemoryCap THEN Len(s) ELSE MemoryCap)
        /\ \A i \in 1 .. Len(Latest(s, MemoryCap)) : Latest(s, MemoryCap)[i] = s[i]
    BY <2>1, LatestIs, SandboxAssumption
  <2>3. 1 \in 1 .. Len(Latest(s, MemoryCap)) /\ Len(Latest(s, MemoryCap)) <= MemoryCap
    BY <2>1, <2>2, SandboxAssumption
  <2>4. Contains(Latest(s, MemoryCap), n)
    BY <2>1, <2>2, <2>3 DEF Contains
  <2> QED
    BY <2>2, <2>3, <2>4 DEF s
<1>6. /\ recent' \in [Recorders -> Seq(SandboxIds)] /\ Contains(recent'[p], n)
      /\ \A q \in Recorders \ {p} : recent'[q] = recent[q]
      /\ \A q \in Recorders : Len(recent'[q]) <= MemoryCap
  BY <1>1, <1>5
<1>7. SandboxTyped'
  BY <1>3, <1>4, <1>6 DEF RecordRun
<1>8. Finished' = Finished /\ n \notin Finished
  BY <1>1, <1>4 DEF Finished
<1>9. OwnRuns'
  <2> SUFFICES ASSUME NEW q \in Recorders, recording'[q].step # "rest"
               PROVE  /\ recording'[q].id \notin Finished /\ Contains(recent'[q], recording'[q].id)
                      /\ \A r \in Recorders :
                           recording'[r].step # "rest" /\ recording'[r].id = recording'[q].id => r = q
    BY <1>8 DEF OwnRuns, Recording
  <2>1. \A r \in Recorders \ {p} : recording'[r].step # "rest" =>
          recording'[r].id # n /\ recording'[r].id \notin Finished /\ Contains(recent'[r], recording'[r].id)
    <3> SUFFICES ASSUME NEW r \in Recorders \ {p}, recording[r].step # "rest"
                 PROVE  recording[r].id # n /\ recording[r].id \notin Finished
                        /\ Contains(recent[r], recording[r].id)
      BY <1>3, <1>6
    <3>1. recording[r].id \notin Finished /\ Contains(recent[r], recording[r].id)
      BY DEF OwnRuns, Recording
    <3>2. ~Contains(recent[r], n)
      BY <1>1
    <3> QED
      BY <3>1, <3>2
  <2>2. CASE q = p
    BY <2>1, <2>2, <1>2, <1>3, <1>6, <1>8
  <2>3. CASE q # p
    <3>1. \A r \in Recorders \ {p} :
            recording'[r].step # "rest" /\ recording'[r].id = recording'[q].id => r = q
      BY <2>3, <1>3 DEF OwnRuns, Recording
    <3>2. recording'[p].id # recording'[q].id
      BY <2>1, <2>3, <1>2, <1>3
    <3> QED
      BY <2>1, <2>3, <3>1, <3>2
  <2> QED
    BY <2>2, <2>3
<1>10. RowsStored'
  BY <1>2, <1>3, <1>4, <1>8 DEF RowsStored, Recording
<1>11. IndexLatest'
  <2> SUFFICES ASSUME ~overlapped' PROVE IndexLatest'
    BY DEF IndexLatest
  <2>1. ~overlapped /\ \A q \in Recorders : recording[q].step = "rest"
    BY DEF RecordRun, Recording
  <2> QED
    BY <2>1, <1>2, <1>3, <1>4 DEF IndexLatest, Recording
<1> QED
  BY <1>7, <1>9, <1>10, <1>11

\* A step within a recording, of its own run.
LEMMA OwnRunsHold ==
  ASSUME SandboxInv, NEW p \in Recorders, ~Recording(p, "rest"), UNCHANGED <<recent, completed>>,
         recording'[p].step = "rest" \/ recording'[p].id = recording[p].id,
         \A q \in Recorders \ {p} : recording'[q] = recording[q]
  PROVE  OwnRuns'
<1>1. Finished' = Finished
  BY DEF Finished
<1>2. \A q \in Recorders : recording'[q].step # "rest" =>
        recording'[q].id = recording[q].id /\ recording[q].step # "rest"
  BY DEF Recording
<1> QED
  BY <1>1, <1>2 DEF SandboxInv, OwnRuns, Recording

LEMMA PutRunGoes ==
  ASSUME SandboxInv, NEW p \in Recorders, PutRun(p)
  PROVE  SandboxInv'
<1> USE DEF SandboxInv, SandboxTyped
<1> DEFINE next == [step |-> "read", id |-> recording[p].id]
<1>1. recording[p].step = "object" /\ recording[p].id \in SandboxIds
  BY RecordingShapes DEF PutRun, Recording
<1>2. next \in RecordingSteps /\ next.step = "read" /\ next.id = recording[p].id
  BY <1>1 DEF RecordingSteps
<1>3. /\ recording' \in [Recorders -> RecordingSteps] /\ recording'[p] = next
      /\ \A q \in Recorders \ {p} : recording'[q] = recording[q]
  BY <1>2, RecordGoes DEF PutRun
<1>4. objects' = objects \cup {recording[p].id} /\ UNCHANGED <<index, recent, completed, overlapped>>
  BY DEF PutRun
<1>5. SandboxTyped'
  BY <1>1, <1>3, <1>4
<1>6. OwnRuns'
  BY <1>1, <1>2, <1>3, <1>4, OwnRunsHold DEF Recording
<1>7. RowsStored'
  <2>1. Finished' = Finished
    BY <1>4 DEF Finished
  <2> QED
    BY <2>1, <1>2, <1>3, <1>4 DEF RowsStored, Recording
<1>8. IndexLatest'
  BY <1>1, <1>2, <1>3, <1>4 DEF IndexLatest, Recording
<1> QED
  BY <1>5, <1>6, <1>7, <1>8

LEMMA ReadIndexGoes ==
  ASSUME SandboxInv, NEW p \in Recorders, ReadIndex(p)
  PROVE  SandboxInv'
<1> USE DEF SandboxInv, SandboxTyped
<1> DEFINE n == recording[p].id
           all == <<n>> \o index
           rows == Latest(all, IndexCap)
           next == [step |-> "write", id |-> n, rows |-> rows]
<1>1. recording[p].step = "read" /\ n \in SandboxIds /\ n \in objects /\ n \notin Finished
  BY RecordingShapes DEF ReadIndex, Recording, RowsStored, OwnRuns
<1>2. Without(index, n) = index
  BY <1>1, NothingWithout DEF RowsStored
<1>3. Len(index) \in Nat /\ DOMAIN index = 1 .. Len(index)
  BY LenProperties
<1>4. /\ all \in Seq(SandboxIds) /\ Len(all) = Len(index) + 1 /\ all[1] = n
      /\ \A i \in 2 .. Len(index) + 1 : all[i] = index[i - 1]
  BY <1>1, PushIs
<1> HIDE DEF all
<1>5. /\ rows \in Seq(SandboxIds) /\ Len(rows) = (IF Len(all) < IndexCap THEN Len(all) ELSE IndexCap)
      /\ \A i \in 1 .. Len(rows) : i \in 1 .. Len(all) /\ rows[i] = all[i]
  BY <1>4, LatestIs, SandboxAssumption
<1> HIDE DEF rows
<1>6. Len(rows) <= IndexCap /\ DOMAIN rows = 1 .. Len(rows)
  BY <1>3, <1>4, <1>5, LenProperties, SandboxAssumption
<1>7. \A i \in DOMAIN rows : rows[i] \in objects /\ rows[i] \in Finished \cup {n}
  <2> SUFFICES ASSUME NEW i \in DOMAIN rows
               PROVE  rows[i] \in objects /\ rows[i] \in Finished \cup {n}
    OBVIOUS
  <2>1. i \in 1 .. Len(index) + 1 /\ rows[i] = all[i]
    BY <1>4, <1>5, <1>6
  <2>2. CASE i = 1
    BY <2>1, <2>2, <1>1, <1>4
  <2>3. CASE i # 1
    <3>1. i \in 2 .. Len(index) + 1 /\ i - 1 \in DOMAIN index
      BY <2>1, <2>3, <1>3
    <3> QED
      BY <2>1, <3>1, <1>4 DEF RowsStored
  <2> QED
    BY <2>2, <2>3
<1>8. next \in RecordingSteps /\ next.step = "write" /\ next.id = n /\ next.rows = rows
  BY <1>1, <1>5 DEF RecordingSteps
<1>9. Records(p, next)
  BY <1>2 DEF ReadIndex, all, rows
<1>10. /\ recording' \in [Recorders -> RecordingSteps] /\ recording'[p] = next
       /\ \A q \in Recorders \ {p} : recording'[q] = recording[q]
  BY <1>8, <1>9, RecordGoes
<1>11. UNCHANGED <<objects, index, recent, completed, overlapped>>
  BY DEF ReadIndex
<1>12. SandboxTyped'
  BY <1>10, <1>11
<1>13. OwnRuns'
  BY <1>1, <1>8, <1>10, <1>11, OwnRunsHold DEF Recording
<1>14. Finished' = Finished
  BY <1>11 DEF Finished
<1>15. RowsStored'
  <2>1. \A q \in Recorders \ {p} :
          /\ Recording(q, "read")' => (recording[q].id)' \in objects'
          /\ Recording(q, "write")' =>
               /\ Len(recording[q].rows)' <= IndexCap
               /\ (recording[q].id)' \in objects'
               /\ \A i \in DOMAIN (recording[q].rows)' :
                    recording'[q].rows[i] \in objects'
                    /\ recording'[q].rows[i] \in Finished' \cup {recording'[q].id}
    BY <1>10, <1>11, <1>14 DEF RowsStored, Recording
  <2>2. /\ ~Recording(p, "read")'
        /\ Len(recording[p].rows)' <= IndexCap /\ (recording[p].id)' \in objects'
        /\ \A i \in DOMAIN (recording[p].rows)' :
             recording'[p].rows[i] \in objects'
             /\ recording'[p].rows[i] \in Finished' \cup {recording'[p].id}
    BY <1>1, <1>6, <1>7, <1>8, <1>10, <1>11, <1>14 DEF Recording
  <2>3. \A i \in DOMAIN index' : index'[i] \in objects' \cap Finished'
    BY <1>11, <1>14 DEF RowsStored
  <2> QED
    BY <2>1, <2>2, <2>3 DEF RowsStored
<1>16. IndexLatest'
  <2> SUFFICES ASSUME ~overlapped' PROVE IndexLatest'
    BY DEF IndexLatest
  <2>1. /\ \A q \in Recorders : recording[q].step # "rest" => q = p
        /\ index = Latest(completed, IndexCap)
    BY <1>1, <1>11 DEF IndexLatest, Recording
  <2>2. rows = Latest(<<n>> \o completed, IndexCap)
    BY <2>1, <1>1, LatestAgain, SandboxAssumption DEF rows, all
  <2>3. \A q \in Recorders \ {p} : recording'[q].step = "rest"
    BY <2>1, <1>10
  <2>4. recording'[p].step = "write" /\ recording'[p].rows = Latest(<<recording'[p].id>> \o completed', IndexCap)
    BY <2>2, <1>8, <1>10, <1>11
  <2>5. index' = Latest(completed', IndexCap)
    BY <2>1, <1>11
  <2> HIDE DEF rows, next, n
  <2> QED
    BY <2>3, <2>4, <2>5 DEF IndexLatest, Recording
<1> QED
  BY <1>12, <1>13, <1>15, <1>16

LEMMA PutIndexGoes ==
  ASSUME SandboxInv, NEW p \in Recorders, PutIndex(p)
  PROVE  SandboxInv'
<1> USE DEF SandboxInv, SandboxTyped
<1> DEFINE n == recording[p].id
<1>1. recording[p].step = "write" /\ n \in SandboxIds /\ recording[p].rows \in Seq(SandboxIds)
  BY RecordingShapes DEF PutIndex, Recording
<1>2. /\ index' = recording[p].rows /\ completed' = <<n>> \o completed
      /\ UNCHANGED <<objects, recent, overlapped>>
  BY DEF PutIndex
<1>3. Resting \in RecordingSteps /\ Resting.step = "rest"
  BY DEF Resting, RecordingSteps
<1>4. /\ recording' \in [Recorders -> RecordingSteps] /\ recording'[p] = Resting
      /\ \A q \in Recorders \ {p} : recording'[q] = recording[q]
  BY <1>3, RecordGoes DEF PutIndex
<1>5. /\ completed' \in Seq(SandboxIds) /\ Len(completed') = Len(completed) + 1 /\ completed'[1] = n
      /\ \A i \in 2 .. Len(completed) + 1 : completed'[i] = completed[i - 1]
      /\ Len(completed) \in Nat
  BY <1>1, <1>2, PushIs, LenProperties
<1>6. Finished' = Finished \cup {n}
  <2>1. \A m \in SandboxIds : Contains(completed, m) => Contains(completed', m)
    <3> SUFFICES ASSUME NEW m \in SandboxIds, NEW i \in 1 .. Len(completed), completed[i] = m
                 PROVE  \E j \in 1 .. Len(completed') : completed'[j] = m
      BY DEF Contains
    <3>1. i + 1 \in 2 .. Len(completed) + 1 /\ (i + 1) - 1 = i /\ i + 1 \in 1 .. Len(completed')
      BY <1>5
    <3>2. completed'[i + 1] = completed[(i + 1) - 1]
      BY <3>1, <1>5
    <3>3. completed'[i + 1] = m
      BY <3>1, <3>2
    <3> QED
      BY <3>1, <3>3
  <2>2. \A m \in SandboxIds : Contains(completed', m) => m = n \/ Contains(completed, m)
    <3> SUFFICES ASSUME NEW m \in SandboxIds, NEW i \in 1 .. Len(completed'), completed'[i] = m, m # n
                 PROVE  \E j \in 1 .. Len(completed) : completed[j] = m
      BY DEF Contains
    <3>1. i \in 2 .. Len(completed) + 1 /\ i - 1 \in 1 .. Len(completed)
      BY <1>5
    <3> QED
      BY <3>1, <1>5
  <2>3. Contains(completed', n)
    BY <1>5 DEF Contains
  <2> QED
    BY <2>1, <2>2, <2>3, <1>1 DEF Finished
<1>7. SandboxTyped'
  BY <1>1, <1>2, <1>4, <1>5 DEF RowsStored, Recording
<1>8. OwnRuns'
  <2> SUFFICES ASSUME NEW q \in Recorders, recording'[q].step # "rest"
               PROVE  /\ recording'[q].id \notin Finished' /\ Contains(recent'[q], recording'[q].id)
                      /\ \A r \in Recorders :
                           recording'[r].step # "rest" /\ recording'[r].id = recording'[q].id => r = q
    BY DEF OwnRuns, Recording
  <2>1. q # p /\ recording'[q] = recording[q] /\ recording[q].step # "rest"
    BY <1>3, <1>4
  <2>2. recording[q].id # n /\ recording[q].id \notin Finished /\ Contains(recent[q], recording[q].id)
    BY <2>1, <1>1 DEF OwnRuns, Recording
  <2>3. \A r \in Recorders : recording'[r].step # "rest" =>
          recording'[r] = recording[r] /\ recording[r].step # "rest"
    BY <1>3, <1>4
  <2> QED
    BY <2>1, <2>2, <2>3, <1>2, <1>6 DEF OwnRuns, Recording
<1>9. RowsStored'
  <2>1. \A i \in DOMAIN recording[p].rows :
          recording[p].rows[i] \in objects /\ recording[p].rows[i] \in Finished \cup {n}
    BY <1>1 DEF RowsStored, Recording
  <2>2. \A q \in Recorders : recording'[q].step # "rest" => q # p /\ recording'[q] = recording[q]
    BY <1>3, <1>4
  <2>3. \A q \in Recorders :
          /\ Recording(q, "read")' => (recording[q].id)' \in objects'
          /\ Recording(q, "write")' =>
               /\ Len(recording[q].rows)' <= IndexCap
               /\ (recording[q].id)' \in objects'
               /\ \A i \in DOMAIN (recording[q].rows)' :
                    recording'[q].rows[i] \in objects'
                    /\ recording'[q].rows[i] \in Finished' \cup {recording'[q].id}
    BY <2>2, <1>2, <1>6 DEF RowsStored, Recording
  <2> QED
    BY <2>1, <2>3, <1>2, <1>6 DEF RowsStored
<1>10. IndexLatest'
  <2> SUFFICES ASSUME ~overlapped' PROVE IndexLatest'
    BY DEF IndexLatest
  <2>1. /\ \A q \in Recorders : recording[q].step # "rest" => q = p
        /\ recording[p].rows = Latest(<<n>> \o completed, IndexCap)
    BY <1>1, <1>2 DEF IndexLatest, Recording
  <2> QED
    BY <2>1, <1>2, <1>3, <1>4 DEF IndexLatest, Recording
<1> QED
  BY <1>7, <1>8, <1>9, <1>10

LEMMA RecorderFailsGoes ==
  ASSUME SandboxInv, NEW p \in Recorders, RecorderFails(p)
  PROVE  SandboxInv'
<1> USE DEF SandboxInv, SandboxTyped
<1>1. /\ UNCHANGED <<objects, index, completed>> /\ overlapped' = TRUE
      /\ recent' \in {recent, [recent EXCEPT ![p] = <<>>]}
  BY DEF RecorderFails
<1>2. Resting \in RecordingSteps /\ Resting.step = "rest"
  BY DEF Resting, RecordingSteps
<1>3. /\ recording' \in [Recorders -> RecordingSteps] /\ recording'[p] = Resting
      /\ \A q \in Recorders \ {p} : recording'[q] = recording[q]
  BY <1>2, RecordGoes DEF RecorderFails
<1>4. PICK none \in Seq(SandboxIds) : none = <<>> /\ Len(none) = 0
  BY NoRows
<1>5. /\ recent' \in [Recorders -> Seq(SandboxIds)] /\ \A q \in Recorders \ {p} : recent'[q] = recent[q]
      /\ \A q \in Recorders : Len(recent'[q]) <= MemoryCap
  <2>1. recent' = recent \/ recent' = [recent EXCEPT ![p] = none]
    BY <1>1, <1>4
  <2>2. \A q \in Recorders : recent'[q] = recent[q] \/ (q = p /\ recent'[q] = none)
    BY <2>1
  <2>3. recent' \in [Recorders -> Seq(SandboxIds)]
    BY <2>1
  <2>4. 0 <= MemoryCap
    BY SandboxAssumption
  <2> QED
    BY <2>2, <2>3, <2>4, <1>4
<1>6. SandboxTyped'
  BY <1>1, <1>3, <1>5
<1>7. Finished' = Finished
  BY <1>1 DEF Finished
<1>8. \A q \in Recorders : recording'[q].step # "rest" =>
        q # p /\ recording'[q] = recording[q] /\ recent'[q] = recent[q]
  BY <1>2, <1>3, <1>5
<1>9. OwnRuns'
  BY <1>7, <1>8 DEF OwnRuns, Recording
<1>10. RowsStored'
  BY <1>1, <1>7, <1>8 DEF RowsStored, Recording
<1>11. IndexLatest'
  BY <1>1 DEF IndexLatest
<1> QED
  BY <1>6, <1>9, <1>10, <1>11

LEMMA SandboxSteps == SandboxInv /\ [SandboxNext]_sandboxVars => SandboxInv'
<1> SUFFICES ASSUME SandboxInv, [SandboxNext]_sandboxVars PROVE SandboxInv'
  OBVIOUS
<1>1. CASE UNCHANGED sandboxVars
  BY <1>1 DEF sandboxVars, SandboxInv, SandboxTyped, OwnRuns, RowsStored, IndexLatest, Finished, Recording
<1>2. CASE SandboxNext
  BY <1>2, RecordRunGoes, PutRunGoes, ReadIndexGoes, PutIndexGoes, RecorderFailsGoes DEF SandboxNext
<1> QED
  BY <1>1, <1>2

\* For any number of processes that record: every run that any of them lists loads there, and
\* without overlaps the index is the latest runs, as _record_run, list_runs and get_run promise.
THEOREM RunsAreListed == SandboxSpec => [](SandboxTypeOK /\ ListedRunsLoad)
<1>1. SandboxInv => SandboxTypeOK /\ ListedRunsLoad
  <2> SUFFICES ASSUME SandboxInv PROVE SandboxTypeOK /\ ListedRunsLoad
    OBVIOUS
  <2> USE DEF SandboxInv, SandboxTyped
  <2>1. \A s \in Seq(SandboxIds) : ToSet(s) \subseteq SandboxIds
    BY LenProperties, ElementOfSeq DEF ToSet
  <2>2. SandboxTypeOK
    BY <2>1 DEF SandboxTypeOK
  <2>3. \A p \in Recorders : \A n \in ToSet(ListRuns(p)) : n \in objects \/ Contains(recent[p], n)
    <3> SUFFICES ASSUME NEW p \in Recorders, NEW i \in DOMAIN ListRuns(p)
                 PROVE  ListRuns(p)[i] \in objects \/ Contains(recent[p], ListRuns(p)[i])
      BY DEF ToSet
    <3>1. CASE index # <<>>
      BY <3>1 DEF ListRuns, RowsStored
    <3>2. CASE index = <<>>
      <4>1. ListRuns(p) = recent[p] /\ DOMAIN recent[p] = 1 .. Len(recent[p])
        BY <3>2, LenProperties DEF ListRuns
      <4> QED
        BY <4>1 DEF Contains
    <3> QED
      BY <3>1, <3>2
  <2>4. ListedRunsLoad
    BY <2>3 DEF ListedRunsLoad, GetRun, IndexLatest
  <2> QED
    BY <2>2, <2>4
<1> QED
  BY <1>1, SandboxStarts, SandboxSteps, PTL DEF SandboxSpec

-----------------------------------------------------------------------------
\* The research gate.

CardVerdicts == {"N/A", "PASS", "WARN", "FAIL"}

\* A stage passes when every indicator does, and says nothing when none is measured.
LEMMA VerdictsSay ==
  ASSUME NEW card, NEW values
  PROVE  /\ CardVerdict(card, values) \in CardVerdicts
         /\ CardVerdict(card, values) = "PASS" => Range(Statuses(card, values)) = {"pass"}
         /\ CardVerdict(card, values) = "N/A" => Range(Statuses(card, values)) = {"na"}
  BY DEF CardVerdict, CardVerdicts

LEMMA MissingFails ==
  ASSUME NEW card, NEW values, NEW i \in DOMAIN card, values[card[i].id] = NA
  PROVE  CardVerdict(card, values) # "PASS"
<1>1. Statuses(card, values)[i] = "na" /\ i \in DOMAIN Statuses(card, values)
  BY DEF Statuses, EvalKpi
<1>2. "na" \in Range(Statuses(card, values))
  BY <1>1 DEF Range
<1> QED
  BY <1>2, VerdictsSay

LEMMA MeasuredCounts ==
  ASSUME NEW card, NEW values, NEW i \in DOMAIN card, values[card[i].id] # NA
  PROVE  CardVerdict(card, values) # "N/A"
<1>1. Statuses(card, values)[i] # "na" /\ i \in DOMAIN Statuses(card, values)
  BY DEF Statuses, EvalKpi
<1>2. Statuses(card, values)[i] \in Range(Statuses(card, values))
  BY <1>1 DEF Range
<1> QED
  BY <1>1, <1>2, VerdictsSay

\* The worst of two verdicts is PASS only if both are, or N/A.
LEMMA WorstPasses ==
  ASSUME NEW a \in CardVerdicts, NEW b \in CardVerdicts, Worst({a, b}) = "PASS"
  PROVE  {a, b} \subseteq {"PASS", "N/A"}
<1>1. \A v \in CardVerdicts : Severity[v] = IF v = "N/A" THEN 0 ELSE IF v = "PASS" THEN 1
                                         ELSE IF v = "WARN" THEN 2 ELSE 3
  BY DEF Severity, CardVerdicts
<1>2. \E v \in {a, b} : \A w \in {a, b} : Severity[w] <= Severity[v]
  BY <1>1 DEF CardVerdicts
<1>3. Worst({a, b}) \in {a, b} /\ \A w \in {a, b} : Severity[w] <= Severity[Worst({a, b})]
  BY <1>2 DEF Worst
<1> QED
  BY <1>1, <1>3 DEF CardVerdicts

LEMMA StagesHave ==
  /\ {1, 6, 7, 11} \subseteq DOMAIN PerformanceStage
  /\ PerformanceStage[1].id = "sharpe" /\ PerformanceStage[6].id = "ntrades"
  /\ PerformanceStage[7].id = "worstmo" /\ PerformanceStage[11].id = "coststress"
  /\ {1, 5, 8} \subseteq DOMAIN RobustnessStage
  /\ RobustnessStage[1].id = "oosis" /\ RobustnessStage[5].id = "paramsens"
  /\ RobustnessStage[8].id = "triallog"
  BY DEF PerformanceStage, RobustnessStage, Kpi

LEMMA IdsHave ==
  {"sharpe", "ntrades", "worstmo", "coststress", "oosis", "paramsens", "triallog"} \subseteq KpiIds
<1>1. \A i \in DOMAIN PerformanceStage : PerformanceStage[i].id \in KpiIds
  BY DEF KpiIds, Range
<1>2. \A i \in DOMAIN RobustnessStage : RobustnessStage[i].id \in KpiIds
  BY DEF KpiIds, Range
<1> QED
  BY <1>1, <1>2, StagesHave

\* A folder as the scorecard finds it.
LEMMA ValuesOf ==
  ASSUME NEW folder
  PROVE  /\ Values(folder)["triallog"] # NA
         /\ folder.kpi = NA =>
              /\ kind = "regime_filter" => Values(folder)["ntrades"] = NA
              /\ Values(folder)["oosis"] = folder.metrics.figures["oosis"]
              /\ Values(folder)["worstmo"] = folder.metrics.figures["worstmo"]
              /\ folder.tuning = NA =>
                   Values(folder)["coststress"] = NA /\ Values(folder)["paramsens"] = NA
         /\ folder.kpi # NA /\ "sharpe" \in DOMAIN folder.kpi[1] /\ folder.kpi[1]["sharpe"] # NA =>
              Values(folder)["sharpe"] # NA
<1> DEFINE own == Own(folder)
           tuned == Tuned(own, folder.tuning)
           filtered == RegimeFilter(tuned)
           ids == {"sharpe", "ntrades", "worstmo", "coststress", "oosis", "paramsens", "triallog"}
<1>1. /\ DOMAIN own = KpiIds /\ own["triallog"] = <<TRUE>>
      /\ own["oosis"] = folder.metrics.figures["oosis"] /\ own["worstmo"] = folder.metrics.figures["worstmo"]
      /\ own["coststress"] = NA /\ own["paramsens"] = NA
  BY IdsHave DEF Own, OwnFigures
<1> HIDE DEF own
<1>2. /\ DOMAIN tuned = KpiIds
      /\ \A id \in KpiIds \ {"coststress", "paramsens", "pbo", "wfe", "dsr"} : tuned[id] = own[id]
      /\ folder.tuning = NA => tuned = own
  BY <1>1 DEF Tuned
<1> HIDE DEF tuned
<1>3. /\ DOMAIN filtered = KpiIds
      /\ \A id \in KpiIds \ {"ntrades", "pf", "payoff", "expect"} : filtered[id] = tuned[id]
      /\ kind = "regime_filter" => filtered["ntrades"] = NA
  BY <1>2, IdsHave DEF RegimeFilter
<1> HIDE DEF filtered
<1>4. /\ Values(folder) = Exported(filtered, folder.kpi)
      /\ \A id \in KpiIds : filtered[id] # NA => Values(folder)[id] # NA
      /\ folder.kpi = NA => Values(folder) = filtered
      /\ \A id \in KpiIds : folder.kpi # NA /\ id \in DOMAIN folder.kpi[1] /\ folder.kpi[1][id] # NA =>
           Values(folder)[id] # NA
  <2>1. Values(folder) = Exported(filtered, folder.kpi)
    BY DEF Values, filtered, tuned, own
  <2> QED
    BY <2>1, <1>3 DEF Exported
<1>5. <<TRUE>> # NA
  BY DEF NA
<1> QED
  BY <1>1, <1>2, <1>3, <1>4, <1>5, IdsHave

-----------------------------------------------------------------------------
GatePoints == UNION {GridPoints(g) : g \in Grids}

\* A run that succeeded.
RunRecorded(run) ==
  /\ run.figures["oosis"] # NA => run.figures["worstmo"] # NA
  /\ "sharpe" \in DOMAIN run.exported /\ run.exported["sharpe"] # NA
  /\ run.overlay # NA => run.overlay[1].base \in Int /\ run.overlay[1].meta \in Int

\* What a folder holds, for a sleeve of this kind and what its tunings have tried.
FolderSound(folder, tried, k) ==
  /\ DOMAIN folder = {"metrics", "trades", "tuning", "log", "kpi"}
  /\ folder.log = tried
  /\ folder.metrics # NA => RunRecorded(folder.metrics[1])
  /\ folder.tuning # NA =>
       k # "overlay" /\ folder.tuning[1].trials = Cardinality(folder.tuning[1].seen)
  /\ folder.kpi # NA =>
       k = "overlay" /\ "sharpe" \in DOMAIN folder.kpi[1] /\ folder.kpi[1]["sharpe"] # NA

GateInv ==
  /\ GateTypeOK
  /\ DOMAIN catalog = {"args", "grid"}
  /\ DOMAIN searched = DOMAIN folders /\ DOMAIN cards = DOMAIN folders
  /\ \A f \in DOMAIN folders : FolderSound(folders[f], searched[f], kind)
  /\ PassIsEarned

LEMMA TrialsRecorded ==
  ASSUME NEW d \in DataSets, NEW g \in Grids, NEW p \in GridPoints(g), Backtests[d][p].ok
  PROVE  RunRecorded(Backtests[d][p])
<1>1. p \in UNION {GridPoints(h) : h \in Grids}
  OBVIOUS
<1> QED
  BY <1>1, GateAssumption DEF RunRecorded

\* The folder of which a card is made has its run's figures in their place.
LEMMA CardEarned ==
  ASSUME NEW folder, NEW card, card = Scorecard(folder), RunRecorded(folder.metrics),
         folder.tuning # NA =>
           kind # "overlay" /\ folder.tuning[1].trials = Cardinality(folder.tuning[1].seen),
         folder.kpi # NA =>
           kind = "overlay" /\ "sharpe" \in DOMAIN folder.kpi[1] /\ folder.kpi[1]["sharpe"] # NA
  PROVE  Earned(card)
<1> DEFINE values == Values(folder)
           performance == CardVerdict(PerformanceStage, values)
           robustness == CardVerdict(RobustnessStage, values)
<1>1. /\ card.overall = Overall(folder, values) /\ card.metrics = folder.metrics /\ card.tuning = folder.tuning
      /\ card.performance = Statuses(PerformanceStage, values)
      /\ card.robustness = Statuses(RobustnessStage, values)
  BY DEF Scorecard
<1> SUFFICES ASSUME card.overall = "PASS"
             PROVE  /\ Range(card.performance) \cup Range(card.robustness) = {"pass"}
                    /\ kind # "regime_filter"
                    /\ kind = "overlay" =>
                         ~Is(card.metrics.overlay, LAMBDA overlay : overlay.meta - overlay.base < 10)
                    /\ kind = "sleeve" => Is(card.tuning, LAMBDA t : t.trials = Cardinality(t.seen))
  BY DEF Earned
<1>2. /\ Worst({performance, robustness}) = "PASS"
      /\ ~(folder.kpi # NA /\ Is(folder.metrics.overlay, LAMBDA overlay : ~EarnsKeep(overlay)))
  BY <1>1 DEF Overall
<1>3. performance \in CardVerdicts /\ robustness \in CardVerdicts
  BY VerdictsSay
<1> HIDE DEF values
<1>4. robustness # "N/A"
  BY ValuesOf, StagesHave, MeasuredCounts DEF values
<1>5. robustness = "PASS" /\ performance \in {"PASS", "N/A"}
  <2> HIDE DEF performance, robustness
  <2> QED
    BY <1>2, <1>3, <1>4, WorstPasses
<1>6. values["paramsens"] # NA /\ values["oosis"] # NA
  BY <1>5, StagesHave, MissingFails
<1>7. performance = "PASS"
  <2>1. CASE folder.kpi # NA
    <3>1. values["sharpe"] # NA
      BY <2>1, ValuesOf DEF values
    <3>2. performance # "N/A"
      BY <3>1, StagesHave, MeasuredCounts
    <3> QED
      BY <3>2, <1>5
  <2>2. CASE folder.kpi = NA
    <3>1. values["oosis"] = folder.metrics.figures["oosis"]
          /\ values["worstmo"] = folder.metrics.figures["worstmo"]
      BY <2>2, ValuesOf DEF values
    <3>2. values["worstmo"] # NA
      BY <3>1, <1>6 DEF RunRecorded
    <3>3. performance # "N/A"
      BY <3>2, StagesHave, MeasuredCounts
    <3> QED
      BY <3>3, <1>5
  <2> QED
    BY <2>1, <2>2
<1>8. values["ntrades"] # NA /\ values["coststress"] # NA
  BY <1>7, StagesHave, MissingFails
<1>9. Range(card.performance) \cup Range(card.robustness) = {"pass"}
  BY <1>1, <1>5, <1>7, VerdictsSay
<1>10. kind # "regime_filter"
  <2> SUFFICES ASSUME kind = "regime_filter" PROVE FALSE
    OBVIOUS
  <2>1. folder.kpi = NA
    OBVIOUS
  <2> QED
    BY <2>1, <1>8, ValuesOf DEF values
<1>11. ASSUME kind = "overlay"
       PROVE  ~Is(card.metrics.overlay, LAMBDA overlay : overlay.meta - overlay.base < 10)
  <2>1. folder.kpi # NA
    BY <1>8, <1>11, ValuesOf DEF values
  <2>2. CASE folder.metrics.overlay = NA
    BY <2>2, <1>1 DEF Is
  <2>3. CASE folder.metrics.overlay # NA
    <3>1. EarnsKeep(folder.metrics.overlay[1])
      BY <2>1, <2>3, <1>2 DEF Is
    <3>2. folder.metrics.overlay[1].base \in Int /\ folder.metrics.overlay[1].meta \in Int
      BY <2>3 DEF RunRecorded
    <3>3. ~(folder.metrics.overlay[1].meta - folder.metrics.overlay[1].base < 10)
      BY <3>1, <3>2 DEF EarnsKeep
    <3> QED
      BY <3>3, <1>1 DEF Is
  <2> QED
    BY <2>2, <2>3
<1>12. ASSUME kind = "sleeve" PROVE Is(card.tuning, LAMBDA t : t.trials = Cardinality(t.seen))
  <2>1. folder.kpi = NA
    BY <1>12
  <2>2. folder.tuning # NA
    BY <2>1, <1>6, ValuesOf DEF values
  <2> QED
    BY <2>2, <1>1 DEF Is
<1> QED
  BY <1>9, <1>10, <1>11, <1>12

\* What no step changes but those of its own variable.
LEMMA FoldersHold ==
  ASSUME GateInv, UNCHANGED <<kind, searched, cards>>, DOMAIN folders' = DOMAIN folders,
         \A f \in DOMAIN folders : FolderSound(folders'[f], searched[f], kind)
  PROVE  /\ DOMAIN searched' = DOMAIN folders' /\ DOMAIN cards' = DOMAIN folders'
         /\ \A f \in DOMAIN folders' : FolderSound(folders'[f], searched'[f], kind')
         /\ PassIsEarned'
<1>1. PassIsEarned'
  BY DEF GateInv, PassIsEarned, Earned, Is
<1> QED
  BY <1>1 DEF GateInv

LEMMA RanSound ==
  ASSUME NEW folder, NEW tried, NEW k, FolderSound(folder, tried, k), NEW run, RunRecorded(run)
  PROVE  FolderSound(Ran(folder, run), tried, k)
  BY DEF FolderSound, Ran

\* The catalog's arguments are a point of its grid, and so is a tuning's best.
LEMMA WinnersFound ==
  ASSUME NEW d \in DataSets, NEW grid \in Grids, NEW p \in Winners[d][grid]
  PROVE  p \in GridPoints(grid) /\ Backtests[d][p].ok
<1>1. p \in Select(d, grid)
  BY DEF Winners
<1>2. p \in Succeeded(d, grid)
  BY <1>1 DEF Select
<1> QED
  BY <1>2 DEF Succeeded

LEMMA RunStrategyGoes ==
  ASSUME GateInv, RunStrategy PROVE GateInv'
<1> USE DEF GateInv, GateTypeOK
<1> DEFINE run == Trial(catalog.args)
<1>1. RunRecorded(run)
  BY TrialsRecorded DEF RunStrategy, Trial
<1>2. /\ folders' = [folders EXCEPT ![run.folder] = Ran(folders[run.folder], run)]
      /\ UNCHANGED <<kind, data, catalog, searched, cards, tunes>>
  BY DEF RunStrategy
<1> HIDE DEF run
<1>3. DOMAIN folders' = DOMAIN folders
      /\ \A f \in DOMAIN folders : folders'[f] = folders[f] \/ folders'[f] = Ran(folders[f], run)
  BY <1>2
<1>4. \A f \in DOMAIN folders : FolderSound(folders'[f], searched[f], kind)
  BY <1>1, <1>3, RanSound
<1>5. \A f \in DOMAIN folders : folders'[f].log = searched[f]
  BY <1>4 DEF FolderSound
<1> QED
  BY <1>2, <1>3, <1>4, <1>5, FoldersHold

LEMMA ExportKpisGoes ==
  ASSUME GateInv, NEW f \in DOMAIN folders, ExportKpis(f) PROVE GateInv'
<1> USE DEF GateInv, GateTypeOK
<1>1. /\ folders' = [folders EXCEPT ![f] = [folders[f] EXCEPT !.kpi = <<folders[f].metrics[1].exported>>]]
      /\ UNCHANGED <<kind, data, catalog, searched, cards, tunes>>
      /\ kind = "overlay" /\ folders[f].metrics # NA
  BY DEF ExportKpis
<1> DEFINE kpi == folders[f].metrics[1].exported
<1>2. "sharpe" \in DOMAIN kpi /\ kpi["sharpe"] # NA
  BY <1>1 DEF FolderSound, RunRecorded
<1>3. /\ DOMAIN folders' = DOMAIN folders
      /\ \A g \in DOMAIN folders \ {f} : folders'[g] = folders[g]
      /\ folders'[f] = [folders[f] EXCEPT !.kpi = <<kpi>>]
  BY <1>1
<1> HIDE DEF kpi
<1>4. FolderSound([folders[f] EXCEPT !.kpi = <<kpi>>], searched[f], kind)
  BY <1>1, <1>2 DEF FolderSound
<1>5. \A g \in DOMAIN folders : FolderSound(folders'[g], searched[g], kind)
  BY <1>3, <1>4
<1>6. \A g \in DOMAIN folders : folders'[g].log = searched[g]
  BY <1>5 DEF FolderSound
<1> QED
  BY <1>1, <1>3, <1>5, <1>6, FoldersHold

LEMMA PublishGoes ==
  ASSUME GateInv, Publish PROVE GateInv'
<1> USE DEF GateInv, GateTypeOK
<1> DEFINE found(f) == [folders[f] EXCEPT !.metrics = folders[f].metrics[1]]
<1>1. UNCHANGED <<kind, data, catalog, folders, searched, tunes>>
      /\ cards' = [f \in DOMAIN folders |->
                     IF folders[f].metrics = NA THEN cards[f] ELSE <<Scorecard(found(f))>>]
  BY DEF Publish
<1>2. ASSUME NEW f \in DOMAIN folders, folders[f].metrics # NA
      PROVE  Earned(Scorecard(found(f)))
  <2> DEFINE folder == found(f)
  <2>1. /\ folder.metrics = folders[f].metrics[1] /\ folder.tuning = folders[f].tuning
        /\ folder.kpi = folders[f].kpi
    BY DEF FolderSound
  <2> HIDE DEF folder
  <2>2. Earned(Scorecard(folder))
    BY <1>2, <2>1, CardEarned DEF FolderSound
  <2> QED
    BY <2>2 DEF folder
<1> HIDE DEF found
<1>3. ASSUME NEW f \in DOMAIN cards' PROVE Len(cards'[f]) <= 1 /\ (cards'[f] # NA => Earned(cards'[f][1]))
  <2>1. CASE folders[f].metrics = NA
    BY <1>1, <2>1 DEF PassIsEarned
  <2>2. CASE folders[f].metrics # NA
    <3>1. cards'[f] = <<Scorecard(found(f))>>
      BY <1>1, <2>2
    <3>2. Earned(cards'[f][1])
      BY <1>1, <1>2, <2>2, <3>1
    <3>3. Len(cards'[f]) = 1
      BY <3>1
    <3> QED
      BY <3>2, <3>3
  <2> QED
    BY <2>1, <2>2
<1>4. PassIsEarned'
  BY <1>1, <1>3 DEF PassIsEarned, Earned, Is
<1> QED
  BY <1>1, <1>3, <1>4

LEMMA TuneGoes ==
  ASSUME GateInv, NEW best, NEW finishes \in BOOLEAN, NEW apply \in BOOLEAN, Tune(best, finishes, apply)
  PROVE  GateInv'
<1> USE DEF GateInv, GateTypeOK
<1> DEFINE found == Searched[data][catalog.grid]
           trial == Trial(best)
           name == trial.folder
           log == AppendLog(folders[name].log, found)
           seen == searched[name] \cup found
           tuning == Tuning(trial, Cardinality(found) = 1, Cardinality(log), seen)
           logged == [folders[name] EXCEPT !.log = log]
           tuned == [logged EXCEPT !.tuning = <<tuning>>]
           left == IF ~finishes THEN logged ELSE IF apply THEN Ran(tuned, trial) ELSE tuned
<1>1. /\ kind # "overlay" /\ tunes < MaxTunes /\ tunes' = tunes + 1
      /\ best \in Winners[data][catalog.grid]
      /\ searched' = [searched EXCEPT ![name] = seen]
      /\ folders' = [folders EXCEPT ![name] = left]
      /\ catalog' = (IF finishes /\ apply THEN [catalog EXCEPT !.args = best] ELSE catalog)
      /\ UNCHANGED <<kind, data, cards>>
  BY DEF Tune
<1>2. best \in GridPoints(catalog.grid) /\ RunRecorded(trial)
  BY <1>1, WinnersFound, TrialsRecorded DEF Trial
<1> HIDE DEF found, trial
<1>3. tuning.trials = Cardinality(log) /\ tuning.seen = seen
  BY DEF Tuning
<1> HIDE DEF tuning
<1>4. name \in DOMAIN folders => FolderSound(left, seen, kind)
  <2> SUFFICES ASSUME name \in DOMAIN folders PROVE FolderSound(left, seen, kind)
    OBVIOUS
  <2>1. log = seen
    BY DEF FolderSound, AppendLog
  <2>2. FolderSound(logged, seen, kind)
    <3> HIDE DEF log, seen
    <3> QED
      BY <2>1, <1>1 DEF FolderSound
  <2> HIDE DEF logged
  <2>3. FolderSound(tuned, seen, kind)
    <3> HIDE DEF log, seen
    <3> QED
      BY <1>1, <1>3, <2>1, <2>2 DEF FolderSound
  <2> HIDE DEF tuned
  <2>4. FolderSound(Ran(tuned, trial), seen, kind)
    BY <1>2, <2>3, RanSound
  <2> QED
    BY <2>2, <2>3, <2>4
<1> HIDE DEF left, seen, name
<1>5. /\ DOMAIN folders' = DOMAIN folders /\ DOMAIN searched' = DOMAIN searched
      /\ \A f \in DOMAIN folders : f # name => folders'[f] = folders[f] /\ searched'[f] = searched[f]
      /\ name \in DOMAIN folders => folders'[name] = left /\ searched'[name] = seen
  BY <1>1
<1>6. \A f \in DOMAIN folders : FolderSound(folders'[f], searched'[f], kind)
  BY <1>4, <1>5
<1>7. \A f \in DOMAIN folders : folders'[f].log = searched'[f]
  BY <1>6 DEF FolderSound
<1>8. tunes' \in 0 .. MaxTunes
  BY <1>1, GateAssumption
<1>9. /\ DOMAIN catalog' = {"args", "grid"} /\ catalog'.grid = catalog.grid
      /\ catalog'.args \in GridPoints(catalog.grid)
  BY <1>1, <1>2
<1>10. PassIsEarned'
  BY <1>1 DEF PassIsEarned, Earned, Is
<1> QED
  BY <1>1, <1>5, <1>6, <1>7, <1>8, <1>9, <1>10

LEMMA GateSteps == GateInv /\ [GateNext]_gateVars => GateInv'
<1> SUFFICES ASSUME GateInv, [GateNext]_gateVars PROVE GateInv'
  OBVIOUS
<1>1. CASE EditGrid \/ FetchData
  <2> USE DEF GateInv, GateTypeOK
  <2>1. UNCHANGED <<kind, folders, searched, cards, tunes>> /\ data' \in DataSets
    BY <1>1 DEF EditGrid, FetchData
  <2>2. /\ DOMAIN catalog' = {"args", "grid"} /\ catalog'.grid \in Grids
        /\ catalog'.args \in GridPoints(catalog'.grid)
    BY <1>1 DEF EditGrid, FetchData
  <2>3. PassIsEarned'
    BY <2>1 DEF PassIsEarned, Earned, Is
  <2> QED
    BY <2>1, <2>2, <2>3
<1>2. CASE UNCHANGED gateVars
  BY <1>2 DEF gateVars, GateInv, GateTypeOK, PassIsEarned, Earned, Is
<1> QED
  BY <1>1, <1>2, RunStrategyGoes, TuneGoes, ExportKpisGoes, PublishGoes DEF GateNext

\* Nothing is published at the start.
LEMMA GateStarts == GateInit => GateInv
<1> SUFFICES ASSUME GateInit PROVE GateInv
  OBVIOUS
<1>1. /\ kind \in Kinds /\ data \in DataSets /\ tunes = 0
      /\ DOMAIN searched = DOMAIN folders /\ DOMAIN cards = DOMAIN folders
      /\ \A f \in DOMAIN folders : folders[f] = NoFolder /\ searched[f] = {} /\ cards[f] = NA
  BY DEF GateInit
<1>2. DOMAIN catalog = {"args", "grid"} /\ catalog.grid \in Grids /\ catalog.args \in GridPoints(catalog.grid)
  BY DEF GateInit
<1>3. FolderSound(NoFolder, {}, kind)
  BY DEF FolderSound, NoFolder
<1>4. NoFolder.log = {} /\ Len(NA) = 0
  BY DEF NoFolder, NA
<1>5. tunes \in 0 .. MaxTunes
  BY <1>1, GateAssumption
<1>6. \A f \in DOMAIN folders : FolderSound(folders[f], searched[f], kind) /\ folders[f].log \subseteq searched[f]
  BY <1>1, <1>3, <1>4
<1>7. \A f \in DOMAIN cards : Len(cards[f]) <= 1
  BY <1>1, <1>4
<1>8. PassIsEarned
  BY <1>1 DEF PassIsEarned
<1> QED
  BY <1>1, <1>2, <1>5, <1>6, <1>7, <1>8 DEF GateInv, GateTypeOK

\* For any catalog of grids and histories of backtests: a card says PASS only of what earned it,
\* whatever was run, tuned, exported and published before (research-publish).
THEOREM GateIsEarned == GateSpec => [](GateTypeOK /\ PassIsEarned)
<1>1. GateInv => GateTypeOK /\ PassIsEarned
  BY DEF GateInv
<1> QED
  BY <1>1, GateStarts, GateSteps, PTL DEF GateSpec

-----------------------------------------------------------------------------
\* The headquarters as one system.

\* Every component begins as it would alone.
LEMMA ComponentsBegin ==
  HqInit => /\ BindingsInit /\ DaemonsInit /\ ExecutionInit /\ InboxInit
            /\ DumpsInit /\ CompetitionInit /\ SentimentInit /\ SandboxInit
            /\ GatesInit /\ SheetsInit
  BY DEF HqInit

\* A step of the whole is a step of one component, and leaves the others alone.
LEMMA ComponentSteps ==
  [HqNext]_HqVars =>
    /\ [BindingsNext]_bindingsVars /\ [DaemonsNext]_daemonsVars
    /\ [ExecutionNext]_executionVars /\ [InboxNext]_inboxVars
    /\ [DumpsNext]_dumpsVars /\ [CompetitionNext]_competitionVars /\ [SentimentNext]_sentimentVars
    /\ [SandboxNext]_sandboxVars /\ [GatesNext]_gatesVars /\ [SheetsNext]_reports
    /\ [ReplayNext]_replayVars
<1> SUFFICES ASSUME [HqNext]_HqVars
             PROVE  /\ [BindingsNext]_bindingsVars /\ [DaemonsNext]_daemonsVars
                    /\ [ExecutionNext]_executionVars /\ [InboxNext]_inboxVars
                    /\ [DumpsNext]_dumpsVars /\ [CompetitionNext]_competitionVars
                    /\ [SentimentNext]_sentimentVars /\ [SandboxNext]_sandboxVars
                    /\ [GatesNext]_gatesVars /\ [SheetsNext]_reports /\ [ReplayNext]_replayVars
  OBVIOUS
<1>1. CASE UNCHANGED HqVars
  BY <1>1 DEF HqVars
<1>2. CASE HqNext
  BY <1>2 DEF HqNext, Others
<1> QED
  BY <1>1, <1>2

\* What each component promises holds of the headquarters as a whole.

\* However workers and starters race over bindings, pid and kill-switch files: client ids stay
\* distinct, no strategy has two daemons, no halt is lifted unasked; but for what
\* IdsDistinct, OneDaemon and HaltStands except.
THEOREM RunnersAreSound == HqSpec => []DaemonsSound
<1>1. HqSpec => BindingsSpec /\ DaemonsSpec
  BY ComponentsBegin, ComponentSteps, PTL DEF HqSpec, BindingsSpec, DaemonsSpec
<1>2. (BindingsTypeOK /\ IdsDistinct) /\ (DaemonsTypeOK /\ OneDaemon /\ HaltStands) => DaemonsSound
  BY DEF DaemonsSound
<1> QED
  BY <1>1, <1>2, BindingsAreDistinct, DaemonsAreSound, PTL

\* A position is naked only when something raised, whoever else is executing.
THEOREM PositionsAreCovered == HqSpec => []NakedOnlyIfRaised
<1>1. HqSpec => ExecutionSpec
  BY ComponentsBegin, ComponentSteps, PTL DEF HqSpec, ExecutionSpec
<1> QED
  BY <1>1, ExecutionIsCovered, PTL

\* Instructions are executed in order and once, but for what InstructionsObeyed excepts.
THEOREM InboxIsObeyed == HqSpec => []InstructionsObeyed
<1>1. HqSpec => InboxSpec
  BY ComponentsBegin, ComponentSteps, PTL DEF HqSpec, InboxSpec
<1> QED
  BY <1>1, InstructionsAreObeyed, PTL

\* Entrants of the competition keep the caps, and their accounts are saved.
THEOREM CompetitionIsSound == HqSpec => []EntrantsSound
<1>1. HqSpec => CompetitionSpec
  BY ComponentsBegin, ComponentSteps, PTL DEF HqSpec, CompetitionSpec
<1>2. CompetitionTypeOK /\ EntrantWithinCaps /\ SavedIsCurrent => EntrantsSound
  BY DEF EntrantsSound
<1> QED
  BY <1>1, <1>2, EntrantsAreSound, PTL

\* No execution is lost, a marked day is whole, and a slot is of one run, but for what
\* LedgerKeeps, PublishedDays and SlotWhole except.
THEOREM StoresAreKept == HqSpec => []StoresKeep
<1>1. HqSpec => DumpsSpec /\ SentimentSpec
  BY ComponentsBegin, ComponentSteps, PTL DEF HqSpec, DumpsSpec, SentimentSpec
<1>2. (DumpsTypeOK /\ LedgerKeeps /\ PublishedDays) /\ (SentimentTypeOK /\ SlotWhole) => StoresKeep
  BY DEF StoresKeep
<1> QED
  BY <1>1, <1>2, DumpsAreKept, SlotsAreWhole, PTL

\* Where the research jobs run, a published PASS was earned; elsewhere there is no card.
CardsEarned ==
  /\ part = "research" => GateInv
  /\ part # "research" => \A f \in DOMAIN cards : cards[f] = NA

LEMMA CardsBegin == HqInit => CardsEarned
  BY GateStarts DEF HqInit, CardsEarned

LEMMA CardsContinue == CardsEarned /\ [HqNext]_HqVars => CardsEarned'
<1> SUFFICES ASSUME CardsEarned, [HqNext]_HqVars PROVE CardsEarned'
  OBVIOUS
<1>1. part' = part
  BY DEF HqNext, HqVars, Others
<1>2. CASE part = "research"
  <2>1. [GateNext]_gateVars
    BY <1>2 DEF HqNext, HqVars, Others
  <2> QED
    BY <1>1, <1>2, <2>1, GateSteps DEF CardsEarned
<1>3. CASE part # "research"
  <2>1. cards' = cards
    BY <1>3 DEF HqNext, HqVars, Others, gateVars
  <2> QED
    BY <1>1, <1>3, <2>1 DEF CardsEarned
<1> QED
  BY <1>2, <1>3

\* A published PASS was earned, whatever grids were tuned and exported before it.
THEOREM PassesAreEarned == HqSpec => []PassIsEarned
<1>1. CardsEarned => PassIsEarned
  BY DEF CardsEarned, GateInv, PassIsEarned
<1> QED
  BY <1>1, CardsBegin, CardsContinue, PTL DEF HqSpec
\* Where no replay runs the engine is new; where one does it may come from a saved state.
LEMMA ReplaysBegin == HqInit => ReplayInv /\ BooksAgree(live)
<1> SUFFICES ASSUME HqInit PROVE ReplayInv /\ BooksAgree(live)
  OBVIOUS
<1>1. CASE part = "replay"
  BY <1>1, ReplayInitially, BooksInitially DEF HqInit
<1>2. CASE part # "replay"
  <2>1. /\ at = [day |-> 1, clock |-> -1] /\ ref = FreshEngine
        /\ live = NewParity(FreshEngine) /\ brought = <<>>
    BY <1>2 DEF HqInit
  <2>2. ReplayInit
    BY <2>1, FreshEngineIs DEF ReplayInit
  <2> QED
    BY <2>2, ReplayInitially, BooksInitially
<1> QED
  BY <1>1, <1>2

\* However runs are submitted, fail and are forgotten, what is listed loads; and in every replay
\* losses keep to the caps and what the two engines do differently is explained.
THEOREM SandboxesAreSound == HqSpec => []SandboxSound
<1>1. HqSpec => SandboxSpec
  BY ComponentsBegin, ComponentSteps, PTL DEF HqSpec, SandboxSpec
<1>2. HqSpec => [](ReplayTypeOK /\ LossesStayCapped /\ DifferencesExplained)
  BY ReplaysBegin, ComponentSteps, ReplaySteps, ReplayTells, PTL DEF HqSpec
<1>3. /\ SandboxTypeOK /\ ListedRunsLoad
      /\ ReplayTypeOK /\ LossesStayCapped /\ DifferencesExplained
      => SandboxSound
  BY DEF SandboxSound
<1> QED
  BY <1>1, <1>2, <1>3, RunsAreListed, PTL

-----------------------------------------------------------------------------
(***************************************************************************)
(* The gates of the sentiment slots only restrain.                         *)
(***************************************************************************)
\* A gate as any of the functions returns it.
GateRecords ==
  [name : {"data", "event", "kill", "vol", "engine", "positioning"},
   state : {"OPEN", "CAUTION", "HALT", "BLOCKED", "UNKNOWN"}, mult : 0 .. 4]

LEMMA GatesAre ==
  ASSUME NEW s, NEW code
  PROVE  /\ GateData(s) \in GateRecords /\ GateData(s).name = "data"
         /\ Missing(s) => Stops(GateData(s))
         /\ GateEvent(s) \in GateRecords /\ GateKill(s) \in GateRecords /\ GateVol(s) \in GateRecords
         /\ GateEngine(s.past.engine[code]) \in GateRecords /\ GatePositioning(s) \in GateRecords
<1>1. GateData(s) \in GateRecords /\ GateData(s).name = "data" /\ (Missing(s) => Stops(GateData(s)))
  BY DEF GateData, GateRecords, Halt, Open, Stops
<1>2. GateEvent(s) \in GateRecords
  BY DEF GateEvent, GateRecords, Halt, Open, Caution
<1>3. GateKill(s) \in GateRecords
  BY DEF GateKill, GateRecords, Halt, Open, Caution
<1>4. GateVol(s) \in GateRecords
  BY DEF GateVol, GateRecords, Open, Caution
<1>5. GateEngine(s.past.engine[code]) \in GateRecords
  BY DEF GateEngine, GateRecords, Open, Caution
<1>6. GatePositioning(s) \in GateRecords
  BY DEF GatePositioning, GateRecords
<1> QED
  BY <1>1, <1>2, <1>3, <1>4, <1>5, <1>6

\* An override opens or stops a gate, but never opens the data gate.
LEMMA OverridesDo ==
  ASSUME NEW gate \in GateRecords, NEW code, NEW order, DOMAIN order \subseteq Nat
  PROVE  /\ ApplyOverrides(gate, code, order) \in GateRecords
         /\ gate.name = "data" /\ Stops(gate) => Stops(ApplyOverrides(gate, code, order))
<1> DEFINE applies(o) == /\ o.gate = gate.name /\ o.code \in {"all", code}
                         /\ o.action = "FORCE_HALT" \/ Opens(o, gate)
           found == {i \in DOMAIN order : applies(order[i])}
           after == ApplyOverrides(gate, code, order)
<1>1. after = IF found = {} THEN gate
              ELSE IF order[Min(found)].action = "FORCE_HALT" THEN Halt(gate.name) ELSE Open(gate.name)
  BY DEF ApplyOverrides
<1>2. Halt(gate.name) \in GateRecords /\ Open(gate.name) \in GateRecords /\ Stops(Halt(gate.name))
  BY DEF GateRecords, Halt, Open, Stops
<1>3. CASE found = {}
  BY <1>1, <1>3
<1>4. CASE found # {}
  <2>1. \E i \in found : \A j \in found : i <= j
    BY <1>4, LeastExists
  <2>2. Min(found) \in found
    BY <2>1 DEF Min
  <2>3. order[Min(found)].action = "FORCE_HALT" \/ gate.name # "data"
    BY <2>2 DEF Opens
  <2> HIDE DEF found, after
  <2>4. CASE order[Min(found)].action = "FORCE_HALT"
    <3>1. after = Halt(gate.name)
      BY <1>1, <1>4, <2>4
    <3> QED
      BY <1>2, <3>1 DEF after
  <2>5. CASE order[Min(found)].action # "FORCE_HALT"
    <3>1. after = Open(gate.name)
      BY <1>1, <1>4, <2>5
    <3> QED
      BY <1>2, <2>3, <2>5, <3>1 DEF after
  <2> QED
    BY <2>4, <2>5
<1> QED
  BY <1>3, <1>4

LEMMA GatesJudged ==
  ASSUME NEW s, NEW code, NEW order, DOMAIN order \subseteq Nat,
         NEW gates, gates = Gates(s, code, order)
  PROVE  /\ DOMAIN gates = {"data", "event", "kill", "vol", "engine", "positioning"}
         /\ gates.data \in GateRecords /\ gates.event \in GateRecords /\ gates.kill \in GateRecords
         /\ gates.vol \in GateRecords /\ gates.engine \in GateRecords
         /\ gates.positioning \in GateRecords
         /\ Missing(s) => StandDown(gates)
<1>1. /\ DOMAIN gates = {"data", "event", "kill", "vol", "engine", "positioning"}
      /\ gates.data = ApplyOverrides(GateData(s), code, order)
      /\ gates.event = ApplyOverrides(GateEvent(s), code, order)
      /\ gates.kill = ApplyOverrides(GateKill(s), code, order)
      /\ gates.vol = ApplyOverrides(GateVol(s), code, order)
      /\ gates.engine = ApplyOverrides(GateEngine(s.past.engine[code]), code, order)
      /\ gates.positioning = ApplyOverrides(GatePositioning(s), code, order)
  BY DEF Gates
<1>2. Missing(s) => StandDown(gates)
  <2> SUFFICES ASSUME Missing(s) PROVE Stops(gates.data)
    BY <1>1 DEF StandDown
  <2> QED
    BY <1>1, GatesAre, OverridesDo
<1>3. gates.data \in GateRecords /\ gates.event \in GateRecords /\ gates.kill \in GateRecords
  BY <1>1, GatesAre, OverridesDo
<1>4. gates.vol \in GateRecords /\ gates.engine \in GateRecords /\ gates.positioning \in GateRecords
  BY <1>1, GatesAre, OverridesDo
<1> QED
  BY <1>1, <1>2, <1>3, <1>4

LEMMA FiveFactors ==
  ASSUME NEW a \in 0 .. 4, NEW b \in 0 .. 4, NEW c \in 0 .. 4, NEW d \in 0 .. 4, NEW e \in 0 .. 4
  PROVE  a * b * c * d * e \in 0 .. 1024
<1>1. PICK p \in 0 .. 16 : p = a * b
  BY SMT
<1>2. PICK q \in 0 .. 64 : q = p * c
  BY SMT
<1>3. PICK r \in 0 .. 256 : r = q * d
  BY SMT
<1>4. r * e \in 0 .. 1024
  BY SMT
<1> QED
  BY <1>1, <1>2, <1>3, <1>4

\* A product of six is at most any one of them with all the others at their most.
Product(a, b, c, d, e, f) == a * b * c * d * e * f
Within(product, m) == product \in Nat /\ product <= m * 1024

LEMMA SixFactors ==
  ASSUME NEW a \in 0 .. 4, NEW b \in 0 .. 4, NEW c \in 0 .. 4, NEW d \in 0 .. 4, NEW e \in 0 .. 4,
         NEW f \in 0 .. 4
  PROVE  /\ Within(Product(a, b, c, d, e, f), a) /\ Within(Product(a, b, c, d, e, f), b)
         /\ Within(Product(a, b, c, d, e, f), c) /\ Within(Product(a, b, c, d, e, f), d)
         /\ Within(Product(a, b, c, d, e, f), e)
<1>1. ASSUME NEW x \in 0 .. 4, NEW y \in 0 .. 1024 PROVE x * y \in Nat /\ x * y <= x * 1024
  BY SMT
<1>2. Within(Product(a, b, c, d, e, f), a)
  <2>1. PICK y \in 0 .. 1024 : y = b * c * d * e * f
    BY FiveFactors
  <2>2. Product(a, b, c, d, e, f) = a * y
    BY <2>1 DEF Product
  <2> QED
    BY <1>1, <2>2 DEF Within
<1>3. Within(Product(a, b, c, d, e, f), b)
  <2>1. PICK y \in 0 .. 1024 : y = a * c * d * e * f
    BY FiveFactors
  <2>2. Product(a, b, c, d, e, f) = b * y
    BY <2>1 DEF Product
  <2> QED
    BY <1>1, <2>2 DEF Within
<1>4. Within(Product(a, b, c, d, e, f), c)
  <2>1. PICK y \in 0 .. 1024 : y = a * b * d * e * f
    BY FiveFactors
  <2>2. Product(a, b, c, d, e, f) = c * y
    BY <2>1 DEF Product
  <2> QED
    BY <1>1, <2>2 DEF Within
<1>5. Within(Product(a, b, c, d, e, f), d)
  <2>1. PICK y \in 0 .. 1024 : y = a * b * c * e * f
    BY FiveFactors
  <2>2. Product(a, b, c, d, e, f) = d * y
    BY <2>1 DEF Product
  <2> QED
    BY <1>1, <2>2 DEF Within
<1>6. Within(Product(a, b, c, d, e, f), e)
  <2>1. PICK y \in 0 .. 1024 : y = a * b * c * d * f
    BY FiveFactors
  <2>2. Product(a, b, c, d, e, f) = e * y
    BY <2>1 DEF Product
  <2> QED
    BY <1>1, <2>2 DEF Within
<1> QED
  BY <1>2, <1>3, <1>4, <1>5, <1>6

\* What a draft says of its strategy.
Restrained(r) ==
  /\ 4 * r.size <= r.least * Full \/ 4 * r.size = Full
  /\ r.verdict = "TRADE" <=> r.size = Full
  /\ r.verdict = "STAND_DOWN" <=> r.size = 0
  /\ r.size # 0 => 4 * r.size >= Full
  /\ r.size \in Nat

LEMMA DraftRestrains ==
  ASSUME NEW s, NEW code, NEW order, DOMAIN order \subseteq Nat, NEW r, r = Draft(s, code, order)
  PROVE  /\ r.code = code /\ Restrained(r)
         /\ Missing(s) => r.verdict = "STAND_DOWN"
<1>1. PICK gates : gates = Gates(s, code, order)
  OBVIOUS
<1>2. PICK fit : fit = s.past.fit[code]
  OBVIOUS
<1>3. /\ r.code = code /\ r.verdict = Verdict(gates, Size(gates, fit)) /\ r.size = Size(gates, fit)
      /\ r.least = Strictest(gates)
  BY <1>1, <1>2 DEF Draft
<1>4. /\ DOMAIN gates = {"data", "event", "kill", "vol", "engine", "positioning"}
      /\ gates.data \in GateRecords /\ gates.event \in GateRecords /\ gates.kill \in GateRecords
      /\ gates.vol \in GateRecords /\ gates.engine \in GateRecords
      /\ Missing(s) => StandDown(gates)
  BY <1>1, GatesJudged
<1>5. PICK a \in 0 .. 4, b \in 0 .. 4, c \in 0 .. 4, d \in 0 .. 4, e \in 0 .. 4, f \in 0 .. 4 :
        /\ a = gates.data.mult /\ b = gates.event.mult /\ c = gates.kill.mult
        /\ d = gates.vol.mult /\ e = gates.engine.mult /\ f = Loses(fit)
  <2>1. /\ gates.data.mult \in 0 .. 4 /\ gates.event.mult \in 0 .. 4 /\ gates.kill.mult \in 0 .. 4
        /\ gates.vol.mult \in 0 .. 4 /\ gates.engine.mult \in 0 .. 4
    BY <1>4 DEF GateRecords
  <2>2. Loses(fit) \in 0 .. 4
    BY DEF Loses
  <2> QED
    BY <2>1, <2>2
<1>6. PICK m \in {a, b, c, d, e} : m = Strictest(gates)
  <2>1. {gates[name].mult : name \in DOMAIN gates \ {"positioning"}} = {a, b, c, d, e}
    BY <1>4, <1>5
  <2>2. {a, b, c, d, e} \in SUBSET Nat /\ {a, b, c, d, e} # {}
    OBVIOUS
  <2>3. \E i \in {a, b, c, d, e} : \A j \in {a, b, c, d, e} : i <= j
    BY <2>2, LeastExists
  <2> QED
    BY <2>1, <2>3 DEF Strictest, Min
<1>7. PICK product : product = Product(a, b, c, d, e, f)
  OBVIOUS
<1>8. product \in Int /\ product <= m * 1024
  <2>1. /\ Within(product, a) /\ Within(product, b) /\ Within(product, c) /\ Within(product, d)
        /\ Within(product, e)
    BY <1>5, <1>7, SixFactors
  <2> QED
    BY <2>1 DEF Within
<1>9. Size(gates, fit) = IF StandDown(gates) THEN 0
                         ELSE IF product < Full \div 4 THEN Full \div 4
                         ELSE IF product > Full THEN Full ELSE product
  BY <1>5, <1>7 DEF Size, Product
<1>10. Full = 4096 /\ Full \div 4 = 1024 /\ m \in 0 .. 4
  BY DEF Full
<1>11. CASE StandDown(gates)
  <2>1. r.size = 0 /\ r.verdict = "STAND_DOWN"
    BY <1>3, <1>9, <1>11 DEF Verdict
  <2> QED
    BY <1>3, <1>6, <1>10, <2>1 DEF Restrained
<1>12. CASE ~StandDown(gates)
  <2>1. /\ r.size \in Nat /\ 1024 <= r.size /\ r.size <= 4096
        /\ r.size <= m * 1024 \/ r.size = 1024
    BY <1>3, <1>8, <1>9, <1>10, <1>12
  <2>2. r.verdict = IF r.size < Full THEN "REDUCE" ELSE "TRADE"
    BY <1>3, <1>12 DEF Verdict
  <2>3. r.least = m /\ r.size # 0
    BY <1>3, <1>6, <2>1
  <2>4. 4 * r.size <= r.least * Full \/ 4 * r.size = Full
    BY <1>10, <2>1, <2>3
  <2>5. /\ r.verdict = "TRADE" <=> r.size = Full
        /\ r.verdict = "STAND_DOWN" <=> r.size = 0
    BY <1>10, <2>1, <2>2
  <2>6. 4 * r.size >= Full /\ r.size \in Nat
    BY <1>10, <2>1
  <2> QED
    BY <1>3, <1>4, <1>12, <2>3, <2>4, <2>5, <2>6 DEF Restrained
<1> QED
  BY <1>11, <1>12

LEMMA JudgeRestrains ==
  ASSUME GatesRestrain, NEW s \in Inputs, JudgeSlot(s)
  PROVE  GatesRestrain'
<1>1. PICK order \in SetToSeqs(overrides) : \E recs \in Recommend(s, order) :
        slot' = [at |-> s.at, intraday |-> s.intraday, missing |-> Missing(s),
                 kill |-> GateKill(s).state, recs |-> recs]
  BY DEF JudgeSlot
<1>2. PICK recs \in Recommend(s, order) :
        slot' = [at |-> s.at, intraday |-> s.intraday, missing |-> Missing(s),
                 kill |-> GateKill(s).state, recs |-> recs]
  BY <1>1
<1>3. DOMAIN order \subseteq Nat
  BY <1>1 DEF SetToSeqs
<1>4. /\ DOMAIN recs = 1 .. Cardinality(Futures)
      /\ \A i \in DOMAIN recs : \E code \in Futures : recs[i] = Draft(s, code, order)
      /\ \A code \in Futures : \E i \in DOMAIN recs : recs[i] = Draft(s, code, order)
      /\ \A i, j \in DOMAIN recs : i < j => Ahead(recs[i], recs[j])
  BY <1>2 DEF Recommend, Bijection, Surjection
<1>5. ASSUME NEW i \in DOMAIN recs
      PROVE  /\ recs[i].code \in Futures /\ Restrained(recs[i])
             /\ Missing(s) => recs[i].verdict = "STAND_DOWN"
  <2>1. PICK code \in Futures : recs[i] = Draft(s, code, order)
    BY <1>4
  <2> QED
    BY <1>3, <2>1, DraftRestrains
<1>6. slot'.missing = Missing(s) /\ slot'.recs = recs
  BY <1>2
<1>7. FailsClosed'
  BY <1>5, <1>6 DEF FailsClosed
<1>8. {recs[i].code : i \in DOMAIN recs} = Futures
  <2>1. ASSUME NEW code \in Futures PROVE \E i \in DOMAIN recs : recs[i].code = code
    <3>1. PICK i \in DOMAIN recs : recs[i] = Draft(s, code, order)
      BY <1>4
    <3>2. recs[i].code = code
      BY <1>3, <3>1, DraftRestrains
    <3> QED
      BY <3>2
  <2> QED
    BY <1>5, <2>1
<1>9. ASSUME NEW i \in DOMAIN recs, NEW j \in 1 .. i - 1
      PROVE  /\ recs[i].size > 0 => recs[j].size > 0
             /\ (recs[i].size > 0 <=> recs[j].size > 0) => recs[j].score >= recs[i].score
  <2>1. j \in DOMAIN recs /\ j < i
    BY <1>4, FS_CardinalityType, GatesAssumption
  <2>2. Ahead(recs[j], recs[i])
    BY <1>4, <2>1
  <2>3. /\ recs[i].size \in Nat /\ recs[j].size \in Nat
        /\ recs[i].verdict = "STAND_DOWN" <=> recs[i].size = 0
        /\ recs[j].verdict = "STAND_DOWN" <=> recs[j].size = 0
    BY <1>5, <2>1 DEF Restrained
  <2>4. recs[i].score \in Int /\ recs[j].score \in Int
    <3>1. \A code \in Futures : s.past.fit[code].score \in Int
      BY GatesAssumption DEF Inputs
    <3>2. /\ \E code \in Futures : recs[i].score = s.past.fit[code].score
          /\ \E code \in Futures : recs[j].score = s.past.fit[code].score
      BY <1>4, <2>1 DEF Draft
    <3> QED
      BY <3>1, <3>2
  <2>5. \/ recs[j].size # 0 /\ recs[i].size = 0
        \/ (recs[j].size = 0 <=> recs[i].size = 0) /\ recs[j].score >= recs[i].score
    BY <2>2, <2>3, <2>4 DEF Ahead
  <2> QED
    BY <2>3, <2>5
<1>10. NeverSizedUp'
  <2>1. ASSUME NEW i \in DOMAIN recs PROVE Restrained(recs[i])
    BY <1>5
  <2> QED
    BY <1>6, <1>8, <1>9, <2>1 DEF NeverSizedUp, Restrained
<1> QED
  BY <1>7, <1>10 DEF GatesRestrain

LEMMA GatesRestrainStep == GatesRestrain /\ [GatesNext]_gatesVars => GatesRestrain'
<1> SUFFICES ASSUME GatesRestrain, [GatesNext]_gatesVars PROVE GatesRestrain'
  OBVIOUS
<1>1. CASE slot' = slot
  BY <1>1 DEF GatesRestrain, FailsClosed, NeverSizedUp
<1>2. CASE \E s \in Inputs : JudgeSlot(s)
  BY <1>2, JudgeRestrains
<1> QED
  BY <1>1, <1>2 DEF GatesNext, gatesVars, Pass, FetchHeadlines, SetOverride, RevokeOverride

\* However slots, headlines and overrides follow each other: without its data a slot stands
\* every strategy down, and no draft is sized above what its strictest gate leaves.
THEOREM GatesAreRestraining == HqSpec => []GatesRestrain
<1>1. GatesInit => GatesRestrain
  BY DEF GatesInit, GatesRestrain, FailsClosed, NeverSizedUp
<1> QED
  BY <1>1, GatesRestrainStep, ComponentsBegin, ComponentSteps, PTL DEF HqSpec

-----------------------------------------------------------------------------
(***************************************************************************)
(* Types, the gates' and the sheets' first.                                *)
(***************************************************************************)
LEMMA GreatestExists ==
  ASSUME NEW n \in Nat, NEW S \in SUBSET (0 .. n), S # {}
  PROVE  \E t \in S : \A u \in S : u <= t
<1> DEFINE Mirror == {n - u : u \in S}
<1>1. Mirror \in SUBSET Nat
  <2>1. \A u \in S : n - u \in Nat
    OBVIOUS
  <2> QED
    BY <2>1
<1>2. PICK m \in Mirror : \A k \in Mirror : m <= k
  <2>1. Mirror # {}
    OBVIOUS
  <2> HIDE DEF Mirror
  <2> QED
    BY <1>1, <2>1, LeastExists
<1>3. PICK t \in S : m = n - t
  OBVIOUS
<1>4. ASSUME NEW u \in S PROVE u <= t
  <2>1. m <= n - u
    BY <1>2
  <2>2. t \in Int /\ u \in Int
    OBVIOUS
  <2>3. n - t <= n - u
    BY <1>3, <2>1
  <2> HIDE DEF Mirror
  <2> QED
    BY <2>2, <2>3
<1> QED
  BY <1>4

LEMMA NewestInSession ==
  ASSUME NEW s, s.hits \subseteq [pub : WireTier \cup LowTier, ts : 0 .. LastTime], KillHalts(s)
  PROVE  Newest(Recent(s)) \in 0 .. LastTime
<1> DEFINE Times == {h.ts : h \in Recent(s)}
<1>1. Recent(s) # {}
  <2>1. CASE \E h \in Recent(s) : h.pub \in WireTier
    BY <2>1
  <2>2. CASE Corroborated(Recent(s))
    <3>1. ASSUME Recent(s) = {} PROVE FALSE
      <4>1. {h.pub : h \in Recent(s)} = {}
        BY <3>1
      <4>2. Cardinality({h.pub : h \in Recent(s)}) = 0
        BY <4>1, FS_EmptySet
      <4> QED
        BY <2>2, <4>2 DEF Corroborated
    <3> QED
      BY <3>1
  <2> QED
    BY <2>1, <2>2 DEF KillHalts
<1>2. Times \in SUBSET (0 .. LastTime) /\ Times # {}
  BY <1>1 DEF Recent
<1>3. \E t \in Times : \A u \in Times : u <= t
  BY <1>2, GatesAssumption, GreatestExists
<1>4. \E t \in Times : \A h \in Recent(s) : h.ts <= t
  BY <1>3
<1>5. Newest(Recent(s)) \in Times
  BY <1>4 DEF Newest
<1> QED
  BY <1>2, <1>5

LEMMA GatesStep == GatesTypeOK /\ [GatesNext]_gatesVars => GatesTypeOK'
<1> SUFFICES ASSUME GatesTypeOK, [GatesNext]_gatesVars PROVE GatesTypeOK'
  OBVIOUS
<1>1. CASE UNCHANGED gatesVars
  BY <1>1 DEF gatesVars, GatesTypeOK
<1>2. CASE Pass
  BY <1>2, GatesAssumption DEF Pass, GatesTypeOK
<1>3. CASE FetchHeadlines
  BY <1>3, GatesAssumption DEF FetchHeadlines, GatesTypeOK
<1>4. CASE SetOverride
  BY <1>4 DEF SetOverride, GatesTypeOK
<1>5. CASE RevokeOverride
  BY <1>5 DEF RevokeOverride, GatesTypeOK
<1>6. ASSUME NEW s \in Inputs, JudgeSlot(s) PROVE GatesTypeOK'
  <2>1. s.hits = hits
    BY <1>6 DEF Inputs
  <2>2. UNCHANGED <<time, hits, fetched, overrides>>
    BY <1>6 DEF JudgeSlot
  <2>3. CASE holds' = holds
    BY <2>2, <2>3 DEF GatesTypeOK
  <2>4. CASE KillHalts(s) /\ holds' = Newest(Recent(s)) + KillCooldown
    <3>1. Newest(Recent(s)) \in 0 .. LastTime
      BY <2>1, <2>4, NewestInSession DEF GatesTypeOK
    <3>2. holds' \in -1 .. LastTime + KillCooldown
      BY <2>4, <3>1, GatesAssumption DEF KillCooldown
    <3> QED
      BY <2>2, <3>2 DEF GatesTypeOK
  <2> QED
    BY <1>6, <2>3, <2>4 DEF JudgeSlot
<1> QED
  BY <1>1, <1>2, <1>3, <1>4, <1>5, <1>6 DEF GatesNext

LEMMA FunctionIsSeq == ASSUME NEW S, NEW n \in Nat, NEW f \in [1 .. n -> S] PROVE f \in Seq(S)
  OBVIOUS

LEMMA CalendarDays == \A i \in DOMAIN Calendar : i \in Nat
<1>1. DOMAIN Calendar = 1 .. Len(Calendar)
  BY SheetsAssumption, LenProperties
<1> QED
  BY <1>1

\* The sheets: a day is published once and in order, however often it is exported.
LEMMA SheetsStep == SheetsTypeOK /\ [SheetsNext]_reports => SheetsTypeOK'
<1> SUFFICES ASSUME SheetsTypeOK, [SheetsNext]_reports PROVE SheetsTypeOK'
  OBVIOUS
<1> DEFINE Report == [day : DOMAIN Calendar, book : DayBooks]
<1>1. PICK old : old = reports
  OBVIOUS
<1>2. /\ old \in Seq(Report)
      /\ \A i, j \in DOMAIN old : i < j => old[i].day < old[j].day
  BY <1>1 DEF SheetsTypeOK
<1>3. DOMAIN old = 1 .. Len(old) /\ Len(old) \in Nat
  BY <1>2, LenProperties
<1>4. CASE UNCHANGED reports
  BY <1>4 DEF SheetsTypeOK
<1>5. CASE PublishDay
  <2>1. PICK i \in DOMAIN Calendar, book \in DayBooks :
          /\ old # <<>> => i > Last(old).day
          /\ reports' = Append(old, [day |-> i, book |-> book])
    BY <1>1, <1>5 DEF PublishDay
  <2> DEFINE new == [day |-> i, book |-> book]
  <2>2. new \in Report
    OBVIOUS
  <2>3. /\ reports' \in Seq(Report) /\ Len(reports') = Len(old) + 1
        /\ \A k \in 1 .. Len(old) : reports'[k] = old[k]
        /\ reports'[Len(old) + 1] = new
    BY <1>2, <2>1, <2>2, AppendProperties
  <2>4. DOMAIN reports' = 1 .. Len(old) + 1
    BY <2>3, LenProperties
  <2>5. ASSUME NEW k \in 1 .. Len(old) PROVE old[k].day < i
    <3>1. old # <<>> /\ Last(old) = old[Len(old)]
      BY <1>2, <1>3, EmptySeq DEF Last
    <3>2. old[Len(old)].day < i
      BY <1>2, <1>3, <2>1, <3>1, CalendarDays
    <3>3. CASE k = Len(old)
      BY <3>2, <3>3
    <3>4. CASE k # Len(old)
      <4>1. old[k].day < old[Len(old)].day
        BY <1>2, <1>3, <3>4
      <4>2. old[k].day \in Int /\ old[Len(old)].day \in Int /\ i \in Int
        <5>1. old[k] \in Report /\ old[Len(old)] \in Report
          <6>1. k \in 1 .. Len(old) /\ Len(old) \in 1 .. Len(old)
            BY <1>3
          <6> HIDE DEF Report
          <6> QED
            BY <1>2, <6>1, ElementOfSeq
        <5> QED
          BY <5>1, CalendarDays
      <4> QED
        BY <3>2, <4>1, <4>2
    <3> QED
      BY <3>3, <3>4
  <2>6. ASSUME NEW k \in DOMAIN reports', NEW l \in DOMAIN reports', k < l
        PROVE  reports'[k].day < reports'[l].day
    <3>1. k \in 1 .. Len(old)
      BY <1>3, <2>4, <2>6
    <3>2. CASE l \in 1 .. Len(old)
      BY <1>2, <1>3, <2>3, <2>6, <3>1, <3>2
    <3>3. CASE l = Len(old) + 1
      BY <2>3, <2>5, <3>1, <3>3
    <3> QED
      BY <1>3, <2>4, <3>2, <3>3
  <2> QED
    BY <2>3, <2>6 DEF SheetsTypeOK
<1>6. CASE PublishAgain
  <2>1. PICK k \in DOMAIN old, book \in DayBooks : reports' = [old EXCEPT ![k].book = book]
    BY <1>1, <1>6 DEF PublishAgain
  <2>2. \A i \in DOMAIN old : old[i] \in Report
    BY <1>2, <1>3, ElementOfSeq
  <2>3. reports' \in [1 .. Len(old) -> Report]
    BY <1>2, <1>3, <2>1, <2>2
  <2>4. reports' \in Seq(Report) /\ DOMAIN reports' = DOMAIN old
    BY <1>3, <2>1, <2>3, FunctionIsSeq
  <2>5. \A i \in DOMAIN old : reports'[i].day = old[i].day
    BY <2>1, <2>2
  <2> QED
    BY <1>2, <2>4, <2>5 DEF SheetsTypeOK
<1> QED
  BY <1>4, <1>5, <1>6 DEF SheetsNext

-----------------------------------------------------------------------------
\* The KPI sheets.

\* The sums of the first members, one after the other.
SumsAlong(h, xs) ==
  /\ h \in [0 .. Len(xs) -> Int]
  /\ h[0] = 0 /\ \A k \in 1 .. Len(xs) : h[k] = h[k - 1] + xs[k]

LEMMA SumsExist ==
  ASSUME NEW xs \in Seq(Int)
  PROVE  \E h : SumsAlong(h, xs)
<1> DEFINE n == Len(xs)
           step == [k \in 1 .. n |-> [x \in Int |-> x + xs[k]]]
<1>1. n \in Nat /\ \A k \in 1 .. n : xs[k] \in Int
  BY LenProperties, ElementOfSeq
<1>2. step \in [1 .. n -> [Int -> Int]]
  BY <1>1
<1>3. Recursion(n, Int, 0, step)
  BY <1>1, <1>2 DEF Recursion
<1>4. \A k \in 1 .. n, x \in Int : step[k][x] = x + xs[k]
  OBVIOUS
<1> HIDE DEF step
<1>5. PICK h : Recursive(h, n, Int, 0, step)
  BY <1>3, RecursionExists
<1>6. \A k \in 1 .. n : k - 1 \in 0 .. n
  BY <1>1
<1>7. SumsAlong(h, xs)
  BY <1>4, <1>5, <1>6 DEF SumsAlong, Recursive
<1> QED
  BY <1>7

LEMMA TotalIs ==
  ASSUME NEW xs, Len(xs) \in Nat, NEW h, SumsAlong(h, xs)
  PROVE  Total(xs) = h[Len(xs)]
<1> DEFINE n == Len(xs)
           Says(f) == f = [k \in 0 .. n |-> IF k = 0 THEN 0 ELSE f[k - 1] + xs[k]]
           f == CHOOSE f : Says(f)
<1>1. Says(h)
  <2>1. h = [k \in 0 .. n |-> h[k]]
    BY DEF SumsAlong
  <2>2. \A k \in 0 .. n : h[k] = IF k = 0 THEN 0 ELSE h[k - 1] + xs[k]
    BY DEF SumsAlong
  <2> QED
    BY <2>1, <2>2
<1>2. Says(f)
  BY <1>1
<1>3. Total(xs) = f[n]
  BY DEF Total
<1>4. f[0] = 0 /\ \A k \in 1 .. n : f[k] = f[k - 1] + xs[k]
  <2> HIDE DEF f
  <2>1. \A k \in 0 .. n : f[k] = IF k = 0 THEN 0 ELSE f[k - 1] + xs[k]
    BY <1>2
  <2> QED
    BY <2>1
<1> HIDE DEF f
<1> DEFINE H == {k \in 0 .. n : f[k] = h[k]}
<1>5. 0 \in H
  BY <1>4 DEF SumsAlong
<1>6. ASSUME NEW k \in 0 .. n - 1, k \in H PROVE k + 1 \in H
  <2>1. k + 1 \in 1 .. n /\ (k + 1) - 1 = k
    OBVIOUS
  <2> QED
    BY <1>4, <1>6, <2>1 DEF SumsAlong
<1> HIDE DEF H
<1>7. n \in H
  BY <1>5, <1>6, CountingInduction
<1> QED
  BY <1>3, <1>7 DEF H

LEMMA TotalTyped == ASSUME NEW xs \in Seq(Int) PROVE Total(xs) \in Int
<1>1. PICK h : SumsAlong(h, xs)
  BY SumsExist
<1>2. Len(xs) \in Nat /\ Len(xs) \in 0 .. Len(xs)
  BY LenProperties
<1>3. Total(xs) = h[Len(xs)]
  BY <1>1, <1>2, TotalIs
<1> QED
  BY <1>1, <1>2, <1>3 DEF SumsAlong

LEMMA EquityIs ==
  ASSUME NEW xs \in Seq(Int), NEW h, SumsAlong(h, xs), NEW m \in 0 .. Len(xs)
  PROVE  Equity(xs, m) = h[m]
<1>1. PICK first : first = SubSeq(xs, 1, m)
  OBVIOUS
<1>2. Len(xs) \in Nat /\ Len(first) = m /\ \A k \in 1 .. m : first[k] = xs[k]
  BY <1>1, LenProperties
<1>3. PICK q : q = [k \in 0 .. m |-> h[k]]
  OBVIOUS
<1>4. 0 .. m \subseteq 0 .. Len(xs) /\ 1 .. m \subseteq 1 .. Len(xs) /\ \A k \in 1 .. m : k - 1 \in 0 .. m
  BY <1>2
<1>5. SumsAlong(q, first)
  <2>1. q \in [0 .. m -> Int] /\ q[0] = 0
    <3>1. \A k \in 0 .. m : h[k] \in Int
      BY <1>4 DEF SumsAlong
    <3>2. h[0] = 0 /\ 0 \in 0 .. m
      BY DEF SumsAlong
    <3> QED
      BY <1>3, <3>1, <3>2
  <2>2. ASSUME NEW k \in 1 .. m PROVE q[k] = q[k - 1] + first[k]
    <3>1. q[k] = h[k] /\ q[k - 1] = h[k - 1] /\ first[k] = xs[k]
      BY <1>2, <1>3, <1>4
    <3> QED
      BY <1>4, <3>1 DEF SumsAlong
  <2> QED
    BY <1>2, <2>1, <2>2 DEF SumsAlong
<1>6. Total(first) = q[m]
  BY <1>2, <1>5, TotalIs
<1> QED
  BY <1>1, <1>3, <1>6 DEF Equity

\* The walk over the days.
WalkRecords ==
  [eq : Int, peak : Int, days : Nat, worst : Int, squares : Int, run : Nat, longest : Nat]

LEMMA WalkedDoes ==
  ASSUME NEW acc \in WalkRecords, NEW pnl \in Int
  PROVE  LET n == Walked(acc, pnl)
             gap == n.peak - n.eq
         IN /\ n \in WalkRecords
            /\ n.eq = acc.eq + pnl
            /\ n.peak = (IF acc.peak >= n.eq THEN acc.peak ELSE n.eq)
            /\ n.worst = (IF acc.worst >= gap THEN acc.worst ELSE gap)
            /\ n.squares = acc.squares + gap * gap
            /\ n.run = (IF n.eq < n.peak THEN acc.run + 1 ELSE 0)
            /\ n.longest = (IF acc.longest >= n.run THEN acc.longest ELSE n.run)
<1>1. /\ acc.eq \in Int /\ acc.peak \in Int /\ acc.days \in Nat /\ acc.worst \in Int
      /\ acc.squares \in Int /\ acc.run \in Nat /\ acc.longest \in Nat
  BY DEF WalkRecords
<1>2. PICK eq \in Int : eq = acc.eq + pnl
  BY <1>1
<1>3. PICK peak \in Int : peak = Max({acc.peak, eq}) /\ peak = (IF acc.peak >= eq THEN acc.peak ELSE eq)
  BY <1>1, LargerOf
<1>4. PICK gap \in Int : gap = peak - eq
  OBVIOUS
<1>5. PICK worst \in Int : worst = Max({acc.worst, gap}) /\ worst = (IF acc.worst >= gap THEN acc.worst ELSE gap)
  BY <1>1, LargerOf
<1>6. PICK run \in Nat : run = (IF eq < peak THEN acc.run + 1 ELSE 0)
  BY <1>1
<1>7. PICK longest \in Nat :
        longest = Max({acc.longest, run}) /\ longest = (IF acc.longest >= run THEN acc.longest ELSE run)
  BY <1>1, LargerOf
<1>8. PICK squares \in Int : squares = acc.squares + gap * gap
  BY <1>1
<1>9. PICK days \in Nat : days = acc.days + 1
  BY <1>1
<1>10. Walked(acc, pnl) =
         [eq |-> eq, peak |-> peak, days |-> days, worst |-> worst, squares |-> squares, run |-> run,
          longest |-> longest]
  BY <1>2, <1>3, <1>4, <1>5, <1>6, <1>7, <1>8, <1>9 DEF Walked
<1> QED
  BY <1>2, <1>3, <1>4, <1>5, <1>6, <1>7, <1>8, <1>9, <1>10 DEF WalkRecords

WalksAlong(w, pnls) ==
  /\ w \in [0 .. Len(pnls) -> WalkRecords]
  /\ w[0] = NotWalked /\ \A k \in 1 .. Len(pnls) : w[k] = Walked(w[k - 1], pnls[k])

LEMMA WalksExist ==
  ASSUME NEW pnls \in Seq(Int)
  PROVE  \E w : WalksAlong(w, pnls)
<1> DEFINE n == Len(pnls)
           step == [k \in 1 .. n |-> [acc \in WalkRecords |-> Walked(acc, pnls[k])]]
<1>1. n \in Nat /\ \A k \in 1 .. n : pnls[k] \in Int
  BY LenProperties, ElementOfSeq
<1>2. \A k \in 1 .. n, acc \in WalkRecords : Walked(acc, pnls[k]) \in WalkRecords
  BY <1>1, WalkedDoes
<1>3. step \in [1 .. n -> [WalkRecords -> WalkRecords]]
  BY <1>2
<1>4. NotWalked \in WalkRecords
  BY DEF NotWalked, WalkRecords
<1>5. Recursion(n, WalkRecords, NotWalked, step)
  BY <1>1, <1>3, <1>4 DEF Recursion
<1>6. \A k \in 1 .. n, acc \in WalkRecords : step[k][acc] = Walked(acc, pnls[k])
  OBVIOUS
<1> HIDE DEF step
<1>7. PICK w : Recursive(w, n, WalkRecords, NotWalked, step)
  BY <1>5, RecursionExists
<1>8. \A k \in 1 .. n : k - 1 \in 0 .. n
  BY <1>1
<1>9. WalksAlong(w, pnls)
  BY <1>6, <1>7, <1>8 DEF WalksAlong, Recursive
<1> QED
  BY <1>9

LEMMA WalkIs ==
  ASSUME NEW pnls \in Seq(Int), NEW w, WalksAlong(w, pnls)
  PROVE  Walk(pnls) = w[Len(pnls)]
<1> DEFINE n == Len(pnls)
           Says(f) == f = [k \in 0 .. n |-> IF k = 0 THEN NotWalked ELSE Walked(f[k - 1], pnls[k])]
           f == CHOOSE f : Says(f)
<1>0. n \in Nat
  BY LenProperties
<1>1. Says(w)
  <2>1. w = [k \in 0 .. n |-> w[k]]
    BY DEF WalksAlong
  <2>2. \A k \in 0 .. n : w[k] = IF k = 0 THEN NotWalked ELSE Walked(w[k - 1], pnls[k])
    BY <1>0 DEF WalksAlong
  <2> QED
    BY <2>1, <2>2
<1>2. Says(f)
  BY <1>1
<1>3. Walk(pnls) = f[n]
  BY DEF Walk
<1>4. f[0] = NotWalked /\ \A k \in 1 .. n : f[k] = Walked(f[k - 1], pnls[k])
  <2> HIDE DEF f
  <2>1. \A k \in 0 .. n : f[k] = IF k = 0 THEN NotWalked ELSE Walked(f[k - 1], pnls[k])
    BY <1>2
  <2> QED
    BY <1>0, <2>1
<1> HIDE DEF f
<1> DEFINE H == {k \in 0 .. n : f[k] = w[k]}
<1>5. 0 \in H
  BY <1>0, <1>4 DEF WalksAlong
<1>6. ASSUME NEW k \in 0 .. n - 1, k \in H PROVE k + 1 \in H
  <2>1. k + 1 \in 1 .. n /\ (k + 1) - 1 = k
    BY <1>0
  <2> QED
    BY <1>0, <1>4, <1>6, <2>1 DEF WalksAlong
<1> HIDE DEF H
<1>7. n \in H
  BY <1>0, <1>5, <1>6, CountingInduction
<1> QED
  BY <1>3, <1>7 DEF H

\* Of the first days: the equity walked is their sum, the peak their highest, the worst gap the
\* largest fall, and gaps, squares and days under water appear together.
WalkTells(w, h, k) ==
  /\ w[k].eq = h[k]
  /\ \E i \in 0 .. k : w[k].peak = h[i]
  /\ \A i \in 0 .. k : h[i] <= w[k].peak
  /\ \E i, j \in 0 .. k : i <= j /\ w[k].worst = h[i] - h[j]
  /\ \A i, j \in 0 .. k : i <= j => h[i] - h[j] <= w[k].worst
  /\ w[k].squares >= 0
  /\ w[k].worst > 0 <=> w[k].squares > 0
  /\ w[k].worst > 0 <=> w[k].longest > 0

LEMMA Squared == ASSUME NEW a \in Nat PROVE a * a \in Nat /\ (a > 0 => a * a > 0)
<1>1. ASSUME a > 0 PROVE a * a >= 1 * a
  BY <1>1
<1> QED
  BY <1>1

LEMMA WalkTellsOn ==
  ASSUME NEW pnls \in Seq(Int), NEW h, SumsAlong(h, pnls), NEW w, WalksAlong(w, pnls),
         NEW k \in 0 .. Len(pnls) - 1, WalkTells(w, h, k)
  PROVE  WalkTells(w, h, k + 1)
<1>1. /\ k \in Nat /\ k \in 0 .. Len(pnls) /\ k + 1 \in 1 .. Len(pnls) /\ k + 1 \in 0 .. Len(pnls)
      /\ (k + 1) - 1 = k /\ 0 .. k + 1 = (0 .. k) \cup {k + 1} /\ 0 .. k + 1 \subseteq 0 .. Len(pnls)
  BY LenProperties
<1>2. PICK pnl \in Int : pnl = pnls[k + 1]
  BY <1>1, ElementOfSeq
<1>3. PICK acc \in WalkRecords : acc = w[k]
  BY <1>1 DEF WalksAlong
<1>4. PICK new : new = Walked(acc, pnl)
  OBVIOUS
<1>5. w[k + 1] = new
  BY <1>1, <1>2, <1>3, <1>4 DEF WalksAlong
<1>6. /\ new.eq \in Int /\ new.peak \in Int /\ new.worst \in Int /\ new.squares \in Int
      /\ new.run \in Nat /\ new.longest \in Nat
      /\ acc.eq \in Int /\ acc.peak \in Int /\ acc.worst \in Int /\ acc.squares \in Int
      /\ acc.run \in Nat /\ acc.longest \in Nat
  BY <1>4, WalkedDoes DEF WalkRecords
<1>7. PICK eq \in Int, peak \in Int, worst \in Int, squares \in Int :
        eq = new.eq /\ peak = new.peak /\ worst = new.worst /\ squares = new.squares
  BY <1>6
<1>8. PICK before \in Int, fell \in Int, summed \in Int :
        before = acc.peak /\ fell = acc.worst /\ summed = acc.squares
  BY <1>6
<1>9. PICK run \in Nat, longest \in Nat, long \in Nat :
        run = new.run /\ longest = new.longest /\ long = acc.longest
  BY <1>6
<1>10. PICK gap \in Int : gap = peak - eq
  OBVIOUS
<1>11. /\ eq = acc.eq + pnl
       /\ peak = (IF before >= eq THEN before ELSE eq)
       /\ worst = (IF fell >= gap THEN fell ELSE gap)
       /\ squares = summed + gap * gap
       /\ run = (IF eq < peak THEN acc.run + 1 ELSE 0)
       /\ longest = (IF long >= run THEN long ELSE run)
  <2>1. PICK dip : dip = new.peak - new.eq
    OBVIOUS
  <2>2. /\ new.eq = acc.eq + pnl
        /\ new.peak = (IF acc.peak >= new.eq THEN acc.peak ELSE new.eq)
        /\ new.worst = (IF acc.worst >= dip THEN acc.worst ELSE dip)
        /\ new.squares = acc.squares + dip * dip
        /\ new.run = (IF new.eq < new.peak THEN acc.run + 1 ELSE 0)
        /\ new.longest = (IF acc.longest >= new.run THEN acc.longest ELSE new.run)
    BY <1>4, <2>1, WalkedDoes
  <2>3. dip = gap
    BY <1>7, <1>10, <2>1
  <2> QED
    BY <1>7, <1>8, <1>9, <2>2, <2>3
<1>12. h[k + 1] = h[k] + pnl /\ \A i \in 0 .. k + 1 : h[i] \in Int
  BY <1>1, <1>2 DEF SumsAlong
<1>13. eq = h[k + 1]
  BY <1>3, <1>11, <1>12 DEF WalkTells
<1>14. gap \in Nat /\ (gap > 0 <=> eq < peak)
  <2>1. eq <= peak
    BY <1>11
  <2> QED
    BY <1>10, <2>1
<1>15. \E i \in 0 .. k + 1 : peak = h[i]
  BY <1>1, <1>3, <1>8, <1>11, <1>13 DEF WalkTells
<1>16. ASSUME NEW i \in 0 .. k + 1 PROVE h[i] <= peak
  <2>1. before <= peak /\ eq <= peak
    BY <1>11
  <2>2. CASE i \in 0 .. k
    <3>1. h[i] <= before /\ h[i] \in Int
      BY <1>3, <1>8, <1>12, <2>2 DEF WalkTells
    <3> QED
      BY <2>1, <3>1
  <2>3. CASE i = k + 1
    BY <1>13, <2>1, <2>3
  <2> QED
    BY <1>1, <2>2, <2>3
<1>17. \E i, j \in 0 .. k + 1 : i <= j /\ worst = h[i] - h[j]
  <2>1. CASE worst = fell
    BY <1>1, <1>3, <1>8, <2>1 DEF WalkTells
  <2>2. CASE worst = gap
    <3>1. PICK i \in 0 .. k + 1 : peak = h[i]
      BY <1>15
    <3>2. i <= k + 1 /\ k + 1 \in 0 .. k + 1
      BY <1>1
    <3> QED
      BY <1>10, <1>13, <2>2, <3>1, <3>2
  <2> QED
    BY <1>11, <2>1, <2>2
<1>18. ASSUME NEW i \in 0 .. k + 1, NEW j \in 0 .. k + 1, i <= j PROVE h[i] - h[j] <= worst
  <2>1. PICK x \in Int, y \in Int : x = h[i] /\ y = h[j]
    BY <1>12
  <2>2. fell <= worst /\ gap <= worst
    BY <1>11
  <2>3. CASE j \in 0 .. k
    <3>1. i \in 0 .. k
      BY <1>1, <1>18, <2>3
    <3>2. x - y <= fell
      BY <1>3, <1>8, <1>18, <2>1, <2>3, <3>1 DEF WalkTells
    <3> QED
      BY <2>1, <2>2, <3>2
  <2>4. CASE j = k + 1
    <3>1. x <= peak /\ y = eq
      BY <1>13, <1>16, <2>1, <2>4
    <3>2. x - y <= gap
      BY <1>10, <3>1
    <3> QED
      BY <2>1, <2>2, <3>2
  <2> QED
    BY <1>1, <2>3, <2>4
<1>19. summed >= 0 /\ (fell > 0 <=> summed > 0) /\ (fell > 0 <=> long > 0)
  BY <1>3, <1>8, <1>9 DEF WalkTells
<1>20. PICK square \in Nat : square = gap * gap /\ (gap > 0 <=> square > 0)
  <2>1. gap = 0 => gap * gap = 0
    OBVIOUS
  <2> QED
    BY <1>14, <2>1, Squared
<1>21. squares = summed + square
  BY <1>11, <1>20
<1>22. worst > 0 <=> fell > 0 \/ gap > 0
  BY <1>11, <1>14
<1>23. squares >= 0 /\ (squares > 0 <=> summed > 0 \/ square > 0)
  BY <1>19, <1>21
<1>24. worst > 0 <=> squares > 0
  BY <1>19, <1>20, <1>22, <1>23
<1>25. longest > 0 <=> long > 0 \/ run > 0
  BY <1>11
<1>26. run > 0 <=> gap > 0
  BY <1>6, <1>11, <1>14
<1>27. worst > 0 <=> longest > 0
  BY <1>19, <1>22, <1>25, <1>26
<1> QED
  BY <1>5, <1>7, <1>9, <1>13, <1>15, <1>16, <1>17, <1>18, <1>23, <1>24, <1>27 DEF WalkTells

LEMMA WalkTold ==
  ASSUME NEW pnls \in Seq(Int), NEW h, SumsAlong(h, pnls), NEW w, WalksAlong(w, pnls)
  PROVE  WalkTells(w, h, Len(pnls))
<1> DEFINE n == Len(pnls)
           H == {k \in 0 .. n : WalkTells(w, h, k)}
<1>1. n \in Nat
  BY LenProperties
<1>2. 0 \in H
  <2>1. h[0] = 0 /\ w[0] = NotWalked
    BY DEF SumsAlong, WalksAlong
  <2>2. 0 .. 0 = {0} /\ 0 \in 0 .. n
    BY <1>1
  <2>3. /\ w[0].eq = 0 /\ w[0].peak = 0 /\ w[0].worst = 0 /\ w[0].squares = 0 /\ w[0].longest = 0
    BY <2>1 DEF NotWalked
  <2>4. WalkTells(w, h, 0)
    BY <2>1, <2>2, <2>3 DEF WalkTells
  <2> QED
    BY <2>2, <2>4
<1>3. ASSUME NEW k \in 0 .. n - 1, k \in H PROVE k + 1 \in H
  <2>1. k + 1 \in 0 .. n
    BY <1>1
  <2>2. WalkTells(w, h, k + 1)
    BY <1>3, WalkTellsOn
  <2> QED
    BY <2>1, <2>2
<1> HIDE DEF H
<1>4. n \in H
  BY <1>1, <1>2, <1>3, CountingInduction
<1> QED
  BY <1>4 DEF H

\* The drawdown is the largest fall of the days' equity.
LEMMA DrawdownsAgree == ASSUME NEW pnls \in Seq(Int) PROVE DrawdownAgrees(pnls)
<1> SUFFICES ASSUME pnls # <<>> PROVE DrawdownAgrees(pnls)
  BY DEF DrawdownAgrees
<1> DEFINE n == Len(pnls)
           ordered == {p \in (0 .. n) \X (0 .. n) : p[1] <= p[2]}
<1>1. PICK h : SumsAlong(h, pnls)
  BY SumsExist
<1>2. PICK w : WalksAlong(w, pnls)
  BY WalksExist
<1>3. n \in Nat /\ n \in 0 .. n
  BY LenProperties
<1>4. PICK walk \in WalkRecords : walk = w[n] /\ Walk(pnls) = walk
  BY <1>2, <1>3, WalkIs DEF WalksAlong
<1>5. /\ \E i, j \in 0 .. n : i <= j /\ walk.worst = h[i] - h[j]
      /\ \A i, j \in 0 .. n : i <= j => h[i] - h[j] <= walk.worst
      /\ walk.worst > 0 <=> walk.squares > 0
      /\ walk.worst > 0 <=> walk.longest > 0
  BY <1>1, <1>2, <1>4, WalkTold DEF WalkTells
<1>6. walk.worst \in Int /\ walk.squares \in Int /\ walk.longest \in Nat
  BY DEF WalkRecords
<1>7. Nav \in Nat \ {0}
  BY SheetsAssumption
<1>8. /\ MaxDrawdown(pnls, 1).n = walk.worst
      /\ DrawdownMonths(pnls).n = walk.longest
      /\ Ulcer(pnls).n = walk.squares * 10000
  BY <1>4, <1>6, <1>7 DEF MaxDrawdown, DrawdownMonths, Ulcer, Ratio, Root
<1>9. \A i \in 0 .. n : Equity(pnls, i) = h[i] /\ h[i] \in Int
  BY <1>1, EquityIs DEF SumsAlong
<1>10. PICK falls : falls = {Equity(pnls, p[1]) - Equity(pnls, p[2]) : p \in ordered}
  OBVIOUS
<1>11. walk.worst \in falls
  <2>1. PICK i, j \in 0 .. n : i <= j /\ walk.worst = h[i] - h[j]
    BY <1>5
  <2>2. PICK p : p = <<i, j>>
    OBVIOUS
  <2>3. p \in ordered /\ walk.worst = Equity(pnls, p[1]) - Equity(pnls, p[2])
    BY <1>9, <2>1, <2>2
  <2> QED
    BY <1>10, <2>3
<1>12. ASSUME NEW x \in falls PROVE x \in Int /\ x <= walk.worst
  <2>1. PICK p \in ordered : x = Equity(pnls, p[1]) - Equity(pnls, p[2])
    BY <1>10
  <2>2. p[1] \in 0 .. n /\ p[2] \in 0 .. n /\ p[1] <= p[2]
    OBVIOUS
  <2>3. x = h[p[1]] - h[p[2]] /\ h[p[1]] \in Int /\ h[p[2]] \in Int
    BY <1>9, <2>1, <2>2
  <2> QED
    BY <1>5, <2>2, <2>3
<1>13. Max(falls) = walk.worst
  <2>1. falls \in SUBSET Int
    BY <1>12
  <2> QED
    BY <1>11, <1>12, <2>1, GreatestIs
<1>14. Ulcer(pnls).n > 0 <=> walk.squares > 0
  BY <1>6, <1>8
<1> QED
  BY <1>5, <1>8, <1>10, <1>13, <1>14 DEF DrawdownAgrees

\* Grades and verdicts.
Letters == {"empty", "PASS", "WARN", "FAIL"}

LEMMA EvaluateIs == ASSUME NEW value, NEW row PROVE Evaluate(value, row) \in Letters
  BY DEF Evaluate, Letters

LEMMA GradesAre == ASSUME NEW rows, NEW values, NEW days PROVE Grades(rows, values, days) \in [rows -> Letters]
  BY EvaluateIs DEF Grades

LEMMA OptionStages == \A row \in OptionRows : row.stage \in {"s1", "s2", "s3", "s4", "s5", "exec"}
<1>1. \A row \in PerformanceRows : row.stage = "s1"
  BY DEF PerformanceRows, Row
<1>2. \A row \in RobustnessRows : row.stage = "s2"
  BY DEF RobustnessRows, Row
<1>3. \A row \in AttributionRows : row.stage = "s3"
  BY DEF AttributionRows, Row
<1>4. \A row \in LiveRows : row.stage \in {"s4", "s5", "exec"}
  BY DEF LiveRows, Row
<1> QED
  BY <1>1, <1>2, <1>3, <1>4 DEF OptionRows

LEMMA FutureStages == \A row \in FutureRows : row.stage # "exec"
<1>1. \A row \in ValidityRows : row.stage \in {"t0", "t1"}
  BY DEF ValidityRows, Row
<1>2. \A row \in DrawdownRows : row.stage = "t2"
  BY DEF DrawdownRows, Row
<1>3. \A row \in QualityRows : row.stage \in {"t3", "t4"}
  BY DEF QualityRows, Row
<1> QED
  BY <1>1, <1>2, <1>3 DEF FutureRows

\* A stage fails for a critical row, and passes when every row it measured does.
LEMMA StageVerdictIs ==
  ASSUME NEW rows, NEW grades \in [rows -> Letters], NEW id
  PROVE  LET v == StageVerdict(grades, id)
         IN /\ v \in Letters
            /\ v = "FAIL" <=> \E row \in rows : row.stage = id /\ row.critical /\ grades[row] = "FAIL"
            /\ v = "PASS" <=> /\ \E row \in rows : row.stage = id /\ grades[row] = "PASS"
                              /\ \A row \in rows : row.stage = id => grades[row] \in {"empty", "PASS"}
            /\ v = "empty" <=> \A row \in rows : row.stage = id => grades[row] = "empty"
<1> DEFINE has(grade) == \E row \in rows : row.stage = id /\ grades[row] = grade
           blank == \A row \in rows : row.stage = id => grades[row] = "empty"
           failed == \E row \in rows : row.stage = id /\ row.critical /\ grades[row] = "FAIL"
           v == StageVerdict(grades, id)
<1>1. Stage(grades, id) = {row \in rows : row.stage = id}
  BY DEF Stage
<1>2. \A row \in rows : grades[row] \in {"empty", "PASS", "WARN", "FAIL"}
  BY DEF Letters
<1>3. v = CASE blank -> "empty" [] failed -> "FAIL" [] ~failed /\ (has("FAIL") \/ has("WARN")) -> "WARN"
            [] OTHER -> "PASS"
  BY <1>1 DEF StageVerdict
<1>4. /\ blank => ~failed /\ ~has("FAIL") /\ ~has("WARN") /\ ~has("PASS")
      /\ ~blank => has("PASS") \/ has("WARN") \/ has("FAIL")
      /\ failed => has("FAIL")
  BY <1>2
<1>5. (\A row \in rows : row.stage = id => grades[row] \in {"empty", "PASS"}) <=> ~has("WARN") /\ ~has("FAIL")
  BY <1>2
<1>6. PICK none, fails, warns, passes, fell :
        /\ none = blank /\ fails = has("FAIL") /\ warns = has("WARN") /\ passes = has("PASS") /\ fell = failed
  OBVIOUS
<1>7. CASE blank
  <2>1. v = "empty"
    BY <1>3, <1>4, <1>7
  <2> QED
    BY <1>4, <1>7, <2>1 DEF Letters
<1>8. CASE failed
  <2>1. v = "FAIL"
    BY <1>3, <1>4, <1>8
  <2> QED
    BY <1>4, <1>5, <1>8, <2>1 DEF Letters
<1>9. CASE ~blank /\ ~failed /\ (has("FAIL") \/ has("WARN"))
  <2>1. v = "WARN"
    BY <1>3, <1>9
  <2> QED
    BY <1>4, <1>5, <1>9, <2>1 DEF Letters
<1>10. CASE ~blank /\ ~failed /\ ~has("FAIL") /\ ~has("WARN")
  <2>1. v = "PASS"
    BY <1>3, <1>10
  <2> QED
    BY <1>4, <1>5, <1>10, <2>1 DEF Letters
<1> QED
  BY <1>7, <1>8, <1>9, <1>10

Scored(grades) == {grades[row] : row \in {r \in DOMAIN grades : r.stage # "exec"}} \ {"empty"}

LEMMA OptionsVerdict ==
  ASSUME NEW rows, NEW grades \in [rows -> Letters],
         \A row \in rows : row.stage \in {"s1", "s2", "s3", "s4", "s5", "exec"}
  PROVE  /\ OptionsOverall(grades) = "PASS" <=> Scored(grades) = {"PASS"}
         /\ OptionsOverall(grades) = "FAIL" <=>
              \E row \in DOMAIN grades : row.stage # "exec" /\ row.critical /\ grades[row] = "FAIL"
<1> DEFINE stages == {"s1", "s2", "s3", "s4", "s5"}
           given == {StageVerdict(grades, id) : id \in stages}
<1>0. DOMAIN grades = rows /\ \A row \in rows : row.stage \in stages <=> row.stage # "exec"
  OBVIOUS
<1>1. OptionsOverall(grades) = IF "FAIL" \in given THEN "FAIL" ELSE IF "WARN" \in given THEN "WARN"
        ELSE IF "PASS" \in given THEN "PASS" ELSE "empty"
  BY DEF OptionsOverall
<1> HIDE DEF stages
<1>2. ASSUME NEW id \in stages
      PROVE  /\ StageVerdict(grades, id) \in Letters
             /\ StageVerdict(grades, id) = "FAIL" <=>
                  \E row \in rows : row.stage = id /\ row.critical /\ grades[row] = "FAIL"
             /\ StageVerdict(grades, id) = "PASS" <=>
                  /\ \E row \in rows : row.stage = id /\ grades[row] = "PASS"
                  /\ \A row \in rows : row.stage = id => grades[row] \in {"empty", "PASS"}
             /\ StageVerdict(grades, id) = "empty" <=>
                  \A row \in rows : row.stage = id => grades[row] = "empty"
  BY StageVerdictIs
<1>3. "FAIL" \in given <=>
        \E row \in rows : row.stage # "exec" /\ row.critical /\ grades[row] = "FAIL"
  <2>1. ASSUME "FAIL" \in given
        PROVE  \E row \in rows : row.stage # "exec" /\ row.critical /\ grades[row] = "FAIL"
    <3>1. PICK id \in stages : StageVerdict(grades, id) = "FAIL"
      BY <2>1
    <3>2. PICK row \in rows : row.stage = id /\ row.critical /\ grades[row] = "FAIL"
      BY <1>2, <3>1
    <3> QED
      BY <1>0, <3>2
  <2>2. ASSUME NEW row \in rows, row.stage # "exec", row.critical, grades[row] = "FAIL"
        PROVE  "FAIL" \in given
    <3>1. PICK id \in stages : id = row.stage
      BY <1>0, <2>2
    <3>2. StageVerdict(grades, id) = "FAIL"
      BY <1>2, <2>2, <3>1
    <3> QED
      BY <3>2
  <2> QED
    BY <2>1, <2>2
<1>4. \A row \in rows : grades[row] \in {"empty", "PASS", "WARN", "FAIL"}
  BY DEF Letters
<1>5. ASSUME OptionsOverall(grades) = "PASS" PROVE Scored(grades) = {"PASS"}
  <2>1. "FAIL" \notin given /\ "WARN" \notin given /\ "PASS" \in given
    BY <1>1, <1>5
  <2>2. ASSUME NEW row \in rows, row.stage # "exec" PROVE grades[row] \in {"empty", "PASS"}
    <3>1. PICK id \in stages : id = row.stage
      BY <1>0, <2>2
    <3>2. StageVerdict(grades, id) \in {"empty", "PASS"}
      <4>1. StageVerdict(grades, id) \in given
        OBVIOUS
      <4>2. StageVerdict(grades, id) \in Letters
        BY <1>2
      <4> QED
        BY <2>1, <4>1, <4>2 DEF Letters
    <3>3. CASE StageVerdict(grades, id) = "empty"
      BY <1>2, <3>1, <3>3
    <3>4. CASE StageVerdict(grades, id) = "PASS"
      BY <1>2, <3>1, <3>4
    <3> QED
      BY <3>2, <3>3, <3>4
  <2>3. PICK row \in rows : row.stage # "exec" /\ grades[row] = "PASS"
    <3>1. PICK id \in stages : StageVerdict(grades, id) = "PASS"
      BY <2>1
    <3>2. PICK row \in rows : row.stage = id /\ grades[row] = "PASS"
      BY <1>2, <3>1
    <3> QED
      BY <1>0, <3>2
  <2> QED
    BY <1>0, <2>2, <2>3 DEF Scored
<1>6. ASSUME Scored(grades) = {"PASS"} PROVE OptionsOverall(grades) = "PASS"
  <2>1. \A row \in rows : row.stage # "exec" => grades[row] \in {"empty", "PASS"}
    BY <1>0, <1>6 DEF Scored
  <2>2. PICK row \in rows : row.stage # "exec" /\ grades[row] = "PASS"
    BY <1>0, <1>6 DEF Scored
  <2>3. PICK id \in stages : id = row.stage
    BY <1>0, <2>2
  <2>4. StageVerdict(grades, id) = "PASS"
    <3>1. \A other \in rows : other.stage = id => grades[other] \in {"empty", "PASS"}
      BY <1>0, <2>1
    <3> QED
      BY <1>2, <2>2, <2>3, <3>1
  <2>5. "PASS" \in given
    BY <2>4
  <2>6. "FAIL" \notin given
    <3>1. ASSUME NEW other \in rows, other.stage # "exec" PROVE grades[other] # "FAIL"
      BY <2>1, <3>1
    <3> QED
      BY <1>3, <3>1
  <2>7. ASSUME NEW other \in stages PROVE StageVerdict(grades, other) # "WARN"
    <3>1. \A any \in rows : any.stage = other => grades[any] \in {"empty", "PASS"}
      BY <1>0, <2>1
    <3>2. CASE \E any \in rows : any.stage = other /\ grades[any] = "PASS"
      <4>1. StageVerdict(grades, other) = "PASS"
        BY <1>2, <3>1, <3>2
      <4> QED
        BY <4>1
    <3>3. CASE ~ \E any \in rows : any.stage = other /\ grades[any] = "PASS"
      <4>1. \A any \in rows : any.stage = other => grades[any] = "empty"
        BY <3>1, <3>3
      <4>2. StageVerdict(grades, other) = "empty"
        BY <1>2, <4>1
      <4> QED
        BY <4>2
    <3> QED
      BY <3>2, <3>3
  <2>8. "WARN" \notin given
    BY <2>7
  <2> QED
    BY <1>1, <2>5, <2>6, <2>8
<1>7. OptionsOverall(grades) = "FAIL" <=> "FAIL" \in given
  <2> HIDE DEF given
  <2> QED
    BY <1>1
<1> QED
  BY <1>0, <1>3, <1>5, <1>6, <1>7

LEMMA FuturesVerdict ==
  ASSUME NEW rows, NEW grades \in [rows -> Letters], \A row \in rows : row.stage # "exec"
  PROVE  /\ FuturesOverall(grades) = "PASS" <=> Scored(grades) = {"PASS"}
         /\ FuturesOverall(grades) = "REJECTED" <=>
              \E row \in DOMAIN grades : row.stage = "t0" /\ grades[row] = "FAIL"
<1> DEFINE found == {grades[row] : row \in DOMAIN grades} \ {"empty"}
           tier == TierVerdict(grades, "t0")
<1>1. Scored(grades) = found /\ DOMAIN grades = rows
  BY DEF Scored
<1>2. found \subseteq {"PASS", "WARN", "FAIL"}
  BY DEF Letters
<1>3. tier = "FAIL" <=> \E row \in DOMAIN grades : row.stage = "t0" /\ grades[row] = "FAIL"
  <2> DEFINE seen == {grades[row] : row \in Stage(grades, "t0")} \ {"empty"}
  <2>1. tier = IF seen = {} THEN "empty" ELSE IF "FAIL" \in seen THEN "FAIL"
               ELSE IF "WARN" \in seen THEN "WARN" ELSE "PASS"
    BY DEF TierVerdict
  <2>2. "FAIL" \in seen <=> \E row \in DOMAIN grades : row.stage = "t0" /\ grades[row] = "FAIL"
    BY DEF Stage
  <2> HIDE DEF seen, tier
  <2>3. "FAIL" \in seen => seen # {}
    OBVIOUS
  <2> QED
    BY <2>1, <2>2, <2>3
<1>4. tier = "FAIL" => "FAIL" \in found
  <2>1. ASSUME tier = "FAIL" PROVE "FAIL" \in found
    <3>1. PICK row \in DOMAIN grades : grades[row] = "FAIL"
      BY <1>3, <2>1
    <3> QED
      BY <3>1
  <2> QED
    BY <2>1
<1>5. FuturesOverall(grades) =
        CASE found = {} -> "empty"
          [] found # {} /\ tier = "FAIL" -> "REJECTED"
          [] tier # "FAIL" /\ "FAIL" \in found -> "CONDITIONAL"
          [] "FAIL" \notin found /\ "WARN" \in found -> "MARGINAL"
          [] OTHER -> "PASS"
  BY DEF FuturesOverall
<1> HIDE DEF found, tier
<1>6. CASE found = {}
  <2>1. FuturesOverall(grades) = "empty" /\ tier # "FAIL"
    BY <1>4, <1>5, <1>6
  <2> QED
    BY <1>1, <1>3, <1>6, <2>1
<1>7. CASE tier = "FAIL"
  <2>1. FuturesOverall(grades) = "REJECTED" /\ "FAIL" \in found
    BY <1>4, <1>5, <1>7
  <2>2. found # {"PASS"}
    BY <2>1
  <2> QED
    BY <1>1, <1>3, <1>7, <2>1, <2>2
<1>8. CASE tier # "FAIL" /\ "FAIL" \in found
  <2>1. FuturesOverall(grades) = "CONDITIONAL"
    BY <1>5, <1>8
  <2>2. found # {"PASS"}
    BY <1>8
  <2> QED
    BY <1>1, <1>3, <1>8, <2>1, <2>2
<1>9. CASE tier # "FAIL" /\ "FAIL" \notin found /\ "WARN" \in found
  <2>1. FuturesOverall(grades) = "MARGINAL"
    BY <1>5, <1>9
  <2>2. found # {"PASS"}
    BY <1>9
  <2> QED
    BY <1>1, <1>3, <1>9, <2>1, <2>2
<1>10. CASE tier # "FAIL" /\ "FAIL" \notin found /\ "WARN" \notin found /\ found # {}
  <2>1. FuturesOverall(grades) = "PASS"
    BY <1>5, <1>10
  <2>2. found = {"PASS"}
    BY <1>2, <1>10
  <2> QED
    BY <1>1, <1>3, <1>10, <2>1, <2>2
<1> QED
  BY <1>6, <1>7, <1>8, <1>9, <1>10

LEMMA VerdictsDo == VerdictsFollow
<1>1. PICK opt, fut : opt = OptionGrades /\ fut = FutureGrades
  OBVIOUS
<1>2. opt \in [OptionRows -> Letters] /\ fut \in [FutureRows -> Letters]
  BY <1>1, GradesAre DEF OptionGrades, FutureGrades
<1>3. /\ OptionsOverall(opt) = "PASS" <=> Scored(opt) = {"PASS"}
      /\ OptionsOverall(opt) = "FAIL" <=>
           \E row \in DOMAIN opt : row.stage # "exec" /\ row.critical /\ opt[row] = "FAIL"
  BY <1>2, OptionStages, OptionsVerdict
<1>4. /\ FuturesOverall(fut) = "PASS" <=> Scored(fut) = {"PASS"}
      /\ FuturesOverall(fut) = "REJECTED" <=>
           \E row \in DOMAIN fut : row.stage = "t0" /\ fut[row] = "FAIL"
  BY <1>2, FutureStages, FuturesVerdict
<1> QED
  BY <1>1, <1>3, <1>4 DEF VerdictsFollow, Scored

\* What the sheets say of the published days is so, whatever is published.
LEMMA SheetsTell == SheetsTypeOK => SheetsAgree
<1> SUFFICES ASSUME SheetsTypeOK PROVE SheetsAgree
  OBVIOUS
<1>1. DOMAIN reports = 1 .. Len(reports) /\ Len(reports) \in Nat
  BY LenProperties DEF SheetsTypeOK
<1>2. ASSUME NEW i \in DOMAIN reports
      PROVE  /\ reports[i].day \in DOMAIN Calendar
             /\ reports[i].book.opt \in Seq(Int) /\ reports[i].book.fut \in Seq(Int)
  <2> DEFINE R == [day : DOMAIN Calendar, book : DayBooks]
  <2>1. reports \in Seq(R) /\ i \in 1 .. Len(reports)
    BY <1>1 DEF SheetsTypeOK
  <2> HIDE DEF R
  <2>2. reports[i] \in R
    BY <2>1, ElementOfSeq
  <2>3. reports[i].day \in DOMAIN Calendar /\ reports[i].book \in DayBooks
    BY <2>2 DEF R
  <2> QED
    BY <2>3, BooksAssumption
<1>3. WeeksAreWeeks
  <2> SUFFICES ASSUME NEW i \in DOMAIN reports, NEW j \in DOMAIN reports
               PROVE  IsoWeek(DayOf(reports[i])) = IsoWeek(DayOf(reports[j])) <=>
                        DayOf(reports[i]).ord \div 7 = DayOf(reports[j]).ord \div 7
    BY DEF WeeksAreWeeks
  <2>1. PICK a, b \in DOMAIN Calendar : a = reports[i].day /\ b = reports[j].day
    BY <1>2
  <2>2. Calendar[a].ord \div 7 = Calendar[b].ord \div 7 <=>
          Calendar[a].isoYear = Calendar[b].isoYear /\ Calendar[a].isoWeek = Calendar[b].isoWeek
    BY WeeksAssumption
  <2> QED
    BY <2>1, <2>2 DEF IsoWeek, DayOf
<1>4. OptionPnls(reports) \in Seq(Int)
  <2>1. \A i \in 1 .. Len(reports) : Total(reports[i].book.opt) \in Int
    BY <1>1, <1>2, TotalTyped
  <2>2. OptionPnls(reports) \in [1 .. Len(reports) -> Int]
    BY <1>1, <2>1 DEF OptionPnls
  <2> QED
    BY <1>1, <2>2
<1>5. FuturePnls(reports) \in Seq(Int)
  <2>1. \A i \in 1 .. Len(reports) : Total(reports[i].book.fut) \in Int
    BY <1>1, <1>2, TotalTyped
  <2>2. FuturePnls(reports) \in [1 .. Len(reports) -> Int]
    BY <1>1, <2>1 DEF FuturePnls
  <2> QED
    BY <1>1, <2>2
<1> QED
  BY <1>3, <1>4, <1>5, DrawdownsAgree, VerdictsDo DEF SheetsAgree

-----------------------------------------------------------------------------
\* Whichever component runs, its variables have their types.
THEOREM HqTyping == HqSpec => []HqTypeOK
<1>1. HqSpec => /\ BindingsSpec /\ DaemonsSpec /\ ExecutionSpec /\ InboxSpec
                /\ DumpsSpec /\ CompetitionSpec /\ SentimentSpec /\ SandboxSpec
  BY ComponentsBegin, ComponentSteps, PTL
     DEF HqSpec, BindingsSpec, DaemonsSpec, ExecutionSpec, InboxSpec, DumpsSpec, CompetitionSpec,
         SentimentSpec, SandboxSpec
<1>2. HqSpec => []ReplayInv /\ []CardsEarned
  BY ReplaysBegin, ReplaySteps, CardsBegin, CardsContinue, ComponentSteps, PTL DEF HqSpec
<1>3. GatesInit => GatesTypeOK
  BY GatesAssumption DEF GatesInit, GatesTypeOK, KillCooldown
<1>4. SheetsInit => SheetsTypeOK
  BY EmptySeq, LenProperties DEF SheetsInit, SheetsTypeOK
<1>5. HqSpec => []GatesTypeOK /\ []SheetsTypeOK
  BY <1>3, <1>4, GatesStep, SheetsStep, ComponentsBegin, ComponentSteps, PTL DEF HqSpec
<1>6. HqInit => part \in Parts
  BY DEF HqInit
<1>7. part \in Parts /\ [HqNext]_HqVars => (part \in Parts)'
  BY DEF HqNext, HqVars, Others
<1>8. HqSpec => [](part \in Parts)
  BY <1>6, <1>7, PTL DEF HqSpec
<1>9. /\ part \in Parts /\ BindingsTypeOK /\ DaemonsTypeOK /\ ExecutionTypeOK /\ InboxTypeOK
      /\ DumpsTypeOK /\ CompetitionTypeOK /\ SentimentTypeOK /\ SandboxTypeOK
      /\ GatesTypeOK /\ SheetsTypeOK /\ ReplayTypeOK /\ CardsEarned
      => HqTypeOK
  BY DEF HqTypeOK, CardsEarned, GateInv
<1> QED
  BY <1>1, <1>2, <1>5, <1>8, <1>9, ReplayTells, BindingsAreDistinct, DaemonsAreSound,
     ExecutionIsCovered, InstructionsAreObeyed, DumpsAreKept, EntrantsAreSound, SlotsAreWhole,
     RunsAreListed, PTL

\* Whatever days are published and published again, the sheets' weeks, drawdowns and verdicts
\* agree with the days; and the report of a replay shows, day by day, the P&L of the trades its saved
\* state brought along and of those the live-parity replay booked and counted, and the largest fall
\* of the equity (compute_sandbox_metrics).
THEOREM ReportsAreTrue == HqSpec => []ReportsAgree
<1>1. SheetsInit => SheetsTypeOK
  BY EmptySeq, LenProperties DEF SheetsInit, SheetsTypeOK
<1>2. HqSpec => []SheetsAgree
  BY <1>1, SheetsStep, SheetsTell, ComponentsBegin, ComponentSteps, PTL DEF HqSpec
<1>3. HqSpec => []ReportMatchesReplay
  BY ReplaysBegin, ReplaySteps, BooksStep, ReportTells, ComponentSteps, PTL DEF HqSpec
<1>4. SheetsAgree /\ ReportMatchesReplay => ReportsAgree
  BY DEF ReportsAgree
<1> QED
  BY <1>2, <1>3, <1>4, PTL
==============================================================================
