--------------------------- MODULE SentimentGates ---------------------------
(***************************************************************************)
(* The gates and the strategy selector (hq/sentiment/policy.py) through a  *)
(* session: time passes in half hours, headlines come in, operators set    *)
(* and revoke overrides, and slots are written from what is known then.    *)
(* A kill headline is one gate_kill counts: a kill term stated as fact in  *)
(* a negative tone, from a source with a tier; publishers are independent  *)
(* (independent_sources), and all headlines tell one story.                *)
(***************************************************************************)
EXTENDS Integers, Sequences, FiniteSets, SequencesExt, FiniteSetsExt

CONSTANTS
  Futures,      \* codes of the strategies
  WireTier,     \* publishers of wire tier
  LowTier,      \* other publishers
  Events,       \* times of the day's CPI, NFP, PCE and FOMC releases
  Histories,    \* what a slot may find of each strategy: its engine's prior-day
                \* inputs and its fit, net P&L per session in the regime
  OverridesMade, \* what operators may set: gate, action, code
  LastTime,     \* bound: half hours
  MaxHits       \* bound: kill headlines

ASSUME GatesAssumption ==
  /\ WireTier \cap LowTier = {} /\ "all" \notin Futures
  /\ IsFiniteSet(Futures) /\ LastTime \in Nat /\ MaxHits \in Nat /\ Events \subseteq Nat
  /\ \A past \in Histories : past.fit \in [Futures -> [n : Nat, score : Int]]

\* In half hours.
EventBefore == 1
EventAfter == 2
KillLookback == 6
KillCooldown == 6
HeadlinesMaxAge == 4

VARIABLES
  time,       \* `at` of the next slot
  hits,       \* kill headlines stored: [pub, ts]
  fetched,    \* headlines_as_of, -1 for never
  overrides,  \* overrides in force
  slot,       \* the slot written last
  holds       \* history: until when the last kill halt was to hold

gatesVars == <<time, hits, fetched, overrides, slot, holds>>

NoSlot == [at |-> -1]

-----------------------------------------------------------------------------
(***************************************************************************)
(* The gates.  A size multiplier is counted in quarters.                   *)
(***************************************************************************)
Open(name) == [name |-> name, state |-> "OPEN", mult |-> 4]
Caution(name, mult) == [name |-> name, state |-> "CAUTION", mult |-> mult]
Halt(name) == [name |-> name, state |-> "HALT", mult |-> 0]
Stops(gate) == gate.state \in {"HALT", "BLOCKED"}

Missing(s) == ~s.calendar \/ s.vol = "no VIX"

\* Mutant: only the calendar is required.
GateDataNoVix(s) == IF ~s.calendar THEN Halt("data") ELSE Open("data")

GateData(s) == IF Missing(s) THEN Halt("data") ELSE Open("data")

GateEvent(s) ==
  CASE s.intraday /\ (\E e \in Events : e - EventBefore <= s.at /\ s.at <= e + EventAfter)
         -> Halt("event")
    [] s.intraday /\ (\E e \in Events : e > s.at + EventBefore) -> Caution("event", 4)
    [] ~s.intraday /\ Events # {} -> Caution("event", 3)
    [] OTHER -> Open("event")

\* A DAY slot looks back over 24 hours: the whole session.
Recent(s) == {h \in s.hits : h.ts <= s.at /\ (s.intraday => s.at - KillLookback <= h.ts)}
Corroborated(found) == Cardinality({h.pub : h \in found}) >= 2
KillHalts(s) == (\E h \in Recent(s) : h.pub \in WireTier) \/ Corroborated(Recent(s))
StaleFeed(s) == s.intraday /\ (s.fetched = -1 \/ s.at - s.fetched > HeadlinesMaxAge)

GateKill(s) ==
  CASE KillHalts(s) -> Halt("kill")
    [] ~KillHalts(s) /\ StaleFeed(s) -> Caution("kill", 2)
    [] ~KillHalts(s) /\ ~StaleFeed(s) /\ Recent(s) # {} -> Caution("kill", 4)
    [] OTHER -> Open("kill")

\* V221's own entry gate: a missing fear and greed does not block.
GateEngine(e) ==
  CASE e.fng = "fear" /\ e.chop = "choppy" -> [name |-> "engine", state |-> "BLOCKED", mult |-> 0]
    [] e.fng = "fear" /\ e.chop = "unknown" -> Caution("engine", 2)
    [] OTHER -> Open("engine")

\* Stressed: a VIX spike, or spot VIX above the future.
GateVol(s) == IF s.vol = "stressed" THEN Caution("vol", 2) ELSE Open("vol")

\* Context only: never a stop, never a size.  A crowded or an extreme report.
GatePositioning(s) ==
  [name |-> "positioning", mult |-> 4,
   state |-> IF s.crowding = "unknown" THEN "UNKNOWN" ELSE "CAUTION"]

\* Mutant: an operator may force the data gate open as well.
OpensAny(o, gate) == TRUE

\* No override opens the data gate.
Opens(o, gate) == gate.name # "data"

\* The first override that applies decides; the query that loads them gives
\* them in no order.
ApplyOverrides(gate, code, order) ==
  LET applies(o) == /\ o.gate = gate.name /\ o.code \in {"all", code}
                    /\ o.action = "FORCE_HALT" \/ Opens(o, gate)
      found == {i \in DOMAIN order : applies(order[i])}
  IN IF found = {} THEN gate
     ELSE IF order[Min(found)].action = "FORCE_HALT" THEN Halt(gate.name) ELSE Open(gate.name)

-----------------------------------------------------------------------------
(***************************************************************************)
(* recommend.                                                              *)
(***************************************************************************)
Gates(s, code, order) ==
  LET judged(gate) == ApplyOverrides(gate, code, order)
  IN [data |-> judged(GateData(s)), event |-> judged(GateEvent(s)), kill |-> judged(GateKill(s)),
      vol |-> judged(GateVol(s)), engine |-> judged(GateEngine(s.past.engine[code])),
      positioning |-> judged(GatePositioning(s))]

StandDown(gates) == \E name \in DOMAIN gates : Stops(gates[name])

\* Mutant: a strategy that wins in the regime is sized up.
LosesSizedUp(fit) == IF fit.n >= 5 THEN (IF fit.score < 0 THEN 2 ELSE 8) ELSE 4

Loses(fit) == IF fit.n >= 5 /\ fit.score < 0 THEN 2 ELSE 4

\* Full size; half, three quarters and so on multiply up, down to a quarter.
\* Positioning has no say in it; rounding to two digits is left out.
Full == 4096
Size(gates, fit) ==
  LET product == gates.data.mult * gates.event.mult * gates.kill.mult * gates.vol.mult
                   * gates.engine.mult * Loses(fit)
  IN IF StandDown(gates) THEN 0
     ELSE IF product < Full \div 4 THEN Full \div 4
     ELSE IF product > Full THEN Full ELSE product

\* A draft keeps all its gates; here, what the strictest of them leaves.
Strictest(gates) == Min({gates[name].mult : name \in DOMAIN gates \ {"positioning"}})

Verdict(gates, size) ==
  IF StandDown(gates) THEN "STAND_DOWN" ELSE IF size < Full THEN "REDUCE" ELSE "TRADE"

Draft(s, code, order) ==
  LET gates == Gates(s, code, order)
      size == Size(gates, s.past.fit[code])
  IN [code |-> code, verdict |-> Verdict(gates, size), size |-> size, least |-> Strictest(gates),
      score |-> s.past.fit[code].score]

\* Strategies to stand down come last, then the better history comes first.
Ahead(a, b) ==
  LET down(r) == r.verdict = "STAND_DOWN"
  IN \/ ~down(a) /\ down(b)
     \/ (down(a) <=> down(b)) /\ a.score > b.score
     \/ (down(a) <=> down(b)) /\ a.score = b.score

\* Every ranking of the drafts in which the ones ahead come first.
Recommend(s, order) ==
  {recs \in Bijection(1 .. Cardinality(Futures), {Draft(s, code, order) : code \in Futures}) :
     \A i, j \in DOMAIN recs : i < j => Ahead(recs[i], recs[j])}

-----------------------------------------------------------------------------
Pass ==
  /\ time < LastTime
  /\ time' = time + 1
  /\ UNCHANGED <<hits, fetched, overrides, slot, holds>>

\* A fetch stores the headlines published since the last one.
FetchHeadlines ==
  /\ fetched # time
  /\ fetched' = time
  /\ \E new \in SUBSET (WireTier \cup LowTier) :
       /\ Cardinality(hits) + Cardinality(new) <= MaxHits
       /\ hits' = hits \cup {[pub |-> p, ts |-> time] : p \in new}
  /\ UNCHANGED <<time, overrides, slot, holds>>

SetOverride ==
  /\ \E o \in OverridesMade \ overrides : overrides' = overrides \cup {o}
  /\ UNCHANGED <<time, hits, fetched, slot, holds>>

RevokeOverride ==
  /\ \E o \in overrides : overrides' = overrides \ {o}
  /\ UNCHANGED <<time, hits, fetched, slot, holds>>

Inputs ==
  [at : {time}, intraday : BOOLEAN, hits : {hits}, fetched : {fetched}, calendar : BOOLEAN,
   vol : {"no VIX", "calm", "stressed"}, crowding : {"unknown", "crowded"},
   past : Histories]

Newest(found) == CHOOSE t \in {h.ts : h \in found} : \A h \in found : h.ts <= t

\* _write_slot, as far as the policy goes; a half hour has one slot.
JudgeSlot(s) ==
  /\ slot.at # s.at
  /\ \E order \in SetToSeqs(overrides) : \E recs \in Recommend(s, order) :
       slot' = [at |-> s.at, intraday |-> s.intraday, missing |-> Missing(s),
                kill |-> GateKill(s).state, recs |-> recs]
  /\ holds' = IF s.intraday /\ KillHalts(s) THEN Newest(Recent(s)) + KillCooldown ELSE holds
  /\ UNCHANGED <<time, hits, fetched, overrides>>

GatesInit ==
  /\ time = 0 /\ hits = {} /\ fetched = -1 /\ overrides = {}
  /\ slot = NoSlot /\ holds = -1

GatesNext ==
  \/ Pass \/ FetchHeadlines \/ SetOverride \/ RevokeOverride
  \/ \E s \in Inputs : JudgeSlot(s)

GatesSpec == GatesInit /\ [][GatesNext]_gatesVars

-----------------------------------------------------------------------------
Verdicts == {"STAND_DOWN", "REDUCE", "TRADE"}

GatesTypeOK ==
  /\ time \in 0..LastTime /\ fetched \in -1..LastTime
  /\ hits \subseteq [pub : WireTier \cup LowTier, ts : 0..LastTime]
  /\ overrides \subseteq OverridesMade
  /\ holds \in -1..LastTime + KillCooldown

\* Fail closed: a slot without a macro calendar or a VIX stands every strategy
\* down, whatever the other inputs and whatever operators forced open.
FailsClosed ==
  slot # NoSlot /\ slot.missing => \A i \in DOMAIN slot.recs : slot.recs[i].verdict = "STAND_DOWN"

\* Whatever the gates, history and overrides, each strategy is judged once; a size is that
\* of no gate raised, but for the quarter that is the least; no strategy that was stopped
\* trades; and whatever is to trade is ranked before whatever is to stand down, the better
\* history first.
NeverSizedUp ==
  slot # NoSlot =>
    /\ {slot.recs[i].code : i \in DOMAIN slot.recs} = Futures
    /\ \A i \in DOMAIN slot.recs :
         LET r == slot.recs[i]
         IN /\ 4 * r.size <= r.least * Full \/ 4 * r.size = Full
            /\ r.verdict = "TRADE" <=> r.size = Full
            /\ r.verdict = "STAND_DOWN" <=> r.size = 0
            /\ r.size # 0 => 4 * r.size >= Full
            /\ \A j \in 1 .. i - 1 :
                 LET q == slot.recs[j]
                 IN /\ r.size > 0 => q.size > 0
                    /\ (r.size > 0 <=> q.size > 0) => q.score >= r.score

\* The gates only ever restrain, and without their data they stop everything:
\* the two parts above.
GatesRestrain == FailsClosed /\ NeverSizedUp

\* policy.py: "The halt holds for KILL_COOLDOWN after the last hit".
HaltHolds ==
  slot # NoSlot /\ slot.intraday /\ slot.at <= holds => slot.kill = "HALT"
=============================================================================
