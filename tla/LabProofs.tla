------------------------------ MODULE LabProofs ------------------------------
(***************************************************************************)
(* Proofs about components of MCLab: the allocator of the offline book,    *)
(* the supervisor, and the log of the paper engine; and the components     *)
(* side by side, those of BacktestProofs among them.                       *)
(***************************************************************************)
EXTENDS MCLab, BacktestProofs

-----------------------------------------------------------------------------
(***************************************************************************)
(* The allocator.                                                          *)
(***************************************************************************)
BrakeStates == {"normal", "half", "brake"}
Numbers == Int \cup {NoEquity}
Brakes == [brake : BrakeStates, count : Nat, high : Numbers, last : Numbers]
GateTriples == (0 .. 2) \X (0 .. 1) \X (0 .. 2)
SleeveStates == [brake : Brakes, raw : Numbers, gates : GateTriples, units : Int]

\* The brake of the book, whose numbers are not needed.
IsBrake(b) == b \in [brake : BrakeStates, count : {b.count}, high : {b.high}, last : {b.last}]

IsState(st) ==
  /\ st \in [kill : BOOLEAN, brake : {st.brake}, monthlyOff : BOOLEAN, month : {st.month},
             sleeves : [Sleeves -> SleeveStates]]
  /\ IsBrake(st.brake)

IsOrder(o) ==
  /\ o = [session |-> o.session, kill |-> o.kill, sleeves |-> o.sleeves] /\ o.kill \in BOOLEAN
  /\ \A s \in Sleeves : /\ o.sleeves[s].units \in Int
                        /\ Rank(o.sleeves[s].status) <= Rank(Config[s].yaml)
                        /\ o.kill => o.sleeves[s].units = 0
                        /\ o.sleeves[s].units = 0 => o.sleeves[s].shadow

OrDefault(file) == IF file = Missing THEN DefaultBook ELSE file

RunOf(phase, loaded) ==
  [phase |-> phase, loaded |-> loaded, out |-> Allocate(OrDefault(loaded)),
   found |-> [s \in Sleeves |-> LastEquity(SleeveCurve(s))]]

SessionsTyped ==
  /\ curves \in [Sleeves -> Seq(Int)]
  /\ \E n \in Nat : n + 1 <= Len(Market) /\ \A s \in Sleeves : Len(curves[s]) = n

FilesTyped ==
  /\ book \in {Torn, Missing} \/ IsState(book)
  /\ order \in {Torn, Missing} \/ IsOrder(order)

RunTyped ==
  \/ run = NoRun
  \/ \E phase \in {"instruction", "state"} : \E loaded :
       (loaded = Missing \/ IsState(loaded)) /\ run = RunOf(phase, loaded)

CommandTyped ==
  \/ command = NoCommand
  \/ /\ command.what \in {"kill", "unkill"} \cup Sleeves
     /\ command.loaded = Missing \/ IsState(command.loaded)

PastTyped == seen \in [Sleeves -> Seq(Int)] /\ clean \in BOOLEAN /\ killed \in BOOLEAN

AllocatorTyped == SessionsTyped /\ FilesTyped /\ RunTyped /\ CommandTyped /\ PastTyped

\* What a braked sleeve has counted, the saved runs have seen.
Earned(b, equities) ==
  /\ equities # <<>> /\ b.last = Last(equities) /\ b.high = Last(equities)
  /\ Rises(equities, b.count)

CountsEarned ==
  clean /\ book \notin {Torn, Missing} =>
    \A s \in Sleeves : book.sleeves[s].brake.brake = "brake" => Earned(book.sleeves[s].brake, seen[s])

KillKept == clean /\ killed => book = Torn \/ (book # Missing /\ book.kill)

AllocatorInv == AllocatorTyped /\ KillKept /\ CountsEarned

-----------------------------------------------------------------------------
LEMMA FilesDiffer ==
  /\ Torn # Missing
  /\ \A st : IsState(st) => st # Torn /\ st # Missing
  /\ \A o : IsOrder(o) => o # Torn /\ o # Missing
<1>1. Torn.file # Missing.file
  BY DEF Torn, Missing
<1>2. ASSUME NEW st, IsState(st) PROVE "kill" \in DOMAIN st
  BY <1>2 DEF IsState
<1>3. ASSUME NEW o, IsOrder(o) PROVE "kill" \in DOMAIN o
  BY <1>3 DEF IsOrder
<1>4. "kill" \notin DOMAIN Torn /\ "kill" \notin DOMAIN Missing
  BY DEF Torn, Missing
<1> QED
  BY <1>1, <1>2, <1>3, <1>4

\* Every curve is as long as sessions are completed.
LEMMA CompletedInMarket ==
  ASSUME SessionsTyped
  PROVE  Completed \in Nat /\ Completed + 1 \in 1 .. Len(Market)
<1>1. PICK n \in Nat : n + 1 <= Len(Market) /\ \A s \in Sleeves : Len(curves[s]) = n
  BY DEF SessionsTyped
<1>2. \E c \in {curves[s] : s \in Sleeves} : TRUE
  BY ConfigAssumption
<1>3. (CHOOSE c \in {curves[s] : s \in Sleeves} : TRUE) \in {curves[s] : s \in Sleeves}
  BY <1>2
<1>4. Completed = n
  BY <1>1, <1>3 DEF Completed
<1> QED
  BY <1>1, <1>4, ConfigAssumption

\* A brake keeps its shape, whatever the numbers are.
LEMMA StepBrakeKeeps ==
  ASSUME NEW b, IsBrake(b), NEW dd, NEW equity, NEW half, NEW off, NEW recover
  PROVE  IsBrake(StepBrake(b, dd, equity, half, off, recover))
<1>1. ASSUME NEW c, IsBrake(c) PROVE IsBrake(Recover(c, equity))
  BY <1>1 DEF IsBrake, Recover
<1>2. IsBrake([b EXCEPT !.count = 0, !.high = equity])
  BY DEF IsBrake
<1>3. ASSUME NEW c, IsBrake(c), NEW brake \in BrakeStates, NEW count
      PROVE  IsBrake([c EXCEPT !.brake = brake, !.count = count, !.last = equity])
  BY <1>3 DEF IsBrake
<1> DEFINE halved == IF b.brake = "normal" /\ dd >= half THEN "half" ELSE b.brake
           braked == IF halved = "half" /\ dd >= off THEN "brake" ELSE halved
           entered == IF halved = "half" /\ braked = "brake" THEN [b EXCEPT !.count = 0, !.high = equity] ELSE b
           calmed == IF braked = "half" /\ 2 * dd < half THEN "normal" ELSE braked
           counted == IF calmed = "brake" THEN Recover(entered, equity) ELSE entered
           freed == calmed = "brake" /\ counted.count >= recover
<1>4. StepBrake(b, dd, equity, half, off, recover) =
        [counted EXCEPT !.brake = IF freed THEN "half" ELSE calmed,
                        !.count = IF freed THEN 0 ELSE counted.count, !.last = equity]
  BY DEF StepBrake
<1>5. halved \in BrakeStates /\ braked \in BrakeStates /\ calmed \in BrakeStates
  BY DEF BrakeStates, IsBrake
<1>6. IsBrake(entered)
  BY <1>2
<1>7. IsBrake(counted)
  BY <1>1, <1>6
<1>8. (IF freed THEN "half" ELSE calmed) \in BrakeStates
  BY <1>5 DEF BrakeStates
<1> HIDE DEF halved, braked, entered, calmed, counted, freed
<1>9. IsBrake([counted EXCEPT !.brake = IF freed THEN "half" ELSE calmed,
                              !.count = IF freed THEN 0 ELSE counted.count, !.last = equity])
  BY <1>3, <1>7, <1>8
<1> QED
  BY <1>4, <1>9

LEMMA SleeveBrakeTyped ==
  ASSUME SessionsTyped, NEW st, IsState(st), NEW s \in Sleeves
  PROVE  LastEquity(SleeveCurve(s)) \in Int /\ SleeveBrake(s, st) \in Brakes
<1>1. SleeveCurve(s) \in Seq(Int)
  BY DEF SessionsTyped, SleeveCurve
<1>2. ASSUME NEW path \in Seq(Int) PROVE LastEquity(path) \in Int
  BY DEF LastEquity, Last
<1>3. LastEquity(SleeveCurve(s)) \in Int
  BY <1>1, <1>2
<1>4. ASSUME NEW b \in Brakes, NEW brake \in BrakeStates, NEW count \in Nat, NEW x \in Numbers, NEW y \in Numbers
      PROVE  /\ [b EXCEPT !.count = count, !.high = x] \in Brakes
             /\ [b EXCEPT !.brake = brake, !.count = count, !.last = y] \in Brakes
  BY <1>4 DEF Brakes
<1>7. ASSUME NEW b \in Brakes, NEW equity \in Int PROVE Recover(b, equity) \in Brakes
  <2>1. b.count + 1 \in Nat /\ 0 \in Nat /\ b.high \in Numbers /\ equity \in Numbers
    BY <1>7 DEF Brakes, Numbers
  <2> DEFINE top == IF b.high = NoEquity \/ equity < b.high THEN equity ELSE b.high
  <2>2. top \in Numbers
    BY <2>1
  <2> HIDE DEF top
  <2>3. /\ [b EXCEPT !.count = 0, !.high = top] \in Brakes
        /\ [b EXCEPT !.count = b.count + 1, !.high = equity] \in Brakes
    BY <1>4, <1>7, <2>1, <2>2 DEF BrakeStates
  <2> USE DEF top
  <2> QED
    BY <1>7, <2>3 DEF Recover
<1>5. ASSUME NEW b \in Brakes, NEW dd, NEW equity \in Int, NEW half, NEW off, NEW recover
      PROVE  StepBrake(b, dd, equity, half, off, recover) \in Brakes
  <2> DEFINE halved == IF b.brake = "normal" /\ dd >= half THEN "half" ELSE b.brake
             braked == IF halved = "half" /\ dd >= off THEN "brake" ELSE halved
             entered == IF halved = "half" /\ braked = "brake" THEN [b EXCEPT !.count = 0, !.high = equity] ELSE b
             calmed == IF braked = "half" /\ 2 * dd < half THEN "normal" ELSE braked
             counted == IF calmed = "brake" THEN Recover(entered, equity) ELSE entered
             freed == calmed = "brake" /\ counted.count >= recover
  <2>1. StepBrake(b, dd, equity, half, off, recover) =
          [counted EXCEPT !.brake = IF freed THEN "half" ELSE calmed,
                          !.count = IF freed THEN 0 ELSE counted.count, !.last = equity]
    BY DEF StepBrake
  <2>2. halved \in BrakeStates /\ braked \in BrakeStates /\ calmed \in BrakeStates
    BY <1>5 DEF BrakeStates, Brakes
  <2>3. entered \in Brakes
    BY <1>5 DEF Brakes, Numbers
  <2>4. counted \in Brakes
    BY <1>7, <1>5, <2>3
  <2>5. (IF freed THEN "half" ELSE calmed) \in BrakeStates
    BY <2>2 DEF BrakeStates
  <2> HIDE DEF halved, braked, entered, calmed, counted, freed
  <2>6. (IF freed THEN 0 ELSE counted.count) \in Nat /\ equity \in Numbers
    BY <1>5, <2>4 DEF Brakes, Numbers
  <2>7. [counted EXCEPT !.brake = IF freed THEN "half" ELSE calmed,
                        !.count = IF freed THEN 0 ELSE counted.count, !.last = equity] \in Brakes
    BY <1>4, <2>4, <2>5, <2>6, Zenon
  <2> QED
    BY <2>1, <2>7
<1>6. st.sleeves[s].brake \in Brakes
  BY DEF IsState, SleeveStates
<1> QED
  BY <1>3, <1>5, <1>6 DEF SleeveBrake

LEMMA GatesTyped ==
  ASSUME SessionsTyped, NEW st, IsState(st), NEW s \in Sleeves
  PROVE  GatesOf(s, st) \in GateTriples /\ Product(GatesOf(s, st)) \in Nat
<1>1. SleeveBrake(s, st).brake \in BrakeStates
  BY SleeveBrakeTyped DEF Brakes
<1>2. \A b \in BrakeStates : Gate(b) \in 0 .. 2
  BY DEF BrakeStates, Gate
<1>3. RegimeGate(s, Coming) \in 0 .. 2 /\ EventGate(s, Coming) \in 0 .. 1
  BY DEF RegimeGate, EventGate
<1>4. GatesOf(s, st) \in GateTriples
  BY <1>1, <1>2, <1>3 DEF GatesOf, GateTriples
<1>5. ASSUME NEW a \in 0 .. 2, NEW b \in 0 .. 1, NEW c \in 0 .. 2 PROVE a * b * c \in Nat
  <2>1. a * b \in Nat
    BY SMT
  <2> QED
    BY <2>1, SMT
<1>6. ASSUME NEW gates \in GateTriples PROVE Product(gates) \in Nat
  BY <1>5, <1>6 DEF GateTriples, Product
<1> QED
  BY <1>4, <1>6

LEMMA RawTyped ==
  ASSUME SessionsTyped, NEW st, IsState(st), NEW s \in Sleeves
  PROVE  RawOf(s, st) \in Int /\ Multiplier(s, st) \in Int
<1>1. Coming.raw[s] \in Int
  BY CompletedInMarket, ConfigAssumption DEF Coming
<1>2. st.sleeves[s].raw \in Int \cup {NoEquity}
  BY DEF IsState, SleeveStates, Numbers
<1>3. ASSUME NEW raw \in Int, NEW prev \in Int \cup {NoEquity}, NEW first, NEW changed
      PROVE  ApplyHysteresis(raw, prev, first, changed) \in Int
  BY <1>3 DEF ApplyHysteresis
<1>7. (IF s \in Chosen THEN Coming.raw[s] ELSE 0) \in Int
  BY <1>1
<1>4. RawOf(s, st) \in Int
  BY <1>2, <1>3, <1>7, Zenon DEF RawOf
<1>5. Product(GatesOf(s, st)) \in Nat
  BY GatesTyped
<1>6. ASSUME NEW a \in Int, NEW b \in Nat PROVE a * b \in Int
  OBVIOUS
<1> QED
  BY <1>4, <1>5, <1>6 DEF Multiplier

LEMMA RoundTyped ==
  ASSUME NEW a \in Int, NEW b \in Nat \ {0}
  PROVE  Round(a, b) \in Int /\ (a = 0 => Round(a, b) = 0)
<1>1. a \div b \in Int /\ a % b \in Nat
  OBVIOUS
<1>2. a = 0 => a \div b = 0 /\ a % b = 0
  OBVIOUS
<1>3. 0 % 2 = 0
  OBVIOUS
<1> QED
  BY <1>1, <1>2, <1>3 DEF Round

LEMMA UnitsTyped ==
  ASSUME SessionsTyped, NEW st, IsState(st), NEW s \in Sleeves
  PROVE  Units(s, st, BookGate(st)) \in Int /\ (st.kill => Units(s, st, BookGate(st)) = 0)
<1>1. Multiplier(s, st) \in Int
  BY RawTyped
<1>2. BookBrake(st).brake \in BrakeStates
  BY StepBrakeKeeps DEF BookBrake, IsState, IsBrake
<1>3. \A b \in BrakeStates : Gate(b) \in 0 .. 2
  BY DEF BrakeStates, Gate
<1>4. BookGate(st) \in 0 .. 2 /\ (st.kill => BookGate(st) = 0)
  BY <1>2, <1>3 DEF BookGate
<1>5. ASSUME NEW m \in Int, NEW g \in 0 .. 2
      PROVE  Sized(s, m, g) \in Int /\ (g = 0 => Sized(s, m, g) = 0)
  <2>1. Config[s].size \in Int /\ Config[s].step \in Nat \ {0} /\ 80 * Config[s].step \in Nat \ {0}
    BY ConfigAssumption
  <2>2. m * g \in Int /\ (g = 0 => m * g = 0)
    OBVIOUS
  <2>3. m * g * Config[s].size \in Int /\ (m * g = 0 => m * g * Config[s].size = 0)
    BY <2>1, <2>2
  <2>4. Round(m * g * Config[s].size, 80 * Config[s].step) \in Int
    BY <2>1, <2>3, RoundTyped
  <2>5. g = 0 => Round(m * g * Config[s].size, 80 * Config[s].step) = 0
    BY <2>1, <2>2, <2>3, RoundTyped
  <2> QED
    BY <2>1, <2>4, <2>5 DEF Sized
<1> QED
  BY <1>1, <1>4, <1>5 DEF Units

LEMMA StandingModest ==
  ASSUME SessionsTyped, NEW st, NEW s \in Sleeves
  PROVE  Rank(OrderOf(s, st, BookGate(st)).status) <= Rank(Config[s].yaml)
<1>1. \A x : Rank(x) \in {0, 1, 2}
  BY DEF Rank
<1>2. Rank("off") = 0 /\ Rank("shadow") = 0 /\ Rank("brake") = 0 /\ Rank("paper") = 1 /\ Rank("live") = 2
  BY DEF Rank
<1>3. ASSUME NEW f PROVE Rank(Status(s, f)) <= Rank(Config[s].yaml)
  <2> DEFINE yaml == Config[s].yaml
  <2>1. \/ Status(s, f) \in {"off", "shadow"}
        \/ Status(s, f) = "live" /\ yaml = "live"
        \/ Status(s, f) = "paper" /\ yaml \in {"live", "paper"}
    BY DEF Status
  <2> QED
    BY <1>1, <1>2, <2>1
<1>4. \/ OrderOf(s, st, BookGate(st)).status \in {"brake", "shadow"}
      \/ OrderOf(s, st, BookGate(st)).status = Status(s, Coming.facts[s])
  BY Zenon DEF OrderOf, Standing
<1>5. Rank(Status(s, Coming.facts[s])) <= Rank(Config[s].yaml)
  BY <1>3
<1>6. Rank(Config[s].yaml) \in {0, 1, 2}
  BY <1>1
<1> QED
  BY <1>2, <1>4, <1>5, <1>6

\* An allocation is a state and an instruction.
LEMMA AllocateTyped ==
  ASSUME SessionsTyped, NEW st, IsState(st)
  PROVE  /\ IsState(Allocate(st).state) /\ IsOrder(Allocate(st).order)
         /\ Allocate(st).state.kill = st.kill
         /\ \A s \in Sleeves : Allocate(st).state.sleeves[s].brake = SleeveBrake(s, st)
<1> DEFINE rows == [s \in Sleeves |->
                     [brake |-> SleeveBrake(s, st), raw |-> RawOf(s, st), gates |-> GatesOf(s, st),
                      units |-> Units(s, st, BookGate(st))]]
           orders == [s \in Sleeves |-> OrderOf(s, st, BookGate(st))]
<1>1. /\ Allocate(st).state = [kill |-> st.kill, brake |-> BookBrake(st), monthlyOff |-> MonthlyOff(st),
                               month |-> Coming.month, sleeves |-> rows]
      /\ Allocate(st).order = [session |-> Completed + 1, kill |-> st.kill, sleeves |-> orders]
  BY DEF Allocate
<1>2. ASSUME NEW s \in Sleeves PROVE rows[s] \in SleeveStates
  BY SleeveBrakeTyped, GatesTyped, RawTyped, UnitsTyped DEF SleeveStates, Numbers
<1>3. rows \in [Sleeves -> SleeveStates]
  BY <1>2
<1>4. IsBrake(BookBrake(st))
  BY StepBrakeKeeps DEF BookBrake, IsState
<1>5. st.kill \in BOOLEAN
  BY DEF IsState
<1>6. MonthlyOff(st) \in BOOLEAN
  BY Zenon DEF MonthlyOff
<1>7. \A s \in Sleeves : rows[s].brake = SleeveBrake(s, st)
  OBVIOUS
<1>8. ASSUME NEW s \in Sleeves
      PROVE  /\ orders[s].units \in Int /\ Rank(orders[s].status) <= Rank(Config[s].yaml)
             /\ st.kill => orders[s].units = 0
             /\ orders[s].units = 0 => orders[s].shadow
  <2>1. orders[s] = OrderOf(s, st, BookGate(st))
    OBVIOUS
  <2>2. /\ OrderOf(s, st, BookGate(st)).units = Units(s, st, BookGate(st))
        /\ Units(s, st, BookGate(st)) = 0 => OrderOf(s, st, BookGate(st)).shadow
    BY Zenon DEF OrderOf
  <2> QED
    BY <2>1, <2>2, StandingModest, UnitsTyped
<1> HIDE DEF rows, orders
<1>9. IsState(Allocate(st).state)
  BY <1>1, <1>3, <1>4, <1>5, <1>6 DEF IsState
<1>10. IsOrder(Allocate(st).order)
  BY <1>1, <1>5, <1>8 DEF IsOrder
<1> QED
  BY <1>1, <1>7, <1>9, <1>10

LEMMA NoticedTyped ==
  ASSUME NEW equities \in Seq(Int), NEW e \in Int
  PROVE  /\ Noticed(equities, e) \in Seq(Int) /\ Noticed(equities, e) # <<>> /\ Last(Noticed(equities, e)) = e
         /\ Len(Noticed(equities, e)) \in Nat \ {0}
  BY DEF Noticed, Last

LEMMA RisesLess ==
  ASSUME NEW equities \in Seq(Int), NEW k \in Nat, NEW j \in Nat, j <= k, Rises(equities, k)
  PROVE  Rises(equities, j)
  BY DEF Rises

LEMMA RisesMore ==
  ASSUME NEW equities \in Seq(Int), NEW k \in Nat, NEW e \in Int, Rises(equities, k), Last(equities) < e
  PROVE  Rises(Append(equities, e), k + 1)
<1> DEFINE more == Append(equities, e)
<1>1. /\ Len(more) = Len(equities) + 1 /\ more[Len(equities) + 1] = e
      /\ \A i \in 1 .. Len(equities) : more[i] = equities[i]
  OBVIOUS
<1>2. Len(equities) \in Nat /\ Len(equities) > k
  BY DEF Rises
<1>3. equities[Len(equities)] < e
  BY DEF Last
<1>4. ASSUME NEW i \in Len(more) - (k + 1) .. Len(more) - 1 PROVE more[i] < more[i + 1]
  <2>1. i \in 1 .. Len(equities)
    BY <1>1, <1>2, <1>4
  <2>2. CASE i = Len(equities)
    BY <1>1, <1>3, <2>1, <2>2
  <2>3. CASE i # Len(equities)
    <3>1. PICK n \in Nat : n = Len(equities)
      BY <1>2
    <3>2. n > k /\ i \in (n + 1) - (k + 1) .. (n + 1) - 1 /\ i # n
      BY <1>1, <1>2, <1>4, <2>3, <3>1
    <3>3. i \in n - k .. n - 1 /\ i + 1 \in 1 .. n
      BY <3>2
    <3>4. i \in Len(equities) - k .. Len(equities) - 1 /\ i + 1 \in 1 .. Len(equities)
      BY <3>1, <3>3
    <3> QED
      BY <1>1, <2>1, <3>4 DEF Rises
  <2> QED
    BY <2>2, <2>3
<1>5. Len(more) > k + 1
  BY <1>1, <1>2
<1> QED
  BY <1>4, <1>5, Zenon DEF Rises

\* A brake's count is of rises that were seen, and a brake is left for those it asks for.
LEMMA BrakeEarns ==
  ASSUME NEW b \in Brakes, NEW dd, NEW e \in Int, NEW half, NEW off, NEW recover \in Nat,
         NEW equities \in Seq(Int), b.brake = "brake" => Earned(b, equities)
  PROVE  LET next == StepBrake(b, dd, e, half, off, recover)
             noticed == Noticed(equities, e)
         IN /\ next.brake = "brake" => Earned(next, noticed)
            /\ b.brake = "brake" /\ next.brake # "brake" => Rises(noticed, recover)
<1> DEFINE halved == IF b.brake = "normal" /\ dd >= half THEN "half" ELSE b.brake
           braked == IF halved = "half" /\ dd >= off THEN "brake" ELSE halved
           entered == IF halved = "half" /\ braked = "brake" THEN [b EXCEPT !.count = 0, !.high = e] ELSE b
           calmed == IF braked = "half" /\ 2 * dd < half THEN "normal" ELSE braked
           counted == IF calmed = "brake" THEN Recover(entered, e) ELSE entered
           freed == calmed = "brake" /\ counted.count >= recover
           noticed == Noticed(equities, e)
           next == StepBrake(b, dd, e, half, off, recover)
<1>1. /\ noticed \in Seq(Int) /\ noticed # <<>> /\ Last(noticed) = e /\ Rises(noticed, 0)
      /\ e # NoEquity
  BY NoticedTyped, NoEquityAssumption DEF Rises
<1>2. next = [counted EXCEPT !.brake = IF freed THEN "half" ELSE calmed,
                             !.count = IF freed THEN 0 ELSE counted.count, !.last = e]
  BY DEF StepBrake
<1>7. ASSUME NEW c \in Brakes, NEW n \in Nat
      PROVE  /\ [c EXCEPT !.count = n, !.high = e] \in Brakes
             /\ [c EXCEPT !.count = n, !.high = e].high = e /\ [c EXCEPT !.count = n, !.high = e].count = n
  BY <1>7 DEF Brakes, Numbers
<1>3. calmed = "brake" => counted \in Brakes /\ counted.high = e /\ Rises(noticed, counted.count)
  <2>1. CASE b.brake = "brake"
    <3>1. counted = Recover(b, e) /\ Earned(b, equities)
      BY <2>1
    <3> HIDE DEF halved, braked, entered, calmed, counted
    <3>2. b.count \in Nat /\ b.last = Last(equities) /\ b.high = Last(equities) /\ Last(equities) \in Int
      BY <3>1 DEF Earned, Brakes, Last
    <3>3. Rises(equities, b.count) /\ equities # <<>>
      BY <3>1 DEF Earned
    <3>4. CASE e < Last(equities)
      <4>1. counted = [b EXCEPT !.count = 0, !.high = e]
        BY <3>1, <3>2, <3>4, NoEquityAssumption DEF Recover
      <4> QED
        BY <1>1, <1>7, <4>1
    <3>5. CASE e = Last(equities)
      <4>1. counted = b /\ noticed = equities
        BY <3>1, <3>2, <3>3, <3>5, NoEquityAssumption DEF Recover, Noticed
      <4> QED
        BY <3>2, <3>3, <3>5, <4>1
    <3>6. CASE e > Last(equities)
      <4>1. counted = [b EXCEPT !.count = b.count + 1, !.high = e] /\ noticed = Append(equities, e)
        BY <3>1, <3>2, <3>6, NoEquityAssumption DEF Recover, Noticed
      <4>2. Rises(noticed, b.count + 1)
        BY <3>2, <3>3, <3>6, <4>1, RisesMore
      <4> QED
        <5>1. b.count + 1 \in Nat
          BY <3>2
        <5>2. counted \in Brakes /\ counted.high = e /\ counted.count = b.count + 1
          BY <1>7, <4>1, <5>1
        <5> HIDE DEF noticed
        <5> QED
          BY <4>2, <5>2
    <3> QED
      BY <3>2, <3>4, <3>5, <3>6
  <2>2. CASE b.brake # "brake" /\ calmed = "brake"
    <3>1. halved = "half" /\ braked = "brake"
      BY <2>2
    <3>2. entered = [b EXCEPT !.count = 0, !.high = e] /\ counted = Recover(entered, e)
      BY <2>2, <3>1
    <3>3. entered \in Brakes /\ entered.high = e /\ entered.count = 0
      BY <3>2 DEF Brakes, Numbers
    <3> HIDE DEF halved, braked, entered, calmed, counted
    <3>4. counted = entered \/ counted = [entered EXCEPT !.count = 0, !.high = e]
      <4>1. ~(e > entered.high) /\ ~(e < entered.high) /\ entered.high # NoEquity
        BY <1>1, <3>3
      <4> QED
        BY <3>2, <3>3, <4>1 DEF Recover
    <3> DEFINE new == [entered EXCEPT !.count = 0, !.high = e]
    <3>6. new \in Brakes /\ new.high = e /\ new.count = 0
      BY <1>7, <3>3, 0 \in Nat
    <3> HIDE DEF new
    <3>5. counted \in Brakes /\ counted.high = e /\ counted.count = 0
      BY <3>3, <3>4, <3>6 DEF new
    <3> HIDE DEF noticed
    <3> QED
      BY <1>1, <3>5
  <2> QED
    BY <2>1, <2>2
<1>4. b.brake = "brake" => calmed = "brake"
  OBVIOUS
<1> HIDE DEF halved, braked, entered, calmed, counted, noticed, next
<1>5. CASE calmed = "brake"
  <2>1. /\ next.brake = (IF freed THEN "half" ELSE "brake") /\ next.high = e /\ next.last = e
        /\ next.count = (IF freed THEN 0 ELSE counted.count)
    BY <1>2, <1>3, <1>5 DEF Brakes
  <2>2. next.brake = "brake" => Earned(next, noticed)
    BY <1>1, <1>3, <1>5, <2>1 DEF Earned
  <2>3. freed => Rises(noticed, recover)
    BY <1>1, <1>3, <1>5, RisesLess DEF Brakes
  <2> QED
    BY <2>1, <2>2, <2>3 DEF next, noticed
<1>6. CASE calmed # "brake"
  <2>1. counted = entered /\ entered \in [brake : BrakeStates, count : Nat, high : Numbers, last : Numbers]
    BY <1>6 DEF counted, entered, Brakes, Numbers
  <2>2. next.brake # "brake"
    BY <1>2, <1>6, <2>1
  <2> QED
    BY <1>4, <1>6, <2>2 DEF next, noticed
<1> QED
  BY <1>5, <1>6

LEMMA DefaultIsState == IsState(DefaultBook)
<1>1. Fresh \in Brakes /\ IsBrake(Fresh)
  BY DEF Fresh, Brakes, Numbers, BrakeStates, IsBrake
<1>2. <<2, 1, 2>> \in GateTriples
  BY DEF GateTriples
<1>3. BlankSleeve \in SleeveStates
  BY <1>1, <1>2 DEF BlankSleeve, SleeveStates, Numbers
<1>4. [s \in Sleeves |-> BlankSleeve] \in [Sleeves -> SleeveStates]
  BY <1>3
<1> QED
  BY <1>1, <1>4 DEF DefaultBook, IsState

LEMMA CommandedIsState ==
  ASSUME NEW st, IsState(st), NEW what \in {"kill", "unkill"} \cup Sleeves
  PROVE  /\ IsState(Commanded(what, st))
         /\ what = "kill" => Commanded(what, st).kill
         /\ what \notin {"kill", "unkill"} => Commanded(what, st).kill = st.kill
         /\ \A s \in Sleeves : Commanded(what, st).sleeves[s].brake.brake = "brake"
                                 => Commanded(what, st).sleeves[s].brake = st.sleeves[s].brake
<1>1. CASE what \in {"kill", "unkill"}
  <2>1. ASSUME NEW v \in BOOLEAN
        PROVE  /\ IsState([st EXCEPT !.kill = v]) /\ [st EXCEPT !.kill = v].kill = v
               /\ [st EXCEPT !.kill = v].sleeves = st.sleeves
    BY <2>1 DEF IsState
  <2>2. CASE what = "kill"
    <3>1. Commanded(what, st) = [st EXCEPT !.kill = TRUE]
      BY <2>2 DEF Commanded
    <3> QED
      BY <2>1, <2>2, <3>1
  <2>3. CASE what = "unkill"
    <3>1. Commanded(what, st) = [st EXCEPT !.kill = FALSE]
      BY <2>3 DEF Commanded
    <3> QED
      BY <2>1, <2>3, <3>1
  <2> QED
    BY <1>1, <2>2, <2>3
<1>2. CASE what \notin {"kill", "unkill"} /\ st.sleeves[what].brake.brake = "brake"
  <2> DEFINE half == [st.sleeves[what].brake EXCEPT !.brake = "half", !.count = 0]
             row == [st.sleeves[what] EXCEPT !.brake = half]
             rows == [st.sleeves EXCEPT ![what] = row]
  <2>1. what \in Sleeves /\ st.sleeves \in [Sleeves -> SleeveStates] /\ st.sleeves[what] \in SleeveStates
    BY <1>2 DEF IsState
  <2>2. half \in Brakes /\ half.brake = "half"
    BY <2>1 DEF SleeveStates, Brakes, BrakeStates
  <2>3. row \in SleeveStates /\ row.brake = half
    BY <2>1, <2>2 DEF SleeveStates
  <2>4. rows \in [Sleeves -> SleeveStates]
    BY <2>1, <2>3
  <2>5. \A s \in Sleeves : rows[s] = IF s = what THEN row ELSE st.sleeves[s]
    BY <2>1
  <2>12. Commanded(what, st)
           = [st EXCEPT !.sleeves[what].brake = [st.sleeves[what].brake EXCEPT !.brake = "half", !.count = 0]]
    BY <1>2 DEF Commanded
  <2>6. Commanded(what, st) = [st EXCEPT !.sleeves = rows]
    BY <2>12
  <2> HIDE DEF half, row, rows
  <2>7. [st EXCEPT !.sleeves = rows].sleeves = rows /\ [st EXCEPT !.sleeves = rows].kill = st.kill
    BY DEF IsState
  <2>8. IsState([st EXCEPT !.sleeves = rows])
    BY <2>4 DEF IsState
  <2>9. Commanded(what, st).kill = st.kill /\ Commanded(what, st).sleeves = rows
    BY <2>6, <2>7
  <2>10. \A s \in Sleeves : rows[s].brake.brake = "brake" => rows[s].brake = st.sleeves[s].brake
    BY <2>2, <2>3, <2>5
  <2>11. IsState(Commanded(what, st))
    BY <2>6, <2>8
  <2> QED
    BY <1>2, <2>9, <2>10, <2>11
<1>3. CASE what \notin {"kill", "unkill"} /\ st.sleeves[what].brake.brake # "brake"
  <2>1. Commanded(what, st) = st
    BY <1>3 DEF Commanded
  <2> QED
    BY <1>3, <2>1
<1> QED
  BY <1>1, <1>2, <1>3

\* An allocation is made of the equities, which only the close of a session changes.
LEMMA RunOfKept ==
  ASSUME curves' = curves, NEW phase, NEW loaded
  PROVE  RunOf(phase, loaded)' = RunOf(phase, loaded)
<1> DEFINE st == OrDefault(loaded)
<1>1. Completed' = Completed
  BY DEF Completed
<1>2. Coming' = Coming /\ FirstOfMonth' = FirstOfMonth
  BY <1>1 DEF Coming, FirstOfMonth
<1>3. Chosen' = Chosen
  BY <1>2 DEF Chosen
<1>4. \A s : Standing(s)' = Standing(s) /\ SleeveCurve(s)' = SleeveCurve(s)
  BY <1>1, <1>2, <1>3 DEF Standing, SleeveCurve
<1> HIDE DEF st
<1>5. \A s : SleeveBrake(s, st)' = SleeveBrake(s, st)
  BY <1>4 DEF SleeveBrake
<1>6. \A s : GatesOf(s, st)' = GatesOf(s, st)
  BY <1>2, <1>5 DEF GatesOf
<1>7. \A s : RawOf(s, st)' = RawOf(s, st)
  BY <1>2, <1>3, <1>6 DEF RawOf
<1>8. \A s : Multiplier(s, st)' = Multiplier(s, st)
  BY <1>6, <1>7 DEF Multiplier
<1>9. BookPath(st)' = BookPath(st)
  <2>1. [s \in Sleeves |-> Multiplier(s, st)'] = [s \in Sleeves |-> Multiplier(s, st)]
    BY <1>8
  <2>2. {s \in Sleeves : Standing(s)' \in {"live", "paper"} /\ SleeveCurve(s)' # <<>>}
          = {s \in Sleeves : Standing(s) \in {"live", "paper"} /\ SleeveCurve(s) # <<>>}
    BY <1>4
  <2> QED
    BY <1>1, <2>1, <2>2 DEF BookPath
<1>10. BookBrake(st)' = BookBrake(st) /\ MonthlyOff(st)' = MonthlyOff(st)
  BY <1>2, <1>9 DEF BookBrake, MonthlyOff
<1>11. BookGate(st)' = BookGate(st)
  BY <1>10 DEF BookGate
<1>12. \A s : Units(s, st, BookGate(st))' = Units(s, st, BookGate(st))
  BY <1>3, <1>8, <1>11 DEF Units
<1>13. \A s : OrderOf(s, st, BookGate(st))' = OrderOf(s, st, BookGate(st))
  BY <1>3, <1>4, <1>5, <1>12 DEF OrderOf
<1>14. Allocate(st)' = Allocate(st)
  BY <1>1, <1>2, <1>5, <1>6, <1>7, <1>10, <1>12, <1>13 DEF Allocate
<1> QED
  BY <1>4, <1>14 DEF RunOf, st

LEMMA SessionsUnchanged ==
  ASSUME SessionsTyped, curves' = curves
  PROVE  SessionsTyped'
  BY DEF SessionsTyped

LEMMA RunUnchanged ==
  ASSUME RunTyped, curves' = curves, run' = run
  PROVE  RunTyped'
<1>1. CASE run = NoRun
  BY <1>1 DEF RunTyped, NoRun
<1>2. ASSUME NEW phase \in {"instruction", "state"}, NEW loaded, loaded = Missing \/ IsState(loaded),
             run = RunOf(phase, loaded)
      PROVE  RunTyped'
  BY <1>2, RunOfKept DEF RunTyped
<1> QED
  BY <1>1, <1>2 DEF RunTyped

LEMMA RunIs ==
  ASSUME NEW phase, NEW loaded
  PROVE  /\ RunOf(phase, loaded).phase = phase /\ RunOf(phase, loaded).loaded = loaded
         /\ RunOf(phase, loaded).out = Allocate(OrDefault(loaded))
         /\ \A s \in Sleeves : RunOf(phase, loaded).found[s] = LastEquity(SleeveCurve(s))
         /\ [RunOf(phase, loaded) EXCEPT !.phase = "state"] = RunOf("state", loaded)
<1>1. ASSUME NEW a, NEW b, NEW c, NEW d
      PROVE  [[phase |-> a, loaded |-> b, out |-> c, found |-> d] EXCEPT !.phase = "state"]
               = [phase |-> "state", loaded |-> b, out |-> c, found |-> d]
  OBVIOUS
<1> DEFINE out == Allocate(OrDefault(loaded))
           found == [s \in Sleeves |-> LastEquity(SleeveCurve(s))]
<1>3. /\ RunOf(phase, loaded) = [phase |-> phase, loaded |-> loaded, out |-> out, found |-> found]
      /\ RunOf("state", loaded) = [phase |-> "state", loaded |-> loaded, out |-> out, found |-> found]
  BY DEF RunOf
<1> HIDE DEF out, found
<1>2. [RunOf(phase, loaded) EXCEPT !.phase = "state"] = RunOf("state", loaded)
  BY <1>1, <1>3
<1> QED
  BY <1>2 DEF RunOf

LEMMA OrDefaultIsState ==
  ASSUME NEW file, file = Missing \/ IsState(file)
  PROVE  IsState(OrDefault(file)) /\ (file # Missing => OrDefault(file) = file)
  BY DefaultIsState DEF OrDefault

LEMMA AllocatorBegins == AllocatorInit => AllocatorInv
<1> SUFFICES ASSUME AllocatorInit PROVE AllocatorInv
  OBVIOUS
<1>1. SessionsTyped
  <2>1. <<>> \in Seq(Int) /\ Len(<<>>) = 0
    OBVIOUS
  <2>2. curves \in [Sleeves -> Seq(Int)] /\ \A s \in Sleeves : Len(curves[s]) = 0
    BY <2>1 DEF AllocatorInit
  <2> QED
    BY <2>2, ConfigAssumption DEF SessionsTyped
<1>2. PastTyped
  <2>1. <<>> \in Seq(Int)
    OBVIOUS
  <2> QED
    BY <2>1 DEF AllocatorInit, PastTyped
<1>3. FilesTyped /\ RunTyped /\ CommandTyped
  BY DEF AllocatorInit, FilesTyped, RunTyped, CommandTyped
<1> QED
  BY <1>1, <1>2, <1>3 DEF AllocatorInit, AllocatorInv, AllocatorTyped, KillKept, CountsEarned

LEMMA CloseSessionKeeps ==
  ASSUME AllocatorInv, CloseSession
  PROVE  AllocatorInv'
<1>1. /\ run = NoRun /\ run' = NoRun /\ book' = book /\ order' = order /\ command' = command
      /\ clean' = clean /\ killed' = killed /\ seen' = seen
  BY DEF CloseSession
<1>2. SessionsTyped'
  <2>1. PICK move \in Moves :
          curves' = [s \in Sleeves |->
                       Append(curves[s], (IF curves[s] = <<>> THEN 100 ELSE Last(curves[s])) + move[s])]
    BY DEF CloseSession
  <2>2. PICK n \in Nat : n + 1 <= Len(Market) /\ \A s \in Sleeves : Len(curves[s]) = n
    BY DEF AllocatorInv, AllocatorTyped, SessionsTyped
  <2>3. Completed = n
    <3>1. (CHOOSE c \in {curves[s] : s \in Sleeves} : TRUE) \in {curves[s] : s \in Sleeves}
      BY ConfigAssumption
    <3> QED
      BY <2>2, <3>1 DEF Completed
  <2>4. n + 1 < Len(Market)
    BY <2>3 DEF CloseSession
  <2>5. ASSUME NEW s \in Sleeves PROVE curves'[s] \in Seq(Int) /\ Len(curves'[s]) = n + 1
    <3>1. curves[s] \in Seq(Int) /\ move[s] \in Int
      BY ConfigAssumption DEF AllocatorInv, AllocatorTyped, SessionsTyped
    <3>2. (IF curves[s] = <<>> THEN 100 ELSE Last(curves[s])) + move[s] \in Int
      BY <3>1 DEF Last
    <3> QED
      BY <2>1, <2>2, <3>1, <3>2
  <2>6. curves' \in [Sleeves -> Seq(Int)]
    BY <2>1, <2>5
  <2>7. (n + 1) + 1 <= Len(Market) /\ n + 1 \in Nat
    BY <2>4, ConfigAssumption
  <2> QED
    BY <2>5, <2>6, <2>7 DEF SessionsTyped
<1> QED
  BY <1>1, <1>2 DEF AllocatorInv, AllocatorTyped, FilesTyped, RunTyped, CommandTyped, PastTyped,
                    KillKept, CountsEarned

LEMMA StartRunKeeps ==
  ASSUME AllocatorInv, StartRun
  PROVE  AllocatorInv'
<1>1. /\ curves' = curves /\ book' = book /\ order' = order /\ command' = command
      /\ clean' = clean /\ killed' = killed /\ seen' = seen
  BY DEF StartRun
<1>2. PICK loaded : loaded = book
  OBVIOUS
<1>3. run' = RunOf("instruction", loaded) /\ (loaded = Missing \/ IsState(loaded))
  BY <1>2 DEF StartRun, RunOf, LoadState, OrDefault, AllocatorInv, AllocatorTyped, FilesTyped
<1>4. run' = RunOf("instruction", loaded)'
  BY <1>1, <1>3, RunOfKept
<1>5. RunTyped'
  BY <1>3, <1>4 DEF RunTyped
<1>6. SessionsTyped'
  BY <1>1, SessionsUnchanged DEF AllocatorInv, AllocatorTyped
<1> QED
  BY <1>1, <1>5, <1>6 DEF AllocatorInv, AllocatorTyped, FilesTyped, CommandTyped, PastTyped,
                          KillKept, CountsEarned

LEMMA SaveInstructionKeeps ==
  ASSUME AllocatorInv, SaveInstruction
  PROVE  AllocatorInv'
<1>1. /\ curves' = curves /\ book' = book /\ command' = command
      /\ clean' = clean /\ killed' = killed /\ seen' = seen
      /\ order' = run.out.order /\ run' = [run EXCEPT !.phase = "state"] /\ run.phase = "instruction"
  BY DEF SaveInstruction
<1>7. PICK phase \in {"instruction", "state"} : \E loaded :
        (loaded = Missing \/ IsState(loaded)) /\ run = RunOf(phase, loaded)
  BY <1>1 DEF AllocatorInv, AllocatorTyped, RunTyped, NoRun
<1>2. PICK loaded : (loaded = Missing \/ IsState(loaded)) /\ run = RunOf(phase, loaded)
  BY <1>7
<1>3. run' = RunOf("state", loaded)
  BY <1>1, <1>2, RunIs
<1>4. RunTyped'
  BY <1>1, <1>2, <1>3, RunOfKept DEF RunTyped
<1>5. IsOrder(order')
  BY <1>1, <1>2, RunIs, OrDefaultIsState, AllocateTyped DEF AllocatorInv, AllocatorTyped
<1>6. SessionsTyped'
  BY <1>1, SessionsUnchanged DEF AllocatorInv, AllocatorTyped
<1> QED
  BY <1>1, <1>4, <1>5, <1>6 DEF AllocatorInv, AllocatorTyped, FilesTyped, CommandTyped, PastTyped,
                                KillKept, CountsEarned

\* What the save of a state writes, and what it saw.
LEMMA SaveStateWrites ==
  ASSUME AllocatorInv, SaveState
  PROVE  \E loaded :
           /\ (loaded = Missing \/ IsState(loaded)) /\ clean' = (clean /\ loaded = book)
           /\ IsState(book') /\ book'.kill = OrDefault(loaded).kill
           /\ seen' \in [Sleeves -> Seq(Int)]
           /\ \A s \in Sleeves : /\ book'.sleeves[s].brake = SleeveBrake(s, OrDefault(loaded))
                                 /\ seen'[s] = Noticed(seen[s], LastEquity(SleeveCurve(s)))
<1>1. /\ run.phase = "state" /\ book' = run.out.state /\ clean' = (clean /\ run.loaded = book)
      /\ seen' = [s \in Sleeves |-> Noticed(seen[s], run.found[s])]
  BY DEF SaveState
<1>2. PICK phase \in {"instruction", "state"} : \E loaded :
        (loaded = Missing \/ IsState(loaded)) /\ run = RunOf(phase, loaded)
  BY <1>1 DEF AllocatorInv, AllocatorTyped, RunTyped, NoRun
<1>3. PICK loaded : (loaded = Missing \/ IsState(loaded)) /\ run = RunOf(phase, loaded)
  BY <1>2
<1>4. SessionsTyped /\ seen \in [Sleeves -> Seq(Int)]
  BY DEF AllocatorInv, AllocatorTyped, PastTyped
<1>5. run.loaded = loaded /\ book' = Allocate(OrDefault(loaded)).state
  BY <1>1, <1>3, RunIs
<1>6. IsState(OrDefault(loaded))
  BY <1>3, OrDefaultIsState
<1>7. /\ IsState(book') /\ book'.kill = OrDefault(loaded).kill
      /\ \A s \in Sleeves : book'.sleeves[s].brake = SleeveBrake(s, OrDefault(loaded))
  BY <1>4, <1>5, <1>6, AllocateTyped
<1>8. ASSUME NEW s \in Sleeves
      PROVE  seen'[s] = Noticed(seen[s], LastEquity(SleeveCurve(s))) /\ seen'[s] \in Seq(Int)
  <2>1. seen'[s] = Noticed(seen[s], LastEquity(SleeveCurve(s)))
    BY <1>1, <1>3, RunIs
  <2> QED
    BY <1>4, <1>6, <2>1, NoticedTyped, SleeveBrakeTyped
<1>9. seen' \in [Sleeves -> Seq(Int)]
  BY <1>1, <1>8
<1> QED
  BY <1>1, <1>3, <1>5, <1>7, <1>8, <1>9

LEMMA SaveStateEarns ==
  ASSUME AllocatorInv, SaveState, clean', NEW s \in Sleeves
  PROVE  /\ book'.sleeves[s].brake.brake = "brake" => Earned(book'.sleeves[s].brake, seen'[s])
         /\ Braked(book, s) /\ ~Braked(book', s) => Rises(seen'[s], Config[s].recover)
<1>1. PICK loaded :
        /\ (loaded = Missing \/ IsState(loaded)) /\ clean' = (clean /\ loaded = book)
        /\ IsState(book') /\ book'.kill = OrDefault(loaded).kill
        /\ seen' \in [Sleeves -> Seq(Int)]
        /\ \A t \in Sleeves : /\ book'.sleeves[t].brake = SleeveBrake(t, OrDefault(loaded))
                              /\ seen'[t] = Noticed(seen[t], LastEquity(SleeveCurve(t)))
  BY SaveStateWrites
<1>2. clean /\ loaded = book
  BY <1>1
<1>3. SessionsTyped /\ seen \in [Sleeves -> Seq(Int)] /\ CountsEarned
  BY DEF AllocatorInv, AllocatorTyped, PastTyped
<1>4. IsState(OrDefault(loaded))
  BY <1>1, OrDefaultIsState
<1> DEFINE b == OrDefault(loaded).sleeves[s].brake
           e == LastEquity(SleeveCurve(s))
           dd == Drawdown(SleeveCurve(s))
           next == StepBrake(b, dd, e, Config[s].ddHalf, Config[s].ddOff, Config[s].recover)
<1>5. b \in Brakes /\ e \in Int /\ seen[s] \in Seq(Int) /\ Config[s].recover \in Nat
  BY <1>3, <1>4, SleeveBrakeTyped, ConfigAssumption DEF IsState, SleeveStates
<1>6. Braked(book, s) <=> b.brake = "brake"
  <2>1. CASE loaded = Missing
    <3>1. b.brake = "normal"
      BY <2>1 DEF OrDefault, DefaultBook, BlankSleeve, Fresh
    <3> QED
      BY <1>2, <2>1, <3>1 DEF Braked
  <2>2. CASE IsState(loaded)
    <3>1. loaded # Missing /\ loaded # Torn
      BY <2>2, FilesDiffer
    <3> QED
      BY <1>2, <3>1 DEF Braked, OrDefault
  <2> QED
    BY <1>1, <2>1, <2>2
<1>7. b.brake = "brake" => Earned(b, seen[s])
  <2>1. SUFFICES ASSUME b.brake = "brake" PROVE Earned(b, seen[s])
    OBVIOUS
  <2>2. book \notin {Torn, Missing} /\ book.sleeves[s].brake.brake = "brake" /\ OrDefault(loaded) = book
    BY <1>2, <1>6, <2>1 DEF Braked, OrDefault
  <2> QED
    BY <1>2, <1>3, <2>2 DEF CountsEarned
<1>8. book'.sleeves[s].brake = next /\ seen'[s] = Noticed(seen[s], e)
  BY <1>1 DEF SleeveBrake
<1>9. Braked(book', s) <=> next.brake = "brake"
  BY <1>1, <1>8, FilesDiffer DEF Braked
<1> HIDE DEF b, e, dd
<1>10. /\ next.brake = "brake" => Earned(next, Noticed(seen[s], e))
       /\ b.brake = "brake" /\ next.brake # "brake" => Rises(Noticed(seen[s], e), Config[s].recover)
  BY <1>5, <1>7, BrakeEarns
<1> HIDE DEF next
<1> QED
  BY <1>6, <1>8, <1>9, <1>10

LEMMA SaveStateKeeps ==
  ASSUME AllocatorInv, SaveState
  PROVE  AllocatorInv'
<1>1. PICK loaded :
        /\ (loaded = Missing \/ IsState(loaded)) /\ clean' = (clean /\ loaded = book)
        /\ IsState(book') /\ book'.kill = OrDefault(loaded).kill
        /\ seen' \in [Sleeves -> Seq(Int)]
        /\ \A t \in Sleeves : /\ book'.sleeves[t].brake = SleeveBrake(t, OrDefault(loaded))
                              /\ seen'[t] = Noticed(seen[t], LastEquity(SleeveCurve(t)))
  BY SaveStateWrites
<1>2. curves' = curves /\ order' = order /\ command' = command /\ killed' = killed /\ run' = NoRun
  BY DEF SaveState
<1>3. SessionsTyped'
  BY <1>2, SessionsUnchanged DEF AllocatorInv, AllocatorTyped
<1>4. FilesTyped' /\ RunTyped' /\ CommandTyped'
  BY <1>1, <1>2 DEF AllocatorInv, AllocatorTyped, FilesTyped, RunTyped, CommandTyped
<1>5. PastTyped'
  BY <1>1, <1>2 DEF AllocatorInv, AllocatorTyped, PastTyped
<1>6. KillKept'
  <2>1. SUFFICES ASSUME clean', killed PROVE book' # Missing /\ book'.kill
    BY <1>2 DEF KillKept
  <2>2. clean /\ loaded = book
    BY <1>1, <2>1
  <2>3. book # Torn
    BY <1>1, <2>2, FilesDiffer
  <2>4. book # Missing /\ book.kill
    BY <2>1, <2>2, <2>3 DEF AllocatorInv, KillKept
  <2>5. OrDefault(loaded) = book
    BY <2>2, <2>4 DEF OrDefault
  <2> QED
    BY <1>1, <2>4, <2>5, FilesDiffer
<1>7. CountsEarned'
  BY SaveStateEarns DEF CountsEarned
<1> QED
  BY <1>3, <1>4, <1>5, <1>6, <1>7 DEF AllocatorInv, AllocatorTyped

LEMMA RunDiesKeeps ==
  ASSUME AllocatorInv, RunDies
  PROVE  AllocatorInv'
<1>1. /\ curves' = curves /\ command' = command /\ clean' = clean /\ killed' = killed /\ seen' = seen
      /\ run' = NoRun
      /\ order' = order \/ order' = Torn
      /\ book' = book \/ book' = Torn
  BY DEF RunDies
<1>2. SessionsTyped'
  BY <1>1, SessionsUnchanged DEF AllocatorInv, AllocatorTyped
<1>3. FilesTyped' /\ RunTyped' /\ CommandTyped' /\ PastTyped'
  BY <1>1 DEF AllocatorInv, AllocatorTyped, FilesTyped, RunTyped, CommandTyped, PastTyped
<1>4. KillKept'
  BY <1>1 DEF AllocatorInv, KillKept
<1>5. CountsEarned'
  BY <1>1 DEF AllocatorInv, CountsEarned
<1> QED
  BY <1>2, <1>3, <1>4, <1>5 DEF AllocatorInv, AllocatorTyped

LEMMA StartCommandKeeps ==
  ASSUME AllocatorInv, StartCommand
  PROVE  AllocatorInv'
<1>1. /\ curves' = curves /\ book' = book /\ order' = order /\ run' = run
      /\ clean' = clean /\ killed' = killed /\ seen' = seen /\ book # Torn
  BY DEF StartCommand
<1>2. PICK what \in {"kill", "unkill"} \cup Sleeves : command' = [what |-> what, loaded |-> book]
  BY DEF StartCommand
<1>3. CommandTyped'
  BY <1>1, <1>2 DEF CommandTyped, AllocatorInv, AllocatorTyped, FilesTyped
<1>4. SessionsTyped' /\ RunTyped'
  BY <1>1, SessionsUnchanged, RunUnchanged DEF AllocatorInv, AllocatorTyped
<1> QED
  BY <1>1, <1>3, <1>4 DEF AllocatorInv, AllocatorTyped, FilesTyped, PastTyped, KillKept, CountsEarned

LEMMA SaveCommandKeeps ==
  ASSUME AllocatorInv, SaveCommand
  PROVE  AllocatorInv'
<1>1. /\ curves' = curves /\ order' = order /\ run' = run /\ seen' = seen /\ command' = NoCommand
      /\ command # NoCommand /\ clean' = (clean /\ command.loaded = book)
      /\ killed' = (IF command.what = "kill" THEN TRUE ELSE IF command.what = "unkill" THEN FALSE ELSE killed)
  BY DEF SaveCommand
<1>2. PICK what, loaded : what = command.what /\ loaded = command.loaded
  OBVIOUS
<1>3. what \in {"kill", "unkill"} \cup Sleeves /\ (loaded = Missing \/ IsState(loaded))
  BY <1>1, <1>2 DEF AllocatorInv, AllocatorTyped, CommandTyped
<1>4. book' = Commanded(what, OrDefault(loaded))
  BY <1>2 DEF SaveCommand, OrDefault
<1>5. IsState(OrDefault(loaded)) /\ (loaded # Missing => OrDefault(loaded) = loaded)
  BY <1>3, OrDefaultIsState
<1>6. /\ IsState(book') /\ (what = "kill" => book'.kill)
      /\ what \notin {"kill", "unkill"} => book'.kill = OrDefault(loaded).kill
      /\ \A s \in Sleeves : book'.sleeves[s].brake.brake = "brake"
                              => book'.sleeves[s].brake = OrDefault(loaded).sleeves[s].brake
  BY <1>3, <1>4, <1>5, CommandedIsState
<1>7. SessionsTyped' /\ RunTyped'
  BY <1>1, SessionsUnchanged, RunUnchanged DEF AllocatorInv, AllocatorTyped
<1>8. FilesTyped' /\ CommandTyped' /\ PastTyped'
  BY <1>1, <1>6 DEF AllocatorInv, AllocatorTyped, FilesTyped, CommandTyped, PastTyped
<1>9. KillKept'
  <2>1. SUFFICES ASSUME clean', killed' PROVE book' # Missing /\ book'.kill
    BY DEF KillKept
  <2>2. book' # Missing
    BY <1>6, FilesDiffer
  <2>3. CASE what = "kill"
    BY <1>6, <2>2, <2>3
  <2>4. CASE what # "kill"
    <3>1. what # "unkill" /\ killed /\ clean /\ loaded = book
      BY <1>1, <1>2, <2>1, <2>4
    <3>2. book # Torn
      BY <1>3, <3>1, FilesDiffer
    <3>3. book # Missing /\ book.kill
      BY <3>1, <3>2 DEF AllocatorInv, KillKept
    <3> QED
      BY <1>5, <1>6, <2>2, <2>4, <3>1, <3>3
  <2> QED
    BY <2>3, <2>4
<1>10. CountsEarned'
  <2>1. SUFFICES ASSUME clean', NEW s \in Sleeves, book'.sleeves[s].brake.brake = "brake"
                 PROVE  Earned(book'.sleeves[s].brake, seen'[s])
    BY Zenon DEF CountsEarned
  <2>2. clean /\ loaded = book
    BY <1>1, <1>2, <2>1
  <2>3. book'.sleeves[s].brake = OrDefault(loaded).sleeves[s].brake
    BY <1>6, <2>1
  <2>4. loaded # Missing
    <3>1. DefaultBook.sleeves[s].brake.brake = "normal"
      BY DEF DefaultBook, BlankSleeve, Fresh
    <3> QED
      BY <2>1, <2>3, <3>1 DEF OrDefault
  <2>5. book \notin {Torn, Missing} /\ book.sleeves[s].brake.brake = "brake"
    BY <1>3, <1>5, <2>1, <2>2, <2>3, <2>4, FilesDiffer
  <2> QED
    BY <1>1, <1>5, <2>2, <2>3, <2>4, <2>5 DEF AllocatorInv, CountsEarned
<1> QED
  BY <1>7, <1>8, <1>9, <1>10 DEF AllocatorInv, AllocatorTyped

LEMMA AllocatorStays == AllocatorSpec => []AllocatorInv
<1>1. AllocatorInv /\ [AllocatorNext]_allocatorVars => AllocatorInv'
  <2> SUFFICES ASSUME AllocatorInv, [AllocatorNext]_allocatorVars PROVE AllocatorInv'
    OBVIOUS
  <2>1. CASE UNCHANGED allocatorVars
    <3>1. SessionsTyped' /\ RunTyped'
      BY <2>1, SessionsUnchanged, RunUnchanged DEF AllocatorInv, AllocatorTyped, allocatorVars
    <3> QED
      BY <2>1, <3>1 DEF allocatorVars, AllocatorInv, AllocatorTyped, FilesTyped, CommandTyped, PastTyped,
                        KillKept, CountsEarned
  <2> QED
    BY <2>1, CloseSessionKeeps, StartRunKeeps, SaveInstructionKeeps, SaveStateKeeps, RunDiesKeeps,
       StartCommandKeeps, SaveCommandKeeps DEF AllocatorNext
<1> QED
  BY AllocatorBegins, <1>1, PTL DEF AllocatorSpec

\* Half of what an instruction says is no more than it says, or one contract, or nothing.
LEMMA HalfIsModest ==
  ASSUME NEW units \in Int, NEW s
  PROVE  /\ \/ Fallback(s, units).units <= units
            \/ Fallback(s, units).units <= (IF Config[s].contracts THEN 1 ELSE 0)
         /\ units = 0 /\ ~Config[s].contracts => Fallback(s, units) = [units |-> 0, shadow |-> TRUE]
<1>1. units # NoEquity
  BY NoEquityAssumption
<1>2. /\ units \div 2 \in Int /\ units % 2 \in 0 .. 1 /\ units = 2 * (units \div 2) + (units % 2)
  OBVIOUS
<1>3. (Round(units, 2) <= units \/ Round(units, 2) <= 1) /\ Round(units, 2) \in Int
  BY <1>2 DEF Round
<1>4. units \div 2 <= units \/ units \div 2 <= 0
  BY <1>2
<1>5. CASE Config[s].contracts
  <2>1. Fallback(s, units).units = IF Round(units, 2) > 1 THEN Round(units, 2) ELSE 1
    BY <1>1, <1>5 DEF Fallback
  <2> HIDE DEF Round
  <2> QED
    BY <1>3, <1>5, <2>1
<1>6. CASE ~Config[s].contracts
  <2>1. Fallback(s, units) =
          IF units = 0 THEN [units |-> 0, shadow |-> TRUE] ELSE [units |-> units \div 2, shadow |-> FALSE]
    BY <1>1, <1>6 DEF Fallback
  <2> QED
    BY <1>4, <1>6, <2>1
<1> QED
  BY <1>5, <1>6

LEMMA ObeyedFromInv == AllocatorInv => AllocatorObeys
<1> SUFFICES ASSUME AllocatorInv PROVE AllocatorObeys
  OBVIOUS
<1>1. order \notin {Torn, Missing} => IsOrder(order)
  BY DEF AllocatorInv, AllocatorTyped, FilesTyped
<1>2. KillStands
  BY <1>1 DEF KillStands, AllocatorInv, KillKept, IsOrder
<1>3. ASSUME Readable, order # Missing, NEW s \in Sleeves
      PROVE  LET said == order.sleeves[s].units
                 traded == ReadInstruction(s)
             IN /\ traded.units <= said \/ traded.units <= Least(s)
                /\ said = 0 /\ Least(s) = 0 => traded.units = 0 /\ traded.shadow
  <2>1. PICK said \in Int : said = order.sleeves[s].units
    BY <1>1, <1>3 DEF Readable, IsOrder
  <2>2. said = 0 => order.sleeves[s].shadow
    BY <1>1, <1>3, <2>1 DEF Readable, IsOrder
  <2>3. PICK traded : traded = ReadInstruction(s)
    OBVIOUS
  <2>4. CASE order.session > Completed
    <3>1. traded = [units |-> said, shadow |-> order.sleeves[s].shadow]
      BY <1>3, <2>1, <2>3, <2>4 DEF ReadInstruction
    <3> QED
      BY <2>1, <2>2, <2>3, <3>1
  <2>5. CASE ~(order.session > Completed)
    <3>1. traded = Fallback(s, said)
      BY <1>3, <2>1, <2>3, <2>5 DEF ReadInstruction, LastUnits
    <3>2. Least(s) = IF Config[s].contracts THEN 1 ELSE 0
      BY <2>5 DEF Least
    <3> QED
      BY <2>1, <2>3, <3>1, <3>2, HalfIsModest
  <2> QED
    BY <2>4, <2>5
<1>4. OrdersModest
  BY <1>1, <1>3 DEF OrdersModest, IsOrder
<1> QED
  BY <1>2, <1>4 DEF AllocatorObeys

\* Only the save of a state releases a sleeve unasked.
LEMMA ReleasesFromInv ==
  ASSUME AllocatorInv, [AllocatorNext]_allocatorVars, NEW s \in Sleeves,
         clean', run' = NoRun, command' = command, Braked(book, s), book' # Torn, ~Braked(book', s)
  PROVE  Rises(seen'[s], Config[s].recover)
<1>1. book' # book
  BY DEF Braked
<1>2. CASE RunDies
  BY <1>1, <1>2 DEF RunDies
<1>3. CASE SaveCommand
  BY <1>3 DEF SaveCommand
<1>4. CASE SaveState
  BY <1>4, SaveStateEarns
<1> QED
  BY <1>1, <1>2, <1>3, <1>4
     DEF AllocatorNext, allocatorVars, CloseSession, StartRun, SaveInstruction, StartCommand

\* A brake is released once its count is what the book asks for, and sleeves are sized in steps.
StateCounts(st) ==
  \A s \in Sleeves : st.sleeves[s].brake.count < Config[s].recover /\ st.sleeves[s].units % Config[s].step = 0
FileCounts(file) == file \in {Torn, Missing} \/ StateCounts(file)

AllocatorCounts ==
  /\ FileCounts(book)
  /\ run # NoRun => FileCounts(run.loaded)
  /\ command # NoCommand => FileCounts(command.loaded)
  /\ order \in {Torn, Missing} \/ order.session \in 1 .. Completed + 1

LEMMA StepBrakeCounts ==
  ASSUME NEW b \in Brakes, NEW dd, NEW e \in Int, NEW half, NEW off, NEW recover \in Nat \ {0}, b.count < recover
  PROVE  StepBrake(b, dd, e, half, off, recover).count < recover
<1> DEFINE halved == IF b.brake = "normal" /\ dd >= half THEN "half" ELSE b.brake
           braked == IF halved = "half" /\ dd >= off THEN "brake" ELSE halved
           entered == IF halved = "half" /\ braked = "brake" THEN [b EXCEPT !.count = 0, !.high = e] ELSE b
           calmed == IF braked = "half" /\ 2 * dd < half THEN "normal" ELSE braked
           counted == IF calmed = "brake" THEN Recover(entered, e) ELSE entered
           freed == calmed = "brake" /\ counted.count >= recover
           next == StepBrake(b, dd, e, half, off, recover)
<1>1. next = [counted EXCEPT !.brake = IF freed THEN "half" ELSE calmed,
                             !.count = IF freed THEN 0 ELSE counted.count, !.last = e]
  BY DEF StepBrake
<1>5. ASSUME NEW c \in Brakes, NEW n \in Nat, NEW top \in Numbers
      PROVE  [c EXCEPT !.count = n, !.high = top] \in Brakes /\ [c EXCEPT !.count = n, !.high = top].count = n
  BY <1>5 DEF Brakes
<1>6. e \in Numbers
  BY DEF Numbers
<1>7. [b EXCEPT !.count = 0, !.high = e] \in Brakes /\ [b EXCEPT !.count = 0, !.high = e].count = 0
  BY <1>5, <1>6, 0 \in Nat
<1>2. entered \in Brakes /\ entered.count < recover
  <2>1. 0 < recover
    OBVIOUS
  <2> QED
    BY <1>7, <2>1, Zenon
<1> HIDE DEF halved, braked, calmed, entered
<1>8. Recover(entered, e) \in Brakes
  <2>1. entered.count + 1 \in Nat /\ entered.high \in Numbers
    BY <1>2 DEF Brakes
  <2>2. PICK top \in Numbers : top = IF entered.high = NoEquity \/ e < entered.high THEN e ELSE entered.high
    BY <1>6, <2>1, Zenon
  <2>3. /\ [entered EXCEPT !.count = 0, !.high = top] \in Brakes
        /\ [entered EXCEPT !.count = entered.count + 1, !.high = e] \in Brakes
    BY <1>2, <1>5, <1>6, <2>1, 0 \in Nat
  <2> QED
    BY <1>2, <2>2, <2>3 DEF Recover
<1>3. counted \in Brakes /\ (calmed # "brake" => counted.count < recover)
  BY <1>2, <1>8, Zenon
<1> HIDE DEF counted
<1>4. counted.count \in Nat /\ next.count = IF freed THEN 0 ELSE counted.count
  BY <1>1, <1>3 DEF Brakes
<1> QED
  BY <1>3, <1>4

LEMMA StepsDivide ==
  ASSUME NEW k \in Int, NEW step \in Nat \ {0}
  PROVE  (k * step) % step = 0
<1>1. k * step \in Int
  OBVIOUS
<1> QED
  BY <1>1, SMTT(30)

LEMMA AllocateCounts ==
  ASSUME SessionsTyped, NEW st, IsState(st), StateCounts(st)
  PROVE  StateCounts(Allocate(st).state)
<1> DEFINE rows == [s \in Sleeves |->
                     [brake |-> SleeveBrake(s, st), raw |-> RawOf(s, st), gates |-> GatesOf(s, st),
                      units |-> Units(s, st, BookGate(st))]]
<1>1. Allocate(st).state.sleeves = rows
  BY DEF Allocate
<1>2. \A s \in Sleeves : rows[s].brake = SleeveBrake(s, st) /\ rows[s].units = Units(s, st, BookGate(st))
  OBVIOUS
<1> HIDE DEF rows
<1>3. ASSUME NEW s \in Sleeves PROVE SleeveBrake(s, st).count < Config[s].recover
  <2>1. st.sleeves[s].brake \in Brakes /\ st.sleeves[s].brake.count < Config[s].recover
    BY DEF IsState, SleeveStates, StateCounts
  <2>2. LastEquity(SleeveCurve(s)) \in Int /\ Config[s].recover \in Nat \ {0}
    BY SleeveBrakeTyped, ConfigAssumption
  <2> QED
    BY <2>1, <2>2, StepBrakeCounts, Zenon DEF SleeveBrake
<1>4. ASSUME NEW s \in Sleeves PROVE Units(s, st, BookGate(st)) % Config[s].step = 0
  <2>1. Config[s].step \in Nat \ {0} /\ Config[s].size \in Int /\ 80 * Config[s].step \in Nat \ {0}
    BY ConfigAssumption
  <2>2. 0 % Config[s].step = 0
    BY <2>1
  <2>3. ASSUME NEW m \in Int, NEW g \in 0 .. 2 PROVE Sized(s, m, g) % Config[s].step = 0
    <3>1. m * g \in Int
      OBVIOUS
    <3>2. m * g * Config[s].size \in Int
      BY <2>1, <3>1
    <3>3. Round(m * g * Config[s].size, 80 * Config[s].step) \in Int
      BY <2>1, <3>2, RoundTyped
    <3> QED
      BY <2>1, <3>3, StepsDivide DEF Sized
  <2>4. Multiplier(s, st) \in Int
    BY RawTyped
  <2>5. BookBrake(st).brake \in BrakeStates
    BY StepBrakeKeeps DEF BookBrake, IsState, IsBrake
  <2>6. \A b \in BrakeStates : Gate(b) \in 0 .. 2
    BY DEF BrakeStates, Gate
  <2>7. BookGate(st) \in 0 .. 2
    BY <2>5, <2>6 DEF BookGate
  <2> QED
    BY <2>2, <2>3, <2>4, <2>7 DEF Units
<1> QED
  BY <1>1, <1>2, <1>3, <1>4 DEF StateCounts

LEMMA DefaultCounts == StateCounts(DefaultBook)
<1>1. \A s \in Sleeves : DefaultBook.sleeves[s].brake.count = 0 /\ DefaultBook.sleeves[s].units = 0
  BY DEF DefaultBook, BlankSleeve, Fresh
<1>2. \A s \in Sleeves : 0 < Config[s].recover /\ 0 % Config[s].step = 0
  BY ConfigAssumption
<1> QED
  BY <1>1, <1>2 DEF StateCounts

LEMMA CommandedCounts ==
  ASSUME NEW st, IsState(st), StateCounts(st), NEW what \in {"kill", "unkill"} \cup Sleeves
  PROVE  StateCounts(Commanded(what, st))
<1>1. ASSUME NEW v PROVE [st EXCEPT !.kill = v].sleeves = st.sleeves
  BY DEF IsState
<1>2. CASE what \in {"kill", "unkill"}
  <2>1. Commanded(what, st).sleeves = st.sleeves
    BY <1>1, <1>2 DEF Commanded
  <2> QED
    BY <2>1 DEF StateCounts
<1>3. CASE what \notin {"kill", "unkill"} /\ st.sleeves[what].brake.brake # "brake"
  <2>1. Commanded(what, st) = st
    BY <1>3 DEF Commanded
  <2> QED
    BY <2>1
<1>4. CASE what \notin {"kill", "unkill"} /\ st.sleeves[what].brake.brake = "brake"
  <2> DEFINE half == [st.sleeves[what].brake EXCEPT !.brake = "half", !.count = 0]
             row == [st.sleeves[what] EXCEPT !.brake = half]
             rows == [st.sleeves EXCEPT ![what] = row]
  <2>1. what \in Sleeves /\ st.sleeves \in [Sleeves -> SleeveStates] /\ st.sleeves[what] \in SleeveStates
    BY <1>4 DEF IsState
  <2>2. half.count = 0
    BY <2>1 DEF SleeveStates, Brakes
  <2>3. row.brake = half /\ row.units = st.sleeves[what].units
    BY <2>1 DEF SleeveStates
  <2>4. \A s \in Sleeves : rows[s] = IF s = what THEN row ELSE st.sleeves[s]
    BY <2>1
  <2>5. Commanded(what, st)
          = [st EXCEPT !.sleeves[what].brake = [st.sleeves[what].brake EXCEPT !.brake = "half", !.count = 0]]
    BY <1>4 DEF Commanded
  <2>6. Commanded(what, st) = [st EXCEPT !.sleeves = rows]
    BY <2>5
  <2> HIDE DEF half, row, rows
  <2>7. Commanded(what, st).sleeves = rows
    BY <2>6 DEF IsState
  <2>8. 0 < Config[what].recover
    BY <2>1, ConfigAssumption
  <2> QED
    BY <2>2, <2>3, <2>4, <2>7, <2>8 DEF StateCounts
<1> QED
  BY <1>2, <1>3, <1>4

LEMMA OrDefaultCounts ==
  ASSUME NEW file, file = Missing \/ IsState(file), FileCounts(file)
  PROVE  IsState(OrDefault(file)) /\ StateCounts(OrDefault(file))
<1>1. file = Missing \/ StateCounts(file)
  BY FilesDiffer DEF FileCounts
<1> QED
  BY <1>1, OrDefaultIsState, DefaultCounts DEF OrDefault

LEMMA AllocatorCountsStep ==
  ASSUME AllocatorInv, AllocatorCounts, [AllocatorNext]_allocatorVars
  PROVE  AllocatorCounts'
<1>1. SessionsTyped /\ Completed \in Nat
  BY CompletedInMarket DEF AllocatorInv, AllocatorTyped
<1>2. curves' = curves => Completed' = Completed
  BY DEF Completed
<1>3. ASSUME UNCHANGED <<book, order, run, command, curves>> PROVE AllocatorCounts'
  BY <1>2, <1>3 DEF AllocatorCounts, FileCounts, StateCounts, NoRun, NoCommand
<1>4. ASSUME run # NoRun PROVE /\ IsState(OrDefault(run.loaded)) /\ StateCounts(OrDefault(run.loaded))
                               /\ run.out = Allocate(OrDefault(run.loaded))
  <2>1. PICK phase \in {"instruction", "state"} : \E loaded :
          (loaded = Missing \/ IsState(loaded)) /\ run = RunOf(phase, loaded)
    BY <1>4 DEF AllocatorInv, AllocatorTyped, RunTyped
  <2>2. PICK loaded : (loaded = Missing \/ IsState(loaded)) /\ run = RunOf(phase, loaded)
    BY <2>1
  <2>3. run.loaded = loaded /\ run.out = Allocate(OrDefault(loaded))
    BY <2>2, RunIs
  <2> QED
    BY <1>4, <2>2, <2>3, OrDefaultCounts DEF AllocatorCounts
<1>5. CASE CloseSession
  <2>1. UNCHANGED <<book, order, run, command>>
    BY <1>5 DEF CloseSession
  <2>2. Completed' >= Completed /\ Completed' \in Nat
    <3>1. PICK n \in Nat : n + 1 <= Len(Market) /\ \A s \in Sleeves : Len(curves[s]) = n
      BY <1>1 DEF SessionsTyped
    <3>2. PICK move \in Moves :
            curves' = [s \in Sleeves |->
                         Append(curves[s], (IF curves[s] = <<>> THEN 100 ELSE Last(curves[s])) + move[s])]
      BY <1>5 DEF CloseSession
    <3>3. \A s \in Sleeves : curves[s] \in Seq(Int) /\ Len(curves[s]) = n
      BY <1>1, <3>1 DEF SessionsTyped
    <3>4. ASSUME NEW s \in Sleeves PROVE Len(curves'[s]) = n + 1
      <4>1. PICK last : last = (IF curves[s] = <<>> THEN 100 ELSE Last(curves[s])) + move[s]
        OBVIOUS
      <4>2. curves'[s] = Append(curves[s], last)
        BY <3>2, <4>1
      <4> QED
        BY <3>3, <4>2
    <3>5. (CHOOSE c \in {curves[s] : s \in Sleeves} : TRUE) \in {curves[s] : s \in Sleeves}
      BY ConfigAssumption
    <3>6. (CHOOSE c \in {curves'[s] : s \in Sleeves} : TRUE) \in {curves'[s] : s \in Sleeves}
      BY ConfigAssumption
    <3>7. Completed = n
      BY <3>3, <3>5 DEF Completed
    <3>8. Completed' = n + 1
      BY <3>4, <3>6 DEF Completed
    <3> QED
      BY <3>7, <3>8
  <2>3. order \notin {Torn, Missing} => order.session \in 1 .. Completed' + 1
    BY <1>1, <2>2 DEF AllocatorCounts
  <2> QED
    BY <2>1, <2>3 DEF AllocatorCounts, FileCounts, StateCounts, NoRun, NoCommand
<1>6. CASE StartRun
  <2>1. UNCHANGED <<book, order, command, curves>> /\ run'.loaded = book
    BY <1>6 DEF StartRun
  <2> QED
    BY <1>2, <2>1 DEF AllocatorCounts, FileCounts, StateCounts, NoCommand
<1>7. CASE SaveInstruction
  <2>1. UNCHANGED <<book, command, curves>> /\ order' = run.out.order /\ run.phase = "instruction"
        /\ run' = [run EXCEPT !.phase = "state"]
    BY <1>7 DEF SaveInstruction
  <2>2. run # NoRun
    BY <2>1 DEF NoRun
  <2>3. order'.session = Completed + 1
    BY <1>4, <2>1, <2>2 DEF Allocate
  <2>4. run'.loaded = run.loaded
    <3>1. PICK phase \in {"instruction", "state"} : \E loaded :
            (loaded = Missing \/ IsState(loaded)) /\ run = RunOf(phase, loaded)
      BY <2>2 DEF AllocatorInv, AllocatorTyped, RunTyped
    <3>2. PICK loaded : run = RunOf(phase, loaded)
      BY <3>1
    <3> QED
      BY <2>1, <3>2, RunIs
  <2>5. order'.session \in 1 .. Completed' + 1
    BY <1>1, <1>2, <2>1, <2>3
  <2> QED
    BY <2>1, <2>2, <2>4, <2>5 DEF AllocatorCounts, FileCounts, StateCounts, NoCommand
<1>8. CASE SaveState
  <2>1. UNCHANGED <<order, command, curves>> /\ book' = run.out.state /\ run.phase = "state" /\ run' = NoRun
    BY <1>8 DEF SaveState
  <2>2. run # NoRun
    BY <2>1 DEF NoRun
  <2>3. StateCounts(book')
    BY <1>1, <1>4, <2>1, <2>2, AllocateCounts
  <2>4. run' = NoRun'
    BY <2>1 DEF NoRun
  <2>5. FileCounts(book)'
    BY <2>3 DEF FileCounts, StateCounts
  <2> QED
    BY <1>2, <2>1, <2>4, <2>5 DEF AllocatorCounts, FileCounts, StateCounts, NoCommand
<1>9. CASE RunDies
  <2>1. UNCHANGED <<command, curves>> /\ run' = NoRun /\ order' \in {order, Torn} /\ book' \in {book, Torn}
    BY <1>9 DEF RunDies
  <2>2. run' = NoRun'
    BY <2>1 DEF NoRun
  <2>3. FileCounts(book)'
    BY <2>1 DEF AllocatorCounts, FileCounts, StateCounts, Torn
  <2> QED
    BY <1>2, <2>1, <2>2, <2>3 DEF AllocatorCounts, FileCounts, StateCounts, NoCommand
<1>10. CASE StartCommand
  <2>1. UNCHANGED <<book, order, run, curves>> /\ command'.loaded = book
    BY <1>10 DEF StartCommand
  <2> QED
    BY <1>2, <2>1 DEF AllocatorCounts, FileCounts, StateCounts, NoRun
<1>11. CASE SaveCommand
  <2>1. UNCHANGED <<order, run, curves>> /\ command' = NoCommand /\ command # NoCommand
        /\ book' = Commanded(command.what, OrDefault(command.loaded))
    BY <1>11 DEF SaveCommand, OrDefault
  <2>2. PICK what, loaded : what = command.what /\ loaded = command.loaded
    OBVIOUS
  <2>3. /\ what \in {"kill", "unkill"} \cup Sleeves /\ (loaded = Missing \/ IsState(loaded))
        /\ FileCounts(loaded)
    BY <2>1, <2>2 DEF AllocatorInv, AllocatorTyped, CommandTyped, AllocatorCounts
  <2>4. StateCounts(book')
    BY <2>1, <2>2, <2>3, OrDefaultCounts, CommandedCounts
  <2>5. command' = NoCommand'
    BY <2>1 DEF NoCommand
  <2>6. FileCounts(book)'
    BY <2>4 DEF FileCounts, StateCounts
  <2> QED
    BY <1>2, <2>1, <2>5, <2>6 DEF AllocatorCounts, FileCounts, StateCounts, NoRun
<1>12. CASE UNCHANGED allocatorVars
  BY <1>3, <1>12 DEF allocatorVars
<1> QED
  BY <1>5, <1>6, <1>7, <1>8, <1>9, <1>10, <1>11, <1>12 DEF AllocatorNext

LEMMA AllocatorTypesFromInv ==
  ASSUME AllocatorInv, AllocatorCounts
  PROVE  AllocatorTypeOK
<1>1. \A s \in Sleeves : Len(curves[s]) = Completed
  <2>1. PICK n \in Nat : n + 1 <= Len(Market) /\ \A s \in Sleeves : Len(curves[s]) = n
    BY DEF AllocatorInv, AllocatorTyped, SessionsTyped
  <2>2. (CHOOSE c \in {curves[s] : s \in Sleeves} : TRUE) \in {curves[s] : s \in Sleeves}
    BY ConfigAssumption
  <2>3. Completed = n
    BY <2>1, <2>2 DEF Completed
  <2> QED
    BY <2>1, <2>3
<1>2. ASSUME book \notin {Torn, Missing}, NEW s \in Sleeves
      PROVE  /\ book.sleeves[s].brake.brake \in {"normal", "half", "brake"}
             /\ book.sleeves[s].brake.count \in 0 .. Config[s].recover - 1
             /\ book.sleeves[s].units % Config[s].step = 0
  <2>1. IsState(book) /\ StateCounts(book)
    BY <1>2 DEF AllocatorInv, AllocatorTyped, FilesTyped, AllocatorCounts, FileCounts
  <2>2. book.sleeves[s].brake \in Brakes
    BY <2>1 DEF IsState, SleeveStates
  <2>3. /\ book.sleeves[s].brake.count \in Nat /\ book.sleeves[s].brake.brake \in BrakeStates
        /\ Config[s].recover \in Nat
    BY <2>2, ConfigAssumption DEF Brakes
  <2>4. book.sleeves[s].brake.count < Config[s].recover /\ book.sleeves[s].units % Config[s].step = 0
    BY <2>1 DEF StateCounts
  <2> QED
    BY <2>3, <2>4 DEF BrakeStates
<1>3. run.phase \in {"idle", "instruction", "state"}
  BY RunIs DEF AllocatorInv, AllocatorTyped, RunTyped, NoRun
<1>4. command.what \in {"none", "kill", "unkill"} \cup Sleeves
  BY DEF AllocatorInv, AllocatorTyped, CommandTyped, NoCommand
<1>5. order \in {Torn, Missing} \/ order.session \in 1 .. Completed + 1
  BY DEF AllocatorCounts
<1> QED
  BY <1>1, <1>2, <1>3, <1>4, <1>5, Zenon DEF AllocatorTypeOK

LEMMA AllocatorTypes == AllocatorSpec => []AllocatorTypeOK
<1>1. AllocatorInit => AllocatorCounts
  BY DEF AllocatorInit, AllocatorCounts, FileCounts
<1> QED
  BY AllocatorStays, AllocatorCountsStep, AllocatorTypesFromInv, <1>1, PTL DEF AllocatorSpec

-----------------------------------------------------------------------------
(***************************************************************************)
(* The supervisor.                                                         *)
(***************************************************************************)
\* No verdict but to stand down, and the sizes a verdict is the least of.
Stood(c, stopped, w, say) ==
  stopped \/ Severity(c, w) = "HALT" \/ Snapshot(w).blocked \/ say.verdict = "STAND_DOWN"

Allowed(c, w, say) ==
  (IF Severity(c, w) = "CAUTION" THEN {Halved(c)} ELSE {})
    \cup (IF say.verdict = "REDUCE" \/ say.mult < 100 THEN {Scaled(c, say.mult)} ELSE {})
    \cup {DefaultContracts[c]}

VerdictRecords == [verdict : {"TRADE", "REDUCE", "STAND_DOWN"}, contracts : Nat]
Readings == [code : AllSleeves, stopped : BOOLEAN, bound : Int, xray : {PositionXray(w) : w \in WorldRecords},
             said : VerdictRecords]
CallRecords == [purpose : {"brief", "apply"}, todo : Seq(AllSleeves), heard : GateRecords, read : Seq(Readings),
                done : SUBSET AllSleeves, calm : SUBSET AllSleeves]

SaysNow(c) == Verdict(c, killSwitches[c], world[c], gatesSay[c])

\* Nothing to halt or to reduce.
Obeys(stopped, size, said) ==
  /\ said.verdict = "STAND_DOWN" => stopped
  /\ said.verdict = "REDUCE" => size <= said.contracts

Settles(c) == Obeys(killSwitches[c], bound[c], SaysNow(c))

ContextTyped ==
  /\ world \in [AllSleeves -> WorldRecords] /\ gatesSay \in GateRecords
  /\ bound \in [AllSleeves -> Int] /\ killSwitches \in [AllSleeves -> BOOLEAN]
  /\ call = NoCall \/ call \in CallRecords
  /\ settled \subseteq AllSleeves

\* Of a sleeve that has not moved since a call began, what it has read is what it would read now.
CallCurrent ==
  call # NoCall =>
    /\ settled = {}
    /\ \A c \in call.calm : call.heard[c] = gatesSay[c]
    /\ \A i \in 1 .. Len(call.read) :
         call.read[i].code \in call.calm => call.read[i].said = SaysNow(call.read[i].code)
    /\ \A c \in call.done \cap call.calm : Settles(c)

ContextInv == ContextTyped /\ CallCurrent /\ \A c \in settled : Settles(c)

LEMMA NearestIs ==
  ASSUME NEW a \in Nat, NEW b \in Nat, a <= b
  PROVE  Nearest(a, 100) \in Nat /\ Nearest(a, 100) <= Nearest(b, 100)
<1>1. a = 100 * (a \div 100) + (a % 100) /\ a \div 100 \in Nat /\ a % 100 \in 0 .. 99
  OBVIOUS
<1>2. b = 100 * (b \div 100) + (b % 100) /\ b \div 100 \in Nat /\ b % 100 \in 0 .. 99
  OBVIOUS
<1> DEFINE q == a \div 100
           r == a % 100
           p == b \div 100
           s == b % 100
<1>3. q \in Nat /\ p \in Nat /\ (q < p \/ (q = p /\ r <= s))
  BY <1>1, <1>2
<1>4. Nearest(a, 100) = IF 2 * r > 100 \/ (2 * r = 100 /\ q % 2 = 1) THEN q + 1 ELSE q
  BY DEF Nearest
<1>5. Nearest(b, 100) = IF 2 * s > 100 \/ (2 * s = 100 /\ p % 2 = 1) THEN p + 1 ELSE p
  BY DEF Nearest
<1> QED
  BY <1>1, <1>2, <1>3, <1>4, <1>5

LEMMA ScaledIs ==
  ASSUME NEW c \in AllSleeves, NEW mult \in Nat
  PROVE  /\ Scaled(c, mult) \in Nat \ {0}
         /\ Scaled(c, mult \div 2) <= Scaled(c, mult)
<1> DEFINE n == DefaultContracts[c]
           half == mult \div 2
<1>1. n \in Nat /\ half \in Nat /\ half <= mult
  BY DefaultContractsAssumption DEF AllSleeves
<1>2. n * half \in Nat /\ n * mult \in Nat /\ n * half <= n * mult
  <2>1. PICK rest \in Nat : mult = half + rest
    BY <1>1
  <2> HIDE DEF n, half
  <2>2. n * mult = n * half + n * rest
    BY <1>1, <2>1
  <2>3. n * half \in Nat /\ n * rest \in Nat
    BY <1>1, <2>1
  <2> QED
    BY <2>2, <2>3
<1> DEFINE x == Nearest(n * half, 100)
           y == Nearest(n * mult, 100)
<1>3. x \in Nat /\ y \in Nat /\ x <= y
  <2> HIDE DEF n, half
  <2> QED
    BY <1>2, NearestIs
<1>4. ASSUME NEW z \in Nat PROVE Max({1, z}) = IF z > 1 THEN z ELSE 1
  <2>1. CASE z > 1
    BY <2>1, GreatestIs
  <2>2. CASE ~(z > 1)
    BY <2>2, GreatestIs
  <2> QED
    BY <2>1, <2>2
<1>5. Scaled(c, mult) = Max({1, y}) /\ Scaled(c, mult \div 2) = Max({1, x})
  BY DEF Scaled
<1> HIDE DEF x, y
<1> QED
  BY <1>3, <1>4, <1>5

LEMMA AllowedIs ==
  ASSUME NEW c \in AllSleeves, NEW w, NEW say, say.mult \in Nat
  PROVE  Allowed(c, w, say) \in SUBSET (Nat \ {0}) /\ DefaultContracts[c] \in Allowed(c, w, say)
<1>1. DefaultContracts[c] \in Nat \ {0}
  BY DefaultContractsAssumption DEF AllSleeves
<1>2. Halved(c) \in Nat \ {0}
  BY <1>1 DEF Halved
<1>3. Scaled(c, say.mult) \in Nat \ {0}
  BY ScaledIs
<1> QED
  BY <1>1, <1>2, <1>3 DEF Allowed

\* A verdict for a sleeve is the least of the sizes that are allowed, unless it stands down.
LEMMA VerdictIs ==
  ASSUME NEW c \in AllSleeves, NEW stopped \in BOOLEAN, NEW w, NEW say, say.mult \in Nat
  PROVE  LET said == Verdict(c, stopped, w, say)
         IN /\ Stood(c, stopped, w, say) => said = [verdict |-> "STAND_DOWN", contracts |-> 0]
            /\ ~Stood(c, stopped, w, say) => /\ said.verdict \in {"TRADE", "REDUCE"}
                                             /\ said.contracts \in Allowed(c, w, say)
                                             /\ \A x \in Allowed(c, w, say) : said.contracts <= x
            /\ said \in VerdictRecords
<1> DEFINE said == Verdict(c, stopped, w, say)
           cuts == (IF Severity(c, w) = "CAUTION" THEN {Halved(c)} ELSE {})
                     \cup (IF say.verdict = "REDUCE" \/ say.mult < 100 THEN {Scaled(c, say.mult)} ELSE {})
           all == cuts \cup {DefaultContracts[c]}
<1>1. all = Allowed(c, w, say)
  BY DEF Allowed
<1>2. all \in SUBSET (Nat \ {0}) /\ DefaultContracts[c] \in all
  BY <1>1, AllowedIs
<1>3. Min(all) \in all /\ \A x \in all : Min(all) <= x
  <2> HIDE DEF all
  <2> QED
    BY <1>2, MinIn
<1>4. /\ Stood(c, stopped, w, say) => said = [verdict |-> "STAND_DOWN", contracts |-> 0]
      /\ ~Stood(c, stopped, w, say) /\ cuts = {} =>
           said = [verdict |-> "TRADE", contracts |-> DefaultContracts[c]]
      /\ ~Stood(c, stopped, w, say) /\ cuts # {} => said = [verdict |-> "REDUCE", contracts |-> Min(all)]
  BY Zenon DEF Verdict, Stood
<1>5. cuts = {} => \A x \in all : x = DefaultContracts[c]
  OBVIOUS
<1>6. ASSUME NEW verdict \in {"TRADE", "REDUCE", "STAND_DOWN"}, NEW n \in Nat
      PROVE  [verdict |-> verdict, contracts |-> n] \in VerdictRecords
  BY DEF VerdictRecords
<1>7. ~Stood(c, stopped, w, say) => /\ said.verdict \in {"TRADE", "REDUCE"}
                                    /\ said.contracts \in all
                                    /\ \A x \in all : said.contracts <= x
                                    /\ said \in VerdictRecords
  <2> HIDE DEF cuts, all, said
  <2> SUFFICES ASSUME ~Stood(c, stopped, w, say)
               PROVE  /\ said.verdict \in {"TRADE", "REDUCE"} /\ said.contracts \in all
                      /\ \A x \in all : said.contracts <= x
                      /\ said \in VerdictRecords
    OBVIOUS
  <2>1. CASE cuts = {}
    <3>1. said = [verdict |-> "TRADE", contracts |-> DefaultContracts[c]]
      BY <2>1, <1>4
    <3>2. DefaultContracts[c] \in all /\ DefaultContracts[c] \in Nat
      BY <1>2
    <3>3. \A x \in all : DefaultContracts[c] <= x
      BY <2>1, <1>5, <3>2
    <3>4. said \in VerdictRecords
      BY <3>1, <3>2, <1>6
    <3>5. said.verdict = "TRADE" /\ said.contracts = DefaultContracts[c]
      BY <3>1
    <3> QED
      BY <3>2, <3>3, <3>4, <3>5
  <2>2. CASE cuts # {}
    <3>1. said = [verdict |-> "REDUCE", contracts |-> Min(all)]
      BY <2>2, <1>4
    <3>2. Min(all) \in Nat
      BY <1>2, <1>3
    <3>3. said \in VerdictRecords
      BY <3>1, <3>2, <1>6
    <3>4. said.verdict = "REDUCE" /\ said.contracts = Min(all)
      BY <3>1
    <3> QED
      BY <3>3, <3>4, <1>3
  <2> QED
    BY <2>1, <2>2
<1>8. Stood(c, stopped, w, say) => /\ said = [verdict |-> "STAND_DOWN", contracts |-> 0]
                                   /\ said \in VerdictRecords
  <2> HIDE DEF cuts, all, said
  <2> QED
    BY <1>4, <1>6
<1> HIDE DEF all
<1> QED
  BY <1>1, <1>7, <1>8

\* Fewer sizes allowed, fewer contracts.
LEMMA VerdictLess ==
  ASSUME NEW c \in AllSleeves, NEW stopped \in BOOLEAN, NEW w, NEW say, say.mult \in Nat,
         NEW v, NEW told, told.mult \in Nat,
         ~Stood(c, stopped, v, told) =>
           /\ ~Stood(c, stopped, w, say)
           /\ \A x \in Allowed(c, w, say) : \E y \in Allowed(c, v, told) : y <= x
  PROVE  Verdict(c, stopped, v, told).contracts <= Verdict(c, stopped, w, say).contracts
<1> DEFINE before == Verdict(c, stopped, w, say).contracts
           after == Verdict(c, stopped, v, told).contracts
<1> SUFFICES after <= before
  OBVIOUS
<1>1. before \in Nat
  BY VerdictIs DEF VerdictRecords
<1>2. CASE Stood(c, stopped, v, told)
  <2>1. Verdict(c, stopped, v, told) = [verdict |-> "STAND_DOWN", contracts |-> 0]
    BY <1>2, VerdictIs
  <2> QED
    BY <1>1, <2>1
<1>3. CASE ~Stood(c, stopped, v, told)
  <2>1. before \in Allowed(c, w, say)
    BY <1>3, VerdictIs
  <2>2. PICK y \in Allowed(c, v, told) : y <= before
    BY <1>3, <2>1
  <2>3. after <= y
    BY <1>3, VerdictIs
  <2>4. after \in Nat
    BY VerdictIs DEF VerdictRecords
  <2>5. y \in Nat
    BY AllowedIs
  <2> HIDE DEF before, after
  <2> QED
    BY <1>1, <2>2, <2>3, <2>4, <2>5
<1> QED
  BY <1>2, <1>3

-----------------------------------------------------------------------------
\* A warning more is no better a reading.
LEMMA WorseIsNoBetter ==
  ASSUME NEW c \in AllSleeves, NEW w \in WorldRecords, NEW v \in Worse(w)
  PROVE  /\ v \in WorldRecords
         /\ Snapshot(w).blocked => Snapshot(v).blocked
         /\ Severity(c, w) = "HALT" => Severity(c, v) = "HALT"
         /\ Severity(c, w) = "CAUTION" => Severity(c, v) \in {"CAUTION", "HALT"}
<1>1. MostTrades[c] \in Int
  BY DefaultContractsAssumption DEF AllSleeves
<1> DEFINE open == IF w.open = "confirmed" THEN "unconfirmed" ELSE w.open
           loss == IF w.loss < 70 THEN 70 ELSE 100
<1>2. open \in {"none", "confirmed", "unconfirmed"} /\ (w.open = "unconfirmed" => open = "unconfirmed")
  BY DEF WorldRecords
<1>3. loss \in Int /\ loss >= 70 /\ (w.loss >= 70 => loss = 100)
  BY DEF WorldRecords
<1>4. v \in {[w EXCEPT !.blocked = TRUE], [w EXCEPT !.flagged = TRUE], [w EXCEPT !.loss = loss],
             [w EXCEPT !.events = {"halt"}], [w EXCEPT !.open = open]}
  BY DEF Worse
<1> HIDE DEF open, loss
<1>5. CASE v = [w EXCEPT !.blocked = TRUE]
  BY <1>5 DEF WorldRecords, Snapshot, Severity, DbSummary, Events
<1>6. CASE v = [w EXCEPT !.flagged = TRUE]
  BY <1>6 DEF WorldRecords, Snapshot, Severity, DbSummary, Events
<1>7. CASE v = [w EXCEPT !.loss = loss]
  BY <1>7, <1>1, <1>3 DEF WorldRecords, Snapshot, Severity, DbSummary, Events
<1>8. CASE v = [w EXCEPT !.events = {"halt"}]
  BY <1>8 DEF WorldRecords, Snapshot, Severity, DbSummary, Events
<1>9. CASE v = [w EXCEPT !.open = open]
  BY <1>9, <1>2 DEF WorldRecords, Snapshot, Severity, DbSummary, Events
<1> QED
  BY <1>4, <1>5, <1>6, <1>7, <1>8, <1>9

LEMMA WorseEnlargesNothing ==
  ASSUME NEW c \in AllSleeves, NEW stopped \in BOOLEAN, NEW w \in WorldRecords, NEW v \in Worse(w),
         NEW say, say.mult \in Nat
  PROVE  Verdict(c, stopped, v, say).contracts <= Verdict(c, stopped, w, say).contracts
<1>1. Stood(c, stopped, w, say) => Stood(c, stopped, v, say)
  BY WorseIsNoBetter DEF Stood
<1>2. ASSUME ~Stood(c, stopped, v, say) PROVE Allowed(c, w, say) \subseteq Allowed(c, v, say)
  <2>1. Severity(c, v) # "HALT"
    BY <1>2 DEF Stood
  <2>2. Severity(c, w) = "CAUTION" => Severity(c, v) = "CAUTION"
    BY <2>1, WorseIsNoBetter
  <2> QED
    BY <2>2 DEF Allowed
<1>3. \A x \in Allowed(c, w, say) : x <= x
  BY AllowedIs
<1> QED
  BY <1>1, <1>2, <1>3, VerdictLess

LEMMA CarefulEnlargesNothing ==
  ASSUME NEW c \in AllSleeves, NEW stopped \in BOOLEAN, NEW w,
         NEW say \in [verdict : {"TRADE", "REDUCE", "STAND_DOWN"}, mult : Nat], NEW told \in Careful(say)
  PROVE  Verdict(c, stopped, w, told).contracts <= Verdict(c, stopped, w, say).contracts
<1>1. say.mult \in Nat /\ told.mult \in Nat
  BY DEF Careful
<1>2. say.verdict = "STAND_DOWN" => told.verdict = "STAND_DOWN"
  BY DEF Careful
<1>3. ~Stood(c, stopped, w, told) => ~Stood(c, stopped, w, say)
  BY <1>2 DEF Stood
<1>4. ASSUME NEW x \in Allowed(c, w, say), ~Stood(c, stopped, w, told)
      PROVE  \E y \in Allowed(c, w, told) : y <= x
  <2>1. x \in Nat
    BY <1>1, AllowedIs
  <2>2. CASE x \in Allowed(c, w, told)
    BY <2>1, <2>2
  <2>3. CASE x \notin Allowed(c, w, told)
    <3>1. (say.verdict = "REDUCE" \/ say.mult < 100) /\ x = Scaled(c, say.mult)
      BY <2>3 DEF Allowed
    <3>2. CASE told = [say EXCEPT !.mult = @ \div 2]
      <4>1. told.mult = say.mult \div 2 /\ told.verdict = say.verdict /\ (say.mult < 100 => told.mult < 100)
        BY <3>2, <1>1
      <4>2. Scaled(c, told.mult) \in Allowed(c, w, told)
        BY <3>1, <4>1 DEF Allowed
      <4>3. Scaled(c, told.mult) <= x
        BY <3>1, <4>1, <1>1, ScaledIs
      <4> QED
        BY <4>2, <4>3
    <3>3. CASE told.mult = say.mult /\ told.verdict \in {"REDUCE", "STAND_DOWN"}
      <4>1. told.verdict = "REDUCE"
        BY <3>3, <1>4 DEF Stood
      <4>2. Scaled(c, told.mult) \in Allowed(c, w, told)
        BY <4>1 DEF Allowed
      <4> QED
        BY <2>3, <3>1, <3>3, <4>2
    <3> QED
      BY <3>2, <3>3 DEF Careful
  <2> QED
    BY <2>2, <2>3
<1> QED
  BY <1>1, <1>3, <1>4, VerdictLess

LEMMA DangerFromInv == ContextTyped => DangerNeverEnlarges
<1> SUFFICES ASSUME ContextTyped, NEW c \in AllSleeves
             PROVE  LET n == Verdict(c, killSwitches[c], world[c], gatesSay[c]).contracts
                    IN /\ n <= DefaultContracts[c]
                       /\ Verdict(c, TRUE, world[c], gatesSay[c]).contracts = 0
                       /\ \A w \in Worse(world[c]) :
                            Verdict(c, killSwitches[c], w, gatesSay[c]).contracts <= n
                       /\ \A say \in Careful(gatesSay[c]) :
                            Verdict(c, killSwitches[c], world[c], say).contracts <= n
  BY DEF DangerNeverEnlarges
<1>1. PICK stopped : stopped = killSwitches[c]
  OBVIOUS
<1>2. PICK w : w = world[c]
  OBVIOUS
<1>3. PICK say : say = gatesSay[c]
  OBVIOUS
<1>4. /\ stopped \in BOOLEAN /\ w \in WorldRecords
      /\ say \in [verdict : {"TRADE", "REDUCE", "STAND_DOWN"}, mult : Nat]
  BY <1>1, <1>2, <1>3 DEF ContextTyped, GateRecords, AllSleeves
<1>5. say.mult \in Nat
  BY <1>4
<1>6. Verdict(c, stopped, w, say).contracts <= DefaultContracts[c]
  <2>1. CASE Stood(c, stopped, w, say)
    <3>1. Verdict(c, stopped, w, say) = [verdict |-> "STAND_DOWN", contracts |-> 0]
      BY <1>4, <1>5, <2>1, VerdictIs
    <3> QED
      BY <3>1, DefaultContractsAssumption DEF AllSleeves
  <2>2. CASE ~Stood(c, stopped, w, say)
    <3>1. DefaultContracts[c] \in Allowed(c, w, say)
      BY <1>5, AllowedIs
    <3> QED
      BY <1>4, <1>5, <2>2, <3>1, VerdictIs
  <2> QED
    BY <2>1, <2>2
<1>7. Verdict(c, TRUE, w, say).contracts = 0
  <2>1. PICK yes \in BOOLEAN : yes = TRUE
    OBVIOUS
  <2>2. Stood(c, yes, w, say)
    BY <2>1 DEF Stood
  <2>3. Verdict(c, yes, w, say) = [verdict |-> "STAND_DOWN", contracts |-> 0]
    BY <1>5, <2>2, VerdictIs
  <2>4. Verdict(c, yes, w, say).contracts = 0
    BY <2>3
  <2> QED
    BY <2>1, <2>4, Zenon
<1>8. \A v \in Worse(w) : Verdict(c, stopped, v, say).contracts <= Verdict(c, stopped, w, say).contracts
  BY <1>4, <1>5, WorseEnlargesNothing
<1>9. \A told \in Careful(say) :
        Verdict(c, stopped, w, told).contracts <= Verdict(c, stopped, w, say).contracts
  BY <1>4, CarefulEnlargesNothing
<1> QED
  BY <1>1, <1>2, <1>3, <1>6, <1>7, <1>8, <1>9

-----------------------------------------------------------------------------
LEMMA SaysTyped ==
  ASSUME ContextTyped, NEW c \in AllSleeves
  PROVE  /\ SaysNow(c) \in VerdictRecords
         /\ SaysNow(c).verdict = "REDUCE" => SaysNow(c).contracts >= 1
<1>1. PICK stopped : stopped = killSwitches[c]
  OBVIOUS
<1>2. PICK w : w = world[c]
  OBVIOUS
<1>3. PICK say : say = gatesSay[c]
  OBVIOUS
<1>4. stopped \in BOOLEAN /\ say.mult \in Nat
  BY <1>1, <1>3 DEF ContextTyped, GateRecords, AllSleeves
<1>5. Verdict(c, stopped, w, say) \in VerdictRecords
  BY <1>4, VerdictIs
<1>6. Verdict(c, stopped, w, say).verdict = "REDUCE" => Verdict(c, stopped, w, say).contracts >= 1
  <2>1. CASE Stood(c, stopped, w, say)
    <3>1. Verdict(c, stopped, w, say) = [verdict |-> "STAND_DOWN", contracts |-> 0]
      BY <1>4, <2>1, VerdictIs
    <3> QED
      BY <3>1
  <2>2. CASE ~Stood(c, stopped, w, say)
    <3>1. Verdict(c, stopped, w, say).contracts \in Allowed(c, w, say)
      BY <1>4, <2>2, VerdictIs
    <3> QED
      BY <1>4, <3>1, AllowedIs
  <2> QED
    BY <2>1, <2>2
<1> QED
  BY <1>1, <1>2, <1>3, <1>5, <1>6 DEF SaysNow

LEMMA SettlesIs ==
  ASSUME ContextTyped, NEW c \in AllSleeves, Settles(c)
  PROVE  Proposal([code |-> c, stopped |-> killSwitches[c], bound |-> bound[c],
                   said |-> Verdict(c, killSwitches[c], world[c], gatesSay[c])]) \notin {"halt", "reduce"}
<1> DEFINE r == [code |-> c, stopped |-> killSwitches[c], bound |-> bound[c], said |-> SaysNow(c)]
<1>4. bound[c] \in Int /\ SaysNow(c).contracts \in Nat
  <2>1. SaysNow(c) \in VerdictRecords
    BY SaysTyped
  <2> QED
    BY <2>1 DEF VerdictRecords, ContextTyped
<1>1. /\ r.said = SaysNow(c) /\ r.stopped = killSwitches[c] /\ r.bound = bound[c]
  OBVIOUS
<1>2. /\ ~(r.said.verdict = "STAND_DOWN" /\ ~r.stopped)
      /\ ~(r.said.verdict = "REDUCE" /\ r.bound > r.said.contracts)
  BY <1>1, <1>4 DEF Settles, Obeys
<1> HIDE DEF r
<1>3. Proposal(r) \notin {"halt", "reduce"}
  BY <1>2 DEF Proposal
<1> QED
  BY <1>3 DEF r, SaysNow

-----------------------------------------------------------------------------
\* What is said of a sleeve is of what stands.
LEMMA AtRest ==
  ASSUME UNCHANGED <<world, gatesSay, bound, killSwitches>>, NEW c
  PROVE  SaysNow(c)' = SaysNow(c) /\ (Settles(c) => Settles(c)')
BY DEF SaysNow, Settles

LEMMA AtRestHere ==
  ASSUME NEW c, world'[c] = world[c], gatesSay'[c] = gatesSay[c], bound'[c] = bound[c],
         killSwitches'[c] = killSwitches[c]
  PROVE  SaysNow(c)' = SaysNow(c) /\ (Settles(c) => Settles(c)')
BY DEF SaysNow, Settles

LEMMA NoCallIsNone == NoCall \notin CallRecords
<1>1. \A r \in CallRecords : r.purpose # "none"
  BY DEF CallRecords
<1> QED
  BY <1>1 DEF NoCall

LEMMA ContextBegins == LabInit => ContextInv
<1> SUFFICES ASSUME LabInit PROVE ContextInv
  OBVIOUS
<1>1. call = NoCall /\ settled = {}
  BY DEF LabInit, ContextInit
<1>2. gatesSay \in GateRecords
  <2>1. Quiet \in [verdict : {"TRADE", "REDUCE", "STAND_DOWN"}, mult : Nat]
    BY DEF Quiet
  <2>2. [c \in AllSleeves |-> Quiet] \in GateRecords
    BY <2>1 DEF GateRecords, AllSleeves
  <2> QED
    BY <2>2, ReadingsAssumption DEF LabInit, ContextInit
<1>3. world \in [AllSleeves -> WorldRecords]
  <2>1. WorldOf(0, "none", "ok", "none", FALSE) \in WorldRecords
    BY DEF WorldOf, WorldRecords
  <2>2. [c \in AllSleeves |-> WorldOf(0, "none", "ok", "none", FALSE)] \in [AllSleeves -> WorldRecords]
    BY <2>1
  <2> QED
    BY <2>2, ReadingsAssumption DEF LabInit, ContextInit
<1>4. bound \in [AllSleeves -> Int] /\ killSwitches \in [AllSleeves -> BOOLEAN]
  <2>1. bound \in [AllSleeves -> Sizes] \/ bound = DefaultContracts
    BY DEF LabInit, ContextInit
  <2>2. killSwitches = [c \in AllSleeves |-> FALSE]
    BY DEF LabInit, ContextInit
  <2>3. Sizes \subseteq Int /\ DefaultContracts \in [AllSleeves -> Int]
    BY ReadingsAssumption, DefaultContractsAssumption DEF AllSleeves
  <2> QED
    BY <2>1, <2>2, <2>3
<1> QED
  BY <1>1, <1>2, <1>3, <1>4 DEF ContextInv, ContextTyped, CallCurrent

LEMMA StartCallKeeps ==
  ASSUME ContextInv, NEW purpose \in {"brief", "apply"}, NEW codes \in Seq(AllSleeves), StartCall(purpose, codes)
  PROVE  ContextInv'
<1>1. PICK heard \in {gatesSay, [c \in AllSleeves |-> Quiet]} :
        call' = [purpose |-> purpose, todo |-> codes, heard |-> heard, read |-> <<>>, done |-> {},
                 calm |-> {c \in AllSleeves : heard[c] = gatesSay[c]}]
  BY DEF StartCall
<1>2. heard \in GateRecords
  <2>1. Quiet \in [verdict : {"TRADE", "REDUCE", "STAND_DOWN"}, mult : Nat]
    BY DEF Quiet
  <2>2. [c \in AllSleeves |-> Quiet] \in GateRecords
    BY <2>1 DEF GateRecords, AllSleeves
  <2> QED
    BY <2>2 DEF ContextInv, ContextTyped
<1>3. PICK calm \in SUBSET AllSleeves : calm = {c \in AllSleeves : heard[c] = gatesSay[c]}
  OBVIOUS
<1>4. call' = [purpose |-> purpose, todo |-> codes, heard |-> heard, read |-> <<>>, done |-> {}, calm |-> calm]
  BY <1>1, <1>3
<1>5. <<>> \in Seq(Readings) /\ Len(<<>>) = 0
  OBVIOUS
<1>6. call' \in CallRecords
  BY <1>2, <1>4, <1>5 DEF CallRecords
<1>7. settled' = {} /\ UNCHANGED <<world, gatesSay, bound, killSwitches>>
  BY DEF StartCall
<1>8. ContextTyped'
  BY <1>6, <1>7 DEF ContextInv, ContextTyped
<1>9. CallCurrent'
  <2>1. call'.heard = heard /\ call'.calm = calm /\ call'.read = <<>> /\ call'.done = {}
    BY <1>4
  <2>2. \A c \in call'.calm : call'.heard[c] = gatesSay'[c]
    BY <2>1, <1>3, <1>7
  <2>3. \A i \in 1 .. Len(call'.read) : FALSE
    BY <2>1, <1>5
  <2> QED
    BY <2>1, <2>2, <2>3, <1>7 DEF CallCurrent
<1> QED
  BY <1>7, <1>8, <1>9 DEF ContextInv

LEMMA ReadSleeveKeeps ==
  ASSUME ContextInv, ReadSleeve
  PROVE  ContextInv'
<1>1. call \in CallRecords /\ call # NoCall /\ call.todo # <<>>
  BY DEF ReadSleeve, ContextInv, ContextTyped
<1> DEFINE c == Head(call.todo)
           r == [code |-> c, stopped |-> killSwitches[c], bound |-> bound[c],
                 xray |-> PositionXray(world[c]),
                 said |-> Verdict(c, killSwitches[c], world[c], call.heard[c])]
<1>2. call' = [call EXCEPT !.todo = Tail(@), !.read = Append(@, r)]
  BY DEF ReadSleeve
<1>3. call.todo \in Seq(AllSleeves) /\ call.read \in Seq(Readings) /\ call.heard \in GateRecords
  BY <1>1 DEF CallRecords
<1>4. c \in AllSleeves /\ Tail(call.todo) \in Seq(AllSleeves)
  BY <1>1, <1>3
<1>5. r \in Readings
  <2>1. killSwitches[c] \in BOOLEAN /\ bound[c] \in Int /\ world[c] \in WorldRecords
        /\ call.heard[c].mult \in Nat
    BY <1>3, <1>4 DEF ContextInv, ContextTyped, GateRecords, AllSleeves
  <2>2. PICK stopped \in BOOLEAN : stopped = killSwitches[c]
    BY <2>1
  <2>3. PICK w \in WorldRecords : w = world[c]
    BY <2>1
  <2>4. PICK say : say = call.heard[c]
    OBVIOUS
  <2>5. Verdict(c, stopped, w, say) \in VerdictRecords
    BY <1>4, <2>1, <2>4, VerdictIs
  <2>6. PICK x \in {PositionXray(v) : v \in WorldRecords} : x = PositionXray(w)
    OBVIOUS
  <2>7. PICK said \in VerdictRecords : said = Verdict(c, stopped, w, say)
    BY <2>5
  <2>8. r = [code |-> c, stopped |-> stopped, bound |-> bound[c], xray |-> x, said |-> said]
    BY <2>2, <2>3, <2>4, <2>6, <2>7
  <2> HIDE DEF c, r
  <2> QED
    BY <1>4, <2>1, <2>8 DEF Readings
<1> HIDE DEF c, r
<1>6. call' \in CallRecords
  <2>1. Append(call.read, r) \in Seq(Readings)
    BY <1>3, <1>5
  <2> QED
    BY <1>1, <1>2, <1>4, <2>1 DEF CallRecords
<1>7. UNCHANGED <<world, gatesSay, bound, killSwitches, settled>>
  BY DEF ReadSleeve
<1>8. ContextTyped'
  BY <1>6, <1>7 DEF ContextInv, ContextTyped
<1>9. CallCurrent'
  <2>1. settled = {}
    BY <1>1 DEF ContextInv, CallCurrent
  <2>2. /\ call'.heard = call.heard /\ call'.calm = call.calm /\ call'.done = call.done
        /\ call'.read = Append(call.read, r)
    BY <1>1, <1>2 DEF CallRecords
  <2>3. /\ \A d \in call.calm : call.heard[d] = gatesSay[d]
        /\ \A i \in 1 .. Len(Append(call.read, r)) :
             Append(call.read, r)[i].code \in call.calm
               => Append(call.read, r)[i].said = SaysNow(Append(call.read, r)[i].code)
        /\ \A d \in call.done \cap call.calm : Settles(d)
    <3>1. /\ \A d \in call.calm : call.heard[d] = gatesSay[d]
          /\ \A d \in call.done \cap call.calm : Settles(d)
          /\ \A i \in 1 .. Len(call.read) :
               call.read[i].code \in call.calm => call.read[i].said = SaysNow(call.read[i].code)
      BY <1>1 DEF ContextInv, CallCurrent
    <3>2. r.code \in call.calm => r.said = SaysNow(r.code)
      BY <3>1 DEF r, SaysNow
    <3>3. /\ Len(Append(call.read, r)) = Len(call.read) + 1
          /\ \A i \in 1 .. Len(call.read) : Append(call.read, r)[i] = call.read[i]
          /\ Append(call.read, r)[Len(call.read) + 1] = r
          /\ Len(call.read) \in Nat
      BY <1>3
    <3> QED
      BY <3>1, <3>2, <3>3
  <2>4. \A d : SaysNow(d)' = SaysNow(d) /\ (Settles(d) => Settles(d)')
    BY <1>7, AtRest
  <2> QED
    BY <1>7, <2>1, <2>2, <2>3, <2>4 DEF CallCurrent
<1> QED
  BY <1>7, <1>8, <1>9, <1>1 DEF ContextInv, CallCurrent

\* A call that ends leaves what was settled, or what it has settled.
LEMMA EndKeeps ==
  ASSUME ContextInv, GenerateBrief \/ FinishApply \/ CallFails
  PROVE  ContextInv'
<1>1. call \in CallRecords /\ call # NoCall
  <2>1. call # NoCall
    BY DEF GenerateBrief, FinishApply, CallFails, NoCall
  <2> QED
    BY <2>1 DEF ContextInv, ContextTyped
<1>2. call' = NoCall /\ UNCHANGED <<world, gatesSay, bound, killSwitches>>
  BY DEF GenerateBrief, FinishApply, CallFails
<1>3. settled = {} /\ (settled' = settled \/ settled' = call.done \cap call.calm)
  BY <1>1 DEF GenerateBrief, FinishApply, CallFails, ContextInv, CallCurrent
<1>4. settled' \subseteq AllSleeves
  BY <1>1, <1>3 DEF CallRecords
<1>5. \A c \in settled' : Settles(c)'
  <2>1. \A c \in settled' : Settles(c)
    BY <1>1, <1>3 DEF ContextInv, CallCurrent
  <2> QED
    BY <2>1, <1>2, AtRest
<1> QED
  BY <1>2, <1>4, <1>5 DEF ContextInv, ContextTyped, CallCurrent

\* Applying a verdict of now leaves it the verdict, and nothing of it to be done.
LEMMA ApplyOneSettles ==
  ASSUME ContextTyped, ContextTyped', NEW r \in Readings, r.said = SaysNow(r.code),
         world' = world, gatesSay' = gatesSay,
         killSwitches' = [killSwitches EXCEPT ![r.code] = @ \/ r.said.verdict = "STAND_DOWN"],
         bound' = [bound EXCEPT ![r.code] = IF r.said.verdict = "REDUCE" THEN Reduced(r) ELSE @]
  PROVE  /\ \A c \in AllSleeves : SaysNow(c)' = SaysNow(c)
         /\ \A c \in AllSleeves : Settles(c) => Settles(c)'
         /\ Settles(r.code)'
<1>1. PICK code \in AllSleeves : code = r.code
  BY DEF Readings
<1>2. PICK w : w = world[code]
  OBVIOUS
<1>3. PICK say : say = gatesSay[code]
  OBVIOUS
<1>4. PICK stopped \in BOOLEAN : stopped = killSwitches[code]
  BY DEF ContextTyped
<1>5. PICK said \in VerdictRecords : said = Verdict(code, stopped, w, say)
  BY <1>2, <1>3, <1>4, SaysTyped DEF SaysNow
<1>6. r.said = said
  BY <1>1, <1>2, <1>3, <1>4, <1>5 DEF SaysNow
<1>7. say.mult \in Nat
  BY <1>3 DEF ContextTyped, GateRecords, AllSleeves
<1>8. PICK later \in BOOLEAN : later = (stopped \/ said.verdict = "STAND_DOWN")
  OBVIOUS
<1>9. killSwitches'[code] = later
  BY <1>1, <1>4, <1>6, <1>8 DEF ContextTyped
<1>10. Verdict(code, later, w, say) = said
  <2>1. CASE said.verdict = "STAND_DOWN"
    <3>1. Stood(code, stopped, w, say)
      BY <1>5, <1>7, <2>1, VerdictIs
    <3>2. later = TRUE
      BY <1>8, <2>1
    <3>3. Stood(code, later, w, say)
      BY <3>2 DEF Stood
    <3> QED
      BY <1>5, <1>7, <3>1, <3>3, VerdictIs
  <2>2. CASE said.verdict # "STAND_DOWN"
    BY <1>5, <1>8, <2>2
  <2> QED
    BY <2>1, <2>2
<1>11. SaysNow(code)' = said /\ SaysNow(code) = said
  BY <1>2, <1>3, <1>4, <1>5, <1>9, <1>10 DEF SaysNow
<1>12. \A c \in AllSleeves : c # code => killSwitches'[c] = killSwitches[c] /\ bound'[c] = bound[c]
  BY <1>1 DEF ContextTyped
<1>13. \A c \in AllSleeves : SaysNow(c)' = SaysNow(c)
  BY <1>11, <1>12 DEF SaysNow
<1>14. Settles(code)'
  <2>1. said.verdict = "STAND_DOWN" => killSwitches'[code]
    BY <1>8, <1>9
  <2>2. said.verdict = "REDUCE" => bound'[code] <= said.contracts
    <3> SUFFICES ASSUME said.verdict = "REDUCE" PROVE bound'[code] <= said.contracts
      OBVIOUS
    <3>1. bound'[code] = Max({1, Min({said.contracts, DefaultContracts[code]})})
      BY <1>1, <1>6 DEF ContextTyped, Reduced
    <3>2. said.contracts \in Nat /\ said.contracts >= 1
      BY <1>11, SaysTyped DEF VerdictRecords
    <3>3. DefaultContracts[code] \in Nat \ {0}
      BY DefaultContractsAssumption DEF AllSleeves
    <3> DEFINE least == Min({said.contracts, DefaultContracts[code]})
    <3>4. {said.contracts, DefaultContracts[code]} \in SUBSET Nat
      BY <3>2, <3>3
    <3>5. least \in Nat /\ least <= said.contracts
      BY <3>4, MinIn
    <3> HIDE DEF least
    <3>6. Max({1, least}) = IF least > 1 THEN least ELSE 1
      <4>1. CASE least > 1
        BY <3>5, <4>1, GreatestIs
      <4>2. CASE ~(least > 1)
        BY <3>5, <4>2, GreatestIs
      <4> QED
        BY <4>1, <4>2
    <3>7. Max({1, least}) <= said.contracts
      BY <3>2, <3>5, <3>6
    <3> QED
      BY <3>1, <3>7 DEF least
  <2> QED
    BY <1>11, <2>1, <2>2 DEF Settles, Obeys
<1>15. \A c \in AllSleeves : c # code /\ Settles(c) => Settles(c)'
  BY <1>12, <1>13 DEF Settles
<1> QED
  BY <1>1, <1>13, <1>14, <1>15

\* What is said of the other sleeves, and whether they have anything to do, it leaves alone.
LEMMA ApplyOneElsewhere ==
  ASSUME ContextTyped, NEW r \in Readings,
         world' = world, gatesSay' = gatesSay,
         killSwitches' = [killSwitches EXCEPT ![r.code] = @ \/ r.said.verdict = "STAND_DOWN"],
         bound' = [bound EXCEPT ![r.code] = IF r.said.verdict = "REDUCE" THEN Reduced(r) ELSE @],
         NEW c \in AllSleeves, c # r.code
  PROVE  SaysNow(c)' = SaysNow(c) /\ (Settles(c) => Settles(c)')
<1>1. killSwitches'[c] = killSwitches[c] /\ bound'[c] = bound[c]
  BY DEF ContextTyped
<1> QED
  BY <1>1, AtRestHere

LEMMA ApplyOneKeeps ==
  ASSUME ContextInv, ApplyOne
  PROVE  ContextInv'
<1>1. call \in CallRecords /\ call # NoCall /\ call.read # <<>>
  <2>1. call # NoCall
    BY DEF ApplyOne, NoCall
  <2> QED
    BY <2>1 DEF ApplyOne, ContextInv, ContextTyped
<1>2. call.read \in Seq(Readings) /\ call.done \subseteq AllSleeves
  BY <1>1 DEF CallRecords
<1>3. PICK r \in Readings : r = Head(call.read)
  BY <1>1, <1>2
<1>4. /\ killSwitches' = [killSwitches EXCEPT ![r.code] = @ \/ r.said.verdict = "STAND_DOWN"]
      /\ bound' = [bound EXCEPT ![r.code] = IF r.said.verdict = "REDUCE" THEN Reduced(r) ELSE @]
      /\ call' = [call EXCEPT !.read = Tail(@), !.done = @ \cup {r.code}]
  BY <1>3 DEF ApplyOne
<1>5. UNCHANGED <<world, gatesSay, settled>>
  BY DEF ApplyOne
<1>6. r.code \in AllSleeves /\ r.said \in VerdictRecords
  BY DEF Readings
<1>7. Reduced(r) \in Int
  <2>1. r.said.contracts \in Nat /\ DefaultContracts[r.code] \in Nat
    BY <1>6, DefaultContractsAssumption DEF VerdictRecords, AllSleeves
  <2> DEFINE least == Min({r.said.contracts, DefaultContracts[r.code]})
  <2>2. least \in Nat
    BY <2>1, MinIn
  <2> HIDE DEF least
  <2>3. Max({1, least}) = IF least > 1 THEN least ELSE 1
    <3>1. CASE least > 1
      BY <2>2, <3>1, GreatestIs
    <3>2. CASE ~(least > 1)
      BY <2>2, <3>2, GreatestIs
    <3> QED
      BY <3>1, <3>2
  <2>4. Max({1, least}) \in Int
    BY <2>2, <2>3
  <2> QED
    BY <2>4 DEF Reduced, least
<1>8. call' \in CallRecords
  <2>1. Tail(call.read) \in Seq(Readings) /\ call.done \cup {r.code} \in SUBSET AllSleeves
    BY <1>1, <1>2, <1>6
  <2> QED
    BY <1>1, <1>4, <2>1 DEF CallRecords
<1>9. killSwitches' \in [AllSleeves -> BOOLEAN] /\ bound' \in [AllSleeves -> Int]
  BY <1>4, <1>7 DEF ContextInv, ContextTyped
<1>10. ContextTyped'
  BY <1>5, <1>8, <1>9 DEF ContextInv, ContextTyped
<1>11. settled = {}
  BY <1>1 DEF ContextInv, CallCurrent
<1>12. CallCurrent'
  <2>1. /\ call'.calm = call.calm /\ call'.heard = call.heard
        /\ call'.read = Tail(call.read) /\ call'.done = call.done \cup {r.code}
    BY <1>1, <1>4 DEF CallRecords
  <2>2. /\ \A c \in call.calm : call.heard[c] = gatesSay[c]
        /\ \A c \in call.done \cap call.calm : Settles(c)
        /\ \A i \in 1 .. Len(call.read) :
             call.read[i].code \in call.calm => call.read[i].said = SaysNow(call.read[i].code)
        /\ call.calm \subseteq AllSleeves
    BY <1>1 DEF ContextInv, CallCurrent, CallRecords
  <2>3. r.code \in call.calm => r.said = SaysNow(r.code)
    BY <1>1, <1>2, <1>3, <2>2
  <2>4. ASSUME NEW c \in call.calm
        PROVE  SaysNow(c)' = SaysNow(c) /\ (c = r.code \/ Settles(c) => Settles(c)')
    <3>1. CASE r.code = c
      BY <1>4, <1>5, <1>10, <2>2, <2>3, <3>1, ApplyOneSettles DEF ContextInv
    <3>2. CASE r.code # c
      BY <1>4, <1>5, <2>2, <3>2, ApplyOneElsewhere DEF ContextInv
    <3> QED
      BY <3>1, <3>2
  <2>5. ASSUME NEW i \in 1 .. Len(call'.read), call'.read[i].code \in call.calm
        PROVE  (call.read[i].said = SaysNow(call.read[i].code))'
    <3>1. call'.read[i] = call.read[i + 1] /\ i + 1 \in 1 .. Len(call.read)
      BY <1>1, <1>2, <2>1
    <3>2. PICK code \in call.calm : code = call.read[i + 1].code
      BY <2>5, <3>1
    <3>3. call.read[i + 1].said = SaysNow(code)
      BY <2>2, <3>1, <3>2
    <3>4. SaysNow(code)' = SaysNow(code)
      BY <2>4
    <3> QED
      BY <3>1, <3>2, <3>3, <3>4 DEF SaysNow
  <2>6. \A c \in call'.done \cap call.calm : Settles(c)'
    BY <2>1, <2>2, <2>4
  <2>7. /\ \A c \in call'.calm : call'.heard[c] = gatesSay'[c]
        /\ \A i \in 1 .. Len(call'.read) :
             call'.read[i].code \in call'.calm => (call.read[i].said = SaysNow(call.read[i].code))'
        /\ \A c \in call'.done \cap call'.calm : Settles(c)'
    BY <1>5, <2>1, <2>2, <2>5, <2>6
  <2> QED
    BY <1>5, <1>11, <2>7 DEF CallCurrent
<1> QED
  BY <1>5, <1>10, <1>11, <1>12 DEF ContextInv

\* What moves around a call moves the sleeves it is about, and the call is no longer calm in them.
MovesOnly(codes) ==
  \A c \in AllSleeves \ codes :
    world'[c] = world[c] /\ gatesSay'[c] = gatesSay[c] /\ bound'[c] = bound[c]
    /\ killSwitches'[c] = killSwitches[c]

LEMMA MovedKeeps ==
  ASSUME ContextInv, NEW codes, Moved(codes), MovesOnly(codes),
         world' \in [AllSleeves -> WorldRecords], gatesSay' \in GateRecords,
         bound' \in [AllSleeves -> Int], killSwitches' \in [AllSleeves -> BOOLEAN]
  PROVE  ContextInv'
<1>1. /\ settled' = settled \ codes
      /\ call' = IF call = NoCall THEN call ELSE [call EXCEPT !.calm = @ \ codes]
  BY DEF Moved
<1>2. \A c \in AllSleeves \ codes :
        SaysNow(c)' = SaysNow(c) /\ gatesSay'[c] = gatesSay[c] /\ (Settles(c) => Settles(c)')
  BY AtRestHere DEF MovesOnly
<1>3. settled' \subseteq AllSleeves /\ \A c \in settled' : Settles(c)'
  BY <1>1, <1>2 DEF ContextInv, ContextTyped
<1>4. CASE call = NoCall
  BY <1>1, <1>3, <1>4 DEF ContextInv, ContextTyped, CallCurrent
<1>5. CASE call # NoCall
  <2>1. call \in CallRecords
    BY <1>5 DEF ContextInv, ContextTyped
  <2>2. /\ call' \in CallRecords /\ call'.calm = call.calm \ codes /\ call'.calm \subseteq AllSleeves \ codes
        /\ call'.heard = call.heard /\ call'.read = call.read /\ call'.done = call.done
    BY <1>1, <1>5, <2>1 DEF CallRecords
  <2>3. /\ settled = {} /\ \A c \in call.calm : call.heard[c] = gatesSay[c]
        /\ \A c \in call.done \cap call.calm : Settles(c)
        /\ \A i \in 1 .. Len(call.read) :
             call.read[i].code \in call.calm => call.read[i].said = SaysNow(call.read[i].code)
    BY <1>5 DEF ContextInv, CallCurrent
  <2>4. \A c \in call'.calm : call'.heard[c] = gatesSay'[c]
    BY <1>2, <2>2, <2>3
  <2>5. \A c \in call'.done \cap call'.calm : Settles(c)'
    BY <1>2, <2>2, <2>3
  <2>6. ASSUME NEW i \in 1 .. Len(call'.read), call'.read[i].code \in call'.calm
        PROVE  (call.read[i].said = SaysNow(call.read[i].code))'
    <3>1. PICK code \in call'.calm : code = call.read[i].code
      BY <2>2, <2>6
    <3>2. call.read[i].said = SaysNow(code)
      BY <2>2, <2>3, <3>1
    <3>3. SaysNow(code)' = SaysNow(code)
      BY <1>2, <2>2
    <3> QED
      BY <2>2, <3>1, <3>2, <3>3 DEF SaysNow
  <2>7. \A i \in 1 .. Len(call'.read) :
          call'.read[i].code \in call'.calm => (call.read[i].said = SaysNow(call.read[i].code))'
    BY <2>6
  <2>8. CallCurrent'
    BY <1>1, <2>3, <2>4, <2>5, <2>7 DEF CallCurrent
  <2> QED
    BY <1>3, <2>2, <2>8 DEF ContextInv, ContextTyped
<1> QED
  BY <1>4, <1>5

LEMMA ContextStep == ContextInv /\ [ContextNext]_contextVars => ContextInv'
<1> SUFFICES ASSUME ContextInv, [ContextNext]_contextVars PROVE ContextInv'
  OBVIOUS
<1>1. ASSUME NEW purpose \in {"brief", "apply"},
             StartCall(purpose, SleeveCodes) \/ \E c \in AllSleeves : StartCall(purpose, <<c>>)
      PROVE  ContextInv'
  <2>1. SleeveCodes \in Seq(AllSleeves)
    BY ReadingsAssumption DEF AllSleeves
  <2>2. \A c \in AllSleeves : <<c>> \in Seq(AllSleeves)
    OBVIOUS
  <2> QED
    BY <1>1, <2>1, <2>2, StartCallKeeps
<1>2. CASE ReadSleeve
  BY <1>2, ReadSleeveKeeps
<1>3. CASE GenerateBrief \/ FinishApply \/ CallFails
  BY <1>3, EndKeeps
<1>4. CASE ApplyOne
  BY <1>4, ApplyOneKeeps
<1>5. ASSUME NEW c \in AllSleeves, OperatorMoves(c)
      PROVE  ContextInv'
  <2>1. Moved({c}) /\ UNCHANGED <<world, gatesSay>>
    BY <1>5 DEF OperatorMoves
  <2>2. bound' \in [AllSleeves -> Int] /\ killSwitches' \in [AllSleeves -> BOOLEAN]
    BY <1>5, ReadingsAssumption DEF OperatorMoves, ContextInv, ContextTyped
  <2>3. MovesOnly({c})
    BY <1>5, <2>1 DEF OperatorMoves, MovesOnly, ContextInv, ContextTyped
  <2> QED
    BY <2>1, <2>2, <2>3, MovedKeeps DEF ContextInv, ContextTyped
<1>6. ASSUME NEW c \in AllSleeves, NEW w \in Worlds, EngineMoves(c, w)
      PROVE  ContextInv'
  <2>1. w \in WorldRecords
    BY ReadingsAssumption
  <2>2. Moved({c}) /\ world' = [world EXCEPT ![c] = w] /\ UNCHANGED <<gatesSay, bound, killSwitches>>
    BY <1>6 DEF EngineMoves
  <2>3. world' \in [AllSleeves -> WorldRecords]
    BY <2>1, <2>2 DEF ContextInv, ContextTyped
  <2>4. MovesOnly({c})
    BY <2>2 DEF MovesOnly, ContextInv, ContextTyped
  <2> QED
    BY <2>2, <2>3, <2>4, MovedKeeps DEF ContextInv, ContextTyped
<1>7. ASSUME NEW say \in GateSets, GatesMove(say)
      PROVE  ContextInv'
  <2> DEFINE codes == {c \in AllSleeves : say[c] # gatesSay[c]}
  <2>1. Moved(codes) /\ gatesSay' = say /\ UNCHANGED <<world, bound, killSwitches>>
    BY <1>7 DEF GatesMove
  <2>2. say \in GateRecords
    BY ReadingsAssumption
  <2>3. MovesOnly(codes)
    BY <2>1 DEF MovesOnly
  <2> HIDE DEF codes
  <2> QED
    BY <2>1, <2>2, <2>3, MovedKeeps DEF ContextInv, ContextTyped
<1>8. CASE UNCHANGED contextVars
  BY <1>8 DEF contextVars, ContextInv, ContextTyped, CallCurrent, Settles, SaysNow
<1> QED
  BY <1>1, <1>2, <1>3, <1>4, <1>5, <1>6, <1>7, <1>8 DEF ContextNext

LEMMA RestrainsFromInv == ContextInv => SupervisorRestrains
<1> SUFFICES ASSUME ContextInv PROVE AppliedSettles
  BY DangerFromInv DEF ContextInv, SupervisorRestrains
<1>1. \A c \in settled : c \in AllSleeves /\ Settles(c)
  BY DEF ContextInv, ContextTyped
<1> QED
  BY <1>1, SettlesIs DEF AppliedSettles, ContextInv

\* No verdict is for more than the validated contracts, and no binding for more than ten.
SaidCut(said) == \A c \in DOMAIN said : said[c].contracts \in 0 .. DefaultContracts[c]
ReadCut(r) == r.said.contracts <= DefaultContracts[r.code]

ContextCut ==
  /\ world \in [AllSleeves -> Worlds] /\ gatesSay \in GateSets /\ bound \in [AllSleeves -> 1 .. 10]
  /\ call # NoCall => \A i \in 1 .. Len(call.read) : ReadCut(call.read[i])
  /\ SaidCut(brief.said)

LEMMA ContextTypesFromInv ==
  ASSUME ContextInv, ContextCut
  PROVE  ContextTypeOK
<1>1. call.purpose \in {"none", "brief", "apply"}
  <2>1. CASE call = NoCall
    BY <2>1 DEF NoCall
  <2>2. CASE call \in CallRecords
    BY <2>2 DEF CallRecords
  <2> QED
    BY <2>1, <2>2 DEF ContextInv, ContextTyped
<1> QED
  BY <1>1 DEF ContextTypeOK, ContextInv, ContextTyped, ContextCut, SaidCut

LEMMA CutIs ==
  ASSUME NEW n \in Int, NEW d \in 1 .. 10
  PROVE  Max({0, Min({n, d})}) \in 0 .. d /\ (n >= 0 => Max({1, Min({n, d})}) \in 1 .. 10)
<1>1. Min({n, d}) = IF n < d THEN n ELSE d
  <2>1. CASE n < d
    <3>1. \A x \in {n, d} : n <= x
      BY <2>1
    <3> QED
      BY <2>1, <3>1, LeastIs
  <2>2. CASE ~(n < d)
    <3>1. \A x \in {n, d} : d <= x
      BY <2>2
    <3> QED
      BY <2>2, <3>1, LeastIs
  <2> QED
    BY <2>1, <2>2
<1>2. PICK m \in Int : m = Min({n, d}) /\ m <= d
  BY <1>1
<1>3. ASSUME NEW k \in 0 .. 1 PROVE Max({k, m}) = IF m > k THEN m ELSE k
  <2>1. CASE m > k
    <3>1. \A x \in {k, m} : x <= m
      BY <2>1
    <3> QED
      BY <2>1, <3>1, GreatestIs
  <2>2. CASE ~(m > k)
    <3>1. \A x \in {k, m} : x <= k
      BY <2>2
    <3> QED
      BY <2>2, <3>1, GreatestIs
  <2> QED
    BY <2>1, <2>2
<1>4. Max({0, m}) = (IF m > 0 THEN m ELSE 0) /\ Max({1, m}) = (IF m > 1 THEN m ELSE 1)
  BY <1>3
<1> QED
  BY <1>2, <1>4

LEMMA VerdictCut ==
  ASSUME NEW c \in AllSleeves, NEW stopped \in BOOLEAN, NEW w, NEW say, say.mult \in Nat
  PROVE  Verdict(c, stopped, w, say).contracts <= DefaultContracts[c]
<1>1. CASE Stood(c, stopped, w, say)
  <2>1. Verdict(c, stopped, w, say) = [verdict |-> "STAND_DOWN", contracts |-> 0]
    BY <1>1, VerdictIs
  <2> QED
    BY <2>1, DefaultContractsAssumption DEF AllSleeves
<1>2. CASE ~Stood(c, stopped, w, say)
  <2>1. DefaultContracts[c] \in Allowed(c, w, say)
    BY AllowedIs
  <2> QED
    BY <1>2, <2>1, VerdictIs
<1> QED
  BY <1>1, <1>2

LEMMA SaidIsCut ==
  ASSUME NEW read \in Seq(Readings), \A i \in 1 .. Len(read) : ReadCut(read[i])
  PROVE  SaidCut(Said(read))
<1>1. ASSUME NEW c \in {read[i].code : i \in DOMAIN read}
      PROVE  (CHOOSE r \in Range(read) : r.code = c).said.contracts \in 0 .. DefaultContracts[c]
  <2>1. PICK i \in DOMAIN read : c = read[i].code
    OBVIOUS
  <2>2. read[i] \in Range(read)
    BY DEF Range
  <2>3. PICK r \in Range(read) : r = (CHOOSE x \in Range(read) : x.code = c) /\ r.code = c
    BY <2>1, <2>2
  <2>4. PICK j \in DOMAIN read : r = read[j]
    BY DEF Range
  <2>5. r \in Readings /\ ReadCut(r)
    BY <2>4
  <2>6. r.said.contracts \in Nat /\ r.code \in AllSleeves
    BY <2>5 DEF Readings, VerdictRecords
  <2>7. DefaultContracts[c] \in 1 .. 10
    BY <2>3, <2>6, DefaultContractsAssumption DEF AllSleeves
  <2> QED
    BY <2>3, <2>5, <2>6, <2>7 DEF ReadCut
<1> QED
  BY <1>1 DEF SaidCut, Said

LEMMA SanitisedIsCut ==
  ASSUME NEW reply \in Replies, NEW read, SaidCut(Said(read))
  PROVE  SaidCut(Sanitised(reply, DeterministicBrief(read)).said)
<1> DEFINE known == {item \in reply.items : item.code \in AllSleeves}
           cut(item) == IF item.verdict = "STAND_DOWN" THEN 0
                        ELSE Max({0, Min({item.contracts, DefaultContracts[item.code]})})
           told == [c \in {item.code : item \in known} |->
                      LET item == CHOOSE x \in known : x.code = c
                      IN [verdict |-> item.verdict, contracts |-> cut(item)]]
           rules == DeterministicBrief(read)
<1>1. Sanitised(reply, rules) =
        [rules EXCEPT !.source = "model", !.posture = reply.posture,
           !.said = IF known = {} THEN @ ELSE told]
  BY DEF Sanitised
<1>2. rules = [source |-> "rules", posture |-> Posture(Said(read)), said |-> Said(read), todo |-> rules.todo]
  BY DEF DeterministicBrief
<1>3. ASSUME NEW item \in known PROVE cut(item) \in 0 .. DefaultContracts[item.code]
  <2>1. item.contracts \in Int /\ DefaultContracts[item.code] \in 1 .. 10
    BY ReadingsAssumption, DefaultContractsAssumption DEF AllSleeves
  <2>2. Max({0, Min({item.contracts, DefaultContracts[item.code]})}) \in 0 .. DefaultContracts[item.code]
    BY <2>1, CutIs
  <2>3. 0 \in 0 .. DefaultContracts[item.code]
    BY <2>1
  <2> QED
    BY <2>2, <2>3
<1>4. SaidCut(told)
  <2>1. ASSUME NEW c \in {item.code : item \in known}
        PROVE  told[c].contracts \in 0 .. DefaultContracts[c]
    <3>1. PICK item \in known : item = (CHOOSE x \in known : x.code = c) /\ item.code = c
      OBVIOUS
    <3>2. told[c] = [verdict |-> item.verdict, contracts |-> cut(item)]
      BY <3>1
    <3> HIDE DEF cut, told
    <3>3. told[c].contracts = cut(item)
      BY <3>2
    <3> QED
      BY <1>3, <3>1, <3>3
  <2>2. DOMAIN told = {item.code : item \in known}
    OBVIOUS
  <2> HIDE DEF told
  <2> QED
    BY <2>1, <2>2 DEF SaidCut
<1> HIDE DEF known, told, rules
<1>5. Sanitised(reply, rules).said = IF known = {} THEN Said(read) ELSE told
  BY <1>1, <1>2
<1> QED
  BY <1>4, <1>5 DEF rules

LEMMA ContextCutStep ==
  ASSUME ContextInv, ContextCut, [ContextNext]_contextVars
  PROVE  ContextCut'
<1>1. ASSUME NEW purpose, NEW codes, StartCall(purpose, codes)
      PROVE  ContextCut'
  <2>1. UNCHANGED <<world, gatesSay, bound>> /\ call'.read = <<>> /\ brief' = DeterministicBrief(<<>>)
    BY <1>1 DEF StartCall
  <2>2. brief'.said = Said(<<>>)
    BY <2>1 DEF DeterministicBrief
  <2>3. SaidCut(Said(<<>>))
    BY DEF SaidCut, Said
  <2>4. \A i \in 1 .. Len(call'.read) : FALSE
    <3>1. Len(<<>>) = 0
      OBVIOUS
    <3> QED
      BY <2>1, <3>1
  <2> QED
    BY <2>1, <2>2, <2>3, <2>4 DEF ContextCut
<1>2. CASE ReadSleeve
  <2> DEFINE c == Head(call.todo)
             r == [code |-> c, stopped |-> killSwitches[c], bound |-> bound[c], xray |-> PositionXray(world[c]),
                   said |-> Verdict(c, killSwitches[c], world[c], call.heard[c])]
  <2>1. /\ call # NoCall /\ call.todo # <<>> /\ call' = [call EXCEPT !.todo = Tail(@), !.read = Append(@, r)]
        /\ UNCHANGED <<world, gatesSay, bound, brief>>
    BY <1>2 DEF ReadSleeve
  <2>2. call \in CallRecords
    BY <2>1 DEF ContextInv, ContextTyped
  <2>3. call.todo \in Seq(AllSleeves) /\ call.read \in Seq(Readings) /\ call.heard \in GateRecords
    BY <2>2 DEF CallRecords
  <2>4. c \in AllSleeves
    BY <2>1, <2>3
  <2>5. ReadCut(r)
    <3>1. PICK stopped \in BOOLEAN : stopped = killSwitches[c]
      BY <2>4 DEF ContextInv, ContextTyped
    <3>2. PICK w, say : w = world[c] /\ say = call.heard[c]
      OBVIOUS
    <3>3. say.mult \in Nat
      BY <2>3, <2>4, <3>2 DEF GateRecords, AllSleeves
    <3>4. Verdict(c, stopped, w, say).contracts <= DefaultContracts[c]
      BY <2>4, <3>3, VerdictCut
    <3>5. r.code = c /\ r.said = Verdict(c, stopped, w, say)
      BY <3>1, <3>2
    <3> HIDE DEF c, r
    <3> QED
      BY <3>4, <3>5 DEF ReadCut
  <2> HIDE DEF c, r
  <2>6. call'.read = Append(call.read, r)
    BY <2>1, <2>2 DEF CallRecords
  <2>7. /\ Len(Append(call.read, r)) = Len(call.read) + 1 /\ Len(call.read) \in Nat
        /\ \A i \in 1 .. Len(call.read) : Append(call.read, r)[i] = call.read[i]
        /\ Append(call.read, r)[Len(call.read) + 1] = r
    BY <2>3
  <2>8. \A i \in 1 .. Len(call.read) : ReadCut(call.read[i])
    BY <2>1 DEF ContextCut
  <2>9. \A i \in 1 .. Len(call'.read) : ReadCut(call'.read[i])
    BY <2>5, <2>6, <2>7, <2>8
  <2> QED
    BY <2>1, <2>9 DEF ContextCut
<1>3. CASE GenerateBrief
  <2>1. /\ call' = NoCall /\ UNCHANGED <<world, gatesSay, bound>> /\ call # NoCall
        /\ \/ brief' = DeterministicBrief(call.read)
           \/ \E reply \in Replies : brief' = Sanitised(reply, DeterministicBrief(call.read))
    BY <1>3 DEF GenerateBrief, NoCall
  <2>2. call \in CallRecords
    BY <2>1 DEF ContextInv, ContextTyped
  <2>3. PICK read \in Seq(Readings) : read = call.read
    BY <2>2 DEF CallRecords
  <2>4. SaidCut(Said(read))
    BY <2>1, <2>3, SaidIsCut DEF ContextCut
  <2>5. DeterministicBrief(read).said = Said(read)
    BY DEF DeterministicBrief
  <2>6. SaidCut(brief'.said)
    BY <2>1, <2>3, <2>4, <2>5, SanitisedIsCut
  <2> QED
    BY <2>1, <2>6 DEF ContextCut
<1>4. CASE ApplyOne
  <2>1. call # NoCall /\ call.read # <<>>
    BY <1>4 DEF ApplyOne, NoCall
  <2>2. call \in CallRecords
    BY <2>1 DEF ContextInv, ContextTyped
  <2>3. call.read \in Seq(Readings)
    BY <2>2 DEF CallRecords
  <2>4. PICK r \in Readings : r = Head(call.read)
    BY <2>1, <2>3
  <2>5. /\ bound' = [bound EXCEPT ![r.code] = IF r.said.verdict = "REDUCE" THEN Reduced(r) ELSE @]
        /\ call' = [call EXCEPT !.read = Tail(@), !.done = @ \cup {r.code}]
        /\ UNCHANGED <<world, gatesSay, brief>>
    BY <1>4, <2>4 DEF ApplyOne
  <2>6. r.code \in AllSleeves /\ r.said.contracts \in Nat
    BY DEF Readings, VerdictRecords
  <2>7. Reduced(r) \in 1 .. 10
    <3>1. PICK d \in 1 .. 10 : d = DefaultContracts[r.code]
      BY <2>6, DefaultContractsAssumption DEF AllSleeves
    <3>2. PICK n \in Nat : n = r.said.contracts
      BY <2>6
    <3>3. n \in Int /\ n >= 0
      BY <3>2
    <3>4. Max({1, Min({n, d})}) \in 1 .. 10
      BY <3>1, <3>3, CutIs
    <3> QED
      BY <3>1, <3>2, <3>4 DEF Reduced
  <2>8. bound' \in [AllSleeves -> 1 .. 10]
    BY <2>5, <2>7 DEF ContextCut
  <2>9. call'.read = Tail(call.read)
    BY <2>2, <2>5 DEF CallRecords
  <2>10. \A i \in 1 .. Len(call'.read) : ReadCut(call'.read[i])
    <3>1. \A i \in 1 .. Len(call.read) : ReadCut(call.read[i])
      BY <2>1 DEF ContextCut
    <3>2. \A i \in 1 .. Len(Tail(call.read)) : i + 1 \in 1 .. Len(call.read) /\ Tail(call.read)[i] = call.read[i + 1]
      BY <2>1, <2>3
    <3> QED
      BY <2>9, <3>1, <3>2
  <2> QED
    BY <2>5, <2>8, <2>10 DEF ContextCut
<1>5. CASE FinishApply \/ CallFails
  BY <1>5 DEF FinishApply, CallFails, ContextCut
<1>6. ASSUME NEW codes, Moved(codes), world' \in [AllSleeves -> Worlds], gatesSay' \in GateSets, bound' \in [AllSleeves -> 1 .. 10]
      PROVE  ContextCut'
  <2>1. call' = (IF call = NoCall THEN call ELSE [call EXCEPT !.calm = @ \ codes]) /\ brief' = brief
    BY <1>6 DEF Moved
  <2>2. call' # NoCall => call # NoCall /\ call'.read = call.read
    <3>1. CASE call = NoCall
      BY <2>1, <3>1
    <3>2. CASE call # NoCall
      <4>1. call \in CallRecords
        BY <3>2 DEF ContextInv, ContextTyped
      <4> QED
        BY <2>1, <3>2, <4>1 DEF CallRecords
    <3> QED
      BY <3>1, <3>2
  <2> QED
    BY <1>6, <2>1, <2>2 DEF ContextCut
<1>7. ASSUME NEW c \in AllSleeves, OperatorMoves(c)
      PROVE  ContextCut'
  <2>1. Moved({c}) /\ UNCHANGED <<world, gatesSay>> /\ bound' \in [AllSleeves -> 1 .. 10]
    BY <1>7, ReadingsAssumption DEF OperatorMoves, ContextCut
  <2> QED
    BY <1>6, <2>1 DEF ContextCut
<1>8. ASSUME NEW c \in AllSleeves, NEW w \in Worlds, EngineMoves(c, w)
      PROVE  ContextCut'
  <2>1. Moved({c}) /\ UNCHANGED <<bound, gatesSay>> /\ world' \in [AllSleeves -> Worlds]
    BY <1>8 DEF EngineMoves, ContextCut
  <2> QED
    BY <1>6, <2>1 DEF ContextCut
<1>9. ASSUME NEW say \in GateSets, GatesMove(say)
      PROVE  ContextCut'
  <2>1. Moved({c \in AllSleeves : say[c] # gatesSay[c]}) /\ UNCHANGED <<bound, world>> /\ gatesSay' \in GateSets
    BY <1>9 DEF GatesMove, ContextCut
  <2> QED
    BY <1>6, <2>1 DEF ContextCut
<1>10. CASE UNCHANGED contextVars
  BY <1>10 DEF ContextCut, contextVars
<1> QED
  BY <1>1, <1>2, <1>3, <1>4, <1>5, <1>7, <1>8, <1>9, <1>10 DEF ContextNext

-----------------------------------------------------------------------------
(***************************************************************************)
(* The log of the paper engine and its parser.                             *)
(***************************************************************************)
\* A record with the fields of the parser, of a row, and what it keeps in those that matter.
ParserFields ==
  {"signals", "trades", "fills", "unparsed", "gateBlocks", "capBlocks", "pending", "exiting", "lastClosed",
   "lastSignal", "inSummary", "summary", "day", "clock", "stamp"}
RowFields == {"side", "no", "entry", "exit", "bar", "reason", "net", "closed"}
HasFields(p, fields) == p = [f \in fields |-> p[f]]
Signals == Seq([bar : SignalBars, side : Sides, outcome : {"SKIPPED", "BLOCKED", "ENTERED"}])
Rows ==
  [side : Sides, no : Nat, entry : Nat, exit : Nat, bar : SignalBars \cup {None}, reason : {"none", "stop", "signal"},
   net : Seq(Int), closed : BOOLEAN]
IsRow(r) ==
  /\ HasFields(r, RowFields) /\ r.bar \in SignalBars \cup {None} /\ r.reason \in {"none", "stop", "signal"}
  /\ r.side \in Sides /\ r.no \in Nat /\ r.entry \in Nat /\ r.exit \in Nat /\ r.net \in Seq(Int) /\ r.closed \in BOOLEAN
IsParser(p) ==
  /\ HasFields(p, ParserFields)
  /\ p.signals \in Signals /\ p.inSummary \in BOOLEAN
  /\ p.pending \in Nat /\ p.exiting \in Nat /\ p.lastClosed \in Nat /\ p.lastSignal \in Nat
  /\ p.day \in Int /\ p.clock \in Int /\ p.stamp \in Int
ClosedTrades == [no : Nat \ {None}, side : Sides, entry : Nat \ {None}, exit : Nat \ {None}, totals : BOOLEAN]

\* The row of a trade the engine closed, a row nothing is known of, and one of a trade under way.
IsRead(r, t) ==
  /\ r.no = t.no /\ r.closed /\ r.side = t.side /\ r.entry = t.entry /\ r.exit = t.exit
  /\ r.net = IF t.totals THEN <<Points(t)>> ELSE <<>>
Idle(r) == r.no = None /\ r.entry = None /\ r.exit = None /\ r.net = <<>> /\ ~r.closed
Underway(r) == ~r.closed /\ r.net = <<>>

\* The rows are those of the closed trades, one each, that of the trade under way, at mine, and idle ones.
RowsRead(rows, closed, mine) ==
  /\ rows \in Seq(Rows) /\ closed \in Seq(ClosedTrades)
  /\ \A i, j \in DOMAIN rows : rows[i].no = rows[j].no /\ rows[i].no # None => i = j
  /\ \A k, l \in DOMAIN closed : closed[k].no = closed[l].no => k = l
  /\ \A k \in DOMAIN closed : \E i \in DOMAIN rows : IsRead(rows[i], closed[k])
  /\ \A i \in DOMAIN rows : rows[i].closed => \E k \in DOMAIN closed : IsRead(rows[i], closed[k])
  /\ \A i \in DOMAIN rows : i # mine /\ ~rows[i].closed => Idle(rows[i])
  /\ mine # None => mine \in DOMAIN rows /\ Underway(rows[mine])

\* Where an engine is with its trade, and what the parser's rows and pointers hold of it.
Carries(e, r) == r.side = e.side /\ r.no \in {None, e.no} /\ r.entry \in {None, e.entry}
Followed(e, rows, pending, exiting, mine) ==
  \/ /\ e.phase \in {"flat", "signalled", "closing"} /\ e.no = None /\ mine = None /\ exiting = None
  \/ /\ e.phase = "entering" /\ mine # None /\ mine = pending /\ exiting = None
     /\ Idle(rows[mine]) /\ rows[mine].side = e.side
  \/ /\ e.phase = "entered" /\ mine # None /\ mine = pending /\ exiting = None
     /\ Carries(e, rows[mine]) /\ rows[mine].no = None /\ rows[mine].entry = e.entry /\ rows[mine].exit = None
  \/ /\ e.phase = "held" /\ exiting = None
     /\ mine = None => pending = None
     /\ mine # None => /\ Carries(e, rows[mine]) /\ rows[mine].exit = None
                       /\ pending = IF rows[mine].no = None THEN mine ELSE None
  \/ /\ e.phase \in {"exiting", "left", "booked"} /\ pending = None /\ exiting = mine
     /\ mine # None => /\ Carries(e, rows[mine]) /\ rows[mine].no = e.no
                       /\ rows[mine].exit = IF e.phase = "exiting" THEN None ELSE e.exit

Trading == {"entered", "held", "exiting", "left", "booked"}
IsEngine(e) ==
  /\ HasFields(e, {"phase", "no", "side", "entry", "exit"})
  /\ e.phase \in {"flat", "signalled", "entering", "closing"} \cup Trading
  /\ e.no \in Nat /\ e.side \in Sides /\ e.entry \in Nat /\ e.exit \in Nat
EngineIs(e, trades) ==
  /\ IsEngine(e)
  /\ e.phase \in Trading \cup {"entering"} => e.no \in 1 .. trades
  /\ e.phase \in Trading => e.entry # None
  /\ e.phase \in {"left", "booked"} => e.exit # None

\* No closed trade has the engine's number, or one not yet given.
NumbersKnown(e, closed, trades) == \A k \in DOMAIN closed : closed[k].no \in 1 .. trades /\ closed[k].no # e.no

\* What the engine did is told by the rows and what they point at.
Told(e, closed, trades, rows, pending, exiting, lastClosed) ==
  /\ trades \in 1 .. MaxPaperTrades /\ EngineIs(e, trades) /\ NumbersKnown(e, closed, trades)
  /\ pending # None => pending \in DOMAIN rows /\ rows[pending].no = None
  /\ lastClosed \in {None} \cup DOMAIN rows
  /\ \E mine \in {None} \cup DOMAIN rows : RowsRead(rows, closed, mine) /\ Followed(e, rows, pending, exiting, mine)

SummaryRead ==
  /\ parsed.inSummary => engine.phase = "closing" /\ parsed.summary = [closed |-> Len(closedTrades), net |-> PointsMade]
  /\ ~parsed.inSummary => parsed.summary.closed = -1 /\ engine.phase # "closing"

\* The parser's clock is the log's.
ClockRight ==
  /\ parsed.clock = -1 => parsed.stamp = -1
  /\ parsed.clock # -1 => parsed.clock = hour % 24 /\ parsed.day = hour \div 24
  /\ StampsTell

PaperInv ==
  /\ IsParser(parsed) /\ parsed.lastSignal \in {None} \cup DOMAIN parsed.signals
  /\ HasFields(wrote, {"trades", "triggers", "deaths"}) /\ hour \in Nat
  /\ SummaryRead /\ ClockRight
  /\ Told(engine, closedTrades, wrote.trades, parsed.trades, parsed.pending, parsed.exiting, parsed.lastClosed)

-----------------------------------------------------------------------------
\* The parser after a line, whose rows, open trades and last closed trade are these.
ReadAs(p, r, rows, pending, exiting, lastClosed) ==
  /\ IsParser(r) /\ r.clock = hour % 24 /\ r.day = hour \div 24 /\ r.stamp = hour
  /\ r.trades = rows /\ r.pending = pending /\ r.exiting = exiting /\ r.lastClosed = lastClosed
  /\ r.inSummary = p.inSummary /\ r.summary = p.summary
  /\ r.lastSignal \in {None} \cup DOMAIN r.signals
CanRead(p) == IsParser(p) /\ ~p.inSummary /\ p.lastSignal \in {None} \cup DOMAIN p.signals /\ hour \in Nat

LEMMA HourIs ==
  ASSUME NEW h \in Nat
  PROVE  h % 24 \in 0 .. 23 /\ h \div 24 \in Nat /\ 24 * (h \div 24) + (h % 24) = h
  OBVIOUS

\* q is p at another time.
AtTime(p, q, day, clock, stamp) ==
  /\ IsParser(q) /\ q.day = day /\ q.clock = clock /\ q.stamp = stamp
  /\ q.signals = p.signals /\ q.trades = p.trades /\ q.pending = p.pending /\ q.exiting = p.exiting
  /\ q.lastClosed = p.lastClosed /\ q.lastSignal = p.lastSignal
  /\ q.inSummary = p.inSummary /\ q.summary = p.summary

LEMMA AtTimeIs ==
  ASSUME NEW p, IsParser(p), NEW day \in Int, NEW clock \in Int, NEW stamp \in Int
  PROVE  AtTime(p, [p EXCEPT !.day = day, !.clock = clock, !.stamp = stamp], day, clock, stamp)
  BY DEF AtTime, IsParser, HasFields, ParserFields

LEMMA StampedIs ==
  ASSUME NEW p, IsParser(p), hour \in Nat
  PROVE  AtTime(p, Stamped(p, "full", hour), hour \div 24, hour % 24, hour)
<1>1. Stamped(p, "full", hour)
        = [p EXCEPT !.day = hour \div 24, !.clock = hour % 24, !.stamp = 24 * (hour \div 24) + (hour % 24)]
  BY DEF Stamped
<1>2. hour % 24 \in Int /\ hour \div 24 \in Int /\ 24 * (hour \div 24) + (hour % 24) = hour /\ hour \in Int
  BY HourIs
<1> DEFINE day == hour \div 24
           clock == hour % 24
<1>3. Stamped(p, "full", hour) = [p EXCEPT !.day = day, !.clock = clock, !.stamp = hour]
  BY <1>1, <1>2
<1>4. day \in Int /\ clock \in Int /\ hour \in Int
  BY <1>2
<1> HIDE DEF day, clock
<1>5. AtTime(p, [p EXCEPT !.day = day, !.clock = clock, !.stamp = hour], day, clock, hour)
  BY <1>4, AtTimeIs
<1> QED
  BY <1>3, <1>5 DEF day, clock

\* Stamped before it is read.
LEMMA StampedReadable ==
  ASSUME NEW p, CanRead(p)
  PROVE  LET q == Stamped(p, "full", hour)
         IN CanRead(q) /\ ReadAs(p, q, p.trades, p.pending, p.exiting, p.lastClosed)
<1> DEFINE q == Stamped(p, "full", hour)
<1>1. AtTime(p, q, hour \div 24, hour % 24, hour)
  BY StampedIs DEF CanRead
<1> HIDE DEF q
<1> QED
  BY <1>1 DEF AtTime, CanRead, ReadAs, q

LEMMA SeqPut ==
  ASSUME NEW S, NEW s \in Seq(S), NEW i \in DOMAIN s, NEW x \in S
  PROVE  /\ [s EXCEPT ![i] = x] \in Seq(S) /\ DOMAIN [s EXCEPT ![i] = x] = DOMAIN s
         /\ Len([s EXCEPT ![i] = x]) = Len(s) /\ s[i] \in S
         /\ [s EXCEPT ![i] = x][i] = x /\ \A j \in DOMAIN s : j # i => [s EXCEPT ![i] = x][j] = s[j]
  OBVIOUS

LEMMA SeqAt ==
  ASSUME NEW S, NEW s \in Seq(S), NEW i \in DOMAIN s
  PROVE  s[i] \in S /\ i \in Nat /\ i # 0
  OBVIOUS

LEMMA SeqAdd ==
  ASSUME NEW S, NEW s \in Seq(S), NEW x \in S
  PROVE  /\ Append(s, x) \in Seq(S) /\ Len(Append(s, x)) = Len(s) + 1 /\ Len(s) \in Nat
         /\ DOMAIN s = 1 .. Len(s) /\ DOMAIN Append(s, x) = DOMAIN s \cup {Len(s) + 1} /\ Len(s) + 1 \notin DOMAIN s
         /\ Append(s, x)[Len(s) + 1] = x /\ \A i \in DOMAIN s : Append(s, x)[i] = s[i]
  OBVIOUS

LEMMA RowIs ==
  ASSUME NEW r
  PROVE  r \in Rows <=> IsRow(r)
<1>1. ASSUME r \in Rows PROVE IsRow(r)
  BY <1>1 DEF Rows, IsRow, HasFields, RowFields
<1>2. ASSUME IsRow(r) PROVE r \in Rows
  <2>1. r = [side |-> r.side, no |-> r.no, entry |-> r.entry, exit |-> r.exit, bar |-> r.bar, reason |-> r.reason,
             net |-> r.net, closed |-> r.closed]
    BY <1>2 DEF IsRow, HasFields, RowFields
  <2> QED
    BY <1>2, <2>1 DEF IsRow, Rows
<1> QED
  BY <1>1, <1>2

\* A signal's outcome is nothing to the rest.
OutcomeSet(r, i, o) == [r EXCEPT !.signals[i].outcome = o]

LEMMA MarkedReads ==
  ASSUME NEW p, NEW r, NEW rows, NEW pending, NEW exiting, NEW lastClosed,
         ReadAs(p, r, rows, pending, exiting, lastClosed),
         NEW i \in DOMAIN r.signals, NEW o \in {"SKIPPED", "BLOCKED", "ENTERED"}
  PROVE  ReadAs(p, OutcomeSet(r, i, o), rows, pending, exiting, lastClosed)
<1> DEFINE S == [bar : SignalBars, side : Sides, outcome : {"SKIPPED", "BLOCKED", "ENTERED"}]
           x == [r.signals[i] EXCEPT !.outcome = o]
           mark == [r.signals EXCEPT ![i] = x]
<1>1. r.signals \in Seq(S)
  BY DEF ReadAs, IsParser, Signals
<1>2. OutcomeSet(r, i, o) = [r EXCEPT !.signals = mark]
  BY DEF OutcomeSet, ReadAs, IsParser, HasFields, ParserFields
<1> HIDE DEF S
<1>3. r.signals[i] \in S
  BY <1>1, SeqPut
<1>4. x \in S
  BY <1>3 DEF S
<1> HIDE DEF x
<1>5. mark \in Seq(S) /\ DOMAIN mark = DOMAIN r.signals
  BY <1>1, <1>4, SeqPut
<1>6. Seq(S) = Signals
  BY DEF S, Signals
<1>7. mark \in Signals /\ DOMAIN mark = DOMAIN r.signals
  BY <1>5, <1>6
<1> HIDE DEF mark
<1>8. ReadAs(p, [r EXCEPT !.signals = mark], rows, pending, exiting, lastClosed)
  BY <1>7 DEF ReadAs, IsParser, HasFields, ParserFields
<1> QED
  BY <1>2, <1>8

LEMMA ReadTrigger ==
  ASSUME NEW p, CanRead(p), NEW bar \in SignalBars, NEW side \in Sides, NEW pass \in BOOLEAN
  PROVE  ReadAs(p, Read(p, [tag |-> "trigger", bar |-> bar, side |-> side, pass |-> pass]), p.trades, p.pending,
                p.exiting, p.lastClosed)
<1> DEFINE q == Stamped(p, "full", hour)
           line == [tag |-> "trigger", bar |-> bar, side |-> side, pass |-> pass]
           same == {i \in DOMAIN q.signals : q.signals[i].bar = line.bar /\ q.signals[i].side = line.side}
           blocks == q.gateBlocks + (IF line.pass THEN 0 ELSE 1)
           signal == [bar |-> bar, side |-> side, outcome |-> IF pass THEN "SKIPPED" ELSE "BLOCKED"]
<1>1. CanRead(q) /\ ReadAs(p, q, p.trades, p.pending, p.exiting, p.lastClosed)
  BY StampedReadable
<1>2. Read(p, line) = IF same # {} THEN [q EXCEPT !.lastSignal = Min(same), !.gateBlocks = blocks]
                      ELSE [q EXCEPT !.signals = Append(@, signal), !.lastSignal = Len(q.signals) + 1, !.gateBlocks = blocks]
  <2>1. Read(p, line) = Feed(q, line)
    BY DEF Read
  <2> HIDE DEF q
  <2>2. Feed(q, line) = Trigger(q, line)
    BY <1>1 DEF Feed, CanRead
  <2>3. Trigger(q, line) = IF same # {} THEN [q EXCEPT !.lastSignal = Min(same), !.gateBlocks = blocks]
                      ELSE [q EXCEPT !.signals = Append(@, signal), !.lastSignal = Len(q.signals) + 1, !.gateBlocks = blocks]
    BY DEF Trigger
  <2> QED
    BY <2>1, <2>2, <2>3
<1>3. q.signals \in Signals
  BY <1>1 DEF CanRead, IsParser
<1>4. DOMAIN q.signals = 1 .. Len(q.signals) /\ Len(q.signals) \in Nat
  BY <1>3 DEF Signals
<1>5. same \in SUBSET Nat /\ (same # {} => Min(same) \in same)
  <2>1. same \in SUBSET Nat
    BY <1>4
  <2> HIDE DEF same
  <2> QED
    BY <2>1, MinIn
<1>6. same \subseteq DOMAIN q.signals
  OBVIOUS
<1>7. Append(q.signals, signal) \in Signals
      /\ Len(q.signals) + 1 \in DOMAIN Append(q.signals, signal)
  BY <1>3, <1>4 DEF Signals
<1> HIDE DEF q, line, same, blocks, signal
<1>8. CASE same # {}
  <2>1. Min(same) \in Nat /\ Min(same) \in DOMAIN q.signals
    BY <1>4, <1>5, <1>6, <1>8
  <2> QED
    BY <1>1, <1>2, <1>8, <2>1 DEF ReadAs, IsParser, HasFields, ParserFields, line
<1>9. CASE same = {}
  <2>1. Len(q.signals) + 1 \in Nat
    BY <1>4
  <2> QED
    BY <1>1, <1>2, <1>9, <1>7, <2>1 DEF ReadAs, IsParser, HasFields, ParserFields, line
<1> QED
  BY <1>8, <1>9

LEMMA ReadNoEntries ==
  ASSUME NEW p, CanRead(p), NEW why
  PROVE  ReadAs(p, Read(p, [tag |-> "no entries", why |-> why]), p.trades, p.pending, p.exiting, p.lastClosed)
<1> DEFINE q == Stamped(p, "full", hour)
           line == [tag |-> "no entries", why |-> why]
           counted == [q EXCEPT !.capBlocks = IF line.why = "loss cap" THEN @ + 1 ELSE @]
           barred == q.lastSignal # None /\ q.signals[q.lastSignal].outcome = "SKIPPED"
<1>1. CanRead(q) /\ ReadAs(p, q, p.trades, p.pending, p.exiting, p.lastClosed)
  BY StampedReadable
<1>2. Read(p, line) = IF barred THEN OutcomeSet(counted, q.lastSignal, "BLOCKED") ELSE counted
  <2>1. Read(p, line) = Feed(q, line)
    BY DEF Read
  <2> HIDE DEF q
  <2>2. Feed(q, line) = NoEntries(q, line)
    BY <1>1 DEF Feed, CanRead
  <2> QED
    BY <2>1, <2>2 DEF NoEntries, OutcomeSet
<1> HIDE DEF q
<1>3. ReadAs(p, counted, p.trades, p.pending, p.exiting, p.lastClosed)
      /\ counted.signals = q.signals /\ counted.lastSignal = q.lastSignal
  BY <1>1 DEF ReadAs, IsParser, HasFields, ParserFields
<1>4. q.lastSignal # None => q.lastSignal \in DOMAIN counted.signals
  BY <1>1, <1>3 DEF CanRead
<1>5. q.lastSignal # None => ReadAs(p, OutcomeSet(counted, q.lastSignal, "BLOCKED"), p.trades, p.pending, p.exiting, p.lastClosed)
  <2> HIDE DEF counted
  <2> QED
    BY <1>3, <1>4, MarkedReads
<1> HIDE DEF counted, line
<1> QED
  BY <1>2, <1>3, <1>5 DEF line

LEMMA ReadEntry ==
  ASSUME NEW p, CanRead(p), NEW side \in Sides, Len(p.trades) \in Nat
  PROVE  \E bar \in SignalBars \cup {None} :
           ReadAs(p, Read(p, [tag |-> "entry", side |-> side]),
                  Append(p.trades, [NewTrade(side, None) EXCEPT !.bar = bar]), Len(p.trades) + 1, p.exiting, p.lastClosed)
<1> DEFINE q == Stamped(p, "full", hour)
           line == [tag |-> "entry", side |-> side]
           mine == q.lastSignal # None /\ q.signals[q.lastSignal].side = line.side
           bar == IF mine THEN q.signals[q.lastSignal].bar ELSE None
           row == [NewTrade(side, None) EXCEPT !.bar = bar]
           rows == Append(q.trades, row)
           opened == [q EXCEPT !.trades = rows, !.pending = Len(q.trades) + 1]
<1>1. CanRead(q) /\ ReadAs(p, q, p.trades, p.pending, p.exiting, p.lastClosed)
  BY StampedReadable
<1>2. Read(p, line) = IF mine THEN OutcomeSet(opened, q.lastSignal, "ENTERED") ELSE opened
  <2>1. Read(p, line) = Feed(q, line)
    BY DEF Read
  <2> HIDE DEF q
  <2>2. Feed(q, line) = Entry(q, line)
    BY <1>1 DEF Feed, CanRead
  <2>3. [q EXCEPT !.trades = Append(@, row), !.pending = Len(q.trades) + 1] = opened
    BY <1>1 DEF ReadAs, IsParser, HasFields, ParserFields
  <2> QED
    BY <2>1, <2>2, <2>3 DEF Entry, OutcomeSet
<1>3. q.lastSignal # None => q.lastSignal \in DOMAIN q.signals
  BY <1>1 DEF CanRead
<1>4. bar \in SignalBars \cup {None}
  <2> SUFFICES ASSUME mine PROVE q.signals[q.lastSignal].bar \in SignalBars
    OBVIOUS
  <2> DEFINE S == [bar : SignalBars, side : Sides, outcome : {"SKIPPED", "BLOCKED", "ENTERED"}]
  <2>1. q.signals \in Seq(S)
    BY <1>1 DEF CanRead, IsParser, Signals
  <2> HIDE DEF S, q
  <2>2. q.signals[q.lastSignal] \in S
    BY <1>3, <2>1, SeqPut
  <2> QED
    BY <2>2 DEF S
<1> HIDE DEF q, rows, bar
<1> DEFINE n == Len(q.trades) + 1
<1>8. n = Len(p.trades) + 1 /\ n \in Nat
  BY <1>1 DEF ReadAs
<1> HIDE DEF n
<1>5. ReadAs(p, opened, rows, n, p.exiting, p.lastClosed) /\ opened.signals = q.signals
  BY <1>1, <1>8 DEF ReadAs, IsParser, HasFields, ParserFields
<1> HIDE DEF opened
<1>9. q.lastSignal # None => ReadAs(p, OutcomeSet(opened, q.lastSignal, "ENTERED"), rows, n, p.exiting, p.lastClosed)
  BY <1>3, <1>5, MarkedReads
<1>6. ReadAs(p, Read(p, line), rows, Len(p.trades) + 1, p.exiting, p.lastClosed)
  BY <1>2, <1>5, <1>8, <1>9
<1>7. rows = Append(p.trades, row)
  BY <1>1 DEF rows, ReadAs
<1> HIDE DEF row
<1> QED
  BY <1>4, <1>6, <1>7 DEF row, line

\* A line that does nothing here.
LEMMA ReadNothing ==
  ASSUME NEW p, CanRead(p), NEW tag \in {"hold", "other"}
  PROVE  ReadAs(p, Read(p, Line(tag)), p.trades, p.pending, p.exiting, p.lastClosed)
<1> DEFINE q == Stamped(p, "full", hour)
<1>1. CanRead(q) /\ ReadAs(p, q, p.trades, p.pending, p.exiting, p.lastClosed)
  BY StampedReadable
<1>2. Read(p, Line(tag)) = Feed(q, Line(tag))
  BY DEF Read
<1> HIDE DEF q
<1>3. Feed(q, Line(tag)) = q
  BY <1>1 DEF Feed, CanRead, Line
<1> QED
  BY <1>1, <1>2, <1>3

\* A filled order is the pending entry's, the exit's, or nobody's.
LEMMA ReadOrder ==
  ASSUME NEW p, CanRead(p), NEW px \in Nat
  PROVE  LET r == Read(p, [tag |-> "order", px |-> px])
         IN /\ p.pending # None /\ p.trades[p.pending].entry = None =>
                 ReadAs(p, r, [p.trades EXCEPT ![p.pending].entry = px], p.pending, p.exiting, p.lastClosed)
            /\ p.pending = None /\ p.exiting # None /\ p.trades[p.exiting].exit = None =>
                 ReadAs(p, r, [p.trades EXCEPT ![p.exiting].exit = px], p.pending, p.exiting, p.lastClosed)
            /\ p.pending = None /\ p.exiting = None =>
                 ReadAs(p, r, p.trades, p.pending, p.exiting, p.lastClosed)
<1> DEFINE q == Stamped(p, "full", hour)
           line == [tag |-> "order", px |-> px]
           r == Read(p, line)
<1>1. CanRead(q) /\ ReadAs(p, q, p.trades, p.pending, p.exiting, p.lastClosed)
  BY StampedReadable
<1>2. r = Order(q, line)
  <2>1. Read(p, line) = Feed(q, line)
    BY DEF Read
  <2> HIDE DEF q
  <2>2. Feed(q, line) = Order(q, line)
    BY <1>1 DEF Feed, CanRead
  <2> QED
    BY <2>1, <2>2
<1>3. p.pending = q.pending /\ p.exiting = q.exiting /\ p.trades = q.trades
  BY <1>1 DEF ReadAs
<1> HIDE DEF q, r
<1>4. ASSUME NEW role, NEW i, NEW rows, rows = [q.trades EXCEPT ![i].entry = px]
      PROVE  ReadAs(p, [[q EXCEPT !.fills = Append(@, role)] EXCEPT !.trades[i].entry = line.px],
                    rows, p.pending, p.exiting, p.lastClosed)
  <2>1. [[q EXCEPT !.fills = Append(@, role)] EXCEPT !.trades[i].entry = line.px]
          = [q EXCEPT !.fills = Append(@, role), !.trades = rows]
    BY <1>1, <1>4 DEF ReadAs, IsParser, HasFields, ParserFields
  <2>2. ReadAs(p, [q EXCEPT !.fills = Append(@, role), !.trades = rows], rows, p.pending, p.exiting, p.lastClosed)
    BY <1>1 DEF ReadAs, IsParser, HasFields, ParserFields
  <2> QED
    BY <2>1, <2>2
<1>5. ASSUME NEW role, NEW i, NEW rows, rows = [q.trades EXCEPT ![i].exit = px]
      PROVE  ReadAs(p, [[q EXCEPT !.fills = Append(@, role)] EXCEPT !.trades[i].exit = line.px],
                    rows, p.pending, p.exiting, p.lastClosed)
  <2>1. [[q EXCEPT !.fills = Append(@, role)] EXCEPT !.trades[i].exit = line.px]
          = [q EXCEPT !.fills = Append(@, role), !.trades = rows]
    BY <1>1, <1>5 DEF ReadAs, IsParser, HasFields, ParserFields
  <2>2. ReadAs(p, [q EXCEPT !.fills = Append(@, role), !.trades = rows], rows, p.pending, p.exiting, p.lastClosed)
    BY <1>1 DEF ReadAs, IsParser, HasFields, ParserFields
  <2> QED
    BY <2>1, <2>2
<1>6. ASSUME NEW role
      PROVE  ReadAs(p, [q EXCEPT !.fills = Append(@, role)], p.trades, p.pending, p.exiting, p.lastClosed)
  BY <1>1 DEF ReadAs, IsParser, HasFields, ParserFields
<1>7. ASSUME p.pending # None, p.trades[p.pending].entry = None
      PROVE  ReadAs(p, r, [p.trades EXCEPT ![p.pending].entry = px], p.pending, p.exiting, p.lastClosed)
  <2> DEFINE rows == [q.trades EXCEPT ![q.pending].entry = px]
             after == [[q EXCEPT !.fills = Append(@, "ENTRY")] EXCEPT !.trades[q.pending].entry = line.px]
  <2>1. Order(q, line) = after
    BY <1>3, <1>7 DEF Order
  <2>2. ReadAs(p, after, rows, p.pending, p.exiting, p.lastClosed)
    <3>1. rows = [q.trades EXCEPT ![q.pending].entry = px]
      OBVIOUS
    <3> HIDE DEF rows
    <3> QED
      BY <1>4, <3>1
  <2>3. rows = [p.trades EXCEPT ![p.pending].entry = px]
    BY <1>3
  <2> HIDE DEF rows, after
  <2> QED
    BY <1>2, <2>1, <2>2, <2>3
<1>8. ASSUME p.pending = None, p.exiting # None, p.trades[p.exiting].exit = None
      PROVE  ReadAs(p, r, [p.trades EXCEPT ![p.exiting].exit = px], p.pending, p.exiting, p.lastClosed)
  <2> DEFINE rows == [q.trades EXCEPT ![q.exiting].exit = px]
             after(role) == [[q EXCEPT !.fills = Append(@, role)] EXCEPT !.trades[q.exiting].exit = line.px]
  <2>1. Order(q, line) = after("STOP") \/ Order(q, line) = after("EXIT")
    BY <1>3, <1>8 DEF Order
  <2>2. \A role : ReadAs(p, after(role), rows, p.pending, p.exiting, p.lastClosed)
    <3>1. rows = [q.trades EXCEPT ![q.exiting].exit = px]
      OBVIOUS
    <3> HIDE DEF rows
    <3> QED
      BY <1>5, <3>1
  <2>3. rows = [p.trades EXCEPT ![p.exiting].exit = px]
    BY <1>3
  <2> HIDE DEF rows, after
  <2> QED
    BY <1>2, <2>1, <2>2, <2>3
<1>9. ASSUME p.pending = None, p.exiting = None
      PROVE  ReadAs(p, r, p.trades, p.pending, p.exiting, p.lastClosed)
  <2>1. Order(q, line) = [q EXCEPT !.fills = Append(@, "ADJUST")]
    BY <1>3, <1>9 DEF Order
  <2> QED
    BY <1>2, <1>6, <2>1
<1> QED
  BY <1>7, <1>8, <1>9 DEF r

\* What the lines of a fill and of an exit make of a row.
EntryRow(r, line) == [r EXCEPT !.entry = OrElse(r.entry, line.px), !.no = line.no]
ExitRow(r, line) == [r EXCEPT !.exit = OrElse(r.exit, line.px), !.no = line.no]
LeavingRow(r, line) == [r EXCEPT !.no = OrElse(r.no, line.no), !.reason = line.reason]
FilledLine(no, px) == [tag |-> "filled", no |-> no, px |-> px]
ExitLine(no, reason) == [tag |-> "exit", no |-> no, reason |-> reason]

LEMMA ReadFilled ==
  ASSUME NEW p, CanRead(p), NEW no, NEW px \in Nat
  PROVE  LET line == FilledLine(no, px)
             r == Read(p, line)
             known == TradeOf(p, no)
         IN /\ known = None /\ p.pending # None /\ p.trades[p.pending].no = None /\ p.pending # p.exiting =>
                 ReadAs(p, r, [p.trades EXCEPT ![p.pending] = EntryRow(p.trades[p.pending], line)],
                        None, p.exiting, p.lastClosed)
            /\ known # None /\ known = p.exiting =>
                 ReadAs(p, r, [p.trades EXCEPT ![known] = ExitRow(p.trades[known], line)],
                        p.pending, p.exiting, p.lastClosed)
            /\ known = None /\ p.pending = None => ReadAs(p, r, p.trades, p.pending, p.exiting, p.lastClosed)
<1> DEFINE q == Stamped(p, "full", hour)
           line == FilledLine(no, px)
           r == Read(p, line)
           known == TradeOf(p, no)
<1>1. CanRead(q) /\ ReadAs(p, q, p.trades, p.pending, p.exiting, p.lastClosed)
  BY StampedReadable
<1>2. r = Filled(q, line)
  <2>1. Read(p, line) = Feed(q, line)
    BY DEF Read
  <2> HIDE DEF q
  <2>2. Feed(q, line) = Filled(q, line)
    BY <1>1 DEF Feed, CanRead, FilledLine
  <2> QED
    BY <2>1, <2>2
<1>3. p.pending = q.pending /\ p.exiting = q.exiting /\ p.trades = q.trades /\ TradeOf(q, line.no) = known
  <2>1. p.pending = q.pending /\ p.exiting = q.exiting /\ p.trades = q.trades
    BY <1>1 DEF ReadAs
  <2> HIDE DEF q
  <2> QED
    BY <2>1 DEF TradeOf, FilledLine
<1> HIDE DEF q, r, known, line
<1>7. ASSUME known = None, p.pending # None, p.trades[p.pending].no = None, p.pending # p.exiting
      PROVE  ReadAs(p, r, [p.trades EXCEPT ![p.pending] = EntryRow(p.trades[p.pending], line)],
                    None, p.exiting, p.lastClosed)
  <2> DEFINE row == EntryRow(p.trades[p.pending], line)
             rows == [p.trades EXCEPT ![p.pending] = row]
  <2>1. Filled(q, line) = [q EXCEPT !.trades[p.pending] = row, !.pending = None]
    BY <1>3, <1>7 DEF Filled, EntryRow
  <2> HIDE DEF row
  <2>2. [q EXCEPT !.trades[p.pending] = row, !.pending = None] = [q EXCEPT !.trades = rows, !.pending = None]
    BY <1>1, <1>3 DEF ReadAs, IsParser, HasFields, ParserFields
  <2> HIDE DEF rows
  <2>3. ReadAs(p, [q EXCEPT !.trades = rows, !.pending = None], rows, None, p.exiting, p.lastClosed)
    BY <1>1 DEF ReadAs, IsParser, HasFields, ParserFields, None
  <2>4. ReadAs(p, r, rows, None, p.exiting, p.lastClosed)
    BY <1>2, <2>1, <2>2, <2>3
  <2> QED
    BY <2>4 DEF rows, row
<1>8. ASSUME known # None, known = p.exiting
      PROVE  ReadAs(p, r, [p.trades EXCEPT ![known] = ExitRow(p.trades[known], line)],
                    p.pending, p.exiting, p.lastClosed)
  <2> DEFINE row == ExitRow(p.trades[known], line)
             rows == [p.trades EXCEPT ![known] = row]
  <2>1. Filled(q, line) = [q EXCEPT !.trades[known] = row]
    BY <1>3, <1>8 DEF Filled, ExitRow
  <2> HIDE DEF row
  <2>2. [q EXCEPT !.trades[known] = row] = [q EXCEPT !.trades = rows]
    BY <1>1, <1>3 DEF ReadAs, IsParser, HasFields, ParserFields
  <2> HIDE DEF rows
  <2>3. ReadAs(p, [q EXCEPT !.trades = rows], rows, p.pending, p.exiting, p.lastClosed)
    BY <1>1 DEF ReadAs, IsParser, HasFields, ParserFields
  <2>4. ReadAs(p, r, rows, p.pending, p.exiting, p.lastClosed)
    BY <1>2, <2>1, <2>2, <2>3
  <2> QED
    BY <2>4 DEF rows, row
<1>9. ASSUME known = None, p.pending = None
      PROVE  ReadAs(p, r, p.trades, p.pending, p.exiting, p.lastClosed)
  <2>1. Filled(q, line) = Unparsed(q)
    BY <1>3, <1>9 DEF Filled
  <2>2. ReadAs(p, Unparsed(q), p.trades, p.pending, p.exiting, p.lastClosed)
    BY <1>1 DEF Unparsed, ReadAs, IsParser, HasFields, ParserFields
  <2> QED
    BY <1>2, <2>1, <2>2
<1> QED
  BY <1>7, <1>8, <1>9 DEF r, known, line

LEMMA ReadExit ==
  ASSUME NEW p, CanRead(p), NEW no, NEW reason
  PROVE  LET line == ExitLine(no, reason)
             r == Read(p, line)
             i == OrElse(TradeOf(p, no), p.pending)
         IN /\ i # None /\ i \in Nat =>
                 ReadAs(p, r, [p.trades EXCEPT ![i] = LeavingRow(p.trades[i], line)], None, i, p.lastClosed)
            /\ i = None => ReadAs(p, r, p.trades, p.pending, p.exiting, p.lastClosed)
<1> DEFINE q == Stamped(p, "full", hour)
           line == ExitLine(no, reason)
           r == Read(p, line)
           i == OrElse(TradeOf(p, no), p.pending)
<1>1. CanRead(q) /\ ReadAs(p, q, p.trades, p.pending, p.exiting, p.lastClosed)
  BY StampedReadable
<1>2. r = Exit(q, line)
  <2>1. Read(p, line) = Feed(q, line)
    BY DEF Read
  <2> HIDE DEF q
  <2>2. Feed(q, line) = Exit(q, line)
    BY <1>1 DEF Feed, CanRead, ExitLine
  <2> QED
    BY <2>1, <2>2
<1>3. p.trades = q.trades /\ OrElse(TradeOf(q, line.no), q.pending) = i
  <2>1. p.pending = q.pending /\ p.trades = q.trades
    BY <1>1 DEF ReadAs
  <2> HIDE DEF q
  <2> QED
    BY <2>1 DEF TradeOf, ExitLine
<1> HIDE DEF q, r, i, line
<1>7. ASSUME i # None, i \in Nat
      PROVE  ReadAs(p, r, [p.trades EXCEPT ![i] = LeavingRow(p.trades[i], line)], None, i, p.lastClosed)
  <2> DEFINE row == LeavingRow(p.trades[i], line)
             rows == [p.trades EXCEPT ![i] = row]
  <2>1. Exit(q, line) = [q EXCEPT !.trades[i] = row, !.exiting = i, !.pending = None]
    BY <1>3, <1>7 DEF Exit, LeavingRow
  <2> HIDE DEF row
  <2>2. [q EXCEPT !.trades[i] = row, !.exiting = i, !.pending = None]
          = [q EXCEPT !.trades = rows, !.exiting = i, !.pending = None]
    BY <1>1, <1>3 DEF ReadAs, IsParser, HasFields, ParserFields
  <2> HIDE DEF rows
  <2>3. ReadAs(p, [q EXCEPT !.trades = rows, !.exiting = i, !.pending = None], rows, None, i, p.lastClosed)
    BY <1>1, <1>7 DEF ReadAs, IsParser, HasFields, ParserFields, None
  <2>4. ReadAs(p, r, rows, None, i, p.lastClosed)
    BY <1>2, <2>1, <2>2, <2>3
  <2> QED
    BY <2>4 DEF rows, row
<1>9. ASSUME i = None
      PROVE  ReadAs(p, r, p.trades, p.pending, p.exiting, p.lastClosed)
  <2>1. Exit(q, line) = Unparsed(q)
    BY <1>3, <1>9 DEF Exit
  <2>2. ReadAs(p, Unparsed(q), p.trades, p.pending, p.exiting, p.lastClosed)
    BY <1>1 DEF Unparsed, ReadAs, IsParser, HasFields, ParserFields
  <2> QED
    BY <1>2, <2>1, <2>2
<1> QED
  BY <1>7, <1>9 DEF r, i, line

\* What a closed line makes of a row.
ClosedRow(r, line) ==
  [r EXCEPT !.entry = OrElse(r.entry, line.entry), !.exit = OrElse(r.exit, line.exit), !.closed = TRUE]
ClosedLine(t) == [tag |-> "closed", no |-> t.no, side |-> t.side, entry |-> t.entry, exit |-> t.exit]

LEMMA ReadClosed ==
  ASSUME NEW p, CanRead(p), NEW t, NEW i \in Nat, i = TradeOf(p, t.no), i # None
  PROVE  ReadAs(p, Read(p, ClosedLine(t)), [p.trades EXCEPT ![i] = ClosedRow(p.trades[i], t)],
                p.pending, IF p.exiting = i THEN None ELSE p.exiting, i)
<1> DEFINE q == Stamped(p, "full", hour)
           line == ClosedLine(t)
           rows == [p.trades EXCEPT ![i] = ClosedRow(p.trades[i], t)]
           exiting == IF p.exiting = i THEN None ELSE p.exiting
<1>1. CanRead(q) /\ ReadAs(p, q, p.trades, p.pending, p.exiting, p.lastClosed)
  BY StampedReadable
<1>2. Read(p, line) = Closes(q, line)
  <2>1. Read(p, line) = Feed(q, line)
    BY DEF Read
  <2> HIDE DEF q
  <2>2. Feed(q, line) = Closes(q, line)
    BY <1>1 DEF Feed, CanRead, ClosedLine
  <2> QED
    BY <2>1, <2>2
<1>3. p.trades = q.trades /\ p.exiting = q.exiting /\ TradeOf(q, line.no) = i
  <2>1. p.trades = q.trades /\ p.exiting = q.exiting
    BY <1>1 DEF ReadAs
  <2> HIDE DEF q
  <2> QED
    BY <2>1 DEF TradeOf, ClosedLine
<1> HIDE DEF q
<1>4. line.entry = t.entry /\ line.exit = t.exit
  BY DEF ClosedLine
<1> DEFINE row == ClosedRow(q.trades[i], t)
           after == [q EXCEPT !.trades[i] = row, !.lastClosed = i, !.exiting = IF @ = i THEN None ELSE @]
<1>5. Closes(q, line) = after
  BY <1>3, <1>4 DEF Closes, ClosedRow
<1>10. rows = [q.trades EXCEPT ![i] = row]
  BY <1>3
<1> HIDE DEF line, row
<1>6. after = [q EXCEPT !.trades = rows, !.lastClosed = i, !.exiting = exiting]
  <2>1. after = [q EXCEPT !.trades[i] = row, !.lastClosed = i, !.exiting = exiting]
    BY <1>3
  <2> HIDE DEF after, exiting, rows
  <2> QED
    BY <1>1, <1>10, <2>1 DEF ReadAs, IsParser, HasFields, ParserFields
<1>7. exiting \in Nat
  BY <1>1 DEF ReadAs, IsParser, None
<1> HIDE DEF rows, after, exiting
<1>8. ReadAs(p, [q EXCEPT !.trades = rows, !.lastClosed = i, !.exiting = exiting], rows, p.pending, exiting, i)
  BY <1>1, <1>7 DEF ReadAs, IsParser, HasFields, ParserFields
<1>9. ReadAs(p, Read(p, line), rows, p.pending, exiting, i)
  BY <1>2, <1>5, <1>6, <1>8
<1> QED
  BY <1>9 DEF rows, exiting, line

\* A trade never seen before is made of its closed line.
LEMMA ReadClosedNew ==
  ASSUME NEW p, CanRead(p), p.trades \in Seq(Rows), NEW t, TradeOf(p, t.no) = None, p.exiting = None,
         NewTrade(t.side, t.no) \in Rows
  PROVE  ReadAs(p, Read(p, ClosedLine(t)), Append(p.trades, ClosedRow(NewTrade(t.side, t.no), t)),
                p.pending, None, Len(p.trades) + 1)
<1> DEFINE q == Stamped(p, "full", hour)
           line == ClosedLine(t)
           made == NewTrade(t.side, t.no)
           new == Append(p.trades, made)
           n == Len(p.trades) + 1
           put == [new EXCEPT ![n] = ClosedRow(new[n], t)]
           rows == Append(p.trades, ClosedRow(made, t))
<1>1. CanRead(q) /\ ReadAs(p, q, p.trades, p.pending, p.exiting, p.lastClosed)
  BY StampedReadable
<1>2. Read(p, line) = Closes(q, line)
  <2>1. Read(p, line) = Feed(q, line)
    BY DEF Read
  <2> HIDE DEF q
  <2>2. Feed(q, line) = Closes(q, line)
    BY <1>1 DEF Feed, CanRead, ClosedLine
  <2> QED
    BY <2>1, <2>2
<1>3. p.trades = q.trades /\ p.exiting = q.exiting /\ TradeOf(q, line.no) = None
  <2>1. p.trades = q.trades /\ p.exiting = q.exiting
    BY <1>1 DEF ReadAs
  <2> HIDE DEF q
  <2> QED
    BY <2>1 DEF TradeOf, ClosedLine
<1> HIDE DEF q
<1>4. line.entry = t.entry /\ line.exit = t.exit /\ NewTrade(line.side, line.no) = made
  BY DEF ClosedLine
<1>5. n \in Nat /\ n # None
  BY DEF None
<1> DEFINE with == [q EXCEPT !.trades = new]
           row == ClosedRow(with.trades[n], t)
           after == [with EXCEPT !.trades[n] = row, !.lastClosed = n, !.exiting = IF @ = n THEN None ELSE @]
<1>6. Closes(q, line) = after
  <2> HIDE DEF made, line
  <2>1. [q EXCEPT !.trades = Append(@, made)] = with
    BY <1>1, <1>3 DEF ReadAs, IsParser, HasFields, ParserFields
  <2> HIDE DEF with
  <2> QED
    BY <1>3, <1>4, <2>1 DEF Closes, ClosedRow
<1> HIDE DEF line, made, new
<1>7. with.trades = new /\ with.exiting = None /\ HasFields(with, ParserFields)
  BY <1>1, <1>3 DEF ReadAs, IsParser, HasFields, ParserFields
<1>8. with = [q EXCEPT !.trades = new]
  OBVIOUS
<1> HIDE DEF with, n
<1>13. put = [with.trades EXCEPT ![n] = row]
  BY <1>7
<1> HIDE DEF row
<1>9. after = [with EXCEPT !.trades = put, !.lastClosed = n, !.exiting = None]
  <2>1. after = [with EXCEPT !.trades[n] = row, !.lastClosed = n, !.exiting = None]
    BY <1>7
  <2> HIDE DEF after, put
  <2> QED
    BY <1>7, <1>13, <2>1 DEF HasFields, ParserFields
<1>10. put = rows
  <2>1. new \in Seq(Rows)
    BY SeqAdd DEF new, made
  <2>2. new[n] = made /\ DOMAIN new = DOMAIN p.trades \cup {n} /\ DOMAIN p.trades = 1 .. Len(p.trades) /\ Len(p.trades) \in Nat
        /\ \A i \in DOMAIN p.trades : new[i] = p.trades[i]
    BY SeqAdd DEF new, made, n
  <2>3. put = [i \in DOMAIN new |-> IF i = n THEN ClosedRow(made, t) ELSE new[i]]
    <3> HIDE DEF put
    <3>1. new = [i \in DOMAIN new |-> new[i]]
      BY <2>1
    <3> QED
      BY <2>2, <3>1 DEF put
  <2>4. rows = [i \in 1 .. n |-> IF i = n THEN ClosedRow(made, t) ELSE p.trades[i]]
    <3> DEFINE x == ClosedRow(made, t)
    <3> HIDE DEF x
    <3>1. Append(p.trades, x) = [i \in 1 .. Len(p.trades) + 1 |-> IF i = Len(p.trades) + 1 THEN x ELSE p.trades[i]]
      BY <2>2
    <3> QED
      BY <3>1 DEF x, n
  <2>5. DOMAIN new = 1 .. n
    BY <2>2 DEF n
  <2> HIDE DEF put, rows
  <2> QED
    BY <2>2, <2>3, <2>4, <2>5 DEF n
<1> HIDE DEF put, rows, after
<1>11. ReadAs(p, [with EXCEPT !.trades = put, !.lastClosed = n, !.exiting = None], put, p.pending, None, n)
  <2>1. [with EXCEPT !.trades = put, !.lastClosed = n, !.exiting = None]
          = [q EXCEPT !.trades = put, !.lastClosed = n, !.exiting = None]
    BY <1>1, <1>8 DEF ReadAs, IsParser, HasFields, ParserFields
  <2>2. ReadAs(p, [q EXCEPT !.trades = put, !.lastClosed = n, !.exiting = None], put, p.pending, None, n)
    BY <1>1, <1>5 DEF ReadAs, IsParser, HasFields, ParserFields, None
  <2> QED
    BY <2>1, <2>2
<1>12. ReadAs(p, Read(p, line), rows, p.pending, None, n)
  BY <1>2, <1>6, <1>9, <1>10, <1>11
<1> QED
  BY <1>12 DEF rows, made, line, n

LEMMA ReadTotals ==
  ASSUME NEW p, CanRead(p), p.lastClosed # None, NEW net
  PROVE  ReadAs(p, Read(p, [tag |-> "totals", net |-> net]), [p.trades EXCEPT ![p.lastClosed].net = <<net>>],
                p.pending, p.exiting, p.lastClosed)
<1> DEFINE q == Stamped(p, "full", hour)
           line == [tag |-> "totals", net |-> net]
           rows == [p.trades EXCEPT ![p.lastClosed].net = <<net>>]
           after == [q EXCEPT !.trades[p.lastClosed].net = <<net>>]
<1>1. CanRead(q) /\ ReadAs(p, q, p.trades, p.pending, p.exiting, p.lastClosed)
  BY StampedReadable
<1>2. Read(p, line) = Feed(q, line)
  BY DEF Read
<1> HIDE DEF q
<1>3. Feed(q, line) = Totals(q, line)
  BY <1>1 DEF Feed, CanRead
<1>4. Totals(q, line) = after
  BY <1>1 DEF Totals, ReadAs, ApplyTotals
<1>5. after = [q EXCEPT !.trades = rows]
  BY <1>1 DEF ReadAs, IsParser, HasFields, ParserFields
<1> HIDE DEF rows, after
<1>6. ReadAs(p, [q EXCEPT !.trades = rows], rows, p.pending, p.exiting, p.lastClosed)
  BY <1>1 DEF ReadAs, IsParser, HasFields, ParserFields
<1> QED
  BY <1>2, <1>3, <1>4, <1>5, <1>6 DEF rows

\* The summary's lines change nothing but what the parser knows of the summary.
LEMMA ReadSummary ==
  ASSUME NEW p, CanRead(p), p.summary.closed = -1, NEW closed, NEW net
  PROVE  LET begun == Read(p, Line("summary"))
             told == Read(begun, [tag |-> "figures", closed |-> closed, net |-> net])
             r == Read(told, Line("other"))
         IN /\ AtTime([p EXCEPT !.inSummary = TRUE, !.summary = [closed |-> closed, net |-> net]], r,
                      hour \div 24, hour % 24, hour)
<1> DEFINE q == Stamped(p, "full", hour)
           begun == Read(p, Line("summary"))
           q1 == Stamped(begun, "full", hour)
           line == [tag |-> "figures", closed |-> closed, net |-> net]
           told == Read(begun, line)
           q2 == Stamped(told, "full", hour)
           r == Read(told, Line("other"))
           sum == [closed |-> closed, net |-> net]
<1>1. AtTime(p, q, hour \div 24, hour % 24, hour)
  BY StampedIs DEF CanRead
<1>2. begun = Feed(q, Line("summary"))
  BY DEF Read
<1> HIDE DEF q
<1>3. begun = [q EXCEPT !.inSummary = TRUE]
  <2> HIDE DEF begun
  <2>1. Feed(q, Line("summary")) = [q EXCEPT !.inSummary = TRUE]
    BY <1>1 DEF Feed, CanRead, AtTime, Line
  <2> QED
    BY <1>2, <2>1
<1> HIDE DEF begun
<1>4. IsParser(begun) /\ hour \in Nat
  BY <1>1, <1>3 DEF AtTime, IsParser, HasFields, ParserFields, CanRead
<1>5. AtTime(begun, q1, hour \div 24, hour % 24, hour)
  BY <1>4, StampedIs
<1>6. told = Feed(q1, line)
  BY DEF Read
<1> HIDE DEF q1
<1>7. q1.inSummary /\ q1.summary.closed = -1
  BY <1>1, <1>3, <1>5 DEF AtTime, IsParser, HasFields, ParserFields
<1>8. told = [q1 EXCEPT !.summary = sum]
  <2> HIDE DEF told
  <2>1. Feed(q1, line) = [q1 EXCEPT !.summary = sum]
    BY <1>7 DEF Feed, SummaryLine
  <2> QED
    BY <1>6, <2>1
<1> HIDE DEF told, sum, line
<1>9. IsParser(told)
  BY <1>5, <1>8 DEF AtTime, IsParser, HasFields, ParserFields
<1>10. AtTime(told, q2, hour \div 24, hour % 24, hour)
  BY <1>4, <1>9, StampedIs
<1>11. r = Feed(q2, Line("other"))
  BY DEF Read
<1> HIDE DEF q2, r
<1>12. r = q2
  BY <1>11 DEF Feed, Line
<1> DEFINE told0 == [p EXCEPT !.inSummary = TRUE, !.summary = sum]
<1>13. IsParser(p) /\ HasFields(q, ParserFields) /\ HasFields(q1, ParserFields)
  BY <1>1, <1>5 DEF AtTime, IsParser, CanRead
<1>14. /\ told.signals = p.signals /\ told.trades = p.trades /\ told.pending = p.pending /\ told.exiting = p.exiting
       /\ told.lastClosed = p.lastClosed /\ told.lastSignal = p.lastSignal /\ told.inSummary = TRUE /\ told.summary = sum
  BY <1>1, <1>3, <1>5, <1>8, <1>13 DEF AtTime, HasFields, ParserFields
<1>15. /\ told0.signals = p.signals /\ told0.trades = p.trades /\ told0.pending = p.pending /\ told0.exiting = p.exiting
       /\ told0.lastClosed = p.lastClosed /\ told0.lastSignal = p.lastSignal /\ told0.inSummary = TRUE /\ told0.summary = sum
  BY <1>13 DEF IsParser, HasFields, ParserFields
<1> HIDE DEF told0
<1>16. AtTime(told0, r, hour \div 24, hour % 24, hour)
  BY <1>10, <1>12, <1>14, <1>15 DEF AtTime
<1> QED
  BY <1>16 DEF told0, told, r, sum, line, begun

-----------------------------------------------------------------------------
\* The rows when a line opens one, changes the one under way, closes it, makes a closed one or drops it.
Unclosed(closed, no) == \A k \in DOMAIN closed : closed[k].no # no

LEMMA RowsOpened ==
  ASSUME NEW rows, NEW closed, RowsRead(rows, closed, None), NEW row \in Rows, Idle(row)
  PROVE  LET new == Append(rows, row)
             n == Len(rows) + 1
         IN RowsRead(new, closed, n) /\ n \in DOMAIN new /\ new[n] = row /\ n # None
<1> DEFINE new == Append(rows, row)
           n == Len(rows) + 1
<1>1. rows \in Seq(Rows)
  BY DEF RowsRead
<1>2. /\ new \in Seq(Rows) /\ DOMAIN new = DOMAIN rows \cup {n} /\ n \notin DOMAIN rows /\ n # None
      /\ new[n] = row /\ \A i \in DOMAIN rows : new[i] = rows[i]
  <2>1. n # None
    BY <1>1 DEF None
  <2> HIDE DEF Rows
  <2> QED
    BY <1>1, <2>1, SeqAdd
<1> HIDE DEF new, n
<1>3. \A i \in DOMAIN rows : rows[i].closed => \E k \in DOMAIN closed : IsRead(rows[i], closed[k])
  BY DEF RowsRead
<1>4. \A i, j \in DOMAIN new : new[i].no = new[j].no /\ new[i].no # None => i = j
  BY <1>2 DEF RowsRead, Idle
<1>5. \A k \in DOMAIN closed : \E i \in DOMAIN new : IsRead(new[i], closed[k])
  BY <1>2 DEF RowsRead
<1>6. \A i \in DOMAIN new : new[i].closed => \E k \in DOMAIN closed : IsRead(new[i], closed[k])
  BY <1>2, <1>3 DEF Idle
<1>7. \A i \in DOMAIN new : i # n /\ ~new[i].closed => Idle(new[i])
  <2>1. \A i \in DOMAIN rows : i # None
    BY <1>1 DEF None
  <2> QED
    BY <1>2, <2>1 DEF RowsRead
<1>8. Underway(new[n])
  BY <1>2 DEF Idle, Underway
<1> QED
  BY <1>2, <1>4, <1>5, <1>6, <1>7, <1>8 DEF RowsRead, new, n

LEMMA RowsPut ==
  ASSUME NEW rows, NEW closed, NEW mine, RowsRead(rows, closed, mine), mine # None, NEW row \in Rows, Underway(row),
         row.no \in {None, rows[mine].no} \/ Unclosed(closed, row.no)
  PROVE  LET new == [rows EXCEPT ![mine] = row]
         IN /\ RowsRead(new, closed, mine) /\ DOMAIN new = DOMAIN rows /\ new[mine] = row /\ mine \in DOMAIN rows
            /\ \A i \in DOMAIN rows : i # mine => new[i] = rows[i]
<1> DEFINE new == [rows EXCEPT ![mine] = row]
<1>1. rows \in Seq(Rows) /\ mine \in DOMAIN rows
  BY DEF RowsRead
<1>2. /\ new \in Seq(Rows) /\ DOMAIN new = DOMAIN rows /\ new[mine] = row
      /\ \A i \in DOMAIN rows : i # mine => new[i] = rows[i]
  <2> HIDE DEF Rows
  <2> QED
    BY <1>1, SeqPut
<1> HIDE DEF new
<1>3. \A i \in DOMAIN rows : i # mine => rows[i].no # row.no \/ row.no = None
  <2> SUFFICES ASSUME NEW i \in DOMAIN rows, i # mine, row.no # None, rows[i].no = row.no
               PROVE  FALSE
    OBVIOUS
  <2>1. rows[i].closed
    BY DEF RowsRead, Idle
  <2>3. PICK k \in DOMAIN closed : IsRead(rows[i], closed[k])
    BY <2>1 DEF RowsRead
  <2>2. ~Unclosed(closed, row.no)
    BY <2>3 DEF IsRead, Unclosed
  <2> QED
    BY <1>1, <2>2 DEF RowsRead
<1>4. \A i, j \in DOMAIN new : new[i].no = new[j].no /\ new[i].no # None => i = j
  BY <1>2, <1>3 DEF RowsRead
<1>5. \A k \in DOMAIN closed : \E i \in DOMAIN new : IsRead(new[i], closed[k])
  <2> SUFFICES ASSUME NEW k \in DOMAIN closed PROVE \E i \in DOMAIN new : IsRead(new[i], closed[k])
    OBVIOUS
  <2>1. PICK i \in DOMAIN rows : IsRead(rows[i], closed[k])
    BY DEF RowsRead
  <2>2. i # mine
    BY <2>1 DEF RowsRead, Underway, IsRead
  <2> QED
    BY <1>2, <2>1, <2>2
<1>6. \A i \in DOMAIN new : new[i].closed => \E k \in DOMAIN closed : IsRead(new[i], closed[k])
  BY <1>2 DEF RowsRead, Underway
<1>7. \A i \in DOMAIN new : i # mine /\ ~new[i].closed => Idle(new[i])
  BY <1>2 DEF RowsRead
<1> QED
  BY <1>1, <1>2, <1>4, <1>5, <1>6, <1>7 DEF RowsRead, new

LEMMA RowsDropped ==
  ASSUME NEW rows, NEW closed, NEW mine, RowsRead(rows, closed, mine), mine # None, Idle(rows[mine])
  PROVE  RowsRead(rows, closed, None)
  BY DEF RowsRead

LEMMA ClosedTradeIs ==
  ASSUME NEW closed \in Seq(ClosedTrades), NEW k \in DOMAIN closed
  PROVE  /\ closed[k].no \in Nat /\ closed[k].no # None /\ closed[k].side \in Sides /\ closed[k].entry \in Nat
         /\ closed[k].entry # None /\ closed[k].exit \in Nat /\ closed[k].exit # None /\ closed[k].totals \in BOOLEAN
<1>1. closed[k] \in ClosedTrades
  <2> HIDE DEF ClosedTrades
  <2> QED
    BY SeqAt
<1> QED
  BY <1>1 DEF ClosedTrades

\* The closed trades with one more.
LEMMA ClosedAdd ==
  ASSUME NEW closed \in Seq(ClosedTrades), NEW t \in ClosedTrades, NEW more, more = Append(closed, t),
         NEW c, c = Len(closed) + 1
  PROVE  /\ more \in Seq(ClosedTrades) /\ DOMAIN more = DOMAIN closed \cup {c} /\ c \notin DOMAIN closed
         /\ more[c] = t /\ Len(more) = c /\ \A k \in DOMAIN closed : more[k] = closed[k]
<1> HIDE DEF ClosedTrades
<1> QED
  BY SeqAdd

LEMMA RowsClosed ==
  ASSUME NEW rows, NEW closed, NEW mine, RowsRead(rows, closed, mine), mine # None, NEW row \in Rows,
         NEW t \in ClosedTrades, IsRead(row, t), Unclosed(closed, t.no)
  PROVE  LET new == [rows EXCEPT ![mine] = row]
         IN /\ RowsRead(new, Append(closed, t), None) /\ DOMAIN new = DOMAIN rows /\ new[mine] = row
            /\ mine \in DOMAIN rows /\ \A i \in DOMAIN rows : i # mine => new[i] = rows[i]
<1> DEFINE new == [rows EXCEPT ![mine] = row]
           more == Append(closed, t)
           c == Len(closed) + 1
<1>1. rows \in Seq(Rows) /\ closed \in Seq(ClosedTrades) /\ mine \in DOMAIN rows
  BY DEF RowsRead
<1>2. /\ new \in Seq(Rows) /\ DOMAIN new = DOMAIN rows /\ new[mine] = row
      /\ \A i \in DOMAIN rows : i # mine => new[i] = rows[i]
  <2> HIDE DEF Rows
  <2> QED
    BY <1>1, SeqPut
<1>3. /\ more \in Seq(ClosedTrades) /\ DOMAIN more = DOMAIN closed \cup {c} /\ c \notin DOMAIN closed /\ more[c] = t
      /\ \A k \in DOMAIN closed : more[k] = closed[k]
  BY <1>1, ClosedAdd
<1> HIDE DEF c, new, more
<1>4. row.no = t.no /\ row.closed /\ row.no # None
  BY DEF IsRead, ClosedTrades
<1>5. \A i \in DOMAIN rows : i # mine => rows[i].no # row.no
  <2> SUFFICES ASSUME NEW i \in DOMAIN rows, i # mine, rows[i].no = row.no
               PROVE  FALSE
    OBVIOUS
  <2>1. rows[i].closed
    BY <1>4 DEF RowsRead, Idle
  <2>2. PICK k \in DOMAIN closed : IsRead(rows[i], closed[k])
    BY <2>1 DEF RowsRead
  <2> QED
    BY <1>4, <2>2 DEF IsRead, Unclosed
<1>6. \A i, j \in DOMAIN new : new[i].no = new[j].no /\ new[i].no # None => i = j
  BY <1>2, <1>5 DEF RowsRead
<1>7. \A k, l \in DOMAIN more : more[k].no = more[l].no => k = l
  BY <1>3 DEF RowsRead, Unclosed
<1>8. \A k \in DOMAIN more : \E i \in DOMAIN new : IsRead(new[i], more[k])
  <2> SUFFICES ASSUME NEW k \in DOMAIN more, k # c PROVE \E i \in DOMAIN new : IsRead(new[i], more[k])
    BY <1>1, <1>2, <1>3
  <2>1. PICK i \in DOMAIN rows : IsRead(rows[i], closed[k])
    BY <1>3 DEF RowsRead
  <2>2. i # mine
    BY <2>1 DEF RowsRead, Underway, IsRead
  <2> QED
    BY <1>2, <1>3, <2>1, <2>2
<1>9. \A i \in DOMAIN new : new[i].closed => \E k \in DOMAIN more : IsRead(new[i], more[k])
  <2> SUFFICES ASSUME NEW i \in DOMAIN new, new[i].closed PROVE \E k \in DOMAIN more : IsRead(new[i], more[k])
    OBVIOUS
  <2>1. CASE i = mine
    BY <1>2, <1>3, <2>1
  <2>2. CASE i # mine
    <3>1. new[i] = rows[i] /\ rows[i].closed
      BY <1>2, <2>2
    <3>2. PICK k \in DOMAIN closed : IsRead(rows[i], closed[k])
      BY <1>2, <3>1 DEF RowsRead
    <3>3. k \in DOMAIN more /\ IsRead(new[i], more[k])
      BY <1>3, <3>1, <3>2
    <3> QED
      BY <3>3
  <2> QED
    BY <2>1, <2>2
<1>10. \A i \in DOMAIN new : i # None /\ ~new[i].closed => Idle(new[i])
  BY <1>2, <1>4 DEF RowsRead
<1> QED
  BY <1>2, <1>3, <1>6, <1>7, <1>8, <1>9, <1>10, <1>1 DEF RowsRead, new, more

LEMMA RowsMade ==
  ASSUME NEW rows, NEW closed, RowsRead(rows, closed, None), NEW row \in Rows,
         NEW t \in ClosedTrades, IsRead(row, t), Unclosed(closed, t.no)
  PROVE  LET new == Append(rows, row)
         IN /\ RowsRead(new, Append(closed, t), None) /\ DOMAIN new = DOMAIN rows \cup {Len(rows) + 1}
            /\ \A i \in DOMAIN rows : new[i] = rows[i]
<1> DEFINE new == Append(rows, row)
           more == Append(closed, t)
           c == Len(closed) + 1
           n == Len(rows) + 1
<1>1. rows \in Seq(Rows) /\ closed \in Seq(ClosedTrades)
  BY DEF RowsRead
<1>2. /\ new \in Seq(Rows) /\ DOMAIN new = DOMAIN rows \cup {n} /\ n \notin DOMAIN rows /\ new[n] = row
      /\ \A i \in DOMAIN rows : new[i] = rows[i]
  <2> HIDE DEF Rows
  <2> QED
    BY <1>1, SeqAdd
<1>3. /\ more \in Seq(ClosedTrades) /\ DOMAIN more = DOMAIN closed \cup {c} /\ c \notin DOMAIN closed /\ more[c] = t
      /\ \A k \in DOMAIN closed : more[k] = closed[k]
  BY <1>1, ClosedAdd
<1> HIDE DEF c, n, new, more
<1>4. row.no = t.no /\ row.closed /\ row.no # None
  BY DEF IsRead, ClosedTrades
<1>11. \A i \in DOMAIN rows : i # None
  BY <1>1 DEF None
<1>5. \A i \in DOMAIN rows : rows[i].no # row.no
  <2> SUFFICES ASSUME NEW i \in DOMAIN rows, rows[i].no = row.no
               PROVE  FALSE
    OBVIOUS
  <2>1. rows[i].closed
    BY <1>4, <1>11 DEF RowsRead, Idle
  <2>2. PICK k \in DOMAIN closed : IsRead(rows[i], closed[k])
    BY <2>1 DEF RowsRead
  <2> QED
    BY <1>4, <2>2 DEF IsRead, Unclosed
<1>6. \A i, j \in DOMAIN new : new[i].no = new[j].no /\ new[i].no # None => i = j
  BY <1>2, <1>5 DEF RowsRead
<1>7. \A k, l \in DOMAIN more : more[k].no = more[l].no => k = l
  BY <1>3 DEF RowsRead, Unclosed
<1>8. \A k \in DOMAIN more : \E i \in DOMAIN new : IsRead(new[i], more[k])
  <2> SUFFICES ASSUME NEW k \in DOMAIN more, k # c PROVE \E i \in DOMAIN new : IsRead(new[i], more[k])
    BY <1>2, <1>3
  <2>1. PICK i \in DOMAIN rows : IsRead(rows[i], closed[k])
    BY <1>3 DEF RowsRead
  <2> QED
    BY <1>2, <1>3, <2>1
<1>9. \A i \in DOMAIN new : new[i].closed => \E k \in DOMAIN more : IsRead(new[i], more[k])
  <2> SUFFICES ASSUME NEW i \in DOMAIN new, new[i].closed PROVE \E k \in DOMAIN more : IsRead(new[i], more[k])
    OBVIOUS
  <2>1. CASE i = n
    BY <1>2, <1>3, <2>1
  <2>2. CASE i # n
    <3>1. i \in DOMAIN rows /\ new[i] = rows[i] /\ rows[i].closed
      BY <1>2, <2>2
    <3>2. PICK k \in DOMAIN closed : IsRead(rows[i], closed[k])
      BY <3>1 DEF RowsRead
    <3>3. k \in DOMAIN more /\ IsRead(new[i], more[k])
      BY <1>3, <3>1, <3>2
    <3> QED
      BY <3>3
  <2> QED
    BY <2>1, <2>2
<1>10. \A i \in DOMAIN new : i # None /\ ~new[i].closed => Idle(new[i])
  BY <1>2, <1>4, <1>11 DEF RowsRead
<1> QED
  BY <1>2, <1>3, <1>6, <1>7, <1>8, <1>9, <1>10 DEF RowsRead, n, new, more

\* The first trade of a number the engine has not closed is the one under way, once it is known by it.
LEMMA TradeOfIs ==
  ASSUME NEW rows, NEW closed, NEW mine, RowsRead(rows, closed, mine), NEW no, no # None, Unclosed(closed, no),
         NEW p, p.trades = rows
  PROVE  /\ mine # None /\ rows[mine].no = no => TradeOf(p, no) = mine
         /\ mine = None \/ rows[mine].no # no => TradeOf(p, no) = None
<1> DEFINE found == {i \in DOMAIN rows : rows[i].no = no}
<1>1. rows \in Seq(Rows) /\ (mine # None => mine \in DOMAIN rows)
  BY DEF RowsRead
<1>2. \A i \in found : i = mine
  <2> SUFFICES ASSUME NEW i \in DOMAIN rows, rows[i].no = no, i # mine PROVE FALSE
    OBVIOUS
  <2>1. rows[i].closed
    BY DEF RowsRead, Idle
  <2> QED
    BY <2>1 DEF RowsRead, IsRead, Unclosed
<1>3. found \in SUBSET Nat
  BY <1>1
<1>4. TradeOf(p, no) = IF found = {} THEN None ELSE Min(found)
  BY DEF TradeOf
<1>5. found # {} => mine # None
  BY <1>1, <1>2 DEF None
<1>6. mine \in found <=> mine # None /\ rows[mine].no = no
  BY <1>1, <1>5
<1> HIDE DEF found
<1>7. found # {} => Min(found) = mine
  BY <1>2, <1>3, MinIn
<1> QED
  BY <1>2, <1>4, <1>6, <1>7

-----------------------------------------------------------------------------
\* What each line leaves of what is told.
LEMMA PricesPositive ==
  ASSUME NEW px \in Prices
  PROVE  px \in Nat /\ px # None
  BY PaperAssumption

LEMMA ParserReadable ==
  ASSUME PaperInv, engine.phase # "closing"
  PROVE  CanRead(parsed) /\ ~parsed.inSummary /\ parsed.summary.closed = -1
  BY DEF PaperInv, SummaryRead, CanRead

LEMMA ReadKeeps ==
  ASSUME PaperInv, engine.phase # "closing", engine'.phase # "closing", hour' = hour,
         HasFields(wrote', {"trades", "triggers", "deaths"}),
         NEW rows, NEW pending, NEW exiting, NEW lastClosed, ReadAs(parsed, parsed', rows, pending, exiting, lastClosed),
         Told(engine', closedTrades', wrote'.trades, rows, pending, exiting, lastClosed)
  PROVE  PaperInv'
<1>1. ~parsed.inSummary /\ parsed.summary.closed = -1 /\ hour \in Nat
  BY DEF PaperInv, SummaryRead
<1>2. IsParser(parsed') /\ parsed'.lastSignal \in {None} \cup DOMAIN parsed'.signals
  BY DEF ReadAs
<1>3. SummaryRead'
  BY <1>1 DEF SummaryRead, ReadAs
<1>4. ClockRight'
  <2>1. hour % 24 # -1
    BY <1>1, HourIs
  <2> QED
    BY <2>1 DEF ClockRight, StampsTell, ReadAs
<1>5. Told(engine', closedTrades', wrote'.trades, parsed'.trades, parsed'.pending, parsed'.exiting, parsed'.lastClosed)
  BY DEF ReadAs
<1> QED
  BY <1>1, <1>2, <1>3, <1>4, <1>5 DEF PaperInv

\* Another engine in the same place with the trade under way.
LEMMA ToldSame ==
  ASSUME NEW e, NEW closed, NEW trades, NEW rows, NEW pending, NEW exiting, NEW lastClosed,
         Told(e, closed, trades, rows, pending, exiting, lastClosed),
         NEW f, IsEngine(f), f.phase \in {"flat", "signalled"}, f.no = None,
         e.phase \in {"flat", "signalled", "entering"}
  PROVE  Told(f, closed, trades, rows, pending, exiting, lastClosed)
<1>1. PICK mine \in {None} \cup DOMAIN rows : RowsRead(rows, closed, mine) /\ Followed(e, rows, pending, exiting, mine)
  BY DEF Told
<1>2. RowsRead(rows, closed, None) /\ exiting = None
  <2>1. CASE mine = None
    BY <1>1, <2>1 DEF Followed
  <2>2. CASE mine # None
    <3>1. Idle(rows[mine]) /\ exiting = None
      BY <1>1, <2>2 DEF Followed
    <3> QED
      BY <1>1, <2>2, <3>1, RowsDropped
  <2> QED
    BY <2>1, <2>2
<1>3. Followed(f, rows, pending, exiting, None)
  BY <1>2 DEF Followed
<1>4. NumbersKnown(f, closed, trades)
  <2>1. closed \in Seq(ClosedTrades)
    BY <1>1 DEF RowsRead
  <2>2. \A k \in DOMAIN closed : closed[k].no # None
    BY <2>1, ClosedTradeIs
  <2> QED
    BY <2>2 DEF Told, NumbersKnown
<1>5. EngineIs(f, trades)
  BY DEF EngineIs, Trading
<1> QED
  BY <1>2, <1>3, <1>4, <1>5 DEF Told

LEMMA FlatIs ==
  /\ IsEngine(Flat) /\ Flat.phase = "flat" /\ Flat.no = None
  /\ \A side \in Sides : LET e == [Flat EXCEPT !.phase = "signalled", !.side = side]
                         IN IsEngine(e) /\ e.phase = "signalled" /\ e.no = None
  BY DEF Flat, IsEngine, HasFields, Trading, Sides, None

LEMMA TriggerKeeps ==
  ASSUME PaperInv, NEW bar \in SignalBars, NEW side \in Sides, NEW pass \in BOOLEAN, WriteTrigger(bar, side, pass)
  PROVE  PaperInv'
<1>1. /\ engine.phase = "flat" /\ hour' = hour /\ closedTrades' = closedTrades
      /\ engine' = IF pass THEN [Flat EXCEPT !.phase = "signalled", !.side = side] ELSE engine
      /\ wrote' = [wrote EXCEPT !.triggers = @ + 1]
      /\ parsed' = Read(parsed, [tag |-> "trigger", bar |-> bar, side |-> side, pass |-> pass])
  BY DEF WriteTrigger, Write
<1>2. CanRead(parsed)
  BY <1>1, ParserReadable
<1>3. ReadAs(parsed, parsed', parsed.trades, parsed.pending, parsed.exiting, parsed.lastClosed)
  BY <1>1, <1>2, ReadTrigger
<1>4. HasFields(wrote', {"trades", "triggers", "deaths"}) /\ wrote'.trades = wrote.trades
  BY <1>1 DEF PaperInv, HasFields
<1>5. Told(engine, closedTrades, wrote.trades, parsed.trades, parsed.pending, parsed.exiting, parsed.lastClosed)
  BY DEF PaperInv
<1>6. IsEngine(engine') /\ engine'.phase \in {"flat", "signalled"} /\ engine'.no = None
  BY <1>1, <1>5, FlatIs DEF Told, EngineIs, Followed
<1>7. Told(engine', closedTrades, wrote.trades, parsed.trades, parsed.pending, parsed.exiting, parsed.lastClosed)
  BY <1>1, <1>5, <1>6, ToldSame
<1> QED
  BY <1>1, <1>3, <1>4, <1>6, <1>7, ReadKeeps

LEMMA NoEntriesKeeps ==
  ASSUME PaperInv, WriteNoEntries
  PROVE  PaperInv'
<1>1. PICK why \in {"loss cap", "cutoff"} : parsed' = Read(parsed, [tag |-> "no entries", why |-> why])
  BY DEF WriteNoEntries, Write
<1>2. engine.phase = "signalled" /\ hour' = hour /\ closedTrades' = closedTrades /\ engine' = Flat /\ wrote' = wrote
  BY DEF WriteNoEntries
<1>3. CanRead(parsed)
  BY <1>2, ParserReadable
<1>4. ReadAs(parsed, parsed', parsed.trades, parsed.pending, parsed.exiting, parsed.lastClosed)
  BY <1>1, <1>3, ReadNoEntries
<1>5. Told(engine, closedTrades, wrote.trades, parsed.trades, parsed.pending, parsed.exiting, parsed.lastClosed)
  BY DEF PaperInv
<1>6. Told(engine', closedTrades, wrote.trades, parsed.trades, parsed.pending, parsed.exiting, parsed.lastClosed)
  BY <1>2, <1>5, FlatIs, ToldSame
<1>7. HasFields(wrote', {"trades", "triggers", "deaths"}) /\ wrote'.trades = wrote.trades
  BY <1>2 DEF PaperInv
<1> QED
  BY <1>2, <1>4, <1>6, <1>7, FlatIs, ReadKeeps

\* An entry's row.
EntryOf(side, bar) == [NewTrade(side, None) EXCEPT !.bar = bar]

LEMMA EntryOfIs ==
  ASSUME NEW side \in Sides, NEW bar \in SignalBars \cup {None}
  PROVE  EntryOf(side, bar) \in Rows /\ Idle(EntryOf(side, bar)) /\ EntryOf(side, bar).side = side
<1> DEFINE made == NewTrade(side, None)
           row == EntryOf(side, bar)
<1>1. /\ HasFields(made, RowFields) /\ made.side = side /\ made.no = None /\ made.entry = None /\ made.exit = None
      /\ made.reason = "none" /\ made.net = <<>> /\ made.closed = FALSE
  BY DEF NewTrade, HasFields, RowFields
<1>2. row = [made EXCEPT !.bar = bar]
  BY DEF EntryOf
<1> HIDE DEF made, row
<1>3. /\ HasFields(row, RowFields) /\ row.side = side /\ row.no = None /\ row.entry = None /\ row.exit = None
      /\ row.reason = "none" /\ row.net = <<>> /\ row.closed = FALSE /\ row.bar = bar
  BY <1>1, <1>2 DEF HasFields, RowFields
<1>4. None \in Nat /\ <<>> \in Seq(Int)
  BY DEF None
<1>5. IsRow(row)
  BY <1>3, <1>4 DEF IsRow
<1> QED
  BY <1>3, <1>5, RowIs DEF Idle, row

LEMMA EntryTold ==
  ASSUME NEW e, NEW closed, NEW trades, NEW rows, NEW pending, NEW exiting, NEW lastClosed,
         Told(e, closed, trades, rows, pending, exiting, lastClosed), e.phase = "signalled", trades < MaxPaperTrades,
         NEW bar \in SignalBars \cup {None}
  PROVE  Told([e EXCEPT !.phase = "entering", !.no = trades + 1], closed, trades + 1,
              Append(rows, EntryOf(e.side, bar)), Len(rows) + 1, exiting, lastClosed)
<1> DEFINE row == EntryOf(e.side, bar)
           f == [e EXCEPT !.phase = "entering", !.no = trades + 1]
           new == Append(rows, row)
           n == Len(rows) + 1
<1>1. PICK mine \in {None} \cup DOMAIN rows : RowsRead(rows, closed, mine) /\ Followed(e, rows, pending, exiting, mine)
  BY DEF Told
<1>2. RowsRead(rows, closed, None) /\ exiting = None
  BY <1>1 DEF Followed
<1>3. IsEngine(e) /\ trades \in Nat /\ trades + 1 \in 1 .. MaxPaperTrades
  BY PaperAssumption DEF Told, EngineIs
<1>4. IsEngine(f) /\ f.phase = "entering" /\ f.no = trades + 1 /\ f.side = e.side /\ e.side \in Sides
  <2> DEFINE Fields == {"phase", "no", "side", "entry", "exit"}
             no == trades + 1
  <2>1. no \in Nat
    BY <1>3
  <2>2. f = [e EXCEPT !.phase = "entering", !.no = no]
    OBVIOUS
  <2> HIDE DEF no
  <2>3. HasFields(e, Fields)
    BY <1>3 DEF IsEngine
  <2>4. HasFields(f, Fields) /\ f.phase = "entering" /\ f.no = no /\ f.side = e.side /\ f.entry = e.entry /\ f.exit = e.exit
    BY <2>2, <2>3 DEF HasFields
  <2>5. f.no = trades + 1
    BY <2>4 DEF no
  <2> QED
    BY <1>3, <2>1, <2>4, <2>5 DEF IsEngine
<1>5. row \in Rows /\ Idle(row) /\ row.side = e.side
  BY <1>4, EntryOfIs
<1> HIDE DEF row, f
<1>6. new = Append(rows, row)
  OBVIOUS
<1>7. RowsRead(new, closed, n) /\ n \in DOMAIN new /\ new[n] = row /\ n # None
  BY <1>2, <1>5, RowsOpened
<1> HIDE DEF new, n
<1>8. Followed(f, new, n, exiting, n)
  BY <1>2, <1>4, <1>5, <1>7 DEF Followed
<1>9. EngineIs(f, trades + 1)
  BY <1>3, <1>4 DEF EngineIs, Trading
<1>10. NumbersKnown(f, closed, trades + 1)
  BY <1>3, <1>4 DEF Told, NumbersKnown
<1>11. lastClosed \in {None} \cup DOMAIN new
  <2>1. DOMAIN rows \subseteq DOMAIN new
    <3>1. rows \in Seq(Rows)
      BY <1>2 DEF RowsRead
    <3> HIDE DEF Rows
    <3> QED
      BY <1>5, <1>6, <3>1, SeqAdd
  <2> QED
    BY <2>1 DEF Told
<1> QED
  BY <1>3, <1>5, <1>7, <1>8, <1>9, <1>10, <1>11 DEF Told, Idle, f, new, n, row

LEMMA EntryKeeps ==
  ASSUME PaperInv, WriteEntry
  PROVE  PaperInv'
<1>1. /\ engine.phase = "signalled" /\ wrote.trades < MaxPaperTrades /\ hour' = hour /\ closedTrades' = closedTrades
      /\ engine' = [engine EXCEPT !.phase = "entering", !.no = wrote.trades + 1]
      /\ wrote' = [wrote EXCEPT !.trades = @ + 1] /\ parsed' = Read(parsed, [tag |-> "entry", side |-> engine.side])
  BY DEF WriteEntry, Write
<1>2. CanRead(parsed)
  BY <1>1, ParserReadable
<1>3. HasFields(wrote', {"trades", "triggers", "deaths"}) /\ wrote'.trades = wrote.trades + 1
  BY <1>1 DEF PaperInv, HasFields
<1>4. Told(engine, closedTrades, wrote.trades, parsed.trades, parsed.pending, parsed.exiting, parsed.lastClosed)
  BY DEF PaperInv
<1>5. engine.side \in Sides /\ IsEngine(engine)
  BY <1>4 DEF Told, EngineIs, IsEngine
<1>6. Len(parsed.trades) \in Nat
  BY <1>4 DEF Told, RowsRead
<1>7. PICK bar \in SignalBars \cup {None} :
        ReadAs(parsed, parsed', Append(parsed.trades, EntryOf(engine.side, bar)),
               Len(parsed.trades) + 1, parsed.exiting, parsed.lastClosed)
  BY <1>1, <1>2, <1>5, <1>6, ReadEntry DEF EntryOf
<1>8. Told(engine', closedTrades', wrote'.trades, Append(parsed.trades, EntryOf(engine.side, bar)),
           Len(parsed.trades) + 1, parsed.exiting, parsed.lastClosed)
  BY <1>1, <1>3, <1>4, EntryTold
<1>9. engine'.phase # "closing"
  BY <1>1, <1>5 DEF IsEngine, HasFields
<1> QED
  BY <1>1, <1>3, <1>7, <1>8, <1>9, ReadKeeps

\* A row with some of its fields set.
SameElse(q, r, entry, exit, no, net, closed) ==
  /\ q \in Rows /\ q.side = r.side /\ q.entry = entry /\ q.exit = exit /\ q.no = no /\ q.net = net /\ q.closed = closed

LEMMA RowEntry ==
  ASSUME NEW r \in Rows, NEW x \in Nat
  PROVE  SameElse([r EXCEPT !.entry = x], r, x, r.exit, r.no, r.net, r.closed)
<1>1. IsRow(r)
  BY RowIs
<1> DEFINE q == [r EXCEPT !.entry = x]
<1>3. IsRow(q)
  BY <1>1 DEF IsRow, HasFields, RowFields
<1>4. q \in Rows
  BY <1>3, RowIs
<1> QED
  BY <1>1, <1>4 DEF SameElse, IsRow, HasFields, RowFields

LEMMA RowExit ==
  ASSUME NEW r \in Rows, NEW x \in Nat
  PROVE  SameElse([r EXCEPT !.exit = x], r, r.entry, x, r.no, r.net, r.closed)
<1>1. IsRow(r)
  BY RowIs
<1> DEFINE q == [r EXCEPT !.exit = x]
<1>3. IsRow(q)
  BY <1>1 DEF IsRow, HasFields, RowFields
<1>4. q \in Rows
  BY <1>3, RowIs
<1> QED
  BY <1>1, <1>4 DEF SameElse, IsRow, HasFields, RowFields

LEMMA RowNet ==
  ASSUME NEW r \in Rows, NEW x \in Int
  PROVE  SameElse([r EXCEPT !.net = <<x>>], r, r.entry, r.exit, r.no, <<x>>, r.closed)
<1> DEFINE net == <<x>>
           q == [r EXCEPT !.net = net]
<1>1. IsRow(r) /\ net \in Seq(Int)
  BY RowIs
<1> HIDE DEF net
<1>3. IsRow(q)
  BY <1>1 DEF IsRow, HasFields, RowFields
<1>4. q \in Rows
  BY <1>3, RowIs
<1>5. SameElse(q, r, r.entry, r.exit, r.no, net, r.closed)
  BY <1>1, <1>4 DEF SameElse, IsRow, HasFields, RowFields
<1> QED
  BY <1>5 DEF net

LEMMA RowBooked ==
  ASSUME NEW r \in Rows, NEW no \in Nat, NEW px \in Nat
  PROVE  SameElse(EntryRow(r, FilledLine(no, px)), r, OrElse(r.entry, px), r.exit, no, r.net, r.closed)
<1> DEFINE entry == OrElse(r.entry, px)
           q == [r EXCEPT !.entry = entry, !.no = no]
<1>1. IsRow(r)
  BY RowIs
<1>2. entry \in Nat /\ EntryRow(r, FilledLine(no, px)) = q
  BY <1>1 DEF OrElse, IsRow, EntryRow, FilledLine
<1> HIDE DEF entry
<1>3. IsRow(q)
  BY <1>1, <1>2 DEF IsRow, HasFields, RowFields
<1>4. q \in Rows
  BY <1>3, RowIs
<1>5. SameElse(q, r, entry, r.exit, no, r.net, r.closed)
  BY <1>1, <1>4 DEF SameElse, IsRow, HasFields, RowFields
<1> HIDE DEF q
<1> QED
  BY <1>2, <1>5 DEF entry

LEMMA RowLeft ==
  ASSUME NEW r \in Rows, NEW no \in Nat, NEW px \in Nat
  PROVE  SameElse(ExitRow(r, FilledLine(no, px)), r, r.entry, OrElse(r.exit, px), no, r.net, r.closed)
<1> DEFINE exit == OrElse(r.exit, px)
           q == [r EXCEPT !.exit = exit, !.no = no]
<1>1. IsRow(r)
  BY RowIs
<1>2. exit \in Nat /\ ExitRow(r, FilledLine(no, px)) = q
  BY <1>1 DEF OrElse, IsRow, ExitRow, FilledLine
<1> HIDE DEF exit
<1>3. IsRow(q)
  BY <1>1, <1>2 DEF IsRow, HasFields, RowFields
<1>4. q \in Rows
  BY <1>3, RowIs
<1>5. SameElse(q, r, r.entry, exit, no, r.net, r.closed)
  BY <1>1, <1>4 DEF SameElse, IsRow, HasFields, RowFields
<1> HIDE DEF q
<1> QED
  BY <1>2, <1>5 DEF exit

LEMMA RowLeaving ==
  ASSUME NEW r \in Rows, NEW no \in Nat, NEW reason \in {"stop", "signal"}
  PROVE  SameElse(LeavingRow(r, ExitLine(no, reason)), r, r.entry, r.exit, OrElse(r.no, no), r.net, r.closed)
<1> DEFINE known == OrElse(r.no, no)
           q == [r EXCEPT !.no = known, !.reason = reason]
<1>1. IsRow(r)
  BY RowIs
<1>2. known \in Nat /\ LeavingRow(r, ExitLine(no, reason)) = q
  BY <1>1 DEF OrElse, IsRow, LeavingRow, ExitLine
<1> HIDE DEF known
<1>3. IsRow(q)
  BY <1>1, <1>2 DEF IsRow, HasFields, RowFields
<1>4. q \in Rows
  BY <1>3, RowIs
<1>5. SameElse(q, r, r.entry, r.exit, known, r.net, r.closed)
  BY <1>1, <1>4 DEF SameElse, IsRow, HasFields, RowFields
<1> HIDE DEF q
<1> QED
  BY <1>2, <1>5 DEF known

LEMMA RowClosed ==
  ASSUME NEW r \in Rows, NEW t, t.entry \in Nat, t.exit \in Nat
  PROVE  SameElse(ClosedRow(r, t), r, OrElse(r.entry, t.entry), OrElse(r.exit, t.exit), r.no, r.net, TRUE)
<1> DEFINE entry == OrElse(r.entry, t.entry)
           exit == OrElse(r.exit, t.exit)
           q == [r EXCEPT !.entry = entry, !.exit = exit, !.closed = TRUE]
<1>1. IsRow(r)
  BY RowIs
<1>2. entry \in Nat /\ exit \in Nat /\ ClosedRow(r, t) = q
  BY <1>1 DEF OrElse, IsRow, ClosedRow
<1> HIDE DEF entry, exit
<1>3. IsRow(q)
  BY <1>1, <1>2 DEF IsRow, HasFields, RowFields
<1>4. q \in Rows
  BY <1>3, RowIs
<1>5. SameElse(q, r, entry, exit, r.no, r.net, TRUE)
  BY <1>1, <1>4 DEF SameElse, IsRow, HasFields, RowFields
<1> HIDE DEF q
<1> QED
  BY <1>2, <1>5 DEF entry, exit

\* One row, that of the trade under way, is put in place of the one there was.
Put(rows, i, row) == [rows EXCEPT ![i] = row]

LEMMA PutTold ==
  ASSUME NEW e, NEW closed, NEW trades, NEW rows, NEW pending, NEW exiting, NEW lastClosed,
         Told(e, closed, trades, rows, pending, exiting, lastClosed),
         NEW mine, RowsRead(rows, closed, mine), mine # None,
         NEW row \in Rows, Underway(row), row.no \in {None, rows[mine].no, e.no},
         NEW f, EngineIs(f, trades), f.no = e.no, NEW waiting, waiting # None => waiting = mine /\ row.no = None,
         NEW leaving, Followed(f, Put(rows, mine, row), waiting, leaving, mine)
  PROVE  Told(f, closed, trades, Put(rows, mine, row), waiting, leaving, lastClosed)
<1>1. row.no \in {None, rows[mine].no} \/ Unclosed(closed, row.no)
  BY DEF Told, NumbersKnown, Unclosed
<1> DEFINE new == Put(rows, mine, row)
<1>2. RowsRead(new, closed, mine) /\ DOMAIN new = DOMAIN rows /\ new[mine] = row /\ mine \in DOMAIN rows
  BY <1>1, RowsPut DEF Put
<1> HIDE DEF new
<1>3. NumbersKnown(f, closed, trades)
  BY DEF Told, NumbersKnown
<1>4. Followed(f, new, waiting, leaving, mine)
  BY DEF new
<1>5. Told(f, closed, trades, new, waiting, leaving, lastClosed)
  BY <1>2, <1>3, <1>4 DEF Told
<1> QED
  BY <1>5 DEF new

\* The engine is somewhere else with the trade under way, and the rows stay.
LEMMA MoveTold ==
  ASSUME NEW e, NEW closed, NEW trades, NEW rows, NEW pending, NEW exiting, NEW lastClosed,
         Told(e, closed, trades, rows, pending, exiting, lastClosed),
         NEW mine \in {None} \cup DOMAIN rows, RowsRead(rows, closed, mine),
         NEW f, EngineIs(f, trades), f.no = e.no, Followed(f, rows, pending, exiting, mine)
  PROVE  Told(f, closed, trades, rows, pending, exiting, lastClosed)
  BY DEF Told, NumbersKnown

LEMMA EngineEntered ==
  ASSUME NEW e, NEW trades, EngineIs(e, trades), NEW px \in Nat \ {None}, e.phase = "entering"
  PROVE  LET f == [e EXCEPT !.phase = "entered", !.entry = px]
         IN EngineIs(f, trades) /\ f.phase = "entered" /\ f.entry = px /\ f.no = e.no /\ f.side = e.side
  BY DEF EngineIs, IsEngine, HasFields, Trading

LEMMA EngineHeld ==
  ASSUME NEW e, NEW trades, EngineIs(e, trades), NEW px \in Nat \ {None}, e.phase = "entering"
  PROVE  LET f == [e EXCEPT !.phase = "held", !.entry = px]
         IN EngineIs(f, trades) /\ f.phase = "held" /\ f.entry = px /\ f.no = e.no /\ f.side = e.side
  BY DEF EngineIs, IsEngine, HasFields, Trading

LEMMA EngineLeft ==
  ASSUME NEW e, NEW trades, EngineIs(e, trades), NEW px \in Nat \ {None}, e.phase = "exiting"
  PROVE  LET f == [e EXCEPT !.phase = "left", !.exit = px]
         IN /\ EngineIs(f, trades) /\ f.phase = "left" /\ f.entry = e.entry /\ f.no = e.no
            /\ f.side = e.side /\ f.exit = px
  BY DEF EngineIs, IsEngine, HasFields, Trading

LEMMA EngineMoved ==
  ASSUME NEW e, NEW trades, EngineIs(e, trades), e.phase \in Trading, NEW phase \in {"held", "exiting", "booked"},
         phase = "booked" => e.phase = "left"
  PROVE  LET f == [e EXCEPT !.phase = phase]
         IN /\ EngineIs(f, trades) /\ f.phase = phase /\ f.entry = e.entry /\ f.no = e.no /\ f.side = e.side
            /\ f.exit = e.exit
  BY DEF EngineIs, IsEngine, HasFields, Trading

LEMMA FillTold ==
  ASSUME NEW e, NEW closed, NEW trades, NEW rows, NEW pending, NEW exiting, NEW lastClosed,
         Told(e, closed, trades, rows, pending, exiting, lastClosed), NEW px \in Nat \ {None}
  PROVE  /\ e.phase = "entering" =>
              /\ pending # None /\ rows[pending].entry = None
              /\ Told([e EXCEPT !.phase = "entered", !.entry = px], closed, trades,
                      [rows EXCEPT ![pending].entry = px], pending, exiting, lastClosed)
         /\ e.phase = "exiting" /\ exiting # None =>
              /\ pending = None /\ rows[exiting].exit = None
              /\ Told([e EXCEPT !.phase = "left", !.exit = px], closed, trades,
                      [rows EXCEPT ![exiting].exit = px], pending, exiting, lastClosed)
         /\ e.phase = "exiting" /\ exiting = None =>
              /\ pending = None
              /\ Told([e EXCEPT !.phase = "left", !.exit = px], closed, trades, rows, pending, exiting, lastClosed)
<1>1. PICK mine \in {None} \cup DOMAIN rows : RowsRead(rows, closed, mine) /\ Followed(e, rows, pending, exiting, mine)
  BY DEF Told
<1>2. EngineIs(e, trades)
  BY DEF Told
<1>3. mine # None => rows[mine] \in Rows /\ Underway(rows[mine])
  <2>1. rows \in Seq(Rows) /\ (mine # None => mine \in DOMAIN rows /\ Underway(rows[mine]))
    BY <1>1 DEF RowsRead
  <2> HIDE DEF Rows
  <2> QED
    BY <2>1, SeqAt
<1>4. \A i \in DOMAIN rows : /\ [rows EXCEPT ![i].entry = px] = Put(rows, i, [rows[i] EXCEPT !.entry = px])
                             /\ [rows EXCEPT ![i].exit = px] = Put(rows, i, [rows[i] EXCEPT !.exit = px])
  BY DEF Put
<1>5. ASSUME e.phase = "entering"
      PROVE  /\ pending # None /\ rows[pending].entry = None
             /\ Told([e EXCEPT !.phase = "entered", !.entry = px], closed, trades,
                      [rows EXCEPT ![pending].entry = px], pending, exiting, lastClosed)
  <2> DEFINE f == [e EXCEPT !.phase = "entered", !.entry = px]
             row == [rows[mine] EXCEPT !.entry = px]
             new == Put(rows, mine, row)
  <2>1. mine # None /\ mine = pending /\ exiting = None /\ Idle(rows[mine]) /\ rows[mine].side = e.side
    BY <1>1, <1>5 DEF Followed
  <2>2. EngineIs(f, trades) /\ f.phase = "entered" /\ f.entry = px /\ f.no = e.no /\ f.side = e.side
    BY <1>2, <1>5, EngineEntered
  <2>3. rows[mine] \in Rows /\ Underway(rows[mine]) /\ mine \in DOMAIN rows
    BY <1>3, <2>1
  <2>4. SameElse(row, rows[mine], px, rows[mine].exit, rows[mine].no, rows[mine].net, rows[mine].closed)
    BY <2>3, RowEntry
  <2> HIDE DEF f, row
  <2>5. new[mine] = row
    BY <2>3 DEF Put
  <2>6. Followed(f, new, pending, exiting, mine)
    <3> HIDE DEF new
    <3> QED
      BY <2>1, <2>2, <2>4, <2>5 DEF Followed, SameElse, Idle, Carries
  <2>7. row \in Rows /\ Underway(row) /\ row.no = None
    BY <2>1, <2>3, <2>4 DEF SameElse, Underway, Idle
  <2>8. Told(f, closed, trades, new, pending, exiting, lastClosed)
    BY <1>1, <2>1, <2>2, <2>6, <2>7, PutTold
  <2>9. new = [rows EXCEPT ![pending].entry = px]
    BY <1>4, <2>1, <2>3 DEF row
  <2> QED
    BY <2>1, <2>8, <2>9 DEF f, Idle
<1>6. ASSUME e.phase = "exiting", exiting # None
      PROVE  /\ pending = None /\ rows[exiting].exit = None
             /\ Told([e EXCEPT !.phase = "left", !.exit = px], closed, trades,
                     [rows EXCEPT ![exiting].exit = px], pending, exiting, lastClosed)
  <2> DEFINE f == [e EXCEPT !.phase = "left", !.exit = px]
             row == [rows[mine] EXCEPT !.exit = px]
             new == Put(rows, mine, row)
  <2>1. /\ mine # None /\ pending = None /\ exiting = mine /\ Carries(e, rows[mine]) /\ rows[mine].no = e.no
        /\ rows[mine].exit = None
    BY <1>1, <1>6 DEF Followed
  <2>2. EngineIs(f, trades) /\ f.phase = "left" /\ f.entry = e.entry /\ f.no = e.no /\ f.side = e.side /\ f.exit = px
    BY <1>2, <1>6, EngineLeft
  <2>3. rows[mine] \in Rows /\ Underway(rows[mine]) /\ mine \in DOMAIN rows
    BY <1>3, <2>1
  <2>4. SameElse(row, rows[mine], rows[mine].entry, px, rows[mine].no, rows[mine].net, rows[mine].closed)
    BY <2>3, RowExit
  <2> HIDE DEF f, row
  <2>5. new[mine] = row
    BY <2>3 DEF Put
  <2>6. Followed(f, new, pending, exiting, mine)
    <3> HIDE DEF new
    <3> QED
      BY <2>1, <2>2, <2>4, <2>5 DEF Followed, SameElse, Carries
  <2>7. row \in Rows /\ Underway(row) /\ row.no = e.no
    BY <2>1, <2>3, <2>4 DEF SameElse, Underway
  <2>8. Told(f, closed, trades, new, pending, exiting, lastClosed)
    BY <1>1, <2>1, <2>2, <2>6, <2>7, PutTold
  <2>9. new = [rows EXCEPT ![exiting].exit = px]
    BY <1>4, <2>1, <2>3 DEF row
  <2> QED
    BY <2>1, <2>8, <2>9 DEF f
<1>7. ASSUME e.phase = "exiting", exiting = None
      PROVE  /\ pending = None
             /\ Told([e EXCEPT !.phase = "left", !.exit = px], closed, trades, rows, pending, exiting, lastClosed)
  <2> DEFINE f == [e EXCEPT !.phase = "left", !.exit = px]
  <2>1. mine = None /\ pending = None
    BY <1>1, <1>7 DEF Followed
  <2>2. EngineIs(f, trades) /\ f.phase = "left" /\ f.no = e.no
    BY <1>2, <1>7, EngineLeft
  <2> HIDE DEF f
  <2>3. Followed(f, rows, pending, exiting, mine)
    BY <1>7, <2>1, <2>2 DEF Followed
  <2>4. Told(f, closed, trades, rows, pending, exiting, lastClosed)
    BY <1>1, <2>2, <2>3, MoveTold
  <2> QED
    BY <2>1, <2>4 DEF f
<1> QED
  BY <1>5, <1>6, <1>7

\* The trade under way, as one that a closed trade's number is not that of.
LEMMA UnderwayIs ==
  ASSUME NEW e, NEW closed, NEW trades, NEW rows, NEW pending, NEW exiting, NEW lastClosed,
         Told(e, closed, trades, rows, pending, exiting, lastClosed)
  PROVE  /\ EngineIs(e, trades) /\ trades \in Nat
         /\ e.phase \in Trading => e.no \in Nat /\ e.no # None /\ e.entry \in Nat /\ e.entry # None /\ e.exit \in Nat
         /\ Unclosed(closed, e.no)
         /\ \E mine \in {None} \cup DOMAIN rows :
              /\ RowsRead(rows, closed, mine) /\ Followed(e, rows, pending, exiting, mine)
              /\ mine # None => rows[mine] \in Rows /\ Underway(rows[mine]) /\ mine \in DOMAIN rows /\ mine \in Nat
<1>1. PICK mine \in {None} \cup DOMAIN rows : RowsRead(rows, closed, mine) /\ Followed(e, rows, pending, exiting, mine)
  BY DEF Told
<1>2. EngineIs(e, trades) /\ trades \in Nat
  BY PaperAssumption DEF Told
<1>3. mine # None => rows[mine] \in Rows /\ Underway(rows[mine]) /\ mine \in DOMAIN rows /\ mine \in Nat
  <2>1. rows \in Seq(Rows) /\ (mine # None => mine \in DOMAIN rows /\ Underway(rows[mine]))
    BY <1>1 DEF RowsRead
  <2> HIDE DEF Rows
  <2> QED
    BY <2>1, SeqAt
<1>4. Unclosed(closed, e.no)
  BY DEF Told, NumbersKnown, Unclosed
<1>5. e.phase \in Trading => e.no \in Nat /\ e.no # None /\ e.entry \in Nat /\ e.entry # None /\ e.exit \in Nat
  BY <1>2 DEF EngineIs, IsEngine, None
<1> QED
  BY <1>1, <1>2, <1>3, <1>4, <1>5

LEMMA BookedTold ==
  ASSUME NEW e, NEW closed, NEW trades, NEW p,
         Told(e, closed, trades, p.trades, p.pending, p.exiting, p.lastClosed), e.phase = "entered"
  PROVE  LET line == FilledLine(e.no, e.entry)
         IN /\ TradeOf(p, e.no) = None /\ p.pending # None /\ p.trades[p.pending].no = None /\ p.pending # p.exiting
            /\ e.entry \in Nat
            /\ Told([e EXCEPT !.phase = "held"], closed, trades,
                    [p.trades EXCEPT ![p.pending] = EntryRow(p.trades[p.pending], line)], None, p.exiting, p.lastClosed)
<1> DEFINE rows == p.trades
           line == FilledLine(e.no, e.entry)
           f == [e EXCEPT !.phase = "held"]
<1>1. /\ EngineIs(e, trades) /\ e.no \in Nat /\ e.no # None /\ e.entry \in Nat /\ e.entry # None
      /\ Unclosed(closed, e.no)
  BY UnderwayIs DEF Trading
<1>2. PICK mine \in {None} \cup DOMAIN rows :
        /\ RowsRead(rows, closed, mine) /\ Followed(e, rows, p.pending, p.exiting, mine)
        /\ mine # None => rows[mine] \in Rows /\ Underway(rows[mine]) /\ mine \in DOMAIN rows /\ mine \in Nat
  BY UnderwayIs
<1>3. /\ mine # None /\ mine = p.pending /\ p.exiting = None /\ Carries(e, rows[mine]) /\ rows[mine].no = None
      /\ rows[mine].entry = e.entry /\ rows[mine].exit = None
  BY <1>2 DEF Followed
<1>4. rows[mine] \in Rows /\ Underway(rows[mine]) /\ mine \in DOMAIN rows
  BY <1>2, <1>3
<1>5. TradeOf(p, e.no) = None
  <2>1. RowsRead(p.trades, closed, mine)
    BY <1>2
  <2>2. e.no # None /\ Unclosed(closed, e.no)
    BY <1>1
  <2>3. /\ mine # None /\ p.trades[mine].no = e.no => TradeOf(p, e.no) = mine
        /\ mine = None \/ p.trades[mine].no # e.no => TradeOf(p, e.no) = None
    BY <2>1, <2>2, TradeOfIs
  <2> QED
    BY <1>1, <1>3, <2>3
<1>6. EngineIs(f, trades) /\ f.phase = "held" /\ f.entry = e.entry /\ f.no = e.no /\ f.side = e.side
  BY <1>1, EngineMoved DEF Trading
<1> DEFINE row == EntryRow(rows[mine], line)
           new == Put(rows, mine, row)
<1>7. SameElse(row, rows[mine], OrElse(rows[mine].entry, e.entry), rows[mine].exit, e.no, rows[mine].net, rows[mine].closed)
  BY <1>1, <1>4, RowBooked
<1> HIDE DEF f, row
<1>8. row \in Rows /\ Underway(row) /\ row.no = e.no
  BY <1>4, <1>7 DEF SameElse, Underway
<1>9. Carries(f, row) /\ row.exit = None /\ row.no # None
  BY <1>1, <1>3, <1>6, <1>7 DEF SameElse, Carries, OrElse
<1>10. new[mine] = row
  BY <1>4 DEF Put
<1>11. Followed(f, new, None, None, mine)
  <2> HIDE DEF new
  <2> QED
    BY <1>3, <1>6, <1>9, <1>10 DEF Followed
<1>12. Told(f, closed, trades, new, None, None, p.lastClosed)
  BY <1>2, <1>3, <1>6, <1>8, <1>11, PutTold
<1>13. new = [p.trades EXCEPT ![p.pending] = EntryRow(p.trades[p.pending], line)]
  BY <1>3 DEF row, Put
<1> QED
  BY <1>1, <1>3, <1>5, <1>12, <1>13 DEF f

LEMMA LeftTold ==
  ASSUME NEW e, NEW closed, NEW trades, NEW p,
         Told(e, closed, trades, p.trades, p.pending, p.exiting, p.lastClosed), e.phase = "left"
  PROVE  LET line == FilledLine(e.no, e.exit)
             f == [e EXCEPT !.phase = "booked"]
         IN /\ e.exit \in Nat /\ p.pending = None /\ TradeOf(p, e.no) = p.exiting
            /\ p.exiting # None =>
                 Told(f, closed, trades, [p.trades EXCEPT ![p.exiting] = ExitRow(p.trades[p.exiting], line)], p.pending,
                      p.exiting, p.lastClosed)
            /\ p.exiting = None => Told(f, closed, trades, p.trades, p.pending, p.exiting, p.lastClosed)
<1> DEFINE rows == p.trades
           line == FilledLine(e.no, e.exit)
           f == [e EXCEPT !.phase = "booked"]
<1>1. /\ EngineIs(e, trades) /\ e.no \in Nat /\ e.no # None /\ e.exit \in Nat /\ e.exit # None /\ Unclosed(closed, e.no)
  BY UnderwayIs DEF Trading, EngineIs
<1>2. PICK mine \in {None} \cup DOMAIN rows :
        /\ RowsRead(rows, closed, mine) /\ Followed(e, rows, p.pending, p.exiting, mine)
        /\ mine # None => rows[mine] \in Rows /\ Underway(rows[mine]) /\ mine \in DOMAIN rows /\ mine \in Nat
  BY UnderwayIs
<1>3. /\ p.pending = None /\ p.exiting = mine
      /\ mine # None => Carries(e, rows[mine]) /\ rows[mine].no = e.no /\ rows[mine].exit = e.exit
  BY <1>2 DEF Followed
<1>4. TradeOf(p, e.no) = p.exiting
  <2>1. RowsRead(p.trades, closed, mine)
    BY <1>2
  <2>2. e.no # None /\ Unclosed(closed, e.no)
    BY <1>1
  <2>3. /\ mine # None /\ p.trades[mine].no = e.no => TradeOf(p, e.no) = mine
        /\ mine = None \/ p.trades[mine].no # e.no => TradeOf(p, e.no) = None
    BY <2>1, <2>2, TradeOfIs
  <2> QED
    BY <1>1, <1>3, <2>3
<1>5. /\ EngineIs(f, trades) /\ f.phase = "booked" /\ f.entry = e.entry /\ f.no = e.no /\ f.side = e.side
      /\ f.exit = e.exit
  BY <1>1, EngineMoved DEF Trading
<1> HIDE DEF f
<1>6. ASSUME p.exiting # None
      PROVE  Told(f, closed, trades, [p.trades EXCEPT ![p.exiting] = ExitRow(p.trades[p.exiting], line)], p.pending,
                  p.exiting, p.lastClosed)
  <2> DEFINE row == ExitRow(rows[mine], line)
             new == Put(rows, mine, row)
  <2>1. /\ mine # None /\ rows[mine] \in Rows /\ Underway(rows[mine]) /\ mine \in DOMAIN rows
        /\ Carries(e, rows[mine]) /\ rows[mine].no = e.no /\ rows[mine].exit = e.exit
    BY <1>2, <1>3, <1>6
  <2>2. SameElse(row, rows[mine], rows[mine].entry, OrElse(rows[mine].exit, e.exit), e.no, rows[mine].net, rows[mine].closed)
    BY <1>1, <2>1, RowLeft
  <2> HIDE DEF row
  <2>3. row \in Rows /\ Underway(row) /\ row.no = e.no
    BY <2>1, <2>2 DEF SameElse, Underway
  <2>4. Carries(f, row) /\ row.no = f.no /\ row.exit = f.exit
    BY <1>1, <1>5, <2>1, <2>2 DEF SameElse, Carries, OrElse
  <2>5. new[mine] = row
    BY <2>1 DEF Put
  <2>6. Followed(f, new, None, mine, mine)
    <3> HIDE DEF new
    <3> QED
      BY <1>5, <2>4, <2>5 DEF Followed
  <2>7. Told(f, closed, trades, new, None, mine, p.lastClosed)
    BY <1>2, <1>3, <1>5, <2>1, <2>3, <2>6, PutTold
  <2>8. new = [p.trades EXCEPT ![p.exiting] = ExitRow(p.trades[p.exiting], line)]
    BY <1>3 DEF row, Put
  <2> QED
    BY <1>3, <2>7, <2>8
<1>7. ASSUME p.exiting = None
      PROVE  Told(f, closed, trades, p.trades, p.pending, p.exiting, p.lastClosed)
  <2>1. Followed(f, rows, p.pending, p.exiting, mine)
    BY <1>3, <1>5, <1>7 DEF Followed
  <2> QED
    BY <1>2, <1>5, <2>1, MoveTold
<1> QED
  BY <1>1, <1>3, <1>4, <1>6, <1>7 DEF f

LEMMA LeavingTold ==
  ASSUME NEW e, NEW closed, NEW trades, NEW p, NEW reason \in {"stop", "signal"},
         Told(e, closed, trades, p.trades, p.pending, p.exiting, p.lastClosed), e.phase = "held"
  PROVE  LET line == ExitLine(e.no, reason)
             f == [e EXCEPT !.phase = "exiting"]
             i == OrElse(TradeOf(p, e.no), p.pending)
         IN /\ i \in Nat
            /\ i # None => Told(f, closed, trades, [p.trades EXCEPT ![i] = LeavingRow(p.trades[i], line)], None, i, p.lastClosed)
            /\ i = None => Told(f, closed, trades, p.trades, p.pending, p.exiting, p.lastClosed)
<1> DEFINE rows == p.trades
           line == ExitLine(e.no, reason)
           f == [e EXCEPT !.phase = "exiting"]
           i == OrElse(TradeOf(p, e.no), p.pending)
<1>1. EngineIs(e, trades) /\ e.no \in Nat /\ e.no # None /\ Unclosed(closed, e.no)
  BY UnderwayIs DEF Trading
<1>2. PICK mine \in {None} \cup DOMAIN rows :
        /\ RowsRead(rows, closed, mine) /\ Followed(e, rows, p.pending, p.exiting, mine)
        /\ mine # None => rows[mine] \in Rows /\ Underway(rows[mine]) /\ mine \in DOMAIN rows /\ mine \in Nat
  BY UnderwayIs
<1>3. /\ p.exiting = None /\ (mine = None => p.pending = None)
      /\ mine # None => /\ Carries(e, rows[mine]) /\ rows[mine].exit = None
                        /\ p.pending = IF rows[mine].no = None THEN mine ELSE None
  BY <1>2 DEF Followed
<1> HIDE DEF i, f
<1>4. /\ mine # None /\ p.trades[mine].no = e.no => TradeOf(p, e.no) = mine
      /\ mine = None \/ p.trades[mine].no # e.no => TradeOf(p, e.no) = None
  <2>1. RowsRead(p.trades, closed, mine)
    BY <1>2
  <2>2. e.no # None /\ Unclosed(closed, e.no)
    BY <1>1
  <2>3. /\ mine # None /\ p.trades[mine].no = e.no => TradeOf(p, e.no) = mine
        /\ mine = None \/ p.trades[mine].no # e.no => TradeOf(p, e.no) = None
    BY <2>1, <2>2, TradeOfIs
  <2> QED
    BY <2>3
<1>5. i = mine /\ mine \in Nat
  BY <1>1, <1>2, <1>3, <1>4 DEF OrElse, Carries, None, i
<1>6. EngineIs(f, trades) /\ f.phase = "exiting" /\ f.entry = e.entry /\ f.no = e.no /\ f.side = e.side
  BY <1>1, EngineMoved DEF Trading, f
<1>7. ASSUME i # None
      PROVE  Told(f, closed, trades, [p.trades EXCEPT ![i] = LeavingRow(p.trades[i], line)], None, i, p.lastClosed)
  <2> DEFINE row == LeavingRow(rows[mine], line)
             new == Put(rows, mine, row)
  <2>1. /\ mine # None /\ rows[mine] \in Rows /\ Underway(rows[mine]) /\ mine \in DOMAIN rows
        /\ Carries(e, rows[mine]) /\ rows[mine].exit = None
    BY <1>2, <1>3, <1>5, <1>7
  <2>2. SameElse(row, rows[mine], rows[mine].entry, rows[mine].exit, OrElse(rows[mine].no, e.no), rows[mine].net,
                 rows[mine].closed)
    BY <1>1, <2>1, RowLeaving
  <2> HIDE DEF row
  <2>3. row \in Rows /\ Underway(row) /\ row.no = e.no
    BY <2>1, <2>2 DEF SameElse, Underway, Carries, OrElse
  <2>4. Carries(f, row) /\ row.no = f.no /\ row.exit = None
    BY <1>6, <2>1, <2>2, <2>3 DEF SameElse, Carries
  <2>5. new[mine] = row
    BY <2>1 DEF Put
  <2>6. Followed(f, new, None, mine, mine)
    <3> HIDE DEF new
    <3> QED
      BY <1>6, <2>4, <2>5 DEF Followed
  <2>7. Told(f, closed, trades, new, None, mine, p.lastClosed)
    BY <1>2, <1>6, <2>1, <2>3, <2>6, PutTold
  <2>8. new = [p.trades EXCEPT ![i] = LeavingRow(p.trades[i], line)]
    BY <1>5 DEF row, Put
  <2> QED
    BY <1>5, <2>7, <2>8
<1>8. ASSUME i = None
      PROVE  Told(f, closed, trades, p.trades, p.pending, p.exiting, p.lastClosed)
  <2>1. Followed(f, rows, p.pending, p.exiting, mine)
    BY <1>3, <1>5, <1>6, <1>8 DEF Followed
  <2> QED
    BY <1>2, <1>6, <2>1, MoveTold
<1> QED
  BY <1>5, <1>7, <1>8 DEF f, i

LEMMA ToldClosed ==
  ASSUME NEW e, NEW closed, NEW trades, NEW rows, NEW pending, NEW exiting, NEW lastClosed,
         Told(e, closed, trades, rows, pending, exiting, lastClosed), NEW t \in ClosedTrades, t.no \in 1 .. trades,
         NEW new, RowsRead(new, Append(closed, t), None), NEW last \in DOMAIN new
  PROVE  Told(Flat, Append(closed, t), trades, new, None, None, last)
<1>1. closed \in Seq(ClosedTrades) /\ t.no # None
  <2>1. closed \in Seq(ClosedTrades)
    BY DEF Told, RowsRead
  <2> QED
    BY <2>1 DEF ClosedTrades
<1> DEFINE more == Append(closed, t)
           c == Len(closed) + 1
<1>2. /\ more \in Seq(ClosedTrades) /\ DOMAIN more = DOMAIN closed \cup {c} /\ more[c] = t
      /\ \A k \in DOMAIN closed : more[k] = closed[k]
  BY <1>1, ClosedAdd
<1>3. \A k \in DOMAIN more : more[k].no # None
  <2> HIDE DEF more
  <2> QED
    BY <1>2, ClosedTradeIs
<1> HIDE DEF more, c
<1>4. NumbersKnown(Flat, more, trades)
  BY <1>2, <1>3, FlatIs DEF NumbersKnown, Told
<1>5. EngineIs(Flat, trades)
  BY FlatIs DEF EngineIs, Trading
<1>6. Followed(Flat, new, None, None, None)
  BY FlatIs DEF Followed
<1>7. RowsRead(new, more, None)
  BY DEF more
<1>8. Told(Flat, more, trades, new, None, None, last)
  BY <1>4, <1>5, <1>6, <1>7 DEF Told
<1> QED
  BY <1>8 DEF more

\* The trade a closed line tells.
TradeMade(e, totals) ==
  [no |-> e.no, side |-> e.side, entry |-> e.entry, exit |-> e.exit, totals |-> totals]

LEMMA TradeMadeIs ==
  ASSUME NEW e, NEW trades, EngineIs(e, trades), trades \in Nat, e.phase \in {"left", "booked"}, NEW totals \in BOOLEAN
  PROVE  LET t == TradeMade(e, totals)
         IN /\ t \in ClosedTrades /\ t.no = e.no /\ t.side = e.side /\ t.entry = e.entry /\ t.exit = e.exit
            /\ t.totals = totals /\ Points(t) \in Int /\ t.no \in 1 .. trades /\ t.no # None
            /\ t.entry \in Nat /\ t.entry # None /\ t.exit \in Nat /\ t.exit # None /\ t.side \in Sides /\ t.no \in Nat
  BY DEF EngineIs, IsEngine, Trading, TradeMade, ClosedTrades, Points, None

\* A row closed by the line of a trade, and then by its totals, is that trade's.
LEMMA RowReadBy ==
  ASSUME NEW r \in Rows, r.net = <<>>, NEW t \in ClosedTrades, r.no = t.no, r.side = t.side, r.entry \in {None, t.entry},
         r.exit \in {None, t.exit}, Points(t) \in Int
  PROVE  LET row == ClosedRow(r, t)
             told == [row EXCEPT !.net = <<Points(t)>>]
         IN /\ row \in Rows /\ (~t.totals => IsRead(row, t))
            /\ told \in Rows /\ (t.totals => IsRead(told, t))
<1> DEFINE row == ClosedRow(r, t)
           told == [row EXCEPT !.net = <<Points(t)>>]
<1>1. t.entry \in Nat /\ t.exit \in Nat /\ t.entry # None /\ t.exit # None
  BY DEF ClosedTrades
<1>2. SameElse(row, r, OrElse(r.entry, t.entry), OrElse(r.exit, t.exit), r.no, r.net, TRUE)
  BY <1>1, RowClosed
<1>3. OrElse(r.entry, t.entry) = t.entry /\ OrElse(r.exit, t.exit) = t.exit
  BY DEF OrElse
<1> HIDE DEF row
<1>4. row \in Rows /\ row.entry = t.entry /\ row.exit = t.exit /\ row.side = t.side /\ row.no = t.no /\ row.net = <<>> /\ row.closed
  BY <1>2, <1>3 DEF SameElse
<1>5. SameElse(told, row, row.entry, row.exit, row.no, <<Points(t)>>, row.closed)
  BY <1>4, RowNet
<1> HIDE DEF told
<1>6. told \in Rows /\ (t.totals => IsRead(told, t))
  BY <1>4, <1>5 DEF SameElse, IsRead
<1>7. ~t.totals => IsRead(row, t)
  BY <1>4 DEF IsRead
<1> QED
  BY <1>4, <1>6, <1>7 DEF row, told

LEMMA NewTradeIs ==
  ASSUME NEW side \in Sides, NEW no \in Nat
  PROVE  LET r == NewTrade(side, no)
         IN r \in Rows /\ r.side = side /\ r.no = no /\ r.entry = None /\ r.exit = None /\ r.net = <<>>
<1> DEFINE r == NewTrade(side, no)
<1>1. /\ HasFields(r, RowFields) /\ r.side = side /\ r.no = no /\ r.entry = None /\ r.exit = None
      /\ r.reason = "none" /\ r.net = <<>> /\ r.closed = FALSE /\ r.bar = None
  BY DEF NewTrade, HasFields, RowFields
<1> HIDE DEF r
<1>2. None \in Nat /\ <<>> \in Seq(Int)
  BY DEF None
<1>3. IsRow(r)
  BY <1>1, <1>2 DEF IsRow
<1> QED
  BY <1>1, <1>3, RowIs DEF r

LEMMA ClosedKnownTold ==
  ASSUME NEW e, NEW closed, NEW trades, NEW p,
         Told(e, closed, trades, p.trades, p.pending, p.exiting, p.lastClosed), e.phase \in {"left", "booked"},
         NEW totals \in BOOLEAN, p.exiting # None
  PROVE  LET t == TradeMade(e, totals)
             i == p.exiting
             rows == [p.trades EXCEPT ![i] = ClosedRow(p.trades[i], t)]
             told == [rows EXCEPT ![i].net = <<Points(t)>>]
         IN /\ i = TradeOf(p, t.no) /\ i \in Nat /\ p.pending = None /\ Points(t) \in Int
            /\ Told(Flat, Append(closed, t), trades, IF totals THEN told ELSE rows, None, None, i)
<1> DEFINE t == TradeMade(e, totals)
           i == p.exiting
           row == ClosedRow(p.trades[i], t)
           row2 == [row EXCEPT !.net = <<Points(t)>>]
           rows == [p.trades EXCEPT ![i] = row]
           told == [rows EXCEPT ![i].net = <<Points(t)>>]
<1>1. EngineIs(e, trades) /\ Unclosed(closed, e.no) /\ trades \in Nat
  BY UnderwayIs
<1>2. PICK mine \in {None} \cup DOMAIN p.trades :
        /\ RowsRead(p.trades, closed, mine) /\ Followed(e, p.trades, p.pending, p.exiting, mine)
        /\ mine # None => p.trades[mine] \in Rows /\ Underway(p.trades[mine]) /\ mine \in DOMAIN p.trades /\ mine \in Nat
  BY UnderwayIs
<1>3. /\ t \in ClosedTrades /\ t.no = e.no /\ t.side = e.side /\ t.entry = e.entry /\ t.exit = e.exit
      /\ t.totals = totals /\ Points(t) \in Int /\ t.no \in 1 .. trades /\ t.no # None
  BY <1>1, TradeMadeIs
<1>4. /\ p.pending = None /\ i = mine /\ i # None /\ Carries(e, p.trades[i]) /\ p.trades[i].no = e.no
      /\ p.trades[i].exit = e.exit
  BY <1>2 DEF Followed
<1>5. p.trades[i] \in Rows /\ Underway(p.trades[i]) /\ i \in DOMAIN p.trades /\ i \in Nat
  BY <1>2, <1>4
<1> HIDE DEF t
<1>6. i = TradeOf(p, t.no)
  <2> DEFINE all == p.trades
  <2>1. RowsRead(all, closed, mine) /\ all[mine].no = t.no /\ mine # None
    BY <1>2, <1>3, <1>4
  <2>2. t.no # None /\ Unclosed(closed, t.no)
    BY <1>1, <1>3
  <2> QED
    BY <1>4, <2>1, <2>2, TradeOfIs
<1>7. /\ row \in Rows /\ (~t.totals => IsRead(row, t)) /\ row2 \in Rows /\ (t.totals => IsRead(row2, t))
  BY <1>3, <1>4, <1>5, RowReadBy DEF Underway, Carries
<1> HIDE DEF row, row2
<1>8. Unclosed(closed, t.no) /\ RowsRead(p.trades, closed, i)
  BY <1>1, <1>2, <1>3, <1>4
<1>9. CASE totals
  <2>1. told = [p.trades EXCEPT ![i] = row2]
    BY <1>5 DEF row2
  <2>2. IsRead(row2, t)
    BY <1>3, <1>7, <1>9
  <2> DEFINE new == [p.trades EXCEPT ![i] = row2]
  <2>3. RowsRead(new, Append(closed, t), None) /\ i \in DOMAIN new
    BY <1>3, <1>4, <1>5, <1>7, <1>8, <2>2, RowsClosed
  <2> HIDE DEF new
  <2>4. Told(Flat, Append(closed, t), trades, new, None, None, i)
    BY <1>3, <2>3, ToldClosed
  <2> QED
    BY <1>3, <1>4, <1>5, <1>6, <1>9, <2>1, <2>4 DEF new, t, row
<1>10. CASE ~totals
  <2>2. IsRead(row, t)
    BY <1>3, <1>7, <1>10
  <2>3. RowsRead(rows, Append(closed, t), None) /\ i \in DOMAIN rows
    BY <1>3, <1>4, <1>5, <1>7, <1>8, <2>2, RowsClosed
  <2> HIDE DEF rows
  <2>4. Told(Flat, Append(closed, t), trades, rows, None, None, i)
    BY <1>3, <2>3, ToldClosed
  <2> QED
    BY <1>3, <1>4, <1>5, <1>6, <1>10, <2>4 DEF t, row, rows
<1> QED
  BY <1>9, <1>10

LEMMA AppendSet ==
  ASSUME NEW S, NEW s \in Seq(S), NEW x \in S, NEW y \in S
  PROVE  Append(s, x)[Len(s) + 1] = x /\ [Append(s, x) EXCEPT ![Len(s) + 1] = y] = Append(s, y)
<1> DEFINE n == Len(s) + 1
           a == Append(s, x)
           b == Append(s, y)
<1>1. Len(s) \in Nat /\ n \in 1 .. n
  OBVIOUS
<1>2. a \in Seq(S) /\ Len(a) = n /\ b \in Seq(S) /\ Len(b) = n
  OBVIOUS
<1>3. \A k \in 1 .. n : a[k] = IF k = n THEN x ELSE s[k]
  OBVIOUS
<1>4. \A k \in 1 .. n : b[k] = IF k = n THEN y ELSE s[k]
  OBVIOUS
<1> HIDE DEF n, a, b
<1>5. a = [k \in 1 .. n |-> a[k]] /\ b = [k \in 1 .. n |-> b[k]]
  BY <1>2
<1>6. [a EXCEPT ![n] = y] = b
  BY <1>1, <1>3, <1>4, <1>5
<1> QED
  BY <1>1, <1>3, <1>6 DEF a, b, n

LEMMA ClosedMadeTold ==
  ASSUME NEW e, NEW closed, NEW trades, NEW p,
         Told(e, closed, trades, p.trades, p.pending, p.exiting, p.lastClosed), e.phase \in {"left", "booked"},
         NEW totals \in BOOLEAN, p.exiting = None
  PROVE  LET t == TradeMade(e, totals)
             i == Len(p.trades) + 1
             rows == Append(p.trades, ClosedRow(NewTrade(t.side, t.no), t))
             told == [rows EXCEPT ![i].net = <<Points(t)>>]
         IN /\ TradeOf(p, t.no) = None /\ i # None /\ p.pending = None /\ p.trades \in Seq(Rows)
            /\ NewTrade(t.side, t.no) \in Rows
            /\ Told(Flat, Append(closed, t), trades, IF totals THEN told ELSE rows, None, None, i)
<1> DEFINE t == TradeMade(e, totals)
           i == Len(p.trades) + 1
           made == NewTrade(t.side, t.no)
           row == ClosedRow(made, t)
           row2 == [row EXCEPT !.net = <<Points(t)>>]
           rows == Append(p.trades, row)
           told == [rows EXCEPT ![i].net = <<Points(t)>>]
<1>1. EngineIs(e, trades) /\ Unclosed(closed, e.no) /\ trades \in Nat
  BY UnderwayIs
<1>2. PICK mine \in {None} \cup DOMAIN p.trades :
        RowsRead(p.trades, closed, mine) /\ Followed(e, p.trades, p.pending, p.exiting, mine)
  BY UnderwayIs
<1>3. /\ t \in ClosedTrades /\ t.no = e.no /\ t.totals = totals /\ Points(t) \in Int /\ t.no \in 1 .. trades /\ t.no # None
      /\ t.side \in Sides /\ t.no \in Nat
  BY <1>1, TradeMadeIs
<1>4. p.pending = None /\ mine = None /\ RowsRead(p.trades, closed, None) /\ p.trades \in Seq(Rows)
  BY <1>2 DEF Followed, RowsRead
<1>5. i # None
  BY <1>4 DEF None
<1> HIDE DEF t
<1>6. TradeOf(p, t.no) = None
  <2> DEFINE all == p.trades
  <2>1. RowsRead(all, closed, mine) /\ mine = None
    BY <1>2, <1>4
  <2>2. t.no # None /\ Unclosed(closed, t.no)
    BY <1>1, <1>3
  <2> QED
    BY <2>1, <2>2, TradeOfIs
<1>7. made \in Rows /\ made.no = t.no /\ made.side = t.side /\ made.entry = None /\ made.exit = None /\ made.net = <<>>
  BY <1>3, NewTradeIs
<1> HIDE DEF made
<1>8. /\ row \in Rows /\ (~t.totals => IsRead(row, t)) /\ row2 \in Rows /\ (t.totals => IsRead(row2, t))
  BY <1>3, <1>7, RowReadBy
<1> HIDE DEF row, row2
<1>9. Unclosed(closed, t.no)
  BY <1>1, <1>3
<1>10. CASE totals
  <2>1. told = Append(p.trades, row2)
    <3> HIDE DEF Rows
    <3> DEFINE all == p.trades
    <3>3. all \in Seq(Rows) /\ row \in Rows /\ row2 \in Rows
      BY <1>4, <1>8
    <3> HIDE DEF all
    <3>4. Append(all, row)[Len(all) + 1] = row /\ [Append(all, row) EXCEPT ![Len(all) + 1] = row2] = Append(all, row2)
      BY <3>3, AppendSet
    <3>5. Len(all) + 1 \in DOMAIN Append(all, row)
      BY <3>3, SeqAdd
    <3>1. rows[i] = row /\ [rows EXCEPT ![i] = row2] = Append(p.trades, row2) /\ i \in DOMAIN rows
      BY <3>4, <3>5 DEF all
    <3> HIDE DEF rows, i
    <3>2. told = [rows EXCEPT ![i] = row2]
      BY <3>1 DEF row2
    <3> QED
      BY <3>1, <3>2
  <2>2. IsRead(row2, t)
    BY <1>3, <1>8, <1>10
  <2> DEFINE new == Append(p.trades, row2)
  <2>3. RowsRead(new, Append(closed, t), None) /\ i \in DOMAIN new
    BY <1>3, <1>4, <1>8, <1>9, <2>2, RowsMade
  <2> HIDE DEF new
  <2>4. Told(Flat, Append(closed, t), trades, new, None, None, i)
    BY <1>3, <2>3, ToldClosed
  <2> QED
    BY <1>4, <1>5, <1>6, <1>7, <1>10, <2>1, <2>4 DEF new, t, row, made
<1>11. CASE ~totals
  <2>2. IsRead(row, t)
    BY <1>3, <1>8, <1>11
  <2>3. RowsRead(rows, Append(closed, t), None) /\ i \in DOMAIN rows
    BY <1>3, <1>4, <1>8, <1>9, <2>2, RowsMade
  <2> HIDE DEF rows
  <2>4. Told(Flat, Append(closed, t), trades, rows, None, None, i)
    BY <1>3, <2>3, ToldClosed
  <2> QED
    BY <1>4, <1>5, <1>6, <1>7, <1>11, <2>4 DEF t, row, rows, made
<1> QED
  BY <1>10, <1>11

-----------------------------------------------------------------------------
\* Two lines, one after the other.
LEMMA ReadThen ==
  ASSUME NEW p, CanRead(p), NEW q, NEW rows, NEW pending, NEW exiting, NEW lastClosed,
         ReadAs(p, q, rows, pending, exiting, lastClosed)
  PROVE  /\ CanRead(q)
         /\ \A r, new, waiting, leaving, last :
              ReadAs(q, r, new, waiting, leaving, last) => ReadAs(p, r, new, waiting, leaving, last)
  BY DEF CanRead, ReadAs

LEMMA ToldParsed ==
  ASSUME PaperInv
  PROVE  /\ Told(engine, closedTrades, wrote.trades, parsed.trades, parsed.pending, parsed.exiting, parsed.lastClosed)
         /\ IsEngine(engine) /\ HasFields(wrote, {"trades", "triggers", "deaths"})
  BY DEF PaperInv, Told, EngineIs

LEMMA FillKeeps ==
  ASSUME PaperInv, NEW px \in Prices, WriteFill(px)
  PROVE  PaperInv'
<1>1. /\ Told(engine, closedTrades, wrote.trades, parsed.trades, parsed.pending, parsed.exiting, parsed.lastClosed)
      /\ IsEngine(engine) /\ HasFields(wrote, {"trades", "triggers", "deaths"})
  BY ToldParsed
<1>2. px \in Nat \ {None} /\ px \in Nat
  BY PricesPositive
<1>3. parsed' = Read(parsed, [tag |-> "order", px |-> px]) /\ hour' = hour /\ closedTrades' = closedTrades /\ wrote' = wrote
  BY DEF WriteFill, Write
<1>4. CASE engine.phase = "entering"
  <2>1. engine' = [engine EXCEPT !.phase = "entered", !.entry = px]
    BY <1>4 DEF WriteFill
  <2>2. engine'.phase # "closing"
    BY <1>1, <2>1 DEF IsEngine, HasFields
  <2>3. /\ parsed.pending # None /\ parsed.trades[parsed.pending].entry = None
        /\ Told(engine', closedTrades, wrote.trades, [parsed.trades EXCEPT ![parsed.pending].entry = px], parsed.pending,
                parsed.exiting, parsed.lastClosed)
    <3>1. /\ parsed.pending # None /\ parsed.trades[parsed.pending].entry = None
          /\ Told([engine EXCEPT !.phase = "entered", !.entry = px], closedTrades, wrote.trades,
                  [parsed.trades EXCEPT ![parsed.pending].entry = px], parsed.pending, parsed.exiting, parsed.lastClosed)
      BY <1>1, <1>2, <1>4, FillTold
    <3> QED
      BY <2>1, <3>1
  <2>4. CanRead(parsed)
    BY <1>4, ParserReadable
  <2>5. ReadAs(parsed, parsed', [parsed.trades EXCEPT ![parsed.pending].entry = px], parsed.pending, parsed.exiting,
               parsed.lastClosed)
    BY <1>2, <1>3, <2>3, <2>4, ReadOrder
  <2> QED
    BY <1>1, <1>3, <1>4, <2>2, <2>3, <2>5, ReadKeeps
<1>5. CASE engine.phase = "exiting"
  <2>1. engine' = [engine EXCEPT !.phase = "left", !.exit = px]
    BY <1>5 DEF WriteFill
  <2>2. engine'.phase # "closing"
    BY <1>1, <2>1 DEF IsEngine, HasFields
  <2>3. /\ parsed.pending = None
        /\ parsed.exiting # None =>
             /\ parsed.trades[parsed.exiting].exit = None
             /\ Told(engine', closedTrades, wrote.trades, [parsed.trades EXCEPT ![parsed.exiting].exit = px], parsed.pending,
                     parsed.exiting, parsed.lastClosed)
        /\ parsed.exiting = None =>
             Told(engine', closedTrades, wrote.trades, parsed.trades, parsed.pending, parsed.exiting, parsed.lastClosed)
    <3> DEFINE f == [engine EXCEPT !.phase = "left", !.exit = px]
    <3>1. parsed.exiting # None =>
             /\ parsed.pending = None /\ parsed.trades[parsed.exiting].exit = None
             /\ Told(f, closedTrades, wrote.trades, [parsed.trades EXCEPT ![parsed.exiting].exit = px], parsed.pending,
                     parsed.exiting, parsed.lastClosed)
      BY <1>1, <1>2, <1>5, FillTold
    <3>2. parsed.exiting = None =>
             /\ parsed.pending = None
             /\ Told(f, closedTrades, wrote.trades, parsed.trades, parsed.pending, parsed.exiting, parsed.lastClosed)
      BY <1>1, <1>2, <1>5, FillTold
    <3> QED
      BY <2>1, <3>1, <3>2
  <2>4. CanRead(parsed)
    BY <1>5, ParserReadable
  <2>5. CASE parsed.exiting # None
    <3>1. ReadAs(parsed, parsed', [parsed.trades EXCEPT ![parsed.exiting].exit = px], parsed.pending, parsed.exiting,
                 parsed.lastClosed)
      BY <1>2, <1>3, <2>3, <2>4, <2>5, ReadOrder
    <3> QED
      BY <1>1, <1>3, <1>5, <2>2, <2>3, <2>5, <3>1, ReadKeeps
  <2>6. CASE parsed.exiting = None
    <3>1. ReadAs(parsed, parsed', parsed.trades, parsed.pending, parsed.exiting, parsed.lastClosed)
      BY <1>2, <1>3, <2>3, <2>4, <2>6, ReadOrder
    <3> QED
      BY <1>1, <1>3, <1>5, <2>2, <2>3, <2>6, <3>1, ReadKeeps
  <2> QED
    BY <2>5, <2>6
<1> QED
  BY <1>4, <1>5 DEF WriteFill

LEMMA BookedKeeps ==
  ASSUME PaperInv, WriteBooked
  PROVE  PaperInv'
<1>1. /\ Told(engine, closedTrades, wrote.trades, parsed.trades, parsed.pending, parsed.exiting, parsed.lastClosed)
      /\ IsEngine(engine) /\ HasFields(wrote, {"trades", "triggers", "deaths"})
  BY ToldParsed
<1>2. /\ engine.phase \in {"entered", "left"} /\ hour' = hour /\ closedTrades' = closedTrades /\ wrote' = wrote
      /\ parsed' = Read(parsed, FilledLine(engine.no, IF engine.phase = "left" THEN engine.exit ELSE engine.entry))
      /\ engine' = [engine EXCEPT !.phase = IF @ = "entered" THEN "held" ELSE "booked"]
  BY DEF WriteBooked, Write, FilledLine
<1>3. CanRead(parsed) /\ engine'.phase # "closing"
  BY <1>1, <1>2, ParserReadable DEF IsEngine, HasFields
<1>4. CASE engine.phase = "entered"
  <2> DEFINE line == FilledLine(engine.no, engine.entry)
             rows == [parsed.trades EXCEPT ![parsed.pending] = EntryRow(parsed.trades[parsed.pending], line)]
  <2>1. engine' = [engine EXCEPT !.phase = "held"] /\ parsed' = Read(parsed, line)
    BY <1>2, <1>4
  <2>2. /\ TradeOf(parsed, engine.no) = None /\ parsed.pending # None /\ parsed.trades[parsed.pending].no = None
        /\ parsed.pending # parsed.exiting /\ engine.entry \in Nat
        /\ Told(engine', closedTrades, wrote.trades, rows, None, parsed.exiting, parsed.lastClosed)
    BY <1>1, <1>4, <2>1, BookedTold
  <2>3. ReadAs(parsed, parsed', rows, None, parsed.exiting, parsed.lastClosed)
    BY <1>3, <2>1, <2>2, ReadFilled
  <2> HIDE DEF rows
  <2> QED
    BY <1>1, <1>2, <1>3, <1>4, <2>2, <2>3, ReadKeeps
<1>5. CASE engine.phase = "left"
  <2> DEFINE line == FilledLine(engine.no, engine.exit)
             rows == [parsed.trades EXCEPT ![parsed.exiting] = ExitRow(parsed.trades[parsed.exiting], line)]
  <2>1. engine' = [engine EXCEPT !.phase = "booked"] /\ parsed' = Read(parsed, line)
    BY <1>2, <1>5
  <2>2. /\ engine.exit \in Nat /\ parsed.pending = None /\ TradeOf(parsed, engine.no) = parsed.exiting
        /\ parsed.exiting # None =>
             Told(engine', closedTrades, wrote.trades, rows, parsed.pending, parsed.exiting, parsed.lastClosed)
        /\ parsed.exiting = None =>
             Told(engine', closedTrades, wrote.trades, parsed.trades, parsed.pending, parsed.exiting, parsed.lastClosed)
    BY <1>1, <1>5, <2>1, LeftTold
  <2>3. CASE parsed.exiting # None
    <3>1. ReadAs(parsed, parsed', rows, parsed.pending, parsed.exiting, parsed.lastClosed)
      BY <1>3, <2>1, <2>2, <2>3, ReadFilled
    <3> HIDE DEF rows
    <3> QED
      BY <1>1, <1>2, <1>3, <1>5, <2>2, <2>3, <3>1, ReadKeeps
  <2>4. CASE parsed.exiting = None
    <3>1. ReadAs(parsed, parsed', parsed.trades, parsed.pending, parsed.exiting, parsed.lastClosed)
      BY <1>3, <2>1, <2>2, <2>4, ReadFilled
    <3> QED
      BY <1>1, <1>2, <1>3, <1>5, <2>2, <2>4, <3>1, ReadKeeps
  <2> QED
    BY <2>3, <2>4
<1> QED
  BY <1>2, <1>4, <1>5

LEMMA ExitKeeps ==
  ASSUME PaperInv, WriteExit
  PROVE  PaperInv'
<1>1. /\ Told(engine, closedTrades, wrote.trades, parsed.trades, parsed.pending, parsed.exiting, parsed.lastClosed)
      /\ IsEngine(engine) /\ HasFields(wrote, {"trades", "triggers", "deaths"})
  BY ToldParsed
<1> DEFINE next == Read(parsed, Line("hold"))
<1>2. PICK reason \in {"stop", "signal"} : parsed' = Read(next, ExitLine(engine.no, reason))
  BY DEF WriteExit, ExitLine
<1>3. /\ engine.phase = "held" /\ hour' = hour /\ closedTrades' = closedTrades /\ wrote' = wrote
      /\ engine' = [engine EXCEPT !.phase = "exiting"]
  BY DEF WriteExit
<1>4. CanRead(parsed) /\ engine'.phase # "closing"
  BY <1>1, <1>3, ParserReadable DEF IsEngine, HasFields
<1>5. ReadAs(parsed, next, parsed.trades, parsed.pending, parsed.exiting, parsed.lastClosed)
  BY <1>4, ReadNothing
<1> HIDE DEF next
<1>6. /\ CanRead(next)
      /\ \A r, new, waiting, leaving, last :
              ReadAs(next, r, new, waiting, leaving, last) => ReadAs(parsed, r, new, waiting, leaving, last)
  BY <1>4, <1>5, ReadThen
<1>7. /\ next.trades = parsed.trades /\ next.pending = parsed.pending /\ next.exiting = parsed.exiting
      /\ next.lastClosed = parsed.lastClosed
  BY <1>5 DEF ReadAs
<1> DEFINE line == ExitLine(engine.no, reason)
           i == OrElse(TradeOf(next, engine.no), next.pending)
           rows == [next.trades EXCEPT ![i] = LeavingRow(next.trades[i], line)]
<1>8. Told(engine, closedTrades, wrote.trades, next.trades, next.pending, next.exiting, next.lastClosed)
  BY <1>1, <1>7
<1>9. /\ i \in Nat
      /\ i # None => Told(engine', closedTrades, wrote.trades, rows, None, i, next.lastClosed)
      /\ i = None => Told(engine', closedTrades, wrote.trades, next.trades, next.pending, next.exiting, next.lastClosed)
  BY <1>3, <1>8, LeavingTold
<1>10. CASE i # None
  <2>1. ReadAs(next, parsed', rows, None, i, next.lastClosed)
    BY <1>2, <1>6, <1>9, <1>10, ReadExit
  <2> HIDE DEF rows, i
  <2> QED
    BY <1>1, <1>3, <1>4, <1>6, <1>9, <1>10, <2>1, ReadKeeps
<1>11. CASE i = None
  <2>1. ReadAs(next, parsed', next.trades, next.pending, next.exiting, next.lastClosed)
    BY <1>2, <1>6, <1>9, <1>11, ReadExit
  <2> HIDE DEF rows, i
  <2> QED
    BY <1>1, <1>3, <1>4, <1>6, <1>9, <1>11, <2>1, ReadKeeps
<1> QED
  BY <1>10, <1>11

LEMMA ClosedKeeps ==
  ASSUME PaperInv, NEW totals \in BOOLEAN, WriteClosed(totals)
  PROVE  PaperInv'
<1>1. /\ Told(engine, closedTrades, wrote.trades, parsed.trades, parsed.pending, parsed.exiting, parsed.lastClosed)
      /\ IsEngine(engine) /\ HasFields(wrote, {"trades", "triggers", "deaths"})
  BY ToldParsed
<1> DEFINE t == TradeMade(engine, totals)
           closed == Read(parsed, ClosedLine(t))
           line == [tag |-> "totals", net |-> Points(t)]
<1>2. /\ engine.phase \in {"left", "booked"} /\ hour' = hour /\ engine' = Flat
      /\ wrote' = [wrote EXCEPT !.deaths = IF totals THEN @ ELSE @ + 1]
      /\ closedTrades' = Append(closedTrades, t) /\ parsed' = IF totals THEN Read(closed, line) ELSE closed
  BY DEF WriteClosed, TradeMade, ClosedLine
<1>3. CanRead(parsed) /\ engine'.phase # "closing"
  BY <1>2, ParserReadable, FlatIs
<1>4. HasFields(wrote', {"trades", "triggers", "deaths"}) /\ wrote'.trades = wrote.trades
  BY <1>1, <1>2 DEF HasFields
<1>5. CASE parsed.exiting # None
  <2> DEFINE i == parsed.exiting
             rows == [parsed.trades EXCEPT ![i] = ClosedRow(parsed.trades[i], t)]
             told == [rows EXCEPT ![i].net = <<Points(t)>>]
  <2>1. /\ i = TradeOf(parsed, t.no) /\ i \in Nat /\ i # None /\ parsed.pending = None
        /\ Told(Flat, Append(closedTrades, t), wrote.trades, IF totals THEN told ELSE rows, None, None, i)
    BY <1>1, <1>2, <1>5, ClosedKnownTold
  <2> HIDE DEF t
  <2>2. ReadAs(parsed, closed, rows, None, None, i)
    BY <1>3, <2>1, ReadClosed
  <2> HIDE DEF closed, rows
  <2>3. CASE totals
    <3>1. /\ CanRead(closed) /\ closed.lastClosed = i /\ closed.trades = rows /\ closed.pending = None /\ closed.exiting = None
      BY <1>3, <2>2, ReadThen DEF ReadAs
    <3>2. ReadAs(closed, Read(closed, line), told, None, None, i)
      BY <2>1, <3>1, ReadTotals
    <3> HIDE DEF told, line
    <3>3. ReadAs(parsed, parsed', told, None, None, i)
      BY <1>2, <1>3, <2>2, <2>3, <3>2, ReadThen
    <3> QED
      BY <1>2, <1>3, <1>4, <2>1, <2>3, <3>3, ReadKeeps
  <2>4. CASE ~totals
    <3>1. ReadAs(parsed, parsed', rows, None, None, i)
      BY <1>2, <2>2, <2>4
    <3> QED
      BY <1>2, <1>3, <1>4, <2>1, <2>4, <3>1, ReadKeeps
  <2> QED
    BY <2>3, <2>4
<1>6. CASE parsed.exiting = None
  <2> DEFINE i == Len(parsed.trades) + 1
             rows == Append(parsed.trades, ClosedRow(NewTrade(t.side, t.no), t))
             told == [rows EXCEPT ![i].net = <<Points(t)>>]
  <2>1. /\ TradeOf(parsed, t.no) = None /\ i # None /\ parsed.pending = None /\ parsed.trades \in Seq(Rows)
        /\ NewTrade(t.side, t.no) \in Rows
        /\ Told(Flat, Append(closedTrades, t), wrote.trades, IF totals THEN told ELSE rows, None, None, i)
    BY <1>1, <1>2, <1>6, ClosedMadeTold
  <2> HIDE DEF t
  <2>2. ReadAs(parsed, closed, rows, None, None, i)
    BY <1>3, <1>6, <2>1, ReadClosedNew
  <2> HIDE DEF closed, rows, i
  <2>3. CASE totals
    <3>1. /\ CanRead(closed) /\ closed.lastClosed = i /\ closed.trades = rows /\ closed.pending = None /\ closed.exiting = None
      BY <1>3, <2>2, ReadThen DEF ReadAs
    <3>2. ReadAs(closed, Read(closed, line), told, None, None, i)
      BY <2>1, <3>1, ReadTotals
    <3> HIDE DEF told, line
    <3>3. ReadAs(parsed, parsed', told, None, None, i)
      BY <1>2, <1>3, <2>2, <2>3, <3>2, ReadThen
    <3> QED
      BY <1>2, <1>3, <1>4, <2>1, <2>3, <3>3, ReadKeeps
  <2>4. CASE ~totals
    <3>1. ReadAs(parsed, parsed', rows, None, None, i)
      BY <1>2, <2>2, <2>4
    <3> QED
      BY <1>2, <1>3, <1>4, <2>1, <2>4, <3>1, ReadKeeps
  <2> QED
    BY <2>3, <2>4
<1> QED
  BY <1>5, <1>6

\* A death moves the engine, and its line says nothing.
LEMMA DeathTold ==
  ASSUME NEW e, NEW closed, NEW trades, NEW rows, NEW pending, NEW exiting, NEW lastClosed,
         Told(e, closed, trades, rows, pending, exiting, lastClosed), NEW px \in Nat \ {None}
  PROVE  /\ e.phase = "entering" =>
              Told([e EXCEPT !.phase = "held", !.entry = px], closed, trades, rows, pending, exiting, lastClosed)
         /\ e.phase = "entered" =>
              Told([e EXCEPT !.phase = "held"], closed, trades, rows, pending, exiting, lastClosed)
<1>1. PICK mine \in {None} \cup DOMAIN rows : RowsRead(rows, closed, mine) /\ Followed(e, rows, pending, exiting, mine)
  BY DEF Told
<1>2. EngineIs(e, trades)
  BY DEF Told
<1>3. ASSUME e.phase = "entering"
      PROVE  Told([e EXCEPT !.phase = "held", !.entry = px], closed, trades, rows, pending, exiting, lastClosed)
  <2> DEFINE f == [e EXCEPT !.phase = "held", !.entry = px]
  <2>1. EngineIs(f, trades) /\ f.phase = "held" /\ f.entry = px /\ f.no = e.no /\ f.side = e.side
    BY <1>2, <1>3, EngineHeld
  <2> HIDE DEF f
  <2>2. Followed(f, rows, pending, exiting, mine)
    BY <1>1, <1>3, <2>1 DEF Followed, Idle, Carries
  <2>3. Told(f, closed, trades, rows, pending, exiting, lastClosed)
    BY <1>1, <2>1, <2>2, MoveTold
  <2> QED
    BY <2>3 DEF f
<1>4. ASSUME e.phase = "entered"
      PROVE  Told([e EXCEPT !.phase = "held"], closed, trades, rows, pending, exiting, lastClosed)
  <2> DEFINE f == [e EXCEPT !.phase = "held"]
  <2>1. EngineIs(f, trades) /\ f.phase = "held" /\ f.entry = e.entry /\ f.no = e.no /\ f.side = e.side
    BY <1>2, <1>4, EngineMoved DEF Trading
  <2> HIDE DEF f
  <2>2. Followed(f, rows, pending, exiting, mine)
    BY <1>1, <1>4, <2>1 DEF Followed, Carries
  <2>3. Told(f, closed, trades, rows, pending, exiting, lastClosed)
    BY <1>1, <2>1, <2>2, MoveTold
  <2> QED
    BY <2>3 DEF f
<1> QED
  BY <1>3, <1>4

LEMMA DiesKeeps ==
  ASSUME PaperInv, NEW px \in Prices, Dies(px)
  PROVE  PaperInv'
<1>1. /\ Told(engine, closedTrades, wrote.trades, parsed.trades, parsed.pending, parsed.exiting, parsed.lastClosed)
      /\ IsEngine(engine) /\ HasFields(wrote, {"trades", "triggers", "deaths"})
  BY ToldParsed
<1>2. px \in Nat \ {None}
  BY PricesPositive
<1>3. /\ hour' = hour /\ closedTrades' = closedTrades /\ wrote' = [wrote EXCEPT !.deaths = @ + 1]
      /\ parsed' = Read(parsed, Line("other")) /\ engine.phase # "closing"
  BY DEF Dies, Write
<1>4. CanRead(parsed)
  BY <1>3, ParserReadable
<1>5. ReadAs(parsed, parsed', parsed.trades, parsed.pending, parsed.exiting, parsed.lastClosed)
  BY <1>3, <1>4, ReadNothing
<1>6. HasFields(wrote', {"trades", "triggers", "deaths"}) /\ wrote'.trades = wrote.trades
  BY <1>1, <1>3 DEF HasFields
<1>7. /\ Told(engine', closedTrades, wrote.trades, parsed.trades, parsed.pending, parsed.exiting, parsed.lastClosed)
      /\ engine'.phase # "closing"
  <2>1. CASE engine.phase \in {"flat", "signalled", "entering"} /\ engine' = Flat
    BY <1>1, <2>1, FlatIs, ToldSame
  <2>2. CASE engine.phase = "entering" /\ engine' = [engine EXCEPT !.phase = "held", !.entry = px]
    <3>1. Told([engine EXCEPT !.phase = "held", !.entry = px], closedTrades, wrote.trades, parsed.trades, parsed.pending,
               parsed.exiting, parsed.lastClosed)
      BY <1>1, <1>2, <2>2, DeathTold
    <3>2. engine'.phase # "closing"
      BY <1>1, <2>2 DEF IsEngine, HasFields
    <3> QED
      BY <2>2, <3>1, <3>2
  <2>3. CASE engine.phase = "entered" /\ engine' = [engine EXCEPT !.phase = "held"]
    <3>1. Told([engine EXCEPT !.phase = "held"], closedTrades, wrote.trades, parsed.trades, parsed.pending,
               parsed.exiting, parsed.lastClosed)
      BY <1>1, <1>2, <2>3, DeathTold
    <3>2. engine'.phase # "closing"
      BY <1>1, <2>3 DEF IsEngine, HasFields
    <3> QED
      BY <2>3, <3>1, <3>2
  <2>4. CASE engine.phase \in {"held", "exiting", "left", "booked"} /\ UNCHANGED engine
    BY <1>1, <1>3, <2>4
  <2> QED
    BY <2>1, <2>2, <2>3, <2>4 DEF Dies
<1> QED
  BY <1>3, <1>5, <1>6, <1>7, ReadKeeps

LEMMA SummaryKeeps ==
  ASSUME PaperInv, WriteSummary
  PROVE  PaperInv'
<1> DEFINE n == Len(closedTrades)
           sum == PointsMade
           filled == [parsed EXCEPT !.inSummary = TRUE, !.summary = [closed |-> n, net |-> sum]]
<1>1. /\ Told(engine, closedTrades, wrote.trades, parsed.trades, parsed.pending, parsed.exiting, parsed.lastClosed)
      /\ IsEngine(engine) /\ HasFields(wrote, {"trades", "triggers", "deaths"})
  BY ToldParsed
<1>2. /\ engine.phase = "flat" /\ hour' = hour /\ closedTrades' = closedTrades /\ wrote' = wrote
      /\ engine' = [engine EXCEPT !.phase = "closing"]
  BY DEF WriteSummary
<1>3. CanRead(parsed) /\ parsed.summary.closed = -1
  BY <1>2, ParserReadable
<1>4. AtTime(filled, parsed', hour \div 24, hour % 24, hour)
  <2>1. parsed' = Read(Read(Read(parsed, Line("summary")), [tag |-> "figures", closed |-> n, net |-> sum]), Line("other"))
    BY DEF WriteSummary
  <2> HIDE DEF n, sum
  <2> QED
    BY <1>3, <2>1, ReadSummary
<1>5. /\ filled.trades = parsed.trades /\ filled.pending = parsed.pending /\ filled.exiting = parsed.exiting
      /\ filled.lastClosed = parsed.lastClosed /\ filled.lastSignal = parsed.lastSignal /\ filled.signals = parsed.signals
      /\ filled.inSummary = TRUE /\ filled.summary = [closed |-> n, net |-> sum]
  <2> HIDE DEF n, sum
  <2> QED
    BY <1>3 DEF CanRead, IsParser, HasFields, ParserFields
<1> HIDE DEF filled
<1>6. IsEngine(engine') /\ engine'.phase = "closing" /\ engine'.no = engine.no
  BY <1>1, <1>2 DEF IsEngine, HasFields
<1>7. Told(engine', closedTrades, wrote.trades, parsed.trades, parsed.pending, parsed.exiting, parsed.lastClosed)
  <2>1. PICK mine \in {None} \cup DOMAIN parsed.trades :
          /\ RowsRead(parsed.trades, closedTrades, mine)
          /\ Followed(engine, parsed.trades, parsed.pending, parsed.exiting, mine)
    BY <1>1 DEF Told
  <2>2. Followed(engine', parsed.trades, parsed.pending, parsed.exiting, mine)
    BY <1>2, <1>6, <2>1 DEF Followed
  <2>3. EngineIs(engine', wrote.trades)
    BY <1>6 DEF EngineIs, Trading
  <2> QED
    BY <1>1, <1>6, <2>1, <2>2, <2>3, MoveTold
<1>8. Told(engine, closedTrades, wrote.trades, parsed.trades, parsed.pending, parsed.exiting, parsed.lastClosed)'
  BY <1>2, <1>4, <1>5, <1>7 DEF AtTime
<1>9. SummaryRead'
  <2>1. PointsMade' = PointsMade
    BY <1>2 DEF PointsMade
  <2> QED
    BY <1>2, <1>4, <1>5, <1>6, <2>1 DEF SummaryRead, AtTime
<1>10. ClockRight'
  <2>1. hour % 24 # -1
    BY HourIs DEF PaperInv
  <2> QED
    BY <1>2, <1>4, <2>1 DEF ClockRight, StampsTell, AtTime
<1>11. IsParser(parsed') /\ parsed'.lastSignal \in {None} \cup DOMAIN parsed'.signals
  BY <1>3, <1>4, <1>5 DEF AtTime, CanRead
<1> QED
  BY <1>1, <1>2, <1>8, <1>9, <1>10, <1>11 DEF PaperInv

\* The day of a bare time, told from the clock before it.
LEMMA LaterDay ==
  ASSUME hour \in Nat, NEW later \in Nat, hour <= later, later <= hour + 12
  PROVE  later \div 24 = IF later % 24 < hour % 24 /\ (hour % 24) - (later % 24) >= 12 THEN (hour \div 24) + 1
                         ELSE hour \div 24
<1> DEFINE c == hour % 24
           d == hour \div 24
           c2 == later % 24
           d2 == later \div 24
<1>1. c \in 0 .. 23 /\ d \in Nat /\ 24 * d + c = hour
  BY HourIs
<1>2. c2 \in 0 .. 23 /\ d2 \in Nat /\ 24 * d2 + c2 = later
  BY HourIs
<1> HIDE DEF c, d, c2, d2
<1>3. d2 = IF c2 < c /\ c - c2 >= 12 THEN d + 1 ELSE d
  BY <1>1, <1>2
<1> QED
  BY <1>3 DEF c, d, c2, d2

\* A line some hours later, whatever its stamp.
LEMMA LaterIs ==
  ASSUME NEW q, IsParser(q), hour \in Nat, q.clock = hour % 24, q.day = hour \div 24,
         NEW later \in Nat, hour <= later, later <= hour + 12,
         NEW stamp \in {"full", "time", "none"}, stamp = "none" => later = hour
  PROVE  \E told \in {-1, later} : AtTime(q, Stamped(q, stamp, later), later \div 24, later % 24, told)
<1> DEFINE day == later \div 24
           clock == later % 24
<1>1. later \in Int /\ day \in Int /\ clock \in Int /\ 24 * day + clock = later
  BY HourIs
<1>2. day = IF clock < q.clock /\ q.clock - clock >= 12 THEN q.day + 1 ELSE q.day
  BY LaterDay
<1>3. q.clock >= 0
  BY HourIs
<1>4. CASE stamp = "none"
  <2>1. later = hour /\ Stamped(q, stamp, later) = [q EXCEPT !.stamp = -1]
    BY <1>4 DEF Stamped
  <2>2. AtTime(q, [q EXCEPT !.stamp = -1], q.day, q.clock, -1)
    BY DEF AtTime, IsParser, HasFields, ParserFields
  <2> QED
    BY <2>1, <2>2
<1>5. CASE stamp = "full"
  <2>1. Stamped(q, stamp, later) = [q EXCEPT !.day = day, !.clock = clock, !.stamp = 24 * day + clock]
    BY <1>5 DEF Stamped
  <2> HIDE DEF day, clock
  <2>2. AtTime(q, [q EXCEPT !.day = day, !.clock = clock, !.stamp = later], day, clock, later)
    <3>1. later \in Int /\ day \in Int /\ clock \in Int
      BY <1>1
    <3> QED
      BY <3>1, AtTimeIs
  <2> QED
    BY <1>1, <2>1, <2>2 DEF day, clock
<1>6. CASE stamp = "time"
  <2>1. Stamped(q, stamp, later) = [q EXCEPT !.day = day, !.clock = clock, !.stamp = 24 * day + clock]
    <3> DEFINE read == CASE stamp = "full" -> later \div 24
                         [] stamp = "time" /\ q.clock >= 0 /\ clock < q.clock /\ q.clock - clock >= 12 -> q.day + 1
                         [] OTHER -> q.day
    <3>1. Stamped(q, stamp, later) = [q EXCEPT !.day = read, !.clock = clock, !.stamp = 24 * read + clock]
      BY <1>6 DEF Stamped
    <3>2. read = day
      <4> HIDE DEF day, clock
      <4> QED
        BY <1>2, <1>3, <1>6
    <3> QED
      BY <3>1, <3>2
  <2> HIDE DEF day, clock
  <2>2. AtTime(q, [q EXCEPT !.day = day, !.clock = clock, !.stamp = later], day, clock, later)
    <3>1. later \in Int /\ day \in Int /\ clock \in Int
      BY <1>1
    <3> QED
      BY <3>1, AtTimeIs
  <2> QED
    BY <1>1, <2>1, <2>2 DEF day, clock
<1> QED
  BY <1>4, <1>5, <1>6

LEMMA LaterKeeps ==
  ASSUME PaperInv, NEW gap \in Gaps \cup {0}, NEW stamp \in {"full", "time", "none"}, WriteLater(gap, stamp)
  PROVE  PaperInv'
<1> DEFINE q == IF parsed.clock = -1 THEN Stamped(parsed, "full", hour) ELSE parsed
<1>1. /\ engine' = engine /\ closedTrades' = closedTrades /\ wrote' = wrote /\ hour' = hour + gap
      /\ engine.phase = "flat" /\ (stamp = "none" => gap = 0) /\ gap \in 0 .. 12
  <2>1. gap \in 0 .. 12
    BY PaperAssumption
  <2>2. engine = Flat
    BY DEF WriteLater
  <2>3. engine.phase = "flat"
    BY <2>2, FlatIs
  <2> QED
    BY <2>1, <2>3 DEF WriteLater
<1>2. parsed' = Stamped(q, stamp, hour + gap)
  <2>1. parsed' = Feed(Stamped(q, stamp, hour'), Line("other"))
    BY DEF WriteLater
  <2>2. \A r : Feed(r, Line("other")) = r
    BY DEF Feed, Line
  <2> HIDE DEF q
  <2> QED
    BY <1>1, <2>1, <2>2
<1>3. IsParser(parsed) /\ hour \in Nat /\ ~parsed.inSummary /\ parsed.summary.closed = -1
  BY <1>1, ParserReadable DEF PaperInv
<1>4. \E s \in Int : AtTime(parsed, q, hour \div 24, hour % 24, s)
  <2>1. CASE parsed.clock = -1
    <3>1. hour \in Int
      BY <1>3
    <3> QED
      BY <1>3, <2>1, <3>1, StampedIs
  <2>2. CASE parsed.clock # -1
    <3>1. q = parsed /\ parsed.clock = hour % 24 /\ parsed.day = hour \div 24 /\ parsed.stamp \in Int
      BY <1>3, <2>2 DEF PaperInv, ClockRight, IsParser
    <3>2. AtTime(parsed, parsed, hour \div 24, hour % 24, parsed.stamp)
      BY <1>3, <3>1 DEF AtTime
    <3> QED
      BY <3>1, <3>2
  <2> QED
    BY <2>1, <2>2
<1> HIDE DEF q
<1>5. IsParser(q) /\ q.clock = hour % 24 /\ q.day = hour \div 24
  BY <1>4 DEF AtTime
<1>6. PICK told \in {-1, hour + gap} : AtTime(q, parsed', (hour + gap) \div 24, (hour + gap) % 24, told)
  <2> DEFINE later == hour + gap
  <2>1. later \in Nat /\ hour <= later /\ later <= hour + 12 /\ (stamp = "none" => later = hour)
    BY <1>1, <1>3
  <2> HIDE DEF later
  <2>2. \E told \in {-1, later} : AtTime(q, Stamped(q, stamp, later), later \div 24, later % 24, told)
    BY <1>3, <1>5, <2>1, LaterIs
  <2> QED
    BY <1>2, <2>2 DEF later
<1>7. /\ IsParser(parsed') /\ parsed'.trades = parsed.trades /\ parsed'.pending = parsed.pending
      /\ parsed'.exiting = parsed.exiting /\ parsed'.lastClosed = parsed.lastClosed
      /\ parsed'.lastSignal = parsed.lastSignal /\ parsed'.signals = parsed.signals
      /\ parsed'.inSummary = parsed.inSummary /\ parsed'.summary = parsed.summary
      /\ parsed'.clock = (hour + gap) % 24 /\ parsed'.day = (hour + gap) \div 24 /\ parsed'.stamp = told
  BY <1>4, <1>6 DEF AtTime
<1>8. ClockRight'
  <2>1. hour + gap \in Nat
    BY <1>1, <1>3
  <2>2. (hour + gap) % 24 # -1
    BY <2>1, HourIs
  <2> QED
    BY <1>1, <1>6, <1>7, <2>2 DEF ClockRight, StampsTell
<1>9. SummaryRead'
  BY <1>1, <1>3, <1>7 DEF SummaryRead
<1>10. Told(engine, closedTrades, wrote.trades, parsed.trades, parsed.pending, parsed.exiting, parsed.lastClosed)'
  BY <1>1, <1>7 DEF PaperInv
<1> QED
  BY <1>1, <1>3, <1>7, <1>8, <1>9, <1>10 DEF PaperInv

LEMMA PaperStep ==
  ASSUME PaperInv, [PaperNext]_paperVars
  PROVE  PaperInv'
<1>1. ASSUME NEW bar \in SignalBars, NEW side \in Sides, NEW pass \in BOOLEAN, WriteTrigger(bar, side, pass)
      PROVE  PaperInv'
  BY <1>1, TriggerKeeps
<1>2. CASE WriteNoEntries
  BY <1>2, NoEntriesKeeps
<1>3. CASE WriteEntry
  BY <1>3, EntryKeeps
<1>4. CASE WriteBooked
  BY <1>4, BookedKeeps
<1>5. CASE WriteExit
  BY <1>5, ExitKeeps
<1>6. CASE WriteSummary
  BY <1>6, SummaryKeeps
<1>7. ASSUME NEW px \in Prices, WriteFill(px)
      PROVE  PaperInv'
  BY <1>7, FillKeeps
<1>8. ASSUME NEW px \in Prices, Dies(px)
      PROVE  PaperInv'
  BY <1>8, DiesKeeps
<1>9. ASSUME NEW totals \in BOOLEAN, WriteClosed(totals)
      PROVE  PaperInv'
  BY <1>9, ClosedKeeps
<1>10. ASSUME NEW gap \in Gaps \cup {0}, NEW stamp \in {"full", "time", "none"}, WriteLater(gap, stamp)
       PROVE  PaperInv'
  BY <1>10, LaterKeeps
<1>11. CASE UNCHANGED paperVars
  BY <1>11 DEF paperVars, PaperInv, SummaryRead, ClockRight, StampsTell, PointsMade
<1> QED
  BY <1>1, <1>2, <1>3, <1>4, <1>5, <1>6, <1>7, <1>8, <1>9, <1>10, <1>11 DEF PaperNext

-----------------------------------------------------------------------------
\* Where it begins, and what follows.
Began(e) ==
  \/ e = Flat
  \/ \E side \in Sides : e = [Flat EXCEPT !.phase = "held", !.no = 1, !.side = side, !.entry = Min(Prices)]

LEMMA NewParserIs ==
  /\ IsParser(NewParser) /\ NewParser.signals = <<>> /\ NewParser.trades = <<>> /\ NewParser.inSummary = FALSE
  /\ NewParser.pending = None /\ NewParser.exiting = None /\ NewParser.lastClosed = None /\ NewParser.lastSignal = None
  /\ NewParser.summary.closed = -1 /\ NewParser.day = 0 /\ NewParser.clock = -1 /\ NewParser.stamp = -1
<1> DEFINE p == NewParser
<1>1. /\ HasFields(p, ParserFields) /\ p.signals = <<>> /\ p.trades = <<>> /\ p.inSummary = FALSE
      /\ p.pending = None /\ p.exiting = None /\ p.lastClosed = None /\ p.lastSignal = None
      /\ p.summary.closed = -1 /\ p.day = 0 /\ p.clock = -1 /\ p.stamp = -1
  BY DEF NewParser, HasFields, ParserFields
<1> HIDE DEF p
<1>2. p.signals \in Signals
  BY <1>1 DEF Signals
<1>3. None \in Nat /\ 0 \in Int /\ -1 \in Int
  BY DEF None
<1> HIDE DEF Signals, None
<1>4. IsParser(p)
  BY <1>1, <1>2, <1>3 DEF IsParser
<1> QED
  BY <1>1, <1>4 DEF p

LEMMA PaperBegins ==
  ASSUME Began(engine), closedTrades = <<>>, hour = 9, wrote = [trades |-> 1, triggers |-> 0, deaths |-> 0],
         parsed = NewParser
  PROVE  PaperInv
<1>1. /\ parsed.signals = <<>> /\ parsed.trades = <<>> /\ parsed.inSummary = FALSE
      /\ parsed.pending = None /\ parsed.exiting = None /\ parsed.lastClosed = None /\ parsed.lastSignal = None
      /\ parsed.summary.closed = -1 /\ parsed.day = 0 /\ parsed.clock = -1 /\ parsed.stamp = -1
  BY NewParserIs
<1>2. IsParser(parsed)
  BY NewParserIs
<1>3. HasFields(wrote, {"trades", "triggers", "deaths"}) /\ wrote.trades = 1 /\ 1 \in 1 .. MaxPaperTrades
  BY PaperAssumption DEF HasFields
<1>4. /\ EngineIs(engine, 1) /\ engine.phase # "closing"
      /\ Followed(engine, <<>>, None, None, None)
  <2>1. CASE engine = Flat
    BY <2>1, FlatIs DEF EngineIs, Trading, Followed
  <2>2. ASSUME NEW side \in Sides, engine = [Flat EXCEPT !.phase = "held", !.no = 1, !.side = side, !.entry = Min(Prices)]
        PROVE  /\ EngineIs(engine, 1) /\ engine.phase # "closing"
               /\ Followed(engine, <<>>, None, None, None)
    <3> DEFINE entry == Min(Prices)
    <3>1. entry \in Nat /\ entry # None
      <4>1. Prices \in SUBSET Nat /\ Prices # {}
        BY PaperAssumption
      <4>2. entry \in Prices
        BY <4>1, MinIn
      <4> QED
        BY <4>2, PricesPositive
    <3> HIDE DEF entry
    <3>2. engine = [Flat EXCEPT !.phase = "held", !.no = 1, !.side = side, !.entry = entry]
      BY <2>2 DEF entry
    <3>3. /\ HasFields(engine, {"phase", "no", "side", "entry", "exit"}) /\ engine.phase = "held" /\ engine.no = 1
          /\ engine.side = side /\ engine.entry = entry /\ engine.exit = Flat.exit
      BY <3>2, FlatIs DEF IsEngine, HasFields
    <3>4. engine.exit \in Nat
      BY <3>3, FlatIs DEF IsEngine
    <3>5. EngineIs(engine, 1)
      BY <3>1, <3>3, <3>4 DEF EngineIs, IsEngine, Trading
    <3> QED
      BY <3>3, <3>5 DEF Followed
  <2> QED
    BY <2>1, <2>2 DEF Began
<1>5. RowsRead(<<>>, <<>>, None)
  BY DEF RowsRead
<1>6. Told(engine, <<>>, 1, <<>>, None, None, None)
  BY <1>3, <1>4, <1>5 DEF Told, NumbersKnown
<1>7. SummaryRead /\ ClockRight
  BY <1>1, <1>4 DEF SummaryRead, ClockRight, StampsTell
<1> QED
  BY <1>1, <1>2, <1>3, <1>6, <1>7 DEF PaperInv

LEMMA TradesReadFromInv ==
  ASSUME PaperInv
  PROVE  TradesRead
<1>1. PICK mine : RowsRead(parsed.trades, closedTrades, mine)
  BY DEF PaperInv, Told
<1> DEFINE rows == parsed.trades
<1> SUFFICES ASSUME NEW k \in DOMAIN closedTrades,
                    NEW found, found = {i \in DOMAIN rows : rows[i].no = closedTrades[k].no}
             PROVE  /\ Cardinality(found) = 1
                    /\ \A i \in found : LET r == rows[i] IN
                         /\ r.closed /\ r.side = closedTrades[k].side /\ r.entry = closedTrades[k].entry
                         /\ r.exit = closedTrades[k].exit
                         /\ closedTrades[k].totals => r.net = <<Points(closedTrades[k])>>
  BY DEF TradesRead
<1>2. PICK i \in DOMAIN rows : IsRead(rows[i], closedTrades[k])
  BY <1>1 DEF RowsRead
<1>3. closedTrades[k].no # None
  <2>1. closedTrades \in Seq(ClosedTrades)
    BY <1>1 DEF RowsRead
  <2> QED
    BY <2>1, ClosedTradeIs
<1>4. found = {i}
  BY <1>1, <1>2, <1>3 DEF RowsRead, IsRead
<1> QED
  BY <1>2, <1>4, FS_Singleton DEF IsRead

LEMMA OpenTradesFromInv ==
  ASSUME PaperInv
  PROVE  OpenTradesReal
<1>1. PICK mine : /\ RowsRead(parsed.trades, closedTrades, mine)
                  /\ Followed(engine, parsed.trades, parsed.pending, parsed.exiting, mine)
  BY DEF PaperInv, Told
<1> SUFFICES ASSUME NEW i \in DOMAIN parsed.trades, NEW r, r = parsed.trades[i], ~r.closed, r.entry # None
             PROVE  /\ engine.phase \in {"entered", "held", "exiting", "left", "booked"}
                    /\ r.side = engine.side /\ r.entry = engine.entry /\ r.no \in {None, engine.no}
  BY DEF OpenTradesReal
<1>2. i = mine
  BY <1>1 DEF RowsRead, Idle
<1>3. mine # None
  <2>1. parsed.trades \in Seq(Rows)
    BY <1>1 DEF RowsRead
  <2> QED
    BY <1>2, <2>1 DEF None
<1> QED
  BY <1>1, <1>2, <1>3 DEF Followed, Carries, Idle

\* The closed trades are read one to one.
LEMMA ClosedAreRead ==
  ASSUME NEW rows, NEW closed, NEW mine, RowsRead(rows, closed, mine)
  PROVE  \E h \in [DOMAIN closed -> {i \in DOMAIN rows : rows[i].closed}] :
           /\ \A k \in DOMAIN closed : IsRead(rows[h[k]], closed[k])
           /\ \A k, l \in DOMAIN closed : h[k] = h[l] => k = l
           /\ \A i \in DOMAIN rows : rows[i].closed => \E k \in DOMAIN closed : h[k] = i
<1> DEFINE h == [k \in DOMAIN closed |-> CHOOSE i \in DOMAIN rows : IsRead(rows[i], closed[k])]
<1>1. \A k \in DOMAIN closed : h[k] \in DOMAIN rows /\ IsRead(rows[h[k]], closed[k])
  BY DEF RowsRead
<1>2. h \in [DOMAIN closed -> {i \in DOMAIN rows : rows[i].closed}]
  BY <1>1 DEF IsRead
<1> HIDE DEF h
<1>3. ASSUME NEW k \in DOMAIN closed, NEW l \in DOMAIN closed, h[k] = h[l]
      PROVE  k = l
  <2>1. IsRead(rows[h[k]], closed[k]) /\ IsRead(rows[h[k]], closed[l])
    BY <1>1, <1>3
  <2>2. closed[k].no = closed[l].no
    BY <2>1 DEF IsRead
  <2> QED
    BY <2>2 DEF RowsRead
<1>4. ASSUME NEW i \in DOMAIN rows, rows[i].closed
      PROVE  \E k \in DOMAIN closed : h[k] = i
  <2>1. PICK k \in DOMAIN closed : IsRead(rows[i], closed[k])
    BY <1>4 DEF RowsRead
  <2>2. closed \in Seq(ClosedTrades)
    BY DEF RowsRead
  <2>3. closed[k].no # None
    BY <2>2, ClosedTradeIs
  <2>4. h[k] = i
    BY <1>1, <2>1, <2>3 DEF RowsRead, IsRead
  <2> QED
    BY <2>4
<1> QED
  BY <1>1, <1>2, <1>3, <1>4

LEMMA ReconciledFromInv ==
  ASSUME PaperInv
  PROVE  ReconciledHonest
<1> SUFFICES ASSUME parsed.inSummary PROVE ReconciledHonest
  BY DEF ReconciledHonest
<1>1. PICK mine : RowsRead(parsed.trades, closedTrades, mine)
  BY DEF PaperInv, Told
<1>2. parsed.summary.closed = Len(closedTrades) /\ parsed.summary.net = PointsMade
  BY DEF PaperInv, SummaryRead
<1> DEFINE rows == parsed.trades
           D == DOMAIN closedTrades
<1>3. PICK h \in [D -> {i \in DOMAIN rows : rows[i].closed}] :
           /\ \A k \in D : IsRead(rows[h[k]], closedTrades[k])
           /\ \A k, l \in D : h[k] = h[l] => k = l
           /\ \A i \in DOMAIN rows : rows[i].closed => \E k \in D : h[k] = i
  BY <1>1, ClosedAreRead
<1>4. closedTrades \in Seq(ClosedTrades) /\ rows \in Seq(Rows)
  BY <1>1 DEF RowsRead
<1>5. IsFiniteSet(D) /\ Cardinality(D) = Len(closedTrades) /\ Len(closedTrades) \in Nat
  <2>1. D = 1 .. Len(closedTrades) /\ Len(closedTrades) \in Nat
    BY <1>4
  <2> DEFINE n == Len(closedTrades)
  <2> HIDE DEF n
  <2>2. IsFiniteSet(1 .. n) /\ Cardinality(1 .. n) = IF 1 > n THEN 0 ELSE n - 1 + 1
    BY <2>1, FS_Interval DEF n
  <2>3. Cardinality(1 .. n) = n
    BY <2>1, <2>2 DEF n
  <2> QED
    BY <2>1, <2>2, <2>3 DEF n
<1>6. ClosedParsed = {i \in DOMAIN rows : rows[i].closed}
  BY DEF ClosedParsed
<1>7. IsFiniteSet(ClosedParsed) /\ Cardinality(ClosedParsed) = Len(closedTrades)
  <2>1. h \in [D -> ClosedParsed] /\ \A i \in ClosedParsed : \E k \in D : h[k] = i
    BY <1>3, <1>6
  <2>2. h \in Bijection(D, ClosedParsed)
    BY <1>3, <2>1 DEF Bijection, Injection, Surjection, IsInjective
  <2> QED
    BY <1>5, <2>2, FS_Bijection DEF ExistsBijection
<1> DEFINE made == [k \in D |-> Points(closedTrades[k])]
           told == [i \in ClosedParsed |-> IF rows[i].net = <<>> THEN 0 ELSE rows[i].net[1]]
<1>8. PointsMade = SumFunctionOnSet(made, D) /\ NetParsed = SumFunctionOnSet(told, ClosedParsed)
  <2>1. DOMAIN made = D /\ DOMAIN told = ClosedParsed
    OBVIOUS
  <2>2. PointsMade = SumFunction(made) /\ NetParsed = SumFunction(told)
    BY DEF PointsMade, NetParsed
  <2> HIDE DEF made, told
  <2> QED
    BY <2>1, <2>2 DEF SumFunction
<1>9. \A k \in D : made[k] \in Int
  <2> SUFFICES ASSUME NEW k \in D PROVE Points(closedTrades[k]) \in Int
    OBVIOUS
  <2> QED
    BY <1>4, ClosedTradeIs DEF Points
<1>10. ASSUME NEW k \in D
       PROVE  told[h[k]] = IF closedTrades[k].totals THEN made[k] ELSE 0
  <2> DEFINE net == rows[h[k]].net
  <2>1. h[k] \in ClosedParsed
    BY <1>3, <1>6
  <2>2. told[h[k]] = IF net = <<>> THEN 0 ELSE net[1]
    BY <2>1
  <2>3. net = IF closedTrades[k].totals THEN <<made[k]>> ELSE <<>>
    BY <1>3 DEF IsRead
  <2> HIDE DEF net, told, made
  <2>4. CASE closedTrades[k].totals
    BY <2>2, <2>3, <2>4
  <2>5. CASE ~closedTrades[k].totals
    BY <2>2, <2>3, <2>5
  <2> QED
    BY <2>4, <2>5
<1>11. \A i \in ClosedParsed : told[i] \in Int
  <2> SUFFICES ASSUME NEW i \in ClosedParsed PROVE told[i] \in Int
    OBVIOUS
  <2>1. PICK k \in D : h[k] = i
    BY <1>3, <1>6
  <2>2. told[i] \in {made[k], 0}
    BY <1>10, <2>1
  <2> HIDE DEF told, made
  <2> QED
    BY <1>9, <2>2
<1> HIDE DEF made, told
<1>12. PointsMade \in Int /\ NetParsed \in Int
  BY <1>5, <1>7, <1>8, <1>9, <1>11, SumInt
<1>13. ASSUME Consistent
       PROVE  Cardinality(ClosedParsed) = Len(closedTrades) /\ NetParsed - PointsMade \in {-1, 0, 1}
  <2>1. parsed.summary.net - NetParsed \in {-1, 0, 1}
    BY <1>2, <1>5, <1>13 DEF Consistent
  <2> QED
    BY <1>2, <1>7, <1>12, <2>1
<1>14. ASSUME \A k \in D : closedTrades[k].totals
       PROVE  Consistent
  <2>1. \A k \in D : told[h[k]] = made[k]
    BY <1>10, <1>14
  <2>2. ClosedParsed = {h[k] : k \in D}
    BY <1>3, <1>6
  <2>3. Renames(h, made, D, told, ClosedParsed)
    BY <1>3, <1>9, <2>1, <2>2 DEF Renames, Makes
  <2>4. NetParsed = PointsMade
    BY <1>5, <1>8, <2>3, SumRenamed
  <2> QED
    BY <1>2, <1>7, <1>12, <2>4 DEF Consistent
<1> QED
  BY <1>13, <1>14 DEF ReconciledHonest

LEMMA PaperReadsFromInv ==
  ASSUME PaperInv
  PROVE  PaperLogReads
<1>1. StampsTell
  BY DEF PaperInv, ClockRight
<1> QED
  BY <1>1, TradesReadFromInv, OpenTradesFromInv, ReconciledFromInv DEF PaperLogReads

LEMMA PaperTypesFromInv ==
  ASSUME PaperInv
  PROVE  PaperTypeOK
<1>1. PICK mine : RowsRead(parsed.trades, closedTrades, mine) /\ Followed(engine, parsed.trades, parsed.pending, parsed.exiting, mine)
  BY DEF PaperInv, Told
<1>2. EngineIs(engine, wrote.trades) /\ wrote.trades \in 1 .. MaxPaperTrades
  BY DEF PaperInv, Told
<1>3. engine.phase \in {"flat", "signalled", "entering", "entered", "held", "exiting", "left", "booked", "closing"}
  BY <1>2 DEF EngineIs, IsEngine, Trading
<1>4. ASSUME NEW i \in DOMAIN parsed.trades
      PROVE  parsed.trades[i].side \in Sides /\ parsed.trades[i].no \in 0 .. MaxPaperTrades
  <2>1. parsed.trades[i] \in Rows
    <3>1. parsed.trades \in Seq(Rows)
      BY <1>1 DEF RowsRead
    <3> HIDE DEF Rows
    <3> QED
      BY <3>1, SeqAt
  <2>2. parsed.trades[i].side \in Sides /\ parsed.trades[i].no \in Nat /\ parsed.trades[i].closed \in BOOLEAN
    BY <2>1, RowIs DEF IsRow
  <2>3. CASE parsed.trades[i].closed
    <3>1. PICK k \in DOMAIN closedTrades : IsRead(parsed.trades[i], closedTrades[k])
      BY <1>1, <2>3 DEF RowsRead
    <3>2. closedTrades[k].no \in 1 .. wrote.trades
      BY DEF PaperInv, Told, NumbersKnown
    <3> QED
      BY <1>2, <2>2, <3>1, <3>2, PaperAssumption DEF IsRead
  <2>4. CASE ~parsed.trades[i].closed
    <3>1. i # None
      BY <1>1 DEF RowsRead, None
    <3>2. parsed.trades[i].no = None \/ (parsed.trades[i].no = engine.no /\ engine.phase \in Trading)
      BY <1>1, <2>4, <3>1 DEF RowsRead, Idle, Followed, Carries, Trading
    <3>3. engine.phase \in Trading => engine.no \in 1 .. wrote.trades
      BY <1>2 DEF EngineIs
    <3> QED
      BY <1>2, <2>2, <3>2, <3>3, PaperAssumption DEF None
  <2> QED
    BY <2>3, <2>4, <2>2
<1>5. {parsed.pending, parsed.exiting, parsed.lastClosed} \subseteq {None} \cup DOMAIN parsed.trades
  BY <1>1 DEF PaperInv, Told, Followed, RowsRead
<1>6. parsed.lastSignal \in {None} \cup DOMAIN parsed.signals
  BY DEF PaperInv
<1> QED
  BY <1>3, <1>4, <1>5, <1>6 DEF PaperTypeOK
-----------------------------------------------------------------------------
(***************************************************************************)
(* The components side by side.                                            *)
(***************************************************************************)
\* Every component begins and steps as it would alone.
LEMMA PartsBehave ==
  LabSpec => /\ AllocatorSpec
             /\ HistoryInit /\ [][HistoryNext]_historyVars
             /\ NewsInit /\ [][NewsNext]_newsVars
<1>1. LabInit => AllocatorInit /\ HistoryInit /\ NewsInit
  BY DEF LabInit
<1>2. [LabNext]_LabVars =>
        [AllocatorNext]_allocatorVars /\ [HistoryNext]_historyVars /\ [NewsNext]_newsVars
  BY DEF LabNext, LabVars, Others
<1> QED
  BY <1>1, <1>2, PTL DEF LabSpec, AllocatorSpec

\* Whatever runs, commands and deaths interleave: a saved kill stands until it is taken back unless
\* a save crossed another, an instruction written under it is for 0 units, and no sleeve stands above
\* its status in book.yaml.  A bot trades no more than the last instruction says, and where it says 0
\* nothing, and in shadow; except that a sleeve of contracts trades one contract on an instruction
\* that has run out, whatever it says, also 0 under a kill (read_instruction).
THEOREM AllocatorIsObeyed == LabSpec => []AllocatorObeys
  BY AllocatorStays, ObeyedFromInv, PartsBehave, PTL

\* However often a session is allocated again, a run releases a braked sleeve only after as many
\* rises in a row as book.yaml asks for, unless a save crossed another or a state file was lost.
THEOREM ReleasesAreEarned == LabSpec => ReleaseIsEarned
<1>1. AllocatorInv /\ [AllocatorNext]_allocatorVars =>
        [\A s \in Sleeves :
           clean' /\ run' = NoRun /\ command' = command /\ Braked(book, s) /\ book' # Torn /\ ~Braked(book', s)
             => Rises(seen'[s], Config[s].recover)]_allocatorVars
  BY ReleasesFromInv
<1> QED
  BY <1>1, AllocatorStays, PartsBehave, PTL DEF AllocatorSpec, ReleaseIsEarned

\* However fetches, joins and splits follow each other, no run of a tool but a fetch of the whole
\* history changes or drops a row, no file of bars mixes the two sides of a split or has a hole of
\* more than one session, and the news files lose nothing and hold a url once.
THEOREM FilesAreKept == LabSpec => FilesKept
  BY HistoryStays, NewsStay, PartsBehave, PTL DEF FilesKept

\* The supervisor only restrains: an application leaves no sleeve it came to, and whose own files,
\* gates, switch and binding have not moved since it began, to be halted or reduced, also where it
\* failed at a later one; one more warning never enlarges a verdict, and no verdict is for more
\* than the validated contracts.
THEOREM SupervisorIsRestraining == LabSpec => []SupervisorRestrains
<1>1. LabInit => ContextInv
  BY ContextBegins
<1>2. ContextInv /\ [LabNext]_LabVars => ContextInv'
  <2>1. [LabNext]_LabVars => [ContextNext]_contextVars
    BY DEF LabNext, LabVars, Others
  <2> QED
    BY <2>1, ContextStep
<1> QED
  BY <1>1, <1>2, RestrainsFromInv, PTL DEF LabSpec

LEMMA SimulatorBeginsInLab == LabInit => SimulatorInv
<1> SUFFICES ASSUME LabInit PROVE SimulatorInv
  OBVIOUS
<1>1. tape = <<>> /\ openTrades = {} /\ tradeRows = {} /\ dailyPnl = 0 /\ simMode \in SimModes
  BY DEF LabInit, SimulatorInit, SimModes
<1> QED
  BY <1>1, SimulatorStarts

\* Whatever enters, stops, gaps and rebalances, and in every simulator, the daily P&L is what the closed
\* trades made and the open ones stand at, each fill is at a price of its day, slippage aside, and no
\* more trades are open than allowed.
THEOREM SimulatorsAreHonest == LabSpec => []SimulatorHonest
<1>1. LabInit => SimulatorInv
  BY SimulatorBeginsInLab
<1>2. SimulatorInv /\ [LabNext]_LabVars => SimulatorInv'
  <2>1. [LabNext]_LabVars => [SimulatorNext]_simulatorVars
    BY DEF LabNext, LabVars, Others
  <2> QED
    BY <2>1, SimulatorHolds
<1>3. SimulatorInv => SimulatorHonest
  BY SimulatorInvImplies DEF SimulatorHonest
<1> QED
  BY <1>1, <1>2, <1>3, PTL DEF LabSpec

LEMMA PaperBeginsInLab == LabInit => PaperInv
<1> SUFFICES ASSUME LabInit PROVE PaperInv
  OBVIOUS
<1>1. /\ Began(engine) /\ closedTrades = <<>> /\ hour = 9 /\ parsed = NewParser
      /\ wrote = [trades |-> 1, triggers |-> 0, deaths |-> 0]
  BY DEF LabInit, PaperInit, Began
<1> QED
  BY <1>1, PaperBegins

\* Wherever the engine of the paper account dies, and whether it carried the position in or entered it that
\* day, every trade it closed is read from its log once, with its side, prices and points; a trade read
\* as open is the engine's position; a day that reconciles with its summary has every closed trade and
\* their points, and one whose lines all came through reconciles; and each line gets its day and hour.
THEOREM PaperLogsAreRead == LabSpec => []PaperLogReads
<1>1. LabInit => PaperInv
  BY PaperBeginsInLab
<1>2. PaperInv /\ [LabNext]_LabVars => PaperInv'
  <2>1. [LabNext]_LabVars => [PaperNext]_paperVars
    BY DEF LabNext, LabVars, Others
  <2> QED
    BY <2>1, PaperStep
<1> QED
  BY <1>1, <1>2, PaperReadsFromInv, PTL DEF LabSpec

\* However often a day's log and replay load, and whatever is recomputed between them: no two pairs of a
\* day share a trade; its row counts and sums its pairs; a replayed trade is excused only on a day whose row
\* says the loss cap was hit; the days, weeks and windows make the same money; and, once recomputed, a day is
\* FINAL only with stored trades that make what its summary says.
THEOREM DaySyncIsTold == LabSpec => []DaySyncTells
<1>1. LabInit => SyncInv
  BY SyncInvInit DEF LabInit
<1>2. SyncInv /\ [LabNext]_LabVars => SyncInv'
  <2>1. [LabNext]_LabVars => [SyncNext]_syncVars
    BY DEF LabNext, LabVars, Others
  <2> QED
    BY <2>1, SyncInvNext
<1>3. SyncInv => DaySyncTells
  BY SyncInvImplies
<1> QED
  BY <1>1, <1>2, <1>3, PTL DEF LabSpec

\* The backtest where it runs; where it does not, it reports nothing.
BacktestInLab ==
  /\ part = "backtest" => BacktestInv
  /\ part # "backtest" => curve = <<>> /\ result = <<>>

LEMMA BacktestQuiet ==
  ASSUME curve = <<>>, result = <<>>
  PROVE  BacktestExplained
  BY DEF BacktestExplained, EquityExplained, DrawdownTrue, OrdersCounted

\* Whatever the histories, the scores and their orders: without shorts the equity of every bar is the
\* cash it began with, the P&L noted for each sale and what the open positions gained; the drawdown
\* reported is the worst fall of the curve; and the orders are two for each closed trade and one for
\* each open one.
THEOREM BacktestIsExplained == LabSpec => []BacktestExplained
<1>1. LabInit => BacktestInLab
  BY BacktestBegins DEF LabInit, BacktestInLab
<1>2. BacktestInLab /\ [LabNext]_LabVars => BacktestInLab'
  <2> SUFFICES ASSUME BacktestInLab, [LabNext]_LabVars PROVE BacktestInLab'
    OBVIOUS
  <2>1. part' = part /\ [BacktestNext]_backtestVars /\ (part # "backtest" => UNCHANGED backtestVars)
    BY DEF LabNext, LabVars, Others
  <2>2. CASE part = "backtest"
    BY <2>1, <2>2, BacktestHolds DEF BacktestInLab
  <2>3. CASE part # "backtest"
    BY <2>1, <2>3 DEF BacktestInLab, backtestVars
  <2> QED
    BY <2>2, <2>3
<1>3. BacktestInLab => BacktestExplained
  BY ExplainedFromInv, BacktestQuiet DEF BacktestInLab
<1> QED
  BY <1>1, <1>2, <1>3, PTL DEF LabSpec

\* The supervisor's readings, bindings and verdicts where it runs.
ContextInLab == part = "context" => ContextCut

LEMMA ContextCutInLab == LabInit => ContextInLab
<1> SUFFICES ASSUME LabInit, part = "context" PROVE ContextCut
  BY DEF ContextInLab
<1>1. /\ world \in [AllSleeves -> Worlds] /\ gatesSay \in GateSets /\ bound \in [AllSleeves -> Sizes]
      /\ call = NoCall /\ brief = DeterministicBrief(<<>>)
  BY DEF LabInit, ContextInit
<1>2. bound \in [AllSleeves -> 1 .. 10]
  BY <1>1, ReadingsAssumption
<1>3. brief.said = Said(<<>>)
  BY <1>1 DEF DeterministicBrief
<1>4. SaidCut(Said(<<>>))
  BY DEF SaidCut, Said
<1> QED
  BY <1>1, <1>2, <1>3, <1>4 DEF ContextCut

\* Whichever component runs, its state stays in its type: among it, a sleeve's count below what releases it
\* and its units in whole steps, every binding between 1 and 10, and no verdict for more than the validated
\* contracts.
THEOREM LabIsTyped == LabSpec => []LabTypeOK
<1> DEFINE PartOK == part \in Parts
<1>1. LabInit => PartOK /\ ContextInv /\ ContextInLab /\ SimulatorInv /\ PaperInv /\ SyncInv /\ BacktestInLab
  BY ContextBegins, ContextCutInLab, SimulatorBeginsInLab, PaperBeginsInLab, SyncInvInit, BacktestBegins
     DEF LabInit, BacktestInLab
<1>2. ASSUME PartOK, ContextInv, ContextInLab, SimulatorInv, PaperInv, SyncInv, BacktestInLab, [LabNext]_LabVars
      PROVE  PartOK' /\ ContextInv' /\ ContextInLab' /\ SimulatorInv' /\ PaperInv' /\ SyncInv' /\ BacktestInLab'
  <2>1. /\ part' = part /\ [ContextNext]_contextVars /\ [SimulatorNext]_simulatorVars /\ [PaperNext]_paperVars
        /\ [SyncNext]_syncVars /\ [BacktestNext]_backtestVars
        /\ part # "backtest" => UNCHANGED backtestVars
    BY <1>2 DEF LabNext, LabVars, Others
  <2>2. ContextInv' /\ SimulatorInv' /\ PaperInv' /\ SyncInv'
    BY <1>2, <2>1, ContextStep, SimulatorHolds, PaperStep, SyncInvNext
  <2>3. ContextInLab'
    BY <1>2, <2>1, ContextCutStep DEF ContextInLab
  <2>4. BacktestInLab'
    <3>1. CASE part = "backtest"
      BY <1>2, <2>1, <3>1, BacktestHolds DEF BacktestInLab
    <3>2. CASE part # "backtest"
      BY <1>2, <2>1, <3>2 DEF BacktestInLab, backtestVars
    <3> QED
      BY <3>1, <3>2
  <2>5. PartOK'
    BY <1>2, <2>1 DEF Parts
  <2> QED
    BY <2>2, <2>3, <2>4, <2>5
<1>3. ASSUME PartOK, ContextInv, ContextInLab, SimulatorInv, PaperInv, SyncInv, BacktestInLab,
             AllocatorTypeOK, HistoryTypeOK, NewsTypeOK
      PROVE  LabTypeOK
  <2>1. part = "context" => ContextTypeOK
    BY <1>3, ContextTypesFromInv DEF ContextInLab
  <2>2. SimulatorTypeOK /\ PaperTypeOK /\ SyncTypeOK
    BY <1>3, SimulatorInvImplies, PaperTypesFromInv, SyncInvImplies
  <2>3. part = "backtest" => BacktestTypeOK
    BY <1>3, ExplainedFromInv DEF BacktestInLab
  <2> QED
    BY <1>3, <2>1, <2>2, <2>3 DEF LabTypeOK
<1> HIDE DEF PartOK
<1> QED
  BY <1>1, <1>2, <1>3, AllocatorTypes, HistoryTypes, NewsTypes, PartsBehave, PTL DEF LabSpec
=============================================================================
