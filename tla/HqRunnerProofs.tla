---------------------------- MODULE HqRunnerProofs ----------------------------
(***************************************************************************)
(* Proofs about the components around the strategy runner: execution of    *)
(* signals, daemons and kill switches, account bindings, the instruction   *)
(* inbox; each for any number of callers, starters, workers or hands; and  *)
(* the two replays of the V221 engine, for any series of bars and saved    *)
(* states, and their report.  The report goes through the trades one by    *)
(* one; what is needed of such recursive functions is proved before it.    *)
(***************************************************************************)
EXTENDS SignalExecution, StrategyDaemons, AccountBindings, InstructionInbox, V221Replay,
        FiniteSetTheorems, SequenceTheorems, WellFoundedInduction, TLAPS

-----------------------------------------------------------------------------
\* Executing signals.

ExecutionInv == ExecutionTypeOK /\ NakedOnlyIfRaised

\* A fresh account is flat.
LEMMA ExecutionStarts == ExecutionInit => ExecutionInv
  BY DEF ExecutionInit, ExecutionInv, ExecutionTypeOK, NakedOnlyIfRaised

\* No call, whatever it overlaps with, leaves a naked position unexplained.
LEMMA ExecutionSteps == ExecutionInv /\ [ExecutionNext]_executionVars => ExecutionInv'
<1> SUFFICES ASSUME ExecutionInv, [ExecutionNext]_executionVars PROVE ExecutionInv'
  OBVIOUS
<1> USE DEF ExecutionInv, ExecutionTypeOK, NakedOnlyIfRaised
<1>1. ASSUME NEW c \in Callers, Execute(c) PROVE ExecutionInv'
  BY <1>1 DEF Execute
<1>2. ASSUME NEW c \in Callers, ExecuteRaises(c) PROVE ExecutionInv'
  BY <1>2 DEF ExecuteRaises
<1>3. ASSUME NEW c \in Callers, Flatten(c) PROVE ExecutionInv'
  BY <1>3 DEF Flatten
<1>4. ASSUME NEW c \in Callers, PlaceBracket(c) PROVE ExecutionInv'
  BY <1>4 DEF PlaceBracket
<1>5. ASSUME NEW c \in Callers, BracketRaises(c) PROVE ExecutionInv'
  BY <1>5 DEF BracketRaises
<1>6. ASSUME NEW c \in Callers, FlattenUnconfirmed(c) PROVE ExecutionInv'
  BY <1>6 DEF FlattenUnconfirmed
<1>7. ASSUME NEW c \in Callers, CallerDies(c) PROVE ExecutionInv'
  BY <1>7 DEF CallerDies
<1>8. CASE StopFills
  BY <1>8 DEF StopFills
<1>9. CASE UNCHANGED executionVars
  BY <1>9 DEF executionVars
<1> QED
  BY <1>1, <1>2, <1>3, <1>4, <1>5, <1>6, <1>7, <1>8, <1>9 DEF ExecutionNext

\* A position has its stop, or somebody is about to flatten it, unless what
\* left it naked raised or died: ibkr_execute_signal, for any number of calls.
THEOREM ExecutionIsCovered == ExecutionSpec => [](ExecutionTypeOK /\ NakedOnlyIfRaised)
  BY ExecutionStarts, ExecutionSteps, PTL DEF ExecutionSpec, ExecutionInv

-----------------------------------------------------------------------------
\* Daemons and kill switches.

\* Where nobody's start is on record as raced, one starter at most is between
\* its look at the pid file and its write; what it looked at still holds.
OneStarter(c) ==
  \A v, w \in Starters : Spawning(v, c) /\ Spawning(w, c) => v = w
NothingRuns(c) ==
  \A w \in Starters : In(w, "spawn", c) => \A m \in Pids : ~Live(m, c)
\* A live daemon is in the pid file, or its starter is about to write it.
Recorded(c) ==
  \A m \in Pids : Live(m, c) =>
    \/ m = pidfile[c] /\ \A w \in Starters : ~Spawning(w, c)
    \/ \E w \in Starters : In(w, "write", c) /\ start[w].pid = m

Supervised(c) == OneStarter(c) /\ NothingRuns(c) /\ Recorded(c)

DaemonsInv == DaemonsTypeOK /\ \A c \in Strategies \ raced : Supervised(c)

\* Nothing runs at the start.
LEMMA DaemonsStart == DaemonsInit => DaemonsInv /\ HaltStands
  BY DEF DaemonsInit, DaemonsInv, DaemonsTypeOK, HaltStands, Supervised, OneStarter, NothingRuns, Recorded,
         Processes, StartSteps, Spawning, In, Live, NoDaemon, NoStart

\* Every variable keeps its type.
LEMMA DaemonsTyped ==
  DaemonsTypeOK /\ [DaemonsNext]_daemonsVars => DaemonsTypeOK'
<1> SUFFICES ASSUME DaemonsTypeOK, [DaemonsNext]_daemonsVars PROVE DaemonsTypeOK'
  OBVIOUS
<1> USE DEF DaemonsTypeOK
<1>a. ASSUME NEW next \in StartSteps, NEW w \in Starters, Proceeds(w, next)
      PROVE  start' \in [Starters -> StartSteps]
  BY <1>a DEF Proceeds
<1>r. ASSUME NEW p PROVE Reaped(p) \in [Pids -> Processes]
  BY DEF Reaped, Processes
<1>n. NoStart \in StartSteps
  BY DEF StartSteps
<1>1. ASSUME NEW w \in Starters, NEW c \in Strategies, StartStrategy(w, c) PROVE DaemonsTypeOK'
  <2>1. [step |-> "launch", code |-> c] \in StartSteps
    BY DEF StartSteps
  <2> QED
    BY <1>1, <1>a, <2>1 DEF StartStrategy
<1>2. ASSUME NEW w \in Starters, NEW c \in Strategies, Launch(w, c) PROVE DaemonsTypeOK'
  <2>1. [step |-> "spawn", code |-> c] \in StartSteps
    BY DEF StartSteps
  <2> QED
    BY <1>2, <1>a, <1>n, <2>1 DEF Launch
<1>3. ASSUME NEW w \in Starters, NEW c \in Strategies, Spawn(w, c) PROVE DaemonsTypeOK'
  <2>1. PICK pid \in Pids :
          /\ daemons' = [Reaped(owner[w]) EXCEPT ![pid] =
                           [state |-> "live", code |-> c, parent |-> owner[w]]]
          /\ Proceeds(w, [step |-> "write", code |-> c, pid |-> pid])
    BY <1>3 DEF Spawn
  <2>2. [step |-> "write", code |-> c, pid |-> pid] \in StartSteps
    BY DEF StartSteps
  <2>3. [state |-> "live", code |-> c, parent |-> owner[w]] \in Processes
    BY DEF Processes
  <2>4. daemons' \in [Pids -> Processes]
    BY <2>1, <2>3, <1>r
  <2> QED
    BY <1>3, <1>a, <2>1, <2>2, <2>4 DEF Spawn
<1>4. ASSUME NEW w \in Starters, NEW c \in Strategies, WritePid(w, c) PROVE DaemonsTypeOK'
  <2>1. start[w].pid \in Pids
    BY <1>4 DEF WritePid, In, StartSteps, NoStart
  <2> QED
    BY <1>4, <1>a, <1>n, <2>1 DEF WritePid
<1>5. ASSUME NEW w \in Starters, NEW c \in Strategies, HaltStrategy(w, c) PROVE DaemonsTypeOK'
  BY <1>5 DEF HaltStrategy
<1>6. ASSUME NEW w \in Starters, NEW c \in Strategies, ResumeStrategy(w, c) PROVE DaemonsTypeOK'
  BY <1>6 DEF ResumeStrategy
<1>7. ASSUME NEW w \in Starters, RunSelftest(w) PROVE DaemonsTypeOK'
  BY <1>7, <1>r DEF RunSelftest
<1>8. ASSUME NEW pid \in Pids, DaemonExits(pid) PROVE DaemonsTypeOK'
  <2>1. daemons[pid].parent = Init1 \/ daemons[pid].parent \in Parents
    BY <1>8 DEF DaemonExits, Processes, NoDaemon
  <2>2. IF daemons[pid].parent = Init1 THEN NoDaemon \in Processes
        ELSE [state |-> "zombie", parent |-> daemons[pid].parent] \in Processes
    BY <2>1 DEF Processes
  <2> QED
    BY <1>8, <2>2 DEF DaemonExits
<1>9. ASSUME NEW p \in Parents, ParentDies(p) PROVE DaemonsTypeOK'
  <2>1. ASSUME NEW pid \in Pids, daemons[pid].state = "live"
        PROVE  [daemons[pid] EXCEPT !.parent = Init1] \in Processes
    BY <2>1 DEF Processes, NoDaemon
  <2>2. daemons' \in [Pids -> Processes]
    BY <1>9, <1>r, <2>1 DEF ParentDies
  <2> QED
    BY <1>9, <1>n, <2>2 DEF ParentDies
<1>10. CASE UNCHANGED daemonsVars
  BY <1>10 DEF daemonsVars
<1> QED
  BY <1>1, <1>2, <1>3, <1>4, <1>5, <1>6, <1>7, <1>8, <1>9, <1>10 DEF DaemonsNext

\* What is left of DaemonsInv in a state where one strategy was not raced.
\* A step that starts nothing, ends no start and moves no pid file of c, and
\* after which nothing lives that did not live before, keeps c supervised.
LEMMA SupervisionKept ==
  ASSUME DaemonsTypeOK, NEW c \in Strategies, Supervised(c),
         \A w \in Starters : Spawning(w, c)' => start'[w] = start[w],
         \A w \in Starters : Spawning(w, c) => start'[w] = start[w],
         \A m \in Pids : Live(m, c)' => Live(m, c),
         pidfile'[c] = pidfile[c]
  PROVE  Supervised(c)'
  BY SMTT(30) DEF Supervised, OneStarter, NothingRuns, Recorded, Spawning, In

\* Every step keeps each strategy that is not raced supervised.
LEMMA DaemonsSteps == DaemonsInv /\ [DaemonsNext]_daemonsVars => DaemonsInv'
<1> SUFFICES ASSUME DaemonsInv, [DaemonsNext]_daemonsVars PROVE DaemonsInv'
  OBVIOUS
<1>t. DaemonsTypeOK /\ DaemonsTypeOK'
  BY DaemonsTyped DEF DaemonsInv
<1> USE DEF DaemonsTypeOK
<1> SUFFICES ASSUME NEW c \in Strategies \ raced' PROVE Supervised(c)'
  BY <1>t DEF DaemonsInv
<1>r. raced \subseteq raced'
  BY <1>t DEF DaemonsNext, StartStrategy, Launch, Spawn, WritePid, HaltStrategy, ResumeStrategy,
              RunSelftest, DaemonExits, ParentDies, daemonsVars
<1>s. Supervised(c)
  BY <1>r DEF DaemonsInv
<1>l. ASSUME NEW p, NEW m \in Pids, NEW d \in Strategies
      PROVE  (Reaped(p)[m].state = "live" /\ Reaped(p)[m].code = d) <=> Live(m, d)
  BY DEF Reaped, Live, NoDaemon
<1>1. ASSUME NEW w \in Starters, NEW d \in Strategies, StartStrategy(w, d) PROVE Supervised(c)'
  <2>1. \A m \in Pids : Live(m, c)' <=> Live(m, c)
    BY <1>1 DEF StartStrategy, Live
  <2>2. \A v \in Starters : (Spawning(v, c) \/ Spawning(v, c)') => start'[v] = start[v]
    BY <1>1, <1>t DEF StartStrategy, Proceeds, NoStart, Spawning, In
  <2> QED
    BY <1>1, <1>s, <1>t, <2>1, <2>2, SupervisionKept DEF StartStrategy
<1>2. ASSUME NEW w \in Starters, NEW d \in Strategies, Launch(w, d) PROVE Supervised(c)'
  <2>1. \A m \in Pids : Live(m, c)' <=> Live(m, c)
    BY <1>2 DEF Launch, Live
  <2>2. CASE start'[w] = [step |-> "spawn", code |-> d] /\ MaySpawn(d) /\ c = d
    <3>1. \A v \in Starters : ~Spawning(v, c)
      BY <1>2, <2>2, <1>t DEF Launch, Proceeds, NoStart
    <3>2. \A m \in Pids : ~Live(m, c)
      BY <3>1, <1>s, <2>2, <1>t, DaemonsAssumption
         DEF Supervised, Recorded, MaySpawn, Running, Live, Spawning, NoPid
    <3>3. start' = [start EXCEPT ![w] = [step |-> "spawn", code |-> d]]
      BY <1>2, <2>2, <1>t DEF Launch, Proceeds, NoStart
    <3>4. \A v \in Starters : Spawning(v, c)' => v = w
      BY <3>1, <3>3, <1>t DEF Spawning, In
    <3> QED
      BY <2>1, <3>2, <3>4 DEF Supervised, OneStarter, NothingRuns, Recorded
  <2>3. CASE ~(start'[w] = [step |-> "spawn", code |-> d] /\ MaySpawn(d) /\ c = d)
    <3>1. \A v \in Starters : (Spawning(v, c) \/ Spawning(v, c)') => start'[v] = start[v]
      BY <1>2, <2>3, <1>t DEF Launch, Proceeds, NoStart, Spawning, In
    <3> QED
      BY <1>2, <1>s, <1>t, <2>1, <3>1, SupervisionKept DEF Launch
  <2> QED
    BY <2>2, <2>3
<1>3. ASSUME NEW w \in Starters, NEW d \in Strategies, Spawn(w, d) PROVE Supervised(c)'
  <2>1. PICK pid \in Pids :
          /\ Reaped(owner[w])[pid].state = "free"
          /\ daemons' = [Reaped(owner[w]) EXCEPT ![pid] =
                           [state |-> "live", code |-> d, parent |-> owner[w]]]
          /\ start' = [start EXCEPT ![w] = [step |-> "write", code |-> d, pid |-> pid]]
    BY <1>3 DEF Spawn, Proceeds
  <2>2. \A m \in Pids : Live(m, c)' => (m = pid /\ c = d) \/ Live(m, c)
    <3>1. ASSUME NEW m \in Pids, m # pid PROVE daemons'[m] = Reaped(owner[w])[m]
      BY <2>1, <3>1, <1>t DEF Reaped
    <3>2. daemons'[pid] = [state |-> "live", code |-> d, parent |-> owner[w]]
      BY <2>1, <1>t DEF Reaped
    <3>3. c \in Strategies
      OBVIOUS
    <3> QED
      BY <3>1, <3>2, <3>3, <1>l DEF Live
  <2>3. CASE c = d
    <3>1. \A v \in Starters : Spawning(v, c) => v = w
      BY <1>3, <1>s, <2>3 DEF Spawn, Supervised, OneStarter, Spawning
    <3>2. \A v \in Starters : Spawning(v, c)' => v = w
      BY <3>1, <2>1, <1>t DEF Spawning, In
    <3>3. \A m \in Pids : Live(m, c)' => m = pid
      BY <1>3, <1>s, <2>2, <2>3 DEF Spawn, Supervised, NothingRuns
    <3>4. In(w, "write", c)' /\ start'[w].pid = pid
      BY <2>1, <2>3, <1>t DEF In
    <3>5. \A v \in Starters : ~In(v, "spawn", c)'
      BY <3>2, <3>4 DEF Spawning, In
    <3>6. Recorded(c)'
      BY <3>3, <3>4 DEF Recorded
    <3> QED
      BY <3>2, <3>5, <3>6 DEF Supervised, OneStarter, NothingRuns
  <2>4. CASE c # d
    <3>1. \A v \in Starters : (Spawning(v, c) \/ Spawning(v, c)') => start'[v] = start[v]
      BY <1>3, <2>1, <2>4, <1>t DEF Spawn, Spawning, In
    <3> QED
      BY <1>3, <1>s, <1>t, <2>2, <2>4, <3>1, SupervisionKept DEF Spawn
  <2> QED
    BY <2>3, <2>4
<1>4. ASSUME NEW w \in Starters, NEW d \in Strategies, WritePid(w, d) PROVE Supervised(c)'
  <2>1. start' = [start EXCEPT ![w] = NoStart]
    BY <1>4 DEF WritePid, Proceeds
  <2>2. \A m \in Pids : Live(m, c)' <=> Live(m, c)
    BY <1>4 DEF WritePid, Live
  <2>3. CASE c = d
    <3>1. \A v \in Starters : Spawning(v, c) => v = w
      BY <1>4, <1>s, <2>3 DEF WritePid, Supervised, OneStarter, Spawning
    <3>2. \A v \in Starters : ~Spawning(v, c)'
      BY <2>1, <3>1, <1>t DEF Spawning, In, NoStart
    <3>3. \A m \in Pids : Live(m, c) => m = start[w].pid
      BY <1>4, <1>s, <2>3, <3>1 DEF WritePid, Supervised, Recorded, Spawning
    <3>4. pidfile'[c] = start[w].pid
      BY <1>4, <2>3, <1>t DEF WritePid
    <3> QED
      BY <2>2, <3>2, <3>3, <3>4 DEF Supervised, OneStarter, NothingRuns, Recorded, Spawning
  <2>4. CASE c # d
    <3>1. \A v \in Starters : (Spawning(v, c) \/ Spawning(v, c)') => start'[v] = start[v]
      BY <1>4, <2>1, <2>4, <1>t DEF WritePid, Spawning, In, NoStart
    <3>2. pidfile'[c] = pidfile[c]
      BY <1>4, <2>4, <1>t DEF WritePid
    <3> QED
      BY <1>s, <1>t, <2>2, <3>1, <3>2, SupervisionKept
  <2> QED
    BY <2>3, <2>4
<1>5. ASSUME UNCHANGED <<pidfile, start>>, \A m \in Pids : Live(m, c)' => Live(m, c)
      PROVE  Supervised(c)'
  BY <1>5, <1>s, <1>t, SupervisionKept
<1>6. ASSUME NEW w \in Starters, NEW d \in Strategies, HaltStrategy(w, d) \/ ResumeStrategy(w, d)
      PROVE  Supervised(c)'
  BY <1>5, <1>6 DEF HaltStrategy, ResumeStrategy, Live
<1>7. ASSUME NEW w \in Starters, RunSelftest(w) PROVE Supervised(c)'
  BY <1>5, <1>7, <1>l DEF RunSelftest, Live
<1>8. ASSUME NEW pid \in Pids, DaemonExits(pid) PROVE Supervised(c)'
  BY <1>5, <1>8, <1>t DEF DaemonExits, Live, NoDaemon
<1>9. ASSUME NEW p \in Parents, ParentDies(p) PROVE Supervised(c)'
  <2>1. \A m \in Pids : Live(m, c)' => Live(m, c)
    <3> SUFFICES ASSUME NEW m \in Pids, Live(m, c)' PROVE Live(m, c)
      OBVIOUS
    <3>1. CASE daemons[m].state = "live" /\ daemons[m].parent = p
      <4>1. daemons'[m] = [daemons[m] EXCEPT !.parent = Init1]
        BY <1>9, <3>1 DEF ParentDies
      <4>2. daemons[m] \in [state : {"live"}, code : Strategies, parent : Parents \cup {Init1}]
        BY <3>1, <1>t DEF Processes, NoDaemon
      <4> QED
        BY <4>1, <4>2 DEF Live
    <3>2. CASE ~(daemons[m].state = "live" /\ daemons[m].parent = p)
      <4>1. daemons'[m] = Reaped(p)[m]
        BY <1>9, <3>2 DEF ParentDies
      <4> QED
        BY <4>1, <1>l DEF Live
    <3> QED
      BY <3>1, <3>2
  <2>2. \A v \in Starters : Spawning(v, c) => owner[v] # p
    BY <1>9 DEF ParentDies
  <2>3. \A v \in Starters : (Spawning(v, c) \/ Spawning(v, c)') => start'[v] = start[v]
    BY <1>9, <2>2, <1>t DEF ParentDies, Spawning, In, NoStart
  <2> QED
    BY <1>9, <1>s, <1>t, <2>1, <2>3, SupervisionKept DEF ParentDies
<1>10. CASE UNCHANGED daemonsVars
  BY <1>5, <1>10 DEF daemonsVars, Live
<1> QED
  BY <1>1, <1>2, <1>3, <1>4, <1>6, <1>7, <1>8, <1>9, <1>10 DEF DaemonsNext

\* Only a launch or a resume takes a strategy off the halted or the killed.
LEMMA HaltsStand == HaltStands /\ [DaemonsNext]_daemonsVars => HaltStands'
  BY DEF HaltStands, DaemonsNext, StartStrategy, Launch, Spawn, WritePid, HaltStrategy,
         ResumeStrategy, RunSelftest, DaemonExits, ParentDies, daemonsVars

\* The pid file, or the one starter about to write it, names every daemon.
LEMMA DaemonsAreOne == DaemonsInv => OneDaemon
<1> SUFFICES ASSUME DaemonsInv, NEW c \in Strategies \ raced,
                    NEW m \in LiveDaemons(c), NEW n \in LiveDaemons(c)
             PROVE  m = n
  BY DEF OneDaemon
<1>1. OneStarter(c) /\ Recorded(c)
  BY DEF DaemonsInv, Supervised
<1> QED
  BY <1>1 DEF OneStarter, Recorded, LiveDaemons, Spawning

\* However starts, halts, resumes and restarts of any number of processes interleave, and
\* whichever pids are reused: no strategy has two daemons unless two starts overlapped
\* or one died half-way, and no acknowledged halt is lifted by an older call.
THEOREM DaemonsAreSound == DaemonsSpec => [](DaemonsTypeOK /\ OneDaemon /\ HaltStands)
<1>1. DaemonsInv => DaemonsTypeOK
  BY DEF DaemonsInv
<1> QED
  BY <1>1, DaemonsStart, DaemonsSteps, HaltsStand, DaemonsAreOne, PTL DEF DaemonsSpec

-----------------------------------------------------------------------------
\* Account bindings.

\* Bindings that a reload leaves as they are.
Fit(m) == Injective(m) /\ \A c \in Codes : m[c] # 0

\* What a configure call has looked at still holds when it assigns.
CheckHolds(w) == At(w, "bind") => IdFree(home[w], request[w].code, request[w].id)

BindingsInv ==
  /\ BindingsTypeOK
  /\ ~crossed =>
       /\ \A v, w \in Workers : At(v, "bind") /\ At(w, "bind") /\ home[v] = home[w] => v = w
       /\ \A w \in Workers : CheckHolds(w)
  /\ ~crossed /\ ~falsy =>
       /\ \A p \in Procs : Fit(memory[p])
       /\ file = Unreadable \/ Fit(file)

\* The defaults differ and none is 0.
LEMMA DefaultsFit == DefaultId \in [Codes -> Nat] /\ Fit(DefaultId)
  BY BindingsAssumption DEF Fit, Injective

\* What a process loads is typed, and keeps what fits.
LEMMA LoadedFits ==
  ASSUME NEW f \in [Codes -> Nat] \cup {Unreadable}
  PROVE  Loaded(f) \in [Codes -> Nat] /\ (f = Unreadable \/ Fit(f) => Fit(Loaded(f)))
<1>1. CASE f = Unreadable
  BY <1>1, DefaultsFit DEF Loaded
<1>2. CASE f # Unreadable
  <2>1. Loaded(f) = [c \in Codes |-> IF f[c] = 0 THEN DefaultId[c] ELSE f[c]]
    BY <1>2 DEF Loaded
  <2> QED
    BY <1>2, <2>1, DefaultsFit DEF Fit, Injective
<1> QED
  BY <1>1, <1>2

\* Every process starts with the defaults.
LEMMA BindingsStart == BindingsInit => BindingsInv
<1> SUFFICES ASSUME BindingsInit PROVE BindingsInv
  OBVIOUS
<1>1. BindingsTypeOK
  BY DefaultsFit DEF BindingsInit, BindingsTypeOK, NoRequest
<1>2. \A w \in Workers : ~At(w, "bind")
  BY DEF BindingsInit, At, NoRequest
<1>3. \A p \in Procs : Fit(memory[p])
  BY DefaultsFit DEF BindingsInit
<1> QED
  BY <1>1, <1>2, <1>3 DEF BindingsInit, BindingsInv, CheckHolds

\* Every variable keeps its type.
LEMMA BindingsTyped == BindingsTypeOK /\ [BindingsNext]_bindingsVars => BindingsTypeOK'
<1> SUFFICES ASSUME BindingsTypeOK, [BindingsNext]_bindingsVars PROVE BindingsTypeOK'
  OBVIOUS
<1> USE DEF BindingsTypeOK
<1>1. ASSUME NEW w \in Workers, NEW c \in Codes, NEW i \in Ids \cup {memory[home[w]][c]},
             Configure(w, c, i)
      PROVE  BindingsTypeOK'
  <2>0. home[w] \in Procs
    OBVIOUS
  <2>1. i \in Nat
    BY <2>0, BindingsAssumption
  <2> QED
    BY <1>1, <2>1 DEF Configure
<1>2. ASSUME NEW w \in Workers, Bind(w) PROVE BindingsTypeOK'
  <2>1. request[w] \in [step : {"bind"}, code : Codes, id : Nat]
    BY <1>2 DEF Bind, At
  <2> QED
    BY <1>2, <2>1 DEF Bind
<1>3. ASSUME NEW w \in Workers, SaveBindings(w) PROVE BindingsTypeOK'
  BY <1>3 DEF SaveBindings, NoRequest
<1>4. ASSUME NEW p \in Procs, ReloadBindings(p) PROVE BindingsTypeOK'
  <2>1. file' \in {file, Unreadable}
    BY <1>4 DEF ReloadBindings
  <2>2. Loaded(file') \in [Codes -> Nat]
    BY <2>1, LoadedFits
  <2> QED
    BY <1>4, <2>1, <2>2 DEF ReloadBindings, NoRequest
<1>5. CASE UNCHANGED bindingsVars
  BY <1>5 DEF bindingsVars
<1> QED
  BY <1>1, <1>2, <1>3, <1>4, <1>5 DEF BindingsNext

\* No step makes two strategies of a process share an id.
LEMMA BindingsSteps == BindingsInv /\ [BindingsNext]_bindingsVars => BindingsInv'
<1> SUFFICES ASSUME BindingsInv, [BindingsNext]_bindingsVars PROVE BindingsInv'
  OBVIOUS
<1>t. BindingsTypeOK /\ BindingsTypeOK'
  BY BindingsTyped DEF BindingsInv
<1> USE DEF BindingsTypeOK
<1>1. ASSUME NEW w \in Workers, NEW c \in Codes, NEW i \in Ids \cup {memory[home[w]][c]},
             Configure(w, c, i)
      PROVE  BindingsInv'
  <2>1. \A v \in Workers : At(v, "bind")' => v = w \/ (At(v, "bind") /\ request'[v] = request[v])
    <3>1. \A v \in Workers : v # w => request'[v] = request[v]
      BY <1>1, <1>t DEF Configure
    <3> QED
      BY <3>1 DEF At
  <2>2. request'[w] = [step |-> "bind", code |-> c, id |-> i]
    BY <1>1, <1>t DEF Configure
  <2>3. ~crossed' => ~crossed /\ \A v \in Workers : ~Binding(v, home[w])
    BY <1>1 DEF Configure
  <2>4. CheckHolds(w)'
    BY <1>1, <2>2 DEF Configure, CheckHolds, IdFree
  <2>5. ASSUME ~crossed', NEW v \in Workers PROVE CheckHolds(v)'
    <3>1. CheckHolds(v)
      BY <2>3, <2>5 DEF BindingsInv
    <3> QED
      BY <1>1, <2>1, <2>4, <3>1 DEF Configure, CheckHolds, IdFree
  <2> QED
    BY <1>1, <1>t, <2>1, <2>3, <2>5 DEF Configure, BindingsInv, Binding
<1>2. ASSUME NEW w \in Workers, Bind(w) PROVE BindingsInv'
  <2>1. request[w] \in [step : {"bind"}, code : Codes, id : Nat]
    BY <1>2, <1>t DEF Bind, At
  <2>2. \A v \in Workers : At(v, "bind")' => v # w /\ At(v, "bind") /\ request'[v] = request[v]
    BY <1>2, <1>t DEF Bind, At
  <2>3. \A p \in Procs : p # home[w] => memory'[p] = memory[p]
    BY <1>2, <1>t DEF Bind
  <2>4. memory'[home[w]] = [memory[home[w]] EXCEPT ![request[w].code] = request[w].id]
    BY <1>2, <1>t DEF Bind
  <2>5. ASSUME ~crossed', NEW v \in Workers PROVE CheckHolds(v)'
    <3>1. CheckHolds(v)
      BY <1>2, <2>5 DEF Bind, BindingsInv
    <3>2. At(v, "bind")' => home[v] # home[w]
      BY <1>2, <2>2, <2>5 DEF Bind, BindingsInv
    <3> QED
      BY <1>2, <1>t, <2>2, <2>3, <3>1, <3>2 DEF Bind, CheckHolds, IdFree
  <2>6. ASSUME ~crossed', ~falsy' PROVE Fit(memory'[home[w]])
    <3>1. CheckHolds(w) /\ Fit(memory[home[w]]) /\ request[w].id # 0
      BY <1>2, <1>t, <2>6 DEF Bind, BindingsInv
    <3> QED
      BY <1>2, <1>t, <2>1, <2>4, <3>1 DEF Bind, CheckHolds, IdFree, Fit, Injective
  <2>7. ~crossed' /\ ~falsy' => \A p \in Procs : Fit(memory'[p])
    BY <1>2, <2>3, <2>6 DEF Bind, BindingsInv
  <2> QED
    BY <1>2, <1>t, <2>2, <2>5, <2>7 DEF Bind, BindingsInv, Fit, Injective
<1>3. ASSUME NEW w \in Workers, SaveBindings(w) PROVE BindingsInv'
  <2>1. \A v \in Workers : At(v, "bind")' => At(v, "bind") /\ request'[v] = request[v]
    BY <1>3, <1>t DEF SaveBindings, At, NoRequest
  <2>2. \A v \in Workers : CheckHolds(v) => CheckHolds(v)'
    BY <1>3, <2>1 DEF SaveBindings, CheckHolds, IdFree
  <2> QED
    BY <1>3, <1>t, <2>1, <2>2 DEF SaveBindings, BindingsInv, Fit, Injective
<1>4. ASSUME NEW p \in Procs, ReloadBindings(p) PROVE BindingsInv'
  <2>1. \A v \in Workers :
          At(v, "bind")' => home[v] # p /\ At(v, "bind") /\ request'[v] = request[v]
    BY <1>4, <1>t DEF ReloadBindings, At, NoRequest
  <2>2. \A q \in Procs : q # p => memory'[q] = memory[q]
    BY <1>4, <1>t DEF ReloadBindings
  <2>3. file' \in {file, Unreadable} /\ memory'[p] = Loaded(file')
    BY <1>4, <1>t DEF ReloadBindings
  <2>4. \A v \in Workers : CheckHolds(v) => CheckHolds(v)'
    BY <1>4, <1>t, <2>1, <2>2 DEF ReloadBindings, CheckHolds, IdFree
  <2>5. ~crossed' /\ ~falsy' => /\ file' = Unreadable \/ Fit(file')
                                /\ \A q \in Procs : Fit(memory'[q])
    BY <1>4, <1>t, <2>2, <2>3, LoadedFits DEF ReloadBindings, BindingsInv
  <2> QED
    BY <1>4, <1>t, <2>1, <2>4, <2>5 DEF ReloadBindings, BindingsInv, Unreadable, Fit, Injective
<1>5. CASE UNCHANGED bindingsVars
  BY <1>5, <1>t DEF bindingsVars, BindingsInv, CheckHolds, IdFree, At, Fit, Injective, Unreadable
<1> QED
  BY <1>1, <1>2, <1>3, <1>4, <1>5 DEF BindingsNext

\* Two strategies of one process never share a client id, for any number of processes,
\* threads and strategies, unless two configure calls of one process overlapped or the
\* id 0 was bound.
THEOREM BindingsAreDistinct == BindingsSpec => [](BindingsTypeOK /\ IdsDistinct)
<1>1. BindingsInv => BindingsTypeOK /\ IdsDistinct
  BY DEF BindingsInv, IdsDistinct, Fit
<1> QED
  BY <1>1, BindingsStart, BindingsSteps, PTL DEF BindingsSpec

-----------------------------------------------------------------------------
\* The instruction inbox.

\* A nonempty set of naturals has a least element.
SmallerThan == {p \in Nat \X Nat : p[1] < p[2]}
LEMMA LeastExists ==
  ASSUME NEW S \in SUBSET Nat, S # {}
  PROVE  \E i \in S : \A j \in S : i <= j
<1>1. IsWellFoundedOn(SmallerThan, Nat)
  BY NatLessThanWellFounded, Zenon DEF OpToRel, SmallerThan
<1>2. \E i \in S : \A j \in S : ~(<<j, i>> \in SmallerThan)
  BY <1>1, WFMin
<1>3. ASSUME NEW i \in S, NEW j \in S, ~(<<j, i>> \in SmallerThan) PROVE i <= j
  BY <1>3 DEF SmallerThan
<1> QED
  BY <1>2, <1>3

LEMMA LeastOf ==
  ASSUME NEW S \in SUBSET Nat, S # {}
  PROVE  First(S) \in S /\ \A j \in S : First(S) <= j
  BY LeastExists DEF First

\* Instructions are compared as numbers.
LEMMA NumbersOrdered ==
  ASSUME NEW i \in Instructions, NEW k \in Instructions
  PROVE  /\ i >= i /\ ~(i < i) /\ (k > i <=> i < k) /\ (k > i => k >= i)
         /\ (i < k => ~(k < i) /\ i # k) /\ (k >= i \/ k < i) /\ (k >= i => ~(k < i))
         /\ (k >= i /\ k # i => k > i)
  BY InboxAssumption

\* Of one job: the instructions it has in hand, and those of them it has yet
\* to execute.
HeldBy(j) ==
  {i \in Instructions :
     \/ j.step = "take" /\ i \in j.todo
     \/ j.step \in {"execute", "ackread", "ackwrite"} /\ (i = j.item \/ i \in j.todo)}

AheadOf(j) ==
  {i \in Instructions :
     \/ j.step \in {"take", "execute", "ackread", "ackwrite"} /\ i \in j.todo
     \/ j.step = "execute" /\ i = j.item}

Held(g) == HeldBy(job[g])
YetToRun(g) == AheadOf(job[g])

\* A run goes through executable instructions in ascending order; an append
\* was read when no line of its number or a later one was there.
JobSound(j) ==
  /\ AheadOf(j) \subseteq Executable
  /\ j.step = "take" => j.todo # {}
  /\ j.step \in {"execute", "ackread", "ackwrite"} => \A k \in j.todo : j.item < k
  /\ j.step = "append" =>
       /\ j.now => j.item \in Executable
       /\ \A k \in Instructions : k >= j.item => j.read[k] = "none"

\* What was acknowledged, executed or taken in hand has its line; a number is
\* given to one append.
LinesKept ==
  /\ \A i \in Instructions : i \in added \/ runs[i] > 0 => inbox[i] # "none"
  /\ \A g \in Hands : \A i \in Held(g) : inbox[i] # "none"
  /\ \A g, h \in Hands : Doing(g, "append") =>
       /\ inbox[job[g].item] = "none"
       /\ Doing(h, "append") /\ job[h].item = job[g].item => g = h

\* One hand has it; it is pending and fresh until executed, and after that in
\* hand until its line says so.
RunOnce(i) ==
  /\ runs[i] < 2
  /\ \A g, h \in Hands : i \in Held(g) /\ i \in Held(h) => g = h
  /\ \A g \in Hands : i \in YetToRun(g) => inbox[i] = "pending" /\ runs[i] = 0
  /\ runs[i] > 0 /\ inbox[i] = "pending" => \E g \in Hands : i \in Held(g)

MayRun(i) ==
  \/ \E g \in Hands : i \in YetToRun(g)
  \/ inbox[i] = "pending" /\ i \in Executable /\ \A g \in Hands : i \notin Held(g)

\* While it may still be executed no later one was, nor is one about to be by
\* a hand that does not execute this one first.
InTurn(i) ==
  MayRun(i) => \A k \in Instructions : k > i =>
    /\ runs[k] = 0
    /\ \A h \in Hands : k \in YetToRun(h) => i \in YetToRun(h)

JobsSound == \A g \in Hands : JobSound(job[g])

InboxObeyed ==
  /\ LinesKept
  /\ \A i \in Instructions \ excused : RunOnce(i)
  /\ \A i \in Instructions \ (excused \cup jumped) : InTurn(i)
  /\ overtaken \subseteq excused \cup jumped

InboxInv == InboxTypeOK /\ JobsSound /\ (~lossy => InboxObeyed)

-----------------------------------------------------------------------------
\* The job of each step.
LEMMA JobShapes ==
  ASSUME InboxTypeOK, NEW h \in Hands
  PROVE  /\ Doing(h, "append") => job[h] \in [step : {"append"}, item : Instructions,
                                    read : [Instructions -> Lines], now : BOOLEAN]
         /\ Doing(h, "take") => job[h] \in [step : {"take"}, todo : SUBSET Instructions]
         /\ Doing(h, "execute") \/ Doing(h, "ackread") =>
              job[h] \in [step : {"execute", "ackread"}, item : Instructions, todo : SUBSET Instructions]
         /\ Doing(h, "ackwrite") =>
              job[h] \in [step : {"ackwrite"}, item : Instructions, todo : SUBSET Instructions,
                          read : [Instructions -> Lines]]
<1>1. job[h] \in Jobs
  BY DEF InboxTypeOK
<1> QED
  BY <1>1 DEF Jobs, Doing

LEMMA NextSound ==
  ASSUME NEW todo \in SUBSET Executable
  PROVE  /\ NextOf(todo) \in Jobs /\ JobSound(NextOf(todo))
         /\ HeldBy(NextOf(todo)) = todo /\ AheadOf(NextOf(todo)) = todo
         /\ NextOf(todo).step # "append"
<1>1. CASE todo = {}
  BY <1>1 DEF NextOf, Done, Jobs, JobSound, HeldBy, AheadOf
<1>2. CASE todo # {}
  <2>1. NextOf(todo) = [step |-> "take", todo |-> todo]
    BY <1>2 DEF NextOf
  <2>2. NextOf(todo) \in Jobs
    BY <2>1, InboxAssumption DEF Jobs
  <2>0. todo \subseteq Instructions
    BY InboxAssumption
  <2>3. HeldBy([step |-> "take", todo |-> todo]) = todo
    BY <2>0 DEF HeldBy
  <2>4. AheadOf([step |-> "take", todo |-> todo]) = todo
    BY <2>0 DEF AheadOf
  <2>5. JobSound(NextOf(todo))
    BY <1>2, <2>1, <2>4 DEF JobSound
  <2> QED
    BY <2>1, <2>2, <2>3, <2>4, <2>5
<1> QED
  BY <1>1, <1>2

\* One hand gets a job that is sound, the others keep theirs.
LEMMA JobsChange ==
  ASSUME InboxTypeOK, JobsSound, NEW h \in Hands, NEW next \in Jobs, JobSound(next), Does(h, next)
  PROVE  /\ job' \in [Hands -> Jobs] /\ JobsSound'
         /\ job'[h] = next /\ \A g \in Hands \ {h} : job'[g] = job[g]
  BY DEF InboxTypeOK, JobsSound, Does

\* The jobs that a step hands out.
LEMMA AppendJob ==
  ASSUME NEW i \in Instructions, NEW rows \in [Instructions -> Lines], NEW now \in BOOLEAN
  PROVE  LET next == [step |-> "append", item |-> i, read |-> rows, now |-> now]
         IN next \in Jobs /\ HeldBy(next) = {} /\ AheadOf(next) = {}
  BY DEF Jobs, HeldBy, AheadOf

LEMMA ExecuteJob ==
  ASSUME NEW i \in Instructions, NEW todo \in SUBSET Instructions
  PROVE  LET next == [step |-> "execute", item |-> i, todo |-> todo]
         IN next \in Jobs /\ HeldBy(next) = {i} \cup todo /\ AheadOf(next) = {i} \cup todo
<1>1. [step |-> "execute", item |-> i, todo |-> todo] \in Jobs
  BY DEF Jobs
<1>2. /\ HeldBy([step |-> "execute", item |-> i, todo |-> todo]) = {i} \cup todo
      /\ AheadOf([step |-> "execute", item |-> i, todo |-> todo]) = {i} \cup todo
  BY DEF HeldBy, AheadOf
<1> QED
  BY <1>1, <1>2

LEMMA AckReadJob ==
  ASSUME NEW i \in Instructions, NEW todo \in SUBSET Instructions
  PROVE  LET next == [step |-> "ackread", item |-> i, todo |-> todo]
         IN next \in Jobs /\ HeldBy(next) = {i} \cup todo /\ AheadOf(next) = todo
<1>1. [step |-> "ackread", item |-> i, todo |-> todo] \in Jobs
  BY DEF Jobs
<1>2. /\ HeldBy([step |-> "ackread", item |-> i, todo |-> todo]) = {i} \cup todo
      /\ AheadOf([step |-> "ackread", item |-> i, todo |-> todo]) = todo
  BY DEF HeldBy, AheadOf
<1> QED
  BY <1>1, <1>2

LEMMA AckWriteJob ==
  ASSUME NEW i \in Instructions, NEW todo \in SUBSET Instructions,
         NEW rows \in [Instructions -> Lines]
  PROVE  LET next == [step |-> "ackwrite", item |-> i, todo |-> todo, read |-> rows]
         IN next \in Jobs /\ HeldBy(next) = {i} \cup todo /\ AheadOf(next) = todo
<1>1. [step |-> "ackwrite", item |-> i, todo |-> todo, read |-> rows] \in Jobs
  BY DEF Jobs
<1>2. /\ HeldBy([step |-> "ackwrite", item |-> i, todo |-> todo, read |-> rows]) = {i} \cup todo
      /\ AheadOf([step |-> "ackwrite", item |-> i, todo |-> todo, read |-> rows]) = todo
  BY DEF HeldBy, AheadOf
<1> QED
  BY <1>1, <1>2

\* What a job in progress has in hand.
LEMMA JobsAtWork ==
  ASSUME InboxTypeOK, JobsSound, NEW h \in Hands
  PROVE  /\ YetToRun(h) \subseteq Held(h) /\ Held(h) \subseteq Instructions
         /\ YetToRun(h) \subseteq Executable
         /\ Doing(h, "idle") \/ Doing(h, "append") => Held(h) = {}
         /\ Doing(h, "take") => Held(h) = job[h].todo /\ YetToRun(h) = job[h].todo
         /\ Doing(h, "execute") => /\ Held(h) = {job[h].item} \cup job[h].todo
                                   /\ YetToRun(h) = {job[h].item} \cup job[h].todo
         /\ Doing(h, "ackread") \/ Doing(h, "ackwrite") =>
              Held(h) = {job[h].item} \cup job[h].todo /\ YetToRun(h) = job[h].todo
         /\ Doing(h, "take") \/ Doing(h, "execute") \/ Doing(h, "ackread") \/ Doing(h, "ackwrite") =>
              job[h].todo \in SUBSET Executable
         /\ Doing(h, "append") \/ Doing(h, "execute") \/ Doing(h, "ackread") \/ Doing(h, "ackwrite") =>
              job[h].item \in Instructions
         /\ Doing(h, "execute") \/ Doing(h, "ackread") \/ Doing(h, "ackwrite") =>
              \A k \in job[h].todo : job[h].item < k
<1>1. JobSound(job[h])
  BY DEF JobsSound
<1> QED
  BY <1>1, JobShapes DEF JobSound, Held, YetToRun, HeldBy, AheadOf, Doing

\* Whom the specification calls a holder.
LEMMA HoldersAre ==
  ASSUME NEW g \in Hands, NEW i \in Instructions
  PROVE  Holds(g, i) <=> i \in Held(g)
  BY DEF Holds, Held, HeldBy, Doing

-----------------------------------------------------------------------------
LEMMA InboxStarts == InboxInit => InboxInv
<1> SUFFICES ASSUME InboxInit PROVE InboxInv
  OBVIOUS
<1>1. Done \in Jobs /\ HeldBy(Done) = {} /\ AheadOf(Done) = {} /\ JobSound(Done)
  BY DEF Done, Jobs, HeldBy, AheadOf, JobSound
<1>2. \A g \in Hands : job[g] = Done /\ Held(g) = {} /\ YetToRun(g) = {}
  BY <1>1 DEF InboxInit, Held, YetToRun
<1>3. InboxTypeOK /\ JobsSound
  <2>1. NoLines \in [Instructions -> Lines]
    BY DEF NoLines, Lines
  <2>2. job \in [Hands -> Jobs] /\ JobsSound
    BY <1>1 DEF InboxInit, JobsSound
  <2>3. runs \in [Instructions -> 0..2]
    BY DEF InboxInit
  <2> QED
    BY <2>1, <2>2, <2>3 DEF InboxInit, InboxTypeOK
<1>4. LinesKept
  BY <1>2 DEF InboxInit, LinesKept, Doing, Done
<1>5. \A i \in Instructions : RunOnce(i) /\ InTurn(i)
  BY <1>2 DEF InboxInit, RunOnce, InTurn
<1> QED
  BY <1>3, <1>4, <1>5 DEF InboxInit, InboxInv, InboxObeyed

\* Every variable keeps its type, every job stays sound.
LEMMA InboxTyped ==
  InboxTypeOK /\ JobsSound /\ [InboxNext]_inboxVars => InboxTypeOK' /\ JobsSound'
<1> SUFFICES ASSUME InboxTypeOK, JobsSound, [InboxNext]_inboxVars
             PROVE  InboxTypeOK' /\ JobsSound'
  OBVIOUS
<1>d. Done \in Jobs /\ JobSound(Done)
  BY DEF Done, Jobs, AheadOf, JobSound
<1>1. ASSUME NEW h \in Hands, NEW now \in BOOLEAN, AppendRead(h, now)
      PROVE  InboxTypeOK' /\ JobsSound'
  <2>1. PICK i \in Instructions :
          /\ \A j \in Instructions : inbox[j] # "none" => j < i
          /\ now => i \in Executable
          /\ Does(h, [step |-> "append", item |-> i, read |-> inbox, now |-> now])
    BY <1>1 DEF AppendRead
  <2> DEFINE next == [step |-> "append", item |-> i, read |-> inbox, now |-> now]
  <2>2. next \in Jobs /\ AheadOf(next) = {}
    BY AppendJob DEF InboxTypeOK
  <2>3. JobSound(next)
    BY <2>1, <2>2, InboxAssumption DEF JobSound, InboxTypeOK
  <2> QED
    BY <1>1, <2>1, <2>2, <2>3, JobsChange DEF AppendRead, InboxTypeOK, inboxHistory
<1>2. ASSUME NEW h \in Hands, AppendWrite(h) PROVE InboxTypeOK' /\ JobsSound'
  <2>1. /\ job[h].item \in Instructions /\ job[h].read \in [Instructions -> Lines]
        /\ job[h].now \in BOOLEAN
        /\ job[h].now => job[h].item \in Executable
    BY <1>2, JobShapes DEF AppendWrite, JobsSound, JobSound, Doing
  <2> DEFINE execute == [step |-> "execute", item |-> job[h].item, todo |-> {}]
  <2>2. execute \in Jobs /\ AheadOf(execute) = {job[h].item}
    BY <2>1 DEF Jobs, AheadOf
  <2>3. job[h].now => JobSound(execute)
    BY <2>1, <2>2 DEF JobSound
  <2>4. job' \in [Hands -> Jobs] /\ JobsSound'
    BY <1>2, <2>1, <2>2, <2>3, <1>d, JobsChange DEF AppendWrite
  <2>5. inbox' \in [Instructions -> Lines]
    BY <1>2, <2>1 DEF AppendWrite, Lines
  <2>6. /\ lossy' \in BOOLEAN /\ added' \subseteq Instructions /\ jumped' \subseteq Instructions
        /\ UNCHANGED <<runs, excused, overtaken>>
    BY <1>2, <2>1 DEF AppendWrite, InboxTypeOK, Outstanding, Pending
  <2> QED
    BY <2>4, <2>5, <2>6 DEF InboxTypeOK
<1>3. ASSUME NEW h \in Hands, ListInbox(h) PROVE InboxTypeOK' /\ JobsSound'
  <2>1. Pending \cap Executable \in SUBSET Executable
    OBVIOUS
  <2>2. job' \in [Hands -> Jobs] /\ JobsSound'
    BY <1>3, <2>1, NextSound, JobsChange DEF ListInbox
  <2> QED
    BY <1>3, <2>2, InboxAssumption DEF ListInbox, InboxTypeOK
<1>4. ASSUME NEW h \in Hands, Take(h) PROVE InboxTypeOK' /\ JobsSound'
  <2> DEFINE i == First(job[h].todo)
             next == [step |-> "execute", item |-> i, todo |-> job[h].todo \ {i}]
  <2>1. job[h].todo \in SUBSET Executable /\ job[h].todo # {}
    BY <1>4, JobsAtWork DEF Take, JobsSound, JobSound, Doing
  <2>2. i \in job[h].todo /\ \A k \in job[h].todo : i <= k
    BY <2>1, LeastOf, InboxAssumption
  <2>3. i \in Instructions /\ job[h].todo \ {i} \in SUBSET Instructions
    BY <2>1, <2>2, InboxAssumption
  <2>4. next \in Jobs /\ AheadOf(next) = job[h].todo
    BY <2>2, <2>3, ExecuteJob
  <2>5. \A k \in job[h].todo \ {i} : i < k
    <3>1. job[h].todo \subseteq Nat
      BY <2>1, InboxAssumption
    <3> HIDE DEF i
    <3> QED
      BY <2>2, <3>1
  <2>6. JobSound(next)
    BY <2>1, <2>4, <2>5 DEF JobSound
  <2> QED
    BY <1>4, <2>4, <2>6, JobsChange DEF Take, InboxTypeOK, inboxHistory
<1>5. ASSUME NEW h \in Hands, ExecuteInstruction(h) PROVE InboxTypeOK' /\ JobsSound'
  <2> DEFINE i == job[h].item
             next == [step |-> "ackread", item |-> i, todo |-> job[h].todo]
  <2>1. /\ i \in Executable /\ i \in Instructions /\ job[h].todo \in SUBSET Executable
        /\ job[h].todo \in SUBSET Instructions /\ \A k \in job[h].todo : i < k
    BY <1>5, JobsAtWork, InboxAssumption DEF ExecuteInstruction
  <2>2. next \in Jobs /\ AheadOf(next) = job[h].todo
    BY <2>1, AckReadJob
  <2>3. JobSound(next)
    BY <2>1, <2>2 DEF JobSound
  <2>4. job' \in [Hands -> Jobs] /\ JobsSound'
    BY <1>5, <2>1, <2>2, <2>3, NextSound, JobsChange DEF ExecuteInstruction
  <2>5. runs' \in [Instructions -> 0..2]
    BY <1>5, <2>1 DEF ExecuteInstruction, InboxTypeOK
  <2> QED
    BY <1>5, <2>1, <2>4, <2>5 DEF ExecuteInstruction, InboxTypeOK
<1>6. ASSUME NEW h \in Hands, AckRead(h) PROVE InboxTypeOK' /\ JobsSound'
  <2> DEFINE next == [step |-> "ackwrite", item |-> job[h].item, todo |-> job[h].todo, read |-> inbox]
  <2>1. /\ job[h].item \in Instructions /\ job[h].todo \in SUBSET Executable
        /\ job[h].todo \in SUBSET Instructions /\ \A k \in job[h].todo : job[h].item < k
    BY <1>6, JobsAtWork, InboxAssumption DEF AckRead
  <2>2. next \in Jobs /\ AheadOf(next) = job[h].todo
    BY <2>1, AckWriteJob DEF InboxTypeOK
  <2>3. JobSound(next)
    BY <2>1, <2>2 DEF JobSound
  <2> QED
    BY <1>6, <2>1, <2>2, <2>3, NextSound, JobsChange DEF AckRead, InboxTypeOK, inboxHistory
<1>7. ASSUME NEW h \in Hands, AckWrite(h) PROVE InboxTypeOK' /\ JobsSound'
  <2>1. /\ job[h].item \in Instructions /\ job[h].todo \in SUBSET Executable
        /\ job[h].read \in [Instructions -> Lines]
    BY <1>7, JobsAtWork, JobShapes DEF AckWrite
  <2>2. job' \in [Hands -> Jobs] /\ JobsSound'
    BY <1>7, <2>1, NextSound, JobsChange DEF AckWrite
  <2> QED
    BY <1>7, <2>1, <2>2 DEF AckWrite, InboxTypeOK, Lines, inboxHistory
<1>8. ASSUME NEW h \in Hands, NEW i \in Instructions, AckByHand(h, i)
      PROVE  InboxTypeOK' /\ JobsSound'
  <2> DEFINE next == [step |-> "ackwrite", item |-> i, todo |-> {}, read |-> inbox]
  <2>1. next \in Jobs /\ AheadOf(next) = {}
    BY AckWriteJob DEF InboxTypeOK
  <2>2. JobSound(next)
    BY <2>1 DEF JobSound
  <2> QED
    BY <1>8, <2>1, <2>2, JobsChange DEF AckByHand, InboxTypeOK
<1>9. ASSUME NEW h \in Hands, HandDies(h) PROVE InboxTypeOK' /\ JobsSound'
  <2>1. job' \in [Hands -> Jobs] /\ JobsSound'
    BY <1>9, <1>d, JobsChange DEF HandDies
  <2>2. job[h].step \in {"append", "ackwrite"} => job[h].read \in [Instructions -> Lines]
    BY JobShapes DEF Doing
  <2>3. inbox' \in [Instructions -> Lines] /\ lossy' \in BOOLEAN
    BY <1>9, <2>2 DEF HandDies, InboxTypeOK, Lines
  <2> QED
    BY <1>9, <2>1, <2>3 DEF HandDies, InboxTypeOK
<1>10. CASE UNCHANGED inboxVars
  BY <1>10 DEF inboxVars, InboxTypeOK, JobsSound
<1> QED
  BY <1>1, <1>2, <1>3, <1>4, <1>5, <1>6, <1>7, <1>8, <1>9, <1>10 DEF InboxNext

-----------------------------------------------------------------------------
\* What all hands but h have in hand stays the same.
OthersRest(h) ==
  \A g \in Hands \ {h} : job'[g] = job[g] /\ Held(g)' = Held(g) /\ YetToRun(g)' = YetToRun(g)

LEMMA WorkChanges ==
  ASSUME InboxTypeOK, NEW h \in Hands, NEW next, Does(h, next)
  PROVE  /\ OthersRest(h) /\ job'[h] = next
         /\ Held(h)' = HeldBy(next) /\ YetToRun(h)' = AheadOf(next)
  BY DEF InboxTypeOK, Does, OthersRest, Held, YetToRun

\* A step that neither moves i from hand to hand nor touches its line.
LEMMA OnceUntouched ==
  ASSUME NEW i \in Instructions, RunOnce(i), NEW h \in Hands, OthersRest(h),
         i \in Held(h)' <=> i \in Held(h), i \in YetToRun(h)' => i \in YetToRun(h),
         inbox'[i] = inbox[i], runs'[i] = runs[i]
  PROVE  RunOnce(i)'
<1>1. \A g \in Hands : i \in Held(g)' <=> i \in Held(g)
  BY DEF OthersRest
<1>2. \A g \in Hands : i \in YetToRun(g)' => i \in YetToRun(g)
  BY DEF OthersRest
<1> QED
  BY <1>1, <1>2 DEF RunOnce

LEMMA TurnUntouched ==
  ASSUME NEW i \in Instructions, InTurn(i), NEW h \in Hands, OthersRest(h),
         MayRun(i)' => MayRun(i), runs' = runs,
         YetToRun(h)' \subseteq YetToRun(h), i \in YetToRun(h) => i \in YetToRun(h)'
  PROVE  InTurn(i)'
  BY DEF InTurn, OthersRest

\* Nothing becomes due when no hand gets or releases a line and none changes.
LEMMA DueUntouched ==
  ASSUME NEW i \in Instructions, NEW h \in Hands, OthersRest(h),
         i \in Held(h)' <=> i \in Held(h), i \in YetToRun(h)' => i \in YetToRun(h),
         inbox'[i] = inbox[i]
  PROVE  MayRun(i)' => MayRun(i)
  BY DEF MayRun, OthersRest

\* Before a step that loses nothing: the invariant, and the frame of the step.
Before == InboxTypeOK /\ JobsSound /\ InboxObeyed /\ ~lossy /\ ~lossy'

LEMMA AppendReadObeys ==
  ASSUME Before, NEW h \in Hands, NEW now \in BOOLEAN, AppendRead(h, now)
  PROVE  InboxObeyed'
<1> DEFINE next(i) == [step |-> "append", item |-> i, read |-> inbox, now |-> now]
<1>1. PICK i \in Instructions :
        /\ inbox[i] = "none" /\ i \notin added
        /\ \A g \in Hands : Doing(g, "append") => job[g].item # i
        /\ Does(h, next(i))
  BY DEF AppendRead, InboxTypeOK
<1>2. /\ OthersRest(h) /\ job'[h] = next(i)
      /\ Held(h)' = {} /\ YetToRun(h)' = {} /\ Held(h) = {} /\ YetToRun(h) = {}
  BY <1>1, WorkChanges, AppendJob, JobsAtWork DEF Before, AppendRead, InboxTypeOK
<1>3. UNCHANGED <<inbox, added, runs, excused, jumped, overtaken>>
  BY DEF AppendRead, inboxHistory
<1>4. LinesKept'
  BY <1>1, <1>2, <1>3 DEF Before, InboxObeyed, LinesKept, OthersRest, Doing
<1>5. \A j \in Instructions \ excused' : RunOnce(j)'
  BY <1>2, <1>3, OnceUntouched DEF Before, InboxObeyed
<1>6. \A j \in Instructions \ (excused' \cup jumped') : InTurn(j)'
  BY <1>2, <1>3, TurnUntouched, DueUntouched DEF Before, InboxObeyed
<1> QED
  BY <1>3, <1>4, <1>5, <1>6 DEF Before, InboxObeyed

LEMMA TakeObeys ==
  ASSUME Before, NEW h \in Hands, Take(h)
  PROVE  InboxObeyed'
<1> DEFINE i == First(job[h].todo)
           next == [step |-> "execute", item |-> i, todo |-> job[h].todo \ {i}]
<1>1. job[h].todo \in SUBSET Instructions /\ i \in job[h].todo
  <2>1. job[h].todo \in SUBSET Executable /\ job[h].todo # {}
    BY JobsAtWork DEF Before, Take, JobsSound, JobSound, Doing
  <2> QED
    BY <2>1, LeastOf, InboxAssumption
<1>2. HeldBy(next) = job[h].todo /\ AheadOf(next) = job[h].todo
  <2>1. i \in Instructions /\ job[h].todo \ {i} \in SUBSET Instructions
    BY <1>1
  <2> QED
    BY <1>1, <2>1, ExecuteJob
<1>3. /\ OthersRest(h) /\ job'[h] = next
      /\ Held(h)' = Held(h) /\ YetToRun(h)' = YetToRun(h)
  BY <1>2, WorkChanges, JobsAtWork DEF Before, Take
<1>4. UNCHANGED <<inbox, added, runs, excused, jumped, overtaken>>
  BY DEF Take, inboxHistory
<1>5. LinesKept'
  BY <1>3, <1>4 DEF Before, InboxObeyed, LinesKept, OthersRest, Doing
<1>6. \A j \in Instructions \ excused' : RunOnce(j)'
  BY <1>3, <1>4, OnceUntouched DEF Before, InboxObeyed
<1>7. \A j \in Instructions \ (excused' \cup jumped') : InTurn(j)'
  BY <1>3, <1>4, TurnUntouched, DueUntouched DEF Before, InboxObeyed
<1> QED
  BY <1>4, <1>5, <1>6, <1>7 DEF Before, InboxObeyed

LEMMA AckReadObeys ==
  ASSUME Before, NEW h \in Hands, AckRead(h)
  PROVE  InboxObeyed'
<1> DEFINE i == job[h].item
           next == [step |-> "ackwrite", item |-> i, todo |-> job[h].todo, read |-> inbox]
<1>1. i \in Instructions /\ job[h].todo \in SUBSET Instructions /\ i \in Held(h)
  BY JobsAtWork, InboxAssumption DEF Before, AckRead
<1>2. Does(h, next)
  BY <1>1 DEF Before, InboxObeyed, LinesKept, AckRead
<1>3. /\ OthersRest(h) /\ job'[h] = next
      /\ Held(h)' = Held(h) /\ YetToRun(h)' = YetToRun(h)
  <2>1. HeldBy(next) = {i} \cup job[h].todo /\ AheadOf(next) = job[h].todo
    BY <1>1, AckWriteJob DEF Before, InboxTypeOK
  <2>2. Held(h) = {i} \cup job[h].todo /\ YetToRun(h) = job[h].todo
    BY JobsAtWork DEF Before, AckRead
  <2>3. InboxTypeOK
    BY DEF Before
  <2> HIDE DEF next
  <2> QED
    BY <1>2, <2>1, <2>2, <2>3, WorkChanges
<1>4. UNCHANGED <<inbox, added, runs, excused, jumped, overtaken>>
  BY DEF AckRead, inboxHistory
<1>5. LinesKept'
  BY <1>3, <1>4 DEF Before, InboxObeyed, LinesKept, OthersRest, Doing
<1>6. \A j \in Instructions \ excused' : RunOnce(j)'
  BY <1>3, <1>4, OnceUntouched DEF Before, InboxObeyed
<1>7. \A j \in Instructions \ (excused' \cup jumped') : InTurn(j)'
  BY <1>3, <1>4, TurnUntouched, DueUntouched DEF Before, InboxObeyed
<1> QED
  BY <1>4, <1>5, <1>6, <1>7 DEF Before, InboxObeyed

LEMMA AppendWriteObeys ==
  ASSUME Before, NEW h \in Hands, AppendWrite(h)
  PROVE  InboxObeyed'
<1> DEFINE i == job[h].item
           execute == [step |-> "execute", item |-> i, todo |-> {}]
<1>1. /\ i \in Instructions /\ job[h].now \in BOOLEAN /\ job[h].read = inbox
      /\ job[h].now => i \in Executable
      /\ \A k \in Instructions : k >= i => inbox[k] = "none"
      /\ Held(h) = {} /\ YetToRun(h) = {}
  BY JobsAtWork, JobShapes DEF Before, AppendWrite, JobsSound, JobSound, Doing
<1>2. \A k \in Instructions : k >= i =>
        runs[k] = 0 /\ k \notin added /\ \A g \in Hands : k \notin Held(g)
  BY <1>1 DEF Before, InboxObeyed, LinesKept, InboxTypeOK
<1>3. /\ HeldBy(execute) = {i} /\ AheadOf(execute) = {i}
      /\ HeldBy(Done) = {} /\ AheadOf(Done) = {}
  BY <1>1 DEF HeldBy, AheadOf, Done
<1>4. /\ OthersRest(h) /\ job'[h].step # "append"
      /\ Held(h)' = IF job[h].now THEN {i} ELSE {}
      /\ YetToRun(h)' = IF job[h].now THEN {i} ELSE {}
  <2>1. execute.step # "append" /\ Done.step # "append"
    BY DEF Done
  <2> QED
    BY <1>1, <1>3, <2>1, WorkChanges DEF Before, AppendWrite
<1>5. /\ inbox' = [inbox EXCEPT ![i] = "pending"] /\ added' = added \cup {i}
      /\ UNCHANGED <<runs, excused, overtaken>>
      /\ jumped' = IF job[h].now THEN jumped \cup {j \in Outstanding : j < i} ELSE jumped
  BY <1>1 DEF AppendWrite
<1>6. /\ inbox'[i] = "pending" /\ \A k \in Instructions \ {i} : inbox'[k] = inbox[k]
  BY <1>1, <1>5 DEF Before, InboxTypeOK
<1>7. LinesKept'
  <2>1. \A g \in Hands : Doing(g, "append")' => g # h /\ job'[g] = job[g] /\ job[g].item # i
    BY <1>4 DEF Before, InboxObeyed, LinesKept, OthersRest, Doing, AppendWrite
  <2> QED
    BY <1>1, <1>4, <1>5, <1>6, <2>1, JobShapes
       DEF Before, InboxObeyed, LinesKept, OthersRest, Doing
<1>8. ASSUME NEW k \in Instructions \ excused' PROVE RunOnce(k)'
  <2>1. RunOnce(k)
    BY <1>5 DEF Before, InboxObeyed
  <2>2. CASE k = i
    <3>1. runs[k] = 0 /\ \A g \in Hands : k \notin Held(g) /\ k \notin YetToRun(g)
      BY <1>1, <1>2, <2>2, NumbersOrdered, JobsAtWork DEF Before
    <3>2. \A g \in Hands : k \in Held(g)' => g = h
      BY <3>1, <1>4 DEF OthersRest
    <3> QED
      BY <1>5, <1>6, <2>2, <3>1, <3>2 DEF RunOnce
  <2>3. CASE k # i
    BY <1>1, <1>4, <1>5, <1>6, <2>1, <2>3, OnceUntouched
  <2> QED
    BY <2>2, <2>3
<1>9. ASSUME NEW k \in Instructions \ (excused' \cup jumped') PROVE InTurn(k)'
  <2>1. InTurn(k)
    BY <1>5 DEF Before, InboxObeyed
  <2>2. CASE k = i
    <3>1. \A m \in Instructions : m > i => runs[m] = 0 /\ \A g \in Hands : m \notin YetToRun(g)
      BY <1>1, <1>2, NumbersOrdered, JobsAtWork DEF Before
    <3>2. \A m \in Instructions : m > i => m \notin YetToRun(h)'
      BY <1>1, <1>4, NumbersOrdered
    <3>3. \A m \in Instructions : m > i => \A g \in Hands : m \notin YetToRun(g)'
      BY <1>4, <3>1, <3>2 DEF OthersRest
    <3> QED
      BY <1>5, <2>2, <3>1, <3>3 DEF InTurn
  <2>3. CASE k # i /\ ~job[h].now
    <3>1. Held(h)' = Held(h) /\ YetToRun(h)' = YetToRun(h)
      BY <1>1, <1>4, <2>3
    <3> QED
      BY <1>4, <1>5, <1>6, <2>1, <2>3, <3>1, TurnUntouched, DueUntouched
  <2>4. CASE k # i /\ job[h].now
    <3>1. k \in Outstanding => ~(k < i)
      BY <1>5, <2>4
    <3>2. MayRun(k)' => MayRun(k)
      BY <1>1, <1>4, <1>6, <2>4, DueUntouched
    <3>3. MayRun(k) => k \in Outstanding
      BY HoldersAre, JobsAtWork DEF MayRun, Outstanding, Pending, Before
    <3>4. MayRun(k) => inbox[k] # "none"
      BY JobsAtWork DEF MayRun, Before, InboxObeyed, LinesKept
    <3>5. ~MayRun(k)
      BY <1>1, <2>4, <3>1, <3>3, <3>4, NumbersOrdered
    <3> QED
      BY <3>2, <3>5 DEF InTurn
  <2> QED
    BY <2>2, <2>3, <2>4
<1> QED
  BY <1>5, <1>7, <1>8, <1>9 DEF Before, InboxObeyed

LEMMA ListInboxObeys ==
  ASSUME Before, NEW h \in Hands, ListInbox(h)
  PROVE  InboxObeyed'
<1> DEFINE todo == Pending \cap Executable
<1>1. /\ todo \in SUBSET Executable /\ todo \subseteq Instructions
      /\ \A i \in Instructions : i \in todo <=> inbox[i] = "pending" /\ i \in Executable
  BY InboxAssumption DEF Pending
<1>2. /\ OthersRest(h) /\ Held(h) = {} /\ YetToRun(h) = {} /\ Held(h)' = todo /\ YetToRun(h)' = todo
      /\ job'[h].step # "append"
  BY <1>1, WorkChanges, NextSound, JobsAtWork DEF Before, ListInbox
<1>3. /\ UNCHANGED <<inbox, added, runs, jumped, overtaken>>
      /\ excused \subseteq excused'
      /\ \A i \in todo : (\E g \in Hands : i \in Held(g)) => i \in excused'
  BY <1>1, HoldersAre DEF ListInbox
<1>4. LinesKept'
  BY <1>1, <1>2, <1>3 DEF Before, InboxObeyed, LinesKept, OthersRest, Doing
<1>5. ASSUME NEW i \in Instructions \ excused' PROVE RunOnce(i)'
  <2>1. RunOnce(i)
    BY <1>3 DEF Before, InboxObeyed
  <2>2. CASE i \in todo
    <3>1. \A g \in Hands : i \notin Held(g)
      BY <1>3, <2>2
    <3>2. \A g \in Hands : i \in Held(g)' => g = h
      BY <1>2, <3>1 DEF OthersRest
    <3>3. runs[i] = 0
      BY <1>1, <2>1, <2>2, <3>1 DEF RunOnce, Before, InboxTypeOK
    <3> QED
      BY <1>1, <1>3, <2>2, <3>2, <3>3 DEF RunOnce
  <2>3. CASE i \notin todo
    BY <1>2, <1>3, <2>1, <2>3, OnceUntouched
  <2> QED
    BY <2>2, <2>3
<1>6. ASSUME NEW i \in Instructions \ (excused' \cup jumped') PROVE InTurn(i)'
  <2>1. InTurn(i) /\ RunOnce(i)
    BY <1>3 DEF Before, InboxObeyed
  <2>2. CASE i \in todo
    <3>1. \A g \in Hands : i \notin Held(g)
      BY <1>3, <2>2
    <3>2. MayRun(i)
      BY <1>1, <2>2, <3>1 DEF MayRun
    <3>3. \A g \in Hands : i \notin YetToRun(g)
      BY <3>1, JobsAtWork DEF Before
    <3> QED
      BY <1>2, <1>3, <2>1, <2>2, <3>2, <3>3 DEF InTurn, OthersRest
  <2>3. CASE i \notin todo
    <3>1. ~MayRun(i)'
      <4>1. \A g \in Hands : i \notin YetToRun(g)
        BY <1>1, <2>1, <2>3, JobsAtWork DEF RunOnce, Before
      <4> QED
        BY <1>1, <1>2, <1>3, <2>3, <4>1 DEF MayRun, OthersRest
    <3> QED
      BY <3>1 DEF InTurn
  <2> QED
    BY <2>2, <2>3
<1> QED
  BY <1>3, <1>4, <1>5, <1>6 DEF Before, InboxObeyed

LEMMA ExecuteObeys ==
  ASSUME Before, NEW h \in Hands, ExecuteInstruction(h)
  PROVE  InboxObeyed'
<1> DEFINE i == job[h].item
           ackread == [step |-> "ackread", item |-> i, todo |-> job[h].todo]
<1>1. /\ i \in Instructions /\ i \in Executable
      /\ job[h].todo \in SUBSET Executable /\ job[h].todo \in SUBSET Instructions
      /\ \A k \in job[h].todo : i < k
      /\ Held(h) = {i} \cup job[h].todo /\ YetToRun(h) = {i} \cup job[h].todo
  BY JobsAtWork, InboxAssumption DEF Before, ExecuteInstruction
<1>2. i \notin job[h].todo
  BY <1>1, NumbersOrdered
<1>3. /\ OthersRest(h) /\ YetToRun(h)' = job[h].todo /\ job'[h].step # "append"
      /\ \/ Held(h)' = Held(h) /\ excused' = excused
         \/ Held(h)' = job[h].todo /\ excused' = excused \cup {i}
  <2>1. HeldBy(ackread) = {i} \cup job[h].todo /\ AheadOf(ackread) = job[h].todo
    BY <1>1, AckReadJob
  <2>2. /\ HeldBy(NextOf(job[h].todo)) = job[h].todo /\ AheadOf(NextOf(job[h].todo)) = job[h].todo
        /\ NextOf(job[h].todo).step # "append"
    BY <1>1, NextSound
  <2>3. \/ Does(h, ackread) /\ UNCHANGED excused
        \/ Does(h, NextOf(job[h].todo)) /\ excused' = excused \cup {i}
    BY DEF ExecuteInstruction
  <2> QED
    BY <1>1, <2>1, <2>2, <2>3, WorkChanges DEF Before
<1>4. /\ UNCHANGED <<inbox, added, jumped>>
      /\ runs'[i] = IF runs[i] = 2 THEN 2 ELSE runs[i] + 1
      /\ \A k \in Instructions \ {i} : runs'[k] = runs[k]
      /\ overtaken' = IF \E k \in Instructions : k > i /\ runs[k] > 0
                      THEN overtaken \cup {i} ELSE overtaken
  BY <1>1 DEF Before, InboxTypeOK, ExecuteInstruction
<1>5. LinesKept'
  BY <1>1, <1>3, <1>4 DEF Before, InboxObeyed, LinesKept, OthersRest, Doing
<1>6. ASSUME NEW k \in Instructions \ excused' PROVE RunOnce(k)'
  <2>1. RunOnce(k)
    BY <1>3 DEF Before, InboxObeyed
  <2>2. CASE k = i
    <3>1. Held(h)' = Held(h) /\ runs[k] = 0
      BY <1>1, <1>3, <2>1, <2>2 DEF RunOnce
    <3>2. \A g \in Hands : k \in Held(g)' <=> k \in Held(g)
      BY <1>3, <3>1 DEF OthersRest
    <3>3. \A g \in Hands : k \notin YetToRun(g)'
      BY <1>1, <1>2, <1>3, <2>1, <2>2, JobsAtWork DEF RunOnce, OthersRest, Before
    <3> QED
      BY <1>1, <1>4, <2>1, <2>2, <3>1, <3>2, <3>3 DEF RunOnce
  <2>3. CASE k # i
    BY <1>1, <1>3, <1>4, <2>1, <2>3, OnceUntouched
  <2> QED
    BY <2>2, <2>3
<1>7. ASSUME NEW k \in Instructions \ (excused' \cup jumped') PROVE InTurn(k)'
  <2>1. InTurn(k) /\ RunOnce(k)
    BY <1>3, <1>4 DEF Before, InboxObeyed
  <2>2. CASE k = i
    <3>1. Held(h)' = Held(h)
      BY <1>3, <2>2
    <3>2. \A g \in Hands : k \notin YetToRun(g)'
      BY <1>1, <1>2, <1>3, <2>1, <2>2, JobsAtWork DEF RunOnce, OthersRest, Before
    <3>3. ~MayRun(k)'
      BY <1>1, <2>2, <3>1, <3>2 DEF MayRun
    <3> QED
      BY <3>3 DEF InTurn
  <2>3. CASE k # i
    <3>1. MayRun(k)' => MayRun(k)
      BY <1>1, <1>3, <1>4, <2>3, DueUntouched
    <3>2. MayRun(k) /\ i > k => k \in job[h].todo
      BY <1>1, <2>1, <2>3 DEF InTurn
    <3>3. MayRun(k) => ~(i > k)
      BY <1>1, <3>2, NumbersOrdered
    <3> QED
      BY <1>1, <1>3, <1>4, <2>1, <2>3, <3>1, <3>3 DEF InTurn, OthersRest
  <2> QED
    BY <2>2, <2>3
<1>8. overtaken' \subseteq excused' \cup jumped'
  <2>1. i \notin excused \cup jumped => InTurn(i)
    BY <1>1 DEF Before, InboxObeyed
  <2>2. MayRun(i)
    BY <1>1 DEF MayRun
  <2> QED
    BY <1>1, <1>3, <1>4, <2>1, <2>2 DEF InTurn, Before, InboxObeyed
<1> QED
  BY <1>5, <1>6, <1>7, <1>8 DEF InboxObeyed

LEMMA AckWriteObeys ==
  ASSUME Before, NEW h \in Hands, AckWrite(h)
  PROVE  InboxObeyed'
<1> DEFINE i == job[h].item
<1>1. /\ i \in Instructions /\ job[h].todo \in SUBSET Executable /\ job[h].read = inbox
      /\ \A k \in job[h].todo : i < k
      /\ Held(h) = {i} \cup job[h].todo /\ YetToRun(h) = job[h].todo
  BY JobsAtWork DEF Before, AckWrite
<1>2. i \notin job[h].todo
  BY <1>1, NumbersOrdered, InboxAssumption
<1>3. /\ OthersRest(h) /\ Held(h)' = job[h].todo /\ YetToRun(h)' = job[h].todo
      /\ job'[h].step # "append"
  <2>1. Does(h, NextOf(job[h].todo)) /\ InboxTypeOK
    BY DEF Before, AckWrite
  <2> QED
    BY <1>1, <2>1, WorkChanges, NextSound
<1>4. /\ inbox'[i] = "acked" /\ \A k \in Instructions \ {i} : inbox'[k] = inbox[k]
      /\ UNCHANGED <<added, runs, excused, jumped, overtaken>>
  BY <1>1 DEF Before, InboxTypeOK, AckWrite, inboxHistory
<1>5. LinesKept'
  <2>1. \A k \in Instructions : inbox[k] # "none" => inbox'[k] # "none"
    BY <1>4
  <2>2. \A g \in Hands : \A k \in Held(g)' : inbox'[k] # "none"
    BY <1>1, <1>3, <2>1, JobsAtWork DEF Before, InboxObeyed, LinesKept, OthersRest
  <2>3. \A g \in Hands : Doing(g, "append")' => g # h /\ job'[g] = job[g]
    BY <1>3 DEF OthersRest, Doing
  <2>4. inbox[i] # "none"
    BY <1>1 DEF Before, InboxObeyed, LinesKept
  <2>5. \A g \in Hands : Doing(g, "append") => job[g].item \in Instructions
    BY JobsAtWork DEF Before
  <2>6. \A g \in Hands : Doing(g, "append")' => inbox'[job'[g].item] = "none"
    BY <1>4, <2>3, <2>4, <2>5 DEF Before, InboxObeyed, LinesKept, Doing
  <2> QED
    BY <1>4, <2>1, <2>2, <2>3, <2>6 DEF Before, InboxObeyed, LinesKept, Doing
<1>6. ASSUME NEW k \in Instructions \ excused' PROVE RunOnce(k)'
  <2>1. RunOnce(k)
    BY <1>4 DEF Before, InboxObeyed
  <2>2. CASE k = i
    <3>1. \A g \in Hands : k \notin Held(g)'
      BY <1>1, <1>2, <1>3, <2>1, <2>2 DEF RunOnce, OthersRest
    <3>2. \A g \in Hands : k \notin YetToRun(g)'
      BY <1>1, <1>2, <1>3, <2>1, <2>2, JobsAtWork DEF RunOnce, OthersRest, Before
    <3> QED
      BY <1>4, <2>1, <2>2, <3>1, <3>2 DEF RunOnce
  <2>3. CASE k # i
    BY <1>1, <1>3, <1>4, <2>1, <2>3, OnceUntouched
  <2> QED
    BY <2>2, <2>3
<1>7. ASSUME NEW k \in Instructions \ (excused' \cup jumped') PROVE InTurn(k)'
  <2>1. InTurn(k) /\ RunOnce(k)
    BY <1>4 DEF Before, InboxObeyed
  <2>2. CASE k = i
    <3>1. \A g \in Hands : k \notin YetToRun(g)'
      BY <1>1, <1>2, <1>3, <2>1, <2>2, JobsAtWork DEF RunOnce, OthersRest, Before
    <3> QED
      BY <1>4, <2>2, <3>1 DEF MayRun, InTurn
  <2>3. CASE k # i
    BY <1>1, <1>3, <1>4, <2>1, <2>3, TurnUntouched, DueUntouched
  <2> QED
    BY <2>2, <2>3
<1> QED
  BY <1>4, <1>5, <1>6, <1>7 DEF Before, InboxObeyed

LEMMA AckByHandObeys ==
  ASSUME Before, NEW h \in Hands, NEW i \in Instructions, AckByHand(h, i)
  PROVE  InboxObeyed'
<1> DEFINE next == [step |-> "ackwrite", item |-> i, todo |-> {}, read |-> inbox]
<1>1. Held(h) = {} /\ YetToRun(h) = {} /\ HeldBy(next) = {i} /\ AheadOf(next) = {}
  BY JobsAtWork, AckWriteJob DEF Before, AckByHand, InboxTypeOK
<1>2. /\ OthersRest(h) /\ Held(h)' = {i} /\ YetToRun(h)' = {} /\ job'[h].step # "append"
  <2>1. Does(h, next) /\ InboxTypeOK /\ next.step # "append"
    BY DEF Before, AckByHand
  <2> HIDE DEF next
  <2> QED
    BY <1>1, <2>1, WorkChanges
<1>3. /\ UNCHANGED <<inbox, added, runs, jumped, overtaken>> /\ inbox[i] # "none"
      /\ excused \subseteq excused'
      /\ (\E g \in Hands : i \in Held(g)) => i \in excused'
  BY HoldersAre DEF AckByHand
<1>4. LinesKept'
  BY <1>2, <1>3 DEF Before, InboxObeyed, LinesKept, OthersRest, Doing
<1>5. ASSUME NEW k \in Instructions \ excused' PROVE RunOnce(k)'
  <2>1. RunOnce(k)
    BY <1>3 DEF Before, InboxObeyed
  <2>2. CASE k = i
    <3>1. \A g \in Hands : k \notin Held(g)
      BY <1>3, <2>2
    <3>2. \A g \in Hands : k \in Held(g)' => g = h
      BY <1>2, <3>1 DEF OthersRest
    <3>3. \A g \in Hands : k \notin YetToRun(g)'
      BY <1>2, <3>1, JobsAtWork DEF OthersRest, Before
    <3> QED
      BY <1>2, <1>3, <2>1, <2>2, <3>2, <3>3 DEF RunOnce
  <2>3. CASE k # i
    BY <1>1, <1>2, <1>3, <2>1, <2>3, OnceUntouched
  <2> QED
    BY <2>2, <2>3
<1>6. ASSUME NEW k \in Instructions \ (excused' \cup jumped') PROVE InTurn(k)'
  <2>1. InTurn(k)
    BY <1>3 DEF Before, InboxObeyed
  <2>2. MayRun(k)' => MayRun(k)
    BY <1>1, <1>2, <1>3 DEF MayRun, OthersRest
  <2> QED
    BY <1>1, <1>2, <1>3, <2>1, <2>2, TurnUntouched
<1> QED
  BY <1>3, <1>4, <1>5, <1>6 DEF Before, InboxObeyed

LEMMA HandDiesObeys ==
  ASSUME Before, NEW h \in Hands, HandDies(h)
  PROVE  InboxObeyed'
<1>1. /\ OthersRest(h) /\ Held(h)' = {} /\ YetToRun(h)' = {} /\ job'[h].step # "append"
  <2>1. Does(h, Done) /\ InboxTypeOK /\ Done.step # "append" /\ HeldBy(Done) = {} /\ AheadOf(Done) = {}
    BY DEF Before, HandDies, Done, HeldBy, AheadOf
  <2> QED
    BY <2>1, WorkChanges
<1>2. /\ UNCHANGED <<inbox, added, runs, jumped, overtaken>>
      /\ excused \subseteq excused'
      /\ \A k \in Held(h) : k \in excused'
      /\ Held(h) \subseteq Instructions
  BY HoldersAre, JobsAtWork DEF Before, HandDies
<1>3. LinesKept'
  BY <1>1, <1>2 DEF Before, InboxObeyed, LinesKept, OthersRest, Doing
<1>4. ASSUME NEW k \in Instructions \ excused' PROVE RunOnce(k)'
  <2>1. RunOnce(k) /\ k \notin Held(h)
    BY <1>2 DEF Before, InboxObeyed
  <2> QED
    BY <1>1, <1>2, <2>1, OnceUntouched
<1>5. ASSUME NEW k \in Instructions \ (excused' \cup jumped') PROVE InTurn(k)'
  <2>1. InTurn(k) /\ k \notin Held(h) /\ k \notin YetToRun(h)
    BY <1>2, JobsAtWork DEF Before, InboxObeyed
  <2> QED
    BY <1>1, <1>2, <2>1, TurnUntouched, DueUntouched
<1> QED
  BY <1>2, <1>3, <1>4, <1>5 DEF Before, InboxObeyed

LEMMA InboxSteps == InboxInv /\ [InboxNext]_inboxVars => InboxInv'
<1> SUFFICES ASSUME InboxInv, [InboxNext]_inboxVars PROVE InboxInv'
  OBVIOUS
<1>1. InboxTypeOK' /\ JobsSound'
  BY InboxTyped DEF InboxInv
<1>2. ASSUME ~lossy', InboxNext PROVE InboxObeyed'
  <2>1. ~lossy
    BY <1>2 DEF InboxInv, InboxTypeOK, InboxNext, AppendRead, AppendWrite, ListInbox, Take,
           ExecuteInstruction, AckRead, AckWrite, AckByHand, HandDies
  <2>2. Before
    BY <1>2, <2>1 DEF Before, InboxInv
  <2> QED
    BY <1>2, <2>2, AppendReadObeys, AppendWriteObeys, ListInboxObeys, TakeObeys, ExecuteObeys,
       AckReadObeys, AckWriteObeys, AckByHandObeys, HandDiesObeys DEF InboxNext
<1>3. CASE UNCHANGED inboxVars
  <2>1. LinesKept => LinesKept'
    BY <1>3 DEF inboxVars, LinesKept, Held, Doing
  <2>2. \A i \in Instructions : RunOnce(i) => RunOnce(i)'
    BY <1>3 DEF inboxVars, RunOnce, Held, YetToRun
  <2>3. \A i \in Instructions : InTurn(i) => InTurn(i)'
    BY <1>3 DEF inboxVars, InTurn, MayRun, Held, YetToRun
  <2> QED
    BY <1>1, <1>3, <2>1, <2>2, <2>3 DEF inboxVars, InboxInv, InboxObeyed
<1> QED
  BY <1>1, <1>2, <1>3 DEF InboxInv

\* Whoever appends, executes, acknowledges and dies in the middle: an acknowledged
\* append stays, and instructions run once and in their turn, but for what
\* InstructionsObeyed excepts - for any number of instructions and hands.
THEOREM InstructionsAreObeyed == InboxSpec => [](InboxTypeOK /\ InstructionsObeyed)
<1>1. InboxInv => InboxTypeOK /\ InstructionsObeyed
  BY DEF InboxInv, InboxObeyed, LinesKept, RunOnce, InstructionsObeyed, InboxKeeps,
         ExecutedOnce, GivenOrder, InboxTypeOK
<1> QED
  BY <1>1, InboxStarts, InboxSteps, PTL DEF InboxSpec

-----------------------------------------------------------------------------
\* The replays of the V221 engine.

BarTimes == [day : 1 .. ReplayDays, clock : Clocks]

LEMMA BarsHold ==
  /\ ReplayDays \in Nat /\ BarTimes \subseteq ReplayDates
  /\ \A b \in Tape : /\ b.open \in Nat \ {0} /\ b.high \in Nat /\ b.low \in Nat /\ b.close \in Nat
                     /\ b.low <= b.open /\ b.low <= b.close /\ b.open <= b.high /\ b.close <= b.high
  /\ \A g \in Readings : /\ g.regime \in Regimes /\ g.choppy \in BOOLEAN
<1>1. BarTimes \subseteq ReplayDates
  <2>1. ReplayDays \in Nat /\ Clocks \subseteq Nat
    BY ReplayAssumption
  <2> SUFFICES ASSUME NEW t \in BarTimes PROVE t \in ReplayDates
    OBVIOUS
  <2>2. t.day \in 1 .. ReplayDays /\ t.clock \in Clocks
    BY DEF BarTimes
  <2>3. t = [day |-> t.day, clock |-> t.clock]
    BY DEF BarTimes
  <2> QED
    BY <2>1, <2>2, <2>3 DEF ReplayDates
<1> QED
  BY <1>1, ReplayAssumption

\* What each operation of the engine does to it.

LEMMA EnterDoes ==
  ASSUME NEW e \in Engines, NEW direction \in {"BUY", "SELL"}, NEW fill \in Nat, NEW entry \in Nat,
         NEW when \in BarTimes, NEW f, f = Enter(e, direction, fill, entry, when)
  PROVE  /\ f \in Engines
         /\ f.position = (IF direction = "BUY" THEN "LONG" ELSE "SHORT")
         /\ f.fill = fill /\ f.entered = when /\ f.pending = "NONE"
         /\ f.day = e.day /\ f.choppy = e.choppy /\ f.regime = e.regime /\ f.trades = e.trades
<1>1. when \in ReplayDates /\ <<>> \in Seq(Int)
  BY BarsHold, EmptySeq
<1>2. PICK none \in Seq(Int) : none = <<>>
  BY <1>1
<1> QED
  BY <1>1, <1>2 DEF Enter, Engines, Directions

LEMMA CancelDoes ==
  ASSUME NEW e \in Engines
  PROVE  LET f == CancelPending(e)
         IN /\ f \in Engines /\ f.pending = "NONE"
            /\ f.position = e.position /\ f.fill = e.fill /\ f.entered = e.entered
            /\ f.day = e.day /\ f.choppy = e.choppy /\ f.regime = e.regime /\ f.trades = e.trades
  BY DEF CancelPending, Engines

TradeOf(e, price, when, reason) ==
  [direction |-> e.position, pts |-> IF e.position = "LONG" THEN price - e.fill ELSE e.fill - price,
   entered |-> e.entered, exited |-> when, reason |-> reason]

LEMMA ExitDoes ==
  ASSUME NEW e \in Engines, e.position # "NONE", NEW price \in Int, NEW when \in BarTimes,
         NEW reason \in Reasons
  PROVE  LET f == ExitFilled(e, price, when, reason)
         IN /\ f \in Engines /\ f.position = "NONE"
            /\ TradeOf(e, price, when, reason) \in TradeRecords
            /\ f.trades = Append(e.trades, TradeOf(e, price, when, reason))
            /\ LastTrade(f) = TradeOf(e, price, when, reason)
            /\ f.pending = e.pending /\ f.fill = e.fill /\ f.entered = e.entered
            /\ f.day = e.day /\ f.choppy = e.choppy /\ f.regime = e.regime
<1>1. PICK trade : trade = TradeOf(e, price, when, reason)
  OBVIOUS
<1>2. trade \in TradeRecords
  BY <1>1, BarsHold DEF TradeOf, TradeRecords, Engines, Directions
<1>3. ExitFilled(e, price, when, reason) =
        [e EXCEPT !.trades = Append(@, trade), !.position = "NONE", !.gains = <<>>]
  BY <1>1 DEF ExitFilled, TradeOf
<1>4. Append(e.trades, trade) \in Seq(TradeRecords) /\ e.trades \in Seq(TradeRecords)
  BY <1>2, AppendProperties DEF Engines
<1>5. Append(e.trades, trade)[Len(Append(e.trades, trade))] = trade
  BY <1>2, <1>4, AppendProperties
<1>6. PICK none \in Seq(Int) : none = <<>>
  BY EmptySeq
<1> QED
  BY <1>1, <1>2, <1>3, <1>4, <1>5, <1>6 DEF Engines, LastTrade

\* The time of a date, on one scale.
NotAfter(t, u) == t.day < u.day \/ (t.day = u.day /\ t.clock <= u.clock)

LEMMA NewDayDoes ==
  ASSUME NEW e \in Engines, NEW when \in BarTimes, NEW reading \in Readings
  PROVE  LET f == NewDay(e, when, reading)
         IN /\ f \in Engines /\ f.day = when.day
            /\ f.choppy = (IF e.day = when.day THEN e.choppy ELSE reading.choppy)
            /\ f.position = e.position /\ f.fill = e.fill /\ f.entered = e.entered
            /\ f.pending = e.pending /\ f.regime = e.regime /\ f.trades = e.trades
            /\ f.entry = e.entry /\ f.gains = e.gains
<1>1. when.day \in 0 .. ReplayDays /\ reading.choppy \in BOOLEAN
  BY BarsHold DEF BarTimes
<1> QED
  BY <1>1 DEF NewDay, Engines

LEMMA RegimeDoes ==
  ASSUME NEW e \in Engines, NEW clock, NEW reading \in Readings
  PROVE  LET f == Regime(e, clock, reading)
         IN /\ f \in Engines
            /\ f.regime = (IF OfficeHours(clock) THEN reading.regime ELSE e.regime)
            /\ f.day = e.day /\ f.choppy = e.choppy
            /\ f.position = e.position /\ f.fill = e.fill /\ f.entered = e.entered
            /\ f.pending = e.pending /\ f.trades = e.trades
  BY BarsHold DEF Regime, Engines

LEMMA MarkedDoes ==
  ASSUME NEW e \in Engines, NEW bar \in Tape
  PROVE  LET f == Marked(e, bar)
         IN /\ f \in Engines
            /\ f.day = e.day /\ f.choppy = e.choppy /\ f.regime = e.regime
            /\ f.position = e.position /\ f.fill = e.fill /\ f.entered = e.entered
            /\ f.pending = e.pending /\ f.trades = e.trades
<1>1. PICK move : move = IF e.position = "LONG" THEN bar.close - e.entry ELSE e.entry - bar.close
  OBVIOUS
<1>2. e.gains \in Seq(Int) /\ move \in Int
  BY <1>1, BarsHold DEF Engines
<1>3. Append(e.gains, move) \in Seq(Int)
  BY <1>2, AppendProperties
<1> QED
  BY <1>1, <1>3 DEF Marked, Engines

Asks(e, clock, reading) ==
  Trigger(clock, reading) # "NONE" /\ reading.spike /\ ~GateBlocks(e, reading)

LEMMA SignalledDoes ==
  ASSUME NEW e \in Engines, NEW clock, NEW reading \in Readings
  PROVE  LET f == Signalled(e, clock, reading)
         IN /\ f \in Engines
            /\ f.day = e.day /\ f.choppy = e.choppy /\ f.regime = e.regime
            /\ f.position = e.position /\ f.fill = e.fill /\ f.entered = e.entered
            /\ f.trades = e.trades
            /\ f.pending = (IF Asks(e, clock, reading)
                            THEN Trigger(clock, reading) ELSE e.pending)
<1>1. Trigger(clock, reading) \in {"NONE", "BUY", "SELL"}
  BY DEF Trigger
<1> QED
  BY <1>1 DEF Signalled, Asks, Engines

\* An exit has one of the engine's own reasons.
EngineReasons == Reasons \ {"STOP_FILLED_BROKER", "SESSION_FLATTEN"}

LEMMA FirstReasonSays ==
  ASSUME NEW rows, NEW n \in Nat, DOMAIN rows = 1 .. n, NEW S, \A i \in 1 .. n : rows[i].reason \in S
  PROVE  FirstReason(rows) \in S \cup {"KEEP"}
<1>1. PICK applying : applying = {i \in DOMAIN rows : rows[i].when}
  OBVIOUS
<1>2. CASE applying = {}
  BY <1>1, <1>2 DEF FirstReason
<1>3. CASE applying # {}
  <2>0. applying \in SUBSET Nat
    BY <1>1
  <2>1. Min(applying) \in applying
    BY <1>3, <2>0, LeastExists DEF Min
  <2> QED
    BY <1>1, <1>3, <2>1 DEF FirstReason
<1> QED
  BY <1>2, <1>3

\* The rules of an exit, in their order.
ExitRows(e, clock) ==
  <<ProfitTake(e, 40, "4_percent"), ProfitTake(e, 30, "3_percent"),
    ProfitTake(e, 20, "2_percent"),
    Rule(e.position = "SHORT" /\ e.regime = "takeOff", "takeOff"),
    Rule(e.position = "LONG" /\ e.regime = "landing", "landing"),
    Rule(Percent(LastGain(e)) <= Tenths(-5, e) /\ e.regime = "nowhere", "yeah_its_failing"),
    Rule(~OfficeHours(clock) /\ Percent(MaxGain(e)) >= Tenths(5, e) /\ Len(e.gains) >= 5,
         IF ReversedFrom(e, 5) THEN "afterHours_profitable" ELSE "profitable"),
    Rule(~OfficeHours(clock) /\ Percent(MinGain(e)) <= Tenths(-4, e), "afterHours_failing"),
    Rule(Percent(LastGain(e)) <= Tenths(-8, e), "fts")>>

LEMMA ExitByRows ==
  ASSUME NEW e, NEW clock
  PROVE  ExitVxnAware(e, clock) = IF ~ExitHours(clock) THEN "KEEP" ELSE FirstReason(ExitRows(e, clock))
  BY Zenon DEF ExitVxnAware, ExitRows

LEMMA ExitSays ==
  ASSUME NEW e, NEW clock
  PROVE  ExitVxnAware(e, clock) \in EngineReasons \cup {"KEEP", "profitable"}
<1>1. ASSUME NEW w, NEW r PROVE Rule(w, r).reason = r
  BY DEF Rule
<1>2. ASSUME NEW t, NEW r PROVE ProfitTake(e, t, r).reason \in {r, "profitable"}
  BY DEF ProfitTake, Rule
<1>3. PICK rows : rows = ExitRows(e, clock)
  OBVIOUS
<1>4. DOMAIN rows = 1 .. 9
  BY <1>3 DEF ExitRows
<1>5. \A i \in 1 .. 9 : rows[i].reason \in EngineReasons \cup {"profitable"}
  <2>1. /\ rows[1].reason \in {"4_percent", "profitable"}
        /\ rows[2].reason \in {"3_percent", "profitable"}
        /\ rows[3].reason \in {"2_percent", "profitable"}
    BY <1>2, <1>3 DEF ExitRows
  <2>2. /\ rows[4].reason = "takeOff" /\ rows[5].reason = "landing"
        /\ rows[6].reason = "yeah_its_failing"
        /\ rows[7].reason \in {"afterHours_profitable", "profitable"}
        /\ rows[8].reason = "afterHours_failing" /\ rows[9].reason = "fts"
    BY <1>1, <1>3 DEF ExitRows
  <2>3. \A i \in 1 .. 9 : i \in {1, 2, 3, 4, 5, 6, 7, 8, 9}
    OBVIOUS
  <2> QED
    BY <2>1, <2>2, <2>3 DEF EngineReasons, Reasons
<1>6. FirstReason(rows) \in EngineReasons \cup {"profitable", "KEEP"}
  BY <1>4, <1>5, FirstReasonSays
<1> QED
  BY <1>3, <1>6, ExitByRows

LEMMA FillDoes ==
  ASSUME NEW e \in Engines, NEW bar \in Tape, NEW when \in BarTimes
  PROVE  LET f == FillPending(e, bar, when)
             fills == e.pending # "NONE" /\ e.position = "NONE"
         IN /\ f \in Engines /\ EntryFill(e, bar) \in Nat
            /\ f.day = e.day /\ f.choppy = e.choppy /\ f.regime = e.regime /\ f.trades = e.trades
            /\ ~fills => f = e
            /\ fills => /\ f.position = (IF e.pending = "BUY" THEN "LONG" ELSE "SHORT")
                        /\ f.fill = EntryFill(e, bar) /\ f.entered = when /\ f.pending = "NONE"
<1>1. EntryFill(e, bar) \in Nat /\ bar.open \in Nat
  BY BarsHold DEF EntryFill, Bought, Sold, Slip
<1>2. e.pending # "NONE" => e.pending \in {"BUY", "SELL"}
  BY DEF Engines
<1>3. CASE e.pending # "NONE" /\ e.position = "NONE"
  <2>1. PICK direction \in {"BUY", "SELL"} : direction = e.pending
    BY <1>2, <1>3
  <2>2. PICK fill \in Nat : fill = EntryFill(e, bar)
    BY <1>1
  <2>3. PICK entry \in Nat : entry = bar.open
    BY <1>1
  <2>4. PICK f : f = Enter(e, direction, fill, entry, when)
    OBVIOUS
  <2>5. /\ f \in Engines /\ f.position = (IF direction = "BUY" THEN "LONG" ELSE "SHORT")
        /\ f.fill = fill /\ f.entered = when /\ f.pending = "NONE"
        /\ f.day = e.day /\ f.choppy = e.choppy /\ f.regime = e.regime /\ f.trades = e.trades
    BY <2>4, EnterDoes
  <2>6. FillPending(e, bar, when) = f
    BY <1>3, <2>1, <2>2, <2>3, <2>4 DEF FillPending
  <2> QED
    BY <1>1, <1>3, <2>1, <2>2, <2>4, <2>5, <2>6
<1> QED
  BY <1>1, <1>3 DEF FillPending

\* What the rest of a bar does to an engine f that has its day and its fill.
ShownBar(f, when, bar, reading) ==
  LET read == Regime(f, when.clock, reading)
      marked == Marked(read, bar)
  IN IF read.position = "NONE"
     THEN [engine |-> Signalled(read, when.clock, reading), exit |-> "KEEP"]
     ELSE [engine |-> marked, exit |-> ExitVxnAware(marked, when.clock)]

LEMMA OnBarShows ==
  ASSUME NEW e, NEW when, NEW bar, NEW reading
  PROVE  /\ OnBar(e, when, bar, reading, FALSE) = ShownBar(NewDay(e, when, reading), when, bar, reading)
         /\ OnBar(e, when, bar, reading, TRUE) =
              ShownBar(FillPending(NewDay(e, when, reading), bar, when), when, bar, reading)
  BY DEF OnBar, ShownBar

LEMMA BarDoes ==
  ASSUME NEW f \in Engines, NEW bar \in Tape, NEW when \in BarTimes, NEW reading \in Readings,
         NEW out, out = ShownBar(f, when, bar, reading)
  PROVE  /\ out.engine \in Engines
         /\ out.engine.trades = f.trades /\ out.engine.position = f.position
         /\ out.engine.fill = f.fill /\ out.engine.entered = f.entered
         /\ out.engine.day = f.day /\ out.engine.choppy = f.choppy
         /\ out.engine.regime = (IF OfficeHours(when.clock) THEN reading.regime ELSE f.regime)
         /\ out.engine.pending = (IF f.position = "NONE" /\ Asks(f, when.clock, reading) THEN Trigger(when.clock, reading) ELSE f.pending)
         /\ f.position = "NONE" => ~Exits(out.exit)
         /\ Exits(out.exit) => out.exit \in EngineReasons
<1>1. PICK read : read = Regime(f, when.clock, reading)
  OBVIOUS
<1>2. out =
        IF read.position = "NONE"
        THEN [engine |-> Signalled(read, when.clock, reading), exit |-> "KEEP"]
        ELSE [engine |-> Marked(read, bar), exit |-> ExitVxnAware(Marked(read, bar), when.clock)]
  BY <1>1 DEF ShownBar
<1>3. /\ read \in Engines
      /\ read.regime = (IF OfficeHours(when.clock) THEN reading.regime ELSE f.regime)
      /\ read.day = f.day /\ read.choppy = f.choppy
      /\ read.position = f.position /\ read.fill = f.fill /\ read.entered = f.entered
      /\ read.pending = f.pending /\ read.trades = f.trades
  BY <1>1, RegimeDoes
<1>4. CASE read.position = "NONE"
  <2>1. Asks(read, when.clock, reading) = Asks(f, when.clock, reading)
    BY <1>3 DEF Asks, GateBlocks
  <2> QED
    BY <1>2, <1>3, <1>4, <2>1, SignalledDoes DEF Exits
<1>5. CASE read.position # "NONE"
  <2>1. PICK marked : marked = Marked(read, bar)
    OBVIOUS
  <2>2. ExitVxnAware(marked, when.clock) \in EngineReasons \cup {"KEEP", "profitable"}
    BY ExitSays
  <2>3. out = [engine |-> marked, exit |-> ExitVxnAware(marked, when.clock)]
    BY <1>2, <1>5, <2>1
  <2> QED
    BY <1>3, <1>5, <2>1, <2>2, <2>3, MarkedDoes DEF Exits
<1> QED
  BY <1>4, <1>5

-----------------------------------------------------------------------------
\* The live-parity replay.

Lives ==
  [engine : Engines, stop : Nat \cup {NoStop}, realised : [1 .. ReplayDays -> Int],
   entered : [1 .. ReplayDays -> Nat], refused : BOOLEAN]

LEMMA LimitsHold ==
  /\ LossLimit \in Nat \ {0} /\ MaxDayTrades \in Nat /\ StopPct \in 1 .. 99
  /\ Lots \in Nat \ {0} /\ Commission \in Nat
  BY ReplayAssumption

LEMMA Products ==
  /\ \A a, b \in Nat : a * b \in Nat
  /\ \A a \in Nat : a \div 100 \in Nat
  /\ \A a, b, c \in Nat : a <= b => a * c <= b * c
  /\ \A a, b \in Int, c \in Nat : a <= b => a * c <= b * c
  /\ \A a \in Int, b \in Nat : (-a) * b = -(a * b) /\ a * b \in Int
  OBVIOUS

LEMMA TallyTypes ==
  ASSUME NEW S, NEW a \in S
  PROVE  /\ \A f \in [S -> Int], n \in Int : [f EXCEPT ![a] = @ + n] \in [S -> Int]
         /\ \A f \in [S -> Nat] : [f EXCEPT ![a] = @ + 1] \in [S -> Nat]
  OBVIOUS

LEMMA StopsAre ==
  ASSUME NEW direction, NEW fill \in Nat
  PROVE  StopAt(direction, fill) \in Nat
<1>1. 100 - StopPct \in Nat /\ 100 + StopPct \in Nat
  BY LimitsHold
<1>2. fill * (100 - StopPct) \in Nat /\ fill * (100 + StopPct) \in Nat
  BY <1>1, Products
<1> QED
  BY <1>2, Products DEF StopAt

\* The stop is no further from the fill than its percentage, rounded up.
LEMMA StopsAreNear ==
  ASSUME NEW fill \in Nat, NEW price \in Nat, fill <= price
  PROVE  /\ StopAt("BUY", fill) >= fill - (price * StopPct) \div 100 - 1
         /\ StopAt("SELL", fill) <= fill + (price * StopPct) \div 100
         /\ (price * StopPct) \div 100 \in Nat
<1>1. PICK x \in Nat : x = fill * StopPct
  BY LimitsHold, Products
<1>2. PICK y \in Nat : y = price * StopPct
  BY LimitsHold, Products
<1>3. x <= y
  BY <1>1, <1>2, LimitsHold, Products
<1>4. fill * (100 - StopPct) = 100 * fill - x /\ fill * (100 + StopPct) = 100 * fill + x
  BY <1>1, LimitsHold
<1>5. StopAt("BUY", fill) = (100 * fill - x) \div 100 /\ StopAt("SELL", fill) = (100 * fill + x) \div 100
  BY <1>4 DEF StopAt
<1>6. (100 * fill - x) \div 100 >= fill - (y \div 100) - 1 /\ (100 * fill + x) \div 100 <= fill + (y \div 100)
  BY <1>3
<1> QED
  BY <1>2, <1>5, <1>6

LEMMA WorstIs ==
  ASSUME NEW price \in Nat
  PROVE  /\ WorstTrade(price) \in Nat
         /\ WorstTrade(price) = ((price * StopPct) \div 100 + 1 + Slip + Commission) * Lots
<1>1. (price * StopPct) \div 100 \in Nat
  BY StopsAreNear
<1>2. (price * StopPct) \div 100 + 1 + Slip + Commission \in Nat
  BY <1>1, LimitsHold DEF Slip
<1> QED
  BY <1>2, LimitsHold, Products DEF WorstTrade

\* No trade closed at its stop, or a slip beyond, loses more than the worst.
LEMMA LossIsBounded ==
  ASSUME NEW trade \in TradeRecords, NEW fill \in Nat, NEW price \in Nat, fill <= price, NEW end \in Int,
         \/ trade.direction = "LONG" /\ trade.pts = end - fill /\ end >= StopAt("BUY", fill) - Slip
         \/ trade.direction = "SHORT" /\ trade.pts = fill - end /\ end <= StopAt("SELL", fill) + Slip
  PROVE  Net(trade) \in Int /\ Net(trade) >= -WorstTrade(price)
<1>1. PICK reach \in Nat : reach = (price * StopPct) \div 100
  BY StopsAreNear
<1>2. trade.pts \in Int /\ trade.pts >= -(reach + 1 + Slip)
  <2>1. trade.pts \in Int
    BY DEF TradeRecords
  <2>2. PICK buy \in Nat, sell \in Nat : buy = StopAt("BUY", fill) /\ sell = StopAt("SELL", fill)
    BY StopsAre
  <2>3. buy >= fill - reach - 1 /\ sell <= fill + reach
    BY <1>1, <2>2, StopsAreNear
  <2> QED
    BY <2>1, <2>2, <2>3 DEF Slip
<1>3. PICK worst \in Nat : worst = reach + 1 + Slip + Commission
  BY LimitsHold DEF Slip
<1>4. PICK pts \in Int : pts = trade.pts - Commission
  BY <1>2, LimitsHold
<1>5. -worst <= pts /\ -worst \in Int /\ Lots \in Nat
  BY <1>2, <1>3, <1>4, LimitsHold DEF Slip
<1>6. (-worst) * Lots <= pts * Lots /\ (-worst) * Lots = -(worst * Lots) /\ pts * Lots \in Int
  BY <1>5, Products
<1> QED
  BY <1>1, <1>3, <1>4, <1>6, WorstIs DEF Net

LEMMA ParityFillDoes ==
  ASSUME NEW r \in Lives, NEW bar \in Tape, NEW when \in BarTimes
  PROVE  LET f == ParityFill(r, bar, when)
             e == r.engine
             fills == e.pending # "NONE" /\ e.position = "NONE"
         IN /\ f \in Lives /\ f.realised = r.realised
            /\ f.engine.day = e.day /\ f.engine.choppy = e.choppy /\ f.engine.regime = e.regime
            /\ f.engine.trades = e.trades
            /\ ~fills => f = r
            /\ fills /\ MayEnter(r, when) =>
                 /\ f.engine.position = (IF e.pending = "BUY" THEN "LONG" ELSE "SHORT")
                 /\ f.engine.fill = EntryFill(e, bar) /\ f.engine.entered = when
                 /\ f.engine.pending = "NONE" /\ f.stop = StopAt(e.pending, EntryFill(e, bar))
                 /\ f.refused = r.refused
            /\ fills /\ ~MayEnter(r, when) =>
                 /\ f.refused /\ f.stop = r.stop /\ f.engine = CancelPending(e)
<1>1. PICK fill \in Nat : fill = EntryFill(r.engine, bar)
  BY FillDoes DEF Lives
<1>2. r.engine \in Engines /\ when.day \in 1 .. ReplayDays
  BY DEF Lives, BarTimes
<1>3. CASE ~(r.engine.pending # "NONE" /\ r.engine.position = "NONE")
  BY <1>3 DEF ParityFill
<1>4. CASE r.engine.pending # "NONE" /\ r.engine.position = "NONE" /\ MayEnter(r, when)
  <2>1. PICK direction \in {"BUY", "SELL"} : direction = r.engine.pending
    BY <1>2, <1>4 DEF Engines
  <2>2. PICK entered : entered = Enter(r.engine, direction, fill, fill, when)
    OBVIOUS
  <2>3. PICK e \in Engines : e = r.engine
    BY <1>2
  <2>4. PICK f : f = Enter(e, direction, fill, fill, when)
    OBVIOUS
  <2>5. /\ f \in Engines /\ f.position = (IF direction = "BUY" THEN "LONG" ELSE "SHORT")
        /\ f.fill = fill /\ f.entered = when /\ f.pending = "NONE"
        /\ f.day = e.day /\ f.choppy = e.choppy /\ f.regime = e.regime /\ f.trades = e.trades
    BY <2>4, EnterDoes
  <2>6. /\ entered \in Engines
        /\ entered.position = (IF direction = "BUY" THEN "LONG" ELSE "SHORT")
        /\ entered.fill = fill /\ entered.entered = when /\ entered.pending = "NONE"
        /\ entered.day = r.engine.day /\ entered.choppy = r.engine.choppy
        /\ entered.regime = r.engine.regime /\ entered.trades = r.engine.trades
    BY <2>2, <2>3, <2>4, <2>5
  <2>7. PICK stop \in Nat : stop = StopAt(direction, fill)
    BY StopsAre
  <2>8. ParityFill(r, bar, when) =
          [r EXCEPT !.engine = entered, !.stop = stop, !.entered[when.day] = @ + 1]
    BY <1>1, <1>4, <2>1, <2>2, <2>7 DEF ParityFill
  <2>9. PICK counts : counts = [r.entered EXCEPT ![when.day] = @ + 1]
    OBVIOUS
  <2>10. counts \in [1 .. ReplayDays -> Nat]
    <3>1. r.entered \in [1 .. ReplayDays -> Nat]
      BY DEF Lives
    <3> QED
      BY <1>2, <2>9, <3>1, TallyTypes
  <2>11. ParityFill(r, bar, when) = [r EXCEPT !.engine = entered, !.stop = stop, !.entered = counts]
    BY <2>8, <2>9 DEF Lives
  <2>12. ParityFill(r, bar, when) \in Lives
    BY <2>11, <2>6, <2>10 DEF Lives
  <2>13. /\ ParityFill(r, bar, when).engine = entered /\ ParityFill(r, bar, when).stop = stop
         /\ ParityFill(r, bar, when).refused = r.refused /\ ParityFill(r, bar, when).realised = r.realised
    BY <2>11 DEF Lives
  <2> QED
    BY <1>1, <1>4, <2>1, <2>7, <2>12, <2>13, <2>6
<1>5. CASE r.engine.pending # "NONE" /\ r.engine.position = "NONE" /\ ~MayEnter(r, when)
  <2>1. ParityFill(r, bar, when) = [r EXCEPT !.engine = CancelPending(@), !.refused = TRUE]
    BY <1>5 DEF ParityFill
  <2>2. PICK cancelled \in Engines :
          /\ cancelled = CancelPending(r.engine)
          /\ cancelled.day = r.engine.day /\ cancelled.choppy = r.engine.choppy
          /\ cancelled.regime = r.engine.regime /\ cancelled.trades = r.engine.trades
    BY <1>2, CancelDoes
  <2>3. ParityFill(r, bar, when) = [r EXCEPT !.engine = cancelled, !.refused = TRUE]
    BY <2>1, <2>2
  <2>4. /\ ParityFill(r, bar, when) \in Lives /\ ParityFill(r, bar, when).engine = cancelled
        /\ ParityFill(r, bar, when).refused /\ ParityFill(r, bar, when).stop = r.stop
        /\ ParityFill(r, bar, when).realised = r.realised
    BY <2>3 DEF Lives
  <2> QED
    BY <1>5, <2>2, <2>4
<1> QED
  BY <1>3, <1>4, <1>5

LEMMA ParityExitDoes ==
  ASSUME NEW r \in Lives, r.engine.position # "NONE", NEW price \in Int, NEW when \in BarTimes,
         NEW reason \in Reasons, NEW f, f = ParityExit(r, price, when, reason),
         NEW trade, trade = TradeOf(r.engine, price, when, reason)
  PROVE  /\ f \in Lives /\ f.engine = ExitFilled(r.engine, price, when, reason)
         /\ f.stop = NoStop /\ f.refused = r.refused
         /\ trade \in TradeRecords /\ Net(trade) \in Int
         /\ f.realised = [r.realised EXCEPT ![when.day] = @ + Net(trade)]
<1>1. trade \in TradeRecords
  BY ExitDoes DEF Lives
<1>2. PICK closed \in Engines : closed = ExitFilled(r.engine, price, when, reason) /\ LastTrade(closed) = trade
  BY ExitDoes DEF Lives
<1>3. PICK net \in Int : net = Net(trade)
  <2>1. PICK pts \in Int : pts = trade.pts - Commission
    BY <1>1, LimitsHold DEF TradeRecords
  <2> QED
    BY <2>1, LimitsHold, Products DEF Net
<1>4. f = [r EXCEPT !.engine = closed, !.stop = NoStop, !.realised[when.day] = @ + net]
  BY <1>2, <1>3 DEF ParityExit
<1>5. when.day \in 1 .. ReplayDays
  BY DEF BarTimes
<1>6. r.realised \in [1 .. ReplayDays -> Int]
  BY DEF Lives
<1>7. PICK booked : booked = [r.realised EXCEPT ![when.day] = @ + net]
  OBVIOUS
<1>8. booked \in [1 .. ReplayDays -> Int]
  BY <1>5, <1>6, <1>7, TallyTypes
<1>9. f = [r EXCEPT !.engine = closed, !.stop = NoStop, !.realised = booked]
  BY <1>4, <1>7 DEF Lives
<1>10. /\ f \in Lives
       /\ f.engine = closed
       /\ f.stop = NoStop
       /\ f.refused = r.refused
       /\ f.realised = booked
  BY <1>9, <1>8 DEF Lives
<1> QED
  BY <1>1, <1>2, <1>3, <1>7, <1>10

-----------------------------------------------------------------------------
\* The losses of the live-parity replay.

\* Trades that begin with those the engine was loaded with.
Begun(trades) == brought \in Seq(TradeRecords) /\ Len(brought) <= Len(trades)

LEMMA NextIsOwn ==
  ASSUME NEW trades \in Seq(TradeRecords), Begun(trades), NEW trade \in TradeRecords
  PROVE  /\ Len(trades) + 1 \in OwnTrades(Append(trades, trade))
         /\ OwnTrades(trades) \subseteq OwnTrades(Append(trades, trade))
         /\ Begun(Append(trades, trade))
<1>1. /\ Len(trades) \in Nat /\ Len(brought) \in Nat /\ Len(brought) <= Len(trades)
      /\ DOMAIN trades = 1 .. Len(trades) /\ DOMAIN brought = 1 .. Len(brought)
  BY LenProperties DEF Begun
<1>2. /\ DOMAIN Append(trades, trade) = 1 .. Len(trades) + 1
      /\ Len(Append(trades, trade)) = Len(trades) + 1
  BY <1>1, AppendProperties, LenProperties
<1> QED
  BY <1>1, <1>2 DEF OwnTrades, Begun

WithinCap(r, day) ==
  \/ \E i \in OwnTrades(r.engine.trades) :
       r.engine.trades[i].exited.day = day /\ Inherited(r.engine.trades[i])
  \/ \E b \in Tape : r.realised[day] > -LossLimit - WorstTrade(b.open + Slip)

\* A stop is that of the position entered, at a fill near some open, on a day still within its
\* limit; nothing is booked on days to come; and no day is beyond its limit by a worst trade.
CoveredBy(r, today) ==
  /\ (r.stop # NoStop) = (r.engine.position # "NONE" /\ r.engine.entered.day # 0)
  /\ r.stop # NoStop =>
       /\ r.stop = StopAt(IF r.engine.position = "LONG" THEN "BUY" ELSE "SELL", r.engine.fill)
       /\ \E b \in Tape : r.engine.fill <= b.open + Slip
       /\ r.realised[today] > -LossLimit
  /\ \A d \in 1 .. ReplayDays : d > today => r.realised[d] = 0
  /\ \A d \in 1 .. ReplayDays : WithinCap(r, d)

LEMMA FillKeepsCover ==
  ASSUME NEW r \in Lives, NEW bar \in Tape, NEW when \in BarTimes, CoveredBy(r, when.day)
  PROVE  CoveredBy(ParityFill(r, bar, when), when.day)
<1>1. PICK f \in Lives :
        /\ f = ParityFill(r, bar, when)
        /\ f.realised = r.realised /\ f.engine.trades = r.engine.trades
  BY ParityFillDoes
<1>2. \A d \in 1 .. ReplayDays : WithinCap(f, d)
  BY <1>1 DEF CoveredBy, WithinCap
<1>3. CASE r.engine.pending # "NONE" /\ r.engine.position = "NONE" /\ MayEnter(r, when)
  <2>1. PICK fill \in Nat : fill = EntryFill(r.engine, bar)
    BY FillDoes DEF Lives
  <2>2. r.engine.pending \in {"BUY", "SELL"}
    BY <1>3 DEF Lives, Engines
  <2>3. /\ f.engine.position = (IF r.engine.pending = "BUY" THEN "LONG" ELSE "SHORT")
        /\ f.engine.fill = fill /\ f.engine.entered = when /\ f.stop = StopAt(r.engine.pending, fill)
    BY <1>1, <1>3, <2>1, ParityFillDoes
  <2>4. f.stop # NoStop /\ when.day # 0
    BY <2>3, StopsAre DEF NoStop, BarTimes
  <2>5. fill <= bar.open + Slip
    BY <2>1, BarsHold DEF EntryFill, Bought, Sold, Slip
  <2>6. r.realised[when.day] > -LossLimit
    BY <1>3 DEF MayEnter
  <2> QED
    BY <1>1, <1>2, <2>2, <2>3, <2>4, <2>5, <2>6 DEF CoveredBy
<1>4. CASE r.engine.pending # "NONE" /\ r.engine.position = "NONE" /\ ~MayEnter(r, when)
  <2>1. f.stop = r.stop /\ f.engine.position = "NONE"
    BY <1>1, <1>4, ParityFillDoes, CancelDoes DEF Lives
  <2> QED
    BY <1>1, <1>2, <1>4, <2>1 DEF CoveredBy
<1>5. CASE ~(r.engine.pending # "NONE" /\ r.engine.position = "NONE")
  BY <1>1, <1>5, ParityFillDoes
<1> QED
  BY <1>3, <1>4, <1>5

\* A position closed near its stop or better costs no more than the worst trade.
LEMMA ExitKeepsCover ==
  ASSUME NEW r \in Lives, NEW when \in BarTimes, CoveredBy(r, when.day), Begun(r.engine.trades),
         r.engine.position # "NONE", NEW price \in Int, NEW reason \in Reasons,
         r.stop # NoStop => /\ r.engine.position = "LONG" => price >= r.stop - Slip
                            /\ r.engine.position = "SHORT" => price <= r.stop + Slip
  PROVE  CoveredBy(ParityExit(r, price, when, reason), when.day)
<1>1. PICK trade, f : /\ trade = TradeOf(r.engine, price, when, reason)
                       /\ f = ParityExit(r, price, when, reason)
  OBVIOUS
<1>2. /\ f \in Lives /\ f.stop = NoStop /\ trade \in TradeRecords
      /\ f.engine = ExitFilled(r.engine, price, when, reason)
      /\ f.realised = [r.realised EXCEPT ![when.day] = @ + Net(trade)] /\ Net(trade) \in Int
  BY <1>1, ParityExitDoes
<1>3. /\ f.engine.position = "NONE" /\ f.engine.trades = Append(r.engine.trades, trade)
  BY <1>1, <1>2, ExitDoes DEF Lives
<1>4. r.engine.trades \in Seq(TradeRecords) /\ when.day \in 1 .. ReplayDays
  BY DEF Lives, Engines, BarTimes
<1>5. /\ \A i \in OwnTrades(r.engine.trades) :
           i \in OwnTrades(f.engine.trades) /\ f.engine.trades[i] = r.engine.trades[i]
      /\ Len(r.engine.trades) + 1 \in OwnTrades(f.engine.trades)
      /\ f.engine.trades[Len(r.engine.trades) + 1] = trade
  <2>1. PICK trades \in Seq(TradeRecords) : trades = r.engine.trades
    BY <1>4
  <2>2. /\ Len(trades) + 1 \in OwnTrades(Append(trades, trade))
        /\ OwnTrades(trades) \subseteq OwnTrades(Append(trades, trade))
    BY <1>2, <2>1, NextIsOwn
  <2>3. /\ \A i \in DOMAIN trades : Append(trades, trade)[i] = trades[i]
        /\ Append(trades, trade)[Len(trades) + 1] = trade
    BY <1>2, <2>1, AppendProperties, LenProperties
  <2>4. OwnTrades(trades) \subseteq DOMAIN trades
    BY DEF OwnTrades
  <2> QED
    BY <1>3, <2>1, <2>2, <2>3, <2>4
<1>6. r.realised \in [1 .. ReplayDays -> Int]
  BY DEF Lives
<1>7. \A d \in 1 .. ReplayDays : d # when.day => f.realised[d] = r.realised[d]
  BY <1>2, <1>6
<1>8. f.realised[when.day] = r.realised[when.day] + Net(trade)
  BY <1>2, <1>4, <1>6
<1>9. ASSUME NEW d \in 1 .. ReplayDays, d # when.day PROVE WithinCap(f, d)
  <2>1. WithinCap(r, d)
    BY DEF CoveredBy
  <2>2. f.realised[d] = r.realised[d]
    BY <1>7, <1>9
  <2> QED
    BY <1>5, <2>1, <2>2 DEF WithinCap
<1>10. WithinCap(f, when.day)
  <2>1. CASE r.engine.entered.day = 0
    <3>1. Inherited(trade) /\ trade.exited.day = when.day
      BY <1>1, <2>1 DEF Inherited, TradeOf
    <3> QED
      BY <1>5, <3>1 DEF WithinCap
  <2>2. CASE r.engine.entered.day # 0
    <3>1. r.stop # NoStop /\ r.realised[when.day] > -LossLimit
      BY <2>2 DEF CoveredBy
    <3>2. PICK b \in Tape : r.engine.fill <= b.open + Slip
      BY <3>1 DEF CoveredBy
    <3>3. PICK top \in Nat : top = b.open + Slip
      BY BarsHold DEF Slip
    <3>4. r.engine.fill \in Nat /\ r.engine.position \in Directions
      BY DEF Lives, Engines
    <3>5. trade.direction = r.engine.position
          /\ trade.pts = IF r.engine.position = "LONG" THEN price - r.engine.fill ELSE r.engine.fill - price
      BY <1>1 DEF TradeOf
    <3>6. r.stop = StopAt(IF r.engine.position = "LONG" THEN "BUY" ELSE "SELL", r.engine.fill)
      BY <3>1 DEF CoveredBy
    <3>7. \/ trade.direction = "LONG" /\ trade.pts = price - r.engine.fill
             /\ price >= StopAt("BUY", r.engine.fill) - Slip
          \/ trade.direction = "SHORT" /\ trade.pts = r.engine.fill - price
             /\ price <= StopAt("SELL", r.engine.fill) + Slip
      BY <3>1, <3>4, <3>5, <3>6 DEF Directions
    <3>8. Net(trade) >= -WorstTrade(top)
      BY <1>2, <3>2, <3>3, <3>4, <3>7, LossIsBounded
    <3>9. r.realised[when.day] + Net(trade) > -LossLimit - WorstTrade(top)
      <4>1. PICK net \in Int, worst \in Nat, before \in Int, limit \in Nat :
              /\ net = Net(trade) /\ worst = WorstTrade(top)
              /\ before = r.realised[when.day] /\ limit = LossLimit
        BY <1>2, <1>4, <1>6, WorstIs, LimitsHold
      <4>2. before > -limit /\ net >= -worst
        BY <3>1, <3>8, <4>1
      <4>3. before + net > -limit - worst
        BY <4>2
      <4> QED
        BY <4>1, <4>3
    <3> QED
      BY <1>8, <3>3, <3>9 DEF WithinCap
  <2> QED
    BY <2>1, <2>2
<1>11. \A d \in 1 .. ReplayDays : d > when.day => f.realised[d] = 0
  BY <1>4, <1>7 DEF CoveredBy
<1> QED
  BY <1>1, <1>2, <1>3, <1>9, <1>10, <1>11 DEF CoveredBy

\* The engine's other state has no part in it.
LEMMA EngineKeepsCover ==
  ASSUME NEW r \in Lives, NEW e \in Engines, NEW today, CoveredBy(r, today),
         e.position = r.engine.position, e.fill = r.engine.fill, e.entered = r.engine.entered,
         e.trades = r.engine.trades
  PROVE  /\ CoveredBy([r EXCEPT !.engine = e], today)
         /\ [r EXCEPT !.engine = e] \in Lives
<1>1. PICK f : f = [r EXCEPT !.engine = e]
  OBVIOUS
<1>2. f \in Lives /\ f.engine = e /\ f.stop = r.stop /\ f.realised = r.realised
  BY <1>1 DEF Lives
<1>3. \A d \in 1 .. ReplayDays : WithinCap(f, d)
  BY <1>2 DEF CoveredBy, WithinCap
<1> QED
  BY <1>1, <1>2, <1>3 DEF CoveredBy

LEMMA ParityExitLeaves ==
  ASSUME NEW r \in Lives, r.engine.position # "NONE", NEW price \in Int, NEW when \in BarTimes,
         NEW reason \in Reasons
  PROVE  LET f == ParityExit(r, price, when, reason)
         IN /\ f \in Lives /\ f.engine = ExitFilled(r.engine, price, when, reason)
            /\ f.engine.position = "NONE" /\ f.refused = r.refused
<1>1. PICK e \in Engines : e = r.engine
  BY DEF Lives
<1>2. ExitFilled(e, price, when, reason).position = "NONE"
  BY <1>1, ExitDoes
<1>3. PICK f, trade : /\ f = ParityExit(r, price, when, reason)
                      /\ trade = TradeOf(r.engine, price, when, reason)
  OBVIOUS
<1>4. /\ f \in Lives /\ f.engine = ExitFilled(r.engine, price, when, reason)
      /\ f.stop = NoStop /\ f.refused = r.refused
      /\ f.realised = [r.realised EXCEPT ![when.day] = @ + Net(trade)]
  BY <1>3, ParityExitDoes
<1> QED
  BY <1>1, <1>2, <1>3, <1>4

\* One bar of the live-parity replay.  Every trade it adds ends at this bar, and a bar the
\* engine is not shown adds one with a reason of the replay's own.
LEMMA BarKeepsCover ==
  ASSUME NEW r \in Lives, NEW bar \in Tape, NEW when \in BarTimes, NEW reading \in Readings,
         CoveredBy(r, when.day), Begun(r.engine.trades)
  PROVE  LET f == ParityBar(r, when, bar, reading)
         IN /\ f \in Lives /\ CoveredBy(f, when.day)
            /\ ~HoldOvernight /\ when.clock >= Cutoff => f.engine.position = "NONE"
<1>1. PICK filled : filled = ParityFill(r, bar, when)
  OBVIOUS
<1>2. filled \in Lives /\ CoveredBy(filled, when.day) /\ Begun(filled.engine.trades)
  <2>1. filled \in Lives /\ filled.engine.trades = r.engine.trades
    BY <1>1, ParityFillDoes
  <2>2. CoveredBy(filled, when.day)
    BY <1>1, FillKeepsCover
  <2> QED
    BY <2>1, <2>2
<1>3. PICK e \in Engines : e = filled.engine
  BY <1>2 DEF Lives
<1>4. filled.stop \in Nat \cup {NoStop} /\ filled.stop \in Int
  BY <1>2 DEF Lives, NoStop
<1>5. PICK end \in Int : end = ExitFill(e, bar)
  BY BarsHold DEF ExitFill, Sold, Bought, Slip
<1>6. {"STOP_FILLED_BROKER", "SESSION_FLATTEN"} \cup EngineReasons \subseteq Reasons
  BY DEF Reasons, EngineReasons
<1>7. CASE StopHit(filled, bar)
  <2>1. ParityBar(r, when, bar, reading) = ParityExit(filled, filled.stop, when, "STOP_FILLED_BROKER")
    BY <1>1, <1>7 DEF ParityBar
  <2>2. filled.engine.position # "NONE"
    BY <1>7 DEF StopHit
  <2>3. filled.stop >= filled.stop - Slip /\ filled.stop <= filled.stop + Slip
    BY <1>4 DEF Slip
  <2>4. CoveredBy(ParityExit(filled, filled.stop, when, "STOP_FILLED_BROKER"), when.day)
    BY <1>2, <1>4, <1>6, <2>2, <2>3, ExitKeepsCover
  <2>5. /\ ParityExit(filled, filled.stop, when, "STOP_FILLED_BROKER") \in Lives
        /\ ParityExit(filled, filled.stop, when, "STOP_FILLED_BROKER").engine.position = "NONE"
    BY <1>2, <1>4, <1>6, <2>2, ParityExitLeaves
  <2> QED
    BY <2>1, <2>4, <2>5
<1>8. ASSUME ~StopHit(filled, bar), filled.stop # NoStop
      PROVE  /\ e.position = "LONG" => end >= filled.stop - Slip
             /\ e.position = "SHORT" => end <= filled.stop + Slip
  <2>1. PICK low \in Nat, high \in Nat, close \in Nat :
          /\ low = bar.low /\ high = bar.high /\ close = bar.close /\ low <= close /\ close <= high
    BY BarsHold
  <2>2. /\ e.position = "LONG" => low > filled.stop /\ end = close - Slip
        /\ e.position = "SHORT" => high < filled.stop /\ end = close + Slip
    BY <1>3, <1>4, <1>5, <1>8, <2>1 DEF StopHit, ExitFill, Sold, Bought
  <2> QED
    BY <1>4, <2>1, <2>2 DEF Slip
<1>9. CASE ~StopHit(filled, bar) /\ Flattens(filled, when)
  <2>1. PICK closed : closed = ParityExit(filled, end, when, "SESSION_FLATTEN")
    OBVIOUS
  <2>2. ParityBar(r, when, bar, reading) = [closed EXCEPT !.engine = CancelPending(@)]
    BY <1>1, <1>3, <1>5, <1>9, <2>1 DEF ParityBar, ParityFlatten
  <2>3. e.position # "NONE"
    BY <1>3, <1>9 DEF Flattens
  <2>4. closed \in Lives /\ CoveredBy(closed, when.day) /\ closed.engine.position = "NONE"
    <3>1. closed \in Lives /\ closed.engine.position = "NONE"
      BY <1>2, <1>3, <1>6, <2>1, <2>3, ParityExitLeaves
    <3>2. filled.stop # NoStop => /\ filled.engine.position = "LONG" => end >= filled.stop - Slip
                                  /\ filled.engine.position = "SHORT" => end <= filled.stop + Slip
      BY <1>3, <1>8, <1>9
    <3>3. CoveredBy(closed, when.day)
      BY <1>2, <1>3, <1>6, <2>1, <2>3, <3>2, ExitKeepsCover
    <3> QED
      BY <3>1, <3>3
  <2>5. PICK cancelled \in Engines :
          /\ cancelled = CancelPending(closed.engine)
          /\ cancelled.position = closed.engine.position /\ cancelled.fill = closed.engine.fill
          /\ cancelled.entered = closed.engine.entered /\ cancelled.trades = closed.engine.trades
    BY <2>4, CancelDoes DEF Lives
  <2>6. ParityBar(r, when, bar, reading) = [closed EXCEPT !.engine = cancelled]
    BY <2>2, <2>5
  <2>7. ParityBar(r, when, bar, reading).engine = cancelled
    BY <2>4, <2>6 DEF Lives
  <2> QED
    BY <2>4, <2>5, <2>6, <2>7, EngineKeepsCover
<1>10. CASE ~StopHit(filled, bar) /\ ~Flattens(filled, when)
  <2>1. PICK out : out = OnBar(e, when, bar, reading, FALSE)
    OBVIOUS
  <2>2. PICK dated \in Engines :
          /\ dated = NewDay(e, when, reading)
          /\ dated.position = e.position /\ dated.fill = e.fill /\ dated.entered = e.entered
          /\ dated.trades = e.trades
    BY NewDayDoes
  <2>3. /\ out.engine \in Engines /\ out.engine.position = e.position /\ out.engine.fill = e.fill
        /\ out.engine.entered = e.entered /\ out.engine.trades = e.trades
        /\ e.position = "NONE" => ~Exits(out.exit)
        /\ Exits(out.exit) => out.exit \in EngineReasons
    <3>1. out = ShownBar(dated, when, bar, reading)
      BY <2>1, <2>2, OnBarShows
    <3> QED
      BY <2>2, <3>1, BarDoes
  <2>4. PICK seen : seen = [filled EXCEPT !.engine = out.engine]
    OBVIOUS
  <2>5. seen \in Lives /\ CoveredBy(seen, when.day)
    BY <1>2, <1>3, <2>3, <2>4, EngineKeepsCover
  <2>6. /\ seen.engine = out.engine /\ seen.stop = filled.stop
        /\ Begun(seen.engine.trades)
    <3>1. seen.engine = out.engine /\ seen.stop = filled.stop
      BY <1>2, <2>4 DEF Lives
    <3> QED
      BY <1>2, <1>3, <2>3, <3>1
  <2>7. ParityBar(r, when, bar, reading) =
          IF Exits(out.exit) /\ out.engine.position # "NONE"
          THEN ParityExit(seen, ExitFill(out.engine, bar), when, out.exit) ELSE seen
    BY <1>1, <1>3, <1>10, <2>1, <2>4 DEF ParityBar, ParityEngine
  <2>8. ExitFill(out.engine, bar) = end
    BY <1>5, <2>3 DEF ExitFill
  <2>9. ~HoldOvernight /\ when.clock >= Cutoff => out.engine.position = "NONE"
    BY <1>3, <1>10, <2>3 DEF Flattens
  <2>10. CASE Exits(out.exit) /\ out.engine.position # "NONE"
    <3>1. PICK reason \in Reasons : reason = out.exit
      BY <1>6, <2>3, <2>10
    <3>2. ParityBar(r, when, bar, reading) = ParityExit(seen, end, when, reason)
      BY <2>7, <2>8, <2>10, <3>1
    <3>3. CoveredBy(ParityExit(seen, end, when, reason), when.day)
      BY <1>8, <1>10, <2>3, <2>5, <2>6, <2>10, ExitKeepsCover
    <3>4. /\ ParityExit(seen, end, when, reason) \in Lives
          /\ ParityExit(seen, end, when, reason).engine.position = "NONE"
      BY <2>5, <2>6, <2>10, ParityExitLeaves
    <3> QED
      BY <3>2, <3>3, <3>4
  <2>11. CASE ~(Exits(out.exit) /\ out.engine.position # "NONE")
    BY <2>5, <2>6, <2>7, <2>9, <2>11
  <2> QED
    BY <2>10, <2>11
<1> QED
  BY <1>7, <1>9, <1>10

-----------------------------------------------------------------------------
\* The reference replay beside it.

\* Two engines that will do the same at a bar, but for the exits they ask for.
Agree(e, f) ==
  /\ e.position = f.position /\ e.pending = f.pending /\ e.fill = f.fill /\ e.entered = f.entered
  /\ e.day = f.day /\ e.choppy = f.choppy /\ e.regime = f.regime

Ended(trades, when) ==
  \A i \in 1 .. Len(trades) : i > Len(brought) => NotAfter(trades[i].exited, when)

\* Some trade of the replays has no counterpart on the same bars, now or later.
Diverged(mine, others) ==
  \E i \in Nat \ {0} :
    /\ i > Len(brought)
    /\ i <= Len(mine) \/ i <= Len(others)
    /\ i <= Len(mine) /\ i <= Len(others) =>
         mine[i].entered # others[i].entered \/ mine[i].exited # others[i].exited

ReplaysExplained ==
  ~live.refused /\ Skipped(live) = {} =>
    \/ Agree(ref, live.engine) /\ SameOutcomes(ref.trades, live.engine.trades)
    \/ Diverged(ref.trades, live.engine.trades)

\* What a bar does to the trades: at most one is added, ending at this bar.
Adds(before, after, when) ==
  \/ after = before
  \/ \E trade \in TradeRecords : after = Append(before, trade) /\ trade.exited = when

LEMMA AddsMeans ==
  ASSUME NEW before \in Seq(TradeRecords), NEW after, NEW when, Adds(before, after, when)
  PROVE  /\ after \in Seq(TradeRecords)
         /\ Len(before) \in Nat /\ Len(after) \in Nat
         /\ Len(after) = Len(before) \/ Len(after) = Len(before) + 1
         /\ \A i \in 1 .. Len(before) : after[i] = before[i]
         /\ Len(after) = Len(before) + 1 => after[Len(after)].exited = when
<1>1. CASE after = before
  BY <1>1, LenProperties
<1>2. CASE after # before
  <2>1. PICK trade \in TradeRecords : after = Append(before, trade) /\ trade.exited = when
    BY <1>2 DEF Adds
  <2> QED
    BY <2>1, AppendProperties, LenProperties
<1> QED
  BY <1>1, <1>2

LEMMA AddsKeepsBegun ==
  ASSUME NEW before \in Seq(TradeRecords), NEW after, NEW when, Adds(before, after, when), Begun(before)
  PROVE  Begun(after) /\ OwnTrades(before) \subseteq OwnTrades(after)
<1>1. CASE after = before
  BY <1>1
<1>2. CASE after # before
  <2>1. PICK trade \in TradeRecords : after = Append(before, trade)
    BY <1>2 DEF Adds
  <2> QED
    BY <2>1, NextIsOwn
<1> QED
  BY <1>1, <1>2

\* Adding trades that end now makes neither list catch up.
LEMMA DivergedStays ==
  ASSUME NEW mine \in Seq(TradeRecords), NEW others \in Seq(TradeRecords), NEW mine2, NEW others2,
         NEW last, NEW when, Ended(mine, last), Ended(others, last), ~NotAfter(when, last),
         Adds(mine, mine2, when), Adds(others, others2, when), Diverged(mine, others)
  PROVE  Diverged(mine2, others2)
<1>1. PICK i \in Nat \ {0} :
        /\ i > Len(brought)
        /\ i <= Len(mine) \/ i <= Len(others)
        /\ i <= Len(mine) /\ i <= Len(others) =>
             mine[i].entered # others[i].entered \/ mine[i].exited # others[i].exited
  BY DEF Diverged
<1>2. /\ Len(mine) \in Nat /\ Len(mine2) \in Nat
      /\ Len(mine2) = Len(mine) \/ Len(mine2) = Len(mine) + 1
      /\ \A j \in 1 .. Len(mine) : mine2[j] = mine[j]
      /\ Len(mine2) = Len(mine) + 1 => mine2[Len(mine2)].exited = when
  BY AddsMeans
<1>3. /\ Len(others) \in Nat /\ Len(others2) \in Nat
      /\ Len(others2) = Len(others) \/ Len(others2) = Len(others) + 1
      /\ \A j \in 1 .. Len(others) : others2[j] = others[j]
      /\ Len(others2) = Len(others) + 1 => others2[Len(others2)].exited = when
  BY AddsMeans
<1>4. i \in 1 .. Len(mine) => mine2[i] = mine[i] /\ mine[i].exited # when /\ i <= Len(mine2)
  BY <1>1, <1>2 DEF Ended
<1>5. i \in 1 .. Len(others) => others2[i] = others[i] /\ others[i].exited # when /\ i <= Len(others2)
  BY <1>1, <1>3 DEF Ended
<1>6. i <= Len(mine2) /\ i <= Len(others2) =>
        mine2[i].entered # others2[i].entered \/ mine2[i].exited # others2[i].exited
  <2>1. CASE i <= Len(mine) /\ i <= Len(others)
    BY <1>1, <1>2, <1>3, <1>4, <1>5, <2>1
  <2>2. CASE i <= Len(mine) /\ ~(i <= Len(others))
    BY <1>3, <1>4, <2>2
  <2>3. CASE ~(i <= Len(mine)) /\ i <= Len(others)
    BY <1>2, <1>5, <2>3
  <2> QED
    BY <1>1, <2>1, <2>2, <2>3
<1>7. i <= Len(mine2) \/ i <= Len(others2)
  BY <1>1, <1>2, <1>3
<1> QED
  BY <1>1, <1>6, <1>7 DEF Diverged

LEMMA ParityExitAdds ==
  ASSUME NEW r \in Lives, Begun(r.engine.trades), r.engine.position # "NONE", NEW price \in Int,
         NEW when \in BarTimes, NEW reason \in Reasons
  PROVE  LET f == ParityExit(r, price, when, reason)
         IN /\ Adds(r.engine.trades, f.engine.trades, when) /\ f.refused = r.refused
            /\ reason \in {"STOP_FILLED_BROKER", "SESSION_FLATTEN"} => Skipped(f) # {}
<1>1. PICK e \in Engines : e = r.engine
  BY DEF Lives
<1>2. PICK f, trade : f = ParityExit(r, price, when, reason) /\ trade = TradeOf(e, price, when, reason)
  OBVIOUS
<1>3. f.engine = ExitFilled(e, price, when, reason) /\ f.refused = r.refused
  BY <1>1, <1>2, ParityExitLeaves
<1>4. trade \in TradeRecords
  BY <1>1, <1>2, ExitDoes
<1>5. f.engine.trades = Append(e.trades, trade)
  BY <1>1, <1>2, <1>3, <1>4, ExitDoes
<1>6. trade.exited = when /\ trade.reason = reason
  BY <1>2 DEF TradeOf
<1>7. e.trades \in Seq(TradeRecords)
  BY DEF Engines
<1>8. /\ Len(e.trades) + 1 \in OwnTrades(f.engine.trades)
      /\ f.engine.trades[Len(e.trades) + 1] = trade
  BY <1>1, <1>4, <1>5, <1>7, AppendProperties, NextIsOwn
<1> QED
  BY <1>1, <1>2, <1>3, <1>4, <1>5, <1>6, <1>8 DEF Adds, Skipped

\* A bar adds at most a trade that ends at it; one that the engine is not shown is not skipped
\* in silence; and a refused entry is remembered.
LEMMA BarAdds ==
  ASSUME NEW r \in Lives, Begun(r.engine.trades), NEW bar \in Tape, NEW when \in BarTimes,
         NEW reading \in Readings
  PROVE  LET f == ParityBar(r, when, bar, reading)
             filled == ParityFill(r, bar, when)
         IN /\ Adds(r.engine.trades, f.engine.trades, when)
            /\ r.refused \/ filled.refused => f.refused
            /\ StopHit(filled, bar) \/ Flattens(filled, when) => Skipped(f) # {}
<1>1. PICK filled \in Lives : /\ filled = ParityFill(r, bar, when)
                              /\ filled.engine.trades = r.engine.trades
                              /\ r.refused => filled.refused
  <2>1. PICK filled \in Lives : filled = ParityFill(r, bar, when) /\ filled.engine.trades = r.engine.trades
    BY ParityFillDoes
  <2>2. r.refused => filled.refused
    BY <2>1, ParityFillDoes
  <2> QED
    BY <2>1, <2>2
<1>2. PICK e \in Engines : e = filled.engine
  BY DEF Lives
<1>3. PICK f : f = ParityBar(r, when, bar, reading)
  OBVIOUS
<1>4. PICK end \in Int : end = ExitFill(e, bar)
  BY BarsHold DEF ExitFill, Sold, Bought, Slip
<1>5. {"STOP_FILLED_BROKER", "SESSION_FLATTEN"} \cup EngineReasons \subseteq Reasons
  BY DEF Reasons, EngineReasons
<1>6. CASE StopHit(filled, bar)
  <2>1. PICK stop \in Int : stop = filled.stop
    BY DEF Lives, NoStop
  <2>2. f = ParityExit(filled, stop, when, "STOP_FILLED_BROKER")
    BY <1>1, <1>3, <1>6, <2>1 DEF ParityBar
  <2>3. filled.engine.position # "NONE"
    BY <1>6 DEF StopHit
  <2> QED
    BY <1>1, <1>3, <1>5, <2>2, <2>3, ParityExitAdds
<1>7. CASE ~StopHit(filled, bar) /\ Flattens(filled, when)
  <2>1. PICK closed : closed = ParityExit(filled, end, when, "SESSION_FLATTEN")
    OBVIOUS
  <2>2. f = [closed EXCEPT !.engine = CancelPending(@)]
    BY <1>1, <1>2, <1>3, <1>4, <1>7, <2>1 DEF ParityBar, ParityFlatten
  <2>3. filled.engine.position # "NONE"
    BY <1>7 DEF Flattens
  <2>4. closed \in Lives
    BY <1>5, <2>1, <2>3, ParityExitLeaves
  <2>5. /\ Adds(r.engine.trades, closed.engine.trades, when) /\ closed.refused = filled.refused
        /\ Skipped(closed) # {}
    BY <1>1, <1>5, <2>1, <2>3, ParityExitAdds
  <2>6. PICK cancelled \in Engines :
          cancelled = CancelPending(closed.engine) /\ cancelled.trades = closed.engine.trades
    BY <2>4, CancelDoes DEF Lives
  <2>7. f.engine = cancelled /\ f.refused = closed.refused
    BY <2>2, <2>4, <2>6 DEF Lives
  <2>8. f.engine.trades = closed.engine.trades
    BY <2>6, <2>7
  <2>9. Skipped(f) = Skipped(closed)
    BY <2>8 DEF Skipped
  <2> QED
    BY <1>1, <1>3, <2>5, <2>7, <2>8, <2>9
<1>8. CASE ~StopHit(filled, bar) /\ ~Flattens(filled, when)
  <2>1. PICK out, seen : /\ out = OnBar(e, when, bar, reading, FALSE)
                         /\ seen = [filled EXCEPT !.engine = out.engine]
    OBVIOUS
  <2>2. /\ out.engine \in Engines /\ out.engine.trades = e.trades
        /\ Exits(out.exit) => out.exit \in EngineReasons
    <3>1. PICK dated \in Engines : dated = NewDay(e, when, reading) /\ dated.trades = e.trades
      BY NewDayDoes
    <3>2. out = ShownBar(dated, when, bar, reading)
      BY <2>1, <3>1, OnBarShows
    <3> QED
      BY <3>1, <3>2, BarDoes
  <2>3. /\ seen \in Lives /\ seen.engine = out.engine /\ seen.refused = filled.refused
        /\ Begun(seen.engine.trades)
    <3>1. seen \in Lives /\ seen.engine = out.engine /\ seen.refused = filled.refused
      BY <2>1, <2>2 DEF Lives
    <3> QED
      BY <1>1, <1>2, <2>2, <3>1
  <2>4. f = IF Exits(out.exit) /\ out.engine.position # "NONE"
            THEN ParityExit(seen, ExitFill(out.engine, bar), when, out.exit) ELSE seen
    BY <1>1, <1>2, <1>3, <1>8, <2>1 DEF ParityBar, ParityEngine
  <2>5. ASSUME Exits(out.exit), out.engine.position # "NONE"
        PROVE  Adds(r.engine.trades, f.engine.trades, when) /\ f.refused = filled.refused
    <3>1. PICK price \in Int : price = ExitFill(out.engine, bar)
      BY BarsHold DEF ExitFill, Sold, Bought, Slip
    <3>2. PICK reason \in Reasons : reason = out.exit
      BY <1>5, <2>2, <2>5
    <3>3. f = ParityExit(seen, price, when, reason)
      BY <2>4, <2>5, <3>1, <3>2
    <3> QED
      BY <1>1, <1>2, <2>2, <2>3, <2>5, <3>3, ParityExitAdds
  <2>6. ASSUME ~(Exits(out.exit) /\ out.engine.position # "NONE")
        PROVE  Adds(r.engine.trades, f.engine.trades, when) /\ f.refused = filled.refused
    BY <1>1, <1>2, <2>2, <2>3, <2>4, <2>6 DEF Adds
  <2> QED
    BY <1>1, <1>3, <1>8, <2>5, <2>6
<1> QED
  BY <1>6, <1>7, <1>8

\* The engine that the reference shows a bar.
LEMMA ReferenceShown ==
  ASSUME NEW e \in Engines, NEW bar \in Tape, NEW when \in BarTimes, NEW reading \in Readings,
         NEW f, f = FillPending(NewDay(e, when, reading), bar, when),
         NEW out, out = ShownBar(f, when, bar, reading)
  PROVE  /\ f \in Engines /\ f.trades = e.trades /\ f.day = when.day /\ f.regime = e.regime
         /\ f.choppy = (IF e.day = when.day THEN e.choppy ELSE reading.choppy)
         /\ ~(e.pending # "NONE" /\ e.position = "NONE") =>
              f.position = e.position /\ f.pending = e.pending /\ f.fill = e.fill /\ f.entered = e.entered
         /\ e.pending # "NONE" /\ e.position = "NONE" =>
              /\ f.position = (IF e.pending = "BUY" THEN "LONG" ELSE "SHORT") /\ f.pending = "NONE"
              /\ f.fill = EntryFill(e, bar) /\ f.entered = when
         /\ out.engine \in Engines
         /\ out.engine.trades = f.trades /\ out.engine.position = f.position
         /\ out.engine.fill = f.fill /\ out.engine.entered = f.entered
         /\ out.engine.day = f.day /\ out.engine.choppy = f.choppy
         /\ out.engine.regime = (IF OfficeHours(when.clock) THEN reading.regime ELSE f.regime)
         /\ out.engine.pending = (IF f.position = "NONE" /\ Asks(f, when.clock, reading) THEN Trigger(when.clock, reading) ELSE f.pending)
         /\ Exits(out.exit) => out.exit \in EngineReasons /\ out.engine.position # "NONE"
<1>1. PICK dated \in Engines :
        /\ dated = NewDay(e, when, reading) /\ dated.day = when.day
        /\ dated.choppy = (IF e.day = when.day THEN e.choppy ELSE reading.choppy)
        /\ dated.position = e.position /\ dated.fill = e.fill /\ dated.entered = e.entered
        /\ dated.pending = e.pending /\ dated.regime = e.regime /\ dated.trades = e.trades
  BY NewDayDoes
<1>2. EntryFill(dated, bar) = EntryFill(e, bar)
  BY <1>1 DEF EntryFill
<1>4. f \in Engines
  BY <1>1, FillDoes
<1>6. /\ out.engine \in Engines
      /\ out.engine.trades = f.trades /\ out.engine.position = f.position
      /\ out.engine.fill = f.fill /\ out.engine.entered = f.entered
      /\ out.engine.day = f.day /\ out.engine.choppy = f.choppy
      /\ out.engine.regime = (IF OfficeHours(when.clock) THEN reading.regime ELSE f.regime)
      /\ out.engine.pending = (IF f.position = "NONE" /\ Asks(f, when.clock, reading) THEN Trigger(when.clock, reading) ELSE f.pending)
      /\ f.position = "NONE" => ~Exits(out.exit)
      /\ Exits(out.exit) => out.exit \in EngineReasons
  BY <1>4, BarDoes
<1>7. /\ f.day = dated.day /\ f.choppy = dated.choppy /\ f.regime = dated.regime /\ f.trades = dated.trades
      /\ ~(dated.pending # "NONE" /\ dated.position = "NONE") => f = dated
      /\ dated.pending # "NONE" /\ dated.position = "NONE" =>
           /\ f.position = (IF dated.pending = "BUY" THEN "LONG" ELSE "SHORT")
           /\ f.fill = EntryFill(dated, bar) /\ f.entered = when /\ f.pending = "NONE"
  BY <1>1, FillDoes
<1> QED
  BY <1>1, <1>2, <1>4, <1>6, <1>7

LEMMA ReferenceAdds ==
  ASSUME NEW e \in Engines, NEW bar \in Tape, NEW when \in BarTimes, NEW reading \in Readings
  PROVE  /\ ReferenceBar(e, when, bar, reading) \in Engines
         /\ Adds(e.trades, ReferenceBar(e, when, bar, reading).trades, when)
<1>1. PICK f, out : /\ f = FillPending(NewDay(e, when, reading), bar, when)
                    /\ out = OnBar(e, when, bar, reading, TRUE)
  OBVIOUS
<1>2. /\ out.engine \in Engines /\ out.engine.trades = e.trades
      /\ Exits(out.exit) => out.exit \in EngineReasons /\ out.engine.position # "NONE"
  <2>1. out = ShownBar(f, when, bar, reading)
    BY <1>1, OnBarShows
  <2>2. f \in Engines /\ f.trades = e.trades
    BY <1>1, NewDayDoes, FillDoes
  <2> QED
    BY <2>1, <2>2, BarDoes
<1>3. PICK shown \in Engines : shown = out.engine
  BY <1>2
<1>4. CASE Exits(out.exit)
  <2>1. PICK price \in Int : price = ExitFill(shown, bar)
    BY BarsHold DEF ExitFill, Sold, Bought, Slip
  <2>2. PICK reason \in Reasons : reason = out.exit
    BY <1>2, <1>4 DEF EngineReasons
  <2>3. ReferenceBar(e, when, bar, reading) = ExitFilled(shown, price, when, reason)
    BY <1>1, <1>3, <1>4, <2>1, <2>2 DEF ReferenceBar
  <2>4. PICK trade : trade = TradeOf(shown, price, when, reason)
    OBVIOUS
  <2>5. /\ ExitFilled(shown, price, when, reason) \in Engines /\ trade \in TradeRecords
        /\ ExitFilled(shown, price, when, reason).trades = Append(shown.trades, trade)
    BY <1>2, <1>3, <1>4, <2>4, ExitDoes
  <2>6. trade.exited = when
    BY <2>4 DEF TradeOf
  <2> QED
    BY <1>2, <1>3, <2>3, <2>5, <2>6 DEF Adds
<1>5. CASE ~Exits(out.exit)
  BY <1>1, <1>2, <1>5 DEF ReferenceBar, Adds
<1> QED
  BY <1>4, <1>5

LEMMA OutcomesAppend ==
  ASSUME NEW mine \in Seq(TradeRecords), NEW others \in Seq(TradeRecords), SameOutcomes(mine, others),
         NEW a \in TradeRecords, NEW b \in TradeRecords, Begun(mine)
  PROVE  /\ Outcome(a) = Outcome(b) => SameOutcomes(Append(mine, a), Append(others, b))
         /\ Diverged(Append(mine, a), others) /\ Diverged(mine, Append(others, b))
<1>1. Len(mine) \in Nat /\ Len(others) = Len(mine)
  BY LenProperties DEF SameOutcomes
<1>2. /\ Len(Append(mine, a)) = Len(mine) + 1 /\ Append(mine, a)[Len(mine) + 1] = a
      /\ \A i \in 1 .. Len(mine) : Append(mine, a)[i] = mine[i]
  BY AppendProperties, LenProperties
<1>3. /\ Len(Append(others, b)) = Len(mine) + 1 /\ Append(others, b)[Len(mine) + 1] = b
      /\ \A i \in 1 .. Len(mine) : Append(others, b)[i] = others[i]
  BY <1>1, AppendProperties, LenProperties
<1>4. Diverged(Append(mine, a), others) /\ Diverged(mine, Append(others, b))
  <2>1. PICK i \in Nat \ {0} : i = Len(mine) + 1
    BY <1>1
  <2>2. /\ i <= Len(Append(mine, a)) /\ ~(i <= Len(others)) /\ i <= Len(Append(others, b)) /\ ~(i <= Len(mine))
        /\ i > Len(brought)
    BY <1>1, <1>2, <1>3, <2>1, LenProperties DEF Begun
  <2> QED
    BY <2>2 DEF Diverged
<1>5. ASSUME Outcome(a) = Outcome(b) PROVE SameOutcomes(Append(mine, a), Append(others, b))
  <2>1. \A i \in 1 .. Len(mine) : Outcome(mine[i]) = Outcome(others[i])
    BY DEF SameOutcomes
  <2>2. \A i \in 1 .. Len(mine) + 1 : i \in 1 .. Len(mine) \/ i = Len(mine) + 1
    BY <1>1
  <2>3. \A i \in 1 .. Len(mine) + 1 : Outcome(Append(mine, a)[i]) = Outcome(Append(others, b)[i])
    BY <1>2, <1>3, <1>5, <2>1, <2>2
  <2> QED
    BY <1>2, <1>3, <2>3 DEF SameOutcomes
<1> QED
  BY <1>4, <1>5

\* While they agree, a bar that the live rules let pass leaves them agreeing, or only one exits.
LEMMA BarsAgree ==
  ASSUME NEW e \in Engines, NEW r \in Lives, NEW bar \in Tape, NEW when \in BarTimes, NEW reading \in Readings,
         Agree(e, r.engine), SameOutcomes(e.trades, r.engine.trades),
         Begun(e.trades), Begun(r.engine.trades), NEW f, f = ParityBar(r, when, bar, reading), NEW g, g = ReferenceBar(e, when, bar, reading),
         ~f.refused, Skipped(f) = {}
  PROVE  \/ Agree(g, f.engine) /\ SameOutcomes(g.trades, f.engine.trades)
         \/ Diverged(g.trades, f.engine.trades)
<1>1. PICK filled \in Lives, x \in Engines :
        /\ filled = ParityFill(r, bar, when) /\ x = filled.engine /\ ~filled.refused
        /\ ~StopHit(filled, bar) /\ ~Flattens(filled, when)
  <2>1. PICK filled \in Lives : filled = ParityFill(r, bar, when)
    BY ParityFillDoes
  <2>2. PICK x \in Engines : x = filled.engine
    BY DEF Lives
  <2> QED
    BY <2>1, <2>2, BarAdds
<1>2. PICK y \in Engines : y = r.engine
  BY DEF Lives
<1>3. /\ x.day = y.day /\ x.choppy = y.choppy /\ x.regime = y.regime /\ x.trades = y.trades
      /\ ~(y.pending # "NONE" /\ y.position = "NONE") => x = y
      /\ y.pending # "NONE" /\ y.position = "NONE" =>
           /\ x.position = (IF y.pending = "BUY" THEN "LONG" ELSE "SHORT")
           /\ x.fill = EntryFill(y, bar) /\ x.entered = when /\ x.pending = "NONE"
  <2>1. y.pending # "NONE" /\ y.position = "NONE" => MayEnter(r, when)
    BY <1>1, <1>2, ParityFillDoes
  <2> QED
    BY <1>1, <1>2, <2>1, ParityFillDoes
<1>4. PICK dated, outL : dated = NewDay(x, when, reading) /\ outL = ShownBar(dated, when, bar, reading)
  OBVIOUS
<1>5. PICK shown, outR : /\ shown = FillPending(NewDay(e, when, reading), bar, when)
                         /\ outR = ShownBar(shown, when, bar, reading)
  OBVIOUS
<1>6. f = IF Exits(outL.exit) /\ outL.engine.position # "NONE"
          THEN ParityExit([filled EXCEPT !.engine = outL.engine], ExitFill(outL.engine, bar), when, outL.exit)
          ELSE [filled EXCEPT !.engine = outL.engine]
  <2>1. outL = OnBar(x, when, bar, reading, FALSE)
    BY <1>4, OnBarShows
  <2> QED
    BY <1>1, <2>1 DEF ParityBar, ParityEngine
<1>7. g = IF Exits(outR.exit) THEN ExitFilled(outR.engine, ExitFill(outR.engine, bar), when, outR.exit)
          ELSE outR.engine
  <2>1. outR = OnBar(e, when, bar, reading, TRUE)
    BY <1>5, OnBarShows
  <2> QED
    BY <2>1 DEF ReferenceBar
<1>8. shown \in Engines /\ dated \in Engines /\ Agree(shown, dated) /\ shown.trades = e.trades /\ dated.trades = y.trades
  <2>1. /\ dated \in Engines /\ dated.day = when.day /\ dated.trades = x.trades /\ dated.regime = x.regime
        /\ dated.choppy = (IF x.day = when.day THEN x.choppy ELSE reading.choppy)
        /\ dated.position = x.position /\ dated.pending = x.pending
        /\ dated.fill = x.fill /\ dated.entered = x.entered
    BY <1>4, NewDayDoes
  <2>2. PICK d \in Engines :
          /\ d = NewDay(e, when, reading)
          /\ d.day = when.day /\ d.trades = e.trades /\ d.regime = e.regime
          /\ d.choppy = (IF e.day = when.day THEN e.choppy ELSE reading.choppy)
          /\ d.position = e.position /\ d.pending = e.pending /\ d.fill = e.fill /\ d.entered = e.entered
    BY NewDayDoes
  <2>3. /\ shown \in Engines
        /\ shown.day = d.day /\ shown.choppy = d.choppy /\ shown.regime = d.regime /\ shown.trades = d.trades
        /\ ~(d.pending # "NONE" /\ d.position = "NONE") => shown = d
        /\ d.pending # "NONE" /\ d.position = "NONE" =>
             /\ shown.position = (IF d.pending = "BUY" THEN "LONG" ELSE "SHORT")
             /\ shown.fill = EntryFill(d, bar) /\ shown.entered = when /\ shown.pending = "NONE"
    BY <1>5, <2>2, FillDoes
  <2>4. /\ e.position = y.position /\ e.pending = y.pending /\ e.fill = y.fill /\ e.entered = y.entered
        /\ e.day = y.day /\ e.choppy = y.choppy /\ e.regime = y.regime
    BY <1>2 DEF Agree
  <2>5. EntryFill(d, bar) = EntryFill(y, bar)
    BY <2>2, <2>4 DEF EntryFill
  <2>6. CASE y.pending # "NONE" /\ y.position = "NONE"
    BY <1>3, <2>1, <2>2, <2>3, <2>4, <2>5, <2>6 DEF Agree
  <2>7. CASE ~(y.pending # "NONE" /\ y.position = "NONE")
    BY <1>3, <2>1, <2>2, <2>3, <2>4, <2>7 DEF Agree
  <2> QED
    BY <2>6, <2>7
<1>9. PICK a \in Engines, b \in Engines :
        /\ a = outR.engine /\ b = outL.engine /\ Agree(a, b) /\ a.trades = e.trades /\ b.trades = y.trades
        /\ Exits(outR.exit) => outR.exit \in Reasons /\ a.position # "NONE"
        /\ Exits(outL.exit) => outL.exit \in Reasons /\ b.position # "NONE"
  <2>1. /\ outR.engine \in Engines /\ outR.engine.trades = shown.trades
        /\ outR.engine.position = shown.position /\ outR.engine.fill = shown.fill
        /\ outR.engine.entered = shown.entered /\ outR.engine.day = shown.day
        /\ outR.engine.choppy = shown.choppy
        /\ outR.engine.regime = (IF OfficeHours(when.clock) THEN reading.regime ELSE shown.regime)
        /\ outR.engine.pending = (IF shown.position = "NONE" /\ Asks(shown, when.clock, reading)
                                  THEN Trigger(when.clock, reading) ELSE shown.pending)
        /\ shown.position = "NONE" => ~Exits(outR.exit)
        /\ Exits(outR.exit) => outR.exit \in EngineReasons
    BY <1>5, <1>8, BarDoes
  <2>2. /\ outL.engine \in Engines /\ outL.engine.trades = dated.trades
        /\ outL.engine.position = dated.position /\ outL.engine.fill = dated.fill
        /\ outL.engine.entered = dated.entered /\ outL.engine.day = dated.day
        /\ outL.engine.choppy = dated.choppy
        /\ outL.engine.regime = (IF OfficeHours(when.clock) THEN reading.regime ELSE dated.regime)
        /\ outL.engine.pending = (IF dated.position = "NONE" /\ Asks(dated, when.clock, reading)
                                  THEN Trigger(when.clock, reading) ELSE dated.pending)
        /\ dated.position = "NONE" => ~Exits(outL.exit)
        /\ Exits(outL.exit) => outL.exit \in EngineReasons
    BY <1>4, <1>8, BarDoes
  <2>3. Asks(shown, when.clock, reading) = Asks(dated, when.clock, reading)
    BY <1>8 DEF Asks, GateBlocks, Agree
  <2>4. Agree(outR.engine, outL.engine)
    BY <1>8, <2>1, <2>2, <2>3 DEF Agree
  <2>5. EngineReasons \subseteq Reasons
    BY DEF EngineReasons
  <2> QED
    BY <1>8, <2>1, <2>2, <2>4, <2>5
<1>10. PICK price \in Int : price = ExitFill(a, bar) /\ price = ExitFill(b, bar)
  BY <1>9, BarsHold DEF ExitFill, Sold, Bought, Slip, Agree
<1>11. PICK seen \in Lives : seen = [filled EXCEPT !.engine = b] /\ seen.engine = b
  <2>1. PICK seen : seen = [filled EXCEPT !.engine = b]
    OBVIOUS
  <2>2. seen \in Lives /\ seen.engine = b
    BY <2>1 DEF Lives
  <2> QED
    BY <2>1, <2>2
<1>12. CASE Exits(outL.exit)
  <2>1. PICK reason \in Reasons : reason = outL.exit
    BY <1>9, <1>12
  <2>2. f = ParityExit(seen, price, when, reason)
    BY <1>6, <1>9, <1>10, <1>11, <1>12, <2>1
  <2>3. f.engine = ExitFilled(b, price, when, reason)
    <3>1. seen.engine.position # "NONE"
      BY <1>9, <1>11, <1>12
    <3>2. f.engine = ExitFilled(seen.engine, price, when, reason)
      BY <2>2, <3>1, ParityExitLeaves
    <3> QED
      BY <1>11, <3>2
  <2>4. PICK tradeL : tradeL = TradeOf(b, price, when, reason)
    OBVIOUS
  <2>5. PICK h : h = ExitFilled(b, price, when, reason)
    OBVIOUS
  <2>6. /\ tradeL \in TradeRecords /\ h.position = "NONE" /\ h.trades = Append(b.trades, tradeL)
        /\ h.pending = b.pending /\ h.fill = b.fill /\ h.entered = b.entered
        /\ h.day = b.day /\ h.choppy = b.choppy /\ h.regime = b.regime
    BY <1>9, <1>12, <2>4, <2>5, ExitDoes
  <2>7. CASE Exits(outR.exit)
    <3>1. PICK other \in Reasons : other = outR.exit
      BY <1>9, <2>7
    <3>2. g = ExitFilled(a, price, when, other)
      BY <1>7, <1>9, <1>10, <2>7, <3>1
    <3>3. PICK tradeR : tradeR = TradeOf(a, price, when, other)
      OBVIOUS
    <3>4. /\ tradeR \in TradeRecords /\ g.position = "NONE" /\ g.trades = Append(a.trades, tradeR)
          /\ g.pending = a.pending /\ g.fill = a.fill /\ g.entered = a.entered
          /\ g.day = a.day /\ g.choppy = a.choppy /\ g.regime = a.regime
      BY <1>9, <2>7, <3>2, <3>3, ExitDoes
    <3>5. Outcome(tradeR) = Outcome(tradeL)
      BY <1>9, <2>4, <3>3 DEF Outcome, TradeOf, Agree
    <3>6. Agree(g, f.engine)
      BY <1>9, <2>3, <2>5, <2>6, <3>4 DEF Agree
    <3>7. SameOutcomes(g.trades, f.engine.trades)
      <4>1. e.trades \in Seq(TradeRecords) /\ y.trades \in Seq(TradeRecords)
        BY DEF Engines
      <4> QED
        BY <1>2, <1>9, <2>3, <2>5, <2>6, <3>4, <3>5, <4>1, OutcomesAppend
    <3> QED
      BY <3>6, <3>7
  <2>8. CASE ~Exits(outR.exit)
    <3>1. g.trades = e.trades
      BY <1>7, <1>9, <2>8
    <3>2. e.trades \in Seq(TradeRecords) /\ y.trades \in Seq(TradeRecords)
      BY DEF Engines
    <3>3. f.engine.trades = Append(y.trades, tradeL)
      BY <1>9, <2>3, <2>5, <2>6
    <3> QED
      BY <1>2, <2>6, <3>1, <3>2, <3>3, OutcomesAppend
  <2> QED
    BY <2>7, <2>8
<1>13. CASE ~Exits(outL.exit)
  <2>1. f.engine = b
    BY <1>6, <1>9, <1>11, <1>13
  <2>2. CASE Exits(outR.exit)
    <3>1. PICK other \in Reasons : other = outR.exit
      BY <1>9, <2>2
    <3>2. g = ExitFilled(a, price, when, other)
      BY <1>7, <1>9, <1>10, <2>2, <3>1
    <3>3. PICK tradeR : tradeR = TradeOf(a, price, when, other)
      OBVIOUS
    <3>4. tradeR \in TradeRecords /\ g.trades = Append(a.trades, tradeR)
      BY <1>9, <2>2, <3>2, <3>3, ExitDoes
    <3>5. e.trades \in Seq(TradeRecords) /\ y.trades \in Seq(TradeRecords)
      BY DEF Engines
    <3> QED
      BY <1>2, <1>9, <2>1, <3>4, <3>5, OutcomesAppend
  <2>3. CASE ~Exits(outR.exit)
    BY <1>2, <1>7, <1>9, <2>1, <2>3
  <2> QED
    BY <2>2, <2>3
<1> QED
  BY <1>12, <1>13

ReplayInv ==
  /\ Begun(ref.trades) /\ Begun(live.engine.trades)
  /\ at \in [day : 1 .. ReplayDays, clock : Clocks \cup {-1}]
  /\ ref \in Engines /\ live \in Lives
  /\ CoveredBy(live, at.day)
  /\ ~HoldOvernight /\ at.clock >= Cutoff => live.engine.position = "NONE"
  /\ Ended(ref.trades, at) /\ Ended(live.engine.trades, at)
  /\ ReplaysExplained

LEMMA EndedStays ==
  ASSUME NEW before \in Seq(TradeRecords), NEW after,
         NEW last, last.day \in Int, last.clock \in Int, NEW when \in ReplayDates, ~NotAfter(when, last),
         Ended(before, last), Adds(before, after, when)
  PROVE  Ended(after, when)
<1>1. /\ after \in Seq(TradeRecords) /\ Len(before) \in Nat /\ Len(after) \in Nat
      /\ Len(after) = Len(before) \/ Len(after) = Len(before) + 1
      /\ \A i \in 1 .. Len(before) : after[i] = before[i]
      /\ Len(after) = Len(before) + 1 => after[Len(after)].exited = when
  BY AddsMeans
<1>2. when.day \in Int /\ when.clock \in Int
  BY DEF ReplayDates
<1>3. ASSUME NEW t \in ReplayDates, NotAfter(t, last) PROVE NotAfter(t, when)
  <2>1. t.day \in Int /\ t.clock \in Int
    BY DEF ReplayDates
  <2> QED
    BY <1>2, <1>3, <2>1 DEF NotAfter
<1>4. ASSUME NEW i \in 1 .. Len(after), i > Len(brought) PROVE NotAfter(after[i].exited, when)
  <2>1. CASE i \in 1 .. Len(before)
    <3>1. before[i] \in TradeRecords
      BY <2>1, ElementOfSeq
    <3>2. before[i].exited \in ReplayDates
      BY <3>1 DEF TradeRecords
    <3> QED
      BY <1>1, <1>3, <1>4, <2>1, <3>2 DEF Ended
  <2>2. CASE i \notin 1 .. Len(before)
    BY <1>1, <1>2, <2>2 DEF NotAfter
  <2> QED
    BY <2>1, <2>2
<1> QED
  BY <1>4 DEF Ended

\* A new engine is one as well, and has made no trade.
LEMMA FreshEngineIs ==
  FreshEngine \in Engines /\ FreshEngine.entered.day = 0 /\ FreshEngine.trades = <<>>
<1>1. PICK none : none = <<>>
  OBVIOUS
<1>2. none \in Seq(Int) /\ none \in Seq(TradeRecords)
  BY <1>1, EmptySeq
<1>3. [day |-> 0, clock |-> 0] \in ReplayDates /\ 0 \in 0 .. ReplayDays
  BY BarsHold DEF ReplayDates
<1>4. FreshEngine =
        [position |-> "NONE", pending |-> "NONE", entry |-> 0, fill |-> 0,
         entered |-> [day |-> 0, clock |-> 0], gains |-> none, day |-> 0, choppy |-> FALSE,
         regime |-> "nowhere", trades |-> none]
  BY <1>1 DEF FreshEngine
<1>5. FreshEngine \in Engines
  BY <1>2, <1>3, <1>4 DEF Engines, Directions, Regimes
<1> QED
  BY <1>1, <1>4, <1>5

\* Both replays begin with the same engine and the trades it was loaded with.
LEMMA ReplayStarts ==
  ASSUME NEW e \in Engines, e.entered.day = 0, at = [day |-> 1, clock |-> -1],
         ref = e, live = NewParity(e), brought = e.trades
  PROVE  ReplayInv
<1>1. PICK trades \in Seq(TradeRecords) : trades = e.trades
  BY DEF Engines
<1>2. Len(trades) \in Nat /\ Begun(trades) /\ brought = trades
  BY <1>1, LenProperties DEF Begun
<1>3. PICK none : none = [d \in 1 .. ReplayDays |-> 0]
  OBVIOUS
<1>4. /\ none \in [1 .. ReplayDays -> Int] /\ none \in [1 .. ReplayDays -> Nat]
      /\ \A d \in 1 .. ReplayDays : none[d] = 0
  BY <1>3
<1>5. live = [engine |-> e, stop |-> NoStop, realised |-> none, entered |-> none, refused |-> FALSE]
  BY <1>3 DEF NewParity
<1>6. /\ live \in Lives /\ live.engine = e /\ live.stop = NoStop
      /\ \A d \in 1 .. ReplayDays : live.realised[d] = 0
  BY <1>4, <1>5 DEF Lives
<1>7. at \in [day : 1 .. ReplayDays, clock : Clocks \cup {-1}] /\ at.day = 1 /\ at.clock = -1
  BY ReplayAssumption
<1>8. Ended(trades, at)
  BY <1>2 DEF Ended
<1>9. Agree(ref, live.engine) /\ SameOutcomes(ref.trades, live.engine.trades)
  BY <1>6 DEF Agree, SameOutcomes
<1>10. \A d \in 1 .. ReplayDays : WithinCap(live, d)
  <2>1. PICK b \in Tape : b.open + Slip \in Nat
    BY ReplayAssumption, BarsHold DEF Slip
  <2>2. 0 > -LossLimit - WorstTrade(b.open + Slip)
    <3>1. PICK worst \in Nat, limit \in Nat \ {0} : worst = WorstTrade(b.open + Slip) /\ limit = LossLimit
      BY <2>1, WorstIs, LimitsHold
    <3> QED
      BY <3>1
  <2> QED
    BY <1>6, <2>2 DEF WithinCap
<1>11. CoveredBy(live, at.day)
  BY <1>6, <1>10 DEF CoveredBy
<1> QED
  BY <1>1, <1>2, <1>6, <1>7, <1>8, <1>9, <1>11 DEF ReplayInv, ReplaysExplained, Cutoff

LEMMA ReplayStep ==
  ASSUME ReplayInv, NEW when \in BarTimes, NEW bar \in Tape, NEW reading \in Readings,
         NEW readingLive \in Readings, ReplayBar(when, bar, reading, readingLive)
  PROVE  ReplayInv'
<1>1. PICK e, r, last : e = ref /\ r = live /\ last = at
  OBVIOUS
<1>2. e \in Engines /\ r \in Lives /\ last \in [day : 1 .. ReplayDays, clock : Clocks \cup {-1}]
  BY <1>1 DEF ReplayInv
<1>3. PICK g : g = ReferenceBar(e, when, bar, reading)
  OBVIOUS
<1>4. PICK f : f = ParityBar(r, when, bar, readingLive)
  OBVIOUS
<1>5. at' = when /\ ref' = g /\ live' = f /\ brought' = brought
  BY <1>1, <1>3, <1>4 DEF ReplayBar
<1>0. Begun(e.trades) /\ Begun(r.engine.trades)
  BY <1>1 DEF ReplayInv
<1>6. /\ last.day \in 1 .. ReplayDays /\ last.clock \in Clocks \cup {-1} /\ last.clock \in Int
      /\ when.day \in 1 .. ReplayDays /\ when.clock \in Clocks /\ when.clock \in Int
  <2>1. Clocks \subseteq Int /\ -1 \in Int
    BY ReplayAssumption
  <2> QED
    BY <1>2, <2>1 DEF BarTimes
<1>7. (when.day = last.day /\ when.clock > last.clock) \/ when.day = last.day + 1
  BY <1>1 DEF ReplayBar
<1>8. ~NotAfter(when, last)
  BY <1>6, <1>7 DEF NotAfter
<1>9. CoveredBy(r, when.day)
  <2>1. CoveredBy(r, last.day)
    BY <1>1 DEF ReplayInv
  <2>2. CASE when.day = last.day
    BY <2>1, <2>2
  <2>3. CASE when.day = last.day + 1
    <3>1. r.realised[when.day] = 0 /\ 0 > -LossLimit
      BY <1>6, <2>1, <2>3, LimitsHold DEF CoveredBy
    <3>2. \A d \in 1 .. ReplayDays : d > when.day => r.realised[d] = 0
      BY <1>6, <2>1, <2>3 DEF CoveredBy
    <3> QED
      BY <2>1, <3>1, <3>2 DEF CoveredBy
  <2> QED
    BY <1>7, <2>2, <2>3
<1>10. /\ f \in Lives /\ CoveredBy(f, when.day)
       /\ ~HoldOvernight /\ when.clock >= Cutoff => f.engine.position = "NONE"
  BY <1>0, <1>4, <1>9, <1>2, BarKeepsCover
<1>11. /\ Adds(r.engine.trades, f.engine.trades, when)
       /\ r.refused => f.refused
  BY <1>0, <1>4, <1>2, BarAdds
<1>12. g \in Engines /\ Adds(e.trades, g.trades, when)
  BY <1>3, <1>2, ReferenceAdds
<1>13. /\ e.trades \in Seq(TradeRecords) /\ r.engine.trades \in Seq(TradeRecords)
       /\ when \in ReplayDates
  BY <1>2, BarsHold DEF Lives, Engines
<1>14. Ended(e.trades, last) /\ Ended(r.engine.trades, last)
  BY <1>1 DEF ReplayInv
<1>15. Ended(g.trades, when) /\ Ended(f.engine.trades, when)
  BY <1>6, <1>8, <1>11, <1>12, <1>13, <1>14, EndedStays
<1>16. Skipped(f) = {} => Skipped(r) = {}
  <2>1. \A i \in DOMAIN r.engine.trades : i \in DOMAIN f.engine.trades /\ f.engine.trades[i] = r.engine.trades[i]
    <3>1. /\ f.engine.trades \in Seq(TradeRecords)
          /\ Len(r.engine.trades) \in Nat /\ Len(f.engine.trades) \in Nat
          /\ Len(f.engine.trades) = Len(r.engine.trades) \/ Len(f.engine.trades) = Len(r.engine.trades) + 1
          /\ \A i \in 1 .. Len(r.engine.trades) : f.engine.trades[i] = r.engine.trades[i]
      BY <1>11, <1>13, AddsMeans
    <3>2. DOMAIN r.engine.trades = 1 .. Len(r.engine.trades) /\ DOMAIN f.engine.trades = 1 .. Len(f.engine.trades)
      BY <1>13, <3>1, LenProperties
    <3> QED
      BY <3>1, <3>2
  <2>2. /\ OwnTrades(r.engine.trades) \subseteq OwnTrades(f.engine.trades)
        /\ OwnTrades(r.engine.trades) \subseteq DOMAIN r.engine.trades
    BY <1>0, <1>11, <1>13, AddsKeepsBegun DEF OwnTrades
  <2> QED
    BY <2>1, <2>2 DEF Skipped
<1>17. ASSUME ~f.refused, Skipped(f) = {}
       PROVE  \/ Agree(g, f.engine) /\ SameOutcomes(g.trades, f.engine.trades)
              \/ Diverged(g.trades, f.engine.trades)
  <2>1. ~r.refused /\ Skipped(r) = {}
    BY <1>11, <1>16, <1>17
  <2>2. readingLive = reading
    BY <1>1, <2>1 DEF ReplayBar
  <2>3. \/ Agree(e, r.engine) /\ SameOutcomes(e.trades, r.engine.trades)
        \/ Diverged(e.trades, r.engine.trades)
    BY <1>1, <2>1 DEF ReplayInv, ReplaysExplained
  <2>4. CASE Agree(e, r.engine) /\ SameOutcomes(e.trades, r.engine.trades)
    BY <1>0, <1>3, <1>4, <1>17, <1>2, <2>2, <2>4, BarsAgree
  <2>5. CASE Diverged(e.trades, r.engine.trades)
    BY <1>8, <1>11, <1>12, <1>13, <1>14, <2>5, DivergedStays
  <2> QED
    BY <2>3, <2>4, <2>5
<1>18. ReplaysExplained'
  <2>1. /\ Skipped(live)' = Skipped(f)
        /\ Diverged(g.trades, f.engine.trades) => Diverged(ref.trades, live.engine.trades)'
    BY <1>5 DEF Skipped, OwnTrades, Diverged
  <2> QED
    BY <1>5, <1>17, <2>1 DEF ReplaysExplained
<1>19. at' \in [day : 1 .. ReplayDays, clock : Clocks \cup {-1}]
  BY <1>5, <1>6 DEF BarTimes
<1>20. ref' \in Engines
  <2>1. ref' = g
    BY <1>5
  <2>2. g \in Engines
    BY <1>12
  <2> QED
    BY <2>1, <2>2
<1>21. /\ live' \in Lives
       /\ ~HoldOvernight /\ when.clock >= Cutoff => live'.engine.position = "NONE"
  <2>1. live' = f
    BY <1>5
  <2> QED
    BY <1>10, <2>1
<1>22. at' = when
  BY <1>5
<1>23. Ended(ref.trades, at)' /\ Ended(live.engine.trades, at)'
  BY <1>5, <1>15 DEF Ended
<1>24. CoveredBy(live, at.day)'
  <2>1. ASSUME NEW d \in 1 .. ReplayDays PROVE WithinCap(live, d)'
    <3>1. WithinCap(f, d)
      BY <1>10 DEF CoveredBy
    <3> QED
      BY <1>5, <3>1 DEF WithinCap, OwnTrades
  <2> QED
    BY <1>5, <1>10, <2>1 DEF CoveredBy
<1>25. Begun(ref.trades)' /\ Begun(live.engine.trades)'
  <2>1. Begun(g.trades) /\ Begun(f.engine.trades)
    BY <1>0, <1>11, <1>12, <1>13, AddsKeepsBegun
  <2> QED
    BY <1>5, <2>1 DEF Begun
<1> QED
  BY <1>18, <1>19, <1>20, <1>21, <1>22, <1>23, <1>24, <1>25 DEF ReplayInv

LEMMA ReplaySteps == ReplayInv /\ [ReplayNext]_replayVars => ReplayInv'
<1> SUFFICES ASSUME ReplayInv, [ReplayNext]_replayVars PROVE ReplayInv'
  OBVIOUS
<1>1. CASE UNCHANGED replayVars
  <2>1. /\ Begun(ref.trades)' /\ Begun(live.engine.trades)'
        /\ Ended(ref.trades, at)' /\ Ended(live.engine.trades, at)'
    BY <1>1 DEF replayVars, ReplayInv, Begun, Ended
  <2>2. CoveredBy(live, at.day)'
    <3>1. ASSUME NEW d \in 1 .. ReplayDays PROVE WithinCap(live, d)'
      <4>1. WithinCap(live, d)
        BY DEF ReplayInv, CoveredBy
      <4> QED
        BY <1>1, <4>1 DEF replayVars, WithinCap, OwnTrades
    <3> QED
      BY <1>1, <3>1 DEF replayVars, ReplayInv, CoveredBy
  <2>3. ReplaysExplained'
    <3>1. /\ Skipped(live)' = Skipped(live)
          /\ Diverged(ref.trades, live.engine.trades) => Diverged(ref.trades, live.engine.trades)'
      BY <1>1 DEF replayVars, Skipped, OwnTrades, Diverged
    <3> QED
      BY <1>1, <3>1 DEF replayVars, ReplayInv, ReplaysExplained
  <2> QED
    BY <1>1, <2>1, <2>2, <2>3 DEF replayVars, ReplayInv
<1>2. CASE ReplayNext
  <2>1. PICK when \in BarTimes, bar \in Tape, reading \in Readings, readingLive \in Readings :
          ReplayBar(when, bar, reading, readingLive)
    BY <1>2 DEF ReplayNext, BarTimes
  <2> QED
    BY <2>1, ReplayStep
<1> QED
  BY <1>1, <1>2

LEMMA ReplayTells == ReplayInv => ReplayTypeOK /\ LossesStayCapped /\ DifferencesExplained
<1> SUFFICES ASSUME ReplayInv PROVE ReplayTypeOK /\ LossesStayCapped /\ DifferencesExplained
  OBVIOUS
<1>1. ReplayTypeOK
  BY DEF ReplayInv, ReplayTypeOK, Lives, Begun
<1>2. LossesStayCapped
  BY DEF ReplayInv, LossesStayCapped, CoveredBy, WithinCap, EndedOn
<1>3. DifferencesExplained
  <2> SUFFICES ASSUME ~live.refused, Skipped(live) = {}, SameBars(ref.trades, live.engine.trades)
               PROVE  /\ SameOutcomes(ref.trades, live.engine.trades)
                      /\ <<ref.position, ref.pending, ref.fill>> =
                           <<live.engine.position, live.engine.pending, live.engine.fill>>
    BY DEF DifferencesExplained
  <2>1. Len(ref.trades) = Len(live.engine.trades) /\ Len(ref.trades) \in Nat
    BY LenProperties DEF SameBars, ReplayInv, Engines
  <2>2. ~Diverged(ref.trades, live.engine.trades)
    BY <2>1 DEF Diverged, SameBars
  <2> QED
    BY <2>2 DEF ReplayInv, ReplaysExplained, Agree
<1> QED
  BY <1>1, <1>2, <1>3

LEMMA ReplayInitially == ReplayInit => ReplayInv
<1> SUFFICES ASSUME ReplayInit PROVE ReplayInv
  OBVIOUS
<1>1. PICK e \in {FreshEngine} \cup SavedStates :
        /\ at = [day |-> 1, clock |-> -1] /\ ref = e /\ live = NewParity(e) /\ brought = e.trades
  BY DEF ReplayInit
<1>2. e \in Engines /\ e.entered.day = 0
  BY FreshEngineIs, SavedAssumption
<1> QED
  BY <1>1, <1>2, ReplayStarts

\* The live-parity replay keeps its losses capped and its position covered, and what it does
\* differently from the reference is explained; for any series of bars, caps and stop.
THEOREM ReplaysAreSound == ReplaySpec => [](ReplayTypeOK /\ LossesStayCapped /\ DifferencesExplained)
  BY ReplayInitially, ReplaySteps, ReplayTells, PTL DEF ReplaySpec

-----------------------------------------------------------------------------
\* Recursion along a sequence.

\* What holds of 0 and, with a number below n, of the next holds of n.
LEMMA CountingInduction ==
  ASSUME NEW n \in Nat, NEW H, 0 \in H, \A k \in 0 .. n - 1 : k \in H => k + 1 \in H
  PROVE  n \in H
<1> DEFINE left == {k \in 0 .. n : k \notin H}
<1>1. SUFFICES ASSUME left # {} PROVE FALSE
  BY <1>1
<1>2. left \in SUBSET Nat
  OBVIOUS
<1>3. PICK k \in left : \A j \in left : k <= j
  BY <1>1, <1>2, LeastExists
<1>4. k \in 1 .. n /\ k - 1 \in 0 .. n - 1
  BY <1>3
<1>5. k - 1 \in H
  <2>1. CASE k - 1 \in left
    BY <1>3, <1>4, <2>1
  <2>2. CASE k - 1 \notin left
    BY <1>4, <2>2
  <2> QED
    BY <2>1, <2>2
<1> QED
  BY <1>3, <1>4, <1>5

\* A recursion along 1 .. n whose steps stay among the states X defines a function.
Recursion(n, X, base, step) == n \in Nat /\ base \in X /\ step \in [1 .. n -> [X -> X]]

Recursive(h, n, X, base, step) ==
  h \in [0 .. n -> X] /\ h[0] = base /\ \A k \in 1 .. n : h[k] = step[k][h[k - 1]]

LEMMA RecursionExists ==
  ASSUME NEW n, NEW X, NEW base, NEW step, Recursion(n, X, base, step)
  PROVE  \E h : Recursive(h, n, X, base, step)
<1> USE DEF Recursion
<1> DEFINE H == {m \in 0 .. n : \E h \in [0 .. n -> X] :
                   h[0] = base /\ \A k \in 1 .. m : h[k] = step[k][h[k - 1]]}
<1>1. 0 \in H
  <2> DEFINE h == [k \in 0 .. n |-> base]
  <2>1. h \in [0 .. n -> X] /\ h[0] = base /\ \A k \in 1 .. 0 : h[k] = step[k][h[k - 1]]
    OBVIOUS
  <2> HIDE DEF h
  <2> QED
    BY <2>1
<1>2. ASSUME NEW m \in 0 .. n - 1, m \in H PROVE m + 1 \in H
  <2>1. PICK h \in [0 .. n -> X] : h[0] = base /\ \A k \in 1 .. m : h[k] = step[k][h[k - 1]]
    BY <1>2
  <2> DEFINE g == [k \in 0 .. n |-> IF k <= m THEN h[k] ELSE step[m + 1][h[m]]]
  <2>2. step[m + 1] \in [X -> X] /\ h[m] \in X
    BY <2>1
  <2>3. g \in [0 .. n -> X] /\ g[0] = base
    BY <2>1, <2>2
  <2>4. ASSUME NEW k \in 1 .. m + 1 PROVE g[k] = step[k][g[k - 1]]
    <3>1. k \in 0 .. n /\ k - 1 \in 0 .. n /\ k - 1 <= m
      OBVIOUS
    <3>2. g[k - 1] = h[k - 1]
      BY <3>1
    <3>3. CASE k <= m
      BY <2>1, <3>1, <3>2, <3>3
    <3>4. CASE k = m + 1
      BY <3>1, <3>2, <3>4
    <3> QED
      BY <3>3, <3>4
  <2>5. m + 1 \in 0 .. n
    OBVIOUS
  <2> HIDE DEF g
  <2> QED
    BY <2>3, <2>4, <2>5
<1> HIDE DEF H
<1>3. n \in H
  BY <1>1, <1>2, CountingInduction
<1> QED
  BY <1>3 DEF H, Recursive

-----------------------------------------------------------------------------
\* The report of a replay.

LEMMA DayOfReport == \A day \in 1 .. ReplayDays : day \in 0 .. ReplayDays
  BY ReplayAssumption

LEMMA LargerOf == ASSUME NEW a \in Int, NEW b \in Int PROVE Max({a, b}) = IF a >= b THEN a ELSE b
  BY DEF Max

LEMMA GreatestIs ==
  ASSUME NEW S \in SUBSET Int, NEW a \in S, \A x \in S : x <= a
  PROVE  Max(S) = a
<1>1. \A x \in S : x = a \/ ~(\A y \in S : x >= y)
  OBVIOUS
<1> QED
  BY <1>1 DEF Max

ReportRecords ==
  [equity : Int, peak : Nat \ {0}, wins : Nat, drawdown : Int, daily : [0 .. ReplayDays -> Int]]

LEMMA FallsTyped == ASSUME NEW p \in Nat \ {0}, NEW e \in Int PROVE Fall(p, e) \in Int
<1>1. PICK fallen \in Int : fallen = (p - e) * 10000
  OBVIOUS
<1> QED
  BY <1>1 DEF Fall

LEMMA NetTyped == ASSUME NEW trade \in TradeRecords PROVE Net(trade) \in Int
<1>1. PICK pts \in Int : pts = trade.pts - Commission
  BY LimitsHold DEF TradeRecords
<1> QED
  BY <1>1, LimitsHold, Products DEF Net

LEMMA NoTradesTyped == NoTrades \in ReportRecords
  BY DEF NoTrades, ReportRecords, Capital

\* What one trade does to a report.
LEMMA ReportedDoes ==
  ASSUME NEW m \in ReportRecords, NEW trade \in TradeRecords
  PROVE  LET n == Reported(m, trade)
         IN /\ n \in ReportRecords
            /\ n.equity = m.equity + Net(trade)
            /\ n.peak = (IF m.peak >= n.equity THEN m.peak ELSE n.equity)
            /\ n.drawdown = (IF m.drawdown >= Fall(n.peak, n.equity) THEN m.drawdown ELSE Fall(n.peak, n.equity))
            /\ n.daily = [m.daily EXCEPT ![trade.exited.day] = @ + Net(trade)]
<1>1. PICK net \in Int : net = Net(trade)
  BY NetTyped
<1>2. /\ m.equity \in Int /\ m.peak \in Nat \ {0} /\ m.wins \in Nat /\ m.drawdown \in Int
      /\ m.daily \in [0 .. ReplayDays -> Int]
  BY DEF ReportRecords
<1>3. PICK equity \in Int : equity = m.equity + net
  BY <1>2
<1>4. PICK peak \in Nat \ {0} : peak = Max({m.peak, equity}) /\ peak = (IF m.peak >= equity THEN m.peak ELSE equity)
  <2>1. PICK before \in Nat \ {0} : before = m.peak
    BY <1>2
  <2>2. Max({before, equity}) = IF before >= equity THEN before ELSE equity
    BY LargerOf
  <2>3. (IF before >= equity THEN before ELSE equity) \in Nat \ {0}
    OBVIOUS
  <2> QED
    BY <2>1, <2>2, <2>3
<1>5. PICK fall \in Int : fall = Fall(peak, equity)
  BY FallsTyped
<1>6. PICK worst \in Int : worst = Max({m.drawdown, fall}) /\ worst = (IF m.drawdown >= fall THEN m.drawdown ELSE fall)
  BY <1>2, LargerOf
<1>7. PICK daily : daily = [m.daily EXCEPT ![trade.exited.day] = @ + net]
  OBVIOUS
<1>8. daily \in [0 .. ReplayDays -> Int]
  <2>1. PICK day : day = trade.exited.day
    OBVIOUS
  <2>2. PICK before \in [0 .. ReplayDays -> Int] : before = m.daily
    BY <1>2
  <2>3. daily = [before EXCEPT ![day] = @ + net]
    BY <1>7, <2>1, <2>2
  <2>4. CASE day \in 0 .. ReplayDays
    BY <1>1, <2>2, <2>3, <2>4, TallyTypes
  <2>5. CASE day \notin 0 .. ReplayDays
    BY <2>2, <2>3, <2>5
  <2> QED
    BY <2>4, <2>5
<1>9. PICK wins \in Nat : wins = m.wins + (IF net > 0 THEN 1 ELSE 0)
  BY <1>2
<1>10. Reported(m, trade) =
         [equity |-> equity, peak |-> peak, wins |-> wins, drawdown |-> worst, daily |-> daily]
  BY <1>1, <1>3, <1>4, <1>5, <1>6, <1>7, <1>9 DEF Reported
<1> QED
  BY <1>1, <1>3, <1>4, <1>5, <1>6, <1>7, <1>8, <1>10 DEF ReportRecords

\* The reports of the first trades, one after the other.
ReportsAlong(r, trades) ==
  /\ r \in [0 .. Len(trades) -> ReportRecords]
  /\ r[0] = NoTrades /\ \A k \in 1 .. Len(trades) : r[k] = Reported(r[k - 1], trades[k])

LEMMA ReportsExist ==
  ASSUME NEW trades \in Seq(TradeRecords)
  PROVE  \E r : ReportsAlong(r, trades)
<1> DEFINE n == Len(trades)
           step == [k \in 1 .. n |-> [m \in ReportRecords |-> Reported(m, trades[k])]]
<1>1. n \in Nat /\ \A k \in 1 .. n : trades[k] \in TradeRecords
  BY LenProperties, ElementOfSeq
<1>2. \A k \in 1 .. n, m \in ReportRecords : Reported(m, trades[k]) \in ReportRecords
  BY <1>1, ReportedDoes
<1>3. step \in [1 .. n -> [ReportRecords -> ReportRecords]]
  BY <1>2
<1>4. Recursion(n, ReportRecords, NoTrades, step)
  BY <1>1, <1>3, NoTradesTyped DEF Recursion
<1>5. \A k \in 1 .. n, m \in ReportRecords : step[k][m] = Reported(m, trades[k])
  OBVIOUS
<1> HIDE DEF step
<1>6. PICK r : Recursive(r, n, ReportRecords, NoTrades, step)
  BY <1>4, RecursionExists
<1>7. \A k \in 1 .. n : k - 1 \in 0 .. n
  BY <1>1
<1>8. ReportsAlong(r, trades)
  BY <1>5, <1>6, <1>7 DEF ReportsAlong, Recursive
<1> QED
  BY <1>8

LEMMA MetricsIs ==
  ASSUME NEW trades, Len(trades) \in Nat, NEW r, ReportsAlong(r, trades)
  PROVE  Metrics(trades) = r[Len(trades)]
<1> DEFINE n == Len(trades)
           Says(f) == f = [k \in 0 .. n |-> IF k = 0 THEN NoTrades ELSE Reported(f[k - 1], trades[k])]
           f == CHOOSE f : Says(f)
<1>1. Says(r)
  <2>1. r = [k \in 0 .. n |-> r[k]]
    BY DEF ReportsAlong
  <2>2. \A k \in 0 .. n : r[k] = IF k = 0 THEN NoTrades ELSE Reported(r[k - 1], trades[k])
    BY DEF ReportsAlong
  <2> QED
    BY <2>1, <2>2
<1>2. Says(f)
  BY <1>1
<1>3. Metrics(trades) = f[n]
  BY DEF Metrics
<1>4. f[0] = NoTrades /\ \A k \in 1 .. n : f[k] = Reported(f[k - 1], trades[k])
  <2> HIDE DEF f
  <2>1. \A k \in 0 .. n : f[k] = IF k = 0 THEN NoTrades ELSE Reported(f[k - 1], trades[k])
    BY <1>2
  <2> QED
    BY <2>1
<1> HIDE DEF f
<1> DEFINE H == {k \in 0 .. n : f[k] = r[k]}
<1>5. 0 \in H
  BY <1>4 DEF ReportsAlong
<1>6. ASSUME NEW k \in 0 .. n - 1, k \in H PROVE k + 1 \in H
  <2>1. k + 1 \in 1 .. n /\ (k + 1) - 1 = k
    OBVIOUS
  <2> QED
    BY <1>4, <1>6, <2>1 DEF ReportsAlong
<1> HIDE DEF H
<1>7. n \in H
  BY <1>5, <1>6, CountingInduction
<1> QED
  BY <1>3, <1>7 DEF H

LEMMA MetricsOfPrefix ==
  ASSUME NEW trades \in Seq(TradeRecords), NEW r, ReportsAlong(r, trades), NEW m \in 0 .. Len(trades)
  PROVE  Metrics(SubSeq(trades, 1, m)) = r[m]
<1>1. PICK first : first = SubSeq(trades, 1, m)
  OBVIOUS
<1>2. Len(trades) \in Nat /\ Len(first) = m /\ \A k \in 1 .. m : first[k] = trades[k]
  BY <1>1, LenProperties
<1>3. PICK q : q = [k \in 0 .. m |-> r[k]]
  OBVIOUS
<1>4. 0 .. m \subseteq 0 .. Len(trades) /\ 1 .. m \subseteq 1 .. Len(trades) /\ \A k \in 1 .. m : k - 1 \in 0 .. m
  BY <1>2
<1>5. ReportsAlong(q, first)
  <2>1. q \in [0 .. m -> ReportRecords] /\ q[0] = NoTrades
    BY <1>2, <1>3, <1>4 DEF ReportsAlong
  <2>2. ASSUME NEW k \in 1 .. m PROVE q[k] = Reported(q[k - 1], first[k])
    <3>1. q[k] = r[k] /\ q[k - 1] = r[k - 1] /\ first[k] = trades[k]
      BY <1>2, <1>3, <1>4
    <3> QED
      BY <1>4, <3>1 DEF ReportsAlong
  <2> QED
    BY <1>2, <2>1, <2>2 DEF ReportsAlong
<1> QED
  BY <1>1, <1>2, <1>3, <1>5, MetricsIs

LEMMA MetricsAppend ==
  ASSUME NEW trades \in Seq(TradeRecords), NEW trade \in TradeRecords
  PROVE  /\ Metrics(trades) \in ReportRecords
         /\ Metrics(Append(trades, trade)) = Reported(Metrics(trades), trade)
<1>1. PICK more \in Seq(TradeRecords) : more = Append(trades, trade)
  BY AppendProperties
<1>2. /\ Len(trades) \in Nat /\ Len(more) = Len(trades) + 1 /\ more[Len(trades) + 1] = trade
      /\ \A k \in 1 .. Len(trades) : more[k] = trades[k]
  BY <1>1, AppendProperties, LenProperties
<1>3. PICK r : ReportsAlong(r, more)
  BY ReportsExist
<1>4. Metrics(more) = r[Len(trades) + 1]
  BY <1>2, <1>3, MetricsIs
<1>5. PICK q : q = [k \in 0 .. Len(trades) |-> r[k]]
  OBVIOUS
<1>6. /\ 0 .. Len(trades) \subseteq 0 .. Len(more) /\ 1 .. Len(trades) \subseteq 1 .. Len(more)
      /\ \A k \in 1 .. Len(trades) : k - 1 \in 0 .. Len(trades)
      /\ Len(trades) + 1 \in 1 .. Len(more) /\ (Len(trades) + 1) - 1 = Len(trades)
      /\ Len(trades) \in 0 .. Len(more) /\ Len(trades) \in 0 .. Len(trades)
  BY <1>2
<1>7. ReportsAlong(q, trades)
  BY <1>2, <1>3, <1>5, <1>6 DEF ReportsAlong
<1>8. Metrics(trades) = r[Len(trades)]
  BY <1>2, <1>5, <1>6, <1>7, MetricsIs
<1>9. r[Len(trades)] \in ReportRecords /\ r[Len(trades) + 1] = Reported(r[Len(trades)], trade)
  BY <1>2, <1>3, <1>6 DEF ReportsAlong
<1> QED
  BY <1>1, <1>4, <1>8, <1>9

\* What a quotient is.
LEMMA QuotientIs ==
  ASSUME NEW x \in Int, NEW a \in Nat \ {0}
  PROVE  x \div a \in Int /\ (x \div a) * a <= x /\ x < (x \div a) * a + a
  OBVIOUS

LEMMA QuotientAtLeast ==
  ASSUME NEW x \in Int, NEW a \in Nat \ {0}, NEW q \in Int, q * a <= x
  PROVE  q <= x \div a
<1>1. PICK d \in Int : d = x \div a
  OBVIOUS
<1>2. x < d * a + a
  BY <1>1, QuotientIs
<1>3. SUFFICES ASSUME d + 1 <= q PROVE FALSE
  BY <1>1
<1>4. (d + 1) * a <= q * a
  BY <1>3
<1>5. (d + 1) * a = d * a + a
  OBVIOUS
<1> QED
  BY <1>2, <1>4, <1>5

\* Of two heights the fall from the greater, to what is left, is the greater share.
LEMMA FallGrows ==
  ASSUME NEW a \in Nat \ {0}, NEW p \in Nat \ {0}, a <= p, NEW e \in Nat
  PROVE  Fall(a, e) <= Fall(p, e)
<1>1. PICK q \in Int : q = ((a - e) * 10000) \div a
  OBVIOUS
<1>2. q * a <= (a - e) * 10000
  BY <1>1, QuotientIs
<1>3. PICK left \in Int : left = 10000 - q
  OBVIOUS
<1>4. left * a >= 10000 * e
  <2>1. left * a = 10000 * a - q * a
    BY <1>3
  <2> QED
    BY <1>2, <2>1
<1>5. left >= 0
  <2>1. SUFFICES ASSUME left <= -1 PROVE FALSE
    OBVIOUS
  <2>2. left * a <= (-1) * a
    BY <2>1
  <2> QED
    BY <1>4, <2>2
<1>6. left * p >= left * a
  BY <1>5
<1>7. q * p = 10000 * p - left * p
  BY <1>3
<1>8. q * p <= (p - e) * 10000
  BY <1>4, <1>6, <1>7
<1>9. q <= ((p - e) * 10000) \div p
  BY <1>8, QuotientAtLeast
<1> QED
  BY <1>1, <1>9 DEF Fall

\* Of the first points of an equity curve: the peak is their highest, and the drawdown the
\* largest fall between two of them.
PeakIsHighest(r, k) ==
  /\ \E i \in 0 .. k : r[k].peak = r[i].equity
  /\ \A i \in 0 .. k : r[i].equity <= r[k].peak

FallCounts(r, i, j) ==
  /\ i <= j /\ r[i].equity > 0
  /\ r[j].equity < 0 => \A l \in 0 .. j : r[l].equity <= r[i].equity

DrawdownIsLargest(r, k) ==
  /\ \E i, j \in 0 .. k : FallCounts(r, i, j) /\ r[k].drawdown = Fall(r[i].equity, r[j].equity)
  /\ \A i, j \in 0 .. k : FallCounts(r, i, j) => Fall(r[i].equity, r[j].equity) <= r[k].drawdown

LEMMA ReportsAlongStep ==
  ASSUME NEW trades \in Seq(TradeRecords), NEW r, ReportsAlong(r, trades), NEW k \in 0 .. Len(trades) - 1
  PROVE  /\ k + 1 \in 0 .. Len(trades) /\ r[k] \in ReportRecords /\ r[k + 1] \in ReportRecords
         /\ r[k + 1].peak = (IF r[k].peak >= r[k + 1].equity THEN r[k].peak ELSE r[k + 1].equity)
         /\ r[k + 1].drawdown =
              (IF r[k].drawdown >= Fall(r[k + 1].peak, r[k + 1].equity) THEN r[k].drawdown
               ELSE Fall(r[k + 1].peak, r[k + 1].equity))
<1>1. /\ k \in 0 .. Len(trades) /\ k + 1 \in 1 .. Len(trades) /\ k + 1 \in 0 .. Len(trades)
      /\ (k + 1) - 1 = k
  BY LenProperties
<1>2. trades[k + 1] \in TradeRecords
  BY <1>1, ElementOfSeq
<1>3. r[k] \in ReportRecords /\ r[k + 1] = Reported(r[k], trades[k + 1])
  BY <1>1 DEF ReportsAlong
<1>4. PICK m \in ReportRecords, trade \in TradeRecords : m = r[k] /\ trade = trades[k + 1]
  BY <1>2, <1>3
<1>5. PICK n : n = Reported(m, trade)
  OBVIOUS
<1>6. /\ n \in ReportRecords
      /\ n.peak = (IF m.peak >= n.equity THEN m.peak ELSE n.equity)
      /\ n.drawdown = (IF m.drawdown >= Fall(n.peak, n.equity) THEN m.drawdown ELSE Fall(n.peak, n.equity))
  BY <1>5, ReportedDoes
<1>7. r[k + 1] = n
  BY <1>3, <1>4, <1>5
<1> QED
  BY <1>1, <1>3, <1>4, <1>6, <1>7

LEMMA PeakKept ==
  ASSUME NEW trades \in Seq(TradeRecords), NEW r, ReportsAlong(r, trades), NEW k \in 0 .. Len(trades) - 1,
         PeakIsHighest(r, k)
  PROVE  PeakIsHighest(r, k + 1)
<1>1. /\ k \in 0 .. Len(trades) /\ k + 1 \in 0 .. Len(trades) /\ r[k] \in ReportRecords
      /\ r[k + 1].equity \in Int /\ r[k].peak \in Int
      /\ r[k + 1].peak = (IF r[k].peak >= r[k + 1].equity THEN r[k].peak ELSE r[k + 1].equity)
  BY LenProperties, ReportsAlongStep DEF ReportRecords
<1>2. k \in Nat /\ 0 .. k + 1 = (0 .. k) \cup {k + 1}
  BY LenProperties
<1>3. \A i \in 0 .. k : r[i].equity \in Int
  BY <1>1 DEF ReportsAlong, ReportRecords
<1> QED
  BY <1>1, <1>2, <1>3 DEF PeakIsHighest

LEMMA DrawdownKept ==
  ASSUME NEW trades \in Seq(TradeRecords), NEW r, ReportsAlong(r, trades), NEW k \in 0 .. Len(trades) - 1,
         PeakIsHighest(r, k + 1), DrawdownIsLargest(r, k)
  PROVE  DrawdownIsLargest(r, k + 1)
<1>1. PICK peak \in Nat \ {0}, e \in Int, before \in Int, worst \in Int :
        /\ peak = r[k + 1].peak /\ e = r[k + 1].equity /\ before = r[k].drawdown /\ worst = r[k + 1].drawdown
  BY ReportsAlongStep DEF ReportRecords
<1>2. PICK fall \in Int : fall = Fall(peak, e)
  BY FallsTyped
<1>3. /\ peak = r[k + 1].peak /\ e = r[k + 1].equity /\ before = r[k].drawdown
      /\ worst = r[k + 1].drawdown /\ fall = Fall(peak, e)
      /\ worst = (IF before >= fall THEN before ELSE fall)
  BY <1>1, <1>2, ReportsAlongStep
<1>4. k \in Nat /\ 0 .. k + 1 = (0 .. k) \cup {k + 1} /\ k + 1 \in Nat
  BY LenProperties
<1>5. \A i \in 0 .. k + 1 : r[i].equity \in Int
  <2>1. 0 .. k + 1 \subseteq 0 .. Len(trades)
    BY LenProperties
  <2> QED
    BY <2>1 DEF ReportsAlong, ReportRecords
<1>6. PICK i \in 0 .. k + 1 : peak = r[i].equity
  BY <1>3 DEF PeakIsHighest
<1>7. FallCounts(r, i, k + 1)
  BY <1>3, <1>4, <1>6 DEF FallCounts, PeakIsHighest
<1>8. \E h, j \in 0 .. k + 1 : FallCounts(r, h, j) /\ worst = Fall(r[h].equity, r[j].equity)
  <2>1. CASE worst = before
    BY <1>3, <1>4, <2>1 DEF DrawdownIsLargest
  <2>2. CASE worst = fall
    BY <1>3, <1>4, <1>6, <1>7, <2>2
  <2> QED
    BY <1>3, <2>1, <2>2
<1>9. ASSUME NEW h \in 0 .. k + 1, NEW j \in 0 .. k + 1, FallCounts(r, h, j)
      PROVE  Fall(r[h].equity, r[j].equity) <= worst
  <2>1. CASE j \in 0 .. k
    <3>1. h \in 0 .. k
      BY <1>4, <1>9, <2>1 DEF FallCounts
    <3>2. Fall(r[h].equity, r[j].equity) <= before
      BY <1>3, <1>9, <2>1, <3>1 DEF DrawdownIsLargest
    <3>3. PICK share \in Int : share = Fall(r[h].equity, r[j].equity)
      <4>1. r[h].equity \in Nat \ {0} /\ r[j].equity \in Int
        BY <1>5, <1>9 DEF FallCounts
      <4> QED
        BY <4>1, FallsTyped
    <3> QED
      BY <1>3, <3>2, <3>3
  <2>2. CASE j = k + 1
    <3>1. PICK a \in Nat \ {0} : a = r[h].equity
      BY <1>5, <1>9 DEF FallCounts
    <3>2. a <= peak
      BY <1>3, <3>1 DEF PeakIsHighest
    <3>3. Fall(a, e) <= fall
      <4>1. CASE e >= 0
        BY <1>3, <3>2, <4>1, FallGrows
      <4>2. CASE e < 0
        <5>1. peak <= a
          BY <1>3, <1>6, <1>9, <2>2, <3>1, <4>2 DEF FallCounts
        <5>2. a = peak
          BY <3>2, <5>1
        <5> QED
          BY <1>3, <5>2
      <4> QED
        BY <4>1, <4>2
    <3>4. PICK share \in Int : share = Fall(a, e)
      BY FallsTyped
    <3> QED
      BY <1>3, <2>2, <3>1, <3>3, <3>4
  <2> QED
    BY <1>4, <2>1, <2>2
<1> QED
  BY <1>3, <1>8, <1>9 DEF DrawdownIsLargest

LEMMA DrawdownAlong ==
  ASSUME NEW trades \in Seq(TradeRecords), NEW r, ReportsAlong(r, trades)
  PROVE  DrawdownIsLargest(r, Len(trades))
<1> DEFINE n == Len(trades)
           H == {k \in 0 .. n : PeakIsHighest(r, k) /\ DrawdownIsLargest(r, k)}
<1>1. n \in Nat
  BY LenProperties
<1>2. 0 \in H
  <2>1. r[0].equity = 100000 /\ r[0].peak = 100000 /\ r[0].drawdown = 0
    BY DEF ReportsAlong, NoTrades, Capital
  <2>2. Fall(100000, 100000) = 0
    BY DEF Fall
  <2>3. 0 .. 0 = {0} /\ 0 \in 0 .. n
    BY <1>1
  <2>4. PeakIsHighest(r, 0)
    BY <2>1, <2>3 DEF PeakIsHighest
  <2>5. DrawdownIsLargest(r, 0)
    <3>1. FallCounts(r, 0, 0)
      BY <2>1 DEF FallCounts
    <3> QED
      BY <2>1, <2>2, <2>3, <3>1 DEF DrawdownIsLargest
  <2> QED
    BY <2>3, <2>4, <2>5
<1>3. ASSUME NEW k \in 0 .. n - 1, k \in H PROVE k + 1 \in H
  <2>1. k + 1 \in 0 .. n
    BY <1>1
  <2>2. PeakIsHighest(r, k + 1)
    BY <1>3, PeakKept
  <2>3. DrawdownIsLargest(r, k + 1)
    BY <1>3, <2>2, DrawdownKept
  <2> QED
    BY <2>1, <2>2, <2>3
<1> HIDE DEF H
<1>4. n \in H
  BY <1>1, <1>2, <1>3, CountingInduction
<1> QED
  BY <1>4 DEF H

\* The drawdown reported is the largest fall of the equity curve.
LEMMA DrawdownIsTold ==
  ASSUME NEW trades \in Seq(TradeRecords), NEW equity,
         equity = [i \in 0 .. Len(trades) |-> Metrics(SubSeq(trades, 1, i)).equity]
  PROVE  Metrics(trades).drawdown = Max({Fall(equity[p[1]], equity[p[2]]) : p \in Falls(equity)})
<1>1. PICK r : ReportsAlong(r, trades)
  BY ReportsExist
<1>2. Len(trades) \in Nat
  BY LenProperties
<1>3. DOMAIN equity = 0 .. Len(trades) /\ \A i \in 0 .. Len(trades) : equity[i] = r[i].equity
  BY <1>1, MetricsOfPrefix
<1>4. Metrics(trades) = r[Len(trades)]
  BY <1>1, <1>2, MetricsIs
<1>5. \A i \in 0 .. Len(trades) : equity[i] \in Int
  BY <1>1, <1>3 DEF ReportsAlong, ReportRecords
<1>6. \A i, j \in 0 .. Len(trades) : <<i, j>> \in Falls(equity) <=> FallCounts(r, i, j)
  <2> SUFFICES ASSUME NEW i \in 0 .. Len(trades), NEW j \in 0 .. Len(trades)
               PROVE  <<i, j>> \in Falls(equity) <=> FallCounts(r, i, j)
    OBVIOUS
  <2>1. 0 .. j \subseteq 0 .. Len(trades)
    BY <1>2
  <2> QED
    BY <1>3, <2>1 DEF Falls, FallCounts
<1>7. PICK falls : falls = {Fall(equity[p[1]], equity[p[2]]) : p \in Falls(equity)}
  OBVIOUS
<1>8. DrawdownIsLargest(r, Len(trades))
  BY <1>1, DrawdownAlong
<1>9. r[Len(trades)].drawdown \in falls
  <2>1. PICK i, j \in 0 .. Len(trades) : FallCounts(r, i, j) /\ r[Len(trades)].drawdown = Fall(r[i].equity, r[j].equity)
    BY <1>8 DEF DrawdownIsLargest
  <2>2. PICK p : p = <<i, j>>
    OBVIOUS
  <2>3. p \in Falls(equity) /\ r[Len(trades)].drawdown = Fall(equity[p[1]], equity[p[2]])
    BY <1>3, <1>6, <2>1, <2>2
  <2> QED
    BY <1>7, <2>3
<1>10. ASSUME NEW x \in falls PROVE x \in Int /\ x <= r[Len(trades)].drawdown
  <2>1. PICK p \in Falls(equity) : x = Fall(equity[p[1]], equity[p[2]])
    BY <1>7
  <2>2. PICK i, j \in 0 .. Len(trades) : p = <<i, j>> /\ equity[i] > 0
    BY <1>3 DEF Falls
  <2>3. FallCounts(r, i, j) /\ x = Fall(equity[i], equity[j])
    BY <1>6, <2>1, <2>2
  <2>4. equity[i] \in Nat \ {0} /\ equity[j] \in Int
    BY <1>5, <2>2
  <2>5. x \in Int
    BY <2>3, <2>4, FallsTyped
  <2>6. x <= r[Len(trades)].drawdown
    BY <1>3, <1>8, <2>3 DEF DrawdownIsLargest
  <2> QED
    BY <2>5, <2>6
<1>11. falls \in SUBSET Int
  BY <1>10
<1> QED
  BY <1>4, <1>7, <1>9, <1>10, <1>11, GreatestIs

-----------------------------------------------------------------------------
\* The report and the state of the live-parity replay.

EnteredOn(trades, day) == {i \in DOMAIN trades : trades[i].entered.day = day}
OpenedOn(e, day) == IF e.position # "NONE" /\ e.entered.day = day THEN 1 ELSE 0

\* Day by day, what is booked is the P&L of the replay's own trades that ended, and what is
\* counted the entries of the trades and of the position that is open.
DaysAdd(trades, realised) ==
  \A day \in 1 .. ReplayDays :
    Metrics(trades).daily[day] = Metrics(brought).daily[day] + realised[day]
BooksAgree(r) ==
  /\ DaysAdd(r.engine.trades, r.realised)
  /\ \A day \in 1 .. ReplayDays :
       r.entered[day] = Cardinality(EnteredOn(r.engine.trades, day)) + OpenedOn(r.engine, day)

LEMMA EntriesCounted ==
  ASSUME NEW trades \in Seq(TradeRecords), NEW day
  PROVE  IsFiniteSet(EnteredOn(trades, day)) /\ Cardinality(EnteredOn(trades, day)) \in Nat
<1>1. DOMAIN trades = 1 .. Len(trades) /\ Len(trades) \in Nat
  BY LenProperties
<1>2. IsFiniteSet(DOMAIN trades) /\ EnteredOn(trades, day) \subseteq DOMAIN trades
  BY <1>1, FS_Interval DEF EnteredOn
<1> QED
  BY <1>2, FS_Subset, FS_CardinalityType

LEMMA EntriesAppend ==
  ASSUME NEW trades \in Seq(TradeRecords), NEW trade \in TradeRecords, NEW day
  PROVE  Cardinality(EnteredOn(Append(trades, trade), day)) =
           Cardinality(EnteredOn(trades, day)) + (IF trade.entered.day = day THEN 1 ELSE 0)
<1>1. PICK more \in Seq(TradeRecords) : more = Append(trades, trade)
  BY AppendProperties
<1>2. /\ Len(trades) \in Nat /\ Len(more) = Len(trades) + 1 /\ more[Len(trades) + 1] = trade
      /\ \A k \in 1 .. Len(trades) : more[k] = trades[k]
      /\ DOMAIN trades = 1 .. Len(trades) /\ DOMAIN more = 1 .. Len(more)
  BY <1>1, AppendProperties, LenProperties
<1>3. PICK n : n = Len(trades) + 1
  OBVIOUS
<1>4. n \notin EnteredOn(trades, day) /\ 1 .. Len(more) = (1 .. Len(trades)) \cup {n}
  BY <1>2, <1>3 DEF EnteredOn
<1>5. EnteredOn(more, day) =
        IF trade.entered.day = day THEN EnteredOn(trades, day) \cup {n} ELSE EnteredOn(trades, day)
  BY <1>2, <1>3, <1>4 DEF EnteredOn
<1>6. IsFiniteSet(EnteredOn(trades, day)) /\ Cardinality(EnteredOn(trades, day)) \in Nat
  BY EntriesCounted
<1>7. Cardinality(EnteredOn(trades, day) \cup {n}) = Cardinality(EnteredOn(trades, day)) + 1
  BY <1>4, <1>6, FS_AddElement
<1> QED
  BY <1>1, <1>5, <1>6, <1>7

LEMMA FillCounts ==
  ASSUME NEW r \in Lives, NEW bar \in Tape, NEW when \in BarTimes
  PROVE  ParityFill(r, bar, when).entered =
           IF r.engine.pending # "NONE" /\ r.engine.position = "NONE" /\ MayEnter(r, when)
           THEN [r.entered EXCEPT ![when.day] = @ + 1] ELSE r.entered
<1>1. PICK fill, engine, stop : /\ fill = EntryFill(r.engine, bar)
                                /\ engine = Enter(r.engine, r.engine.pending, fill, fill, when)
                                /\ stop = StopAt(r.engine.pending, fill)
  OBVIOUS
<1>2. CASE r.engine.pending # "NONE" /\ r.engine.position = "NONE" /\ MayEnter(r, when)
  <2>1. ParityFill(r, bar, when) = [r EXCEPT !.engine = engine, !.stop = stop, !.entered[when.day] = @ + 1]
    BY <1>1, <1>2 DEF ParityFill
  <2> QED
    BY <1>2, <2>1 DEF Lives
<1>3. CASE ~(r.engine.pending # "NONE" /\ r.engine.position = "NONE" /\ MayEnter(r, when))
  BY <1>3 DEF ParityFill, Lives
<1> QED
  BY <1>2, <1>3

LEMMA FillKeepsBooks ==
  ASSUME NEW r \in Lives, NEW bar \in Tape, NEW when \in BarTimes, BooksAgree(r)
  PROVE  BooksAgree(ParityFill(r, bar, when))
<1>1. PICK f \in Lives :
        /\ f = ParityFill(r, bar, when)
        /\ f.realised = r.realised /\ f.engine.trades = r.engine.trades
  BY ParityFillDoes
<1>2. DaysAdd(f.engine.trades, f.realised)
  BY <1>1 DEF BooksAgree
<1>3. CASE r.engine.pending # "NONE" /\ r.engine.position = "NONE" /\ MayEnter(r, when)
  <2>1. f.engine.position # "NONE" /\ f.engine.entered = when
    BY <1>1, <1>3, ParityFillDoes
  <2>2. f.entered = [r.entered EXCEPT ![when.day] = @ + 1] /\ r.entered \in [1 .. ReplayDays -> Nat]
    BY <1>1, <1>3, FillCounts DEF Lives
  <2>3. ASSUME NEW day \in 1 .. ReplayDays
        PROVE  f.entered[day] = Cardinality(EnteredOn(f.engine.trades, day)) + OpenedOn(f.engine, day)
    <3>1. PICK count \in Nat : count = Cardinality(EnteredOn(r.engine.trades, day))
      BY EntriesCounted DEF Lives, Engines
    <3>2. r.entered[day] = count
      BY <1>3, <3>1 DEF BooksAgree, OpenedOn
    <3>3. OpenedOn(f.engine, day) = IF when.day = day THEN 1 ELSE 0
      BY <2>1 DEF OpenedOn
    <3>4. f.entered[day] = r.entered[day] + (IF when.day = day THEN 1 ELSE 0)
      <4>1. PICK before \in [1 .. ReplayDays -> Nat] : before = r.entered
        BY <2>2
      <4>2. f.entered = [before EXCEPT ![when.day] = @ + 1]
        BY <2>2, <4>1
      <4>3. before[day] \in Nat /\ f.entered[day] = IF when.day = day THEN before[day] + 1 ELSE before[day]
        BY <4>1, <4>2
      <4> QED
        BY <4>1, <4>3
    <3>5. Cardinality(EnteredOn(f.engine.trades, day)) = count
      BY <1>1, <3>1
    <3> QED
      BY <3>1, <3>2, <3>3, <3>4, <3>5
  <2> QED
    BY <1>1, <1>2, <2>3 DEF BooksAgree
<1>4. CASE r.engine.pending # "NONE" /\ r.engine.position = "NONE" /\ ~MayEnter(r, when)
  <2>1. f.engine.position = "NONE"
    BY <1>1, <1>4, ParityFillDoes, CancelDoes DEF Lives
  <2>2. f.entered = r.entered
    BY <1>1, <1>4, FillCounts
  <2> QED
    BY <1>1, <1>2, <1>4, <2>1, <2>2 DEF BooksAgree, OpenedOn
<1>5. CASE ~(r.engine.pending # "NONE" /\ r.engine.position = "NONE")
  BY <1>1, <1>5, ParityFillDoes
<1> QED
  BY <1>3, <1>4, <1>5

LEMMA ExitKeepsBooks ==
  ASSUME NEW r \in Lives, NEW when \in BarTimes, BooksAgree(r), brought \in Seq(TradeRecords),
         r.engine.position # "NONE", NEW price \in Int, NEW reason \in Reasons
  PROVE  BooksAgree(ParityExit(r, price, when, reason))
<1>1. PICK trade, f : /\ trade = TradeOf(r.engine, price, when, reason)
                       /\ f = ParityExit(r, price, when, reason)
  OBVIOUS
<1>2. /\ f \in Lives /\ trade \in TradeRecords
      /\ f.engine = ExitFilled(r.engine, price, when, reason)
      /\ f.realised = [r.realised EXCEPT ![when.day] = @ + Net(trade)]
  BY <1>1, ParityExitDoes
<1>3. /\ f.engine.position = "NONE" /\ f.engine.trades = Append(r.engine.trades, trade)
  BY <1>1, <1>2, ExitDoes DEF Lives
<1>4. f.entered = r.entered
  BY <1>1 DEF ParityExit, Lives
<1>5. trade.exited = when /\ trade.entered = r.engine.entered
  BY <1>1 DEF TradeOf
<1>6. r.engine.trades \in Seq(TradeRecords)
  BY DEF Lives, Engines
<1>7. ASSUME NEW day \in 1 .. ReplayDays
      PROVE  Metrics(f.engine.trades).daily[day] = Metrics(brought).daily[day] + f.realised[day]
  <2>1. PICK m \in ReportRecords : m = Metrics(r.engine.trades)
    BY <1>2, <1>6, MetricsAppend
  <2>2. Metrics(f.engine.trades) = Reported(m, trade)
    BY <1>2, <1>3, <1>6, <2>1, MetricsAppend
  <2>3. PICK net \in Int, base \in Int, daily \in [0 .. ReplayDays -> Int], booked \in [1 .. ReplayDays -> Int] :
          /\ net = Net(trade) /\ base = Metrics(brought).daily[day]
          /\ daily = m.daily /\ booked = r.realised
    <3>1. Net(trade) \in Int
      BY <1>2, NetTyped
    <3>2. Metrics(brought) \in ReportRecords
      BY <1>2, MetricsAppend
    <3>3. PICK before \in [0 .. ReplayDays -> Int] : before = Metrics(brought).daily
      BY <3>2 DEF ReportRecords
    <3>4. before[day] \in Int
      BY <3>3, DayOfReport
    <3> QED
      BY <3>1, <3>3, <3>4 DEF ReportRecords, Lives
  <2>4. /\ Reported(m, trade).daily = [daily EXCEPT ![when.day] = @ + net]
        /\ f.realised = [booked EXCEPT ![when.day] = @ + net]
    BY <1>2, <1>5, <2>3, ReportedDoes
  <2>5. daily[day] = base + booked[day] /\ daily[day] \in Int /\ booked[day] \in Int
    <3>1. daily[day] \in Int /\ booked[day] \in Int
      BY <2>3, DayOfReport
    <3> QED
      BY <2>1, <2>3, <3>1 DEF BooksAgree, DaysAdd
  <2>6. [daily EXCEPT ![when.day] = @ + net][day] = base + [booked EXCEPT ![when.day] = @ + net][day]
    <3>1. day \in 0 .. ReplayDays
      BY DayOfReport
    <3>2. CASE when.day = day
      <4>1. [daily EXCEPT ![when.day] = @ + net][day] = daily[day] + net
        BY <3>1, <3>2
      <4>2. [booked EXCEPT ![when.day] = @ + net][day] = booked[day] + net
        BY <3>2
      <4> QED
        BY <2>5, <4>1, <4>2
    <3>3. CASE when.day # day
      BY <2>3, <2>5, <3>1, <3>3
    <3> QED
      BY <3>2, <3>3
  <2> QED
    BY <2>2, <2>3, <2>4, <2>6
<1>8. ASSUME NEW day \in 1 .. ReplayDays
      PROVE  f.entered[day] = Cardinality(EnteredOn(f.engine.trades, day)) + OpenedOn(f.engine, day)
  <2>1. PICK count \in Nat : count = Cardinality(EnteredOn(r.engine.trades, day))
    BY <1>6, EntriesCounted
  <2>2. r.entered[day] = count + (IF r.engine.entered.day = day THEN 1 ELSE 0)
    BY <2>1 DEF BooksAgree, OpenedOn
  <2>3. Cardinality(EnteredOn(f.engine.trades, day)) = count + (IF r.engine.entered.day = day THEN 1 ELSE 0)
    BY <1>2, <1>3, <1>5, <1>6, <2>1, EntriesAppend
  <2>4. OpenedOn(f.engine, day) = 0
    BY <1>3 DEF OpenedOn
  <2> QED
    BY <1>4, <2>1, <2>2, <2>3, <2>4
<1> QED
  BY <1>1, <1>7, <1>8 DEF BooksAgree, DaysAdd

LEMMA EngineKeepsBooks ==
  ASSUME NEW r \in Lives, NEW e \in Engines, BooksAgree(r),
         e.position = r.engine.position, e.entered = r.engine.entered, e.trades = r.engine.trades
  PROVE  BooksAgree([r EXCEPT !.engine = e])
<1>1. PICK f : f = [r EXCEPT !.engine = e]
  OBVIOUS
<1>2. f.engine = e /\ f.entered = r.entered /\ f.realised = r.realised
  BY <1>1 DEF Lives
<1>3. \A day : OpenedOn(f.engine, day) = OpenedOn(r.engine, day)
  BY <1>2 DEF OpenedOn
<1> QED
  BY <1>1, <1>2, <1>3 DEF BooksAgree

LEMMA BarKeepsBooks ==
  ASSUME NEW r \in Lives, NEW bar \in Tape, NEW when \in BarTimes, NEW reading \in Readings,
         BooksAgree(r), brought \in Seq(TradeRecords)
  PROVE  BooksAgree(ParityBar(r, when, bar, reading))
<1>1. PICK filled : filled = ParityFill(r, bar, when)
  OBVIOUS
<1>2. filled \in Lives /\ BooksAgree(filled)
  BY <1>1, ParityFillDoes, FillKeepsBooks
<1>3. PICK e \in Engines : e = filled.engine
  BY <1>2 DEF Lives
<1>4. filled.stop \in Int
  BY <1>2 DEF Lives, NoStop
<1>5. PICK end \in Int : end = ExitFill(e, bar)
  BY BarsHold DEF ExitFill, Sold, Bought, Slip
<1>6. {"STOP_FILLED_BROKER", "SESSION_FLATTEN"} \cup EngineReasons \subseteq Reasons
  BY DEF Reasons, EngineReasons
<1>7. CASE StopHit(filled, bar)
  <2>1. ParityBar(r, when, bar, reading) = ParityExit(filled, filled.stop, when, "STOP_FILLED_BROKER")
    BY <1>1, <1>7 DEF ParityBar
  <2>2. filled.engine.position # "NONE"
    BY <1>7 DEF StopHit
  <2> QED
    BY <1>2, <1>4, <1>6, <2>1, <2>2, ExitKeepsBooks
<1>8. CASE ~StopHit(filled, bar) /\ Flattens(filled, when)
  <2>1. PICK closed : closed = ParityExit(filled, end, when, "SESSION_FLATTEN")
    OBVIOUS
  <2>2. ParityBar(r, when, bar, reading) = [closed EXCEPT !.engine = CancelPending(@)]
    BY <1>1, <1>3, <1>5, <1>8, <2>1 DEF ParityBar, ParityFlatten
  <2>3. filled.engine.position # "NONE"
    BY <1>8 DEF Flattens
  <2>4. closed \in Lives /\ BooksAgree(closed)
    BY <1>2, <1>6, <2>1, <2>3, ParityExitLeaves, ExitKeepsBooks
  <2>5. PICK cancelled \in Engines :
          /\ cancelled = CancelPending(closed.engine) /\ cancelled.position = closed.engine.position
          /\ cancelled.entered = closed.engine.entered /\ cancelled.trades = closed.engine.trades
    BY <2>4, CancelDoes DEF Lives
  <2>6. ParityBar(r, when, bar, reading) = [closed EXCEPT !.engine = cancelled]
    BY <2>2, <2>5
  <2> QED
    BY <2>4, <2>5, <2>6, EngineKeepsBooks
<1>9. CASE ~StopHit(filled, bar) /\ ~Flattens(filled, when)
  <2>1. PICK out : out = OnBar(e, when, bar, reading, FALSE)
    OBVIOUS
  <2>2. PICK dated \in Engines :
          /\ dated = NewDay(e, when, reading) /\ dated.position = e.position
          /\ dated.entered = e.entered /\ dated.trades = e.trades
    BY NewDayDoes
  <2>3. /\ out.engine \in Engines /\ out.engine.position = e.position
        /\ out.engine.entered = e.entered /\ out.engine.trades = e.trades
        /\ Exits(out.exit) => out.exit \in EngineReasons
    <3>1. out = ShownBar(dated, when, bar, reading)
      BY <2>1, <2>2, OnBarShows
    <3> QED
      BY <2>2, <3>1, BarDoes
  <2>4. PICK seen : seen = [filled EXCEPT !.engine = out.engine]
    OBVIOUS
  <2>5. seen \in Lives /\ BooksAgree(seen)
    <3>1. seen \in Lives
      BY <1>2, <2>3, <2>4 DEF Lives
    <3> QED
      BY <1>2, <1>3, <2>3, <2>4, <3>1, EngineKeepsBooks
  <2>6. seen.engine = out.engine
    BY <1>2, <2>4 DEF Lives
  <2>7. ParityBar(r, when, bar, reading) =
          IF Exits(out.exit) /\ out.engine.position # "NONE"
          THEN ParityExit(seen, ExitFill(out.engine, bar), when, out.exit) ELSE seen
    BY <1>1, <1>3, <1>9, <2>1, <2>4 DEF ParityBar, ParityEngine
  <2>8. ExitFill(out.engine, bar) = end
    BY <1>5, <2>3 DEF ExitFill
  <2>9. CASE Exits(out.exit) /\ out.engine.position # "NONE"
    <3>1. PICK reason \in Reasons : reason = out.exit
      BY <1>6, <2>3, <2>9
    <3>2. ParityBar(r, when, bar, reading) = ParityExit(seen, end, when, reason)
      BY <2>7, <2>8, <2>9, <3>1
    <3> QED
      BY <2>5, <2>6, <2>9, <3>2, ExitKeepsBooks
  <2>10. CASE ~(Exits(out.exit) /\ out.engine.position # "NONE")
    BY <2>5, <2>7, <2>10
  <2> QED
    BY <2>9, <2>10
<1> QED
  BY <1>7, <1>8, <1>9

\* Both replays begin with empty books, whatever trades were brought along.
LEMMA BooksBegin ==
  ASSUME NEW e \in Engines, e.entered.day = 0,
         \A i \in DOMAIN e.trades : e.trades[i].entered.day = 0,
         live = NewParity(e), brought = e.trades
  PROVE  BooksAgree(live)
<1>1. PICK none : none = [d \in 1 .. ReplayDays |-> 0]
  OBVIOUS
<1>2. live = [engine |-> e, stop |-> NoStop, realised |-> none, entered |-> none, refused |-> FALSE]
  BY <1>1 DEF NewParity
<1>3. /\ live.engine = e /\ live.realised = none /\ live.entered = none
      /\ \A d \in 1 .. ReplayDays : none[d] = 0
  BY <1>1, <1>2
<1>4. Metrics(brought) \in ReportRecords
  <2>1. PICK trades \in Seq(TradeRecords) : trades = brought
    BY DEF Engines
  <2>2. PICK r : ReportsAlong(r, trades)
    BY <2>1, ReportsExist
  <2>3. Len(trades) \in Nat
    BY LenProperties
  <2>4. Metrics(trades) = r[Len(trades)] /\ r[Len(trades)] \in ReportRecords
    BY <2>2, <2>3, MetricsIs DEF ReportsAlong
  <2> QED
    BY <2>1, <2>4
<1>5. PICK daily \in [0 .. ReplayDays -> Int] : daily = Metrics(brought).daily
  BY <1>4 DEF ReportRecords
<1>6. DaysAdd(live.engine.trades, live.realised)
  <2>1. ASSUME NEW day \in 1 .. ReplayDays
        PROVE  daily[day] \in Int /\ daily[day] = daily[day] + none[day]
    <3>1. day \in 0 .. ReplayDays
      BY DayOfReport
    <3>2. PICK n \in Int : n = daily[day]
      BY <1>5, <3>1
    <3>3. none[day] = 0
      BY <1>3
    <3> QED
      BY <3>2, <3>3
  <2> QED
    BY <1>3, <1>5, <2>1 DEF DaysAdd
<1>7. ASSUME NEW day \in 1 .. ReplayDays
      PROVE  live.entered[day] = Cardinality(EnteredOn(live.engine.trades, day)) + OpenedOn(live.engine, day)
  <2>1. day # 0 /\ live.entered[day] = 0
    BY <1>3
  <2>2. EnteredOn(e.trades, day) = {} /\ OpenedOn(e, day) = 0
    BY <2>1 DEF EnteredOn, OpenedOn
  <2>3. Cardinality(EnteredOn(live.engine.trades, day)) = 0 /\ OpenedOn(live.engine, day) = 0
    BY <1>3, <2>2, FS_EmptySet
  <2> QED
    BY <2>1, <2>3
<1> QED
  BY <1>6, <1>7 DEF BooksAgree

LEMMA BooksInitially == ReplayInit => BooksAgree(live)
<1> SUFFICES ASSUME ReplayInit PROVE BooksAgree(live)
  OBVIOUS
<1>1. PICK e \in {FreshEngine} \cup SavedStates : live = NewParity(e) /\ brought = e.trades
  BY DEF ReplayInit
<1>2. /\ e \in Engines /\ e.entered.day = 0
      /\ \A i \in DOMAIN e.trades : e.trades[i].entered.day = 0
  <2>1. CASE e = FreshEngine
    BY <2>1, FreshEngineIs
  <2>2. CASE e \in SavedStates
    BY <2>2, SavedAssumption
  <2> QED
    BY <2>1, <2>2
<1> QED
  BY <1>1, <1>2, BooksBegin

LEMMA BooksStep ==
  ReplayInv /\ BooksAgree(live) /\ [ReplayNext]_replayVars => BooksAgree(live)'
<1> SUFFICES ASSUME ReplayInv, BooksAgree(live), [ReplayNext]_replayVars PROVE BooksAgree(live)'
  OBVIOUS
<1>1. CASE UNCHANGED replayVars
  BY <1>1 DEF replayVars, BooksAgree, DaysAdd
<1>2. CASE ReplayNext
  <2>1. PICK when \in BarTimes, bar \in Tape, reading \in Readings, readingLive \in Readings :
          ReplayBar(when, bar, reading, readingLive)
    BY <1>2 DEF ReplayNext, BarTimes
  <2>2. PICK r \in Lives : r = live
    BY DEF ReplayInv
  <2>3. PICK f : f = ParityBar(r, when, bar, readingLive)
    OBVIOUS
  <2>4. live' = f /\ brought' = brought /\ brought \in Seq(TradeRecords)
    BY <2>1, <2>2, <2>3 DEF ReplayBar, ReplayInv, Begun
  <2>5. BooksAgree(f)
    BY <2>2, <2>3, <2>4, BarKeepsBooks
  <2> QED
    BY <2>4, <2>5 DEF BooksAgree, DaysAdd
<1> QED
  BY <1>1, <1>2

LEMMA ReportTells == ReplayInv /\ BooksAgree(live) => ReportMatchesReplay
<1> SUFFICES ASSUME ReplayInv, BooksAgree(live) PROVE ReportMatchesReplay
  OBVIOUS
<1>1. PICK trades \in Seq(TradeRecords) : trades = live.engine.trades
  BY DEF ReplayInv, Lives, Engines
<1>2. PICK equity : equity = [i \in 0 .. Len(trades) |-> Metrics(SubSeq(trades, 1, i)).equity]
  OBVIOUS
<1>3. Metrics(trades).drawdown = Max({Fall(equity[p[1]], equity[p[2]]) : p \in Falls(equity)})
  BY <1>2, DrawdownIsTold
<1>4. \A day \in 1 .. ReplayDays :
        live.entered[day] = Cardinality(Entered(day))
          + (IF live.engine.position # "NONE" /\ live.engine.entered.day = day THEN 1 ELSE 0)
  BY DEF BooksAgree, EnteredOn, OpenedOn, Entered
<1>5. \A day \in 1 .. ReplayDays :
        Metrics(trades).daily[day] = Metrics(brought).daily[day] + live.realised[day]
  BY <1>1 DEF BooksAgree, DaysAdd
<1> QED
  BY <1>1, <1>2, <1>3, <1>4, <1>5 DEF ReportMatchesReplay
==============================================================================
