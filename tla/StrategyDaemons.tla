--------------------------- MODULE StrategyDaemons ---------------------------
(***************************************************************************)
(* Process supervision and kill switches of HqStrategyRunner               *)
(* (hq/strategy_runner.py).  Several processes work on one directory per   *)
(* strategy: a pid file, a KILL_SWITCH file, and the daemon started there. *)
(* Each worker (a thread of a process) carries out one call at a time.     *)
(***************************************************************************)
EXTENDS Integers, FiniteSets

CONSTANTS
  Strategies,  \* STRATEGY_SPECS
  Starters,    \* threads that carry out calls
  Parents,     \* processes that hold an HqStrategyRunner
  Pids,        \* process ids of daemons
  Init1        \* who adopts a daemon whose parent died

ASSUME DaemonsAssumption == Init1 \notin Parents /\ Pids \subseteq Nat \ {0}

VARIABLES
  owner,     \* the process of each worker
  kill,      \* strategies with a KILL_SWITCH file
  pidfile,   \* runner.pid of each strategy
  daemons,   \* what the operating system knows of each pid
  start,     \* the start_strategy call each worker is in
  raced,     \* history: two starts overlapped, or one died half-way
  halted     \* history: halts acknowledged that nobody asked to lift

daemonsVars == <<owner, kill, pidfile, daemons, start, raced, halted>>

NoPid == 0
NoStart == [step |-> "none"]
NoDaemon == [state |-> "free"]

In(w, step, c) == start[w].step = step /\ start[w].code = c
Proceeds(w, next) == start' = [start EXCEPT ![w] = next]

-----------------------------------------------------------------------------
\* _process_status: signal 0 reaches whatever has the pid in the file, a
\* zombie and another strategy's daemon included.
Running(c) == pidfile[c] # NoPid /\ daemons[pidfile[c]].state # "free"

Live(pid, c) == daemons[pid].state = "live" /\ daemons[pid].code = c
LiveDaemons(c) == {pid \in Pids : Live(pid, c)}

\* subprocess.Popen first collects the children of its process that ended.
Reaped(p) ==
  [pid \in Pids |->
     IF daemons[pid].state = "zombie" /\ daemons[pid].parent = p THEN NoDaemon
     ELSE daemons[pid]]

Spawning(w, c) == In(w, "spawn", c) \/ In(w, "write", c)
Starting(w, c) == In(w, "launch", c) \/ Spawning(w, c)

\* start_strategy; settings that come with it are stored first.
StartStrategy(w, c) ==
  /\ start[w] = NoStart
  /\ Proceeds(w, [step |-> "launch", code |-> c])
  /\ UNCHANGED <<owner, kill, pidfile, daemons, raced, halted>>

\* Mutant: start_strategy does not ask whether the daemon runs.
MaySpawnAlways(c) == TRUE

MaySpawn(c) == ~Running(c)

\* The kill switch is cleared before the status is looked at.  A daemon that
\* runs already, or spawn=False, ends the call here.
Launch(w, c) ==
  /\ In(w, "launch", c)
  /\ kill' = kill \ {c}
  /\ halted' = halted \ {c}
  /\ \/ /\ MaySpawn(c)
        /\ Proceeds(w, [step |-> "spawn", code |-> c])
        /\ raced' = IF \E v \in Starters : Spawning(v, c) THEN raced \cup {c} ELSE raced
     \/ Proceeds(w, NoStart) /\ UNCHANGED raced
  /\ UNCHANGED <<owner, pidfile, daemons>>

Spawn(w, c) ==
  /\ In(w, "spawn", c)
  /\ \E pid \in {n \in Pids : Reaped(owner[w])[n].state = "free"} :
       /\ daemons' = [Reaped(owner[w]) EXCEPT ![pid] =
            [state |-> "live", code |-> c, parent |-> owner[w]]]
       /\ Proceeds(w, [step |-> "write", code |-> c, pid |-> pid])
  /\ UNCHANGED <<owner, kill, pidfile, raced, halted>>

WritePid(w, c) ==
  /\ In(w, "write", c)
  /\ pidfile' = [pidfile EXCEPT ![c] = start[w].pid]
  /\ Proceeds(w, NoStart)
  /\ UNCHANGED <<owner, kill, daemons, raced, halted>>

\* run_selftest: a child process that is waited for.
RunSelftest(w) ==
  /\ start[w] = NoStart
  /\ daemons' = Reaped(owner[w])
  /\ UNCHANGED <<owner, kill, pidfile, start, raced, halted>>

\* A daemon ends by itself, on SIGTERM or for any other reason; nobody waits
\* for it, so it stays a zombie while its parent lives.
DaemonExits(pid) ==
  /\ daemons[pid].state = "live"
  /\ daemons' = [daemons EXCEPT ![pid] =
       IF daemons[pid].parent = Init1 THEN NoDaemon
       ELSE [state |-> "zombie", parent |-> daemons[pid].parent]]
  /\ UNCHANGED <<owner, kill, pidfile, start, raced, halted>>

-----------------------------------------------------------------------------
\* Mutant: a halt is not written when no daemon is seen to run.
HaltIfRunning(w, c) ==
  /\ start[w] = NoStart
  /\ kill' = IF Running(c) THEN kill \cup {c} ELSE kill
  /\ halted' = IF \E v \in Starters : Starting(v, c) THEN halted ELSE halted \cup {c}
  /\ UNCHANGED <<owner, pidfile, daemons, start, raced>>

\* halt_strategy; its SIGTERM only makes DaemonExits more likely.  The halt
\* counts as standing unless a start was already under way.
HaltStrategy(w, c) ==
  /\ start[w] = NoStart
  /\ kill' = kill \cup {c}
  /\ halted' = IF \E v \in Starters : Starting(v, c) THEN halted ELSE halted \cup {c}
  /\ UNCHANGED <<owner, pidfile, daemons, start, raced>>

ResumeStrategy(w, c) ==
  /\ start[w] = NoStart
  /\ kill' = kill \ {c}
  /\ halted' = halted \ {c}
  /\ UNCHANGED <<owner, pidfile, daemons, start, raced>>

\* A process dies and comes back: its calls are gone, its daemons are adopted
\* and its zombies collected.
ParentDies(p) ==
  LET mine == {w \in Starters : owner[w] = p}
  IN /\ daemons' = [pid \in Pids |->
          IF daemons[pid].state = "live" /\ daemons[pid].parent = p
          THEN [daemons[pid] EXCEPT !.parent = Init1] ELSE Reaped(p)[pid]]
     /\ start' = [w \in Starters |-> IF w \in mine THEN NoStart ELSE start[w]]
     /\ raced' = raced \cup {c \in Strategies : \E w \in mine : Spawning(w, c)}
     /\ UNCHANGED <<owner, kill, pidfile, halted>>

DaemonsInit ==
  /\ owner \in [Starters -> Parents]
  /\ kill = {} /\ halted = {} /\ raced = {}
  /\ pidfile = [c \in Strategies |-> NoPid]
  /\ daemons = [pid \in Pids |-> NoDaemon]
  /\ start = [w \in Starters |-> NoStart]

DaemonsNext ==
  \/ \E w \in Starters, c \in Strategies :
       \/ StartStrategy(w, c) \/ Launch(w, c) \/ Spawn(w, c) \/ WritePid(w, c)
       \/ HaltStrategy(w, c) \/ ResumeStrategy(w, c)
  \/ \E w \in Starters : RunSelftest(w)
  \/ \E pid \in Pids : DaemonExits(pid)
  \/ \E p \in Parents : ParentDies(p)

DaemonsSpec == DaemonsInit /\ [][DaemonsNext]_daemonsVars

-----------------------------------------------------------------------------
Processes ==
  {NoDaemon} \cup [state : {"zombie"}, parent : Parents]
    \cup [state : {"live"}, code : Strategies, parent : Parents \cup {Init1}]

StartSteps ==
  {NoStart} \cup [step : {"launch", "spawn"}, code : Strategies]
    \cup [step : {"write"}, code : Strategies, pid : Pids]

DaemonsTypeOK ==
  /\ owner \in [Starters -> Parents]
  /\ kill \subseteq Strategies /\ halted \subseteq Strategies /\ raced \subseteq Strategies
  /\ pidfile \in [Strategies -> Pids \cup {NoPid}]
  /\ daemons \in [Pids -> Processes]
  /\ start \in [Starters -> StartSteps]

\* A strategy has one daemon at most, unless two starts overlapped or the
\* starter died before it wrote the pid file.  Stale pid files, zombies,
\* adopted daemons and reused pids do not lead to a second one.
OneDaemon ==
  \A c \in Strategies \ raced : \A m, n \in LiveDaemons(c) : m = n

\* A halt that was acknowledged stands until somebody asks for a resume or a
\* start: no call that was made before it, by any process, lifts it.
HaltStands == halted \subseteq kill
=============================================================================
