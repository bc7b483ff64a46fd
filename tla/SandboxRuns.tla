----------------------------- MODULE SandboxRuns -----------------------------
(***************************************************************************)
(* The record of sandbox backtests (HqBacktestSandbox, hq/                 *)
(* backtest_sandbox.py): each run is an object of its own, and one index   *)
(* object, which every recorder reads, changes and writes whole, lists the *)
(* latest.  Each process also keeps its own latest runs in memory.         *)
(***************************************************************************)
EXTENDS Integers, Sequences, SequencesExt

CONSTANTS
  SandboxIds,  \* run ids, in the order runs are recorded
  Recorders,   \* processes, one recording at a time
  IndexCap,    \* rows the index keeps: 100 in the code
  MemoryCap    \* runs a process keeps: 50 in the code

ASSUME SandboxAssumption ==
  SandboxIds \subseteq Nat /\ IndexCap \in Nat \ {0} /\ MemoryCap \in Nat \ {0}

VARIABLES
  objects,    \* runs with an object of their own
  index,      \* the index object
  recent,     \* _memory_runs of each process
  recording,  \* what each process is doing
  completed,  \* history: runs recorded to the end, latest first
  overlapped  \* history: two recordings overlapped, or one ended half-way

sandboxVars == <<objects, index, recent, recording, completed, overlapped>>

Resting == [step |-> "rest"]
Recording(p, step) == recording[p].step = step
Records(p, next) == recording' = [recording EXCEPT ![p] = next]

Latest(s, n) == SubSeq(s, 1, IF Len(s) < n THEN Len(s) ELSE n)

\* The rows of other runs than n, each in the place that the number of those up to it gives.
Without(rows, n) ==
  LET others == {i \in DOMAIN rows : rows[i] # n}
  IN [k \in 1 .. Cardinality(others) |-> rows[CHOOSE i \in others : Cardinality(others \cap 1 .. i) = k]]

-----------------------------------------------------------------------------
\* The runs of a process are remembered before anything is stored.
RecordRun(p) ==
  /\ Recording(p, "rest")
  /\ \E n \in SandboxIds :
       /\ \A q \in Recorders, m \in SandboxIds :
            m >= n => ~Contains(completed, m) /\ m \notin objects /\ ~Contains(recent[q], m)
       /\ \A m \in SandboxIds : m < n => \E q \in Recorders : m \in objects \/ Contains(recent[q], m)
       /\ recent' = [recent EXCEPT ![p] = Latest(<<n>> \o @, MemoryCap)]
       /\ Records(p, [step |-> "object", id |-> n])
  /\ overlapped' = (overlapped \/ \E q \in Recorders : ~Recording(q, "rest"))
  /\ UNCHANGED <<objects, index, completed>>

\* Mutant: the run's own object is not stored.
PutRunSkipped(p) ==
  /\ Recording(p, "object")
  /\ Records(p, [step |-> "read", id |-> recording[p].id])
  /\ UNCHANGED <<objects, index, recent, completed, overlapped>>

PutRun(p) ==
  /\ Recording(p, "object")
  /\ objects' = objects \cup {recording[p].id}
  /\ Records(p, [step |-> "read", id |-> recording[p].id])
  /\ UNCHANGED <<index, recent, completed, overlapped>>

ReadIndex(p) ==
  /\ Recording(p, "read")
  /\ Records(p, [step |-> "write", id |-> recording[p].id,
                 rows |-> Latest(<<recording[p].id>> \o Without(index, recording[p].id), IndexCap)])
  /\ UNCHANGED <<objects, index, recent, completed, overlapped>>

PutIndex(p) ==
  /\ Recording(p, "write")
  /\ index' = recording[p].rows
  /\ completed' = <<recording[p].id>> \o completed
  /\ Records(p, Resting)
  /\ UNCHANGED <<objects, recent, overlapped>>

\* The store raises, or the process dies and comes back without its memory.
RecorderFails(p) ==
  /\ ~Recording(p, "rest")
  /\ recent' \in {recent, [recent EXCEPT ![p] = <<>>]}
  /\ Records(p, Resting)
  /\ overlapped' = TRUE
  /\ UNCHANGED <<objects, index, completed>>

SandboxInit ==
  /\ objects = {} /\ index = <<>> /\ completed = <<>>
  /\ recent = [p \in Recorders |-> <<>>]
  /\ recording = [p \in Recorders |-> Resting]
  /\ overlapped = FALSE

SandboxNext ==
  \E p \in Recorders :
    RecordRun(p) \/ PutRun(p) \/ ReadIndex(p) \/ PutIndex(p) \/ RecorderFails(p)

SandboxSpec == SandboxInit /\ [][SandboxNext]_sandboxVars

-----------------------------------------------------------------------------
\* list_runs falls back to memory while there is no index; get_run when the
\* store has no such run.
ListRuns(p) == IF index # <<>> THEN index ELSE recent[p]
GetRun(p, n) == n \in objects \/ Contains(recent[p], n)

SandboxTypeOK ==
  /\ objects \subseteq SandboxIds
  /\ Len(index) <= IndexCap /\ ToSet(index) \subseteq SandboxIds
  /\ \A p \in Recorders : Len(recent[p]) <= MemoryCap
  /\ overlapped \in BOOLEAN

\* Every run list_runs shows, to any process, get_run can load there, however
\* recordings overlap and wherever one ends half-way; and without an overlap
\* or an end half-way the index is the latest runs, none missing.
ListedRunsLoad ==
  /\ \A p \in Recorders : \A n \in ToSet(ListRuns(p)) : GetRun(p, n)
  /\ overlapped \/ index = Latest(completed, IndexCap)
=============================================================================
