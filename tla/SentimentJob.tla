---------------------------- MODULE SentimentJob ----------------------------
(***************************************************************************)
(* The sentiment job (hq/sentiment/job.py): runs started by several timers *)
(* refresh what the free feeds give, then rewrite one slot after another,  *)
(* each in a transaction of its own, and end with the efficacy of the      *)
(* gates.  Of a row only the run that wrote it is kept, of the moment of a *)
(* run whether it is late enough for today's DAY slot to be final.         *)
(*                                                                         *)
(* A transaction deletes a slot's rows and inserts its own (PostgreSQL,    *)
(* read committed): the delete sees what was committed when it began, and  *)
(* the inserts wait for, and then replace, rows of the same key.           *)
(***************************************************************************)
EXTENDS Integers, FiniteSets

CONSTANTS
  SentimentRuns,  \* runs
  Today           \* sessions are 1 .. Today

ASSUME SentimentAssumption ==
  0 \notin SentimentRuns /\ Today \in Nat \ {0}

\* The DAY slot of each session, and today's half hour.
HalfHour == 0
Slots == {HalfHour} \cup 1..Today
\* Kinds of score rows: written by every run, only when a feed answered, by
\* _refresh_put_call for its own session, and at the end of a run.
Scores == {"always", "feed", "put_call", "efficacy"}

VARIABLES
  evening,     \* 17:00 has passed
  scores,      \* sentiment.score: who wrote each row, 0 for nobody
  verdicts,    \* sentiment.gate_decision and recommendation
  snapshots,   \* sentiment.snapshot: who wrote it, and whether it is_final
  work,        \* what each run is doing
  status,      \* sentiment.run
  concurrent,  \* history: slots two runs were writing at once
  met          \* history: runs at work at the same time as another

sentimentVars == <<evening, scores, verdicts, snapshots, work, status, concurrent, met>>

NoScores == [s \in Slots |-> [k \in Scores |-> 0]]
AtWork(r, step) == work[r].step = step
Works(r, next) == work' = [work EXCEPT ![r] = next]

-----------------------------------------------------------------------------
\* A backfill is a daily job over more sessions.
SentimentJobs == {"intraday", "daily"}

\* The slots of a job, in the order they are written; before 07:00, and on a
\* day without a session, an intraday run has none.
SlotsOf(job) == IF job = "intraday" THEN {{}, {HalfHour}} ELSE {1..Today}

FirstOf(todo) == CHOOSE s \in todo : \A t \in todo : s <= t

\* The run is recorded, and `now` read, before any feed is asked.
StartRun(r, job) ==
  /\ status[r] = "NONE"
  /\ status' = [status EXCEPT ![r] = "RUNNING"]
  /\ Works(r, [step |-> "refresh", job |-> job, late |-> evening])
  /\ LET others == {q \in SentimentRuns : ~AtWork(q, "none")}
     IN met' = met \cup others \cup (IF others = {} THEN {} ELSE {r})
  /\ UNCHANGED <<evening, scores, verdicts, snapshots, concurrent>>

\* _refresh: a feed that raises is a gap, not a failure.  Put/call ratios not
\* stored yet are stored at once, under the session they belong to.
Refresh(r) ==
  /\ AtWork(r, "refresh")
  /\ \E fed \in BOOLEAN, todo \in SlotsOf(work[r].job) :
       Works(r, [step |-> "slots", job |-> work[r].job, late |-> work[r].late, fed |-> fed, todo |-> todo])
  /\ \E got \in {{}, {s \in 1..Today : scores[s]["put_call"] = 0}} :
       scores' = [s \in Slots |-> IF s \in got THEN [scores[s] EXCEPT !["put_call"] = r]
                                  ELSE scores[s]]
  /\ UNCHANGED <<evening, verdicts, snapshots, status, concurrent, met>>

Writing(r, slot) == AtWork(r, "tx") /\ work[r].slot = slot

\* _write_slot reads its inputs, then deletes the rows of the slot it can see.
DeleteSlot(r) ==
  /\ AtWork(r, "slots") /\ work[r].todo # {}
  /\ LET x == work[r] slot == FirstOf(x.todo)
     IN /\ Works(r, [step |-> "tx", job |-> x.job, late |-> x.late, fed |-> x.fed,
                     todo |-> x.todo \ {slot}, slot |-> slot, seen |-> scores[slot]])
        /\ concurrent' = IF \E q \in SentimentRuns : Writing(q, slot)
                         THEN concurrent \cup {slot} ELSE concurrent
  /\ UNCHANGED <<evening, scores, verdicts, snapshots, status, met>>

\* Mutant: rows of the slot that this run does not write are left.
KeptOld(r, row) == row

\* Put/call rows are never deleted; the delete misses what was not there.
Kept(r, row) ==
  [k \in Scores |-> IF k = "put_call" \/ row[k] # work[r].seen[k] THEN row[k] ELSE 0]

Written(r) == {"always"} \cup IF work[r].fed THEN {"feed"} ELSE {}

\* is_final: a DAY slot of a past session, or of today after 17:00.
Final(r, slot) == slot # HalfHour /\ (slot < Today \/ work[r].late)

CommitSlot(r) ==
  /\ AtWork(r, "tx")
  /\ LET slot == work[r].slot kept == Kept(r, scores[slot])
     IN /\ scores' = [scores EXCEPT ![slot] =
             [k \in Scores |-> IF k \in Written(r) THEN r ELSE kept[k]]]
        /\ verdicts' = [verdicts EXCEPT ![slot] = r]
        /\ snapshots' = [snapshots EXCEPT ![slot] = [run |-> r, final |-> Final(r, slot)]]
  /\ Works(r, [step |-> "slots", job |-> work[r].job, late |-> work[r].late,
               fed |-> work[r].fed, todo |-> work[r].todo])
  /\ UNCHANGED <<evening, status, concurrent, met>>

\* _write_efficacy_and_drift, for the last session of the job.
WriteEfficacy(r) ==
  /\ AtWork(r, "slots") /\ work[r].todo = {} /\ work[r].job # "intraday"
  /\ scores' = [scores EXCEPT ![Today]["efficacy"] = r]
  /\ Works(r, [step |-> "finish", fed |-> work[r].fed])
  /\ UNCHANGED <<evening, verdicts, snapshots, status, concurrent, met>>

FinishRun(r) ==
  /\ AtWork(r, "finish") \/ (AtWork(r, "slots") /\ work[r].todo = {} /\ work[r].job = "intraday")
  /\ status' = [status EXCEPT ![r] = IF work[r].fed THEN "OK" ELSE "PARTIAL"]
  /\ Works(r, [step |-> "none"])
  /\ UNCHANGED <<evening, scores, verdicts, snapshots, concurrent, met>>

\* Anything else raises: the slot under way is rolled back, those before it
\* stay.  A run that dies leaves its row RUNNING.
FailRun(r) ==
  /\ ~AtWork(r, "none")
  /\ status' \in {status, [status EXCEPT ![r] = "FAILED"]}
  /\ Works(r, [step |-> "none"])
  /\ UNCHANGED <<evening, scores, verdicts, snapshots, concurrent, met>>

EveningFalls ==
  /\ ~evening /\ evening' = TRUE
  /\ UNCHANGED <<scores, verdicts, snapshots, work, status, concurrent, met>>

SentimentInit ==
  /\ evening = FALSE /\ scores = NoScores
  /\ verdicts = [s \in Slots |-> 0]
  /\ snapshots = [s \in Slots |-> [run |-> 0, final |-> FALSE]]
  /\ work = [r \in SentimentRuns |-> [step |-> "none"]]
  /\ status = [r \in SentimentRuns |-> "NONE"]
  /\ concurrent = {} /\ met = {}

SentimentNext ==
  \/ EveningFalls
  \/ \E r \in SentimentRuns :
       \/ \E job \in SentimentJobs : StartRun(r, job)
       \/ Refresh(r) \/ DeleteSlot(r) \/ CommitSlot(r)
       \/ WriteEfficacy(r) \/ FinishRun(r) \/ FailRun(r)

SentimentSpec == SentimentInit /\ [][SentimentNext]_sentimentVars
-----------------------------------------------------------------------------
SentimentTypeOK ==
  /\ evening \in BOOLEAN
  /\ scores \in [Slots -> [Scores -> SentimentRuns \cup {0}]]
  /\ verdicts \in [Slots -> SentimentRuns \cup {0}]
  /\ snapshots \in [Slots -> [run : SentimentRuns \cup {0}, final : BOOLEAN]]
  /\ status \in [SentimentRuns -> {"NONE", "RUNNING", "OK", "PARTIAL", "FAILED"}]
  /\ concurrent \subseteq Slots /\ met \subseteq SentimentRuns

\* What a slot shows - scores, verdicts and snapshot - was written by one run,
\* although runs overlap, fail half-way and die, and although each finds other
\* feeds up: rows of another run stay only if both were writing the slot at
\* once.  Efficacy rows are never older than the slot unless runs overlapped.
SlotWhole ==
  \A s \in Slots :
    LET r == snapshots[s].run
    IN /\ verdicts[s] = r
       /\ s \in concurrent \/ (scores[s]["always"] = r /\ scores[s]["feed"] \in {0, r})
       /\ r \in met \/ scores[s]["efficacy"] \in {0, r}
=============================================================================
