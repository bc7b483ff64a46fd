------------------------------- MODULE Loader -------------------------------
(***************************************************************************)
(* The warehouse loader (hq/loader.py, hq/recompute.py) for one strategy:  *)
(* runs of scheduled jobs, several at a time, bring the objects of a       *)
(* bucket into raw, core and derived tables.  One transaction per file,    *)
(* then one for the recomputation; a run may fail or die between any two   *)
(* of them, and objects are overwritten while runs are under way.          *)
(*                                                                         *)
(* A log or a replay is a name for its text: what matters of it is which   *)
(* trades it reports, the contract they are in, how good a replay it is,   *)
(* and whether its rows can be stored at all.                              *)
(***************************************************************************)
EXTENDS Integers, FiniteSets

CONSTANTS
  Uris,         \* names of objects
  KindOf,       \* source_kind of each: "paper_log", "backtest_daily" or "other"
  DayOf,        \* its session_date
  Texts,        \* what objects may contain
  TextsOf,      \* what each object may contain
  Trades,       \* the trades, or fills, each text reports
  Symbol,       \* the contract each text is about
  Quality,      \* _replay_quality of each text
  Bad,          \* texts whose rows the database refuses
  Runs,         \* loader processes
  JobOf,        \* the job each of them runs
  MaxUploads,   \* bound: uploads to the bucket
  MaxFailures,  \* bound: failures that are nobody's fault
  None          \* nothing there

Kinds == {"paper_log", "backtest_daily", "other"}
Jobs == {"paper", "backtest", "backfill", "recompute"}

\* The jobs that bring in objects of a kind.
Loads(job, kind) ==
  \/ job = "backfill"
  \/ job = "paper" /\ kind # "backtest_daily"
  \/ job = "backtest" /\ kind = "backtest_daily"

\* The schedule never has two runs at a time that load the same objects: loaded_at
\* is when a transaction starts, and would order their files otherwise than here.
ASSUME UrisAssumption ==
  /\ KindOf \in [Uris -> Kinds] /\ TextsOf \in [Uris -> SUBSET Texts]
  /\ JobOf \in [Runs -> Jobs]
  /\ \A r, q \in Runs, kind \in Kinds :
       Loads(JobOf[r], kind) /\ Loads(JobOf[q], kind) => r = q
ASSUME TextsAssumption ==
  /\ None \notin Texts \cup Uris /\ Bad \subseteq Texts
  /\ Quality \in [Texts -> Int]
ASSUME MaxAssumption == MaxUploads \in Nat /\ MaxFailures \in Nat
\* A trade is reported in the logs of one session only.
ASSUME SessionsAssumption ==
  \A u, v \in Uris : \A t \in TextsOf[u], w \in TextsOf[v] :
    Trades[t] \cap Trades[w] # {} => DayOf[u] = DayOf[v]

Days == {DayOf[u] : u \in Uris}
Keys == UNION {Trades[t] : t \in Texts}
Ids == {f \in Uris \X Texts : f[2] \in TextsOf[f[1]]}

VARIABLES
  bucket,       \* the objects: [text, gen]
  version,      \* raw.source_file, the current row of each uri: [text, gen, status]
  lines,        \* files with rows in raw.source_line
  latest,       \* each session's current paper log with the latest loaded_at
  trades,       \* core.paper_trade: the file each row is from
  fills,        \* core.paper_fill: likewise
  sessions,     \* core.paper_session: the file each row is from
  replays,      \* core.backtest_run and its trades: the file each is from
  derived,      \* the core rows the derived tables were computed from
  instruments,  \* ref.instrument
  pc,           \* where each run is
  todo,         \* listed objects it has not come to
  held,         \* the object it has read
  touched,      \* whether it has parsed anything new
  dangling,     \* symbols it remembers by an id that was rolled back
  snap,         \* what its recomputation has read: [trades, fills, latest]
  uploads, failures,  \* bounded counters
  failed, raced       \* history: a run failed; a log came in between read and write

tables == <<version, lines, latest, trades, fills, sessions, replays, instruments>>
run == <<pc, todo, held, touched, dangling, snap>>
vars == <<bucket, tables, derived, run, uploads, failures, failed, raced>>

Absent == [text |-> None, gen |-> 0]
NoRows == [k \in Keys |-> None]
NoFiles == [d \in Days |-> None]
NoSnap == [trades |-> NoRows, fills |-> NoRows, latest |-> NoFiles]

Init ==
  /\ bucket = [u \in Uris |-> Absent]
  /\ version = [u \in Uris |-> [text |-> None, gen |-> 0, status |-> "PENDING"]]
  /\ lines = {}
  /\ latest = NoFiles /\ sessions = NoFiles /\ replays = NoFiles
  /\ trades = NoRows /\ fills = NoRows
  /\ derived = <<trades, sessions, replays>>
  /\ instruments = {}
  /\ pc = [r \in Runs |-> "idle"]
  /\ todo = [r \in Runs |-> {}]
  /\ held = [r \in Runs |-> None]
  /\ touched = [r \in Runs |-> FALSE]
  /\ dangling = [r \in Runs |-> {}]
  /\ snap = [r \in Runs |-> NoSnap]
  /\ uploads = 0 /\ failures = 0
  /\ failed = FALSE /\ raced = FALSE

\* The VM's rsync overwrites an object, or writes the same text again.
Upload(u, text) ==
  /\ uploads < MaxUploads
  /\ uploads' = uploads + 1
  /\ bucket' = [bucket EXCEPT ![u] = [text |-> text, gen |-> uploads']]
  /\ UNCHANGED <<tables, derived, run, failures, failed, raced>>

-----------------------------------------------------------------------------
(***************************************************************************)
(* Listing, skipping and reading.                                          *)
(***************************************************************************)
Listing(job) ==
  {[uri |-> u, text |-> bucket[u].text, gen |-> bucket[u].gen] :
     u \in {v \in Uris : bucket[v].text # None /\ Loads(job, KindOf[v])}}

Start(r) ==
  /\ pc[r] = "idle"
  /\ pc' = [pc EXCEPT ![r] = "load"]
  /\ todo' = [todo EXCEPT ![r] = Listing(JobOf[r])]
  /\ UNCHANGED <<bucket, tables, derived, held, touched, dangling, snap, uploads, failures, failed,
                 raced>>

\* Mutant: any version will do.
AnyVersion(object) == version[object.uri].text # None

\* The generation of the current version is this one.
Loaded(object) ==
  version[object.uri].text # None /\ version[object.uri].gen = object.gen

Overwritten(object) == bucket[object.uri].gen # object.gen

Fetching(r, object) ==
  /\ pc[r] = "load" /\ held[r] = None
  /\ object \in todo[r]
  /\ todo' = [todo EXCEPT ![r] = @ \ {object}]

Skip(r, object) ==
  /\ Fetching(r, object)
  /\ Loaded(object)
  /\ UNCHANGED <<bucket, tables, derived, pc, held, touched, dangling, snap, uploads, failures,
                 failed, raced>>

\* Another generation of the same text: only the bookkeeping changes.
Refresh(r, object) ==
  /\ Fetching(r, object)
  /\ ~Loaded(object)
  /\ version[object.uri].text = object.text
  /\ version' = [version EXCEPT ![object.uri].gen = object.gen]
  /\ UNCHANGED <<bucket, lines, latest, trades, fills, sessions, replays, instruments, derived, pc,
                 held, touched, dangling, snap, uploads, failures, failed, raced>>

\* The read names the listed generation: once overwritten it may be gone, or kept
\* by the bucket as an older one.
Read(r, object) ==
  /\ Fetching(r, object)
  /\ ~Loaded(object)
  /\ version[object.uri].text # object.text
  /\ held' = [held EXCEPT ![r] = object]
  /\ UNCHANGED <<bucket, tables, derived, pc, touched, dangling, snap, uploads, failures, failed,
                 raced>>

-----------------------------------------------------------------------------
(***************************************************************************)
(* Storing the object a run has read: one transaction.                     *)
(***************************************************************************)
File(object) == <<object.uri, object.text>>
IsPaper(object) == KindOf[object.uri] = "paper_log"

\* Mutant: the rows of the new version are replaced, older ones keep theirs.
OwnLinesDropped(u, file) == lines \ {file}

\* No version of the object but the current one keeps its text.
LinesDropped(u, file) == {l \in lines : l[1] # u}

\* The version becomes the current one of its object, and the last one loaded.
Register(object, status) ==
  /\ version' = [version EXCEPT ![object.uri] =
                   [text |-> object.text, gen |-> object.gen, status |-> status]]
  /\ latest' = IF IsPaper(object)
               THEN [latest EXCEPT ![DayOf[object.uri]] = File(object)] ELSE latest
  /\ raced' = (raced \/ (IsPaper(object) /\ \E q \in Runs : pc[q] = "write"))

\* Mutant: only what this very version wrote before is deleted.
OwnRowsDropped(rows, file) == [k \in Keys |-> IF rows[k] = file THEN None ELSE rows[k]]

\* Rows of every version of the object are deleted before it is written.
RowsDropped(rows, file) ==
  [k \in Keys |-> IF rows[k] # None /\ rows[k][1] = file[1] THEN None ELSE rows[k]]

\* ON CONFLICT DO NOTHING: a row another file wrote stays that file's.
Inserted(rows, file) ==
  [k \in Keys |-> IF k \in Trades[file[2]] /\ rows[k] = None THEN file ELSE rows[k]]

\* ON CONFLICT DO UPDATE: a row another file wrote becomes this one's.
Upserted(rows, file) == [k \in Keys |-> IF k \in Trades[file[2]] THEN file ELSE rows[k]]

\* PaperWriter.write
WritePaper(file) ==
  /\ trades' = Upserted(RowsDropped(trades, file), file)
  /\ fills' = Inserted(RowsDropped(fills, file), file)
  /\ sessions' = [sessions EXCEPT ![DayOf[file[1]]] = file]
  /\ instruments' = instruments \cup {Symbol[file[2]]}
  /\ UNCHANGED replays

WriteReplay(file) ==
  /\ replays' = [replays EXCEPT ![DayOf[file[1]]] = file]
  /\ UNCHANGED <<trades, fills, sessions, instruments>>

\* The rows hold an instrument id that the database does not know, or a value it refuses.
Refused(r, object) ==
  \/ object.text \in Bad
  \/ IsPaper(object) /\ Symbol[object.text] \in dangling[r]

\* Mutant: only the replays count as news.
ReplayIsNews(object) == KindOf[object.uri] = "backtest_daily"

\* A log or a replay was written, and the strategy must be recomputed.
IsNews(object) == KindOf[object.uri] # "other"

Storing(r) ==
  /\ pc[r] = "load" /\ held[r] # None
  /\ held' = [held EXCEPT ![r] = None]

Store(r) ==
  LET object == held[r] file == File(object) IN
  /\ Storing(r)
  /\ ~Refused(r, object)
  /\ Register(object, IF KindOf[object.uri] = "other" THEN "SKIPPED" ELSE "PARSED")
  /\ lines' = LinesDropped(object.uri, file) \cup {file}
  /\ CASE KindOf[object.uri] = "paper_log" -> WritePaper(file)
       [] KindOf[object.uri] = "backtest_daily" -> WriteReplay(file)
       [] OTHER -> UNCHANGED <<trades, fills, sessions, replays, instruments>>
  /\ touched' = [touched EXCEPT ![r] = @ \/ IsNews(object)]
  /\ UNCHANGED <<bucket, derived, pc, todo, dangling, snap, uploads, failures, failed>>

\* _record_failure: the version is registered without its text, so that it is not
\* tried again; when that fails too nothing is.
RecordFailure(object) ==
  \/ /\ Register(object, "FAILED")
     /\ lines' = LinesDropped(object.uri, File(object))
  \/ (Overwritten(object) \/ failures < failures') /\ UNCHANGED <<version, latest, lines, raced>>

\* The read fails because the generation is gone, and then recording fails too and
\* the file is left for the next run; or the bucket could not be reached, and the
\* second read, which records the failure, may well succeed.
ReadFails(r, object) ==
  /\ Fetching(r, object)
  /\ ~Loaded(object)
  /\ \/ Overwritten(object) /\ UNCHANGED <<failures, version, latest, lines, raced>>
     \/ /\ failures < MaxFailures /\ failures' = failures + 1
        /\ RecordFailure(object)
  /\ UNCHANGED <<bucket, trades, fills, sessions, replays, instruments, derived, pc, held,
                 touched, dangling, snap, uploads, failed>>

\* The transaction is rolled back, but an instrument it created stays in the
\* run's memory (ref.instruments).
StoreFails(r) ==
  LET object == held[r] IN
  /\ Storing(r)
  /\ \/ Refused(r, object) /\ UNCHANGED failures
     \/ failures < MaxFailures /\ failures' = failures + 1
  /\ \/ UNCHANGED dangling
     \/ /\ IsPaper(object) /\ Symbol[object.text] \notin instruments
        /\ dangling' = [dangling EXCEPT ![r] = @ \cup {Symbol[object.text]}]
  /\ RecordFailure(object)
  /\ UNCHANGED <<bucket, trades, fills, sessions, replays, instruments, derived, pc, todo,
                 touched, snap, uploads, failed>>

-----------------------------------------------------------------------------
(***************************************************************************)
(* Recomputing the strategy: one transaction, of which only the reading of *)
(* the paper trades is apart.  It deletes derived rows and locks the rows  *)
(* of ops.day_status right after it, so the rest has no other run between. *)
(***************************************************************************)

\* Mutant: the instruments remembered are kept for the next run.
ForgetTouched(r) ==
  /\ touched' = [touched EXCEPT ![r] = FALSE]
  /\ UNCHANGED dangling

\* What a run remembers of its loading is of no more use: every run starts anew.
Forget(r) ==
  /\ touched' = [touched EXCEPT ![r] = FALSE]
  /\ dangling' = [dangling EXCEPT ![r] = {}]

\* Nothing left to load: the strategy is recomputed if it was touched, and by
\* the jobs that always do.
LoadsDone(r) ==
  /\ pc[r] = "load" /\ todo[r] = {} /\ held[r] = None
  /\ pc' = [pc EXCEPT ![r] =
              IF touched[r] \/ JobOf[r] \in {"backtest", "recompute"} THEN "compute" ELSE "idle"]
  /\ Forget(r)
  /\ UNCHANGED <<bucket, tables, derived, todo, held, snap, uploads, failures, failed, raced>>

ReadTrades(r) ==
  /\ pc[r] = "compute"
  /\ pc' = [pc EXCEPT ![r] = "write"]
  /\ snap' = [snap EXCEPT ![r] = [trades |-> trades, fills |-> fills, latest |-> latest]]
  /\ UNCHANGED <<bucket, tables, derived, todo, held, touched, dangling, uploads, failures, failed,
                 raced>>

\* drop_stale_paper_rows: only the last loaded log of each session keeps its rows.
Stale(file, last) == file # None /\ last[DayOf[file[1]]] # file

Kept(rows, last) == [k \in Keys |-> IF Stale(rows[k], last) THEN None ELSE rows[k]]

\* What it deleted goes when the run commits, unless a log has written it since.
Dropped(rows, seen, last) ==
  [k \in Keys |-> IF rows[k] = seen[k] /\ Stale(seen[k], last) /\ Stale(seen[k], latest)
                  THEN None ELSE rows[k]]

\* The current replays of a session, whatever became of their rows.
Candidates(day) ==
  {u \in Uris : KindOf[u] = "backtest_daily" /\ DayOf[u] = day /\ version[u].text # None}

Current(u) == <<u, version[u].text>>

\* What there is to recognise in the stored lines of a replay: nothing without lines.
Recognised(file) == IF file \in lines THEN Quality[file[2]] ELSE 0

\* Mutant: the most recently updated replay, whatever is in it.
Newer(u, v) == version[u].gen > version[v].gen

Better(u, v) ==
  \/ Recognised(Current(u)) > Recognised(Current(v))
  \/ /\ Recognised(Current(u)) = Recognised(Current(v))
     /\ version[u].gen > version[v].gen

Chosen(u) == \A v \in Candidates(DayOf[u]) \ {u} : Better(u, v)

\* _reparse_backtests: one replay of a session is used, and the others are set aside.

Reparse ==
  /\ version' = [u \in Uris |->
       IF u \notin Candidates(DayOf[u]) THEN version[u]
       ELSE [version[u] EXCEPT !.status = IF Chosen(u) THEN "PARSED" ELSE "SKIPPED"]]
  /\ replays' = [d \in Days |->
       IF \E u \in Candidates(d) : Chosen(u)
       THEN Current(CHOOSE u \in Candidates(d) : Chosen(u)) ELSE replays[d]]

\* recompute, and its commit, which ends the run.
WriteDerived(r) ==
  /\ pc[r] = "write"
  /\ pc' = [pc EXCEPT ![r] = "idle"]
  /\ IF JobOf[r] = "paper" THEN UNCHANGED <<version, replays>> ELSE Reparse
  /\ trades' = Dropped(trades, snap[r].trades, snap[r].latest)
  /\ fills' = Dropped(fills, snap[r].fills, snap[r].latest)
  /\ derived' = <<Kept(snap[r].trades, snap[r].latest), sessions, replays'>>
  /\ snap' = [snap EXCEPT ![r] = NoSnap]
  /\ UNCHANGED <<bucket, lines, latest, sessions, instruments, todo, held, touched, dangling,
                 uploads, failures, failed, raced>>

\* The process dies, or an error no one catches ends it: what was not committed is lost.
RunFails(r) ==
  /\ pc[r] # "idle"
  /\ failures < MaxFailures
  /\ failures' = failures + 1
  /\ failed' = TRUE
  /\ pc' = [pc EXCEPT ![r] = "idle"]
  /\ todo' = [todo EXCEPT ![r] = {}]
  /\ held' = [held EXCEPT ![r] = None]
  /\ snap' = [snap EXCEPT ![r] = NoSnap]
  /\ Forget(r)
  /\ UNCHANGED <<bucket, tables, derived, uploads, raced>>

-----------------------------------------------------------------------------
Progress(r) ==
  \/ \E object \in todo[r] : Skip(r, object) \/ Refresh(r, object) \/ Read(r, object)
  \/ Store(r) \/ LoadsDone(r) \/ ReadTrades(r) \/ WriteDerived(r)

Fails(r) ==
  \/ \E object \in todo[r] : ReadFails(r, object)
  \/ StoreFails(r) \/ RunFails(r)

Next ==
  \/ \E u \in Uris : \E text \in TextsOf[u] : Upload(u, text)
  \/ \E r \in Runs : Start(r) \/ Progress(r) \/ Fails(r)

Spec == Init /\ [][Next]_vars

\* The scheduler starts every job again and again, and a started run goes on: a
\* file it cannot read or store is a step too, only its dying is not.
FairSpec ==
  /\ Spec
  /\ \A r \in Runs :
       /\ WF_vars(Start(r))
       /\ WF_vars(Progress(r) \/ (StoreFails(r) \/ \E object \in todo[r] : ReadFails(r, object)))

-----------------------------------------------------------------------------
Versions == [text : Texts \cup {None}, gen : 0 .. MaxUploads,
             status : {"PENDING", "PARSED", "SKIPPED", "FAILED"}]
Objects == [uri : Uris, text : Texts, gen : 1 .. MaxUploads]
RowSets == [Keys -> Ids \cup {None}]
DaySets == [Days -> Ids \cup {None}]

\* Every variable has its type; past loading, a run has nothing left to load and
\* remembers nothing that a rollback undid: the next run of its job starts anew.
TypeOK ==
  /\ bucket \in [Uris -> [text : Texts \cup {None}, gen : 0 .. MaxUploads]]
  /\ version \in [Uris -> Versions]
  /\ lines \subseteq Ids
  /\ latest \in DaySets /\ sessions \in DaySets /\ replays \in DaySets
  /\ trades \in RowSets /\ fills \in RowSets
  /\ derived \in RowSets \X DaySets \X DaySets
  /\ instruments \subseteq {Symbol[t] : t \in Texts}
  /\ pc \in [Runs -> {"idle", "load", "compute", "write"}]
  /\ todo \in [Runs -> SUBSET Objects]
  /\ held \in [Runs -> Objects \cup {None}]
  /\ touched \in [Runs -> BOOLEAN]
  /\ dangling \in [Runs -> SUBSET {Symbol[t] : t \in Texts}]
  /\ snap \in [Runs -> [trades : RowSets, fills : RowSets, latest : DaySets]]
  /\ uploads \in 0 .. MaxUploads /\ failures \in 0 .. MaxFailures
  /\ failed \in BOOLEAN /\ raced \in BOOLEAN
  /\ \A r \in Runs : pc[r] # "load" =>
       held[r] = None /\ todo[r] = {} /\ ~touched[r] /\ dangling[r] = {}

\* raw keeps the text of the current version of an object and of no other, and
\* keeps it for every log that was stored: what a reparse or a person reads there
\* is what the bucket last gave the loader.
RawWhole ==
  /\ \A file \in lines : version[file[1]].text = file[2]
  /\ \A u \in Uris :
       KindOf[u] # "backtest_daily" /\ version[u].status \in {"PARSED", "SKIPPED"} =>
         Current(u) \in lines

\* A trade row is from a log that reports the trade, and that log is the current
\* version of its object unless a later version was tried and failed.
RowsOfCurrent ==
  \A k \in Keys : trades[k] # None =>
    /\ k \in Trades[trades[k][2]]
    /\ \/ version[trades[k][1]].text = trades[k][2]
       \/ version[trades[k][1]].status = "FAILED"

\* However its session was logged before, and under whatever names, the trades of
\* the last loaded log of a session are all stored and are that log's: none was
\* lost to an older row, a rerun or the dropping of stale rows.
NothingLost ==
  \A d \in Days : latest[d] # None /\ version[latest[d][1]].status = "PARSED" =>
    \A k \in Trades[latest[d][2]] : trades[k] = latest[d]

Core == <<trades, sessions, replays>>
Idle == \A r \in Runs : pc[r] = "idle"

\* Once every run has ended, the derived tables were computed from the core rows
\* there are, unless a run died or a log came in while another run recomputed.
FreshUnlessFailed == Idle /\ ~failed /\ ~raced => derived = Core

\* A file is as good a replay as the current version of an object, or its own object
\* has been replaced by one that was refused.
AsGood(file, u) ==
  Recognised(file) >= Recognised(Current(u)) \/ version[file[1]].status = "FAILED"

\* Between runs, a stub or an aborted rerun of a session's replay is not what the
\* derived tables are from while a better one is stored, whichever came last and
\* whichever runs recomputed while the replays were being loaded; except that a
\* backfill of nothing but refused files does not choose again.
BestReplay ==
  Idle /\ ~failed =>
    \A u \in Uris : KindOf[u] = "backtest_daily" /\ Current(u) \in lines =>
      AsGood(derived[3][DayOf[u]], u)

UpToDate ==
  /\ \A u \in Uris : bucket[u].text # None => version[u].text = bucket[u].text
  /\ derived = Core

\* With the jobs scheduled for ever, every object of the bucket comes to be
\* registered as it is, loaded or recorded as failed, and the derived tables to be
\* those of the core rows, for good: later runs repair failures, deaths and races.
Converges == <>[]UpToDate

\* A file the database can store is stored when a run gets to it, whatever the
\* files before it were (hq/loader.py:6-7).
GoodFilesLoad ==
  \A u \in Uris : version[u].status = "FAILED" => version[u].text \in Bad

\* The fills of the last loaded log of a session are stored as its trades are.
FillsKept ==
  \A d \in Days : latest[d] # None /\ version[latest[d][1]].status = "PARSED" =>
    \A k \in Trades[latest[d][2]] : fills[k] # None
=============================================================================
