----------------------------- MODULE DailyDumps -----------------------------
(***************************************************************************)
(* The IBKR ledger and the daily dump made from it (ibkr/ledger.py,        *)
(* ibkr/collect.py, ibkr/export.py, ibkr/reader.py, ibkr/store.py):        *)
(* exporters, started by timers, by hand and by several machines' users,   *)
(* fetch what TWS still remembers of its session, merge it into one file   *)
(* per day and publish a day as five objects and a mark.                   *)
(***************************************************************************)
EXTENDS Integers, Sequences, SequencesExt

CONSTANTS
  LastDay,    \* days are 1 .. LastDay
  FillDay,    \* the New York day of each fill; its domain are the fills
  Exporters,  \* processes that collect and export
  Objects,    \* of a published day, in the order they are put: the code has
              \* executions, positions, account, summary and manifest
  MaxExports  \* bound: exports ever started

ASSUME DumpsAssumption ==
  /\ LastDay \in Nat \ {0} /\ MaxExports \in Nat
  /\ \A f \in DOMAIN FillDay : FillDay[f] \in 1..LastDay
  /\ Objects \in Seq(STRING) /\ {"executions", "positions"} \subseteq ToSet(Objects)

LedgerDays == 1..LastDay
Fills == DOMAIN FillDay

VARIABLES
  today,      \* today_ny()
  session,    \* the fills TWS still reports
  ledger,     \* executions.jsonl of each day, or Torn
  snapshot,   \* the day each day's positions.json was taken on, 0 for none
  dump,       \* the published objects of each day
  success,    \* the days with a _SUCCESS mark
  export,     \* what each exporter is doing
  exports,    \* bounded counter
  merged,     \* history: fills whose merge was completed
  issued,     \* history: fills of each day whose publication was completed
  spoiled,    \* history: days whose merges overlapped or were cut short
  disturbed,  \* history: days whose publications overlapped or ended half-way
  backdated   \* history: days whose positions were taken on another day

dumpsVars == <<today, session, ledger, snapshot, dump, success, export, exports,
               merged, issued, spoiled, disturbed, backdated>>
dumpsHistory == <<merged, issued, spoiled, disturbed, backdated>>

Torn == {"torn"}
NoReport == [fills |-> {}, taken |-> -1]
Away == [step |-> "away"]

Exporting(e, step) == export[e].step = step
Exports(e, next) == export' = [export EXCEPT ![e] = next]
Day(e) == export[e].day

-----------------------------------------------------------------------------
\* A fill reaches TWS; a TWS restart forgets its session.
Trade(f) ==
  /\ FillDay[f] = today /\ f \notin session /\ f \notin merged
  /\ session' = session \cup {f}
  /\ UNCHANGED <<today, ledger, snapshot, dump, success, export, dumpsHistory, exports>>

Midnight ==
  /\ today < LastDay
  /\ today' = today + 1
  /\ session' \in {session, {}}
  /\ UNCHANGED <<ledger, snapshot, dump, success, export, dumpsHistory, exports>>

\* export_day: the stored positions are loaded before anything is collected.
\* With skip_collect nothing is; collect alone ends after its snapshot.
ExportDay(e, d, only) ==
  /\ Exporting(e, "away")
  /\ d <= today /\ exports < MaxExports
  /\ exports' = exports + 1
  /\ \/ Exports(e, [step |-> "fetch", day |-> d, taken |-> snapshot[d], only |-> only])
     \/ ~only /\ Exports(e, [step |-> "load", day |-> d, taken |-> snapshot[d]])
  /\ UNCHANGED <<today, session, ledger, snapshot, dump, success, dumpsHistory>>

Merging(g, d) == Exporting(g, "write") /\ export[g].group = d

MergeNext(x, now, fills) ==
  IF fills = {}
  THEN [step |-> "snap", day |-> x.day, taken |-> x.taken, only |-> x.only, now |-> now]
  ELSE [step |-> "merge", day |-> x.day, taken |-> x.taken, only |-> x.only, now |-> now,
        fills |-> fills]

\* collect: fills, positions and account are fetched, then the fills of one
\* day after another merged.
Fetch(e) ==
  /\ Exporting(e, "fetch")
  /\ Exports(e, MergeNext(export[e], today, session))
  /\ UNCHANGED <<today, session, ledger, snapshot, dump, success, dumpsHistory, exports>>

\* ledger.merge reads the day's file; one that was cut short cannot be parsed
\* and ends the export.
MergeRead(e) ==
  /\ Exporting(e, "merge")
  /\ \E f \in export[e].fills :
       LET d == FillDay[f] x == export[e]
       IN /\ Exports(e, IF ledger[d] = Torn THEN Away
                        ELSE [step |-> "write", day |-> x.day, taken |-> x.taken, only |-> x.only,
                              now |-> x.now, fills |-> x.fills, group |-> d, read |-> ledger[d]])
          /\ spoiled' = IF \E g \in Exporters \ {e} : Merging(g, d)
                        THEN spoiled \cup {d} ELSE spoiled
  /\ UNCHANGED <<today, session, ledger, snapshot, dump, success, merged, issued, disturbed,
                 backdated, exports>>

OfGroup(e) == {f \in export[e].fills : FillDay[f] = export[e].group}

\* Mutant: the file is written from the fetched fills alone.
MergedAnew(e) == OfGroup(e)

Merged(e) == export[e].read \cup OfGroup(e)

MergeWrite(e) ==
  LET d == export[e].group
  IN /\ Exporting(e, "write")
     /\ ledger' = [ledger EXCEPT ![d] = Merged(e)]
     /\ merged' = merged \cup OfGroup(e)
     /\ Exports(e, MergeNext(export[e], export[e].now, export[e].fills \ OfGroup(e)))
     /\ UNCHANGED <<today, session, snapshot, dump, success, issued, spoiled, disturbed,
                    backdated, exports>>

\* save_snapshot stores the positions of now as those of the target day.
SaveSnapshot(e) ==
  /\ Exporting(e, "snap")
  /\ snapshot' = [snapshot EXCEPT ![Day(e)] = export[e].now]
  /\ backdated' = IF export[e].now # Day(e) THEN backdated \cup {Day(e)} ELSE backdated
  /\ Exports(e, IF export[e].only THEN Away
                ELSE [step |-> "load", day |-> Day(e),
                      taken |-> IF Day(e) = today THEN export[e].now ELSE export[e].taken])
  /\ UNCHANGED <<today, session, ledger, dump, success, merged, issued, spoiled, disturbed,
                 exports>>

Publishing(g, d) == Exporting(g, "put") /\ Day(g) = d

Load(e) ==
  LET d == Day(e)
  IN /\ Exporting(e, "load")
     /\ Exports(e, IF ledger[d] = Torn THEN Away
                   ELSE [step |-> "put", day |-> d, next |-> 1,
                         report |-> [fills |-> ledger[d], taken |-> export[e].taken]])
     /\ disturbed' = IF \E g \in Exporters \ {e} : Publishing(g, d)
                     THEN disturbed \cup {d} ELSE disturbed
     /\ UNCHANGED <<today, session, ledger, snapshot, dump, success, merged, issued, spoiled,
                    backdated, exports>>

\* Mutant: the mark is put first.
MarkFirst(e) ==
  LET d == Day(e)
  IN /\ Exporting(e, "put")
     /\ export[e].next <= Len(Objects)
     /\ dump' = [dump EXCEPT ![d][Objects[export[e].next]] = export[e].report]
     /\ success' = success \cup {d}
     /\ Exports(e, [export[e] EXCEPT !.next = @ + 1])
     /\ UNCHANGED <<today, session, ledger, snapshot, dumpsHistory, exports>>

PutObject(e) ==
  LET d == Day(e)
  IN /\ Exporting(e, "put")
     /\ export[e].next <= Len(Objects)
     /\ dump' = [dump EXCEPT ![d][Objects[export[e].next]] = export[e].report]
     /\ Exports(e, [export[e] EXCEPT !.next = @ + 1])
     /\ UNCHANGED <<today, session, ledger, snapshot, success, dumpsHistory, exports>>

PutSuccess(e) ==
  LET d == Day(e)
  IN /\ Exporting(e, "put")
     /\ export[e].next > Len(Objects)
     /\ success' = success \cup {d}
     /\ issued' = [issued EXCEPT ![d] = @ \cup export[e].report.fills]
     /\ Exports(e, Away)
     /\ UNCHANGED <<today, session, ledger, snapshot, dump, merged, spoiled, disturbed,
                    backdated, exports>>

\* TWS or the store raises, or the process dies: a ledger file may be cut.
ExporterFails(e) ==
  LET d == export[e].group
  IN /\ ~Exporting(e, "away")
     /\ Exports(e, Away)
     /\ disturbed' = IF Exporting(e, "put") /\ export[e].next > 1
                     THEN disturbed \cup {Day(e)} ELSE disturbed
     /\ IF Exporting(e, "write")
        THEN /\ ledger' \in {ledger, [ledger EXCEPT ![d] = Torn],
                             [ledger EXCEPT ![d] = {}]}
             /\ spoiled' = IF ledger' = ledger THEN spoiled ELSE spoiled \cup {d}
        ELSE UNCHANGED <<ledger, spoiled>>
     /\ UNCHANGED <<today, session, snapshot, dump, success, merged, issued, backdated, exports>>

DumpsInit ==
  /\ today = 1 /\ session = {}
  /\ ledger = [d \in LedgerDays |-> {}]
  /\ snapshot = [d \in LedgerDays |-> 0]
  /\ dump = [d \in LedgerDays |-> [o \in ToSet(Objects) |-> NoReport]]
  /\ success = {}
  /\ export = [e \in Exporters |-> Away] /\ exports = 0
  /\ merged = {} /\ issued = [d \in LedgerDays |-> {}]
  /\ spoiled = {} /\ disturbed = {} /\ backdated = {}

DumpsNext ==
  \/ \E f \in Fills : Trade(f)
  \/ Midnight
  \/ \E e \in Exporters :
       \/ \E d \in LedgerDays, only \in BOOLEAN : ExportDay(e, d, only)
       \/ Fetch(e) \/ MergeRead(e) \/ MergeWrite(e) \/ SaveSnapshot(e) \/ Load(e)
       \/ PutObject(e) \/ PutSuccess(e) \/ ExporterFails(e)

DumpsSpec == DumpsInit /\ [][DumpsNext]_dumpsVars

-----------------------------------------------------------------------------
DumpsTypeOK ==
  /\ today \in LedgerDays /\ exports \in 0..MaxExports /\ session \subseteq Fills /\ merged \subseteq Fills
  /\ ledger \in [LedgerDays -> (SUBSET Fills) \cup {Torn}] /\ issued \in [LedgerDays -> SUBSET Fills]
  /\ snapshot \in [LedgerDays -> 0..LastDay]
  /\ success \subseteq LedgerDays
  /\ spoiled \subseteq LedgerDays /\ disturbed \subseteq LedgerDays
  /\ backdated \subseteq LedgerDays

\* A fill that was merged stays in the ledger after TWS forgot it, whoever
\* collects and whichever day is asked for, unless two merges of its day
\* overlapped or one was cut short.
LedgerKeeps ==
  \A f \in merged : FillDay[f] \in spoiled \/ f \in ledger[FillDay[f]]

\* A day is marked complete only when all its objects are there; they are of
\* one report and no published fill is missing, except while the day is
\* published again and after publications of it overlapped or ended half-way.
DumpWhole ==
  \A d \in success :
    /\ \A o \in ToSet(Objects) : dump[d][o] # NoReport
    /\ \/ d \in disturbed \/ \E e \in Exporters : Publishing(e, d)
       \/ /\ \A o, p \in ToSet(Objects) : dump[d][o] = dump[d][p]
          /\ d \in spoiled \/ issued[d] \subseteq dump[d]["executions"].fills

\* A published day shows the positions of that day, or none: others only after
\* a collection for the day was made, or reached TWS, on another day.
PositionsOfTheDay ==
  \A d \in LedgerDays : dump[d]["positions"].taken \in {-1, 0, d} \/ d \in backdated

\* A published day is what it is taken for, but for what the two parts above
\* except: whole, of one report, with no fill gone and the positions of that day.
PublishedDays == DumpWhole /\ PositionsOfTheDay
=============================================================================
