--------------------------- MODULE MarketHistory ---------------------------
(***************************************************************************)
(* The daily bars the offline backtests read (data/daily) and the tools    *)
(* that fill them: research/fetch.py with research/nsdq250.py and          *)
(* research/window.py, tools/fetch_yf.py and tools/fetch_polygon.py.  A    *)
(* row is a session and the price basis (splits so far) it was written on; *)
(* sources serve every past session on the basis of the day they are       *)
(* asked.                                                                  *)
(***************************************************************************)
EXTENDS Integers, Sequences, SequencesExt, Functions, FiniteSetsExt

CONSTANTS
  Tickers,     \* sequence of the symbols of a list
  Dumps,       \* symbol -> sessions [start, end] of its objects in the bucket
  Listed,      \* symbol -> its first session at the sources
  LastSession, \* bound
  MinSpan,     \* the shortest and the longest window of a research run
  MaxSpan,
  Warmup,      \* sessions of slack before --extend prepends anything
  Overlap,     \* sessions --append compares
  Starts,      \* first sessions asked for
  MaxSplits    \* bound

ASSUME SpanAssumption == MinSpan \in Nat /\ MaxSpan \in Nat /\ MinSpan <= MaxSpan
\* The model begins after the longest window.
ASSUME BoundsAssumption == LastSession \in Nat /\ MaxSpan <= LastSession /\ MaxSplits \in Nat
ASSUME OverlapAssumption == Overlap \in Nat \ {0}
\* Sessions are counted from the first one; the dumps were made before the run of the model.
ASSUME SourcesAssumption ==
  /\ Tickers \in Seq(Range(Tickers)) /\ Starts \subseteq Nat \ {0}
  /\ \A s \in Range(Tickers) :
       /\ Listed[s] \in Nat \ {0}
       /\ Dumps[s] \subseteq {o \in (1 .. MaxSpan) \X (1 .. MaxSpan) : o[1] <= o[2]}

VARIABLES
  session,  \* the last one closed
  basis,    \* splits so far, at the sources
  daily,    \* symbol -> data/daily/<symbol>.csv: session -> basis
  job       \* the --extend run under way

historyVars == <<session, basis, daily, job>>

Names == Range(Tickers)
NoRows == <<>>
Days(file) == DOMAIN file
First(file) == Min(Days(file))
LastRow(file) == Max(Days(file))

\* A download of the sessions from start up to, not including, end.
Download(s, start, end) ==
  [d \in {x \in start .. session : x >= Listed[s] /\ x < end} |-> basis]
Tomorrow == session + 1

Joined(a, b) == [d \in DOMAIN a \cup DOMAIN b |-> IF d \in DOMAIN a THEN a[d] ELSE b[d]]

-----------------------------------------------------------------------------
(***************************************************************************)
(* The research window and the fill of what is missing.                    *)
(***************************************************************************)
Widest(s) ==
  CHOOSE o \in Dumps[s] : \A p \in Dumps[s] :
    <<o[2] - o[1], o[2]>> = <<p[2] - p[1], p[2]>> \/ o[2] - o[1] > p[2] - p[1]
    \/ (o[2] - o[1] = p[2] - p[1] /\ o[2] > p[2])

\* What each symbol can offer: its file, else its widest dump.
Spans ==
  {<<First(daily[s]), LastRow(daily[s])>> : s \in {x \in Names : daily[x] # NoRows}}
    \cup {Widest(s) : s \in {x \in Names : daily[x] = NoRows /\ Dumps[x] # {}}}

\* The sessions that all of them offer.
Common == <<Max({x[1] : x \in Spans}), Min({x[2] : x \in Spans})>>

\* Its length, cut to the longest window; nothing if it is too short to run.
Clamped(span) ==
  IF span[2] <= span[1] \/ span[2] - span[1] < MinSpan THEN {} ELSE {Min({span[2] - span[1], MaxSpan})}

\* What is asked of a source: all it may have, if no window was resolved.
SpanWanted ==
  IF Spans = {} \/ Clamped(Common) = {} THEN MaxSpan ELSE CHOOSE n \in Clamped(Common) : TRUE

\* sync_daily_symbol and _fetch_daily_via_api: the files they would write.
Synced(s) == IF Dumps[s] = {} THEN NoRows ELSE [d \in Widest(s)[1] .. Widest(s)[2] |-> 0]
ViaApi(s) == Download(s, session - SpanWanted, Tomorrow)

\* fetch_market_data for one symbol: a local file is left as it is; then the widest dump; then
\* the sources.  The bucket may fail, and so may they.
FetchMarketData(s) ==
  /\ daily[s] = NoRows /\ job.left = <<>>
  /\ \E file \in {Synced(s), ViaApi(s)} \ {NoRows} : daily' = [daily EXCEPT ![s] = file]
  /\ UNCHANGED <<session, basis, job>>

\* fetch_polygon.py stocks: a file that exists is skipped; with --force it is a FetchDaily.
FetchStocks(s, start) ==
  /\ daily[s] = NoRows /\ job.left = <<>>
  /\ Download(s, start, Tomorrow) # NoRows
  /\ daily' = [daily EXCEPT ![s] = Download(s, start, Tomorrow)]
  /\ UNCHANGED <<session, basis, job>>

-----------------------------------------------------------------------------
(***************************************************************************)
(* fetch_yf.py: the whole history, --extend and --append.                  *)
(***************************************************************************)
FetchDaily(s, start) ==
  /\ job.left = <<>>
  /\ Download(s, start, Tomorrow) # NoRows
  /\ daily' = [daily EXCEPT ![s] = Download(s, start, Tomorrow)]
  /\ UNCHANGED <<session, basis, job>>

StartExtend(start) ==
  /\ job.left = <<>>
  /\ job' = [left |-> Tickers, start |-> start, end |-> Tomorrow]
  /\ UNCHANGED <<session, basis, daily>>

\* Mutant: the join is not looked at.
ContinuousUnlooked(older, file) == TRUE

\* No split between the last row to prepend and the first one of the file.
Continuous(older, file) == older # NoRows => older[LastRow(older)] = file[First(file)]

\* One symbol of the list.  The loop's end is set for a file that exists and stays set for the
\* symbols after it.
ExtendStep ==
  /\ job.left # <<>>
  /\ LET s == Head(job.left)
         file == daily[s]
         early == file # NoRows /\ First(file) <= job.start + Warmup
         end == IF file # NoRows /\ ~early THEN First(file) - 1 ELSE job.end
         got == Download(s, job.start, end)
         older == [d \in {x \in Days(got) : x < First(file)} |-> got[d]]
     IN /\ job' = [job EXCEPT !.left = Tail(@), !.end = end]
        /\ \/ UNCHANGED daily      \* skipped, empty or refused
           \/ /\ ~early /\ got # NoRows
              /\ IF file = NoRows THEN daily' = [daily EXCEPT ![s] = got]
                 ELSE Continuous(older, file) /\ daily' = [daily EXCEPT ![s] = Joined(file, older)]
  /\ UNCHANGED <<session, basis>>

\* Mutant: a mismatch of the overlap is not looked at.
AgreesUnlooked(file, got) == TRUE

Agrees(file, got) ==
  LET both == {d \in Days(got) \cap Days(file) : d > LastRow(file) - Overlap}
  IN both # {} /\ \A d \in both : got[d] = file[d]

\* Mutant: the batch is written instead of the file with its new rows.
AppendedAlone(s, from) ==
  LET got == Download(s, from, Tomorrow)
  IN IF daily[s] # NoRows /\ Agrees(daily[s], got) THEN got ELSE daily[s]

Appended(s, from) ==
  LET file == daily[s]
      got == Download(s, from, Tomorrow)
  IN IF file # NoRows /\ Agrees(file, got)
     THEN Joined(file, [d \in {x \in Days(got) : x > LastRow(file)} |-> got[d]])
     ELSE file

\* One batch for all the files, from the oldest end of them; a part may come back empty.
AppendDaily ==
  /\ job.left = <<>>
  /\ \E s \in Names : daily[s] # NoRows
  /\ LET from == Min({LastRow(daily[s]) : s \in {x \in Names : daily[x] # NoRows}}) - Overlap
     IN \E served \in SUBSET Names :
          daily' = [s \in Names |-> IF s \in served THEN Appended(s, from) ELSE daily[s]]
  /\ UNCHANGED <<session, basis, job>>

-----------------------------------------------------------------------------
HistoryInit ==
  /\ session = MaxSpan /\ basis = 0
  /\ daily = [s \in Names |-> NoRows]
  /\ job = [left |-> <<>>, start |-> 1, end |-> 1]

NextSession ==
  /\ session < LastSession /\ job.left = <<>>
  /\ session' = session + 1
  /\ \E split \in {0, 1} : basis + split <= MaxSplits /\ basis' = basis + split
  /\ UNCHANGED <<daily, job>>

HistoryNext ==
  \/ NextSession \/ ExtendStep \/ AppendDaily
  \/ \E s \in Names : FetchMarketData(s)
  \/ \E start \in Starts : StartExtend(start) \/ \E s \in Names : FetchDaily(s, start) \/ FetchStocks(s, start)

-----------------------------------------------------------------------------
(***************************************************************************)
(* Properties.                                                             *)
(***************************************************************************)
\* Files hold past sessions, on bases that have been.
HistoryTypeOK ==
  /\ session \in MaxSpan .. LastSession /\ basis \in 0 .. MaxSplits
  /\ \A s \in Names : \A d \in Days(daily[s]) : d \in 1 .. session /\ daily[s][d] \in 0 .. basis
  /\ job.left = <<>> \/ Head(job.left) \in Names

\* No file mixes rows from before and after a split, and none has a hole of more than the one
\* session that --extend leaves before the old first row (fetch_daily, append_daily).
HistorySound ==
  \A s \in Names : \A d \in Days(daily[s]) :
    /\ daily[s][d] = daily[s][First(daily[s])]
    /\ d = LastRow(daily[s]) \/ {d + 1, d + 2} \cap Days(daily[s]) # {}

\* But for a fetch of the whole history, no run of a tool changes or drops a row it finds.
HistoryKept ==
  [][\/ \E s \in Names, start \in Starts : FetchDaily(s, start)
     \/ \A s \in Names : \A d \in Days(daily[s]) :
          d \in Days(daily'[s]) /\ daily'[s][d] = daily[s][d]]_historyVars
=============================================================================
