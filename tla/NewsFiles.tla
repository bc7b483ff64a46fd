----------------------------- MODULE NewsFiles -----------------------------
(***************************************************************************)
(* The files the sentiment fetchers merge into                             *)
(* (waystone_backtests/ml/sentiment/fetch_free_sentiment.py): articles and *)
(* filings by symbol and url, series (fear and greed, put/call ratio, tone *)
(* and volume of news) by date; and the option chain by the day it was     *)
(* taken (tools/fetch_polygon.py).                                         *)
(***************************************************************************)
EXTENDS Integers, FiniteSets

CONSTANTS
  Articles,   \* [url, day, late, filing]; late: accepted after 17:30
  NewsStarts, \* first days asked for
  LastNewsDay \* bound

\* An article is known by its url.
ASSUME ArticlesAssumption == \A a, b \in Articles : a.url = b.url => a = b
\* Days are counted from the first one.
ASSUME NewsDaysAssumption == NewsStarts \subseteq Nat \ {0} /\ LastNewsDay \in Nat \ {0}

VARIABLES
  newsDay, \* today
  news,    \* data/news and data/events: rows [url, date, scored]
  series,  \* data/macro/<name>.csv: date -> the day its value was read
  chain    \* data/chains/<name>.csv: rows [taken, spot]

newsVars == <<newsDay, news, series, chain>>

-----------------------------------------------------------------------------
\* Mutant: the file is replaced by what was fetched.
MergeNewsOver(old, new) == new

\* Of two rows of a url the file's stands, scored or not (_merge_news).
MergeNews(old, new) == old \cup {a \in new : \A b \in old : a.url # b.url}

\* Of two values of a date the fetched one stands (_merge_series).
MergeSeries(old, new) == [d \in DOMAIN old \cup DOMAIN new |-> IF d \in DOMAIN new THEN new[d] ELSE old[d]]

\* A filing accepted after the cut-off counts from the next day.
EffectiveDate(a) == IF a.filing /\ a.late THEN a.day + 1 ELSE a.day

\* What a source serves today: articles come with a score from the day after.
Served(from, filing) ==
  {[url |-> a.url, date |-> EffectiveDate(a), scored |-> ~filing /\ a.day < newsDay] :
     a \in {b \in Articles : b.filing = filing /\ b.day \in from .. newsDay}}

\* Articles come page by page, in order; a page that fails ends the fetch.
FetchNews(from) ==
  /\ \E cut \in 1 .. newsDay + 1 :
       news' = MergeNews(news, {a \in Served(from, FALSE) : a.date < cut})
  /\ UNCHANGED <<newsDay, series, chain>>

\* Filings come at once, from the company's submissions or from the search.
FetchFilings(from) ==
  /\ news' = MergeNews(news, Served(from, TRUE))
  /\ UNCHANGED <<newsDay, series, chain>>

FetchSeries(from) ==
  /\ series' = MergeSeries(series, [d \in from .. newsDay |-> newsDay])
  /\ UNCHANGED <<newsDay, news, chain>>

\* The day's chain replaces one taken earlier that day; the file's other days stay.
FetchChain(spot) ==
  /\ chain' = {r \in chain : r.taken # newsDay} \cup {[taken |-> newsDay, spot |-> spot]}
  /\ UNCHANGED <<newsDay, news, series>>

NextDay ==
  /\ newsDay < LastNewsDay
  /\ newsDay' = newsDay + 1
  /\ UNCHANGED <<news, series, chain>>

NewsInit == newsDay = 1 /\ news = {} /\ series = <<>> /\ chain = {}

NewsNext ==
  \/ NextDay
  \/ \E from \in NewsStarts : FetchNews(from) \/ FetchFilings(from) \/ FetchSeries(from)
  \/ \E spot \in {1, 2} : FetchChain(spot)

-----------------------------------------------------------------------------
\* The files hold what was published and read.
NewsTypeOK ==
  /\ newsDay \in 1 .. LastNewsDay
  /\ \A r \in news : \E a \in Articles : a.url = r.url /\ r.date \in {a.day, a.day + 1}
  /\ DOMAIN series \subseteq 1 .. newsDay
  /\ \A r \in chain : r.taken \in 1 .. newsDay

\* However fetches overlap and fail, no article, filing, date or chain of an earlier day is
\* dropped, no url has two rows, and no value of a date gives way to an older reading
\* ("merges into the existing file on (symbol, url) or (date) and never drops rows").
NewsKept ==
  [][/\ \A r \in news : r \in news'
     /\ \A r, q \in news' : r.url = q.url => r = q
     /\ \A d \in DOMAIN series : d \in DOMAIN series' /\ series'[d] >= series[d]
     /\ \A r \in chain : r.taken < newsDay => r \in chain']_newsVars
=============================================================================
