---------------------------- MODULE LoaderProofs ----------------------------
(***************************************************************************)
(* Proofs about Loader: types, and that raw, core and derived agree.       *)
(***************************************************************************)
EXTENDS Loader, WellFoundedInduction, TLAPS

\* Whatever is known of an object is a text that object may contain.
TextsInv ==
  /\ \A u \in Uris : bucket[u].text # None => bucket[u].text \in TextsOf[u] /\ bucket[u].gen > 0
  /\ \A u \in Uris : version[u].text # None => version[u].text \in TextsOf[u]
  /\ \A r \in Runs : \A object \in todo[r] : object.text \in TextsOf[object.uri]
  /\ \A r \in Runs : held[r] # None => held[r].text \in TextsOf[held[r].uri]

Typed == TypeOK /\ TextsInv

-----------------------------------------------------------------------------
(***************************************************************************)
(* What the operators on rows return.                                      *)
(***************************************************************************)

\* A file of an object with a text it may contain is known.
LEMMA FileIsId ==
  ASSUME NEW object \in Objects, object.text \in TextsOf[object.uri]
  PROVE  File(object) \in Ids
  BY DEF File, Ids, Objects

\* The ways of writing rows keep every row's file known.
LEMMA RowsTyped ==
  ASSUME NEW rows \in RowSets, NEW file \in Ids
  PROVE  /\ RowsDropped(rows, file) \in RowSets
         /\ Inserted(rows, file) \in RowSets
         /\ Upserted(rows, file) \in RowSets
  BY DEF RowSets, RowsDropped, Inserted, Upserted

\* So do the ways of dropping them.
LEMMA DropsTyped ==
  ASSUME NEW rows \in RowSets, NEW seen, NEW last
  PROVE  Kept(rows, last) \in RowSets /\ Dropped(rows, seen, last) \in RowSets
  BY DEF RowSets, Kept, Dropped

\* Registering an object keeps the types of what it writes.
LEMMA RegisterTyped ==
  ASSUME Typed, NEW object \in Objects, object.text \in TextsOf[object.uri],
         NEW status \in {"PENDING", "PARSED", "SKIPPED", "FAILED"},
         Register(object, status)
  PROVE  /\ version' \in [Uris -> Versions] /\ latest' \in DaySets /\ raced' \in BOOLEAN
         /\ \A u \in Uris : version'[u].text # None => version'[u].text \in TextsOf[u]
<1>1. File(object) \in Ids
  BY FileIsId
<1>2. object.uri \in Uris /\ object.text \in Texts /\ object.gen \in 1 .. MaxUploads
  BY DEF Objects
<1>3. MaxUploads \in Nat
  BY MaxAssumption
<1>4. version' \in [Uris -> Versions]
  BY <1>2, <1>3 DEF Typed, TypeOK, Register, Versions
<1>5. latest' \in DaySets
  BY <1>1, <1>2 DEF Typed, TypeOK, Register, DaySets, Days, File
<1>6. raced' \in BOOLEAN
  BY Zenon DEF Typed, TypeOK, Register
<1>7. \A u \in Uris : version'[u].text # None => version'[u].text \in TextsOf[u]
  BY <1>2 DEF Typed, TypeOK, TextsInv, Register, Versions
<1> QED
  BY <1>4, <1>5, <1>6, <1>7

\* So does recording a failure.
LEMMA FailureTyped ==
  ASSUME Typed, NEW object \in Objects, object.text \in TextsOf[object.uri],
         RecordFailure(object)
  PROVE  /\ version' \in [Uris -> Versions] /\ latest' \in DaySets /\ raced' \in BOOLEAN
         /\ lines' \subseteq Ids
         /\ \A u \in Uris : version'[u].text # None => version'[u].text \in TextsOf[u]
<1>1. CASE Register(object, "FAILED") /\ lines' = LinesDropped(object.uri, File(object))
  <2>1. lines' \subseteq Ids
    BY <1>1 DEF Typed, TypeOK, LinesDropped
  <2> QED
    BY <1>1, <2>1, RegisterTyped
<1>2. CASE UNCHANGED <<version, latest, lines, raced>>
  BY <1>2 DEF Typed, TypeOK, TextsInv
<1> QED
  BY <1>1, <1>2 DEF RecordFailure

-----------------------------------------------------------------------------
(***************************************************************************)
(* Types.                                                                  *)
(***************************************************************************)

\* An upload keeps the types.
LEMMA UploadTyped ==
  ASSUME Typed, NEW u \in Uris, NEW text \in TextsOf[u], Upload(u, text)
  PROVE  Typed'
<1>1. MaxUploads \in Nat /\ text \in Texts
  BY MaxAssumption, UrisAssumption
<1>2. uploads \in Nat /\ uploads' \in 1 .. MaxUploads
  BY <1>1 DEF Typed, TypeOK, Upload
<1>3. bucket' \in [Uris -> [text : Texts \cup {None}, gen : 0 .. MaxUploads]]
  BY <1>1, <1>2 DEF Typed, TypeOK, Upload
<1>4. \A v \in Uris : bucket'[v].text # None =>
        bucket'[v].text \in TextsOf[v] /\ bucket'[v].gen > 0
  BY <1>1, <1>2 DEF Typed, TypeOK, TextsInv, Upload
<1>5. TypeOK'
  BY <1>2, <1>3 DEF Typed, TypeOK, Upload, tables, run
<1>6. TextsInv'
  BY <1>4 DEF Typed, TextsInv, Upload, tables, run
<1> QED
  BY <1>5, <1>6 DEF Typed

\* A run lists what is there.
LEMMA StartTyped ==
  ASSUME Typed, NEW r \in Runs, Start(r)
  PROVE  Typed'
<1>1. \A object \in Listing(JobOf[r]) : object \in Objects /\ object.text \in TextsOf[object.uri]
  <2> SUFFICES ASSUME NEW v \in Uris, bucket[v].text # None
               PROVE  LET object == [uri |-> v, text |-> bucket[v].text, gen |-> bucket[v].gen]
                      IN  object \in Objects /\ object.text \in TextsOf[object.uri]
    BY DEF Listing
  <2>1. bucket[v].text \in TextsOf[v] /\ bucket[v].gen > 0
    BY DEF Typed, TextsInv
  <2>2. bucket[v].text \in Texts /\ bucket[v].gen \in 1 .. MaxUploads
    BY <2>1, MaxAssumption DEF Typed, TypeOK
  <2> QED
    BY <2>1, <2>2 DEF Objects
<1>2. todo' \in [Runs -> SUBSET Objects]
  BY <1>1 DEF Typed, TypeOK, Start
<1>3. \A q \in Runs : \A object \in todo'[q] : object.text \in TextsOf[object.uri]
  BY <1>1 DEF Typed, TypeOK, TextsInv, Start
<1>4. TypeOK'
  BY <1>2 DEF Typed, TypeOK, Start, tables
<1>5. TextsInv'
  BY <1>3 DEF Typed, TextsInv, Start, tables
<1> QED
  BY <1>4, <1>5 DEF Typed

\* A run comes to an object it has listed.
LEMMA FetchingTyped ==
  ASSUME Typed, NEW r \in Runs, NEW object, Fetching(r, object)
  PROVE  /\ object \in Objects /\ object.text \in TextsOf[object.uri]
         /\ todo' \in [Runs -> SUBSET Objects]
         /\ \A q \in Runs : \A o \in todo'[q] : o.text \in TextsOf[o.uri]
         /\ \A q \in Runs : todo'[q] \subseteq todo[q]
  BY DEF Typed, TypeOK, TextsInv, Fetching

\* Skipping, refreshing and reading an object keep the types.
LEMMA FetchedTyped ==
  ASSUME Typed, NEW r \in Runs, NEW object,
         Skip(r, object) \/ Refresh(r, object) \/ Read(r, object)
  PROVE  Typed'
<1>1. Fetching(r, object)
  BY DEF Skip, Refresh, Read
<1>2. /\ object \in Objects /\ object.text \in TextsOf[object.uri]
      /\ todo' \in [Runs -> SUBSET Objects]
      /\ \A q \in Runs : \A o \in todo'[q] : o.text \in TextsOf[o.uri]
      /\ \A q \in Runs : todo'[q] \subseteq todo[q]
  BY <1>1, FetchingTyped
<1>3. CASE Skip(r, object)
  <2>1. TypeOK'
    BY <1>2, <1>3 DEF Typed, TypeOK, Skip, tables
  <2>2. TextsInv'
    BY <1>2, <1>3 DEF Typed, TextsInv, Skip, tables
  <2> QED
    BY <2>1, <2>2 DEF Typed
<1>4. CASE Refresh(r, object)
  <2>1. object.uri \in Uris /\ object.gen \in 0 .. MaxUploads
    BY <1>2, MaxAssumption DEF Objects
  <2>2. version' \in [Uris -> Versions]
    BY <1>4, <2>1 DEF Typed, TypeOK, Refresh, Versions
  <2>3. \A u \in Uris : version'[u].text = version[u].text
    BY <1>4 DEF Typed, TypeOK, Refresh, Versions
  <2>4. TypeOK'
    BY <1>2, <1>4, <2>2 DEF Typed, TypeOK, Refresh
  <2>5. TextsInv'
    BY <1>2, <1>4, <2>3 DEF Typed, TextsInv, Refresh
  <2> QED
    BY <2>4, <2>5 DEF Typed
<1>5. CASE Read(r, object)
  <2>1. held' \in [Runs -> Objects \cup {None}]
    BY <1>2, <1>5 DEF Typed, TypeOK, Read
  <2>2. \A q \in Runs : held'[q] # None => held'[q].text \in TextsOf[held'[q].uri]
    BY <1>2, <1>5 DEF Typed, TypeOK, TextsInv, Read
  <2>3. \A q \in Runs : pc'[q] # "load" => held'[q] = None
    BY <1>1, <1>5 DEF Typed, TypeOK, Read, Fetching
  <2>4. TypeOK'
    BY <1>2, <1>5, <2>1, <2>3 DEF Typed, TypeOK, Read, tables
  <2>5. TextsInv'
    BY <1>2, <1>5, <2>2 DEF Typed, TextsInv, Read, tables
  <2> QED
    BY <2>4, <2>5 DEF Typed
<1> QED
  BY <1>3, <1>4, <1>5

\* A read that fails, recorded or not, keeps the types.
LEMMA ReadFailsTyped ==
  ASSUME Typed, NEW r \in Runs, NEW object, ReadFails(r, object)
  PROVE  Typed'
<1>1. /\ object \in Objects /\ object.text \in TextsOf[object.uri]
      /\ todo' \in [Runs -> SUBSET Objects]
      /\ \A q \in Runs : \A o \in todo'[q] : o.text \in TextsOf[o.uri]
      /\ \A q \in Runs : todo'[q] \subseteq todo[q]
  BY FetchingTyped DEF ReadFails
<1>2. /\ version' \in [Uris -> Versions] /\ latest' \in DaySets /\ raced' \in BOOLEAN
      /\ lines' \subseteq Ids
      /\ \A u \in Uris : version'[u].text # None => version'[u].text \in TextsOf[u]
  <2>1. CASE UNCHANGED <<version, latest, lines, raced>>
    BY <2>1 DEF Typed, TypeOK, TextsInv
  <2>2. CASE RecordFailure(object)
    BY <1>1, <2>2, FailureTyped
  <2> QED
    BY <2>1, <2>2 DEF ReadFails
<1>3. failures' \in 0 .. MaxFailures
  BY MaxAssumption DEF Typed, TypeOK, ReadFails
<1>4. TypeOK'
  BY <1>1, <1>2, <1>3 DEF Typed, TypeOK, ReadFails
<1>5. TextsInv'
  BY <1>1, <1>2 DEF Typed, TextsInv, ReadFails
<1> QED
  BY <1>4, <1>5 DEF Typed

\* A run stores what it has read, which is an object it has listed.
LEMMA StoringTyped ==
  ASSUME Typed, NEW r \in Runs, Storing(r)
  PROVE  /\ held[r] \in Objects /\ held[r].text \in TextsOf[held[r].uri]
         /\ held' \in [Runs -> Objects \cup {None}]
         /\ \A q \in Runs : held'[q] = None \/ held'[q] = held[q]
         /\ \A q \in Runs : held'[q] # None => held'[q].text \in TextsOf[held'[q].uri]
  BY DEF Typed, TypeOK, TextsInv, Storing

\* The status a stored file gets is a status.
LEMMA StoreTyped ==
  ASSUME Typed, NEW r \in Runs, Store(r)
  PROVE  Typed'
<1> DEFINE object == held[r]
           file == File(object)
<1>1. /\ object \in Objects /\ object.text \in TextsOf[object.uri]
      /\ held' \in [Runs -> Objects \cup {None}]
      /\ \A q \in Runs : held'[q] = None \/ held'[q] = held[q]
      /\ \A q \in Runs : held'[q] # None => held'[q].text \in TextsOf[held'[q].uri]
  BY StoringTyped DEF Store
<1>2. file \in Ids /\ file[1] \in Uris /\ file[2] \in Texts /\ file[1] = object.uri
  BY <1>1, FileIsId DEF File, Objects
<1>3. /\ version' \in [Uris -> Versions] /\ latest' \in DaySets /\ raced' \in BOOLEAN
      /\ \A u \in Uris : version'[u].text # None => version'[u].text \in TextsOf[u]
  BY <1>1, RegisterTyped DEF Store
<1>4. lines' \subseteq Ids
  BY <1>2 DEF Typed, TypeOK, Store, LinesDropped
<1>5. /\ trades' \in RowSets /\ fills' \in RowSets
      /\ sessions' \in DaySets /\ replays' \in DaySets
      /\ instruments' \subseteq {Symbol[t] : t \in Texts}
  <2>1. CASE WritePaper(file)
    <3>1. trades' \in RowSets /\ fills' \in RowSets
      BY <1>2, <2>1, RowsTyped DEF Typed, TypeOK, WritePaper
    <3>2. sessions' \in DaySets
      BY <1>2, <2>1 DEF Typed, TypeOK, WritePaper, DaySets
    <3> QED
      BY <1>2, <2>1, <3>1, <3>2 DEF Typed, TypeOK, WritePaper
  <2>2. CASE WriteReplay(file)
    BY <1>2, <2>2 DEF Typed, TypeOK, WriteReplay, DaySets
  <2>3. CASE UNCHANGED <<trades, fills, sessions, replays, instruments>>
    BY <2>3 DEF Typed, TypeOK
  <2> QED
    BY <2>1, <2>2, <2>3 DEF Store
<1>6. touched' \in [Runs -> BOOLEAN]
  BY DEF Typed, TypeOK, Store
<1>7. \A q \in Runs : pc'[q] # "load" =>
        held'[q] = None /\ todo'[q] = {} /\ ~touched'[q] /\ dangling'[q] = {}
  BY <1>1 DEF Typed, TypeOK, Store, Storing
<1>8. TypeOK'
  BY <1>1, <1>3, <1>4, <1>5, <1>6, <1>7 DEF Typed, TypeOK, Store
<1>9. TextsInv'
  BY <1>1, <1>3 DEF Typed, TextsInv, Store
<1> QED
  BY <1>8, <1>9 DEF Typed

\* A file that cannot be stored leaves the types as they were.
LEMMA StoreFailsTyped ==
  ASSUME Typed, NEW r \in Runs, StoreFails(r)
  PROVE  Typed'
<1>1. /\ held[r] \in Objects /\ held[r].text \in TextsOf[held[r].uri]
      /\ held' \in [Runs -> Objects \cup {None}]
      /\ \A q \in Runs : held'[q] = None \/ held'[q] = held[q]
      /\ \A q \in Runs : held'[q] # None => held'[q].text \in TextsOf[held'[q].uri]
  BY StoringTyped DEF StoreFails
<1>2. /\ version' \in [Uris -> Versions] /\ latest' \in DaySets /\ raced' \in BOOLEAN
      /\ lines' \subseteq Ids
      /\ \A u \in Uris : version'[u].text # None => version'[u].text \in TextsOf[u]
  BY <1>1, FailureTyped DEF StoreFails
<1>3. failures' \in 0 .. MaxFailures
  BY MaxAssumption DEF Typed, TypeOK, StoreFails
<1>4. held[r].text \in Texts
  BY <1>1 DEF Objects
<1>5. dangling' \in [Runs -> SUBSET {Symbol[t] : t \in Texts}]
  BY <1>4 DEF Typed, TypeOK, StoreFails
<1>6. \A q \in Runs : pc'[q] # "load" =>
        held'[q] = None /\ todo'[q] = {} /\ ~touched'[q] /\ dangling'[q] = {}
  BY <1>1 DEF Typed, TypeOK, StoreFails, Storing
<1>7. TypeOK'
  BY <1>1, <1>2, <1>3, <1>5, <1>6 DEF Typed, TypeOK, StoreFails
<1>8. TextsInv'
  BY <1>1, <1>2 DEF Typed, TextsInv, StoreFails
<1> QED
  BY <1>7, <1>8 DEF Typed

\* Ending the loading keeps the types.
LEMMA LoadsDoneTyped ==
  ASSUME Typed, NEW r \in Runs, LoadsDone(r)
  PROVE  Typed'
<1>1. TypeOK'
  BY DEF Typed, TypeOK, LoadsDone, Forget, tables
<1>2. TextsInv'
  BY DEF Typed, TextsInv, LoadsDone, tables
<1> QED
  BY <1>1, <1>2 DEF Typed

\* Reading the trades keeps the types.
LEMMA ReadTradesTyped ==
  ASSUME Typed, NEW r \in Runs, ReadTrades(r)
  PROVE  Typed'
<1>1. TypeOK'
  BY DEF Typed, TypeOK, ReadTrades, tables
<1>2. TextsInv'
  BY DEF Typed, TextsInv, ReadTrades, tables
<1> QED
  BY <1>1, <1>2 DEF Typed

\* The empty snapshot is a snapshot.
LEMMA NoSnapTyped ==
  /\ NoRows \in RowSets /\ NoFiles \in DaySets
  /\ NoSnap \in [trades : RowSets, fills : RowSets, latest : DaySets]
  BY DEF NoSnap, NoRows, NoFiles, RowSets, DaySets

\* Reparsing changes the status of replays and the files of their rows.
LEMMA ReparseTyped ==
  ASSUME Typed, Reparse
  PROVE  /\ version' \in [Uris -> Versions] /\ replays' \in DaySets
         /\ \A u \in Uris : version'[u].text = version[u].text /\ version'[u].gen = version[u].gen
         /\ \A u \in Uris : KindOf[u] # "backtest_daily" => version'[u] = version[u]
<1>1. \A u \in Uris : /\ version'[u] \in Versions
                      /\ version'[u].text = version[u].text /\ version'[u].gen = version[u].gen
  <2> SUFFICES ASSUME NEW u \in Uris
               PROVE  /\ version'[u] \in Versions
                      /\ version'[u].text = version[u].text /\ version'[u].gen = version[u].gen
    OBVIOUS
  <2>1. version[u] \in Versions
    BY DEF Typed, TypeOK
  <2>2. \/ version'[u] = version[u]
        \/ \E status \in {"PARSED", "SKIPPED"} :
             version'[u] = [version[u] EXCEPT !.status = status]
    BY DEF Reparse
  <2> QED
    BY <2>1, <2>2 DEF Versions
<1>2. version' \in [Uris -> Versions]
  BY <1>1 DEF Reparse
<1>3. \A u \in Uris : KindOf[u] # "backtest_daily" => version'[u] = version[u]
  BY DEF Reparse, Candidates
<1>4. ASSUME NEW d \in Days, NEW u \in Candidates(d)
      PROVE  Current(u) \in Ids
  BY <1>4 DEF Typed, TypeOK, TextsInv, Candidates, Current, Ids, Versions
<1>5. \A d \in Days : replays'[d] \in Ids \cup {None}
  <2> SUFFICES ASSUME NEW d \in Days
               PROVE  replays'[d] \in Ids \cup {None}
    OBVIOUS
  <2>1. CASE \E u \in Candidates(d) : Chosen(u)
    <3>1. (CHOOSE u \in Candidates(d) : Chosen(u)) \in Candidates(d)
      BY <2>1
    <3>2. replays'[d] = Current(CHOOSE u \in Candidates(d) : Chosen(u))
      BY <2>1, Zenon DEF Reparse
    <3> QED
      BY <1>4, <3>1, <3>2
  <2>2. CASE ~\E u \in Candidates(d) : Chosen(u)
    BY <2>2 DEF Reparse, Typed, TypeOK, DaySets
  <2> QED
    BY <2>1, <2>2
<1>6. replays' \in DaySets
  BY <1>5 DEF Reparse, DaySets
<1> QED
  BY <1>1, <1>2, <1>3, <1>6

\* A recomputation keeps the types.
LEMMA WriteDerivedTyped ==
  ASSUME Typed, NEW r \in Runs, WriteDerived(r)
  PROVE  Typed'
<1>1. /\ version' \in [Uris -> Versions] /\ replays' \in DaySets
      /\ \A u \in Uris : version'[u].text = version[u].text
  BY ReparseTyped DEF WriteDerived, Typed, TypeOK
<1>2. trades' \in RowSets /\ fills' \in RowSets
  BY DropsTyped DEF Typed, TypeOK, WriteDerived
<1>3. Kept(snap[r].trades, snap[r].latest) \in RowSets
  BY DropsTyped DEF Typed, TypeOK
<1>4. derived' \in RowSets \X DaySets \X DaySets
  BY <1>1, <1>3 DEF Typed, TypeOK, WriteDerived
<1>5. TypeOK'
  BY <1>1, <1>2, <1>4, NoSnapTyped DEF Typed, TypeOK, WriteDerived
<1>6. TextsInv'
  BY <1>1 DEF Typed, TextsInv, WriteDerived
<1> QED
  BY <1>5, <1>6 DEF Typed

\* A run that dies keeps the types.
LEMMA RunFailsTyped ==
  ASSUME Typed, NEW r \in Runs, RunFails(r)
  PROVE  Typed'
<1>1. failures' \in 0 .. MaxFailures
  BY MaxAssumption DEF Typed, TypeOK, RunFails
<1>2. TypeOK'
  BY <1>1, NoSnapTyped DEF Typed, TypeOK, RunFails, Forget, tables
<1>3. TextsInv'
  BY DEF Typed, TextsInv, RunFails, tables
<1> QED
  BY <1>2, <1>3 DEF Typed

\* The types hold at first.
LEMMA InitTyped == Init => Typed
<1> SUFFICES ASSUME Init
             PROVE  Typed
  OBVIOUS
<1>1. derived \in RowSets \X DaySets \X DaySets
  BY NoSnapTyped DEF Init
<1>2. /\ bucket \in [Uris -> [text : Texts \cup {None}, gen : 0 .. MaxUploads]]
      /\ version \in [Uris -> Versions]
      /\ uploads \in 0 .. MaxUploads /\ failures \in 0 .. MaxFailures
  BY MaxAssumption DEF Init, Absent, Versions
<1>3. /\ lines \subseteq Ids /\ instruments \subseteq {Symbol[t] : t \in Texts}
      /\ latest \in DaySets /\ sessions \in DaySets /\ replays \in DaySets
      /\ trades \in RowSets /\ fills \in RowSets
      /\ failed \in BOOLEAN /\ raced \in BOOLEAN
  BY NoSnapTyped DEF Init
<1>4. /\ pc \in [Runs -> {"idle", "load", "compute", "write"}]
      /\ todo \in [Runs -> SUBSET Objects]
      /\ held \in [Runs -> Objects \cup {None}]
      /\ touched \in [Runs -> BOOLEAN]
      /\ dangling \in [Runs -> SUBSET {Symbol[t] : t \in Texts}]
      /\ snap \in [Runs -> [trades : RowSets, fills : RowSets, latest : DaySets]]
      /\ \A r \in Runs : held[r] = None /\ todo[r] = {} /\ ~touched[r] /\ dangling[r] = {}
  BY NoSnapTyped DEF Init
<1>5. TypeOK
  BY <1>1, <1>2, <1>3, <1>4 DEF TypeOK
<1>6. TextsInv
  BY DEF Init, TextsInv, Absent
<1> QED
  BY <1>5, <1>6 DEF Typed

\* Every step keeps them.
LEMMA NextTyped == Typed /\ [Next]_vars => Typed'
<1> SUFFICES ASSUME Typed, [Next]_vars
             PROVE  Typed'
  OBVIOUS
<1>1. ASSUME NEW u \in Uris, NEW text \in TextsOf[u], Upload(u, text)
      PROVE  Typed'
  BY <1>1, UploadTyped
<1>2. ASSUME NEW r \in Runs, Start(r)
      PROVE  Typed'
  BY <1>2, StartTyped
<1>3. ASSUME NEW r \in Runs, Progress(r)
      PROVE  Typed'
  BY <1>3, FetchedTyped, StoreTyped, LoadsDoneTyped, ReadTradesTyped, WriteDerivedTyped
     DEF Progress
<1>4. ASSUME NEW r \in Runs, Fails(r)
      PROVE  Typed'
  BY <1>4, ReadFailsTyped, StoreFailsTyped, RunFailsTyped DEF Fails
<1>5. CASE UNCHANGED vars
  <2>1. TypeOK'
    BY <1>5 DEF Typed, TypeOK, vars, tables, run
  <2>2. TextsInv'
    BY <1>5 DEF Typed, TextsInv, vars, tables, run
  <2> QED
    BY <2>1, <2>2 DEF Typed
<1> QED
  BY <1>1, <1>2, <1>3, <1>4, <1>5 DEF Next

LEMMA AlwaysTyped == Spec => []Typed
  BY InitTyped, NextTyped, PTL DEF Spec

\* Every variable of the loader has its type, for any objects, texts and jobs.
THEOREM Typing == Spec => []TypeOK
<1>1. Typed => TypeOK
  BY DEF Typed
<1> QED
  BY <1>1, AlwaysTyped, PTL

-----------------------------------------------------------------------------
(***************************************************************************)
(* raw and core.                                                           *)
(***************************************************************************)

\* Trades come from logs, and the last loaded log of a session is a current one.
PaperInv ==
  /\ \A k \in Keys : trades[k] # None => KindOf[trades[k][1]] = "paper_log"
  /\ \A d \in Days : latest[d] # None =>
       /\ KindOf[latest[d][1]] = "paper_log"
       /\ DayOf[latest[d][1]] = d
       /\ version[latest[d][1]].text = latest[d][2]

TablesInv == RawWhole /\ RowsOfCurrent /\ NothingLost /\ PaperInv

\* A step that only gives versions other generations keeps the tables right.
LEMMA TablesKept ==
  ASSUME Typed, TablesInv, UNCHANGED <<lines, latest, trades>>,
         \A u \in Uris : version'[u].text = version[u].text /\ version'[u].status = version[u].status
  PROVE  TablesInv'
<1>1. \A k \in Keys : trades[k] # None => trades[k][1] \in Uris
  BY DEF Typed, TypeOK, RowSets, Ids
<1>2. \A d \in Days : latest[d] # None => latest[d][1] \in Uris
  BY DEF Typed, TypeOK, DaySets, Ids
<1>3. \A file \in lines : file[1] \in Uris
  BY DEF Typed, TypeOK, Ids
<1>4. RawWhole'
  BY <1>3 DEF TablesInv, RawWhole, Current
<1>5. RowsOfCurrent'
  BY <1>1 DEF TablesInv, RowsOfCurrent
<1>6. NothingLost'
  BY <1>2 DEF TablesInv, NothingLost
<1>7. PaperInv'
  BY <1>2 DEF TablesInv, PaperInv
<1> QED
  BY <1>4, <1>5, <1>6, <1>7 DEF TablesInv

\* What registering an object changes, and what it does not.
LEMMA Registered ==
  ASSUME Typed, NEW object \in Objects, NEW status, Register(object, status)
  PROVE  /\ object.uri \in Uris /\ object.text \in Texts
         /\ version'[object.uri].text = object.text /\ version'[object.uri].status = status
         /\ \A u \in Uris \ {object.uri} : version'[u] = version[u]
         /\ IsPaper(object) => latest'[DayOf[object.uri]] = File(object)
         /\ \A d \in Days : (IsPaper(object) => d # DayOf[object.uri]) => latest'[d] = latest[d]
<1>1. object.uri \in Uris /\ object.text \in Texts
  BY DEF Objects
<1>2. DayOf[object.uri] \in Days
  BY <1>1 DEF Days
<1>3. version' = [version EXCEPT ![object.uri] =
                    [text |-> object.text, gen |-> object.gen, status |-> status]]
  BY DEF Register
<1>4. IsPaper(object) => latest' = [latest EXCEPT ![DayOf[object.uri]] = File(object)]
  BY DEF Register
<1>5. ~IsPaper(object) => latest' = latest
  BY DEF Register
<1>6. version \in [Uris -> Versions] /\ latest \in DaySets
  BY DEF Typed, TypeOK
<1>7. /\ version'[object.uri].text = object.text /\ version'[object.uri].status = status
      /\ \A u \in Uris \ {object.uri} : version'[u] = version[u]
  BY <1>1, <1>3, <1>6
<1>8. /\ IsPaper(object) => latest'[DayOf[object.uri]] = File(object)
      /\ \A d \in Days : (IsPaper(object) => d # DayOf[object.uri]) => latest'[d] = latest[d]
  BY <1>2, <1>4, <1>5, <1>6 DEF DaySets
<1> QED
  BY <1>1, <1>7, <1>8

\* Registering a log makes it the last loaded log of its session, and keeps what
\* holds of the others.
LEMMA RegisterPaper ==
  ASSUME Typed, TablesInv, NEW object \in Objects, NEW status, Register(object, status)
  PROVE  \A d \in Days : latest'[d] # None =>
           /\ KindOf[latest'[d][1]] = "paper_log" /\ DayOf[latest'[d][1]] = d
           /\ version'[latest'[d][1]].text = latest'[d][2]
<1>1. /\ object.uri \in Uris /\ object.text \in Texts
      /\ version'[object.uri].text = object.text
      /\ \A u \in Uris \ {object.uri} : version'[u] = version[u]
      /\ IsPaper(object) => latest'[DayOf[object.uri]] = File(object)
      /\ \A d \in Days : (IsPaper(object) => d # DayOf[object.uri]) => latest'[d] = latest[d]
  BY Registered
<1> SUFFICES ASSUME NEW d \in Days, latest'[d] # None
             PROVE  /\ KindOf[latest'[d][1]] = "paper_log" /\ DayOf[latest'[d][1]] = d
                    /\ version'[latest'[d][1]].text = latest'[d][2]
  OBVIOUS
<1>2. CASE IsPaper(object) /\ d = DayOf[object.uri]
  BY <1>1, <1>2 DEF File, IsPaper
<1>3. CASE IsPaper(object) => d # DayOf[object.uri]
  <2>1. latest'[d] = latest[d] /\ latest[d] \in Ids
    BY <1>1, <1>3 DEF Typed, TypeOK, DaySets
  <2>2. /\ KindOf[latest[d][1]] = "paper_log" /\ DayOf[latest[d][1]] = d
        /\ version[latest[d][1]].text = latest[d][2]
    BY <2>1 DEF TablesInv, PaperInv
  <2>3. latest[d][1] # object.uri
    BY <1>3, <2>2 DEF IsPaper
  <2> QED
    BY <1>1, <2>1, <2>2, <2>3 DEF Ids
<1> QED
  BY <1>2, <1>3

\* A failure on record keeps the tables right.
LEMMA FailureTables ==
  ASSUME Typed, TablesInv, NEW object \in Objects, object.text \in TextsOf[object.uri],
         RecordFailure(object), UNCHANGED trades
  PROVE  TablesInv'
<1>1. CASE UNCHANGED <<version, latest, lines, raced>>
  BY <1>1, TablesKept
<1>2. CASE Register(object, "FAILED") /\ lines' = LinesDropped(object.uri, File(object))
  <2>1. /\ object.uri \in Uris /\ object.text \in Texts
        /\ version'[object.uri].status = "FAILED"
        /\ \A u \in Uris \ {object.uri} : version'[u] = version[u]
        /\ IsPaper(object) => latest'[DayOf[object.uri]] = File(object)
        /\ \A d \in Days : (IsPaper(object) => d # DayOf[object.uri]) => latest'[d] = latest[d]
    BY <1>2, Registered
  <2>2. RawWhole'
    <3>1. \A file \in lines' : file \in lines /\ file[1] \in Uris \ {object.uri}
      BY <1>2 DEF LinesDropped, Typed, TypeOK, Ids
    <3>2. \A file \in lines' : version'[file[1]].text = file[2]
      BY <2>1, <3>1 DEF TablesInv, RawWhole
    <3>3. ASSUME NEW u \in Uris, KindOf[u] # "backtest_daily",
                 version'[u].status \in {"PARSED", "SKIPPED"}
          PROVE  Current(u)' \in lines'
      <4>1. u # object.uri
        BY <2>1, <3>3
      <4>2. version'[u] = version[u]
        BY <2>1, <4>1
      <4>3. Current(u) \in lines
        BY <3>3, <4>2 DEF TablesInv, RawWhole
      <4> QED
        BY <1>2, <4>1, <4>2, <4>3 DEF LinesDropped, Current
    <3> QED
      BY <3>2, <3>3 DEF RawWhole
  <2>3. RowsOfCurrent'
    <3> SUFFICES ASSUME NEW k \in Keys, trades[k] # None
                 PROVE  /\ k \in Trades[trades[k][2]]
                        /\ \/ version'[trades[k][1]].text = trades[k][2]
                           \/ version'[trades[k][1]].status = "FAILED"
      BY DEF RowsOfCurrent
    <3>1. trades[k][1] \in Uris
      BY DEF Typed, TypeOK, RowSets, Ids
    <3> QED
      BY <2>1, <3>1 DEF TablesInv, RowsOfCurrent
  <2>4. \A d \in Days : latest'[d] # None =>
          /\ KindOf[latest'[d][1]] = "paper_log" /\ DayOf[latest'[d][1]] = d
          /\ version'[latest'[d][1]].text = latest'[d][2]
    BY <1>2, RegisterPaper
  <2>5. NothingLost'
    <3> SUFFICES ASSUME NEW d \in Days, latest'[d] # None,
                        version'[latest'[d][1]].status = "PARSED",
                        NEW k \in Trades[latest'[d][2]]
                 PROVE  trades[k] = latest'[d]
      BY DEF NothingLost
    <3>1. CASE IsPaper(object) /\ d = DayOf[object.uri]
      BY <2>1, <3>1 DEF File
    <3>2. CASE IsPaper(object) => d # DayOf[object.uri]
      <4>1. latest'[d] = latest[d] /\ latest[d] \in Ids
        BY <2>1, <3>2 DEF Typed, TypeOK, DaySets
      <4>2. latest[d][1] # object.uri
        BY <2>1, <4>1
      <4>3. version[latest[d][1]].status = "PARSED"
        BY <2>1, <4>1, <4>2 DEF Ids
      <4> QED
        BY <4>1, <4>3 DEF TablesInv, NothingLost
    <3> QED
      BY <3>1, <3>2
  <2>6. PaperInv'
    BY <2>4 DEF TablesInv, PaperInv
  <2> QED
    BY <2>2, <2>3, <2>5, <2>6 DEF TablesInv
<1> QED
  BY <1>1, <1>2 DEF RecordFailure

\* What storing an object does to the trades: those it reports become its own, and
\* of the others none is from another version of it.
LEMMA StoredTrades ==
  ASSUME Typed, TablesInv, NEW r \in Runs, Store(r)
  PROVE  LET object == held[r] IN
         /\ IsPaper(object) =>
              \A k \in Keys :
                IF k \in Trades[object.text] THEN trades'[k] = File(object)
                ELSE trades'[k] = IF trades[k] # None /\ trades[k][1] = object.uri
                                  THEN None ELSE trades[k]
         /\ ~IsPaper(object) => trades' = trades
<1> DEFINE object == held[r]
           file == File(object)
<1>1. file[1] = object.uri /\ file[2] = object.text
  BY DEF File
<1>2. CASE IsPaper(object)
  <2>1. trades' = Upserted(RowsDropped(trades, file), file)
    BY <1>2 DEF Store, WritePaper, IsPaper
  <2> HIDE DEF file
  <2>2. \A k \in Keys :
          IF k \in Trades[file[2]] THEN trades'[k] = file
          ELSE trades'[k] = IF trades[k] # None /\ trades[k][1] = file[1] THEN None ELSE trades[k]
    BY <2>1 DEF Upserted, RowsDropped
  <2> QED
    BY <1>1, <1>2, <2>2 DEF file
<1>3. CASE ~IsPaper(object)
  <2>1. WriteReplay(file) \/ UNCHANGED <<trades, fills, sessions, replays, instruments>>
    BY <1>3 DEF Store, IsPaper
  <2> QED
    BY <1>3, <2>1 DEF WriteReplay
<1> QED
  BY <1>2, <1>3

\* Storing an object keeps the tables right.
LEMMA StoreTables ==
  ASSUME Typed, TablesInv, NEW r \in Runs, Store(r)
  PROVE  TablesInv'
<1> DEFINE object == held[r]
           file == File(object)
<1>1. object \in Objects /\ object.text \in TextsOf[object.uri]
  BY StoringTyped DEF Store
<1>2. PICK status \in {"PENDING", "PARSED", "SKIPPED", "FAILED"} : Register(object, status)
  BY DEF Store
<1>3. /\ object.uri \in Uris /\ object.text \in Texts
      /\ version'[object.uri].text = object.text
      /\ \A u \in Uris \ {object.uri} : version'[u] = version[u]
      /\ IsPaper(object) => latest'[DayOf[object.uri]] = file
      /\ \A d \in Days : (IsPaper(object) => d # DayOf[object.uri]) => latest'[d] = latest[d]
  BY <1>1, <1>2, Registered
<1>4. /\ IsPaper(object) =>
           \A k \in Keys :
             IF k \in Trades[object.text] THEN trades'[k] = file
             ELSE trades'[k] = IF trades[k] # None /\ trades[k][1] = object.uri
                               THEN None ELSE trades[k]
      /\ ~IsPaper(object) => trades' = trades
  BY StoredTrades
<1>5. lines' = LinesDropped(object.uri, file) \cup {file}
  BY DEF Store
<1>6. file[1] = object.uri /\ file[2] = object.text /\ file = <<object.uri, object.text>>
  BY DEF File
<1> HIDE DEF object, file
<1>7. RawWhole'
  <2>1. \A f \in lines' : f = file \/ (f \in lines /\ f[1] \in Uris \ {object.uri})
    BY <1>5 DEF LinesDropped, Typed, TypeOK, Ids
  <2>2. \A f \in lines' : version'[f[1]].text = f[2]
    BY <1>3, <1>6, <2>1 DEF TablesInv, RawWhole
  <2>3. ASSUME NEW u \in Uris, KindOf[u] # "backtest_daily",
               version'[u].status \in {"PARSED", "SKIPPED"}
        PROVE  Current(u)' \in lines'
    <3>1. CASE u = object.uri
      BY <1>3, <1>5, <1>6, <3>1 DEF Current
    <3>2. CASE u # object.uri
      <4>1. version'[u] = version[u]
        BY <1>3, <3>2
      <4>2. Current(u) \in lines
        BY <2>3, <4>1 DEF TablesInv, RawWhole
      <4> QED
        BY <1>5, <3>2, <4>1, <4>2 DEF LinesDropped, Current
    <3> QED
      BY <3>1, <3>2
  <2> QED
    BY <2>2, <2>3 DEF RawWhole
<1>8. ASSUME NEW k \in Keys, trades'[k] # None
      PROVE  \/ IsPaper(object) /\ k \in Trades[object.text] /\ trades'[k] = file
             \/ trades'[k] = trades[k] /\ trades[k][1] \in Uris \ {object.uri}
  <2>1. trades[k] # None => trades[k][1] \in Uris /\ KindOf[trades[k][1]] = "paper_log"
    BY DEF Typed, TypeOK, RowSets, Ids, TablesInv, PaperInv
  <2> QED
    BY <1>4, <1>8, <2>1 DEF IsPaper
<1>9. RowsOfCurrent'
  <2> SUFFICES ASSUME NEW k \in Keys, trades'[k] # None
               PROVE  /\ k \in Trades[trades'[k][2]]
                      /\ \/ version'[trades'[k][1]].text = trades'[k][2]
                         \/ version'[trades'[k][1]].status = "FAILED"
    BY DEF RowsOfCurrent
  <2> QED
    BY <1>3, <1>6, <1>8 DEF TablesInv, RowsOfCurrent
<1>10. \A d \in Days : latest'[d] # None =>
         /\ KindOf[latest'[d][1]] = "paper_log" /\ DayOf[latest'[d][1]] = d
         /\ version'[latest'[d][1]].text = latest'[d][2]
  BY <1>1, <1>2, RegisterPaper
<1>11. NothingLost'
  <2> SUFFICES ASSUME NEW d \in Days, latest'[d] # None,
                      version'[latest'[d][1]].status = "PARSED",
                      NEW k \in Trades[latest'[d][2]]
               PROVE  trades'[k] = latest'[d]
    BY DEF NothingLost
  <2>1. CASE IsPaper(object) /\ d = DayOf[object.uri]
    <3>1. latest'[d] = file /\ k \in Trades[object.text] /\ k \in Keys
      BY <1>3, <1>6, <2>1 DEF Keys
    <3> QED
      BY <1>4, <2>1, <3>1
  <2>2. CASE IsPaper(object) => d # DayOf[object.uri]
    <3>1. latest'[d] = latest[d] /\ latest[d] \in Ids
      BY <1>3, <2>2 DEF Typed, TypeOK, DaySets
    <3>2. KindOf[latest[d][1]] = "paper_log" /\ DayOf[latest[d][1]] = d
      BY <3>1 DEF TablesInv, PaperInv
    <3>3. latest[d][1] \in Uris \ {object.uri}
      BY <2>2, <3>1, <3>2 DEF IsPaper, Ids
    <3>4. version[latest[d][1]].status = "PARSED"
      BY <1>3, <3>1, <3>3
    <3>5. trades[k] = latest[d]
      BY <3>1, <3>4 DEF TablesInv, NothingLost
    <3>6. k \in Keys
      BY <3>1 DEF Keys, Ids
    <3>7. CASE ~IsPaper(object)
      BY <1>4, <3>1, <3>5, <3>7
    <3>8. CASE IsPaper(object)
      <4>1. DayOf[latest[d][1]] # DayOf[object.uri]
        BY <2>2, <3>2, <3>8
      <4>2. latest[d][2] \in TextsOf[latest[d][1]]
        BY <3>1 DEF Ids
      <4>3. k \notin Trades[object.text]
        BY <1>1, <1>3, <3>1, <3>3, <4>1, <4>2, SessionsAssumption
      <4> QED
        BY <1>4, <3>1, <3>3, <3>5, <3>6, <3>8, <4>3
    <3> QED
      BY <3>7, <3>8
  <2> QED
    BY <2>1, <2>2
<1>12. PaperInv'
  <2>1. \A k \in Keys : trades'[k] # None => KindOf[trades'[k][1]] = "paper_log"
    BY <1>6, <1>8 DEF TablesInv, PaperInv, IsPaper
  <2> QED
    BY <1>10, <2>1 DEF PaperInv
<1> QED
  BY <1>7, <1>9, <1>11, <1>12 DEF TablesInv

\* A recomputation drops no trade of a last loaded log, and changes only replays.
LEMMA WriteDerivedTables ==
  ASSUME Typed, TablesInv, NEW r \in Runs, WriteDerived(r)
  PROVE  TablesInv'
<1>1. /\ \A u \in Uris : version'[u].text = version[u].text
      /\ \A u \in Uris : KindOf[u] # "backtest_daily" => version'[u] = version[u]
  BY ReparseTyped DEF WriteDerived
<1>2. UNCHANGED <<lines, latest>>
  BY DEF WriteDerived
<1>3. \A k \in Keys : \/ trades'[k] = trades[k]
                      \/ trades'[k] = None /\ Stale(trades[k], latest)
  BY DEF WriteDerived, Dropped
<1>4. \A k \in Keys : trades'[k] # None =>
        trades'[k] = trades[k] /\ trades[k][1] \in Uris /\ KindOf[trades[k][1]] = "paper_log"
  BY <1>3 DEF Typed, TypeOK, RowSets, Ids, TablesInv, PaperInv
<1>5. RawWhole'
  <2>1. \A file \in lines : file[1] \in Uris
    BY DEF Typed, TypeOK, Ids
  <2> QED
    BY <1>1, <1>2, <2>1 DEF TablesInv, RawWhole, Current
<1>6. RowsOfCurrent'
  BY <1>1, <1>4 DEF TablesInv, RowsOfCurrent
<1>7. \A d \in Days : latest[d] # None =>
        latest[d] \in Ids /\ latest[d][1] \in Uris /\ KindOf[latest[d][1]] = "paper_log"
  BY DEF Typed, TypeOK, DaySets, Ids, TablesInv, PaperInv
<1>8. NothingLost'
  <2> SUFFICES ASSUME NEW d \in Days, latest[d] # None,
                      version'[latest[d][1]].status = "PARSED",
                      NEW k \in Trades[latest[d][2]]
               PROVE  trades'[k] = latest[d]
    BY <1>2 DEF NothingLost
  <2>1. version[latest[d][1]].status = "PARSED"
    BY <1>1, <1>7
  <2>2. trades[k] = latest[d]
    BY <2>1 DEF TablesInv, NothingLost
  <2>3. k \in Keys
    BY <1>7 DEF Keys, Ids
  <2>4. DayOf[latest[d][1]] = d
    BY DEF TablesInv, PaperInv
  <2> QED
    BY <1>3, <2>2, <2>3, <2>4 DEF Stale
<1>9. PaperInv'
  BY <1>1, <1>2, <1>4, <1>7 DEF TablesInv, PaperInv
<1> QED
  BY <1>5, <1>6, <1>8, <1>9 DEF TablesInv

\* The tables are right at first.
LEMMA InitTables == Init => TablesInv
  BY DEF Init, TablesInv, RawWhole, RowsOfCurrent, NothingLost, PaperInv, NoRows, NoFiles

\* Every step keeps them right.
LEMMA NextTables == Typed /\ TablesInv /\ [Next]_vars => TablesInv'
<1> SUFFICES ASSUME Typed, TablesInv, [Next]_vars
             PROVE  TablesInv'
  OBVIOUS
<1>1. CASE UNCHANGED tables
  BY <1>1, TablesKept DEF tables
<1>2. ASSUME NEW r \in Runs, NEW object, Refresh(r, object)
      PROVE  TablesInv'
  <2>1. \A u \in Uris : version'[u].text = version[u].text /\ version'[u].status = version[u].status
    BY <1>2 DEF Typed, TypeOK, Refresh, Versions
  <2> QED
    BY <1>2, <2>1, TablesKept DEF Refresh
<1>3. ASSUME NEW r \in Runs, NEW object, ReadFails(r, object)
      PROVE  TablesInv'
  <2>1. CASE UNCHANGED <<version, latest, lines, raced>>
    BY <1>3, <2>1, TablesKept DEF ReadFails
  <2>2. CASE RecordFailure(object)
    <3>1. object \in Objects /\ object.text \in TextsOf[object.uri] /\ UNCHANGED trades
      BY <1>3, FetchingTyped DEF ReadFails
    <3> QED
      BY <2>2, <3>1, FailureTables
  <2> QED
    BY <1>3, <2>1, <2>2 DEF ReadFails
<1>4. ASSUME NEW r \in Runs, StoreFails(r)
      PROVE  TablesInv'
  <2>1. held[r] \in Objects /\ held[r].text \in TextsOf[held[r].uri]
    BY <1>4, StoringTyped DEF StoreFails
  <2>2. RecordFailure(held[r]) /\ UNCHANGED trades
    BY <1>4 DEF StoreFails
  <2> QED
    BY <2>1, <2>2, FailureTables
<1>5. ASSUME NEW u \in Uris, NEW text \in TextsOf[u], Upload(u, text)
      PROVE  UNCHANGED tables
  BY <1>5 DEF Upload
<1>6. ASSUME NEW r \in Runs, Start(r) \/ LoadsDone(r) \/ ReadTrades(r) \/ RunFails(r)
      PROVE  UNCHANGED tables
  BY <1>6 DEF Start, LoadsDone, ReadTrades, RunFails
<1>7. ASSUME NEW r \in Runs, NEW object, Skip(r, object) \/ Read(r, object)
      PROVE  UNCHANGED tables
  BY <1>7 DEF Skip, Read
<1>8. UNCHANGED vars => UNCHANGED tables
  BY DEF vars
<1>9. ASSUME NEW r \in Runs, Progress(r)
      PROVE  TablesInv'
  BY <1>1, <1>2, <1>6, <1>7, <1>9, StoreTables, WriteDerivedTables DEF Progress
<1>10. ASSUME NEW r \in Runs, Fails(r)
       PROVE  TablesInv'
  BY <1>1, <1>3, <1>4, <1>6, <1>10 DEF Fails
<1> QED
  BY <1>1, <1>5, <1>6, <1>8, <1>9, <1>10 DEF Next

LEMMA AlwaysTables == Spec => [](Typed /\ TablesInv)
<1>1. Init => Typed /\ TablesInv
  BY InitTyped, InitTables
<1>2. Typed /\ TablesInv /\ [Next]_vars => (Typed /\ TablesInv)'
  BY NextTyped, NextTables
<1> QED
  BY <1>1, <1>2, PTL DEF Spec

\* raw keeps the text of the current versions and of no others, for any objects,
\* texts, jobs and failures.
THEOREM RawKept == Spec => []RawWhole
<1>1. Typed /\ TablesInv => RawWhole
  BY DEF TablesInv
<1> QED
  BY <1>1, AlwaysTables, PTL

\* Every trade row comes from a version that reports it and that no stored version
\* has superseded.
THEOREM RowsBelong == Spec => []RowsOfCurrent
<1>1. Typed /\ TablesInv => RowsOfCurrent
  BY DEF TablesInv
<1> QED
  BY <1>1, AlwaysTables, PTL

\* No trade of the last loaded log of a session is ever lost.
THEOREM TradesComplete == Spec => []NothingLost
<1>1. Typed /\ TablesInv => NothingLost
  BY DEF TablesInv
<1> QED
  BY <1>1, AlwaysTables, PTL

-----------------------------------------------------------------------------
(***************************************************************************)
(* The derived tables.                                                     *)
(***************************************************************************)

\* Somebody has yet to recompute.
Due(r) == touched[r] \/ pc[r] \in {"compute", "write"}

\* What a run has read is what there is, but for what another run has dropped.
SeenInv ==
  ~raced => \A r \in Runs : pc[r] = "write" =>
    /\ snap[r].latest = latest
    /\ \A k \in Keys : \/ trades[k] = snap[r].trades[k]
                       \/ trades[k] = None /\ Stale(snap[r].trades[k], latest)

DueInv == ~failed /\ ~raced => derived = Core \/ \E r \in Runs : Due(r)

FreshInv == SeenInv /\ DueInv

\* A step that leaves the trades and the latest logs alone, and what every writing
\* run has seen, keeps that right.
LEMMA SeenKept ==
  ASSUME SeenInv, ~raced' => ~raced, UNCHANGED <<latest, trades>>,
         \A r \in Runs : pc'[r] = "write" => pc[r] = "write" /\ snap'[r] = snap[r]
  PROVE  SeenInv'
  BY DEF SeenInv, Stale

\* Registering a log while nobody writes disturbs nobody.
LEMMA SeenRegistered ==
  ASSUME SeenInv, NEW object, NEW status, Register(object, status),
         IsPaper(object) \/ UNCHANGED trades, UNCHANGED <<pc, snap>>
  PROVE  SeenInv'
<1>1. CASE IsPaper(object)
  BY <1>1 DEF SeenInv, Register
<1>2. CASE ~IsPaper(object)
  <2>1. UNCHANGED latest /\ UNCHANGED trades
    BY <1>2 DEF Register
  <2>2. ~raced' => ~raced
    BY DEF Register
  <2> QED
    BY <2>1, <2>2, SeenKept
<1> QED
  BY <1>1, <1>2

\* Recording a failure touches no row.
LEMMA SeenFailed ==
  ASSUME SeenInv, NEW object, RecordFailure(object), UNCHANGED <<pc, snap, trades>>
  PROVE  SeenInv' /\ (raced => raced')
<1>1. CASE Register(object, "FAILED")
  <2>1. raced => raced'
    BY <1>1 DEF Register
  <2> QED
    BY <1>1, <2>1, SeenRegistered
<1>2. CASE UNCHANGED <<version, latest, lines, raced>>
  BY <1>2, SeenKept
<1> QED
  BY <1>1, <1>2 DEF RecordFailure

\* Unless a log came in meanwhile, what a recomputation writes is what it leaves.
LEMMA WritesCore ==
  ASSUME Typed, SeenInv, NEW r \in Runs, WriteDerived(r), ~raced
  PROVE  derived' = Core' /\ SeenInv'
<1>1. pc[r] = "write" /\ snap[r].latest = latest
  BY DEF SeenInv, WriteDerived
<1> DEFINE seen == snap[r].trades
<1>2. \A k \in Keys : \/ trades[k] = seen[k]
                      \/ trades[k] = None /\ Stale(seen[k], latest)
  BY <1>1 DEF SeenInv
<1>3. trades' = Dropped(trades, seen, latest)
  BY <1>1 DEF WriteDerived
<1> HIDE DEF seen
<1>4. \A k \in Keys : trades'[k] = IF Stale(seen[k], latest) THEN None ELSE seen[k]
  BY <1>2, <1>3 DEF Dropped, Stale
<1>5. trades' = Kept(seen, latest)
  BY <1>3, <1>4 DEF Dropped, Kept
<1>6. derived' = Core'
  BY <1>1, <1>5 DEF WriteDerived, Core, seen
<1>7. SeenInv'
  <2> SUFFICES ASSUME NEW q \in Runs, pc'[q] = "write"
               PROVE  /\ snap'[q].latest = latest'
                      /\ \A k \in Keys : \/ trades'[k] = snap'[q].trades[k]
                                         \/ trades'[k] = None /\ Stale(snap'[q].trades[k], latest')
    BY DEF SeenInv
  <2>1. pc[q] = "write" /\ snap'[q] = snap[q] /\ latest' = latest
    BY DEF Typed, TypeOK, WriteDerived
  <2>2. \A k \in Keys : \/ trades[k] = snap[q].trades[k]
                        \/ trades[k] = None /\ Stale(snap[q].trades[k], latest)
    BY <2>1 DEF SeenInv
  <2>3. \A k \in Keys : \/ trades'[k] = trades[k]
                        \/ trades'[k] = None /\ Stale(trades[k], latest)
    BY <1>2, <1>4 DEF Stale
  <2>4. \A k \in Keys : \/ trades'[k] = snap[q].trades[k]
                        \/ trades'[k] = None /\ Stale(snap[q].trades[k], latest)
    BY <2>2, <2>3 DEF Stale
  <2>5. snap[q].latest = latest
    BY <2>1 DEF SeenInv
  <2> QED
    BY <2>1, <2>4, <2>5 DEF Stale
<1> QED
  BY <1>6, <1>7

\* Storing an object makes its run recompute, if it changes a core row.
LEMMA StoreFresh ==
  ASSUME Typed, FreshInv, NEW r \in Runs, Store(r)
  PROVE  FreshInv'
<1> DEFINE object == held[r]
           file == File(object)
<1>1. object.uri \in Uris
  BY StoringTyped DEF Store, Objects
<1>2. PICK status \in {"SKIPPED", "PARSED"} : Register(object, status)
  BY DEF Store
<1>3. UNCHANGED <<pc, snap, derived, failed>>
  BY DEF Store
<1>4. ~IsPaper(object) => UNCHANGED trades
  BY DEF Store, IsPaper, WriteReplay
<1>5. SeenInv'
  BY <1>2, <1>3, <1>4, SeenRegistered DEF FreshInv
<1>6. raced => raced'
  BY <1>2 DEF Register
<1>7. \A q \in Runs : Due(q) => Due(q)'
  BY <1>3 DEF Due, Store, Typed, TypeOK
<1>8. CASE IsNews(object)
  <2>1. touched'[r]
    BY <1>8 DEF Store, Typed, TypeOK
  <2> QED
    BY <1>5, <2>1 DEF FreshInv, DueInv, Due
<1>9. CASE ~IsNews(object)
  <2>1. UNCHANGED Core
    BY <1>9 DEF IsNews, Store, Core
  <2> QED
    BY <1>3, <1>5, <1>6, <1>7, <2>1 DEF FreshInv, DueInv
<1> QED
  BY <1>8, <1>9

\* The derived tables agree with core at first.
LEMMA InitFresh == Init => FreshInv
  BY DEF Init, FreshInv, SeenInv, DueInv, Core

\* Every step keeps them so, or some run due to.
LEMMA NextFresh == Typed /\ FreshInv /\ [Next]_vars => FreshInv'
<1> SUFFICES ASSUME Typed, FreshInv, [Next]_vars
             PROVE  FreshInv'
  OBVIOUS
<1>1. ASSUME UNCHANGED <<tables, derived, failed, raced>>,
             \A r \in Runs : pc'[r] = "write" => pc[r] = "write" /\ snap'[r] = snap[r],
             \A r \in Runs : Due(r) => Due(r)'
      PROVE  FreshInv'
  <2>1. SeenInv'
    BY <1>1, SeenKept DEF FreshInv, tables
  <2>2. UNCHANGED Core
    BY <1>1 DEF Core, tables
  <2> QED
    BY <1>1, <2>1, <2>2 DEF FreshInv, DueInv
<1>2. ASSUME NEW u \in Uris, NEW text \in TextsOf[u], Upload(u, text)
      PROVE  FreshInv'
  BY <1>1, <1>2 DEF Upload, run, Due
<1>3. ASSUME NEW r \in Runs, Start(r)
      PROVE  FreshInv'
  <2>1. \A q \in Runs : pc'[q] = "write" => pc[q] = "write" /\ snap'[q] = snap[q]
    BY <1>3 DEF Start, Typed, TypeOK
  <2>2. \A q \in Runs : Due(q) => Due(q)'
    BY <1>3 DEF Start, Typed, TypeOK, Due
  <2> QED
    BY <1>1, <1>3, <2>1, <2>2 DEF Start
<1>4. ASSUME NEW r \in Runs, NEW object, Skip(r, object) \/ Read(r, object)
      PROVE  FreshInv'
  BY <1>1, <1>4 DEF Skip, Read, Due
<1>5. ASSUME NEW r \in Runs, NEW object, Refresh(r, object)
      PROVE  FreshInv'
  <2>1. SeenInv'
    BY <1>5, SeenKept DEF FreshInv, Refresh
  <2>2. UNCHANGED Core
    BY <1>5 DEF Core, Refresh
  <2> QED
    BY <1>5, <2>1, <2>2 DEF FreshInv, DueInv, Due, Refresh
<1>6. ASSUME NEW r \in Runs, LoadsDone(r)
      PROVE  FreshInv'
  <2>1. \A q \in Runs : pc'[q] = "write" => pc[q] = "write" /\ snap'[q] = snap[q]
    BY <1>6 DEF LoadsDone, Typed, TypeOK
  <2>2. \A q \in Runs : Due(q) => Due(q)'
    BY <1>6 DEF LoadsDone, Forget, Typed, TypeOK, Due
  <2> QED
    BY <1>1, <1>6, <2>1, <2>2 DEF LoadsDone
<1>7. ASSUME NEW r \in Runs, ReadTrades(r)
      PROVE  FreshInv'
  <2>1. \A q \in Runs : pc'[q] = "write" /\ q # r => pc[q] = "write" /\ snap'[q] = snap[q]
    BY <1>7 DEF ReadTrades, Typed, TypeOK
  <2>2. snap'[r] = [trades |-> trades, fills |-> fills, latest |-> latest] /\ pc'[r] = "write"
    BY <1>7 DEF ReadTrades, Typed, TypeOK
  <2>3. UNCHANGED <<trades, latest, raced>>
    BY <1>7 DEF ReadTrades, tables
  <2>4. SeenInv'
    BY <2>1, <2>2, <2>3 DEF FreshInv, SeenInv, Stale
  <2> QED
    BY <2>2, <2>4 DEF FreshInv, DueInv, Due
<1>8. ASSUME NEW r \in Runs, WriteDerived(r)
      PROVE  FreshInv'
  <2>1. raced' = raced
    BY <1>8 DEF WriteDerived
  <2>2. CASE raced
    BY <2>1, <2>2 DEF FreshInv, SeenInv, DueInv
  <2>3. CASE ~raced
    BY <1>8, <2>3, WritesCore DEF FreshInv, DueInv
  <2> QED
    BY <2>2, <2>3
<1>9. ASSUME NEW r \in Runs, NEW object, ReadFails(r, object)
      PROVE  FreshInv'
  <2>1. SeenInv' /\ (raced => raced')
    BY <1>9, SeenKept, SeenFailed DEF FreshInv, ReadFails
  <2> QED
    BY <1>9, <2>1 DEF FreshInv, DueInv, Due, Core, ReadFails
<1>10. ASSUME NEW r \in Runs, StoreFails(r)
       PROVE  FreshInv'
  <2>1. SeenInv' /\ (raced => raced')
    BY <1>10, SeenFailed DEF FreshInv, StoreFails
  <2> QED
    BY <1>10, <2>1 DEF FreshInv, DueInv, Due, Core, StoreFails
<1>11. ASSUME NEW r \in Runs, RunFails(r)
       PROVE  FreshInv'
  <2>1. \A q \in Runs : pc'[q] = "write" => pc[q] = "write" /\ snap'[q] = snap[q]
    BY <1>11 DEF RunFails, Typed, TypeOK
  <2>2. SeenInv'
    BY <1>11, <2>1, SeenKept DEF FreshInv, RunFails, tables
  <2> QED
    BY <1>11, <2>2 DEF FreshInv, DueInv, RunFails
<1>12. CASE UNCHANGED vars
  BY <1>1, <1>12 DEF vars, run, Due
<1>13. ASSUME NEW r \in Runs, Progress(r)
       PROVE  FreshInv'
  BY <1>4, <1>5, <1>6, <1>7, <1>8, <1>13, StoreFresh DEF Progress
<1>14. ASSUME NEW r \in Runs, Fails(r)
       PROVE  FreshInv'
  BY <1>9, <1>10, <1>11, <1>14 DEF Fails
<1> QED
  BY <1>2, <1>3, <1>12, <1>13, <1>14 DEF Next

\* When no run is under way, none has died and no log came in during a
\* recomputation, the derived tables are those of the core rows: whatever failed to
\* be read or stored, and in whatever order the runs went about it.
THEOREM FreshAfterRuns == Spec => []FreshUnlessFailed
<1>1. Init => Typed /\ FreshInv
  BY InitTyped, InitFresh
<1>2. Typed /\ FreshInv /\ [Next]_vars => (Typed /\ FreshInv)'
  BY NextTyped, NextFresh
<1>3. Typed /\ FreshInv => FreshUnlessFailed
  BY DEF Typed, TypeOK, FreshInv, DueInv, Due, FreshUnlessFailed, Idle
<1> QED
  BY <1>1, <1>2, <1>3, PTL DEF Spec

-----------------------------------------------------------------------------
(***************************************************************************)
(* The replay the derived tables are from.                                 *)
(***************************************************************************)

\* The objects a run has listed and not dealt with.
AtHand(r) == todo[r] \cup ({held[r]} \ {None})

Knows(u, g) ==
  \/ bucket[u].gen = g \/ version[u].gen = g
  \/ \E r \in Runs : \E object \in AtHand(r) : object.uri = u /\ object.gen = g

\* A generation is of one object, whoever knows it, and no run has in hand what is
\* not for its job.
GensInv ==
  /\ \A u \in Uris, g \in 1 .. MaxUploads : Knows(u, g) => g <= uploads
  /\ \A u, v \in Uris, g \in 1 .. MaxUploads : Knows(u, g) /\ Knows(v, g) => u = v
  /\ \A u \in Uris : version[u].text # None => version[u].gen > 0
  /\ \A r \in Runs : \A object \in AtHand(r) : Loads(JobOf[r], KindOf[object.uri])

\* A run that may have replaced a replay, and has yet to choose among them.
Owes(r) == JobOf[r] # "paper" /\ Due(r)

IsBest(rows) ==
  \A u \in Uris : KindOf[u] = "backtest_daily" /\ Current(u) \in lines =>
    /\ rows[DayOf[u]][1] \in Uris /\ KindOf[rows[DayOf[u]][1]] = "backtest_daily"
    /\ AsGood(rows[DayOf[u]], u)

BestInv == ~failed => (\E r \in Runs : Owes(r)) \/ (IsBest(replays) /\ IsBest(derived[3]))

ReplayInv == GensInv /\ BestInv

\* A step after which nobody knows more than before keeps generations apart.
LEMMA GensKept ==
  ASSUME GensInv, uploads' = uploads,
         \A u \in Uris, g \in 1 .. MaxUploads : Knows(u, g)' => Knows(u, g),
         \A u \in Uris : version'[u].text # None => version'[u].gen > 0,
         \A r \in Runs : \A object \in AtHand(r)' : Loads(JobOf[r], KindOf[object.uri])
  PROVE  GensInv'
  BY DEF GensInv

\* An object at hand is one a run has listed.
LEMMA AtHandTyped ==
  ASSUME Typed, NEW r \in Runs, NEW object \in AtHand(r)
  PROVE  object \in Objects /\ object.text \in TextsOf[object.uri]
  BY DEF AtHand, Typed, TypeOK, TextsInv

\* A nonempty set of numbers has a least one.
Before == {p \in Nat \X Nat : p[1] < p[2]}

LEMMA Least ==
  ASSUME NEW T \in SUBSET Nat, T # {}
  PROVE  \E m \in T : \A n \in T : m <= n
<1>1. IsWellFoundedOn(Before, Nat)
  BY NatLessThanWellFounded, Zenon DEF OpToRel, Before
<1>2. \E m \in T : \A n \in T : ~(<<n, m>> \in Before)
  BY <1>1, WFMin
<1>3. ASSUME NEW m \in T, NEW n \in T, ~(<<n, m>> \in Before) PROVE m <= n
  BY <1>3 DEF Before
<1> QED
  BY <1>2, <1>3

\* Among the current replays of a session one is better than all the others.
LEMMA OneIsBest ==
  ASSUME Typed, GensInv, NEW d \in Days, Candidates(d) # {}
  PROVE  \E u \in Candidates(d) : \A v \in Candidates(d) \ {u} : Better(u, v)
<1> DEFINE Q(u) == Recognised(Current(u))
           G(u) == version[u].gen
           Upto(n) == {u \in Candidates(d) : G(u) <= n}
           Top(n, u) == u \in Upto(n) /\ \A v \in Upto(n) \ {u} : Better(u, v)
           Topless == {n \in Nat : Upto(n) # {} /\ ~\E u \in Uris : Top(n, u)}
<1>1. \A u \in Candidates(d) : u \in Uris /\ Q(u) \in Int /\ G(u) \in 1 .. MaxUploads
  <2> SUFFICES ASSUME NEW u \in Candidates(d)
               PROVE  u \in Uris /\ Q(u) \in Int /\ G(u) \in 1 .. MaxUploads
    OBVIOUS
  <2>1. u \in Uris /\ version[u] \in Versions /\ version[u].text # None
    BY DEF Candidates, Typed, TypeOK
  <2>2. version[u].text \in Texts /\ G(u) \in 0 .. MaxUploads
    BY <2>1 DEF Versions
  <2>3. Q(u) \in Int
    BY <2>2, TextsAssumption DEF Recognised, Current
  <2>4. G(u) > 0
    BY <2>1 DEF GensInv
  <2> QED
    BY <2>1, <2>2, <2>3, <2>4, MaxAssumption
<1>2. \A u, v \in Candidates(d) : G(u) = G(v) => u = v
  BY <1>1 DEF GensInv, Knows
<1>3. \A u, v \in Candidates(d) :
        Better(u, v) <=> Q(u) > Q(v) \/ (Q(u) = Q(v) /\ G(u) > G(v))
  BY DEF Better
<1> HIDE DEF Q, G
<1>4. Topless = {}
  <2> SUFFICES ASSUME Topless # {} PROVE FALSE
    OBVIOUS
  <2>1. Topless \in SUBSET Nat
    OBVIOUS
  <2>2. PICK m \in Topless : \A n \in Topless : m <= n
    <3> HIDE DEF Topless
    <3> QED
      BY <2>1, Least
  <2>3. m \in Nat /\ \A n \in Nat : n < m => Upto(n) = {} \/ \E u \in Uris : Top(n, u)
    BY <2>2
  <2>4. m # 0
    BY <1>1, <2>2
  <2>5. m - 1 \in Nat /\ \A u \in Candidates(d) : u \in Upto(m) <=> u \in Upto(m - 1) \/ G(u) = m
    <3>1. m \in Int /\ m >= 1
      BY <2>3, <2>4
    <3>2. \A u \in Candidates(d) : G(u) \in Int
      BY <1>1
    <3>3. \A u \in Candidates(d) : G(u) <= m <=> G(u) <= m - 1 \/ G(u) = m
      BY <3>1, <3>2
    <3> QED
      BY <3>1, <3>3
  <2>6. Upto(m - 1) = {} \/ \E u \in Uris : Top(m - 1, u)
    BY <2>3, <2>5
  <2>7. PICK w \in Candidates(d) : G(w) = m
    <3> SUFFICES ASSUME \A w \in Candidates(d) : G(w) # m PROVE FALSE
      OBVIOUS
    <3>1. Upto(m) = Upto(m - 1)
      BY <2>5
    <3> QED
      BY <2>2, <2>6, <3>1
  <2>8. \A v \in Upto(m) \ {w} : v \in Upto(m - 1) /\ G(v) < m
    BY <1>1, <1>2, <2>3, <2>5, <2>7
  <2>9. ~Top(m, w) /\ w \in Upto(m) /\ w \in Uris
    BY <1>1, <2>2, <2>3, <2>7
  <2>10. PICK v \in Upto(m) \ {w} : ~Better(w, v)
    BY <2>9
  <2>11. PICK b \in Uris : Top(m - 1, b)
    BY <2>6, <2>8, <2>10
  <2>12. b \in Upto(m) /\ b # w /\ G(b) < m
    BY <1>1, <2>3, <2>5, <2>7, <2>11
  <2>13. b = v \/ Better(b, v)
    BY <2>8, <2>10, <2>11
  <2>14. Q(w) < Q(v)
    <3>1. v \in Candidates(d) /\ G(v) < m
      BY <2>8, <2>10
    <3>2. ~(Q(w) > Q(v) \/ (Q(w) = Q(v) /\ m > G(v)))
      BY <1>3, <2>7, <2>10, <3>1
    <3>3. Q(w) \in Int /\ Q(v) \in Int /\ G(v) \in Int /\ m \in Int
      BY <1>1, <2>3, <3>1
    <3> QED
      BY <3>1, <3>2, <3>3
  <2>15. Better(b, w)
    BY <1>1, <1>3, <2>7, <2>10, <2>12, <2>13, <2>14
  <2>16. Top(m, b)
    BY <2>8, <2>11, <2>12, <2>15
  <2> QED
    BY <2>2, <2>16
<1>5. Upto(MaxUploads) = Candidates(d) /\ MaxUploads \in Nat
  BY <1>1, MaxAssumption
<1>6. PICK u \in Uris : Top(MaxUploads, u)
  BY <1>4, <1>5
<1> QED
  BY <1>5, <1>6

\* Reparsing uses the best replay of each session.
LEMMA ReparseChooses ==
  ASSUME Typed, GensInv, Reparse, UNCHANGED lines
  PROVE  IsBest(replays)'
<1> SUFFICES ASSUME NEW u \in Uris, KindOf[u] = "backtest_daily", Current(u)' \in lines
             PROVE  /\ replays'[DayOf[u]][1] \in Uris
                    /\ KindOf[replays'[DayOf[u]][1]] = "backtest_daily"
                    /\ Recognised(replays[DayOf[u]])' >= Recognised(Current(u))'
  BY DEF IsBest, AsGood
<1> DEFINE d == DayOf[u]
           c == CHOOSE v \in Candidates(d) : Chosen(v)
<1>1. /\ \A v \in Uris : Current(v)' = Current(v)
      /\ \A file : Recognised(file)' = Recognised(file)
  BY ReparseTyped DEF Current, Recognised
<1>2. Current(u) \in lines /\ u \in Candidates(d) /\ d \in Days
  <2>1. Current(u) \in Ids
    BY <1>1 DEF Typed, TypeOK
  <2> QED
    BY <1>1, <2>1, TextsAssumption, UrisAssumption DEF Current, Ids, Candidates, Days
<1>3. \E v \in Candidates(d) : Chosen(v)
  <2>1. PICK v \in Candidates(d) : \A w \in Candidates(d) \ {v} : Better(v, w)
    BY <1>2, OneIsBest
  <2>2. DayOf[v] = d
    BY DEF Candidates
  <2> QED
    BY <2>1, <2>2 DEF Chosen
<1>4. c \in Candidates(d) /\ Chosen(c)
  BY <1>3
<1>5. replays'[d] = Current(c)
  BY <1>2, <1>3, Zenon DEF Reparse
<1> HIDE DEF c
<1>6. c \in Uris /\ KindOf[c] = "backtest_daily" /\ DayOf[c] = d
  BY <1>4 DEF Candidates
<1>7. Recognised(Current(c)) >= Recognised(Current(u))
  <2>1. \A v \in Candidates(d) : Recognised(Current(v)) \in Int
    BY TextsAssumption DEF Candidates, Recognised, Current, Typed, TypeOK, Versions
  <2>2. c = u \/ Better(c, u)
    BY <1>2, <1>4, <1>6 DEF Chosen
  <2> QED
    BY <1>2, <1>4, <2>1, <2>2 DEF Better
<1>8. Current(c)[1] = c
  BY DEF Current
<1>9. Recognised(Current(u))' = Recognised(Current(u))
  BY <1>1 DEF Recognised
<1>10. Recognised(replays[d])' = Recognised(Current(c))
  BY <1>1, <1>5 DEF Recognised
<1> QED
  BY <1>5, <1>6, <1>7, <1>8, <1>9, <1>10

\* What becomes of an object that is no replay changes no choice, nor does a replay
\* that is refused.
LEMMA BestKept ==
  ASSUME Typed, NEW rows, IsBest(rows), NEW u \in Uris,
         \A v \in Uris \ {u} : version'[v] = version[v],
         \A l : l[1] # u => (l \in lines' <=> l \in lines),
         \/ KindOf[u] # "backtest_daily"
         \/ version'[u].status = "FAILED" /\ \A l \in lines' : l[1] # u
  PROVE  IsBest(rows)'
<1> SUFFICES ASSUME NEW v \in Uris, KindOf[v] = "backtest_daily", Current(v)' \in lines'
             PROVE  /\ rows[DayOf[v]][1] \in Uris
                    /\ KindOf[rows[DayOf[v]][1]] = "backtest_daily"
                    /\ AsGood(rows[DayOf[v]], v)'
  BY DEF IsBest
<1>0. PICK file : file = rows[DayOf[v]]
  OBVIOUS
<1>1. v # u
  BY DEF Current
<1>2. Current(v)' = Current(v) /\ Current(v) \in lines
  BY <1>1 DEF Current
<1>3. file[1] \in Uris /\ KindOf[file[1]] = "backtest_daily" /\ AsGood(file, v)
  BY <1>0, <1>2 DEF IsBest
<1>4. Recognised(Current(v))' = Recognised(Current(v))
  BY <1>2 DEF Recognised
<1>5. CASE file[1] = u
  <2>1. version'[file[1]].status = "FAILED"
    BY <1>3, <1>5
  <2> QED
    BY <1>0, <1>3, <2>1 DEF AsGood
<1>6. CASE file[1] # u
  <2>1. Recognised(file)' = Recognised(file)
    BY <1>6 DEF Recognised
  <2>2. version'[file[1]] = version[file[1]]
    BY <1>3, <1>6
  <2> QED
    BY <1>0, <1>3, <1>4, <2>1, <2>2 DEF AsGood
<1> QED
  BY <1>5, <1>6

\* What a step leaves alone, with the lines and the versions, is as good as before.
LEMMA BestUnchanged ==
  ASSUME UNCHANGED <<lines, replays, derived>>,
         \A u \in Uris : version'[u].text = version[u].text /\ version'[u].status = version[u].status
  PROVE  IsBest(replays)' = IsBest(replays) /\ IsBest(derived[3])' = IsBest(derived[3])
<1>1. /\ \A u \in Uris : Current(u)' = Current(u)
      /\ \A file : Recognised(file)' = Recognised(file)
  BY DEF Current, Recognised
<1>2. \A u \in Uris : \A file :
        Recognised(Current(u))' = Recognised(Current(u))
  BY <1>1
<1> QED
  BY <1>1, <1>2 DEF IsBest, AsGood

\* A file that is stored, or refused, without its run coming to owe a choice.
LEMMA BestAfter ==
  ASSUME Typed, BestInv, NEW u \in Uris, UNCHANGED <<replays, derived, failed>>,
         \A r \in Runs : Owes(r) => Owes(r)',
         \A v \in Uris \ {u} : version'[v] = version[v],
         \A l : l[1] # u => (l \in lines' <=> l \in lines),
         \/ KindOf[u] # "backtest_daily"
         \/ version'[u].status = "FAILED" /\ \A l \in lines' : l[1] # u
  PROVE  BestInv'
<1>1. PICK rows : rows = replays
  OBVIOUS
<1>2. PICK used : used = derived[3]
  OBVIOUS
<1>3. IsBest(rows) => IsBest(rows)'
  BY BestKept
<1>4. IsBest(used) => IsBest(used)'
  BY BestKept
<1>5. IsBest(rows) = IsBest(replays) /\ IsBest(rows)' = IsBest(replays)'
  BY <1>1 DEF IsBest
<1>6. IsBest(used) = IsBest(derived[3]) /\ IsBest(used)' = IsBest(derived[3])'
  BY <1>2 DEF IsBest
<1> QED
  BY <1>3, <1>4, <1>5, <1>6 DEF BestInv

\* Registering a file.
LEMMA Registers ==
  ASSUME Typed, NEW object \in Objects, NEW status, Register(object, status)
  PROVE  /\ \A v \in Uris \ {object.uri} : version'[v] = version[v]
         /\ version'[object.uri] = [text |-> object.text, gen |-> object.gen, status |-> status]
  BY DEF Register, Typed, TypeOK, Objects

\* Recording a failure leaves every choice as good as it was.
LEMMA FailureChooses ==
  ASSUME Typed, BestInv, NEW object \in Objects, RecordFailure(object),
         UNCHANGED <<replays, derived, failed>>, \A r \in Runs : Owes(r) => Owes(r)'
  PROVE  BestInv'
<1>1. CASE Register(object, "FAILED") /\ lines' = LinesDropped(object.uri, File(object))
  <2>1. \A l : l \in lines' <=> l \in lines /\ l[1] # object.uri
    BY <1>1 DEF LinesDropped
  <2>2. object.uri \in Uris
    BY DEF Objects
  <2>3. /\ \A v \in Uris \ {object.uri} : version'[v] = version[v]
        /\ version'[object.uri].status = "FAILED"
    BY <1>1, <2>2 DEF Register, Typed, TypeOK
  <2> QED
    BY <2>1, <2>2, <2>3, BestAfter
<1>2. CASE UNCHANGED <<version, lines>>
  BY <1>2, BestUnchanged DEF BestInv
<1> QED
  BY <1>1, <1>2 DEF RecordFailure

\* Storing a replay makes its run owe a choice; storing anything else changes none.
LEMMA StoreChooses ==
  ASSUME Typed, GensInv, BestInv, NEW r \in Runs, Store(r)
  PROVE  BestInv'
<1> DEFINE object == held[r]
<1>1. object \in Objects /\ object \in AtHand(r) /\ object.uri \in Uris
  BY StoringTyped DEF Store, Storing, AtHand, Objects
<1>2. \A q \in Runs : Owes(q) => Owes(q)'
  BY DEF Owes, Due, Store, Typed, TypeOK
<1>3. CASE KindOf[object.uri] = "backtest_daily"
  <2>1. JobOf[r] # "paper"
    BY <1>1, <1>3 DEF GensInv, Loads
  <2>2. touched'[r]
    BY <1>3 DEF Store, IsNews, Typed, TypeOK
  <2> QED
    BY <2>1, <2>2 DEF BestInv, Owes, Due
<1>4. CASE KindOf[object.uri] # "backtest_daily"
  <2>1. UNCHANGED <<replays, derived, failed>>
    BY <1>4 DEF Store, WritePaper
  <2>2. \A v \in Uris \ {object.uri} : version'[v] = version[v]
    BY <1>1, Registers DEF Store
  <2>3. \A l : l[1] # object.uri => (l \in lines' <=> l \in lines)
    BY DEF Store, LinesDropped, File
  <2> QED
    BY <1>1, <1>2, <1>4, <2>1, <2>2, <2>3, BestAfter
<1> QED
  BY <1>3, <1>4

\* Coming to an object takes it off the list, and reading keeps it at hand.
LEMMA FetchingKnows ==
  ASSUME Typed, GensInv, NEW r \in Runs, NEW object, Fetching(r, object),
         held' = held \/ held' = [held EXCEPT ![r] = object]
  PROVE  /\ object \in AtHand(r) /\ object \in Objects
         /\ \A q \in Runs : AtHand(q)' \subseteq AtHand(q)
         /\ Knows(object.uri, object.gen)
<1>1. object \in AtHand(r) /\ object \in Objects
  BY FetchingTyped DEF Fetching, AtHand
<1>2. \A q \in Runs : AtHand(q)' \subseteq AtHand(q)
  BY DEF Fetching, AtHand, Typed, TypeOK
<1> QED
  BY <1>1, <1>2 DEF Knows

\* A run that deals with an object at hand, and registers it or not.
LEMMA GensRegistered ==
  ASSUME Typed, GensInv, UNCHANGED <<bucket, uploads>>, NEW object \in Objects,
         Knows(object.uri, object.gen), \A q \in Runs : AtHand(q)' \subseteq AtHand(q),
         \A u \in Uris \ {object.uri} : version'[u] = version[u],
         version'[object.uri].gen \in {object.gen, version[object.uri].gen},
         version'[object.uri].gen = 0 => version'[object.uri] = version[object.uri]
  PROVE  GensInv'
<1>1. object.uri \in Uris /\ object.gen \in 1 .. MaxUploads
  BY DEF Objects
<1>2. \A u \in Uris, g \in 1 .. MaxUploads : Knows(u, g)' => Knows(u, g)
  <2> SUFFICES ASSUME NEW u \in Uris, NEW g \in 1 .. MaxUploads, Knows(u, g)'
               PROVE  Knows(u, g)
    OBVIOUS
  <2>1. CASE \E r \in Runs : \E o \in AtHand(r)' : o.uri = u /\ o.gen = g
    BY <2>1 DEF Knows
  <2>2. CASE bucket'[u].gen = g
    BY <2>2 DEF Knows
  <2>3. CASE version'[u].gen = g
    BY <1>1, <2>3 DEF Knows
  <2> QED
    BY <2>1, <2>2, <2>3 DEF Knows
<1>3. \A u \in Uris : version'[u].gen \in 0 .. MaxUploads
  <2>1. \A u \in Uris : version[u].gen \in 0 .. MaxUploads
    BY DEF Typed, TypeOK, Versions
  <2> QED
    BY <1>1, <2>1
<1>4. \A u \in Uris : version'[u].text # None => version'[u].gen > 0
  BY <1>1, <1>3 DEF GensInv
<1>5. \A r \in Runs : \A o \in AtHand(r)' : Loads(JobOf[r], KindOf[o.uri])
  BY DEF GensInv
<1> QED
  BY <1>2, <1>4, <1>5, GensKept

LEMMA RegisterGens ==
  ASSUME Typed, NEW object \in Objects, NEW status,
         Register(object, status) \/ UNCHANGED version
  PROVE  /\ \A u \in Uris \ {object.uri} : version'[u] = version[u]
         /\ version'[object.uri].gen \in {object.gen, version[object.uri].gen}
         /\ version'[object.uri].gen = 0 => version'[object.uri] = version[object.uri]
<1>1. object.gen # 0
  BY DEF Objects
<1>2. CASE Register(object, status)
  <2>1. /\ \A u \in Uris \ {object.uri} : version'[u] = version[u]
        /\ version'[object.uri] = [text |-> object.text, gen |-> object.gen, status |-> status]
    BY <1>2, Registers
  <2> QED
    BY <1>1, <2>1
<1> QED
  BY <1>2

\* Generations are never confused.
LEMMA UploadGens ==
  ASSUME Typed, GensInv, NEW u \in Uris, NEW text \in TextsOf[u], Upload(u, text)
  PROVE  GensInv'
<1>1. /\ uploads' = uploads + 1 /\ uploads \in Nat
      /\ UNCHANGED <<version, todo, held>>
      /\ bucket'[u].gen = uploads' /\ \A v \in Uris \ {u} : bucket'[v] = bucket[v]
  BY MaxAssumption DEF Upload, Typed, TypeOK, tables, run
<1>2. \A r \in Runs : AtHand(r)' = AtHand(r)
  BY <1>1 DEF AtHand
<1>3. \A v \in Uris, g \in 1 .. MaxUploads : Knows(v, g)' => Knows(v, g) \/ (v = u /\ g = uploads')
  BY <1>1, <1>2 DEF Knows
<1>4. \A v \in Uris, g \in 1 .. MaxUploads : Knows(v, g) => g < uploads'
  BY <1>1 DEF GensInv
<1>5. \A v \in Uris, g \in 1 .. MaxUploads : Knows(v, g)' => g <= uploads'
  BY <1>1, <1>3, <1>4
<1>6. ASSUME NEW v \in Uris, NEW w \in Uris, NEW g \in 1 .. MaxUploads, Knows(v, g)', Knows(w, g)'
      PROVE  v = w
  BY <1>1, <1>3, <1>4, <1>6 DEF GensInv
<1> QED
  BY <1>1, <1>2, <1>5, <1>6 DEF GensInv

\* A listing knows the generations of the bucket.
LEMMA StartGens ==
  ASSUME Typed, GensInv, NEW r \in Runs, Start(r)
  PROVE  GensInv'
<1>1. UNCHANGED <<bucket, version, held, uploads>>
  BY DEF Start, tables
<1>2. \A q \in Runs \ {r} : AtHand(q)' = AtHand(q)
  BY DEF Start, AtHand, Typed, TypeOK
<1>3. \A object \in AtHand(r)' :
        \/ object \in AtHand(r)
        \/ /\ object.uri \in Uris /\ object.gen = bucket[object.uri].gen
           /\ Loads(JobOf[r], KindOf[object.uri])
  BY DEF Start, AtHand, Typed, TypeOK, Listing
<1>4. \A u \in Uris, g \in 1 .. MaxUploads : Knows(u, g)' => Knows(u, g)
  BY <1>1, <1>2, <1>3 DEF Knows
<1>5. \A q \in Runs : \A object \in AtHand(q)' : Loads(JobOf[q], KindOf[object.uri])
  BY <1>2, <1>3 DEF GensInv
<1> QED
  BY <1>1, <1>4, <1>5, GensKept DEF GensInv

\* A step that learns nothing.
LEMMA GensUnchanged ==
  ASSUME GensInv, UNCHANGED <<bucket, version, uploads>>,
         \A q \in Runs : AtHand(q)' \subseteq AtHand(q)
  PROVE  GensInv'
<1>1. \A u \in Uris, g \in 1 .. MaxUploads : Knows(u, g)' => Knows(u, g)
  BY DEF Knows
<1> QED
  BY <1>1, GensKept DEF GensInv

LEMMA InitReplay == Init => ReplayInv
<1> SUFFICES ASSUME Init PROVE ReplayInv
  OBVIOUS
<1>1. \A u \in Uris, g \in 1 .. MaxUploads : ~Knows(u, g)
  BY DEF Init, Knows, AtHand, Absent
<1>2. GensInv
  BY <1>1 DEF GensInv, Init, AtHand
<1>3. BestInv
  BY DEF Init, BestInv, IsBest
<1> QED
  BY <1>2, <1>3 DEF ReplayInv

LEMMA NextReplay == Typed /\ ReplayInv /\ [Next]_vars => ReplayInv'
<1> SUFFICES ASSUME Typed, GensInv, BestInv, [Next]_vars
             PROVE  GensInv' /\ BestInv'
  BY DEF ReplayInv
<1>1. ASSUME NEW u \in Uris, NEW text \in TextsOf[u], Upload(u, text)
      PROVE  GensInv' /\ BestInv'
  <2>1. UNCHANGED <<lines, replays, derived, version, failed, touched, pc>>
    BY <1>1 DEF Upload, tables, run
  <2> QED
    BY <1>1, <2>1, UploadGens, BestUnchanged DEF BestInv, Owes, Due
<1>2. ASSUME NEW r \in Runs, Start(r)
      PROVE  GensInv' /\ BestInv'
  <2>1. UNCHANGED <<lines, replays, derived, version, failed, touched>>
    BY <1>2 DEF Start, tables
  <2>2. \A q \in Runs : Owes(q) => Owes(q)'
    BY <1>2 DEF Start, Typed, TypeOK, Owes, Due
  <2> QED
    BY <1>2, <2>1, <2>2, StartGens, BestUnchanged DEF BestInv
<1>3. ASSUME NEW r \in Runs, NEW object, Skip(r, object) \/ Read(r, object)
      PROVE  GensInv' /\ BestInv'
  <2>1. UNCHANGED <<bucket, uploads, lines, replays, derived, version, failed, touched, pc>>
    BY <1>3 DEF Skip, Read, tables
  <2>2. \A q \in Runs : AtHand(q)' \subseteq AtHand(q)
    BY <1>3, FetchingKnows DEF Skip, Read
  <2> QED
    BY <2>1, <2>2, GensUnchanged, BestUnchanged DEF BestInv, Owes, Due
<1>4. ASSUME NEW r \in Runs, NEW object, Refresh(r, object)
      PROVE  GensInv' /\ BestInv'
  <2>1. /\ object \in Objects /\ Knows(object.uri, object.gen)
        /\ \A q \in Runs : AtHand(q)' \subseteq AtHand(q)
    BY <1>4, FetchingKnows DEF Refresh
  <2>2. /\ UNCHANGED <<bucket, uploads, lines, replays, derived, failed, touched, pc>>
        /\ version' = [version EXCEPT ![object.uri].gen = object.gen]
    BY <1>4 DEF Refresh
  <2>3. /\ object.uri \in Uris /\ object.gen \in 1 .. MaxUploads
        /\ version'[object.uri].gen = object.gen
        /\ \A u \in Uris \ {object.uri} : version'[u] = version[u]
        /\ \A u \in Uris : version'[u].text = version[u].text /\ version'[u].status = version[u].status
    BY <2>1, <2>2 DEF Objects, Typed, TypeOK, Versions
  <2>4. GensInv'
    BY <2>1, <2>2, <2>3, GensRegistered
  <2> QED
    BY <2>2, <2>3, <2>4, BestUnchanged DEF BestInv, Owes, Due
<1>5. ASSUME NEW r \in Runs, Store(r)
      PROVE  GensInv' /\ BestInv'
  <2>1. /\ held[r] \in Objects /\ held[r] \in AtHand(r) /\ UNCHANGED <<bucket, uploads, todo>>
        /\ \A q \in Runs : AtHand(q)' \subseteq AtHand(q)
    BY <1>5, StoringTyped DEF Store, Storing, AtHand, Typed, TypeOK
  <2>2. Knows(held[r].uri, held[r].gen)
    BY <2>1 DEF Knows
  <2>3. PICK status : Register(held[r], status)
    BY <1>5 DEF Store
  <2>4. GensInv'
    BY <2>1, <2>2, <2>3, RegisterGens, GensRegistered
  <2> QED
    BY <1>5, <2>4, StoreChooses
<1>6. ASSUME NEW r \in Runs, LoadsDone(r)
      PROVE  GensInv' /\ BestInv'
  <2>1. UNCHANGED <<bucket, uploads, todo, held, lines, replays, derived, version, failed>>
    BY <1>6 DEF LoadsDone, tables
  <2>2. \A q \in Runs : AtHand(q)' \subseteq AtHand(q)
    BY <2>1 DEF AtHand
  <2>3. \A q \in Runs : Owes(q) => Owes(q)'
    BY <1>6 DEF LoadsDone, Forget, Typed, TypeOK, Owes, Due
  <2> QED
    BY <2>1, <2>2, <2>3, GensUnchanged, BestUnchanged DEF BestInv
<1>7. ASSUME NEW r \in Runs, ReadTrades(r)
      PROVE  GensInv' /\ BestInv'
  <2>1. UNCHANGED <<bucket, uploads, todo, held, lines, replays, derived, version, failed, touched>>
    BY <1>7 DEF ReadTrades, tables
  <2>2. \A q \in Runs : AtHand(q)' \subseteq AtHand(q)
    BY <2>1 DEF AtHand
  <2>3. \A q \in Runs : Owes(q) => Owes(q)'
    BY <1>7 DEF ReadTrades, Typed, TypeOK, Owes, Due
  <2> QED
    BY <2>1, <2>2, <2>3, GensUnchanged, BestUnchanged DEF BestInv
<1>8. ASSUME NEW r \in Runs, WriteDerived(r)
      PROVE  GensInv' /\ BestInv'
  <2>1. /\ UNCHANGED <<bucket, uploads, todo, held, lines, failed, touched>>
        /\ derived'[3] = replays'
    BY <1>8 DEF WriteDerived
  <2>2. \A q \in Runs : AtHand(q)' \subseteq AtHand(q)
    BY <2>1 DEF AtHand
  <2>3. CASE JobOf[r] = "paper"
    <3>1. UNCHANGED <<version, replays>>
      BY <1>8, <2>3 DEF WriteDerived
    <3>2. \A q \in Runs : Owes(q) => Owes(q)'
      BY <1>8, <2>3 DEF WriteDerived, Typed, TypeOK, Owes, Due
    <3>3. IsBest(replays)' = IsBest(replays)
      BY <2>1, <3>1 DEF IsBest, AsGood, Recognised, Current
    <3>4. IsBest(derived[3])' = IsBest(replays)'
      BY <2>1 DEF IsBest
    <3> QED
      BY <2>1, <2>2, <3>1, <3>2, <3>3, <3>4, GensUnchanged DEF BestInv
  <2>4. CASE JobOf[r] # "paper"
    <3>1. Reparse
      BY <1>8, <2>4 DEF WriteDerived
    <3>2. IsBest(replays)'
      BY <2>1, <3>1, ReparseChooses
    <3>3. IsBest(derived[3])'
      BY <2>1, <3>2 DEF IsBest
    <3>4. \A u \in Uris : version'[u].text = version[u].text /\ version'[u].gen = version[u].gen
      BY <3>1, ReparseTyped
    <3>5. \A u \in Uris, g \in 1 .. MaxUploads : Knows(u, g)' => Knows(u, g)
      BY <2>1, <2>2, <3>4 DEF Knows
    <3>6. GensInv'
      BY <2>1, <2>2, <3>4, <3>5, GensKept DEF GensInv
    <3> QED
      BY <3>2, <3>3, <3>6 DEF BestInv
  <2> QED
    BY <2>3, <2>4
<1>9. ASSUME NEW r \in Runs, NEW object, ReadFails(r, object)
      PROVE  GensInv' /\ BestInv'
  <2>1. /\ object \in Objects /\ Knows(object.uri, object.gen)
        /\ \A q \in Runs : AtHand(q)' \subseteq AtHand(q)
    BY <1>9, FetchingKnows DEF ReadFails
  <2>2. UNCHANGED <<bucket, uploads, replays, derived, failed, touched, pc>>
    BY <1>9 DEF ReadFails
  <2>3. RecordFailure(object) \/ UNCHANGED <<version, lines>>
    BY <1>9 DEF ReadFails
  <2>4. Register(object, "FAILED") \/ UNCHANGED version
    BY <2>3 DEF RecordFailure
  <2>5. GensInv'
    BY <2>1, <2>2, <2>4, RegisterGens, GensRegistered
  <2>6. \A q \in Runs : Owes(q) => Owes(q)'
    BY <2>2 DEF Owes, Due
  <2>7. BestInv'
    BY <2>1, <2>2, <2>3, <2>6, FailureChooses, BestUnchanged DEF BestInv
  <2> QED
    BY <2>5, <2>7
<1>10. ASSUME NEW r \in Runs, StoreFails(r)
       PROVE  GensInv' /\ BestInv'
  <2>1. /\ held[r] \in Objects /\ held[r] \in AtHand(r) /\ UNCHANGED <<bucket, uploads, todo>>
        /\ \A q \in Runs : AtHand(q)' \subseteq AtHand(q)
    BY <1>10, StoringTyped DEF StoreFails, Storing, AtHand, Typed, TypeOK
  <2>2. Knows(held[r].uri, held[r].gen)
    BY <2>1 DEF Knows
  <2>3. RecordFailure(held[r]) /\ UNCHANGED <<replays, derived, failed, touched, pc>>
    BY <1>10 DEF StoreFails
  <2>4. Register(held[r], "FAILED") \/ UNCHANGED version
    BY <2>3 DEF RecordFailure
  <2>5. GensInv'
    BY <2>1, <2>2, <2>4, RegisterGens, GensRegistered
  <2>6. \A q \in Runs : Owes(q) => Owes(q)'
    BY <2>3 DEF Owes, Due
  <2> QED
    BY <2>1, <2>3, <2>5, <2>6, FailureChooses
<1>11. ASSUME NEW r \in Runs, RunFails(r)
       PROVE  GensInv' /\ BestInv'
  <2>1. UNCHANGED <<bucket, uploads, version>> /\ failed'
    BY <1>11 DEF RunFails, tables
  <2>2. \A q \in Runs : AtHand(q)' \subseteq AtHand(q)
    BY <1>11 DEF RunFails, AtHand, Typed, TypeOK
  <2> QED
    BY <2>1, <2>2, GensUnchanged DEF BestInv
<1>12. CASE UNCHANGED vars
  <2>1. UNCHANGED <<bucket, uploads, todo, held, lines, replays, derived, version, failed, touched, pc>>
    BY <1>12 DEF vars, tables, run
  <2>2. \A q \in Runs : AtHand(q)' \subseteq AtHand(q)
    BY <2>1 DEF AtHand
  <2> QED
    BY <2>1, <2>2, GensUnchanged, BestUnchanged DEF BestInv, Owes, Due
<1>13. ASSUME NEW r \in Runs, Progress(r)
       PROVE  GensInv' /\ BestInv'
  BY <1>3, <1>4, <1>5, <1>6, <1>7, <1>8, <1>13 DEF Progress
<1>14. ASSUME NEW r \in Runs, Fails(r)
       PROVE  GensInv' /\ BestInv'
  BY <1>9, <1>10, <1>11, <1>14 DEF Fails
<1> QED
  BY <1>1, <1>2, <1>12, <1>13, <1>14 DEF Next

\* When no run is under way and none has died, the derived tables are from the best
\* replay of each session that is stored, whichever came last, whatever failed to be
\* read or stored, and whichever runs recomputed in between; but for what AsGood excepts.
THEOREM BestReplayUsed == Spec => []BestReplay
<1>1. Init => Typed /\ ReplayInv
  BY InitTyped, InitReplay
<1>2. Typed /\ ReplayInv /\ [Next]_vars => (Typed /\ ReplayInv)'
  BY NextTyped, NextReplay
<1>3. Typed /\ ReplayInv => BestReplay
  BY DEF Typed, TypeOK, ReplayInv, BestInv, Owes, Due, IsBest, BestReplay, Idle
<1> QED
  BY <1>1, <1>2, <1>3, PTL DEF Spec
=============================================================================
