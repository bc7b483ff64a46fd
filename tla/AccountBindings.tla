--------------------------- MODULE AccountBindings ---------------------------
(***************************************************************************)
(* The account bindings of HqStrategyRunner (hq/strategy_runner.py): the   *)
(* HTTP API, the MCP server and the command line each hold them in memory  *)
(* and rewrite one file with all of them.  Each worker carries out one     *)
(* call at a time; two workers may belong to one process, because FastAPI  *)
(* runs these handlers on threads.  Of a binding only the IBKR client id   *)
(* is kept: it is the field that must differ between strategies.           *)
(***************************************************************************)
EXTENDS Integers

CONSTANTS
  Codes,       \* STRATEGY_SPECS
  Workers,     \* threads that carry out calls
  Procs,       \* processes that hold an HqStrategyRunner
  Ids,         \* client ids callers may ask for
  DefaultId,   \* StrategySpec.default_client_id
  ReservedId   \* the options algo's client id, 42

ASSUME BindingsAssumption ==
  /\ Ids \subseteq Nat /\ ReservedId \in Nat
  /\ DefaultId \in [Codes -> Nat \ {0, ReservedId}]
  /\ \A c, d \in Codes : DefaultId[c] = DefaultId[d] => c = d

VARIABLES
  home,     \* the process of each worker
  memory,   \* runner._bindings of each process
  file,     \* the bindings file: a map, or Unreadable
  request,  \* the configure call each worker is in
  crossed,  \* history: two configure calls of one process overlapped
  falsy     \* history: client id 0 was bound

bindingsVars == <<home, memory, file, request, crossed, falsy>>

\* Missing, or cut short by a crash.
Unreadable == [c \in Codes |-> -1]
NoRequest == [step |-> "idle"]

At(w, step) == request[w].step = step

-----------------------------------------------------------------------------
\* Mutant: a file that cannot be parsed is taken as it is.
LoadedTorn(f) == [c \in Codes |-> IF f[c] = 0 THEN DefaultId[c] ELSE f[c]]

\* An id of 0 in the file is falsy, and the default takes its place; a file
\* that cannot be parsed counts for nothing.
Loaded(f) ==
  IF f = Unreadable THEN DefaultId
  ELSE [c \in Codes |-> IF f[c] = 0 THEN DefaultId[c] ELSE f[c]]

Injective(m) == \A c, d \in Codes : m[c] = m[d] => c = d

\* Mutant: only the strategy's own binding is looked at.
IdFreeOwnOnly(p, c, i) == i # ReservedId

IdFree(p, c, i) ==
  /\ i # ReservedId
  /\ \A d \in Codes \ {c} : memory[p][d] # i

Binding(w, p) == At(w, "bind") /\ home[w] = p

\* configure_account up to its assignment: the checks see the bindings of
\* this process only.  Without a client id (start_strategy with an account or
\* a size) the current one is kept.
Configure(w, c, i) ==
  /\ At(w, "idle")
  /\ IdFree(home[w], c, i)
  /\ crossed' = (crossed \/ \E v \in Workers : Binding(v, home[w]))
  /\ request' = [request EXCEPT ![w] = [step |-> "bind", code |-> c, id |-> i]]
  /\ UNCHANGED <<home, memory, file, falsy>>

Bind(w) ==
  /\ At(w, "bind")
  /\ memory' = [memory EXCEPT ![home[w]][request[w].code] = request[w].id]
  /\ falsy' = (falsy \/ request[w].id = 0)
  /\ request' = [request EXCEPT ![w] = [step |-> "save"]]
  /\ UNCHANGED <<home, file, crossed>>

\* _save_bindings writes all bindings of this process over whatever another
\* process saved; an OSError is swallowed.
SaveBindings(w) ==
  /\ At(w, "save")
  /\ file' \in {memory[home[w]], file}
  /\ request' = [request EXCEPT ![w] = NoRequest]
  /\ UNCHANGED <<home, memory, crossed, falsy>>

\* A process dies and starts again, a command line ends and another begins:
\* calls are gone, and a write under way may leave half a file.
ReloadBindings(p) ==
  LET mine == {w \in Workers : home[w] = p}
  IN /\ file' \in IF \E w \in mine : At(w, "save") THEN {file, Unreadable} ELSE {file}
     /\ memory' = [memory EXCEPT ![p] = Loaded(file')]
     /\ request' = [w \in Workers |-> IF w \in mine THEN NoRequest ELSE request[w]]
     /\ UNCHANGED <<home, crossed, falsy>>

BindingsInit ==
  /\ home \in [Workers -> Procs]
  /\ memory = [p \in Procs |-> DefaultId]
  /\ file = Unreadable
  /\ request = [w \in Workers |-> NoRequest]
  /\ crossed = FALSE /\ falsy = FALSE

BindingsNext ==
  \/ \E w \in Workers :
       \/ \E c \in Codes : \E i \in Ids \cup {memory[home[w]][c]} : Configure(w, c, i)
       \/ Bind(w)
       \/ SaveBindings(w)
  \/ \E p \in Procs : ReloadBindings(p)

BindingsSpec == BindingsInit /\ [][BindingsNext]_bindingsVars

-----------------------------------------------------------------------------
BindingsTypeOK ==
  /\ home \in [Workers -> Procs]
  /\ memory \in [Procs -> [Codes -> Nat]]
  /\ file \in [Codes -> Nat] \cup {Unreadable}
  /\ request \in [Workers -> [step : {"idle", "save"}]
                               \cup [step : {"bind"}, code : Codes, id : Nat]]
  /\ crossed \in BOOLEAN /\ falsy \in BOOLEAN

\* Two strategies of one process never share a client id (configure_account
\* refuses it), however many processes write the file and whatever is left of
\* it after a crash.  Two things break it in the code, and only these: two
\* configure calls on threads of one process, and the client id 0, which a
\* reload replaces by the default that another strategy may have taken.
IdsDistinct ==
  crossed \/ falsy \/ \A p \in Procs : Injective(memory[p])
=============================================================================
