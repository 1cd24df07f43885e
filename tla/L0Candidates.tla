---------------------------- MODULE L0Candidates ----------------------------
(***************************************************************************)
(* The l0_commits and backport_candidates rows of one package.  Neither    *)
(* table has a unique key: whether a row is there is asked first and the   *)
(* row is inserted by a later call.                                        *)
(*                                                                         *)
(*   watchers   L0Watcher::poll_package (l0/watcher.rs)                    *)
(*   pollers    L0PollingService::poll_l0 (l0/polling_service.rs)          *)
(*   pushers    POST /api/metadata/l0 (server/handlers/metadata.rs)        *)
(*   advisors   BackportAdvisor::generate_for_package, which the backport  *)
(*              stage of every pipeline of the package calls               *)
(***************************************************************************)
EXTENDS Naturals, FiniteSets

CONSTANTS
  Shas,              \* commits of the package's upstream repository
  Watchers, Pollers, L0Pushers,
  Advisors,
  Distros,           \* distros of the package's trackings, one tracking each
  MaxL0Mishaps,      \* bound: crashes and failed calls
  MaxL0Crew,         \* bound: programs at work
  NoItem             \* no commit, no pair

L0Writers == Watchers \cup Pollers \cup L0Pushers
\* a row of l0_commits: the commit, and who inserted it
L0Rows == Shas \X L0Writers
\* what an advisor looks for: a row's candidate for a distro
Pairs == L0Rows \X Distros

ASSUME L0Assumption ==
  /\ Watchers \cap (Pollers \cup L0Pushers) = {} /\ Pollers \cap L0Pushers = {}
  /\ NoItem \notin Shas \cup Pairs
  /\ IsFiniteSet(L0Writers \cup Advisors) /\ L0Writers \cap Advisors = {}
  /\ MaxL0Mishaps \in Nat

VARIABLES
  l0rows,       \* how often each writer inserted each commit
  cands,        \* how often each advisor inserted a candidate for each pair
  l0at,         \* where each writer is
  l0todo,       \* the commits of its listing it has still to handle
  l0item,       \* the commit it found absent
  adAt, adTodo, adItem,   \* the same of each advisor and its pairs
  adRead,       \* history: the pairs of the rows an advisor at work read
  l0mishaps

l0Vars == <<l0rows, cands, l0at, l0todo, l0item, adAt, adTodo, adItem, adRead, l0mishaps>>
writerVars == <<l0rows, l0at, l0todo, l0item>>
advisorVars == <<cands, adAt, adTodo, adItem, adRead>>

L0Init ==
  /\ l0rows = [s \in Shas |-> [w \in L0Writers |-> 0]]
  /\ cands = [p \in Pairs |-> [a \in Advisors |-> 0]]
  /\ \E crew \in SUBSET (L0Writers \cup Advisors) :
       /\ Cardinality(crew) <= MaxL0Crew
       /\ l0at = [w \in L0Writers |-> IF w \in crew THEN "idle" ELSE "off"]
       /\ adAt = [a \in Advisors |-> IF a \in crew THEN "idle" ELSE "off"]
  /\ l0todo = [w \in L0Writers |-> {}]
  /\ l0item = [w \in L0Writers |-> NoItem]
  /\ adTodo = [a \in Advisors |-> {}]
  /\ adItem = [a \in Advisors |-> NoItem]
  /\ adRead = [a \in Advisors |-> {}]
  /\ l0mishaps = 0
-----------------------------------------------------------------------------
HasRow(s) == \E w \in L0Writers : l0rows[s][w] > 0

\* seeded fault: only an accepted candidate counts, and none is accepted
HasAcceptedCandidate(p) == FALSE

\* seeded fault: the distro is left out of the query
HasCandidateAnyDistro(p) == \E q \in Pairs, a \in Advisors : q[1] = p[1] /\ cands[q][a] > 0

HasCandidate(p) == \E a \in Advisors : cands[p][a] > 0

InsertRow(w, s) == l0rows' = [l0rows EXCEPT ![s][w] = @ + 1]

\* the upstream repository is listed, or a snapshot is posted
Listing(w, shas) ==
  /\ l0at[w] = "idle"
  /\ shas # {}
  /\ l0at' = [l0at EXCEPT ![w] = "scan"]
  /\ l0todo' = [l0todo EXCEPT ![w] = shas]
  /\ UNCHANGED <<l0rows, l0item, advisorVars, l0mishaps>>

EndOfListing(w) ==
  /\ l0at[w] \in {"scan", "add"} /\ l0todo[w] = {}
  /\ l0at' = [l0at EXCEPT ![w] = "idle"]
  /\ UNCHANGED <<l0rows, l0todo, l0item, advisorVars, l0mishaps>>

\* seeded fault: the rows of the package are not read
WatcherScanAll(w) ==
  /\ w \in Watchers /\ l0at[w] = "scan"
  /\ l0at' = [l0at EXCEPT ![w] = "add"]
  /\ UNCHANGED <<l0rows, l0todo, l0item, advisorVars, l0mishaps>>

\* poll_package reads all rows of the package once
WatcherScan(w) ==
  /\ w \in Watchers /\ l0at[w] = "scan"
  /\ l0todo' = [l0todo EXCEPT ![w] = {s \in @ : ~HasRow(s)}]
  /\ l0at' = [l0at EXCEPT ![w] = "add"]
  /\ UNCHANGED <<l0rows, l0item, advisorVars, l0mishaps>>

WatcherInsert(w, s) ==
  /\ l0at[w] = "add" /\ s \in l0todo[w]
  /\ InsertRow(w, s)
  /\ l0todo' = [l0todo EXCEPT ![w] = @ \ {s}]
  /\ UNCHANGED <<l0at, l0item, advisorVars, l0mishaps>>

\* poll_l0 and import_l0_commit look for each commit in turn
LookForCommit(w, s) ==
  /\ w \notin Watchers /\ l0at[w] = "scan" /\ s \in l0todo[w]
  /\ l0todo' = [l0todo EXCEPT ![w] = @ \ {s}]
  /\ IF HasRow(s) THEN UNCHANGED <<l0at, l0item>>
     ELSE /\ l0item' = [l0item EXCEPT ![w] = s]
          /\ l0at' = [l0at EXCEPT ![w] = "insert"]
  /\ UNCHANGED <<l0rows, advisorVars, l0mishaps>>

InsertCommit(w) ==
  /\ l0at[w] = "insert"
  /\ InsertRow(w, l0item[w])
  /\ l0at' = [l0at EXCEPT ![w] = "scan"]
  /\ l0item' = [l0item EXCEPT ![w] = NoItem]
  /\ UNCHANGED <<l0todo, advisorVars, l0mishaps>>

L0Mishap == l0mishaps < MaxL0Mishaps /\ l0mishaps' = l0mishaps + 1

\* seeded fault: the loop does not go on
PushSkipsInPlace(w) ==
  /\ w \in L0Pushers /\ l0at[w] = "insert"
  /\ L0Mishap
  /\ l0item' = [l0item EXCEPT ![w] = NoItem]
  /\ UNCHANGED <<l0at, l0rows, l0todo, advisorVars>>

\* import_l0_metadata logs a commit's error and goes on
PushSkips(w) ==
  /\ w \in L0Pushers /\ l0at[w] = "insert"
  /\ L0Mishap
  /\ l0at' = [l0at EXCEPT ![w] = "scan"]
  /\ l0item' = [l0item EXCEPT ![w] = NoItem]
  /\ UNCHANGED <<l0rows, l0todo, advisorVars>>

\* a crash, or an error of a poll
WriterStops(w) ==
  /\ l0at[w] \notin {"off", "idle"}
  /\ L0Mishap
  /\ l0at' = [l0at EXCEPT ![w] = "idle"]
  /\ l0todo' = [l0todo EXCEPT ![w] = {}]
  /\ l0item' = [l0item EXCEPT ![w] = NoItem]
  /\ UNCHANGED <<l0rows, advisorVars>>

WriterStep(w) ==
  \/ \E shas \in SUBSET Shas : Listing(w, shas)
  \/ EndOfListing(w) \/ WatcherScan(w) \/ InsertCommit(w) \/ PushSkips(w) \/ WriterStops(w)
  \/ \E s \in Shas : WatcherInsert(w, s) \/ LookForCommit(w, s)
-----------------------------------------------------------------------------
(* generate_for_package: the trackings and the rows are read once, then    *)
(* each pair is looked for and inserted by two calls                       *)

ReadRows(a) ==
  /\ adAt[a] = "idle"
  /\ adRead' = [adRead EXCEPT ![a] = {p \in Pairs : l0rows[p[1][1]][p[1][2]] > 0}]
  /\ adTodo' = [adTodo EXCEPT ![a] = adRead'[a]]
  /\ adAt' = [adAt EXCEPT ![a] = "look"]
  /\ UNCHANGED <<writerVars, cands, adItem, l0mishaps>>

LookForCandidate(a, p) ==
  /\ adAt[a] = "look" /\ p \in adTodo[a]
  /\ IF HasCandidate(p)
     THEN /\ adTodo' = [adTodo EXCEPT ![a] = @ \ {p}]
          /\ UNCHANGED <<adAt, adItem>>
     ELSE /\ adItem' = [adItem EXCEPT ![a] = p]
          /\ adAt' = [adAt EXCEPT ![a] = "insert"]
          /\ UNCHANGED adTodo
  /\ UNCHANGED <<writerVars, cands, adRead, l0mishaps>>

InsertCandidate(a) ==
  /\ adAt[a] = "insert"
  /\ cands' = [cands EXCEPT ![adItem[a]][a] = @ + 1]
  /\ adTodo' = [adTodo EXCEPT ![a] = @ \ {adItem[a]}]
  /\ adAt' = [adAt EXCEPT ![a] = "look"]
  /\ adItem' = [adItem EXCEPT ![a] = NoItem]
  /\ UNCHANGED <<writerVars, adRead, l0mishaps>>

AdvisorDone(a) ==
  /\ adAt[a] = "look" /\ adTodo[a] = {}
  /\ adAt' = [adAt EXCEPT ![a] = "idle"]
  /\ adRead' = [adRead EXCEPT ![a] = {}]
  /\ UNCHANGED <<writerVars, cands, adTodo, adItem, l0mishaps>>

\* a crash, or the first error: what was read is gone
AdvisorStops(a) ==
  /\ adAt[a] \notin {"off", "idle"}
  /\ L0Mishap
  /\ adAt' = [adAt EXCEPT ![a] = "idle"]
  /\ adTodo' = [adTodo EXCEPT ![a] = {}]
  /\ adRead' = [adRead EXCEPT ![a] = {}]
  /\ adItem' = [adItem EXCEPT ![a] = NoItem]
  /\ UNCHANGED <<writerVars, cands>>

AdvisorStep(a) ==
  \/ ReadRows(a) \/ InsertCandidate(a) \/ AdvisorDone(a) \/ AdvisorStops(a)
  \/ \E p \in Pairs : LookForCandidate(a, p)

L0Next == (\E w \in L0Writers : WriterStep(w)) \/ (\E a \in Advisors : AdvisorStep(a))

L0Spec == L0Init /\ [][L0Next]_l0Vars
-----------------------------------------------------------------------------
\* Every variable has its type, and who is about to insert has what to insert.
L0TypeOK ==
  /\ l0rows \in [Shas -> [L0Writers -> Nat]]
  /\ cands \in [Pairs -> [Advisors -> Nat]]
  /\ l0at \in [L0Writers -> {"off", "idle", "scan", "add", "insert"}]
  /\ l0todo \in [L0Writers -> SUBSET Shas]
  /\ l0item \in [L0Writers -> Shas \cup {NoItem}]
  /\ adAt \in [Advisors -> {"off", "idle", "look", "insert"}]
  /\ adTodo \in [Advisors -> SUBSET Pairs]
  /\ adItem \in [Advisors -> Pairs \cup {NoItem}]
  /\ adRead \in [Advisors -> SUBSET Pairs]
  /\ l0mishaps \in 0..MaxL0Mishaps
  /\ \A w \in L0Writers : l0at[w] = "insert" => l0item[w] \in Shas
  /\ \A a \in Advisors : adAt[a] = "insert" => adItem[a] \in Pairs

\* Without a unique key a commit may be stored more than once, but never twice
\* by the same watcher, poller or client, however often it polls and fails: a
\* commit has at most as many rows as there are writers.
OneRowPerWriter == \A s \in Shas, w \in L0Writers : l0rows[s][w] <= 1

\* The same of the candidates: pipelines of two trackings of a package that
\* run at a time may both suggest a backport, one pipeline never does twice.
OneCandidatePerAdvisor == \A p \in Pairs, a \in Advisors : cands[p][a] <= 1

\* Every row an advisor read and has handled has its candidate for every distro,
\* whoever inserted it: when generate_for_package ends without an error nothing
\* it read is without a suggestion.
AdvisorCovers ==
  \A a \in Advisors : \A p \in adRead[a] \ adTodo[a] : \E b \in Advisors : cands[p][b] > 0
=============================================================================
