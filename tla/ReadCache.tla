------------------------------ MODULE ReadCache ------------------------------
(* The read cache (exasolclient/read_cache.go) between parallel Read calls of
   resources and the statements execWrite runs (resources/helpers.go).

   A reader is one call of Rows, a writer one call of execWrite. The database
   is its version: the number of statements committed. A load is a query that
   sees one version; a load also carries the version at which it failed, so a
   remembered error has an age like remembered rows have. *)
EXTENDS Naturals

CONSTANTS
  Readers,   \* calls of Rows
  Writers,   \* calls of execWrite
  Ids,       \* view ids: number of key columns and query
  Views,     \* the cachedView objects that can be allocated
  NoView, NoReader

ASSUME CacheAssumption == NoView \notin Views /\ NoReader \notin Readers

VARIABLES
  version,  \* the database: statements committed so far
  views,    \* ReadCache.views: id -> view or NoView
  used,     \* views allocated so far
  view,     \* the fields of each cachedView: loaded, err, at
  holder,   \* who holds each cachedView's mu
  rpc, asked, ref, result,  \* per reader: step, id, view, what loadView returned
  ctxDone,  \* per reader: its context is cancelled or timed out
  wpc,      \* per writer: step
  cleared,  \* history: version at the last Clear
  floor     \* history: per reader, cleared when it asked for its view

dbVars == <<version, wpc>>
cacheVars == <<views, used, view, holder>>
readerVars == <<rpc, asked, ref, result, ctxDone, floor>>
vars == <<dbVars, cacheVars, readerVars, cleared>>

Errors == {"none", "failed", "cancelled"}

Loads == [err : Errors, at : Nat]

\* The zero cachedView.
EmptyView == [loaded |-> FALSE, err |-> "none", at |-> 0]

TypeOK ==
  /\ version \in Nat /\ cleared \in Nat
  /\ views \in [Ids -> Views \cup {NoView}]
  /\ used \in SUBSET Views
  /\ view \in [Views -> [loaded : BOOLEAN, err : Errors, at : Nat]]
  /\ holder \in [Views -> Readers \cup {NoReader}]
  /\ rpc \in [Readers -> {"start", "lock", "query", "fill", "answer", "done"}]
  /\ asked \in [Readers -> Ids]
  /\ ref \in [Readers -> Views \cup {NoView}]
  /\ result \in [Readers -> Loads]
  /\ ctxDone \in [Readers -> BOOLEAN]
  /\ wpc \in [Writers -> {"exec", "clear", "done"}]
  /\ floor \in [Readers -> Nat]

Init ==
  /\ version = 0 /\ cleared = 0
  /\ views = [i \in Ids |-> NoView]
  /\ used = {}
  /\ view = [v \in Views |-> EmptyView]
  /\ holder = [v \in Views |-> NoReader]
  /\ rpc = [r \in Readers |-> "start"]
  /\ asked \in [Readers -> Ids]
  /\ ref = [r \in Readers |-> NoView]
  /\ result = [r \in Readers |-> [err |-> "none", at |-> 0]]
  /\ ctxDone = [r \in Readers |-> FALSE]
  /\ wpc = [w \in Writers |-> "exec"]
  /\ floor = [r \in Readers |-> 0]

-----------------------------------------------------------------------------
\* c.view(id), under c.mu: the view in the cache, or a new one put there.
GetView(r) ==
  /\ rpc[r] = "start"
  /\ \E v \in Views :
       /\ \/ v = views[asked[r]]
          \/ views[asked[r]] = NoView /\ v \notin used
       /\ views' = [views EXCEPT ![asked[r]] = v]
       /\ used' = used \cup {v}
       /\ ref' = [ref EXCEPT ![r] = v]
  /\ floor' = [floor EXCEPT ![r] = cleared]
  /\ rpc' = [rpc EXCEPT ![r] = "lock"]
  /\ UNCHANGED <<dbVars, view, holder, asked, result, ctxDone, cleared>>

\* v.mu.Lock, then the test of v.loaded. The wait does not look at the context.
LockView(r) ==
  /\ rpc[r] = "lock" /\ holder[ref[r]] = NoReader
  /\ holder' = [holder EXCEPT ![ref[r]] = r]
  /\ rpc' = [rpc EXCEPT ![r] = IF view[ref[r]].loaded THEN "answer" ELSE "query"]
  /\ UNCHANGED <<dbVars, views, used, view, asked, ref, result, ctxDone, cleared, floor>>

\* loadView: the query sees the database as it is now, fails, or is stopped by
\* the reader's own context.
Query(r) ==
  /\ rpc[r] = "query"
  /\ \E e \in Errors :
       /\ e = "cancelled" => ctxDone[r]
       /\ result' = [result EXCEPT ![r] = [err |-> e, at |-> version]]
  /\ rpc' = [rpc EXCEPT ![r] = "fill"]
  /\ UNCHANGED <<dbVars, cacheVars, asked, ref, ctxDone, cleared, floor>>

\* Mutant of Filled: a cancelled load is kept like any other.
FilledAlways(load) == [loaded |-> TRUE, err |-> load.err, at |-> load.at]

\* The cachedView after a load: it counts as loaded unless it was cancelled.
Filled(load) == [loaded |-> load.err # "cancelled", err |-> load.err, at |-> load.at]

\* v.rows, v.err and v.loaded are set, in the view the reader asked for, which
\* may have left the cache by now.
Fill(r) ==
  /\ rpc[r] = "fill"
  /\ view' = [view EXCEPT ![ref[r]] = Filled(result[r])]
  /\ rpc' = [rpc EXCEPT ![r] = "answer"]
  /\ UNCHANGED <<dbVars, views, used, holder, asked, ref, result, ctxDone, cleared, floor>>

\* Mutant of Answer: the return with an error forgets to unlock.
AnswerErrorLocked(r) ==
  /\ rpc[r] = "answer"
  /\ result' = [result EXCEPT ![r] = [err |-> view[ref[r]].err, at |-> view[ref[r]].at]]
  /\ holder' = IF view[ref[r]].err = "none" THEN [holder EXCEPT ![ref[r]] = NoReader] ELSE holder
  /\ rpc' = [rpc EXCEPT ![r] = "done"]
  /\ UNCHANGED <<dbVars, views, used, view, asked, ref, ctxDone, cleared, floor>>

\* Rows returns v's error or rows, and the deferred v.mu.Unlock runs.
Answer(r) ==
  /\ rpc[r] = "answer"
  /\ result' = [result EXCEPT ![r] = [err |-> view[ref[r]].err, at |-> view[ref[r]].at]]
  /\ holder' = [holder EXCEPT ![ref[r]] = NoReader]
  /\ rpc' = [rpc EXCEPT ![r] = "done"]
  /\ UNCHANGED <<dbVars, views, used, view, asked, ref, ctxDone, cleared, floor>>

\* Terraform cancels the reader's context, or its deadline passes.
Cancel(r) ==
  /\ rpc[r] # "done" /\ ~ctxDone[r]
  /\ ctxDone' = [ctxDone EXCEPT ![r] = TRUE]
  /\ UNCHANGED <<dbVars, cacheVars, rpc, asked, ref, result, cleared, floor>>

\* db.ExecContext in execWrite: the statement commits, or fails for good.
Exec(w) ==
  /\ wpc[w] = "exec"
  /\ version' \in {version, version + 1}
  /\ wpc' = [wpc EXCEPT ![w] = "clear"]
  /\ UNCHANGED <<cacheVars, readerVars, cleared>>

\* Mutant of Clear: the cached views stay in the map and are marked to be loaded.
ClearInPlace(w) ==
  /\ wpc[w] = "clear"
  /\ view' = [v \in Views |-> [view[v] EXCEPT !.loaded = FALSE]]
  /\ cleared' = version
  /\ wpc' = [wpc EXCEPT ![w] = "done"]
  /\ UNCHANGED <<version, views, used, holder, readerVars>>

\* The deferred reads.Clear in execWrite, under c.mu: a new, empty map.
Clear(w) ==
  /\ wpc[w] = "clear"
  /\ views' = [i \in Ids |-> NoView]
  /\ cleared' = version
  /\ wpc' = [wpc EXCEPT ![w] = "done"]
  /\ UNCHANGED <<version, used, view, holder, readerVars>>

ReaderStep(r) == GetView(r) \/ LockView(r) \/ Query(r) \/ Fill(r) \/ Answer(r)

WriterStep(w) == Exec(w) \/ Clear(w)

AllDone == (\A r \in Readers : rpc[r] = "done") /\ (\A w \in Writers : wpc[w] = "done")

Terminating == AllDone /\ UNCHANGED vars

Next ==
  \/ \E r \in Readers : ReaderStep(r) \/ Cancel(r)
  \/ \E w \in Writers : WriterStep(w)
  \/ Terminating

\* Goroutines that can run do run, and the driver answers every query. Each call
\* takes v.mu once, so weak fairness gives every waiter its turn.
Fairness ==
  /\ \A r \in Readers : WF_vars(ReaderStep(r))
  /\ \A w \in Writers : WF_vars(WriterStep(w))

Spec == Init /\ [][Next]_vars /\ Fairness

-----------------------------------------------------------------------------
\* helpers.go:211-212, "a later Read does not see rows from before the change":
\* a call of Rows that begins after a write's Clear returns neither rows nor a
\* remembered error older than that write, although loads that began before the
\* write may still be running when it begins.
NoStaleAnswer == \A r \in Readers : rpc[r] = "done" => result[r].at >= floor[r]

\* read_cache.go:44-45: a cancelled load belongs to its caller's context, so a
\* caller whose own context is alive never gets another caller's cancellation.
CancelStaysWithCaller ==
  \A r \in Readers : rpc[r] = "done" /\ result[r].err = "cancelled" => ctxDone[r]

\* read_cache.go:40 and 42-44: rows are shared with other callers, and a failed
\* load is kept, so no caller loads a view again that another has loaded.
LoadedViewKept == [][\A v \in Views : view[v].loaded => view'[v] = view[v]]_vars

\* Every call of Rows returns, whatever the other callers' contexts do.
EveryCallReturns == \A r \in Readers : rpc[r] = "lock" ~> rpc[r] = "done"

\* How a call of Rows appears to its caller: it runs, then shows a version.
Phase == [r \in Readers |-> IF rpc[r] = "start" THEN "idle"
                            ELSE IF rpc[r] = "done" THEN "answered" ELSE "reading"]
Shown == [r \in Readers |-> IF rpc[r] = "done" THEN result[r].at ELSE 0]

Fresh == INSTANCE FreshReads WITH
  step <- wpc, returned <- cleared, phase <- Phase, answer <- Shown

\* Every cachedView and every load is hidden: a call of Rows is a read that shows
\* the database at one moment between the last Clear before it and its return
\* (helpers.go:211-212 and read_cache.go:36-45), however loads, waits and Clears
\* interleave.
ReadsAreFresh == Fresh!Spec
=============================================================================
