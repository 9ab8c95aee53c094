--------------------------- MODULE ReadCacheProofs ---------------------------
(* NoStaleAnswer for any number of readers, writers and views. *)
EXTENDS ReadCache, TLAPS

\* A reader past GetView has a view, and one that holds its view's mu is the
\* only one at work on it.
ReaderShape ==
  \A r \in Readers :
    /\ rpc[r] # "start" => ref[r] \in used
    /\ rpc[r] \in {"query", "fill", "answer"} => holder[ref[r]] = r

\* A view in the cache was allocated, and a filled one was filled with a load
\* that ran after the last Clear.
CachedViewsFresh ==
  \A i \in Ids : views[i] # NoView =>
    /\ views[i] \in used
    /\ view[views[i]] # EmptyView => view[views[i]].at >= cleared
    /\ \A r \in Readers :
         rpc[r] = "fill" /\ ref[r] = views[i] => result[r].at >= cleared

\* A view a reader asked for is never filled with a load from before the reader
\* asked, whether or not it is still in the cache.
AskedViewsFresh ==
  \A r \in Readers : rpc[r] # "start" =>
    /\ view[ref[r]] # EmptyView => view[ref[r]].at >= floor[r]
    /\ \A q \in Readers :
         rpc[q] = "fill" /\ ref[q] = ref[r] => result[q].at >= floor[r]
    /\ rpc[r] = "answer" => view[ref[r]] # EmptyView

ClockInv ==
  /\ cleared <= version
  /\ \A r \in Readers : floor[r] <= cleared
  /\ \A v \in Views \ used : view[v] = EmptyView

CacheInv ==
  /\ TypeOK
  /\ ReaderShape
  /\ ClockInv
  /\ CachedViewsFresh
  /\ AskedViewsFresh
  /\ NoStaleAnswer

-----------------------------------------------------------------------------
\* The initial state: nothing cached, nothing asked.
LEMMA CacheInitInv == Init => CacheInv
<1> SUFFICES ASSUME Init PROVE CacheInv
  OBVIOUS
<1>1. TypeOK
  BY DEF Init, TypeOK, EmptyView, Errors, Loads
<1>2. ReaderShape /\ AskedViewsFresh /\ NoStaleAnswer
  BY DEF Init, ReaderShape, AskedViewsFresh, NoStaleAnswer
<1>3. ClockInv /\ CachedViewsFresh
  BY DEF Init, ClockInv, CachedViewsFresh
<1> QED
  BY <1>1, <1>2, <1>3 DEF CacheInv

\* Asking: the view is new and empty, or in the cache and so fresh.
LEMMA GetViewInv ==
  ASSUME CacheInv, NEW r \in Readers, GetView(r)
  PROVE  CacheInv'
<1> USE DEF CacheInv
<1>1. PICK v \in Views :
        /\ \/ v = views[asked[r]]
           \/ views[asked[r]] = NoView /\ v \notin used
        /\ views' = [views EXCEPT ![asked[r]] = v]
        /\ used' = used \cup {v}
        /\ ref' = [ref EXCEPT ![r] = v]
  BY DEF GetView
<1>2. /\ floor' = [floor EXCEPT ![r] = cleared]
      /\ rpc[r] = "start" /\ rpc' = [rpc EXCEPT ![r] = "lock"]
      /\ UNCHANGED <<version, wpc, view, holder, asked, result, ctxDone, cleared>>
  BY DEF GetView, dbVars
<1>3. asked[r] \in Ids /\ v # NoView
  BY CacheAssumption DEF TypeOK
<1>4. TypeOK'
  BY <1>1, <1>2, <1>3 DEF TypeOK
<1>5. ReaderShape'
  BY <1>1, <1>2 DEF ReaderShape, TypeOK
<1>6. ClockInv'
  BY <1>1, <1>2 DEF ClockInv, TypeOK
<1>7. v \notin used => view[v] = EmptyView /\ \A q \in Readers : rpc[q] # "start" => ref[q] # v
  BY DEF ClockInv, ReaderShape
<1>8. /\ view[v] # EmptyView => view[v].at >= cleared
      /\ \A q \in Readers : rpc[q] = "fill" /\ ref[q] = v => result[q].at >= cleared
  <2>1. CASE v = views[asked[r]]
    BY <2>1, <1>3 DEF CachedViewsFresh
  <2>2. CASE v \notin used
    BY <2>2, <1>7
  <2> QED
    BY <2>1, <2>2, <1>1
<1>9. CachedViewsFresh'
  <2> SUFFICES ASSUME NEW i \in Ids, views'[i] # NoView
               PROVE  /\ views'[i] \in used'
                      /\ view[views'[i]] # EmptyView => view[views'[i]].at >= cleared
                      /\ \A q \in Readers : rpc'[q] = "fill" /\ ref'[q] = views'[i]
                           => result[q].at >= cleared
    BY <1>2 DEF CachedViewsFresh
  <2>1. \A q \in Readers : rpc'[q] = "fill" => rpc[q] = "fill" /\ ref'[q] = ref[q]
    BY <1>1, <1>2 DEF TypeOK
  <2>2. CASE i = asked[r]
    BY <2>1, <2>2, <1>1, <1>3, <1>8 DEF TypeOK
  <2>3. CASE i # asked[r]
    BY <2>1, <2>3, <1>1 DEF CachedViewsFresh, TypeOK
  <2> QED
    BY <2>2, <2>3
<1>10. AskedViewsFresh'
  <2> SUFFICES ASSUME NEW p \in Readers, rpc'[p] # "start"
               PROVE  /\ view[ref'[p]] # EmptyView => view[ref'[p]].at >= floor'[p]
                      /\ \A q \in Readers : rpc'[q] = "fill" /\ ref'[q] = ref'[p]
                           => result[q].at >= floor'[p]
                      /\ rpc'[p] = "answer" => view[ref'[p]] # EmptyView
    BY <1>2 DEF AskedViewsFresh
  <2>1. \A q \in Readers : rpc'[q] = "fill" => rpc[q] = "fill" /\ ref'[q] = ref[q]
    BY <1>1, <1>2 DEF TypeOK
  <2>2. CASE p = r
    BY <2>1, <2>2, <1>1, <1>2, <1>8 DEF TypeOK
  <2>3. CASE p # r
    BY <2>1, <2>3, <1>1, <1>2 DEF AskedViewsFresh, TypeOK
  <2> QED
    BY <2>2, <2>3
<1>11. NoStaleAnswer'
  BY <1>2 DEF NoStaleAnswer, TypeOK
<1> QED
  BY <1>4, <1>5, <1>6, <1>9, <1>10, <1>11

\* Locking: only a filled view lets the reader go on to its answer.
LEMMA LockViewInv ==
  ASSUME CacheInv, NEW r \in Readers, LockView(r)
  PROVE  CacheInv'
<1> USE DEF CacheInv
<1>1. /\ rpc[r] = "lock" /\ holder[ref[r]] = NoReader
      /\ holder' = [holder EXCEPT ![ref[r]] = r]
      /\ rpc' = [rpc EXCEPT ![r] = IF view[ref[r]].loaded THEN "answer" ELSE "query"]
      /\ UNCHANGED <<version, wpc, views, used, view, asked, ref, result, ctxDone,
                     cleared, floor>>
  BY DEF LockView, dbVars
<1>2. ref[r] \in Views
  BY <1>1 DEF ReaderShape, TypeOK
<1>3. TypeOK'
  BY <1>1, <1>2 DEF TypeOK
<1>4. ReaderShape'
  BY <1>1, <1>2, CacheAssumption DEF ReaderShape, TypeOK
<1>5. ClockInv'
  BY <1>1 DEF ClockInv
<1>6. \A q \in Readers :
        /\ rpc'[q] = "fill" => rpc[q] = "fill"
        /\ rpc'[q] # "start" => rpc[q] # "start"
        /\ rpc'[q] = "done" => rpc[q] = "done"
  BY <1>1 DEF TypeOK
<1>7. CachedViewsFresh' /\ NoStaleAnswer'
  BY <1>1, <1>6 DEF CachedViewsFresh, NoStaleAnswer
<1>8. \A q \in Readers : rpc'[q] = "answer" => view[ref[q]] # EmptyView
  BY <1>1 DEF AskedViewsFresh, EmptyView, TypeOK
<1>9. AskedViewsFresh'
  BY <1>1, <1>6, <1>8 DEF AskedViewsFresh
<1> QED
  BY <1>3, <1>4, <1>5, <1>7, <1>9

\* Querying: the version seen is at least the one at the last Clear, and so at
\* least every reader's floor.
LEMMA QueryInv ==
  ASSUME CacheInv, NEW r \in Readers, Query(r)
  PROVE  CacheInv'
<1> USE DEF CacheInv
<1>1. PICK e \in Errors : result' = [result EXCEPT ![r] = [err |-> e, at |-> version]]
  BY DEF Query
<1>2. /\ rpc[r] = "query" /\ rpc' = [rpc EXCEPT ![r] = "fill"]
      /\ UNCHANGED <<version, wpc, views, used, view, holder, asked, ref, ctxDone,
                     cleared, floor>>
  BY DEF Query, dbVars, cacheVars
<1>3. TypeOK'
  BY <1>1, <1>2 DEF TypeOK, Loads
<1>4. ReaderShape' /\ ClockInv'
  BY <1>2 DEF ReaderShape, ClockInv, TypeOK
<1>5. \A q \in Readers :
        /\ rpc'[q] = "fill" => \/ rpc[q] = "fill" /\ result'[q] = result[q]
                               \/ result'[q].at = version
        /\ rpc'[q] = "answer" => rpc[q] = "answer"
        /\ rpc'[q] # "start" => rpc[q] # "start"
        /\ rpc'[q] = "done" => rpc[q] = "done" /\ result'[q] = result[q]
  BY <1>1, <1>2 DEF TypeOK
<1>6. CachedViewsFresh'
  BY <1>2, <1>5 DEF CachedViewsFresh, ClockInv
<1>7. \A p \in Readers : floor[p] <= version
  BY DEF ClockInv, TypeOK
<1>8. AskedViewsFresh'
  BY <1>2, <1>5, <1>7 DEF AskedViewsFresh
<1>9. NoStaleAnswer'
  BY <1>2, <1>5 DEF NoStaleAnswer
<1> QED
  BY <1>3, <1>4, <1>6, <1>8, <1>9

\* Filling: the load ran after everybody who waits for this view had asked.
LEMMA FillInv ==
  ASSUME CacheInv, NEW r \in Readers, Fill(r)
  PROVE  CacheInv'
<1> USE DEF CacheInv
<1>1. /\ rpc[r] = "fill" /\ rpc' = [rpc EXCEPT ![r] = "answer"]
      /\ view' = [view EXCEPT ![ref[r]] = Filled(result[r])]
      /\ UNCHANGED <<version, wpc, views, used, holder, asked, ref, result, ctxDone,
                     cleared, floor>>
  BY DEF Fill, dbVars
<1>2. ref[r] \in used /\ ref[r] \in Views
  BY <1>1 DEF ReaderShape, TypeOK
<1>3. /\ Filled(result[r]) \in [loaded : BOOLEAN, err : Errors, at : Nat]
      /\ Filled(result[r]).at = result[r].at
      /\ Filled(result[r]) # EmptyView
  BY DEF Filled, TypeOK, Loads, EmptyView, Errors
<1>4. TypeOK'
  BY <1>1, <1>2, <1>3 DEF TypeOK
<1>5. ReaderShape' /\ ClockInv'
  BY <1>1, <1>2 DEF ReaderShape, ClockInv, TypeOK
<1>6. \A q \in Readers :
        /\ rpc'[q] = "fill" => rpc[q] = "fill"
        /\ rpc'[q] = "answer" => rpc[q] = "answer" \/ q = r
        /\ rpc'[q] # "start" => rpc[q] # "start"
        /\ rpc'[q] = "done" => rpc[q] = "done"
  BY <1>1 DEF TypeOK
<1>7. \A v \in Views : view'[v] = IF v = ref[r] THEN Filled(result[r]) ELSE view[v]
  BY <1>1, <1>2 DEF TypeOK
<1>8. CachedViewsFresh'
  BY <1>1, <1>3, <1>6, <1>7 DEF CachedViewsFresh, TypeOK
<1>9. AskedViewsFresh'
  <2>1. \A p \in Readers : rpc'[p] # "start" => ref[p] \in Views
    BY <1>6 DEF ReaderShape, TypeOK
  <2> QED
    BY <2>1, <1>1, <1>3, <1>6, <1>7 DEF AskedViewsFresh
<1>10. NoStaleAnswer'
  BY <1>1, <1>6 DEF NoStaleAnswer
<1> QED
  BY <1>4, <1>5, <1>8, <1>9, <1>10

\* Answering: what the view holds is not older than the reader's question.
LEMMA AnswerInv ==
  ASSUME CacheInv, NEW r \in Readers, Answer(r)
  PROVE  CacheInv'
<1> USE DEF CacheInv
<1>1. /\ rpc[r] = "answer" /\ rpc' = [rpc EXCEPT ![r] = "done"]
      /\ result' = [result EXCEPT ![r] = [err |-> view[ref[r]].err, at |-> view[ref[r]].at]]
      /\ holder' = [holder EXCEPT ![ref[r]] = NoReader]
      /\ UNCHANGED <<version, wpc, views, used, view, asked, ref, ctxDone, cleared, floor>>
  BY DEF Answer, dbVars
<1>2. ref[r] \in Views /\ view[ref[r]].err \in Errors /\ view[ref[r]].at \in Nat
  BY <1>1 DEF ReaderShape, TypeOK
<1>3. TypeOK'
  BY <1>1, <1>2 DEF TypeOK, Loads
<1>4. ReaderShape'
  <2> SUFFICES ASSUME NEW q \in Readers
               PROVE  /\ rpc'[q] # "start" => ref[q] \in used
                      /\ rpc'[q] \in {"query", "fill", "answer"} => holder'[ref[q]] = q
    BY <1>1 DEF ReaderShape
  <2>1. CASE q = r
    BY <2>1, <1>1 DEF ReaderShape, TypeOK
  <2>2. CASE q # r
    BY <2>2, <1>1 DEF ReaderShape, TypeOK
  <2> QED
    BY <2>1, <2>2
<1>5. ClockInv'
  BY <1>1 DEF ClockInv
<1>6. \A q \in Readers :
        /\ rpc'[q] = "fill" => rpc[q] = "fill" /\ result'[q] = result[q]
        /\ rpc'[q] = "answer" => rpc[q] = "answer"
        /\ rpc'[q] # "start" => rpc[q] # "start"
        /\ rpc'[q] = "done" => q = r \/ (rpc[q] = "done" /\ result'[q] = result[q])
  BY <1>1 DEF TypeOK
<1>7. CachedViewsFresh' /\ AskedViewsFresh'
  BY <1>1, <1>6 DEF CachedViewsFresh, AskedViewsFresh
<1>8. result'[r].at >= floor[r]
  BY <1>1 DEF AskedViewsFresh, TypeOK
<1>9. NoStaleAnswer'
  BY <1>1, <1>6, <1>8 DEF NoStaleAnswer
<1> QED
  BY <1>3, <1>4, <1>5, <1>7, <1>9

\* Writing: a commit only raises the version, and Clear takes every view out of
\* the cache that a load from before it may still fill.
LEMMA WriterInv ==
  ASSUME CacheInv, NEW w \in Writers, WriterStep(w)
  PROVE  CacheInv'
<1> USE DEF CacheInv
<1>1. CASE Exec(w)
  <2>1. /\ version' \in {version, version + 1}
        /\ wpc' = [wpc EXCEPT ![w] = "clear"]
        /\ UNCHANGED <<views, used, view, holder, rpc, asked, ref, result, ctxDone,
                       floor, cleared>>
    BY <1>1 DEF Exec, cacheVars, readerVars
  <2>2. TypeOK' /\ ReaderShape'
    BY <2>1 DEF TypeOK, ReaderShape
  <2>3. ClockInv'
    BY <2>1 DEF ClockInv, TypeOK
  <2>4. CachedViewsFresh' /\ AskedViewsFresh' /\ NoStaleAnswer'
    BY <2>1 DEF CachedViewsFresh, AskedViewsFresh, NoStaleAnswer
  <2> QED
    BY <2>2, <2>3, <2>4
<1>2. CASE Clear(w)
  <2>1. /\ views' = [i \in Ids |-> NoView] /\ cleared' = version
        /\ wpc' = [wpc EXCEPT ![w] = "done"]
        /\ UNCHANGED <<version, used, view, holder, rpc, asked, ref, result, ctxDone, floor>>
    BY <1>2 DEF Clear, readerVars
  <2>2. TypeOK' /\ ReaderShape'
    BY <2>1 DEF TypeOK, ReaderShape
  <2>3. ClockInv'
    BY <2>1 DEF ClockInv, TypeOK
  <2>4. CachedViewsFresh' /\ AskedViewsFresh' /\ NoStaleAnswer'
    BY <2>1 DEF CachedViewsFresh, AskedViewsFresh, NoStaleAnswer
  <2> QED
    BY <2>2, <2>3, <2>4
<1> QED
  BY <1>1, <1>2 DEF WriterStep

\* Every step keeps the invariant.
LEMMA CacheNextInv == CacheInv /\ [Next]_vars => CacheInv'
<1> SUFFICES ASSUME CacheInv, [Next]_vars PROVE CacheInv'
  OBVIOUS
<1>1. ASSUME NEW r \in Readers, ReaderStep(r) PROVE CacheInv'
  BY <1>1, GetViewInv, LockViewInv, QueryInv, FillInv, AnswerInv DEF ReaderStep
<1>2. ASSUME NEW r \in Readers, Cancel(r) PROVE CacheInv'
  BY <1>2 DEF Cancel, dbVars, cacheVars, CacheInv, TypeOK, ReaderShape, ClockInv,
              CachedViewsFresh, AskedViewsFresh, NoStaleAnswer
<1>3. ASSUME NEW w \in Writers, WriterStep(w) PROVE CacheInv'
  BY <1>3, WriterInv
<1>4. CASE UNCHANGED vars
  BY <1>4 DEF vars, dbVars, cacheVars, readerVars, CacheInv, TypeOK, ReaderShape,
              ClockInv, CachedViewsFresh, AskedViewsFresh, NoStaleAnswer
<1> QED
  BY <1>1, <1>2, <1>3, <1>4 DEF Next, Terminating

-----------------------------------------------------------------------------
\* The cache's invariant holds for any number of parallel calls and writes.
THEOREM CacheInvariant == Spec => []CacheInv
<1>1. Init => CacheInv
  BY CacheInitInv
<1>2. CacheInv /\ [Next]_vars => CacheInv'
  BY CacheNextInv
<1> QED
  BY <1>1, <1>2, PTL DEF Spec

\* Types of the cache's state.
THEOREM CacheTypes == Spec => []TypeOK
<1>1. CacheInv => TypeOK
  BY DEF CacheInv
<1> QED
  BY <1>1, CacheInvariant, PTL

\* A Rows call that begins after a write's Clear never returns rows or an error
\* from before that write (read_cache.go Rows and Clear, helpers.go execWrite).
THEOREM ReadsSeeWrites == Spec => []NoStaleAnswer
<1>1. CacheInv => NoStaleAnswer
  BY DEF CacheInv
<1> QED
  BY <1>1, CacheInvariant, PTL

-----------------------------------------------------------------------------
\* A view under load is not loaded yet, a loaded one was not cancelled, and a
\* cancellation is only seen by the caller whose context it was.
LoadInv ==
  /\ \A v \in Views :
       (view[v].loaded => view[v].err # "cancelled") /\ view[v].at <= version
  /\ \A r \in Readers :
       /\ result[r].at <= version
       /\ rpc[r] \in {"query", "fill"} => ~view[ref[r]].loaded
       /\ rpc[r] \in {"fill", "done"} /\ result[r].err = "cancelled" => ctxDone[r]
       /\ rpc[r] = "answer" /\ view[ref[r]].err = "cancelled" => ctxDone[r]

\* The caller at work on a view holds its mutex, so no other fills it meanwhile.
LEMMA OnlyHolderFills ==
  ASSUME CacheInv, NEW r \in Readers, NEW q \in Readers, q # r,
         rpc[r] \in {"query", "fill", "answer"}, rpc[q] \in {"query", "fill", "answer"}
  PROVE  ref[q] # ref[r]
BY DEF CacheInv, ReaderShape

\* Asking, locking and querying: no view changes.
LEMMA AskingLoadInv ==
  ASSUME CacheInv, LoadInv, NEW r \in Readers, GetView(r) \/ LockView(r) \/ Query(r)
  PROVE  LoadInv'
<1> USE DEF CacheInv
<1>1. UNCHANGED <<version, view, ctxDone>>
  BY DEF GetView, LockView, Query, dbVars, cacheVars
<1>2. CASE GetView(r)
  BY <1>1, <1>2 DEF GetView, LoadInv, TypeOK
<1>3. CASE LockView(r)
  <2>1. /\ rpc' = [rpc EXCEPT ![r] = IF view[ref[r]].loaded THEN "answer" ELSE "query"]
        /\ UNCHANGED <<ref, result>> /\ ref[r] \in Views
    BY <1>3 DEF LockView, ReaderShape, TypeOK
  <2> QED
    BY <1>1, <2>1 DEF LoadInv, TypeOK
<1>4. CASE Query(r)
  <2>1. PICK e \in Errors : /\ e = "cancelled" => ctxDone[r]
                            /\ result' = [result EXCEPT ![r] = [err |-> e, at |-> version]]
    BY <1>4 DEF Query
  <2>2. rpc[r] = "query" /\ rpc' = [rpc EXCEPT ![r] = "fill"] /\ UNCHANGED ref
    BY <1>4 DEF Query, cacheVars
  <2> QED
    BY <1>1, <2>1, <2>2 DEF LoadInv, TypeOK
<1> QED
  BY <1>2, <1>3, <1>4

\* Filling and answering, under the mutex of the view.
LEMMA AnsweringLoadInv ==
  ASSUME CacheInv, LoadInv, NEW r \in Readers, Fill(r) \/ Answer(r)
  PROVE  LoadInv'
<1> USE DEF CacheInv
<1>1. CASE Fill(r)
  <2>1. /\ rpc[r] = "fill" /\ rpc' = [rpc EXCEPT ![r] = "answer"]
        /\ view' = [view EXCEPT ![ref[r]] = Filled(result[r])]
        /\ UNCHANGED <<version, ref, result, ctxDone>>
    BY <1>1 DEF Fill, dbVars
  <2>2. ref[r] \in Views
    BY <2>1 DEF ReaderShape, TypeOK
  <2>3. \A v \in Views : view'[v] = IF v = ref[r] THEN Filled(result[r]) ELSE view[v]
    BY <2>1, <2>2 DEF TypeOK
  <2>4. \A v \in Views :
          (view'[v].loaded => view'[v].err # "cancelled") /\ view'[v].at <= version
    <3>1. /\ Filled(result[r]).loaded => Filled(result[r]).err # "cancelled"
          /\ Filled(result[r]).at <= version
      BY DEF Filled, LoadInv
    <3> QED
      BY <2>3, <3>1 DEF LoadInv
  <2>5. \A q \in Readers : q # r /\ rpc[q] \in {"query", "fill", "answer"}
          => ref[q] \in Views /\ view'[ref[q]] = view[ref[q]]
    BY <2>1, <2>3, OnlyHolderFills DEF ReaderShape, TypeOK
  <2>6. view'[ref[r]].err = "cancelled" => ctxDone[r]
    BY <2>1, <2>2, <2>3 DEF Filled, LoadInv
  <2> QED
    BY <2>1, <2>4, <2>5, <2>6 DEF LoadInv, TypeOK
<1>2. CASE Answer(r)
  <2>1. /\ rpc[r] = "answer" /\ rpc' = [rpc EXCEPT ![r] = "done"]
        /\ result' = [result EXCEPT ![r] = [err |-> view[ref[r]].err, at |-> view[ref[r]].at]]
        /\ UNCHANGED <<version, view, ref, ctxDone>>
    BY <1>2 DEF Answer, dbVars
  <2>2. ref[r] \in Views
    BY <2>1 DEF ReaderShape, TypeOK
  <2> QED
    BY <2>1, <2>2 DEF LoadInv, TypeOK
<1> QED
  BY <1>1, <1>2

LEMMA LoadNextInv == CacheInv /\ LoadInv /\ [Next]_vars => LoadInv'
<1> SUFFICES ASSUME CacheInv, LoadInv, [Next]_vars PROVE LoadInv'
  OBVIOUS
<1>1. ASSUME NEW r \in Readers, ReaderStep(r) PROVE LoadInv'
  BY <1>1, AskingLoadInv, AnsweringLoadInv DEF ReaderStep
<1>2. ASSUME NEW r \in Readers, Cancel(r) PROVE LoadInv'
  BY <1>2 DEF Cancel, dbVars, cacheVars, CacheInv, TypeOK, LoadInv
<1>3. ASSUME NEW w \in Writers, WriterStep(w) PROVE LoadInv'
  <2>1. version' \in {version, version + 1} /\ UNCHANGED <<view, rpc, ref, result, ctxDone>>
    BY <1>3 DEF WriterStep, Exec, Clear, cacheVars, readerVars
  <2> QED
    BY <2>1 DEF CacheInv, TypeOK, LoadInv, Loads
<1>4. CASE UNCHANGED vars
  BY <1>4 DEF vars, dbVars, cacheVars, readerVars, LoadInv
<1> QED
  BY <1>1, <1>2, <1>3, <1>4 DEF Next, Terminating

LEMMA LoadInvariant == Spec => [](CacheInv /\ LoadInv)
<1>1. Init => LoadInv
  BY DEF Init, LoadInv, EmptyView
<1> QED
  BY <1>1, CacheInitInv, CacheNextInv, LoadNextInv, PTL DEF Spec

\* A caller whose own context is alive never gets a cancellation
\* (read_cache.go:44-45).
THEOREM CancellationStays == Spec => []CancelStaysWithCaller
<1>1. LoadInv => CancelStaysWithCaller
  BY DEF LoadInv, CancelStaysWithCaller
<1> QED
  BY <1>1, LoadInvariant, PTL

\* A view that was loaded, or failed to, is never loaded again
\* (read_cache.go:40 and 42-44).
THEOREM LoadedOnce == Spec => LoadedViewKept
<1>1. ASSUME CacheInv, LoadInv, [Next]_vars, NEW v \in Views, view[v].loaded
      PROVE  view'[v] = view[v]
  <2>1. ASSUME NEW r \in Readers, Fill(r) PROVE view'[v] = view[v]
    <3>1. rpc[r] = "fill" /\ view' = [view EXCEPT ![ref[r]] = Filled(result[r])]
      BY <2>1 DEF Fill
    <3>2. ref[r] # v
      BY <3>1, <1>1 DEF LoadInv
    <3> QED
      BY <3>1, <3>2, <1>1 DEF CacheInv, TypeOK
  <2>2. view' = view \/ \E r \in Readers : Fill(r)
    BY <1>1 DEF Next, ReaderStep, WriterStep, Terminating, GetView, LockView, Query, Answer,
                Cancel, Exec, Clear, vars, dbVars, cacheVars, readerVars
  <2> QED
    BY <2>1, <2>2
<1>2. CacheInv /\ LoadInv /\ [Next]_vars
        => [\A v \in Views : view[v].loaded => view'[v] = view[v]]_vars
  BY <1>1
<1> QED
  BY <1>2, LoadInvariant, PTL DEF Spec, LoadedViewKept

-----------------------------------------------------------------------------
\* The abstract phase and answer of a reader that moves, or does not.
LEMMA PhaseKept ==
  ASSUME CacheInv, UNCHANGED <<wpc, version, cleared, floor>>,
         \A r \in Readers :
           /\ rpc'[r] = "start" <=> rpc[r] = "start"
           /\ rpc'[r] = "done" <=> rpc[r] = "done"
           /\ rpc[r] = "done" => result'[r] = result[r]
  PROVE  UNCHANGED Fresh!vars
BY DEF Fresh!vars, Phase, Shown

\* The steps inside a call of Rows are no steps of a read.
LEMMA InnerStepsHidden ==
  ASSUME CacheInv, NEW r \in Readers, LockView(r) \/ Query(r) \/ Fill(r) \/ Cancel(r)
  PROVE  UNCHANGED Fresh!vars
<1> USE DEF CacheInv
<1>1. UNCHANGED <<wpc, version, cleared, floor>>
  BY DEF LockView, Query, Fill, Cancel, dbVars, cacheVars
<1>2. CASE LockView(r)
  <2>1. /\ rpc[r] = "lock" /\ result' = result
        /\ rpc' = [rpc EXCEPT ![r] = IF view[ref[r]].loaded THEN "answer" ELSE "query"]
    BY <1>2 DEF LockView
  <2> QED
    BY <2>1, <1>1, PhaseKept DEF TypeOK
<1>3. CASE Query(r)
  <2>1. PICK l : result' = [result EXCEPT ![r] = l]
    BY <1>3 DEF Query
  <2>2. rpc[r] = "query" /\ rpc' = [rpc EXCEPT ![r] = "fill"]
    BY <1>3 DEF Query
  <2> QED
    BY <2>1, <2>2, <1>1, PhaseKept DEF TypeOK
<1>4. CASE Fill(r)
  <2>1. rpc[r] = "fill" /\ rpc' = [rpc EXCEPT ![r] = "answer"] /\ result' = result
    BY <1>4 DEF Fill
  <2> QED
    BY <2>1, <1>1, PhaseKept DEF TypeOK
<1>5. CASE Cancel(r)
  BY <1>1, <1>5, PhaseKept DEF Cancel
<1> QED
  BY <1>2, <1>3, <1>4, <1>5

\* GetView begins a read, Answer ends it with a version between its floor and now.
LEMMA GetViewBegins ==
  ASSUME CacheInv, NEW r \in Readers, GetView(r)
  PROVE  Fresh!Begin(r)
<1>1. /\ rpc[r] = "start" /\ rpc' = [rpc EXCEPT ![r] = "lock"]
      /\ floor' = [floor EXCEPT ![r] = cleared]
      /\ UNCHANGED <<version, wpc, result, cleared>>
  BY DEF GetView, dbVars
<1> QED
  BY <1>1 DEF Fresh!Begin, Phase, Shown, CacheInv, TypeOK

LEMMA AnswerEnds ==
  ASSUME CacheInv, LoadInv, NEW r \in Readers, Answer(r)
  PROVE  Fresh!End(r)
<1> DEFINE v == view[ref[r]].at
<1>1. /\ rpc[r] = "answer" /\ rpc' = [rpc EXCEPT ![r] = "done"]
      /\ result' = [result EXCEPT ![r] = [err |-> view[ref[r]].err, at |-> v]]
      /\ UNCHANGED <<version, wpc, cleared, floor>>
  BY DEF Answer, dbVars
<1>2. ref[r] \in Views
  BY <1>1 DEF CacheInv, ReaderShape, TypeOK
<1>3. v \in Nat /\ floor[r] \in Nat /\ version \in Nat
  BY <1>2 DEF CacheInv, TypeOK
<1>4. v >= floor[r] /\ v <= version
  BY <1>1, <1>2 DEF CacheInv, AskedViewsFresh, LoadInv
<1>5. v \in floor[r]..version
  BY <1>3, <1>4
<1>6. \A q \in Readers : rpc'[q] = IF q = r THEN "done" ELSE rpc[q]
  BY <1>1 DEF CacheInv, TypeOK
<1>7. \A q \in Readers : q # r => result'[q] = result[q]
  BY <1>1 DEF CacheInv, TypeOK
<1>8. result'[r].at = v
  BY <1>1 DEF CacheInv, TypeOK
<1>9. Phase[r] = "reading" /\ Phase' = [Phase EXCEPT ![r] = "answered"]
  <2>1. rpc[r] # "start" /\ rpc[r] # "done"
    BY <1>1
  <2>2. \A q \in Readers : q # r =>
          (rpc'[q] = "start" <=> rpc[q] = "start") /\ (rpc'[q] = "done" <=> rpc[q] = "done")
    BY <1>6
  <2>3. rpc'[r] = "done"
    BY <1>6
  <2>4. Phase[r] = "reading"
    BY <2>1 DEF Phase
  <2>5. \A q \in Readers : Phase'[q] = IF q = r THEN "answered" ELSE Phase[q]
    BY <2>2, <2>3 DEF Phase
  <2> QED
    BY <2>4, <2>5 DEF Phase
<1>10. Shown' = [Shown EXCEPT ![r] = v]
  BY <1>6, <1>7, <1>8 DEF Shown
<1> QED
  BY <1>1, <1>5, <1>9, <1>10 DEF Fresh!End

LEMMA WriterStepsVisible ==
  ASSUME CacheInv, NEW w \in Writers, WriterStep(w)
  PROVE  Fresh!Execute(w) \/ Fresh!Return(w)
BY DEF WriterStep, Exec, Clear, Fresh!Execute, Fresh!Return, Phase, Shown, cacheVars, readerVars

\* The cache is invisible but for the age of what it shows (helpers.go:211-212,
\* read_cache.go:36-45): every behaviour is one of FreshReads.
THEOREM CacheImplementsFreshReads == Spec => ReadsAreFresh
<1>1. Init => Fresh!Init
  BY DEF Init, Fresh!Init, Phase, Shown
<1>2. CacheInv /\ LoadInv /\ [Next]_vars => [Fresh!Next]_(Fresh!vars)
  <2> SUFFICES ASSUME CacheInv, LoadInv, [Next]_vars
               PROVE  Fresh!Next \/ UNCHANGED Fresh!vars
    OBVIOUS
  <2>1. ASSUME NEW r \in Readers, ReaderStep(r) \/ Cancel(r)
        PROVE  Fresh!Next \/ UNCHANGED Fresh!vars
    BY <2>1, InnerStepsHidden, GetViewBegins, AnswerEnds DEF ReaderStep, Fresh!Next
  <2>2. ASSUME NEW w \in Writers, WriterStep(w) PROVE Fresh!Next
    BY <2>2, WriterStepsVisible DEF Fresh!Next
  <2>3. CASE UNCHANGED vars
    BY <2>3 DEF vars, dbVars, cacheVars, readerVars, Fresh!vars, Phase, Shown
  <2> QED
    BY <2>1, <2>2, <2>3 DEF Next, Terminating
<1> QED
  BY <1>1, <1>2, LoadInvariant, PTL DEF Spec, ReadsAreFresh, Fresh!Spec
=============================================================================
