---------------------------- MODULE RetryProofs ----------------------------
(* The two loops that retry, for every number of retries and every timeout.

   execWrite: EffectMatchesResult, CollisionOutnumbered and ReturnedWritesVisible.
   A collision needs a commit of somebody else since the last attempt, and every
   call commits at most once, so the attempts of a call are bounded by the
   commits so far, and these by the other calls and sessions.

   NewClient: what it keeps to for every retry interval and time from which the
   server can be reached. ConnectInv is inductive, and gives the rest. *)
EXTENDS ExecWrite, Connect, FiniteSetTheorems, TLAPS

Committed == {c \in Calls : effects[c] = 1}

\* Effects follow the results, and are counted in version.
EffectsInv ==
  /\ \A c \in Calls :
       /\ pc[c] \in {"exec", "running", "wait"} <=> result[c] = "none"
       /\ effects[c] \in {0, 1}
       /\ result[c] = "ok" => effects[c] = 1
       /\ result[c] \in {"none", "collision", "stopped"} => effects[c] = 0
  /\ version = Cardinality(Committed) + outside

\* A call has not tried again more often than others have committed.
AttemptsInv ==
  \A c \in Calls :
    /\ attempt[c] <= version
    /\ pc[c] = "running" => attempt[c] <= since[c]
    /\ pc[c] = "wait" => attempt[c] < version /\ attempt[c] < CollisionRetries

WriteInv ==
  /\ TypeOK
  /\ EffectsInv
  /\ AttemptsInv
  /\ CollisionOutnumbered
  /\ ReturnedWritesVisible

-----------------------------------------------------------------------------
LEMMA WriteInit == Init => WriteInv
<1> SUFFICES ASSUME Init PROVE WriteInv
  OBVIOUS
<1>1. TypeOK
  BY WriteAssumption DEF Init, TypeOK
<1>2. Committed = {}
  BY DEF Init, Committed
<1>3. EffectsInv
  BY <1>2, FS_EmptySet DEF Init, EffectsInv
<1> QED
  BY <1>1, <1>3 DEF Init, WriteInv, AttemptsInv, CollisionOutnumbered, ReturnedWritesVisible

\* A step that changes no effect keeps the set of committed calls.
LEMMA CommittedKept ==
  ASSUME effects' = effects
  PROVE  Committed' = Committed
BY DEF Committed

\* The commit of a call is one more effect and one more version.
LEMMA CommitsStep ==
  ASSUME WriteInv, NEW c \in Calls, Commits(c)
  PROVE  WriteInv'
<1>1. PICK r \in {"ok", "error"} : Leave(c, r)
  BY DEF Commits
<1>2. /\ pc[c] = "running" /\ version' = version + 1
      /\ effects' = [effects EXCEPT ![c] = effects[c] + 1]
      /\ stale' = stale \cup {c} /\ UNCHANGED <<outside, attempt, since, ctxDone>>
      /\ result' = [result EXCEPT ![c] = r] /\ pc' = [pc EXCEPT ![c] = "clear"]
  BY <1>1 DEF Commits, Leave, Goto
<1>3. effects[c] = 0 /\ result[c] = "none"
  BY <1>2 DEF WriteInv, EffectsInv
<1>4. TypeOK'
  BY <1>2 DEF WriteInv, TypeOK
<1>5. Committed' = Committed \cup {c} /\ c \notin Committed
  BY <1>2, <1>3 DEF Committed, WriteInv, TypeOK
<1>6. IsFiniteSet(Committed)
  BY WriteAssumption, FS_Subset DEF Committed
<1>7. Cardinality(Committed)' = Cardinality(Committed) + 1 /\ Cardinality(Committed) \in Nat
  BY <1>5, <1>6, FS_AddElement, FS_CardinalityType
<1>8. version' = Cardinality(Committed)' + outside'
  BY <1>2, <1>7 DEF WriteInv, EffectsInv, TypeOK
<1>9. EffectsInv'
  BY <1>2, <1>3, <1>8 DEF WriteInv, EffectsInv, TypeOK
<1>10. AttemptsInv'
  BY <1>2, WriteAssumption DEF WriteInv, AttemptsInv, TypeOK
<1>11. CollisionOutnumbered' /\ ReturnedWritesVisible'
  BY <1>2, WriteAssumption DEF WriteInv, CollisionOutnumbered, ReturnedWritesVisible, TypeOK
<1> QED
  BY <1>4, <1>9, <1>10, <1>11 DEF WriteInv

\* A collision uses up a commit of somebody else.
LEMMA CollidesStep ==
  ASSUME WriteInv, NEW c \in Calls, Collides(c)
  PROVE  WriteInv'
<1>1. /\ pc[c] = "running" /\ version > since[c]
      /\ UNCHANGED <<version, outside, effects, attempt, since, ctxDone, stale>>
      /\ \/ /\ attempt[c] = CollisionRetries /\ result' = [result EXCEPT ![c] = "collision"]
            /\ pc' = [pc EXCEPT ![c] = "clear"]
         \/ /\ attempt[c] # CollisionRetries /\ result' = result
            /\ pc' = [pc EXCEPT ![c] = "wait"]
  BY DEF Collides, Leave, Goto, dbVars
<1>2. /\ effects[c] = 0 /\ attempt[c] <= since[c] /\ attempt[c] \in 0..CollisionRetries
      /\ since[c] \in Nat /\ version \in Nat
  BY <1>1 DEF WriteInv, EffectsInv, AttemptsInv, TypeOK
<1>3. TypeOK'
  BY <1>1 DEF WriteInv, TypeOK
<1>4. EffectsInv'
  BY <1>1, <1>2, CommittedKept DEF WriteInv, EffectsInv, TypeOK
<1>5. AttemptsInv'
  BY <1>1, <1>2, WriteAssumption DEF WriteInv, AttemptsInv, TypeOK
<1>6. attempt[c] = CollisionRetries => version > CollisionRetries
  BY <1>1, <1>2, WriteAssumption
<1>7. CollisionOutnumbered'
  BY <1>1, <1>6 DEF WriteInv, CollisionOutnumbered, TypeOK
<1>8. ReturnedWritesVisible'
  BY <1>1 DEF WriteInv, ReturnedWritesVisible, TypeOK
<1> QED
  BY <1>3, <1>4, <1>5, <1>7, <1>8 DEF WriteInv

\* The steps of a call that leave the database alone and do not collide.
LEMMA QuietCallStep ==
  ASSUME WriteInv, NEW c \in Calls,
         Exec(c) \/ Fails(c) \/ Retry(c) \/ Stop(c) \/ Clear(c) \/ Cancel(c)
  PROVE  WriteInv'
<1>1. UNCHANGED <<version, outside, effects>> /\ Committed' = Committed
  BY CommittedKept DEF Exec, Fails, Retry, Stop, Clear, Cancel, dbVars
<1>2. TypeOK'
  <2>1. pc[c] = "wait" => attempt[c] + 1 \in 0..CollisionRetries
    BY WriteAssumption DEF WriteInv, AttemptsInv, TypeOK
  <2> QED
    BY <1>1, <2>1 DEF WriteInv, TypeOK, Exec, Fails, Retry, Stop, Clear, Cancel, Leave, Goto
<1>3. EffectsInv'
  BY <1>1 DEF WriteInv, EffectsInv, TypeOK, Exec, Fails, Retry, Stop, Clear, Cancel, Leave, Goto
<1>4. AttemptsInv'
  BY <1>1, WriteAssumption DEF WriteInv, AttemptsInv, TypeOK, Exec, Fails, Retry, Stop, Clear,
     Cancel, Leave, Goto
<1>5. CollisionOutnumbered' /\ ReturnedWritesVisible'
  BY <1>1 DEF WriteInv, CollisionOutnumbered, ReturnedWritesVisible, TypeOK, Exec, Fails, Retry, Stop,
     Clear, Cancel, Leave, Goto
<1> QED
  BY <1>2, <1>3, <1>4, <1>5 DEF WriteInv

LEMMA OutsideStep ==
  ASSUME WriteInv, OutsideCommits
  PROVE  WriteInv'
<1>1. /\ outside < MaxOutside /\ outside' = outside + 1 /\ version' = version + 1
      /\ UNCHANGED <<effects, pc, attempt, since, result, ctxDone, stale>>
  BY DEF OutsideCommits, callVars
<1>2. Committed' = Committed /\ Cardinality(Committed) \in Nat
  BY <1>1, CommittedKept, WriteAssumption, FS_Subset, FS_CardinalityType DEF Committed
<1>3. TypeOK'
  BY <1>1, WriteAssumption DEF WriteInv, TypeOK
<1>4. EffectsInv'
  BY <1>1, <1>2 DEF WriteInv, EffectsInv, TypeOK
<1>5. AttemptsInv' /\ CollisionOutnumbered' /\ ReturnedWritesVisible'
  BY <1>1, WriteAssumption DEF WriteInv, AttemptsInv, CollisionOutnumbered,
     ReturnedWritesVisible, TypeOK
<1> QED
  BY <1>3, <1>4, <1>5 DEF WriteInv

\* Attempts are bounded by commits, and commits by calls.
THEOREM WriteInvariant == Spec => []WriteInv
<1>1. WriteInv /\ [Next]_vars => WriteInv'
  <2> SUFFICES ASSUME WriteInv, [Next]_vars PROVE WriteInv'
    OBVIOUS
  <2>1. ASSUME NEW c \in Calls, CallStep(c) \/ Cancel(c) PROVE WriteInv'
    BY <2>1, CommitsStep, CollidesStep, QuietCallStep DEF CallStep
  <2>2. CASE OutsideCommits
    BY <2>2, OutsideStep
  <2>3. CASE UNCHANGED vars
    BY <2>3, CommittedKept DEF vars, dbVars, callVars, WriteInv, TypeOK, EffectsInv,
       AttemptsInv, CollisionOutnumbered, ReturnedWritesVisible
  <2> QED
    BY <2>1, <2>2, <2>3 DEF Next, Terminating
<1> QED
  BY WriteInit, <1>1, PTL DEF Spec

\* A statement takes effect at most once, and as its call reports
\* (helpers.go:214-216).
THEOREM EffectsMatchResults == Spec => []EffectMatchesResult
<1>1. WriteInv => EffectMatchesResult
  BY DEF WriteInv, EffectsInv, EffectMatchesResult
<1> QED
  BY <1>1, WriteInvariant, PTL

\* A call returns a collision only when outnumbered (delete_mutex.go:15-16).
THEOREM CollisionsOutnumbered == Spec => []CollisionOutnumbered
<1>1. WriteInv => CollisionOutnumbered
  BY DEF WriteInv
<1> QED
  BY <1>1, WriteInvariant, PTL

\* A call that has not committed leaves room for one commit less.
LEMMA CommitsBounded ==
  ASSUME WriteInv, NEW c \in Calls, effects[c] = 0
  PROVE  version <= Cardinality(Calls) - 1 + MaxOutside
<1>1. Committed \subseteq Calls \ {c} /\ IsFiniteSet(Calls) /\ IsFiniteSet(Calls \ {c})
  BY WriteAssumption, FS_RemoveElement DEF Committed
<1>2. Cardinality(Calls \ {c}) = Cardinality(Calls) - 1
  BY <1>1, FS_RemoveElement
<1>3. Cardinality(Committed) <= Cardinality(Calls \ {c})
  BY <1>1, FS_Subset
<1>4. IsFiniteSet(Committed)
  BY <1>1, FS_Subset
<1>5. Cardinality(Committed) \in Nat /\ Cardinality(Calls) \in Nat
  BY <1>1, <1>4, FS_CardinalityType
<1>6. version = Cardinality(Committed) + outside /\ outside \in 0..MaxOutside /\ MaxOutside \in Nat
  BY WriteAssumption DEF WriteInv, EffectsInv, TypeOK
<1> QED
  BY <1>2, <1>3, <1>5, <1>6

\* So with few enough calls and sessions no call ever returns a collision: the
\* retries are enough for the creates that run in parallel (delete_mutex.go:15-16).
THEOREM RetriesSuffice ==
  ASSUME Cardinality(Calls) + MaxOutside <= CollisionRetries + 1
  PROVE  Spec => [](\A c \in Calls : result[c] # "collision")
<1>1. ASSUME WriteInv, NEW c \in Calls, result[c] = "collision" PROVE FALSE
  <2>1. effects[c] = 0 /\ version > CollisionRetries
    BY <1>1 DEF WriteInv, EffectsInv, CollisionOutnumbered
  <2>2. version <= Cardinality(Calls) - 1 + MaxOutside /\ Cardinality(Calls) \in Nat
    BY <1>1, <2>1, CommitsBounded, WriteAssumption, FS_CardinalityType
  <2>3. version \in Nat /\ MaxOutside \in Nat /\ CollisionRetries \in Nat
    BY <1>1, WriteAssumption DEF WriteInv, TypeOK
  <2> QED
    BY <2>1, <2>2, <2>3
<1>2. WriteInv => \A c \in Calls : result[c] # "collision"
  BY <1>1
<1> QED
  BY <1>2, WriteInvariant, PTL

\* No return from execWrite leaves its effect hidden by the cache
\* (helpers.go:211-212).
THEOREM WritesVisible == Spec => []ReturnedWritesVisible
<1>1. WriteInv => ReturnedWritesVisible
  BY DEF WriteInv
<1> QED
  BY <1>1, WriteInvariant, PTL

-----------------------------------------------------------------------------
\* connect_timeout is a natural number once it is loaded.
LEMMA TimeoutType == configured \in Timeouts \cup {Unset} => Deadline \in Nat
BY ConnectAssumption DEF Deadline, Timeout

\* The bound of an attempt that begins by the deadline.
LEMMA WindowBound ==
  ASSUME Deadline \in Nat, now \in Nat, now <= Deadline
  PROVE  Window \in Nat /\ Window <= RetryInterval
BY ConnectAssumption DEF Window

\* When a retry waits, it waits until the deadline or the next interval.
LEMMA WaitBound ==
  ASSUME Deadline \in Nat, attemptStart \in Nat
  PROVE  /\ WaitUntil \in Nat /\ WaitUntil <= Deadline
         /\ WaitUntil <= attemptStart + RetryInterval
BY ConnectAssumption DEF WaitUntil

LEMMA ConnectStart == ConnectInit => ConnectInv
<1> SUFFICES ASSUME ConnectInit PROVE ConnectInv
  OBVIOUS
<1>1. Deadline \in Nat /\ goodFrom \in GoodFroms
  BY TimeoutType DEF ConnectInit
<1>2. done \in BOOLEAN
  BY Zenon DEF ConnectInit
<1>3. configured \in Timeouts \cup {Unset} /\ now = 0 /\ attemptStart = 0 /\ window = 0 /\ wakeAt = 0
      /\ at = "loop" /\ db = "open" /\ outcome = "none"
  BY DEF ConnectInit
<1> QED
  BY <1>1, <1>2, <1>3, ConnectAssumption DEF ConnectInv

\* Every step keeps ConnectInv, one step of the proof for each action.
LEMMA ConnectStep == ConnectInv /\ [ConnectNext]_connectVars => ConnectInv'
<1> SUFFICES ASSUME ConnectInv, [ConnectNext]_connectVars PROVE ConnectInv'
  OBVIOUS
<1>0. Deadline \in Nat
  BY TimeoutType DEF ConnectInv
<1>1. CASE Attempt
  <2>1. now <= Deadline /\ now \in Nat
    BY <1>1 DEF ConnectInv, Attempt
  <2>2. Window \in Nat /\ Window <= RetryInterval
    BY <1>0, <2>1, WindowBound
  <2>3. Deadline' = Deadline
    BY <1>1 DEF Attempt, fixed, Deadline, Timeout
  <2> QED
    BY <1>0, <1>1, <2>1, <2>2, <2>3, ConnectAssumption DEF ConnectInv, Attempt, fixed
<1>2. CASE Ping
  <2>1. Deadline' = Deadline
    BY <1>2 DEF Ping, fixed, Deadline, Timeout
  <2>2. now <= attemptStart + RetryInterval /\ at = "ping" /\ UNCHANGED <<fixed, now, done>>
    BY <1>2, ConnectAssumption DEF ConnectInv, Ping
  <2>3. ASSUME NEW what \in {"network", "other", "cancelled"}, GiveUp(what) PROVE ConnectInv'
    BY <1>0, <2>1, <2>2, <2>3 DEF ConnectInv, GiveUp, Return, fixed
  <2>4. CASE Return("client") /\ UNCHANGED db
    BY <1>0, <2>1, <2>2, <2>4 DEF ConnectInv, Return, fixed
  <2>5. ASSUME NEW err \in {"network", "other"}, PingFails(err) PROVE ConnectInv'
    <3>1. CASE GiveUp("cancelled") \/ GiveUp(err)
      BY <2>3, <3>1
    <3>2. CASE /\ Retries(err) /\ wakeAt' = WaitUntil
               /\ at' = (IF WaitUntil > now THEN "wait" ELSE "loop")
               /\ UNCHANGED <<attemptStart, window, db, outcome>>
      <4>1. now < Deadline
        BY <3>2 DEF Retries
      <4>2. /\ WaitUntil \in Nat /\ WaitUntil <= Deadline
            /\ WaitUntil <= attemptStart + RetryInterval
        BY <1>0, WaitBound DEF ConnectInv
      <4> QED
        BY <1>0, <2>1, <2>2, <3>2, <4>1, <4>2, ConnectAssumption DEF ConnectInv, fixed
    <3> QED
      BY <2>5, <3>1, <3>2 DEF PingFails
  <2> QED
    BY <1>2, <2>4, <2>5 DEF Ping
<1>3. CASE Wake
  <2>1. Deadline' = Deadline
    BY <1>3 DEF Wake, fixed, Deadline, Timeout
  <2> QED
    BY <1>0, <1>3, <2>1, ConnectAssumption DEF ConnectInv, Wake, GiveUp, Return, fixed
<1>4. CASE Tick
  <2>1. Deadline' = Deadline
    BY <1>4 DEF Tick, fixed, Deadline, Timeout
  <2> QED
    BY <1>0, <1>4, <2>1, ConnectAssumption DEF ConnectInv, Tick, fixed
<1>5. CASE Interrupt
  <2>1. Deadline' = Deadline
    BY <1>5 DEF Interrupt, fixed, Deadline, Timeout
  <2> QED
    BY <1>0, <1>5, <2>1 DEF ConnectInv, Interrupt, fixed
<1>6. CASE UNCHANGED connectVars
  BY <1>6 DEF ConnectInv, connectVars, Deadline, Timeout
<1> QED
  BY <1>1, <1>2, <1>3, <1>4, <1>5, <1>6 DEF ConnectNext

\* Every state that NewClient reaches keeps within the interval and the deadline, and
\* has the database open only while there may be a client.
THEOREM ConnectCorrect == ConnectSpec => []ConnectInv
BY ConnectStart, ConnectStep, PTL DEF ConnectSpec

\* What is not in ConnectInv: the network is given up at or after the deadline, and
\* only if it was not reachable an interval before.
Outcomes ==
  outcome = "network" => now >= Deadline /\ goodFrom + RetryInterval > Deadline

LEMMA OutcomesStep == ConnectInv /\ Outcomes /\ [ConnectNext]_connectVars => Outcomes'
<1> SUFFICES ASSUME ConnectInv, Outcomes, [ConnectNext]_connectVars PROVE Outcomes'
  OBVIOUS
<1>0. Deadline \in Nat /\ now \in Nat /\ attemptStart \in Nat /\ window \in Nat /\ goodFrom \in Nat
  BY TimeoutType, ConnectAssumption DEF ConnectInv
<1>1. Deadline' = Deadline /\ goodFrom' = goodFrom
  BY DEF ConnectNext, connectVars, Attempt, Ping, Wake, Tick, Interrupt, fixed, Deadline, Timeout
<1>2. CASE Ping /\ outcome' = "network"
  <2>1. now' = now /\ now <= attemptStart + RetryInterval
    BY <1>0, <1>2, ConnectAssumption DEF Ping, ConnectInv
  <2>2. ~Retries("network") /\ ~done
    BY <1>2 DEF Ping, PingFails, GiveUp, Return, ConnectInv
  <2>3. attemptStart < goodFrom
    BY <1>2, <2>2 DEF Ping, PingFails, GiveUp, Return, ConnectInv
  <2> QED
    BY <1>0, <1>1, <2>1, <2>2, <2>3, ConnectAssumption DEF Outcomes, Retries
<1>3. CASE ~(Ping /\ outcome' = "network")
  <2>1. outcome' = "network" => outcome = "network" /\ now' >= now
    BY <1>0, <1>3 DEF ConnectNext, connectVars, Attempt, Wake, GiveUp, Return, Tick, Interrupt, ConnectInv
  <2>2. now' \in Nat
    BY ConnectStep DEF ConnectInv
  <2> QED
    BY <1>0, <1>1, <2>1, <2>2 DEF Outcomes
<1> QED
  BY <1>2, <1>3

\* NewClient gives up on the network at the deadline or later, and is done at most one
\* retry interval after it, whatever the interval and the timeout are.
THEOREM TimeoutKept == ConnectSpec => []KeepsToTimeout
<1>1. ConnectInit => Outcomes
  BY DEF ConnectInit, Outcomes
<1>2. ConnectInv /\ Outcomes => KeepsToTimeout
  <2> SUFFICES ASSUME ConnectInv, Outcomes PROVE KeepsToTimeout
    OBVIOUS
  <2>1. Deadline \in Nat
    BY TimeoutType DEF ConnectInv
  <2> QED
    BY <2>1, ConnectAssumption DEF ConnectInv, Outcomes, KeepsToTimeout
<1> QED
  BY <1>1, <1>2, ConnectStart, ConnectStep, OutcomesStep, PTL DEF ConnectSpec

\* A run whose server can be reached an interval before the deadline is never told
\* that the network failed.
THEOREM DelaysRiddenOut == ConnectSpec => []RidesOut
<1>1. ConnectInit => Outcomes
  BY DEF ConnectInit, Outcomes
<1>2. Outcomes => RidesOut
  BY DEF Outcomes, RidesOut
<1> QED
  BY <1>1, <1>2, ConnectStart, ConnectStep, OutcomesStep, PTL DEF ConnectSpec

\* When a new attempt may start.
Beat(t) == t = attemptStart + RetryInterval \/ (t = Deadline /\ t < attemptStart + RetryInterval)

\* The loop is entered again, or a wait ends, on a beat.
OnBeat ==
  /\ at = "loop" => now = 0 \/ Beat(now)
  /\ at = "wait" => Beat(wakeAt)

LEMMA OnBeatStep == ConnectInv /\ OnBeat /\ [ConnectNext]_connectVars => OnBeat'
<1> SUFFICES ASSUME ConnectInv, OnBeat, [ConnectNext]_connectVars PROVE OnBeat'
  OBVIOUS
<1>0. /\ Deadline \in Nat /\ now \in Nat /\ attemptStart \in Nat /\ window \in Nat /\ wakeAt \in Nat
      /\ RetryInterval \in Nat
  BY TimeoutType, ConnectAssumption DEF ConnectInv
<1>1. Deadline' = Deadline
  BY DEF ConnectNext, connectVars, Attempt, Ping, Wake, Tick, Interrupt, fixed, Deadline, Timeout
<1>2. CASE Ping
  <2>1. CASE at' = "returned"
    BY <2>1 DEF OnBeat
  <2>2. CASE at' # "returned"
    <3>1. /\ now < Deadline /\ wakeAt' = WaitUntil /\ UNCHANGED <<now, attemptStart>>
          /\ at' = (IF WaitUntil > now THEN "wait" ELSE "loop") /\ now <= attemptStart + RetryInterval
      BY <1>0, <1>2, <2>2 DEF Ping, PingFails, GiveUp, Return, Retries, ConnectInv
    <3>2. Beat(WaitUntil) /\ (WaitUntil <= now => now = attemptStart + RetryInterval)
      BY <1>0, <3>1 DEF Beat, WaitUntil
    <3> QED
      BY <1>0, <1>1, <3>1, <3>2, WaitBound DEF OnBeat, Beat
  <2> QED
    BY <2>1, <2>2
<1>3. CASE Wake
  BY <1>0, <1>1, <1>3 DEF Wake, GiveUp, Return, OnBeat, Beat, ConnectInv
<1>4. CASE Attempt \/ Tick \/ Interrupt \/ UNCHANGED connectVars
  BY <1>0, <1>1, <1>4 DEF Attempt, Tick, Interrupt, connectVars, OnBeat, Beat
<1> QED
  BY <1>2, <1>3, <1>4 DEF ConnectNext

\* A new attempt starts one interval after the last, or at the deadline, for every
\* interval and timeout.
THEOREM AttemptsPaced == ConnectSpec => Paced
<1>1. ConnectInit => OnBeat
  BY DEF ConnectInit, OnBeat
<1>2. ConnectInv /\ OnBeat /\ [ConnectNext]_connectVars =>
        [at = "loop" /\ at' = "ping" /\ now # 0 =>
           now = attemptStart + RetryInterval \/ (now = Deadline /\ now < attemptStart + RetryInterval)]_connectVars
  BY DEF OnBeat, Beat
<1> QED
  BY <1>1, <1>2, ConnectStart, ConnectStep, OnBeatStep, PTL DEF ConnectSpec, Paced
=============================================================================
