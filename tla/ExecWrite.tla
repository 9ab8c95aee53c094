----------------------------- MODULE ExecWrite -----------------------------
(* execWrite (resources/helpers.go): a statement that changes the database, run
   again after a transaction collision, with the read cache cleared on return.

   Calls are statements in progress at the same time on the same users or roles.
   Their collisions are Exasol's, modelled from what execWrite relies on: SQL
   error 40001 means that the statement was rolled back completely, and it is
   raised because another statement has committed since this one began. Other
   sessions commit statements too. *)
EXTENDS Naturals, FiniteSets

CONSTANTS
  Calls,             \* calls of execWrite
  CollisionRetries,  \* collisionRetries, 8 in the code
  MaxOutside         \* bound on conflicting statements of other sessions

ASSUME WriteAssumption ==
  /\ IsFiniteSet(Calls)
  /\ CollisionRetries \in Nat
  /\ MaxOutside \in Nat

VARIABLES
  version,   \* database: statements committed so far
  outside,   \* those committed by other sessions
  effects,   \* how often each call's statement has taken effect
  pc,        \* each call's step
  attempt,   \* its loop counter
  since,     \* version when its statement began to run
  result,    \* what it returns
  ctxDone,   \* its context is cancelled
  stale      \* calls whose effect the read cache may not show yet

dbVars == <<version, outside, effects>>
callVars == <<pc, attempt, since, result, ctxDone>>
vars == <<dbVars, callVars, stale>>

TypeOK ==
  /\ version \in Nat /\ outside \in 0..MaxOutside
  /\ effects \in [Calls -> Nat]
  /\ pc \in [Calls -> {"exec", "running", "wait", "clear", "done"}]
  /\ attempt \in [Calls -> 0..CollisionRetries]
  /\ since \in [Calls -> Nat]
  /\ result \in [Calls -> {"none", "ok", "error", "collision", "stopped"}]
  /\ ctxDone \in [Calls -> BOOLEAN]
  /\ stale \in SUBSET Calls

Init ==
  /\ version = 0 /\ outside = 0
  /\ effects = [c \in Calls |-> 0]
  /\ pc = [c \in Calls |-> "exec"]
  /\ attempt = [c \in Calls |-> 0]
  /\ since = [c \in Calls |-> 0]
  /\ result = [c \in Calls |-> "none"]
  /\ ctxDone = [c \in Calls |-> FALSE]
  /\ stale = {}

-----------------------------------------------------------------------------
Goto(c, step) == pc' = [pc EXCEPT ![c] = step]

\* The loop ends with this result; the deferred Clear comes next.
Leave(c, r) == result' = [result EXCEPT ![c] = r] /\ Goto(c, "clear")

\* db.ExecContext begins.
Exec(c) ==
  /\ pc[c] = "exec"
  /\ since' = [since EXCEPT ![c] = version]
  /\ Goto(c, "running")
  /\ UNCHANGED <<dbVars, attempt, result, ctxDone, stale>>

\* Mutant of Commits: any error is taken for a collision.
CommitsAndRetries(c) ==
  /\ pc[c] = "running"
  /\ version' = version + 1
  /\ effects' = [effects EXCEPT ![c] = effects[c] + 1]
  /\ stale' = stale \cup {c}
  /\ \/ Leave(c, "ok")
     \/ attempt[c] # CollisionRetries /\ Goto(c, "wait") /\ UNCHANGED result
  /\ UNCHANGED <<outside, attempt, since, ctxDone>>

\* The statement commits. Its answer may get lost, which is no collision.
Commits(c) ==
  /\ pc[c] = "running"
  /\ version' = version + 1
  /\ effects' = [effects EXCEPT ![c] = effects[c] + 1]
  /\ stale' = stale \cup {c}
  /\ \E r \in {"ok", "error"} : Leave(c, r)
  /\ UNCHANGED <<outside, attempt, since, ctxDone>>

\* It fails for another reason than a collision.
Fails(c) ==
  /\ pc[c] = "running"
  /\ Leave(c, "error")
  /\ UNCHANGED <<dbVars, attempt, since, ctxDone, stale>>

\* Mutant of Collides: one attempt less.
CollidesGivingUpEarly(c) ==
  /\ pc[c] = "running" /\ version > since[c]
  /\ \/ attempt[c] + 1 = CollisionRetries /\ Leave(c, "collision")
     \/ attempt[c] + 1 # CollisionRetries /\ Goto(c, "wait") /\ UNCHANGED result
  /\ UNCHANGED <<dbVars, attempt, since, ctxDone, stale>>

\* Error 40001: wait for another attempt, or give up after the last one.
Collides(c) ==
  /\ pc[c] = "running" /\ version > since[c]
  /\ \/ attempt[c] = CollisionRetries /\ Leave(c, "collision")
     \/ attempt[c] # CollisionRetries /\ Goto(c, "wait") /\ UNCHANGED result
  /\ UNCHANGED <<dbVars, attempt, since, ctxDone, stale>>

\* Mutant of Retry: the select has no timer.
RetryWhenCancelled(c) ==
  /\ pc[c] = "wait" /\ ctxDone[c]
  /\ attempt' = [attempt EXCEPT ![c] = attempt[c] + 1]
  /\ Goto(c, "exec")
  /\ UNCHANGED <<dbVars, since, result, ctxDone, stale>>

\* The select: the timer fires ...
Retry(c) ==
  /\ pc[c] = "wait"
  /\ attempt' = [attempt EXCEPT ![c] = attempt[c] + 1]
  /\ Goto(c, "exec")
  /\ UNCHANGED <<dbVars, since, result, ctxDone, stale>>

\* ... or the context is done; when both are, either is taken.
Stop(c) ==
  /\ pc[c] = "wait" /\ ctxDone[c]
  /\ Leave(c, "stopped")
  /\ UNCHANGED <<dbVars, attempt, since, ctxDone, stale>>

\* reads.Clear, deferred.
Clear(c) ==
  /\ pc[c] = "clear"
  /\ stale' = {}
  /\ Goto(c, "done")
  /\ UNCHANGED <<dbVars, attempt, since, result, ctxDone>>

Cancel(c) ==
  /\ pc[c] # "done" /\ ~ctxDone[c]
  /\ ctxDone' = [ctxDone EXCEPT ![c] = TRUE]
  /\ UNCHANGED <<dbVars, pc, attempt, since, result, stale>>

\* Another session commits a conflicting statement.
OutsideCommits ==
  /\ outside < MaxOutside
  /\ outside' = outside + 1
  /\ version' = version + 1
  /\ UNCHANGED <<effects, callVars, stale>>

CallStep(c) ==
  \/ Exec(c) \/ Commits(c) \/ Fails(c) \/ Collides(c)
  \/ Retry(c) \/ Stop(c) \/ Clear(c)

AllDone == \A c \in Calls : pc[c] = "done"

Terminating == AllDone /\ UNCHANGED vars

Next ==
  \/ \E c \in Calls : CallStep(c) \/ Cancel(c)
  \/ OutsideCommits
  \/ Terminating

\* The driver answers every statement, and the timer of the wait fires.
Fairness == \A c \in Calls : WF_vars(CallStep(c))

Spec == Init /\ [][Next]_vars /\ Fairness

-----------------------------------------------------------------------------
\* helpers.go:214-216: running a statement again is safe, since a colliding one
\* was rolled back. Whatever a call went through, its statement takes effect at
\* most once; it has if the call succeeds, and has not if the call reports a
\* collision or was stopped between two attempts.
EffectMatchesResult ==
  \A c \in Calls :
    /\ effects[c] <= 1
    /\ result[c] = "ok" => effects[c] = 1
    /\ result[c] \in {"none", "collision", "stopped"} => effects[c] = 0

\* delete_mutex.go:15-16, "execWrite also retries a statement after error 40001.
\* That covers creates, which run in parallel": a call gives up on collisions only
\* when more statements of others than it has retries got in its way, since each
\* can make it fail once. (A call that collided has committed nothing.)
CollisionOutnumbered ==
  \A c \in Calls : result[c] = "collision" => version > CollisionRetries

\* helpers.go:211-212: on every way out of execWrite, errors with an effect
\* included, the cache is cleared after the statement took effect.
ReturnedWritesVisible == \A c \in Calls : pc[c] = "done" => c \notin stale

\* Every call returns, however often it collides.
EveryWriteReturns == \A c \in Calls : <>(pc[c] = "done")
=============================================================================
