------------------------------- MODULE Connect -------------------------------
(* NewClient (provider/client.go): the initial connection, retried on network
   errors until connect_timeout elapses. Time is counted in ticks from the call;
   the code between two blocking calls takes none. (Names that ExecWrite has, too,
   are longer here: the proofs about both loops are in one module.) *)
EXTENDS Integers

CONSTANTS
  RetryInterval,   \* retryInterval
  DefaultTimeout,  \* of connect_timeout
  Timeouts,        \* connect_timeout in the configuration
  Unset,           \* or none there
  GoodFroms        \* ticks from which on the server can be reached

ASSUME ConnectAssumption ==
  /\ RetryInterval \in Nat \ {0} /\ DefaultTimeout \in Nat
  /\ Timeouts \subseteq Int /\ Unset \notin Int /\ GoodFroms \subseteq Nat

VARIABLES
  configured,    \* connect_timeout
  goodFrom,      \* an attempt that begins now or later gets through
  now,
  at,            \* "loop", "ping", "wait" or "returned"
  attemptStart, window, wakeAt,
  done,          \* ctx.Done
  db,            \* the *sql.DB, "open" or "closed"
  outcome        \* "none", "client", or an error: "network", "other", "cancelled"

connectVars == <<configured, goodFrom, now, at, attemptStart, window, wakeAt, done, db, outcome>>
fixed == <<configured, goodFrom>>

\* Mutant of Timeout: a negative value is taken as it is.
TimeoutAsConfigured == IF configured = Unset THEN DefaultTimeout ELSE configured

\* LoadConfig: the default, or what is configured but never less than zero.
Timeout ==
  IF configured = Unset THEN DefaultTimeout ELSE IF configured < 0 THEN 0 ELSE configured

\* deadline, as NewClient begins at 0.
Deadline == Timeout

ConnectInit ==
  /\ configured \in Timeouts \cup {Unset} /\ goodFrom \in GoodFroms
  /\ now = 0 /\ at = "loop" /\ attemptStart = 0 /\ window = 0 /\ wakeAt = 0
  /\ done = FALSE /\ db = "open" /\ outcome = "none"

-----------------------------------------------------------------------------
\* Mutant of Window: an attempt may take all the time that remains.
WindowOfRemaining == IF Deadline - now > 0 THEN Deadline - now ELSE RetryInterval

\* The bound of an attempt: retryInterval, or the time that remains if there is some.
Window ==
  IF Deadline - now > 0 /\ Deadline - now < RetryInterval THEN Deadline - now ELSE RetryInterval

Attempt ==
  /\ at = "loop" /\ at' = "ping"
  /\ attemptStart' = now /\ window' = Window
  /\ UNCHANGED <<fixed, now, wakeAt, done, db, outcome>>

Return(what) ==
  /\ at' = "returned" /\ outcome' = what
  /\ UNCHANGED <<attemptStart, window, wakeAt>>

\* An error is returned after db.Close.
GiveUp(what) == Return(what) /\ db' = "closed"

\* Mutant of Retries: not if there is no time for a whole interval.
RetriesInTime(err) == err = "network" /\ now + RetryInterval < Deadline

\* Mutant of Retries: once more at the deadline.
RetriesAtDeadline(err) == err = "network" /\ now <= Deadline

\* isRetryableConnectError, and the deadline.
Retries(err) == err = "network" /\ now < Deadline

\* Mutant of WaitUntil: the whole interval after a failure.
WaitFromFailure == IF now + RetryInterval <= Deadline THEN now + RetryInterval ELSE Deadline

\* Mutant of WaitUntil: past the deadline.
WaitInterval == attemptStart + RetryInterval

\* A new attempt starts each interval, however fast the last one failed, or at the
\* deadline.
WaitUntil ==
  IF attemptStart + RetryInterval <= Deadline THEN attemptStart + RetryInterval ELSE Deadline

PingFails(err) ==
  \/ done /\ GiveUp("cancelled")
  \/ ~done /\ ~Retries(err) /\ GiveUp(err)
  \/ /\ ~done /\ Retries(err)
     /\ wakeAt' = WaitUntil /\ at' = (IF WaitUntil > now THEN "wait" ELSE "loop")
     /\ UNCHANGED <<attemptStart, window, db, outcome>>

\* An attempt that begins when the server can be reached succeeds; one that began
\* before may hang until its context ends it, a network error, too. Whatever the
\* server's state, it can refuse the login or the certificate; and ctx can end.
Ping ==
  /\ at = "ping"
  /\ \/ now >= goodFrom /\ Return("client") /\ UNCHANGED db
     \/ (attemptStart < goodFrom \/ done) /\ PingFails("network")
     \/ PingFails("other")
  /\ UNCHANGED <<fixed, now, done>>

\* The select of the wait: the timer, or ctx.Done.
Wake ==
  /\ at = "wait"
  /\ \/ now >= wakeAt /\ at' = "loop" /\ UNCHANGED <<attemptStart, window, wakeAt, db, outcome>>
     \/ done /\ GiveUp("cancelled")
  /\ UNCHANGED <<fixed, now, done>>

\* Time passes while NewClient is blocked: in a ping until its context ends, in a
\* wait until its timer does, and no longer once ctx is done.
Tick ==
  /\ ~done
  /\ \/ at = "ping" /\ now < attemptStart + window
     \/ at = "wait" /\ now < wakeAt
  /\ now' = now + 1
  /\ UNCHANGED <<fixed, at, attemptStart, window, wakeAt, done, db, outcome>>

\* Terraform is interrupted.
Interrupt ==
  /\ ~done /\ at # "returned" /\ done' = TRUE
  /\ UNCHANGED <<fixed, now, at, attemptStart, window, wakeAt, db, outcome>>

ConnectNext == Attempt \/ Ping \/ Wake \/ Tick \/ Interrupt

\* The code goes on, time passes, and an attempt answers when its context has ended.
ConnectSpec ==
  /\ ConnectInit /\ [][ConnectNext]_connectVars
  /\ WF_connectVars(Attempt \/ Ping \/ Wake) /\ WF_connectVars(Tick)

-----------------------------------------------------------------------------
\* Types, and where time stands at each step: an attempt begins by the deadline and
\* ends within its window, a wait ends by the deadline and by the next interval. The
\* database is open as long as there may be a client, and no longer.
ConnectInv ==
  /\ configured \in Timeouts \cup {Unset} /\ goodFrom \in GoodFroms
  /\ at \in {"loop", "ping", "wait", "returned"} /\ done \in BOOLEAN
  /\ now \in Nat /\ attemptStart \in Nat /\ window \in Nat /\ wakeAt \in Nat
  /\ outcome \in {"none", "client", "network", "other", "cancelled"}
  /\ db \in {"open", "closed"} /\ (db = "open" <=> outcome \in {"none", "client"})
  /\ outcome = "none" <=> at # "returned"
  /\ attemptStart <= now /\ attemptStart <= Deadline /\ window <= RetryInterval
  /\ at = "loop" => now <= Deadline /\ now <= attemptStart + RetryInterval
  /\ at = "ping" => now <= attemptStart + window
  /\ at = "wait" => now <= wakeAt /\ wakeAt <= Deadline /\ wakeAt <= attemptStart + RetryInterval
  /\ at = "returned" => now <= attemptStart + RetryInterval

\* docs/index.md:65, connect_timeout is the "Total time in seconds to keep retrying":
\* NewClient gives up on the network no sooner, and is done one interval later at most.
KeepsToTimeout ==
  /\ outcome = "network" => now >= Deadline
  /\ now <= Deadline + RetryInterval

\* client.go:49-50, "so a run rides out IP-allowlist propagation delays": if the server
\* can be reached an interval before the deadline, the run gets its client, even if
\* attempts before that hang.
RidesOut ==
  outcome = "network" => goodFrom + RetryInterval > Deadline

\* client.go:51-54: "a new attempt starts each interval regardless of how fast the
\* previous one failed", no sooner and no later, save one at the deadline.
Paced ==
  [][at = "loop" /\ at' = "ping" /\ now # 0 =>
       now = attemptStart + RetryInterval \/ (now = Deadline /\ now < attemptStart + RetryInterval)]_connectVars

\* NewClient returns.
Returns == <>(at = "returned")
=============================================================================
