--------------------------- MODULE RoleGrantApply ---------------------------
(* One apply of a configuration with users, roles and role grants: the Create,
   Update and Delete handlers of exasol_role_grant (role_grant_resource.go) with
   the user and role operations they run next to (user_resource.go,
   role_resource.go), the locks of delete_mutex.go, the endpoint helpers of
   helpers.go and the rename log.

   Terraform runs one operation per resource, in parallel where the
   configuration allows it. Every statement and every query is a step. Users and
   roles ("principals") have an identity here that Exasol does not show: grants
   are kept per pair of identities, as Exasol moves them along with a rename,
   while the provider only handles names. *)
EXTENDS RenameOps, Naturals, FiniteSets

CONSTANTS
  PrincipalKind,  \* RenamePrincipal
  Principals,     \* users and roles
  Roles,          \* those that are roles
  Resources,      \* exasol_role_grant resources
  Scenarios,      \* the applies to run, see ScenarioShape
  Rank,           \* the order of names that slices.Sort uses
  MaxFaults,      \* bound on failing queries and statements in one apply
  Absent,         \* no such principal
  NoGrant,        \* the resource is not in state, or not in the plan
  NoOp            \* nobody holds the lock

Ops == Principals \cup Resources

\* A configured or recorded grant, with names as they are spelled.
Configs == [role : Names, grantee : Names, admin : BOOLEAN]

\* start and goal: each principal's name before and after; had and want: each
\* resource's prior state and plan.
ScenarioShape ==
  [start : [Principals -> Names \cup {Absent}],
   goal  : [Principals -> Names \cup {Absent}],
   had   : [Resources -> Configs \cup {NoGrant}],
   want  : [Resources -> Configs \cup {NoGrant}]]

ASSUME ApplyAssumption ==
  /\ PrincipalKind \in Kinds \ {SchemaKind}
  /\ Roles \subseteq Principals
  /\ Principals \cap Resources = {}
  /\ NoOp \notin Ops
  /\ Absent \notin Names /\ NoEntry # Absent
  /\ NoGrant \notin Configs
  /\ MaxFaults \in Nat
  /\ Scenarios \subseteq ScenarioShape

VARIABLES
  scn,          \* the scenario of this apply
  name,         \* database: current name of each principal
  grants,       \* database: level of each <<role, grantee>>
  log,          \* RenameLog.m
  deleteMutex,  \* who holds deleteMutex
  granteeLock,  \* who holds each grantee's lock
  pc,           \* next step of each operation
  keys,         \* grantee locks an operation takes
  cur,          \* where a resource's previous grant lives now
  outcome,      \* what Terraform knows of each operation
  faults        \* failures so far

dbVars == <<name, grants>>
lockVars == <<deleteMutex, granteeLock>>
vars == <<scn, dbVars, log, lockVars, pc, keys, cur, outcome, faults>>

-----------------------------------------------------------------------------
\* The database.

RoleExists(n) == \E o \in Roles : name[o] = n

PrincipalExists(n) == \E o \in Principals : name[o] = n

\* The pairs, at most one, that a statement on these two names is about.
PairsNamed(role, grantee) ==
  {p \in Roles \X Principals : name[p[1]] = role /\ name[p[2]] = grantee}

\* grantExists with its admin option.
GrantLevel(role, grantee) ==
  IF \E p \in PairsNamed(role, grantee) : grants[p] = "admin" THEN "admin"
  ELSE IF \E p \in PairsNamed(role, grantee) : grants[p] = "plain" THEN "plain"
  ELSE "none"

\* GRANT role TO grantee: it adds the admin option, but does not take it away.
AfterGrant(role, grantee, admin) ==
  [p \in Roles \X Principals |->
     IF p \in PairsNamed(role, grantee)
       THEN IF admin \/ grants[p] = "admin" THEN "admin" ELSE "plain"
       ELSE grants[p]]

AfterRevoke(role, grantee) ==
  [p \in Roles \X Principals |->
     IF p \in PairsNamed(role, grantee) THEN "none" ELSE grants[p]]

-----------------------------------------------------------------------------
\* What each operation has to do.

Had(q) == scn.had[q]
Want(q) == scn.want[q]

Creates(q) == Had(q) = NoGrant /\ Want(q) # NoGrant
Updates(q) == Had(q) # NoGrant /\ Want(q) # NoGrant /\ Had(q) # Want(q)
Deletes(q) == Had(q) # NoGrant /\ Want(q) = NoGrant

Born(o) == scn.start[o] = Absent /\ scn.goal[o] # Absent
Renamed(o) == scn.start[o] # Absent /\ scn.goal[o] # Absent /\ scn.start[o] # scn.goal[o]
Dropped(o) == scn.start[o] # Absent /\ scn.goal[o] = Absent

HasWork(op) ==
  \/ op \in Resources /\ (Creates(op) \/ Updates(op) \/ Deletes(op))
  \/ op \in Principals /\ (Born(op) \/ Renamed(op) \/ Dropped(op))

\* Terraform starts an operation after those its configuration refers to: a
\* grant after the creation or renaming of the principals it names, a principal
\* that takes over a name after the one that gives it up (depends_on, as the
\* acceptance tests have it). A grant's Update and Delete are not ordered against
\* the renaming or dropping of the principals that only its prior state names.
DependsOn(op) ==
  {o \in Principals :
     \/ /\ op \in Resources /\ Want(op) # NoGrant
        /\ Born(o) \/ Renamed(o)
        /\ scn.goal[o] \in {Upper[Want(op).role], Upper[Want(op).grantee]}
     \/ /\ op \in Principals /\ (Born(op) \/ Renamed(op))
        /\ Renamed(o) \/ Dropped(o)
        /\ scn.start[o] = scn.goal[op]}

Ready(op) == \A o \in DependsOn(op) : outcome[o] = "ok"

\* The grant, by identity, that a configuration is about when names says who is who.
Meant(names, config) ==
  {p \in Roles \X Principals :
     /\ config # NoGrant
     /\ names[p[1]] = Upper[config.role] /\ names[p[2]] = Upper[config.grantee]}

\* The grant that a resource had before the apply, and the one its plan is about.
HadPairs(q) == Meant(scn.start, Had(q))
WantPairs(q) == Meant(scn.goal, Want(q))

-----------------------------------------------------------------------------
\* What a scenario s has to be like for the promises about grants below.

UniqueNames(names) ==
  \A o, p \in Principals : o # p /\ names[o] # Absent => names[o] # names[p]

\* Exasol's names are in upper case, and no two principals have one. What is in state
\* was found by the refresh, so its names are somebody's; and a name in the plan of a
\* grant is not one that the same plan gives up.
Plausible(s) ==
  /\ \A o \in Principals, n \in Names : n \in {s.start[o], s.goal[o]} => Upper[n] = n
  /\ UniqueNames(s.start) /\ UniqueNames(s.goal)
  /\ \A q \in Resources : s.had[q] # NoGrant => Meant(s.start, s.had[q]) # {}
  /\ \A q \in Resources, o \in Principals :
       /\ s.want[q] # NoGrant
       /\ s.start[o] \in {Upper[s.want[q].role], Upper[s.want[q].grantee]}
       => \E p \in Principals : s.goal[p] = s.start[o]

\* Nobody takes over the name of a principal that is dropped in the same apply.
NoReuseOfDropped(s) ==
  \A o, p \in Principals : s.start[o] # Absent /\ s.goal[o] = Absent => s.goal[p] # s.start[o]

\* Two resources never ask for the same grant, and none takes over a grant that
\* another gives up in the same apply.
NoHandOver(s) ==
  \A q, r \in Resources : q # r =>
    Meant(s.goal, s.want[q]) \cap (Meant(s.goal, s.want[r]) \cup Meant(s.start, s.had[r])) = {}

\* Terraform plans no update for a grant whose configured names stay the same
\* while other principals take them over (CHANGELOG, 0.3.0, "Limit").
NoHiddenMove(s) ==
  \A q \in Resources :
    s.had[q] = s.want[q] => Meant(s.start, s.had[q]) = Meant(s.goal, s.want[q])

\* Where HoldsWanted and NoLeftover are promised.
Promising(s) == Plausible(s) /\ NoReuseOfDropped(s) /\ NoHandOver(s) /\ NoHiddenMove(s)

-----------------------------------------------------------------------------
\* Steps, locks and ends of operations.

Goto(op, step) == pc' = [pc EXCEPT ![op] = step]

\* Mutant of Return: deleteMutex stays locked after an error.
ReturnErrorLocked(op, result) ==
  /\ outcome' = [outcome EXCEPT ![op] = result]
  /\ Goto(op, "done")
  /\ deleteMutex' = IF deleteMutex = op /\ result = "ok" THEN NoOp ELSE deleteMutex
  /\ granteeLock' = [n \in Names |-> IF granteeLock[n] = op THEN NoOp ELSE granteeLock[n]]

\* The handler returns: its deferred calls unlock whatever it holds.
Return(op, result) ==
  /\ outcome' = [outcome EXCEPT ![op] = result]
  /\ Goto(op, "done")
  /\ deleteMutex' = IF deleteMutex = op THEN NoOp ELSE deleteMutex
  /\ granteeLock' = [n \in Names |-> IF granteeLock[n] = op THEN NoOp ELSE granteeLock[n]]

\* Continue with a step, or return when there is none.
Continue(op, step) ==
  IF step = "return" THEN Return(op, "ok")
  ELSE Goto(op, step) /\ UNCHANGED <<lockVars, outcome>>

\* A statement on the grants: it runs, it is refused, or it fails. A lost
\* connection may hide that it has run.
Execute(op, possible, after, next) ==
  /\ \/ /\ possible
        /\ grants' = after /\ Continue(op, next) /\ UNCHANGED faults
     \/ /\ ~possible
        /\ Return(op, "failed") /\ UNCHANGED <<grants, faults>>
     \/ /\ possible /\ faults < MaxFaults
        /\ grants' \in {grants, after} /\ faults' = faults + 1 /\ Return(op, "failed")
  /\ UNCHANGED <<scn, name, log, keys, cur>>

Revoke(q, role, grantee, next) ==
  Execute(q, GrantLevel(role, grantee) # "none", AfterRevoke(role, grantee), next)

\* lockDelete, then the grantee locks of lockGrantees come in order of Rank.
TakeDeleteMutex(op) == deleteMutex = NoOp /\ deleteMutex' = op /\ UNCHANGED granteeLock

NextKey(q) ==
  CHOOSE k \in keys[q] :
    /\ granteeLock[k] # q
    /\ \A n \in keys[q] : granteeLock[n] # q => Rank[k] <= Rank[n]

AllLocked(q) == \A k \in keys[q] : granteeLock[k] = q

LockGrantee(q) ==
  /\ pc[q] = "lock" /\ ~AllLocked(q)
  /\ granteeLock[NextKey(q)] = NoOp
  /\ granteeLock' = [granteeLock EXCEPT ![NextKey(q)] = q]
  /\ UNCHANGED <<scn, dbVars, log, deleteMutex, pc, keys, cur, outcome, faults>>

-----------------------------------------------------------------------------
\* exasol_role_grant: Create, Update and Delete.

WantRole(q) == Upper[Want(q).role]
WantGrantee(q) == Upper[Want(q).grantee]
WantLevel(q) == IF Want(q).admin THEN "admin" ELSE "plain"

Recorded(n) == Lookup(log, PrincipalKind, n)

\* Mutant of WithRenames: lockGrantees on the configured names only.
WithoutRenames(ns) == {Upper[n] : n \in ns}

\* lockGranteesAndRenames: the names and where the log says they are now.
WithRenames(ns) == {Upper[n] : n \in ns} \cup ({Recorded(n) : n \in ns} \ {NoEntry})

\* Create locks its grantee.
StartCreate(q) ==
  /\ pc[q] = "start" /\ Creates(q) /\ Ready(q)
  /\ keys' = [keys EXCEPT ![q] = {WantGrantee(q)}]
  /\ Goto(q, "lock")
  /\ UNCHANGED <<scn, dbVars, log, lockVars, cur, outcome, faults>>

\* Update takes deleteMutex and looks up the names to lock.
StartUpdate(q) ==
  /\ pc[q] = "start" /\ Updates(q) /\ Ready(q)
  /\ TakeDeleteMutex(q)
  /\ keys' = [keys EXCEPT ![q] = WithRenames({Want(q).grantee, Had(q).grantee})]
  /\ Goto(q, "lock")
  /\ UNCHANGED <<scn, dbVars, log, cur, outcome, faults>>

\* Mutant of StartDelete: the name in state is taken for the current one.
StartDeleteAsRecorded(q) ==
  /\ pc[q] = "start" /\ Deletes(q) /\ Ready(q)
  /\ TakeDeleteMutex(q)
  /\ cur' = [cur EXCEPT ![q] = [role |-> Upper[Had(q).role], grantee |-> Upper[Had(q).grantee]]]
  /\ keys' = [keys EXCEPT ![q] = {Upper[Had(q).grantee]}]
  /\ Goto(q, "lock")
  /\ UNCHANGED <<scn, dbVars, log, outcome, faults>>

\* Delete takes deleteMutex and finds the names the grant lives under now.
StartDelete(q) ==
  LET role == CurrentName(log, PrincipalKind, Had(q).role)
      grantee == CurrentName(log, PrincipalKind, Had(q).grantee)
  IN
  /\ pc[q] = "start" /\ Deletes(q) /\ Ready(q)
  /\ TakeDeleteMutex(q)
  /\ cur' = [cur EXCEPT ![q] = [role |-> role, grantee |-> grantee]]
  /\ keys' = [keys EXCEPT ![q] = {Upper[Had(q).grantee], grantee}]
  /\ Goto(q, "lock")
  /\ UNCHANGED <<scn, dbVars, log, outcome, faults>>

RenamedAway(old, new) == Recorded(old) \notin {NoEntry, Upper[new]}

\* The grant moves: a name differs, or names something else than before.
Moves(q) ==
  \/ Want(q).role # Had(q).role
  \/ Want(q).grantee # Had(q).grantee
  \/ RenamedAway(Had(q).role, Want(q).role)
  \/ RenamedAway(Had(q).grantee, Want(q).grantee)

\* Mutant of FirstStep: a move begins without requireExists.
FirstStepUnchecked(q) ==
  IF Creates(q) THEN "grant"
  ELSE IF Deletes(q) THEN "readOld"
  ELSE IF Moves(q) THEN "resolveRole"
  ELSE IF Want(q).admin # Had(q).admin THEN "revokeAdmin"
  ELSE "return"

FirstStep(q) ==
  IF Creates(q) THEN "grant"
  ELSE IF Deletes(q) THEN "readOld"
  ELSE IF Moves(q) THEN "requireRole"
  ELSE IF Want(q).admin # Had(q).admin THEN "revokeAdmin"
  ELSE "return"

\* All grantee locks are held: the handler's branch is chosen.
Locked(q) ==
  /\ pc[q] = "lock" /\ AllLocked(q)
  /\ Continue(q, FirstStep(q))
  /\ UNCHANGED <<scn, dbVars, log, keys, cur, faults>>

\* requireExists on the new role, then on the new grantee.
RequireRole(q) ==
  /\ pc[q] = "requireRole"
  /\ IF RoleExists(WantRole(q)) THEN Continue(q, "requireGrantee") ELSE Return(q, "failed")
  /\ UNCHANGED <<scn, dbVars, log, keys, cur, faults>>

RequireGrantee(q) ==
  /\ pc[q] = "requireGrantee"
  /\ IF PrincipalExists(WantGrantee(q)) THEN Continue(q, "resolveRole") ELSE Return(q, "failed")
  /\ UNCHANGED <<scn, dbVars, log, keys, cur, faults>>

\* Mutant of ResolveEndpoint: the rename log is not asked.
ResolveInDatabase(old, new, exists) ==
  IF Upper[old] = Upper[new] \/ exists THEN Upper[old] ELSE Absent

\* resolveEndpoint: Absent stands for gone.
ResolveEndpoint(old, new, exists) ==
  IF Recorded(old) # NoEntry THEN Recorded(old)
  ELSE IF Upper[old] = Upper[new] \/ exists THEN Upper[old]
  ELSE Absent

ResolveRole(q) ==
  /\ pc[q] = "resolveRole"
  /\ cur' = [cur EXCEPT ![q].role =
       ResolveEndpoint(Had(q).role, Want(q).role, RoleExists(Upper[Had(q).role]))]
  /\ Goto(q, "resolveGrantee")
  /\ UNCHANGED <<scn, dbVars, log, lockVars, keys, outcome, faults>>

\* The old grant is looked at when both its ends exist and it is not the grant
\* this resource keeps.
ResolveGrantee(q) ==
  LET grantee == ResolveEndpoint(Had(q).grantee, Want(q).grantee,
                                 PrincipalExists(Upper[Had(q).grantee]))
      elsewhere == /\ cur[q].role # Absent /\ grantee # Absent
                   /\ cur[q].role # WantRole(q) \/ grantee # WantGrantee(q)
  IN
  /\ pc[q] = "resolveGrantee"
  /\ cur' = [cur EXCEPT ![q].grantee = grantee]
  /\ Goto(q, IF elsewhere THEN "readOld" ELSE "readNew")
  /\ UNCHANGED <<scn, dbVars, log, lockVars, keys, outcome, faults>>

AfterOld(q) == IF Deletes(q) THEN "return" ELSE "readNew"

ReadOld(q) ==
  /\ pc[q] = "readOld"
  /\ Continue(q, IF GrantLevel(cur[q].role, cur[q].grantee) # "none"
                   THEN "revokeOld" ELSE AfterOld(q))
  /\ UNCHANGED <<scn, dbVars, log, keys, cur, faults>>

RevokeOld(q) ==
  /\ pc[q] = "revokeOld"
  /\ Revoke(q, cur[q].role, cur[q].grantee, AfterOld(q))

\* Mutant of ReadNew: a grant with another admin option will do.
ReadNewAnyLevel(q) ==
  /\ pc[q] = "readNew"
  /\ Continue(q, IF GrantLevel(WantRole(q), WantGrantee(q)) = "none" THEN "grant" ELSE "return")
  /\ UNCHANGED <<scn, dbVars, log, keys, cur, faults>>

\* The new place may hold the grant already: the rename moved it there, or it
\* has another admin option.
ReadNew(q) ==
  LET level == GrantLevel(WantRole(q), WantGrantee(q)) IN
  /\ pc[q] = "readNew"
  /\ Continue(q, CASE level = "none" -> "grant"
                    [] level = WantLevel(q) -> "return"
                    [] OTHER -> "revokeNew")
  /\ UNCHANGED <<scn, dbVars, log, keys, cur, faults>>

\* REVOKE where the grant stays, to set its admin option: after the lookup of a
\* move, or without one when nothing but the option changed.
RevokeNew(q) ==
  /\ pc[q] \in {"revokeNew", "revokeAdmin"}
  /\ Revoke(q, WantRole(q), WantGrantee(q), "grant")

Grant(q) ==
  /\ pc[q] = "grant"
  /\ Execute(q, RoleExists(WantRole(q)) /\ PrincipalExists(WantGrantee(q)),
             AfterGrant(WantRole(q), WantGrantee(q), Want(q).admin), "return")

\* resolveEndpoint asks the database.
Asks(old, new) == Recorded(old) = NoEntry /\ Upper[old] # Upper[new]

\* A query returns an error; nothing has changed since the last statement.
QueryFails(q) ==
  /\ \/ pc[q] \in {"requireRole", "requireGrantee", "readOld", "readNew"}
     \/ pc[q] = "resolveRole" /\ Asks(Had(q).role, Want(q).role)
     \/ pc[q] = "resolveGrantee" /\ Asks(Had(q).grantee, Want(q).grantee)
  /\ faults < MaxFaults /\ faults' = faults + 1
  /\ Return(q, "failed")
  /\ UNCHANGED <<scn, dbVars, log, keys, cur>>

-----------------------------------------------------------------------------
\* exasol_user and exasol_role: Create, the rename in Update, Delete.

\* A statement on the principals, like Execute; grants of a dropped principal go
\* with it.
ExecutePrincipal(o, possible, newName, next) ==
  LET after == [name EXCEPT ![o] = newName] IN
  /\ \/ /\ possible
        /\ name' = after /\ Continue(o, next) /\ UNCHANGED faults
     \/ /\ ~possible
        /\ Return(o, "failed") /\ UNCHANGED <<name, faults>>
     \/ /\ possible /\ faults < MaxFaults
        /\ name' \in {name, after} /\ faults' = faults + 1 /\ Return(o, "failed")
  /\ grants' = [p \in Roles \X Principals |->
                  IF \E i \in {1, 2} : name[p[i]] # Absent /\ name'[p[i]] = Absent
                    THEN "none" ELSE grants[p]]
  /\ UNCHANGED <<scn, log, keys, cur>>

\* CREATE USER and CREATE ROLE take no lock.
CreatePrincipal(o) ==
  /\ pc[o] = "start" /\ Born(o) /\ Ready(o)
  /\ ExecutePrincipal(o, ~PrincipalExists(scn.goal[o]), scn.goal[o], "return")

LockPrincipal(o) ==
  /\ pc[o] = "start" /\ (Renamed(o) \/ Dropped(o)) /\ Ready(o)
  /\ TakeDeleteMutex(o)
  /\ Goto(o, IF Renamed(o) THEN "rename" ELSE "drop")
  /\ UNCHANGED <<scn, dbVars, log, keys, cur, outcome, faults>>

\* RENAME USER and RENAME ROLE.
RenamePrincipal(o) ==
  /\ pc[o] = "rename"
  /\ ExecutePrincipal(o, ~PrincipalExists(scn.goal[o]), scn.goal[o], "record")

\* Record runs before deleteMutex is unlocked.
RecordRename(o) ==
  /\ pc[o] = "record"
  /\ log' = Record(log, PrincipalKind, scn.start[o], scn.goal[o])
  /\ Return(o, "ok")
  /\ UNCHANGED <<scn, dbVars, keys, cur, faults>>

DropPrincipal(o) ==
  /\ pc[o] = "drop"
  /\ ExecutePrincipal(o, TRUE, Absent, "return")

-----------------------------------------------------------------------------
\* Terraform does not run what depends on something that failed.
Skip(op) ==
  /\ pc[op] = "start"
  /\ \E o \in DependsOn(op) : outcome[o] \in {"failed", "skipped"}
  /\ outcome' = [outcome EXCEPT ![op] = "skipped"]
  /\ Goto(op, "done")
  /\ UNCHANGED <<scn, dbVars, log, lockVars, keys, cur, faults>>

Init ==
  /\ scn \in Scenarios
  /\ name = scn.start
  /\ grants = [p \in Roles \X Principals |->
       IF \E q \in Resources : p \in HadPairs(q) /\ Had(q).admin THEN "admin"
       ELSE IF \E q \in Resources : p \in HadPairs(q) THEN "plain" ELSE "none"]
  /\ log = EmptyLog
  /\ deleteMutex = NoOp
  /\ granteeLock = [n \in Names |-> NoOp]
  /\ pc = [op \in Ops |-> IF HasWork(op) THEN "start" ELSE "done"]
  /\ keys = [q \in Resources |-> {}]
  /\ cur = [q \in Resources |-> [role |-> Absent, grantee |-> Absent]]
  /\ outcome = [op \in Ops |-> IF HasWork(op) THEN "pending" ELSE "ok"]
  /\ faults = 0

ResourceStep(q) ==
  \/ StartCreate(q) \/ StartUpdate(q) \/ StartDelete(q)
  \/ LockGrantee(q) \/ Locked(q)
  \/ RequireRole(q) \/ RequireGrantee(q) \/ ResolveRole(q) \/ ResolveGrantee(q)
  \/ ReadOld(q) \/ RevokeOld(q) \/ ReadNew(q) \/ RevokeNew(q) \/ Grant(q)
  \/ QueryFails(q)

PrincipalStep(o) ==
  \/ CreatePrincipal(o) \/ LockPrincipal(o)
  \/ RenamePrincipal(o) \/ RecordRename(o) \/ DropPrincipal(o)

AllDone == \A op \in Ops : pc[op] = "done"

Terminating == AllDone /\ UNCHANGED vars

Next ==
  \/ \E q \in Resources : ResourceStep(q)
  \/ \E o \in Principals : PrincipalStep(o)
  \/ \E op \in Ops : Skip(op)
  \/ Terminating

\* A goroutine that can run does; every statement and query returns. Every
\* operation takes each lock once, so nobody overtakes a waiter for ever.
Fairness ==
  /\ \A q \in Resources : WF_vars(ResourceStep(q) \/ Skip(q))
  /\ \A o \in Principals : WF_vars(PrincipalStep(o) \/ Skip(o))

Spec == Init /\ [][Next]_vars /\ Fairness

-----------------------------------------------------------------------------
Steps == {"start", "lock", "requireRole", "requireGrantee", "resolveRole",
          "resolveGrantee", "readOld", "revokeOld", "readNew", "revokeNew",
          "revokeAdmin", "grant", "rename", "record", "drop", "done"}

TypeOK ==
  /\ scn \in ScenarioShape
  /\ name \in [Principals -> Names \cup {Absent}]
  /\ grants \in [Roles \X Principals -> {"none", "plain", "admin"}]
  /\ log \in Logs
  /\ deleteMutex \in Ops \cup {NoOp}
  /\ granteeLock \in [Names -> Ops \cup {NoOp}]
  /\ pc \in [Ops -> Steps]
  /\ keys \in [Resources -> SUBSET Names]
  /\ cur \in [Resources -> [role : Names \cup {Absent}, grantee : Names \cup {Absent}]]
  /\ outcome \in [Ops -> {"pending", "ok", "failed", "skipped"}]
  /\ faults \in 0..MaxFaults

RevokeSteps == {"revokeOld", "revokeNew", "revokeAdmin"}

\* The grantee a resource's next statement is about.
StatementGrantee(q) == IF pc[q] = "revokeOld" THEN cur[q].grantee ELSE WantGrantee(q)

\* delete_mutex.go:45-48: two GRANT or REVOKE statements on the same grantee are
\* never in progress together, although a rename changes the name under which a
\* grantee's old grants have to be revoked, and Create does not take deleteMutex.
GranteeStatementsExclusive ==
  \A p, q \in Resources :
    /\ p # q
    /\ pc[p] \in RevokeSteps \cup {"grant"}
    /\ pc[q] \in RevokeSteps \cup {"grant"}
    => StatementGrantee(p) # StatementGrantee(q)

\* helpers.go:143-145: Update has seen the new role and grantee before any
\* REVOKE, and they are still there when it revokes, since what could drop them
\* waits for deleteMutex.
MoveTargetsExist ==
  \A q \in Resources :
    pc[q] \in {"revokeOld", "revokeNew"} /\ Updates(q) =>
      RoleExists(WantRole(q)) /\ PrincipalExists(WantGrantee(q))

\* A REVOKE takes the grant this resource had before the apply or the one it is
\* to hold, whatever names they have by then, and never a grant of another
\* resource (acceptance_test.go:870-871 and 944-945).
RevokesOwnOnly ==
  [][\A p \in Roles \X Principals :
       grants[p] # "none" /\ grants'[p] = "none" =>
         \/ name'[p[1]] = Absent \/ name'[p[2]] = Absent
         \/ \E q \in Resources :
              /\ pc[q] \in RevokeSteps /\ pc'[q] # pc[q]
              /\ p \in HadPairs(q) \cup WantPairs(q)]_vars

AllOk == \A op \in Ops : outcome[op] = "ok"

\* After an apply without errors no grant is left that was moved or deleted:
\* not under the old name, not under the name it was renamed to.
NoLeftover ==
  AllOk => \A p \in UNION {HadPairs(q) : q \in Resources} :
             grants[p] # "none" => \E q \in Resources : p \in WantPairs(q)

\* After an apply without errors every resource holds its grant with the admin
\* option it asks for.
HoldsWanted ==
  AllOk => \A q \in Resources : \A p \in WantPairs(q) : grants[p] = WantLevel(q)

\* No order of the locks and no failure leaves an operation waiting for ever.
EveryOperationEnds == <>AllDone
=============================================================================
