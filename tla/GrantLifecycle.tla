--------------------------- MODULE GrantLifecycle ---------------------------
(* One grant resource over several applies: a role grant, system privilege,
   connection grant or impersonation grant. Their handlers differ in what they
   check, in the order of their statements, and in what they do when one fails.

   Every handler that reads the rename log holds deleteMutex, so a rename of an
   endpoint comes before or after it (RoleGrantApply has the locks, and several
   renames and grants at a time). In one apply at most one endpoint is renamed;
   a configuration names the new name then, or neither. *)
EXTENDS FiniteSets, Naturals

CONSTANTS
  Grantees, Things,      \* names; a thing is what is granted
  GrantKinds,            \* of "role", "system", "connection", "impersonation"
  Starts,                \* sets of names that may exist at first
  NoState, NoConfig, NoPair, NoRename,
  FailingSteps,          \* steps that may fail
  UnclearSteps,          \* those that may have taken effect all the same
  MaxFaults, MaxEdits, MaxRenames, MaxOutside

Pairs == Things \X Grantees

\* A resource in state or configuration. Only roles and system privileges have an
\* admin option.
Grants == [thing : Things, grantee : Grantees, admin : BOOLEAN]

Renames == [old : Things, new : Things] \cup [old : Grantees, new : Grantees]

ASSUME GrantAssumption ==
  /\ Things \cap Grantees = {}
  /\ GrantKinds \subseteq {"role", "system", "connection", "impersonation"}
  /\ Starts \subseteq SUBSET (Things \cup Grantees)
  /\ NoState \notin Grants /\ NoConfig \notin Grants
  /\ NoPair \notin Pairs /\ NoRename \notin Renames
  /\ {MaxFaults, MaxEdits, MaxRenames, MaxOutside} \subseteq Nat

VARIABLES
  kind,      \* of the resource
  exists,    \* names of users, roles and connections in the database
  held,      \* Pairs -> "none", "plain" or "admin"
  own,       \* pairs that hold by an import, or a GRANT of this resource whose answer arrived
  state, config,
  pc,        \* "idle", "planned", step of the handler, "finished"
  prior,     \* req.State of the handler; NoState in Create
  old,       \* the grant that Update revokes, NoPair if none
  newHeld,   \* newExists, as the impersonation Update reads it
  pending,   \* the rename this apply has yet to run
  renamed,   \* the rename it has run, the content of the rename log
  result,    \* of the apply
  mishap,    \* of the apply: whether a step failed, or failed without an answer
  touched,   \* another session interfered since the apply began
  split,     \* a rename and the change of the grant fell into different applies
  faults, edits, renames, outside

counters == <<faults, edits, renames, outside>>
world == <<exists, held, own>>
fixed == <<kind, config, edits, renames, outside, touched, split>>
log == <<pending, renamed>>
vars == <<world, fixed, log, state, pc, prior, old, newHeld, result, mishap, faults>>

Pair(g) == <<g.thing, g.grantee>>
New == Pair(config)
HasAdmin == kind \in {"role", "system"}
Level(g) == IF g.admin THEN "admin" ELSE "plain"

\* The name of an object now, by the rename log.
Now(n) == IF renamed # NoRename /\ renamed.old = n THEN renamed.new ELSE n

\* Exasol moves grants along when r renames an endpoint.
MovedBack(p, r) ==
  <<IF p[1] = r.new THEN r.old ELSE p[1], IF p[2] = r.new THEN r.old ELSE p[2]>>
Names(p, n) == p[1] = n \/ p[2] = n

\* A privilege is no object: it exists, and nobody renames it.
Objects == IF kind = "system" THEN Grantees ELSE Things \cup Grantees
Exist(p) == {p[1], p[2]} \cap Objects \subseteq exists

\* Configurations of this kind of resource.
Configs == {g \in Grants : g.admin => HasAdmin}

Init ==
  /\ kind \in GrantKinds
  /\ exists \in Starts
  /\ held = [p \in Pairs |-> "none"] /\ own = {}
  /\ state = NoState /\ config \in Configs
  /\ pc = "idle" /\ prior = NoState /\ old = NoPair /\ newHeld = FALSE
  /\ pending = NoRename /\ renamed = NoRename
  /\ result = "none" /\ mishap = "none" /\ touched = FALSE /\ split = FALSE
  /\ faults = 0 /\ edits = 0 /\ renames = 0 /\ outside = 0

-----------------------------------------------------------------------------
\* Mutant of Refreshed: the admin option of state stays.
RefreshedWithoutAdmin ==
  IF state = NoState THEN NoState
  ELSE IF held[Pair(state)] = "none" THEN NoState ELSE state

\* Read: the row of the grant, with the admin option where the kind has one.
Refreshed ==
  IF state = NoState THEN NoState
  ELSE IF held[Pair(state)] = "none" THEN NoState
  ELSE [state EXCEPT !.admin = HasAdmin /\ held[Pair(state)] = "admin"]

\* The handler that Terraform plans.
Handler ==
  IF prior = NoState THEN (IF config = NoConfig THEN "none" ELSE "create")
  ELSE IF config = NoConfig THEN "delete"
  ELSE IF config # prior THEN "update" ELSE "none"

\* Renames that an apply may plan.
Plannable ==
  {r \in Renames :
     /\ r.old \in exists \cap Objects /\ r.new \in Objects \ exists
     /\ config # NoConfig => ~Names(New, r.old)}

Refresh ==
  /\ pc = "idle"
  /\ \/ /\ state' = Refreshed /\ prior' = Refreshed
        /\ \/ pending' = NoRename /\ UNCHANGED renames
           \/ /\ renames < MaxRenames /\ renames' = renames + 1
              /\ pending' \in Plannable
        /\ pc' = "planned" /\ result' = "none" /\ UNCHANGED faults
     \/ /\ state # NoState /\ "refresh" \in FailingSteps /\ faults < MaxFaults
        /\ faults' = faults + 1 /\ result' = "failed"
        /\ UNCHANGED <<state, prior, pc, pending, renames>>
  /\ mishap' = "none" /\ touched' = FALSE
  /\ UNCHANGED <<world, kind, config, edits, outside, split, renamed, old, newHeld>>

\* Another resource of the same apply renames an endpoint, or fails to.
RenameEndpoint ==
  /\ pc \in {"planned", "finished"} /\ pending # NoRename
  /\ pending' = NoRename
  /\ \/ /\ pending.old \in exists /\ pending.new \notin exists
        /\ exists' = (exists \ {pending.old}) \cup {pending.new}
        /\ held' = [p \in Pairs |-> IF Names(p, pending.old) THEN "none"
                                    ELSE held[MovedBack(p, pending)]]
        /\ own' = {p \in Pairs : ~Names(p, pending.old) /\ MovedBack(p, pending) \in own}
        /\ renamed' = pending /\ UNCHANGED <<pc, result, mishap, faults>>
     \/ /\ \/ (pending.old \notin exists \/ pending.new \in exists) /\ UNCHANGED faults
           \/ "rename" \in FailingSteps /\ faults < MaxFaults /\ faults' = faults + 1
        /\ mishap' = (IF mishap = "none" THEN "failed" ELSE mishap)
        \* a handler whose plan refers to the new name is skipped
        /\ IF pc = "planned" /\ config # NoConfig /\ Names(New, pending.new)
             THEN pc' = "finished" /\ result' = "failed"
             ELSE UNCHANGED <<pc, result>>
        /\ UNCHANGED <<world, renamed>>
  /\ UNCHANGED <<fixed, state, prior, old, newHeld>>

\* The handler begins; the references of its plan come first.
Begin ==
  /\ pc = "planned"
  /\ pending # NoRename /\ config # NoConfig => ~Names(New, pending.new)
  /\ \/ /\ Handler = "none" /\ pc' = "finished" /\ result' = "ok"
     \/ /\ Handler = "create"
        /\ pc' = (IF kind = "impersonation" THEN "check" ELSE "grant")
        /\ UNCHANGED result
     \/ /\ Handler = "update"
        /\ pc' = (IF Pair(prior) # New THEN "look" ELSE "revoke new")
        /\ UNCHANGED result
     \/ Handler = "delete" /\ pc' = "look delete" /\ UNCHANGED result
  /\ old' = NoPair /\ newHeld' = FALSE
  /\ UNCHANGED <<world, fixed, log, state, prior, mishap, faults>>

\* The apply ends and with it the provider's process and its log. A rename whose
\* old name is still in state will not be found by the next run.
Finish ==
  /\ pc = "finished" /\ pending = NoRename
  /\ pc' = "idle" /\ renamed' = NoRename
  /\ prior' = NoState /\ old' = NoPair /\ newHeld' = FALSE
  /\ split' = (split \/ (/\ renamed # NoRename /\ state # NoState
                         /\ Names(Pair(state), renamed.old)))
  /\ UNCHANGED <<world, kind, config, edits, renames, outside, touched, pending, state,
                 result, mishap, faults>>

-----------------------------------------------------------------------------
\* Ways out of a handler, and its next step.
End(r) == pc' = "finished" /\ result' = r /\ UNCHANGED state
Succeed ==
  /\ pc' = "finished" /\ result' = "ok"
  /\ state' = (IF config = NoConfig THEN NoState ELSE config)
Goto(step) == pc' = step /\ UNCHANGED <<state, result>>

\* A statement: it runs, is refused, or fails. granted and revoked are pairs.
Execute(possible, granted, level, revoked, next, failed) ==
  LET after == [p \in Pairs |-> IF p = revoked THEN "none"
                                ELSE IF p # granted THEN held[p]
                                ELSE IF held[p] = "admin" THEN "admin" ELSE level] IN
  /\ \/ /\ possible /\ next
        /\ held' = after /\ own' = (own \ {revoked}) \cup ({granted} \cap Pairs)
        /\ UNCHANGED <<mishap, faults>>
     \/ ~possible /\ failed /\ UNCHANGED <<held, own, mishap, faults>>
     \/ /\ possible /\ pc \in FailingSteps /\ faults < MaxFaults /\ faults' = faults + 1
        /\ failed
        /\ \/ /\ UNCHANGED <<held, own>>
              /\ mishap' = (IF mishap = "none" THEN "failed" ELSE mishap)
           \/ /\ pc \in UnclearSteps
              /\ held' = after /\ own' = own \ {revoked} /\ mishap' = "unclear"
  /\ UNCHANGED <<exists, fixed, log, prior>>

Revoke(p, next, failed) ==
  Execute(Exist(p) /\ held[p] # "none", NoPair, "none", p, next, failed)
GrantPair(p, level, next, failed) == Execute(Exist(p), p, level, NoPair, next, failed)

\* Queries: they answer, or one of them fails.
Query(answers) ==
  /\ \/ answers /\ UNCHANGED <<mishap, faults>>
     \/ /\ pc \in FailingSteps /\ faults < MaxFaults /\ faults' = faults + 1
        /\ mishap' = (IF mishap = "none" THEN "failed" ELSE mishap)
        /\ End("failed") /\ UNCHANGED <<old, newHeld>>
  /\ UNCHANGED <<world, fixed, log, prior>>

\* Impersonation Create: validateTarget and grantExists.
Check ==
  /\ pc = "check"
  /\ Query(/\ IF config.thing \notin exists THEN End("failed")
              ELSE IF held[New] # "none" THEN Succeed ELSE Goto("grant")
           /\ UNCHANGED <<old, newHeld>>)

\* resolveEndpoint: the endpoint was dropped, and with it the old grant.
Gone(n, new) == n \in Objects /\ Now(n) = n /\ n # new /\ n \notin exists

\* Mutant of OldGrant: without the rename log.
OldGrantAsInState ==
  LET cur == Pair(prior) IN
  IF \/ Gone(prior.thing, config.thing) \/ Gone(prior.grantee, config.grantee)
     \/ cur = New \/ held[cur] = "none"
    THEN NoPair ELSE cur

\* The old grant under its current name, if it has to be revoked.
OldGrant ==
  LET cur == <<Now(prior.thing), Now(prior.grantee)>> IN
  IF \/ Gone(prior.thing, config.thing) \/ Gone(prior.grantee, config.grantee)
     \/ cur = New \/ held[cur] = "none"
    THEN NoPair ELSE cur

\* After the old grant is revoked. Impersonation asked for the new one before.
AfterOld(asked) ==
  IF kind # "impersonation" THEN Goto("look new")
  ELSE IF asked THEN Succeed ELSE Goto("grant")

\* Update: the queries up to the first statement. The new endpoints must exist
\* (requireExists, and validateTarget for what is impersonated).
Look ==
  /\ pc = "look"
  /\ Query(IF ~Exist(New) THEN End("failed") /\ UNCHANGED <<old, newHeld>>
           ELSE /\ old' = OldGrant
                /\ newHeld' = (kind = "impersonation" /\ held[New] # "none")
                /\ IF OldGrant # NoPair THEN Goto("revoke old") ELSE AfterOld(newHeld'))

RevokeOld ==
  /\ pc = "revoke old"
  /\ Revoke(old, AfterOld(newHeld), End("failed")) /\ UNCHANGED <<old, newHeld>>

\* grantExists of the new pair; its admin option has to match.
LookNew ==
  /\ pc = "look new"
  /\ Query(/\ IF held[New] = "none" THEN Goto("grant")
              ELSE IF HasAdmin /\ held[New] # Level(config) THEN Goto("revoke new")
              ELSE Succeed
           /\ UNCHANGED <<old, newHeld>>)

\* Mutant of RevokeNew: newExists is not reset.
RevokeNewOnly ==
  /\ pc = "revoke new"
  /\ Revoke(New, Succeed, End("failed")) /\ UNCHANGED <<old, newHeld>>

\* The admin option changes: REVOKE, then GRANT.
RevokeNew ==
  /\ pc = "revoke new"
  /\ Revoke(New, Goto("grant"), End("failed")) /\ UNCHANGED <<old, newHeld>>

\* Mutant of Grant: a failed impersonation Update does not restore the old grant.
GrantWithoutRestore ==
  /\ pc = "grant"
  /\ GrantPair(New, Level(config), Succeed, End("failed"))
  /\ UNCHANGED <<old, newHeld>>

\* Mutant of Grant: impersonation restores what it has not revoked.
GrantAlwaysRestoring ==
  /\ pc = "grant"
  /\ GrantPair(New, Level(config), Succeed,
               IF kind = "impersonation" THEN Goto("restore") ELSE End("failed"))
  /\ UNCHANGED <<old, newHeld>>

\* GRANT, the last statement of Create and Update. When it fails, the impersonation
\* Update grants again what it has revoked.
Grant ==
  /\ pc = "grant"
  /\ GrantPair(New, Level(config), Succeed,
               IF kind = "impersonation" /\ old # NoPair THEN Goto("restore")
               ELSE End("failed"))
  /\ UNCHANGED <<old, newHeld>>

\* The rollback; its own failure is part of the error.
Restore ==
  /\ pc = "restore"
  /\ GrantPair(old, "plain", End("failed"), End("rollback failed"))
  /\ UNCHANGED <<old, newHeld>>

\* Delete: grantExists under the current names.
LookDelete ==
  /\ pc = "look delete"
  /\ LET cur == <<Now(prior.thing), Now(prior.grantee)>> IN
     Query(IF held[cur] = "none" THEN Succeed /\ UNCHANGED <<old, newHeld>>
           ELSE old' = cur /\ Goto("revoke") /\ UNCHANGED newHeld)

RevokeDeleted ==
  /\ pc = "revoke"
  /\ Revoke(old, Succeed, End("failed")) /\ UNCHANGED <<old, newHeld>>

-----------------------------------------------------------------------------
\* The configuration is edited between two applies.
Edit ==
  /\ pc = "idle" /\ edits < MaxEdits /\ edits' = edits + 1
  /\ config' \in (Configs \cup {NoConfig}) \ {config} /\ result' = "none"
  /\ UNCHANGED <<world, kind, renames, outside, touched, split, log, state, pc, prior, old,
                 newHeld, mishap, faults>>

\* ImportState, for a grant that is there, as import's Read requires. The admin option
\* is as the import says, right or wrong, until the next Read.
ImportState ==
  /\ pc = "idle" /\ edits < MaxEdits /\ edits' = edits + 1
  /\ state = NoState /\ config # NoConfig
  /\ \E g \in Configs : held[Pair(g)] # "none" /\ state' = g /\ own' = own \cup {Pair(g)}
  /\ result' = "none"
  /\ UNCHANGED <<exists, held, kind, config, renames, outside, touched, split, log, pc, prior,
                 old, newHeld, mishap, faults>>

\* Another session drops an object, creates one, grants or revokes.
Outside ==
  /\ outside < MaxOutside /\ outside' = outside + 1 /\ touched' = TRUE
  /\ \/ \E n \in exists \cap Objects :
          /\ exists' = exists \ {n}
          /\ held' = [p \in Pairs |-> IF Names(p, n) THEN "none" ELSE held[p]]
          /\ own' = {p \in own : ~Names(p, n)}
     \/ \E n \in Objects \ exists : exists' = exists \cup {n} /\ UNCHANGED <<held, own>>
     \/ \E p \in Pairs :
          /\ Exist(p) /\ held[p] # "none"
          /\ held' = [held EXCEPT ![p] = "none"] /\ own' = own \ {p} /\ UNCHANGED exists
     \/ \E p \in Pairs, level \in {"plain"} \cup (IF HasAdmin THEN {"admin"} ELSE {}) :
          /\ Exist(p) /\ held[p] = "none"
          /\ held' = [held EXCEPT ![p] = level] /\ UNCHANGED <<exists, own>>
  /\ UNCHANGED <<kind, config, edits, renames, split, log, state, pc, prior, old, newHeld,
                 result, mishap, faults>>

Step ==
  \/ Refresh \/ RenameEndpoint \/ Begin \/ Finish
  \/ Check \/ Look \/ RevokeOld \/ LookNew \/ RevokeNew \/ Grant \/ Restore
  \/ LookDelete \/ RevokeDeleted

Next == Step \/ Edit \/ ImportState \/ Outside

\* The user applies again until it works; a handler that began goes on.
Spec == Init /\ [][Next]_vars /\ WF_vars(Step)

-----------------------------------------------------------------------------
\* Types; what this resource granted or imported is held, and a REVOKE, or the GRANT that
\* restores, has a pair to name (the guards on oldExists).
TypeOK ==
  /\ kind \in GrantKinds
  /\ exists \subseteq Things \cup Grantees
  /\ held \in [Pairs -> {"none", "plain", "admin"}]
  /\ own \subseteq {p \in Pairs : held[p] # "none"}
  /\ state \in Grants \cup {NoState} /\ prior \in Grants \cup {NoState}
  /\ config \in Grants \cup {NoConfig}
  /\ pc \in {"idle", "planned", "finished", "check", "look", "revoke old", "look new",
             "revoke new", "grant", "restore", "look delete", "revoke"}
  /\ old \in Pairs \cup {NoPair} /\ newHeld \in BOOLEAN
  /\ pc \in {"revoke old", "restore", "revoke"} => old # NoPair
  /\ {pending, renamed} \subseteq Renames \cup {NoRename}
  /\ result \in {"none", "ok", "failed", "rollback failed"}
  /\ mishap \in {"none", "failed", "unclear"} /\ {touched, split} \subseteq BOOLEAN
  /\ faults \in 0..MaxFaults /\ edits \in 0..MaxEdits
  /\ renames \in 0..MaxRenames /\ outside \in 0..MaxOutside

\* An apply that ends well leaves the configured grant in the database and in
\* state, whatever failed before it.
SuccessMeansGranted ==
  pc = "idle" /\ result = "ok" /\ ~touched =>
    IF config = NoConfig THEN state = NoState
    ELSE state = config /\ held[New] # "none"

\* "Find where the previous grant lives now ... Revoke it there"
\* (role_grant_resource.go:197-198 and its likes): after an apply that ends well no
\* GRANT of this resource holds but at the configured pair, unless a rename and the
\* change of the grant fell into different runs, a limit that the description of
\* users and roles names (role_resource.go:40-41).
NoLeftover ==
  pc = "idle" /\ result = "ok" /\ ~split =>
    own \subseteq (IF config = NoConfig THEN {} ELSE {New})

\* CHANGELOG.md:49, "Moving a grant to a grantee, role, connection, impersonation
\* target or object that does not exist now fails before any REVOKE": an Update that
\* is refused, with no other failure, leaves the old grant or the new one. The
\* impersonation Update does so also when one of its statements fails, unless the
\* answer was lost or it reports that its rollback failed.
AccessKept ==
  /\ pc = "finished" /\ prior # NoState /\ config # NoConfig /\ ~touched
  /\ result = "failed"
  /\ mishap = "none" \/ (kind = "impersonation" /\ mishap = "failed")
  => \/ held[New] # "none"
     \/ held[<<Now(prior.thing), Now(prior.grantee)>>] # "none"

\* The configured grantee, role, connection or target does not exist.
Blocked == config # NoConfig /\ ~Exist(New)

\* When failures, edits, renames and other sessions have stopped, applying again
\* succeeds, and with the configured admin option. (A single Create does not take an
\* admin option away; Read sees it and the next apply does.)
Converges ==
  /\ []<>(pc = "idle")
  /\ <>[](\/ Blocked \/ pc # "idle"
          \/ result = "ok" /\ (config = NoConfig \/ held[New] = Level(config)))
=============================================================================
