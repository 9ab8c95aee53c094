--------------------------- MODULE ObjectPrivilege ---------------------------
(* One exasol_object_privilege over several applies: a list of privileges of one
   grantee on one target. A target is a schema; an object in a schema moves with
   it and is told apart no further, and the object type is fixed. Names of schemas
   keep their case, so that one target has a spelling in the configuration and an
   exact name in private state, and two schemas can differ by case only.

   Principals and schemas have an identity here, and privileges are kept per
   identity, as Exasol moves them when a name changes. Update and Delete hold
   deleteMutex, so a rename comes before or after them; Create holds the lock of
   its grantee only, which no rename takes. *)
EXTENDS RenameOps, Naturals

CONSTANTS
  Principals, Schemas,  \* identities
  Grantees, Spellings,  \* names of the former, and of the latter
  Starts,         \* names at first: functions from identities to names and Absent
  Privileges,     \* as Exasol stores them
  All,            \* the privilege ALL, which Exasol expands
  Configs,        \* what may be configured, the list of privileges as a set
  PrincipalKind,  \* RenamePrincipal
  Absent,         \* name of an object that does not exist
  Unknown,        \* no target in private state
  NoState, NoConfig, NoSubject, NoWork,
  MaxEvents,      \* failures, renames and steps of other sessions, together
  MaxEdits

Objects == Principals \cup Schemas
KindOf(o) == IF o \in Principals THEN PrincipalKind ELSE SchemaKind
NamesOf(kind) == IF kind = PrincipalKind THEN Grantees ELSE Spellings
Rows == Principals \X Schemas \X Privileges

\* A configuration with the target in private state.
States == [grantee : Grantees, spelling : Spellings,
           privileges : SUBSET (Privileges \cup {All}), target : Spellings \cup {Unknown}]

\* from: where privileges are revoked; to: where they are granted, as names of
\* grantee and target; asks: whether checkObjectPrivilegeExists precedes a GRANT.
Work == [from : (Grantees \cup {Absent}) \X (Spellings \cup {Absent}), to : Grantees \X Spellings,
         revoke : SUBSET (Privileges \cup {All}), grant : SUBSET (Privileges \cup {All}),
         asks : BOOLEAN]

ASSUME ObjectPrivilegeAssumption ==
  /\ Principals \cap Schemas = {} /\ PrincipalKind \in Kinds \ {SchemaKind}
  /\ Grantees \cup Spellings \subseteq Names
  /\ \A n \in Grantees : Upper[n] = n
  /\ \A n \in Spellings : Upper[n] \in Spellings
  /\ \A f \in Starts :
       /\ f \in [Objects -> Names \cup {Absent}]
       /\ \A o \in Objects : f[o] \in NamesOf(KindOf(o)) \cup {Absent}
       /\ \A o, q \in Objects : KindOf(o) = KindOf(q) /\ f[o] = f[q] => o = q \/ f[o] = Absent
  /\ Privileges # {} /\ All \notin Privileges
  /\ Configs \subseteq [grantee : Grantees, spelling : Spellings,
                       privileges : (SUBSET (Privileges \cup {All})) \ {{}}]
  /\ {Absent, Unknown} \cap Names = {} /\ NoState \notin States /\ NoConfig \notin Configs
  /\ NoSubject \notin Principals \X Schemas /\ NoWork \notin Work
  /\ {MaxEvents, MaxEdits} \subseteq Nat

VARIABLES
  name,      \* of every object in the database
  held,      \* EXA_DBA_OBJ_PRIVS
  own,       \* rows that an import found, or a handler that ended well granted or kept
  log,       \* the rename log of this run
  state, config,
  pc,        \* "idle", "planned", "look", "run" or "finished"
  prior,     \* req.State of the handler, NoState in Create
  work,      \* what the handler has still to do
  subject,   \* history: principal and schema that state was about when it was written
  result,    \* of the apply
  mishap,    \* a step of this apply failed
  touched,   \* another session interfered since the apply began
  split,     \* a rename and the change of the grant fell into different runs, or
             \* the grantee or the schema was renamed while Create granted
  events, edits

counters == <<events, edits>>
vars == <<name, held, own, log, state, config, pc, prior, work, subject, result, mishap,
          touched, split, counters>>

\* A handler that has nothing to do at loc.
Nothing(loc) == [from |-> loc, to |-> loc, revoke |-> {}, grant |-> {}, asks |-> FALSE]

Exists(kind, n) == \E o \in Objects : KindOf(o) = kind /\ name[o] = n

\* The rows that privilege p on the target named loc[2] is for the grantee loc[1];
\* none if either is missing.
RowsAt(loc, p) ==
  {row \in Rows : name[row[1]] = loc[1] /\ name[row[2]] = loc[2] /\ p \in {row[3], All}}

\* Mutant of PrivilegeExists: ALL is looked for as it is spelled.
PrivilegeExistsAsSpelled(loc, p) == p # All /\ held \cap RowsAt(loc, p) # {}

\* checkObjectPrivilegeExists: for ALL any privilege will do.
PrivilegeExists(loc, p) == held \cap RowsAt(loc, p) # {}

\* The identities behind a location.
Identities(loc) == {s \in Principals \X Schemas : name[s[1]] = loc[1] /\ name[s[2]] = loc[2]}

\* objectTarget: the exact spelling if such an object exists, else in upper case.
ObjectTarget(spelling) ==
  IF Exists(SchemaKind, spelling) THEN spelling ELSE Upper[spelling]

Init ==
  /\ name \in Starts /\ config \in Configs
  \* nothing in state, or an import of what the configuration says
  /\ \/ held = {} /\ state = NoState
     \/ /\ \E P \in (SUBSET Privileges) \ {{}} :
             held = {row \in Rows : Absent \notin {name[row[1]], name[row[2]]} /\ row[3] \in P}
        /\ state = [grantee |-> config.grantee, spelling |-> config.spelling,
                    privileges |-> config.privileges, target |-> Unknown]
  /\ own = {} /\ log = EmptyLog
  /\ pc = "idle" /\ prior = NoState /\ work = NoWork /\ subject = NoSubject
  /\ result = "none" /\ mishap = FALSE
  /\ touched = FALSE /\ split = FALSE
  /\ events = 0 /\ edits = 0

-----------------------------------------------------------------------------
\* Mutant of ReadTarget: the target is looked for again, by its spelling.
ReadTargetAgain == ObjectTarget(state.spelling)

\* The exact target, from private state or looked for.
ReadTarget == IF state.target # Unknown THEN state.target ELSE ObjectTarget(state.spelling)

\* Mutant of Refreshed: the target that was looked for is not stored.
RefreshedWithoutTarget ==
  IF state = NoState THEN NoState
  ELSE LET found == {p \in state.privileges :
                       PrivilegeExists(<<state.grantee, ReadTarget>>, p)} IN
       IF found = {} THEN NoState ELSE [state EXCEPT !.privileges = found]

\* Read: the privileges found, or none and the resource goes.
Refreshed ==
  IF state = NoState THEN NoState
  ELSE LET found == {p \in state.privileges :
                       PrivilegeExists(<<state.grantee, ReadTarget>>, p)} IN
       IF found = {} THEN NoState
       ELSE [state EXCEPT !.privileges = found, !.target = ReadTarget]

\* The resource as an import, or a target found at last, makes it known.
Adopted ==
  IF Refreshed = NoState THEN <<NoSubject, own>>
  ELSE IF state.target # Unknown THEN <<subject, own>>
  ELSE LET loc == <<state.grantee, ReadTarget>> IN
       <<CHOOSE s \in Identities(loc) : TRUE,
         held \cap UNION {RowsAt(loc, p) : p \in state.privileges}>>

Event == events < MaxEvents /\ events' = events + 1

\* A plan begins with the refresh, which may fail.
Refresh ==
  /\ pc = "idle"
  /\ \/ /\ state' = Refreshed /\ prior' = Refreshed /\ subject' = Adopted[1] /\ own' = Adopted[2]
        /\ pc' = "planned" /\ result' = "none" /\ mishap' = FALSE /\ touched' = FALSE
        /\ UNCHANGED events
     \/ /\ state # NoState /\ Event
        /\ result' = "failed" /\ mishap' = TRUE
        /\ UNCHANGED <<own, state, prior, subject, pc, touched>>
  /\ UNCHANGED <<name, held, log, config, work, split, edits>>

\* What prior and the configuration differ in.
Differs ==
  \/ prior.grantee # config.grantee \/ prior.spelling # config.spelling
  \/ prior.privileges # config.privileges

Fail == pc' = "finished" /\ result' = "failed" /\ UNCHANGED <<state, subject, work>>

\* The last step of a handler sets state and private state, or removes the resource.
Succeed(w) ==
  /\ pc' = "finished" /\ result' = "ok" /\ work' = NoWork
  /\ IF config = NoConfig
       THEN state' = NoState /\ subject' = NoSubject /\ own' = own \cap held'
       ELSE /\ state' = [grantee |-> config.grantee, spelling |-> config.spelling,
                         privileges |-> config.privileges, target |-> w.to[2]]
            /\ subject' = CHOOSE s \in Identities(w.to) \cup {NoSubject} :
                            Identities(w.to) # {} => s # NoSubject
            /\ own' = held' \cap (own \cup UNION {RowsAt(w.to, p) : p \in config.privileges})

\* The handler goes on with w.
Continue(w) ==
  IF w.revoke \cup w.grant = {} /\ result # "failed" THEN Succeed(w)
  ELSE /\ pc' = (IF w.revoke \cup w.grant = {} THEN "finished" ELSE "run")
       /\ work' = w /\ own' = own \cap held' /\ UNCHANGED <<state, subject, result>>

\* The handler that Terraform has planned begins. Create asks nothing first.
Begin ==
  /\ pc = "planned"
  /\ \/ /\ prior = NoState /\ config = NoConfig
        /\ pc' = "finished" /\ result' = "ok" /\ UNCHANGED <<own, state, subject, work>>
     \/ /\ prior # NoState /\ config # NoConfig /\ ~Differs
        /\ pc' = "finished" /\ result' = "ok" /\ UNCHANGED <<own, state, subject, work>>
     \/ /\ prior = NoState /\ config # NoConfig /\ held' = held
        /\ Continue([Nothing(<<config.grantee, config.spelling>>) EXCEPT
                       !.grant = config.privileges])
     \/ /\ prior # NoState /\ (config # NoConfig => Differs)
        /\ pc' = "look" /\ UNCHANGED <<own, state, subject, work, result>>
  /\ UNCHANGED <<name, held, log, config, prior, mishap, touched, split, counters>>

-----------------------------------------------------------------------------
LookupSchema(n) == Lookup(log, SchemaKind, n)
LookupGrantee(n) == Lookup(log, PrincipalKind, n)

\* resolveKnownObject and, for a grantee, resolveEndpoint: where it is now, or Absent.
ResolveKnownObject(n) ==
  IF LookupSchema(n) # NoEntry THEN LookupSchema(n)
  ELSE IF Exists(SchemaKind, n) THEN n ELSE Absent
ResolveGrantee(old, new) ==
  IF LookupGrantee(old) # NoEntry THEN LookupGrantee(old)
  ELSE IF old = new \/ Exists(PrincipalKind, old) THEN old ELSE Absent

\* Mutant of NewTarget: an unchanged spelling is resolved again.
NewTargetAgain == ObjectTarget(config.spelling)

\* Update: where the privileges shall be. An unchanged spelling stays with the known
\* target, unless its schema was renamed in this run.
NewTarget ==
  IF prior.spelling # config.spelling THEN ObjectTarget(config.spelling)
  ELSE IF LookupSchema(prior.target) # NoEntry /\ Exists(SchemaKind, config.spelling)
    THEN config.spelling
  ELSE prior.target

\* Mutant of Moves: only names are compared.
MovesByName(to) == <<prior.grantee, prior.target>> # to

\* Whether grantee or target is another one, also under the same name.
Moves(to) ==
  \/ <<prior.grantee, prior.target>> # to
  \/ LookupGrantee(prior.grantee) \notin {NoEntry, to[1]}
  \/ LookupSchema(prior.target) \notin {NoEntry, to[2]}

\* Mutant of MoveWork: everything is revoked, and nothing asked before the GRANT.
MoveWorkKeepingAll(to) ==
  LET from == <<ResolveGrantee(prior.grantee, to[1]), ResolveKnownObject(prior.target)>> IN
  [from |-> from, to |-> to,
   revoke |-> IF Absent \in {from[1], from[2]} \/ from = to THEN {} ELSE prior.privileges,
   grant |-> config.privileges, asks |-> TRUE]

\* The move: revoke where the privileges are now what is not kept there, then grant.
MoveWork(to) ==
  LET from == <<ResolveGrantee(prior.grantee, to[1]), ResolveKnownObject(prior.target)>> IN
  [from |-> from, to |-> to,
   revoke |-> IF Absent \in {from[1], from[2]} THEN {}
              ELSE prior.privileges \ (IF from = to THEN config.privileges ELSE {}),
   grant |-> config.privileges, asks |-> TRUE]

\* Otherwise the lists are compared.
DiffWork(to) ==
  [from |-> to, to |-> to, revoke |-> prior.privileges \ config.privileges,
   grant |-> config.privileges \ prior.privileges, asks |-> FALSE]

\* A query of the handler fails.
QueryFails ==
  /\ pc = "look" \/ (pc = "run" /\ (work.revoke # {} \/ work.asks))
  /\ Event /\ mishap' = TRUE
  /\ prior # NoState /\ Fail
  /\ UNCHANGED <<name, held, own, log, config, prior, touched, split, edits>>

\* Mutant of LookUpdate: the new endpoints are not required to exist.
LookUpdateUnchecked ==
  /\ pc = "look" /\ config # NoConfig
  /\ LET to == <<config.grantee, NewTarget>> IN
     held' = held /\ Continue(IF Moves(to) THEN MoveWork(to) ELSE DiffWork(to))
  /\ UNCHANGED <<name, log, config, prior, mishap, touched, split, counters>>

\* Update up to its first statement. A move requires its new endpoints.
LookUpdate ==
  /\ pc = "look" /\ config # NoConfig
  /\ LET to == <<config.grantee, NewTarget>> IN
     /\ held' = held
     /\ \/ ~Moves(to) /\ Continue(DiffWork(to))
        \/ /\ Moves(to) /\ Exists(PrincipalKind, to[1]) /\ Exists(SchemaKind, to[2])
           /\ Continue(MoveWork(to))
        \/ /\ Moves(to) /\ ~(Exists(PrincipalKind, to[1]) /\ Exists(SchemaKind, to[2]))
           /\ Fail /\ UNCHANGED own
  /\ UNCHANGED <<name, log, config, prior, mishap, touched, split, counters>>

\* Mutant of LookDelete: the names of state.
LookDeleteAsRecorded ==
  /\ pc = "look" /\ config = NoConfig
  /\ held' = held
  /\ Continue([Nothing(<<prior.grantee, prior.target>>) EXCEPT !.revoke = prior.privileges])
  /\ UNCHANGED <<name, log, config, prior, mishap, touched, split, counters>>

\* Delete up to its first statement: a dropped target took its privileges with it.
LookDelete ==
  /\ pc = "look" /\ config = NoConfig
  /\ LET grantee == CurrentName(log, PrincipalKind, prior.grantee)
         target == ResolveKnownObject(prior.target) IN
     /\ held' = held
     /\ Continue(IF target = Absent THEN Nothing(<<prior.grantee, prior.target>>)
                 ELSE [Nothing(<<grantee, target>>) EXCEPT !.revoke = prior.privileges])
  /\ UNCHANGED <<name, log, config, prior, mishap, touched, split, counters>>

\* A statement runs and leaves after, or is refused, or fails; a failed one may have
\* run all the same.
Execute(possible, after, next, failed) ==
  /\ \/ possible /\ held' = after /\ next /\ UNCHANGED <<mishap, events>>
     \/ ~possible /\ UNCHANGED <<held, mishap, events>> /\ failed
     \/ /\ possible /\ Event /\ mishap' = TRUE
        /\ held' \in {held, after} /\ failed
  /\ UNCHANGED <<name, log, config, prior, touched, split, edits>>

Skip(rest) ==
  /\ held' = held /\ Continue(rest)
  /\ UNCHANGED <<name, log, config, prior, mishap, touched, split, counters>>

\* A failed REVOKE ends Update; Delete goes on with the next privilege.
RevokeFailed(w) ==
  \/ config # NoConfig /\ Fail /\ own' = own \cap held'
  \/ /\ config = NoConfig /\ result' = "failed" /\ work' = w
     /\ pc' = (IF w.revoke = {} THEN "finished" ELSE "run")
     /\ own' = own \cap held' /\ UNCHANGED <<state, subject>>

\* The next REVOKE, unless the privilege is gone. The lists have an order, but the
\* diff of two lists is walked as a map, in any.
RevokeNext ==
  /\ pc = "run"
  /\ \E p \in work.revoke :
       LET rest == [work EXCEPT !.revoke = @ \ {p}] IN
       IF PrivilegeExists(work.from, p)
         THEN Execute(TRUE, held \ RowsAt(work.from, p), Continue(rest), RevokeFailed(rest))
         ELSE Skip(rest)

\* Mutant of GrantNext: a move skips ALL like any privilege.
GrantNextSkippingAll ==
  /\ pc = "run" /\ work.revoke = {}
  /\ \E p \in work.grant :
       LET rest == [work EXCEPT !.grant = @ \ {p}] IN
       IF work.asks /\ PrivilegeExists(work.to, p)
         THEN Skip(rest)
         ELSE Execute(RowsAt(work.to, p) # {}, held \cup RowsAt(work.to, p),
                      Continue(rest), Fail /\ own' = own \cap held')

\* The next GRANT. A move skips a privilege that is there, but never ALL.
GrantNext ==
  /\ pc = "run" /\ work.revoke = {}
  /\ \E p \in work.grant :
       LET rest == [work EXCEPT !.grant = @ \ {p}] IN
       IF work.asks /\ p # All /\ PrivilegeExists(work.to, p)
         THEN Skip(rest)
         ELSE Execute(RowsAt(work.to, p) # {}, held \cup RowsAt(work.to, p),
                      Continue(rest), Fail /\ own' = own \cap held')

\* The apply ends, and with it the rename log.
Finish ==
  /\ pc = "finished"
  /\ pc' = "idle" /\ log' = EmptyLog /\ prior' = NoState /\ work' = NoWork
  /\ split' = (split \/ (/\ log # EmptyLog /\ subject # NoSubject
                         /\ <<name[subject[1]], name[subject[2]]>> # <<state.grantee, state.target>>))
  /\ UNCHANGED <<name, held, own, state, config, subject, result, mishap, touched, counters>>

-----------------------------------------------------------------------------
\* Another resource of this apply renames a principal or schema, once each; its state
\* had the old name when the apply began, so no other one gives up that name.
Rename ==
  /\ Event
  /\ \E o \in Objects : \E n \in NamesOf(KindOf(o)) :
       /\ name[o] # Absent /\ ~Exists(KindOf(o), n)
       /\ \A m \in Names : log[<<KindOf(o), m>>] # name[o]
       /\ Lookup(log, KindOf(o), name[o]) = NoEntry
       /\ \/ pc \in {"planned", "finished"} /\ UNCHANGED split
          \/ pc = "run" /\ prior = NoState /\ split' = TRUE
       /\ name' = [name EXCEPT ![o] = n]
       /\ log' = Record(log, KindOf(o), name[o], n)
  /\ UNCHANGED <<held, own, state, config, pc, prior, work, subject, result, mishap, touched, edits>>

\* The configuration is edited between two applies.
Edit ==
  /\ pc = "idle" /\ edits < MaxEdits /\ edits' = edits + 1
  /\ config' \in (Configs \cup {NoConfig}) \ {config} /\ result' = "none"
  /\ UNCHANGED <<name, held, own, log, state, pc, prior, work, subject, mishap, touched, split, events>>

\* Another session creates a schema, never one that was dropped under the resource,
\* or drops an object, or revokes a privilege.
Outside ==
  /\ Event /\ touched' = TRUE
  /\ \/ \E o \in Schemas, n \in Spellings :
          /\ name[o] = Absent /\ ~Exists(SchemaKind, n)
          /\ subject # NoSubject => o # subject[2]
          /\ name' = [name EXCEPT ![o] = n] /\ UNCHANGED <<held, own>>
     \/ \E o \in Objects :
          /\ name[o] # Absent /\ name' = [name EXCEPT ![o] = Absent]
          /\ held' = {row \in held : o \notin {row[1], row[2]}}
          /\ own' = own \cap held'
     \/ \E row \in held : held' = held \ {row} /\ own' = own \ {row} /\ UNCHANGED name
  /\ UNCHANGED <<log, state, config, pc, prior, work, subject, result, mishap, split, edits>>

Step ==
  \/ Refresh \/ Begin \/ LookUpdate \/ LookDelete \/ QueryFails
  \/ RevokeNext \/ GrantNext \/ Finish

Next == Step \/ Rename \/ Edit \/ Outside

\* The user applies again until it works; a handler that began goes on.
Spec == Init /\ [][Next]_vars /\ WF_vars(Step)

-----------------------------------------------------------------------------
\* Types; the objects of a kind have different names; and the target is known from
\* the first refresh on (storeObjectTarget), so no handler looks for it by spelling.
TypeOK ==
  /\ name \in [Objects -> Names \cup {Absent}]
  /\ \A o, q \in Objects : KindOf(o) = KindOf(q) /\ name[o] = name[q] => o = q \/ name[o] = Absent
  /\ own \subseteq held /\ held \subseteq {row \in Rows : Absent \notin {name[row[1]], name[row[2]]}}
  /\ log \in Logs /\ state \in States \cup {NoState} /\ config \in Configs \cup {NoConfig}
  /\ prior \in States \cup {NoState} /\ (prior # NoState => prior.target # Unknown)
  /\ work \in Work \cup {NoWork}
  /\ pc \in {"idle", "planned", "look", "run", "finished"} /\ (pc = "run" => work # NoWork)
  /\ subject \in (Principals \X Schemas) \cup {NoSubject}
  /\ result \in {"none", "ok", "failed"} /\ {mishap, touched, split} \subseteq BOOLEAN

\* A step of a handler, no rename, and no other session has interfered since the plan.
HandlerStep == pc \in {"look", "run"} /\ name' = name /\ ~touched'

\* Whether Create or Update must have granted p as a whole: ALL that is only kept may
\* have lost some of its privileges, which Read does not see.
Due(p, loc) == prior = NoState \/ p \notin prior.privileges \/ loc # <<prior.grantee, prior.target>>

\* CHANGELOG.md:47, "moving an `ALL` grant to a grantee that already holds one of its
\* privileges now grants all of them": when Create or Update ends well, the grantee has
\* every configured privilege on the target that is stored, whatever was there before.
SuccessMeansGranted ==
  [][HandlerStep /\ result' = "ok" /\ config # NoConfig /\ ~split =>
     LET loc == <<config.grantee, state'.target>> IN
     \A p \in config.privileges :
       /\ held' \cap RowsAt(loc, p) # {}
       /\ Due(p, loc) => RowsAt(loc, p) \subseteq held']_vars

\* CHANGELOG.md:43, the provider "no longer leaves grants behind": after an apply that
\* ends well this resource holds nothing but what is configured.
NoLeftover ==
  pc = "idle" /\ result = "ok" /\ ~split =>
    own \subseteq (IF config = NoConfig THEN {}
                  ELSE UNION {RowsAt(<<config.grantee, state.target>>, p) : p \in config.privileges})

SubjectExists == Absent \notin {name[subject[1]], name[subject[2]]}

\* CHANGELOG.md:48, "refresh, update and delete stay on that object": a REVOKE takes
\* privileges from the principal and schema the state was written for only, under
\* whatever names they have by now, and never from a schema whose name differs in
\* case; while the spelling stays and the schema is not renamed, a GRANT goes there too.
\* (When another session drops one, its name may come to mean another object.)
StaysOnTarget ==
  [][HandlerStep /\ prior # NoState /\ subject # NoSubject /\ SubjectExists /\ ~split =>
     /\ \A row \in held \ held' : <<row[1], row[2]>> = subject
     /\ config # NoConfig /\ config.spelling = prior.spelling
        /\ LookupSchema(prior.target) = NoEntry
          => \A row \in held' \ held : row[2] = subject[2]]_vars

\* CHANGELOG.md:49: an Update that is refused, because a new endpoint does not exist
\* and nothing else went wrong, has revoked nothing.
AccessKept ==
  pc = "finished" /\ result = "failed" /\ ~mishap /\ ~touched /\ ~split
  /\ prior # NoState /\ subject # NoSubject /\ SubjectExists /\ config # NoConfig
  => \A p \in prior.privileges :
       \E row \in held : <<row[1], row[2]>> = subject /\ p \in {row[3], All}

\* The configured grantee or schema does not exist.
Blocked ==
  /\ config # NoConfig
  /\ ~(Exists(PrincipalKind, config.grantee) /\ Exists(SchemaKind, config.spelling))

\* When failures, edits, renames and other sessions have stopped, applying again
\* succeeds, with every configured privilege there, or nothing left in state.
Converges ==
  /\ []<>(pc = "idle")
  /\ <>[](\/ Blocked \/ pc # "idle"
          \/ /\ result = "ok" /\ (state = NoState <=> config = NoConfig)
             /\ config # NoConfig =>
                  \A p \in config.privileges :
                    PrivilegeExists(<<config.grantee, state.target>>, p))
=============================================================================
