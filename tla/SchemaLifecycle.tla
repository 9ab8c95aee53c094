--------------------------- MODULE SchemaLifecycle ---------------------------
(* One exasol_schema resource over several applies: Create, Read, Update and
   Delete of schema_resource.go, with statements that fail half way.

   An apply refreshes state, plans and runs one handler; between applies the
   configuration may change. Other sessions drop schemas, create some, and fill
   them with objects. The rename log and deleteMutex, which the rename uses, are
   in RenameLog and RoleGrantApply; with one resource nobody competes here.

   Assumed of Exasol: EXA_ALL_SCHEMAS, which Read and the read-back ask, shows every
   schema, also one that belongs to somebody else and that the provider's user may not
   alter. helpers.go:191-192 says so of the EXA_DBA_* views only. *)
EXTENDS Naturals, FiniteSets

CONSTANTS
  Names, Owners, Comments,
  Missing,         \* configured owners that do not exist
  Creator,         \* the provider's own user
  Rights,          \* whether that user may alter schemas of others, or either
  NoComment, Unset, NoSchema, NoState, NoConfig,
  FailingSteps,    \* steps whose statement or query may fail or be cancelled
  UnclearSteps,    \* those that may have taken effect all the same
  MaxFaults, MaxEdits, MaxOutside

Configs == [name : Names, owner : Owners \cup {Unset}, comment : Comments \cup {NoComment}]

States == [name : Names, owner : Owners, comment : Comments \cup {NoComment}]

\* made: by this resource; filled: it holds objects; written: its comment is
\* from this resource.
Schemas == [owner : Owners, comment : Comments \cup {NoComment},
            made : BOOLEAN, filled : BOOLEAN, written : BOOLEAN]

ASSUME SchemaAssumption ==
  /\ Missing \subseteq Owners /\ Creator \in Owners \ Missing
  /\ Rights \subseteq BOOLEAN
  /\ Unset \notin Owners /\ NoComment \notin Comments
  /\ NoSchema \notin Schemas /\ NoState \notin States /\ NoConfig \notin Configs
  /\ {MaxFaults, MaxEdits, MaxOutside} \subseteq Nat

VARIABLES
  schemas,   \* the database
  state,     \* Terraform's state of the resource
  config,    \* the configuration
  pc,        \* step of the apply, or "idle" between two
  prior,     \* req.State of Update and Delete, NoState in Create
  ctxDone,   \* the apply is cancelled
  result,    \* of the last apply
  reported,  \* schemas that an error asked to drop or import
  touched,   \* another session dropped or created one since the apply began
  dba,       \* the provider's user may alter schemas of others
  faults, edits, outside

counters == <<faults, edits, outside>>
run == <<pc, prior, ctxDone, result>>
vars == <<schemas, state, config, run, reported, touched, dba, counters>>

Exists(n) == schemas[n] # NoSchema

\* ALTER and COMMENT need the schema and a right to it.
MayAlter(n) == Exists(n) /\ (dba \/ schemas[n].owner = Creator)

Init ==
  /\ schemas = [n \in Names |-> NoSchema]
  /\ state = NoState
  /\ config \in Configs
  /\ pc = "idle" /\ prior = NoState /\ ctxDone = FALSE
  /\ result = "none" /\ reported = {} /\ touched = FALSE
  /\ dba \in Rights
  /\ faults = 0 /\ edits = 0 /\ outside = 0

-----------------------------------------------------------------------------
\* The handler, or the refresh, ends the apply.
End(r) ==
  /\ pc' = "idle" /\ result' = r
  /\ prior' = NoState /\ ctxDone' = FALSE

Goto(step) == pc' = step /\ UNCHANGED <<prior, ctxDone, result>>

\* Mutant of Failed: Create leaves its schema.
FailedLeaving == End("failed")

\* Where a failed comment or owner change leads: Create drops its schema again.
Failed == IF prior = NoState THEN Goto("undo") ELSE End("failed")

\* Names of the steps that may fail; the read-back of Create has its own.
Step == IF pc = "readback" /\ prior = NoState THEN "readback created" ELSE pc

\* A statement of a handler: it runs, it is refused, it fails, or the context is
\* done. next and failed set the step, after is the database it leads to.
Execute(possible, after, next, failed) ==
  \/ /\ ~ctxDone /\ possible
     /\ schemas' = after /\ next /\ UNCHANGED faults
  \/ /\ ctxDone \/ ~possible
     /\ failed /\ UNCHANGED <<schemas, state, faults>>
  \/ /\ ~ctxDone /\ possible /\ Step \in FailingSteps /\ faults < MaxFaults
     /\ schemas' \in {schemas} \cup (IF pc \in UnclearSteps THEN {after} ELSE {})
     /\ failed /\ faults' = faults + 1 /\ UNCHANGED state

\* The comment and the owner are set where they differ from s, the comment first.
AfterComment(s) ==
  IF config.owner # Unset /\ (s = NoState \/ config.owner # s.owner) THEN "owner" ELSE "readback"

AfterName(s) ==
  IF config.comment # (IF s = NoState THEN NoComment ELSE s.comment) THEN "comment"
  ELSE AfterComment(s)

\* What Terraform plans for refreshed state s.
Planned(s) ==
  IF s = NoState THEN (IF config = NoConfig THEN "none" ELSE "create")
  ELSE IF config = NoConfig THEN "delete"
  ELSE IF config.name # s.name THEN "rename"
  ELSE IF AfterName(s) # "readback" THEN AfterName(s)
  ELSE "none"

\* Read: the row of the schema in state, whose comment is only taken over when
\* state has one.
Refreshed ==
  IF state = NoState THEN NoState
  ELSE IF ~Exists(state.name) THEN NoState
  ELSE [state EXCEPT !.owner = schemas[state.name].owner,
                     !.comment = IF @ = NoComment THEN NoComment
                                 ELSE schemas[state.name].comment]

Refresh ==
  /\ pc = "idle"
  /\ \/ /\ state' = Refreshed
        /\ LET step == Planned(Refreshed) IN
             IF step = "none" THEN End("ok")
             ELSE /\ pc' = step /\ prior' = Refreshed
                  /\ UNCHANGED <<ctxDone, result>>
        /\ UNCHANGED faults
     \/ /\ state # NoState /\ "refresh" \in FailingSteps /\ faults < MaxFaults
        /\ faults' = faults + 1 /\ End("failed") /\ UNCHANGED state
  /\ touched' = FALSE
  /\ UNCHANGED <<schemas, config, reported, dba, edits, outside>>

-----------------------------------------------------------------------------
\* Create: CREATE SCHEMA.
Create ==
  /\ pc = "create"
  /\ Execute(~Exists(config.name),
             [schemas EXCEPT ![config.name] =
                [owner |-> Creator, comment |-> NoComment, made |-> TRUE,
                 filled |-> FALSE, written |-> FALSE]],
             Goto(AfterName(NoState)) /\ UNCHANGED state,
             End("failed"))
  /\ UNCHANGED <<config, reported, touched, dba, edits, outside>>

\* Mutant of Rename: without keepRenameInState.
RenameNotKept ==
  /\ pc = "rename"
  /\ Execute(MayAlter(prior.name) /\ ~Exists(config.name),
             [schemas EXCEPT ![config.name] = schemas[prior.name], ![prior.name] = NoSchema],
             Goto(AfterName(prior)) /\ UNCHANGED state,
             End("failed"))
  /\ UNCHANGED <<config, reported, touched, dba, edits, outside>>

\* Update: RENAME SCHEMA, after which keepRenameInState changes state.
Rename ==
  /\ pc = "rename"
  /\ Execute(MayAlter(prior.name) /\ ~Exists(config.name),
             [schemas EXCEPT ![config.name] = schemas[prior.name], ![prior.name] = NoSchema],
             Goto(AfterName(prior)) /\ state' = [state EXCEPT !.name = config.name],
             End("failed"))
  /\ UNCHANGED <<config, reported, touched, dba, edits, outside>>

\* Mutant of SetComment: the owner has been changed before it.
SetCommentLast ==
  /\ pc = "comment"
  /\ Execute(MayAlter(config.name) /\ (dba \/ config.owner \in {Unset, Creator}),
             [schemas EXCEPT ![config.name].comment = config.comment,
                             ![config.name].written = config.comment # NoComment],
             Goto(AfterComment(prior)) /\ UNCHANGED state,
             Failed)
  /\ UNCHANGED <<config, reported, touched, dba, edits, outside>>

\* Mutant of SetComment: the owner is only set when the comment is not.
SetCommentOnly ==
  /\ pc = "comment"
  /\ Execute(MayAlter(config.name),
             [schemas EXCEPT ![config.name].comment = config.comment,
                             ![config.name].written = config.comment # NoComment],
             Goto("readback") /\ UNCHANGED state,
             Failed)
  /\ UNCHANGED <<config, reported, touched, dba, edits, outside>>

\* COMMENT ON SCHEMA, in Create and Update.
SetComment ==
  /\ pc = "comment"
  /\ Execute(MayAlter(config.name),
             [schemas EXCEPT ![config.name].comment = config.comment,
                             ![config.name].written = config.comment # NoComment],
             Goto(AfterComment(prior)) /\ UNCHANGED state,
             Failed)
  /\ UNCHANGED <<config, reported, touched, dba, edits, outside>>

\* ALTER SCHEMA CHANGE OWNER.
ChangeOwner ==
  /\ pc = "owner"
  /\ Execute(MayAlter(config.name) /\ config.owner \notin Missing,
             [schemas EXCEPT ![config.name].owner = config.owner],
             Goto("readback") /\ UNCHANGED state,
             Failed)
  /\ UNCHANGED <<config, reported, touched, dba, edits, outside>>

\* Mutant of Undo: DROP SCHEMA CASCADE.
UndoCascade ==
  LET possible == MayAlter(config.name)
      report == reported' = reported \cup {n \in {config.name} : Exists(n)} IN
  /\ pc = "undo"
  /\ \/ /\ possible
        /\ schemas' = [schemas EXCEPT ![config.name] = NoSchema]
        /\ UNCHANGED <<reported, faults>>
     \/ ~possible /\ report /\ UNCHANGED <<schemas, faults>>
     \/ /\ possible /\ "undo" \in FailingSteps /\ faults < MaxFaults
        /\ report /\ faults' = faults + 1 /\ UNCHANGED schemas
  /\ End("failed")
  /\ UNCHANGED <<state, config, touched, dba, edits, outside>>

\* DROP SCHEMA without CASCADE, in a context of its own. When it fails, the error
\* asks to drop or import the schema.
Undo ==
  LET possible == MayAlter(config.name) /\ ~schemas[config.name].filled
      report == reported' = reported \cup {n \in {config.name} : Exists(n)} IN
  /\ pc = "undo"
  /\ \/ /\ possible
        /\ schemas' = [schemas EXCEPT ![config.name] = NoSchema]
        /\ UNCHANGED <<reported, faults>>
     \/ ~possible /\ report /\ UNCHANGED <<schemas, faults>>
     \/ /\ possible /\ "undo" \in FailingSteps /\ faults < MaxFaults
        /\ report /\ faults' = faults + 1 /\ UNCHANGED schemas
  /\ End("failed")
  /\ UNCHANGED <<state, config, touched, dba, edits, outside>>

\* Mutant of ReadBack: state takes the owner from the plan.
ReadBackPlanned ==
  /\ pc = "readback"
  /\ Execute(Exists(config.name), schemas,
             /\ state' = [name |-> config.name, owner |-> config.owner,
                          comment |-> config.comment]
             /\ End("ok"),
             End("failed"))
  /\ UNCHANGED <<config, reported, touched, dba, edits, outside>>

\* The owner is read back, and only then state takes over the plan.
ReadBack ==
  /\ pc = "readback"
  /\ Execute(Exists(config.name), schemas,
             /\ state' = [name |-> config.name, owner |-> schemas[config.name].owner,
                          comment |-> config.comment]
             /\ End("ok"),
             End("failed"))
  /\ UNCHANGED <<config, reported, touched, dba, edits, outside>>

\* DROP SCHEMA CASCADE.
Delete ==
  /\ pc = "delete"
  /\ Execute(MayAlter(prior.name), [schemas EXCEPT ![prior.name] = NoSchema],
             state' = NoState /\ End("ok"), End("failed"))
  /\ UNCHANGED <<config, reported, touched, dba, edits, outside>>

-----------------------------------------------------------------------------
\* Terraform is interrupted.
Cancel ==
  /\ Step \in FailingSteps /\ ~ctxDone /\ faults < MaxFaults
  /\ ctxDone' = TRUE /\ faults' = faults + 1
  /\ UNCHANGED <<schemas, state, config, pc, prior, result, reported, touched, dba, edits, outside>>

\* The configuration is edited between two applies.
Edit ==
  /\ pc = "idle" /\ edits < MaxEdits
  /\ config' \in (Configs \cup {NoConfig}) \ {config} /\ edits' = edits + 1
  /\ result' = "none"
  /\ UNCHANGED <<schemas, state, pc, prior, ctxDone, reported, touched, dba, faults, outside>>

\* A schema is imported: its name, and what Read fills in.
ImportState ==
  /\ pc = "idle" /\ edits < MaxEdits /\ state = NoState /\ config # NoConfig
  /\ \E n \in Names :
       /\ Exists(n)
       /\ state' = [name |-> n, owner |-> schemas[n].owner, comment |-> NoComment]
       /\ reported' = reported \ {n}
  /\ edits' = edits + 1 /\ result' = "none"
  /\ UNCHANGED <<schemas, config, pc, prior, ctxDone, touched, dba, faults, outside>>

\* Another session drops a schema, creates one, or creates objects in one.
Outside ==
  /\ outside < MaxOutside /\ outside' = outside + 1
  /\ \E n \in Names :
       \/ /\ Exists(n)
          /\ schemas' = [schemas EXCEPT ![n] = NoSchema]
          /\ reported' = reported \ {n} /\ touched' = TRUE
       \/ /\ ~Exists(n)
          /\ schemas' = [schemas EXCEPT ![n] = [owner |-> Creator, comment |-> NoComment,
               made |-> FALSE, filled |-> FALSE, written |-> FALSE]]
          /\ touched' = TRUE /\ UNCHANGED reported
       \/ /\ Exists(n) /\ ~schemas[n].filled
          /\ schemas' = [schemas EXCEPT ![n].filled = TRUE]
          /\ UNCHANGED <<reported, touched>>
  /\ UNCHANGED <<state, config, run, dba, faults, edits>>

Handler ==
  Refresh \/ Create \/ Rename \/ SetComment \/ ChangeOwner \/ Undo \/ ReadBack \/ Delete

Next == Handler \/ Cancel \/ Edit \/ ImportState \/ Outside

\* The user applies again until it works; a handler that began goes on.
Spec == Init /\ [][Next]_vars /\ WF_vars(Handler)

-----------------------------------------------------------------------------
\* Types; after every apply state knows the owner, also when the configuration has
\* none (schema_resource.go:196 and 339), and a handler runs on a planned name.
TypeOK ==
  /\ schemas \in [Names -> Schemas \cup {NoSchema}]
  /\ state \in States \cup {NoState} /\ prior \in States \cup {NoState}
  /\ config \in Configs \cup {NoConfig}
  /\ pc \in {"idle", "create", "rename", "comment", "owner", "undo", "readback", "delete"}
  /\ {ctxDone, touched, dba} \subseteq BOOLEAN
  /\ result \in {"none", "ok", "failed"}
  /\ reported \subseteq {n \in Names : Exists(n)}
  /\ faults \in 0..MaxFaults /\ edits \in 0..MaxEdits /\ outside \in 0..MaxOutside
  /\ pc \notin {"idle", "delete"} => config # NoConfig

Tracked(n) == state # NoState /\ state.name = n

\* schema_resource.go:174-176 and helpers.go:245-247: between two applies no
\* schema that this resource made is outside state, under its old or new name,
\* unless the error of a failed Create asked to drop or import it.
OrphansReported ==
  pc = "idle" => \A n \in Names :
    Exists(n) /\ schemas[n].made => Tracked(n) \/ n \in reported

\* schema_resource.go:176: the handlers lose the objects of a schema in Delete
\* only. Create takes back no schema that somebody has begun to use, and a rename
\* takes the objects along.
FilledKept ==
  [][\A n \in Names :
       Exists(n) /\ schemas[n].filled /\ UNCHANGED outside =>
         \/ Exists(n)' /\ schemas'[n].filled
         \/ pc = "delete" /\ n = prior.name
         \/ pc = "rename" /\ n = prior.name /\ schemas'[config.name] = schemas[n]]_vars

\* An apply that ends well leaves the schema as it is configured, also after
\* applies that failed half way (the point of keepRenameInState and of reading the
\* owner back), unless another session dropped or created one during it.
SuccessMeansConfigured ==
  pc = "idle" /\ result = "ok" /\ ~touched =>
    IF config = NoConfig THEN state = NoState
    ELSE /\ Tracked(config.name) /\ Exists(config.name)
         /\ config.owner \in {Unset, schemas[config.name].owner}
         /\ config.comment \in {NoComment, schemas[config.name].comment}

\* docs/resources/schema.md:37, "Removing the attribute clears the comment": a
\* comment that this resource wrote is gone after an apply that ends well without
\* one.
RemovedCommentCleared ==
  pc = "idle" /\ result = "ok" /\ ~touched /\ config # NoConfig /\ config.comment = NoComment
    => ~schemas[config.name].written

\* What only somebody else can clear away: the configured owner does not exist, the
\* name belongs to a schema of others or to one that was reported, or the
\* provider's user has given its schema to another owner.
Blocked ==
  \/ /\ config # NoConfig
     /\ \/ config.owner \in Missing
        \/ /\ Exists(config.name) /\ ~Tracked(config.name)
           /\ config.name \in reported \/ ~schemas[config.name].made
  \/ state # NoState /\ Exists(state.name) /\ ~MayAlter(state.name)

\* The point of schema_resource.go:109-110, 174-176 and helpers.go:245-247: when
\* failures, edits and other sessions have stopped, applying again succeeds.
Converges ==
  <>[](Blocked \/ pc # "idle" \/ result = "ok") /\ []<>(pc = "idle")
=============================================================================
