----------------------- MODULE SchemaLifecycleProofs -----------------------
(* TypeOK, SuccessMeansConfigured and FilledKept for any names, owners, comments,
   failing steps and number of faults, edits and acts of other sessions, and
   OrphansReported where the provider can learn of what it did: the owner is read
   back after CREATE, and a CREATE or RENAME that takes effect is answered. *)
EXTENDS SchemaLifecycle, TLAPS

\* Create after its CREATE SCHEMA.
Creating == pc \in {"comment", "owner", "readback", "undo"} /\ prior = NoState

\* What each step was chosen for, and which schema it is about.
HandlerInv ==
  /\ pc \in {"idle", "create", "undo"} => prior = NoState
  /\ pc \in {"rename", "delete"} => prior # NoState
  /\ pc = "delete" => config = NoConfig
  /\ pc = "rename" => config.name # prior.name
  /\ pc = "owner" => config.owner # Unset
  /\ pc # "idle" => (state = NoState <=> prior = NoState)
  /\ pc \in {"rename", "delete"} => state.name = prior.name
  /\ pc \in {"comment", "owner", "readback"} /\ prior # NoState => state.name = config.name

\* Whatever was reported is outside state, and neither made nor renamed since.
ReportInv ==
  /\ state # NoState => state.name \notin reported
  /\ Creating => config.name \notin reported

Owned(n, owner) == schemas[n].owner = owner

Commented(n, comment) == comment \in {NoComment, schemas[n].comment}

\* What the handler has brought about so far, or found as it should be.
ConfiguredInv ==
  ~touched =>
    /\ pc = "rename" => Exists(prior.name) /\ Owned(prior.name, prior.owner)
                        /\ Commented(prior.name, prior.comment)
    /\ pc = "comment" => Exists(config.name)
                         /\ (prior # NoState => Owned(config.name, prior.owner))
    /\ pc \in {"owner", "readback"} => Exists(config.name)
                                       /\ Commented(config.name, config.comment)
    /\ pc = "readback" => config.owner = Unset \/ Owned(config.name, config.owner)

LifeInv ==
  TypeOK /\ HandlerInv /\ ReportInv /\ ConfiguredInv /\ SuccessMeansConfigured

\* The query that reads the owner back after CREATE is answered.
ReadBackAnswers == "readback created" \notin FailingSteps

\* So is a CREATE or RENAME that takes effect.
ChangesAnswered == {"create", "rename"} \cap UnclearSteps = {}

\* At every step, a schema of this resource is in state, reported, or about to be
\* either.
OrphanInv ==
  /\ \A n \in Names : Exists(n) /\ schemas[n].made =>
       Tracked(n) \/ n \in reported \/ (Creating /\ n = config.name)
  /\ pc = "readback" /\ prior = NoState => ~ctxDone

-----------------------------------------------------------------------------
\* The counters stay within their bounds.
LEMMA CounterTypes ==
  ASSUME TypeOK
  PROVE  /\ faults < MaxFaults => faults + 1 \in 0..MaxFaults
         /\ edits < MaxEdits => edits + 1 \in 0..MaxEdits
         /\ outside < MaxOutside => outside + 1 \in 0..MaxOutside
<1>1. MaxFaults \in Nat /\ MaxEdits \in Nat /\ MaxOutside \in Nat
  BY SchemaAssumption
<1>2. faults \in 0..MaxFaults /\ edits \in 0..MaxEdits /\ outside \in 0..MaxOutside
  BY DEF TypeOK
<1> QED
  BY <1>1, <1>2

\* Configurations and states have the fields of a schema.
LEMMA FieldTypes ==
  ASSUME TypeOK
  PROVE  /\ config # NoConfig =>
              /\ config \in Configs /\ config.name \in Names
              /\ config.owner \in Owners \cup {Unset}
              /\ config.comment \in Comments \cup {NoComment}
         /\ state # NoState => state \in States /\ state.name \in Names
         /\ prior # NoState => prior \in States /\ prior.name \in Names
         /\ \A n \in Names : Exists(n) => schemas[n] \in Schemas
BY DEF TypeOK, Configs, States, Exists

\* The new schema of Create.
Fresh == [owner |-> Creator, comment |-> NoComment, made |-> TRUE,
          filled |-> FALSE, written |-> FALSE]

\* What no statement of a handler touches.
Rest ==
  /\ UNCHANGED <<config, touched, dba, edits, outside>>
  /\ faults' \in 0..MaxFaults

\* What each statement does to the database.
Created == schemas' = [schemas EXCEPT ![config.name] = Fresh]
Renamed == schemas' = [schemas EXCEPT ![config.name] = schemas[prior.name],
                                      ![prior.name] = NoSchema]
Annotated ==
  schemas' = [schemas EXCEPT ![config.name].comment = config.comment,
                             ![config.name].written = config.comment # NoComment]
Given == schemas' = [schemas EXCEPT ![config.name].owner = config.owner]
Dropped(n) == schemas' = [schemas EXCEPT ![n] = NoSchema]

LEMMA CreateFacts ==
  ASSUME TypeOK, Create
  PROVE  /\ pc = "create" /\ Rest /\ reported' = reported /\ state' = state
         /\ \/ ~ctxDone /\ ~Exists(config.name) /\ Created /\ Goto(AfterName(NoState))
            \/ End("failed") /\ schemas' = schemas
            \/ End("failed") /\ "create" \in UnclearSteps /\ ~Exists(config.name) /\ Created
BY CounterTypes DEF Create, Execute, Rest, Created, Fresh, TypeOK

LEMMA RenameFacts ==
  ASSUME TypeOK, Rename
  PROVE  /\ pc = "rename" /\ Rest /\ reported' = reported
         /\ \/ /\ ~ctxDone /\ MayAlter(prior.name) /\ ~Exists(config.name) /\ Renamed
               /\ Goto(AfterName(prior)) /\ state' = [state EXCEPT !.name = config.name]
            \/ End("failed") /\ schemas' = schemas /\ state' = state
            \/ /\ End("failed") /\ "rename" \in UnclearSteps /\ state' = state
               /\ MayAlter(prior.name) /\ ~Exists(config.name) /\ Renamed
BY CounterTypes DEF Rename, Execute, Rest, Renamed, TypeOK

LEMMA CommentFacts ==
  ASSUME TypeOK, SetComment
  PROVE  /\ pc = "comment" /\ Rest /\ reported' = reported /\ state' = state
         /\ \/ ~ctxDone /\ MayAlter(config.name) /\ Annotated /\ Goto(AfterComment(prior))
            \/ Failed /\ schemas' = schemas
            \/ Failed /\ MayAlter(config.name) /\ Annotated
BY CounterTypes DEF SetComment, Execute, Rest, Annotated, TypeOK

LEMMA OwnerFacts ==
  ASSUME TypeOK, ChangeOwner
  PROVE  /\ pc = "owner" /\ Rest /\ reported' = reported /\ state' = state
         /\ \/ ~ctxDone /\ MayAlter(config.name) /\ Given /\ Goto("readback")
            \/ Failed /\ schemas' = schemas
            \/ Failed /\ MayAlter(config.name) /\ Given
BY CounterTypes DEF ChangeOwner, Execute, Rest, Given, TypeOK

LEMMA UndoFacts ==
  ASSUME TypeOK, Undo
  PROVE  /\ pc = "undo" /\ Rest /\ state' = state /\ End("failed")
         /\ \/ /\ MayAlter(config.name) /\ ~schemas[config.name].filled
               /\ Dropped(config.name) /\ reported' = reported
            \/ /\ schemas' = schemas
               /\ reported' = reported \cup {n \in {config.name} : Exists(n)}
BY CounterTypes DEF Undo, Rest, Dropped, TypeOK

\* The read-back of the owner: it succeeds, or the schema is gone, the apply cancelled
\* or the query failed.
LEMMA ReadBackFacts ==
  ASSUME TypeOK, ReadBack
  PROVE  /\ pc = "readback" /\ Rest /\ reported' = reported /\ schemas' = schemas
         /\ \/ /\ Exists(config.name) /\ End("ok")
               /\ state' = [name |-> config.name, owner |-> schemas[config.name].owner,
                            comment |-> config.comment]
            \/ /\ End("failed") /\ state' = state
               /\ ctxDone \/ ~Exists(config.name) \/ Step \in FailingSteps
BY CounterTypes DEF ReadBack, Execute, Rest, TypeOK

LEMMA DeleteFacts ==
  ASSUME TypeOK, Delete
  PROVE  /\ pc = "delete" /\ Rest /\ reported' = reported
         /\ \/ Exists(prior.name) /\ Dropped(prior.name) /\ state' = NoState /\ End("ok")
            \/ End("failed") /\ state' = state /\ schemas' = schemas
            \/ End("failed") /\ state' = state /\ Exists(prior.name) /\ Dropped(prior.name)
BY CounterTypes DEF Delete, Execute, Rest, Dropped, MayAlter, TypeOK

\* Refresh plans from the row of the schema in state.
LEMMA RefreshFacts ==
  ASSUME TypeOK, Refresh
  PROVE  /\ pc = "idle" /\ touched' = FALSE /\ faults' \in 0..MaxFaults
         /\ UNCHANGED <<schemas, config, reported, dba, edits, outside>>
         /\ \/ Planned(Refreshed) = "none" /\ state' = Refreshed /\ End("ok")
            \/ /\ Planned(Refreshed) # "none" /\ state' = Refreshed
               /\ pc' = Planned(Refreshed) /\ prior' = Refreshed /\ UNCHANGED <<ctxDone, result>>
            \/ End("failed") /\ state' = state
BY CounterTypes DEF Refresh, TypeOK

LEMMA RefreshedFacts ==
  ASSUME TypeOK
  PROVE  /\ Refreshed \in States \cup {NoState}
         /\ Refreshed # NoState =>
              /\ state # NoState /\ Refreshed.name = state.name /\ Exists(state.name)
              /\ Owned(state.name, Refreshed.owner)
              /\ Commented(state.name, Refreshed.comment)
         /\ Refreshed = NoState => state = NoState \/ ~Exists(state.name)
<1>1. CASE state = NoState \/ ~Exists(state.name)
  BY <1>1 DEF Refreshed
<1>2. CASE state # NoState /\ Exists(state.name)
  <2>1. state \in States /\ schemas[state.name] \in Schemas
    BY <1>2, FieldTypes
  <2>2. Refreshed = [name |-> state.name, owner |-> schemas[state.name].owner,
                     comment |-> IF state.comment = NoComment THEN NoComment
                                 ELSE schemas[state.name].comment]
    BY <1>2, <2>1 DEF Refreshed, States
  <2>3. Refreshed \in States
    BY <2>1, <2>2 DEF States, Schemas
  <2>4. Refreshed # NoState
    BY <2>3, SchemaAssumption
  <2> QED
    BY <1>2, <2>2, <2>3, <2>4 DEF Owned, Commented
<1> QED
  BY <1>1, <1>2

\* Where the planned step and the next ones lead.
LEMMA NextSteps ==
  /\ \A s : AfterComment(s) \in {"owner", "readback"}
  /\ \A s : AfterName(s) \in {"comment", "owner", "readback"}
  /\ \A s : Planned(s) \in {"none", "create", "delete", "rename", "comment", "owner"}
  /\ \A s : AfterComment(s) = "owner" => config.owner # Unset
  /\ \A s : AfterName(s) = "owner" => config.owner # Unset
  /\ \A s : Planned(s) = "owner" => config.owner # Unset
  /\ \A s : Planned(s) \in {"create", "rename", "comment", "owner"} => config # NoConfig
  /\ \A s : Planned(s) = "create" => s = NoState
  /\ \A s : Planned(s) \in {"rename", "comment", "owner", "delete"} => s # NoState
  /\ \A s : Planned(s) = "delete" => config = NoConfig
  /\ \A s : Planned(s) = "rename" => config.name # s.name
  /\ \A s : Planned(s) \in {"comment", "owner"} => config.name = s.name
BY DEF AfterComment, AfterName, Planned

-----------------------------------------------------------------------------
Statement == Create \/ Rename \/ SetComment \/ ChangeOwner \/ Undo \/ ReadBack \/ Delete

\* A schema that another session creates.
Theirs == [owner |-> Creator, comment |-> NoComment, made |-> FALSE,
           filled |-> FALSE, written |-> FALSE]

LEMMA SchemaTypes ==
  /\ Fresh \in Schemas /\ Theirs \in Schemas
  /\ NoSchema \notin Schemas
BY SchemaAssumption DEF Fresh, Theirs, Schemas

\* COMMENT and CHANGE OWNER change one field of one schema.
LEMMA AnnotatedFacts ==
  ASSUME TypeOK, config # NoConfig, Exists(config.name), Annotated
  PROVE  /\ schemas' \in [Names -> Schemas \cup {NoSchema}]
         /\ \A n \in Names \ {config.name} : schemas'[n] = schemas[n]
         /\ schemas'[config.name] \in Schemas
         /\ schemas'[config.name].owner = schemas[config.name].owner
         /\ schemas'[config.name].made = schemas[config.name].made
         /\ schemas'[config.name].filled = schemas[config.name].filled
         /\ schemas'[config.name].comment = config.comment
<1> DEFINE s == schemas[config.name]
           changed == [s EXCEPT !.comment = config.comment, !.written = config.comment # NoComment]
<1>1. config.name \in Names /\ config.comment \in Comments \cup {NoComment} /\ s \in Schemas
  BY FieldTypes
<1>2. /\ changed \in Schemas
      /\ changed.owner = s.owner /\ changed.made = s.made /\ changed.filled = s.filled
      /\ changed.comment = config.comment
  BY <1>1 DEF Schemas
<1>3. schemas \in [Names -> Schemas \cup {NoSchema}]
  BY DEF TypeOK
<1>4. schemas' = [schemas EXCEPT ![config.name] = changed]
  BY <1>1, <1>3 DEF Annotated
<1> HIDE DEF changed
<1> QED
  BY <1>1, <1>2, <1>3, <1>4

LEMMA GivenFacts ==
  ASSUME TypeOK, config # NoConfig, config.owner # Unset, Exists(config.name), Given
  PROVE  /\ schemas' \in [Names -> Schemas \cup {NoSchema}]
         /\ \A n \in Names \ {config.name} : schemas'[n] = schemas[n]
         /\ schemas'[config.name] \in Schemas
         /\ schemas'[config.name].owner = config.owner
         /\ schemas'[config.name].made = schemas[config.name].made
         /\ schemas'[config.name].filled = schemas[config.name].filled
         /\ schemas'[config.name].comment = schemas[config.name].comment
<1> DEFINE s == schemas[config.name]
           changed == [s EXCEPT !.owner = config.owner]
<1>1. config.name \in Names /\ config.owner \in Owners /\ s \in Schemas
  BY FieldTypes
<1>2. /\ changed \in Schemas
      /\ changed.owner = config.owner /\ changed.made = s.made /\ changed.filled = s.filled
      /\ changed.comment = s.comment
  BY <1>1 DEF Schemas
<1>3. schemas \in [Names -> Schemas \cup {NoSchema}]
  BY DEF TypeOK
<1>4. schemas' = [schemas EXCEPT ![config.name] = changed]
  BY <1>1, <1>3 DEF Given
<1> HIDE DEF changed
<1> QED
  BY <1>1, <1>2, <1>3, <1>4

\* What another session does to a schema.
LEMMA OutsideFacts ==
  ASSUME TypeOK, Outside
  PROVE  /\ outside' \in 0..MaxOutside /\ outside' # outside
         /\ UNCHANGED <<state, config, pc, prior, ctxDone, result, dba, faults, edits>>
         /\ touched' = TRUE \/ touched' = touched
         /\ \E n \in Names :
              /\ schemas' \in [Names -> Schemas \cup {NoSchema}]
              /\ \A m \in Names \ {n} : schemas'[m] = schemas[m]
              /\ \/ schemas'[n] = NoSchema /\ reported' = reported \ {n} /\ touched' = TRUE
                 \/ schemas'[n] = Theirs /\ reported' = reported /\ touched' = TRUE
                 \/ /\ Exists(n) /\ schemas'[n] \in Schemas /\ reported' = reported
                    /\ schemas'[n].made = schemas[n].made
                    /\ schemas'[n].owner = schemas[n].owner
                    /\ schemas'[n].comment = schemas[n].comment
<1>1. UNCHANGED <<state, config, pc, prior, ctxDone, result, dba, faults, edits>>
  BY DEF Outside, run
<1>2. outside < MaxOutside /\ outside' = outside + 1 /\ outside \in Nat
  BY DEF Outside, TypeOK
<1>3. outside' \in 0..MaxOutside /\ outside' # outside
  BY <1>2, CounterTypes
<1>4. PICK n \in Names :
        \/ /\ schemas' = [schemas EXCEPT ![n] = NoSchema]
           /\ reported' = reported \ {n} /\ touched' = TRUE
        \/ /\ schemas' = [schemas EXCEPT ![n] = Theirs]
           /\ reported' = reported /\ touched' = TRUE
        \/ /\ Exists(n) /\ schemas' = [schemas EXCEPT ![n].filled = TRUE]
           /\ reported' = reported /\ touched' = touched
  BY DEF Outside, Theirs
<1>5. schemas \in [Names -> Schemas \cup {NoSchema}]
  BY DEF TypeOK
<1>6. CASE Exists(n) /\ schemas' = [schemas EXCEPT ![n].filled = TRUE]
           /\ reported' = reported /\ touched' = touched
  <2> DEFINE changed == [schemas[n] EXCEPT !.filled = TRUE]
  <2>1. schemas[n] \in Schemas
    BY <1>6, FieldTypes
  <2>2. /\ changed \in Schemas /\ changed.made = schemas[n].made
        /\ changed.owner = schemas[n].owner /\ changed.comment = schemas[n].comment
    BY <2>1 DEF Schemas
  <2>3. schemas' = [schemas EXCEPT ![n] = changed]
    BY <1>5, <1>6
  <2> HIDE DEF changed
  <2>4. /\ schemas' \in [Names -> Schemas \cup {NoSchema}]
        /\ \A m \in Names \ {n} : schemas'[m] = schemas[m]
        /\ schemas'[n] = changed
    BY <1>5, <2>2, <2>3
  <2> QED
    BY <1>1, <1>3, <1>6, <2>2, <2>4
<1> QED
  BY <1>1, <1>3, <1>4, <1>5, <1>6, SchemaTypes

\* Statements keep the types of the database.
LEMMA SchemasTypes ==
  ASSUME TypeOK, HandlerInv, Statement
  PROVE  schemas' \in [Names -> Schemas \cup {NoSchema}]
<1>0. schemas \in [Names -> Schemas \cup {NoSchema}]
  BY DEF TypeOK
<1>1. CASE Create
  BY <1>0, <1>1, SchemaTypes, CreateFacts DEF Created
<1>2. CASE Rename
  <2>1. prior.name \in Names
    BY <1>2, RenameFacts, FieldTypes DEF HandlerInv
  <2> QED
    BY <1>0, <1>2, <2>1, RenameFacts DEF Renamed
<1>3. CASE SetComment
  BY <1>0, <1>3, CommentFacts, AnnotatedFacts DEF TypeOK, MayAlter
<1>4. CASE ChangeOwner
  BY <1>0, <1>4, OwnerFacts, GivenFacts DEF TypeOK, HandlerInv, MayAlter
<1>5. CASE Undo \/ ReadBack \/ Delete
  BY <1>0, <1>5, UndoFacts, ReadBackFacts, DeleteFacts DEF Dropped
<1> QED
  BY <1>1, <1>2, <1>3, <1>4, <1>5 DEF Statement

LEMMA HandlerStep ==
  ASSUME TypeOK, HandlerInv, [Next]_vars
  PROVE  HandlerInv'
<1> USE DEF HandlerInv, End, Goto
<1>1. CASE Refresh
  <2> DEFINE s == Refreshed
             step == Planned(s)
  <2>1. /\ step \in {"none", "create", "delete", "rename", "comment", "owner"}
        /\ step = "owner" => config.owner # Unset
        /\ step = "create" => s = NoState
        /\ step \in {"rename", "comment", "owner", "delete"} => s # NoState
        /\ step = "delete" => config = NoConfig
        /\ step = "rename" => config.name # s.name
        /\ step \in {"comment", "owner"} => config.name = s.name
    BY NextSteps
  <2>2. /\ config' = config
        /\ \/ pc' = "idle" /\ prior' = NoState
           \/ pc' = step /\ step # "none" /\ state' = s /\ prior' = s
    BY <1>1, RefreshFacts
  <2> HIDE DEF s, step
  <2> QED
    BY <2>1, <2>2
<1>2. CASE Create
  BY <1>2, CreateFacts, NextSteps DEF Rest
<1>3. CASE Rename
  <2> DEFINE moved == [state EXCEPT !.name = config.name]
  <2>1. state \in States /\ config.name \in Names /\ prior # NoState
    BY <1>3, RenameFacts, FieldTypes DEF TypeOK
  <2>2. moved \in States /\ moved.name = config.name
    BY <2>1 DEF States
  <2>3. moved # NoState
    BY <2>2, SchemaAssumption
  <2>4. config' = config /\ pc = "rename"
        /\ \/ End("failed")
           \/ state' = moved /\ prior' = prior /\ pc' = AfterName(prior)
    BY <1>3, RenameFacts DEF Rest
  <2> HIDE DEF moved
  <2> QED
    BY <2>1, <2>2, <2>3, <2>4, NextSteps
<1>4. CASE SetComment
  BY <1>4, CommentFacts, NextSteps DEF Rest, Failed
<1>5. CASE ChangeOwner
  BY <1>5, OwnerFacts, NextSteps DEF Rest, Failed
<1>6. CASE Undo \/ ReadBack \/ Delete
  BY <1>6, UndoFacts, ReadBackFacts, DeleteFacts DEF Rest
<1>7. CASE Cancel \/ Edit \/ ImportState \/ Outside \/ UNCHANGED vars
  BY <1>7 DEF Cancel, Edit, ImportState, Outside, vars, run
<1> QED
  BY <1>1, <1>2, <1>3, <1>4, <1>5, <1>6, <1>7 DEF Next, Handler

LEMMA ReportStep ==
  ASSUME TypeOK, HandlerInv, ReportInv, [Next]_vars
  PROVE  ReportInv'
<1> USE DEF ReportInv, Creating, End, Goto
<1>1. CASE Refresh
  <2>1. Planned(Refreshed) \notin {"create"} => Refreshed # NoState \/ Planned(Refreshed) = "none"
    BY NextSteps DEF Planned
  <2> QED
    BY <1>1, <2>1, RefreshFacts, RefreshedFacts, NextSteps
<1>2. CASE Create
  BY <1>2, CreateFacts, NextSteps, FieldTypes DEF Rest, TypeOK
<1>3. CASE Rename
  <2>1. config.name \in Names /\ prior # NoState /\ state \in States
    BY <1>3, RenameFacts, FieldTypes DEF HandlerInv, TypeOK
  <2>2. ~Exists(config.name) => config.name \notin reported
    BY DEF TypeOK
  <2>3. [state EXCEPT !.name = config.name].name = config.name
    BY <2>1 DEF States
  <2> QED
    BY <1>3, <2>1, <2>2, <2>3, RenameFacts, NextSteps DEF Rest
<1>4. CASE SetComment
  BY <1>4, CommentFacts, NextSteps DEF Rest, Failed
<1>5. CASE ChangeOwner
  BY <1>5, OwnerFacts, NextSteps DEF Rest, Failed
<1>6. CASE Undo
  <2>1. state' = NoState /\ pc' = "idle"
    BY <1>6, UndoFacts DEF HandlerInv
  <2> QED
    BY <2>1
<1>7. CASE ReadBack
  <2>1. config.name \notin reported
    BY <1>7, ReadBackFacts DEF HandlerInv
  <2>2. /\ pc' = "idle" /\ reported' = reported
        /\ \/ state' = state
           \/ state' = [name |-> config.name, owner |-> schemas[config.name].owner,
                        comment |-> config.comment]
    BY <1>7, ReadBackFacts
  <2>3. state' = state \/ state'.name = config.name
    BY <2>2
  <2> QED
    BY <2>1, <2>2, <2>3
<1>8. CASE Delete
  BY <1>8, DeleteFacts DEF Rest
<1>9. CASE Cancel \/ UNCHANGED vars
  BY <1>9 DEF Cancel, vars, run
<1>10. CASE Edit \/ ImportState
  BY <1>10 DEF Edit, ImportState
<1>11. CASE Outside
  BY <1>11 DEF Outside, run
<1> QED
  BY <1>1, <1>2, <1>3, <1>4, <1>5, <1>6, <1>7, <1>8, <1>9, <1>10, <1>11 DEF Next, Handler

\* What was reported exists.
LEMMA ReportedStep ==
  ASSUME TypeOK, HandlerInv, ReportInv, [Next]_vars
  PROVE  reported' \subseteq {n \in Names : Exists(n)'}
<1>0. reported \subseteq {n \in Names : Exists(n)}
  BY DEF TypeOK
<1>1. CASE schemas' = schemas /\ reported' \subseteq reported
  BY <1>0, <1>1 DEF Exists
<1>2. CASE Refresh \/ ReadBack \/ Cancel \/ Edit \/ ImportState \/ UNCHANGED vars
  BY <1>1, <1>2, RefreshFacts, ReadBackFacts DEF Cancel, Edit, ImportState, vars
<1>3. CASE Create
  <2>1. CASE Created
    BY <1>0, <1>3, <2>1, SchemaTypes, CreateFacts DEF Created, Exists, TypeOK
  <2> QED
    BY <1>1, <1>3, <2>1, CreateFacts
<1>4. CASE Rename
  <2>1. CASE MayAlter(prior.name) /\ Renamed
    <3>1. prior.name \notin reported /\ prior.name \in Names /\ config.name \in Names
      BY <1>4, RenameFacts, FieldTypes DEF HandlerInv, ReportInv, TypeOK
    <3>2. schemas[prior.name] # NoSchema /\ config.name # prior.name
      BY <1>4, <2>1, RenameFacts DEF MayAlter, Exists, HandlerInv
    <3>3. \A n \in Names : n # prior.name /\ Exists(n) => Exists(n)'
      BY <2>1, <3>1, <3>2 DEF Renamed, Exists, TypeOK
    <3> QED
      BY <1>0, <1>4, <3>1, <3>3, RenameFacts
  <2> QED
    BY <1>1, <1>4, <2>1, RenameFacts
<1>5. CASE SetComment \/ ChangeOwner
  <2>1. config # NoConfig /\ reported' = reported
    BY <1>5, CommentFacts, OwnerFacts DEF TypeOK
  <2>2. CASE schemas' = schemas
    BY <1>1, <2>1, <2>2
  <2>3. CASE MayAlter(config.name) /\ Annotated
    BY <1>0, <2>1, <2>3, AnnotatedFacts, SchemaTypes DEF Exists, MayAlter
  <2>4. CASE MayAlter(config.name) /\ Given /\ config.owner # Unset
    BY <1>0, <2>1, <2>4, GivenFacts, SchemaTypes DEF Exists, MayAlter
  <2> QED
    BY <1>5, <2>2, <2>3, <2>4, CommentFacts, OwnerFacts DEF HandlerInv
<1>6. CASE Undo
  <2>1. config.name \in Names /\ config.name \notin reported
    BY <1>6, UndoFacts, FieldTypes DEF TypeOK, HandlerInv, ReportInv, Creating
  <2> QED
    BY <1>0, <1>6, <2>1, UndoFacts DEF Dropped, Exists, TypeOK
<1>7. CASE Delete
  <2>1. prior.name \notin reported
    BY <1>7, DeleteFacts DEF HandlerInv, ReportInv
  <2> QED
    BY <1>0, <1>7, <2>1, DeleteFacts DEF Dropped, Exists, TypeOK
<1>8. CASE Outside
  BY <1>0, <1>8, OutsideFacts, SchemaTypes DEF Exists
<1> QED
  BY <1>2, <1>3, <1>4, <1>5, <1>6, <1>7, <1>8 DEF Next, Handler

LEMMA TypesStep ==
  ASSUME TypeOK, HandlerInv, ReportInv, [Next]_vars
  PROVE  TypeOK'
<1>0. reported' \subseteq {n \in Names : Exists(n)'}
  BY ReportedStep
<1> USE DEF End, Goto
<1>1. CASE Refresh
  <2>1. Planned(Refreshed) \in {"none", "create", "delete", "rename", "comment", "owner"}
        /\ (Planned(Refreshed) \in {"create", "rename", "comment", "owner"} => config # NoConfig)
    BY NextSteps
  <2> QED
    BY <1>0, <1>1, <2>1, RefreshFacts, RefreshedFacts DEF TypeOK
<1>2. CASE Statement
  <2>1. schemas' \in [Names -> Schemas \cup {NoSchema}]
    BY <1>2, SchemasTypes
  <2>2. /\ UNCHANGED <<config, touched, dba, edits, outside>> /\ faults' \in 0..MaxFaults
    BY <1>2, CreateFacts, RenameFacts, CommentFacts, OwnerFacts, UndoFacts, ReadBackFacts,
       DeleteFacts DEF Statement, Rest
  <2>3. /\ pc' \in {"idle", "comment", "owner", "undo", "readback"}
        /\ pc' # "idle" => config # NoConfig
        /\ prior' \in {prior, NoState} /\ result' \in {"none", "ok", "failed", result}
        /\ ctxDone' \in {ctxDone, FALSE}
    BY <1>2, CreateFacts, RenameFacts, CommentFacts, OwnerFacts, UndoFacts, ReadBackFacts,
       DeleteFacts, NextSteps DEF Statement, Failed, TypeOK
  <2>4. state' \in States \cup {NoState}
    <3>1. CASE state' \in {state, NoState}
      BY <3>1 DEF TypeOK
    <3>2. CASE Rename /\ state' = [state EXCEPT !.name = config.name]
      <4>1. state \in States /\ config.name \in Names
        BY <3>2, RenameFacts, FieldTypes DEF HandlerInv, TypeOK
      <4> QED
        BY <3>2, <4>1 DEF States
    <3>3. CASE ReadBack /\ Exists(config.name)
               /\ state' = [name |-> config.name, owner |-> schemas[config.name].owner,
                            comment |-> config.comment]
      <4>1. /\ config.name \in Names /\ config.comment \in Comments \cup {NoComment}
            /\ schemas[config.name] \in Schemas
        BY <3>3, ReadBackFacts, FieldTypes DEF TypeOK
      <4> QED
        BY <3>3, <4>1 DEF States, Schemas
    <3> QED
      BY <1>2, <3>1, <3>2, <3>3, CreateFacts, RenameFacts, CommentFacts, OwnerFacts, UndoFacts,
         ReadBackFacts, DeleteFacts DEF Statement
  <2> QED
    BY <1>0, <2>1, <2>2, <2>3, <2>4 DEF TypeOK
<1>3. CASE Cancel
  BY <1>0, <1>3, CounterTypes DEF Cancel, TypeOK
<1>4. CASE Edit
  BY <1>0, <1>4, CounterTypes DEF Edit, TypeOK
<1>5. CASE ImportState
  <2>1. state' \in States
    BY <1>5, FieldTypes DEF ImportState, States, Schemas
  <2> QED
    BY <1>0, <1>5, <2>1, CounterTypes DEF ImportState, TypeOK
<1>6. CASE Outside
  BY <1>0, <1>6, OutsideFacts DEF TypeOK
<1>7. CASE UNCHANGED vars
  BY <1>0, <1>7 DEF vars, run, counters, TypeOK
<1> QED
  BY <1>1, <1>2, <1>3, <1>4, <1>5, <1>6, <1>7 DEF Next, Handler, Statement

-----------------------------------------------------------------------------
\* What the next step finds, by what has been set so far.
LEMMA AfterCommentFacts ==
  ASSUME NEW s
  PROVE  AfterComment(s) = "readback" =>
           config.owner = Unset \/ (s # NoState /\ config.owner = s.owner)
BY DEF AfterComment

LEMMA AfterNameFacts ==
  ASSUME NEW s
  PROVE  /\ AfterName(s) # "comment" =>
              /\ config.comment = (IF s = NoState THEN NoComment ELSE s.comment)
              /\ AfterName(s) = AfterComment(s)
BY NextSteps DEF AfterName

LEMMA ConfiguredStep ==
  ASSUME TypeOK, HandlerInv, ReportInv, ConfiguredInv, [Next]_vars
  PROVE  ConfiguredInv'
<1> USE DEF End, Goto
<1>1. CASE pc' \in {"idle", "create", "undo", "delete"}
  BY <1>1 DEF ConfiguredInv
<1>2. CASE Refresh
  <2> DEFINE s == Refreshed
             step == Planned(s)
  <2>1. CASE pc' = step /\ step \in {"rename", "comment", "owner"} /\ prior' = s
    <3>1. /\ s # NoState /\ config # NoConfig
          /\ step \in {"comment", "owner"} => config.name = s.name /\ step = AfterName(s)
      BY <2>1, NextSteps DEF Planned
    <3>2. /\ s.name = state.name /\ Exists(s.name) /\ Owned(s.name, s.owner)
          /\ Commented(s.name, s.comment)
      BY <3>1, RefreshedFacts
    <3>3. step = "owner" => config.comment = s.comment
      BY <3>1, AfterNameFacts
    <3>4. schemas' = schemas /\ config' = config
      BY <1>2, RefreshFacts
    <3> HIDE DEF s, step
    <3> QED
      BY <2>1, <3>1, <3>2, <3>3, <3>4 DEF ConfiguredInv, Exists, Owned, Commented
  <2>2. pc' = "idle" \/ (pc' = step /\ step # "none" /\ prior' = s)
    BY <1>2, RefreshFacts
  <2>3. step \in {"none", "create", "delete", "rename", "comment", "owner"}
    BY NextSteps
  <2> HIDE DEF s, step
  <2> QED
    BY <1>1, <2>1, <2>2, <2>3
<1>3. CASE Create
  <2>1. CASE /\ ~Exists(config.name) /\ Created /\ Goto(AfterName(NoState))
             /\ UNCHANGED <<config, touched>>
    <3>1. config # NoConfig /\ config.name \in Names /\ prior = NoState
      BY <1>3, CreateFacts, FieldTypes DEF TypeOK, HandlerInv
    <3>2. schemas'[config.name] = Fresh /\ Fresh # NoSchema
      BY <2>1, <3>1, SchemaTypes DEF Created, TypeOK
    <3>3. /\ pc' # "comment" => config.comment = NoComment
          /\ pc' = "readback" => config.owner = Unset
          /\ pc' # "rename"
      BY <2>1, AfterNameFacts, AfterCommentFacts, NextSteps
    <3> QED
      BY <2>1, <3>1, <3>2, <3>3 DEF ConfiguredInv, Exists, Owned, Commented
  <2> QED
    BY <1>1, <1>3, <2>1, CreateFacts DEF Rest
<1>4. CASE Rename
  <2>1. CASE /\ MayAlter(prior.name) /\ ~Exists(config.name) /\ Renamed
             /\ Goto(AfterName(prior)) /\ UNCHANGED <<config, touched>>
    <3>1. /\ config # NoConfig /\ config.name \in Names
          /\ prior # NoState /\ prior.name \in Names /\ config.name # prior.name
      BY <1>4, RenameFacts, FieldTypes DEF TypeOK, HandlerInv
    <3>2. schemas'[config.name] = schemas[prior.name]
      BY <2>1, <3>1 DEF Renamed, TypeOK
    <3>3. /\ pc' # "comment" => config.comment = prior.comment
          /\ pc' = "readback" => config.owner = Unset \/ config.owner = prior.owner
          /\ pc' # "rename"
      BY <2>1, <3>1, AfterNameFacts, AfterCommentFacts, NextSteps
    <3>4. pc = "rename"
      BY <1>4, RenameFacts
    <3> QED
      BY <2>1, <3>1, <3>2, <3>3, <3>4 DEF ConfiguredInv, Exists, Owned, Commented
  <2> QED
    BY <1>1, <1>4, <2>1, RenameFacts DEF Rest
<1>5. CASE SetComment
  <2>1. CASE /\ MayAlter(config.name) /\ Annotated /\ Goto(AfterComment(prior))
             /\ UNCHANGED <<config, touched>>
    <3>1. config # NoConfig /\ pc = "comment"
      BY <1>5, CommentFacts DEF TypeOK
    <3>2. /\ schemas'[config.name] \in Schemas
          /\ schemas'[config.name].owner = schemas[config.name].owner
          /\ schemas'[config.name].comment = config.comment
      BY <2>1, <3>1, AnnotatedFacts DEF MayAlter
    <3>3. /\ pc' = "readback" =>
               config.owner = Unset \/ (prior # NoState /\ config.owner = prior.owner)
          /\ pc' \in {"owner", "readback"}
      BY <2>1, AfterCommentFacts, NextSteps
    <3> QED
      BY <2>1, <3>1, <3>2, <3>3, SchemaTypes DEF ConfiguredInv, Exists, Owned, Commented
  <2> QED
    BY <1>1, <1>5, <2>1, CommentFacts DEF Rest, Failed
<1>6. CASE ChangeOwner
  <2>1. CASE /\ MayAlter(config.name) /\ Given /\ Goto("readback")
             /\ UNCHANGED <<config, touched>>
    <3>1. config # NoConfig /\ config.owner # Unset /\ pc = "owner"
      BY <1>6, OwnerFacts DEF TypeOK, HandlerInv
    <3>2. /\ schemas'[config.name] \in Schemas
          /\ schemas'[config.name].owner = config.owner
          /\ schemas'[config.name].comment = schemas[config.name].comment
      BY <2>1, <3>1, GivenFacts DEF MayAlter
    <3> QED
      BY <2>1, <3>1, <3>2, SchemaTypes DEF ConfiguredInv, Exists, Owned, Commented
  <2> QED
    BY <1>1, <1>6, <2>1, OwnerFacts DEF Rest, Failed
<1>7. CASE Undo \/ ReadBack \/ Delete \/ Edit \/ ImportState
  BY <1>1, <1>7, UndoFacts, ReadBackFacts, DeleteFacts DEF Edit, ImportState
<1>8. CASE Cancel \/ UNCHANGED vars
  BY <1>8 DEF Cancel, vars, run, ConfiguredInv, Exists, Owned, Commented
<1>9. CASE Outside
  <2> SUFFICES ASSUME ~touched' PROVE ConfiguredInv'
    BY <1>9, OutsideFacts DEF ConfiguredInv
  <2>1. UNCHANGED <<config, pc, prior>>
    BY <1>9, OutsideFacts
  <2>2. ~touched
    <3>1. touched' = TRUE \/ touched' = touched
      BY <1>9, OutsideFacts
    <3> QED
      BY <3>1
  <2>3. \A n \in Names :
          Exists(n) => Exists(n)' /\ schemas'[n].owner = schemas[n].owner
                       /\ schemas'[n].comment = schemas[n].comment
    BY <1>9, OutsideFacts, SchemaTypes DEF Exists
  <2>4. /\ pc # "idle" /\ pc # "delete" => config.name \in Names
        /\ pc = "rename" => prior.name \in Names
    BY FieldTypes DEF TypeOK, HandlerInv
  <2> QED
    BY <2>1, <2>2, <2>3, <2>4 DEF ConfiguredInv, Owned, Commented
<1> QED
  BY <1>2, <1>3, <1>4, <1>5, <1>6, <1>7, <1>8, <1>9 DEF Next, Handler

LEMMA SuccessStep ==
  ASSUME TypeOK, HandlerInv, ReportInv, ConfiguredInv, SuccessMeansConfigured, [Next]_vars
  PROVE  SuccessMeansConfigured'
<1> USE DEF End, Goto
<1>1. CASE pc' # "idle" \/ result' # "ok"
  BY <1>1 DEF SuccessMeansConfigured
<1>2. CASE Refresh
  <2> DEFINE s == Refreshed
  <2>1. CASE Planned(s) = "none" /\ state' = s
    <3>1. UNCHANGED <<schemas, config>>
      BY <1>2, RefreshFacts
    <3>2. CASE s = NoState
      <4>1. config = NoConfig
        BY <2>1, <3>2 DEF Planned
      <4> QED
        BY <2>1, <3>1, <3>2, <4>1 DEF SuccessMeansConfigured
    <3>3. CASE s # NoState
      <4>1. /\ config # NoConfig /\ config.name = s.name
            /\ AfterName(s) = "readback"
        BY <2>1, <3>3, NextSteps DEF Planned
      <4>2. /\ s.name = state.name /\ Exists(s.name) /\ Owned(s.name, s.owner)
            /\ Commented(s.name, s.comment)
        BY <3>3, RefreshedFacts
      <4>3. config.comment = s.comment /\ (config.owner = Unset \/ config.owner = s.owner)
        BY <3>3, <4>1, AfterNameFacts, AfterCommentFacts
      <4> HIDE DEF s
      <4> QED
        BY <2>1, <3>1, <3>3, <4>1, <4>2, <4>3
           DEF SuccessMeansConfigured, Tracked, Exists, Owned, Commented
    <3> QED
      BY <3>2, <3>3
  <2>2. Planned(s) # "none" => pc' # "idle" \/ result' # "ok"
    BY <1>2, RefreshFacts, NextSteps
  <2> QED
    BY <1>1, <1>2, <2>1, <2>2, RefreshFacts
<1>3. CASE Create \/ Rename \/ SetComment \/ ChangeOwner \/ Undo
  <2>1. pc' # "idle" \/ result' # "ok"
    BY <1>3, CreateFacts, RenameFacts, CommentFacts, OwnerFacts, UndoFacts, NextSteps DEF Failed
  <2> QED
    BY <1>1, <2>1
<1>4. CASE ReadBack
  <2>1. CASE /\ Exists(config.name)
             /\ state' = [name |-> config.name, owner |-> schemas[config.name].owner,
                          comment |-> config.comment]
             /\ UNCHANGED <<schemas, config, touched>>
    <3>1. pc = "readback" /\ config # NoConfig /\ state' # NoState
      <4>1. pc = "readback" /\ config # NoConfig
        BY <1>4, ReadBackFacts DEF TypeOK
      <4>2. /\ config.name \in Names /\ config.comment \in Comments \cup {NoComment}
            /\ schemas[config.name] \in Schemas
        BY <2>1, <4>1, FieldTypes
      <4>3. state' \in States
        BY <2>1, <4>2 DEF States, Schemas
      <4> QED
        BY <4>1, <4>3, SchemaAssumption
    <3> QED
      BY <2>1, <3>1 DEF SuccessMeansConfigured, ConfiguredInv, Tracked, Exists, Owned, Commented
  <2> QED
    BY <1>1, <1>4, <2>1, ReadBackFacts DEF Rest
<1>5. CASE Delete
  <2>1. config = NoConfig /\ config' = config
    BY <1>5, DeleteFacts DEF HandlerInv, Rest
  <2> QED
    BY <1>1, <1>5, <2>1, DeleteFacts DEF SuccessMeansConfigured
<1>6. CASE Edit \/ ImportState
  BY <1>1, <1>6 DEF Edit, ImportState
<1>7. CASE Cancel \/ UNCHANGED vars
  BY <1>7 DEF Cancel, vars, run, SuccessMeansConfigured, Tracked, Exists
<1>8. CASE Outside
  <2> SUFFICES ASSUME ~touched' PROVE SuccessMeansConfigured'
    BY <1>8, OutsideFacts DEF SuccessMeansConfigured
  <2>1. UNCHANGED <<config, pc, result, state>>
    BY <1>8, OutsideFacts
  <2>2. ~touched
    <3>1. touched' = TRUE \/ touched' = touched
      BY <1>8, OutsideFacts
    <3> QED
      BY <3>1
  <2>3. \A n \in Names :
          Exists(n) => Exists(n)' /\ schemas'[n].owner = schemas[n].owner
                       /\ schemas'[n].comment = schemas[n].comment
    BY <1>8, OutsideFacts, SchemaTypes DEF Exists
  <2>4. config # NoConfig => config.name \in Names
    BY FieldTypes
  <2> QED
    BY <2>1, <2>2, <2>3, <2>4 DEF SuccessMeansConfigured, Tracked
<1> QED
  BY <1>2, <1>3, <1>4, <1>5, <1>6, <1>7, <1>8 DEF Next, Handler

-----------------------------------------------------------------------------
LEMMA LifeInit == Init => LifeInv
<1> SUFFICES ASSUME Init PROVE LifeInv
  OBVIOUS
<1>1. /\ MaxFaults \in Nat /\ MaxEdits \in Nat /\ MaxOutside \in Nat
  BY SchemaAssumption
<1>2. TypeOK
  <2>1. schemas \in [Names -> Schemas \cup {NoSchema}] /\ config \in Configs
    BY DEF Init
  <2>2. {ctxDone, touched, dba} \subseteq BOOLEAN
    BY SchemaAssumption DEF Init
  <2>3. faults \in 0..MaxFaults /\ edits \in 0..MaxEdits /\ outside \in 0..MaxOutside
    BY <1>1 DEF Init
  <2> QED
    BY <2>1, <2>2, <2>3 DEF Init, TypeOK
<1> QED
  BY <1>2
     DEF Init, LifeInv, HandlerInv, ReportInv, ConfiguredInv, SuccessMeansConfigured, Creating

\* LifeInv is inductive.
THEOREM LifeInvariant == Spec => []LifeInv
<1>1. LifeInv /\ [Next]_vars => LifeInv'
  BY TypesStep, HandlerStep, ReportStep, ConfiguredStep, SuccessStep DEF LifeInv
<1> QED
  BY LifeInit, <1>1, PTL DEF Spec

\* No step takes a variable out of its range; after every apply state knows the owner, and
\* what was reported exists.
THEOREM LifeTypes == Spec => []TypeOK
<1>1. LifeInv => TypeOK
  BY DEF LifeInv
<1> QED
  BY LifeInvariant, <1>1, PTL

\* An apply that ends well leaves the schema as it is configured, unless another session
\* dropped or created one during it: also when earlier applies failed half way.
THEOREM Configured == Spec => []SuccessMeansConfigured
<1>1. LifeInv => SuccessMeansConfigured
  BY DEF LifeInv
<1> QED
  BY LifeInvariant, <1>1, PTL

-----------------------------------------------------------------------------
\* Every step keeps each schema of this resource in state, reported or in the hands of
\* Create.
LEMMA OrphanStep ==
  ASSUME ReadBackAnswers, ChangesAnswered, LifeInv, OrphanInv, [Next]_vars
  PROVE  OrphanInv'
<1> USE DEF LifeInv, OrphanInv, Creating, End, Goto
<1>1. CASE Refresh
  <2>1. /\ pc = "idle" /\ UNCHANGED <<schemas, reported>>
        /\ \/ pc' = "idle" \/ (pc' = Planned(Refreshed) /\ prior' = Refreshed)
        /\ state' \in {Refreshed, state}
    BY <1>1, RefreshFacts
  <2>2. ~(pc' \in {"comment", "owner", "readback", "undo"} /\ prior' = NoState)
    BY <2>1, NextSteps
  <2>3. ASSUME NEW n \in Names, Exists(n), Tracked(n)
        PROVE  Tracked(n)'
    BY <2>1, <2>3, RefreshedFacts DEF Tracked
  <2> QED
    BY <2>1, <2>2, <2>3 DEF Exists
<1>2. CASE Create
  <2>1. /\ pc = "create" /\ prior = NoState /\ config' = config /\ state' = state
        /\ reported' = reported /\ config.name \in Names
    BY <1>2, CreateFacts, FieldTypes DEF Rest, TypeOK, HandlerInv
  <2>2. CASE ~ctxDone /\ Created /\ Goto(AfterName(NoState))
    <3>1. \A n \in Names \ {config.name} : schemas'[n] = schemas[n]
      BY <2>1, <2>2 DEF Created, TypeOK
    <3> QED
      BY <2>1, <2>2, <3>1, NextSteps DEF Exists, Tracked
  <2>3. CASE End("failed") /\ schemas' = schemas
    BY <2>1, <2>3 DEF Exists, Tracked
  <2> QED
    BY <1>2, <2>2, <2>3, CreateFacts DEF ChangesAnswered
<1>3. CASE Rename
  <2>1. /\ pc = "rename" /\ config' = config /\ reported' = reported
        /\ prior # NoState /\ state # NoState /\ state \in States
        /\ state.name = prior.name /\ prior.name \in Names
        /\ config.name \in Names /\ config.name # prior.name
    BY <1>3, RenameFacts, FieldTypes DEF Rest, TypeOK, HandlerInv
  <2>2. CASE Renamed /\ Goto(AfterName(prior)) /\ state' = [state EXCEPT !.name = config.name]
    <3>1. state' \in States /\ state'.name = config.name
      BY <2>1, <2>2 DEF States
    <3>2. Tracked(config.name)'
      BY <2>1, <3>1, SchemaAssumption DEF Tracked
    <3>3. /\ schemas'[prior.name] = NoSchema
          /\ \A n \in Names \ {config.name, prior.name} : schemas'[n] = schemas[n]
      BY <2>1, <2>2 DEF Renamed, TypeOK
    <3> QED
      BY <2>1, <2>2, <3>2, <3>3 DEF Exists, Tracked
  <2>3. CASE End("failed") /\ schemas' = schemas /\ state' = state
    BY <2>1, <2>3 DEF Exists, Tracked
  <2> QED
    BY <1>3, <2>2, <2>3, RenameFacts DEF ChangesAnswered
<1>4. CASE SetComment \/ ChangeOwner
  <2>1. /\ pc \in {"comment", "owner"} /\ config' = config /\ state' = state
        /\ reported' = reported /\ config # NoConfig /\ config.name \in Names
    BY <1>4, CommentFacts, OwnerFacts, FieldTypes DEF Rest, TypeOK
  <2>2. /\ \A n \in Names \ {config.name} : schemas'[n] = schemas[n]
        /\ Exists(config.name)' => Exists(config.name)
        /\ Exists(config.name)' => schemas'[config.name].made = schemas[config.name].made
    <3>1. CASE schemas' = schemas
      BY <2>1, <3>1 DEF Exists
    <3>2. CASE MayAlter(config.name) /\ Annotated
      BY <2>1, <3>2, AnnotatedFacts DEF MayAlter
    <3>3. CASE MayAlter(config.name) /\ config.owner # Unset /\ Given
      BY <2>1, <3>3, GivenFacts DEF MayAlter
    <3> QED
      BY <1>4, <3>1, <3>2, <3>3, CommentFacts, OwnerFacts DEF HandlerInv
  <2>3. \/ ~ctxDone /\ pc' \in {"owner", "readback"} /\ UNCHANGED <<prior, ctxDone>>
        \/ prior = NoState /\ pc' = "undo" /\ UNCHANGED <<prior, ctxDone>>
        \/ prior # NoState /\ pc' = "idle"
    BY <1>4, CommentFacts, OwnerFacts, NextSteps DEF Failed
  <2> QED
    BY <2>1, <2>2, <2>3 DEF Exists, Tracked
<1>5. CASE Undo
  <2>1. /\ pc = "undo" /\ prior = NoState /\ pc' = "idle" /\ UNCHANGED <<state, config>>
        /\ config.name \in Names /\ reported \subseteq reported'
    BY <1>5, UndoFacts, FieldTypes DEF Rest, TypeOK, HandlerInv
  <2>2. \/ Dropped(config.name)
        \/ schemas' = schemas /\ (Exists(config.name) => config.name \in reported')
    BY <1>5, UndoFacts
  <2>3. /\ \A n \in Names \ {config.name} : schemas'[n] = schemas[n]
        /\ Exists(config.name)' => config.name \in reported'
    BY <2>1, <2>2 DEF Dropped, Exists, TypeOK
  <2> QED
    BY <2>1, <2>3 DEF Exists, Tracked
<1>6. CASE ReadBack
  <2>1. /\ pc = "readback" /\ pc' = "idle" /\ UNCHANGED <<schemas, reported, config>>
        /\ config # NoConfig /\ config.name \in Names
        /\ prior # NoState => state # NoState /\ state.name = config.name
        /\ prior = NoState => state = NoState /\ ~ctxDone
    BY <1>6, ReadBackFacts, FieldTypes DEF Rest, TypeOK, HandlerInv
  <2>2. CASE /\ Exists(config.name)
             /\ state' = [name |-> config.name, owner |-> schemas[config.name].owner,
                          comment |-> config.comment]
    <3>1. config.comment \in Comments \cup {NoComment} /\ schemas[config.name] \in Schemas
      BY <2>1, <2>2, FieldTypes
    <3>2. state' \in States /\ state'.name = config.name
      BY <2>1, <2>2, <3>1 DEF States, Schemas
    <3>3. Tracked(config.name)'
      BY <2>1, <3>2, SchemaAssumption DEF Tracked
    <3> QED
      BY <2>1, <3>3 DEF Exists, Tracked
  <2>3. CASE state' = state /\ (ctxDone \/ ~Exists(config.name) \/ Step \in FailingSteps)
    <3>1. prior = NoState => ~Exists(config.name)
      BY <2>1, <2>3 DEF Step, ReadBackAnswers
    <3> QED
      BY <2>1, <2>3, <3>1 DEF Exists, Tracked
  <2> QED
    BY <1>6, <2>2, <2>3, ReadBackFacts
<1>7. CASE Delete
  <2>1. /\ pc = "delete" /\ pc' = "idle" /\ reported' = reported
        /\ state # NoState /\ prior # NoState /\ state.name = prior.name /\ prior.name \in Names
    BY <1>7, DeleteFacts, FieldTypes DEF HandlerInv
  <2>2. \/ Dropped(prior.name)
        \/ schemas' = schemas /\ state' = state
    BY <1>7, DeleteFacts
  <2> QED
    BY <2>1, <2>2 DEF Dropped, Exists, Tracked, TypeOK
<1>8. CASE Cancel
  <2>1. ~(pc = "readback" /\ prior = NoState)
    BY <1>8 DEF Cancel, Step, ReadBackAnswers
  <2> QED
    BY <1>8, <2>1 DEF Cancel, Exists, Tracked
<1>9. CASE Edit
  BY <1>9 DEF Edit, Exists, Tracked
<1>10. CASE ImportState
  <2>1. PICK n \in Names :
          /\ Exists(n) /\ reported' = reported \ {n}
          /\ state' = [name |-> n, owner |-> schemas[n].owner, comment |-> NoComment]
    BY <1>10 DEF ImportState
  <2>2. state' \in States /\ state'.name = n
    BY <2>1, FieldTypes DEF States, Schemas
  <2>3. Tracked(n)'
    BY <2>2, SchemaAssumption DEF Tracked
  <2>4. pc = "idle" /\ state = NoState /\ UNCHANGED <<schemas, pc>>
    BY <1>10 DEF ImportState
  <2> QED
    BY <2>1, <2>3, <2>4 DEF Exists, Tracked
<1>11. CASE Outside
  <2>1. UNCHANGED <<state, config, pc, prior, ctxDone>>
    BY <1>11, OutsideFacts
  <2>2. \A n \in Names :
          Exists(n)' /\ schemas'[n].made =>
            Exists(n) /\ schemas[n].made /\ (n \in reported => n \in reported')
    <3>1. Theirs.made = FALSE
      BY DEF Theirs
    <3> QED
      BY <1>11, <3>1, OutsideFacts DEF Exists
  <2> QED
    BY <2>1, <2>2 DEF Exists, Tracked
<1>12. CASE UNCHANGED vars
  BY <1>12 DEF vars, run, Exists, Tracked
<1> QED
  BY <1>1, <1>2, <1>3, <1>4, <1>5, <1>6, <1>7, <1>8, <1>9, <1>10, <1>11, <1>12 DEF Next, Handler

\* schema_resource.go:174-176 and helpers.go:245-247: between two applies no schema of
\* this resource is outside state without an error that named it, when the owner can be
\* read back after CREATE and no CREATE or RENAME takes effect unanswered.
THEOREM NoOrphans ==
  ReadBackAnswers /\ ChangesAnswered /\ Spec => []OrphansReported
<1> SUFFICES ASSUME ReadBackAnswers, ChangesAnswered PROVE Spec => []OrphansReported
  OBVIOUS
<1>1. Init => OrphanInv
  BY DEF Init, OrphanInv, Exists
<1>2. LifeInv /\ OrphanInv /\ [Next]_vars => OrphanInv'
  BY OrphanStep
<1>3. OrphanInv => OrphansReported
  BY DEF OrphanInv, OrphansReported, Creating
<1> QED
  BY <1>1, <1>2, <1>3, LifeInvariant, PTL DEF Spec

-----------------------------------------------------------------------------
\* One step keeps every schema that holds objects, where FilledKept says so.
LEMMA FilledStep ==
  ASSUME TypeOK, HandlerInv, [Next]_vars,
         NEW n \in Names, Exists(n), schemas[n].filled, UNCHANGED outside
  PROVE  \/ Exists(n)' /\ schemas'[n].filled
         \/ pc = "delete" /\ n = prior.name
         \/ pc = "rename" /\ n = prior.name /\ schemas'[config.name] = schemas[n]
<1>1. CASE schemas' = schemas
  BY <1>1 DEF Exists
<1>2. CASE Create
  BY <1>1, <1>2, CreateFacts DEF Created, Exists, TypeOK
<1>3. CASE Rename
  <2>1. CASE ~Exists(config.name) /\ Renamed
    <3>1. /\ pc = "rename" /\ prior.name \in Names /\ config.name \in Names
          /\ config.name # prior.name
      BY <1>3, RenameFacts, FieldTypes DEF TypeOK, HandlerInv
    <3>2. /\ schemas'[config.name] = schemas[prior.name]
          /\ \A m \in Names \ {config.name, prior.name} : schemas'[m] = schemas[m]
      BY <2>1, <3>1 DEF Renamed, TypeOK
    <3> QED
      BY <2>1, <3>1, <3>2 DEF Exists
  <2> QED
    BY <1>1, <1>3, <2>1, RenameFacts
<1>4. CASE SetComment \/ ChangeOwner
  <2>1. config # NoConfig
    BY <1>4, CommentFacts, OwnerFacts DEF TypeOK
  <2>2. CASE MayAlter(config.name) /\ Annotated
    BY <2>1, <2>2, AnnotatedFacts, SchemaTypes DEF MayAlter, Exists
  <2>3. CASE MayAlter(config.name) /\ config.owner # Unset /\ Given
    BY <2>1, <2>3, GivenFacts, SchemaTypes DEF MayAlter, Exists
  <2> QED
    BY <1>1, <1>4, <2>2, <2>3, CommentFacts, OwnerFacts DEF HandlerInv
<1>5. CASE Undo
  BY <1>1, <1>5, UndoFacts DEF Dropped, Exists, TypeOK
<1>6. CASE Delete
  BY <1>1, <1>6, DeleteFacts DEF Dropped, Exists, TypeOK
<1>7. CASE Outside
  BY <1>7, OutsideFacts
<1>8. CASE Refresh \/ ReadBack \/ Cancel \/ Edit \/ ImportState \/ UNCHANGED vars
  BY <1>1, <1>8, RefreshFacts, ReadBackFacts DEF Cancel, Edit, ImportState, vars
<1> QED
  BY <1>2, <1>3, <1>4, <1>5, <1>6, <1>7, <1>8 DEF Next, Handler

\* schema_resource.go:176: no handler but Delete loses the objects of a schema.
THEOREM ObjectsKept == Spec => FilledKept
<1> DEFINE kept == \A n \in Names :
       Exists(n) /\ schemas[n].filled /\ UNCHANGED outside =>
         \/ Exists(n)' /\ schemas'[n].filled
         \/ pc = "delete" /\ n = prior.name
         \/ pc = "rename" /\ n = prior.name /\ schemas'[config.name] = schemas[n]
<1>1. LifeInv /\ [Next]_vars => [kept]_vars
  BY FilledStep DEF LifeInv
<1>2. []LifeInv /\ [][Next]_vars => [][kept]_vars
  BY <1>1, PTL
<1>3. Spec => [][kept]_vars
  BY <1>2, LifeInvariant, PTL DEF Spec
<1> QED
  BY <1>3 DEF FilledKept
=============================================================================
