---------------------------- MODULE NamedObjects ----------------------------
(* Several exasol_user, exasol_role or exasol_connection resources over several
   applies: Create, Read, Update, Delete and ImportState of user_resource.go,
   role_resource.go and connection_resource.go. The resources share one space of
   names (users and roles do, connections do), where Exasol knows an object by its
   name alone, while the handlers of an apply run in any order.

   An object has something that a system view shows (how a user is authenticated,
   the user of a connection) and something that none does (a password). Names are
   in upper case, as id is. Each handler here is one resource's, so deleteMutex and
   the rename log play no part (RoleGrantApply has them). *)
EXTENDS Naturals

CONSTANTS
  Resources,
  KindChoices,     \* functions from Resources to "user", "role" or "connection"
  Names,
  Choices,         \* configurations of a resource of each kind
  ByPassword,      \* authentication of a user by its password
  Nothing,         \* an attribute that is not set
  Elsewhere,       \* the password, or none, that another session has left
  NoObject, NoState, NoConfig, NoResource,
  MaxEvents,       \* failures and steps of other sessions, together
  MaxEdits

Kinds == {"user", "role", "connection"}
Shown == {c.shown : c \in UNION {Choices[k] : k \in Kinds}} \cup {Nothing}
Hidden == {c.hidden : c \in UNION {Choices[k] : k \in Kinds}} \cup {Nothing}

\* A resource in configuration or state.
Values == [name : Names, shown : Shown, hidden : Hidden]

\* by: the resource that made or imported the object, or has its name in state.
Objects == [kind : Kinds, shown : Shown, hidden : Hidden \cup {Elsewhere},
            by : Resources \cup {NoResource}]

ASSUME NamedObjectsAssumption ==
  /\ KindChoices \subseteq [Resources -> Kinds]
  /\ \A k \in KindChoices : "connection" \in {k[r] : r \in Resources} =>
                              k = [r \in Resources |-> "connection"]
  /\ \A k \in Kinds : Choices[k] \subseteq Values
  /\ \A c \in Choices["role"] : c.shown = Nothing /\ c.hidden = Nothing
  /\ NoState \notin Values /\ NoConfig \notin Values /\ NoObject \notin Objects
  /\ NoResource \notin Resources /\ Elsewhere \notin Hidden
  /\ {MaxEvents, MaxEdits} \subseteq Nat

VARIABLES
  kind,      \* of each resource
  keeps,     \* ALTER CONNECTION keeps a user or password that it does not name
  db,        \* Names -> Objects or NoObject
  state, config,
  pc,        \* of each resource: "done", or the next statement of its handler
  prior,     \* req.State of its handler
  result,    \* of its handler in the last apply
  blurred,   \* a CREATE, RENAME or DROP took effect but its answer was lost, or another
             \* session interfered during an apply: state does not tell what is where
  unanswered, \* of each resource: the passwords of ALTERs that took effect but whose
              \* answers were lost, since the last statement that was known to set one
  events, edits

fixed == <<kind, keeps>>
history == <<blurred, unanswered>>
vars == <<fixed, db, state, config, pc, prior, result, history, events, edits>>

Is(n, k) == db[n] # NoObject /\ db[n].kind = k

Init ==
  /\ kind \in KindChoices /\ keeps \in BOOLEAN
  /\ db = [n \in Names |-> NoObject]
  /\ state = [r \in Resources |-> NoState]
  /\ config \in [Resources -> UNION {Choices[k] : k \in Kinds}]
  /\ \A r \in Resources : config[r] \in Choices[kind[r]]
  /\ pc = [r \in Resources |-> "done"] /\ prior = state
  /\ result = [r \in Resources |-> "none"]
  /\ blurred = FALSE /\ unanswered = [r \in Resources |-> {}]
  /\ events = 0 /\ edits = 0

Event == events < MaxEvents /\ events' = events + 1

-----------------------------------------------------------------------------
\* Mutant of Refreshed: what the view shows is not taken over.
RefreshedExistenceOnly(r) ==
  IF state[r] = NoState \/ ~Is(state[r].name, kind[r]) THEN NoState ELSE state[r]

\* Mutant of Refreshed: an object that is gone stays in state.
RefreshedWithoutRemoval(r) ==
  IF state[r] = NoState \/ ~Is(state[r].name, kind[r]) THEN state[r]
  ELSE [state[r] EXCEPT !.shown = db[state[r].name].shown]

\* Read: the object of that name and kind, if there is one; a password stays as it
\* is in state.
Refreshed(r) ==
  IF state[r] = NoState \/ ~Is(state[r].name, kind[r]) THEN NoState
  ELSE [state[r] EXCEPT !.shown = db[state[r].name].shown]

\* Mutant of Differs: only what the view shows is compared.
DiffersInShown(s, c) == s.shown # c.shown

\* Whether Update has an ALTER to run.
Differs(s, c) == s.shown # c.shown \/ s.hidden # c.hidden

\* What Terraform plans for a resource of the configuration c and refreshed state s.
Planned(s, c) ==
  IF s = NoState THEN (IF c = NoConfig THEN "done" ELSE "create")
  ELSE IF c = NoConfig THEN "drop"
  ELSE IF s.name # c.name THEN "rename"
  ELSE IF Differs(s, c) THEN "alter" ELSE "done"

\* Between two applies.
Idle == \A r \in Resources : pc[r] = "done"

\* An apply begins: every resource is refreshed and planned. A query may fail.
Refresh ==
  /\ Idle
  /\ \/ /\ state' = [r \in Resources |-> Refreshed(r)] /\ prior' = state'
        /\ pc' = [r \in Resources |-> Planned(Refreshed(r), config[r])]
        /\ result' = [r \in Resources |->
                        IF Planned(Refreshed(r), config[r]) = "done" THEN "ok" ELSE "none"]
        /\ UNCHANGED events
     \/ /\ \E r \in Resources : state[r] # NoState
        /\ Event /\ result' = [r \in Resources |-> "failed"]
        /\ UNCHANGED <<state, prior, pc>>
  /\ UNCHANGED <<fixed, db, config, history, edits>>

-----------------------------------------------------------------------------
\* buildCreateUserSQL and buildAlterUserSQL require a password.
Valid(r) == kind[r] = "user" /\ config[r].shown = ByPassword => config[r].hidden # Nothing

\* The object that CREATE makes for c, and what ALTER makes of old. A user has a
\* password only if it is authenticated so; ALTER CONNECTION names what is set.
Created(r, c) ==
  [kind |-> kind[r], shown |-> c.shown, by |-> r,
   hidden |-> IF kind[r] = "user" /\ c.shown # ByPassword THEN Nothing ELSE c.hidden]

Altered(r, old, c) ==
  LET new == [Created(r, c) EXCEPT !.by = old.by] IN
  IF kind[r] = "connection" /\ keeps
    THEN [new EXCEPT !.shown = IF @ = Nothing THEN old.shown ELSE @,
                     !.hidden = IF @ = Nothing THEN old.hidden ELSE @]
    ELSE new

At(r, step) == pc[r] = step
Leave(r, outcome) == pc' = [pc EXCEPT ![r] = "done"] /\ result' = [result EXCEPT ![r] = outcome]
SetState(r, s) == state' = [state EXCEPT ![r] = s]

\* A statement of r: it leads to after, or is refused, or fails; a failed one may
\* have taken effect. ok says what follows success, lost what a lost answer leaves
\* unknown; failure ends the handler.
Execute(r, possible, after, ok, lost) ==
  /\ \/ possible /\ db' = after /\ ok /\ UNCHANGED <<blurred, events>>
     \/ ~possible /\ Leave(r, "failed") /\ UNCHANGED <<db, state, history, events>>
     \/ /\ possible /\ Event /\ Leave(r, "failed") /\ UNCHANGED state
        /\ \/ UNCHANGED <<db, history>>
           \/ db' = after /\ lost
  /\ UNCHANGED <<fixed, config, prior, edits>>

\* What is not known after a lost answer: which object is whose, or the password.
LostIdentity == blurred' = TRUE /\ UNCHANGED unanswered
LostPassword(r) ==
  unanswered' = [unanswered EXCEPT ![r] = @ \cup {config[r].hidden}] /\ UNCHANGED blurred

\* r's password is known again.
Answered(r) == unanswered' = [unanswered EXCEPT ![r] = {}]

\* Create: one statement, then state.
Create(r) ==
  LET c == config[r] IN
  /\ At(r, "create")
  /\ Execute(r, Valid(r) /\ db[c.name] = NoObject, [db EXCEPT ![c.name] = Created(r, c)],
             SetState(r, c) /\ Leave(r, "ok") /\ Answered(r), LostIdentity)

\* Mutant of Rename: without keepRenameInState.
RenameNotKept(r) ==
  LET c == config[r]
      old == prior[r].name IN
  /\ At(r, "rename")
  /\ Execute(r, Is(old, kind[r]) /\ db[c.name] = NoObject,
             [db EXCEPT ![c.name] = db[old], ![old] = NoObject],
             IF Differs(prior[r], c)
               THEN pc' = [pc EXCEPT ![r] = "alter"] /\ UNCHANGED <<state, result, unanswered>>
               ELSE SetState(r, c) /\ Leave(r, "ok") /\ UNCHANGED unanswered,
             LostIdentity)

\* Update of a new name: RENAME, keepRenameInState, and perhaps an ALTER to come.
Rename(r) ==
  LET c == config[r]
      old == prior[r].name IN
  /\ At(r, "rename")
  /\ Execute(r, Is(old, kind[r]) /\ db[c.name] = NoObject,
             [db EXCEPT ![c.name] = db[old], ![old] = NoObject],
             IF Differs(prior[r], c)
               THEN /\ SetState(r, [state[r] EXCEPT !.name = c.name])
                    /\ pc' = [pc EXCEPT ![r] = "alter"] /\ UNCHANGED <<result, unanswered>>
               ELSE SetState(r, c) /\ Leave(r, "ok") /\ UNCHANGED unanswered,
             LostIdentity)

\* Mutant of Alter: state takes over the plan before the statement.
AlterAfterState(r) ==
  LET c == config[r] IN
  /\ At(r, "alter")
  /\ \/ /\ Valid(r) /\ Is(c.name, kind[r])
        /\ \/ db' = [db EXCEPT ![c.name] = Altered(r, @, c)] /\ Leave(r, "ok") /\ UNCHANGED events
           \/ Event /\ Leave(r, "failed") /\ UNCHANGED db
     \/ ~(Valid(r) /\ Is(c.name, kind[r])) /\ Leave(r, "failed") /\ UNCHANGED <<db, events>>
  /\ SetState(r, c)
  /\ UNCHANGED <<fixed, config, prior, history, edits>>

\* Update: ALTER, then state takes over the plan.
Alter(r) ==
  LET c == config[r] IN
  /\ At(r, "alter")
  /\ Execute(r, Valid(r) /\ Is(c.name, kind[r]), [db EXCEPT ![c.name] = Altered(r, @, c)],
             SetState(r, c) /\ Leave(r, "ok") /\ Answered(r), LostPassword(r))

\* Delete: DROP, which fails when the object is gone.
Drop(r) ==
  LET old == prior[r].name IN
  /\ At(r, "drop")
  /\ Execute(r, Is(old, kind[r]), [db EXCEPT ![old] = NoObject],
             SetState(r, NoState) /\ Leave(r, "ok") /\ UNCHANGED unanswered, LostIdentity)

Handler(r) == Create(r) \/ Rename(r) \/ Alter(r) \/ Drop(r)

-----------------------------------------------------------------------------
\* The configuration is edited between two applies, one resource at a time.
Edit ==
  /\ Idle /\ edits < MaxEdits /\ edits' = edits + 1
  /\ \E r \in Resources : \E c \in (Choices[kind[r]] \cup {NoConfig}) \ {config[r]} :
       config' = [config EXCEPT ![r] = c]
  /\ result' = [r \in Resources |-> "none"]
  /\ UNCHANGED <<fixed, db, state, pc, prior, history, events>>

\* ImportState of an object that no resource has, with the Read that follows.
Import ==
  /\ Idle /\ edits < MaxEdits /\ edits' = edits + 1
  /\ \E r \in Resources, n \in Names :
       /\ state[r] = NoState /\ config[r] # NoConfig /\ Is(n, kind[r])
       /\ \A q \in Resources : state[q] # NoState => state[q].name # n
       /\ state' = [state EXCEPT ![r] =
                      [name |-> n, shown |-> db[n].shown, hidden |-> Nothing]]
       /\ db' = [db EXCEPT ![n].by = r]
  /\ result' = [r \in Resources |-> "none"]
  /\ UNCHANGED <<fixed, config, pc, prior, history, events>>

\* The resource of that kind with n in state, if there is one.
Holder(n, k) ==
  LET Holds(r) == state[r] # NoState /\ state[r].name = n /\ kind[r] = k IN
  IF \E r \in Resources : Holds(r) THEN CHOOSE r \in Resources : Holds(r) ELSE NoResource

\* Another session creates an object, drops one, or alters one.
Outside ==
  /\ Event /\ blurred' = (blurred \/ ~Idle)
  /\ \E n \in Names :
       \/ /\ db[n] = NoObject
          /\ \E r \in Resources : \E c \in Choices[kind[r]] :
               db' = [db EXCEPT ![n] = [Created(r, c) EXCEPT !.hidden = Elsewhere,
                                                             !.by = Holder(n, kind[r])]]
       \/ db[n] # NoObject /\ db' = [db EXCEPT ![n] = NoObject]
       \/ /\ db[n] # NoObject /\ db[n].hidden \notin {Nothing, Elsewhere}
          /\ db' = [db EXCEPT ![n].hidden = Elsewhere]
       \/ /\ db[n] # NoObject
          /\ \E c \in Choices[db[n].kind] :
               /\ c.shown # db[n].shown
               /\ db' = [db EXCEPT ![n].shown = c.shown, ![n].hidden = Elsewhere]
  /\ UNCHANGED <<fixed, state, config, pc, prior, result, unanswered, edits>>

Step == Refresh \/ \E r \in Resources : Handler(r)

Next == Step \/ Edit \/ Import \/ Outside

\* The user applies again until it works, and every handler that began goes on.
Spec == Init /\ [][Next]_vars /\ WF_vars(Refresh) /\ \A r \in Resources : WF_vars(Handler(r))

-----------------------------------------------------------------------------
\* Types, and what a handler assumes of its plan: an ALTER runs under the name that
\* state has by then, and only a resource in state is renamed or dropped.
TypeOK ==
  /\ kind \in KindChoices /\ keeps \in BOOLEAN
  /\ db \in [Names -> Objects \cup {NoObject}]
  /\ state \in [Resources -> Values \cup {NoState}] /\ prior \in [Resources -> Values \cup {NoState}]
  /\ config \in [Resources -> Values \cup {NoConfig}]
  /\ pc \in [Resources -> {"done", "create", "rename", "alter", "drop"}]
  /\ result \in [Resources -> {"none", "ok", "failed"}] /\ blurred \in BOOLEAN
  /\ unanswered \in [Resources -> SUBSET Hidden]
  /\ \A r \in Resources :
       /\ pc[r] \in {"create", "rename", "alter"} => config[r] # NoConfig
       /\ pc[r] \in {"rename", "drop"} => prior[r] # NoState /\ state[r] = prior[r]
       /\ pc[r] = "alter" => state[r] # NoState /\ state[r].name = config[r].name

\* helpers.go:245-247, "the next run finds the object under its new name instead of
\* planning to create it": between two applies every object that a resource made is
\* in its state under its present name, whichever statement failed, and also if the
\* answer of an ALTER was lost.
NothingOrphaned ==
  Idle /\ ~blurred =>
    \A n \in Names : db[n] # NoObject /\ db[n].by # NoResource =>
      state[db[n].by] # NoState /\ state[db[n].by].name = n

\* Objects are known by name alone, and names are freed and taken by the handlers of
\* one apply in any order. Still, while it is known which object is whose, a handler
\* alters, renames or drops an object only if it is its own resource's.
OnlyOwn ==
  [][~Idle /\ ~blurred =>
     \A r \in Resources, n \in Names :
       pc'[r] # pc[r] /\ db[n] # NoObject /\ db'[n] # db[n] => db[n].by = r]_vars

\* What the configuration says of r is in the database. Two things do not show in the
\* password: what another session has made of it, and what an ALTER did whose answer was
\* lost when the configuration is then edited back to what state has, so that
\* user_resource.go:244-247 sees nothing to alter. A user that is authenticated otherwise
\* has none.
Configured(r) ==
  LET c == config[r] IN
  IF c = NoConfig THEN state[r] = NoState
  ELSE /\ state[r] = c /\ Is(c.name, kind[r])
       /\ db[c.name].shown = c.shown \/ (keeps /\ kind[r] = "connection" /\ c.shown = Nothing)
       /\ \/ db[c.name].hidden \in {c.hidden, Elsewhere} \cup unanswered[r] \/ c.hidden = Nothing
          \/ kind[r] = "user" /\ c.shown # ByPassword

\* While it is known which object is whose, a resource whose handler, or whose plan
\* without one, ends well is as configured when the apply is over, whichever statement of
\* this apply or an earlier one was refused or failed: a password whose ALTER did not
\* take effect is sent again, and drift that a view shows is undone. If the answer of an
\* ALTER was lost, all but the password is as configured, and that is one that the
\* configuration has or had.
SuccessMeansConfigured ==
  [][(Idle => db' = db) /\ edits' = edits /\ Idle' /\ ~blurred' =>
     \A r \in Resources : result'[r] = "ok" => Configured(r)']_vars

\* What only an edit can resolve: a user without the password it needs, a name that
\* another object holds, or that two resources want; or a user that is to be removed
\* from a connection, if ALTER CONNECTION does not.
Blocked ==
  \E r \in Resources :
    LET c == config[r] IN
    c # NoConfig /\
      \/ ~Valid(r)
      \/ db[c.name] # NoObject /\ (state[r] = NoState \/ state[r].name # c.name)
      \/ \E q \in Resources \ {r} : config[q] # NoConfig /\ config[q].name = c.name
      \/ keeps /\ kind[r] = "connection" /\ c.shown = Nothing

\* When failures, edits and other sessions have stopped, applying again leads to where
\* nothing is left to plan, although statements of one apply may stand in each other's
\* way (a name is taken before it is free).
Settles ==
  <>[](Blocked \/ \A r \in Resources : Planned(Refreshed(r), config[r]) = "done")
=============================================================================
