------------------------- MODULE NamedObjectsProofs -------------------------
(* Proofs about NamedObjects: as long as it is known which object is whose, a
   resource and its object find each other by name alone, and success means that the
   object is as configured, but for a password whose ALTER was not answered. *)
EXTENDS NamedObjects, TLAPS

\* An object of a resource is of its kind and in its state, under its name.
Owned ==
  \A n \in Names : db[n] # NoObject /\ db[n].by # NoResource =>
    /\ state[db[n].by] # NoState /\ state[db[n].by].name = n
    /\ kind[db[n].by] = db[n].kind

\* If the name in state leads to an object, it leads to the resource's own one.
HasOwn ==
  \A r \in Resources : state[r] # NoState /\ Is(state[r].name, kind[r]) =>
    db[state[r].name].by = r

\* No two resources have one name in state.
Distinct ==
  \A r, q \in Resources : r # q /\ state[r] # NoState /\ state[q] # NoState =>
    state[r].name # state[q].name

\* During an apply the name in state does lead to an object.
InApply ==
  ~Idle => \A r \in Resources : state[r] # NoState => Is(state[r].name, kind[r])

\* Only what is not in state is created.
Creating == \A r \in Resources : pc[r] = "create" => state[r] = NoState

\* The inductive invariant. Once blurred, names alone tell nothing any more.
ByName == Owned /\ HasOwn /\ Distinct /\ InApply
NamedInv == TypeOK /\ Creating /\ (~blurred => ByName)

-----------------------------------------------------------------------------
USE NamedObjectsAssumption

LEMMA NothingIsThere == Nothing \in Shown /\ Nothing \in Hidden
BY DEF Shown, Hidden

\* The objects that CREATE and ALTER make are objects.
LEMMA CreatedIsObject ==
  ASSUME NEW r \in Resources, kind \in KindChoices, NEW c \in Values
  PROVE  /\ Created(r, c) \in Objects /\ Created(r, c).by = r
         /\ Created(r, c).kind = kind[r]
BY NothingIsThere DEF Created, Values, Objects, Kinds

LEMMA AlteredIsObject ==
  ASSUME NEW r \in Resources, kind \in KindChoices, NEW c \in Values, NEW old \in Objects
  PROVE  /\ Altered(r, old, c) \in Objects /\ Altered(r, old, c).by = old.by
         /\ Altered(r, old, c).kind = kind[r]
<1> DEFINE new == [Created(r, c) EXCEPT !.by = old.by]
<1>1. new \in Objects /\ new.by = old.by /\ new.kind = kind[r]
  BY CreatedIsObject DEF Objects
<1> QED
  BY <1>1 DEF Altered, Objects

\* A statement that fails leaves everything as it is, but for its handler.
LEMMA FailureKeeps ==
  ASSUME NamedInv, NEW r \in Resources, Leave(r, "failed"),
         UNCHANGED <<fixed, db, state, config, prior, history>>
  PROVE  NamedInv'
<1>1. TypeOK' /\ Creating'
  BY DEF NamedInv, TypeOK, Creating, Leave, fixed, history
<1>2. ASSUME ~blurred' PROVE ByName'
  BY <1>2 DEF NamedInv, TypeOK, ByName, Owned, HasOwn, Distinct, InApply, Idle, Is, Leave, fixed,
                  history
<1> QED
  BY <1>1, <1>2 DEF NamedInv

\* A CREATE, RENAME or DROP whose answer is lost blurs what is known.
LEMMA LossKeeps ==
  ASSUME NamedInv, NEW r \in Resources, Leave(r, "failed"), LostIdentity,
         db' \in [Names -> Objects \cup {NoObject}],
         UNCHANGED <<fixed, state, config, prior>>
  PROVE  NamedInv'
BY DEF NamedInv, TypeOK, Creating, Leave, LostIdentity, fixed

LEMMA InitNamed == Init => NamedInv
<1> SUFFICES ASSUME Init PROVE NamedInv
  OBVIOUS
<1>1. config \in [Resources -> Values]
  <2>1. \A r \in Resources : config[r] \in Values
    BY DEF Init
  <2> QED
    BY <2>1 DEF Init
<1>2. TypeOK /\ Creating
  BY <1>1 DEF Init, TypeOK, Creating
<1>3. ByName
  BY DEF Init, ByName, Owned, HasOwn, Distinct, InApply, Idle, Is
<1> QED
  BY <1>2, <1>3 DEF NamedInv

\* Read keeps the name of what it finds, and only of that.
LEMMA RefreshedKeeps ==
  ASSUME NamedInv, NEW r \in Resources, Refreshed(r) # NoState
  PROVE  /\ state[r] # NoState /\ Is(state[r].name, kind[r])
         /\ Refreshed(r) \in Values /\ Refreshed(r).name = state[r].name
<1>1. state[r] # NoState /\ Is(state[r].name, kind[r])
  BY DEF Refreshed
<1>2. state[r] \in Values /\ db[state[r].name] \in Objects
  BY <1>1 DEF NamedInv, TypeOK, Values, Is
<1> QED
  BY <1>1, <1>2 DEF Refreshed, Values, Objects

LEMMA RefreshKeeps == NamedInv /\ Refresh => NamedInv'
<1> SUFFICES ASSUME NamedInv, Refresh PROVE NamedInv'
  OBVIOUS
<1>1. CASE UNCHANGED <<state, prior, pc>> /\ result' = [r \in Resources |-> "failed"]
  <2>1. TypeOK' /\ Creating'
    BY <1>1 DEF NamedInv, TypeOK, Creating, Refresh, fixed, history
  <2> QED
    BY <1>1, <2>1 DEF NamedInv, ByName, Owned, HasOwn, Distinct, InApply, Idle, Is, Refresh, fixed,
                      history
<1>2. CASE /\ state' = [r \in Resources |-> Refreshed(r)] /\ prior' = state'
           /\ pc' = [r \in Resources |-> Planned(Refreshed(r), config[r])]
           /\ result' = [r \in Resources |->
                          IF Planned(Refreshed(r), config[r]) = "done" THEN "ok" ELSE "none"]
  <2>1. UNCHANGED <<kind, keeps, db, config, history, blurred, unanswered>>
    BY DEF Refresh, fixed, history
  <2>2. state' \in [Resources -> Values \cup {NoState}]
    BY <1>2, RefreshedKeeps
  <2>3. \A r \in Resources :
          /\ pc'[r] \in {"done", "create", "rename", "alter", "drop"}
          /\ pc'[r] \in {"create", "rename", "alter"} => config[r] # NoConfig
          /\ pc'[r] = "create" => state'[r] = NoState
          /\ pc'[r] \in {"rename", "drop", "alter"} => state'[r] # NoState
          /\ pc'[r] = "alter" => state'[r].name = config[r].name
    BY <1>2 DEF Planned
  <2>4. TypeOK' /\ Creating'
    BY <1>2, <2>1, <2>2, <2>3 DEF NamedInv, TypeOK, Creating
  <2>5. ASSUME ~blurred' PROVE ByName'
    <3>1. ByName /\ db \in [Names -> Objects \cup {NoObject}]
      BY <2>1, <2>5 DEF NamedInv, TypeOK
    <3>2. \A r \in Resources : state'[r] # NoState =>
            /\ state[r] # NoState /\ Is(state[r].name, kind[r]) /\ state'[r].name = state[r].name
      BY <1>2, RefreshedKeeps
    <3>3. \A r \in Resources : state[r] # NoState /\ Is(state[r].name, kind[r]) =>
            state'[r] # NoState /\ state'[r].name = state[r].name
      <4> SUFFICES ASSUME NEW r \in Resources, state[r] # NoState, Is(state[r].name, kind[r])
                   PROVE  state'[r] # NoState /\ state'[r].name = state[r].name
        OBVIOUS
      <4>1. Refreshed(r) = [state[r] EXCEPT !.shown = db[state[r].name].shown]
        BY DEF Refreshed
      <4>2. state[r] \in Values /\ db[state[r].name] \in Objects
        BY DEF NamedInv, TypeOK, Values, Is
      <4>3. Refreshed(r) \in Values
        BY <4>1, <4>2 DEF Values, Objects
      <4> QED
        BY <1>2, <4>1, <4>2, <4>3, RefreshedKeeps
    <3>4. Owned'
      BY <2>1, <3>1, <3>3 DEF ByName, Owned, Is, Objects
    <3>5. HasOwn' /\ InApply' /\ Distinct'
      BY <2>1, <3>1, <3>2 DEF ByName, HasOwn, InApply, Distinct, Is
    <3> QED
      BY <3>4, <3>5 DEF ByName
  <2> QED
    BY <2>4, <2>5 DEF NamedInv
<1> QED
  BY <1>1, <1>2 DEF Refresh

-----------------------------------------------------------------------------
\* A handler that runs makes this an apply, so that names in state lead to objects.
LEMMA Running ==
  ASSUME NamedInv, ~blurred, NEW r \in Resources, pc[r] # "done"
  PROVE  \A q \in Resources : state[q] # NoState =>
           /\ state[q] \in Values /\ Is(state[q].name, kind[q])
           /\ db[state[q].name] \in Objects /\ db[state[q].name].by = q
BY DEF NamedInv, TypeOK, ByName, InApply, HasOwn, Idle, Is, Values

\* The configuration and the state a handler works on.
LEMMA Handled ==
  ASSUME NamedInv, NEW r \in Resources
  PROVE  /\ pc[r] \in {"create", "rename", "alter"} => config[r] \in Values
         /\ pc[r] \in {"rename", "drop"} => prior[r] \in Values /\ state[r] = prior[r]
         /\ pc[r] = "alter" => state[r] \in Values /\ state[r].name = config[r].name
         /\ pc[r] = "create" => state[r] = NoState
BY DEF NamedInv, TypeOK, Creating

LEMMA CreateKeeps ==
  ASSUME NamedInv, NEW r \in Resources, Create(r)
  PROVE  NamedInv'
<1> DEFINE c == config[r]
           after == [db EXCEPT ![c.name] = Created(r, c)]
<1>1. pc[r] = "create" /\ c \in Values /\ c.name \in Names /\ state[r] = NoState
  BY Handled DEF Create, At, Values
<1>2. after \in [Names -> Objects \cup {NoObject}]
  BY <1>1, CreatedIsObject DEF NamedInv, TypeOK
<1>3. UNCHANGED <<fixed, config, prior>>
  BY DEF Create, Execute
<1>4. CASE /\ db[c.name] = NoObject /\ db' = after /\ SetState(r, c) /\ Leave(r, "ok")
           /\ Answered(r) /\ UNCHANGED blurred
  <2>1. TypeOK' /\ Creating'
    BY <1>1, <1>2, <1>3, <1>4 DEF NamedInv, TypeOK, Creating, SetState, Leave, Answered, fixed
  <2>2. ASSUME ~blurred' PROVE ByName'
    <3>1. ByName /\ kind \in KindChoices
      BY <1>4, <2>2 DEF NamedInv, TypeOK
    <3>2. \A q \in Resources : state[q] # NoState =>
            /\ Is(state[q].name, kind[q]) /\ db[state[q].name].by = q
            /\ state[q].name \in Names /\ state[q].name # c.name
      BY <1>1, <1>4, <2>2, Running DEF Is, Values
    <3>3. /\ state' = [state EXCEPT ![r] = c] /\ state'[r] = c /\ c # NoState
          /\ db' = after /\ kind' = kind
          /\ db'[c.name] = Created(r, c) /\ Created(r, c) \in Objects
          /\ Created(r, c).by = r /\ Created(r, c).kind = kind[r]
      BY <1>1, <1>3, <1>4, <3>1, CreatedIsObject DEF NamedInv, TypeOK, SetState, fixed
    <3>4. Owned'
      BY <1>1, <3>1, <3>2, <3>3 DEF NamedInv, TypeOK, ByName, Owned, Objects
    <3>5. HasOwn' /\ InApply' /\ Distinct'
      BY <1>1, <3>1, <3>2, <3>3 DEF NamedInv, TypeOK, ByName, HasOwn, InApply, Distinct, Is
    <3> QED
      BY <3>4, <3>5 DEF ByName
  <2> QED
    BY <2>1, <2>2 DEF NamedInv
<1>5. CASE Leave(r, "failed") /\ UNCHANGED <<db, state, history>>
  BY <1>3, <1>5, FailureKeeps
<1>6. CASE Leave(r, "failed") /\ db' = after /\ LostIdentity /\ UNCHANGED state
  BY <1>2, <1>3, <1>6, LossKeeps
<1> QED
  BY <1>4, <1>5, <1>6 DEF Create, Execute

\* The object goes to its new name, and state with it.
LEMMA RenameKeeps ==
  ASSUME NamedInv, NEW r \in Resources, Rename(r)
  PROVE  NamedInv'
<1> DEFINE c == config[r]
           old == prior[r].name
           after == [db EXCEPT ![c.name] = db[old], ![old] = NoObject]
<1>1. /\ pc[r] = "rename" /\ c \in Values /\ c.name \in Names /\ old \in Names
      /\ state[r] = prior[r] /\ state[r] \in Values
  BY Handled DEF Rename, At, Values
<1>2. after \in [Names -> Objects \cup {NoObject}]
  BY <1>1 DEF NamedInv, TypeOK
<1>3. UNCHANGED <<fixed, config, prior>>
  BY DEF Rename, Execute
<1>4. CASE /\ Is(old, kind[r]) /\ db[c.name] = NoObject /\ db' = after /\ UNCHANGED blurred
           /\ \/ /\ SetState(r, [state[r] EXCEPT !.name = c.name])
                 /\ pc' = [pc EXCEPT ![r] = "alter"] /\ UNCHANGED result
              \/ SetState(r, c) /\ Leave(r, "ok")
           /\ UNCHANGED unanswered
  <2>1. /\ state' \in [Resources -> Values \cup {NoState}]
        /\ state'[r] \in Values /\ state'[r].name = c.name
        /\ \A q \in Resources \ {r} : state'[q] = state[q]
    <3>1. [state[r] EXCEPT !.name = c.name] \in Values
      BY <1>1 DEF Values
    <3>2. [state[r] EXCEPT !.name = c.name].name = c.name
      BY <1>1 DEF Values
    <3>3. state \in [Resources -> Values \cup {NoState}]
      BY DEF NamedInv, TypeOK
    <3>4. CASE state' = [state EXCEPT ![r] = [state[r] EXCEPT !.name = c.name]]
      BY <3>1, <3>2, <3>3, <3>4
    <3>5. CASE state' = [state EXCEPT ![r] = c]
      BY <1>1, <3>3, <3>5
    <3> QED
      BY <1>4, <3>4, <3>5 DEF SetState
  <2>2. TypeOK' /\ Creating'
    <3>1. /\ db' \in [Names -> Objects \cup {NoObject}]
          /\ UNCHANGED <<kind, keeps, config, prior, blurred, unanswered>>
      BY <1>2, <1>3, <1>4 DEF fixed
    <3>2. \A q \in Resources \ {r} : pc'[q] = pc[q]
      BY <1>4 DEF NamedInv, TypeOK, Leave
    <3>3. /\ pc' \in [Resources -> {"done", "create", "rename", "alter", "drop"}]
          /\ pc'[r] \in {"alter", "done"}
          /\ result' \in [Resources -> {"none", "ok", "failed"}]
      BY <1>4 DEF NamedInv, TypeOK, Leave
    <3>4. c # NoConfig /\ state'[r] # NoState
      BY <1>1, <2>1
    <3> QED
      BY <2>1, <3>1, <3>2, <3>3, <3>4 DEF NamedInv, TypeOK, Creating
  <2>3. ASSUME ~blurred' PROVE ByName'
    <3>1. ByName
      BY <1>4, <2>3 DEF NamedInv
    <3>2. /\ db[old] \in Objects /\ db[old].by = r /\ db[old].kind = kind[r]
          /\ c.name # old
      BY <1>1, <1>4, <2>3, Running DEF Is
    <3>3. \A q \in Resources \ {r} : state[q] # NoState =>
            /\ Is(state[q].name, kind[q]) /\ db[state[q].name].by = q
            /\ state[q].name \in Names /\ state[q].name \notin {c.name, old}
      BY <1>1, <1>4, <2>3, <3>1, Running DEF ByName, Distinct, Is, Values
    <3>4. /\ db'[c.name] = db[old] /\ db'[old] = NoObject /\ kind' = kind
          /\ \A n \in Names \ {c.name, old} : db'[n] = db[n]
      BY <1>1, <1>3, <1>4, <3>2 DEF NamedInv, TypeOK, fixed
    <3>5. Owned'
      BY <1>1, <2>1, <3>1, <3>2, <3>3, <3>4 DEF NamedInv, TypeOK, ByName, Owned, Objects
    <3>6. HasOwn' /\ InApply' /\ Distinct'
      BY <1>1, <2>1, <3>1, <3>2, <3>3, <3>4 DEF ByName, HasOwn, InApply, Distinct, Is
    <3> QED
      BY <3>5, <3>6 DEF ByName
  <2> QED
    BY <2>2, <2>3 DEF NamedInv
<1>5. CASE Leave(r, "failed") /\ UNCHANGED <<db, state, history>>
  BY <1>3, <1>5, FailureKeeps
<1>6. CASE Leave(r, "failed") /\ db' = after /\ LostIdentity /\ UNCHANGED state
  BY <1>2, <1>3, <1>6, LossKeeps
<1> QED
  BY <1>4, <1>5, <1>6 DEF Rename, Execute

LEMMA AlterKeeps ==
  ASSUME NamedInv, NEW r \in Resources, Alter(r)
  PROVE  NamedInv'
<1> DEFINE c == config[r]
           after == [db EXCEPT ![c.name] = Altered(r, @, c)]
<1>1. /\ pc[r] = "alter" /\ c \in Values /\ c.name \in Names
      /\ state[r] \in Values /\ state[r].name = c.name
  BY Handled DEF Alter, At, Values
<1>2. ASSUME Is(c.name, kind[r])
      PROVE  /\ after \in [Names -> Objects \cup {NoObject}]
             /\ after[c.name] \in Objects /\ after[c.name].by = db[c.name].by
             /\ after[c.name].kind = db[c.name].kind
             /\ \A n \in Names \ {c.name} : after[n] = db[n]
  <2>1. db[c.name] \in Objects /\ db[c.name].kind = kind[r]
    BY <1>1, <1>2 DEF NamedInv, TypeOK, Is
  <2> QED
    BY <1>1, <2>1, AlteredIsObject DEF NamedInv, TypeOK
<1>3. UNCHANGED <<fixed, config, prior>>
  BY DEF Alter, Execute
<1>4. ASSUME Is(c.name, kind[r]), db' = after, UNCHANGED blurred,
             \A q \in Resources : (state'[q] = NoState <=> state[q] = NoState)
                                 /\ (state[q] # NoState => state'[q].name = state[q].name)
      PROVE  ~blurred' => ByName'
  <2> SUFFICES ASSUME ~blurred' PROVE ByName'
    OBVIOUS
  <2>1. ByName
    BY <1>4 DEF NamedInv
  <2>2. /\ \A n \in Names : (db'[n] = NoObject <=> db[n] = NoObject)
        /\ \A n \in Names : db[n] # NoObject =>
             db'[n].by = db[n].by /\ db'[n].kind = db[n].kind /\ db[n].by \in Resources \cup {NoResource}
    BY <1>1, <1>2, <1>4 DEF NamedInv, TypeOK, Is, Objects
  <2>3. \A q \in Resources :
          /\ state'[q] # NoState <=> state[q] # NoState
          /\ state[q] # NoState => state'[q].name = state[q].name /\ state[q].name \in Names
    BY <1>4 DEF NamedInv, TypeOK, Values
  <2>4. kind' = kind /\ ~Idle
    BY <1>1, <1>3 DEF fixed, Idle
  <2>5. Owned'
    BY <2>1, <2>2, <2>3, <2>4 DEF ByName, Owned
  <2>6. HasOwn' /\ InApply' /\ Distinct'
    BY <2>1, <2>2, <2>3, <2>4 DEF ByName, HasOwn, InApply, Distinct, Is
  <2> QED
    BY <2>5, <2>6 DEF ByName
<1>5. CASE /\ Is(c.name, kind[r]) /\ db' = after /\ SetState(r, c) /\ Leave(r, "ok")
           /\ Answered(r) /\ UNCHANGED blurred
  <2>1. TypeOK' /\ Creating'
    BY <1>1, <1>2, <1>3, <1>5 DEF NamedInv, TypeOK, Creating, SetState, Leave, Answered, fixed
  <2>2. \A q \in Resources : (state'[q] = NoState <=> state[q] = NoState)
                             /\ (state[q] # NoState => state'[q].name = state[q].name)
    BY <1>1, <1>5 DEF NamedInv, TypeOK, SetState
  <2> QED
    BY <1>4, <1>5, <2>1, <2>2 DEF NamedInv
<1>6. CASE Leave(r, "failed") /\ UNCHANGED <<db, state, history>>
  BY <1>3, <1>6, FailureKeeps
<1>7. CASE /\ Is(c.name, kind[r]) /\ Leave(r, "failed") /\ db' = after /\ LostPassword(r)
           /\ UNCHANGED state
  <2>1. unanswered' \in [Resources -> SUBSET Hidden] /\ UNCHANGED blurred
    BY <1>1, <1>7 DEF NamedInv, TypeOK, LostPassword, Values
  <2>2. TypeOK' /\ Creating'
    BY <1>1, <1>2, <1>3, <1>7, <2>1 DEF NamedInv, TypeOK, Creating, Leave, fixed
  <2> QED
    BY <1>4, <1>7, <2>1, <2>2 DEF NamedInv
<1> QED
  BY <1>5, <1>6, <1>7 DEF Alter, Execute

LEMMA DropKeeps ==
  ASSUME NamedInv, NEW r \in Resources, Drop(r)
  PROVE  NamedInv'
<1> DEFINE old == prior[r].name
           after == [db EXCEPT ![old] = NoObject]
<1>1. pc[r] = "drop" /\ old \in Names /\ state[r] = prior[r] /\ state[r] \in Values
  BY Handled DEF Drop, At, Values
<1>2. after \in [Names -> Objects \cup {NoObject}]
  BY DEF NamedInv, TypeOK
<1>3. UNCHANGED <<fixed, config, prior>>
  BY DEF Drop, Execute
<1>4. CASE /\ db' = after /\ SetState(r, NoState) /\ Leave(r, "ok")
           /\ UNCHANGED <<blurred, unanswered>>
  <2>1. TypeOK' /\ Creating'
    BY <1>1, <1>2, <1>3, <1>4 DEF NamedInv, TypeOK, Creating, SetState, Leave, fixed
  <2>2. ASSUME ~blurred' PROVE ByName'
    <3>1. ByName
      BY <1>4, <2>2 DEF NamedInv
    <3>2. \A q \in Resources \ {r} : state[q] # NoState =>
            /\ Is(state[q].name, kind[q]) /\ db[state[q].name].by = q
            /\ state[q].name \in Names /\ state[q].name # old
      BY <1>1, <1>4, <2>2, <3>1, Running DEF ByName, Distinct, Is, Values
    <3>3. /\ db'[old] = NoObject /\ \A n \in Names \ {old} : db'[n] = db[n]
          /\ state'[r] = NoState /\ \A q \in Resources \ {r} : state'[q] = state[q]
          /\ kind' = kind
      BY <1>1, <1>3, <1>4 DEF NamedInv, TypeOK, SetState, fixed
    <3>4. Owned'
      BY <1>1, <3>1, <3>2, <3>3 DEF NamedInv, TypeOK, ByName, Owned, Objects
    <3>5. HasOwn' /\ InApply' /\ Distinct'
      BY <1>1, <3>1, <3>2, <3>3 DEF ByName, HasOwn, InApply, Distinct, Is
    <3> QED
      BY <3>4, <3>5 DEF ByName
  <2> QED
    BY <2>1, <2>2 DEF NamedInv
<1>5. CASE Leave(r, "failed") /\ UNCHANGED <<db, state, history>>
  BY <1>3, <1>5, FailureKeeps
<1>6. CASE Leave(r, "failed") /\ db' = after /\ LostIdentity /\ UNCHANGED state
  BY <1>2, <1>3, <1>6, LossKeeps
<1> QED
  BY <1>4, <1>5, <1>6 DEF Drop, Execute

-----------------------------------------------------------------------------
\* Only the configuration changes.
LEMMA EditKeeps == NamedInv /\ Edit => NamedInv'
<1> SUFFICES ASSUME NamedInv, Edit PROVE NamedInv'
  OBVIOUS
<1>1. config' \in [Resources -> Values \cup {NoConfig}]
  <2>1. PICK r \in Resources :
               \E c \in (Choices[kind[r]] \cup {NoConfig}) \ {config[r]} :
                 config' = [config EXCEPT ![r] = c]
    BY DEF Edit
  <2>2. kind[r] \in Kinds
    BY DEF NamedInv, TypeOK
  <2> QED
    BY <2>1, <2>2 DEF NamedInv, TypeOK
<1>2. /\ UNCHANGED <<kind, keeps, db, state, pc, prior, blurred, unanswered>>
      /\ result' = [r \in Resources |-> "none"] /\ Idle
  BY DEF Edit, fixed, history
<1>3. TypeOK' /\ Creating'
  BY <1>1, <1>2 DEF NamedInv, TypeOK, Creating, Idle
<1> QED
  BY <1>2, <1>3 DEF NamedInv, ByName, Owned, HasOwn, Distinct, InApply, Idle, Is

\* What is imported has a name that no state has.
LEMMA ImportKeeps == NamedInv /\ Import => NamedInv'
<1> SUFFICES ASSUME NamedInv, Import PROVE NamedInv'
  OBVIOUS
<1>1. PICK r \in Resources, n \in Names :
        /\ state[r] = NoState /\ Is(n, kind[r])
        /\ \A q \in Resources : state[q] # NoState => state[q].name # n
        /\ state' = [state EXCEPT ![r] = [name |-> n, shown |-> db[n].shown, hidden |-> Nothing]]
        /\ db' = [db EXCEPT ![n].by = r]
  BY DEF Import
<1>2. /\ UNCHANGED <<kind, keeps, config, pc, prior, blurred, unanswered>>
      /\ result' = [q \in Resources |-> "none"] /\ Idle
  BY DEF Import, fixed, history
<1>3. /\ db \in [Names -> Objects \cup {NoObject}]
      /\ state \in [Resources -> Values \cup {NoState}]
  BY DEF NamedInv, TypeOK
<1>4. db[n] \in Objects /\ db[n].kind = kind[r]
  BY <1>1, <1>3 DEF Is
<1>5. /\ state'[r] \in Values /\ state'[r].name = n
      /\ \A q \in Resources \ {r} : state'[q] = state[q]
      /\ state' \in [Resources -> Values \cup {NoState}]
  BY <1>1, <1>3, <1>4, NothingIsThere DEF Values, Objects
<1>6. /\ db'[n] \in Objects /\ db'[n].by = r /\ db'[n].kind = kind[r]
      /\ \A m \in Names \ {n} : db'[m] = db[m]
      /\ db' \in [Names -> Objects \cup {NoObject}]
  BY <1>1, <1>3, <1>4 DEF Objects
<1>7. TypeOK' /\ Creating'
  BY <1>2, <1>5, <1>6 DEF NamedInv, TypeOK, Creating, Idle
<1>8. ASSUME ~blurred' PROVE ByName'
  <2>1. ByName
    BY <1>2, <1>8 DEF NamedInv
  <2>2. Owned'
    BY <1>1, <1>2, <1>4, <1>5, <1>6, <2>1 DEF ByName, Owned, Objects
  <2>3. HasOwn' /\ Distinct' /\ InApply'
    BY <1>1, <1>2, <1>3, <1>4, <1>5, <1>6, <2>1
    DEF ByName, HasOwn, Distinct, InApply, Idle, Is, Values
  <2> QED
    BY <2>2, <2>3 DEF ByName
<1> QED
  BY <1>7, <1>8 DEF NamedInv

\* What another session creates is the resource's that has the name in state, if one
\* of that kind has; it has that name alone.
LEMMA HolderHolds ==
  ASSUME NamedInv, NEW n \in Names, NEW k \in Kinds
  PROVE  LET h == Holder(n, k) IN
         /\ h \in Resources \cup {NoResource}
         /\ h # NoResource => state[h] # NoState /\ state[h].name = n /\ kind[h] = k
         /\ ~blurred => \A r \in Resources :
              state[r] # NoState /\ state[r].name = n /\ kind[r] = k => h = r
BY DEF Holder, NamedInv, ByName, Distinct

LEMMA OutsideKeeps == NamedInv /\ Outside => NamedInv'
<1> SUFFICES ASSUME NamedInv, Outside PROVE NamedInv'
  OBVIOUS
<1>1. /\ UNCHANGED <<kind, keeps, state, config, pc, prior, result, unanswered>>
      /\ blurred' = (blurred \/ ~Idle)
  BY DEF Outside, fixed
<1>2. /\ db \in [Names -> Objects \cup {NoObject}] /\ kind \in [Resources -> Kinds]
      /\ kind \in KindChoices /\ blurred \in BOOLEAN
  BY DEF NamedInv, TypeOK
<1>3. PICK n \in Names :
       \/ /\ db[n] = NoObject
          /\ \E r \in Resources : \E c \in Choices[kind[r]] :
               db' = [db EXCEPT ![n] = [Created(r, c) EXCEPT !.hidden = Elsewhere,
                                                             !.by = Holder(n, kind[r])]]
       \/ db[n] # NoObject /\ db' = [db EXCEPT ![n] = NoObject]
       \/ db[n] # NoObject /\ db' = [db EXCEPT ![n].hidden = Elsewhere]
       \/ /\ db[n] # NoObject
          /\ \E c \in Choices[db[n].kind] :
               db' = [db EXCEPT ![n].shown = c.shown, ![n].hidden = Elsewhere]
  BY DEF Outside
<1>4. \A m \in Names \ {n} : db'[m] = db[m]
  BY <1>2, <1>3
<1>5. \/ db'[n] = NoObject
      \/ /\ db[n] = NoObject /\ db'[n] \in Objects
         /\ db'[n].kind \in Kinds /\ db'[n].by = Holder(n, db'[n].kind)
      \/ /\ db[n] \in Objects /\ db'[n] \in Objects
         /\ db'[n].by = db[n].by /\ db'[n].kind = db[n].kind
  <2>1. CASE /\ db[n] = NoObject
             /\ \E r \in Resources : \E c \in Choices[kind[r]] :
                  db' = [db EXCEPT ![n] = [Created(r, c) EXCEPT !.hidden = Elsewhere,
                                                                !.by = Holder(n, kind[r])]]
    <3>0. PICK r \in Resources : \E c \in Choices[kind[r]] :
                 db' = [db EXCEPT ![n] = [Created(r, c) EXCEPT !.hidden = Elsewhere,
                                                               !.by = Holder(n, kind[r])]]
      BY <2>1
    <3>1. PICK c \in Choices[kind[r]] :
                 db' = [db EXCEPT ![n] = [Created(r, c) EXCEPT !.hidden = Elsewhere,
                                                               !.by = Holder(n, kind[r])]]
      BY <3>0
    <3>2. kind[r] \in Kinds /\ c \in Values
      BY <1>2
    <3>3. Created(r, c) \in Objects /\ Created(r, c).kind = kind[r]
      BY <1>2, <3>2, CreatedIsObject
    <3>4. Holder(n, kind[r]) \in Resources \cup {NoResource}
      BY <3>2, HolderHolds
    <3> QED
      BY <1>2, <2>1, <3>1, <3>2, <3>3, <3>4 DEF Objects
  <2>2. CASE db[n] # NoObject /\ db' = [db EXCEPT ![n] = NoObject]
    BY <1>2, <2>2
  <2>3. CASE db[n] # NoObject /\ db' = [db EXCEPT ![n].hidden = Elsewhere]
    BY <1>2, <2>3 DEF Objects
  <2>4. CASE /\ db[n] # NoObject
             /\ \E c \in Choices[db[n].kind] :
                  db' = [db EXCEPT ![n].shown = c.shown, ![n].hidden = Elsewhere]
    <3>1. PICK c \in Choices[db[n].kind] :
                 db' = [db EXCEPT ![n].shown = c.shown, ![n].hidden = Elsewhere]
      BY <2>4
    <3>2. db[n] \in Objects /\ db[n].kind \in Kinds
      BY <1>2, <2>4 DEF Objects
    <3>3. c.shown \in Shown
      BY <3>2 DEF Shown
    <3> QED
      BY <1>2, <3>1, <3>2, <3>3, NothingIsThere DEF Objects
  <2> QED
    BY <1>3, <2>1, <2>2, <2>3, <2>4
<1>6. TypeOK' /\ Creating'
  <2>1. db' \in [Names -> Objects \cup {NoObject}]
    BY <1>2, <1>3, <1>5
  <2> QED
    BY <1>1, <1>2, <2>1 DEF NamedInv, TypeOK, Creating
<1>7. ASSUME ~blurred' PROVE ByName'
  <2>1. ByName /\ Idle /\ ~blurred
    BY <1>1, <1>2, <1>7 DEF NamedInv
  <2>2. InApply' /\ Distinct'
    BY <1>1, <2>1 DEF ByName, InApply, Distinct, Idle
  <2>3. CASE db'[n] = NoObject
    <3>1. Owned'
      BY <1>1, <1>4, <2>1, <2>3 DEF ByName, Owned
    <3>2. HasOwn'
      BY <1>1, <1>4, <2>1, <2>3 DEF NamedInv, TypeOK, Values, ByName, HasOwn, Is
    <3> QED
      BY <2>2, <3>1, <3>2 DEF ByName
  <2>4. CASE /\ db[n] = NoObject /\ db'[n] \in Objects
             /\ db'[n].kind \in Kinds /\ db'[n].by = Holder(n, db'[n].kind)
    <3>1. /\ db'[n].by # NoResource =>
               /\ state[db'[n].by] # NoState /\ state[db'[n].by].name = n
               /\ kind[db'[n].by] = db'[n].kind
          /\ \A r \in Resources :
               state[r] # NoState /\ state[r].name = n /\ kind[r] = db'[n].kind => db'[n].by = r
      BY <2>1, <2>4, HolderHolds
    <3>2. Owned'
      BY <1>1, <1>4, <2>1, <3>1 DEF ByName, Owned
    <3>3. HasOwn'
      BY <1>1, <1>4, <2>1, <3>1 DEF NamedInv, TypeOK, Values, ByName, HasOwn, Is
    <3> QED
      BY <2>2, <3>2, <3>3 DEF ByName
  <2>5. CASE /\ db[n] \in Objects /\ db'[n] \in Objects
             /\ db'[n].by = db[n].by /\ db'[n].kind = db[n].kind
    <3>1. Owned'
      BY <1>1, <1>4, <2>1, <2>5 DEF ByName, Owned
    <3>2. HasOwn'
      BY <1>1, <1>4, <2>1, <2>5 DEF NamedInv, TypeOK, Values, ByName, HasOwn, Is
    <3> QED
      BY <2>2, <3>1, <3>2 DEF ByName
  <2> QED
    BY <1>5, <2>3, <2>4, <2>5
<1> QED
  BY <1>6, <1>7 DEF NamedInv

-----------------------------------------------------------------------------
\* The inductive invariant: until the lost answer of a CREATE, RENAME or DROP or another
\* session's interference blurs it, an object that a resource made or imported is found under the name in
\* that resource's state, and no resource finds another's under its own.
THEOREM NamedInvariant == Spec => []NamedInv
<1>1. ASSUME NamedInv, [Next]_vars PROVE NamedInv'
  <2>1. ASSUME NEW r \in Resources, Handler(r) PROVE NamedInv'
    BY <1>1, <2>1, CreateKeeps, RenameKeeps, AlterKeeps, DropKeeps DEF Handler
  <2>2. CASE UNCHANGED vars
    BY <1>1, <2>2 DEF vars, fixed, history, NamedInv, TypeOK, Creating, ByName, Owned, HasOwn, Distinct,
                      InApply, Idle, Is
  <2> QED
    BY <1>1, <2>1, <2>2, RefreshKeeps, EditKeeps, ImportKeeps, OutsideKeeps DEF Next, Step
<1> QED
  BY InitNamed, <1>1, PTL DEF Spec

\* Types, and that a handler finds in state and configuration what its plan assumed.
THEOREM NamedTypes == Spec => []TypeOK
BY NamedInvariant, PTL DEF NamedInv

\* helpers.go:245-247: after a failed Update, too, the next run finds the object, unless
\* blurred.
THEOREM NothingIsOrphaned == Spec => []NothingOrphaned
<1>1. NamedInv => NothingOrphaned
  BY DEF NamedInv, ByName, Owned, NothingOrphaned
<1> QED
  BY <1>1, NamedInvariant, PTL

\* A step of r's handler moves no other handler, and touches r's object or takes a
\* free name.
LEMMA HandlerOwn ==
  ASSUME NamedInv, ~blurred, NEW r \in Resources, Handler(r),
         NEW q \in Resources, pc'[q] # pc[q],
         NEW n \in Names, db[n] # NoObject, db'[n] # db[n]
  PROVE  db[n].by = q
<1>1. q = r
  BY DEF Handler, Create, Rename, Alter, Drop, Execute, Leave, NamedInv, TypeOK
<1>2. db \in [Names -> Objects \cup {NoObject}] /\ pc[r] # "done"
  BY DEF NamedInv, TypeOK, Handler, Create, Rename, Alter, Drop, At
<1>3. \A q0 \in Resources : state[q0] # NoState => db[state[q0].name].by = q0
  BY <1>2, Running
<1>4. CASE Create(r)
  BY <1>2, <1>4 DEF Create, Execute
<1>5. CASE Rename(r)
  <2>1. n = prior[r].name /\ pc[r] = "rename"
    BY <1>2, <1>5 DEF Rename, Execute, At
  <2> QED
    BY <1>1, <1>3, <2>1, Handled
<1>6. CASE Alter(r)
  <2>1. n = config[r].name /\ pc[r] = "alter"
    BY <1>2, <1>6 DEF Alter, Execute, At
  <2> QED
    BY <1>1, <1>3, <2>1, Handled
<1>7. CASE Drop(r)
  <2>1. n = prior[r].name /\ pc[r] = "drop"
    BY <1>2, <1>7 DEF Drop, Execute, At
  <2> QED
    BY <1>1, <1>3, <2>1, Handled
<1> QED
  BY <1>4, <1>5, <1>6, <1>7 DEF Handler

\* However the handlers of an apply free and take names, until blurred one changes an
\* object only if it is its own resource's.
THEOREM OwnOnly == Spec => OnlyOwn
<1> DEFINE Own ==
      ~Idle /\ ~blurred =>
        \A r \in Resources, n \in Names :
          pc'[r] # pc[r] /\ db[n] # NoObject /\ db'[n] # db[n] => db[n].by = r
<1>1. NamedInv /\ [Next]_vars => [Own]_vars
  <2> SUFFICES ASSUME NamedInv, Next, ~Idle, ~blurred,
                      NEW r \in Resources, pc'[r] # pc[r],
                      NEW n \in Names, db[n] # NoObject, db'[n] # db[n]
               PROVE  db[n].by = r
    OBVIOUS
  <2>1. PICK q \in Resources : Handler(q)
    BY DEF Next, Step, Refresh, Edit, Import, Outside
  <2> QED
    BY <2>1, HandlerOwn
<1> QED
  BY <1>1, NamedInvariant, PTL DEF Spec, OnlyOwn

-----------------------------------------------------------------------------
\* The password that state has is the object's, unless another session has been there,
\* an ALTER whose answer was lost, or the user is authenticated otherwise.
HiddenOf(r) ==
  state[r] # NoState /\ Is(state[r].name, kind[r]) =>
    LET o == db[state[r].name] IN
    \/ o.hidden \in {state[r].hidden, Elsewhere} \cup unanswered[r] \/ state[r].hidden = Nothing
    \/ kind[r] = "user" /\ o.shown # ByPassword

\* From the refresh to the end of an apply: what state has of r is in the database, unless
\* the handler of r has failed, and one that has ended well has left the configuration in
\* state.
Known(r) ==
  /\ state[r] # NoState =>
       /\ Is(state[r].name, kind[r])
       /\ LET o == db[state[r].name] IN
          \/ result[r] = "failed" \/ o.shown = state[r].shown
          \/ keeps /\ kind[r] = "connection" /\ state[r].shown = Nothing
  /\ pc[r] # "done" => result[r] = "none"
  /\ pc[r] = "drop" => config[r] = NoConfig
  /\ result[r] = "ok" => IF config[r] = NoConfig THEN state[r] = NoState ELSE state[r] = config[r]

KnownInv ==
  ~blurred => \A r \in Resources : HiddenOf(r) /\ (~Idle => Known(r))

\* Together they say that r is as configured.
LEMMA KnownConfigured ==
  ASSUME NamedInv, NEW r \in Resources, HiddenOf(r), Known(r), result[r] = "ok"
  PROVE  Configured(r)
<1>1. CASE config[r] = NoConfig
  BY <1>1 DEF Known, Configured
<1>2. CASE config[r] # NoConfig
  <2>1. state[r] = config[r] /\ state[r] # NoState
    BY <1>2 DEF Known, NamedInv, TypeOK
  <2>2. Is(state[r].name, kind[r])
    BY <2>1 DEF Known
  <2>3. kind[r] = "user" /\ db[state[r].name].shown # ByPassword => state[r].shown # ByPassword
    BY <2>1 DEF Known
  <2> QED
    BY <1>2, <2>1, <2>2, <2>3 DEF Known, HiddenOf, Configured
<1> QED
  BY <1>1, <1>2

\* The refresh makes known what a view shows, and plans no handler only for what is
\* as configured.
LEMMA RefreshKnown ==
  ASSUME NamedInv, KnownInv, Refresh, ~blurred', NEW r \in Resources
  PROVE  /\ HiddenOf(r)'
         /\ Known(r)' \/ (Idle' /\ result'[r] = "failed")
<1>1. /\ UNCHANGED <<kind, keeps, db, config, unanswered>> /\ Idle /\ HiddenOf(r)
      /\ db \in [Names -> Objects \cup {NoObject}]
  BY DEF Refresh, fixed, history, KnownInv, NamedInv, TypeOK
<1>2. CASE UNCHANGED <<state, pc>> /\ result' = [q \in Resources |-> "failed"]
  BY <1>1, <1>2 DEF HiddenOf, Is, Idle
<1>3. CASE /\ state' = [q \in Resources |-> Refreshed(q)]
           /\ pc' = [q \in Resources |-> Planned(Refreshed(q), config[q])]
           /\ result' = [q \in Resources |->
                           IF Planned(Refreshed(q), config[q]) = "done" THEN "ok" ELSE "none"]
  <2> DEFINE s == Refreshed(r)
  <2>1. /\ state'[r] = s /\ pc'[r] = Planned(s, config[r])
        /\ result'[r] = IF Planned(s, config[r]) = "done" THEN "ok" ELSE "none"
    BY <1>3
  <2>2. CASE s = NoState
    BY <1>1, <2>1, <2>2 DEF Planned, HiddenOf, Known
  <2>3. CASE s # NoState
    <3>1. /\ state[r] # NoState /\ Is(state[r].name, kind[r]) /\ s \in Values
          /\ s.name = state[r].name
      BY <2>3, RefreshedKeeps
    <3>2. state[r] \in Values /\ s = [state[r] EXCEPT !.shown = db[state[r].name].shown]
      BY <2>3, <3>1 DEF Refreshed, NamedInv, TypeOK
    <3>3. s.shown = db[s.name].shown /\ s.hidden = state[r].hidden
      BY <3>1, <3>2 DEF Values
    <3>4. HiddenOf(r)'
      BY <1>1, <2>1, <3>1, <3>3 DEF HiddenOf, Is
    <3>5. Planned(s, config[r]) = "done" => s = config[r] /\ config[r] # NoConfig
      <4>1. config[r] \in Values \cup {NoConfig}
        BY DEF NamedInv, TypeOK
      <4>2. ASSUME Planned(s, config[r]) = "done"
            PROVE  /\ config[r] # NoConfig /\ s.name = config[r].name
                   /\ s.shown = config[r].shown /\ s.hidden = config[r].hidden
        BY <2>3, <4>2 DEF Planned, Differs
      <4> QED
        BY <3>1, <4>1, <4>2 DEF Values
    <3>6. Known(r)'
      <4>1. Planned(s, config[r]) = "drop" => config[r] = NoConfig
        BY DEF Planned
      <4> HIDE DEF s
      <4> QED
        BY <1>1, <2>1, <3>1, <3>3, <3>5, <4>1 DEF Known, Is
    <3> QED
      BY <3>4, <3>6
  <2> QED
    BY <2>2, <2>3
<1> QED
  BY <1>2, <1>3 DEF Refresh

-----------------------------------------------------------------------------
\* A handler leaves the objects of the other resources alone.
LEMMA OthersKept ==
  ASSUME NamedInv, ~blurred, NEW r \in Resources, Handler(r),
         NEW q \in Resources \ {r}, state[q] # NoState
  PROVE  db'[state[q].name] = db[state[q].name]
<1>1. pc[r] # "done" /\ pc'[r] # pc[r]
  BY DEF Handler, Create, Rename, Alter, Drop, Execute, Leave, At, NamedInv, TypeOK
<1>2. /\ state[q].name \in Names /\ db[state[q].name] # NoObject
      /\ db[state[q].name].by = q
  BY <1>1, Running DEF Is, Values
<1> QED
  BY <1>1, <1>2, HandlerOwn

\* Nor does it move them.
LEMMA OthersKnown ==
  ASSUME NamedInv, KnownInv, ~blurred, NEW r \in Resources, Handler(r),
         NEW q \in Resources \ {r}
  PROVE  HiddenOf(q)' /\ Known(q)'
<1>1. ~Idle
  BY DEF Handler, Create, Rename, Alter, Drop, At, Idle
<1>2. /\ UNCHANGED <<kind, keeps, config>>
      /\ state'[q] = state[q] /\ pc'[q] = pc[q] /\ result'[q] = result[q]
      /\ unanswered'[q] = unanswered[q]
  BY DEF Handler, Create, Rename, Alter, Drop, Execute, SetState, Leave, Answered, LostIdentity,
         LostPassword, fixed, history, NamedInv, TypeOK
<1>3. HiddenOf(q) /\ Known(q)
  BY <1>1 DEF KnownInv
<1>4. CASE state[q] = NoState
  BY <1>2, <1>3, <1>4 DEF HiddenOf, Known
<1>5. CASE state[q] # NoState
  <2>1. db'[state[q].name] = db[state[q].name]
    BY <1>5, OthersKept
  <2> QED
    BY <1>2, <1>3, <2>1 DEF HiddenOf, Known, Is
<1> QED
  BY <1>4, <1>5

\* Where a statement was refused or failed, r is as known as before.
LEMMA FailureKnown ==
  ASSUME NamedInv, KnownInv, ~blurred, ~Idle, NEW r \in Resources, Leave(r, "failed"),
         UNCHANGED <<kind, keeps, db, state, config, history>>
  PROVE  HiddenOf(r)' /\ Known(r)'
<1>1. HiddenOf(r) /\ Known(r)
  BY DEF KnownInv
<1>2. pc'[r] = "done" /\ result'[r] = "failed" /\ unanswered' = unanswered
  BY DEF Leave, NamedInv, TypeOK, history
<1> QED
  BY <1>1, <1>2 DEF HiddenOf, Known, Is

LEMMA CreateKnown ==
  ASSUME NamedInv, KnownInv, ~blurred', NEW r \in Resources, Create(r)
  PROVE  HiddenOf(r)' /\ Known(r)'
<1> DEFINE c == config[r]
<1>1. pc[r] = "create" /\ c \in Values /\ c.name \in Names /\ UNCHANGED <<kind, keeps, config>>
  BY Handled DEF Create, Execute, At, Values, fixed
<1>2. CASE /\ db' = [db EXCEPT ![c.name] = Created(r, c)] /\ SetState(r, c) /\ Leave(r, "ok")
  <2>1. /\ state'[r] = c /\ pc'[r] = "done" /\ result'[r] = "ok" /\ c \notin {NoState, NoConfig}
        /\ db'[c.name] = Created(r, c)
    BY <1>1, <1>2 DEF NamedInv, TypeOK, SetState, Leave
  <2>2. /\ Created(r, c) # NoObject /\ Created(r, c).kind = kind[r]
        /\ Created(r, c).shown = c.shown
        /\ Created(r, c).hidden = c.hidden \/ (kind[r] = "user" /\ c.shown # ByPassword)
    BY <1>1, CreatedIsObject DEF Created, NamedInv, TypeOK
  <2> HIDE DEF c
  <2>3. HiddenOf(r)'
    BY <1>1, <2>1, <2>2 DEF HiddenOf
  <2>4. Known(r)'
    BY <1>1, <2>1, <2>2 DEF Known, Is, c
  <2> QED
    BY <2>3, <2>4
<1>3. CASE Leave(r, "failed") /\ UNCHANGED <<db, state, history>>
  BY <1>1, <1>3, FailureKnown DEF Idle, history
<1> QED
  BY <1>2, <1>3 DEF Create, Execute, LostIdentity

LEMMA RenameKnown ==
  ASSUME NamedInv, KnownInv, ~blurred, ~blurred', NEW r \in Resources, Rename(r)
  PROVE  HiddenOf(r)' /\ Known(r)'
<1> DEFINE c == config[r]
           old == prior[r].name
           moved == [state[r] EXCEPT !.name = c.name]
<1>1. /\ pc[r] = "rename" /\ c \in Values /\ c.name \in Names /\ old \in Names
      /\ state[r] = prior[r] /\ state[r] \in Values /\ UNCHANGED <<kind, keeps, config>>
  BY Handled DEF Rename, Execute, At, Values, fixed
<1>2. HiddenOf(r) /\ Known(r) /\ Is(old, kind[r]) /\ result[r] = "none" /\ state[r] # NoState
  BY <1>1 DEF KnownInv, Idle, Known
<1>3. CASE /\ db[c.name] = NoObject
           /\ db' = [db EXCEPT ![c.name] = db[old], ![old] = NoObject]
           /\ \/ /\ SetState(r, moved)
                 /\ pc' = [pc EXCEPT ![r] = "alter"] /\ UNCHANGED result
              \/ ~Differs(prior[r], c) /\ SetState(r, c) /\ Leave(r, "ok")
           /\ UNCHANGED unanswered
  <2>1. db'[c.name] = db[old] /\ c.name # old
    BY <1>1, <1>2, <1>3 DEF NamedInv, TypeOK, Is
  <2>2. moved \in Values /\ moved.name = c.name /\ moved.shown = state[r].shown
        /\ moved.hidden = state[r].hidden
    BY <1>1 DEF Values
  <2>3. ~Differs(prior[r], c) => c.shown = state[r].shown /\ c.hidden = state[r].hidden
    BY <1>1 DEF Differs
  <2>4. \/ state'[r] = moved /\ pc'[r] = "alter" /\ result'[r] = "none"
        \/ ~Differs(prior[r], c) /\ state'[r] = c /\ pc'[r] = "done" /\ result'[r] = "ok"
    BY <1>2, <1>3 DEF NamedInv, TypeOK, SetState, Leave
  <2>5. c \notin {NoState, NoConfig} /\ moved # NoState
    BY <1>1, <2>2
  <2> HIDE DEF moved, old
  <2>6. /\ state'[r].name = c.name /\ state'[r] # NoState
        /\ state'[r].shown = state[r].shown /\ state'[r].hidden = state[r].hidden
        /\ pc'[r] # "drop" /\ (pc'[r] # "done" => result'[r] = "none")
        /\ result'[r] = "ok" => state'[r] = c /\ c # NoConfig
    BY <2>2, <2>3, <2>4, <2>5
  <2>7. old = state[r].name
    BY <1>1 DEF old
  <2> HIDE DEF c
  <2>8. HiddenOf(r)'
    BY <1>1, <1>2, <1>3, <2>1, <2>6, <2>7 DEF HiddenOf
  <2>9. Known(r)'
    BY <1>1, <1>2, <2>1, <2>6, <2>7 DEF Known, Is, c
  <2> QED
    BY <2>8, <2>9
<1>4. CASE Leave(r, "failed") /\ UNCHANGED <<db, state, history>>
  BY <1>1, <1>4, FailureKnown DEF Idle, history
<1> QED
  BY <1>3, <1>4 DEF Rename, Execute, LostIdentity

\* What ALTER sets is c's, or is kept where ALTER CONNECTION does not name it.
LEMMA AlteredSets ==
  ASSUME NEW r \in Resources, kind \in KindChoices, NEW c \in Values, NEW old \in Objects
  PROVE  /\ \/ Altered(r, old, c).shown = c.shown
            \/ keeps /\ kind[r] = "connection" /\ c.shown = Nothing
         /\ \/ Altered(r, old, c).hidden = c.hidden
            \/ /\ kind[r] = "connection" /\ c.hidden = Nothing
               /\ Altered(r, old, c).hidden = old.hidden
            \/ kind[r] = "user" /\ Altered(r, old, c).shown # ByPassword
<1> DEFINE new == [Created(r, c) EXCEPT !.by = old.by]
<1>1. /\ new \in Objects /\ new.shown = c.shown
      /\ new.hidden = c.hidden \/ (kind[r] = "user" /\ c.shown # ByPassword)
  BY CreatedIsObject DEF Created, Objects
<1>2. CASE ~(kind[r] = "connection" /\ keeps)
  BY <1>1, <1>2 DEF Altered
<1>3. CASE kind[r] = "connection" /\ keeps
  <2> DEFINE kept == [new EXCEPT !.shown = IF @ = Nothing THEN old.shown ELSE @,
                                 !.hidden = IF @ = Nothing THEN old.hidden ELSE @]
  <2>1. Altered(r, old, c) = kept
    BY <1>3 DEF Altered
  <2> HIDE DEF new
  <2>2. /\ new.shown = c.shown /\ new.hidden = c.hidden
    BY <1>1, <1>3
  <2>3. /\ kept.shown = IF new.shown = Nothing THEN old.shown ELSE new.shown
        /\ kept.hidden = IF new.hidden = Nothing THEN old.hidden ELSE new.hidden
    BY <1>1 DEF Objects
  <2> HIDE DEF kept
  <2> QED
    BY <1>3, <2>1, <2>2, <2>3
<1> QED
  BY <1>2, <1>3

\* An ALTER whose answer is lost leaves a password that unanswered has.
LEMMA AlterKnown ==
  ASSUME NamedInv, KnownInv, ~blurred, ~blurred', NEW r \in Resources, Alter(r)
  PROVE  HiddenOf(r)' /\ Known(r)'
<1> DEFINE c == config[r]
           old == db[c.name]
<1>1. /\ pc[r] = "alter" /\ c \in Values /\ c.name \in Names /\ UNCHANGED <<kind, keeps, config>>
      /\ state[r] \in Values /\ state[r].name = c.name
  BY Handled DEF Alter, Execute, At, Values, fixed
<1>2. ASSUME Is(c.name, kind[r]), db' = [db EXCEPT ![c.name] = Altered(r, @, c)]
      PROVE  /\ old \in Objects /\ kind \in KindChoices
             /\ db'[c.name] = Altered(r, old, c)
             /\ Altered(r, old, c) \in Objects /\ Altered(r, old, c).kind = kind[r]
  <2>1. old \in Objects /\ kind \in KindChoices
    BY <1>1, <1>2 DEF NamedInv, TypeOK, Is
  <2> QED
    BY <1>1, <1>2, <2>1, AlteredIsObject DEF NamedInv, TypeOK
<1>3. CASE /\ Is(c.name, kind[r]) /\ db' = [db EXCEPT ![c.name] = Altered(r, @, c)]
           /\ SetState(r, c) /\ Leave(r, "ok")
  <2>1. state'[r] = c /\ pc'[r] = "done" /\ result'[r] = "ok" /\ c \notin {NoState, NoConfig}
    BY <1>1, <1>3 DEF NamedInv, TypeOK, SetState, Leave
  <2>2. /\ db'[c.name] \in Objects /\ db'[c.name].kind = kind[r]
        /\ db'[c.name].shown = c.shown \/ (keeps /\ kind[r] = "connection" /\ c.shown = Nothing)
        /\ \/ db'[c.name].hidden = c.hidden \/ c.hidden = Nothing
           \/ kind[r] = "user" /\ db'[c.name].shown # ByPassword
    BY <1>1, <1>2, <1>3, AlteredSets
  <2> HIDE DEF c
  <2>3. HiddenOf(r)'
    BY <1>1, <2>1, <2>2 DEF HiddenOf
  <2>4. Known(r)'
    BY <1>1, <2>1, <2>2 DEF Known, Is, c
  <2> QED
    BY <2>3, <2>4
<1>4. CASE Leave(r, "failed") /\ UNCHANGED <<db, state, history>>
  BY <1>1, <1>4, FailureKnown DEF Idle, history
<1>5. CASE /\ Is(c.name, kind[r]) /\ db' = [db EXCEPT ![c.name] = Altered(r, @, c)]
           /\ Leave(r, "failed") /\ LostPassword(r) /\ UNCHANGED state
  <2>1. HiddenOf(r) /\ Known(r)
    BY <1>1 DEF KnownInv, Idle
  <2>2. /\ pc'[r] = "done" /\ result'[r] = "failed" /\ state'[r] = state[r]
        /\ unanswered'[r] = unanswered[r] \cup {c.hidden}
        /\ state[r] # NoState /\ state[r].name = c.name
    BY <1>1, <1>5 DEF NamedInv, TypeOK, Leave, LostPassword
  <2>3. /\ db'[c.name] \in Objects /\ db'[c.name].kind = kind[r]
        /\ \/ db'[c.name].hidden = c.hidden
           \/ kind[r] = "connection" /\ db'[c.name].hidden = old.hidden
           \/ kind[r] = "user" /\ db'[c.name].shown # ByPassword
    BY <1>1, <1>2, <1>5, AlteredSets
  <2>4. HiddenOf(r)'
    BY <1>1, <1>5, <2>1, <2>2, <2>3 DEF HiddenOf, Is
  <2>5. Known(r)'
    BY <1>1, <2>2, <2>3 DEF Known, Is
  <2> QED
    BY <2>4, <2>5
<1> QED
  BY <1>3, <1>4, <1>5 DEF Alter, Execute

LEMMA DropKnown ==
  ASSUME NamedInv, KnownInv, ~blurred', NEW r \in Resources, Drop(r)
  PROVE  HiddenOf(r)' /\ Known(r)'
<1>1. pc[r] = "drop" /\ UNCHANGED <<kind, keeps, config>>
  BY DEF Drop, Execute, At, fixed
<1>2. CASE SetState(r, NoState) /\ Leave(r, "ok") /\ UNCHANGED blurred
  <2>1. state'[r] = NoState /\ pc'[r] = "done" /\ config[r] = NoConfig
    BY <1>1, <1>2 DEF NamedInv, TypeOK, KnownInv, Known, Idle, SetState, Leave
  <2> QED
    BY <1>1, <2>1 DEF HiddenOf, Known
<1>3. CASE Leave(r, "failed") /\ UNCHANGED <<db, state, history>>
  BY <1>1, <1>3, FailureKnown DEF Idle, history
<1> QED
  BY <1>2, <1>3 DEF Drop, Execute, LostIdentity

LEMMA HandlerKnown ==
  ASSUME NamedInv, KnownInv, ~blurred', NEW r \in Resources, Handler(r)
  PROVE  \A q \in Resources : HiddenOf(q)' /\ Known(q)'
<1>1. ~blurred
  BY DEF Handler, Create, Rename, Alter, Drop, Execute, LostIdentity, LostPassword, history
<1>2. HiddenOf(r)' /\ Known(r)'
  BY <1>1, CreateKnown, RenameKnown, AlterKnown, DropKnown DEF Handler
<1> QED
  BY <1>1, <1>2, OthersKnown

-----------------------------------------------------------------------------
\* Another session leaves a password that nobody knows.
LEMMA OutsideKnown ==
  ASSUME NamedInv, KnownInv, Outside, ~blurred', NEW r \in Resources
  PROVE  Idle' /\ HiddenOf(r)'
<1>1. /\ UNCHANGED <<kind, state, pc, unanswered>> /\ Idle' /\ HiddenOf(r)
  BY DEF Outside, fixed, KnownInv, NamedInv, TypeOK, Idle
<1>2. PICK n \in Names :
        \/ db' = [db EXCEPT ![n] = NoObject]
        \/ \E o \in Objects : o.hidden = Elsewhere /\ db' = [db EXCEPT ![n] = o]
  <2>1. PICK n \in Names :
       \/ \E q \in Resources : \E c \in Choices[kind[q]] :
            db' = [db EXCEPT ![n] = [Created(q, c) EXCEPT !.hidden = Elsewhere,
                                                          !.by = Holder(n, kind[q])]]
       \/ db' = [db EXCEPT ![n] = NoObject]
       \/ db[n] # NoObject /\ db' = [db EXCEPT ![n].hidden = Elsewhere]
       \/ /\ db[n] # NoObject
          /\ \E c \in Choices[db[n].kind] :
               db' = [db EXCEPT ![n].shown = c.shown, ![n].hidden = Elsewhere]
    BY DEF Outside
  <2>2. db \in [Names -> Objects \cup {NoObject}] /\ kind \in KindChoices
    BY DEF NamedInv, TypeOK
  <2>3. ASSUME NEW q \in Resources, NEW c \in Choices[kind[q]],
               db' = [db EXCEPT ![n] = [Created(q, c) EXCEPT !.hidden = Elsewhere,
                                                             !.by = Holder(n, kind[q])]]
        PROVE  \E o \in Objects : o.hidden = Elsewhere /\ db' = [db EXCEPT ![n] = o]
    <3> DEFINE o == [Created(q, c) EXCEPT !.hidden = Elsewhere, !.by = Holder(n, kind[q])]
    <3>1. kind[q] \in Kinds /\ c \in Values
      BY <2>2
    <3>2. Created(q, c) \in Objects /\ Holder(n, kind[q]) \in Resources \cup {NoResource}
      BY <2>2, <3>1, CreatedIsObject, HolderHolds
    <3>3. o \in Objects /\ o.hidden = Elsewhere
      BY <3>2 DEF Objects
    <3> QED
      BY <2>3, <3>3
  <2>4. ASSUME db[n] # NoObject, db' = [db EXCEPT ![n].hidden = Elsewhere]
        PROVE  \E o \in Objects : o.hidden = Elsewhere /\ db' = [db EXCEPT ![n] = o]
    <3> DEFINE o == [db[n] EXCEPT !.hidden = Elsewhere]
    <3>1. o \in Objects /\ o.hidden = Elsewhere
      BY <2>2, <2>4 DEF Objects
    <3>2. db' = [db EXCEPT ![n] = o]
      BY <2>2, <2>4
    <3> QED
      BY <3>1, <3>2
  <2>5. ASSUME db[n] # NoObject, NEW c \in Choices[db[n].kind],
               db' = [db EXCEPT ![n].shown = c.shown, ![n].hidden = Elsewhere]
        PROVE  \E o \in Objects : o.hidden = Elsewhere /\ db' = [db EXCEPT ![n] = o]
    <3> DEFINE o == [db[n] EXCEPT !.shown = c.shown, !.hidden = Elsewhere]
    <3>1. db[n] \in Objects /\ db[n].kind \in Kinds
      BY <2>2, <2>5 DEF Objects
    <3>2. c.shown \in Shown
      BY <3>1 DEF Shown
    <3>3. o \in Objects /\ o.hidden = Elsewhere
      BY <3>1, <3>2 DEF Objects
    <3>4. db' = [db EXCEPT ![n] = o]
      BY <2>2, <2>5
    <3> QED
      BY <3>3, <3>4
  <2> QED
    BY <2>1, <2>3, <2>4, <2>5
<1>3. db \in [Names -> Objects \cup {NoObject}]
  BY DEF NamedInv, TypeOK
<1>4. CASE state[r] # NoState /\ state[r].name = n
  <2>1. db'[n] # NoObject => db'[n].hidden = Elsewhere
    BY <1>2, <1>3
  <2> QED
    BY <1>1, <1>4, <2>1 DEF HiddenOf, Is
<1>5. CASE state[r] # NoState /\ state[r].name # n
  <2>1. state[r].name \in Names
    BY <1>5 DEF NamedInv, TypeOK, Values
  <2>2. db'[state[r].name] = db[state[r].name]
    BY <1>2, <1>3, <1>5, <2>1
  <2> QED
    BY <1>1, <2>2 DEF HiddenOf, Is
<1>6. CASE state[r] = NoState
  BY <1>1, <1>6 DEF HiddenOf
<1> QED
  BY <1>1, <1>4, <1>5, <1>6

\* An import knows no password.
LEMMA ImportKnown ==
  ASSUME NamedInv, KnownInv, Import, ~blurred', NEW q \in Resources
  PROVE  Idle' /\ HiddenOf(q)'
<1>1. PICK r \in Resources, n \in Names :
        /\ state[r] = NoState
        /\ \A p \in Resources : state[p] # NoState => state[p].name # n
        /\ state' = [state EXCEPT ![r] = [name |-> n, shown |-> db[n].shown, hidden |-> Nothing]]
        /\ db' = [db EXCEPT ![n].by = r]
  BY DEF Import
<1>2. UNCHANGED <<kind, pc, unanswered>> /\ Idle /\ HiddenOf(q)
  BY DEF Import, fixed, history, KnownInv
<1>3. CASE q = r
  <2>1. state'[r] = [name |-> n, shown |-> db[n].shown, hidden |-> Nothing]
    BY <1>1 DEF NamedInv, TypeOK
  <2>2. state'[r].hidden = Nothing
    BY <2>1
  <2> QED
    BY <1>2, <1>3, <2>2 DEF HiddenOf, Idle
<1>4. CASE q # r
  <2>1. state'[q] = state[q]
    BY <1>1, <1>4 DEF NamedInv, TypeOK
  <2>2. state[q] # NoState => db'[state[q].name] = db[state[q].name]
    BY <1>1 DEF NamedInv, TypeOK, Values
  <2> QED
    BY <1>2, <2>1, <2>2 DEF HiddenOf, Idle, Is
<1> QED
  BY <1>3, <1>4

LEMMA KnownStep ==
  ASSUME NamedInv, KnownInv, [Next]_vars
  PROVE  KnownInv'
<1> SUFFICES ASSUME ~blurred', NEW q \in Resources
             PROVE  HiddenOf(q)' /\ (~Idle' => Known(q)')
  BY DEF KnownInv
<1>1. CASE Refresh
  BY <1>1, RefreshKnown
<1>2. ASSUME NEW r \in Resources, Handler(r) PROVE HiddenOf(q)' /\ Known(q)'
  BY <1>2, HandlerKnown
<1>3. CASE Edit
  BY <1>3 DEF Edit, KnownInv, HiddenOf, Idle, Is, fixed, history
<1>4. CASE Import
  BY <1>4, ImportKnown
<1>5. CASE Outside
  BY <1>5, OutsideKnown
<1>6. CASE UNCHANGED vars
  BY <1>6 DEF vars, fixed, history, KnownInv, HiddenOf, Known, Idle, Is
<1> QED
  BY <1>1, <1>2, <1>3, <1>4, <1>5, <1>6 DEF Next, Step

\* Until blurred, what state says is known to be in the database: passwords at any time,
\* but for other sessions' and unanswered ones, and what a view shows during an apply, in
\* which the handler has not failed.
THEOREM KnownInvariant == Spec => [](NamedInv /\ KnownInv)
<1>1. Init => KnownInv
  <2> SUFFICES ASSUME Init PROVE KnownInv
    OBVIOUS
  <2>1. Idle /\ \A r \in Resources : state[r] = NoState
    BY DEF Init, Idle
  <2> QED
    BY <2>1 DEF KnownInv, HiddenOf
<1>2. NamedInv /\ KnownInv /\ [Next]_vars => KnownInv'
  BY KnownStep
<1> QED
  BY <1>1, <1>2, NamedInvariant, PTL DEF Spec

\* Another session changes the database in every step that it takes between applies.
LEMMA OutsideChanges ==
  ASSUME NamedInv, Outside
  PROVE  db' # db
<1>1. PICK n \in Names :
       \/ /\ db[n] = NoObject
          /\ \E r \in Resources : \E c \in Choices[kind[r]] :
               db' = [db EXCEPT ![n] = [Created(r, c) EXCEPT !.hidden = Elsewhere,
                                                             !.by = Holder(n, kind[r])]]
       \/ db[n] # NoObject /\ db' = [db EXCEPT ![n] = NoObject]
       \/ /\ db[n] # NoObject /\ db[n].hidden # Elsewhere
          /\ db' = [db EXCEPT ![n].hidden = Elsewhere]
       \/ /\ db[n] # NoObject
          /\ \E c \in Choices[db[n].kind] :
               /\ c.shown # db[n].shown
               /\ db' = [db EXCEPT ![n].shown = c.shown, ![n].hidden = Elsewhere]
  BY DEF Outside
<1>2. /\ db \in [Names -> Objects \cup {NoObject}] /\ kind \in KindChoices
      /\ NoObject \notin Objects
  BY DEF NamedInv, TypeOK
<1>3. ASSUME db[n] = NoObject, NEW r \in Resources, NEW c \in Choices[kind[r]]
      PROVE  db # [db EXCEPT ![n] = [Created(r, c) EXCEPT !.hidden = Elsewhere,
                                                          !.by = Holder(n, kind[r])]]
  <2> DEFINE o == [Created(r, c) EXCEPT !.hidden = Elsewhere, !.by = Holder(n, kind[r])]
  <2>1. kind[r] \in Kinds /\ c \in Values
    BY <1>2
  <2>2. Created(r, c) \in Objects /\ Holder(n, kind[r]) \in Resources \cup {NoResource}
    BY <1>2, <2>1, CreatedIsObject, HolderHolds
  <2>3. o \in Objects
    BY <2>2 DEF Objects
  <2> HIDE DEF o
  <2>4. [db EXCEPT ![n] = o][n] # db[n]
    BY <1>2, <1>3, <2>3
  <2> QED
    BY <2>4 DEF o
<1>4. CASE db[n] # NoObject
  <2>1. db[n] \in Objects
    BY <1>2, <1>4
  <2>2. ASSUME db' = [db EXCEPT ![n] = NoObject] PROVE db'[n] # db[n]
    BY <1>2, <1>4, <2>2
  <2>3. ASSUME db[n].hidden # Elsewhere, db' = [db EXCEPT ![n].hidden = Elsewhere]
        PROVE  db'[n] # db[n]
    <3>1. db'[n].hidden = Elsewhere
      BY <1>2, <2>1, <2>3 DEF Objects
    <3> QED
      BY <2>3, <3>1
  <2>4. ASSUME NEW c \in Choices[db[n].kind], c.shown # db[n].shown,
               db' = [db EXCEPT ![n].shown = c.shown, ![n].hidden = Elsewhere]
        PROVE  db'[n] # db[n]
    <3>1. db'[n].shown = c.shown
      BY <1>2, <2>1, <2>4 DEF Objects
    <3> QED
      BY <2>4, <3>1
  <2> QED
    BY <1>1, <1>4, <2>2, <2>3, <2>4
<1> QED
  BY <1>1, <1>3, <1>4

\* Until blurred, a resource whose handler or plan ended well is as configured when the
\* apply is over, whichever statements of this or an earlier apply were refused or failed;
\* after an ALTER that was not answered its password may be there instead.
THEOREM WellConfigured == Spec => SuccessMeansConfigured
<1> DEFINE configured ==
      (Idle => db' = db) /\ edits' = edits /\ Idle' /\ ~blurred' =>
        \A r \in Resources : result'[r] = "ok" => Configured(r)'
           reached(r) == HiddenOf(r) /\ Known(r) /\ result[r] = "ok"
<1>1. NamedInv => \A r \in Resources : reached(r) => Configured(r)
  BY KnownConfigured
<1>2. NamedInv' => (\A r \in Resources : reached(r) => Configured(r))'
  BY <1>1, PTL
<1>3. ASSUME NamedInv, KnownInv, [Next]_vars PROVE [configured]_vars
  <2> SUFFICES ASSUME Next, Idle => db' = db, edits' = edits, Idle', ~blurred',
                      NEW r \in Resources, result'[r] = "ok"
               PROVE  Configured(r)'
    BY <1>3
  <2>1. NamedInv'
    BY <1>3, RefreshKeeps, CreateKeeps, RenameKeeps, AlterKeeps, DropKeeps, EditKeeps,
       ImportKeeps, OutsideKeeps DEF Next, Step, Handler
  <2>2. CASE Refresh
    BY <1>2, <1>3, <2>1, <2>2, RefreshKnown
  <2>3. ASSUME NEW q \in Resources, Handler(q) PROVE Configured(r)'
    BY <1>2, <1>3, <2>1, <2>3, HandlerKnown
  <2>4. ~Edit /\ ~Import
    BY DEF Edit, Import
  <2>5. ~Outside
    BY <1>3, OutsideChanges, OutsideKnown DEF Outside, Idle
  <2> QED
    BY <2>2, <2>3, <2>4, <2>5 DEF Next, Step
<1>4. NamedInv /\ KnownInv /\ [Next]_vars => [configured]_vars
  BY <1>3
<1> QED
  BY <1>4, KnownInvariant, PTL DEF Spec, SuccessMeansConfigured
=============================================================================
