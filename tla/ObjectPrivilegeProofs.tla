------------------------ MODULE ObjectPrivilegeProofs ------------------------
(* Safety of an object privilege over any number of applies, principals, schemas,
   privileges and other sessions. *)
EXTENDS ObjectPrivilege, TLAPS

\* Names are of their kind, also those that the log leads to.
NamesInv ==
  /\ \A o \in Objects : name[o] \in NamesOf(KindOf(o)) \cup {Absent}
  /\ \A n \in Names : log[<<PrincipalKind, n>>] \in Grantees \cup {NoEntry}
                      /\ log[<<SchemaKind, n>>] \in Spellings \cup {NoEntry}

\* What each step was chosen for.
HandlerInv ==
  /\ pc = "idle" => log = EmptyLog /\ prior = NoState
  /\ pc \in {"planned", "look", "run"} => state = prior
  /\ pc = "look" => prior # NoState
  /\ pc \in {"planned", "look"} => result = "none"
  /\ pc \in {"planned", "look"} /\ state # NoState => state.privileges # {}
  /\ pc = "run" => result \in {"none", "failed"} /\ (result = "failed" => config = NoConfig)
  /\ pc = "run" /\ prior = NoState => config # NoConfig
  /\ pc = "finished" => result \in {"ok", "failed"}
  /\ pc = "finished" /\ result = "failed" => state = prior
  /\ pc \in {"idle", "finished"} /\ result = "ok" =>
       IF config = NoConfig THEN state = NoState
       ELSE /\ state # NoState /\ state.grantee = config.grantee
            /\ state.privileges = config.privileges
  /\ pc # "idle" /\ state # NoState => state.target # Unknown
  /\ subject # NoSubject => state # NoState /\ state.target # Unknown

TypesInv == TypeOK /\ NamesInv /\ HandlerInv

-----------------------------------------------------------------------------
\* The names of a kind.
LEMMA Kinds2 ==
  /\ Grantees \subseteq Names /\ Spellings \subseteq Names /\ Absent \notin Names
  /\ Unknown \notin Names /\ PrincipalKind # SchemaKind
  /\ PrincipalKind \in Kinds /\ SchemaKind \in Kinds /\ NoEntry \notin Names
  /\ \A n \in Grantees : Upper[n] = n
  /\ \A n \in Names : Upper[n] \in Names
  /\ \A o \in Objects : KindOf(o) \in {PrincipalKind, SchemaKind}
  /\ \A o \in Principals : KindOf(o) = PrincipalKind /\ o \in Objects
  /\ \A o \in Schemas : KindOf(o) = SchemaKind /\ o \in Objects
  BY ObjectPrivilegeAssumption, NamesAssumption DEF KindOf, Objects

\* What a lookup in the log gives.
LEMMA LookupTypes ==
  ASSUME TypesInv
  PROVE  /\ \A n \in Grantees : /\ LookupGrantee(n) = log[<<PrincipalKind, n>>]
                                /\ LookupGrantee(n) \in Grantees \cup {NoEntry}
                                /\ CurrentName(log, PrincipalKind, n) =
                                     (IF LookupGrantee(n) # NoEntry THEN LookupGrantee(n) ELSE n)
         /\ \A n \in Spellings : /\ LookupSchema(n) = log[<<SchemaKind, n>>]
                                 /\ LookupSchema(n) \in Spellings \cup {NoEntry}
                                 /\ CurrentName(log, SchemaKind, n) =
                                      (IF LookupSchema(n) # NoEntry THEN LookupSchema(n) ELSE n)
  BY Kinds2 DEF TypesInv, NamesInv, LookupGrantee, LookupSchema, Lookup, Key, Normalize, CurrentName

\* A target is a spelling.
LEMMA TargetTypes ==
  ASSUME TypesInv
  PROVE  /\ \A n \in Spellings : ObjectTarget(n) \in Spellings
         /\ state # NoState => ReadTarget \in Spellings
         /\ Unknown \notin Spellings
<1>1. \A n \in Spellings : ObjectTarget(n) \in Spellings
  BY ObjectPrivilegeAssumption DEF ObjectTarget
<1>2. state # NoState => state.spelling \in Spellings /\ state.target \in Spellings \cup {Unknown}
  BY DEF TypesInv, TypeOK, States
<1>3. Unknown \notin Spellings
  BY Kinds2
<1> QED
  BY <1>1, <1>2, <1>3 DEF ReadTarget

\* Fields of a configuration and of a state.
LEMMA FieldTypes ==
  ASSUME TypesInv
  PROVE  /\ config # NoConfig =>
              /\ config.grantee \in Grantees /\ config.spelling \in Spellings
              /\ config.privileges \subseteq Privileges \cup {All} /\ config.privileges # {}
         /\ prior # NoState =>
              /\ prior.grantee \in Grantees /\ prior.spelling \in Spellings
              /\ prior.privileges \subseteq Privileges \cup {All} /\ prior.target \in Spellings
         /\ state # NoState =>
              /\ state.grantee \in Grantees /\ state.spelling \in Spellings
              /\ state.privileges \subseteq Privileges \cup {All}
              /\ state.target \in Spellings \cup {Unknown}
<1>1. config \in Configs \cup {NoConfig} /\ prior \in States \cup {NoState}
      /\ state \in States \cup {NoState} /\ (prior # NoState => prior.target # Unknown)
  BY DEF TypesInv, TypeOK
<1> QED
  BY <1>1, ObjectPrivilegeAssumption DEF States

\* The identities behind a location are one pair at most.
LEMMA OneIdentity ==
  ASSUME TypesInv, NEW loc \in (Names \cup {Absent}) \X (Names \cup {Absent}),
         NEW s \in Identities(loc), NEW t \in Identities(loc),
         Absent \notin {loc[1], loc[2]}
  PROVE  s = t
<1>1. /\ s \in Principals \X Schemas /\ name[s[1]] = loc[1] /\ name[s[2]] = loc[2]
      /\ t \in Principals \X Schemas /\ name[t[1]] = loc[1] /\ name[t[2]] = loc[2]
  BY DEF Identities
<1>2. s[1] = t[1] /\ s[2] = t[2]
  BY <1>1, Kinds2 DEF TypesInv, TypeOK
<1> QED
  BY <1>1, <1>2

-----------------------------------------------------------------------------
\* A subject is one of the identities behind a location, if there are any.
LEMMA ChosenSubject ==
  ASSUME NEW loc, NEW s,
         s = CHOOSE x \in Identities(loc) \cup {NoSubject} : Identities(loc) # {} => x # NoSubject
  PROVE  s \in Identities(loc) \cup {NoSubject} /\ (Identities(loc) # {} => s # NoSubject)
<1>1. NoSubject \notin Identities(loc)
  BY ObjectPrivilegeAssumption DEF Identities
<1>2. \E x \in Identities(loc) \cup {NoSubject} : Identities(loc) # {} => x # NoSubject
  BY <1>1
<1> QED
  BY <1>2

\* What the last step of a handler leaves.
LEMMA SucceedFacts ==
  ASSUME TypesInv, NEW w \in Work, Succeed(w)
  PROVE  /\ pc' = "finished" /\ result' = "ok" /\ work' = NoWork
         /\ config = NoConfig => state' = NoState /\ subject' = NoSubject /\ own' = own \cap held'
         /\ config # NoConfig =>
              /\ state' \in States /\ state' # NoState /\ state'.target \in Spellings
              /\ state'.grantee = config.grantee /\ state'.spelling = config.spelling
              /\ state'.privileges = config.privileges /\ state'.target = w.to[2]
              /\ subject' \in Identities(w.to) \cup {NoSubject}
              /\ Identities(w.to) # {} => subject' # NoSubject
              /\ own' = held' \cap (own \cup UNION {RowsAt(w.to, p) : p \in config.privileges})
<1>1. w.to[2] \in Spellings
  BY DEF Work
<1>2. CASE config # NoConfig
  <2>1. state' = [grantee |-> config.grantee, spelling |-> config.spelling,
                  privileges |-> config.privileges, target |-> w.to[2]]
    BY <1>2 DEF Succeed
  <2>2. state' \in States
    BY <1>1, <1>2, <2>1, FieldTypes DEF States
  <2>3. state' # NoState
    BY <2>2, ObjectPrivilegeAssumption
  <2>4. subject' \in Identities(w.to) \cup {NoSubject} /\ (Identities(w.to) # {} => subject' # NoSubject)
    BY <1>2, ChosenSubject DEF Succeed
  <2> QED
    BY <1>1, <1>2, <2>1, <2>2, <2>3, <2>4 DEF Succeed
<1> QED
  BY <1>2 DEF Succeed

\* What rows there can be.
HeldTypes == held \subseteq {row \in Rows : Absent \notin {name[row[1]], name[row[2]]}}

\* A handler goes on, or ends.
LEMMA ContinueTypes ==
  ASSUME TypesInv, NEW w \in Work, Continue(w), HeldTypes', UNCHANGED <<name, log, config, prior>>,
         pc \in {"planned", "look", "run"}, prior = NoState => config # NoConfig,
         {mishap, touched, split}' \subseteq BOOLEAN
  PROVE  TypesInv'
<1>1. state = prior /\ result \in {"none", "failed"} /\ (result = "failed" => config = NoConfig)
  BY DEF TypesInv, HandlerInv
<1>2. CASE w.revoke \cup w.grant = {} /\ result # "failed"
  <2>1. Succeed(w)
    BY <1>2 DEF Continue
  <2>2. state' \in States \cup {NoState} /\ subject' \in (Principals \X Schemas) \cup {NoSubject}
        /\ own' \subseteq held'
    BY <2>1, SucceedFacts DEF Identities
  <2>3. TypeOK'
    BY <2>1, <2>2, SucceedFacts DEF TypesInv, TypeOK, HeldTypes
  <2>4. NamesInv'
    BY DEF TypesInv, NamesInv
  <2>5. HandlerInv'
    BY <2>1, SucceedFacts, TargetTypes, FieldTypes DEF HandlerInv
  <2> QED
    BY <2>3, <2>4, <2>5 DEF TypesInv
<1>3. CASE ~(w.revoke \cup w.grant = {} /\ result # "failed")
  <2>1. /\ pc' = (IF w.revoke \cup w.grant = {} THEN "finished" ELSE "run")
        /\ work' = w /\ own' = own \cap held' /\ UNCHANGED <<state, subject, result>>
    BY <1>3 DEF Continue
  <2>2. w # NoWork
    BY ObjectPrivilegeAssumption
  <2>3. TypeOK'
    BY <2>1, <2>2 DEF TypesInv, TypeOK, HeldTypes
  <2>4. NamesInv'
    BY DEF TypesInv, NamesInv
  <2>5. HandlerInv'
    BY <1>1, <1>3, <2>1 DEF TypesInv, HandlerInv
  <2> QED
    BY <2>3, <2>4, <2>5 DEF TypesInv
<1> QED
  BY <1>2, <1>3

\* A handler ends with an error.
LEMMA FailTypes ==
  ASSUME TypesInv, Fail, HeldTypes', own' \subseteq held', UNCHANGED <<name, log, config, prior>>,
         pc \in {"look", "run"}, {mishap, touched, split}' \subseteq BOOLEAN
  PROVE  TypesInv'
<1>1. state' = prior' /\ pc' = "finished" /\ result' = "failed" /\ UNCHANGED <<state, subject, work>>
  BY DEF TypesInv, HandlerInv, Fail
<1>2. TypeOK'
  BY <1>1 DEF TypesInv, TypeOK, HeldTypes
<1>3. NamesInv'
  BY DEF TypesInv, NamesInv
<1>4. HandlerInv'
  BY <1>1 DEF TypesInv, HandlerInv
<1> QED
  BY <1>2, <1>3, <1>4 DEF TypesInv

\* What a refresh finds.
LEMMA RefreshedFacts ==
  ASSUME TypesInv, Refreshed # NoState
  PROVE  /\ state # NoState /\ Refreshed \in States
         /\ Refreshed.grantee = state.grantee /\ Refreshed.spelling = state.spelling
         /\ Refreshed.target = ReadTarget /\ ReadTarget \in Spellings
         /\ Refreshed.privileges =
              {p \in state.privileges : PrivilegeExists(<<state.grantee, ReadTarget>>, p)}
         /\ Refreshed.privileges # {}
<1> DEFINE found == {p \in state.privileges : PrivilegeExists(<<state.grantee, ReadTarget>>, p)}
<1>1. state # NoState /\ found # {} /\ Refreshed = [state EXCEPT !.privileges = found, !.target = ReadTarget]
  BY DEF Refreshed
<1>2. state \in States /\ ReadTarget \in Spellings
  BY <1>1, TargetTypes DEF TypesInv, TypeOK
<1>3. found \subseteq Privileges \cup {All}
  BY <1>2 DEF States
<1> HIDE DEF found
<1>4. /\ Refreshed \in States /\ Refreshed.grantee = state.grantee
      /\ Refreshed.spelling = state.spelling /\ Refreshed.target = ReadTarget
      /\ Refreshed.privileges = found
  BY <1>1, <1>2, <1>3 DEF States
<1> QED
  BY <1>1, <1>2, <1>4 DEF found

\* A row for a privilege at a location belongs to identities behind it.
LEMMA RowFacts ==
  ASSUME NEW loc, NEW p, NEW row
  PROVE  row \in RowsAt(loc, p) <=>
           row \in Rows /\ <<row[1], row[2]>> \in Identities(loc) /\ p \in {row[3], All}
  BY DEF RowsAt, Identities, Rows

\* And what the resource is about then.
LEMMA AdoptedFacts ==
  ASSUME TypesInv
  PROVE  /\ Refreshed = NoState => Adopted = <<NoSubject, own>>
         /\ Refreshed # NoState /\ state.target # Unknown => Adopted = <<subject, own>>
         /\ Refreshed # NoState /\ state.target = Unknown =>
              /\ Adopted[1] \in Identities(<<state.grantee, ReadTarget>>)
              /\ Adopted[2] = held \cap UNION {RowsAt(<<state.grantee, ReadTarget>>, p) :
                                                 p \in state.privileges}
<1>1. CASE Refreshed # NoState /\ state.target = Unknown
  <2> DEFINE loc == <<state.grantee, ReadTarget>>
  <2>1. PICK p \in state.privileges : PrivilegeExists(loc, p)
    BY <1>1, RefreshedFacts
  <2>2. PICK row \in held : row \in RowsAt(loc, p)
    BY <2>1 DEF PrivilegeExists
  <2>3. Identities(loc) # {}
    BY <2>2, RowFacts
  <2>4. Adopted = <<CHOOSE s \in Identities(loc) : TRUE,
                    held \cap UNION {RowsAt(loc, q) : q \in state.privileges}>>
    BY <1>1 DEF Adopted
  <2>5. (CHOOSE s \in Identities(loc) : TRUE) \in Identities(loc)
    BY <2>3
  <2> HIDE DEF loc
  <2>6. Adopted[1] \in Identities(loc)
        /\ Adopted[2] = held \cap UNION {RowsAt(loc, q) : q \in state.privileges}
    BY <2>4, <2>5
  <2> QED
    BY <1>1, <2>6 DEF loc
<1> QED
  BY <1>1 DEF Adopted

LEMMA RefreshTypes == TypesInv /\ Refresh => TypesInv'
<1> SUFFICES ASSUME TypesInv, Refresh PROVE TypesInv'
  OBVIOUS
<1>1. CASE /\ state' = Refreshed /\ prior' = Refreshed /\ subject' = Adopted[1] /\ own' = Adopted[2]
           /\ pc' = "planned" /\ result' = "none" /\ mishap' = FALSE /\ touched' = FALSE
           /\ UNCHANGED events
  <2>1. Refreshed \in States \cup {NoState} /\ (Refreshed # NoState => Refreshed.target # Unknown)
    BY RefreshedFacts, TargetTypes
  <2>2. Adopted[1] \in (Principals \X Schemas) \cup {NoSubject} /\ Adopted[2] \subseteq held
    BY AdoptedFacts DEF TypesInv, TypeOK, Identities
  <2>3. UNCHANGED <<name, held, log, config, work, split>>
    BY DEF Refresh
  <2>4. TypeOK'
    BY <1>1, <2>1, <2>2, <2>3 DEF TypesInv, TypeOK
  <2>5. NamesInv'
    BY <2>3 DEF TypesInv, NamesInv
  <2>6. HandlerInv'
    BY <1>1, <2>1, RefreshedFacts, AdoptedFacts DEF TypesInv, HandlerInv
  <2> QED
    BY <2>4, <2>5, <2>6 DEF TypesInv
<1>2. CASE /\ state # NoState /\ Event
           /\ result' = "failed" /\ mishap' = TRUE
           /\ UNCHANGED <<own, state, prior, subject, pc, touched>>
  <2>1. UNCHANGED <<name, held, log, config, work, split>> /\ pc = "idle"
    BY DEF Refresh
  <2>2. TypeOK'
    BY <1>2, <2>1 DEF TypesInv, TypeOK
  <2>3. NamesInv'
    BY <2>1 DEF TypesInv, NamesInv
  <2>4. HandlerInv'
    BY <1>2, <2>1 DEF TypesInv, HandlerInv
  <2> QED
    BY <2>2, <2>3, <2>4 DEF TypesInv
<1> QED
  BY <1>1, <1>2 DEF Refresh

\* The work that a handler begins with.
LEMMA NothingTypes ==
  ASSUME NEW loc \in Grantees \X Spellings, NEW P \in SUBSET (Privileges \cup {All})
  PROVE  /\ Nothing(loc) \in Work
         /\ [Nothing(loc) EXCEPT !.grant = P] \in Work
         /\ [Nothing(loc) EXCEPT !.revoke = P] \in Work
  BY DEF Nothing, Work

LEMMA BeginTypes == TypesInv /\ Begin => TypesInv'
<1> SUFFICES ASSUME TypesInv, Begin PROVE TypesInv'
  OBVIOUS
<1>1. pc = "planned" /\ UNCHANGED <<name, held, log, config, prior, mishap, touched, split>>
  BY DEF Begin
<1>2. HeldTypes' /\ {mishap, touched, split}' \subseteq BOOLEAN
  BY <1>1 DEF TypesInv, TypeOK, HeldTypes
<1>3. CASE /\ \/ prior = NoState /\ config = NoConfig
              \/ prior # NoState /\ config # NoConfig /\ ~Differs
           /\ pc' = "finished" /\ result' = "ok" /\ UNCHANGED <<own, state, subject, work>>
  BY <1>1, <1>3 DEF TypesInv, TypeOK, NamesInv, HandlerInv, Differs
<1>4. CASE /\ prior = NoState /\ config # NoConfig
           /\ Continue([Nothing(<<config.grantee, config.spelling>>) EXCEPT
                          !.grant = config.privileges])
  <2>1. [Nothing(<<config.grantee, config.spelling>>) EXCEPT !.grant = config.privileges] \in Work
    BY <1>4, FieldTypes, NothingTypes
  <2> QED
    BY <1>1, <1>2, <1>4, <2>1, ContinueTypes
<1>5. CASE /\ prior # NoState /\ (config # NoConfig => Differs)
           /\ pc' = "look" /\ UNCHANGED <<own, state, subject, work, result>>
  BY <1>1, <1>5 DEF TypesInv, TypeOK, NamesInv, HandlerInv
<1> QED
  BY <1>3, <1>4, <1>5 DEF Begin

\* Where an Update grants, and what it has to do.
LEMMA UpdateTypes ==
  ASSUME TypesInv, prior # NoState, config # NoConfig
  PROVE  /\ <<config.grantee, NewTarget>> \in Grantees \X Spellings
         /\ MoveWork(<<config.grantee, NewTarget>>) \in Work
         /\ DiffWork(<<config.grantee, NewTarget>>) \in Work
<1> DEFINE to == <<config.grantee, NewTarget>>
           from == <<ResolveGrantee(prior.grantee, to[1]), ResolveKnownObject(prior.target)>>
<1>1. NewTarget \in Spellings
  BY FieldTypes, TargetTypes DEF NewTarget
<1>2. to \in Grantees \X Spellings
  BY <1>1, FieldTypes
<1>3. from \in (Grantees \cup {Absent}) \X (Spellings \cup {Absent})
  BY FieldTypes, LookupTypes DEF ResolveGrantee, ResolveKnownObject
<1>4. MoveWork(to) \in Work
  <2>1. MoveWork(to) =
          [from |-> from, to |-> to,
           revoke |-> IF Absent \in {from[1], from[2]} THEN {}
                      ELSE prior.privileges \ (IF from = to THEN config.privileges ELSE {}),
           grant |-> config.privileges, asks |-> TRUE]
    BY DEF MoveWork
  <2> HIDE DEF from, to
  <2> QED
    BY <1>2, <1>3, <2>1, FieldTypes DEF Work
<1>5. DiffWork(to) \in Work
  BY <1>2, FieldTypes DEF Work, DiffWork
<1> QED
  BY <1>2, <1>4, <1>5

LEMMA LookUpdateTypes == TypesInv /\ LookUpdate => TypesInv'
<1> SUFFICES ASSUME TypesInv, LookUpdate PROVE TypesInv'
  OBVIOUS
<1> DEFINE to == <<config.grantee, NewTarget>>
<1>1. /\ pc = "look" /\ config # NoConfig /\ prior # NoState
      /\ UNCHANGED <<name, held, log, config, prior, mishap, touched, split>>
  BY DEF LookUpdate, TypesInv, HandlerInv
<1>2. HeldTypes' /\ {mishap, touched, split}' \subseteq BOOLEAN
  BY <1>1 DEF TypesInv, TypeOK, HeldTypes
<1>3. MoveWork(to) \in Work /\ DiffWork(to) \in Work
  BY <1>1, UpdateTypes
<1>4. Continue(DiffWork(to)) \/ Continue(MoveWork(to)) \/ (Fail /\ UNCHANGED own)
  BY DEF LookUpdate
<1> HIDE DEF to
<1>5. CASE Continue(DiffWork(to)) \/ Continue(MoveWork(to))
  BY <1>1, <1>2, <1>3, <1>5, ContinueTypes
<1>6. CASE Fail /\ UNCHANGED own
  BY <1>1, <1>2, <1>6, FailTypes DEF TypesInv, TypeOK
<1> QED
  BY <1>4, <1>5, <1>6

\* What a Delete has to do.
DeleteWork ==
  LET grantee == CurrentName(log, PrincipalKind, prior.grantee)
      target == ResolveKnownObject(prior.target) IN
  IF target = Absent THEN Nothing(<<prior.grantee, prior.target>>)
  ELSE [Nothing(<<grantee, target>>) EXCEPT !.revoke = prior.privileges]

LEMMA DeleteTypes ==
  ASSUME TypesInv, prior # NoState
  PROVE  DeleteWork \in Work
<1>1. CurrentName(log, PrincipalKind, prior.grantee) \in Grantees
  BY FieldTypes, LookupTypes
<1>2. ResolveKnownObject(prior.target) \in Spellings \cup {Absent}
  BY FieldTypes, LookupTypes DEF ResolveKnownObject
<1> QED
  BY <1>1, <1>2, FieldTypes, NothingTypes DEF DeleteWork

LEMMA LookDeleteTypes == TypesInv /\ LookDelete => TypesInv'
<1> SUFFICES ASSUME TypesInv, LookDelete PROVE TypesInv'
  OBVIOUS
<1>1. /\ pc = "look" /\ config = NoConfig /\ prior # NoState /\ Continue(DeleteWork)
      /\ UNCHANGED <<name, held, log, config, prior, mishap, touched, split>>
  BY DEF LookDelete, TypesInv, HandlerInv, DeleteWork
<1>2. HeldTypes' /\ {mishap, touched, split}' \subseteq BOOLEAN
  BY <1>1 DEF TypesInv, TypeOK, HeldTypes
<1> QED
  BY <1>1, <1>2, DeleteTypes, ContinueTypes

LEMMA QueryTypes == TypesInv /\ QueryFails => TypesInv'
<1> SUFFICES ASSUME TypesInv, QueryFails PROVE TypesInv'
  OBVIOUS
<1>1. /\ pc \in {"look", "run"} /\ Fail /\ mishap' = TRUE
      /\ UNCHANGED <<name, held, own, log, config, prior, touched, split>>
  BY DEF QueryFails
<1>2. HeldTypes' /\ own' \subseteq held' /\ {mishap, touched, split}' \subseteq BOOLEAN
  BY <1>1 DEF TypesInv, TypeOK, HeldTypes
<1> QED
  BY <1>1, <1>2, FailTypes

\* A step of the work: the statement or query about privilege p is done or not.
LEMMA RestTypes ==
  ASSUME TypesInv, pc = "run", NEW p
  PROVE  /\ [work EXCEPT !.revoke = @ \ {p}] \in Work /\ [work EXCEPT !.grant = @ \ {p}] \in Work
         /\ work \in Work
         /\ HeldTypes /\ held \ RowsAt(work.from, p) \subseteq held
         /\ held \cup RowsAt(work.to, p) \subseteq
              {row \in Rows : Absent \notin {name[row[1]], name[row[2]]}}
<1>1. work \in Work
  BY DEF TypesInv, TypeOK
<1>2. /\ [work EXCEPT !.revoke = @ \ {p}] \in Work /\ [work EXCEPT !.grant = @ \ {p}] \in Work
  BY <1>1 DEF Work
<1>3. work.to \in Grantees \X Spellings
  BY <1>1 DEF Work
<1>4. RowsAt(work.to, p) \subseteq {row \in Rows : Absent \notin {name[row[1]], name[row[2]]}}
  BY <1>3, Kinds2 DEF RowsAt
<1>5. HeldTypes
  BY DEF TypesInv, TypeOK, HeldTypes
<1> QED
  BY <1>1, <1>2, <1>4, <1>5 DEF HeldTypes

LEMMA RevokeTypes == TypesInv /\ RevokeNext => TypesInv'
<1> SUFFICES ASSUME TypesInv, RevokeNext PROVE TypesInv'
  OBVIOUS
<1>1. PICK p \in work.revoke :
        LET rest == [work EXCEPT !.revoke = @ \ {p}] IN
        IF PrivilegeExists(work.from, p)
          THEN Execute(TRUE, held \ RowsAt(work.from, p), Continue(rest), RevokeFailed(rest))
          ELSE Skip(rest)
  BY DEF RevokeNext
<1> DEFINE rest == [work EXCEPT !.revoke = @ \ {p}]
<1>2. /\ pc = "run" /\ UNCHANGED <<name, log, config, prior, touched, split>>
      /\ held' \subseteq held /\ mishap' \in BOOLEAN
      /\ Continue(rest) \/ RevokeFailed(rest)
  BY <1>1 DEF RevokeNext, Execute, Skip, TypesInv, TypeOK
<1>3. rest \in Work /\ HeldTypes' /\ {mishap, touched, split}' \subseteq BOOLEAN
  BY <1>2, RestTypes DEF HeldTypes, TypesInv, TypeOK
<1>4. prior = NoState => config # NoConfig
  BY <1>2 DEF TypesInv, HandlerInv
<1> HIDE DEF rest
<1>5. CASE Continue(rest)
  BY <1>2, <1>3, <1>4, <1>5, ContinueTypes
<1>6. CASE Fail /\ own' = own \cap held'
  BY <1>2, <1>3, <1>6, FailTypes
<1>7. CASE /\ config = NoConfig /\ result' = "failed" /\ work' = rest
           /\ pc' = (IF rest.revoke = {} THEN "finished" ELSE "run")
           /\ own' = own \cap held' /\ UNCHANGED <<state, subject>>
  <2>1. rest # NoWork
    BY <1>3, ObjectPrivilegeAssumption
  <2>2. TypeOK'
    BY <1>2, <1>3, <1>7, <2>1 DEF TypesInv, TypeOK, HeldTypes
  <2>3. NamesInv'
    BY <1>2 DEF TypesInv, NamesInv
  <2>4. HandlerInv'
    BY <1>2, <1>4, <1>7 DEF TypesInv, HandlerInv
  <2> QED
    BY <2>2, <2>3, <2>4 DEF TypesInv
<1> QED
  BY <1>2, <1>5, <1>6, <1>7 DEF RevokeFailed

LEMMA GrantTypes == TypesInv /\ GrantNext => TypesInv'
<1> SUFFICES ASSUME TypesInv, GrantNext PROVE TypesInv'
  OBVIOUS
<1>1. PICK p \in work.grant :
        LET rest == [work EXCEPT !.grant = @ \ {p}] IN
        IF work.asks /\ p # All /\ PrivilegeExists(work.to, p)
          THEN Skip(rest)
          ELSE Execute(RowsAt(work.to, p) # {}, held \cup RowsAt(work.to, p),
                       Continue(rest), Fail /\ own' = own \cap held')
  BY DEF GrantNext
<1> DEFINE rest == [work EXCEPT !.grant = @ \ {p}]
<1>2. /\ pc = "run" /\ UNCHANGED <<name, log, config, prior, touched, split>>
      /\ held' \in {held, held \cup RowsAt(work.to, p)} /\ mishap' \in BOOLEAN
      /\ Continue(rest) \/ (Fail /\ own' = own \cap held')
  BY <1>1 DEF GrantNext, Execute, Skip, TypesInv, TypeOK
<1>3. rest \in Work /\ HeldTypes' /\ {mishap, touched, split}' \subseteq BOOLEAN
  BY <1>2, RestTypes DEF HeldTypes, TypesInv, TypeOK
<1>4. prior = NoState => config # NoConfig
  BY <1>2 DEF TypesInv, HandlerInv
<1> HIDE DEF rest
<1>5. CASE Continue(rest)
  BY <1>2, <1>3, <1>4, <1>5, ContinueTypes
<1>6. CASE Fail /\ own' = own \cap held'
  BY <1>2, <1>3, <1>6, FailTypes
<1> QED
  BY <1>2, <1>5, <1>6

\* The log after a rename.
LEMMA RecordFacts ==
  ASSUME TypesInv, NEW o \in Objects, NEW n \in NamesOf(KindOf(o)), name[o] # Absent,
         \A m \in Names : log[<<KindOf(o), m>>] # name[o]
  PROVE  /\ name[o] \in NamesOf(KindOf(o)) /\ name[o] \in Names /\ n \in Names /\ n # Absent
         /\ Record(log, KindOf(o), name[o], n) =
              [log EXCEPT ![<<KindOf(o), name[o]>>] = n]
         /\ <<KindOf(o), name[o]>> \in Keys
<1>1. name[o] \in NamesOf(KindOf(o)) /\ name[o] \in Names /\ n \in Names /\ n # Absent
  BY Kinds2 DEF TypesInv, NamesInv, NamesOf
<1>2. Normalize(KindOf(o), name[o]) = name[o] /\ Normalize(KindOf(o), n) = n
  BY <1>1, Kinds2 DEF Normalize, NamesOf, TypesInv, NamesInv
<1>3. log \in [Keys -> Names \cup {NoEntry}] /\ <<KindOf(o), name[o]>> \in Keys
  BY <1>1, Kinds2 DEF TypesInv, TypeOK, Logs, Keys
<1>4. \A e \in Keys : e[1] = KindOf(o) /\ log[e] # NoEntry =>
        Key(KindOf(o), log[e]) # Key(KindOf(o), name[o])
  <2> SUFFICES ASSUME NEW m \in Names, log[<<KindOf(o), m>>] # NoEntry
               PROVE  Normalize(KindOf(o), log[<<KindOf(o), m>>]) # name[o]
    BY <1>2 DEF Key, Keys
  <2>1. CASE KindOf(o) = PrincipalKind
    BY <2>1, Kinds2 DEF Normalize, TypesInv, NamesInv
  <2>2. CASE KindOf(o) = SchemaKind
    BY <2>2 DEF Normalize
  <2> QED
    BY <2>1, <2>2, Kinds2
<1>5. Record(log, KindOf(o), name[o], n) =
        [e \in Keys |-> IF e = <<KindOf(o), name[o]>> THEN n ELSE log[e]]
  BY <1>2, <1>4 DEF Record, Key
<1> QED
  BY <1>1, <1>3, <1>5

LEMMA RenameTypes == TypesInv /\ Rename => TypesInv'
<1> SUFFICES ASSUME TypesInv, Rename PROVE TypesInv'
  OBVIOUS
<1>0. PICK o \in Objects : \E n \in NamesOf(KindOf(o)) :
        /\ name[o] # Absent /\ ~Exists(KindOf(o), n)
        /\ \A m \in Names : log[<<KindOf(o), m>>] # name[o]
        /\ name' = [name EXCEPT ![o] = n]
        /\ log' = Record(log, KindOf(o), name[o], n)
        /\ pc \in {"planned", "finished", "run"}
        /\ split' \in {split, TRUE}
  BY DEF Rename
<1>1. PICK n \in NamesOf(KindOf(o)) :
        /\ name[o] # Absent /\ ~Exists(KindOf(o), n)
        /\ \A m \in Names : log[<<KindOf(o), m>>] # name[o]
        /\ name' = [name EXCEPT ![o] = n]
        /\ log' = Record(log, KindOf(o), name[o], n)
        /\ pc \in {"planned", "finished", "run"}
        /\ split' \in {split, TRUE}
  BY <1>0
<1>2. UNCHANGED <<held, own, state, config, pc, prior, work, subject, result, mishap, touched>>
  BY DEF Rename
<1>3. log' = [log EXCEPT ![<<KindOf(o), name[o]>>] = n] /\ n \in Names /\ n # Absent
      /\ <<KindOf(o), name[o]>> \in Keys
  BY <1>1, RecordFacts
<1>4. name \in [Objects -> Names \cup {Absent}] /\ log \in [Keys -> Names \cup {NoEntry}]
  BY DEF TypesInv, TypeOK, Logs
<1>5. TypeOK'
  <2>1. name' \in [Objects -> Names \cup {Absent}] /\ log' \in Logs
    BY <1>1, <1>3, <1>4 DEF Logs
  <2>2. \A p, q \in Objects : KindOf(p) = KindOf(q) /\ name'[p] = name'[q] => p = q \/ name'[p] = Absent
    BY <1>1, <1>4 DEF Exists, TypesInv, TypeOK
  <2>3. \A p \in Objects : name'[p] = Absent => name[p] = Absent
    BY <1>1, <1>3, <1>4
  <2>4. held \subseteq {row \in Rows : Absent \notin {name'[row[1]], name'[row[2]]}}
    BY <2>3, Kinds2 DEF TypesInv, TypeOK, Rows
  <2> QED
    BY <1>1, <1>2, <2>1, <2>2, <2>4 DEF TypesInv, TypeOK
<1>6. NamesInv'
  <2>1. \A p \in Objects : name'[p] \in NamesOf(KindOf(p)) \cup {Absent}
    BY <1>1, <1>4 DEF TypesInv, NamesInv
  <2>2. \A m \in Names : /\ log'[<<PrincipalKind, m>>] \in Grantees \cup {NoEntry}
                         /\ log'[<<SchemaKind, m>>] \in Spellings \cup {NoEntry}
    <3> SUFFICES ASSUME NEW m \in Names
                 PROVE  /\ log'[<<PrincipalKind, m>>] \in Grantees \cup {NoEntry}
                        /\ log'[<<SchemaKind, m>>] \in Spellings \cup {NoEntry}
      OBVIOUS
    <3>1. <<PrincipalKind, m>> \in Keys /\ <<SchemaKind, m>> \in Keys
      BY Kinds2 DEF Keys
    <3>2. n \in (IF KindOf(o) = PrincipalKind THEN Grantees ELSE Spellings)
      BY DEF NamesOf
    <3> QED
      BY <1>3, <1>4, <3>1, <3>2, Kinds2 DEF TypesInv, NamesInv
  <2> QED
    BY <2>1, <2>2 DEF NamesInv
<1>7. HandlerInv'
  BY <1>1, <1>2 DEF TypesInv, HandlerInv
<1> QED
  BY <1>5, <1>6, <1>7 DEF TypesInv

LEMMA OutsideTypes == TypesInv /\ Outside => TypesInv'
<1> SUFFICES ASSUME TypesInv, Outside PROVE TypesInv'
  OBVIOUS
<1>1. /\ UNCHANGED <<log, state, config, pc, prior, work, subject, result, mishap, split>>
      /\ touched' = TRUE
  BY DEF Outside
<1>2. name \in [Objects -> Names \cup {Absent}]
  BY DEF TypesInv, TypeOK
<1>3. HandlerInv'
  BY <1>1 DEF TypesInv, HandlerInv
<1>4. CASE \E o \in Schemas, n \in Spellings :
             /\ name[o] = Absent /\ ~Exists(SchemaKind, n)
             /\ name' = [name EXCEPT ![o] = n] /\ UNCHANGED <<held, own>>
  <2>1. PICK o \in Schemas, n \in Spellings :
             /\ name[o] = Absent /\ ~Exists(SchemaKind, n)
             /\ name' = [name EXCEPT ![o] = n] /\ UNCHANGED <<held, own>>
    BY <1>4
  <2>2. o \in Objects /\ n \in Names /\ n # Absent /\ KindOf(o) = SchemaKind /\ n \in NamesOf(KindOf(o))
    BY Kinds2 DEF NamesOf
  <2>3. \A p, q \in Objects : KindOf(p) = KindOf(q) /\ name'[p] = name'[q] => p = q \/ name'[p] = Absent
    BY <1>2, <2>1, <2>2 DEF Exists, TypesInv, TypeOK
  <2>4. \A p \in Objects : name'[p] = Absent => name[p] = Absent
    BY <1>2, <2>1, <2>2
  <2>5. held \subseteq {row \in Rows : Absent \notin {name'[row[1]], name'[row[2]]}}
    BY <2>4, Kinds2 DEF TypesInv, TypeOK, Rows
  <2>6. name' \in [Objects -> Names \cup {Absent}]
    BY <1>2, <2>1, <2>2
  <2>7. TypeOK'
    BY <1>1, <2>1, <2>3, <2>5, <2>6 DEF TypesInv, TypeOK
  <2>8. NamesInv'
    BY <1>1, <1>2, <2>1, <2>2 DEF TypesInv, NamesInv
  <2> QED
    BY <1>3, <2>7, <2>8 DEF TypesInv
<1>5. CASE \E o \in Objects :
             /\ name[o] # Absent /\ name' = [name EXCEPT ![o] = Absent]
             /\ held' = {row \in held : o \notin {row[1], row[2]}}
             /\ own' = own \cap held'
  <2>1. PICK o \in Objects :
             /\ name[o] # Absent /\ name' = [name EXCEPT ![o] = Absent]
             /\ held' = {row \in held : o \notin {row[1], row[2]}}
             /\ own' = own \cap held'
    BY <1>5
  <2>2. name' \in [Objects -> Names \cup {Absent}]
    BY <1>2, <2>1
  <2>3. \A p \in Objects : name'[p] = IF p = o THEN Absent ELSE name[p]
    BY <1>2, <2>1
  <2>4. \A p, q \in Objects : KindOf(p) = KindOf(q) /\ name'[p] = name'[q] => p = q \/ name'[p] = Absent
    BY <2>3 DEF TypesInv, TypeOK
  <2>5. \A row \in held' : row \in Rows /\ Absent \notin {name'[row[1]], name'[row[2]]}
    <3> SUFFICES ASSUME NEW row \in held' PROVE row \in Rows /\ Absent \notin {name'[row[1]], name'[row[2]]}
      OBVIOUS
    <3>1. row \in Rows /\ Absent \notin {name[row[1]], name[row[2]]} /\ o \notin {row[1], row[2]}
      BY <2>1 DEF TypesInv, TypeOK
    <3>2. row[1] \in Objects /\ row[2] \in Objects
      BY <3>1, Kinds2 DEF Rows
    <3> QED
      BY <2>3, <3>1, <3>2
  <2>6. TypeOK'
    BY <1>1, <2>1, <2>2, <2>4, <2>5 DEF TypesInv, TypeOK
  <2>7. NamesInv'
    BY <1>1, <2>3 DEF TypesInv, NamesInv
  <2> QED
    BY <1>3, <2>6, <2>7 DEF TypesInv
<1>6. CASE \E row \in held : held' = held \ {row} /\ own' = own \ {row} /\ UNCHANGED name
  <2>1. TypeOK'
    BY <1>1, <1>6 DEF TypesInv, TypeOK
  <2>2. NamesInv'
    BY <1>1, <1>6 DEF TypesInv, NamesInv
  <2> QED
    BY <1>3, <2>1, <2>2 DEF TypesInv
<1> QED
  BY <1>4, <1>5, <1>6 DEF Outside

LEMMA FinishTypes == TypesInv /\ Finish => TypesInv'
<1> SUFFICES ASSUME TypesInv, Finish PROVE TypesInv'
  OBVIOUS
<1>1. /\ pc = "finished" /\ pc' = "idle" /\ log' = EmptyLog /\ prior' = NoState /\ work' = NoWork
      /\ UNCHANGED <<name, held, own, state, config, subject, result, mishap, touched>>
  BY DEF Finish
<1>2. split' \in BOOLEAN
  BY Zenon DEF Finish
<1>3. EmptyLog \in Logs /\ \A e \in Keys : EmptyLog[e] = NoEntry
  BY DEF EmptyLog, Logs
<1>4. TypeOK'
  BY <1>1, <1>2, <1>3 DEF TypesInv, TypeOK
<1>5. NamesInv'
  BY <1>1, <1>3, Kinds2 DEF TypesInv, NamesInv, Keys
<1>6. HandlerInv'
  BY <1>1 DEF TypesInv, HandlerInv
<1> QED
  BY <1>4, <1>5, <1>6 DEF TypesInv

LEMMA EditTypes == TypesInv /\ Edit => TypesInv'
<1> SUFFICES ASSUME TypesInv, Edit PROVE TypesInv'
  OBVIOUS
<1>1. TypeOK'
  BY DEF Edit, TypesInv, TypeOK
<1>2. NamesInv'
  BY DEF Edit, TypesInv, NamesInv
<1>3. HandlerInv'
  BY DEF Edit, TypesInv, HandlerInv
<1> QED
  BY <1>1, <1>2, <1>3 DEF TypesInv

LEMMA TypesStep == TypesInv /\ [Next]_vars => TypesInv'
<1> SUFFICES ASSUME TypesInv, [Next]_vars PROVE TypesInv'
  OBVIOUS
<1>1. CASE UNCHANGED vars
  BY <1>1 DEF vars, TypesInv, TypeOK, NamesInv, HandlerInv
<1> QED
  BY <1>1, RefreshTypes, BeginTypes, LookUpdateTypes, LookDeleteTypes, QueryTypes, RevokeTypes,
     GrantTypes, FinishTypes, RenameTypes, EditTypes, OutsideTypes DEF Next, Step

LEMMA TypesInit == Init => TypesInv
<1> SUFFICES ASSUME Init PROVE TypesInv
  OBVIOUS
<1>1. /\ name \in [Objects -> Names \cup {Absent}] /\ \A o \in Objects : name[o] \in NamesOf(KindOf(o)) \cup {Absent}
      /\ \A o, q \in Objects : KindOf(o) = KindOf(q) /\ name[o] = name[q] => o = q \/ name[o] = Absent
  BY ObjectPrivilegeAssumption DEF Init
<1>2. EmptyLog \in Logs /\ \A e \in Keys : EmptyLog[e] = NoEntry
  BY DEF EmptyLog, Logs
<1>3. config \in Configs /\ config # NoConfig
  BY ObjectPrivilegeAssumption DEF Init
<1>4. held \subseteq {row \in Rows : Absent \notin {name[row[1]], name[row[2]]}}
  BY DEF Init
<1>5. state \in States \cup {NoState}
  BY <1>3, ObjectPrivilegeAssumption DEF Init, States
<1>6. TypeOK
  BY <1>1, <1>2, <1>3, <1>4, <1>5 DEF Init, TypeOK
<1>7. NamesInv
  BY <1>1, <1>2, Kinds2 DEF Init, NamesInv, Keys
<1>8. HandlerInv
  BY DEF Init, HandlerInv
<1> QED
  BY <1>6, <1>7, <1>8 DEF TypesInv

\* TypesInv is inductive.
THEOREM TypesInvariant == Spec => []TypesInv
  BY TypesInit, TypesStep, PTL DEF Spec

\* Every variable keeps its type: names stay unique, a privilege disappears with its
\* principal and its schema, and no handler begins without a target (storeObjectTarget).
THEOREM PrivilegeTypes == Spec => []TypeOK
<1>1. TypesInv => TypeOK
  BY DEF TypesInv
<1> QED
  BY TypesInvariant, <1>1, PTL

-----------------------------------------------------------------------------
(* Names and identities. While the log is that of one apply in which no name is given
   up twice, it leads from the names in state to the identities that state is about;
   between applies the names are theirs, unless split. *)

\* Where what a handler was planned for is now.
Now == <<CurrentName(log, PrincipalKind, prior.grantee), CurrentName(log, SchemaKind, prior.target)>>

SubjectInv ==
  /\ pc = "run" /\ config # NoConfig => work.to[1] = config.grantee
  /\ ~split /\ subject # NoSubject /\ SubjectExists =>
       /\ pc = "idle" \/ (pc = "finished" /\ log = EmptyLog) =>
            subject \in Identities(<<state.grantee, state.target>>)
       /\ pc \in {"planned", "look", "run"} => subject \in Identities(Now)

\* Until a handler begins to change it, what the refresh has found is there.
FoundInv ==
  ~touched /\ pc \in {"planned", "look"} /\ prior # NoState =>
    \A p \in prior.privileges : PrivilegeExists(Now, p)

LEMMA NowTypes ==
  ASSUME TypesInv, prior # NoState
  PROVE  /\ Now \in Grantees \X Spellings /\ Absent \notin {Now[1], Now[2]}
         /\ log = EmptyLog => Now = <<prior.grantee, prior.target>>
<1>1. prior.grantee \in Grantees /\ prior.target \in Spellings
  BY FieldTypes
<1>2. Now \in Grantees \X Spellings
  BY <1>1, LookupTypes DEF Now
<1>3. log = EmptyLog => Now = <<prior.grantee, prior.target>>
  BY <1>1, LookupTypes, Kinds2 DEF Now, EmptyLog, Keys
<1> QED
  BY <1>2, <1>3, Kinds2

\* A rename in one piece.
LEMMA RenameFacts ==
  ASSUME TypesInv, Rename
  PROVE  \E o \in Objects : \E n \in NamesOf(KindOf(o)) :
           /\ name[o] # Absent /\ n # Absent
           /\ \A m \in Names : log[<<KindOf(o), m>>] # name[o]
           /\ log[<<KindOf(o), name[o]>>] = NoEntry /\ n # NoEntry
           /\ <<KindOf(o), name[o]>> \in Keys
           /\ name' = [name EXCEPT ![o] = n]
           /\ log' = [log EXCEPT ![<<KindOf(o), name[o]>>] = n]
<1>1. PICK o \in Objects : \E n \in NamesOf(KindOf(o)) :
        /\ name[o] # Absent
        /\ \A m \in Names : log[<<KindOf(o), m>>] # name[o]
        /\ Lookup(log, KindOf(o), name[o]) = NoEntry
        /\ name' = [name EXCEPT ![o] = n]
        /\ log' = Record(log, KindOf(o), name[o], n)
  BY DEF Rename
<1>2. PICK n \in NamesOf(KindOf(o)) :
        /\ name[o] # Absent
        /\ \A m \in Names : log[<<KindOf(o), m>>] # name[o]
        /\ Lookup(log, KindOf(o), name[o]) = NoEntry
        /\ name' = [name EXCEPT ![o] = n]
        /\ log' = Record(log, KindOf(o), name[o], n)
  BY <1>1
<1>3. /\ name[o] \in NamesOf(KindOf(o)) /\ name[o] \in Names /\ n \in Names /\ n # Absent
      /\ log' = [log EXCEPT ![<<KindOf(o), name[o]>>] = n] /\ <<KindOf(o), name[o]>> \in Keys
  BY <1>2, RecordFacts
<1>4. Lookup(log, KindOf(o), name[o]) = log[<<KindOf(o), name[o]>>]
  BY <1>3, Kinds2 DEF Lookup, Key, Normalize, NamesOf
<1> QED
  BY <1>2, <1>3, <1>4, Kinds2

\* The log follows a rename.
LEMMA RenameFollows ==
  ASSUME TypesInv, Rename, NEW q \in Objects, NEW n \in NamesOf(KindOf(q)),
         name[q] = CurrentName(log, KindOf(q), n)
  PROVE  name'[q] = CurrentName(log', KindOf(q), n)
<1>1. /\ n \in Names /\ <<KindOf(q), n>> \in Keys /\ Key(KindOf(q), n) = <<KindOf(q), n>>
      /\ Normalize(KindOf(q), n) = n
  BY Kinds2 DEF NamesOf, Keys, Key, Normalize
<1>2. /\ name \in [Objects -> Names \cup {Absent}] /\ log \in [Keys -> Names \cup {NoEntry}]
      /\ \A p \in Objects : KindOf(p) = KindOf(q) /\ name[p] = name[q] => p = q \/ name[p] = Absent
  BY DEF TypesInv, TypeOK, Logs
<1>3. name[q] = IF log[<<KindOf(q), n>>] # NoEntry THEN log[<<KindOf(q), n>>] ELSE n
  BY <1>1 DEF CurrentName, Lookup
<1>4. CurrentName(log', KindOf(q), n) =
        IF log'[<<KindOf(q), n>>] # NoEntry THEN log'[<<KindOf(q), n>>] ELSE n
  BY <1>1 DEF CurrentName, Lookup
<1>5. PICK o \in Objects : \E m \in NamesOf(KindOf(o)) :
           /\ name[o] # Absent /\ m # Absent
           /\ \A e \in Names : log[<<KindOf(o), e>>] # name[o]
           /\ log[<<KindOf(o), name[o]>>] = NoEntry /\ m # NoEntry
           /\ <<KindOf(o), name[o]>> \in Keys
           /\ name' = [name EXCEPT ![o] = m]
           /\ log' = [log EXCEPT ![<<KindOf(o), name[o]>>] = m]
  BY RenameFacts
<1>6. CASE o = q
  BY <1>1, <1>2, <1>3, <1>4, <1>5, <1>6
<1>7. CASE o # q
  <2>1. name'[q] = name[q]
    BY <1>2, <1>5, <1>7
  <2>2. <<KindOf(q), n>> # <<KindOf(o), name[o]>>
    BY <1>1, <1>2, <1>3, <1>5, <1>7
  <2>3. log'[<<KindOf(q), n>>] = log[<<KindOf(q), n>>]
    BY <1>1, <1>2, <1>5, <2>2
  <2> QED
    BY <1>3, <1>4, <2>1, <2>3
<1> QED
  BY <1>6, <1>7

LEMMA RenameNow ==
  ASSUME TypesInv, Rename, prior # NoState, NEW s \in Identities(Now)
  PROVE  s \in Identities(Now)'
<1>1. prior.grantee \in Grantees /\ prior.target \in Spellings /\ prior' = prior
  BY FieldTypes DEF Rename
<1>2. s \in Principals \X Schemas /\ name[s[1]] = Now[1] /\ name[s[2]] = Now[2]
  BY DEF Identities
<1>3. /\ s[1] \in Objects /\ KindOf(s[1]) = PrincipalKind /\ prior.grantee \in NamesOf(KindOf(s[1]))
      /\ s[2] \in Objects /\ KindOf(s[2]) = SchemaKind /\ prior.target \in NamesOf(KindOf(s[2]))
  BY <1>1, <1>2, Kinds2 DEF NamesOf
<1>4. name'[s[1]] = CurrentName(log', PrincipalKind, prior.grantee)
  BY <1>2, <1>3, RenameFollows DEF Now
<1>5. name'[s[2]] = CurrentName(log', SchemaKind, prior.target)
  BY <1>2, <1>3, RenameFollows DEF Now
<1> QED
  BY <1>1, <1>2, <1>4, <1>5 DEF Identities, Now
\* What an empty log says.
LEMMA NowAtFirst ==
  ASSUME TypesInv, NEW g \in Grantees, NEW t \in Spellings
  PROVE  CurrentName(EmptyLog, PrincipalKind, g) = g /\ CurrentName(EmptyLog, SchemaKind, t) = t
  BY Kinds2 DEF EmptyLog, Keys, CurrentName, Lookup, Key, Normalize

\* What is known of the subject while a handler is at work.
LEMMA SubjectNow ==
  ASSUME TypesInv, SubjectInv, pc \in {"planned", "look", "run"}, ~split,
         subject # NoSubject, SubjectExists
  PROVE  /\ prior # NoState /\ state = prior
         /\ subject \in Identities(Now) /\ subject \in Principals \X Schemas
         /\ log = EmptyLog => subject \in Identities(<<state.grantee, state.target>>)
<1>1. prior # NoState /\ state = prior
  BY DEF TypesInv, HandlerInv
<1>2. subject \in Identities(Now)
  BY DEF SubjectInv
<1>3. log = EmptyLog => Now = <<state.grantee, state.target>>
  BY <1>1, NowTypes
<1> QED
  BY <1>1, <1>2, <1>3 DEF Identities

\* A handler ends with nothing written.
LEMMA EndSubject ==
  ASSUME TypesInv, SubjectInv, pc \in {"planned", "look", "run"}, pc' = "finished",
         UNCHANGED <<name, log, state, subject, split>>
  PROVE  SubjectInv'
<1>1. CASE ~split /\ subject # NoSubject /\ SubjectExists /\ log = EmptyLog
  <2>1. subject \in Identities(<<state.grantee, state.target>>)
    BY <1>1, SubjectNow
  <2> QED
    BY <2>1 DEF SubjectInv, Identities
<1> QED
  BY <1>1 DEF SubjectInv, SubjectExists

\* Or goes on with nothing written.
LEMMA OnSubject ==
  ASSUME TypesInv, SubjectInv, pc \in {"planned", "look", "run"}, pc' \in {"look", "run"},
         UNCHANGED <<name, log, state, config, prior, subject, split>>,
         pc' = "run" /\ config # NoConfig => work'.to[1] = config.grantee
  PROVE  SubjectInv'
<1>1. CASE ~split /\ subject # NoSubject /\ SubjectExists
  <2>1. subject \in Identities(Now)
    BY <1>1, SubjectNow
  <2> QED
    BY <2>1 DEF SubjectInv, Identities, Now
<1> QED
  BY <1>1 DEF SubjectInv, SubjectExists

\* Or ends with its result written.
LEMMA ContinueSubject ==
  ASSUME TypesInv, SubjectInv, pc \in {"planned", "look", "run"}, NEW w \in Work, Continue(w),
         UNCHANGED <<name, log, config, prior, split>>,
         config # NoConfig => w.to[1] = config.grantee
  PROVE  SubjectInv'
<1>1. CASE w.revoke \cup w.grant = {} /\ result # "failed"
  <2>1. Succeed(w)
    BY <1>1 DEF Continue
  <2>2. CASE config = NoConfig
    BY <2>1, <2>2, SucceedFacts DEF SubjectInv
  <2>3. CASE config # NoConfig
    <3>1. w.to = <<state'.grantee, state'.target>>
      BY <2>1, <2>3, SucceedFacts DEF Work
    <3>2. subject' \in Identities(<<state'.grantee, state'.target>>) \cup {NoSubject}
          /\ pc' = "finished"
      BY <2>1, <2>3, <3>1, SucceedFacts
    <3> QED
      BY <3>2 DEF SubjectInv, Identities
  <2> QED
    BY <2>2, <2>3
<1>2. CASE ~(w.revoke \cup w.grant = {} /\ result # "failed")
  <2>1. /\ pc' = (IF w.revoke \cup w.grant = {} THEN "finished" ELSE "run")
        /\ work' = w /\ UNCHANGED <<state, subject>>
    BY <1>2 DEF Continue
  <2> QED
    BY <2>1, EndSubject, OnSubject
<1> QED
  BY <1>1, <1>2

LEMMA RefreshSubject == TypesInv /\ SubjectInv /\ Refresh => SubjectInv'
<1> SUFFICES ASSUME TypesInv, SubjectInv, Refresh PROVE SubjectInv'
  OBVIOUS
<1>1. pc = "idle" /\ log = EmptyLog /\ UNCHANGED <<name, held, log, config, work, split>>
  BY DEF Refresh, TypesInv, HandlerInv
<1>2. CASE /\ state' = Refreshed /\ prior' = Refreshed /\ subject' = Adopted[1] /\ pc' = "planned"
  <2>1. CASE Refreshed = NoState
    BY <1>2, <2>1, AdoptedFacts DEF SubjectInv
  <2>2. CASE Refreshed # NoState
    <3> SUFFICES ASSUME ~split, subject' # NoSubject, SubjectExists'
                 PROVE  subject' \in Identities(Now)'
      BY <1>1, <1>2 DEF SubjectInv
    <3>1. /\ Refreshed.grantee = state.grantee /\ Refreshed.target = ReadTarget
          /\ state.grantee \in Grantees /\ ReadTarget \in Spellings
      BY <2>2, RefreshedFacts, FieldTypes
    <3>2. Now' = <<state.grantee, ReadTarget>>
      BY <1>1, <1>2, <3>1, NowAtFirst DEF Now
    <3>3. CASE state.target # Unknown
      <4>1. subject' = subject /\ ReadTarget = state.target
        BY <1>2, <2>2, <3>3, AdoptedFacts DEF ReadTarget
      <4>2. SubjectExists
        BY <1>1, <4>1 DEF SubjectExists
      <4>3. subject \in Identities(<<state.grantee, state.target>>)
        BY <1>1, <4>1, <4>2 DEF SubjectInv
      <4> QED
        BY <1>1, <3>2, <4>1, <4>3 DEF Identities
    <3>4. CASE state.target = Unknown
      <4>1. subject' \in Identities(<<state.grantee, ReadTarget>>)
        BY <1>2, <2>2, <3>4, AdoptedFacts
      <4> QED
        BY <1>1, <3>2, <4>1 DEF Identities
    <3> QED
      BY <3>3, <3>4
  <2> QED
    BY <2>1, <2>2
<1>3. CASE UNCHANGED <<state, subject, pc>>
  BY <1>1, <1>3 DEF SubjectInv, SubjectExists, Identities
<1> QED
  BY <1>2, <1>3 DEF Refresh

LEMMA BeginSubject == TypesInv /\ SubjectInv /\ Begin => SubjectInv'
<1> SUFFICES ASSUME TypesInv, SubjectInv, Begin PROVE SubjectInv'
  OBVIOUS
<1> DEFINE w == [Nothing(<<config.grantee, config.spelling>>) EXCEPT !.grant = config.privileges]
<1>1. pc = "planned" /\ UNCHANGED <<name, log, config, prior, split>>
  BY DEF Begin
<1>2. \/ pc' = "finished" /\ UNCHANGED <<state, subject>>
      \/ config # NoConfig /\ Continue(w)
      \/ pc' = "look" /\ UNCHANGED <<state, subject>>
  BY DEF Begin
<1>3. config # NoConfig => w \in Work /\ w.to[1] = config.grantee
  BY FieldTypes, NothingTypes DEF Nothing
<1> HIDE DEF w
<1> QED
  BY <1>1, <1>2, <1>3, EndSubject, OnSubject, ContinueSubject
LEMMA LookUpdateSubject == TypesInv /\ SubjectInv /\ LookUpdate => SubjectInv'
<1> SUFFICES ASSUME TypesInv, SubjectInv, LookUpdate PROVE SubjectInv'
  OBVIOUS
<1> DEFINE to == <<config.grantee, NewTarget>>
<1>1. pc = "look" /\ config # NoConfig /\ prior # NoState /\ UNCHANGED <<name, log, config, prior, split>>
  BY DEF LookUpdate, TypesInv, HandlerInv
<1>2. MoveWork(to) \in Work /\ DiffWork(to) \in Work
      /\ MoveWork(to).to[1] = config.grantee /\ DiffWork(to).to[1] = config.grantee
  BY <1>1, UpdateTypes DEF MoveWork, DiffWork
<1>3. Continue(DiffWork(to)) \/ Continue(MoveWork(to)) \/ Fail
  BY DEF LookUpdate
<1> HIDE DEF to
<1> QED
  BY <1>1, <1>2, <1>3, EndSubject, ContinueSubject DEF Fail

LEMMA LookDeleteSubject == TypesInv /\ SubjectInv /\ LookDelete => SubjectInv'
<1> SUFFICES ASSUME TypesInv, SubjectInv, LookDelete PROVE SubjectInv'
  OBVIOUS
<1>1. /\ pc = "look" /\ config = NoConfig /\ prior # NoState /\ Continue(DeleteWork)
      /\ UNCHANGED <<name, log, config, prior, split>>
  BY DEF LookDelete, TypesInv, HandlerInv, DeleteWork
<1> QED
  BY <1>1, DeleteTypes, ContinueSubject

LEMMA QuerySubject == TypesInv /\ SubjectInv /\ QueryFails => SubjectInv'
<1> SUFFICES ASSUME TypesInv, SubjectInv, QueryFails PROVE SubjectInv'
  OBVIOUS
<1>1. pc \in {"look", "run"} /\ Fail /\ UNCHANGED <<name, log, split>>
  BY DEF QueryFails
<1> QED
  BY <1>1, EndSubject DEF Fail

\* The step of a REVOKE in one piece.
LEMMA RevokeFacts ==
  ASSUME TypesInv, RevokeNext
  PROVE  \E p \in work.revoke : \E rest \in Work :
           /\ rest.from = work.from /\ rest.to = work.to
           /\ rest.revoke = work.revoke \ {p} /\ rest.grant = work.grant
           /\ pc = "run" /\ UNCHANGED <<name, log, config, prior, touched, split>>
           /\ held' \in {held, held \ RowsAt(work.from, p)}
           /\ \/ Continue(rest) /\ held' \cap RowsAt(work.from, p) = {} /\ mishap' = mishap
              \/ RevokeFailed(rest) /\ mishap' = TRUE
<1>1. PICK p \in work.revoke :
        LET rest == [work EXCEPT !.revoke = @ \ {p}] IN
        IF PrivilegeExists(work.from, p)
          THEN Execute(TRUE, held \ RowsAt(work.from, p), Continue(rest), RevokeFailed(rest))
          ELSE Skip(rest)
  BY DEF RevokeNext
<1> DEFINE rest == [work EXCEPT !.revoke = @ \ {p}]
<1>2. pc = "run" /\ UNCHANGED <<name, log, config, prior, touched, split>>
  BY <1>1 DEF RevokeNext, Execute, Skip
<1>3. rest \in Work /\ work \in Work
  BY <1>2, RestTypes
<1>4. /\ rest.from = work.from /\ rest.to = work.to
      /\ rest.revoke = work.revoke \ {p} /\ rest.grant = work.grant
  BY <1>3 DEF Work
<1> HIDE DEF rest
<1>5. CASE PrivilegeExists(work.from, p)
  <2>1. Execute(TRUE, held \ RowsAt(work.from, p), Continue(rest), RevokeFailed(rest))
    BY <1>1, <1>5 DEF rest
  <2> QED
    BY <1>2, <1>3, <1>4, <2>1 DEF Execute
<1>6. CASE ~PrivilegeExists(work.from, p)
  <2>1. Skip(rest)
    BY <1>1, <1>6 DEF rest
  <2> QED
    BY <1>2, <1>3, <1>4, <1>6, <2>1 DEF Skip, PrivilegeExists
<1> QED
  BY <1>5, <1>6

\* The step of a GRANT in one piece.
LEMMA GrantFacts ==
  ASSUME TypesInv, GrantNext
  PROVE  \E p \in work.grant : \E rest \in Work :
           /\ rest.from = work.from /\ rest.to = work.to
           /\ work.revoke = {} /\ rest.revoke = {} /\ rest.grant = work.grant \ {p}
           /\ pc = "run" /\ UNCHANGED <<name, log, config, prior, touched, split>>
           /\ \/ /\ Continue(rest) /\ mishap' = mishap
                 /\ \/ p # All /\ held \cap RowsAt(work.to, p) # {} /\ held' = held
                    \/ RowsAt(work.to, p) # {} /\ held' = held \cup RowsAt(work.to, p)
              \/ /\ Fail /\ own' = own \cap held' /\ held' \in {held, held \cup RowsAt(work.to, p)}
                 /\ mishap' = TRUE \/ RowsAt(work.to, p) = {}
<1>1. PICK p \in work.grant :
        LET rest == [work EXCEPT !.grant = @ \ {p}] IN
        IF work.asks /\ p # All /\ PrivilegeExists(work.to, p)
          THEN Skip(rest)
          ELSE Execute(RowsAt(work.to, p) # {}, held \cup RowsAt(work.to, p),
                       Continue(rest), Fail /\ own' = own \cap held')
  BY DEF GrantNext
<1> DEFINE rest == [work EXCEPT !.grant = @ \ {p}]
<1>2. pc = "run" /\ work.revoke = {} /\ UNCHANGED <<name, log, config, prior, touched, split>>
  BY <1>1 DEF GrantNext, Execute, Skip
<1>3. rest \in Work /\ work \in Work
  BY <1>2, RestTypes
<1>4. /\ rest.from = work.from /\ rest.to = work.to
      /\ rest.revoke = work.revoke /\ rest.grant = work.grant \ {p}
  BY <1>3 DEF Work
<1> HIDE DEF rest
<1>5. CASE ~(work.asks /\ p # All /\ PrivilegeExists(work.to, p))
  <2>1. Execute(RowsAt(work.to, p) # {}, held \cup RowsAt(work.to, p),
                Continue(rest), Fail /\ own' = own \cap held')
    BY <1>1, <1>5 DEF rest
  <2> QED
    BY <1>2, <1>3, <1>4, <2>1 DEF Execute
<1>6. CASE work.asks /\ p # All /\ PrivilegeExists(work.to, p)
  <2>1. Skip(rest)
    BY <1>1, <1>6 DEF rest
  <2> QED
    BY <1>2, <1>3, <1>4, <1>6, <2>1 DEF Skip, PrivilegeExists
<1> QED
  BY <1>5, <1>6

LEMMA RevokeSubject == TypesInv /\ SubjectInv /\ RevokeNext => SubjectInv'
<1> SUFFICES ASSUME TypesInv, SubjectInv, RevokeNext PROVE SubjectInv'
  OBVIOUS
<1>1. PICK p \in work.revoke : \E rest \in Work :
        /\ rest.to = work.to /\ pc = "run" /\ UNCHANGED <<name, log, config, prior, split>>
        /\ Continue(rest) \/ RevokeFailed(rest)
  BY RevokeFacts
<1>2. PICK rest \in Work :
        /\ rest.to = work.to /\ pc = "run" /\ UNCHANGED <<name, log, config, prior, split>>
        /\ Continue(rest) \/ RevokeFailed(rest)
  BY <1>1
<1>3. config # NoConfig => rest.to[1] = config.grantee
  BY <1>2 DEF SubjectInv
<1>4. CASE Continue(rest)
  BY <1>2, <1>3, <1>4, ContinueSubject
<1>5. CASE RevokeFailed(rest)
  <2>1. UNCHANGED <<state, subject>> /\ pc' \in {"finished", "run"}
        /\ (pc' = "run" => config = NoConfig)
    BY <1>5 DEF RevokeFailed, Fail
  <2> QED
    BY <1>2, <2>1, EndSubject, OnSubject
<1> QED
  BY <1>2, <1>4, <1>5

LEMMA GrantSubject == TypesInv /\ SubjectInv /\ GrantNext => SubjectInv'
<1> SUFFICES ASSUME TypesInv, SubjectInv, GrantNext PROVE SubjectInv'
  OBVIOUS
<1>1. PICK p \in work.grant : \E rest \in Work :
        /\ rest.to = work.to /\ pc = "run" /\ UNCHANGED <<name, log, config, prior, split>>
        /\ Continue(rest) \/ Fail
  BY GrantFacts
<1>2. PICK rest \in Work :
        /\ rest.to = work.to /\ pc = "run" /\ UNCHANGED <<name, log, config, prior, split>>
        /\ Continue(rest) \/ Fail
  BY <1>1
<1>3. config # NoConfig => rest.to[1] = config.grantee
  BY <1>2 DEF SubjectInv
<1> QED
  BY <1>2, <1>3, ContinueSubject, EndSubject DEF Fail

\* Finish declares split what it cannot vouch for.
LEMMA FinishSubject == TypesInv /\ SubjectInv /\ Finish => SubjectInv'
<1> SUFFICES ASSUME TypesInv, SubjectInv, Finish PROVE SubjectInv'
  OBVIOUS
<1>1. /\ pc = "finished" /\ pc' = "idle" /\ UNCHANGED <<name, state, config, subject>>
      /\ split' = (split \/ (/\ log # EmptyLog /\ subject # NoSubject
                             /\ <<name[subject[1]], name[subject[2]]>> # <<state.grantee, state.target>>))
  BY DEF Finish
<1> SUFFICES ASSUME ~split', subject # NoSubject, SubjectExists'
             PROVE  subject \in Identities(<<state.grantee, state.target>>)'
  BY <1>1 DEF SubjectInv
<1>2. ~split /\ SubjectExists
  BY <1>1 DEF SubjectExists
<1>3. CASE log = EmptyLog
  BY <1>1, <1>2, <1>3 DEF SubjectInv, Identities
<1>4. CASE log # EmptyLog
  <2>1. name[subject[1]] = state.grantee /\ name[subject[2]] = state.target
    BY <1>1, <1>4
  <2>2. subject \in Principals \X Schemas
    BY DEF TypesInv, TypeOK
  <2> QED
    BY <1>1, <2>1, <2>2 DEF Identities
<1> QED
  BY <1>3, <1>4

\* A rename keeps an object that exists, and leaves a trace in the log.
LEMMA RenameKeeps ==
  ASSUME TypesInv, Rename
  PROVE  /\ log' # EmptyLog
         /\ \A o \in Objects : name'[o] = Absent <=> name[o] = Absent
         /\ pc = "run" => split' = TRUE
         /\ pc # "run" => UNCHANGED split
         /\ pc \in {"planned", "finished", "run"}
         /\ UNCHANGED <<held, own, state, config, pc, prior, work, subject, result, mishap, touched>>
<1>1. PICK o \in Objects : \E n \in NamesOf(KindOf(o)) :
           /\ name[o] # Absent /\ n # Absent /\ n # NoEntry
           /\ <<KindOf(o), name[o]>> \in Keys
           /\ name' = [name EXCEPT ![o] = n]
           /\ log' = [log EXCEPT ![<<KindOf(o), name[o]>>] = n]
  BY RenameFacts
<1>2. name \in [Objects -> Names \cup {Absent}] /\ log \in [Keys -> Names \cup {NoEntry}]
  BY DEF TypesInv, TypeOK, Logs
<1>3. log'[<<KindOf(o), name[o]>>] # NoEntry
  BY <1>1, <1>2
<1>4. log' # EmptyLog
  BY <1>1, <1>3 DEF EmptyLog
<1>5. \A q \in Objects : name'[q] = Absent <=> name[q] = Absent
  BY <1>1, <1>2
<1> QED
  BY <1>4, <1>5 DEF Rename

\* So does the subject.
LEMMA RenameExists ==
  ASSUME TypesInv, Rename, subject # NoSubject
  PROVE  SubjectExists' <=> SubjectExists
<1>1. subject[1] \in Objects /\ subject[2] \in Objects
  BY DEF TypesInv, TypeOK, Objects
<1> QED
  BY <1>1, RenameKeeps DEF SubjectExists

LEMMA RenameSubject == TypesInv /\ SubjectInv /\ Rename => SubjectInv'
<1> SUFFICES ASSUME TypesInv, SubjectInv, Rename PROVE SubjectInv'
  OBVIOUS
<1>1. /\ log' # EmptyLog /\ UNCHANGED <<config, pc, prior, work, subject>>
      /\ pc \in {"planned", "finished", "run"} /\ (pc = "run" => split' = TRUE)
      /\ (pc # "run" => split' = split)
  BY RenameKeeps
<1>2. CASE pc = "planned" /\ ~split /\ subject # NoSubject /\ SubjectExists
  <2>1. prior # NoState /\ subject \in Identities(Now)
    BY <1>2, SubjectNow
  <2>2. subject \in Identities(Now)'
    BY <2>1, RenameNow
  <2> QED
    BY <1>1, <1>2, <2>2 DEF SubjectInv
<1>3. CASE ~(pc = "planned" /\ ~split /\ subject # NoSubject /\ SubjectExists)
  BY <1>1, <1>3, RenameExists DEF SubjectInv
<1> QED
  BY <1>2, <1>3

LEMMA EditSubject == TypesInv /\ SubjectInv /\ Edit => SubjectInv'
<1> SUFFICES ASSUME TypesInv, SubjectInv, Edit PROVE SubjectInv'
  OBVIOUS
<1> QED
  BY DEF Edit, SubjectInv, SubjectExists, Identities

\* What another session leaves of the subject, and of the own rows.
LEMMA OutsideNames ==
  ASSUME TypesInv, Outside
  PROVE  /\ subject # NoSubject /\ SubjectExists' =>
              /\ SubjectExists
              /\ name'[subject[1]] = name[subject[1]] /\ name'[subject[2]] = name[subject[2]]
         /\ \A row \in own' : /\ row \in own /\ row \in held
                              /\ name'[row[1]] = name[row[1]] /\ name'[row[2]] = name[row[2]]
<1>1. name \in [Objects -> Names \cup {Absent}] /\ own \subseteq held
      /\ \A row \in held : /\ row[1] \in Objects /\ row[2] \in Objects
                           /\ Absent \notin {name[row[1]], name[row[2]]}
  BY DEF TypesInv, TypeOK, Rows, Objects
<1>2. subject # NoSubject => subject[1] \in Principals /\ subject[2] \in Schemas
  BY DEF TypesInv, TypeOK
<1>3. Principals \cap Schemas = {} /\ Principals \subseteq Objects /\ Schemas \subseteq Objects
  BY ObjectPrivilegeAssumption DEF Objects
<1>4. UNCHANGED subject
  BY DEF Outside
<1>5. CASE \E o \in Schemas, n \in Spellings :
             /\ name[o] = Absent /\ (subject # NoSubject => o # subject[2])
             /\ name' = [name EXCEPT ![o] = n] /\ UNCHANGED <<held, own>>
  BY <1>1, <1>2, <1>3, <1>4, <1>5 DEF SubjectExists
<1>6. CASE \E o \in Objects :
             /\ name' = [name EXCEPT ![o] = Absent]
             /\ held' = {row \in held : o \notin {row[1], row[2]}} /\ own' = own \cap held'
  <2>1. PICK o \in Objects :
             /\ name' = [name EXCEPT ![o] = Absent]
             /\ held' = {row \in held : o \notin {row[1], row[2]}} /\ own' = own \cap held'
    BY <1>6
  <2>2. \A q \in Objects : name'[q] = IF q = o THEN Absent ELSE name[q]
    BY <1>1, <2>1
  <2>3. \A row \in own' : /\ row \in own /\ row \in held /\ o \notin {row[1], row[2]}
    BY <1>1, <2>1
  <2> QED
    BY <1>1, <1>2, <1>3, <1>4, <2>2, <2>3 DEF SubjectExists
<1>7. CASE (\E row \in held : held' = held \ {row} /\ own' = own \ {row}) /\ UNCHANGED name
  BY <1>1, <1>4, <1>7 DEF SubjectExists
<1> QED
  BY <1>5, <1>6, <1>7 DEF Outside

LEMMA OutsideSubject == TypesInv /\ SubjectInv /\ Outside => SubjectInv'
<1> SUFFICES ASSUME TypesInv, SubjectInv, Outside PROVE SubjectInv'
  OBVIOUS
<1>1. UNCHANGED <<log, state, config, pc, prior, work, subject, split>>
  BY DEF Outside
<1>2. CASE subject # NoSubject /\ SubjectExists' /\ ~split
  <2>1. SubjectExists /\ name'[subject[1]] = name[subject[1]] /\ name'[subject[2]] = name[subject[2]]
    BY <1>2, OutsideNames
  <2>2. \A loc : subject \in Identities(loc) => subject \in {s \in Principals \X Schemas :
                                                   name'[s[1]] = loc[1] /\ name'[s[2]] = loc[2]}
    BY <2>1 DEF Identities
  <2> QED
    BY <1>1, <1>2, <2>1, <2>2 DEF SubjectInv, Identities, Now
<1> QED
  BY <1>1, <1>2 DEF SubjectInv

LEMMA SubjectStep == TypesInv /\ SubjectInv /\ [Next]_vars => SubjectInv'
<1> SUFFICES ASSUME TypesInv, SubjectInv, [Next]_vars PROVE SubjectInv'
  OBVIOUS
<1>1. CASE UNCHANGED vars
  BY <1>1 DEF vars, SubjectInv, SubjectExists, Identities, Now
<1> QED
  BY <1>1, RefreshSubject, BeginSubject, LookUpdateSubject, LookDeleteSubject, QuerySubject,
     RevokeSubject, GrantSubject, FinishSubject, RenameSubject, EditSubject, OutsideSubject DEF Next, Step
-----------------------------------------------------------------------------
LEMMA RefreshFound == TypesInv /\ FoundInv /\ Refresh => FoundInv'
<1> SUFFICES ASSUME TypesInv, FoundInv, Refresh PROVE FoundInv'
  OBVIOUS
<1>1. pc = "idle" /\ log = EmptyLog /\ UNCHANGED <<name, held, log>>
  BY DEF Refresh, TypesInv, HandlerInv
<1>2. CASE state' = Refreshed /\ prior' = Refreshed /\ Refreshed # NoState
  <2>1. /\ Refreshed.grantee = state.grantee /\ Refreshed.target = ReadTarget
        /\ state.grantee \in Grantees /\ ReadTarget \in Spellings
        /\ \A p \in Refreshed.privileges : PrivilegeExists(<<state.grantee, ReadTarget>>, p)
    BY <1>2, RefreshedFacts, FieldTypes
  <2>2. Now' = <<state.grantee, ReadTarget>>
    BY <1>1, <1>2, <2>1, NowAtFirst DEF Now
  <2> QED
    BY <1>1, <1>2, <2>1, <2>2 DEF FoundInv, PrivilegeExists, RowsAt
<1>3. CASE prior' = NoState \/ pc' = "idle"
  BY <1>3 DEF FoundInv
<1> QED
  BY <1>1, <1>2, <1>3 DEF Refresh

LEMMA BeginFound == TypesInv /\ FoundInv /\ Begin => FoundInv'
<1> SUFFICES ASSUME TypesInv, FoundInv, Begin PROVE FoundInv'
  OBVIOUS
<1>1. pc = "planned" /\ UNCHANGED <<name, held, log, config, prior, touched>>
  BY DEF Begin
<1> QED
  BY <1>1 DEF FoundInv, PrivilegeExists, RowsAt, Now

LEMMA RenameFound == TypesInv /\ FoundInv /\ Rename => FoundInv'
<1> SUFFICES ASSUME TypesInv, FoundInv, Rename PROVE FoundInv'
  OBVIOUS
<1>1. UNCHANGED <<held, pc, prior, touched>> /\ pc # "look"
  BY RenameKeeps
<1> SUFFICES ASSUME ~touched, pc = "planned", prior # NoState, NEW p \in prior.privileges
             PROVE  \E row \in held : row \in Rows /\ p \in {row[3], All}
                      /\ name'[row[1]] = Now'[1] /\ name'[row[2]] = Now'[2]
  BY <1>1 DEF FoundInv, PrivilegeExists, RowsAt
<1>2. PICK row \in held : row \in RowsAt(Now, p)
  BY DEF FoundInv, PrivilegeExists
<1>3. <<row[1], row[2]>> \in Identities(Now) /\ row \in Rows /\ p \in {row[3], All}
  BY <1>2, RowFacts
<1>4. <<row[1], row[2]>> \in Identities(Now)'
  BY <1>3, RenameNow
<1> QED
  BY <1>3, <1>4 DEF Identities

LEMMA FoundStep == TypesInv /\ FoundInv /\ [Next]_vars => FoundInv'
<1> SUFFICES ASSUME TypesInv, FoundInv, [Next]_vars PROVE FoundInv'
  OBVIOUS
<1>1. CASE UNCHANGED vars
  BY <1>1 DEF vars, FoundInv, PrivilegeExists, RowsAt, Now
<1>2. CASE LookUpdate \/ LookDelete \/ QueryFails \/ RevokeNext \/ GrantNext
  <2>1. \A w : Continue(w) => pc' \in {"finished", "run"}
    BY DEF Continue, Succeed
  <2>2. \A w : RevokeFailed(w) => pc' \in {"finished", "run"}
    BY DEF RevokeFailed, Fail
  <2>3. Fail => pc' = "finished"
    BY DEF Fail
  <2>4. LookUpdate \/ LookDelete \/ QueryFails => pc' \in {"finished", "run"}
    BY <2>1, <2>3 DEF LookUpdate, LookDelete, QueryFails
  <2>5. RevokeNext \/ GrantNext => pc' \in {"finished", "run"}
    BY <2>1, <2>2, <2>3, RevokeFacts, GrantFacts
  <2> QED
    BY <1>2, <2>4, <2>5 DEF FoundInv
<1>3. CASE Finish \/ Edit \/ Outside
  BY <1>3 DEF Finish, Edit, Outside, FoundInv
<1> QED
  BY <1>1, <1>2, <1>3, RefreshFound, BeginFound, RenameFound DEF Next, Step

-----------------------------------------------------------------------------
(* Where the own rows are: all with the subject, each for a privilege in state; and
   while a handler runs it will yet revoke them or is asked to grant them. *)
InWork(w, row) ==
  \/ \E p \in w.revoke : row \in RowsAt(w.from, p)
  \/ config # NoConfig /\ \E p \in config.privileges : row \in RowsAt(w.to, p)

OwnInv ==
  ~split =>
    /\ \A row \in own : /\ subject # NoSubject /\ <<row[1], row[2]>> = subject
                        /\ \E p \in state.privileges : p \in {row[3], All}
    /\ pc = "run" /\ result # "failed" => \A row \in own : InWork(work, row)

\* Whom the own rows are of exists.
LEMMA OwnSubject ==
  ASSUME TypesInv, OwnInv, ~split, NEW row \in own
  PROVE  /\ subject # NoSubject /\ SubjectExists /\ subject \in Principals \X Schemas
         /\ row \in Rows /\ row \in held /\ <<row[1], row[2]>> = subject
         /\ \E p \in state.privileges : p \in {row[3], All}
<1>1. subject # NoSubject /\ <<row[1], row[2]>> = subject /\ row \in held
      /\ \E p \in state.privileges : p \in {row[3], All}
  BY DEF OwnInv, TypesInv, TypeOK
<1>2. row \in Rows /\ Absent \notin {name[row[1]], name[row[2]]}
  BY <1>1 DEF TypesInv, TypeOK
<1>3. subject[1] = row[1] /\ subject[2] = row[2]
  BY <1>1
<1>4. subject \in Principals \X Schemas
  BY <1>1 DEF TypesInv, TypeOK
<1> QED
  BY <1>1, <1>2, <1>3, <1>4 DEF SubjectExists

\* Where a move or a Delete revokes is where the subject is now.
LEMMA MoveFrom ==
  ASSUME TypesInv, prior # NoState, NEW s \in Identities(Now)
  PROVE  /\ \A n : ResolveGrantee(prior.grantee, n) = Now[1]
         /\ ResolveKnownObject(prior.target) = Now[2]
         /\ Now[1] # Absent /\ Now[2] # Absent /\ Now \in Grantees \X Spellings
<1>1. /\ s \in Principals \X Schemas /\ name[s[1]] = Now[1] /\ name[s[2]] = Now[2]
  BY DEF Identities
<1>2. Exists(PrincipalKind, Now[1]) /\ Exists(SchemaKind, Now[2])
  BY <1>1, Kinds2 DEF Exists
<1>3. /\ Now[1] = (IF LookupGrantee(prior.grantee) # NoEntry THEN LookupGrantee(prior.grantee)
                   ELSE prior.grantee)
      /\ Now[2] = (IF LookupSchema(prior.target) # NoEntry THEN LookupSchema(prior.target)
                   ELSE prior.target)
  BY FieldTypes, LookupTypes DEF Now
<1>4. \A n : ResolveGrantee(prior.grantee, n) = Now[1]
  BY <1>2, <1>3 DEF ResolveGrantee
<1>5. ResolveKnownObject(prior.target) = Now[2]
  BY <1>2, <1>3 DEF ResolveKnownObject
<1> QED
  BY <1>4, <1>5, NowTypes

\* An Update that does not move stays where the subject is now.
LEMMA NoMove ==
  ASSUME TypesInv, prior # NoState, NEW to \in Grantees \X Spellings, ~Moves(to)
  PROVE  to = Now /\ to = <<prior.grantee, prior.target>>
<1>1. /\ Now[1] = (IF LookupGrantee(prior.grantee) # NoEntry THEN LookupGrantee(prior.grantee)
                   ELSE prior.grantee)
      /\ Now[2] = (IF LookupSchema(prior.target) # NoEntry THEN LookupSchema(prior.target)
                   ELSE prior.target)
      /\ Now \in Grantees \X Spellings
  BY FieldTypes, LookupTypes, NowTypes DEF Now
<1> QED
  BY <1>1 DEF Moves
\* The step of a handler: what it still has to do covers what is left of the own rows.
LEMMA ContinueOwn ==
  ASSUME TypesInv, OwnInv, pc \in {"planned", "look", "run"}, NEW w \in Work, Continue(w),
         UNCHANGED <<name, log, config, prior, split>>,
         ~split /\ result # "failed" => \A row \in own : row \in held' => InWork(w, row)
  PROVE  OwnInv'
<1> SUFFICES ASSUME ~split, ~split' PROVE OwnInv'
  BY DEF OwnInv
<1>1. CASE w.revoke \cup w.grant = {} /\ result # "failed"
  <2>1. Succeed(w)
    BY <1>1 DEF Continue
  <2>2. pc' = "finished"
    BY <2>1, SucceedFacts
  <2>3. CASE config = NoConfig
    <3>1. own' = own \cap held'
      BY <2>1, <2>3, SucceedFacts
    <3>2. \A row \in own : row \notin held'
      BY <1>1, <2>3 DEF InWork
    <3>3. own' = {}
      BY <3>1, <3>2
    <3> QED
      BY <2>2, <3>3 DEF OwnInv
  <2>4. CASE config # NoConfig
    <3>1. /\ own' = held' \cap (own \cup UNION {RowsAt(w.to, p) : p \in config.privileges})
          /\ state'.privileges = config.privileges
          /\ subject' \in Identities(w.to) \cup {NoSubject}
          /\ Identities(w.to) # {} => subject' # NoSubject
      BY <2>1, <2>4, SucceedFacts
    <3>2. w.to \in (Names \cup {Absent}) \X (Names \cup {Absent}) /\ Absent \notin {w.to[1], w.to[2]}
      BY Kinds2 DEF Work
    <3> SUFFICES ASSUME NEW row \in own'
                 PROVE  /\ subject' # NoSubject /\ <<row[1], row[2]>> = subject'
                        /\ \E p \in state'.privileges : p \in {row[3], All}
      BY <2>2 DEF OwnInv
    <3>3. PICK p \in config.privileges : row \in RowsAt(w.to, p)
      BY <1>1, <3>1 DEF InWork
    <3>4. <<row[1], row[2]>> \in Identities(w.to) /\ p \in {row[3], All}
      BY <3>3, RowFacts
    <3>5. subject' \in Identities(w.to)
      BY <3>1, <3>4
    <3>6. subject' = <<row[1], row[2]>>
      BY <3>2, <3>4, <3>5, OneIdentity
    <3> QED
      BY <3>1, <3>4, <3>6
  <2> QED
    BY <2>3, <2>4
<1>2. CASE ~(w.revoke \cup w.grant = {} /\ result # "failed")
  <2>1. /\ own' = own \cap held' /\ UNCHANGED <<state, subject, result>> /\ work' = w
    BY <1>2 DEF Continue
  <2>2. result # "failed" => \A row \in own' : InWork(w, row)
    BY <2>1
  <2> QED
    BY <2>1, <2>2 DEF OwnInv, InWork, RowsAt
<1> QED
  BY <1>1, <1>2

\* A handler ends, or Delete goes on, with nothing written.
LEMMA FailOwn ==
  ASSUME TypesInv, OwnInv, own' \subseteq own, UNCHANGED <<state, subject, split>>,
         pc' = "run" => result' = "failed"
  PROVE  OwnInv'
  BY DEF OwnInv

LEMMA RefreshOwn == TypesInv /\ SubjectInv /\ OwnInv /\ Refresh => OwnInv'
<1> SUFFICES ASSUME TypesInv, SubjectInv, OwnInv, Refresh PROVE OwnInv'
  OBVIOUS
<1>1. pc = "idle" /\ UNCHANGED <<name, held, split>>
  BY DEF Refresh
<1>2. CASE state' = Refreshed /\ subject' = Adopted[1] /\ own' = Adopted[2] /\ pc' = "planned"
  <2> SUFFICES ASSUME ~split, NEW row \in own'
               PROVE  /\ subject' # NoSubject /\ <<row[1], row[2]>> = subject'
                      /\ \E p \in state'.privileges : p \in {row[3], All}
    BY <1>1, <1>2 DEF OwnInv
  <2>1. ASSUME row \in own
        PROVE  /\ Refreshed # NoState /\ state.target # Unknown
               /\ \E p \in Refreshed.privileges : p \in {row[3], All}
    <3>1. /\ subject # NoSubject /\ SubjectExists /\ row \in Rows /\ row \in held
          /\ <<row[1], row[2]>> = subject
      BY <2>1, OwnSubject
    <3>2. PICK p \in state.privileges : p \in {row[3], All}
      BY <2>1, OwnSubject
    <3>3. state # NoState /\ state.target # Unknown
      BY <3>1 DEF TypesInv, HandlerInv
    <3>4. ReadTarget = state.target
      BY <3>3 DEF ReadTarget
    <3>5. subject \in Identities(<<state.grantee, ReadTarget>>)
      BY <1>1, <3>1, <3>4 DEF SubjectInv
    <3>6. row \in RowsAt(<<state.grantee, ReadTarget>>, p)
      BY <3>1, <3>2, <3>5, RowFacts
    <3>7. PrivilegeExists(<<state.grantee, ReadTarget>>, p)
      BY <3>1, <3>6 DEF PrivilegeExists
    <3>8. Refreshed # NoState
      <4> DEFINE found == {q \in state.privileges : PrivilegeExists(<<state.grantee, ReadTarget>>, q)}
      <4>1. found # {} /\ found \subseteq Privileges \cup {All} /\ ReadTarget \in Spellings
        BY <3>2, <3>3, <3>7, FieldTypes, TargetTypes
      <4>2. Refreshed = [state EXCEPT !.privileges = found, !.target = ReadTarget]
        BY <3>3, <4>1 DEF Refreshed
      <4>3. state \in States
        BY <3>3 DEF TypesInv, TypeOK
      <4> HIDE DEF found
      <4>4. Refreshed \in States
        BY <4>1, <4>2, <4>3 DEF States
      <4> QED
        BY <4>4, ObjectPrivilegeAssumption
    <3> QED
      BY <3>2, <3>3, <3>7, <3>8, RefreshedFacts
  <2>2. CASE Refreshed = NoState
    BY <1>2, <2>1, <2>2, AdoptedFacts
  <2>3. CASE Refreshed # NoState /\ state.target # Unknown
    <3>1. own' = own /\ subject' = subject
      BY <1>2, <2>3, AdoptedFacts
    <3> QED
      BY <1>2, <2>1, <3>1, OwnSubject
  <2>4. CASE Refreshed # NoState /\ state.target = Unknown
    <3> DEFINE loc == <<state.grantee, ReadTarget>>
    <3>1. /\ subject' \in Identities(loc)
          /\ own' = held \cap UNION {RowsAt(loc, p) : p \in state.privileges}
      BY <1>2, <2>4, AdoptedFacts
    <3>2. /\ loc \in (Names \cup {Absent}) \X (Names \cup {Absent}) /\ Absent \notin {loc[1], loc[2]}
          /\ Refreshed.privileges = {p \in state.privileges : PrivilegeExists(loc, p)}
      BY <2>4, RefreshedFacts, FieldTypes, Kinds2
    <3> HIDE DEF loc
    <3>3. PICK p \in state.privileges : row \in RowsAt(loc, p)
      BY <3>1
    <3>4. row \in held /\ PrivilegeExists(loc, p)
      BY <3>1, <3>3 DEF PrivilegeExists
    <3>5. <<row[1], row[2]>> \in Identities(loc) /\ p \in {row[3], All}
      BY <3>3, RowFacts
    <3>6. subject' = <<row[1], row[2]>>
      BY <3>1, <3>2, <3>5, OneIdentity
    <3>7. subject' # NoSubject
      BY <3>1, ObjectPrivilegeAssumption DEF Identities
    <3> QED
      BY <1>2, <3>2, <3>4, <3>5, <3>6, <3>7
  <2> QED
    BY <2>2, <2>3, <2>4
<1>3. CASE UNCHANGED <<own, state, subject, pc>>
  BY <1>1, <1>3, FailOwn
<1> QED
  BY <1>2, <1>3 DEF Refresh

LEMMA BeginOwn == TypesInv /\ SubjectInv /\ OwnInv /\ Begin => OwnInv'
<1> SUFFICES ASSUME TypesInv, SubjectInv, OwnInv, Begin PROVE OwnInv'
  OBVIOUS
<1> DEFINE w == [Nothing(<<config.grantee, config.spelling>>) EXCEPT !.grant = config.privileges]
<1>1. pc = "planned" /\ UNCHANGED <<name, held, log, config, prior, split>>
  BY DEF Begin
<1>2. CASE pc' \in {"finished", "look"} /\ UNCHANGED <<own, state, subject>>
  BY <1>1, <1>2, FailOwn
<1>3. CASE prior = NoState /\ config # NoConfig /\ Continue(w)
  <2>1. w \in Work
    BY <1>3, FieldTypes, NothingTypes
  <2>2. state = NoState /\ subject = NoSubject
    BY <1>1, <1>3 DEF TypesInv, HandlerInv
  <2>3. ~split => own = {}
    BY <2>2, OwnSubject
  <2> HIDE DEF w
  <2> QED
    BY <1>1, <1>3, <2>1, <2>3, ContinueOwn
<1> QED
  BY <1>2, <1>3 DEF Begin

LEMMA LookUpdateOwn == TypesInv /\ SubjectInv /\ OwnInv /\ LookUpdate => OwnInv'
<1> SUFFICES ASSUME TypesInv, SubjectInv, OwnInv, LookUpdate PROVE OwnInv'
  OBVIOUS
<1> DEFINE to == <<config.grantee, NewTarget>>
<1>1. /\ pc = "look" /\ config # NoConfig /\ prior # NoState
      /\ UNCHANGED <<name, held, log, config, prior, split>>
  BY DEF LookUpdate, TypesInv, HandlerInv
<1>2. to \in Grantees \X Spellings /\ MoveWork(to) \in Work /\ DiffWork(to) \in Work
  BY <1>1, UpdateTypes
<1>3. \/ ~Moves(to) /\ Continue(DiffWork(to))
      \/ Continue(MoveWork(to))
      \/ Fail /\ UNCHANGED own
  BY DEF LookUpdate
<1> HIDE DEF to
<1>4. ASSUME ~split, NEW row \in own
      PROVE  /\ InWork(MoveWork(to), row)
             /\ ~Moves(to) => InWork(DiffWork(to), row)
  <2>1. /\ subject # NoSubject /\ SubjectExists /\ row \in Rows /\ <<row[1], row[2]>> = subject
    BY <1>4, OwnSubject
  <2>2. PICK p \in state.privileges : p \in {row[3], All}
    BY <1>4, OwnSubject
  <2>3. state = prior /\ subject \in Identities(Now)
    BY <1>1, <1>4, <2>1, SubjectNow
  <2>4. p \in prior.privileges /\ row \in RowsAt(Now, p)
    BY <2>1, <2>2, <2>3, RowFacts
  <2>5. InWork(MoveWork(to), row)
    <3>1. <<ResolveGrantee(prior.grantee, to[1]), ResolveKnownObject(prior.target)>> = Now
          /\ Absent \notin {Now[1], Now[2]}
      BY <1>1, <2>3, MoveFrom
    <3>2. /\ MoveWork(to).from = Now /\ MoveWork(to).to = to
          /\ MoveWork(to).revoke = prior.privileges \ (IF Now = to THEN config.privileges ELSE {})
      BY <3>1 DEF MoveWork
    <3> QED
      BY <1>1, <2>4, <3>2 DEF InWork
  <2>6. ASSUME ~Moves(to) PROVE InWork(DiffWork(to), row)
    <3>1. to = Now
      BY <1>1, <1>2, <2>6, NoMove
    <3>2. /\ DiffWork(to).from = to /\ DiffWork(to).to = to
          /\ DiffWork(to).revoke = prior.privileges \ config.privileges
      BY DEF DiffWork
    <3> QED
      BY <1>1, <2>4, <3>1, <3>2 DEF InWork
  <2> QED
    BY <2>5, <2>6
<1>5. CASE ~Moves(to) /\ Continue(DiffWork(to))
  BY <1>1, <1>2, <1>4, <1>5, ContinueOwn
<1>6. CASE Continue(MoveWork(to))
  BY <1>1, <1>2, <1>4, <1>6, ContinueOwn
<1>7. CASE Fail /\ UNCHANGED own
  BY <1>1, <1>7, FailOwn DEF Fail
<1> QED
  BY <1>3, <1>5, <1>6, <1>7

LEMMA LookDeleteOwn == TypesInv /\ SubjectInv /\ OwnInv /\ LookDelete => OwnInv'
<1> SUFFICES ASSUME TypesInv, SubjectInv, OwnInv, LookDelete PROVE OwnInv'
  OBVIOUS
<1>1. /\ pc = "look" /\ config = NoConfig /\ prior # NoState /\ Continue(DeleteWork)
      /\ UNCHANGED <<name, held, log, config, prior, split>>
  BY DEF LookDelete, TypesInv, HandlerInv, DeleteWork
<1>2. ASSUME ~split, NEW row \in own PROVE InWork(DeleteWork, row)
  <2>1. /\ subject # NoSubject /\ SubjectExists /\ row \in Rows /\ <<row[1], row[2]>> = subject
    BY <1>2, OwnSubject
  <2>2. PICK p \in state.privileges : p \in {row[3], All}
    BY <1>2, OwnSubject
  <2>3. state = prior /\ subject \in Identities(Now)
    BY <1>1, <1>2, <2>1, SubjectNow
  <2>4. p \in prior.privileges /\ row \in RowsAt(Now, p)
    BY <2>1, <2>2, <2>3, RowFacts
  <2>5. ResolveKnownObject(prior.target) = Now[2] /\ Now[2] # Absent /\ Now \in Grantees \X Spellings
    BY <1>1, <2>3, MoveFrom
  <2>6. CurrentName(log, PrincipalKind, prior.grantee) = Now[1]
    BY DEF Now
  <2>7. DeleteWork = [Nothing(Now) EXCEPT !.revoke = prior.privileges]
    BY <2>5, <2>6 DEF DeleteWork
  <2>8. DeleteWork.from = Now /\ DeleteWork.revoke = prior.privileges
    BY <2>7 DEF Nothing
  <2> QED
    BY <2>4, <2>8 DEF InWork
<1> QED
  BY <1>1, <1>2, DeleteTypes, ContinueOwn

LEMMA QueryOwn == OwnInv /\ TypesInv /\ QueryFails => OwnInv'
  BY FailOwn DEF QueryFails, Fail

LEMMA RevokeOwn == TypesInv /\ OwnInv /\ RevokeNext => OwnInv'
<1> SUFFICES ASSUME TypesInv, OwnInv, RevokeNext PROVE OwnInv'
  OBVIOUS
<1>1. PICK p \in work.revoke : \E rest \in Work :
           /\ rest.from = work.from /\ rest.to = work.to /\ rest.revoke = work.revoke \ {p}
           /\ pc = "run" /\ UNCHANGED <<name, log, config, prior, split>>
           /\ \/ Continue(rest) /\ held' \cap RowsAt(work.from, p) = {}
              \/ RevokeFailed(rest)
  BY RevokeFacts
<1>2. PICK rest \in Work :
           /\ rest.from = work.from /\ rest.to = work.to /\ rest.revoke = work.revoke \ {p}
           /\ pc = "run" /\ UNCHANGED <<name, log, config, prior, split>>
           /\ \/ Continue(rest) /\ held' \cap RowsAt(work.from, p) = {}
              \/ RevokeFailed(rest)
  BY <1>1
<1>3. CASE Continue(rest) /\ held' \cap RowsAt(work.from, p) = {}
  <2>1. ~split /\ result # "failed" => \A row \in own : row \in held' => InWork(rest, row)
    BY <1>2, <1>3 DEF OwnInv, InWork
  <2> QED
    BY <1>2, <1>3, <2>1, ContinueOwn
<1>4. CASE RevokeFailed(rest)
  BY <1>2, <1>4, FailOwn DEF RevokeFailed, Fail
<1> QED
  BY <1>2, <1>3, <1>4

LEMMA GrantOwn == TypesInv /\ OwnInv /\ GrantNext => OwnInv'
<1> SUFFICES ASSUME TypesInv, OwnInv, GrantNext PROVE OwnInv'
  OBVIOUS
<1>1. PICK p \in work.grant : \E rest \in Work :
           /\ rest.from = work.from /\ rest.to = work.to /\ rest.revoke = work.revoke
           /\ pc = "run" /\ UNCHANGED <<name, log, config, prior, split>>
           /\ Continue(rest) \/ (Fail /\ own' = own \cap held')
  BY GrantFacts
<1>2. PICK rest \in Work :
           /\ rest.from = work.from /\ rest.to = work.to /\ rest.revoke = work.revoke
           /\ pc = "run" /\ UNCHANGED <<name, log, config, prior, split>>
           /\ Continue(rest) \/ (Fail /\ own' = own \cap held')
  BY <1>1
<1>3. ~split /\ result # "failed" => \A row \in own : row \in held' => InWork(rest, row)
  BY <1>2 DEF OwnInv, InWork
<1>4. CASE Continue(rest)
  BY <1>2, <1>3, <1>4, ContinueOwn
<1>5. CASE Fail /\ own' = own \cap held'
  BY <1>2, <1>5, FailOwn DEF Fail
<1> QED
  BY <1>2, <1>4, <1>5

LEMMA OutsideOwn == TypesInv /\ OwnInv /\ Outside => OwnInv'
<1> SUFFICES ASSUME TypesInv, OwnInv, Outside PROVE OwnInv'
  OBVIOUS
<1>1. UNCHANGED <<state, config, pc, work, subject, result, split>>
  BY DEF Outside
<1>2. \A row \in own' : /\ row \in own
                        /\ name'[row[1]] = name[row[1]] /\ name'[row[2]] = name[row[2]]
  BY OutsideNames
<1>3. \A row \in own' : InWork(work, row) => InWork(work, row)'
  BY <1>1, <1>2 DEF InWork, RowsAt
<1> QED
  BY <1>1, <1>2, <1>3 DEF OwnInv

LEMMA OwnStep == TypesInv /\ SubjectInv /\ OwnInv /\ [Next]_vars => OwnInv'
<1> SUFFICES ASSUME TypesInv, SubjectInv, OwnInv, [Next]_vars PROVE OwnInv'
  OBVIOUS
<1>1. CASE UNCHANGED vars
  BY <1>1 DEF vars, OwnInv, InWork, RowsAt
<1>2. CASE Rename
  BY <1>2, RenameKeeps DEF OwnInv
<1>3. CASE Finish
  BY <1>3 DEF Finish, OwnInv
<1>4. CASE Edit
  BY <1>4 DEF Edit, OwnInv
<1> QED
  BY <1>1, <1>2, <1>3, <1>4, RefreshOwn, BeginOwn, LookUpdateOwn, LookDeleteOwn, QueryOwn,
     RevokeOwn, GrantOwn, OutsideOwn DEF Next, Step
-----------------------------------------------------------------------------
(* Where a handler with a state works: it revokes from the subject, and grants on the
   subject's schema unless the configuration leads elsewhere. *)
Aimed(w) ==
  /\ w.revoke # {} => subject \in Identities(w.from)
  /\ config # NoConfig /\ config.spelling = prior.spelling /\ LookupSchema(prior.target) = NoEntry
       => w.to[2] = prior.target

TargetInv ==
  pc = "run" /\ prior # NoState /\ ~split /\ subject # NoSubject /\ SubjectExists => Aimed(work)

LEMMA ContinueTarget ==
  ASSUME TypesInv, NEW w, Continue(w), UNCHANGED <<name, log, config, prior, split>>,
         prior # NoState /\ ~split /\ subject # NoSubject /\ SubjectExists => Aimed(w)
  PROVE  TargetInv'
<1>1. CASE pc' = "run"
  <2>1. work' = w /\ UNCHANGED subject
    BY <1>1 DEF Continue, Succeed
  <2> QED
    BY <2>1 DEF TargetInv, Aimed, Identities, SubjectExists, LookupSchema
<1> QED
  BY <1>1 DEF TargetInv

LEMMA BeginTarget == TypesInv /\ Begin => TargetInv'
<1> SUFFICES ASSUME TypesInv, Begin, pc' = "run", prior' # NoState PROVE FALSE
  BY DEF TargetInv
<1> QED
  BY DEF Begin

LEMMA LookUpdateTarget == TypesInv /\ SubjectInv /\ LookUpdate => TargetInv'
<1> SUFFICES ASSUME TypesInv, SubjectInv, LookUpdate PROVE TargetInv'
  OBVIOUS
<1> DEFINE to == <<config.grantee, NewTarget>>
<1>1. /\ pc = "look" /\ config # NoConfig /\ prior # NoState
      /\ UNCHANGED <<name, held, log, config, prior, split>>
  BY DEF LookUpdate, TypesInv, HandlerInv
<1>2. to \in Grantees \X Spellings
  BY <1>1, UpdateTypes
<1>3. \/ ~Moves(to) /\ Continue(DiffWork(to))
      \/ Continue(MoveWork(to))
      \/ Fail
  BY DEF LookUpdate
<1>4. config.spelling = prior.spelling /\ LookupSchema(prior.target) = NoEntry => to[2] = prior.target
  BY DEF NewTarget
<1> HIDE DEF to
<1>5. ASSUME ~split, subject # NoSubject, SubjectExists
      PROVE  Aimed(MoveWork(to)) /\ (~Moves(to) => Aimed(DiffWork(to)))
  <2>1. subject \in Identities(Now)
    BY <1>1, <1>5, SubjectNow
  <2>2. <<ResolveGrantee(prior.grantee, to[1]), ResolveKnownObject(prior.target)>> = Now
    BY <1>1, <2>1, MoveFrom
  <2>3. MoveWork(to).from = Now /\ MoveWork(to).to = to
    BY <2>2 DEF MoveWork
  <2>4. DiffWork(to).from = to /\ DiffWork(to).to = to
    BY DEF DiffWork
  <2>5. ~Moves(to) => to = Now
    BY <1>1, <1>2, NoMove
  <2> QED
    BY <1>4, <2>1, <2>3, <2>4, <2>5 DEF Aimed
<1>6. CASE ~Moves(to) /\ Continue(DiffWork(to))
  BY <1>1, <1>5, <1>6, ContinueTarget
<1>7. CASE Continue(MoveWork(to))
  BY <1>1, <1>5, <1>7, ContinueTarget
<1>8. CASE Fail
  BY <1>8 DEF Fail, TargetInv
<1> QED
  BY <1>3, <1>6, <1>7, <1>8

LEMMA LookDeleteTarget == TypesInv /\ SubjectInv /\ LookDelete => TargetInv'
<1> SUFFICES ASSUME TypesInv, SubjectInv, LookDelete PROVE TargetInv'
  OBVIOUS
<1>1. /\ pc = "look" /\ config = NoConfig /\ prior # NoState /\ Continue(DeleteWork)
      /\ UNCHANGED <<name, held, log, config, prior, split>>
  BY DEF LookDelete, TypesInv, HandlerInv, DeleteWork
<1>2. ASSUME ~split, subject # NoSubject, SubjectExists PROVE Aimed(DeleteWork)
  <2>1. subject \in Identities(Now)
    BY <1>1, <1>2, SubjectNow
  <2>2. ResolveKnownObject(prior.target) = Now[2] /\ Now[2] # Absent
    BY <1>1, <2>1, MoveFrom
  <2>3. CurrentName(log, PrincipalKind, prior.grantee) = Now[1] /\ Now = <<Now[1], Now[2]>>
    BY DEF Now
  <2>4. DeleteWork.from = Now
    BY <2>2, <2>3 DEF DeleteWork, Nothing
  <2> QED
    BY <1>1, <2>1, <2>4 DEF Aimed
<1> QED
  BY <1>1, <1>2, ContinueTarget

LEMMA RevokeTarget == TypesInv /\ TargetInv /\ RevokeNext => TargetInv'
<1> SUFFICES ASSUME TypesInv, TargetInv, RevokeNext PROVE TargetInv'
  OBVIOUS
<1>1. PICK p \in work.revoke : \E rest \in Work :
           /\ rest.from = work.from /\ rest.to = work.to /\ rest.revoke = work.revoke \ {p}
           /\ pc = "run" /\ UNCHANGED <<name, log, config, prior, split>>
           /\ Continue(rest) \/ RevokeFailed(rest)
  BY RevokeFacts
<1>2. PICK rest \in Work :
           /\ rest.from = work.from /\ rest.to = work.to /\ rest.revoke = work.revoke \ {p}
           /\ pc = "run" /\ UNCHANGED <<name, log, config, prior, split>>
           /\ Continue(rest) \/ RevokeFailed(rest)
  BY <1>1
<1>3. prior # NoState /\ ~split /\ subject # NoSubject /\ SubjectExists => Aimed(rest)
  BY <1>2 DEF TargetInv, Aimed
<1>4. CASE Continue(rest)
  BY <1>2, <1>3, <1>4, ContinueTarget
<1>5. CASE RevokeFailed(rest)
  <2>1. pc' = "run" => work' = rest /\ UNCHANGED subject
    BY <1>5 DEF RevokeFailed, Fail
  <2> QED
    BY <1>2, <1>3, <2>1 DEF TargetInv, Aimed, Identities, SubjectExists, LookupSchema
<1> QED
  BY <1>2, <1>4, <1>5

LEMMA GrantTarget == TypesInv /\ TargetInv /\ GrantNext => TargetInv'
<1> SUFFICES ASSUME TypesInv, TargetInv, GrantNext PROVE TargetInv'
  OBVIOUS
<1>1. PICK p \in work.grant : \E rest \in Work :
           /\ rest.from = work.from /\ rest.to = work.to /\ rest.revoke = work.revoke
           /\ pc = "run" /\ UNCHANGED <<name, log, config, prior, split>>
           /\ Continue(rest) \/ Fail
  BY GrantFacts
<1>2. PICK rest \in Work :
           /\ rest.from = work.from /\ rest.to = work.to /\ rest.revoke = work.revoke
           /\ pc = "run" /\ UNCHANGED <<name, log, config, prior, split>>
           /\ Continue(rest) \/ Fail
  BY <1>1
<1>3. prior # NoState /\ ~split /\ subject # NoSubject /\ SubjectExists => Aimed(rest)
  BY <1>2 DEF TargetInv, Aimed
<1>4. CASE Continue(rest)
  BY <1>2, <1>3, <1>4, ContinueTarget
<1>5. CASE Fail
  BY <1>5 DEF Fail, TargetInv
<1> QED
  BY <1>2, <1>4, <1>5

LEMMA OutsideTarget == TypesInv /\ TargetInv /\ Outside => TargetInv'
<1> SUFFICES ASSUME TypesInv, TargetInv, Outside PROVE TargetInv'
  OBVIOUS
<1>1. UNCHANGED <<log, config, pc, prior, work, subject, split>>
  BY DEF Outside
<1>2. CASE subject # NoSubject /\ SubjectExists' /\ ~split /\ pc = "run" /\ prior # NoState
  <2>1. SubjectExists /\ name'[subject[1]] = name[subject[1]] /\ name'[subject[2]] = name[subject[2]]
    BY <1>2, OutsideNames
  <2> QED
    BY <1>1, <1>2, <2>1 DEF TargetInv, Aimed, Identities, LookupSchema
<1> QED
  BY <1>1, <1>2 DEF TargetInv

LEMMA TargetStep == TypesInv /\ SubjectInv /\ TargetInv /\ [Next]_vars => TargetInv'
<1> SUFFICES ASSUME TypesInv, SubjectInv, TargetInv, [Next]_vars PROVE TargetInv'
  OBVIOUS
<1>1. CASE UNCHANGED vars
  BY <1>1 DEF vars, TargetInv, Aimed, Identities, SubjectExists, LookupSchema
<1>2. CASE Refresh \/ Finish \/ Edit \/ QueryFails
  BY <1>2 DEF Refresh, Finish, Edit, QueryFails, Fail, TargetInv
<1>3. CASE Rename
  BY <1>3, RenameKeeps DEF TargetInv
<1> QED
  BY <1>1, <1>2, <1>3, BeginTarget, LookUpdateTarget, LookDeleteTarget, RevokeTarget,
     GrantTarget, OutsideTarget DEF Next, Step

-----------------------------------------------------------------------------
(* An Update that is refused kept everything; and one that goes on has found that
   its new endpoints exist, so that only another session can have it refused. *)
EndpointsExist == Exists(PrincipalKind, work.to[1]) /\ Exists(SchemaKind, work.to[2])

KeptInv ==
  /\ AccessKept
  /\ ~touched /\ ~split /\ prior # NoState /\ config # NoConfig /\ pc = "run" => EndpointsExist

\* What exists can be granted on.
LEMMA GrantPossible ==
  ASSUME TypesInv, NEW to, NEW p \in Privileges \cup {All},
         Exists(PrincipalKind, to[1]), Exists(SchemaKind, to[2])
  PROVE  RowsAt(to, p) # {}
<1>1. PICK o \in Objects : KindOf(o) = PrincipalKind /\ name[o] = to[1]
  BY DEF Exists
<1>2. PICK q \in Objects : KindOf(q) = SchemaKind /\ name[q] = to[2]
  BY DEF Exists
<1>3. o \in Principals /\ q \in Schemas
  BY <1>1, <1>2, Kinds2 DEF Objects, KindOf
<1>4. PICK r \in Privileges : p \in {r, All}
  BY ObjectPrivilegeAssumption
<1>5. <<o, q, r>> \in RowsAt(to, p)
  BY <1>1, <1>2, <1>3, <1>4 DEF RowsAt, Rows
<1> QED
  BY <1>5

\* What is found at a location shows that it exists.
LEMMA FoundExists ==
  ASSUME TypesInv, NEW loc, NEW p, PrivilegeExists(loc, p)
  PROVE  Exists(PrincipalKind, loc[1]) /\ Exists(SchemaKind, loc[2])
<1>1. PICK row \in held : row \in RowsAt(loc, p)
  BY DEF PrivilegeExists
<1>2. row[1] \in Principals /\ row[2] \in Schemas /\ name[row[1]] = loc[1] /\ name[row[2]] = loc[2]
  BY <1>1 DEF RowsAt, Rows
<1> QED
  BY <1>2, Kinds2 DEF Exists

\* The last step of a handler that ends well, or one that goes on, keeps it.
LEMMA ContinueKept ==
  ASSUME TypesInv, KeptInv, NEW w, Continue(w), pc \in {"planned", "look", "run"},
         UNCHANGED <<name, config, prior, touched, split>>,
         ~touched /\ ~split /\ prior # NoState /\ config # NoConfig =>
           Exists(PrincipalKind, w.to[1]) /\ Exists(SchemaKind, w.to[2])
  PROVE  KeptInv'
<1>1. config # NoConfig => result # "failed"
  BY DEF TypesInv, HandlerInv
<1>2. AccessKept'
  BY <1>1 DEF AccessKept, Continue, Succeed
<1>3. pc' = "run" => work' = w
  BY DEF Continue, Succeed
<1> QED
  BY <1>2, <1>3 DEF KeptInv, EndpointsExist, Exists

LEMMA BeginKept == TypesInv /\ KeptInv /\ Begin => KeptInv'
<1> SUFFICES ASSUME TypesInv, KeptInv, Begin PROVE KeptInv'
  OBVIOUS
<1>1. CASE pc' \in {"finished", "look"} /\ (pc' = "finished" => result' = "ok")
  BY <1>1 DEF KeptInv, AccessKept
<1>2. CASE prior = NoState
  BY <1>2 DEF Begin, KeptInv, AccessKept
<1> QED
  BY <1>1, <1>2 DEF Begin

LEMMA LookUpdateKept ==
  TypesInv /\ SubjectInv /\ FoundInv /\ KeptInv /\ LookUpdate => KeptInv'
<1> SUFFICES ASSUME TypesInv, SubjectInv, FoundInv, KeptInv, LookUpdate PROVE KeptInv'
  OBVIOUS
<1> DEFINE to == <<config.grantee, NewTarget>>
<1>1. /\ pc = "look" /\ config # NoConfig /\ prior # NoState /\ state = prior
      /\ UNCHANGED <<name, held, log, config, prior, mishap, touched, split>>
      /\ prior.privileges # {}
  BY DEF LookUpdate, TypesInv, HandlerInv
<1>2. to \in Grantees \X Spellings /\ DiffWork(to).to = to /\ MoveWork(to).to = to
  BY <1>1, UpdateTypes DEF DiffWork, MoveWork
<1>3. \/ ~Moves(to) /\ Continue(DiffWork(to))
      \/ Exists(PrincipalKind, to[1]) /\ Exists(SchemaKind, to[2]) /\ Continue(MoveWork(to))
      \/ Fail
  BY DEF LookUpdate
<1> HIDE DEF to
<1>4. CASE ~Moves(to) /\ Continue(DiffWork(to))
  <2>1. ~touched => Exists(PrincipalKind, to[1]) /\ Exists(SchemaKind, to[2])
    BY <1>1, <1>2, <1>4, NoMove, FoundExists DEF FoundInv
  <2> QED
    BY <1>1, <1>2, <1>4, <2>1, ContinueKept
<1>5. CASE Exists(PrincipalKind, to[1]) /\ Exists(SchemaKind, to[2]) /\ Continue(MoveWork(to))
  BY <1>1, <1>2, <1>5, ContinueKept
<1>6. CASE Fail
  <2>1. UNCHANGED <<state, subject>> /\ pc' = "finished"
    BY <1>6 DEF Fail
  <2>2. ASSUME ~touched, ~split, subject # NoSubject, SubjectExists, NEW p \in prior.privileges
        PROVE  \E row \in held : <<row[1], row[2]>> = subject /\ p \in {row[3], All}
    <3>1. subject \in Identities(Now)
      BY <1>1, <2>2, SubjectNow
    <3>2. PICK row \in held : row \in RowsAt(Now, p)
      BY <1>1, <2>2 DEF FoundInv, PrivilegeExists
    <3>3. <<row[1], row[2]>> \in Identities(Now) /\ p \in {row[3], All}
      BY <3>2, RowFacts
    <3>4. Now \in (Names \cup {Absent}) \X (Names \cup {Absent}) /\ Absent \notin {Now[1], Now[2]}
      BY <1>1, NowTypes, Kinds2
    <3>5. <<row[1], row[2]>> = subject
      BY <3>1, <3>3, <3>4, OneIdentity
    <3> QED
      BY <3>2, <3>3, <3>5
  <2> QED
    BY <1>1, <2>1, <2>2 DEF KeptInv, AccessKept, SubjectExists
<1> QED
  BY <1>3, <1>4, <1>5, <1>6

LEMMA RevokeKept == TypesInv /\ KeptInv /\ RevokeNext => KeptInv'
<1> SUFFICES ASSUME TypesInv, KeptInv, RevokeNext PROVE KeptInv'
  OBVIOUS
<1>1. PICK p \in work.revoke : \E rest \in Work :
           /\ rest.to = work.to /\ pc = "run"
           /\ UNCHANGED <<name, log, config, prior, touched, split>>
           /\ Continue(rest) \/ (RevokeFailed(rest) /\ mishap' = TRUE)
  BY RevokeFacts
<1>2. PICK rest \in Work :
           /\ rest.to = work.to /\ pc = "run"
           /\ UNCHANGED <<name, log, config, prior, touched, split>>
           /\ Continue(rest) \/ (RevokeFailed(rest) /\ mishap' = TRUE)
  BY <1>1
<1>3. CASE Continue(rest)
  <2>1. ~touched /\ ~split /\ prior # NoState /\ config # NoConfig =>
           Exists(PrincipalKind, rest.to[1]) /\ Exists(SchemaKind, rest.to[2])
    BY <1>2 DEF KeptInv, EndpointsExist
  <2> QED
    BY <1>2, <1>3, <2>1, ContinueKept
<1>4. CASE RevokeFailed(rest) /\ mishap' = TRUE
  BY <1>2, <1>4 DEF RevokeFailed, Fail, KeptInv, AccessKept
<1> QED
  BY <1>2, <1>3, <1>4

LEMMA GrantKept == TypesInv /\ KeptInv /\ GrantNext => KeptInv'
<1> SUFFICES ASSUME TypesInv, KeptInv, GrantNext PROVE KeptInv'
  OBVIOUS
<1>1. PICK p \in work.grant : \E rest \in Work :
           /\ rest.to = work.to /\ pc = "run"
           /\ UNCHANGED <<name, log, config, prior, touched, split>>
           /\ Continue(rest) \/ (Fail /\ (mishap' = TRUE \/ RowsAt(work.to, p) = {}))
  BY GrantFacts
<1>2. PICK rest \in Work :
           /\ rest.to = work.to /\ pc = "run"
           /\ UNCHANGED <<name, log, config, prior, touched, split>>
           /\ Continue(rest) \/ (Fail /\ (mishap' = TRUE \/ RowsAt(work.to, p) = {}))
  BY <1>1
<1>3. ~touched /\ ~split /\ prior # NoState /\ config # NoConfig =>
           Exists(PrincipalKind, rest.to[1]) /\ Exists(SchemaKind, rest.to[2])
  BY <1>2 DEF KeptInv, EndpointsExist
<1>4. CASE Continue(rest)
  BY <1>2, <1>3, <1>4, ContinueKept
<1>5. CASE Fail /\ (mishap' = TRUE \/ RowsAt(work.to, p) = {})
  <2>1. p \in Privileges \cup {All}
    BY <1>2, RestTypes DEF Work
  <2>2. mishap' = TRUE \/ touched \/ split \/ prior = NoState \/ config = NoConfig
    BY <1>2, <1>3, <1>5, <2>1, GrantPossible
  <2> QED
    BY <1>2, <1>5, <2>2 DEF Fail, KeptInv, AccessKept
<1> QED
  BY <1>2, <1>4, <1>5

LEMMA RenameKept == TypesInv /\ KeptInv /\ Rename => KeptInv'
<1> SUFFICES ASSUME TypesInv, KeptInv, Rename PROVE KeptInv'
  OBVIOUS
<1>1. /\ pc = "run" => split' = TRUE
      /\ pc # "run" => UNCHANGED split
      /\ UNCHANGED <<held, config, pc, prior, subject, result, mishap, touched>>
  BY RenameKeeps
<1>2. subject # NoSubject => (SubjectExists' <=> SubjectExists)
  BY RenameExists
<1> QED
  BY <1>1, <1>2 DEF KeptInv, AccessKept

LEMMA KeptStep == TypesInv /\ SubjectInv /\ FoundInv /\ KeptInv /\ [Next]_vars => KeptInv'
<1> SUFFICES ASSUME TypesInv, SubjectInv, FoundInv, KeptInv, [Next]_vars PROVE KeptInv'
  OBVIOUS
<1>1. CASE UNCHANGED vars
  BY <1>1 DEF vars, KeptInv, AccessKept, EndpointsExist, Exists, SubjectExists
<1>2. CASE Refresh \/ Finish \/ Edit
  BY <1>2 DEF Refresh, Finish, Edit, KeptInv, AccessKept
<1>3. CASE QueryFails
  BY <1>3 DEF QueryFails, Fail, KeptInv, AccessKept
<1>4. CASE Outside
  BY <1>4 DEF Outside, KeptInv, AccessKept
<1>5. CASE LookDelete
  <2>1. config = NoConfig /\ UNCHANGED config
    BY <1>5 DEF LookDelete
  <2> QED
    BY <2>1 DEF KeptInv, AccessKept
<1> QED
  BY <1>1, <1>2, <1>3, <1>4, <1>5, BeginKept, LookUpdateKept, RevokeKept, GrantKept,
     RenameKept DEF Next, Step
-----------------------------------------------------------------------------
PrivilegeInv == TypesInv /\ SubjectInv /\ FoundInv /\ OwnInv /\ TargetInv /\ KeptInv

\* PrivilegeInv is inductive.
THEOREM PrivilegeInvariant == Spec => []PrivilegeInv
<1>1. Init => PrivilegeInv
  <2>1. Init => SubjectInv /\ FoundInv /\ OwnInv /\ TargetInv /\ KeptInv
    BY DEF Init, SubjectInv, FoundInv, OwnInv, TargetInv, KeptInv, AccessKept
  <2> QED
    BY <2>1, TypesInit DEF PrivilegeInv
<1>2. PrivilegeInv /\ [Next]_vars => PrivilegeInv'
  BY TypesStep, SubjectStep, FoundStep, OwnStep, TargetStep, KeptStep DEF PrivilegeInv
<1> QED
  BY <1>1, <1>2, PTL DEF Spec

LEMMA OwnConfigured == PrivilegeInv => NoLeftover
<1> SUFFICES ASSUME PrivilegeInv, pc = "idle", result = "ok", ~split, NEW row \in own
             PROVE  row \in (IF config = NoConfig THEN {}
                             ELSE UNION {RowsAt(<<config.grantee, state.target>>, p) : p \in config.privileges})
  BY DEF NoLeftover
<1>1. TypesInv /\ SubjectInv /\ OwnInv
  BY DEF PrivilegeInv
<1>2. /\ subject # NoSubject /\ SubjectExists /\ row \in Rows /\ <<row[1], row[2]>> = subject
      /\ \E p \in state.privileges : p \in {row[3], All}
  BY <1>1, OwnSubject
<1>3. state # NoState
  BY <1>1, <1>2 DEF TypesInv, HandlerInv
<1>4. config # NoConfig /\ state.grantee = config.grantee /\ state.privileges = config.privileges
  BY <1>1, <1>3 DEF TypesInv, HandlerInv
<1>5. subject \in Identities(<<config.grantee, state.target>>)
  BY <1>1, <1>2, <1>4 DEF SubjectInv
<1>6. PICK p \in config.privileges : p \in {row[3], All}
  BY <1>2, <1>4
<1>7. row \in RowsAt(<<config.grantee, state.target>>, p)
  BY <1>2, <1>5, <1>6, RowFacts
<1> QED
  BY <1>4, <1>7

\* CHANGELOG.md:43: an apply that ends well leaves this resource nothing but what is
\* configured, through any renames, moves, edits, failures and retries before it.
THEOREM NothingLeft == Spec => []NoLeftover
  BY PrivilegeInvariant, OwnConfigured, PTL

\* CHANGELOG.md:49: an Update that is refused has revoked nothing.
THEOREM AccessIsKept == Spec => []AccessKept
<1>1. PrivilegeInv => AccessKept
  BY DEF PrivilegeInv, KeptInv
<1> QED
  BY PrivilegeInvariant, <1>1, PTL

\* What a step revokes is at work.from, and what it grants at work.to.
LEMMA HandlerRows ==
  ASSUME TypesInv, [Next]_vars, HandlerStep
  PROVE  /\ \A row \in held \ held' :
              pc = "run" /\ \E p \in work.revoke : row \in RowsAt(work.from, p)
         /\ \A row \in held' \ held :
              pc = "run" /\ \E p \in work.grant : row \in RowsAt(work.to, p)
<1>1. CASE RevokeNext
  BY <1>1, RevokeFacts
<1>2. CASE GrantNext
  BY <1>2, GrantFacts DEF Fail
<1>3. CASE UNCHANGED held
  BY <1>3
<1>4. ~Outside
  BY DEF Outside, HandlerStep
<1>5. LookUpdate \/ LookDelete \/ QueryFails \/ Refresh \/ Begin \/ Finish \/ Rename \/ Edit
        => UNCHANGED held
  BY DEF LookUpdate, LookDelete, QueryFails, Refresh, Begin, Finish, Rename, Edit
<1> QED
  BY <1>1, <1>2, <1>3, <1>4, <1>5 DEF Next, Step, vars

LEMMA TargetKept ==
  PrivilegeInv /\ [Next]_vars =>
    (HandlerStep /\ prior # NoState /\ subject # NoSubject /\ SubjectExists /\ ~split =>
       /\ \A row \in held \ held' : <<row[1], row[2]>> = subject
       /\ config # NoConfig /\ config.spelling = prior.spelling
          /\ LookupSchema(prior.target) = NoEntry
            => \A row \in held' \ held : row[2] = subject[2])
<1> SUFFICES ASSUME PrivilegeInv, [Next]_vars, HandlerStep, prior # NoState,
                    subject # NoSubject, SubjectExists, ~split
             PROVE  /\ \A row \in held \ held' : <<row[1], row[2]>> = subject
                    /\ config # NoConfig /\ config.spelling = prior.spelling
                       /\ LookupSchema(prior.target) = NoEntry
                         => \A row \in held' \ held : row[2] = subject[2]
  OBVIOUS
<1>1. TypesInv /\ SubjectInv /\ TargetInv
  BY DEF PrivilegeInv
<1>2. ASSUME NEW row \in held \ held' PROVE <<row[1], row[2]>> = subject
  <2>1. PICK p \in work.revoke : row \in RowsAt(work.from, p)
    BY <1>1, <1>2, HandlerRows
  <2>2. pc = "run"
    BY <1>1, <1>2, HandlerRows
  <2>3. subject \in Identities(work.from)
    BY <1>1, <2>1, <2>2 DEF TargetInv, Aimed
  <2>4. <<row[1], row[2]>> \in Identities(work.from)
    BY <2>1, RowFacts
  <2>5. work.from \in (Names \cup {Absent}) \X (Names \cup {Absent})
    BY <1>1, <2>2, RestTypes, Kinds2 DEF Work
  <2>6. Absent \notin {work.from[1], work.from[2]}
    BY <2>3 DEF Identities, SubjectExists
  <2> QED
    BY <1>1, <2>3, <2>4, <2>5, <2>6, OneIdentity
<1>3. ASSUME config # NoConfig, config.spelling = prior.spelling, LookupSchema(prior.target) = NoEntry,
             NEW row \in held' \ held
      PROVE  row[2] = subject[2]
  <2>1. PICK p \in work.grant : row \in RowsAt(work.to, p)
    BY <1>1, <1>3, HandlerRows
  <2>2. pc = "run"
    BY <1>1, <1>3, HandlerRows
  <2>3. work.to[2] = prior.target
    BY <1>1, <1>3, <2>2 DEF TargetInv, Aimed
  <2>4. subject \in Identities(Now)
    BY <1>1, <2>2, SubjectNow
  <2>5. Now[2] = prior.target /\ prior.target \in Spellings
    BY <1>1, <1>3, FieldTypes, LookupTypes DEF Now
  <2>6. name[row[2]] = prior.target /\ name[subject[2]] = prior.target
        /\ row[2] \in Schemas /\ subject[2] \in Schemas
    BY <2>1, <2>3, <2>4, <2>5 DEF RowsAt, Identities, Rows
  <2> QED
    BY <1>1, <2>5, <2>6, Kinds2 DEF TypesInv, TypeOK
<1> QED
  BY <1>2, <1>3

\* CHANGELOG.md:48: Update and Delete revoke from the principal and schema the state
\* was written for, under whatever names they have by now, and from nothing else; an
\* Update that keeps the spelling grants on that schema too.
THEOREM OnTarget == Spec => StaysOnTarget
  BY PrivilegeInvariant, TargetKept, PTL DEF Spec, StaysOnTarget
-----------------------------------------------------------------------------
(* What has been granted. REVOKE ALL takes every privilege, and the REVOKE of one is
   felt by ALL; so a list that has ALL next to others is left out. *)
AllAlone == \A c \in Configs : All \in c.privileges => c.privileges = {All}

\* p is on the target, among rows, as SuccessMeansGranted demands.
Present(rows, p, to) ==
  /\ rows \cap RowsAt(to, p) # {}
  /\ Due(p, to) => RowsAt(to, p) \subseteq rows

\* All that is configured has been granted, or has yet to be; no REVOKE will take it.
Accounted(rows, w) ==
  /\ ~touched /\ ~split => \A p \in config.privileges \ w.grant : Present(rows, p, w.to)
  /\ \A p \in config.privileges \ w.grant : \A q \in w.revoke : p # q /\ All \notin {p, q}

GrantedInv ==
  /\ state # NoState /\ All \in state.privileges => state.privileges = {All}
  /\ pc = "run" /\ config # NoConfig => Accounted(held, work)

\* A step with which a handler ends well leaves what SuccessMeansGranted demands.
EndsGranted ==
  HandlerStep /\ result' = "ok" /\ config # NoConfig /\ ~split =>
    \A p \in config.privileges : Present(held', p, <<config.grantee, state'.target>>)

\* A list in the configuration.
LEMMA ListAlone ==
  ASSUME TypesInv, AllAlone, config # NoConfig, All \in config.privileges
  PROVE  config.privileges = {All}
  BY DEF TypesInv, TypeOK, AllAlone

LEMMA ContinueGranted ==
  ASSUME TypesInv, AllAlone, GrantedInv, NEW w \in Work, Continue(w),
         pc \in {"planned", "look", "run"},
         UNCHANGED <<name, config, prior, touched, split>>,
         config # NoConfig => Accounted(held', w) /\ w.to[1] = config.grantee
  PROVE  GrantedInv' /\ EndsGranted
<1>1. CASE w.revoke \cup w.grant = {} /\ result # "failed"
  <2>1. Succeed(w)
    BY <1>1 DEF Continue
  <2>2. pc' = "finished" /\ (state' = NoState \/ (config # NoConfig /\ state'.privileges = config.privileges))
    BY <2>1, SucceedFacts
  <2>3. config # NoConfig => w.to = <<config.grantee, state'.target>>
    BY <2>1, SucceedFacts DEF Work
  <2>4. EndsGranted
    BY <1>1, <2>3 DEF EndsGranted, Accounted, HandlerStep
  <2> QED
    BY <2>2, <2>4, ListAlone DEF GrantedInv
<1>2. CASE ~(w.revoke \cup w.grant = {} /\ result # "failed")
  <2>1. work' = w /\ UNCHANGED state
    BY <1>2 DEF Continue
  <2>2. GrantedInv'
    BY <2>1 DEF GrantedInv, Accounted, Present, Due, RowsAt
  <2>3. result' # "ok"
    BY <1>2 DEF Continue, TypesInv, HandlerInv
  <2> QED
    BY <2>2, <2>3 DEF EndsGranted
<1> QED
  BY <1>1, <1>2

LEMMA RefreshGranted == TypesInv /\ GrantedInv /\ Refresh => GrantedInv'
<1> SUFFICES ASSUME TypesInv, GrantedInv, Refresh PROVE GrantedInv'
  OBVIOUS
<1>1. pc = "idle" /\ pc' # "run"
  BY DEF Refresh
<1>2. CASE state' = Refreshed /\ Refreshed # NoState
  <2>1. state # NoState /\ Refreshed.privileges \subseteq state.privileges /\ Refreshed.privileges # {}
    BY <1>2, RefreshedFacts
  <2> QED
    BY <1>1, <1>2, <2>1 DEF GrantedInv
<1>3. CASE state' = NoState \/ state' = state
  BY <1>1, <1>3 DEF GrantedInv
<1> QED
  BY <1>2, <1>3 DEF Refresh

LEMMA BeginGranted == TypesInv /\ AllAlone /\ GrantedInv /\ Begin => GrantedInv'
<1> SUFFICES ASSUME TypesInv, AllAlone, GrantedInv, Begin PROVE GrantedInv'
  OBVIOUS
<1> DEFINE w == [Nothing(<<config.grantee, config.spelling>>) EXCEPT !.grant = config.privileges]
<1>1. pc = "planned" /\ UNCHANGED <<name, held, log, config, prior, touched, split>>
  BY DEF Begin
<1>2. CASE pc' \in {"finished", "look"} /\ UNCHANGED state
  BY <1>2 DEF GrantedInv
<1>3. CASE config # NoConfig /\ Continue(w)
  <2>1. w \in Work /\ w.grant = config.privileges /\ w.to[1] = config.grantee
    BY <1>3, FieldTypes, NothingTypes DEF Nothing
  <2> HIDE DEF w
  <2>2. Accounted(held', w)
    BY <1>1, <2>1 DEF Accounted
  <2> QED
    BY <1>1, <1>3, <2>1, <2>2, ContinueGranted
<1> QED
  BY <1>2, <1>3 DEF Begin

LEMMA LookUpdateGranted ==
  TypesInv /\ AllAlone /\ FoundInv /\ GrantedInv /\ LookUpdate => GrantedInv' /\ EndsGranted
<1> SUFFICES ASSUME TypesInv, AllAlone, FoundInv, GrantedInv, LookUpdate
             PROVE  GrantedInv' /\ EndsGranted
  OBVIOUS
<1> DEFINE to == <<config.grantee, NewTarget>>
<1>1. /\ pc = "look" /\ config # NoConfig /\ prior # NoState /\ state = prior
      /\ UNCHANGED <<name, held, log, config, prior, mishap, touched, split>>
  BY DEF LookUpdate, TypesInv, HandlerInv
<1>2. to \in Grantees \X Spellings /\ MoveWork(to) \in Work /\ DiffWork(to) \in Work
      /\ MoveWork(to).to[1] = config.grantee /\ DiffWork(to).to[1] = config.grantee
  BY <1>1, UpdateTypes DEF MoveWork, DiffWork
<1>3. \/ ~Moves(to) /\ Continue(DiffWork(to))
      \/ Continue(MoveWork(to))
      \/ Fail
  BY DEF LookUpdate
<1> HIDE DEF to
<1>4. CASE ~Moves(to) /\ Continue(DiffWork(to))
  <2>1. /\ DiffWork(to).to = to /\ DiffWork(to).revoke = prior.privileges \ config.privileges
        /\ DiffWork(to).grant = config.privileges \ prior.privileges
    BY DEF DiffWork
  <2>2. to = Now /\ to = <<prior.grantee, prior.target>>
    BY <1>1, <1>2, <1>4, NoMove
  <2>3. ASSUME ~touched, NEW p \in config.privileges, p \in prior.privileges PROVE Present(held', p, to)
    <3>1. PrivilegeExists(to, p)
      BY <1>1, <2>2, <2>3 DEF FoundInv
    <3>2. ~Due(p, to)
      BY <1>1, <2>2, <2>3 DEF Due
    <3> QED
      BY <1>1, <3>1, <3>2 DEF Present, PrivilegeExists
  <2>4. ASSUME NEW p \in config.privileges, p \in prior.privileges,
               NEW q \in prior.privileges \ config.privileges
        PROVE  p # q /\ All \notin {p, q}
    BY <1>1, <2>4 DEF GrantedInv
  <2>5. Accounted(held', DiffWork(to))
    BY <1>1, <2>1, <2>2, <2>3, <2>4 DEF Accounted, DiffWork
  <2> QED
    BY <1>1, <1>2, <1>4, <2>5, ContinueGranted
<1>5. CASE Continue(MoveWork(to))
  <2>1. MoveWork(to).grant = config.privileges
    BY DEF MoveWork
  <2>2. Accounted(held', MoveWork(to))
    BY <1>1, <2>1 DEF Accounted, MoveWork
  <2> QED
    BY <1>1, <1>2, <1>5, <2>2, ContinueGranted
<1>6. CASE Fail
  BY <1>6 DEF Fail, GrantedInv, EndsGranted
<1> QED
  BY <1>3, <1>4, <1>5, <1>6

LEMMA RevokeGranted ==
  TypesInv /\ AllAlone /\ SubjectInv /\ GrantedInv /\ RevokeNext => GrantedInv' /\ EndsGranted
<1> SUFFICES ASSUME TypesInv, AllAlone, SubjectInv, GrantedInv, RevokeNext
             PROVE  GrantedInv' /\ EndsGranted
  OBVIOUS
<1>1. PICK p \in work.revoke : \E rest \in Work :
           /\ rest.to = work.to /\ rest.revoke = work.revoke \ {p} /\ rest.grant = work.grant
           /\ pc = "run" /\ UNCHANGED <<name, config, prior, touched, split>>
           /\ held' \in {held, held \ RowsAt(work.from, p)}
           /\ Continue(rest) \/ RevokeFailed(rest)
  BY RevokeFacts
<1>2. PICK rest \in Work :
           /\ rest.to = work.to /\ rest.revoke = work.revoke \ {p} /\ rest.grant = work.grant
           /\ pc = "run" /\ UNCHANGED <<name, config, prior, touched, split>>
           /\ held' \in {held, held \ RowsAt(work.from, p)}
           /\ Continue(rest) \/ RevokeFailed(rest)
  BY <1>1
<1>3. CASE Continue(rest)
  <2>1. ASSUME config # NoConfig PROVE Accounted(held', rest)
    <3>1. Accounted(held, work)
      BY <1>2, <2>1 DEF GrantedInv
    <3>2. ASSUME NEW q \in config.privileges \ work.grant, Present(held, q, work.to)
          PROVE  Present(held', q, work.to)
      <4>1. p # q /\ All \notin {p, q}
        BY <3>1, <3>2 DEF Accounted
      <4>2. RowsAt(work.to, q) \cap RowsAt(work.from, p) = {}
        BY <4>1 DEF RowsAt
      <4> QED
        BY <1>2, <3>2, <4>2 DEF Present
    <3> QED
      BY <1>2, <3>1, <3>2 DEF Accounted
  <2>2. config # NoConfig => rest.to[1] = config.grantee
    BY <1>2 DEF SubjectInv
  <2> QED
    BY <1>2, <1>3, <2>1, <2>2, ContinueGranted
<1>4. CASE RevokeFailed(rest)
  BY <1>2, <1>4 DEF RevokeFailed, Fail, GrantedInv, EndsGranted
<1> QED
  BY <1>2, <1>3, <1>4

\* One row stands for a privilege other than ALL.
LEMMA OneRow ==
  ASSUME TypesInv, NEW to \in Grantees \X Spellings, NEW p, p # All,
         NEW r \in RowsAt(to, p), NEW s \in RowsAt(to, p)
  PROVE  r = s
<1>1. /\ r \in Rows /\ <<r[1], r[2]>> \in Identities(to) /\ r[3] = p
      /\ s \in Rows /\ <<s[1], s[2]>> \in Identities(to) /\ s[3] = p
  BY RowFacts
<1>2. to \in (Names \cup {Absent}) \X (Names \cup {Absent}) /\ Absent \notin {to[1], to[2]}
  BY Kinds2
<1>3. <<r[1], r[2]>> = <<s[1], s[2]>>
  BY <1>1, <1>2, OneIdentity
<1> QED
  BY <1>1, <1>3 DEF Rows

LEMMA GrantGranted ==
  TypesInv /\ AllAlone /\ SubjectInv /\ GrantedInv /\ GrantNext => GrantedInv' /\ EndsGranted
<1> SUFFICES ASSUME TypesInv, AllAlone, SubjectInv, GrantedInv, GrantNext
             PROVE  GrantedInv' /\ EndsGranted
  OBVIOUS
<1>1. PICK p \in work.grant : \E rest \in Work :
           /\ rest.to = work.to /\ rest.revoke = {} /\ rest.grant = work.grant \ {p}
           /\ pc = "run" /\ UNCHANGED <<name, config, prior, touched, split>>
           /\ \/ /\ Continue(rest)
                 /\ \/ p # All /\ held \cap RowsAt(work.to, p) # {} /\ held' = held
                    \/ RowsAt(work.to, p) # {} /\ held' = held \cup RowsAt(work.to, p)
              \/ Fail
  BY GrantFacts
<1>2. PICK rest \in Work :
           /\ rest.to = work.to /\ rest.revoke = {} /\ rest.grant = work.grant \ {p}
           /\ pc = "run" /\ UNCHANGED <<name, config, prior, touched, split>>
           /\ \/ /\ Continue(rest)
                 /\ \/ p # All /\ held \cap RowsAt(work.to, p) # {} /\ held' = held
                    \/ RowsAt(work.to, p) # {} /\ held' = held \cup RowsAt(work.to, p)
              \/ Fail
  BY <1>1
<1>3. CASE Continue(rest) /\ (\/ p # All /\ held \cap RowsAt(work.to, p) # {} /\ held' = held
                              \/ RowsAt(work.to, p) # {} /\ held' = held \cup RowsAt(work.to, p))
  <2>1. held \subseteq held' /\ held' \cap RowsAt(work.to, p) # {}
    BY <1>3
  <2>2. RowsAt(work.to, p) \subseteq held'
    <3>1. work.to \in Grantees \X Spellings
      BY <1>2, RestTypes DEF Work
    <3>2. CASE p # All /\ held \cap RowsAt(work.to, p) # {} /\ held' = held
      BY <3>1, <3>2, OneRow
    <3> QED
      BY <1>3, <3>2
  <2>3. ASSUME config # NoConfig PROVE Accounted(held', rest)
    <3>1. Accounted(held, work)
      BY <1>2, <2>3 DEF GrantedInv
    <3>2. \A q : Present(held, q, work.to) => Present(held', q, work.to)
      BY <2>1 DEF Present
    <3>3. Present(held', p, work.to)
      BY <2>1, <2>2 DEF Present
    <3> QED
      BY <1>2, <3>1, <3>2, <3>3 DEF Accounted
  <2>4. config # NoConfig => rest.to[1] = config.grantee
    BY <1>2 DEF SubjectInv
  <2> QED
    BY <1>2, <1>3, <2>3, <2>4, ContinueGranted
<1>4. CASE Fail
  BY <1>4 DEF Fail, GrantedInv, EndsGranted
<1> QED
  BY <1>2, <1>3, <1>4

LEMMA GrantedStep ==
  TypesInv /\ AllAlone /\ SubjectInv /\ FoundInv /\ GrantedInv /\ [Next]_vars
    => GrantedInv' /\ EndsGranted
<1> SUFFICES ASSUME TypesInv, AllAlone, SubjectInv, FoundInv, GrantedInv, [Next]_vars
             PROVE  GrantedInv' /\ EndsGranted
  OBVIOUS
<1>0. pc \in {"look", "run"} => result # "ok"
  BY DEF TypesInv, HandlerInv
<1>1. CASE UNCHANGED vars
  BY <1>0, <1>1 DEF vars, GrantedInv, Accounted, Present, Due, RowsAt, EndsGranted, HandlerStep
<1>2. CASE Finish \/ Edit
  BY <1>2 DEF Finish, Edit, GrantedInv, EndsGranted, HandlerStep
<1>3. CASE QueryFails
  BY <1>3 DEF QueryFails, Fail, GrantedInv, EndsGranted
<1>4. CASE LookDelete
  <2>1. /\ pc = "look" /\ config = NoConfig /\ prior # NoState /\ Continue(DeleteWork)
        /\ UNCHANGED <<name, config, prior, touched, split>>
    BY <1>4 DEF LookDelete, TypesInv, HandlerInv, DeleteWork
  <2> QED
    BY <2>1, DeleteTypes, ContinueGranted
<1>5. CASE Rename
  <2>1. UNCHANGED <<state, config, pc, work, result>> /\ (pc = "run" => split')
    BY <1>5, RenameKeeps
  <2> QED
    BY <1>0, <2>1 DEF GrantedInv, Accounted, EndsGranted, HandlerStep
<1>6. CASE Outside
  BY <1>6 DEF Outside, GrantedInv, Accounted, EndsGranted, HandlerStep
<1>7. CASE Refresh \/ Begin
  <2>1. EndsGranted
    BY <1>7 DEF Refresh, Begin, EndsGranted, HandlerStep
  <2> QED
    BY <1>7, <2>1, RefreshGranted, BeginGranted
<1> QED
  BY <1>1, <1>2, <1>3, <1>4, <1>5, <1>6, <1>7, LookUpdateGranted, RevokeGranted,
     GrantGranted DEF Next, Step

\* CHANGELOG.md:47: a Create or Update that ends well has granted every configured
\* privilege as a whole on the target that is stored, whatever was there before; for
\* lists in which ALL stands alone.
THEOREM GrantedWhenOk == AllAlone /\ Spec => SuccessMeansGranted
<1>1. AllAlone /\ Init => GrantedInv
  <2> SUFFICES ASSUME AllAlone, Init PROVE GrantedInv
    OBVIOUS
  <2>1. config \in Configs /\ (state = NoState \/ state.privileges = config.privileges)
    BY DEF Init
  <2> QED
    BY <2>1 DEF Init, GrantedInv, AllAlone
<1>2. PrivilegeInv /\ AllAlone /\ GrantedInv /\ [Next]_vars => GrantedInv' /\ EndsGranted
  BY GrantedStep DEF PrivilegeInv
<1>3. [EndsGranted]_vars =>
        [HandlerStep /\ result' = "ok" /\ config # NoConfig /\ ~split =>
          LET loc == <<config.grantee, state'.target>> IN
          \A p \in config.privileges :
            /\ held' \cap RowsAt(loc, p) # {}
            /\ Due(p, loc) => RowsAt(loc, p) \subseteq held']_vars
  BY DEF EndsGranted, Present
<1>4. ASSUME AllAlone PROVE Spec => SuccessMeansGranted
  <2>1. Init => GrantedInv
    BY <1>1, <1>4
  <2>2. PrivilegeInv /\ GrantedInv /\ [Next]_vars => GrantedInv' /\ EndsGranted
    BY <1>2, <1>4
  <2> QED
    BY <1>3, <2>1, <2>2, PrivilegeInvariant, PTL DEF Spec, SuccessMeansGranted
<1> QED
  BY <1>4

=============================================================================
