------------------------ MODULE RoleGrantApplyProofs ------------------------
(* The properties of RoleGrantApply for any principals, resources and number of
   faults, in three parts.

   GranteeStatementsExclusive and MoveTargetsExist, for any scenario, are about
   locks: an Update or Delete at work holds deleteMutex, so the rename log and the
   set of existing names stay as it found them, except that principals may appear.
   What it locks therefore still covers every name it later sends a statement
   about.

   RevokesOwnOnly, for scenarios whose names are used once, is about the rename
   log: a name looked up in it leads to the same object at every step.

   HoldsWanted and NoLeftover, for scenarios that hand no grant from one resource
   to another, follow each pair: who may grant it, and who has still to revoke it. *)
EXTENDS RoleGrantApply, TLAPS

ResourceSteps == Steps \ {"rename", "record", "drop"}

AfterRole == {"requireGrantee", "resolveRole", "resolveGrantee", "readOld",
              "revokeOld", "readNew", "revokeNew"}
AfterGrantee == AfterRole \ {"requireGrantee"}

Busy(op) == pc[op] \notin {"start", "done"}

\* The part of the invariant about one resource's operation.
ResourceInv(q) ==
  /\ pc[q] \in ResourceSteps
  /\ Busy(q) =>
       /\ Creates(q) \/ Updates(q) \/ Deletes(q)
       /\ Updates(q) \/ Deletes(q) => deleteMutex = q
       /\ Creates(q) => pc[q] \in {"lock", "grant"} /\ keys[q] = {WantGrantee(q)}
       /\ Updates(q) => keys[q] = WithRenames({Want(q).grantee, Had(q).grantee})
       /\ Deletes(q) => pc[q] \in {"lock", "readOld", "revokeOld"}
                        /\ cur[q].grantee \in keys[q]
       /\ pc[q] # "lock" => AllLocked(q)
       /\ Updates(q) /\ pc[q] \in {"readOld", "revokeOld"} => cur[q].grantee \in keys[q]
       /\ Updates(q) /\ pc[q] \in AfterRole => RoleExists(WantRole(q))
       /\ Updates(q) /\ pc[q] \in AfterGrantee => PrincipalExists(WantGrantee(q))

\* The part about one user or role.
PrincipalInv(o) ==
  /\ pc[o] \in {"start", "rename", "record", "drop", "done"}
  /\ pc[o] \in {"rename", "record", "drop"} => deleteMutex = o
  /\ pc[o] = "start" => name[o] = scn.start[o]
  /\ pc[o] \in {"rename", "record"} => Renamed(o)

ApplyInv ==
  /\ TypeOK
  /\ \A q \in Resources : ResourceInv(q)
  /\ \A o \in Principals : PrincipalInv(o)

-----------------------------------------------------------------------------
\* A resource's prior state and plan are configurations when they are there.
LEMMA ConfigTypes ==
  ASSUME TypeOK, NEW q \in Resources
  PROVE  /\ Had(q) \in Configs \cup {NoGrant}
         /\ Want(q) \in Configs \cup {NoGrant}
         /\ Creates(q) => Want(q) \in Configs
         /\ Updates(q) => Had(q) \in Configs /\ Want(q) \in Configs
         /\ Deletes(q) => Had(q) \in Configs
         /\ Want(q) \in Configs => WantRole(q) \in Names /\ WantGrantee(q) \in Names
BY NamesAssumption DEF TypeOK, ScenarioShape, Had, Want, Creates, Updates, Deletes,
     Configs, WantRole, WantGrantee

\* What the rename log's operators return: a log and, for a name, a name.
LEMMA LogTypes ==
  ASSUME NEW l \in Logs, NEW n \in Names
  PROVE  /\ Lookup(l, PrincipalKind, n) \in Names \cup {NoEntry}
         /\ CurrentName(l, PrincipalKind, n) \in Names
         /\ \A m \in Names : Record(l, PrincipalKind, n, m) \in Logs
<1>1. \A m \in Names : Normalize(PrincipalKind, m) \in Names
  BY NamesAssumption DEF Normalize
<1>2. Key(PrincipalKind, n) \in Keys
  BY <1>1, ApplyAssumption DEF Key, Keys
<1>3. \A e \in Keys : l[e] \in Names \cup {NoEntry}
  BY DEF Logs
<1>4. \A m \in Names : Record(l, PrincipalKind, n, m) \in Logs
  BY <1>1, <1>3 DEF Record, Logs
<1> QED
  BY <1>1, <1>2, <1>3, <1>4 DEF Lookup, CurrentName

\* Where the log leads to is a name.
LEMMA RecordedTypes ==
  ASSUME TypeOK, NEW n \in Names
  PROVE  /\ Recorded(n) \in Names \cup {NoEntry}
         /\ CurrentName(log, PrincipalKind, n) \in Names
         /\ Upper[n] \in Names
BY LogTypes, ApplyAssumption, NamesAssumption DEF TypeOK, Recorded

\* What one operation's step leaves alone: the other operations, and the locks
\* they hold.
Frame(op) ==
  /\ scn' = scn
  /\ \A x \in Ops \ {op} : pc'[x] = pc[x]
  /\ \A q \in Resources \ {op} : keys'[q] = keys[q] /\ cur'[q] = cur[q]
  /\ \A x \in Ops \ {op} : deleteMutex = x => deleteMutex' = x
  /\ \A x \in Ops \ {op}, n \in Names : granteeLock[n] = x => granteeLock'[n] = x
  /\ log' # log => deleteMutex = op
  /\ \A o \in Principals :
       \/ name'[o] = name[o]
       \/ o = op /\ name[o] = Absent
       \/ o = op /\ deleteMutex = op
  /\ op \in Resources => \A o \in Principals : name'[o] = name[o]

\* A step within its frame keeps the invariant of every other operation.
LEMMA FrameKeepsOthers ==
  ASSUME ApplyInv, NEW op \in Ops, Frame(op)
  PROVE  /\ \A q \in Resources \ {op} : ResourceInv(q)'
         /\ \A o \in Principals \ {op} : PrincipalInv(o)'
<1> USE DEF ApplyInv
<1>1. ASSUME NEW q \in Resources \ {op}
      PROVE  ResourceInv(q)'
  <2>1. /\ q \in Ops \ {op} /\ pc'[q] = pc[q] /\ keys'[q] = keys[q] /\ cur'[q] = cur[q]
        /\ scn' = scn
    BY <1>1 DEF Frame, Ops
  <2>2. /\ (Creates(q) <=> Creates(q)') /\ (Updates(q) <=> Updates(q)')
        /\ (Deletes(q) <=> Deletes(q)') /\ (Busy(q) <=> Busy(q)')
        /\ WantRole(q)' = WantRole(q) /\ WantGrantee(q)' = WantGrantee(q)
        /\ Want(q)' = Want(q) /\ Had(q)' = Had(q)
    BY <2>1 DEF Creates, Updates, Deletes, Busy, WantRole, WantGrantee, Want, Had
  <2>3. deleteMutex = q => deleteMutex' = q /\ log' = log /\ deleteMutex # op
    BY <2>1, <1>1 DEF Frame
  <2>4. ResourceInv(q)
    BY <1>1
  <2>5. AllLocked(q) => AllLocked(q)'
    BY <1>1, <2>1 DEF AllLocked, Frame, TypeOK
  <2>6. log' = log => WithRenames({Want(q).grantee, Had(q).grantee})'
                        = WithRenames({Want(q).grantee, Had(q).grantee})
    BY <2>2 DEF WithRenames, Recorded
  <2>7. ASSUME deleteMutex = q, Updates(q), Busy(q)
        PROVE  /\ RoleExists(WantRole(q)) => RoleExists(WantRole(q))'
               /\ PrincipalExists(WantGrantee(q)) => PrincipalExists(WantGrantee(q))'
    <3>1. \A o \in Principals : name'[o] = name[o] \/ name[o] = Absent
      BY <2>3, <2>7 DEF Frame
    <3>2. WantRole(q) # Absent /\ WantGrantee(q) # Absent
      BY <1>1, <2>7, ConfigTypes, ApplyAssumption
    <3> QED
      BY <2>2, <3>1, <3>2, ApplyAssumption DEF RoleExists, PrincipalExists
  <2> QED
    BY <2>1, <2>2, <2>3, <2>4, <2>5, <2>6, <2>7 DEF ResourceInv
<1>2. ASSUME NEW o \in Principals \ {op}
      PROVE  PrincipalInv(o)'
  <2>1. o \in Ops \ {op} /\ pc'[o] = pc[o] /\ scn' = scn /\ name'[o] = name[o]
    BY <1>2 DEF Frame, Ops
  <2>2. deleteMutex = o => deleteMutex' = o
    BY <2>1 DEF Frame
  <2>3. PrincipalInv(o)
    BY <1>2
  <2> QED
    BY <2>1, <2>2, <2>3 DEF PrincipalInv, Renamed
<1> QED
  BY <1>1, <1>2

-----------------------------------------------------------------------------
Outcomes == {"pending", "ok", "failed", "skipped"}

\* What a step of op may do to steps and locks.
LockFrame(op) ==
  /\ pc' \in [Ops -> Steps]
  /\ outcome' \in [Ops -> Outcomes]
  /\ deleteMutex' \in Ops \cup {NoOp}
  /\ granteeLock' \in [Names -> Ops \cup {NoOp}]
  /\ \A x \in Ops \ {op} :
       /\ pc'[x] = pc[x]
       /\ deleteMutex = x => deleteMutex' = x
       /\ \A n \in Names : granteeLock[n] = x => granteeLock'[n] = x

\* Returning releases only what op holds.
LEMMA ReturnFacts ==
  ASSUME TypeOK, NEW op \in Ops, NEW result \in Outcomes, Return(op, result)
  PROVE  LockFrame(op) /\ pc'[op] = "done"
<1>1. pc' = [pc EXCEPT ![op] = "done"] /\ outcome' = [outcome EXCEPT ![op] = result]
  BY DEF Return, Goto
<1>2. /\ deleteMutex' = IF deleteMutex = op THEN NoOp ELSE deleteMutex
      /\ granteeLock' = [n \in Names |-> IF granteeLock[n] = op THEN NoOp ELSE granteeLock[n]]
  BY DEF Return
<1>3. pc' \in [Ops -> Steps] /\ outcome' \in [Ops -> Outcomes] /\ pc'[op] = "done"
  BY <1>1 DEF TypeOK, Outcomes, Steps
<1>4. deleteMutex' \in Ops \cup {NoOp} /\ granteeLock' \in [Names -> Ops \cup {NoOp}]
  BY <1>2 DEF TypeOK
<1>5. ASSUME NEW x \in Ops \ {op}
      PROVE  /\ pc'[x] = pc[x]
             /\ deleteMutex = x => deleteMutex' = x
             /\ \A n \in Names : granteeLock[n] = x => granteeLock'[n] = x
  BY <1>1, <1>2, <1>5 DEF TypeOK
<1> QED
  BY <1>3, <1>4, <1>5 DEF LockFrame

\* Going to a step touches no lock.
LEMMA GotoFacts ==
  ASSUME TypeOK, NEW op \in Ops, NEW step \in Steps,
         Goto(op, step), UNCHANGED <<lockVars, outcome>>
  PROVE  LockFrame(op) /\ pc'[op] = step /\ UNCHANGED lockVars
BY DEF TypeOK, Goto, lockVars, LockFrame, Outcomes

LEMMA ContinueFacts ==
  ASSUME TypeOK, NEW op \in Ops, NEW step \in Steps \cup {"return"}, Continue(op, step)
  PROVE  /\ LockFrame(op)
         /\ \/ pc'[op] = "done"
            \/ step # "return" /\ pc'[op] = step /\ UNCHANGED lockVars
<1>1. CASE step = "return"
  BY <1>1, ReturnFacts DEF Continue, Outcomes
<1>2. CASE step # "return"
  BY <1>2, GotoFacts DEF Continue
<1> QED
  BY <1>1, <1>2

\* A finished operation has nothing to show.
LEMMA DoneInv ==
  /\ \A q \in Resources : pc'[q] = "done" => ResourceInv(q)'
  /\ \A o \in Principals : pc'[o] = "done" => PrincipalInv(o)'
BY DEF ResourceInv, PrincipalInv, ResourceSteps, Steps, Busy

\* A step that changes nothing but its own place and its locks.
LEMMA QuietStep ==
  ASSUME TypeOK, NEW op \in Ops, LockFrame(op),
         UNCHANGED <<scn, dbVars, log, keys, cur>>, faults' \in 0..MaxFaults
  PROVE  TypeOK' /\ Frame(op)
BY DEF TypeOK, LockFrame, Frame, dbVars, Outcomes

\* The definitions about a resource's task do not change during an apply.
LEMMA TaskStable ==
  ASSUME scn' = scn, NEW q \in Resources
  PROVE  /\ (Creates(q) <=> Creates(q)') /\ (Updates(q) <=> Updates(q)')
         /\ (Deletes(q) <=> Deletes(q)')
         /\ WantRole(q)' = WantRole(q) /\ WantGrantee(q)' = WantGrantee(q)
         /\ Want(q)' = Want(q) /\ Had(q)' = Had(q)
BY DEF Creates, Updates, Deletes, WantRole, WantGrantee, Want, Had

\* A statement on the grants changes them, and then continues or fails.
LEMMA ExecuteFacts ==
  ASSUME TypeOK, NEW op \in Ops, NEW possible, NEW next \in Steps \cup {"return"},
         NEW after \in [Roles \X Principals -> {"none", "plain", "admin"}],
         Execute(op, possible, after, next)
  PROVE  /\ LockFrame(op) /\ TypeOK' /\ Frame(op)
         /\ UNCHANGED <<scn, name, log, keys, cur>>
         /\ \/ pc'[op] = "done"
            \/ next # "return" /\ pc'[op] = next /\ UNCHANGED lockVars
<1>1. UNCHANGED <<scn, name, log, keys, cur>>
  BY DEF Execute
<1>2. /\ LockFrame(op)
      /\ \/ pc'[op] = "done"
         \/ next # "return" /\ pc'[op] = next /\ UNCHANGED lockVars
  BY ContinueFacts, ReturnFacts DEF Execute, Outcomes
<1>3. grants' \in {grants, after} /\ faults' \in 0..MaxFaults
  BY ApplyAssumption DEF Execute, TypeOK
<1>4. grants' \in [Roles \X Principals -> {"none", "plain", "admin"}]
  BY <1>3 DEF TypeOK
<1>5. TypeOK'
  BY <1>1, <1>2, <1>3, <1>4 DEF TypeOK, LockFrame, Outcomes
<1>6. Frame(op)
  BY <1>1, <1>2 DEF Frame, LockFrame
<1> QED
  BY <1>1, <1>2, <1>5, <1>6

-----------------------------------------------------------------------------
\* What each step of a resource establishes for the resource itself.
Kept(q) == TypeOK' /\ Frame(q) /\ ResourceInv(q)'

\* The names to lock are names, and cover both grantees and where they are now.
LEMMA LockNames ==
  ASSUME TypeOK, NEW q \in Resources, Updates(q)
  PROVE  /\ WithRenames({Want(q).grantee, Had(q).grantee}) \in SUBSET Names
         /\ WantGrantee(q) \in WithRenames({Want(q).grantee, Had(q).grantee})
         /\ Upper[Had(q).grantee] \in WithRenames({Want(q).grantee, Had(q).grantee})
         /\ Recorded(Had(q).grantee) # NoEntry
              => Recorded(Had(q).grantee) \in WithRenames({Want(q).grantee, Had(q).grantee})
<1>1. Had(q).grantee \in Names /\ Want(q).grantee \in Names
  BY ConfigTypes DEF Configs
<1>2. \A n \in {Want(q).grantee, Had(q).grantee} :
        Recorded(n) \in Names \cup {NoEntry} /\ Upper[n] \in Names
  BY <1>1, RecordedTypes
<1> QED
  BY <1>2 DEF WithRenames, WantGrantee

\* Starting: the locks to take are chosen while the log cannot change.
LEMMA StartStep ==
  ASSUME ApplyInv, NEW q \in Resources,
         StartCreate(q) \/ StartUpdate(q) \/ StartDelete(q)
  PROVE  Kept(q)
<1> USE DEF ApplyInv
<1>0. q \in Ops /\ "lock" \in Steps /\ q # NoOp
  BY ApplyAssumption DEF Ops, Steps
<1>1. /\ pc' = [pc EXCEPT ![q] = "lock"] /\ UNCHANGED <<scn, dbVars, log, outcome, faults, granteeLock>>
      /\ pc' \in [Ops -> Steps] /\ pc'[q] = "lock" /\ \A x \in Ops \ {q} : pc'[x] = pc[x]
  BY <1>0 DEF StartCreate, StartUpdate, StartDelete, Goto, TakeDeleteMutex, lockVars, TypeOK
<1>2. /\ (Creates(q) <=> Creates(q)') /\ (Updates(q) <=> Updates(q)')
      /\ (Deletes(q) <=> Deletes(q)') /\ WantGrantee(q)' = WantGrantee(q)
      /\ Want(q)' = Want(q) /\ Had(q)' = Had(q)
  BY <1>1, TaskStable
<1>3. ASSUME StartCreate(q) PROVE Kept(q)
  <2>1. /\ Creates(q) /\ keys' = [keys EXCEPT ![q] = {WantGrantee(q)}]
        /\ UNCHANGED <<lockVars, cur>>
    BY <1>3 DEF StartCreate
  <2>2. WantGrantee(q) \in Names
    BY <2>1, ConfigTypes
  <2>3. TypeOK'
    BY <1>1, <2>1, <2>2 DEF TypeOK, dbVars, lockVars
  <2>4. Frame(q)
    BY <1>1, <2>1 DEF Frame, TypeOK, dbVars, lockVars
  <2>5. ResourceInv(q)'
    BY <1>1, <1>2, <2>1 DEF ResourceInv, ResourceSteps, Steps, TypeOK, Creates, Updates, Deletes,
       AfterRole, AfterGrantee
  <2> QED
    BY <2>3, <2>4, <2>5 DEF Kept
<1>4. ASSUME StartUpdate(q) PROVE Kept(q)
  <2>1. /\ Updates(q) /\ deleteMutex = NoOp /\ deleteMutex' = q /\ cur' = cur
        /\ keys' = [keys EXCEPT ![q] = WithRenames({Want(q).grantee, Had(q).grantee})]
    BY <1>4 DEF StartUpdate, TakeDeleteMutex
  <2>2. WithRenames({Want(q).grantee, Had(q).grantee}) \in SUBSET Names
    BY <2>1, LockNames
  <2>3. TypeOK'
    BY <1>0, <1>1, <2>1, <2>2 DEF TypeOK, dbVars
  <2>4. Frame(q)
    BY <1>0, <1>1, <2>1, ApplyAssumption DEF Frame, TypeOK, dbVars
  <2>5. keys'[q] = WithRenames({Want(q).grantee, Had(q).grantee})'
    BY <1>1, <1>2, <2>1 DEF WithRenames, Recorded, TypeOK
  <2>6. ResourceInv(q)'
    BY <1>1, <1>2, <2>1, <2>5 DEF ResourceInv, ResourceSteps, Steps, Creates, Updates, Deletes,
       AfterRole, AfterGrantee
  <2> QED
    BY <2>3, <2>4, <2>6 DEF Kept
<1>5. ASSUME StartDelete(q) PROVE Kept(q)
  <2> DEFINE role == CurrentName(log, PrincipalKind, Had(q).role)
  <2> DEFINE grantee == CurrentName(log, PrincipalKind, Had(q).grantee)
  <2>1. /\ Deletes(q) /\ deleteMutex = NoOp /\ deleteMutex' = q
        /\ cur' = [cur EXCEPT ![q] = [role |-> role, grantee |-> grantee]]
        /\ keys' = [keys EXCEPT ![q] = {Upper[Had(q).grantee], grantee}]
    BY <1>5 DEF StartDelete, TakeDeleteMutex
  <2>2. Had(q).role \in Names /\ Had(q).grantee \in Names
    BY <2>1, ConfigTypes DEF Configs
  <2>3. role \in Names /\ grantee \in Names /\ Upper[Had(q).grantee] \in Names
    BY <2>2, RecordedTypes
  <2> HIDE DEF role, grantee
  <2>4. TypeOK'
    BY <1>0, <1>1, <2>1, <2>3 DEF TypeOK, dbVars
  <2>5. Frame(q)
    BY <1>0, <1>1, <2>1, ApplyAssumption DEF Frame, TypeOK, dbVars
  <2>6. cur'[q].grantee \in keys'[q]
    BY <2>1 DEF TypeOK
  <2>7. ResourceInv(q)'
    BY <1>1, <1>2, <2>1, <2>6 DEF ResourceInv, ResourceSteps, Steps, Creates, Updates, Deletes,
       AfterRole, AfterGrantee
  <2> QED
    BY <2>4, <2>5, <2>7 DEF Kept
<1> QED
  BY <1>3, <1>4, <1>5

\* Locking a grantee that is free.
LEMMA LockStep ==
  ASSUME ApplyInv, NEW q \in Resources, LockGrantee(q)
  PROVE  Kept(q)
<1> USE DEF ApplyInv
<1>0. q \in Ops /\ q # NoOp
  BY ApplyAssumption DEF Ops
<1>1. /\ pc[q] = "lock" /\ granteeLock[NextKey(q)] = NoOp
      /\ granteeLock' = [granteeLock EXCEPT ![NextKey(q)] = q]
      /\ UNCHANGED <<scn, dbVars, log, deleteMutex, pc, keys, cur, outcome, faults>>
  BY DEF LockGrantee
<1>2. TypeOK'
  BY <1>0, <1>1 DEF TypeOK, dbVars
<1>3. \A x \in Ops \ {q}, n \in Names : granteeLock[n] = x => granteeLock'[n] = x
  BY <1>0, <1>1, ApplyAssumption DEF TypeOK
<1>4. Frame(q)
  BY <1>1, <1>3 DEF Frame, dbVars
<1>5. ResourceInv(q)
  OBVIOUS
<1>6. /\ (Creates(q) <=> Creates(q)') /\ (Updates(q) <=> Updates(q)')
      /\ (Deletes(q) <=> Deletes(q)') /\ WantGrantee(q)' = WantGrantee(q)
      /\ Want(q)' = Want(q) /\ Had(q)' = Had(q)
  BY <1>1, TaskStable
<1>7. WithRenames({Want(q).grantee, Had(q).grantee})' = WithRenames({Want(q).grantee, Had(q).grantee})
  BY <1>1, <1>6 DEF WithRenames, Recorded
<1>8. ResourceInv(q)'
  BY <1>1, <1>5, <1>6, <1>7 DEF ResourceInv, Busy, AfterRole, AfterGrantee
<1> QED
  BY <1>2, <1>4, <1>8 DEF Kept

\* Going on with all locks held keeps a resource's invariant if the next step
\* fits the handler and what has been checked so far.
LEMMA MoveOn ==
  ASSUME ApplyInv, NEW q \in Resources, Busy(q), AllLocked(q),
         UNCHANGED <<scn, name, log, keys, lockVars>>,
         pc'[q] \in ResourceSteps \ {"start", "lock", "done"},
         Creates(q) => pc'[q] = "grant",
         Deletes(q) => pc'[q] \in {"readOld", "revokeOld"} /\ cur'[q] = cur[q],
         Updates(q) /\ pc'[q] \in {"readOld", "revokeOld"} => cur'[q].grantee \in keys[q],
         Updates(q) /\ pc'[q] \in AfterRole => RoleExists(WantRole(q)),
         Updates(q) /\ pc'[q] \in AfterGrantee => PrincipalExists(WantGrantee(q))
  PROVE  ResourceInv(q)'
<1>1. /\ (Creates(q) <=> Creates(q)') /\ (Updates(q) <=> Updates(q)')
      /\ (Deletes(q) <=> Deletes(q)')
      /\ WantRole(q)' = WantRole(q) /\ WantGrantee(q)' = WantGrantee(q)
      /\ Want(q)' = Want(q) /\ Had(q)' = Had(q)
  BY TaskStable
<1>2. WithRenames({Want(q).grantee, Had(q).grantee})' = WithRenames({Want(q).grantee, Had(q).grantee})
  BY <1>1 DEF WithRenames, Recorded
<1>3. AllLocked(q)' /\ deleteMutex' = deleteMutex /\ keys'[q] = keys[q]
  BY DEF AllLocked, lockVars
<1>4. RoleExists(WantRole(q))' = RoleExists(WantRole(q))
      /\ PrincipalExists(WantGrantee(q))' = PrincipalExists(WantGrantee(q))
  BY <1>1 DEF RoleExists, PrincipalExists
<1>5. ResourceInv(q)
  BY DEF ApplyInv
<1> QED
  BY <1>1, <1>2, <1>3, <1>4, <1>5 DEF ResourceInv, Busy

\* A step that only reads: it returns, or it goes on as MoveOn allows.
LEMMA ReadOnlyStep ==
  ASSUME ApplyInv, NEW q \in Resources, Busy(q), AllLocked(q),
         UNCHANGED <<scn, dbVars, log, keys, cur, faults>>,
         NEW step \in (ResourceSteps \ {"start", "lock", "done"}) \cup {"return"},
         \/ Continue(q, step)
         \/ Return(q, "failed"),
         Creates(q) => step \in {"grant", "return"},
         Deletes(q) => step \in {"readOld", "revokeOld", "return"},
         Updates(q) /\ step \in {"readOld", "revokeOld"} => cur[q].grantee \in keys[q],
         Updates(q) /\ step \in AfterRole => RoleExists(WantRole(q)),
         Updates(q) /\ step \in AfterGrantee => PrincipalExists(WantGrantee(q))
  PROVE  Kept(q)
<1>0. q \in Ops /\ TypeOK /\ step \in Steps \cup {"return"}
  BY DEF Ops, ApplyInv, ResourceSteps
<1>1. /\ LockFrame(q)
      /\ \/ pc'[q] = "done"
         \/ step # "return" /\ pc'[q] = step /\ UNCHANGED lockVars
  BY <1>0, ContinueFacts, ReturnFacts DEF Outcomes
<1>2. TypeOK' /\ Frame(q)
  BY <1>0, <1>1, QuietStep DEF TypeOK
<1>3. CASE pc'[q] = "done"
  BY <1>2, <1>3, DoneInv DEF Kept
<1>4. CASE step # "return" /\ pc'[q] = step /\ UNCHANGED lockVars
  <2>1. ResourceInv(q)'
    BY <1>4, MoveOn DEF dbVars
  <2> QED
    BY <1>2, <2>1 DEF Kept
<1> QED
  BY <1>1, <1>3, <1>4

\* Steps past the locks are taken with all of them held.
LEMMA PastLocks ==
  ASSUME ApplyInv, NEW q \in Resources, pc[q] \notin {"start", "lock", "done"}
  PROVE  /\ Busy(q) /\ AllLocked(q)
         /\ Creates(q) \/ Updates(q) \/ Deletes(q)
         /\ Creates(q) => pc[q] = "grant"
         /\ Deletes(q) => pc[q] \in {"readOld", "revokeOld"}
BY DEF ApplyInv, ResourceInv, Busy

LEMMA LockedStep ==
  ASSUME ApplyInv, NEW q \in Resources, Locked(q)
  PROVE  Kept(q)
<1>1. pc[q] = "lock" /\ AllLocked(q) /\ Continue(q, FirstStep(q)) /\ Busy(q)
      /\ UNCHANGED <<scn, dbVars, log, keys, cur, faults>>
  BY DEF Locked, Busy
<1>2. Creates(q) \/ Updates(q) \/ Deletes(q)
  BY <1>1 DEF ApplyInv, ResourceInv
<1>3. /\ FirstStep(q) \in {"grant", "readOld", "requireRole", "revokeAdmin", "return"}
      /\ Creates(q) => FirstStep(q) = "grant"
      /\ Deletes(q) => FirstStep(q) = "readOld"
      /\ Updates(q) => FirstStep(q) \in {"requireRole", "revokeAdmin", "return"}
  BY DEF FirstStep, Creates, Updates, Deletes
<1>4. FirstStep(q) \in (ResourceSteps \ {"start", "lock", "done"}) \cup {"return"}
  BY <1>3 DEF ResourceSteps, Steps
<1> QED
  BY <1>1, <1>3, <1>4, ReadOnlyStep DEF AfterRole, AfterGrantee

\* The two requireExists calls: what they found is there from then on.
LEMMA RequireStep ==
  ASSUME ApplyInv, NEW q \in Resources, RequireRole(q) \/ RequireGrantee(q)
  PROVE  Kept(q)
<1>1. ASSUME RequireRole(q) PROVE Kept(q)
  <2>1. /\ pc[q] = "requireRole" /\ UNCHANGED <<scn, dbVars, log, keys, cur, faults>>
        /\ \/ RoleExists(WantRole(q)) /\ Continue(q, "requireGrantee")
           \/ Return(q, "failed")
    BY <1>1 DEF RequireRole
  <2>2. Busy(q) /\ AllLocked(q) /\ ~Creates(q) /\ ~Deletes(q)
    BY <2>1, PastLocks
  <2>3. {"requireGrantee", "return"} \subseteq (ResourceSteps \ {"start", "lock", "done"}) \cup {"return"}
    BY DEF ResourceSteps, Steps
  <2>4. CASE RoleExists(WantRole(q)) /\ Continue(q, "requireGrantee")
    BY <2>1, <2>2, <2>3, <2>4, ReadOnlyStep DEF AfterGrantee
  <2>5. CASE Return(q, "failed")
    BY <2>1, <2>2, <2>3, <2>5, ReadOnlyStep DEF AfterRole, AfterGrantee
  <2> QED
    BY <2>1, <2>4, <2>5
<1>2. ASSUME RequireGrantee(q) PROVE Kept(q)
  <2>1. /\ pc[q] = "requireGrantee" /\ UNCHANGED <<scn, dbVars, log, keys, cur, faults>>
        /\ \/ PrincipalExists(WantGrantee(q)) /\ Continue(q, "resolveRole")
           \/ Return(q, "failed")
    BY <1>2 DEF RequireGrantee
  <2>2. /\ Busy(q) /\ AllLocked(q) /\ ~Creates(q) /\ ~Deletes(q)
        /\ Updates(q) => RoleExists(WantRole(q))
    BY <2>1, PastLocks DEF ApplyInv, ResourceInv, AfterRole
  <2>3. {"resolveRole", "return"} \subseteq (ResourceSteps \ {"start", "lock", "done"}) \cup {"return"}
    BY DEF ResourceSteps, Steps
  <2>4. CASE PrincipalExists(WantGrantee(q)) /\ Continue(q, "resolveRole")
    BY <2>1, <2>2, <2>3, <2>4, ReadOnlyStep
  <2>5. CASE Return(q, "failed")
    BY <2>1, <2>2, <2>3, <2>5, ReadOnlyStep DEF AfterRole, AfterGrantee
  <2> QED
    BY <2>1, <2>4, <2>5
<1> QED
  BY <1>1, <1>2

\* Looking at the old and at the new place of the grant.
LEMMA ReadStep ==
  ASSUME ApplyInv, NEW q \in Resources, ReadOld(q) \/ ReadNew(q)
  PROVE  Kept(q)
<1>1. ASSUME ReadOld(q) PROVE Kept(q)
  <2> DEFINE step == IF GrantLevel(cur[q].role, cur[q].grantee) # "none"
                       THEN "revokeOld" ELSE AfterOld(q)
  <2>1. /\ pc[q] = "readOld" /\ UNCHANGED <<scn, dbVars, log, keys, cur, faults>>
        /\ Continue(q, step)
    BY <1>1 DEF ReadOld
  <2>2. /\ Busy(q) /\ AllLocked(q) /\ ~Creates(q)
        /\ Updates(q) => /\ RoleExists(WantRole(q)) /\ PrincipalExists(WantGrantee(q))
                         /\ cur[q].grantee \in keys[q]
    BY <2>1, PastLocks DEF ApplyInv, ResourceInv, AfterRole, AfterGrantee
  <2>3. /\ step \in {"revokeOld", "readNew", "return"}
        /\ Deletes(q) => step \in {"revokeOld", "return"}
    BY DEF AfterOld
  <2>4. step \in (ResourceSteps \ {"start", "lock", "done"}) \cup {"return"}
    BY <2>3 DEF ResourceSteps, Steps
  <2> HIDE DEF step
  <2> QED
    BY <2>1, <2>2, <2>3, <2>4, ReadOnlyStep
<1>2. ASSUME ReadNew(q) PROVE Kept(q)
  <2>1. /\ pc[q] = "readNew" /\ UNCHANGED <<scn, dbVars, log, keys, cur, faults>>
        /\ \E step \in {"grant", "return", "revokeNew"} : Continue(q, step)
    BY <1>2 DEF ReadNew
  <2>2. PICK step \in {"grant", "return", "revokeNew"} : Continue(q, step)
    BY <2>1
  <2>3. /\ Busy(q) /\ AllLocked(q) /\ ~Creates(q) /\ ~Deletes(q)
        /\ Updates(q) => RoleExists(WantRole(q)) /\ PrincipalExists(WantGrantee(q))
    BY <2>1, PastLocks DEF ApplyInv, ResourceInv, AfterRole, AfterGrantee
  <2>4. step \in (ResourceSteps \ {"start", "lock", "done"}) \cup {"return"}
    BY DEF ResourceSteps, Steps
  <2> QED
    BY <2>1, <2>2, <2>3, <2>4, ReadOnlyStep
<1> QED
  BY <1>1, <1>2

\* A failing query ends the operation.
LEMMA QueryFailsStep ==
  ASSUME ApplyInv, NEW q \in Resources, QueryFails(q)
  PROVE  Kept(q)
<1>1. /\ Return(q, "failed") /\ faults' = faults + 1 /\ faults < MaxFaults
      /\ UNCHANGED <<scn, dbVars, log, keys, cur>>
  BY DEF QueryFails
<1>2. q \in Ops /\ TypeOK /\ faults' \in 0..MaxFaults
  BY <1>1, ApplyAssumption DEF Ops, ApplyInv, TypeOK
<1>3. LockFrame(q) /\ pc'[q] = "done"
  BY <1>1, <1>2, ReturnFacts DEF Outcomes
<1> QED
  BY <1>1, <1>2, <1>3, QuietStep, DoneInv DEF Kept

\* An endpoint resolves to a name or to Absent; a resolved grantee is one of the
\* names that were locked.
LEMMA ResolveTypes ==
  ASSUME TypeOK, NEW old \in Names, NEW new \in Names, NEW exists
  PROVE  /\ ResolveEndpoint(old, new, exists) \in Names \cup {Absent}
         /\ ResolveEndpoint(old, new, exists) \in {Recorded(old), Upper[old], Absent}
         /\ ResolveEndpoint(old, new, exists) = Recorded(old) => Recorded(old) # NoEntry
BY RecordedTypes, ApplyAssumption, NamesAssumption DEF ResolveEndpoint

LEMMA ResolveStep ==
  ASSUME ApplyInv, NEW q \in Resources, ResolveRole(q) \/ ResolveGrantee(q)
  PROVE  Kept(q)
<1>0. q \in Ops /\ TypeOK /\ pc[q] \in {"resolveRole", "resolveGrantee"}
  BY DEF Ops, ApplyInv, ResolveRole, ResolveGrantee
<1>1. /\ Busy(q) /\ AllLocked(q) /\ ~Creates(q) /\ ~Deletes(q) /\ Updates(q)
      /\ RoleExists(WantRole(q)) /\ PrincipalExists(WantGrantee(q))
      /\ keys[q] = WithRenames({Want(q).grantee, Had(q).grantee})
  BY <1>0, PastLocks DEF ApplyInv, ResourceInv, AfterRole, AfterGrantee
<1>2. /\ Had(q).role \in Names /\ Had(q).grantee \in Names
      /\ Want(q).role \in Names /\ Want(q).grantee \in Names
  BY <1>0, <1>1, ConfigTypes DEF Configs
<1>3. ASSUME ResolveRole(q) PROVE Kept(q)
  <2> DEFINE role == ResolveEndpoint(Had(q).role, Want(q).role, RoleExists(Upper[Had(q).role]))
  <2>1. /\ cur' = [cur EXCEPT ![q].role = role] /\ Goto(q, "resolveGrantee")
        /\ UNCHANGED <<scn, dbVars, log, lockVars, keys, outcome, faults>>
    BY <1>3 DEF ResolveRole
  <2>2. role \in Names \cup {Absent}
    BY <1>0, <1>2, ResolveTypes
  <2> HIDE DEF role
  <2>3. LockFrame(q) /\ pc'[q] = "resolveGrantee"
    BY <1>0, <2>1, GotoFacts DEF Steps
  <2>4. TypeOK'
    BY <1>0, <2>1, <2>2, <2>3 DEF TypeOK, LockFrame, dbVars, Outcomes
  <2>5. Frame(q)
    BY <1>0, <2>1, <2>3 DEF Frame, LockFrame, dbVars, TypeOK
  <2>6. ResourceInv(q)'
    BY <1>1, <2>1, <2>3, MoveOn DEF dbVars, ResourceSteps, Steps
  <2> QED
    BY <2>4, <2>5, <2>6 DEF Kept
<1>4. ASSUME ResolveGrantee(q) PROVE Kept(q)
  <2> DEFINE grantee == ResolveEndpoint(Had(q).grantee, Want(q).grantee,
                                        PrincipalExists(Upper[Had(q).grantee]))
  <2>1. /\ cur' = [cur EXCEPT ![q].grantee = grantee]
        /\ \/ Goto(q, "readOld") /\ grantee # Absent
           \/ Goto(q, "readNew")
        /\ UNCHANGED <<scn, dbVars, log, lockVars, keys, outcome, faults>>
    BY <1>4 DEF ResolveGrantee
  <2>2. /\ grantee \in Names \cup {Absent}
        /\ grantee # Absent => grantee \in keys[q]
    BY <1>0, <1>1, <1>2, ResolveTypes, LockNames
  <2> HIDE DEF grantee
  <2>3. LockFrame(q) /\ ((pc'[q] = "readOld" /\ grantee # Absent) \/ pc'[q] = "readNew")
    BY <1>0, <2>1, GotoFacts DEF Steps
  <2>4. TypeOK'
    BY <1>0, <2>1, <2>2, <2>3 DEF TypeOK, LockFrame, dbVars, Outcomes
  <2>5. Frame(q)
    BY <1>0, <2>1, <2>3 DEF Frame, LockFrame, dbVars, TypeOK
  <2>6. cur'[q].grantee = grantee
    BY <1>0, <2>1 DEF TypeOK
  <2>7. ResourceInv(q)'
    BY <1>1, <2>1, <2>2, <2>3, <2>6, MoveOn DEF dbVars, ResourceSteps, Steps
  <2> QED
    BY <2>4, <2>5, <2>7 DEF Kept
<1> QED
  BY <1>3, <1>4

\* The statements.
LEMMA StatementStep ==
  ASSUME ApplyInv, NEW q \in Resources, RevokeOld(q) \/ RevokeNew(q) \/ Grant(q)
  PROVE  Kept(q)
<1>0. q \in Ops /\ TypeOK
  BY DEF Ops, ApplyInv
<1>1. \A role, grantee : \A admin \in BOOLEAN :
        /\ AfterGrant(role, grantee, admin) \in [Roles \X Principals -> {"none", "plain", "admin"}]
        /\ AfterRevoke(role, grantee) \in [Roles \X Principals -> {"none", "plain", "admin"}]
  BY <1>0 DEF TypeOK, AfterGrant, AfterRevoke
<1>2. ASSUME RevokeOld(q) PROVE Kept(q)
  <2>1. /\ pc[q] = "revokeOld"
        /\ Execute(q, GrantLevel(cur[q].role, cur[q].grantee) # "none",
                   AfterRevoke(cur[q].role, cur[q].grantee), AfterOld(q))
    BY <1>2 DEF RevokeOld, Revoke
  <2>2. /\ Busy(q) /\ AllLocked(q) /\ ~Creates(q)
        /\ Updates(q) => RoleExists(WantRole(q)) /\ PrincipalExists(WantGrantee(q))
    BY <2>1, PastLocks DEF ApplyInv, ResourceInv, AfterRole, AfterGrantee
  <2>3. AfterOld(q) \in {"return", "readNew"} /\ (Deletes(q) => AfterOld(q) = "return")
    BY DEF AfterOld
  <2>4. AfterOld(q) \in Steps \cup {"return"}
    BY <2>3 DEF Steps
  <2>5. /\ LockFrame(q) /\ TypeOK' /\ Frame(q) /\ UNCHANGED <<scn, name, log, keys, cur>>
        /\ \/ pc'[q] = "done"
           \/ AfterOld(q) = "readNew" /\ pc'[q] = "readNew" /\ UNCHANGED lockVars
    BY <1>0, <1>1, <2>1, <2>3, <2>4, ExecuteFacts
  <2>6. ResourceInv(q)'
    BY <2>2, <2>3, <2>5, DoneInv, MoveOn DEF ResourceSteps, Steps
  <2> QED
    BY <2>5, <2>6 DEF Kept
<1>3. ASSUME RevokeNew(q) PROVE Kept(q)
  <2>1. /\ pc[q] \in {"revokeNew", "revokeAdmin"}
        /\ Execute(q, GrantLevel(WantRole(q), WantGrantee(q)) # "none",
                   AfterRevoke(WantRole(q), WantGrantee(q)), "grant")
    BY <1>3 DEF RevokeNew, Revoke
  <2>2. Busy(q) /\ AllLocked(q) /\ ~Creates(q) /\ ~Deletes(q)
    BY <2>1, PastLocks
  <2>3. /\ LockFrame(q) /\ TypeOK' /\ Frame(q) /\ UNCHANGED <<scn, name, log, keys, cur>>
        /\ \/ pc'[q] = "done"
           \/ pc'[q] = "grant" /\ UNCHANGED lockVars
    BY <1>0, <1>1, <2>1, ExecuteFacts DEF Steps
  <2>4. ResourceInv(q)'
    BY <2>2, <2>3, DoneInv, MoveOn DEF ResourceSteps, Steps, AfterRole, AfterGrantee
  <2> QED
    BY <2>3, <2>4 DEF Kept
<1>4. ASSUME Grant(q) PROVE Kept(q)
  <2>1. /\ pc[q] = "grant"
        /\ Execute(q, RoleExists(WantRole(q)) /\ PrincipalExists(WantGrantee(q)),
                   AfterGrant(WantRole(q), WantGrantee(q), Want(q).admin), "return")
    BY <1>4 DEF Grant
  <2>2. Want(q).admin \in BOOLEAN
    <3>1. (Creates(q) \/ Updates(q)) /\ ~Deletes(q)
      BY <2>1, PastLocks
    <3> QED
      BY <1>0, <3>1, ConfigTypes DEF Configs
  <2>3. TypeOK' /\ Frame(q) /\ pc'[q] = "done"
    BY <1>0, <1>1, <2>1, <2>2, ExecuteFacts
  <2> QED
    BY <2>3, DoneInv DEF Kept
<1> QED
  BY <1>2, <1>3, <1>4

\* Every step of a resource keeps the whole invariant.
LEMMA ResourceStepInv ==
  ASSUME ApplyInv, NEW q \in Resources, ResourceStep(q)
  PROVE  ApplyInv'
<1>1. Kept(q)
  BY StartStep, LockStep, LockedStep, RequireStep, ResolveStep, ReadStep, StatementStep,
     QueryFailsStep DEF ResourceStep
<1>2. q \in Ops /\ q \notin Principals
  BY ApplyAssumption DEF Ops
<1>3. /\ \A p \in Resources \ {q} : ResourceInv(p)'
      /\ \A o \in Principals \ {q} : PrincipalInv(o)'
  BY <1>1, <1>2, FrameKeepsOthers DEF Kept
<1> QED
  BY <1>1, <1>2, <1>3 DEF Kept, ApplyInv

-----------------------------------------------------------------------------
\* What each step of a user or role establishes for itself.
KeptPrincipal(o) == TypeOK' /\ Frame(o) /\ PrincipalInv(o)'

\* Only a principal that does not exist yet changes its name without deleteMutex.
LEMMA ExecutePrincipalStep ==
  ASSUME ApplyInv, NEW o \in Principals, NEW possible,
         NEW newName \in Names \cup {Absent}, NEW next \in {"return", "record"},
         ExecutePrincipal(o, possible, newName, next),
         deleteMutex = o \/ name[o] = Absent,
         next = "record" => deleteMutex = o /\ Renamed(o)
  PROVE  KeptPrincipal(o)
<1>0. o \in Ops /\ TypeOK /\ o \notin Resources /\ next \in Steps \cup {"return"}
  BY ApplyAssumption DEF Ops, ApplyInv, Steps
<1>1. UNCHANGED <<scn, log, keys, cur>> /\ faults' \in 0..MaxFaults
      /\ name' \in {name, [name EXCEPT ![o] = newName]}
  BY <1>0, ApplyAssumption DEF ExecutePrincipal, TypeOK
<1>2. Continue(o, next) \/ Return(o, "failed")
  BY DEF ExecutePrincipal
<1>3. /\ LockFrame(o)
      /\ \/ pc'[o] = "done"
         \/ next = "record" /\ pc'[o] = "record" /\ UNCHANGED lockVars
  BY <1>0, <1>2, ContinueFacts, ReturnFacts DEF Outcomes
<1>4. grants' \in [Roles \X Principals -> {"none", "plain", "admin"}]
  <2>1. grants' = [p \in Roles \X Principals |->
                     IF \E i \in {1, 2} : name[p[i]] # Absent /\ name'[p[i]] = Absent
                       THEN "none" ELSE grants[p]]
    BY DEF ExecutePrincipal
  <2>2. \A p \in Roles \X Principals : grants[p] \in {"none", "plain", "admin"}
    BY <1>0 DEF TypeOK
  <2> QED
    BY <2>1, <2>2
<1>5. name' \in [Principals -> Names \cup {Absent}]
      /\ \A x \in Principals \ {o} : name'[x] = name[x]
  BY <1>0, <1>1 DEF TypeOK
<1>6. TypeOK'
  BY <1>0, <1>1, <1>3, <1>4, <1>5 DEF TypeOK, LockFrame, Outcomes
<1>7. Frame(o)
  BY <1>0, <1>1, <1>3, <1>5 DEF Frame, LockFrame
<1>8. PrincipalInv(o)'
  BY <1>1, <1>3, DoneInv DEF PrincipalInv, Renamed, lockVars
<1> QED
  BY <1>6, <1>7, <1>8 DEF KeptPrincipal

\* The statements on users and roles.
LEMMA PrincipalStatementStep ==
  ASSUME ApplyInv, NEW o \in Principals,
         CreatePrincipal(o) \/ RenamePrincipal(o) \/ DropPrincipal(o)
  PROVE  KeptPrincipal(o)
<1>1. PrincipalInv(o) /\ scn.goal[o] \in Names \cup {Absent}
  BY DEF ApplyInv, TypeOK, ScenarioShape
<1>2. CASE CreatePrincipal(o)
  BY <1>1, <1>2, ExecutePrincipalStep DEF CreatePrincipal, PrincipalInv, Born
<1>3. CASE RenamePrincipal(o)
  BY <1>1, <1>3, ExecutePrincipalStep DEF RenamePrincipal, PrincipalInv
<1>4. CASE DropPrincipal(o)
  BY <1>1, <1>4, ExecutePrincipalStep DEF DropPrincipal, PrincipalInv
<1> QED
  BY <1>2, <1>3, <1>4

LEMMA LockPrincipalStep ==
  ASSUME ApplyInv, NEW o \in Principals, LockPrincipal(o)
  PROVE  KeptPrincipal(o)
<1>0. o \in Ops /\ o # NoOp /\ TypeOK /\ o \notin Resources
  BY ApplyAssumption DEF Ops, ApplyInv
<1>1. /\ deleteMutex = NoOp /\ deleteMutex' = o
      /\ UNCHANGED <<granteeLock, scn, dbVars, log, keys, cur, outcome, faults>>
      /\ \/ Renamed(o) /\ Goto(o, "rename")
         \/ Goto(o, "drop")
  BY DEF LockPrincipal, TakeDeleteMutex
<1>2. /\ pc' \in [Ops -> Steps] /\ \A x \in Ops \ {o} : pc'[x] = pc[x]
      /\ \/ pc'[o] = "rename" /\ Renamed(o)
         \/ pc'[o] = "drop"
  BY <1>0, <1>1 DEF Goto, TypeOK, Steps
<1>3. LockFrame(o)
  BY <1>0, <1>1, <1>2, ApplyAssumption DEF LockFrame, TypeOK, Outcomes
<1>4. TypeOK' /\ Frame(o)
  BY <1>0, <1>1, <1>3, QuietStep DEF TypeOK
<1>5. PrincipalInv(o)'
  BY <1>1, <1>2 DEF PrincipalInv, Renamed
<1> QED
  BY <1>4, <1>5 DEF KeptPrincipal

\* The log grows while its writer holds deleteMutex.
LEMMA RecordStep ==
  ASSUME ApplyInv, NEW o \in Principals, RecordRename(o)
  PROVE  KeptPrincipal(o)
<1>0. o \in Ops /\ TypeOK /\ o \notin Resources /\ PrincipalInv(o)
  BY ApplyAssumption DEF Ops, ApplyInv
<1>1. /\ pc[o] = "record" /\ Return(o, "ok")
      /\ log' = Record(log, PrincipalKind, scn.start[o], scn.goal[o])
      /\ UNCHANGED <<scn, dbVars, keys, cur, faults>>
  BY DEF RecordRename
<1>2. deleteMutex = o /\ scn.start[o] \in Names /\ scn.goal[o] \in Names
  BY <1>0, <1>1 DEF PrincipalInv, Renamed, TypeOK, ScenarioShape
<1>3. log' \in Logs
  BY <1>0, <1>1, <1>2, LogTypes DEF TypeOK
<1>4. LockFrame(o) /\ pc'[o] = "done"
  BY <1>0, <1>1, ReturnFacts DEF Outcomes
<1>5. TypeOK'
  BY <1>0, <1>1, <1>3, <1>4 DEF TypeOK, LockFrame, dbVars, Outcomes
<1>6. Frame(o)
  BY <1>0, <1>1, <1>2, <1>4 DEF Frame, LockFrame, dbVars
<1> QED
  BY <1>4, <1>5, <1>6, DoneInv DEF KeptPrincipal

\* Every step of a user or role keeps the whole invariant.
LEMMA PrincipalStepInv ==
  ASSUME ApplyInv, NEW o \in Principals, PrincipalStep(o)
  PROVE  ApplyInv'
<1>1. KeptPrincipal(o)
  BY PrincipalStatementStep, LockPrincipalStep, RecordStep DEF PrincipalStep
<1>2. o \in Ops /\ o \notin Resources
  BY ApplyAssumption DEF Ops
<1>3. /\ \A p \in Resources \ {o} : ResourceInv(p)'
      /\ \A x \in Principals \ {o} : PrincipalInv(x)'
  BY <1>1, <1>2, FrameKeepsOthers DEF KeptPrincipal
<1> QED
  BY <1>1, <1>2, <1>3 DEF KeptPrincipal, ApplyInv

\* An operation that Terraform leaves out disturbs nobody.
LEMMA SkipInv ==
  ASSUME ApplyInv, NEW op \in Ops, Skip(op)
  PROVE  ApplyInv'
<1>1. /\ pc' = [pc EXCEPT ![op] = "done"] /\ outcome' = [outcome EXCEPT ![op] = "skipped"]
      /\ UNCHANGED <<scn, dbVars, log, lockVars, keys, cur, faults>>
  BY DEF Skip, Goto
<1>2. TypeOK
  BY DEF ApplyInv
<1>3. LockFrame(op) /\ pc'[op] = "done"
  BY <1>1, <1>2 DEF LockFrame, TypeOK, Steps, Outcomes, lockVars
<1>4. TypeOK' /\ Frame(op)
  BY <1>1, <1>2, <1>3, QuietStep DEF TypeOK
<1>5. /\ \A p \in Resources \ {op} : ResourceInv(p)'
      /\ \A x \in Principals \ {op} : PrincipalInv(x)'
  BY <1>4, FrameKeepsOthers
<1>6. /\ op \in Resources => ResourceInv(op)'
      /\ op \in Principals => PrincipalInv(op)'
  BY <1>3, DoneInv
<1> QED
  BY <1>4, <1>5, <1>6 DEF ApplyInv

LEMMA StutterInv ==
  ASSUME ApplyInv, UNCHANGED vars
  PROVE  ApplyInv'
<1>1. UNCHANGED <<scn, name, grants, log, deleteMutex, granteeLock, pc, keys, cur, outcome, faults>>
  BY DEF vars, dbVars, lockVars
<1>2. TypeOK'
  BY <1>1 DEF ApplyInv, TypeOK
<1>3. ASSUME NEW q \in Resources PROVE ResourceInv(q)'
  <2>1. ResourceInv(q)
    BY DEF ApplyInv
  <2>2. /\ (Creates(q) <=> Creates(q)') /\ (Updates(q) <=> Updates(q)')
        /\ (Deletes(q) <=> Deletes(q)') /\ WantGrantee(q)' = WantGrantee(q)
        /\ WantRole(q)' = WantRole(q) /\ Want(q)' = Want(q) /\ Had(q)' = Had(q)
    BY <1>1, TaskStable
  <2> QED
    BY <1>1, <2>1, <2>2 DEF ResourceInv, Busy, AllLocked, RoleExists, PrincipalExists,
       WithRenames, Recorded
<1>4. ASSUME NEW o \in Principals PROVE PrincipalInv(o)'
  BY <1>1 DEF ApplyInv, PrincipalInv, Renamed
<1> QED
  BY <1>2, <1>3, <1>4 DEF ApplyInv

-----------------------------------------------------------------------------
\* An apply starts with every operation at its start, or with nothing to do.
LEMMA ApplyInit == Init => ApplyInv
<1> SUFFICES ASSUME Init PROVE ApplyInv
  OBVIOUS
<1>1. scn \in ScenarioShape
  BY ApplyAssumption DEF Init
<1>2. TypeOK
  <2>1. name \in [Principals -> Names \cup {Absent}]
    BY <1>1 DEF Init, ScenarioShape
  <2>2. grants \in [Roles \X Principals -> {"none", "plain", "admin"}]
    BY DEF Init
  <2>3. log \in Logs
    BY DEF Init, EmptyLog, Logs
  <2>4. pc \in [Ops -> Steps] /\ outcome \in [Ops -> {"pending", "ok", "failed", "skipped"}]
    BY DEF Init, Steps
  <2>5. faults \in 0..MaxFaults
    BY ApplyAssumption DEF Init
  <2> QED
    BY <1>1, <2>1, <2>2, <2>3, <2>4, <2>5 DEF TypeOK, Init
<1>3. \A op \in Ops : pc[op] \in {"start", "done"}
  BY DEF Init
<1>4. \A q \in Resources : ResourceInv(q)
  BY <1>3 DEF ResourceInv, Busy, ResourceSteps, Steps, Ops
<1>5. \A o \in Principals : PrincipalInv(o)
  BY <1>3 DEF PrincipalInv, Ops, Init
<1> QED
  BY <1>2, <1>4, <1>5 DEF ApplyInv

\* Update and Delete work under deleteMutex on a log and on principals that stay,
\* with locks that cover every grantee they will name.
THEOREM ApplyInvariant == Spec => []ApplyInv
<1>1. ApplyInv /\ [Next]_vars => ApplyInv'
  <2> SUFFICES ASSUME ApplyInv, [Next]_vars PROVE ApplyInv'
    OBVIOUS
  <2>1. ASSUME NEW q \in Resources, ResourceStep(q) PROVE ApplyInv'
    BY <2>1, ResourceStepInv
  <2>2. ASSUME NEW o \in Principals, PrincipalStep(o) PROVE ApplyInv'
    BY <2>2, PrincipalStepInv
  <2>3. ASSUME NEW op \in Ops, Skip(op) PROVE ApplyInv'
    BY <2>3, SkipInv
  <2>4. CASE UNCHANGED vars
    BY <2>4, StutterInv
  <2> QED
    BY <2>1, <2>2, <2>3, <2>4 DEF Next, Terminating
<1> QED
  BY ApplyInit, <1>1, PTL DEF Spec

\* Every variable has its type in every apply.
THEOREM ApplyTypes == Spec => []TypeOK
<1>1. ApplyInv => TypeOK
  BY DEF ApplyInv
<1> QED
  BY <1>1, ApplyInvariant, PTL

\* The grantee of the next statement is one of the names locked.
LEMMA StatementLocked ==
  ASSUME ApplyInv, NEW q \in Resources, pc[q] \in RevokeSteps \cup {"grant"}
  PROVE  StatementGrantee(q) \in keys[q] /\ AllLocked(q)
<1>1. /\ AllLocked(q) /\ ResourceInv(q) /\ Busy(q) /\ TypeOK
      /\ Creates(q) \/ Updates(q) \/ Deletes(q)
      /\ Creates(q) => pc[q] = "grant"
      /\ Deletes(q) => pc[q] \in {"readOld", "revokeOld"}
  BY PastLocks DEF RevokeSteps, ApplyInv
<1>2. CASE Creates(q)
  BY <1>1, <1>2 DEF ResourceInv, StatementGrantee
<1>3. CASE Updates(q)
  BY <1>1, <1>3, LockNames DEF ResourceInv, StatementGrantee
<1>4. CASE Deletes(q)
  BY <1>1, <1>4 DEF ResourceInv, StatementGrantee, RevokeSteps
<1> QED
  BY <1>1, <1>2, <1>3, <1>4

\* GRANT and REVOKE statements on one grantee are never in progress together
\* (delete_mutex.go:45-48), whatever is renamed meanwhile.
THEOREM GranteesExclusive == Spec => []GranteeStatementsExclusive
<1>1. ApplyInv => GranteeStatementsExclusive
  BY StatementLocked DEF GranteeStatementsExclusive, AllLocked
<1> QED
  BY <1>1, ApplyInvariant, PTL

\* Update revokes nothing before its new role and grantee are there to stay
\* (helpers.go:143-145).
THEOREM MoveTargets == Spec => []MoveTargetsExist
<1>1. ApplyInv => MoveTargetsExist
  BY DEF ApplyInv, ResourceInv, MoveTargetsExist, Busy, AfterRole, AfterGrantee
<1> QED
  BY <1>1, ApplyInvariant, PTL
-----------------------------------------------------------------------------
(* RevokesOwnOnly, NoLeftover and HoldsWanted are about identities, where the
   handlers see names, so they need to know whose name is whose at each moment.
   A principal has its name from before the apply or its planned one; what takes
   over a name waits for what gives it up; and the log has one entry for every
   rename that Terraform knows has succeeded. *)

\* How far an operation is, against what Terraform knows of it.
ProgressInv(op) ==
  /\ outcome[op] = "pending" <=> pc[op] # "done"
  /\ HasWork(op) /\ pc[op] # "start" /\ outcome[op] # "skipped" => Ready(op)

NameInv(o) ==
  /\ name[o] \in {scn.start[o], scn.goal[o]}
  /\ pc[o] \in {"rename", "drop"} \/ outcome[o] = "skipped" => name[o] = scn.start[o]
  /\ pc[o] = "record" \/ outcome[o] = "ok" => name[o] = scn.goal[o]
  /\ pc[o] = "drop" => Dropped(o)

LogInv ==
  /\ \A o \in Principals :
       Renamed(o) /\ outcome[o] = "ok" => log[<<PrincipalKind, scn.start[o]>>] = scn.goal[o]
  /\ \A e \in Keys : log[e] # NoEntry =>
       \E o \in Principals :
         Renamed(o) /\ outcome[o] = "ok" /\ e = <<PrincipalKind, scn.start[o]>>

\* Where a resource looks for its previous grant.
FoundInv(q) ==
  /\ (Deletes(q) /\ Busy(q)) \/ (Updates(q) /\ pc[q] \in {"readOld", "revokeOld"}) =>
       /\ cur[q].role = CurrentName(log, PrincipalKind, Had(q).role)
       /\ cur[q].grantee = CurrentName(log, PrincipalKind, Had(q).grantee)
  /\ Updates(q) /\ pc[q] = "resolveGrantee" =>
       cur[q].role \in {Absent, CurrentName(log, PrincipalKind, Had(q).role)}

WhoIsWho ==
  /\ ApplyInv
  /\ Plausible(scn) /\ NoReuseOfDropped(scn)
  /\ \A op \in Ops : ProgressInv(op)
  /\ \A o \in Principals : NameInv(o)
  /\ LogInv
  /\ \A q \in Resources : FoundInv(q)

\* Nothing is left of a resource's previous grant, unless somebody asks for the
\* same grant, or a user or role may have a name nobody knows of.
Cleared(q) ==
  \A p \in HadPairs(q) :
    \/ \E r \in Resources : p \in WantPairs(r)
    \/ grants[p] = "none"
    \/ outcome[p[1]] = "failed" \/ outcome[p[2]] = "failed"

GrantInv(q) ==
  /\ outcome[q] = "ok" => Cleared(q) /\ \A p \in WantPairs(q) : grants[p] = WantLevel(q)
  /\ pc[q] = "grant" \/ (Creates(q) /\ pc[q] # "done") => \A p \in WantPairs(q) : grants[p] = "none"
  /\ Updates(q) /\ pc[q] \in {"readNew", "revokeNew", "revokeAdmin", "grant"} => Cleared(q)
  /\ Updates(q) /\ pc[q] = "resolveGrantee" /\ cur[q].role = Absent => Cleared(q)

\* A grant disappears with the users and roles it is between.
EndsExist ==
  \A p \in Roles \X Principals : grants[p] # "none" => name[p[1]] # Absent /\ name[p[2]] # Absent

PromiseInv ==
  /\ WhoIsWho
  /\ NoHandOver(scn) /\ NoHiddenMove(scn)
  /\ EndsExist
  /\ \A q \in Resources : GrantInv(q)
\* The scenario's names: in upper case, unique, and none is Absent.
LEMMA ScenarioNames ==
  ASSUME TypeOK, Plausible(scn), NEW o \in Principals
  PROVE  /\ scn.start[o] \in Names \cup {Absent} /\ scn.goal[o] \in Names \cup {Absent}
         /\ \A n \in {scn.start[o], scn.goal[o]} : n \in Names => Upper[n] = n
         /\ \A p \in Principals : scn.start[o] = scn.start[p] /\ scn.start[o] # Absent => o = p
         /\ \A p \in Principals : scn.goal[o] = scn.goal[p] /\ scn.goal[o] # Absent => o = p
  BY DEF TypeOK, ScenarioShape, Plausible, UniqueNames

\* A name that somebody had before the apply is somebody else's only after it was
\* given up by a rename that is known to have succeeded.
LEMMA GivenUp ==
  ASSUME WhoIsWho, NEW o \in Principals, NEW p \in Principals, o # p,
         name[o] = scn.start[p], name[o] # Absent
  PROVE  Renamed(p) /\ outcome[p] = "ok"
<1>1. NameInv(o) /\ ProgressInv(o) /\ PrincipalInv(o) /\ TypeOK /\ Plausible(scn)
  BY DEF WhoIsWho, ApplyInv, Ops
<1>2. name[o] = scn.goal[o] /\ scn.start[o] # scn.goal[o] /\ scn.goal[o] = scn.start[p]
  BY <1>1, ScenarioNames DEF NameInv
<1>3. (Born(o) \/ Renamed(o)) /\ HasWork(o)
  BY <1>2 DEF Born, Renamed, HasWork
<1>4. Ready(o)
  BY <1>1, <1>2, <1>3 DEF NameInv, ProgressInv, PrincipalInv
<1>5. Renamed(p) \/ Dropped(p)
  BY <1>1, <1>2, ScenarioNames DEF Renamed, Dropped
<1>6. p \in DependsOn(o)
  BY <1>2, <1>3, <1>5 DEF DependsOn
<1>7. ~Dropped(p)
  BY <1>2 DEF WhoIsWho, NoReuseOfDropped, Dropped
<1> QED
  BY <1>4, <1>5, <1>6, <1>7 DEF Ready

\* No two principals have one name at any time.
LEMMA NamesUnique ==
  ASSUME WhoIsWho, NEW o \in Principals, NEW p \in Principals,
         name[o] = name[p], name[o] # Absent
  PROVE  o = p
<1> SUFFICES ASSUME o # p PROVE FALSE
  OBVIOUS
<1>1. \A x \in Principals : NameInv(x)
  BY DEF WhoIsWho
<1>2. name[p] # scn.start[p]
  BY <1>1, GivenUp DEF NameInv, Renamed
<1>3. name[o] # scn.start[o]
  BY <1>1, GivenUp DEF NameInv, Renamed
<1>4. name[o] = scn.goal[o] /\ name[p] = scn.goal[p]
  BY <1>1, <1>2, <1>3 DEF NameInv
<1> QED
  BY <1>4, ScenarioNames DEF WhoIsWho, ApplyInv

\* What the log says of a name, spelled in any way.
LEMMA LogReads ==
  ASSUME TypeOK, NEW n \in Names
  PROVE  /\ Recorded(n) = log[<<PrincipalKind, Upper[n]>>]
         /\ <<PrincipalKind, Upper[n]>> \in Keys
         /\ CurrentName(log, PrincipalKind, n)
              = IF Recorded(n) # NoEntry THEN Recorded(n) ELSE Upper[n]
BY ApplyAssumption, NamesAssumption
   DEF Recorded, Lookup, CurrentName, Key, Normalize, Keys

\* What the log says of the name that p had before the apply.
LEMMA LogOfStart ==
  ASSUME WhoIsWho, NEW p \in Principals, NEW n \in Names, scn.start[p] = Upper[n]
  PROVE  /\ Renamed(p) /\ outcome[p] = "ok" => Recorded(n) = scn.goal[p] /\ scn.goal[p] \in Names
         /\ ~(Renamed(p) /\ outcome[p] = "ok") => Recorded(n) = NoEntry
<1>1. TypeOK /\ LogInv /\ Plausible(scn) /\ Upper[n] \in Names
  BY NamesAssumption DEF WhoIsWho, ApplyInv
<1>2. Recorded(n) = log[<<PrincipalKind, scn.start[p]>>]
      /\ <<PrincipalKind, scn.start[p]>> \in Keys
  BY <1>1, LogReads
<1>3. CASE Renamed(p) /\ outcome[p] = "ok"
  BY <1>1, <1>2, <1>3, ScenarioNames DEF LogInv, Renamed
<1>4. ASSUME ~(Renamed(p) /\ outcome[p] = "ok"), Recorded(n) # NoEntry PROVE FALSE
  <2>1. PICK x \in Principals :
          Renamed(x) /\ outcome[x] = "ok"
          /\ <<PrincipalKind, scn.start[p]>> = <<PrincipalKind, scn.start[x]>>
    BY <1>1, <1>2, <1>4 DEF LogInv
  <2>2. scn.start[p] = scn.start[x] /\ scn.start[p] # Absent
    BY <1>1, <2>1, ApplyAssumption
  <2> QED
    BY <1>1, <1>4, <2>1, <2>2, ScenarioNames
<1> QED
  BY <1>3, <1>4

\* Whoever has the name that the log gives for a name in state is the principal
\* that state is about.
LEMMA Found ==
  ASSUME WhoIsWho, NEW p \in Principals, NEW n \in Names, scn.start[p] = Upper[n],
         NEW o \in Principals, name[o] = CurrentName(log, PrincipalKind, n)
  PROVE  o = p
<1>1. TypeOK /\ Upper[n] \in Names /\ NameInv(p)
  BY NamesAssumption DEF WhoIsWho, ApplyInv
<1>2. CASE Renamed(p) /\ outcome[p] = "ok"
  <2>0. Recorded(n) = scn.goal[p] /\ scn.goal[p] \in Names
    BY <1>2, LogOfStart
  <2>1. name[o] = scn.goal[p] /\ scn.goal[p] \in Names
    BY <1>1, <2>0, LogReads, NamesAssumption
  <2>2. name[p] = scn.goal[p]
    BY <1>1, <1>2 DEF NameInv
  <2> QED
    BY <2>1, <2>2, NamesUnique, ApplyAssumption
<1>3. CASE ~(Renamed(p) /\ outcome[p] = "ok")
  <2>1. name[o] = scn.start[p]
    BY <1>1, <1>3, LogOfStart, LogReads
  <2> QED
    BY <1>1, <1>3, <2>1, GivenUp, ApplyAssumption
<1> QED
  BY <1>2, <1>3

\* The pairs of names that a resource uses for its previous grant lead to no other.
LEMMA FoundPairs ==
  ASSUME WhoIsWho, NEW q \in Resources, Had(q) # NoGrant,
         NEW role, NEW grantee,
         role = CurrentName(log, PrincipalKind, Had(q).role),
         grantee = CurrentName(log, PrincipalKind, Had(q).grantee)
  PROVE  PairsNamed(role, grantee) \subseteq HadPairs(q)
<1>1. Had(q).role \in Names /\ Had(q).grantee \in Names
  BY ConfigTypes DEF WhoIsWho, ApplyInv, Configs
<1>2. PICK h \in Roles \X Principals :
        scn.start[h[1]] = Upper[Had(q).role] /\ scn.start[h[2]] = Upper[Had(q).grantee]
  BY DEF WhoIsWho, Plausible, HadPairs, Meant, Had
<1>3. h[1] \in Principals /\ h[2] \in Principals
  BY ApplyAssumption
<1>4. ASSUME NEW p \in PairsNamed(role, grantee) PROVE p = h
  <2>1. p \in Roles \X Principals /\ name[p[1]] = role /\ name[p[2]] = grantee
        /\ p[1] \in Principals /\ p[2] \in Principals
    BY ApplyAssumption DEF PairsNamed
  <2>2. p[1] = h[1]
    BY <1>1, <1>2, <1>3, <2>1, Found
  <2>3. p[2] = h[2]
    BY <1>1, <1>2, <1>3, <2>1, Found
  <2> QED
    BY <2>1, <2>2, <2>3
<1> QED
  BY <1>2, <1>4 DEF HadPairs, Meant, Had, WhoIsWho

\* Once the principals of the plan are there, its names lead to its grant.
LEMMA WantedName ==
  ASSUME WhoIsWho, NEW q \in Resources, Want(q) # NoGrant, Ready(q),
         NEW n \in {WantRole(q), WantGrantee(q)}, NEW o \in Principals
  PROVE  name[o] = n <=> scn.goal[o] = n
<1>1. /\ TypeOK /\ Plausible(scn) /\ n \in Names /\ n # Absent
      /\ n \in {Upper[Want(q).role], Upper[Want(q).grantee]}
      /\ \A x \in Principals : NameInv(x)
  BY ConfigTypes, ApplyAssumption DEF WhoIsWho, ApplyInv, WantRole, WantGrantee
<1>2. ASSUME NEW x \in Principals, scn.goal[x] = n PROVE name[x] = n
  <2>1. CASE scn.start[x] = n
    BY <1>1, <1>2, <2>1 DEF NameInv
  <2>2. CASE scn.start[x] # n
    <3>1. x \in DependsOn(q)
      BY <1>1, <1>2, <2>2 DEF DependsOn, Born, Renamed
    <3> QED
      BY <1>1, <1>2, <3>1 DEF Ready, NameInv
  <2> QED
    BY <2>1, <2>2
<1>3. ASSUME name[o] = n PROVE scn.goal[o] = n
  <2>1. CASE scn.start[o] = n
    <3>1. PICK x \in Principals : scn.goal[x] = n
      BY <1>1, <2>1 DEF Plausible, Want
    <3>2. name[x] = n
      BY <1>2, <3>1
    <3> QED
      BY <1>1, <1>3, <3>1, <3>2, NamesUnique
  <2>2. CASE scn.start[o] # n
    BY <1>1, <1>3, <2>2 DEF NameInv
  <2> QED
    BY <2>1, <2>2
<1> QED
  BY <1>2, <1>3

LEMMA WantedPairs ==
  ASSUME WhoIsWho, NEW q \in Resources, Want(q) # NoGrant, Ready(q)
  PROVE  PairsNamed(WantRole(q), WantGrantee(q)) = WantPairs(q)
<1>1. \A p \in Roles \X Principals :
        /\ name[p[1]] = WantRole(q) <=> scn.goal[p[1]] = WantRole(q)
        /\ name[p[2]] = WantGrantee(q) <=> scn.goal[p[2]] = WantGrantee(q)
  BY WantedName, ApplyAssumption
<1> QED
  BY <1>1 DEF PairsNamed, WantPairs, Meant, WantRole, WantGrantee, Want

-----------------------------------------------------------------------------
\* What a step of op may do to the progress of the operations.
Advances(op) ==
  /\ scn' = scn
  /\ pc[op] # "done"
  /\ pc[op] = "start" => Ready(op) \/ outcome'[op] = "skipped"
  /\ \A x \in Ops \ {op} : pc'[x] = pc[x] /\ outcome'[x] = outcome[x]
  /\ \/ pc'[op] = "done" /\ outcome'[op] \in {"ok", "failed", "skipped"}
     \/ pc'[op] \notin {"start", "done"} /\ outcome'[op] = outcome[op]

\* One step of op's own: it goes on, or it returns.
Moved(op, result) ==
  /\ \A x \in Ops \ {op} : pc'[x] = pc[x] /\ outcome'[x] = outcome[x]
  /\ \/ pc'[op] = "done" /\ outcome'[op] = result
     \/ pc'[op] \notin {"start", "done"} /\ outcome'[op] = outcome[op]

LEMMA ReturnMoves ==
  ASSUME TypeOK, NEW op \in Ops, NEW result, Return(op, result)
  PROVE  Moved(op, result) /\ pc'[op] = "done" /\ outcome'[op] = result
BY DEF TypeOK, Return, Goto, Moved

LEMMA GotoMoves ==
  ASSUME TypeOK, NEW op \in Ops, NEW step \in Steps \ {"start", "done"},
         Goto(op, step), outcome' = outcome
  PROVE  Moved(op, "ok") /\ pc'[op] = step /\ outcome'[op] = outcome[op]
BY DEF TypeOK, Goto, Moved

LEMMA ContinueMoves ==
  ASSUME TypeOK, NEW op \in Ops, NEW step \in (Steps \ {"start", "done"}) \cup {"return"},
         Continue(op, step)
  PROVE  /\ Moved(op, "ok")
         /\ \/ step = "return" /\ pc'[op] = "done" /\ outcome'[op] = "ok"
            \/ step # "return" /\ pc'[op] = step /\ outcome'[op] = outcome[op]
<1>1. CASE step = "return"
  BY <1>1, ReturnMoves DEF Continue
<1>2. CASE step # "return"
  BY <1>2, GotoMoves DEF Continue
<1> QED
  BY <1>1, <1>2

\* A statement on the grants: it runs and its handler goes on, or the handler fails.
LEMMA ExecuteMoves ==
  ASSUME TypeOK, NEW op \in Ops, NEW possible, NEW after,
         NEW next \in (Steps \ {"start", "done"}) \cup {"return"},
         Execute(op, possible, after, next)
  PROVE  /\ Moved(op, "ok") \/ Moved(op, "failed")
         /\ grants' \in {grants, after}
         /\ \/ pc'[op] = "done" /\ outcome'[op] = "failed"
            \/ /\ possible /\ grants' = after
               /\ \/ next = "return" /\ pc'[op] = "done" /\ outcome'[op] = "ok"
                  \/ next # "return" /\ pc'[op] = next /\ outcome'[op] = outcome[op]
<1>1. CASE possible /\ grants' = after /\ Continue(op, next)
  BY <1>1, ContinueMoves
<1>2. CASE Return(op, "failed") /\ grants' \in {grants, after}
  BY <1>2, ReturnMoves
<1> QED
  BY <1>1, <1>2 DEF Execute

\* The same for a statement on a user or role, by the name it leaves.
LEMMA ExecutePrincipalMoves ==
  ASSUME TypeOK, NEW o \in Principals, NEW possible, NEW newName,
         NEW next \in {"return", "record"}, ExecutePrincipal(o, possible, newName, next)
  PROVE  /\ Moved(o, "ok") \/ Moved(o, "failed")
         /\ scn' = scn /\ log' = log /\ cur' = cur
         /\ \A x \in Principals \ {o} : name'[x] = name[x]
         /\ name'[o] \in {name[o], newName}
         /\ \A p \in Roles \X Principals :
              \/ grants'[p] = grants[p] /\ \A i \in {1, 2} : name[p[i]] = Absent \/ name'[p[i]] # Absent
              \/ grants'[p] = "none" /\ \E i \in {1, 2} : name[p[i]] # Absent /\ name'[p[i]] = Absent
         /\ \/ pc'[o] = "done" /\ outcome'[o] = "failed"
            \/ /\ name'[o] = newName
               /\ \/ next = "return" /\ pc'[o] = "done" /\ outcome'[o] = "ok"
                  \/ next # "return" /\ pc'[o] = next /\ outcome'[o] = outcome[o]
<1>0. o \in Ops /\ next \in (Steps \ {"start", "done"}) \cup {"return"}
  BY DEF Ops, Steps
<1> DEFINE after == [name EXCEPT ![o] = newName]
<1>1. /\ after[o] = newName
      /\ \A x \in Principals \ {o} : after[x] = name[x]
  BY DEF TypeOK
<1> HIDE DEF after
<1>2. /\ Moved(o, "ok") \/ Moved(o, "failed")
      /\ name' \in {name, after}
      /\ \/ pc'[o] = "done" /\ outcome'[o] = "failed"
         \/ /\ name' = after
            /\ \/ next = "return" /\ pc'[o] = "done" /\ outcome'[o] = "ok"
               \/ next # "return" /\ pc'[o] = next /\ outcome'[o] = outcome[o]
  <2>1. CASE name' = after /\ Continue(o, next)
    BY <1>0, <2>1, ContinueMoves
  <2>2. CASE Return(o, "failed") /\ name' \in {name, after}
    BY <1>0, <2>2, ReturnMoves
  <2> QED
    BY <2>1, <2>2 DEF ExecutePrincipal, after
<1>3. /\ scn' = scn /\ log' = log /\ cur' = cur
      /\ grants' = [p \in Roles \X Principals |->
           IF \E i \in {1, 2} : name[p[i]] # Absent /\ name'[p[i]] = Absent
             THEN "none" ELSE grants[p]]
  BY DEF ExecutePrincipal
<1>4. \A p \in Roles \X Principals :
        \/ grants'[p] = grants[p] /\ \A i \in {1, 2} : name[p[i]] = Absent \/ name'[p[i]] # Absent
        \/ grants'[p] = "none" /\ \E i \in {1, 2} : name[p[i]] # Absent /\ name'[p[i]] = Absent
  BY <1>3
<1> QED
  BY <1>1, <1>2, <1>3, <1>4

LEMMA ResourceMoves ==
  ASSUME ApplyInv, NEW q \in Resources, ResourceStep(q)
  PROVE  Advances(q) /\ name' = name /\ log' = log
<1>0. q \in Ops /\ TypeOK
  BY DEF Ops, ApplyInv
<1>1. ASSUME StartCreate(q) \/ StartUpdate(q) \/ StartDelete(q) PROVE Advances(q)
  <2>1. /\ pc[q] = "start" /\ Ready(q) /\ Goto(q, "lock") /\ outcome' = outcome /\ scn' = scn
    BY <1>1 DEF StartCreate, StartUpdate, StartDelete
  <2>2. Moved(q, "ok") /\ pc'[q] = "lock" /\ outcome'[q] = outcome[q]
    BY <1>0, <2>1, GotoMoves DEF Steps
  <2> QED
    BY <2>1, <2>2 DEF Moved, Advances
<1>2. ASSUME LockGrantee(q) PROVE Advances(q)
  BY <1>0, <1>2 DEF LockGrantee, Advances
<1>3. ASSUME \/ Locked(q) \/ RequireRole(q) \/ RequireGrantee(q) \/ ReadOld(q) \/ ReadNew(q)
             \/ ResolveRole(q) \/ ResolveGrantee(q) \/ QueryFails(q)
      PROVE  Advances(q)
  <2>1. pc[q] \notin {"start", "done"} /\ scn' = scn
    BY <1>3 DEF Locked, RequireRole, RequireGrantee, ReadOld, ReadNew, ResolveRole,
         ResolveGrantee, QueryFails
  <2>2. \/ \E step \in (Steps \ {"start", "done"}) \cup {"return"} : Continue(q, step)
        \/ \E step \in Steps \ {"start", "done"} : Goto(q, step) /\ outcome' = outcome
        \/ Return(q, "failed")
    <3>1. CASE Locked(q)
      BY <3>1 DEF Locked, FirstStep, Steps
    <3>2. CASE RequireRole(q) \/ RequireGrantee(q)
      BY <3>2 DEF RequireRole, RequireGrantee, Steps
    <3>3. CASE ReadOld(q)
      BY <3>3 DEF ReadOld, AfterOld, Steps
    <3>4. CASE ReadNew(q)
      BY <3>4 DEF ReadNew, Steps
    <3>5. CASE ResolveRole(q)
      BY <3>5 DEF ResolveRole, Steps
    <3>6. CASE ResolveGrantee(q)
      BY <3>6 DEF ResolveGrantee, Steps
    <3>7. CASE QueryFails(q)
      BY <3>7 DEF QueryFails
    <3> QED
      BY <1>3, <3>1, <3>2, <3>3, <3>4, <3>5, <3>6, <3>7
  <2>3. Moved(q, "ok") \/ Moved(q, "failed")
    BY <1>0, <2>2, ContinueMoves, GotoMoves, ReturnMoves
  <2> QED
    BY <2>1, <2>3 DEF Moved, Advances
<1>4. ASSUME RevokeOld(q) \/ RevokeNew(q) \/ Grant(q) PROVE Advances(q)
  <2>1. AfterOld(q) \in (Steps \ {"start", "done"}) \cup {"return"}
        /\ {"grant", "return"} \subseteq (Steps \ {"start", "done"}) \cup {"return"}
    BY DEF AfterOld, Steps
  <2>2. Moved(q, "ok") \/ Moved(q, "failed")
    <3>1. CASE RevokeOld(q)
      BY <1>0, <2>1, <3>1, ExecuteMoves DEF RevokeOld, Revoke
    <3>2. CASE RevokeNew(q)
      BY <1>0, <2>1, <3>2, ExecuteMoves DEF RevokeNew, Revoke
    <3>3. CASE Grant(q)
      BY <1>0, <2>1, <3>3, ExecuteMoves DEF Grant
    <3> QED
      BY <1>4, <3>1, <3>2, <3>3
  <2>3. scn' = scn /\ pc[q] \notin {"start", "done"}
    BY <1>4 DEF RevokeOld, RevokeNew, Grant, Revoke, Execute
  <2> QED
    BY <2>2, <2>3 DEF Moved, Advances
<1>5. name' = name /\ log' = log
  BY DEF ResourceStep, StartCreate, StartUpdate, StartDelete, LockGrantee, Locked, RequireRole,
     RequireGrantee, ReadOld, ReadNew, ResolveRole, ResolveGrantee, QueryFails, RevokeOld,
     RevokeNew, Grant, Revoke, Execute, dbVars
<1> QED
  BY <1>1, <1>2, <1>3, <1>4, <1>5 DEF ResourceStep

LEMMA PrincipalMoves ==
  ASSUME ApplyInv, NEW o \in Principals, PrincipalStep(o)
  PROVE  /\ Advances(o) /\ cur' = cur
         /\ \A x \in Principals \ {o} : name'[x] = name[x]
<1>0. o \in Ops /\ TypeOK
  BY DEF Ops, ApplyInv
<1>1. ASSUME CreatePrincipal(o) \/ RenamePrincipal(o) \/ DropPrincipal(o)
      PROVE  Advances(o) /\ cur' = cur /\ \A x \in Principals \ {o} : name'[x] = name[x]
  <2>1. /\ \E possible, newName : \E next \in {"return", "record"} :
             ExecutePrincipal(o, possible, newName, next)
        /\ pc[o] # "done" /\ (pc[o] = "start" => Ready(o))
    BY <1>1 DEF CreatePrincipal, RenamePrincipal, DropPrincipal
  <2>2. /\ Moved(o, "ok") \/ Moved(o, "failed")
        /\ scn' = scn /\ cur' = cur
        /\ \A x \in Principals \ {o} : name'[x] = name[x]
    BY <1>0, <2>1, ExecutePrincipalMoves
  <2> QED
    BY <2>1, <2>2 DEF Moved, Advances
<1>2. CASE LockPrincipal(o)
  <2>1. /\ pc[o] = "start" /\ Ready(o) /\ outcome' = outcome
        /\ scn' = scn /\ cur' = cur /\ name' = name
        /\ \E step \in {"rename", "drop"} : Goto(o, step)
    BY <1>2 DEF LockPrincipal, dbVars
  <2>2. Moved(o, "ok")
    BY <1>0, <2>1, GotoMoves DEF Steps
  <2> QED
    BY <2>1, <2>2 DEF Moved, Advances
<1>3. CASE RecordRename(o)
  <2>1. /\ pc[o] = "record" /\ scn' = scn /\ cur' = cur /\ name' = name /\ Return(o, "ok")
    BY <1>3 DEF RecordRename, dbVars
  <2> QED
    BY <1>0, <2>1, ReturnMoves DEF Moved, Advances
<1> QED
  BY <1>1, <1>2, <1>3 DEF PrincipalStep

LEMMA SkipMoves ==
  ASSUME ApplyInv, NEW op \in Ops, Skip(op)
  PROVE  /\ Advances(op) /\ UNCHANGED <<name, grants, log, cur>>
         /\ pc[op] = "start" /\ pc'[op] = "done" /\ outcome'[op] = "skipped"
BY DEF ApplyInv, TypeOK, Skip, Goto, Advances, dbVars

\* What an operation has reached stays so, and others may go on from it.
LEMMA ProgressStep ==
  ASSUME \A x \in Ops : ProgressInv(x), NEW op \in Ops, Advances(op)
  PROVE  /\ \A x \in Ops : ProgressInv(x)'
         /\ \A x \in Ops : Ready(x) => Ready(x)'
         /\ \A x \in Ops : outcome[x] # "pending" => outcome'[x] = outcome[x] /\ x # op
<1>1. scn' = scn /\ pc[op] # "done" /\ outcome[op] = "pending"
  BY DEF Advances, ProgressInv
<1>2. \A x \in Ops : outcome[x] # "pending" => outcome'[x] = outcome[x] /\ x # op
  BY <1>1 DEF Advances
<1>3. ASSUME NEW x \in Ops, Ready(x) PROVE Ready(x)'
  <2>1. DependsOn(x)' = DependsOn(x)
    BY <1>1 DEF DependsOn, Born, Renamed, Dropped, Want
  <2>2. DependsOn(x) \subseteq Ops
    BY DEF DependsOn, Ops
  <2> QED
    BY <1>2, <1>3, <2>1, <2>2 DEF Ready
<1>4. \A x \in Ops : HasWork(x)' <=> HasWork(x)
  BY <1>1 DEF HasWork, Creates, Updates, Deletes, Had, Want, Born, Renamed, Dropped
<1>5. ASSUME NEW x \in Ops \ {op} PROVE ProgressInv(x)'
  BY <1>3, <1>4, <1>5 DEF Advances, ProgressInv
<1>6. ProgressInv(op)'
  BY <1>1, <1>3, <1>4 DEF Advances, ProgressInv
<1> QED
  BY <1>2, <1>3, <1>5, <1>6

\* The log and whose name is whose, after a step that renames nobody.
LEMMA LogStays ==
  ASSUME \A x \in Ops : ProgressInv(x), LogInv, NEW op \in Ops, Advances(op), log' = log,
         op \in Principals /\ Renamed(op) => outcome'[op] # "ok"
  PROVE  LogInv'
<1>1. \A o \in Principals : o \in Ops /\ (Renamed(o)' <=> Renamed(o)) /\ scn' = scn
  BY DEF Advances, Ops, Renamed
<1>2. \A o \in Principals : Renamed(o) => (outcome'[o] = "ok" <=> outcome[o] = "ok")
  BY <1>1, ProgressStep DEF Advances
<1> QED
  BY <1>1, <1>2 DEF LogInv

LEMMA NamesStay ==
  ASSUME \A o \in Principals : NameInv(o), NEW op \in Ops, Advances(op)
  PROVE  \A o \in Principals \ {op} : name'[o] = name[o] => NameInv(o)'
BY DEF Advances, NameInv, Dropped, Ops

\* A user or role that is not renamed takes its planned name or keeps its own.
LEMMA StatementNames ==
  ASSUME WhoIsWho, NEW o \in Principals,
         CreatePrincipal(o) \/ RenamePrincipal(o) \/ DropPrincipal(o)
  PROVE  (\A x \in Principals : NameInv(x)') /\ LogInv'
<1>0. /\ o \in Ops /\ TypeOK /\ ApplyInv /\ PrincipalInv(o) /\ NameInv(o) /\ ProgressInv(o)
      /\ LogInv /\ (\A x \in Ops : ProgressInv(x)) /\ (\A x \in Principals : NameInv(x))
  BY DEF WhoIsWho, ApplyInv, Ops
<1>1. Advances(o) /\ scn' = scn /\ \A x \in Principals \ {o} : name'[x] = name[x]
  BY <1>0, PrincipalMoves DEF PrincipalStep, Advances
<1>2. \A x \in Principals \ {o} : NameInv(x)'
  BY <1>0, <1>1, NamesStay
<1>3. name[o] = scn.start[o] /\ pc[o] # "done"
  BY <1>0 DEF CreatePrincipal, RenamePrincipal, DropPrincipal, PrincipalInv, NameInv
<1>4. NameInv(o)' /\ log' = log /\ (Renamed(o) => outcome'[o] # "ok")
  <2>1. CASE CreatePrincipal(o)
    <3>1. /\ ExecutePrincipal(o, ~PrincipalExists(scn.goal[o]), scn.goal[o], "return") /\ Born(o)
      BY <2>1 DEF CreatePrincipal
    <3>2. /\ name'[o] \in {scn.start[o], scn.goal[o]} /\ log' = log /\ pc'[o] = "done"
          /\ outcome'[o] = "failed" \/ (name'[o] = scn.goal[o] /\ outcome'[o] = "ok")
      BY <1>0, <1>3, <3>1, ExecutePrincipalMoves
    <3> QED
      BY <1>1, <3>1, <3>2 DEF NameInv, Born, Renamed
  <2>2. CASE RenamePrincipal(o)
    <3>1. /\ ExecutePrincipal(o, ~PrincipalExists(scn.goal[o]), scn.goal[o], "record")
          /\ pc[o] = "rename"
      BY <2>2 DEF RenamePrincipal
    <3>2. /\ name'[o] \in {scn.start[o], scn.goal[o]} /\ log' = log
          /\ \/ pc'[o] = "done" /\ outcome'[o] = "failed"
             \/ name'[o] = scn.goal[o] /\ pc'[o] = "record" /\ outcome'[o] = outcome[o]
      BY <1>0, <1>3, <3>1, ExecutePrincipalMoves
    <3>3. outcome[o] = "pending"
      BY <1>0, <3>1 DEF ProgressInv
    <3> QED
      BY <1>1, <3>2, <3>3 DEF NameInv
  <2>3. CASE DropPrincipal(o)
    <3> DEFINE possible == TRUE
    <3>1. ExecutePrincipal(o, possible, Absent, "return") /\ Dropped(o)
      BY <1>0, <2>3 DEF DropPrincipal, NameInv
    <3> HIDE DEF possible
    <3>2. /\ name'[o] \in {scn.start[o], Absent} /\ log' = log /\ pc'[o] = "done"
          /\ outcome'[o] = "failed" \/ (name'[o] = Absent /\ outcome'[o] = "ok")
      BY <1>0, <1>3, <3>1, ExecutePrincipalMoves
    <3> QED
      BY <1>1, <3>1, <3>2 DEF NameInv, Dropped, Renamed
  <2> QED
    BY <2>1, <2>2, <2>3
<1>5. LogInv'
  BY <1>0, <1>1, <1>4, LogStays
<1> QED
  BY <1>2, <1>4, <1>5

\* Record adds the entry of this rename and touches no other: what has taken over
\* the name before would have waited for it.
LEMMA RecordNames ==
  ASSUME WhoIsWho, NEW o \in Principals, RecordRename(o)
  PROVE  (\A x \in Principals : NameInv(x)') /\ LogInv'
<1>0. /\ o \in Ops /\ TypeOK /\ ApplyInv /\ PrincipalInv(o) /\ NameInv(o) /\ Plausible(scn)
      /\ LogInv /\ (\A x \in Ops : ProgressInv(x)) /\ (\A x \in Principals : NameInv(x))
      /\ (\A x \in Principals : x \in Ops)
  BY DEF WhoIsWho, ApplyInv, Ops
<1>1. /\ Advances(o) /\ scn' = scn /\ name' = name /\ Return(o, "ok") /\ pc[o] = "record"
      /\ log' = Record(log, PrincipalKind, scn.start[o], scn.goal[o])
  BY <1>0, PrincipalMoves DEF PrincipalStep, RecordRename, dbVars, Advances
<1>2. /\ Renamed(o) /\ name[o] = scn.goal[o] /\ outcome[o] = "pending"
      /\ pc'[o] = "done" /\ outcome'[o] = "ok"
  BY <1>0, <1>1, ReturnMoves DEF PrincipalInv, NameInv, ProgressInv
<1>3. NameInv(o)' /\ \A x \in Principals \ {o} : NameInv(x)'
  BY <1>0, <1>1, <1>2, NamesStay DEF NameInv
<1>4. /\ scn.start[o] \in Names /\ scn.goal[o] \in Names /\ log \in Logs
      /\ Upper[scn.start[o]] = scn.start[o] /\ Upper[scn.goal[o]] = scn.goal[o]
      /\ PrincipalKind \in Kinds /\ PrincipalKind # SchemaKind
  BY <1>0, <1>2, ScenarioNames, ApplyAssumption DEF Renamed, TypeOK
<1>5. /\ Normalize(PrincipalKind, scn.start[o]) = scn.start[o]
      /\ Normalize(PrincipalKind, scn.goal[o]) = scn.goal[o]
  BY <1>4 DEF Normalize
<1>6. /\ log'[<<PrincipalKind, scn.start[o]>>] = scn.goal[o]
      /\ \A e \in Keys : log[e] = NoEntry /\ e # <<PrincipalKind, scn.start[o]>>
           => log'[e] = NoEntry
      /\ \A e \in Keys :
           /\ e # <<PrincipalKind, scn.start[o]>>
           /\ e[1] # PrincipalKind \/ (log[e] # scn.start[o] /\ Normalize(PrincipalKind, log[e]) = log[e])
           => log'[e] = log[e]
  <2>1. \A e \in Keys : log'[e] =
          IF \/ e = <<PrincipalKind, scn.start[o]>>
             \/ /\ e[1] = PrincipalKind /\ log[e] # NoEntry
                /\ <<PrincipalKind, Normalize(PrincipalKind, log[e])>>
                     = <<PrincipalKind, scn.start[o]>>
            THEN scn.goal[o] ELSE log[e]
    BY <1>1, <1>5 DEF Record, Key
  <2>2. <<PrincipalKind, scn.start[o]>> \in Keys /\ scn.start[o] # NoEntry
    BY <1>4, NamesAssumption DEF Keys
  <2> QED
    BY <2>1, <2>2
<1>7. ASSUME NEW x \in Principals, Renamed(x), outcome[x] = "ok"
      PROVE  log'[<<PrincipalKind, scn.start[x]>>] = scn.goal[x]
  <2>1. /\ scn.start[x] \in Names /\ scn.goal[x] \in Names /\ Upper[scn.goal[x]] = scn.goal[x]
        /\ name[x] = scn.goal[x] /\ log[<<PrincipalKind, scn.start[x]>>] = scn.goal[x]
    BY <1>0, <1>7, ScenarioNames DEF Renamed, LogInv, NameInv
  <2>2. x # o /\ scn.start[x] # scn.start[o]
    BY <1>0, <1>2, <1>7, ScenarioNames DEF Renamed
  <2>3. scn.goal[x] # scn.start[o]
    BY <1>2, <2>1, <2>2, GivenUp, ApplyAssumption
  <2>4. Normalize(PrincipalKind, scn.goal[x]) = scn.goal[x]
    BY <1>4, <2>1 DEF Normalize
  <2>5. <<PrincipalKind, scn.start[x]>> \in Keys
    BY <1>4, <2>1 DEF Keys
  <2> QED
    BY <1>6, <2>1, <2>2, <2>3, <2>4, <2>5
<1>8. \A x \in Principals : /\ Renamed(x)' <=> Renamed(x)
                            /\ outcome'[x] = "ok" <=> outcome[x] = "ok" \/ x = o
  BY <1>0, <1>1, <1>2 DEF Advances, Renamed
<1>9. LogInv'
  <2>1. \A x \in Principals : Renamed(x) /\ outcome'[x] = "ok"
          => log'[<<PrincipalKind, scn.start[x]>>] = scn.goal[x]
    BY <1>6, <1>7, <1>8
  <2>2. \A e \in Keys : log'[e] # NoEntry => log[e] # NoEntry \/ e = <<PrincipalKind, scn.start[o]>>
    BY <1>6
  <2>3. \A e \in Keys : log'[e] # NoEntry => \E x \in Principals :
          Renamed(x) /\ outcome'[x] = "ok" /\ e = <<PrincipalKind, scn.start[x]>>
    BY <1>0, <1>2, <1>8, <2>2 DEF LogInv
  <2> QED
    BY <1>1, <1>8, <2>1, <2>3 DEF LogInv
<1> QED
  BY <1>3, <1>9

\* Where a resource looks stays right while others work: the log waits for it.
LEMMA FoundStays ==
  ASSUME ApplyInv, NEW op \in Ops, NEW q \in Resources \ {op}, FoundInv(q), Frame(op)
  PROVE  FoundInv(q)'
<1>1. /\ scn' = scn /\ pc'[q] = pc[q] /\ cur'[q] = cur[q]
      /\ log' # log => deleteMutex = op
  BY DEF Frame, Ops
<1>2. /\ (Updates(q) <=> Updates(q)') /\ (Deletes(q) <=> Deletes(q)')
      /\ Had(q)' = Had(q)
  BY <1>1, TaskStable
<1>3. (Updates(q) \/ Deletes(q)) /\ Busy(q) => deleteMutex = q
  BY DEF ApplyInv, ResourceInv
<1> QED
  BY <1>1, <1>2, <1>3 DEF FoundInv, Busy

\* The place that resolveEndpoint finds is where the log says, or none.
LEMMA Resolved ==
  ASSUME TypeOK, NEW old \in Names, NEW new, NEW exists
  PROVE  ResolveEndpoint(old, new, exists) \in {Absent, CurrentName(log, PrincipalKind, old)}
BY LogReads DEF ResolveEndpoint

\* The next step of a resource after each of its steps.
LEMMA NextSteps ==
  ASSUME TypeOK, NEW q \in Resources
  PROVE  /\ Locked(q) => pc'[q] \in {FirstStep(q), "done"}
         /\ RequireRole(q) \/ RequireGrantee(q) => pc'[q] \in {"requireGrantee", "resolveRole", "done"}
         /\ ResolveRole(q) => pc'[q] = "resolveGrantee"
         /\ ResolveGrantee(q) => pc'[q] \in {"readOld", "readNew"}
         /\ ReadOld(q) => pc'[q] \in {"revokeOld", "readNew", "done"}
         /\ RevokeOld(q) => pc'[q] \in {"readNew", "done"}
         /\ ReadNew(q) => pc'[q] \in {"revokeNew", "grant", "done"}
         /\ RevokeNew(q) => pc'[q] \in {"grant", "done"}
         /\ Grant(q) => pc'[q] = "done"
         /\ QueryFails(q) => pc'[q] = "done" /\ outcome'[q] = "failed"
<1> DEFINE on == (Steps \ {"start", "done"}) \cup {"return"}
<1>0. q \in Ops /\ "return" \notin Steps
  BY DEF Ops, Steps
<1>1. \A step \in on : Continue(q, step) => pc'[q] \in {step, "done"}
  BY <1>0, ContinueMoves
<1>2. Return(q, "failed") => pc'[q] = "done" /\ outcome'[q] = "failed"
  BY <1>0, ReturnMoves
<1>3. \A step \in Steps : Goto(q, step) => pc'[q] = step
  BY <1>0 DEF Goto, TypeOK
<1>4. /\ FirstStep(q) \in on /\ AfterOld(q) \in {"return", "readNew"}
      /\ {"requireGrantee", "resolveRole", "revokeOld", "readNew", "revokeNew", "grant", "return"}
           \subseteq on
      /\ {"resolveGrantee", "readOld", "readNew"} \subseteq Steps
  BY DEF FirstStep, AfterOld, Steps
<1>5. ASSUME NEW possible, NEW after, NEW next \in on, Execute(q, possible, after, next)
      PROVE  pc'[q] = "done" \/ (next # "return" /\ pc'[q] = next)
  BY <1>0, <1>5, ExecuteMoves
<1>6. ASSUME NEW step \in on, Continue(q, step)
      PROVE  pc'[q] = "done" \/ (step # "return" /\ pc'[q] = step)
  BY <1>0, <1>6, ContinueMoves
<1> HIDE DEF on
<1>7. Locked(q) => pc'[q] \in {FirstStep(q), "done"}
  BY <1>1, <1>4 DEF Locked
<1>8. RequireRole(q) \/ RequireGrantee(q) => pc'[q] \in {"requireGrantee", "resolveRole", "done"}
  BY <1>1, <1>2, <1>4 DEF RequireRole, RequireGrantee
<1>9. ResolveRole(q) => pc'[q] = "resolveGrantee"
  BY <1>3, <1>4 DEF ResolveRole
<1>10. ResolveGrantee(q) => pc'[q] \in {"readOld", "readNew"}
  BY <1>3, <1>4 DEF ResolveGrantee
<1>11. ReadOld(q) => pc'[q] \in {"revokeOld", "readNew", "done"}
  BY <1>4, <1>6 DEF ReadOld
<1>12. RevokeOld(q) => pc'[q] \in {"readNew", "done"}
  BY <1>4, <1>5 DEF RevokeOld, Revoke
<1>13. ReadNew(q) => pc'[q] \in {"revokeNew", "grant", "done"}
  BY <1>4, <1>6 DEF ReadNew
<1>14. RevokeNew(q) => pc'[q] \in {"grant", "done"}
  BY <1>4, <1>5 DEF RevokeNew, Revoke
<1>15. Grant(q) => pc'[q] = "done"
  BY <1>4, <1>5 DEF Grant
<1>16. QueryFails(q) => pc'[q] = "done" /\ outcome'[q] = "failed"
  BY <1>2 DEF QueryFails
<1> QED
  BY <1>7, <1>8, <1>9, <1>10, <1>11, <1>12, <1>13, <1>14, <1>15, <1>16

LEMMA FoundStep ==
  ASSUME WhoIsWho, NEW q \in Resources, ResourceStep(q)
  PROVE  FoundInv(q)'
<1>0. /\ q \in Ops /\ TypeOK /\ ApplyInv /\ FoundInv(q) /\ ResourceInv(q)
      /\ scn' = scn /\ log' = log
  BY ResourceMoves DEF WhoIsWho, ApplyInv, Ops, Advances
<1>1. /\ (Creates(q) <=> Creates(q)') /\ (Updates(q) <=> Updates(q)')
      /\ (Deletes(q) <=> Deletes(q)') /\ Had(q)' = Had(q)
      /\ ~(Updates(q) /\ Deletes(q)) /\ ~(Creates(q) /\ Updates(q)) /\ ~(Creates(q) /\ Deletes(q))
  BY <1>0, TaskStable DEF Creates, Updates, Deletes
<1>2. ASSUME StartCreate(q) \/ StartUpdate(q) \/ StartDelete(q) PROVE FoundInv(q)'
  <2>1. pc'[q] = "lock"
    BY <1>0, <1>2 DEF StartCreate, StartUpdate, StartDelete, Goto, TypeOK
  <2>2. CASE StartDelete(q)
    BY <1>0, <1>1, <2>1, <2>2 DEF StartDelete, FoundInv, TypeOK
  <2>3. CASE StartCreate(q) \/ StartUpdate(q)
    BY <1>1, <2>1, <2>3 DEF StartCreate, StartUpdate, FoundInv
  <2> QED
    BY <1>2, <2>2, <2>3
<1>3. ASSUME LockGrantee(q) PROVE FoundInv(q)'
  BY <1>0, <1>1, <1>3 DEF LockGrantee, FoundInv, Busy
<1>4. ASSUME ResolveRole(q) PROVE FoundInv(q)'
  <2>1. pc[q] = "resolveRole" /\ pc'[q] = "resolveGrantee" /\ Updates(q)
    BY <1>0, <1>4, PastLocks, NextSteps DEF ResolveRole
  <2>2. cur'[q].role = ResolveEndpoint(Had(q).role, Want(q).role, RoleExists(Upper[Had(q).role]))
    BY <1>0, <1>4 DEF ResolveRole, TypeOK
  <2>3. cur'[q].role \in {Absent, CurrentName(log, PrincipalKind, Had(q).role)}
    BY <1>0, <2>1, <2>2, Resolved, ConfigTypes DEF Configs
  <2> QED
    BY <1>0, <1>1, <2>1, <2>3 DEF FoundInv
<1>5. ASSUME ResolveGrantee(q) PROVE FoundInv(q)'
  <2> DEFINE grantee == ResolveEndpoint(Had(q).grantee, Want(q).grantee,
                                        PrincipalExists(Upper[Had(q).grantee]))
  <2>1. pc[q] = "resolveGrantee" /\ pc'[q] \in {"readOld", "readNew"} /\ Updates(q)
    BY <1>0, <1>5, PastLocks, NextSteps DEF ResolveGrantee
  <2>2. /\ cur'[q].grantee = grantee /\ cur'[q].role = cur[q].role
        /\ pc'[q] = "readOld" => cur[q].role # Absent /\ grantee # Absent
    BY <1>0, <1>5, <2>1 DEF ResolveGrantee, TypeOK, Goto
  <2>3. grantee \in {Absent, CurrentName(log, PrincipalKind, Had(q).grantee)}
    BY <1>0, <2>1, Resolved, ConfigTypes DEF Configs
  <2> HIDE DEF grantee
  <2> QED
    BY <1>0, <1>1, <2>1, <2>2, <2>3 DEF FoundInv
<1>6. ASSUME ReadOld(q) PROVE FoundInv(q)'
  <2>1. pc[q] = "readOld" /\ pc'[q] \in {"revokeOld", "readNew", "done"} /\ cur' = cur
    BY <1>0, <1>6, NextSteps DEF ReadOld
  <2> QED
    BY <1>0, <1>1, <2>1 DEF FoundInv, Busy
<1>7. ASSUME \/ Locked(q) \/ RequireRole(q) \/ RequireGrantee(q) \/ RevokeOld(q) \/ ReadNew(q)
             \/ RevokeNew(q) \/ Grant(q) \/ QueryFails(q)
      PROVE  FoundInv(q)'
  <2>1. cur' = cur /\ Busy(q)
    BY <1>7 DEF Locked, RequireRole, RequireGrantee, RevokeOld, ReadNew, RevokeNew, Grant,
         QueryFails, Revoke, Execute, Busy
  <2>2. \/ pc'[q] \in {"requireGrantee", "resolveRole", "readNew", "revokeNew", "grant", "done"}
        \/ pc'[q] = FirstStep(q)
    BY <1>0, <1>7, NextSteps
  <2>3. Updates(q) => FirstStep(q) \in {"requireRole", "revokeAdmin", "return"}
    BY <1>1 DEF FirstStep
  <2> QED
    BY <1>0, <1>1, <2>1, <2>2, <2>3 DEF FoundInv
<1> QED
  BY <1>2, <1>3, <1>4, <1>5, <1>6, <1>7 DEF ResourceStep

\* What Next preserves of WhoIsWho besides ApplyInv.
Identities ==
  /\ \A op \in Ops : ProgressInv(op)
  /\ \A o \in Principals : NameInv(o)
  /\ LogInv
  /\ \A q \in Resources : FoundInv(q)

LEMMA WhoIsWhoResource ==
  ASSUME WhoIsWho, NEW q \in Resources, ResourceStep(q)
  PROVE  WhoIsWho'
<1>0. q \in Ops /\ q \notin Principals /\ ApplyInv /\ Identities
  BY ApplyAssumption DEF WhoIsWho, Ops, Identities
<1>1. Kept(q)
  BY <1>0, StartStep, LockStep, LockedStep, RequireStep, ResolveStep, ReadStep, StatementStep,
     QueryFailsStep DEF ResourceStep
<1>2. Advances(q) /\ name' = name /\ log' = log /\ scn' = scn /\ ApplyInv'
  BY <1>0, ResourceMoves, ResourceStepInv DEF Advances
<1>3. \A op \in Ops : ProgressInv(op)'
  BY <1>0, <1>2, ProgressStep DEF Identities
<1>4. \A o \in Principals : NameInv(o)'
  BY <1>0, <1>2, NamesStay DEF Identities
<1>5. LogInv'
  BY <1>0, <1>2, LogStays DEF Identities
<1>6. \A r \in Resources \ {q} : FoundInv(r)'
  BY <1>0, <1>1, FoundStays DEF Identities, Kept
<1>7. FoundInv(q)'
  BY FoundStep
<1> QED
  BY <1>2, <1>3, <1>4, <1>5, <1>6, <1>7 DEF WhoIsWho, Plausible, NoReuseOfDropped

LEMMA WhoIsWhoPrincipal ==
  ASSUME WhoIsWho, NEW o \in Principals, PrincipalStep(o)
  PROVE  WhoIsWho'
<1>0. o \in Ops /\ o \notin Resources /\ ApplyInv /\ Identities
  BY ApplyAssumption DEF WhoIsWho, Ops, Identities
<1>1. KeptPrincipal(o)
  BY <1>0, PrincipalStatementStep, LockPrincipalStep, RecordStep DEF PrincipalStep
<1>2. Advances(o) /\ scn' = scn /\ ApplyInv'
  BY <1>0, PrincipalMoves, PrincipalStepInv DEF Advances
<1>3. \A op \in Ops : ProgressInv(op)'
  BY <1>0, <1>2, ProgressStep DEF Identities
<1>4. (\A x \in Principals : NameInv(x)') /\ LogInv'
  <2>1. CASE LockPrincipal(o)
    <3>1. /\ pc[o] = "start" /\ name' = name /\ log' = log /\ outcome' = outcome
          /\ PrincipalInv(o) /\ (Renamed(o) \/ Dropped(o))
          /\ pc'[o] = IF Renamed(o) THEN "rename" ELSE "drop"
      BY <1>0, <2>1 DEF LockPrincipal, dbVars, ApplyInv, Goto, TypeOK
    <3>2. outcome[o] = "pending" /\ name[o] = scn.start[o]
      BY <1>0, <3>1 DEF PrincipalInv, ApplyInv, Identities, ProgressInv
    <3>3. NameInv(o)'
      BY <1>2, <3>1, <3>2 DEF NameInv, Dropped
    <3>4. \A x \in Principals \ {o} : NameInv(x)'
      BY <1>0, <1>2, <3>1, NamesStay DEF Identities
    <3>5. LogInv'
      BY <1>0, <1>2, <3>1, <3>2, LogStays DEF Identities
    <3> QED
      BY <3>3, <3>4, <3>5
  <2> QED
    BY <2>1, StatementNames, RecordNames DEF PrincipalStep
<1>5. \A r \in Resources : FoundInv(r)'
  BY <1>0, <1>1, FoundStays DEF Identities, KeptPrincipal
<1> QED
  BY <1>2, <1>3, <1>4, <1>5 DEF WhoIsWho, Plausible, NoReuseOfDropped

LEMMA WhoIsWhoSkip ==
  ASSUME WhoIsWho, NEW op \in Ops, Skip(op)
  PROVE  WhoIsWho'
<1>0. ApplyInv /\ Identities
  BY DEF WhoIsWho, Identities
<1>1. /\ Advances(op) /\ name' = name /\ log' = log /\ cur' = cur /\ scn' = scn /\ ApplyInv'
      /\ pc[op] = "start" /\ pc'[op] = "done" /\ outcome'[op] = "skipped"
  BY <1>0, SkipMoves, SkipInv DEF Advances
<1>2. \A x \in Ops : ProgressInv(x)'
  BY <1>0, <1>1, ProgressStep DEF Identities
<1>3. ASSUME NEW x \in Principals PROVE NameInv(x)'
  <2>1. CASE x = op
    BY <1>0, <1>1, <2>1 DEF NameInv, ApplyInv, PrincipalInv
  <2>2. CASE x # op
    BY <1>0, <1>1, <2>2, NamesStay DEF Identities
  <2> QED
    BY <2>1, <2>2
<1>4. LogInv'
  BY <1>0, <1>1, LogStays DEF Identities
<1>5. ASSUME NEW r \in Resources PROVE FoundInv(r)'
  <2>1. FoundInv(r) /\ pc'[r] \in {pc[r], "done"} /\ r \in Ops
    BY <1>0, <1>1 DEF Identities, Advances, Ops
  <2> QED
    BY <1>1, <2>1 DEF FoundInv, Busy, Deletes, Updates, Had, Want
<1> QED
  BY <1>1, <1>2, <1>3, <1>4, <1>5 DEF WhoIsWho, Plausible, NoReuseOfDropped

LEMMA WhoIsWhoStutter ==
  ASSUME WhoIsWho, UNCHANGED vars
  PROVE  WhoIsWho'
<1>1. UNCHANGED <<scn, name, grants, log, deleteMutex, granteeLock, pc, keys, cur, outcome, faults>>
  BY DEF vars, dbVars, lockVars
<1>2. ApplyInv'
  BY StutterInv DEF WhoIsWho
<1>3. /\ \A q \in Resources : FoundInv(q)'
      /\ \A o \in Principals : NameInv(o)'
      /\ LogInv'
  BY <1>1 DEF WhoIsWho, FoundInv, Busy, Deletes, Updates, Had, Want, NameInv, Dropped, LogInv, Renamed
<1>4. \A op \in Ops : ProgressInv(op)'
  <2>1. \A op \in Ops : /\ Ready(op)' <=> Ready(op)
                        /\ HasWork(op)' <=> HasWork(op)
    BY <1>1 DEF Ready, DependsOn, HasWork, Creates, Updates, Deletes, Had, Want, Born, Renamed, Dropped
  <2> QED
    BY <1>1, <2>1 DEF WhoIsWho, ProgressInv
<1> QED
  BY <1>1, <1>2, <1>3, <1>4 DEF WhoIsWho, Plausible, NoReuseOfDropped

LEMMA WhoIsWhoInit ==
  ASSUME Init, Plausible(scn), NoReuseOfDropped(scn)
  PROVE  WhoIsWho
<1>1. ApplyInv
  BY ApplyInit
<1>2. \A op \in Ops : /\ pc[op] = IF HasWork(op) THEN "start" ELSE "done"
                      /\ outcome[op] = IF HasWork(op) THEN "pending" ELSE "ok"
  BY DEF Init
<1>3. \A op \in Ops : ProgressInv(op)
  BY <1>2 DEF ProgressInv
<1>4. \A o \in Principals : NameInv(o)
  BY <1>2 DEF Init, NameInv, HasWork, Born, Renamed, Dropped, Ops
<1>5. LogInv
  <2>1. \A o \in Principals : Renamed(o) => outcome[o] # "ok"
    BY <1>2 DEF HasWork, Ops
  <2>2. \A e \in Keys : log[e] = NoEntry
    BY DEF Init, EmptyLog
  <2> QED
    BY <2>1, <2>2 DEF LogInv
<1>6. \A q \in Resources : FoundInv(q)
  BY <1>2 DEF FoundInv, Busy, Ops
<1> QED
  BY <1>1, <1>3, <1>4, <1>5, <1>6 DEF WhoIsWho

THEOREM KnownNames == Spec /\ Plausible(scn) /\ NoReuseOfDropped(scn) => []WhoIsWho
<1>1. Init /\ Plausible(scn) /\ NoReuseOfDropped(scn) => WhoIsWho
  BY WhoIsWhoInit
<1>2. WhoIsWho /\ [Next]_vars => WhoIsWho'
  <2> SUFFICES ASSUME WhoIsWho, [Next]_vars PROVE WhoIsWho'
    OBVIOUS
  <2>1. ASSUME NEW q \in Resources, ResourceStep(q) PROVE WhoIsWho'
    BY <2>1, WhoIsWhoResource
  <2>2. ASSUME NEW o \in Principals, PrincipalStep(o) PROVE WhoIsWho'
    BY <2>2, WhoIsWhoPrincipal
  <2>3. ASSUME NEW op \in Ops, Skip(op) PROVE WhoIsWho'
    BY <2>3, WhoIsWhoSkip
  <2>4. CASE UNCHANGED vars
    BY <2>4, WhoIsWhoStutter
  <2> QED
    BY <2>1, <2>2, <2>3, <2>4 DEF Next, Terminating
<1> QED
  BY <1>1, <1>2, PTL DEF Spec

-----------------------------------------------------------------------------
\* What each step of a resource does to the grants, by identity.
LEMMA OwnGrants ==
  ASSUME WhoIsWho, NEW q \in Resources, ResourceStep(q)
  PROVE  \/ grants' = grants
         \/ /\ pc[q] = "revokeOld" /\ pc'[q] # pc[q]
            /\ grants' = AfterRevoke(cur[q].role, cur[q].grantee)
            /\ PairsNamed(cur[q].role, cur[q].grantee) \subseteq HadPairs(q)
         \/ /\ pc[q] \in {"revokeNew", "revokeAdmin"} /\ pc'[q] # pc[q]
            /\ grants' = AfterRevoke(WantRole(q), WantGrantee(q))
            /\ PairsNamed(WantRole(q), WantGrantee(q)) = WantPairs(q)
         \/ /\ pc[q] = "grant" /\ pc'[q] # pc[q]
            /\ grants' = AfterGrant(WantRole(q), WantGrantee(q), Want(q).admin)
            /\ PairsNamed(WantRole(q), WantGrantee(q)) = WantPairs(q)
<1>0. q \in Ops /\ TypeOK /\ ApplyInv /\ FoundInv(q) /\ ResourceInv(q) /\ ProgressInv(q)
  BY DEF WhoIsWho, ApplyInv, Ops
<1>1. AfterOld(q) \in (Steps \ {"start", "done"}) \cup {"return"}
      /\ {"grant", "return"} \subseteq (Steps \ {"start", "done"}) \cup {"return"}
  BY DEF AfterOld, Steps
<1>2. ASSUME RevokeOld(q)
      PROVE  /\ pc[q] = "revokeOld" /\ pc'[q] # pc[q]
             /\ grants' \in {grants, AfterRevoke(cur[q].role, cur[q].grantee)}
             /\ PairsNamed(cur[q].role, cur[q].grantee) \subseteq HadPairs(q)
  <2>1. pc[q] = "revokeOld" /\ pc'[q] \in {"readNew", "done"}
        /\ (Deletes(q) \/ Updates(q)) /\ Had(q) # NoGrant /\ Busy(q)
    BY <1>0, <1>2, NextSteps, PastLocks DEF RevokeOld, Deletes, Updates, Busy, ResourceInv
  <2>2. grants' \in {grants, AfterRevoke(cur[q].role, cur[q].grantee)}
    BY <1>0, <1>1, <1>2, ExecuteMoves DEF RevokeOld, Revoke
  <2> QED
    BY <1>0, <2>1, <2>2, FoundPairs DEF FoundInv
<1>3. ASSUME pc[q] \in {"revokeNew", "revokeAdmin", "grant"}
      PROVE  PairsNamed(WantRole(q), WantGrantee(q)) = WantPairs(q)
  <2>1. Want(q) # NoGrant /\ HasWork(q) /\ pc[q] \notin {"start", "done"}
    BY <1>3, <1>0, PastLocks DEF Creates, Updates, HasWork
  <2>2. Ready(q)
    BY <1>0, <2>1 DEF ProgressInv
  <2> QED
    BY <2>1, <2>2, WantedPairs
<1>4. ASSUME RevokeNew(q)
      PROVE  /\ pc[q] \in {"revokeNew", "revokeAdmin"} /\ pc'[q] # pc[q]
             /\ grants' \in {grants, AfterRevoke(WantRole(q), WantGrantee(q))}
  <2>1. pc[q] \in {"revokeNew", "revokeAdmin"} /\ pc'[q] \in {"grant", "done"}
    BY <1>0, <1>4, NextSteps DEF RevokeNew
  <2> QED
    BY <1>0, <1>1, <1>4, <2>1, ExecuteMoves DEF RevokeNew, Revoke
<1>5. ASSUME Grant(q)
      PROVE  /\ pc[q] = "grant" /\ pc'[q] # pc[q]
             /\ grants' \in {grants, AfterGrant(WantRole(q), WantGrantee(q), Want(q).admin)}
  <2>1. pc[q] = "grant" /\ pc'[q] = "done"
    BY <1>0, <1>5, NextSteps DEF Grant
  <2> QED
    BY <1>0, <1>1, <1>5, <2>1, ExecuteMoves DEF Grant
<1>6. ASSUME ~(RevokeOld(q) \/ RevokeNew(q) \/ Grant(q)) PROVE grants' = grants
  BY <1>6 DEF ResourceStep, StartCreate, StartUpdate, StartDelete, LockGrantee, Locked, RequireRole,
     RequireGrantee, ReadOld, ReadNew, ResolveRole, ResolveGrantee, QueryFails, dbVars
<1> QED
  BY <1>2, <1>3, <1>4, <1>5, <1>6

\* A user or role takes grants away only by being dropped.
LEMMA PrincipalGrants ==
  ASSUME ApplyInv, NEW o \in Principals, PrincipalStep(o), NEW p \in Roles \X Principals
  PROVE  \/ grants'[p] = grants[p] /\ \A i \in {1, 2} : name[p[i]] = Absent \/ name'[p[i]] # Absent
         \/ grants'[p] = "none" /\ \E i \in {1, 2} : name[p[i]] # Absent /\ name'[p[i]] = Absent
<1>1. TypeOK
  BY DEF ApplyInv
<1>2. CASE CreatePrincipal(o) \/ RenamePrincipal(o) \/ DropPrincipal(o)
  <2>1. \E possible, newName : \E next \in {"return", "record"} :
          ExecutePrincipal(o, possible, newName, next)
    BY <1>2 DEF CreatePrincipal, RenamePrincipal, DropPrincipal
  <2> QED
    BY <1>1, <2>1, ExecutePrincipalMoves
<1>3. CASE LockPrincipal(o) \/ RecordRename(o)
  BY <1>3 DEF LockPrincipal, RecordRename, dbVars
<1> QED
  BY <1>2, <1>3 DEF PrincipalStep

\* No REVOKE takes a grant of another resource, whatever is renamed meanwhile
\* (acceptance_test.go:870-871 and 944-945), in every apply in which nobody
\* takes over the name of a dropped principal.
THEOREM RevokesOwn ==
  Spec /\ Plausible(scn) /\ NoReuseOfDropped(scn) => RevokesOwnOnly
<1> DEFINE own(p) ==
      grants[p] # "none" /\ grants'[p] = "none" =>
        \/ name'[p[1]] = Absent \/ name'[p[2]] = Absent
        \/ \E q \in Resources :
             /\ pc[q] \in RevokeSteps /\ pc'[q] # pc[q]
             /\ p \in HadPairs(q) \cup WantPairs(q)
<1>1. ASSUME WhoIsWho, [Next]_vars, NEW p \in Roles \X Principals
      PROVE  own(p)
  <2>1. ASSUME NEW q \in Resources, ResourceStep(q) PROVE own(p)
    <3>1. \A role, grantee :
            AfterRevoke(role, grantee)[p] # grants[p] => p \in PairsNamed(role, grantee)
      BY DEF AfterRevoke
    <3>2. \A role, grantee, admin : AfterGrant(role, grantee, admin)[p] \in {"admin", "plain", grants[p]}
      BY DEF AfterGrant
    <3> QED
      BY <1>1, <2>1, <3>1, <3>2, OwnGrants DEF RevokeSteps
  <2>2. ASSUME NEW o \in Principals, PrincipalStep(o) PROVE own(p)
    BY <1>1, <2>2, PrincipalGrants DEF WhoIsWho
  <2>3. ASSUME NEW op \in Ops, Skip(op) PROVE own(p)
    BY <2>3 DEF Skip, dbVars
  <2>4. CASE UNCHANGED vars
    BY <2>4 DEF vars, dbVars
  <2> QED
    BY <1>1, <2>1, <2>2, <2>3, <2>4 DEF Next, Terminating
<1>2. WhoIsWho /\ [Next]_vars
        => [\A p \in Roles \X Principals : own(p)]_vars
  BY <1>1
<1> QED
  BY <1>2, KnownNames, PTL DEF Spec, RevokesOwnOnly

-----------------------------------------------------------------------------
(* HoldsWanted and NoLeftover. No two resources meet in a grant that one of them
   wants, and what a resource has cleared away nobody else brings back. *)

\* A user or role only ever changes its name to the planned one.
LEMMA TowardsGoal ==
  ASSUME WhoIsWho, NEW o \in Principals, PrincipalStep(o), NEW x \in Principals
  PROVE  name'[x] \in {name[x], scn.goal[x]}
<1>1. TypeOK /\ ApplyInv /\ NameInv(o)
  BY DEF WhoIsWho, ApplyInv
<1>2. ASSUME CreatePrincipal(o) \/ RenamePrincipal(o) PROVE name'[o] \in {name[o], scn.goal[o]}
  <2>1. \E possible : \E next \in {"return", "record"} :
          ExecutePrincipal(o, possible, scn.goal[o], next)
    BY <1>2 DEF CreatePrincipal, RenamePrincipal
  <2> QED
    BY <1>1, <2>1, ExecutePrincipalMoves
<1>3. ASSUME DropPrincipal(o) PROVE name'[o] \in {name[o], scn.goal[o]}
  <2> DEFINE possible == TRUE
  <2>1. ExecutePrincipal(o, possible, Absent, "return") /\ scn.goal[o] = Absent
    BY <1>1, <1>3 DEF DropPrincipal, NameInv, Dropped
  <2> HIDE DEF possible
  <2> QED
    BY <1>1, <2>1, ExecutePrincipalMoves
<1>4. ASSUME LockPrincipal(o) \/ RecordRename(o) PROVE name'[o] \in {name[o], scn.goal[o]}
  BY <1>4 DEF LockPrincipal, RecordRename, dbVars
<1> QED
  BY <1>1, <1>2, <1>3, <1>4, PrincipalMoves DEF PrincipalStep

\* A grant that a resource wants is its own business during the apply.
LEMMA WantUntouched ==
  ASSUME PromiseInv, NEW q \in Resources, NEW p \in WantPairs(q)
  PROVE  /\ \A r \in Resources \ {q} : ResourceStep(r) => grants'[p] = grants[p]
         /\ \A o \in Principals : PrincipalStep(o) => grants'[p] = grants[p]
<1>1. p \in Roles \X Principals /\ p[1] \in Principals /\ p[2] \in Principals
      /\ scn.goal[p[1]] # Absent /\ scn.goal[p[2]] # Absent
  <2>1. p \in Roles \X Principals /\ Want(q) # NoGrant
        /\ scn.goal[p[1]] = WantRole(q) /\ scn.goal[p[2]] = WantGrantee(q)
    BY DEF WantPairs, Meant, WantRole, WantGrantee, Want
  <2>2. WantRole(q) \in Names /\ WantGrantee(q) \in Names
    BY <2>1, ConfigTypes DEF PromiseInv, WhoIsWho, ApplyInv
  <2> QED
    BY <2>1, <2>2, ApplyAssumption
<1>2. ASSUME NEW r \in Resources \ {q}, ResourceStep(r) PROVE grants'[p] = grants[p]
  <2>1. p \notin WantPairs(r) /\ p \notin HadPairs(r)
    BY DEF PromiseInv, NoHandOver, WantPairs, HadPairs, Want, Had
  <2> QED
    BY <1>1, <1>2, <2>1, OwnGrants DEF PromiseInv, AfterRevoke, AfterGrant
<1>3. ASSUME NEW o \in Principals, PrincipalStep(o) PROVE grants'[p] = grants[p]
  <2>1. \A i \in {1, 2} : p[i] \in Principals /\ scn.goal[p[i]] # Absent
    BY <1>1
  <2>2. \A i \in {1, 2} : name'[p[i]] \in {name[p[i]], scn.goal[p[i]]}
    BY <1>3, <2>1, TowardsGoal DEF PromiseInv
  <2> QED
    BY <1>1, <1>3, <2>1, <2>2, PrincipalGrants DEF PromiseInv, WhoIsWho
<1> QED
  BY <1>2, <1>3

\* The steps of an apply that change a grant's level.
AnyStep ==
  \/ \E q \in Resources : ResourceStep(q)
  \/ \E o \in Principals : PrincipalStep(o)
  \/ \E op \in Ops : Skip(op)

\* Nobody makes a grant that no resource wants.
LEMMA NoStrayGrant ==
  ASSUME PromiseInv, AnyStep, NEW p \in Roles \X Principals, grants[p] = "none"
  PROVE  grants'[p] = "none" \/ \E r \in Resources : p \in WantPairs(r)
<1>1. CASE \E q \in Resources : ResourceStep(q)
  BY <1>1, OwnGrants DEF PromiseInv, AfterRevoke, AfterGrant
<1>2. CASE \E o \in Principals : PrincipalStep(o)
  BY <1>2, PrincipalGrants DEF PromiseInv, WhoIsWho
<1>3. CASE \E op \in Ops : Skip(op)
  BY <1>3 DEF Skip, dbVars
<1> QED
  BY <1>1, <1>2, <1>3 DEF AnyStep

\* Progress and plan after any step.
LEMMA AnyMoves ==
  ASSUME WhoIsWho, AnyStep
  PROVE  /\ scn' = scn
         /\ \A x \in Ops : outcome[x] # "pending" => outcome'[x] = outcome[x]
<1>1. \E op \in Ops : Advances(op)
  BY ResourceMoves, PrincipalMoves, SkipMoves DEF AnyStep, WhoIsWho, Ops
<1> QED
  BY <1>1, ProgressStep DEF WhoIsWho, Advances

LEMMA PairsStable ==
  ASSUME scn' = scn, NEW q \in Resources
  PROVE  HadPairs(q)' = HadPairs(q) /\ WantPairs(q)' = WantPairs(q) /\ WantLevel(q)' = WantLevel(q)
BY DEF HadPairs, WantPairs, WantLevel, Meant, Had, Want

\* What is cleared stays so.
LEMMA ClearedStays ==
  ASSUME PromiseInv, AnyStep, NEW q \in Resources, Cleared(q)
  PROVE  Cleared(q)'
<1>1. /\ scn' = scn
      /\ \A x \in Principals : outcome[x] = "failed" => outcome'[x] = "failed"
  BY AnyMoves DEF PromiseInv, Ops
<1>2. \A r \in Resources : HadPairs(r)' = HadPairs(r) /\ WantPairs(r)' = WantPairs(r)
  BY <1>1, PairsStable
<1>3. \A p \in HadPairs(q) : p \in Roles \X Principals /\ p[1] \in Principals /\ p[2] \in Principals
  BY ApplyAssumption DEF HadPairs, Meant
<1> QED
  BY <1>1, <1>2, <1>3, NoStrayGrant DEF Cleared

\* The promise to a resource survives the steps of all others.
LEMMA GrantStays ==
  ASSUME PromiseInv, AnyStep, NEW q \in Resources, GrantInv(q),
         pc'[q] = pc[q], outcome'[q] = outcome[q], cur'[q] = cur[q],
         \A p \in WantPairs(q) : grants'[p] = grants[p]
  PROVE  GrantInv(q)'
<1>1. scn' = scn
  BY AnyMoves DEF PromiseInv
<1>2. /\ Cleared(q) => Cleared(q)'
      /\ WantPairs(q)' = WantPairs(q) /\ WantLevel(q)' = WantLevel(q)
      /\ (Creates(q) <=> Creates(q)') /\ (Updates(q) <=> Updates(q)')
  BY <1>1, ClearedStays, PairsStable, TaskStable
<1> QED
  BY <1>2 DEF GrantInv

\* While a resource holds deleteMutex, a principal that state names is where the
\* log says, or gone, or its operation failed.
LEMMA NamePlace ==
  ASSUME WhoIsWho, deleteMutex \in Resources, NEW p \in Principals, NEW n \in Names,
         scn.start[p] = Upper[n]
  PROVE  \/ name[p] = CurrentName(log, PrincipalKind, n)
         \/ name[p] = Absent
         \/ outcome[p] = "failed"
<1>1. /\ TypeOK /\ NameInv(p) /\ ProgressInv(p) /\ PrincipalInv(p) /\ p \in Ops
      /\ Upper[n] \in Names /\ Plausible(scn)
  BY NamesAssumption DEF WhoIsWho, ApplyInv, Ops
<1>2. pc[p] \in {"start", "done"}
  BY <1>1, ApplyAssumption DEF PrincipalInv
<1>3. CASE Renamed(p) /\ outcome[p] = "ok"
  <2>1. Recorded(n) = scn.goal[p] /\ scn.goal[p] \in Names
    BY <1>3, LogOfStart
  <2> QED
    BY <1>1, <1>3, <2>1, LogReads, NamesAssumption DEF NameInv
<1>4. CASE ~(Renamed(p) /\ outcome[p] = "ok")
  <2>1. CurrentName(log, PrincipalKind, n) = scn.start[p] /\ scn.start[p] # Absent
    BY <1>1, <1>4, LogOfStart, LogReads, ApplyAssumption
  <2>2. CASE name[p] = scn.start[p]
    BY <2>1, <2>2
  <2>3. CASE name[p] # scn.start[p]
    <3>1. name[p] = scn.goal[p] /\ pc[p] = "done" /\ outcome[p] \in {"ok", "failed"}
      BY <1>1, <1>2, <2>3 DEF NameInv, ProgressInv, PrincipalInv, TypeOK
    <3> QED
      BY <1>4, <2>1, <2>3, <3>1 DEF Renamed
  <2> QED
    BY <2>2, <2>3
<1> QED
  BY <1>3, <1>4

\* So a resource's previous grant is found there, or there is none.
LEMMA HadPlace ==
  ASSUME PromiseInv, NEW q \in Resources, deleteMutex = q, NEW p \in HadPairs(q)
  PROVE  /\ p \in Roles \X Principals /\ Had(q) # NoGrant
         /\ \/ grants[p] = "none" \/ outcome[p[1]] = "failed" \/ outcome[p[2]] = "failed"
            \/ /\ name[p[1]] = CurrentName(log, PrincipalKind, Had(q).role)
               /\ name[p[2]] = CurrentName(log, PrincipalKind, Had(q).grantee)
<1>1. /\ p \in Roles \X Principals /\ p[1] \in Principals /\ p[2] \in Principals
      /\ Had(q) # NoGrant
      /\ scn.start[p[1]] = Upper[Had(q).role] /\ scn.start[p[2]] = Upper[Had(q).grantee]
  BY ApplyAssumption DEF HadPairs, Meant, Had
<1>2. Had(q).role \in Names /\ Had(q).grantee \in Names
  BY <1>1, ConfigTypes DEF PromiseInv, WhoIsWho, ApplyInv, Configs
<1>3. grants[p] # "none" => name[p[1]] # Absent /\ name[p[2]] # Absent
  BY <1>1 DEF PromiseInv, EndsExist
<1> QED
  BY <1>1, <1>2, <1>3, NamePlace DEF PromiseInv

\* The levels that the queries return, by identity.
LEMMA Levels ==
  ASSUME TypeOK, NEW role, NEW grantee
  PROVE  /\ GrantLevel(role, grantee) = "none"
              <=> \A p \in PairsNamed(role, grantee) : grants[p] = "none"
         /\ GrantLevel(role, grantee) \in {"none", "plain", "admin"}
BY DEF TypeOK, GrantLevel, PairsNamed

LEMMA WantedLevel ==
  ASSUME WhoIsWho, NEW q \in Resources, NEW p \in WantPairs(q),
         PairsNamed(WantRole(q), WantGrantee(q)) = WantPairs(q)
  PROVE  GrantLevel(WantRole(q), WantGrantee(q)) = grants[p]
<1>1. TypeOK /\ Plausible(scn) /\ Want(q) # NoGrant
  BY DEF WhoIsWho, ApplyInv, WantPairs, Meant
<1>2. WantRole(q) # Absent /\ WantGrantee(q) # Absent
  BY <1>1, ConfigTypes, ApplyAssumption
<1>3. ASSUME NEW x \in WantPairs(q) PROVE x = p
  <2>1. \A y \in {p, x} : /\ y \in Roles \X Principals /\ y[1] \in Principals /\ y[2] \in Principals
                          /\ scn.goal[y[1]] = WantRole(q) /\ scn.goal[y[2]] = WantGrantee(q)
    BY ApplyAssumption DEF WantPairs, Meant, WantRole, WantGrantee, Want
  <2>2. x[1] = p[1] /\ x[2] = p[2]
    BY <1>1, <1>2, <2>1, ScenarioNames
  <2> QED
    BY <2>1, <2>2
<1>4. grants[p] \in {"none", "plain", "admin"}
  BY <1>1 DEF WantPairs, Meant, TypeOK
<1> QED
  BY <1>3, <1>4 DEF GrantLevel

\* A previous grant that is not where the log says is gone.
LEMMA NotThere ==
  ASSUME PromiseInv, NEW q \in Resources, deleteMutex = q, Had(q) # NoGrant,
         NEW role, NEW grantee,
         role = CurrentName(log, PrincipalKind, Had(q).role),
         grantee = CurrentName(log, PrincipalKind, Had(q).grantee),
         GrantLevel(role, grantee) = "none"
  PROVE  Cleared(q)
<1>1. \A p \in PairsNamed(role, grantee) : grants[p] = "none"
  BY Levels DEF PromiseInv, WhoIsWho, ApplyInv
<1> QED
  BY <1>1, HadPlace DEF Cleared, PairsNamed

\* The same when an end of it is gone.
LEMMA EndGone ==
  ASSUME PromiseInv, NEW q \in Resources, deleteMutex = q, Updates(q),
         \/ ResolveEndpoint(Had(q).role, Want(q).role, RoleExists(Upper[Had(q).role])) = Absent
         \/ ResolveEndpoint(Had(q).grantee, Want(q).grantee,
                            PrincipalExists(Upper[Had(q).grantee])) = Absent
  PROVE  Cleared(q)
<1>1. TypeOK /\ Had(q).role \in Names /\ Had(q).grantee \in Names
  BY ConfigTypes DEF PromiseInv, WhoIsWho, ApplyInv, Configs
<1>2. Upper[Had(q).role] # Absent /\ Upper[Had(q).grantee] # Absent
      /\ Recorded(Had(q).role) # Absent /\ Recorded(Had(q).grantee) # Absent
  BY <1>1, RecordedTypes, ApplyAssumption
<1>3. ASSUME ResolveEndpoint(Had(q).role, Want(q).role, RoleExists(Upper[Had(q).role])) = Absent
      PROVE  \A o \in Roles : name[o] # CurrentName(log, PrincipalKind, Had(q).role)
  <2>1. Recorded(Had(q).role) = NoEntry /\ ~RoleExists(Upper[Had(q).role])
    BY <1>2, <1>3 DEF ResolveEndpoint
  <2> QED
    BY <1>1, <2>1, LogReads DEF RoleExists
<1>4. ASSUME ResolveEndpoint(Had(q).grantee, Want(q).grantee,
                             PrincipalExists(Upper[Had(q).grantee])) = Absent
      PROVE  \A o \in Principals : name[o] # CurrentName(log, PrincipalKind, Had(q).grantee)
  <2>1. Recorded(Had(q).grantee) = NoEntry /\ ~PrincipalExists(Upper[Had(q).grantee])
    BY <1>2, <1>4 DEF ResolveEndpoint
  <2> QED
    BY <1>1, <2>1, LogReads DEF PrincipalExists
<1> QED
  BY <1>3, <1>4, HadPlace DEF Cleared

\* When an Update finds that its grant does not move, it had the grant it wants.
LEMMA Unmoved ==
  ASSUME WhoIsWho, NEW q \in Resources, Updates(q), Ready(q), ~Moves(q)
  PROVE  HadPairs(q) \subseteq WantPairs(q)
<1>1. /\ TypeOK /\ Plausible(scn) /\ NoReuseOfDropped(scn) /\ Had(q) # NoGrant /\ Want(q) # NoGrant
      /\ Had(q).role \in Names /\ Had(q).grantee \in Names
      /\ Want(q).role = Had(q).role /\ Want(q).grantee = Had(q).grantee
  BY ConfigTypes, ApplyAssumption DEF WhoIsWho, ApplyInv, Moves, Updates, Configs
<1>2. ASSUME NEW n \in {Had(q).role, Had(q).grantee}, NEW p \in Principals, scn.start[p] = Upper[n]
      PROVE  scn.goal[p] = Upper[n]
  <2>1. n \in Names /\ Upper[n] \in Names /\ Upper[n] # Absent /\ Recorded(n) \in {NoEntry, Upper[n]}
        /\ Upper[n] \in {Upper[Want(q).role], Upper[Want(q).grantee]}
    BY <1>1, NamesAssumption, ApplyAssumption DEF Moves, RenamedAway
  <2>2. PICK o \in Principals : scn.goal[o] = Upper[n]
    BY <1>1, <1>2, <2>1 DEF Plausible, Want
  <2> SUFFICES ASSUME o # p PROVE FALSE
    BY <2>2
  <2>3. scn.start[o] # Upper[n] /\ scn.goal[p] # Upper[n]
    BY <1>1, <1>2, <2>1, <2>2, ScenarioNames
  <2>4. o \in DependsOn(q)
    BY <1>1, <2>1, <2>2, <2>3 DEF DependsOn, Born, Renamed
  <2>5. outcome[o] = "ok" /\ name[o] = Upper[n]
    BY <2>2, <2>4 DEF Ready, WhoIsWho, NameInv
  <2>6. Renamed(p) /\ outcome[p] = "ok"
    BY <1>2, <2>1, <2>5, GivenUp
  <2>7. Recorded(n) = scn.goal[p] /\ scn.goal[p] \in Names
    BY <1>2, <2>1, <2>6, LogOfStart
  <2> QED
    BY <2>1, <2>3, <2>7, NamesAssumption
<1>3. \A p \in HadPairs(q) : /\ p \in Roles \X Principals /\ p[1] \in Principals /\ p[2] \in Principals
                             /\ scn.start[p[1]] = Upper[Had(q).role]
                             /\ scn.start[p[2]] = Upper[Had(q).grantee]
  BY ApplyAssumption DEF HadPairs, Meant, Had
<1> QED
  BY <1>1, <1>2, <1>3 DEF WantPairs, Meant, Want

\* Where a resource's operation can be past its locks, with what it holds then.
LEMMA AtWork ==
  ASSUME WhoIsWho, NEW q \in Resources, Busy(q)
  PROVE  /\ TypeOK /\ ApplyInv /\ q \in Ops /\ outcome[q] = "pending" /\ Ready(q)
         /\ Creates(q) \/ Updates(q) \/ Deletes(q)
         /\ Updates(q) \/ Deletes(q) => deleteMutex = q /\ Had(q) # NoGrant
         /\ Creates(q) \/ Updates(q) => Want(q) # NoGrant
         /\ Deletes(q) => WantPairs(q) = {}
         /\ Creates(q) => HadPairs(q) = {} /\ Cleared(q)
<1>1. q \in Ops /\ TypeOK /\ ApplyInv /\ ResourceInv(q) /\ ProgressInv(q)
  BY DEF WhoIsWho, ApplyInv, Ops
<1>2. /\ Creates(q) \/ Updates(q) \/ Deletes(q)
      /\ Updates(q) \/ Deletes(q) => deleteMutex = q
  BY <1>1 DEF ResourceInv
<1>3. HasWork(q) /\ pc[q] \notin {"start", "done"}
  BY <1>2 DEF HasWork, Busy
<1> QED
  BY <1>1, <1>2, <1>3 DEF ProgressInv, TypeOK, Creates, Updates, Deletes, WantPairs, HadPairs, Meant, Cleared, Want, Had

\* The promise after a step of its own, by where it leads.
LEMMA PromiseAfter ==
  ASSUME PromiseInv, NEW q \in Resources, AnyStep,
         \/ pc'[q] \notin {"readNew", "revokeNew", "revokeAdmin", "grant", "resolveGrantee", "done"}
            /\ outcome'[q] # "ok" /\ ~Creates(q)
         \/ pc'[q] = "done" /\ outcome'[q] # "ok"
         \/ pc'[q] \in {"readNew", "revokeNew", "revokeAdmin"} /\ outcome'[q] # "ok" /\ Cleared(q)'
            /\ ~Creates(q)
         \/ pc'[q] = "resolveGrantee" /\ outcome'[q] # "ok" /\ (cur'[q].role = Absent => Cleared(q)')
            /\ ~Creates(q)
         \/ outcome'[q] # "ok" /\ Cleared(q)' /\ \A p \in WantPairs(q) : grants'[p] = "none"
         \/ pc'[q] = "done" /\ outcome'[q] = "ok" /\ Cleared(q)'
            /\ \A p \in WantPairs(q) : grants'[p] = WantLevel(q)
  PROVE  GrantInv(q)'
<1>1. scn' = scn
  BY AnyMoves DEF PromiseInv
<1>2. /\ WantPairs(q)' = WantPairs(q) /\ WantLevel(q)' = WantLevel(q)
      /\ (Creates(q) <=> Creates(q)') /\ (Updates(q) <=> Updates(q)')
  BY <1>1, PairsStable, TaskStable
<1> QED
  BY <1>2 DEF GrantInv

\* Up to the choice of the branch.
LEMMA EarlyPromise ==
  ASSUME PromiseInv, NEW q \in Resources, ResourceStep(q),
         \/ StartCreate(q) \/ StartUpdate(q) \/ StartDelete(q) \/ LockGrantee(q) \/ Locked(q)
  PROVE  GrantInv(q)'
<1>0. /\ q \in Ops /\ TypeOK /\ WhoIsWho /\ ApplyInv /\ AnyStep /\ GrantInv(q) /\ ResourceInv(q)
      /\ ProgressInv(q)
  BY DEF PromiseInv, WhoIsWho, ApplyInv, Ops, AnyStep
<1>1. ~(Creates(q) /\ Updates(q)) /\ ~(Creates(q) /\ Deletes(q)) /\ ~(Updates(q) /\ Deletes(q))
  BY DEF Creates, Updates, Deletes
<1>2. Creates(q) => HadPairs(q) = {} /\ Cleared(q)'
  <2>1. Creates(q) => HadPairs(q) = {} /\ Cleared(q)
    BY DEF Creates, HadPairs, Meant, Cleared
  <2> QED
    BY <1>0, <2>1, ClearedStays
<1>3. grants' = grants /\ outcome[q] = "pending"
  BY <1>0 DEF StartCreate, StartUpdate, StartDelete, LockGrantee, Locked, dbVars, ProgressInv
<1>4. ASSUME StartCreate(q) \/ StartUpdate(q) \/ StartDelete(q) \/ LockGrantee(q)
      PROVE  GrantInv(q)'
  <2>1. pc'[q] = "lock" /\ outcome' = outcome /\ pc[q] # "done"
    BY <1>0, <1>4 DEF StartCreate, StartUpdate, StartDelete, LockGrantee, Goto, TypeOK
  <2>2. Creates(q) => \A p \in WantPairs(q) : grants[p] = "none"
    BY <1>0, <2>1 DEF GrantInv
  <2> QED
    BY <1>0, <1>2, <1>3, <2>1, <2>2, PromiseAfter
<1>5. ASSUME Locked(q) PROVE GrantInv(q)'
  <2>1. /\ pc[q] = "lock" /\ Busy(q) /\ Continue(q, FirstStep(q))
        /\ FirstStep(q) \in (Steps \ {"start", "done"}) \cup {"return"}
    BY <1>5 DEF Locked, Busy, FirstStep, Steps
  <2>2. \/ FirstStep(q) = "return" /\ pc'[q] = "done" /\ outcome'[q] = "ok"
        \/ FirstStep(q) # "return" /\ pc'[q] = FirstStep(q) /\ outcome'[q] = outcome[q]
    BY <1>0, <2>1, ContinueMoves
  <2>3. CASE Creates(q)
    BY <1>0, <1>2, <1>3, <2>1, <2>2, <2>3, PromiseAfter DEF FirstStep, GrantInv
  <2>4. CASE Deletes(q)
    <3>1. FirstStep(q) = "readOld" /\ ~Creates(q)
      BY <1>1, <2>4 DEF FirstStep
    <3> QED
      BY <1>0, <1>3, <2>2, <3>1, PromiseAfter
  <2>5. CASE Updates(q) /\ Moves(q)
    <3>1. FirstStep(q) = "requireRole" /\ ~Creates(q)
      BY <1>1, <2>5 DEF FirstStep
    <3> QED
      BY <1>0, <1>3, <2>2, <3>1, PromiseAfter
  <2>6. CASE Updates(q) /\ ~Moves(q)
    <3>1. Want(q).admin # Had(q).admin
      <4>1. Had(q) \in Configs /\ Want(q) \in Configs /\ Had(q) # Want(q)
            /\ Want(q).role = Had(q).role /\ Want(q).grantee = Had(q).grantee
        BY <1>0, <2>6, ConfigTypes DEF Updates, Moves
      <4> QED
        BY <4>1 DEF Configs
    <3>2. FirstStep(q) = "revokeAdmin" /\ ~Creates(q)
      BY <1>1, <2>6, <3>1 DEF FirstStep
    <3>3. Cleared(q)
      BY <1>0, <2>1, <2>6, AtWork, Unmoved DEF Cleared
    <3> QED
      BY <1>0, <1>3, <2>2, <3>2, <3>3, ClearedStays, PromiseAfter
  <2> QED
    BY <1>0, <2>1, <2>3, <2>4, <2>5, <2>6, AtWork
<1> QED
  BY <1>4, <1>5

\* While a move is prepared and the old grant is looked for.
LEMMA MovePromise ==
  ASSUME PromiseInv, NEW q \in Resources, ResourceStep(q),
         \/ RequireRole(q) \/ RequireGrantee(q) \/ ResolveRole(q) \/ ResolveGrantee(q)
         \/ ReadOld(q) \/ QueryFails(q)
  PROVE  GrantInv(q)'
<1>0. /\ q \in Ops /\ TypeOK /\ WhoIsWho /\ ApplyInv /\ AnyStep /\ GrantInv(q) /\ ResourceInv(q)
      /\ FoundInv(q)
  BY DEF PromiseInv, WhoIsWho, ApplyInv, Ops, AnyStep
<1>1. ~(Creates(q) /\ Updates(q)) /\ ~(Creates(q) /\ Deletes(q)) /\ ~(Updates(q) /\ Deletes(q))
  BY DEF Creates, Updates, Deletes
<1>2. ASSUME RequireRole(q) \/ RequireGrantee(q) PROVE GrantInv(q)'
  <2>1. Busy(q) /\ ~Creates(q) /\ outcome[q] = "pending"
    BY <1>0, <1>1, <1>2, AtWork, PastLocks DEF RequireRole, RequireGrantee, Busy
  <2>2. {"requireGrantee", "resolveRole"} \subseteq (Steps \ {"start", "done"}) \cup {"return"}
    BY DEF Steps
  <2>3. \/ pc'[q] \in {"requireGrantee", "resolveRole"} /\ outcome'[q] = outcome[q]
        \/ pc'[q] = "done" /\ outcome'[q] = "failed"
    BY <1>0, <1>2, <2>2, ContinueMoves, ReturnMoves DEF RequireRole, RequireGrantee
  <2> QED
    BY <1>0, <2>1, <2>3, PromiseAfter
<1>3. ASSUME ResolveRole(q) PROVE GrantInv(q)'
  <2>1. /\ Busy(q) /\ Updates(q) /\ ~Creates(q) /\ outcome[q] = "pending" /\ deleteMutex = q
        /\ pc'[q] = "resolveGrantee" /\ outcome' = outcome
    BY <1>0, <1>1, <1>3, AtWork, PastLocks, NextSteps DEF ResolveRole, Busy
  <2>2. cur'[q].role = ResolveEndpoint(Had(q).role, Want(q).role, RoleExists(Upper[Had(q).role]))
    BY <1>0, <1>3 DEF ResolveRole, TypeOK
  <2>3. cur'[q].role = Absent => Cleared(q)
    BY <2>1, <2>2, EndGone
  <2> QED
    BY <1>0, <2>1, <2>3, ClearedStays, PromiseAfter
<1>4. ASSUME ResolveGrantee(q) PROVE GrantInv(q)'
  <2> DEFINE grantee == ResolveEndpoint(Had(q).grantee, Want(q).grantee,
                                        PrincipalExists(Upper[Had(q).grantee]))
  <2>1. /\ Busy(q) /\ Updates(q) /\ ~Creates(q) /\ outcome[q] = "pending" /\ deleteMutex = q
        /\ Ready(q) /\ Had(q) # NoGrant /\ Want(q) # NoGrant
        /\ pc[q] = "resolveGrantee" /\ pc'[q] \in {"readOld", "readNew"} /\ outcome' = outcome
    BY <1>0, <1>1, <1>4, AtWork, PastLocks, NextSteps DEF ResolveGrantee, Busy
  <2>2. pc'[q] = "readNew" =>
          \/ cur[q].role = Absent \/ grantee = Absent
          \/ cur[q].role = WantRole(q) /\ grantee = WantGrantee(q)
    BY <1>0, <1>4, <2>1 DEF ResolveGrantee, Goto, TypeOK
  <2>3. /\ cur[q].role \in {Absent, CurrentName(log, PrincipalKind, Had(q).role)}
        /\ grantee \in {Absent, CurrentName(log, PrincipalKind, Had(q).grantee)}
    BY <1>0, <2>1, Resolved, ConfigTypes DEF FoundInv, Configs
  <2>4. cur[q].role = Absent => Cleared(q)
    BY <1>0, <2>1 DEF GrantInv
  <2>5. grantee = Absent => Cleared(q)
    BY <2>1, EndGone
  <2> HIDE DEF grantee
  <2>6. ASSUME cur[q].role # Absent, grantee # Absent,
               cur[q].role = WantRole(q), grantee = WantGrantee(q)
        PROVE  Cleared(q)
    <3>1. /\ CurrentName(log, PrincipalKind, Had(q).role) = WantRole(q)
          /\ CurrentName(log, PrincipalKind, Had(q).grantee) = WantGrantee(q)
      BY <2>3, <2>6
    <3>2. PairsNamed(WantRole(q), WantGrantee(q)) = WantPairs(q)
      BY <1>0, <2>1, WantedPairs
    <3> QED
      BY <2>1, <3>1, <3>2, HadPlace DEF Cleared, PairsNamed
  <2>7. pc'[q] = "readNew" => Cleared(q)
    BY <2>2, <2>4, <2>5, <2>6
  <2> QED
    BY <1>0, <2>1, <2>7, ClearedStays, PromiseAfter
<1>5. ASSUME ReadOld(q) PROVE GrantInv(q)'
  <2>1. /\ Busy(q) /\ (Updates(q) \/ Deletes(q)) /\ outcome[q] = "pending" /\ deleteMutex = q
        /\ Had(q) # NoGrant /\ pc[q] = "readOld"
    BY <1>0, <1>5, AtWork, PastLocks DEF ReadOld, Busy
  <2>2. /\ cur[q].role = CurrentName(log, PrincipalKind, Had(q).role)
        /\ cur[q].grantee = CurrentName(log, PrincipalKind, Had(q).grantee)
    BY <1>0, <2>1 DEF FoundInv
  <2>3. GrantLevel(cur[q].role, cur[q].grantee) = "none" => Cleared(q)
    BY <2>1, <2>2, NotThere
  <2>4. /\ {"revokeOld", "readNew", "return"} \subseteq (Steps \ {"start", "done"}) \cup {"return"}
        /\ AfterOld(q) = IF Deletes(q) THEN "return" ELSE "readNew"
    BY DEF AfterOld, Steps
  <2>5. \/ pc'[q] = "revokeOld" /\ outcome'[q] = outcome[q]
        \/ Cleared(q) /\ Deletes(q) /\ pc'[q] = "done" /\ outcome'[q] = "ok"
        \/ Cleared(q) /\ ~Deletes(q) /\ pc'[q] = "readNew" /\ outcome'[q] = outcome[q]
    BY <1>0, <1>5, <2>3, <2>4, ContinueMoves DEF ReadOld
  <2>6. Deletes(q) => WantPairs(q) = {}
    BY <1>0, <2>1, AtWork
  <2> QED
    BY <1>0, <1>1, <2>1, <2>5, <2>6, ClearedStays, PromiseAfter
<1>6. ASSUME QueryFails(q) PROVE GrantInv(q)'
  BY <1>0, <1>6, NextSteps, PromiseAfter
<1> QED
  BY <1>2, <1>3, <1>4, <1>5, <1>6

\* From the lookup of the new grant to its GRANT.
LEMMA LatePromise ==
  ASSUME PromiseInv, NEW q \in Resources, ResourceStep(q),
         RevokeOld(q) \/ ReadNew(q) \/ RevokeNew(q) \/ Grant(q)
  PROVE  GrantInv(q)'
<1>0. /\ q \in Ops /\ TypeOK /\ WhoIsWho /\ ApplyInv /\ AnyStep /\ GrantInv(q) /\ ResourceInv(q)
      /\ FoundInv(q) /\ Busy(q) /\ scn' = scn
  BY AnyMoves DEF PromiseInv, WhoIsWho, ApplyInv, Ops, AnyStep, RevokeOld, ReadNew, RevokeNew, Grant, Busy
<1>1. ~(Creates(q) /\ Updates(q)) /\ ~(Creates(q) /\ Deletes(q)) /\ ~(Updates(q) /\ Deletes(q))
  BY DEF Creates, Updates, Deletes
<1>2. outcome[q] = "pending" /\ Ready(q) /\ (Creates(q) \/ Updates(q) \/ Deletes(q))
  BY <1>0, AtWork
<1>3. /\ {"revokeNew", "readNew", "grant", "return"} \subseteq (Steps \ {"start", "done"}) \cup {"return"}
      /\ AfterOld(q) = IF Deletes(q) THEN "return" ELSE "readNew"
  BY DEF AfterOld, Steps
<1>4. ASSUME RevokeOld(q) PROVE GrantInv(q)'
  <2>1. /\ (Updates(q) \/ Deletes(q)) /\ deleteMutex = q /\ Had(q) # NoGrant /\ pc[q] = "revokeOld"
    BY <1>0, <1>4, AtWork, PastLocks DEF RevokeOld
  <2>2. /\ cur[q].role = CurrentName(log, PrincipalKind, Had(q).role)
        /\ cur[q].grantee = CurrentName(log, PrincipalKind, Had(q).grantee)
    BY <1>0, <2>1 DEF FoundInv
  <2>3. \/ pc'[q] = "done" /\ outcome'[q] = "failed"
        \/ /\ grants' = AfterRevoke(cur[q].role, cur[q].grantee)
           /\ \/ Deletes(q) /\ pc'[q] = "done" /\ outcome'[q] = "ok"
              \/ ~Deletes(q) /\ pc'[q] = "readNew" /\ outcome'[q] = outcome[q]
    BY <1>0, <1>3, <1>4, ExecuteMoves DEF RevokeOld, Revoke
  <2>4. ASSUME grants' = AfterRevoke(cur[q].role, cur[q].grantee) PROVE Cleared(q)'
    <3>1. \A p \in HadPairs(q) : /\ p \in Roles \X Principals
                                 /\ p[1] \in Principals /\ p[2] \in Principals
      BY ApplyAssumption DEF HadPairs, Meant
    <3>2. ASSUME NEW p \in HadPairs(q)
          PROVE  \/ grants'[p] = "none" \/ outcome'[p[1]] = "failed" \/ outcome'[p[2]] = "failed"
      <4>1. CASE outcome[p[1]] = "failed" \/ outcome[p[2]] = "failed"
        BY <1>0, <3>1, <4>1, AnyMoves DEF Ops
      <4>2. CASE grants[p] = "none" \/ p \in PairsNamed(cur[q].role, cur[q].grantee)
        BY <2>4, <3>1, <4>2 DEF AfterRevoke
      <4> QED
        BY <2>1, <2>2, <3>1, <4>1, <4>2, HadPlace DEF PairsNamed
    <3> QED
      BY <1>0, <3>2, PairsStable DEF Cleared
  <2>5. Deletes(q) => WantPairs(q) = {}
    BY <1>0, AtWork
  <2> QED
    BY <1>0, <1>1, <1>2, <2>1, <2>3, <2>4, <2>5, PromiseAfter
<1>5. ASSUME pc[q] \in {"readNew", "revokeNew", "revokeAdmin", "grant"}
      PROVE  /\ PairsNamed(WantRole(q), WantGrantee(q)) = WantPairs(q)
             /\ Cleared(q)' /\ (Creates(q) => pc[q] = "grant") /\ ~Deletes(q) /\ Want(q) \in Configs
  <2>1. (Creates(q) => pc[q] = "grant") /\ ~Deletes(q) /\ Want(q) \in Configs
    BY <1>0, <1>2, <1>5, PastLocks, ConfigTypes
  <2>2. Cleared(q)
    BY <1>0, <1>2, <1>5, <2>1, AtWork DEF GrantInv
  <2> QED
    BY <1>0, <1>2, <2>1, <2>2, ClearedStays, WantedPairs, ApplyAssumption
<1>6. ASSUME ReadNew(q) PROVE GrantInv(q)'
  <2> DEFINE level == GrantLevel(WantRole(q), WantGrantee(q))
  <2>1. pc[q] = "readNew" /\ grants' = grants
    BY <1>6 DEF ReadNew, dbVars
  <2>2. \/ level = "none" /\ pc'[q] = "grant" /\ outcome'[q] = outcome[q]
        \/ level = WantLevel(q) /\ pc'[q] = "done" /\ outcome'[q] = "ok"
        \/ pc'[q] = "revokeNew" /\ outcome'[q] = outcome[q]
    BY <1>0, <1>3, <1>6, ContinueMoves DEF ReadNew
  <2>3. \A p \in WantPairs(q) : grants[p] = level
    BY <1>0, <1>5, <2>1, WantedLevel
  <2> HIDE DEF level
  <2> QED
    BY <1>0, <1>2, <1>5, <2>1, <2>2, <2>3, PromiseAfter
<1>7. ASSUME RevokeNew(q) PROVE GrantInv(q)'
  <2>1. pc[q] \in {"revokeNew", "revokeAdmin"}
    BY <1>7 DEF RevokeNew
  <2>2. \/ pc'[q] = "done" /\ outcome'[q] = "failed"
        \/ /\ grants' = AfterRevoke(WantRole(q), WantGrantee(q))
           /\ pc'[q] = "grant" /\ outcome'[q] = outcome[q]
    BY <1>0, <1>3, <1>7, ExecuteMoves DEF RevokeNew, Revoke
  <2>3. grants' = AfterRevoke(WantRole(q), WantGrantee(q)) => \A p \in WantPairs(q) : grants'[p] = "none"
    BY <1>5, <2>1 DEF AfterRevoke, PairsNamed
  <2> QED
    BY <1>0, <1>2, <1>5, <2>1, <2>2, <2>3, PromiseAfter
<1>8. ASSUME Grant(q) PROVE GrantInv(q)'
  <2>1. pc[q] = "grant" /\ \A p \in WantPairs(q) : grants[p] = "none"
    BY <1>0, <1>8 DEF Grant, GrantInv
  <2>2. \/ pc'[q] = "done" /\ outcome'[q] = "failed"
        \/ /\ grants' = AfterGrant(WantRole(q), WantGrantee(q), Want(q).admin)
           /\ pc'[q] = "done" /\ outcome'[q] = "ok"
    BY <1>0, <1>3, <1>8, ExecuteMoves DEF Grant
  <2>3. grants' = AfterGrant(WantRole(q), WantGrantee(q), Want(q).admin)
          => \A p \in WantPairs(q) : grants'[p] = WantLevel(q)
    BY <1>5, <2>1 DEF AfterGrant, PairsNamed, WantLevel
  <2> QED
    BY <1>0, <1>5, <2>1, <2>2, <2>3, PromiseAfter
<1> QED
  BY <1>4, <1>6, <1>7, <1>8

\* A step leaves no grant of a principal that is gone.
LEMMA EndsStay ==
  ASSUME PromiseInv, AnyStep
  PROVE  EndsExist'
<1> SUFFICES ASSUME NEW p \in Roles \X Principals, grants'[p] # "none"
             PROVE  name'[p[1]] # Absent /\ name'[p[2]] # Absent
  BY DEF EndsExist
<1>1. ASSUME NEW q \in Resources, ResourceStep(q)
      PROVE  name'[p[1]] # Absent /\ name'[p[2]] # Absent
  <2>1. name' = name
    BY <1>1, ResourceMoves DEF PromiseInv, WhoIsWho
  <2>2. CASE grants[p] # "none"
    BY <2>1, <2>2 DEF PromiseInv, EndsExist
  <2>3. CASE grants[p] = "none"
    <3>1. /\ pc[q] = "grant" /\ grants' = AfterGrant(WantRole(q), WantGrantee(q), Want(q).admin)
      BY <1>1, <2>3, OwnGrants DEF PromiseInv, AfterRevoke
    <3>2. p \in PairsNamed(WantRole(q), WantGrantee(q))
      BY <2>3, <3>1 DEF AfterGrant
    <3>3. WantRole(q) # Absent /\ WantGrantee(q) # Absent
      BY <3>1, PastLocks, ConfigTypes, ApplyAssumption DEF PromiseInv, WhoIsWho, ApplyInv
    <3> QED
      BY <2>1, <3>2, <3>3 DEF PairsNamed
  <2> QED
    BY <2>2, <2>3
<1>2. ASSUME NEW o \in Principals, PrincipalStep(o)
      PROVE  name'[p[1]] # Absent /\ name'[p[2]] # Absent
  <2>1. grants'[p] = grants[p] /\ \A i \in {1, 2} : name[p[i]] = Absent \/ name'[p[i]] # Absent
    BY <1>2, PrincipalGrants DEF PromiseInv, WhoIsWho
  <2> QED
    BY <2>1 DEF PromiseInv, EndsExist
<1>3. ASSUME NEW op \in Ops, Skip(op)
      PROVE  name'[p[1]] # Absent /\ name'[p[2]] # Absent
  BY <1>3 DEF Skip, dbVars, PromiseInv, EndsExist
<1> QED
  BY <1>1, <1>2, <1>3 DEF AnyStep

LEMMA PromiseStep ==
  ASSUME PromiseInv, AnyStep
  PROVE  PromiseInv'
<1>0. WhoIsWho /\ ApplyInv /\ scn' = scn /\ TypeOK
  BY AnyMoves DEF PromiseInv, WhoIsWho, ApplyInv
<1>1. WhoIsWho'
  BY <1>0, WhoIsWhoResource, WhoIsWhoPrincipal, WhoIsWhoSkip DEF AnyStep
<1>2. NoHandOver(scn)' /\ NoHiddenMove(scn)'
  BY <1>0 DEF PromiseInv, NoHandOver, NoHiddenMove
<1>3. EndsExist'
  BY EndsStay
<1>4. ASSUME NEW q \in Resources PROVE GrantInv(q)'
  <2>0. GrantInv(q) /\ q \in Ops
    BY DEF PromiseInv, Ops
  <2>1. ASSUME ResourceStep(q) PROVE GrantInv(q)'
    BY <2>1, EarlyPromise, MovePromise, LatePromise DEF ResourceStep
  <2>2. ASSUME NEW r \in Resources \ {q}, ResourceStep(r) PROVE GrantInv(q)'
    <3>1. Kept(r) /\ Advances(r)
      BY <1>0, <2>2, StartStep, LockStep, LockedStep, RequireStep, ResolveStep, ReadStep,
         StatementStep, QueryFailsStep, ResourceMoves DEF ResourceStep
    <3>2. pc'[q] = pc[q] /\ outcome'[q] = outcome[q] /\ cur'[q] = cur[q]
      BY <2>0, <2>2, <3>1 DEF Kept, Frame, Advances
    <3>3. \A p \in WantPairs(q) : grants'[p] = grants[p]
      BY <2>2, WantUntouched
    <3> QED
      BY <2>0, <3>2, <3>3, GrantStays
  <2>3. ASSUME NEW o \in Principals, PrincipalStep(o) PROVE GrantInv(q)'
    <3>1. Advances(o) /\ cur' = cur /\ q # o
      BY <1>0, <2>3, PrincipalMoves, ApplyAssumption
    <3>2. \A p \in WantPairs(q) : grants'[p] = grants[p]
      BY <2>3, WantUntouched
    <3> QED
      BY <2>0, <3>1, <3>2, GrantStays DEF Advances
  <2>4. ASSUME NEW op \in Ops, Skip(op) PROVE GrantInv(q)'
    <3>1. /\ Advances(op) /\ cur' = cur /\ grants' = grants
          /\ pc'[op] = "done" /\ outcome'[op] = "skipped"
      BY <1>0, <2>4, SkipMoves
    <3>2. CASE op = q
      BY <3>1, <3>2, PromiseAfter
    <3>3. CASE op # q
      BY <2>0, <3>1, <3>3, GrantStays DEF Advances
    <3> QED
      BY <3>2, <3>3
  <2> QED
    BY <2>1, <2>2, <2>3, <2>4 DEF AnyStep
<1> QED
  BY <1>1, <1>2, <1>3, <1>4 DEF PromiseInv

LEMMA PromiseStutter ==
  ASSUME PromiseInv, UNCHANGED vars
  PROVE  PromiseInv'
<1>1. UNCHANGED <<scn, name, grants, pc, cur, outcome>>
  BY DEF vars, dbVars
<1>2. /\ WhoIsWho' /\ NoHandOver(scn)' /\ NoHiddenMove(scn)' /\ EndsExist'
  BY <1>1, WhoIsWhoStutter DEF PromiseInv, NoHandOver, NoHiddenMove, EndsExist
<1>3. ASSUME NEW q \in Resources PROVE GrantInv(q)'
  <2>1. /\ \A r \in Resources : HadPairs(r)' = HadPairs(r) /\ WantPairs(r)' = WantPairs(r)
        /\ WantLevel(q)' = WantLevel(q)
        /\ (Creates(q) <=> Creates(q)') /\ (Updates(q) <=> Updates(q)')
    BY <1>1, PairsStable, TaskStable
  <2>2. Cleared(q)' <=> Cleared(q)
    BY <1>1, <2>1 DEF Cleared
  <2> QED
    BY <1>1, <2>1, <2>2 DEF PromiseInv, GrantInv
<1> QED
  BY <1>2, <1>3 DEF PromiseInv

LEMMA PromiseInit ==
  ASSUME Init, Promising(scn)
  PROVE  PromiseInv
<1>1. WhoIsWho /\ TypeOK /\ NoHandOver(scn) /\ NoHiddenMove(scn)
  BY WhoIsWhoInit, ApplyInit DEF Promising, ApplyInv
<1>2. \A p \in Roles \X Principals :
        /\ grants[p] # "none" => \E q \in Resources : p \in HadPairs(q)
        /\ grants[p] = IF \E q \in Resources : p \in HadPairs(q) /\ Had(q).admin THEN "admin"
                       ELSE IF \E q \in Resources : p \in HadPairs(q) THEN "plain" ELSE "none"
  BY DEF Init
<1>3. EndsExist
  <2>1. ASSUME NEW p \in Roles \X Principals, NEW q \in Resources, p \in HadPairs(q)
        PROVE  name[p[1]] # Absent /\ name[p[2]] # Absent
    <3>1. Had(q) \in Configs /\ name[p[1]] = Upper[Had(q).role] /\ name[p[2]] = Upper[Had(q).grantee]
      BY <1>1, <2>1, ConfigTypes DEF HadPairs, Meant, Init, Had
    <3> QED
      BY <3>1, NamesAssumption, ApplyAssumption DEF Configs
  <2> QED
    BY <1>2, <2>1 DEF EndsExist
<1>4. ASSUME NEW q \in Resources PROVE GrantInv(q)
  <2>1. /\ q \in Ops
        /\ pc[q] = IF HasWork(q) THEN "start" ELSE "done"
        /\ outcome[q] = IF HasWork(q) THEN "pending" ELSE "ok"
        /\ HasWork(q) <=> Creates(q) \/ Updates(q) \/ Deletes(q)
    BY ApplyAssumption DEF Init, Ops, HasWork
  <2>2. \A r \in Resources \ {q} : WantPairs(q) \cap HadPairs(r) = {}
    BY <1>1 DEF NoHandOver, WantPairs, HadPairs, Want, Had
  <2>3. ASSUME Creates(q), NEW p \in WantPairs(q) PROVE grants[p] = "none"
    <3>1. HadPairs(q) = {} /\ p \in Roles \X Principals
      BY <2>3 DEF Creates, HadPairs, WantPairs, Meant
    <3> QED
      BY <1>2, <2>2, <3>1
  <2>4. ASSUME ~HasWork(q)
        PROVE  Cleared(q) /\ \A p \in WantPairs(q) : grants[p] = WantLevel(q)
    <3>1. Had(q) = Want(q) /\ HadPairs(q) = WantPairs(q)
      BY <1>1, <2>1, <2>4 DEF Creates, Updates, Deletes, NoHiddenMove, HadPairs, WantPairs, Want, Had
    <3>2. Cleared(q)
      BY <3>1 DEF Cleared
    <3>3. \A p \in WantPairs(q) : grants[p] = WantLevel(q)
      <4>1. \A p \in WantPairs(q) : p \in Roles \X Principals
        BY DEF WantPairs, Meant
      <4> QED
        BY <1>2, <2>2, <3>1, <4>1 DEF WantLevel
    <3> QED
      BY <3>2, <3>3
  <2> QED
    BY <2>1, <2>3, <2>4 DEF GrantInv
<1> QED
  BY <1>1, <1>3, <1>4 DEF PromiseInv

\* What the two promises rest on: while the apply runs, every finished resource has
\* its grant and has cleared its previous one, and every unfinished one can still
\* reach that from where it is.
THEOREM Promises == Spec /\ Promising(scn) => []PromiseInv
<1>1. PromiseInv /\ [Next]_vars => PromiseInv'
  BY PromiseStep, PromiseStutter DEF AnyStep, Next, Terminating
<1>2. Init /\ Promising(scn) => PromiseInv
  BY PromiseInit
<1> QED
  BY <1>1, <1>2, PTL DEF Spec

\* After an apply without errors every resource holds its grant with the admin option
\* it asks for, whatever was renamed, created and dropped next to it.
THEOREM WantedHeld == Spec /\ Promising(scn) => []HoldsWanted
<1>1. PromiseInv => HoldsWanted
  BY DEF PromiseInv, GrantInv, HoldsWanted, AllOk, Ops
<1> QED
  BY <1>1, Promises, PTL

\* And no grant that was moved or deleted is left, under any name.
THEOREM NothingLeftOver == Spec /\ Promising(scn) => []NoLeftover
<1>1. ASSUME PromiseInv, AllOk, NEW q \in Resources, NEW p \in HadPairs(q), grants[p] # "none"
      PROVE  \E r \in Resources : p \in WantPairs(r)
  <2>1. Cleared(q)
    BY <1>1 DEF PromiseInv, GrantInv, AllOk, Ops
  <2>2. p[1] \in Ops /\ p[2] \in Ops
    BY ApplyAssumption DEF HadPairs, Meant, Ops
  <2> QED
    BY <1>1, <2>1, <2>2 DEF Cleared, AllOk
<1>2. PromiseInv => NoLeftover
  BY <1>1 DEF NoLeftover
<1> QED
  BY <1>2, Promises, PTL
=============================================================================
