------------------------ MODULE GrantLifecycleProofs ------------------------
(* TypeOK, SuccessMeansGranted, NoLeftover and AccessKept for any names, any set
   of failing and unclear steps and any number of faults, edits, renames and
   statements of other sessions.

   The argument follows one apply: where the grant that state records is by now,
   which of it and the configured one is held, and what the handler still has to
   revoke, at each of its steps. *)
EXTENDS GrantLifecycle, TLAPS

\* Where the grant of g is after the rename that this apply has run.
Place(g) == <<Now(g.thing), Now(g.grantee)>>

Moving == {"look", "revoke old", "look new", "revoke new", "restore"}

Between == {"idle", "finished"}

\* What each step of a handler was chosen for.
HandlerInv ==
  /\ pc \in Moving \cup {"check", "grant"} => config # NoConfig
  /\ pc \in Moving \cup {"look delete", "revoke"} => prior # NoState
  /\ pc \in {"look delete", "revoke"} => config = NoConfig
  /\ pc \in {"idle", "check"} => prior = NoState
  /\ pc \notin Between => state = prior /\ result = "none"
  /\ pc = "finished" /\ result # "ok" => state = prior
  /\ pc \in Between /\ result = "ok" => state = (IF config = NoConfig THEN NoState ELSE config)
  /\ config # NoConfig => config \in Configs
  /\ prior # NoState /\ ~HasAdmin => ~prior.admin
  /\ kind = "impersonation" => pc \notin {"look new", "revoke new"}
  /\ kind # "impersonation" => pc \notin {"check", "restore"}
  /\ pc \notin Between \cup {"planned"} /\ old # NoPair => prior # NoState /\ old = Place(prior)
  /\ pc = "revoke old" => old # New

\* The one rename of an apply, before and after it has run.
RenameInv ==
  /\ pc = "idle" => pending = NoRename /\ renamed = NoRename
  /\ pending = NoRename \/ renamed = NoRename
  /\ pending # NoRename => {pending.old, pending.new} \subseteq Objects
  /\ config # NoConfig /\ pending # NoRename => ~Names(New, pending.old)
  /\ config # NoConfig /\ renamed # NoRename => ~Names(New, renamed.old)
  /\ config # NoConfig /\ pending # NoRename /\ pc # "planned" => ~Names(New, pending.new)

\* A grant disappears with its endpoints.
EndsExist == \A p \in Pairs : held[p] # "none" => Exist(p)

\* What holds by this resource is the grant in state, wherever it is by now.
OwnInv ==
  ~split =>
    /\ own \subseteq (IF state = NoState THEN {} ELSE {Place(state)})
    /\ pc \in {"look new", "revoke new"} => own \subseteq {New}
    /\ pc \in {"check", "grant", "restore"} => own = {}

\* What is held while nobody else interferes.
HeldInv ==
  ~touched =>
    /\ pc \in {"planned", "look", "revoke old"} /\ prior # NoState => held[Place(prior)] # "none"
    /\ pc \in Between /\ result = "ok" /\ config # NoConfig => held[New] # "none"
    /\ pc = "revoke old" /\ newHeld => held[New] # "none"

\* No step failed; or one did where a handler takes its statements back.
Careful == mishap = "none" \/ (kind = "impersonation" /\ mishap = "failed")

\* What an Update must not have lost yet.
KeptInv ==
  ~touched /\ prior # NoState /\ config # NoConfig =>
    /\ pc \in {"revoke old", "look new", "revoke new", "grant"} => Exist(New)
    /\ pc = "revoke new" => held[New] # "none"
    /\ pc = "grant" /\ kind = "impersonation" => old = Place(prior) /\ old # NoPair
    /\ pc = "finished" /\ result = "failed" /\ Careful =>
         held[New] # "none" \/ held[Place(prior)] # "none"

LifeInv ==
  TypeOK /\ HandlerInv /\ RenameInv /\ EndsExist /\ OwnInv /\ HeldInv /\ KeptInv

-----------------------------------------------------------------------------
\* A rename has two names of things, or two of grantees; it changes a pair into one.
LEMMA RenameTypes ==
  ASSUME NEW r \in Renames
  PROVE  /\ r.old \in Things <=> r.new \in Things
         /\ r.old \in Grantees <=> r.new \in Grantees
         /\ r.old \in Things \cup Grantees
         /\ \A p \in Pairs : MovedBack(p, r) \in Pairs
<1>1. CASE r \in [old : Things, new : Things]
  BY <1>1, GrantAssumption DEF MovedBack, Pairs
<1>2. CASE r \in [old : Grantees, new : Grantees]
  BY <1>2, GrantAssumption DEF MovedBack, Pairs
<1> QED
  BY <1>1, <1>2 DEF Renames

\* What the log says is the same kind of name.
LEMMA NowTypes ==
  ASSUME TypeOK
  PROVE  /\ \A n \in Things : Now(n) \in Things
         /\ \A n \in Grantees : Now(n) \in Grantees
<1>1. renamed # NoRename => renamed \in Renames
  BY DEF TypeOK
<1> QED
  BY <1>1, RenameTypes DEF Now

\* The pairs of a grant, in state or configuration, and where the grant is by now.
LEMMA PairTypes ==
  ASSUME TypeOK
  PROVE  /\ \A g \in Grants : Pair(g) \in Pairs /\ Place(g) \in Pairs
         /\ config # NoConfig => config \in Grants /\ New \in Pairs
         /\ prior # NoState => prior \in Grants /\ Place(prior) \in Pairs
         /\ state # NoState => state \in Grants /\ Place(state) \in Pairs
         /\ \A g \in Grants : Level(g) \in {"plain", "admin"}
<1>1. \A g \in Grants : g.thing \in Things /\ g.grantee \in Grantees /\ g.admin \in BOOLEAN
  BY DEF Grants
<1>2. \A g \in Grants : Pair(g) \in Pairs /\ Place(g) \in Pairs
  BY <1>1, NowTypes DEF Pair, Place, Pairs
<1>3. \A g \in Grants : Level(g) \in {"plain", "admin"}
  BY DEF Level
<1> QED
  BY <1>2, <1>3 DEF TypeOK, New

LEMMA OldGrantTypes ==
  ASSUME TypeOK, prior # NoState
  PROVE  OldGrant \in Pairs \cup {NoPair}
<1>1. Place(prior) \in Pairs
  BY PairTypes
<1> QED
  BY <1>1 DEF OldGrant, Place

\* What statements and queries leave alone.
Quiet ==
  /\ UNCHANGED <<exists, fixed, log, prior>>
  /\ held' \in [Pairs -> {"none", "plain", "admin"}]
  /\ own' \subseteq {p \in Pairs : held'[p] # "none"}
  /\ mishap' \in {"none", "failed", "unclear"} /\ faults' \in 0..MaxFaults

\* The ways a statement may end: it runs, it is refused or fails without effect, or
\* it takes effect and its answer is lost.
Ran(granted, revoked) ==
  /\ \A p \in Pairs \ {granted, revoked} : held'[p] = held[p]
  /\ revoked \in Pairs => held'[revoked] = "none"
  /\ granted \in Pairs => held'[granted] # "none"

Ends(possible, granted, revoked, next, failed) ==
  \/ /\ possible /\ next /\ Ran(granted, revoked) /\ mishap' = mishap
     /\ own' = (own \ {revoked}) \cup ({granted} \cap Pairs)
  \/ /\ failed /\ UNCHANGED <<held, own>>
     /\ possible => mishap' # "none"
     /\ mishap' # mishap => mishap = "none" /\ mishap' = "failed"
  \/ /\ possible /\ failed /\ Ran(granted, revoked) /\ mishap' = "unclear"
     /\ own' = own \ {revoked}

\* The counters stay within their bounds.
LEMMA CounterTypes ==
  ASSUME TypeOK
  PROVE  /\ faults < MaxFaults => faults + 1 \in 0..MaxFaults
         /\ edits < MaxEdits => edits + 1 \in 0..MaxEdits
         /\ renames < MaxRenames => renames + 1 \in 0..MaxRenames
         /\ outside < MaxOutside => outside + 1 \in 0..MaxOutside
<1>1. MaxFaults \in Nat /\ MaxEdits \in Nat /\ MaxRenames \in Nat /\ MaxOutside \in Nat
  BY GrantAssumption
<1>2. /\ faults \in 0..MaxFaults /\ edits \in 0..MaxEdits
      /\ renames \in 0..MaxRenames /\ outside \in 0..MaxOutside
  BY DEF TypeOK
<1> QED
  BY <1>1, <1>2

LEMMA ExecuteFacts ==
  ASSUME TypeOK, NEW possible \in BOOLEAN, NEW granted, NEW level \in {"none", "plain", "admin"},
         NEW revoked, NEW ACTION next, NEW ACTION failed,
         granted \in Pairs => level # "none" /\ granted # revoked,
         Execute(possible, granted, level, revoked, next, failed)
  PROVE  Quiet /\ Ends(possible, granted, revoked, next, failed)
<1> DEFINE after == [p \in Pairs |-> IF p = revoked THEN "none"
                                    ELSE IF p # granted THEN held[p]
                                    ELSE IF held[p] = "admin" THEN "admin" ELSE level]
<1>1. /\ after \in [Pairs -> {"none", "plain", "admin"}]
      /\ \A p \in own : p # revoked => after[p] # "none"
      /\ \A p \in Pairs \ {granted, revoked} : after[p] = held[p]
      /\ revoked \in Pairs => after[revoked] = "none"
      /\ granted \in Pairs => after[granted] # "none"
  BY DEF TypeOK
<1>2. /\ UNCHANGED <<exists, fixed, log, prior>>
      /\ \/ /\ possible /\ next /\ held' = after /\ mishap' = mishap /\ faults' = faults
            /\ own' = (own \ {revoked}) \cup ({granted} \cap Pairs)
         \/ ~possible /\ failed /\ UNCHANGED <<held, own, mishap, faults>>
         \/ /\ possible /\ failed /\ faults < MaxFaults /\ faults' = faults + 1
            /\ UNCHANGED <<held, own>>
            /\ mishap' = (IF mishap = "none" THEN "failed" ELSE mishap)
         \/ /\ possible /\ failed /\ faults < MaxFaults /\ faults' = faults + 1
            /\ held' = after /\ own' = own \ {revoked} /\ mishap' = "unclear"
  BY DEF Execute
<1> HIDE DEF after
<1>3. /\ held' \in [Pairs -> {"none", "plain", "admin"}]
      /\ own' \subseteq {p \in Pairs : held'[p] # "none"}
  BY <1>1, <1>2 DEF TypeOK
<1>4. mishap' \in {"none", "failed", "unclear"} /\ faults' \in 0..MaxFaults
  BY <1>2, CounterTypes DEF TypeOK
<1>5. Ends(possible, granted, revoked, next, failed)
  <2>1. held' = after => Ran(granted, revoked)
    BY <1>1 DEF Ran
  <2> QED
    BY <1>2, <2>1 DEF Ends
<1> QED
  BY <1>2, <1>3, <1>4, <1>5 DEF Quiet

LEMMA RevokeFacts ==
  ASSUME TypeOK, NEW p \in Pairs, NEW ACTION next, NEW ACTION failed,
         Revoke(p, next, failed)
  PROVE  Quiet /\ Ends(Exist(p) /\ held[p] # "none", NoPair, p, next, failed)
<1> DEFINE possible == Exist(p) /\ held[p] # "none"
<1>1. Execute(possible, NoPair, "none", p, next, failed)
  BY DEF Revoke
<1>2. possible \in BOOLEAN
  OBVIOUS
<1> HIDE DEF possible
<1>3. Quiet /\ Ends(possible, NoPair, p, next, failed)
  BY <1>1, <1>2, ExecuteFacts, GrantAssumption
<1> QED
  BY <1>3 DEF possible

LEMMA GrantFacts ==
  ASSUME TypeOK, NEW p \in Pairs, NEW level \in {"plain", "admin"}, NEW ACTION next,
         NEW ACTION failed, GrantPair(p, level, next, failed)
  PROVE  Quiet /\ Ends(Exist(p), p, NoPair, next, failed)
<1> DEFINE possible == Exist(p)
<1>1. Execute(possible, p, level, NoPair, next, failed)
  BY DEF GrantPair
<1>2. possible \in BOOLEAN
  BY DEF Exist
<1>3. p # NoPair
  BY GrantAssumption
<1> HIDE DEF possible
<1>4. Quiet /\ Ends(possible, p, NoPair, next, failed)
  BY <1>1, <1>2, <1>3, ExecuteFacts
<1> QED
  BY <1>4 DEF possible

\* How a query ends: with its answers, or failed.
LEMMA QueryFacts ==
  ASSUME TypeOK, NEW ACTION answers, Query(answers)
  PROVE  /\ Quiet /\ UNCHANGED <<held, own>>
         /\ \/ answers /\ mishap' = mishap
            \/ /\ End("failed") /\ UNCHANGED <<old, newHeld>> /\ mishap' # "none"
               /\ mishap' # mishap => mishap = "none" /\ mishap' = "failed"
<1>1. /\ UNCHANGED <<exists, held, own, fixed, log, prior>>
      /\ \/ answers /\ mishap' = mishap /\ faults' = faults
         \/ /\ faults < MaxFaults /\ faults' = faults + 1
            /\ mishap' = (IF mishap = "none" THEN "failed" ELSE mishap)
            /\ End("failed") /\ UNCHANGED <<old, newHeld>>
  BY DEF Query, world
<1>2. held' \in [Pairs -> {"none", "plain", "admin"}]
      /\ own' \subseteq {p \in Pairs : held'[p] # "none"}
  BY <1>1 DEF TypeOK
<1>3. mishap' \in {"none", "failed", "unclear"} /\ faults' \in 0..MaxFaults
  BY <1>1, CounterTypes DEF TypeOK
<1> QED
  BY <1>1, <1>2, <1>3 DEF Quiet

-----------------------------------------------------------------------------
Steps == {"idle", "planned", "finished", "check", "look", "revoke old", "look new",
          "revoke new", "grant", "restore", "look delete", "revoke"}

\* The part of TypeOK that a handler's own steps may change.
ControlTypes ==
  /\ state \in Grants \cup {NoState}
  /\ pc \in Steps /\ old \in Pairs \cup {NoPair} /\ newHeld \in BOOLEAN
  /\ pc \in {"revoke old", "restore", "revoke"} => old # NoPair
  /\ result \in {"none", "ok", "failed", "rollback failed"}

LEMMA QuietTypes ==
  ASSUME TypeOK, Quiet, ControlTypes'
  PROVE  TypeOK'
BY DEF TypeOK, Quiet, ControlTypes, Steps, fixed, log

LEMMA RefreshTypes == TypeOK /\ Refresh => TypeOK'
<1> SUFFICES ASSUME TypeOK, Refresh PROVE TypeOK'
  OBVIOUS
<1>1. Refreshed \in Grants \cup {NoState}
  BY DEF TypeOK, Refreshed, HasAdmin, Grants
<1>2. pending' \in Renames \cup {NoRename} /\ renames' \in 0..MaxRenames
  <2>2. \/ pending' \in {NoRename, pending} /\ renames' = renames
        \/ renames < MaxRenames /\ renames' = renames + 1 /\ pending' \in Plannable
    BY DEF Refresh
  <2>3. renames' \in 0..MaxRenames
    BY <2>2, CounterTypes DEF TypeOK
  <2>4. pending' \in Renames \cup {NoRename}
    BY <2>2 DEF Plannable, TypeOK
  <2> QED
    BY <2>3, <2>4
<1>3. faults' \in 0..MaxFaults
  BY CounterTypes DEF Refresh, TypeOK
<1>4. /\ state' \in Grants \cup {NoState} /\ prior' \in Grants \cup {NoState}
      /\ pc' \in {"idle", "planned"} /\ result' \in {"none", "failed"}
  BY <1>1 DEF Refresh, TypeOK
<1>5. UNCHANGED <<world, kind, config, edits, outside, split, renamed, old, newHeld>>
      /\ mishap' = "none" /\ touched' = FALSE
  BY DEF Refresh
<1> QED
  BY <1>2, <1>3, <1>4, <1>5 DEF TypeOK, world

\* The rename runs, or it fails and a handler that needs it is skipped.
RenameRuns ==
  /\ pending.old \in exists /\ pending.new \notin exists
  /\ exists' = (exists \ {pending.old}) \cup {pending.new}
  /\ held' = [p \in Pairs |-> IF Names(p, pending.old) THEN "none"
                              ELSE held[MovedBack(p, pending)]]
  /\ own' = {p \in Pairs : ~Names(p, pending.old) /\ MovedBack(p, pending) \in own}
  /\ renamed' = pending
  /\ pc' = pc /\ result' = result /\ mishap' = mishap /\ faults' = faults

Skipped == pc = "planned" /\ config # NoConfig /\ Names(New, pending.new)

RenameFails ==
  /\ exists' = exists /\ held' = held /\ own' = own /\ renamed' = renamed
  /\ mishap' = (IF mishap = "none" THEN "failed" ELSE mishap)
  /\ faults' \in 0..MaxFaults
  /\ \/ Skipped /\ pc' = "finished" /\ result' = "failed"
     \/ ~Skipped /\ pc' = pc /\ result' = result

LEMMA RenameCases ==
  ASSUME TypeOK, RenameEndpoint
  PROVE  /\ pending \in Renames /\ pending' = NoRename
         /\ pc \in {"planned", "finished"}
         /\ UNCHANGED <<kind, config, edits, renames, outside, touched, split, state, prior,
                        old, newHeld>>
         /\ RenameRuns \/ RenameFails
<1>1. /\ pending \in Renames /\ pending' = NoRename
      /\ pc \in {"planned", "finished"}
      /\ UNCHANGED <<kind, config, edits, renames, outside, touched, split, state, prior,
                     old, newHeld>>
  BY DEF RenameEndpoint, TypeOK, fixed
<1>2. \/ RenameRuns
      \/ /\ exists' = exists /\ held' = held /\ own' = own /\ renamed' = renamed
         /\ mishap' = (IF mishap = "none" THEN "failed" ELSE mishap)
         /\ faults' = faults \/ (faults < MaxFaults /\ faults' = faults + 1)
         /\ \/ Skipped /\ pc' = "finished" /\ result' = "failed"
            \/ ~Skipped /\ pc' = pc /\ result' = result
  BY DEF RenameEndpoint, RenameRuns, Skipped, world
<1>3. faults' = faults \/ (faults < MaxFaults /\ faults' = faults + 1) => faults' \in 0..MaxFaults
  BY CounterTypes DEF TypeOK
<1> QED
  BY <1>1, <1>2, <1>3 DEF RenameFails

LEMMA RenameEndpointTypes == TypeOK /\ RenameEndpoint => TypeOK'
<1> SUFFICES ASSUME TypeOK, RenameEndpoint PROVE TypeOK'
  OBVIOUS
<1>1. /\ pending \in Renames /\ pending' = NoRename
      /\ pc \in {"planned", "finished"}
      /\ UNCHANGED <<kind, config, edits, renames, outside, touched, split, state, prior,
                     old, newHeld>>
      /\ RenameRuns \/ RenameFails
  BY RenameCases
<1>2. /\ exists' \subseteq Things \cup Grantees
      /\ held' \in [Pairs -> {"none", "plain", "admin"}]
      /\ own' \subseteq {p \in Pairs : held'[p] # "none"}
  <2>1. CASE RenameRuns
    <3>1. \A p \in Pairs : MovedBack(p, pending) \in Pairs
      BY <1>1, RenameTypes
    <3>2. held' \in [Pairs -> {"none", "plain", "admin"}]
      BY <2>1, <3>1 DEF TypeOK, RenameRuns
    <3>3. own' \subseteq {p \in Pairs : held'[p] # "none"}
      BY <2>1, <3>1 DEF TypeOK, RenameRuns
    <3>4. exists' \subseteq Things \cup Grantees
      BY <1>1, <2>1, RenameTypes DEF TypeOK, RenameRuns
    <3> QED
      BY <3>2, <3>3, <3>4
  <2>2. CASE RenameFails
    BY <2>2 DEF TypeOK, RenameFails
  <2> QED
    BY <1>1, <2>1, <2>2
<1>3. renamed' \in Renames \cup {NoRename}
  BY <1>1 DEF TypeOK, RenameRuns, RenameFails
<1>4. mishap' \in {"none", "failed", "unclear"}
  BY <1>1 DEF TypeOK, RenameRuns, RenameFails
<1>5. faults' \in 0..MaxFaults
  BY <1>1 DEF TypeOK, RenameRuns, RenameFails
<1>6. \/ pc' = pc /\ result' = result
      \/ pc' = "finished" /\ result' = "failed"
  BY <1>1 DEF RenameRuns, RenameFails
<1> QED
  BY <1>1, <1>2, <1>3, <1>4, <1>5, <1>6 DEF TypeOK

LEMMA BeginTypes == TypeOK /\ Begin => TypeOK'
BY DEF TypeOK, Begin, world, fixed, log

LEMMA FinishTypes == TypeOK /\ Finish => TypeOK'
BY DEF TypeOK, Finish, world

\* The two ways to end, and the way to the next step.
LEMMA WaysOut ==
  ASSUME TypeOK
  PROVE  /\ \A r \in {"ok", "failed", "rollback failed"} :
              End(r) /\ UNCHANGED <<old, newHeld>> => ControlTypes'
         /\ Succeed /\ UNCHANGED <<old, newHeld>> => ControlTypes'
         /\ \A s \in Steps :
              /\ Goto(s) /\ old' \in Pairs \cup {NoPair} /\ newHeld' \in BOOLEAN
              /\ s \in {"revoke old", "restore", "revoke"} => old' # NoPair
              => ControlTypes'
BY PairTypes DEF TypeOK, ControlTypes, End, Succeed, Goto, Steps

\* How each query and statement of the handlers ends.
LEMMA RevokeOldFacts ==
  ASSUME TypeOK, RevokeOld
  PROVE  /\ pc = "revoke old" /\ old \in Pairs /\ Quiet /\ UNCHANGED <<old, newHeld>>
         /\ Ends(Exist(old) /\ held[old] # "none", NoPair, old, AfterOld(newHeld), End("failed"))
<1> DEFINE next == AfterOld(newHeld)
           failed == End("failed")
<1>1. pc = "revoke old" /\ old \in Pairs /\ Revoke(old, next, failed)
      /\ UNCHANGED <<old, newHeld>>
  BY DEF RevokeOld, TypeOK
<1> HIDE DEF next, failed
<1>2. Quiet /\ Ends(Exist(old) /\ held[old] # "none", NoPair, old, next, failed)
  BY <1>1, RevokeFacts
<1> QED
  BY <1>1, <1>2 DEF next, failed

LEMMA RevokeNewFacts ==
  ASSUME TypeOK, RevokeNew, config # NoConfig
  PROVE  /\ pc = "revoke new" /\ New \in Pairs /\ Quiet /\ UNCHANGED <<old, newHeld>>
         /\ Ends(Exist(New) /\ held[New] # "none", NoPair, New, Goto("grant"), End("failed"))
<1> DEFINE next == Goto("grant")
           failed == End("failed")
<1>1. pc = "revoke new" /\ New \in Pairs /\ Revoke(New, next, failed)
      /\ UNCHANGED <<old, newHeld>>
  BY PairTypes DEF RevokeNew
<1> HIDE DEF next, failed
<1>2. Quiet /\ Ends(Exist(New) /\ held[New] # "none", NoPair, New, next, failed)
  BY <1>1, RevokeFacts
<1> QED
  BY <1>1, <1>2 DEF next, failed

LEMMA RevokeDeletedFacts ==
  ASSUME TypeOK, RevokeDeleted
  PROVE  /\ pc = "revoke" /\ old \in Pairs /\ Quiet /\ UNCHANGED <<old, newHeld>>
         /\ Ends(Exist(old) /\ held[old] # "none", NoPair, old, Succeed, End("failed"))
<1> DEFINE next == Succeed
           failed == End("failed")
<1>1. pc = "revoke" /\ old \in Pairs /\ Revoke(old, next, failed)
      /\ UNCHANGED <<old, newHeld>>
  BY DEF RevokeDeleted, TypeOK
<1> HIDE DEF next, failed
<1>2. Quiet /\ Ends(Exist(old) /\ held[old] # "none", NoPair, old, next, failed)
  BY <1>1, RevokeFacts
<1> QED
  BY <1>1, <1>2 DEF next, failed

GrantFailed ==
  \/ kind = "impersonation" /\ old # NoPair /\ Goto("restore")
  \/ ~(kind = "impersonation" /\ old # NoPair) /\ End("failed")

LEMMA GrantStepFacts ==
  ASSUME TypeOK, Grant, config # NoConfig
  PROVE  /\ pc = "grant" /\ New \in Pairs /\ Quiet /\ UNCHANGED <<old, newHeld>>
         /\ Ends(Exist(New), New, NoPair, Succeed, GrantFailed)
<1> DEFINE next == Succeed
           failed == IF kind = "impersonation" /\ old # NoPair THEN Goto("restore")
                     ELSE End("failed")
<1>1. pc = "grant" /\ New \in Pairs /\ Level(config) \in {"plain", "admin"}
      /\ GrantPair(New, Level(config), next, failed) /\ UNCHANGED <<old, newHeld>>
  BY PairTypes DEF Grant
<1>2. failed => GrantFailed
  BY DEF GrantFailed
<1> HIDE DEF next, failed
<1>3. Quiet /\ Ends(Exist(New), New, NoPair, next, failed)
  BY <1>1, GrantFacts
<1> QED
  BY <1>1, <1>2, <1>3 DEF next, Ends

LEMMA RestoreFacts ==
  ASSUME TypeOK, Restore
  PROVE  /\ pc = "restore" /\ old \in Pairs /\ Quiet /\ UNCHANGED <<old, newHeld>>
         /\ Ends(Exist(old), old, NoPair, End("failed"), End("rollback failed"))
<1> DEFINE next == End("failed")
           failed == End("rollback failed")
<1>1. pc = "restore" /\ old \in Pairs /\ GrantPair(old, "plain", next, failed)
      /\ UNCHANGED <<old, newHeld>>
  BY DEF Restore, TypeOK
<1> HIDE DEF next, failed
<1>2. Quiet /\ Ends(Exist(old), old, NoPair, next, failed)
  BY <1>1, GrantFacts
<1> QED
  BY <1>1, <1>2 DEF next, failed

\* A query that fails.
NoAnswer ==
  /\ End("failed") /\ UNCHANGED <<old, newHeld>> /\ mishap' # "none"
  /\ mishap' # mishap => mishap = "none" /\ mishap' = "failed"

LEMMA LookFacts ==
  ASSUME TypeOK, Look
  PROVE  /\ pc = "look" /\ Quiet /\ UNCHANGED <<held, own>>
         /\ \/ NoAnswer
            \/ /\ ~Exist(New) /\ End("failed") /\ UNCHANGED <<old, newHeld>>
               /\ mishap' = mishap
            \/ /\ Exist(New) /\ old' = OldGrant /\ mishap' = mishap
               /\ newHeld' = (kind = "impersonation" /\ held[New] # "none")
               /\ \/ OldGrant # NoPair /\ Goto("revoke old")
                  \/ OldGrant = NoPair /\ AfterOld(newHeld')
<1> DEFINE answers == IF ~Exist(New) THEN End("failed") /\ UNCHANGED <<old, newHeld>>
                      ELSE /\ old' = OldGrant
                           /\ newHeld' = (kind = "impersonation" /\ held[New] # "none")
                           /\ IF OldGrant # NoPair THEN Goto("revoke old")
                              ELSE AfterOld(newHeld')
<1>1. pc = "look" /\ Query(answers)
  BY DEF Look
<1>2. answers =>
        \/ ~Exist(New) /\ End("failed") /\ UNCHANGED <<old, newHeld>>
        \/ /\ Exist(New) /\ old' = OldGrant
           /\ newHeld' = (kind = "impersonation" /\ held[New] # "none")
           /\ \/ OldGrant # NoPair /\ Goto("revoke old")
              \/ OldGrant = NoPair /\ AfterOld(newHeld')
  OBVIOUS
<1> HIDE DEF answers
<1>3. /\ Quiet /\ UNCHANGED <<held, own>>
      /\ (answers /\ mishap' = mishap) \/ NoAnswer
  BY <1>1, QueryFacts DEF NoAnswer
<1> QED
  BY <1>1, <1>2, <1>3

LEMMA LookNewFacts ==
  ASSUME TypeOK, LookNew
  PROVE  /\ pc = "look new" /\ Quiet /\ UNCHANGED <<held, own, old, newHeld>>
         /\ \/ NoAnswer
            \/ held[New] = "none" /\ Goto("grant")
            \/ held[New] # "none" /\ Goto("revoke new")
            \/ held[New] # "none" /\ Succeed
<1> DEFINE answers == /\ IF held[New] = "none" THEN Goto("grant")
                         ELSE IF HasAdmin /\ held[New] # Level(config) THEN Goto("revoke new")
                         ELSE Succeed
                      /\ UNCHANGED <<old, newHeld>>
<1>1. pc = "look new" /\ Query(answers)
  BY DEF LookNew
<1>2. answers =>
        /\ UNCHANGED <<old, newHeld>>
        /\ \/ held[New] = "none" /\ Goto("grant")
           \/ held[New] # "none" /\ Goto("revoke new")
           \/ held[New] # "none" /\ Succeed
  OBVIOUS
<1> HIDE DEF answers
<1>3. /\ Quiet /\ UNCHANGED <<held, own>>
      /\ (answers /\ mishap' = mishap) \/ NoAnswer
  BY <1>1, QueryFacts DEF NoAnswer
<1> QED
  BY <1>1, <1>2, <1>3 DEF NoAnswer

LEMMA CheckFacts ==
  ASSUME TypeOK, Check
  PROVE  /\ pc = "check" /\ Quiet /\ UNCHANGED <<held, own, old, newHeld>>
         /\ \/ NoAnswer
            \/ End("failed")
            \/ held[New] # "none" /\ Succeed
            \/ held[New] = "none" /\ Goto("grant")
<1> DEFINE answers == /\ IF config.thing \notin exists THEN End("failed")
                         ELSE IF held[New] # "none" THEN Succeed ELSE Goto("grant")
                      /\ UNCHANGED <<old, newHeld>>
<1>1. pc = "check" /\ Query(answers)
  BY DEF Check
<1>2. answers =>
        /\ UNCHANGED <<old, newHeld>>
        /\ \/ End("failed")
           \/ held[New] # "none" /\ Succeed
           \/ held[New] = "none" /\ Goto("grant")
  OBVIOUS
<1> HIDE DEF answers
<1>3. /\ Quiet /\ UNCHANGED <<held, own>>
      /\ (answers /\ mishap' = mishap) \/ NoAnswer
  BY <1>1, QueryFacts DEF NoAnswer
<1> QED
  BY <1>1, <1>2, <1>3 DEF NoAnswer

LEMMA LookDeleteFacts ==
  ASSUME TypeOK, LookDelete
  PROVE  /\ pc = "look delete" /\ Quiet /\ UNCHANGED <<held, own, newHeld>>
         /\ \/ NoAnswer
            \/ held[Place(prior)] = "none" /\ Succeed /\ UNCHANGED old
            \/ held[Place(prior)] # "none" /\ old' = Place(prior) /\ Goto("revoke")
<1> DEFINE answers == IF held[Place(prior)] = "none"
                        THEN Succeed /\ UNCHANGED <<old, newHeld>>
                        ELSE old' = Place(prior) /\ Goto("revoke") /\ UNCHANGED newHeld
<1>1. pc = "look delete" /\ Query(answers)
  BY DEF LookDelete, Place
<1>2. answers =>
        /\ UNCHANGED newHeld
        /\ \/ held[Place(prior)] = "none" /\ Succeed /\ UNCHANGED old
           \/ held[Place(prior)] # "none" /\ old' = Place(prior) /\ Goto("revoke")
  OBVIOUS
<1> HIDE DEF answers
<1>3. /\ Quiet /\ UNCHANGED <<held, own>>
      /\ (answers /\ mishap' = mishap) \/ NoAnswer
  BY <1>1, QueryFacts DEF NoAnswer
<1> QED
  BY <1>1, <1>2, <1>3 DEF NoAnswer

LEMMA HandlerTypes ==
  ASSUME TypeOK, HandlerInv
  PROVE  /\ Check \/ Look \/ LookNew \/ LookDelete => TypeOK'
         /\ RevokeOld \/ RevokeNew \/ RevokeDeleted \/ Grant \/ Restore => TypeOK'
<1>1. old \in Pairs \cup {NoPair} /\ newHeld \in BOOLEAN
  BY DEF TypeOK
<1>2. Check => TypeOK'
  BY <1>1, CheckFacts, QuietTypes, WaysOut DEF NoAnswer, Steps
<1>3. ASSUME Look PROVE TypeOK'
  <2>1. OldGrant \in Pairs \cup {NoPair}
    BY <1>3, OldGrantTypes DEF Look, HandlerInv, Moving
  <2>2. newHeld' = (kind = "impersonation" /\ held[New] # "none") => newHeld' \in BOOLEAN
    OBVIOUS
  <2>3. CASE Exist(New) /\ old' = OldGrant /\ newHeld' \in BOOLEAN /\ AfterOld(newHeld')
    <3>1. Goto("look new") \/ Succeed \/ Goto("grant")
      BY <2>3 DEF AfterOld
    <3> QED
      BY <1>3, <2>1, <2>3, <3>1, LookFacts, QuietTypes, PairTypes
         DEF TypeOK, ControlTypes, Succeed, Goto, Steps
  <2> QED
    BY <1>3, <2>1, <2>2, <2>3, LookFacts, QuietTypes, WaysOut DEF NoAnswer, Steps
<1>4. LookNew => TypeOK'
  BY <1>1, LookNewFacts, QuietTypes, WaysOut DEF NoAnswer, Steps
<1>5. ASSUME LookDelete PROVE TypeOK'
  <2>1. Place(prior) \in Pairs
    BY <1>5, LookDeleteFacts, PairTypes DEF HandlerInv
  <2> QED
    BY <1>1, <1>5, <2>1, LookDeleteFacts, QuietTypes, WaysOut, GrantAssumption
       DEF NoAnswer, Steps
<1>6. ASSUME RevokeOld PROVE TypeOK'
  <2>1. AfterOld(newHeld) \/ End("failed")
    BY <1>6, RevokeOldFacts DEF Ends
  <2>2. Goto("look new") \/ Succeed \/ Goto("grant") \/ End("failed")
    BY <2>1 DEF AfterOld
  <2> QED
    BY <1>1, <1>6, <2>2, RevokeOldFacts, QuietTypes, WaysOut DEF Steps
<1>7. RevokeNew => TypeOK'
  BY <1>1, RevokeNewFacts, QuietTypes, WaysOut DEF Ends, Steps, HandlerInv, Moving, RevokeNew
<1>8. RevokeDeleted => TypeOK'
  BY <1>1, RevokeDeletedFacts, QuietTypes, WaysOut DEF Ends, Steps
<1>9. Grant => TypeOK'
  BY <1>1, GrantStepFacts, QuietTypes, WaysOut
     DEF Ends, GrantFailed, Steps, HandlerInv, Moving, Grant
<1>10. Restore => TypeOK'
  BY <1>1, RestoreFacts, QuietTypes, WaysOut DEF Ends, Steps
<1> QED
  BY <1>2, <1>3, <1>4, <1>5, <1>6, <1>7, <1>8, <1>9, <1>10

LEMMA EditTypes == TypeOK /\ Edit => TypeOK'
<1> SUFFICES ASSUME TypeOK, Edit PROVE TypeOK'
  OBVIOUS
<1>1. edits' \in 0..MaxEdits
  BY CounterTypes DEF Edit
<1> QED
  BY <1>1 DEF TypeOK, Edit, world, log, Configs

LEMMA ImportTypes == TypeOK /\ ImportState => TypeOK'
<1> SUFFICES ASSUME TypeOK, ImportState PROVE TypeOK'
  OBVIOUS
<1>1. edits' \in 0..MaxEdits
  BY CounterTypes DEF ImportState
<1> QED
  BY <1>1, PairTypes DEF TypeOK, ImportState, log, Configs

\* What another session does.
OutsideDrops(n) ==
  /\ n \in exists \cap Objects
  /\ exists' = exists \ {n}
  /\ held' = [p \in Pairs |-> IF Names(p, n) THEN "none" ELSE held[p]]
  /\ own' = {p \in own : ~Names(p, n)}

OutsideCreates(n) ==
  /\ n \in Objects /\ exists' = exists \cup {n} /\ held' = held /\ own' = own

OutsideRevokes(p) ==
  /\ held' = [held EXCEPT ![p] = "none"] /\ own' = own \ {p} /\ exists' = exists

OutsideGrants(p) ==
  /\ Exist(p) /\ exists' = exists /\ own' = own
  /\ \E level \in {"plain", "admin"} : held' = [held EXCEPT ![p] = level]

LEMMA OutsideCases ==
  ASSUME TypeOK, Outside
  PROVE  /\ touched' = TRUE /\ outside' \in 0..MaxOutside
         /\ UNCHANGED <<kind, config, edits, renames, split, pending, renamed, state, pc, prior,
                        old, newHeld, result, mishap, faults>>
         /\ \/ \E n \in Objects : OutsideDrops(n) \/ OutsideCreates(n)
            \/ \E p \in Pairs : OutsideRevokes(p) \/ OutsideGrants(p)
<1>1. touched' = TRUE /\ outside < MaxOutside /\ outside' = outside + 1
  BY DEF Outside
<1>2. UNCHANGED <<kind, config, edits, renames, split, pending, renamed, state, pc, prior,
                  old, newHeld, result, mishap, faults>>
  BY DEF Outside, log
<1>3. \/ \E n \in exists \cap Objects : OutsideDrops(n)
      \/ \E n \in Objects \ exists : OutsideCreates(n)
      \/ \E p \in Pairs : OutsideRevokes(p)
      \/ \E p \in Pairs, level \in {"plain"} \cup (IF HasAdmin THEN {"admin"} ELSE {}) :
           /\ Exist(p) /\ held' = [held EXCEPT ![p] = level]
           /\ exists' = exists /\ own' = own
  BY DEF Outside, OutsideDrops, OutsideCreates, OutsideRevokes
<1>4. ASSUME NEW p \in Pairs, NEW level \in {"plain"} \cup (IF HasAdmin THEN {"admin"} ELSE {}),
             Exist(p), held' = [held EXCEPT ![p] = level], exists' = exists, own' = own
      PROVE  OutsideGrants(p)
  BY <1>4 DEF OutsideGrants
<1>5. outside' \in 0..MaxOutside
  BY <1>1, CounterTypes
<1> QED
  BY <1>1, <1>2, <1>3, <1>4, <1>5

LEMMA OutsideTypes == TypeOK /\ Outside => TypeOK'
<1> SUFFICES ASSUME TypeOK, Outside PROVE TypeOK'
  OBVIOUS
<1>1. \/ \E n \in Objects : OutsideDrops(n) \/ OutsideCreates(n)
      \/ \E p \in Pairs : OutsideRevokes(p) \/ OutsideGrants(p)
  BY OutsideCases
<1>2. Objects \subseteq Things \cup Grantees
  BY DEF Objects
<1>3. exists' \subseteq Things \cup Grantees
  <2>1. exists \subseteq Things \cup Grantees
    BY DEF TypeOK
  <2>2. exists' = exists \/ \E n \in Objects : exists' \subseteq exists \cup {n}
    BY <1>1 DEF OutsideDrops, OutsideCreates, OutsideRevokes, OutsideGrants
  <2> QED
    BY <1>2, <2>1, <2>2
<1>4. held' \in [Pairs -> {"none", "plain", "admin"}]
  BY <1>1 DEF OutsideDrops, OutsideCreates, OutsideRevokes, OutsideGrants, TypeOK
<1>5. own' \subseteq {p \in Pairs : held'[p] # "none"}
  BY <1>1 DEF OutsideDrops, OutsideCreates, OutsideRevokes, OutsideGrants, TypeOK
<1> QED
  BY <1>3, <1>4, <1>5, OutsideCases DEF TypeOK

LEMMA StutterTypes == TypeOK /\ UNCHANGED vars => TypeOK'
BY DEF TypeOK, vars, world, fixed, log

LEMMA TypesStep ==
  ASSUME TypeOK, HandlerInv, [Next]_vars
  PROVE  TypeOK'
BY RefreshTypes, RenameEndpointTypes, BeginTypes, FinishTypes, HandlerTypes,
   EditTypes, ImportTypes, OutsideTypes, StutterTypes DEF Next, Step

-----------------------------------------------------------------------------
\* Quiet steps leave these alone.
LEMMA QuietFrame ==
  ASSUME Quiet
  PROVE  /\ New' = New /\ (HasAdmin' <=> HasAdmin) /\ Objects' = Objects
         /\ Configs' = Configs /\ Place(prior)' = Place(prior) /\ prior' = prior
         /\ kind' = kind /\ config' = config /\ touched' = touched /\ split' = split
         /\ pending' = pending /\ renamed' = renamed /\ exists' = exists
         /\ \A p \in Pairs : Exist(p)' <=> Exist(p)
BY DEF Quiet, fixed, log, New, HasAdmin, Objects, Configs, Pair, Place, Now, Exist

LEMMA OldGrantFacts ==
  ASSUME OldGrant # NoPair
  PROVE  OldGrant = Place(prior) /\ OldGrant # New /\ held[Place(prior)] # "none"
BY DEF OldGrant, Place

LEMMA HandlerStep ==
  ASSUME TypeOK, HandlerInv, [Next]_vars
  PROVE  HandlerInv'
<1>1. CASE Refresh
  <2>1. Refreshed # NoState /\ ~HasAdmin => ~Refreshed.admin
    <3>1. ASSUME Refreshed # NoState, ~HasAdmin PROVE ~Refreshed.admin
      <4>1. state \in Grants /\ Refreshed = [state EXCEPT !.admin = FALSE]
        BY <3>1 DEF Refreshed, TypeOK
      <4> QED
        BY <4>1 DEF Grants
    <3> QED
      BY <3>1
  <2>2. /\ pc = "idle" /\ UNCHANGED <<kind, config, renamed, old, newHeld>>
        /\ \/ state' = Refreshed /\ prior' = Refreshed /\ pc' = "planned" /\ result' = "none"
           \/ result' = "failed" /\ UNCHANGED <<state, prior, pc>>
    BY <1>1 DEF Refresh
  <2>3. (HasAdmin' <=> HasAdmin) /\ Configs' = Configs
    BY <2>2 DEF HasAdmin, Configs
  <2> QED
    BY <2>1, <2>2, <2>3 DEF HandlerInv, Between, Moving
<1>2. CASE RenameEndpoint
  <2>1. /\ pc \in {"planned", "finished"}
        /\ UNCHANGED <<kind, config, state, prior, old, newHeld>>
        /\ \/ UNCHANGED <<pc, result>>
           \/ pc = "planned" /\ pc' = "finished" /\ result' = "failed"
    BY <1>2, RenameCases DEF RenameRuns, RenameFails, Skipped
  <2>2. (HasAdmin' <=> HasAdmin) /\ Configs' = Configs
    BY <2>1 DEF HasAdmin, Configs
  <2> QED
    BY <2>1, <2>2 DEF HandlerInv, Between, Moving
<1>3. CASE Begin
  <2>1. /\ pc = "planned" /\ old' = NoPair
        /\ UNCHANGED <<kind, config, state, prior, pending, renamed>>
    BY <1>3 DEF Begin, fixed, log
  <2>2. (HasAdmin' <=> HasAdmin) /\ Configs' = Configs /\ New' = New
    BY <2>1 DEF HasAdmin, Configs, New, Pair
  <2>3. \/ pc' = "finished" /\ result' = "ok"
           /\ prior = (IF config = NoConfig THEN NoState ELSE config)
        \/ /\ pc' \in {"check", "grant"} /\ (pc' = "check" => kind = "impersonation")
           /\ prior = NoState /\ config # NoConfig /\ result' = result
        \/ /\ prior # NoState /\ config # NoConfig /\ result' = result
           /\ pc' \in {"look", "revoke new"}
           /\ pc' = "revoke new" => config # prior /\ Pair(prior) = New
        \/ prior # NoState /\ config = NoConfig /\ pc' = "look delete" /\ result' = result
    BY <1>3 DEF Begin, Handler
  <2>4. ASSUME kind = "impersonation", pc' = "revoke new" PROVE FALSE
    <3>1. /\ prior # NoState /\ config # NoConfig /\ config # prior /\ Pair(prior) = New
          /\ prior \in Grants /\ config \in Grants
      BY <2>3, <2>4, PairTypes
    <3>2. prior.admin = FALSE /\ config.admin = FALSE
      BY <2>4, <3>1 DEF HandlerInv, HasAdmin, Configs, Grants
    <3> QED
      BY <3>1, <3>2 DEF Pair, New, Grants
  <2>5. state' = prior' /\ result = "none" /\ pc' \notin {"planned", "idle"}
    BY <2>1, <2>3 DEF HandlerInv, Between
  <2>6. CASE pc' = "finished"
    BY <2>1, <2>2, <2>3, <2>5, <2>6 DEF HandlerInv, Between, Moving
  <2>7. CASE pc' # "finished"
    BY <2>1, <2>2, <2>3, <2>4, <2>5, <2>7 DEF HandlerInv, Between, Moving
  <2> QED
    BY <2>6, <2>7
<1>4. CASE Finish
  BY <1>4 DEF HandlerInv, Finish, HasAdmin, Configs, Between, Moving, New, Pair
<1>5. CASE Check
  BY <1>5, CheckFacts, QuietFrame
     DEF HandlerInv, Check, NoAnswer, Ends, GrantFailed, AfterOld, Between, Moving, End, Succeed, Goto
<1>6. CASE Look
  BY <1>6, LookFacts, OldGrantFacts, QuietFrame
     DEF HandlerInv, Look, NoAnswer, Ends, GrantFailed, AfterOld, Between, Moving, End, Succeed, Goto
<1>7. CASE RevokeOld
  BY <1>7, RevokeOldFacts, QuietFrame
     DEF HandlerInv, RevokeOld, NoAnswer, Ends, GrantFailed, AfterOld, Between, Moving, End, Succeed, Goto
<1>8. CASE LookNew
  BY <1>8, LookNewFacts, QuietFrame
     DEF HandlerInv, LookNew, NoAnswer, Ends, GrantFailed, AfterOld, Between, Moving, End, Succeed, Goto
<1>9. CASE RevokeNew
  BY <1>9, RevokeNewFacts, QuietFrame
     DEF HandlerInv, RevokeNew, NoAnswer, Ends, GrantFailed, AfterOld, Between, Moving, End, Succeed, Goto
<1>10. CASE Grant
  BY <1>10, GrantStepFacts, QuietFrame
     DEF HandlerInv, Grant, NoAnswer, Ends, GrantFailed, AfterOld, Between, Moving, End, Succeed, Goto
<1>11. CASE Restore
  BY <1>11, RestoreFacts, QuietFrame
     DEF HandlerInv, Restore, NoAnswer, Ends, GrantFailed, AfterOld, Between, Moving, End, Succeed, Goto
<1>12. CASE LookDelete
  BY <1>12, LookDeleteFacts, QuietFrame
     DEF HandlerInv, LookDelete, NoAnswer, Ends, GrantFailed, AfterOld, Between, Moving, End, Succeed, Goto
<1>13. CASE RevokeDeleted
  BY <1>13, RevokeDeletedFacts, QuietFrame
     DEF HandlerInv, RevokeDeleted, NoAnswer, Ends, GrantFailed, AfterOld, Between, Moving, End, Succeed, Goto
<1>14. CASE Edit
  BY <1>14 DEF HandlerInv, Edit, HasAdmin, Configs, Between, Moving, New, Pair, Place, Now,
       log
<1>15. CASE ImportState
  BY <1>15 DEF HandlerInv, ImportState, HasAdmin, Configs, Between, Moving, New, Pair,
       Place, Now, log
<1>16. CASE Outside
  BY <1>16, OutsideCases DEF HandlerInv, HasAdmin, Configs, Between, Moving, New, Pair,
       Place, Now
<1>17. CASE UNCHANGED vars
  BY <1>17 DEF vars, world, fixed, log, HandlerInv, HasAdmin, Configs, Between, Moving, New,
       Pair, Place, Now
<1> QED
  BY <1>1, <1>2, <1>3, <1>4, <1>5, <1>6, <1>7, <1>8, <1>9, <1>10, <1>11, <1>12, <1>13,
     <1>14, <1>15, <1>16, <1>17 DEF Next, Step

-----------------------------------------------------------------------------
\* A step of the handler: its queries and statements, from Begin to the end.
Working == Steps \ {"idle", "planned", "finished"}

HandlerAct ==
  \/ Check \/ Look \/ RevokeOld \/ LookNew \/ RevokeNew \/ Grant \/ Restore
  \/ LookDelete \/ RevokeDeleted

LEMMA HandlerActs ==
  ASSUME TypeOK, HandlerInv, HandlerAct
  PROVE  Quiet /\ pc \in Working /\ pc' \in Working \cup {"finished"}
<1> USE DEF Working, Steps, End, Succeed, Goto, NoAnswer, Ends, GrantFailed, AfterOld
<1>1. CASE Check
  BY <1>1, CheckFacts
<1>2. CASE Look
  BY <1>2, LookFacts
<1>3. CASE RevokeOld
  BY <1>3, RevokeOldFacts
<1>4. CASE LookNew
  BY <1>4, LookNewFacts
<1>5. CASE RevokeNew
  BY <1>5, RevokeNewFacts DEF HandlerInv, Moving, RevokeNew
<1>6. CASE Grant
  BY <1>6, GrantStepFacts DEF HandlerInv, Grant
<1>7. CASE Restore
  BY <1>7, RestoreFacts
<1>8. CASE LookDelete
  BY <1>8, LookDeleteFacts
<1>9. CASE RevokeDeleted
  BY <1>9, RevokeDeletedFacts
<1> QED
  BY <1>1, <1>2, <1>3, <1>4, <1>5, <1>6, <1>7, <1>8, <1>9 DEF HandlerAct

LEMMA RenameStep ==
  ASSUME TypeOK, HandlerInv, RenameInv, [Next]_vars
  PROVE  RenameInv'
<1>1. CASE Refresh
  <2>1. /\ pc = "idle" /\ UNCHANGED <<kind, config, renamed>>
        /\ pc' = "planned" \/ (pc' = pc /\ pending' = pending)
        /\ pending' \in {NoRename, pending} \cup Plannable
    BY <1>1 DEF Refresh
  <2>2. Objects' = Objects /\ New' = New
    BY <2>1 DEF Objects, New, Pair
  <2>3. ASSUME pending' \in Plannable
        PROVE  /\ {pending'.old, pending'.new} \subseteq Objects
               /\ config # NoConfig => ~Names(New, pending'.old)
    BY <2>3 DEF Plannable
  <2> QED
    BY <2>1, <2>2, <2>3 DEF RenameInv
<1>2. CASE RenameEndpoint
  <2>1. /\ pending # NoRename /\ pending' = NoRename /\ UNCHANGED <<kind, config>>
        /\ pc \in {"planned", "finished"} /\ pc' \in {"planned", "finished"}
        /\ renamed' \in {renamed, pending}
    BY <1>2, RenameCases DEF RenameRuns, RenameFails, RenameEndpoint
  <2>2. Objects' = Objects /\ New' = New
    BY <2>1 DEF Objects, New, Pair
  <2> QED
    BY <2>1, <2>2 DEF RenameInv
<1>3. CASE Begin
  <2>1. /\ pc = "planned" /\ pc' # "idle" /\ UNCHANGED <<kind, config, pending, renamed>>
        /\ pending # NoRename /\ config # NoConfig => ~Names(New, pending.new)
    BY <1>3 DEF Begin, fixed, log
  <2>2. Objects' = Objects /\ New' = New
    BY <2>1 DEF Objects, New, Pair
  <2> QED
    BY <2>1, <2>2 DEF RenameInv
<1>4. CASE Finish
  <2>1. /\ pc' = "idle" /\ pending' = NoRename /\ renamed' = NoRename
    BY <1>4 DEF Finish
  <2> QED
    BY <2>1 DEF RenameInv
<1>5. CASE HandlerAct
  <2>1. /\ Objects' = Objects /\ New' = New /\ UNCHANGED <<config, pending, renamed>>
        /\ pc # "planned" /\ pc' # "idle"
    BY <1>5, HandlerActs, QuietFrame DEF Working, Steps
  <2> QED
    BY <2>1 DEF RenameInv
<1>6. CASE Edit \/ ImportState
  <2>1. /\ pc = "idle" /\ UNCHANGED <<pc, pending, renamed>>
    BY <1>6 DEF Edit, ImportState, log
  <2> QED
    BY <2>1 DEF RenameInv
<1>7. CASE Outside \/ UNCHANGED vars
  <2>1. UNCHANGED <<kind, config, pc, pending, renamed>>
    BY <1>7, OutsideCases DEF vars, fixed, log
  <2>2. Objects' = Objects /\ New' = New
    BY <2>1 DEF Objects, New, Pair
  <2> QED
    BY <2>1, <2>2 DEF RenameInv
<1> QED
  BY <1>1, <1>2, <1>3, <1>4, <1>5, <1>6, <1>7 DEF Next, Step, HandlerAct

-----------------------------------------------------------------------------
\* Exasol moves the grants of a renamed endpoint along with it, or has none to move.
LEMMA MovedGrants ==
  ASSUME TypeOK, EndsExist, pending \in Renames, RenameRuns,
         {pending.old, pending.new} \subseteq Objects, NEW p \in Pairs, held'[p] # "none"
  PROVE  /\ MovedBack(p, pending) \in Pairs
         /\ ~Names(p, pending.old)
         /\ held[MovedBack(p, pending)] = held'[p]
         /\ \A n \in {p[1], p[2]} \cap Objects : n \in exists'
<1>1. MovedBack(p, pending) \in Pairs
  BY RenameTypes
<1>2. ~Names(p, pending.old) /\ held[MovedBack(p, pending)] = held'[p]
  BY DEF RenameRuns
<1>3. Exist(MovedBack(p, pending))
  BY <1>1, <1>2 DEF EndsExist
<1>4. ASSUME NEW n \in {p[1], p[2]} \cap Objects PROVE n \in exists'
  <2>1. n # pending.old /\ exists' = (exists \ {pending.old}) \cup {pending.new}
    BY <1>2, <1>4 DEF RenameRuns, Names
  <2>2. n = pending.new \/ n \in {MovedBack(p, pending)[1], MovedBack(p, pending)[2]}
    BY <1>4 DEF MovedBack
  <2> QED
    BY <1>3, <1>4, <2>1, <2>2 DEF Exist
<1> QED
  BY <1>1, <1>2, <1>4

LEMMA EndsStep ==
  ASSUME TypeOK, HandlerInv, RenameInv, EndsExist, [Next]_vars
  PROVE  EndsExist'
<1>1. CASE UNCHANGED <<kind, exists, held>>
  BY <1>1 DEF EndsExist, Exist, Objects
<1>2. CASE Refresh \/ Begin \/ Finish \/ Edit \/ ImportState \/ UNCHANGED vars
  BY <1>1, <1>2 DEF Refresh, Begin, Finish, Edit, ImportState, vars, world, fixed
<1>3. CASE RenameEndpoint
  <2>1. /\ pending \in Renames /\ kind' = kind
        /\ RenameRuns \/ RenameFails
        /\ {pending.old, pending.new} \subseteq Objects
    BY <1>3, RenameCases DEF RenameInv, RenameEndpoint
  <2>2. CASE RenameRuns
    <3>1. Objects' = Objects
      BY <2>1 DEF Objects
    <3> QED
      BY <2>1, <2>2, <3>1, MovedGrants DEF EndsExist, Exist
  <2>3. CASE RenameFails
    BY <1>1, <2>1, <2>3 DEF RenameFails
  <2> QED
    BY <2>1, <2>2, <2>3
<1>4. CASE Check \/ Look \/ LookNew \/ LookDelete
  BY <1>1, <1>4, CheckFacts, LookFacts, LookNewFacts, LookDeleteFacts, QuietFrame
<1>5. CASE RevokeOld
  BY <1>5, RevokeOldFacts, QuietFrame, GrantAssumption DEF EndsExist, Ends, Ran
<1>6. CASE RevokeNew
  BY <1>6, RevokeNewFacts, QuietFrame, GrantAssumption
     DEF EndsExist, Ends, Ran, HandlerInv, Moving, RevokeNew
<1>7. CASE RevokeDeleted
  BY <1>7, RevokeDeletedFacts, QuietFrame, GrantAssumption DEF EndsExist, Ends, Ran
<1>8. CASE Grant
  BY <1>8, GrantStepFacts, QuietFrame, GrantAssumption
     DEF EndsExist, Ends, Ran, HandlerInv, Grant
<1>9. CASE Restore
  BY <1>9, RestoreFacts, QuietFrame, GrantAssumption DEF EndsExist, Ends, Ran
<1>10. CASE Outside
  <2>1. kind' = kind /\ Objects' = Objects
    BY <1>10, OutsideCases DEF Objects
  <2>2. ASSUME NEW n \in Objects, OutsideDrops(n), NEW p \in Pairs, held'[p] # "none"
        PROVE  Exist(p)'
    BY <2>1, <2>2 DEF OutsideDrops, EndsExist, Exist, Names
  <2>3. ASSUME NEW n \in Objects, OutsideCreates(n), NEW p \in Pairs, held'[p] # "none"
        PROVE  Exist(p)'
    BY <2>1, <2>3 DEF OutsideCreates, EndsExist, Exist
  <2>4. ASSUME NEW q \in Pairs, OutsideRevokes(q) \/ OutsideGrants(q), NEW p \in Pairs,
               held'[p] # "none"
        PROVE  Exist(p)'
    BY <2>1, <2>4 DEF OutsideRevokes, OutsideGrants, EndsExist, Exist, TypeOK
  <2> QED
    BY <1>10, <2>2, <2>3, <2>4, OutsideCases DEF EndsExist
<1> QED
  BY <1>2, <1>3, <1>4, <1>5, <1>6, <1>7, <1>8, <1>9, <1>10 DEF Next, Step

-----------------------------------------------------------------------------
\* The configured grant is where its configuration says.
LEMMA NewInPlace ==
  ASSUME RenameInv, config # NoConfig
  PROVE  Place(config) = New
BY DEF RenameInv, Place, New, Pair, Now, Names

\* A grant that is held moves along with the rename of an endpoint.
LEMMA GrantMoves ==
  ASSUME TypeOK, EndsExist, RenameInv, RenameEndpoint, RenameRuns, NEW g \in Grants,
         held[Place(g)] # "none"
  PROVE  held'[Place(g)'] = held[Place(g)]
<1>1. /\ pending \in Renames /\ renamed = NoRename /\ renamed' = pending
      /\ pending.old \in exists /\ pending.new \notin exists
      /\ {pending.old, pending.new} \subseteq Objects
  BY RenameCases DEF RenameInv, RenameEndpoint, RenameRuns
<1>2. Place(g) = <<g.thing, g.grantee>> /\ Place(g) \in Pairs
  BY <1>1, PairTypes DEF Place, Now
<1>3. g.thing # pending.new /\ g.grantee # pending.new
  BY <1>1, <1>2 DEF EndsExist, Exist
<1>4. renamed' # NoRename
  BY <1>1, GrantAssumption
<1>5. Place(g)' = <<IF g.thing = pending.old THEN pending.new ELSE g.thing,
                    IF g.grantee = pending.old THEN pending.new ELSE g.grantee>>
  BY <1>1, <1>4 DEF Place, Now
<1>6. /\ ~Names(Place(g)', pending.old)
      /\ MovedBack(Place(g)', pending) = Place(g)
  BY <1>1, <1>2, <1>3, <1>5 DEF Names, MovedBack
<1>7. Place(g)' \in Pairs
  BY <1>1, <1>2, <1>5, RenameTypes, GrantAssumption DEF Pairs, Grants
<1> QED
  BY <1>6, <1>7 DEF RenameRuns

\* No other grant moves to where that one goes.
LEMMA OwnMoves ==
  ASSUME TypeOK, RenameInv, RenameEndpoint, RenameRuns, NEW g \in Grants,
         own \subseteq {Place(g)}
  PROVE  own' \subseteq {Place(g)'}
<1>1. /\ pending \in Renames /\ renamed = NoRename /\ renamed' = pending
  BY RenameCases DEF RenameInv, RenameEndpoint, RenameRuns
<1>2. Place(g) = <<g.thing, g.grantee>>
  BY <1>1 DEF Place, Now
<1>3. renamed' # NoRename
  BY <1>1, GrantAssumption
<1>4. Place(g)' = <<IF g.thing = pending.old THEN pending.new ELSE g.thing,
                    IF g.grantee = pending.old THEN pending.new ELSE g.grantee>>
  BY <1>1, <1>3 DEF Place, Now
<1>5. ASSUME NEW q \in own' PROVE q = Place(g)'
  <2>1. /\ q \in Pairs /\ ~Names(q, pending.old) /\ MovedBack(q, pending) = Place(g)
    BY <1>5 DEF RenameRuns
  <2>2. /\ q = <<q[1], q[2]>>
    BY <2>1 DEF Pairs
  <2>3. q[1] = (IF g.thing = pending.old THEN pending.new ELSE g.thing)
    BY <1>2, <2>1 DEF MovedBack, Names
  <2>4. q[2] = (IF g.grantee = pending.old THEN pending.new ELSE g.grantee)
    BY <1>2, <2>1 DEF MovedBack, Names
  <2> QED
    BY <1>4, <2>2, <2>3, <2>4
<1> QED
  BY <1>5

\* No old grant to revoke: it is gone, or it is the new one.
LEMMA NothingOld ==
  ASSUME TypeOK, EndsExist, prior # NoState, OldGrant = NoPair
  PROVE  held[Place(prior)] = "none" \/ Place(prior) = New
<1>1. Place(prior) \in Pairs
  BY PairTypes
<1>2. Place(prior) # NoPair
  BY <1>1, GrantAssumption
<1>3. ASSUME Gone(prior.thing, config.thing) \/ Gone(prior.grantee, config.grantee)
      PROVE  ~Exist(Place(prior))
  BY <1>3 DEF Gone, Exist, Place
<1> QED
  BY <1>1, <1>2, <1>3 DEF OldGrant, Place, EndsExist
\* Where the grant in state is after a query or statement.
LEMMA QuietPlace ==
  ASSUME TypeOK, RenameInv, Quiet
  PROVE  /\ state' = state => Place(state)' = Place(state)
         /\ Succeed /\ config # NoConfig =>
              state' # NoState /\ Place(state)' = New
         /\ Succeed /\ config = NoConfig => state' = NoState
<1>1. renamed' = renamed
  BY DEF Quiet, log
<1>2. state' = state => Place(state)' = Place(state)
  BY <1>1 DEF Place, Now
<1>3. ASSUME Succeed, config # NoConfig
      PROVE  state' # NoState /\ Place(state)' = New
  <2>1. state' = config /\ config \in Grants
    BY <1>3, PairTypes DEF Succeed
  <2>2. Place(state)' = Place(config)
    BY <1>1, <2>1 DEF Place, Now
  <2> QED
    BY <1>3, <2>1, <2>2, NewInPlace, GrantAssumption
<1> QED
  BY <1>2, <1>3 DEF Succeed

LEMMA OwnStep ==
  ASSUME TypeOK, HandlerInv, RenameInv, EndsExist, OwnInv, [Next]_vars
  PROVE  OwnInv'
<1> DEFINE Recorded == IF state = NoState THEN {} ELSE {Place(state)}
<1>1. own \subseteq {p \in Pairs : held[p] # "none"}
  BY DEF TypeOK
<1>2. CASE Refresh
  <2>1. /\ pc = "idle" /\ pc' \in {"idle", "planned"} /\ UNCHANGED <<own, held, split, renamed>>
        /\ state' = state \/ state' = Refreshed
    BY <1>2 DEF Refresh, world
  <2>2. Place(state)' = Place(state')
    BY <2>1 DEF Place, Now
  <2>3. renamed = NoRename
    BY <2>1 DEF RenameInv
  <2>4. state # NoState => Place(state) = Pair(state)
    BY <2>3 DEF Place, Now, Pair
  <2>5. CASE state' = state
    BY <2>1, <2>2, <2>5 DEF OwnInv
  <2>6. CASE state' = Refreshed /\ state # NoState /\ held[Pair(state)] # "none"
    <3>1. state \in Grants
      BY <2>6 DEF TypeOK
    <3>2. state'.thing = state.thing /\ state'.grantee = state.grantee /\ state' # NoState
      BY <2>6, <3>1, GrantAssumption DEF Refreshed, Grants, HasAdmin
    <3> QED
      BY <2>1, <2>2, <2>6, <3>2 DEF OwnInv, Place
  <2>7. CASE state' = Refreshed /\ ~(state # NoState /\ held[Pair(state)] # "none")
    <3>1. state' = NoState
      BY <2>7 DEF Refreshed
    <3> QED
      BY <1>1, <2>1, <2>4, <2>7, <3>1 DEF OwnInv
  <2> QED
    BY <2>1, <2>5, <2>6, <2>7
<1>3. CASE RenameEndpoint
  <2>1. /\ state' = state /\ split' = split
        /\ pc' \in {"planned", "finished"}
        /\ RenameRuns \/ RenameFails
    BY <1>3, RenameCases DEF RenameRuns, RenameFails
  <2>2. CASE RenameFails
    <3>1. own' = own /\ (state # NoState => Place(state)' = Place(state))
      BY <2>1, <2>2 DEF RenameFails, Place, Now
    <3> QED
      BY <2>1, <3>1 DEF OwnInv
  <2>3. CASE RenameRuns /\ state # NoState
    <3>1. state \in Grants
      BY <2>3 DEF TypeOK
    <3> QED
      BY <1>3, <2>1, <2>3, <3>1, OwnMoves DEF OwnInv
  <2>4. CASE RenameRuns /\ state = NoState
    BY <2>1, <2>4 DEF OwnInv, RenameRuns
  <2> QED
    BY <2>1, <2>2, <2>3, <2>4
<1>4. CASE Begin
  <2>1. /\ pc = "planned" /\ UNCHANGED <<kind, config, state, prior, renamed, own, split>>
    BY <1>4 DEF Begin, fixed, log, world
  <2>2. state = prior /\ Place(state)' = Place(state) /\ New' = New
    BY <2>1 DEF HandlerInv, Between, Place, Now, New, Pair
  <2>3. pc' \in {"check", "grant"} => prior = NoState
    BY <1>4 DEF Begin, Handler
  <2>4. pc' # "restore" /\ pc' # "look new"
    BY <1>4 DEF Begin
  <2>5. ASSUME pc' = "revoke new" PROVE state # NoState /\ Place(state) = New
    <3>1. prior # NoState /\ config # NoConfig /\ Pair(prior) = New
      BY <1>4, <2>5 DEF Begin, Handler
    <3>2. Place(prior) = Place(config)
      BY <3>1 DEF Place, Pair, New
    <3> QED
      BY <2>2, <3>1, <3>2, NewInPlace
  <2> QED
    BY <2>1, <2>2, <2>3, <2>4, <2>5 DEF OwnInv
<1>5. CASE Finish
  <2>1. /\ pc' = "idle" /\ UNCHANGED <<own, state>> /\ renamed' = NoRename
        /\ split' = (split \/ (/\ renamed # NoRename /\ state # NoState
                               /\ Names(Pair(state), renamed.old)))
    BY <1>5 DEF Finish, world
  <2>2. ~split' /\ state # NoState => Place(state)' = Place(state)
    BY <2>1 DEF Place, Now, Names, Pair
  <2> QED
    BY <2>1, <2>2 DEF OwnInv
<1>6. CASE Check \/ Look \/ LookNew \/ LookDelete
  <2>1. Quiet /\ own' = own /\ held' = held /\ state = prior /\ prior' = prior
    BY <1>6, CheckFacts, LookFacts, LookNewFacts, LookDeleteFacts, QuietFrame
       DEF HandlerInv, Between
  <2>2. /\ split' = split /\ New' = New /\ config' = config
        /\ state' = state => Place(state)' = Place(state)
    BY <2>1, QuietFrame, QuietPlace
  <2>3. /\ Succeed /\ config # NoConfig => state' # NoState /\ Place(state)' = New
        /\ Succeed /\ config = NoConfig => state' = NoState
    BY <2>1, QuietPlace
  <2>4. CASE Check
    BY <1>1, <2>1, <2>2, <2>3, <2>4, CheckFacts
       DEF OwnInv, NoAnswer, End, Succeed, Goto, HandlerInv
  <2>5. CASE Look
    <3>1. CASE NoAnswer \/ End("failed")
      BY <2>1, <2>2, <3>1 DEF NoAnswer, End, OwnInv
    <3>2. CASE Goto("revoke old")
      BY <2>1, <2>2, <3>2 DEF Goto, OwnInv
    <3>3. CASE /\ OldGrant = NoPair /\ AfterOld(newHeld')
               /\ newHeld' = (kind = "impersonation" /\ held[New] # "none")
      <4>1. prior # NoState /\ config # NoConfig
        BY <2>5, LookFacts DEF HandlerInv, Moving
      <4>2. ~split => own \subseteq {New}
        BY <1>1, <2>1, <3>3, <4>1, NothingOld DEF OwnInv
      <4>3. CASE Goto("look new")
        BY <2>1, <2>2, <4>2, <4>3 DEF Goto, OwnInv
      <4>4. CASE Succeed
        BY <2>1, <2>2, <2>3, <4>1, <4>2, <4>4 DEF Succeed, OwnInv
      <4>5. CASE Goto("grant") /\ held[New] = "none"
        BY <1>1, <2>1, <2>2, <4>2, <4>5 DEF Goto, OwnInv
      <4> QED
        BY <3>3, <4>3, <4>4, <4>5 DEF AfterOld
    <3> QED
      BY <2>5, <3>1, <3>2, <3>3, LookFacts
  <2>6. CASE LookNew
    BY <1>1, <2>1, <2>2, <2>3, <2>6, LookNewFacts
       DEF OwnInv, NoAnswer, End, Succeed, Goto, HandlerInv, Moving
  <2>7. CASE LookDelete
    BY <1>1, <2>1, <2>2, <2>7, LookDeleteFacts
       DEF OwnInv, NoAnswer, End, Succeed, Goto, HandlerInv
  <2> QED
    BY <1>6, <2>4, <2>5, <2>6, <2>7
<1>7. CASE RevokeOld \/ RevokeNew \/ RevokeDeleted \/ Grant \/ Restore
  <2>1. Quiet /\ state = prior /\ prior' = prior /\ UNCHANGED <<old, newHeld>>
    BY <1>7, RevokeOldFacts, RevokeNewFacts, RevokeDeletedFacts, GrantStepFacts,
       RestoreFacts, QuietFrame
       DEF HandlerInv, Between, Moving, RevokeNew, Grant
  <2>2. /\ split' = split /\ New' = New /\ config' = config
        /\ state' = state => Place(state)' = Place(state)
    BY <2>1, QuietFrame, QuietPlace
  <2>3. /\ Succeed /\ config # NoConfig => state' # NoState /\ Place(state)' = New
        /\ Succeed /\ config = NoConfig => state' = NoState
    BY <2>1, QuietPlace
  <2>4. pc \in {"revoke old", "restore", "revoke"} =>
          prior # NoState /\ old = Place(prior)
    BY DEF HandlerInv, TypeOK, Between
  <2>5. CASE RevokeOld
    <3>1. \/ own' = own \ {old} /\ AfterOld(newHeld)
          \/ End("failed") /\ own' \subseteq own
      BY <2>5, RevokeOldFacts, GrantAssumption DEF Ends
    <3>2. ~split => own \subseteq {old}
      BY <2>1, <2>4, <2>5, RevokeOldFacts DEF OwnInv
    <3>3. CASE End("failed") /\ own' \subseteq own
      BY <2>2, <3>3 DEF OwnInv, End
    <3>4. CASE own' = own \ {old} /\ AfterOld(newHeld)
      <4>1. ~split' => own' = {}
        BY <2>2, <3>2, <3>4
      <4> QED
        BY <4>1 DEF OwnInv
    <3> QED
      BY <3>1, <3>3, <3>4
  <2>6. CASE RevokeNew
    BY <2>1, <2>2, <2>6, RevokeNewFacts, GrantAssumption
       DEF OwnInv, Ends, End, Goto, HandlerInv, Moving, RevokeNew
  <2>7. CASE RevokeDeleted
    <3>1. \/ own' = own \ {old} /\ Succeed
          \/ End("failed") /\ own' \subseteq own
      BY <2>7, RevokeDeletedFacts, GrantAssumption DEF Ends
    <3>2. ~split => own \subseteq {old}
      BY <2>1, <2>4, <2>7, RevokeDeletedFacts DEF OwnInv
    <3>3. pc' = "finished"
      BY <3>1 DEF Succeed, End
    <3> QED
      BY <2>2, <3>1, <3>2, <3>3 DEF OwnInv, End
  <2>8. CASE Grant
    BY <2>1, <2>2, <2>3, <2>8, GrantStepFacts, GrantAssumption
       DEF OwnInv, Ends, GrantFailed, End, Succeed, Goto, HandlerInv, Grant
  <2>9. CASE Restore
    BY <2>1, <2>2, <2>4, <2>9, RestoreFacts, GrantAssumption
       DEF OwnInv, Ends, End, HandlerInv
  <2> QED
    BY <1>7, <2>5, <2>6, <2>7, <2>8, <2>9
<1>8. CASE Edit
  <2>1. pc = "idle" /\ UNCHANGED <<pc, own, split, state, renamed>>
    BY <1>8 DEF Edit, world, log
  <2>2. Place(state)' = Place(state)
    BY <2>1 DEF Place, Now
  <2> QED
    BY <2>1, <2>2 DEF OwnInv
<1>9. CASE ImportState
  <2>1. /\ pc = "idle" /\ UNCHANGED <<pc, split, renamed>> /\ state = NoState
        /\ state' \in Configs /\ own' = own \cup {Pair(state')}
    BY <1>9 DEF ImportState, log
  <2>2. renamed = NoRename /\ state' \in Grants
    BY <2>1 DEF RenameInv, Configs
  <2>3. Place(state)' = Pair(state')
    BY <2>1, <2>2 DEF Place, Now, Pair
  <2> QED
    BY <2>1, <2>2, <2>3, GrantAssumption DEF OwnInv
<1>10. CASE Outside
  <2>1. UNCHANGED <<pc, config, split, state, renamed>>
    BY <1>10, OutsideCases
  <2>2. own' \subseteq own
    BY <1>10, OutsideCases DEF OutsideDrops, OutsideCreates, OutsideRevokes, OutsideGrants
  <2>3. Place(state)' = Place(state) /\ New' = New
    BY <2>1 DEF Place, Now, New, Pair
  <2> QED
    BY <2>1, <2>2, <2>3 DEF OwnInv
<1>11. CASE UNCHANGED vars
  BY <1>11 DEF vars, world, fixed, log, OwnInv, Place, Now, New, Pair
<1> QED
  BY <1>2, <1>3, <1>4, <1>5, <1>6, <1>7, <1>8, <1>9, <1>10, <1>11 DEF Next, Step

\* The configured grant stays where it is when an endpoint of another is renamed.
LEMMA NewStays ==
  ASSUME TypeOK, EndsExist, RenameInv, RenameEndpoint, RenameRuns, config # NoConfig,
         held[New] # "none"
  PROVE  held'[New] # "none"
<1>1. PICK g \in Grants : g = config
  BY PairTypes
<1>2. Place(g) = New /\ New = Pair(g)
  BY <1>1, NewInPlace DEF New
<1>3. held'[Place(g)'] # "none"
  BY <1>2, GrantMoves
<1>4. Place(g)' = New
  <2>1. renamed' = pending /\ pending # NoRename
    BY RenameCases DEF RenameRuns, RenameEndpoint
  <2>2. g.thing # pending.old /\ g.grantee # pending.old
    BY <1>2, <2>1 DEF RenameInv, Names, Pair
  <2> QED
    BY <1>2, <2>1, <2>2 DEF Place, Now, Pair
<1> QED
  BY <1>3, <1>4

LEMMA HeldStep ==
  ASSUME TypeOK, HandlerInv, RenameInv, EndsExist, HeldInv, [Next]_vars
  PROVE  HeldInv'
<1>1. CASE Refresh
  <2>1. /\ pc = "idle" /\ UNCHANGED <<config, held, renamed>>
        /\ \/ pc' = "planned" /\ result' = "none" /\ prior' = Refreshed
           \/ pc' = "idle" /\ result' = "failed"
    BY <1>1 DEF Refresh, world
  <2>2. renamed = NoRename
    BY <2>1 DEF RenameInv
  <2>3. ASSUME prior' = Refreshed, prior' # NoState
        PROVE  held'[Place(prior)'] # "none"
    <3>1. state # NoState /\ held[Pair(state)] # "none" /\ state \in Grants
      BY <2>3 DEF Refreshed, TypeOK
    <3>2. prior'.thing = state.thing /\ prior'.grantee = state.grantee
      BY <2>3, <3>1 DEF Refreshed, Grants, HasAdmin
    <3>3. Place(prior)' = Pair(state)
      BY <2>1, <2>2, <3>2 DEF Place, Now, Pair
    <3> QED
      BY <2>1, <3>1, <3>3
  <2> QED
    BY <2>1, <2>3 DEF HeldInv, Between
<1>2. CASE RenameEndpoint
  <2>1. /\ UNCHANGED <<touched, config, prior>> /\ New' = New
        /\ pc \in {"planned", "finished"}
        /\ RenameRuns \/ RenameFails
    BY <1>2, RenameCases DEF New, Pair
  <2>2. CASE RenameFails
    <3>1. Place(prior)' = Place(prior) /\ held' = held
      BY <2>1, <2>2 DEF RenameFails, Place, Now
    <3>2. (pc' = pc /\ result' = result) \/ (pc' = "finished" /\ result' = "failed")
      BY <2>2 DEF RenameFails
    <3> QED
      BY <2>1, <3>1, <3>2 DEF HeldInv, Between
  <2>3. CASE RenameRuns
    <3>1. pc' = pc /\ result' = result
      BY <2>3 DEF RenameRuns
    <3>2. ASSUME prior # NoState, held[Place(prior)] # "none"
          PROVE  held'[Place(prior)'] # "none"
      <4>1. PICK g \in Grants : g = prior
        BY <3>2, PairTypes
      <4>2. held'[Place(g)'] = held[Place(g)]
        BY <1>2, <2>3, <3>2, <4>1, GrantMoves
      <4>3. Place(prior)' = Place(g)'
        BY <2>1, <4>1 DEF Place, Now
      <4> QED
        BY <3>2, <4>1, <4>2, <4>3
    <3>3. config # NoConfig /\ held[New] # "none" => held'[New] # "none"
      BY <1>2, <2>3, NewStays
    <3> QED
      BY <2>1, <3>1, <3>2, <3>3 DEF HeldInv, Between
  <2> QED
    BY <2>1, <2>2, <2>3
<1>3. CASE Begin
  <2>1. /\ pc = "planned" /\ UNCHANGED <<config, prior, renamed, held, touched>>
        /\ pc' = "finished" => prior = (IF config = NoConfig THEN NoState ELSE config)
        /\ pc' \notin {"planned", "idle", "revoke old"}
    BY <1>3 DEF Begin, Handler, fixed, log, world
  <2>2. Place(prior)' = Place(prior) /\ New' = New
    BY <2>1 DEF Place, Now, New, Pair
  <2>3. config # NoConfig => Place(config) = New /\ config # NoState
    BY NewInPlace, PairTypes, GrantAssumption
  <2> QED
    BY <2>1, <2>2, <2>3 DEF HeldInv, Between
<1>4. CASE Finish
  <2>1. /\ pc' = "idle" /\ pc = "finished"
        /\ UNCHANGED <<held, config, touched, result>>
    BY <1>4 DEF Finish, world
  <2> QED
    BY <2>1 DEF HeldInv, Between, New, Pair
<1>5. CASE HandlerAct
  <2>1. /\ Quiet /\ pc' \notin {"planned", "idle", "look"}
        /\ UNCHANGED <<touched, config, prior, kind>> /\ New' = New /\ Place(prior)' = Place(prior)
        /\ config # NoConfig => New \in Pairs
        /\ New # NoPair \/ config = NoConfig
    <3>1. Quiet
      BY <1>5, HandlerActs
    <3>2. pc' \notin {"planned", "idle", "look"}
      BY <1>5, CheckFacts, LookFacts, LookNewFacts, LookDeleteFacts, RevokeOldFacts,
         RevokeNewFacts, RevokeDeletedFacts, GrantStepFacts, RestoreFacts
         DEF HandlerAct, NoAnswer, Ends, GrantFailed, AfterOld, End, Succeed, Goto, HandlerInv,
             Moving, RevokeNew, Grant
    <3> QED
      BY <3>1, <3>2, QuietFrame, PairTypes, GrantAssumption
  <2>2. CASE Check
    BY <2>1, <2>2, CheckFacts DEF HeldInv, NoAnswer, End, Succeed, Goto, Between
  <2>3. CASE Look
    BY <2>1, <2>3, LookFacts DEF HeldInv, NoAnswer, End, Succeed, Goto, AfterOld, Between
  <2>4. CASE LookNew
    BY <2>1, <2>4, LookNewFacts DEF HeldInv, NoAnswer, End, Succeed, Goto, Between
  <2>5. CASE LookDelete
    BY <2>1, <2>5, LookDeleteFacts
       DEF HeldInv, NoAnswer, End, Succeed, Goto, Between, HandlerInv
  <2>6. CASE RevokeOld
    BY <2>1, <2>6, RevokeOldFacts, GrantAssumption
       DEF HeldInv, Ends, Ran, End, Succeed, Goto, AfterOld, Between, HandlerInv, Moving
  <2>7. CASE RevokeNew
    BY <2>1, <2>7, RevokeNewFacts
       DEF HeldInv, Ends, End, Goto, Between, HandlerInv, Moving, RevokeNew
  <2>8. CASE RevokeDeleted
    BY <2>1, <2>8, RevokeDeletedFacts
       DEF HeldInv, Ends, End, Succeed, Between, HandlerInv
  <2>9. CASE Grant
    BY <2>1, <2>9, GrantStepFacts
       DEF HeldInv, Ends, GrantFailed, Ran, End, Succeed, Goto, Between, HandlerInv, Grant
  <2>10. CASE Restore
    BY <2>1, <2>10, RestoreFacts DEF HeldInv, Ends, End, Between, HandlerInv
  <2> QED
    BY <1>5, <2>2, <2>3, <2>4, <2>5, <2>6, <2>7, <2>8, <2>9, <2>10 DEF HandlerAct
<1>6. CASE Edit \/ ImportState
  <2>1. pc' = "idle" /\ result' = "none"
    BY <1>6 DEF Edit, ImportState
  <2> QED
    BY <2>1 DEF HeldInv
<1>7. CASE Outside
  BY <1>7, OutsideCases DEF HeldInv
<1>8. CASE UNCHANGED vars
  BY <1>8 DEF vars, world, fixed, log, HeldInv, Place, Now, New, Pair
<1> QED
  BY <1>1, <1>2, <1>3, <1>4, <1>5, <1>6, <1>7, <1>8 DEF Next, Step, HandlerAct

LEMMA KeptStep ==
  ASSUME TypeOK, HandlerInv, RenameInv, EndsExist, HeldInv, KeptInv, [Next]_vars
  PROVE  KeptInv'
<1>1. CASE Refresh \/ Finish \/ Edit \/ ImportState
  <2>1. pc' \in {"idle", "planned"}
    BY <1>1 DEF Refresh, Finish, Edit, ImportState
  <2> QED
    BY <2>1 DEF KeptInv
<1>2. CASE RenameEndpoint
  <2>1. /\ UNCHANGED <<kind, touched, config, prior>> /\ New' = New
        /\ pc \in {"planned", "finished"} /\ pc' \in {"planned", "finished"}
        /\ RenameRuns \/ RenameFails
    BY <1>2, RenameCases DEF New, Pair, RenameRuns, RenameFails
  <2>2. CASE RenameFails
    <3>1. Place(prior)' = Place(prior) /\ held' = held
      BY <2>1, <2>2 DEF RenameFails, Place, Now
    <3>2. Careful' => Careful
      BY <2>1, <2>2 DEF RenameFails, Careful
    <3>3. (pc' = pc /\ result' = result) \/ pc = "planned"
      BY <2>2 DEF RenameFails, Skipped
    <3> QED
      BY <2>1, <3>1, <3>2, <3>3 DEF HeldInv, KeptInv
  <2>3. CASE RenameRuns
    <3>1. pc' = pc /\ result' = result /\ (Careful' <=> Careful)
      BY <2>1, <2>3 DEF RenameRuns, Careful
    <3>2. ASSUME prior # NoState, held[Place(prior)] # "none"
          PROVE  held'[Place(prior)'] # "none"
      <4>1. PICK g \in Grants : g = prior
        BY <3>2, PairTypes
      <4>2. held'[Place(g)'] = held[Place(g)]
        BY <1>2, <2>3, <3>2, <4>1, GrantMoves
      <4>3. Place(prior)' = Place(g)'
        BY <2>1, <4>1 DEF Place, Now
      <4> QED
        BY <3>2, <4>1, <4>2, <4>3
    <3>3. config # NoConfig /\ held[New] # "none" => held'[New] # "none"
      BY <1>2, <2>3, NewStays
    <3> QED
      BY <2>1, <3>1, <3>2, <3>3 DEF KeptInv
  <2> QED
    BY <2>1, <2>2, <2>3
<1>3. CASE Begin
  <2>1. /\ pc = "planned" /\ UNCHANGED <<kind, config, prior, renamed, held, touched, exists>>
        /\ pc' = "finished" => result' = "ok"
        /\ pc' \notin {"revoke old", "look new"}
    BY <1>3 DEF Begin, fixed, log, world
  <2>2. /\ pc' = "grant" => prior = NoState
        /\ pc' = "revoke new" => prior # NoState /\ config # NoConfig /\ Pair(prior) = New
    BY <1>3 DEF Begin, Handler
  <2>3. New' = New /\ (Exist(New)' <=> Exist(New))
    BY <2>1 DEF New, Pair, Exist, Objects
  <2>4. ASSUME pc' = "revoke new", ~touched PROVE held[New] # "none" /\ Exist(New)
    <3>1. Place(prior) = Place(config) /\ Place(config) = New /\ New \in Pairs
      BY <2>2, <2>4, NewInPlace, PairTypes DEF Place, Pair, New
    <3> QED
      BY <2>1, <2>2, <2>4, <3>1 DEF HeldInv, EndsExist
  <2> QED
    BY <2>1, <2>2, <2>3, <2>4 DEF KeptInv
<1>4. CASE HandlerAct
  <2>1. /\ Quiet /\ UNCHANGED <<touched, config, prior, kind>>
        /\ New' = New /\ Place(prior)' = Place(prior)
        /\ config # NoConfig => New \in Pairs /\ (Exist(New)' <=> Exist(New))
    BY <1>4, HandlerActs, QuietFrame, PairTypes
  <2>2. CASE Check
    BY <2>1, <2>2, CheckFacts DEF KeptInv, HandlerInv
  <2>3. CASE Look
    <3>1. CASE NoAnswer \/ End("failed")
      BY <2>1, <2>3, <3>1, LookFacts DEF NoAnswer, End, KeptInv, HeldInv
    <3>2. CASE Goto("revoke old") /\ Exist(New)
      BY <2>1, <3>2 DEF Goto, KeptInv
    <3>3. CASE /\ OldGrant = NoPair /\ AfterOld(newHeld') /\ Exist(New)
               /\ newHeld' = (kind = "impersonation" /\ held[New] # "none")
      <4>1. prior # NoState /\ config # NoConfig
        BY <2>3, LookFacts DEF HandlerInv, Moving
      <4>2. ~touched => held[New] # "none"
        BY <2>3, <3>3, <4>1, NothingOld, LookFacts DEF HeldInv
      <4>3. CASE Goto("look new") \/ Succeed
        BY <2>1, <3>3, <4>3 DEF Goto, Succeed, KeptInv
      <4>4. CASE Goto("grant") /\ held[New] = "none"
        BY <2>1, <4>2, <4>4 DEF KeptInv
      <4> QED
        BY <3>3, <4>3, <4>4 DEF AfterOld
    <3> QED
      BY <2>3, <3>1, <3>2, <3>3, LookFacts
  <2>4. CASE LookNew
    <3>1. kind # "impersonation"
      BY <2>4, LookNewFacts DEF HandlerInv
    <3>2. NoAnswer => ~Careful'
      BY <2>1, <3>1 DEF NoAnswer, Careful
    <3> QED
      BY <2>1, <2>4, <3>1, <3>2, LookNewFacts
         DEF KeptInv, NoAnswer, End, Succeed, Goto
  <2>5. CASE RevokeOld
    <3>1. old = Place(prior) /\ old # NoPair
      BY <2>5, RevokeOldFacts DEF HandlerInv, TypeOK, Between
    <3>2. CASE AfterOld(newHeld)
      BY <2>1, <2>5, <3>1, <3>2, RevokeOldFacts
         DEF KeptInv, AfterOld, Goto, Succeed
    <3>3. CASE End("failed") /\ UNCHANGED held
      BY <2>1, <2>5, <3>3, RevokeOldFacts DEF HeldInv, KeptInv, End
    <3>4. CASE End("failed") /\ mishap' = "unclear"
      BY <2>1, <3>4 DEF KeptInv, End, Careful
    <3> QED
      BY <2>5, <3>2, <3>3, <3>4, RevokeOldFacts DEF Ends
  <2>6. CASE RevokeNew
    <3>1. kind # "impersonation" /\ prior # NoState /\ config # NoConfig
      BY <2>6 DEF HandlerInv, Moving, RevokeNew
    <3>2. ~touched => Exist(New) /\ held[New] # "none"
      BY <2>6, <3>1 DEF KeptInv, RevokeNew
    <3>3. mishap' # "none" => ~Careful'
      BY <2>1, <3>1 DEF Careful
    <3> QED
      BY <2>1, <2>6, <3>1, <3>2, <3>3, RevokeNewFacts DEF KeptInv, Ends, End, Goto
  <2>7. CASE Grant
    <3>1. config # NoConfig /\ pc = "grant"
      BY <2>7 DEF HandlerInv, Grant
    <3>2. CASE Succeed \/ Goto("restore")
      BY <2>1, <3>2 DEF KeptInv, Succeed, Goto
    <3>3. CASE ~(kind = "impersonation" /\ old # NoPair) /\ End("failed")
      <4>1. ASSUME ~touched, prior # NoState PROVE kind # "impersonation" /\ Exist(New)
        BY <3>1, <3>3, <4>1 DEF KeptInv
      <4>2. Exist(New) => mishap' # "none" \/ Succeed
        BY <2>7, <3>1, GrantStepFacts DEF Ends
      <4> QED
        BY <2>1, <3>3, <4>1, <4>2 DEF KeptInv, End, Succeed, Careful
    <3> QED
      BY <2>7, <3>1, <3>2, <3>3, GrantStepFacts DEF Ends, GrantFailed
  <2>8. CASE Restore
    <3>1. old = Place(prior)
      BY <2>8, RestoreFacts DEF HandlerInv, TypeOK, Between
    <3>2. old # NoPair /\ old \in Pairs
      BY <2>8, RestoreFacts, GrantAssumption
    <3> QED
      BY <2>1, <2>8, <3>1, <3>2, RestoreFacts DEF KeptInv, Ends, Ran, End
  <2>9. CASE LookDelete \/ RevokeDeleted
    BY <2>1, <2>9 DEF KeptInv, HandlerInv, LookDelete, RevokeDeleted
  <2> QED
    BY <1>4, <2>2, <2>3, <2>4, <2>5, <2>6, <2>7, <2>8, <2>9 DEF HandlerAct
<1>5. CASE Outside
  BY <1>5, OutsideCases DEF KeptInv
<1>6. CASE UNCHANGED vars
  BY <1>6 DEF vars, world, fixed, log, KeptInv, Careful, Place, Now, New, Pair, Exist, Objects
<1> QED
  BY <1>1, <1>2, <1>3, <1>4, <1>5, <1>6 DEF Next, Step, HandlerAct

-----------------------------------------------------------------------------
LEMMA LifeInit == Init => LifeInv
<1> SUFFICES ASSUME Init PROVE LifeInv
  OBVIOUS
<1>1. TypeOK
  <2>1. /\ held \in [Pairs -> {"none", "plain", "admin"}] /\ own = {}
        /\ exists \subseteq Things \cup Grantees
    BY GrantAssumption DEF Init
  <2>2. config \in Grants
    BY DEF Init, Configs
  <2>3. /\ faults \in 0..MaxFaults /\ edits \in 0..MaxEdits
        /\ renames \in 0..MaxRenames /\ outside \in 0..MaxOutside
    <3>1. MaxFaults \in Nat /\ MaxEdits \in Nat /\ MaxRenames \in Nat /\ MaxOutside \in Nat
      BY GrantAssumption
    <3> QED
      BY <3>1 DEF Init
  <2> QED
    BY <2>1, <2>2, <2>3 DEF Init, TypeOK
<1>2. HandlerInv
  BY DEF Init, HandlerInv, Moving, Between
<1>3. RenameInv /\ EndsExist /\ OwnInv /\ HeldInv /\ KeptInv
  BY DEF Init, RenameInv, EndsExist, OwnInv, HeldInv, KeptInv, Moving, Between
<1> QED
  BY <1>1, <1>2, <1>3 DEF LifeInv

\* LifeInv is inductive.
THEOREM LifeInvariant == Spec => []LifeInv
<1>1. LifeInv /\ [Next]_vars => LifeInv'
  BY TypesStep, HandlerStep, RenameStep, EndsStep, OwnStep, HeldStep, KeptStep DEF LifeInv
<1> QED
  BY LifeInit, <1>1, PTL DEF Spec

\* No step takes a variable out of its range; what this resource granted or imported is
\* held, and the statement that revokes or restores has a pair to name.
THEOREM LifeTypes == Spec => []TypeOK
<1>1. LifeInv => TypeOK
  BY DEF LifeInv
<1> QED
  BY LifeInvariant, <1>1, PTL

\* An apply that ends well, with no other session at work, leaves the configured grant in
\* the database and in state, whatever failed before.
THEOREM Granted == Spec => []SuccessMeansGranted
<1>1. LifeInv => SuccessMeansGranted
  BY DEF LifeInv, SuccessMeansGranted, HandlerInv, HeldInv, Between
<1> QED
  BY LifeInvariant, <1>1, PTL

\* After an apply that ends well, no GRANT of this resource holds but the configured one,
\* unless a rename and the change of the grant fell into different applies.
THEOREM NoneLeftOver == Spec => []NoLeftover
<1>1. LifeInv => NoLeftover
  <2> SUFFICES ASSUME LifeInv, pc = "idle", result = "ok", ~split
               PROVE  own \subseteq (IF config = NoConfig THEN {} ELSE {New})
    BY DEF NoLeftover
  <2>1. own \subseteq (IF state = NoState THEN {} ELSE {Place(state)})
    BY DEF LifeInv, OwnInv
  <2>2. state = (IF config = NoConfig THEN NoState ELSE config)
    BY DEF LifeInv, HandlerInv, Between
  <2>3. config # NoConfig => Place(config) = New
    BY NewInPlace DEF LifeInv
  <2> QED
    BY <2>1, <2>2, <2>3
<1> QED
  BY LifeInvariant, <1>1, PTL

\* An Update that is refused leaves the old grant or the new one; that of an
\* impersonation does so also when a statement fails with an answer and its rollback works.
THEOREM Kept == Spec => []AccessKept
<1>1. LifeInv => AccessKept
  BY DEF LifeInv, KeptInv, AccessKept, Careful, Place
<1> QED
  BY LifeInvariant, <1>1, PTL
=============================================================================
