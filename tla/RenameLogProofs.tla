--------------------------- MODULE RenameLogProofs ---------------------------
(* LastLeaverTracked and StateNameResolves for any set of objects, names and
   kinds. RenameInv is the inductive invariant; TLC checks it in the run
   rename. *)
EXTENDS RenameLog, TLAPS

LeaverNoted == \A e \in Keys : log[e] # NoEntry => leaver[e] # NoObject

UniqueNames ==
  \A o, p \in Objects :
    o # p /\ KindOf[o] = KindOf[p] /\ Live(o) => name[o] # name[p]

NormalizedNames ==
  /\ \A o \in Objects : Live(o) => Normalize(KindOf[o], name[o]) = name[o]
  /\ inflight # NoObject =>
       /\ left \in Names /\ Normalize(KindOf[inflight], left) = left
       /\ taken \in Names /\ Normalize(KindOf[inflight], taken) = taken
       /\ Live(inflight) => name[inflight] = taken
       /\ inflight \in touched

\* A leaver has the kind of its key and has been touched, so no object created
\* later can be one.
LeaverOfKind ==
  \A e \in Keys : leaver[e] # NoObject =>
    KindOf[leaver[e]] = e[1] /\ leaver[e] \in touched

\* While a rename is in flight its object's entries still lead to the name it
\* left, and no other leaver has that name: only a newly created object can.
WindowInv ==
  inflight # NoObject =>
    \A e \in Keys : leaver[e] # NoObject =>
      /\ leaver[e] = inflight => log[e] = left
      /\ leaver[e] # inflight /\ Live(leaver[e]) /\ e[1] = KindOf[inflight]
           => name[leaver[e]] # left

\* With one Create or Update per object, the leaver of a start name is the
\* object that started under it.
OnceInv ==
  once =>
    /\ \A o \in Objects \ touched : Live(o) => name[o] = StartName[o]
    /\ \A e \in Keys : leaver[e] # NoObject => StartName[leaver[e]] = e[2]
    /\ inflight # NoObject => StartName[inflight] = left
    /\ \A o \in touched :
         StartName[o] # Absent /\ o # inflight
           => leaver[<<KindOf[o], StartName[o]>>] = o

RenameInv ==
  /\ TypeOK
  /\ LeaverNoted
  /\ UniqueNames
  /\ NormalizedNames
  /\ LeaverOfKind
  /\ WindowInv
  /\ OnceInv
  /\ LastLeaverTracked

\* Normalising a name gives a name that normalising does not change.
LEMMA NormalizeIdempotent ==
  ASSUME NEW k \in Kinds, NEW n \in Names
  PROVE  /\ Normalize(k, n) \in Names
         /\ Normalize(k, Normalize(k, n)) = Normalize(k, n)
BY NamesAssumption DEF Normalize

\* What Record leaves in each entry, for normalised names.
LEMMA RecordEntries ==
  ASSUME NEW l \in Logs, NEW k \in Kinds, NEW old \in Names, NEW new \in Names,
         Normalize(k, old) = old, Normalize(k, new) = new
  PROVE  /\ Record(l, k, old, new) \in Logs
         /\ Record(l, k, old, new)[<<k, old>>] = new
         /\ \A e \in Keys : l[e] = NoEntry /\ e # <<k, old>>
              => Record(l, k, old, new)[e] = NoEntry
         /\ \A e \in Keys : e[1] = k /\ l[e] = old
              => Record(l, k, old, new)[e] = new
         /\ \A e \in Keys :
              /\ e # <<k, old>>
              /\ e[1] # k \/ (l[e] # old /\ Normalize(k, l[e]) = l[e])
              => Record(l, k, old, new)[e] = l[e]
         /\ \A e \in Keys : Record(l, k, old, new)[e] = NoEntry => l[e] = NoEntry
<1>1. <<k, old>> \in Keys
  BY DEF Keys
<1>2. \A e \in Keys : l[e] \in Names \cup {NoEntry}
  BY DEF Logs
<1>3. old # NoEntry /\ new # NoEntry
  BY NamesAssumption
<1>4. \A e \in Keys : Record(l, k, old, new)[e] =
        IF \/ e = <<k, old>>
           \/ e[1] = k /\ l[e] # NoEntry /\ <<k, Normalize(k, l[e])>> = <<k, old>>
          THEN new ELSE l[e]
  BY DEF Record, Key
<1>5. Record(l, k, old, new) \in Logs
  BY <1>2 DEF Record, Logs
<1> QED
  BY <1>1, <1>2, <1>3, <1>4, <1>5

-----------------------------------------------------------------------------
\* The initial state satisfies the invariant: no entry, no leaver.
LEMMA InitInv == Init => RenameInv
<1> SUFFICES ASSUME Init PROVE RenameInv
  OBVIOUS
<1>1. TypeOK
  BY ObjectsAssumption DEF Init, TypeOK, Logs, EmptyLog
<1>2. LeaverNoted /\ LeaverOfKind /\ LastLeaverTracked
  BY DEF Init, EmptyLog, LeaverNoted, LeaverOfKind, LastLeaverTracked
<1>3. UniqueNames /\ NormalizedNames
  BY ObjectsAssumption DEF Init, UniqueNames, NormalizedNames, Live
<1>4. WindowInv /\ OnceInv
  BY DEF Init, WindowInv, OnceInv, Live
<1> QED
  BY <1>1, <1>2, <1>3, <1>4 DEF RenameInv

\* Create gives a free name to a fresh object, which nobody remembers.
LEMMA CreateInv ==
  ASSUME RenameInv, NEW o \in Objects, NEW n \in Names, Create(o, n)
  PROVE  RenameInv'
<1> DEFINE k == KindOf[o]
<1> DEFINE new == Normalize(k, n)
<1> USE DEF RenameInv
<1>0. k \in Kinds /\ new \in Names /\ Normalize(k, new) = new /\ new # Absent
  BY ObjectsAssumption, NormalizeIdempotent
<1>1. name' = [name EXCEPT ![o] = new] /\ name \in [Objects -> Names \cup {Absent}]
  BY DEF Create, TypeOK
<1>2. o \notin touched /\ o # inflight /\ StartName[o] = Absent /\ name[o] = Absent
  BY ObjectsAssumption DEF Create, NormalizedNames, Live
<1>3. \A e \in Keys : leaver[e] # o
  BY <1>2, ObjectsAssumption DEF LeaverOfKind
<1>4. \A p \in Objects : KindOf[p] = k => name[p] # new
  BY DEF Create, Free
<1>5. UNCHANGED <<once, log, inflight, left, taken, leaver>> /\ touched' = touched \cup {o}
  BY DEF Create
<1>6. TypeOK'
  BY <1>0, <1>1, <1>5 DEF TypeOK
<1>7. LeaverNoted' /\ LeaverOfKind'
  BY <1>5 DEF LeaverNoted, LeaverOfKind
<1>8. UniqueNames'
  BY <1>0, <1>1, <1>4 DEF UniqueNames, Live
<1>9. NormalizedNames'
  BY <1>0, <1>1, <1>2, <1>5 DEF NormalizedNames, Live
<1>10. WindowInv'
  BY <1>1, <1>3, <1>5 DEF WindowInv, Live, TypeOK
<1>11. OnceInv'
  BY <1>1, <1>2, <1>5 DEF OnceInv, Live
<1>12. LastLeaverTracked'
  BY <1>1, <1>3, <1>5 DEF LastLeaverTracked, Live, TypeOK
<1> QED
  BY <1>6, <1>7, <1>8, <1>9, <1>10, <1>11, <1>12

\* Drop only takes a name away.
LEMMA DropInv ==
  ASSUME RenameInv, NEW o \in Objects, Drop(o)
  PROVE  RenameInv'
<1> USE DEF RenameInv
<1>1. name' = [name EXCEPT ![o] = Absent] /\ name \in [Objects -> Names \cup {Absent}]
  BY DEF Drop, TypeOK
<1>2. UNCHANGED <<once, log, inflight, left, taken, touched, leaver>>
  BY DEF Drop
<1>3. TypeOK'
  BY <1>1, <1>2 DEF TypeOK
<1>4. LeaverNoted' /\ LeaverOfKind'
  BY <1>2 DEF LeaverNoted, LeaverOfKind
<1>5. UniqueNames' /\ NormalizedNames'
  BY <1>1, <1>2 DEF UniqueNames, NormalizedNames, Live
<1>6. WindowInv'
  BY <1>1, <1>2 DEF WindowInv, Live, TypeOK
<1>7. OnceInv'
  BY <1>1, <1>2 DEF OnceInv, Live
<1>8. LastLeaverTracked'
  BY <1>1, <1>2 DEF LastLeaverTracked, Live, TypeOK
<1> QED
  BY <1>3, <1>4, <1>5, <1>6, <1>7, <1>8

\* The RENAME statement opens the window: the object's entries still lead to
\* the name it left, which nobody else has.
LEMMA RenameStatementInv ==
  ASSUME RenameInv, NEW o \in Objects, NEW n \in Names, RenameStatement(o, n)
  PROVE  RenameInv'
<1> DEFINE k == KindOf[o]
<1> DEFINE new == Normalize(k, n)
<1> USE DEF RenameInv
<1>0. k \in Kinds /\ new \in Names /\ Normalize(k, new) = new /\ new # Absent
  BY ObjectsAssumption, NormalizeIdempotent
<1>1. name' = [name EXCEPT ![o] = new] /\ name \in [Objects -> Names \cup {Absent}]
  BY DEF RenameStatement, TypeOK
<1>2. /\ inflight = NoObject /\ inflight' = o /\ left' = name[o] /\ taken' = new
      /\ touched' = touched \cup {o} /\ UNCHANGED <<once, log, leaver>>
  BY DEF RenameStatement
<1>3. name[o] \in Names /\ Normalize(k, name[o]) = name[o] /\ name[o] # Absent
  BY <1>1 DEF RenameStatement, NormalizedNames, Live
<1>4. \A p \in Objects : KindOf[p] = k => name[p] # new
  BY DEF RenameStatement, Free
<1>5. NoObject \notin Objects /\ \A e \in Keys : leaver[e] \in Objects \cup {NoObject}
  BY ObjectsAssumption DEF TypeOK
<1>6. TypeOK'
  BY <1>0, <1>1, <1>2, <1>3 DEF TypeOK
<1>7. LeaverNoted' /\ LeaverOfKind'
  BY <1>2 DEF LeaverNoted, LeaverOfKind
<1>8. UniqueNames'
  BY <1>0, <1>1, <1>4 DEF UniqueNames, Live
<1>9. NormalizedNames'
  BY <1>0, <1>1, <1>2, <1>3 DEF NormalizedNames, Live
<1>10. WindowInv'
  <2> SUFFICES ASSUME NEW e \in Keys, leaver[e] # NoObject
               PROVE  /\ leaver[e] = o => log[e] = name[o]
                      /\ leaver[e] # o /\ name'[leaver[e]] # Absent /\ e[1] = k
                           => name'[leaver[e]] # name[o]
    BY <1>2 DEF WindowInv, Live
  <2>1. leaver[e] = o => log[e] = name[o]
    BY <1>2, <1>3, <1>5 DEF LastLeaverTracked, Live
  <2>2. ASSUME leaver[e] # o, e[1] = k
        PROVE  name'[leaver[e]] # name[o]
    BY <2>2, <1>1, <1>3, <1>5 DEF UniqueNames, LeaverOfKind, Live
  <2> QED
    BY <2>1, <2>2
<1>11. OnceInv'
  <2> SUFFICES ASSUME once PROVE OnceInv'
    BY <1>2 DEF OnceInv
  <2>1. o \notin touched /\ name[o] = StartName[o]
    BY <1>3 DEF RenameStatement, OnceInv, Live
  <2>2. \A p \in Objects \ touched' : Live(p)' => name'[p] = StartName[p]
    BY <1>1, <1>2 DEF OnceInv, Live
  <2>3. \A p \in touched' : StartName[p] # Absent /\ p # o
          => leaver[<<KindOf[p], StartName[p]>>] = p
    BY <1>2, <1>5 DEF OnceInv, TypeOK
  <2>4. \A e \in Keys : leaver[e] # NoObject => StartName[leaver[e]] = e[2]
    BY DEF OnceInv
  <2> QED
    BY <1>2, <2>1, <2>2, <2>3, <2>4 DEF OnceInv
<1>12. LastLeaverTracked'
  BY <1>1, <1>2, <1>5 DEF LastLeaverTracked, Live
<1> QED
  BY <1>6, <1>7, <1>8, <1>9, <1>10, <1>11, <1>12

\* Record closes the window: the entries that led to the left name follow.
LEMMA RecordRenameInv ==
  ASSUME RenameInv, NEW o \in Objects, RecordRename(o)
  PROVE  RenameInv'
<1> DEFINE k == KindOf[o]
<1> USE DEF RenameInv
<1>0. /\ inflight = o /\ inflight' = NoObject /\ left' = Absent /\ taken' = Absent
      /\ log' = Record(log, k, left, taken)
      /\ leaver' = [leaver EXCEPT ![Key(k, left)] = o]
      /\ UNCHANGED <<once, name, touched>>
  BY DEF RecordRename
<1>1. /\ NoObject \notin Objects /\ k \in Kinds
      /\ \A e \in Keys : leaver[e] \in Objects \cup {NoObject}
  BY ObjectsAssumption DEF TypeOK
<1>2. /\ left \in Names /\ Normalize(k, left) = left
      /\ taken \in Names /\ Normalize(k, taken) = taken
      /\ Live(o) => name[o] = taken
      /\ o \in touched
  BY <1>0, <1>1 DEF NormalizedNames
<1>3. /\ Key(k, left) = <<k, left>> /\ <<k, left>> \in Keys
      /\ leaver \in [Keys -> Objects \cup {NoObject}]
  BY <1>1, <1>2 DEF Key, Keys, TypeOK
<1>4. log \in Logs
  BY DEF TypeOK
<1>5. /\ log' \in Logs
      /\ log'[<<k, left>>] = taken
      /\ \A e \in Keys : log[e] = NoEntry /\ e # <<k, left>> => log'[e] = NoEntry
      /\ \A e \in Keys : e[1] = k /\ log[e] = left => log'[e] = taken
      /\ \A e \in Keys :
           /\ e # <<k, left>>
           /\ e[1] # k \/ (log[e] # left /\ Normalize(k, log[e]) = log[e])
           => log'[e] = log[e]
  BY <1>0, <1>1, <1>2, <1>4, RecordEntries
<1>6. \A e \in Keys : leaver'[e] = IF e = <<k, left>> THEN o ELSE leaver[e]
  BY <1>0, <1>3
<1>7. TypeOK'
  BY <1>0, <1>3, <1>5 DEF TypeOK
<1>8. LeaverNoted'
  BY <1>1, <1>5, <1>6 DEF LeaverNoted
<1>9. UniqueNames' /\ NormalizedNames'
  BY <1>0 DEF UniqueNames, NormalizedNames, Live
<1>10. LeaverOfKind'
  BY <1>0, <1>2, <1>6 DEF LeaverOfKind
<1>11. WindowInv'
  BY <1>0 DEF WindowInv
<1>12. OnceInv'
  <2> SUFFICES ASSUME once PROVE OnceInv'
    BY <1>0 DEF OnceInv
  <2>1. StartName[o] = left
    BY <1>0, <1>1 DEF OnceInv
  <2>2. \A e \in Keys : leaver'[e] # NoObject => StartName[leaver'[e]] = e[2]
    BY <1>6, <2>1 DEF OnceInv
  <2>3. \A p \in touched : StartName[p] # Absent
          => leaver'[<<KindOf[p], StartName[p]>>] = p
    <3> SUFFICES ASSUME NEW p \in touched, StartName[p] # Absent
                 PROVE  leaver'[<<KindOf[p], StartName[p]>>] = p
      OBVIOUS
    <3>1. p \in Objects /\ <<KindOf[p], StartName[p]>> \in Keys
      BY ObjectsAssumption DEF TypeOK, Keys
    <3>2. CASE p = o
      BY <3>1, <3>2, <1>6, <2>1
    <3>3. CASE p # o
      <4>1. leaver[<<KindOf[p], StartName[p]>>] = p
        BY <3>3, <1>0 DEF OnceInv
      <4>2. <<KindOf[p], StartName[p]>> # <<k, left>>
        BY <3>1, <3>3, <2>1, ObjectsAssumption
      <4> QED
        BY <4>1, <4>2, <3>1, <1>6
    <3> QED
      BY <3>2, <3>3
  <2> QED
    BY <1>0, <2>2, <2>3 DEF OnceInv, Live
<1>13. LastLeaverTracked'
  <2> SUFFICES ASSUME NEW e \in Keys, leaver'[e] # NoObject, Live(leaver'[e])
               PROVE  log'[e] = name[leaver'[e]]
    BY <1>0 DEF LastLeaverTracked, Live
  <2>1. CASE e = <<k, left>>
    BY <2>1, <1>2, <1>5, <1>6
  <2>2. CASE e # <<k, left>> /\ leaver[e] = o
    BY <2>2, <1>0, <1>1, <1>2, <1>5, <1>6 DEF WindowInv, LeaverOfKind
  <2>3. CASE e # <<k, left>> /\ leaver[e] # o
    <3>1. leaver'[e] = leaver[e] /\ leaver[e] \in Objects /\ KindOf[leaver[e]] = e[1]
      BY <2>3, <1>1, <1>6 DEF LeaverOfKind
    <3>2. log[e] = name[leaver[e]]
      BY <2>3, <3>1, <1>0 DEF LastLeaverTracked
    <3>3. Normalize(e[1], log[e]) = log[e]
      BY <3>1, <3>2 DEF NormalizedNames
    <3>4. e[1] = k => log[e] # left
      BY <2>3, <3>1, <3>2, <1>0, <1>1 DEF WindowInv
    <3> QED
      BY <2>3, <3>1, <3>2, <3>3, <3>4, <1>5
  <2> QED
    BY <2>1, <2>2, <2>3
<1> QED
  BY <1>7, <1>8, <1>9, <1>10, <1>11, <1>12, <1>13

\* Every step keeps the invariant.
LEMMA NextInv == RenameInv /\ [Next]_vars => RenameInv'
<1> SUFFICES ASSUME RenameInv, [Next]_vars PROVE RenameInv'
  OBVIOUS
<1>1. ASSUME NEW o \in Objects, NEW n \in Names, Create(o, n) PROVE RenameInv'
  BY <1>1, CreateInv
<1>2. ASSUME NEW o \in Objects, Drop(o) PROVE RenameInv'
  BY <1>2, DropInv
<1>3. ASSUME NEW o \in Objects, NEW n \in Names, RenameStatement(o, n) PROVE RenameInv'
  BY <1>3, RenameStatementInv
<1>4. ASSUME NEW o \in Objects, RecordRename(o) PROVE RenameInv'
  BY <1>4, RecordRenameInv
<1>5. CASE UNCHANGED vars
  BY <1>5 DEF vars, RenameInv, TypeOK, LeaverNoted, UniqueNames, NormalizedNames,
              LeaverOfKind, WindowInv, OnceInv, LastLeaverTracked, Live
<1> QED
  BY <1>1, <1>2, <1>3, <1>4, <1>5 DEF Next

\* With one operation per object, a start name leads to its object: either the
\* object left it and is tracked, or nobody left it.
LEMMA InvResolves == RenameInv => StateNameResolves
<1> SUFFICES ASSUME RenameInv, once,
                    NEW o \in Objects, NEW n \in Names,
                    StartName[o] # Absent, Normalize(KindOf[o], n) = StartName[o],
                    Live(o), inflight # o
             PROVE  CurrentName(log, KindOf[o], n) = name[o]
  BY DEF StateNameResolves
<1> DEFINE e == <<KindOf[o], StartName[o]>>
<1> USE DEF RenameInv
<1>1. e \in Keys /\ Lookup(log, KindOf[o], n) = log[e]
  BY ObjectsAssumption DEF Keys, Lookup, Key
<1>2. CASE o \in touched
  <2>1. leaver[e] = o
    BY <1>2 DEF OnceInv
  <2>2. log[e] = name[o] /\ name[o] \in Names
    BY <1>1, <2>1, ObjectsAssumption DEF LastLeaverTracked, Live, TypeOK
  <2> QED
    BY <1>1, <2>2, NamesAssumption DEF CurrentName
<1>3. CASE o \notin touched
  <2>1. ASSUME log[e] # NoEntry PROVE FALSE
    <3>1. leaver[e] # NoObject /\ leaver[e] \in Objects
      BY <1>1, <2>1 DEF LeaverNoted, TypeOK
    <3>2. StartName[leaver[e]] = StartName[o] /\ KindOf[leaver[e]] = KindOf[o]
      BY <1>1, <3>1 DEF OnceInv, LeaverOfKind
    <3>3. leaver[e] = o
      BY <3>1, <3>2, ObjectsAssumption
    <3> QED
      BY <1>1, <1>3, <3>1, <3>3 DEF LeaverOfKind
  <2>2. name[o] = StartName[o]
    BY <1>3 DEF OnceInv
  <2> QED
    BY <1>1, <2>1, <2>2 DEF CurrentName
<1> QED
  BY <1>2, <1>3

-----------------------------------------------------------------------------
\* The rename log's invariant holds in every run of one provider instance.
THEOREM RenameInvariant == Spec => []RenameInv
<1>1. Init => RenameInv
  BY InitInv
<1>2. RenameInv /\ [Next]_vars => RenameInv'
  BY NextInv
<1> QED
  BY <1>1, <1>2, PTL DEF Spec

\* Types of the rename log's state.
THEOREM RenameTypes == Spec => []TypeOK
<1>1. RenameInv => TypeOK
  BY DEF RenameInv
<1> QED
  BY <1>1, RenameInvariant, PTL

\* For any number of renames, reuses and drops, the log leads from every name
\* to the object that was last renamed away from it (client.go Record, Lookup).
THEOREM LogTracksLastLeaver == Spec => []LastLeaverTracked
<1>1. RenameInv => LastLeaverTracked
  BY DEF RenameInv
<1> QED
  BY <1>1, RenameInvariant, PTL

\* In an apply, a name from the prior state leads to the object it named then,
\* whoever has that name now (helpers.go resolveEndpoint and every Delete).
THEOREM LogResolvesStateNames == Spec => []StateNameResolves
<1>1. RenameInv => StateNameResolves
  BY InvResolves
<1> QED
  BY <1>1, RenameInvariant, PTL
=============================================================================
