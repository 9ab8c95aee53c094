------------------------------ MODULE RenameLog ------------------------------
(* The rename log of one provider instance next to the objects it talks about.

   Objects (users, roles, connections, schemas) have an identity here which
   Exasol does not give them; the log exists to recover it from names. Renames
   run under deleteMutex (schema_resource.go, user_resource.go,
   role_resource.go, connection_resource.go), so one is in flight at a time:
   RenameStatement commits the statement and RecordRename notes it, and other
   objects may be created between the two. *)
EXTENDS RenameOps

CONSTANTS
  Objects,      \* every object that exists at some time of the run
  KindOf,       \* [Objects -> Kinds]
  StartName,    \* [Objects -> names and Absent]: the objects at the start
  Absent,       \* name of an object that does not exist
  NoObject

ASSUME ObjectsAssumption ==
  /\ KindOf \in [Objects -> Kinds]
  /\ StartName \in [Objects -> Names \cup {Absent}]
  /\ Absent \notin Names
  /\ NoObject \notin Objects
  /\ \A o \in Objects : StartName[o] # Absent =>
       Normalize(KindOf[o], StartName[o]) = StartName[o]
  /\ \A o, p \in Objects :
       /\ o # p /\ KindOf[o] = KindOf[p] /\ StartName[o] # Absent
       => StartName[o] # StartName[p]

VARIABLES
  once,      \* whether each object has at most one Create or Update in this run
  name,      \* current name of each object in the database
  log,       \* RenameLog.m
  inflight,  \* the object whose RENAME has committed and is not recorded yet
  left,      \* the name that object left
  taken,     \* the name it took
  touched,   \* objects created or renamed in this run
  leaver     \* history: who was last renamed away from each key

vars == <<once, name, log, inflight, left, taken, touched, leaver>>

Live(o) == name[o] # Absent

Free(kind, n) == \A p \in Objects : KindOf[p] = kind => name[p] # n

TypeOK ==
  /\ once \in BOOLEAN
  /\ name \in [Objects -> Names \cup {Absent}]
  /\ log \in Logs
  /\ inflight \in Objects \cup {NoObject}
  /\ left \in Names \cup {Absent}
  /\ taken \in Names \cup {Absent}
  /\ touched \in SUBSET Objects
  /\ leaver \in [Keys -> Objects \cup {NoObject}]

Init ==
  /\ once \in BOOLEAN
  /\ name = StartName
  /\ log = EmptyLog
  /\ inflight = NoObject
  /\ left = Absent
  /\ taken = Absent
  /\ touched = {}
  /\ leaver = [e \in Keys |-> NoObject]

-----------------------------------------------------------------------------
\* CREATE of an object that did not exist before in this run. Creates take no
\* lock, so one may fall between a rename and its record.
Create(o, n) ==
  /\ ~Live(o) /\ StartName[o] = Absent /\ o \notin touched
  /\ Free(KindOf[o], Normalize(KindOf[o], n))
  /\ name' = [name EXCEPT ![o] = Normalize(KindOf[o], n)]
  /\ touched' = touched \cup {o}
  /\ UNCHANGED <<once, log, inflight, left, taken, leaver>>

\* DROP, by this provider under deleteMutex or by another session at any time.
Drop(o) ==
  /\ Live(o)
  /\ name' = [name EXCEPT ![o] = Absent]
  /\ UNCHANGED <<once, log, inflight, left, taken, touched, leaver>>

\* The RENAME statement of o's Update has committed.
RenameStatement(o, n) ==
  /\ inflight = NoObject
  /\ Live(o)
  /\ once => o \notin touched
  /\ Free(KindOf[o], Normalize(KindOf[o], n))
  /\ inflight' = o
  /\ left' = name[o]
  /\ taken' = Normalize(KindOf[o], n)
  /\ name' = [name EXCEPT ![o] = Normalize(KindOf[o], n)]
  /\ touched' = touched \cup {o}
  /\ UNCHANGED <<once, log, leaver>>

\* The same Update calls Record, still holding deleteMutex.
RecordRename(o) ==
  /\ inflight = o
  /\ log' = Record(log, KindOf[o], left, taken)
  /\ leaver' = [leaver EXCEPT ![Key(KindOf[o], left)] = o]
  /\ inflight' = NoObject
  /\ left' = Absent
  /\ taken' = Absent
  /\ UNCHANGED <<once, name, touched>>

Next ==
  \E o \in Objects :
    \/ \E n \in Names : Create(o, n)
    \/ Drop(o)
    \/ \E n \in Names : RenameStatement(o, n)
    \/ RecordRename(o)

Spec == Init /\ [][Next]_vars

-----------------------------------------------------------------------------
\* The log always knows where the object went that was last renamed away from
\* a name: client.go:49-50, "old names always resolve to the latest name", with
\* any number of renames, reused names and drops in between.
LastLeaverTracked ==
  \A e \in Keys :
    leaver[e] # NoObject /\ Live(leaver[e]) /\ leaver[e] # inflight
      => log[e] = name[leaver[e]]

\* What the grant resources rely on (resolveEndpoint, Delete, and
\* lockGranteesAndRenames): with one Create or Update per object, which is what
\* one apply does, a name that state recorded before the run leads to the
\* object it named then, in every spelling, even when another object has taken
\* that name since.
StateNameResolves ==
  once =>
    \A o \in Objects, n \in Names :
      /\ StartName[o] # Absent /\ Normalize(KindOf[o], n) = StartName[o]
      /\ Live(o) /\ inflight # o
      => CurrentName(log, KindOf[o], n) = name[o]
=============================================================================
