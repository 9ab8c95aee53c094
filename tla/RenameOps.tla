------------------------------ MODULE RenameOps ------------------------------
(* The pure part of the provider's rename log (exasolclient/client.go): how a
   name is normalised, what Record does to the log and what Lookup reads from
   it. A log is a function from keys to the recorded new name or NoEntry; a key
   is a kind of object with a normalised name. *)
CONSTANTS
  Kinds,       \* RenamePrincipal, RenameConnection, RenameSchema
  SchemaKind,  \* the kind whose names keep their case
  Names,       \* spellings
  Upper,       \* strings.ToUpper on Names
  NoEntry      \* "no rename recorded"

ASSUME NamesAssumption ==
  /\ SchemaKind \in Kinds
  /\ Upper \in [Names -> Names]
  /\ \A n \in Names : Upper[Upper[n]] = Upper[n]
  /\ NoEntry \notin Names

Keys == Kinds \X Names

Logs == [Keys -> Names \cup {NoEntry}]

EmptyLog == [e \in Keys |-> NoEntry]

\* How Exasol compares a name of this kind.
Normalize(kind, n) == IF kind = SchemaKind THEN n ELSE Upper[n]

Key(kind, n) == <<kind, Normalize(kind, n)>>

\* Mutant of Record: entries that led to oldName do not follow.
RecordWithoutFollowing(l, kind, oldName, newName) ==
  [l EXCEPT ![Key(kind, oldName)] = Normalize(kind, newName)]

\* The log after kind oldName was renamed to newName: every entry that led to
\* oldName follows to newName, and oldName itself gets (or replaces) an entry.
Record(l, kind, oldName, newName) ==
  [e \in Keys |->
     IF \/ e = Key(kind, oldName)
        \/ e[1] = kind /\ l[e] # NoEntry /\ Key(kind, l[e]) = Key(kind, oldName)
       THEN Normalize(kind, newName)
       ELSE l[e]]

\* Mutant of Lookup: the spelling of the name decides.
LookupAsSpelled(l, kind, n) == l[<<kind, n>>]

\* The recorded current name of kind n, or NoEntry.
Lookup(l, kind, n) == l[Key(kind, n)]

\* Where a name that was valid when the run began leads to now.
CurrentName(l, kind, n) ==
  IF Lookup(l, kind, n) # NoEntry THEN Lookup(l, kind, n) ELSE Normalize(kind, n)
=============================================================================
