--------------------------- MODULE MCNamedObjects ---------------------------
(* Values for NamedObjects: two resources, and a name to spare for a chain of
   renames. *)
EXTENDS NamedObjectsProofs

MCResources == {"r1", "r2"}
MCNames == {"A", "B", "C"}

MCKindChoices ==
  {[r \in MCResources |-> k] : k \in {"user", "connection"}}
  \cup {[r \in MCResources |-> IF r = "r1" THEN "user" ELSE "role"]}

MCConfig(n, s, h) == [name |-> n, shown |-> s, hidden |-> h]

\* Users change their password, how they are authenticated, and their name; one has
\* no password. Connections change their password and lose their user.
MCChoices ==
  [k \in Kinds |->
     CASE k = "user" -> {MCConfig("A", "PASSWORD", "p"), MCConfig("A", "LDAP", "p"),
                         MCConfig("B", "PASSWORD", "q"), MCConfig("B", "PASSWORD", "none")}
       [] k = "role" -> {MCConfig(n, "none", "none") : n \in MCNames}
       [] k = "connection" -> {MCConfig("A", "u", "p"), MCConfig("A", "u", "q"),
                               MCConfig("B", "u", "p"), MCConfig("C", "none", "none")}]
=============================================================================
