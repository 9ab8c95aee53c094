------------------------- MODULE MCObjectPrivilege -------------------------
(* Values for ObjectPrivilege: two principals and two schemas, with a name of
   each kind to spare, among them two schema names that differ by case. *)
EXTENDS ObjectPrivilegeProofs, TLC

CONSTANTS u, v, s, t

MCPrincipals == {u, v}
MCSchemas == {s, t}
MCGrantees == {"A", "B"}
MCSpellings == {"S", "s", "T"}
MCKinds == {"principal", "schema"}
MCNames == MCGrantees \cup MCSpellings
MCUpper == [n \in MCNames |-> IF n = "s" THEN "S" ELSE n]

\* One principal and one schema, both principals, or both schemas as twins.
MCStarts ==
  {u :> "A" @@ v :> "Absent" @@ s :> "S" @@ t :> "Absent",
   u :> "A" @@ v :> "B" @@ s :> "S" @@ t :> "Absent",
   u :> "A" @@ v :> "B" @@ s :> "S" @@ t :> "s"}

MCPrivileges == {"SELECT", "USAGE"}

Config(g, n, P) == [grantee |-> g, spelling |-> n, privileges |-> P]
MCConfigs ==
  {Config("A", "S", P) : P \in {{"SELECT"}, {"SELECT", "USAGE"}, {"ALL"}}}
  \cup {Config("A", "s", {"SELECT", "USAGE"}), Config("A", "T", {"SELECT"}),
        Config("B", "S", {"ALL"}), Config("B", "s", {"SELECT"})}

\* As GrantedWhenOk has it.
ASSUME MCAllAlone == AllAlone
=============================================================================
