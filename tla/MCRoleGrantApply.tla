-------------------------- MODULE MCRoleGrantApply --------------------------
(* Roles r and s, two users u and v and a user w that may be created. g1 starts
   with r granted to u, spelled "a"; g2 with r granted to v; either may be new,
   and a new g2 may be about s instead. *)
EXTENDS RoleGrantApplyProofs

MCNames == {"a", "A", "B", "C", "Q", "R", "S", "Z"}
MCUpper == [n \in MCNames |-> IF n = "a" THEN "A" ELSE n]
MCRank == [n \in MCNames |->
  CASE n = "A" -> 1 [] n = "B" -> 2 [] n = "C" -> 3 [] n = "Q" -> 4
    [] n = "R" -> 5 [] n = "S" -> 6 [] n = "Z" -> 7 [] n = "a" -> 8]
MCPrincipals == {"r", "s", "u", "v", "w"}
MCRoles == {"r", "s"}
MCResources == {"g1", "g2"}

MCStart == [o \in MCPrincipals |->
  CASE o = "r" -> "R" [] o = "s" -> "S" [] o = "u" -> "A" [] o = "v" -> "B"
    [] o = "w" -> Absent]

Goals ==
  {[o \in MCPrincipals |->
      CASE o = "r" -> gr [] o = "s" -> "S" [] o = "u" -> gu [] o = "v" -> gv [] o = "w" -> gw] :
     gr \in {"R", "Q"}, gu \in {"A", "C", Absent}, gv \in {"B", "A", Absent},
     gw \in {Absent, "A"}}

Config(role, grantee, admin) == [role |-> role, grantee |-> grantee, admin |-> admin]

Had1 == {NoGrant, Config("R", "a", FALSE)}
Had2 == {NoGrant, Config("R", "B", TRUE)}

Named(goal, n) == \E o \in MCPrincipals : goal[o] = MCUpper[n]

\* Names in the plan exist at the end, except for "Z", which never does.
Want1(goal) ==
  {NoGrant} \cup
  {Config(goal["r"], n, admin) :
     n \in {m \in {"a", "B", "C"} : Named(goal, m)} \cup {"Z"}, admin \in BOOLEAN}

Want2(goal, had) ==
  {NoGrant} \cup
  {Config(goal["r"], n, TRUE) : n \in {m \in {"A", "B"} : Named(goal, m)}} \cup
  {Config("S", n, TRUE) : n \in {m \in {"A", "C"} : Named(goal, m) /\ had = NoGrant}}

Scenario(goal, had1, had2, want1, want2) ==
  [start |-> MCStart, goal |-> goal,
   had  |-> [q \in MCResources |-> IF q = "g1" THEN had1 ELSE had2],
   want |-> [q \in MCResources |-> IF q = "g1" THEN want1 ELSE want2]]

AllScenarios ==
  UNION {{Scenario(goal, had1, had2, want1, want2) :
            want1 \in Want1(goal), want2 \in Want2(goal, had2)} :
         goal \in {g \in Goals : UniqueNames(g)}, had1 \in Had1, had2 \in Had2}

MCScenarios == {s \in AllScenarios : Promising(s)}

\* u is dropped and its name reused by w, which gets a grant of its own (g2),
\* while g1 moves from u to v.
ReuseScenarios ==
  {s \in AllScenarios :
     /\ s.goal["u"] = Absent /\ s.goal["w"] = "A"
     /\ s.had["g1"] # NoGrant /\ Meant(s.goal, s.want["g1"]) = {<<"r", "v">>}
     /\ s.had["g2"] = NoGrant /\ Meant(s.goal, s.want["g2"]) = {<<"r", "w">>}}
=============================================================================
