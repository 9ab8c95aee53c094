-------------------------- MODULE MCGrantLifecycle --------------------------
(* Values for GrantLifecycle: two grantees and two things give a move of either
   endpoint, of both, and a rename of either to a free name. *)
EXTENDS GrantLifecycleProofs

CONSTANTS a, b, s, t

MCGrantees == {a, b}
MCThings == {s, t}
MCKinds == {"role", "system", "connection", "impersonation"}

\* Everything exists, or a name of each kind is free to be taken by a rename.
MCStarts == {{a, b, s, t}, {a, s, t}, {a, b, s}}

\* Every query and statement may fail, and every statement lose its answer.
MCFailing ==
  {"refresh", "rename", "check", "look", "revoke old", "look new", "revoke new", "grant",
   "restore", "look delete", "revoke"}
MCUnclear == {"revoke old", "revoke new", "grant", "restore", "revoke"}
=============================================================================
