------------------------- MODULE MCSchemaLifecycle -------------------------
(* Values for SchemaLifecycle: two names, so that a schema can be renamed onto a
   name that is taken; the provider's user, another owner and one that does not
   exist; one comment. *)
EXTENDS SchemaLifecycleProofs

CONSTANTS sys, app, ghost, a, b, text

MCNames == {a, b}
MCOwners == {sys, app, ghost}
MCMissing == {ghost}
MCComments == {text}

\* A CREATE or RENAME that takes effect without an answer is not in UnclearSteps:
\* the provider has no way to learn of it.
MCUnclear == {"comment", "owner"}

\* Every step but Create's read-back of the owner.
ConfiguringSteps ==
  {"refresh", "create", "rename", "comment", "owner", "undo", "readback", "delete"}

ReadBackStep == {"readback created"}

NoSteps == {}
=============================================================================
