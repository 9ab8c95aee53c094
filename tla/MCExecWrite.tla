---------------------------- MODULE MCExecWrite ----------------------------
(* WriteInv is defined with the proofs; the constants are in the .cfg file. *)
EXTENDS ExecWrite
=============================================================================
