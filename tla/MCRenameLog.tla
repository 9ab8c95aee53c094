----------------------------- MODULE MCRenameLog -----------------------------
(* Three principals and a schema; "a" and "A" are one principal name and two
   schema names. Three principals can take turns on three names. *)
EXTENDS RenameLogProofs

MCNames == {"a", "A", "B", "C"}
MCUpper == [n \in MCNames |-> IF n = "a" THEN "A" ELSE n]
MCObjects == {"p", "q", "r", "s"}
MCKindOf == [o \in MCObjects |-> IF o = "s" THEN "SCHEMA" ELSE "PRINCIPAL"]
MCStartName == [o \in MCObjects |->
  CASE o = "p" -> "A" [] o = "q" -> "B" [] o = "r" -> "none" [] o = "s" -> "a"]
=============================================================================
