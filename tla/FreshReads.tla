----------------------------- MODULE FreshReads -----------------------------
(* What the read cache promises to the Read handlers, without a cache: a read
   answers with the database as it was at some moment no earlier than the last
   return of a write before the read began. ReadCache implements it. *)
EXTENDS Naturals

CONSTANTS Readers, Writers

VARIABLES
  version,   \* of the database
  step,      \* of each write: "exec", "clear", "done"
  returned,  \* version at the last return of a write
  phase,     \* of each read: "idle", "reading", "answered"
  floor,     \* returned when the read began
  answer     \* the version a read shows

vars == <<version, step, returned, phase, floor, answer>>

Init ==
  /\ version = 0 /\ returned = 0
  /\ step = [w \in Writers |-> "exec"]
  /\ phase = [r \in Readers |-> "idle"]
  /\ floor = [r \in Readers |-> 0]
  /\ answer = [r \in Readers |-> 0]

Execute(w) ==
  /\ step[w] = "exec" /\ step' = [step EXCEPT ![w] = "clear"]
  /\ version' \in {version, version + 1}
  /\ UNCHANGED <<returned, phase, floor, answer>>

Return(w) ==
  /\ step[w] = "clear" /\ step' = [step EXCEPT ![w] = "done"]
  /\ returned' = version
  /\ UNCHANGED <<version, phase, floor, answer>>

Begin(r) ==
  /\ phase[r] = "idle" /\ phase' = [phase EXCEPT ![r] = "reading"]
  /\ floor' = [floor EXCEPT ![r] = returned]
  /\ UNCHANGED <<version, step, returned, answer>>

End(r) ==
  /\ phase[r] = "reading" /\ phase' = [phase EXCEPT ![r] = "answered"]
  /\ \E v \in floor[r]..version : answer' = [answer EXCEPT ![r] = v]
  /\ UNCHANGED <<version, step, returned, floor>>

Next ==
  \/ \E w \in Writers : Execute(w) \/ Return(w)
  \/ \E r \in Readers : Begin(r) \/ End(r)

Spec == Init /\ [][Next]_vars
=============================================================================
