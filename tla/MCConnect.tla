------------------------------ MODULE MCConnect ------------------------------
(* Values for Connect: with an interval of 3 ticks, timeouts of none, less than
   one interval, whole intervals, and part of one more. *)
EXTENDS Connect

MCTimeouts == -1..9
MCGoodFroms == 0..13
=============================================================================
