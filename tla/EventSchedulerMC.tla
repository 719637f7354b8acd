-------------------------- MODULE EventSchedulerMC --------------------------
(***************************************************************************)
(* Small instances of EventScheduler for TLC.                              *)
(***************************************************************************)
EXTENDS EventScheduler

MCClock == {[kind |-> "clock", at |-> 1]}
MCSchedules == MCClock \union {[kind |-> "interval", at |-> 1], [kind |-> "bad", at |-> 1]}
=============================================================================
