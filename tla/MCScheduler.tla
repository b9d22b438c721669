-------------------------- MODULE MCScheduler --------------------------
(* Scheduler for TLC: each coroutine has calls of its own.                *)
EXTENDS Scheduler

CONSTANTS MainCalls, FirstCalls, First, OtherCalls

MCCalls ==
    [c \in Coroutines |-> CASE c = Main -> MainCalls [] c = First -> FirstCalls [] OTHER -> OtherCalls]
=======================================================================
