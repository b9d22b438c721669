------------------------------ MODULE MCFuture ------------------------------
(* An instance of Future for TLC.  Every plan says which futures are used  *)
(* and how often the user's code does what it may leave undone.            *)
EXTENDS Future

CONSTANTS t1, t2, s1

Rest == [roots |-> {}, derive |-> 0, sleeps |-> 0, awaits |-> 0, cancels |-> 0,
         ignores |-> 0, handovers |-> 0]

MCPlans ==
    { \* two tasks of one worker
      [Rest EXCEPT !.roots = {t1, t2}, !.awaits = 1, !.cancels = 1],
      \* a task whose future is ignored or given up by its awaiter
      [Rest EXCEPT !.roots = {t1}, !.awaits = 1, !.cancels = 1, !.ignores = 1],
      \* a chain on a task
      [Rest EXCEPT !.roots = {t1}, !.derive = 1, !.awaits = 1, !.sleeps = 1],
      \* a chain on a FutureState that another thread fulfils
      [Rest EXCEPT !.roots = {s1}, !.derive = 2, !.handovers = 1],
      \* chains in one thread
      [Rest EXCEPT !.roots = {s1}, !.derive = 3, !.sleeps = 2],
      [Rest EXCEPT !.roots = {s1}, !.derive = 2, !.awaits = 1, !.cancels = 1],
      \* a future cancelled while its mapper sleeps
      [Rest EXCEPT !.roots = {s1}, !.derive = 2, !.sleeps = 1, !.cancels = 1] }
=============================================================================
