--------------------------- MODULE Scheduler ---------------------------
(* scheduler.c and coroutine.c: coroutines, their wakers, the run queue.  *)
(*                                                                        *)
(* One coroutine runs PHP code at a time (at = "code").  When it suspends *)
(* or ends, the scheduler ticks (at = "reactor"): callbacks of the reactor*)
(* wake coroutines, then the next one in the queue runs.  While a tick    *)
(* belongs to a suspending coroutine, that one is still `current'.        *)
(* Fibers, bailouts and exceptions thrown by microtasks are left out, and *)
(* all coroutines are in one scope without an exception handler.          *)
EXTENDS Naturals, FiniteSets, Sequences, SequencesExt

CONSTANTS
    Coroutines,
    Main,           \* the main coroutine
    NoCoroutine,
    Safely,         \* whether the scope is disposed of safely
    Calls,          \* the calls the code of a coroutine makes
    MaxProtect      \* how deep calls of protect() are nested

ASSUME SchedulerAssumption ==
    /\ IsFiniteSet(Coroutines) /\ Main \in Coroutines
    /\ NoCoroutine \notin Coroutines /\ Safely \in BOOLEAN
    /\ Calls \in [Coroutines -> SUBSET {"spawn", "suspend", "delay", "await", "timeout", "cancel",
                                        "cancel_scope", "protect", "graceful_shutdown", "throw"}]
    /\ MaxProtect \in Nat

VARIABLES
    g           \* the globals, the coroutines and their wakers

vars == <<g>>

\* Errors are told apart by instanceof only: "none", "cancel" (a cancellation) or "error".

-----------------------------------------------------------------------
(* Wakers.                                                                *)

\* ZEND_ASYNC_WAKER_IN_QUEUE
InQueue(s, c) == s.status[c] \in {"QUEUED", "IGNORED"}

\* ZEND_ASYNC_WAKER_CLEAN_EVENTS: the coroutine leaves the events it waits for.
CleanEvents(s, c) ==
    [s EXCEPT !.callbacks = [d \in Coroutines |-> Remove(@[d], c)],
              !.timer[c] = "none"]

Push(s, c) ==
    [s EXCEPT !.queue = Append(@, c),
              !.status[c] = "QUEUED",
              !.resumed = IF s.scheduler_context THEN @ \cup {c} ELSE @]

process_resumed_coroutines(s) ==
    [s EXCEPT !.callbacks = [d \in Coroutines |-> SelectSeq(@[d], LAMBDA c : c \notin s.resumed)],
              !.timer = [c \in Coroutines |-> IF c \in s.resumed THEN "none" ELSE @[c]],
              !.resumed = {}]

\* async_scheduler_coroutine_enqueue: stopping the events stops the timers; the
\* callbacks on other coroutines stay.
enqueue(s, c) ==
    IF InQueue(s, c) THEN s ELSE [Push(s, c) EXCEPT !.timer[c] = "none"]

async_coroutine_resume(s, c, e) ==
    LET told == [s EXCEPT !.error[c] = IF @ = "none" \/ e = "error" THEN e ELSE @]
        new  == IF e = "none" THEN s ELSE told
    IN  IF s.status[c] = "NO_STATUS" /\ ~s.scheduler_context THEN s
        ELSE IF s.status[c] = "QUEUED" THEN new
        ELSE IF s.scheduler_context /\ c = s.current
        THEN CleanEvents([new EXCEPT !.status[c] = "RESULT"], c)
        ELSE IF s.scheduler_context THEN Push(new, c)
        ELSE CleanEvents(Push(new, c), c)

-----------------------------------------------------------------------
(* Cancellation.                                                          *)

\* ZEND_ASYNC_DECREASE_COROUTINE_COUNT
Decreased(n) == IF n = 0 THEN 0 ELSE n - 1

\* ZEND_ASYNC_WAKER_APPLY_CANCELLATION overrides any error but a cancellation.
ApplyCancellation(s, c) == [s EXCEPT !.error[c] = "cancel"]

IsRunning(s, c) == c = s.current /\ s.status[c] # "WAITING"

\* Mutant: a coroutine that has not started is woken like any other.
async_coroutine_cancel_starts(s, c, safely) ==
    IF s.finished[c] THEN s
    ELSE IF IsRunning(s, c)
    THEN [s EXCEPT !.cancelled[c] = TRUE,
                   !.exception[c] = IF @ = "none" THEN "cancel" ELSE @]
    ELSE IF s.protected[c] THEN [s EXCEPT !.deferred[c] = TRUE]
    ELSE LET marked == [s EXCEPT !.cancelled[c] = TRUE]
         IN  IF safely
             THEN [marked EXCEPT !.zombie[c] = TRUE, !.count = Decreased(@)]
             ELSE enqueue(ApplyCancellation(marked, c), c)

async_coroutine_cancel(s, c, safely) ==
    IF s.finished[c] THEN s
    ELSE IF IsRunning(s, c)
    THEN [s EXCEPT !.cancelled[c] = TRUE,
                   !.exception[c] = IF @ = "none" THEN "cancel" ELSE @]
    ELSE IF s.protected[c] THEN [s EXCEPT !.deferred[c] = TRUE]
    ELSE LET marked == [s EXCEPT !.cancelled[c] = TRUE]
         IN  IF ~s.started[c]
             THEN ApplyCancellation([enqueue(marked, c) EXCEPT !.status[c] = "IGNORED"], c)
             ELSE IF safely
             THEN [marked EXCEPT !.zombie[c] = TRUE, !.count = Decreased(@)]
             ELSE enqueue(ApplyCancellation(marked, c), c)

\* scope_catch_or_cancel without a handler: every coroutine of the scope.
scope_catch_or_cancel(s, safely) ==
    FoldLeft(LAMBDA t, c : async_coroutine_cancel(t, c, safely), s, s.coroutines)

Shot(s, c) ==
    IF s.started[c]
    THEN async_coroutine_cancel([s EXCEPT !.protected[c] = FALSE], c, FALSE)
    ELSE [s EXCEPT !.status[c] = "IGNORED", !.cancelled[c] = TRUE, !.exception[c] = "cancel"]

cancel_queued_coroutines(s) ==
    process_resumed_coroutines(
        [FoldLeft(Shot, [s EXCEPT !.scheduler_context = TRUE], s.coroutines)
            EXCEPT !.scheduler_context = FALSE])

\* start_graceful_shutdown; a second unhandled exception (finally_shutdown)
\* cancels everyone again.
Shutdown(s) == cancel_queued_coroutines([s EXCEPT !.graceful_shutdown = TRUE])

\* Mutant: protected coroutines stay protected.
resolve_deadlocks_protected(s) ==
    [process_resumed_coroutines(
        FoldLeft(LAMBDA t, c : async_coroutine_cancel(t, c, FALSE),
                 [s EXCEPT !.scheduler_context = TRUE], s.coroutines))
        EXCEPT !.scheduler_context = FALSE]

resolve_deadlocks(s) ==
    [process_resumed_coroutines(
        FoldLeft(LAMBDA t, c : async_coroutine_cancel([t EXCEPT !.protected[c] = FALSE], c, FALSE),
                 [s EXCEPT !.scheduler_context = TRUE], s.coroutines))
        EXCEPT !.scheduler_context = FALSE]

-----------------------------------------------------------------------
(* The end of a coroutine.                                                *)

\* Mutant: only the first coroutine that waits is told.
Notify_first(s, c, x) ==
    [IF s.callbacks[c] = <<>> THEN s ELSE async_coroutine_resume(s, Head(s.callbacks[c]), x)
        EXCEPT !.callbacks[c] = <<>>]

Notify(s, c, x) ==
    [FoldLeft(LAMBDA t, d : async_coroutine_resume(t, d, x), s, s.callbacks[c])
        EXCEPT !.callbacks[c] = <<>>]

\* The coroutine leaves the list; a zombie was uncounted when it became one.
\* Nothing looks at the flags of a coroutine that has ended: they are dropped.
Unlisted(s, c) ==
    [s EXCEPT !.coroutines = Remove(@, c),
              !.count = IF s.zombie[c] THEN @ ELSE Decreased(@),
              !.zombie[c] = FALSE, !.cancelled[c] = FALSE, !.exception[c] = "none"]

\* e: the exception c ends with; kept: somebody holds the coroutine object.
async_coroutine_finalize(s, c, e, kept) ==
    LET own       == s.exception[c]
        x         == IF e = "none" THEN own ELSE e
        ended     == [s EXCEPT !.finished[c] = TRUE,
                               !.exception[c] = IF own = "none" \/ e = "error" THEN x ELSE own,
                               !.status[c] = "NO_STATUS",
                               !.error[c] = "none"]
        unhandled == x = "error" /\ s.callbacks[c] = <<>>
        notified  == Notify(ended, c, x)
        left      == Unlisted(IF unhandled THEN scope_catch_or_cancel(notified, Safely) ELSE notified, c)
        away      == [left EXCEPT !.current = NoCoroutine]
    IN  IF unhandled /\ ~kept THEN Shutdown(away) ELSE away

-----------------------------------------------------------------------
(* Switching.                                                             *)

\* The scheduler ticks.
Tick(s) == [s EXCEPT !.at = "reactor", !.scheduler_context = TRUE]

\* The coroutine goes on in PHP code, where suspend() or its function throws
\* the error of the waker.
Run(s, c) ==
    [CleanEvents(s, c) EXCEPT !.current = c, !.at = "code",
                              !.status[c] = "NO_STATUS", !.error[c] = "none",
                              !.started[c] = TRUE, !.awaits[c] = NoCoroutine]

\* async_scheduler_coroutine_suspend: events are started here; those that have
\* fired already are handled by the caller.
Suspended(s, c) ==
    Tick([s EXCEPT !.status[c] = IF InQueue(s, c) THEN @ ELSE "WAITING"])

\* execute_next_coroutine, execute_next_coroutine_from_fiber
ExecuteNext(s) ==
    LET c == Head(s.queue)
        popped == [s EXCEPT !.queue = Tail(@)]
    IN  IF s.status[c] = "IGNORED"
        THEN Tick(async_coroutine_finalize([popped EXCEPT !.current = c], c, s.error[c], TRUE))
        ELSE Run(popped, c)

HasHandles(s) == \E c \in Coroutines : s.timer[c] # "none"

\* A tick ends: scheduler_next_tick, and the loop of fiber_entry.
TickEnds(s) ==
    LET t == process_resumed_coroutines([s EXCEPT !.scheduler_context = FALSE])
    IN  IF t.current # NoCoroutine /\ t.status[t.current] = "RESULT" THEN Run(t, t.current)
        ELSE IF t.queue # <<>> THEN ExecuteNext(t)
        ELSE IF t.coroutines = <<>> THEN [t EXCEPT !.at = "end"]
        ELSE IF HasHandles(t) THEN Tick([t EXCEPT !.current = NoCoroutine])
        ELSE Tick([resolve_deadlocks(t) EXCEPT !.current = NoCoroutine])

-----------------------------------------------------------------------
(* What the running coroutine does.                                       *)

Running(c) == g.at = "code" /\ g.current = c

IsNew(c) == ~g.finished[c] /\ c \notin ToSet(g.coroutines)

\* Async\spawn: a coroutine of high priority goes to the front.
spawn(c, d, high) ==
    /\ Running(c)
    /\ IsNew(d)
    /\ g' = [g EXCEPT !.queue = IF high THEN <<d>> \o @ ELSE Append(@, d),
                      !.status[d] = "QUEUED",
                      !.coroutines = Append(@, d),
                      !.count = @ + 1]

\* Async\suspend
suspend(c) ==
    /\ Running(c)
    /\ g' = Suspended(enqueue(g, c), c)

\* Async\delay
delay(c) ==
    /\ Running(c)
    /\ g' = Suspended([g EXCEPT !.timer[c] = "delay"], c)

\* Async\await on a coroutine that has not ended, with or without a timeout; if
\* it has ended await() returns at once.
await(c, d, timeout) ==
    /\ Running(c)
    /\ d \in ToSet(g.coroutines)
    /\ g' = Suspended([g EXCEPT !.callbacks[d] = Append(@, c),
                                !.timer[c] = IF timeout THEN "timeout" ELSE @,
                                !.awaits[c] = d], c)

\* Coroutine::cancel
cancel(c, d) ==
    /\ Running(c)
    /\ ~IsNew(d)
    /\ g' = async_coroutine_cancel(g, d, FALSE)

\* Scope::cancel, and dispose() of a scope
cancel_scope(c) ==
    /\ Running(c)
    /\ g' = scope_catch_or_cancel(g, Safely)

\* Async\protect, from its start ...
protect(c) ==
    /\ Running(c)
    /\ g.frames[c] < MaxProtect
    /\ g' = [g EXCEPT !.frames[c] = @ + 1, !.protected[c] = TRUE]

\* ... and at its end, where a deferred cancellation is thrown.
protect_returns(c) ==
    /\ Running(c)
    /\ g.frames[c] > 0
    /\ g' = [g EXCEPT !.frames[c] = @ - 1,
                      !.protected[c] = FALSE,
                      !.cancelled[c] = @ \/ g.deferred[c],
                      !.deferred[c] = FALSE]

\* The function of the coroutine returns or throws.
finish(c, e, kept) ==
    /\ Running(c)
    /\ g.frames[c] = 0
    /\ g' = Tick(async_coroutine_finalize(g, c, e, kept /\ c # Main))

\* Async\graceful_shutdown
graceful_shutdown(c) ==
    /\ Running(c)
    /\ ~g.graceful_shutdown
    /\ g' = Shutdown(g)

-----------------------------------------------------------------------
(* What the scheduler does.                                               *)

\* Mutant: a timeout looks like a result.
timer_fires_silently(c) ==
    /\ g.at = "reactor"
    /\ g.timer[c] # "none"
    /\ g' = async_coroutine_resume([g EXCEPT !.timer[c] = "none"], c, "none")

\* The timer of a delay ends it; that of a timeout fails the await it limits with
\* an OperationCanceledException, which is a cancellation.
timer_fires(c) ==
    /\ g.at = "reactor"
    /\ g.timer[c] # "none"
    /\ g' = async_coroutine_resume([g EXCEPT !.timer[c] = "none"], c,
                                   IF g.timer[c] = "timeout" THEN "cancel" ELSE "none")

tick_ends ==
    /\ g.at = "reactor"
    /\ g' = TickEnds(g)

-----------------------------------------------------------------------
\* async_scheduler_launch: the main coroutine runs.
Init ==
    g = [queue |-> <<>>, resumed |-> {}, coroutines |-> <<Main>>, current |-> Main,
         at |-> "code", scheduler_context |-> FALSE, graceful_shutdown |-> FALSE, count |-> 1,
         status     |-> [c \in Coroutines |-> "NO_STATUS"],
         error      |-> [c \in Coroutines |-> "none"],
         exception  |-> [c \in Coroutines |-> "none"],
         started    |-> [c \in Coroutines |-> c = Main],
         finished   |-> [c \in Coroutines |-> FALSE],
         cancelled  |-> [c \in Coroutines |-> FALSE],
         protected  |-> [c \in Coroutines |-> FALSE],
         deferred   |-> [c \in Coroutines |-> FALSE],
         zombie     |-> [c \in Coroutines |-> FALSE],
         callbacks  |-> [c \in Coroutines |-> <<>>],
         timer      |-> [c \in Coroutines |-> "none"],
         frames     |-> [c \in Coroutines |-> 0],
         awaits     |-> [c \in Coroutines |-> NoCoroutine]]

Code(c) ==
    \/ "spawn" \in Calls[c] /\ \E d \in Coroutines, high \in BOOLEAN : spawn(c, d, high)
    \/ "suspend" \in Calls[c] /\ suspend(c)
    \/ "delay" \in Calls[c] /\ delay(c)
    \/ "await" \in Calls[c] /\ \E d \in Coroutines : await(c, d, FALSE)
    \/ "timeout" \in Calls[c] /\ \E d \in Coroutines : await(c, d, TRUE)
    \/ "cancel" \in Calls[c] /\ \E d \in Coroutines : cancel(c, d)
    \/ "cancel_scope" \in Calls[c] /\ cancel_scope(c)
    \/ "protect" \in Calls[c] /\ protect(c)
    \/ protect_returns(c)
    \/ \E e \in {"none", "cancel"} : finish(c, e, TRUE)
    \/ "throw" \in Calls[c] /\ \E kept \in BOOLEAN : finish(c, "error", kept)
    \/ "graceful_shutdown" \in Calls[c] /\ graceful_shutdown(c)

Next ==
    \/ \E c \in Coroutines : Code(c)
    \/ \E c \in Coroutines : timer_fires(c)
    \/ tick_ends

Spec == Init /\ [][Next]_vars

\* What the rest of the process does in time: a tick ends (the reactor does not
\* block for ever while a timer is armed), timers fire, and the code of a
\* coroutine is finite: it suspends or ends, and runs only so often.
FairSpec ==
    /\ Spec
    /\ WF_vars(tick_ends)
    /\ \A c \in Coroutines : []<>(g.timer[c] = "none") /\ <>[]~Running(c)

-----------------------------------------------------------------------
(* Properties.                                                            *)

Cs == Coroutines

\* A coroutine is in the run queue exactly when its waker says so, once, and it
\* has not ended (coroutine.c:595): resume and cancel look at the status only,
\* so a second entry would resume a coroutine in the middle of its next wait.
QueuedOnce ==
    /\ \A c \in Cs : InQueue(g, c) <=> c \in ToSet(g.queue)
    /\ Cardinality(ToSet(g.queue)) = Len(g.queue)
    /\ \A c \in ToSet(g.queue) : ~g.finished[c]

\* A waiting coroutine has a callback on a coroutine that has not ended, or a
\* timer: nothing cleaned the events of a wait that goes on, and nothing it
\* waits for ended without telling it.
WaitingIsWatched ==
    \A c \in Cs : g.status[c] = "WAITING" =>
        \/ g.timer[c] # "none"
        \/ \E d \in ToSet(g.coroutines) : c \in ToSet(g.callbacks[d]) /\ ~g.finished[d]

\* Wakeups are exact: nobody is queued twice, and nobody waits for nothing.
WakeupsAreExact == QueuedOnce /\ WaitingIsWatched

\* await() returns without an exception only when the coroutine it waits for has
\* ended, whatever timeouts, cancellations and other wakeups came before.
AwaitReturnsTheEnd ==
    [][\A c \in Cs :
        g.awaits[c] # NoCoroutine /\ g'.awaits[c] = NoCoroutine /\ g.error[c] = "none"
            => g.finished[g.awaits[c]]]_vars

\* Cancellation does what it says.  A coroutine that is cancelled, or caught by a
\* shutdown, before it starts never runs its function, however often it is
\* cancelled afterwards; and protect() runs its closure "in non-cancellable mode"
\* (async.stub.php): until a shutdown lifts the protection, no call of cancel()
\* puts a cancellation in the waker of a coroutine inside one.
CancelsAreHonoured ==
    [][/\ \A c \in Cs : g.cancelled[c] /\ ~g.started[c] => ~g'.started[c]
       /\ \A c, d \in Cs : cancel(c, d) /\ g.frames[d] > 0 /\ ~g.graceful_shutdown => g'.error[d] = g.error[d]]_vars

\* The scheduler stops, with every coroutine ended: those nobody wakes are found
\* by the deadlock check, which ends their waits even if they are protected.
EveryoneEnds == <>(g.at = "end" /\ \A c \in Cs : ~InQueue(g, c) /\ (g.started[c] => g.finished[c]))
=======================================================================
