------------------------------- MODULE Await --------------------------------
(***************************************************************************)
(* Awaiting several futures: async_await_futures and its callbacks         *)
(* (src/async_API.c) behind await_any_or_fail() and its relatives          *)
(* (src/async.c).  The futures come in an array, or from an iterator that  *)
(* the workers of module Iterator go through while the caller waits.       *)
(***************************************************************************)
EXTENDS Iterator, TLC

VARIABLES
    call,       \* the call the caller makes: a setting
    future,     \* the awaited coroutines and futures
    context     \* async_await_context_t and the waker's listeners;
                \* history: overcount, the iterator counted a future twice;
                \* short, the final wait counts too few futures;
                \* fired, the cancellation token did

vars == <<it, worker, running, caller, call, future, context>>

Futures == DOMAIN call.futures

\* The calls by count, ignore_errors and cancel_on_exit.
AnyOrFail     == [count |-> 1, ignore |-> FALSE, cancelOnExit |-> FALSE]
FirstSuccess  == [count |-> 1, ignore |-> TRUE, cancelOnExit |-> TRUE]
AllOrFail     == [count |-> 0, ignore |-> FALSE, cancelOnExit |-> TRUE]
All           == [count |-> 0, ignore |-> TRUE, cancelOnExit |-> TRUE]
AnyOfOrFail(n) == [count |-> n, ignore |-> FALSE, cancelOnExit |-> FALSE]
AnyOf(n)      == [count |-> n, ignore |-> TRUE, cancelOnExit |-> TRUE]

NewContext(s) ==
    [total |-> IF s.mode = "array" THEN s.items ELSE 0, futures |-> 0,
     waiting |-> IF s.how.count > 0 THEN s.how.count
                 ELSE IF s.mode = "array" THEN s.items ELSE 0,
     resolved |-> 0, success |-> 0, results |-> {}, failed |-> FALSE,
     listening |-> {}, token |-> FALSE, gone |-> FALSE,
     overcount |-> FALSE, short |-> FALSE, fired |-> FALSE]

Init ==
    /\ call \in Settings
    /\ future = call.futures
    /\ context = NewContext(call)
    /\ CASE call.mode = "iterate" -> Iterate(call)
         [] call.mode = "iterator" ->
              /\ it = NewIterator(call)
              /\ worker = [w \in Workers |->
                    IF w = 1 THEN [Unborn EXCEPT !.pc = "queued", !.slot = FALSE] ELSE Unborn]
              /\ running = Nobody
              /\ caller = [pc |-> "futures", woken |-> "no", error |-> FALSE,
                           cancels |-> call.cancels]
         [] call.mode = "array" ->
              /\ it = NewIterator(call)
              /\ worker = [w \in Workers |-> Unborn]
              /\ running = Nobody
              /\ caller = [pc |-> "start", woken |-> "no", error |-> FALSE,
                           cancels |-> call.cancels]

-----------------------------------------------------------------------------
(* The callback of an awaited future.                                      *)

\* Mutant: an error counts as one of the answers waited for.
EnoughResolved(c) ==
    \/ c.waiting > 0 /\ c.resolved >= c.waiting
    \/ c.total # 0 /\ c.resolved >= c.total

\* AWAIT_ITERATOR_IS_FINISHED
IsFinished(c) ==
    \/ c.waiting > 0 /\ (IF call.how.ignore THEN c.success ELSE c.resolved) >= c.waiting
    \/ c.total # 0 /\ c.resolved >= c.total

\* The counters and the results of async_waiting_callback.
Counted(c, f, outcome) ==
    [c EXCEPT !.resolved = @ + 1, !.listening = @ \ {f},
              !.success = IF outcome = "ok" THEN @ + 1 ELSE @,
              !.results = IF outcome = "ok" THEN @ \cup {f} ELSE @]

\* Does async_waiting_callback resume the caller, and how?
Wakes(c, outcome) ==
    IF outcome = "error" /\ ~call.how.ignore THEN "error"
    ELSE IF outcome = "error" THEN IF c.total # 0 /\ c.resolved >= c.total THEN "ok" ELSE "no"
    ELSE IF IsFinished(c) THEN "ok" ELSE "no"

\* async_coroutine_resume: an error is kept, whoever else resumed the caller.
Resumed(c, how) ==
    [c EXCEPT !.woken = IF how = "no" \/ @ = "error" THEN @ ELSE how]

\* The caller is queued.  Its listeners are removed at once, or at the end of
\* the tick when the scheduler delivered the event.
Wake(c, how, clean) ==
    IF how # "no" /\ clean THEN [c EXCEPT !.listening = {}, !.token = FALSE] ELSE c

-----------------------------------------------------------------------------
(* An array: the whole of async_await_futures up to its suspension.        *)

\* One element of the array: listen to it, or replay what it ended with.  The
\* loop is over once a replayed future ended the wait.
ArrayElement(c, f) ==
    IF c.over THEN c
    ELSE IF future[f].state = "invalid" THEN [c EXCEPT !.over = TRUE, !.invalid = TRUE]
    ELSE IF future[f].state = "pending" THEN [c EXCEPT !.listening = @ \cup {f}]
    ELSE LET d == Counted(c, f, future[f].state)
         IN  [d EXCEPT !.over = IsFinished(d),
                       !.failed = @ \/ (future[f].state = "error" /\ ~call.how.ignore)]

RECURSIVE ArrayLoop(_, _)
ArrayLoop(c, f) == IF f > call.items THEN c ELSE ArrayLoop(ArrayElement(c, f), f + 1)

ArrayDone ==
    LET c == ArrayLoop([over |-> FALSE, invalid |-> FALSE] @@ context, 1)
    IN  <<[x \in DOMAIN context |-> c[x]], c.invalid>>

\* The coroutines the caller waits for on the way out.
PendingCoroutines == {f \in Futures : future[f].kind = "coroutine" /\ future[f].state = "pending"}

\* The end of async_await_futures: async_cancel_awaited_futures waits for the
\* coroutines of an array that still run, unless an exception is on its way.
LeaveFutures(c, error) ==
    IF call.how.cancelOnExit /\ call.mode = "array" /\ ~error /\ PendingCoroutines # {}
    THEN /\ context' = [c EXCEPT !.listening = PendingCoroutines, !.token = FALSE,
                                 !.short = c.resolved + Cardinality(PendingCoroutines) < c.total]
         /\ caller' = [caller EXCEPT !.pc = "cancelled futures", !.woken = "no"]
    ELSE /\ context' = [c EXCEPT !.listening = {}, !.token = FALSE, !.gone = TRUE]
         /\ caller' = [caller EXCEPT !.pc = "returned", !.error = error]

AwaitArray ==
    /\ Switchable /\ caller.pc = "start"
    /\ \E r \in {ArrayDone} :
       LET c == r[1]
       IN  IF r[2]
           THEN /\ caller' = [caller EXCEPT !.pc = "returned", !.error = TRUE]
                /\ context' = [c EXCEPT !.listening = {}, !.gone = TRUE]
           ELSE IF IsFinished(c) \/ (c.listening = {} /\ ~call.token) THEN LeaveFutures(c, c.failed)
           ELSE /\ caller' = [caller EXCEPT !.pc = "futures"]
                /\ context' = [c EXCEPT !.token = call.token]
    /\ UNCHANGED <<it, worker, running, call, future>>

-----------------------------------------------------------------------------
(* An iterator: what the workers do with an item, and how they end.        *)

\* await_iterator_handler, run by worker w.  The listener of a future that is
\* already closed has no coroutine: its error, if not ignored, resumes a null one.
AwaitHandler(w) ==
    /\ running = w /\ worker[w].pc = "call" /\ call.mode = "iterator"
    /\ LET f == worker[w].item
       IN  \/ /\ context.gone \/ (future[f].state = "error" /\ ~call.how.ignore)
              /\ it' = [it EXCEPT !.undefined = TRUE]
              /\ UNCHANGED <<worker, context>>
           \/ /\ ~context.gone /\ future[f].state = "invalid"
              /\ \E r \in {ApplyException(Finished(it), worker, TRUE)} :
                    it' = r[1] /\ worker' = [r[2] EXCEPT ![w].pc = "left"]
              /\ UNCHANGED context
           \/ /\ ~context.gone /\ future[f].state # "invalid"
              /\ future[f].state = "error" => call.how.ignore
              /\ context' = IF future[f].state = "pending"
                            THEN [context EXCEPT !.listening = @ \cup {f}, !.futures = @ + 1]
                            ELSE Counted(context, f, future[f].state)
              /\ worker' = [worker EXCEPT ![w].pc = "loop", ![w].item = 0]
              /\ it' = it
    /\ UNCHANGED <<running, caller, call, future>>

\* await_iterator_dispose: the number of futures is known now.
TotalKnown(c) ==
    [c EXCEPT !.total = c.futures + c.resolved,
              !.overcount = c.futures + c.resolved > Len(it.taken)]

\* The iterator's last reference is gone: await_iterator_dispose.
AwaitIteratorDispose ==
    LET c == TotalKnown(context)
        told == IF it.exception THEN "error"
                ELSE IF IsFinished(c) \/ c.total = 0 THEN "ok" ELSE "no"
    IN  /\ \E clean \in BOOLEAN : context' = Wake(c, told, clean)
        /\ caller' = Resumed(caller, told)

\* iterator_coroutine_finish_callback and async_await_iterator_coroutine_dispose:
\* the first worker was cancelled before it ran, so there is no iterator yet.
IteratorNeverRan(w) ==
    /\ Switchable /\ worker[w].pc = "queued" /\ worker[w].doomed /\ ~worker[w].slot
    /\ worker' = [worker EXCEPT ![w] = Unborn]
    /\ it' = [it EXCEPT !.refs = 0, !.undefined = context.gone]
    /\ caller' = IF context.gone THEN caller ELSE Resumed(caller, "error")
    /\ UNCHANGED <<running, call, future, context>>

\* What the steps of the workers do to the caller.
Settles ==
    /\ IF call.mode = "iterator" /\ it.refs > 0 /\ it'.refs = 0 /\ ~context.gone
       THEN AwaitIteratorDispose
       ELSE UNCHANGED context /\ caller' = IF call.mode = "iterate" THEN Told ELSE caller
    /\ UNCHANGED <<call, future>>

\* A coroutine or a future that is awaited ends.
Callback(f, outcome, clean) ==
    LET c == Counted(context, f, outcome)
        told == Wakes(c, outcome)
    IN  context' = Wake(c, told, clean) /\ caller' = Resumed(caller, told)

\* async_waiting_cancellation_callback
CancellationCallback(f, clean) ==
    LET c == [context EXCEPT !.resolved = @ + 1, !.listening = @ \ {f}]
        told == IF c.total # 0 /\ c.resolved >= c.total THEN "ok" ELSE "no"
    IN  context' = Wake(c, told, clean) /\ caller' = Resumed(caller, told)

Ends(f, outcome) ==
    /\ running = Nobody /\ it.queued = 0 /\ ~it.undefined
    /\ future[f].state = "pending"
    /\ future' = [future EXCEPT ![f].state = outcome]
    /\ IF f \in context.listening
       THEN \E clean \in BOOLEAN : IF caller.pc = "cancelled futures" THEN CancellationCallback(f, clean)
                                   ELSE Callback(f, outcome, clean)
       ELSE UNCHANGED <<context, caller>>
    /\ UNCHANGED <<it, worker, running, call>>

\* The cancellation token fires.
TokenFires ==
    /\ Switchable /\ context.token
    /\ context' = [context EXCEPT !.token = FALSE, !.fired = TRUE]
    /\ caller' = Resumed(caller, "error")
    /\ UNCHANGED <<it, worker, running, call, future>>

\* The caller goes on after the suspension in async_await_futures.
FuturesResume ==
    /\ Switchable /\ caller.pc = "futures" /\ caller.woken # "no"
    /\ LeaveFutures(context, context.failed \/ caller.woken = "error")
    /\ UNCHANGED <<it, worker, running, call, future>>

CancelledFuturesResume ==
    /\ Switchable /\ caller.pc = "cancelled futures" /\ caller.woken # "no"
    /\ caller' = [caller EXCEPT !.pc = "returned", !.error = caller.woken = "error"]
    /\ context' = [context EXCEPT !.listening = {}, !.gone = TRUE]
    /\ UNCHANGED <<it, worker, running, call, future>>

-----------------------------------------------------------------------------
\* A worker of iterate() makes the calls of the user's callback.
UserCallback(w) ==
    /\ call.mode = "iterate"
    /\ \/ Suspend(w, {"call"}) \/ Called(w, TRUE) \/ Called(w, FALSE)
       \/ CallFails(w) \/ CallSpawns(w)

Next ==
    \/ \E w \in Workers :
          \/ (WorkerStep(w) \/ UserCallback(w)) /\ UNCHANGED <<call, future, context>>
          \/ AwaitHandler(w) \/ IteratorNeverRan(w)
          \/ (Exit(w) \/ Dispose(w)) /\ Settles
    \/ (Microtask \/ KidEnds) /\ Settles
    \/ AwaitArray \/ FuturesResume \/ CancelledFuturesResume \/ TokenFires
    \/ \E f \in Futures : Ends(f, "ok") \/ Ends(f, "error")
    \/ (CallerResumes \/ CallerLeavesScope \/ CallerCancelled \/ ParentCancelled)
          /\ UNCHANGED <<call, future, context>>

Spec == Init /\ [][Next]_vars

-----------------------------------------------------------------------------
(* Properties.                                                             *)

\* The workers take every item of the iteration once and in order, although the
\* iterator's methods suspend while other workers are at the loop's top
\* (iterator.c: a worker leaves when it finds the iterator in motion).  valid()
\* is excepted: a worker that suspends in it does not look again, and takes an
\* item that another one is taking, or one past the end.
EachItemOnce == ~it.overtaken => it.taken = [k \in 1..Len(it.taken) |-> k]

\* Slots are counted: active_coroutines is the number of living workers with a
\* slot and stays within the limit, and ref_count counts the workers, the queued
\* microtasks and iterate().  And they are used: a suspended callback keeps none
\* idle, so that when no worker moves the iterator or is about to, items are left
\* and the scope is open, every slot is taken (ITERATOR_SAFE_MOVING_END queues
\* the microtask again if it was consumed).  An iteration that goes on after its
\* end, by a worker that was in valid(), spawns no more of them and is excepted.
SlotsAreUsed ==
    /\ it.active = Cardinality({w \in Living : worker[w].slot})
    /\ it.concurrency > 0 => it.active <= it.concurrency
    /\ call.mode = "iterate" /\ ~it.undefined =>
          it.refs = Cardinality(Living) + it.queued + (IF caller.pc = "returned" THEN 0 ELSE 1)
    /\ /\ Switchable /\ call.mode = "iterate" /\ it.scope = "open" /\ it.state # "FINISHED"
       /\ it.position <= it.items /\ ~it.overtaken
       /\ \A w \in Living : worker[w].pc = "call"
       => it.concurrency > 0 /\ it.active = it.concurrency

Succeeded == {f \in Futures : future[f].state = "ok"}
Open == {f \in Futures : future[f].state = "pending"}

\* What an await function promises when it returns a value: all of the futures
\* have ended, or as many as were asked for did (successes, if errors are
\* ignored); without ignore_errors none of those it waited for failed; and no
\* coroutine of the array still runs if the function cancels on exit.
Promise ==
    /\ context.results \subseteq Succeeded
    /\ \/ call.how.count > 0 /\ Cardinality(context.results) >= call.how.count
       \/ /\ Open = {}
          /\ call.how.ignore \/ Succeeded = Futures
          /\ call.mode = "array" => context.results = Succeeded
    /\ call.how.cancelOnExit /\ call.mode = "array" => PendingCoroutines = {}

\* iterate() and the await functions answer truly: iterate() has been through
\* all items, unless it was stopped, an exception ended it or valid() suspended
\* beside another worker; an await function gives a value as promised, and an
\* error only if something failed or was cancelled.
AnswersAreTrue ==
    caller.pc = "returned" =>
        IF call.mode = "iterate"
        THEN \/ caller.error \/ it.stopped \/ it.exception
             \/ it.overtaken \/ Len(it.taken) = it.items
        ELSE IF ~caller.error THEN it.stopped \/ Promise
        ELSE \/ caller.cancels < call.cancels \/ context.fired \/ it.exception
             \/ \E f \in Futures : \/ future[f].state = "invalid"
                                   \/ future[f].state = "error" /\ ~call.how.ignore

\* Nobody waits for what cannot come: once the workers are gone and the futures
\* have ended, iterate() or the await function has returned.  Exempt are the
\* waits whose count is wrong from the start (overcount, short) and an iterator
\* that outlives its caller's data or meets a failed future (undefined).
NobodyWaitsForever ==
    /\ running = Nobody /\ it.queued = 0 /\ Living = {} /\ it.kid \notin {"running", "doomed"}
    /\ Open = {} /\ caller.woken = "no" /\ caller.pc # "start"
    /\ ~context.overcount /\ ~context.short /\ ~it.undefined
    => caller.pc = "returned"
=============================================================================
