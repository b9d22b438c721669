------------------------------ MODULE Iterator ------------------------------
(***************************************************************************)
(* The concurrent iterator (src/iterator.c) and its first user,            *)
(* Async\iterate() (src/async.c).  Several coroutines, the workers, take   *)
(* turns on one PHP iterator: each fetches an item, moves the iterator on  *)
(* and calls the callback.  A microtask spawns one more worker as long as  *)
(* the limit allows.  The methods of the PHP iterator and the callback are *)
(* user code and may suspend: these are the points where workers switch.   *)
(* The iterator is marked as in motion around rewind, fetch and forward,   *)
(* but not around valid().                                                 *)
(***************************************************************************)
EXTENDS Integers, FiniteSets, Sequences

CONSTANTS
    NumWorkers,     \* bound on the workers that live at a time
    Settings        \* what is iterated over and how

Workers == 1..NumWorkers
Nobody == 0

ASSUME IteratorAssumption ==
    /\ NumWorkers \in Nat \ {0}
    /\ \A s \in Settings : s.items \in Nat /\ s.concurrency \in 0..NumWorkers

VARIABLES
    it,         \* async_iterator_t, with the microtask it begins with; its scope;
                \* history: taken, the items given to the callback, in order;
                \* stopped: a callback returned false or was cancelled;
                \* overtaken: while a worker was suspended in valid() another
                \* one began to move the iterator or ended the iteration, and
                \* the first fetches all the same; undefined: freed memory is
                \* in use, and the model goes no further
    worker,     \* the workers' coroutines
    running,    \* the worker that runs now: no other coroutine does before it suspends
    caller      \* the coroutine in iterate()

iteratorVars == <<it, worker, running, caller>>

-----------------------------------------------------------------------------
(* The microtask and the scope.                                            *)

\* add_microtask: a cancelled microtask is not queued.
AddMicrotask(i) ==
    IF i.cancelled THEN i ELSE [i EXCEPT !.queued = @ + 1, !.refs = @ + 1]

Unborn == [pc |-> "unborn", item |-> 0, prev |-> 0, asleep |-> FALSE, doomed |-> FALSE,
           slot |-> TRUE, seen |-> "none"]

Living == {w \in Workers : worker[w].pc # "unborn"}

\* ZEND_ASYNC_SCOPE_CANCEL of the iterator's scope: its coroutines are doomed.
CancelWorkers(ws) == [w \in Workers |-> IF ws[w].pc = "unborn" THEN ws[w]
                                        ELSE [ws[w] EXCEPT !.doomed = TRUE]]

CancelScope(i) == [i EXCEPT !.scope = "cancelled",
                            !.kid = IF @ = "running" THEN "doomed" ELSE @]

\* The completion event fires once, with the iterator's exception.
Complete(i) == IF i.completion = "set" THEN [i EXCEPT !.completion = "fired"] ELSE i

\* The caller in iterate() is woken by what it waits for: the completion event, or the news
\* that its scope is complete, which a cancelled scope always is.
Idle(i, ws) == i.kid \notin {"running", "doomed"} /\ \A w \in Workers : ws[w].pc = "unborn"

Told ==
    IF caller.pc = "completion" /\ it.completion = "set" /\ it'.completion = "fired"
    THEN [caller EXCEPT !.woken = IF @ = "error" \/ it.exception THEN "error" ELSE "ok"]
    ELSE IF caller.pc = "scope" /\ caller.woken = "no"
            /\ (it'.scope = "cancelled" \/ Idle(it', worker'))
    THEN [caller EXCEPT !.woken = "ok"]
    ELSE caller

-----------------------------------------------------------------------------
(* async_iterator_new and iterate() up to its suspension: the first worker *)
(* is spawned and takes a slot.  In await mode (module Await) the first    *)
(* worker takes none, and nobody waits for the completion event.           *)

NewIterator(s) ==
    [state |-> "INIT", items |-> s.items, traversable |-> s.traversable, position |-> 1,
     concurrency |-> s.concurrency, active |-> 0,
     cancelled |-> FALSE, refs |-> 1, queued |-> 0,
     exception |-> FALSE, completion |-> "none", scope |-> "open", kid |-> "none",
     cancelPending |-> s.cancelPending, undefined |-> FALSE,
     validSuspends |-> s.validSuspends,
     taken |-> <<>>, stopped |-> FALSE, overtaken |-> FALSE]

\* async_iterator_run_in_coroutine
RunInCoroutine(i) == [i EXCEPT !.active = @ + 1]

Iterate(s) ==
    /\ it = [RunInCoroutine(NewIterator(s)) EXCEPT !.refs = @ + 1, !.completion = "set"]
    /\ worker = [w \in Workers |-> IF w = 1 THEN [Unborn EXCEPT !.pc = "queued"] ELSE Unborn]
    /\ running = Nobody
    /\ caller = [pc |-> "completion", woken |-> "no", error |-> FALSE, cancels |-> s.cancels]

\* Coroutines run when no other does and the microtasks are done.
Switchable == running = Nobody /\ it.queued = 0 /\ ~it.undefined

\* execute_microtasks and iterator_microtask
Microtask ==
    /\ running = Nobody /\ it.queued > 0 /\ ~it.undefined
    /\ \/ /\ \/ it.cancelled \/ it.state = "FINISHED"
             \/ it.concurrency > 0 /\ it.active >= it.concurrency
          /\ it' = [it EXCEPT !.queued = @ - 1, !.refs = @ - 1]
          /\ UNCHANGED worker
       \/ /\ ~it.cancelled /\ it.state # "FINISHED"
          /\ it.concurrency > 0 => it.active < it.concurrency
          /\ \E w \in Workers \ Living :
                /\ \A v \in Workers \ Living : w <= v
                /\ worker' = [worker EXCEPT ![w] = [Unborn EXCEPT !.pc = "queued",
                                                    !.doomed = it.scope = "cancelled"]]
          /\ it' = [it EXCEPT !.queued = @ - 1, !.active = @ + 1]
    /\ UNCHANGED running

-----------------------------------------------------------------------------
(* A worker.  ITERATOR_SAFE_MOVING_START and _END go around every method   *)
(* of the PHP iterator: rewind, fetch (current and key) and forward.       *)

Moving == {"rewind", "fetch", "forward"}

\* ITERATOR_SAFE_MOVING_START
InMotion(i) == [i EXCEPT !.state = "MOVING", !.cancelled = TRUE]

\* Mutant: the microtask stays cancelled unless it was consumed.
MovedIfConsumed(i, prev) ==
    LET free == [i EXCEPT !.state = "STARTED"]
    IN  IF prev # i.refs THEN AddMicrotask([free EXCEPT !.cancelled = FALSE]) ELSE free

Moved(i, prev) ==
    LET free == [i EXCEPT !.state = "STARTED", !.cancelled = FALSE]
    IN  IF prev # i.refs THEN AddMicrotask(free) ELSE free

Finished(i) == [i EXCEPT !.state = "FINISHED", !.cancelled = TRUE]

\* async_iterator_run begins: the microtask that may spawn the next worker.
Start(w) ==
    /\ Switchable /\ worker[w].pc = "queued" /\ ~worker[w].doomed
    /\ running' = w
    /\ \E i \in {AddMicrotask(it)} :
          IF i.state = "MOVING"
          THEN it' = i /\ worker' = [worker EXCEPT ![w].pc = "leave"]
          ELSE IF i.traversable /\ i.state = "INIT"
          THEN /\ it' = InMotion(i)
               /\ worker' = [worker EXCEPT ![w].pc = "rewind", ![w].prev = i.refs]
          ELSE it' = i /\ worker' = [worker EXCEPT ![w].pc = "loop"]
    /\ UNCHANGED caller

\* The user's code suspends, and later goes on.
Suspend(w, where) ==
    /\ running = w /\ worker[w].pc \in where
    /\ running' = Nobody
    /\ worker' = [worker EXCEPT ![w].asleep = TRUE]
    /\ UNCHANGED <<it, caller>>

Resume(w) ==
    /\ Switchable /\ worker[w].asleep
    /\ running' = w
    /\ worker' = [worker EXCEPT ![w].asleep = FALSE]
    /\ UNCHANGED <<it, caller>>

\* valid() of the PHP iterator is called, with the iterator where it is; an
\* array gives its next item at once.
NextItem(w) ==
    \/ /\ it.traversable
       /\ worker' = [worker EXCEPT ![w].pc = "valid", ![w].item = it.position, ![w].seen = it.state]
       /\ it' = it
    \/ /\ ~it.traversable /\ it.position > it.items
       /\ it' = Finished(it) /\ worker' = [worker EXCEPT ![w].pc = "leave"]
    \/ /\ ~it.traversable /\ it.position <= it.items
       /\ it' = [it EXCEPT !.position = @ + 1, !.taken = Append(@, it.position)]
       /\ worker' = [worker EXCEPT ![w].pc = "call", ![w].item = it.position]

\* Mutant: a worker goes on beside one that moves the iterator.
LoopWhileMoving(w) ==
    /\ running = w /\ worker[w].pc = "loop"
    /\ \/ /\ it.state = "FINISHED" /\ it' = it
          /\ worker' = [worker EXCEPT ![w].pc = "leave"]
       \/ /\ it.state # "FINISHED"
          /\ NextItem(w)
    /\ UNCHANGED <<running, caller>>

\* The top of the loop: with an array nothing can suspend up to the callback.
Loop(w) ==
    /\ running = w /\ worker[w].pc = "loop"
    /\ \/ /\ it.state \in {"FINISHED", "MOVING"}
          /\ worker' = [worker EXCEPT ![w].pc = "leave"] /\ it' = it
       \/ /\ it.state \notin {"FINISHED", "MOVING"}
          /\ NextItem(w)
    /\ UNCHANGED <<running, caller>>

\* valid() returns what was true when it was called or is true now.  The state
\* of the iterator is not looked at again.
ValidReturns(w) ==
    /\ running = w /\ worker[w].pc = "valid"
    /\ \E position \in {worker[w].item, it.position} :
          \/ /\ position > it.items
             /\ it' = Finished(it) /\ worker' = [worker EXCEPT ![w].pc = "leave", ![w].item = 0]
          \/ /\ position <= it.items
             /\ it' = [InMotion(it) EXCEPT
                          !.overtaken = \/ @ \/ it.position > it.items
                                        \/ it.state # worker[w].seen]
             /\ worker' = [worker EXCEPT ![w].pc = "fetch", ![w].prev = it.refs]
    /\ UNCHANGED <<running, caller>>

\* The method returns.
EndMove(w) ==
    /\ running = w /\ worker[w].pc \in Moving
    /\ \E i \in {Moved(it, worker[w].prev)} :
          CASE worker[w].pc = "rewind" ->
                 it' = i /\ worker' = [worker EXCEPT ![w].pc = "loop"]
            [] worker[w].pc = "fetch" ->
                 /\ it' = InMotion(i)
                 /\ worker' = [worker EXCEPT ![w].pc = "forward", ![w].item = i.position,
                                             ![w].prev = i.refs]
            [] OTHER ->
                 /\ it' = [i EXCEPT !.position = @ + 1, !.taken = Append(@, worker[w].item)]
                 /\ worker' = [worker EXCEPT ![w].pc = "call"]
    /\ UNCHANGED <<running, caller>>

\* async_apply_exception and the rest of async_iterator_apply_exception: an
\* exception that is not a cancellation is kept and the scope is cancelled.
ApplyException(i, ws, error) ==
    LET kept == [i EXCEPT !.exception = @ \/ error]
    IN  IF kept.exception /\ kept.scope # "cancelled"
        THEN <<CancelScope(kept), CancelWorkers(ws)>>
        ELSE <<kept, ws>>

\* An exception ends the iteration; a cancellation leaves no other trace.
Ended(i, error) == [Finished(i) EXCEPT !.stopped = @ \/ ~error]

\* A method throws: a cancellation, the worker's own or another, or anything else.
MoveFails(w) ==
    /\ running = w /\ worker[w].pc \in Moving \cup {"valid"}
    /\ \E user \in BOOLEAN, i \in {IF worker[w].pc = "valid" THEN it ELSE Moved(it, worker[w].prev)} :
       \E r \in {ApplyException(Ended(i, user), worker, user)} :
          it' = r[1] /\ worker' = [r[2] EXCEPT ![w].pc = "left"]
    /\ UNCHANGED <<running, caller>>

\* The callback returns; false ends the iteration.
Called(w, false) ==
    /\ running = w /\ worker[w].pc = "call"
    /\ it' = IF false THEN [Finished(it) EXCEPT !.stopped = TRUE] ELSE it
    /\ worker' = [worker EXCEPT ![w].pc = "loop", ![w].item = 0]
    /\ UNCHANGED <<running, caller>>

CallFails(w) ==
    /\ running = w /\ worker[w].pc = "call"
    /\ \E user \in BOOLEAN :
       \E r \in {ApplyException(Ended(it, user), worker, user)} :
          it' = r[1] /\ worker' = [r[2] EXCEPT ![w].pc = "left"]
    /\ UNCHANGED <<running, caller>>

\* The callback spawns a coroutine, which lands in the iterator's scope.
CallSpawns(w) ==
    /\ running = w /\ worker[w].pc = "call" /\ it.kid = "none" /\ it.scope = "open"
    /\ it' = [it EXCEPT !.kid = "running"]
    /\ UNCHANGED <<worker, running, caller>>

\* The rest of async_iterator_run, without an exception.
Leave(w) ==
    /\ running = w /\ worker[w].pc = "leave"
    /\ \E r \in {ApplyException(it, worker, FALSE)} :
          it' = r[1] /\ worker' = [r[2] EXCEPT ![w].pc = "left"]
    /\ UNCHANGED <<running, caller>>

\* Mutant: the slot is returned, and the last to leave tells nobody.
ReleaseCoroutineQuietly(i) == [i EXCEPT !.active = @ - 1]

\* iterator_release_coroutine
ReleaseCoroutine(i) ==
    IF i.active > 1 THEN [i EXCEPT !.active = @ - 1]
    ELSE Complete([i EXCEPT !.active = 0, !.state = "FINISHED"])

\* iterator_dtor
Dtor(i) ==
    IF i.refs > 1 THEN [i EXCEPT !.refs = @ - 1]
    ELSE Complete([i EXCEPT !.refs = 0])

\* coroutine_entry ends, and with it the worker's coroutine.  A worker
\* that the caller of module Await started holds no slot.
Exit(w) ==
    /\ running = w /\ worker[w].pc = "left"
    /\ \E i \in {Dtor(IF worker[w].slot THEN ReleaseCoroutine(it) ELSE it)}, ws \in {[worker EXCEPT ![w] = Unborn]} :
          it' = i /\ worker' = ws
    /\ running' = Nobody

\* coroutine_extended_dispose: the worker was cancelled before it started.
Dispose(w) ==
    /\ Switchable /\ worker[w].pc = "queued" /\ worker[w].doomed /\ worker[w].slot
    /\ \E i \in {Dtor(ReleaseCoroutine(it))}, ws \in {[worker EXCEPT ![w] = Unborn]} :
          it' = i /\ worker' = ws
    /\ UNCHANGED running

KidEnds ==
    /\ Switchable /\ it.kid \in {"running", "doomed"}
    /\ it' = [it EXCEPT !.kid = "ended"]
    /\ UNCHANGED <<worker, running>>

-----------------------------------------------------------------------------
(* iterate() after its suspension.                                         *)

ScopeIsCompleted == it.scope = "cancelled" \/ Idle(it, worker)

\* The last lines of iterate(): the PHP iterator and the callback go away.
IterateReturns(c) ==
    /\ caller' = [c EXCEPT !.pc = "returned"]
    /\ it' = Dtor([it EXCEPT !.undefined = Living # {}])
    /\ UNCHANGED worker

CallerResumes ==
    /\ Switchable /\ caller.pc = "completion" /\ caller.woken # "no"
    /\ \E c \in {[caller EXCEPT !.error = caller.woken = "error"]} :
          IF ScopeIsCompleted THEN IterateReturns(c)
          ELSE /\ caller' = [c EXCEPT !.pc = "scope", !.woken = "no"]
               /\ IF it.cancelPending
                  THEN it' = CancelScope(it) /\ worker' = CancelWorkers(worker)
                  ELSE UNCHANGED <<it, worker>>
    /\ UNCHANGED running

CallerLeavesScope ==
    /\ Switchable /\ caller.pc = "scope" /\ caller.woken # "no"
    /\ IterateReturns([caller EXCEPT !.error = @ \/ caller.woken = "error"])
    /\ UNCHANGED running

\* The caller is cancelled while it waits.
CallerCancelled ==
    /\ Switchable /\ caller.pc \notin {"start", "returned"} /\ caller.woken = "no"
    /\ caller.cancels > 0
    /\ caller' = [caller EXCEPT !.woken = "error", !.cancels = @ - 1]
    /\ UNCHANGED <<it, worker, running>>

\* The scope around the caller and the iterator is cancelled.
ParentCancelled ==
    /\ Switchable /\ caller.pc \notin {"start", "returned"} /\ caller.woken = "no" /\ caller.cancels > 0
    /\ caller' = [caller EXCEPT !.woken = "error", !.cancels = @ - 1]
    /\ it' = CancelScope(it) /\ worker' = CancelWorkers(worker)
    /\ UNCHANGED running

WorkerStep(w) ==
    \/ Start(w) \/ Suspend(w, IF it.validSuspends THEN Moving \cup {"valid"} ELSE Moving)
    \/ Resume(w) \/ Loop(w) \/ ValidReturns(w)
    \/ EndMove(w) \/ MoveFails(w) \/ Leave(w)
=============================================================================
