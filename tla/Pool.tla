----------------------------- MODULE Pool -----------------------------
(* pool.c: Async\Pool, a pool of at most max_size resources.              *)
(*                                                                        *)
(* A resource is idle, checked out, or in the hands of a call that runs a *)
(* hook on it.  The factory and the other hooks are PHP code that may     *)
(* suspend, so a call is split where it runs one: frame[c] says where     *)
(* coroutine c is.  A place (an idle resource, or the capacity to create  *)
(* one) is reserved for a parked coroutine when it is woken, until it     *)
(* runs.  The health check runs in a timer callback, where a hook cannot  *)
(* suspend, and is one step.                                              *)
(*                                                                        *)
(* The pool knows an object it has handed out by its handle; of scalars   *)
(* it only knows how many are out.  So the names of resources are split   *)
(* into objects and scalars, and callers may break the rules, once:       *)
(* release() of a scalar they do not have, or an object that goes out of  *)
(* scope without release().  active_count is a uint32_t: a number below   *)
(* zero stands for one that has wrapped.                                  *)
EXTENDS Integers, Sequences, FiniteSets

CONSTANTS
    Coroutines,
    Resources,      \* the names of resources, enough for all that are alive
    min_size,
    max_size,
    Setups          \* how the pool is built and used, one choice per behaviour:
                    \*   calls: how many calls are in progress at a time
                    \*   hooks: the hooks that are set, and may reject, throw or suspend
                    \*   healthcheck: there is a health check
                    \*   hook_closes: the health check hook may close the pool
                    \*   circuit_breaker: the pool is deactivated and activated
                    \*   objects: the resources that are objects, and not scalars
                    \*   misuse: callers may break the rules, once

ASSUME PoolAssumption ==
    /\ IsFiniteSet(Coroutines)
    /\ min_size \in Nat /\ max_size \in Nat \ {0} /\ min_size <= max_size
    /\ Resources \subseteq Nat \ {0} /\ 1..min_size \subseteq Resources
    /\ Setups \subseteq [calls : Nat, healthcheck : BOOLEAN, hook_closes : BOOLEAN, circuit_breaker : BOOLEAN,
                        objects : SUBSET Resources, misuse : BOOLEAN,
                        hooks : SUBSET {"before_acquire", "before_release", "destructor", "strategy"}]

VARIABLES
    pool,       \* the pool and the wakers of the coroutines
    frame,      \* the call a coroutine is in
    setup,      \* the choice from Setups
    misused     \* callers have broken the rules

vars == <<pool, frame, setup, misused>>

NoResource == 0

\* at: where the call is; op: "acquire", "try" or "release"; resource: what it
\* holds; threw: an exception is parked while the destructor runs.
Frame(at, op, resource, threw) ==
    [at |-> at, op |-> op, resource |-> resource, threw |-> threw]

Idle == Frame("run", "none", NoResource, FALSE)

-----------------------------------------------------------------------
(* The queue of waiters, and the places.                                  *)

InQueue(queue, c) == \E i \in DOMAIN queue : queue[i] = c

pool_queue_remove(queue, c) ==
    LET at == CHOOSE i \in DOMAIN queue : queue[i] = c
    IN  IF ~InQueue(queue, c) THEN queue
        ELSE [i \in 1..Len(queue) - 1 |-> IF i < at THEN queue[i] ELSE queue[i + 1]]

Unreserved(s) == {i \in DOMAIN s.waiters : s.waiters[i] \notin s.reserved}

pool_queue_first_unreserved(s) ==
    s.waiters[CHOOSE i \in Unreserved(s) : \A j \in Unreserved(s) : i <= j]

Total(s) == Len(s.idle) + s.active_count

\* The comparison of the unsigned total with a limit.
TotalBelow(s, limit) == Total(s) \in 0..limit - 1

\* ASYNC_POOL_UNRESERVED(pool) > 0.  The macro subtracts unsigned numbers, so
\* it is positive whenever the difference is not zero.
HasUnreserved(s) == s.active_count + s.reserved_count # max_size

InHand == {frame[c].resource : c \in Coroutines} \ {NoResource}

RangeOf(queue) == {queue[i] : i \in DOMAIN queue}

Unused(s) == Resources \ (RangeOf(s.idle) \cup s.out \cup InHand)

-----------------------------------------------------------------------
(* Wait and wake.                                                         *)

\* async_coroutine_resume: the coroutine is queued, and keeps the error of an
\* earlier wakeup.
Resumed(s, c, e) ==
    [s EXCEPT !.queued = @ \cup {c},
              !.error[c] = IF e = "none" THEN @ ELSE e]

pool_wake_waiter(s) ==
    LET c == pool_queue_first_unreserved(s)
    IN  IF Unreserved(s) = {} THEN s
        ELSE Resumed([s EXCEPT !.reserved = @ \cup {c}, !.reserved_count = @ + 1], c, "none")

\* Mutant: the drain stops before the last element.
pool_wake_all_with_exception_but_one(s) ==
    LET failed == IF s.waiters = <<>> THEN {} ELSE RangeOf(Tail(s.waiters))
    IN  [s EXCEPT !.waiters = IF @ = <<>> THEN @ ELSE <<Head(@)>>,
                  !.queued = @ \cup failed,
                  !.error = [c \in Coroutines |-> IF c \in failed THEN "closed" ELSE @[c]]]

pool_wake_all_with_exception(s) ==
    LET failed == RangeOf(s.waiters)
    IN  [s EXCEPT !.waiters = <<>>,
                  !.queued = @ \cup failed,
                  !.error = [c \in Coroutines |-> IF c \in failed THEN "closed" ELSE @[c]]]

\* pool_wait_for_resource up to the suspension ...
Park(s, c) == [s EXCEPT !.waiters = Append(@, c), !.error[c] = "none"]

\* Mutant: a waiter that fails does not hand its reservation on.
Woken_keeps(s, c) ==
    [s EXCEPT !.waiters = pool_queue_remove(@, c),
              !.reserved = @ \ {c},
              !.queued = @ \ {c},
              !.reserved_count = IF c \in s.reserved THEN @ - 1 ELSE @]

\* ... and from the wakeup on.
Woken(s, c) ==
    LET had_reservation == c \in s.reserved
        left == [s EXCEPT !.waiters = pool_queue_remove(@, c),
                          !.reserved = @ \ {c},
                          !.queued = @ \ {c},
                          !.reserved_count = IF had_reservation THEN @ - 1 ELSE @]
    IN  IF had_reservation /\ s.error[c] # "none" /\ ~s.closed
        THEN pool_wake_waiter(left) ELSE left

-----------------------------------------------------------------------
(* acquire() and tryAcquire() from their retry label on.                  *)

Go(c, s, f) ==
    /\ pool' = s
    /\ frame' = [frame EXCEPT ![c] = f]

Return(c, s) == Go(c, s, Idle)

GiveUp(s, has_reservation) == IF has_reservation THEN pool_wake_waiter(s) ELSE s

\* pool_check_out records the handle of an object.  out is what the callers
\* have, objects and scalars.
CheckOut(s, r) ==
    [s EXCEPT !.checked_out = @ \cup ({r} \cap setup.objects), !.out = @ \cup {r}]

AcquireFrom(s, c, op, has_reservation) ==
    LET may_serve_self == has_reservation \/ HasUnreserved(s)
        r == Head(s.idle)
        taken == [s EXCEPT !.idle = Tail(@), !.active_count = @ + 1]
        unavailable == s.closed \/ s.circuit = "INACTIVE"
        from_idle == ~unavailable /\ s.idle # <<>> /\ may_serve_self
        create == ~unavailable /\ ~from_idle /\ TotalBelow(s, max_size) /\ may_serve_self
    IN  \/ /\ unavailable
           /\ Return(c, GiveUp(s, has_reservation))
        \/ /\ from_idle
           /\ IF "before_acquire" \in setup.hooks
              THEN Go(c, taken, Frame("before_acquire", op, r, FALSE))
              ELSE Return(c, CheckOut(taken, r))
        \/ /\ create
           /\ Go(c, [s EXCEPT !.active_count = @ + 1], Frame("factory", op, NoResource, FALSE))
        \/ /\ ~unavailable /\ ~from_idle /\ ~create
           /\ IF op = "acquire"
              THEN Go(c, Park(s, c), Frame("waiting", op, NoResource, FALSE))
              ELSE Return(c, s)

\* The destructor returned: an exception ends the call and hands the freed
\* capacity on, otherwise the call tries again.
AfterDestroy(s, c, op, threw) ==
    \/ /\ threw
       /\ Return(c, pool_wake_waiter(s))
    \/ /\ ~threw
       /\ AcquireFrom(s, c, op, FALSE)

\* A coroutine that is in no call may start one.
MayCall(c) ==
    /\ frame[c].at = "run"
    /\ Cardinality({d \in Coroutines : frame[d].at # "run"}) < setup.calls

acquire(c) ==
    /\ MayCall(c)
    /\ AcquireFrom(pool, c, "acquire", FALSE)

try_acquire(c) ==
    /\ MayCall(c)
    /\ AcquireFrom(pool, c, "try", FALSE)

resume(c) ==
    /\ frame[c].at = "waiting" /\ c \in pool.queued
    /\ LET s == [Woken(pool, c) EXCEPT !.error[c] = "none"]
       IN  \/ /\ pool.error[c] # "none"
              /\ Return(c, s)
           \/ /\ pool.error[c] = "none"
              /\ AcquireFrom(s, c, "acquire", c \in pool.reserved)

\* The beforeAcquire hook returns: the resource is good, it is rejected (by
\* FALSE or an exception), or the coroutine was cancelled inside the hook.
before_acquire_returns(c, outcome) ==
    /\ frame[c].at = "before_acquire"
    /\ LET f == frame[c]
           freed == [pool EXCEPT !.active_count = @ - 1]
       IN  \/ /\ outcome = "good"
              /\ Return(c, CheckOut(pool, f.resource))
           \/ /\ outcome # "good" /\ "destructor" \in setup.hooks
              /\ Go(c, freed, Frame("acquire_destroy", f.op, NoResource, outcome = "cancelled"))
           \/ /\ outcome # "good" /\ "destructor" \notin setup.hooks
              /\ AfterDestroy(freed, c, f.op, outcome = "cancelled")

acquire_destroy_returns(c, throws) ==
    /\ frame[c].at = "acquire_destroy"
    /\ AfterDestroy(pool, c, frame[c].op, throws \/ frame[c].threw)

factory_returns(c, good) ==
    /\ frame[c].at = "factory"
    /\ \/ /\ good
          /\ \E r \in Unused(pool) :
                 /\ \A x \in Unused(pool) : r <= x
                 /\ Return(c, CheckOut(pool, r))
       \/ /\ ~good
          /\ Return(c, pool_wake_waiter([pool EXCEPT !.active_count = @ - 1]))

-----------------------------------------------------------------------
(* release().                                                             *)

\* Mutant: the handle is deleted after the hook, not before it.
pool_check_in_late(s, r) ==
    s.active_count # 0 /\ (r \in setup.objects => r \in s.checked_out \cup InHand)

pool_check_in(s, r) ==
    s.active_count # 0 /\ (r \in setup.objects => r \in s.checked_out)

\* The strategy has heard of the success.
PutBack(s, c, r) ==
    Return(c, IF s.closed THEN s ELSE pool_wake_waiter([s EXCEPT !.idle = Append(@, r)]))

Discard(s, c) ==
    IF "destructor" \in setup.hooks
    THEN Go(c, s, Frame("release_destroy", "release", NoResource, FALSE))
    ELSE Return(c, pool_wake_waiter(s))

\* The beforeRelease hook has returned.
Released(s, c, r, outcome) ==
    LET freed == [s EXCEPT !.active_count = @ - 1]
        strategy == "strategy" \in setup.hooks
    IN  \/ /\ outcome = "good" /\ strategy
           /\ Go(c, freed, Frame("report_success", "release", r, FALSE))
        \/ /\ outcome = "good" /\ ~strategy
           /\ PutBack(freed, c, r)
        \/ /\ outcome = "rejected" /\ strategy
           /\ Go(c, freed, Frame("report_failure", "release", NoResource, FALSE))
        \/ /\ outcome = "cancelled" \/ (outcome = "rejected" /\ ~strategy)
           /\ Discard(freed, c)

\* release() of an object is called whoever has it; of a scalar, by a caller
\* that has it or breaks the rules.
release(c, r) ==
    /\ MayCall(c)
    /\ r \in setup.objects \cup pool.out \/ (setup.misuse /\ ~misused)
    /\ pool_check_in(pool, r)
    /\ LET s == [pool EXCEPT !.checked_out = @ \ {r}, !.out = @ \ {r}]
       IN  IF "before_release" \in setup.hooks
           THEN Go(c, s, Frame("before_release", "release", r, FALSE))
           ELSE Released(s, c, r, "good")
    /\ misused' = (misused \/ r \notin setup.objects \cup pool.out)

\* An acquired object is destroyed and not released, and its handle is free for
\* the next one; the pool is not told.
drop(r) ==
    /\ setup.misuse /\ ~misused /\ r \in pool.out \cap setup.objects
    /\ pool' = [pool EXCEPT !.out = @ \ {r}]
    /\ misused' = TRUE
    /\ UNCHANGED frame

before_release_returns(c, outcome) ==
    /\ frame[c].at = "before_release"
    /\ Released(pool, c, frame[c].resource, outcome)

report_success_returns(c) ==
    /\ frame[c].at = "report_success"
    /\ PutBack(pool, c, frame[c].resource)

report_failure_returns(c) ==
    /\ frame[c].at = "report_failure"
    /\ Discard(pool, c)

release_destroy_returns(c) ==
    /\ frame[c].at = "release_destroy"
    /\ Return(c, pool_wake_waiter(pool))

-----------------------------------------------------------------------
(* Everything else.                                                       *)

zend_async_pool_close ==
    /\ ~pool.closed
    /\ pool' = [pool_wake_all_with_exception([pool EXCEPT !.closed = TRUE]) EXCEPT !.idle = <<>>]
    /\ UNCHANGED frame

\* Coroutine::cancel() on a parked coroutine, woken already or not.
cancel(c) ==
    /\ frame[c].at = "waiting"
    /\ pool' = [pool EXCEPT !.queued = @ \cup {c}, !.error[c] = "cancelled"]
    /\ UNCHANGED frame

\* The timer of acquire($timeout).  A wakeup has stopped it.
timeout(c) ==
    /\ frame[c].at = "waiting" /\ c \notin pool.queued
    /\ pool' = Resumed(pool, c, "timeout")
    /\ UNCHANGED frame

\* activate(), deactivate() and recover().
set_circuit(state) ==
    /\ setup.circuit_breaker
    /\ pool' = [pool EXCEPT !.circuit = state]
    /\ UNCHANGED frame

\* The hook of the health check closes the pool.  A bad resource is replaced
\* all the same when the pool is below min_size.
healthcheck_closes ==
    /\ setup.healthcheck /\ setup.hook_closes /\ ~pool.closed /\ pool.idle # <<>>
    /\ LET closed == pool_wake_all_with_exception([pool EXCEPT !.closed = TRUE])
       IN  \E left \in {<<>>} \cup {<<r>> : r \in Unused(pool)} :
               /\ left # <<>> => pool.active_count \in 0..min_size - 1
               /\ pool' = [closed EXCEPT !.idle = left]
    /\ UNCHANGED frame

\* The timer callback takes the idle resources out one by one and puts them
\* back, except for bad ones that the factory does not replace (a replacement
\* takes over the name; the order of idle resources does not matter, as they
\* are alike).  One waiter is woken whatever happened.
pool_healthcheck_timer_callback ==
    /\ setup.healthcheck /\ ~pool.closed
    /\ \E n \in 0..Len(pool.idle) : \E kept \in [1..n -> DOMAIN pool.idle] :
           /\ \A i, j \in 1..n : i < j => kept[i] < kept[j]
           /\ pool' = pool_wake_waiter([pool EXCEPT !.idle = [i \in 1..n |-> pool.idle[kept[i]]]])
    /\ UNCHANGED frame

Init ==
    /\ \E n \in 0..min_size :
           pool = [idle |-> [i \in 1..n |-> i], active_count |-> 0, checked_out |-> {}, out |-> {},
                   waiters |-> <<>>, reserved |-> {}, reserved_count |-> 0,
                   closed |-> FALSE, circuit |-> "ACTIVE",
                   queued |-> {}, error |-> [c \in Coroutines |-> "none"]]
    /\ frame = [c \in Coroutines |-> Idle]
    /\ setup \in Setups
    /\ misused = FALSE

Outcomes == {"good", "rejected", "cancelled"}

Step ==
    \/ \E c \in Coroutines :
           \/ acquire(c)
           \/ try_acquire(c)
           \/ resume(c)
           \/ \E outcome \in Outcomes : \/ before_acquire_returns(c, outcome)
                                        \/ before_release_returns(c, outcome)
           \/ \E throws \in BOOLEAN : acquire_destroy_returns(c, throws)
           \/ \E good \in BOOLEAN : factory_returns(c, good)
           \/ report_success_returns(c)
           \/ report_failure_returns(c)
           \/ release_destroy_returns(c)
           \/ cancel(c)
           \/ timeout(c)
    \/ zend_async_pool_close
    \/ \E state \in {"ACTIVE", "INACTIVE", "RECOVERING"} : set_circuit(state)
    \/ pool_healthcheck_timer_callback
    \/ healthcheck_closes

Next ==
    /\ \/ Step /\ UNCHANGED misused
       \/ \E c \in Coroutines, r \in Resources : release(c, r)
       \/ \E r \in Resources : drop(r)
    /\ UNCHANGED setup

Spec == Init /\ [][Next]_vars

-----------------------------------------------------------------------
(* Properties.  They hold as long as callers keep to the rules.           *)

\* pool.h: "Since idle + active never exceeds max_size, the places are
\* max_size minus what is held".  The strategy, which release() calls when it
\* has given up its count and still holds the resource, is excepted.
TotalFits ==
    "strategy" \notin setup.hooks => Len(pool.idle) + pool.active_count <= max_size

\* pool.h: "An idle resource or free capacity is reserved for this waiter":
\* the places reserved, all together, exist, so that the unsigned subtraction
\* in ASYNC_POOL_UNRESERVED does not wrap.  Excepted are the hooks that
\* release() calls between its count and its wakeup, where others take the
\* place, and the health check, which wakes a waiter whether it freed a place
\* or not.
ReservationsFit ==
    setup.hooks \cap {"destructor", "strategy"} = {} /\ ~setup.healthcheck =>
        pool.active_count + pool.reserved_count <= max_size

\* A resource is idle, checked out or in one call's hands, never twice: no two
\* coroutines get the same resource, whatever object release() is called with
\* while a hook runs.
EveryResourceOnce ==
    /\ \A i, j \in DOMAIN pool.idle : pool.idle[i] = pool.idle[j] => i = j
    /\ RangeOf(pool.idle) \cap (pool.out \cup InHand) = {}
    /\ pool.out \cap InHand = {}
    /\ \A c, d \in Coroutines : frame[c].resource = frame[d].resource /\ c # d =>
           frame[c].resource = NoResource

\* The calls that count for a resource they hold or are about to create.
Holding == {c \in Coroutines : frame[c].at \in {"before_acquire", "factory", "before_release"}}

\* The calls that have given up their count and run a hook before they report
\* the place.
Freeing ==
    {c \in Coroutines :
        frame[c].at \in {"acquire_destroy", "release_destroy", "report_success", "report_failure"}}

\* Resources and places are accounted for exactly, through every hook that
\* suspends, is cancelled or throws.  No resource is in two places;
\* active_count ("exactly one decrement") is the number of resources checked
\* out or in the hands of a call, and the handles recorded are those of the
\* objects among them; reserved_count is the number of waiters with a
\* reservation (the assertion in pool_wait_for_resource); neither goes over
\* max_size; and a closed pool keeps no idle resource, which nobody would
\* destroy ("Closed while we checked: close already drained idle"), unless the
\* health check closed it.  A second release() of an object is refused, so the
\* counts survive it; that of a scalar, and an object dropped, are excepted.
CountsAreExact ==
    ~misused =>
        /\ EveryResourceOnce
        /\ pool.checked_out = pool.out \cap setup.objects
        /\ pool.active_count = Cardinality(pool.out) + Cardinality(Holding)
        /\ pool.reserved_count = Cardinality(pool.reserved)
        /\ TotalFits
        /\ ReservationsFit
        /\ pool.closed /\ ~setup.hook_closes => pool.idle = <<>>

\* "Arrival order is the service order": nobody holds a reservation while an
\* older waiter has none.  And "no other path wakes a waiter for it": while
\* the pool is open, nobody waits without a reservation beside a place that
\* is held by nobody, reserved for nobody and about to be reported by nobody.
\* The circuit breaker is excepted: a call that finds it open after its hook
\* hands its place to nobody.
WaitersComeFirst ==
    ~misused =>
        /\ \A i, j \in DOMAIN pool.waiters :
               i < j /\ pool.waiters[j] \in pool.reserved => pool.waiters[i] \in pool.reserved
        /\ ~setup.circuit_breaker /\ ~pool.closed
               /\ pool.active_count + pool.reserved_count + Cardinality(Freeing) < max_size =>
           Unreserved(pool) = {}

\* acquire() ends if hooks return and resources come back: when every woken
\* coroutine has run, every hook has returned and nothing is checked out,
\* nobody is parked.
EveryAcquireEnds ==
    /\ pool.queued = {} /\ pool.out = {}
    /\ \A c \in Coroutines : frame[c].at \in {"run", "waiting"}
    /\ ~setup.circuit_breaker /\ ~misused
    => \A c \in Coroutines : frame[c].at = "run"
=======================================================================
