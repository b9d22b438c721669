------------------------------ MODULE TaskGroup ------------------------------
(***************************************************************************)
(* Async\TaskGroup and Async\TaskSet (src/task_group.c): a bounded number  *)
(* of running coroutines, a bounded queue of closures behind them, callers *)
(* of spawn() parked when the queue is full, and the four ways of waiting  *)
(* for results: the futures of all(), race() and any(), the iterator and   *)
(* awaitCompletion().  The group lives in one thread: a handler runs to    *)
(* its next suspension in one step.                                        *)
(***************************************************************************)
EXTENDS Integers, FiniteSets, Sequences, SequencesExt

CONSTANTS
    Spawners,     \* 1..n: the calls of spawn(), numbered in the order they start
    Names,        \* the keys callers of spawnWithKey() pass
    Futures,      \* 1..m: the futures of all(), race() and any(), in order
    Settings,     \* the constructor's concurrency and queueLimit, is it a TaskSet, and
                  \* the bound on the calls other than spawn(), close() and cancel()
    NoLimit,      \* queueLimit is null
    MaxUint       \* UINT32_MAX

ASSUME SettingsAssumption ==
    /\ Spawners = 1..Cardinality(Spawners)
    /\ Futures = 1..Cardinality(Futures)
    /\ MaxUint \in Nat \ {0}
    /\ Names \cap 0..Cardinality(Spawners) = {}
    /\ \A s \in Settings : s.concurrency \in 0..MaxUint /\ s.calls \in Nat

VARIABLES
    group,        \* the async_task_group_t structure
    spawner,      \* the calls of spawn(): where each is and the key it carries
    future,       \* the futures handed out
    iterator,     \* the one foreach over the group
    calls,        \* how many calls other than spawn(), close() and cancel() are left
    crowded       \* history: at some time two waited in one queue of the group

vars == <<group, spawner, future, iterator, calls, crowded>>

IteratorWaiter == 0     \* the iterator's entry in waiter_events

-----------------------------------------------------------------------------
(* The constructor.                                                        *)

\* __construct: queue_limit defaults to twice the concurrency, saturating.
DefaultQueueLimit(concurrency) ==
    IF concurrency = 0 THEN 0
    ELSE IF concurrency > MaxUint \div 2 THEN MaxUint
    ELSE concurrency * 2

NewGroup(s) ==
    [tasks |-> <<>>, active |-> 0, pending_count |-> 0, next_key |-> 0,
     concurrency |-> s.concurrency,
     queue_limit |-> IF s.queueLimit = NoLimit
                     THEN DefaultQueueLimit(s.concurrency) ELSE s.queueLimit,
     task_set |-> s.taskSet,
     slot_waiters |-> <<>>, woken |-> {},
     waiter_events |-> <<>>, iterator_woken |-> FALSE,
     awaiting |-> FALSE, awaiter |-> "off",
     sealed |-> FALSE, completed |-> FALSE, handled |-> FALSE,
     finally |-> "none", scope |-> "open",
     unseen |-> {}, reported |-> FALSE]

Init ==
    /\ \E s \in Settings : group = NewGroup(s) /\ calls = s.calls
    /\ spawner = [s \in Spawners |-> [pc |-> "idle", key |-> 0]]
    /\ future = [f \in Futures |-> [type |-> "none", is |-> "none", of |-> {}]]
    /\ iterator = [pc |-> "off", position |-> 0, seen |-> <<>>]
    /\ crowded = FALSE

-----------------------------------------------------------------------------
(* The tasks table: entries in spawn order, each pending, running, error   *)
(* or ok (the result itself).                                              *)

\* The tasks whose entries are in one of the states.  A key may be used again
\* once a TaskSet has dropped its entry, so a task goes by the call that made it.
TasksIn(g, states) ==
    {g.tasks[i].id : i \in {j \in DOMAIN g.tasks : g.tasks[j].is \in states}}

HasKey(g, k) == \E i \in DOMAIN g.tasks : g.tasks[i].key = k

HasPending(g) == TasksIn(g, {"pending"}) # {}

\* task_group_all_settled() and no pending entry: isFinished().
IsFinished(g) == g.active = 0 /\ ~HasPending(g)

HasErrors(g) == TasksIn(g, {"error"}) # {}

CollectResults(g) == TasksIn(g, {"ok"})

CollectErrors(g) == TasksIn(g, {"error"})

\* Entries of a TaskSet leave the table once delivered; a TaskGroup keeps them.
RemoveEntry(g, k) ==
    IF g.task_set THEN [g EXCEPT !.tasks = SelectSeq(@, LAMBDA e : e.key # k)] ELSE g

RemoveAllEntries(g) == IF g.task_set THEN [g EXCEPT !.tasks = <<>>] ELSE g

-----------------------------------------------------------------------------
(* Slots and the callers parked for one.                                   *)

HasSlot(g) == g.concurrency = 0 \/ g.active < g.concurrency

QueueIsFull(g) == g.queue_limit > 0 /\ g.pending_count >= g.queue_limit

\* The head of slot_waiters is woken; it leaves the table only when it runs.
FireOneSlotWaiter(g) ==
    IF g.slot_waiters = <<>> THEN g
    ELSE [g EXCEPT !.woken = @ \cup {Head(g.slot_waiters)}]

\* ZEND_ASYNC_EVENT_SET_EXCEPTION_HANDLED: getErrors, suppressErrors, cancel and
\* foreach take the errors so far upon themselves ("unseen" is a history).
SetHandled(g) == [g EXCEPT !.handled = TRUE, !.unseen = {}]

FireAllSlotWaiters(g) == [g EXCEPT !.woken = @ \cup Range(g.slot_waiters)]

\* task_group_spawn_coroutine without a pending entry.  spawn() refuses a
\* closed scope, and then nothing is recorded.
SpawnNow(g, s, k) ==
    IF g.scope = "closed" THEN g
    ELSE [g EXCEPT !.tasks = Append(@, [key |-> k, id |-> s, is |-> "running"]),
                   !.active = @ + 1]

\* Mutant: the pending count is not taken down when an entry starts.
StartPendingUncounted(g, i) ==
    FireOneSlotWaiter([g EXCEPT !.tasks[i].is = "running", !.active = @ + 1])

\* task_group_spawn_coroutine for a pending entry.
StartPending(g, i) ==
    FireOneSlotWaiter([g EXCEPT !.tasks[i].is = "running",
                                !.pending_count = @ - 1,
                                !.active = @ + 1])

FirstPending(g) ==
    CHOOSE i \in DOMAIN g.tasks :
        /\ g.tasks[i].is = "pending"
        /\ \A j \in 1..(i - 1) : g.tasks[j].is # "pending"

RECURSIVE Drain(_)
Drain(g) ==
    IF g.scope # "closed" /\ HasSlot(g) /\ HasPending(g)
    THEN Drain(StartPending(g, FirstPending(g)))
    ELSE g

-----------------------------------------------------------------------------
(* The vector of waiters.  The operators below carry the group and the     *)
(* futures together: c = [g |-> group, f |-> future].                      *)

TypeOf(c, w) == IF w = IteratorWaiter THEN "iterator" ELSE c.f[w].type

AddWaiter(g, w) == [g EXCEPT !.waiter_events = Append(@, w)]

\* task_group_waiter_event_remove: the last waiter takes the free place.
RemoveWaiter(g, w) ==
    LET v == g.waiter_events
        n == Len(v)
        places == {i \in DOMAIN v : v[i] = w}
    IN  IF places = {} THEN g
        ELSE LET i == CHOOSE p \in places : TRUE
             IN  [g EXCEPT !.waiter_events =
                     [j \in 1..(n - 1) |-> IF j = i THEN v[n] ELSE v[j]]]

\* ZEND_FUTURE_COMPLETE and ZEND_FUTURE_REJECT, then the waiter is detached.
Resolve(c, w, is, of) ==
    [g |-> RemoveWaiter(c.g, w), f |-> [c.f EXCEPT ![w].is = is, ![w].of = of]]

NotifyIterator(c) == [c EXCEPT !.g.iterator_woken = TRUE]

\* The outcome of all(): the composite of the errors, or the results.
ResolveAll(c, w) ==
    IF TypeOf(c, w) = "all" /\ HasErrors(c.g)
    THEN Resolve(c, w, "error", CollectErrors(c.g))
    ELSE Resolve(c, w, "ok", CollectResults(c.g))

Emptied(c) == [c EXCEPT !.g = RemoveAllEntries(@)]

\* The walk of task_group_on_coroutine_complete over the waiters, from place i.
RECURSIVE NotifyWaiters(_, _, _, _)
NotifyWaiters(c, i, e, outcome) ==
    IF i > Len(c.g.waiter_events) THEN c
    ELSE LET w == c.g.waiter_events[i] IN
         CASE TypeOf(c, w) = "race" ->
                LET r == Resolve(c, w, outcome, {e.id})
                IN  NotifyWaiters([r EXCEPT !.g = RemoveEntry(@, e.key)], i, e, outcome)
           [] TypeOf(c, w) = "any" /\ outcome = "ok" ->
                NotifyWaiters(Resolve(c, w, outcome, {e.id}), i, e, outcome)
           [] TypeOf(c, w) = "iterator" ->
                NotifyWaiters(NotifyIterator(c), i + 1, e, outcome)
           [] OTHER -> NotifyWaiters(c, i + 1, e, outcome)

\* The walk of task_group_try_complete.  Only the ALL_IGNORE_ERRORS case looks
\* at the waiter that was moved into the free place; ALL and ANY step over it,
\* and an iterator steps over its neighbour.  Errors are looked up once, before.
RECURSIVE SettleWaiters(_, _, _)
SettleWaiters(c, i, errors) ==
    IF i > Len(c.g.waiter_events) THEN c
    ELSE LET w == c.g.waiter_events[i] IN
         CASE TypeOf(c, w) = "all" ->
                LET r == IF errors THEN Resolve(c, w, "error", CollectErrors(c.g))
                         ELSE Resolve(c, w, "ok", CollectResults(c.g))
                IN  SettleWaiters(Emptied(r), i + 1, errors)
           [] TypeOf(c, w) = "allIgnore" ->
                SettleWaiters(Emptied(ResolveAll(c, w)), i, errors)
           [] TypeOf(c, w) = "any" ->
                SettleWaiters(Resolve(c, w, "error", CollectErrors(c.g)), i + 1, errors)
           [] TypeOf(c, w) = "iterator" ->
                SettleWaiters(NotifyIterator(c), i + 2, errors)
           [] OTHER -> SettleWaiters(c, i + 2, errors)

\* Finally handlers are started whether or not the group is sealed.
FireFinally(g) == [g EXCEPT !.finally = IF @ = "held" THEN "running" ELSE @]

TryComplete(c) ==
    IF ~IsFinished(c.g) THEN c
    ELSE LET s == SettleWaiters(c, 1, HasErrors(c.g))
         IN  [s EXCEPT !.g = FireFinally([@ EXCEPT !.completed = @ \/ s.g.sealed,
                                                   !.awaiting = FALSE,
                                                   !.awaiter = IF s.g.awaiting
                                                               THEN "woken" ELSE @])]

Take(c) == group' = c.g /\ future' = c.f

Now == [g |-> group, f |-> future]

Crowd == crowded' = \/ crowded
                    \/ Len(group'.slot_waiters) > 1
                    \/ Len(group'.waiter_events) > 1

Alive == group.scope # "gone"

\* One of the bounded calls.
Called == Alive /\ calls > 0 /\ calls' = calls - 1

-----------------------------------------------------------------------------
(* spawn() and spawnWithKey().                                             *)

\* The end of task_group_do_spawn: run it, or queue it behind the running ones.
Admit(g, s, k) ==
    IF HasSlot(g) THEN SpawnNow(g, s, k)
    ELSE [g EXCEPT !.tasks = Append(@, [key |-> k, id |-> s, is |-> "pending"]),
                   !.pending_count = @ + 1]

\* The loop of task_group_do_spawn: a trigger of its own per turn, at the end.
ParkOrAdmit(g, s, k) ==
    IF ~HasSlot(g) /\ QueueIsFull(g)
    THEN /\ group' = [g EXCEPT !.slot_waiters = Append(@, s)]
         /\ spawner' = [spawner EXCEPT ![s] = [pc |-> "parked", key |-> k]]
    ELSE /\ group' = Admit(g, s, k)
         /\ spawner' = [spawner EXCEPT ![s] = [pc |-> "returned", key |-> 0]]

Refuse(g, s) ==
    /\ group' = g
    /\ spawner' = [spawner EXCEPT ![s] = [pc |-> "threw", key |-> 0]]

DoSpawn(g, s, k) ==
    IF g.sealed \/ g.completed \/ HasKey(g, k) THEN Refuse(g, s)
    ELSE ParkOrAdmit(g, s, k)

NextSpawner(s) ==
    /\ spawner[s].pc = "idle"
    /\ \A t \in 1..(s - 1) : spawner[t].pc # "idle"

\* The key is taken before the group is asked whether it is closed.
Spawn(s) ==
    /\ Alive /\ NextSpawner(s)
    /\ DoSpawn([group EXCEPT !.next_key = @ + 1], s, group.next_key)
    /\ Crowd /\ UNCHANGED <<future, iterator, calls>>

\* Callers parked at the same time carry different keys: the code looks for a
\* duplicate before it parks and not after.
SpawnWithKey(s, k) ==
    /\ Alive /\ NextSpawner(s)
    /\ \A t \in Spawners : spawner[t] # [pc |-> "parked", key |-> k]
    /\ DoSpawn(group, s, k)
    /\ Crowd /\ UNCHANGED <<future, iterator, calls>>

LeaveSlotQueue(g, s) ==
    [g EXCEPT !.slot_waiters = SelectSeq(@, LAMBDA t : t # s), !.woken = @ \ {s}]

\* A parked caller runs again: the trigger goes, the group may be closed by now.
SpawnResumes(s) ==
    /\ spawner[s].pc = "parked" /\ s \in group.woken
    /\ LET g == LeaveSlotQueue(group, s)
       IN  IF g.sealed \/ g.completed THEN Refuse(g, s)
           ELSE ParkOrAdmit(g, s, spawner[s].key)
    /\ Crowd /\ UNCHANGED <<future, iterator, calls>>

\* The parked coroutine is cancelled: it resumes with an exception.
SpawnCancelled(s) ==
    /\ Called
    /\ spawner[s].pc = "parked"
    /\ Refuse(LeaveSlotQueue(group, s), s)
    /\ Crowd /\ UNCHANGED <<future, iterator>>

-----------------------------------------------------------------------------
(* A coroutine of the group ends.                                          *)

SetOutcome(g, e, outcome) ==
    [g EXCEPT !.tasks = [i \in DOMAIN @ |->
                            IF @[i].key = e.key THEN [@[i] EXCEPT !.is = outcome] ELSE @[i]],
              !.handled = @ /\ outcome = "ok",
              !.unseen = IF outcome = "ok" THEN @ ELSE @ \cup {e.id},
              !.active = @ - 1]

\* task_group_on_coroutine_complete.
OnCoroutineComplete(e, outcome) ==
    /\ e.is = "running"
    /\ \E g \in {Drain(SetOutcome(group, e, outcome))} :
       \E c \in {NotifyWaiters([g |-> g, f |-> future], 1, e, outcome)} :
       \E d \in {TryComplete(c)} : Take(d)
    /\ Crowd /\ UNCHANGED <<spawner, iterator, calls>>

\* The coroutine of the finally handlers ends.
FinallyEnds ==
    /\ group.finally = "running"
    /\ group' = [group EXCEPT !.finally = "done"]
    /\ UNCHANGED <<spawner, future, iterator, crowded, calls>>

-----------------------------------------------------------------------------
(* all(), race() and any().                                                *)

NextFuture(f) ==
    /\ future[f].type = "none"
    /\ \A e \in 1..(f - 1) : future[e].type # "none"

NewFuture(f, type) ==
    [g |-> AddWaiter(group, f),
     f |-> [future EXCEPT ![f] = [type |-> type, is |-> "pending", of |-> {}]]]

MethodAll(f, type) ==
    /\ Called /\ NextFuture(f) /\ type \in {"all", "allIgnore"}
    /\ LET c == NewFuture(f, type)
       IN  Take(IF IsFinished(group) THEN Emptied(ResolveAll(c, f)) ELSE c)
    /\ Crowd /\ UNCHANGED <<spawner, iterator>>

\* The settled entry that comes first in spawn order, if there is one.
FirstSettled(g, states) ==
    {g.tasks[i] : i \in {j \in DOMAIN g.tasks :
        /\ g.tasks[j].is \in states
        /\ \A h \in 1..(j - 1) : g.tasks[h].is \notin states}}

AnswerWith(c, f, entry) ==
    LET r == Resolve(c, f, entry.is, {entry.id})
    IN  [r EXCEPT !.g = RemoveEntry(@, entry.key)]

MethodRace(f) ==
    /\ Called /\ NextFuture(f) /\ group.tasks # <<>>
    /\ LET c == NewFuture(f, "race")
           first == FirstSettled(group, {"ok", "error"})
       IN  Take(IF first = {} THEN c ELSE AnswerWith(c, f, CHOOSE e \in first : TRUE))
    /\ Crowd /\ UNCHANGED <<spawner, iterator>>

\* Mutant: any() takes the first task that settled, failed ones too.
MethodAnySettled(f) ==
    /\ Called /\ NextFuture(f) /\ group.tasks # <<>>
    /\ LET c == NewFuture(f, "any")
           first == FirstSettled(group, {"ok", "error"})
       IN  Take(IF first # {} THEN AnswerWith(c, f, CHOOSE e \in first : TRUE)
                ELSE IF IsFinished(group) THEN Resolve(c, f, "error", CollectErrors(group))
                ELSE c)
    /\ Crowd /\ UNCHANGED <<spawner, iterator>>

MethodAny(f) ==
    /\ Called /\ NextFuture(f) /\ group.tasks # <<>>
    /\ LET c == NewFuture(f, "any")
           first == FirstSettled(group, {"ok"})
       IN  Take(IF first # {} THEN AnswerWith(c, f, CHOOSE e \in first : TRUE)
                ELSE IF IsFinished(group) THEN Resolve(c, f, "error", CollectErrors(group))
                ELSE c)
    /\ Crowd /\ UNCHANGED <<spawner, iterator>>

\* The last reference to a future goes: waiter_future_dispose.
FutureDropped(f) ==
    /\ Called
    /\ future[f].is = "pending"
    /\ group' = RemoveWaiter(group, f)
    /\ future' = [future EXCEPT ![f].is = "dropped"]
    /\ UNCHANGED <<spawner, iterator, crowded>>

-----------------------------------------------------------------------------
(* foreach: task_group_iterator_move_forward.                              *)

\* The entry at the iterator's position, settled.
Deliverable(g, it) ==
    /\ it.position < Len(g.tasks)
    /\ g.tasks[it.position + 1].is \in {"ok", "error"}

\* Mutant: the step back of a TaskSet is forgotten.
DeliverTwiceOn(g, it) ==
    LET e == g.tasks[it.position + 1]
    IN  /\ group' = RemoveEntry(g, e.key)
        /\ iterator' = [pc |-> "at", seen |-> Append(it.seen, e.id),
                        position |-> it.position + 1]

\* set_current moves on by one; a TaskSet drops the entry and steps back.
Deliver(g, it) ==
    LET e == g.tasks[it.position + 1]
    IN  /\ group' = RemoveEntry(g, e.key)
        /\ iterator' = [pc |-> "at", seen |-> Append(it.seen, e.id),
                        position |-> IF g.task_set THEN it.position ELSE it.position + 1]

MoveForward(g, it) ==
    IF Deliverable(g, it) THEN Deliver(g, it)
    ELSE IF it.position >= Len(g.tasks) /\ g.sealed /\ IsFinished(g)
    THEN group' = g /\ iterator' = [it EXCEPT !.pc = "end"]
    ELSE /\ group' = [AddWaiter(g, IteratorWaiter) EXCEPT !.iterator_woken = FALSE]
         /\ iterator' = [it EXCEPT !.pc = "parked"]

\* get_iterator and rewind: the errors count as handled from here on.
Foreach ==
    /\ Called /\ iterator.pc = "off"
    /\ MoveForward(SetHandled(group), iterator)
    /\ Crowd /\ UNCHANGED <<spawner, future>>

IteratorForward ==
    /\ iterator.pc = "at"
    /\ MoveForward(group, iterator)
    /\ Crowd /\ UNCHANGED <<spawner, future, calls>>

\* zend_async_waker_clean disposes the waiter event, then the walk starts anew.
IteratorResumes ==
    /\ iterator.pc = "parked" /\ group.iterator_woken
    /\ MoveForward(RemoveWaiter(group, IteratorWaiter), iterator)
    /\ Crowd /\ UNCHANGED <<spawner, future, calls>>

IteratorCancelled ==
    /\ Called
    /\ iterator.pc = "parked"
    /\ group' = RemoveWaiter(group, IteratorWaiter)
    /\ iterator' = [iterator EXCEPT !.pc = "broken"]
    /\ UNCHANGED <<spawner, future, crowded>>

-----------------------------------------------------------------------------
(* Closing, cancelling, disposing, waiting for the end.                    *)

\* try_to_dispose refuses a pinned scope; catch_or_cancel closes a scope with
\* nothing left in it and cancels any other.
ScopeCancel(g) ==
    [g EXCEPT !.scope = IF @ = "closed" \/ (g.active = 0 /\ g.finally # "running")
                        THEN "closed" ELSE "cancelled"]

\* Mutant: close() does not look whether the group is finished already.
CloseOnly ==
    /\ Alive /\ ~group.sealed
    /\ Take([Now EXCEPT !.g = FireAllSlotWaiters([@ EXCEPT !.sealed = TRUE])])
    /\ Crowd /\ UNCHANGED <<spawner, iterator, calls>>

Close ==
    /\ Alive /\ ~group.sealed
    /\ Take(TryComplete([Now EXCEPT !.g = FireAllSlotWaiters([@ EXCEPT !.sealed = TRUE])]))
    /\ Crowd /\ UNCHANGED <<spawner, iterator, calls>>

\* The queued closures stay in the table.
Cancel ==
    /\ Alive /\ ~group.sealed
    /\ Take(TryComplete([Now EXCEPT !.g =
           ScopeCancel(FireAllSlotWaiters(SetHandled([@ EXCEPT !.sealed = TRUE])))]))
    /\ Crowd /\ UNCHANGED <<spawner, iterator, calls>>

Dispose ==
    /\ Called
    /\ group' = ScopeCancel(group)
    /\ UNCHANGED <<spawner, future, iterator, crowded>>

\* getErrors() and suppressErrors().
ErrorsTaken ==
    /\ Called
    /\ group' = SetHandled(group)
    /\ UNCHANGED <<spawner, future, iterator, crowded>>

\* awaitCompletion() from its retry label on.
AwaitSettled(g) ==
    group' = IF IsFinished(g) THEN [g EXCEPT !.awaiter = "returned"]
             ELSE [g EXCEPT !.awaiter = "parked", !.awaiting = TRUE]

AwaitCompletion ==
    /\ Called /\ group.awaiter = "off" /\ group.sealed
    /\ IF group.completed THEN group' = [group EXCEPT !.awaiter = "returned"]
       ELSE AwaitSettled(group)
    /\ UNCHANGED <<spawner, future, iterator, crowded>>

AwaitResumes ==
    /\ group.awaiter = "woken"
    /\ AwaitSettled(group)
    /\ UNCHANGED <<spawner, future, iterator, crowded, calls>>

\* finally(): on a completed group the handler is called on the spot.
Finally ==
    /\ Called /\ group.finally = "none"
    /\ group' = [group EXCEPT !.finally = IF group.completed THEN "done" ELSE "held"]
    /\ UNCHANGED <<spawner, future, iterator, crowded>>

\* The last reference goes.  Running coroutines, the coroutine of the finally
\* handlers and every call in progress hold one.  task_group_dtor_object hands
\* errors nobody took to the scope and lets the scope go; task_group_free_object
\* disposes of the waiters that are left.
Destruct ==
    /\ Alive
    /\ group.active = 0 /\ group.finally # "running"
    /\ \A s \in Spawners : spawner[s].pc # "parked"
    /\ iterator.pc \notin {"parked", "at"} /\ group.awaiter \notin {"parked", "woken"}
    /\ group' = [group EXCEPT !.reported = ~group.handled /\ HasErrors(group),
                              !.scope = "gone", !.waiter_events = <<>>]
    /\ UNCHANGED <<spawner, future, iterator, crowded, calls>>

-----------------------------------------------------------------------------
Next ==
    \/ \E s \in Spawners : \/ Spawn(s)
                           \/ \E k \in Names : SpawnWithKey(s, k)
                           \/ SpawnResumes(s)
                           \/ SpawnCancelled(s)
    \/ \E e \in Range(group.tasks), o \in {"ok", "error"} : OnCoroutineComplete(e, o)
    \/ \E f \in Futures : \/ \E t \in {"all", "allIgnore"} : MethodAll(f, t)
                          \/ MethodRace(f)
                          \/ MethodAny(f)
                          \/ FutureDropped(f)
    \/ Foreach \/ IteratorForward \/ IteratorResumes \/ IteratorCancelled
    \/ Close \/ Cancel \/ Dispose \/ ErrorsTaken
    \/ AwaitCompletion \/ AwaitResumes
    \/ Finally \/ FinallyEnds
    \/ Destruct

\* Coroutines of the group end; whatever was woken runs; foreach goes on.
Fairness ==
    /\ WF_vars(\E e \in Range(group.tasks), o \in {"ok", "error"} :
                    OnCoroutineComplete(e, o))
    /\ WF_vars(\E s \in Spawners : SpawnResumes(s))
    /\ WF_vars(IteratorForward \/ IteratorResumes)
    /\ WF_vars(AwaitResumes)

Spec == Init /\ [][Next]_vars /\ Fairness

-----------------------------------------------------------------------------
(* Properties.                                                             *)

\* The counters are the table, the limits hold, and no closure is queued while
\* a slot is free: every path that frees a slot drains the queue, and every
\* caller looks at slot and queue again after it was parked.
SlotsAreUsed ==
    /\ group.active = Cardinality(TasksIn(group, {"running"}))
    /\ group.pending_count = Cardinality(TasksIn(group, {"pending"}))
    /\ group.concurrency > 0 => group.active <= group.concurrency
    /\ group.queue_limit > 0 => group.pending_count <= group.queue_limit
    /\ HasPending(group) => ~HasSlot(group)

\* What a future is resolved with is so at that moment: all() answers only when
\* nothing is running or queued, with every result or every error there is;
\* race() names one settled task; any() names a successful one, or fails when
\* all have failed.
AnswersAreTrue ==
    [][\A f \in Futures :
         future[f].is \in {"none", "pending"} /\ future'[f].is \in {"ok", "error"} =>
           LET was == future'[f]
               settled == TasksIn(group, {"ok", "error"})
               now == TasksIn(group', {"ok", "error"})
           IN  CASE was.type \in {"all", "allIgnore"} ->
                      /\ IsFinished(group')
                      /\ ~group.task_set =>
                            was.of = TasksIn(group', {was.is})
                      /\ was.type = "all" /\ was.is = "ok" /\ ~group.task_set =>
                            ~HasErrors(group')
                 [] was.type = "race" ->
                      /\ Cardinality(was.of) = 1
                      /\ ~group.task_set => was.of \subseteq TasksIn(group', {was.is})
                      /\ settled # {} => was.of \subseteq settled
                 [] was.type = "any" ->
                      IF was.is = "ok"
                      THEN Cardinality(was.of) = 1 /\ was.of \cap CollectErrors(group) = {}
                      ELSE IsFinished(group') /\ CollectResults(group') = {}
      ]_vars

\* foreach hands out settled entries in the order they were spawned, each once,
\* and when it ends every entry still in the table has been handed out.
IteratorInOrder ==
    /\ ~group.task_set =>
          \A i \in DOMAIN iterator.seen : group.tasks[i].id = iterator.seen[i]
    /\ IsInjective(iterator.seen)
    /\ iterator.pc = "end" => \A e \in Range(group.tasks) : e.id \in Range(iterator.seen)

\* An error that came after the caller last took the errors upon itself, and
\* that nobody was handed, reaches the scope when the group goes.
LateErrorIsReported ==
    group.scope = "gone" =>
        (group.unseen \cap CollectErrors(group) # {} => group.reported)

\* No outcome is passed over: foreach hands out every one of them once and in
\* order, and an error nobody has seen is reported at the end.
OutcomesAreSeen == IteratorInOrder /\ LateErrorIsReported

Waiting ==
    \/ \E s \in Spawners : spawner[s].pc = "parked"
    \/ \E f \in Futures : future[f].is = "pending"
    \/ iterator.pc = "parked" /\ group.sealed
    \/ group.awaiter \in {"parked", "woken"}

\* Whoever waits for the group (a parked spawn(), a future, foreach over a
\* closed group, awaitCompletion()) is answered, as long as at most one waits in
\* the same queue.  With two in a queue the code may leave one behind.
WaitsEnd == Waiting ~> (~Waiting \/ crowded)

=============================================================================
