# php-async in TLA+

php-async adds cooperative coroutines to PHP: a scheduler that runs the
coroutines of one thread, a libuv reactor that wakes them, the objects through
which they meet (channels, pools, scopes, task groups, futures), and, between
threads, thread channels and thread pools. This directory holds TLA+ models of
its parts, TLC configurations that check them on small instances, and proofs
checked by TLAPS for every instance. All paths below are relative to `src/`.

- [The system](#the-system)
- [Modules](#modules)
- [Runs](#runs)
- [Where code and documentation disagree](#where-code-and-documentation-disagree)
- [Proofs](#proofs)
- [What is not modelled](#what-is-not-modelled)
- [Plan](#plan)

## The system

| Part | Source | State | Operations | What is hard |
|---|---|---|---|---|
| ring buffer | `internal/circular_buffer.c` | slots, head, tail, capacity | push, pop, push front, swap, resize | wrap-around while growing and shrinking, failing allocation |
| scheduler | `scheduler.c` | run queue, resumed list, microtasks, active count | tick, suspend, enqueue, deadlock check, shutdown | a wakeup between two waits, a shutdown in the middle of everything |
| coroutines | `coroutine.c` | waker, flags, callbacks | spawn, resume, cancel, finalize, await, protect | cancelling what is queued, unstarted, protected or a zombie |
| scopes | `scope.c` | tree of scopes, active and zombie counts | cancel, dispose, awaitCompletion, exceptions | cascades that change the tree they walk |
| channels | `channel.c` | buffer or slot, two queues of waiters, reservations, timer | send, recv, sendAsync, recvAsync, close | a promise to a woken waiter, and everybody who may run before it |
| pools | `pool.c` | idle and active resources, waiters, reservations, breaker | acquire, release, health check, close | hooks that suspend in the middle of an operation |
| futures | `future.c` | state, mappers | complete, map, await | chains, unhandled errors |
| shared state | `future.c` | result, trigger and cancel trigger under a mutex | complete, reject, cancel, dispose | two threads that finish at once |
| task groups | `task_group.c` | tasks, slots, queue limit, waiters | spawn, all, race, any, joinNext | vectors that change while they are walked |
| iterator | `iterator.c` | position, state, active coroutines | iterate, finish | several coroutines on one PHP iterator |
| thread channels | `thread_channel.c` | buffer, triggers of both sides, under a mutex | send, recv, wait, close | lost wakeups, triggers that outlive their call |
| thread pools | `thread_pool.c` | task channel, workers, rotation | submit, close, cancel, reload | rotation while workers boot, drain, leave, and callers are cancelled |
| threads | `thread.c` | snapshot, result handed to the parent | start, run, hand over | copying between heaps; parent and thread that end at once |
| watcher | `fs_watcher.c` | pending events, quiet timer, iterators | event, flush, iterate, close | a timer that is armed again and again, iterators that wake together |
| reactor | `libuv_reactor.c` | libuv handles, the nodes of a watched tree | timers, triggers, file system events; polls, streams, files, DNS, processes, signals | a tree that changes between two system calls; closing handles with requests under way |
| await of many | `async_API.c`, `async.c` | counters and callbacks of one call | await_all and its relatives, iterate | futures that end while others are still being collected |
| contexts | `context.c` | keys and values on scopes | set, find | lookup along a tree that is being disposed |
| the rest | `exceptions.c`, `cpu_info.c`, `zend_common.c` | | helpers | |

How they interact: within one thread exactly one coroutine runs, until it
suspends. Suspending puts a waker on events; an event's callback moves the
coroutine to the run queue, and it runs at some later tick. So between a wakeup
and the moment the woken coroutine runs, other coroutines, callbacks of the
reactor, cancellations and closes happen. Nearly every hazard inside a thread
is of this kind. Threads share only thread channels, shared states of futures
and the atomics of a thread pool; they interleave between critical sections.

`PROJECT.json` lists the hazards with the lines where they bite and the
properties that cover them; closely related ones share an entry.

## Modules

| Module | Models |
|---|---|
| `Deque` | what users of the ring rely on: a double-ended queue that may refuse a push |
| `CircularBuffer`, `MCCircularBuffer` | `internal/circular_buffer.c`, slot by slot |
| `CircularBufferProofs` | the ring is well formed and implements `Deque` |
| `Channel`, `MCChannel` | `channel.c` |
| `ChannelProofs` | reservations, and that no wakeup is lost |
| `ChannelBuffer` | a buffer loses nothing, and the deadlock timer is right; on top of `ChannelProofs` |
| `ChannelHonesty` | `send()` on a rendezvous channel tells the truth; on top of `ChannelProofs` |
| `Pool`, `MCPool` | `pool.c` |
| `PoolProofs` | resources, places and waiters of the pool |
| `Scheduler`, `MCScheduler` | `scheduler.c`, `coroutine.c`, parts of `scope.c`, `async.c`, `async_API.c` |
| `Scope`, `MCScope` | `scope.c`, `context.c` |
| `TaskGroup`, `MCTaskGroup` | `task_group.c` |
| `Iterator` | `iterator.c` and `iterate()` of `async.c` |
| `Await`, `MCAwait` | `async_await_futures` and its callers, on top of `Iterator` |
| `SharedState` | the two ends of a future in two threads: `future.c`, and the worker's side of `thread_pool.c` |
| `Future`, `MCFuture` | `future.c`: futures and their chains, on top of `SharedState` |
| `DirectoryWatch` | the emulated recursive watch of `libuv_reactor.c` |
| `FsWatcher`, `MCFsWatcher` | `fs_watcher.c`, on top of `DirectoryWatch` |
| `FsWatcherProofs` | bursts are not held too long, and every change reaches who iterates |
| `ThreadChannel`, `MCThreadChannel` | `thread_channel.c` |
| `ThreadProofs` | what threads share, two separate specifications: wakeups, capacity, triggers and closing of `ThreadChannel`; triggers, cancellations and answers of `SharedState` |
| `ThreadPool`, `MCThreadPool` | `thread_pool.c` |
| `ThreadPoolProofs` | a rotation is exact: tokens, fresh workers, size of the pool |

`MC` modules only give values to constants. Definitions named after a function
of the source translate it. An operator `f_variant` just before `f`, marked
"Mutant", is `f` with a plausible error; it is not part of the model and shows
that a property can fail.

**CircularBuffer.** The C struct is a record with head, tail, capacity and the
slots, uninitialised slots holding `Junk`. Each function is an action that
returns `SUCCESS` or `FAILURE`; an allocation may fail. `Queue == INSTANCE
Deque WITH items <- Contents` is the refinement.

**Channel.** The struct and the wakers are one record `ch`; the functions of
`channel.c` are operators on it, composed as the code composes them. An action
is a stretch of code between two suspensions: a call up to its return or its
wait (`send`, `recv`, `sendAsync`, `recvAsync`), a wakeup up to the return or
the next wait, `cancel` of a waiting coroutine, a token that fires, `close`, the
deadlock timer. `capacity = 0` is the rendezvous slot. `told` remembers what
each sender was told, `accepted` and `taken` what became of values.

**Pool.** As for channels; in addition a call is split wherever it runs a hook,
because a hook is PHP code and may suspend. `frame[c]` says where a call is.
The circuit breaker, its strategy and the health check are included. `setup` is
chosen at the start from `Setups` and says which hooks the pool has. Resources are objects,
which the pool knows by their handles, or scalars, of which it only knows how many are out
(`pool_check_in`). `release()` of an object may be called by anybody; a caller that releases a
scalar it does not have, or lets an object go without `release()` (`drop`), breaks the rules, and
`misused` remembers it.

**Scheduler.** All globals, coroutines and wakers are one record `g`. One
coroutine runs code and makes the calls `Calls[c]` allows; at a suspension a
tick begins, in which timers fire and then the next queued coroutine runs. A
tick without anything to do checks for deadlock. `protect()` nests up to
`MaxProtect`. All coroutines are in one scope without an exception handler. A
second unhandled exception during a shutdown is modelled as cancelling all
coroutines once more.

**Scope.** The tree, its coroutines, counters, references and timers are one
record `t`; the functions of `scope.c` are operators on it. No function of
`scope.c` switches coroutines, so a call is one action; what it causes later (a
woken waiter, a cancelled coroutine that ends, a handler's coroutine) are actions of their
own. Calls are made from outside or by a coroutine of the tree (`t.by`), which matters to
`cancel()`: the running coroutine is only marked, and one in `protect()` hears of it when that
ends (`guard`). A setting says which handlers the first scope has, which calls are made and how
many. Handlers are set once, at the start. `t.again` marks a scope that was disposed of a
second time while its timer held it.

**TaskGroup.** `group` is the C struct with its table of tasks, its vector of
waiters and its limits; spawning calls, futures, the iterator and
`awaitCompletion()` have a place each. The counters are unsigned and wrap at
`MaxUint`. A handler runs up to its next suspension in one step. `crowded`
remembers that two waited in one queue.

**Iterator and Await.** A worker is a coroutine at one of the points of
`iterator.c` at which user code may suspend: `valid()`, the fetch, the move, the callback. The
iterator is marked as in motion around the fetch and the move, but not around `valid()`;
`overtaken` remembers that another worker went on while one was suspended there.
The microtask that spawns the next worker is separate. `Await` adds the caller of
`async_await_futures`, its context (counters, results, callbacks) and the futures, which
may have ended before, end at any time, or be invalid. One behaviour is one
call, whose kind and arguments are chosen from `Settings`.

**SharedState and Future.** One section under the mutex of a shared state is one
action. `consumer[t]` and `caller` are the owner's thread, `producer[t]`, `worker`
and `turn` the worker, and the steps `Load`, `Fulfil` and `LetGo` the thread a
FutureState was handed over to. `handle[t]` is the trigger that brings an answer
to the owner; `mailbox` the one through which a worker hears of cancellations; a disposed
one is `closed`. `Future` extends this with the futures that `map()`,
`catch()` and `finally()` derive, the tree they form, and strands: the coroutines that
walk it and call mappers. A strand holds the parent it is at and those queued on its iterator
(`Held`), which therefore outlive the user's references. A plan says which roots are used and how often the
user's code derives, awaits, cancels, ignores or hands over.

**DirectoryWatch and FsWatcher.** `DirectoryWatch` has a tree of directories that
other processes change between any two system calls, inotify watches (which follow the
directory, not its path), the queue of notifications, and the reactor's nodes. A callback
is split at its system calls; `work` is what is left of it. The system may refuse to watch or to
open a directory that exists (`AddDirRefused`, `OpenDirRefused`). `FsWatcher` adds the
buffer in its coalesced and raw forms, the quiet timer with the longest hold, iterating
coroutines, close and backend errors. Time is in milliseconds; `now` is the real clock and
`clock` the one that the loop caches and timers use.

**ThreadChannel.** An action is one critical section of the mutex, or one step
that takes none. A caller goes through `retry`, `register` (trigger in the table,
not yet suspended), `parked`, `ready`, `woken`, `recheck` and back; `abandon` is the
way out of a call whose token had fired already. Firing a
trigger only makes it pending; its owner's loop sees it after the owner is
suspended.

**ThreadPool.** The owner's coroutines and the worker threads interleave; the
owner's coroutines do not interrupt each other outside a suspension (`OwnerFree`).
The task channel is abstracted to a queue with atomic blocking send and receive,
which is what `ThreadChannel` provides: `WithinCapacity`, `NoLostWakeup`,
`NothingAfterClose` and `CloseEndsCalls` are the promises used. A
worker at its concurrency limit waits at a gate (`waits`, `passes_gate`), which a closed channel
ends whatever is queued. A worker's exit is four steps (leave the count, read `reload_notify`,
compare `reload_old`, post), the start of a rotation three (check, count, publish and
swap). Tasks, callers and workers are numbered in the order in which they first
act, which loses no behaviour because they are interchangeable.

## Runs

Each run asks one question of one part. Its properties are listed with what they say; some are
conjunctions of smaller ones, which the modules define just above them.

| Run | Instance | Properties |
|---|---|---|
| `circular_buffer` | two items, rings of 1 to 8 slots, every allocation may fail | `CapacityIsPowerOf2`: the index mask is valid. `ImplementsQueue`: the ring refines `Deque` |
| `channel_buffered` | 3 coroutines, 1 future, capacity 2, 3 messages, tokens, dropped futures | `ReservationsFit`: promised places exist. `NobodyWaitsBesideAPlace`. `NothingIsLost`: once, in order, and what was reported as sent is kept |
| `channel_rendezvous` | 3 coroutines, 1 future, the slot, 2 messages; fairness | `SendIsHonest`: a reported delivery is never undone and a failed send leaves nothing. `TimerIsRight`: the timer runs against everybody who starves and nobody else. `EveryWaitEnds`, and close releases everybody |
| `pool` | 3 or 4 calls at a time on 2 places, in several setups of hooks, health check and circuit breaker, and one of objects and scalars with callers that break the rules once | `CountsAreExact`: no resource in two places, counters exact, limits kept, as long as callers keep to the rules. `WaitersComeFirst`: oldest first, nobody beside a place. `EveryAcquireEnds` |
| `scheduler` | main and two coroutines with ten kinds of calls between them; fairness | `WakeupsAreExact`: run queue and wakers agree, no wait goes unwatched. `AwaitReturnsTheEnd`. `CancelsAreHonoured`: cancelled before the start means never started, protected means not cancelled. `EveryoneEnds` |
| `scope` | 3 scopes, 3 coroutines, six mixes of calls | `TreeIsSound`: counters, links, references, context lookup. `NobodyIsForgotten`: who waits is woken. `CompletionIsTrue`. `CancelReachesAll` |
| `task_group` | 3 spawns, 2 futures; one slot and a queue of one, a TaskSet with two slots, no limit; fairness | `SlotsAreUsed`: counters are the table and no slot is free beside a queued closure. `OutcomesAreSeen`: foreach in order, late errors reported. `AnswersAreTrue`: all, race and any. `WaitsEnd` |
| `await` | `iterate()` and the six await functions over arrays and iterators of 2 or 3 elements; in one setting `valid()` suspends | `EachItemOnce`. `SlotsAreUsed`. `AnswersAreTrue`. `NobodyWaitsForever` |
| `future` | 2 tasks of one worker, 1 FutureState, up to 3 derived futures, seven plans | `NothingDangles`: triggers and reference counts. `NothingIsLost`: cancellations and answers. `ChainsSettle`: mappers once, children settled. `ErrorsAreSeen` |
| `fs_watcher` | a tree of two levels, four changes, two iterators, nine plans | `WatchesFollowTheTree`: every directory is watched, as the inode it is, unless the system refused. `HoldIsBounded`. `EventsArrive`: no change lost but a burst held at close, nobody sleeps on one, close ends iteration |
| `thread_channel` | 3 callers of which 2 send and 2 receive, one with a token, capacity 1; fairness | `TriggersAreAlive`. `NoLostWakeup`. `CloseEndsCalls` |
| `thread_pool` | 2 workers in coroutine mode, 2 tasks for a queue of 1, 2 reloads, one may be cancelled, one bootloader may fail; fairness | `RotationIsExact`: tokens, fresh workers, one for one. `EveryTaskSettles`. `ReloadReturns` |

**Bounds.** `MaxSends`, `MaxResources`, `MaxProtect`, `MaxWorkers`, `MaxCapacity`, `NumScopes`,
`NumCoroutines`, `NumSpawners`, `NumFutures`, `NumWorkers`, `NumDerived`, `NumStrands` and the
budgets in `Settings` and `Plans` are bounds of the model.

- Channels: three coroutines are enough for a waiter, one that is woken and one that
  comes in between; capacity 2 has a free slot beside a promised one.
- Pool: four coroutines on two resources give two waiters behind two holders.
- Ring: from one slot to eight are three growths, with every position of the contents in
  each size and shrinks in between.
- Scheduler: the three coroutines have different sets of calls to keep the state space
  small; between them each call is made, and cancelled, awaited and shut down by another coroutine.
- Scope: three scopes form a chain and a pair of siblings, which are the shapes the loops
  over children tell apart. Every mix has the calls that meet in one function of `scope.c`.
- Task group: three spawns on one slot with a queue of one are a running task, a queued
  one and a parked caller; two futures settle in one walk of the vector.
- Await: three futures with two wanted leave one over; two workers meet at one iterator.
- Future: two tasks make the worker's table have a neighbour; three derived futures are
  a chain of three, a fork and a fork below a child.
- Watcher: two levels make a parent that vanishes with its child; four operations move
  a directory away and back. Three milliseconds of time are enough for a quiet time of two to be
  extended beyond a hold of one. `MaxWatchDirs` is 4, so that the cap is met.
- Thread channel: one slot makes two senders race for it.
- Thread pool: a cohort of two has a first and a last token, and two callers make one
  queue behind the other; six workers are all that two rotations of two can start.

**Views and symmetry.** `circular_buffer` uses the view `buffer`, which leaves out
the value returned by the last call: no action and no invariant of the run reads it,
and the refinement reads it only after a step, for each step TLC generates. Symmetry is
used in `channel_buffered` and `pool`, which check invariants only, over the coroutines,
which no operator tells apart.

**Deadlock** is checked for the ring, the channels, the pool and the thread channel. The other
programs really end: their calls, tasks and changes are finite in number and then done.

**Fairness and the end of waits.**

- Channel: a coroutine in the run queue is run (`[]<>(c \notin queued)`), as the
  scheduler's queue is first in, first out; a channel's timer does not stay armed for
  one reason for ever. `EveryWaitEnds` also needs that cancellations stop, for
  receivers that come and are cancelled without end restart a sender's timer without end.
- Scheduler: ticks end, timers fire, and each coroutine's code is finite: it runs only
  so often before it ends or waits for good. Nothing says that a given coroutine is
  chosen: that follows from the queue.
- TaskGroup: coroutines of the group end, a woken caller is resumed.
- ThreadChannel: each thread takes its next step.
- ThreadPool: some worker that can go on does, and some coroutine of the owner
  that can go on does. This is weaker than fairness to each of them, and enough
  since their steps are finite in number. Tasks and bootloaders return.
- `EveryAcquireEnds`, `NobodyIsForgotten`, `NobodyWaitsForever`, `ChainsSettle` and
  `EventsArrive` state the end of waits without fairness: once nothing is left that could run,
  nobody waits. It is the same claim wherever what can run is run, and what runs is finite.

## Where code and documentation disagree

Properties that hold are stated for what the code does; where a special case of the code breaks
one, the property excepts that case by name. These are the cases, with the statement they
contradict where there is one. "Shown by" says how to see a case with TLC.

**Channel**
- A sender that was woken with a slot of its own, and whose token fired meanwhile, puts
  its value into the rendezvous slot before the check of the token throws: a later
  `recv()` gets the value of a `send()` that threw, which the comment at `channel.c:735` says
  must not happen. Shown by `SendIsHonest` with `Tokens = TRUE` and `capacity = 0`.
- `sendAsync()` on a rendezvous channel without a receiver returns true ("sent successfully",
  `channel.stub.php:80`) and `close()` discards the value. Shown by `AsyncIsKept` with `capacity = 0`.
- A dropped future leaves the timer armed with nobody queued
  (`docs/channel-deadlock-protection.md:55`). Shown by `TimerIsRight` with `DropFutures = TRUE`.

**Pool**
- `release()` takes the resource out of `active_count` before the strategy's
  `reportSuccess` or the destructor, which may suspend, and others run before the place is
  settled (`pool.c:1167`): `idle + active` exceeds `max_size` (`pool.h:72` says "never
  exceeds") and a place is reserved that does not exist (`pool.h:33`). Shown by
  `TotalFits` without its exception for the strategy and `ReservationsFit` without that for
  strategy and destructor.
- The health check ends with `pool_wake_waiter` whether it freed a place or not
  (`pool.c:808`). With everything checked out it reserves a place that does not exist
  (`pool.h:33`), and the unsigned `ASYNC_POOL_UNRESERVED` wraps until the waiter has run and
  parked again. No resource too many is created, because `Total` is tested as well
  (`TotalFits`). Shown by `ReservationsFit` without its exception for the health check.
- A call that finds the breaker open after its hook hands its place to nobody
  (`pool.c:990`, `:531`); a pool that the health check's own hook closes keeps resources
  (`pool.c:791`, `:772`). Shown by leaving out the exceptions for `circuit_breaker` and `hook_closes`.
- A scalar cannot be told from another (`pool.h:50-53`): `release()` takes any scalar while
  `active_count` is not zero (`pool.c:264-268`). Released twice, or without having been acquired, it
  is handed to two callers, and once the real ones come back `active_count` wraps below zero.
  `tests/pool/071` says "a scalar resource released more often than acquired is refused"; that is so
  only while nothing else is out and no hook or factory runs. An object that is dropped stays counted
  (`active_count`) and its handle stays recorded, so a foreign object that gets the same handle is
  accepted. Shown by `CountsAreExact` without `misused`.

**Scheduler and coroutines**
- A nested `protect()` clears the only flag there is, and the rest of the outer closure can
  be cancelled (`async.c:276`; `async.stub.php:46`). Shown by `CancelsAreHonoured`
  with `MaxProtect = 2`.
- A scope disposed of safely twice counts its coroutines down twice (`coroutine.c:981`;
  the comment at `:758` says otherwise).

**Scope**
- A scope with finally handlers keeps children it has freed in its vector, and the loop
  of `scope_try_to_dispose` passes over the child after a removed one.
- `disposeAfterTimeout()`, then cancel and the end of the last coroutine: the next disposal frees the
  scope under its timer (`t.again`).
- `awaitCompletion()` on a scope whose only children are idle scopes waits although
  `isFinished()` says true (`scope.c:344`); `awaitAfterCancellation()` may return early
  (comment at `scope.c:374-377`).
- A second `cancel()`, or dropping a cancelled scope, closes it and starts its finally handlers
  while its coroutines still run. A cancelled scope accepts `spawn()`.
- A parent is not tried again for disposal when its last child goes. Coroutines of
  two sibling scopes that wait for each other's scopes are not found out (`MutualWait`).

**TaskGroup**
- `cancel()` keeps the queue, and the drain starts queued closures ("Queued closures
  are never started", `task_group.stub.php`). Finally handlers run when the tasks are settled although the
  group was not closed.
- The walk of `task_group_try_complete` passes over a waiter that was swapped into the place of
  a removed one; of two parked `spawn()` callers the same one may be woken twice (`crowded`).
- `spawnWithKey()` looks for duplicates only before it parks. `any()` that is answered on completion
  leaves the entry in a TaskSet; `all()` with errors on a TaskSet drops the successes.

**Iterator and await of many**
- `valid()` is called outside `ITERATOR_SAFE_MOVING` (`iterator.c:387`). A worker that suspends in it
  does not look at the state again: it takes an item that another worker is taking, or one past the
  end, or goes on after the iteration was over (`overtaken`). Shown by `EachItemOnce` without its exception.
- `total` is `futures_count + resolved_count` (`async_API.c:655`), which counts futures that had
  ended before twice (`overcount`). Null elements are counted and never resolve.
- Over an iterator: a future that failed before, without `ignore_errors`, resumes no
  coroutine; a caller that returns early leaves the iterator's coroutine with a freed context
  (`undefined`).
- `async_cancel_awaited_futures` waits without a token, and waits for ever if fewer are left
  than it expects (`short`). An element that had failed before makes `await_all_or_fail()` throw
  only after the others have ended.
- `return false` of a callback is lost while another worker moves the iterator
  (`async.stub.php:246`). `iterate()` in a cancelled scope returns at the first notification. A
  callback that throws a cancellation ends the iteration silently.

**Futures**
- A mapper that suspends loses its children if another coroutine finishes the iterator
  meanwhile (`lost`). An exception that nobody takes ends the iteration: siblings never settle, and the scope is cancelled.
- The child of a future that had settled before: its exception escapes although a `catch()` is
  attached. An error queued on a running iterator counts as handled even if the only child was cancelled. Remote
  futures give no warning when they go away unseen.
- Dropping the owner's FutureState after it was handed over severs the trigger, and the
  Future never settles; a destination that drops it unfulfilled settles nothing; a copy that is never loaded
  keeps its reference.
- Some failures of a worker leave its task unsettled when no exception is pending
  (`thread_pool.c:527`, `:557`, `:610`); the model takes one to be pending. After a bailout the listed coroutines keep a pointer to the freed
  table (`abandoned`).

**Watcher**
- A directory that was removed and made again before its removal was reported keeps the
  node of the old one and is not watched (`libuv_reactor.c:3305-3309`; the stub says that "a path
  reused later is re-watched"). `past.reused` excepts it. Directories beyond the cap stay unwatched
  (`past.capped`), and so do those for which `uv_fs_event_start` or `opendir` fails
  (`libuv_reactor.c:3330`, `:3254`; `past.refused`): nobody is told.
- A burst that is being held when the watcher is closed, by `close()` or by a backend error, is
  dropped: the timer stops (`fs_watcher.c:347-349`), its callback returns (`:210-212`) and the
  iteration ends (`:632`). `ChangesAreReported` excepts it.
- A backend error while debouncing only marks the watcher closed (`fs_watcher.c:282-285`):
  parked iterators are not woken, and `close()` returns early.
- With debouncing and coalescing, a second burst that is flushed before the first event was
  read loses its kinds. Timers use the loop's cached clock: a quiet time may be shorter than asked for.

**Thread pool**
- A rotation cancelled midway leaves workers on the channel it retired. The next
  rotation counts them (`thread_pool.c:1364`), but they answer only to the rotation that
  retired their own channel (`:865`): it waits for ever, while the comment at `:1442` says it "heals the
  partial cohort". Shown by `ReloadReturns` without `aborted > 0`, `MayCancel = {1}` and `BootFails = {}`.
- With `concurrency = 1` a worker at its limit leaves a closed channel at once
  (`thread_pool.c:386`), also when a place has become free while it waited, and tasks queued there are never taken, although
  `tests/thread_pool/008` says that tasks already submitted should complete.
- A task whose `submit()` waits for room when `reload()` retires the channel is
  refused although the pool is open (`thread_pool.c:1929`).
- A worker whose bootloader fails in the few steps between a rotation's check of
  `closed` and its swap is counted and does not answer, or answers without being counted,
  or drains the wrong channel (`boot_error`).

## Proofs

All theorems hold for every value of the constants that satisfies the named
assumption of the module.

**CircularBufferProofs.** `RingWellFormed`: `TypeOK /\ NoJunkInside` is
inductive: head and tail are below the capacity, and the slots from tail to head
hold items. `RingIsAQueue`: the ring implements `Deque`. The argument
describes the items after each operation (`AddsLast`, `AddsFirst`, `SameItems`) by the
index arithmetic of the wrapped and the unwrapped case, and then says what this does to
`Contents`; resizing leaves it alone. The model wraps an index by a comparison where
the code masks; `MaskWraps` checks that the two agree for powers of two up to 32.
That capacities are powers of two (`CapacityIsPowerOf2`) is only model-checked.

**ChannelProofs.** `PromisesFit`, `PromisesCounted` and `NoLostWakeup` (the property
`NobodyWaitsBesideAPlace`), for every number of coroutines, futures and messages, every capacity and
every setting of timeouts and tokens. None is inductive alone. `Inv(ch, pc)` adds: who is queued or
holds a promise is parked for it, and nobody is queued twice (`Waits`). During an operation the
invariant is broken: after a value is taken, a sender may be owed a wakeup. So each operator has a
lemma that says which debts it leaves and which it pays, and an action is a composition that ends
with none. `Waits` says nothing of the receivers left in the queue of a closed channel: they are
never woken from it.

**ChannelBuffer.** `BufferedLosesNothing` (`NothingIsLost`) and `BufferedTellsTheTruth`
(`SendIsHonest`) assume a buffer. `BufferedInv` adds to the invariant above that what was taken and
what is in the buffer are together, in order, what was accepted, and that a message was accepted
exactly when its sender was told so; and that a waiting sender has a message of its own of which
nothing was said yet (`Senders`), without which a retry could send a value twice.

`TheTimerIsRight` (`TimerIsRight`) assumes `~DropFutures`. `channel_refresh_deadlock_timer` does not
look for a waiter without a promise: it compares the length of a queue with the number of promises
of that side. The two agree as long as whoever holds a promise is still queued (`Kept`), which the
invariant therefore carries beside the timer's verdict (`Timed`); a dropped future breaks it, and is
the disagreement listed above. Each operator has a lemma that says whether it keeps the verdict or
leaves it to a refresh further on.

**ChannelHonesty.** `RendezvousTellsTheTruth` (`SendIsHonest`) is about a rendezvous channel without
tokens; with them it is false, which is the first disagreement listed above. On a rendezvous channel
a value may be taken back, so that nothing is in order by itself: `RendezvousInv` follows the sender
whose value is in the slot until it hears of the delivery. A value in the slot belongs to a sender
that waits for its delivery, or was put there for good; a value that was taken has a sender that is
queued to be told so, whoever is cancelled or closes in between.

**PoolProofs.** `PoolCountsAreExact`, `PoolWaitersComeFirst` and `PoolEveryAcquireEnds`, the three
properties of the run, for every finite set of coroutines, all sizes and every setup. The inductive
invariant `PoolInv` has four parts. `Framed` says what a call at each point holds. `ResInv` puts
each resource in one place and counts those held. `WaitInv` says that who is parked is in the queue,
once, or about to run; that reservations are given in the queue's order; and that who holds one is
about to run. `LinkInv` relates places and waiters: a waiter without a reservation implies that
active, reserved and freeing calls together fill the pool. Within a call this is broken, since a
place is given up before it is reported: `Base(s, f, k)` is the invariant with `k` places not
reported yet. Each operator has a lemma that says what it does to `Base` (`WakeKeeps` takes `k` from
1 to 0), and each action is a composition that starts and ends at `Base(pool, frame, 0)`. What is in
use is counted as the cardinality of a set of calls, and lemmas say how it changes when one call
enters or leaves the set. The exceptions named in the properties are hypotheses in the theorems too; what is inductive
is `misused \/ PoolInv`, since a caller that breaks the rules ends what the pool can promise.
`PoolAssumption` asks that coroutines be finite in number, that resources be positive numbers, and
that `min_size <= max_size` with `max_size > 0`, as the constructor does.

**ThreadProofs, thread channels.** The inductive invariant is `TypeOK`, `WithinCapacity`,
`TriggersAreAlive`, `NoLostWakeup` and `Registered`: a caller that waits has its trigger in the
table of its side. `Registered` is what makes the wakeup reach it: the other side fires the whole
table under the mutex, so whoever could be affected becomes pending. From it follow
`NoWakeupIsLost`, `NeverOverfull`, `TriggersStayAlive` and, as an action property, `ClosedRefuses`.

**ThreadProofs, shared states.** `BothEndsMayLeave` (the property `NothingDangles`) and
`NothingGetsLost` (`NothingIsLost`), for every number of tasks and of FutureState objects; the run
has two tasks and one object. Both follow from `SharedInvariant`. Its `SharedInv` is a statement
about one state at a time, which is why the number does not matter: `Ends` ties the reference count,
the life and the trigger of a state to where its owner is in the sequence of sever, close and unref;
`Listed` says that a bound state is in the worker's table and that a running task is either
cancelled, or bound and listed, so that a request fires the mailbox; `Told` says where the answer is
once the producer has given it. The properties alone are not inductive: that
`pool_worker_cancel_destroy` leaves no pointer to the mailbox needs that only states in the table
are bound, and that a cancellation is heard needs that `pool_worker_cancel_track` binds under the
same mutex under which the flag is set. There is one lemma per action.

**ThreadPoolProofs.** `RotationsAreExact` (`RotationIsExact`), for any numbers of workers, tasks and
callers of `reload()`, with close, cancel, cancelled rotations and failing bootloaders at any point.
`ThreadPoolAssumption` asks that workers, tasks and callers be numbered from one. The invariant
`RotationInv` has a part for the callers (`OneRotation`, `Numbered`: one rotates at a time, and the
counters of rotations say how far it is), one for the workers (`Placed`: they are started in order
and on the current channel, and `live_workers` is their number) and one for who may leave
(`Leaving`). Exactness is lost once a failing bootloader has closed the pool, since its worker
leaves a channel that no rotation retired; until then (`Orderly`) only workers of closed channels
leave. `Counted` is the core: what a rotation still expects is the number of workers of its channel
that have not gone, plus the tokens that have come and were not received. A cancelled rotation
leaves workers of an older channel behind, which the next one counts and never hears of: with them
it is an inequality, which still gives that nobody older is alive when the last token arrives, and
so that reload() returns over fresh workers only. `Sized` bounds the pool by the same numbers. A
worker's exit, in four steps, is followed from set to set (`Live`, `Out`, `Older`), whose
cardinalities change by one at a time.

**FsWatcherProofs.** `TheHoldIsBounded` (`HoldIsBounded`) and `EventsDoArrive` (`EventsArrive`), for
every tree, every number of iterating coroutines and all settings and times. `PlansAssumption` only
asks that times be natural numbers. The watch of the tree matters to the watcher by its
notifications only, of any name and kind and at any moment, so `WatcherInv` is about the watcher's
own variables. For the timer it needs that the loop's cached clock is never ahead of the real one:
the timer is set from the cached clock, the bounds are counted from the real one. For the events it
needs that without a quiet time nobody is parked beside a buffered event and no burst is open
(`Plain`), and that with one a trigger is pending (`Woken`). That a coalesced event still covers the
changes stored before is a lemma about the buffer (`StoreKeeps`). A burst still held when the
watcher closes is excepted (`ClosedReports`).

Record fields are updated in nested `EXCEPT`s in `SharedState` and `ThreadPool`: tlapm 1.4.5 encodes
two updates at one index of one `EXCEPT` wrongly.

Some properties are proved and in no run, since the theorem says more than an instance:
`ReservationsCounted` of the channel, `WithinCapacity` and `NothingAfterClose` of the thread
channel, `NoJunkInside` of the ring, the type invariants of the ring, the thread channel and the shared states.
TLC has found each of them to hold on the same instances.

**Only model-checked:** everything about liveness (fairness and ENABLED are outside the prover's
reach); that a ring's capacity is a power of two, which needs induction over exponents; the full
`TypeOK` of `Channel`; `Scheduler`, `Scope` and `TaskGroup`, whose functions fold and recurse over
queues and trees; `Iterator` and `Await`, and the chains of `Future`, whose invariants depend on the
shape of what is left to walk; that the watches follow the tree, for the same reason.

## What is not modelled

- Copying values, closures and classes between heaps (`thread.c`), reference counts
  and freeing other than those of shared states, iterators and scopes: data without control.
  The handoff of a thread's result to the parent's event would be a module of its own.
- I/O of the reactor: polls, streams, files, DNS, processes, signals. Most of their code passes
  requests to libuv; what remains is one close protocol per kind of handle.
- File system events on other systems: the comparison of snapshots (kqueue, event ports), the native recursion
  of macOS and Windows; also the restart branch of `libuv_filesystem_start`, an overflow of inotify's queue, and
  `await()` on the watcher itself.
- Fibers and the switching of stacks, bailouts other than a worker's, exceptions thrown
  by microtasks and by callbacks of the reactor, `finally` handlers of coroutines.
- Scopes: owner pinning, handlers that are set later. Task groups: what keeps a foreign scope
  alive. Futures: several Future objects over one FutureState. Await: keys, order and filling of
  results, null and repeated elements.
- Thread pool: the counters shown by getters (`pending_count` is incremented after the
  task was sent and may be read as -1), C tasks, `map`, threads that
  cannot be created, freeing the pool. Cancelling one task and a worker that bails out are in `SharedState`.
- Triggers and timers that cannot be created (`future.c:2100`, whose callers ignore the failure;
  `fs_watcher.c:250`, where a burst then has no timer).
- Exceptions, CPU information, helpers, allocator and fuzzing hooks.

## Plan

1. Composition of `ThreadPool` with `SharedState`: tasks that are cancelled while a
   rotation drains their channel.
2. `Scheduler` with the scopes of `Scope` in place of its one scope.
3. The handoff between a thread and its parent; close protocols of the reactor's streams
   and processes.
4. Proofs: the slots of a task group; the items an iterator hands to its workers.
