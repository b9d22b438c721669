----------------------------- MODULE SharedState -----------------------------
(***************************************************************************)
(* Futures across threads (src/future.c) and the cancellation of thread    *)
(* pool tasks (src/thread_pool.c).  The two ends of a future share one     *)
(* zend_future_shared_state_t in persistent memory.  The consumer's thread *)
(* owns the trigger that brings the result in; the worker owns one trigger *)
(* for all its tasks, the mailbox, through which a consumer that gave up   *)
(* reaches it.  Every pointer to a trigger is read and written under the   *)
(* state's mutex: one mutex section is one step here, and the two threads  *)
(* interleave between any two steps.                                       *)
(***************************************************************************)
EXTENDS Integers, FiniteSets

CONSTANTS
    Tasks,      \* tasks submitted to the pool: the consumer has a remote future
    States,     \* FutureState objects, which may be handed over to a thread
    None        \* nothing

Shared == Tasks \cup States

ASSUME SharedAssumption == Tasks \cap States = {} /\ None \notin Shared

VARIABLES
    shared,     \* zend_future_shared_state_t
    handle,     \* the consumer's trigger of a state: none, open, posted (fired), closed
    mailbox,    \* the worker's cancellation trigger, likewise
    consumer,   \* the future, whether it is watched or ignored, and whether the object
                \* that owns the trigger lives
    caller,     \* what the consumer's thread is in the middle of
    producer,   \* a task's stage, its entry in inflight, doomed: its coroutine is cancelled
    worker,     \* up, sweeping (on its way out), gone
    turn,       \* the task the worker's thread is in the middle of
    mode        \* whether the pool runs tasks one by one or as coroutines side by side

sharedVars == <<shared, handle, mailbox, consumer, caller, producer, worker, turn, mode>>

Idle == [step |-> "idle", of |-> None]

SharedStates == [life : {"none", "live", "freed"}, refs : {0, 1, 2}, completed : BOOLEAN, requested : BOOLEAN,
                 trigger : BOOLEAN, bound : BOOLEAN, value : {"none", "result", "error"}]

Consumers == [future : {"none", "pending", "result", "error", "cancelled", "gone"},
              watched : BOOLEAN, ignored : BOOLEAN, owner : BOOLEAN]

Stages == {"none", "queued", "drained", "refuse", "prepare", "track", "spawn", "failed",
           "running", "settle", "forget", "unref", "abandoned",
           "sent", "held", "told", "dropped", "gone"}

Producers == [stage : Stages, entry : {"none", "preparing", "listed"}, doomed : BOOLEAN]

\* The fields of the shared states, the futures and the worker's tasks have
\* their types, and a reference count never exceeds the two ends of a state.
SharedTypeOK ==
    /\ shared \in [Shared -> SharedStates]
    /\ handle \in [Shared -> {"none", "open", "posted", "closed"}]
    /\ mailbox \in {"none", "open", "posted", "closed"}
    /\ consumer \in [Shared -> Consumers]
    /\ caller \in [step : {"idle", "sever", "close", "unref", "drain", "drained"},
                   of : Shared \cup {None}]
    /\ producer \in [Shared -> Producers]
    /\ worker \in {"up", "sweeping", "gone"}
    /\ turn \in Tasks \cup {None}
    /\ mode \in {"sync", "coroutine"}

SharedInit ==
    /\ shared = [t \in Shared |->
                   [life |-> "none", refs |-> 0, completed |-> FALSE, requested |-> FALSE,
                    trigger |-> FALSE, bound |-> FALSE, value |-> "none"]]
    /\ handle = [t \in Shared |-> "none"]
    /\ mailbox = "none"
    /\ consumer = [t \in Shared |->
                     [future |-> IF t \in States THEN "pending" ELSE "none",
                      watched |-> FALSE, ignored |-> FALSE, owner |-> t \in States]]
    /\ caller = Idle
    /\ producer = [t \in Shared |-> [stage |-> "none", entry |-> "none", doomed |-> FALSE]]
    /\ worker = "up"
    /\ turn = None
    /\ mode \in {"sync", "coroutine"}

-----------------------------------------------------------------------------
(* The operations on a shared state.                                       *)

Posted(h) == IF h = "open" THEN "posted" ELSE h

\* async_future_shared_state_create and _bind, with the references of the two ends.
Create(s) == [s EXCEPT !.life = "live", !.trigger = TRUE, !.refs = 2]

\* async_future_shared_state_complete and _reject: the first answer counts.
Settle(t, v) ==
    /\ shared' = IF shared[t].completed THEN shared
                 ELSE [shared EXCEPT ![t] = [@ EXCEPT !.completed = TRUE, !.value = v]]
    /\ handle' = IF shared[t].completed \/ ~shared[t].trigger THEN handle
                 ELSE [handle EXCEPT ![t] = Posted(@)]

\* async_future_shared_state_request_cancel
RequestCancel(t) ==
    /\ shared' = IF shared[t].completed THEN shared ELSE [shared EXCEPT ![t].requested = TRUE]
    /\ mailbox' = IF shared[t].completed \/ ~shared[t].bound THEN mailbox ELSE Posted(mailbox)

\* Mutant: the trigger is bound to a state that is already cancelled.
BindCancelBlindly(s) == [s EXCEPT !.bound = TRUE]

\* async_future_shared_state_bind_cancel
BindCancel(s) == [s EXCEPT !.bound = ~s.requested]

UnbindCancel(s) == [s EXCEPT !.bound = FALSE]

\* async_future_shared_state_delref and _destroy
DelRef(s) ==
    IF s.refs > 1 THEN [s EXCEPT !.refs = @ - 1]
    ELSE [s EXCEPT !.refs = 0, !.life = "freed", !.trigger = FALSE]

-----------------------------------------------------------------------------
(* The consumer.                                                           *)

\* submit(): the shared state, the remote future and the task that is sent.
Submit(t) ==
    /\ caller = Idle /\ consumer[t].future = "none" /\ worker = "up"
    /\ shared' = [shared EXCEPT ![t] = Create(@)]
    /\ handle' = [handle EXCEPT ![t] = "open"]
    /\ consumer' = [consumer EXCEPT ![t] = [@ EXCEPT !.future = "pending", !.owner = TRUE]]
    /\ producer' = [producer EXCEPT ![t].stage = "queued"]
    /\ UNCHANGED <<mailbox, caller, worker, turn, mode>>

\* async_future_state_transfer_obj in the thread that hands the FutureState over.
HandOver(t) ==
    /\ caller = Idle /\ shared[t].life = "none" /\ consumer[t].owner
    /\ consumer[t].future = "pending"
    /\ shared' = [shared EXCEPT ![t] = Create(@)]
    /\ handle' = [handle EXCEPT ![t] = "open"]
    /\ producer' = [producer EXCEPT ![t].stage = "sent"]
    /\ UNCHANGED <<mailbox, consumer, caller, worker, turn, mode>>

\* remote_future_add_callback, or a chain in resolve_callbacks
Watch(t) ==
    /\ caller = Idle /\ consumer[t].future = "pending"
    /\ consumer' = [consumer EXCEPT ![t].watched = TRUE]
    /\ UNCHANGED <<shared, handle, mailbox, caller, producer, worker, turn, mode>>

Ignore(t) ==
    /\ caller = Idle /\ consumer[t].future = "pending" /\ ~consumer[t].ignored
    /\ consumer' = [consumer EXCEPT ![t].ignored = TRUE]
    /\ UNCHANGED <<shared, handle, mailbox, caller, producer, worker, turn, mode>>

\* cancel(): the future is rejected here, and remote_future_resolve tells the producer.
Cancel(t) ==
    /\ caller = Idle /\ consumer[t].future = "pending"
    /\ consumer' = [consumer EXCEPT ![t].future = "cancelled"]
    /\ IF t \in Tasks THEN RequestCancel(t) ELSE UNCHANGED <<shared, mailbox>>
    /\ UNCHANGED <<handle, caller, producer, worker, turn, mode>>

\* complete() and error() of a FutureState that was not handed over.
Resolve(t, v) ==
    /\ caller = Idle /\ shared[t].life = "none" /\ consumer[t].owner
    /\ consumer[t].future = "pending"
    /\ consumer' = [consumer EXCEPT ![t].future = v]
    /\ UNCHANGED <<shared, handle, mailbox, caller, producer, worker, turn, mode>>

\* shared_state_trigger_cb: a future that is settled already stays as it is.
Deliver(t) ==
    /\ caller = Idle /\ handle[t] = "posted"
    /\ consumer' = IF consumer[t].future = "pending"
                   THEN [consumer EXCEPT ![t].future = shared[t].value] ELSE consumer
    /\ shared' = [shared EXCEPT ![t].value = "none"]
    /\ handle' = [handle EXCEPT ![t] = "open"]
    /\ UNCHANGED <<mailbox, caller, producer, worker, turn, mode>>

\* remote_future_dispose: a watched future that goes away takes the work with it.
Drop(t) ==
    /\ caller = Idle /\ consumer[t].future \notin {"none", "gone"}
    /\ consumer' = [consumer EXCEPT ![t] = [@ EXCEPT !.future = "gone", !.owner = FALSE]]
    /\ caller' = [step |-> "sever", of |-> t]
    /\ IF consumer[t].watched /\ ~consumer[t].ignored THEN RequestCancel(t)
       ELSE UNCHANGED <<shared, mailbox>>
    /\ UNCHANGED <<handle, producer, worker, turn, mode>>

\* async_future_state_object_free in the owner's thread: the future itself may live on.
DropState(t) ==
    /\ caller = Idle /\ consumer[t].owner
    /\ consumer' = [consumer EXCEPT ![t].owner = FALSE]
    /\ caller' = IF shared[t].life = "none" THEN Idle ELSE [step |-> "sever", of |-> t]
    /\ UNCHANGED <<shared, handle, mailbox, producer, worker, turn, mode>>

\* The producer is cut off under the mutex, then the trigger is disposed.
Sever ==
    /\ caller.step = "sever"
    /\ shared' = IF shared[caller.of].trigger
                 THEN [shared EXCEPT ![caller.of] = [@ EXCEPT !.trigger = FALSE, !.completed = TRUE]]
                 ELSE shared
    /\ caller' = [caller EXCEPT !.step = IF shared[caller.of].trigger THEN "close" ELSE "unref"]
    /\ UNCHANGED <<handle, mailbox, consumer, producer, worker, turn, mode>>

Close ==
    /\ caller.step = "close"
    /\ handle' = [handle EXCEPT ![caller.of] = "closed"]
    /\ caller' = [caller EXCEPT !.step = "unref"]
    /\ UNCHANGED <<shared, mailbox, consumer, producer, worker, turn, mode>>

OwnerUnref ==
    /\ caller.step = "unref"
    /\ shared' = [shared EXCEPT ![caller.of] = DelRef(@)]
    /\ caller' = Idle
    /\ UNCHANGED <<handle, mailbox, consumer, producer, worker, turn, mode>>

\* thread_pool_drain_tasks: a queued task is popped, rejected and released.
Drain(t) ==
    /\ caller = Idle /\ producer[t].stage = "queued"
    /\ producer' = [producer EXCEPT ![t].stage = "drained"]
    /\ caller' = [step |-> "drain", of |-> t]
    /\ UNCHANGED <<shared, handle, mailbox, consumer, worker, turn, mode>>

DrainReject ==
    /\ caller.step = "drain"
    /\ Settle(caller.of, "error")
    /\ caller' = [caller EXCEPT !.step = "drained"]
    /\ UNCHANGED <<mailbox, consumer, producer, worker, turn, mode>>

DrainUnref ==
    /\ caller.step = "drained"
    /\ shared' = [shared EXCEPT ![caller.of] = DelRef(@)]
    /\ producer' = [producer EXCEPT ![caller.of].stage = "gone"]
    /\ caller' = Idle
    /\ UNCHANGED <<handle, mailbox, consumer, worker, turn, mode>>

CallerStep == Sever \/ Close \/ OwnerUnref \/ DrainReject \/ DrainUnref

-----------------------------------------------------------------------------
(* The worker.  turn # None: its thread is in the middle of a task and     *)
(* does not yield; otherwise it sleeps in recv() or on a task's coroutine, *)
(* and its loop may run the mailbox's callback.                            *)

Served(t) == producer[t].stage \notin {"none", "queued", "drained", "gone", "abandoned"}

\* A task is received; one that is cancelled already is refused unopened.
Take(t) ==
    /\ worker = "up" /\ turn = None /\ producer[t].stage = "queued"
    /\ mode = "sync" => \A u \in Tasks : ~Served(u)
    /\ turn' = t
    /\ producer' = [producer EXCEPT ![t].stage = IF shared[t].requested THEN "refuse" ELSE "prepare"]
    /\ UNCHANGED <<shared, handle, mailbox, consumer, caller, worker, mode>>

\* thread_pool_reject_cancelled, and every other rejection of a task that did not run.
Refuse(t) ==
    /\ turn = t /\ producer[t].stage \in {"refuse", "failed"}
    /\ Settle(t, "error")
    /\ producer' = [producer EXCEPT ![t].stage = "unref"]
    /\ UNCHANGED <<mailbox, consumer, caller, worker, turn, mode>>

\* The mailbox is created with the first task; it, or the closure, may fail.
Prepare(t) ==
    /\ turn = t /\ producer[t].stage = "prepare"
    /\ \/ /\ mailbox' = mailbox
          /\ producer' = [producer EXCEPT ![t].stage = "failed"]
       \/ /\ mailbox' = IF mailbox = "none" THEN "open" ELSE mailbox
          /\ \E next \in {"track", "failed"} : producer' = [producer EXCEPT ![t].stage = next]
    /\ UNCHANGED <<shared, handle, consumer, caller, worker, turn, mode>>

\* pool_worker_cancel_track: the entry first, then the trigger, unless the
\* task was cancelled meanwhile.  With coroutines it is then refused; a body
\* that runs alone exists by now and is cancelled.
Track(t) ==
    /\ turn = t /\ producer[t].stage = "track"
    /\ shared' = [shared EXCEPT ![t] = BindCancel(@)]
    /\ LET bound == shared'[t].bound
           entry == IF ~bound THEN "none" ELSE IF mode = "sync" THEN "listed" ELSE "preparing"
       IN  producer' = [producer EXCEPT ![t] =
                          [@ EXCEPT !.entry = entry,
                                    !.doomed = mode = "sync" /\ ~bound,
                                    !.stage = IF mode = "sync" THEN "running"
                                              ELSE IF bound THEN "spawn" ELSE "refuse"]]
    /\ turn' = IF mode = "sync" THEN None ELSE t
    /\ UNCHANGED <<handle, mailbox, consumer, caller, worker, mode>>

\* thread_pool_spawn_task_coroutine, the rest: the flag is read again once the
\* coroutine is listed.
Spawn(t) ==
    /\ turn = t /\ producer[t].stage = "spawn"
    /\ \/ /\ producer' = [producer EXCEPT ![t] =
                            [@ EXCEPT !.stage = "running", !.entry = "listed",
                                      !.doomed = shared[t].requested]]
          /\ turn' = None
          /\ shared' = shared
       \/ /\ producer' = [producer EXCEPT ![t] = [@ EXCEPT !.stage = "failed", !.entry = "none"]]
          /\ shared' = [shared EXCEPT ![t] = UnbindCancel(@)]
          /\ turn' = t
    /\ UNCHANGED <<handle, mailbox, consumer, caller, worker, mode>>

\* pool_worker_cancel_notify
Notify ==
    /\ worker = "up" /\ turn = None /\ mailbox = "posted"
    /\ mailbox' = "open"
    /\ producer' = [t \in Shared |->
                      IF producer[t].entry = "listed" /\ shared[t].requested
                      THEN [producer[t] EXCEPT !.doomed = TRUE] ELSE producer[t]]
    /\ UNCHANGED <<shared, handle, consumer, caller, worker, turn, mode>>

\* The body ends, cancelled or not.  pool_task_dispose answers and then
\* forgets; a body that runs alone is forgotten first.
End(t) ==
    /\ worker = "up" /\ turn = None /\ producer[t].stage = "running"
    /\ turn' = t
    /\ producer' = [producer EXCEPT ![t].stage = IF mode = "sync" THEN "forget" ELSE "settle"]
    /\ UNCHANGED <<shared, handle, mailbox, consumer, caller, worker, mode>>

Answer(t) ==
    /\ turn = t /\ producer[t].stage = "settle"
    /\ \E v \in {"result", "error"} : Settle(t, v)
    /\ producer' = [producer EXCEPT ![t].stage = IF mode = "sync" THEN "unref" ELSE "forget"]
    /\ UNCHANGED <<mailbox, consumer, caller, worker, turn, mode>>

\* pool_worker_cancel_forget
Forget(t) ==
    /\ turn = t /\ producer[t].stage = "forget"
    /\ shared' = [shared EXCEPT ![t] = UnbindCancel(@)]
    /\ producer' = [producer EXCEPT ![t] =
                      [@ EXCEPT !.entry = "none",
                                !.stage = IF mode = "sync" THEN "settle" ELSE "unref"]]
    /\ UNCHANGED <<handle, mailbox, consumer, caller, worker, turn, mode>>

TaskUnref(t) ==
    /\ turn = t /\ producer[t].stage = "unref"
    /\ shared' = [shared EXCEPT ![t] = DelRef(@)]
    /\ producer' = [producer EXCEPT ![t].stage = "gone"]
    /\ turn' = None
    /\ UNCHANGED <<handle, mailbox, consumer, caller, worker, mode>>

\* The worker leaves once its tasks are done, or bails out in the middle of
\* one: the tasks it has then are never answered.
Leave ==
    /\ worker = "up"
    /\ \/ turn = None
       \/ turn # None /\ producer[turn].stage \in {"prepare", "track", "spawn"}
    /\ worker' = "sweeping"
    /\ turn' = None
    /\ producer' = [t \in Shared |-> IF t \in Tasks /\ Served(t)
                                     THEN [producer[t] EXCEPT !.stage = "abandoned"] ELSE producer[t]]
    /\ UNCHANGED <<shared, handle, mailbox, consumer, caller, mode>>

\* pool_worker_cancel_destroy: every state in the table is unbound, one by one,
\* then the trigger is disposed.
Sweep(t) ==
    /\ worker = "sweeping" /\ producer[t].entry # "none"
    /\ shared' = [shared EXCEPT ![t] = UnbindCancel(@)]
    /\ producer' = [producer EXCEPT ![t].entry = "none"]
    /\ UNCHANGED <<handle, mailbox, consumer, caller, worker, turn, mode>>

\* Mutant: tasks without a coroutine are passed by.
SweptListed ==
    /\ worker = "sweeping" /\ \A t \in Tasks : producer[t].entry # "listed"
    /\ worker' = "gone"
    /\ mailbox' = IF mailbox = "none" THEN "none" ELSE "closed"
    /\ UNCHANGED <<shared, handle, consumer, caller, producer, turn, mode>>

Swept ==
    /\ worker = "sweeping" /\ \A t \in Tasks : producer[t].entry = "none"
    /\ worker' = "gone"
    /\ mailbox' = IF mailbox = "none" THEN "none" ELSE "closed"
    /\ UNCHANGED <<shared, handle, consumer, caller, producer, turn, mode>>

WorkerStep ==
    \/ Notify \/ Leave \/ Swept
    \/ \E t \in Tasks : \/ Take(t) \/ Refuse(t) \/ Prepare(t) \/ Track(t) \/ Spawn(t) \/ End(t)
                        \/ Answer(t) \/ Forget(t) \/ TaskUnref(t) \/ Sweep(t)

-----------------------------------------------------------------------------
(* The thread a FutureState was handed over to.                            *)

\* The reference of the copy in transit moves to the new object.
Load(t) ==
    /\ producer[t].stage = "sent"
    /\ producer' = [producer EXCEPT ![t].stage = "held"]
    /\ UNCHANGED <<shared, handle, mailbox, consumer, caller, worker, turn, mode>>

\* complete() and error(), which throw when the state is completed.
Fulfil(t, v) ==
    /\ producer[t].stage = "held"
    /\ Settle(t, v)
    /\ producer' = [producer EXCEPT ![t].stage = "told"]
    /\ UNCHANGED <<mailbox, consumer, caller, worker, turn, mode>>

\* The object is freed, fulfilled or not.
LetGo(t) ==
    /\ producer[t].stage \in {"held", "told"}
    /\ shared' = [shared EXCEPT ![t] = DelRef(@)]
    /\ producer' = [producer EXCEPT ![t].stage = IF @ = "told" THEN "gone" ELSE "dropped"]
    /\ UNCHANGED <<handle, mailbox, consumer, caller, worker, turn, mode>>

ThreadStep == \E t \in States : Load(t) \/ LetGo(t) \/ \E v \in {"result", "error"} : Fulfil(t, v)

-----------------------------------------------------------------------------
ConsumerStep ==
    \/ CallerStep
    \/ \E t \in Shared : Cancel(t) \/ Deliver(t)
    \/ \E t \in Tasks : Submit(t) \/ Watch(t) \/ Ignore(t) \/ Drop(t) \/ Drain(t)
    \/ \E t \in States : \/ HandOver(t) \/ DropState(t)
                         \/ \E v \in {"result", "error"} : Resolve(t, v)

SharedNext == ConsumerStep \/ WorkerStep \/ ThreadStep

SharedSpec == SharedInit /\ [][SharedNext]_sharedVars

-----------------------------------------------------------------------------
(* Properties.                                                             *)

\* A trigger that a shared state points to is not disposed: whichever thread
\* completes or cancels, and however the owner of the trigger goes away
\* (remote_future_dispose, async_future_state_object_free, a worker that
\* bails out), no fire reaches a closed handle.
PointersAreLive ==
    \A t \in Shared : /\ shared[t].trigger => handle[t] \in {"open", "posted"}
                      /\ shared[t].bound => mailbox \in {"open", "posted"}

\* A cancellation that was requested, whether before the task was taken, while it was
\* prepared or while it ran, is not lost: a task's body runs on only if it
\* was cancelled or the mailbox is about to be read.
CancelIsHeard ==
    \A t \in Tasks : producer[t].stage = "running" /\ shared[t].requested
                       => producer[t].doomed \/ mailbox = "posted"

\* The reference count of a state is the number of its ends, so it is freed when the
\* second end lets go and not before, and by then nobody can reach a trigger through it.
Holders(t) == (IF \/ consumer[t].owner
                  \/ caller.of = t /\ caller.step \in {"sever", "close", "unref"}
               THEN 1 ELSE 0)
              + (IF producer[t].stage \in {"none", "gone", "dropped"} THEN 0 ELSE 1)

RefsCounted ==
    \A t \in Shared : /\ shared[t].life = "live" => shared[t].refs = Holders(t) /\ Holders(t) > 0
                      /\ shared[t].life = "freed" => /\ Holders(t) = 0
                                                     /\ ~shared[t].bound /\ ~shared[t].trigger
                                                     /\ handle[t] = "closed"

\* When the producer is done with a task, or has fulfilled a FutureState,
\* the consumer's future is settled or the answer waits in the trigger.
AnswersArrive ==
    \A t \in Shared : producer[t].stage = "gone" /\ consumer[t].owner /\ consumer[t].future = "pending"
                        => handle[t] = "posted" /\ shared[t].value # "none"

\* Both ends of a state may let go at any time without harm: no pointer in it
\* dangles and its references are counted.
NothingDangles == PointersAreLive /\ RefsCounted

\* Nothing is lost between the threads: neither a cancellation on its way to
\* the task nor an answer on its way back.
NothingIsLost == CancelIsHeard /\ AnswersArrive
=============================================================================
