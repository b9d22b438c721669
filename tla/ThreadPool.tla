--------------------------- MODULE ThreadPool ---------------------------
(* thread_pool.c: Async\ThreadPool, worker threads that take tasks from a  *)
(* channel, and the rolling reload that replaces them.                     *)
(*                                                                         *)
(* The pool's owner is one thread, whose coroutines submit tasks, close,   *)
(* cancel and reload the pool; a coroutine that does not suspend is not    *)
(* interrupted by another one, but worker threads go on meanwhile.  A task *)
(* channel is the bounded buffer of module ThreadChannel, whose send and   *)
(* receive are single steps here.  Channels are numbered: channel k serves *)
(* the workers started since the k-th rotation, and the exit tokens of its *)
(* workers are counted in tokens[k].                                       *)
(*                                                                         *)
(* Left out: the statistics counters, tasks given as C functions, the      *)
(* consumer's cancellation of a single task, fatal errors in tasks, and    *)
(* thread creation that fails.                                             *)
EXTENDS Integers, Sequences, FiniteSets

CONSTANTS
    Workers,            \* 1 .. k, in the order in which they are started
    worker_count,       \* how many the pool starts with
    Tasks,              \* 1 .. k, in the order in which they are submitted
    queue_size,
    coroutine_mode,
    concurrency,        \* tasks at a time in a worker; 0 is no limit
    Callers,            \* 1 .. k, in the order in which they call reload(), once each
    MayCancel,          \* the callers that may be cancelled
    BootFails           \* the workers whose bootloader may throw

ASSUME ThreadPoolAssumption ==
    /\ \A S \in {Workers, Tasks, Callers} : IsFiniteSet(S) /\ S = 1..Cardinality(S)
    /\ worker_count \in Workers
    /\ queue_size \in Nat \ {0} /\ concurrency \in Nat
    /\ coroutine_mode \in BOOLEAN /\ BootFails \subseteq Workers /\ MayCancel \subseteq Callers

VARIABLES
    closed, boot_error,
    task_channel,       \* the number of the current channel
    queue, ended,       \* per channel: its tasks, and whether it is closed
    live_workers,
    worker,             \* per worker: where it is, its channel, the rotation it answers
    active,             \* per worker: the tasks it runs
    future,             \* per task
    sends_to,           \* per task: the channel whose space its sender waits for
    reload_in_progress, rotations_started, rotations_completed,
    rotating,           \* reload_old and reload_notify: the channel that is retired
    tokens,
    reload,             \* per caller
    aborted             \* rotations that were cancelled

pool == <<closed, boot_error>>
channels == <<task_channel, queue, ended>>
threads == <<live_workers, worker, active>>
tasks == <<future, sends_to>>
rotation == <<reload_in_progress, rotations_started, rotations_completed, rotating, tokens, reload, aborted>>
vars == <<pool, channels, threads, tasks, rotation>>

None == -1
Channels == 0..Cardinality(Callers)

\* A worker starts in its bootloader; one that cannot fail is a part of the
\* time the worker takes until its first receive.
New(w, c) == [at |-> IF w \in BootFails THEN "boot" ELSE "loop", channel |-> c, notify |-> None]

Gone == [at |-> "gone", channel |-> 0, notify |-> None]

Alive(w) == worker[w].at \in {"boot", "closing", "close", "drain", "loop", "gate", "run", "done"}

\* The owner's thread is between two suspensions of this caller.
Busy(r) == reload[r].at \in {"checked", "rotate", "start"}
InReload(r) == reload[r].at \notin {"idle", "reloaded", "returned"}
OwnerFree == \A r \in Callers : ~Busy(r)

Settle(ts) == future' = [t \in Tasks |-> IF t \in ts THEN "settled" ELSE future[t]]

TasksIn(c) == {queue[c][i] : i \in DOMAIN queue[c]}

-----------------------------------------------------------------------
(* Submitting, closing and cancelling.                                    *)

\* submit: the channel is read once; send waits while it is full.
submit(t) ==
    /\ OwnerFree
    /\ future[t] = "new" /\ \A u \in 1..(t - 1) : future[u] # "new"
    /\ \/ /\ closed \/ live_workers = 0 \/ ended[task_channel]
          /\ future' = [future EXCEPT ![t] = "refused"]
          /\ UNCHANGED <<queue, sends_to>>
       \/ /\ ~closed /\ live_workers > 0 /\ ~ended[task_channel]
          /\ IF Len(queue[task_channel]) < queue_size
             THEN /\ queue' = [queue EXCEPT ![task_channel] = Append(@, t)]
                  /\ future' = [future EXCEPT ![t] = "accepted"]
                  /\ UNCHANGED sends_to
             ELSE /\ future' = [future EXCEPT ![t] = "sending"]
                  /\ sends_to' = [sends_to EXCEPT ![t] = task_channel]
                  /\ UNCHANGED queue
    /\ UNCHANGED <<pool, task_channel, ended, threads, rotation>>

submit_resumes(t) ==
    /\ OwnerFree
    /\ future[t] = "sending"
    /\ \/ /\ ended[sends_to[t]]
          /\ future' = [future EXCEPT ![t] = "refused"]
          /\ UNCHANGED queue
       \/ /\ ~ended[sends_to[t]] /\ Len(queue[sends_to[t]]) < queue_size
          /\ queue' = [queue EXCEPT ![sends_to[t]] = Append(@, t)]
          /\ future' = [future EXCEPT ![t] = "accepted"]
    /\ sends_to' = [sends_to EXCEPT ![t] = 0]
    /\ UNCHANGED <<pool, task_channel, ended, threads, rotation>>

\* thread_pool_close, on the owner's thread.
close ==
    /\ OwnerFree
    /\ ~closed
    /\ closed' = TRUE
    /\ ended' = [ended EXCEPT ![task_channel] = TRUE]
    /\ UNCHANGED <<boot_error, task_channel, queue, threads, tasks, rotation>>

\* cancel: close, and reject the tasks nobody has taken.  The flag it also sets makes
\* the tasks of a worker that leaves its loop later end sooner: see ends.
cancel ==
    /\ OwnerFree
    /\ closed' = TRUE
    /\ ended' = IF closed THEN ended ELSE [ended EXCEPT ![task_channel] = TRUE]
    /\ Settle(TasksIn(task_channel))
    /\ queue' = [queue EXCEPT ![task_channel] = <<>>]
    /\ UNCHANGED <<boot_error, task_channel, threads, sends_to, rotation>>

-----------------------------------------------------------------------
(* A worker thread.                                                       *)

Move(w, l) == worker' = [worker EXCEPT ![w].at = l]

\* The bootloader returns, or throws and the pool is closed for good.
boots(w) ==
    /\ worker[w].at = "boot"
    /\ \/ Move(w, "loop") /\ UNCHANGED boot_error
       \/ w \in BootFails /\ Move(w, "closing") /\ boot_error' = TRUE
    /\ UNCHANGED <<closed, channels, live_workers, active, tasks, rotation>>

\* thread_pool_close, on a worker's thread: the flag, then the channel.
sets_closed(w) ==
    /\ worker[w].at = "closing"
    /\ closed' = TRUE
    /\ Move(w, IF closed THEN "drain" ELSE "close")
    /\ UNCHANGED <<boot_error, channels, live_workers, active, tasks, rotation>>

closes(w) ==
    /\ worker[w].at = "close"
    /\ ended' = [ended EXCEPT ![task_channel] = TRUE]
    /\ Move(w, "drain")
    /\ UNCHANGED <<pool, task_channel, queue, live_workers, active, tasks, rotation>>

\* thread_pool_drain_tasks
drains(w) ==
    /\ worker[w].at = "drain"
    /\ Settle(TasksIn(task_channel))
    /\ queue' = [queue EXCEPT ![task_channel] = <<>>]
    /\ Move(w, "done")
    /\ UNCHANGED <<pool, task_channel, ended, live_workers, active, sends_to, rotation>>

AtLimit(w) == coroutine_mode /\ concurrency > 0 /\ Cardinality(active[w]) >= concurrency

\* The next task: run to its end, or in a coroutine beside the others.
takes(w) ==
    /\ worker[w].at = "loop"
    /\ ~AtLimit(w)
    /\ queue[worker[w].channel] # <<>>
    /\ active' = [active EXCEPT ![w] = @ \cup {Head(queue[worker[w].channel])}]
    /\ queue' = [queue EXCEPT ![worker[w].channel] = Tail(@)]
    /\ Move(w, IF coroutine_mode THEN "loop" ELSE "run")
    /\ UNCHANGED <<pool, task_channel, ended, live_workers, tasks, rotation>>

\* A task returns, throws or is cancelled, and its future is settled.
ends(w, t) ==
    /\ t \in active[w]
    /\ active' = [active EXCEPT ![w] = @ \ {t}]
    /\ Settle({t})
    /\ Move(w, IF worker[w].at = "run" THEN "loop" ELSE worker[w].at)
    /\ UNCHANGED <<pool, channels, live_workers, sends_to, rotation>>

\* At the limit the worker waits for a free place, or for a closed channel.
waits(w) ==
    /\ worker[w].at = "loop"
    /\ AtLimit(w) /\ ~ended[worker[w].channel]
    /\ Move(w, "gate")
    /\ UNCHANGED <<pool, channels, live_workers, active, tasks, rotation>>

passes_gate(w) ==
    /\ worker[w].at = "gate"
    /\ ~AtLimit(w) /\ ~ended[worker[w].channel]
    /\ Move(w, "loop")
    /\ UNCHANGED <<pool, channels, live_workers, active, tasks, rotation>>

\* Mutant: the channel's being closed ends the loop at once.
leaves_loop_early(w) ==
    /\ worker[w].at \in {"loop", "gate"}
    /\ ended[worker[w].channel]
    /\ Move(w, "done")
    /\ UNCHANGED <<pool, channels, live_workers, active, tasks, rotation>>

\* receive fails on a closed channel: with a result when it is empty, without one,
\* at the limit, at once; also when a place has become free while it waited.
leaves_loop(w) ==
    /\ worker[w].at \in {"loop", "gate"}
    /\ ended[worker[w].channel]
    /\ worker[w].at = "gate" \/ AtLimit(w) \/ queue[worker[w].channel] = <<>>
    /\ Move(w, "done")
    /\ UNCHANGED <<pool, channels, live_workers, active, tasks, rotation>>

\* The scheduler runs until the worker's tasks have ended, and the worker is no
\* longer counted before it looks for a rotation to answer.
leaves(w) ==
    /\ worker[w].at = "done"
    /\ active[w] = {}
    /\ live_workers' = live_workers - 1
    /\ Move(w, "token")
    /\ UNCHANGED <<pool, channels, active, tasks, rotation>>

\* The worker reads reload_notify, compares reload_old with its channel, and sends
\* its token to what it read first.
reads_notify(w) ==
    /\ worker[w].at = "token"
    /\ worker' = [worker EXCEPT ![w] = IF rotating = None THEN Gone ELSE [@ EXCEPT !.at = "compare", !.notify = rotating]]
    /\ UNCHANGED <<pool, channels, live_workers, active, tasks, rotation>>

\* Mutant: the token goes to whatever rotation there is.
compares_nothing(w) ==
    /\ worker[w].at = "compare"
    /\ Move(w, "send")
    /\ UNCHANGED <<pool, channels, live_workers, active, tasks, rotation>>

compares_old(w) ==
    /\ worker[w].at = "compare"
    /\ worker' = [worker EXCEPT ![w] = IF rotating = worker[w].channel THEN [@ EXCEPT !.at = "send"] ELSE Gone]
    /\ UNCHANGED <<pool, channels, live_workers, active, tasks, rotation>>

posts_token(w) ==
    /\ worker[w].at = "send"
    /\ worker' = [worker EXCEPT ![w] = Gone]
    /\ tokens' = [tokens EXCEPT ![worker[w].notify] = @ + 1]
    /\ UNCHANGED <<pool, channels, live_workers, active, tasks>>
    /\ UNCHANGED <<reload_in_progress, rotations_started, rotations_completed, rotating, reload, aborted>>

-----------------------------------------------------------------------
(* reload().                                                              *)

Idle == [at |-> "idle", target |-> 0, n |-> 0, i |-> 0]

\* The caller goes on, or gives up; a caller that gave up has nothing to remember.
Goes(r, l) ==
    reload' = [reload EXCEPT ![r] = IF l = "returned" THEN [Idle EXCEPT !.at = l] ELSE [@ EXCEPT !.at = l]]

Fire == [r \in Callers |-> IF reload[r].at = "queued" THEN [reload[r] EXCEPT !.at = "woken"] ELSE reload[r]]

calls_reload(r) ==
    /\ OwnerFree
    /\ reload[r].at = "idle" /\ \A q \in 1..(r - 1) : reload[q].at # "idle"
    /\ reload' = [reload EXCEPT ![r] =
           IF closed THEN [Idle EXCEPT !.at = "returned"]
           ELSE [Idle EXCEPT !.at = IF reload_in_progress THEN "queued" ELSE "checked",
                             !.target = rotations_started + 1]]
    /\ UNCHANGED <<pool, channels, threads, tasks>>
    /\ UNCHANGED <<reload_in_progress, rotations_started, rotations_completed, rotating, tokens, aborted>>

\* A caller that waited for a rotation looks whether a later one served it too.
wakes_up(r) ==
    /\ OwnerFree
    /\ reload[r].at = "woken"
    /\ Goes(r, IF rotations_completed >= reload[r].target THEN "reloaded"
               ELSE IF closed THEN "returned"
               ELSE IF reload_in_progress THEN "queued" ELSE "checked")
    /\ UNCHANGED <<pool, channels, threads, tasks>>
    /\ UNCHANGED <<reload_in_progress, rotations_started, rotations_completed, rotating, tokens, aborted>>

\* The number of workers whose tokens the rotation waits for.
counts(r) ==
    /\ reload[r].at = "checked"
    /\ IF live_workers = 0
       THEN /\ Goes(r, "returned")
            /\ UNCHANGED <<reload_in_progress, rotations_started>>
       ELSE /\ reload' = [reload EXCEPT ![r] = [@ EXCEPT !.at = "rotate", !.n = live_workers, !.i = 0]]
            /\ reload_in_progress' = TRUE
            /\ rotations_started' = rotations_started + 1
    /\ UNCHANGED <<pool, channels, threads, tasks, rotations_completed, rotating, tokens, aborted>>

\* The pair is published, the channel replaced and the old one closed.
rotates(r) ==
    /\ reload[r].at = "rotate"
    /\ rotating' = task_channel
    /\ task_channel' = task_channel + 1
    /\ ended' = [ended EXCEPT ![task_channel] = TRUE]
    /\ reload' = [reload EXCEPT ![r].at = "start"]
    /\ UNCHANGED <<pool, queue, threads, tasks>>
    /\ UNCHANGED <<reload_in_progress, rotations_started, rotations_completed, tokens, aborted>>

Started == {w \in Workers : worker[w].at # "none"}

\* thread_pool_start_worker, unless the pool was closed.  Bound: the workers there are.
starts(r) ==
    /\ reload[r].at = "start"
    /\ closed \/ Started # Workers
    /\ IF closed
       THEN UNCHANGED threads
       ELSE /\ LET w == Cardinality(Started) + 1 IN worker' = [worker EXCEPT ![w] = New(w, task_channel)]
            /\ live_workers' = live_workers + 1
            /\ UNCHANGED active
    /\ reload' = [reload EXCEPT ![r].at = "token"]
    /\ UNCHANGED <<pool, channels, tasks>>
    /\ UNCHANGED <<reload_in_progress, rotations_started, rotations_completed, rotating, tokens, aborted>>

\* Mutant: the callers that wait for the rotation are not woken.
gets_token_quiet(r) ==
    /\ OwnerFree
    /\ reload[r].at = "token"
    /\ tokens[rotating] > 0
    /\ tokens' = [tokens EXCEPT ![rotating] = @ - 1]
    /\ IF reload[r].i + 1 < reload[r].n
       THEN /\ reload' = [reload EXCEPT ![r] = [@ EXCEPT !.at = "start", !.i = reload[r].i + 1]]
            /\ UNCHANGED <<reload_in_progress, rotations_completed, rotating>>
       ELSE /\ reload' = [reload EXCEPT ![r] = [Idle EXCEPT !.at = "reloaded", !.target = reload[r].target]]
            /\ reload_in_progress' = FALSE
            /\ rotations_completed' = rotations_completed + 1
            /\ rotating' = None
    /\ UNCHANGED <<pool, channels, threads, tasks, rotations_started, aborted>>

\* A token arrives: the next worker is replaced, or the rotation is over.
gets_token(r) ==
    /\ OwnerFree
    /\ reload[r].at = "token"
    /\ tokens[rotating] > 0
    /\ tokens' = [tokens EXCEPT ![rotating] = @ - 1]
    /\ IF reload[r].i + 1 < reload[r].n
       THEN /\ reload' = [reload EXCEPT ![r] = [@ EXCEPT !.at = "start", !.i = reload[r].i + 1]]
            /\ UNCHANGED <<reload_in_progress, rotations_completed, rotating>>
       ELSE /\ reload' = [Fire EXCEPT ![r] = [Idle EXCEPT !.at = "reloaded", !.target = reload[r].target]]
            /\ reload_in_progress' = FALSE
            /\ rotations_completed' = rotations_completed + 1
            /\ rotating' = None
    /\ UNCHANGED <<pool, channels, threads, tasks, rotations_started, aborted>>

\* The caller is cancelled, while it is queued or in the middle of its rotation.
reload_cancelled(r) ==
    /\ OwnerFree
    /\ r \in MayCancel
    /\ \/ /\ reload[r].at \in {"queued", "woken"}
          /\ Goes(r, "returned")
          /\ UNCHANGED <<reload_in_progress, rotating, aborted>>
       \/ /\ reload[r].at = "token"
          /\ reload' = [Fire EXCEPT ![r] = [Idle EXCEPT !.at = "returned"]]
          /\ reload_in_progress' = FALSE
          /\ rotating' = None
          /\ aborted' = aborted + 1
    /\ UNCHANGED <<pool, channels, threads, tasks, rotations_started, rotations_completed, tokens>>

-----------------------------------------------------------------------
Init ==
    /\ closed = FALSE /\ boot_error = FALSE
    /\ task_channel = 0
    /\ queue = [c \in Channels |-> <<>>] /\ ended = [c \in Channels |-> FALSE]
    /\ live_workers = worker_count
    /\ worker = [w \in Workers |-> IF w <= worker_count THEN New(w, 0) ELSE [Gone EXCEPT !.at = "none"]]
    /\ active = [w \in Workers |-> {}]
    /\ future = [t \in Tasks |-> "new"] /\ sends_to = [t \in Tasks |-> 0]
    /\ reload_in_progress = FALSE /\ rotations_started = 0 /\ rotations_completed = 0
    /\ rotating = None /\ tokens = [c \in Channels |-> 0]
    /\ reload = [r \in Callers |-> Idle]
    /\ aborted = 0

WorkerStep(w) ==
    \/ boots(w) \/ sets_closed(w) \/ closes(w) \/ drains(w)
    \/ takes(w) \/ (\E t \in Tasks : ends(w, t))
    \/ waits(w) \/ passes_gate(w) \/ leaves_loop(w)
    \/ leaves(w) \/ reads_notify(w) \/ compares_old(w) \/ posts_token(w)

ReloadStep(r) ==
    \/ wakes_up(r) \/ counts(r) \/ rotates(r) \/ starts(r) \/ gets_token(r)

Next ==
    \/ \E t \in Tasks : submit(t) \/ submit_resumes(t)
    \/ close \/ cancel
    \/ \E w \in Workers : WorkerStep(w)
    \/ \E r \in Callers : calls_reload(r) \/ ReloadStep(r) \/ reload_cancelled(r)

Spec == Init /\ [][Next]_vars

\* Threads run, tasks and bootloaders end, and the owner's thread resumes the
\* coroutines that can go on.  Every task and caller has finitely many steps, so
\* that it is enough that some worker, or some coroutine, that can go on does.
FairSpec ==
    /\ Spec
    /\ WF_vars(\E w \in Workers : WorkerStep(w))
    /\ WF_vars((\E r \in Callers : ReloadStep(r)) \/ (\E t \in Tasks : submit_resumes(t)))

-----------------------------------------------------------------------
(* Properties.                                                            *)

\* A token is posted only to a rotation that still waits for it, and never more of
\* them than the notify channel holds, so posting never blocks a worker and never
\* touches a channel that was disposed of.
TokensAreExpected ==
    aborted = 0 /\ ~boot_error =>
        \A r \in Callers : reload[r].at \in {"start", "token"} =>
            Cardinality({w \in Workers : worker[w].channel = rotating /\ worker[w].at \notin {"none", "gone"}})
                + tokens[rotating] = reload[r].n - reload[r].i

\* When reload() returns, no live worker predates the call, also for a caller that
\* was served by the rotation of another one; unless a worker left on its own.
ReloadIsFresh ==
    ~boot_error => \A r \in Callers : reload[r].at = "reloaded" =>
        \A w \in Workers : Alive(w) => worker[w].channel >= reload[r].target

\* Replacements are started one for one: there is at most one worker more than
\* the pool was built with.
NoSpike == aborted = 0 => live_workers <= worker_count + 1

\* A rotation is exact: its tokens are the ones expected, reload() returns over
\* fresh workers only, workers are replaced one for one, and live_workers counts
\* those between their start and their exit.
RotationIsExact ==
    /\ TokensAreExpected /\ ReloadIsFresh /\ NoSpike
    /\ live_workers = Cardinality({w \in Workers : Alive(w)})

\* Every task that was accepted is run or rejected, and every send ends, however
\* closing, cancelling, reloading (also when it is cancelled midway) and failing
\* bootloaders follow each other; unless a bootloader fails in a pool that is reloaded.
EveryTaskSettles ==
    (\E t \in Tasks : future[t] \in {"sending", "accepted"})
        ~> ((\A t \in Tasks : future[t] \in {"new", "settled", "refused"}) \/ (boot_error /\ rotations_started > 0))

\* reload() returns, unless a rotation was cancelled midway or a worker left on its
\* own because its bootloader failed.
ReloadReturns ==
    (\E r \in Callers : InReload(r))
        ~> ((\A r \in Callers : ~InReload(r)) \/ aborted > 0 \/ boot_error)

=======================================================================
