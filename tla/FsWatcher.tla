------------------------------ MODULE FsWatcher ------------------------------
(***************************************************************************)
(* FileSystemWatcher (fs_watcher.c) on top of the reactor's filesystem     *)
(* event, timer and trigger (libuv_reactor.c): changes are buffered per    *)
(* file or one by one, or a burst is collapsed by a quiet timer, and       *)
(* coroutines take them out by iterating.                                  *)
(*                                                                         *)
(* A recursive watcher hears from DirectoryWatch; a plain one from the one *)
(* handle libuv has for it.  Time is counted in milliseconds: now is       *)
(* zend_hrtime(), clock is the loop's cached time, which timers use and    *)
(* which lags behind while callbacks and PHP code run.                     *)
(***************************************************************************)
EXTENDS DirectoryWatch, Integers

CONSTANTS
  Iterators,  \* the coroutines that may iterate over the watcher
  Plans       \* the constructor's arguments and the budgets of a behaviour

ASSUME PlansAssumption ==
  \A p \in Plans : p.debounce \in Nat /\ p.hold \in Nat /\ p.time \in Nat

Off == -1     \* no deadline: the timer is not running

VARIABLES
  plan,     \* the plan of this behaviour
  watcher,  \* the async_fs_watcher_t
  timer,    \* when the quiet timer fires by the loop's clock, or Off
  trigger,  \* uv_async_send was called on deliver_event and not yet served
  iter,     \* what each iterating coroutine is doing
  now, clock,
  seen      \* history: changes owed to the iterators, the watch has failed,
            \* the time of the last change of the burst

fsVars == <<plan, watcher, timer, trigger, iter, now, clock, seen>>
vars == <<watchVars, fsVars>>

Debounce == plan.debounce > 0

-----------------------------------------------------------------------------
(* The buffer.  A coalescing watcher keeps one entry per name, a raw one   *)
(* keeps them all; the collapsed event of a burst has no name.             *)

Store(buffer, name, kinds) ==
  IF plan.coalesce /\ \E k \in 1..Len(buffer) : buffer[k].name = name
  THEN [k \in 1..Len(buffer) |->
          IF buffer[k].name = name THEN [buffer[k] EXCEPT !.kinds = @ \cup kinds] ELSE buffer[k]]
  ELSE Append(buffer, [name |-> name, kinds |-> kinds])

(* Without a list of extensions everything counts, a change without a name *)
(* included; with one, only files that have a listed extension.            *)
ExtMatches(name) == plan.extensions = {} \/ (name # <<>> /\ Last(name) \in plan.extensions)

(* Mutant: every change grants the burst the whole quiet time again.       *)
QuietTimeOnly(w) == plan.debounce

(* How long the timer is set: the quiet time, but not past the time the    *)
(* first change of the burst may be held.                                  *)
Delay(w) ==
  LET deadline  == w.first + plan.hold
      remaining == IF deadline > now THEN deadline - now ELSE 0
  IN IF plan.hold > 0 /\ remaining < plan.debounce THEN remaining ELSE plan.debounce

(* Setting the timer, for the first time or again: counted from the loop's *)
(* cached time, and replacing the deadline it had.                         *)
TimerRearm(delay) == clock + delay

(* A multishot timer that fires stays usable and is simply not running.    *)
TimerExpired == timer # Off /\ timer <= clock

(* A change of the burst: remember its kind, and when the burst began.     *)
MarkDirty(w, kind) ==
  IF w.dirty THEN [w EXCEPT !.pending = @ \cup {kind}]
  ELSE [w EXCEPT !.dirty = TRUE, !.first = now, !.pending = {kind}]

(* The burst becomes one event.  A coalescing watcher that still holds the *)
(* previous one keeps that as it is.                                       *)
Flush(w) ==
  [w EXCEPT !.dirty = FALSE, !.first = 0, !.pending = {},
            !.buffer = IF plan.coalesce /\ \E k \in 1..Len(w.buffer) : w.buffer[k].name = <<>> THEN @
                       ELSE Append(@, [name |-> <<>>, kinds |-> w.pending])]

Wake(its, how) == [i \in Iterators |-> IF its[i] = "parked" THEN how ELSE its[i]]

-----------------------------------------------------------------------------
(* ZEND_ASYNC_CALLBACKS_NOTIFY on the filesystem event: the watcher's own  *)
(* callback comes first, then the coroutines parked on the event.  Those   *)
(* of a debouncing watcher are parked on deliver_event instead.            *)

OnFsEvent ==
  /\ Doing("notify")
  /\ LET e     == Head(work)
         takes == ~watcher.closed /\ (Debounce => ExtMatches(e.name))
         w     == IF Debounce THEN MarkDirty(watcher, e.kind)
                  ELSE [watcher EXCEPT !.buffer = Store(@, e.name, {e.kind})]
     IN /\ watcher' = IF takes THEN w ELSE watcher
        /\ timer' = IF takes /\ Debounce THEN TimerRearm(Delay(w)) ELSE timer
        /\ seen' = IF takes THEN [seen EXCEPT !.owed = @ \cup {<<e.name, e.kind>>}, !.last = now] ELSE seen
  /\ iter' = IF Debounce THEN iter ELSE Wake(iter, "ready")
  /\ work' = Tail(work)
  /\ UNCHANGED <<tree, inotify, watch, fresh, left, past, plan, trigger, now, clock>>

(* The backend reports an error: the watcher closes itself and the         *)
(* coroutines parked on the filesystem event resume with the exception.    *)
OnFsError ==
  /\ work = <<>> /\ watch.life = "armed" /\ plan.faults /\ ~seen.failed
  /\ watcher' = [watcher EXCEPT !.closed = TRUE]
  /\ iter' = IF Debounce THEN iter ELSE Wake(iter, "thrown")
  /\ seen' = [seen EXCEPT !.failed = TRUE]
  /\ UNCHANGED <<watchVars, plan, timer, trigger, now, clock>>

(* The one handle of a watcher that is not recursive.                      *)
OnFilesystemEvent(name, kind) ==
  /\ ~plan.recursive /\ work = <<>> /\ watch.life = "armed" /\ left.touches > 0
  /\ left' = [left EXCEPT !.touches = @ - 1]
  /\ work' = <<[op |-> "notify", name |-> name, kind |-> kind]>>
  /\ UNCHANGED <<tree, inotify, watch, fresh, past, fsVars>>

(* Mutant: the burst is stored and nobody is told.                         *)
OnDebounceTimerQuietly ==
  /\ work = <<>> /\ TimerExpired
  /\ timer' = Off
  /\ watcher' = IF watcher.closed \/ ~watcher.dirty THEN watcher ELSE Flush(watcher)
  /\ UNCHANGED <<watchVars, plan, iter, now, clock, seen, trigger>>

OnDebounceTimer ==
  /\ work = <<>> /\ TimerExpired
  /\ timer' = Off
  /\ watcher' = IF watcher.closed \/ ~watcher.dirty THEN watcher ELSE Flush(watcher)
  /\ trigger' = (trigger \/ (~watcher.closed /\ watcher.dirty))
  /\ UNCHANGED <<watchVars, plan, iter, now, clock, seen>>

OnTriggerEvent ==
  /\ work = <<>> /\ trigger
  /\ trigger' = FALSE
  /\ iter' = Wake(iter, "ready")
  /\ UNCHANGED <<watchVars, plan, watcher, timer, now, clock, seen>>

-----------------------------------------------------------------------------
(* PHP code.                                                               *)

(* The constructor starts the watch, or throws when that fails: there is   *)
(* no object then.                                                         *)
Construct ==
  /\ watch.life = "new"
  /\ \/ plan.recursive /\ FilesystemStart
     \/ ~plan.recursive /\ watch' = [watch EXCEPT !.life = "armed"] /\ UNCHANGED work
     \/ plan.faults /\ watch' = FilesystemDispose(watch) /\ UNCHANGED work
  /\ UNCHANGED <<tree, inotify, fresh, left, past, fsVars>>

(* fs_watcher_do_close on an open watcher; on a closed one it does nothing.*)
DoClose ==
  /\ watcher' = [watcher EXCEPT !.closed = TRUE]
  /\ timer' = Off
  /\ iter' = IF Debounce THEN iter ELSE Wake(iter, "ready")
  /\ trigger' = (trigger \/ Debounce)

Close ==
  /\ work = <<>> /\ watch.life = "armed" /\ plan.closes /\ ~watcher.closed
  /\ DoClose
  /\ watch' = FilesystemStop(watch)
  /\ UNCHANGED <<tree, inotify, work, fresh, left, past, plan, now, clock, seen>>

(* The last reference goes: every iterator holds one.  The destructor      *)
(* closes the watcher, then the buffer, the timer and both events go.      *)
Drop ==
  /\ work = <<>> /\ watch.life \in {"armed", "stopped"} /\ plan.closes
  /\ \A i \in Iterators : iter[i] \in {"none", "ended"}
  /\ watcher' = [watcher EXCEPT !.closed = TRUE, !.buffer = <<>>]
  /\ watch' = FilesystemDispose(watch)
  /\ timer' = Off
  /\ trigger' = FALSE
  /\ seen' = [seen EXCEPT !.owed = {}]
  /\ UNCHANGED <<tree, inotify, work, fresh, left, past, plan, iter, now, clock>>

(* An iterator takes the oldest event, ends when there is none and the     *)
(* watcher is closed, or parks.                                            *)
MoveForward(i) ==
  /\ work = <<>> /\ watch.life \in {"armed", "stopped"} /\ iter[i] \in {"none", "running", "ready"}
  /\ \/ /\ watcher.buffer # <<>>
        /\ LET e == Head(watcher.buffer)
           IN seen' = [seen EXCEPT !.owed =
                IF Debounce THEN IF watcher.dirty \/ Len(watcher.buffer) > 1 THEN @ ELSE {}
                ELSE @ \ {<<e.name, k>> : k \in e.kinds}]
        /\ watcher' = [watcher EXCEPT !.buffer = Tail(@)]
        /\ iter' = [iter EXCEPT ![i] = "running"]
     \/ /\ watcher.buffer = <<>> /\ watcher.closed
        /\ iter' = [iter EXCEPT ![i] = "ended"]
        /\ UNCHANGED <<watcher, seen>>
     \/ /\ watcher.buffer = <<>> /\ ~watcher.closed
        /\ iter' = [iter EXCEPT ![i] = "parked"]
        /\ UNCHANGED <<watcher, seen>>
  /\ UNCHANGED <<watchVars, plan, timer, trigger, now, clock>>

(* The coroutine is cancelled while it is parked, resumes with an          *)
(* exception, or leaves the loop.                                          *)
Leave(i) ==
  /\ work = <<>> /\ iter[i] \in (IF plan.cancels THEN {"parked", "thrown", "running"} ELSE {"thrown"})
  /\ iter' = [iter EXCEPT ![i] = "ended"]
  /\ UNCHANGED <<watchVars, plan, watcher, timer, trigger, now, clock, seen>>

-----------------------------------------------------------------------------
Tick ==
  /\ now < plan.time
  /\ now' = now + 1
  /\ UNCHANGED <<watchVars, plan, watcher, timer, trigger, iter, clock, seen>>

(* uv__update_time, at the start of a loop iteration and after the poll.   *)
UpdateTime ==
  /\ work = <<>> /\ clock < now
  /\ clock' = now
  /\ UNCHANGED <<watchVars, plan, watcher, timer, trigger, iter, now, seen>>

FsInit ==
  /\ plan \in Plans
  /\ WatchInit(plan.dirs, plan.ops, plan.touches, plan.refusals)
  /\ watcher = [closed |-> FALSE, buffer |-> <<>>, dirty |-> FALSE, first |-> 0, pending |-> {}]
  /\ timer = Off /\ trigger = FALSE
  /\ iter = [i \in Iterators |-> IF i \in plan.iterators THEN "none" ELSE "ended"]
  /\ now = 0 /\ clock = 0
  /\ seen = [owed |-> {}, failed |-> FALSE, last |-> 0]

FsNext ==
  \/ Construct \/ Close \/ Drop
  \/ \E i \in Iterators : MoveForward(i) \/ Leave(i)
  \/ (OtherProcess /\ watch.life = "armed" /\ plan.recursive /\ UNCHANGED fsVars)
  \/ (ReactorStep /\ UNCHANGED fsVars)
  \/ (WatchDirCloseCb /\ UNCHANGED fsVars)
  \/ OnFsEvent \/ OnFsError \/ OnDebounceTimer \/ OnTriggerEvent
  \/ \E name \in {<<>>, <<"f">>}, kind \in {"rename", "change"} : OnFilesystemEvent(name, kind)
  \/ Tick \/ UpdateTime

FsSpec == FsInit /\ [][FsNext]_vars

-----------------------------------------------------------------------------
(* When the reactor has handled every notification of a recursive watch,   *)
(* each directory of the tree has a live watch and no watch is left on a   *)
(* path that is gone.  Directories past the cap are not watched, nor is    *)
(* what lies below one the kernel refused, and below a path that came back *)
(* before its removal was handled the watch may be the old one: the        *)
(* duplicate check of async_fs_watch_add_dir skips it.                     *)
WatchesFollowTheTree ==
  (plan.recursive /\ watch.life = "armed" /\ work = <<>> /\ inotify = <<>>) =>
    \A p \in Paths : (\A q \in past.reused : ~Under(q, p)) =>
      /\ (IsDir(p) /\ ~past.capped /\ \A q \in past.refused : ~Under(q, p)) =>
           \E n \in watch.nodes : n.path = p /\ n.ino = tree[p]
      /\ Watched(p) => IsDir(p)

(* No coroutine stays parked beside an event: while one is parked, a       *)
(* buffered event has a wakeup on its way to it and a burst being held has *)
(* its timer running.                                                      *)
NobodySleepsOnEvents ==
  (work = <<>> /\ \E i \in Iterators : iter[i] = "parked") =>
    /\ watcher.buffer # <<>> => trigger
    /\ (watcher.dirty /\ ~watcher.closed) => timer # Off

(* close() ends every iteration: no coroutine stays parked on a closed     *)
(* watcher.  A debouncing watcher that a backend error closed wakes        *)
(* nobody: fs_watcher_on_fs_event only marks it closed, and close() then   *)
(* returns early.                                                          *)
CloseEndsIterations ==
  (work = <<>> /\ watcher.closed /\ ~(seen.failed /\ Debounce)) =>
    \A i \in Iterators : iter[i] = "parked" => trigger

(* The timer of a burst runs, and is never set later than the quiet time   *)
(* after its last change, nor later than the hold time after its first     *)
(* one, unless the last change itself came after that.                     *)
HoldIsBounded ==
  (watcher.dirty /\ ~watcher.closed) =>
    /\ timer # Off /\ timer <= seen.last + plan.debounce
    /\ plan.hold > 0 => timer <= watcher.first + plan.hold \/ timer <= seen.last

(* A change the watcher took is not lost while it is open: until an        *)
(* iterator has been given an event that covers it, with its kind unless   *)
(* the burst was collapsed, such an event is in the buffer or a burst is   *)
(* being held.  Closing, by close() or by an error of the backend, leaves  *)
(* the buffer to the iterators; a burst still held then is dropped, as its *)
(* timer is stopped or returns at once.                                    *)
ChangesAreReported ==
  (watcher.closed /\ watcher.dirty) \/ \A c \in seen.owed :
    \/ Debounce /\ (watcher.dirty \/ watcher.buffer # <<>>)
    \/ \E k \in 1..Len(watcher.buffer) : watcher.buffer[k].name = c[1] /\ c[2] \in watcher.buffer[k].kinds

(* Every change reaches whoever iterates, but for a burst held at the      *)
(* close, and the end does too.                                            *)
EventsArrive == ChangesAreReported /\ NobodySleepsOnEvents /\ CloseEndsIterations

=============================================================================
