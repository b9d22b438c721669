-------------------------------- MODULE Scope --------------------------------
(***************************************************************************)
(* Async\Scope (src/scope.c) and the contexts that hang on scopes          *)
(* (src/context.c): a tree of scopes, each with its coroutines, counters,  *)
(* references and listeners.  Cancellation goes down the tree, errors and  *)
(* completion go up, and disposal does both.  All of it runs in one thread *)
(* and wakes coroutines without switching to them, so a call is one step.  *)
(* The calls are made by code outside the tree or by its coroutines.       *)
(***************************************************************************)
EXTENDS Integers, FiniteSets, Sequences, SequencesExt

CONSTANTS
    NumScopes,        \* bound on the scopes user code creates
    NumCoroutines,    \* bound on the coroutines user code spawns
    Keys,             \* the keys of contexts
    Settings          \* the first scope: is it safe, which handlers it has; which
                      \* calls are made, at most how many, and how many spawns

ASSUME ScopeAssumption ==
    /\ NumScopes \in Nat \ {0} /\ NumCoroutines \in Nat \ {0}
    /\ \A s \in Settings : /\ s.safely \in BOOLEAN
                           /\ s.handlers \subseteq {"own", "child"}
                           /\ s.budget \in Nat /\ s.spawns \in 0..NumCoroutines

VARIABLES
    t,          \* the tree: t.s are the scopes, t.c the coroutines, t.timer the
                \* timers of disposeAfterTimeout(), t.by the coroutine that makes
                \* the call under way; history: t.given are the scopes
                \* scope_dispose() took a reference of and left alive, and t.again
                \* tells that one of these was used or disposed of once more
    calls       \* which calls are still to be made, and how many

vars == <<t, calls>>

NoScope == 0
UserScopes == 1..NumScopes
UserCoroutines == 1..NumCoroutines
Outside == 0

\* async_call_finally_handlers gives the handlers of a scope, or of one of its
\* coroutines, a child scope and a coroutine of their own: once per scope here.
FinallyScope(s) == NumScopes + s
FinallyCoroutine(s) == NumCoroutines + s
Scopes == 1..(2 * NumScopes)
Coroutines == 1..(NumCoroutines + NumScopes)

-----------------------------------------------------------------------------
(* Creation.                                                               *)

Blank == [is |-> "unborn", parent |-> NoScope, children |-> <<>>, members |-> <<>>,
          active |-> 0, zombies |-> 0, object |-> FALSE, safely |-> FALSE,
          closed |-> FALSE, cancelled |-> FALSE, disposing |-> FALSE, handled |-> FALSE,
          refs |-> 0, finally |-> "none", handlers |-> {}, waiters |-> <<>>,
          context |-> {}]

\* async_new_scope: DISPOSE_SAFELY comes from the parent.
NewScope(u, s, parent, object, safely) ==
    LET made == [u EXCEPT !.s[s] = [Blank EXCEPT !.is = "alive", !.parent = parent,
                                                 !.object = object, !.refs = 1,
                                                 !.safely = safely]]
    IN  IF parent = NoScope THEN made
        ELSE [made EXCEPT !.s[parent].children = Append(@, s)]

\* async_scope_add_coroutine, for a coroutine that is not yet started.
AddCoroutine(u, s, c) ==
    [u EXCEPT !.s[s].members = Append(@, c), !.s[s].active = @ + 1,
              !.c[c] = [@ EXCEPT !.is = "queued", !.in = s]]

\* Mutant: a zombie that ends is taken off the active ones.
RemoveCoroutineActive(u, s, c) ==
    LET v == u.s[s].members
        i == CHOOSE j \in DOMAIN v : v[j] = c
    IN  [u EXCEPT !.s[s].members = [j \in 1..(Len(v) - 1) |-> IF j = i THEN v[Len(v)] ELSE v[j]],
                  !.s[s].active = IF @ > 0 THEN @ - 1 ELSE @]

\* async_scope_remove_coroutine: the last one takes the free place.
RemoveCoroutine(u, s, c) ==
    LET v == u.s[s].members
        i == CHOOSE j \in DOMAIN v : v[j] = c
        isActive == ~u.c[c].zombie /\ u.s[s].active > 0
    IN  [u EXCEPT !.s[s].members = [j \in 1..(Len(v) - 1) |-> IF j = i THEN v[Len(v)] ELSE v[j]],
                  !.s[s].active = IF isActive THEN @ - 1 ELSE @,
                  !.s[s].zombies = IF ~isActive /\ @ > 0 THEN @ - 1 ELSE @]

\* zend_async_scope_remove_child
RemoveChild(u, p, s) ==
    LET v == u.s[p].children
        places == {j \in DOMAIN v : v[j] = s}
    IN  IF places = {} THEN u
        ELSE LET i == CHOOSE j \in places : TRUE
             IN  [u EXCEPT !.s[p].children =
                     [j \in 1..(Len(v) - 1) |-> IF j = i THEN v[Len(v)] ELSE v[j]]]

-----------------------------------------------------------------------------
(* Is a scope complete, done, disposable?                                  *)

\* scope_can_be_disposed(scope, with_zombies, can_be_disposed)
RECURSIVE CanBeDisposed(_, _, _, _)
CanBeDisposed(u, s, withZombies, disposable) ==
    LET r == u.s[s]
    IN  \/ ~disposable /\ (r.closed \/ r.cancelled)
        \/ /\ r.active = 0
           /\ withZombies => r.zombies = 0
           /\ disposable => r.cancelled \/ ~r.object
           /\ \A i \in DOMAIN r.children :
                 CanBeDisposed(u, r.children[i], withZombies, disposable)

\* ZEND_ASYNC_SCOPE_IS_COMPLETED, isFinished()
IsCompleted(u, s) == CanBeDisposed(u, s, FALSE, FALSE)

\* ZEND_ASYNC_SCOPE_IS_COMPLETELY_DONE
IsCompletelyDone(u, s) == CanBeDisposed(u, s, TRUE, FALSE)

\* The scope and everything below it, by the vectors of children.
RECURSIVE Below(_, _)
Below(u, s) ==
    {s} \cup UNION {Below(u, k) : k \in Range(u.s[s].children)}

\* async_scope_contains_coroutine
RECURSIVE ContainsCoroutine(_, _, _)
ContainsCoroutine(u, s, c) ==
    \/ c \in Range(u.s[s].members)
    \/ \E i \in DOMAIN u.s[s].children : ContainsCoroutine(u, u.s[s].children[i], c)

-----------------------------------------------------------------------------
(* Listeners: the coroutines in awaitCompletion() and                      *)
(* awaitAfterCancellation().                                               *)

\* ZEND_ASYNC_RESUME and ZEND_ASYNC_RESUME_WITH_ERROR: the coroutine leaves the
\* callbacks and is queued; an error replaces a result.
Resume(u, s, c, how) ==
    [u EXCEPT !.s[s].waiters = SelectSeq(@, LAMBDA w : w # c),
              !.c[c].woken = IF how = "error" \/ @ = "no" THEN how ELSE @]

\* zend_async_waker_callback_resolve, and callback_resolve_when_zombie_completed
\* without and with an error handler; one that throws, or cannot be called,
\* resumes with an error as if there were none.
NotifyOne(u, s, c, error) ==
    LET kind == u.c[c].await
        told == IF error THEN [u EXCEPT !.s[s].handled = TRUE] ELSE u
    IN  IF error /\ kind # "afterHandler" THEN Resume(told, s, c, "error")
        ELSE IF kind = "completion" \/ IsCompletelyDone(told, s) THEN Resume(told, s, c, "ok")
        ELSE told

\* ZEND_ASYNC_CALLBACKS_NOTIFY
Notify(u, s, error) ==
    FoldLeft(LAMBDA v, c : NotifyOne(v, s, c, error), u, u.s[s].waiters)

\* Mutant: only the scope itself is told, not the ones above.
CheckCompletionHere(u, s, withZombies) ==
    IF s = NoScope \/ ~CanBeDisposed(u, s, withZombies, FALSE) THEN u
    ELSE Notify(u, s, FALSE)

\* Mutant: every scope above is told, complete or not.
RECURSIVE CheckCompletionAlways(_, _, _)
CheckCompletionAlways(u, s, withZombies) ==
    IF s = NoScope THEN u
    ELSE LET v == Notify(u, s, FALSE) IN CheckCompletionAlways(v, v.s[s].parent, withZombies)

\* scope_check_completion_and_notify: up the tree while scopes are complete.
RECURSIVE CheckCompletion(_, _, _)
CheckCompletion(u, s, withZombies) ==
    IF s = NoScope \/ ~CanBeDisposed(u, s, withZombies, FALSE) THEN u
    ELSE LET v == Notify(u, s, FALSE) IN CheckCompletion(v, v.s[s].parent, withZombies)

\* async_scope_mark_coroutine_zombie
MarkZombie(u, c) ==
    LET s == u.c[c].in
    IN  IF u.c[c].zombie THEN u
        ELSE CheckCompletion([u EXCEPT !.c[c].zombie = TRUE,
                                       !.s[s].zombies = IF u.s[s].active > 0 THEN @ + 1 ELSE @,
                                       !.s[s].active = IF @ > 0 THEN @ - 1 ELSE @],
                             s, FALSE)

-----------------------------------------------------------------------------
(* Finally handlers and disposal.                                          *)

\* async_call_finally_handlers: the scope is held until they have run.
CallFinally(u, s) ==
    LET f == FinallyScope(s)
        born == NewScope([u EXCEPT !.s[s].finally = "running", !.s[s].refs = @ + 1],
                         f, s, FALSE, u.s[s].safely)
    IN  AddCoroutine(born, f, FinallyCoroutine(s))

\* async_scope_call_finally_handlers: the handlers are called once.
ScopeCallFinally(u, s) == IF u.s[s].finally = "held" THEN CallFinally(u, s) ELSE u

Freed == [Blank EXCEPT !.is = "freed"]

\* A scope that was disposed of while its timer was pending is used once more.
UsedAgain(u, s) ==
    [u EXCEPT !.again = @ \/ (s \in u.given /\ s \in UserScopes /\ u.timer[s] \in {"on", "fired"})]

\* scope_dispose, which disposes of the children first, by index.
RECURSIVE ScopeDispose(_, _), DisposeOrphans(_, _, _)
DisposeOrphans(u, s, i) ==
    IF i > Len(u.s[s].children) THEN u
    ELSE LET k == u.s[s].children[i]
         IN  DisposeOrphans(ScopeDispose([u EXCEPT !.s[k].parent = NoScope], k), s, i + 1)
ScopeDispose(u, s) ==
    IF u.s[s].disposing THEN u
    ELSE IF u.s[s].refs > 1
    THEN LET v == Notify(UsedAgain([u EXCEPT !.s[s].refs = @ - 1], s), s, FALSE)
         IN  [v EXCEPT !.s[s].waiters = <<>>, !.given = @ \cup {s}]
    ELSE LET alone == DisposeOrphans([UsedAgain(u, s) EXCEPT !.s[s].refs = 1,
                                                            !.s[s].disposing = TRUE], s, 1)
             told == Notify(alone, s, FALSE)
             quiet == [told EXCEPT !.s[s].waiters = <<>>]
             done == [quiet EXCEPT !.s[s].disposing = FALSE, !.s[s].refs = @ - 1]
             p == u.s[s].parent
         IN  IF quiet.s[s].finally = "held"
             THEN [ScopeCallFinally(quiet, s) EXCEPT !.s[s].disposing = FALSE]
             ELSE IF done.s[s].refs > 0 THEN done
             ELSE [(IF p = NoScope THEN done ELSE RemoveChild(done, p, s)) EXCEPT !.s[s] = Freed]

\* The loop of scope_try_to_dispose: a child that goes takes itself out of the
\* vector, and the index moves on.
RECURSIVE DisposeChildren(_, _, _)
DisposeChildren(u, s, i) ==
    IF i > Len(u.s[s].children) THEN u
    ELSE DisposeChildren(ScopeDispose(u, u.s[s].children[i]), s, i + 1)

\* scope_try_to_dispose returns FALSE
CannotDispose(u, s) == ~u.s[s].disposing /\ ~CanBeDisposed(u, s, TRUE, TRUE)

TryToDispose(u, s) ==
    IF u.s[s].disposing \/ CannotDispose(u, s) THEN u
    ELSE LET bare == DisposeChildren([u EXCEPT !.s[s].disposing = TRUE], s, 1)
         IN  ScopeDispose([bare EXCEPT !.s[s].disposing = FALSE], s)

\* ZEND_ASYNC_EVENT_RELEASE
EventRelease(u, s) ==
    IF u.s[s].refs > 1 THEN [u EXCEPT !.s[s].refs = @ - 1] ELSE ScopeDispose(u, s)

\* ZEND_ASYNC_SCOPE_RELEASE drops a reference and tries to dispose.
ScopeRelease(u, s) ==
    TryToDispose([u EXCEPT !.s[s].refs = IF @ > 1 THEN @ - 1 ELSE @], s)

-----------------------------------------------------------------------------
(* Cancellation and errors.                                                *)

\* async_coroutine_cancel as seen from the scope (Scheduler has all of it).  The
\* coroutine that runs is only marked, and protect() puts the cancellation off.
CancelCoroutine(u, c, safely) ==
    LET marked == [u EXCEPT !.c[c].cancelled = TRUE]
    IN  IF u.c[c].is = "finished" THEN u
        ELSE IF u.c[c].is = "queued" \/ c = u.by THEN marked
        ELSE IF u.c[c].guard # "off" THEN [u EXCEPT !.c[c].guard = "deferred"]
        ELSE IF safely THEN MarkZombie(marked, c)
        ELSE IF u.c[c].await = "no" THEN marked
        ELSE Resume(marked, u.c[c].on, c, "error")

CancelMembers(u, s, safely) ==
    FoldLeft(LAMBDA v, c : CancelCoroutine(v, c, safely), u, u.s[s].members)

\* try_to_handle_exception, in a coroutine; works: the handlers that do not throw.
Handles(u, s, from, works) ==
    /\ s \in works
    /\ \/ from # NoScope /\ "child" \in u.s[s].handlers
       \/ "own" \in u.s[s].handlers

\* Mutant: a cancelled scope leaves its child scopes alone.
CancelNoChild(u, s, safely, i) == u

\* scope_catch_or_cancel in cancel mode; the children by index.
RECURSIVE ScopeCancel(_, _, _), CancelChildren(_, _, _, _)
CancelChildren(u, s, safely, i) ==
    IF i > Len(u.s[s].children) THEN u
    ELSE CancelChildren(ScopeCancel(u, u.s[s].children[i], safely), s, safely, i + 1)
ScopeCancel(u, s, safely) ==
    IF u.s[s].closed THEN u
    ELSE IF IsCompletelyDone(u, s)
    THEN ScopeCallFinally([u EXCEPT !.s[s].closed = TRUE], s)
    ELSE LET below == CancelChildren([u EXCEPT !.s[s].cancelled = TRUE], s, safely, 1)
         IN  Notify(CancelMembers(below, s, safely), s, TRUE)

\* scope_catch_or_cancel in catch mode: handled here, or the scope is cancelled
\* and, unless a listener took the error, the parent is next.
RECURSIVE ScopeCatch(_, _, _, _, _)
ScopeCatch(u, s, from, safely, works) ==
    IF Handles(u, s, from, works) THEN u
    ELSE LET below == CancelChildren([u EXCEPT !.s[s].cancelled = TRUE], s, safely, 1)
             told == Notify(CancelMembers(below, s, safely), s, TRUE)
             p == told.s[s].parent
         IN  IF told.s[s].handled \/ p = NoScope THEN told
             ELSE ScopeCatch(told, p, s, safely, works)

-----------------------------------------------------------------------------
(* The life of a coroutine in its scope.                                   *)

Idle == [is |-> "unborn", in |-> NoScope, zombie |-> FALSE, cancelled |-> FALSE,
         guard |-> "off", await |-> "no", on |-> NoScope, woken |-> "no", busy |-> FALSE]

Init ==
    /\ \E x \in Settings :
          /\ t = [NewScope([s |-> [s \in Scopes |-> Blank],
                            c |-> [c \in Coroutines |-> Idle],
                            timer |-> [s \in UserScopes |-> "off"], by |-> Outside,
                            given |-> {}, again |-> FALSE],
                           1, NoScope, TRUE, x.safely)
                  EXCEPT !.s[1].handlers = x.handlers]
          /\ calls = [left |-> x.budget, of |-> x.calls, spawns |-> x.spawns]

\* One of the bounded calls.
Called(name) == /\ name \in calls.of /\ calls.left > 0
                /\ calls' = [calls EXCEPT !.left = @ - 1]

Alive(s) == t.s[s].is = "alive"

\* Code that can name the scope: it has the object, or it runs in the scope.
CanName(s) == Alive(s) /\ (t.s[s].object \/ \E c \in Range(t.s[s].members) : t.c[c].is = "started")

NextUnborn(f, n) == f[n].is = "unborn" /\ \A m \in 1..(n - 1) : f[m].is # "unborn"

\* Scope::inherit()
Inherit(p, s) ==
    /\ Called("inherit") /\ CanName(p) /\ NextUnborn(t.s, s)
    /\ t' = NewScope(UsedAgain(t, p), s, p, TRUE, t.s[p].safely)

\* asNotSafely() and allowZombies()
SetDisposeSafely(s) ==
    /\ Called("safely") /\ Alive(s) /\ t.s[s].object
    /\ t' = [t EXCEPT !.s[s].safely = ~@]

\* spawn() refuses a closed scope, not a cancelled one.
Spawn(s, c) ==
    /\ CanName(s) /\ ~t.s[s].closed /\ NextUnborn(t.c, c) /\ c <= calls.spawns
    /\ t' = AddCoroutine(UsedAgain(t, s), s, c)
    /\ UNCHANGED calls

Start(c) ==
    /\ t.c[c].is = "queued" /\ ~t.c[c].cancelled
    /\ t' = [t EXCEPT !.c[c].is = "started"]
    /\ UNCHANGED calls

\* protect(): a cancellation that comes meanwhile is applied at its end.
Protect(c) ==
    /\ Called("protect") /\ t.c[c].is = "started" /\ t.c[c].await = "no" /\ t.c[c].guard = "off"
    /\ t' = [t EXCEPT !.c[c].guard = "on"]

ProtectEnds(c) ==
    /\ t.c[c].guard # "off" /\ t.c[c].await = "no"
    /\ t' = [t EXCEPT !.c[c].guard = "off", !.c[c].cancelled = @ \/ t.c[c].guard = "deferred"]
    /\ UNCHANGED calls

\* async_scope_notify_coroutine_finished
NotifyFinished(u, c) ==
    LET s == u.c[c].in
        v == CheckCompletion(RemoveCoroutine(u, s, c), s, TRUE)
    IN  TryToDispose(v, s)

\* async_coroutine_finalize: finally handlers, the scope's chance to catch an
\* error nobody awaited, and the scope is told.  A coroutine that was cancelled
\* before it started ends without having run.
CoroutineEnds(c, error, finally, works) ==
    LET s == t.c[c].in
    IN  /\ t.c[c].is = "started" \/ (t.c[c].is = "queued" /\ t.c[c].cancelled /\ ~error)
        /\ t.c[c].await = "no" /\ t.c[c].guard = "off"
        /\ finally => "finally" \in calls.of /\ t.s[FinallyScope(s)].is = "unborn"
                                          /\ t.s[s].finally = "none"
        /\ \E u \in {[t EXCEPT !.c[c].is = "finished"]} :
           \E v \in {IF finally THEN CallFinally(u, s) ELSE u} :
           \E w \in {IF error THEN ScopeCatch(v, s, NoScope, t.s[s].safely, works) ELSE v} :
               t' = [NotifyFinished(w, c) EXCEPT !.c[c] = [Idle EXCEPT !.is = "finished"]]
        /\ UNCHANGED calls

\* finally_handlers_iterator_dtor, then the handlers' own coroutine ends.  What
\* the handlers throw goes to the scope; it has no exception handler here, as
\* a handler would be run by yet another coroutine.
FinallyEnds(s, error) ==
    LET c == FinallyCoroutine(s)
    IN  /\ t.c[c].is = "started" \/ (t.c[c].is = "queued" /\ t.c[c].cancelled /\ ~error)
        /\ error => \A x \in UserScopes : t.s[x].handlers = {}
        /\ \E u \in {[t EXCEPT !.c[c].is = "finished"]} :
           \E v \in {IF error THEN ScopeCatch(u, s, NoScope, t.s[s].safely, {}) ELSE u} :
           \E w \in {ScopeRelease([v EXCEPT !.s[s].finally = "done"], s)} :
               t' = [NotifyFinished(w, c) EXCEPT !.c[c] = [Idle EXCEPT !.is = "finished"]]
        /\ UNCHANGED calls

-----------------------------------------------------------------------------
(* Waiting for a scope.                                                    *)

\* History: busy tells that something in the scope, or below, was still to end.
AwaitOn(c, s, kind) ==
    t' = [t EXCEPT !.s[s].waiters = Append(@, c),
                   !.c[c] = [@ EXCEPT !.await = kind, !.on = s, !.woken = "no",
                                      !.busy = \E k \in Below(t, s) : t.s[k].members # <<>>]]

\* awaitCompletion() that does not return or throw at once.
AwaitCompletion(c, s) ==
    /\ Called("await")
    /\ t.c[c].is = "started" /\ t.c[c].await = "no"
    /\ Alive(s) /\ t.s[s].object /\ ~t.s[s].closed /\ ~t.s[s].cancelled
    /\ ~ContainsCoroutine(t, s, c)
    /\ t.s[s].active > 0 \/ t.s[s].children # <<>>
    /\ AwaitOn(c, s, "completion")

\* awaitAfterCancellation(), likewise, without and with an error handler.
AwaitAfterCancellation(c, s, kind) ==
    /\ Called("await") /\ kind \in {"after", "afterHandler"}
    /\ t.c[c].is = "started" /\ t.c[c].await = "no"
    /\ Alive(s) /\ t.s[s].object /\ ~t.s[s].closed /\ t.s[s].cancelled
    /\ ~ContainsCoroutine(t, s, c)
    /\ t.s[s].members # <<>> \/ t.s[s].children # <<>>
    /\ AwaitOn(c, s, kind)

\* The cancellation token of the wait fires.
TokenFires(c) ==
    /\ Called("token") /\ t.c[c].await # "no" /\ t.c[c].woken = "no"
    /\ t' = Resume(t, t.c[c].on, c, "error")

\* The coroutine runs again; zend_async_waker_clean.
AwaitReturns(c) ==
    /\ t.c[c].await # "no" /\ t.c[c].woken # "no"
    /\ t' = [t EXCEPT !.c[c] = [@ EXCEPT !.await = "no", !.on = NoScope, !.woken = "no", !.busy = FALSE]]
    /\ UNCHANGED calls

-----------------------------------------------------------------------------
(* Ending a scope.                                                         *)

\* The call is made by a coroutine that runs, or outside the tree.
CanCall(by) == by # Outside => t.c[by].is = "started" /\ t.c[by].await = "no"

\* cancel() and dispose() with the scope's own flag, disposeSafely() with TRUE.
Cancel(s, safely, by) ==
    /\ Called("cancel") /\ Alive(s) /\ t.s[s].object /\ CanCall(by)
    /\ safely \in {t.s[s].safely, TRUE}
    /\ t' = [ScopeCancel([t EXCEPT !.by = by], s, safely) EXCEPT !.by = Outside]

\* scope_destroy and scope_object_free: the last reference to the object goes.
\* A coroutine that waits for the scope holds one.
Destroy(s, by) ==
    /\ Called("destroy") /\ Alive(s) /\ t.s[s].object /\ CanCall(by)
    /\ \A c \in Coroutines : t.c[c].on # s
    /\ \E u \in {[t EXCEPT !.s[s].object = FALSE, !.by = by]} :
          t' = [(IF CannotDispose(u, s) THEN ScopeCancel(u, s, u.s[s].safely)
                 ELSE TryToDispose(u, s)) EXCEPT !.by = Outside]

DisposeAfterTimeout(s) ==
    /\ Called("timeout") /\ Alive(s) /\ t.s[s].object /\ ~t.s[s].closed
    /\ t.s[s].members # <<>> \/ t.s[s].children # <<>>
    /\ t.timer[s] = "off"
    /\ t' = [t EXCEPT !.timer[s] = "on", !.s[s].refs = @ + 1]

\* scope_timeout_callback: the reference passes to a coroutine of the main scope.
TimerFires(s) ==
    /\ Alive(s) /\ t.timer[s] = "on"
    /\ t' = [t EXCEPT !.timer[s] = "fired"]
    /\ UNCHANGED calls

\* scope_timeout_coroutine_entry
TimeoutRuns(s) ==
    /\ Alive(s) /\ t.timer[s] = "fired"
    /\ \E u \in {ScopeCancel([t EXCEPT !.timer[s] = "done"], s, t.s[s].safely)} :
          t' = EventRelease(u, s)
    /\ UNCHANGED calls

\* scope_timeout_callback_dispose: the timer goes without having fired.
TimerDropped(s) ==
    /\ Called("timeout") /\ Alive(s) /\ t.timer[s] = "on"
    /\ t' = EventRelease([t EXCEPT !.timer[s] = "done"], s)

\* finally(), once per scope.
AddFinally(s) ==
    /\ Called("finally") /\ Alive(s) /\ t.s[s].object
    /\ t.s[s].finally = "none" /\ t.s[FinallyScope(s)].is = "unborn"
    /\ t' = [t EXCEPT !.s[s].finally = "held"]

-----------------------------------------------------------------------------
(* Contexts: the value of a key is the scope whose context it is in.       *)

\* async_context_find_local
FindLocal(u, s, k) == k \in u.s[s].context

\* async_context_find: a scope without a context, or without the key, is passed.
RECURSIVE Find(_, _, _)
Find(u, s, k) ==
    IF s = NoScope THEN NoScope
    ELSE IF FindLocal(u, s, k) THEN s
    ELSE Find(u, u.s[s].parent, k)

\* Context::set() without replace refuses a key that is there.
ContextSet(s, k) ==
    /\ Called("context") /\ CanName(s) /\ ~FindLocal(t, s, k)
    /\ t' = [t EXCEPT !.s[s].context = @ \cup {k}]

ContextUnset(s, k) ==
    /\ Called("context") /\ CanName(s)
    /\ t' = [t EXCEPT !.s[s].context = @ \ {k}]

-----------------------------------------------------------------------------
\* What the scheduler does by itself.
Progress ==
    \/ \E c \in Coroutines : Start(c)
    \/ \E c \in UserCoroutines :
          \/ AwaitReturns(c) \/ ProtectEnds(c)
          \/ \E error, finally \in BOOLEAN, works \in {{}, UserScopes} :
                CoroutineEnds(c, error, finally, works)
    \/ \E s \in UserScopes, error \in BOOLEAN : FinallyEnds(s, error)

Next ==
    \/ Progress
    \/ \E s \in UserScopes :
          \/ \E p \in UserScopes : Inherit(p, s)
          \/ \E c \in UserCoroutines :
                \/ Spawn(s, c)
                \/ AwaitCompletion(c, s)
                \/ \E kind \in {"after", "afterHandler"} : AwaitAfterCancellation(c, s, kind)
          \/ \E by \in UserCoroutines \cup {Outside} :
                Destroy(s, by) \/ \E safely \in BOOLEAN : Cancel(s, safely, by)
          \/ SetDisposeSafely(s) \/ AddFinally(s)
          \/ DisposeAfterTimeout(s) \/ TimerFires(s) \/ TimeoutRuns(s) \/ TimerDropped(s)
          \/ \E k \in Keys : ContextSet(s, k) \/ ContextUnset(s, k)
    \/ \E c \in UserCoroutines : TokenFires(c) \/ Protect(c)

Spec == Init /\ [][Next]_vars

-----------------------------------------------------------------------------
(* Properties.                                                             *)

AliveScopes == {s \in Scopes : t.s[s].is = "alive"}

\* A context finds a key in the nearest scope above that has it, past scopes
\* that have no context, and finds nothing only if no scope above has the key.
FindsNearest ==
    \A s \in AliveScopes, k \in Keys :
        LET found == Find(t, s, k)
            holders == {a \in AliveScopes : /\ FindLocal(t, a, k) /\ s \in Below(t, a)
                                            /\ t.s[a].finally = "none"}
        IN  /\ found = NoScope => holders = {}
            /\ found # NoScope => /\ k \in t.s[found].context /\ s \in Below(t, found)
                                  /\ \A a \in holders : found \in Below(t, a)

\* The counters of a scope agree with its vector of coroutines, whatever became
\* a zombie and in whatever order they ended; parents and children name each
\* other; and nothing refers to a scope that was freed: no coroutine is in it,
\* no scope is above or below it, no timer and no finally handlers hold it.  Up
\* these links a context finds the nearest scope that has a key.
\* Two cases of the code are excepted.  scope_dispose() leaves children it has
\* freed in the vector of a scope that lives on for its finally handlers.  And a
\* scope that was disposed of while the timer of disposeAfterTimeout() held it
\* has given up its own reference: the second time it is freed under the timer.
TreeIsSound ==
    ~t.again =>
    /\ FindsNearest
    /\ \A s \in AliveScopes :
         LET r == t.s[s]
         IN  /\ IsInjective(r.members) /\ IsInjective(r.children)
             /\ Range(r.members) = {c \in Coroutines : t.c[c].in = s}
             /\ r.active = Cardinality({c \in Range(r.members) : ~t.c[c].zombie})
             /\ r.zombies = Cardinality({c \in Range(r.members) : t.c[c].zombie})
             /\ \A k \in AliveScopes : t.s[k].parent = s => k \in Range(r.children)
             /\ r.finally = "none" =>
                   \A k \in Range(r.children) : t.s[k].is = "alive" /\ t.s[k].parent = s
             /\ r.parent # NoScope => t.s[r.parent].is = "alive"
    /\ \A c \in Coroutines : t.c[c].in # NoScope => t.s[t.c[c].in].is = "alive"
    /\ \A s \in UserScopes : t.s[s].is = "freed" =>
          t.timer[s] \notin {"on", "fired"} /\ t.s[FinallyScope(s)].is # "alive"

\* awaitCompletion() returns without an error only when no coroutine is active
\* in the scope, nor in a scope below it that was not cancelled or closed: no
\* other step of the tree wakes the waiter.
CompletionIsTrue ==
    [][\A c \in UserCoroutines :
         t.c[c].await = "completion" /\ t.c[c].woken = "no" /\ t'.c[c].woken = "ok" =>
            \A k \in Below(t, t.c[c].on) \cap UserScopes :
                t'.s[k].active = 0 \/ t'.s[k].cancelled \/ t'.s[k].closed]_vars

\* The scopes a cancellation of s goes through.
RECURSIVE Open(_, _)
Open(u, s) ==
    {s} \cup UNION {Open(u, k) : k \in {j \in Range(u.s[s].children) :
                                           ~u.s[j].closed /\ ~u.s[j].cancelled}}

\* When a scope becomes cancelled, by a call, a timer, the loss of its object or
\* an error from below, so does every coroutine in it and in the scopes below
\* that were neither closed nor cancelled before; one inside protect() at the
\* latest when that ends.
CancelReachesAll ==
    [][\A s \in UserScopes :
         t'.s[s].cancelled /\ ~t.s[s].cancelled =>
            \A k \in Open(t, s) : \A c \in Range(t.s[k].members) :
                t'.c[c].is = "finished" \/ t'.c[c].cancelled \/ t'.c[c].guard = "deferred"]_vars

\* Two coroutines that wait for each other's scopes.
MutualWait ==
    \E c, d \in UserCoroutines :
        /\ t.c[c].await # "no" /\ t.c[d].await # "no"
        /\ ContainsCoroutine(t, t.c[c].on, d) /\ ContainsCoroutine(t, t.c[d].on, c)

\* Nothing is left that the scheduler would run.
Quiet ==
    \A c \in Coroutines :
        \/ t.c[c].is \in {"unborn", "finished"}
        \/ t.c[c].await # "no" /\ t.c[c].woken = "no"

\* Who waits for a scope that has coroutines is woken without the help of a
\* cancellation token: once everything that can run has run, nobody waits any
\* more.  The last coroutine that ends, becomes a zombie or is cancelled tells
\* every scope above, unless two coroutines wait for each other's scopes.
NobodyIsForgotten ==
    Quiet => \/ \A c \in UserCoroutines : t.c[c].await = "no" \/ ~t.c[c].busy
             \/ MutualWait \/ t.again
=============================================================================
