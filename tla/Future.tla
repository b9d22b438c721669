------------------------------- MODULE Future -------------------------------
(***************************************************************************)
(* Future and its chains (src/future.c).  map(), catch() and finally()     *)
(* give a child of a future; when the future settles, an iterator walks    *)
(* the tree below it, in a coroutine of the scope that built the chain,    *)
(* and settles every child with what its mapper makes of the parent.  A    *)
(* child of a settled future gets a coroutine of its own.  The roots of    *)
(* the trees are the futures of module SharedState: those of pool tasks,   *)
(* and those of FutureState objects, completed here or by another thread.  *)
(* A mapper is user code: it may suspend, and may throw.                   *)
(***************************************************************************)
EXTENDS SharedState, Sequences, Functions

CONSTANTS
    NumDerived,     \* bound on the futures that map(), catch() and finally() give
    NumStrands,     \* bound on the coroutines that run mappers at a time
    Plans           \* what the user's code does, and how often

Derived == 1..NumDerived
Nodes == Shared \cup Derived
Strands == 1..NumStrands
Nobody == 0

ASSUME FutureAssumption ==
    /\ NumDerived \in Nat /\ NumStrands \in Nat
    /\ \A p \in Plans : p.roots \subseteq Shared /\ p.derive \in 0..NumDerived

VARIABLES
    child,      \* the derived futures: status, parent, kind of mapper, calls of it
    tree,       \* of every future: child_futures, exception flags, its awaiter
    job,        \* of every future: the iterator that its settlement started
    strand,     \* the coroutines that run mappers
    running,    \* the coroutine that runs now
    scope,      \* the scope the chains are built in: open or cancelled
    lost,       \* history: futures queued on an iterator that had finished
    plan        \* what remains of the plan

futureVars == <<child, tree, job, strand, running, scope, lost, plan>>
vars == <<sharedVars, futureVars>>

Kinds == {"map", "catch", "finally"}
NoStrand == [pc |-> "none", job |-> None, of |-> None, parent |-> None]
InLoop(j) == [NoStrand EXCEPT !.pc = "loop", !.job = j]
NoJob == [state |-> "none", queue |-> <<>>, at |-> 1, pos |-> 1, micro |-> 0, cut |-> FALSE]

\* Without tasks there is no worker to look at.
HasTasks == plan.roots \cap Tasks # {}

FutureInit ==
    /\ SharedInit
    /\ child = [c \in Derived |-> [status |-> "none", parent |-> None, kind |-> "map", calls |-> 0]]
    /\ tree = [n \in Nodes |-> [children |-> <<>>, handled |-> FALSE, caught |-> FALSE,
                                awaiter |-> "no"]]
    /\ job = [n \in Nodes |-> NoJob]
    /\ strand = [s \in Strands |-> NoStrand]
    /\ running = Nobody
    /\ scope = "open"
    /\ lost = {}
    /\ plan \in Plans
    /\ ~HasTasks => mode = "sync"

Status(n) == IF n \in Shared THEN consumer[n].future ELSE child[n].status
Failed(n) == Status(n) \in {"error", "cancelled"}
Settled(n) == Failed(n) \/ Status(n) = "result"

\* The user's code runs when no mapper does, the microtasks are done and the thread
\* is not in the middle of freeing a future.
Microtasks == {n \in Nodes : job[n].micro > 0}
UserRuns == running = Nobody /\ Microtasks = {} /\ caller = Idle /\ scope = "open"

FreeStrand == CHOOSE s \in Strands : /\ strand[s].pc = "none"
                                     /\ \A r \in Strands : strand[r].pc = "none" => s <= r
StrandLeft == \E s \in Strands : strand[s].pc = "none"

-----------------------------------------------------------------------------
(* The walk of the tree: future_iterator_t.                                *)

\* future_iterator_valid and _next_parent: the next place with a child to settle.
RECURSIVE Place(_)
Place(j) ==
    IF j.at > Len(j.queue) THEN j
    ELSE IF j.pos <= Len(tree[j.queue[j.at]].children) THEN j
    ELSE Place([j EXCEPT !.at = @ + 1, !.pos = 1])

Exhausted(j) == j.at > Len(j.queue)

\* future_iterator_move_forward, before the handler is called
MoveForward(j) == [j EXCEPT !.pos = @ + 1]

-----------------------------------------------------------------------------
(* Settling a future: zend_future_resolve and async_future_callback_handler.*)

\* Mutant: the chain of a future settled by an iterator is not queued on it.
QueueNot(j, n) == j

Queue(j, n) == [j EXCEPT !.queue = Append(@, n)]

\* Mutant: every error counts as handled once the future is settled.
ToldHandled(n, error, queued) ==
    [tree EXCEPT ![n].handled = @ \/ queued \/ error, ![n].caught = @ \/ queued \/ error,
                 ![n].awaiter = IF @ = "waiting" THEN "told" ELSE @]

\* The flags after the awaiters and the chain were notified; a chain that
\* another iterator takes over counts as handled, one with its own iterator does not.
Told(n, error, queued) ==
    LET handled == tree[n].handled \/ queued \/ (error /\ tree[n].awaiter = "waiting")
    IN  [tree EXCEPT ![n].handled = handled, ![n].caught = @ \/ handled,
                     ![n].awaiter = IF @ = "waiting" THEN "told" ELSE @]

\* n settles outside an iterator: with a chain, a new iterator and its coroutine.
StartsJob(n) ==
    IF tree[n].children = <<>> THEN UNCHANGED <<job, strand>>
    ELSE /\ job' = [job EXCEPT ![n] = [NoJob EXCEPT !.state = "on", !.queue = <<n>>]]
         /\ StrandLeft
         /\ strand' = [strand EXCEPT ![FreeStrand] = [NoStrand EXCEPT !.pc = "queued", !.job = n]]

SettleRoot(n, error) ==
    /\ tree' = Told(n, error, FALSE)
    /\ StartsJob(n)
    /\ UNCHANGED <<child, running, scope, lost>>

-----------------------------------------------------------------------------
(* A coroutine that runs mappers.                                          *)

\* An exception that nobody took cancels the scope: coroutines that have
\* not started are dropped, awaiters are cancelled.
CancelScope(strands) ==
    [s \in Strands |-> IF strands[s].pc = "queued" THEN NoStrand ELSE strands[s]]

Unwound(t) == [n \in Nodes |-> IF t[n].awaiter = "waiting" THEN [t[n] EXCEPT !.awaiter = "no"]
                               ELSE t[n]]

\* The rest of process_future_mapper, once it is known whether the child
\* fails; the strand goes on with its iterator or ends.
EndMapper(s, error) ==
    LET c == strand[s].of
        p == strand[s].parent
        j == strand[s].job
        open == child[c].status = "pending"
        chain == open /\ tree[c].children # <<>>
        told == IF open THEN Told(c, error, chain /\ j # None) ELSE tree
        escapes == error /\ ~told[c].handled
        flags == [told EXCEPT ![p].caught = @ \/ told[c].caught]
        ends == j = None \/ escapes
        after == [strand EXCEPT ![s] = IF ends THEN NoStrand ELSE InLoop(j)]
    IN  /\ child' = IF open THEN [child EXCEPT ![c].status = IF error THEN "error" ELSE "result"]
                    ELSE child
        /\ job' = IF j = None
                  THEN IF chain THEN [job EXCEPT ![c] = [NoJob EXCEPT !.state = "on", !.queue = <<c>>]]
                       ELSE job
                  ELSE [job EXCEPT ![j] =
                          LET q == IF chain THEN Queue(@, c) ELSE @
                          IN  IF escapes THEN [q EXCEPT !.state = "finished", !.cut = TRUE] ELSE q]
        /\ lost' = IF chain /\ j # None /\ job[j].state = "finished" THEN lost \cup {c} ELSE lost
        /\ LET starts == j = None /\ chain
           IN  strand' = IF escapes /\ scope = "open" THEN CancelScope(after)
                         ELSE IF starts THEN [after EXCEPT ![s] = [NoStrand EXCEPT !.pc = "queued",
                                                                                   !.job = c]]
                         ELSE after
        /\ tree' = IF escapes THEN Unwound(flags) ELSE flags
        /\ scope' = IF escapes THEN "cancelled" ELSE scope
        /\ running' = IF ends THEN Nobody ELSE s

\* process_future_mapper up to the call of the mapper.
Called(kind, p) == CASE kind = "map" -> ~Failed(p)
                     [] kind = "catch" -> Failed(p)
                     [] OTHER -> TRUE

BeginMapper(s, c, p) ==
    /\ Called(child[c].kind, p)
    /\ child' = [child EXCEPT ![c].calls = @ + 1]
    /\ tree' = IF child[c].kind = "catch"
               THEN [tree EXCEPT ![p].caught = TRUE, ![p].handled = TRUE] ELSE tree
    /\ strand' = [strand EXCEPT ![s] = [@ EXCEPT !.pc = "call", !.of = c, !.parent = p]]
    /\ running' = s
    /\ UNCHANGED <<scope, lost>>

\* iterator_microtask: one more coroutine for an iterator that is not finished.
Microtask(n) ==
    /\ running = Nobody /\ job[n].micro > 0
    /\ job' = [job EXCEPT ![n].micro = @ - 1]
    /\ IF job[n].state = "finished" \/ scope = "cancelled" THEN strand' = strand
       ELSE /\ StrandLeft
            /\ strand' = [strand EXCEPT ![FreeStrand] = [NoStrand EXCEPT !.pc = "queued", !.job = n]]
    /\ UNCHANGED <<sharedVars, child, tree, running, scope, lost, plan>>

Ready == running = Nobody /\ Microtasks = {} /\ caller = Idle

\* coroutine_entry and async_iterator_run, up to the loop; or
\* future_mapper_coroutine_entry, which is alone.
Start(s) ==
    /\ Ready /\ strand[s].pc = "queued"
    /\ running' = s
    /\ strand' = [strand EXCEPT ![s].pc = IF strand[s].job = None THEN "single" ELSE "loop"]
    /\ job' = IF strand[s].job = None THEN job ELSE [job EXCEPT ![strand[s].job].micro = @ + 1]
    /\ UNCHANGED <<sharedVars, child, tree, scope, lost, plan>>

\* The loop ends: another coroutine has finished the iteration, or nothing is left.
LoopEnds(s) ==
    /\ running = s /\ strand[s].pc = "loop"
    /\ LET j == strand[s].job
       IN  /\ job[j].state = "finished" \/ Exhausted(Place(job[j]))
           /\ job' = [job EXCEPT ![j] = [Place(@) EXCEPT !.state = "finished"]]
    /\ strand' = [strand EXCEPT ![s] = NoStrand]
    /\ running' = Nobody
    /\ UNCHANGED <<sharedVars, child, tree, scope, lost, plan>>

\* The next child, with its parent, is taken and the iterator moved on.
LoopTakes(s) ==
    /\ running = s /\ strand[s].pc = "loop"
    /\ LET j == strand[s].job
       IN  /\ job[j].state # "finished"
           /\ \E here \in {Place(job[j])} :
                 /\ ~Exhausted(here)
                 /\ LET p == here.queue[here.at]
                    IN  strand' = [strand EXCEPT ![s] = [@ EXCEPT !.pc = "single", !.parent = p,
                                                           !.of = tree[p].children[here.pos]]]
                 /\ job' = [job EXCEPT ![j] = MoveForward(here)]
    /\ UNCHANGED <<sharedVars, child, tree, running, scope, lost, plan>>

\* process_future_mapper: a settled child is passed by, a mapper that does
\* not apply is not called.
Process(s) ==
    /\ running = s /\ strand[s].pc = "single"
    /\ LET c == strand[s].of
           p == strand[s].parent
       IN  \/ /\ child[c].status # "pending"
              /\ strand' = [strand EXCEPT ![s] = IF strand[s].job = None THEN NoStrand
                                                 ELSE InLoop(strand[s].job)]
              /\ running' = IF strand[s].job = None THEN Nobody ELSE s
              /\ UNCHANGED <<child, tree, job, scope, lost>>
           \/ /\ child[c].status = "pending"
              /\ BeginMapper(s, c, p) /\ UNCHANGED job
           \/ /\ child[c].status = "pending" /\ ~Called(child[c].kind, p)
              /\ EndMapper(s, Failed(p))
    /\ UNCHANGED <<sharedVars, plan>>

\* The mapper returns, throws or suspends.  finally() passes the parent's outcome on.
Returns(s) ==
    /\ running = s /\ strand[s].pc = "call"
    /\ EndMapper(s, child[strand[s].of].kind = "finally" /\ Failed(strand[s].parent))
    /\ UNCHANGED <<sharedVars, plan>>

Throws(s) ==
    /\ running = s /\ strand[s].pc = "call"
    /\ EndMapper(s, TRUE)
    /\ UNCHANGED <<sharedVars, plan>>

Suspends(s) ==
    /\ running = s /\ strand[s].pc = "call" /\ plan.sleeps > 0
    /\ plan' = [plan EXCEPT !.sleeps = @ - 1]
    /\ strand' = [strand EXCEPT ![s].pc = "asleep"]
    /\ running' = Nobody
    /\ UNCHANGED <<sharedVars, child, tree, job, scope, lost>>

Wakes(s) ==
    /\ Ready /\ strand[s].pc = "asleep"
    /\ strand' = [strand EXCEPT ![s].pc = "call"]
    /\ running' = s
    /\ UNCHANGED <<sharedVars, child, tree, job, scope, lost, plan>>

-----------------------------------------------------------------------------
(* The user's code.                                                        *)

Spend(what) == plan[what] > 0 /\ plan' = [plan EXCEPT ![what] = @ - 1]

\* A future that somebody waits for is watched; only remote futures keep note of it.
Subscribe(n) == IF n \in Tasks THEN Watch(n) ELSE UNCHANGED sharedVars

\* async_future_create_mapper
Derive(n, kind) ==
    /\ UserRuns /\ Spend("derive")
    /\ Status(n) \notin {"none", "gone"}
    /\ LET c == CHOOSE c \in Derived : /\ child[c].status = "none"
                                       /\ \A d \in 1..(c - 1) : child[d].status # "none"
       IN  /\ child' = [child EXCEPT ![c].status = "pending", ![c].kind = kind,
                                       ![c].parent = n]
           /\ IF Settled(n)
              THEN /\ StrandLeft
                   /\ strand' = [strand EXCEPT ![FreeStrand] =
                                   [NoStrand EXCEPT !.pc = "queued", !.of = c, !.parent = n]]
                   /\ UNCHANGED <<tree, sharedVars>>
              ELSE /\ tree' = [tree EXCEPT ![n].children = Append(@, c)]
                   /\ strand' = strand
                   /\ Subscribe(n)
    /\ UNCHANGED <<job, running, scope, lost>>

\* await()
Await(n) ==
    /\ UserRuns /\ Spend("awaits")
    /\ tree[n].awaiter = "no" /\ Status(n) \notin {"none", "gone"}
    /\ IF Settled(n)
       THEN /\ tree' = [tree EXCEPT ![n].awaiter = "told", ![n].caught = @ \/ Failed(n)]
            /\ UNCHANGED sharedVars
       ELSE tree' = [tree EXCEPT ![n].awaiter = "waiting"] /\ Subscribe(n)
    /\ UNCHANGED <<child, job, strand, running, scope, lost>>

\* The waiting coroutine is cancelled, or its timeout expires.
AwaitCancelled(n) ==
    /\ UserRuns /\ tree[n].awaiter = "waiting"
    /\ tree' = [tree EXCEPT ![n].awaiter = "no"]
    /\ UNCHANGED <<sharedVars, child, job, strand, running, scope, lost, plan>>

\* cancel() of a derived future, and of a root
CancelDerived(c) ==
    /\ UserRuns /\ Spend("cancels") /\ child[c].status = "pending"
    /\ child' = [child EXCEPT ![c].status = "cancelled"]
    /\ tree' = Told(c, TRUE, FALSE)
    /\ StartsJob(c)
    /\ UNCHANGED <<sharedVars, running, scope, lost>>

CancelRoot(t) ==
    /\ UserRuns /\ Spend("cancels") /\ Cancel(t)
    /\ SettleRoot(t, TRUE)

ResolveRoot(t, v) == UserRuns /\ Resolve(t, v) /\ SettleRoot(t, v = "error") /\ UNCHANGED plan

\* The trigger's callback runs in the reactor.
DeliverRoot(t) ==
    /\ Ready /\ Deliver(t)
    /\ IF consumer[t].future = "pending" THEN SettleRoot(t, shared[t].value = "error")
       ELSE UNCHANGED <<child, tree, job, strand, running, scope, lost>>
    /\ UNCHANGED plan

\* The futures a coroutine that runs mappers holds: those of its iterator's
\* queue, and the parent of the child it was made for.
Held(s) == {strand[s].parent} \cup
           (IF strand[s].job = None THEN {} ELSE Range(job[strand[s].job].queue))

\* The last reference of a remote future goes.  The subscription of a chain
\* holds one until the future is settled and the iterator has taken one, and
\* so does a coroutine that waits.
DropRoot(t) ==
    /\ running = Nobody /\ Microtasks = {}
    /\ tree[t].awaiter # "waiting" /\ (tree[t].children # <<>> => Settled(t))
    /\ \A s \in Strands : t \notin Held(s)
    /\ Drop(t)
    /\ UNCHANGED futureVars

SubmitRoot(t) == UserRuns /\ t \in plan.roots /\ Submit(t) /\ UNCHANGED futureVars

HandOverRoot(t) ==
    /\ UserRuns /\ t \in plan.roots /\ Spend("handovers") /\ HandOver(t)
    /\ UNCHANGED <<child, tree, job, strand, running, scope, lost>>

IgnoreRoot(t) ==
    /\ UserRuns /\ Spend("ignores") /\ Ignore(t)
    /\ UNCHANGED <<child, tree, job, strand, running, scope, lost>>

DropStateRoot(t) ==
    /\ Ready /\ t \in plan.roots /\ DropState(t)
    /\ UNCHANGED futureVars

DrainRoot(t) == running = Nobody /\ Microtasks = {} /\ Drain(t) /\ UNCHANGED futureVars

UserStep ==
    \/ \E n \in plan.roots \cup Derived : \/ \E kind \in Kinds : Derive(n, kind)
                                          \/ Await(n) \/ AwaitCancelled(n)
    \/ \E c \in Derived : CancelDerived(c)
    \/ \E t \in plan.roots : CancelRoot(t) \/ DeliverRoot(t)
    \/ \E t \in Tasks : SubmitRoot(t) \/ IgnoreRoot(t) \/ DropRoot(t) \/ DrainRoot(t)
    \/ \E t \in States : \/ HandOverRoot(t) \/ DropStateRoot(t)
                         \/ \E v \in {"result", "error"} : t \in plan.roots /\ ResolveRoot(t, v)

MapperStep ==
    \/ \E n \in Nodes : Microtask(n)
    \/ \E s \in Strands : \/ Start(s) \/ LoopEnds(s) \/ LoopTakes(s) \/ Process(s)
                          \/ Returns(s) \/ Throws(s) \/ Suspends(s) \/ Wakes(s)

Next ==
    \/ UserStep \/ MapperStep
    \/ CallerStep /\ UNCHANGED futureVars
    \/ HasTasks /\ WorkerStep /\ UNCHANGED futureVars
    \/ ThreadStep /\ UNCHANGED futureVars

Spec == FutureInit /\ [][Next]_vars

-----------------------------------------------------------------------------
(* Properties.                                                             *)

\* A mapper is called at most once, however many coroutines walk the tree, and
\* only for a child whose parent is settled and ended the way the mapper is for.
MapperOnce ==
    /\ \A c \in Derived : child[c].calls <= 1
    /\ \A s \in Strands : strand[s].pc \in {"call", "asleep"} =>
          LET p == strand[s].parent
          IN  Settled(p) /\ Called(child[strand[s].of].kind, p)

Quiet == running = Nobody /\ Microtasks = {} /\ \A s \in Strands : strand[s].pc = "none"

\* Mappers are called at most once and for the right outcome, and when none is
\* left to run, every child of a settled future is settled:
\* unless an exception that nobody took ended the iterator and cancelled the
\* scope, or the parent was queued, by a mapper that had suspended, on an
\* iterator that another coroutine had finished meanwhile.
ChainsSettle ==
    /\ MapperOnce
    /\ Quiet /\ scope = "open" =>
        \A n \in Nodes \ lost : Status(n) = "gone" \/ Settled(n) =>
            \A i \in DOMAIN tree[n].children : child[tree[n].children[i]].status # "pending"

\* zend_future_dispose: the warning a failed future gives when it goes away.
\* remote_future_dispose gives none.
Warns(n) == n \notin Tasks /\ Failed(n) /\ ~tree[n].caught

\* A failed future that goes away without a warning was not silent: its error was thrown
\* at an awaiter, given to a catch(), or passed on to a child, which then
\* answers for it.  (Errors of remote futures are only seen by who asks.)
ErrorsAreSeen ==
    \A n \in Nodes \ (Tasks \cup lost) : Failed(n) /\ ~Warns(n) /\ scope = "open" =>
        \/ tree[n].awaiter = "told"
        \/ \E c \in Derived : /\ child[c].parent = n
                              /\ \/ child[c].kind = "catch" /\ child[c].calls = 1
                                 \/ child[c].status \in {"pending", "error", "cancelled"}
=============================================================================
