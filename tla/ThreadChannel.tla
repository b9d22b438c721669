------------------------- MODULE ThreadChannel -------------------------
(* thread_channel.c: Async\ThreadChannel, a bounded buffer shared by      *)
(* threads.                                                               *)
(*                                                                        *)
(* Each caller is a coroutine of some thread; callers interleave between  *)
(* the critical sections of the mutex, and every action here is one       *)
(* critical section, or one step that takes none.  A caller that has to   *)
(* wait registers a trigger (a uv_async handle), and another thread that  *)
(* fires it leaves it pending until the caller's own loop runs: the loop  *)
(* does not run before the caller is suspended.  Copying of values and    *)
(* reference counts are left out.                                         *)
EXTENDS Naturals, Sequences

CONSTANTS
    Callers,
    capacity,
    Ops,            \* the operations a caller uses: "send", "recv", and "wait",
                    \* a receive without a result, which only waits
    Tokens          \* the callers that pass a cancellation token

ASSUME ThreadChannelAssumption ==
    /\ capacity \in Nat \ {0}
    /\ Ops \in [Callers -> SUBSET {"send", "recv", "wait"}]
    /\ Tokens \subseteq Callers

VARIABLES
    buffer,             \* who sent the values
    closed,
    receiver_triggers,
    sender_triggers,
    pending,            \* triggers that were fired
    pc,                 \* where a caller is
    op,                 \* what it does
    token,              \* the callers whose token has fired
    exception,          \* the callers that were cancelled
    seen                \* what a caller read when it woke up: closed, full

vars == <<buffer, closed, receiver_triggers, sender_triggers, pending, pc, op, token, exception, seen>>

channel == <<buffer, closed, receiver_triggers, sender_triggers, pending>>
local == <<op, token, exception, seen>>

Locations == {"idle", "retry", "register", "abandon", "parked", "ready", "woken", "recheck"}

Unseen == [closed |-> FALSE, full |-> FALSE]

Goto(p, l) == pc' = [pc EXCEPT ![p] = l]

\* The call ends, and what it kept on its stack is gone.
Return(p) ==
    /\ Goto(p, "idle")
    /\ op' = [op EXCEPT ![p] = "wait"]
    /\ token' = token \ {p}
    /\ exception' = exception \ {p}
    /\ seen' = [seen EXCEPT ![p] = Unseen]

\* fire_all_triggers: the triggers that are pending afterwards.
Fired(triggers) == pending \cup triggers

-----------------------------------------------------------------------
(* A call, up to the point where it returns or registers a trigger.       *)

\* A call starts with a new trigger; a token that has fired already makes the
\* call throw before it gets here.
call(p, o) ==
    /\ pc[p] = "idle"
    /\ o \in Ops[p]
    /\ Goto(p, "retry")
    /\ op' = [op EXCEPT ![p] = o]
    /\ UNCHANGED channel /\ UNCHANGED <<token, exception, seen>>

\* Mutant: whether there is something to receive is tested before the push.
send_put_quiet(p) ==
    /\ pc[p] = "retry" /\ op[p] = "send"
    /\ ~closed
    /\ Len(buffer) < capacity
    /\ buffer' = Append(buffer, p)
    /\ pending' = Fired(IF Len(buffer) > 0 THEN receiver_triggers ELSE {}) \ {p}
    /\ Return(p)
    /\ UNCHANGED <<closed, receiver_triggers, sender_triggers>>

send_put(p) ==
    /\ pc[p] = "retry" /\ op[p] = "send"
    /\ ~closed
    /\ Len(buffer) < capacity
    /\ buffer' = Append(buffer, p)
    /\ pending' = Fired(receiver_triggers) \ {p}
    /\ Return(p)
    /\ UNCHANGED <<closed, receiver_triggers, sender_triggers>>

send_full(p) ==
    /\ pc[p] = "retry" /\ op[p] = "send"
    /\ ~closed
    /\ Len(buffer) >= capacity
    /\ sender_triggers' = sender_triggers \cup {p}
    /\ Goto(p, "register")
    /\ UNCHANGED <<buffer, closed, receiver_triggers, pending>> /\ UNCHANGED local

recv_take(p) ==
    /\ pc[p] = "retry" /\ op[p] = "recv"
    /\ buffer # <<>>
    /\ buffer' = Tail(buffer)
    /\ pending' = Fired(sender_triggers) \ {p}
    /\ Return(p)
    /\ UNCHANGED <<closed, receiver_triggers, sender_triggers>>

recv_empty(p) ==
    /\ pc[p] = "retry" /\ op[p] # "send"
    /\ op[p] = "recv" => buffer = <<>>
    /\ ~closed
    /\ receiver_triggers' = receiver_triggers \cup {p}
    /\ Goto(p, "register")
    /\ UNCHANGED <<buffer, closed, sender_triggers, pending>> /\ UNCHANGED local

\* A closed channel refuses values; a receiver gets what is left first.
fails(p) ==
    /\ pc[p] = "retry"
    /\ closed
    /\ op[p] = "recv" => buffer = <<>>
    /\ Return(p)
    /\ pending' = pending \ {p}
    /\ UNCHANGED <<buffer, closed, receiver_triggers, sender_triggers>>

-----------------------------------------------------------------------
(* Waiting.                                                               *)

\* The caller subscribes to its trigger and its token and suspends, unless the
\* token has fired by now.
register(p) ==
    /\ pc[p] = "register"
    /\ Goto(p, IF p \in token THEN "abandon" ELSE "parked")
    /\ UNCHANGED channel /\ UNCHANGED local

\* Mutant: the trigger is thrown away but stays registered.
abandon_registered(p) ==
    /\ pc[p] = "abandon"
    /\ pending' = pending \ {p}
    /\ Return(p)
    /\ UNCHANGED <<buffer, closed, receiver_triggers, sender_triggers>>

abandon(p) ==
    /\ pc[p] = "abandon"
    /\ sender_triggers' = sender_triggers \ {p}
    /\ receiver_triggers' = receiver_triggers \ {p}
    /\ pending' = pending \ {p}
    /\ Return(p)
    /\ UNCHANGED <<buffer, closed>>

\* The loop of the caller's thread sees the trigger.
trigger_wakes(p) ==
    /\ pc[p] \in {"parked", "ready"}
    /\ p \in pending
    /\ pending' = pending \ {p}
    /\ Goto(p, "ready")
    /\ UNCHANGED <<buffer, closed, receiver_triggers, sender_triggers>> /\ UNCHANGED local

\* A token that is a timeout throws into a caller that waits for it; others do not.
token_fires(p) ==
    /\ pc[p] \in {"parked", "ready"}
    /\ p \in Tokens \ token
    /\ token' = token \cup {p}
    /\ \/ pc[p] = "parked" /\ exception' = exception \cup {p}
       \/ UNCHANGED exception
    /\ Goto(p, "ready")
    /\ UNCHANGED channel /\ UNCHANGED <<op, seen>>

\* The coroutine is cancelled.
cancel(p) ==
    /\ pc[p] \in {"parked", "ready"}
    /\ exception' = exception \cup {p}
    /\ Goto(p, "ready")
    /\ UNCHANGED channel /\ UNCHANGED <<op, token, seen>>

\* The caller runs again and takes its trigger back.
wakes(p) ==
    /\ pc[p] = "ready"
    /\ sender_triggers' = sender_triggers \ {p}
    /\ receiver_triggers' = receiver_triggers \ {p}
    /\ seen' = [seen EXCEPT ![p] = [closed |-> closed, full |-> Len(buffer) >= capacity]]
    /\ Goto(p, "woken")
    /\ UNCHANGED <<buffer, closed, pending>> /\ UNCHANGED <<op, token, exception>>

\* What it does next depends on what it has seen.
gives_up(p) ==
    /\ pc[p] = "woken"
    /\ \/ p \in exception
       \/ op[p] = "wait"
       \/ op[p] = "send" /\ p \in token /\ ~seen[p].closed /\ seen[p].full
    /\ Return(p)
    /\ pending' = pending \ {p}
    /\ UNCHANGED <<buffer, closed, receiver_triggers, sender_triggers>>

tries_again(p) ==
    /\ pc[p] = "woken"
    /\ p \notin exception
    /\ op[p] # "wait"
    /\ op[p] = "send" /\ p \in token => seen[p].closed \/ ~seen[p].full
    /\ Goto(p, IF op[p] = "recv" /\ p \in token /\ ~seen[p].closed THEN "recheck" ELSE "retry")
    /\ seen' = [seen EXCEPT ![p] = Unseen]
    /\ UNCHANGED channel /\ UNCHANGED <<op, token, exception>>

\* Mutant: the receiver stays until a value arrives.
times_out_never(p) ==
    /\ pc[p] = "recheck"
    /\ buffer = <<>>
    /\ UNCHANGED vars

\* The token fired: the receiver looks once more whether there is a value.
times_out(p) ==
    /\ pc[p] = "recheck"
    /\ buffer = <<>>
    /\ Return(p)
    /\ pending' = pending \ {p}
    /\ UNCHANGED <<buffer, closed, receiver_triggers, sender_triggers>>

rechecks(p) ==
    /\ pc[p] = "recheck"
    /\ buffer # <<>>
    /\ Goto(p, "retry")
    /\ UNCHANGED channel /\ UNCHANGED local

-----------------------------------------------------------------------
\* async_thread_channel_close, called by anybody, and for a channel that is open
\* when the thread that made it ends.
async_thread_channel_close ==
    /\ ~closed
    /\ closed' = TRUE
    /\ pending' = Fired(receiver_triggers \cup sender_triggers)
    /\ UNCHANGED <<buffer, receiver_triggers, sender_triggers, pc>> /\ UNCHANGED local

Init ==
    /\ buffer = <<>> /\ closed = FALSE
    /\ receiver_triggers = {} /\ sender_triggers = {} /\ pending = {}
    /\ pc = [p \in Callers |-> "idle"]
    /\ op = [p \in Callers |-> "wait"]
    /\ token = {} /\ exception = {}
    /\ seen = [p \in Callers |-> Unseen]

\* The steps a caller takes by itself once it is in a call.
Step(p) ==
    \/ send_put(p) \/ send_full(p) \/ recv_take(p) \/ recv_empty(p) \/ fails(p)
    \/ register(p) \/ abandon(p) \/ trigger_wakes(p)
    \/ wakes(p) \/ gives_up(p) \/ tries_again(p) \/ times_out(p) \/ rechecks(p)

Next ==
    \/ \E p \in Callers :
        \/ \E o \in {"send", "recv", "wait"} : call(p, o)
        \/ Step(p)
        \/ token_fires(p)
        \/ cancel(p)
    \/ async_thread_channel_close

Spec == Init /\ [][Next]_vars

\* Threads run: a caller that can take a step does.
FairSpec == Spec /\ \A p \in Callers : WF_vars(Step(p))

-----------------------------------------------------------------------
(* Properties.                                                            *)

\* Triggers, tokens and what was seen belong to callers, and every caller is at
\* one of the points between the critical sections of thread_channel.c.
TypeOK ==
    /\ buffer \in Seq(Callers) /\ closed \in BOOLEAN
    /\ receiver_triggers \subseteq Callers /\ sender_triggers \subseteq Callers
    /\ pending \subseteq Callers
    /\ pc \in [Callers -> Locations] /\ op \in [Callers -> {"send", "recv", "wait"}]
    /\ token \subseteq Tokens /\ exception \subseteq Callers
    /\ seen \in [Callers -> [closed : BOOLEAN, full : BOOLEAN]]

\* The buffer never holds more than capacity values, however senders that were
\* woken for the same free slot race (circular_buffer_push is called without
\* resizing, so a push too many would fail unnoticed).
WithinCapacity == Len(buffer) <= capacity

Waiting == {"register", "parked"}

\* No wakeup is lost: a sender that waits while the channel is open and has room,
\* a receiver that waits while there is a value, and anybody who waits on a
\* closed channel, has a trigger that was fired.
NoLostWakeup ==
    \A p \in Callers : pc[p] \in Waiting /\ p \notin pending =>
        /\ ~closed
        /\ op[p] = "send" => Len(buffer) >= capacity
        /\ op[p] = "recv" => buffer = <<>>

\* A trigger that other threads may fire belongs to a call that has not ended:
\* every way out of a call (timeout, cancellation, close) deregisters it, under the
\* mutex, before it is disposed of.
TriggersAreAlive ==
    /\ \A p \in sender_triggers : pc[p] \in {"register", "abandon", "parked", "ready"} /\ op[p] = "send"
    /\ \A p \in receiver_triggers : pc[p] \in {"register", "abandon", "parked", "ready"} /\ op[p] # "send"

\* Nothing is put into a closed channel: a value that was accepted was accepted
\* before close(), and what is left is only taken out, oldest first.
NothingAfterClose ==
    [][closed => closed' /\ (buffer' = buffer \/ (buffer # <<>> /\ buffer' = Tail(buffer)))]_vars

\* After close() every call ends, whether it was waiting, about to wait, timing
\* out or about to try again.
CloseEndsCalls == \A p \in Callers : closed ~> pc[p] = "idle"
=======================================================================
