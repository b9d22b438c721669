---------------------------- MODULE ThreadProofs -----------------------------
(* Proofs about what threads share, for any number of them: the channels   *)
(* (ThreadChannel) and the states of futures (SharedState).  The two are   *)
(* separate specifications.                                                *)
(*                                                                         *)
(* Thread channels: any number of callers in any threads, any operations   *)
(* and tokens and any capacity.  NoLostWakeup is not inductive: the step   *)
(* that makes room or brings a value helps a waiting caller only if the    *)
(* caller's trigger is registered where that step fires it.  ChannelInv    *)
(* adds this (Registered) and the types.                                   *)
(*                                                                         *)
(* Shared states: for any number of tasks and of FutureState objects, no   *)
(* state points to a disposed trigger and its references are counted       *)
(* (NothingDangles), and no cancellation and no answer is lost             *)
(* (NothingIsLost).  The inductive invariant says what each end has left   *)
(* of a state at every step between two mutex sections: Ends (references,  *)
(* the consumer's trigger), Listed (the worker's table, the mailbox) and   *)
(* Told (answers).                                                         *)
EXTENDS ThreadChannel, SharedState, TLAPS

\* The provers to try on a leaf that names none.
USE Zenon, SMT, SMTT(30)

-----------------------------------------------------------------------
(* Thread channels.                                                       *)


\* A caller that waits has its trigger where the other side fires it.
Registered ==
    \A p \in Callers : pc[p] \in Waiting =>
        IF op[p] = "send" THEN p \in sender_triggers ELSE p \in receiver_triggers

ChannelInv == TypeOK /\ WithinCapacity /\ TriggersAreAlive /\ Registered /\ NoLostWakeup

\* A call that ends leaves everything well typed, and the caller is not waiting.
LEMMA ReturnTypes ==
    ASSUME NEW p \in Callers, TypeOK, Return(p)
    PROVE  /\ pc' \in [Callers -> Locations] /\ pc'[p] = "idle"
           /\ op' \in [Callers -> {"send", "recv", "wait"}]
           /\ token' \subseteq Tokens /\ exception' \subseteq Callers
           /\ seen' \in [Callers -> [closed : BOOLEAN, full : BOOLEAN]]
           /\ \A q \in Callers \ {p} : pc'[q] = pc[q] /\ op'[q] = op[q]
BY DEF TypeOK, Return, Goto, Locations, Unseen

\* A queue with one more, and with one less, value.
LEMMA QueueFacts ==
    ASSUME NEW S, NEW s \in Seq(S), NEW x \in S
    PROVE  /\ Append(s, x) \in Seq(S) /\ Len(Append(s, x)) = Len(s) + 1
           /\ Len(s) \in Nat
           /\ s # <<>> => Tail(s) \in Seq(S) /\ Len(Tail(s)) = Len(s) - 1
           /\ Append(s, x) # <<>>
BY SMT, SMTT(30)

\* The channel starts empty, with nobody waiting.
LEMMA InitChannelInv == Init => ChannelInv
<1> USE ThreadChannelAssumption
<1> SUFFICES ASSUME Init PROVE ChannelInv
  OBVIOUS
<1>1. TypeOK
  <2>1. buffer \in Seq(Callers)
    BY SMT, SMTT(30) DEF Init
  <2>2. /\ pc \in [Callers -> Locations] /\ op \in [Callers -> {"send", "recv", "wait"}]
        /\ seen \in [Callers -> [closed : BOOLEAN, full : BOOLEAN]]
    BY DEF Init, Locations, Unseen
  <2> QED
    BY <2>1, <2>2 DEF Init, TypeOK
<1>2. WithinCapacity
  <2>1. Len(buffer) = 0
    BY DEF Init
  <2> QED
    BY <2>1, SMT, SMTT(30) DEF WithinCapacity
<1>3. TriggersAreAlive /\ Registered /\ NoLostWakeup
  BY DEF Init, TriggersAreAlive, Registered, NoLostWakeup, Waiting
<1> QED
  BY <1>1, <1>2, <1>3 DEF ChannelInv

\* A value is put into the buffer only when there is room, and every receiver that
\* waits is woken.
LEMMA PutKeeps ==
    ASSUME ChannelInv, NEW p \in Callers, send_put(p)
    PROVE  ChannelInv'
<1> USE ThreadChannelAssumption DEF ChannelInv
<1>1. Return(p)
  BY DEF send_put
<1>2. /\ buffer' \in Seq(Callers) /\ Len(buffer') = Len(buffer) + 1
      /\ Len(buffer) \in Nat
  BY QueueFacts, SMT, SMTT(30) DEF send_put, TypeOK
<1>3. TypeOK'
  BY <1>1, <1>2, ReturnTypes DEF send_put, TypeOK, Fired
<1>4. WithinCapacity'
  BY <1>2, SMT, SMTT(30) DEF send_put, WithinCapacity
<1>5. p \notin sender_triggers /\ p \notin receiver_triggers
  BY DEF send_put, TriggersAreAlive
<1>6. TriggersAreAlive' /\ Registered'
  <2>1. /\ pc'[p] \notin Waiting /\ \A q \in Callers : q # p => pc'[q] = pc[q] /\ op'[q] = op[q]
        /\ sender_triggers' = sender_triggers /\ receiver_triggers' = receiver_triggers
    BY <1>1, ReturnTypes DEF send_put, Waiting
  <2>2. sender_triggers \subseteq Callers /\ receiver_triggers \subseteq Callers
    BY DEF TypeOK
  <2>3. TriggersAreAlive'
    BY <1>5, <2>1, <2>2 DEF TriggersAreAlive
  <2>4. Registered'
    BY <2>1 DEF Registered
  <2> QED BY <2>3, <2>4
<1>7. NoLostWakeup'
  <2> SUFFICES ASSUME NEW q \in Callers, pc'[q] \in Waiting, q \notin pending'
               PROVE  /\ ~closed'
                      /\ op'[q] = "send" => Len(buffer') >= capacity
                      /\ op'[q] = "recv" => buffer' = <<>>
    BY DEF NoLostWakeup
  <2>1. q # p /\ pc[q] \in Waiting /\ op'[q] = op[q]
    BY <1>1, ReturnTypes DEF Waiting
  <2>2. q \notin pending /\ q \notin receiver_triggers
    BY <2>1 DEF send_put, Fired
  <2>3. op[q] = "send" /\ ~closed /\ Len(buffer) >= capacity
    BY <2>1, <2>2 DEF Registered, NoLostWakeup
  <2> QED
    BY <2>3, <1>2, SMT, SMTT(30) DEF send_put
<1> QED
  BY <1>3, <1>4, <1>6, <1>7

\* A value is taken, and every sender that waits is woken.
LEMMA TakingKeeps ==
    ASSUME ChannelInv, NEW p \in Callers, recv_take(p)
    PROVE  ChannelInv'
<1> USE ThreadChannelAssumption DEF ChannelInv
<1>1. Return(p)
  BY DEF recv_take
<1>2. /\ buffer' \in Seq(Callers) /\ Len(buffer') = Len(buffer) - 1
      /\ Len(buffer) \in Nat
  BY QueueFacts DEF recv_take, TypeOK
<1>3. TypeOK'
  BY <1>1, <1>2, ReturnTypes DEF recv_take, TypeOK, Fired
<1>4. WithinCapacity'
  BY <1>2, SMT, SMTT(30) DEF recv_take, WithinCapacity
<1>5. p \notin sender_triggers /\ p \notin receiver_triggers
  BY DEF recv_take, TriggersAreAlive
<1>6. TriggersAreAlive' /\ Registered'
  <2>1. /\ pc'[p] \notin Waiting /\ \A q \in Callers : q # p => pc'[q] = pc[q] /\ op'[q] = op[q]
        /\ sender_triggers' = sender_triggers /\ receiver_triggers' = receiver_triggers
    BY <1>1, ReturnTypes DEF recv_take, Waiting
  <2>2. sender_triggers \subseteq Callers /\ receiver_triggers \subseteq Callers
    BY DEF TypeOK
  <2>3. TriggersAreAlive'
    BY <1>5, <2>1, <2>2 DEF TriggersAreAlive
  <2>4. Registered'
    BY <2>1 DEF Registered
  <2> QED BY <2>3, <2>4
<1>7. NoLostWakeup'
  <2> SUFFICES ASSUME NEW q \in Callers, pc'[q] \in Waiting, q \notin pending'
               PROVE  /\ ~closed'
                      /\ op'[q] = "send" => Len(buffer') >= capacity
                      /\ op'[q] = "recv" => buffer' = <<>>
    BY DEF NoLostWakeup
  <2>1. q # p /\ pc[q] \in Waiting /\ op'[q] = op[q]
    BY <1>1, ReturnTypes DEF Waiting
  <2>2. q \notin pending /\ q \notin sender_triggers
    BY <2>1 DEF recv_take, Fired
  <2>3. op[q] = "wait" /\ ~closed
    BY <2>1, <2>2 DEF Registered, NoLostWakeup, recv_take, TypeOK
  <2> QED
    BY <2>1, <2>3 DEF recv_take
<1> QED
  BY <1>3, <1>4, <1>6, <1>7

\* A caller that finds the channel full, or empty, registers its trigger in the
\* same critical section.
LEMMA RegisteringKeeps ==
    ASSUME ChannelInv, NEW p \in Callers, send_full(p) \/ recv_empty(p)
    PROVE  ChannelInv'
<1> USE ThreadChannelAssumption DEF ChannelInv
<1>1. TypeOK' /\ WithinCapacity'
  BY DEF send_full, recv_empty, TypeOK, WithinCapacity, Goto, Locations, local
<1>2. TriggersAreAlive' /\ Registered'
  BY SMT, SMTT(30) DEF send_full, recv_empty, TypeOK, TriggersAreAlive, Registered, Goto, Waiting, local
<1>3. NoLostWakeup'
  BY DEF send_full, recv_empty, TypeOK, NoLostWakeup, Goto, Waiting, local
<1> QED
  BY <1>1, <1>2, <1>3

\* A call that ends without touching the buffer takes its trigger along.
LEMMA EndingKeeps ==
    ASSUME ChannelInv, NEW p \in Callers,
           fails(p) \/ abandon(p) \/ gives_up(p) \/ times_out(p)
    PROVE  ChannelInv'
<1> USE ThreadChannelAssumption DEF ChannelInv
<1>1. /\ Return(p) /\ UNCHANGED <<buffer, closed>> /\ pending' = pending \ {p}
      /\ sender_triggers' = sender_triggers \ {p}
      /\ receiver_triggers' = receiver_triggers \ {p}
  <2>1. CASE fails(p) \/ gives_up(p) \/ times_out(p)
    <3>1. pc[p] \in {"retry", "woken", "recheck"}
      BY <2>1 DEF fails, gives_up, times_out
    <3>2. p \notin sender_triggers /\ p \notin receiver_triggers
      BY <3>1 DEF TriggersAreAlive
    <3> QED
      BY <2>1, <3>2 DEF fails, gives_up, times_out
  <2>2. CASE abandon(p)
    BY <2>2 DEF abandon
  <2> QED
    BY <2>1, <2>2
<1>2. TypeOK'
  BY <1>1, ReturnTypes DEF TypeOK
<1>3. WithinCapacity'
  BY <1>1 DEF WithinCapacity
<1>4. TriggersAreAlive' /\ Registered'
  BY <1>1, ReturnTypes, SMT, SMTT(30) DEF TypeOK, TriggersAreAlive, Registered, Waiting
<1>5. NoLostWakeup'
  BY <1>1, ReturnTypes DEF NoLostWakeup, Waiting
<1> QED
  BY <1>2, <1>3, <1>4, <1>5

\* Starting a call, suspending, being woken and trying again.
LEMMA MovingKeeps ==
    ASSUME ChannelInv, NEW p \in Callers,
           \/ \E o \in {"send", "recv", "wait"} : call(p, o)
           \/ register(p) \/ trigger_wakes(p) \/ token_fires(p) \/ cancel(p)
           \/ wakes(p) \/ tries_again(p) \/ rechecks(p)
    PROVE  ChannelInv'
<1> USE ThreadChannelAssumption DEF ChannelInv
<1>1. CASE \E o \in {"send", "recv", "wait"} : call(p, o)
  BY <1>1, SMT, SMTT(30) DEF call, Goto, channel, TypeOK, WithinCapacity, TriggersAreAlive, Registered, NoLostWakeup, Waiting, Locations
<1>2. CASE register(p)
  BY <1>2 DEF register, Goto, channel, local, TypeOK, WithinCapacity, TriggersAreAlive, Registered, NoLostWakeup, Waiting, Locations
<1>3. CASE trigger_wakes(p)
  BY <1>3 DEF trigger_wakes, Goto, local, TypeOK, WithinCapacity, TriggersAreAlive, Registered, NoLostWakeup, Waiting, Locations
<1>4. CASE token_fires(p)
  BY <1>4 DEF token_fires, Goto, channel, TypeOK, WithinCapacity, TriggersAreAlive, Registered, NoLostWakeup, Waiting, Locations
<1>5. CASE cancel(p)
  BY <1>5 DEF cancel, Goto, channel, TypeOK, WithinCapacity, TriggersAreAlive, Registered, NoLostWakeup, Waiting, Locations
<1>6. CASE wakes(p)
  <2>1. TypeOK'
    BY <1>6, SMT, SMTT(30) DEF wakes, Goto, TypeOK, Locations
  <2>2. WithinCapacity' /\ TriggersAreAlive' /\ Registered' /\ NoLostWakeup'
    BY <1>6 DEF wakes, Goto, TypeOK, WithinCapacity, TriggersAreAlive, Registered, NoLostWakeup, Waiting
  <2> QED
    BY <2>1, <2>2
<1>7. CASE tries_again(p)
  <2>1. TypeOK'
    BY <1>7 DEF tries_again, Goto, channel, TypeOK, Locations, Unseen
  <2>2. WithinCapacity' /\ TriggersAreAlive' /\ Registered' /\ NoLostWakeup'
    BY <1>7 DEF tries_again, Goto, channel, TypeOK, WithinCapacity, TriggersAreAlive, Registered, NoLostWakeup, Waiting
  <2> QED
    BY <2>1, <2>2
<1>8. CASE rechecks(p)
  BY <1>8 DEF rechecks, Goto, channel, local, TypeOK, WithinCapacity, TriggersAreAlive, Registered, NoLostWakeup, Waiting, Locations
<1> QED
  BY <1>1, <1>2, <1>3, <1>4, <1>5, <1>6, <1>7, <1>8

\* Closing the channel wakes everybody.
LEMMA ClosingKeeps ==
    ASSUME ChannelInv, async_thread_channel_close
    PROVE  ChannelInv'
BY DEF ChannelInv, async_thread_channel_close, Fired, local, TypeOK, WithinCapacity, TriggersAreAlive, Registered, NoLostWakeup, Waiting

\* Every step of every thread keeps the invariant.
LEMMA NextChannelInv == ChannelInv /\ [Next]_vars => ChannelInv'
<1> SUFFICES ASSUME ChannelInv, [Next]_vars PROVE ChannelInv'
  OBVIOUS
<1>1. CASE UNCHANGED vars
  BY <1>1 DEF ChannelInv, vars, TypeOK, WithinCapacity, TriggersAreAlive, Registered, NoLostWakeup
<1>2. CASE async_thread_channel_close
  BY <1>2, ClosingKeeps
<1>3. ASSUME NEW p \in Callers,
             \/ \E o \in {"send", "recv", "wait"} : call(p, o)
             \/ Step(p) \/ token_fires(p) \/ cancel(p)
      PROVE  ChannelInv'
  BY <1>3, PutKeeps, TakingKeeps, RegisteringKeeps, EndingKeeps, MovingKeeps DEF Step
<1> QED
  BY <1>1, <1>2, <1>3 DEF Next

\* Whatever the threads do and however their steps interleave, a caller that waits
\* on a ThreadChannel although it need not has been woken: send, recv and close
\* fire the triggers under the mutex under which the waiter registered its own.
THEOREM NoWakeupIsLost == Spec => []NoLostWakeup
<1>1. Spec => []ChannelInv
  BY InitChannelInv, NextChannelInv, PTL DEF Spec
<1> QED
  BY <1>1, PTL DEF ChannelInv

\* Threads that race for the same free slot never overfill the buffer.
THEOREM NeverOverfull == Spec => []WithinCapacity
<1>1. Spec => []ChannelInv
  BY InitChannelInv, NextChannelInv, PTL DEF Spec
<1> QED
  BY <1>1, PTL DEF ChannelInv

\* No thread can fire the trigger of a call that has ended.
THEOREM TriggersStayAlive == Spec => []TriggersAreAlive
<1>1. Spec => []ChannelInv
  BY InitChannelInv, NextChannelInv, PTL DEF Spec
<1> QED
  BY <1>1, PTL DEF ChannelInv

\* Once close() has returned no value enters the channel, from any thread.
THEOREM ClosedRefuses == Spec => NothingAfterClose
<1>1. [Next]_vars => [closed => closed' /\ (buffer' = buffer \/ (buffer # <<>> /\ buffer' = Tail(buffer)))]_vars
  BY DEF Next, Step, vars, channel, local, call, send_put, send_full, recv_take, recv_empty, fails,
         register, abandon, trigger_wakes, token_fires, cancel, wakes, gives_up, tries_again,
         times_out, rechecks, async_thread_channel_close
<1> QED
  BY <1>1, PTL DEF Spec, NothingAfterClose

-----------------------------------------------------------------------
(* Shared states of futures.                                              *)


OwnerLeaves(t, steps) == caller.of = t /\ caller.step \in steps

\* What the owner of the trigger and the reference counts have to do with
\* the two ends.
Ends(t) ==
    /\ shared[t].life = "none" =>
          /\ shared[t].refs = 0 /\ ~shared[t].completed /\ ~shared[t].trigger
          /\ ~shared[t].bound /\ shared[t].value = "none"
          /\ producer[t].stage = "none" /\ handle[t] = "none"
          /\ t \in Tasks => consumer[t].future = "none"
    /\ shared[t].life = "live" => shared[t].refs = Holders(t) /\ Holders(t) > 0
    /\ shared[t].life = "freed" => /\ Holders(t) = 0
                                   /\ ~shared[t].bound /\ ~shared[t].trigger
                                   /\ handle[t] = "closed"
    /\ t \in Tasks => /\ consumer[t].owner <=> consumer[t].future \notin {"none", "gone"}
                      /\ consumer[t].future = "none" => shared[t].life = "none"
    /\ shared[t].trigger => handle[t] \in {"open", "posted"}
    /\ shared[t].life = "live" /\ (consumer[t].owner \/ OwnerLeaves(t, {"sever"})) => shared[t].trigger
    /\ shared[t].life = "live" /\ ~consumer[t].owner /\ ~OwnerLeaves(t, {"sever", "close"}) =>
          handle[t] = "closed" /\ ~shared[t].trigger
    /\ OwnerLeaves(t, {"close"}) => ~shared[t].trigger
    /\ OwnerLeaves(t, {"sever", "close", "unref"}) => shared[t].life = "live" /\ ~consumer[t].owner
    /\ OwnerLeaves(t, {"drain", "drained"}) => t \in Tasks /\ producer[t].stage = "drained"

\* The worker's table of tasks: who is in it, whose state is bound to the
\* mailbox, and that a task that was asked to stop will hear of it.
Listed(t) ==
    /\ t \in States => /\ producer[t].stage \in {"none", "sent", "held", "told", "dropped", "gone"}
                       /\ producer[t].entry = "none"
    /\ t \in Tasks => /\ producer[t].stage \notin {"sent", "held", "told", "dropped"}
                      /\ Served(t) => worker = "up"
    /\ shared[t].bound => producer[t].entry # "none" /\ mailbox \in {"open", "posted"}
    /\ producer[t].stage = "track" => mailbox \in {"open", "posted"}
    /\ producer[t].stage \in {"none", "queued", "drained", "refuse", "prepare", "track",
                              "failed", "unref", "gone"} => producer[t].entry = "none"
    /\ producer[t].stage = "settle" /\ mode = "sync" => producer[t].entry = "none"
    /\ producer[t].stage = "spawn" => shared[t].bound
    /\ producer[t].stage = "running" =>
          /\ producer[t].doomed \/ (shared[t].bound /\ producer[t].entry = "listed")
          /\ shared[t].requested => producer[t].doomed \/ mailbox = "posted"

\* Where the answer is once the producer has given it.
Told(t) ==
    /\ handle[t] = "posted" => shared[t].value # "none"
    /\ producer[t].stage \in {"unref", "gone", "told"} => shared[t].completed
    /\ producer[t].stage = "forget" /\ mode = "coroutine" => shared[t].completed
    /\ OwnerLeaves(t, {"drained"}) => shared[t].completed
    /\ shared[t].completed /\ consumer[t].owner /\ consumer[t].future = "pending" => handle[t] = "posted"

Apart ==
    /\ worker # "gone" => mailbox # "closed"
    /\ caller.step = "idle" <=> caller.of = None

SharedInv == SharedTypeOK /\ Apart /\ \A t \in Shared : Ends(t) /\ Listed(t) /\ Told(t)

-----------------------------------------------------------------------------

\* Before the first submit() nothing is shared and the invariant holds.
LEMMA InitEstablishes == SharedInit => SharedInv
<1> SUFFICES ASSUME SharedInit PROVE SharedInv
  OBVIOUS
<1> USE DEF SharedInit
<1>1. SharedTypeOK
  BY SharedAssumption, SMT, SMTT(30) DEF SharedTypeOK, Idle, Shared, SharedStates, Consumers, Producers, Stages
<1>2. Apart
  BY DEF Apart, Idle
<1>3. ASSUME NEW t \in Shared PROVE Ends(t) /\ Listed(t) /\ Told(t)
  BY <1>3, SharedAssumption DEF Ends, Listed, Told, OwnerLeaves, Idle, Shared
<1> QED BY <1>1, <1>2, <1>3 DEF SharedInv

\* What the operations on a shared state return is a shared state.
LEMMA Operations ==
    ASSUME NEW s \in SharedStates
    PROVE  /\ Create(s) \in SharedStates /\ DelRef(s) \in SharedStates
           /\ BindCancel(s) \in SharedStates /\ UnbindCancel(s) \in SharedStates
<1>1. Create(s) \in SharedStates
  BY DEF Create, SharedStates
<1>2. DelRef(s) \in SharedStates
  <2>1. CASE s.refs > 1
    BY <2>1, SMT, SMTT(30) DEF DelRef, SharedStates
  <2>2. CASE ~(s.refs > 1)
    BY <2>2 DEF DelRef, SharedStates
  <2> QED BY <2>1, <2>2
<1>3. BindCancel(s) \in SharedStates
  BY DEF BindCancel, SharedStates
<1>4. UnbindCancel(s) \in SharedStates
  BY DEF UnbindCancel, SharedStates
<1> QED BY <1>1, <1>2, <1>3, <1>4

\* A shared state that is given its outcome (_complete, _reject) is one.
LEMMA SettleType ==
    ASSUME NEW s \in SharedStates, NEW v \in {"result", "error"}
    PROVE  [s EXCEPT !.completed = TRUE, !.value = v] \in SharedStates
  BY DEF SharedStates

\* A shared state that is asked to cancel, whose trigger is severed, or whose
\* outcome was moved out (shared_state_trigger_cb) is one.
LEMMA FlagType ==
    ASSUME NEW s \in SharedStates
    PROVE  /\ [s EXCEPT !.requested = TRUE] \in SharedStates
           /\ [s EXCEPT !.trigger = FALSE, !.completed = TRUE] \in SharedStates
           /\ [s EXCEPT !.value = "none"] \in SharedStates
  BY DEF SharedStates

\* A future that is given an outcome, or an owner, is one.
LEMMA FutureType ==
    ASSUME NEW c \in Consumers, NEW o \in BOOLEAN,
           NEW f \in {"none", "pending", "result", "error", "cancelled", "gone"}
    PROVE  /\ [c EXCEPT !.future = f] \in Consumers
           /\ [c EXCEPT !.owner = o] \in Consumers
           /\ [c EXCEPT !.watched = TRUE] \in Consumers
           /\ [c EXCEPT !.ignored = TRUE] \in Consumers
           /\ [c EXCEPT !.future = f, !.owner = o] \in Consumers
  BY DEF Consumers

\* A task that is told of its cancellation is one.
LEMMA DoomType ==
    ASSUME NEW p \in Producers PROVE [p EXCEPT !.doomed = TRUE] \in Producers
  BY DEF Producers, Stages

\* A task that goes on to its next step is one.
LEMMA StageType ==
    ASSUME NEW p \in Producers, NEW g \in Stages PROVE [p EXCEPT !.stage = g] \in Producers
  BY DEF Producers

\* A task that enters the worker's table or leaves it, and goes on, is one.
LEMMA EntryType ==
    ASSUME NEW p \in Producers, NEW g \in Stages, NEW e \in {"none", "preparing", "listed"}
    PROVE  /\ [p EXCEPT !.entry = e] \in Producers
           /\ [p EXCEPT !.entry = e, !.stage = g] \in Producers
           /\ [p EXCEPT !.stage = g, !.entry = e] \in Producers
  BY DEF Producers

\* So is one that is told at that moment whether it was cancelled.
LEMMA TrackType ==
    ASSUME NEW p \in Producers, NEW g \in Stages, NEW b \in BOOLEAN,
           NEW e \in {"none", "preparing", "listed"}
    PROVE  /\ [p EXCEPT !.stage = g, !.entry = e, !.doomed = b] \in Producers
           /\ [p EXCEPT !.entry = e, !.doomed = b, !.stage = g] \in Producers
  BY DEF Producers

\* submit() makes both ends of a new state and keeps the invariant.
LEMMA SubmitKeeps == ASSUME SharedInv, NEW t \in Tasks, Submit(t) PROVE SharedInv'
<1> USE SharedAssumption DEF SharedInv, Submit
<1>1. SharedTypeOK'
  <2>1. shared' \in [Shared -> SharedStates]
    BY Operations DEF SharedTypeOK, Shared
  <2>2. consumer' \in [Shared -> Consumers]
    BY FutureType DEF SharedTypeOK, Shared
  <2>3. producer' \in [Shared -> Producers]
    BY StageType DEF SharedTypeOK, Shared, Stages
  <2> QED BY <2>1, <2>2, <2>3 DEF SharedTypeOK, Shared, Idle
<1>2. Apart'
  BY DEF Apart, SharedTypeOK, Shared, Create
<1>3. ASSUME NEW u \in Shared PROVE Ends(u)'
  BY <1>3, SMT, SMTT(30) DEF SharedTypeOK, Producers, Stages, Shared, Ends, OwnerLeaves, Holders, Create
<1>4. ASSUME NEW u \in Shared PROVE Listed(u)'
  BY <1>4, SMT, SMTT(30) DEF SharedTypeOK, Producers, Stages, Shared, Ends, Listed, Create
<1>5. ASSUME NEW u \in Shared PROVE Told(u)'
  BY <1>5, SMT, SMTT(30) DEF SharedTypeOK, Producers, Stages, Shared, Ends, Told, OwnerLeaves, Create
<1> QED BY <1>1, <1>2, <1>3, <1>4, <1>5

\* async_future_state_transfer_obj: the copy in transit is the second end.
LEMMA HandOverKeeps == ASSUME SharedInv, NEW t \in States, HandOver(t) PROVE SharedInv'
<1> USE SharedAssumption DEF SharedInv, HandOver
<1>1. SharedTypeOK'
  <2>1. shared' \in [Shared -> SharedStates]
    BY Operations DEF SharedTypeOK, Shared
  <2>2. producer' \in [Shared -> Producers]
    BY StageType DEF SharedTypeOK, Shared, Stages
  <2> QED BY <2>1, <2>2 DEF SharedTypeOK, Shared, Idle
<1>2. Apart'
  BY DEF Apart, SharedTypeOK, Shared, Create
<1>3. ASSUME NEW u \in Shared PROVE Ends(u)'
  BY <1>3, SMT, SMTT(30) DEF SharedTypeOK, Producers, Stages, Shared, Ends, OwnerLeaves, Holders, Create
<1>4. ASSUME NEW u \in Shared PROVE Listed(u)'
  BY <1>4, SMT, SMTT(30) DEF SharedTypeOK, Producers, Stages, Shared, Listed, Served, Create
<1>5. ASSUME NEW u \in Shared PROVE Told(u)'
  BY <1>5, SMT, SMTT(30) DEF SharedTypeOK, Producers, Stages, Shared, Ends, Told, OwnerLeaves, Create
<1> QED BY <1>1, <1>2, <1>3, <1>4, <1>5

\* remote_future_add_callback changes nothing the invariant reads.
LEMMA WatchKeeps == ASSUME SharedInv, NEW t \in Tasks, Watch(t) PROVE SharedInv'
<1> USE SharedAssumption DEF SharedInv, Watch
<1>1. SharedTypeOK'
  <2>1. consumer' \in [Shared -> Consumers]
    BY FutureType DEF SharedTypeOK, Shared
  <2> QED BY <2>1 DEF SharedTypeOK, Shared, Idle
<1>2. Apart'
  BY DEF Apart, SharedTypeOK, Shared
<1>3. ASSUME NEW u \in Shared PROVE Ends(u)'
  BY <1>3, SMT, SMTT(30) DEF SharedTypeOK, Producers, Stages, Shared, Ends, OwnerLeaves, Holders
<1>4. ASSUME NEW u \in Shared PROVE Listed(u)'
  BY <1>4 DEF SharedTypeOK, Producers, Stages, Shared, Listed, Served
<1>5. ASSUME NEW u \in Shared PROVE Told(u)'
  BY <1>5, SMT, SMTT(30) DEF SharedTypeOK, Producers, Stages, Shared, Told, OwnerLeaves
<1> QED BY <1>1, <1>2, <1>3, <1>4, <1>5

\* ignore() changes nothing the invariant reads.
LEMMA IgnoreKeeps == ASSUME SharedInv, NEW t \in Tasks, Ignore(t) PROVE SharedInv'
<1> USE SharedAssumption DEF SharedInv, Ignore
<1>1. SharedTypeOK'
  <2>1. consumer' \in [Shared -> Consumers]
    BY FutureType DEF SharedTypeOK, Shared
  <2> QED BY <2>1 DEF SharedTypeOK, Shared, Idle
<1>2. Apart'
  BY DEF Apart, SharedTypeOK, Shared
<1>3. ASSUME NEW u \in Shared PROVE Ends(u)'
  BY <1>3, SMT, SMTT(30) DEF SharedTypeOK, Producers, Stages, Shared, Ends, OwnerLeaves, Holders
<1>4. ASSUME NEW u \in Shared PROVE Listed(u)'
  BY <1>4 DEF SharedTypeOK, Producers, Stages, Shared, Listed, Served
<1>5. ASSUME NEW u \in Shared PROVE Told(u)'
  BY <1>5, SMT, SMTT(30) DEF SharedTypeOK, Producers, Stages, Shared, Told, OwnerLeaves
<1> QED BY <1>1, <1>2, <1>3, <1>4, <1>5

\* cancel(): the request reaches the flag, and the mailbox of a bound state, in one mutex section.
LEMMA CancelKeeps == ASSUME SharedInv, NEW t \in Shared, Cancel(t) PROVE SharedInv'
<1> USE SharedAssumption DEF SharedInv, Cancel
<1>1. SharedTypeOK'
  <2>1. shared' \in [Shared -> SharedStates]
    <3>1. shared' = shared \/ shared' = [shared EXCEPT ![t] = [shared[t] EXCEPT !.requested = TRUE]]
      BY DEF RequestCancel
    <3>2. [shared[t] EXCEPT !.requested = TRUE] \in SharedStates
      BY FlagType DEF SharedTypeOK, Shared
    <3> QED BY <3>1, <3>2 DEF SharedTypeOK
  <2>2. consumer' \in [Shared -> Consumers]
    BY FutureType DEF SharedTypeOK, Shared
  <2> QED BY <2>1, <2>2 DEF SharedTypeOK, Shared, Idle, RequestCancel, Posted
<1>2. Apart'
  BY DEF Apart, SharedTypeOK, Shared, RequestCancel, Posted
<1>3. ASSUME NEW u \in Shared PROVE Ends(u)'
  BY <1>3, SMT, SMTT(30) DEF SharedTypeOK, SharedStates, Producers, Stages, Shared, Ends, OwnerLeaves, Holders, RequestCancel, Posted
<1>4. ASSUME NEW u \in Shared PROVE Listed(u)'
  <2>1. CASE t \in Tasks
    BY <1>4, <2>1, SMT, SMTT(30) DEF SharedTypeOK, SharedStates, Producers, Stages, Shared, Listed, Served, RequestCancel, Posted
  <2>2. CASE t \notin Tasks
    BY <1>4, <2>2 DEF Listed, Served
  <2> QED BY <2>1, <2>2
<1>5. ASSUME NEW u \in Shared PROVE Told(u)'
  BY <1>5, SMT, SMTT(30) DEF SharedTypeOK, SharedStates, Producers, Stages, Shared, Told, OwnerLeaves, RequestCancel, Posted
<1> QED BY <1>1, <1>2, <1>3, <1>4, <1>5

\* A FutureState that was not handed over is settled by its owner alone.
LEMMA ResolveKeeps == ASSUME SharedInv, NEW t \in States, NEW v \in {"result", "error"}, Resolve(t, v) PROVE SharedInv'
<1> USE SharedAssumption DEF SharedInv, Resolve
<1>1. SharedTypeOK'
  <2>1. consumer' \in [Shared -> Consumers]
    BY FutureType DEF SharedTypeOK, Shared
  <2> QED BY <2>1 DEF SharedTypeOK, Shared, Idle
<1>2. Apart'
  BY DEF Apart, SharedTypeOK, Shared
<1>3. ASSUME NEW u \in Shared PROVE Ends(u)'
  BY <1>3, SMT, SMTT(30) DEF SharedTypeOK, Producers, Stages, Shared, Ends, OwnerLeaves, Holders
<1>4. ASSUME NEW u \in Shared PROVE Listed(u)'
  BY <1>4 DEF SharedTypeOK, Producers, Stages, Shared, Listed, Served
<1>5. ASSUME NEW u \in Shared PROVE Told(u)'
  BY <1>5 DEF SharedTypeOK, Producers, Stages, Shared, Told, OwnerLeaves
<1> QED BY <1>1, <1>2, <1>3, <1>4, <1>5

\* shared_state_trigger_cb takes an outcome that is there: the trigger was fired by _complete or _reject.
LEMMA DeliverKeeps == ASSUME SharedInv, NEW t \in Shared, Deliver(t) PROVE SharedInv'
<1> USE SharedAssumption DEF SharedInv, Deliver
<1>1. SharedTypeOK'
  <2>1. shared' \in [Shared -> SharedStates]
    BY FlagType DEF SharedTypeOK, Shared
  <2>2. consumer' \in [Shared -> Consumers]
    BY FutureType, ZenonT(30) DEF SharedTypeOK, Shared, SharedStates
  <2> QED BY <2>1, <2>2 DEF SharedTypeOK, Shared, Idle
<1>2. Apart'
  BY DEF Apart, SharedTypeOK, Shared
<1>3. ASSUME NEW u \in Shared PROVE Ends(u)'
  BY <1>3, SMT, SMTT(30) DEF SharedTypeOK, SharedStates, Producers, Stages, Shared, Ends, Told, OwnerLeaves, Holders
<1>4. ASSUME NEW u \in Shared PROVE Listed(u)'
  BY <1>4, SMT, SMTT(30) DEF SharedTypeOK, Producers, Stages, Shared, Listed, Served
<1>5. ASSUME NEW u \in Shared PROVE Told(u)'
  BY <1>5, SMT, SMTT(30) DEF SharedTypeOK, SharedStates, Producers, Stages, Shared, Told, OwnerLeaves
<1> QED BY <1>1, <1>2, <1>3, <1>4, <1>5

\* remote_future_dispose starts with the future gone and its trigger still attached.
LEMMA DropKeeps == ASSUME SharedInv, NEW t \in Tasks, Drop(t) PROVE SharedInv'
<1> USE SharedAssumption DEF SharedInv, Drop
<1>1. SharedTypeOK'
  <2>1. shared' \in [Shared -> SharedStates]
    <3>1. shared' = shared \/ shared' = [shared EXCEPT ![t] = [shared[t] EXCEPT !.requested = TRUE]]
      BY DEF RequestCancel
    <3>2. [shared[t] EXCEPT !.requested = TRUE] \in SharedStates
      BY FlagType DEF SharedTypeOK, Shared
    <3> QED BY <3>1, <3>2 DEF SharedTypeOK
  <2>2. consumer' \in [Shared -> Consumers]
    BY FutureType DEF SharedTypeOK, Shared
  <2> QED BY <2>1, <2>2 DEF SharedTypeOK, Shared, Idle, RequestCancel, Posted
<1>2. Apart'
  BY DEF Apart, SharedTypeOK, Shared, RequestCancel, Posted
<1>3. ASSUME NEW u \in Shared PROVE Ends(u)'
  BY <1>3, SMT, SMTT(30) DEF SharedTypeOK, SharedStates, Producers, Stages, Shared, Ends, OwnerLeaves, Holders, Idle, RequestCancel, Posted
<1>4. ASSUME NEW u \in Shared PROVE Listed(u)'
  <2>1. mailbox' = mailbox \/ (mailbox = "open" /\ mailbox' = "posted")
    BY DEF RequestCancel, Posted
  <2>2. shared'[u].bound <=> shared[u].bound
    BY <1>4, SMT, SMTT(30) DEF SharedTypeOK, Shared, SharedStates, RequestCancel
  <2>3. shared'[u].requested => shared[u].requested \/ (shared[u].bound => mailbox' = Posted(mailbox))
    BY <1>4 DEF SharedTypeOK, Shared, SharedStates, RequestCancel
  <2> QED BY <1>4, <2>1, <2>2, <2>3 DEF Listed, Served, Posted
<1>5. ASSUME NEW u \in Shared PROVE Told(u)'
  BY <1>5, SMT, SMTT(30) DEF SharedTypeOK, SharedStates, Producers, Stages, Shared, Told, OwnerLeaves, RequestCancel, Posted
<1> QED BY <1>1, <1>2, <1>3, <1>4, <1>5

\* async_future_state_object_free starts in the same way and leaves the future.
LEMMA DropStateKeeps == ASSUME SharedInv, NEW t \in States, DropState(t) PROVE SharedInv'
<1> USE SharedAssumption DEF SharedInv, DropState
<1>1. SharedTypeOK'
  <2>1. consumer' \in [Shared -> Consumers]
    BY FutureType DEF SharedTypeOK, Shared
  <2> QED BY <2>1 DEF SharedTypeOK, Shared, Idle
<1>2. Apart'
  BY DEF Apart, SharedTypeOK, Shared
<1>3. ASSUME NEW u \in Shared PROVE Ends(u)'
  BY <1>3, SMT, SMTT(30) DEF SharedTypeOK, SharedStates, Producers, Stages, Shared, Ends, OwnerLeaves, Holders, Idle
<1>4. ASSUME NEW u \in Shared PROVE Listed(u)'
  BY <1>4 DEF SharedTypeOK, Producers, Stages, Shared, Listed, Served
<1>5. ASSUME NEW u \in Shared PROVE Told(u)'
  BY <1>5, SMT, SMTT(30) DEF SharedTypeOK, Producers, Stages, Shared, Told, OwnerLeaves
<1> QED BY <1>1, <1>2, <1>3, <1>4, <1>5

\* The trigger pointer is cleared before the trigger is disposed.
LEMMA SeverKeeps == ASSUME SharedInv, Sever PROVE SharedInv'
<1> USE SharedAssumption DEF SharedInv, Sever
<1>1. SharedTypeOK'
  <2>1. shared' \in [Shared -> SharedStates]
    BY FlagType DEF SharedTypeOK, Shared
  <2> QED BY <2>1 DEF SharedTypeOK, Shared, Idle
<1>2. Apart'
  BY DEF Apart, SharedTypeOK, Shared
<1>3. ASSUME NEW u \in Shared PROVE Ends(u)'
  BY <1>3, SMT, SMTT(30) DEF SharedTypeOK, Producers, Stages, Shared, Ends, OwnerLeaves, Holders, Served
<1>4. ASSUME NEW u \in Shared PROVE Listed(u)'
  BY <1>4, SMT, SMTT(30) DEF SharedTypeOK, Producers, Stages, Shared, Listed, Served
<1>5. ASSUME NEW u \in Shared PROVE Told(u)'
  <2>1. CASE u = caller.of
    BY <1>5, <2>1, SMT, SMTT(30) DEF SharedTypeOK, SharedStates, Consumers, Producers, Stages, Shared, Ends, Told, OwnerLeaves, Holders
  <2>2. CASE u # caller.of
    BY <1>5, <2>2 DEF SharedTypeOK, Shared, Told, OwnerLeaves
  <2> QED BY <2>1, <2>2
<1> QED BY <1>1, <1>2, <1>3, <1>4, <1>5

\* The trigger is disposed when no state points to it.
LEMMA CloseKeeps == ASSUME SharedInv, Close PROVE SharedInv'
<1> USE SharedAssumption DEF SharedInv, Close
<1>1. SharedTypeOK'
  <2> QED BY DEF SharedTypeOK, Shared, Idle
<1>2. Apart'
  BY DEF Apart, SharedTypeOK, Shared
<1>3. ASSUME NEW u \in Shared PROVE Ends(u)'
  BY <1>3, SMT, SMTT(30) DEF SharedTypeOK, Producers, Stages, Shared, Ends, OwnerLeaves, Holders
<1>4. ASSUME NEW u \in Shared PROVE Listed(u)'
  BY <1>4 DEF SharedTypeOK, Producers, Stages, Shared, Listed, Served
<1>5. ASSUME NEW u \in Shared PROVE Told(u)'
  BY <1>5 DEF SharedTypeOK, Producers, Stages, Shared, Ends, Told, OwnerLeaves
<1> QED BY <1>1, <1>2, <1>3, <1>4, <1>5

\* The owner gives up its reference last.
LEMMA OwnerUnrefKeeps == ASSUME SharedInv, OwnerUnref PROVE SharedInv'
<1> USE SharedAssumption DEF SharedInv, OwnerUnref
<1>1. SharedTypeOK'
  <2>1. shared' \in [Shared -> SharedStates]
    BY Operations DEF SharedTypeOK, Shared
  <2> QED BY <2>1 DEF SharedTypeOK, Shared, Idle
<1>2. Apart'
  BY DEF Apart, SharedTypeOK, Shared, Idle, DelRef
<1>3. ASSUME NEW u \in Shared PROVE Ends(u)'
  <2>1. CASE u = caller.of
    BY <1>3, <2>1, SMT, SMTT(30) DEF SharedTypeOK, SharedStates, Producers, Stages, Shared, Ends, Listed, OwnerLeaves, Holders, Idle, DelRef
  <2>2. CASE u # caller.of
    <3>1. shared'[u] = shared[u] /\ caller'.of # u
      BY <1>3, <2>2 DEF SharedTypeOK, Idle
    <3>2. /\ Ends(u) /\ handle'[u] = handle[u] /\ consumer'[u] = consumer[u]
          /\ producer'[u] = producer[u]
      BY <1>3
    <3>3. Holders(u)' = Holders(u)
      BY <2>2, <3>1, <3>2 DEF Holders
    <3>4. \A steps : OwnerLeaves(u, steps)' <=> OwnerLeaves(u, steps)
      BY <2>2, <3>1 DEF OwnerLeaves
    <3> QED BY <3>1, <3>2, <3>3, <3>4, SMT, SMTT(30) DEF Ends
  <2> QED BY <2>1, <2>2
<1>4. ASSUME NEW u \in Shared PROVE Listed(u)'
  BY <1>4, SMT, SMTT(30) DEF SharedTypeOK, Producers, Stages, Shared, Listed, Served, DelRef
<1>5. ASSUME NEW u \in Shared PROVE Told(u)'
  BY <1>5, SMT, SMTT(30) DEF SharedTypeOK, Producers, Stages, Shared, Told, OwnerLeaves, Idle, DelRef
<1> QED BY <1>1, <1>2, <1>3, <1>4, <1>5

\* thread_pool_drain_tasks takes a queued task, and with it the producer's reference.
LEMMA DrainKeeps == ASSUME SharedInv, NEW t \in Tasks, Drain(t) PROVE SharedInv'
<1> USE SharedAssumption DEF SharedInv, Drain
<1>1. SharedTypeOK'
  <2>1. producer' \in [Shared -> Producers]
    BY StageType DEF SharedTypeOK, Shared, Stages
  <2> QED BY <2>1 DEF SharedTypeOK, Shared, Idle
<1>2. Apart'
  BY DEF Apart, SharedTypeOK, Shared
<1>3. ASSUME NEW u \in Shared PROVE Ends(u)'
  BY <1>3, SMT, SMTT(30) DEF SharedTypeOK, Producers, Stages, Shared, Ends, OwnerLeaves, Holders, Idle
<1>4. ASSUME NEW u \in Shared PROVE Listed(u)'
  BY <1>4, SMT, SMTT(30) DEF SharedTypeOK, Producers, Stages, Shared, Listed, Served
<1>5. ASSUME NEW u \in Shared PROVE Told(u)'
  BY <1>5, SMT, SMTT(30) DEF SharedTypeOK, Producers, Stages, Shared, Told, OwnerLeaves
<1> QED BY <1>1, <1>2, <1>3, <1>4, <1>5

\* A drained task is rejected before it is released.
LEMMA DrainRejectKeeps == ASSUME SharedInv, DrainReject PROVE SharedInv'
<1> USE SharedAssumption DEF SharedInv, DrainReject
<1>1. SharedTypeOK'
  <2>1. shared' \in [Shared -> SharedStates]
    BY SettleType DEF SharedTypeOK, Shared, Settle
  <2> QED BY <2>1 DEF SharedTypeOK, Shared, Idle, Settle, Posted
<1>2. Apart'
  BY DEF Apart, SharedTypeOK, Shared, Settle, Posted
<1>3. ASSUME NEW u \in Shared PROVE Ends(u)'
  BY <1>3, SMT, SMTT(30) DEF SharedTypeOK, Producers, Stages, Shared, Ends, OwnerLeaves, Holders, Served, Settle, Posted
<1>4. ASSUME NEW u \in Shared PROVE Listed(u)'
  BY <1>4, SMT, SMTT(30) DEF SharedTypeOK, Consumers, Producers, Stages, Shared, Listed, Served, Settle, Posted
<1>5. ASSUME NEW u \in Shared PROVE Told(u)'
  BY <1>5, SMT, SMTT(30) DEF SharedTypeOK, SharedStates, Producers, Stages, Shared, Ends, Told, OwnerLeaves, Holders, Settle, Posted
<1> QED BY <1>1, <1>2, <1>3, <1>4, <1>5

\* A drained task gives up the producer's reference.
LEMMA DrainUnrefKeeps == ASSUME SharedInv, DrainUnref PROVE SharedInv'
<1> USE SharedAssumption DEF SharedInv, DrainUnref
<1>1. SharedTypeOK'
  <2>1. shared' \in [Shared -> SharedStates]
    BY Operations DEF SharedTypeOK, Shared
  <2>2. producer' \in [Shared -> Producers]
    BY StageType DEF SharedTypeOK, Shared, Stages
  <2> QED BY <2>1, <2>2 DEF SharedTypeOK, Shared, Idle
<1>2. Apart'
  BY DEF Apart, SharedTypeOK, Shared, Idle, DelRef
<1>3. ASSUME NEW u \in Shared PROVE Ends(u)'
  BY <1>3, SMT, SMTT(30) DEF SharedTypeOK, SharedStates, Producers, Stages, Shared, Ends, Listed, OwnerLeaves, Holders, Idle, DelRef
<1>4. ASSUME NEW u \in Shared PROVE Listed(u)'
  BY <1>4, SMT, SMTT(30) DEF SharedTypeOK, Producers, Stages, Shared, Ends, Listed, OwnerLeaves, Served, DelRef
<1>5. ASSUME NEW u \in Shared PROVE Told(u)'
  BY <1>5, SMT, SMTT(30) DEF SharedTypeOK, Producers, Stages, Shared, Told, OwnerLeaves, Idle, DelRef
<1> QED BY <1>1, <1>2, <1>3, <1>4, <1>5

\* A task that the worker receives is in no table yet.
LEMMA TakeKeeps == ASSUME SharedInv, NEW t \in Tasks, Take(t) PROVE SharedInv'
<1> USE SharedAssumption DEF SharedInv, Take
<1>1. SharedTypeOK'
  <2>1. producer' \in [Shared -> Producers]
    BY StageType DEF SharedTypeOK, Shared, Stages
  <2> QED BY <2>1 DEF SharedTypeOK, Shared, Idle
<1>2. Apart'
  BY DEF Apart, SharedTypeOK, Shared
<1>3. ASSUME NEW u \in Shared PROVE Ends(u)'
  BY <1>3, SMT, SMTT(30) DEF SharedTypeOK, Producers, Stages, Shared, Ends, OwnerLeaves, Holders
<1>4. ASSUME NEW u \in Shared PROVE Listed(u)'
  BY <1>4, SMT, SMTT(30) DEF SharedTypeOK, Producers, Stages, Shared, Listed
<1>5. ASSUME NEW u \in Shared PROVE Told(u)'
  BY <1>5, SMT, SMTT(30) DEF SharedTypeOK, Producers, Stages, Shared, Told, OwnerLeaves
<1> QED BY <1>1, <1>2, <1>3, <1>4, <1>5

\* thread_pool_reject_cancelled answers a task that was never tracked.
LEMMA RefuseKeeps == ASSUME SharedInv, NEW t \in Tasks, Refuse(t) PROVE SharedInv'
<1> USE SharedAssumption DEF SharedInv, Refuse
<1>1. SharedTypeOK'
  <2>1. shared' \in [Shared -> SharedStates]
    BY SettleType DEF SharedTypeOK, Shared, Settle
  <2>2. producer' \in [Shared -> Producers]
    BY StageType DEF SharedTypeOK, Shared, Stages
  <2> QED BY <2>1, <2>2, SMT, SMTT(30) DEF SharedTypeOK, Shared, Idle, Settle, Posted
<1>2. Apart'
  BY DEF Apart, SharedTypeOK, Shared, Settle, Posted
<1>3. ASSUME NEW u \in Shared PROVE Ends(u)'
  <2>1. CASE u = t
    BY <1>3, <2>1, SMT, SMTT(30) DEF SharedTypeOK, SharedStates, Consumers, Producers, Stages, Shared, Ends, OwnerLeaves, Holders, Served, Settle, Posted
  <2>2. CASE u # t
    BY <1>3, <2>2, SMT, SMTT(30) DEF SharedTypeOK, Shared, Ends, OwnerLeaves, Holders, Served, Settle, Posted
  <2> QED BY <2>1, <2>2
<1>4. ASSUME NEW u \in Shared PROVE Listed(u)'
  BY <1>4, SMT, SMTT(30) DEF SharedTypeOK, Producers, Stages, Shared, Listed, Served, Settle, Posted
<1>5. ASSUME NEW u \in Shared PROVE Told(u)'
  BY <1>5, SMT, SMTT(30) DEF SharedTypeOK, SharedStates, Producers, Stages, Shared, Ends, Told, OwnerLeaves, Holders, Settle, Posted
<1> QED BY <1>1, <1>2, <1>3, <1>4, <1>5

\* The mailbox exists before a task may be bound to it.
LEMMA PrepareKeeps == ASSUME SharedInv, NEW t \in Tasks, Prepare(t) PROVE SharedInv'
<1> USE SharedAssumption DEF SharedInv, Prepare
<1>1. SharedTypeOK'
  <2>1. producer' \in [Shared -> Producers]
    <3>1. PICK g \in {"track", "failed"} : producer' = [producer EXCEPT ![t].stage = g]
      OBVIOUS
    <3> QED BY <3>1, StageType DEF SharedTypeOK, Shared, Stages
  <2> QED BY <2>1, SMT, SMTT(30) DEF SharedTypeOK, Shared, Idle
<1>2. Apart'
  BY DEF Apart, SharedTypeOK, Shared
<1>3. ASSUME NEW u \in Shared PROVE Ends(u)'
  BY <1>3, SMT, SMTT(30) DEF SharedTypeOK, Consumers, Producers, Stages, Shared, Ends, OwnerLeaves, Holders
<1>4. ASSUME NEW u \in Shared PROVE Listed(u)'
  BY <1>4, SMT, SMTT(30) DEF SharedTypeOK, Producers, Stages, Shared, Listed, Apart, Served
<1>5. ASSUME NEW u \in Shared PROVE Told(u)'
  <2>1. CASE u = t
    BY <1>5, <2>1, SMT, SMTT(30) DEF SharedTypeOK, Producers, Stages, Shared, Told, OwnerLeaves
  <2>2. CASE u # t
    BY <1>5, <2>2 DEF SharedTypeOK, Shared, Told, OwnerLeaves
  <2> QED BY <2>1, <2>2
<1> QED BY <1>1, <1>2, <1>3, <1>4, <1>5

\* async_future_shared_state_bind_cancel tells a bound state from a cancelled one.
LEMMA Binding ==
    ASSUME NEW s \in SharedStates
    PROVE  /\ BindCancel(s).bound <=> ~s.requested
           /\ BindCancel(s).requested <=> s.requested
  BY DEF SharedStates, BindCancel

\* pool_worker_cancel_track binds only a state that was not cancelled, under its mutex.
LEMMA TrackKeeps == ASSUME SharedInv, NEW t \in Tasks, Track(t) PROVE SharedInv'
<1> USE SharedAssumption DEF SharedInv, Track
<1>1. SharedTypeOK'
  <2>1. shared' \in [Shared -> SharedStates]
    BY Operations DEF SharedTypeOK, Shared
  <2>2. producer' \in [Shared -> Producers]
    <3> DEFINE bound == BindCancel(shared[t]).bound
               e == IF ~bound THEN "none" ELSE IF mode = "sync" THEN "listed" ELSE "preparing"
               b == mode = "sync" /\ ~bound
               g == IF mode = "sync" THEN "running" ELSE IF bound THEN "spawn" ELSE "refuse"
    <3>1. producer' = [producer EXCEPT
                         ![t] = [producer[t] EXCEPT !.entry = e, !.doomed = b, !.stage = g]]
      BY DEF SharedTypeOK, Shared
    <3>2. e \in {"none", "preparing", "listed"} /\ b \in BOOLEAN /\ g \in Stages
      BY DEF Stages
    <3>3. producer \in [Shared -> Producers] /\ t \in Shared
      BY DEF SharedTypeOK, Shared
    <3> HIDE DEF e, b, g, Track, SharedInv
    <3>4. [producer[t] EXCEPT !.entry = e, !.doomed = b, !.stage = g] \in Producers
      BY <3>2, <3>3, TrackType, ZenonT(30)
    <3> QED BY <3>1, <3>3, <3>4
  <2> QED BY <2>1, <2>2 DEF SharedTypeOK, Shared, Idle
<1>2. Apart'
  BY DEF Apart, SharedTypeOK, Shared, BindCancel
<1>3. ASSUME NEW u \in Shared PROVE Ends(u)'
  <2>1. CASE u = t
    BY <1>3, <2>1, SMT, SMTT(30) DEF SharedTypeOK, SharedStates, Consumers, Producers, Stages, Shared, Ends, OwnerLeaves, Holders, Served, BindCancel
  <2>2. CASE u # t
    BY <1>3, <2>2, SMT, SMTT(30) DEF SharedTypeOK, Shared, Ends, OwnerLeaves, Holders, Served
  <2> QED BY <2>1, <2>2
<1>4. ASSUME NEW u \in Shared PROVE Listed(u)'
  <2>1. CASE u = t
    <3>1. /\ shared'[t].bound <=> ~shared[t].requested
          /\ shared'[t].requested <=> shared[t].requested
      <4>1. shared'[t] = BindCancel(shared[t]) /\ shared[t] \in SharedStates
        BY DEF SharedTypeOK, Shared
      <4> QED BY <4>1, Binding, SMT, SMTT(30)
    <3>2. /\ mode = "sync" => producer'[t].stage = "running"
          /\ mode # "sync" => producer'[t].stage = IF shared'[t].bound THEN "spawn" ELSE "refuse"
      BY SMT, SMTT(30) DEF SharedTypeOK, Shared, Producers
    <3>3. /\ shared'[t].bound => producer'[t].entry = IF mode = "sync" THEN "listed" ELSE "preparing"
          /\ ~shared'[t].bound => producer'[t].entry = "none"
      BY SMT, SMTT(30) DEF SharedTypeOK, Shared, Producers
    <3>4. mode = "sync" /\ ~shared'[t].bound => producer'[t].doomed
      BY ZenonT(30) DEF SharedTypeOK, Shared, Producers
    <3>5. mailbox' \in {"open", "posted"} /\ worker' = "up" /\ mode' = mode /\ t \notin States
      BY DEF Shared, Listed, Served
    <3> HIDE DEF Track, SharedInv
    <3> QED BY <2>1, <3>1, <3>2, <3>3, <3>4, <3>5 DEF Listed, Served
  <2>2. CASE u # t
    BY <1>4, <2>2 DEF SharedTypeOK, Shared, Listed, Served
  <2> QED BY <2>1, <2>2
<1>5. ASSUME NEW u \in Shared PROVE Told(u)'
  <2>1. CASE u = t
    BY <1>5, <2>1, SMT, SMTT(30) DEF SharedTypeOK, SharedStates, Consumers, Producers, Stages, Shared, Ends, Told, OwnerLeaves, Holders, BindCancel
  <2>2. CASE u # t
    BY <1>5, <2>2 DEF SharedTypeOK, Shared, Told, OwnerLeaves
  <2> QED BY <2>1, <2>2
<1> QED BY <1>1, <1>2, <1>3, <1>4, <1>5

\* What thread_pool_spawn_task_coroutine leaves of the entry of a task it starts.
LEMMA Starting ==
    ASSUME NEW p \in Producers, NEW b
    PROVE  LET q == [p EXCEPT !.stage = "running", !.entry = "listed", !.doomed = b]
           IN  q.stage = "running" /\ q.entry = "listed" /\ q.doomed = b
  BY DEF Producers

\* thread_pool_spawn_task_coroutine reads the flag again: a request that fell between is not lost.
LEMMA SpawnKeeps == ASSUME SharedInv, NEW t \in Tasks, Spawn(t) PROVE SharedInv'
<1> USE SharedAssumption DEF SharedInv, Spawn
<1>1. SharedTypeOK'
  <2>1. shared' \in [Shared -> SharedStates]
    BY Operations, SMT, SMTT(30) DEF SharedTypeOK, Shared
  <2>2. producer' \in [Shared -> Producers]
    <3>1. CASE producer' = [producer EXCEPT ![t] =
                              [@ EXCEPT !.stage = "running", !.entry = "listed",
                                        !.doomed = shared[t].requested]]
      <4>1. shared[t].requested \in BOOLEAN /\ "running" \in Stages
        BY DEF SharedTypeOK, Shared, SharedStates, Stages
      <4> QED BY <3>1, <4>1, TrackType DEF SharedTypeOK, Shared
    <3>2. CASE producer' = [producer EXCEPT ![t] = [@ EXCEPT !.stage = "failed", !.entry = "none"]]
      BY <3>2, EntryType DEF SharedTypeOK, Shared, Stages
    <3> QED BY <3>1, <3>2
  <2> QED BY <2>1, <2>2, SMT, SMTT(30) DEF SharedTypeOK, Shared, Idle
<1>2. Apart'
  BY DEF Apart, SharedTypeOK, Shared, UnbindCancel
<1>3. CASE /\ producer' = [producer EXCEPT ![t] =
                              [@ EXCEPT !.stage = "running", !.entry = "listed",
                                        !.doomed = shared[t].requested]]
           /\ shared' = shared
  <2>1. /\ producer'[t].stage = "running" /\ producer'[t].entry = "listed"
        /\ producer'[t].doomed <=> shared[t].requested
    <3>1. /\ producer'[t] = [producer[t] EXCEPT !.stage = "running", !.entry = "listed",
                                                !.doomed = shared[t].requested]
          /\ producer[t] \in Producers
      BY <1>3 DEF SharedTypeOK, Shared
    <3> HIDE DEF Spawn, SharedInv
    <3>2. /\ producer'[t].stage = "running" /\ producer'[t].entry = "listed"
          /\ producer'[t].doomed = shared[t].requested
      BY <3>1, Starting, SMT, SMTT(30)
    <3> QED BY <3>2
  <2>2. /\ \A u \in Shared \ {t} : producer'[u] = producer[u]
        /\ shared' = shared /\ handle' = handle /\ mailbox' = mailbox /\ consumer' = consumer
        /\ caller' = caller /\ worker' = worker /\ mode' = mode
        /\ producer[t].stage = "spawn" /\ t \in Shared \ States
    BY <1>3 DEF SharedTypeOK, Shared
  <2> HIDE DEF Spawn
  <2>3. ASSUME NEW u \in Shared PROVE Ends(u)'
    BY <2>1, <2>2, <2>3, SMT, SMTT(30) DEF Ends, OwnerLeaves, Holders
  <2>4. ASSUME NEW u \in Shared PROVE Listed(u)'
    BY <2>1, <2>2, <2>4, SMT, SMTT(30) DEF Listed, Served
  <2>5. ASSUME NEW u \in Shared PROVE Told(u)'
    BY <2>1, <2>2, <2>5 DEF Told, OwnerLeaves
  <2> QED BY <1>1, <1>2, <2>3, <2>4, <2>5
<1>4. CASE /\ producer' = [producer EXCEPT ![t] = [@ EXCEPT !.stage = "failed", !.entry = "none"]]
           /\ shared' = [shared EXCEPT ![t] = UnbindCancel(@)]
  <2>1. producer'[t].stage = "failed" /\ producer'[t].entry = "none"
    <3>1. /\ producer'[t] = [producer[t] EXCEPT !.stage = "failed", !.entry = "none"]
          /\ producer[t] \in Producers
      BY <1>4 DEF SharedTypeOK, Shared
    <3> HIDE DEF Spawn, SharedInv
    <3> QED BY <3>1 DEF Producers
  <2>2. /\ \A u \in Shared \ {t} : producer'[u] = producer[u] /\ shared'[u] = shared[u]
        /\ handle' = handle /\ mailbox' = mailbox /\ consumer' = consumer
        /\ caller' = caller /\ worker' = worker /\ mode' = mode
        /\ producer[t].stage = "spawn" /\ t \in Shared \ States
    BY <1>4 DEF SharedTypeOK, Shared
  <2>3. /\ ~shared'[t].bound
        /\ shared'[t].life = shared[t].life /\ shared'[t].refs = shared[t].refs
        /\ shared'[t].trigger = shared[t].trigger /\ shared'[t].value = shared[t].value
        /\ shared'[t].completed = shared[t].completed /\ shared'[t].requested = shared[t].requested
    BY <1>4, SMT, SMTT(30) DEF SharedTypeOK, Shared, SharedStates, UnbindCancel
  <2> HIDE DEF Spawn
  <2>4. ASSUME NEW u \in Shared PROVE Ends(u)'
    BY <2>1, <2>2, <2>3, <2>4, SMT, SMTT(30) DEF Ends, OwnerLeaves, Holders
  <2>5. ASSUME NEW u \in Shared PROVE Listed(u)'
    BY <2>1, <2>2, <2>3, <2>5, SMT, SMTT(30) DEF Listed, Served
  <2>6. ASSUME NEW u \in Shared PROVE Told(u)'
    BY <2>1, <2>2, <2>3, <2>6, SMT, SMTT(30) DEF Told, OwnerLeaves
  <2> QED BY <1>1, <1>2, <2>4, <2>5, <2>6
<1> QED BY <1>3, <1>4

\* pool_worker_cancel_notify cancels every listed task that was asked to stop.
LEMMA NotifyKeeps == ASSUME SharedInv, Notify PROVE SharedInv'
<1> USE SharedAssumption DEF SharedInv, Notify
<1>1. SharedTypeOK'
  <2>1. producer' \in [Shared -> Producers]
    <3>1. ASSUME NEW u \in Shared PROVE [producer[u] EXCEPT !.doomed = TRUE] \in Producers
      BY <3>1, DoomType DEF SharedTypeOK
    <3> QED BY <3>1 DEF SharedTypeOK
  <2> QED BY <2>1 DEF SharedTypeOK, Shared, Idle
<1>2. Apart'
  BY DEF Apart, SharedTypeOK, Shared
<1>3. ASSUME NEW u \in Shared PROVE Ends(u)'
  BY <1>3, SMT, SMTT(30) DEF SharedTypeOK, Consumers, Producers, Stages, Shared, Ends, OwnerLeaves, Holders
<1>4. ASSUME NEW u \in Shared PROVE Listed(u)'
  BY <1>4, SMT, SMTT(30) DEF SharedTypeOK, Producers, Stages, Shared, Listed
<1>5. ASSUME NEW u \in Shared PROVE Told(u)'
  BY <1>5 DEF SharedTypeOK, Producers, Stages, Shared, Told, OwnerLeaves
<1> QED BY <1>1, <1>2, <1>3, <1>4, <1>5

\* A body that ended is answered or forgotten next.
LEMMA EndKeeps == ASSUME SharedInv, NEW t \in Tasks, End(t) PROVE SharedInv'
<1> USE SharedAssumption DEF SharedInv, End
<1>1. SharedTypeOK'
  <2>1. producer' \in [Shared -> Producers]
    BY StageType DEF SharedTypeOK, Shared, Stages
  <2> QED BY <2>1 DEF SharedTypeOK, Shared, Idle
<1>2. Apart'
  BY DEF Apart, SharedTypeOK, Shared
<1>3. ASSUME NEW u \in Shared PROVE Ends(u)'
  BY <1>3, SMT, SMTT(30) DEF SharedTypeOK, Producers, Stages, Shared, Ends, OwnerLeaves, Holders
<1>4. ASSUME NEW u \in Shared PROVE Listed(u)'
  BY <1>4, SMT, SMTT(30) DEF SharedTypeOK, Producers, Stages, Shared, Listed
<1>5. ASSUME NEW u \in Shared PROVE Told(u)'
  BY <1>5, SMT, SMTT(30) DEF SharedTypeOK, Producers, Stages, Shared, Told, OwnerLeaves
<1> QED BY <1>1, <1>2, <1>3, <1>4, <1>5

\* pool_task_dispose completes or rejects the state while the task holds its reference.
LEMMA AnswerKeeps == ASSUME SharedInv, NEW t \in Tasks, Answer(t) PROVE SharedInv'
<1> USE SharedAssumption DEF SharedInv, Answer
<1>1. SharedTypeOK'
  <2>1. shared' \in [Shared -> SharedStates]
    <3>1. PICK v \in {"result", "error"} : Settle(t, v)
      OBVIOUS
    <3> QED BY <3>1, SettleType DEF SharedTypeOK, Shared, Settle
  <2>2. producer' \in [Shared -> Producers]
    BY StageType DEF SharedTypeOK, Shared, Stages
  <2> QED BY <2>1, <2>2, SMT, SMTT(30) DEF SharedTypeOK, Shared, Idle, Settle, Posted
<1>2. Apart'
  BY DEF Apart, SharedTypeOK, Shared, Settle, Posted
<1>3. ASSUME NEW u \in Shared PROVE Ends(u)'
  BY <1>3, SMT, SMTT(30) DEF SharedTypeOK, Consumers, Producers, Stages, Shared, Ends, OwnerLeaves, Holders, Settle, Posted
<1>4. ASSUME NEW u \in Shared PROVE Listed(u)'
  BY <1>4, SMT, SMTT(30) DEF SharedTypeOK, Producers, Stages, Shared, Listed, Served, Settle, Posted
<1>5. ASSUME NEW u \in Shared PROVE Told(u)'
  BY <1>5, SMT, SMTT(30) DEF SharedTypeOK, SharedStates, Producers, Stages, Shared, Ends, Told, OwnerLeaves, Holders, Settle, Posted
<1> QED BY <1>1, <1>2, <1>3, <1>4, <1>5

\* pool_worker_cancel_forget unbinds the state with the entry it removes.
LEMMA ForgetKeeps == ASSUME SharedInv, NEW t \in Tasks, Forget(t) PROVE SharedInv'
<1> USE SharedAssumption DEF SharedInv, Forget
<1>1. SharedTypeOK'
  <2>1. shared' \in [Shared -> SharedStates]
    BY Operations DEF SharedTypeOK, Shared
  <2>2. producer' \in [Shared -> Producers]
    BY EntryType DEF SharedTypeOK, Shared, Stages
  <2> QED BY <2>1, <2>2, SMT, SMTT(30) DEF SharedTypeOK, Shared, Idle
<1>2. Apart'
  BY DEF Apart, SharedTypeOK, Shared, UnbindCancel
<1>3. ASSUME NEW u \in Shared PROVE Ends(u)'
  <2>1. CASE u = t
    BY <1>3, <2>1, SMT, SMTT(30) DEF SharedTypeOK, SharedStates, Consumers, Producers, Stages, Shared, Ends, OwnerLeaves, Holders, Served, UnbindCancel
  <2>2. CASE u # t
    BY <1>3, <2>2, SMT, SMTT(30) DEF SharedTypeOK, Shared, Ends, OwnerLeaves, Holders, Served
  <2> QED BY <2>1, <2>2
<1>4. ASSUME NEW u \in Shared PROVE Listed(u)'
  <2>1. CASE u = t
    BY <1>4, <2>1, SMT, SMTT(30) DEF SharedTypeOK, SharedStates, Consumers, Producers, Stages, Shared, Ends, Listed, Apart, Served, UnbindCancel
  <2>2. CASE u # t
    BY <1>4, <2>2 DEF SharedTypeOK, Shared, Listed, Served
  <2> QED BY <2>1, <2>2
<1>5. ASSUME NEW u \in Shared PROVE Told(u)'
  <2>1. CASE u = t
    BY <1>5, <2>1, SMT, SMTT(30) DEF SharedTypeOK, SharedStates, Consumers, Producers, Stages, Shared, Ends, Told, OwnerLeaves, Holders, UnbindCancel
  <2>2. CASE u # t
    BY <1>5, <2>2 DEF SharedTypeOK, Shared, Told, OwnerLeaves
  <2> QED BY <2>1, <2>2
<1> QED BY <1>1, <1>2, <1>3, <1>4, <1>5

\* The task gives up its reference after its answer.
LEMMA TaskUnrefKeeps == ASSUME SharedInv, NEW t \in Tasks, TaskUnref(t) PROVE SharedInv'
<1> USE SharedAssumption DEF SharedInv, TaskUnref
<1>1. SharedTypeOK'
  <2>1. shared' \in [Shared -> SharedStates]
    BY Operations DEF SharedTypeOK, Shared
  <2>2. producer' \in [Shared -> Producers]
    BY StageType DEF SharedTypeOK, Shared, Stages
  <2> QED BY <2>1, <2>2 DEF SharedTypeOK, Shared, Idle
<1>2. Apart'
  BY DEF Apart, SharedTypeOK, Shared, DelRef
<1>3. ASSUME NEW u \in Shared PROVE Ends(u)'
  BY <1>3, SMT, SMTT(30) DEF SharedTypeOK, SharedStates, Producers, Stages, Shared, Ends, Listed, OwnerLeaves, Holders, DelRef
<1>4. ASSUME NEW u \in Shared PROVE Listed(u)'
  BY <1>4, SMT, SMTT(30) DEF SharedTypeOK, Producers, Stages, Shared, Listed, Served, DelRef
<1>5. ASSUME NEW u \in Shared PROVE Told(u)'
  BY <1>5, SMT, SMTT(30) DEF SharedTypeOK, Producers, Stages, Shared, Told, OwnerLeaves, DelRef
<1> QED BY <1>1, <1>2, <1>3, <1>4, <1>5

\* A worker that leaves, or bails out, has only tasks whose states are in its table.
LEMMA LeaveKeeps == ASSUME SharedInv, Leave PROVE SharedInv'
<1> USE SharedAssumption DEF SharedInv, Leave
<1>1. SharedTypeOK'
  <2>1. producer' \in [Shared -> Producers]
    BY StageType DEF SharedTypeOK, Shared, Stages
  <2> QED BY <2>1 DEF SharedTypeOK, Shared, Idle
<1>2. Apart'
  BY DEF Apart, SharedTypeOK, Shared
<1>3. ASSUME NEW u \in Shared PROVE Ends(u)'
  BY <1>3, SMT, SMTT(30) DEF SharedTypeOK, Producers, Stages, Shared, Ends, Listed, OwnerLeaves, Holders, Served
<1>4. ASSUME NEW u \in Shared PROVE Listed(u)'
  BY <1>4, SMT, SMTT(30) DEF SharedTypeOK, Producers, Stages, Shared, Listed, Served
<1>5. ASSUME NEW u \in Shared PROVE Told(u)'
  BY <1>5 DEF SharedTypeOK, Producers, Stages, Shared, Told, OwnerLeaves
<1> QED BY <1>1, <1>2, <1>3, <1>4, <1>5

\* pool_worker_cancel_destroy unbinds one state.
LEMMA SweepKeeps == ASSUME SharedInv, NEW t \in Tasks, Sweep(t) PROVE SharedInv'
<1> USE SharedAssumption DEF SharedInv, Sweep
<1>1. SharedTypeOK'
  <2>1. shared' \in [Shared -> SharedStates]
    BY Operations DEF SharedTypeOK, Shared
  <2>2. producer' \in [Shared -> Producers]
    <3>1. "none" \in Stages
      BY DEF Stages
    <3> QED BY <3>1, EntryType DEF SharedTypeOK, Shared
  <2> QED BY <2>1, <2>2 DEF SharedTypeOK, Shared, Idle
<1>2. Apart'
  BY DEF Apart, SharedTypeOK, Shared, UnbindCancel
<1>3. ASSUME NEW u \in Shared PROVE Ends(u)'
  BY <1>3, SMT, SMTT(30) DEF SharedTypeOK, Producers, Stages, Shared, Ends, OwnerLeaves, Holders, UnbindCancel
<1>4. ASSUME NEW u \in Shared PROVE Listed(u)'
  BY <1>4, SMT, SMTT(30) DEF SharedTypeOK, Producers, Stages, Shared, Listed, Served, UnbindCancel
<1>5. ASSUME NEW u \in Shared PROVE Told(u)'
  BY <1>5, SMT, SMTT(30) DEF SharedTypeOK, Producers, Stages, Shared, Told, OwnerLeaves, UnbindCancel
<1> QED BY <1>1, <1>2, <1>3, <1>4, <1>5

\* The mailbox is disposed when no state is bound to it.
LEMMA SweptKeeps == ASSUME SharedInv, Swept PROVE SharedInv'
<1> USE SharedAssumption DEF SharedInv, Swept
<1>1. SharedTypeOK'
  <2> QED BY DEF SharedTypeOK, Shared, Idle
<1>2. Apart'
  BY DEF Apart, SharedTypeOK, Shared
<1>3. ASSUME NEW u \in Shared PROVE Ends(u)'
  BY <1>3, SMT, SMTT(30) DEF SharedTypeOK, Producers, Stages, Shared, Ends, OwnerLeaves, Holders
<1>4. ASSUME NEW u \in Shared PROVE Listed(u)'
  BY <1>4 DEF SharedTypeOK, Producers, Stages, Shared, Listed, Served
<1>5. ASSUME NEW u \in Shared PROVE Told(u)'
  BY <1>5 DEF SharedTypeOK, Producers, Stages, Shared, Told, OwnerLeaves
<1> QED BY <1>1, <1>2, <1>3, <1>4, <1>5

\* The destination thread takes over the reference of the copy.
LEMMA LoadKeeps == ASSUME SharedInv, NEW t \in States, Load(t) PROVE SharedInv'
<1> USE SharedAssumption DEF SharedInv, Load
<1>1. SharedTypeOK'
  <2>1. producer' \in [Shared -> Producers]
    BY StageType DEF SharedTypeOK, Shared, Stages
  <2> QED BY <2>1 DEF SharedTypeOK, Shared, Idle
<1>2. Apart'
  BY DEF Apart, SharedTypeOK, Shared
<1>3. ASSUME NEW u \in Shared PROVE Ends(u)'
  BY <1>3, SMT, SMTT(30) DEF SharedTypeOK, Producers, Stages, Shared, Ends, OwnerLeaves, Holders
<1>4. ASSUME NEW u \in Shared PROVE Listed(u)'
  BY <1>4, SMT, SMTT(30) DEF SharedTypeOK, Producers, Stages, Shared, Listed, Served
<1>5. ASSUME NEW u \in Shared PROVE Told(u)'
  BY <1>5, SMT, SMTT(30) DEF SharedTypeOK, Producers, Stages, Shared, Told, OwnerLeaves
<1> QED BY <1>1, <1>2, <1>3, <1>4, <1>5

\* complete() and error() of the destination thread settle the state once.
LEMMA FulfilKeeps == ASSUME SharedInv, NEW t \in States, NEW v \in {"result", "error"}, Fulfil(t, v) PROVE SharedInv'
<1> USE SharedAssumption DEF SharedInv, Fulfil
<1>1. SharedTypeOK'
  <2>1. shared' \in [Shared -> SharedStates]
    BY SettleType DEF SharedTypeOK, Shared, Settle
  <2>2. producer' \in [Shared -> Producers]
    BY StageType DEF SharedTypeOK, Shared, Stages
  <2> QED BY <2>1, <2>2, SMT, SMTT(30) DEF SharedTypeOK, Shared, Idle, Settle, Posted
<1>2. Apart'
  BY DEF Apart, SharedTypeOK, Shared, Settle, Posted
<1>3. ASSUME NEW u \in Shared PROVE Ends(u)'
  BY <1>3, SMT, SMTT(30) DEF SharedTypeOK, Producers, Stages, Shared, Ends, OwnerLeaves, Holders, Settle, Posted
<1>4. ASSUME NEW u \in Shared PROVE Listed(u)'
  BY <1>4, SMT, SMTT(30) DEF SharedTypeOK, Producers, Stages, Shared, Listed, Served, Settle, Posted
<1>5. ASSUME NEW u \in Shared PROVE Told(u)'
  BY <1>5, SMT, SMTT(30) DEF SharedTypeOK, SharedStates, Producers, Stages, Shared, Ends, Told, OwnerLeaves, Holders, Settle, Posted
<1> QED BY <1>1, <1>2, <1>3, <1>4, <1>5

\* The destination's object gives up its reference.
LEMMA LetGoKeeps == ASSUME SharedInv, NEW t \in States, LetGo(t) PROVE SharedInv'
<1> USE SharedAssumption DEF SharedInv, LetGo
<1>1. SharedTypeOK'
  <2>1. shared' \in [Shared -> SharedStates]
    BY Operations DEF SharedTypeOK, Shared
  <2>2. producer' \in [Shared -> Producers]
    BY StageType DEF SharedTypeOK, Shared, Stages
  <2> QED BY <2>1, <2>2, SMT, SMTT(30) DEF SharedTypeOK, Shared, Idle
<1>2. Apart'
  BY DEF Apart, SharedTypeOK, Shared, DelRef
<1>3. ASSUME NEW u \in Shared PROVE Ends(u)'
  <2>1. CASE u = t
    BY <1>3, <2>1, SMT, SMTT(30) DEF SharedTypeOK, SharedStates, Producers, Stages, Shared, Ends, Listed, OwnerLeaves, Holders, DelRef
  <2>2. CASE u # t
    <3>1. shared'[u] = shared[u] /\ producer'[u] = producer[u]
      BY <1>3, <2>2 DEF SharedTypeOK, Shared
    <3>2. Ends(u) /\ handle'[u] = handle[u] /\ consumer'[u] = consumer[u]
      BY <1>3
    <3>3. Holders(u)' = Holders(u)
      BY <3>1, <3>2 DEF Holders
    <3>4. \A steps : OwnerLeaves(u, steps)' <=> OwnerLeaves(u, steps)
      BY DEF OwnerLeaves
    <3> QED BY <3>1, <3>2, <3>3, <3>4, SMT, SMTT(30) DEF Ends
  <2> QED BY <2>1, <2>2
<1>4. ASSUME NEW u \in Shared PROVE Listed(u)'
  BY <1>4, SMT, SMTT(30) DEF SharedTypeOK, Producers, Stages, Shared, Listed, Served, DelRef
<1>5. ASSUME NEW u \in Shared PROVE Told(u)'
  BY <1>5, SMT, SMTT(30) DEF SharedTypeOK, Producers, Stages, Shared, Told, OwnerLeaves, DelRef
<1> QED BY <1>1, <1>2, <1>3, <1>4, <1>5

-----------------------------------------------------------------------------
\* Every step of the thread that owns the futures keeps the invariant.
LEMMA ConsumerKeeps == ASSUME SharedInv, ConsumerStep PROVE SharedInv'
<1>1. CASE CallerStep
  BY <1>1, SeverKeeps, CloseKeeps, OwnerUnrefKeeps, DrainRejectKeeps, DrainUnrefKeeps DEF CallerStep
<1>2. ASSUME NEW t \in Shared, Cancel(t) \/ Deliver(t) PROVE SharedInv'
  BY <1>2, CancelKeeps, DeliverKeeps
<1>3. ASSUME NEW t \in Tasks, Submit(t) \/ Watch(t) \/ Ignore(t) \/ Drop(t) \/ Drain(t)
      PROVE  SharedInv'
  BY <1>3, SubmitKeeps, WatchKeeps, IgnoreKeeps, DropKeeps, DrainKeeps
<1>4. ASSUME NEW t \in States, HandOver(t) \/ DropState(t) PROVE SharedInv'
  BY <1>4, HandOverKeeps, DropStateKeeps
<1>5. ASSUME NEW t \in States, NEW v \in {"result", "error"}, Resolve(t, v) PROVE SharedInv'
  BY <1>5, ResolveKeeps
<1> QED BY <1>1, <1>2, <1>3, <1>4, <1>5 DEF ConsumerStep

\* Every step of the worker, its leaving included, keeps the invariant.
LEMMA WorkerKeeps == ASSUME SharedInv, WorkerStep PROVE SharedInv'
<1>1. CASE Notify \/ Leave \/ Swept
  BY <1>1, NotifyKeeps, LeaveKeeps, SweptKeeps
<1>2. ASSUME NEW t \in Tasks, Take(t) \/ Refuse(t) \/ Prepare(t) \/ Track(t) \/ Spawn(t)
      PROVE  SharedInv'
  BY <1>2, TakeKeeps, RefuseKeeps, PrepareKeeps, TrackKeeps, SpawnKeeps
<1>3. ASSUME NEW t \in Tasks, End(t) \/ Answer(t) \/ Forget(t) \/ TaskUnref(t) \/ Sweep(t)
      PROVE  SharedInv'
  BY <1>3, EndKeeps, AnswerKeeps, ForgetKeeps, TaskUnrefKeeps, SweepKeeps
<1> QED BY <1>1, <1>2, <1>3 DEF WorkerStep

\* Every step of the thread a FutureState was handed over to keeps it.
LEMMA ThreadKeeps == ASSUME SharedInv, ThreadStep PROVE SharedInv'
<1>1. ASSUME NEW t \in States, Load(t) \/ LetGo(t) PROVE SharedInv'
  BY <1>1, LoadKeeps, LetGoKeeps
<1>2. ASSUME NEW t \in States, NEW v \in {"result", "error"}, Fulfil(t, v) PROVE SharedInv'
  BY <1>2, FulfilKeeps
<1> QED BY <1>1, <1>2 DEF ThreadStep

\* The invariant reads the shared states and both ends, and nothing else.
LEMMA StutterKeeps == ASSUME SharedInv, UNCHANGED sharedVars PROVE SharedInv'
  BY SMT, SMTT(30) DEF sharedVars, SharedInv, SharedTypeOK, Apart, Ends, Listed, Told, OwnerLeaves, Holders, Served

\* In every interleaving of the three threads the ends of every state stand
\* to each other as Ends, Listed and Told say.
THEOREM SharedInvariant == SharedSpec => []SharedInv
<1>1. SharedInv /\ [SharedNext]_sharedVars => SharedInv'
  BY ConsumerKeeps, WorkerKeeps, ThreadKeeps, StutterKeeps DEF SharedNext
<1> QED BY <1>1, InitEstablishes, PTL DEF SharedSpec

\* For any number of tasks and handed-over FutureStates: no fire reaches a
\* disposed trigger and every state is freed by its second end, in whatever
\* order remote_future_dispose, async_future_state_object_free, the worker's
\* answers and pool_worker_cancel_destroy run.
THEOREM BothEndsMayLeave == SharedSpec => []NothingDangles
<1>1. SharedInv => NothingDangles
  BY DEF SharedInv, Ends, Listed, NothingDangles, PointersAreLive, RefsCounted
<1> QED BY <1>1, SharedInvariant, PTL

\* For any number of tasks: a request that async_future_shared_state_request_cancel
\* made reaches the task that runs, and the answer of a task that is done waits
\* for its owner.
THEOREM NothingGetsLost == SharedSpec => []NothingIsLost
<1>1. SharedInv => NothingIsLost
  BY DEF SharedInv, Shared, Listed, Told, NothingIsLost, CancelIsHeard, AnswersArrive
<1> QED BY <1>1, SharedInvariant, PTL
=============================================================================
