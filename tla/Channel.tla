---------------------------- MODULE Channel ----------------------------
(* channel.c: Async\Channel, the bounded buffer (capacity > 0) or         *)
(* rendezvous slot (capacity = 0) through which coroutines of one thread  *)
(* pass values.                                                           *)
(*                                                                        *)
(* A coroutine runs undisturbed between two suspensions, so one action is *)
(* one stretch of a handler: from the call to its return or its           *)
(* ZEND_ASYNC_SUSPEND, and from the wakeup to the return or the next      *)
(* suspension.  A wakeup only queues a coroutine; the scheduler runs the  *)
(* queued coroutines later, here in any order, and other coroutines,      *)
(* cancellations, a close or the deadlock timer may come in between.      *)
(* What a woken waiter was promised is kept for it by a reservation.      *)
(*                                                                        *)
(* The struct async_channel_t and the wakers of the coroutines are one    *)
(* record, ch, and the functions of channel.c are operators from record   *)
(* to record, composed as the code composes them.                         *)
EXTENDS Naturals, Sequences, FiniteSets

CONSTANTS
    Coroutines,         \* the coroutines that use the channel
    Futures,            \* the futures recvAsync() may create
    capacity,           \* 0: rendezvous, > 0: size of the buffer
    MaxSends,           \* bound: number of messages sent altogether
    no_producer_timeout,\* TRUE: the timeout is positive
    no_consumer_timeout,\* TRUE: the timeout is positive
    hard_timeouts,      \* TRUE: the timer keeps the loop alive
    Tokens,             \* TRUE: calls may carry a cancellation token
    SendAsync,          \* TRUE: sendAsync() is called
    DropFutures         \* TRUE: a pending future may be dropped

ASSUME ChannelAssumption ==
    /\ IsFiniteSet(Coroutines)
    /\ Coroutines \cap Futures = {}
    /\ capacity \in Nat
    /\ MaxSends \in Nat
    /\ {no_producer_timeout, no_consumer_timeout, hard_timeouts} \subseteq BOOLEAN

VARIABLES
    ch,         \* the channel and the wakers of the coroutines
    pc,         \* where each coroutine is: "run", or inside channel_wait_for
    value,      \* the message a coroutine is sending
    token,      \* its cancellation token: "none", "live" or "fired"
    told        \* what the caller of send was told of each message

vars == <<ch, pc, value, token, told>>

Messages == 1..MaxSends
NoMessage == 0
Waiters == Coroutines \cup Futures
CloseReasons ==
    {"EXPLICIT", "DISPOSED", "NO_PRODUCERS", "NO_CONSUMERS", "DEADLOCK", "SCOPE_DISPOSED"}

-----------------------------------------------------------------------
(* Helpers.  The rendezvous slot is a buffer for one value.               *)

is_buffered == capacity > 0

Room == IF is_buffered THEN capacity ELSE 1

Holds(s) == Len(s.buffer)

free_space(s) == Room - Len(s.buffer)

\* Mutant: values promised to woken receivers count as free.
has_free_value_unreserved(s) == Holds(s) > 0

has_free_value(s) == Holds(s) > s.reserved_receivers

has_free_slot(s) == free_space(s) > s.reserved_senders

take_value(s) ==
    [s EXCEPT !.buffer = Tail(@),
              !.committed = FALSE,
              !.taken = Append(@, Head(s.buffer))]

put_value(s, v) ==
    [s EXCEPT !.buffer = Append(@, v),
              !.committed = FALSE,
              !.accepted = Append(@, v)]

\* The rendezvous value is dropped: nobody will receive it.
withdraw_value(s) ==
    [s EXCEPT !.buffer = <<>>]

channel_queue_remove_at(queue, index) ==
    [i \in 1..Len(queue) - 1 |-> IF i < index THEN queue[i] ELSE queue[i + 1]]

InQueue(queue, w) == \E i \in DOMAIN queue : queue[i] = w

channel_queue_remove(queue, w) ==
    IF InQueue(queue, w)
    THEN channel_queue_remove_at(queue, CHOOSE i \in DOMAIN queue : queue[i] = w)
    ELSE queue

\* The places of the waiters with nothing promised to them yet.
Unreserved(s, queue) ==
    {i \in DOMAIN queue :
        queue[i] \notin s.value_kept \cup s.slot_kept \cup s.delivering}

channel_queue_first_unreserved(s, queue) ==
    queue[CHOOSE i \in Unreserved(s, queue) : \A j \in Unreserved(s, queue) : i <= j]

-----------------------------------------------------------------------
(* Wakers (coroutine.c, async_coroutine_resume): a resumed coroutine is   *)
(* queued once; a later error joins an earlier one, and a cancellation    *)
(* never replaces it.                                                     *)

Resumed(s, c, e) ==
    [s EXCEPT !.queued = @ \cup {c},
              !.error[c] = IF e = "none" \/ (e = "cancelled" /\ @ # "none") THEN @ ELSE e]

-----------------------------------------------------------------------
(* The deadlock timer.  timer is "off" or the reason it would close with. *)

channel_arm_deadlock_timer(s, reason) ==
    LET timeout == IF reason = "NO_PRODUCERS" THEN no_producer_timeout
                                              ELSE no_consumer_timeout
    IN  [s EXCEPT !.timer = IF timeout /\ ~s.closed THEN reason ELSE "off"]

\* Mutant: a waiter that holds a reservation counts as starving.
channel_refresh_deadlock_timer_all(s) ==
    LET has_recv == Len(s.receivers) > 0
        has_send == Len(s.senders) > 0
        reason == IF has_recv THEN "NO_PRODUCERS" ELSE "NO_CONSUMERS"
    IN  IF ~has_recv /\ ~has_send THEN [s EXCEPT !.timer = "off"]
        ELSE IF s.timer = reason THEN s
        ELSE channel_arm_deadlock_timer(s, reason)

channel_refresh_deadlock_timer(s) ==
    LET has_recv == Len(s.receivers) > s.reserved_receivers
        has_send == Len(s.senders) > s.reserved_senders
        reason == IF has_recv THEN "NO_PRODUCERS" ELSE "NO_CONSUMERS"
    IN  IF ~has_recv /\ ~has_send THEN [s EXCEPT !.timer = "off"]
        ELSE IF s.timer = reason THEN s
        ELSE channel_arm_deadlock_timer(s, reason)

-----------------------------------------------------------------------
(* Wake operations.                                                       *)

channel_wake_delivered_sender(s) ==
    LET waiting == {c \in s.delivering : InQueue(s.senders, c)}
        c == CHOOSE x \in waiting : TRUE
    IN  IF is_buffered \/ s.buffer # <<>> \/ waiting = {} THEN s
        ELSE channel_refresh_deadlock_timer(
                 Resumed([s EXCEPT !.senders = channel_queue_remove(@, c)], c, "none"))

channel_wake_sender(s0) ==
    LET s == channel_wake_delivered_sender(s0)
        c == channel_queue_first_unreserved(s, s.senders)
    IN  IF ~has_free_slot(s) \/ Unreserved(s, s.senders) = {} THEN s
        ELSE channel_refresh_deadlock_timer(
                 Resumed([s EXCEPT !.slot_kept = @ \cup {c},
                                   !.reserved_senders = @ + 1], c, "none"))

\* Whether channel_wake_receiver finds a value and somebody to give it to.
WakesReceiver(s) == has_free_value(s) /\ Unreserved(s, s.receivers) # {}

channel_wake_receiver(s) ==
    LET w == channel_queue_first_unreserved(s, s.receivers)
    IN  IF ~WakesReceiver(s) THEN s
        ELSE IF w \in Futures
        THEN channel_refresh_deadlock_timer(
                 channel_wake_sender(
                     [take_value([s EXCEPT !.receivers = channel_queue_remove(@, w)])
                         EXCEPT !.future[w] = "resolved"]))
        ELSE channel_refresh_deadlock_timer(
                 Resumed([s EXCEPT !.value_kept = @ \cup {w},
                                   !.reserved_receivers = @ + 1], w, "none"))

\* Mutant: close() fails the receivers only.
channel_wake_all_receivers(s) ==
    LET keeps(w) == w \in s.value_kept
        failed == {c \in Coroutines : InQueue(s.receivers, c) /\ ~keeps(c)}
    IN  [s EXCEPT !.receivers = SelectSeq(@, keeps),
                  !.queued = @ \cup failed,
                  !.error = [c \in Coroutines |-> IF c \in failed THEN "closed" ELSE @[c]]]

\* Every waiter fails, except a receiver that holds a reservation.
channel_wake_all(s) ==
    LET keeps(w) == w \in s.value_kept
        failed == {c \in Coroutines : \/ InQueue(s.receivers, c) /\ ~keeps(c)
                                      \/ InQueue(s.senders, c)}
    IN  [s EXCEPT !.receivers = SelectSeq(@, keeps),
                  !.senders = <<>>,
                  !.future = [f \in Futures |->
                                 IF InQueue(s.receivers, f) THEN "rejected" ELSE @[f]],
                  !.queued = @ \cup failed,
                  !.error = [c \in Coroutines |-> IF c \in failed THEN "closed" ELSE @[c]]]

\* Mutant: close() drops buffered values as well.
RollBack_buffered(s) == IF s.buffer # <<>> THEN withdraw_value(s) ELSE s

\* A message that send() could not hand over is taken back.
RollBack(s) ==
    IF ~is_buffered /\ s.buffer # <<>> /\ ~s.committed THEN withdraw_value(s) ELSE s

channel_close(s, reason) ==
    IF s.closed THEN s
    ELSE RollBack(channel_wake_all(
             [s EXCEPT !.closed = TRUE, !.close_reason = reason, !.timer = "off"]))

-----------------------------------------------------------------------
(* channel_wait_for, up to its suspension and from its wakeup on.         *)

ParkReceiver(s, c) ==
    channel_refresh_deadlock_timer(
        [s EXCEPT !.receivers = Append(@, c), !.error[c] = "none"])

ParkSender(s, c, delivering) ==
    channel_refresh_deadlock_timer(
        [s EXCEPT !.senders = Append(@, c), !.error[c] = "none",
                  !.delivering = IF delivering THEN @ \cup {c} ELSE @])

\* Mutant: a receiver that fails keeps its reservation to itself.
ReceiverWoken_keeps(s, c) ==
    channel_refresh_deadlock_timer(
        [s EXCEPT !.receivers = channel_queue_remove(@, c),
                  !.value_kept = @ \ {c},
                  !.queued = @ \ {c},
                  !.reserved_receivers = IF c \in s.value_kept THEN @ - 1 ELSE @])

\* A receiver leaves: it spends its reservation in the retry that follows,
\* or, when it was woken with an exception, hands it on.
ReceiverWoken(s, c) ==
    LET had_reservation == c \in s.value_kept
        left == [s EXCEPT !.receivers = channel_queue_remove(@, c),
                          !.value_kept = @ \ {c},
                          !.queued = @ \ {c},
                          !.reserved_receivers = IF had_reservation THEN @ - 1 ELSE @]
        hand_on == had_reservation /\ s.error[c] # "none" /\ ~s.closed
    IN  channel_refresh_deadlock_timer(
            IF hand_on THEN channel_wake_receiver(left) ELSE left)

\* Mutant: a rendezvous sender that fails leaves its value in the slot.
SenderWoken_forgets(s, c) ==
    LET had_reservation == c \in s.slot_kept
        left == [s EXCEPT !.senders = channel_queue_remove(@, c),
                          !.slot_kept = @ \ {c},
                          !.delivering = @ \ {c},
                          !.queued = @ \ {c},
                          !.reserved_senders = IF had_reservation THEN @ - 1 ELSE @]
    IN  channel_refresh_deadlock_timer(
            IF had_reservation /\ s.error[c] # "none" /\ ~s.closed
            THEN channel_wake_sender(left) ELSE left)

\* A sender leaves: one that was waiting for a slot as above; one whose own
\* value is still in the rendezvous slot takes it back when it was woken
\* with an exception, and passes the slot on.
SenderWoken(s, c) ==
    LET had_reservation == c \in s.slot_kept
        unheard == c \in s.delivering /\ InQueue(s.senders, c)
        left == [s EXCEPT !.senders = channel_queue_remove(@, c),
                          !.slot_kept = @ \ {c},
                          !.delivering = @ \ {c},
                          !.queued = @ \ {c},
                          !.reserved_senders = IF had_reservation THEN @ - 1 ELSE @]
        cleared == IF unheard /\ s.error[c] # "none" THEN RollBack(left) ELSE left
        hand_on == unheard \/ (had_reservation /\ s.error[c] # "none")
    IN  channel_refresh_deadlock_timer(
            IF hand_on /\ ~s.closed THEN channel_wake_sender(cleared) ELSE cleared)

-----------------------------------------------------------------------
(* send() and recv() from their retry label on.  The coroutine returns,   *)
(* throws, or parks; a token that has fired throws before it parks.       *)

Return(c) ==
    /\ pc' = [pc EXCEPT ![c] = "run"]
    /\ value' = [value EXCEPT ![c] = NoMessage]
    /\ token' = [token EXCEPT ![c] = "none"]

Park(c, where, v, t) ==
    /\ pc' = [pc EXCEPT ![c] = where]
    /\ value' = [value EXCEPT ![c] = v]
    /\ token' = [token EXCEPT ![c] = t]

Tell(v, what) == told' = [told EXCEPT ![v] = what]

SendFrom(s, c, v, t, has_reservation) ==
    LET put == put_value(s, v)
        woken == channel_wake_receiver(put)
        admitted == ~s.closed /\ (has_reservation \/ has_free_slot(s))
    IN  \/ /\ s.closed \/ (~admitted /\ t = "fired")
           /\ ch' = s
           /\ Return(c) /\ Tell(v, "failed")
        \/ /\ admitted /\ is_buffered
           /\ ch' = woken
           /\ Return(c) /\ Tell(v, "sent")
        \/ /\ admitted /\ ~is_buffered /\ WakesReceiver(put)
           /\ ch' = [woken EXCEPT !.committed = woken.buffer # <<>>]
           /\ Return(c) /\ Tell(v, "sent")
        \/ /\ admitted /\ ~is_buffered /\ ~WakesReceiver(put)
           /\ \/ /\ t = "fired"
                 /\ ch' = put
                 /\ Return(c) /\ Tell(v, "failed")
              \/ /\ t # "fired"
                 /\ ch' = ParkSender(put, c, TRUE)
                 /\ Park(c, "delivery", v, t) /\ Tell(v, "pending")
        \/ /\ ~s.closed /\ ~admitted /\ t # "fired"
           /\ ch' = ParkSender(s, c, FALSE)
           /\ Park(c, "space", v, t) /\ Tell(v, "pending")

\* recv() and the step of the foreach iterator, which differ only in how
\* the end of a closed channel is reported.
RecvFrom(s, c, t, has_reservation) ==
    LET admitted == has_reservation \/ has_free_value(s)
    IN  \/ /\ admitted
           /\ ch' = channel_wake_sender(take_value(s))
           /\ Return(c) /\ UNCHANGED told
        \/ /\ ~admitted
           /\ s.closed \/ t = "fired"
           /\ ch' = s
           /\ Return(c) /\ UNCHANGED told
        \/ /\ ~admitted /\ ~s.closed /\ t # "fired"
           /\ ch' = ParkReceiver(s, c)
           /\ Park(c, "recv", NoMessage, t) /\ UNCHANGED told

-----------------------------------------------------------------------
(* The operations.                                                        *)

NextMessage == Cardinality({v \in Messages : told[v] # "unsent"}) + 1

TokenChoice == IF Tokens THEN {"none", "live"} ELSE {"none"}

send(c, t) ==
    /\ pc[c] = "run"
    /\ NextMessage \in Messages
    /\ SendFrom(ch, c, NextMessage, t, FALSE)

recv(c, t) ==
    /\ pc[c] = "run"
    /\ RecvFrom(ch, c, t, FALSE)

sendAsync ==
    /\ SendAsync
    /\ NextMessage \in Messages
    /\ ~ch.closed /\ has_free_slot(ch)
    /\ LET put == put_value(ch, NextMessage)
           woken == channel_wake_receiver(put)
       IN  ch' = [woken EXCEPT !.committed =
                     ~is_buffered /\ WakesReceiver(put) /\ woken.buffer # <<>>]
    /\ Tell(NextMessage, "async")
    /\ UNCHANGED <<pc, value, token>>

recvAsync(f) ==
    /\ ch.future[f] = "unused"
    /\ \/ /\ has_free_value(ch)
          /\ ch' = [channel_wake_sender(take_value(ch)) EXCEPT !.future[f] = "resolved"]
       \/ /\ ~has_free_value(ch) /\ ch.closed
          /\ ch' = [ch EXCEPT !.future[f] = "rejected"]
       \/ /\ ~has_free_value(ch) /\ ~ch.closed
          /\ ch' = [ch EXCEPT !.future[f] = "pending", !.receivers = Append(@, f)]
    /\ UNCHANGED <<pc, value, token, told>>

channel_recv_future_dispose(f) ==
    /\ DropFutures
    /\ ch.future[f] = "pending"
    /\ ch' = [ch EXCEPT !.future[f] = "dropped",
                        !.receivers = channel_queue_remove(@, f)]
    /\ UNCHANGED <<pc, value, token, told>>

close(reason) ==
    /\ ~ch.closed
    /\ ch' = channel_close(ch, reason)
    /\ UNCHANGED <<pc, value, token, told>>

\* The timer fires in the scheduler.
channel_deadlock_fire ==
    /\ ch.timer # "off"
    /\ close(ch.timer)

\* Nothing can run: the scheduler closes the channels with a soft timer.
async_channel_resolve_deadlocks ==
    /\ ~hard_timeouts /\ ch.timer # "off"
    /\ \A c \in Coroutines : pc[c] # "run" /\ c \notin ch.queued
    /\ close("DEADLOCK")

\* The scheduler runs a woken receiver or sender.
resume_receiver(c) ==
    /\ pc[c] = "recv" /\ c \in ch.queued
    /\ LET s == ReceiverWoken(ch, c)
       IN  \/ /\ ch.error[c] # "none"
              /\ ch' = [s EXCEPT !.error[c] = "none"]
              /\ Return(c) /\ UNCHANGED told
           \/ /\ ch.error[c] = "none"
              /\ RecvFrom(s, c, token[c], c \in ch.value_kept)

resume_sender(c) ==
    /\ pc[c] \in {"space", "delivery"} /\ c \in ch.queued
    /\ LET s == SenderWoken(ch, c)
       IN  \/ /\ ch.error[c] # "none"
              /\ ch' = [s EXCEPT !.error[c] = "none"]
              /\ Return(c) /\ Tell(value[c], "failed")
           \/ /\ ch.error[c] = "none" /\ pc[c] = "delivery"
              /\ ch' = s
              /\ Return(c) /\ Tell(value[c], "sent")
           \/ /\ ch.error[c] = "none" /\ pc[c] = "space"
              /\ SendFrom(s, c, value[c], token[c], c \in ch.slot_kept)

\* Coroutine::cancel() on a coroutine that waits, or was woken and has not
\* run: the cancellation takes the place of whatever woke it.
cancel(c) ==
    /\ pc[c] # "run"
    /\ ch' = [ch EXCEPT !.queued = @ \cup {c}, !.error[c] = "cancelled"]
    /\ UNCHANGED <<pc, value, token, told>>

\* The token fires.  A coroutine that was woken before does not listen to
\* it any more: its wakeup removed it from the events it waited for.
token_fires(c) ==
    /\ token[c] = "live"
    /\ token' = [token EXCEPT ![c] = "fired"]
    /\ ch' = IF c \in ch.queued THEN ch ELSE Resumed(ch, c, "cancelled")
    /\ UNCHANGED <<pc, value, told>>

-----------------------------------------------------------------------
Init ==
    /\ ch = [buffer |-> <<>>, committed |-> FALSE,
             receivers |-> <<>>, senders |-> <<>>,
             value_kept |-> {}, slot_kept |-> {}, delivering |-> {},
             reserved_receivers |-> 0, reserved_senders |-> 0,
             timer |-> "off", closed |-> FALSE, close_reason |-> "EXPLICIT",
             queued |-> {}, error |-> [c \in Coroutines |-> "none"],
             future |-> [f \in Futures |-> "unused"],
             accepted |-> <<>>, taken |-> <<>>]
    /\ pc = [c \in Coroutines |-> "run"]
    /\ value = [c \in Coroutines |-> NoMessage]
    /\ token = [c \in Coroutines |-> "none"]
    /\ told = [v \in Messages |-> "unsent"]

Next ==
    \/ \E c \in Coroutines : \/ \E t \in TokenChoice : send(c, t) \/ recv(c, t)
                             \/ resume_receiver(c)
                             \/ resume_sender(c)
                             \/ cancel(c)
                             \/ token_fires(c)
    \/ sendAsync
    \/ \E f \in Futures : recvAsync(f) \/ channel_recv_future_dispose(f)
    \/ \E reason \in {"EXPLICIT", "DISPOSED", "SCOPE_DISPOSED"} : close(reason)
    \/ channel_deadlock_fire
    \/ async_channel_resolve_deadlocks

Spec == Init /\ [][Next]_vars

\* A woken coroutine is run: next_coroutine takes it from coroutine_queue.
\* A timer that keeps running for one reason fires: the reactor polls it; one
\* that is armed anew for the other reason starts from zero.  Both are weak
\* fairness of the action that ends the condition (resume_receiver and
\* resume_sender are enabled exactly while the coroutine is queued,
\* channel_deadlock_fire while the timer is armed), written without ENABLED.
Fairness ==
    /\ \A c \in Coroutines : []<>(c \notin ch.queued)
    /\ \A reason \in {"NO_PRODUCERS", "NO_CONSUMERS"} : []<>(ch.timer # reason)

\* Receivers that come and are cancelled without end would restart a sender's
\* timer without end: cancellations stop at some time.
CancellationsStop == <>[][\A c \in Coroutines : ~cancel(c) /\ ~token_fires(c)]_vars

FairSpec == Spec /\ Fairness /\ CancellationsStop

-----------------------------------------------------------------------
(* Properties.                                                            *)

\* channel.h: "reserved_receivers <= count, reserved_senders <= free space".
\* A value or slot promised to a woken waiter is still there when it runs,
\* whoever runs, is cancelled or closes the channel in between.
ReservationsFit ==
    /\ ch.reserved_receivers <= Holds(ch)
    /\ ch.reserved_senders <= free_space(ch)

\* The two counters are the numbers of waiters that hold a reservation: none
\* is released twice or forgotten (the assertions in channel_wait_for).
ReservationsCounted ==
    /\ ch.reserved_receivers = Cardinality(ch.value_kept)
    /\ ch.reserved_senders = Cardinality(ch.slot_kept)

\* While the channel is open nobody waits beside a place that is free: with
\* an unpromised value every waiting receiver has a promise of its own, and
\* with an unpromised slot every sender that waits for one has.  This is
\* what the hand-on in channel_wait_for and the two debts of
\* channel_wake_sender are for; no later wakeup would repair it.
NobodyWaitsBesideAPlace ==
    ~ch.closed =>
        /\ has_free_value(ch) => Unreserved(ch, ch.receivers) = {}
        /\ has_free_slot(ch) => Unreserved(ch, ch.senders) = {}

\* On a buffered channel values leave in the order they were accepted, none
\* twice and none lost.
InOrderOnce == ch.taken \o ch.buffer = ch.accepted

\* "a delivery already reported is never undone" (channel.h): what send()
\* reported as sent was received or is still there to be received, also
\* after the receiver it was matched with is cancelled or the channel closed.
SentIsKept ==
    \A v \in Messages : told[v] = "sent" => InQueue(ch.taken \o ch.buffer, v)

\* "a send() that throws leaves no value behind for a later recv()" (test
\* 084): the message of a send() that failed is not in the channel.
FailedIsGone ==
    \A v \in Messages : told[v] = "failed" => ~InQueue(ch.buffer, v)

\* A sendAsync() that returned true "sent successfully" (channel.stub.php):
\* its message was received or is still there.
AsyncIsKept ==
    \A v \in Messages : told[v] = "async" => InQueue(ch.taken \o ch.buffer, v)

\* On a buffered channel nothing is lost: values arrive once and in order, and
\* close() leaves them to be drained, so that what send() or sendAsync()
\* reported as sent is received or still there.
NothingIsLost == InOrderOnce /\ SentIsKept /\ AsyncIsKept

\* On a rendezvous channel send() tells the truth: what it reported as sent
\* stays sent, whoever is cancelled or closes the channel afterwards, and what
\* it reported as failed is gone.
SendIsHonest == SentIsKept /\ FailedIsGone

\* The timer runs on an open channel only, and only against somebody who
\* waits with nothing promised, on the side the timer blames.
TimerHasACause ==
    ch.timer # "off" =>
        /\ ~ch.closed
        /\ \E i \in DOMAIN (IF ch.timer = "NO_PRODUCERS" THEN ch.receivers ELSE ch.senders) :
               IF ch.timer = "NO_PRODUCERS" THEN ch.receivers[i] \notin ch.value_kept
                                            ELSE ch.senders[i] \notin ch.slot_kept

\* With both timeouts set, a coroutine that waits with nothing promised has
\* the timer running: no wait goes unguarded.
StarvingIsTimed ==
    ~ch.closed /\ no_producer_timeout /\ no_consumer_timeout =>
        \A c \in Coroutines :
            /\ InQueue(ch.receivers, c) /\ c \notin ch.value_kept => ch.timer = "NO_PRODUCERS"
            /\ InQueue(ch.senders, c) /\ c \notin ch.slot_kept => ch.timer # "off"

\* The timer is a true verdict about queues and promises: it runs only against
\* somebody who starves, and for everybody who does.
TimerIsRight == TimerHasACause /\ StarvingIsTimed

\* With both timeouts set every send() and recv() comes to an end, as long
\* as woken coroutines are run, a timer that is left armed fires and
\* cancellations do not go on for ever; and closing releases everybody.
EveryWaitEnds ==
    /\ \A c \in Coroutines : pc[c] # "run" ~> pc[c] = "run"
    /\ ch.closed ~> [](\A c \in Coroutines : pc[c] = "run")
=======================================================================
