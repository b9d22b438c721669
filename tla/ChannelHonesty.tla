------------------------- MODULE ChannelHonesty ------------------------
(* Proofs about Channel: send() on a rendezvous channel tells the truth.   *)
(*                                                                        *)
(* ChannelInv of ChannelProofs says who waits and what is promised; here   *)
(* comes where each message of a rendezvous channel is.  A message may be  *)
(* taken back, so RendezvousInv follows the sender whose value is in the   *)
(* slot until it hears of its delivery.                                    *)
EXTENDS ChannelProofs

\* The provers to try on a leaf that names none.
USE Zenon, SMT, SMTT(30)

-----------------------------------------------------------------------
(* A rendezvous channel.                                                  *)

\* The sender of the value in the slot, before it hears of its delivery.
Unheard(s, p, c) == p[c] = "delivery" /\ InQueue(s.senders, c)

\* Where the messages are: what was reported as sent was taken, or is promised
\* and committed in the slot; a sender that has heard of its delivery was
\* woken by an error or by the taker of its value; no other message is there.
Placed(s, p, val, t) ==
    /\ s.taken \in Seq(Messages) /\ DOMAIN s.error = Coroutines
    /\ \A c \in s.queued : c \in Coroutines /\ p[c] # "run"
    /\ \A v \in Messages :
           /\ t[v] = "sent" => InQueue(s.taken, v) \/ (InQueue(s.buffer, v) /\ s.committed)
           /\ t[v] \in {"failed", "unsent"} => ~InQueue(s.buffer, v)
    /\ \A c \in Coroutines :
           /\ p[c] = "space" => ~InQueue(s.buffer, val[c])
           /\ p[c] = "delivery" /\ ~InQueue(s.senders, c) =>
                  /\ ~InQueue(s.buffer, val[c])
                  /\ s.error[c] = "none" => InQueue(s.taken, val[c])

\* A sender that has not heard has its value in the slot, uncommitted, and is
\* woken by an error only.
Pending(s, p, val) ==
    \A c \in Coroutines : Unheard(s, p, c) =>
        /\ s.buffer = <<val[c]>> /\ ~s.committed
        /\ c \in s.queued => s.error[c] # "none"

\* The same when its value was just taken, and it is about to hear of it.
Taken(s, p, val) ==
    \A c \in Coroutines : Unheard(s, p, c) =>
        /\ s.buffer = <<>> /\ InQueue(s.taken, val[c])
        /\ \A d \in Coroutines : Unheard(s, p, d) => d = c

\* r and s agree on all this depends on.
Alike(r, s) ==
    /\ Rec(r) /\ r.buffer = s.buffer /\ r.committed = s.committed /\ r.taken = s.taken
    /\ r.senders = s.senders /\ r.queued = s.queued /\ r.error = s.error

\* The timer is not among it.
LEMMA AlikeRefreshed ==
    ASSUME NEW s, Rec(s) PROVE Alike(channel_refresh_deadlock_timer(s), s)
<1>1. Alike(s, s) /\ \A x : Alike([s EXCEPT !.timer = x], s)
  BY DEF Alike, Rec, Fields
<1> QED BY <1>1 DEF channel_refresh_deadlock_timer, channel_arm_deadlock_timer

\* What agrees is placed alike.
LEMMA AlikePlaced ==
    ASSUME NEW r, NEW s, NEW p, NEW val, NEW t, Alike(r, s)
    PROVE  /\ Placed(s, p, val, t) => Placed(r, p, val, t)
           /\ Pending(s, p, val) => Pending(r, p, val)
           /\ Taken(s, p, val) => Taken(r, p, val)
BY DEF Alike, Placed, Pending, Taken, Unheard

\* In a rendezvous slot there is one message at most.
LEMMA OneInSlot ==
    ASSUME NEW s, Fit(s), ~is_buffered
    PROVE  /\ s.buffer # <<>> => /\ s.buffer = <<Head(s.buffer)>> /\ Tail(s.buffer) = <<>>
                                 /\ Head(s.buffer) \in Messages
           /\ Room - Len(s.buffer) > s.reserved_senders => s.buffer = <<>>
<1>1. /\ s.buffer \in Seq(Messages) /\ Len(s.buffer) \in Nat /\ Len(s.buffer) <= 1 /\ Room = 1
      /\ s.reserved_senders \in Nat
  BY FitType DEF Fit, Room
<1> DEFINE b == s.buffer
<1>2. b \in Seq(Messages) /\ Len(b) \in Nat /\ Len(b) <= 1
  BY <1>1
<1> HIDE DEF b
<1>3. b # <<>> => b = <<Head(b)>> /\ Tail(b) = <<>> /\ Head(b) \in Messages
  BY <1>2, SMT, SMTT(30)
<1>4. Room - Len(b) > s.reserved_senders => b = <<>>
  BY <1>1, <1>2, SMT, SMTT(30) DEF b
<1> QED BY <1>3, <1>4 DEF b

\* channel_queue_remove takes out w only.
LEMMA Removed ==
    ASSUME NEW queue, Distinct(queue, Coroutines), NEW w
    PROVE  \A x : InQueue(channel_queue_remove(queue, w), x) <=> InQueue(queue, x) /\ x # w
<1> TAKE x
<1>1. InQueue(channel_queue_remove(queue, w), x) => InQueue(queue, x) /\ x # w
  BY RemoveDistinct
<1>2. InQueue(queue, x) /\ x # w => InQueue(channel_queue_remove(queue, w), x)
  BY RemoveKeeps
<1> QED BY <1>1, <1>2

\* A value that is taken belongs to a sender that is about to hear of it.
LEMMA TakePlaced ==
    ASSUME NEW s, NEW p, NEW val, NEW t, Fit(s), ~is_buffered, s.buffer # <<>>,
           Senders(p, val, t), Placed(s, p, val, t), Pending(s, p, val)
    PROVE  LET r == take_value(s)
           IN  Placed(r, p, val, t) /\ Taken(r, p, val) /\ r.senders = s.senders /\ r.buffer = <<>>
<1> DEFINE r == take_value(s)
           m == Head(s.buffer)
<1>0. Rec(s) /\ s.buffer = <<m>> /\ Tail(s.buffer) = <<>> /\ m \in Messages
  BY OneInSlot DEF Fit
<1>1. /\ r.buffer = <<>> /\ r.taken = Append(s.taken, m) /\ r.senders = s.senders
      /\ r.queued = s.queued /\ r.error = s.error
  BY <1>0 DEF take_value, Rec, Fields
<1> HIDE DEF r, m
<1>2. s.taken \in Seq(Messages) /\ r.taken \in Seq(Messages)
  BY <1>0, <1>1, SMT, SMTT(30) DEF Placed
<1>3. \A x : InQueue(r.taken, x) <=> InQueue(s.taken, x) \/ x = m
  BY <1>0, <1>1, <1>2, AppendKeeps, SMT, SMTT(30)
<1>4. \A x : ~InQueue(r.buffer, x)
  BY <1>1, InSlot
<1>5. \A x : InQueue(s.buffer, x) <=> x = m
  BY <1>0, InSlot, SMT, SMTT(30)
<1>6. Placed(r, p, val, t)
  BY <1>1, <1>2, <1>3, <1>4, <1>5 DEF Placed
<1>7. Taken(r, p, val)
  <2> SUFFICES ASSUME NEW c \in Coroutines, Unheard(r, p, c)
               PROVE  /\ r.buffer = <<>> /\ InQueue(r.taken, val[c])
                      /\ \A d \in Coroutines : Unheard(r, p, d) => d = c
    BY DEF Taken
  <2>1. \A d \in Coroutines : Unheard(r, p, d) => Sending(p, d) /\ val[d] = m
    <3> SUFFICES ASSUME NEW d \in Coroutines, Unheard(r, p, d) PROVE Sending(p, d) /\ val[d] = m
      OBVIOUS
    <3>1. Unheard(s, p, d)
      BY <1>1 DEF Unheard
    <3>2. s.buffer = <<val[d]>>
      BY <3>1 DEF Pending
    <3>3. InQueue(s.buffer, val[d])
      BY <3>2, InSlot
    <3> QED BY <1>5, <3>1, <3>3 DEF Sending, Unheard
  <2> QED BY <1>1, <1>3, <2>1 DEF Senders
<1> QED BY <1>1, <1>6, <1>7 DEF r

\* A waiter that is woken with a promise does not wait for its delivery.
LEMMA ResumedPlaced ==
    ASSUME NEW s, NEW p, NEW val, NEW t, Rec(s), NEW c \in Coroutines, p[c] \in {"recv", "space"},
           Placed(s, p, val, t), Pending(s, p, val)
    PROVE  LET r == Resumed(s, c, "none")
           IN  /\ Rec(r) /\ Placed(r, p, val, t) /\ Pending(r, p, val) /\ r.senders = s.senders
<1> DEFINE r == Resumed(s, c, "none")
<1>1. /\ Rec(r) /\ r.buffer = s.buffer /\ r.committed = s.committed /\ r.taken = s.taken
      /\ r.senders = s.senders /\ r.queued = s.queued \cup {c}
  BY DEF Resumed, Rec, Fields
<1>2. DOMAIN r.error = Coroutines /\ \A d \in Coroutines : r.error[d] = s.error[d]
  BY DEF Resumed, Rec, Fields, Placed
<1> HIDE DEF r
<1>3. Placed(r, p, val, t)
  BY <1>1, <1>2 DEF Placed
<1>4. Pending(r, p, val)
  BY <1>1, <1>2 DEF Pending, Unheard
<1> QED BY <1>1, <1>3, <1>4 DEF r

\* The sender whose value was taken hears of it.
LEMMA WakeDeliveredPlaced ==
    ASSUME NEW s, NEW p, NEW val, NEW t, Sound(s, p), ~is_buffered,
           Placed(s, p, val, t), Pending(s, p, val) \/ Taken(s, p, val)
    PROVE  LET r == channel_wake_delivered_sender(s)
           IN  /\ Placed(r, p, val, t) /\ Pending(r, p, val)
               /\ \A d : InQueue(r.senders, d) => InQueue(s.senders, d)
<1> DEFINE r == channel_wake_delivered_sender(s)
           waiting == {c \in s.delivering : InQueue(s.senders, c)}
           c == CHOOSE x \in waiting : TRUE
           u == [s EXCEPT !.senders = channel_queue_remove(@, c)]
           x == Resumed(u, c, "none")
<1>0. Rec(s) /\ Waits(s, p)
  BY DEF Sound, Fit
<1>1. \A d \in Coroutines : Unheard(s, p, d) <=> d \in waiting
  BY <1>0 DEF Waits, Unheard
<1>2. CASE s.buffer # <<>> \/ waiting = {}
  <2>1. r = s
    BY <1>2 DEF channel_wake_delivered_sender
  <2>2. Pending(s, p, val)
    BY <1>1, <1>2 DEF Taken, Pending
  <2> QED BY <2>1, <2>2
<1>3. CASE ~(s.buffer # <<>> \/ waiting = {})
  <2>1. r = channel_refresh_deadlock_timer(x)
    BY <1>3 DEF channel_wake_delivered_sender
  <2>2. c \in waiting /\ c \in Coroutines /\ p[c] = "delivery" /\ InQueue(s.senders, c)
    <3>1. c \in waiting
      BY <1>3
    <3> QED BY <1>0, <3>1 DEF Waits
  <2>3. /\ Rec(x) /\ x.buffer = s.buffer /\ x.committed = s.committed /\ x.taken = s.taken
        /\ x.senders = channel_queue_remove(s.senders, c) /\ x.queued = s.queued \cup {c}
    BY <1>0 DEF Resumed, Rec, Fields
  <2>4. DOMAIN x.error = Coroutines /\ \A d \in Coroutines : x.error[d] = s.error[d]
    BY <1>0 DEF Resumed, Rec, Fields, Placed
  <2> HIDE DEF c, x, r, waiting
  <2>5. Distinct(s.senders, Coroutines)
    BY <1>0 DEF Waits
  <2>6. \A d : InQueue(x.senders, d) <=> InQueue(s.senders, d) /\ d # c
    BY <2>3, <2>5, Removed, SMT, SMTT(30)
  <2>7. Taken(s, p, val)
    <3>1. s.buffer # <<val[c]>>
      BY <1>3, InSlot
    <3> QED BY <1>1, <2>2, <3>1 DEF Pending
  <2>8. InQueue(s.taken, val[c]) /\ \A d \in Coroutines : Unheard(s, p, d) => d = c
    BY <1>1, <2>2, <2>7 DEF Taken
  <2>9. ~InQueue(s.buffer, val[c])
    BY <1>3, InSlot, SMT, SMTT(30)
  <2>10. Placed(x, p, val, t)
    BY <2>2, <2>3, <2>4, <2>6, <2>8, <2>9 DEF Placed
  <2>11. Pending(x, p, val)
    BY <2>6, <2>8 DEF Pending, Unheard
  <2>12. Alike(r, x)
    BY <2>1, <2>3, AlikeRefreshed
  <2>13. r.senders = x.senders
    BY <2>12 DEF Alike
  <2> QED BY <2>6, <2>10, <2>11, <2>12, <2>13, AlikePlaced DEF r
<1> QED BY <1>2, <1>3

\* So it does when channel_wake_sender is called, which may promise the slot
\* to another sender.
LEMMA WakeSenderPlaced ==
    ASSUME NEW s, NEW p, NEW val, NEW t, Sound(s, p), ~is_buffered,
           Placed(s, p, val, t), Pending(s, p, val) \/ Taken(s, p, val)
    PROVE  LET r == channel_wake_sender(s)
           IN  /\ Placed(r, p, val, t) /\ Pending(r, p, val)
               /\ \A d : InQueue(r.senders, d) => InQueue(s.senders, d)
<1> DEFINE d == channel_wake_delivered_sender(s)
           r == channel_wake_sender(s)
           c == channel_queue_first_unreserved(d, d.senders)
           u == [d EXCEPT !.slot_kept = @ \cup {c}, !.reserved_senders = @ + 1]
           x == Resumed(u, c, "none")
<1>1. /\ Placed(d, p, val, t) /\ Pending(d, p, val) /\ Sound(d, p)
      /\ \A e : InQueue(d.senders, e) => InQueue(s.senders, e)
  BY WakeDeliveredPlaced, WakeDelivered
<1>4. r = d \/ (Unreserved(d, d.senders) # {} /\ r = channel_refresh_deadlock_timer(x))
  BY DEF channel_wake_sender
<1> HIDE DEF d
<1>2. CASE r = d
  BY <1>1, <1>2
<1>3. CASE Unreserved(d, d.senders) # {} /\ r = channel_refresh_deadlock_timer(x)
  <2>0. Rec(d) /\ Waits(d, p)
    BY <1>1 DEF Sound, Fit
  <2>1. InQueue(d.senders, c) /\ c \in Coroutines /\ c \notin d.delivering
    BY <1>3, <2>0, FirstUnreserved DEF Waits
  <2> HIDE DEF c
  <2>2. p[c] = "space"
    BY <2>0, <2>1 DEF Waits
  <2>3. Alike(u, d)
    BY <2>0 DEF Alike, Rec, Fields
  <2> HIDE DEF u
  <2>4. Rec(u) /\ Placed(u, p, val, t) /\ Pending(u, p, val) /\ u.senders = d.senders
    BY <1>1, <2>3, AlikePlaced DEF Alike
  <2>5. Rec(x) /\ Placed(x, p, val, t) /\ Pending(x, p, val) /\ x.senders = d.senders
    BY <2>1, <2>2, <2>4, ResumedPlaced, SMT, SMTT(30)
  <2> HIDE DEF x, r
  <2>6. Alike(r, x)
    BY <1>3, <2>5, AlikeRefreshed
  <2>7. r.senders = d.senders
    BY <2>5, <2>6 DEF Alike
  <2>8. Placed(r, p, val, t) /\ Pending(r, p, val)
    BY <2>5, <2>6, AlikePlaced
  <2> QED BY <1>1, <2>7, <2>8 DEF r
<1> QED BY <1>2, <1>3, <1>4

\* channel_wake_receiver promises the value in the slot to a coroutine, or
\* hands it to a future: then its sender hears of it.
LEMMA WakeReceiverPlaced ==
    ASSUME NEW s, NEW p, NEW val, NEW t, Sound(s, p), ~s.closed, S(s, 0), ~is_buffered,
           Senders(p, val, t), Placed(s, p, val, t), Pending(s, p, val)
    PROVE  LET r == channel_wake_receiver(s)
           IN  /\ Placed(r, p, val, t) /\ Pending(r, p, val)
               /\ \A d : InQueue(r.senders, d) => InQueue(s.senders, d)
               /\ r.buffer = s.buffer \/ r.buffer = <<>>
<1> DEFINE r == channel_wake_receiver(s)
           w == channel_queue_first_unreserved(s, s.receivers)
<1>0. Rec(s) /\ Fit(s) /\ Waits(s, p)
  BY DEF Sound, Fit
<1>1. CASE ~WakesReceiver(s)
  BY <1>1 DEF channel_wake_receiver
<1>2. CASE WakesReceiver(s) /\ w \in Futures
  <2> DEFINE u == [s EXCEPT !.receivers = channel_queue_remove(@, w)]
             k == take_value(u)
             v == [k EXCEPT !.future[w] = "resolved"]
             x == channel_wake_sender(v)
  <2>1. r = channel_refresh_deadlock_timer(x)
    BY <1>2 DEF channel_wake_receiver
  <2>2. Len(s.buffer) > s.reserved_receivers /\ s.buffer # <<>>
    BY <1>0, <1>2, FitType, SMT, SMTT(30) DEF WakesReceiver, has_free_value, Holds
  <2> HIDE DEF w
  <2>3. Sound(v, p)
    BY <1>0, <1>2, <2>2, FutureTakes
  <2>4. Alike(u, s) /\ Fit(u)
    BY <1>0 DEF Alike, Rec, Fields, Fit
  <2> HIDE DEF u, r
  <2>5. Placed(u, p, val, t) /\ Pending(u, p, val) /\ u.buffer # <<>> /\ u.senders = s.senders
    BY <2>2, <2>4, AlikePlaced DEF Alike
  <2>6. /\ Placed(k, p, val, t) /\ Taken(k, p, val) /\ k.senders = s.senders /\ k.buffer = <<>>
        /\ Rec(k)
    <3>1. Rec(k)
      BY <2>4 DEF take_value, Fit, Rec, Fields
    <3> QED BY <2>4, <2>5, <3>1, TakePlaced
  <2> HIDE DEF k
  <2>7. Alike(v, k)
    BY <2>6 DEF Alike, Rec, Fields
  <2> HIDE DEF v
  <2>8. /\ Placed(v, p, val, t) /\ Taken(v, p, val) /\ v.senders = s.senders /\ v.buffer = <<>>
        /\ Rec(v)
    BY <2>6, <2>7, AlikePlaced DEF Alike
  <2>9. /\ Placed(x, p, val, t) /\ Pending(x, p, val)
        /\ \A d : InQueue(x.senders, d) => InQueue(s.senders, d)
    BY <2>3, <2>8, WakeSenderPlaced
  <2>10. Rec(x) /\ x.buffer = <<>>
    BY <2>8, WakeSenderStill DEF Still
  <2> HIDE DEF x
  <2>11. Alike(r, x)
    BY <2>1, <2>10, AlikeRefreshed
  <2>12. Placed(r, p, val, t) /\ Pending(r, p, val)
    BY <2>9, <2>11, AlikePlaced
  <2>13. r.senders = x.senders /\ r.buffer = <<>>
    BY <2>10, <2>11 DEF Alike
  <2> QED BY <2>9, <2>12, <2>13 DEF r
<1>3. CASE WakesReceiver(s) /\ w \notin Futures
  <2> DEFINE u == [s EXCEPT !.value_kept = @ \cup {w}, !.reserved_receivers = @ + 1]
             x == Resumed(u, w, "none")
  <2>1. r = channel_refresh_deadlock_timer(x)
    BY <1>3 DEF channel_wake_receiver
  <2>2. w \in Coroutines /\ p[w] = "recv"
    <3>1. InQueue(s.receivers, w)
      BY <1>0, <1>3, FirstUnreserved DEF Waits, WakesReceiver
    <3> QED BY <1>0, <1>3, <3>1 DEF Waits
  <2>3. Alike(u, s)
    BY <1>0 DEF Alike, Rec, Fields
  <2> HIDE DEF u, w, r
  <2>4. Rec(u) /\ Placed(u, p, val, t) /\ Pending(u, p, val) /\ u.senders = s.senders /\ u.buffer = s.buffer
    BY <2>3, AlikePlaced DEF Alike
  <2>5. Rec(x) /\ Placed(x, p, val, t) /\ Pending(x, p, val) /\ x.senders = s.senders
    BY <2>2, <2>4, ResumedPlaced, SMT, SMTT(30)
  <2>6. x.buffer = s.buffer
    BY <2>4, StillThere, SMT, SMTT(30) DEF Still
  <2> HIDE DEF x
  <2>7. Alike(r, x)
    BY <2>1, <2>5, AlikeRefreshed
  <2>8. Placed(r, p, val, t) /\ Pending(r, p, val)
    BY <2>5, <2>7, AlikePlaced
  <2>9. r.senders = s.senders /\ r.buffer = s.buffer
    BY <2>5, <2>6, <2>7 DEF Alike
  <2> QED BY <2>8, <2>9 DEF r
<1> QED BY <1>1, <1>2, <1>3

\* Coroutines that do not wait to send may move.
LEMMA MovedPlaced ==
    ASSUME NEW s, NEW p, NEW val, NEW t, NEW q, NEW y, Placed(s, p, val, t),
           \A d \in Coroutines : Sending(q, d) => q[d] = p[d] /\ y[d] = val[d],
           \A d \in s.queued : q[d] # "run"
    PROVE  /\ Placed(s, q, y, t)
           /\ Pending(s, p, val) => Pending(s, q, y)
<1>1. Placed(s, q, y, t)
  BY DEF Placed, Sending
<1>2. Pending(s, p, val) => Pending(s, q, y)
  BY DEF Pending, Unheard, Sending
<1> QED BY <1>1, <1>2

\* An answer that is true of the message.
LEMMA RetoldPlaced ==
    ASSUME NEW s, NEW p, NEW val, NEW t, Placed(s, p, val, t), DOMAIN t = Messages,
           NEW v \in Messages, NEW what,
           what = "sent" => InQueue(s.taken, v) \/ (InQueue(s.buffer, v) /\ s.committed),
           what \in {"failed", "unsent"} => ~InQueue(s.buffer, v)
    PROVE  Placed(s, p, val, [t EXCEPT ![v] = what])
BY DEF Placed

\* put_value fills a slot that is empty: no other sender has its value there.
LEMMA PutPlaced ==
    ASSUME NEW s, NEW p, NEW val, NEW t, Rec(s), s.buffer = <<>>,
           Placed(s, p, val, t), Pending(s, p, val), NEW v \in Messages,
           t[v] \notin {"failed", "unsent"}, \A d \in Coroutines : Sending(p, d) => val[d] # v
    PROVE  LET r == put_value(s, v)
           IN  /\ Placed(r, p, val, t) /\ r.buffer = <<v>> /\ ~r.committed
               /\ r.senders = s.senders /\ r.queued = s.queued /\ r.error = s.error /\ Rec(r)
               /\ r.taken = s.taken
               /\ \A d \in Coroutines : ~Unheard(r, p, d)
<1> DEFINE r == put_value(s, v)
<1>1. /\ Rec(r) /\ r.buffer = <<v>> /\ ~r.committed /\ r.taken = s.taken
      /\ r.senders = s.senders /\ r.queued = s.queued /\ r.error = s.error
  BY SMT, SMTT(30) DEF put_value, Rec, Fields
<1> HIDE DEF r
<1>2. \A x : (InQueue(r.buffer, x) <=> x = v) /\ ~InQueue(s.buffer, x)
  BY <1>1, InSlot, SMT, SMTT(30)
<1>3. \A d \in Coroutines : ~Unheard(r, p, d)
  <2> SUFFICES ASSUME NEW d \in Coroutines, Unheard(r, p, d) PROVE FALSE
    OBVIOUS
  <2>1. s.buffer = <<val[d]>>
    BY <1>1 DEF Unheard, Pending
  <2> QED BY <1>2, <2>1, InSlot
<1>4. \A d \in Coroutines : p[d] \in {"space", "delivery"} => ~InQueue(r.buffer, val[d])
  BY <1>2 DEF Sending
<1>5. Placed(r, p, val, t)
  BY <1>1, <1>2, <1>4 DEF Placed
<1> QED BY <1>1, <1>3, <1>5 DEF r

\* A receiver that leaves hands on at most a promise.
LEMMA ReceiverWokenPlaced ==
    ASSUME NEW s, NEW p, NEW val, NEW t, Inv(s, p), DOMAIN p = Coroutines,
           NEW c \in Coroutines, p[c] = "recv", ~is_buffered,
           Senders(p, val, t), Placed(s, p, val, t), Pending(s, p, val)
    PROVE  LET r == ReceiverWoken(s, c)
               q == [p EXCEPT ![c] = "run"]
           IN  Placed(r, q, val, t) /\ Pending(r, q, val) /\ Senders(q, val, t) /\ c \notin r.queued
<1> DEFINE r == ReceiverWoken(s, c)
           q == [p EXCEPT ![c] = "run"]
           u == ReceiverGone(s, c)
           hand_on == c \in s.value_kept /\ s.error[c] # "none" /\ ~s.closed
           h == IF hand_on THEN channel_wake_receiver(u) ELSE u
<1>0. Rec(s)
  BY DEF Inv, Sound, Fit
<1>1. r = channel_refresh_deadlock_timer(h)
  BY DEF ReceiverWoken, ReceiverGone
<1>2. Sound(u, q) /\ S(u, 0) /\ u.closed = s.closed
  BY ReceiverGoes
<1>3. /\ Rec(u) /\ u.buffer = s.buffer /\ u.committed = s.committed /\ u.taken = s.taken
      /\ u.senders = s.senders /\ u.error = s.error /\ u.queued = s.queued \ {c}
  BY <1>0 DEF ReceiverGone, Rec, Fields
<1>4. \A d \in Coroutines : q[d] = IF d = c THEN "run" ELSE p[d]
  OBVIOUS
<1> HIDE DEF u, r, q
<1>5. Placed(u, q, val, t)
  BY <1>3, <1>4, SMT, SMTT(30) DEF Placed
<1>6. Pending(u, q, val)
  BY <1>3, <1>4 DEF Pending, Unheard
<1>7. Senders(q, val, t)
  BY <1>4 DEF Senders, Sending
<1>8. Placed(h, q, val, t) /\ Pending(h, q, val) /\ Rec(h)
  <2>1. CASE hand_on
    <3>1. Rec(channel_wake_receiver(u))
      BY <1>2, <1>5, WakeReceiverCarries, ZenonT(30) DEF Sound, Placed
    <3> QED BY <1>2, <1>5, <1>6, <1>7, <2>1, <3>1, WakeReceiverPlaced
  <2>2. CASE ~hand_on
    BY <1>3, <1>5, <1>6, <2>2
  <2> QED BY <2>1, <2>2
<1> HIDE DEF h
<1>9. Alike(r, h)
  BY <1>1, <1>8, AlikeRefreshed
<1>10. Placed(r, q, val, t) /\ Pending(r, q, val)
  BY <1>8, <1>9, AlikePlaced
<1>11. c \notin r.queued
  BY <1>4, <1>10 DEF Placed
<1> QED BY <1>7, <1>10, <1>11 DEF r, q

\* A sender that leaves has no value in the slot: it was taken, or it takes it
\* back before it passes the slot on.
LEMMA SenderWokenPlaced ==
    ASSUME NEW s, NEW p, NEW val, NEW t, Inv(s, p), DOMAIN p = Coroutines,
           NEW c \in Coroutines, Sending(p, c), c \in s.queued, ~is_buffered,
           Senders(p, val, t), Placed(s, p, val, t), Pending(s, p, val)
    PROVE  LET r == SenderWoken(s, c)
               q == [p EXCEPT ![c] = "run"]
           IN  /\ Placed(r, q, val, t) /\ Pending(r, q, val) /\ Senders(q, val, t) /\ c \notin r.queued
               /\ ~InQueue(r.buffer, val[c])
               /\ p[c] = "delivery" /\ s.error[c] = "none" => InQueue(r.taken, val[c])
<1> DEFINE r == SenderWoken(s, c)
           q == [p EXCEPT ![c] = "run"]
           g == SenderGone(s, c)
           u == SenderCleared(s, c)
           h == IF SenderHandsOn(s, c) /\ ~s.closed THEN channel_wake_sender(u) ELSE u
<1>0. Rec(s) /\ Waits(s, p) /\ Distinct(s.senders, Coroutines) /\ p[c] \in {"space", "delivery"}
  BY DEF Inv, Sound, Fit, Waits, Sending
<1>1. r = channel_refresh_deadlock_timer(h) /\ Sound(u, q)
  BY <1>0, SenderClears
<1>2. /\ Rec(g) /\ g.buffer = s.buffer /\ g.committed = s.committed /\ g.taken = s.taken
      /\ g.senders = channel_queue_remove(s.senders, c)
      /\ g.error = s.error /\ g.queued = s.queued \ {c}
  BY <1>0 DEF SenderGone, Rec, Fields
<1>3. \A d \in Coroutines : q[d] = IF d = c THEN "run" ELSE p[d]
  OBVIOUS
<1> HIDE DEF r, q
<1>4. \A d : InQueue(channel_queue_remove(s.senders, c), d) <=> InQueue(s.senders, d) /\ d # c
  BY <1>0, Removed
<1>5. Placed(g, q, val, t)
  BY <1>2, <1>3, <1>4, SMT, SMTT(30) DEF Placed
<1>6. Pending(g, q, val)
  BY <1>2, <1>3, <1>4 DEF Pending, Unheard
<1>7. Senders(q, val, t)
  BY <1>3 DEF Senders, Sending
<1>8. /\ Placed(u, q, val, t) /\ Pending(u, q, val) /\ Rec(u)
      /\ ~InQueue(u.buffer, val[c])
      /\ p[c] = "delivery" /\ s.error[c] = "none" => InQueue(u.taken, val[c])
  <2>1. CASE Unheard(s, p, c) /\ s.error[c] # "none"
    <3>0. c \in s.delivering /\ InQueue(s.senders, c)
      BY <1>0, <2>1 DEF Waits, Unheard
    <3>1. s.buffer = <<val[c]>> /\ ~s.committed
      BY <2>1 DEF Pending
    <3>2. u = withdraw_value(g)
      <4>1. s.buffer # <<>>
        BY <3>1, InSlot
      <4> QED BY <1>2, <2>1, <3>0, <3>1, <4>1 DEF SenderCleared, RollBack
    <3> HIDE DEF g
    <3>3. /\ Rec(u) /\ u.buffer = <<>> /\ u.taken = g.taken
          /\ u.senders = g.senders /\ u.error = g.error /\ u.queued = g.queued
      <4>1. Tail(<<val[c]>>) = <<>>
        BY SMT, SMTT(30)
      <4> QED BY <1>2, <3>1, <3>2, <4>1 DEF withdraw_value, Rec, Fields
    <3> HIDE DEF u
    <3>4. \A x : ~InQueue(u.buffer, x)
      BY <3>3, InSlot, SMT, SMTT(30)
    <3>5. Placed(u, q, val, t)
      BY <1>2, <1>5, <3>1, <3>3, <3>4 DEF Placed
    <3>6. Pending(u, q, val)
      <4> SUFFICES ASSUME NEW d \in Coroutines, Unheard(u, q, d) PROVE FALSE
        BY DEF Pending
      <4>1. d # c /\ Unheard(s, p, d) /\ Sending(p, d)
        BY <1>2, <1>3, <1>4, <3>3 DEF Unheard, Sending
      <4>2. s.buffer = <<val[d]>>
        BY <4>1 DEF Pending
      <4>3. val[d] = val[c]
        BY <3>1, <4>2, InSlot
      <4> QED BY <4>1, <4>3, ZenonT(30) DEF Senders
    <3> QED BY <2>1, <3>3, <3>4, <3>5, <3>6
  <2>2. CASE ~(Unheard(s, p, c) /\ s.error[c] # "none")
    <3>1. u = g
      BY <1>0, <2>2 DEF SenderCleared, Waits, Unheard
    <3>2. ~Unheard(s, p, c)
      BY <2>2 DEF Pending
    <3> HIDE DEF g, u
    <3>3. ~InQueue(s.buffer, val[c])
      BY <1>0, <3>2 DEF Placed, Unheard
    <3>4. p[c] = "delivery" /\ s.error[c] = "none" => InQueue(s.taken, val[c])
      BY <3>2 DEF Placed, Unheard
    <3> QED BY <1>2, <1>5, <1>6, <3>1, <3>3, <3>4
  <2> QED BY <2>1, <2>2
<1> HIDE DEF u
<1>9. Placed(h, q, val, t) /\ Pending(h, q, val) /\ Still(h, u)
  <2>1. Still(u, u) /\ Still(channel_wake_sender(u), u)
    BY <1>8, StillThere, WakeSenderStill
  <2>2. Placed(channel_wake_sender(u), q, val, t) /\ Pending(channel_wake_sender(u), q, val)
    BY <1>1, <1>8, WakeSenderPlaced, ZenonT(30)
  <2> QED BY <1>8, <2>1, <2>2, ZenonT(30)
<1> HIDE DEF h
<1>10. Alike(r, h)
  BY <1>1, <1>9, AlikeRefreshed DEF Still
<1>11. Placed(r, q, val, t) /\ Pending(r, q, val) /\ r.buffer = u.buffer /\ r.taken = u.taken
  BY <1>9, <1>10, AlikePlaced DEF Alike, Still
<1>12. c \notin r.queued
  BY <1>3, <1>11 DEF Placed
<1> QED BY <1>7, <1>8, <1>11, <1>12 DEF r, q

\* An exception that is set, or cleared when its coroutine runs.
LEMMA ErrorPlaced ==
    ASSUME NEW s, NEW p, NEW val, NEW t, Rec(s), NEW c \in Coroutines,
           Placed(s, p, val, t), Pending(s, p, val)
    PROVE  /\ p[c] = "run" => LET r == [s EXCEPT !.error[c] = "none"]
                              IN  Placed(r, p, val, t) /\ Pending(r, p, val)
           /\ p[c] # "run" => LET r == [s EXCEPT !.queued = @ \cup {c}, !.error[c] = "cancelled"]
                              IN  Placed(r, p, val, t) /\ Pending(r, p, val)
<1>1. CASE p[c] = "run"
  <2> DEFINE r == [s EXCEPT !.error[c] = "none"]
  <2>1. /\ r.buffer = s.buffer /\ r.committed = s.committed /\ r.taken = s.taken
        /\ r.senders = s.senders /\ r.queued = s.queued
    BY DEF Rec, Fields
  <2>2. DOMAIN r.error = Coroutines /\ \A d \in Coroutines : d # c => r.error[d] = s.error[d]
    BY DEF Rec, Fields, Placed
  <2> HIDE DEF r
  <2>3. Placed(r, p, val, t)
    BY <1>1, <2>1, <2>2 DEF Placed
  <2>4. Pending(r, p, val)
    BY <1>1, <2>1, <2>2 DEF Pending, Unheard
  <2> QED BY <1>1, <2>3, <2>4 DEF r
<1>2. CASE p[c] # "run"
  <2> DEFINE r == [s EXCEPT !.queued = @ \cup {c}, !.error[c] = "cancelled"]
  <2>1. /\ r.buffer = s.buffer /\ r.committed = s.committed /\ r.taken = s.taken
        /\ r.senders = s.senders /\ r.queued = s.queued \cup {c}
    BY DEF Rec, Fields
  <2>2. /\ DOMAIN r.error = Coroutines /\ r.error[c] = "cancelled"
        /\ \A d \in Coroutines : d # c => r.error[d] = s.error[d]
    BY DEF Rec, Fields, Placed
  <2> HIDE DEF r
  <2>3. Placed(r, p, val, t)
    BY <1>2, <2>1, <2>2 DEF Placed
  <2>4. Pending(r, p, val)
    BY <2>1, <2>2 DEF Pending, Unheard
  <2> QED BY <1>2, <2>3, <2>4 DEF r
<1> QED BY <1>1, <1>2

\* c goes to wait, for a slot with its value elsewhere or for the delivery of
\* its value in the slot.
Parks(s, p, val, c, q, y) ==
    /\ Rec(s) /\ s.senders \in Seq(Coroutines) /\ p[c] = "run"
    /\ q[c] \in {"space", "delivery"}
    /\ \A d \in Coroutines : d # c => q[d] = p[d] /\ y[d] = val[d]
    /\ q[c] = "space" => ~InQueue(s.buffer, y[c])
    /\ q[c] = "delivery" => s.buffer = <<y[c]>> /\ ~s.committed

\* Then it is in the place it waits at.
LEMMA ParkPlaced ==
    ASSUME NEW s, NEW p, NEW val, NEW t, NEW c \in Coroutines, NEW q, NEW y,
           Parks(s, p, val, c, q, y), Placed(s, p, val, t), Pending(s, p, val), NEW del
    PROVE  LET r == ParkSender(s, c, del) IN Placed(r, q, y, t) /\ Pending(r, q, y)
<1> DEFINE x == [s EXCEPT !.senders = Append(@, c), !.error[c] = "none",
                          !.delivering = IF del THEN @ \cup {c} ELSE @]
           r == ParkSender(s, c, del)
<1>0. /\ Rec(s) /\ s.senders \in Seq(Coroutines) /\ p[c] = "run"
      /\ q[c] \in {"space", "delivery"}
      /\ \A d \in Coroutines : d # c => q[d] = p[d] /\ y[d] = val[d]
      /\ q[c] = "space" => ~InQueue(s.buffer, y[c])
      /\ q[c] = "delivery" => s.buffer = <<y[c]>> /\ ~s.committed
  BY DEF Parks
<1>1. r = channel_refresh_deadlock_timer(x)
  BY DEF ParkSender
<1>2. /\ Rec(x) /\ x.buffer = s.buffer /\ x.committed = s.committed /\ x.taken = s.taken
      /\ x.senders = Append(s.senders, c) /\ x.queued = s.queued
  BY <1>0 DEF Rec, Fields
<1>3. DOMAIN x.error = Coroutines /\ \A d \in Coroutines : d # c => x.error[d] = s.error[d]
  BY <1>0 DEF Rec, Fields, Placed
<1> HIDE DEF x, r
<1>4. \A d : InQueue(x.senders, d) <=> InQueue(s.senders, d) \/ d = c
  BY <1>0, <1>2, AppendKeeps, SMT, SMTT(30)
<1>5. c \notin s.queued
  BY <1>0 DEF Placed
<1>6. Placed(x, q, y, t)
  <2>1. \A d \in x.queued : d \in Coroutines /\ q[d] # "run"
    BY <1>0, <1>2, <1>5, SMT, SMTT(30) DEF Placed
  <2>2. ASSUME NEW d \in Coroutines
        PROVE  /\ q[d] = "space" => ~InQueue(x.buffer, y[d])
               /\ q[d] = "delivery" /\ ~InQueue(x.senders, d) =>
                      /\ ~InQueue(x.buffer, y[d])
                      /\ x.error[d] = "none" => InQueue(x.taken, y[d])
    BY <1>0, <1>2, <1>3, <1>4 DEF Placed
  <2> QED BY <1>2, <1>3, <2>1, <2>2 DEF Placed
<1>7. Pending(x, q, y)
  BY <1>0, <1>2, <1>3, <1>4, <1>5, ZenonT(30) DEF Pending, Unheard
<1>8. Alike(r, x)
  BY <1>1, <1>2, AlikeRefreshed
<1> QED BY <1>6, <1>7, <1>8, AlikePlaced DEF r

\* What send() on a rendezvous channel may do with its message.
Reply(c, v, tok) ==
    \/ Return(c) /\ \E what \in {"sent", "failed"} : Tell(v, what)
    \/ \E where \in {"space", "delivery"} : Park(c, where, v, tok) /\ Tell(v, "pending")

\* A coroutine that returns, or waits to receive.
LEMMA ReturnPlaced ==
    ASSUME NEW s, NEW p, NEW t, NEW c \in Coroutines, DOMAIN pc = Coroutines,
           DOMAIN value = Coroutines, p[c] = "run", \A d \in Coroutines : d # c => p[d] = pc[d],
           Placed(s, p, value, t), Pending(s, p, value), NEW tok,
           Return(c) \/ Park(c, "recv", NoMessage, tok)
    PROVE  Placed(s, pc', value', t) /\ Pending(s, pc', value')
<1>1. /\ pc'[c] \in {"run", "recv"}
      /\ \A d \in Coroutines : d # c => pc'[d] = p[d] /\ value'[d] = value[d]
  BY DEF Return, Park
<1>2. \A d \in Coroutines : Sending(pc', d) => pc'[d] = p[d] /\ value'[d] = value[d]
  BY <1>1 DEF Sending
<1>3. \A d \in s.queued : pc'[d] # "run"
  BY <1>1, SMT, SMTT(30) DEF Placed
<1> QED BY <1>2, <1>3, MovedPlaced

\* The value of a send() that found a receiver is taken, or committed.
LEMMA MatchedPlaced ==
    ASSUME ~is_buffered, NEW put, NEW p, NEW val, NEW t, NEW v \in Messages,
           Sound(put, p), ~put.closed, S(put, 0), Senders(p, val, t), Placed(put, p, val, t),
           put.buffer = <<v>>, \A d \in Coroutines : ~Unheard(put, p, d)
    PROVE  LET woken == channel_wake_receiver(put)
               r == [woken EXCEPT !.committed = woken.buffer # <<>>]
           IN  /\ Placed(r, p, val, t) /\ Pending(r, p, val)
               /\ InQueue(r.taken, v) \/ (InQueue(r.buffer, v) /\ r.committed)
<1> DEFINE woken == channel_wake_receiver(put)
           r == [woken EXCEPT !.committed = woken.buffer # <<>>]
<1>0. Pending(put, p, val) /\ put.taken \in Seq(Messages) /\ put.buffer \in Seq(Messages) /\ Fit(put)
  BY DEF Pending, Sound, Fit, Placed
<1>1. /\ Placed(woken, p, val, t)
      /\ \A d : InQueue(woken.senders, d) => InQueue(put.senders, d)
  BY <1>0, WakeReceiverPlaced
<1>2. Carried(woken, put) /\ Rec(woken)
  BY <1>0, WakeReceiverCarries
<1> HIDE DEF woken
<1>3. /\ r.buffer = woken.buffer /\ r.taken = woken.taken /\ r.senders = woken.senders
      /\ r.queued = woken.queued /\ r.error = woken.error /\ r.committed = (woken.buffer # <<>>)
  BY <1>2 DEF Rec, Fields
<1> HIDE DEF r
<1>4. \A x : InQueue(r.buffer, x) => r.committed
  <2>1. woken.buffer # <<>> => r.committed
    BY <1>3
  <2>2. \A x : InQueue(r.buffer, x) => woken.buffer # <<>>
    BY <1>3, InSlot, SMT, SMTT(30)
  <2> QED BY <2>1, <2>2
<1>5. InQueue(woken.taken, v) \/ InQueue(woken.buffer, v)
  <2> DEFINE a == woken.taken
             b == woken.buffer
             e == put.taken
             f == put.buffer
  <2>1. /\ a \in Seq(Messages) /\ b \in Seq(Messages) /\ e \in Seq(Messages) /\ f \in Seq(Messages)
        /\ a \o b = e \o f
    BY <1>0, <1>2 DEF Carried
  <2>2. InQueue(f, v)
    BY InSlot
  <2> HIDE DEF a, b, e, f
  <2>3. InQueue(e \o f, v)
    BY <2>1, <2>2, InJoined
  <2>4. InQueue(a \o b, v) <=> InQueue(a, v) \/ InQueue(b, v)
    BY <2>1, InJoined
  <2>5. InQueue(a, v) \/ InQueue(b, v)
    BY <2>1, <2>3, <2>4
  <2> QED BY <2>5 DEF a, b
<1>6. InQueue(r.taken, v) \/ (InQueue(r.buffer, v) /\ r.committed)
  BY <1>3, <1>4, <1>5
<1>7. Placed(r, p, val, t)
  BY <1>1, <1>3, <1>4 DEF Placed
<1>8. Pending(r, p, val)
  BY <1>1, <1>3 DEF Pending, Unheard
<1> QED BY <1>6, <1>7, <1>8 DEF r, woken

\* send() on a rendezvous channel.
LEMMA SendPlaced ==
    ASSUME ~is_buffered, NEW s, NEW p, Sound(s, p), V(s, 0), S(s, 1), CommitOK(s),
           NEW has \in BOOLEAN, has => Room - Len(s.buffer) > s.reserved_senders,
           NEW c \in Coroutines, DOMAIN pc = Coroutines, DOMAIN value = Coroutines,
           p[c] = "run", \A d \in Coroutines : d # c => p[d] = pc[d],
           NEW v \in Messages, NEW tok, tok # "fired", DOMAIN told = Messages,
           Senders(p, value, told), \A d \in Coroutines : Sending(p, d) => value[d] # v,
           ~InQueue(s.buffer, v), Placed(s, p, value, told), Pending(s, p, value),
           SendFrom(s, c, v, tok, has)
    PROVE  Placed(ch', pc', value', told') /\ Pending(ch', pc', value') /\ Reply(c, v, tok)
<1> DEFINE put == put_value(s, v)
           woken == channel_wake_receiver(put)
           marked == [woken EXCEPT !.committed = woken.buffer # <<>>]
           admitted == ~s.closed /\ (has \/ has_free_slot(s))
           t == [told EXCEPT ![v] = "pending"]
<1>0. Rec(s) /\ Fit(s) /\ s.senders \in Seq(Coroutines)
  BY DEF Sound, Fit, Waits, Distinct
<1>1. Placed(s, p, value, t) /\ Placed(s, p, value, [told EXCEPT ![v] = "failed"])
  BY RetoldPlaced
<1>2. t[v] = "pending" /\ DOMAIN t = Messages /\ [t EXCEPT ![v] = "sent"] = [told EXCEPT ![v] = "sent"]
  OBVIOUS
<1>3. Senders(p, value, t)
  BY DEF Senders
<1> HIDE DEF t
<1>4. admitted =>
        /\ Sound(put, p) /\ S(put, 0) /\ ~put.closed /\ Rec(put) /\ put.senders = s.senders
        /\ Placed(put, p, value, t) /\ put.buffer = <<v>> /\ ~put.committed
        /\ \A d \in Coroutines : ~Unheard(put, p, d)
  <2> SUFFICES ASSUME admitted
               PROVE  /\ Sound(put, p) /\ S(put, 0) /\ ~put.closed /\ Rec(put) /\ put.senders = s.senders
                      /\ Placed(put, p, value, t) /\ put.buffer = <<v>> /\ ~put.committed
                      /\ \A d \in Coroutines : ~Unheard(put, p, d)
    OBVIOUS
  <2>1. ~s.closed /\ Room - Len(s.buffer) > s.reserved_senders
    BY DEF has_free_slot, free_space
  <2>2. s.buffer = <<>>
    BY <1>0, <2>1, OneInSlot
  <2>3. Sound(put, p) /\ S(put, 0) /\ ~put.closed
    BY <2>1, PutValue
  <2>4. t[v] \notin {"failed", "unsent"}
    BY <1>2
  <2>5. /\ Placed(put, p, value, t) /\ put.buffer = <<v>> /\ ~put.committed
        /\ put.senders = s.senders /\ Rec(put)
        /\ \A d \in Coroutines : ~Unheard(put, p, d)
    BY <1>0, <1>1, <2>2, <2>4, PutPlaced, SMT, SMTT(30)
  <2> QED BY <2>3, <2>5
<1> HIDE DEF put
<1>5. \/ ch' = s /\ Return(c) /\ Tell(v, "failed")
      \/ admitted /\ ch' = marked /\ Return(c) /\ Tell(v, "sent")
      \/ admitted /\ ch' = ParkSender(put, c, TRUE) /\ Park(c, "delivery", v, tok) /\ Tell(v, "pending")
      \/ ch' = ParkSender(s, c, FALSE) /\ Park(c, "space", v, tok) /\ Tell(v, "pending")
  BY ZenonT(30) DEF SendFrom, put
<1> HIDE DEF woken, admitted
<1>6. CASE ch' = s /\ Return(c) /\ Tell(v, "failed")
  <2>1. Reply(c, v, tok)
    BY <1>6 DEF Reply
  <2>2. Placed(s, pc', value', told') /\ Pending(s, pc', value')
    BY <1>1, <1>6, ReturnPlaced DEF Tell
  <2> QED BY <1>6, <2>1, <2>2
<1>7. CASE admitted /\ ch' = marked /\ Return(c) /\ Tell(v, "sent")
  <2>1. Reply(c, v, tok)
    BY <1>7 DEF Reply
  <2>2. /\ Placed(marked, p, value, t) /\ Pending(marked, p, value)
        /\ InQueue(marked.taken, v) \/ (InQueue(marked.buffer, v) /\ marked.committed)
    BY <1>3, <1>4, <1>7, MatchedPlaced DEF woken
  <2> HIDE DEF marked
  <2>3. Placed(marked, p, value, [t EXCEPT ![v] = "sent"])
    BY <1>2, <2>2, RetoldPlaced
  <2>4. Placed(marked, p, value, told')
    BY <1>2, <1>7, <2>3 DEF Tell
  <2>5. Placed(marked, pc', value', told') /\ Pending(marked, pc', value')
    BY <1>7, <2>2, <2>4, ReturnPlaced
  <2> QED BY <1>7, <2>1, <2>5
<1>8. CASE admitted /\ ch' = ParkSender(put, c, TRUE) /\ Park(c, "delivery", v, tok) /\ Tell(v, "pending")
  <2>1. Reply(c, v, tok)
    BY <1>8 DEF Reply
  <2>2. /\ pc'[c] = "delivery" /\ value'[c] = v /\ told' = t
        /\ \A d \in Coroutines : d # c => pc'[d] = p[d] /\ value'[d] = value[d]
    BY <1>8 DEF Park, Tell, t
  <2>3. Pending(put, p, value)
    BY <1>4, <1>8, ZenonT(30) DEF Pending
  <2> DEFINE q == pc'
             y == value'
             r == ParkSender(put, c, TRUE)
  <2>4. Parks(put, p, value, c, q, y)
    BY <1>0, <1>4, <1>8, <2>2 DEF Parks
  <2> HIDE DEF q, y
  <2>5. Placed(r, q, y, t) /\ Pending(r, q, y)
    BY <1>4, <1>8, <2>3, <2>4, ParkPlaced
  <2> HIDE DEF r
  <2>6. Placed(ch', pc', value', t) /\ Pending(ch', pc', value')
    BY <1>8, <2>5 DEF q, y, r
  <2> QED BY <2>1, <2>2, <2>6
<1>9. CASE ch' = ParkSender(s, c, FALSE) /\ Park(c, "space", v, tok) /\ Tell(v, "pending")
  <2>1. Reply(c, v, tok)
    BY <1>9 DEF Reply
  <2>2. /\ pc'[c] = "space" /\ value'[c] = v /\ told' = t
        /\ \A d \in Coroutines : d # c => pc'[d] = p[d] /\ value'[d] = value[d]
    BY <1>9 DEF Park, Tell, t
  <2> DEFINE q == pc'
             y == value'
             r == ParkSender(s, c, FALSE)
  <2>3. Parks(s, p, value, c, q, y)
    BY <1>0, <2>2 DEF Parks
  <2> HIDE DEF q, y
  <2>4. Placed(r, q, y, t) /\ Pending(r, q, y)
    BY <1>1, <2>3, ParkPlaced
  <2> HIDE DEF r
  <2>5. Placed(ch', pc', value', t) /\ Pending(ch', pc', value')
    BY <1>9, <2>4 DEF q, y, r
  <2> QED BY <2>1, <2>2, <2>5
<1> QED BY <1>5, <1>6, <1>7, <1>8, <1>9

\* recv() on a rendezvous channel.
LEMMA RecvPlaced ==
    ASSUME ~is_buffered, NEW s, NEW p, Sound(s, p),
           NEW has \in BOOLEAN, has => Len(s.buffer) > s.reserved_receivers,
           NEW c \in Coroutines, DOMAIN pc = Coroutines, DOMAIN value = Coroutines,
           p[c] = "run", \A d \in Coroutines : d # c => p[d] = pc[d],
           NEW tok, Senders(p, value, told), Placed(s, p, value, told), Pending(s, p, value),
           RecvFrom(s, c, tok, has)
    PROVE  Placed(ch', pc', value', told) /\ Pending(ch', pc', value')
<1> DEFINE k == take_value(s)
           x == [s EXCEPT !.receivers = Append(@, c), !.error[c] = "none"]
           e == [s EXCEPT !.error[c] = "none"]
<1>0. Rec(s) /\ Fit(s)
  BY DEF Sound, Fit
<1>1. /\ Return(c) \/ Park(c, "recv", NoMessage, tok)
      /\ \/ (has \/ has_free_value(s)) /\ ch' = channel_wake_sender(k)
         \/ ch' = s
         \/ ch' = channel_refresh_deadlock_timer(x)
  BY DEF RecvFrom, ParkReceiver
<1>2. ASSUME has \/ has_free_value(s)
      PROVE  Placed(channel_wake_sender(k), p, value, told) /\ Pending(channel_wake_sender(k), p, value)
  <2>1. Len(s.buffer) > s.reserved_receivers /\ s.buffer # <<>>
    BY <1>0, <1>2, FitType, SMT, SMTT(30) DEF has_free_value, Holds
  <2>2. Sound(k, p) /\ Placed(k, p, value, told) /\ Taken(k, p, value)
    BY <1>0, <2>1, TakeValue, TakePlaced
  <2> HIDE DEF k
  <2> QED BY <2>2, WakeSenderPlaced
<1>3. Placed(channel_refresh_deadlock_timer(x), p, value, told)
      /\ Pending(channel_refresh_deadlock_timer(x), p, value)
  <2>1. Placed(e, p, value, told) /\ Pending(e, p, value)
    BY <1>0, ErrorPlaced
  <2>2. Alike(x, e)
    BY <1>0 DEF Alike, Rec, Fields
  <2> HIDE DEF x, e
  <2>3. Placed(x, p, value, told) /\ Pending(x, p, value) /\ Rec(x)
    BY <2>1, <2>2, AlikePlaced DEF Alike
  <2> QED BY <2>3, AlikeRefreshed, AlikePlaced
<1>4. Placed(ch', p, value, told) /\ Pending(ch', p, value)
  BY <1>1, <1>2, <1>3
<1> QED BY <1>1, <1>4, ReturnPlaced, ZenonT(30)

\* close() fails every sender, and takes back the value that nobody was
\* promised.
LEMMA ClosePlaced ==
    ASSUME NEW s, NEW p, NEW val, NEW t, Inv(s, p), ~s.closed, ~is_buffered, NEW reason,
           Placed(s, p, val, t), Pending(s, p, val)
    PROVE  LET r == channel_close(s, reason) IN Placed(r, p, val, t) /\ Pending(r, p, val)
<1> DEFINE e == [s EXCEPT !.closed = TRUE, !.close_reason = reason, !.timer = "off"]
           w == channel_wake_all(e)
           r == RollBack(w)
           failed == {c \in Coroutines : \/ InQueue(s.receivers, c) /\ c \notin s.value_kept
                                         \/ InQueue(s.senders, c)}
<1>0. Rec(s) /\ Waits(s, p)
  BY DEF Inv, Sound, Fit
<1>1. channel_close(s, reason) = r
  BY DEF channel_close
<1>2. /\ Rec(e) /\ e.buffer = s.buffer /\ e.committed = s.committed /\ e.taken = s.taken
      /\ e.senders = s.senders /\ e.receivers = s.receivers /\ e.value_kept = s.value_kept
      /\ e.queued = s.queued /\ e.error = s.error
  BY <1>0 DEF Rec, Fields
<1> HIDE DEF e
<1>3. /\ Rec(w) /\ w.buffer = s.buffer /\ w.committed = s.committed /\ w.taken = s.taken
      /\ w.senders = <<>> /\ w.queued = s.queued \cup failed
      /\ w.error = [c \in Coroutines |-> IF c \in failed THEN "closed" ELSE s.error[c]]
  BY <1>2 DEF channel_wake_all, Rec, Fields
<1> HIDE DEF w
<1>4. /\ r.taken = w.taken /\ r.committed = w.committed /\ r.senders = <<>>
      /\ r.queued = w.queued /\ r.error = w.error
      /\ \/ r.buffer = s.buffer /\ (s.buffer = <<>> \/ s.committed)
         \/ r.buffer = <<>> /\ ~s.committed
  <2>1. CASE w.buffer # <<>> /\ ~w.committed
    <3>1. r = [w EXCEPT !.buffer = <<>>]
      BY <2>1 DEF RollBack, withdraw_value
    <3> HIDE DEF r
    <3> QED BY <1>3, <2>1, <3>1 DEF Rec, Fields
  <2>2. CASE ~(w.buffer # <<>> /\ ~w.committed)
    <3>1. r = w
      BY <2>2 DEF RollBack
    <3> HIDE DEF r
    <3> QED BY <1>3, <2>2, <3>1
  <2> QED BY <2>1, <2>2
<1> HIDE DEF r
<1>5. \A x : /\ ~InQueue(r.senders, x)
             /\ InQueue(r.buffer, x) => InQueue(s.buffer, x) /\ s.committed
             /\ InQueue(s.buffer, x) /\ s.committed => InQueue(r.buffer, x)
  BY <1>4, InSlot, SMT, SMTT(30)
<1>6. \A c \in failed : p[c] # "run" /\ (p[c] = "delivery" => InQueue(s.senders, c))
  <2> SUFFICES ASSUME NEW c \in failed
               PROVE  p[c] # "run" /\ (p[c] = "delivery" => InQueue(s.senders, c))
    OBVIOUS
  <2>1. CASE InQueue(s.receivers, c)
    <3>1. c \notin Futures
      BY ChannelAssumption
    <3> QED BY <1>0, <2>1, <3>1 DEF Waits
  <2>2. CASE InQueue(s.senders, c)
    BY <1>0, <2>2 DEF Waits
  <2> QED BY <2>1, <2>2
<1>7. \A c \in Coroutines : p[c] = "delivery" /\ InQueue(s.senders, c) => ~s.committed
  BY DEF Pending, Unheard
<1>8. \A c \in Coroutines : InQueue(s.senders, c) => c \in failed
  OBVIOUS
<1>9. failed \subseteq Coroutines
  OBVIOUS
<1> HIDE DEF failed
<1>10. DOMAIN r.error = Coroutines /\ \A c \in Coroutines : r.error[c] = IF c \in failed THEN "closed" ELSE s.error[c]
  BY <1>3, <1>4
<1>11. ASSUME NEW c \in Coroutines
       PROVE  /\ p[c] = "space" => ~InQueue(r.buffer, val[c])
              /\ p[c] = "delivery" => /\ ~InQueue(r.buffer, val[c])
                                      /\ r.error[c] = "none" => InQueue(r.taken, val[c])
  BY <1>3, <1>4, <1>5, <1>7, <1>8, <1>10 DEF Placed
<1>12. Placed(r, p, val, t)
  BY <1>3, <1>4, <1>5, <1>6, <1>9, <1>10, <1>11 DEF Placed
<1>13. Pending(r, p, val)
  BY <1>5 DEF Pending, Unheard
<1> QED BY <1>1, <1>12, <1>13

\* sendAsync() on a rendezvous channel.
LEMMA AsyncPlaced ==
    ASSUME ~is_buffered, Inv(ch, pc), DOMAIN told = Messages, Senders(pc, value, told),
           Placed(ch, pc, value, told), Pending(ch, pc, value), NEW v \in Messages,
           told[v] = "unsent", v = NextMessage, sendAsync
    PROVE  Placed(ch', pc, value, told') /\ Pending(ch', pc, value)
<1> DEFINE put == put_value(ch, v)
           woken == channel_wake_receiver(put)
           r == [woken EXCEPT !.committed = woken.buffer # <<>>]
           u == [put EXCEPT !.committed = FALSE]
           t == [told EXCEPT ![v] = "async"]
<1>0. /\ Sound(ch, pc) /\ V(ch, 0) /\ S(ch, 0) /\ CommitOK(ch) /\ Rec(ch) /\ Fit(ch) /\ S(ch, 1)
      /\ ~ch.closed /\ Room - Len(ch.buffer) > ch.reserved_senders
  BY Weaken DEF Inv, Sound, Fit, sendAsync, has_free_slot, free_space
<1>1. told' = t /\ \/ WakesReceiver(put) /\ ch' = r
                   \/ ~WakesReceiver(put) /\ ch' = [woken EXCEPT !.committed = FALSE]
  <2>1. told' = t /\ ch' = [woken EXCEPT !.committed =
                               ~is_buffered /\ WakesReceiver(put) /\ woken.buffer # <<>>]
    BY DEF sendAsync, Tell
  <2> HIDE DEF put, t, woken
  <2>2. CASE WakesReceiver(put)
    <3>1. (~is_buffered /\ WakesReceiver(put) /\ woken.buffer # <<>>) = (woken.buffer # <<>>)
      BY <2>2
    <3> QED BY <2>1, <2>2, <3>1
  <2>3. CASE ~WakesReceiver(put)
    <3>1. (~is_buffered /\ WakesReceiver(put) /\ woken.buffer # <<>>) = FALSE
      BY <2>3
    <3> QED BY <2>1, <2>3, <3>1
  <2> QED BY <2>2, <2>3
<1>2. Placed(ch, pc, value, t)
  BY RetoldPlaced
<1>3. Senders(pc, value, t)
  BY DEF Senders
<1>4. t[v] \notin {"failed", "unsent"} /\ \A d \in Coroutines : Sending(pc, d) => value[d] # v
  BY DEF Senders
<1> HIDE DEF t
<1>5. ch.buffer = <<>>
  BY <1>0, OneInSlot
<1>6. Sound(put, pc) /\ S(put, 0) /\ ~put.closed
  BY <1>0, PutValue
<1>7. /\ Placed(put, pc, value, t) /\ put.buffer = <<v>> /\ ~put.committed /\ Rec(put)
      /\ \A d \in Coroutines : ~Unheard(put, pc, d)
  <2>1. Placed(ch, pc, value, t) /\ Pending(ch, pc, value) /\ Rec(ch) /\ ch.buffer = <<>> /\ v \in Messages
    BY <1>0, <1>2, <1>5
  <2> HIDE DEF put
  <2>2. LET p == put_value(ch, v)
        IN  /\ Placed(p, pc, value, t) /\ p.buffer = <<v>> /\ ~p.committed /\ Rec(p)
            /\ \A d \in Coroutines : ~Unheard(p, pc, d)
    BY <1>4, <2>1, PutPlaced, SMT, SMTT(30)
  <2>3. put = put_value(ch, v)
    BY DEF put
  <2> QED BY <2>2, <2>3
<1> HIDE DEF put
<1>8. CASE WakesReceiver(put) /\ ch' = r
  <2>1. Placed(r, pc, value, t) /\ Pending(r, pc, value)
    BY <1>3, <1>6, <1>7, MatchedPlaced
  <2> QED BY <1>1, <1>8, <2>1
<1>9. CASE ~WakesReceiver(put) /\ ch' = [woken EXCEPT !.committed = FALSE]
  <2>1. woken = put
    BY <1>9 DEF channel_wake_receiver
  <2>2. ch' = u
    BY <1>9, <2>1
  <2>3. /\ u.buffer = put.buffer /\ u.taken = put.taken /\ u.senders = put.senders
        /\ u.queued = put.queued /\ u.error = put.error /\ u.committed = FALSE
    BY <1>7 DEF Rec, Fields
  <2> HIDE DEF u
  <2>4. Placed(u, pc, value, t)
    BY <1>7, <2>3 DEF Placed
  <2>5. Pending(u, pc, value)
    BY <1>7, <2>3 DEF Pending, Unheard
  <2> QED BY <1>1, <2>2, <2>4, <2>5
<1> QED BY <1>1, <1>8, <1>9

\* The inductive invariant of a rendezvous channel whose callers pass no token.
RendezvousInv ==
    /\ ChannelInv
    /\ token = [c \in Coroutines |-> "none"]
    /\ Numbered(told) /\ Senders(pc, value, told)
    /\ Placed(ch, pc, value, told) /\ Pending(ch, pc, value)

\* A send() on a rendezvous channel that runs from its retry label.
LEMMA RendezvousSend ==
    ASSUME RendezvousInv, NEW c \in Coroutines, NEW v \in Messages,
           Open(told, v), \A d \in Coroutines : Sending(pc, d) => d = c \/ value[d] # v,
           Reply(c, v, "none")
    PROVE  /\ token' = [d \in Coroutines |-> "none"]
           /\ Numbered(told') /\ Senders(pc', value', told')
<1>0. /\ ChannelInv /\ Numbered(told) /\ Senders(pc, value, told)
      /\ token = [d \in Coroutines |-> "none"]
  BY DEF RendezvousInv
<1>1. token' = [d \in Coroutines |-> "none"]
  <2>1. token' = [token EXCEPT ![c] = "none"]
    BY DEF Reply, Return, Park
  <2> QED BY <1>0, <2>1
<1>2. CASE Return(c) /\ \E what \in {"sent", "failed"} : Tell(v, what)
  <2>1. PICK what \in {"sent", "failed"} : Tell(v, what)
    BY <1>2
  <2>2. what # "unsent"
    BY <2>1
  <2> QED BY <1>0, <1>1, <1>2, <2>1, <2>2, CallerTold DEF Return, Tell
<1>3. CASE \E where \in {"space", "delivery"} : Park(c, where, v, "none") /\ Tell(v, "pending")
  <2>1. PICK where \in {"space", "delivery"} : Park(c, where, v, "none") /\ Tell(v, "pending")
    BY <1>3
  <2> QED BY <1>0, <1>1, <2>1, CallerTold DEF Park, Tell
<1> QED BY <1>2, <1>3 DEF Reply

\* Every step on a rendezvous channel without tokens keeps the messages in
\* their places.
LEMMA RendezvousStep ==
    ASSUME ~is_buffered, ~Tokens, RendezvousInv, [Next]_vars
    PROVE  /\ token' = [c \in Coroutines |-> "none"]
           /\ Numbered(told') /\ Senders(pc', value', told')
           /\ Placed(ch', pc', value', told') /\ Pending(ch', pc', value')
<1> DEFINE Goal == /\ token' = [c \in Coroutines |-> "none"]
                   /\ Numbered(told') /\ Senders(pc', value', told')
                   /\ Placed(ch', pc', value', told') /\ Pending(ch', pc', value')
<1>0. /\ Inv(ch, pc) /\ DOMAIN pc = Coroutines /\ DOMAIN value = Coroutines /\ DOMAIN told = Messages
      /\ Rec(ch) /\ Fit(ch) /\ Sound(ch, pc) /\ V(ch, 0) /\ S(ch, 0) /\ CommitOK(ch)
      /\ Numbered(told) /\ Senders(pc, value, told) /\ ChannelInv
      /\ Placed(ch, pc, value, told) /\ Pending(ch, pc, value)
      /\ token = [c \in Coroutines |-> "none"]
  BY ZenonT(30) DEF RendezvousInv, ChannelInv, Inv, Sound, Fit, Numbered
<1>1. \A c \in Coroutines : token[c] = "none" /\ [token EXCEPT ![c] = "none"] = [d \in Coroutines |-> "none"]
  BY <1>0
<1>2. ASSUME NEW c \in Coroutines, NEW t \in TokenChoice, send(c, t) PROVE Goal
  <2> DEFINE v == NextMessage
  <2>1. v \in Messages /\ SendFrom(ch, c, v, "none", FALSE) /\ pc[c] = "run"
    BY <1>2, ZenonT(30) DEF send, TokenChoice
  <2>2. /\ Open(told, v) /\ told[v] = "unsent"
        /\ \A d \in Coroutines : Sending(pc, d) => value[d] # v
    BY <1>0, <2>1, NextIsOwn
  <2> HIDE DEF v
  <2>3. ~InQueue(ch.buffer, v) /\ S(ch, 1)
    BY <1>0, <2>1, <2>2, Weaken DEF Placed
  <2>4. Placed(ch', pc', value', told') /\ Pending(ch', pc', value') /\ Reply(c, v, "none")
    <3>1. "none" # "fired" /\ FALSE \in BOOLEAN /\ \A d \in Coroutines : d # c => pc[d] = pc[d]
      OBVIOUS
    <3> QED BY <1>0, <2>1, <2>2, <2>3, <3>1, SendPlaced
  <2> QED BY <2>1, <2>2, <2>4, RendezvousSend
<1>3. ASSUME NEW c \in Coroutines, NEW s, NEW p, NEW has \in BOOLEAN, Sound(s, p), p[c] = "run",
             has => Len(s.buffer) > s.reserved_receivers,
             \A d \in Coroutines : d # c => p[d] = pc[d], Senders(p, value, told),
             Placed(s, p, value, told), Pending(s, p, value), RecvFrom(s, c, "none", has)
      PROVE  Goal
  <2>1. told' = told /\ (Return(c) \/ Park(c, "recv", NoMessage, "none"))
    BY <1>3 DEF RecvFrom
  <2>2. Placed(ch', pc', value', told) /\ Pending(ch', pc', value')
    BY <1>0, <1>3, RecvPlaced
  <2>3. Senders(pc', value', told)
    BY <1>0, <2>1, ReceiverTold
  <2>4. token' = [d \in Coroutines |-> "none"]
    BY <1>1, <2>1 DEF Return, Park
  <2> QED BY <1>0, <2>1, <2>2, <2>3, <2>4
<1>4. ASSUME NEW c \in Coroutines, NEW t \in TokenChoice, recv(c, t) PROVE Goal
  <2>1. RecvFrom(ch, c, "none", FALSE) /\ pc[c] = "run"
    BY <1>4 DEF recv, TokenChoice
  <2> QED BY <1>0, <1>3, <2>1
<1>5. ASSUME NEW c \in Coroutines, resume_receiver(c) PROVE Goal
  <2> DEFINE s == ReceiverWoken(ch, c)
             p == [pc EXCEPT ![c] = "run"]
             has == c \in ch.value_kept
  <2>1. pc[c] = "recv" /\ has \in BOOLEAN
    BY <1>5, SMT, SMTT(30) DEF resume_receiver
  <2>2. /\ Sound(s, p)
        /\ has /\ ch.error[c] = "none" => Len(s.buffer) > s.reserved_receivers
    BY <1>0, <2>1, ReceiverLeaves
  <2>3. Placed(s, p, value, told) /\ Pending(s, p, value) /\ Senders(p, value, told)
    BY <1>0, <2>1, ReceiverWokenPlaced
  <2>4. \/ ch' = [s EXCEPT !.error[c] = "none"] /\ Return(c) /\ told' = told
        \/ ch.error[c] = "none" /\ RecvFrom(s, c, "none", has)
    BY <1>1, <1>5 DEF resume_receiver
  <2>5. p[c] = "run" /\ \A d \in Coroutines : d # c => p[d] = pc[d]
    BY <1>0
  <2>6. Rec(s)
    BY <2>2 DEF Sound, Fit
  <2> HIDE DEF s, p, has
  <2>7. CASE ch' = [s EXCEPT !.error[c] = "none"] /\ Return(c) /\ told' = told
    <3>1. Placed(ch', p, value, told) /\ Pending(ch', p, value)
      BY <2>3, <2>5, <2>6, <2>7, ErrorPlaced
    <3>2. Placed(ch', pc', value', told) /\ Pending(ch', pc', value')
      BY <1>0, <2>5, <2>7, <3>1, ReturnPlaced
    <3>3. Senders(pc', value', told)
      BY <1>0, <2>7, ReceiverTold
    <3>4. token' = [d \in Coroutines |-> "none"]
      BY <1>1, <2>7 DEF Return
    <3> QED BY <1>0, <2>7, <3>2, <3>3, <3>4
  <2>8. CASE ch.error[c] = "none" /\ RecvFrom(s, c, "none", has)
    BY <1>3, <2>1, <2>2, <2>3, <2>5, <2>8
  <2> QED BY <2>4, <2>7, <2>8
<1>6. ASSUME NEW c \in Coroutines, resume_sender(c) PROVE Goal
  <2> DEFINE s == SenderWoken(ch, c)
             p == [pc EXCEPT ![c] = "run"]
             has == c \in ch.slot_kept
             v == value[c]
  <2>1. pc[c] \in {"space", "delivery"} /\ has \in BOOLEAN /\ c \in ch.queued /\ Sending(pc, c)
    BY <1>6, SMT, SMTT(30) DEF resume_sender, Sending
  <2>2. /\ Sound(s, p) /\ V(s, 0) /\ CommitOK(s)
        /\ ~(has /\ ch.error[c] = "none") => S(s, 0)
        /\ has /\ ch.error[c] = "none" => S(s, 1) /\ Room - Len(s.buffer) > s.reserved_senders
    BY <1>0, <2>1, SenderLeaves
  <2>3. /\ Placed(s, p, value, told) /\ Pending(s, p, value) /\ Senders(p, value, told)
        /\ ~InQueue(s.buffer, v)
        /\ pc[c] = "delivery" /\ ch.error[c] = "none" => InQueue(s.taken, v)
    BY <1>0, <2>1, SenderWokenPlaced
  <2>4. \/ ch' = [s EXCEPT !.error[c] = "none"] /\ Return(c) /\ Tell(v, "failed")
        \/ ch.error[c] = "none" /\ pc[c] = "delivery" /\ ch' = s /\ Return(c) /\ Tell(v, "sent")
        \/ ch.error[c] = "none" /\ SendFrom(s, c, v, "none", has)
    BY <1>1, <1>6 DEF resume_sender
  <2>5. p[c] = "run" /\ \A d \in Coroutines : d # c => p[d] = pc[d]
    BY <1>0
  <2>6. Rec(s)
    BY <2>2 DEF Sound, Fit
  <2>7. /\ v \in Messages /\ told[v] = "pending" /\ Open(told, v)
        /\ \A d \in Coroutines : Sending(pc, d) => d = c \/ value[d] # v
    BY <1>0, <2>1 DEF Senders, Open
  <2> HIDE DEF s, p, has, v
  <2>8. CASE ch' = [s EXCEPT !.error[c] = "none"] /\ Return(c) /\ Tell(v, "failed")
    <3>1. Placed(s, p, value, told')
      BY <1>0, <2>3, <2>7, <2>8, RetoldPlaced DEF Tell
    <3>2. Placed(ch', p, value, told') /\ Pending(ch', p, value)
      BY <2>3, <2>5, <2>6, <2>8, <3>1, ErrorPlaced
    <3>3. Placed(ch', pc', value', told') /\ Pending(ch', pc', value')
      BY <1>0, <2>5, <2>8, <3>2, ReturnPlaced
    <3>4. Reply(c, v, "none")
      BY <2>8 DEF Reply
    <3> QED BY <2>7, <3>3, <3>4, RendezvousSend
  <2>9. CASE ch.error[c] = "none" /\ pc[c] = "delivery" /\ ch' = s /\ Return(c) /\ Tell(v, "sent")
    <3>1. Placed(s, p, value, told')
      BY <1>0, <2>3, <2>7, <2>9, RetoldPlaced DEF Tell
    <3>2. Placed(ch', p, value, told') /\ Pending(ch', p, value)
      BY <2>3, <2>9, <3>1
    <3>3. Placed(ch', pc', value', told') /\ Pending(ch', pc', value')
      BY <1>0, <2>5, <2>9, <3>2, ReturnPlaced
    <3>4. Reply(c, v, "none")
      BY <2>9 DEF Reply
    <3> QED BY <2>7, <3>3, <3>4, RendezvousSend
  <2>10. CASE ch.error[c] = "none" /\ SendFrom(s, c, v, "none", has)
    <3>1. S(s, 1) /\ (has => Room - Len(s.buffer) > s.reserved_senders)
      BY <2>2, <2>10, Weaken DEF Sound
    <3>2. "none" # "fired" /\ \A d \in Coroutines : Sending(p, d) => value[d] # v
      BY <2>5, <2>7 DEF Sending
    <3>3. Placed(ch', pc', value', told') /\ Pending(ch', pc', value') /\ Reply(c, v, "none")
      BY <1>0, <2>1, <2>2, <2>3, <2>5, <2>7, <2>10, <3>1, <3>2, SendPlaced
    <3> QED BY <2>7, <3>3, RendezvousSend
  <2> QED BY <2>4, <2>8, <2>9, <2>10
<1>7. ASSUME Placed(ch', pc, value, told) /\ Pending(ch', pc, value),
             UNCHANGED <<pc, value, token, told>>
      PROVE  Goal
  BY <1>0, <1>7
<1>8. ASSUME NEW c \in Coroutines, cancel(c) PROVE Goal
  <2>1. /\ pc[c] # "run" /\ UNCHANGED <<pc, value, token, told>>
        /\ ch' = [ch EXCEPT !.queued = @ \cup {c}, !.error[c] = "cancelled"]
    BY <1>8 DEF cancel
  <2>2. Placed(ch', pc, value, told) /\ Pending(ch', pc, value)
    BY <1>0, <2>1, ErrorPlaced
  <2> QED BY <1>7, <2>1, <2>2
<1>9. ASSUME NEW c \in Coroutines, token_fires(c) PROVE Goal
  BY <1>1, <1>9 DEF token_fires
<1>10. ASSUME sendAsync PROVE Goal
  <2> DEFINE v == NextMessage
  <2>1. v \in Messages /\ Tell(v, "async") /\ UNCHANGED <<pc, value, token>>
    BY <1>10, ZenonT(30) DEF sendAsync
  <2>2. Open(told, v) /\ told[v] = "unsent"
    BY <1>0, <2>1, NextIsOwn
  <2>3. Placed(ch', pc, value, told') /\ Pending(ch', pc, value)
    BY <1>0, <1>10, <2>1, <2>2, AsyncPlaced
  <2>4. Numbered(told') /\ Senders(pc', value', told')
    BY <1>0, <2>1, <2>2, AsyncTold
  <2> QED BY <1>0, <2>1, <2>3, <2>4
<1>11. ASSUME NEW f \in Futures, recvAsync(f) PROVE Goal
  <2>0. UNCHANGED <<pc, value, token, told>>
    BY <1>11 DEF recvAsync
  <2>1. CASE has_free_value(ch)
    <3> DEFINE k == take_value(ch)
               r == channel_wake_sender(k)
    <3>1. ch' = [r EXCEPT !.future[f] = "resolved"]
      BY <1>11, <2>1 DEF recvAsync
    <3>2. Len(ch.buffer) > ch.reserved_receivers /\ ch.buffer # <<>>
      BY <1>0, <2>1, FitType, SMT, SMTT(30) DEF has_free_value, Holds
    <3>3. Sound(k, pc) /\ Placed(k, pc, value, told) /\ Taken(k, pc, value)
      BY <1>0, <3>2, TakeValue, TakePlaced
    <3> HIDE DEF k
    <3>4. Placed(r, pc, value, told) /\ Pending(r, pc, value)
      BY <3>3, WakeSenderPlaced
    <3>5. Rec(r)
      BY <3>3, WakeSenderStill DEF Sound, Fit, Still
    <3> HIDE DEF r
    <3>6. Alike(ch', r)
      BY <3>1, <3>5 DEF Alike, Rec, Fields
    <3> QED BY <1>7, <2>0, <3>4, <3>6, AlikePlaced
  <2>2. CASE ~has_free_value(ch)
    <3>1. Alike(ch', ch)
      BY <1>0, <1>11, <2>2 DEF recvAsync, Alike, Rec, Fields
    <3> QED BY <1>0, <1>7, <2>0, <3>1, AlikePlaced
  <2> QED BY <2>1, <2>2
<1>12. ASSUME NEW f \in Futures, channel_recv_future_dispose(f) PROVE Goal
  <2>1. Alike(ch', ch) /\ UNCHANGED <<pc, value, token, told>>
    BY <1>0, <1>12 DEF channel_recv_future_dispose, Alike, Rec, Fields
  <2> QED BY <1>0, <1>7, <2>1, AlikePlaced
<1>13. ASSUME NEW reason, close(reason) PROVE Goal
  <2>1. ~ch.closed /\ ch' = channel_close(ch, reason) /\ UNCHANGED <<pc, value, token, told>>
    BY <1>13 DEF close
  <2>2. Placed(ch', pc, value, told) /\ Pending(ch', pc, value)
    BY <1>0, <2>1, ClosePlaced
  <2> QED BY <1>7, <2>1, <2>2
<1>14. CASE UNCHANGED vars
  <2>1. ch' = ch /\ UNCHANGED <<pc, value, token, told>>
    BY <1>14 DEF vars
  <2> QED BY <1>0, <1>7, <2>1
<1>15. CASE Next
  BY <1>2, <1>4, <1>5, <1>6, <1>8, <1>9, <1>10, <1>11, <1>12, <1>13, <1>15
     DEF Next, channel_deadlock_fire, async_channel_resolve_deadlocks
<1> QED BY <1>14, <1>15

-----------------------------------------------------------------------
(* The theorems.                                                          *)

\* So does the other in those of a rendezvous channel.
LEMMA RendezvousInvariant ==
    ASSUME ~is_buffered, ~Tokens PROVE Spec => []RendezvousInv
<1>1. Init => RendezvousInv
  <2> SUFFICES ASSUME Init PROVE RendezvousInv
    OBVIOUS
  <2>1. ChannelInv /\ Numbered(told) /\ Senders(pc, value, told)
    BY ChannelInit, NothingSent
  <2>2. token = [c \in Coroutines |-> "none"]
    BY DEF Init
  <2>3. /\ ch.taken = <<>> /\ ch.buffer = <<>> /\ ch.senders = <<>> /\ ch.queued = {}
        /\ DOMAIN ch.error = Coroutines /\ \A c \in Coroutines : pc[c] = "run"
        /\ \A v \in Messages : told[v] = "unsent"
    BY DEF Init
  <2>4. <<>> \in Seq(Messages)
    BY SMT, SMTT(30)
  <2>5. Placed(ch, pc, value, told)
    BY <2>3, <2>4, InSlot, SMT, SMTT(30) DEF Placed
  <2>6. Pending(ch, pc, value)
    BY <2>3, InSlot DEF Pending, Unheard
  <2> QED BY <2>1, <2>2, <2>5, <2>6 DEF RendezvousInv
<1>2. RendezvousInv /\ [Next]_vars => RendezvousInv'
  <2> SUFFICES ASSUME RendezvousInv, [Next]_vars PROVE RendezvousInv'
    OBVIOUS
  <2>1. ChannelInv'
    BY ChannelStep DEF RendezvousInv
  <2>2. /\ token' = [c \in Coroutines |-> "none"]
        /\ Numbered(told') /\ Senders(pc', value', told')
        /\ Placed(ch', pc', value', told') /\ Pending(ch', pc', value')
    BY RendezvousStep
  <2> QED BY <2>1, <2>2 DEF RendezvousInv, Numbered, Senders, Sending, Placed, Pending, Unheard
<1> QED BY <1>1, <1>2, PTL DEF Spec

\* send() tells the truth on a rendezvous channel too, unless its callers pass
\* cancellation tokens (a sender that was woken with a slot, and whose token
\* fired meanwhile, leaves its value in it): what it reported as sent was
\* received or is there to be received, and what it reported as failed is gone.
THEOREM RendezvousTellsTheTruth ==
    ASSUME ~is_buffered, ~Tokens PROVE Spec => []SendIsHonest
<1>1. RendezvousInv => SendIsHonest
  <2> SUFFICES ASSUME RendezvousInv PROVE SendIsHonest
    OBVIOUS
  <2> DEFINE a == ch.taken
             b == ch.buffer
  <2>1. /\ a \in Seq(Messages) /\ b \in Seq(Messages)
        /\ \A v \in Messages : /\ told[v] = "sent" => InQueue(a, v) \/ InQueue(b, v)
                               /\ told[v] = "failed" => ~InQueue(b, v)
    BY DEF RendezvousInv, Placed, ChannelInv, Inv, Sound, Fit
  <2> HIDE DEF a, b
  <2>2. \A v \in Messages : told[v] = "sent" => InQueue(a \o b, v)
    BY <2>1, InJoined
  <2> QED BY <2>1, <2>2 DEF SendIsHonest, SentIsKept, FailedIsGone, a, b
<1> QED BY <1>1, RendezvousInvariant, PTL
=======================================================================
