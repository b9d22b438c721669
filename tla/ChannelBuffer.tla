------------------------- MODULE ChannelBuffer -------------------------
(* Proofs about Channel: a buffer loses nothing, and the deadlock timer.  *)
(*                                                                        *)
(* BufferedInv: what was taken and what is in the buffer are together     *)
(* what was accepted, which is what senders were told.                    *)
(*                                                                        *)
(* channel_refresh_deadlock_timer compares the lengths of the queues with *)
(* the numbers of promises, which tells whether a waiter has none as long *)
(* as whoever holds one is still queued (Kept); that fails once a future  *)
(* is dropped.                                                            *)
EXTENDS ChannelProofs

\* The provers to try on a leaf that names none.
USE Zenon, SMT, SMTT(30)

-----------------------------------------------------------------------
(* A buffered channel.                                                    *)

\* The accepted messages are the ones reported as sent; the first of them
\* were taken, the others are in the buffer.
Flow(s, t) ==
    /\ s.taken \in Seq(Messages) /\ s.buffer \in Seq(Messages)
    /\ s.taken \o s.buffer = s.accepted
    /\ \A v \in Messages : InQueue(s.accepted, v) <=> t[v] \in {"sent", "async"}

\* The inductive invariant of a buffered channel: nobody waits for a delivery.
BufferedInv ==
    /\ ChannelInv
    /\ \A c \in Coroutines : pc[c] # "delivery"
    /\ Numbered(told) /\ Senders(pc, value, told) /\ Flow(ch, told)

\* A receiver that leaves moves at most the message it was promised.
LEMMA ReceiverWokenCarries ==
    ASSUME NEW s, NEW p, Inv(s, p), DOMAIN p = Coroutines, NEW c \in Coroutines, p[c] = "recv",
           s.taken \in Seq(Messages)
    PROVE  LET r == ReceiverWoken(s, c) IN Carried(r, s) /\ Rec(r)
<1> DEFINE r == ReceiverWoken(s, c)
           q == [p EXCEPT ![c] = "run"]
           t == ReceiverGone(s, c)
           hand_on == c \in s.value_kept /\ s.error[c] # "none" /\ ~s.closed
           h == IF hand_on THEN channel_wake_receiver(t) ELSE t
<1>0. Rec(s) /\ s.buffer \in Seq(Messages)
  BY DEF Inv, Sound, Fit
<1>1. r = channel_refresh_deadlock_timer(h)
  BY DEF ReceiverWoken, ReceiverGone
<1>2. Sound(t, q)
  BY ReceiverGoes
<1>3. Still(t, s)
  BY <1>0 DEF ReceiverGone, Still, Rec, Fields
<1> HIDE DEF t, r, q
<1>4. Carried(h, s) /\ Rec(h)
  <2>1. CASE hand_on
    <3>1. Carried(channel_wake_receiver(t), t) /\ Rec(channel_wake_receiver(t))
      BY <1>2, <1>3, WakeReceiverCarries DEF Sound, Still
    <3> QED BY <1>3, <2>1, <3>1 DEF Carried, Still
  <2>2. CASE ~hand_on
    BY <1>0, <1>3, <2>2 DEF Carried, Still
  <2> QED BY <2>1, <2>2
<1> HIDE DEF h
<1>5. Still(r, h)
  BY <1>1, <1>4, StillThere
<1> QED BY <1>4, <1>5 DEF Carried, Still, r

\* A sender that leaves a buffered channel moves no message.
LEMMA SenderWokenStill ==
    ASSUME NEW s, Rec(s), is_buffered, NEW c PROVE Still(SenderWoken(s, c), s)
<1> DEFINE r == SenderWoken(s, c)
           t == SenderGone(s, c)
<1>1. r = channel_refresh_deadlock_timer(t) \/ r = channel_refresh_deadlock_timer(channel_wake_sender(t))
  BY DEF SenderWoken, SenderGone, RollBack
<1>2. Still(t, s)
  BY DEF SenderGone, Still, Rec, Fields
<1> HIDE DEF t, r
<1>3. Rec(t)
  BY <1>2 DEF Still
<1>4. Still(channel_wake_sender(t), t)
  BY <1>3, WakeSenderStill
<1>5. Rec(channel_wake_sender(t))
  BY <1>4 DEF Still
<1>6. Still(r, t)
  BY <1>1, <1>3, <1>4, <1>5, StillThere, SMT, SMTT(30) DEF Still
<1> QED BY <1>2, <1>6 DEF Still, r

\* Messages that move on are accounted for as before.
LEMMA CarriedFlow ==
    ASSUME NEW s, NEW r, NEW t, Flow(s, t), Carried(r, s) PROVE Flow(r, t)
BY DEF Flow, Carried

\* An answer that says nothing was sent.
LEMMA FlowRetold ==
    ASSUME NEW s, NEW t, Flow(s, t), DOMAIN t = Messages, NEW v \in Messages,
           t[v] \notin {"sent", "async"}, NEW what, what \notin {"sent", "async"}
    PROVE  Flow(s, [t EXCEPT ![v] = what])
BY DEF Flow

\* An accepted message joins the end of the buffer, and is reported as sent.
LEMMA PutFlow ==
    ASSUME NEW s, NEW t, Rec(s), Flow(s, t), DOMAIN t = Messages, NEW v \in Messages,
           NEW what \in {"sent", "async"}
    PROVE  Flow(put_value(s, v), [t EXCEPT ![v] = what])
<1> DEFINE r == put_value(s, v)
           a == s.taken
           b == s.buffer
           n == s.accepted
           u == [t EXCEPT ![v] = what]
<1>1. r.taken = a /\ r.buffer = Append(b, v) /\ r.accepted = Append(n, v)
  BY DEF put_value, Rec, Fields
<1>2. a \in Seq(Messages) /\ b \in Seq(Messages) /\ a \o b = n
  BY DEF Flow
<1>3. \A w \in Messages : InQueue(n, w) <=> t[w] \in {"sent", "async"}
  BY DEF Flow
<1>4. \A w \in Messages : u[w] = IF w = v THEN what ELSE t[w]
  OBVIOUS
<1> HIDE DEF r, a, b, n, u
<1>5. Append(b, v) \in Seq(Messages) /\ n \in Seq(Messages)
  <2>1. Append(b, v) \in Seq(Messages)
    BY <1>2, SMT, SMTT(30)
  <2>2. a \o b \in Seq(Messages)
    BY <1>2, JoinedType
  <2> QED BY <1>2, <2>1, <2>2
<1>6. a \o Append(b, v) = Append(n, v)
  <2> DEFINE e == <<v>>
  <2>1. Append(b, v) = b \o e /\ Append(n, v) = n \o e /\ e \in Seq(Messages)
    BY <1>2, <1>5, SMT, SMTT(30)
  <2> HIDE DEF e
  <2>2. a \in Seq(Messages) /\ b \in Seq(Messages) /\ e \in Seq(Messages)
    BY <1>2, <2>1
  <2>3. (a \o b) \o e = a \o (b \o e)
    BY <2>2, Joined, SMT, SMTT(30)
  <2> QED BY <1>2, <2>1, <2>3
<1>7. \A w : InQueue(Append(n, v), w) <=> InQueue(n, w) \/ w = v
  BY <1>5, AppendKeeps
<1>8. \A w \in Messages : InQueue(r.accepted, w) <=> u[w] \in {"sent", "async"}
  BY <1>1, <1>3, <1>4, <1>7
<1> QED BY <1>1, <1>2, <1>5, <1>6, <1>8 DEF Flow, r, u

\* What send() on a buffered channel may do with its message.
Answer(c, v, tok) ==
    \/ Return(c) /\ \E what \in {"sent", "failed"} : Tell(v, what)
    \/ Park(c, "space", v, tok) /\ Tell(v, "pending")

\* send() on a buffered channel.
LEMMA SendFlow ==
    ASSUME is_buffered, NEW s, NEW p, Sound(s, p), V(s, 0), CommitOK(s), NEW has \in BOOLEAN,
           ~has => S(s, 0),
           has => S(s, 1) /\ Room - Len(s.buffer) > s.reserved_senders,
           NEW c, NEW v \in Messages, NEW tok,
           Flow(s, told), DOMAIN told = Messages, told[v] \notin {"sent", "async"},
           SendFrom(s, c, v, tok, has)
    PROVE  Flow(ch', told') /\ Answer(c, v, tok)
<1> DEFINE put == put_value(s, v)
           woken == channel_wake_receiver(put)
           admitted == ~s.closed /\ (has \/ has_free_slot(s))
<1>0. Rec(s)
  BY DEF Sound, Fit
<1>1. /\ Flow(put, [told EXCEPT ![v] = "sent"])
      /\ Flow(s, [told EXCEPT ![v] = "failed"]) /\ Flow(s, [told EXCEPT ![v] = "pending"])
  BY <1>0, PutFlow, FlowRetold
<1>2. admitted => Fit(put)
  <2>1. S(s, 1)
    BY Weaken DEF Sound
  <2>2. has_free_slot(s) <=> Room - Len(s.buffer) > s.reserved_senders
    BY DEF has_free_slot, free_space
  <2> QED BY <2>1, <2>2, PutValue DEF Sound
<1>3. admitted => Flow(woken, [told EXCEPT ![v] = "sent"])
  <2> HIDE DEF put
  <2>1. put.taken \in Seq(Messages)
    BY <1>1 DEF Flow
  <2> QED BY <1>1, <1>2, <2>1, WakeReceiverCarries, CarriedFlow
<1>4. Flow(ParkSender(s, c, FALSE), [told EXCEPT ![v] = "pending"])
  <2> DEFINE x == [s EXCEPT !.senders = Append(@, c), !.error[c] = "none",
                            !.delivering = IF FALSE THEN @ \cup {c} ELSE @]
             r == ParkSender(s, c, FALSE)
  <2>1. r = channel_refresh_deadlock_timer(x)
    BY DEF ParkSender
  <2>2. Still(x, s)
    BY <1>0 DEF Still, Rec, Fields
  <2> HIDE DEF x, r
  <2>3. Still(r, s)
    BY <2>1, <2>2, StillThere DEF Still
  <2> QED BY <1>1, <2>3 DEF Still, Flow, r
<1>5. \/ ch' = s /\ Return(c) /\ Tell(v, "failed")
      \/ admitted /\ ch' = woken /\ Return(c) /\ Tell(v, "sent")
      \/ ch' = ParkSender(s, c, FALSE) /\ Park(c, "space", v, tok) /\ Tell(v, "pending")
  BY DEF SendFrom
<1> HIDE DEF put, woken, admitted
<1>6. Flow(ch', told')
  BY <1>1, <1>3, <1>4, <1>5 DEF Tell
<1>7. Answer(c, v, tok)
  BY <1>5 DEF Answer
<1> QED BY <1>6, <1>7

\* recv() on any channel.
LEMMA RecvFlow ==
    ASSUME NEW s, NEW p, Sound(s, p), NEW has \in BOOLEAN,
           has => Len(s.buffer) > s.reserved_receivers,
           NEW c, NEW tok, Flow(s, told), RecvFrom(s, c, tok, has)
    PROVE  Flow(ch', told)
<1> DEFINE t == take_value(s)
           r == channel_wake_sender(t)
           x == [s EXCEPT !.receivers = Append(@, c), !.error[c] = "none"]
<1>0. Rec(s) /\ Fit(s)
  BY DEF Sound, Fit
<1>1. \/ (has \/ has_free_value(s)) /\ ch' = r
      \/ ch' = s
      \/ ch' = channel_refresh_deadlock_timer(x)
  BY DEF RecvFrom, ParkReceiver
<1>2. has \/ has_free_value(s) => s.buffer # <<>>
  BY <1>0, FitType, SMT, SMTT(30) DEF has_free_value, Holds
<1>3. s.buffer # <<>> => Flow(t, told) /\ Rec(t)
  BY <1>0, TakeCarries, CarriedFlow DEF Flow
<1>4. Still(x, s)
  BY <1>0 DEF Still, Rec, Fields
<1> HIDE DEF t, x
<1>5. s.buffer # <<>> => Flow(r, told)
  BY <1>3, WakeSenderStill DEF Still, Flow
<1> HIDE DEF r
<1>6. Still(channel_refresh_deadlock_timer(x), s)
  BY <1>4, StillThere DEF Still
<1>7. Flow(channel_refresh_deadlock_timer(x), told)
  BY <1>6 DEF Still, Flow
<1> QED BY <1>1, <1>2, <1>5, <1>7

\* A send() on a buffered channel that runs from its retry label.
LEMMA BufferedSend ==
    ASSUME is_buffered, BufferedInv, NEW c \in Coroutines, NEW v \in Messages, NEW tok,
           Open(told, v), \A d \in Coroutines : Sending(pc, d) => d = c \/ value[d] # v,
           Answer(c, v, tok)
    PROVE  /\ \A d \in Coroutines : pc'[d] # "delivery"
           /\ Numbered(told') /\ Senders(pc', value', told')
<1>0. /\ ChannelInv /\ Numbered(told) /\ Senders(pc, value, told) /\ DOMAIN pc = Coroutines
      /\ \A d \in Coroutines : pc[d] # "delivery"
  BY DEF BufferedInv, ChannelInv
<1>1. \A d \in Coroutines : pc'[d] # "delivery"
  BY <1>0 DEF Return, Park, Answer
<1>2. CASE Return(c) /\ \E what \in {"sent", "failed"} : Tell(v, what)
  <2>1. PICK what \in {"sent", "failed"} : Tell(v, what)
    BY <1>2
  <2>2. what # "unsent"
    BY <2>1
  <2> QED BY <1>0, <1>1, <1>2, <2>1, <2>2, CallerTold DEF Return, Tell
<1>3. CASE Park(c, "space", v, tok) /\ Tell(v, "pending")
  BY <1>0, <1>1, <1>3, CallerTold DEF Park, Tell
<1> QED BY <1>2, <1>3 DEF Answer

\* Every step on a buffered channel accounts for the messages.
LEMMA BufferedStep ==
    ASSUME is_buffered, BufferedInv, [Next]_vars
    PROVE  /\ \A c \in Coroutines : pc'[c] # "delivery"
           /\ Numbered(told') /\ Senders(pc', value', told') /\ Flow(ch', told')
<1> DEFINE Goal == /\ \A c \in Coroutines : pc'[c] # "delivery"
                   /\ Numbered(told') /\ Senders(pc', value', told') /\ Flow(ch', told')
<1>0. /\ Inv(ch, pc) /\ DOMAIN pc = Coroutines /\ DOMAIN value = Coroutines /\ DOMAIN told = Messages
      /\ Rec(ch) /\ Fit(ch) /\ Sound(ch, pc) /\ V(ch, 0) /\ S(ch, 0) /\ CommitOK(ch)
      /\ Numbered(told) /\ Senders(pc, value, told) /\ Flow(ch, told)
      /\ \A c \in Coroutines : pc[c] # "delivery"
      /\ ChannelInv
  BY DEF BufferedInv, ChannelInv, Inv, Sound, Fit, Numbered
<1>1. ASSUME NEW c \in Coroutines, NEW t \in TokenChoice, send(c, t) PROVE Goal
  <2> DEFINE v == NextMessage
  <2>1. v \in Messages /\ SendFrom(ch, c, v, t, FALSE)
    BY <1>1 DEF send
  <2>2. /\ Open(told, v) /\ told[v] = "unsent"
        /\ \A d \in Coroutines : Sending(pc, d) => value[d] # v
    BY <1>0, <2>1, NextIsOwn
  <2> HIDE DEF v
  <2>3. Flow(ch', told') /\ Answer(c, v, t)
    BY <1>0, <2>1, <2>2, SendFlow
  <2> QED BY <2>1, <2>2, <2>3, BufferedSend
<1>2. ASSUME NEW c \in Coroutines, NEW s, NEW tok, NEW has \in BOOLEAN, NEW p, Sound(s, p),
             has => Len(s.buffer) > s.reserved_receivers, Flow(s, told), RecvFrom(s, c, tok, has)
      PROVE  Goal
  <2>1. told' = told /\ (Return(c) \/ Park(c, "recv", NoMessage, tok))
    BY <1>2 DEF RecvFrom
  <2>2. Flow(ch', told)
    BY <1>2, RecvFlow
  <2>3. Senders(pc', value', told)
    BY <1>0, <2>1, ReceiverTold
  <2>4. \A d \in Coroutines : pc'[d] # "delivery"
    BY <1>0, <2>1 DEF Return, Park
  <2> QED BY <1>0, <2>1, <2>2, <2>3, <2>4
<1>3. ASSUME NEW c \in Coroutines, NEW t \in TokenChoice, recv(c, t) PROVE Goal
  <2>1. RecvFrom(ch, c, t, FALSE)
    BY <1>3 DEF recv
  <2> QED BY <1>0, <1>2, <2>1
<1>4. ASSUME NEW c \in Coroutines, resume_receiver(c) PROVE Goal
  <2> DEFINE s == ReceiverWoken(ch, c)
             p == [pc EXCEPT ![c] = "run"]
             has == c \in ch.value_kept
  <2>1. pc[c] = "recv" /\ has \in BOOLEAN
    BY <1>4, SMT, SMTT(30) DEF resume_receiver
  <2>2. /\ Sound(s, p)
        /\ has /\ ch.error[c] = "none" => Len(s.buffer) > s.reserved_receivers
    BY <1>0, <2>1, ReceiverLeaves
  <2>3. Flow(s, told) /\ Rec(s)
    <3>1. ch.taken \in Seq(Messages)
      BY <1>0 DEF Flow
    <3> QED BY <1>0, <2>1, <3>1, ReceiverWokenCarries, CarriedFlow
  <2>4. \/ ch' = [s EXCEPT !.error[c] = "none"] /\ Return(c) /\ told' = told
        \/ ch.error[c] = "none" /\ RecvFrom(s, c, token[c], has)
    BY <1>4 DEF resume_receiver
  <2> HIDE DEF s, p, has
  <2>5. CASE ch' = [s EXCEPT !.error[c] = "none"] /\ Return(c) /\ told' = told
    <3>1. Still(ch', s)
      BY <2>3, <2>5 DEF Still, Rec, Fields
    <3>2. Flow(ch', told)
      BY <2>3, <3>1 DEF Still, Flow
    <3>3. Senders(pc', value', told)
      BY <1>0, <2>5, ReceiverTold
    <3>4. \A d \in Coroutines : pc'[d] # "delivery"
      BY <1>0, <2>5 DEF Return
    <3> QED BY <1>0, <2>5, <3>2, <3>3, <3>4
  <2>6. CASE ch.error[c] = "none" /\ RecvFrom(s, c, token[c], has)
    BY <1>2, <2>1, <2>2, <2>3, <2>6
  <2> QED BY <2>4, <2>5, <2>6
<1>5. ASSUME NEW c \in Coroutines, resume_sender(c) PROVE Goal
  <2> DEFINE s == SenderWoken(ch, c)
             p == [pc EXCEPT ![c] = "run"]
             has == c \in ch.slot_kept
             v == value[c]
  <2>1. pc[c] = "space" /\ has \in BOOLEAN
    BY <1>0, <1>5, SMT, SMTT(30) DEF resume_sender
  <2>2. /\ Sound(s, p) /\ V(s, 0) /\ CommitOK(s)
        /\ ~(has /\ ch.error[c] = "none") => S(s, 0)
        /\ has /\ ch.error[c] = "none" => S(s, 1) /\ Room - Len(s.buffer) > s.reserved_senders
    BY <1>0, <2>1, SenderLeaves
  <2>3. Flow(s, told) /\ Rec(s)
    <3>1. Still(s, ch)
      BY <1>0, SenderWokenStill
    <3> HIDE DEF s
    <3> QED BY <1>0, <3>1 DEF Still, Flow
  <2>4. \/ ch' = [s EXCEPT !.error[c] = "none"] /\ Return(c) /\ Tell(v, "failed")
        \/ ch.error[c] = "none" /\ SendFrom(s, c, v, token[c], has)
    BY <1>5, <2>1 DEF resume_sender
  <2>5. /\ v \in Messages /\ told[v] = "pending" /\ Open(told, v)
        /\ \A d \in Coroutines : Sending(pc, d) => d = c \/ value[d] # v
    BY <1>0, <2>1 DEF Senders, Sending, Open
  <2> HIDE DEF s, p, has, v
  <2>6. CASE ch' = [s EXCEPT !.error[c] = "none"] /\ Return(c) /\ Tell(v, "failed")
    <3>1. Still(ch', s)
      BY <2>3, <2>6 DEF Still, Rec, Fields
    <3>2. Flow(s, [told EXCEPT ![v] = "failed"])
      BY <1>0, <2>3, <2>5, FlowRetold
    <3>3. Flow(ch', told')
      BY <2>6, <3>1, <3>2 DEF Still, Flow, Tell
    <3>4. Answer(c, v, token[c])
      BY <2>6 DEF Answer
    <3> QED BY <2>5, <3>3, <3>4, BufferedSend
  <2>7. CASE ch.error[c] = "none" /\ SendFrom(s, c, v, token[c], has)
    <3>1. Flow(ch', told') /\ Answer(c, v, token[c])
      BY <1>0, <2>1, <2>2, <2>3, <2>5, <2>7, SendFlow
    <3> QED BY <2>5, <3>1, BufferedSend
  <2> QED BY <2>4, <2>6, <2>7
<1>6. ASSUME NEW r, Carried(r, ch), ch' = r, UNCHANGED <<pc, value, told>> PROVE Goal
  BY <1>0, <1>6, CarriedFlow
<1>7. ASSUME NEW c \in Coroutines, cancel(c) \/ token_fires(c) PROVE Goal
  <2>0. Still(ch, ch) /\ Still(Resumed(ch, c, "cancelled"), ch)
    BY <1>0, StillThere
  <2>1. Still(ch', ch) /\ UNCHANGED <<pc, value, told>>
    <3>1. CASE cancel(c)
      BY <1>0, <3>1 DEF cancel, Still, Rec, Fields
    <3>2. CASE token_fires(c)
      BY <2>0, <3>2 DEF token_fires
    <3> QED BY <1>7, <3>1, <3>2
  <2>2. Carried(ch', ch)
    BY <1>0, <2>1 DEF Still, Carried, Flow
  <2> QED BY <1>6, <2>1, <2>2
<1>8. ASSUME sendAsync PROVE Goal
  <2> DEFINE v == NextMessage
             put == put_value(ch, v)
             woken == channel_wake_receiver(put)
             b == ~is_buffered /\ WakesReceiver(put) /\ woken.buffer # <<>>
             u == [told EXCEPT ![v] = "async"]
  <2>1. /\ v \in Messages /\ ch' = [woken EXCEPT !.committed = b] /\ Tell(v, "async")
        /\ ~ch.closed /\ has_free_slot(ch) /\ UNCHANGED <<pc, value>>
    BY <1>8 DEF sendAsync
  <2>2. Open(told, v) /\ told[v] = "unsent"
    BY <1>0, <2>1, NextIsOwn
  <2> HIDE DEF v, b, u
  <2>3. Fit(put)
    BY <1>0, <2>1, Weaken, PutValue DEF has_free_slot, free_space, Sound
  <2>4. Flow(put, u)
    BY <1>0, <2>1, PutFlow DEF u
  <2> HIDE DEF put
  <2>5. Flow(woken, u) /\ Rec(woken)
    <3>1. put.taken \in Seq(Messages)
      BY <2>4 DEF Flow
    <3> QED BY <2>3, <2>4, <3>1, WakeReceiverCarries, CarriedFlow
  <2> HIDE DEF woken
  <2>6. /\ ch'.buffer = woken.buffer /\ ch'.taken = woken.taken /\ ch'.accepted = woken.accepted
    BY <2>1, <2>5 DEF Rec, Fields
  <2>7. Flow(ch', u)
    BY <2>5, <2>6 DEF Flow
  <2>8. Numbered(told') /\ Senders(pc', value', told')
    BY <1>0, <2>1, <2>2, AsyncTold
  <2> QED BY <1>0, <2>1, <2>7, <2>8 DEF Tell, u
<1>9. ASSUME NEW f \in Futures, recvAsync(f) PROVE Goal
  <2>0. UNCHANGED <<pc, value, told>> /\ Carried(ch, ch)
    BY <1>0, <1>9 DEF recvAsync, Carried, Flow
  <2>1. CASE has_free_value(ch)
    <3> DEFINE t == take_value(ch)
               r == channel_wake_sender(t)
    <3>1. ch' = [r EXCEPT !.future[f] = "resolved"]
      BY <1>9, <2>1 DEF recvAsync
    <3>2. ch.buffer # <<>>
      BY <1>0, <2>1, FitType, SMT, SMTT(30) DEF has_free_value, Holds
    <3>3. Carried(t, ch) /\ Rec(t)
      BY <1>0, <3>2, TakeCarries DEF Flow
    <3> HIDE DEF t
    <3>4. Still(r, t)
      BY <3>3, WakeSenderStill
    <3> HIDE DEF r
    <3>5. Still(ch', r)
      BY <3>1, <3>4 DEF Still, Rec, Fields
    <3>6. Carried(ch', ch)
      BY <3>3, <3>4, <3>5 DEF Still, Carried
    <3> QED BY <1>6, <2>0, <3>6
  <2>2. CASE ~has_free_value(ch)
    <3>1. Still(ch', ch)
      BY <1>0, <1>9, <2>2 DEF recvAsync, Still, Rec, Fields
    <3>2. Carried(ch', ch)
      BY <2>0, <3>1 DEF Still, Carried
    <3> QED BY <1>6, <2>0, <3>2
  <2> QED BY <2>1, <2>2
<1>10. ASSUME NEW f \in Futures, channel_recv_future_dispose(f) PROVE Goal
  <2>1. Still(ch', ch) /\ UNCHANGED <<pc, value, told>>
    BY <1>0, <1>10 DEF channel_recv_future_dispose, Still, Rec, Fields
  <2>2. Carried(ch', ch)
    BY <1>0, <2>1 DEF Still, Carried, Flow
  <2> QED BY <1>6, <2>1, <2>2
<1>11. ASSUME NEW reason, close(reason) PROVE Goal
  <2> DEFINE e == [ch EXCEPT !.closed = TRUE, !.close_reason = reason, !.timer = "off"]
             w == channel_wake_all(e)
  <2>1. ch' = w /\ UNCHANGED <<pc, value, told>>
    BY <1>11 DEF close, channel_close, RollBack
  <2>2. Still(e, ch)
    BY <1>0 DEF Still, Rec, Fields
  <2> HIDE DEF e
  <2>3. Still(w, e)
    BY <2>2 DEF channel_wake_all, Still, Rec, Fields
  <2> HIDE DEF w
  <2>4. Carried(ch', ch)
    BY <1>0, <2>1, <2>2, <2>3 DEF Still, Carried, Flow
  <2> QED BY <1>6, <2>1, <2>4
<1>12. CASE UNCHANGED vars
  <2>1. Carried(ch, ch)
    BY <1>0 DEF Carried, Flow
  <2> QED BY <1>6, <1>12, <2>1 DEF vars
<1>13. CASE Next
  BY <1>1, <1>3, <1>4, <1>5, <1>7, <1>8, <1>9, <1>10, <1>11, <1>13
     DEF Next, channel_deadlock_fire, async_channel_resolve_deadlocks
<1> QED BY <1>12, <1>13

\* The inductive invariant holds in every reachable state of a buffered channel.
LEMMA BufferedInvariant ==
    ASSUME is_buffered PROVE Spec => []BufferedInv
<1>1. Init => BufferedInv
  <2> SUFFICES ASSUME Init PROVE BufferedInv
    OBVIOUS
  <2>1. ChannelInv /\ Numbered(told) /\ Senders(pc, value, told)
    BY ChannelInit, NothingSent
  <2>2. \A c \in Coroutines : pc[c] # "delivery"
    BY DEF Init
  <2>3. Flow(ch, told)
    <3>1. /\ ch.taken = <<>> /\ ch.buffer = <<>> /\ ch.accepted = <<>>
          /\ \A v \in Messages : told[v] = "unsent"
      BY DEF Init
    <3>2. <<>> \o <<>> = <<>> /\ <<>> \in Seq(Messages)
      BY SMT, SMTT(30)
    <3> QED BY <3>1, <3>2, InSlot, SMT, SMTT(30) DEF Flow
  <2> QED BY <2>1, <2>2, <2>3 DEF BufferedInv
<1>2. BufferedInv /\ [Next]_vars => BufferedInv'
  <2> SUFFICES ASSUME BufferedInv, [Next]_vars PROVE BufferedInv'
    OBVIOUS
  <2>1. ChannelInv'
    BY ChannelStep DEF BufferedInv
  <2>2. /\ \A c \in Coroutines : pc'[c] # "delivery"
        /\ Numbered(told') /\ Senders(pc', value', told') /\ Flow(ch', told')
    BY BufferedStep
  <2> QED BY <2>1, <2>2 DEF BufferedInv, Numbered, Senders, Flow, Sending
<1> QED BY <1>1, <1>2, PTL DEF Spec

\* On a buffered channel nothing is lost, whatever is cancelled, fires or
\* closes: the messages are received once and in the order in which they were
\* accepted, and what send() or sendAsync() reported as sent was received or
\* is still there, also after close().
THEOREM BufferedLosesNothing ==
    ASSUME is_buffered PROVE Spec => []NothingIsLost
<1>1. BufferedInv => NothingIsLost
  BY DEF BufferedInv, Flow, NothingIsLost, InOrderOnce, SentIsKept, AsyncIsKept
<1> QED BY <1>1, BufferedInvariant, PTL

\* So send() tells the truth on a buffered channel: what it reported as sent was
\* received or is there to be received, and what it reported as failed is gone.
THEOREM BufferedTellsTheTruth ==
    ASSUME is_buffered PROVE Spec => []SendIsHonest
<1>1. BufferedInv => SendIsHonest
  <2> SUFFICES ASSUME BufferedInv PROVE SendIsHonest
    OBVIOUS
  <2> DEFINE a == ch.taken
             b == ch.buffer
  <2>1. /\ a \in Seq(Messages) /\ b \in Seq(Messages)
        /\ \A v \in Messages : InQueue(a \o b, v) <=> told[v] \in {"sent", "async"}
    BY DEF BufferedInv, Flow
  <2> HIDE DEF a, b
  <2>2. \A v \in Messages : InQueue(b, v) => InQueue(a \o b, v)
    BY <2>1, InJoined
  <2>3. \A v \in Messages : /\ told[v] = "sent" => InQueue(a \o b, v)
                            /\ told[v] = "failed" => ~InQueue(b, v)
    BY <2>1, <2>2
  <2> QED BY <2>3 DEF SendIsHonest, SentIsKept, FailedIsGone, a, b
<1> QED BY <1>1, BufferedInvariant, PTL

-----------------------------------------------------------------------
(* The timer.                                                             *)

\* Somebody in the queue holds no promise.
Starves(queue, kept) == \E i \in DOMAIN queue : queue[i] \notin kept

\* Who holds a promise is still queued.
Kept(s) ==
    ~s.closed => /\ \A c \in s.value_kept : InQueue(s.receivers, c)
                 /\ \A c \in s.slot_kept : InQueue(s.senders, c)

TimerOK(s) ==
    /\ s.timer \in {"off", "NO_PRODUCERS", "NO_CONSUMERS"}
    /\ s.closed => s.timer = "off"

Timed(s) ==
    /\ TimerOK(s)
    /\ s.timer = "NO_PRODUCERS" => Starves(s.receivers, s.value_kept)
    /\ s.timer = "NO_CONSUMERS" => Starves(s.senders, s.slot_kept)
    /\ ~s.closed /\ no_producer_timeout /\ no_consumer_timeout =>
           \A c \in Coroutines :
               /\ InQueue(s.receivers, c) /\ c \notin s.value_kept => s.timer = "NO_PRODUCERS"
               /\ InQueue(s.senders, c) /\ c \notin s.slot_kept => s.timer # "off"

\* More are queued than hold a promise just when somebody in the queue holds
\* none: channel_refresh_deadlock_timer may compare two numbers.
LEMMA Starving ==
    ASSUME NEW W, NEW queue, Distinct(queue, W), NEW kept, \A c \in kept : InQueue(queue, c)
    PROVE  Len(queue) > Cardinality(kept) <=> Starves(queue, kept)
<1> DEFINE n == Len(queue)
           R == {queue[i] : i \in 1..n}
<1>1. n \in Nat /\ DOMAIN queue = 1..n /\ queue = [i \in 1..n |-> queue[i]]
  BY SMT, SMTT(30) DEF Distinct
<1>2. ExistsBijection(1..n, R)
  <2>1. \A i, j \in 1..n : queue[i] = queue[j] => i = j
    BY <1>1 DEF Distinct
  <2>2. queue \in [1..n -> R]
    BY <1>1
  <2>3. \A y \in R : \E i \in 1..n : queue[i] = y
    OBVIOUS
  <2> HIDE DEF R
  <2>4. queue \in Injection(1..n, R)
    BY <2>1, <2>2 DEF Injection, IsInjective
  <2>5. queue \in Surjection(1..n, R)
    BY <2>2, <2>3 DEF Surjection
  <2> QED BY <2>4, <2>5 DEF ExistsBijection, Bijection
<1>3. IsFiniteSet(1..n) /\ Cardinality(1..n) = n
  <2>1. IsFiniteSet(1..n) /\ Cardinality(1..n) = IF 1 > n THEN 0 ELSE n - 1 + 1
    BY <1>1, FS_Interval, SMT, SMTT(30)
  <2> QED BY <1>1, <2>1, SMT, SMTT(30)
<1>4. IsFiniteSet(R) /\ Cardinality(R) = n
  BY <1>2, <1>3, FS_Bijection
<1>5. kept \subseteq R
  BY <1>1 DEF InQueue
<1>6. /\ IsFiniteSet(kept) /\ Cardinality(kept) <= Cardinality(R)
      /\ Cardinality(R) = Cardinality(kept) => R = kept
  <2> HIDE DEF R
  <2>1. kept \in SUBSET R
    BY <1>5
  <2> QED BY <1>4, <2>1, FS_Subset
<1>7. Starves(queue, kept) <=> R # kept
  BY <1>1, <1>5 DEF Starves
<1>8. Cardinality(kept) \in Nat
  BY <1>6, FS_CardinalityType
<1> HIDE DEF R, n
<1>9. n > Cardinality(kept) <=> R # kept
  BY <1>1, <1>4, <1>6, <1>8, SMT, SMTT(30)
<1> QED BY <1>7, <1>9 DEF n

\* The timer depends on queues and promises only.
SameQueues(r, s) ==
    /\ r.closed = s.closed /\ r.receivers = s.receivers /\ r.senders = s.senders
    /\ r.value_kept = s.value_kept /\ r.slot_kept = s.slot_kept

\* Such records keep their promises, and their timer, alike.
LEMMA SameKept ==
    ASSUME NEW r, NEW s, SameQueues(r, s), r.timer = s.timer
    PROVE  /\ Kept(s) => Kept(r)
           /\ TimerOK(s) => TimerOK(r)
           /\ Timed(s) => Timed(r)
BY DEF SameQueues, Kept, TimerOK, Timed

\* channel_refresh_deadlock_timer sets the timer right.
LEMMA RefreshTimed ==
    ASSUME NEW x, NEW p, Rec(x), Kept(x), TimerOK(x),
           Sound(channel_refresh_deadlock_timer(x), p)
    PROVE  LET r == channel_refresh_deadlock_timer(x) IN Kept(r) /\ Timed(r)
<1> DEFINE r == channel_refresh_deadlock_timer(x)
           has_recv == Len(x.receivers) > x.reserved_receivers
           has_send == Len(x.senders) > x.reserved_senders
           reason == IF has_recv THEN "NO_PRODUCERS" ELSE "NO_CONSUMERS"
           timeout == IF has_recv THEN no_producer_timeout ELSE no_consumer_timeout
<1>1. Same(r, x)
  BY RefreshSame
<1>2. Kept(r)
  BY <1>1 DEF Same, Kept
<1>3. r.timer = IF ~has_recv /\ ~has_send THEN "off"
                ELSE IF x.timer = reason THEN x.timer
                ELSE IF timeout /\ ~x.closed THEN reason ELSE "off"
  BY DEF channel_refresh_deadlock_timer, channel_arm_deadlock_timer, Rec, Fields
<1> HIDE DEF r
<1>4. ~x.closed => /\ has_recv <=> Starves(x.receivers, x.value_kept)
                   /\ has_send <=> Starves(x.senders, x.slot_kept)
  <2> SUFFICES ASSUME ~x.closed
               PROVE  /\ has_recv <=> Starves(x.receivers, x.value_kept)
                      /\ has_send <=> Starves(x.senders, x.slot_kept)
    OBVIOUS
  <2>1. /\ Distinct(x.receivers, Waiters) /\ Distinct(x.senders, Coroutines)
        /\ x.reserved_receivers = Cardinality(x.value_kept)
        /\ x.reserved_senders = Cardinality(x.slot_kept)
    BY <1>1 DEF Sound, Fit, Waits, Same, r
  <2>2. /\ \A c \in x.value_kept : InQueue(x.receivers, c)
        /\ \A c \in x.slot_kept : InQueue(x.senders, c)
    BY DEF Kept
  <2>3. Len(x.receivers) > Cardinality(x.value_kept) <=> Starves(x.receivers, x.value_kept)
    BY <2>1, <2>2, Starving
  <2>4. Len(x.senders) > Cardinality(x.slot_kept) <=> Starves(x.senders, x.slot_kept)
    BY <2>1, <2>2, Starving
  <2> QED BY <2>1, <2>3, <2>4
<1>5. \A c : /\ InQueue(x.receivers, c) /\ c \notin x.value_kept => Starves(x.receivers, x.value_kept)
             /\ InQueue(x.senders, c) /\ c \notin x.slot_kept => Starves(x.senders, x.slot_kept)
  BY DEF InQueue, Starves
<1> HIDE DEF has_recv, has_send
<1>6. /\ r.closed = x.closed /\ r.receivers = x.receivers /\ r.senders = x.senders
      /\ r.value_kept = x.value_kept /\ r.slot_kept = x.slot_kept
  BY <1>1 DEF Same
<1>7. x.closed => r.timer = "off"
  BY <1>3 DEF TimerOK
<1>8. r.timer \in {"off", "NO_PRODUCERS", "NO_CONSUMERS"}
  BY <1>3
<1>9. TimerOK(r)
  BY <1>6, <1>7, <1>8 DEF TimerOK
<1>10. ASSUME x.closed PROVE Timed(r)
  BY <1>6, <1>7, <1>9, <1>10 DEF Timed
<1>11. ASSUME ~x.closed PROVE Timed(r)
  <2>1. r.timer = "NO_PRODUCERS" => has_recv
    BY <1>3
  <2>2. r.timer = "NO_CONSUMERS" => has_send
    BY <1>3
  <2>3. no_producer_timeout /\ no_consumer_timeout /\ has_recv => r.timer = "NO_PRODUCERS"
    BY <1>3, <1>11
  <2>4. no_producer_timeout /\ no_consumer_timeout /\ has_send => r.timer # "off"
    BY <1>3, <1>11
  <2> QED BY <1>4, <1>5, <1>6, <1>9, <1>11, <2>1, <2>2, <2>3, <2>4 DEF Timed
<1> QED BY <1>2, <1>10, <1>11 DEF r

\* The wakeup of a sender whose value was taken keeps the timer right.
LEMMA WakeDeliveredTimer ==
    ASSUME NEW s, NEW p, Sound(s, p), Kept(s), TimerOK(s)
    PROVE  LET r == channel_wake_delivered_sender(s)
           IN  Kept(r) /\ TimerOK(r) /\ (Timed(s) => Timed(r))
<1> DEFINE r == channel_wake_delivered_sender(s)
           waiting == {c \in s.delivering : InQueue(s.senders, c)}
           c == CHOOSE x \in waiting : TRUE
           t == [s EXCEPT !.senders = channel_queue_remove(@, c)]
           x == Resumed(t, c, "none")
<1>0. Rec(s) /\ Waits(s, p)
  BY DEF Sound, Fit
<1>1. CASE r = s
  BY <1>1
<1>2. CASE r # s
  <2>1. r = channel_refresh_deadlock_timer(x) /\ waiting # {}
    BY <1>2 DEF channel_wake_delivered_sender
  <2>2. c \in s.delivering /\ InQueue(s.senders, c)
    BY <2>1
  <2>3. /\ Rec(x) /\ x.senders = channel_queue_remove(s.senders, c) /\ x.closed = s.closed
        /\ x.receivers = s.receivers /\ x.value_kept = s.value_kept
        /\ x.slot_kept = s.slot_kept /\ x.timer = s.timer
    BY <1>0 DEF Rec, Fields, Resumed
  <2> HIDE DEF x, c
  <2>4. \A d \in s.slot_kept : InQueue(s.senders, d) => InQueue(x.senders, d)
    <3> SUFFICES ASSUME NEW d \in s.slot_kept, InQueue(s.senders, d) PROVE InQueue(x.senders, d)
      OBVIOUS
    <3>1. d # c
      BY <1>0, <2>2 DEF Waits
    <3>2. Distinct(s.senders, Coroutines)
      BY <1>0 DEF Waits
    <3>3. InQueue(channel_queue_remove(s.senders, c), d)
      BY <3>1, <3>2, RemoveKeeps
    <3> QED BY <2>3, <3>3
  <2>5. Kept(x) /\ TimerOK(x)
    BY <2>3, <2>4 DEF Kept, TimerOK
  <2>6. Sound(r, p)
    BY WakeDelivered
  <2>7. Kept(r) /\ Timed(r)
    BY <2>1, <2>3, <2>5, <2>6, RefreshTimed
  <2> QED BY <2>7 DEF Timed
<1> QED BY <1>1, <1>2

\* So does a promise to a sender.
LEMMA WakeSenderTimer ==
    ASSUME NEW s, NEW p, Sound(s, p), S(s, 1), Kept(s), TimerOK(s)
    PROVE  LET r == channel_wake_sender(s)
           IN  Kept(r) /\ TimerOK(r) /\ (Timed(s) => Timed(r))
<1> DEFINE r == channel_wake_sender(s)
           d == channel_wake_delivered_sender(s)
           c == channel_queue_first_unreserved(d, d.senders)
           t == [d EXCEPT !.slot_kept = @ \cup {c}, !.reserved_senders = @ + 1]
           x == Resumed(t, c, "none")
           granted == has_free_slot(d) /\ Unreserved(d, d.senders) # {}
<1>1. /\ Sound(d, p) /\ Kept(d) /\ TimerOK(d) /\ (Timed(s) => Timed(d))
  BY WakeDelivered, WakeDeliveredTimer
<1>2. /\ ~granted => r = d
      /\ granted => r = channel_refresh_deadlock_timer(x)
  BY DEF channel_wake_sender
<1>3. Sound(r, p)
  BY WakeSender
<1> HIDE DEF d
<1>4. CASE ~granted
  BY <1>1, <1>2, <1>4
<1>5. CASE granted
  <2>1. InQueue(d.senders, c)
    BY <1>1, <1>5, FirstUnreserved DEF Sound, Waits
  <2>2. /\ Rec(x) /\ x.senders = d.senders /\ x.closed = d.closed
        /\ x.receivers = d.receivers /\ x.value_kept = d.value_kept
        /\ x.slot_kept = d.slot_kept \cup {c} /\ x.timer = d.timer
    BY <1>1 DEF Rec, Fields, Resumed, Sound, Fit
  <2> HIDE DEF x, c
  <2>3. Kept(x) /\ TimerOK(x)
    BY <1>1, <2>1, <2>2 DEF Kept, TimerOK
  <2>4. Kept(r) /\ Timed(r)
    BY <1>2, <1>3, <1>5, <2>2, <2>3, RefreshTimed
  <2> QED BY <2>4 DEF Timed
<1> QED BY <1>4, <1>5

\* So does handing out a value.
LEMMA WakeReceiverTimer ==
    ASSUME NEW s, NEW p, Sound(s, p), ~s.closed, V(s, 1), S(s, 0), Kept(s), TimerOK(s)
    PROVE  LET r == channel_wake_receiver(s)
           IN  Kept(r) /\ TimerOK(r) /\ (Timed(s) => Timed(r))
<1> DEFINE r == channel_wake_receiver(s)
           w == channel_queue_first_unreserved(s, s.receivers)
<1>0. Rec(s) /\ Sound(r, p)
  BY WakeReceiver DEF Sound, Fit
<1>1. CASE ~WakesReceiver(s)
  BY <1>1 DEF channel_wake_receiver
<1>2. CASE WakesReceiver(s)
  <2>1. /\ Len(s.buffer) > s.reserved_receivers
        /\ Unreserved(s, s.receivers) # {}
    BY <1>2 DEF WakesReceiver, has_free_value, Holds
  <2>2. /\ InQueue(s.receivers, w) /\ w \notin s.value_kept
        /\ Distinct(s.receivers, Waiters)
    BY <2>1, FirstUnreserved DEF Sound, Waits
  <2>3. CASE w \in Futures
    <3> DEFINE u == [s EXCEPT !.receivers = channel_queue_remove(@, w)]
               v == [take_value(u) EXCEPT !.future[w] = "resolved"]
               x == channel_wake_sender(v)
    <3>1. r = channel_refresh_deadlock_timer(x)
      BY <1>2, <2>3 DEF channel_wake_receiver
    <3>2. /\ Rec(v) /\ v.closed = s.closed /\ v.timer = s.timer
          /\ v.receivers = channel_queue_remove(s.receivers, w) /\ v.senders = s.senders
          /\ v.value_kept = s.value_kept /\ v.slot_kept = s.slot_kept
      BY <1>0 DEF Rec, Fields, take_value
    <3>3. Sound(v, p) /\ S(v, 1)
      BY <2>1, <2>3, FutureTakes
    <3> HIDE DEF v, w
    <3>4. Kept(v) /\ TimerOK(v)
      <4>1. \A d \in s.value_kept : InQueue(s.receivers, d) => InQueue(v.receivers, d)
        BY <2>2, <3>2, RemoveKeeps, SMT, SMTT(30)
      <4> QED BY <3>2, <4>1 DEF Kept, TimerOK
    <3>5. Kept(x) /\ TimerOK(x) /\ Sound(x, p)
      BY <3>3, <3>4, WakeSender, WakeSenderTimer
    <3> HIDE DEF x
    <3>6. Kept(r) /\ Timed(r)
      BY <1>0, <3>1, <3>5, RefreshTimed DEF Sound, Fit
    <3> QED BY <3>6 DEF Timed
  <2>4. CASE w \notin Futures
    <3> DEFINE t == [s EXCEPT !.value_kept = @ \cup {w}, !.reserved_receivers = @ + 1]
               x == Resumed(t, w, "none")
    <3>1. r = channel_refresh_deadlock_timer(x)
      BY <1>2, <2>4 DEF channel_wake_receiver
    <3>2. /\ Rec(x) /\ x.closed = s.closed /\ x.timer = s.timer
          /\ x.receivers = s.receivers /\ x.senders = s.senders
          /\ x.value_kept = s.value_kept \cup {w} /\ x.slot_kept = s.slot_kept
      BY <1>0 DEF Rec, Fields, Resumed
    <3> HIDE DEF x, w
    <3>3. Kept(x) /\ TimerOK(x)
      BY <2>2, <3>2 DEF Kept, TimerOK
    <3>4. Kept(r) /\ Timed(r)
      BY <1>0, <3>1, <3>2, <3>3, RefreshTimed
    <3> QED BY <3>4 DEF Timed
  <2> QED BY <2>3, <2>4
<1> QED BY <1>1, <1>2

\* A receiver that leaves the queue leaves the timer right.
LEMMA ReceiverWokenTimer ==
    ASSUME NEW s, NEW p, Inv(s, p), DOMAIN p = Coroutines, NEW c \in Coroutines, p[c] = "recv",
           Kept(s), TimerOK(s)
    PROVE  LET r == ReceiverWoken(s, c) IN Kept(r) /\ Timed(r)
<1> DEFINE r == ReceiverWoken(s, c)
           q == [p EXCEPT ![c] = "run"]
           t == ReceiverGone(s, c)
           hand_on == c \in s.value_kept /\ s.error[c] # "none" /\ ~s.closed
           h == IF hand_on THEN channel_wake_receiver(t) ELSE t
<1>0. Rec(s) /\ Waits(s, p)
  BY DEF Inv, Sound, Fit
<1>1. r = channel_refresh_deadlock_timer(h)
  BY DEF ReceiverWoken, ReceiverGone
<1>2. Sound(t, q) /\ S(t, 0) /\ V(t, 1)
  BY ReceiverGoes
<1>3. Sound(r, q)
  BY ReceiverLeaves
<1>4. /\ t.closed = s.closed /\ t.timer = s.timer /\ t.senders = s.senders
      /\ t.receivers = channel_queue_remove(s.receivers, c)
      /\ t.value_kept = s.value_kept \ {c} /\ t.slot_kept = s.slot_kept
  BY <1>0 DEF ReceiverGone, Rec, Fields
<1> HIDE DEF t, r, q
<1>5. Kept(t) /\ TimerOK(t)
  <2>1. ~s.closed => Distinct(s.receivers, Waiters)
    BY <1>0 DEF Waits
  <2>2. ASSUME ~s.closed, NEW d \in t.value_kept PROVE InQueue(t.receivers, d)
    <3>1. d # c /\ InQueue(s.receivers, d)
      BY <1>4, <2>2 DEF Kept
    <3> QED BY <1>4, <2>1, <2>2, <3>1, RemoveKeeps, SMT, SMTT(30)
  <2> QED BY <1>4, <2>2 DEF Kept, TimerOK
<1>6. Kept(h) /\ TimerOK(h) /\ Sound(h, q)
  <2>1. CASE hand_on
    <3>1. h = channel_wake_receiver(t) /\ ~t.closed
      BY <1>4, <2>1
    <3> QED BY <1>2, <1>5, <3>1, WakeReceiver, WakeReceiverTimer
  <2>2. CASE ~hand_on
    BY <1>2, <1>5, <2>2
  <2> QED BY <2>1, <2>2
<1> HIDE DEF h
<1>7. Rec(h)
  BY <1>6 DEF Sound, Fit
<1> QED BY <1>1, <1>3, <1>6, <1>7, RefreshTimed DEF r

\* So does a sender.
LEMMA SenderWokenTimer ==
    ASSUME NEW s, NEW p, Inv(s, p), DOMAIN p = Coroutines, NEW c \in Coroutines,
           p[c] \in {"space", "delivery"}, Kept(s), TimerOK(s)
    PROVE  LET r == SenderWoken(s, c) IN Kept(r) /\ Timed(r)
<1> DEFINE r == SenderWoken(s, c)
           q == [p EXCEPT ![c] = "run"]
           t == SenderGone(s, c)
           u == SenderCleared(s, c)
           hand_on == SenderHandsOn(s, c) /\ ~s.closed
           h == IF hand_on THEN channel_wake_sender(u) ELSE u
<1>0. Rec(s) /\ Waits(s, p)
  BY DEF Inv, Sound, Fit
<1>1. Sound(u, q) /\ S(u, 1) /\ r = channel_refresh_deadlock_timer(h)
  BY SenderClears
<1>2. Sound(r, q)
  BY SenderLeaves
<1>3. /\ Rec(t) /\ t.closed = s.closed /\ t.timer = s.timer /\ t.receivers = s.receivers
      /\ t.senders = channel_queue_remove(s.senders, c)
      /\ t.value_kept = s.value_kept /\ t.slot_kept = s.slot_kept \ {c}
  BY <1>0 DEF SenderGone, Rec, Fields
<1>4. u = t \/ u = [t EXCEPT !.buffer = <<>>]
  BY DEF SenderCleared, RollBack, withdraw_value
<1> HIDE DEF t, r, q, u
<1>5. Kept(t) /\ TimerOK(t)
  <2>1. Distinct(s.senders, Coroutines)
    BY <1>0 DEF Waits
  <2>2. ASSUME ~s.closed, NEW d \in t.slot_kept PROVE InQueue(t.senders, d)
    <3>1. d # c /\ InQueue(s.senders, d)
      BY <1>3, <2>2 DEF Kept
    <3> QED BY <1>3, <2>1, <3>1, RemoveKeeps, SMT, SMTT(30)
  <2> QED BY <1>3, <2>2 DEF Kept, TimerOK
<1>6. SameQueues(u, t) /\ u.timer = t.timer
  BY <1>3, <1>4 DEF SameQueues, Rec, Fields
<1>7. Kept(u) /\ TimerOK(u)
  BY <1>5, <1>6, SameKept
<1>8. Kept(h) /\ TimerOK(h) /\ Sound(h, q)
  <2>1. CASE hand_on
    <3>1. h = channel_wake_sender(u)
      BY <2>1
    <3> QED BY <1>1, <1>7, <3>1, WakeSender, WakeSenderTimer
  <2>2. CASE ~hand_on
    BY <1>1, <1>7, <2>2
  <2> QED BY <2>1, <2>2
<1> HIDE DEF h
<1>9. Rec(h)
  BY <1>8 DEF Sound, Fit
<1> QED BY <1>1, <1>2, <1>8, <1>9, RefreshTimed DEF r

\* A value that is put or taken, and a message that is committed, leave the
\* timer alone.
LEMMA ValueTimer ==
    ASSUME NEW s, Rec(s), Kept(s), Timed(s), NEW v, NEW b
    PROVE  /\ Rec(put_value(s, v)) /\ Kept(put_value(s, v)) /\ Timed(put_value(s, v))
           /\ Rec(take_value(s)) /\ Kept(take_value(s)) /\ Timed(take_value(s))
           /\ LET r == [s EXCEPT !.committed = b] IN Kept(r) /\ Timed(r)
<1>1. /\ Rec(put_value(s, v)) /\ SameQueues(put_value(s, v), s) /\ put_value(s, v).timer = s.timer
  BY DEF put_value, SameQueues, Rec, Fields
<1>2. /\ Rec(take_value(s)) /\ SameQueues(take_value(s), s) /\ take_value(s).timer = s.timer
  BY DEF take_value, SameQueues, Rec, Fields
<1>3. LET r == [s EXCEPT !.committed = b] IN SameQueues(r, s) /\ r.timer = s.timer
  BY DEF SameQueues, Rec, Fields
<1> QED BY <1>1, <1>2, <1>3, SameKept

\* A sender that parks starts the timer if nothing else has.
LEMMA ParkSenderTimer ==
    ASSUME NEW s, NEW p, Inv(s, p), Kept(s), Timed(s), NEW c \in Coroutines, NEW d, NEW q,
           Inv(ParkSender(s, c, d), q)
    PROVE  LET r == ParkSender(s, c, d) IN Kept(r) /\ Timed(r)
<1> DEFINE x == [s EXCEPT !.senders = Append(@, c), !.error[c] = "none",
                          !.delivering = IF d THEN @ \cup {c} ELSE @]
           r == ParkSender(s, c, d)
<1>0. Rec(s) /\ s.senders \in Seq(Coroutines)
  BY DEF Inv, Sound, Fit, Waits, Distinct
<1>1. r = channel_refresh_deadlock_timer(x)
  BY DEF ParkSender
<1>2. /\ Rec(x) /\ x.closed = s.closed /\ x.timer = s.timer
      /\ x.receivers = s.receivers /\ x.senders = Append(s.senders, c)
      /\ x.value_kept = s.value_kept /\ x.slot_kept = s.slot_kept
  BY <1>0 DEF Rec, Fields
<1> HIDE DEF x, r
<1>3. \A y : InQueue(s.senders, y) => InQueue(x.senders, y)
  BY <1>0, <1>2, AppendKeeps, SMT, SMTT(30)
<1>4. Kept(x) /\ TimerOK(x)
  BY <1>2, <1>3 DEF Kept, TimerOK, Timed
<1>5. Sound(r, q)
  BY DEF Inv, r
<1> QED BY <1>1, <1>2, <1>4, <1>5, RefreshTimed DEF r

\* So does a receiver.
LEMMA ParkReceiverTimer ==
    ASSUME NEW s, NEW p, Inv(s, p), ~s.closed, Kept(s), Timed(s), NEW c \in Coroutines, NEW q,
           Inv(ParkReceiver(s, c), q)
    PROVE  LET r == ParkReceiver(s, c) IN Kept(r) /\ Timed(r)
<1> DEFINE x == [s EXCEPT !.receivers = Append(@, c), !.error[c] = "none"]
           r == ParkReceiver(s, c)
<1>0. Rec(s) /\ s.receivers \in Seq(Waiters) /\ c \in Waiters
  BY DEF Inv, Sound, Fit, Waits, Distinct, Waiters
<1>1. r = channel_refresh_deadlock_timer(x)
  BY DEF ParkReceiver
<1>2. /\ Rec(x) /\ x.closed = s.closed /\ x.timer = s.timer
      /\ x.receivers = Append(s.receivers, c) /\ x.senders = s.senders
      /\ x.value_kept = s.value_kept /\ x.slot_kept = s.slot_kept
  BY <1>0 DEF Rec, Fields
<1> HIDE DEF x, r
<1>3. \A y : InQueue(s.receivers, y) => InQueue(x.receivers, y)
  BY <1>0, <1>2, AppendKeeps, SMT, SMTT(30)
<1>4. Kept(x) /\ TimerOK(x)
  BY <1>2, <1>3 DEF Kept, TimerOK, Timed
<1>5. Sound(r, q)
  BY DEF Inv, r
<1> QED BY <1>1, <1>2, <1>4, <1>5, RefreshTimed DEF r

\* send() leaves the timer right whichever way it goes.
LEMMA SendTimer ==
    ASSUME NEW s, NEW p, NEW c \in Coroutines, NEW v \in Messages, NEW t, NEW has \in BOOLEAN,
           DOMAIN p = Coroutines, p[c] = "run",
           Sound(s, p), V(s, 0), CommitOK(s),
           ~has => S(s, 0),
           has => S(s, 1) /\ Room - Len(s.buffer) > s.reserved_senders,
           Kept(s), Timed(s), SendFrom(s, c, v, t, has)
    PROVE  Kept(ch') /\ Timed(ch')
<1> DEFINE put == put_value(s, v)
           woken == channel_wake_receiver(put)
           marked == [woken EXCEPT !.committed = woken.buffer # <<>>]
           admitted == ~s.closed /\ (has \/ has_free_slot(s))
<1>1. /\ ~admitted => Inv(s, p)
      /\ admitted /\ ~WakesReceiver(put) =>
             Inv(put, p) /\ Inv(ParkSender(put, c, TRUE), [p EXCEPT ![c] = "delivery"])
      /\ ~s.closed /\ ~admitted =>
             Inv(ParkSender(s, c, FALSE), [p EXCEPT ![c] = "space"])
  BY SendOutcomes
<1>2. Rec(s) /\ Kept(put) /\ Timed(put)
  <2>1. Rec(s)
    BY DEF Sound, Fit
  <2> QED BY <2>1, ValueTimer, ZenonT(30)
<1>3. admitted => Kept(woken) /\ Timed(woken) /\ Rec(woken)
  <2>1. S(s, 1)
    BY Weaken DEF Sound
  <2>2. has_free_slot(s) <=> Room - Len(s.buffer) > s.reserved_senders
    BY DEF has_free_slot, free_space
  <2>3. admitted => Sound(put, p) /\ V(put, 1) /\ S(put, 0) /\ ~put.closed
    BY <2>1, <2>2, PutValue
  <2> HIDE DEF put, admitted
  <2>4. admitted => Sound(woken, p) /\ Kept(woken) /\ Timed(woken)
    BY <1>2, <2>3, WakeReceiver, WakeReceiverTimer DEF Timed
  <2> HIDE DEF woken
  <2> QED BY <2>4 DEF Sound, Fit
<1> HIDE DEF put, woken, admitted
<1>4. admitted => Kept(marked) /\ Timed(marked)
  BY <1>3, ValueTimer
<1>5. admitted /\ ~WakesReceiver(put) =>
          Kept(ParkSender(put, c, TRUE)) /\ Timed(ParkSender(put, c, TRUE))
  BY <1>1, <1>2, ParkSenderTimer
<1>6. ~s.closed /\ ~admitted => Kept(ParkSender(s, c, FALSE)) /\ Timed(ParkSender(s, c, FALSE))
  BY <1>1, ParkSenderTimer
<1> HIDE DEF marked
<1>7. \/ ch' = s
      \/ admitted /\ ch' \in {woken, marked, put}
      \/ admitted /\ ~WakesReceiver(put) /\ ch' = ParkSender(put, c, TRUE)
      \/ ~s.closed /\ ~admitted /\ ch' = ParkSender(s, c, FALSE)
  BY DEF SendFrom, put, woken, admitted, marked
<1> QED BY <1>2, <1>3, <1>4, <1>5, <1>6, <1>7, ZenonT(30)

\* So does recv().
LEMMA RecvTimer ==
    ASSUME NEW s, NEW p, NEW c \in Coroutines, NEW t, NEW has \in BOOLEAN,
           DOMAIN p = Coroutines, p[c] = "run",
           Sound(s, p), S(s, 0), CommitOK(s),
           ~has => V(s, 0),
           has => V(s, 1) /\ Len(s.buffer) > s.reserved_receivers,
           Kept(s), Timed(s), RecvFrom(s, c, t, has)
    PROVE  Kept(ch') /\ Timed(ch')
<1> DEFINE admitted == has \/ has_free_value(s)
           taken == take_value(s)
           r == channel_wake_sender(taken)
<1>1. /\ ~admitted => Inv(s, p)
      /\ ~admitted /\ ~s.closed => Inv(ParkReceiver(s, c), [p EXCEPT ![c] = "recv"])
  BY RecvOutcomes
<1>2. Kept(taken) /\ Timed(taken)
  <2>1. Rec(s)
    BY DEF Sound, Fit
  <2> QED BY <2>1, ValueTimer, ZenonT(30)
<1>3. admitted => Kept(r) /\ Timed(r)
  <2>1. has_free_value(s) <=> Len(s.buffer) > s.reserved_receivers
    BY DEF has_free_value, Holds
  <2>2. admitted => Sound(taken, p) /\ S(taken, 1)
    BY <2>1, TakeValue
  <2> HIDE DEF taken, admitted
  <2> QED BY <1>2, <2>2, WakeSenderTimer DEF Timed
<1> HIDE DEF admitted, r, taken
<1>4. ~admitted /\ ~s.closed => Kept(ParkReceiver(s, c)) /\ Timed(ParkReceiver(s, c))
  BY <1>1, ParkReceiverTimer
<1>5. \/ admitted /\ ch' = r
      \/ ch' = s
      \/ ~admitted /\ ~s.closed /\ ch' = ParkReceiver(s, c)
  BY DEF RecvFrom, admitted, r, taken
<1> QED BY <1>3, <1>4, <1>5

\* The invariant of the timer.
TimerInv == ChannelInv /\ Kept(ch) /\ Timed(ch)

\* Every step but the drop of a pending future, after which the timer is not
\* looked at, leaves the timer right.
LEMMA TimerStep ==
    ASSUME ~DropFutures, TimerInv, [Next]_vars PROVE Kept(ch') /\ Timed(ch')
<1>0. /\ Inv(ch, pc) /\ DOMAIN pc = Coroutines /\ Kept(ch) /\ Timed(ch) /\ TimerOK(ch)
      /\ Rec(ch) /\ Sound(ch, pc) /\ V(ch, 0) /\ S(ch, 0) /\ CommitOK(ch)
  BY DEF TimerInv, ChannelInv, Inv, Sound, Fit, Timed
<1>1. ASSUME NEW c \in Coroutines, NEW t \in TokenChoice, send(c, t) PROVE Kept(ch') /\ Timed(ch')
  <2>1. pc[c] = "run"
    BY <1>1 DEF send
  <2>2. PICK v \in Messages : SendFrom(ch, c, v, t, FALSE)
    BY <1>1 DEF send
  <2> QED BY <1>0, <2>1, <2>2, SendTimer
<1>2. ASSUME NEW c \in Coroutines, NEW t \in TokenChoice, recv(c, t) PROVE Kept(ch') /\ Timed(ch')
  <2>1. pc[c] = "run" /\ RecvFrom(ch, c, t, FALSE)
    BY <1>2 DEF recv
  <2> QED BY <1>0, <2>1, RecvTimer
<1>3. ASSUME NEW c \in Coroutines, resume_receiver(c) PROVE Kept(ch') /\ Timed(ch')
  <2> DEFINE s == ReceiverWoken(ch, c)
             p == [pc EXCEPT ![c] = "run"]
             has == c \in ch.value_kept
  <2>1. pc[c] = "recv" /\ DOMAIN p = Coroutines /\ p[c] = "run" /\ has \in BOOLEAN
    BY <1>0, <1>3, SMT, SMTT(30) DEF resume_receiver
  <2>2. /\ Sound(s, p) /\ S(s, 0) /\ CommitOK(s)
        /\ ~(has /\ ch.error[c] = "none") => V(s, 0)
        /\ has /\ ch.error[c] = "none" => V(s, 1) /\ Len(s.buffer) > s.reserved_receivers
    BY <1>0, <2>1, ReceiverLeaves
  <2>3. Kept(s) /\ Timed(s)
    BY <1>0, <2>1, ReceiverWokenTimer
  <2>4. \/ ch' = [s EXCEPT !.error[c] = "none"]
        \/ ch.error[c] = "none" /\ RecvFrom(s, c, token[c], has)
    BY <1>3 DEF resume_receiver
  <2> HIDE DEF s, p, has
  <2>5. CASE ch' = [s EXCEPT !.error[c] = "none"]
    <3>1. SameQueues(ch', s) /\ ch'.timer = s.timer
      BY <2>2, <2>5 DEF SameQueues, Sound, Fit, Rec, Fields
    <3> QED BY <2>3, <3>1, SameKept
  <2>6. CASE ch.error[c] = "none" /\ RecvFrom(s, c, token[c], has)
    BY <2>1, <2>2, <2>3, <2>6, RecvTimer
  <2> QED BY <2>4, <2>5, <2>6
<1>4. ASSUME NEW c \in Coroutines, resume_sender(c) PROVE Kept(ch') /\ Timed(ch')
  <2> DEFINE s == SenderWoken(ch, c)
             p == [pc EXCEPT ![c] = "run"]
             has == c \in ch.slot_kept
  <2>1. pc[c] \in {"space", "delivery"} /\ DOMAIN p = Coroutines /\ p[c] = "run" /\ has \in BOOLEAN
    BY <1>0, <1>4, SMT, SMTT(30) DEF resume_sender
  <2>2. /\ Sound(s, p) /\ V(s, 0) /\ CommitOK(s)
        /\ ~(has /\ ch.error[c] = "none") => S(s, 0)
        /\ has /\ ch.error[c] = "none" => S(s, 1) /\ Room - Len(s.buffer) > s.reserved_senders
    BY <1>0, <2>1, SenderLeaves
  <2>3. Kept(s) /\ Timed(s)
    BY <1>0, <2>1, SenderWokenTimer
  <2>4. \/ ch' = [s EXCEPT !.error[c] = "none"]
        \/ ch' = s
        \/ /\ ch.error[c] = "none" /\ SendFrom(s, c, value[c], token[c], has)
           /\ value[c] \in Messages
    BY <1>4 DEF resume_sender, TimerInv, ChannelInv
  <2> HIDE DEF s, p, has
  <2>5. CASE ch' = [s EXCEPT !.error[c] = "none"]
    <3>1. SameQueues(ch', s) /\ ch'.timer = s.timer
      BY <2>2, <2>5 DEF SameQueues, Sound, Fit, Rec, Fields
    <3> QED BY <2>3, <3>1, SameKept
  <2>6. CASE /\ ch.error[c] = "none" /\ SendFrom(s, c, value[c], token[c], has)
             /\ value[c] \in Messages
    BY <2>1, <2>2, <2>3, <2>6, SendTimer
  <2> QED BY <2>3, <2>4, <2>5, <2>6
<1>5. ASSUME NEW c \in Coroutines, cancel(c) \/ token_fires(c) PROVE Kept(ch') /\ Timed(ch')
  <2>1. SameQueues(ch', ch) /\ ch'.timer = ch.timer
    BY <1>0, <1>5 DEF cancel, token_fires, Resumed, SameQueues, Rec, Fields
  <2> QED BY <1>0, <2>1, SameKept
<1>6. ASSUME sendAsync PROVE Kept(ch') /\ Timed(ch')
  <2>1. PICK v \in Messages : LET put == put_value(ch, v)
                                  woken == channel_wake_receiver(put)
                              IN  ch' = [woken EXCEPT !.committed =
                                     ~is_buffered /\ WakesReceiver(put) /\ woken.buffer # <<>>]
    BY <1>6 DEF sendAsync
  <2>2. ~ch.closed /\ Room - Len(ch.buffer) > ch.reserved_senders /\ S(ch, 1)
    BY <1>0, <1>6, Weaken DEF sendAsync, has_free_slot, free_space, Sound
  <2> DEFINE put == put_value(ch, v)
             woken == channel_wake_receiver(put)
             b == ~is_buffered /\ WakesReceiver(put) /\ woken.buffer # <<>>
  <2>3. Sound(put, pc) /\ V(put, 1) /\ S(put, 0) /\ ~put.closed
    BY <1>0, <2>2, PutValue
  <2>4. Kept(put) /\ Timed(put)
    BY <1>0, ValueTimer
  <2>5. ch' = [woken EXCEPT !.committed = b]
    BY <2>1
  <2> HIDE DEF put
  <2>6. Sound(woken, pc) /\ Kept(woken) /\ Timed(woken)
    BY <2>3, <2>4, WakeReceiver, WakeReceiverTimer DEF Timed
  <2> HIDE DEF woken, b
  <2> QED BY <2>5, <2>6, ValueTimer DEF Sound, Fit
<1>7. ASSUME NEW f \in Futures, recvAsync(f) PROVE Kept(ch') /\ Timed(ch')
  <2>1. CASE has_free_value(ch)
    <3> DEFINE t == take_value(ch)
               r == channel_wake_sender(t)
    <3>1. ch' = [r EXCEPT !.future[f] = "resolved"]
      BY <1>7, <2>1 DEF recvAsync
    <3>2. Sound(t, pc) /\ S(t, 1)
      BY <1>0, <2>1, TakeValue DEF has_free_value, Holds
    <3>3. Kept(t) /\ Timed(t)
      BY <1>0, ValueTimer
    <3> HIDE DEF t
    <3>4. Sound(r, pc) /\ Kept(r) /\ Timed(r)
      BY <3>2, <3>3, WakeSender, WakeSenderTimer DEF Timed
    <3> HIDE DEF r
    <3>5. SameQueues(ch', r) /\ ch'.timer = r.timer
      BY <3>1, <3>4 DEF SameQueues, Sound, Fit, Rec, Fields
    <3> QED BY <3>4, <3>5, SameKept
  <2>2. CASE ~has_free_value(ch) /\ ch.closed
    <3>1. SameQueues(ch', ch) /\ ch'.timer = ch.timer
      BY <1>0, <1>7, <2>2 DEF recvAsync, SameQueues, Rec, Fields
    <3> QED BY <1>0, <3>1, SameKept
  <2>3. CASE ~has_free_value(ch) /\ ~ch.closed
    <3>1. /\ ch'.closed = ch.closed /\ ch'.timer = ch.timer /\ ch'.senders = ch.senders
          /\ ch'.receivers = Append(ch.receivers, f)
          /\ ch'.value_kept = ch.value_kept /\ ch'.slot_kept = ch.slot_kept
      BY <1>0, <1>7, <2>3, ZenonT(30) DEF recvAsync, Rec, Fields
    <3>2. ch.receivers \in Seq(Waiters) /\ f \in Waiters /\ f \notin Coroutines
      BY <1>0, <2>3, ChannelAssumption DEF Sound, Waits, Distinct, Waiters
    <3>3. \A y : InQueue(ch'.receivers, y) <=> InQueue(ch.receivers, y) \/ y = f
      BY <3>1, <3>2, AppendKeeps, SMT, SMTT(30)
    <3>4. Starves(ch.receivers, ch.value_kept) => Starves(ch'.receivers, ch.value_kept)
      BY <3>3 DEF InQueue, Starves
    <3>5. Kept(ch')
      BY <1>0, <3>1, <3>3 DEF Kept
    <3>6. Timed(ch')
      BY <1>0, <3>1, <3>2, <3>3, <3>4, ZenonT(30) DEF Timed, TimerOK
    <3> QED BY <3>5, <3>6
  <2> QED BY <2>1, <2>2, <2>3
<1>8. ASSUME NEW reason, close(reason) PROVE Kept(ch') /\ Timed(ch')
  <2> DEFINE e == [ch EXCEPT !.closed = TRUE, !.close_reason = reason, !.timer = "off"]
             w == channel_wake_all(e)
  <2>1. ch' = RollBack(w)
    BY <1>8 DEF close, channel_close
  <2>2. Rec(e) /\ e.closed = TRUE /\ e.timer = "off"
    BY <1>0 DEF Rec, Fields
  <2> HIDE DEF e
  <2>3. Rec(w) /\ w.closed = TRUE /\ w.timer = "off"
    BY <2>2 DEF channel_wake_all, Rec, Fields
  <2> HIDE DEF w
  <2>4. ch'.closed = TRUE /\ ch'.timer = "off"
    BY <2>1, <2>3 DEF RollBack, withdraw_value, Rec, Fields
  <2> QED BY <2>4 DEF Kept, Timed, TimerOK
<1>9. CASE UNCHANGED vars
  BY <1>0, <1>9 DEF vars
<1>10. CASE Next
  BY <1>1, <1>2, <1>3, <1>4, <1>5, <1>6, <1>7, <1>8, <1>10, ZenonT(30)
     DEF Next, channel_deadlock_fire, async_channel_resolve_deadlocks, channel_recv_future_dispose
<1> QED BY <1>9, <1>10

\* The deadlock timer is a true verdict about queues and promises: it runs only
\* against somebody who waits with nothing promised, on the side it blames, and
\* with both timeouts set for everybody who does.  This holds as long as no
\* pending future is dropped: channel_recv_future_dispose does not look at the
\* timer.
THEOREM TheTimerIsRight == ASSUME ~DropFutures PROVE Spec => []TimerIsRight
<1>1. Init => TimerInv
  <2> SUFFICES ASSUME Init PROVE TimerInv
    OBVIOUS
  <2>1. /\ ch.timer = "off" /\ ch.closed = FALSE /\ ch.receivers = <<>> /\ ch.senders = <<>>
        /\ ch.value_kept = {} /\ ch.slot_kept = {}
    BY DEF Init
  <2> QED BY <2>1, ChannelInit, SMT, SMTT(30) DEF TimerInv, Kept, Timed, TimerOK, InQueue
<1>2. TimerInv /\ [Next]_vars => TimerInv'
  <2> SUFFICES ASSUME TimerInv, [Next]_vars PROVE TimerInv'
    OBVIOUS
  <2>1. ChannelInv'
    BY ChannelStep DEF TimerInv
  <2>2. Kept(ch') /\ Timed(ch')
    BY TimerStep
  <2> QED BY <2>1, <2>2 DEF TimerInv
<1>3. TimerInv => TimerIsRight
  BY DEF TimerInv, Timed, TimerOK, Starves, TimerIsRight, TimerHasACause, StarvingIsTimed
<1> QED BY <1>1, <1>2, <1>3, PTL DEF Spec
=======================================================================
