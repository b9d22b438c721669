------------------------- MODULE ChannelProofs -------------------------
(* Proofs about Channel: promises fit, and no wakeup is lost, for every    *)
(* number of coroutines and futures, every capacity and every setting of   *)
(* the timeouts.                                                           *)
(*                                                                        *)
(* The functions of channel.c are operators on the record ch, so most     *)
(* lemmas are about one operator applied to any record s that is sound:   *)
(* what it preserves and what it establishes.  In between, a promise may  *)
(* be one place short: V(s, 1) and S(s, 1) say that nobody waits beside a *)
(* second free value or slot, and the wake operations turn them into      *)
(* V(s, 0) and S(s, 0).  First the wake operations, then the waiters that *)
(* leave, the calls, the steps and the theorems.                          *)
(*                                                                        *)
(* Last what senders hold and were told, and how the wake operations move *)
(* messages, for ChannelBuffer and ChannelHonesty.                        *)
EXTENDS Channel, TLAPS, FiniteSetTheorems

\* The provers to try on a leaf that names none.
USE Zenon, SMT, SMTT(30)

Fields == {"buffer", "committed", "receivers", "senders", "value_kept", "slot_kept",
           "delivering", "reserved_receivers", "reserved_senders", "timer", "closed",
           "close_reason", "queued", "error", "future", "accepted", "taken"}

Rec(s) == DOMAIN s = Fields

\* r differs from s at most in fields that no promise depends on.
Same(r, s) ==
    /\ Rec(r)
    /\ r.buffer = s.buffer /\ r.committed = s.committed /\ r.closed = s.closed
    /\ r.receivers = s.receivers /\ r.senders = s.senders
    /\ r.value_kept = s.value_kept /\ r.slot_kept = s.slot_kept
    /\ r.delivering = s.delivering
    /\ r.reserved_receivers = s.reserved_receivers
    /\ r.reserved_senders = s.reserved_senders
    /\ r.future = s.future

\* channel_refresh_deadlock_timer changes the timer only.
LEMMA RefreshSame ==
    ASSUME NEW s, Rec(s) PROVE Same(channel_refresh_deadlock_timer(s), s)
<1>1. ASSUME NEW t PROVE Same([s EXCEPT !.timer = t], s)
  BY DEF Same, Rec, Fields
<1>2. Same(s, s)
  BY DEF Same
<1> QED BY <1>1, <1>2 DEF channel_refresh_deadlock_timer, channel_arm_deadlock_timer

\* A wakeup changes the waker only.
LEMMA ResumedSame ==
    ASSUME NEW s, Rec(s), NEW c, NEW e PROVE Same(Resumed(s, c, e), s)
BY DEF Same, Rec, Fields, Resumed

\* Two such changes in a row are one.
LEMMA SameTrans ==
    ASSUME NEW q, NEW r, NEW s, Same(q, r), Same(r, s) PROVE Same(q, s)
BY DEF Same

\* A set of positions that is not empty has a first one.
LEMMA LeastIndex ==
    ASSUME NEW U, U \subseteq Nat, U # {} PROVE \E i \in U : \A j \in U : i <= j
<1>1. IsWellFoundedOn(OpToRel(<, Nat), Nat)
  BY NatLessThanWellFounded
<1>2. PICK x \in U : \A y \in U : ~(<<y, x>> \in OpToRel(<, Nat))
  BY <1>1, WFMin
<1>3. \A y \in U : ~(y < x)
  BY <1>2 DEF OpToRel
<1> QED BY <1>3, SMT, SMTT(30)

-----------------------------------------------------------------------
(* Waiting queues.                                                        *)

\* A queue of members of W in which nobody is queued twice.
Distinct(queue, W) ==
    /\ queue \in Seq(W)
    /\ \A i, j \in DOMAIN queue : queue[i] = queue[j] => i = j

\* channel_queue_remove takes w out and nobody else in.
LEMMA RemoveDistinct ==
    ASSUME NEW W, NEW queue, NEW w, Distinct(queue, W)
    PROVE  /\ Distinct(channel_queue_remove(queue, w), W)
           /\ \A x : InQueue(channel_queue_remove(queue, w), x) => InQueue(queue, x) /\ x # w
<1> DEFINE r == channel_queue_remove(queue, w)
<1>0. queue \in Seq(W) /\ Len(queue) \in Nat /\ DOMAIN queue = 1..Len(queue)
  BY SMT, SMTT(30) DEF Distinct
<1>1. CASE ~InQueue(queue, w)
  BY <1>1 DEF channel_queue_remove, InQueue
<1>2. CASE InQueue(queue, w)
  <2> DEFINE k == CHOOSE i \in DOMAIN queue : queue[i] = w
             n == Len(queue) - 1
  <2>1. k \in 1..Len(queue) /\ queue[k] = w
    BY <1>0, <1>2 DEF InQueue
  <2>2. r = [i \in 1..n |-> IF i < k THEN queue[i] ELSE queue[i + 1]]
    BY <1>2 DEF channel_queue_remove, channel_queue_remove_at
  <2>3. \A i, j \in 1..Len(queue) : queue[i] = queue[j] => i = j
    BY <1>0 DEF Distinct
  <2> HIDE DEF r, k
  <2>4. n \in Nat /\ n + 1 = Len(queue)
    BY <1>0, <2>1, SMT, SMTT(30)
  <2>5. r \in [1..n -> W]
    BY <1>0, <2>1, <2>2, <2>4, SMT, SMTT(30)
  <2>6. r \in Seq(W) /\ DOMAIN r = 1..n
    BY <2>4, <2>5, SMT, SMTT(30)
  <2>7. ASSUME NEW i \in 1..n
        PROVE  \E x \in 1..Len(queue) : x # k /\ r[i] = queue[x] /\ x = IF i < k THEN i ELSE i + 1
    BY <1>0, <2>1, <2>2, <2>4, SMT, SMTT(30)
  <2>8. ASSUME NEW i \in 1..n, NEW j \in 1..n, r[i] = r[j] PROVE i = j
    <3>1. PICK x \in 1..Len(queue) : r[i] = queue[x] /\ x = IF i < k THEN i ELSE i + 1
      BY <2>7
    <3>2. PICK y \in 1..Len(queue) : r[j] = queue[y] /\ y = IF j < k THEN j ELSE j + 1
      BY <2>7
    <3>3. x = y
      BY <2>3, <2>8, <3>1, <3>2
    <3> QED BY <1>0, <2>1, <2>4, <3>1, <3>2, <3>3, SMT, SMTT(30)
  <2>9. Distinct(r, W)
    BY <2>6, <2>8 DEF Distinct
  <2>10. ASSUME NEW x, InQueue(r, x) PROVE InQueue(queue, x) /\ x # w
    <3>1. PICK i \in 1..n : r[i] = x
      BY <2>6, <2>10 DEF InQueue
    <3>2. PICK y \in 1..Len(queue) : y # k /\ x = queue[y]
      BY <2>7, <3>1
    <3> QED BY <1>0, <2>1, <2>3, <3>2 DEF InQueue
  <2> QED BY <2>9, <2>10 DEF r
<1> QED BY <1>1, <1>2

\* channel_queue_push adds w, which is not queued yet, and nobody else.
LEMMA AppendDistinct ==
    ASSUME NEW W, NEW queue, NEW w \in W, Distinct(queue, W), ~InQueue(queue, w)
    PROVE  /\ Distinct(Append(queue, w), W)
           /\ \A x : InQueue(Append(queue, w), x) => InQueue(queue, x) \/ x = w
<1> DEFINE r == Append(queue, w)
           n == Len(queue)
<1>1. queue \in Seq(W) /\ n \in Nat /\ DOMAIN queue = 1..n
  BY SMT, SMTT(30) DEF Distinct
<1>2. r \in Seq(W) /\ DOMAIN r = 1..n + 1
  BY <1>1, SMT, SMTT(30)
<1>3. \A i \in 1..n + 1 : (i \in 1..n /\ r[i] = queue[i]) \/ (i = n + 1 /\ r[i] = w)
  BY <1>1, SMT, SMTT(30)
<1>4. \A i \in 1..n : queue[i] # w
  BY <1>1 DEF InQueue
<1>5. \A i, j \in 1..n : queue[i] = queue[j] => i = j
  BY <1>1 DEF Distinct
<1> HIDE DEF r, n
<1>6. Distinct(r, W)
  BY <1>2, <1>3, <1>4, <1>5, SMT, SMTT(30) DEF Distinct
<1>7. ASSUME NEW x, InQueue(r, x) PROVE InQueue(queue, x) \/ x = w
  BY <1>1, <1>2, <1>3, <1>7 DEF InQueue
<1> QED BY <1>6, <1>7 DEF r

\* channel_queue_remove keeps everybody but w.
LEMMA RemoveKeeps ==
    ASSUME NEW W, NEW queue, Distinct(queue, W), NEW w, NEW x, x # w, InQueue(queue, x)
    PROVE  InQueue(channel_queue_remove(queue, w), x)
<1> DEFINE r == channel_queue_remove(queue, w)
           n == Len(queue) - 1
           k == CHOOSE i \in DOMAIN queue : queue[i] = w
<1>0. Len(queue) \in Nat /\ DOMAIN queue = 1..Len(queue)
  BY SMT, SMTT(30) DEF Distinct
<1>1. CASE ~InQueue(queue, w)
  BY <1>1 DEF channel_queue_remove
<1>2. CASE InQueue(queue, w)
  <2>1. k \in 1..Len(queue) /\ queue[k] = w
    BY <1>0, <1>2 DEF InQueue
  <2>2. r = [i \in 1..n |-> IF i < k THEN queue[i] ELSE queue[i + 1]]
    BY <1>2 DEF channel_queue_remove, channel_queue_remove_at
  <2>3. PICK j \in 1..Len(queue) : queue[j] = x
    BY <1>0 DEF InQueue
  <2> HIDE DEF r, k
  <2>4. j # k
    BY <2>1, <2>3
  <2> DEFINE i == IF j < k THEN j ELSE j - 1
  <2>5. i \in 1..n /\ r[i] = x
    BY <1>0, <2>1, <2>2, <2>3, <2>4, SMT, SMTT(30)
  <2>6. DOMAIN r = 1..n
    BY <2>2
  <2> HIDE DEF i, n
  <2> QED BY <2>5, <2>6 DEF InQueue, r
<1> QED BY <1>1, <1>2

\* channel_queue_push keeps everybody, and adds w.
LEMMA AppendKeeps ==
    ASSUME NEW W, NEW queue, queue \in Seq(W), NEW w \in W
    PROVE  \A x : InQueue(Append(queue, w), x) <=> InQueue(queue, x) \/ x = w
<1> DEFINE r == Append(queue, w)
           n == Len(queue)
<1>1. n \in Nat /\ DOMAIN queue = 1..n /\ DOMAIN r = 1..n + 1
  BY SMT, SMTT(30)
<1>2. \A i \in 1..n + 1 : r[i] = IF i = n + 1 THEN w ELSE queue[i]
  BY <1>1, SMT, SMTT(30)
<1> HIDE DEF r, n
<1>3. \A i \in 1..n : i \in 1..n + 1 /\ i # n + 1
  BY <1>1, SMT, SMTT(30)
<1>4. \A i \in 1..n + 1 : i # n + 1 => i \in 1..n
  BY <1>1, SMT, SMTT(30)
<1>5. n + 1 \in 1..n + 1
  BY <1>1, SMT, SMTT(30)
<1>6. \A x : InQueue(r, x) <=> InQueue(queue, x) \/ x = w
  BY <1>1, <1>2, <1>3, <1>4, <1>5 DEF InQueue
<1> QED BY <1>6 DEF r

-----------------------------------------------------------------------
(* The inductive invariant, for a record s and the places p of the        *)
(* coroutines.                                                            *)

\* The counters count the promises, and the promised places are there.
Fit(s) ==
    /\ Rec(s)
    /\ s.closed \in BOOLEAN
    /\ s.buffer \in Seq(Messages) /\ Len(s.buffer) <= Room
    /\ s.value_kept \subseteq Coroutines /\ s.slot_kept \subseteq Coroutines
    /\ s.reserved_receivers = Cardinality(s.value_kept)
    /\ s.reserved_senders = Cardinality(s.slot_kept)
    /\ s.reserved_receivers <= Len(s.buffer)
    /\ s.reserved_senders <= Room - Len(s.buffer)

\* Who is queued or holds a promise is parked for it, and nobody is queued
\* twice.  What is left of the receivers of a closed channel is never woken.
Waits(s, p) ==
    /\ ~s.closed => /\ Distinct(s.receivers, Waiters)
                    /\ \A w : InQueue(s.receivers, w) =>
                           \/ w \in Coroutines /\ p[w] = "recv"
                           \/ w \in Futures /\ s.future[w] # "unused"
    /\ Distinct(s.senders, Coroutines)
    /\ \A c : InQueue(s.senders, c) => p[c] \in {"space", "delivery"}
    /\ DOMAIN s.future = Futures
    /\ \A c \in s.value_kept : p[c] = "recv"
    /\ \A c \in s.slot_kept : p[c] = "space"
    /\ s.delivering = {c \in Coroutines : p[c] = "delivery"}

\* A rendezvous value that is promised is committed: close() keeps it.
CommitOK(s) == ~is_buffered /\ s.value_kept # {} => s.committed

\* Nobody waits beside a free value, or slot, but for k of them.
V(s, k) ==
    ~s.closed /\ Len(s.buffer) > s.reserved_receivers + k
        => Unreserved(s, s.receivers) = {}

S(s, k) ==
    ~s.closed /\ Room - Len(s.buffer) > s.reserved_senders + k
        => Unreserved(s, s.senders) = {}

Sound(s, p) == Fit(s) /\ Waits(s, p)

\* The numbers in Fit are numbers.
LEMMA FitType ==
    ASSUME NEW s, Fit(s)
    PROVE  /\ Len(s.buffer) \in Nat /\ Room \in Nat /\ Room >= 1
           /\ s.reserved_receivers \in Nat /\ s.reserved_senders \in Nat
           /\ IsFiniteSet(s.value_kept) /\ IsFiniteSet(s.slot_kept)
           /\ s.reserved_receivers = 0 <=> s.value_kept = {}
           /\ s.reserved_senders = 0 <=> s.slot_kept = {}
<1>1. IsFiniteSet(s.value_kept) /\ IsFiniteSet(s.slot_kept)
  BY ChannelAssumption, FS_Subset DEF Fit
<1>2. s.reserved_receivers \in Nat /\ s.reserved_senders \in Nat
  BY <1>1, FS_CardinalityType DEF Fit
<1>3. /\ s.reserved_receivers = 0 <=> s.value_kept = {}
      /\ s.reserved_senders = 0 <=> s.slot_kept = {}
  BY <1>1, FS_EmptySet DEF Fit
<1>4. Len(s.buffer) \in Nat /\ Room \in Nat /\ Room >= 1
  BY ChannelAssumption, SMT, SMTT(30) DEF Fit, Room, is_buffered
<1> QED BY <1>1, <1>2, <1>3, <1>4

\* Sound, V, S and CommitOK depend on the fields in Same only.
LEMMA SameSound ==
    ASSUME NEW r, NEW s, NEW p, Same(r, s), Sound(s, p)
    PROVE  /\ Sound(r, p)
           /\ \A k : (V(r, k) <=> V(s, k)) /\ (S(r, k) <=> S(s, k))
           /\ CommitOK(r) <=> CommitOK(s)
<1>1. Fit(r)
  BY DEF Same, Sound, Fit
<1>2. Waits(r, p)
  BY SMT, SMTT(30) DEF Same, Sound, Waits
<1>3. \A queue : Unreserved(r, queue) = Unreserved(s, queue)
  BY DEF Same, Unreserved
<1>4. \A k : (V(r, k) <=> V(s, k)) /\ (S(r, k) <=> S(s, k))
  BY <1>3 DEF Same, V, S
<1>5. CommitOK(r) <=> CommitOK(s)
  BY DEF Same, CommitOK
<1> QED BY <1>1, <1>2, <1>4, <1>5 DEF Sound

\* Nobody without a promise is queued in a queue that Unreserved finds
\* empty, and the other way round.
LEMMA NoneUnreserved ==
    ASSUME NEW s, NEW queue
    PROVE  Unreserved(s, queue) = {} <=>
               \A w : InQueue(queue, w) => w \in s.value_kept \cup s.slot_kept \cup s.delivering
BY DEF Unreserved, InQueue

\* channel_queue_first_unreserved finds somebody who is queued without a
\* promise whenever there is one.
LEMMA FirstUnreserved ==
    ASSUME NEW s, NEW W, NEW queue, Distinct(queue, W), Unreserved(s, queue) # {}
    PROVE  LET w == channel_queue_first_unreserved(s, queue)
           IN  /\ InQueue(queue, w) /\ w \in W
               /\ w \notin s.value_kept \cup s.slot_kept \cup s.delivering
<1> DEFINE U == Unreserved(s, queue)
           i == CHOOSE x \in U : \A j \in U : x <= j
<1>1. U \subseteq Nat
  BY SMT, SMTT(30) DEF Unreserved, Distinct
<1>2. i \in U
  BY <1>1, LeastIndex
<1>3. channel_queue_first_unreserved(s, queue) = queue[i]
  BY DEF channel_queue_first_unreserved
<1> HIDE DEF i
<1>4. i \in DOMAIN queue /\ queue[i] \notin s.value_kept \cup s.slot_kept \cup s.delivering
  BY <1>2 DEF Unreserved
<1>5. queue[i] \in W
  BY <1>4, SMT, SMTT(30) DEF Distinct
<1> QED BY <1>3, <1>4, <1>5 DEF InQueue

-----------------------------------------------------------------------
(* The wake operations.                                                   *)

\* What channel_wake_delivered_sender leaves alone, and that it makes
\* nobody wait without a promise.
LEMMA WakeDelivered ==
    ASSUME NEW s, NEW p, Sound(s, p)
    PROVE  LET r == channel_wake_delivered_sender(s)
           IN  /\ Sound(r, p)
               /\ r.buffer = s.buffer /\ r.committed = s.committed /\ r.closed = s.closed
               /\ r.receivers = s.receivers /\ r.value_kept = s.value_kept
               /\ r.slot_kept = s.slot_kept /\ r.delivering = s.delivering
               /\ r.reserved_receivers = s.reserved_receivers
               /\ r.reserved_senders = s.reserved_senders
               /\ r.future = s.future
               /\ Unreserved(s, s.senders) = {} => Unreserved(r, r.senders) = {}
<1> DEFINE r == channel_wake_delivered_sender(s)
           waiting == {c \in s.delivering : InQueue(s.senders, c)}
           c == CHOOSE x \in waiting : TRUE
           t == [s EXCEPT !.senders = channel_queue_remove(@, c)]
<1>0. Rec(s)
  BY DEF Sound, Fit
<1>1. CASE r = s
  BY <1>1
<1>2. CASE r # s
  <2>1. r = channel_refresh_deadlock_timer(Resumed(t, c, "none"))
    BY <1>2 DEF channel_wake_delivered_sender
  <2>2. /\ Rec(t) /\ t.senders = channel_queue_remove(s.senders, c)
        /\ t.buffer = s.buffer /\ t.committed = s.committed /\ t.closed = s.closed
        /\ t.receivers = s.receivers /\ t.value_kept = s.value_kept
        /\ t.slot_kept = s.slot_kept /\ t.delivering = s.delivering
        /\ t.reserved_receivers = s.reserved_receivers
        /\ t.reserved_senders = s.reserved_senders
        /\ t.future = s.future
    BY <1>0 DEF Rec, Fields
  <2> HIDE DEF r, t, c
  <2>3. /\ Distinct(t.senders, Coroutines)
        /\ \A x : InQueue(t.senders, x) => InQueue(s.senders, x)
    BY <2>2, RemoveDistinct, SMT, SMTT(30) DEF Sound, Waits
  <2>4. Fit(t)
    BY <2>2 DEF Sound, Fit
  <2>5. Waits(t, p)
    BY <2>2, <2>3, SMT, SMTT(30) DEF Sound, Waits
  <2>6. Same(Resumed(t, c, "none"), t)
    BY <2>2, ResumedSame
  <2>7. Same(r, Resumed(t, c, "none"))
    BY <2>1, <2>6, RefreshSame DEF Same
  <2>8. Same(r, t)
    BY <2>6, <2>7, SameTrans
  <2>9. Sound(r, p)
    BY <2>4, <2>5, <2>8, SameSound DEF Sound
  <2>10. Unreserved(s, s.senders) = {} => Unreserved(r, r.senders) = {}
    BY <2>2, <2>3, <2>8, NoneUnreserved DEF Same
  <2> QED BY <2>2, <2>8, <2>9, <2>10 DEF Same, r
<1> QED BY <1>1, <1>2

\* channel_wake_sender pays the slot it was called for: a slot that was free
\* for somebody who waits is promised to one of them.
LEMMA WakeSender ==
    ASSUME NEW s, NEW p, Sound(s, p), S(s, 1)
    PROVE  LET r == channel_wake_sender(s)
           IN  /\ Sound(r, p) /\ S(r, 0)
               /\ r.buffer = s.buffer /\ r.committed = s.committed /\ r.closed = s.closed
               /\ r.receivers = s.receivers /\ r.value_kept = s.value_kept
               /\ r.reserved_receivers = s.reserved_receivers
               /\ r.delivering = s.delivering
               /\ s.slot_kept \subseteq r.slot_kept
               /\ r.future = s.future
<1> DEFINE r == channel_wake_sender(s)
           d == channel_wake_delivered_sender(s)
           c == channel_queue_first_unreserved(d, d.senders)
           t == [d EXCEPT !.slot_kept = @ \cup {c}, !.reserved_senders = @ + 1]
<1>1. /\ Sound(d, p) /\ S(d, 1)
      /\ d.buffer = s.buffer /\ d.committed = s.committed /\ d.closed = s.closed
      /\ d.receivers = s.receivers /\ d.value_kept = s.value_kept
      /\ d.reserved_receivers = s.reserved_receivers
      /\ d.delivering = s.delivering /\ d.slot_kept = s.slot_kept
      /\ d.future = s.future
  BY WakeDelivered DEF S
<1> DEFINE granted == has_free_slot(d) /\ Unreserved(d, d.senders) # {}
<1>2. /\ ~granted => r = d
      /\ granted => r = channel_refresh_deadlock_timer(Resumed(t, c, "none"))
  BY DEF channel_wake_sender
<1> HIDE DEF d
<1>3. /\ Len(d.buffer) \in Nat /\ Room \in Nat /\ d.reserved_senders \in Nat
      /\ IsFiniteSet(d.slot_kept) /\ Rec(d)
  BY <1>1, FitType DEF Sound, Fit
<1>4. CASE ~granted
  <2>1. S(d, 0)
    BY <1>3, <1>4, SMT, SMTT(30) DEF S, has_free_slot, free_space
  <2> QED BY <1>1, <1>2, <1>4, <2>1
<1>5. CASE granted
  <2>1. /\ InQueue(d.senders, c) /\ c \in Coroutines
        /\ c \notin d.value_kept \cup d.slot_kept \cup d.delivering
    BY <1>1, <1>5, FirstUnreserved DEF Sound, Waits
  <2>2. p[c] = "space"
    BY <1>1, <2>1 DEF Sound, Waits
  <2>3. /\ Rec(t) /\ t.senders = d.senders
        /\ t.buffer = d.buffer /\ t.committed = d.committed /\ t.closed = d.closed
        /\ t.receivers = d.receivers /\ t.value_kept = d.value_kept
        /\ t.slot_kept = d.slot_kept \cup {c} /\ t.delivering = d.delivering
        /\ t.reserved_receivers = d.reserved_receivers
        /\ t.reserved_senders = d.reserved_senders + 1
        /\ t.future = d.future
    BY <1>3 DEF Rec, Fields
  <2> HIDE DEF t, c
  <2>4. Cardinality(t.slot_kept) = Cardinality(d.slot_kept) + 1
    <3>1. IsFiniteSet(d.slot_kept) /\ c \notin d.slot_kept
      BY <1>3, <2>1
    <3>2. Cardinality(d.slot_kept \cup {c}) = Cardinality(d.slot_kept) + 1
      BY <3>1, FS_AddElement
    <3> QED BY <2>3, <3>2
  <2>5. Room - Len(d.buffer) > d.reserved_senders
    BY <1>5 DEF has_free_slot, free_space
  <2>6. t.reserved_senders <= Room - Len(t.buffer)
    BY <1>3, <2>3, <2>5, SMT, SMTT(30)
  <2>7. Fit(t)
    BY <1>1, <2>1, <2>3, <2>4, <2>6 DEF Sound, Fit
  <2>8. Waits(t, p)
    BY <1>1, <2>2, <2>3, SMT, SMTT(30) DEF Sound, Waits
  <2>9. \A queue : Unreserved(d, queue) = {} => Unreserved(t, queue) = {}
    BY <2>3 DEF Unreserved
  <2>10. S(t, 0)
    <3>1. Room - Len(t.buffer) > t.reserved_senders + 0 =>
          Room - Len(d.buffer) > d.reserved_senders + 1
      BY <1>3, <2>3, SMT, SMTT(30)
    <3> QED BY <1>1, <2>3, <2>9, <3>1 DEF S
  <2>11. Same(Resumed(t, c, "none"), t)
    BY <2>3, ResumedSame
  <2>12. Same(r, Resumed(t, c, "none"))
    BY <1>2, <1>5, <2>11, RefreshSame, SMT, SMTT(30) DEF Same
  <2>13. Same(r, t)
    BY <2>11, <2>12, SameTrans
  <2>14. Sound(r, p) /\ S(r, 0)
    BY <2>7, <2>8, <2>10, <2>13, SameSound DEF Sound
  <2> HIDE DEF r
  <2>15. LET q == r
         IN  /\ q.buffer = s.buffer /\ q.committed = s.committed /\ q.closed = s.closed
             /\ q.receivers = s.receivers /\ q.value_kept = s.value_kept
             /\ q.reserved_receivers = s.reserved_receivers
             /\ q.delivering = s.delivering
             /\ s.slot_kept \subseteq q.slot_kept
             /\ q.future = s.future
    BY <1>1, <2>3, <2>13 DEF Same
  <2> QED BY <2>14, <2>15 DEF r
<1> QED BY <1>4, <1>5

\* What a promise to a sender does not make worse for the receivers.
LEMMA WakeSenderV ==
    ASSUME NEW s, NEW p, Sound(s, p), S(s, 1), NEW k, V(s, k)
    PROVE  V(channel_wake_sender(s), k)
<1> DEFINE r == channel_wake_sender(s)
<1>1. /\ r.buffer = s.buffer /\ r.closed = s.closed /\ r.receivers = s.receivers
      /\ r.value_kept = s.value_kept /\ r.reserved_receivers = s.reserved_receivers
      /\ r.delivering = s.delivering /\ s.slot_kept \subseteq r.slot_kept
  BY WakeSender
<1> HIDE DEF r
<1>2. Unreserved(s, s.receivers) = {} => Unreserved(r, r.receivers) = {}
  BY <1>1, NoneUnreserved
<1>3. V(r, k)
  BY <1>1, <1>2 DEF V
<1> QED BY <1>3 DEF r

\* channel_take_value, by somebody it is free for, leaves one slot more that
\* is owed to the senders.
LEMMA TakeValue ==
    ASSUME NEW s, NEW p, Sound(s, p), Len(s.buffer) > s.reserved_receivers
    PROVE  LET r == take_value(s)
           IN  /\ Sound(r, p) /\ CommitOK(r)
               /\ Len(r.buffer) = Len(s.buffer) - 1
               /\ r.closed = s.closed /\ r.receivers = s.receivers /\ r.senders = s.senders
               /\ r.value_kept = s.value_kept /\ r.slot_kept = s.slot_kept
               /\ r.delivering = s.delivering /\ r.future = s.future
               /\ r.reserved_receivers = s.reserved_receivers
               /\ r.reserved_senders = s.reserved_senders
               /\ V(s, 1) => V(r, 0)
               /\ S(s, 0) => S(r, 1)
<1> DEFINE r == take_value(s)
<1>0. /\ Len(s.buffer) \in Nat /\ Room \in Nat /\ s.reserved_receivers \in Nat
      /\ s.reserved_senders \in Nat /\ s.buffer \in Seq(Messages) /\ Rec(s)
      /\ s.reserved_receivers = 0 <=> s.value_kept = {}
  BY FitType DEF Sound, Fit
<1>1. /\ Rec(r) /\ r.buffer = Tail(s.buffer)
      /\ r.closed = s.closed /\ r.receivers = s.receivers /\ r.senders = s.senders
      /\ r.value_kept = s.value_kept /\ r.slot_kept = s.slot_kept
      /\ r.delivering = s.delivering /\ r.future = s.future
      /\ r.reserved_receivers = s.reserved_receivers
      /\ r.reserved_senders = s.reserved_senders
  BY <1>0 DEF take_value, Rec, Fields
<1> HIDE DEF r
<1>2. s.buffer # <<>>
  BY <1>0, SMT, SMTT(30)
<1>3. r.buffer \in Seq(Messages) /\ Len(r.buffer) = Len(s.buffer) - 1
  BY <1>0, <1>1, <1>2, SMT, SMTT(30)
<1>4. /\ Len(r.buffer) <= Room /\ r.reserved_receivers <= Len(r.buffer)
      /\ r.reserved_senders <= Room - Len(r.buffer)
  BY <1>0, <1>1, <1>3, SMT, SMTT(30) DEF Sound, Fit
<1>5. Fit(r)
  BY <1>1, <1>3, <1>4 DEF Sound, Fit
<1>6. Waits(r, p)
  BY <1>1 DEF Sound, Waits
<1>7. CommitOK(r)
  <2>1. Len(s.buffer) <= Room
    BY DEF Sound, Fit
  <2>2. ~is_buffered => s.reserved_receivers = 0
    BY <1>0, <2>1, SMT, SMTT(30) DEF Room
  <2> QED BY <1>0, <1>1, <2>2 DEF CommitOK
<1>8. \A queue : Unreserved(r, queue) = Unreserved(s, queue)
  BY <1>1 DEF Unreserved
<1>9. /\ Len(r.buffer) > r.reserved_receivers + 0 => Len(s.buffer) > s.reserved_receivers + 1
      /\ Room - Len(r.buffer) > r.reserved_senders + 1 =>
            Room - Len(s.buffer) > s.reserved_senders + 0
  BY <1>0, <1>1, <1>3, SMT, SMTT(30)
<1>10. V(s, 1) => V(r, 0)
  BY <1>1, <1>8, <1>9 DEF V
<1>11. S(s, 0) => S(r, 1)
  BY <1>1, <1>8, <1>9 DEF S
<1> QED BY <1>1, <1>3, <1>5, <1>6, <1>7, <1>10, <1>11 DEF Sound, r

\* A future in the queue takes a value that is free, which leaves a slot owed
\* to the senders.
LEMMA FutureTakes ==
    ASSUME NEW s, NEW p, Sound(s, p), ~s.closed, S(s, 0), Len(s.buffer) > s.reserved_receivers,
           NEW w \in Futures
    PROVE  LET u == [s EXCEPT !.receivers = channel_queue_remove(@, w)]
               v == [take_value(u) EXCEPT !.future[w] = "resolved"]
           IN  /\ Sound(v, p) /\ S(v, 1) /\ CommitOK(v)
               /\ Len(v.buffer) = Len(s.buffer) - 1
               /\ v.reserved_receivers = s.reserved_receivers /\ v.closed = s.closed
<1> DEFINE u == [s EXCEPT !.receivers = channel_queue_remove(@, w)]
           t == take_value(u)
           v == [t EXCEPT !.future[w] = "resolved"]
<1>0. Rec(s)
  BY DEF Sound, Fit
<1>2. /\ Rec(u) /\ u.buffer = s.buffer /\ u.closed = s.closed
      /\ u.receivers = channel_queue_remove(s.receivers, w) /\ u.senders = s.senders
      /\ u.value_kept = s.value_kept /\ u.slot_kept = s.slot_kept
      /\ u.delivering = s.delivering /\ u.future = s.future
      /\ u.reserved_receivers = s.reserved_receivers
      /\ u.reserved_senders = s.reserved_senders
  BY <1>0 DEF Rec, Fields
<1> HIDE DEF u
<1>3. /\ Distinct(u.receivers, Waiters)
      /\ \A x : InQueue(u.receivers, x) => InQueue(s.receivers, x)
  BY <1>2, RemoveDistinct, SMT, SMTT(30) DEF Sound, Waits
<1>4. Fit(u)
  BY <1>2 DEF Sound, Fit
<1>5. Waits(u, p)
  BY <1>2, <1>3 DEF Sound, Waits
<1>6. S(u, 0)
  <2>1. \A queue : Unreserved(u, queue) = Unreserved(s, queue)
    BY <1>2 DEF Unreserved
  <2> QED BY <1>2, <2>1 DEF S
<1>7. /\ Sound(t, p) /\ CommitOK(t) /\ Len(t.buffer) = Len(u.buffer) - 1
      /\ t.closed = u.closed /\ t.receivers = u.receivers /\ t.senders = u.senders
      /\ t.value_kept = u.value_kept /\ t.slot_kept = u.slot_kept
      /\ t.delivering = u.delivering /\ t.future = u.future
      /\ t.reserved_receivers = u.reserved_receivers
      /\ t.reserved_senders = u.reserved_senders
      /\ S(t, 1)
  BY <1>0, <1>2, <1>4, <1>5, <1>6, TakeValue, ZenonT(30) DEF Sound
<1> HIDE DEF t
<1>8. Rec(t) /\ DOMAIN t.future = Futures
  BY <1>7 DEF Sound, Fit, Waits
<1>9. /\ Rec(v) /\ v.buffer = t.buffer /\ v.committed = t.committed /\ v.closed = t.closed
      /\ v.receivers = t.receivers /\ v.senders = t.senders
      /\ v.value_kept = t.value_kept /\ v.slot_kept = t.slot_kept
      /\ v.delivering = t.delivering
      /\ v.reserved_receivers = t.reserved_receivers
      /\ v.reserved_senders = t.reserved_senders
      /\ DOMAIN v.future = Futures
      /\ \A f \in Futures : v.future[f] = IF f = w THEN "resolved" ELSE t.future[f]
  BY <1>8 DEF Rec, Fields
<1> HIDE DEF v
<1>10. Fit(v)
  BY <1>7, <1>9 DEF Sound, Fit
<1>11. Waits(v, p)
  BY <1>7, <1>9, SMT, SMTT(30) DEF Sound, Waits
<1>12. \A queue : Unreserved(v, queue) = Unreserved(t, queue)
  BY <1>9 DEF Unreserved
<1>13. S(v, 1)
  BY <1>7, <1>9, <1>12 DEF S
<1>14. CommitOK(v)
  BY <1>7, <1>9 DEF CommitOK
<1>15. /\ Len(v.buffer) = Len(s.buffer) - 1
       /\ v.reserved_receivers = s.reserved_receivers /\ v.closed = s.closed
  BY <1>2, <1>7, <1>9
<1> QED BY <1>10, <1>11, <1>13, <1>14, <1>15 DEF Sound, u, t, v

\* channel_wake_receiver hands out the one value that was free for somebody
\* who waits: to a coroutine as a promise, to a future at once.
LEMMA WakeReceiver ==
    ASSUME NEW s, NEW p, Sound(s, p), ~s.closed, V(s, 1), S(s, 0)
    PROVE  LET r == channel_wake_receiver(s)
           IN  /\ Sound(r, p) /\ V(r, 0) /\ S(r, 0)
               /\ r.closed = s.closed
               /\ s.committed => CommitOK(r)
               /\ ~WakesReceiver(s) => r = s
<1> DEFINE r == channel_wake_receiver(s)
           w == channel_queue_first_unreserved(s, s.receivers)
<1>0. /\ Len(s.buffer) \in Nat /\ Room \in Nat /\ s.reserved_receivers \in Nat
      /\ IsFiniteSet(s.value_kept) /\ Rec(s)
  BY FitType DEF Sound, Fit
<1>1. CASE ~WakesReceiver(s)
  <2>1. r = s
    BY <1>1 DEF channel_wake_receiver
  <2>2. V(s, 0)
    BY <1>0, <1>1, SMT, SMTT(30) DEF V, WakesReceiver, has_free_value, Holds
  <2> QED BY <2>1, <2>2 DEF CommitOK
<1>2. CASE WakesReceiver(s)
  <2>1. /\ Len(s.buffer) > s.reserved_receivers
        /\ Unreserved(s, s.receivers) # {}
    BY <1>2 DEF WakesReceiver, has_free_value, Holds
  <2>2. Len(s.buffer) = s.reserved_receivers + 1
    BY <1>0, <2>1, SMT, SMTT(30) DEF V
  <2>3. /\ InQueue(s.receivers, w) /\ w \in Waiters
        /\ w \notin s.value_kept \cup s.slot_kept \cup s.delivering
    BY <2>1, FirstUnreserved DEF Sound, Waits
  <2>4. CASE w \in Futures
    <3> DEFINE u == [s EXCEPT !.receivers = channel_queue_remove(@, w)]
               v == [take_value(u) EXCEPT !.future[w] = "resolved"]
    <3>1. r = channel_refresh_deadlock_timer(channel_wake_sender(v))
      BY <1>2, <2>4 DEF channel_wake_receiver
    <3>2. /\ Sound(v, p) /\ S(v, 1) /\ CommitOK(v)
          /\ Len(v.buffer) = Len(s.buffer) - 1
          /\ v.reserved_receivers = s.reserved_receivers /\ v.closed = s.closed
      BY <2>1, <2>4, FutureTakes
    <3> HIDE DEF v
    <3>14. V(v, 0)
      <4>1. ~(Len(v.buffer) > v.reserved_receivers + 0)
        BY <1>0, <2>2, <3>2, SMT, SMTT(30)
      <4> QED BY <4>1 DEF V
    <3> DEFINE q == channel_wake_sender(v)
    <3>16. /\ Sound(q, p) /\ S(q, 0) /\ V(q, 0) /\ q.closed = v.closed
           /\ q.committed = v.committed /\ q.value_kept = v.value_kept
      BY <3>2, <3>14, WakeSender, WakeSenderV
    <3> HIDE DEF q
    <3>17. CommitOK(q)
      BY <3>2, <3>16 DEF CommitOK
    <3>18. Same(r, q)
      BY <3>1, <3>16, RefreshSame DEF Sound, Fit, q
    <3> HIDE DEF r
    <3>19. Sound(r, p) /\ V(r, 0) /\ S(r, 0) /\ CommitOK(r)
      BY <3>16, <3>17, <3>18, SameSound
    <3>20. r.closed = s.closed
      BY <3>2, <3>16, <3>18 DEF Same
    <3> QED BY <1>2, <3>19, <3>20 DEF r
  <2>5. CASE w \notin Futures
    <3> DEFINE t == [s EXCEPT !.value_kept = @ \cup {w}, !.reserved_receivers = @ + 1]
    <3>1. r = channel_refresh_deadlock_timer(Resumed(t, w, "none"))
      BY <1>2, <2>5 DEF channel_wake_receiver
    <3>2. /\ Rec(t) /\ t.buffer = s.buffer /\ t.committed = s.committed /\ t.closed = s.closed
          /\ t.receivers = s.receivers /\ t.senders = s.senders
          /\ t.value_kept = s.value_kept \cup {w} /\ t.slot_kept = s.slot_kept
          /\ t.delivering = s.delivering /\ t.future = s.future
          /\ t.reserved_receivers = s.reserved_receivers + 1
          /\ t.reserved_senders = s.reserved_senders
      BY <1>0 DEF Rec, Fields
    <3> HIDE DEF t, w
    <3>3. w \in Coroutines /\ p[w] = "recv"
      BY <2>3, <2>5 DEF Sound, Waits, Waiters
    <3>4. Cardinality(t.value_kept) = Cardinality(s.value_kept) + 1
      BY <1>0, <2>3, <3>2, FS_AddElement
    <3>5. t.reserved_receivers <= Len(t.buffer)
      BY <1>0, <2>2, <3>2, SMT, SMTT(30)
    <3>6. Fit(t)
      BY <3>2, <3>3, <3>4, <3>5 DEF Sound, Fit
    <3>7. Waits(t, p)
      BY <3>2, <3>3, SMT, SMTT(30) DEF Sound, Waits
    <3>8. \A queue : Unreserved(s, queue) = {} => Unreserved(t, queue) = {}
      BY <3>2 DEF Unreserved
    <3>9. S(t, 0)
      BY <3>2, <3>8 DEF S
    <3>10. V(t, 0)
      <4>1. ~(Len(t.buffer) > t.reserved_receivers + 0)
        BY <1>0, <2>2, <3>2, SMT, SMTT(30)
      <4> QED BY <4>1 DEF V
    <3>11. s.committed => CommitOK(t)
      BY <3>2 DEF CommitOK
    <3>12. Same(Resumed(t, w, "none"), t)
      BY <3>2, ResumedSame
    <3>13. Same(r, Resumed(t, w, "none"))
      BY <3>1, <3>12, RefreshSame, SMT, SMTT(30) DEF Same
    <3> HIDE DEF r
    <3>14. Same(r, t)
      BY <3>12, <3>13, SameTrans
    <3>15. Sound(r, p) /\ V(r, 0) /\ S(r, 0) /\ (s.committed => CommitOK(r))
      BY <3>6, <3>7, <3>9, <3>10, <3>11, <3>14, SameSound DEF Sound
    <3>16. r.closed = s.closed
      BY <3>2, <3>14 DEF Same
    <3> QED BY <1>2, <3>15, <3>16 DEF r
  <2> QED BY <2>4, <2>5
<1> QED BY <1>1, <1>2


-----------------------------------------------------------------------
(* A woken waiter leaves.                                                 *)

Inv(s, p) == Sound(s, p) /\ V(s, 0) /\ S(s, 0) /\ CommitOK(s)

\* One more place may be short than before.
LEMMA Weaken ==
    ASSUME NEW s, Fit(s)
    PROVE  (V(s, 0) => V(s, 1)) /\ (S(s, 0) => S(s, 1))
<1>1. /\ Len(s.buffer) > s.reserved_receivers + 1 => Len(s.buffer) > s.reserved_receivers + 0
      /\ Room - Len(s.buffer) > s.reserved_senders + 1 =>
            Room - Len(s.buffer) > s.reserved_senders + 0
  BY FitType, SMT, SMTT(30)
<1> QED BY <1>1 DEF V, S

\* The value that close() or a failed send() takes back from the rendezvous
\* slot was promised to nobody, and its slot is owed to the senders.
LEMMA RollBackSound ==
    ASSUME NEW s, NEW p, Sound(s, p), CommitOK(s)
    PROVE  LET r == RollBack(s)
           IN  /\ Sound(r, p) /\ CommitOK(r)
               /\ r.closed = s.closed
               /\ V(s, 0) => V(r, 0)
               /\ S(s, 0) => S(r, 1)
<1> DEFINE r == RollBack(s)
<1>1. CASE r = s
  BY <1>1, Weaken DEF Sound
<1>2. CASE r # s
  <2>1. ~is_buffered /\ ~s.committed /\ r = withdraw_value(s)
    BY <1>2 DEF RollBack
  <2>2. /\ Rec(r) /\ r.buffer = <<>> /\ r.committed = s.committed /\ r.closed = s.closed
        /\ r.receivers = s.receivers /\ r.senders = s.senders
        /\ r.value_kept = s.value_kept /\ r.slot_kept = s.slot_kept
        /\ r.delivering = s.delivering /\ r.future = s.future
        /\ r.reserved_receivers = s.reserved_receivers
        /\ r.reserved_senders = s.reserved_senders
    BY <2>1 DEF withdraw_value, Rec, Fields, Sound, Fit
  <2> HIDE DEF r
  <2>3. /\ Len(s.buffer) \in Nat /\ Room \in Nat /\ s.reserved_receivers \in Nat
        /\ s.reserved_senders \in Nat /\ s.reserved_senders <= Room - Len(s.buffer)
        /\ s.reserved_receivers = 0 <=> s.value_kept = {}
    BY FitType DEF Sound, Fit
  <2>4. s.reserved_receivers = 0 /\ Room = 1
    BY <2>1, <2>3 DEF CommitOK, Room
  <2>5. r.buffer \in Seq(Messages) /\ Len(r.buffer) = 0
    BY <2>2, SMT, SMTT(30)
  <2>6. Fit(r)
    <3>1. /\ Len(r.buffer) <= Room /\ r.reserved_receivers <= Len(r.buffer)
          /\ r.reserved_senders <= Room - Len(r.buffer)
      BY <2>2, <2>3, <2>4, <2>5, SMT, SMTT(30)
    <3> QED BY <2>2, <2>5, <3>1 DEF Sound, Fit
  <2>7. Waits(r, p)
    BY <2>2 DEF Sound, Waits
  <2>8. CommitOK(r)
    BY <2>2 DEF CommitOK
  <2>9. V(r, 0) /\ S(r, 1)
    <3>1. ~(Len(r.buffer) > r.reserved_receivers + 0)
      BY <2>2, <2>4, <2>5, SMT, SMTT(30)
    <3>2. ~(Room - Len(r.buffer) > r.reserved_senders + 1)
      BY <2>2, <2>3, <2>4, <2>5, SMT, SMTT(30)
    <3> QED BY <3>1, <3>2 DEF V, S
  <2> QED BY <2>2, <2>6, <2>7, <2>8, <2>9 DEF Sound, r
<1> QED BY <1>1, <1>2

\* The record when receiver c has left, before it hands anything on.
ReceiverGone(s, c) ==
    [s EXCEPT !.receivers = channel_queue_remove(@, c),
              !.value_kept = @ \ {c},
              !.queued = @ \ {c},
              !.reserved_receivers = IF c \in s.value_kept THEN @ - 1 ELSE @]

\* A promise that the receiver held is open to the next one.
LEMMA ReceiverGoes ==
    ASSUME NEW s, NEW p, Inv(s, p), DOMAIN p = Coroutines,
           NEW c \in Coroutines, p[c] = "recv"
    PROVE  LET t == ReceiverGone(s, c)
               q == [p EXCEPT ![c] = "run"]
           IN  /\ Sound(t, q) /\ S(t, 0) /\ V(t, 1) /\ CommitOK(t)
               /\ c \notin s.value_kept => V(t, 0)
               /\ c \in s.value_kept => Len(t.buffer) > t.reserved_receivers
               /\ t.closed = s.closed /\ t.committed = s.committed /\ t.value_kept \subseteq s.value_kept
<1> DEFINE q == [p EXCEPT ![c] = "run"]
           had == c \in s.value_kept
           t == ReceiverGone(s, c)
<1>0. /\ Len(s.buffer) \in Nat /\ Room \in Nat /\ s.reserved_receivers \in Nat
      /\ s.reserved_senders \in Nat
      /\ IsFiniteSet(s.value_kept) /\ Rec(s)
      /\ Sound(s, p) /\ Fit(s) /\ Waits(s, p) /\ CommitOK(s)
  BY FitType DEF Inv, Sound, Fit
<1>2. /\ Rec(t) /\ t.buffer = s.buffer /\ t.committed = s.committed /\ t.closed = s.closed
      /\ t.receivers = channel_queue_remove(s.receivers, c) /\ t.senders = s.senders
      /\ t.value_kept = s.value_kept \ {c} /\ t.slot_kept = s.slot_kept
      /\ t.delivering = s.delivering /\ t.future = s.future
      /\ t.reserved_receivers = IF had THEN s.reserved_receivers - 1 ELSE s.reserved_receivers
      /\ t.reserved_senders = s.reserved_senders
  BY <1>0 DEF ReceiverGone, Rec, Fields
<1>3. \A x \in Coroutines : q[x] = IF x = c THEN "run" ELSE p[x]
  OBVIOUS
<1> HIDE DEF t, q
<1>4. ~s.closed => /\ Distinct(t.receivers, Waiters)
                   /\ \A x : InQueue(t.receivers, x) => InQueue(s.receivers, x) /\ x # c
  BY <1>0, <1>2, RemoveDistinct, SMT, SMTT(30) DEF Waits
<1>5. /\ Cardinality(t.value_kept) = IF had THEN Cardinality(s.value_kept) - 1
                                     ELSE Cardinality(s.value_kept)
  BY <1>0, <1>2, FS_RemoveElement, ZenonT(30)
<1>6. had => s.reserved_receivers >= 1
  <2>1. had => s.value_kept # {}
    OBVIOUS
  <2> QED BY <1>0, <2>1, FitType, SMT, SMTT(30)
<1>7. Fit(t)
  <2>1. /\ t.reserved_receivers = Cardinality(t.value_kept)
        /\ t.reserved_receivers <= Len(t.buffer)
    BY <1>0, <1>2, <1>5, <1>6, SMT, SMTT(30) DEF Fit
  <2> QED BY <1>0, <1>2, <2>1 DEF Fit
<1>8. Waits(t, q)
  <2>1. \A x : InQueue(t.senders, x) => x \in Coroutines /\ q[x] \in {"space", "delivery"}
    <3> SUFFICES ASSUME NEW x, InQueue(t.senders, x)
                 PROVE  x \in Coroutines /\ q[x] \in {"space", "delivery"}
      OBVIOUS
    <3>1. x \in Coroutines
      BY <1>0, <1>2, SMT, SMTT(30) DEF InQueue, Waits, Distinct
    <3> QED BY <1>0, <1>2, <1>3, <3>1 DEF Waits
  <2>2. t.delivering = {x \in Coroutines : q[x] = "delivery"}
    BY <1>0, <1>2, <1>3, SMT, SMTT(30) DEF Waits
  <2>3. /\ \A x \in t.value_kept : q[x] = "recv"
        /\ \A x \in t.slot_kept : q[x] = "space"
    BY <1>0, <1>2, <1>3, SMT, SMTT(30) DEF Waits, Fit
  <2>4. ~t.closed => \A w : InQueue(t.receivers, w) =>
                         \/ w \in Coroutines /\ q[w] = "recv"
                         \/ w \in Futures /\ t.future[w] # "unused"
    BY <1>0, <1>2, <1>3, <1>4, SMT, SMTT(30) DEF Waits
  <2> QED BY <1>0, <1>2, <1>4, <2>1, <2>2, <2>3, <2>4, ZenonT(30) DEF Waits
<1>9. ~s.closed /\ Unreserved(s, s.receivers) = {} => Unreserved(t, t.receivers) = {}
  BY <1>2, <1>4, NoneUnreserved
<1>10. Unreserved(s, s.senders) = {} => Unreserved(t, t.senders) = {}
  <2>1. \A x : InQueue(s.senders, x) => x # c
    BY <1>0 DEF Waits
  <2> QED BY <1>2, <2>1, NoneUnreserved
<1>11. S(t, 0)
  BY <1>2, <1>10 DEF S, Inv
<1>12. V(t, 1) /\ (~had => V(t, 0))
  <2>1. /\ Len(t.buffer) > t.reserved_receivers + 1 => Len(s.buffer) > s.reserved_receivers + 0
        /\ ~had /\ Len(t.buffer) > t.reserved_receivers + 0 =>
              Len(s.buffer) > s.reserved_receivers + 0
    BY <1>0, <1>2, SMT, SMTT(30)
  <2> QED BY <1>2, <1>9, <2>1 DEF V, Inv
<1>13. CommitOK(t)
  BY <1>0, <1>2 DEF CommitOK
<1>14. had => Len(t.buffer) > t.reserved_receivers
  <2>1. s.reserved_receivers <= Len(s.buffer)
    BY <1>0 DEF Fit
  <2> QED BY <1>0, <1>2, <1>6, <2>1, SMT, SMTT(30)
<1>15. t.closed = s.closed /\ t.committed = s.committed /\ t.value_kept \subseteq s.value_kept
  BY <1>2
<1> QED BY <1>7, <1>8, <1>11, <1>12, <1>13, <1>14, <1>15 DEF Sound, t, q

\* A receiver that leaves spends its promise in the retry that follows, or
\* hands it on.
LEMMA ReceiverLeaves ==
    ASSUME NEW s, NEW p, Inv(s, p), DOMAIN p = Coroutines,
           NEW c \in Coroutines, p[c] = "recv"
    PROVE  LET r == ReceiverWoken(s, c)
               q == [p EXCEPT ![c] = "run"]
               spent == c \in s.value_kept /\ s.error[c] = "none"
           IN  /\ Sound(r, q) /\ S(r, 0) /\ CommitOK(r)
               /\ r.closed = s.closed
               /\ ~spent => V(r, 0)
               /\ spent => V(r, 1) /\ Len(r.buffer) > r.reserved_receivers
<1> DEFINE r == ReceiverWoken(s, c)
           q == [p EXCEPT ![c] = "run"]
           had == c \in s.value_kept
           spent == had /\ s.error[c] = "none"
           t == ReceiverGone(s, c)
           hand_on == had /\ s.error[c] # "none" /\ ~s.closed
           h == IF hand_on THEN channel_wake_receiver(t) ELSE t
<1>0. CommitOK(s)
  BY DEF Inv
<1>1. r = channel_refresh_deadlock_timer(h)
  BY DEF ReceiverWoken, ReceiverGone
<1>2. /\ Sound(t, q) /\ S(t, 0) /\ V(t, 1) /\ CommitOK(t)
      /\ ~had => V(t, 0)
      /\ had => Len(t.buffer) > t.reserved_receivers
      /\ t.closed = s.closed /\ t.committed = s.committed /\ t.value_kept \subseteq s.value_kept
  BY ReceiverGoes
<1> HIDE DEF t, q
<1>14. /\ Sound(h, q) /\ S(h, 0) /\ CommitOK(h) /\ h.closed = s.closed
       /\ V(h, 1) /\ (~spent => V(h, 0))
       /\ spent => Len(h.buffer) > h.reserved_receivers
  <2>1. CASE hand_on
    <3> DEFINE g == channel_wake_receiver(t)
    <3>1. /\ Sound(g, q) /\ V(g, 0) /\ S(g, 0) /\ g.closed = t.closed
          /\ t.committed => CommitOK(g)
      BY <1>2, <2>1, WakeReceiver
    <3>2. h = g
      BY <2>1
    <3> HIDE DEF g
    <3>3. CommitOK(g)
      BY <1>0, <1>2, <2>1, <3>1 DEF CommitOK
    <3> HIDE DEF h
    <3> QED BY <1>2, <2>1, <3>1, <3>2, <3>3, Weaken DEF Sound
  <2>2. CASE ~hand_on
    <3>1. h = t
      BY <2>2
    <3> HIDE DEF h
    <3>2. s.closed => V(t, 0)
      BY <1>2 DEF V
    <3> QED BY <1>2, <2>2, <3>1, <3>2
  <2> QED BY <2>1, <2>2
<1> HIDE DEF h
<1>15. Same(r, h)
  BY <1>1, <1>14, RefreshSame DEF Sound, Fit
<1> HIDE DEF r
<1>16. /\ Sound(r, q) /\ S(r, 0) /\ CommitOK(r) /\ V(r, 1) /\ (~spent => V(r, 0))
  BY <1>14, <1>15, SameSound
<1>17. r.closed = s.closed /\ (spent => Len(r.buffer) > r.reserved_receivers)
  BY <1>14, <1>15 DEF Same
<1> QED BY <1>16, <1>17 DEF r, q

\* The record when sender c has left, before it takes its value back or hands
\* anything on.
SenderGone(s, c) ==
    [s EXCEPT !.senders = channel_queue_remove(@, c),
              !.slot_kept = @ \ {c},
              !.delivering = @ \ {c},
              !.queued = @ \ {c},
              !.reserved_senders = IF c \in s.slot_kept THEN @ - 1 ELSE @]

\* A promise that the sender held is open to the next one; a sender whose value
\* is in the slot held none.
LEMMA SenderGoes ==
    ASSUME NEW s, NEW p, Inv(s, p), DOMAIN p = Coroutines,
           NEW c \in Coroutines, p[c] \in {"space", "delivery"}
    PROVE  LET t == SenderGone(s, c)
               q == [p EXCEPT ![c] = "run"]
           IN  /\ Sound(t, q) /\ V(t, 0) /\ S(t, 1) /\ CommitOK(t)
               /\ c \notin s.slot_kept => S(t, 0)
               /\ c \in s.slot_kept => c \notin s.delivering /\ Room - Len(t.buffer) > t.reserved_senders
               /\ t.closed = s.closed
<1> DEFINE q == [p EXCEPT ![c] = "run"]
           had == c \in s.slot_kept
           t == SenderGone(s, c)
<1>0. /\ Len(s.buffer) \in Nat /\ Room \in Nat /\ s.reserved_receivers \in Nat
      /\ s.reserved_senders \in Nat
      /\ IsFiniteSet(s.slot_kept) /\ Rec(s)
      /\ Sound(s, p) /\ Fit(s) /\ Waits(s, p) /\ CommitOK(s)
  BY FitType DEF Inv, Sound, Fit
<1>2. /\ Rec(t) /\ t.buffer = s.buffer /\ t.committed = s.committed /\ t.closed = s.closed
      /\ t.senders = channel_queue_remove(s.senders, c) /\ t.receivers = s.receivers
      /\ t.slot_kept = s.slot_kept \ {c} /\ t.value_kept = s.value_kept
      /\ t.delivering = s.delivering \ {c} /\ t.future = s.future
      /\ t.reserved_senders = IF had THEN s.reserved_senders - 1 ELSE s.reserved_senders
      /\ t.reserved_receivers = s.reserved_receivers
  BY <1>0 DEF SenderGone, Rec, Fields
<1>3. \A x \in Coroutines : q[x] = IF x = c THEN "run" ELSE p[x]
  OBVIOUS
<1> HIDE DEF t, q
<1>4. /\ Distinct(t.senders, Coroutines)
      /\ \A x : InQueue(t.senders, x) => InQueue(s.senders, x) /\ x # c
  <2>1. Distinct(s.senders, Coroutines)
    BY <1>0 DEF Waits
  <2> QED BY <1>2, <2>1, RemoveDistinct, SMT, SMTT(30)
<1>5. /\ Cardinality(t.slot_kept) = IF had THEN Cardinality(s.slot_kept) - 1
                                    ELSE Cardinality(s.slot_kept)
  <2>1. Cardinality(s.slot_kept \ {c}) = IF had THEN Cardinality(s.slot_kept) - 1
                                         ELSE Cardinality(s.slot_kept)
    BY <1>0, FS_RemoveElement, ZenonT(30)
  <2> QED BY <1>2, <2>1
<1>6. had => s.reserved_senders >= 1
  <2>1. had => s.slot_kept # {}
    OBVIOUS
  <2> QED BY <1>0, <2>1, FitType, SMT, SMTT(30)
<1>7. Fit(t)
  <2>1. /\ t.reserved_senders = Cardinality(t.slot_kept)
        /\ t.reserved_senders <= Room - Len(t.buffer)
    BY <1>0, <1>2, <1>5, <1>6, SMT, SMTT(30) DEF Fit
  <2> QED BY <1>0, <1>2, <2>1 DEF Fit
<1>8. Waits(t, q)
  <2>1. \A x : InQueue(t.senders, x) => q[x] \in {"space", "delivery"}
    <3> SUFFICES ASSUME NEW x, InQueue(t.senders, x)
                 PROVE  q[x] \in {"space", "delivery"}
      OBVIOUS
    <3>1. x \in Coroutines
      BY <1>4, SMT, SMTT(30) DEF InQueue, Distinct
    <3> QED BY <1>0, <1>3, <1>4, <3>1 DEF Waits
  <2>2. t.delivering = {x \in Coroutines : q[x] = "delivery"}
    BY <1>0, <1>2, <1>3, SMT, SMTT(30) DEF Waits
  <2>3. /\ \A x \in t.value_kept : q[x] = "recv"
        /\ \A x \in t.slot_kept : q[x] = "space"
    BY <1>0, <1>2, <1>3, SMT, SMTT(30) DEF Waits, Fit
  <2>4. ~t.closed => \A w : InQueue(t.receivers, w) =>
                         \/ w \in Coroutines /\ q[w] = "recv"
                         \/ w \in Futures /\ t.future[w] # "unused"
    BY <1>0, <1>2, <1>3, SMT, SMTT(30) DEF Waits
  <2> QED BY <1>0, <1>2, <1>4, <2>1, <2>2, <2>3, <2>4, ZenonT(30) DEF Waits
<1>9. Unreserved(s, s.senders) = {} => Unreserved(t, t.senders) = {}
  BY <1>2, <1>4, NoneUnreserved
<1>10. ~s.closed /\ Unreserved(s, s.receivers) = {} => Unreserved(t, t.receivers) = {}
  <2>1. ~s.closed => \A x : InQueue(s.receivers, x) => x # c
    <3>1. c \notin Futures
      BY ChannelAssumption
    <3> QED BY <1>0, <3>1 DEF Waits
  <2> QED BY <1>2, <2>1, NoneUnreserved
<1>11. V(t, 0)
  BY <1>2, <1>10 DEF V, Inv
<1>12. S(t, 1) /\ (~had => S(t, 0))
  <2>1. /\ Room - Len(t.buffer) > t.reserved_senders + 1 =>
              Room - Len(s.buffer) > s.reserved_senders + 0
        /\ ~had /\ Room - Len(t.buffer) > t.reserved_senders + 0 =>
              Room - Len(s.buffer) > s.reserved_senders + 0
    BY <1>0, <1>2, SMT, SMTT(30)
  <2> QED BY <1>2, <1>9, <2>1 DEF S, Inv
<1>13. CommitOK(t)
  BY <1>0, <1>2 DEF CommitOK
<1>14. had => c \notin s.delivering /\ Room - Len(t.buffer) > t.reserved_senders
  <2>1. s.reserved_senders <= Room - Len(s.buffer)
    BY <1>0 DEF Fit
  <2>2. had => Room - Len(t.buffer) > t.reserved_senders
    BY <1>0, <1>2, <1>6, <2>1, SMT, SMTT(30)
  <2>3. had => c \notin s.delivering
    BY <1>0 DEF Waits
  <2> QED BY <2>2, <2>3
<1> QED BY <1>2, <1>7, <1>8, <1>11, <1>12, <1>13, <1>14 DEF Sound, t, q

\* The record when sender c has left and, woken with an exception while its own
\* value is in the rendezvous slot, has taken that value back.
SenderCleared(s, c) ==
    IF c \in s.delivering /\ InQueue(s.senders, c) /\ s.error[c] # "none"
    THEN RollBack(SenderGone(s, c)) ELSE SenderGone(s, c)

\* Whether it hands a slot on.
SenderHandsOn(s, c) ==
    \/ c \in s.delivering /\ InQueue(s.senders, c)
    \/ c \in s.slot_kept /\ s.error[c] # "none"

\* The slot of a value that was taken back is open to the next sender, too.
LEMMA SenderClears ==
    ASSUME NEW s, NEW p, Inv(s, p), DOMAIN p = Coroutines,
           NEW c \in Coroutines, p[c] \in {"space", "delivery"}
    PROVE  LET u == SenderCleared(s, c)
               q == [p EXCEPT ![c] = "run"]
               spent == c \in s.slot_kept /\ s.error[c] = "none"
           IN  /\ Sound(u, q) /\ CommitOK(u) /\ u.closed = s.closed /\ V(u, 0) /\ S(u, 1)
               /\ SenderWoken(s, c) = channel_refresh_deadlock_timer(
                      IF SenderHandsOn(s, c) /\ ~s.closed THEN channel_wake_sender(u) ELSE u)
               /\ ~spent /\ ~SenderHandsOn(s, c) => S(u, 0)
               /\ spent => ~SenderHandsOn(s, c) /\ Room - Len(u.buffer) > u.reserved_senders
<1> DEFINE u == SenderCleared(s, c)
           q == [p EXCEPT ![c] = "run"]
           had == c \in s.slot_kept
           unheard == c \in s.delivering /\ InQueue(s.senders, c)
           t == SenderGone(s, c)
<1>1. SenderWoken(s, c) = channel_refresh_deadlock_timer(
          IF SenderHandsOn(s, c) /\ ~s.closed THEN channel_wake_sender(u) ELSE u)
  BY DEF SenderWoken, SenderGone, SenderCleared, SenderHandsOn
<1>2. /\ Sound(t, q) /\ V(t, 0) /\ S(t, 1) /\ CommitOK(t)
      /\ ~had => S(t, 0)
      /\ had => ~unheard /\ Room - Len(t.buffer) > t.reserved_senders
      /\ t.closed = s.closed
  BY SenderGoes, ZenonT(30)
<1>3. u = IF unheard /\ s.error[c] # "none" THEN RollBack(t) ELSE t
  BY DEF SenderCleared
<1> HIDE DEF t, q, u
<1>4. /\ Sound(u, q) /\ CommitOK(u) /\ u.closed = s.closed /\ V(u, 0) /\ S(u, 1)
      /\ ~unheard => u = t
  <2>1. CASE unheard /\ s.error[c] # "none"
    <3>1. u = RollBack(t)
      BY <1>3, <2>1
    <3>2. S(t, 0)
      BY <1>2, <2>1
    <3> QED BY <1>2, <2>1, <3>1, <3>2, RollBackSound
  <2>2. CASE ~(unheard /\ s.error[c] # "none")
    <3>1. u = t
      BY <1>3, <2>2
    <3> QED BY <1>2, <3>1
  <2> QED BY <2>1, <2>2
<1>5. /\ ~(had /\ s.error[c] = "none") /\ ~SenderHandsOn(s, c) => S(u, 0)
      /\ had /\ s.error[c] = "none" =>
             ~SenderHandsOn(s, c) /\ Room - Len(u.buffer) > u.reserved_senders
  BY <1>2, <1>4 DEF SenderHandsOn
<1> QED BY <1>1, <1>4, <1>5 DEF q, u

\* A sender that leaves spends its promise in the retry that follows, or
\* hands it on; one that takes its value back hands on the slot.
LEMMA SenderLeaves ==
    ASSUME NEW s, NEW p, Inv(s, p), DOMAIN p = Coroutines,
           NEW c \in Coroutines, p[c] \in {"space", "delivery"}
    PROVE  LET r == SenderWoken(s, c)
               q == [p EXCEPT ![c] = "run"]
               spent == c \in s.slot_kept /\ s.error[c] = "none"
           IN  /\ Sound(r, q) /\ V(r, 0) /\ CommitOK(r)
               /\ r.closed = s.closed
               /\ ~spent => S(r, 0)
               /\ spent => S(r, 1) /\ Room - Len(r.buffer) > r.reserved_senders
<1> DEFINE r == SenderWoken(s, c)
           q == [p EXCEPT ![c] = "run"]
           spent == c \in s.slot_kept /\ s.error[c] = "none"
           u == SenderCleared(s, c)
           hand_on == SenderHandsOn(s, c)
           h == IF hand_on /\ ~s.closed THEN channel_wake_sender(u) ELSE u
<1>1. /\ Sound(u, q) /\ CommitOK(u) /\ u.closed = s.closed /\ V(u, 0) /\ S(u, 1)
      /\ r = channel_refresh_deadlock_timer(h)
      /\ ~spent /\ ~hand_on => S(u, 0)
      /\ spent => ~hand_on /\ Room - Len(u.buffer) > u.reserved_senders
  BY SenderClears
<1> HIDE DEF u, q, r, hand_on, spent
<1>2. /\ Sound(h, q) /\ V(h, 0) /\ CommitOK(h) /\ h.closed = s.closed
      /\ S(h, 1) /\ (~spent => S(h, 0))
      /\ spent => Room - Len(h.buffer) > h.reserved_senders
  <2>1. CASE hand_on /\ ~s.closed
    <3> DEFINE g == channel_wake_sender(u)
    <3>1. /\ Sound(g, q) /\ S(g, 0) /\ V(g, 0) /\ g.closed = u.closed
          /\ g.committed = u.committed /\ g.value_kept = u.value_kept
      BY <1>1, WakeSender, WakeSenderV
    <3>2. h = g
      BY <2>1
    <3> HIDE DEF g, h
    <3>3. CommitOK(g)
      BY <1>1, <3>1 DEF CommitOK
    <3>4. S(g, 1)
      BY <3>1, Weaken DEF Sound
    <3> QED BY <1>1, <2>1, <3>1, <3>2, <3>3, <3>4
  <2>2. CASE ~(hand_on /\ ~s.closed)
    <3>1. h = u
      BY <2>2
    <3> HIDE DEF h
    <3>2. s.closed => S(u, 0)
      BY <1>1 DEF S
    <3>3. ~spent => S(u, 0)
      BY <1>1, <2>2, <3>2
    <3> QED BY <1>1, <3>1, <3>3
  <2> QED BY <2>1, <2>2
<1> HIDE DEF h
<1>3. Same(r, h)
  BY <1>1, <1>2, RefreshSame DEF Sound, Fit
<1>4. /\ Sound(r, q) /\ V(r, 0) /\ CommitOK(r) /\ S(r, 1) /\ (~spent => S(r, 0))
  BY <1>2, <1>3, SameSound
<1>5. r.closed = s.closed /\ (spent => Room - Len(r.buffer) > r.reserved_senders)
  BY <1>2, <1>3 DEF Same
<1> QED BY <1>4, <1>5 DEF r, q, spent

-----------------------------------------------------------------------
(* send() and recv() from their retry label on.                           *)

\* The fields that no promise depends on may change.
LEMMA SameInv ==
    ASSUME NEW r, NEW s, NEW p, Same(r, s), Inv(s, p) PROVE Inv(r, p)
BY SameSound DEF Inv

\* A value put into a slot that is free for the sender owes one wakeup to the
\* receivers.
LEMMA PutValue ==
    ASSUME NEW s, NEW p, Sound(s, p), V(s, 0), S(s, 1), CommitOK(s), ~s.closed,
           Room - Len(s.buffer) > s.reserved_senders, NEW v \in Messages
    PROVE  LET r == put_value(s, v)
           IN  /\ Sound(r, p) /\ V(r, 1) /\ S(r, 0) /\ CommitOK(r) /\ ~r.closed
<1> DEFINE r == put_value(s, v)
<1>0. /\ Len(s.buffer) \in Nat /\ Room \in Nat /\ s.reserved_receivers \in Nat
      /\ s.reserved_senders \in Nat /\ Rec(s) /\ Fit(s) /\ Waits(s, p)
      /\ s.buffer \in Seq(Messages) /\ s.reserved_receivers <= Len(s.buffer)
      /\ s.reserved_receivers = 0 <=> s.value_kept = {}
  BY FitType DEF Sound, Fit
<1>1. /\ Rec(r) /\ r.buffer = Append(s.buffer, v) /\ r.closed = s.closed
      /\ r.receivers = s.receivers /\ r.senders = s.senders
      /\ r.value_kept = s.value_kept /\ r.slot_kept = s.slot_kept
      /\ r.delivering = s.delivering /\ r.future = s.future
      /\ r.reserved_receivers = s.reserved_receivers
      /\ r.reserved_senders = s.reserved_senders
  BY <1>0 DEF put_value, Rec, Fields
<1> HIDE DEF r
<1>2. r.buffer \in Seq(Messages) /\ Len(r.buffer) = Len(s.buffer) + 1
  BY <1>0, <1>1, SMT, SMTT(30)
<1>3. Fit(r)
  <2>1. /\ Len(r.buffer) <= Room /\ r.reserved_receivers <= Len(r.buffer)
        /\ r.reserved_senders <= Room - Len(r.buffer)
    BY <1>0, <1>1, <1>2, SMT, SMTT(30)
  <2> QED BY <1>0, <1>1, <1>2, <2>1 DEF Fit
<1>4. Waits(r, p)
  BY <1>0, <1>1 DEF Waits
<1>5. \A queue : Unreserved(r, queue) = Unreserved(s, queue)
  BY <1>1 DEF Unreserved
<1>6. V(r, 1) /\ S(r, 0)
  <2>1. /\ Len(r.buffer) > r.reserved_receivers + 1 => Len(s.buffer) > s.reserved_receivers + 0
        /\ Room - Len(r.buffer) > r.reserved_senders + 0 =>
              Room - Len(s.buffer) > s.reserved_senders + 1
    BY <1>0, <1>1, <1>2, SMT, SMTT(30)
  <2> QED BY <1>1, <1>5, <2>1 DEF V, S
<1>7. CommitOK(r)
  <2>1. ~is_buffered => s.reserved_receivers = 0
    <3>1. ~is_buffered => Room = 1
      BY DEF Room
    <3> QED BY <1>0, <3>1, SMT, SMTT(30)
  <2> QED BY <1>0, <1>1, <2>1 DEF CommitOK
<1> QED BY <1>1, <1>3, <1>4, <1>6, <1>7 DEF Sound, r

\* send() and sendAsync() that are admitted: the value waits for nobody, or
\* is promised and, on a rendezvous channel, committed.
LEMMA SendDelivers ==
    ASSUME NEW s, NEW p, Sound(s, p), V(s, 0), S(s, 1), CommitOK(s), ~s.closed,
           Room - Len(s.buffer) > s.reserved_senders, NEW v \in Messages
    PROVE  LET put == put_value(s, v)
               woken == channel_wake_receiver(put)
           IN  /\ is_buffered => Inv(woken, p)
               /\ Inv([woken EXCEPT !.committed = woken.buffer # <<>>], p)
               /\ Inv([woken EXCEPT !.committed =
                          ~is_buffered /\ WakesReceiver(put) /\ woken.buffer # <<>>], p)
               /\ ~WakesReceiver(put) => Inv(put, p) /\ ~put.closed
<1> DEFINE put == put_value(s, v)
           woken == channel_wake_receiver(put)
           c1 == woken.buffer # <<>>
           c2 == ~is_buffered /\ WakesReceiver(put) /\ woken.buffer # <<>>
<1>1. Sound(put, p) /\ V(put, 1) /\ S(put, 0) /\ CommitOK(put) /\ ~put.closed
  BY PutValue
<1>2. /\ Sound(woken, p) /\ V(woken, 0) /\ S(woken, 0)
      /\ ~WakesReceiver(put) => woken = put
  BY <1>1, WakeReceiver
<1>3. ~is_buffered /\ woken.value_kept # {} => c1
  <2> HIDE DEF woken
  <2>1. woken.buffer = <<>> => Len(woken.buffer) = 0
    BY SMT, SMTT(30)
  <2>2. woken.reserved_receivers \in Nat /\ woken.reserved_receivers <= Len(woken.buffer)
        /\ (woken.reserved_receivers = 0 <=> woken.value_kept = {})
    BY <1>2, FitType DEF Sound, Fit
  <2> QED BY <2>1, <2>2, SMT, SMTT(30)
<1>4. ~is_buffered /\ woken.value_kept # {} => c2
  <2>1. ~is_buffered /\ ~WakesReceiver(put) => put.value_kept = {}
    <3> HIDE DEF put
    <3>1. CASE is_buffered \/ WakesReceiver(put)
      BY <3>1
    <3>2. CASE ~is_buffered /\ ~WakesReceiver(put)
      <4>1. Room - Len(s.buffer) > s.reserved_senders /\ Room = 1
        BY <3>2 DEF Room
      <4>2. /\ Len(s.buffer) \in Nat /\ s.reserved_senders \in Nat /\ s.reserved_receivers \in Nat
            /\ s.reserved_receivers <= Len(s.buffer)
            /\ s.reserved_receivers = 0 <=> s.value_kept = {}
        BY FitType DEF Sound, Fit
      <4>3. s.value_kept = {}
        BY <4>1, <4>2, SMT, SMTT(30)
      <4>4. put.value_kept = s.value_kept
        BY DEF put, put_value, Sound, Fit, Rec, Fields
      <4> QED BY <4>3, <4>4
    <3> QED BY <3>1, <3>2
  <2> HIDE DEF put, woken
  <2> QED BY <1>2, <1>3, <2>1
<1>5. ASSUME NEW b, ~is_buffered /\ woken.value_kept # {} => b
      PROVE  Inv([woken EXCEPT !.committed = b], p)
  <2> DEFINE r == [woken EXCEPT !.committed = b]
  <2> HIDE DEF woken
  <2>1. /\ Rec(r) /\ r.buffer = woken.buffer /\ r.committed = b /\ r.closed = woken.closed
        /\ r.receivers = woken.receivers /\ r.senders = woken.senders
        /\ r.value_kept = woken.value_kept /\ r.slot_kept = woken.slot_kept
        /\ r.delivering = woken.delivering /\ r.future = woken.future
        /\ r.reserved_receivers = woken.reserved_receivers
        /\ r.reserved_senders = woken.reserved_senders
    BY <1>2 DEF Sound, Fit, Rec, Fields
  <2> HIDE DEF r
  <2>2. Fit(r)
    BY <1>2, <2>1 DEF Sound, Fit
  <2>3. Waits(r, p)
    BY <1>2, <2>1, SMT, SMTT(30) DEF Sound, Waits
  <2>4. \A queue : Unreserved(r, queue) = Unreserved(woken, queue)
    BY <2>1 DEF Unreserved
  <2>5. V(r, 0) /\ S(r, 0)
    BY <1>2, <2>1, <2>4 DEF V, S
  <2>6. CommitOK(r)
    BY <1>5, <2>1 DEF CommitOK
  <2> QED BY <2>2, <2>3, <2>5, <2>6 DEF Inv, Sound, r
<1>6. is_buffered => Inv(woken, p)
  BY <1>2 DEF Inv, CommitOK
<1>7. ~WakesReceiver(put) => Inv(put, p) /\ ~put.closed
  BY <1>1, <1>2 DEF Inv
<1> HIDE DEF put, woken
<1>8. Inv([woken EXCEPT !.committed = c1], p)
  BY <1>3, <1>5
<1>9. Inv([woken EXCEPT !.committed = c2], p)
  BY <1>4, <1>5
<1> QED BY <1>6, <1>7, <1>8, <1>9 DEF put, woken

\* recv() and recvAsync() that are admitted hand the slot they free to a
\* sender.
LEMMA RecvTakes ==
    ASSUME NEW s, NEW p, Sound(s, p), V(s, 1), S(s, 0), Len(s.buffer) > s.reserved_receivers
    PROVE  LET r == channel_wake_sender(take_value(s))
           IN  Inv(r, p) /\ r.future = s.future /\ r.closed = s.closed
<1> DEFINE t == take_value(s)
           r == channel_wake_sender(t)
<1>1. /\ Sound(t, p) /\ CommitOK(t) /\ V(t, 0) /\ S(t, 1)
      /\ t.future = s.future /\ t.closed = s.closed
  BY TakeValue
<1> HIDE DEF t
<1>2. /\ Sound(r, p) /\ S(r, 0) /\ V(r, 0)
      /\ r.committed = t.committed /\ r.value_kept = t.value_kept
      /\ r.future = t.future /\ r.closed = t.closed
  BY <1>1, WakeSender, WakeSenderV
<1> HIDE DEF r
<1>3. CommitOK(r)
  BY <1>1, <1>2 DEF CommitOK
<1> QED BY <1>1, <1>2, <1>3 DEF Inv, r, t

\* A sender parks for a slot when none is free, or for its own delivery.
LEMMA SenderParks ==
    ASSUME NEW s, NEW p, Inv(s, p), DOMAIN p = Coroutines, NEW c \in Coroutines,
           p[c] = "run", NEW d \in BOOLEAN,
           d \/ ~(Room - Len(s.buffer) > s.reserved_senders)
    PROVE  Inv(ParkSender(s, c, d), [p EXCEPT ![c] = IF d THEN "delivery" ELSE "space"])
<1> DEFINE r == ParkSender(s, c, d)
           q == [p EXCEPT ![c] = IF d THEN "delivery" ELSE "space"]
           t == [s EXCEPT !.senders = Append(@, c), !.error[c] = "none",
                          !.delivering = IF d THEN @ \cup {c} ELSE @]
<1>0. Rec(s) /\ Fit(s) /\ Waits(s, p) /\ c \notin Futures
  BY ChannelAssumption DEF Inv, Sound, Fit
<1>1. r = channel_refresh_deadlock_timer(t)
  BY DEF ParkSender
<1>2. /\ Rec(t) /\ t.buffer = s.buffer /\ t.committed = s.committed /\ t.closed = s.closed
      /\ t.receivers = s.receivers /\ t.senders = Append(s.senders, c)
      /\ t.value_kept = s.value_kept /\ t.slot_kept = s.slot_kept
      /\ t.delivering = (IF d THEN s.delivering \cup {c} ELSE s.delivering)
      /\ t.future = s.future
      /\ t.reserved_receivers = s.reserved_receivers
      /\ t.reserved_senders = s.reserved_senders
  BY <1>0 DEF Rec, Fields
<1>3. \A x \in Coroutines : q[x] = IF x = c THEN (IF d THEN "delivery" ELSE "space") ELSE p[x]
  OBVIOUS
<1> HIDE DEF t, q, r
<1>4. /\ Distinct(t.senders, Coroutines)
      /\ \A x : InQueue(t.senders, x) => InQueue(s.senders, x) \/ x = c
  <2>1. ~InQueue(s.senders, c)
    BY <1>0 DEF Waits
  <2>2. Distinct(s.senders, Coroutines)
    BY <1>0 DEF Waits
  <2> DEFINE queue == s.senders
  <2>3. Distinct(queue, Coroutines) /\ ~InQueue(queue, c)
    BY <2>1, <2>2
  <2> HIDE DEF queue
  <2>4. /\ Distinct(Append(queue, c), Coroutines)
        /\ \A x : InQueue(Append(queue, c), x) => InQueue(queue, x) \/ x = c
    BY <2>2, <2>3, AppendDistinct
  <2>5. t.senders = Append(queue, c)
    BY <1>2 DEF queue
  <2> QED BY <2>4, <2>5 DEF queue
<1>5. Fit(t)
  BY <1>0, <1>2 DEF Fit
<1>6. Waits(t, q)
  <2>1. \A x : InQueue(t.senders, x) => q[x] \in {"space", "delivery"}
    <3> SUFFICES ASSUME NEW x, InQueue(t.senders, x)
                 PROVE  q[x] \in {"space", "delivery"}
      OBVIOUS
    <3>1. x \in Coroutines
      BY <1>4, SMT, SMTT(30) DEF InQueue, Distinct
    <3> QED BY <1>0, <1>3, <1>4, <3>1 DEF Waits
  <2>2. t.delivering = {x \in Coroutines : q[x] = "delivery"}
    BY <1>0, <1>2, <1>3, SMT, SMTT(30) DEF Waits
  <2>3. /\ \A x \in t.value_kept : q[x] = "recv"
        /\ \A x \in t.slot_kept : q[x] = "space"
    BY <1>0, <1>2, <1>3, SMT, SMTT(30) DEF Waits, Fit
  <2>4. ~t.closed => \A w : InQueue(t.receivers, w) =>
                         \/ w \in Coroutines /\ q[w] = "recv"
                         \/ w \in Futures /\ t.future[w] # "unused"
    BY <1>0, <1>2, <1>3, SMT, SMTT(30) DEF Waits
  <2> QED BY <1>0, <1>2, <1>4, <2>1, <2>2, <2>3, <2>4, ZenonT(30) DEF Waits
<1>7. V(t, 0)
  <2>1. Unreserved(s, s.receivers) = {} => Unreserved(t, t.receivers) = {}
    BY <1>2, NoneUnreserved, SMT, SMTT(30)
  <2> QED BY <1>2, <2>1 DEF Inv, V
<1>8. S(t, 0)
  <2>1. CASE d
    <3>1. Unreserved(s, s.senders) = {} => Unreserved(t, t.senders) = {}
      BY <1>2, <1>4, <2>1, NoneUnreserved
    <3> QED BY <1>2, <3>1 DEF Inv, S
  <2>2. CASE ~d
    <3>1. s.reserved_senders \in Nat
      BY <1>0, FitType
    <3>2. s.reserved_senders + 0 = s.reserved_senders
      BY <3>1, SMT, SMTT(30)
    <3> QED BY <1>2, <2>2, <3>2 DEF S
  <2> QED BY <2>1, <2>2
<1>9. CommitOK(t)
  BY <1>2 DEF CommitOK, Inv
<1>10. Inv(t, q)
  BY <1>5, <1>6, <1>7, <1>8, <1>9 DEF Inv, Sound
<1>11. Same(r, t)
  BY <1>1, <1>2, RefreshSame
<1> QED BY <1>10, <1>11, SameInv DEF r, q

\* A receiver parks when no value is free.
LEMMA ReceiverParks ==
    ASSUME NEW s, NEW p, Inv(s, p), DOMAIN p = Coroutines, NEW c \in Coroutines,
           p[c] = "run", ~s.closed, ~(Len(s.buffer) > s.reserved_receivers)
    PROVE  Inv(ParkReceiver(s, c), [p EXCEPT ![c] = "recv"])
<1> DEFINE r == ParkReceiver(s, c)
           q == [p EXCEPT ![c] = "recv"]
           t == [s EXCEPT !.receivers = Append(@, c), !.error[c] = "none"]
<1>0. Rec(s) /\ Fit(s) /\ Waits(s, p) /\ c \notin Futures
  BY ChannelAssumption DEF Inv, Sound, Fit
<1>1. r = channel_refresh_deadlock_timer(t)
  BY DEF ParkReceiver
<1>2. /\ Rec(t) /\ t.buffer = s.buffer /\ t.committed = s.committed /\ t.closed = s.closed
      /\ t.senders = s.senders /\ t.receivers = Append(s.receivers, c)
      /\ t.value_kept = s.value_kept /\ t.slot_kept = s.slot_kept
      /\ t.delivering = s.delivering /\ t.future = s.future
      /\ t.reserved_receivers = s.reserved_receivers
      /\ t.reserved_senders = s.reserved_senders
  BY <1>0 DEF Rec, Fields
<1>3. \A x \in Coroutines : q[x] = IF x = c THEN "recv" ELSE p[x]
  OBVIOUS
<1> HIDE DEF t, q, r
<1>4. /\ Distinct(t.receivers, Waiters)
      /\ \A x : InQueue(t.receivers, x) => InQueue(s.receivers, x) \/ x = c
  <2>1. ~InQueue(s.receivers, c)
    BY <1>0 DEF Waits
  <2>2. Distinct(s.receivers, Waiters) /\ c \in Waiters
    BY <1>0 DEF Waits, Waiters
  <2> DEFINE queue == s.receivers
  <2>3. Distinct(queue, Waiters) /\ ~InQueue(queue, c)
    BY <2>1, <2>2
  <2> HIDE DEF queue
  <2>4. /\ Distinct(Append(queue, c), Waiters)
        /\ \A x : InQueue(Append(queue, c), x) => InQueue(queue, x) \/ x = c
    BY <2>2, <2>3, AppendDistinct
  <2>5. t.receivers = Append(queue, c)
    BY <1>2 DEF queue
  <2> QED BY <2>4, <2>5 DEF queue
<1>5. Fit(t)
  BY <1>0, <1>2 DEF Fit
<1>6. Waits(t, q)
  <2>1. \A x : InQueue(t.senders, x) => q[x] \in {"space", "delivery"}
    <3> SUFFICES ASSUME NEW x, InQueue(t.senders, x)
                 PROVE  q[x] \in {"space", "delivery"}
      OBVIOUS
    <3>1. x \in Coroutines
      BY <1>0, <1>2, SMT, SMTT(30) DEF InQueue, Distinct, Waits
    <3> QED BY <1>0, <1>2, <1>3, <3>1 DEF Waits
  <2>2. t.delivering = {x \in Coroutines : q[x] = "delivery"}
    BY <1>0, <1>2, <1>3, SMT, SMTT(30) DEF Waits
  <2>3. /\ \A x \in t.value_kept : q[x] = "recv"
        /\ \A x \in t.slot_kept : q[x] = "space"
    BY <1>0, <1>2, <1>3, SMT, SMTT(30) DEF Waits, Fit
  <2>4. \A w : InQueue(t.receivers, w) => \/ w \in Coroutines /\ q[w] = "recv"
                                          \/ w \in Futures /\ t.future[w] # "unused"
    BY <1>0, <1>2, <1>3, <1>4, SMT, SMTT(30) DEF Waits
  <2> QED BY <1>0, <1>2, <1>4, <2>1, <2>2, <2>3, <2>4, ZenonT(30) DEF Waits
<1>7. V(t, 0)
  <2>1. s.reserved_receivers + 0 = s.reserved_receivers
    BY <1>0, FitType, SMT, SMTT(30)
  <2> QED BY <1>2, <2>1 DEF V
<1>8. S(t, 0) /\ CommitOK(t)
  <2>1. Unreserved(s, s.senders) = {} => Unreserved(t, t.senders) = {}
    BY <1>2, NoneUnreserved
  <2> QED BY <1>2, <2>1 DEF Inv, S, CommitOK
<1>10. Inv(t, q)
  BY <1>5, <1>6, <1>7, <1>8 DEF Inv, Sound
<1>11. Same(r, t)
  BY <1>1, <1>2, RefreshSame
<1> QED BY <1>10, <1>11, SameInv DEF r, q

\* close() keeps every promise and takes back only a value that is promised
\* to nobody.
LEMMA CloseInv ==
    ASSUME NEW s, NEW p, Inv(s, p), NEW reason PROVE Inv(channel_close(s, reason), p)
<1> DEFINE e == [s EXCEPT !.closed = TRUE, !.close_reason = reason, !.timer = "off"]
           w == channel_wake_all(e)
           r == RollBack(w)
<1>0. Rec(s) /\ Fit(s) /\ Waits(s, p) /\ CommitOK(s)
  BY DEF Inv, Sound, Fit
<1>1. CASE s.closed
  BY <1>1 DEF channel_close
<1>2. CASE ~s.closed
  <2>1. channel_close(s, reason) = r
    BY <1>2 DEF channel_close
  <2>2. /\ Rec(e) /\ e.buffer = s.buffer /\ e.committed = s.committed /\ e.closed = TRUE
        /\ e.value_kept = s.value_kept /\ e.slot_kept = s.slot_kept
        /\ e.delivering = s.delivering
        /\ e.reserved_receivers = s.reserved_receivers
        /\ e.reserved_senders = s.reserved_senders
    BY <1>0 DEF Rec, Fields
  <2> HIDE DEF e
  <2>3. /\ Rec(w) /\ w.buffer = e.buffer /\ w.committed = e.committed /\ w.closed = e.closed
        /\ w.value_kept = e.value_kept /\ w.slot_kept = e.slot_kept
        /\ w.delivering = e.delivering
        /\ w.reserved_receivers = e.reserved_receivers
        /\ w.reserved_senders = e.reserved_senders
        /\ w.senders = <<>> /\ DOMAIN w.future = Futures
    BY <2>2 DEF channel_wake_all, Rec, Fields
  <2> HIDE DEF w
  <2>4. Fit(w)
    BY <1>0, <2>2, <2>3 DEF Fit
  <2>5. Distinct(w.senders, Coroutines) /\ \A c : ~InQueue(w.senders, c)
    BY <2>3, SMT, SMTT(30) DEF Distinct, InQueue
  <2>6. Waits(w, p)
    BY <1>0, <2>2, <2>3, <2>5, SMT, SMTT(30) DEF Waits
  <2>7. CommitOK(w)
    BY <1>0, <2>2, <2>3 DEF CommitOK
  <2>8. Sound(r, p) /\ CommitOK(r) /\ r.closed
    BY <2>2, <2>3, <2>4, <2>6, <2>7, RollBackSound DEF Sound
  <2> HIDE DEF r
  <2>9. V(r, 0) /\ S(r, 0)
    BY <2>8 DEF V, S
  <2> QED BY <2>1, <2>8, <2>9 DEF Inv
<1> QED BY <1>1, <1>2

\* A future that is not waiting may change to anything but unused.
LEMMA FutureSet ==
    ASSUME NEW s, NEW p, Inv(s, p), NEW f \in Futures, NEW x, x # "unused"
    PROVE  Inv([s EXCEPT !.future[f] = x], p)
<1> DEFINE r == [s EXCEPT !.future[f] = x]
<1>0. Rec(s) /\ Fit(s) /\ Waits(s, p)
  BY DEF Inv, Sound, Fit
<1>1. /\ Rec(r) /\ r.buffer = s.buffer /\ r.committed = s.committed /\ r.closed = s.closed
      /\ r.receivers = s.receivers /\ r.senders = s.senders
      /\ r.value_kept = s.value_kept /\ r.slot_kept = s.slot_kept
      /\ r.delivering = s.delivering /\ r.future = [s.future EXCEPT ![f] = x]
      /\ r.reserved_receivers = s.reserved_receivers
      /\ r.reserved_senders = s.reserved_senders
  BY <1>0 DEF Rec, Fields
<1> HIDE DEF r
<1>2. /\ DOMAIN r.future = Futures
      /\ \A g \in Futures : s.future[g] # "unused" => r.future[g] # "unused"
  BY <1>0, <1>1 DEF Waits
<1>3. Fit(r)
  BY <1>0, <1>1 DEF Fit
<1>4. Waits(r, p)
  BY <1>0, <1>1, <1>2 DEF Waits
<1>5. \A queue : Unreserved(r, queue) = Unreserved(s, queue)
  BY <1>1 DEF Unreserved
<1>6. V(r, 0) /\ S(r, 0) /\ CommitOK(r)
  BY <1>1, <1>5, SMT, SMTT(30) DEF Inv, V, S, CommitOK
<1> QED BY <1>3, <1>4, <1>6 DEF Inv, Sound, r

\* recvAsync() on an open channel with no free value queues the future.
LEMMA FutureParks ==
    ASSUME NEW s, NEW p, Inv(s, p), NEW f \in Futures, s.future[f] = "unused",
           ~s.closed, ~(Len(s.buffer) > s.reserved_receivers)
    PROVE  Inv([s EXCEPT !.future[f] = "pending", !.receivers = Append(@, f)], p)
<1> DEFINE r == [s EXCEPT !.future[f] = "pending", !.receivers = Append(@, f)]
<1>0. Rec(s) /\ Fit(s) /\ Waits(s, p) /\ f \notin Coroutines
  BY ChannelAssumption DEF Inv, Sound, Fit
<1>1. /\ Rec(r) /\ r.buffer = s.buffer /\ r.committed = s.committed /\ r.closed = s.closed
      /\ r.receivers = Append(s.receivers, f) /\ r.senders = s.senders
      /\ r.value_kept = s.value_kept /\ r.slot_kept = s.slot_kept
      /\ r.delivering = s.delivering /\ r.future = [s.future EXCEPT ![f] = "pending"]
      /\ r.reserved_receivers = s.reserved_receivers
      /\ r.reserved_senders = s.reserved_senders
  BY <1>0 DEF Rec, Fields
<1> HIDE DEF r
<1>2. /\ DOMAIN r.future = Futures /\ r.future[f] # "unused"
      /\ \A g \in Futures : s.future[g] # "unused" => r.future[g] # "unused"
  BY <1>0, <1>1 DEF Waits
<1>3. /\ Distinct(r.receivers, Waiters)
      /\ \A x : InQueue(r.receivers, x) => InQueue(s.receivers, x) \/ x = f
  <2> DEFINE queue == s.receivers
  <2>1. Distinct(queue, Waiters) /\ ~InQueue(queue, f) /\ f \in Waiters
    BY <1>0 DEF Waits, Waiters
  <2> HIDE DEF queue
  <2>2. /\ Distinct(Append(queue, f), Waiters)
        /\ \A x : InQueue(Append(queue, f), x) => InQueue(queue, x) \/ x = f
    BY <2>1, AppendDistinct
  <2>3. r.receivers = Append(queue, f)
    BY <1>1 DEF queue
  <2> QED BY <2>2, <2>3, ZenonT(30) DEF queue
<1>4. Fit(r)
  BY <1>0, <1>1 DEF Fit
<1>5. Waits(r, p)
  BY <1>0, <1>1, <1>2, <1>3, ZenonT(30) DEF Waits
<1>6. V(r, 0)
  <2>1. s.reserved_receivers + 0 = s.reserved_receivers
    BY <1>0, FitType, SMT, SMTT(30)
  <2> QED BY <1>1, <2>1 DEF V
<1>7. S(r, 0) /\ CommitOK(r)
  <2>1. Unreserved(r, r.senders) = Unreserved(s, s.senders)
    BY <1>1 DEF Unreserved
  <2> QED BY <1>1, <2>1 DEF Inv, S, CommitOK
<1> QED BY <1>4, <1>5, <1>6, <1>7 DEF Inv, Sound, r

\* A future that is dropped leaves the queue.
LEMMA FutureDrops ==
    ASSUME NEW s, NEW p, Inv(s, p), NEW f \in Futures
    PROVE  Inv([s EXCEPT !.future[f] = "dropped",
                         !.receivers = channel_queue_remove(@, f)], p)
<1> DEFINE r == [s EXCEPT !.future[f] = "dropped",
                          !.receivers = channel_queue_remove(@, f)]
<1>0. Rec(s) /\ Fit(s) /\ Waits(s, p)
  BY DEF Inv, Sound, Fit
<1>1. /\ Rec(r) /\ r.buffer = s.buffer /\ r.committed = s.committed /\ r.closed = s.closed
      /\ r.receivers = channel_queue_remove(s.receivers, f) /\ r.senders = s.senders
      /\ r.value_kept = s.value_kept /\ r.slot_kept = s.slot_kept
      /\ r.delivering = s.delivering /\ r.future = [s.future EXCEPT ![f] = "dropped"]
      /\ r.reserved_receivers = s.reserved_receivers
      /\ r.reserved_senders = s.reserved_senders
  BY <1>0 DEF Rec, Fields
<1> HIDE DEF r
<1>2. /\ DOMAIN r.future = Futures
      /\ \A g \in Futures : s.future[g] # "unused" => r.future[g] # "unused"
  BY <1>0, <1>1 DEF Waits
<1>3. ~s.closed => /\ Distinct(r.receivers, Waiters)
                   /\ \A x : InQueue(r.receivers, x) => InQueue(s.receivers, x)
  <2>1. ~s.closed => Distinct(s.receivers, Waiters)
    BY <1>0 DEF Waits
  <2>2. ASSUME Distinct(s.receivers, Waiters)
        PROVE  /\ Distinct(channel_queue_remove(s.receivers, f), Waiters)
               /\ \A x : InQueue(channel_queue_remove(s.receivers, f), x) => InQueue(s.receivers, x)
    BY <2>2, RemoveDistinct
  <2>3. r.receivers = channel_queue_remove(s.receivers, f)
    BY <1>1
  <2> QED BY <2>1, <2>2, <2>3
<1>4. Fit(r)
  BY <1>0, <1>1 DEF Fit
<1>5. Waits(r, p)
  BY <1>0, <1>1, <1>2, <1>3 DEF Waits
<1>6. ~s.closed /\ Unreserved(s, s.receivers) = {} => Unreserved(r, r.receivers) = {}
  BY <1>1, <1>3, NoneUnreserved, ZenonT(30)
<1>7. Unreserved(r, r.senders) = Unreserved(s, s.senders)
  BY <1>1 DEF Unreserved
<1>8. V(r, 0) /\ S(r, 0) /\ CommitOK(r)
  BY <1>1, <1>6, <1>7 DEF Inv, V, S, CommitOK
<1> QED BY <1>4, <1>5, <1>8 DEF Inv, Sound, r

\* Every way out of send()'s retry loop.
LEMMA SendOutcomes ==
    ASSUME NEW s, NEW p, NEW c \in Coroutines, NEW v \in Messages, NEW has \in BOOLEAN,
           DOMAIN p = Coroutines, p[c] = "run",
           Sound(s, p), V(s, 0), CommitOK(s),
           ~has => S(s, 0),
           has => S(s, 1) /\ Room - Len(s.buffer) > s.reserved_senders
    PROVE  LET put == put_value(s, v)
               woken == channel_wake_receiver(put)
               admitted == ~s.closed /\ (has \/ has_free_slot(s))
           IN  /\ ~admitted => Inv(s, p)
               /\ admitted /\ is_buffered => Inv(woken, p)
               /\ admitted => Inv([woken EXCEPT !.committed = woken.buffer # <<>>], p)
               /\ admitted /\ ~WakesReceiver(put) =>
                      Inv(put, p) /\ Inv(ParkSender(put, c, TRUE), [p EXCEPT ![c] = "delivery"])
               /\ ~s.closed /\ ~admitted =>
                      Inv(ParkSender(s, c, FALSE), [p EXCEPT ![c] = "space"])
<1> DEFINE put == put_value(s, v)
           woken == channel_wake_receiver(put)
           admitted == ~s.closed /\ (has \/ has_free_slot(s))
<1>1. S(s, 1)
  BY Weaken DEF Sound
<1>2. has_free_slot(s) <=> Room - Len(s.buffer) > s.reserved_senders
  BY DEF has_free_slot, free_space
<1>3. ~admitted => Inv(s, p)
  <2>1. s.closed => S(s, 0)
    BY DEF S
  <2> QED BY <2>1 DEF Inv
<1>4. ~s.closed /\ ~admitted => Inv(ParkSender(s, c, FALSE), [p EXCEPT ![c] = "space"])
  BY <1>2, <1>3, SenderParks
<1>5. admitted => /\ is_buffered => Inv(woken, p)
                  /\ Inv([woken EXCEPT !.committed = woken.buffer # <<>>], p)
                  /\ ~WakesReceiver(put) => Inv(put, p)
  BY <1>1, <1>2, SendDelivers
<1> HIDE DEF put
<1>6. admitted /\ ~WakesReceiver(put) =>
          Inv(ParkSender(put, c, TRUE), [p EXCEPT ![c] = "delivery"])
  BY <1>5, SenderParks
<1> QED BY <1>3, <1>4, <1>5, <1>6 DEF put

\* Every way out of recv()'s retry loop.
LEMMA RecvOutcomes ==
    ASSUME NEW s, NEW p, NEW c \in Coroutines, NEW has \in BOOLEAN,
           DOMAIN p = Coroutines, p[c] = "run",
           Sound(s, p), S(s, 0), CommitOK(s),
           ~has => V(s, 0),
           has => V(s, 1) /\ Len(s.buffer) > s.reserved_receivers
    PROVE  LET admitted == has \/ has_free_value(s)
           IN  /\ admitted => Inv(channel_wake_sender(take_value(s)), p)
               /\ ~admitted => Inv(s, p)
               /\ ~admitted /\ ~s.closed => Inv(ParkReceiver(s, c), [p EXCEPT ![c] = "recv"])
<1> DEFINE admitted == has \/ has_free_value(s)
<1>1. V(s, 1)
  BY Weaken DEF Sound
<1>2. has_free_value(s) <=> Len(s.buffer) > s.reserved_receivers
  BY DEF has_free_value, Holds
<1>3. ~admitted => Inv(s, p)
  BY DEF Inv
<1>4. ~admitted /\ ~s.closed => Inv(ParkReceiver(s, c), [p EXCEPT ![c] = "recv"])
  BY <1>2, <1>3, ReceiverParks, ZenonT(30)
<1>5. admitted => Inv(channel_wake_sender(take_value(s)), p)
  BY <1>1, <1>2, RecvTakes
<1> QED BY <1>3, <1>4, <1>5

-----------------------------------------------------------------------
(* The induction.                                                         *)

Places == {"run", "recv", "space", "delivery"}

ChannelInv ==
    /\ pc \in [Coroutines -> Places]
    /\ DOMAIN value = Coroutines
    /\ \A c \in Coroutines : pc[c] = "space" => value[c] \in Messages
    /\ Inv(ch, pc)

\* An empty channel has promised nothing.
LEMMA ChannelInit == Init => ChannelInv
<1> SUFFICES ASSUME Init PROVE ChannelInv
  OBVIOUS
<1>1. /\ pc \in [Coroutines -> Places] /\ DOMAIN value = Coroutines
      /\ \A c \in Coroutines : pc[c] = "run"
  BY DEF Init, Places
<1>2. /\ Rec(ch) /\ ch.buffer = <<>> /\ ch.receivers = <<>> /\ ch.senders = <<>>
      /\ ch.value_kept = {} /\ ch.slot_kept = {} /\ ch.delivering = {}
      /\ ch.reserved_receivers = 0 /\ ch.reserved_senders = 0
      /\ ch.closed = FALSE /\ ch.future = [f \in Futures |-> "unused"]
  BY DEF Init, Rec, Fields
<1>3. Room \in Nat
  BY ChannelAssumption DEF Room, is_buffered
<1>4. Fit(ch)
  <2>1. Len(ch.buffer) = 0 /\ ch.buffer \in Seq(Messages)
    BY <1>2, SMT, SMTT(30)
  <2>2. Cardinality({}) = 0
    BY FS_EmptySet
  <2>3. /\ Len(ch.buffer) <= Room /\ ch.reserved_receivers <= Len(ch.buffer)
        /\ ch.reserved_senders <= Room - Len(ch.buffer)
    BY <1>2, <1>3, <2>1, SMT, SMTT(30)
  <2> QED BY <1>2, <2>1, <2>2, <2>3, ZenonT(30) DEF Fit
<1>5. Waits(ch, pc)
  BY <1>1, <1>2, SMT, SMTT(30) DEF Waits, Distinct, InQueue
<1>6. V(ch, 0) /\ S(ch, 0) /\ CommitOK(ch)
  BY <1>2, SMT, SMTT(30) DEF V, S, CommitOK, Unreserved
<1> QED BY <1>1, <1>4, <1>5, <1>6 DEF ChannelInv, Inv, Sound

\* A step that leaves the coroutines where they are.
LEMMA StayInPlace ==
    ASSUME ChannelInv, pc' = pc, value' = value, Inv(ch', pc) PROVE ChannelInv'
BY DEF ChannelInv

\* A step that brings coroutine c back to its caller.
LEMMA StepReturns ==
    ASSUME ChannelInv, NEW c \in Coroutines, Return(c), Inv(ch', [pc EXCEPT ![c] = "run"])
    PROVE  ChannelInv'
<1>1. pc' \in [Coroutines -> Places]
  BY DEF ChannelInv, Return, Places
<1>2. DOMAIN value' = Coroutines /\ \A x \in Coroutines : pc'[x] = "space" => value'[x] \in Messages
  BY DEF ChannelInv, Return
<1>3. Inv(ch', pc')
  BY DEF Return
<1> QED BY <1>1, <1>2, <1>3 DEF ChannelInv

\* A step that suspends coroutine c.
LEMMA StepParks ==
    ASSUME ChannelInv, NEW c \in Coroutines, NEW where \in Places, NEW v, NEW t,
           Park(c, where, v, t), where = "space" => v \in Messages,
           Inv(ch', [pc EXCEPT ![c] = where])
    PROVE  ChannelInv'
<1>1. pc' \in [Coroutines -> Places]
  BY DEF ChannelInv, Park
<1>2. DOMAIN value' = Coroutines /\ \A x \in Coroutines : pc'[x] = "space" => value'[x] \in Messages
  BY DEF ChannelInv, Park
<1>3. Inv(ch', pc')
  BY DEF Park
<1> QED BY <1>1, <1>2, <1>3 DEF ChannelInv

\* send() runs from its retry label with the record s and the promise has.
LEMMA SendStep ==
    ASSUME ChannelInv, NEW c \in Coroutines, NEW s, NEW v \in Messages, NEW t,
           NEW has \in BOOLEAN, NEW p, p = [pc EXCEPT ![c] = "run"],
           Sound(s, p), V(s, 0), CommitOK(s),
           ~has => S(s, 0),
           has => S(s, 1) /\ Room - Len(s.buffer) > s.reserved_senders,
           SendFrom(s, c, v, t, has)
    PROVE  ChannelInv'
<1> DEFINE put == put_value(s, v)
           woken == channel_wake_receiver(put)
           admitted == ~s.closed /\ (has \/ has_free_slot(s))
<1>0. /\ DOMAIN p = Coroutines /\ p[c] = "run"
      /\ \A where : [p EXCEPT ![c] = where] = [pc EXCEPT ![c] = where]
  BY DEF ChannelInv
<1>9. /\ ~admitted => Inv(s, p)
      /\ admitted /\ is_buffered => Inv(woken, p)
      /\ admitted => Inv([woken EXCEPT !.committed = woken.buffer # <<>>], p)
      /\ admitted /\ ~WakesReceiver(put) =>
             Inv(put, p) /\ Inv(ParkSender(put, c, TRUE), [p EXCEPT ![c] = "delivery"])
      /\ ~s.closed /\ ~admitted =>
             Inv(ParkSender(s, c, FALSE), [p EXCEPT ![c] = "space"])
  BY <1>0, SendOutcomes, SMT, SMTT(30)
<1>1. /\ ~admitted => Inv(s, p)
      /\ admitted /\ is_buffered => Inv(woken, p)
      /\ admitted => Inv([woken EXCEPT !.committed = woken.buffer # <<>>], p)
      /\ admitted /\ ~WakesReceiver(put) =>
             Inv(put, p) /\ Inv(ParkSender(put, c, TRUE), [pc EXCEPT ![c] = "delivery"])
      /\ ~s.closed /\ ~admitted =>
             Inv(ParkSender(s, c, FALSE), [pc EXCEPT ![c] = "space"])
  <2>1. /\ [p EXCEPT ![c] = "delivery"] = [pc EXCEPT ![c] = "delivery"]
        /\ [p EXCEPT ![c] = "space"] = [pc EXCEPT ![c] = "space"]
    BY <1>0
  <2> QED BY <1>9, <2>1
<1>2. \/ Return(c) /\ Inv(ch', p)
      \/ Park(c, "delivery", v, t) /\ Inv(ch', [pc EXCEPT ![c] = "delivery"])
      \/ Park(c, "space", v, t) /\ Inv(ch', [pc EXCEPT ![c] = "space"])
  <2> HIDE DEF put, woken, admitted
  <2> USE <1>1
  <2>1. CASE s.closed \/ (~admitted /\ t = "fired")
    <3>1. ~admitted
      BY <2>1 DEF admitted
    <3> QED BY <2>1, <3>1 DEF SendFrom, put, woken, admitted
  <2>2. CASE ~(s.closed \/ (~admitted /\ t = "fired"))
    BY <2>2 DEF SendFrom, put, woken, admitted
  <2> QED BY <2>1, <2>2
<1>3. CASE Return(c) /\ Inv(ch', p)
  BY <1>3, StepReturns
<1>4. CASE Park(c, "delivery", v, t) /\ Inv(ch', [pc EXCEPT ![c] = "delivery"])
  BY <1>4, StepParks DEF Places
<1>5. CASE Park(c, "space", v, t) /\ Inv(ch', [pc EXCEPT ![c] = "space"])
  BY <1>5, StepParks DEF Places
<1> QED BY <1>2, <1>3, <1>4, <1>5

\* recv() runs from its retry label with the record s and the promise has.
LEMMA RecvStep ==
    ASSUME ChannelInv, NEW c \in Coroutines, NEW s, NEW t,
           NEW has \in BOOLEAN, NEW p, p = [pc EXCEPT ![c] = "run"],
           Sound(s, p), S(s, 0), CommitOK(s),
           ~has => V(s, 0),
           has => V(s, 1) /\ Len(s.buffer) > s.reserved_receivers,
           RecvFrom(s, c, t, has)
    PROVE  ChannelInv'
<1> DEFINE admitted == has \/ has_free_value(s)
<1>0. /\ DOMAIN p = Coroutines /\ p[c] = "run"
      /\ \A where : [p EXCEPT ![c] = where] = [pc EXCEPT ![c] = where]
  BY DEF ChannelInv
<1>1. /\ admitted => Inv(channel_wake_sender(take_value(s)), p)
      /\ ~admitted => Inv(s, p)
      /\ ~admitted /\ ~s.closed => Inv(ParkReceiver(s, c), [pc EXCEPT ![c] = "recv"])
  BY <1>0, RecvOutcomes
<1>2. \/ Return(c) /\ Inv(ch', p)
      \/ Park(c, "recv", NoMessage, t) /\ Inv(ch', [pc EXCEPT ![c] = "recv"])
  BY <1>1 DEF RecvFrom
<1>3. CASE Return(c) /\ Inv(ch', p)
  BY <1>3, StepReturns
<1>4. CASE Park(c, "recv", NoMessage, t) /\ Inv(ch', [pc EXCEPT ![c] = "recv"])
  BY <1>4, StepParks DEF Places
<1> QED BY <1>2, <1>3, <1>4

\* Every step keeps the promises.
LEMMA ChannelStep == ChannelInv /\ [Next]_vars => ChannelInv'
<1> SUFFICES ASSUME ChannelInv, [Next]_vars PROVE ChannelInv'
  OBVIOUS
<1>0. /\ Inv(ch, pc) /\ pc \in [Coroutines -> Places] /\ DOMAIN pc = Coroutines
      /\ Rec(ch) /\ Sound(ch, pc) /\ V(ch, 0) /\ S(ch, 0) /\ CommitOK(ch)
  BY DEF ChannelInv, Inv, Sound, Fit
<1>1. ASSUME NEW c \in Coroutines, NEW t \in TokenChoice, send(c, t) PROVE ChannelInv'
  <2>1. pc = [pc EXCEPT ![c] = "run"]
    BY <1>0, <1>1 DEF send
  <2>2. PICK v \in Messages : SendFrom(ch, c, v, t, FALSE)
    BY <1>1 DEF send
  <2> QED BY <1>0, <2>1, <2>2, SendStep
<1>2. ASSUME NEW c \in Coroutines, NEW t \in TokenChoice, recv(c, t) PROVE ChannelInv'
  <2>1. pc = [pc EXCEPT ![c] = "run"]
    BY <1>0, <1>2 DEF recv
  <2>2. RecvFrom(ch, c, t, FALSE)
    BY <1>2 DEF recv
  <2> QED BY <1>0, <2>1, <2>2, RecvStep
<1>3. ASSUME NEW c \in Coroutines, resume_receiver(c) PROVE ChannelInv'
  <2> DEFINE s == ReceiverWoken(ch, c)
             p == [pc EXCEPT ![c] = "run"]
             has == c \in ch.value_kept
  <2>1. pc[c] = "recv"
    BY <1>3 DEF resume_receiver
  <2>2. /\ Sound(s, p) /\ S(s, 0) /\ CommitOK(s)
        /\ ~(has /\ ch.error[c] = "none") => V(s, 0)
        /\ has /\ ch.error[c] = "none" => V(s, 1) /\ Len(s.buffer) > s.reserved_receivers
    BY <1>0, <2>1, ReceiverLeaves
  <2>3. CASE ch.error[c] # "none"
    <3>1. Return(c) /\ ch' = [s EXCEPT !.error[c] = "none"]
      BY <1>3, <2>3 DEF resume_receiver
    <3> HIDE DEF s
    <3>2. Inv(s, p) /\ Rec(s)
      BY <2>2, <2>3 DEF Inv, Sound, Fit
    <3>3. Same([s EXCEPT !.error[c] = "none"], s)
      BY <3>2 DEF Same, Rec, Fields
    <3> QED BY <3>1, <3>2, <3>3, SameInv, StepReturns
  <2>4. CASE ch.error[c] = "none"
    <3>1. RecvFrom(s, c, token[c], has)
      BY <1>3, <2>4 DEF resume_receiver
    <3>2. has \in BOOLEAN
      BY SMT, SMTT(30)
    <3> HIDE DEF s, has, p
    <3>3. p = [pc EXCEPT ![c] = "run"]
      BY DEF p
    <3> QED BY <2>2, <2>4, <3>1, <3>2, <3>3, RecvStep
  <2> QED BY <2>3, <2>4
<1>4. ASSUME NEW c \in Coroutines, resume_sender(c) PROVE ChannelInv'
  <2> DEFINE s == SenderWoken(ch, c)
             p == [pc EXCEPT ![c] = "run"]
             has == c \in ch.slot_kept
  <2>1. pc[c] \in {"space", "delivery"}
    BY <1>4 DEF resume_sender
  <2>2. /\ Sound(s, p) /\ V(s, 0) /\ CommitOK(s)
        /\ ~(has /\ ch.error[c] = "none") => S(s, 0)
        /\ has /\ ch.error[c] = "none" => S(s, 1) /\ Room - Len(s.buffer) > s.reserved_senders
    BY <1>0, <2>1, SenderLeaves
  <2>3. CASE ch.error[c] # "none"
    <3>1. Return(c) /\ ch' = [s EXCEPT !.error[c] = "none"]
      BY <1>4, <2>3 DEF resume_sender
    <3> HIDE DEF s
    <3>2. Inv(s, p) /\ Rec(s)
      BY <2>2, <2>3 DEF Inv, Sound, Fit
    <3>3. Same([s EXCEPT !.error[c] = "none"], s)
      BY <3>2 DEF Same, Rec, Fields
    <3> QED BY <3>1, <3>2, <3>3, SameInv, StepReturns
  <2>4. CASE ch.error[c] = "none" /\ pc[c] = "delivery"
    <3>1. Return(c) /\ ch' = s
      BY <1>4, <2>4 DEF resume_sender
    <3>2. ~has
      BY <1>0, <2>4 DEF Sound, Waits
    <3> HIDE DEF s
    <3>3. Inv(ch', p)
      BY <2>2, <3>1, <3>2 DEF Inv
    <3> QED BY <3>1, <3>3, StepReturns
  <2>5. CASE ch.error[c] = "none" /\ pc[c] = "space"
    <3>1. SendFrom(s, c, value[c], token[c], has) /\ value[c] \in Messages
      BY <1>4, <2>5 DEF resume_sender, ChannelInv
    <3>2. has \in BOOLEAN
      BY SMT, SMTT(30)
    <3> HIDE DEF s, has, p
    <3>3. p = [pc EXCEPT ![c] = "run"]
      BY DEF p
    <3> QED BY <2>2, <2>5, <3>1, <3>2, <3>3, SendStep
  <2> QED BY <2>1, <2>3, <2>4, <2>5
<1>5. ASSUME NEW c \in Coroutines, cancel(c) PROVE ChannelInv'
  <2>1. Same(ch', ch)
    BY <1>0, <1>5 DEF cancel, Same, Rec, Fields
  <2> QED BY <1>0, <1>5, <2>1, SameInv, StayInPlace DEF cancel
<1>6. ASSUME NEW c \in Coroutines, token_fires(c) PROVE ChannelInv'
  <2>1. Same(ch, ch)
    BY <1>0 DEF Same
  <2>2. Same(ch', ch)
    BY <1>0, <1>6, <2>1, ResumedSame DEF token_fires
  <2> QED BY <1>0, <1>6, <2>2, SameInv, StayInPlace DEF token_fires
<1>7. ASSUME sendAsync PROVE ChannelInv'
  <2>1. PICK v \in Messages : LET put == put_value(ch, v)
                                  woken == channel_wake_receiver(put)
                              IN  ch' = [woken EXCEPT !.committed =
                                     ~is_buffered /\ WakesReceiver(put) /\ woken.buffer # <<>>]
    BY <1>7 DEF sendAsync
  <2>2. ~ch.closed /\ Room - Len(ch.buffer) > ch.reserved_senders /\ S(ch, 1)
    BY <1>0, <1>7, Weaken DEF sendAsync, has_free_slot, free_space, Sound
  <2>3. Inv(ch', pc)
    BY <1>0, <2>1, <2>2, SendDelivers
  <2> QED BY <1>7, <2>3, StayInPlace DEF sendAsync
<1>8. ASSUME NEW f \in Futures, recvAsync(f) PROVE ChannelInv'
  <2>0. ch.future[f] = "unused" /\ (has_free_value(ch) <=> Len(ch.buffer) > ch.reserved_receivers)
    BY <1>8 DEF recvAsync, has_free_value, Holds
  <2>1. CASE has_free_value(ch)
    <3> DEFINE r == channel_wake_sender(take_value(ch))
    <3>1. ch' = [r EXCEPT !.future[f] = "resolved"]
      BY <1>8, <2>1 DEF recvAsync
    <3>2. Inv(r, pc)
      BY <1>0, <2>0, <2>1, RecvTakes, Weaken DEF Sound
    <3> HIDE DEF r
    <3>3. Inv(ch', pc)
      BY <3>1, <3>2, FutureSet
    <3> QED BY <1>8, <3>3, StayInPlace DEF recvAsync
  <2>2. CASE ~has_free_value(ch) /\ ch.closed
    <3>1. ch' = [ch EXCEPT !.future[f] = "rejected"]
      BY <1>8, <2>2 DEF recvAsync
    <3>2. Inv(ch, pc)
      BY <1>0
    <3>3. Inv([ch EXCEPT !.future[f] = "rejected"], pc)
      BY <3>2, FutureSet
    <3>4. Inv(ch', pc)
      BY <3>1, <3>3
    <3> QED BY <1>8, <3>4, StayInPlace DEF recvAsync
  <2>3. CASE ~has_free_value(ch) /\ ~ch.closed
    <3>1. ch' = [ch EXCEPT !.future[f] = "pending", !.receivers = Append(@, f)]
      BY <1>8, <2>3 DEF recvAsync
    <3>2. Inv(ch, pc)
      BY <1>0
    <3>3. Inv([ch EXCEPT !.future[f] = "pending", !.receivers = Append(@, f)], pc)
      BY <2>0, <2>3, <3>2, FutureParks
    <3>4. Inv(ch', pc)
      BY <3>1, <3>3
    <3> QED BY <1>8, <3>4, StayInPlace DEF recvAsync
  <2> QED BY <2>1, <2>2, <2>3
<1>9. ASSUME NEW f \in Futures, channel_recv_future_dispose(f) PROVE ChannelInv'
  <2>1. Inv(ch', pc)
    BY <1>0, <1>9, FutureDrops DEF channel_recv_future_dispose
  <2> QED BY <1>9, <2>1, StayInPlace DEF channel_recv_future_dispose
<1>10. ASSUME NEW reason, close(reason) PROVE ChannelInv'
  <2>1. Inv(ch', pc)
    BY <1>0, <1>10, CloseInv DEF close
  <2> QED BY <1>10, <2>1, StayInPlace DEF close
<1>11. CASE UNCHANGED vars
  BY <1>0, <1>11, StayInPlace DEF vars
<1>12. CASE Next
  BY <1>1, <1>2, <1>3, <1>4, <1>5, <1>6, <1>7, <1>8, <1>9, <1>10, <1>12
     DEF Next, channel_deadlock_fire, async_channel_resolve_deadlocks
<1> QED BY <1>11, <1>12

-----------------------------------------------------------------------
(* The theorems.                                                          *)

\* The inductive invariant holds in every reachable state.
LEMMA ChannelInvariant == Spec => []ChannelInv
BY ChannelInit, ChannelStep, PTL DEF Spec

\* channel.h: "reserved_receivers <= count, reserved_senders <= free space".
\* The value or the slot promised to a woken coroutine is there when it runs,
\* on every channel and after any interleaving of sends, receives,
\* cancellations, tokens, timeouts and close().
THEOREM PromisesFit == Spec => []ReservationsFit
<1>1. ChannelInv => ReservationsFit
  BY DEF ChannelInv, Inv, Sound, Fit, ReservationsFit, Holds, free_space
<1> QED BY <1>1, ChannelInvariant, PTL

\* The counters count the waiters that hold a promise: the assertions of
\* channel_wait_for never fail.
THEOREM PromisesCounted == Spec => []ReservationsCounted
<1>1. ChannelInv => ReservationsCounted
  BY DEF ChannelInv, Inv, Sound, Fit, ReservationsCounted
<1> QED BY <1>1, ChannelInvariant, PTL

\* No wakeup is lost: on an open channel nobody waits, with nothing promised,
\* beside a value or a slot that is free.
THEOREM NoLostWakeup == Spec => []NobodyWaitsBesideAPlace
<1>1. ChannelInv => NobodyWaitsBesideAPlace
  <2> SUFFICES ASSUME ChannelInv PROVE NobodyWaitsBesideAPlace
    OBVIOUS
  <2>1. Fit(ch) /\ V(ch, 0) /\ S(ch, 0)
    BY DEF ChannelInv, Inv, Sound
  <2>2. ch.reserved_receivers + 0 = ch.reserved_receivers /\
        ch.reserved_senders + 0 = ch.reserved_senders
    BY <2>1, FitType, SMT, SMTT(30)
  <2> QED BY <2>1, <2>2
      DEF V, S, NobodyWaitsBesideAPlace, has_free_value, has_free_slot, Holds, free_space
<1> QED BY <1>1, ChannelInvariant, PTL

-----------------------------------------------------------------------
(* What senders hold and what they were told.                             *)

Sending(p, c) == p[c] \in {"space", "delivery"}

\* A sender that waits has a message of its own, of which nothing was said.
Senders(p, val, t) ==
    /\ \A c \in Coroutines : Sending(p, c) => val[c] \in Messages /\ t[val[c]] = "pending"
    /\ \A c, d \in Coroutines : Sending(p, c) /\ Sending(p, d) /\ val[c] = val[d] => c = d

\* The messages are numbered in the order of their sends.
Numbered(t) ==
    /\ DOMAIN t = Messages
    /\ \E k \in 0..MaxSends : \A v \in Messages : t[v] = "unsent" <=> v > k

\* A message that is about to be sent.
Open(t, v) ==
    \/ t[v] = "pending"
    \/ t[v] = "unsent" /\ \A w \in Messages : w < v => t[w] # "unsent"

\* Its sender may be told anything.
LEMMA Renumber ==
    ASSUME NEW t, Numbered(t), NEW v \in Messages, Open(t, v), NEW what, what # "unsent"
    PROVE  Numbered([t EXCEPT ![v] = what])
<1> DEFINE u == [t EXCEPT ![v] = what]
<1>1. PICK k \in 0..MaxSends : \A w \in Messages : t[w] = "unsent" <=> w > k
  BY DEF Numbered
<1>2. DOMAIN t = Messages /\ MaxSends \in Nat
  BY ChannelAssumption DEF Numbered
<1>3. DOMAIN u = Messages /\ \A w \in Messages : u[w] = IF w = v THEN what ELSE t[w]
  BY <1>2
<1> HIDE DEF u
<1>4. CASE t[v] = "pending"
  <2>1. \A w \in Messages : u[w] = "unsent" <=> w > k
    BY <1>1, <1>3, <1>4
  <2> QED BY <1>3, <2>1 DEF Numbered, u
<1>5. CASE t[v] = "unsent" /\ \A w \in Messages : w < v => t[w] # "unsent"
  <2>1. v = k + 1
    <3>1. v > k /\ v \in 1..MaxSends
      BY <1>1, <1>5 DEF Messages
    <3>2. k + 1 \in Messages
      BY <1>2, <3>1, SMT, SMTT(30) DEF Messages
    <3>3. ~(k + 1 < v)
      BY <1>1, <1>5, <3>2, SMT, SMTT(30)
    <3> QED BY <3>1, <3>3, SMT, SMTT(30)
  <2>2. k + 1 \in 0..MaxSends
    BY <1>2, <2>1, SMT, SMTT(30) DEF Messages
  <2>3. \A w \in Messages : u[w] = "unsent" <=> w > k + 1
    BY <1>1, <1>3, <2>1, SMT, SMTT(30) DEF Messages
  <2> QED BY <1>3, <2>2, <2>3 DEF Numbered, u
<1> QED BY <1>4, <1>5 DEF Open

\* c has left its wait with its message v, or is new with it: nobody else has it.
LEMMA OneSender ==
    ASSUME NEW p, NEW val, NEW t, Senders(p, val, t), DOMAIN p = Coroutines,
           DOMAIN val = Coroutines, DOMAIN t = Messages,
           NEW c \in Coroutines, NEW v \in Messages,
           \A d \in Coroutines : Sending(p, d) => d = c \/ val[d] # v,
           NEW where, NEW x, where \in {"space", "delivery"} => x = v,
           NEW what, where \in {"space", "delivery"} => what = "pending"
    PROVE  Senders([p EXCEPT ![c] = where], [val EXCEPT ![c] = x], [t EXCEPT ![v] = what])
<1> DEFINE q == [p EXCEPT ![c] = where]
           y == [val EXCEPT ![c] = x]
           u == [t EXCEPT ![v] = what]
<1>1. \A d \in Coroutines : /\ q[d] = IF d = c THEN where ELSE p[d]
                            /\ y[d] = IF d = c THEN x ELSE val[d]
  OBVIOUS
<1>2. \A w \in Messages : u[w] = IF w = v THEN what ELSE t[w]
  OBVIOUS
<1> HIDE DEF q, y, u
<1>3. ASSUME NEW d \in Coroutines, Sending(q, d) PROVE y[d] \in Messages /\ u[y[d]] = "pending"
  BY <1>1, <1>2, <1>3, SMT, SMTT(30) DEF Senders, Sending
<1>4. ASSUME NEW d \in Coroutines, NEW e \in Coroutines, Sending(q, d), Sending(q, e), y[d] = y[e]
      PROVE  d = e
  BY <1>1, <1>4, SMT, SMTT(30) DEF Senders, Sending
<1> QED BY <1>3, <1>4 DEF Senders, q, y, u

\* The caller of send() leaves with an answer, or waits on.
LEMMA CallerTold ==
    ASSUME ChannelInv, Numbered(told), Senders(pc, value, told),
           NEW c \in Coroutines, NEW v \in Messages, Open(told, v),
           \A d \in Coroutines : Sending(pc, d) => d = c \/ value[d] # v,
           NEW where, NEW x, NEW what, what # "unsent",
           where \in {"space", "delivery"} => x = v /\ what = "pending",
           pc' = [pc EXCEPT ![c] = where], value' = [value EXCEPT ![c] = x],
           told' = [told EXCEPT ![v] = what]
    PROVE  Numbered(told') /\ Senders(pc', value', told')
<1>1. Numbered(told')
  BY Renumber
<1>2. DOMAIN pc = Coroutines /\ DOMAIN value = Coroutines /\ DOMAIN told = Messages
  BY DEF ChannelInv, Numbered
<1>3. Senders([pc EXCEPT ![c] = where], [value EXCEPT ![c] = x], [told EXCEPT ![v] = what])
  BY <1>2, OneSender
<1> QED BY <1>1, <1>3

\* Other callers change nothing for the senders.
LEMMA OthersMove ==
    ASSUME NEW p, NEW val, NEW t, Senders(p, val, t), DOMAIN p = Coroutines,
           DOMAIN val = Coroutines, NEW c \in Coroutines,
           NEW where, where \notin {"space", "delivery"}, NEW x
    PROVE  Senders([p EXCEPT ![c] = where], [val EXCEPT ![c] = x], t)
<1> DEFINE q == [p EXCEPT ![c] = where]
           y == [val EXCEPT ![c] = x]
<1>1. \A d \in Coroutines : Sending(q, d) => d # c /\ Sending(p, d) /\ y[d] = val[d]
  BY DEF Sending
<1> HIDE DEF q, y
<1> QED BY <1>1 DEF Senders, q, y

\* sendAsync() tells of its own message only.
LEMMA AsyncTold ==
    ASSUME Numbered(told), Senders(pc, value, told), NEW v \in Messages, Open(told, v),
           told[v] = "unsent", UNCHANGED <<pc, value>>, Tell(v, "async")
    PROVE  Numbered(told') /\ Senders(pc', value', told')
<1>1. Numbered(told')
  BY Renumber DEF Tell
<1>2. \A w \in Messages : told[w] = "pending" => told'[w] = "pending"
  BY DEF Tell, Numbered
<1> QED BY <1>1, <1>2 DEF Senders

\* The message of a new call is nobody else's.
LEMMA NextIsOwn ==
    ASSUME Numbered(told), Senders(pc, value, told), NextMessage \in Messages
    PROVE  /\ Open(told, NextMessage) /\ told[NextMessage] = "unsent"
           /\ \A d \in Coroutines : Sending(pc, d) => value[d] # NextMessage
<1> DEFINE v == NextMessage
<1>1. PICK k \in 0..MaxSends : \A w \in Messages : told[w] = "unsent" <=> w > k
  BY DEF Numbered
<1>2. {w \in Messages : told[w] # "unsent"} = 1..k
  BY <1>1, ChannelAssumption, SMT, SMTT(30) DEF Messages
<1>3. Cardinality(1..k) = k
  <2>1. Cardinality(1..k) = IF 1 > k THEN 0 ELSE k - 1 + 1
    BY <1>1, FS_Interval, SMT, SMTT(30)
  <2> QED BY <1>1, <2>1, SMT, SMTT(30)
<1>4. v = k + 1
  BY <1>2, <1>3 DEF NextMessage
<1> HIDE DEF v
<1>5. Open(told, v) /\ told[v] = "unsent"
  BY <1>1, <1>4, SMT, SMTT(30) DEF Open, Messages, v
<1> QED BY <1>5 DEF Senders, v

\* A coroutine that leaves a wait, or waits to receive, sends nothing.
LEMMA ReceiverTold ==
    ASSUME ChannelInv, Senders(pc, value, told), NEW c \in Coroutines, NEW tok,
           Return(c) \/ Park(c, "recv", NoMessage, tok)
    PROVE  Senders(pc', value', told)
<1>1. DOMAIN pc = Coroutines /\ DOMAIN value = Coroutines
  BY DEF ChannelInv
<1>2. CASE Return(c)
  <2>1. Senders([pc EXCEPT ![c] = "run"], [value EXCEPT ![c] = NoMessage], told)
    BY <1>1, OthersMove
  <2> QED BY <1>2, <2>1 DEF Return
<1>3. CASE Park(c, "recv", NoMessage, tok)
  <2>1. Senders([pc EXCEPT ![c] = "recv"], [value EXCEPT ![c] = NoMessage], told)
    BY <1>1, OthersMove
  <2> QED BY <1>3, <2>1 DEF Park
<1> QED BY <1>2, <1>3

\* What is in the slot, and in an empty one.
LEMMA InSlot ==
    /\ \A x : ~InQueue(<<>>, x)
    /\ \A m, x : InQueue(<<m>>, x) <=> x = m
BY SMT, SMTT(30) DEF InQueue

\* No message of an empty channel was sent.
LEMMA NothingSent == Init => Numbered(told) /\ Senders(pc, value, told)
<1> SUFFICES ASSUME Init PROVE Numbered(told) /\ Senders(pc, value, told)
  OBVIOUS
<1>1. Senders(pc, value, told)
  BY DEF Init, Senders, Sending
<1>2. Numbered(told)
  <2>1. DOMAIN told = Messages /\ \A v \in Messages : told[v] = "unsent" /\ v > 0
    BY SMT, SMTT(30) DEF Init, Messages
  <2>2. 0 \in 0..MaxSends
    BY ChannelAssumption, SMT, SMTT(30)
  <2> QED BY <2>1, <2>2 DEF Numbered
<1> QED BY <1>1, <1>2

\* Two queues joined hold what each of them holds.
LEMMA InJoined ==
    ASSUME NEW a \in Seq(Messages), NEW b \in Seq(Messages), NEW x
    PROVE  InQueue(a \o b, x) <=> InQueue(a, x) \/ InQueue(b, x)
<1> DEFINE r == a \o b
           m == Len(a)
           n == Len(b)
<1>1. m \in Nat /\ n \in Nat /\ DOMAIN a = 1..m /\ DOMAIN b = 1..n
  BY SMT, SMTT(30)
<1>2. /\ DOMAIN r = 1..m + n
      /\ \A i \in 1..m + n : r[i] = IF i <= m THEN a[i] ELSE b[i - m]
  BY <1>1, SMT, SMTT(30)
<1> HIDE DEF r, m, n
<1>3. ASSUME NEW i \in 1..m + n, r[i] = x PROVE InQueue(a, x) \/ InQueue(b, x)
  <2>1. CASE i <= m
    BY <1>1, <1>2, <1>3, <2>1, SMT, SMTT(30) DEF InQueue
  <2>2. CASE ~(i <= m)
    <3>1. i - m \in 1..n /\ b[i - m] = x
      BY <1>1, <1>2, <1>3, <2>2, SMT, SMTT(30)
    <3> QED BY <1>1, <3>1 DEF InQueue
  <2> QED BY <2>1, <2>2
<1>4. ASSUME NEW i \in 1..m, a[i] = x PROVE InQueue(r, x)
  <2>1. i \in 1..m + n /\ r[i] = x
    BY <1>1, <1>2, <1>4, SMT, SMTT(30)
  <2> QED BY <1>2, <2>1 DEF InQueue
<1>5. ASSUME NEW i \in 1..n, b[i] = x PROVE InQueue(r, x)
  <2>1. i + m \in 1..m + n /\ r[i + m] = x
    <3>1. i + m \in 1..m + n /\ ~(i + m <= m) /\ (i + m) - m = i
      BY <1>1, SMT, SMTT(30)
    <3> QED BY <1>2, <1>5, <3>1
  <2> QED BY <1>2, <2>1 DEF InQueue
<1> QED BY <1>1, <1>2, <1>3, <1>4, <1>5 DEF InQueue, r

-----------------------------------------------------------------------
(* Messages that stay and messages that move on.                          *)

\* r and s hold the same messages in the same places.
Still(r, s) ==
    /\ Rec(r) /\ r.buffer = s.buffer /\ r.committed = s.committed
    /\ r.taken = s.taken /\ r.accepted = s.accepted

\* The messages of r are those of s, some of which may have moved on.
Carried(r, s) ==
    /\ r.taken \in Seq(Messages) /\ r.buffer \in Seq(Messages)
    /\ r.taken \o r.buffer = s.taken \o s.buffer /\ r.accepted = s.accepted

\* The timer and the wakers hold no messages.
LEMMA StillThere ==
    ASSUME NEW s, Rec(s)
    PROVE  /\ Still(s, s)
           /\ Still(channel_refresh_deadlock_timer(s), s)
           /\ \A c, e : Still(Resumed(s, c, e), s)
<1>1. Still(s, s) /\ \A c, e : Still(Resumed(s, c, e), s)
  BY DEF Still, Rec, Fields, Resumed
<1>2. \A x : Still([s EXCEPT !.timer = x], s)
  BY DEF Still, Rec, Fields
<1> QED BY <1>1, <1>2 DEF channel_refresh_deadlock_timer, channel_arm_deadlock_timer

\* The wake operations on the senders move no message.
LEMMA WakeSenderStill ==
    ASSUME NEW s, Rec(s) PROVE Still(channel_wake_sender(s), s)
<1> DEFINE d == channel_wake_delivered_sender(s)
           r == channel_wake_sender(s)
<1>1. Still(d, s)
  <2> DEFINE c == CHOOSE x \in {y \in s.delivering : InQueue(s.senders, y)} : TRUE
             t == [s EXCEPT !.senders = channel_queue_remove(@, c)]
             x == Resumed(t, c, "none")
  <2>1. d = s \/ d = channel_refresh_deadlock_timer(x)
    BY DEF channel_wake_delivered_sender
  <2>2. Still(t, s)
    BY DEF Still, Rec, Fields
  <2> HIDE DEF t, c, d
  <2>3. Still(x, s)
    BY <2>2, StillThere, SMT, SMTT(30) DEF Still
  <2> HIDE DEF x
  <2>4. Still(channel_refresh_deadlock_timer(x), s)
    BY <2>3, StillThere DEF Still
  <2> QED BY <2>1, <2>4, StillThere
<1>2. Still(r, d)
  <2> DEFINE c == channel_queue_first_unreserved(d, d.senders)
             t == [d EXCEPT !.slot_kept = @ \cup {c}, !.reserved_senders = @ + 1]
             x == Resumed(t, c, "none")
  <2>0. Rec(d)
    BY <1>1 DEF Still
  <2>1. r = d \/ r = channel_refresh_deadlock_timer(x)
    BY DEF channel_wake_sender
  <2> HIDE DEF d, r, c
  <2>2. Still(t, d)
    BY <2>0 DEF Still, Rec, Fields
  <2> HIDE DEF t
  <2>3. Still(x, d)
    BY <2>2, StillThere, SMT, SMTT(30) DEF Still
  <2> HIDE DEF x
  <2>4. Still(channel_refresh_deadlock_timer(x), d)
    BY <2>3, StillThere DEF Still
  <2> QED BY <2>0, <2>1, <2>4, StillThere
<1> QED BY <1>1, <1>2 DEF Still

\* Joining three sequences of messages.
LEMMA Joined ==
    \A a, b, e \in Seq(Messages) : (a \o b) \o e = a \o (b \o e)
<1> SUFFICES ASSUME NEW a \in Seq(Messages), NEW b \in Seq(Messages), NEW e \in Seq(Messages)
             PROVE  (a \o b) \o e = a \o (b \o e)
  OBVIOUS
<1> QED BY SMT, SMTT(30)

\* Two sequences of messages joined are one.
LEMMA JoinedType ==
    ASSUME NEW a \in Seq(Messages), NEW b \in Seq(Messages) PROVE a \o b \in Seq(Messages)
BY SMT, SMTT(30)

\* take_value moves the first message of the buffer to the end of the taken
\* ones.
LEMMA TakeCarries ==
    ASSUME NEW s, Rec(s), s.taken \in Seq(Messages), s.buffer \in Seq(Messages), s.buffer # <<>>
    PROVE  Carried(take_value(s), s) /\ Rec(take_value(s))
<1> DEFINE r == take_value(s)
           b == s.buffer
           a == s.taken
<1>1. Rec(r) /\ r.taken = Append(a, Head(b)) /\ r.buffer = Tail(b) /\ r.accepted = s.accepted
  BY DEF take_value, Rec, Fields
<1> HIDE DEF r, a, b
<1>2. b \in Seq(Messages) /\ a \in Seq(Messages) /\ b # <<>>
  BY DEF a, b
<1>3. /\ Head(b) \in Messages /\ Tail(b) \in Seq(Messages) /\ Len(Tail(b)) = Len(b) - 1
      /\ \A i \in 1..Len(Tail(b)) : Tail(b)[i] = b[i + 1]
  BY <1>2, SMT, SMTT(30)
<1>4. b = <<Head(b)>> \o Tail(b)
  BY <1>2, SMT, SMTT(30)
<1>5. <<Head(b)>> \in Seq(Messages)
  BY <1>3, SMT, SMTT(30)
<1>6. Append(a, Head(b)) = a \o <<Head(b)>> /\ Append(a, Head(b)) \in Seq(Messages)
  BY <1>2, <1>3, SMT, SMTT(30)
<1>7. (a \o <<Head(b)>>) \o Tail(b) = a \o (<<Head(b)>> \o Tail(b))
  <2> DEFINE h == <<Head(b)>>
             e == Tail(b)
  <2>1. a \in Seq(Messages) /\ h \in Seq(Messages) /\ e \in Seq(Messages)
    BY <1>2, <1>3, <1>5
  <2> HIDE DEF h, e
  <2>2. (a \o h) \o e = a \o (h \o e)
    BY <2>1, Joined, SMT, SMTT(30)
  <2> QED BY <2>2 DEF h, e
<1>8. r.taken \o r.buffer = a \o b
  BY <1>1, <1>4, <1>6, <1>7
<1> QED BY <1>1, <1>3, <1>6, <1>8 DEF Carried, r, a, b

\* channel_wake_receiver promises a message, or hands it to a future.
LEMMA WakeReceiverCarries ==
    ASSUME NEW s, Fit(s), s.taken \in Seq(Messages)
    PROVE  LET r == channel_wake_receiver(s) IN Carried(r, s) /\ Rec(r)
<1> DEFINE r == channel_wake_receiver(s)
           w == channel_queue_first_unreserved(s, s.receivers)
<1>0. Rec(s) /\ s.buffer \in Seq(Messages)
  BY DEF Fit
<1>1. Carried(s, s)
  BY <1>0 DEF Carried
<1>2. CASE ~WakesReceiver(s)
  BY <1>0, <1>1, <1>2 DEF channel_wake_receiver
<1>3. CASE WakesReceiver(s) /\ w \in Futures
  <2> DEFINE u == [s EXCEPT !.receivers = channel_queue_remove(@, w)]
             t == take_value(u)
             v == [t EXCEPT !.future[w] = "resolved"]
             x == channel_wake_sender(v)
  <2>1. r = channel_refresh_deadlock_timer(x)
    BY <1>3 DEF channel_wake_receiver
  <2>2. s.buffer # <<>>
    BY <1>3, FitType, SMT, SMTT(30) DEF WakesReceiver, has_free_value, Holds
  <2>3. Still(u, s)
    BY <1>0 DEF Still, Rec, Fields
  <2> HIDE DEF u, w, r
  <2>4. Carried(t, u) /\ Rec(t)
    BY <1>0, <2>2, <2>3, TakeCarries DEF Still
  <2> HIDE DEF t
  <2>5. Still(v, t)
    BY <2>4 DEF Still, Rec, Fields
  <2> HIDE DEF v
  <2>6. Still(x, v)
    BY <2>5, WakeSenderStill DEF Still
  <2> HIDE DEF x
  <2>7. Still(r, x)
    BY <2>1, <2>6, StillThere DEF Still
  <2>8. Still(r, t)
    BY <2>5, <2>6, <2>7 DEF Still
  <2> QED BY <2>3, <2>4, <2>8 DEF Still, Carried, r
<1>4. CASE WakesReceiver(s) /\ w \notin Futures
  <2> DEFINE t == [s EXCEPT !.value_kept = @ \cup {w}, !.reserved_receivers = @ + 1]
             x == Resumed(t, w, "none")
  <2>1. r = channel_refresh_deadlock_timer(x)
    BY <1>4 DEF channel_wake_receiver
  <2>2. Still(t, s)
    BY <1>0 DEF Still, Rec, Fields
  <2> HIDE DEF t, w, r
  <2>3. Still(x, t)
    <3>1. Rec(t)
      BY <2>2 DEF Still
    <3> QED BY <3>1, StillThere
  <2> HIDE DEF x
  <2>4. Still(r, x)
    BY <2>1, <2>3, StillThere DEF Still
  <2> QED BY <1>0, <1>1, <2>2, <2>3, <2>4 DEF Still, Carried, r
<1> QED BY <1>2, <1>3, <1>4
=======================================================================
