--------------------------- MODULE PoolProofs --------------------------
(* Proofs about Pool: resources, places and waiters are accounted for by  *)
(* every call, for every number of coroutines and resources, every size   *)
(* of the pool and every choice of hooks.                                 *)
(*                                                                        *)
(* Base(s, f, k) is the invariant of the record s and the frames f, one   *)
(* place short when k is 1: a place that was given up has not been taken  *)
(* or reported yet.  An action takes the coroutine c out of its frame,    *)
(* which leaves Base(s, g, 1) with g[c] = Idle, and each way it goes on   *)
(* turns that into Base(pool', frame', 0).                                *)
EXTENDS Pool, TLAPS, FiniteSetTheorems

\* The provers to try on a leaf that names none.
USE Zenon, SMT, SMTT(30)

HoldingPlaces == {"before_acquire", "factory", "before_release"}

FreeingPlaces == {"acquire_destroy", "release_destroy", "report_success", "report_failure"}

ResourcePlaces == {"before_acquire", "before_release", "report_success"}

PoolType ==
    [idle : Seq(Resources), active_count : Nat,
     checked_out : SUBSET Resources, out : SUBSET Resources,
     waiters : Seq(Coroutines), reserved : SUBSET Coroutines, reserved_count : Nat,
     closed : BOOLEAN, circuit : {"ACTIVE", "INACTIVE", "RECOVERING"},
     queued : SUBSET Coroutines,
     error : [Coroutines -> {"none", "closed", "cancelled", "timeout"}]]

FrameType ==
    [at : {"run", "waiting"} \cup HoldingPlaces \cup FreeingPlaces,
     op : {"none", "acquire", "try", "release"},
     resource : Resources \cup {NoResource}, threw : BOOLEAN]

\* A call holds a resource exactly where a hook runs on one, and is in a hook
\* only if that is set.
FrameOK(x) ==
    /\ x \in FrameType
    /\ x.resource # NoResource <=> x.at \in ResourcePlaces
    /\ x.at = "run" => x = Idle
    /\ x.at \in {"before_acquire", "acquire_destroy"} => x.op \in {"acquire", "try"}
    /\ x.at \in {"acquire_destroy", "release_destroy"} => "destructor" \in setup.hooks
    /\ x.at \in {"report_success", "report_failure"} => "strategy" \in setup.hooks

Framed(f) ==
    /\ f = [c \in Coroutines |-> f[c]]
    /\ \A c \in Coroutines : FrameOK(f[c])

HandIn(f) == {f[c].resource : c \in Coroutines} \ {NoResource}

HoldingIn(f) == {c \in Coroutines : f[c].at \in HoldingPlaces}

FreeingIn(f) == {c \in Coroutines : f[c].at \in FreeingPlaces}

Distinct(queue) == \A i, j \in DOMAIN queue : queue[i] = queue[j] => i = j

\* r is nowhere.
Away(s, f, r) == r \notin RangeOf(s.idle) \cup s.out \cup HandIn(f)

\* Every resource is in one place, and counted.
ResInv(s, f) ==
    /\ Distinct(s.idle)
    /\ RangeOf(s.idle) \cap (s.out \cup HandIn(f)) = {}
    /\ s.out \cap HandIn(f) = {}
    /\ \A c, d \in Coroutines : f[c].resource = f[d].resource /\ c # d => f[c].resource = NoResource
    /\ IsFiniteSet(s.out) /\ s.checked_out = s.out \cap setup.objects
    /\ s.active_count = Cardinality(s.out) + Cardinality(HoldingIn(f))
    /\ s.closed /\ ~setup.hook_closes => s.idle = <<>>
    /\ "strategy" \notin setup.hooks => Len(s.idle) + s.active_count <= max_size

InOrder(s) ==
    \A i, j \in DOMAIN s.waiters : i < j /\ s.waiters[j] \in s.reserved => s.waiters[i] \in s.reserved

\* Who waits is queued once, the reserved ones first, or is about to run.
WaitInv(s, f) ==
    /\ Distinct(s.waiters)
    /\ \A c \in Coroutines : InQueue(s.waiters, c) => f[c].at = "waiting"
    /\ \A c \in Coroutines : f[c].at = "waiting" => InQueue(s.waiters, c) \/ c \in s.queued
    /\ s.closed => s.waiters = <<>>
    /\ s.reserved \subseteq s.queued
    /\ \A c \in s.queued : f[c].at = "waiting"
    /\ s.reserved_count = Cardinality(s.reserved)
    /\ InOrder(s)

Exempt == setup.hooks \cap {"destructor", "strategy"} # {} \/ setup.healthcheck

\* Reservations have a place, and nobody waits beside a place that no call
\* will report: except k of them.
LinkInv(s, f, k) ==
    /\ ~Exempt => s.active_count + s.reserved_count <= max_size
    /\ ~setup.circuit_breaker => s.circuit # "INACTIVE"
    /\ ~setup.circuit_breaker /\ ~s.closed
           /\ s.active_count + s.reserved_count + Cardinality(FreeingIn(f)) + k < max_size =>
       Unreserved(s) = {}

Base(s, f, k) ==
    /\ s \in PoolType
    /\ Framed(f)
    /\ ResInv(s, f)
    /\ WaitInv(s, f)
    /\ LinkInv(s, f, k)

\* The inductive invariant.
PoolInv == setup \in Setups /\ Base(pool, frame, 0)

\* There is a place for one more reservation or holder ...
Room(s) == Exempt \/ s.active_count + s.reserved_count < max_size

\* ... and for one more resource.
RoomTotal(s) == "strategy" \in setup.hooks \/ Len(s.idle) + s.active_count < max_size

-----------------------------------------------------------------------
(* Sequences and sets.                                                    *)

\* A set of positions that is not empty has a first one.
LEMMA LeastIndex ==
    ASSUME NEW U, U \subseteq Nat, U # {} PROVE \E i \in U : \A j \in U : i <= j
<1>1. IsWellFoundedOn(OpToRel(<, Nat), Nat)
  BY NatLessThanWellFounded
<1>2. PICK x \in U : \A y \in U : ~(<<y, x>> \in OpToRel(<, Nat))
  BY <1>1, WFMin
<1>3. \A y \in U : ~(y < x)
  BY <1>2 DEF OpToRel
<1> QED BY <1>3, SMT, SMTT(30)

\* pool_queue_remove takes c out, and the others stay in their order.
LEMMA RemoveDistinct ==
    ASSUME NEW W, NEW queue \in Seq(W), NEW c, Distinct(queue)
    PROVE  LET r == pool_queue_remove(queue, c)
           IN  /\ r \in Seq(W) /\ Distinct(r)
               /\ \A x : InQueue(r, x) <=> InQueue(queue, x) /\ x # c
               /\ \A i, j \in DOMAIN r : i < j =>
                      \E p, q \in DOMAIN queue : p < q /\ r[i] = queue[p] /\ r[j] = queue[q]
<1> DEFINE r == pool_queue_remove(queue, c)
<1>0. Len(queue) \in Nat /\ DOMAIN queue = 1..Len(queue)
  BY SMT, SMTT(30)
<1>1. CASE ~InQueue(queue, c)
  BY <1>1 DEF pool_queue_remove, InQueue
<1>2. CASE InQueue(queue, c)
  <2> DEFINE k == CHOOSE i \in DOMAIN queue : queue[i] = c
             n == Len(queue) - 1
             At(i) == IF i < k THEN i ELSE i + 1
  <2>1. k \in 1..Len(queue) /\ queue[k] = c
    BY <1>0, <1>2 DEF InQueue
  <2>2. r = [i \in 1..n |-> IF i < k THEN queue[i] ELSE queue[i + 1]]
    BY <1>2 DEF pool_queue_remove
  <2>3. \A i, j \in 1..Len(queue) : queue[i] = queue[j] => i = j
    BY <1>0 DEF Distinct
  <2> HIDE DEF r, k
  <2>4. n \in Nat /\ n + 1 = Len(queue)
    BY <1>0, <2>1, SMT, SMTT(30)
  <2>5. r \in [1..n -> W]
    BY <1>0, <2>1, <2>2, <2>4, SMT, SMTT(30)
  <2>6. r \in Seq(W) /\ DOMAIN r = 1..n
    BY <2>4, <2>5, SMT, SMTT(30)
  <2>7. \A i \in 1..n : At(i) \in 1..Len(queue) /\ At(i) # k /\ r[i] = queue[At(i)]
    BY <1>0, <2>1, <2>2, <2>4, SMT, SMTT(30)
  <2>8. \A i, j \in 1..n : i < j => At(i) < At(j)
    BY <1>0, <2>1, <2>4, SMT, SMTT(30)
  <2>9. \A x \in 1..Len(queue) : x # k => \E i \in 1..n : x = At(i)
    <3> SUFFICES ASSUME NEW x \in 1..Len(queue), x # k PROVE \E i \in 1..n : x = At(i)
      OBVIOUS
    <3>1. CASE x < k
      BY <1>0, <2>1, <2>4, <3>1, SMT, SMTT(30)
    <3>2. CASE x > k
      <4>1. x - 1 \in 1..n /\ x = At(x - 1)
        BY <1>0, <2>1, <2>4, <3>2, SMT, SMTT(30)
      <4> QED BY <4>1
    <3> QED BY <1>0, <2>1, <3>1, <3>2, SMT, SMTT(30)
  <2> HIDE DEF At, n
  <2>10. Distinct(r)
    <3> SUFFICES ASSUME NEW i \in 1..n, NEW j \in 1..n, r[i] = r[j], i < j PROVE FALSE
      BY <2>4, <2>6, SMT, SMTT(30) DEF Distinct, n
    <3> QED BY <1>0, <2>3, <2>7, <2>8, SMT, SMTT(30)
  <2>11. ASSUME NEW x PROVE InQueue(r, x) <=> InQueue(queue, x) /\ x # c
    BY <1>0, <2>1, <2>3, <2>6, <2>7, <2>9, SMT, SMTT(30) DEF InQueue
  <2>12. ASSUME NEW i \in DOMAIN r, NEW j \in DOMAIN r, i < j
         PROVE  \E p, q \in DOMAIN queue : p < q /\ r[i] = queue[p] /\ r[j] = queue[q]
    BY <1>0, <2>6, <2>7, <2>8, <2>12
  <2> QED BY <2>6, <2>10, <2>11, <2>12 DEF r
<1> QED BY <1>1, <1>2

\* A push adds x at the end, behind the others.
LEMMA AppendDistinct ==
    ASSUME NEW W, NEW queue \in Seq(W), NEW x \in W, Distinct(queue), ~InQueue(queue, x)
    PROVE  LET r == Append(queue, x)
           IN  /\ r \in Seq(W) /\ Distinct(r) /\ Len(r) = Len(queue) + 1
               /\ RangeOf(r) = RangeOf(queue) \cup {x}
               /\ \A y : InQueue(r, y) <=> InQueue(queue, y) \/ y = x
               /\ \A i \in DOMAIN r : \/ i \in DOMAIN queue /\ r[i] = queue[i]
                                      \/ i = Len(queue) + 1 /\ r[i] = x
<1> DEFINE r == Append(queue, x)
           n == Len(queue)
<1>1. n \in Nat /\ DOMAIN queue = 1..n
  BY SMT, SMTT(30)
<1>2. r \in Seq(W) /\ DOMAIN r = 1..n + 1 /\ Len(r) = n + 1
  BY <1>1, SMT, SMTT(30)
<1>3. \A i \in 1..n + 1 : (i \in 1..n /\ r[i] = queue[i]) \/ (i = n + 1 /\ r[i] = x)
  BY <1>1, SMT, SMTT(30)
<1>4. \A i \in 1..n : queue[i] # x /\ r[i] = queue[i] /\ i \in 1..n + 1
  BY <1>1, SMT, SMTT(30) DEF InQueue
<1>5. r[n + 1] = x /\ n + 1 \in 1..n + 1
  BY <1>1, SMT, SMTT(30)
<1> HIDE DEF r, n
<1>6. Distinct(r)
  BY <1>1, <1>2, <1>3, <1>4, SMT, SMTT(30) DEF Distinct
<1>7. \A y : InQueue(r, y) <=> InQueue(queue, y) \/ y = x
  BY <1>1, <1>2, <1>3, <1>4, <1>5 DEF InQueue
<1>8. RangeOf(r) = RangeOf(queue) \cup {x}
  BY <1>1, <1>2, <1>3, <1>4, <1>5 DEF RangeOf
<1> QED BY <1>1, <1>2, <1>3, <1>6, <1>7, <1>8 DEF r, n

\* A pop takes the first resource out.
LEMMA TailDistinct ==
    ASSUME NEW W, NEW queue \in Seq(W), Distinct(queue), queue # <<>>
    PROVE  /\ Head(queue) \in W /\ Tail(queue) \in Seq(W) /\ Distinct(Tail(queue))
           /\ Len(Tail(queue)) + 1 = Len(queue)
           /\ RangeOf(Tail(queue)) = RangeOf(queue) \ {Head(queue)}
           /\ Head(queue) \in RangeOf(queue)
<1> DEFINE r == Tail(queue)
           n == Len(queue)
<1>1. n \in Nat \ {0} /\ DOMAIN queue = 1..n
  BY SMT, SMTT(30)
<1>2. r \in Seq(W) /\ Len(r) = n - 1 /\ DOMAIN r = 1..n - 1 /\ Head(queue) = queue[1]
  BY <1>1, SMT, SMTT(30)
<1>3. \A i \in 1..n - 1 : r[i] = queue[i + 1] /\ i + 1 \in 1..n
  BY <1>1, SMT, SMTT(30)
<1>4. \A j \in 1..n : j = 1 \/ (j - 1 \in 1..n - 1 /\ r[j - 1] = queue[j])
  BY <1>1, SMT, SMTT(30)
<1>5. \A i, j \in 1..n : queue[i] = queue[j] => i = j
  BY <1>1 DEF Distinct
<1> HIDE DEF r, n
<1>6. Distinct(r)
  BY <1>1, <1>2, <1>3, <1>5, SMT, SMTT(30) DEF Distinct
<1>7. queue[1] \in W /\ queue[1] \in RangeOf(queue)
  BY <1>1, SMT, SMTT(30) DEF RangeOf
<1>8. RangeOf(r) \subseteq RangeOf(queue) \ {queue[1]}
  BY <1>1, <1>2, <1>3, <1>5, SMT, SMTT(30) DEF RangeOf
<1>9. RangeOf(queue) \ {queue[1]} \subseteq RangeOf(r)
  BY <1>1, <1>2, <1>4, SMT, SMTT(30) DEF RangeOf
<1> QED BY <1>1, <1>2, <1>6, <1>7, <1>8, <1>9, SMT, SMTT(30) DEF r, n

\* What the health check keeps.
LEMMA SubsequenceDistinct ==
    ASSUME NEW W, NEW queue \in Seq(W), Distinct(queue),
           NEW n \in 0..Len(queue), NEW kept \in [1..n -> DOMAIN queue],
           \A i, j \in 1..n : i < j => kept[i] < kept[j]
    PROVE  LET r == [i \in 1..n |-> queue[kept[i]]]
           IN  /\ r \in Seq(W) /\ Distinct(r) /\ Len(r) <= Len(queue)
               /\ RangeOf(r) \subseteq RangeOf(queue)
<1> DEFINE r == [i \in 1..n |-> queue[kept[i]]]
<1>1. n \in Nat /\ Len(queue) \in Nat /\ n <= Len(queue) /\ DOMAIN queue = 1..Len(queue)
  BY SMT, SMTT(30)
<1>2. r \in [1..n -> W]
  BY <1>1, SMT, SMTT(30)
<1>3. r \in Seq(W) /\ DOMAIN r = 1..n /\ Len(r) = n
  BY <1>1, <1>2, SMT, SMTT(30)
<1>4. \A i \in 1..n : r[i] = queue[kept[i]] /\ kept[i] \in 1..Len(queue)
  BY <1>1
<1>5. \A i, j \in 1..n : queue[kept[i]] = queue[kept[j]] => kept[i] = kept[j]
  BY <1>1 DEF Distinct
<1> HIDE DEF r
<1>6. Distinct(r)
  BY <1>1, <1>3, <1>4, <1>5, SMT, SMTT(30) DEF Distinct
<1>7. RangeOf(r) \subseteq RangeOf(queue)
  BY <1>1, <1>3, <1>4, SMT, SMTT(30) DEF RangeOf
<1> QED BY <1>1, <1>3, <1>6, <1>7 DEF r

-----------------------------------------------------------------------
(* Frames.                                                                *)

\* h is g but for the frame of c.
Entered(h, g, c, x) == h = [g EXCEPT ![c] = x]

\* A coroutine that enters a frame, from Idle, adds what that frame stands
\* for to what the others stand for.
LEMMA Enters ==
    ASSUME NEW g, Framed(g), NEW c \in Coroutines, g[c] = Idle, NEW x, FrameOK(x),
           NEW h, Entered(h, g, c, x)
    PROVE  /\ Framed(h) /\ h[c] = x
           /\ \A d \in Coroutines : d # c => h[d] = g[d]
           /\ HandIn(h) = HandIn(g) \cup ({x.resource} \ {NoResource})
           /\ HoldingIn(h) = IF x.at \in HoldingPlaces THEN HoldingIn(g) \cup {c} ELSE HoldingIn(g)
           /\ FreeingIn(h) = IF x.at \in FreeingPlaces THEN FreeingIn(g) \cup {c} ELSE FreeingIn(g)
           /\ c \notin HoldingIn(g) /\ c \notin FreeingIn(g)
<1>1. h = [d \in Coroutines |-> IF d = c THEN x ELSE g[d]]
  BY DEF Framed, Entered
<1>2. /\ Framed(h) /\ h[c] = x
      /\ \A d \in Coroutines : d # c => h[d] = g[d]
  BY <1>1 DEF Framed
<1>3. g[c].resource = NoResource /\ g[c].at = "run"
  BY SMT, SMTT(30) DEF Idle, Frame
<1>4. HandIn(h) = HandIn(g) \cup ({x.resource} \ {NoResource})
  BY <1>2, <1>3 DEF HandIn
<1>5. HoldingIn(h) = IF x.at \in HoldingPlaces THEN HoldingIn(g) \cup {c} ELSE HoldingIn(g)
  BY <1>2, <1>3 DEF HoldingIn, HoldingPlaces
<1>6. FreeingIn(h) = IF x.at \in FreeingPlaces THEN FreeingIn(g) \cup {c} ELSE FreeingIn(g)
  BY <1>2, <1>3 DEF FreeingIn, FreeingPlaces
<1>7. c \notin HoldingIn(g) /\ c \notin FreeingIn(g)
  BY <1>3 DEF HoldingIn, FreeingIn, HoldingPlaces, FreeingPlaces
<1> QED BY <1>2, <1>4, <1>5, <1>6, <1>7

\* Coroutines and what is counted of them are finite.
LEMMA Finite ==
    ASSUME NEW f
    PROVE  /\ IsFiniteSet(HoldingIn(f)) /\ Cardinality(HoldingIn(f)) \in Nat
           /\ IsFiniteSet(FreeingIn(f)) /\ Cardinality(FreeingIn(f)) \in Nat
<1>1. HoldingIn(f) \in SUBSET Coroutines /\ FreeingIn(f) \in SUBSET Coroutines
  BY DEF HoldingIn, FreeingIn
<1> QED BY <1>1, PoolAssumption, FS_Subset, FS_CardinalityType

\* Places are disjoint.
LEMMA Apart ==
    /\ HoldingPlaces \cap FreeingPlaces = {}
    /\ "waiting" \notin HoldingPlaces \cup FreeingPlaces
    /\ "run" \notin HoldingPlaces \cup FreeingPlaces
BY DEF HoldingPlaces, FreeingPlaces

\* The counts follow.
LEMMA Counted ==
    ASSUME NEW g, Framed(g), NEW c \in Coroutines, g[c] = Idle, NEW x, FrameOK(x),
           NEW h, Entered(h, g, c, x)
    PROVE  /\ Cardinality(HoldingIn(h)) =
                  Cardinality(HoldingIn(g)) + (IF x.at \in HoldingPlaces THEN 1 ELSE 0)
           /\ Cardinality(FreeingIn(h)) =
                  Cardinality(FreeingIn(g)) + (IF x.at \in FreeingPlaces THEN 1 ELSE 0)
<1>1. /\ HoldingIn(h) = IF x.at \in HoldingPlaces THEN HoldingIn(g) \cup {c} ELSE HoldingIn(g)
      /\ FreeingIn(h) = IF x.at \in FreeingPlaces THEN FreeingIn(g) \cup {c} ELSE FreeingIn(g)
      /\ c \notin HoldingIn(g) /\ c \notin FreeingIn(g)
  BY Enters, SMT, SMTT(30)
<1>2. IsFiniteSet(HoldingIn(g)) /\ IsFiniteSet(FreeingIn(g))
  BY Finite
<1>3. /\ Cardinality(HoldingIn(g) \cup {c}) = Cardinality(HoldingIn(g)) + 1
      /\ Cardinality(FreeingIn(g) \cup {c}) = Cardinality(FreeingIn(g)) + 1
  BY <1>1, <1>2, FS_AddElement
<1>4. Cardinality(HoldingIn(g)) \in Nat /\ Cardinality(FreeingIn(g)) \in Nat
  BY Finite
<1> QED BY <1>1, <1>3, <1>4, SMT, SMTT(30)

-----------------------------------------------------------------------
(* What keeps the invariant, apart from frames.                           *)

\* The resource side of t is that of s ...
SameResources(t, s) ==
    /\ t.idle = s.idle /\ t.active_count = s.active_count
    /\ t.checked_out = s.checked_out /\ t.out = s.out /\ t.closed = s.closed

\* ... and so is the waiters' side.
SameWaiters(t, s) ==
    /\ t.waiters = s.waiters /\ t.reserved = s.reserved /\ t.reserved_count = s.reserved_count
    /\ t.queued = s.queued /\ t.closed = s.closed

\* The numbers of a sound pool are natural numbers.
LEMMA Numbers ==
    ASSUME NEW s, NEW f, NEW k, Base(s, f, k)
    PROVE  /\ s.active_count \in Nat /\ s.reserved_count \in Nat
           /\ Cardinality(FreeingIn(f)) \in Nat /\ Cardinality(HoldingIn(f)) \in Nat
           /\ max_size \in Nat \ {0} /\ Len(s.idle) \in Nat
           /\ IsFiniteSet(s.out) /\ Cardinality(s.out) \in Nat
           /\ IsFiniteSet(s.reserved) /\ Cardinality(s.reserved) \in Nat
<1>1. s.active_count \in Nat /\ s.reserved_count \in Nat /\ s.idle \in Seq(Resources)
  BY DEF Base, PoolType
<1>2. IsFiniteSet(s.out) /\ s.reserved \in SUBSET Coroutines
  BY DEF Base, PoolType, ResInv
<1>3. IsFiniteSet(s.reserved)
  BY <1>2, PoolAssumption, FS_Subset
<1> QED BY <1>1, <1>2, <1>3, Finite, PoolAssumption, FS_CardinalityType, SMT, SMTT(30)

\* One place short is allowed where none is missing.
LEMMA Weaken ==
    ASSUME NEW s, NEW f, Base(s, f, 0) PROVE Base(s, f, 1)
<1>1. /\ s.active_count \in Nat /\ s.reserved_count \in Nat
      /\ Cardinality(FreeingIn(f)) \in Nat /\ max_size \in Nat
  BY Numbers
<1>2. LinkInv(s, f, 0)
  BY DEF Base
<1>3. LinkInv(s, f, 1)
  BY <1>1, <1>2, SMT, SMTT(30) DEF LinkInv
<1> QED BY <1>3 DEF Base

\* pool_queue_first_unreserved, when there is one: everybody before it has a
\* reservation.
LEMMA FirstUnreserved ==
    ASSUME NEW s \in PoolType, Unreserved(s) # {}
    PROVE  \E i \in DOMAIN s.waiters :
               /\ pool_queue_first_unreserved(s) = s.waiters[i]
               /\ s.waiters[i] \in Coroutines \ s.reserved
               /\ \A j \in DOMAIN s.waiters : j < i => s.waiters[j] \in s.reserved
<1>1. s.waiters \in Seq(Coroutines)
  BY DEF PoolType
<1>2. DOMAIN s.waiters \subseteq Nat /\ \A i \in DOMAIN s.waiters : s.waiters[i] \in Coroutines
  BY <1>1, SMT, SMTT(30)
<1>3. Unreserved(s) \subseteq Nat
  BY <1>2 DEF Unreserved
<1>4. \E i \in Unreserved(s) : \A j \in Unreserved(s) : i <= j
  BY <1>3, LeastIndex
<1> DEFINE i == CHOOSE i \in Unreserved(s) : \A j \in Unreserved(s) : i <= j
<1>5. i \in Unreserved(s) /\ \A j \in Unreserved(s) : i <= j
  BY <1>4
<1>6. pool_queue_first_unreserved(s) = s.waiters[i]
  BY DEF pool_queue_first_unreserved
<1> HIDE DEF i
<1>7. i \in DOMAIN s.waiters /\ i \in Nat /\ s.waiters[i] \in Coroutines \ s.reserved
  BY <1>2, <1>5 DEF Unreserved
<1>8. ASSUME NEW j \in DOMAIN s.waiters, j < i PROVE s.waiters[j] \in s.reserved
  <2>1. j \in Nat
    BY <1>2
  <2>2. j \notin Unreserved(s)
    BY <1>5, <1>7, <1>8, <2>1, SMT, SMTT(30)
  <2> QED BY <2>2 DEF Unreserved
<1> QED BY <1>6, <1>7, <1>8

\* pool_wake_waiter gives a place that is missing to the oldest waiter without
\* one, if there is any.
LEMMA WakeKeeps ==
    ASSUME NEW s, NEW f, Base(s, f, 1), Room(s)
    PROVE  Base(pool_wake_waiter(s), f, 0)
<1> DEFINE c == pool_queue_first_unreserved(s)
           t == pool_wake_waiter(s)
<1>0. s \in PoolType /\ ResInv(s, f) /\ WaitInv(s, f) /\ LinkInv(s, f, 1) /\ Framed(f)
  BY DEF Base
<1>1. CASE Unreserved(s) = {}
  <2>1. t = s
    BY <1>1 DEF pool_wake_waiter
  <2>2. LinkInv(s, f, 0)
    BY <1>0, <1>1 DEF LinkInv
  <2> QED BY <1>0, <2>1, <2>2 DEF Base
<1>2. CASE Unreserved(s) # {}
  <2>1. PICK i \in DOMAIN s.waiters :
            /\ c = s.waiters[i] /\ c \in Coroutines \ s.reserved
            /\ \A j \in DOMAIN s.waiters : j < i => s.waiters[j] \in s.reserved
    BY <1>0, <1>2, FirstUnreserved
  <2> HIDE DEF c
  <2>2. t = [s EXCEPT !.reserved = s.reserved \cup {c}, !.reserved_count = s.reserved_count + 1,
                      !.queued = s.queued \cup {c}, !.error = [s.error EXCEPT ![c] = s.error[c]]]
    <3> DEFINE u == [s EXCEPT !.reserved = @ \cup {c}, !.reserved_count = @ + 1]
    <3>1. t = Resumed(u, c, "none")
      BY <1>2 DEF pool_wake_waiter, c
    <3>2. Resumed(u, c, "none") = [u EXCEPT !.queued = u.queued \cup {c}, !.error[c] = @]
      BY DEF Resumed
    <3>3. u.queued = s.queued /\ u.error = s.error
      BY <1>0 DEF PoolType
    <3> QED BY <1>0, <3>1, <3>2, <3>3 DEF PoolType
  <2>3. t \in PoolType
    <3>1. /\ s.reserved \cup {c} \in SUBSET Coroutines /\ s.reserved_count + 1 \in Nat
          /\ s.queued \cup {c} \in SUBSET Coroutines
          /\ [s.error EXCEPT ![c] = s.error[c]] \in [Coroutines -> {"none", "closed", "cancelled", "timeout"}]
      BY <1>0, <2>1, SMT, SMTT(30) DEF PoolType
    <3> QED BY <1>0, <2>2, <3>1, ZenonT(30) DEF PoolType
  <2>4. /\ SameResources(t, s) /\ t.waiters = s.waiters /\ t.circuit = s.circuit
        /\ t.reserved = s.reserved \cup {c} /\ t.reserved_count = s.reserved_count + 1
        /\ t.queued = s.queued \cup {c}
    BY <1>0, <2>2 DEF PoolType, SameResources
  <2> HIDE DEF t
  <2>5. ResInv(t, f)
    BY <1>0, <2>4 DEF ResInv, SameResources
  <2>6. WaitInv(t, f)
    <3>1. s.waiters \in Seq(Coroutines)
      BY <1>0 DEF PoolType
    <3>2. InQueue(s.waiters, c) /\ f[c].at = "waiting"
      BY <1>0, <2>1 DEF WaitInv, InQueue
    <3>3. Cardinality(s.reserved \cup {c}) = Cardinality(s.reserved) + 1
      BY <2>1, Numbers, FS_AddElement
    <3>4. InOrder(t)
      BY <1>0, <2>1, <2>4, <3>1 DEF InOrder, WaitInv, Distinct
    <3> QED BY <1>0, <2>4, <3>2, <3>3, <3>4 DEF WaitInv, SameResources
  <2>7. LinkInv(t, f, 0)
    BY <1>0, <1>2, <2>4, Numbers, SMT, SMTT(30) DEF LinkInv, SameResources, Room
  <2> QED BY <1>0, <2>3, <2>5, <2>6, <2>7 DEF Base, t
<1> QED BY <1>1, <1>2

\* A frame that does not wait changes nothing for those who do.
LEMMA WaitersAside ==
    ASSUME NEW s, NEW t, NEW g, NEW h, WaitInv(s, g), SameWaiters(t, s),
           \A d \in Coroutines : g[d].at = "waiting" <=> h[d].at = "waiting",
           s.queued \subseteq Coroutines
    PROVE  WaitInv(t, h) /\ Unreserved(t) = Unreserved(s)
<1>1. InOrder(t) <=> InOrder(s)
  BY DEF InOrder, SameWaiters
<1>2. Unreserved(t) = Unreserved(s)
  BY DEF Unreserved, SameWaiters
<1> QED BY <1>1, <1>2 DEF WaitInv, SameWaiters

\* A resource that was nowhere is checked out and counted.
LEMMA TakesOut ==
    ASSUME NEW s, NEW g, Base(s, g, 1), NEW r \in Resources, Away(s, g, r), Room(s), RoomTotal(s)
    PROVE  Base([CheckOut(s, r) EXCEPT !.active_count = s.active_count + 1], g, 0)
<1> DEFINE t == [CheckOut(s, r) EXCEPT !.active_count = s.active_count + 1]
           o == s.checked_out \cup ({r} \cap setup.objects)
<1>0. s \in PoolType /\ ResInv(s, g) /\ WaitInv(s, g) /\ LinkInv(s, g, 1) /\ Framed(g)
  BY DEF Base
<1>1. /\ s.out \cup {r} \in SUBSET Resources /\ s.active_count + 1 \in Nat
      /\ o \in SUBSET Resources
  BY <1>0, SMT, SMTT(30) DEF PoolType
<1>t. t = [s EXCEPT !.checked_out = o, !.out = s.out \cup {r}, !.active_count = s.active_count + 1]
  BY <1>0 DEF PoolType, CheckOut
<1> HIDE DEF t, o
<1>2. t \in PoolType
  BY <1>0, <1>1, <1>t DEF PoolType
<1>3. /\ SameWaiters(t, s) /\ t.circuit = s.circuit /\ t.idle = s.idle
      /\ t.checked_out = o /\ t.out = s.out \cup {r} /\ t.active_count = s.active_count + 1
  BY <1>0, <1>t DEF PoolType, SameWaiters
<1>4. WaitInv(t, g) /\ Unreserved(t) = Unreserved(s)
  <2>1. s.queued \subseteq Coroutines
    BY <1>0 DEF PoolType
  <2> QED BY <1>0, <1>3, <2>1, WaitersAside
<1>5. r \notin RangeOf(s.idle) /\ r \notin s.out /\ r \notin HandIn(g)
  BY DEF Away
<1>6. ResInv(t, g)
  <2>1. /\ IsFiniteSet(s.out \cup {r})
        /\ Cardinality(s.out \cup {r}) = Cardinality(s.out) + 1
    BY <1>5, Numbers, FS_AddElement
  <2>2. t.active_count = Cardinality(t.out) + Cardinality(HoldingIn(g))
    BY <1>0, <1>3, <2>1, Numbers, SMT, SMTT(30) DEF ResInv
  <2>3. "strategy" \notin setup.hooks => Len(t.idle) + t.active_count <= max_size
    BY <1>3, Numbers, SMT, SMTT(30) DEF RoomTotal
  <2>4. /\ Distinct(t.idle)
        /\ RangeOf(t.idle) \cap (t.out \cup HandIn(g)) = {}
        /\ t.out \cap HandIn(g) = {}
    BY <1>0, <1>3, <1>5 DEF ResInv
  <2>5. /\ t.closed /\ ~setup.hook_closes => t.idle = <<>>
        /\ \A c, d \in Coroutines :
               g[c].resource = g[d].resource /\ c # d => g[c].resource = NoResource
    BY <1>0, <1>3 DEF ResInv, SameWaiters
  <2>6. t.checked_out = t.out \cap setup.objects
    BY <1>0, <1>3 DEF ResInv, o
  <2> QED BY <1>3, <2>1, <2>2, <2>3, <2>4, <2>5, <2>6 DEF ResInv
<1>7. LinkInv(t, g, 0)
  BY <1>0, <1>3, <1>4, Numbers, SMT, SMTT(30) DEF LinkInv, Room, SameWaiters
<1> QED BY <1>0, <1>2, <1>4, <1>6, <1>7 DEF Base, t

\* A frame with a resource that was nowhere, or with none, keeps every resource
\* in one place.
LEMMA HandsApart ==
    ASSUME NEW s, NEW g, ResInv(s, g), Framed(g), NEW c \in Coroutines, g[c] = Idle,
           NEW x, FrameOK(x), x.resource = NoResource \/ Away(s, g, x.resource),
           NEW h, Entered(h, g, c, x)
    PROVE  /\ RangeOf(s.idle) \cap (s.out \cup HandIn(h)) = {}
           /\ s.out \cap HandIn(h) = {}
           /\ \A b, d \in Coroutines :
                  h[b].resource = h[d].resource /\ b # d => h[b].resource = NoResource
<1>1. /\ h[c] = x
      /\ \A d \in Coroutines : d # c => h[d] = g[d]
      /\ HandIn(h) = HandIn(g) \cup ({x.resource} \ {NoResource})
  BY Enters, SMT, SMTT(30)
<1>2. x.resource # NoResource =>
          x.resource \notin RangeOf(s.idle) \cup s.out \cup HandIn(g)
  BY DEF Away
<1>3. /\ RangeOf(s.idle) \cap (s.out \cup HandIn(h)) = {}
      /\ s.out \cap HandIn(h) = {}
  BY <1>1, <1>2, SMT, SMTT(30) DEF ResInv
<1>4. \A d \in Coroutines : d # c /\ h[d].resource = x.resource => x.resource = NoResource
  BY <1>1, <1>2 DEF HandIn
<1>5. \A b, d \in Coroutines :
          h[b].resource = h[d].resource /\ b # d => h[b].resource = NoResource
  BY <1>1, <1>4, SMT, SMTT(30) DEF ResInv
<1> QED BY <1>3, <1>5

\* A call enters a hook, or the factory, with the count it has taken.
LEMMA EntersHolding ==
    ASSUME NEW s, NEW g, Base(s, g, 1), NEW c \in Coroutines, g[c] = Idle, Room(s), RoomTotal(s),
           NEW x, FrameOK(x), x.at \in HoldingPlaces, x.resource = NoResource \/ Away(s, g, x.resource)
    PROVE  Base([s EXCEPT !.active_count = s.active_count + 1], [g EXCEPT ![c] = x], 0)
<1> DEFINE t == [s EXCEPT !.active_count = s.active_count + 1]
           h == [g EXCEPT ![c] = x]
<1>0. s \in PoolType /\ ResInv(s, g) /\ WaitInv(s, g) /\ LinkInv(s, g, 1) /\ Framed(g)
  BY DEF Base
<1>1. s.active_count + 1 \in Nat
  BY <1>0, SMT, SMTT(30) DEF PoolType
<1>2. t \in PoolType
  BY <1>0, <1>1 DEF PoolType
<1>3. /\ SameWaiters(t, s) /\ t.circuit = s.circuit /\ t.idle = s.idle
      /\ t.checked_out = s.checked_out /\ t.out = s.out /\ t.active_count = s.active_count + 1
  BY <1>0 DEF PoolType, SameWaiters
<1>h. Entered(h, g, c, x)
  BY DEF Entered
<1> HIDE DEF h
<1>4. /\ Framed(h) /\ h[c] = x
      /\ \A d \in Coroutines : d # c => h[d] = g[d]
  BY <1>0, <1>h, Enters, SMT, SMTT(30)
<1>5. /\ Cardinality(HoldingIn(h)) = Cardinality(HoldingIn(g)) + 1
      /\ Cardinality(FreeingIn(h)) = Cardinality(FreeingIn(g))
  BY <1>0, <1>h, Counted, Apart, Numbers, SMT, SMTT(30)
<1>6. /\ RangeOf(s.idle) \cap (s.out \cup HandIn(h)) = {}
      /\ s.out \cap HandIn(h) = {}
      /\ \A b, d \in Coroutines :
             h[b].resource = h[d].resource /\ b # d => h[b].resource = NoResource
  BY <1>0, <1>h, HandsApart, SMT, SMTT(30)
<1> HIDE DEF t
<1>7. WaitInv(t, h) /\ Unreserved(t) = Unreserved(s)
  <2>1. s.queued \subseteq Coroutines
    BY <1>0 DEF PoolType
  <2>2. \A d \in Coroutines : g[d].at = "waiting" <=> h[d].at = "waiting"
    BY <1>4, Apart, SMT, SMTT(30) DEF Idle, Frame
  <2> QED BY <1>0, <1>3, <2>1, <2>2, WaitersAside
<1>8. ResInv(t, h)
  <2>1. t.active_count = Cardinality(t.out) + Cardinality(HoldingIn(h))
    BY <1>0, <1>3, <1>5, Numbers, SMT, SMTT(30) DEF ResInv
  <2>2. "strategy" \notin setup.hooks => Len(t.idle) + t.active_count <= max_size
    BY <1>3, Numbers, SMT, SMTT(30) DEF RoomTotal
  <2> QED BY <1>0, <1>3, <1>6, <2>1, <2>2 DEF ResInv, SameWaiters
<1>9. LinkInv(t, h, 0)
  <2>1. /\ s.active_count \in Nat /\ s.reserved_count \in Nat
        /\ Cardinality(FreeingIn(g)) \in Nat /\ max_size \in Nat
    BY Numbers
  <2>2. t.reserved_count = s.reserved_count /\ t.closed = s.closed
    BY <1>3 DEF SameWaiters
  <2> QED BY <1>0, <1>3, <1>5, <1>7, <2>1, <2>2, SMT, SMTT(30) DEF LinkInv, Room
<1> QED BY <1>2, <1>4, <1>7, <1>8, <1>9 DEF Base, t, h

\* A call that has given up its count enters a hook before it reports the place.
LEMMA EntersFreeing ==
    ASSUME NEW s, NEW g, Base(s, g, 1), NEW c \in Coroutines, g[c] = Idle,
           NEW x, FrameOK(x), x.at \in FreeingPlaces, x.resource = NoResource \/ Away(s, g, x.resource)
    PROVE  Base(s, [g EXCEPT ![c] = x], 0)
<1> DEFINE h == [g EXCEPT ![c] = x]
<1>0. s \in PoolType /\ ResInv(s, g) /\ WaitInv(s, g) /\ LinkInv(s, g, 1) /\ Framed(g)
  BY DEF Base
<1>h. Entered(h, g, c, x)
  BY DEF Entered
<1> HIDE DEF h
<1>1. /\ Framed(h) /\ h[c] = x
      /\ \A d \in Coroutines : d # c => h[d] = g[d]
  BY <1>0, <1>h, Enters, SMT, SMTT(30)
<1>2. /\ Cardinality(HoldingIn(h)) = Cardinality(HoldingIn(g))
      /\ Cardinality(FreeingIn(h)) = Cardinality(FreeingIn(g)) + 1
  BY <1>0, <1>h, Counted, Apart, Numbers, SMT, SMTT(30)
<1>3. /\ RangeOf(s.idle) \cap (s.out \cup HandIn(h)) = {}
      /\ s.out \cap HandIn(h) = {}
      /\ \A b, d \in Coroutines :
             h[b].resource = h[d].resource /\ b # d => h[b].resource = NoResource
  BY <1>0, <1>h, HandsApart, SMT, SMTT(30)
<1>4. WaitInv(s, h)
  <2>1. s.queued \subseteq Coroutines /\ SameWaiters(s, s)
    BY <1>0 DEF PoolType, SameWaiters
  <2>2. \A d \in Coroutines : g[d].at = "waiting" <=> h[d].at = "waiting"
    BY <1>1, Apart, SMT, SMTT(30) DEF Idle, Frame
  <2> QED BY <1>0, <2>1, <2>2, WaitersAside
<1>5. ResInv(s, h)
  BY <1>0, <1>2, <1>3 DEF ResInv
<1>6. LinkInv(s, h, 0)
  <2>1. /\ s.active_count \in Nat /\ s.reserved_count \in Nat
        /\ Cardinality(FreeingIn(g)) \in Nat /\ max_size \in Nat
    BY Numbers
  <2> QED BY <1>0, <1>2, <2>1, SMT, SMTT(30) DEF LinkInv
<1> QED BY <1>0, <1>1, <1>4, <1>5, <1>6 DEF Base, h

\* The idle resources of a sound pool may be replaced by any that are in one
\* place and not more than there is room for.
LEMMA IdleKeeps ==
    ASSUME NEW s, NEW g, NEW k, Base(s, g, k), NEW q \in Seq(Resources), Distinct(q),
           RangeOf(q) \cap (s.out \cup HandIn(g)) = {},
           s.closed /\ ~setup.hook_closes => q = <<>>,
           "strategy" \notin setup.hooks => Len(q) + s.active_count <= max_size
    PROVE  Base([s EXCEPT !.idle = q], g, k)
<1> DEFINE t == [s EXCEPT !.idle = q]
<1>0. s \in PoolType /\ ResInv(s, g) /\ WaitInv(s, g) /\ LinkInv(s, g, k) /\ Framed(g)
  BY DEF Base
<1>1. t \in PoolType
  BY <1>0 DEF PoolType
<1>2. /\ SameWaiters(t, s) /\ t.circuit = s.circuit /\ t.idle = q
      /\ t.checked_out = s.checked_out /\ t.out = s.out /\ t.active_count = s.active_count
  BY <1>0 DEF PoolType, SameWaiters
<1> HIDE DEF t
<1>3. WaitInv(t, g) /\ Unreserved(t) = Unreserved(s)
  <2>1. s.queued \subseteq Coroutines
    BY <1>0 DEF PoolType
  <2> QED BY <1>0, <1>2, <2>1, WaitersAside
<1>4. ResInv(t, g)
  BY <1>0, <1>2 DEF ResInv, SameWaiters
<1>5. LinkInv(t, g, k)
  BY <1>0, <1>2, <1>3 DEF LinkInv, SameWaiters
<1> QED BY <1>0, <1>1, <1>3, <1>4, <1>5 DEF Base, t

\* A pop leaves its resource nowhere.
LEMMA Pops ==
    ASSUME NEW s, NEW g, NEW k, Base(s, g, k), s.idle # <<>>
    PROVE  LET t == [s EXCEPT !.idle = Tail(s.idle)]
           IN  /\ Base(t, g, k)
               /\ Head(s.idle) \in Resources /\ Away(t, g, Head(s.idle))
               /\ RoomTotal(t) /\ (Room(s) => Room(t))
<1> DEFINE t == [s EXCEPT !.idle = Tail(s.idle)]
<1>0. s \in PoolType /\ ResInv(s, g)
  BY DEF Base
<1>1. s.idle \in Seq(Resources) /\ Distinct(s.idle)
  BY <1>0 DEF PoolType, ResInv
<1>2. /\ Head(s.idle) \in Resources /\ Tail(s.idle) \in Seq(Resources) /\ Distinct(Tail(s.idle))
      /\ Len(Tail(s.idle)) + 1 = Len(s.idle)
      /\ RangeOf(Tail(s.idle)) = RangeOf(s.idle) \ {Head(s.idle)}
      /\ Head(s.idle) \in RangeOf(s.idle)
  BY <1>1, TailDistinct
<1>3. Len(s.idle) \in Nat /\ Len(Tail(s.idle)) \in Nat /\ s.active_count \in Nat /\ max_size \in Nat
  BY <1>2, Numbers, SMT, SMTT(30)
<1>4. "strategy" \notin setup.hooks => Len(Tail(s.idle)) + s.active_count < max_size
  BY <1>0, <1>2, <1>3, SMT, SMTT(30) DEF ResInv
<1>5. /\ RangeOf(Tail(s.idle)) \cap (s.out \cup HandIn(g)) = {}
      /\ Head(s.idle) \notin s.out \cup HandIn(g)
  BY <1>0, <1>2 DEF ResInv
<1>6. s.closed /\ ~setup.hook_closes => Tail(s.idle) = <<>>
  BY <1>0 DEF ResInv
<1>7. Base(t, g, k)
  <2>1. "strategy" \notin setup.hooks => Len(Tail(s.idle)) + s.active_count <= max_size
    BY <1>3, <1>4, SMT, SMTT(30)
  <2> QED BY <1>2, <1>5, <1>6, <2>1, IdleKeeps
<1>8. /\ t.idle = Tail(s.idle) /\ t.out = s.out
      /\ t.active_count = s.active_count /\ t.reserved_count = s.reserved_count
  BY <1>0 DEF PoolType
<1> HIDE DEF t
<1>9. Away(t, g, Head(s.idle)) /\ RoomTotal(t) /\ (Room(s) => Room(t))
  BY <1>2, <1>4, <1>5, <1>8 DEF Away, RoomTotal, Room
<1> QED BY <1>2, <1>7, <1>9 DEF t

\* A push puts a resource that is nowhere into an open pool.
LEMMA Pushes ==
    ASSUME NEW s, NEW g, NEW k, Base(s, g, k), ~s.closed,
           NEW r \in Resources, Away(s, g, r), RoomTotal(s)
    PROVE  LET t == [s EXCEPT !.idle = Append(s.idle, r)]
           IN  Base(t, g, k) /\ (Room(s) => Room(t))
<1> DEFINE t == [s EXCEPT !.idle = Append(s.idle, r)]
<1>0. s \in PoolType /\ ResInv(s, g)
  BY DEF Base
<1>1. s.idle \in Seq(Resources) /\ Distinct(s.idle) /\ ~InQueue(s.idle, r)
  BY <1>0 DEF PoolType, ResInv, Away, RangeOf, InQueue
<1>2. /\ Append(s.idle, r) \in Seq(Resources) /\ Distinct(Append(s.idle, r))
      /\ Len(Append(s.idle, r)) = Len(s.idle) + 1
      /\ RangeOf(Append(s.idle, r)) = RangeOf(s.idle) \cup {r}
  BY <1>1, AppendDistinct
<1>3. Len(s.idle) \in Nat /\ s.active_count \in Nat /\ max_size \in Nat
  BY Numbers
<1>4. "strategy" \notin setup.hooks => Len(Append(s.idle, r)) + s.active_count <= max_size
  BY <1>2, <1>3, SMT, SMTT(30) DEF RoomTotal
<1>5. RangeOf(Append(s.idle, r)) \cap (s.out \cup HandIn(g)) = {}
  BY <1>0, <1>2 DEF ResInv, Away
<1>6. Base(t, g, k)
  BY <1>2, <1>4, <1>5, IdleKeeps
<1>7. t.active_count = s.active_count /\ t.reserved_count = s.reserved_count
  BY <1>0 DEF PoolType
<1> HIDE DEF t
<1> QED BY <1>6, <1>7 DEF Room, t

\* A call parks in an open pool that has no place for it.
LEMMA Parks ==
    ASSUME NEW s, NEW g, Base(s, g, 1), NEW c \in Coroutines, g[c] = Idle, ~s.closed,
           s.active_count + s.reserved_count >= max_size
    PROVE  Base(Park(s, c), [g EXCEPT ![c] = Frame("waiting", "acquire", NoResource, FALSE)], 0)
<1> DEFINE x == Frame("waiting", "acquire", NoResource, FALSE)
           t == Park(s, c)
           h == [g EXCEPT ![c] = x]
<1>0. s \in PoolType /\ ResInv(s, g) /\ WaitInv(s, g) /\ LinkInv(s, g, 1) /\ Framed(g)
  BY DEF Base
<1>x. FrameOK(x) /\ x.at = "waiting" /\ x.resource = NoResource
  BY DEF FrameOK, Frame, FrameType, ResourcePlaces, HoldingPlaces, FreeingPlaces
<1>h. Entered(h, g, c, x)
  BY DEF Entered
<1> HIDE DEF h, x
<1>1. /\ Framed(h) /\ h[c] = x
      /\ \A d \in Coroutines : d # c => h[d] = g[d]
  BY <1>0, <1>h, <1>x, Enters, SMT, SMTT(30)
<1>2. /\ Cardinality(HoldingIn(h)) = Cardinality(HoldingIn(g))
      /\ Cardinality(FreeingIn(h)) = Cardinality(FreeingIn(g))
  BY <1>0, <1>h, <1>x, Counted, Apart, Numbers, SMT, SMTT(30)
<1>3. /\ RangeOf(s.idle) \cap (s.out \cup HandIn(h)) = {}
      /\ s.out \cap HandIn(h) = {}
      /\ \A b, d \in Coroutines :
             h[b].resource = h[d].resource /\ b # d => h[b].resource = NoResource
  BY <1>0, <1>h, <1>x, HandsApart, SMT, SMTT(30)
<1>4. s.waiters \in Seq(Coroutines) /\ Distinct(s.waiters) /\ ~InQueue(s.waiters, c)
  BY <1>0, SMT, SMTT(30) DEF PoolType, WaitInv, Idle, Frame
<1> DEFINE q == Append(s.waiters, c)
<1>5. /\ q \in Seq(Coroutines) /\ Distinct(q)
      /\ \A y : InQueue(q, y) <=> InQueue(s.waiters, y) \/ y = c
      /\ \A i \in DOMAIN q : \/ i \in DOMAIN s.waiters /\ q[i] = s.waiters[i]
                             \/ i = Len(s.waiters) + 1 /\ q[i] = c
  BY <1>4, AppendDistinct
<1>6. t \in PoolType
  <2>1. [s.error EXCEPT ![c] = "none"] \in [Coroutines -> {"none", "closed", "cancelled", "timeout"}]
    BY <1>0 DEF PoolType
  <2> HIDE DEF q
  <2>2. t = [s EXCEPT !.waiters = q, !.error = [s.error EXCEPT ![c] = "none"]]
    BY DEF Park, q
  <2> QED BY <1>0, <1>5, <2>1, <2>2, ZenonT(30) DEF PoolType
<1>7. /\ SameResources(t, s) /\ t.circuit = s.circuit /\ t.waiters = q
      /\ t.reserved = s.reserved /\ t.reserved_count = s.reserved_count /\ t.queued = s.queued
  BY <1>0 DEF PoolType, SameResources, Park
<1> HIDE DEF t, q
<1>8. ResInv(t, h)
  BY <1>0, <1>2, <1>3, <1>7 DEF ResInv, SameResources
<1>9. WaitInv(t, h)
  <2>1. c \notin s.queued /\ c \notin s.reserved
    BY <1>0, SMT, SMTT(30) DEF WaitInv, Idle, Frame
  <2>2. InOrder(t)
    <3> SUFFICES ASSUME NEW i \in DOMAIN q, NEW j \in DOMAIN q, i < j, q[j] \in s.reserved
                 PROVE  q[i] \in s.reserved
      BY <1>7 DEF InOrder
    <3>1. j \in DOMAIN s.waiters /\ q[j] = s.waiters[j]
      BY <1>5, <2>1
    <3>2. Len(s.waiters) \in Nat /\ DOMAIN s.waiters = 1..Len(s.waiters)
      BY <1>4, SMT, SMTT(30)
    <3>3. i \in DOMAIN s.waiters /\ q[i] = s.waiters[i]
      BY <1>5, <3>1, <3>2, SMT, SMTT(30)
    <3> QED BY <1>0, <3>1, <3>3 DEF WaitInv, InOrder
  <2>3. \A d \in Coroutines : InQueue(q, d) => h[d].at = "waiting"
    BY <1>0, <1>1, <1>5, <1>x DEF WaitInv
  <2>4. \A d \in Coroutines : h[d].at = "waiting" => InQueue(q, d) \/ d \in s.queued
    BY <1>0, <1>1, <1>5 DEF WaitInv
  <2>5. \A d \in s.queued : h[d].at = "waiting"
    BY <1>0, <1>1, <2>1 DEF WaitInv, PoolType
  <2> QED BY <1>0, <1>5, <1>7, <2>2, <2>3, <2>4, <2>5 DEF WaitInv, SameResources
<1>10. LinkInv(t, h, 0)
  <2>1. /\ s.active_count \in Nat /\ s.reserved_count \in Nat
        /\ Cardinality(FreeingIn(g)) \in Nat /\ max_size \in Nat
    BY Numbers
  <2> QED BY <1>0, <1>2, <1>7, <2>1, SMT, SMTT(30) DEF LinkInv, SameResources
<1> QED BY <1>1, <1>6, <1>8, <1>9, <1>10 DEF Base, t, h, x

-----------------------------------------------------------------------
(* A coroutine leaves its frame.                                          *)

\* The frames of the others.
Others(c) == [frame EXCEPT ![c] = Idle]

\* Without c, what its frame stands for is gone.
LEMMA Leaves ==
    ASSUME Base(pool, frame, 0), NEW c \in Coroutines
    PROVE  /\ Framed(Others(c)) /\ Others(c)[c] = Idle
           /\ \A d \in Coroutines : d # c => Others(c)[d] = frame[d]
           /\ Entered(frame, Others(c), c, frame[c]) /\ FrameOK(frame[c])
           /\ HandIn(frame) = HandIn(Others(c)) \cup ({frame[c].resource} \ {NoResource})
           /\ frame[c].resource \notin HandIn(Others(c))
           /\ Cardinality(HoldingIn(frame)) =
                  Cardinality(HoldingIn(Others(c))) + (IF frame[c].at \in HoldingPlaces THEN 1 ELSE 0)
           /\ Cardinality(FreeingIn(frame)) =
                  Cardinality(FreeingIn(Others(c))) + (IF frame[c].at \in FreeingPlaces THEN 1 ELSE 0)
<1> DEFINE g == Others(c)
<1>1. Framed(frame) /\ ResInv(pool, frame)
  BY DEF Base
<1>2. FrameOK(Idle)
  BY DEF FrameOK, Idle, Frame, FrameType, ResourcePlaces, HoldingPlaces, FreeingPlaces
<1>3. frame = [d \in Coroutines |-> frame[d]]
  BY <1>1 DEF Framed
<1>4. g = [d \in Coroutines |-> IF d = c THEN Idle ELSE frame[d]]
  BY <1>3 DEF Others
<1> HIDE DEF g
<1>5. /\ Framed(g) /\ g[c] = Idle
      /\ \A d \in Coroutines : d # c => g[d] = frame[d]
  BY <1>1, <1>2, <1>4 DEF Framed
<1>6. Entered(frame, g, c, frame[c])
  BY <1>3, <1>4 DEF Entered
<1>7. FrameOK(frame[c])
  BY <1>1 DEF Framed
<1>8. HandIn(frame) = HandIn(g) \cup ({frame[c].resource} \ {NoResource})
  BY <1>5, <1>6, <1>7, Enters, SMT, SMTT(30)
<1>9. frame[c].resource \notin HandIn(g)
  BY <1>1, <1>5, SMT, SMTT(30) DEF ResInv, HandIn, Idle, Frame
<1>10. /\ Cardinality(HoldingIn(frame)) =
              Cardinality(HoldingIn(g)) + (IF frame[c].at \in HoldingPlaces THEN 1 ELSE 0)
       /\ Cardinality(FreeingIn(frame)) =
              Cardinality(FreeingIn(g)) + (IF frame[c].at \in FreeingPlaces THEN 1 ELSE 0)
  BY <1>5, <1>6, <1>7, Counted
<1> QED BY <1>5, <1>6, <1>7, <1>8, <1>9, <1>10 DEF g

\* Where c does not wait, its leaving changes nothing for those who do.
LEMMA LeavesWaiters ==
    ASSUME Base(pool, frame, 0), NEW c \in Coroutines, frame[c].at # "waiting",
           NEW t, SameWaiters(t, pool)
    PROVE  WaitInv(t, Others(c)) /\ Unreserved(t) = Unreserved(pool)
<1>1. pool.queued \subseteq Coroutines /\ WaitInv(pool, frame)
  BY DEF Base, PoolType
<1>2. \A d \in Coroutines : frame[d].at = "waiting" <=> Others(c)[d].at = "waiting"
  <2>1. Others(c)[c] = Idle /\ \A d \in Coroutines : d # c => Others(c)[d] = frame[d]
    BY Leaves
  <2>2. Idle.at # "waiting"
    BY DEF Idle, Frame
  <2> QED BY <2>1, <2>2
<1> QED BY <1>1, <1>2, WaitersAside

\* Leaving a frame takes no resource anywhere.
LEMMA LeavesResources ==
    ASSUME Base(pool, frame, 0), NEW c \in Coroutines
    PROVE  /\ RangeOf(pool.idle) \cap (pool.out \cup HandIn(Others(c))) = {}
           /\ pool.out \cap HandIn(Others(c)) = {}
           /\ \A b, d \in Coroutines :
                  Others(c)[b].resource = Others(c)[d].resource /\ b # d =>
                      Others(c)[b].resource = NoResource
           /\ frame[c].resource # NoResource =>
                  frame[c].resource \in Resources /\ Away(pool, Others(c), frame[c].resource)
<1> DEFINE g == Others(c)
<1>0. ResInv(pool, frame)
  BY DEF Base
<1>1. /\ g[c] = Idle /\ \A d \in Coroutines : d # c => g[d] = frame[d]
      /\ HandIn(frame) = HandIn(g) \cup ({frame[c].resource} \ {NoResource})
      /\ frame[c].resource \notin HandIn(g) /\ FrameOK(frame[c])
  BY Leaves
<1> HIDE DEF g
<1>2. /\ RangeOf(pool.idle) \cap (pool.out \cup HandIn(g)) = {}
      /\ pool.out \cap HandIn(g) = {}
  BY <1>0, <1>1 DEF ResInv
<1>3. Idle.resource = NoResource
  BY DEF Idle, Frame
<1>4. \A b, d \in Coroutines : g[b].resource = g[d].resource /\ b # d => g[b].resource = NoResource
  BY <1>0, <1>1, <1>3, SMT, SMTT(30) DEF ResInv
<1>5. ASSUME frame[c].resource # NoResource
      PROVE  frame[c].resource \in Resources /\ Away(pool, g, frame[c].resource)
  <2>1. frame[c].resource \in HandIn(frame)
    BY <1>1, <1>5
  <2>2. frame[c].resource \in Resources
    BY <1>1, <1>5 DEF FrameOK, FrameType
  <2> QED BY <1>0, <1>1, <2>1, <2>2 DEF ResInv, Away
<1> QED BY <1>2, <1>4, <1>5 DEF g

\* A call that gives up its count leaves a place, and its resource nowhere.
LEMMA LeavesHolding ==
    ASSUME Base(pool, frame, 0), NEW c \in Coroutines, frame[c].at \in HoldingPlaces
    PROVE  LET t == [pool EXCEPT !.active_count = pool.active_count - 1]
           IN  /\ Base(t, Others(c), 1) /\ Room(t) /\ RoomTotal(t)
               /\ t.active_count + 1 = pool.active_count
               /\ frame[c].resource # NoResource =>
                      frame[c].resource \in Resources /\ Away(t, Others(c), frame[c].resource)
<1> DEFINE t == [pool EXCEPT !.active_count = pool.active_count - 1]
           g == Others(c)
<1>0. pool \in PoolType /\ ResInv(pool, frame) /\ LinkInv(pool, frame, 0)
  BY DEF Base
<1>1. /\ pool.active_count \in Nat /\ pool.reserved_count \in Nat
      /\ Cardinality(FreeingIn(frame)) \in Nat /\ Cardinality(HoldingIn(frame)) \in Nat
      /\ max_size \in Nat \ {0} /\ Len(pool.idle) \in Nat /\ Cardinality(pool.out) \in Nat
  BY Numbers
<1>2. /\ Cardinality(HoldingIn(frame)) = Cardinality(HoldingIn(g)) + 1
      /\ Cardinality(FreeingIn(frame)) = Cardinality(FreeingIn(g))
      /\ Cardinality(HoldingIn(g)) \in Nat /\ Cardinality(FreeingIn(g)) \in Nat
      /\ Framed(g)
  BY Leaves, Apart, Finite, SMT, SMTT(30)
<1>3. /\ pool.active_count - 1 \in Nat
      /\ pool.active_count - 1 = Cardinality(pool.out) + Cardinality(HoldingIn(g))
  BY <1>0, <1>1, <1>2, SMT, SMTT(30) DEF ResInv
<1>4. t \in PoolType
  BY <1>0, <1>3 DEF PoolType
<1>5. /\ SameWaiters(t, pool) /\ t.idle = pool.idle
      /\ t.checked_out = pool.checked_out /\ t.out = pool.out
      /\ t.active_count = pool.active_count - 1 /\ t.circuit = pool.circuit
  BY <1>0 DEF PoolType, SameWaiters
<1> HIDE DEF t, g
<1>6. WaitInv(t, g) /\ Unreserved(t) = Unreserved(pool)
  BY <1>5, LeavesWaiters, Apart, SMT, SMTT(30) DEF g
<1>7. ResInv(t, g)
  <2>1. /\ RangeOf(pool.idle) \cap (pool.out \cup HandIn(g)) = {}
        /\ pool.out \cap HandIn(g) = {}
        /\ \A b, d \in Coroutines : g[b].resource = g[d].resource /\ b # d => g[b].resource = NoResource
    BY LeavesResources DEF g
  <2>2. "strategy" \notin setup.hooks => Len(t.idle) + t.active_count <= max_size
    BY <1>0, <1>1, <1>5, SMT, SMTT(30) DEF ResInv
  <2> QED BY <1>0, <1>3, <1>5, <2>1, <2>2 DEF ResInv, SameWaiters
<1>8. t.reserved_count = pool.reserved_count /\ t.closed = pool.closed
  BY <1>5 DEF SameWaiters
<1>9. LinkInv(t, g, 1)
  BY <1>0, <1>1, <1>2, <1>5, <1>6, <1>8, SMT, SMTT(30) DEF LinkInv
<1>10. Room(t) /\ RoomTotal(t) /\ t.active_count + 1 = pool.active_count
  <2>1. Room(t)
    BY <1>0, <1>1, <1>5, <1>8, SMT, SMTT(30) DEF LinkInv, Room
  <2>2. RoomTotal(t)
    BY <1>0, <1>1, <1>5, <1>8, SMT, SMTT(30) DEF ResInv, RoomTotal
  <2> QED BY <1>1, <1>5, <2>1, <2>2, SMT, SMTT(30)
<1>11. frame[c].resource # NoResource =>
           frame[c].resource \in Resources /\ Away(t, g, frame[c].resource)
  BY <1>5, LeavesResources DEF Away, g
<1> QED BY <1>2, <1>4, <1>6, <1>7, <1>9, <1>10, <1>11 DEF Base, t, g

\* A call that had given up its count comes to report the place.
LEMMA LeavesFreeing ==
    ASSUME Base(pool, frame, 0), NEW c \in Coroutines, frame[c].at \in FreeingPlaces
    PROVE  /\ Base(pool, Others(c), 1) /\ Room(pool)
           /\ frame[c].at = "report_success" =>
                  /\ frame[c].resource \in Resources /\ Away(pool, Others(c), frame[c].resource)
                  /\ RoomTotal(pool)
<1> DEFINE g == Others(c)
<1>0. pool \in PoolType /\ ResInv(pool, frame) /\ LinkInv(pool, frame, 0)
  BY DEF Base
<1>1. /\ pool.active_count \in Nat /\ pool.reserved_count \in Nat
      /\ Cardinality(FreeingIn(frame)) \in Nat /\ max_size \in Nat
  BY Numbers
<1>2. /\ Cardinality(HoldingIn(frame)) = Cardinality(HoldingIn(g))
      /\ Cardinality(FreeingIn(frame)) = Cardinality(FreeingIn(g)) + 1
      /\ Cardinality(FreeingIn(g)) \in Nat
      /\ Framed(g) /\ FrameOK(frame[c])
  <2>1. Cardinality(HoldingIn(g)) \in Nat /\ Cardinality(FreeingIn(g)) \in Nat
    BY Finite
  <2> QED BY <2>1, Leaves, Apart, SMT, SMTT(30)
<1>3. SameWaiters(pool, pool)
  BY DEF SameWaiters
<1>4. WaitInv(pool, g)
  BY <1>3, LeavesWaiters, Apart
<1>5. /\ RangeOf(pool.idle) \cap (pool.out \cup HandIn(g)) = {}
      /\ pool.out \cap HandIn(g) = {}
      /\ \A b, d \in Coroutines : g[b].resource = g[d].resource /\ b # d => g[b].resource = NoResource
      /\ frame[c].resource # NoResource =>
             frame[c].resource \in Resources /\ Away(pool, g, frame[c].resource)
  BY LeavesResources
<1> HIDE DEF g
<1>6. ResInv(pool, g)
  BY <1>0, <1>2, <1>5 DEF ResInv
<1>7. LinkInv(pool, g, 1)
  BY <1>0, <1>1, <1>2, SMT, SMTT(30) DEF LinkInv
<1>8. Room(pool)
  BY <1>2 DEF FrameOK, FreeingPlaces, Room, Exempt
<1>9. frame[c].at = "report_success" => frame[c].resource # NoResource /\ RoomTotal(pool)
  BY <1>2 DEF FrameOK, ResourcePlaces, RoomTotal
<1> QED BY <1>0, <1>2, <1>4, <1>5, <1>6, <1>7, <1>8, <1>9 DEF Base, g

\* The waker of one coroutine changes nothing else.
LEMMA ErrorKeeps ==
    ASSUME NEW s, NEW g, NEW k, Base(s, g, k), NEW c \in Coroutines,
           NEW e \in {"none", "closed", "cancelled", "timeout"}
    PROVE  LET t == [s EXCEPT !.error[c] = e] IN Base(t, g, k) /\ (Room(s) => Room(t))
<1> DEFINE t == [s EXCEPT !.error[c] = e]
           err == [s.error EXCEPT ![c] = e]
<1>0. s \in PoolType /\ ResInv(s, g) /\ WaitInv(s, g) /\ LinkInv(s, g, k) /\ Framed(g)
  BY DEF Base
<1>1. err \in [Coroutines -> {"none", "closed", "cancelled", "timeout"}]
  BY <1>0 DEF PoolType
<1>2. t = [s EXCEPT !.error = err]
  OBVIOUS
<1> HIDE DEF t, err
<1>3. t \in PoolType
  BY <1>0, <1>1, <1>2 DEF PoolType
<1>4. SameResources(t, s) /\ SameWaiters(t, s) /\ t.circuit = s.circuit
  BY <1>0, <1>2 DEF PoolType, SameResources, SameWaiters
<1>5. WaitInv(t, g) /\ Unreserved(t) = Unreserved(s)
  <2>1. s.queued \subseteq Coroutines
    BY <1>0 DEF PoolType
  <2> QED BY <1>0, <1>4, <2>1, WaitersAside
<1>6. ResInv(t, g)
  BY <1>0, <1>4 DEF ResInv, SameResources
<1>7. LinkInv(t, g, k) /\ (Room(s) => Room(t))
  BY <1>0, <1>4, <1>5 DEF LinkInv, SameResources, SameWaiters, Room
<1> QED BY <1>0, <1>3, <1>5, <1>6, <1>7 DEF Base, t

\* What pool_wait_for_resource does first when it goes on.
Left(s, c) ==
    [s EXCEPT !.waiters = pool_queue_remove(s.waiters, c),
              !.reserved = s.reserved \ {c},
              !.queued = s.queued \ {c},
              !.reserved_count = IF c \in s.reserved THEN s.reserved_count - 1 ELSE s.reserved_count]

\* A waiter goes on: the others stay in their order, and its reservation, if
\* it had one, is a place to take or to hand on.
LEMMA LeavesQueue ==
    ASSUME Base(pool, frame, 0), NEW c \in Coroutines, frame[c].at = "waiting"
    PROVE  LET t == Left(pool, c)
           IN  /\ Base(t, Others(c), 1)
               /\ c \in pool.reserved => Room(t)
               /\ c \notin pool.reserved \/ pool.closed => Base(t, Others(c), 0)
<1> DEFINE t == Left(pool, c)
           g == Others(c)
           q == pool_queue_remove(pool.waiters, c)
           n == IF c \in pool.reserved THEN pool.reserved_count - 1 ELSE pool.reserved_count
<1>0. pool \in PoolType /\ ResInv(pool, frame) /\ WaitInv(pool, frame) /\ LinkInv(pool, frame, 0)
  BY DEF Base
<1>1. /\ pool.active_count \in Nat /\ pool.reserved_count \in Nat
      /\ Cardinality(FreeingIn(frame)) \in Nat /\ max_size \in Nat
      /\ IsFiniteSet(pool.reserved) /\ Cardinality(pool.reserved) \in Nat
  BY Numbers
<1>2. pool.waiters \in Seq(Coroutines) /\ Distinct(pool.waiters)
  BY <1>0 DEF PoolType, WaitInv
<1>3. /\ q \in Seq(Coroutines) /\ Distinct(q)
      /\ \A x : InQueue(q, x) <=> InQueue(pool.waiters, x) /\ x # c
      /\ \A i, j \in DOMAIN q : i < j =>
             \E a, b \in DOMAIN pool.waiters : a < b /\ q[i] = pool.waiters[a] /\ q[j] = pool.waiters[b]
  BY <1>2, RemoveDistinct, SMT, SMTT(30)
<1>4. /\ IsFiniteSet(pool.reserved \ {c})
      /\ Cardinality(pool.reserved \ {c}) =
             IF c \in pool.reserved THEN Cardinality(pool.reserved) - 1 ELSE Cardinality(pool.reserved)
      /\ Cardinality(pool.reserved \ {c}) \in Nat
  BY <1>1, FS_RemoveElement, FS_CardinalityType
<1>5. n \in Nat /\ n = Cardinality(pool.reserved \ {c})
  BY <1>0, <1>1, <1>4 DEF WaitInv
<1>6. t = [pool EXCEPT !.waiters = q, !.reserved = pool.reserved \ {c},
                       !.queued = pool.queued \ {c}, !.reserved_count = n]
  BY DEF Left
<1> HIDE DEF t, q, n
<1>7. t \in PoolType
  <2>1. pool.reserved \ {c} \in SUBSET Coroutines /\ pool.queued \ {c} \in SUBSET Coroutines
    BY <1>0 DEF PoolType
  <2> QED BY <1>0, <1>3, <1>5, <1>6, <2>1, ZenonT(30) DEF PoolType
<1>8. /\ SameResources(t, pool) /\ t.circuit = pool.circuit /\ t.waiters = q
      /\ t.reserved = pool.reserved \ {c} /\ t.queued = pool.queued \ {c} /\ t.reserved_count = n
  BY <1>0, <1>6 DEF PoolType, SameResources
<1>9. /\ Framed(g) /\ g[c] = Idle
      /\ \A d \in Coroutines : d # c => g[d] = frame[d]
      /\ Cardinality(HoldingIn(g)) = Cardinality(HoldingIn(frame))
      /\ Cardinality(FreeingIn(g)) = Cardinality(FreeingIn(frame))
  <2>1. Cardinality(HoldingIn(g)) \in Nat /\ Cardinality(FreeingIn(g)) \in Nat
    BY Finite
  <2> QED BY <2>1, Leaves, Apart, SMT, SMTT(30)
<1>10. ResInv(t, g)
  <2>1. /\ RangeOf(pool.idle) \cap (pool.out \cup HandIn(g)) = {}
        /\ pool.out \cap HandIn(g) = {}
        /\ \A b, d \in Coroutines : g[b].resource = g[d].resource /\ b # d => g[b].resource = NoResource
    BY LeavesResources
  <2> HIDE DEF g
  <2> QED BY <1>0, <1>8, <1>9, <2>1 DEF ResInv, SameResources
<1> HIDE DEF g
<1>11. WaitInv(t, g)
  <2>1. InOrder(t)
    <3> SUFFICES ASSUME NEW i \in DOMAIN q, NEW j \in DOMAIN q, i < j, q[j] \in pool.reserved \ {c}
                 PROVE  q[i] \in pool.reserved \ {c}
      BY <1>8 DEF InOrder
    <3>1. q[i] # c
      BY <1>3 DEF InQueue
    <3> QED BY <1>0, <1>3, <3>1 DEF WaitInv, InOrder
  <2>2. \A d \in Coroutines : InQueue(q, d) => g[d].at = "waiting"
    BY <1>0, <1>3, <1>9 DEF WaitInv
  <2>3. \A d \in Coroutines : g[d].at = "waiting" => InQueue(q, d) \/ d \in pool.queued \ {c}
    BY <1>0, <1>3, <1>9, SMT, SMTT(30) DEF WaitInv, Idle, Frame
  <2>4. \A d \in pool.queued \ {c} : g[d].at = "waiting"
    BY <1>0, <1>9 DEF WaitInv, PoolType
  <2>5. pool.closed => q = <<>>
    BY <1>0, SMT, SMTT(30) DEF WaitInv, q, pool_queue_remove, InQueue
  <2> QED BY <1>0, <1>3, <1>5, <1>8, <2>1, <2>2, <2>3, <2>4, <2>5 DEF WaitInv, SameResources
<1>12. Unreserved(pool) = {} => Unreserved(t) = {}
  <2> SUFFICES ASSUME Unreserved(pool) = {}, NEW i \in DOMAIN q PROVE q[i] \in pool.reserved \ {c}
    BY <1>8 DEF Unreserved
  <2>1. InQueue(q, q[i])
    BY DEF InQueue
  <2>2. InQueue(pool.waiters, q[i]) /\ q[i] # c
    BY <1>3, <2>1
  <2> QED BY <2>2 DEF Unreserved, InQueue
<1>13. n + (IF c \in pool.reserved THEN 1 ELSE 0) = pool.reserved_count
  BY <1>1, SMT, SMTT(30) DEF n
<1>14. LinkInv(t, g, 1) /\ (c \in pool.reserved => Room(t))
  BY <1>0, <1>1, <1>5, <1>8, <1>9, <1>12, <1>13, SMT, SMTT(30) DEF LinkInv, SameResources, Room
<1>15. c \notin pool.reserved \/ pool.closed => LinkInv(t, g, 0)
  BY <1>0, <1>1, <1>5, <1>8, <1>9, <1>12, <1>13, SMT, SMTT(30) DEF LinkInv, SameResources
<1> QED BY <1>7, <1>9, <1>10, <1>11, <1>14, <1>15 DEF Base, t, g

-----------------------------------------------------------------------
(* The ways a call goes on.                                               *)

\* Frames that the code enters.
LEMMA Frames ==
    ASSUME NEW op \in {"acquire", "try"}, NEW r \in Resources, NEW threw \in BOOLEAN
    PROVE  /\ FrameOK(Frame("before_acquire", op, r, FALSE))
           /\ FrameOK(Frame("before_release", "release", r, FALSE))
           /\ "destructor" \in setup.hooks =>
                  /\ FrameOK(Frame("acquire_destroy", op, NoResource, threw))
                  /\ FrameOK(Frame("release_destroy", "release", NoResource, FALSE))
           /\ "strategy" \in setup.hooks =>
                  /\ FrameOK(Frame("report_success", "release", r, FALSE))
                  /\ FrameOK(Frame("report_failure", "release", NoResource, FALSE))
<1>1. r # NoResource
  BY PoolAssumption DEF NoResource
<1> QED BY <1>1 DEF FrameOK, Frame, FrameType, ResourcePlaces, HoldingPlaces, FreeingPlaces

\* The factory's frame holds nothing.
LEMMA FactoryFrame ==
    ASSUME NEW op \in {"acquire", "try"} PROVE FrameOK(Frame("factory", op, NoResource, FALSE))
BY DEF FrameOK, Frame, FrameType, ResourcePlaces, HoldingPlaces, FreeingPlaces

\* The new frame of c replaces its old one.
LEMMA Goes ==
    ASSUME Framed(frame), NEW c \in Coroutines, NEW s, NEW x, Go(c, s, x)
    PROVE  pool' = s /\ frame' = [Others(c) EXCEPT ![c] = x]
<1>1. frame = [d \in Coroutines |-> frame[d]]
  BY DEF Framed
<1>2. pool' = s /\ frame' = [frame EXCEPT ![c] = x]
  BY DEF Go
<1>3. [Others(c) EXCEPT ![c] = x] = [d \in Coroutines |-> IF d = c THEN x ELSE frame[d]]
  BY <1>1 DEF Others
<1>4. frame' = [d \in Coroutines |-> IF d = c THEN x ELSE frame[d]]
  BY <1>1, <1>2
<1> QED BY <1>2, <1>3, <1>4

\* A call that returns leaves the others.
LEMMA Returns ==
    ASSUME NEW c, NEW s, Return(c, s) PROVE pool' = s /\ frame' = Others(c)
BY DEF Return, Go, Others

\* Nothing is missing in a closed pool, with an open circuit breaker, or when
\* all places are taken.
LEMMA NothingMissing ==
    ASSUME NEW s, NEW g, Base(s, g, 1),
           \/ s.closed \/ s.circuit = "INACTIVE"
           \/ s.active_count + s.reserved_count >= max_size
    PROVE  Base(s, g, 0)
<1>1. /\ s.active_count \in Nat /\ s.reserved_count \in Nat
      /\ Cardinality(FreeingIn(g)) \in Nat /\ max_size \in Nat
  BY Numbers
<1>2. LinkInv(s, g, 1)
  BY DEF Base
<1>3. LinkInv(s, g, 0)
  BY <1>1, <1>2, SMT, SMTT(30) DEF LinkInv
<1> QED BY <1>3 DEF Base

\* acquire() and tryAcquire() from the retry label on.
LEMMA Acquires ==
    ASSUME Framed(frame), NEW c \in Coroutines, NEW s, Base(s, Others(c), 1), Others(c)[c] = Idle,
           NEW op \in {"acquire", "try"}, NEW has_reservation \in BOOLEAN, has_reservation => Room(s),
           AcquireFrom(s, c, op, has_reservation)
    PROVE  Base(pool', frame', 0)
<1> DEFINE g == Others(c)
           may_serve_self == has_reservation \/ HasUnreserved(s)
           r == Head(s.idle)
           taken == [s EXCEPT !.idle = Tail(@), !.active_count = @ + 1]
           unavailable == s.closed \/ s.circuit = "INACTIVE"
           from_idle == ~unavailable /\ s.idle # <<>> /\ may_serve_self
           create == ~unavailable /\ ~from_idle /\ TotalBelow(s, max_size) /\ may_serve_self
<1>0. s \in PoolType /\ LinkInv(s, g, 1)
  BY DEF Base
<1>1. s.active_count \in Nat /\ s.reserved_count \in Nat /\ max_size \in Nat /\ Len(s.idle) \in Nat
  BY Numbers
<1>2. ASSUME may_serve_self PROVE Room(s)
  BY <1>0, <1>1, <1>2, SMT, SMTT(30) DEF HasUnreserved, LinkInv, Room
<1>3. \/ unavailable /\ Return(c, GiveUp(s, has_reservation))
      \/ from_idle /\ "before_acquire" \in setup.hooks /\ Go(c, taken, Frame("before_acquire", op, r, FALSE))
      \/ from_idle /\ Return(c, CheckOut(taken, r))
      \/ create /\ Go(c, [s EXCEPT !.active_count = @ + 1], Frame("factory", op, NoResource, FALSE))
      \/ ~unavailable /\ ~from_idle /\ ~create /\ op = "acquire"
             /\ Go(c, Park(s, c), Frame("waiting", op, NoResource, FALSE))
      \/ ~unavailable /\ ~from_idle /\ ~create /\ Return(c, s)
  BY DEF AcquireFrom
<1>4. CASE unavailable /\ Return(c, GiveUp(s, has_reservation))
  <2>1. pool' = GiveUp(s, has_reservation) /\ frame' = g
    BY <1>4, Returns
  <2>2. CASE has_reservation
    BY <2>1, <2>2, WakeKeeps DEF GiveUp
  <2>3. CASE ~has_reservation
    BY <1>4, <2>1, <2>3, NothingMissing DEF GiveUp
  <2> QED BY <2>2, <2>3
<1>5. ASSUME from_idle
      PROVE  /\ taken = [[s EXCEPT !.idle = Tail(s.idle)] EXCEPT
                            !.active_count = [s EXCEPT !.idle = Tail(s.idle)].active_count + 1]
             /\ CheckOut(taken, r) = [CheckOut([s EXCEPT !.idle = Tail(s.idle)], r) EXCEPT
                            !.active_count = [s EXCEPT !.idle = Tail(s.idle)].active_count + 1]
             /\ Base([s EXCEPT !.idle = Tail(s.idle)], g, 1)
             /\ r \in Resources /\ Away([s EXCEPT !.idle = Tail(s.idle)], g, r)
             /\ RoomTotal([s EXCEPT !.idle = Tail(s.idle)]) /\ Room([s EXCEPT !.idle = Tail(s.idle)])
  <2>1. Room(s) /\ s.idle # <<>>
    BY <1>2, <1>5
  <2>2. taken = [[s EXCEPT !.idle = Tail(s.idle)] EXCEPT
                    !.active_count = [s EXCEPT !.idle = Tail(s.idle)].active_count + 1]
    BY <1>0 DEF PoolType
  <2>3. CheckOut(taken, r) = [CheckOut([s EXCEPT !.idle = Tail(s.idle)], r) EXCEPT
                            !.active_count = [s EXCEPT !.idle = Tail(s.idle)].active_count + 1]
    BY <1>0 DEF PoolType, CheckOut
  <2> QED BY <2>1, <2>2, <2>3, Pops
<1>6. CASE from_idle /\ "before_acquire" \in setup.hooks /\ Go(c, taken, Frame("before_acquire", op, r, FALSE))
  <2> DEFINE x == Frame("before_acquire", op, r, FALSE)
             t == [s EXCEPT !.idle = Tail(s.idle)]
  <2>1. FrameOK(x) /\ x.at \in HoldingPlaces /\ x.resource = r
    BY <1>5, <1>6, Frames DEF Frame, HoldingPlaces
  <2>2. pool' = taken /\ frame' = [g EXCEPT ![c] = x]
    BY <1>6, Goes
  <2>3. taken = [t EXCEPT !.active_count = t.active_count + 1]
    BY <1>5, <1>6
  <2>4. Base(t, g, 1) /\ Away(t, g, r) /\ RoomTotal(t) /\ Room(t)
    BY <1>5, <1>6
  <2> HIDE DEF x, t, taken, r, g
  <2>5. Base([t EXCEPT !.active_count = t.active_count + 1], [g EXCEPT ![c] = x], 0)
    BY <2>1, <2>4, EntersHolding DEF g
  <2> QED BY <2>2, <2>3, <2>5
<1>7. CASE from_idle /\ Return(c, CheckOut(taken, r))
  <2> DEFINE t == [s EXCEPT !.idle = Tail(s.idle)]
  <2>1. pool' = CheckOut(taken, r) /\ frame' = g
    BY <1>7, Returns
  <2>2. CheckOut(taken, r) = [CheckOut(t, r) EXCEPT !.active_count = t.active_count + 1]
    BY <1>5, <1>7
  <2>3. Base(t, g, 1) /\ r \in Resources /\ Away(t, g, r) /\ RoomTotal(t) /\ Room(t)
    BY <1>5, <1>7
  <2> HIDE DEF t, taken, r, g
  <2>4. Base([CheckOut(t, r) EXCEPT !.active_count = t.active_count + 1], g, 0)
    BY <2>3, TakesOut
  <2> QED BY <2>1, <2>2, <2>4
<1>8. CASE create /\ Go(c, [s EXCEPT !.active_count = @ + 1], Frame("factory", op, NoResource, FALSE))
  <2> DEFINE x == Frame("factory", op, NoResource, FALSE)
  <2>1. FrameOK(x) /\ x.at \in HoldingPlaces /\ x.resource = NoResource
    BY FactoryFrame DEF Frame, HoldingPlaces
  <2>2. pool' = [s EXCEPT !.active_count = s.active_count + 1] /\ frame' = [g EXCEPT ![c] = x]
    BY <1>8, Goes
  <2>3. Room(s) /\ RoomTotal(s)
    BY <1>1, <1>2, <1>8, SMT, SMTT(30) DEF Total, TotalBelow, RoomTotal
  <2> HIDE DEF x, g
  <2>4. Base([s EXCEPT !.active_count = s.active_count + 1], [g EXCEPT ![c] = x], 0)
    BY <2>1, <2>3, EntersHolding DEF g
  <2> QED BY <2>2, <2>4
<1>9. ASSUME ~unavailable, ~from_idle, ~create PROVE s.active_count + s.reserved_count >= max_size
  <2>1. CASE ~may_serve_self
    BY <1>1, <2>1, SMT, SMTT(30) DEF HasUnreserved
  <2>2. CASE may_serve_self
    <3>1. s.idle = <<>> /\ ~TotalBelow(s, max_size)
      BY <1>9, <2>2
    <3> QED BY <1>1, <3>1, SMT, SMTT(30) DEF Total, TotalBelow
  <2> QED BY <2>1, <2>2
<1>10. CASE ~unavailable /\ ~from_idle /\ ~create /\ op = "acquire"
             /\ Go(c, Park(s, c), Frame("waiting", op, NoResource, FALSE))
  <2>1. pool' = Park(s, c) /\ frame' = [g EXCEPT ![c] = Frame("waiting", "acquire", NoResource, FALSE)]
    BY <1>10, Goes
  <2>2. s.active_count + s.reserved_count >= max_size /\ ~s.closed
    BY <1>9, <1>10
  <2> QED BY <2>1, <2>2, Parks
<1>11. CASE ~unavailable /\ ~from_idle /\ ~create /\ Return(c, s)
  <2>1. pool' = s /\ frame' = g
    BY <1>11, Returns
  <2>2. s.active_count + s.reserved_count >= max_size
    BY <1>9, <1>11
  <2> QED BY <2>1, <2>2, NothingMissing
<1> QED BY <1>3, <1>4, <1>6, <1>7, <1>8, <1>10, <1>11

\* The destructor of acquire() has returned.
LEMMA AfterDestroyKeeps ==
    ASSUME Framed(frame), NEW c \in Coroutines, NEW s, Base(s, Others(c), 1), Others(c)[c] = Idle,
           Room(s), NEW op \in {"acquire", "try"}, NEW threw \in BOOLEAN,
           AfterDestroy(s, c, op, threw)
    PROVE  Base(pool', frame', 0)
<1>1. CASE Return(c, pool_wake_waiter(s))
  BY <1>1, Returns, WakeKeeps, SMT, SMTT(30)
<1>2. CASE AcquireFrom(s, c, op, FALSE)
  BY <1>2, Acquires
<1> QED BY <1>1, <1>2 DEF AfterDestroy

\* release() reports the success: the resource goes back, or the pool was
\* closed meanwhile.
LEMMA PutBackKeeps ==
    ASSUME NEW c \in Coroutines, NEW s, Base(s, Others(c), 1), Room(s), RoomTotal(s),
           NEW r \in Resources, Away(s, Others(c), r), PutBack(s, c, r)
    PROVE  Base(pool', frame', 0)
<1>1. CASE s.closed
  BY <1>1, Returns, NothingMissing DEF PutBack
<1>2. CASE ~s.closed
  <2> DEFINE t == [s EXCEPT !.idle = Append(s.idle, r)]
  <2>1. Base(t, Others(c), 1) /\ Room(t)
    BY <1>2, Pushes
  <2>2. pool' = pool_wake_waiter(t) /\ frame' = Others(c)
    BY <1>2, Returns DEF PutBack
  <2> HIDE DEF t
  <2> QED BY <2>1, <2>2, WakeKeeps
<1> QED BY <1>1, <1>2

\* release() drops the resource.
LEMMA DiscardKeeps ==
    ASSUME Framed(frame), NEW c \in Coroutines, NEW s, Base(s, Others(c), 1), Others(c)[c] = Idle,
           Room(s), Discard(s, c)
    PROVE  Base(pool', frame', 0)
<1>1. CASE "destructor" \in setup.hooks
  <2> DEFINE x == Frame("release_destroy", "release", NoResource, FALSE)
  <2>1. FrameOK(x) /\ x.at \in FreeingPlaces /\ x.resource = NoResource
    BY <1>1 DEF FrameOK, Frame, FrameType, ResourcePlaces, HoldingPlaces, FreeingPlaces
  <2>2. pool' = s /\ frame' = [Others(c) EXCEPT ![c] = x]
    BY <1>1, Goes DEF Discard
  <2> HIDE DEF x
  <2>3. Base(s, [Others(c) EXCEPT ![c] = x], 0)
    BY <2>1, EntersFreeing
  <2> QED BY <2>2, <2>3
<1>2. CASE "destructor" \notin setup.hooks
  BY <1>2, Returns, WakeKeeps, SMT, SMTT(30) DEF Discard
<1> QED BY <1>1, <1>2

\* The rest of release(), once its count is given up.
LEMMA ReleasedKeeps ==
    ASSUME Framed(frame), NEW c \in Coroutines, Others(c)[c] = Idle,
           NEW s, NEW freed, freed = [s EXCEPT !.active_count = @ - 1],
           Base(freed, Others(c), 1), Room(freed), RoomTotal(freed),
           NEW r \in Resources, Away(freed, Others(c), r),
           NEW outcome, Released(s, c, r, outcome)
    PROVE  Base(pool', frame', 0)
<1>1. CASE "strategy" \in setup.hooks /\ Go(c, freed, Frame("report_success", "release", r, FALSE))
  <2> DEFINE x == Frame("report_success", "release", r, FALSE)
  <2>1. FrameOK(x) /\ x.at \in FreeingPlaces /\ x.resource = r
    BY <1>1, Frames DEF Frame, FreeingPlaces
  <2>2. pool' = freed /\ frame' = [Others(c) EXCEPT ![c] = x]
    BY <1>1, Goes
  <2> HIDE DEF x
  <2>3. Base(freed, [Others(c) EXCEPT ![c] = x], 0)
    BY <2>1, EntersFreeing
  <2> QED BY <2>2, <2>3
<1>2. CASE PutBack(freed, c, r)
  BY <1>2, PutBackKeeps
<1>3. CASE "strategy" \in setup.hooks /\ Go(c, freed, Frame("report_failure", "release", NoResource, FALSE))
  <2> DEFINE x == Frame("report_failure", "release", NoResource, FALSE)
  <2>1. FrameOK(x) /\ x.at \in FreeingPlaces /\ x.resource = NoResource
    BY <1>3 DEF FrameOK, Frame, FrameType, ResourcePlaces, HoldingPlaces, FreeingPlaces
  <2>2. pool' = freed /\ frame' = [Others(c) EXCEPT ![c] = x]
    BY <1>3, Goes
  <2> HIDE DEF x
  <2>3. Base(freed, [Others(c) EXCEPT ![c] = x], 0)
    BY <2>1, EntersFreeing
  <2> QED BY <2>2, <2>3
<1>4. CASE Discard(freed, c)
  BY <1>4, DiscardKeeps
<1> QED BY <1>1, <1>2, <1>3, <1>4 DEF Released

-----------------------------------------------------------------------
(* The actions.                                                           *)

\* acquire() and tryAcquire() start.
LEMMA AcquireKeeps ==
    ASSUME PoolInv, NEW c \in Coroutines, acquire(c) \/ try_acquire(c)
    PROVE  Base(pool', frame', 0)
<1>1. Base(pool, frame, 0) /\ Framed(frame)
  BY DEF PoolInv, Base
<1>2. frame[c] = Idle
  BY <1>1 DEF acquire, try_acquire, MayCall, Framed, FrameOK
<1>3. frame = Others(c)
  BY <1>1, <1>2 DEF Framed, Others
<1>4. Base(pool, Others(c), 1) /\ Others(c)[c] = Idle
  BY <1>1, <1>2, <1>3, Weaken
<1>5. \E op \in {"acquire", "try"} : AcquireFrom(pool, c, op, FALSE)
  BY DEF acquire, try_acquire
<1> QED BY <1>1, <1>4, <1>5, Acquires

\* A parked coroutine goes on.
LEMMA ResumeKeeps ==
    ASSUME PoolInv, NEW c \in Coroutines, resume(c) PROVE Base(pool', frame', 0)
<1> DEFINE t == Left(pool, c)
           w == Woken(pool, c)
           s == [w EXCEPT !.error[c] = "none"]
<1>1. Base(pool, frame, 0) /\ Framed(frame) /\ frame[c].at = "waiting"
  BY DEF PoolInv, Base, resume
<1>2. /\ Base(t, Others(c), 1)
      /\ c \in pool.reserved => Room(t)
      /\ c \notin pool.reserved \/ pool.closed => Base(t, Others(c), 0)
  BY <1>1, LeavesQueue
<1>3. Others(c)[c] = Idle
  BY <1>1, Leaves
<1>4. w = IF c \in pool.reserved /\ pool.error[c] # "none" /\ ~pool.closed THEN pool_wake_waiter(t) ELSE t
  BY DEF Woken, Left
<1> HIDE DEF t, w
<1>5. CASE pool.error[c] # "none"
  <2>1. Base(w, Others(c), 0)
    BY <1>2, <1>4, <1>5, WakeKeeps
  <2>2. Base(s, Others(c), 0)
    BY <2>1, ErrorKeeps
  <2>3. pool' = s /\ frame' = Others(c)
    BY <1>5, Returns DEF resume, w
  <2> QED BY <2>2, <2>3
<1>6. CASE pool.error[c] = "none"
  <2>1. w = t
    BY <1>4, <1>6
  <2>2. Base(s, Others(c), 1) /\ (c \in pool.reserved => Room(s))
    BY <1>2, <2>1, ErrorKeeps
  <2>3. AcquireFrom(s, c, "acquire", c \in pool.reserved)
    BY <1>6 DEF resume, w
  <2> HIDE DEF s
  <2>4. (c \in pool.reserved) \in BOOLEAN
    BY SMT, SMTT(30)
  <2> QED BY <1>1, <1>3, <2>2, <2>3, <2>4, Acquires
<1> QED BY <1>5, <1>6

\* The beforeAcquire hook returns.
LEMMA BeforeAcquireKeeps ==
    ASSUME PoolInv, NEW c \in Coroutines, NEW outcome \in Outcomes, before_acquire_returns(c, outcome)
    PROVE  Base(pool', frame', 0)
<1> DEFINE r == frame[c].resource
           freed == [pool EXCEPT !.active_count = pool.active_count - 1]
<1>1. Base(pool, frame, 0) /\ Framed(frame) /\ frame[c].at = "before_acquire" /\ pool \in PoolType
  BY DEF PoolInv, Base, before_acquire_returns
<1>2. r # NoResource /\ frame[c].at \in HoldingPlaces /\ frame[c].op \in {"acquire", "try"}
  BY <1>1 DEF Framed, FrameOK, FrameType, ResourcePlaces, HoldingPlaces
<1>3. /\ Base(freed, Others(c), 1) /\ Room(freed) /\ RoomTotal(freed)
      /\ freed.active_count + 1 = pool.active_count
      /\ r \in Resources /\ Away(freed, Others(c), r)
  BY <1>1, <1>2, LeavesHolding
<1>4. Others(c)[c] = Idle
  BY <1>1, Leaves
<1>5. CASE Return(c, CheckOut(pool, r))
  <2>1. CheckOut(pool, r) = [CheckOut(freed, r) EXCEPT !.active_count = freed.active_count + 1]
    BY <1>1, <1>3 DEF CheckOut, PoolType
  <2> HIDE DEF freed, r
  <2>2. Base([CheckOut(freed, r) EXCEPT !.active_count = freed.active_count + 1], Others(c), 0)
    BY <1>3, TakesOut
  <2> QED BY <1>5, <2>1, <2>2, Returns DEF r
<1> HIDE DEF freed
<1>6. CASE "destructor" \in setup.hooks
           /\ Go(c, freed, Frame("acquire_destroy", frame[c].op, NoResource, outcome = "cancelled"))
  <2> DEFINE x == Frame("acquire_destroy", frame[c].op, NoResource, outcome = "cancelled")
  <2>1. FrameOK(x) /\ x.at \in FreeingPlaces /\ x.resource = NoResource
    BY <1>2, <1>6 DEF FrameOK, Frame, FrameType, ResourcePlaces, HoldingPlaces, FreeingPlaces
  <2>2. pool' = freed /\ frame' = [Others(c) EXCEPT ![c] = x]
    BY <1>1, <1>6, Goes, SMT, SMTT(30)
  <2> HIDE DEF x
  <2>3. Base(freed, [Others(c) EXCEPT ![c] = x], 0)
    BY <1>3, <1>4, <2>1, EntersFreeing
  <2> QED BY <2>2, <2>3
<1>7. CASE AfterDestroy(freed, c, frame[c].op, outcome = "cancelled")
  <2>1. (outcome = "cancelled") \in BOOLEAN
    OBVIOUS
  <2> QED BY <1>1, <1>2, <1>3, <1>4, <1>7, <2>1, AfterDestroyKeeps
<1> QED BY <1>5, <1>6, <1>7 DEF before_acquire_returns, freed

\* The destructor of acquire() returns.
LEMMA AcquireDestroyKeeps ==
    ASSUME PoolInv, NEW c \in Coroutines, NEW throws \in BOOLEAN, acquire_destroy_returns(c, throws)
    PROVE  Base(pool', frame', 0)
<1>1. Base(pool, frame, 0) /\ Framed(frame) /\ frame[c].at = "acquire_destroy"
  BY DEF PoolInv, Base, acquire_destroy_returns
<1>2. /\ frame[c].at \in FreeingPlaces /\ frame[c].op \in {"acquire", "try"}
      /\ (throws \/ frame[c].threw) \in BOOLEAN
  BY <1>1 DEF Framed, FrameOK, FrameType, FreeingPlaces
<1>3. Base(pool, Others(c), 1) /\ Room(pool)
  BY <1>1, <1>2, LeavesFreeing
<1>4. Others(c)[c] = Idle
  BY <1>1, Leaves
<1>5. AfterDestroy(pool, c, frame[c].op, throws \/ frame[c].threw)
  BY DEF acquire_destroy_returns
<1> QED BY <1>1, <1>2, <1>3, <1>4, <1>5, AfterDestroyKeeps

\* The factory returns.
LEMMA FactoryKeeps ==
    ASSUME PoolInv, NEW c \in Coroutines, NEW good \in BOOLEAN, factory_returns(c, good)
    PROVE  Base(pool', frame', 0)
<1> DEFINE freed == [pool EXCEPT !.active_count = pool.active_count - 1]
<1>1. Base(pool, frame, 0) /\ frame[c].at = "factory" /\ pool \in PoolType
  BY DEF PoolInv, Base, factory_returns
<1>2. frame[c].at \in HoldingPlaces
  BY <1>1 DEF HoldingPlaces
<1>3. /\ Base(freed, Others(c), 1) /\ Room(freed) /\ RoomTotal(freed)
      /\ freed.active_count + 1 = pool.active_count
  BY <1>1, <1>2, LeavesHolding
<1>4. CASE \E r \in Unused(pool) : Return(c, CheckOut(pool, r))
  <2>1. PICK r \in Unused(pool) : Return(c, CheckOut(pool, r))
    BY <1>4
  <2>2. CheckOut(pool, r) = [CheckOut(freed, r) EXCEPT !.active_count = freed.active_count + 1]
    BY <1>1, <1>3 DEF CheckOut, PoolType
  <2>3. freed.idle = pool.idle /\ freed.out = pool.out
    BY <1>1 DEF PoolType
  <2>4. HandIn(frame) = HandIn(Others(c)) \cup ({frame[c].resource} \ {NoResource})
    BY <1>1, Leaves
  <2> HIDE DEF freed
  <2>5. r \in Resources /\ Away(freed, Others(c), r)
    BY <2>3, <2>4 DEF Unused, InHand, Away, HandIn
  <2>6. Base([CheckOut(freed, r) EXCEPT !.active_count = freed.active_count + 1], Others(c), 0)
    BY <1>3, <2>5, TakesOut
  <2> QED BY <2>1, <2>2, <2>6, Returns
<1>5. CASE Return(c, pool_wake_waiter(freed))
  <2> HIDE DEF freed
  <2> QED BY <1>3, <1>5, Returns, WakeKeeps, SMT, SMTT(30)
<1> QED BY <1>4, <1>5 DEF factory_returns

\* release() checks in what the caller had, unless that is against the rules.
LEMMA ReleaseKeeps ==
    ASSUME PoolInv, NEW c \in Coroutines, NEW r \in Resources, release(c, r), ~misused'
    PROVE  Base(pool', frame', 0)
<1> DEFINE s == [pool EXCEPT !.checked_out = pool.checked_out \ {r}, !.out = pool.out \ {r}]
           freed == [s EXCEPT !.active_count = @ - 1]
<1>0. /\ Base(pool, frame, 0) /\ Framed(frame) /\ pool \in PoolType
      /\ ResInv(pool, frame) /\ LinkInv(pool, frame, 0) /\ WaitInv(pool, frame)
  BY DEF PoolInv, Base
<1>1. frame[c] = Idle /\ r \in pool.out
  BY <1>0 DEF release, MayCall, Framed, FrameOK, pool_check_in, ResInv
<1>2. frame = Others(c)
  BY <1>0, <1>1 DEF Framed, Others
<1>3. /\ pool.active_count \in Nat /\ pool.reserved_count \in Nat /\ Len(pool.idle) \in Nat
      /\ Cardinality(FreeingIn(frame)) \in Nat /\ Cardinality(HoldingIn(frame)) \in Nat
      /\ max_size \in Nat /\ IsFiniteSet(pool.out) /\ Cardinality(pool.out) \in Nat
  BY <1>0, Numbers
<1>4. /\ IsFiniteSet(pool.out \ {r})
      /\ Cardinality(pool.out \ {r}) = Cardinality(pool.out) - 1
      /\ Cardinality(pool.out \ {r}) \in Nat
  BY <1>1, <1>3, FS_RemoveElement, FS_CardinalityType
<1>5. /\ pool.active_count - 1 \in Nat
      /\ pool.active_count - 1 = Cardinality(pool.out \ {r}) + Cardinality(HoldingIn(frame))
  BY <1>0, <1>3, <1>4, SMT, SMTT(30) DEF ResInv
<1>6. freed = [pool EXCEPT !.checked_out = pool.checked_out \ {r}, !.out = pool.out \ {r},
                           !.active_count = pool.active_count - 1]
  BY <1>0 DEF PoolType
<1>s. s = [freed EXCEPT !.active_count = freed.active_count + 1]
  <2>1. freed.active_count + 1 = pool.active_count
    BY <1>0, <1>3, SMT, SMTT(30) DEF PoolType
  <2>2. s = [freed EXCEPT !.active_count = pool.active_count]
    BY <1>0 DEF PoolType
  <2> QED BY <2>1, <2>2
<1>t. freed = [s EXCEPT !.active_count = @ - 1]
  OBVIOUS
<1> HIDE DEF freed, s
<1>7. freed \in PoolType
  BY <1>0, <1>5, <1>6 DEF PoolType
<1>8. /\ SameWaiters(freed, pool) /\ freed.idle = pool.idle /\ freed.circuit = pool.circuit
      /\ freed.checked_out = pool.checked_out \ {r}
      /\ freed.out = pool.out \ {r} /\ freed.active_count = pool.active_count - 1
  BY <1>0, <1>6 DEF PoolType, SameWaiters
<1>9. WaitInv(freed, frame) /\ Unreserved(freed) = Unreserved(pool)
  <2>1. pool.queued \subseteq Coroutines
    BY <1>0 DEF PoolType
  <2> QED BY <1>0, <1>8, <2>1, WaitersAside
<1>10. ResInv(freed, frame)
  <2>1. "strategy" \notin setup.hooks => Len(freed.idle) + freed.active_count <= max_size
    BY <1>0, <1>3, <1>8, SMT, SMTT(30) DEF ResInv
  <2>2. freed.checked_out = freed.out \cap setup.objects
    BY <1>0, <1>8 DEF ResInv
  <2> QED BY <1>0, <1>4, <1>5, <1>8, <2>1, <2>2, ZenonT(30) DEF ResInv, SameWaiters
<1>11. freed.reserved_count = pool.reserved_count /\ freed.closed = pool.closed
  BY <1>8 DEF SameWaiters
<1>12. LinkInv(freed, frame, 1) /\ Room(freed)
  <2>1. LinkInv(freed, frame, 1)
    BY <1>0, <1>3, <1>8, <1>9, <1>11, SMT, SMTT(30) DEF LinkInv
  <2>2. Room(freed)
    BY <1>0, <1>3, <1>8, <1>11, SMT, SMTT(30) DEF LinkInv, Room
  <2> QED BY <2>1, <2>2
<1>13. Base(freed, frame, 1)
  BY <1>0, <1>7, <1>9, <1>10, <1>12 DEF Base
<1>14. RoomTotal(freed)
  BY <1>0, <1>3, <1>8, SMT, SMTT(30) DEF ResInv, RoomTotal
<1>15. Away(freed, frame, r)
  BY <1>0, <1>1, <1>8 DEF ResInv, Away
<1>16. CASE Go(c, s, Frame("before_release", "release", r, FALSE))
  <2> DEFINE x == Frame("before_release", "release", r, FALSE)
  <2>1. FrameOK(x) /\ x.at \in HoldingPlaces /\ x.resource = r
    BY Frames DEF Frame, HoldingPlaces
  <2>2. pool' = s /\ frame' = [frame EXCEPT ![c] = x]
    BY <1>16 DEF Go
  <2> HIDE DEF x
  <2>3. Base([freed EXCEPT !.active_count = freed.active_count + 1], [frame EXCEPT ![c] = x], 0)
    BY <1>1, <1>12, <1>13, <1>14, <1>15, <2>1, EntersHolding
  <2> QED BY <1>s, <2>2, <2>3
<1>17. CASE Released(s, c, r, "good")
  BY <1>0, <1>1, <1>2, <1>12, <1>13, <1>14, <1>15, <1>17, <1>t, ReleasedKeeps
<1> QED BY <1>16, <1>17 DEF release, s

\* The hooks of release() return.
LEMMA ReleaseHooksKeep ==
    ASSUME PoolInv, NEW c \in Coroutines,
           \/ \E outcome \in Outcomes : before_release_returns(c, outcome)
           \/ report_success_returns(c)
           \/ report_failure_returns(c)
           \/ release_destroy_returns(c)
    PROVE  Base(pool', frame', 0)
<1>1. Base(pool, frame, 0) /\ Framed(frame) /\ FrameOK(frame[c])
  BY DEF PoolInv, Base, Framed
<1>2. Others(c)[c] = Idle
  BY <1>1, Leaves
<1>3. ASSUME NEW outcome \in Outcomes, before_release_returns(c, outcome) PROVE Base(pool', frame', 0)
  <2> DEFINE freed == [pool EXCEPT !.active_count = pool.active_count - 1]
             r == frame[c].resource
  <2>1. frame[c].at \in HoldingPlaces /\ r # NoResource
    BY <1>1, <1>3 DEF before_release_returns, HoldingPlaces, ResourcePlaces, FrameOK
  <2>2. /\ Base(freed, Others(c), 1) /\ Room(freed) /\ RoomTotal(freed)
        /\ r \in Resources /\ Away(freed, Others(c), r)
    BY <1>1, <2>1, LeavesHolding
  <2>3. freed = [pool EXCEPT !.active_count = @ - 1]
    OBVIOUS
  <2>4. Released(pool, c, r, outcome)
    BY <1>3 DEF before_release_returns
  <2> HIDE DEF freed, r
  <2> QED BY <1>1, <1>2, <2>2, <2>3, <2>4, ReleasedKeeps
<1>4. ASSUME frame[c].at \in FreeingPlaces PROVE Base(pool, Others(c), 1) /\ Room(pool)
  BY <1>1, <1>4, LeavesFreeing
<1>5. CASE report_success_returns(c)
  <2>1. frame[c].at = "report_success" /\ frame[c].at \in FreeingPlaces
    BY <1>5 DEF report_success_returns, FreeingPlaces
  <2>2. /\ frame[c].resource \in Resources /\ Away(pool, Others(c), frame[c].resource)
        /\ RoomTotal(pool)
    BY <1>1, <2>1, LeavesFreeing
  <2> QED BY <1>4, <1>5, <2>1, <2>2, PutBackKeeps DEF report_success_returns
<1>6. CASE report_failure_returns(c)
  BY <1>1, <1>2, <1>4, <1>6, DiscardKeeps DEF report_failure_returns, FreeingPlaces
<1>7. CASE release_destroy_returns(c)
  BY <1>4, <1>7, Returns, WakeKeeps, SMT, SMTT(30) DEF release_destroy_returns, FreeingPlaces
<1> QED BY <1>3, <1>5, <1>6, <1>7

\* More coroutines may be queued to run with an error, if they wait.
LEMMA QueueKeeps ==
    ASSUME NEW s, NEW g, Base(s, g, 0), NEW c \in Coroutines, g[c].at = "waiting",
           NEW e \in {"none", "closed", "cancelled", "timeout"}
    PROVE  Base([s EXCEPT !.queued = s.queued \cup {c}, !.error[c] = e], g, 0)
<1> DEFINE t == [s EXCEPT !.queued = s.queued \cup {c}, !.error[c] = e]
           err == [s.error EXCEPT ![c] = e]
<1>0. s \in PoolType /\ ResInv(s, g) /\ WaitInv(s, g) /\ LinkInv(s, g, 0) /\ Framed(g)
  BY DEF Base
<1>1. /\ err \in [Coroutines -> {"none", "closed", "cancelled", "timeout"}]
      /\ s.queued \cup {c} \in SUBSET Coroutines
  BY <1>0 DEF PoolType
<1>2. t = [s EXCEPT !.queued = s.queued \cup {c}, !.error = err]
  OBVIOUS
<1> HIDE DEF t, err
<1>3. t \in PoolType
  BY <1>0, <1>1, <1>2 DEF PoolType
<1>4. /\ SameResources(t, s) /\ t.circuit = s.circuit /\ t.queued = s.queued \cup {c}
      /\ t.waiters = s.waiters /\ t.reserved = s.reserved /\ t.reserved_count = s.reserved_count
  BY <1>0, <1>2 DEF PoolType, SameResources
<1>5. ResInv(t, g)
  BY <1>0, <1>4 DEF ResInv, SameResources
<1>6. WaitInv(t, g)
  BY <1>0, <1>4 DEF WaitInv, InOrder, SameResources
<1>7. LinkInv(t, g, 0)
  BY <1>0, <1>4 DEF LinkInv, Unreserved, SameResources
<1> QED BY <1>0, <1>3, <1>5, <1>6, <1>7 DEF Base, t

\* A parked coroutine is cancelled or times out.
LEMMA CancelKeeps ==
    ASSUME PoolInv, NEW c \in Coroutines, cancel(c) \/ timeout(c) PROVE Base(pool', frame', 0)
<1>1. Base(pool, frame, 0) /\ frame[c].at = "waiting" /\ frame' = frame
  BY DEF PoolInv, cancel, timeout
<1>2. PICK e \in {"cancelled", "timeout"} :
          pool' = [pool EXCEPT !.queued = pool.queued \cup {c}, !.error[c] = e]
  BY DEF cancel, timeout, Resumed
<1>3. Base([pool EXCEPT !.queued = pool.queued \cup {c}, !.error[c] = e], frame, 0)
  BY <1>1, QueueKeeps
<1> QED BY <1>1, <1>2, <1>3

\* A pool that closes wakes everybody; its idle resources are dropped, but for
\* one that the health check may put back.
LEMMA ClosesKeeps ==
    ASSUME PoolInv, NEW q \in Seq(Resources), Distinct(q),
           RangeOf(q) \cap (pool.out \cup HandIn(frame)) = {},
           ~setup.hook_closes => q = <<>>,
           "strategy" \notin setup.hooks => Len(q) + pool.active_count <= max_size,
           pool' = [pool_wake_all_with_exception([pool EXCEPT !.closed = TRUE]) EXCEPT !.idle = q],
           frame' = frame
    PROVE  Base(pool', frame', 0)
<1> DEFINE failed == RangeOf(pool.waiters)
           err == [c \in Coroutines |-> IF c \in failed THEN "closed" ELSE pool.error[c]]
           t == [pool EXCEPT !.closed = TRUE, !.waiters = <<>>, !.queued = pool.queued \cup failed,
                             !.error = err, !.idle = q]
<1>0. /\ pool \in PoolType /\ ResInv(pool, frame) /\ WaitInv(pool, frame)
      /\ LinkInv(pool, frame, 0) /\ Framed(frame)
  BY DEF PoolInv, Base
<1>1. pool' = t
  BY <1>0 DEF pool_wake_all_with_exception, PoolType
<1>2. \A c : c \in failed <=> InQueue(pool.waiters, c)
  BY DEF RangeOf, InQueue
<1>3. failed \subseteq Coroutines
  BY <1>0, SMT, SMTT(30) DEF PoolType, RangeOf
<1> HIDE DEF failed
<1>4. /\ err \in [Coroutines -> {"none", "closed", "cancelled", "timeout"}]
      /\ pool.queued \cup failed \in SUBSET Coroutines /\ <<>> \in Seq(Coroutines)
  BY <1>0, <1>3, SMT, SMTT(30) DEF PoolType
<1> HIDE DEF err
<1>5. t \in PoolType
  BY <1>0, <1>4 DEF PoolType
<1>6. /\ t.idle = q /\ t.active_count = pool.active_count
      /\ t.checked_out = pool.checked_out /\ t.out = pool.out
      /\ t.waiters = <<>> /\ t.reserved = pool.reserved /\ t.reserved_count = pool.reserved_count
      /\ t.queued = pool.queued \cup failed /\ t.circuit = pool.circuit /\ t.closed
  BY <1>0 DEF PoolType
<1> HIDE DEF t
<1>7. ResInv(t, frame)
  BY <1>0, <1>6 DEF ResInv
<1>8. WaitInv(t, frame)
  <2>1. \A c : ~InQueue(<<>>, c)
    BY SMT, SMTT(30) DEF InQueue
  <2>2. InOrder(t) /\ Distinct(<<>>)
    BY <1>6, SMT, SMTT(30) DEF InOrder, Distinct
  <2>3. \A c \in Coroutines : frame[c].at = "waiting" => c \in pool.queued \cup failed
    BY <1>0, <1>2 DEF WaitInv
  <2>4. \A c \in pool.queued \cup failed : frame[c].at = "waiting"
    BY <1>0, <1>2, <1>3 DEF WaitInv
  <2> QED BY <1>0, <1>6, <2>1, <2>2, <2>3, <2>4 DEF WaitInv
<1>9. LinkInv(t, frame, 0)
  BY <1>0, <1>6 DEF LinkInv
<1> QED BY <1>0, <1>1, <1>5, <1>7, <1>8, <1>9 DEF Base

\* close(), and the health check whose hook closes the pool.
LEMMA CloseKeeps ==
    ASSUME PoolInv, zend_async_pool_close \/ healthcheck_closes PROVE Base(pool', frame', 0)
<1> DEFINE C(q) == [pool_wake_all_with_exception([pool EXCEPT !.closed = TRUE]) EXCEPT !.idle = q]
<1>0. Base(pool, frame, 0) /\ ResInv(pool, frame) /\ pool \in PoolType /\ frame' = frame
  BY DEF PoolInv, Base, zend_async_pool_close, healthcheck_closes
<1>1. pool.active_count \in Nat /\ max_size \in Nat /\ Len(pool.idle) \in Nat
  BY <1>0, Numbers
<1>2. CASE pool' = C(<<>>)
  <2>1. <<>> \in Seq(Resources) /\ Distinct(<<>>) /\ RangeOf(<<>>) = {} /\ Len(<<>>) = 0
    BY SMT, SMTT(30) DEF Distinct, RangeOf
  <2>2. "strategy" \notin setup.hooks => Len(<<>>) + pool.active_count <= max_size
    BY <1>0, <1>1, <2>1, SMT, SMTT(30) DEF ResInv
  <2> QED BY <1>0, <1>2, <2>1, <2>2, ClosesKeeps
<1>3. ASSUME NEW r \in Unused(pool), pool.active_count \in 0..min_size - 1, setup.hook_closes, pool' = C(<<r>>)
      PROVE  Base(pool', frame', 0)
  <2>1. r \in Resources /\ r \notin pool.out \cup HandIn(frame)
    BY DEF Unused, InHand, HandIn
  <2>2. <<r>> \in Seq(Resources) /\ Distinct(<<r>>) /\ RangeOf(<<r>>) = {r} /\ Len(<<r>>) = 1
    BY <2>1, SMT, SMTT(30) DEF Distinct, RangeOf
  <2>3. Len(<<r>>) + pool.active_count <= max_size
    BY <1>1, <1>3, <2>2, PoolAssumption, SMT, SMTT(30)
  <2>4. RangeOf(<<r>>) \cap (pool.out \cup HandIn(frame)) = {}
    BY <2>1, <2>2
  <2> QED BY <1>0, <1>3, <2>2, <2>3, <2>4, ClosesKeeps
<1>4. \/ pool' = C(<<>>)
      \/ \E r \in Unused(pool) : pool.active_count \in 0..min_size - 1 /\ setup.hook_closes /\ pool' = C(<<r>>)
  <2>1. CASE zend_async_pool_close
    BY <2>1 DEF zend_async_pool_close
  <2>2. CASE healthcheck_closes
    <3>1. PICK left \in {<<>>} \cup {<<r>> : r \in Unused(pool)} :
              (left # <<>> => pool.active_count \in 0..min_size - 1) /\ pool' = C(left) /\ setup.hook_closes
      BY <2>2 DEF healthcheck_closes
    <3>2. CASE left = <<>>
      BY <3>1, <3>2
    <3>3. CASE \E r \in Unused(pool) : left = <<r>>
      BY <3>1, <3>3
    <3> QED BY <3>1, <3>2, <3>3
  <2> QED BY <2>1, <2>2
<1> QED BY <1>2, <1>3, <1>4

\* The health check.
LEMMA HealthcheckKeeps ==
    ASSUME PoolInv, pool_healthcheck_timer_callback PROVE Base(pool', frame', 0)
<1>0. Base(pool, frame, 0) /\ ResInv(pool, frame) /\ pool \in PoolType /\ frame' = frame
  BY DEF PoolInv, Base, pool_healthcheck_timer_callback
<1>1. PICK n \in 0..Len(pool.idle) : \E kept \in [1..n -> DOMAIN pool.idle] :
          /\ \A i, j \in 1..n : i < j => kept[i] < kept[j]
          /\ pool' = pool_wake_waiter([pool EXCEPT !.idle = [i \in 1..n |-> pool.idle[kept[i]]]])
  BY DEF pool_healthcheck_timer_callback
<1>2. PICK kept \in [1..n -> DOMAIN pool.idle] :
          /\ \A i, j \in 1..n : i < j => kept[i] < kept[j]
          /\ pool' = pool_wake_waiter([pool EXCEPT !.idle = [i \in 1..n |-> pool.idle[kept[i]]]])
  BY <1>1
<1> DEFINE q == [i \in 1..n |-> pool.idle[kept[i]]]
           t == [pool EXCEPT !.idle = q]
<1>3. pool.idle \in Seq(Resources) /\ Distinct(pool.idle)
  BY <1>0 DEF PoolType, ResInv
<1>4. q \in Seq(Resources) /\ Distinct(q) /\ Len(q) <= Len(pool.idle) /\ RangeOf(q) \subseteq RangeOf(pool.idle)
  BY <1>2, <1>3, SubsequenceDistinct, SMT, SMTT(30)
<1>5. pool' = pool_wake_waiter(t)
  BY <1>2
<1>6. pool.active_count \in Nat /\ max_size \in Nat /\ Len(pool.idle) \in Nat /\ Len(q) \in Nat
  BY <1>0, <1>4, Numbers, SMT, SMTT(30)
<1> HIDE DEF q
<1>7. /\ RangeOf(q) \cap (pool.out \cup HandIn(frame)) = {}
      /\ "strategy" \notin setup.hooks => Len(q) + pool.active_count <= max_size
  BY <1>0, <1>4, <1>6, SMT, SMTT(30) DEF ResInv
<1>8. ~pool.closed /\ setup.healthcheck
  BY DEF pool_healthcheck_timer_callback
<1>9. Base(t, frame, 0)
  BY <1>0, <1>4, <1>7, <1>8, IdleKeeps
<1>10. Room(t)
  BY <1>8 DEF Room, Exempt
<1> HIDE DEF t
<1> QED BY <1>0, <1>5, <1>9, <1>10, Weaken, WakeKeeps

\* activate(), deactivate() and recover().
LEMMA CircuitKeeps ==
    ASSUME PoolInv, NEW state \in {"ACTIVE", "INACTIVE", "RECOVERING"}, set_circuit(state)
    PROVE  Base(pool', frame', 0)
<1>0. /\ pool \in PoolType /\ ResInv(pool, frame) /\ WaitInv(pool, frame)
      /\ LinkInv(pool, frame, 0) /\ Framed(frame)
  BY DEF PoolInv, Base
<1>1. pool' = [pool EXCEPT !.circuit = state] /\ frame' = frame /\ setup.circuit_breaker
  BY DEF set_circuit
<1> DEFINE t == [pool EXCEPT !.circuit = state]
<1>2. t \in PoolType
  BY <1>0 DEF PoolType
<1>3. SameResources(t, pool) /\ SameWaiters(t, pool)
  BY <1>0 DEF PoolType, SameResources, SameWaiters
<1>4. pool' = t
  BY <1>1
<1> HIDE DEF t
<1>5. WaitInv(t, frame)
  <2>1. pool.queued \subseteq Coroutines
    BY <1>0 DEF PoolType
  <2> QED BY <1>0, <1>3, <2>1, WaitersAside
<1>6. ResInv(t, frame)
  BY <1>0, <1>3 DEF ResInv, SameResources
<1>7. LinkInv(t, frame, 0)
  BY <1>0, <1>1, <1>3 DEF LinkInv, SameResources, SameWaiters
<1> QED BY <1>0, <1>1, <1>2, <1>4, <1>5, <1>6, <1>7 DEF Base

-----------------------------------------------------------------------
(* The theorems.                                                          *)

\* The invariant holds at first: the pool has up to min_size idle resources
\* and nobody uses it.
LEMMA InitInv == Init => PoolInv
<1> SUFFICES ASSUME Init PROVE PoolInv
  OBVIOUS
<1>1. PICK n \in 0..min_size :
          pool = [idle |-> [i \in 1..n |-> i], active_count |-> 0, checked_out |-> {}, out |-> {},
                  waiters |-> <<>>, reserved |-> {}, reserved_count |-> 0,
                  closed |-> FALSE, circuit |-> "ACTIVE",
                  queued |-> {}, error |-> [c \in Coroutines |-> "none"]]
  BY DEF Init
<1>2. frame = [c \in Coroutines |-> Idle] /\ setup \in Setups
  BY DEF Init
<1> DEFINE q == [i \in 1..n |-> i]
<1>3. n \in Nat /\ n <= max_size /\ max_size \in Nat /\ min_size \in Nat
  BY PoolAssumption, SMT, SMTT(30)
<1>4. q \in [1..n -> Resources]
  BY <1>3, PoolAssumption, SMT, SMTT(30)
<1>5. q \in Seq(Resources) /\ Len(q) = n /\ Distinct(q)
  BY <1>3, <1>4, SMT, SMTT(30) DEF Distinct
<1> HIDE DEF q
<1>6. pool \in PoolType
  <2>1. /\ [c \in Coroutines |-> "none"] \in [Coroutines -> {"none", "closed", "cancelled", "timeout"}]
        /\ <<>> \in Seq(Coroutines) /\ 0 \in Nat
    BY SMT, SMTT(30)
  <2> QED BY <1>1, <1>5, <2>1 DEF PoolType, q
<1>7. Framed(frame)
  <2>1. FrameOK(Idle)
    BY DEF FrameOK, Idle, Frame, FrameType, ResourcePlaces, HoldingPlaces, FreeingPlaces
  <2> QED BY <1>2, <2>1 DEF Framed
<1>8. HandIn(frame) = {} /\ HoldingIn(frame) = {} /\ FreeingIn(frame) = {}
  BY <1>2 DEF HandIn, HoldingIn, FreeingIn, Idle, Frame, HoldingPlaces, FreeingPlaces
<1>9. IsFiniteSet({}) /\ Cardinality({}) = 0
  BY FS_EmptySet
<1>10. /\ pool.idle = q /\ pool.active_count = 0 /\ pool.waiters = <<>>
       /\ pool.checked_out = {} /\ pool.out = {} /\ pool.reserved = {} /\ pool.reserved_count = 0 /\ pool.closed = FALSE
       /\ pool.circuit = "ACTIVE" /\ pool.queued = {}
  BY <1>1 DEF q
<1>11. ResInv(pool, frame)
  <2>1. \A c \in Coroutines : frame[c].resource = NoResource
    BY <1>2 DEF Idle, Frame
  <2> QED BY <1>3, <1>5, <1>8, <1>9, <1>10, <2>1, SMT, SMTT(30) DEF ResInv
<1>12. WaitInv(pool, frame)
  <2>1. \A c \in Coroutines : frame[c].at = "run"
    BY <1>2 DEF Idle, Frame
  <2>2. Distinct(<<>>) /\ \A c : ~InQueue(<<>>, c)
    BY SMT, SMTT(30) DEF Distinct, InQueue
  <2> QED BY <1>9, <1>10, <2>1, <2>2 DEF WaitInv, InOrder
<1>13. LinkInv(pool, frame, 0)
  BY <1>3, <1>10, SMT, SMTT(30) DEF LinkInv, Unreserved
<1> QED BY <1>2, <1>6, <1>7, <1>11, <1>12, <1>13 DEF PoolInv, Base

\* Every step that keeps to the rules keeps the invariant.
LEMMA NextInv == PoolInv /\ [Next]_vars /\ ~misused' => PoolInv'
<1> SUFFICES ASSUME PoolInv, [Next]_vars, ~misused' PROVE PoolInv'
  OBVIOUS
<1>1. CASE UNCHANGED vars
  BY <1>1 DEF vars, PoolInv, Base, Framed, FrameOK, ResInv, WaitInv, LinkInv, Exempt
<1>2. CASE Next
  <2>1. setup' = setup /\ (Step \/ \E c \in Coroutines, r \in Resources : release(c, r))
    BY <1>2 DEF Next, drop
  <2>2. ASSUME NEW c \in Coroutines, acquire(c) \/ try_acquire(c) PROVE Base(pool', frame', 0)
    BY <2>2, AcquireKeeps
  <2>3. ASSUME NEW c \in Coroutines, resume(c) PROVE Base(pool', frame', 0)
    BY <2>3, ResumeKeeps
  <2>4. ASSUME NEW c \in Coroutines, NEW outcome \in Outcomes, before_acquire_returns(c, outcome)
        PROVE  Base(pool', frame', 0)
    BY <2>4, BeforeAcquireKeeps
  <2>5. ASSUME NEW c \in Coroutines, NEW throws \in BOOLEAN, acquire_destroy_returns(c, throws)
        PROVE  Base(pool', frame', 0)
    BY <2>5, AcquireDestroyKeeps
  <2>6. ASSUME NEW c \in Coroutines, NEW good \in BOOLEAN, factory_returns(c, good)
        PROVE  Base(pool', frame', 0)
    BY <2>6, FactoryKeeps
  <2>7. ASSUME NEW c \in Coroutines, NEW r \in Resources, release(c, r) PROVE Base(pool', frame', 0)
    BY <2>7, ReleaseKeeps
  <2>8. ASSUME NEW c \in Coroutines,
               \/ \E outcome \in Outcomes : before_release_returns(c, outcome)
               \/ report_success_returns(c) \/ report_failure_returns(c) \/ release_destroy_returns(c)
        PROVE  Base(pool', frame', 0)
    BY <2>8, ReleaseHooksKeep
  <2>9. ASSUME NEW c \in Coroutines, cancel(c) \/ timeout(c) PROVE Base(pool', frame', 0)
    BY <2>9, CancelKeeps
  <2>10. ASSUME zend_async_pool_close \/ healthcheck_closes PROVE Base(pool', frame', 0)
    BY <2>10, CloseKeeps
  <2>11. ASSUME NEW state \in {"ACTIVE", "INACTIVE", "RECOVERING"}, set_circuit(state)
         PROVE  Base(pool', frame', 0)
    BY <2>11, CircuitKeeps
  <2>12. ASSUME pool_healthcheck_timer_callback PROVE Base(pool', frame', 0)
    BY <2>12, HealthcheckKeeps
  <2>13. Base(pool', frame', 0)
    BY <2>1, <2>2, <2>3, <2>4, <2>5, <2>6, <2>7, <2>8, <2>9, <2>10, <2>11, <2>12 DEF Step
  <2>14. setup' \in Setups
    BY <2>1 DEF PoolInv
  <2> QED BY <2>1, <2>13, <2>14 DEF PoolInv, Base, Framed, FrameOK, ResInv, WaitInv, LinkInv, Exempt
<1> QED BY <1>1, <1>2

\* What callers did stays done.
LEMMA MisusedStays == misused /\ [Next]_vars => misused'
BY DEF Next, vars, release, drop

\* The invariant holds as long as callers keep to the rules.
LEMMA Invariant == Spec => [](misused \/ PoolInv)
BY InitInv, NextInv, MisusedStays, PTL DEF Spec

\* Resources and places are accounted for exactly: a resource is never handed
\* to two coroutines, active_count and reserved_count count what they say, they
\* stay within max_size, and a closed pool keeps nothing idle.  For every
\* number of coroutines, every min_size and max_size, all hooks and any mix of
\* objects and scalars, until a caller releases a scalar it does not have or
\* drops an object.
THEOREM PoolCountsAreExact == Spec => []CountsAreExact
<1>1. ASSUME ~misused => PoolInv PROVE CountsAreExact
  <2> SUFFICES ASSUME PoolInv PROVE CountsAreExact
    BY <1>1 DEF CountsAreExact
  <2>1. ResInv(pool, frame) /\ WaitInv(pool, frame) /\ LinkInv(pool, frame, 0)
    BY <1>1 DEF PoolInv, Base
  <2>2. HandIn(frame) = InHand /\ HoldingIn(frame) = Holding
    BY DEF HandIn, InHand, HoldingIn, Holding, HoldingPlaces
  <2>3. EveryResourceOnce
    BY <2>1, <2>2 DEF ResInv, EveryResourceOnce, Distinct
  <2>4. TotalFits /\ ReservationsFit
    BY <2>1 DEF ResInv, LinkInv, TotalFits, ReservationsFit, Exempt
  <2> QED BY <2>1, <2>2, <2>3, <2>4 DEF ResInv, WaitInv, CountsAreExact
<1> QED BY <1>1, Invariant, PTL

\* Arrival order is the service order, and nobody waits without a reservation
\* beside a place that no call holds or is about to report, as long as callers
\* keep to the rules.
THEOREM PoolWaitersComeFirst == Spec => []WaitersComeFirst
<1>1. ASSUME ~misused => PoolInv PROVE WaitersComeFirst
  <2> SUFFICES ASSUME PoolInv PROVE WaitersComeFirst
    BY <1>1 DEF WaitersComeFirst
  <2>1. WaitInv(pool, frame) /\ LinkInv(pool, frame, 0)
    BY <1>1 DEF PoolInv, Base
  <2>2. FreeingIn(frame) = Freeing
    BY DEF FreeingIn, Freeing, FreeingPlaces
  <2>3. Cardinality(FreeingIn(frame)) \in Nat /\ pool.active_count \in Nat /\ pool.reserved_count \in Nat
    BY <1>1, Numbers DEF PoolInv
  <2> QED BY <2>1, <2>2, <2>3, SMT, SMTT(30) DEF WaitInv, InOrder, LinkInv, WaitersComeFirst
<1> QED BY <1>1, Invariant, PTL

\* When every woken coroutine has run, every hook has returned and everything
\* is back, nobody is parked: no wakeup was lost on the way, as long as callers
\* keep to the rules.
THEOREM PoolEveryAcquireEnds == Spec => []EveryAcquireEnds
<1>1. ASSUME ~misused => PoolInv PROVE EveryAcquireEnds
  <2> SUFFICES ASSUME PoolInv PROVE EveryAcquireEnds
    BY <1>1 DEF EveryAcquireEnds
  <2> SUFFICES ASSUME pool.queued = {}, pool.out = {},
                      \A c \in Coroutines : frame[c].at \in {"run", "waiting"},
                      ~setup.circuit_breaker,
                      NEW c \in Coroutines, frame[c].at # "run"
               PROVE  FALSE
    BY DEF EveryAcquireEnds
  <2>1. ResInv(pool, frame) /\ WaitInv(pool, frame) /\ LinkInv(pool, frame, 0)
    BY <1>1 DEF PoolInv, Base
  <2>2. InQueue(pool.waiters, c) /\ pool.reserved = {} /\ ~pool.closed
    BY <2>1, SMT, SMTT(30) DEF WaitInv, InQueue
  <2>3. Unreserved(pool) # {}
    BY <2>2 DEF InQueue, Unreserved
  <2>4. HoldingIn(frame) = {} /\ FreeingIn(frame) = {}
    BY DEF HoldingIn, FreeingIn, HoldingPlaces, FreeingPlaces
  <2>5. Cardinality({}) = 0
    BY FS_EmptySet
  <2>6. pool.active_count = 0 /\ pool.reserved_count = 0
    <3>1. pool.active_count = Cardinality(pool.out) + Cardinality(HoldingIn(frame))
      BY <2>1 DEF ResInv
    <3>2. pool.reserved_count = Cardinality(pool.reserved)
      BY <2>1 DEF WaitInv
    <3> QED BY <2>2, <2>4, <2>5, <3>1, <3>2, SMT, SMTT(30)
  <2> QED BY <2>1, <2>2, <2>3, <2>4, <2>5, <2>6, PoolAssumption, SMT, SMTT(30) DEF LinkInv
<1> QED BY <1>1, Invariant, PTL
=======================================================================
