------------------------ MODULE FsWatcherProofs ------------------------
(* Proofs about FsWatcher: a burst is held no longer than allowed, and     *)
(* every change reaches whoever iterates while the watcher is open, for    *)
(* every tree, every number of iterating coroutines, and all times and     *)
(* settings of the watcher.                                                *)
(*                                                                         *)
(* What the reactor's watch of the tree does matters to the watcher only   *)
(* by the notifications it makes, of any name and kind and at any time, so *)
(* the invariant is about the watcher's own variables.                     *)
EXTENDS FsWatcher, TLAPS

\* The provers to try on a leaf that names none.
USE Zenon, SMT, SMTT(30)

IterStates == {"none", "running", "ready", "parked", "thrown", "ended"}

\* A sequence, whatever it holds, and one of buffered events.
IsSeq(b) == b \in Seq({b[k] : k \in DOMAIN b})

IsBuffer(b) == /\ IsSeq(b)
               /\ \A k \in 1..Len(b) : b[k] = [name |-> b[k].name, kinds |-> b[k].kinds]

\* The fields of the watcher and of the history.
Watcher(c, b, d, f, p) == [closed |-> c, buffer |-> b, dirty |-> d, first |-> f, pending |-> p]

Seen(o, f, l) == [owed |-> o, failed |-> f, last |-> l]

WatcherRec(w) ==
    /\ w = Watcher(w.closed, w.buffer, w.dirty, w.first, w.pending)
    /\ w.closed \in BOOLEAN /\ w.dirty \in BOOLEAN /\ w.first \in Nat /\ IsBuffer(w.buffer)

SeenRec(s) ==
    /\ s = Seen(s.owed, s.failed, s.last)
    /\ s.failed \in BOOLEAN /\ s.last \in Nat
    /\ \A c \in s.owed : c = <<c[1], c[2]>>

TypeOK ==
    /\ plan \in Plans
    /\ WatcherRec(watcher) /\ SeenRec(seen)
    /\ timer \in Nat \cup {Off} /\ trigger \in BOOLEAN
    /\ iter \in [Iterators -> IterStates]
    /\ now \in Nat /\ clock \in Nat /\ clock <= now

\* Without a quiet time there is no burst, and who is parked has nothing to take.
Plain == ~Debounce => /\ ~watcher.dirty
                      /\ \A i \in Iterators : iter[i] = "parked" => watcher.buffer = <<>>

\* Who is parked beside an event, or on a closed watcher, is about to be woken.
Woken ==
    \A i \in Iterators : iter[i] = "parked" =>
        /\ watcher.buffer # <<>> => trigger
        /\ watcher.closed /\ ~(seen.failed /\ Debounce) => trigger

WatcherInv == TypeOK /\ Plain /\ Woken /\ HoldIsBounded /\ ChangesAreReported

-----------------------------------------------------------------------
(* Sequences and the buffer.                                               *)

(* A sequence's length is a number and its indices run from one to it.     *)
LEMMA SeqIs ==
    ASSUME NEW b, IsSeq(b)
    PROVE  Len(b) \in Nat /\ DOMAIN b = 1..Len(b) /\ (b = <<>> <=> Len(b) = 0)
BY SMT, SMTT(30) DEF IsSeq

(* A function of the numbers from one on is a sequence.                    *)
LEMMA ListIs ==
    ASSUME NEW n \in Nat, NEW f, f = [k \in 1..n |-> f[k]]
    PROVE  IsSeq(f) /\ Len(f) = n
BY SMT, SMTT(30) DEF IsSeq

(* A sequence of members of any set is one.                                *)
LEMMA SeqOfIs ==
    ASSUME NEW S, NEW b \in Seq(S)
    PROVE  IsSeq(b)
<1>1. Len(b) \in Nat /\ b = [k \in 1..Len(b) |-> b[k]]
    BY SMT, SMTT(30)
<1> QED BY <1>1, ListIs

(* What an event put at the end of the buffer leaves and adds.             *)
LEMMA AppendIs ==
    ASSUME NEW b, IsSeq(b), NEW e
    PROVE  /\ IsSeq(Append(b, e)) /\ Len(Append(b, e)) = Len(b) + 1
           /\ \A k \in 1..Len(b) : Append(b, e)[k] = b[k]
           /\ Append(b, e)[Len(b) + 1] = e
<1>1. b \in Seq({b[k] : k \in DOMAIN b} \cup {e})
    BY SMT, SMTT(30) DEF IsSeq
<1>2. Append(b, e) \in Seq({b[k] : k \in DOMAIN b} \cup {e})
    BY <1>1, SMT, SMTT(30)
<1>3. IsSeq(Append(b, e))
    BY <1>2, SeqOfIs
<1> QED BY <1>1, <1>3, SMT, SMTT(30)

(* What is left when an iterator takes the oldest event.                   *)
LEMMA TailIs ==
    ASSUME NEW b, IsSeq(b), b # <<>>
    PROVE  /\ IsSeq(Tail(b)) /\ Len(Tail(b)) + 1 = Len(b)
           /\ \A k \in 1..Len(Tail(b)) : Tail(b)[k] = b[k + 1]
           /\ Head(b) = b[1]
<1>1. Tail(b) \in Seq({b[k] : k \in DOMAIN b})
    BY SMT, SMTT(30) DEF IsSeq
<1>2. IsSeq(Tail(b))
    BY <1>1, SeqOfIs
<1>3. b \in Seq({b[k] : k \in DOMAIN b}) /\ Len(b) # 0
    BY SMT, SMTT(30) DEF IsSeq
<1>4. Len(Tail(b)) + 1 = Len(b) /\ \A k \in 1..Len(Tail(b)) : Tail(b)[k] = b[k + 1]
    BY <1>3, SMT, SMTT(30)
<1>5. Head(b) = b[1]
    BY <1>3, SMT, SMTT(30)
<1> QED BY <1>2, <1>4, <1>5

\* The buffer holds an event of the change c: a name and a kind.
Holds(b, c) == \E k \in 1..Len(b) : b[k].name = c[1] /\ c[2] \in b[k].kinds

(* Adding kinds to a buffered event leaves its name.                       *)
LEMMA MergedIs ==
    ASSUME NEW e, e = [name |-> e.name, kinds |-> e.kinds], NEW ks
    PROVE  [e EXCEPT !.kinds = ks] = [name |-> e.name, kinds |-> ks]
<1> DEFINE n == e.name
           old == e.kinds
<1>1. e = [name |-> n, kinds |-> old]
    OBVIOUS
<1> HIDE DEF n, old
<1>2. [e EXCEPT !.kinds = ks] = [name |-> n, kinds |-> ks]
    BY <1>1, SMT, SMTT(30)
<1> QED BY <1>2 DEF n

(* Storing an event keeps the events of every change the buffer held, and  *)
(* adds one of the new change, coalesced or not.                           *)
LEMMA StoreKeeps ==
    ASSUME NEW b, IsBuffer(b), NEW name, NEW kind
    PROVE  /\ IsBuffer(Store(b, name, {kind}))
           /\ \A c : Holds(b, c) => Holds(Store(b, name, {kind}), c)
           /\ Holds(Store(b, name, {kind}), <<name, kind>>)
<1> DEFINE s == Store(b, name, {kind})
<1>0. IsSeq(b) /\ Len(b) \in Nat /\ \A k \in 1..Len(b) : b[k] = [name |-> b[k].name, kinds |-> b[k].kinds]
    BY SeqIs DEF IsBuffer
<1>1. CASE plan.coalesce /\ \E k \in 1..Len(b) : b[k].name = name
    <2> DEFINE g(k) == IF b[k].name = name THEN [b[k] EXCEPT !.kinds = b[k].kinds \cup {kind}] ELSE b[k]
    <2>1. s = [k \in 1..Len(b) |-> g(k)]
        BY <1>1 DEF Store
    <2>2. IsSeq(s) /\ Len(s) = Len(b)
        <3> HIDE DEF s, g
        <3>1. s = [k \in 1..Len(b) |-> s[k]]
            BY <2>1
        <3> QED BY <3>1, <1>0, ListIs
    <2>3. \A k \in 1..Len(b) : /\ s[k] = [name |-> s[k].name, kinds |-> s[k].kinds]
                               /\ s[k].name = b[k].name
                               /\ \A x \in b[k].kinds : x \in s[k].kinds
                               /\ b[k].name = name => kind \in s[k].kinds
        <3> SUFFICES ASSUME NEW k \in 1..Len(b)
                     PROVE  /\ g(k) = [name |-> g(k).name, kinds |-> g(k).kinds]
                            /\ g(k).name = b[k].name
                            /\ \A x \in b[k].kinds : x \in g(k).kinds
                            /\ b[k].name = name => kind \in g(k).kinds
            <4> HIDE DEF s, g
            <4> QED BY <2>1
        <3>1. b[k] = [name |-> b[k].name, kinds |-> b[k].kinds]
            BY <1>0
        <3>2. [b[k] EXCEPT !.kinds = b[k].kinds \cup {kind}] = [name |-> b[k].name, kinds |-> b[k].kinds \cup {kind}]
            BY <3>1, MergedIs
        <3> QED BY <3>1, <3>2
    <2> HIDE DEF s, g
    <2>4. IsBuffer(s)
        BY <2>2, <2>3 DEF IsBuffer
    <2>5. \A c : Holds(b, c) => Holds(s, c)
        BY <2>2, <2>3 DEF Holds
    <2>6. Holds(s, <<name, kind>>)
        BY <2>2, <2>3, <1>1 DEF Holds
    <2> QED BY <2>4, <2>5, <2>6 DEF s
<1>2. CASE ~(plan.coalesce /\ \E k \in 1..Len(b) : b[k].name = name)
    <2> DEFINE e == [name |-> name, kinds |-> {kind}]
    <2>1. s = Append(b, e)
        BY <1>2 DEF Store
    <2>2. e = [name |-> e.name, kinds |-> e.kinds] /\ e.name = name /\ kind \in e.kinds
        OBVIOUS
    <2> HIDE DEF s, e
    <2>3. IsSeq(s) /\ Len(s) = Len(b) + 1 /\ (\A k \in 1..Len(b) : s[k] = b[k]) /\ s[Len(b) + 1] = e
        BY <2>1, <1>0, AppendIs, SMT, SMTT(30)
    <2>4. \A k \in 1..Len(s) : k \in 1..Len(b) \/ k = Len(b) + 1
        BY <2>3, <1>0, SMT, SMTT(30)
    <2>5. IsBuffer(s)
        BY <2>2, <2>3, <2>4, <1>0 DEF IsBuffer
    <2>6. \A c : Holds(b, c) => Holds(s, c)
        BY <2>3, <1>0, SMT, SMTT(30) DEF Holds
    <2>7. Holds(s, <<name, kind>>)
        BY <2>2, <2>3, <1>0, SMT, SMTT(30) DEF Holds
    <2> QED BY <2>5, <2>6, <2>7 DEF s
<1> QED BY <1>1, <1>2

-----------------------------------------------------------------------
(* The records: what an update of some fields leaves of the others.        *)

(* A watcher of given fields has them, and is one when they are typed.     *)
LEMMA WatcherIs ==
    ASSUME NEW c, NEW b, NEW d, NEW f, NEW p, NEW w, w = Watcher(c, b, d, f, p)
    PROVE  /\ w.closed = c /\ w.buffer = b /\ w.dirty = d /\ w.first = f /\ w.pending = p
           /\ c \in BOOLEAN /\ IsBuffer(b) /\ d \in BOOLEAN /\ f \in Nat => WatcherRec(w)
<1>1. w.closed = c /\ w.buffer = b /\ w.dirty = d /\ w.first = f /\ w.pending = p
    BY DEF Watcher
<1> QED BY <1>1 DEF WatcherRec

(* A history of given fields has them, and is one when they are typed.     *)
LEMMA SeenIs ==
    ASSUME NEW o, NEW f, NEW l, NEW s, s = Seen(o, f, l)
    PROVE  /\ s.owed = o /\ s.failed = f /\ s.last = l
           /\ f \in BOOLEAN /\ l \in Nat /\ (\A c \in o : c = <<c[1], c[2]>>) => SeenRec(s)
<1>1. s.owed = o /\ s.failed = f /\ s.last = l
    BY DEF Seen
<1> QED BY <1>1 DEF SeenRec

(* An update of one field of the watcher.                                  *)
LEMMA UpdatedIs ==
    ASSUME NEW w, WatcherRec(w), NEW x
    PROVE  /\ [w EXCEPT !.closed = x] = Watcher(x, w.buffer, w.dirty, w.first, w.pending)
           /\ [w EXCEPT !.buffer = x] = Watcher(w.closed, x, w.dirty, w.first, w.pending)
           /\ [w EXCEPT !.pending = x] = Watcher(w.closed, w.buffer, w.dirty, w.first, x)
<1> DEFINE c == w.closed  b == w.buffer  d == w.dirty  f == w.first  p == w.pending
<1>0. w = Watcher(c, b, d, f, p)
    BY DEF WatcherRec
<1> HIDE DEF c, b, d, f, p
<1>1. [w EXCEPT !.closed = x] = Watcher(x, b, d, f, p)
    BY <1>0, SMT, SMTT(30) DEF Watcher
<1>2. [w EXCEPT !.buffer = x] = Watcher(c, x, d, f, p)
    BY <1>0, SMT, SMTT(30) DEF Watcher
<1>3. [w EXCEPT !.pending = x] = Watcher(c, b, d, f, x)
    BY <1>0, SMT, SMTT(30) DEF Watcher
<1> QED BY <1>1, <1>2, <1>3 DEF c, b, d, f, p

(* What the destructor leaves.                                             *)
LEMMA DroppedIs ==
    ASSUME NEW w, WatcherRec(w), NEW x, NEW y
    PROVE  [w EXCEPT !.closed = x, !.buffer = y] = Watcher(x, y, w.dirty, w.first, w.pending)
<1>1. [w EXCEPT !.closed = x, !.buffer = y] = [[w EXCEPT !.closed = x] EXCEPT !.buffer = y]
    OBVIOUS
<1> DEFINE b == w.buffer  d == w.dirty  f == w.first  p == w.pending
<1>2. [w EXCEPT !.closed = x] = Watcher(x, b, d, f, p)
    BY UpdatedIs
<1> HIDE DEF b, d, f, p
<1>3. [Watcher(x, b, d, f, p) EXCEPT !.buffer = y] = Watcher(x, y, d, f, p)
    BY SMT, SMTT(30) DEF Watcher
<1> QED BY <1>1, <1>2, <1>3 DEF d, f, p

\* Setting the fields of a burst.
Burst(w, x, y, z) == [w EXCEPT !.dirty = x, !.first = y, !.pending = z]

(* It leaves the others.                                                   *)
LEMMA BurstIs ==
    ASSUME NEW w, WatcherRec(w), NEW x, NEW y, NEW z
    PROVE  Burst(w, x, y, z) = Watcher(w.closed, w.buffer, x, y, z)
<1> DEFINE c == w.closed  b == w.buffer  d == w.dirty  f == w.first  p == w.pending
<1>0. w = Watcher(c, b, d, f, p)
    BY DEF WatcherRec
<1> HIDE DEF c, b, d, f, p
<1>1. [w EXCEPT !.dirty = x, !.first = y, !.pending = z]
        = [[[w EXCEPT !.dirty = x] EXCEPT !.first = y] EXCEPT !.pending = z]
    OBVIOUS
<1>2. [w EXCEPT !.dirty = x] = Watcher(c, b, x, f, p)
    BY <1>0, SMT, SMTT(30) DEF Watcher
<1>3. [Watcher(c, b, x, f, p) EXCEPT !.first = y] = Watcher(c, b, x, y, p)
    BY SMT, SMTT(30) DEF Watcher
<1>4. [Watcher(c, b, x, y, p) EXCEPT !.pending = z] = Watcher(c, b, x, y, z)
    BY SMT, SMTT(30) DEF Watcher
<1> QED BY <1>1, <1>2, <1>3, <1>4 DEF c, b, Burst

\* The buffer when a burst has become an event.
Flushed(w) == IF plan.coalesce /\ \E k \in 1..Len(w.buffer) : w.buffer[k].name = <<>> THEN w.buffer
              ELSE Append(w.buffer, [name |-> <<>>, kinds |-> w.pending])

(* What is left of the watcher's burst then.                               *)
LEMMA FlushIs ==
    ASSUME NEW w, WatcherRec(w)
    PROVE  Flush(w) = Watcher(w.closed, Flushed(w), FALSE, 0, {})
<1> DEFINE c == w.closed  b == w.buffer  no == FALSE  new == Flushed(w)
<1>1. Flush(w) = [w EXCEPT !.dirty = no, !.first = 0, !.pending = {}, !.buffer = new]
    BY DEF Flush, Flushed
<1>2. [w EXCEPT !.dirty = no, !.first = 0, !.pending = {}] = Watcher(c, b, no, 0, {})
    <2>1. Burst(w, no, 0, {}) = Watcher(c, b, no, 0, {})
        <3> HIDE DEF no
        <3> QED BY BurstIs
    <2> QED BY <2>1 DEF Burst
<1> HIDE DEF c, b, no, new
<1>3. [w EXCEPT !.dirty = no, !.first = 0, !.pending = {}, !.buffer = new]
        = [[w EXCEPT !.dirty = no, !.first = 0, !.pending = {}] EXCEPT !.buffer = new]
    OBVIOUS
<1>4. [Watcher(c, b, no, 0, {}) EXCEPT !.buffer = new] = Watcher(c, new, no, 0, {})
    BY SMT, SMTT(30) DEF Watcher
<1> QED BY <1>1, <1>2, <1>3, <1>4 DEF c, no, new

(* A change marks the burst, and begins it if there was none.              *)
LEMMA MarkedIs ==
    ASSUME NEW w, WatcherRec(w), now \in Nat, NEW kind
    PROVE  LET m == MarkDirty(w, kind)
           IN  /\ WatcherRec(m) /\ m.dirty /\ m.closed = w.closed /\ m.buffer = w.buffer
               /\ m.first = IF w.dirty THEN w.first ELSE now
<1> DEFINE m == MarkDirty(w, kind)
           yes == TRUE
           all == w.pending \cup {kind}
           one == {kind}
<1>0. w.closed \in BOOLEAN /\ w.dirty \in BOOLEAN /\ w.first \in Nat /\ IsBuffer(w.buffer) /\ yes \in BOOLEAN
    BY DEF WatcherRec
<1>1. CASE w.dirty
    <2>1. m = Watcher(w.closed, w.buffer, w.dirty, w.first, all)
        BY <1>1, UpdatedIs DEF MarkDirty
    <2> HIDE DEF m, all
    <2>2. /\ m.closed = w.closed /\ m.buffer = w.buffer /\ m.dirty = w.dirty /\ m.first = w.first /\ WatcherRec(m)
        BY <1>0, <2>1, WatcherIs, SMT, SMTT(30)
    <2> QED BY <1>1, <2>2 DEF m
<1>2. CASE ~w.dirty
    <2>1. m = Watcher(w.closed, w.buffer, yes, now, one)
        <3>1. Burst(w, yes, now, one) = Watcher(w.closed, w.buffer, yes, now, one)
            <4> HIDE DEF yes, one
            <4> QED BY BurstIs
        <3> QED BY <1>2, <3>1 DEF Burst, MarkDirty
    <2> HIDE DEF m, yes, one
    <2>2. /\ m.closed = w.closed /\ m.buffer = w.buffer /\ m.dirty = yes /\ m.first = now /\ WatcherRec(m)
        BY <1>0, <2>1, WatcherIs, SMT, SMTT(30)
    <2>3. m.dirty
        BY <2>2 DEF yes
    <2> QED BY <1>2, <2>2, <2>3 DEF m
<1> QED BY <1>0, <1>1, <1>2

(* An update of one field of the history.                                  *)
LEMMA RecordedIs ==
    ASSUME NEW s, SeenRec(s), NEW x
    PROVE  /\ [s EXCEPT !.owed = x] = Seen(x, s.failed, s.last)
           /\ [s EXCEPT !.failed = x] = Seen(s.owed, x, s.last)
<1> DEFINE o == s.owed  f == s.failed  l == s.last
<1>0. s = Seen(o, f, l)
    BY DEF SeenRec
<1> HIDE DEF o, f, l
<1>1. [s EXCEPT !.owed = x] = Seen(x, f, l)
    BY <1>0, SMT, SMTT(30) DEF Seen
<1>2. [s EXCEPT !.failed = x] = Seen(o, x, l)
    BY <1>0, SMT, SMTT(30) DEF Seen
<1> QED BY <1>1, <1>2 DEF o, f, l

\* Noting a change.
Noted(s, x, y) == [s EXCEPT !.owed = x, !.last = y]

(* It leaves whether the watch has failed.                                 *)
LEMMA NotedIs ==
    ASSUME NEW s, SeenRec(s), NEW x, NEW y
    PROVE  Noted(s, x, y) = Seen(x, s.failed, y)
<1> DEFINE f == s.failed  l == s.last
<1>1. [s EXCEPT !.owed = x] = Seen(x, f, l)
    BY RecordedIs
<1> HIDE DEF f, l
<1>2. [s EXCEPT !.owed = x, !.last = y] = [[s EXCEPT !.owed = x] EXCEPT !.last = y]
    OBVIOUS
<1>3. [Seen(x, f, l) EXCEPT !.last = y] = Seen(x, f, y)
    BY SMT, SMTT(30) DEF Seen
<1> QED BY <1>1, <1>2, <1>3 DEF f, Noted

-----------------------------------------------------------------------
(* The actions.                                                            *)

(* The types of the fields.                                                *)
LEMMA FieldsAre ==
    ASSUME WatcherInv
    PROVE  /\ watcher.closed \in BOOLEAN /\ watcher.dirty \in BOOLEAN /\ watcher.first \in Nat /\ IsBuffer(watcher.buffer)
           /\ seen.failed \in BOOLEAN /\ seen.last \in Nat /\ (\A c \in seen.owed : c = <<c[1], c[2]>>)
           /\ TRUE \in BOOLEAN /\ FALSE \in BOOLEAN
BY DEF WatcherInv, TypeOK, WatcherRec, SeenRec

(* Waking who is parked leaves nobody parked.                              *)
LEMMA WakeIs ==
    ASSUME iter \in [Iterators -> IterStates], NEW how \in {"ready", "thrown"}
    PROVE  Wake(iter, how) \in [Iterators -> IterStates] /\ \A i \in Iterators : Wake(iter, how)[i] # "parked"
BY DEF Wake, IterStates

(* A step that leaves the watcher, the history and the coroutines alone    *)
(* keeps the invariant, when the timer and the clocks stay right.          *)
LEMMA SameKeeps ==
    ASSUME WatcherInv, UNCHANGED <<plan, watcher, seen, iter, trigger, timer>>, now' \in Nat, clock' \in Nat, clock' <= now'
    PROVE  WatcherInv'
BY DEF WatcherInv, TypeOK, Plain, Woken, HoldIsBounded, ChangesAreReported, Debounce

(* A watcher that closes keeps its buffer for the iterators.               *)
LEMMA ClosedReports ==
    ASSUME ChangesAreReported, plan' = plan, watcher'.closed,
           watcher'.buffer = watcher.buffer, watcher'.dirty = watcher.dirty, seen'.owed = seen.owed
    PROVE  ChangesAreReported'
<1>1. CASE watcher.dirty
    BY <1>1 DEF ChangesAreReported
<1>2. CASE ~watcher.dirty
    <2>1. \A c \in seen.owed : (Debounce /\ watcher.buffer # <<>>) \/ Holds(watcher.buffer, c)
        BY <1>2 DEF ChangesAreReported, Holds
    <2>2. \A c \in seen'.owed : (Debounce' /\ watcher'.buffer # <<>>) \/ Holds(watcher'.buffer, c)
        BY <2>1 DEF Debounce
    <2> QED BY <2>2 DEF ChangesAreReported, Holds
<1> QED BY <1>1, <1>2

(* Closing, by close() or by an error of the backend.                      *)
LEMMA CloseKeeps ==
    ASSUME WatcherInv, Close
    PROVE  WatcherInv'
<1> DEFINE yes == TRUE
<1>0. yes \in BOOLEAN
    OBVIOUS
<1>1. /\ watcher' = Watcher(yes, watcher.buffer, watcher.dirty, watcher.first, watcher.pending)
      /\ timer' = Off /\ trigger' = (trigger \/ Debounce) /\ UNCHANGED <<plan, now, clock, seen>>
      /\ iter' = IF Debounce THEN iter ELSE Wake(iter, "ready")
    BY UpdatedIs DEF Close, DoClose, WatcherInv, TypeOK
<1> HIDE DEF yes
<1>2. watcher'.closed = yes /\ watcher'.buffer = watcher.buffer /\ watcher'.dirty = watcher.dirty /\ WatcherRec(watcher')
    BY <1>0, <1>1, WatcherIs, FieldsAre, SMT, SMTT(30)
<1>3. ~Debounce => iter' \in [Iterators -> IterStates] /\ \A i \in Iterators : iter'[i] # "parked"
    BY <1>1, WakeIs DEF WatcherInv, TypeOK
<1>4. TypeOK'
    BY <1>1, <1>2, <1>3 DEF WatcherInv, TypeOK
<1>5. watcher'.closed
    BY <1>2 DEF yes
<1>6. Plain'
    BY <1>1, <1>2, <1>3 DEF WatcherInv, Plain, Debounce
<1>7. Woken'
    BY <1>1, <1>2, <1>3 DEF WatcherInv, Woken, Debounce
<1>8. HoldIsBounded'
    BY <1>5 DEF HoldIsBounded
<1>9. ChangesAreReported'
    BY <1>1, <1>2, <1>5, ClosedReports DEF WatcherInv
<1> QED BY <1>4, <1>6, <1>7, <1>8, <1>9 DEF WatcherInv

(* The backend's error closes the watcher and keeps the timer.             *)
LEMMA OnFsErrorKeeps ==
    ASSUME WatcherInv, OnFsError
    PROVE  WatcherInv'
<1> DEFINE yes == TRUE
<1>0. yes \in BOOLEAN
    OBVIOUS
<1>1. /\ watcher' = Watcher(yes, watcher.buffer, watcher.dirty, watcher.first, watcher.pending)
      /\ seen' = Seen(seen.owed, yes, seen.last) /\ UNCHANGED <<plan, timer, trigger, now, clock>>
      /\ iter' = IF Debounce THEN iter ELSE Wake(iter, "thrown")
    BY UpdatedIs, RecordedIs DEF OnFsError, WatcherInv, TypeOK
<1> HIDE DEF yes
<1>2. watcher'.closed = yes /\ watcher'.buffer = watcher.buffer /\ watcher'.dirty = watcher.dirty /\ WatcherRec(watcher')
    BY <1>0, <1>1, WatcherIs, FieldsAre, SMT, SMTT(30)
<1>3. seen'.owed = seen.owed /\ seen'.failed = yes /\ SeenRec(seen')
    BY <1>0, <1>1, SeenIs, FieldsAre, SMT, SMTT(30)
<1>4. ~Debounce => iter' \in [Iterators -> IterStates] /\ \A i \in Iterators : iter'[i] # "parked"
    BY <1>1, WakeIs DEF WatcherInv, TypeOK
<1>5. TypeOK'
    BY <1>1, <1>2, <1>3, <1>4 DEF WatcherInv, TypeOK
<1>6. watcher'.closed /\ seen'.failed
    BY <1>2, <1>3 DEF yes
<1>7. Plain'
    BY <1>1, <1>2, <1>4 DEF WatcherInv, Plain, Debounce
<1>8. Woken'
    BY <1>1, <1>2, <1>4, <1>6 DEF WatcherInv, Woken, Debounce
<1>9. HoldIsBounded'
    BY <1>6 DEF HoldIsBounded
<1>10. ChangesAreReported'
    BY <1>1, <1>2, <1>3, <1>6, ClosedReports DEF WatcherInv
<1> QED BY <1>5, <1>7, <1>8, <1>9, <1>10 DEF WatcherInv

(* The destructor empties the buffer when nobody is parked.                *)
LEMMA DropKeeps ==
    ASSUME WatcherInv, Drop
    PROVE  WatcherInv'
<1> DEFINE yes == TRUE
<1>0. yes \in BOOLEAN /\ IsBuffer(<<>>)
    <2>1. <<>> \in Seq({})
        BY SMT, SMTT(30)
    <2>2. IsSeq(<<>>) /\ Len(<<>>) = 0
        BY <2>1, SeqOfIs
    <2> QED BY <2>2, SMT, SMTT(30) DEF IsBuffer
<1>1. /\ watcher' = Watcher(yes, <<>>, watcher.dirty, watcher.first, watcher.pending)
      /\ seen' = Seen({}, seen.failed, seen.last) /\ UNCHANGED <<plan, iter, now, clock>>
      /\ timer' = Off /\ trigger' = FALSE
      /\ \A i \in Iterators : iter[i] \in {"none", "ended"}
    <2>1. WatcherRec(watcher) /\ SeenRec(seen)
        BY DEF WatcherInv, TypeOK
    <2>2. [watcher EXCEPT !.closed = yes, !.buffer = <<>>] = Watcher(yes, <<>>, watcher.dirty, watcher.first, watcher.pending)
        BY <2>1, DroppedIs
    <2>3. [seen EXCEPT !.owed = {}] = Seen({}, seen.failed, seen.last)
        BY <2>1, RecordedIs
    <2> QED BY <2>2, <2>3 DEF Drop
<1> HIDE DEF yes
<1>2. watcher'.closed = yes /\ watcher'.dirty = watcher.dirty /\ WatcherRec(watcher')
    BY <1>0, <1>1, WatcherIs, FieldsAre, SMT, SMTT(30)
<1>3. seen'.owed = {} /\ SeenRec(seen')
    BY <1>1, SeenIs, FieldsAre, SMT, SMTT(30)
<1>4. TypeOK'
    BY <1>1, <1>2, <1>3 DEF WatcherInv, TypeOK
<1>5. watcher'.closed
    BY <1>2 DEF yes
<1>6. \A i \in Iterators : iter'[i] # "parked"
    BY <1>1
<1>7. Plain'
    BY <1>1, <1>2, <1>6 DEF WatcherInv, Plain, Debounce
<1>8. Woken'
    BY <1>6 DEF Woken
<1>9. HoldIsBounded'
    BY <1>5 DEF HoldIsBounded
<1>10. ChangesAreReported'
    BY <1>3 DEF ChangesAreReported
<1> QED BY <1>4, <1>7, <1>8, <1>9, <1>10 DEF WatcherInv

(* The trigger wakes everybody.                                            *)
LEMMA OnTriggerKeeps ==
    ASSUME WatcherInv, OnTriggerEvent
    PROVE  WatcherInv'
<1>1. trigger' = FALSE /\ iter' = Wake(iter, "ready") /\ UNCHANGED <<plan, watcher, timer, now, clock, seen>>
    BY DEF OnTriggerEvent
<1>2. iter' \in [Iterators -> IterStates] /\ \A i \in Iterators : iter'[i] # "parked"
    BY <1>1, WakeIs DEF WatcherInv, TypeOK
<1>3. TypeOK'
    BY <1>1, <1>2 DEF WatcherInv, TypeOK
<1>4. Plain' /\ Woken'
    BY <1>1, <1>2 DEF WatcherInv, Plain, Woken, Debounce
<1>5. HoldIsBounded' /\ ChangesAreReported'
    BY <1>1 DEF WatcherInv, HoldIsBounded, ChangesAreReported, Debounce
<1> QED BY <1>3, <1>4, <1>5 DEF WatcherInv

(* The quiet timer turns the burst into an event and triggers delivery.    *)
LEMMA OnDebounceTimerKeeps ==
    ASSUME WatcherInv, OnDebounceTimer
    PROVE  WatcherInv'
<1> DEFINE no == FALSE
<1>0. /\ timer' = Off /\ UNCHANGED <<plan, iter, now, clock, seen>>
      /\ watcher' = IF watcher.closed \/ ~watcher.dirty THEN watcher ELSE Flush(watcher)
      /\ trigger' = (trigger \/ (~watcher.closed /\ watcher.dirty))
    BY DEF OnDebounceTimer
<1>1. CASE watcher.closed \/ ~watcher.dirty
    <2>1. watcher' = watcher /\ trigger' = trigger
        BY <1>0, <1>1, FieldsAre DEF WatcherInv, TypeOK
    <2>2. TypeOK' /\ Plain' /\ Woken'
        BY <1>0, <2>1 DEF WatcherInv, TypeOK, Plain, Woken, Debounce
    <2>3. HoldIsBounded'
        BY <1>1, <2>1 DEF HoldIsBounded
    <2>4. ChangesAreReported'
        BY <1>0, <2>1 DEF WatcherInv, ChangesAreReported, Debounce
    <2> QED BY <2>2, <2>3, <2>4 DEF WatcherInv
<1>2. CASE ~watcher.closed /\ watcher.dirty
    <2> DEFINE b == watcher.buffer
               e == [name |-> <<>>, kinds |-> watcher.pending]
               held == plan.coalesce /\ \E k \in 1..Len(b) : b[k].name = <<>>
               new == Flushed(watcher)
    <2>0. no \in BOOLEAN /\ Debounce /\ trigger' = TRUE
        BY <1>0, <1>2 DEF WatcherInv, Plain
    <2>1. watcher' = Watcher(watcher.closed, new, no, 0, {})
        BY <1>0, <1>2, FlushIs DEF WatcherInv, TypeOK
    <2>2. IsBuffer(new) /\ new # <<>>
        <3>1. IsSeq(b) /\ Len(b) \in Nat /\ IsBuffer(b)
            BY FieldsAre, SeqIs DEF IsBuffer
        <3>2. CASE held
            <4>1. b # <<>>
                BY <3>1, <3>2, SeqIs, SMT, SMTT(30)
            <4> QED BY <3>1, <3>2, <4>1 DEF Flushed
        <3>3. CASE ~held
            <4> HIDE DEF held
            <4>1. e = [name |-> e.name, kinds |-> e.kinds]
                OBVIOUS
            <4> HIDE DEF e, b
            <4>2. IsSeq(Append(b, e)) /\ Len(Append(b, e)) = Len(b) + 1
                  /\ (\A k \in 1..Len(b) : Append(b, e)[k] = b[k]) /\ Append(b, e)[Len(b) + 1] = e
                BY <3>1, AppendIs, SMT, SMTT(30)
            <4>3. Append(b, e) # <<>>
                <5> DEFINE a == Append(b, e)
                <5>1. IsSeq(a) /\ Len(a) # 0
                    BY <3>1, <4>2, SMT, SMTT(30)
                <5> HIDE DEF a
                <5>2. a # <<>>
                    BY <5>1, SeqIs
                <5> QED BY <5>2 DEF a
            <4>4. \A k \in 1..Len(Append(b, e)) : k \in 1..Len(b) \/ k = Len(b) + 1
                BY <3>1, <4>2, SMT, SMTT(30)
            <4>5. IsBuffer(Append(b, e))
                BY <3>1, <4>1, <4>2, <4>4 DEF IsBuffer
            <4>6. new = Append(b, e)
                BY <3>3 DEF Flushed, held, b, e
            <4> QED BY <4>3, <4>5, <4>6
        <3> QED BY <3>2, <3>3
    <2> HIDE DEF no, new
    <2>3. watcher'.closed = watcher.closed /\ watcher'.dirty = no /\ watcher'.buffer = new /\ WatcherRec(watcher')
        BY <2>0, <2>1, <2>2, WatcherIs, FieldsAre, SMT, SMTT(30)
    <2>4. TypeOK'
        BY <1>0, <2>0, <2>3 DEF WatcherInv, TypeOK
    <2>5. Plain' /\ Woken'
        BY <1>0, <2>0 DEF Plain, Woken, Debounce
    <2>6. HoldIsBounded'
        BY <2>3 DEF HoldIsBounded, no
    <2>7. ChangesAreReported'
        BY <1>0, <2>0, <2>2, <2>3 DEF ChangesAreReported, Debounce
    <2> QED BY <2>4, <2>5, <2>6, <2>7 DEF WatcherInv
<1> QED BY <1>1, <1>2

(* The delay keeps the timer within the quiet time of this change and the  *)
(* hold time of the first, or makes it due at once.                        *)
LEMMA DelayIs ==
    ASSUME plan \in Plans, Debounce, now \in Nat, clock \in Nat, clock <= now, NEW w, w.first \in Nat
    PROVE  /\ TimerRearm(Delay(w)) \in Nat /\ TimerRearm(Delay(w)) <= now + plan.debounce
           /\ plan.hold > 0 => TimerRearm(Delay(w)) <= w.first + plan.hold \/ TimerRearm(Delay(w)) <= now
<1>1. plan.debounce \in Nat /\ plan.hold \in Nat /\ plan.debounce > 0
    BY PlansAssumption DEF Debounce
<1>2. CASE plan.hold > 0 /\ ~(w.first + plan.hold > now)
    <2>1. Delay(w) = 0
        BY <1>1, <1>2 DEF Delay
    <2> QED BY <1>1, <2>1, SMT, SMTT(30) DEF TimerRearm
<1>3. CASE plan.hold > 0 /\ w.first + plan.hold > now
    <2>1. Delay(w) \in Nat /\ Delay(w) <= plan.debounce /\ Delay(w) <= w.first + plan.hold - now
        BY <1>1, <1>3, SMT, SMTT(30) DEF Delay
    <2> QED BY <1>1, <2>1, SMT, SMTT(30) DEF TimerRearm
<1>4. CASE ~(plan.hold > 0)
    <2>1. Delay(w) = plan.debounce
        BY <1>1, <1>4 DEF Delay
    <2> QED BY <1>1, <1>4, <2>1, SMT, SMTT(30) DEF TimerRearm
<1> QED BY <1>2, <1>3, <1>4

(* A notification: a change that counts is marked or stored, and in a      *)
(* watcher without a quiet time everybody parked is woken.                 *)
LEMMA OnFsEventKeeps ==
    ASSUME WatcherInv, OnFsEvent
    PROVE  WatcherInv'
<1> DEFINE e == Head(work)
           name == e.name
           kind == e.kind
           takes == ~watcher.closed /\ (Debounce => ExtMatches(name))
           m == MarkDirty(watcher, kind)
           stored == Store(watcher.buffer, name, {kind})
           owed == seen.owed \cup {<<name, kind>>}
<1>0. UNCHANGED <<plan, trigger, now, clock>> /\ iter' = (IF Debounce THEN iter ELSE Wake(iter, "ready"))
    BY DEF OnFsEvent
<1>1. WatcherRec(watcher) /\ SeenRec(seen) /\ plan \in Plans /\ now \in Nat /\ clock \in Nat /\ clock <= now
    BY DEF WatcherInv, TypeOK
<1>2. ~Debounce => iter' \in [Iterators -> IterStates] /\ \A i \in Iterators : iter'[i] # "parked"
    BY <1>0, WakeIs DEF WatcherInv, TypeOK
<1>3. ASSUME takes
      PROVE  /\ seen'.owed = owed /\ seen'.last = now /\ seen'.failed = seen.failed /\ SeenRec(seen')
             /\ seen' = [seen EXCEPT !.owed = owed, !.last = now]
    <2>1. seen' = [seen EXCEPT !.owed = owed, !.last = now]
        BY <1>3 DEF OnFsEvent
    <2>2. \A c \in owed : c = <<c[1], c[2]>>
        <3>1. <<name, kind>> = <<<<name, kind>>[1], <<name, kind>>[2]>>
            OBVIOUS
        <3> QED BY <3>1, FieldsAre
    <2> HIDE DEF owed
    <2>3. seen' = Seen(owed, seen.failed, now)
        <3>1. Noted(seen, owed, now) = Seen(owed, seen.failed, now)
            BY <1>1, NotedIs
        <3> QED BY <2>1, <3>1 DEF Noted
    <2> QED BY <1>1, <2>1, <2>2, <2>3, FieldsAre, SeenIs, SMT, SMTT(30)
<1>4. CASE takes /\ Debounce
    <2>1. watcher' = m /\ timer' = TimerRearm(Delay(m)) /\ iter' = iter
        BY <1>0, <1>4 DEF OnFsEvent
    <2>2. WatcherRec(m) /\ m.dirty /\ m.closed = watcher.closed /\ m.buffer = watcher.buffer /\ m.first \in Nat
        <3>1. /\ WatcherRec(m) /\ m.dirty /\ m.closed = watcher.closed /\ m.buffer = watcher.buffer
            BY <1>1, MarkedIs
        <3> QED BY <3>1 DEF WatcherRec
    <2> HIDE DEF m
    <2>3. /\ timer' \in Nat /\ timer' <= now + plan.debounce
          /\ plan.hold > 0 => timer' <= m.first + plan.hold \/ timer' <= now
        BY <1>1, <1>4, <2>1, <2>2, DelayIs
    <2>4. TypeOK'
        BY <1>0, <1>3, <1>4, <2>1, <2>2, <2>3 DEF WatcherInv, TypeOK
    <2>5. Plain'
        BY <1>0, <1>4 DEF Plain, Debounce
    <2>6. Woken'
        BY <1>0, <1>3, <1>4, <2>1, <2>2 DEF WatcherInv, Woken, Debounce
    <2>7. HoldIsBounded'
        <3>1. timer' # Off
            BY <2>3, SMT, SMTT(30) DEF Off
        <3> QED BY <1>0, <1>3, <1>4, <2>1, <2>3, <3>1 DEF HoldIsBounded, Off
    <2>8. ChangesAreReported'
        BY <1>0, <1>4, <2>1, <2>2 DEF ChangesAreReported, Debounce
    <2> QED BY <2>4, <2>5, <2>6, <2>7, <2>8 DEF WatcherInv
<1>5. CASE takes /\ ~Debounce
    <2>1. watcher' = [watcher EXCEPT !.buffer = stored] /\ timer' = timer
        BY <1>5 DEF OnFsEvent
    <2>2. /\ IsBuffer(stored) /\ (\A c : Holds(watcher.buffer, c) => Holds(stored, c))
          /\ Holds(stored, <<name, kind>>)
        BY FieldsAre, StoreKeeps
    <2> HIDE DEF stored
    <2>3. watcher' = Watcher(watcher.closed, stored, watcher.dirty, watcher.first, watcher.pending)
        BY <1>1, <2>1, UpdatedIs
    <2>4. watcher'.closed = watcher.closed /\ watcher'.buffer = stored /\ watcher'.dirty = watcher.dirty /\ WatcherRec(watcher')
        BY <2>2, <2>3, FieldsAre, WatcherIs, SMT, SMTT(30)
    <2>5. TypeOK'
        BY <1>0, <1>2, <1>3, <1>5, <2>1, <2>4 DEF WatcherInv, TypeOK
    <2>6. Plain' /\ Woken'
        BY <1>0, <1>2, <1>5, <2>4 DEF WatcherInv, Plain, Woken, Debounce
    <2>7. HoldIsBounded'
        BY <1>0, <1>5, <2>4 DEF WatcherInv, Plain, HoldIsBounded, Debounce
    <2>8. ChangesAreReported'
        <3>1. \A c \in seen.owed : Holds(watcher.buffer, c)
            BY <1>5 DEF WatcherInv, Plain, ChangesAreReported, Holds
        <3>2. \A c \in seen'.owed : Holds(watcher'.buffer, c)
            BY <1>3, <1>5, <2>2, <2>4, <3>1
        <3> QED BY <3>2 DEF ChangesAreReported, Holds
    <2> QED BY <2>5, <2>6, <2>7, <2>8 DEF WatcherInv
<1>6. CASE ~takes
    <2>1. watcher' = watcher /\ timer' = timer /\ seen' = seen
        BY <1>6 DEF OnFsEvent
    <2>2. TypeOK'
        BY <1>0, <1>2, <2>1 DEF WatcherInv, TypeOK
    <2>3. Plain' /\ Woken'
        BY <1>0, <1>2, <2>1 DEF WatcherInv, Plain, Woken, Debounce
    <2>4. HoldIsBounded' /\ ChangesAreReported'
        BY <1>0, <2>1 DEF WatcherInv, HoldIsBounded, ChangesAreReported, Debounce
    <2> QED BY <2>2, <2>3, <2>4 DEF WatcherInv
<1> HIDE DEF takes
<1> QED BY <1>4, <1>5, <1>6

(* Taking the oldest event drops what it covers; parking needs an empty    *)
(* buffer and an open watcher.                                             *)
LEMMA MoveForwardKeeps ==
    ASSUME WatcherInv, NEW i \in Iterators, MoveForward(i)
    PROVE  WatcherInv'
<1>0. UNCHANGED <<plan, timer, trigger, now, clock>>
    BY DEF MoveForward
<1>1. WatcherRec(watcher) /\ SeenRec(seen) /\ iter \in [Iterators -> IterStates]
    BY DEF WatcherInv, TypeOK
<1>2. ASSUME NEW how \in {"running", "ended", "parked"}, iter' = [iter EXCEPT ![i] = how]
      PROVE  /\ iter' \in [Iterators -> IterStates]
             /\ \A j \in Iterators : iter'[j] = "parked" => iter[j] = "parked" \/ how = "parked"
    BY <1>1, <1>2 DEF IterStates
<1>3. CASE watcher.buffer # <<>>
    <2> DEFINE b == watcher.buffer
               e == Head(b)
               left_owed == IF Debounce THEN IF watcher.dirty \/ Len(b) > 1 THEN seen.owed ELSE {}
                            ELSE seen.owed \ {<<e.name, k>> : k \in e.kinds}
    <2>1. /\ watcher' = [watcher EXCEPT !.buffer = Tail(b)]
          /\ seen' = [seen EXCEPT !.owed = left_owed]
          /\ iter' = [iter EXCEPT ![i] = "running"]
        BY <1>3 DEF MoveForward
    <2>2. /\ iter' \in [Iterators -> IterStates]
          /\ \A j \in Iterators : iter'[j] = "parked" => iter[j] = "parked"
        BY <1>2, <2>1
    <2>3. /\ IsSeq(b) /\ Len(b) \in Nat /\ IsSeq(Tail(b)) /\ Len(Tail(b)) + 1 = Len(b)
          /\ \A k \in 1..Len(Tail(b)) : Tail(b)[k] = b[k + 1]
          /\ e = b[1]
          /\ Len(Tail(b)) \in Nat
        <3>1. IsSeq(b)
            BY FieldsAre DEF IsBuffer
        <3>2. IsSeq(Tail(b)) /\ Len(Tail(b)) + 1 = Len(b) /\ (\A k \in 1..Len(Tail(b)) : Tail(b)[k] = b[k + 1]) /\ e = b[1]
            BY <1>3, <3>1, TailIs
        <3>3. Len(b) \in Nat /\ Len(Tail(b)) \in Nat
            BY <3>1, <3>2, SeqIs
        <3> QED BY <3>1, <3>2, <3>3
    <2>4. IsBuffer(Tail(b))
        <3>1. \A k \in 1..Len(b) : b[k] = [name |-> b[k].name, kinds |-> b[k].kinds]
            BY FieldsAre DEF IsBuffer
        <3>2. \A k \in 1..Len(Tail(b)) : k + 1 \in 1..Len(b)
            BY <2>3, SMT, SMTT(30)
        <3> QED BY <2>3, <3>1, <3>2 DEF IsBuffer
    <2>5. watcher' = Watcher(watcher.closed, Tail(b), watcher.dirty, watcher.first, watcher.pending)
        BY <1>1, <2>1, UpdatedIs
    <2>6. watcher'.closed = watcher.closed /\ watcher'.buffer = Tail(b) /\ watcher'.dirty = watcher.dirty
          /\ watcher'.first = watcher.first /\ WatcherRec(watcher')
        BY <2>4, <2>5, FieldsAre, WatcherIs, SMT, SMTT(30)
    <2>7. seen'.owed = left_owed /\ seen'.failed = seen.failed /\ seen'.last = seen.last /\ SeenRec(seen')
        <3>1. \A c \in left_owed : c = <<c[1], c[2]>>
            BY FieldsAre
        <3> HIDE DEF left_owed
        <3>2. seen' = Seen(left_owed, seen.failed, seen.last)
            BY <1>1, <2>1, RecordedIs
        <3> QED BY <3>1, <3>2, FieldsAre, SeenIs, SMT, SMTT(30)
    <2>8. TypeOK'
        BY <1>0, <2>2, <2>6, <2>7 DEF WatcherInv, TypeOK
    <2>9. Plain'
        BY <1>0, <1>3, <2>2, <2>6 DEF WatcherInv, Plain, Debounce
    <2>10. Woken'
        BY <1>0, <1>3, <2>2, <2>6, <2>7 DEF WatcherInv, Woken, Debounce
    <2>11. HoldIsBounded'
        BY <1>0, <2>6, <2>7 DEF WatcherInv, HoldIsBounded
    <2>12. ChangesAreReported'
        <3>1. CASE Debounce
            <4>1. Len(b) > 1 => Tail(b) # <<>>
                <5>1. \A m, n \in Nat : m + 1 = n /\ n > 1 => m # 0
                    BY SMT, SMTT(30)
                <5>2. Len(b) > 1 => Len(Tail(b)) # 0
                    BY <2>3, <5>1
                <5> QED BY <2>3, <5>2, SeqIs
            <4>2. CASE watcher.dirty \/ Len(b) > 1
                BY <1>0, <2>6, <3>1, <4>1, <4>2 DEF ChangesAreReported, Debounce
            <4>3. CASE ~(watcher.dirty \/ Len(b) > 1)
                BY <2>7, <3>1, <4>3 DEF ChangesAreReported
            <4> QED BY <4>2, <4>3
        <3>2. CASE ~Debounce
            <4>1. \A c \in seen'.owed : c \in seen.owed /\ c \notin {<<e.name, k>> : k \in e.kinds}
                BY <2>7, <3>2
            <4>2. ASSUME NEW c \in seen'.owed PROVE Holds(Tail(b), c)
                <5>1. PICK k \in 1..Len(b) : b[k].name = c[1] /\ c[2] \in b[k].kinds
                    BY <3>2, <4>1 DEF WatcherInv, Plain, ChangesAreReported
                <5>2. c = <<c[1], c[2]>>
                    BY <4>1, FieldsAre
                <5>3. k # 1
                    BY <2>3, <4>1, <5>1, <5>2
                <5>4. k - 1 \in 1..Len(Tail(b)) /\ (k - 1) + 1 = k
                    BY <2>3, <5>1, <5>3, SMT, SMTT(30)
                <5>5. Tail(b)[k - 1] = b[k]
                    BY <2>3, <5>4
                <5> QED BY <5>1, <5>4, <5>5 DEF Holds
            <4> QED BY <2>6, <4>2 DEF ChangesAreReported, Holds
        <3> QED BY <3>1, <3>2
    <2> QED BY <2>8, <2>9, <2>10, <2>11, <2>12 DEF WatcherInv
<1>4. CASE watcher.buffer = <<>>
    <2>1. watcher' = watcher /\ seen' = seen
        BY <1>4 DEF MoveForward
    <2>2. /\ iter' \in [Iterators -> IterStates]
          /\ \A j \in Iterators : iter'[j] = "parked" => iter[j] = "parked" \/ ~watcher.closed
        <3>1. CASE watcher.closed
            <4>1. iter' = [iter EXCEPT ![i] = "ended"]
                BY <1>4, <3>1 DEF MoveForward
            <4> QED BY <1>2, <4>1
        <3>2. CASE ~watcher.closed
            <4>1. iter' = [iter EXCEPT ![i] = "parked"]
                BY <1>4, <3>2 DEF MoveForward
            <4> QED BY <1>2, <3>2, <4>1
        <3> QED BY <3>1, <3>2
    <2>3. TypeOK'
        BY <1>0, <2>1, <2>2 DEF WatcherInv, TypeOK
    <2>4. Plain' /\ Woken'
        BY <1>0, <1>4, <2>1, <2>2 DEF WatcherInv, Plain, Woken, Debounce
    <2>5. HoldIsBounded' /\ ChangesAreReported'
        BY <1>0, <2>1 DEF WatcherInv, HoldIsBounded, ChangesAreReported, Debounce
    <2> QED BY <2>3, <2>4, <2>5 DEF WatcherInv
<1> QED BY <1>3, <1>4

(* Who leaves is not parked any more.                                      *)
LEMMA LeaveKeeps ==
    ASSUME WatcherInv, NEW i \in Iterators, Leave(i)
    PROVE  WatcherInv'
<1>1. iter' = [iter EXCEPT ![i] = "ended"] /\ UNCHANGED <<plan, watcher, timer, trigger, now, clock, seen>>
    BY DEF Leave
<1>2. iter' \in [Iterators -> IterStates] /\ \A j \in Iterators : iter'[j] = "parked" => iter[j] = "parked"
    BY <1>1 DEF WatcherInv, TypeOK, IterStates
<1>3. TypeOK'
    BY <1>1, <1>2 DEF WatcherInv, TypeOK
<1>4. Plain' /\ Woken'
    BY <1>1, <1>2 DEF WatcherInv, Plain, Woken, Debounce
<1>5. HoldIsBounded' /\ ChangesAreReported'
    BY <1>1 DEF WatcherInv, HoldIsBounded, ChangesAreReported, Debounce
<1> QED BY <1>3, <1>4, <1>5 DEF WatcherInv

-----------------------------------------------------------------------
(* The invariant.                                                          *)

(* The constructor's watcher is empty and nobody is parked.                *)
LEMMA InitInv == FsInit => WatcherInv
<1> SUFFICES ASSUME FsInit PROVE WatcherInv
    OBVIOUS
<1> DEFINE no == FALSE
<1>0. no \in BOOLEAN /\ IsBuffer(<<>>) /\ 0 \in Nat
    <2>1. <<>> \in Seq({})
        BY SMT, SMTT(30)
    <2>2. IsSeq(<<>>) /\ Len(<<>>) = 0
        BY <2>1, SeqOfIs
    <2> QED BY <2>2, SMT, SMTT(30) DEF IsBuffer
<1>1. /\ plan \in Plans /\ timer = Off /\ trigger = FALSE /\ now = 0 /\ clock = 0
      /\ watcher = Watcher(no, <<>>, no, 0, {}) /\ seen = Seen({}, no, 0)
      /\ iter = [i \in Iterators |-> IF i \in plan.iterators THEN "none" ELSE "ended"]
    BY DEF FsInit, Watcher, Seen
<1>2. iter \in [Iterators -> IterStates] /\ \A i \in Iterators : iter[i] # "parked"
    BY <1>1 DEF IterStates
<1> HIDE DEF no
<1>3. watcher.dirty = no /\ WatcherRec(watcher)
    BY <1>0, <1>1, WatcherIs, SMT, SMTT(30)
<1>4. seen.owed = {} /\ SeenRec(seen)
    BY <1>0, <1>1, SeenIs, SMT, SMTT(30)
<1>5. ~watcher.dirty
    BY <1>3 DEF no
<1>6. TypeOK
    <2>1. timer \in Nat \cup {Off} /\ trigger \in BOOLEAN
        BY <1>1
    <2>2. now \in Nat /\ clock \in Nat /\ clock <= now
        BY <1>1, SMT, SMTT(30)
    <2> QED BY <1>1, <1>2, <1>3, <1>4, <2>1, <2>2 DEF TypeOK
<1>7. Plain /\ Woken
    BY <1>2, <1>5 DEF Plain, Woken
<1>8. HoldIsBounded /\ ChangesAreReported
    BY <1>4, <1>5 DEF HoldIsBounded, ChangesAreReported
<1> QED BY <1>6, <1>7, <1>8 DEF WatcherInv

(* Every step of the watcher, its iterators, the reactor and time keeps    *)
(* the invariant.                                                          *)
LEMMA NextInv == WatcherInv /\ [FsNext]_vars => WatcherInv'
<1> SUFFICES ASSUME WatcherInv, [FsNext]_vars PROVE WatcherInv'
    OBVIOUS
<1>0. now \in Nat /\ clock \in Nat /\ clock <= now
    BY DEF WatcherInv, TypeOK
<1>1. CASE UNCHANGED fsVars
    BY <1>0, <1>1, SameKeeps DEF fsVars
<1>2. CASE UNCHANGED vars
    BY <1>1, <1>2 DEF vars
<1>3. CASE Construct
    BY <1>1, <1>3 DEF Construct
<1>4. CASE Close \/ Drop
    BY <1>4, CloseKeeps, DropKeeps
<1>5. CASE \E i \in Iterators : MoveForward(i) \/ Leave(i)
    BY <1>5, MoveForwardKeeps, LeaveKeeps
<1>6. CASE OnFsEvent \/ OnFsError \/ OnDebounceTimer \/ OnTriggerEvent
    BY <1>6, OnFsEventKeeps, OnFsErrorKeeps, OnDebounceTimerKeeps, OnTriggerKeeps
<1>7. CASE \E name \in {<<>>, <<"f">>}, kind \in {"rename", "change"} : OnFilesystemEvent(name, kind)
    BY <1>1, <1>7 DEF OnFilesystemEvent
<1>8. CASE Tick
    <2>1. now' = now + 1 /\ UNCHANGED <<plan, watcher, timer, trigger, iter, clock, seen>>
        BY <1>8 DEF Tick
    <2>2. now' \in Nat /\ clock' \in Nat /\ clock' <= now'
        BY <1>0, <2>1, SMT, SMTT(30)
    <2> QED BY <2>1, <2>2, SameKeeps
<1>9. CASE UpdateTime
    <2>1. clock' = now /\ UNCHANGED <<plan, watcher, timer, trigger, iter, now, seen>>
        BY <1>9 DEF UpdateTime
    <2>2. now' \in Nat /\ clock' \in Nat /\ clock' <= now'
        BY <1>0, <2>1, SMT, SMTT(30)
    <2> QED BY <2>1, <2>2, SameKeeps
<1> QED BY <1>1, <1>2, <1>3, <1>4, <1>5, <1>6, <1>7, <1>8, <1>9 DEF FsNext

(* The invariant gives what the runs check: a parked iterator beside an    *)
(* event, a burst or a closed watcher has its wakeup on the way.           *)
LEMMA InvArrives == WatcherInv => HoldIsBounded /\ EventsArrive
<1> SUFFICES ASSUME WatcherInv PROVE HoldIsBounded /\ EventsArrive
    OBVIOUS
<1>1. HoldIsBounded /\ ChangesAreReported /\ Woken
    BY DEF WatcherInv
<1>2. NobodySleepsOnEvents
    BY <1>1 DEF NobodySleepsOnEvents, HoldIsBounded, Woken
<1>3. CloseEndsIterations
    BY <1>1 DEF CloseEndsIterations, Woken
<1> QED BY <1>1, <1>2, <1>3 DEF EventsArrive

(* The watcher keeps its invariant.                                        *)
LEMMA InvHolds == FsSpec => []WatcherInv
BY InitInv, NextInv, PTL DEF FsSpec

(* A burst is held no longer than the quiet time after its last change and *)
(* the hold time after its first: fs_watcher_on_fs_event sets the timer    *)
(* again on every change, but never past the deadline of the burst.        *)
THEOREM TheHoldIsBounded == FsSpec => []HoldIsBounded
BY InvHolds, InvArrives, PTL

(* Every change the watcher took reaches whoever iterates, unless its      *)
(* burst was still held when the watcher closed, and so does the end:      *)
(* nobody stays parked beside an event, a burst or a closed watcher.       *)
THEOREM EventsDoArrive == FsSpec => []EventsArrive
BY InvHolds, InvArrives, PTL
=======================================================================
