------------------------ MODULE CircularBuffer ------------------------
(* internal/circular_buffer.c and .h: the ring behind the coroutine      *)
(* queue, the microtask queue, the channel buffers and the idle list of  *)
(* a pool.  head is the slot the next item is written to, tail the slot  *)
(* the next item is read from; one slot stays free, so that head = tail  *)
(* means empty.  The ring doubles when it is full and halves, down to    *)
(* the size it was built with, when a push finds it nearly empty.        *)
EXTENDS Naturals, Sequences

CONSTANTS
    Items,          \* what the buffer holds (pointers or zvals)
    Junk,           \* the content of a slot nothing was written to
    min_size,       \* the size asked for, rounded up to a power of two
    MaxCapacity,    \* bound: no push that would grow the ring beyond this
    AllocMayFail    \* TRUE: m_alloc, m_realloc may return NULL

ASSUME MinSizeAssumption == min_size \in Nat \ {0}

ASSUME AllocAssumption == AllocMayFail \in BOOLEAN

VARIABLES
    data, capacity, head, tail, decrease_t,   \* the fields of the struct
    ret                                       \* what the last call returned

buffer == <<data, capacity, head, tail, decrease_t>>
vars == <<data, capacity, head, tail, decrease_t, ret>>

SUCCESS == "SUCCESS"
FAILURE == "FAILURE"
MINIMUM_COUNT == 4

Returned(call, code) == [call |-> call, code |-> code, value |-> <<>>]
ReturnedItem(v) == [call |-> <<"pop">>, code |-> SUCCESS, value |-> <<v>>]

-----------------------------------------------------------------------
(* The functions that only read the struct.                              *)

\* (index + 1) & (cap - 1): the capacity is a power of two, so the mask
\* leaves an index below it alone and turns the capacity itself into 0.
next_index(index, cap) == IF index + 1 = cap THEN 0 ELSE index + 1

is_empty == head = tail

is_full == next_index(head, capacity) = tail

CountIn(h, t, cap) == IF h >= t THEN h - t ELSE (cap - t) + h

count == CountIn(head, tail, capacity)

should_decrease == ~is_empty /\ count < decrease_t

recalc_decrease_threshold(new_count) ==
    IF new_count <= min_size THEN 0 ELSE new_count \div 2 - new_count \div 4

\* The slot of the item at offset i (from 0) of the tail.
SlotIn(t, cap, i) == IF t + i < cap THEN t + i ELSE t + i - cap

Slot(i) == SlotIn(tail, capacity, i)

\* The items in the order they would be popped.
Contents == [i \in 1..count |-> data[Slot(i - 1)]]

-----------------------------------------------------------------------
Init ==
    /\ data = [i \in 0..min_size - 1 |-> Junk]
    /\ capacity = min_size
    /\ head = 0
    /\ tail = 0
    \* circular_buffer_ctor does not use recalc_decrease_threshold: the
    \* threshold of a fresh ring larger than 4 is not 0.
    /\ decrease_t = IF min_size > MINIMUM_COUNT
                    THEN min_size \div 2 - min_size \div 4 ELSE 0
    /\ ret = Returned(<<"ctor">>, SUCCESS)

\* The struct after circular_buffer_realloc(buffer, 0) chose new_count: an
\* empty ring restarts at 0, a contiguous one that grows keeps its
\* offsets, and in the other cases the items move to the front.
Relocated(new_count) ==
    LET keeps == ~is_empty /\ head >= tail /\ new_count > capacity
    IN  [data       |-> [i \in 0..new_count - 1 |->
                            IF keeps THEN (IF i < capacity THEN data[i] ELSE Junk)
                            ELSE IF i < count THEN data[Slot(i)] ELSE Junk],
         capacity   |-> new_count,
         head       |-> IF keeps THEN head ELSE count,
         tail       |-> IF keeps THEN tail ELSE 0,
         decrease_t |-> recalc_decrease_threshold(new_count)]

Unmoved ==
    [data |-> data, capacity |-> capacity, head |-> head, tail |-> tail,
     decrease_t |-> decrease_t]

\* Mutant: a ring that is full grows by half.
Resized_by_half(should_resize) ==
    IF ~should_resize THEN Unmoved
    ELSE IF is_full THEN Relocated(capacity + capacity \div 2 + 1)
    ELSE Unmoved

\* The struct a push writes its item into: with should_resize, a full ring
\* doubles first and a nearly empty one halves, never below min_size.
Resized(should_resize) ==
    IF ~should_resize THEN Unmoved
    ELSE IF is_full THEN Relocated(capacity * 2)
    ELSE IF should_decrease
         THEN Relocated(IF capacity \div 2 < min_size THEN min_size ELSE capacity \div 2)
    ELSE Unmoved

resizes(should_resize) == should_resize /\ (is_full \/ should_decrease)

\* What keeps the explored rings small: no growth beyond MaxCapacity.
WithinBound(should_resize) ==
    should_resize /\ is_full => capacity * 2 <= MaxCapacity

Fail(call) == /\ ret' = Returned(call, FAILURE)
              /\ UNCHANGED buffer

\* A full ring that may not be resized refuses the item; a resize whose
\* allocation fails returns before anything has been touched.
Refuse(call, should_resize) ==
    /\ \/ ~should_resize /\ is_full
       \/ AllocMayFail /\ resizes(should_resize)
    /\ Fail(call)

-----------------------------------------------------------------------
(* The operations.                                                       *)

circular_buffer_push(value, should_resize) ==
    /\ WithinBound(should_resize)
    /\ \/ Refuse(<<"push", value, should_resize>>, should_resize)
       \/ LET b == Resized(should_resize)
          IN  /\ should_resize \/ ~is_full
              /\ data' = [b.data EXCEPT ![b.head] = value]
              /\ head' = next_index(b.head, b.capacity)
              /\ tail' = b.tail
              /\ capacity' = b.capacity
              /\ decrease_t' = b.decrease_t
              /\ ret' = Returned(<<"push", value, should_resize>>, SUCCESS)

circular_buffer_push_front(value, should_resize) ==
    /\ WithinBound(should_resize)
    /\ \/ Refuse(<<"push_front", value, should_resize>>, should_resize)
       \/ LET b == Resized(should_resize)
              t == IF b.tail = 0 THEN b.capacity - 1 ELSE b.tail - 1
          IN  /\ should_resize \/ ~is_full
              /\ data' = [b.data EXCEPT ![t] = value]
              /\ head' = b.head
              /\ tail' = t
              /\ capacity' = b.capacity
              /\ decrease_t' = b.decrease_t
              /\ ret' = Returned(<<"push_front", value, should_resize>>, SUCCESS)

\* Mutant: the fast path is taken on a full ring as well.
circular_buffer_push_ptr_with_resize_unchecked(ptr) ==
    /\ data' = [data EXCEPT ![head] = ptr]
    /\ head' = next_index(head, capacity)
    /\ ret' = Returned(<<"push", ptr, TRUE>>, SUCCESS)
    /\ UNCHANGED <<tail, capacity, decrease_t>>

\* The inlined push of a pointer: takes the free slot of a ring that has
\* one without considering to shrink it, and falls back to
\* circular_buffer_push otherwise.
circular_buffer_push_ptr_with_resize(ptr) ==
    IF ~is_full
    THEN /\ data' = [data EXCEPT ![head] = ptr]
         /\ head' = next_index(head, capacity)
         /\ ret' = Returned(<<"push", ptr, TRUE>>, SUCCESS)
         /\ UNCHANGED <<tail, capacity, decrease_t>>
    ELSE circular_buffer_push(ptr, TRUE)

circular_buffer_pop ==
    \/ is_empty /\ Fail(<<"pop">>)
    \/ /\ ~is_empty
       /\ ret' = ReturnedItem(data[tail])
       /\ tail' = next_index(tail, capacity)
       /\ UNCHANGED <<data, capacity, head, decrease_t>>

circular_buffer_clean ==
    /\ head' = tail
    /\ ret' = Returned(<<"clean">>, SUCCESS)
    /\ UNCHANGED <<data, capacity, tail, decrease_t>>

circular_buffer_swap_ptr_at(i, j) ==
    /\ i < count /\ j < count
    /\ data' = [data EXCEPT ![Slot(i)] = data[Slot(j)], ![Slot(j)] = data[Slot(i)]]
    /\ ret' = Returned(<<"swap", i, j>>, SUCCESS)
    /\ UNCHANGED <<capacity, head, tail, decrease_t>>

Next ==
    \/ \E v \in Items, r \in BOOLEAN : circular_buffer_push(v, r)
    \/ \E v \in Items, r \in BOOLEAN : circular_buffer_push_front(v, r)
    \/ \E v \in Items : circular_buffer_push_ptr_with_resize(v)
    \/ circular_buffer_pop
    \/ circular_buffer_clean
    \/ \E i, j \in 0..capacity - 1 : circular_buffer_swap_ptr_at(i, j)

Spec == Init /\ [][Next]_vars

-----------------------------------------------------------------------
(* Properties.                                                           *)

\* The struct is well formed: both offsets are inside the ring, the ring is
\* never smaller than it was built, the threshold that makes a push shrink
\* the ring (decrease_t) leaves room for what the ring holds.
TypeOK ==
    /\ capacity \in Nat /\ capacity >= min_size
    /\ data \in [0..capacity - 1 -> Items \cup {Junk}]
    /\ head \in 0..capacity - 1
    /\ tail \in 0..capacity - 1
    /\ decrease_t \in {0, capacity \div 2 - capacity \div 4}
    /\ ret.code \in {SUCCESS, FAILURE}
    /\ ret.value = <<>> \/ \E v \in Items : ret.value = <<v>>

\* No slot between tail and head is one nobody wrote to: what a pop hands
\* out was pushed, whatever growing, shrinking and wrapping came before.
NoJunkInside == \A i \in 0..count - 1 : data[Slot(i)] \in Items

\* The buffer implements a double-ended queue that never loses, invents or
\* reorders an item, in particular across circular_buffer_realloc, and
\* that refuses an item only as Deque says: a buffer built with min_size
\* slots has room for one item less (channels ask for one slot more).
Queue == INSTANCE Deque WITH items <- Contents, Room <- min_size - 1

ImplementsQueue == Queue!Spec
=======================================================================
