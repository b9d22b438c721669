--------------------- MODULE CircularBufferProofs ---------------------
(* The ring is well formed in every reachable state and implements a     *)
(* double-ended queue, for every initial size and set of items.          *)
EXTENDS CircularBuffer, TLAPS

\* The provers to try on a leaf that names none.
USE Zenon, SMT, SMTT(30)

\* A struct b holds the items of the ring in the same order and has a free
\* slot: what circular_buffer_realloc must leave for the push that follows.
Holds(b) ==
    /\ b.capacity \in Nat /\ b.capacity >= min_size
    /\ b.data \in [0..b.capacity - 1 -> Items \cup {Junk}]
    /\ b.head \in 0..b.capacity - 1
    /\ b.tail \in 0..b.capacity - 1
    /\ b.decrease_t \in {0, b.capacity \div 2 - b.capacity \div 4}
    /\ CountIn(b.head, b.tail, b.capacity) = count
    /\ next_index(b.head, b.capacity) # b.tail
    /\ \A i \in 0..count - 1 :
           b.data[SlotIn(b.tail, b.capacity, i)] = data[Slot(i)]

\* circular_buffer_realloc: a larger ring, or one that still has two slots
\* more than items, holds the items in order with a slot to spare.
LEMMA RelocatedHolds ==
    ASSUME TypeOK,
           NEW n \in Nat, n >= min_size, n >= count + 2,
           is_full => n > capacity
    PROVE  Holds(Relocated(n))
<1> DEFINE keeps == ~is_empty /\ head >= tail /\ n > capacity
           b == Relocated(n)
<1> SUFFICES Holds(b) OBVIOUS
<1>0. /\ capacity \in Nat /\ capacity >= 1 /\ min_size \in Nat /\ min_size >= 1
      /\ head \in 0..capacity - 1 /\ tail \in 0..capacity - 1
      /\ data \in [0..capacity - 1 -> Items \cup {Junk}]
  BY MinSizeAssumption, SMT, SMTT(30) DEF TypeOK
<1>1. count \in Nat /\ count <= capacity - 1
  BY <1>0, SMT, SMTT(30) DEF count, CountIn
<1>2. \A i \in 0..count - 1 : Slot(i) \in 0..capacity - 1
  BY <1>0, <1>1, SMT, SMTT(30) DEF Slot, SlotIn, count, CountIn
<1>3. b = [data       |-> [i \in 0..n - 1 |->
                              IF keeps THEN (IF i < capacity THEN data[i] ELSE Junk)
                              ELSE IF i < count THEN data[Slot(i)] ELSE Junk],
           capacity   |-> n,
           head       |-> IF keeps THEN head ELSE count,
           tail       |-> IF keeps THEN tail ELSE 0,
           decrease_t |-> recalc_decrease_threshold(n)]
  BY DEF Relocated
<1> HIDE DEF b
<1>4. /\ b.capacity = n
      /\ b.decrease_t \in {0, n \div 2 - n \div 4}
  BY <1>3 DEF recalc_decrease_threshold
<1>5. CASE keeps
  <2>1. /\ b.head = head /\ b.tail = tail
        /\ b.data = [i \in 0..n - 1 |-> IF i < capacity THEN data[i] ELSE Junk]
    BY <1>3, <1>5
  <2>2. b.data \in [0..n - 1 -> Items \cup {Junk}]
    BY <2>1, <1>0, SMT, SMTT(30)
  <2>3. /\ b.head \in 0..n - 1 /\ b.tail \in 0..n - 1
        /\ CountIn(b.head, b.tail, n) = count
        /\ next_index(b.head, n) # b.tail
    BY <2>1, <1>0, <1>1, <1>5, SMT, SMTT(30) DEF count, CountIn, next_index, is_empty
  <2>4. ASSUME NEW i \in 0..count - 1
        PROVE  b.data[SlotIn(b.tail, n, i)] = data[Slot(i)]
    <3>1. SlotIn(b.tail, n, i) = tail + i /\ Slot(i) = tail + i
          /\ tail + i \in 0..capacity - 1 /\ tail + i \in 0..n - 1
      BY <2>1, <1>0, <1>1, <1>5, SMT, SMTT(30) DEF count, CountIn, SlotIn, Slot
    <3> QED BY <3>1, <2>1, <1>0, SMT, SMTT(30)
  <2> QED BY <1>4, <2>2, <2>3, <2>4, <1>0 DEF Holds
<1>6. CASE ~keeps
  <2>1. /\ b.head = count /\ b.tail = 0
        /\ b.data = [i \in 0..n - 1 |-> IF i < count THEN data[Slot(i)] ELSE Junk]
    BY <1>3, <1>6
  <2>2. b.data \in [0..n - 1 -> Items \cup {Junk}]
    BY <2>1, <1>0, <1>1, <1>2, SMT, SMTT(30)
  <2>3. /\ b.head \in 0..n - 1 /\ b.tail \in 0..n - 1
        /\ CountIn(b.head, b.tail, n) = count
        /\ next_index(b.head, n) # b.tail
    BY <2>1, <1>0, <1>1, SMT, SMTT(30) DEF CountIn, next_index
  <2>4. ASSUME NEW i \in 0..count - 1
        PROVE  b.data[SlotIn(b.tail, n, i)] = data[Slot(i)]
    <3>1. SlotIn(b.tail, n, i) = i /\ i \in 0..n - 1 /\ i < count
      BY <2>1, <1>0, <1>1, SMT, SMTT(30) DEF SlotIn
    <3> QED BY <3>1, <2>1
  <2> QED BY <1>4, <2>2, <2>3, <2>4, <1>0 DEF Holds
<1> QED BY <1>5, <1>6

\* Whatever Resized decides, the struct the item is written into holds the
\* items of the ring in order and has a slot for one more.
LEMMA ResizedHolds ==
    ASSUME TypeOK, NEW r \in BOOLEAN, r \/ ~is_full
    PROVE  Holds(Resized(r))
<1>0. /\ capacity \in Nat /\ capacity >= min_size /\ min_size \in Nat /\ min_size >= 1
      /\ head \in 0..capacity - 1 /\ tail \in 0..capacity - 1
      /\ data \in [0..capacity - 1 -> Items \cup {Junk}]
      /\ decrease_t \in {0, capacity \div 2 - capacity \div 4}
  BY MinSizeAssumption, SMT, SMTT(30) DEF TypeOK
<1>1. CASE ~is_full /\ ~(r /\ should_decrease)
  <2>1. Resized(r) = Unmoved
    BY <1>1 DEF Resized
  <2> QED BY <2>1, <1>0, <1>1, SMT, SMTT(30) DEF Unmoved, Holds, count, Slot, is_full
<1>2. CASE is_full
  <2>1. Resized(r) = Relocated(capacity * 2)
    BY <1>2 DEF Resized
  <2>2. capacity * 2 \in Nat /\ capacity * 2 >= min_size
        /\ capacity * 2 >= count + 2 /\ capacity * 2 > capacity
    BY <1>0, <1>2, SMT, SMTT(30) DEF count, CountIn, is_full, next_index
  <2> QED BY <2>1, <2>2, RelocatedHolds
<1>3. CASE r /\ ~is_full /\ should_decrease
  <2> DEFINE n == IF capacity \div 2 < min_size THEN min_size ELSE capacity \div 2
  <2>1. Resized(r) = Relocated(n)
    BY <1>3 DEF Resized
  <2>2. /\ count >= 1 /\ count < capacity \div 2 - capacity \div 4
        /\ count \in Nat
    BY <1>0, <1>3, SMT, SMTT(30) DEF should_decrease, is_empty, count, CountIn
  <2>3. n \in Nat /\ n >= min_size /\ n >= count + 2
    BY <1>0, <2>2, SMT, SMTT(30)
  <2> HIDE DEF n
  <2> QED BY <2>1, <2>3, <1>3, RelocatedHolds
<1> QED BY <1>1, <1>2, <1>3

-----------------------------------------------------------------------
(* The item at each offset after each way the ring can change.           *)

\* A step that leaves the ring with the items it had, in the same order.
SameItems == count' = count /\ \A i \in 0..count - 1 : data'[Slot(i)'] = data[Slot(i)]

\* A step that adds v behind the last item, or before the first.
AddsLast(v) ==
    /\ count' = count + 1
    /\ \A i \in 0..count - 1 : data'[Slot(i)'] = data[Slot(i)]
    /\ data'[SlotIn(tail', capacity', count)] = v

AddsFirst(v) ==
    /\ count' = count + 1
    /\ \A i \in 0..count - 1 : data'[SlotIn(tail', capacity', i + 1)] = data[Slot(i)]
    /\ data'[tail'] = v

\* The fields of the struct are well formed (TypeOK without ret).
BufferOK ==
    /\ capacity \in Nat /\ capacity >= min_size
    /\ data \in [0..capacity - 1 -> Items \cup {Junk}]
    /\ head \in 0..capacity - 1
    /\ tail \in 0..capacity - 1
    /\ decrease_t \in {0, capacity \div 2 - capacity \div 4}

\* The end of circular_buffer_push: write at head, advance head.
LEMMA WriteAtHead ==
    ASSUME NEW b, Holds(b), NEW v \in Items, count \in Nat,
           data' = [b.data EXCEPT ![b.head] = v],
           head' = next_index(b.head, b.capacity),
           tail' = b.tail, capacity' = b.capacity, decrease_t' = b.decrease_t
    PROVE  BufferOK' /\ AddsLast(v)
<1> DEFINE H == b.head T == b.tail C == b.capacity D == b.data
<1>1. /\ C \in Nat /\ C >= min_size /\ min_size \in Nat /\ min_size >= 1
      /\ H \in 0..C - 1 /\ T \in 0..C - 1
      /\ CountIn(H, T, C) = count
      /\ next_index(H, C) # T
  BY MinSizeAssumption, SMT, SMTT(30) DEF Holds
<1>2. /\ D \in [0..C - 1 -> Items \cup {Junk}]
      /\ \A i \in 0..count - 1 : D[SlotIn(T, C, i)] = data[Slot(i)]
  BY DEF Holds
<1>3. head' = next_index(H, C) /\ tail' = T /\ capacity' = C
  OBVIOUS
<1>4. data' = [D EXCEPT ![H] = v]
  OBVIOUS
<1>5. decrease_t' \in {0, C \div 2 - C \div 4}
  BY DEF Holds
<1> HIDE DEF H, T, C, D
<1>6. next_index(H, C) \in 0..C - 1 /\ count' = count + 1
  BY <1>1, <1>3, SMT, SMTT(30) DEF count, CountIn, next_index
<1>7. SlotIn(T, C, count) = H
  BY <1>1, SMT, SMTT(30) DEF CountIn, SlotIn, next_index
<1>8. ASSUME NEW i \in 0..count - 1
      PROVE  SlotIn(T, C, i) \in 0..C - 1 /\ SlotIn(T, C, i) # H
  BY <1>1, SMT, SMTT(30) DEF CountIn, SlotIn, next_index
<1>9. data' \in [0..C - 1 -> Items \cup {Junk}]
  BY <1>1, <1>2, <1>4
<1>10. data'[SlotIn(tail', capacity', count)] = v
  BY <1>1, <1>2, <1>3, <1>4, <1>7, SMT, SMTT(30)
<1>11. ASSUME NEW i \in 0..count - 1
       PROVE  data'[Slot(i)'] = data[Slot(i)]
  <2>1. Slot(i)' = SlotIn(T, C, i)
    BY <1>3 DEF Slot
  <2> QED BY <1>2, <1>4, <1>8, <2>1
<1>12. BufferOK'
  BY <1>1, <1>3, <1>5, <1>6, <1>9 DEF BufferOK
<1> QED BY <1>6, <1>10, <1>11, <1>12 DEF AddsLast

\* The end of circular_buffer_push_front: step tail back, write at it.
LEMMA WriteAtTail ==
    ASSUME NEW b, Holds(b), NEW v \in Items, count \in Nat,
           NEW t, t = IF b.tail = 0 THEN b.capacity - 1 ELSE b.tail - 1,
           data' = [b.data EXCEPT ![t] = v],
           head' = b.head,
           tail' = t, capacity' = b.capacity, decrease_t' = b.decrease_t
    PROVE  BufferOK' /\ AddsFirst(v)
<1> DEFINE H == b.head T == b.tail C == b.capacity D == b.data
<1>1. /\ C \in Nat /\ C >= min_size /\ min_size \in Nat /\ min_size >= 1
      /\ H \in 0..C - 1 /\ T \in 0..C - 1
      /\ CountIn(H, T, C) = count
      /\ next_index(H, C) # T
  BY MinSizeAssumption, SMT, SMTT(30) DEF Holds
<1>2. /\ D \in [0..C - 1 -> Items \cup {Junk}]
      /\ \A i \in 0..count - 1 : D[SlotIn(T, C, i)] = data[Slot(i)]
  BY DEF Holds
<1>3. head' = H /\ tail' = t /\ capacity' = C /\ t = IF T = 0 THEN C - 1 ELSE T - 1
  OBVIOUS
<1>4. data' = [D EXCEPT ![t] = v]
  OBVIOUS
<1>5. decrease_t' \in {0, C \div 2 - C \div 4}
  BY DEF Holds
<1> HIDE DEF H, T, C, D
<1>6. t \in 0..C - 1 /\ count' = count + 1
  BY <1>1, <1>3, SMT, SMTT(30) DEF count, CountIn, next_index
<1>7. ASSUME NEW i \in 0..count - 1
      PROVE  /\ SlotIn(T, C, i) \in 0..C - 1 /\ SlotIn(T, C, i) # t
             /\ SlotIn(t, C, i + 1) = SlotIn(T, C, i)
  BY <1>1, <1>3, SMT, SMTT(30) DEF CountIn, SlotIn, next_index
<1>8. data' \in [0..C - 1 -> Items \cup {Junk}]
  BY <1>2, <1>4
<1>9. data'[tail'] = v
  BY <1>2, <1>3, <1>4, <1>6
<1>10. ASSUME NEW i \in 0..count - 1
       PROVE  data'[SlotIn(tail', capacity', i + 1)] = data[Slot(i)]
  <2>1. SlotIn(tail', capacity', i + 1) = SlotIn(T, C, i)
    BY <1>3, <1>7
  <2>2. data'[SlotIn(T, C, i)] = D[SlotIn(T, C, i)]
    BY <1>2, <1>4, <1>7
  <2>3. D[SlotIn(T, C, i)] = data[Slot(i)]
    BY <1>2
  <2> QED BY <2>1, <2>2, <2>3
<1>11. BufferOK'
  BY <1>1, <1>3, <1>5, <1>6, <1>8 DEF BufferOK
<1> QED BY <1>6, <1>9, <1>10, <1>11 DEF AddsFirst

-----------------------------------------------------------------------
(* What each operation does, in terms of the items.                      *)

Inv == TypeOK /\ NoJunkInside

\* The call failed and touched nothing.
Refused(call, r) ==
    /\ UNCHANGED buffer /\ ret' = Returned(call, FAILURE)
    /\ IF r THEN AllocMayFail ELSE is_full

\* circular_buffer_count never reports more than one slot less than there are.
LEMMA CountType == ASSUME BufferOK PROVE count \in Nat /\ count <= capacity - 1
BY MinSizeAssumption, SMT, SMTT(30) DEF BufferOK, count, CountIn

\* The same after a step, with the arithmetic on the new offsets.
LEMMA OffsetsPrime ==
    ASSUME BufferOK'
    PROVE  /\ capacity' \in Nat /\ capacity' >= 1
           /\ head' \in 0..capacity' - 1 /\ tail' \in 0..capacity' - 1
           /\ SlotIn(tail', capacity', 0) = tail'
           /\ count' \in Nat
<1> DEFINE h == head' t == tail' c == capacity'
<1>1. c \in Nat /\ c >= min_size
  BY DEF BufferOK
<1>2. h \in 0..c - 1 /\ t \in 0..c - 1
  BY DEF BufferOK
<1>3. count' = CountIn(h, t, c)
  BY DEF count
<1> HIDE DEF h, t, c
<1>4. c >= 1
  BY <1>1, MinSizeAssumption, SMT, SMTT(30)
<1>5. SlotIn(t, c, 0) = t
  BY <1>1, <1>2, SMT, SMTT(30) DEF SlotIn
<1>6. count' \in Nat
  BY <1>1, <1>2, <1>3, SMT, SMTT(30) DEF CountIn
<1> QED BY <1>1, <1>2, <1>4, <1>5, <1>6 DEF h, t, c

\* The items lie in different slots of the ring.
LEMMA SlotType ==
    ASSUME BufferOK
    PROVE  \A i \in 0..count - 1 :
               /\ Slot(i) \in 0..capacity - 1
               /\ \A j \in 0..count - 1 : Slot(i) = Slot(j) => i = j
BY MinSizeAssumption, SMT, SMTT(30) DEF BufferOK, Slot, SlotIn, count, CountIn

\* The part of the invariant that is about the struct alone.
LEMMA InvBufferOK == ASSUME Inv PROVE BufferOK
BY DEF Inv, TypeOK, BufferOK

\* circular_buffer_push fails without an effect or adds the item last.
LEMMA PushEffect ==
    ASSUME Inv, NEW v \in Items, NEW r \in BOOLEAN, circular_buffer_push(v, r)
    PROVE  \/ Refused(<<"push", v, r>>, r)
           \/ BufferOK' /\ AddsLast(v) /\ ret' = Returned(<<"push", v, r>>, SUCCESS)
<1>1. CASE Refuse(<<"push", v, r>>, r)
  BY <1>1 DEF Refuse, Refused, Fail, resizes
<1>2. CASE ~Refuse(<<"push", v, r>>, r)
  <2> DEFINE b == Resized(r)
  <2>1. /\ r \/ ~is_full
        /\ data' = [b.data EXCEPT ![b.head] = v]
        /\ head' = next_index(b.head, b.capacity)
        /\ tail' = b.tail /\ capacity' = b.capacity /\ decrease_t' = b.decrease_t
        /\ ret' = Returned(<<"push", v, r>>, SUCCESS)
    BY <1>2 DEF circular_buffer_push
  <2>2. Holds(b)
    BY <2>1, ResizedHolds DEF Inv
  <2>3. count \in Nat
    BY InvBufferOK, CountType
  <2> HIDE DEF b
  <2> QED BY <2>1, <2>2, <2>3, WriteAtHead
<1> QED BY <1>1, <1>2

\* circular_buffer_push_front fails without an effect or adds the item first.
LEMMA PushFrontEffect ==
    ASSUME Inv, NEW v \in Items, NEW r \in BOOLEAN, circular_buffer_push_front(v, r)
    PROVE  \/ Refused(<<"push_front", v, r>>, r)
           \/ BufferOK' /\ AddsFirst(v) /\ ret' = Returned(<<"push_front", v, r>>, SUCCESS)
<1>1. CASE Refuse(<<"push_front", v, r>>, r)
  BY <1>1 DEF Refuse, Refused, Fail, resizes
<1>2. CASE ~Refuse(<<"push_front", v, r>>, r)
  <2> DEFINE b == Resized(r)
             t == IF b.tail = 0 THEN b.capacity - 1 ELSE b.tail - 1
  <2>1. /\ r \/ ~is_full
        /\ data' = [b.data EXCEPT ![t] = v]
        /\ head' = b.head /\ tail' = t /\ capacity' = b.capacity
        /\ decrease_t' = b.decrease_t
        /\ ret' = Returned(<<"push_front", v, r>>, SUCCESS)
    BY <1>2 DEF circular_buffer_push_front
  <2>2. Holds(b)
    BY <2>1, ResizedHolds DEF Inv
  <2>3. count \in Nat
    BY InvBufferOK, CountType
  <2>4. t = IF b.tail = 0 THEN b.capacity - 1 ELSE b.tail - 1
    OBVIOUS
  <2> HIDE DEF b, t
  <2> QED BY <2>1, <2>2, <2>3, <2>4, WriteAtTail
<1> QED BY <1>1, <1>2

\* The inlined push of a pointer is a push that may resize.
LEMMA PushPtrEffect ==
    ASSUME Inv, NEW v \in Items, circular_buffer_push_ptr_with_resize(v)
    PROVE  \/ Refused(<<"push", v, TRUE>>, TRUE)
           \/ BufferOK' /\ AddsLast(v) /\ ret' = Returned(<<"push", v, TRUE>>, SUCCESS)
<1>1. CASE ~is_full
  <2>1. /\ data' = [data EXCEPT ![head] = v]
        /\ head' = next_index(head, capacity)
        /\ tail' = tail /\ capacity' = capacity /\ decrease_t' = decrease_t
        /\ ret' = Returned(<<"push", v, TRUE>>, SUCCESS)
    BY <1>1 DEF circular_buffer_push_ptr_with_resize
  <2>2. Holds(Unmoved)
    <3>1. Resized(FALSE) = Unmoved
      BY DEF Resized
    <3> QED BY <1>1, <3>1, ResizedHolds DEF Inv
  <2>3. count \in Nat
    BY InvBufferOK, CountType
  <2>4. /\ Unmoved.data = data /\ Unmoved.head = head /\ Unmoved.tail = tail
        /\ Unmoved.capacity = capacity /\ Unmoved.decrease_t = decrease_t
    BY DEF Unmoved
  <2> QED BY <2>1, <2>2, <2>3, <2>4, WriteAtHead
<1>2. CASE is_full
  <2>1. circular_buffer_push(v, TRUE)
    BY <1>2 DEF circular_buffer_push_ptr_with_resize
  <2> QED BY <2>1, PushEffect
<1> QED BY <1>1, <1>2

\* circular_buffer_pop hands out the first item, or fails when there is none.
LEMMA PopEffect ==
    ASSUME Inv, circular_buffer_pop
    PROVE  \/ count = 0 /\ UNCHANGED buffer /\ ret' = Returned(<<"pop">>, FAILURE)
           \/ /\ BufferOK'
              /\ count > 0 /\ count' = count - 1
              /\ \A i \in 0..count - 2 : data'[Slot(i)'] = data[Slot(i + 1)]
              /\ ret' = ReturnedItem(data[Slot(0)])
<1>0. BufferOK /\ min_size \in Nat /\ min_size >= 1
  BY InvBufferOK, MinSizeAssumption, SMT, SMTT(30)
<1>1. CASE is_empty
  BY <1>0, <1>1, SMT, SMTT(30) DEF circular_buffer_pop, Fail, is_empty, count, CountIn, BufferOK
<1>2. CASE ~is_empty
  <2>1. /\ data' = data /\ head' = head /\ capacity' = capacity /\ decrease_t' = decrease_t
        /\ tail' = next_index(tail, capacity)
        /\ ret' = ReturnedItem(data[tail])
    BY <1>2 DEF circular_buffer_pop
  <2>2. tail' \in 0..capacity - 1 /\ count > 0 /\ count' = count - 1 /\ Slot(0) = tail
    BY <1>0, <1>2, <2>1, SMT, SMTT(30) DEF is_empty, next_index, count, CountIn, BufferOK, Slot, SlotIn
  <2>3. ASSUME NEW i \in 0..count - 2 PROVE Slot(i)' = Slot(i + 1)
    BY <1>0, <1>2, <2>1, SMT, SMTT(30) DEF is_empty, next_index, count, CountIn, BufferOK, Slot, SlotIn
  <2>4. BufferOK'
    BY <1>0, <2>1, <2>2 DEF BufferOK
  <2> QED BY <2>1, <2>2, <2>3, <2>4
<1> QED BY <1>1, <1>2

\* circular_buffer_clean leaves no item.
LEMMA CleanEffect ==
    ASSUME Inv, circular_buffer_clean
    PROVE  BufferOK' /\ count' = 0 /\ ret' = Returned(<<"clean">>, SUCCESS)
BY InvBufferOK, MinSizeAssumption, SMT, SMTT(30) DEF BufferOK, circular_buffer_clean, count, CountIn

\* circular_buffer_swap_ptr_at exchanges two items and touches no other.
LEMMA SwapEffect ==
    ASSUME Inv, NEW i \in Nat, NEW j \in Nat, circular_buffer_swap_ptr_at(i, j)
    PROVE  /\ BufferOK' /\ count' = count /\ ret' = Returned(<<"swap", i, j>>, SUCCESS)
           /\ i \in 0..count - 1 /\ j \in 0..count - 1
           /\ data'[Slot(i)'] = data[Slot(j)]
           /\ data'[Slot(j)'] = data[Slot(i)]
           /\ \A k \in (0..count - 1) \ {i, j} : data'[Slot(k)'] = data[Slot(k)]
<1>0. BufferOK /\ count \in Nat
  BY InvBufferOK, CountType
<1>1. /\ data' = [data EXCEPT ![Slot(i)] = data[Slot(j)], ![Slot(j)] = data[Slot(i)]]
      /\ capacity' = capacity /\ head' = head /\ tail' = tail /\ decrease_t' = decrease_t
      /\ ret' = Returned(<<"swap", i, j>>, SUCCESS)
      /\ i \in 0..count - 1 /\ j \in 0..count - 1
  BY <1>0, SMT, SMTT(30) DEF circular_buffer_swap_ptr_at
<1>2. \A k : Slot(k)' = Slot(k)
  BY <1>1 DEF Slot
<1>3. data \in [0..capacity - 1 -> Items \cup {Junk}]
  BY <1>0 DEF BufferOK
<1>4. Slot(i) \in 0..capacity - 1 /\ Slot(j) \in 0..capacity - 1
  BY <1>0, <1>1, SlotType
<1>5. data' \in [0..capacity - 1 -> Items \cup {Junk}]
  BY <1>1, <1>3, <1>4
<1>6. BufferOK'
  BY <1>0, <1>1, <1>5 DEF BufferOK
<1>7. count' = count
  BY <1>1 DEF count
<1>8. data'[Slot(i)'] = data[Slot(j)] /\ data'[Slot(j)'] = data[Slot(i)]
  BY <1>1, <1>2, <1>3, <1>4
<1>9. ASSUME NEW k \in (0..count - 1) \ {i, j} PROVE data'[Slot(k)'] = data[Slot(k)]
  <2>1. Slot(k) # Slot(i) /\ Slot(k) # Slot(j) /\ Slot(k) \in 0..capacity - 1
    BY <1>0, <1>1, SlotType
  <2> QED BY <1>1, <1>2, <1>3, <2>1
<1> QED BY <1>1, <1>6, <1>7, <1>8, <1>9

-----------------------------------------------------------------------
(* The invariant.                                                        *)

ResultOK ==
    /\ ret.code \in {SUCCESS, FAILURE}
    /\ ret.value = <<>> \/ \E v \in Items : ret.value = <<v>>

\* A call that hands out no item returns a proper result.
LEMMA PlainResult ==
    ASSUME NEW call, NEW c \in {SUCCESS, FAILURE}, ret' = Returned(call, c)
    PROVE  ResultOK'
BY DEF ResultOK, Returned

\* So does a pop that hands out an item.
LEMMA ItemResult == ASSUME NEW v \in Items, ret' = ReturnedItem(v) PROVE ResultOK'
BY DEF ResultOK, ReturnedItem

\* Appending, at either end, an item to items that were pushed.
LEMMA AddsKeepsNoJunk ==
    ASSUME NoJunkInside, NEW v \in Items, count \in Nat, BufferOK',
           AddsLast(v) \/ AddsFirst(v)
    PROVE  NoJunkInside'
<1>1. CASE AddsLast(v)
  <2> SUFFICES ASSUME NEW i \in 0..count' - 1 PROVE data'[Slot(i)'] \in Items
    BY DEF NoJunkInside
  <2>1. Slot(i)' = SlotIn(tail', capacity', i)
    BY DEF Slot
  <2>2. i \in 0..count - 1 \/ i = count
    BY <1>1, SMT, SMTT(30) DEF AddsLast
  <2> QED BY <1>1, <2>1, <2>2 DEF AddsLast, NoJunkInside
<1>2. CASE AddsFirst(v)
  <2> SUFFICES ASSUME NEW i \in 0..count' - 1 PROVE data'[Slot(i)'] \in Items
    BY DEF NoJunkInside
  <2>1. Slot(i)' = SlotIn(tail', capacity', i)
    BY DEF Slot
  <2>2. CASE i = 0
    <3>1. data'[SlotIn(tail', capacity', 0)] \in Items
      <4>1. data'[tail'] \in Items
        BY <1>2 DEF AddsFirst
      <4>2. SlotIn(tail', capacity', 0) = tail'
        BY OffsetsPrime
      <4> QED BY <4>1, <4>2
    <3> QED BY <2>1, <2>2, <3>1
  <2>3. CASE i # 0
    <3>1. i - 1 \in 0..count - 1 /\ (i - 1) + 1 = i
      BY <1>2, <2>3, SMT, SMTT(30) DEF AddsFirst
    <3> QED BY <1>2, <2>1, <3>1 DEF AddsFirst, NoJunkInside
  <2> QED BY <2>2, <2>3
<1> QED BY <1>1, <1>2

\* The ring is well formed, and only pushed items are between its offsets,
\* after every sequence of calls.
THEOREM RingWellFormed == Spec => [](TypeOK /\ NoJunkInside)
<1> USE DEF Inv
<1>1. Init => Inv
  BY MinSizeAssumption, SMT, SMTT(30) DEF Init, TypeOK, NoJunkInside, Returned, count, CountIn, SUCCESS, FAILURE
<1>2. Inv /\ [Next]_vars => Inv'
  <2> SUFFICES ASSUME Inv, [Next]_vars PROVE Inv'
    OBVIOUS
  <2>0. BufferOK /\ count \in Nat /\ NoJunkInside
    BY InvBufferOK, CountType
  <2> SUFFICES BufferOK' /\ ResultOK' /\ NoJunkInside'
    BY DEF TypeOK, BufferOK, ResultOK
  <2>1. ASSUME UNCHANGED buffer PROVE BufferOK' /\ NoJunkInside'
    BY <2>0, <2>1 DEF buffer, BufferOK, NoJunkInside, count, Slot
  <2>2. ASSUME NEW call, NEW r \in BOOLEAN, Refused(call, r)
        PROVE  BufferOK' /\ ResultOK' /\ NoJunkInside'
    BY <2>1, <2>2, PlainResult DEF Refused
  <2>3. ASSUME NEW v \in Items, NEW r \in BOOLEAN, circular_buffer_push(v, r)
        PROVE  BufferOK' /\ ResultOK' /\ NoJunkInside'
    BY <2>0, <2>2, <2>3, PushEffect, AddsKeepsNoJunk, PlainResult
  <2>4. ASSUME NEW v \in Items, NEW r \in BOOLEAN, circular_buffer_push_front(v, r)
        PROVE  BufferOK' /\ ResultOK' /\ NoJunkInside'
    BY <2>0, <2>2, <2>4, PushFrontEffect, AddsKeepsNoJunk, PlainResult
  <2>5. ASSUME NEW v \in Items, circular_buffer_push_ptr_with_resize(v)
        PROVE  BufferOK' /\ ResultOK' /\ NoJunkInside'
    BY <2>0, <2>2, <2>5, PushPtrEffect, AddsKeepsNoJunk, PlainResult
  <2>6. CASE circular_buffer_pop
    <3>1. CASE UNCHANGED buffer /\ ret' = Returned(<<"pop">>, FAILURE)
      BY <2>1, <3>1, PlainResult
    <3>2. CASE /\ BufferOK'
               /\ count > 0 /\ count' = count - 1
               /\ \A i \in 0..count - 2 : data'[Slot(i)'] = data[Slot(i + 1)]
               /\ ret' = ReturnedItem(data[Slot(0)])
      <4>1. ResultOK'
        BY <2>0, <3>2, ItemResult, SMT, SMTT(30) DEF NoJunkInside
      <4>2. NoJunkInside'
        <5> SUFFICES ASSUME NEW i \in 0..count' - 1 PROVE data'[Slot(i)'] \in Items
          BY DEF NoJunkInside
        <5>1. i \in 0..count - 2 /\ i + 1 \in 0..count - 1
          BY <2>0, <3>2, SMT, SMTT(30)
        <5> QED BY <2>0, <3>2, <5>1 DEF NoJunkInside
      <4> QED BY <3>2, <4>1, <4>2
    <3> QED BY <2>6, <3>1, <3>2, PopEffect
  <2>7. CASE circular_buffer_clean
    <3>1. BufferOK' /\ count' = 0 /\ ret' = Returned(<<"clean">>, SUCCESS)
      BY <2>7, CleanEffect
    <3> QED BY <3>1, PlainResult, SMT, SMTT(30) DEF NoJunkInside
  <2>8. ASSUME NEW i \in 0..capacity - 1, NEW j \in 0..capacity - 1,
               circular_buffer_swap_ptr_at(i, j)
        PROVE  BufferOK' /\ ResultOK' /\ NoJunkInside'
    <3>1. /\ BufferOK' /\ count' = count /\ ret' = Returned(<<"swap", i, j>>, SUCCESS)
          /\ i \in 0..count - 1 /\ j \in 0..count - 1
          /\ data'[Slot(i)'] = data[Slot(j)]
          /\ data'[Slot(j)'] = data[Slot(i)]
          /\ \A k \in (0..count - 1) \ {i, j} : data'[Slot(k)'] = data[Slot(k)]
      <4>1. i \in Nat /\ j \in Nat
        BY <2>0, SMT, SMTT(30) DEF BufferOK
      <4> QED BY <2>8, <4>1, SwapEffect
    <3>2. ASSUME NEW k \in 0..count - 1 PROVE data'[Slot(k)'] \in Items
      BY <2>0, <3>1 DEF NoJunkInside
    <3> QED BY <3>1, <3>2, PlainResult DEF NoJunkInside
  <2>9. CASE UNCHANGED vars
    <3>1. UNCHANGED buffer /\ ret' = ret
      BY <2>9 DEF vars, buffer
    <3>2. ResultOK
      BY DEF TypeOK, ResultOK
    <3> QED BY <2>1, <3>1, <3>2 DEF ResultOK
  <2> QED BY <2>3, <2>4, <2>5, <2>6, <2>7, <2>8, <2>9 DEF Next
<1> QED BY <1>1, <1>2, PTL DEF Spec

-----------------------------------------------------------------------
(* The refinement.                                                       *)

\* The refinement mapping: Contents is a sequence of as many items as
\* circular_buffer_count says, read from the tail on.
LEMMA ContentsType ==
    ASSUME Inv
    PROVE  /\ Contents \in Seq(Items) /\ Len(Contents) = count
           /\ \A k \in 1..count : Contents[k] = data[Slot(k - 1)]
<1>1. count \in Nat
  BY InvBufferOK, CountType
<1>2. \A k \in 1..count : data[Slot(k - 1)] \in Items
  BY <1>1, SMT, SMTT(30) DEF Inv, NoJunkInside
<1> QED BY <1>1, <1>2, SMT, SMTT(30) DEF Contents

\* The same after a step.
LEMMA ContentsPrime ==
    ASSUME Inv'
    PROVE  /\ Contents' \in Seq(Items) /\ Len(Contents') = count'
           /\ \A k \in 1..count' : Contents'[k] = data'[SlotIn(tail', capacity', k - 1)]
<1>1. BufferOK'
  BY DEF Inv, TypeOK, BufferOK
<1>2. count' \in Nat
  BY <1>1, OffsetsPrime
<1>3. \A i \in 0..count' - 1 : data'[SlotIn(tail', capacity', i)] \in Items
  BY DEF Inv, NoJunkInside, Slot
<1>4. ASSUME NEW k \in 1..count' PROVE data'[SlotIn(tail', capacity', k - 1)] \in Items
  <2> DEFINE n == count'
  <2>1. n \in Nat /\ k \in 1..n
    BY <1>2
  <2> HIDE DEF n
  <2>2. k - 1 \in 0..n - 1
    BY <2>1, SMT, SMTT(30)
  <2> QED BY <1>3, <2>2 DEF n
<1>5. Contents' = [k \in 1..count' |-> data'[SlotIn(tail', capacity', k - 1)]]
  BY DEF Contents, Slot
<1> QED BY <1>2, <1>4, <1>5, SMT, SMTT(30)

\* Writing at head appends to the queue.
LEMMA AddsLastAppends ==
    ASSUME Inv, Inv', NEW v \in Items, AddsLast(v)
    PROVE  Contents' = Append(Contents, v)
<1>1. count \in Nat /\ count' = count + 1
  BY InvBufferOK, CountType DEF AddsLast
<1>2. \A k \in 1..count : Contents'[k] = Contents[k]
  <2> SUFFICES ASSUME NEW k \in 1..count PROVE Contents'[k] = Contents[k]
    OBVIOUS
  <2>1. k - 1 \in 0..count - 1 /\ k \in 1..count'
    BY <1>1, SMT, SMTT(30)
  <2>2. data'[SlotIn(tail', capacity', k - 1)] = data[Slot(k - 1)]
    BY <2>1 DEF AddsLast, Slot
  <2> QED BY <2>1, <2>2, ContentsType, ContentsPrime
<1>3. Contents'[count + 1] = v
  <2>1. count + 1 \in 1..count' /\ (count + 1) - 1 = count
    BY <1>1, SMT, SMTT(30)
  <2> QED BY <2>1, ContentsPrime DEF AddsLast
<1> QED BY <1>1, <1>2, <1>3, ContentsType, ContentsPrime, SMT, SMTT(30)

\* Writing before tail puts an item in front of the queue.
LEMMA AddsFirstPrepends ==
    ASSUME Inv, Inv', NEW v \in Items, AddsFirst(v)
    PROVE  Contents' = <<v>> \o Contents
<1>1. count \in Nat /\ count' = count + 1
  BY InvBufferOK, CountType DEF AddsFirst
<1>2. BufferOK'
  BY DEF Inv, TypeOK, BufferOK
<1>3. Contents'[1] = v
  <2>1. SlotIn(tail', capacity', 0) = tail'
    BY <1>2, OffsetsPrime
  <2>2. 1 \in 1..count' /\ 1 - 1 = 0
    BY <1>1, SMT, SMTT(30)
  <2> QED BY <2>1, <2>2, ContentsPrime DEF AddsFirst
<1>4. ASSUME NEW k \in 1..count PROVE Contents'[k + 1] = Contents[k]
  <2>1. k - 1 \in 0..count - 1 /\ k + 1 \in 1..count' /\ (k + 1) - 1 = (k - 1) + 1
    BY <1>1, SMT, SMTT(30)
  <2>2. data'[SlotIn(tail', capacity', (k - 1) + 1)] = data[Slot(k - 1)]
    BY <2>1 DEF AddsFirst
  <2> QED BY <2>1, <2>2, ContentsType, ContentsPrime
<1>5. /\ <<v>> \o Contents \in Seq(Items) /\ Len(<<v>> \o Contents) = count + 1
      /\ (<<v>> \o Contents)[1] = v
      /\ \A k \in 1..count : (<<v>> \o Contents)[k + 1] = Contents[k]
  BY <1>1, ContentsType, SMT, SMTT(30)
<1>6. ASSUME NEW k \in 1..count + 1 PROVE Contents'[k] = (<<v>> \o Contents)[k]
  <2>1. CASE k = 1
    BY <2>1, <1>3, <1>5
  <2>2. CASE k # 1
    <3>1. k - 1 \in 1..count /\ (k - 1) + 1 = k
      BY <1>1, <2>2, SMT, SMTT(30)
    <3> QED BY <3>1, <1>4, <1>5
  <2> QED BY <2>1, <2>2
<1> QED BY <1>1, <1>5, <1>6, ContentsPrime, SMT, SMTT(30)

\* A call that fails leaves the queue alone and fails for a reason the
\* queue allows.
LEMMA RefusedRefuses ==
    ASSUME Inv, NEW call, NEW r \in BOOLEAN, Refused(call, r)
    PROVE  Queue!Refuse(call, r)
<1>1. Contents' = Contents
  BY DEF Refused, buffer, Contents, count, Slot
<1>2. ~r => count >= min_size - 1
  <2> SUFFICES ASSUME ~r PROVE count >= min_size - 1
    OBVIOUS
  <2>1. BufferOK /\ is_full
    BY InvBufferOK DEF Refused
  <2> QED BY <2>1, MinSizeAssumption, SMT, SMTT(30) DEF BufferOK, is_full, next_index, count, CountIn
<1>3. Len(Contents) = count
  BY ContentsType
<1> QED BY <1>1, <1>2, <1>3
        DEF Refused, Queue!Refuse, Queue!Returned, Returned, Queue!FAILURE, FAILURE

\* circular_buffer_pop is the queue's Pop.
LEMMA PopPops ==
    ASSUME Inv, Inv', circular_buffer_pop
    PROVE  Queue!Pop
<1>0. count \in Nat /\ Contents \in Seq(Items) /\ Len(Contents) = count
  BY InvBufferOK, CountType, ContentsType
<1>1. CASE count = 0 /\ UNCHANGED buffer /\ ret' = Returned(<<"pop">>, FAILURE)
  <2>1. Contents' = Contents
    BY <1>1 DEF buffer, Contents, count, Slot
  <2>2. Contents = <<>>
    BY <1>0, <1>1, SMT, SMTT(30)
  <2> QED BY <1>1, <2>1, <2>2
          DEF Queue!Pop, Queue!Returned, Returned, Queue!FAILURE, FAILURE
<1>2. CASE /\ count > 0 /\ count' = count - 1
           /\ \A i \in 0..count - 2 : data'[Slot(i)'] = data[Slot(i + 1)]
           /\ ret' = ReturnedItem(data[Slot(0)])
  <2>1. Contents # <<>> /\ Head(Contents) = data[Slot(0)]
    BY <1>0, <1>2, ContentsType, SMT, SMTT(30)
  <2>2. ASSUME NEW k \in 1..count - 1 PROVE Contents'[k] = Contents[k + 1]
    <3>1. k - 1 \in 0..count - 2 /\ k \in 1..count' /\ k + 1 \in 1..count
          /\ (k - 1) + 1 = (k + 1) - 1
      BY <1>0, <1>2, SMT, SMTT(30)
    <3>2. data'[SlotIn(tail', capacity', k - 1)] = data[Slot((k - 1) + 1)]
      BY <1>2, <3>1 DEF Slot
    <3> QED BY <3>1, <3>2, ContentsType, ContentsPrime
  <2>3. /\ Tail(Contents) \in Seq(Items) /\ Len(Tail(Contents)) = count - 1
        /\ \A k \in 1..count - 1 : Tail(Contents)[k] = Contents[k + 1]
    BY <1>0, <2>1, SMT, SMTT(30)
  <2>4. Contents' \in Seq(Items) /\ Len(Contents') = count - 1
    BY <1>2, ContentsPrime
  <2>5. Contents' = Tail(Contents)
    BY <1>0, <1>2, <2>2, <2>3, <2>4, SMT, SMTT(30)
  <2> QED BY <1>2, <2>1, <2>5
          DEF Queue!Pop, Queue!ReturnedItem, ReturnedItem, Queue!SUCCESS, SUCCESS
<1> QED BY <1>1, <1>2, PopEffect

\* circular_buffer_swap_ptr_at is the queue's Swap.
LEMMA SwapSwaps ==
    ASSUME Inv, Inv', NEW i \in Nat, NEW j \in Nat, circular_buffer_swap_ptr_at(i, j)
    PROVE  \E x, y \in 0..Len(Contents) - 1 : Queue!Swap(x, y)
<1>0. count \in Nat /\ Contents \in Seq(Items) /\ Len(Contents) = count
  BY InvBufferOK, CountType, ContentsType
<1>1. /\ count' = count /\ ret' = Returned(<<"swap", i, j>>, SUCCESS)
      /\ i \in 0..count - 1 /\ j \in 0..count - 1
      /\ data'[SlotIn(tail', capacity', i)] = data[Slot(j)]
      /\ data'[SlotIn(tail', capacity', j)] = data[Slot(i)]
      /\ \A k \in (0..count - 1) \ {i, j} :
            data'[SlotIn(tail', capacity', k)] = data[Slot(k)]
  BY SwapEffect DEF Slot
<1>2. Contents' \in Seq(Items) /\ Len(Contents') = count
  BY <1>1, ContentsPrime
<1>3. ASSUME NEW k \in 0..count - 1
      PROVE  /\ Contents'[k + 1] = data'[SlotIn(tail', capacity', k)]
             /\ Contents[k + 1] = data[Slot(k)]
  <2>1. k + 1 \in 1..count /\ k + 1 \in 1..count' /\ (k + 1) - 1 = k
    BY <1>0, <1>1, SMT, SMTT(30)
  <2> QED BY <2>1, ContentsType, ContentsPrime
<1> DEFINE swapped == [Contents EXCEPT ![i + 1] = Contents[j + 1], ![j + 1] = Contents[i + 1]]
<1>4. /\ swapped \in Seq(Items) /\ Len(swapped) = count
      /\ \A k \in 1..count : swapped[k] = IF k = j + 1 THEN Contents[i + 1]
                                          ELSE IF k = i + 1 THEN Contents[j + 1]
                                          ELSE Contents[k]
  BY <1>0, <1>1, SMT, SMTT(30)
<1>5. ASSUME NEW k \in 1..count PROVE Contents'[k] = swapped[k]
  <2>1. k - 1 \in 0..count - 1 /\ (k - 1) + 1 = k
    BY <1>0, SMT, SMTT(30)
  <2>2. CASE k - 1 = j
    BY <1>1, <1>3, <1>4, <2>1, <2>2, SMT, SMTT(30)
  <2>3. CASE k - 1 # j /\ k - 1 = i
    BY <1>1, <1>3, <1>4, <2>1, <2>3, SMT, SMTT(30)
  <2>4. CASE k - 1 # j /\ k - 1 # i
    BY <1>1, <1>3, <1>4, <2>1, <2>4, SMT, SMTT(30)
  <2> QED BY <2>2, <2>3, <2>4
<1>6. Contents' = swapped
  <2> HIDE DEF swapped
  <2> QED BY <1>0, <1>2, <1>4, <1>5, SMT, SMTT(30)
<1>7. Queue!Swap(i, j)
  BY <1>1, <1>6 DEF Queue!Swap, Queue!Returned, Returned, Queue!SUCCESS, SUCCESS
<1> QED BY <1>0, <1>1, <1>7

\* The ring implements the double-ended queue its users rely on, whatever
\* its initial size: growing, shrinking and wrapping never lose, invent or
\* reorder an item, and a push is refused only when the queue may refuse it.
THEOREM RingIsAQueue == Spec => ImplementsQueue
<1>1. Init => Queue!Init
  <2> SUFFICES ASSUME Init PROVE Queue!Init
    OBVIOUS
  <2>1. count = 0
    BY SMT, SMTT(30) DEF Init, count, CountIn
  <2>2. Contents = <<>>
    BY <2>1, SMT, SMTT(30) DEF Contents
  <2> QED BY <2>2 DEF Init, Queue!Init, Queue!Returned, Returned, Queue!SUCCESS, SUCCESS
<1>2. Inv /\ Inv' /\ [Next]_vars => [Queue!Next]_Queue!vars
  <2> SUFFICES ASSUME Inv, Inv', [Next]_vars PROVE [Queue!Next]_Queue!vars
    OBVIOUS
  <2>1. ASSUME NEW v \in Items, NEW r \in BOOLEAN, circular_buffer_push(v, r)
        PROVE  Queue!Push(v, r)
    BY <2>1, PushEffect, RefusedRefuses, AddsLastAppends
       DEF Queue!Push, Queue!Returned, Returned, Queue!SUCCESS, SUCCESS
  <2>2. ASSUME NEW v \in Items, NEW r \in BOOLEAN, circular_buffer_push_front(v, r)
        PROVE  Queue!PushFront(v, r)
    BY <2>2, PushFrontEffect, RefusedRefuses, AddsFirstPrepends
       DEF Queue!PushFront, Queue!Returned, Returned, Queue!SUCCESS, SUCCESS
  <2>3. ASSUME NEW v \in Items, circular_buffer_push_ptr_with_resize(v)
        PROVE  Queue!Push(v, TRUE)
    BY <2>3, PushPtrEffect, RefusedRefuses, AddsLastAppends
       DEF Queue!Push, Queue!Returned, Returned, Queue!SUCCESS, SUCCESS
  <2>4. CASE circular_buffer_pop
    BY <2>4, PopPops DEF Queue!Next
  <2>5. CASE circular_buffer_clean
    <3>1. count' = 0 /\ ret' = Returned(<<"clean">>, SUCCESS)
      BY <2>5, CleanEffect
    <3>2. Contents' = <<>>
      BY <3>1, ContentsPrime, SMT, SMTT(30)
    <3> QED BY <3>1, <3>2
            DEF Queue!Next, Queue!Clean, Queue!Returned, Returned, Queue!SUCCESS, SUCCESS
  <2>6. ASSUME NEW i \in 0..capacity - 1, NEW j \in 0..capacity - 1,
               circular_buffer_swap_ptr_at(i, j)
        PROVE  Queue!Next
    <3>1. i \in Nat /\ j \in Nat
      BY InvBufferOK, SMT, SMTT(30) DEF BufferOK
    <3> QED BY <2>6, <3>1, SwapSwaps DEF Queue!Next
  <2>7. CASE UNCHANGED vars
    BY <2>7 DEF vars, Queue!vars, Contents, count, Slot
  <2> QED BY <2>1, <2>2, <2>3, <2>4, <2>5, <2>6, <2>7 DEF Next, Queue!Next
<1>3. Spec => []Inv
  BY RingWellFormed DEF Inv
<1> QED BY <1>1, <1>2, <1>3, PTL DEF Spec, ImplementsQueue, Queue!Spec
=======================================================================
