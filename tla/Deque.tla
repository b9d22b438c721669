---------------------------- MODULE Deque ----------------------------
(* What the scheduler queues, channels and pools rely on when they use   *)
(* a circular_buffer_t: a double-ended queue that never loses, invents   *)
(* or reorders an item, that always takes an item when it may be resized *)
(* and that otherwise refuses one only when it holds the Room items it   *)
(* was constructed for.                                                  *)
EXTENDS Naturals, Sequences

CONSTANTS
    Items,          \* what the queue holds
    Room,           \* the number of items it has room for without resizing
    AllocMayFail    \* whether an allocation may fail

VARIABLES
    items,          \* the queue, oldest item first
    ret             \* what the last call returned

vars == <<items, ret>>

SUCCESS == "SUCCESS"
FAILURE == "FAILURE"

\* The result of a call: which call it was, its code, and the item it hands
\* out, if any.
Returned(call, code) == [call |-> call, code |-> code, value |-> <<>>]
ReturnedItem(v) == [call |-> <<"pop">>, code |-> SUCCESS, value |-> <<v>>]

Init == /\ items = <<>>
        /\ ret = Returned(<<"ctor">>, SUCCESS)

\* An operation may fail only when it may not resize and the room is used
\* up, or when the memory it needs cannot be had; it then changes nothing.
Refuse(call, should_resize) ==
    /\ IF should_resize THEN AllocMayFail ELSE Len(items) >= Room
    /\ ret' = Returned(call, FAILURE)
    /\ UNCHANGED items

Push(v, should_resize) ==
    LET call == <<"push", v, should_resize>>
    IN  \/ Refuse(call, should_resize)
        \/ /\ items' = Append(items, v)
           /\ ret' = Returned(call, SUCCESS)

PushFront(v, should_resize) ==
    LET call == <<"push_front", v, should_resize>>
    IN  \/ Refuse(call, should_resize)
        \/ /\ items' = <<v>> \o items
           /\ ret' = Returned(call, SUCCESS)

Pop ==
    \/ /\ items = <<>>
       /\ ret' = Returned(<<"pop">>, FAILURE)
       /\ UNCHANGED items
    \/ /\ items # <<>>
       /\ ret' = ReturnedItem(Head(items))
       /\ items' = Tail(items)

Clean == /\ items' = <<>>
         /\ ret' = Returned(<<"clean">>, SUCCESS)

Swap(i, j) ==
    /\ items' = [items EXCEPT ![i + 1] = items[j + 1], ![j + 1] = items[i + 1]]
    /\ ret' = Returned(<<"swap", i, j>>, SUCCESS)

Next ==
    \/ \E v \in Items, r \in BOOLEAN : Push(v, r) \/ PushFront(v, r)
    \/ Pop
    \/ Clean
    \/ \E i, j \in 0..Len(items) - 1 : Swap(i, j)

Spec == Init /\ [][Next]_vars
=======================================================================
