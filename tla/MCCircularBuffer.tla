----------------------- MODULE MCCircularBuffer -----------------------
(* The ring for TLC, built for Count items.                              *)
EXTENDS CircularBuffer, Bitwise

CONSTANT Count      \* the size the constructor is asked for

PowersOf2(n) == {2^k : k \in 0..n}

\* The smallest power of two that is not below n, as the loop finds it.
round_up_to_power_of_2(n) ==
    CHOOSE p \in PowersOf2(n) : p >= n /\ \A q \in PowersOf2(n) : q >= n => p <= q

\* circular_buffer_ctor: a count of 0 stands for MINIMUM_COUNT.
MCMinSize == round_up_to_power_of_2(IF Count = 0 THEN 4 ELSE Count)

\* The mask of next_index is what the model says it is.
ASSUME MaskWraps ==
    \A k \in 0..5 : \A i \in 0..2^k - 1 :
        ((i + 1) & (2^k - 1)) = next_index(i, 2^k)

\* next_index masks with capacity - 1, which wraps an offset only when the
\* capacity is a power of two: doubling, halving and the clamp to min_size
\* must keep it one.
CapacityIsPowerOf2 == capacity \in PowersOf2(6)
=======================================================================
