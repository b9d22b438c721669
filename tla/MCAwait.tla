------------------------------ MODULE MCAwait -------------------------------
(* Instances of Await for TLC: iterate() over arrays and iterators, and the *)
(* await functions over arrays and iterators.                               *)
EXTENDS Await

NoFutures == <<>>

Setting(mode, items, concurrency, traversable, cancels, how, token, futures) ==
    [mode |-> mode, items |-> items, concurrency |-> concurrency, traversable |-> traversable,
     validSuspends |-> FALSE, cancelPending |-> TRUE, cancels |-> cancels, how |-> how, token |-> token, futures |-> futures]

Co(state) == [state |-> state, kind |-> "coroutine"]
Fu(state) == [state |-> state, kind |-> "future"]

MCSettings ==
    {Setting("iterate", 3, 2, t, 0, All, FALSE, NoFutures) : t \in BOOLEAN}
    \cup {Setting("iterate", 2, 0, TRUE, 1, All, FALSE, NoFutures)}
    \cup {[Setting("iterate", 2, 2, TRUE, 0, All, FALSE, NoFutures) EXCEPT !.validSuspends = TRUE]}
    \cup {[Setting("iterate", 2, 2, FALSE, 1, All, FALSE, NoFutures) EXCEPT !.cancelPending = FALSE]}
    \cup {Setting("array", 3, 0, FALSE, 1, how, TRUE, fs) :
             how \in {AnyOrFail, FirstSuccess, AllOrFail, All, AnyOfOrFail(2), AnyOf(2)},
             fs \in [1..3 -> {Co("pending"), Co("error"), Fu("pending"), Fu("ok")}]}
    \cup {Setting("array", 2, 0, FALSE, 0, All, FALSE, <<Co("pending"), Fu("invalid")>>)}
    \cup {Setting("iterator", 3, 2, TRUE, 1, how, FALSE, fs) :
             how \in {AnyOrFail, FirstSuccess, AllOrFail, All, AnyOf(2)},
             fs \in {<<Co("pending"), Fu("ok"), Fu("pending")>>,
                     <<Co("pending"), Fu("pending"), Fu("invalid")>>}}
=============================================================================
