----------------------------- MODULE MCTaskGroup -----------------------------
(* Three calls of spawn() on groups with one or two slots, two futures.     *)
EXTENDS TaskGroup

CONSTANTS NumSpawners, NumFutures

MCSpawners == 1..NumSpawners
MCFutures == 1..NumFutures

Setting(c, q, t, n) ==
    [concurrency |-> c, queueLimit |-> q, taskSet |-> t, calls |-> n]

\* One slot behind a queue of one; a TaskSet of two slots with the default
\* limit, saturated; a group without limits.
MCSettings ==
    {Setting(1, 1, FALSE, 2), Setting(2, NoLimit, TRUE, 1), Setting(0, NoLimit, FALSE, 1)}
=============================================================================
