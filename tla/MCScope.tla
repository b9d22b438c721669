------------------------------ MODULE MCScope ------------------------------
(* Scope for TLC: six mixes of calls.                                     *)
EXTENDS Scope

Setting(safely, handlers, spawns, budget, names) ==
    [safely |-> safely, handlers |-> handlers, spawns |-> spawns,
     budget |-> budget, calls |-> names]

MCSettings ==
    {Setting(FALSE, {}, 2, 4, {"inherit", "destroy", "cancel", "finally"}),
     Setting(FALSE, {}, 2, 4, {"inherit", "destroy", "cancel", "timeout"}),
     Setting(FALSE, {}, 3, 4, {"inherit", "cancel", "await"}),
     Setting(TRUE, {"own", "child"}, 2, 4, {"inherit", "cancel", "await", "token"}),
     Setting(TRUE, {}, 2, 4, {"inherit", "cancel", "await", "protect"}),
     Setting(TRUE, {"child"}, 1, 4, {"inherit", "context", "destroy", "safely"})}
=============================================================================
