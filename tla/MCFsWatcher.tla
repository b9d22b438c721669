----------------------------- MODULE MCFsWatcher -----------------------------
(* FsWatcher on a tree of two levels and bursts of up to four changes.     *)
EXTENDS FsWatcher

MCPaths == {<<>>, <<"a">>, <<"b">>, <<"a", "a">>, <<"b", "a">>}

One == {CHOOSE i \in Iterators : TRUE}

BasePlan ==
  [recursive |-> FALSE, coalesce |-> TRUE, debounce |-> 0, hold |-> 0, extensions |-> {}, time |-> 0,
   dirs |-> {<<>>}, ops |-> 0, touches |-> 4, refusals |-> 0, iterators |-> Iterators,
   closes |-> TRUE, cancels |-> TRUE, faults |-> TRUE]

BurstPlan == [BasePlan EXCEPT !.debounce = 2, !.hold = 3, !.touches = 3, !.time = 4, !.iterators = One]

TreePlan ==
  [BasePlan EXCEPT !.recursive = TRUE, !.debounce = 1, !.extensions = {"f"}, !.iterators = {},
                   !.ops = 4, !.touches = 0, !.faults = FALSE, !.closes = FALSE]

MCPlans ==
  {BasePlan,
   [BasePlan EXCEPT !.coalesce = FALSE],
   BurstPlan,
   [BurstPlan EXCEPT !.coalesce = FALSE, !.extensions = {"f"}, !.hold = 0, !.touches = 2, !.iterators = Iterators],
   [BurstPlan EXCEPT !.hold = 1, !.touches = 2, !.time = 3, !.iterators = Iterators],
   [TreePlan EXCEPT !.ops = 3, !.dirs = {<<>>, <<"a">>, <<"a", "a">>}],
   [TreePlan EXCEPT !.ops = 4, !.dirs = {<<>>, <<"a">>}],
   [TreePlan EXCEPT !.ops = 2, !.refusals = 1, !.dirs = {<<>>, <<"a">>, <<"a", "a">>}],
   [TreePlan EXCEPT !.touches = 1, !.ops = 1, !.time = 1, !.closes = TRUE, !.iterators = One]}

=============================================================================
