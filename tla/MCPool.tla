---------------------------- MODULE MCPool ----------------------------
(* Pool for TLC: four calls at a time with hooks around acquire and       *)
(* release, three with the health check, without other hooks that leave a *)
(* gap and with every hook, and with the breaker; and, with objects and   *)
(* scalars in one pool, callers that break the rules.                     *)
EXTENDS Pool, TLC

CONSTANTS MaxResources

MCResources == 1..MaxResources

MCSetups ==
    {[calls |-> 4, hooks |-> {"before_acquire", "before_release"},
      healthcheck |-> FALSE, hook_closes |-> FALSE, circuit_breaker |-> FALSE,
      objects |-> MCResources, misuse |-> FALSE],
     [calls |-> 3, hooks |-> {"before_acquire"},
      healthcheck |-> TRUE, hook_closes |-> FALSE, circuit_breaker |-> FALSE,
      objects |-> MCResources, misuse |-> FALSE],
     [calls |-> 3, hooks |-> {"before_acquire", "before_release", "destructor", "strategy"},
      healthcheck |-> TRUE, hook_closes |-> FALSE, circuit_breaker |-> FALSE,
      objects |-> MCResources, misuse |-> FALSE],
     [calls |-> 3, hooks |-> {"before_acquire", "before_release", "destructor", "strategy"},
      healthcheck |-> TRUE, hook_closes |-> TRUE, circuit_breaker |-> TRUE,
      objects |-> MCResources, misuse |-> FALSE],
     [calls |-> 3, hooks |-> {"before_release"},
      healthcheck |-> FALSE, hook_closes |-> FALSE, circuit_breaker |-> FALSE,
      objects |-> {1}, misuse |-> TRUE]}

Symmetry == Permutations(Coroutines)
=======================================================================
