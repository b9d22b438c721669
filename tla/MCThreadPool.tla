-------------------------- MODULE MCThreadPool --------------------------
(* ThreadPool for TLC.                                                     *)
EXTENDS ThreadPool

CONSTANT MaxWorkers

MCWorkers == 1..MaxWorkers
=======================================================================
