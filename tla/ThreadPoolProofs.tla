------------------------ MODULE ThreadPoolProofs ------------------------
(* Proofs about ThreadPool: a rotation is exact, for every number of       *)
(* workers, callers and tasks, however calls are cancelled and bootloaders *)
(* fail.                                                                   *)
(*                                                                         *)
(* Exactness is lost once a failing bootloader has closed the pool: its    *)
(* worker leaves a channel no rotation retired.  Until then (Orderly) only *)
(* workers of closed channels leave, and Counted follows the workers that  *)
(* still owe a rotation their token.                                       *)
EXTENDS ThreadPool, TLAPS, FiniteSetTheorems

\* The provers to try on a leaf that names none.
USE Zenon, SMT, SMTT(30)

LiveStates == {"boot", "closing", "close", "drain", "loop", "gate", "run", "done"}
WorkerStates == LiveStates \cup {"none", "token", "compare", "send", "gone"}
ReloadStates == {"idle", "queued", "woken", "checked", "rotate", "start", "token", "reloaded", "returned"}

\* Of the workers W: those that live, those of channel k that have not gone, and
\* those that live and belong to a channel before k.
Live(W) == {w \in Workers : W[w].at \in LiveStates}
Out(W, k) == {w \in Workers : W[w].channel = k /\ W[w].at \notin {"none", "gone"}}
Older(W, k) == {w \in Workers : W[w].channel < k /\ W[w].at \in LiveStates}
Begun(W) == {w \in Workers : W[w].at # "none"}

\* The callers that have done all they will do to the channels.
Past(R) == {r \in Callers : R[r].at \in {"start", "token", "reloaded", "returned"}}

TypeOK ==
    /\ closed \in BOOLEAN /\ boot_error \in BOOLEAN
    /\ task_channel \in Channels /\ ended \in [Channels -> BOOLEAN]
    /\ live_workers \in Nat
    /\ worker \in [Workers -> [at : WorkerStates, channel : Channels, notify : Channels \cup {None}]]
    /\ reload_in_progress \in BOOLEAN
    /\ rotations_started \in Nat /\ rotations_completed \in Nat /\ aborted \in Nat
    /\ rotating \in Channels \cup {None}
    /\ tokens \in [Channels -> Nat]
    /\ reload \in [Callers -> [at : ReloadStates, target : Nat, n : Nat, i : Nat]]

\* One caller at a time rotates, and the counters tell how far it is.
OneRotation ==
    /\ \A r, q \in Callers :
          /\ reload[r].at \in {"checked", "rotate", "start", "token"}
          /\ reload[q].at \in {"checked", "rotate", "start", "token"}
          => r = q
    /\ reload_in_progress <=> \E r \in Callers : reload[r].at \in {"rotate", "start", "token"}
    /\ \A r \in Callers : reload[r].at = "checked" => ~reload_in_progress
    /\ rotating # None <=> \E r \in Callers : reload[r].at \in {"start", "token"}
    /\ rotating # None => task_channel = rotating + 1
    /\ task_channel <= Cardinality(Past(reload))

\* The numbers of rotations.
Numbered ==
    /\ rotations_completed + (IF reload_in_progress THEN 1 ELSE 0) <= rotations_started
    /\ rotations_started = task_channel + (IF \E r \in Callers : reload[r].at = "rotate" THEN 1 ELSE 0)
    /\ \A r \in Callers :
          /\ reload[r].target <= rotations_started + 1
          /\ reload[r].at \in {"rotate", "start", "token"} => reload[r].target <= rotations_started
          /\ reload[r].at = "rotate" => reload[r].i = 0
          /\ reload[r].at \in {"rotate", "start", "token"} => reload[r].i < reload[r].n
          /\ reload[r].at = "reloaded" => reload[r].target <= task_channel

\* The workers are started in order, on the current channel, and counted.
Placed ==
    /\ Begun(worker) = 1..Cardinality(Begun(worker))
    /\ \A w \in Workers : worker[w].channel <= task_channel
    /\ \A k \in Channels : k >= task_channel => tokens[k] = 0
    /\ \A w \in Workers : worker[w].at \in {"compare", "send"} => worker[w].notify \in Channels /\ worker[w].notify < task_channel
    /\ live_workers = Cardinality(Live(worker))
    /\ \A r \in Callers :
          /\ reload[r].at = "start" => Cardinality(Out(worker, task_channel)) <= reload[r].i
          /\ reload[r].at = "token" => Cardinality(Out(worker, task_channel)) <= reload[r].i + 1

Orderly == ~(closed /\ boot_error)

\* Workers leave closed channels only, and a rotation starts in an open pool.
Leaving ==
    /\ ended[task_channel] => closed
    /\ \A k \in Channels : k > task_channel => ~ended[k]
    /\ \A w \in Workers : worker[w].at = "closing" => boot_error
    /\ Orderly =>
          /\ \A w \in Workers :
                /\ worker[w].at \notin {"close", "drain"}
                /\ worker[w].at \in {"done", "token", "compare", "send"} => ended[worker[w].channel]
                /\ worker[w].at = "compare" /\ rotating = worker[w].channel => worker[w].notify = rotating
                /\ worker[w].at = "send" => worker[w].notify = worker[w].channel
          /\ \A r \in Callers : reload[r].at \in {"checked", "rotate"} => ~closed

\* What a rotation of channel k still expects: the tokens of the workers that have
\* not gone and those not yet received; and of nobody else, unless a rotation was
\* cancelled and left workers of its channel behind.
Expects(r, k) ==
    /\ Cardinality(Out(worker, k)) + tokens[k] + Cardinality(Older(worker, k)) <= reload[r].n - reload[r].i
    /\ aborted = 0 => Cardinality(Out(worker, k)) + tokens[k] = reload[r].n - reload[r].i

Counted ==
    Orderly =>
        /\ \A r \in Callers :
              /\ reload[r].at = "rotate" => Expects(r, task_channel)
              /\ reload[r].at \in {"start", "token"} => Expects(r, rotating)
        /\ aborted = 0 => \A w \in Workers :
              worker[w].at \notin {"none", "gone"} => worker[w].channel \in {task_channel, rotating}
        /\ \A w \in Live(worker) :
              /\ worker[w].channel >= rotations_completed
              /\ \A r \in Callers : reload[r].at = "reloaded" => worker[w].channel >= reload[r].target

\* Without cancelled rotations the pool keeps its size, plus one.
Sized ==
    aborted = 0 =>
        /\ live_workers <= worker_count + 1
        /\ ~closed =>
              /\ ~reload_in_progress => live_workers <= worker_count
              /\ \A r \in Callers : reload[r].at \in {"rotate", "start", "token"} => reload[r].n <= worker_count

RotationInv == TypeOK /\ OneRotation /\ Numbered /\ Placed /\ Leaving /\ Counted /\ Sized

-----------------------------------------------------------------------
(* Sets of workers.                                                       *)

\* Workers and callers are numbered.
LEMMA Numbers ==
    /\ IsFiniteSet(Workers) /\ Cardinality(Workers) \in Nat /\ Workers = 1..Cardinality(Workers)
    /\ IsFiniteSet(Callers) /\ Cardinality(Callers) \in Nat /\ Callers = 1..Cardinality(Callers)
    /\ worker_count \in Nat
<1>1. /\ IsFiniteSet(Workers) /\ Workers = 1..Cardinality(Workers) /\ worker_count \in Workers
      /\ IsFiniteSet(Callers) /\ Callers = 1..Cardinality(Callers)
  BY ThreadPoolAssumption
<1>2. Cardinality(Workers) \in Nat /\ Cardinality(Callers) \in Nat
  BY <1>1, FS_CardinalityType
<1>3. worker_count \in Nat
  BY <1>1, <1>2, SMT, SMTT(30)
<1> QED BY <1>1, <1>2, <1>3

\* The sets of workers are finite.
LEMMA Sizes ==
    \A W, k : /\ IsFiniteSet(Live(W)) /\ Cardinality(Live(W)) \in Nat
              /\ IsFiniteSet(Out(W, k)) /\ Cardinality(Out(W, k)) \in Nat
              /\ IsFiniteSet(Older(W, k)) /\ Cardinality(Older(W, k)) \in Nat
              /\ IsFiniteSet(Begun(W)) /\ Cardinality(Begun(W)) \in Nat
<1>1. IsFiniteSet(Workers)
  BY Numbers
<1>2. \A S : S \subseteq Workers => IsFiniteSet(S) /\ Cardinality(S) \in Nat
  BY <1>1, FS_Subset, FS_CardinalityType
<1> QED BY <1>2 DEF Live, Out, Older, Begun

\* The workers W and V are on the same channels and equally far on their way out.
Alike(W, V) ==
    \A v \in Workers :
        /\ V[v].channel = W[v].channel
        /\ V[v].at \in LiveStates <=> W[v].at \in LiveStates
        /\ V[v].at \in {"none", "gone"} <=> W[v].at \in {"none", "gone"}
        /\ V[v].at = "none" <=> W[v].at = "none"

\* The sets of workers depend on no more than that.
LEMMA AlikeSets ==
    ASSUME NEW W, NEW V, Alike(W, V)
    PROVE  /\ Live(V) = Live(W) /\ Begun(V) = Begun(W)
           /\ \A k : Out(V, k) = Out(W, k) /\ Older(V, k) = Older(W, k)
<1>1. Live(V) = Live(W) /\ Begun(V) = Begun(W)
  BY DEF Alike, Live, Begun
<1>2. ASSUME NEW k PROVE Out(V, k) = Out(W, k) /\ Older(V, k) = Older(W, k)
  BY DEF Alike, Out, Older
<1> QED BY <1>1, <1>2

-----------------------------------------------------------------------
(* Steps of the workers.                                                  *)

\* A step that leaves the channels' state, the workers and the rotations alone.
LEMMA Untouched ==
    ASSUME RotationInv, UNCHANGED <<pool, task_channel, ended, live_workers, worker, rotation>>
    PROVE  RotationInv'
<1> USE DEF pool, rotation
<1>1. TypeOK'
  BY DEF RotationInv, TypeOK
<1>2. OneRotation' /\ Numbered'
  BY DEF RotationInv, OneRotation, Numbered
<1>3. Placed' /\ Leaving'
  BY DEF RotationInv, Placed, Leaving, Orderly
<1>4. Counted' /\ Sized'
  BY DEF RotationInv, Counted, Sized, Expects, Orderly
<1> QED BY <1>1, <1>2, <1>3, <1>4 DEF RotationInv

\* A worker goes on, from one live state to another.
LEMMA LiveMove ==
    ASSUME RotationInv, NEW w \in Workers, NEW l \in LiveStates, worker[w].at \in LiveStates,
           worker' = [worker EXCEPT ![w].at = l],
           UNCHANGED <<task_channel, live_workers, rotation>>,
           closed' \in BOOLEAN, boot_error' \in BOOLEAN, ended' \in [Channels -> BOOLEAN],
           closed => closed', boot_error => boot_error'
    PROVE  /\ TypeOK' /\ OneRotation' /\ Numbered' /\ Placed' /\ Counted' /\ Sized'
           /\ \A v \in Workers : v # w => worker'[v] = worker[v]
           /\ worker'[w] = [worker[w] EXCEPT !.at = l]
<1> USE DEF rotation
<1>1. TypeOK'
  BY SMT, SMTT(30) DEF RotationInv, TypeOK, WorkerStates
<1>2. OneRotation' /\ Numbered'
  BY DEF RotationInv, OneRotation, Numbered
<1>3. /\ \A v \in Workers : v # w => worker'[v] = worker[v]
      /\ worker'[w] = [worker[w] EXCEPT !.at = l]
  BY DEF RotationInv, TypeOK
<1>4. Alike(worker, worker')
  BY <1>3, SMT, SMTT(30) DEF RotationInv, TypeOK, Alike, LiveStates
<1>5. /\ Live(worker') = Live(worker) /\ Begun(worker') = Begun(worker)
      /\ \A k : Out(worker', k) = Out(worker, k) /\ Older(worker', k) = Older(worker, k)
  BY <1>4, AlikeSets
<1>6. \A v \in Workers : /\ worker'[v].channel = worker[v].channel
                         /\ worker'[v].at \in {"none", "gone"} <=> worker[v].at \in {"none", "gone"}
                         /\ worker'[v].at \in {"compare", "send"} => worker'[v] = worker[v]
  BY <1>3, SMT, SMTT(30) DEF RotationInv, TypeOK, LiveStates
<1>7. Placed'
  BY <1>5, <1>6 DEF RotationInv, Placed
<1>8. Counted'
  <2>1. Orderly' => Orderly
    BY DEF Orderly
  <2>2. \A r, k : Expects(r, k)' <=> Expects(r, k)
    BY <1>5 DEF Expects
  <2>3. \A v \in Live(worker') : v \in Live(worker) /\ worker'[v].channel = worker[v].channel
    BY <1>5, <1>6 DEF Live
  <2> QED BY <2>1, <2>2, <2>3, <1>6 DEF RotationInv, Counted
<1>9. Sized'
  BY DEF RotationInv, Sized
<1> QED BY <1>1, <1>2, <1>3, <1>7, <1>8, <1>9

\* The steps of a worker that lives on.
LEMMA LiveSteps ==
    ASSUME RotationInv, NEW w \in Workers,
           \/ boots(w) \/ sets_closed(w) \/ closes(w) \/ drains(w)
           \/ takes(w) \/ (\E t \in Tasks : ends(w, t))
           \/ waits(w) \/ passes_gate(w) \/ leaves_loop(w)
    PROVE  RotationInv'
<1>0. TypeOK /\ Leaving
  BY DEF RotationInv
<1>1. SUFFICES ASSUME NEW l \in LiveStates, worker[w].at \in LiveStates,
                      worker' = [worker EXCEPT ![w].at = l], UNCHANGED <<task_channel, live_workers, rotation>>,
                      closed' \in BOOLEAN, boot_error' \in BOOLEAN, ended' \in [Channels -> BOOLEAN],
                      closed => closed', boot_error => boot_error',
                      ended'[task_channel] => closed',
                      \A k \in Channels : (ended[k] => ended'[k]) /\ (k # task_channel => ended'[k] = ended[k]),
                      l = "closing" => boot_error',
                      l \in {"close", "drain"} => closed' /\ boot_error',
                      l = "done" /\ Orderly' => ended'[worker[w].channel],
                      closed' # closed => boot_error'
               PROVE  RotationInv'
  <2> USE DEF Move, LiveStates, pool, channels
  <2>1. CASE boots(w)
    BY <1>0, <1>1, <2>1 DEF boots, TypeOK, Leaving, Orderly
  <2>2. CASE sets_closed(w)
    BY <1>0, <1>1, <2>2 DEF sets_closed, TypeOK, Leaving, Orderly
  <2>3. CASE closes(w)
    <3>1. closed /\ boot_error
      BY <1>0, <2>3 DEF closes, TypeOK, Leaving, Orderly
    <3> QED BY <1>0, <1>1, <2>3, <3>1 DEF closes, TypeOK, Leaving
  <2>4. CASE drains(w)
    <3>1. closed /\ boot_error
      BY <1>0, <2>4 DEF drains, TypeOK, Leaving, Orderly
    <3> QED BY <1>0, <1>1, <2>4, <3>1 DEF drains, TypeOK, Leaving, Orderly
  <2>5. CASE takes(w)
    BY <1>0, <1>1, <2>5 DEF takes, TypeOK, Leaving
  <2>6. CASE leaves_loop(w)
    BY <1>0, <1>1, <2>6 DEF leaves_loop, TypeOK, Leaving
  <2>7. ASSUME NEW t \in Tasks, ends(w, t) PROVE RotationInv'
    <3>1. CASE worker[w].at = "run"
      BY <1>0, <1>1, <2>7, <3>1 DEF ends, TypeOK, Leaving
    <3>2. CASE worker[w].at # "run"
      <4>1. worker' = worker
        BY <1>0, <2>7, <3>2 DEF ends, TypeOK
      <4> QED BY <2>7, <4>1, Untouched DEF ends
    <3> QED BY <3>1, <3>2
  <2>8. CASE waits(w)
    BY <1>0, <1>1, <2>8 DEF waits, TypeOK, Leaving
  <2>9. CASE passes_gate(w)
    BY <1>0, <1>1, <2>9 DEF passes_gate, TypeOK, Leaving
  <2> QED BY <2>1, <2>2, <2>3, <2>4, <2>5, <2>6, <2>7, <2>8, <2>9
<1>2. /\ TypeOK' /\ OneRotation' /\ Numbered' /\ Placed' /\ Counted' /\ Sized'
      /\ \A v \in Workers : v # w => worker'[v] = worker[v]
      /\ worker'[w] = [worker[w] EXCEPT !.at = l]
  BY <1>1, LiveMove
<1>3. Leaving'
  <2>1. Orderly' => Orderly
    BY <1>1 DEF Orderly
  <2>2. (ended[task_channel]' => closed') /\ \A k \in Channels : k > task_channel' => ~ended'[k]
    <3>1. task_channel \in Nat /\ Channels \subseteq Nat
      BY <1>0, Numbers, SMT, SMTT(30) DEF Channels, TypeOK
    <3> QED BY <1>0, <1>1, <3>1, SMT, SMTT(30) DEF Leaving
  <2>3. ASSUME NEW v \in Workers PROVE (worker[v].at = "closing" => boot_error)'
    BY <1>0, <1>1, <1>2, SMT, SMTT(30) DEF Leaving, TypeOK
  <2>4. ASSUME NEW v \in Workers, Orderly'
        PROVE  /\ worker'[v].at \notin {"close", "drain"}
               /\ worker'[v].at \in {"done", "token", "compare", "send"} => ended'[worker'[v].channel]
               /\ worker'[v].at = "compare" /\ rotating' = worker'[v].channel => worker'[v].notify = rotating'
               /\ worker'[v].at = "send" => worker'[v].notify = worker'[v].channel
    <3>1. CASE v = w
      BY <1>0, <1>1, <1>2, <2>4, <3>1, SMT, SMTT(30) DEF TypeOK, Orderly, LiveStates
    <3>2. CASE v # w
      BY <1>0, <1>1, <1>2, <2>1, <2>4, <3>2 DEF Leaving, TypeOK, rotation
    <3> QED BY <3>1, <3>2
  <2>5. ASSUME NEW r \in Callers, Orderly', reload'[r].at \in {"checked", "rotate"} PROVE ~closed'
    BY <1>0, <1>1, <2>1, <2>5 DEF Leaving, Orderly, rotation
  <2> QED BY <2>2, <2>3, <2>4, <2>5 DEF Leaving
<1> QED BY <1>2, <1>3 DEF RotationInv

\* A worker is no longer counted: it still owes its token.
LEMMA LeavesStep ==
    ASSUME RotationInv, NEW w \in Workers, leaves(w)
    PROVE  RotationInv'
<1> USE DEF pool, channels, rotation, Move
<1>0. TypeOK /\ OneRotation /\ Numbered /\ Placed /\ Leaving /\ Counted /\ Sized
  BY DEF RotationInv
<1>1. /\ worker[w].at = "done" /\ worker' = [worker EXCEPT ![w].at = "token"] /\ live_workers' = live_workers - 1
      /\ UNCHANGED <<pool, task_channel, ended, rotation>>
  BY DEF leaves
<1>2. /\ \A v \in Workers : v # w => worker'[v] = worker[v]
      /\ worker'[w] = [worker[w] EXCEPT !.at = "token"]
      /\ \A v \in Workers : worker'[v].channel = worker[v].channel
  BY <1>0, <1>1 DEF TypeOK
<1>3. /\ Live(worker') = Live(worker) \ {w} /\ w \in Live(worker)
      /\ Begun(worker') = Begun(worker)
  BY <1>0, <1>1, <1>2, SMT, SMTT(30) DEF Live, Begun, LiveStates, TypeOK
<1>4. \A k : Out(worker', k) = Out(worker, k)
  BY <1>0, <1>1, <1>2, SMT, SMTT(30) DEF Out, TypeOK
<1>5. \A k : Older(worker', k) \subseteq Older(worker, k)
  BY <1>0, <1>1, <1>2 DEF Older, LiveStates, TypeOK
<1>6. Cardinality(Live(worker')) = Cardinality(Live(worker)) - 1
  BY <1>3, Sizes, FS_RemoveElement
<1>7. \A k : Cardinality(Older(worker', k)) <= Cardinality(Older(worker, k))
  BY <1>5, Sizes, FS_Subset
<1>8. live_workers' \in Nat /\ live_workers' <= live_workers
  <2>1. Cardinality(Live(worker)) \in Nat /\ Cardinality(Live(worker')) \in Nat
    BY Sizes
  <2>2. live_workers = Cardinality(Live(worker))
    BY <1>0 DEF Placed
  <2> QED BY <1>1, <1>6, <2>1, <2>2, SMT, SMTT(30)
<1>9. TypeOK'
  BY <1>0, <1>1, <1>8, SMT, SMTT(30) DEF TypeOK, WorkerStates
<1>10. OneRotation' /\ Numbered'
  BY <1>0, <1>1 DEF OneRotation, Numbered
<1>11. Placed'
  <2>1. live_workers' = Cardinality(Live(worker'))
    BY <1>0, <1>1, <1>6 DEF Placed
  <2>2. \A v \in Workers : worker'[v].at \in {"compare", "send"} => worker'[v] = worker[v]
    BY <1>0, <1>2 DEF TypeOK
  <2> QED BY <1>0, <1>1, <1>2, <1>3, <1>4, <2>1, <2>2, Zenon DEF Placed
<1>12. Leaving'
  <2>1. \A v \in Workers : worker'[v].at \notin {"compare", "send"} \/ worker'[v] = worker[v]
    BY <1>0, <1>2 DEF TypeOK
  <2> QED BY <1>0, <1>1, <1>2, <2>1, SMT, SMTT(30) DEF Leaving, Orderly, TypeOK
<1>13. Counted'
  <2>1. ASSUME NEW r \in Callers, NEW k \in Channels, Expects(r, k) PROVE Expects(r, k)'
    <3>1. /\ Cardinality(Out(worker, k)) \in Nat /\ Cardinality(Older(worker, k)) \in Nat
          /\ Cardinality(Older(worker', k)) \in Nat /\ Cardinality(Older(worker', k)) <= Cardinality(Older(worker, k))
          /\ Out(worker', k) = Out(worker, k)
      BY <1>4, <1>7, Sizes
    <3>2. tokens' = tokens /\ tokens[k] \in Nat /\ reload' = reload /\ aborted' = aborted
      BY <1>0, <1>1 DEF TypeOK
    <3>3. reload[r].n \in Nat /\ reload[r].i \in Nat
      BY <1>0 DEF TypeOK
    <3> QED BY <2>1, <3>1, <3>2, <3>3, SMT, SMTT(30) DEF Expects
  <2>2. \A r \in Callers : reload[r].at \in {"start", "token"} => rotating \in Channels
    BY <1>0 DEF OneRotation, TypeOK
  <2>3. ASSUME Orderly', NEW r \in Callers
        PROVE  /\ reload'[r].at = "rotate" => Expects(r, task_channel)'
               /\ reload'[r].at \in {"start", "token"} => Expects(r, rotating)'
    BY <1>0, <1>1, <2>1, <2>2, <2>3 DEF Counted, Orderly, TypeOK
  <2>4. ASSUME Orderly', aborted' = 0, NEW v \in Workers, worker'[v].at \notin {"none", "gone"}
        PROVE  worker'[v].channel \in {task_channel', rotating'}
    BY <1>0, <1>1, <1>2, <2>4 DEF Counted, Orderly
  <2>5. ASSUME Orderly', NEW v \in Live(worker')
        PROVE  /\ worker'[v].channel >= rotations_completed'
               /\ \A r \in Callers : reload'[r].at = "reloaded" => worker'[v].channel >= reload'[r].target
    BY <1>0, <1>1, <1>2, <1>3, <2>5 DEF Counted, Orderly, Live
  <2> QED BY <2>3, <2>4, <2>5 DEF Counted
<1>14. Sized'
  <2>1. worker_count \in Nat
    BY Numbers
  <2>2. live_workers \in Nat
    BY <1>0 DEF TypeOK
  <2> QED BY <1>0, <1>1, <1>8, <2>1, <2>2, SMT, SMTT(30) DEF Sized
<1> QED BY <1>9, <1>10, <1>11, <1>12, <1>13, <1>14 DEF RotationInv

\* What the last steps of a worker have in common: it is counted no more, and it
\* has read the channel, has compared, or has gone.
Exits(w, new) ==
    /\ worker[w].at \in {"token", "compare", "send"}
    /\ worker' = [worker EXCEPT ![w] = new]
    /\ \/ new = Gone
       \/ rotating # None /\ new = [worker[w] EXCEPT !.at = "compare", !.notify = rotating]
       \/ worker[w].at = "compare" /\ rotating = worker[w].channel /\ new = [worker[w] EXCEPT !.at = "send"]
    /\ UNCHANGED <<pool, channels, live_workers>>
    /\ UNCHANGED <<reload_in_progress, rotations_started, rotations_completed, rotating, reload, aborted>>

\* The state of the other workers and the sets of workers after such a step.
LEMMA ExitSets ==
    ASSUME RotationInv, NEW w \in Workers, NEW new, Exits(w, new)
    PROVE  /\ worker' \in [Workers -> [at : WorkerStates, channel : Channels, notify : Channels \cup {None}]]
           /\ new.at \in {"compare", "send", "gone"} /\ (new.at = "gone" => new.channel = 0)
           /\ new.at = "compare" => new.channel = worker[w].channel /\ new.notify = rotating /\ rotating # None
           /\ new.at = "send" => /\ worker[w].at = "compare" /\ rotating = worker[w].channel
                                 /\ new.channel = worker[w].channel /\ new.notify = worker[w].notify
           /\ worker'[w] = new /\ \A v \in Workers : v # w => worker'[v] = worker[v]
           /\ Live(worker') = Live(worker) /\ Begun(worker') = Begun(worker)
           /\ \A k : Older(worker', k) = Older(worker, k)
           /\ \A k : k # worker[w].channel => Out(worker', k) = Out(worker, k)
           /\ new # Gone => \A k : Out(worker', k) = Out(worker, k)
           /\ new = Gone => Out(worker', worker[w].channel) = Out(worker, worker[w].channel) \ {w}
           /\ w \in Out(worker, worker[w].channel)
           /\ \A v \in Workers : worker'[v].at \notin {"none", "gone"} =>
                 worker[v].at \notin {"none", "gone"} /\ worker'[v].channel = worker[v].channel
           /\ \A v \in Live(worker') : worker'[v] = worker[v]
<1>0. TypeOK /\ 0 \in Channels /\ None \in Channels \cup {None}
  BY Numbers, SMT, SMTT(30) DEF RotationInv, Channels
<1>a. worker[w] \in [at : WorkerStates, channel : Channels, notify : Channels \cup {None}] /\ rotating \in Channels \cup {None}
  BY <1>0 DEF TypeOK
<1>b. /\ Gone \in [at : WorkerStates, channel : Channels, notify : Channels \cup {None}]
      /\ Gone.at = "gone" /\ Gone.channel = 0
  BY <1>0 DEF Gone, WorkerStates
<1>c. /\ [worker[w] EXCEPT !.at = "compare", !.notify = rotating]
             \in [at : WorkerStates, channel : Channels, notify : Channels \cup {None}]
      /\ [worker[w] EXCEPT !.at = "compare", !.notify = rotating].at = "compare"
      /\ [worker[w] EXCEPT !.at = "compare", !.notify = rotating].channel = worker[w].channel
      /\ [worker[w] EXCEPT !.at = "compare", !.notify = rotating].notify = rotating
  BY <1>a DEF WorkerStates
<1>d. /\ [worker[w] EXCEPT !.at = "send"] \in [at : WorkerStates, channel : Channels, notify : Channels \cup {None}]
      /\ [worker[w] EXCEPT !.at = "send"].at = "send"
      /\ [worker[w] EXCEPT !.at = "send"].channel = worker[w].channel
      /\ [worker[w] EXCEPT !.at = "send"].notify = worker[w].notify
  BY <1>a DEF WorkerStates
<1>1. new \in [at : WorkerStates, channel : Channels, notify : Channels \cup {None}]
  BY <1>b, <1>c, <1>d DEF Exits
<1>2. worker' \in [Workers -> [at : WorkerStates, channel : Channels, notify : Channels \cup {None}]]
  BY <1>0, <1>1 DEF Exits, TypeOK
<1>3. worker'[w] = new /\ \A v \in Workers : v # w => worker'[v] = worker[v]
  BY <1>0 DEF Exits, TypeOK
<1>4. /\ new.at \in {"compare", "send", "gone"} /\ (new.at = "gone" <=> new = Gone)
      /\ new.at = "compare" => new.channel = worker[w].channel /\ new.notify = rotating /\ rotating # None
      /\ new.at = "send" => /\ worker[w].at = "compare" /\ rotating = worker[w].channel
                            /\ new.channel = worker[w].channel /\ new.notify = worker[w].notify
      /\ new.at = "gone" => new.channel = 0
      /\ worker[w].at \in {"token", "compare", "send"}
  BY <1>b, <1>c, <1>d DEF Exits
<1>5. Live(worker') = Live(worker) /\ Begun(worker') = Begun(worker)
  BY <1>3, <1>4 DEF Live, Begun, LiveStates
<1>6. \A k : Older(worker', k) = Older(worker, k)
  BY <1>3, <1>4 DEF Older, LiveStates
<1>7. \A k : k # worker[w].channel => Out(worker', k) = Out(worker, k)
  BY <1>3, <1>4 DEF Out
<1>8. new # Gone => \A k : Out(worker', k) = Out(worker, k)
  BY <1>3, <1>4, SMT, SMTT(30) DEF Out
<1>9. /\ new = Gone => Out(worker', worker[w].channel) = Out(worker, worker[w].channel) \ {w}
      /\ w \in Out(worker, worker[w].channel)
  BY <1>3, <1>4 DEF Out
<1>10. \A v \in Workers : worker'[v].at \notin {"none", "gone"} =>
                 worker[v].at \notin {"none", "gone"} /\ worker'[v].channel = worker[v].channel
  BY <1>3, <1>4
<1>11. \A v \in Live(worker') : worker'[v] = worker[v]
  BY <1>3, <1>4 DEF Live, LiveStates
<1> QED BY <1>2, <1>3, <1>4, <1>5, <1>6, <1>7, <1>8, <1>9, <1>10, <1>11

\* Such a step keeps what does not depend on the tokens.
LEMMA ExitKeeps ==
    ASSUME RotationInv, NEW w \in Workers, NEW new, Exits(w, new),
           tokens' \in [Channels -> Nat], \A k \in Channels : k >= task_channel => tokens'[k] = 0
    PROVE  TypeOK' /\ OneRotation' /\ Numbered' /\ Placed' /\ Leaving' /\ Sized'
<1> USE DEF pool, channels
<1>0. TypeOK /\ OneRotation /\ Numbered /\ Placed /\ Leaving /\ Sized
  BY DEF RotationInv
<1>1. /\ UNCHANGED <<closed, boot_error, task_channel, queue, ended, live_workers>>
      /\ UNCHANGED <<reload_in_progress, rotations_started, rotations_completed, rotating, reload, aborted>>
      /\ worker[w].at \in {"token", "compare", "send"}
  BY DEF Exits
<1>2. /\ worker' \in [Workers -> [at : WorkerStates, channel : Channels, notify : Channels \cup {None}]]
      /\ new.at \in {"compare", "send", "gone"} /\ (new.at = "gone" => new.channel = 0)
      /\ new.at = "compare" => new.channel = worker[w].channel /\ new.notify = rotating /\ rotating # None
      /\ new.at = "send" => /\ worker[w].at = "compare" /\ rotating = worker[w].channel
                            /\ new.channel = worker[w].channel /\ new.notify = worker[w].notify
      /\ worker'[w] = new /\ \A v \in Workers : v # w => worker'[v] = worker[v]
      /\ Live(worker') = Live(worker) /\ Begun(worker') = Begun(worker)
  BY ExitSets, SMT, SMTT(30)
<1>3. TypeOK'
  BY <1>0, <1>1, <1>2 DEF TypeOK
<1>4. OneRotation' /\ Numbered' /\ Sized'
  BY <1>0, <1>1 DEF OneRotation, Numbered, Sized
<1>5. \A v \in Workers :
        /\ worker'[v].at \notin {"none", "gone"} => worker'[v].channel = worker[v].channel
        /\ worker'[v].channel = 0 \/ worker'[v].channel = worker[v].channel
        /\ worker'[v].at \in {"compare", "send"} =>
              \/ v # w /\ worker'[v] = worker[v]
              \/ v = w /\ worker'[v].notify = rotating /\ rotating # None
              \/ v = w /\ worker[v].at = "compare" /\ worker'[v].notify = worker[v].notify
  BY <1>2
<1>6. \A k : Out(worker', k) \subseteq Out(worker, k)
  BY <1>1, <1>2, <1>5 DEF Out
<1>7. Placed'
  <2>1. \A k : Cardinality(Out(worker', k)) \in Nat /\ Cardinality(Out(worker', k)) <= Cardinality(Out(worker, k))
    BY <1>6, Sizes, FS_Subset
  <2>2. ASSUME NEW r \in Callers
        PROVE  /\ reload'[r].at = "start" => Cardinality(Out(worker', task_channel')) <= reload'[r].i
               /\ reload'[r].at = "token" => Cardinality(Out(worker', task_channel')) <= reload'[r].i + 1
    <3>1. Cardinality(Out(worker, task_channel)) \in Nat /\ reload[r].i \in Nat
      BY <1>0, Sizes DEF TypeOK
    <3> QED BY <1>0, <1>1, <2>1, <3>1, SMT, SMTT(30) DEF Placed
  <2>3. \A v \in Workers : worker'[v].channel <= task_channel'
    <3>1. task_channel \in Nat
      BY <1>0, Numbers, SMT, SMTT(30) DEF TypeOK, Channels
    <3> QED BY <1>0, <1>1, <1>5, <3>1, SMT, SMTT(30) DEF Placed
  <2>4. \A v \in Workers : worker'[v].at \in {"compare", "send"} => worker'[v].notify \in Channels /\ worker'[v].notify < task_channel'
    <3>1. rotating # None => rotating \in Channels /\ rotating < task_channel
      BY <1>0, Numbers, SMT, SMTT(30) DEF TypeOK, OneRotation, Channels
    <3> QED BY <1>0, <1>1, <1>5, <3>1 DEF Placed
  <2> QED BY <1>0, <1>1, <1>2, <2>2, <2>3, <2>4 DEF Placed
<1>8. Leaving'
  <2>1. ASSUME Orderly', NEW v \in Workers
        PROVE  /\ worker'[v].at \notin {"close", "drain"}
               /\ worker'[v].at \in {"done", "token", "compare", "send"} => ended'[worker'[v].channel]
               /\ worker'[v].at = "compare" /\ rotating' = worker'[v].channel => worker'[v].notify = rotating'
               /\ worker'[v].at = "send" => worker'[v].notify = worker'[v].channel
    <3>1. Orderly
      BY <1>1, <2>1 DEF Orderly
    <3>2. CASE v = w
      <4>1. ended[worker[w].channel]
        BY <1>0, <1>1, <3>1 DEF Leaving
      <4>2. CASE new.at = "compare"
        BY <1>1, <1>2, <3>2, <4>1, <4>2
      <4>3. CASE new.at = "send"
        <5>1. worker[w].notify = worker[w].channel
          BY <1>0, <1>2, <3>1, <4>3 DEF Leaving
        <5> QED BY <1>1, <1>2, <3>2, <4>1, <4>3, <5>1
      <4>4. CASE new.at = "gone"
        BY <1>2, <3>2, <4>4
      <4> QED BY <1>2, <4>2, <4>3, <4>4
    <3>3. CASE v # w
      <4>1. worker'[v] = worker[v]
        BY <1>2, <3>3
      <4> QED BY <1>0, <1>1, <3>1, <4>1 DEF Leaving
    <3> QED BY <3>2, <3>3
  <2>2. ASSUME NEW v \in Workers, worker'[v].at = "closing" PROVE boot_error'
    <3>1. v # w
      BY <1>2, <2>2
    <3> QED BY <1>0, <1>1, <1>2, <2>2, <3>1 DEF Leaving
  <2> QED BY <1>0, <1>1, <2>1, <2>2 DEF Leaving, Orderly
<1> QED BY <1>3, <1>4, <1>7, <1>8

\* Such a step keeps what a rotation expects when a worker goes only against a token.
LEMMA ExitCounted ==
    ASSUME RotationInv, NEW w \in Workers, NEW new, Exits(w, new),
           tokens' \in [Channels -> Nat], \A k \in Channels : k >= task_channel => tokens'[k] = 0,
           \A r \in Callers, k \in Channels :
               Orderly /\ ((reload[r].at = "rotate" /\ k = task_channel) \/ (reload[r].at \in {"start", "token"} /\ k = rotating))
               => Cardinality(Out(worker', k)) + tokens'[k] = Cardinality(Out(worker, k)) + tokens[k]
    PROVE  RotationInv'
<1>1. /\ UNCHANGED <<closed, boot_error, task_channel, live_workers>>
      /\ UNCHANGED <<rotations_completed, rotating, reload, aborted>>
  BY DEF Exits, pool, channels
<1>2. /\ \A v \in Workers : worker'[v].at \notin {"none", "gone"} =>
                 worker[v].at \notin {"none", "gone"} /\ worker'[v].channel = worker[v].channel
      /\ Live(worker') = Live(worker) /\ \A v \in Live(worker') : worker'[v] = worker[v]
      /\ \A k : Older(worker', k) = Older(worker, k)
  BY ExitSets
<1>3. ASSUME NEW r \in Callers, NEW k \in Channels, Expects(r, k),
             Cardinality(Out(worker', k)) + tokens'[k] = Cardinality(Out(worker, k)) + tokens[k]
      PROVE  Expects(r, k)'
  BY <1>1, <1>2, <1>3 DEF Expects
<1>4. ASSUME Orderly', NEW r \in Callers
      PROVE  /\ reload'[r].at = "rotate" => Expects(r, task_channel)'
             /\ reload'[r].at \in {"start", "token"} => Expects(r, rotating)'
  <2>1. task_channel \in Channels /\ (reload[r].at \in {"start", "token"} => rotating \in Channels)
    BY DEF RotationInv, OneRotation, TypeOK
  <2>2. Orderly
    BY <1>1, <1>4 DEF Orderly
  <2>3. /\ reload[r].at = "rotate" => Expects(r, task_channel)
        /\ reload[r].at \in {"start", "token"} => Expects(r, rotating)
    BY <2>2 DEF RotationInv, Counted
  <2>4. reload[r].at = "rotate" => Expects(r, task_channel)'
    BY <1>1, <1>3, <2>1, <2>2, <2>3
  <2>5. reload[r].at \in {"start", "token"} => Expects(r, rotating)'
    BY <1>1, <1>3, <2>1, <2>2, <2>3
  <2> QED BY <1>1, <2>4, <2>5
<1>5. ASSUME Orderly', aborted' = 0, NEW v \in Workers, worker'[v].at \notin {"none", "gone"}
      PROVE  worker'[v].channel \in {task_channel', rotating'}
  BY <1>1, <1>2, <1>5 DEF RotationInv, Counted, Orderly
<1>6. ASSUME Orderly', NEW v \in Live(worker')
      PROVE  /\ worker'[v].channel >= rotations_completed'
             /\ \A r \in Callers : reload'[r].at = "reloaded" => worker'[v].channel >= reload'[r].target
  BY <1>1, <1>2, <1>6 DEF RotationInv, Counted, Orderly
<1>7. Counted'
  BY <1>4, <1>5, <1>6 DEF Counted
<1>8. TypeOK' /\ OneRotation' /\ Numbered' /\ Placed' /\ Leaving' /\ Sized'
  BY ExitKeeps
<1> QED BY <1>7, <1>8 DEF RotationInv

\* While a caller is about to rotate, no worker of the current channel leaves, and
\* nobody rotates yet.
LEMMA NobodyLeavesYet ==
    ASSUME RotationInv, Orderly, NEW w \in Workers, worker[w].at \in {"token", "compare", "send"},
           NEW r \in Callers, reload[r].at = "rotate"
    PROVE  worker[w].channel # task_channel /\ rotating = None
<1>1. ended[worker[w].channel] /\ ~closed /\ (ended[task_channel] => closed)
  BY DEF RotationInv, Leaving
<1>2. rotating = None
  <2>1. ASSUME NEW q \in Callers, reload[q].at \in {"start", "token"} PROVE FALSE
    <3>1. q = r
      BY <2>1 DEF RotationInv, OneRotation
    <3> QED BY <2>1, <3>1
  <2> QED BY <2>1 DEF RotationInv, OneRotation
<1> QED BY <1>1, <1>2

\* A worker looks for the rotation it answers, and goes when there is none.
LEMMA ReadsNotify ==
    ASSUME RotationInv, NEW w \in Workers, reads_notify(w)
    PROVE  RotationInv'
<1> DEFINE new == IF rotating = None THEN Gone ELSE [worker[w] EXCEPT !.at = "compare", !.notify = rotating]
<1>0. TypeOK /\ OneRotation /\ Placed
  BY DEF RotationInv
<1>1. worker[w].at = "token" /\ worker' = [worker EXCEPT ![w] = new] /\ tokens' = tokens
  BY <1>0 DEF reads_notify, rotation, TypeOK
<1>2. Exits(w, new)
  BY <1>1 DEF reads_notify, Exits, rotation
<1> HIDE DEF new
<1>3. ASSUME NEW r \in Callers, NEW k \in Channels, Orderly,
             (reload[r].at = "rotate" /\ k = task_channel) \/ (reload[r].at \in {"start", "token"} /\ k = rotating)
      PROVE  Out(worker', k) = Out(worker, k)
  <2>1. CASE reload[r].at = "rotate"
    <3>1. worker[w].channel # k
      BY <1>1, <1>3, <2>1, NobodyLeavesYet
    <3> QED BY <1>2, <3>1, ExitSets
  <2>2. CASE reload[r].at \in {"start", "token"}
    <3>1. rotating # None
      BY <1>0, <2>2 DEF OneRotation
    <3>2. new.at = "compare"
      BY <1>0, <3>1 DEF TypeOK, new
    <3>3. new # Gone
      BY <3>2, SMT, SMTT(30) DEF Gone
    <3> QED BY <1>2, <3>3, ExitSets, SMT, SMTT(30)
  <2> QED BY <1>3, <2>1, <2>2
<1>4. \A r \in Callers, k \in Channels :
          Orderly /\ ((reload[r].at = "rotate" /\ k = task_channel) \/ (reload[r].at \in {"start", "token"} /\ k = rotating))
          => Cardinality(Out(worker', k)) + tokens'[k] = Cardinality(Out(worker, k)) + tokens[k]
  BY <1>1, <1>3
<1>5. tokens' \in [Channels -> Nat] /\ \A k \in Channels : k >= task_channel => tokens'[k] = 0
  BY <1>0, <1>1 DEF TypeOK, Placed
<1> QED BY <1>2, <1>4, <1>5, ExitCounted

\* A worker compares its channel with the rotation's, and goes when it is another's.
LEMMA ComparesOld ==
    ASSUME RotationInv, NEW w \in Workers, compares_old(w)
    PROVE  RotationInv'
<1> DEFINE new == IF rotating = worker[w].channel THEN [worker[w] EXCEPT !.at = "send"] ELSE Gone
<1>0. TypeOK /\ OneRotation /\ Placed
  BY DEF RotationInv
<1>1. worker[w].at = "compare" /\ worker' = [worker EXCEPT ![w] = new] /\ tokens' = tokens
  BY <1>0 DEF compares_old, rotation, TypeOK
<1>2. Exits(w, new)
  BY <1>1 DEF compares_old, Exits, rotation
<1> HIDE DEF new
<1>3. ASSUME NEW r \in Callers, NEW k \in Channels, Orderly,
             (reload[r].at = "rotate" /\ k = task_channel) \/ (reload[r].at \in {"start", "token"} /\ k = rotating)
      PROVE  Out(worker', k) = Out(worker, k)
  <2>1. CASE worker[w].channel # k
    BY <1>2, <2>1, ExitSets
  <2>2. CASE worker[w].channel = k
    <3>1. rotating = worker[w].channel
      BY <1>1, <1>3, <2>2, NobodyLeavesYet
    <3>2. new.at = "send"
      BY <1>0, <3>1 DEF TypeOK, new
    <3>3. new # Gone
      BY <3>2, SMT, SMTT(30) DEF Gone
    <3> QED BY <1>2, <3>3, ExitSets, SMT, SMTT(30)
  <2> QED BY <2>1, <2>2
<1>4. \A r \in Callers, k \in Channels :
          Orderly /\ ((reload[r].at = "rotate" /\ k = task_channel) \/ (reload[r].at \in {"start", "token"} /\ k = rotating))
          => Cardinality(Out(worker', k)) + tokens'[k] = Cardinality(Out(worker, k)) + tokens[k]
  BY <1>1, <1>3
<1>5. tokens' \in [Channels -> Nat] /\ \A k \in Channels : k >= task_channel => tokens'[k] = 0
  BY <1>0, <1>1 DEF TypeOK, Placed
<1> QED BY <1>2, <1>4, <1>5, ExitCounted

\* A worker's token goes to the channel it read first, which is that of its rotation.
LEMMA PostsToken ==
    ASSUME RotationInv, NEW w \in Workers, posts_token(w)
    PROVE  RotationInv'
<1>0. TypeOK /\ OneRotation /\ Placed /\ Leaving
  BY DEF RotationInv
<1>1. /\ worker[w].at = "send" /\ worker' = [worker EXCEPT ![w] = Gone]
      /\ tokens' = [tokens EXCEPT ![worker[w].notify] = @ + 1]
  BY DEF posts_token
<1>2. Exits(w, Gone)
  BY <1>1 DEF posts_token, Exits
<1>3. worker[w].channel \in Channels /\ worker[w].notify \in Channels /\ worker[w].notify < task_channel
  BY <1>0, <1>1 DEF TypeOK, Placed
<1>4. Channels \subseteq Nat /\ task_channel \in Nat
  BY <1>0, Numbers, SMT, SMTT(30) DEF Channels, TypeOK
<1>5. tokens' \in [Channels -> Nat]
  BY <1>0, <1>1, <1>3, SMT, SMTT(30) DEF TypeOK
<1>6. ASSUME NEW k \in Channels, k # worker[w].notify PROVE tokens'[k] = tokens[k]
  BY <1>0, <1>1, <1>3, <1>6 DEF TypeOK
<1>7. \A k \in Channels : k >= task_channel => tokens'[k] = 0
  BY <1>0, <1>3, <1>4, <1>6, SMT, SMTT(30) DEF Placed
<1>8. ASSUME NEW r \in Callers, NEW k \in Channels, Orderly, reload[r].at = "rotate", k = task_channel
      PROVE  Cardinality(Out(worker', k)) + tokens'[k] = Cardinality(Out(worker, k)) + tokens[k]
  <2>1. worker[w].channel # k
    BY <1>1, <1>8, NobodyLeavesYet
  <2>2. Out(worker', k) = Out(worker, k)
    BY <1>2, <2>1, ExitSets
  <2>3. tokens'[k] = tokens[k]
    BY <1>3, <1>4, <1>6, <1>8, SMT, SMTT(30)
  <2> QED BY <2>2, <2>3
<1>9. ASSUME NEW r \in Callers, NEW k \in Channels, Orderly, reload[r].at \in {"start", "token"}, k = rotating
      PROVE  Cardinality(Out(worker', k)) + tokens'[k] = Cardinality(Out(worker, k)) + tokens[k]
  <2>1. CASE worker[w].channel = k
    <3>1. worker[w].notify = k
      BY <1>0, <1>1, <1>9, <2>1 DEF Leaving
    <3>2. tokens'[k] = tokens[k] + 1 /\ tokens[k] \in Nat
      BY <1>0, <1>1, <1>9, <2>1, <3>1 DEF TypeOK
    <3>3. Out(worker', k) = Out(worker, k) \ {w} /\ w \in Out(worker, k)
      BY <1>2, <2>1, ExitSets
    <3>4. IsFiniteSet(Out(worker, k)) /\ Cardinality(Out(worker, k)) \in Nat
      BY Sizes
    <3>5. Cardinality(Out(worker', k)) = Cardinality(Out(worker, k)) - 1
      BY <3>3, <3>4, FS_RemoveElement, ZenonT(30)
    <3> QED BY <3>2, <3>4, <3>5, SMT, SMTT(30)
  <2>2. CASE worker[w].channel # k
    <3>1. Out(worker', k) = Out(worker, k)
      BY <1>2, <2>2, ExitSets
    <3>2. worker[w].notify # k
      BY <1>0, <1>1, <1>9, <2>2 DEF Leaving
    <3> QED BY <1>6, <1>9, <3>1, <3>2
  <2> QED BY <2>1, <2>2
<1> QED BY <1>2, <1>5, <1>7, <1>8, <1>9, ExitCounted

\* A worker's step keeps the invariant.
LEMMA WorkerSteps ==
    ASSUME RotationInv, NEW w \in Workers, WorkerStep(w)
    PROVE  RotationInv'
BY LiveSteps, LeavesStep, ReadsNotify, ComparesOld, PostsToken DEF WorkerStep

-----------------------------------------------------------------------
(* Steps of the owner's thread.                                           *)

\* close() and cancel(): no caller is about to rotate.
LEMMA CloseSteps ==
    ASSUME RotationInv, close \/ cancel
    PROVE  RotationInv'
<1>0. TypeOK /\ OneRotation /\ Numbered /\ Placed /\ Leaving /\ Counted /\ Sized
  BY DEF RotationInv
<1>1. /\ closed' = TRUE /\ OwnerFree
      /\ ended' = ended \/ ended' = [ended EXCEPT ![task_channel] = TRUE]
      /\ UNCHANGED <<boot_error, task_channel, live_workers, worker, rotation>>
  BY DEF close, cancel, threads
<1>2. /\ ended' \in [Channels -> BOOLEAN]
      /\ \A k \in Channels : (ended[k] => ended'[k]) /\ (k # task_channel => ended'[k] = ended[k])
  BY <1>0, <1>1 DEF TypeOK
<1>3. TypeOK' /\ OneRotation' /\ Numbered' /\ Placed'
  BY <1>0, <1>1, <1>2 DEF TypeOK, OneRotation, Numbered, Placed, rotation
<1>4. Orderly' => Orderly
  BY <1>0, <1>1 DEF Orderly, TypeOK
<1>5. Leaving'
  <2>1. task_channel \in Nat /\ Channels \subseteq Nat
    BY <1>0, Numbers, SMT, SMTT(30) DEF Channels, TypeOK
  <2>2. \A k \in Channels : k > task_channel' => ~ended'[k]
    BY <1>0, <1>1, <1>2, <2>1, SMT, SMTT(30) DEF Leaving
  <2>3. \A r \in Callers : reload'[r].at \notin {"checked", "rotate"}
    BY <1>1 DEF OwnerFree, Busy, rotation
  <2>4. \A w \in Workers : worker[w].channel \in Channels
    BY <1>0 DEF TypeOK
  <2> QED BY <1>0, <1>1, <1>2, <1>4, <2>2, <2>3, <2>4 DEF Leaving, rotation
<1>6. Counted' /\ Sized'
  BY <1>0, <1>1, <1>4 DEF Counted, Expects, Sized, rotation
<1> QED BY <1>3, <1>5, <1>6 DEF RotationInv

\* A task that is submitted, or resumes, touches the queues only.
LEMMA SubmitSteps ==
    ASSUME RotationInv, NEW t \in Tasks, submit(t) \/ submit_resumes(t)
    PROVE  RotationInv'
BY Untouched DEF submit, submit_resumes, threads

\* The callers that are past their rotation are finitely many.
LEMMA PastSize ==
    \A R : IsFiniteSet(Past(R)) /\ Cardinality(Past(R)) \in Nat /\ Cardinality(Past(R)) <= Cardinality(Callers)
<1>1. IsFiniteSet(Callers)
  BY Numbers
<1>2. \A S : S \subseteq Callers => IsFiniteSet(S) /\ Cardinality(S) \in Nat /\ Cardinality(S) <= Cardinality(Callers)
  BY <1>1, FS_Subset, FS_CardinalityType
<1> QED BY <1>2 DEF Past

\* The rotations that are completed are among those that have replaced a channel.
LEMMA CompletedFirst ==
    ASSUME RotationInv
    PROVE  rotations_completed <= task_channel /\ task_channel \in Nat /\ rotations_completed \in Nat
<1>0. TypeOK /\ OneRotation /\ Numbered
  BY DEF RotationInv
<1>1. task_channel \in Nat
  BY <1>0, Numbers, SMT, SMTT(30) DEF TypeOK, Channels
<1>2. CASE \E r \in Callers : reload[r].at = "rotate"
  <2>1. reload_in_progress
    BY <1>0, <1>2 DEF OneRotation
  <2> QED BY <1>0, <1>1, <1>2, <2>1, SMT, SMTT(30) DEF Numbered, TypeOK
<1>3. CASE ~\E r \in Callers : reload[r].at = "rotate"
  BY <1>0, <1>1, <1>3, SMT, SMTT(30) DEF Numbered, TypeOK
<1> QED BY <1>2, <1>3

\* A caller that does not rotate goes on.
LEMMA QuietCaller ==
    ASSUME RotationInv, NEW r \in Callers,
           NEW new \in [at : {"queued", "checked", "reloaded", "returned"}, target : Nat, n : Nat, i : Nat],
           reload[r].at \in {"idle", "queued", "woken", "checked"},
           reload' = [reload EXCEPT ![r] = new],
           UNCHANGED <<pool, channels, live_workers, worker>>,
           UNCHANGED <<reload_in_progress, rotations_started, rotations_completed, rotating, tokens, aborted>>,
           new.target <= rotations_started + 1,
           new.at = "checked" => ~closed /\ ~reload_in_progress /\ \A q \in Callers : reload[q].at # "checked",
           new.at = "reloaded" => rotations_completed >= new.target
    PROVE  RotationInv'
<1> USE DEF pool, channels
<1>0. TypeOK /\ OneRotation /\ Numbered /\ Placed /\ Leaving /\ Counted /\ Sized
  BY DEF RotationInv
<1>1. reload'[r] = new /\ \A q \in Callers : q # r => reload'[q] = reload[q]
  BY <1>0 DEF TypeOK
<1>2. TypeOK'
  BY <1>0 DEF TypeOK, ReloadStates
<1>3. \A q \in Callers, l \in {"rotate", "start", "token"} : reload'[q].at = l => q # r /\ reload'[q] = reload[q]
  BY <1>1
<1>4. \A l \in {"rotate", "start", "token"} :
          (\E q \in Callers : reload'[q].at = l) <=> (\E q \in Callers : reload[q].at = l)
  BY <1>1, <1>3
<1>5. OneRotation'
  <2>1. ASSUME NEW p \in Callers, NEW q \in Callers, reload'[p].at \in {"checked", "rotate", "start", "token"},
               reload'[q].at \in {"checked", "rotate", "start", "token"}
        PROVE  p = q
    <3>1. CASE new.at = "checked"
      <4>1. \A v \in Callers : reload[v].at \notin {"checked", "rotate", "start", "token"}
        BY <1>0, <3>1 DEF OneRotation
      <4> QED BY <1>1, <2>1, <4>1
    <3>2. CASE new.at # "checked"
      BY <1>0, <1>1, <2>1, <3>2 DEF OneRotation
    <3> QED BY <3>1, <3>2
  <2>2. Past(reload) \subseteq Past(reload')
    BY <1>1 DEF Past
  <2>3. Cardinality(Past(reload)) <= Cardinality(Past(reload'))
    BY <2>2, PastSize, FS_Subset
  <2>4. task_channel' <= Cardinality(Past(reload'))
    <3>1. task_channel \in Nat /\ Cardinality(Past(reload)) \in Nat /\ Cardinality(Past(reload')) \in Nat
      BY PastSize, CompletedFirst
    <3> QED BY <1>0, <2>3, <3>1, SMT, SMTT(30) DEF OneRotation
  <2>5. \A q \in Callers : reload'[q].at = "checked" => ~reload_in_progress'
    BY <1>0, <1>1 DEF OneRotation
  <2> QED BY <1>0, <1>4, <2>1, <2>4, <2>5, SMT, SMTT(30) DEF OneRotation
<1>6. Numbered'
  <2>1. new.at = "reloaded" => new.target <= task_channel
    BY CompletedFirst, SMT, SMTT(30)
  <2>2. ASSUME NEW q \in Callers
        PROVE  /\ reload'[q].target <= rotations_started + 1
               /\ reload'[q].at \in {"rotate", "start", "token"} => reload'[q].target <= rotations_started
               /\ reload'[q].at = "rotate" => reload'[q].i = 0
               /\ reload'[q].at \in {"rotate", "start", "token"} => reload'[q].i < reload'[q].n
               /\ reload'[q].at = "reloaded" => reload'[q].target <= task_channel
    <3>1. CASE q = r
      BY <1>1, <2>1, <3>1
    <3>2. CASE q # r
      BY <1>0, <1>1, <3>2 DEF Numbered
    <3> QED BY <3>1, <3>2
  <2> QED BY <1>0, <1>4, <2>2, SMT, SMTT(30) DEF Numbered
<1>7. Placed'
  BY <1>0, <1>3 DEF Placed
<1>8. Leaving'
  BY <1>0, <1>1 DEF Leaving, Orderly
<1>9. Counted'
  <2>1. ASSUME NEW q \in Callers, NEW k, q # r, Expects(q, k) PROVE Expects(q, k)'
    BY <1>1, <2>1 DEF Expects
  <2>2. ASSUME Orderly', NEW v \in Live(worker), NEW q \in Callers, reload'[q].at = "reloaded"
        PROVE  worker[v].channel >= reload'[q].target
    <3>1. CASE q = r
      <4>1. worker[v].channel \in Nat /\ rotations_completed \in Nat /\ worker[v].channel >= rotations_completed
        BY <1>0, <2>2, Numbers, SMT, SMTT(30) DEF TypeOK, Channels, Counted, Orderly, Live
      <4> QED BY <1>1, <2>2, <3>1, <4>1, SMT, SMTT(30)
    <3>2. CASE q # r
      BY <1>0, <1>1, <2>2, <3>2 DEF Counted, Orderly
    <3> QED BY <3>1, <3>2
  <2> QED BY <1>0, <1>3, <2>1, <2>2 DEF Counted, Orderly
<1>10. Sized'
  BY <1>0, <1>3 DEF Sized
<1> QED BY <1>2, <1>5, <1>6, <1>7, <1>8, <1>9, <1>10 DEF RotationInv

\* reload() is called, and a caller that was woken looks again.
LEMMA WaitingSteps ==
    ASSUME RotationInv, NEW r \in Callers, calls_reload(r) \/ wakes_up(r)
    PROVE  RotationInv'
<1>0. TypeOK /\ OneRotation /\ Numbered
  BY DEF RotationInv
<1>1. /\ UNCHANGED <<pool, channels, live_workers, worker>>
      /\ UNCHANGED <<reload_in_progress, rotations_started, rotations_completed, rotating, tokens, aborted>>
      /\ \A q \in Callers : reload[q].at # "checked"
  BY DEF calls_reload, wakes_up, threads, OwnerFree, Busy
<1>2. rotations_started \in Nat /\ rotations_completed \in Nat
  BY <1>0 DEF TypeOK
<1>3. CASE calls_reload(r)
  <2> DEFINE new == IF closed THEN [Idle EXCEPT !.at = "returned"]
                    ELSE [Idle EXCEPT !.at = IF reload_in_progress THEN "queued" ELSE "checked",
                                      !.target = rotations_started + 1]
  <2>1. /\ new \in [at : {"queued", "checked", "reloaded", "returned"}, target : Nat, n : Nat, i : Nat]
        /\ new.target <= rotations_started + 1 /\ new.at # "reloaded"
        /\ new.at = "checked" => ~closed /\ ~reload_in_progress
    <3>1. CASE closed
      <4>1. new = [at |-> "returned", target |-> 0, n |-> 0, i |-> 0]
        BY <3>1 DEF Idle
      <4> HIDE DEF new
      <4> QED BY <1>2, <4>1, SMT, SMTT(30)
    <3>2. CASE ~closed
      <4> DEFINE l == IF reload_in_progress THEN "queued" ELSE "checked"
      <4>1. new = [at |-> l, target |-> rotations_started + 1, n |-> 0, i |-> 0]
        BY <3>2 DEF Idle
      <4>2. l \in {"queued", "checked"} /\ (l = "checked" => ~reload_in_progress)
        OBVIOUS
      <4> HIDE DEF new, l
      <4> QED BY <1>2, <3>2, <4>1, <4>2, SMT, SMTT(30)
    <3> QED BY <3>1, <3>2
  <2>2. reload[r].at = "idle" /\ reload' = [reload EXCEPT ![r] = new]
    BY <1>3 DEF calls_reload
  <2> HIDE DEF new
  <2> QED BY <1>1, <2>1, <2>2, QuietCaller
<1>4. CASE wakes_up(r)
  <2> DEFINE l == IF rotations_completed >= reload[r].target THEN "reloaded"
                  ELSE IF closed THEN "returned"
                  ELSE IF reload_in_progress THEN "queued" ELSE "checked"
             new == IF l = "returned" THEN [Idle EXCEPT !.at = l] ELSE [reload[r] EXCEPT !.at = l]
  <2>1. reload[r] \in [at : ReloadStates, target : Nat, n : Nat, i : Nat] /\ reload[r].target <= rotations_started + 1
    BY <1>0 DEF TypeOK, Numbered
  <2>2. /\ l \in {"queued", "checked", "reloaded", "returned"}
        /\ l = "checked" => ~closed /\ ~reload_in_progress
        /\ l = "reloaded" => rotations_completed >= reload[r].target
    OBVIOUS
  <2>3. reload[r].at = "woken" /\ reload' = [reload EXCEPT ![r] = new]
    BY <1>4 DEF wakes_up, Goes
  <2> HIDE DEF l
  <2>4. /\ new \in [at : {"queued", "checked", "reloaded", "returned"}, target : Nat, n : Nat, i : Nat]
        /\ new.at = l /\ (l = "returned" => new.target = 0) /\ (l # "returned" => new.target = reload[r].target)
    BY <2>1, <2>2 DEF Idle
  <2>5. new.target <= rotations_started + 1
    BY <1>2, <2>1, <2>4, SMT, SMTT(30)
  <2> HIDE DEF new
  <2> QED BY <1>1, <2>2, <2>3, <2>4, <2>5, QuietCaller
<1> QED BY <1>3, <1>4

\* The only caller that is between its check and the end of its rotation.
LEMMA OnlyCaller ==
    ASSUME RotationInv, NEW r \in Callers, reload[r].at \in {"checked", "rotate", "start", "token"}
    PROVE  /\ \A q \in Callers : q # r => reload[q].at \notin {"checked", "rotate", "start", "token"}
           /\ reload[r].at \in {"checked", "rotate"} => rotating = None
           /\ reload[r].at \in {"start", "token"} => rotating \in Channels /\ task_channel = rotating + 1
           /\ reload[r].at # "rotate" => rotations_started = task_channel
           /\ reload[r].at = "rotate" => rotations_started = task_channel + 1
           /\ reload_in_progress <=> reload[r].at # "checked"
<1>0. TypeOK /\ OneRotation /\ Numbered
  BY DEF RotationInv
<1>1. \A q \in Callers : q # r => reload[q].at \notin {"checked", "rotate", "start", "token"}
  BY <1>0 DEF OneRotation
<1>2. /\ reload[r].at \in {"checked", "rotate"} => rotating = None
      /\ reload[r].at \in {"start", "token"} => rotating # None
      /\ reload_in_progress <=> reload[r].at # "checked"
  BY <1>0, <1>1 DEF OneRotation
<1>3. reload[r].at \in {"start", "token"} => rotating \in Channels /\ task_channel = rotating + 1
  BY <1>0, <1>2 DEF OneRotation, TypeOK
<1>4. task_channel \in Nat
  BY CompletedFirst
<1>5. (\E q \in Callers : reload[q].at = "rotate") <=> reload[r].at = "rotate"
  BY <1>1
<1>6. /\ reload[r].at # "rotate" => rotations_started = task_channel
      /\ reload[r].at = "rotate" => rotations_started = task_channel + 1
  BY <1>0, <1>4, <1>5, SMT, SMTT(30) DEF Numbered
<1> QED BY <1>1, <1>2, <1>3, <1>6

\* Before a rotation, in an open pool, the workers that live are those of the current
\* channel and those that cancelled rotations left behind.
LEMMA LiveBefore ==
    ASSUME RotationInv, Orderly, ~closed, rotating = None
    PROVE  /\ Cardinality(Out(worker, task_channel)) + tokens[task_channel]
                + Cardinality(Older(worker, task_channel)) = live_workers
           /\ aborted = 0 => Cardinality(Out(worker, task_channel)) + tokens[task_channel] = live_workers
<1> DEFINE A == Out(worker, task_channel)
           B == Older(worker, task_channel)
<1>0. TypeOK /\ Placed /\ Leaving /\ Counted
  BY DEF RotationInv
<1>1. task_channel \in Channels /\ Channels \subseteq Nat /\ task_channel \in Nat
  BY <1>0, Numbers, SMT, SMTT(30) DEF TypeOK, Channels
<1>2. /\ IsFiniteSet(A) /\ Cardinality(A) \in Nat /\ IsFiniteSet(B) /\ Cardinality(B) \in Nat
      /\ Cardinality(Live(worker)) \in Nat
  BY Sizes
<1>3. tokens[task_channel] = 0 /\ live_workers = Cardinality(Live(worker))
  BY <1>0, <1>1, SMT, SMTT(30) DEF Placed
<1>4. ASSUME NEW w \in Workers
      PROVE  /\ worker[w].at \in WorkerStates /\ worker[w].channel \in Nat /\ worker[w].channel <= task_channel
             /\ worker[w].channel = task_channel => worker[w].at \notin {"token", "compare", "send"}
  <2>1. worker[w].at \in WorkerStates /\ worker[w].channel \in Nat
    BY <1>0, <1>1 DEF TypeOK
  <2>2. worker[w].channel <= task_channel
    BY <1>0 DEF Placed
  <2>3. worker[w].channel = task_channel => worker[w].at \notin {"token", "compare", "send"}
    BY <1>0 DEF Leaving
  <2> QED BY <2>1, <2>2, <2>3
<1>5. A \cup B = Live(worker) /\ A \cap B = {}
  <2>1. A \subseteq Live(worker)
    BY <1>4 DEF Out, Live, WorkerStates
  <2>2. B \subseteq Live(worker)
    BY DEF Older, Live
  <2>3. Live(worker) \subseteq A \cup B
    BY <1>1, <1>4, SMT, SMTT(30) DEF Out, Older, Live, LiveStates
  <2>4. A \cap B = {}
    BY <1>1, <1>4, SMT, SMTT(30) DEF Out, Older
  <2> QED BY <2>1, <2>2, <2>3, <2>4
<1> HIDE DEF A, B
<1>6. Cardinality(A \cup B) = Cardinality(A) + Cardinality(B) - Cardinality({})
  BY <1>2, <1>5, FS_Union
<1>7. Cardinality({}) = 0
  BY FS_EmptySet
<1>8. aborted = 0 => B = {}
  BY <1>0, <1>1, <1>4, SMT, SMTT(30) DEF Counted, B, Older, LiveStates, None
<1>9. Cardinality(A) + Cardinality(B) = live_workers
  <2>1. Cardinality(A \cup B) = live_workers
    BY <1>3, <1>5
  <2> QED BY <1>2, <1>6, <1>7, <2>1, SMT, SMTT(30)
<1> QED BY <1>2, <1>3, <1>7, <1>8, <1>9, SMT, SMTT(30) DEF A, B

\* A caller counts the workers whose tokens it will wait for.
LEMMA CountsStep ==
    ASSUME RotationInv, NEW r \in Callers, counts(r)
    PROVE  RotationInv'
<1> USE DEF pool, channels, threads
<1>0. TypeOK /\ OneRotation /\ Numbered /\ Placed /\ Leaving /\ Counted /\ Sized
  BY DEF RotationInv
<1>1. /\ reload[r].at = "checked"
      /\ UNCHANGED <<pool, channels, live_workers, worker, rotations_completed, rotating, tokens, aborted>>
  BY DEF counts
<1>2. reload[r] \in [at : ReloadStates, target : Nat, n : Nat, i : Nat] /\ live_workers \in Nat
      /\ rotations_started \in Nat /\ rotations_completed \in Nat /\ task_channel \in Nat
  BY <1>0, CompletedFirst DEF TypeOK
<1>3. CASE live_workers = 0
  <2> DEFINE new == [Idle EXCEPT !.at = "returned"]
  <2>1. new = [at |-> "returned", target |-> 0, n |-> 0, i |-> 0]
    BY SMT, SMTT(30) DEF Idle
  <2>2. /\ reload' = [reload EXCEPT ![r] = new] /\ UNCHANGED <<reload_in_progress, rotations_started>>
    BY <1>3 DEF counts, Goes
  <2> HIDE DEF new
  <2>3. /\ new \in [at : {"queued", "checked", "reloaded", "returned"}, target : Nat, n : Nat, i : Nat]
        /\ new.target <= rotations_started + 1 /\ new.at = "returned"
    BY <1>2, <2>1, SMT, SMTT(30)
  <2> QED BY <1>1, <2>2, <2>3, QuietCaller
<1>4. CASE live_workers # 0
  <2> DEFINE new == [reload[r] EXCEPT !.at = "rotate", !.n = live_workers, !.i = 0]
  <2>1. /\ reload' = [reload EXCEPT ![r] = new] /\ reload_in_progress' = TRUE
        /\ rotations_started' = rotations_started + 1
    BY <1>4 DEF counts
  <2>2. /\ new \in [at : ReloadStates, target : Nat, n : Nat, i : Nat]
        /\ new.at = "rotate" /\ new.n = live_workers /\ new.i = 0 /\ new.target = reload[r].target
    BY <1>2 DEF ReloadStates
  <2> HIDE DEF new
  <2>3. reload'[r] = new /\ \A q \in Callers : q # r => reload'[q] = reload[q]
    BY <1>0, <2>1 DEF TypeOK
  <2>4. /\ \A q \in Callers : q # r => reload[q].at \notin {"checked", "rotate", "start", "token"}
        /\ rotating = None /\ rotations_started = task_channel /\ ~reload_in_progress
    BY <1>1, OnlyCaller
  <2>5. \A q \in Callers : reload'[q].at \in {"checked", "rotate", "start", "token"} => q = r
    BY <2>3, <2>4
  <2>6. TypeOK'
    BY <1>0, <1>1, <1>2, <2>1, <2>2, SMT, SMTT(30) DEF TypeOK
  <2>7. OneRotation'
    <3>1. Past(reload') = Past(reload)
      BY <1>1, <2>2, <2>3 DEF Past
    <3> QED BY <1>0, <1>1, <2>1, <2>2, <2>3, <2>4, <2>5, <3>1, SMT, SMTT(30) DEF OneRotation
  <2>8. Numbered'
    <3>1. ASSUME NEW q \in Callers
          PROVE  /\ reload'[q].target <= rotations_started' + 1
                 /\ reload'[q].at \in {"rotate", "start", "token"} => reload'[q].target <= rotations_started'
                 /\ reload'[q].at = "rotate" => reload'[q].i = 0
                 /\ reload'[q].at \in {"rotate", "start", "token"} => reload'[q].i < reload'[q].n
                 /\ reload'[q].at = "reloaded" => reload'[q].target <= task_channel'
      <4>1. reload[q].target \in Nat /\ reload[q].target <= rotations_started + 1
        BY <1>0 DEF TypeOK, Numbered
      <4>2. CASE q = r
        BY <1>2, <1>4, <2>1, <2>2, <2>3, <4>1, <4>2, SMT, SMTT(30)
      <4>3. CASE q # r
        <5>1. reload'[q].at \notin {"rotate", "start", "token"} /\ reload'[q] = reload[q]
          BY <2>3, <2>4, <4>3
        <5> QED BY <1>0, <1>1, <1>2, <2>1, <4>1, <5>1, SMT, SMTT(30) DEF Numbered
      <4> QED BY <4>2, <4>3
    <3>2. \E q \in Callers : reload'[q].at = "rotate"
      BY <2>2, <2>3
    <3>3. rotations_completed <= rotations_started
      BY <1>0, <1>2, <2>4, SMT, SMTT(30) DEF Numbered
    <3> QED BY <1>1, <1>2, <2>1, <2>4, <3>1, <3>2, <3>3, SMT, SMTT(30) DEF Numbered
  <2>9. \A q \in Callers : reload'[q].at \notin {"start", "token"}
    BY <2>2, <2>3, <2>4
  <2>10. Placed'
    BY <1>0, <1>1, <2>9, ZenonT(30) DEF Placed
  <2>11. Orderly' = Orderly /\ (Orderly => ~closed)
    BY <1>0, <1>1 DEF Orderly, Leaving
  <2>12. Leaving'
    BY <1>0, <1>1, <2>11, ZenonT(30) DEF Leaving
  <2>13. Counted'
    <3>1. ASSUME Orderly PROVE Expects(r, task_channel)'
      <4>1. /\ Cardinality(Out(worker, task_channel)) + tokens[task_channel]
                  + Cardinality(Older(worker, task_channel)) = live_workers
            /\ aborted = 0 => Cardinality(Out(worker, task_channel)) + tokens[task_channel] = live_workers
        BY <2>4, <2>11, <3>1, LiveBefore
      <4>2. reload'[r].n - reload'[r].i = live_workers
        BY <1>2, <2>2, <2>3, SMT, SMTT(30)
      <4> QED BY <1>1, <1>2, <4>1, <4>2, SMT, SMTT(30) DEF Expects
    <3>2. ASSUME Orderly', NEW q \in Callers, reload'[q].at = "rotate" PROVE Expects(q, task_channel)'
      <4>1. q = r
        BY <2>5, <3>2
      <4> QED BY <2>11, <3>1, <3>2, <4>1
    <3>3. \A q \in Callers : reload'[q].at = "reloaded" => reload'[q] = reload[q]
      BY <2>2, <2>3
    <3> QED BY <1>0, <1>1, <2>9, <2>11, <3>2, <3>3, ZenonT(30) DEF Counted
  <2>14. Sized'
    <3>1. ASSUME NEW q \in Callers, reload'[q].at \in {"rotate", "start", "token"} PROVE reload'[q].n = live_workers
      BY <2>2, <2>3, <2>5, <3>1
    <3> QED BY <1>0, <1>1, <2>1, <2>4, <3>1 DEF Sized
  <2> QED BY <2>6, <2>7, <2>8, <2>10, <2>12, <2>13, <2>14 DEF RotationInv
<1> QED BY <1>3, <1>4

\* The channel is replaced and the old one is closed.
LEMMA RotatesStep ==
    ASSUME RotationInv, NEW r \in Callers, rotates(r)
    PROVE  RotationInv'
<1> USE DEF pool, threads
<1>0. TypeOK /\ OneRotation /\ Numbered /\ Placed /\ Leaving /\ Counted /\ Sized
  BY DEF RotationInv
<1>1. /\ reload[r].at = "rotate" /\ rotating' = task_channel /\ task_channel' = task_channel + 1
      /\ ended' = [ended EXCEPT ![task_channel] = TRUE] /\ reload' = [reload EXCEPT ![r].at = "start"]
      /\ UNCHANGED <<closed, boot_error, live_workers, worker>>
      /\ UNCHANGED <<reload_in_progress, rotations_started, rotations_completed, tokens, aborted>>
  BY DEF rotates
<1>2. /\ reload'[r] = [reload[r] EXCEPT !.at = "start"] /\ \A q \in Callers : q # r => reload'[q] = reload[q]
      /\ reload' \in [Callers -> [at : ReloadStates, target : Nat, n : Nat, i : Nat]]
  BY <1>0, <1>1, SMT, SMTT(30) DEF TypeOK, ReloadStates
<1>3. /\ reload'[r].at = "start" /\ reload'[r].target = reload[r].target
      /\ reload'[r].n = reload[r].n /\ reload'[r].i = reload[r].i /\ reload[r].i = 0
  BY <1>0, <1>1, <1>2 DEF TypeOK, Numbered
<1>4. /\ \A q \in Callers : q # r => reload[q].at \notin {"checked", "rotate", "start", "token"}
      /\ rotating = None /\ rotations_started = task_channel + 1 /\ reload_in_progress
  BY <1>1, OnlyCaller
<1>5. \A q \in Callers : reload'[q].at \in {"checked", "rotate", "start", "token"} => q = r
  BY <1>2, <1>4
<1>6. task_channel \in Nat /\ task_channel \in Channels /\ rotations_completed \in Nat /\ Cardinality(Callers) \in Nat
  BY <1>0, Numbers, CompletedFirst DEF TypeOK
<1>7. task_channel' <= Cardinality(Past(reload')) /\ task_channel' \in Channels
  <2>1. Past(reload') = Past(reload) \cup {r} /\ r \notin Past(reload)
    BY <1>1, <1>2, <1>3, SMT, SMTT(30) DEF Past
  <2>2. Cardinality(Past(reload) \cup {r}) = Cardinality(Past(reload)) + 1
    BY <2>1, PastSize, FS_AddElement
  <2>3. /\ Cardinality(Past(reload)) \in Nat /\ Cardinality(Past(reload')) <= Cardinality(Callers)
        /\ Cardinality(Past(reload')) = Cardinality(Past(reload)) + 1
    BY <2>1, <2>2, PastSize
  <2>4. task_channel <= Cardinality(Past(reload))
    BY <1>0 DEF OneRotation
  <2> QED BY <1>1, <1>6, <2>3, <2>4, SMT, SMTT(30) DEF Channels
<1>8. TypeOK'
  BY <1>0, <1>1, <1>2, <1>6, <1>7 DEF TypeOK
<1>9. OneRotation'
  <2>1. rotating' # None /\ task_channel' = rotating' + 1
    BY <1>1, <1>6, SMT, SMTT(30) DEF None
  <2> QED BY <1>1, <1>3, <1>4, <1>5, <1>7, <2>1 DEF OneRotation
<1>10. Numbered'
  <2>1. ~\E q \in Callers : reload'[q].at = "rotate"
    BY <1>3, <1>5
  <2>2. ASSUME NEW q \in Callers
        PROVE  /\ reload'[q].target <= rotations_started' + 1
               /\ reload'[q].at \in {"rotate", "start", "token"} => reload'[q].target <= rotations_started'
               /\ reload'[q].at = "rotate" => reload'[q].i = 0
               /\ reload'[q].at \in {"rotate", "start", "token"} => reload'[q].i < reload'[q].n
               /\ reload'[q].at = "reloaded" => reload'[q].target <= task_channel'
    <3>1. CASE q = r
      BY <1>0, <1>1, <1>3, <3>1 DEF Numbered
    <3>2. CASE q # r
      <4>1. reload[q].target \in Nat /\ reload'[q] = reload[q]
        BY <1>0, <1>2, <3>2 DEF TypeOK
      <4> QED BY <1>0, <1>1, <1>6, <4>1, SMT, SMTT(30) DEF Numbered
    <3> QED BY <3>1, <3>2
  <2> QED BY <1>0, <1>1, <1>4, <1>6, <2>1, <2>2, SMT, SMTT(30) DEF Numbered
<1>11. ASSUME NEW w \in Workers
       PROVE  worker[w].channel \in Nat /\ worker[w].channel \in Channels /\ worker[w].channel <= task_channel
  BY <1>0, Numbers, SMT, SMTT(30) DEF TypeOK, Placed, Channels
<1>12. Placed'
  <2>1. Out(worker, task_channel + 1) = {}
    BY <1>6, <1>11, SMT, SMTT(30) DEF Out
  <2>2. Cardinality(Out(worker, task_channel + 1)) = 0
    BY <2>1, FS_EmptySet
  <2>3. \A k \in Channels : k >= task_channel' => tokens'[k] = 0
    BY <1>0, <1>1, <1>6, Numbers, SMT, SMTT(30) DEF Placed, Channels
  <2>4. \A w \in Workers : worker'[w].at \in {"compare", "send"} => worker'[w].notify \in Channels /\ worker'[w].notify < task_channel'
    BY <1>0, <1>1, <1>6, Numbers, SMT, SMTT(30) DEF Placed, Channels
  <2>5. \A w \in Workers : worker'[w].channel <= task_channel'
    BY <1>1, <1>6, <1>11, SMT, SMTT(30)
  <2>6. ASSUME NEW q \in Callers
        PROVE  /\ reload'[q].at = "start" => Cardinality(Out(worker', task_channel')) <= reload'[q].i
               /\ reload'[q].at = "token" => Cardinality(Out(worker', task_channel')) <= reload'[q].i + 1
    BY <1>1, <1>3, <1>5, <2>2, SMT, SMTT(30)
  <2> QED BY <1>0, <1>1, <2>3, <2>4, <2>5, <2>6 DEF Placed
<1>13. Orderly' = Orderly /\ (Orderly => ~closed)
  BY <1>0, <1>1 DEF Orderly, Leaving
<1>14. Leaving'
  <2>1. \A k \in Channels : (ended[k] => ended'[k]) /\ (k # task_channel => ended'[k] = ended[k])
    BY <1>0, <1>1 DEF TypeOK
  <2>2. ~ended'[task_channel'] /\ \A k \in Channels : k > task_channel' => ~ended'[k]
    BY <1>0, <1>1, <1>6, <1>7, <2>1, Numbers, SMT, SMTT(30) DEF Leaving, Channels
  <2>3. ASSUME Orderly', NEW w \in Workers, worker'[w].at \in {"done", "token", "compare", "send"}
        PROVE  ended'[worker'[w].channel] /\ worker'[w].channel # task_channel
    BY <1>0, <1>1, <1>11, <1>13, <2>1, <2>3 DEF Leaving
  <2>4. \A q \in Callers : reload'[q].at \notin {"checked", "rotate"}
    BY <1>3, <1>5
  <2>5. Orderly' => \A w \in Workers : worker'[w].at \notin {"close", "drain"}
    BY <1>0, <1>1, <1>13 DEF Leaving
  <2>6. ASSUME Orderly', NEW w \in Workers
        PROVE  /\ ~(worker'[w].at = "compare" /\ rotating' = worker'[w].channel)
               /\ worker'[w].at = "send" => worker'[w].notify = worker'[w].channel
    <3>1. Orderly
      BY <1>13, <2>6
    <3>2. worker'[w].at = "send" => worker'[w].notify = worker'[w].channel
      BY <1>0, <1>1, <3>1 DEF Leaving
    <3>3. worker'[w].at = "compare" => rotating' # worker'[w].channel
      BY <1>1, <2>3, <2>6
    <3> QED BY <3>2, <3>3
  <2>7. \A w \in Workers : worker'[w].at = "closing" => boot_error'
    BY <1>0, <1>1 DEF Leaving
  <2> QED BY <2>2, <2>3, <2>4, <2>5, <2>6, <2>7 DEF Leaving
<1>15. Counted'
  <2>1. ASSUME Orderly PROVE Expects(r, rotating)'
    <3>1. Expects(r, task_channel)
      BY <1>0, <1>1, <2>1 DEF Counted
    <3> QED BY <1>1, <1>3, <3>1 DEF Expects
  <2>2. ASSUME Orderly', NEW q \in Callers
        PROVE  /\ reload'[q].at = "rotate" => Expects(q, task_channel)'
               /\ reload'[q].at \in {"start", "token"} => Expects(q, rotating)'
    <3>1. reload'[q].at \in {"rotate", "start", "token"} => q = r /\ reload'[q].at = "start"
      BY <1>3, <1>5
    <3> QED BY <1>13, <2>1, <2>2, <3>1
  <2>3. ASSUME Orderly', aborted' = 0, NEW w \in Workers, worker'[w].at \notin {"none", "gone"}
        PROVE  worker'[w].channel = rotating'
    BY <1>0, <1>1, <1>4, <1>11, <1>13, <2>3, SMT, SMTT(30) DEF Counted, None
  <2>4. \A q \in Callers : reload'[q].at = "reloaded" => reload'[q] = reload[q]
    BY <1>2, <1>3
  <2> QED BY <1>0, <1>1, <1>13, <2>2, <2>3, <2>4 DEF Counted
<1>16. Sized'
  BY <1>0, <1>1, <1>2, <1>3, <1>4, <1>5 DEF Sized
<1> QED BY <1>8, <1>9, <1>10, <1>12, <1>14, <1>15, <1>16 DEF RotationInv

\* A worker is started on the current channel.
LEMMA StartedSets ==
    ASSUME RotationInv, NEW w, w = Cardinality(Started) + 1, Started # Workers,
           worker' = [worker EXCEPT ![w] = New(w, task_channel)]
    PROVE  /\ w \in Workers /\ worker[w].at = "none"
           /\ worker' \in [Workers -> [at : WorkerStates, channel : Channels, notify : Channels \cup {None}]]
           /\ worker'[w].at \in {"boot", "loop"} /\ worker'[w].channel = task_channel
           /\ \A v \in Workers : v # w => worker'[v] = worker[v]
           /\ Live(worker') = Live(worker) \cup {w} /\ w \notin Live(worker)
           /\ Begun(worker') = 1..Cardinality(Begun(worker'))
           /\ \A k : k # task_channel => Out(worker', k) = Out(worker, k)
           /\ Out(worker', task_channel) = Out(worker, task_channel) \cup {w} /\ w \notin Out(worker, task_channel)
           /\ \A k \in Channels : k <= task_channel => Older(worker', k) = Older(worker, k)
<1> DEFINE b == Cardinality(Begun(worker))
<1>0. TypeOK /\ Placed /\ task_channel \in Nat
  BY CompletedFirst DEF RotationInv
<1>1. Started = Begun(worker) /\ Begun(worker) = 1..b /\ b \in Nat
  BY <1>0, Sizes DEF Started, Begun, Placed
<1>2. w = b + 1
  BY <1>1
<1>3. w \in Workers /\ w \notin Begun(worker)
  <2>1. Begun(worker) \subseteq Workers
    BY DEF Begun
  <2> HIDE DEF b
  <2>2. b < Cardinality(Workers)
    BY <1>1, <2>1, Numbers, SMT, SMTT(30)
  <2> QED BY <1>1, <1>2, <2>2, Numbers, SMT, SMTT(30)
<1>4. worker[w].at = "none"
  BY <1>3 DEF Begun
<1>5. /\ New(w, task_channel) \in [at : WorkerStates, channel : Channels, notify : Channels \cup {None}]
      /\ New(w, task_channel).at \in {"boot", "loop"} /\ New(w, task_channel).channel = task_channel
  <2> DEFINE l == IF w \in BootFails THEN "boot" ELSE "loop"
  <2>1. New(w, task_channel) = [at |-> l, channel |-> task_channel, notify |-> None]
    BY DEF New
  <2>2. l \in {"boot", "loop"} /\ task_channel \in Channels
    BY <1>0 DEF TypeOK
  <2> HIDE DEF l
  <2> QED BY <2>1, <2>2, SMT, SMTT(30) DEF WorkerStates, LiveStates
<1>6. worker' \in [Workers -> [at : WorkerStates, channel : Channels, notify : Channels \cup {None}]]
  BY <1>0, <1>5 DEF TypeOK
<1>7. worker'[w] = New(w, task_channel) /\ \A v \in Workers : v # w => worker'[v] = worker[v]
  BY <1>0, <1>3 DEF TypeOK
<1>8. worker'[w].at \in {"boot", "loop"} /\ worker'[w].channel = task_channel
  BY <1>5, <1>7
<1>9. Live(worker') = Live(worker) \cup {w} /\ w \notin Live(worker)
  BY <1>3, <1>4, <1>7, <1>8 DEF Live, LiveStates
<1>10. Begun(worker') = 1..Cardinality(Begun(worker'))
  <2>1. Begun(worker') = Begun(worker) \cup {w}
    BY <1>3, <1>7, <1>8 DEF Begun
  <2>2. Cardinality(Begun(worker) \cup {w}) = b + 1
    BY <1>3, Sizes, FS_AddElement
  <2> HIDE DEF b
  <2>3. Begun(worker) \cup {w} = 1..(b + 1)
    BY <1>1, <1>2, SMT, SMTT(30)
  <2> QED BY <2>1, <2>2, <2>3
<1>11. \A k : k # task_channel => Out(worker', k) = Out(worker, k)
  BY <1>3, <1>4, <1>7, <1>8 DEF Out
<1>12. Out(worker', task_channel) = Out(worker, task_channel) \cup {w} /\ w \notin Out(worker, task_channel)
  BY <1>3, <1>4, <1>7, <1>8 DEF Out
<1>13. ASSUME NEW k \in Channels, k <= task_channel PROVE Older(worker', k) = Older(worker, k)
  <2>1. ~(task_channel < k)
    BY <1>0, <1>13, Numbers, SMT, SMTT(30) DEF Channels
  <2> QED BY <1>3, <1>4, <1>7, <1>8, <2>1 DEF Older, LiveStates
<1> QED BY <1>3, <1>4, <1>6, <1>7, <1>8, <1>9, <1>10, <1>11, <1>12, <1>13

\* While no rotation was cancelled, those that live in an open pool are the workers a
\* rotation has not yet replaced and those that it started.
LEMMA LiveDuring ==
    ASSUME RotationInv, NEW r \in Callers, reload[r].at \in {"start", "token"}, ~closed, aborted = 0
    PROVE  /\ live_workers <= Cardinality(Out(worker, rotating)) + Cardinality(Out(worker, task_channel))
           /\ Cardinality(Out(worker, rotating)) + tokens[rotating] = reload[r].n - reload[r].i
           /\ reload[r].n <= worker_count
<1> DEFINE A == Out(worker, rotating)
           B == Out(worker, task_channel)
<1>0. Placed /\ Counted /\ Sized /\ Orderly /\ TypeOK
  BY DEF RotationInv, Orderly
<1>1. Live(worker) \subseteq A \cup B
  BY <1>0 DEF Counted, Live, Out, LiveStates
<1>2. /\ IsFiniteSet(A) /\ Cardinality(A) \in Nat /\ IsFiniteSet(B) /\ Cardinality(B) \in Nat
      /\ Cardinality(Live(worker)) \in Nat
  BY Sizes
<1> HIDE DEF A, B
<1>3. IsFiniteSet(A \cup B) /\ IsFiniteSet(A \cap B)
      /\ Cardinality(A \cup B) = Cardinality(A) + Cardinality(B) - Cardinality(A \cap B)
  BY <1>2, FS_Union, FS_Intersection, ZenonT(30)
<1>4. Cardinality(Live(worker)) <= Cardinality(A \cup B) /\ Cardinality(A \cap B) \in Nat
  BY <1>1, <1>3, FS_Subset, FS_CardinalityType
<1>5. live_workers <= Cardinality(A) + Cardinality(B)
  <2>1. live_workers = Cardinality(Live(worker))
    BY <1>0 DEF Placed
  <2> QED BY <1>2, <1>3, <1>4, <2>1, SMT, SMTT(30)
<1>6. Cardinality(A) + tokens[rotating] = reload[r].n - reload[r].i
  BY <1>0 DEF Counted, Expects, A
<1>7. reload[r].n <= worker_count
  BY <1>0 DEF Sized
<1> QED BY <1>5, <1>6, <1>7 DEF A, B

\* A replacement is started, unless the pool was closed, and the caller waits for a token.
LEMMA StartsStep ==
    ASSUME RotationInv, NEW r \in Callers, starts(r)
    PROVE  RotationInv'
<1> USE DEF pool, channels
<1>0. TypeOK /\ OneRotation /\ Numbered /\ Placed /\ Leaving /\ Counted /\ Sized
  BY DEF RotationInv
<1> DEFINE w == Cardinality(Started) + 1
<1>1. /\ reload[r].at = "start" /\ reload' = [reload EXCEPT ![r].at = "token"]
      /\ UNCHANGED <<closed, boot_error, task_channel, ended>>
      /\ UNCHANGED <<reload_in_progress, rotations_started, rotations_completed, rotating, tokens, aborted>>
      /\ closed => UNCHANGED <<worker, live_workers>>
      /\ ~closed => /\ Started # Workers /\ live_workers' = live_workers + 1
                    /\ worker' = [worker EXCEPT ![w] = New(w, task_channel)]
  BY DEF starts, threads
<1> HIDE DEF w
<1>2. /\ reload'[r] = [reload[r] EXCEPT !.at = "token"] /\ \A q \in Callers : q # r => reload'[q] = reload[q]
      /\ reload' \in [Callers -> [at : ReloadStates, target : Nat, n : Nat, i : Nat]]
  BY <1>0, <1>1, SMT, SMTT(30) DEF TypeOK, ReloadStates
<1>3. /\ reload'[r].at = "token" /\ reload'[r].target = reload[r].target
      /\ reload'[r].n = reload[r].n /\ reload'[r].i = reload[r].i /\ reload[r].i \in Nat /\ reload[r].n \in Nat
  BY <1>0, <1>2, SMT, SMTT(30) DEF TypeOK
<1>4. /\ \A q \in Callers : q # r => reload[q].at \notin {"checked", "rotate", "start", "token"}
      /\ rotating \in Channels /\ task_channel = rotating + 1 /\ rotations_started = task_channel
      /\ reload_in_progress
  BY <1>1, OnlyCaller
<1>5. \A q \in Callers : /\ reload'[q].at \in {"checked", "rotate", "start", "token"} => q = r
                         /\ reload'[q].at # "token" => reload'[q] = reload[q]
  BY <1>2, <1>3, <1>4
<1>6. /\ task_channel \in Nat /\ rotations_completed \in Nat /\ rotations_completed <= task_channel
      /\ live_workers \in Nat /\ rotating \in Nat /\ Channels \subseteq Nat
  BY <1>0, <1>4, CompletedFirst, Numbers, SMT, SMTT(30) DEF TypeOK, Channels
<1>7. ~closed =>
        /\ w \in Workers /\ worker[w].at = "none"
        /\ worker' \in [Workers -> [at : WorkerStates, channel : Channels, notify : Channels \cup {None}]]
        /\ worker'[w].at \in {"boot", "loop"} /\ worker'[w].channel = task_channel
        /\ \A v \in Workers : v # w => worker'[v] = worker[v]
        /\ Live(worker') = Live(worker) \cup {w} /\ w \notin Live(worker)
        /\ Begun(worker') = 1..Cardinality(Begun(worker'))
        /\ Out(worker', rotating) = Out(worker, rotating)
        /\ Out(worker', task_channel) = Out(worker, task_channel) \cup {w} /\ w \notin Out(worker, task_channel)
        /\ Older(worker', rotating) = Older(worker, rotating)
  <2>1. rotating # task_channel /\ rotating <= task_channel
    BY <1>4, <1>6, SMT, SMTT(30)
  <2> QED BY <1>1, <1>4, <2>1, StartedSets DEF w
<1>8. TypeOK'
  <2>1. live_workers' \in Nat
    BY <1>1, <1>6, SMT, SMTT(30)
  <2>2. worker' \in [Workers -> [at : WorkerStates, channel : Channels, notify : Channels \cup {None}]]
    BY <1>0, <1>1, <1>7 DEF TypeOK
  <2> QED BY <1>0, <1>1, <1>2, <2>1, <2>2 DEF TypeOK
<1>9. OneRotation'
  <2>1. Past(reload') = Past(reload)
    BY <1>1, <1>2, <1>3 DEF Past
  <2>2. rotating' # None
    BY <1>1, <1>6, SMT, SMTT(30) DEF None
  <2> QED BY <1>0, <1>1, <1>3, <1>4, <1>5, <2>1, <2>2, SMT, SMTT(30) DEF OneRotation
<1>10. Numbered'
  <2>1. ~\E q \in Callers : reload'[q].at = "rotate"
    BY <1>3, <1>5
  <2>2. ~\E q \in Callers : reload[q].at = "rotate"
    BY <1>1, <1>4
  <2>3. ASSUME NEW q \in Callers
        PROVE  /\ reload'[q].target <= rotations_started + 1
               /\ reload'[q].at \in {"rotate", "start", "token"} => reload'[q].target <= rotations_started
               /\ reload'[q].at = "rotate" => reload'[q].i = 0
               /\ reload'[q].at \in {"rotate", "start", "token"} => reload'[q].i < reload'[q].n
               /\ reload'[q].at = "reloaded" => reload'[q].target <= task_channel
    <3>1. CASE q = r
      BY <1>0, <1>1, <1>3, <3>1 DEF Numbered
    <3>2. CASE q # r
      BY <1>0, <1>2, <3>2 DEF Numbered
    <3> QED BY <3>1, <3>2
  <2> QED BY <1>0, <1>1, <2>1, <2>2, <2>3 DEF Numbered
<1>11. Placed'
  <2>1. Cardinality(Out(worker', task_channel)) <= reload[r].i + 1
    <3>1. Cardinality(Out(worker, task_channel)) \in Nat /\ Cardinality(Out(worker, task_channel)) <= reload[r].i
      BY <1>0, <1>1, Sizes DEF Placed
    <3>2. CASE closed
      BY <1>1, <1>3, <3>1, <3>2, SMT, SMTT(30)
    <3>3. CASE ~closed
      <4>1. Cardinality(Out(worker', task_channel)) = Cardinality(Out(worker, task_channel)) + 1
        <5>1. Out(worker', task_channel) = Out(worker, task_channel) \cup {w} /\ w \notin Out(worker, task_channel)
          BY <1>7, <3>3
        <5>2. IsFiniteSet(Out(worker, task_channel))
          BY Sizes
        <5> QED BY <5>1, <5>2, FS_AddElement, ZenonT(30)
      <4> QED BY <1>3, <3>1, <4>1, SMT, SMTT(30)
    <3> QED BY <3>2, <3>3
  <2>2. live_workers' = Cardinality(Live(worker'))
    <3>1. live_workers = Cardinality(Live(worker))
      BY <1>0 DEF Placed
    <3>2. CASE closed
      BY <1>1, <3>1, <3>2
    <3>3. CASE ~closed
      <4>1. Cardinality(Live(worker')) = Cardinality(Live(worker)) + 1
        <5>1. Live(worker') = Live(worker) \cup {w} /\ w \notin Live(worker)
          BY <1>7, <3>3
        <5>2. IsFiniteSet(Live(worker))
          BY Sizes
        <5> QED BY <5>1, <5>2, FS_AddElement, ZenonT(30)
      <4> QED BY <1>1, <3>1, <3>3, <4>1
    <3> QED BY <3>2, <3>3
  <2>3. ASSUME NEW v \in Workers
        PROVE  /\ worker'[v].channel <= task_channel
               /\ worker'[v].at \in {"compare", "send"} => worker'[v].notify \in Channels /\ worker'[v].notify < task_channel
    <3>1. CASE ~closed /\ v = w
      BY <1>6, <1>7, <3>1, SMT, SMTT(30)
    <3>2. CASE closed \/ v # w
      BY <1>0, <1>1, <1>7, <3>2 DEF Placed
    <3> QED BY <3>1, <3>2
  <2>4. Begun(worker') = 1..Cardinality(Begun(worker'))
    BY <1>0, <1>1, <1>7, ZenonT(30) DEF Placed
  <2>5. ASSUME NEW q \in Callers
        PROVE  /\ reload'[q].at = "start" => Cardinality(Out(worker', task_channel)) <= reload'[q].i
               /\ reload'[q].at = "token" => Cardinality(Out(worker', task_channel)) <= reload'[q].i + 1
    <3>1. reload'[q].at \in {"start", "token"} => q = r
      BY <1>5
    <3> QED BY <1>3, <2>1, <3>1
  <2> QED BY <1>0, <1>1, <2>2, <2>3, <2>4, <2>5 DEF Placed
<1>12. Leaving'
  <2>1. Orderly' = Orderly
    BY <1>1 DEF Orderly
  <2>2. ASSUME NEW v \in Workers
        PROVE  worker'[v] = worker[v] \/ worker'[v].at \in {"boot", "loop"}
    BY <1>1, <1>7
  <2>3. ASSUME Orderly', NEW v \in Workers
        PROVE  /\ worker'[v].at \notin {"close", "drain"}
               /\ worker'[v].at \in {"done", "token", "compare", "send"} => ended'[worker'[v].channel]
               /\ worker'[v].at = "compare" /\ rotating' = worker'[v].channel => worker'[v].notify = rotating'
               /\ worker'[v].at = "send" => worker'[v].notify = worker'[v].channel
    BY <1>0, <1>1, <2>1, <2>2, <2>3 DEF Leaving
  <2>4. ASSUME NEW v \in Workers, worker'[v].at = "closing" PROVE boot_error'
    BY <1>0, <1>1, <2>2, <2>4 DEF Leaving
  <2>5. \A q \in Callers : reload'[q].at \notin {"checked", "rotate"}
    BY <1>3, <1>5
  <2> QED BY <1>0, <1>1, <2>3, <2>4, <2>5 DEF Leaving
<1>13. Counted'
  <2>1. Orderly' = Orderly
    BY <1>1 DEF Orderly
  <2>2. Out(worker', rotating) = Out(worker, rotating) /\ Older(worker', rotating) = Older(worker, rotating)
    BY <1>1, <1>7
  <2>3. ASSUME Orderly PROVE Expects(r, rotating)'
    <3>1. Expects(r, rotating)
      BY <1>0, <1>1, <2>3 DEF Counted
    <3> QED BY <1>1, <1>3, <2>2, <3>1 DEF Expects
  <2>4. ASSUME Orderly', NEW q \in Callers
        PROVE  /\ reload'[q].at = "rotate" => Expects(q, task_channel)'
               /\ reload'[q].at \in {"start", "token"} => Expects(q, rotating)'
    <3>1. reload'[q].at \in {"rotate", "start", "token"} => q = r /\ reload'[q].at = "token"
      BY <1>3, <1>5
    <3> QED BY <2>1, <2>3, <2>4, <3>1, ZenonT(30)
  <2>5. ASSUME Orderly', aborted' = 0, NEW v \in Workers, worker'[v].at \notin {"none", "gone"}
        PROVE  worker'[v].channel \in {task_channel', rotating'}
    BY <1>0, <1>1, <1>7, <2>1, <2>5 DEF Counted
  <2>6. ASSUME Orderly', NEW v \in Live(worker')
        PROVE  /\ worker'[v].channel >= rotations_completed'
               /\ \A q \in Callers : reload'[q].at = "reloaded" => worker'[v].channel >= reload'[q].target
    <3>1. CASE ~closed /\ v = w
      <4>1. worker'[v].channel = task_channel
        BY <1>7, <3>1
      <4>2. ASSUME NEW q \in Callers, reload'[q].at = "reloaded"
            PROVE  reload'[q].target <= task_channel /\ reload'[q].target \in Nat
        BY <1>0, <1>5, <4>2 DEF Numbered, TypeOK
      <4> QED BY <1>1, <1>6, <4>1, <4>2
    <3>2. CASE closed \/ v # w
      <4>1. v \in Live(worker) /\ v \in Workers
        BY <1>1, <1>7, <2>6, <3>2 DEF Live
      <4>2. worker'[v] = worker[v]
        BY <1>1, <1>7, <3>2, <4>1
      <4>3. /\ worker[v].channel >= rotations_completed
            /\ \A q \in Callers : reload[q].at = "reloaded" => worker[v].channel >= reload[q].target
        BY <1>0, <2>1, <2>6, <4>1 DEF Counted
      <4> QED BY <1>1, <1>5, <4>2, <4>3
    <3> QED BY <3>1, <3>2
  <2> QED BY <2>4, <2>5, <2>6 DEF Counted
<1>14. Sized'
  <2>1. ASSUME aborted = 0 PROVE live_workers' <= worker_count + 1
    <3>1. CASE closed
      BY <1>0, <1>1, <2>1, <3>1 DEF Sized
    <3>2. CASE ~closed
      <4>1. /\ live_workers <= Cardinality(Out(worker, rotating)) + Cardinality(Out(worker, task_channel))
            /\ Cardinality(Out(worker, rotating)) + tokens[rotating] = reload[r].n - reload[r].i
            /\ reload[r].n <= worker_count
        BY <1>1, <2>1, <3>2, LiveDuring
      <4>2. Cardinality(Out(worker, task_channel)) <= reload[r].i
        BY <1>0, <1>1 DEF Placed
      <4>3. Cardinality(Out(worker, task_channel)) \in Nat /\ Cardinality(Out(worker, rotating)) \in Nat
        BY Sizes
      <4>4. tokens[rotating] \in Nat /\ worker_count \in Nat
        BY <1>0, <1>4, Numbers DEF TypeOK
      <4> QED BY <1>1, <1>3, <1>6, <3>2, <4>1, <4>2, <4>3, <4>4, SMT, SMTT(30)
    <3> QED BY <3>1, <3>2
  <2>2. ASSUME NEW q \in Callers, reload'[q].at \in {"rotate", "start", "token"}
        PROVE  q = r /\ reload'[q].n = reload[r].n
    BY <1>3, <1>5, <2>2
  <2> QED BY <1>0, <1>1, <1>4, <2>1, <2>2 DEF Sized
<1> QED BY <1>8, <1>9, <1>10, <1>11, <1>12, <1>13, <1>14 DEF RotationInv

\* The rotation of caller r is over, and the callers that waited for it are woken.
Ends(r, new) ==
    /\ reload[r].at = "token"
    /\ reload' = [Fire EXCEPT ![r] = new]
    /\ reload_in_progress' = FALSE /\ rotating' = None
    /\ UNCHANGED <<pool, channels, live_workers, worker, rotations_started>>

\* What the end of a rotation leaves of the callers.
LEMMA EndedCallers ==
    ASSUME RotationInv, NEW r \in Callers,
           NEW new \in [at : {"reloaded", "returned"}, target : Nat, n : Nat, i : Nat], Ends(r, new)
    PROVE  /\ reload' \in [Callers -> [at : ReloadStates, target : Nat, n : Nat, i : Nat]]
           /\ reload'[r] = new
           /\ \A q \in Callers : q # r =>
                 /\ reload'[q].at = IF reload[q].at = "queued" THEN "woken" ELSE reload[q].at
                 /\ reload'[q].target = reload[q].target /\ reload'[q].i = reload[q].i /\ reload'[q].n = reload[q].n
           /\ \A q \in Callers : reload'[q].at \notin {"checked", "rotate", "start", "token"}
           /\ Past(reload') = Past(reload)
<1>0. TypeOK
  BY DEF RotationInv
<1>1. reload[r].at = "token" /\ reload' = [Fire EXCEPT ![r] = new]
  BY DEF Ends
<1>2. ASSUME NEW q \in Callers
      PROVE  /\ Fire[q] \in [at : ReloadStates, target : Nat, n : Nat, i : Nat]
             /\ Fire[q].at = IF reload[q].at = "queued" THEN "woken" ELSE reload[q].at
             /\ Fire[q].target = reload[q].target /\ Fire[q].i = reload[q].i /\ Fire[q].n = reload[q].n
  <2>1. reload[q] \in [at : ReloadStates, target : Nat, n : Nat, i : Nat]
    BY <1>0 DEF TypeOK
  <2>2. Fire[q] = IF reload[q].at = "queued" THEN [reload[q] EXCEPT !.at = "woken"] ELSE reload[q]
    BY DEF Fire
  <2>3. CASE reload[q].at = "queued"
    <3>1. Fire[q] = [reload[q] EXCEPT !.at = "woken"]
      BY <2>2, <2>3
    <3> QED BY <2>1, <2>3, <3>1 DEF ReloadStates
  <2>4. CASE reload[q].at # "queued"
    <3>1. Fire[q] = reload[q]
      BY <2>2, <2>4
    <3> QED BY <2>1, <2>4, <3>1
  <2> QED BY <2>3, <2>4
<1>3. Fire \in [Callers -> [at : ReloadStates, target : Nat, n : Nat, i : Nat]]
  <2>1. DOMAIN Fire = Callers /\ Fire = [q \in Callers |-> Fire[q]]
    BY DEF Fire
  <2> QED BY <1>2, <2>1
<1>4. new \in [at : ReloadStates, target : Nat, n : Nat, i : Nat] /\ new.at \in {"reloaded", "returned"}
  BY DEF ReloadStates
<1>5. reload' \in [Callers -> [at : ReloadStates, target : Nat, n : Nat, i : Nat]]
  BY <1>1, <1>3, <1>4
<1>6. reload'[r] = new /\ \A q \in Callers : q # r => reload'[q] = Fire[q]
  BY <1>1, <1>3
<1>7. \A q \in Callers : q # r =>
                 /\ reload'[q].at = IF reload[q].at = "queued" THEN "woken" ELSE reload[q].at
                 /\ reload'[q].target = reload[q].target /\ reload'[q].i = reload[q].i /\ reload'[q].n = reload[q].n
  BY <1>2, <1>6
<1>8. \A q \in Callers : q # r => reload[q].at \notin {"checked", "rotate", "start", "token"}
  BY <1>1, OnlyCaller
<1>9. \A q \in Callers : reload'[q].at \notin {"checked", "rotate", "start", "token"}
  BY <1>4, <1>6, <1>7, <1>8
<1>10. Past(reload') = Past(reload)
  BY <1>1, <1>4, <1>6, <1>7, SMT, SMTT(30) DEF Past
<1> QED BY <1>5, <1>6, <1>7, <1>9, <1>10

\* The end of a rotation keeps what is not about the tokens.
LEMMA EndKeeps ==
    ASSUME RotationInv, NEW r \in Callers,
           NEW new \in [at : {"reloaded", "returned"}, target : Nat, n : Nat, i : Nat], Ends(r, new),
           new.target <= task_channel,
           rotations_completed' \in Nat, rotations_completed' <= task_channel, aborted' \in Nat,
           tokens' \in [Channels -> Nat], \A k \in Channels : k >= task_channel => tokens'[k] = 0
    PROVE  TypeOK' /\ OneRotation' /\ Numbered' /\ Placed' /\ Leaving'
<1> USE DEF pool, channels
<1>0. TypeOK /\ OneRotation /\ Numbered /\ Placed /\ Leaving
  BY DEF RotationInv
<1>1. /\ reload[r].at = "token" /\ reload_in_progress' = FALSE /\ rotating' = None
      /\ UNCHANGED <<closed, boot_error, task_channel, ended, live_workers, worker, rotations_started>>
  BY DEF Ends
<1>2. /\ reload' \in [Callers -> [at : ReloadStates, target : Nat, n : Nat, i : Nat]]
      /\ reload'[r] = new
      /\ \A q \in Callers : q # r =>
            /\ reload'[q].at = IF reload[q].at = "queued" THEN "woken" ELSE reload[q].at
            /\ reload'[q].target = reload[q].target
      /\ \A q \in Callers : reload'[q].at \notin {"checked", "rotate", "start", "token"}
      /\ Past(reload') = Past(reload)
  BY EndedCallers, SMT, SMTT(30)
<1>3. TypeOK'
  BY <1>0, <1>1, <1>2, ZenonT(30) DEF TypeOK
<1>4. OneRotation'
  BY <1>0, <1>1, <1>2 DEF OneRotation
<1>5. rotations_started = task_channel /\ task_channel \in Nat
  BY <1>1, OnlyCaller, CompletedFirst
<1>6. Numbered'
  <2>1. ASSUME NEW q \in Callers
        PROVE  /\ reload'[q].target <= rotations_started + 1
               /\ reload'[q].at = "reloaded" => reload'[q].target <= task_channel
    <3>1. CASE q = r
      BY <1>2, <1>5, <3>1, SMT, SMTT(30)
    <3>2. CASE q # r
      BY <1>0, <1>2, <3>2 DEF Numbered
    <3> QED BY <3>1, <3>2
  <2>2. rotations_completed' + (IF reload_in_progress' THEN 1 ELSE 0) <= rotations_started'
    <3>1. rotations_completed' \in Nat /\ rotations_completed' <= rotations_started
      BY <1>5
    <3>2. ~reload_in_progress' /\ rotations_started' = rotations_started
      BY <1>1
    <3> QED BY <3>1, <3>2, SMT, SMTT(30)
  <2>3. rotations_started' = task_channel' + (IF \E q \in Callers : reload'[q].at = "rotate" THEN 1 ELSE 0)
    <3>1. ~\E q \in Callers : reload'[q].at = "rotate"
      BY <1>2
    <3> QED BY <1>1, <1>5, <3>1, SMT, SMTT(30)
  <2>4. \A q \in Callers : reload'[q].at \notin {"rotate", "start", "token"}
    BY <1>2
  <2> QED BY <1>1, <2>1, <2>2, <2>3, <2>4, ZenonT(30) DEF Numbered
<1>7. Placed'
  BY <1>0, <1>1, <1>2, ZenonT(30) DEF Placed
<1>8. Leaving'
  <2>1. \A w \in Workers : worker[w].channel # None
    BY <1>0, Numbers, SMT, SMTT(30) DEF TypeOK, Channels, None
  <2> QED BY <1>0, <1>1, <1>2, <2>1 DEF Leaving, Orderly
<1> QED BY <1>3, <1>4, <1>6, <1>7, <1>8

\* A token arrives, and the next worker is to be replaced.
LEMMA TokenArrives ==
    ASSUME RotationInv, NEW r \in Callers, gets_token(r), reload[r].i + 1 < reload[r].n
    PROVE  RotationInv'
<1> USE DEF pool, channels, threads
<1>0. TypeOK /\ OneRotation /\ Numbered /\ Placed /\ Leaving /\ Counted /\ Sized
  BY DEF RotationInv
<1> DEFINE new == [reload[r] EXCEPT !.at = "start", !.i = reload[r].i + 1]
<1>1. /\ reload[r].at = "token" /\ tokens[rotating] > 0 /\ tokens' = [tokens EXCEPT ![rotating] = @ - 1]
      /\ reload' = [reload EXCEPT ![r] = new]
      /\ UNCHANGED <<closed, boot_error, task_channel, ended, live_workers, worker>>
      /\ UNCHANGED <<reload_in_progress, rotations_completed, rotating, rotations_started, aborted>>
  <2>1. reload' = [reload EXCEPT ![r] = new]
    BY DEF gets_token
  <2> HIDE DEF new
  <2>2. UNCHANGED <<reload_in_progress, rotations_completed, rotating>>
    BY DEF gets_token
  <2> QED BY <2>1, <2>2 DEF gets_token
<1>2. /\ new \in [at : ReloadStates, target : Nat, n : Nat, i : Nat]
      /\ new.at = "start" /\ new.target = reload[r].target /\ new.n = reload[r].n /\ new.i = reload[r].i + 1
      /\ reload[r].n \in Nat /\ reload[r].i \in Nat
  <2>1. reload[r] \in [at : ReloadStates, target : Nat, n : Nat, i : Nat]
    BY <1>0 DEF TypeOK
  <2>2. reload[r].i + 1 \in Nat /\ "start" \in ReloadStates
    BY <2>1, SMT, SMTT(30) DEF ReloadStates
  <2> QED BY <2>1, <2>2
<1> HIDE DEF new
<1>3. reload'[r] = new /\ \A q \in Callers : q # r => reload'[q] = reload[q]
  BY <1>0, <1>1 DEF TypeOK
<1>4. /\ \A q \in Callers : q # r => reload[q].at \notin {"checked", "rotate", "start", "token"}
      /\ rotating \in Channels /\ task_channel = rotating + 1 /\ rotations_started = task_channel
      /\ reload_in_progress
  BY <1>1, OnlyCaller
<1>5. \A q \in Callers : /\ reload'[q].at \in {"checked", "rotate", "start", "token"} => q = r
                         /\ reload'[q].at # "start" => reload'[q] = reload[q]
  BY <1>2, <1>3, <1>4
<1>6. /\ task_channel \in Nat /\ rotating \in Nat /\ Channels \subseteq Nat
      /\ tokens[rotating] \in Nat /\ tokens[rotating] - 1 \in Nat
  <2>1. task_channel \in Nat /\ Channels \subseteq Nat /\ tokens[rotating] \in Nat
    <3>1. task_channel \in Nat
      BY CompletedFirst
    <3>2. Channels \subseteq Nat
      BY Numbers, SMT, SMTT(30) DEF Channels
    <3>3. tokens[rotating] \in Nat
      BY <1>0, <1>4 DEF TypeOK
    <3> QED BY <3>1, <3>2, <3>3
  <2> QED BY <1>1, <1>4, <2>1, SMT, SMTT(30)
<1>7. /\ tokens' \in [Channels -> Nat] /\ tokens'[rotating] = tokens[rotating] - 1
      /\ \A k \in Channels : k >= task_channel => tokens'[k] = 0
  <2>1. tokens' \in [Channels -> Nat] /\ tokens'[rotating] = tokens[rotating] - 1
    BY <1>0, <1>1, <1>4, <1>6 DEF TypeOK
  <2>2. \A k \in Channels : k # rotating => tokens'[k] = tokens[k]
    BY <1>0, <1>1 DEF TypeOK
  <2> QED BY <1>0, <1>4, <1>6, <2>1, <2>2, SMT, SMTT(30) DEF Placed
<1>8. TypeOK'
  BY <1>0, <1>1, <1>2, <1>7, ZenonT(30) DEF TypeOK
<1>9. OneRotation'
  <2>1. Past(reload') = Past(reload)
    BY <1>1, <1>2, <1>3 DEF Past
  <2>2. rotating # None
    BY <1>6, SMT, SMTT(30) DEF None
  <2> QED BY <1>0, <1>1, <1>2, <1>3, <1>4, <1>5, <2>1, <2>2, SMT, SMTT(30) DEF OneRotation
<1>10. Numbered'
  <2>1. ~\E q \in Callers : reload'[q].at = "rotate"
    BY <1>2, <1>3, <1>5
  <2>2. ~\E q \in Callers : reload[q].at = "rotate"
    BY <1>1, <1>4
  <2>3. ASSUME NEW q \in Callers
        PROVE  /\ reload'[q].target <= rotations_started + 1
               /\ reload'[q].at \in {"rotate", "start", "token"} => reload'[q].target <= rotations_started
               /\ reload'[q].at = "rotate" => reload'[q].i = 0
               /\ reload'[q].at \in {"rotate", "start", "token"} => reload'[q].i < reload'[q].n
               /\ reload'[q].at = "reloaded" => reload'[q].target <= task_channel
    <3>1. CASE q = r
      BY <1>0, <1>1, <1>2, <1>3, <3>1 DEF Numbered
    <3>2. CASE q # r
      BY <1>0, <1>3, <3>2 DEF Numbered
    <3> QED BY <3>1, <3>2, ZenonT(30)
  <2> QED BY <1>0, <1>1, <2>1, <2>2, <2>3 DEF Numbered
<1>11. Placed'
  <2>1. ASSUME NEW q \in Callers
        PROVE  /\ reload'[q].at = "start" => Cardinality(Out(worker, task_channel)) <= reload'[q].i
               /\ reload'[q].at # "token"
    <3>1. CASE q = r
      BY <1>0, <1>1, <1>2, <1>3, <3>1, ZenonT(30) DEF Placed
    <3>2. CASE q # r
      BY <1>3, <1>4, <3>2
    <3> QED BY <3>1, <3>2
  <2> QED BY <1>0, <1>1, <1>7, <2>1, ZenonT(30) DEF Placed
<1>12. Leaving'
  <2>1. \A q \in Callers : reload'[q].at \notin {"checked", "rotate"}
    BY <1>2, <1>3, <1>5
  <2> QED BY <1>0, <1>1, <2>1, ZenonT(30) DEF Leaving, Orderly
<1>13. Counted'
  <2>1. Orderly' = Orderly
    BY <1>1 DEF Orderly
  <2>2. ASSUME Orderly PROVE Expects(r, rotating)'
    <3>1. Expects(r, rotating)
      BY <1>0, <1>1, <2>2, ZenonT(30) DEF Counted
    <3>2. Cardinality(Out(worker, rotating)) \in Nat /\ Cardinality(Older(worker, rotating)) \in Nat
      BY Sizes
    <3> QED BY <1>1, <1>2, <1>3, <1>6, <1>7, <3>1, <3>2, SMT, SMTT(30) DEF Expects
  <2>3. ASSUME Orderly', NEW q \in Callers
        PROVE  /\ reload'[q].at = "rotate" => Expects(q, task_channel)'
               /\ reload'[q].at \in {"start", "token"} => Expects(q, rotating)'
    <3>1. reload'[q].at \in {"rotate", "start", "token"} => q = r /\ reload'[q].at = "start"
      BY <1>2, <1>3, <1>5
    <3> QED BY <2>1, <2>2, <2>3, <3>1, ZenonT(30)
  <2>4. \A q \in Callers : reload'[q].at = "reloaded" => reload'[q] = reload[q]
    BY <1>5
  <2> QED BY <1>0, <1>1, <2>1, <2>3, <2>4 DEF Counted
<1>14. Sized'
  BY <1>0, <1>1, <1>2, <1>3, <1>4, <1>5, SMT, SMTT(30) DEF Sized
<1> QED BY <1>8, <1>9, <1>10, <1>11, <1>12, <1>13, <1>14 DEF RotationInv

\* When the last token is there, nobody is left of the channels that were retired.
LEMMA LastToken ==
    ASSUME RotationInv, Orderly, NEW r \in Callers, reload[r].at = "token",
           tokens[rotating] > 0, ~(reload[r].i + 1 < reload[r].n)
    PROVE  /\ Out(worker, rotating) = {} /\ reload[r].n = reload[r].i + 1
           /\ \A w \in Live(worker) : worker[w].channel >= task_channel
<1>0. TypeOK /\ Counted /\ Numbered
  BY DEF RotationInv
<1>1. /\ reload[r].n \in Nat /\ reload[r].i \in Nat /\ reload[r].i < reload[r].n
  BY <1>0 DEF TypeOK, Numbered
<1>2. rotating \in Channels /\ task_channel = rotating + 1 /\ Channels \subseteq Nat
  BY OnlyCaller, Numbers, SMT, SMTT(30) DEF Channels
<1>3. /\ IsFiniteSet(Out(worker, rotating)) /\ Cardinality(Out(worker, rotating)) \in Nat
      /\ IsFiniteSet(Older(worker, rotating)) /\ Cardinality(Older(worker, rotating)) \in Nat
  BY Sizes
<1>4. tokens[rotating] \in Nat
  BY <1>0, <1>2 DEF TypeOK
<1>5. Cardinality(Out(worker, rotating)) + tokens[rotating] + Cardinality(Older(worker, rotating)) <= reload[r].n - reload[r].i
  BY <1>0 DEF Counted, Expects
<1>6. Cardinality(Out(worker, rotating)) = 0 /\ Cardinality(Older(worker, rotating)) = 0 /\ reload[r].n = reload[r].i + 1
  BY <1>1, <1>3, <1>4, <1>5, SMT, SMTT(30)
<1>7. Out(worker, rotating) = {} /\ Older(worker, rotating) = {}
  BY <1>3, <1>6, FS_EmptySet
<1>8. ASSUME NEW w \in Live(worker) PROVE worker[w].channel >= task_channel
  <2>1. w \in Workers /\ worker[w].at \in LiveStates
    BY DEF Live
  <2>2. worker[w].channel \in Nat /\ rotating \in Nat
    BY <1>0, <1>2, <2>1, ZenonT(30) DEF TypeOK
  <2>3. worker[w].channel # rotating /\ ~(worker[w].channel < rotating)
    BY <1>7, <2>1 DEF Out, Older, LiveStates
  <2> QED BY <1>2, <2>2, <2>3, SMT, SMTT(30)
<1> QED BY <1>6, <1>7, <1>8

\* What a caller whose rotation is over remembers.
LEMMA ServedCaller ==
    \A x : [Idle EXCEPT !.at = "reloaded", !.target = x] = [at |-> "reloaded", target |-> x, n |-> 0, i |-> 0]
<1> SUFFICES ASSUME NEW x
             PROVE  [Idle EXCEPT !.at = "reloaded", !.target = x] = [at |-> "reloaded", target |-> x, n |-> 0, i |-> 0]
  OBVIOUS
<1>1. [Idle EXCEPT !.at = "reloaded"] = [at |-> "reloaded", target |-> 0, n |-> 0, i |-> 0]
  BY SMT, SMTT(30) DEF Idle
<1>2. [[at |-> "reloaded", target |-> 0, n |-> 0, i |-> 0] EXCEPT !.target = x]
         = [at |-> "reloaded", target |-> x, n |-> 0, i |-> 0]
  BY SMT, SMTT(30)
<1> QED BY <1>1, <1>2

\* The last token arrives, and the rotation is over.
LEMMA RotationOver ==
    ASSUME RotationInv, NEW r \in Callers, gets_token(r), ~(reload[r].i + 1 < reload[r].n)
    PROVE  RotationInv'
<1> USE DEF pool, channels, threads
<1>0. TypeOK /\ OneRotation /\ Numbered /\ Placed /\ Counted /\ Sized
  BY DEF RotationInv
<1> DEFINE new == [Idle EXCEPT !.at = "reloaded", !.target = reload[r].target]
<1>1. /\ reload[r].at = "token" /\ tokens[rotating] > 0 /\ tokens' = [tokens EXCEPT ![rotating] = @ - 1]
      /\ reload' = [Fire EXCEPT ![r] = new]
      /\ reload_in_progress' = FALSE /\ rotations_completed' = rotations_completed + 1 /\ rotating' = None
      /\ UNCHANGED <<closed, boot_error, task_channel, queue, ended, live_workers, worker, rotations_started, aborted>>
  <2>1. reload' = [Fire EXCEPT ![r] = new]
    BY DEF gets_token
  <2> HIDE DEF new
  <2> QED BY <2>1 DEF gets_token
<1>2. new = [at |-> "reloaded", target |-> reload[r].target, n |-> 0, i |-> 0] /\ reload[r].target \in Nat
  <2>1. new = [at |-> "reloaded", target |-> reload[r].target, n |-> 0, i |-> 0]
    BY ServedCaller
  <2>2. reload[r].target \in Nat
    BY <1>0 DEF TypeOK
  <2> QED BY <2>1, <2>2
<1> HIDE DEF new
<1>3. /\ new \in [at : {"reloaded", "returned"}, target : Nat, n : Nat, i : Nat]
      /\ new.at = "reloaded" /\ new.target = reload[r].target
  BY <1>2
<1>4. Ends(r, new)
  BY <1>1, ZenonT(30) DEF Ends
<1>5. /\ rotating \in Channels /\ task_channel = rotating + 1 /\ rotations_started = task_channel /\ reload_in_progress
      /\ \A q \in Callers : q # r => reload[q].at \notin {"checked", "rotate", "start", "token"}
  BY <1>1, OnlyCaller, ZenonT(30)
<1>6. Channels \subseteq Nat /\ task_channel \in Nat /\ rotating \in Nat
  BY <1>5, CompletedFirst, Numbers, SMT, SMTT(30) DEF Channels
<1>7. /\ tokens' \in [Channels -> Nat] /\ \A k \in Channels : k >= task_channel => tokens'[k] = 0
  <2>1. tokens[rotating] - 1 \in Nat
    BY <1>0, <1>1, <1>5, SMT, SMTT(30) DEF TypeOK
  <2>2. tokens' \in [Channels -> Nat]
    BY <1>0, <1>1, <1>5, <2>1 DEF TypeOK
  <2>3. \A k \in Channels : k # rotating => tokens'[k] = tokens[k]
    BY <1>0, <1>1 DEF TypeOK
  <2> QED BY <1>0, <1>5, <1>6, <2>2, <2>3, SMT, SMTT(30) DEF Placed
<1>8. /\ rotations_completed' \in Nat /\ rotations_completed' <= task_channel
      /\ new.target <= task_channel /\ aborted' \in Nat
  <2>1. rotations_completed \in Nat /\ rotations_started \in Nat /\ rotations_completed + 1 <= rotations_started
    BY <1>0, <1>5 DEF TypeOK, Numbered
  <2>2. reload[r].target <= rotations_started /\ aborted \in Nat
    BY <1>0, <1>1 DEF TypeOK, Numbered
  <2> QED BY <1>1, <1>3, <1>5, <2>1, <2>2, SMT, SMTT(30)
<1>9. TypeOK' /\ OneRotation' /\ Numbered' /\ Placed' /\ Leaving'
  BY <1>3, <1>4, <1>7, <1>8, EndKeeps, ZenonT(30)
<1>10. /\ reload'[r] = new
       /\ \A q \in Callers : q # r =>
             /\ reload'[q].at = IF reload[q].at = "queued" THEN "woken" ELSE reload[q].at
             /\ reload'[q].target = reload[q].target
       /\ \A q \in Callers : reload'[q].at \notin {"checked", "rotate", "start", "token"}
  BY <1>3, <1>4, EndedCallers
<1>11. Orderly' = Orderly
  BY <1>1 DEF Orderly
<1>12. Orderly => /\ Out(worker, rotating) = {} /\ reload[r].n = reload[r].i + 1
                  /\ \A w \in Live(worker) : worker[w].channel >= task_channel
  BY <1>1, LastToken
<1>13. Counted'
  <2>1. ASSUME Orderly', aborted' = 0, NEW w \in Workers, worker'[w].at \notin {"none", "gone"}
        PROVE  worker'[w].channel \in {task_channel', rotating'}
    BY <1>0, <1>1, <1>11, <1>12, <2>1, ZenonT(30) DEF Counted, Out
  <2>2. ASSUME Orderly', NEW w \in Live(worker')
        PROVE  /\ worker'[w].channel >= rotations_completed'
               /\ \A q \in Callers : reload'[q].at = "reloaded" => worker'[w].channel >= reload'[q].target
    <3>1. worker[w].channel \in Nat /\ worker[w].channel >= task_channel
      BY <1>0, <1>1, <1>6, <1>11, <1>12, <2>2, ZenonT(30) DEF TypeOK, Live
    <3>2. ASSUME NEW q \in Callers, reload'[q].at = "reloaded"
          PROVE  reload'[q].target \in Nat /\ reload'[q].target <= task_channel
      BY <1>1, <1>9, <3>2 DEF TypeOK, Numbered
    <3> QED BY <1>1, <1>6, <1>8, <3>1, <3>2, SMT, SMTT(30)
  <2> QED BY <1>10, <2>1, <2>2, ZenonT(30) DEF Counted
<1>14. Sized'
  <2>1. ASSUME aborted = 0, ~closed PROVE live_workers <= worker_count
    <3>1. /\ live_workers <= Cardinality(Out(worker, rotating)) + Cardinality(Out(worker, task_channel))
          /\ reload[r].n <= worker_count
      BY <1>1, <2>1, LiveDuring
    <3>2. Orderly
      BY <2>1 DEF Orderly
    <3>3. Cardinality(Out(worker, rotating)) = 0 /\ reload[r].n = reload[r].i + 1
      BY <1>12, <3>2, FS_EmptySet, ZenonT(30)
    <3>4. Cardinality(Out(worker, task_channel)) <= reload[r].i + 1 /\ Cardinality(Out(worker, task_channel)) \in Nat
      BY <1>0, <1>1, Sizes DEF Placed
    <3>5. live_workers \in Nat /\ worker_count \in Nat /\ reload[r].n \in Nat /\ reload[r].i \in Nat
      BY <1>0, Numbers DEF TypeOK
    <3> QED BY <3>1, <3>3, <3>4, <3>5, SMT, SMTT(30)
  <2> QED BY <1>0, <1>1, <1>10, <2>1 DEF Sized
<1> QED BY <1>9, <1>13, <1>14 DEF RotationInv

\* A caller is cancelled.
LEMMA CancelStep ==
    ASSUME RotationInv, NEW r \in Callers, reload_cancelled(r)
    PROVE  RotationInv'
<1> USE DEF pool, channels, threads
<1>0. TypeOK /\ OneRotation /\ Numbered /\ Placed /\ Counted /\ Sized
  BY DEF RotationInv
<1> DEFINE new == [Idle EXCEPT !.at = "returned"]
<1>1. new = [at |-> "returned", target |-> 0, n |-> 0, i |-> 0]
  BY SMT, SMTT(30) DEF Idle
<1> HIDE DEF new
<1>2. /\ task_channel \in Nat /\ rotations_completed \in Nat /\ rotations_completed <= task_channel
      /\ rotations_started \in Nat /\ aborted \in Nat
  BY <1>0, CompletedFirst DEF TypeOK
<1>3. /\ new \in [at : {"queued", "checked", "reloaded", "returned"}, target : Nat, n : Nat, i : Nat]
      /\ new \in [at : {"reloaded", "returned"}, target : Nat, n : Nat, i : Nat]
      /\ new.at = "returned" /\ new.target <= rotations_started + 1 /\ new.target <= task_channel
  BY <1>1, <1>2, SMT, SMTT(30)
<1>4. UNCHANGED <<closed, boot_error, task_channel, queue, ended, live_workers, worker, rotations_started, rotations_completed, tokens>>
  BY DEF reload_cancelled
<1>5. CASE reload[r].at \in {"queued", "woken"}
  <2>1. reload' = [reload EXCEPT ![r] = new] /\ UNCHANGED <<reload_in_progress, rotating, aborted>>
    BY <1>5 DEF reload_cancelled, Goes, new
  <2> QED BY <1>3, <1>4, <1>5, <2>1, QuietCaller
<1>6. CASE reload[r].at = "token"
  <2>1. /\ reload' = [Fire EXCEPT ![r] = new] /\ reload_in_progress' = FALSE /\ rotating' = None
        /\ aborted' = aborted + 1
    BY <1>6 DEF reload_cancelled, new
  <2>2. Ends(r, new)
    BY <1>4, <1>6, <2>1 DEF Ends
  <2>3. tokens' \in [Channels -> Nat] /\ \A k \in Channels : k >= task_channel => tokens'[k] = 0
    BY <1>0, <1>4 DEF TypeOK, Placed
  <2>4. aborted' \in Nat /\ aborted' # 0
    BY <1>2, <2>1, SMT, SMTT(30)
  <2>5. TypeOK' /\ OneRotation' /\ Numbered' /\ Placed' /\ Leaving'
    BY <1>2, <1>3, <1>4, <2>2, <2>3, <2>4, EndKeeps
  <2>6. /\ reload'[r] = new
        /\ \A q \in Callers : q # r =>
              /\ reload'[q].at = IF reload[q].at = "queued" THEN "woken" ELSE reload[q].at
              /\ reload'[q].target = reload[q].target
        /\ \A q \in Callers : reload'[q].at \notin {"checked", "rotate", "start", "token"}
    BY <1>3, <2>2, EndedCallers
  <2>7. \A q \in Callers : reload'[q].at = "reloaded" => reload[q].at = "reloaded" /\ reload'[q].target = reload[q].target
    BY <1>3, <2>6
  <2>8. Counted'
    BY <1>0, <1>4, <2>4, <2>6, <2>7, ZenonT(30) DEF Counted, Orderly
  <2>9. Sized'
    BY <2>4 DEF Sized
  <2> QED BY <2>5, <2>8, <2>9 DEF RotationInv
<1> QED BY <1>5, <1>6 DEF reload_cancelled

-----------------------------------------------------------------------
(* The invariant.                                                         *)

\* The pool starts with its workers and without a rotation.
LEMMA InitInv == Init => RotationInv
<1> SUFFICES ASSUME Init PROVE RotationInv
  OBVIOUS
<1>1. /\ worker_count \in Nat /\ worker_count \in Workers /\ Workers = 1..Cardinality(Workers) /\ Cardinality(Workers) \in Nat
      /\ Channels \subseteq Nat /\ 0 \in Channels
  BY Numbers, ThreadPoolAssumption, SMT, SMTT(30) DEF Channels
<1>2. /\ ~closed /\ ~boot_error /\ task_channel = 0 /\ ended = [c \in Channels |-> FALSE] /\ live_workers = worker_count
      /\ ~reload_in_progress /\ rotations_started = 0 /\ rotations_completed = 0 /\ aborted = 0
      /\ rotating = None /\ tokens = [c \in Channels |-> 0] /\ reload = [r \in Callers |-> Idle]
      /\ worker = [w \in Workers |-> IF w <= worker_count THEN New(w, 0) ELSE [Gone EXCEPT !.at = "none"]]
      /\ closed = FALSE /\ boot_error = FALSE /\ reload_in_progress = FALSE
  BY DEF Init
<1>3. ASSUME NEW w \in Workers
      PROVE  /\ worker[w] \in [at : WorkerStates, channel : Channels, notify : Channels \cup {None}]
             /\ worker[w].channel = 0
             /\ worker[w].at \in {"none", "boot", "loop"} /\ (worker[w].at # "none" <=> w <= worker_count)
  <2>1. CASE w <= worker_count
    <3> DEFINE l == IF w \in BootFails THEN "boot" ELSE "loop"
    <3>1. worker[w] = [at |-> l, channel |-> 0, notify |-> None]
      BY <1>2, <2>1 DEF New
    <3>2. l \in {"boot", "loop"}
      OBVIOUS
    <3> HIDE DEF l
    <3> QED BY <1>1, <2>1, <3>1, <3>2, SMT, SMTT(30) DEF WorkerStates, LiveStates
  <2>2. CASE ~(w <= worker_count)
    <3>1. [Gone EXCEPT !.at = "none"] = [at |-> "none", channel |-> 0, notify |-> None]
      BY SMT, SMTT(30) DEF Gone
    <3>2. worker[w] = [at |-> "none", channel |-> 0, notify |-> None]
      BY <1>2, <2>2, <3>1
    <3> QED BY <1>1, <2>2, <3>2, SMT, SMTT(30) DEF WorkerStates
  <2> QED BY <2>1, <2>2
<1>4. /\ \A r \in Callers : reload[r].at = "idle" /\ reload[r].target = 0
      /\ reload \in [Callers -> [at : ReloadStates, target : Nat, n : Nat, i : Nat]]
  <2>1. Idle \in [at : ReloadStates, target : Nat, n : Nat, i : Nat] /\ Idle.at = "idle" /\ Idle.target = 0
    BY DEF Idle, ReloadStates
  <2> QED BY <1>2, <2>1
<1>5. TypeOK
  <2>1. worker \in [Workers -> [at : WorkerStates, channel : Channels, notify : Channels \cup {None}]]
    <3>1. worker = [w \in Workers |-> worker[w]]
      BY <1>2
    <3> QED BY <1>3, <3>1
  <2>2. tokens \in [Channels -> Nat] /\ ended \in [Channels -> BOOLEAN]
    BY <1>2
  <2> QED BY <1>1, <1>2, <1>4, <2>1, <2>2, ZenonT(30) DEF TypeOK
<1>6. Live(worker) = 1..worker_count /\ Begun(worker) = 1..worker_count
  <2>1. \A w \in Workers : w \in 1..worker_count <=> w <= worker_count
    BY <1>1, SMT, SMTT(30)
  <2>2. 1..worker_count \subseteq Workers
    BY <1>1, SMT, SMTT(30)
  <2> QED BY <1>3, <2>1, <2>2 DEF Live, Begun, LiveStates
<1>7. Cardinality(1..worker_count) = worker_count
  <2>1. 1 \in Int /\ worker_count \in Int
    BY <1>1, SMT, SMTT(30)
  <2>2. Cardinality(1..worker_count) = IF 1 > worker_count THEN 0 ELSE worker_count - 1 + 1
    BY <2>1, FS_Interval
  <2> QED BY <1>1, <2>2, SMT, SMTT(30)
<1>8. Placed
  <2>1. Begun(worker) = 1..Cardinality(Begun(worker)) /\ live_workers = Cardinality(Live(worker))
    BY <1>2, <1>6, <1>7
  <2>2. \A w \in Workers : worker[w].channel <= task_channel /\ worker[w].at \notin {"compare", "send"}
    BY <1>2, <1>3, SMT, SMTT(30)
  <2>3. \A k \in Channels : tokens[k] = 0
    BY <1>2
  <2>4. \A r \in Callers : reload[r].at \notin {"start", "token"}
    BY <1>4
  <2> QED BY <2>1, <2>2, <2>3, <2>4 DEF Placed
<1>9. OneRotation
  <2>1. Cardinality(Past(reload)) \in Nat
    BY PastSize
  <2> QED BY <1>2, <1>4, <2>1, SMT, SMTT(30) DEF OneRotation
<1>10. Numbered
  BY <1>2, <1>4, SMT, SMTT(30) DEF Numbered
<1>11. Leaving
  BY <1>1, <1>2, <1>3, <1>4 DEF Leaving
<1>12. Counted
  BY <1>1, <1>2, <1>3, <1>4, SMT, SMTT(30) DEF Counted, Live
<1>13. Sized
  BY <1>1, <1>2, <1>4, SMT, SMTT(30) DEF Sized
<1> QED BY <1>5, <1>8, <1>9, <1>10, <1>11, <1>12, <1>13 DEF RotationInv

\* Every step keeps the invariant.
LEMMA NextInv == RotationInv /\ [Next]_vars => RotationInv'
<1> SUFFICES ASSUME RotationInv, [Next]_vars PROVE RotationInv'
  OBVIOUS
<1>1. CASE UNCHANGED vars
  BY <1>1, Untouched DEF vars, channels, threads
<1>2. ASSUME NEW t \in Tasks, submit(t) \/ submit_resumes(t) PROVE RotationInv'
  BY <1>2, SubmitSteps
<1>3. CASE close \/ cancel
  BY <1>3, CloseSteps
<1>4. ASSUME NEW w \in Workers, WorkerStep(w) PROVE RotationInv'
  BY <1>4, WorkerSteps
<1>5. ASSUME NEW r \in Callers, calls_reload(r) \/ ReloadStep(r) \/ reload_cancelled(r) PROVE RotationInv'
  <2>1. gets_token(r) => RotationInv'
    BY TokenArrives, RotationOver
  <2> QED BY <1>5, <2>1, WaitingSteps, CountsStep, RotatesStep, StartsStep, CancelStep DEF ReloadStep
<1> QED BY <1>1, <1>2, <1>3, <1>4, <1>5 DEF Next

\* The invariant says that a rotation is exact.
LEMMA InvIsExact == RotationInv => RotationIsExact
<1> SUFFICES ASSUME RotationInv PROVE RotationIsExact
  OBVIOUS
<1>0. TypeOK /\ OneRotation /\ Placed /\ Counted /\ Sized
  BY DEF RotationInv
<1>1. {w \in Workers : Alive(w)} = Live(worker)
  BY DEF Alive, Live, LiveStates
<1>2. live_workers = Cardinality({w \in Workers : Alive(w)})
  BY <1>0, <1>1, ZenonT(30) DEF Placed
<1>3. TokensAreExpected
  <2> SUFFICES ASSUME aborted = 0, ~boot_error, NEW r \in Callers, reload[r].at \in {"start", "token"}
               PROVE  Cardinality(Out(worker, rotating)) + tokens[rotating] = reload[r].n - reload[r].i
    BY ZenonT(30) DEF TokensAreExpected, Out
  <2> QED BY <1>0, ZenonT(30) DEF Counted, Expects, Orderly
<1>4. ReloadIsFresh
  <2> SUFFICES ASSUME ~boot_error, NEW r \in Callers, reload[r].at = "reloaded", NEW w \in Workers, Alive(w)
               PROVE  worker[w].channel >= reload[r].target
    BY ZenonT(30) DEF ReloadIsFresh
  <2>1. w \in Live(worker)
    BY <1>1
  <2> QED BY <1>0, <2>1 DEF Counted, Orderly
<1>5. NoSpike
  BY <1>0 DEF Sized, NoSpike
<1> QED BY <1>2, <1>3, <1>4, <1>5 DEF RotationIsExact

\* A rotation is exact, for every number of workers, tasks and reload() calls, every
\* queue size and mode, whichever callers are cancelled and whichever bootloaders fail.
THEOREM RotationsAreExact == Spec => []RotationIsExact
<1>1. Spec => []RotationInv
  BY InitInv, NextInv, PTL DEF Spec
<1> QED BY <1>1, InvIsExact, PTL
=======================================================================
