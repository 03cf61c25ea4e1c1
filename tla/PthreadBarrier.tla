--------------------------- MODULE PthreadBarrier ---------------------------
(***************************************************************************)
(* The POSIX barrier that every multithreaded loop of the repository       *)
(* synchronises with (pthread_barrier_init / pthread_barrier_wait).  It is *)
(* the library's, not the repository's: it is modelled from how the loops  *)
(* use it.  A thread that arrives blocks until `count' threads have        *)
(* arrived; the last arrival releases them all and opens the next round.   *)
(* Released threads resume in any order, so a fast thread may arrive at    *)
(* the next round before a slow one has left this one.                     *)
(***************************************************************************)
EXTENDS Naturals, FiniteSets

VARIABLES
  round,    \* completed rounds of the barrier
  blocked   \* threads that sleep inside pthread_barrier_wait

BarrierInit == round = 0 /\ blocked = {}

\* The thread is not asleep in pthread_barrier_wait: it may execute.
Awake(t) == t \notin blocked

\* The thread calls pthread_barrier_wait on a barrier initialised for `count'.
BarrierWait(t, count) ==
  /\ Awake(t)
  /\ IF Cardinality(blocked) + 1 = count
       THEN blocked' = {} /\ round' = round + 1
       ELSE blocked' = blocked \cup {t} /\ round' = round
=============================================================================
