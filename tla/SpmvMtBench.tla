---------------------------- MODULE SpmvMtBench -----------------------------
(***************************************************************************)
(* bench_mt_loop (lib/spm/spmv_loops_mt.c): thread 0 runs                  *)
(* do_spmv_thread_main_swap, the others do_spmv_thread; the calling        *)
(* program only creates them, joins them and destroys the vectors.         *)
(***************************************************************************)
EXTENDS SpmvMtThread

CONSTANT Swapper   \* thread 0

ASSUME SwapperAssumption == Swapper \in Threads

VARIABLES
  created,   \* threads the caller has created
  joined,    \* threads the caller has joined
  freed      \* the caller has destroyed x, y and the barrier

vars == <<x, y, mem, pc, iter, frame, round, blocked, created, joined, freed>>
callerVars == <<created, joined, freed>>

\* Faulty variants: a party too many, a party too few.
Parties_WithCaller == Cardinality(Threads) + 1
Parties_WithoutSwapper == Cardinality(Threads) - 1

\* pthread_barrier_init(&barrier, NULL, spm_mt->nr_threads)
Parties == Cardinality(Threads)

Init ==
  /\ VectorsInit
  /\ pc = [t \in Threads |-> IF t = Swapper THEN "init" ELSE "loop"]
  /\ created = {} /\ joined = {} /\ freed = FALSE

(* The caller.  The order among the threads 1 .. n-1 is immaterial. *)
Create(t) ==
  /\ t \notin created
  /\ t = Swapper \/ Swapper \in created
  /\ created' = created \cup {t}
  /\ UNCHANGED <<workerVars, joined, freed>>

Join(t) ==
  /\ created = Threads
  /\ t \notin joined /\ pc[t] = "exit"
  /\ joined' = joined \cup {t}
  /\ UNCHANGED <<workerVars, created, freed>>

Destroy ==
  /\ joined = Threads /\ ~freed
  /\ freed' = TRUE
  /\ UNCHANGED <<workerVars, created, joined>>

Caller == Destroy \/ \E t \in Threads : Create(t) \/ Join(t)

(* Thread 0: initialises x before its loop, swaps at the end of each pass. *)
InitX ==
  /\ pc[Swapper] = "init"
  /\ mem' = [mem EXCEPT ![x] = [p \in Threads |-> 0]]
  /\ pc' = [pc EXCEPT ![Swapper] = "loop"]
  /\ UNCHANGED <<x, y, iter, frame, round, blocked, callerVars>>

\* Faulty variant: the pointers keep their values.
Swap_Nothing ==
  /\ pc[Swapper] = "next" /\ Awake(Swapper)
  /\ iter' = [iter EXCEPT ![Swapper] = @ + 1]
  /\ pc' = [pc EXCEPT ![Swapper] = "loop"]
  /\ UNCHANGED <<x, y, mem, frame, round, blocked, callerVars>>

Swap ==
  /\ pc[Swapper] = "next" /\ Awake(Swapper)
  /\ x' = y /\ y' = x
  /\ iter' = [iter EXCEPT ![Swapper] = @ + 1]
  /\ pc' = [pc EXCEPT ![Swapper] = "loop"]
  /\ UNCHANGED <<mem, frame, round, blocked, callerVars>>

Worker(t) ==
  /\ t \in created
  /\ \/ Iteration(t, Parties)
     \/ t # Swapper /\ NextIteration(t)
  /\ UNCHANGED callerVars

SwapThread == Swapper \in created /\ (InitX \/ Swap)

Finished == freed /\ UNCHANGED vars

Next == Caller \/ SwapThread \/ (\E t \in Threads : Worker(t)) \/ Finished

Spec == Init /\ [][Next]_vars

\* Every created thread is a kernel-scheduled pthread: none is starved.
Fairness ==
  /\ WF_vars(Caller) /\ WF_vars(SwapThread)
  /\ \A t \in Threads : WF_vars(Worker(t))
FairSpec == Spec /\ Fairness

-----------------------------------------------------------------------------
\* Types of the workers' and the caller's state in bench_mt_loop.
TypeOK ==
  /\ WorkerTypeOK /\ blocked \subseteq Threads
  /\ created \subseteq Threads /\ joined \subseteq Threads /\ freed \in BOOLEAN

InKernel(t) == pc[t] = "kernel"
SwapReady == pc[Swapper] = "next" /\ Awake(Swapper)
ReadsPointers(t) == pc[t] = "call" /\ Awake(t)

\* No data race: while a kernel runs, or is about to read the pointers, thread
\* 0 neither swaps the pointers nor fills x, and no kernel writes the buffer
\* another one gathers from.
RaceFree ==
  \A t \in Threads :
    InKernel(t) \/ ReadsPointers(t) =>
      /\ ~SwapReady /\ pc[Swapper] # "init" /\ ~freed
      /\ \A u \in Threads : InKernel(t) /\ InKernel(u) => frame[t].x # frame[u].y

\* Everything a kernel gathers in pass i belongs to iterate i: no element is
\* stale, half written or one pass ahead.
GathersOneIterate ==
  \A t \in Threads : InKernel(t) => frame[t].seen \subseteq {iter[t]}

\* When all threads have returned, x holds the product applied NLoops times.
ResultIsPower ==
  (\A t \in Threads : pc[t] = "exit") => \A p \in Threads : mem[x][p] = NLoops

\* The loop refines the one-vector iteration: its vector is what x points to.
Uniform(b) == \E v \in {mem[b][p] : p \in Threads} : \A p \in Threads : mem[b][p] = v
Abstract == INSTANCE PowerIteration WITH
  N <- NLoops,
  iterate <- IF Uniform(x) THEN mem[x][Swapper] ELSE Torn
ImplementsPowerIteration == Abstract!Spec

\* Every thread returns and is joined: no thread waits for ever at a barrier.
Termination == <>freed
=============================================================================
