---------------------------- MODULE SpmvMtThread ----------------------------
(***************************************************************************)
(* The worker thread of the multithreaded SpMV loops                       *)
(* (lib/spm/spmv_loops_mt.c, do_spmv_thread): between two barriers it      *)
(* calls the kernel on the vectors that the globals x and y point to.      *)
(*                                                                         *)
(* A vector is split in one part per thread: the rows that thread owns in  *)
(* y.  Of a part the model keeps which iterate it holds: iterate k is the  *)
(* k-th product applied to the initial vector, Torn is anything else       *)
(* (uninitialised, half written, or computed from a mix of iterates).      *)
(***************************************************************************)
EXTENDS Integers, FiniteSets, PthreadBarrier

CONSTANTS
  Threads,   \* the worker threads (spm_mt->spm_threads)
  NLoops     \* loops_nr

ASSUME ThreadsAssumption == IsFiniteSet(Threads) /\ Threads # {}
ASSUME NLoopsAssumption == NLoops \in Nat

VARIABLES
  x, y,      \* the static pointers: each names a buffer
  mem,       \* mem[b][p]: the iterate that part p of buffer b holds
  pc,        \* control point of each worker
  iter,      \* loop counter of each worker (its local i)
  frame      \* kernel activation of each worker: its arguments, the parts of
             \* x still to be read, the iterates read so far

workerVars == <<x, y, mem, pc, iter, frame, round, blocked>>

Buffers == {"bx", "by"}
Torn == -1
Iterates == Nat \cup {Torn}
Idle == [x |-> "bx", y |-> "by", todo |-> {}, seen |-> {}]

\* The product of a vector whose parts hold these iterates.
Product(seen) ==
  IF \E v \in seen \ {Torn} : seen = {v}
    THEN (CHOOSE v \in seen : TRUE) + 1 ELSE Torn

\* Faulty variant: the loop counters are left uninitialised.
VectorsInit_NoCounter ==
  /\ x = "bx" /\ y = "by"
  /\ mem = [b \in Buffers |-> [p \in Threads |-> Torn]]
  /\ iter = [t \in Threads |-> -1]
  /\ frame = [t \in Threads |-> Idle]
  /\ BarrierInit

\* bench_mt_loop and check_mt_loop create both vectors without initialising
\* them.
VectorsInit ==
  /\ x = "bx" /\ y = "by"
  /\ mem = [b \in Buffers |-> [p \in Threads |-> Torn]]
  /\ iter = [t \in Threads |-> 0]
  /\ frame = [t \in Threads |-> Idle]
  /\ BarrierInit

(***************************************************************************)
(* for (i = 0; i < loops_nr; i++) { wait; spmv(spm, x, y); wait; }         *)
(***************************************************************************)
LoopExit(t) ==
  /\ pc[t] = "loop" /\ iter[t] >= NLoops
  /\ pc' = [pc EXCEPT ![t] = "exit"]
  /\ UNCHANGED <<x, y, mem, iter, frame, round, blocked>>

\* Faulty variant: the first barrier of a pass is missing.
LoopEnter_NoBarrier(t, count) ==
  /\ pc[t] = "loop" /\ iter[t] < NLoops
  /\ pc' = [pc EXCEPT ![t] = "call"]
  /\ UNCHANGED <<x, y, mem, iter, frame, round, blocked>>

LoopEnter(t, count) ==
  /\ pc[t] = "loop" /\ iter[t] < NLoops
  /\ BarrierWait(t, count)
  /\ pc' = [pc EXCEPT ![t] = "call"]
  /\ UNCHANGED <<x, y, mem, iter, frame>>

\* The pointers are read when the call is made; the kernel starts by zeroing
\* the rows of y it owns.
CallKernel(t) ==
  /\ pc[t] = "call" /\ Awake(t)
  /\ frame' = [frame EXCEPT ![t] = [x |-> x, y |-> y, todo |-> Threads, seen |-> {}]]
  /\ mem' = [mem EXCEPT ![y][t] = Torn]
  /\ pc' = [pc EXCEPT ![t] = "kernel"]
  /\ UNCHANGED <<x, y, iter, round, blocked>>

\* The kernel gathers from any part of x, its own rows and others'.
ReadPart(t, p) ==
  /\ pc[t] = "kernel" /\ p \in frame[t].todo
  /\ frame' = [frame EXCEPT ![t].todo = frame[t].todo \ {p},
                            ![t].seen = frame[t].seen \cup {mem[frame[t].x][p]}]
  /\ UNCHANGED <<x, y, mem, pc, iter, round, blocked>>

KernelReturn(t) ==
  /\ pc[t] = "kernel" /\ frame[t].todo = {}
  /\ mem' = [mem EXCEPT ![frame[t].y][t] = Product(frame[t].seen)]
  /\ frame' = [frame EXCEPT ![t] = Idle]
  /\ pc' = [pc EXCEPT ![t] = "wait"]
  /\ UNCHANGED <<x, y, iter, round, blocked>>

\* Faulty variant: the second barrier of a pass is missing.
SecondWait_NoBarrier(t, count) ==
  /\ pc[t] = "wait"
  /\ pc' = [pc EXCEPT ![t] = "next"]
  /\ UNCHANGED <<x, y, mem, iter, frame, round, blocked>>

SecondWait(t, count) ==
  /\ pc[t] = "wait"
  /\ BarrierWait(t, count)
  /\ pc' = [pc EXCEPT ![t] = "next"]
  /\ UNCHANGED <<x, y, mem, iter, frame>>

\* The part of the iteration every kind of thread shares.
Iteration(t, count) ==
  \/ LoopExit(t)
  \/ LoopEnter(t, count)
  \/ CallKernel(t)
  \/ \E p \in Threads : ReadPart(t, p)
  \/ KernelReturn(t)
  \/ SecondWait(t, count)

\* do_spmv_thread goes straight to the next iteration.
NextIteration(t) ==
  /\ pc[t] = "next" /\ Awake(t)
  /\ iter' = [iter EXCEPT ![t] = @ + 1]
  /\ pc' = [pc EXCEPT ![t] = "loop"]
  /\ UNCHANGED <<x, y, mem, frame, round, blocked>>

\* Types of the state the threads of both loops share.
WorkerTypeOK ==
  /\ x \in Buffers /\ y \in Buffers
  /\ mem \in [Buffers -> [Threads -> Iterates]]
  /\ pc \in [Threads -> {"init", "loop", "call", "kernel", "wait", "next", "exit"}]
  /\ iter \in [Threads -> Nat]
  /\ frame \in [Threads -> [x : Buffers, y : Buffers, todo : SUBSET Threads,
                            seen : SUBSET Iterates]]
  /\ round \in Nat
=============================================================================
