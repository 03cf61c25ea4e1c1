----------------------------- MODULE SpmvSymMt ------------------------------
(***************************************************************************)
(* The multithreaded loops for symmetric matrices, with the reduction map  *)
(* that MakeMap (csx/spmv.cc) builds.  Only the lower triangle is stored,  *)
(* so the kernel of a thread also adds to rows of y above its own; it does *)
(* so in a private vector temp[t], and a second phase adds those to y.     *)
(*   bench       bench_sym_mt_loop: thread 0 fills x once and swaps the    *)
(*               vectors after each pass (lib/spm/spmv_loops_sym_mt.c);    *)
(*   check       check_sym_mt_loop: the calling thread fills x before each *)
(*               pass and compares y with a serial product after it;       *)
(*   bench_numa, check_numa  the same with an x that is filled once and    *)
(*               never swapped (lib/spm/spmv_loops_sym_mt_numa.c).         *)
(*                                                                         *)
(* An element of a vector is the set of threads whose contribution it      *)
(* holds, and the iterate those were computed for.  Rows and threads are   *)
(* numbered from 0.                                                        *)
(***************************************************************************)
EXTENDS ReductionMap, PthreadBarrier

CONSTANTS
  Partitions,  \* the considered first rows of the threads' parts, sequences
  NLoops       \* nloops

\* The parts follow each other from the first row on; one may be empty.
ASSUME PartitionsAssumption ==
  \A starts \in Partitions :
    /\ starts \in Seq(Nat) /\ starts # <<>>
    /\ starts[1] = 0 /\ \A i \in DOMAIN starts : starts[i] < NRows
    /\ \A i, j \in DOMAIN starts : i < j => starts[i] <= starts[j]
ASSUME NLoopsAssumption == NLoops \in Nat

VARIABLES
  loop,     \* which of the four loops
  starts,   \* row_start of each thread, starts[t + 1]
  above,    \* above[t]: the rows before its own that thread t's elements reach
  map,      \* map[t]: the <<cpu, pos>> entries thread t clears and reduces
  x, y,     \* static pointers to buffers
  mem,      \* mem[b][r]: element r of buffer b
  temp,     \* temp[t][r] for t > 0 (temp[0] is never reduced)
  pc, iter, \* control point and loop counter of each thread
  todo,     \* map entries (indices) left to clear or to reduce
  args,     \* the buffers the running kernel was called with
  mpc, pass \* control point and loop counter of the calling thread

matrix == <<loop, starts, above, map>>
caller == <<mpc, pass>>
barrier == <<round, blocked>>
vars == <<matrix, x, y, mem, temp, pc, iter, todo, args, caller, barrier>>

Threads == 0..(Len(starts) - 1)
Main == -1
Checks == loop \in {"check", "check_numa"}
Numa == loop \in {"bench_numa", "check_numa"}

Own(t) == starts[t + 1]..(IF t = Len(starts) - 1 THEN NRows ELSE starts[t + 2]) - 1
Owner(r) == CHOOSE t \in Threads : r \in Own(t)

Garbage == [of |-> -1, from |-> {}]
Zero == [of |-> 0, from |-> {}]

\* An element of iterate k, that no thread contributed to, or all that should.
Filled(k) == [of |-> k, from |-> {}]
Contributors(r) == {Owner(r)} \cup {t \in Threads : r \in above[t]}
Complete(k, r) == [of |-> k, from |-> Contributors(r)]

\* Pass i multiplies iterate i of x, or the only one.
Input(i, r) ==
  IF loop = "bench" /\ i > 0 THEN Complete(i, r) ELSE Filled(IF Numa THEN 0 ELSE i)
Output(i, r) == Complete(IF Numa THEN 1 ELSE i + 1, r)

Plus(a, b) ==
  IF b = Zero THEN a
  ELSE IF a.of = b.of /\ a.from \cap b.from = {} THEN [a EXCEPT !.from = @ \cup b.from]
  ELSE Garbage

-----------------------------------------------------------------------------
\* Thread 0 owns the first rows and reaches none above; any other may reach
\* each of the rows before its own.  The NUMA loops fill x and clear y first, and
\* the elements of temp from 1 on.
Init ==
  /\ loop \in {"bench", "check", "bench_numa", "check_numa"}
  /\ starts \in Partitions
  /\ above \in [Threads -> SUBSET Rows]
  /\ \A t \in Threads : \A r \in above[t] : r < starts[t + 1]
  /\ map = MakeMap(above, Len(starts))
  /\ x = "bx" /\ y = "by"
  /\ mem = [b \in {"bx", "by"} |-> [r \in Rows |-> IF Numa THEN Zero ELSE Garbage]]
  /\ temp = [t \in Threads |-> [r \in Rows |-> IF Numa /\ r > 0 THEN Zero ELSE Garbage]]
  /\ pc = [t \in Threads |-> IF t = 0 /\ loop = "bench" THEN "init" ELSE "loop"]
  /\ iter = [t \in Threads |-> 0]
  /\ todo = [t \in Threads |-> {}]
  /\ args = [t \in Threads |-> <<"bx", "by">>]
  /\ mpc = (IF Checks THEN "loop" ELSE "join") /\ pass = 0
  /\ BarrierInit

\* Faulty variant: the calling thread is counted in the benchmarks too.
Parties_WithCaller == Len(starts) + 1

\* pthread_barrier_init(&barrier, NULL, ncpus) or (.., ncpus + 1)
Parties == Len(starts) + (IF Checks THEN 1 ELSE 0)

(* Thread 0 fills x before its first pass.                                 *)
InitX ==
  /\ pc[0] = "init"
  /\ mem' = [mem EXCEPT ![x] = [r \in Rows |-> Filled(0)]]
  /\ pc' = [pc EXCEPT ![0] = "loop"]
  /\ UNCHANGED <<matrix, x, y, temp, iter, todo, args, caller, barrier>>

LoopStart(t) ==
  /\ pc[t] = "loop"
  /\ IF iter[t] < NLoops
       THEN /\ pc' = [pc EXCEPT ![t] = "clear"]
            /\ todo' = [todo EXCEPT ![t] = DOMAIN map[t]]
       ELSE /\ pc' = [pc EXCEPT ![t] = "exit"]
            /\ UNCHANGED todo
  /\ UNCHANGED <<matrix, x, y, mem, temp, iter, args, caller, barrier>>

(* init_from_map, entry by entry.                                          *)
Clear(t, k) ==
  /\ pc[t] = "clear" /\ k \in todo[t]
  /\ temp' = [temp EXCEPT ![map[t][k][1]][map[t][k][2]] = Zero]
  /\ todo' = [todo EXCEPT ![t] = @ \ {k}]
  /\ UNCHANGED <<matrix, x, y, mem, pc, iter, args, caller, barrier>>

\* A barrier call that leads from one control point to another.
Wait(t, from, to) ==
  /\ pc[t] = from /\ todo[t] = {}
  /\ BarrierWait(t, Parties)
  /\ pc' = [pc EXCEPT ![t] = to]

\* Faulty variant: the kernel starts before all of temp is clear.
FirstWait_NoBarrier(t) ==
  /\ pc[t] = "clear" /\ todo[t] = {}
  /\ pc' = [pc EXCEPT ![t] = "call"]
  /\ UNCHANGED <<matrix, x, y, mem, temp, iter, todo, args, caller, barrier>>

FirstWait(t) ==
  /\ Wait(t, "clear", "call")
  /\ UNCHANGED <<matrix, x, y, mem, temp, iter, todo, args, caller>>

(* The kernel: clears its own rows of y, then adds the products of its     *)
(* elements to those and, for the transposed element, to the row above.    *)
CallKernel(t) ==
  /\ pc[t] = "call" /\ Awake(t)
  /\ args' = [args EXCEPT ![t] = <<x, y>>]
  /\ mem' = [mem EXCEPT ![y] = [r \in Rows |-> IF r \in Own(t) THEN Zero ELSE mem[y][r]]]
  /\ pc' = [pc EXCEPT ![t] = "kernel"]
  /\ UNCHANGED <<matrix, x, y, temp, iter, todo, caller, barrier>>

\* What thread t contributes: computed from one iterate of x, or garbage.
Product(t) ==
  LET vx == mem[args[t][1]]
      it == {k \in 0..NLoops : \A r \in Own(t) \cup above[t] : vx[r] = Input(k, r)}
  IN  IF it = {} THEN Garbage ELSE [of |-> Min(it) + 1, from |-> {t}]

KernelReturn(t) ==
  /\ pc[t] = "kernel"
  /\ LET p == Product(t)
         Add(v) == IF v = Zero THEN p ELSE Garbage
     IN  /\ mem' = [mem EXCEPT ![args[t][2]] =
                      [r \in Rows |-> IF r \in Own(t) THEN Add(@[r]) ELSE @[r]]]
         /\ temp' = [temp EXCEPT ![t] =
                       [r \in Rows |-> IF r \in above[t] THEN Add(@[r]) ELSE @[r]]]
  /\ pc' = [pc EXCEPT ![t] = "computed"]
  /\ UNCHANGED <<matrix, x, y, iter, todo, args, caller, barrier>>

\* Faulty variant: the reduction starts before all kernels have returned.
SecondWait_NoBarrier(t) ==
  /\ pc[t] = "computed"
  /\ pc' = [pc EXCEPT ![t] = "reduce"]
  /\ todo' = [todo EXCEPT ![t] = DOMAIN map[t]]
  /\ UNCHANGED <<matrix, x, y, mem, temp, iter, args, caller, barrier>>

SecondWait(t) ==
  /\ pc[t] = "computed"
  /\ BarrierWait(t, Parties)
  /\ pc' = [pc EXCEPT ![t] = "reduce"]
  /\ todo' = [todo EXCEPT ![t] = DOMAIN map[t]]
  /\ UNCHANGED <<matrix, x, y, mem, temp, iter, args, caller>>

(* add_from_map, entry by entry in the map's order.                        *)
Reduce(t) ==
  /\ pc[t] = "reduce" /\ Awake(t) /\ todo[t] # {}
  /\ LET k == Min(todo[t])
         cpu == map[t][k][1]
         pos == map[t][k][2]
     IN  /\ mem' = [mem EXCEPT ![y][pos] = Plus(@, temp[cpu][pos])]
         /\ todo' = [todo EXCEPT ![t] = @ \ {k}]
  /\ UNCHANGED <<matrix, x, y, temp, pc, iter, args, caller, barrier>>

ThirdWait(t) ==
  /\ Wait(t, "reduce", "next")
  /\ UNCHANGED <<matrix, x, y, mem, temp, iter, todo, args, caller>>

\* In bench_sym_mt_loop thread 0 swaps the vectors.
EndPass(t) ==
  /\ pc[t] = "next" /\ Awake(t)
  /\ IF t = 0 /\ loop = "bench" THEN x' = y /\ y' = x ELSE UNCHANGED <<x, y>>
  /\ iter' = [iter EXCEPT ![t] = @ + 1]
  /\ pc' = [pc EXCEPT ![t] = "loop"]
  /\ UNCHANGED <<matrix, mem, temp, todo, args, caller, barrier>>

-----------------------------------------------------------------------------
(* The calling thread: frames each pass with the three barriers when it    *)
(* checks, then joins the others.                                          *)
workers == <<pc, iter, todo, args>>

\* init_rand_range(x), init(y, 21), init(y2, 22); check_sym_mt_loop_numa leaves
\* its vectors alone.
MainLoop ==
  /\ mpc = "loop"
  /\ mpc' = IF pass = NLoops THEN "join" ELSE IF loop = "check" THEN "fill" ELSE "first"
  /\ UNCHANGED <<matrix, x, y, mem, temp, workers, pass, barrier>>

MainFill ==
  /\ mpc = "fill"
  /\ mem' = [mem EXCEPT ![x] = [r \in Rows |-> Input(pass, r)], ![y] = [r \in Rows |-> Garbage]]
  /\ mpc' = "first"
  /\ UNCHANGED <<matrix, x, y, temp, workers, pass, barrier>>

MainWait ==
  /\ \/ mpc = "first" /\ mpc' = "second"
     \/ mpc = "second" /\ mpc' = "third"
     \/ mpc = "third" /\ mpc' = "compare"
  /\ BarrierWait(Main, Parties)
  /\ UNCHANGED <<matrix, x, y, mem, temp, workers, pass>>

\* The serial product, computed from the same x, and its comparison with y.
MainCompare ==
  /\ mpc = "compare" /\ Awake(Main)
  /\ IF \A r \in Rows : mem[y][r] = Output(pass, r)
       THEN mpc' = "loop" /\ pass' = pass + 1
       ELSE mpc' = "failed" /\ UNCHANGED pass
  /\ UNCHANGED <<matrix, x, y, mem, temp, workers, barrier>>

MainJoin ==
  /\ mpc = "join" /\ \A t \in Threads : pc[t] = "exit"
  /\ mpc' = "end"
  /\ UNCHANGED <<matrix, x, y, mem, temp, workers, pass, barrier>>

Caller == MainLoop \/ MainFill \/ MainWait \/ MainCompare \/ MainJoin

Thread(t) ==
  /\ mpc # "failed"
  /\ \/ t = 0 /\ InitX
     \/ LoopStart(t) \/ FirstWait(t) \/ CallKernel(t) \/ KernelReturn(t)
     \/ SecondWait(t) \/ Reduce(t) \/ ThirdWait(t) \/ EndPass(t)
     \/ \E k \in todo[t] : Clear(t, k)

Finished == mpc \in {"end", "failed"} /\ UNCHANGED vars

Next == Caller \/ (\E t \in Threads : Thread(t)) \/ Finished

Spec == Init /\ [][Next]_vars

\* Each thread is scheduled by the kernel.
FairSpec ==
  /\ Spec /\ WF_vars(Caller)
  /\ \A t \in 0..(NRows - 1) : WF_vars(t \in Threads /\ Thread(t))

-----------------------------------------------------------------------------
\* Every element some thread adds above its own rows is cleared and reduced
\* exactly once, and all of one row by the same thread.
MapCoversConflicts ==
  /\ \A t \in Threads : IsInjective(map[t])
  /\ \A k \in Threads : \A r \in Rows :
       LET reducers == {t \in Threads : <<k, r>> \in ToSet(map[t])}
       IN  Cardinality(reducers) = IF r \in above[k] THEN 1 ELSE 0
  /\ \A t, u \in Threads : \A a \in ToSet(map[t]), b \in ToSet(map[u]) :
       a[2] = b[2] => t = u

\* No data race: a row of y or an element of temp is not touched by one thread
\* while another one is at work on it, and the calling thread neither fills nor
\* compares a vector that a worker is at.
RaceFree ==
  /\ \A t \in Threads : pc[t] = "kernel" =>
       \A u \in Threads \ {t} :
         /\ pc[u] # "clear" \/ todo[u] = {}
         /\ ~(pc[u] \in {"reduce", "next"} /\ Awake(u))
  /\ mpc = "fill" \/ (mpc = "compare" /\ Awake(Main)) =>
       \A t \in Threads :
         ~(pc[t] = "kernel" \/ (pc[t] = "reduce" /\ todo[t] # {}) \/ (pc[t] = "call" /\ Awake(t)))

\* Each product is complete: when a pass is over every element of the product has
\* the contribution of its owner and of every thread that reaches it, once, all
\* computed from this pass's x; the comparison never fails.
PassComplete ==
  /\ mpc # "failed"
  /\ ~Checks =>
       \A t \in Threads : pc[t] = "next" /\ Awake(t) =>
         \A r \in Rows :
           mem[IF loop = "bench" /\ iter[0] > iter[t] THEN x ELSE y][r] = Output(iter[t], r)

\* Every loop ends.
Termination == <>(mpc = "end")
=============================================================================
