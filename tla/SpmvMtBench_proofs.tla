------------------------ MODULE SpmvMtBench_proofs --------------------------
(***************************************************************************)
(* Proofs, for any finite set of threads and any number of passes, that    *)
(* the swapping benchmark loop is free of data races, that every product   *)
(* gathers from a single iterate and that the final vector is the power.   *)
(***************************************************************************)
EXTENDS SpmvMtBench, FiniteSetTheorems, TLAPS

\* Barrier calls that thread t has made so far.
Arrivals(t) ==
  2 * iter[t] + (IF pc[t] \in {"call", "kernel", "wait"} THEN 1
                 ELSE IF pc[t] = "next" THEN 2 ELSE 0)

\* Threads asleep in the barrier have arrived in the current round, the others
\* have not: this is what the barrier gives the loop.
BarrierInv ==
  /\ \A t \in Threads : Arrivals(t) = IF t \in blocked THEN round + 1 ELSE round
  /\ \A t \in blocked : pc[t] \in {"call", "next"}
  /\ blocked # Threads

LoopInv ==
  \A t \in Threads :
    /\ pc[t] = "init" => t = Swapper /\ iter[t] = 0
    /\ pc[t] = "exit" => iter[t] = NLoops
    /\ pc[t] \in {"call", "kernel", "wait", "next"} => iter[t] < NLoops
    /\ iter[t] <= NLoops

\* Thread t has written its rows of the product of pass iter[Swapper].
HasProduct(t) ==
  \/ iter[t] = iter[Swapper] /\ pc[t] \in {"wait", "next"}
  \/ iter[t] = iter[Swapper] + 1

FrameInv ==
  \A t \in Threads : pc[t] = "kernel" =>
    /\ frame[t].x = x /\ frame[t].y = y
    /\ frame[t].seen \subseteq {iter[t]}
    /\ frame[t].seen = {} => frame[t].todo = Threads

DataInv ==
  /\ x # y
  /\ pc[Swapper] # "init" => \A p \in Threads : mem[x][p] = iter[Swapper]
  /\ \A t \in Threads : HasProduct(t) => mem[y][t] = iter[Swapper] + 1

CallerInv ==
  /\ \A t \in joined : pc[t] = "exit"
  /\ freed => joined = Threads

IInv == TypeOK /\ BarrierInv /\ LoopInv /\ FrameInv /\ DataInv /\ CallerInv

-----------------------------------------------------------------------------
\* What a call of pthread_barrier_wait does when all threads are parties: the
\* last arrival opens the next round, any other goes to sleep.
LEMMA BarrierStep ==
  ASSUME NEW t \in Threads, blocked \subseteq Threads, BarrierWait(t, Parties)
  PROVE  /\ t \notin blocked
         /\ \/ /\ blocked = Threads \ {t}
               /\ blocked' = {} /\ round' = round + 1
            \/ /\ blocked \cup {t} # Threads
               /\ blocked' = blocked \cup {t} /\ round' = round
<1>1. t \notin blocked
  BY DEF BarrierWait, Awake
<1>2. IsFiniteSet(blocked) /\ Cardinality(blocked) \in Nat
  BY ThreadsAssumption, FS_Subset, FS_CardinalityType
<1>3. IsFiniteSet(blocked \cup {t}) /\ Cardinality(blocked \cup {t}) = Cardinality(blocked) + 1
  BY <1>1, <1>2, FS_AddElement
<1>4. CASE Cardinality(blocked) + 1 = Parties
  <2>1. blocked \cup {t} = Threads
    BY <1>3, <1>4, ThreadsAssumption, FS_Subset DEF Parties
  <2>2. blocked = Threads \ {t}
    BY <1>1, <2>1
  <2> QED
    BY <1>1, <1>4, <2>2 DEF BarrierWait
<1>5. CASE Cardinality(blocked) + 1 # Parties
  <2>1. blocked \cup {t} # Threads
    BY <1>3, <1>5 DEF Parties
  <2> QED
    BY <1>1, <1>5, <2>1 DEF BarrierWait
<1> QED
  BY <1>4, <1>5

\* A barrier call moves the caller on by one arrival and keeps BarrierInv.
LEMMA BarrierInvStep ==
  ASSUME NEW t \in Threads, IInv, BarrierWait(t, Parties),
         \/ (pc[t] = "loop" /\ pc' = [pc EXCEPT ![t] = "call"])
         \/ (pc[t] = "wait" /\ pc' = [pc EXCEPT ![t] = "next"]),
         iter' = iter
  PROVE  BarrierInv'
<1> USE DEF IInv, BarrierInv, TypeOK, WorkerTypeOK
<1>1. /\ t \notin blocked
      /\ \/ /\ blocked = Threads \ {t}
            /\ blocked' = {} /\ round' = round + 1
         \/ /\ blocked \cup {t} # Threads
            /\ blocked' = blocked \cup {t} /\ round' = round
  BY BarrierStep
<1>2. Arrivals(t)' = round + 1
  <2>1. iter[t] \in Nat /\ round \in Nat /\ Arrivals(t) = round
    BY <1>1
  <2>2. CASE pc[t] = "loop" /\ pc' = [pc EXCEPT ![t] = "call"]
    <3>1. Arrivals(t) = 2 * iter[t] /\ Arrivals(t)' = 2 * iter[t] + 1
      BY <2>1, <2>2 DEF Arrivals
    <3> QED
      BY <2>1, <3>1
  <2>3. CASE pc[t] = "wait" /\ pc' = [pc EXCEPT ![t] = "next"]
    <3>1. Arrivals(t) = 2 * iter[t] + 1 /\ Arrivals(t)' = 2 * iter[t] + 2
      BY <2>1, <2>3 DEF Arrivals
    <3> QED
      BY <2>1, <3>1
  <2> QED
    BY <2>2, <2>3
<1>3. \A u \in Threads \ {t} : Arrivals(u)' = Arrivals(u)
  BY DEF Arrivals
<1>4. \A u \in Threads : Arrivals(u)' = IF u \in blocked' THEN round' + 1 ELSE round'
  BY <1>1, <1>2, <1>3
<1>5. \A u \in blocked' : pc'[u] \in {"call", "next"}
  BY <1>1
<1>6. blocked' # Threads
  BY <1>1, ThreadsAssumption
<1> QED
  BY <1>4, <1>5, <1>6

\* The control point of a thread and whether it sleeps fix the round.
LEMMA Phase ==
  ASSUME IInv, NEW t \in Threads
  PROVE  /\ iter[t] \in Nat /\ round \in Nat
         /\ pc[t] \in {"init", "loop", "call", "kernel", "wait", "next", "exit"}
         /\ t \in blocked => \/ pc[t] = "call" /\ round = 2 * iter[t]
                             \/ pc[t] = "next" /\ round = 2 * iter[t] + 1
         /\ t \notin blocked =>
              /\ pc[t] \in {"init", "loop", "exit"} => round = 2 * iter[t]
              /\ pc[t] \in {"call", "kernel", "wait"} => round = 2 * iter[t] + 1
              /\ pc[t] = "next" => round = 2 * iter[t] + 2
<1>1. /\ iter[t] \in Nat /\ round \in Nat
      /\ pc[t] \in {"init", "loop", "call", "kernel", "wait", "next", "exit"}
  BY DEF IInv, TypeOK, WorkerTypeOK
<1>2. Arrivals(t) = IF t \in blocked THEN round + 1 ELSE round
  BY DEF IInv, BarrierInv
<1>3. t \in blocked => pc[t] \in {"call", "next"}
  BY DEF IInv, BarrierInv
<1>4. /\ pc[t] \in {"init", "loop", "exit"} => Arrivals(t) = 2 * iter[t]
      /\ pc[t] \in {"call", "kernel", "wait"} => Arrivals(t) = 2 * iter[t] + 1
      /\ pc[t] = "next" => Arrivals(t) = 2 * iter[t] + 2
  BY <1>1 DEF Arrivals
<1>5. CASE t \in blocked
  BY <1>1, <1>2, <1>3, <1>4, <1>5
<1>6. CASE t \notin blocked
  BY <1>1, <1>2, <1>4, <1>6
<1> QED
  BY <1>1, <1>5, <1>6

\* What equal rounds say of two passes: an even round is not an odd one.
LEMMA RoundArithmetic ==
  ASSUME NEW i \in Nat, NEW j \in Nat
  PROVE  /\ 2 * i + 1 # 2 * j /\ 2 * i + 1 # 2 * j + 2
         /\ 2 * i + 1 = 2 * j + 1 => i = j
         /\ 2 * i + 2 = 2 * j + 2 => i = j
         /\ 2 * i + 2 = 2 * j => j = i + 1
  OBVIOUS

\* A thread in the kernel is in the same pass as thread 0, and thread 0 is
\* between its two barriers or asleep in the second one.
LEMMA KernelPass ==
  ASSUME IInv, NEW t \in Threads, pc[t] = "kernel" \/ (pc[t] = "call" /\ Awake(t))
  PROVE  /\ iter[Swapper] = iter[t]
         /\ pc[Swapper] \in {"call", "kernel", "wait", "next"}
         /\ pc[Swapper] = "next" => ~Awake(Swapper)
         /\ ~freed
<1>1. t \notin blocked
  BY DEF IInv, BarrierInv, Awake
<1>2. iter[t] \in Nat /\ iter[Swapper] \in Nat /\ round = 2 * iter[t] + 1
  BY <1>1, Phase, SwapperAssumption
<1>3. ~freed
  BY DEF IInv, CallerInv
<1>4. CASE Swapper \in blocked
  <2>1. \/ pc[Swapper] = "call" /\ round = 2 * iter[Swapper]
        \/ pc[Swapper] = "next" /\ round = 2 * iter[Swapper] + 1
    BY <1>4, Phase, SwapperAssumption
  <2>2. pc[Swapper] # "call"
    <3>1. round # 2 * iter[Swapper]
      BY <1>2, RoundArithmetic
    <3> QED
      BY <2>1, <3>1
  <2>3. pc[Swapper] = "next" /\ round = 2 * iter[Swapper] + 1
    BY <2>1, <2>2
  <2>4. iter[Swapper] = iter[t]
    BY <1>2, <2>3, RoundArithmetic
  <2> QED
    BY <1>3, <1>4, <2>3, <2>4 DEF Awake
<1>5. CASE Swapper \notin blocked
  <2>1. /\ pc[Swapper] \in {"init", "loop", "exit"} => round = 2 * iter[Swapper]
        /\ pc[Swapper] \in {"call", "kernel", "wait"} => round = 2 * iter[Swapper] + 1
        /\ pc[Swapper] = "next" => round = 2 * iter[Swapper] + 2
        /\ pc[Swapper] \in {"init", "loop", "call", "kernel", "wait", "next", "exit"}
    BY <1>5, Phase, SwapperAssumption
  <2>2. pc[Swapper] \notin {"init", "loop", "exit"}
    <3>1. round # 2 * iter[Swapper]
      BY <1>2, RoundArithmetic
    <3> QED
      BY <2>1, <3>1
  <2>3. pc[Swapper] # "next"
    <3>1. round # 2 * iter[Swapper] + 2
      BY <1>2, RoundArithmetic
    <3> QED
      BY <2>1, <3>1
  <2>4. pc[Swapper] \in {"call", "kernel", "wait"} /\ round = 2 * iter[Swapper] + 1
    BY <2>1, <2>2, <2>3
  <2>5. iter[Swapper] = iter[t]
    BY <1>2, <2>4, RoundArithmetic
  <2> QED
    BY <1>3, <2>4, <2>5
<1> QED
  BY <1>4, <1>5

\* When thread 0 is about to swap, every part of y holds the new iterate.
LEMMA SwapPass ==
  ASSUME IInv, pc[Swapper] = "next", Awake(Swapper)
  PROVE  /\ round = 2 * iter[Swapper] + 2
         /\ \A t \in Threads : /\ iter[t] \in {iter[Swapper], iter[Swapper] + 1}
                               /\ HasProduct(t)
                               /\ pc[t] # "kernel"
                               /\ pc[t] \in {"wait", "next"} => iter[t] = iter[Swapper]
<1>1. iter[Swapper] \in Nat /\ round = 2 * iter[Swapper] + 2
  BY Phase, SwapperAssumption DEF Awake
<1>2. ASSUME NEW t \in Threads
      PROVE  /\ iter[t] \in {iter[Swapper], iter[Swapper] + 1} /\ HasProduct(t)
             /\ pc[t] # "kernel" /\ (pc[t] \in {"wait", "next"} => iter[t] = iter[Swapper])
  <2>1. iter[t] \in Nat
    BY Phase
  <2>2. CASE t \in blocked
    <3>1. \/ pc[t] = "call" /\ round = 2 * iter[t]
          \/ pc[t] = "next" /\ round = 2 * iter[t] + 1
      BY <2>2, Phase
    <3>2. pc[t] # "next"
      <4>1. round # 2 * iter[t] + 1
        BY <1>1, <2>1, RoundArithmetic
      <4> QED
        BY <3>1, <4>1
    <3>3. pc[t] = "call" /\ round = 2 * iter[t]
      BY <3>1, <3>2
    <3>4. iter[t] = iter[Swapper] + 1
      BY <1>1, <2>1, <3>3, RoundArithmetic
    <3> QED
      BY <3>3, <3>4 DEF HasProduct
  <2>3. CASE t \notin blocked
    <3>1. /\ pc[t] \in {"init", "loop", "exit"} => round = 2 * iter[t]
          /\ pc[t] \in {"call", "kernel", "wait"} => round = 2 * iter[t] + 1
          /\ pc[t] = "next" => round = 2 * iter[t] + 2
          /\ pc[t] \in {"init", "loop", "call", "kernel", "wait", "next", "exit"}
      BY <2>3, Phase
    <3>2. pc[t] \in {"init", "loop", "exit"} => iter[t] = iter[Swapper] + 1
      <4>1. round = 2 * iter[t] => iter[t] = iter[Swapper] + 1
        BY <1>1, <2>1, RoundArithmetic
      <4> QED
        BY <3>1, <4>1
    <3>3. pc[t] = "next" => iter[t] = iter[Swapper]
      <4>1. round = 2 * iter[t] + 2 => iter[t] = iter[Swapper]
        BY <1>1, <2>1, RoundArithmetic
      <4> QED
        BY <3>1, <4>1
    <3>4. pc[t] \notin {"call", "kernel", "wait"}
      <4>1. round # 2 * iter[t] + 1
        BY <1>1, <2>1, RoundArithmetic
      <4> QED
        BY <3>1, <4>1
    <3> QED
      BY <3>1, <3>2, <3>3, <3>4 DEF HasProduct
  <2> QED
    BY <2>2, <2>3
<1> QED
  BY <1>1, <1>2

\* Before thread 0 has filled x nobody has passed the first barrier.
LEMMA InitPass ==
  ASSUME IInv, pc[Swapper] = "init"
  PROVE  \A t \in Threads : iter[t] = 0 /\ pc[t] \notin {"kernel", "wait", "next"}
<1>1. iter[Swapper] = 0
  BY SwapperAssumption DEF IInv, LoopInv
<1>2. round = 0
  BY <1>1, Phase, SwapperAssumption
<1> QED
  BY <1>2, Phase

-----------------------------------------------------------------------------
\* The initial states satisfy the inductive invariant: all threads in round 0.
LEMMA InitInv == Init => IInv
<1> SUFFICES ASSUME Init PROVE IInv
  OBVIOUS
<1> USE ThreadsAssumption, SwapperAssumption, NLoopsAssumption DEF Init, VectorsInit, BarrierInit
<1>1. TypeOK
  BY DEF TypeOK, WorkerTypeOK, Idle, Buffers, Iterates, Torn
<1>2. BarrierInv
  BY DEF BarrierInv, Arrivals
<1>3. LoopInv /\ FrameInv /\ CallerInv
  BY DEF LoopInv, FrameInv, CallerInv
<1>4. DataInv
  BY DEF DataInv, HasProduct
<1> QED
  BY <1>1, <1>2, <1>3, <1>4 DEF IInv

\* Leaving the loop keeps the invariant: a thread leaves once its last pass is over.
LEMMA LoopExitInv ==
  ASSUME IInv, NEW t \in Threads, LoopExit(t), UNCHANGED callerVars
  PROVE  IInv'
<1> USE DEF IInv, LoopExit, callerVars
<1>1. TypeOK'
  BY DEF TypeOK, WorkerTypeOK
<1>2. BarrierInv'
  BY DEF TypeOK, WorkerTypeOK, BarrierInv, Arrivals
<1>3. LoopInv' /\ FrameInv'
  <2>1. iter[t] \in Nat /\ iter[t] >= NLoops /\ iter[t] <= NLoops
    BY DEF TypeOK, WorkerTypeOK, LoopInv
  <2>2. iter[t] = NLoops
    BY <2>1, NLoopsAssumption
  <2> QED
    BY <2>2 DEF TypeOK, WorkerTypeOK, LoopInv, FrameInv
<1>4. DataInv'
  BY SwapperAssumption DEF TypeOK, WorkerTypeOK, DataInv, HasProduct
<1>5. CallerInv'
  BY DEF TypeOK, WorkerTypeOK, CallerInv
<1> QED
  BY <1>1, <1>2, <1>3, <1>4, <1>5

\* Entering a pass (the first barrier) keeps the invariant: the last arrival finds
\* everybody at it, so no kernel still reads what the swap has replaced.
LEMMA LoopEnterInv ==
  ASSUME IInv, NEW t \in Threads, LoopEnter(t, Parties), UNCHANGED callerVars
  PROVE  IInv'
<1> USE DEF IInv, LoopEnter, callerVars
<1>1. TypeOK'
  BY BarrierStep DEF TypeOK, WorkerTypeOK
<1>2. BarrierInv'
  <2>1. /\ BarrierWait(t, Parties) /\ iter' = iter
        /\ pc[t] = "loop" /\ pc' = [pc EXCEPT ![t] = "call"]
    OBVIOUS
  <2>2. IInv
    OBVIOUS
  <2> HIDE DEF IInv, LoopEnter
  <2> QED
    BY <2>1, <2>2, BarrierInvStep
<1>3. LoopInv' /\ FrameInv'
  BY DEF TypeOK, WorkerTypeOK, LoopInv, FrameInv
<1>4. DataInv'
  BY SwapperAssumption DEF TypeOK, WorkerTypeOK, DataInv, HasProduct
<1>5. CallerInv'
  BY DEF TypeOK, WorkerTypeOK, CallerInv
<1> QED
  BY <1>1, <1>2, <1>3, <1>4, <1>5

\* Calling the kernel keeps the invariant: the pointers it takes are those of the pass.
LEMMA CallKernelInv ==
  ASSUME IInv, NEW t \in Threads, CallKernel(t), UNCHANGED callerVars
  PROVE  IInv'
<1> USE DEF IInv, CallKernel, callerVars
<1>1. TypeOK'
  BY DEF TypeOK, WorkerTypeOK, Buffers, Iterates
<1>2. BarrierInv'
  BY DEF TypeOK, WorkerTypeOK, BarrierInv, Arrivals, Awake
<1>3. LoopInv' /\ FrameInv'
  BY DEF TypeOK, WorkerTypeOK, LoopInv, FrameInv
<1>4. DataInv'
  <2>1. iter[Swapper] = iter[t]
    BY KernelPass
  <2>2. ~HasProduct(t)'
    BY <2>1, SwapperAssumption DEF HasProduct, TypeOK, WorkerTypeOK
  <2> QED
    BY <2>1, <2>2, SwapperAssumption DEF TypeOK, WorkerTypeOK, DataInv, HasProduct
<1>5. CallerInv'
  BY DEF TypeOK, WorkerTypeOK, CallerInv
<1> QED
  BY <1>1, <1>2, <1>3, <1>4, <1>5

\* Gathering a part of x keeps the invariant: that part holds the pass's iterate.
LEMMA ReadPartInv ==
  ASSUME IInv, NEW t \in Threads, NEW p \in Threads, ReadPart(t, p), UNCHANGED callerVars
  PROVE  IInv'
<1> USE DEF IInv, ReadPart, callerVars
<1>1. TypeOK'
  <2>1. mem[frame[t].x][p] \in Iterates
    BY DEF TypeOK, WorkerTypeOK
  <2>2. /\ frame[t] \in [x : Buffers, y : Buffers, todo : SUBSET Threads, seen : SUBSET Iterates]
        /\ frame[t].todo \ {p} \in SUBSET Threads
        /\ frame[t].seen \cup {mem[frame[t].x][p]} \in SUBSET Iterates
    BY <2>1 DEF TypeOK, WorkerTypeOK
  <2>3. frame' \in [Threads -> [x : Buffers, y : Buffers, todo : SUBSET Threads, seen : SUBSET Iterates]]
    BY <2>2 DEF TypeOK, WorkerTypeOK
  <2> QED
    BY <2>3 DEF TypeOK, WorkerTypeOK
<1>2. BarrierInv' /\ LoopInv' /\ DataInv' /\ CallerInv'
  BY DEF BarrierInv, LoopInv, DataInv, CallerInv, Arrivals, HasProduct
<1>3. FrameInv'
  <2>1. mem[frame[t].x][p] = iter[t]
    BY KernelPass DEF FrameInv, DataInv
  <2>2. /\ frame'[t].x = frame[t].x /\ frame'[t].y = frame[t].y
        /\ frame'[t].seen = frame[t].seen \cup {mem[frame[t].x][p]}
    BY DEF TypeOK, WorkerTypeOK
  <2>3. \A u \in Threads \ {t} : frame'[u] = frame[u]
    BY DEF TypeOK, WorkerTypeOK
  <2> QED
    BY <2>1, <2>2, <2>3 DEF FrameInv
<1> QED
  BY <1>1, <1>2, <1>3

\* The product of one iterate is the next one.
LEMMA ProductOfOne ==
  ASSUME NEW k \in Nat
  PROVE  Product({k}) = k + 1
<1>1. k # Torn
  BY DEF Torn
<1> QED
  BY <1>1 DEF Product

\* Storing a part of y keeps the invariant: only the owner's part changes.
LEMMA KernelReturnInv ==
  ASSUME IInv, NEW t \in Threads, KernelReturn(t), UNCHANGED callerVars
  PROVE  IInv'
<1> USE DEF IInv, KernelReturn, callerVars
<1>1. iter[Swapper] = iter[t] /\ frame[t].y = y /\ frame[t].seen = {iter[t]}
  BY KernelPass, ThreadsAssumption DEF FrameInv
<1>2. Product(frame[t].seen) = iter[t] + 1
  BY <1>1, ProductOfOne DEF TypeOK, WorkerTypeOK
<1>3. mem' = [mem EXCEPT ![y][t] = iter[t] + 1]
  BY <1>1, <1>2
<1>4. TypeOK'
  BY <1>3 DEF TypeOK, WorkerTypeOK, Iterates, Idle, Buffers
<1>5. BarrierInv'
  BY DEF TypeOK, WorkerTypeOK, BarrierInv, Arrivals
<1>6. LoopInv' /\ FrameInv'
  BY DEF TypeOK, WorkerTypeOK, LoopInv, FrameInv
<1>7. DataInv'
  BY <1>1, <1>3, SwapperAssumption DEF TypeOK, WorkerTypeOK, DataInv, HasProduct
<1>8. CallerInv'
  BY DEF TypeOK, WorkerTypeOK, CallerInv
<1> QED
  BY <1>4, <1>5, <1>6, <1>7, <1>8

\* The second barrier keeps the invariant: thread 0 wakes only when all parts are stored.
LEMMA SecondWaitInv ==
  ASSUME IInv, NEW t \in Threads, SecondWait(t, Parties), UNCHANGED callerVars
  PROVE  IInv'
<1> USE DEF IInv, SecondWait, callerVars
<1>1. TypeOK'
  BY BarrierStep DEF TypeOK, WorkerTypeOK
<1>2. BarrierInv'
  <2>1. BarrierWait(t, Parties)
    OBVIOUS
  <2> QED
    BY <2>1, BarrierInvStep
<1>3. LoopInv' /\ FrameInv'
  BY DEF TypeOK, WorkerTypeOK, LoopInv, FrameInv
<1>4. DataInv'
  BY SwapperAssumption DEF TypeOK, WorkerTypeOK, DataInv, HasProduct
<1>5. CallerInv'
  BY DEF TypeOK, WorkerTypeOK, CallerInv
<1> QED
  BY <1>1, <1>2, <1>3, <1>4, <1>5

\* The loop increment of a thread that does not swap keeps the invariant.
LEMMA NextIterationInv ==
  ASSUME IInv, NEW t \in Threads, t # Swapper, NextIteration(t), UNCHANGED callerVars
  PROVE  IInv'
<1> USE DEF IInv, NextIteration, callerVars
<1>1. TypeOK'
  BY DEF TypeOK, WorkerTypeOK
<1>2. BarrierInv'
  <2>1. Arrivals(t)' = Arrivals(t) /\ t \notin blocked
    BY DEF TypeOK, WorkerTypeOK, Arrivals, Awake
  <2> QED
    BY <2>1 DEF TypeOK, WorkerTypeOK, BarrierInv, Arrivals
<1>3. LoopInv' /\ FrameInv'
  BY NLoopsAssumption DEF TypeOK, WorkerTypeOK, LoopInv, FrameInv
<1>4. DataInv'
  <2>1. HasProduct(t)' => HasProduct(t)
    <3>1. /\ iter'[t] = iter[t] + 1 /\ iter'[Swapper] = iter[Swapper]
          /\ pc[t] = "next" /\ pc'[t] = "loop"
      BY SwapperAssumption DEF TypeOK, WorkerTypeOK
    <3>2. iter[t] \in Nat /\ iter[Swapper] \in Nat
      BY Phase, SwapperAssumption
    <3> QED
      BY <3>1, <3>2 DEF HasProduct
  <2> QED
    BY <2>1, SwapperAssumption DEF TypeOK, WorkerTypeOK, DataInv, HasProduct
<1>5. CallerInv'
  BY DEF TypeOK, WorkerTypeOK, CallerInv
<1> QED
  BY <1>1, <1>2, <1>3, <1>4, <1>5

\* Filling x keeps the invariant: nobody reads x before thread 0's first barrier.
LEMMA InitXInv ==
  ASSUME IInv, InitX
  PROVE  IInv'
<1> USE SwapperAssumption DEF IInv, InitX, callerVars
<1>1. TypeOK'
  BY DEF TypeOK, WorkerTypeOK, Iterates
<1>2. BarrierInv'
  BY DEF TypeOK, WorkerTypeOK, BarrierInv, Arrivals
<1>3. LoopInv' /\ FrameInv'
  BY NLoopsAssumption DEF TypeOK, WorkerTypeOK, LoopInv, FrameInv
<1>4. DataInv'
  BY InitPass DEF TypeOK, WorkerTypeOK, DataInv, HasProduct
<1>5. CallerInv'
  BY DEF TypeOK, WorkerTypeOK, CallerInv
<1> QED
  BY <1>1, <1>2, <1>3, <1>4, <1>5

\* The swap keeps the invariant: all kernels have returned and none has started.
LEMMA SwapInv ==
  ASSUME IInv, Swap
  PROVE  IInv'
<1> USE SwapperAssumption DEF IInv, Swap, callerVars
<1>1. TypeOK'
  BY DEF TypeOK, WorkerTypeOK
<1>2. BarrierInv'
  <2>1. Arrivals(Swapper)' = Arrivals(Swapper) /\ Swapper \notin blocked
    BY DEF TypeOK, WorkerTypeOK, Arrivals, Awake
  <2> QED
    BY <2>1 DEF TypeOK, WorkerTypeOK, BarrierInv, Arrivals
<1>3. LoopInv'
  BY NLoopsAssumption DEF TypeOK, WorkerTypeOK, LoopInv
<1>4. FrameInv'
  BY SwapPass DEF TypeOK, WorkerTypeOK, FrameInv
<1>5. DataInv'
  <2>1. \A t \in Threads : mem[y][t] = iter[Swapper] + 1
    BY SwapPass DEF DataInv
  <2>2. \A t \in Threads : ~HasProduct(t)'
    <3> SUFFICES ASSUME NEW t \in Threads, HasProduct(t)' PROVE FALSE
      OBVIOUS
    <3>1. t # Swapper /\ iter[t] = iter[Swapper] + 1 /\ pc[t] \in {"wait", "next"}
      BY SwapPass DEF TypeOK, WorkerTypeOK, HasProduct
    <3> QED
      BY <3>1, SwapPass DEF TypeOK, WorkerTypeOK
  <2> QED
    BY <2>1, <2>2 DEF TypeOK, WorkerTypeOK, DataInv
<1>6. CallerInv'
  BY DEF TypeOK, WorkerTypeOK, CallerInv
<1> QED
  BY <1>1, <1>2, <1>3, <1>4, <1>5, <1>6

\* Creating and joining threads keeps the invariant.
LEMMA CallerStepInv ==
  ASSUME IInv, Caller
  PROVE  IInv'
<1> USE DEF IInv
<1>1. UNCHANGED workerVars
  BY DEF Caller, Create, Join, Destroy
<1>2. TypeOK'
  BY <1>1 DEF TypeOK, WorkerTypeOK, workerVars, Caller, Create, Join, Destroy
<1>3. BarrierInv' /\ LoopInv' /\ FrameInv' /\ DataInv'
  BY <1>1 DEF workerVars, BarrierInv, LoopInv, FrameInv, DataInv, Arrivals, HasProduct
<1>4. CallerInv'
  BY <1>1 DEF workerVars, TypeOK, CallerInv, Caller, Create, Join, Destroy
<1> QED
  BY <1>2, <1>3, <1>4

\* Every step of the program preserves the inductive invariant.
LEMMA StepInv == IInv /\ [Next]_vars => IInv'
<1> SUFFICES ASSUME IInv, [Next]_vars PROVE IInv'
  OBVIOUS
<1>1. CASE Caller
  BY <1>1, CallerStepInv
<1>2. CASE SwapThread
  BY <1>2, InitXInv, SwapInv DEF SwapThread
<1>3. ASSUME NEW t \in Threads, Worker(t) PROVE IInv'
  <2>1. CASE Iteration(t, Parties)
    BY <1>3, <2>1, LoopExitInv, LoopEnterInv, CallKernelInv, ReadPartInv,
       KernelReturnInv, SecondWaitInv DEF Worker, Iteration
  <2>2. CASE t # Swapper /\ NextIteration(t)
    BY <1>3, <2>2, NextIterationInv DEF Worker
  <2> QED
    BY <1>3, <2>1, <2>2 DEF Worker
<1>4. CASE UNCHANGED vars
  BY <1>4 DEF vars, IInv, TypeOK, WorkerTypeOK, BarrierInv, LoopInv, FrameInv,
              DataInv, CallerInv, Arrivals, HasProduct
<1> QED
  BY <1>1, <1>2, <1>3, <1>4 DEF Next, Finished

-----------------------------------------------------------------------------
\* The inductive invariant holds in every reachable state.
THEOREM InductiveInvariant == Spec => []IInv
  BY InitInv, StepInv, PTL DEF Spec

\* Every variable keeps its type, for any set of threads and number of passes.
THEOREM TypeCorrect == Spec => []TypeOK
<1>1. IInv => TypeOK
  BY DEF IInv
<1> QED
  BY <1>1, InductiveInvariant, PTL

\* The swapping loop has no data race, whatever the number of threads.
THEOREM NoDataRace == Spec => []RaceFree
<1>1. IInv => RaceFree
  <2> SUFFICES ASSUME IInv, NEW t \in Threads, InKernel(t) \/ ReadsPointers(t)
               PROVE  /\ ~SwapReady /\ pc[Swapper] # "init" /\ ~freed
                      /\ \A u \in Threads : InKernel(t) /\ InKernel(u) => frame[t].x # frame[u].y
    BY DEF RaceFree
  <2>1. ~SwapReady /\ pc[Swapper] # "init" /\ ~freed
    BY KernelPass DEF InKernel, ReadsPointers, SwapReady
  <2>2. \A u \in Threads : InKernel(t) /\ InKernel(u) => frame[t].x # frame[u].y
    BY DEF IInv, InKernel, FrameInv, DataInv
  <2> QED
    BY <2>1, <2>2
<1> QED
  BY <1>1, InductiveInvariant, PTL

\* Every element a kernel gathers belongs to the iterate of its own pass.
THEOREM KernelsGatherOneIterate == Spec => []GathersOneIterate
<1>1. IInv => GathersOneIterate
  BY DEF IInv, FrameInv, InKernel, GathersOneIterate
<1> QED
  BY <1>1, InductiveInvariant, PTL

\* After the loop x holds the NLoops-th product of the initial vector.
THEOREM LoopComputesPower == Spec => []ResultIsPower
<1>1. IInv => ResultIsPower
  BY SwapperAssumption DEF IInv, LoopInv, DataInv, ResultIsPower
<1> QED
  BY <1>1, InductiveInvariant, PTL
-----------------------------------------------------------------------------
\* Until thread 0 fills x nothing is written to either vector.
UnsetInv == pc[Swapper] = "init" => \A p \in Threads : mem[x][p] = Torn

\* Only thread 0's filling makes x set: no kernel runs before it.
LEMMA UnsetStep == IInv /\ UnsetInv /\ [Next]_vars => UnsetInv'
<1> SUFFICES ASSUME IInv, UnsetInv, [Next]_vars, pc'[Swapper] = "init"
             PROVE  \A p \in Threads : mem'[x'][p] = Torn
  BY DEF UnsetInv
<1>1. pc[Swapper] = "init" => \A t \in Threads : pc[t] # "kernel" /\ ~(pc[t] = "call" /\ Awake(t))
  BY KernelPass
<1>2. CASE Caller
  BY <1>2 DEF Caller, Create, Join, Destroy, workerVars, UnsetInv
<1>3. CASE SwapThread
  BY <1>3, SwapperAssumption DEF SwapThread, InitX, Swap, IInv, TypeOK, WorkerTypeOK
<1>4. ASSUME NEW t \in Threads, Worker(t) PROVE \A p \in Threads : mem'[x'][p] = Torn
  <2>1. pc[Swapper] = "init" /\ x' = x
    BY <1>4, SwapperAssumption DEF Worker, Iteration, LoopExit, LoopEnter, CallKernel, ReadPart,
       KernelReturn, SecondWait, NextIteration, IInv, TypeOK, WorkerTypeOK
  <2>2. mem' = mem
    BY <1>1, <1>4, <2>1 DEF Worker, Iteration, LoopExit, LoopEnter, CallKernel, ReadPart,
       KernelReturn, SecondWait, NextIteration
  <2> QED
    BY <2>1, <2>2 DEF UnsetInv
<1>5. CASE UNCHANGED vars
  BY <1>5 DEF vars, UnsetInv
<1> QED
  BY <1>2, <1>3, <1>4, <1>5 DEF Next, Finished

\* The abstract vector in terms of the loop: unset before thread 0 has filled x, then
\* as many products as thread 0 has finished passes.
Iterate == IF Uniform(x) THEN mem[x][Swapper] ELSE Torn
Passes == IF pc[Swapper] = "init" THEN Torn ELSE iter[Swapper]

LEMMA IterateIsPass == IInv /\ UnsetInv => Iterate = Passes
<1> SUFFICES ASSUME IInv, UnsetInv PROVE Iterate = Passes
  OBVIOUS
<1> USE DEF Passes
<1>1. CASE pc[Swapper] = "init"
  <2>1. \A p \in Threads : mem[x][p] = Torn
    BY <1>1 DEF UnsetInv
  <2> QED
    BY <1>1, <2>1, SwapperAssumption DEF Iterate
<1>2. CASE pc[Swapper] # "init"
  <2>1. \A p \in Threads : mem[x][p] = iter[Swapper]
    BY <1>2 DEF IInv, DataInv
  <2>2. Uniform(x)
    BY <2>1, SwapperAssumption DEF Uniform
  <2> QED
    BY <1>2, <2>1, <2>2, SwapperAssumption DEF Iterate
<1> QED
  BY <1>1, <1>2

\* Every step of the threads is a step of the one-vector iteration or changes
\* nothing of it: the filling starts it, a swap is one product.
LEMMA StepRefines ==
  ASSUME IInv, UnsetInv, IInv', UnsetInv', [Next]_vars
  PROVE  \/ Iterate = Torn /\ Iterate' = 0
         \/ Iterate >= 0 /\ Iterate < NLoops /\ Iterate' = Iterate + 1
         \/ Iterate' = Iterate
<1>1. Iterate = Passes /\ Iterate' = Passes'
  <2>1. Iterate = Passes
    BY IterateIsPass
  <2>2. (IInv /\ UnsetInv => Iterate = Passes)'
    BY IterateIsPass, PTL
  <2> QED
    BY <2>1, <2>2
<1> USE DEF Passes
<1>2. CASE Caller
  <2>1. Passes' = Passes
    BY <1>2 DEF Caller, Create, Join, Destroy, workerVars
  <2> QED
    BY <1>1, <2>1
<1>3. CASE InitX
  <2>1. Passes = Torn /\ Passes' = 0
    BY <1>3, SwapperAssumption DEF InitX, IInv, TypeOK, WorkerTypeOK, LoopInv
  <2> QED
    BY <1>1, <2>1
<1>4. CASE Swap
  <2>1. Passes = iter[Swapper] /\ Passes' = iter[Swapper] + 1 /\ iter[Swapper] \in Nat /\ iter[Swapper] < NLoops
    BY <1>4, SwapperAssumption DEF Swap, IInv, TypeOK, WorkerTypeOK, LoopInv
  <2> QED
    BY <1>1, <2>1
<1>5. ASSUME NEW t \in Threads, Worker(t) PROVE Passes' = Passes
  <2>1. iter'[Swapper] = iter[Swapper]
    BY <1>5, SwapperAssumption DEF Worker, Iteration, LoopExit, LoopEnter, CallKernel, ReadPart,
       KernelReturn, SecondWait, NextIteration, IInv, TypeOK, WorkerTypeOK
  <2>2. pc'[Swapper] = "init" <=> pc[Swapper] = "init"
    BY <1>5, SwapperAssumption DEF Worker, Iteration, LoopExit, LoopEnter, CallKernel, ReadPart,
       KernelReturn, SecondWait, NextIteration, IInv, TypeOK, WorkerTypeOK
  <2> QED
    BY <2>1, <2>2
<1>6. CASE UNCHANGED vars
  <2>1. Passes' = Passes
    BY <1>6 DEF vars
  <2> QED
    BY <1>1, <2>1
<1> QED
  BY <1>1, <1>2, <1>3, <1>4, <1>5, <1>6 DEF Next, SwapThread, Finished

\* The loop, whatever its threads do in between, implements the safety part of the
\* power iteration: its vector is set once and then multiplied once at a time, at
\* most NLoops times.
THEOREM RefinesPowerIteration ==
  Spec => Abstract!Init /\ [][Abstract!Next]_(IF Uniform(x) THEN mem[x][Swapper] ELSE Torn)
<1>1. Init => UnsetInv /\ Abstract!Init
  <2> SUFFICES ASSUME Init PROVE UnsetInv /\ Abstract!Init
    OBVIOUS
  <2>1. \A p \in Threads : mem[x][p] = Torn
    BY DEF Init, VectorsInit, Buffers
  <2> QED
    BY <2>1, SwapperAssumption DEF UnsetInv, Abstract!Init, Abstract!Unset, Torn
<1>2. IInv /\ UnsetInv /\ IInv' /\ UnsetInv' /\ [Next]_vars
        => [Abstract!Next]_(IF Uniform(x) THEN mem[x][Swapper] ELSE Torn)
  BY StepRefines DEF Iterate, Abstract!Next, Abstract!Start, Abstract!Apply, Abstract!Unset, Torn
<1> QED
  BY <1>1, <1>2, InitInv, StepInv, UnsetStep, PTL DEF Spec
=============================================================================
