-------------------------- MODULE SpmvSymMt_proofs ---------------------------
(***************************************************************************)
(* Proofs, for any partition of any number of rows and any number of       *)
(* passes.  First, that the three barriers of a pass keep the threads of   *)
(* the symmetric product apart: whatever the reduction map, nobody clears  *)
(* or reduces while a kernel runs.  Then, from where the threads are and   *)
(* from what the map holds (Operators_proofs), what each buffer and     *)
(* each private vector holds between the barriers; every product that a    *)
(* pass leaves is complete.                                                *)
(***************************************************************************)
EXTENDS SpmvSymMt, Operators_proofs

\* The parties of the barrier.
Members == Threads \cup (IF Checks THEN {Main} ELSE {})

\* Barrier calls that a party has made.
Arrivals(m) ==
  IF m = Main
    THEN 3 * pass + (IF mpc = "second" THEN 1 ELSE IF mpc = "third" THEN 2
                     ELSE IF mpc \in {"compare", "failed"} THEN 3 ELSE 0)
    ELSE 3 * iter[m] + (IF pc[m] \in {"call", "kernel", "computed"} THEN 1
                        ELSE IF pc[m] = "reduce" THEN 2 ELSE IF pc[m] = "next" THEN 3 ELSE 0)

\* Where a party can be asleep.
Sleeps(m) ==
  IF m = Main THEN mpc \in {"second", "third", "compare"}
  ELSE pc[m] \in {"call", "reduce", "next"}

TypeInv ==
  /\ loop \in {"bench", "check", "bench_numa", "check_numa"} /\ starts \in Partitions
  /\ pc \in [Threads -> {"init", "loop", "clear", "call", "kernel", "computed", "reduce",
                         "next", "exit"}]
  /\ iter \in [Threads -> Nat] /\ todo = [t \in Threads |-> todo[t]]
  /\ mpc \in {"loop", "fill", "first", "second", "third", "compare", "failed", "join", "end"}
  /\ pass \in Nat /\ round \in Nat
  /\ mpc \notin {"join", "end"} => Checks

\* Only a thread that clears or reduces has entries left.
TodoInv == \A t \in Threads : pc[t] \notin {"clear", "reduce"} => todo[t] = {}

\* Every party has been through as many rounds as the barrier has, and one that
\* sleeps is a call ahead.
BarrierInv ==
  /\ blocked \subseteq Members /\ blocked # Members
  /\ \A m \in Members : Arrivals(m) = IF m \in blocked THEN round + 1 ELSE round
  /\ \A m \in blocked : Sleeps(m)

IInv == TypeInv /\ TodoInv /\ BarrierInv

-----------------------------------------------------------------------------
\* The threads are counted from 0, and the calling thread is none of them.
LEMMA ThreadsCounted ==
  ASSUME starts \in Partitions
  PROVE  /\ 0 \in Threads /\ Main \notin Threads
         /\ IsFiniteSet(Threads) /\ Cardinality(Threads) = Len(starts)
<1>1. Len(starts) \in Nat \ {0}
  BY PartitionsAssumption
<1>2. IsFiniteSet(Threads) /\ Cardinality(Threads) = Len(starts)
  BY <1>1, FS_Interval DEF Threads
<1> QED
  BY <1>1, <1>2 DEF Threads, Main

\* The barrier is initialised for its members.
LEMMA MembersCounted ==
  ASSUME starts \in Partitions
  PROVE  IsFiniteSet(Members) /\ Cardinality(Members) = Parties /\ Members # {}
<1>1. CASE Checks
  <2>1. Members = Threads \cup {Main}
    BY <1>1 DEF Members
  <2> QED
    BY <1>1, <2>1, ThreadsCounted, FS_AddElement DEF Parties
<1>2. CASE ~Checks
  <2>1. Members = Threads
    BY <1>2 DEF Members
  <2>2. Len(starts) \in Nat
    BY PartitionsAssumption
  <2> QED
    BY <1>2, <2>1, <2>2, ThreadsCounted DEF Parties
<1> QED
  BY <1>1, <1>2

\* What a call of pthread_barrier_wait does: the last member's arrival opens the
\* next round, any other goes to sleep.
LEMMA BarrierStep ==
  ASSUME starts \in Partitions, NEW m \in Members, blocked \subseteq Members,
         BarrierWait(m, Parties)
  PROVE  /\ m \notin blocked
         /\ \/ /\ blocked = Members \ {m}
               /\ blocked' = {} /\ round' = round + 1
            \/ /\ blocked \cup {m} # Members
               /\ blocked' = blocked \cup {m} /\ round' = round
<1>1. m \notin blocked
  BY DEF BarrierWait, Awake
<1>2. IsFiniteSet(blocked) /\ Cardinality(blocked) \in Nat
  BY MembersCounted, FS_Subset, FS_CardinalityType
<1>3. IsFiniteSet(blocked \cup {m}) /\ Cardinality(blocked \cup {m}) = Cardinality(blocked) + 1
  BY <1>1, <1>2, FS_AddElement
<1>4. CASE Cardinality(blocked) + 1 = Parties
  <2>1. blocked \cup {m} = Members
    BY <1>3, <1>4, MembersCounted, FS_Subset
  <2>2. blocked = Members \ {m}
    BY <1>1, <2>1
  <2> QED
    BY <1>1, <1>4, <2>2 DEF BarrierWait
<1>5. CASE Cardinality(blocked) + 1 # Parties
  <2>1. blocked \cup {m} # Members
    BY <1>3, <1>5, MembersCounted
  <2> QED
    BY <1>1, <1>5, <2>1 DEF BarrierWait
<1> QED
  BY <1>4, <1>5

\* A barrier call that moves its caller on by one arrival keeps BarrierInv.
LEMMA BarrierCall ==
  ASSUME starts \in Partitions, NEW m \in Members, BarrierInv, round \in Nat,
         BarrierWait(m, Parties), Members' = Members,
         Arrivals(m) = round => Arrivals(m)' = round + 1, Sleeps(m)',
         \A n \in Members \ {m} : Arrivals(n)' = Arrivals(n) /\ (Sleeps(n) => Sleeps(n)')
  PROVE  BarrierInv'
<1>1. /\ m \notin blocked
      /\ \/ /\ blocked = Members \ {m}
            /\ blocked' = {} /\ round' = round + 1
         \/ /\ blocked \cup {m} # Members
            /\ blocked' = blocked \cup {m} /\ round' = round
  BY BarrierStep DEF BarrierInv
<1>2. Arrivals(m)' = round + 1
  BY <1>1 DEF BarrierInv
<1>3. \A n \in Members : Arrivals(n)' = IF n \in blocked' THEN round' + 1 ELSE round'
  <2> SUFFICES ASSUME NEW n \in Members
               PROVE  Arrivals(n)' = IF n \in blocked' THEN round' + 1 ELSE round'
    OBVIOUS
  <2>1. CASE n = m
    BY <1>1, <1>2, <2>1
  <2>2. CASE n # m
    <3>1. Arrivals(n)' = Arrivals(n) /\ Arrivals(n) = IF n \in blocked THEN round + 1 ELSE round
      BY <2>2 DEF BarrierInv
    <3> QED
      BY <1>1, <2>2, <3>1
  <2> QED
    BY <2>1, <2>2
<1>4. \A n \in blocked' : Sleeps(n)'
  BY <1>1 DEF BarrierInv
<1>5. blocked' \subseteq Members' /\ blocked' # Members'
  BY <1>1, MembersCounted DEF BarrierInv
<1> QED
  BY <1>3, <1>4, <1>5 DEF BarrierInv

\* A step between barrier calls, which no sleeper makes, keeps it too.
LEMMA QuietStep ==
  ASSUME BarrierInv, NEW m, m \notin blocked, Members' = Members, UNCHANGED <<round, blocked>>,
         Arrivals(m)' = Arrivals(m),
         \A n \in Members \ {m} : Arrivals(n)' = Arrivals(n) /\ (Sleeps(n) => Sleeps(n)')
  PROVE  BarrierInv'
<1>1. \A n \in Members : Arrivals(n)' = Arrivals(n)
  OBVIOUS
<1>2. \A n \in blocked : Sleeps(n)'
  BY DEF BarrierInv
<1> QED
  BY <1>1, <1>2 DEF BarrierInv

-----------------------------------------------------------------------------
\* The initial states satisfy the invariant: no barrier call has been made.
LEMMA InitInv == Init => IInv
<1> SUFFICES ASSUME Init PROVE IInv
  OBVIOUS
<1>1. TypeInv
  BY DEF Init, TypeInv, BarrierInit, Checks
<1>2. TodoInv
  BY DEF Init, TodoInv
<1>3. BarrierInv
  <2>1. starts \in Partitions /\ round = 0 /\ blocked = {}
    BY DEF Init, BarrierInit
  <2>2. \A m \in Members : Arrivals(m) = 0
    BY DEF Init, Members, Arrivals, Main
  <2> QED
    BY <2>1, <2>2, MembersCounted DEF BarrierInv
<1> QED
  BY <1>1, <1>2, <1>3 DEF IInv

\* The part of each worker's step that concerns the barrier.
Control(t) ==
  /\ pc' = [pc EXCEPT ![t] = pc'[t]] /\ iter' = [iter EXCEPT ![t] = iter'[t]]
  /\ todo' = [todo EXCEPT ![t] = todo'[t]]
  /\ UNCHANGED <<loop, starts, mpc, pass>>

\* No other party's place in its pass is disturbed.
LEMMA OthersUntouched ==
  ASSUME TypeInv, NEW t \in Threads, Control(t)
  PROVE  /\ Threads' = Threads /\ Members' = Members /\ t # Main /\ t \in Members
         /\ \A n \in Members \ {t} : Arrivals(n)' = Arrivals(n) /\ (Sleeps(n) => Sleeps(n)')
<1>1. Threads' = Threads /\ Members' = Members
  BY DEF Control, Threads, Members, Checks
<1>2. t # Main /\ t \in Members
  BY ThreadsCounted DEF TypeInv, Members
<1>3. ASSUME NEW n \in Members \ {t}
      PROVE  Arrivals(n)' = Arrivals(n) /\ (Sleeps(n) => Sleeps(n)')
  <2>1. n = Main \/ n \in Threads
    BY DEF Members
  <2>2. CASE n = Main
    BY <2>2 DEF Control, Arrivals, Sleeps
  <2>3. CASE n # Main
    <3>1. n \in Threads /\ n # t
      BY <2>1, <2>3
    <3>2. pc'[n] = pc[n] /\ iter'[n] = iter[n]
      BY <3>1 DEF TypeInv, Control
    <3> QED
      BY <2>3, <3>2 DEF Arrivals, Sleeps
  <2> QED
    BY <2>2, <2>3
<1> QED
  BY <1>1, <1>2, <1>3

\* A worker's step without a barrier call keeps the invariant.
LEMMA QuietWorkerStep ==
  ASSUME IInv, NEW t \in Threads, Control(t), t \notin blocked, UNCHANGED barrier,
         pc'[t] \in {"init", "loop", "clear", "call", "kernel", "computed", "reduce", "next", "exit"},
         iter'[t] \in Nat, pc'[t] \notin {"clear", "reduce"} => todo'[t] = {},
         Arrivals(t)' = Arrivals(t)
  PROVE  IInv'
<1>1. Threads' = Threads /\ Members' = Members
  BY OthersUntouched DEF IInv
<1>2. TypeInv'
  <2>1. todo' = [u \in Threads |-> todo'[u]]
    BY DEF Control, IInv, TypeInv
  <2>2. pc' \in [Threads -> {"init", "loop", "clear", "call", "kernel", "computed", "reduce",
                             "next", "exit"}]
    BY DEF Control, IInv, TypeInv
  <2>3. iter' \in [Threads -> Nat]
    BY DEF Control, IInv, TypeInv
  <2> QED
    BY <1>1, <2>1, <2>2, <2>3 DEF Control, IInv, TypeInv, barrier, Checks
<1>3. TodoInv'
  <2>1. \A u \in Threads \ {t} : pc'[u] = pc[u] /\ todo'[u] = todo[u]
    BY DEF Control, IInv, TypeInv
  <2> QED
    BY <1>1, <2>1 DEF IInv, TodoInv
<1>4. BarrierInv'
  BY OthersUntouched, QuietStep DEF IInv, barrier
<1> QED
  BY <1>2, <1>3, <1>4 DEF IInv

\* A worker's barrier call keeps it.
LEMMA WaitingWorkerStep ==
  ASSUME IInv, NEW t \in Threads, Control(t), BarrierWait(t, Parties),
         \/ pc[t] = "clear" /\ pc'[t] = "call" /\ todo'[t] = {}
         \/ pc[t] = "computed" /\ pc'[t] = "reduce"
         \/ pc[t] = "reduce" /\ pc'[t] = "next" /\ todo'[t] = {},
         iter'[t] = iter[t]
  PROVE  IInv'
<1>1. Threads' = Threads /\ Members' = Members /\ t # Main
  BY OthersUntouched DEF IInv
<1>2. TypeInv'
  <2>1. todo' = [u \in Threads |-> todo'[u]]
    BY DEF Control, IInv, TypeInv
  <2>2. pc' \in [Threads -> {"init", "loop", "clear", "call", "kernel", "computed", "reduce",
                             "next", "exit"}]
    BY DEF Control, IInv, TypeInv
  <2>3. iter' \in [Threads -> Nat] /\ round' \in Nat
    BY DEF Control, IInv, TypeInv, BarrierWait
  <2> QED
    BY <1>1, <2>1, <2>2, <2>3 DEF Control, IInv, TypeInv, Checks
<1>3. TodoInv'
  <2>1. \A u \in Threads \ {t} : pc'[u] = pc[u] /\ todo'[u] = todo[u]
    BY DEF Control, IInv, TypeInv
  <2> QED
    BY <1>1, <2>1 DEF IInv, TodoInv
<1>4. BarrierInv'
  <2>1. Arrivals(t) = round => Arrivals(t)' = round + 1
    BY <1>1 DEF IInv, TypeInv, Arrivals
  <2>2. Sleeps(t)'
    BY <1>1 DEF Sleeps
  <2> QED
    BY <2>1, <2>2, OthersUntouched, BarrierCall DEF IInv, TypeInv
<1> QED
  BY <1>2, <1>3, <1>4 DEF IInv

\* Every step of a worker keeps the invariant.
LEMMA ThreadInv ==
  ASSUME IInv, NEW t \in Threads, Thread(t)
  PROVE  IInv'
<1> USE DEF matrix, caller, Control, barrier
<1>1. t # Main
  BY ThreadsCounted DEF IInv, TypeInv
<1>2. /\ pc = [u \in Threads |-> pc[u]] /\ iter = [u \in Threads |-> iter[u]]
      /\ todo = [u \in Threads |-> todo[u]] /\ iter[t] \in Nat
      /\ pc[t] \notin {"clear", "reduce"} => todo[t] = {}
  BY DEF IInv, TypeInv, TodoInv
<1>3. pc[t] \notin {"call", "reduce", "next"} => t \notin blocked
  BY <1>1 DEF IInv, BarrierInv, Sleeps
<1>4. CASE t = 0 /\ InitX
  <2>1. Control(t) /\ pc[t] = "init" /\ pc'[t] = "loop" /\ iter'[t] = iter[t] /\ todo'[t] = todo[t]
    BY <1>2, <1>4 DEF InitX
  <2> QED
    BY <1>1, <1>2, <1>3, <1>4, <2>1, QuietWorkerStep DEF Arrivals, InitX
<1>5. CASE LoopStart(t)
  <2>1. /\ Control(t) /\ pc[t] = "loop" /\ pc'[t] \in {"clear", "exit"} /\ iter'[t] = iter[t]
        /\ pc'[t] = "exit" => todo'[t] = todo[t]
    BY <1>2, <1>5 DEF LoopStart
  <2> QED
    BY <1>1, <1>2, <1>3, <1>5, <2>1, QuietWorkerStep DEF Arrivals, LoopStart
<1>6. CASE \E k \in todo[t] : Clear(t, k)
  <2>1. Control(t) /\ pc[t] = "clear" /\ pc'[t] = "clear" /\ iter'[t] = iter[t]
    BY <1>2, <1>6 DEF Clear
  <2> QED
    BY <1>1, <1>2, <1>3, <1>6, <2>1, QuietWorkerStep DEF Arrivals, Clear
<1>7. CASE FirstWait(t)
  <2>1. Control(t) /\ pc[t] = "clear" /\ pc'[t] = "call" /\ todo'[t] = {} /\ iter'[t] = iter[t]
    BY <1>2, <1>7 DEF FirstWait, Wait
  <2> QED
    BY <1>7, <2>1, WaitingWorkerStep DEF FirstWait, Wait
<1>8. CASE CallKernel(t)
  <2>1. Control(t) /\ pc[t] = "call" /\ pc'[t] = "kernel" /\ iter'[t] = iter[t] /\ todo'[t] = todo[t]
    BY <1>2, <1>8 DEF CallKernel
  <2> QED
    BY <1>1, <1>2, <1>8, <2>1, QuietWorkerStep DEF Arrivals, CallKernel, Awake
<1>9. CASE KernelReturn(t)
  <2>1. /\ Control(t) /\ pc[t] = "kernel" /\ pc'[t] = "computed" /\ iter'[t] = iter[t]
        /\ todo'[t] = todo[t]
    BY <1>2, <1>9 DEF KernelReturn
  <2> QED
    BY <1>1, <1>2, <1>3, <1>9, <2>1, QuietWorkerStep DEF Arrivals, KernelReturn
<1>10. CASE SecondWait(t)
  <2>1. Control(t) /\ pc[t] = "computed" /\ pc'[t] = "reduce" /\ iter'[t] = iter[t]
    BY <1>2, <1>10 DEF SecondWait
  <2> QED
    BY <1>10, <2>1, WaitingWorkerStep DEF SecondWait
<1>11. CASE Reduce(t)
  <2>1. Control(t) /\ pc[t] = "reduce" /\ pc'[t] = "reduce" /\ iter'[t] = iter[t]
    BY <1>2, <1>11 DEF Reduce
  <2> QED
    BY <1>1, <1>2, <1>11, <2>1, QuietWorkerStep DEF Arrivals, Reduce, Awake
<1>12. CASE ThirdWait(t)
  <2>1. Control(t) /\ pc[t] = "reduce" /\ pc'[t] = "next" /\ todo'[t] = {} /\ iter'[t] = iter[t]
    BY <1>2, <1>12 DEF ThirdWait, Wait
  <2> QED
    BY <1>12, <2>1, WaitingWorkerStep DEF ThirdWait, Wait
<1>13. CASE EndPass(t)
  <2>1. /\ Control(t) /\ pc[t] = "next" /\ pc'[t] = "loop" /\ iter'[t] = iter[t] + 1
        /\ todo'[t] = todo[t]
    BY <1>2, <1>13 DEF EndPass
  <2>2. Arrivals(t)' = Arrivals(t)
    BY <1>1, <1>2, <2>1 DEF Arrivals
  <2>3. iter'[t] \in Nat
    BY <1>2, <2>1
  <2> QED
    BY <1>2, <1>13, <2>1, <2>2, <2>3, QuietWorkerStep DEF EndPass, Awake
<1> QED
  BY <1>4, <1>5, <1>6, <1>7, <1>8, <1>9, <1>10, <1>11, <1>12, <1>13 DEF Thread

\* Every step of the calling thread keeps the invariant.
LEMMA CallerInv ==
  ASSUME IInv, Caller
  PROVE  IInv'
<1> USE DEF matrix, workers
<1>1. UNCHANGED <<loop, starts, pc, iter, todo>> /\ Threads' = Threads /\ Members' = Members
  BY DEF Caller, MainLoop, MainFill, MainWait, MainCompare, MainJoin, Threads, Members, Checks
<1>2. TodoInv'
  BY <1>1 DEF IInv, TodoInv
<1>3. \A n \in Members \ {Main} : Arrivals(n)' = Arrivals(n) /\ (Sleeps(n) => Sleeps(n)')
  BY <1>1 DEF Arrivals, Sleeps
<1>4. pass \in Nat /\ round \in Nat /\ starts \in Partitions
  BY DEF IInv, TypeInv
<1>5. CASE MainWait
  <2>1. Main \in Members /\ Checks
    BY <1>5 DEF MainWait, IInv, TypeInv, Members
  <2>2. Sleeps(Main)' /\ Arrivals(Main)' = Arrivals(Main) + 1
    BY <1>4, <1>5 DEF MainWait, Sleeps, Arrivals
  <2>3. BarrierInv'
    BY <1>1, <1>3, <1>4, <1>5, <2>1, <2>2, BarrierCall DEF MainWait, IInv
  <2>4. TypeInv'
    <3>1. round' \in Nat /\ mpc' \in {"second", "third", "compare"} /\ pass' = pass
      BY <1>4, <1>5 DEF MainWait, BarrierWait
    <3> QED
      BY <1>1, <2>1, <3>1 DEF IInv, TypeInv, Checks
  <2> QED
    BY <1>2, <2>3, <2>4 DEF IInv
<1>6. CASE MainLoop \/ MainFill \/ MainCompare \/ MainJoin
  <2>1. UNCHANGED <<round, blocked>>
    BY <1>6 DEF MainLoop, MainFill, MainCompare, MainJoin, barrier
  <2>2. Main \notin blocked
    BY <1>6 DEF MainLoop, MainFill, MainCompare, MainJoin, Awake, IInv, BarrierInv, Sleeps
  <2>3. Arrivals(Main)' = Arrivals(Main)
    <3>1. CASE MainCompare
      BY <1>4, <3>1 DEF MainCompare, Arrivals
    <3>2. CASE MainLoop \/ MainFill \/ MainJoin
      BY <3>2 DEF MainLoop, MainFill, MainJoin, Arrivals
    <3> QED
      BY <1>6, <3>1, <3>2
  <2>4. BarrierInv'
    BY <1>1, <1>3, <2>1, <2>2, <2>3, QuietStep DEF IInv
  <2>5. TypeInv'
    <3>1. pass' \in Nat
      BY <1>4, <1>6 DEF MainLoop, MainFill, MainCompare, MainJoin
    <3>2. /\ mpc' \in {"loop", "fill", "first", "failed", "join", "end"}
          /\ mpc' \notin {"join", "end"} => Checks
      BY <1>6 DEF MainLoop, MainFill, MainCompare, MainJoin, IInv, TypeInv
    <3> QED
      BY <1>1, <2>1, <3>1, <3>2 DEF IInv, TypeInv, Checks
  <2> QED
    BY <1>2, <2>4, <2>5 DEF IInv
<1> QED
  BY <1>5, <1>6 DEF Caller

\* The invariant is inductive.
LEMMA StepInv == IInv /\ [Next]_vars => IInv'
<1> SUFFICES ASSUME IInv, [Next]_vars PROVE IInv'
  OBVIOUS
<1>1. CASE Caller
  BY <1>1, CallerInv
<1>2. CASE \E t \in Threads : Thread(t)
  BY <1>2, ThreadInv
<1>3. CASE UNCHANGED vars
  BY <1>3 DEF vars, matrix, caller, barrier, IInv, TypeInv, TodoInv, BarrierInv, Threads,
              Members, Checks, Arrivals, Sleeps
<1> QED
  BY <1>1, <1>2, <1>3 DEF Next, Finished

\* In every reachable state of the symmetric loops the barrier's rounds tell where
\* the threads and the calling thread are, asleep or not.
THEOREM InductiveInvariant == Spec => []IInv
BY InitInv, StepInv, PTL DEF Spec

-----------------------------------------------------------------------------
\* The arrivals of a thread in its kernel differ from those of any thread in another phase.
LEMMA ThirdsDiffer ==
  ASSUME NEW i \in Nat, NEW j \in Nat
  PROVE  3 * i + 1 # 3 * j /\ 3 * i + 1 # 3 * j + 2 /\ 3 * i + 1 # 3 * j + 3
  OBVIOUS

\* No kernel runs while another thread clears or reduces private vectors or ends the
\* pass, and the calling thread is not at the vectors while a worker is.
LEMMA RaceFreeFromInv == IInv => RaceFree
<1> SUFFICES ASSUME IInv PROVE RaceFree
  OBVIOUS
<1>1. \A t \in Threads : t \in Members /\ t # Main /\ iter[t] \in Nat
  BY ThreadsCounted DEF IInv, TypeInv, Members
<1>2. ASSUME NEW t \in Threads, pc[t] = "kernel", NEW u \in Threads \ {t}
      PROVE  (pc[u] # "clear" \/ todo[u] = {}) /\ ~(pc[u] \in {"reduce", "next"} /\ Awake(u))
  <2>1. round = 3 * iter[t] + 1
    BY <1>1, <1>2 DEF IInv, BarrierInv, Arrivals, Sleeps
  <2>2. pc[u] = "clear" => round = 3 * iter[u]
    BY <1>1 DEF IInv, BarrierInv, TypeInv, Arrivals, Sleeps
  <2>3. pc[u] = "reduce" /\ Awake(u) => round = 3 * iter[u] + 2
    BY <1>1 DEF IInv, BarrierInv, TypeInv, Arrivals, Awake
  <2>4. pc[u] = "next" /\ Awake(u) => round = 3 * iter[u] + 3
    BY <1>1 DEF IInv, BarrierInv, TypeInv, Arrivals, Awake
  <2> QED
    BY <1>1, <2>1, <2>2, <2>3, <2>4, ThirdsDiffer
<1>3. ASSUME mpc = "fill" \/ (mpc = "compare" /\ Awake(Main)), NEW t \in Threads
      PROVE  ~(pc[t] = "kernel" \/ (pc[t] = "reduce" /\ todo[t] # {})
               \/ (pc[t] = "call" /\ Awake(t)))
  <2>1. Main \in Members /\ Main \notin blocked /\ pass \in Nat /\ round \in Nat
    BY <1>3 DEF IInv, BarrierInv, TypeInv, Members, Sleeps, Awake
  <2>2. round = 3 * pass \/ round = 3 * pass + 3
    BY <1>3, <2>1 DEF IInv, BarrierInv, Arrivals
  <2>3. pc[t] = "kernel" => round = 3 * iter[t] + 1
    BY <1>1 DEF IInv, BarrierInv, Arrivals, Sleeps
  <2>4. pc[t] = "call" /\ Awake(t) => round = 3 * iter[t] + 1
    BY <1>1 DEF IInv, BarrierInv, Arrivals, Awake
  <2>5. pc[t] = "reduce" => 3 * iter[t] + 2 = round \/ 3 * iter[t] + 2 = round + 1
    BY <1>1 DEF IInv, BarrierInv, Arrivals
  <2> QED
    BY <1>1, <2>1, <2>2, <2>3, <2>4, <2>5
<1> QED
  BY <1>2, <1>3 DEF RaceFree

\* The symmetric product is free of data races between its phases for any number of
\* threads, rows and passes, whatever rows the threads' elements reach.
THEOREM NoDataRace == Spec => []RaceFree
BY InductiveInvariant, RaceFreeFromInv, PTL

-----------------------------------------------------------------------------
(***************************************************************************)
(* The data.                                                               *)
(***************************************************************************)
\* What the map is made from never changes.
MatrixInv ==
  /\ loop \in {"bench", "check", "bench_numa", "check_numa"} /\ starts \in Partitions
  /\ above \in [Threads -> SUBSET Rows]
  /\ \A t \in Threads : \A r \in above[t] : r < starts[t + 1]
  /\ map = MakeMap(above, Len(starts))

\* MakeMapOnce, of the threads of the loop.
MapOnce == EachOnce(map, above, Len(starts))

\* The map is made from rows that parts can reach, so MakeMapOnce applies to it.
LEMMA MapOnceFromInv == MatrixInv => MapOnce
<1> SUFFICES ASSUME MatrixInv PROVE MapOnce
  OBVIOUS
<1> DEFINE n == Len(starts)
<1>1. n \in Nat \ {0} /\ starts \in Seq(Nat) /\ \A i \in 1..n : starts[i] < NRows
  BY PartitionsAssumption DEF MatrixInv
<1>2. \A k \in 0..(n - 1) : above[k] \in SUBSET (0..(NRows - 2))
  <2> SUFFICES ASSUME NEW k \in 0..(n - 1), NEW r \in above[k] PROVE r \in 0..(NRows - 2)
    OBVIOUS
  <2>1. r \in 0..(NRows - 1) /\ r < starts[k + 1]
    BY DEF MatrixInv, Threads, Rows
  <2>2. k + 1 \in 1..n
    BY <1>1
  <2>3. starts[k + 1] \in Nat /\ starts[k + 1] < NRows
    BY <1>1, <2>2
  <2> QED
    BY <2>1, <2>3, NRowsAssumption
<1>3. map = MakeMap(above, n)
  BY DEF MatrixInv
<1> HIDE DEF n
<1> QED
  BY <1>1, <1>2, <1>3, MakeMapOnce DEF MapOnce, n

\* The map has each private element once, whatever rows the threads reach.
LEMMA MapCoversFromInv == MatrixInv => MapCoversConflicts
<1> SUFFICES ASSUME MatrixInv PROVE MapCoversConflicts
  OBVIOUS
<1>1. MapOnce
  BY MapOnceFromInv
<1>2. \A t \in Threads : IsInjective(map[t])
  BY <1>1 DEF MapOnce, EachOnce, Threads, IsInjective
<1>3. ASSUME NEW k \in Threads, NEW r \in Rows
      PROVE  LET reducers == {t \in Threads : <<k, r>> \in ToSet(map[t])}
             IN  Cardinality(reducers) = IF r \in above[k] THEN 1 ELSE 0
  <2> DEFINE reducers == {t \in Threads : <<k, r>> \in ToSet(map[t])}
  <2>1. CASE r \in above[k]
    <3>1. PICK t \in Threads : \E i \in DOMAIN map[t] : map[t][i] = <<k, r>>
      BY <1>1, <2>1 DEF MapOnce, EachOnce, Threads
    <3>2. t \in reducers
      BY <3>1 DEF ToSet
    <3>3. ASSUME NEW u \in reducers PROVE u = t
      <4>1. \E j \in DOMAIN map[u] : map[u][j] = <<k, r>>
        BY DEF ToSet
      <4>2. PICK i \in DOMAIN map[t], j \in DOMAIN map[u] : map[t][i] = <<k, r>> /\ map[u][j] = <<k, r>>
        BY <3>1, <4>1
      <4>3. map[t][i][2] = map[u][j][2]
        BY <4>2
      <4> QED
        BY <1>1, <4>3 DEF MapOnce, EachOnce, Threads
    <3>4. reducers = {t}
      BY <3>2, <3>3
    <3> QED
      BY <2>1, <3>4, FS_Singleton
  <2>2. CASE r \notin above[k]
    <3>1. ASSUME NEW u \in reducers PROVE FALSE
      <4>1. PICK j \in DOMAIN map[u] : map[u][j] = <<k, r>>
        BY DEF ToSet
      <4>2. \E l \in Threads : \E s \in above[l] : map[u][j] = <<l, s>>
        BY <1>1 DEF MapOnce, EachOnce, Threads
      <4> QED
        BY <2>2, <4>1, <4>2
    <3>2. reducers = {}
      BY <3>1
    <3> QED
      BY <2>2, <3>2, FS_EmptySet
  <2> QED
    BY <2>1, <2>2
<1>4. ASSUME NEW t \in Threads, NEW u \in Threads, NEW a \in ToSet(map[t]), NEW b \in ToSet(map[u]),
             a[2] = b[2]
      PROVE  t = u
  <2>1. (\E i \in DOMAIN map[t] : map[t][i] = a) /\ \E j \in DOMAIN map[u] : map[u][j] = b
    BY DEF ToSet
  <2> QED
    BY <1>1, <1>4, <2>1 DEF MapOnce, EachOnce, Threads
<1> QED
  BY <1>2, <1>3, <1>4 DEF MapCoversConflicts

\* A row is in the part of one thread, its owner, and no thread reaches it from there.
LEMMA OneOwner ==
  ASSUME MatrixInv, NEW r \in Rows
  PROVE  /\ Owner(r) \in Threads /\ r \in Own(Owner(r))
         /\ \A t \in Threads : r \in Own(t) => t = Owner(r)
         /\ \A t \in Threads : r \in above[t] => t # Owner(r)
<1> DEFINE n == Len(starts)
<1>1. /\ n \in Nat \ {0} /\ starts[1] = 0
      /\ \A i \in 1..n : starts[i] \in Nat /\ starts[i] < NRows
      /\ \A i, j \in 1..n : i < j => starts[i] <= starts[j]
  <2>1. starts \in Seq(Nat) /\ starts # <<>>
    BY PartitionsAssumption DEF MatrixInv
  <2>2. n \in Nat \ {0} /\ DOMAIN starts = 1..n /\ \A i \in 1..n : starts[i] \in Nat
    BY <2>1
  <2> QED
    BY <2>2, PartitionsAssumption DEF MatrixInv
<1>2. Threads = 0..(n - 1)
  BY DEF Threads
<1>3. \A t \in Threads : Own(t) = starts[t + 1]..(IF t = n - 1 THEN NRows ELSE starts[t + 2]) - 1
  BY DEF Own
<1> HIDE DEF n
<1>4. r \in Nat /\ r < NRows /\ NRows \in Nat
  BY NRowsAssumption DEF Rows
<1>5. \A t \in Threads : r \in Own(t) <=> starts[t + 1] <= r /\ (t # n - 1 => r < starts[t + 2])
  <2> SUFFICES ASSUME NEW t \in Threads
               PROVE  r \in Own(t) <=> starts[t + 1] <= r /\ (t # n - 1 => r < starts[t + 2])
    OBVIOUS
  <2>1. starts[t + 1] \in Nat
    BY <1>1, <1>2
  <2>2. CASE t = n - 1
    BY <1>3, <1>4, <2>1, <2>2
  <2>3. CASE t # n - 1
    <3>1. t + 2 \in 1..n
      BY <1>1, <1>2, <2>3
    <3>2. starts[t + 2] \in Nat
      BY <1>1, <3>1
    <3> QED
      BY <1>3, <1>4, <2>1, <2>3, <3>2
  <2> QED
    BY <2>2, <2>3
<1>6. \E t \in Threads : r \in Own(t)
  <2> DEFINE S == {k \in 0..(n - 1) : starts[n - k] <= r}
  <2>1. n - 1 \in S
    BY <1>1, <1>4
  <2>2. PICK k \in S : \A m \in S : k <= m
    <3>1. S \in SUBSET Nat /\ S # {}
      BY <1>1, <2>1
    <3> HIDE DEF S
    <3> QED
      BY <3>1, LeastNat
  <2>3. n - k - 1 \in Threads /\ (n - k - 1) + 1 = n - k /\ starts[n - k] <= r
    BY <1>1, <1>2, <2>2
  <2>4. n - k - 1 # n - 1 => r < starts[(n - k - 1) + 2]
    <3> SUFFICES ASSUME k # 0 PROVE r < starts[n - (k - 1)]
      BY <1>1, <2>2
    <3>1. k - 1 \in 0..(n - 1) /\ k - 1 \notin S
      BY <1>1, <2>2
    <3>2. starts[n - (k - 1)] \in Nat
      BY <1>1, <3>1
    <3> QED
      BY <1>4, <3>1, <3>2
  <2> QED
    BY <1>5, <2>3, <2>4
<1>7. ASSUME NEW t \in Threads, NEW u \in Threads, t < u, r \in Own(t), r \in Own(u) PROVE FALSE
  <2>1. t # n - 1 /\ t + 2 \in 1..n /\ u + 1 \in 1..n /\ (t + 2 = u + 1 \/ t + 2 < u + 1)
    BY <1>1, <1>2, <1>7
  <2>2. starts[t + 2] <= starts[u + 1] /\ starts[t + 2] \in Nat /\ starts[u + 1] \in Nat
    <3>1. starts[t + 2] \in Nat /\ starts[u + 1] \in Nat
      BY <1>1, <2>1
    <3> QED
      BY <1>1, <2>1, <3>1
  <2>3. r < starts[t + 2] /\ starts[u + 1] <= r
    BY <1>5, <1>7, <2>1
  <2> QED
    BY <1>4, <2>2, <2>3
<1>8. \A t, u \in Threads : t = u \/ t < u \/ u < t
  BY <1>1, <1>2
<1>9. Owner(r) \in Threads /\ r \in Own(Owner(r))
  BY <1>6 DEF Owner
<1>10. \A t \in Threads : r \in Own(t) => t = Owner(r)
  BY <1>7, <1>8, <1>9
<1>11. ASSUME NEW t \in Threads, r \in above[t] PROVE r \notin Own(t)
  <2>1. r < starts[t + 1] /\ starts[t + 1] \in Nat
    BY <1>1, <1>2, <1>11 DEF MatrixInv
  <2> QED
    BY <1>4, <1>5, <2>1
<1> QED
  BY <1>9, <1>10, <1>11

\* v is a vector; f has one for each member of S.
Vector(v) == v = [r \in Rows |-> v[r]]
Grid(f, S) == f = [t \in S |-> [r \in Rows |-> f[t][r]]]

\* The two buffers are of all rows, and so are the private vectors.
BufferInv ==
  /\ x \in {"bx", "by"} /\ y \in {"bx", "by"} /\ x # y
  /\ Grid(mem, {"bx", "by"}) /\ Grid(temp, Threads)
  /\ args = [t \in Threads |-> args[t]]

\* Where the loops' conditions leave the threads.
PlaceInv ==
  /\ \A t \in Threads : /\ pc[t] = "init" => t = 0 /\ iter[t] = 0 /\ loop = "bench"
                        /\ pc[t] \notin {"init", "loop", "exit"} => iter[t] < NLoops
                        /\ todo[t] \subseteq DOMAIN map[t]
  /\ mpc # "failed"
  /\ mpc = "fill" => loop = "check"

\* Pass i's input is filled in; the buffers of the input and of the last product.
InputReady ==
  /\ loop = "bench" => pc[0] # "init"
  /\ loop = "check" => mpc \in {"first", "second", "third"}
InBuf == IF loop = "bench" /\ pc[0] = "next" THEN y ELSE x
ResBuf == IF loop = "bench" /\ pc[0] # "next" THEN x ELSE y

\* What thread t's kernel adds in pass i, and what element r of the product has when
\* some of its private elements have been added.
Share(t, i) == [of |-> IF Numa THEN 1 ELSE i + 1, from |-> {t}]
Added(r) == {k \in Threads : \E t \in Threads : \E e \in DOMAIN map[t] \ todo[t] : map[t][e] = <<k, r>>}
Partial(i, r) == [of |-> IF Numa THEN 1 ELSE i + 1, from |-> {Owner(r)} \cup Added(r)]

\* Before the first barrier of pass i, between the first and the second, and between
\* the second and the third.
Cleared(i) == round = 3 * i =>
  /\ InputReady => \A r \in Rows : mem[InBuf][r] = Input(i, r)
  /\ i > 0 /\ (loop = "check" => mpc = "compare") =>
       \A r \in Rows : mem[ResBuf][r] = Output(i - 1, r)
  /\ \A t \in Threads : pc[t] \in {"clear", "call"} =>
       \A e \in DOMAIN map[t] \ todo[t] : temp[map[t][e][1]][map[t][e][2]] = Zero
Computed(i) == round = 3 * i + 1 =>
  /\ \A r \in Rows : mem[x][r] = Input(i, r)
  /\ \A t \in Threads :
       /\ pc[t] \in {"call", "kernel"} => \A r \in above[t] : temp[t][r] = Zero
       /\ pc[t] = "kernel" => args[t] = <<x, y>> /\ \A r \in Own(t) : mem[y][r] = Zero
       /\ pc[t] \in {"computed", "reduce"} => /\ \A r \in Own(t) : mem[y][r] = Share(t, i)
                                              /\ \A r \in above[t] : temp[t][r] = Share(t, i)
       /\ pc[t] = "reduce" => todo[t] = DOMAIN map[t]
Reduced(i) == round = 3 * i + 2 =>
  /\ \A r \in Rows : mem[x][r] = Input(i, r)
  /\ \A t \in Threads : \A r \in above[t] : temp[t][r] = Share(t, i)
  /\ \A r \in Rows : mem[y][r] = Partial(i, r)

DataInv == \A i \in Nat : Cleared(i) /\ Computed(i) /\ Reduced(i)

FullInv == IInv /\ MatrixInv /\ BufferInv /\ PlaceInv /\ DataInv

-----------------------------------------------------------------------------
\* The round says where a thread is.
LEMMA WorkerPlace ==
  ASSUME IInv, NEW u \in Threads, NEW i \in Nat
  PROVE  /\ round = 3 * i =>
              \/ pc[u] \in {"init", "loop", "clear", "exit"} /\ iter[u] = i /\ u \notin blocked
              \/ pc[u] = "next" /\ iter[u] + 1 = i /\ u \notin blocked
              \/ pc[u] = "call" /\ iter[u] = i /\ u \in blocked
         /\ round = 3 * i + 1 =>
              /\ iter[u] = i
              /\ \/ pc[u] \in {"call", "kernel", "computed"} /\ u \notin blocked
                 \/ pc[u] = "reduce" /\ u \in blocked
         /\ round = 3 * i + 2 =>
              /\ iter[u] = i
              /\ \/ pc[u] = "reduce" /\ u \notin blocked
                 \/ pc[u] = "next" /\ u \in blocked
<1>1. u \in Members /\ u # Main /\ iter[u] \in Nat /\ round \in Nat
  BY ThreadsCounted DEF IInv, TypeInv, Members
<1>2. pc[u] \in {"init", "loop", "clear", "call", "kernel", "computed", "reduce", "next", "exit"}
  BY DEF IInv, TypeInv
<1>3. u \in blocked => pc[u] \in {"call", "reduce", "next"}
  BY <1>1 DEF IInv, BarrierInv, Sleeps
<1>4. /\ pc[u] \in {"init", "loop", "clear", "exit"} => Arrivals(u) = 3 * iter[u]
      /\ pc[u] \in {"call", "kernel", "computed"} => Arrivals(u) = 3 * iter[u] + 1
      /\ pc[u] = "reduce" => Arrivals(u) = 3 * iter[u] + 2
      /\ pc[u] = "next" => Arrivals(u) = 3 * iter[u] + 3
  BY <1>1 DEF Arrivals
<1>5. Arrivals(u) = IF u \in blocked THEN round + 1 ELSE round
  BY <1>1 DEF IInv, BarrierInv
<1>6. CASE u \in blocked
  BY <1>1, <1>3, <1>4, <1>5, <1>6
<1>7. CASE u \notin blocked
  BY <1>1, <1>2, <1>4, <1>5, <1>7
<1> QED
  BY <1>6, <1>7

\* And where the calling thread is when it checks.
LEMMA MainPlace ==
  ASSUME IInv, Checks, NEW i \in Nat
  PROVE  /\ round = 3 * i /\ Main \in blocked => mpc = "second"
         /\ round = 3 * i + 1 /\ Main \in blocked => mpc = "third"
         /\ round = 3 * i + 2 /\ Main \in blocked => mpc = "compare"
         /\ Main \notin blocked =>
              /\ mpc \in {"loop", "fill", "first", "join", "end"} => round = 3 * pass
              /\ mpc = "second" => round = 3 * pass + 1
              /\ mpc = "third" => round = 3 * pass + 2
              /\ mpc = "compare" => round = 3 * (pass + 1)
<1>1. Main \in Members /\ pass \in Nat /\ round \in Nat
  BY DEF IInv, TypeInv, Members
<1>2. Main \in blocked => mpc \in {"second", "third", "compare"}
  BY DEF IInv, BarrierInv, Sleeps
<1>3. /\ mpc \in {"loop", "fill", "first", "join", "end"} => Arrivals(Main) = 3 * pass
      /\ mpc = "second" => Arrivals(Main) = 3 * pass + 1
      /\ mpc = "third" => Arrivals(Main) = 3 * pass + 2
      /\ mpc = "compare" => Arrivals(Main) = 3 * pass + 3
  BY <1>1 DEF Arrivals
<1>4. Arrivals(Main) = IF Main \in blocked THEN round + 1 ELSE round
  BY <1>1 DEF IInv, BarrierInv
<1>5. CASE Main \in blocked
  BY <1>1, <1>2, <1>3, <1>4, <1>5
<1>6. CASE Main \notin blocked
  BY <1>1, <1>3, <1>4, <1>6
<1> QED
  BY <1>5, <1>6

\* A step that leaves the matrix alone leaves what depends on it only.
LEMMA MatrixKept ==
  ASSUME UNCHANGED matrix
  PROVE  /\ UNCHANGED <<loop, starts, above, map, Threads, Numa, Checks>>
         /\ \A t : Own(t)' = Own(t)
         /\ \A r : Owner(r)' = Owner(r)
         /\ \A i, r : Input(i, r)' = Input(i, r) /\ Output(i, r)' = Output(i, r)
         /\ \A t, i : Share(t, i)' = Share(t, i)
<1>1. UNCHANGED <<loop, starts, above, map, Threads, Numa, Checks>>
  BY DEF matrix, Threads, Numa, Checks
<1>2. \A t : Own(t)' = Own(t)
  BY <1>1 DEF Own
<1>3. \A r : Owner(r)' = Owner(r)
  BY <1>1, <1>2 DEF Owner
<1>4. \A r : Contributors(r)' = Contributors(r)
  BY <1>1, <1>3 DEF Contributors
<1>5. \A i, r : Input(i, r)' = Input(i, r) /\ Output(i, r)' = Output(i, r)
  BY <1>1, <1>4 DEF Input, Output, Complete
<1>6. \A t, i : Share(t, i)' = Share(t, i)
  BY <1>1 DEF Share
<1> QED
  BY <1>1, <1>2, <1>3, <1>5, <1>6

\* In particular what the map is made from.
LEMMA MatrixInvKept == ASSUME MatrixInv, UNCHANGED matrix PROVE MatrixInv'
  BY MatrixKept DEF MatrixInv, matrix

\* One of the three parts concerns the round; it is enough to show that one.
PartTells == \A i \in Nat :
  /\ round = 3 * i /\ Cleared(i) => DataInv
  /\ round = 3 * i + 1 /\ Computed(i) => DataInv
  /\ round = 3 * i + 2 /\ Reduced(i) => DataInv

\* So it is in every state.
LEMMA OnePart == PartTells
<1> SUFFICES ASSUME NEW i \in Nat
             PROVE  /\ round = 3 * i /\ Cleared(i) => DataInv
                    /\ round = 3 * i + 1 /\ Computed(i) => DataInv
                    /\ round = 3 * i + 2 /\ Reduced(i) => DataInv
  BY DEF PartTells
<1>1. \A j \in Nat : /\ 3 * i = 3 * j => j = i
                     /\ 3 * i + 1 = 3 * j + 1 => j = i
                     /\ 3 * i + 2 = 3 * j + 2 => j = i
                     /\ 3 * i # 3 * j + 1 /\ 3 * i # 3 * j + 2
                     /\ 3 * i + 1 # 3 * j /\ 3 * i + 1 # 3 * j + 2
                     /\ 3 * i + 2 # 3 * j /\ 3 * i + 2 # 3 * j + 1
  OBVIOUS
<1>2. ASSUME round = 3 * i, Cleared(i) PROVE DataInv
  <2> SUFFICES ASSUME NEW j \in Nat PROVE Cleared(j) /\ Computed(j) /\ Reduced(j)
    BY DEF DataInv
  <2>1. Computed(j) /\ Reduced(j)
    BY <1>1, <1>2 DEF Computed, Reduced
  <2>2. Cleared(j)
    <3>1. round = 3 * j => j = i
      BY <1>1, <1>2
    <3>2. CASE round = 3 * j
      BY <1>2, <3>1, <3>2
    <3>3. CASE round # 3 * j
      BY <3>3 DEF Cleared
    <3> QED
      BY <3>2, <3>3
  <2> QED
    BY <2>1, <2>2
<1>3. ASSUME round = 3 * i + 1, Computed(i) PROVE DataInv
  <2> SUFFICES ASSUME NEW j \in Nat PROVE Cleared(j) /\ Computed(j) /\ Reduced(j)
    BY DEF DataInv
  <2>1. Cleared(j) /\ Reduced(j)
    BY <1>1, <1>3 DEF Cleared, Reduced
  <2>2. Computed(j)
    <3>1. round = 3 * j + 1 => j = i
      BY <1>1, <1>3
    <3>2. CASE round = 3 * j + 1
      BY <1>3, <3>1, <3>2
    <3>3. CASE round # 3 * j + 1
      BY <3>3 DEF Computed
    <3> QED
      BY <3>2, <3>3
  <2> QED
    BY <2>1, <2>2
<1>4. ASSUME round = 3 * i + 2, Reduced(i) PROVE DataInv
  <2> SUFFICES ASSUME NEW j \in Nat PROVE Cleared(j) /\ Computed(j) /\ Reduced(j)
    BY DEF DataInv
  <2>1. Cleared(j) /\ Computed(j)
    BY <1>1, <1>4 DEF Cleared, Computed
  <2>2. Reduced(j)
    <3>1. round = 3 * j + 2 => j = i
      BY <1>1, <1>4
    <3>2. CASE round = 3 * j + 2
      BY <1>4, <3>1, <3>2
    <3>3. CASE round # 3 * j + 2
      BY <3>3 DEF Reduced
    <3> QED
      BY <3>2, <3>3
  <2> QED
    BY <2>1, <2>2
<1> QED
  BY <1>2, <1>3, <1>4

\* And so after a step.
LEMMA OnePartNext ==
  ASSUME NEW i \in Nat
  PROVE  /\ round' = 3 * i /\ Cleared(i)' => DataInv'
         /\ round' = 3 * i + 1 /\ Computed(i)' => DataInv'
         /\ round' = 3 * i + 2 /\ Reduced(i)' => DataInv'
<1>1. PartTells'
  BY OnePart, PTL
<1> QED
  BY <1>1 DEF PartTells

-----------------------------------------------------------------------------
\* The first barrier opens: all that the threads reach above their rows is clear.
LEMMA OpenFirst ==
  ASSUME MatrixInv, NEW i \in Nat, Cleared(i), round = 3 * i, InputReady,
         UNCHANGED <<matrix, x, y, mem, temp>>,
         \A u \in Threads : pc[u] \in {"clear", "call"} /\ todo[u] = {} /\ pc'[u] = "call"
  PROVE  Computed(i)'
<1>1. MapOnce /\ 0 \in Threads
  BY MapOnceFromInv, ThreadsCounted DEF MatrixInv
<1>2. \A r \in Rows : mem[x][r] = Input(i, r)
  BY <1>1 DEF Cleared, InBuf
<1>3. ASSUME NEW u \in Threads, NEW r \in above[u] PROVE temp[u][r] = Zero
  <2>1. PICK t \in Threads : \E e \in DOMAIN map[t] : map[t][e] = <<u, r>>
    BY <1>1 DEF MapOnce, EachOnce, Threads
  <2>2. PICK e \in DOMAIN map[t] : map[t][e] = <<u, r>>
    BY <2>1
  <2>3. temp[map[t][e][1]][map[t][e][2]] = Zero
    BY <2>2 DEF Cleared
  <2> QED
    BY <2>2, <2>3
<1>4. UNCHANGED <<x, y, mem, temp, above, Threads>> /\ \A r : Input(i, r)' = Input(i, r)
  BY MatrixKept
<1> QED
  BY <1>2, <1>3, <1>4 DEF Computed

\* The second opens: each row has its owner's share, and nothing is added yet.
LEMMA OpenSecond ==
  ASSUME MatrixInv, NEW i \in Nat, Computed(i), round = 3 * i + 1,
         UNCHANGED <<matrix, x, y, mem, temp>>,
         \A u \in Threads : pc[u] \in {"computed", "reduce"} /\ todo'[u] = DOMAIN map[u]
  PROVE  Reduced(i)'
<1>1. /\ UNCHANGED <<x, y, mem, temp, above, map, Threads, Numa>> /\ \A r : Input(i, r)' = Input(i, r)
      /\ \A r : Owner(r)' = Owner(r) /\ \A t : Share(t, i)' = Share(t, i)
  BY MatrixKept
<1>2. \A r \in Rows : mem[x][r] = Input(i, r)
  BY DEF Computed
<1>3. \A u \in Threads : \A r \in above[u] : temp[u][r] = Share(u, i)
  BY DEF Computed
<1>4. \A r : Added(r)' = {}
  BY <1>1 DEF Added
<1>5. ASSUME NEW r \in Rows PROVE mem'[y'][r] = Partial(i, r)'
  <2>1. Owner(r) \in Threads /\ r \in Own(Owner(r))
    BY OneOwner
  <2>2. mem[y][r] = Share(Owner(r), i)
    BY <2>1 DEF Computed
  <2>3. Partial(i, r)' = Share(Owner(r), i)
    BY <1>1, <1>4 DEF Partial, Share
  <2> QED
    BY <1>1, <2>2, <2>3
<1> QED
  BY <1>1, <1>2, <1>3, <1>5 DEF Reduced

\* The third opens: the product is complete.
LEMMA OpenThird ==
  ASSUME MatrixInv, NEW i \in Nat, Reduced(i), round = 3 * i + 2,
         UNCHANGED <<matrix, x, y, mem, temp>>,
         \A u \in Threads : todo[u] = {} /\ pc'[u] = "next",
         loop = "check" => mpc' = "compare"
  PROVE  Cleared(i + 1)'
<1>1. /\ UNCHANGED <<x, y, mem, temp, above, map, Threads, Numa, loop>>
      /\ \A r, j : Input(j, r)' = Input(j, r) /\ Output(j, r)' = Output(j, r)
  BY MatrixKept
<1>2. MapOnce /\ 0 \in Threads
  BY MapOnceFromInv, ThreadsCounted DEF MatrixInv
<1>3. pc'[0] = "next"
  BY <1>2
<1>4. \A r \in Rows : mem[y][r] = Output(i, r)
  <2> SUFFICES ASSUME NEW r \in Rows PROVE mem[y][r] = Output(i, r)
    OBVIOUS
  <2>1. \A k \in Threads : r \in above[k] => \E t \in Threads : \E e \in DOMAIN map[t] : map[t][e] = <<k, r>>
    BY <1>2 DEF MapOnce, EachOnce, Threads
  <2>2. \A t \in Threads : \A e \in DOMAIN map[t] :
          \E k \in Threads : \E s \in above[k] : map[t][e] = <<k, s>>
    BY <1>2 DEF MapOnce, EachOnce, Threads
  <2>3. Added(r) = {k \in Threads : r \in above[k]}
    <3>1. \A k \in Threads : k \in Added(r) <=> \E t \in Threads : \E e \in DOMAIN map[t] : map[t][e] = <<k, r>>
      BY DEF Added
    <3>2. \A k \in Threads : k \in Added(r) <=> r \in above[k]
      BY <2>1, <2>2, <3>1
    <3> QED
      BY <3>2 DEF Added
  <2>4. Partial(i, r) = Output(i, r)
    BY <2>3 DEF Partial, Output, Complete, Contributors
  <2> QED
    BY <2>4 DEF Reduced
<1>5. loop = "bench" => \A r \in Rows : Input(i + 1, r) = Output(i, r)
  BY DEF Input, Output, Numa
<1>6. Numa => \A r \in Rows : mem[x][r] = Input(i + 1, r)
  BY DEF Reduced, Input, Numa
<1>7. InputReady' => loop = "bench" \/ Numa
  <2>1. loop # "check" => loop = "bench" \/ Numa
    BY DEF MatrixInv, Numa
  <2> QED
    BY <1>1, <2>1 DEF InputReady
<1>8. InputReady' => \A r \in Rows : mem'[InBuf'][r] = Input(i + 1, r)'
  <2>1. CASE loop = "bench"
    <3>1. InBuf' = y
      BY <1>1, <1>3, <2>1 DEF InBuf
    <3> QED
      BY <1>1, <1>4, <1>5, <2>1, <3>1
  <2>2. CASE loop # "bench"
    <3>1. InBuf' = x
      BY <1>1, <2>2 DEF InBuf
    <3> QED
      BY <1>1, <1>6, <1>7, <2>2, <3>1
  <2> QED
    BY <2>1, <2>2
<1>9. \A r \in Rows : mem'[ResBuf'][r] = Output((i + 1) - 1, r)'
  <2>1. ResBuf' = y /\ (i + 1) - 1 = i
    BY <1>1, <1>3 DEF ResBuf
  <2> QED
    BY <1>1, <1>4, <2>1
<1>10. \A t \in Threads : pc'[t] \notin {"clear", "call"}
  OBVIOUS
<1> QED
  BY <1>1, <1>8, <1>9, <1>10 DEF Cleared

\* Where an awake thread is says the round.
LEMMA WorkerRound ==
  ASSUME IInv, NEW u \in Threads
  PROVE  /\ iter[u] \in Nat
         /\ u \in blocked => pc[u] \in {"call", "reduce", "next"}
         /\ u \notin blocked =>
              /\ pc[u] \in {"init", "loop", "clear", "exit"} => round = 3 * iter[u]
              /\ pc[u] \in {"call", "kernel", "computed"} => round = 3 * iter[u] + 1
              /\ pc[u] = "reduce" => round = 3 * iter[u] + 2
              /\ pc[u] = "next" => round = 3 * (iter[u] + 1)
<1>1. u \in Members /\ u # Main /\ iter[u] \in Nat /\ round \in Nat
  BY ThreadsCounted DEF IInv, TypeInv, Members
<1>2. u \in blocked => pc[u] \in {"call", "reduce", "next"}
  BY <1>1 DEF IInv, BarrierInv, Sleeps
<1>3. ASSUME u \notin blocked PROVE Arrivals(u) = round
  BY <1>1, <1>3 DEF IInv, BarrierInv
<1>4. /\ pc[u] \in {"init", "loop", "clear", "exit"} => Arrivals(u) = 3 * iter[u]
      /\ pc[u] \in {"call", "kernel", "computed"} => Arrivals(u) = 3 * iter[u] + 1
      /\ pc[u] = "reduce" => Arrivals(u) = 3 * iter[u] + 2
      /\ pc[u] = "next" => Arrivals(u) = 3 * (iter[u] + 1)
  BY <1>1 DEF Arrivals
<1> QED
  BY <1>1, <1>2, <1>3, <1>4

\* What a step changes of thread t alone.
OnlyOf(t) ==
  /\ pc' = [pc EXCEPT ![t] = pc'[t]] /\ iter' = [iter EXCEPT ![t] = iter'[t]]
  /\ todo' = [todo EXCEPT ![t] = todo'[t]] /\ UNCHANGED <<matrix, mpc, pass>>

\* Other threads stay where they are.
LEMMA OthersKept ==
  ASSUME IInv, NEW t \in Threads, OnlyOf(t)
  PROVE  /\ \A u \in Threads \ {t} : pc'[u] = pc[u] /\ iter'[u] = iter[u] /\ todo'[u] = todo[u]
         /\ 0 \in Threads
  BY ThreadsCounted DEF IInv, TypeInv, OnlyOf

\* A thread's step keeps PlaceInv if it goes on with a pass that there is.
LEMMA PlaceKept ==
  ASSUME IInv, MatrixInv, PlaceInv, NEW t \in Threads, OnlyOf(t), pc'[t] # "init",
         pc'[t] \notin {"loop", "exit"} => iter'[t] < NLoops,
         todo'[t] \subseteq DOMAIN map[t]
  PROVE  PlaceInv'
<1>1. UNCHANGED <<loop, map, Threads>>
  BY MatrixKept DEF OnlyOf
<1>2. \A u \in Threads \ {t} : pc'[u] = pc[u] /\ iter'[u] = iter[u] /\ todo'[u] = todo[u]
  BY OthersKept
<1> QED
  BY <1>1, <1>2 DEF PlaceInv, OnlyOf

\* A step before the first barrier that changes no vector.
LEMMA ClearedKept ==
  ASSUME NEW i \in Nat, round = 3 * i, Cleared(i), UNCHANGED <<matrix, mem, round>>,
         InBuf' = InBuf, ResBuf' = ResBuf, InputReady' => InputReady,
         loop = "check" /\ mpc' = "compare" => mpc = "compare",
         \A t \in Threads : pc'[t] \in {"clear", "call"} =>
           \A e \in DOMAIN map[t] \ todo'[t] : temp'[map[t][e][1]][map[t][e][2]] = Zero
  PROVE  DataInv'
<1>1. UNCHANGED <<loop, map, Threads>> /\ \A j, r : Input(j, r)' = Input(j, r) /\ Output(j, r)' = Output(j, r)
  BY MatrixKept
<1>2. InputReady' => \A r \in Rows : mem'[InBuf'][r] = Input(i, r)'
  BY <1>1 DEF Cleared
<1>3. i > 0 /\ (loop' = "check" => mpc' = "compare") => \A r \in Rows : mem'[ResBuf'][r] = Output(i - 1, r)'
  BY <1>1 DEF Cleared
<1>4. Cleared(i)'
  BY <1>1, <1>2, <1>3 DEF Cleared
<1> QED
  BY <1>4, OnePartNext

\* g is f but for one vector, or one element of one vector.
NewVector(g, f, c, v) == g = [f EXCEPT ![c] = v]
NewElement(g, f, c, p, v) == g = [f EXCEPT ![c][p] = v]

\* One element of one vector is set.
LEMMA ElementSet ==
  ASSUME NEW f, NEW S, Grid(f, S), NEW c \in S, NEW p \in Rows, NEW v,
         NEW g, NewElement(g, f, c, p, v)
  PROVE  /\ Grid(g, S) /\ g[c][p] = v
         /\ \A t \in S, r \in Rows : t # c \/ r # p => g[t][r] = f[t][r]
<1>1. f = [t \in S |-> f[t]] /\ \A t \in S : f[t] = [r \in Rows |-> f[t][r]]
  BY DEF Grid
<1>2. g = [t \in S |-> IF t = c THEN [f[c] EXCEPT ![p] = v] ELSE f[t]]
  BY <1>1 DEF NewElement
<1>3. [f[c] EXCEPT ![p] = v] = [r \in Rows |-> IF r = p THEN v ELSE f[c][r]]
  BY <1>1
<1>4. g[c] = [r \in Rows |-> IF r = p THEN v ELSE f[c][r]] /\ \A t \in S : t # c => g[t] = f[t]
  BY <1>2, <1>3
<1>5. g = [t \in S |-> g[t]]
  BY <1>2
<1>6. \A t \in S : g[t] = [r \in Rows |-> g[t][r]]
  BY <1>1, <1>4
<1>7. Grid(g, S)
  BY <1>5, <1>6 DEF Grid
<1>8. g[c][p] = v /\ \A t \in S, r \in Rows : t # c \/ r # p => g[t][r] = f[t][r]
  BY <1>4
<1> QED
  BY <1>7, <1>8

\* A vector is replaced.
LEMMA VectorSet ==
  ASSUME NEW f, NEW S, Grid(f, S), NEW c \in S, NEW v, Vector(v), NEW g, NewVector(g, f, c, v)
  PROVE  Grid(g, S) /\ g[c] = v /\ \A t \in S : t # c => g[t] = f[t]
<1>1. f = [t \in S |-> f[t]] /\ \A t \in S : f[t] = [r \in Rows |-> f[t][r]]
  BY DEF Grid
<1>2. g[c] = v /\ \A t \in S : t # c => g[t] = f[t]
  BY <1>1 DEF NewVector
<1>3. g = [t \in S |-> g[t]]
  BY <1>1 DEF NewVector
<1>4. \A t \in S : g[t] = [r \in Rows |-> g[t][r]]
  BY <1>1, <1>2 DEF Vector
<1> QED
  BY <1>2, <1>3, <1>4 DEF Grid

-----------------------------------------------------------------------------
\* Thread 0 fills the first input.
LEMMA InitXKeeps ==
  ASSUME FullInv, InitX
  PROVE  BufferInv' /\ PlaceInv' /\ DataInv'
<1>1. 0 \in Threads /\ pc[0] = "init" /\ iter[0] = 0 /\ loop = "bench" /\ 0 \notin blocked
  BY ThreadsCounted, WorkerRound DEF FullInv, MatrixInv, PlaceInv, InitX
<1>2. PICK i \in Nat : i = 0 /\ round = 3 * i
  BY <1>1, WorkerRound DEF FullInv
<1>3. OnlyOf(0) /\ pc'[0] = "loop" /\ iter'[0] = 0 /\ todo'[0] = todo[0]
  BY <1>1 DEF InitX, OnlyOf, FullInv, IInv, TypeInv, caller
<1>4. PlaceInv'
  BY <1>1, <1>3, PlaceKept DEF FullInv, PlaceInv
<1>5. UNCHANGED <<x, y, temp, args, loop, Threads, map, round, mpc>> /\ \A j, r : Input(j, r)' = Input(j, r)
  BY MatrixKept DEF InitX, caller, barrier
<1>6. Grid(mem', {"bx", "by"}) /\ \A r \in Rows : mem'[x][r] = Filled(0)
  <2> DEFINE v == [r \in Rows |-> Filled(0)]
  <2>1. Vector(v) /\ NewVector(mem', mem, x, v) /\ \A r \in Rows : v[r] = Filled(0)
    BY DEF InitX, Vector, NewVector
  <2> HIDE DEF v
  <2>2. Grid(mem', {"bx", "by"}) /\ mem'[x] = v
    BY <2>1, VectorSet DEF FullInv, BufferInv
  <2> QED
    BY <2>1, <2>2
<1>7. BufferInv'
  BY <1>5, <1>6 DEF InitX, FullInv, BufferInv
<1>8. Cleared(i)'
  <2>1. \A r \in Rows : mem'[InBuf'][r] = Input(i, r)'
    <3>1. InBuf' = x
      BY <1>3, <1>5 DEF InBuf
    <3>2. \A r \in Rows : Input(i, r) = Filled(0)
      BY <1>2 DEF Input
    <3> QED
      BY <1>5, <1>6, <3>1, <3>2
  <2>2. \A t \in Threads : pc'[t] \in {"clear", "call"} =>
          \A e \in DOMAIN map[t] \ todo'[t] : temp'[map[t][e][1]][map[t][e][2]] = Zero
    <3> SUFFICES ASSUME NEW t \in Threads, pc'[t] \in {"clear", "call"}
                 PROVE  \A e \in DOMAIN map[t] \ todo'[t] : temp'[map[t][e][1]][map[t][e][2]] = Zero
      OBVIOUS
    <3>1. pc'[t] = pc[t] /\ todo'[t] = todo[t]
      BY <1>1, <1>3, OthersKept DEF FullInv
    <3> QED
      BY <1>2, <1>5, <3>1 DEF FullInv, DataInv, Cleared
  <2> QED
    BY <1>2, <1>5, <2>1, <2>2 DEF Cleared
<1> QED
  BY <1>2, <1>4, <1>5, <1>7, <1>8, OnePartNext

\* The steps of thread t before the first barrier that go on with clearing.
LEMMA ClearingKeeps ==
  ASSUME FullInv, NEW t \in Threads, OnlyOf(t), t \notin blocked, pc[t] \in {"loop", "clear"},
         pc'[t] \in {"clear", "call", "exit"}, iter'[t] = iter[t],
         pc'[t] # "exit" => iter[t] < NLoops,
         todo'[t] \subseteq DOMAIN map[t], UNCHANGED <<x, y, mem, args, round>>,
         \/ UNCHANGED temp
         \/ \E k \in DOMAIN map[t] : temp' = [temp EXCEPT ![map[t][k][1]][map[t][k][2]] = Zero],
         pc'[t] \in {"clear", "call"} =>
           \A e \in DOMAIN map[t] \ todo'[t] : temp'[map[t][e][1]][map[t][e][2]] = Zero
  PROVE  BufferInv' /\ PlaceInv' /\ DataInv'
<1>1. PICK i \in Nat : i = iter[t] /\ round = 3 * i
  BY WorkerRound DEF FullInv
<1>2. UNCHANGED <<loop, map, Threads, mpc>>
  BY MatrixKept DEF OnlyOf
<1>3. /\ \A u \in Threads \ {t} : pc'[u] = pc[u] /\ iter'[u] = iter[u] /\ todo'[u] = todo[u]
      /\ 0 \in Threads
  BY OthersKept DEF FullInv
<1>4. PlaceInv'
  BY PlaceKept DEF FullInv
<1>5. MapOnce
  BY MapOnceFromInv DEF FullInv
<1>6. \A u \in Threads : \A e \in DOMAIN map[u] : map[u][e][1] \in Threads /\ map[u][e][2] \in Rows
  <2>1. \A u \in Threads : \A e \in DOMAIN map[u] :
          \E k \in Threads : \E r \in above[k] : map[u][e] = <<k, r>>
    BY <1>5 DEF MapOnce, EachOnce, Threads
  <2>2. \A k \in Threads : above[k] \subseteq Rows
    BY DEF FullInv, MatrixInv
  <2> QED
    BY <2>1, <2>2
<1>7. Grid(temp', Threads) /\ \A k \in Threads, r \in Rows : temp[k][r] = Zero => temp'[k][r] = Zero
  <2>1. Grid(temp, Threads)
    BY DEF FullInv, BufferInv
  <2>2. CASE UNCHANGED temp
    BY <2>1, <2>2
  <2>3. CASE \E k \in DOMAIN map[t] : temp' = [temp EXCEPT ![map[t][k][1]][map[t][k][2]] = Zero]
    <3>1. PICK k \in DOMAIN map[t] : temp' = [temp EXCEPT ![map[t][k][1]][map[t][k][2]] = Zero]
      BY <2>3
    <3>2. map[t][k][1] \in Threads /\ map[t][k][2] \in Rows
      BY <1>6
    <3>3. PICK c \in Threads, p \in Rows : c = map[t][k][1] /\ p = map[t][k][2]
      BY <3>2
    <3>4. NewElement(temp', temp, c, p, Zero)
      BY <3>1, <3>3 DEF NewElement
    <3> QED
      BY <2>1, <3>4, ElementSet
  <2> QED
    BY <2>2, <2>3
<1>8. BufferInv'
  BY <1>2, <1>7 DEF FullInv, BufferInv
<1>9. \A u \in Threads : pc'[u] \in {"clear", "call"} =>
        \A e \in DOMAIN map[u] \ todo'[u] : temp'[map[u][e][1]][map[u][e][2]] = Zero
  <2> SUFFICES ASSUME NEW u \in Threads \ {t}, pc[u] \in {"clear", "call"},
                      NEW e \in DOMAIN map[u] \ todo[u]
               PROVE  temp'[map[u][e][1]][map[u][e][2]] = Zero
    BY <1>3
  <2>1. temp[map[u][e][1]][map[u][e][2]] = Zero
    BY <1>1 DEF FullInv, DataInv, Cleared
  <2> QED
    BY <1>6, <1>7, <2>1
<1>10. InBuf' = InBuf /\ ResBuf' = ResBuf /\ (InputReady' => InputReady)
  <2>1. (pc'[0] = "next") = (pc[0] = "next") /\ (pc[0] = "init" => pc'[0] = "init")
    BY <1>3
  <2> QED
    BY <1>2, <2>1 DEF InBuf, ResBuf, InputReady
<1>11. Cleared(i)
  BY DEF FullInv, DataInv
<1>12. DataInv'
  BY <1>1, <1>2, <1>9, <1>10, <1>11, ClearedKept DEF OnlyOf
<1> QED
  BY <1>4, <1>8, <1>12

\* A thread starts a pass, or has done all.
LEMMA LoopStartKeeps ==
  ASSUME FullInv, NEW t \in Threads, LoopStart(t)
  PROVE  BufferInv' /\ PlaceInv' /\ DataInv'
<1>1. /\ pc = [u \in Threads |-> pc[u]] /\ iter = [u \in Threads |-> iter[u]]
      /\ todo = [u \in Threads |-> todo[u]]
  BY DEF FullInv, IInv, TypeInv
<1>2. /\ OnlyOf(t) /\ pc[t] = "loop" /\ iter'[t] = iter[t] /\ UNCHANGED <<x, y, mem, temp, args, round>>
      /\ \/ pc'[t] = "clear" /\ iter[t] < NLoops /\ todo'[t] = DOMAIN map[t]
         \/ pc'[t] = "exit" /\ todo'[t] = todo[t]
  BY <1>1 DEF LoopStart, OnlyOf, caller, barrier
<1>3. t \notin blocked
  BY <1>2, WorkerRound DEF FullInv
<1>4. todo'[t] \subseteq DOMAIN map[t]
  BY <1>2 DEF FullInv, PlaceInv
<1> QED
  BY <1>2, <1>3, <1>4, ClearingKeeps

\* A thread clears the private element of an entry of the map.
LEMMA ClearKeeps ==
  ASSUME FullInv, NEW t \in Threads, NEW k \in todo[t], Clear(t, k)
  PROVE  BufferInv' /\ PlaceInv' /\ DataInv'
<1>1. /\ pc = [u \in Threads |-> pc[u]] /\ iter = [u \in Threads |-> iter[u]]
      /\ todo = [u \in Threads |-> todo[u]]
  BY DEF FullInv, IInv, TypeInv
<1>2. /\ OnlyOf(t) /\ pc[t] = "clear" /\ pc'[t] = "clear" /\ iter'[t] = iter[t]
      /\ UNCHANGED <<x, y, mem, args, round>> /\ todo'[t] = todo[t] \ {k}
      /\ temp' = [temp EXCEPT ![map[t][k][1]][map[t][k][2]] = Zero]
  BY <1>1 DEF Clear, OnlyOf, caller, barrier
<1>3. t \notin blocked /\ iter[t] < NLoops /\ k \in DOMAIN map[t] /\ todo'[t] \subseteq DOMAIN map[t]
  BY <1>2, WorkerRound DEF FullInv, PlaceInv
<1>4. PICK i \in Nat : round = 3 * i
  BY <1>2, <1>3, WorkerRound DEF FullInv
<1>5. \A e \in DOMAIN map[t] : map[t][e][1] \in Threads /\ map[t][e][2] \in Rows
  <2>1. \A e \in DOMAIN map[t] : \E c \in Threads : \E r \in above[c] : map[t][e] = <<c, r>>
    BY MapOnceFromInv DEF MapOnce, EachOnce, Threads, FullInv
  <2>2. \A c \in Threads : above[c] \subseteq Rows
    BY DEF FullInv, MatrixInv
  <2> QED
    BY <2>1, <2>2
<1>6. ASSUME NEW e \in DOMAIN map[t] \ todo'[t]
      PROVE  temp'[map[t][e][1]][map[t][e][2]] = Zero
  <2>1. e = k \/ e \in DOMAIN map[t] \ todo[t]
    BY <1>2
  <2>2. e = k \/ temp[map[t][e][1]][map[t][e][2]] = Zero
    BY <1>2, <1>4, <2>1 DEF FullInv, DataInv, Cleared
  <2>3. PICK c \in Threads, p \in Rows : c = map[t][k][1] /\ p = map[t][k][2]
    BY <1>3, <1>5
  <2>4. NewElement(temp', temp, c, p, Zero) /\ Grid(temp, Threads)
    BY <1>2, <2>3 DEF FullInv, BufferInv, NewElement
  <2>5. /\ temp'[c][p] = Zero
        /\ \A u \in Threads, r \in Rows : u # c \/ r # p => temp'[u][r] = temp[u][r]
    BY <2>4, ElementSet
  <2> QED
    BY <1>5, <2>2, <2>3, <2>5
<1> QED
  BY <1>2, <1>3, <1>6, ClearingKeeps

\* A thread ends its pass; in the benchmark thread 0 swaps the vectors.
LEMMA EndPassKeeps ==
  ASSUME FullInv, NEW t \in Threads, EndPass(t)
  PROVE  BufferInv' /\ PlaceInv' /\ DataInv'
<1>1. /\ pc = [u \in Threads |-> pc[u]] /\ iter = [u \in Threads |-> iter[u]]
      /\ todo = [u \in Threads |-> todo[u]]
  BY DEF FullInv, IInv, TypeInv
<1>2. /\ OnlyOf(t) /\ pc[t] = "next" /\ pc'[t] = "loop" /\ todo'[t] = todo[t] /\ t \notin blocked
      /\ UNCHANGED <<mem, temp, args, round>>
      /\ IF t = 0 /\ loop = "bench" THEN x' = y /\ y' = x ELSE UNCHANGED <<x, y>>
  BY <1>1 DEF EndPass, OnlyOf, caller, barrier, Awake
<1>3. PICK i \in Nat : round = 3 * i
  <2>1. iter[t] + 1 \in Nat /\ round = 3 * (iter[t] + 1)
    BY <1>2, WorkerRound DEF FullInv
  <2> QED
    BY <2>1
<1>4. UNCHANGED <<loop, map, Threads, mpc>>
  BY <1>2, MatrixKept DEF OnlyOf
<1>5. /\ \A u \in Threads \ {t} : pc'[u] = pc[u] /\ iter'[u] = iter[u] /\ todo'[u] = todo[u]
      /\ 0 \in Threads
  BY <1>2, OthersKept DEF FullInv
<1>6. PlaceInv'
  BY <1>2, PlaceKept DEF FullInv, PlaceInv
<1>7. BufferInv'
  BY <1>2, <1>4 DEF FullInv, BufferInv
<1>8. InBuf' = InBuf /\ ResBuf' = ResBuf /\ (InputReady' => InputReady)
  <2>1. CASE t = 0
    BY <1>2, <1>4, <2>1 DEF InBuf, ResBuf, InputReady
  <2>2. CASE t # 0
    BY <1>2, <1>4, <1>5, <2>2 DEF InBuf, ResBuf, InputReady
  <2> QED
    BY <2>1, <2>2
<1>9. Cleared(i)
  BY DEF FullInv, DataInv
<1>10. \A u \in Threads : pc'[u] \in {"clear", "call"} =>
         \A e \in DOMAIN map[u] \ todo'[u] : temp'[map[u][e][1]][map[u][e][2]] = Zero
  BY <1>2, <1>3, <1>5, <1>9 DEF Cleared
<1>11. DataInv'
  BY <1>2, <1>3, <1>4, <1>8, <1>9, <1>10, ClearedKept DEF OnlyOf
<1> QED
  BY <1>6, <1>7, <1>11

\* The parts are rows of the matrix, and no two of them share one.
LEMMA OwnRows ==
  ASSUME MatrixInv, NEW t \in Threads
  PROVE  /\ Own(t) \subseteq Rows
         /\ \A u \in Threads \ {t} : \A r \in Own(u) : r \notin Own(t)
<1> DEFINE n == Len(starts)
<1>1. starts \in Seq(Nat) /\ \A i \in DOMAIN starts : starts[i] < NRows
  BY PartitionsAssumption DEF MatrixInv
<1>2. n \in Nat /\ \A i \in 1..n : starts[i] \in Nat /\ starts[i] < NRows
  BY <1>1
<1>3. Threads = 0..(n - 1) /\ \A k \in Threads :
        Own(k) = starts[k + 1]..(IF k = n - 1 THEN NRows ELSE starts[k + 2]) - 1
  BY DEF Threads, Own
<1> HIDE DEF n
<1>4. ASSUME NEW k \in Threads PROVE Own(k) \subseteq Rows
  <2>1. starts[k + 1] \in Nat
    BY <1>2, <1>3
  <2>2. k # n - 1 => starts[k + 2] \in Nat /\ starts[k + 2] < NRows
    BY <1>2, <1>3
  <2>3. NRows \in Nat /\ Rows = 0..(NRows - 1)
    BY NRowsAssumption DEF Rows
  <2>4. CASE k = n - 1
    <3>1. Own(k) = starts[k + 1]..(NRows - 1)
      BY <1>3, <2>4
    <3> QED
      BY <2>1, <2>3, <3>1
  <2>5. CASE k # n - 1
    <3>1. Own(k) = starts[k + 1]..(starts[k + 2] - 1)
      BY <1>3, <2>5
    <3>2. starts[k + 2] \in Nat /\ starts[k + 2] <= NRows
      BY <2>2, <2>3, <2>5
    <3> QED
      BY <2>1, <2>3, <3>1, <3>2
  <2> QED
    BY <2>4, <2>5
<1>5. ASSUME NEW u \in Threads \ {t}, NEW r \in Own(u), r \in Own(t) PROVE FALSE
  BY <1>4, <1>5, OneOwner
<1> QED
  BY <1>4, <1>5

\* A thread's barrier call opens the barrier when all others are there, or waits.
LEMMA LastOrNot ==
  ASSUME IInv, NEW t \in Threads, BarrierWait(t, Parties)
  PROVE  /\ t \notin blocked /\ round \in Nat
         /\ \/ round' = round
            \/ /\ round' = round + 1 /\ Threads \ {t} \subseteq blocked
               /\ Checks => Main \in blocked
<1>1. t \in Members /\ t # Main /\ starts \in Partitions /\ blocked \subseteq Members /\ round \in Nat
  BY ThreadsCounted DEF IInv, TypeInv, BarrierInv, Members
<1>2. /\ t \notin blocked
      /\ \/ blocked = Members \ {t} /\ round' = round + 1
         \/ round' = round
  BY <1>1, BarrierStep
<1> QED
  BY <1>1, <1>2 DEF Members

\* And so does the calling thread's.
LEMMA LastOrNotMain ==
  ASSUME IInv, Main \in Members, BarrierWait(Main, Parties)
  PROVE  /\ Main \notin blocked /\ round \in Nat
         /\ round' = round \/ (round' = round + 1 /\ Threads \subseteq blocked)
<1>1. starts \in Partitions /\ blocked \subseteq Members /\ Main \notin Threads /\ round \in Nat
  BY ThreadsCounted DEF IInv, TypeInv, BarrierInv
<1>2. /\ Main \notin blocked
      /\ \/ blocked = Members \ {Main} /\ round' = round + 1
         \/ round' = round
  BY <1>1, BarrierStep
<1> QED
  BY <1>1, <1>2 DEF Members

-----------------------------------------------------------------------------
\* The call of the first barrier, which may open it.
LEMMA FirstWaitKeeps ==
  ASSUME FullInv, NEW t \in Threads, FirstWait(t)
  PROVE  BufferInv' /\ PlaceInv' /\ DataInv'
<1>1. /\ pc = [u \in Threads |-> pc[u]] /\ iter = [u \in Threads |-> iter[u]]
      /\ todo = [u \in Threads |-> todo[u]]
  BY DEF FullInv, IInv, TypeInv
<1>2. /\ OnlyOf(t) /\ pc[t] = "clear" /\ todo[t] = {} /\ pc'[t] = "call" /\ iter'[t] = iter[t]
      /\ todo'[t] = todo[t] /\ UNCHANGED <<matrix, x, y, mem, temp, args, mpc>>
      /\ BarrierWait(t, Parties)
  BY <1>1 DEF FirstWait, Wait, OnlyOf, caller
<1>3. t \notin blocked /\ iter[t] < NLoops /\ todo'[t] \subseteq DOMAIN map[t]
  BY <1>2, LastOrNot DEF FullInv, PlaceInv
<1>4. PICK i \in Nat : i = iter[t] /\ round = 3 * i
  BY <1>2, <1>3, WorkerRound DEF FullInv
<1>5. Cleared(i)
  BY DEF FullInv, DataInv
<1>6. CASE round' = round
  <2>1. \A e \in DOMAIN map[t] \ todo'[t] : temp'[map[t][e][1]][map[t][e][2]] = Zero
    BY <1>2, <1>4, <1>5 DEF Cleared
  <2> QED
    BY <1>2, <1>3, <1>6, <2>1, ClearingKeeps
<1>7. CASE round' = round + 1 /\ Threads \ {t} \subseteq blocked /\ (Checks => Main \in blocked)
  <2>1. \A u \in Threads \ {t} : pc'[u] = pc[u]
    BY <1>2, OthersKept DEF FullInv
  <2>2. \A u \in Threads \ {t} : pc[u] = "call" /\ todo[u] = {}
    <3>1. \A u \in Threads \ {t} : pc[u] = "call"
      BY <1>4, <1>7, WorkerPlace DEF FullInv
    <3> QED
      BY <3>1 DEF FullInv, IInv, TodoInv
  <2>3. \A u \in Threads : pc[u] \in {"clear", "call"} /\ todo[u] = {} /\ pc'[u] = "call"
    BY <1>2, <2>1, <2>2
  <2>4. InputReady
    <3>1. 0 \in Threads
      BY ThreadsCounted DEF FullInv, MatrixInv
    <3>2. loop = "check" => mpc = "second"
      BY <1>4, <1>7, MainPlace DEF FullInv, Checks
    <3> QED
      BY <2>3, <3>1, <3>2 DEF InputReady
  <2>5. Computed(i)'
    BY <1>2, <1>4, <1>5, <2>3, <2>4, OpenFirst DEF FullInv
  <2>7. DataInv'
    BY <1>4, <1>7, <2>5, OnePartNext
  <2>8. PlaceInv'
    BY <1>2, <1>3, PlaceKept DEF FullInv
  <2>9. BufferInv'
    BY <1>2, MatrixKept DEF FullInv, BufferInv
  <2> QED
    BY <2>7, <2>8, <2>9
<1> QED
  BY <1>2, <1>6, <1>7, LastOrNot DEF FullInv

\* A step between the first two barriers.
LEMMA ComputedKept ==
  ASSUME NEW i \in Nat, round = 3 * i + 1, Computed(i), UNCHANGED <<matrix, x, y, round>>,
         NEW t \in Threads, mem'[x] = mem[x],
         \A u \in Threads \ {t} :
           /\ pc'[u] = pc[u] /\ todo'[u] = todo[u] /\ args'[u] = args[u] /\ temp'[u] = temp[u]
           /\ \A r \in Own(u) : mem'[y][r] = mem[y][r],
         pc'[t] \in {"call", "kernel"} => \A r \in above[t] : temp'[t][r] = Zero,
         pc'[t] = "kernel" => args'[t] = <<x, y>> /\ \A r \in Own(t) : mem'[y][r] = Zero,
         pc'[t] \in {"computed", "reduce"} => /\ \A r \in Own(t) : mem'[y][r] = Share(t, i)
                                              /\ \A r \in above[t] : temp'[t][r] = Share(t, i),
         pc'[t] = "reduce" => todo'[t] = DOMAIN map[t]
  PROVE  DataInv'
<1>1. /\ UNCHANGED <<x, y, round, above, map, Threads>> /\ \A r : Input(i, r)' = Input(i, r)
      /\ \A u : Own(u)' = Own(u) /\ Share(u, i)' = Share(u, i)
  BY MatrixKept
<1>2. \A r \in Rows : mem'[x'][r] = Input(i, r)'
  BY <1>1 DEF Computed
<1>3. ASSUME NEW u \in Threads
      PROVE  /\ pc'[u] \in {"call", "kernel"} => \A r \in above[u] : temp'[u][r] = Zero
             /\ pc'[u] = "kernel" => args'[u] = <<x, y>> /\ \A r \in Own(u) : mem'[y][r] = Zero
             /\ pc'[u] \in {"computed", "reduce"} => /\ \A r \in Own(u) : mem'[y][r] = Share(u, i)
                                                  /\ \A r \in above[u] : temp'[u][r] = Share(u, i)
             /\ pc'[u] = "reduce" => todo'[u] = DOMAIN map[u]
  <2>1. CASE u = t
    BY <2>1
  <2>2. CASE u # t
    BY <2>2 DEF Computed
  <2> QED
    BY <2>1, <2>2
<1>4. Computed(i)'
  BY <1>1, <1>2, <1>3 DEF Computed
<1> QED
  BY <1>1, <1>4, OnePartNext

\* A thread enters its kernel, which clears its rows of the product.
LEMMA CallKernelKeeps ==
  ASSUME FullInv, NEW t \in Threads, CallKernel(t)
  PROVE  BufferInv' /\ PlaceInv' /\ DataInv'
<1>1. /\ pc = [u \in Threads |-> pc[u]] /\ iter = [u \in Threads |-> iter[u]]
      /\ todo = [u \in Threads |-> todo[u]] /\ args = [u \in Threads |-> args[u]]
  BY DEF FullInv, IInv, TypeInv, BufferInv
<1> DEFINE v == [r \in Rows |-> IF r \in Own(t) THEN Zero ELSE mem[y][r]]
<1>2. /\ OnlyOf(t) /\ pc[t] = "call" /\ t \notin blocked /\ pc'[t] = "kernel" /\ iter'[t] = iter[t]
      /\ todo'[t] = todo[t] /\ UNCHANGED <<matrix, x, y, temp, round>>
      /\ args' = [args EXCEPT ![t] = <<x, y>>] /\ NewVector(mem', mem, y, v)
  BY <1>1 DEF CallKernel, OnlyOf, caller, barrier, Awake, NewVector
<1>3. Vector(v) /\ \A r \in Rows : v[r] = IF r \in Own(t) THEN Zero ELSE mem[y][r]
  BY DEF Vector
<1> HIDE DEF v
<1>4. /\ x \in {"bx", "by"} /\ y \in {"bx", "by"} /\ x # y /\ Grid(mem, {"bx", "by"})
      /\ Grid(temp, Threads)
  BY DEF FullInv, BufferInv
<1>5. Grid(mem', {"bx", "by"}) /\ mem'[y] = v /\ mem'[x] = mem[x]
  BY <1>2, <1>3, <1>4, VectorSet
<1>6. PICK i \in Nat : i = iter[t] /\ round = 3 * i + 1
  BY <1>2, WorkerRound DEF FullInv
<1>7. Computed(i)
  BY DEF FullInv, DataInv
<1>8. BufferInv'
  <2>1. args' = [u \in Threads |-> args'[u]]
    BY <1>1, <1>2
  <2> QED
    BY <1>2, <1>4, <1>5, <2>1, MatrixKept DEF BufferInv
<1>9. PlaceInv'
  BY <1>2, PlaceKept DEF FullInv, PlaceInv
<1>10. Own(t) \subseteq Rows /\ \A u \in Threads \ {t} : Own(u) \subseteq Rows /\ \A r \in Own(u) : r \notin Own(t)
  BY OwnRows DEF FullInv
<1>11. \A u \in Threads \ {t} :
         /\ pc'[u] = pc[u] /\ todo'[u] = todo[u] /\ args'[u] = args[u] /\ temp'[u] = temp[u]
         /\ \A r \in Own(u) : mem'[y][r] = mem[y][r]
  <2> SUFFICES ASSUME NEW u \in Threads \ {t}
               PROVE /\ pc'[u] = pc[u] /\ todo'[u] = todo[u] /\ args'[u] = args[u] /\ temp'[u] = temp[u]
                     /\ \A r \in Own(u) : mem'[y][r] = mem[y][r]
    OBVIOUS
  <2>1. pc'[u] = pc[u] /\ todo'[u] = todo[u]
    BY <1>2, OthersKept DEF FullInv
  <2>2. args'[u] = args[u] /\ temp'[u] = temp[u]
    BY <1>1, <1>2
  <2>3. \A r \in Own(u) : mem'[y][r] = mem[y][r]
    BY <1>3, <1>5, <1>10
  <2> QED
    BY <2>1, <2>2, <2>3
<1>12. args'[t] = <<x, y>> /\ \A r \in Own(t) : mem'[y][r] = Zero
  BY <1>1, <1>2, <1>3, <1>5, <1>10
<1>13. \A r \in above[t] : temp'[t][r] = Zero
  BY <1>2, <1>6, <1>7 DEF Computed
<1>14. DataInv'
  BY <1>2, <1>5, <1>6, <1>7, <1>11, <1>12, <1>13, ComputedKept
<1> QED
  BY <1>8, <1>9, <1>14

\* The least number of a set is in it.
LEMMA MinIn ==
  ASSUME NEW S \in SUBSET Nat, S # {}
  PROVE  Min(S) \in S /\ \A k \in S : Min(S) <= k
<1>1. \E k \in S : \A m \in S : k <= m
  BY LeastNat
<1> QED
  BY <1>1 DEF Min

\* A kernel that saw one iterate of x computes its thread's share of the next; a part
\* without rows, or with none above, adds to no element there.
LEMMA ProductIsShare ==
  ASSUME NEW i \in 0..NLoops, NEW t \in Threads, args[t][1] = x,
         \A r \in Own(t) \cup above[t] : mem[x][r] = Input(i, r),
         Own(t) \cup above[t] # {}
  PROVE  Product(t) = Share(t, i)
<1> DEFINE it == {k \in 0..NLoops : \A r \in Own(t) \cup above[t] : mem[x][r] = Input(k, r)}
<1>1. i \in it /\ it \in SUBSET Nat
  BY NLoopsAssumption
<1>2. PICK r \in Own(t) \cup above[t] : TRUE
  OBVIOUS
<1>3. ASSUME NEW k \in it, ~Numa PROVE k = i
  <2>1. Input(k, r) = Input(i, r)
    BY <1>2
  <2>2. Input(k, r).of = k /\ Input(i, r).of = i
    BY <1>3 DEF Input, Complete, Filled
  <2> QED
    BY <2>1, <2>2
<1>4. Numa => 0 \in it
  <2>1. Numa => \A s : Input(0, s) = Input(i, s)
    BY DEF Input, Numa
  <2> QED
    BY <2>1, NLoopsAssumption
<1>5. Product(t) = IF it = {} THEN Garbage ELSE [of |-> Min(it) + 1, from |-> {t}]
  BY DEF Product
<1>6. Min(it) \in it /\ \A k \in it : Min(it) <= k
  <2> HIDE DEF it
  <2> QED
    BY <1>1, MinIn
<1>7. Min(it) = IF Numa THEN 0 ELSE i
  <2>1. CASE Numa
    <3>1. Min(it) <= 0 /\ Min(it) \in Nat
      BY <1>1, <1>4, <1>6, <2>1
    <3> QED
      BY <2>1, <3>1
  <2>2. CASE ~Numa
    BY <1>3, <1>6, <2>2
  <2> QED
    BY <2>1, <2>2
<1>8. Product(t) = [of |-> Min(it) + 1, from |-> {t}]
  BY <1>1, <1>5
<1> HIDE DEF it
<1> QED
  BY <1>7, <1>8 DEF Share

\* And returns, having added its share to its rows and to its private vector.
LEMMA KernelReturnKeeps ==
  ASSUME FullInv, NEW t \in Threads, KernelReturn(t)
  PROVE  BufferInv' /\ PlaceInv' /\ DataInv'
<1>1. /\ pc = [u \in Threads |-> pc[u]] /\ iter = [u \in Threads |-> iter[u]]
      /\ todo = [u \in Threads |-> todo[u]] /\ args = [u \in Threads |-> args[u]]
  BY DEF FullInv, IInv, TypeInv, BufferInv
<1> DEFINE p == Product(t)
           Add(w) == IF w = Zero THEN p ELSE Garbage
           v == [r \in Rows |-> IF r \in Own(t) THEN Add(mem[y][r]) ELSE mem[y][r]]
           w == [r \in Rows |-> IF r \in above[t] THEN Add(temp[t][r]) ELSE temp[t][r]]
<1>2. t \notin blocked /\ pc[t] = "kernel"
  BY WorkerRound DEF KernelReturn, FullInv
<1>3. PICK i \in Nat : i = iter[t] /\ round = 3 * i + 1
  BY <1>2, WorkerRound DEF FullInv
<1>4. Computed(i)
  BY DEF FullInv, DataInv
<1>5. /\ args[t] = <<x, y>> /\ \A r \in Own(t) : mem[y][r] = Zero
      /\ \A r \in above[t] : temp[t][r] = Zero
      /\ \A r \in Rows : mem[x][r] = Input(i, r)
  BY <1>2, <1>3, <1>4 DEF Computed
<1>6. /\ OnlyOf(t) /\ pc'[t] = "computed" /\ iter'[t] = iter[t]
      /\ todo'[t] = todo[t] /\ UNCHANGED <<matrix, x, y, round, args>>
  BY <1>1 DEF KernelReturn, OnlyOf, caller, barrier
<1>7. /\ x \in {"bx", "by"} /\ y \in {"bx", "by"} /\ x # y /\ Grid(mem, {"bx", "by"})
      /\ Grid(temp, Threads)
  BY DEF FullInv, BufferInv
<1>8. NewVector(mem', mem, y, v) /\ NewVector(temp', temp, t, w)
  <2>1. mem = [b \in {"bx", "by"} |-> mem[b]] /\ temp = [u \in Threads |-> temp[u]]
    BY <1>7 DEF Grid
  <2>2. /\ mem' = [mem EXCEPT ![args[t][2]] = [r \in Rows |-> IF r \in Own(t) THEN Add(@[r]) ELSE @[r]]]
        /\ temp' = [temp EXCEPT ![t] = [r \in Rows |-> IF r \in above[t] THEN Add(@[r]) ELSE @[r]]]
    BY DEF KernelReturn
  <2>3. args[t][2] = y
    BY <1>5
  <2>4. /\ mem' = [mem EXCEPT ![y] = [r \in Rows |-> IF r \in Own(t) THEN Add(@[r]) ELSE @[r]]]
    BY <2>2, <2>3
  <2> QED
    BY <2>2, <2>4 DEF NewVector
<1>9. /\ Vector(v) /\ \A r \in Rows : v[r] = IF r \in Own(t) THEN Add(mem[y][r]) ELSE mem[y][r]
      /\ Vector(w) /\ \A r \in Rows : w[r] = IF r \in above[t] THEN Add(temp[t][r]) ELSE temp[t][r]
  BY DEF Vector
<1> HIDE DEF v, w
<1>10. Grid(mem', {"bx", "by"}) /\ mem'[y] = v /\ mem'[x] = mem[x]
  BY <1>7, <1>8, <1>9, VectorSet
<1>11. Grid(temp', Threads) /\ temp'[t] = w /\ \A u \in Threads \ {t} : temp'[u] = temp[u]
  BY <1>7, <1>8, <1>9, VectorSet
<1>12. BufferInv'
  BY <1>1, <1>6, <1>7, <1>10, <1>11, MatrixKept DEF BufferInv
<1>13. PlaceInv'
  BY <1>2, <1>6, PlaceKept DEF FullInv, PlaceInv
<1>14. above[t] \subseteq Rows /\ Own(t) \subseteq Rows
       /\ \A u \in Threads \ {t} : Own(u) \subseteq Rows /\ \A r \in Own(u) : r \notin Own(t)
  BY OwnRows DEF FullInv, MatrixInv
<1>15. Own(t) \cup above[t] # {} => p = Share(t, i)
  <2>1. i \in 0..NLoops
    BY <1>2, <1>3, NLoopsAssumption DEF FullInv, PlaceInv
  <2>2. args[t][1] = x
    BY <1>5
  <2>3. \A r \in Own(t) \cup above[t] : mem[x][r] = Input(i, r)
    BY <1>5, <1>14
  <2> QED
    BY <2>1, <2>2, <2>3, ProductIsShare
<1> HIDE DEF p
<1>16. /\ \A r \in Own(t) : mem'[y][r] = Share(t, i)
       /\ \A r \in above[t] : temp'[t][r] = Share(t, i)
  BY <1>5, <1>9, <1>10, <1>11, <1>14, <1>15
<1>17. ASSUME NEW u \in Threads \ {t}
       PROVE  /\ pc'[u] = pc[u] /\ todo'[u] = todo[u] /\ args'[u] = args[u] /\ temp'[u] = temp[u]
              /\ \A r \in Own(u) : mem'[y][r] = mem[y][r]
  <2>1. pc'[u] = pc[u] /\ todo'[u] = todo[u]
    BY <1>6, OthersKept DEF FullInv
  <2>2. \A r \in Own(u) : mem'[y][r] = mem[y][r]
    BY <1>9, <1>10, <1>14
  <2> QED
    BY <1>6, <1>11, <2>1, <2>2
<1>18. DataInv'
  BY <1>3, <1>4, <1>6, <1>10, <1>16, <1>17, ComputedKept
<1> QED
  BY <1>12, <1>13, <1>18

\* The call of the second barrier.
LEMMA SecondWaitKeeps ==
  ASSUME FullInv, NEW t \in Threads, SecondWait(t)
  PROVE  BufferInv' /\ PlaceInv' /\ DataInv'
<1>1. /\ pc = [u \in Threads |-> pc[u]] /\ iter = [u \in Threads |-> iter[u]]
      /\ todo = [u \in Threads |-> todo[u]]
  BY DEF FullInv, IInv, TypeInv
<1>2. /\ OnlyOf(t) /\ pc[t] = "computed" /\ pc'[t] = "reduce" /\ iter'[t] = iter[t]
      /\ todo'[t] = DOMAIN map[t] /\ UNCHANGED <<matrix, x, y, mem, temp, args, mpc>>
      /\ BarrierWait(t, Parties)
  BY <1>1 DEF SecondWait, OnlyOf, caller
<1>3. t \notin blocked
  BY <1>2, LastOrNot DEF FullInv
<1>4. PICK i \in Nat : i = iter[t] /\ round = 3 * i + 1
  BY <1>2, <1>3, WorkerRound DEF FullInv
<1>5. Computed(i)
  BY DEF FullInv, DataInv
<1>6. PlaceInv'
  BY <1>2, PlaceKept DEF FullInv, PlaceInv
<1>7. BufferInv'
  BY <1>2, MatrixKept DEF FullInv, BufferInv
<1>8. \A u \in Threads \ {t} : pc'[u] = pc[u] /\ todo'[u] = todo[u]
  BY <1>2, OthersKept DEF FullInv
<1>9. CASE round' = round
  <2>1. /\ \A r \in Own(t) : mem'[y][r] = Share(t, i)
        /\ \A r \in above[t] : temp'[t][r] = Share(t, i)
    BY <1>2, <1>4, <1>5 DEF Computed
  <2>2. DataInv'
    BY <1>2, <1>4, <1>5, <1>8, <1>9, <2>1, ComputedKept
  <2> QED
    BY <1>6, <1>7, <2>2
<1>10. CASE round' = round + 1 /\ Threads \ {t} \subseteq blocked
  <2>1. \A u \in Threads \ {t} : pc[u] = "reduce"
    BY <1>4, <1>10, WorkerPlace DEF FullInv
  <2>2. \A u \in Threads : pc[u] \in {"computed", "reduce"} /\ todo'[u] = DOMAIN map[u]
    BY <1>2, <1>4, <1>5, <1>8, <2>1 DEF Computed
  <2>3. Reduced(i)'
    BY <1>2, <1>4, <1>5, <2>2, OpenSecond DEF FullInv
  <2>5. DataInv'
    BY <1>4, <1>10, <2>3, OnePartNext
  <2> QED
    BY <1>6, <1>7, <2>5
<1> QED
  BY <1>2, <1>9, <1>10, LastOrNot DEF FullInv

\* A private element with the thread's share goes into the product's row.
LEMMA PlusShare ==
  ASSUME NEW i \in Nat, NEW c, NEW r, c # Owner(r), c \notin Added(r)
  PROVE  Plus(Partial(i, r), Share(c, i)) =
           [of |-> IF Numa THEN 1 ELSE i + 1, from |-> {Owner(r)} \cup Added(r) \cup {c}]
<1> DEFINE a == Partial(i, r)
           b == Share(c, i)
<1>1. a = [of |-> IF Numa THEN 1 ELSE i + 1, from |-> {Owner(r)} \cup Added(r)]
  BY DEF Partial
<1>2. b = [of |-> IF Numa THEN 1 ELSE i + 1, from |-> {c}]
  BY DEF Share
<1>3. b # Zero
  BY <1>2 DEF Zero
<1>4. a.of = b.of /\ a.from \cap b.from = {}
  BY <1>1, <1>2
<1>5. Plus(a, b) = [a EXCEPT !.from = @ \cup b.from]
  BY <1>3, <1>4 DEF Plus
<1>6. [a EXCEPT !.from = @ \cup b.from] = [of |-> a.of, from |-> a.from \cup b.from]
  BY <1>1
<1>7. a.of = (IF Numa THEN 1 ELSE i + 1) /\ a.from \cup b.from = {Owner(r)} \cup Added(r) \cup {c}
  BY <1>1, <1>2
<1> HIDE DEF a, b
<1>8. Plus(a, b) = [of |-> a.of, from |-> a.from \cup b.from]
  BY Zenon, <1>5, <1>6
<1>9. Plus(a, b) = [of |-> IF Numa THEN 1 ELSE i + 1, from |-> {Owner(r)} \cup Added(r) \cup {c}]
  BY Zenon, <1>7, <1>8
<1> QED
  BY <1>9 DEF a, b

\* An entry of the map is reduced.
LEMMA ReduceKeeps ==
  ASSUME FullInv, NEW t \in Threads, Reduce(t)
  PROVE  BufferInv' /\ PlaceInv' /\ DataInv'
<1>1. /\ pc = [u \in Threads |-> pc[u]] /\ iter = [u \in Threads |-> iter[u]]
      /\ todo = [u \in Threads |-> todo[u]]
  BY DEF FullInv, IInv, TypeInv
<1>2. MapOnce /\ above \in [Threads -> SUBSET Rows]
  BY MapOnceFromInv DEF FullInv, MatrixInv
<1>3. todo[t] \subseteq DOMAIN map[t] /\ DOMAIN map[t] \in SUBSET Nat /\ todo[t] # {}
  BY <1>2 DEF MapOnce, EachOnce, Threads, FullInv, PlaceInv, Reduce
<1>4. PICK k \in todo[t] : k = Min(todo[t])
  BY <1>3, MinIn
<1>5. PICK c \in Threads, p \in Rows : p \in above[c] /\ map[t][k] = <<c, p>>
  <2>1. k \in DOMAIN map[t]
    BY <1>3
  <2>2. PICK c \in Threads : \E r \in above[c] : map[t][k] = <<c, r>>
    BY <1>2, <2>1 DEF MapOnce, EachOnce, Threads
  <2>3. above[c] \subseteq Rows
    BY <1>2
  <2> QED
    BY <2>2, <2>3
<1>6. /\ OnlyOf(t) /\ pc[t] = "reduce" /\ t \notin blocked /\ pc'[t] = "reduce" /\ iter'[t] = iter[t]
      /\ todo'[t] = todo[t] \ {k} /\ UNCHANGED <<matrix, x, y, temp, args, round>>
  BY <1>1, <1>4 DEF Reduce, OnlyOf, caller, barrier, Awake
<1>7. NewElement(mem', mem, y, p, Plus(mem[y][p], temp[c][p]))
  BY <1>4, <1>5 DEF Reduce, NewElement
<1>8. PICK i \in Nat : i = iter[t] /\ round = 3 * i + 2
  BY <1>6, WorkerRound DEF FullInv
<1>9. /\ \A r \in Rows : mem[x][r] = Input(i, r) /\ mem[y][r] = Partial(i, r)
      /\ \A u \in Threads : \A r \in above[u] : temp[u][r] = Share(u, i)
  BY <1>8 DEF FullInv, DataInv, Reduced
<1>10. c # Owner(p) /\ c \notin Added(p)
  <2>1. c # Owner(p)
    BY <1>5, OneOwner DEF FullInv
  <2>2. ASSUME NEW u \in Threads, NEW e \in DOMAIN map[u] \ todo[u], map[u][e] = <<c, p>>
        PROVE  FALSE
    <3>1. map[u][e][2] = map[t][k][2] /\ k \in DOMAIN map[t]
      BY <1>3, <1>5, <2>2
    <3>2. u = t
      BY <1>2, <3>1 DEF MapOnce, EachOnce, Threads
    <3>3. map[t][e] = map[t][k] /\ e \in DOMAIN map[t]
      BY <1>5, <2>2, <3>2
    <3>4. e = k
      BY <1>2, <3>1, <3>3 DEF MapOnce, EachOnce, Threads
    <3> QED
      BY <3>2, <3>4
  <2> QED
    BY <2>1, <2>2 DEF Added
<1>11. Plus(mem[y][p], temp[c][p]) =
         [of |-> IF Numa THEN 1 ELSE i + 1, from |-> {Owner(p)} \cup Added(p) \cup {c}]
  BY <1>5, <1>9, <1>10, PlusShare
<1>12. \A r \in Rows : Added(r)' = IF r = p THEN Added(p) \cup {c} ELSE Added(r)
  <2> SUFFICES ASSUME NEW r \in Rows
               PROVE  Added(r)' = IF r = p THEN Added(p) \cup {c} ELSE Added(r)
    OBVIOUS
  <2>1. UNCHANGED <<map, Threads>>
    BY <1>6, MatrixKept
  <2>2. \A u \in Threads \ {t} : todo'[u] = todo[u]
    BY <1>6, OthersKept DEF FullInv
  <2>3. k \in DOMAIN map[t]
    BY <1>3
  <2>4. ASSUME NEW l \in Threads
        PROVE  l \in Added(r)' <=> l \in Added(r) \/ (r = p /\ l = c)
    <3>1. /\ l \in Added(r) <=> \E u \in Threads : \E e \in DOMAIN map[u] \ todo[u] : map[u][e] = <<l, r>>
          /\ l \in Added(r)' <=> \E u \in Threads : \E e \in DOMAIN map[u] \ todo'[u] : map[u][e] = <<l, r>>
      BY <2>1 DEF Added
    <3>2. ASSUME NEW u \in Threads, NEW e
          PROVE  e \in DOMAIN map[u] \ todo'[u] <=>
                   e \in DOMAIN map[u] \ todo[u] \/ (u = t /\ e = k)
      BY <1>6, <2>2, <2>3
    <3>3. l \in Added(r)' <=> l \in Added(r) \/ map[t][k] = <<l, r>>
      BY <2>3, <3>1, <3>2
    <3> QED
      BY <1>5, <3>3
  <2>5. Added(r)' \subseteq Threads /\ Added(r) \subseteq Threads
    BY <2>1 DEF Added
  <2> QED
    BY <2>4, <2>5
<1>13. /\ x \in {"bx", "by"} /\ y \in {"bx", "by"} /\ x # y /\ Grid(mem, {"bx", "by"})
       /\ Grid(temp, Threads)
  BY DEF FullInv, BufferInv
<1>14. /\ Grid(mem', {"bx", "by"}) /\ mem'[y][p] = Plus(mem[y][p], temp[c][p])
       /\ \A b \in {"bx", "by"}, r \in Rows : b # y \/ r # p => mem'[b][r] = mem[b][r]
  BY <1>7, <1>13, ElementSet
<1>15. BufferInv'
  BY <1>6, <1>14, MatrixKept DEF FullInv, BufferInv
<1>16. PlaceInv'
  BY <1>3, <1>6, PlaceKept DEF FullInv, PlaceInv
<1>17. Reduced(i)'
  <2>1. /\ UNCHANGED <<x, y, above, map, Threads, Numa>> /\ \A r : Input(i, r)' = Input(i, r)
        /\ \A u : Share(u, i)' = Share(u, i) /\ \A r : Owner(r)' = Owner(r)
    BY <1>6, MatrixKept
  <2>2. \A r \in Rows : mem'[x'][r] = Input(i, r)'
    BY <1>9, <1>13, <1>14, <2>1
  <2>3. \A r \in Rows : mem'[y'][r] = Partial(i, r)'
    <3> SUFFICES ASSUME NEW r \in Rows PROVE mem'[y][r] = Partial(i, r)'
      BY <2>1
    <3>1. Partial(i, r)' = [of |-> IF Numa THEN 1 ELSE i + 1, from |-> {Owner(r)} \cup Added(r)']
      BY <2>1 DEF Partial
    <3>2. CASE r = p
      <4>1. Added(p)' = Added(p) \cup {c}
        BY <1>12
      <4>2. {Owner(p)} \cup Added(p) \cup {c} = {Owner(p)} \cup Added(p)'
        BY <4>1
      <4> QED
        BY <1>11, <1>14, <3>1, <3>2, <4>2
    <3>3. CASE r # p
      <4>1. Partial(i, r)' = Partial(i, r)
        BY <1>12, <3>1, <3>3 DEF Partial
      <4> QED
        BY <1>9, <1>13, <1>14, <3>3, <4>1
    <3> QED
      BY <3>2, <3>3
  <2> QED
    BY <1>6, <1>9, <2>1, <2>2, <2>3 DEF Reduced
<1> QED
  BY <1>6, <1>8, <1>15, <1>16, <1>17, OnePartNext

\* The call of the third barrier.
LEMMA ThirdWaitKeeps ==
  ASSUME FullInv, NEW t \in Threads, ThirdWait(t)
  PROVE  BufferInv' /\ PlaceInv' /\ DataInv'
<1>1. /\ pc = [u \in Threads |-> pc[u]] /\ iter = [u \in Threads |-> iter[u]]
      /\ todo = [u \in Threads |-> todo[u]]
  BY DEF FullInv, IInv, TypeInv
<1>2. /\ OnlyOf(t) /\ pc[t] = "reduce" /\ todo[t] = {} /\ pc'[t] = "next" /\ iter'[t] = iter[t]
      /\ UNCHANGED <<matrix, x, y, mem, temp, args, todo, mpc>> /\ BarrierWait(t, Parties)
  BY <1>1 DEF ThirdWait, Wait, OnlyOf, caller
<1>3. t \notin blocked
  BY <1>2, LastOrNot DEF FullInv
<1>4. PICK i \in Nat : i = iter[t] /\ round = 3 * i + 2
  BY <1>2, <1>3, WorkerRound DEF FullInv
<1>5. Reduced(i)
  BY DEF FullInv, DataInv
<1>6. PlaceInv'
  BY <1>2, PlaceKept DEF FullInv, PlaceInv
<1>7. BufferInv'
  BY <1>2, MatrixKept DEF FullInv, BufferInv
<1>8. CASE round' = round
  <2>1. Reduced(i)'
    <3>1. /\ UNCHANGED <<x, y, above, map, Threads, Numa>> /\ \A r : Input(i, r)' = Input(i, r)
          /\ \A u : Share(u, i)' = Share(u, i) /\ \A r : Owner(r)' = Owner(r)
      BY <1>2, MatrixKept
    <3>2. \A r : Added(r)' = Added(r)
      BY <1>2, <3>1 DEF Added
    <3>3. \A r : Partial(i, r)' = Partial(i, r)
      BY <3>1, <3>2 DEF Partial
    <3> QED
      BY <1>2, <1>4, <1>5, <3>1, <3>3 DEF Reduced
  <2> QED
    BY <1>4, <1>6, <1>7, <1>8, <2>1, OnePartNext
<1>9. CASE round' = round + 1 /\ Threads \ {t} \subseteq blocked /\ (Checks => Main \in blocked)
  <2>1. \A u \in Threads \ {t} : pc'[u] = pc[u]
    BY <1>2, OthersKept DEF FullInv
  <2>2. \A u \in Threads \ {t} : pc[u] = "next" /\ todo[u] = {}
    <3>1. \A u \in Threads \ {t} : pc[u] = "next"
      BY <1>4, <1>9, WorkerPlace DEF FullInv
    <3> QED
      BY <3>1 DEF FullInv, IInv, TodoInv
  <2>3. \A u \in Threads : todo[u] = {} /\ pc'[u] = "next"
    BY <1>2, <2>1, <2>2
  <2>4. loop = "check" => mpc' = "compare"
    BY <1>2, <1>4, <1>9, MainPlace DEF FullInv, Checks
  <2>5. Cleared(i + 1)'
    BY <1>2, <1>4, <1>5, <2>3, <2>4, OpenThird DEF FullInv
  <2>6. PICK j \in Nat : j = i + 1
    OBVIOUS
  <2>8. round' = 3 * j /\ Cleared(j)'
    BY <1>4, <1>9, <2>5, <2>6
  <2> QED
    BY <1>6, <1>7, <2>8, OnePartNext
<1> QED
  BY <1>2, <1>8, <1>9, LastOrNot DEF FullInv

\* A step that changes neither a vector nor the place of a thread.
LEMMA DataKept ==
  ASSUME DataInv, NEW i \in Nat, UNCHANGED <<matrix, x, y, mem, temp, workers, round>>,
         \/ round = 3 * i /\ (InputReady' => InputReady)
            /\ (loop = "check" /\ mpc' = "compare" => mpc = "compare")
         \/ round = 3 * i + 1
         \/ round = 3 * i + 2
  PROVE  DataInv'
<1>1. /\ UNCHANGED <<x, y, mem, temp, pc, iter, todo, args, round, loop, above, map, Threads, Numa>>
      /\ \A r : Input(i, r)' = Input(i, r)
      /\ \A u : Own(u)' = Own(u) /\ Share(u, i)' = Share(u, i)
      /\ \A r : Owner(r)' = Owner(r)
  BY MatrixKept DEF workers
<1>2. CASE round = 3 * i /\ (InputReady' => InputReady)
           /\ (loop = "check" /\ mpc' = "compare" => mpc = "compare")
  <2>1. UNCHANGED <<InBuf, ResBuf>>
    BY <1>1 DEF InBuf, ResBuf
  <2>2. Cleared(i)
    BY DEF DataInv
  <2>3. \A t \in Threads : pc'[t] \in {"clear", "call"} =>
          \A e \in DOMAIN map[t] \ todo'[t] : temp'[map[t][e][1]][map[t][e][2]] = Zero
    BY <1>1, <1>2, <2>2 DEF Cleared
  <2> QED
    BY <1>1, <1>2, <2>1, <2>2, <2>3, ClearedKept
<1>3. CASE round = 3 * i + 1
  <2>1. Computed(i)' = Computed(i)
    BY <1>1 DEF Computed
  <2>2. Computed(i)
    BY DEF DataInv
  <2> QED
    BY <1>1, <1>3, <2>1, <2>2, OnePartNext
<1>4. CASE round = 3 * i + 2
  <2>1. \A r : Added(r)' = Added(r)
    BY <1>1 DEF Added
  <2>2. \A r : Partial(i, r)' = Partial(i, r)
    BY <1>1, <2>1 DEF Partial
  <2>3. Reduced(i)
    BY DEF DataInv
  <2>4. Reduced(i)'
    BY <1>1, <2>2, <2>3 DEF Reduced
  <2> QED
    BY <1>1, <1>4, <2>4, OnePartNext
<1> QED
  BY <1>2, <1>3, <1>4

\* Each round is the first, second or third of a pass.
LEMMA RoundOfPass ==
  ASSUME IInv
  PROVE  \E i \in Nat : round = 3 * i \/ round = 3 * i + 1 \/ round = 3 * i + 2
<1>1. PICK u \in Threads : u = 0
  BY ThreadsCounted DEF IInv, TypeInv
<1>2. /\ iter[u] \in Nat /\ round \in Nat
      /\ round = 3 * iter[u] \/ round = 3 * iter[u] + 1 \/ round = 3 * iter[u] + 2
         \/ round = 3 * (iter[u] + 1) \/ round + 1 = 3 * iter[u] + 1
         \/ round + 1 = 3 * iter[u] + 2 \/ round + 1 = 3 * iter[u] + 3
  <2>1. u \in Members /\ u # Main /\ iter[u] \in Nat /\ round \in Nat
    BY ThreadsCounted DEF IInv, TypeInv, Members
  <2>2. Arrivals(u) = round \/ Arrivals(u) = round + 1
    BY <2>1 DEF IInv, BarrierInv
  <2>3. Arrivals(u) \in {3 * iter[u], 3 * iter[u] + 1, 3 * iter[u] + 2, 3 * iter[u] + 3}
    BY <2>1 DEF Arrivals
  <2>4. u \in blocked => pc[u] \in {"call", "reduce", "next"}
    BY WorkerRound
  <2>5. pc[u] \in {"call", "reduce", "next"} => Arrivals(u) # 3 * iter[u]
    BY <2>1 DEF Arrivals
  <2>6. Arrivals(u) = round + 1 => Arrivals(u) # 3 * iter[u]
    BY <2>1, <2>4, <2>5 DEF IInv, BarrierInv
  <2> QED
    BY <2>1, <2>2, <2>3, <2>6
<1> QED
  BY <1>2

\* A step of the calling thread that leaves the vectors and the threads alone.
LEMMA PlacesKept ==
  ASSUME BufferInv, PlaceInv, UNCHANGED <<matrix, x, y, mem, temp, workers>>,
         mpc' # "failed", mpc' = "fill" => loop = "check"
  PROVE  BufferInv' /\ PlaceInv'
BY MatrixKept DEF BufferInv, PlaceInv, workers

\* The calling thread starts a pass, or has done all.
LEMMA MainLoopKeeps ==
  ASSUME FullInv, MainLoop
  PROVE  BufferInv' /\ PlaceInv' /\ DataInv'
<1>1. /\ UNCHANGED <<matrix, x, y, mem, temp, workers, round, blocked>> /\ mpc = "loop"
      /\ mpc' \in {"join", "fill", "first"} /\ (mpc' = "fill" => loop = "check")
      /\ loop = "check" => mpc' # "first"
  BY DEF MainLoop, barrier
<1>2. Checks
  BY <1>1 DEF FullInv, IInv, TypeInv
<1>3. Main \notin blocked /\ pass \in Nat
  BY <1>1 DEF FullInv, IInv, TypeInv, BarrierInv, Sleeps
<1>4. round = 3 * pass
  BY <1>1, <1>2, <1>3, MainPlace DEF FullInv
<1>5. PICK i \in Nat : round = 3 * i
  BY <1>3, <1>4
<1>6. InputReady' => InputReady
  BY <1>1, <1>2 DEF InputReady, Checks, matrix
<1>7. DataInv'
  BY <1>1, <1>5, <1>6, DataKept DEF FullInv
<1> QED
  BY <1>1, <1>7, PlacesKept DEF FullInv

\* The calling thread fills in the input of the next pass.
LEMMA MainFillKeeps ==
  ASSUME FullInv, MainFill
  PROVE  BufferInv' /\ PlaceInv' /\ DataInv'
<1> DEFINE v == [r \in Rows |-> Input(pass, r)]
           w == [r \in Rows |-> Garbage]
           m == [mem EXCEPT ![x] = v]
<1>1. /\ UNCHANGED <<matrix, x, y, temp, workers, round, blocked>> /\ mpc = "fill" /\ mpc' = "first"
      /\ loop = "check" /\ Checks
  BY DEF MainFill, barrier, FullInv, PlaceInv, Checks
<1>2. Main \notin blocked /\ pass \in Nat
  BY <1>1 DEF FullInv, IInv, TypeInv, BarrierInv, Sleeps
<1>3. PICK i \in Nat : i = pass /\ round = 3 * i
  BY <1>1, <1>2, MainPlace DEF FullInv
<1>4. NewVector(m, mem, x, v) /\ NewVector(mem', m, y, w)
  BY DEF MainFill, NewVector
<1>5. Vector(v) /\ Vector(w) /\ \A r \in Rows : v[r] = Input(i, r)
  BY <1>3 DEF Vector
<1>6. /\ x \in {"bx", "by"} /\ y \in {"bx", "by"} /\ x # y /\ Grid(mem, {"bx", "by"})
      /\ Grid(temp, Threads) /\ args = [t \in Threads |-> args[t]]
  BY DEF FullInv, BufferInv
<1> HIDE DEF v, w, m
<1>7. Grid(m, {"bx", "by"}) /\ m[x] = v
  BY <1>4, <1>5, <1>6, VectorSet
<1>8. Grid(mem', {"bx", "by"}) /\ mem'[x] = v
  BY <1>4, <1>5, <1>6, <1>7, VectorSet
<1>9. /\ UNCHANGED <<x, y, temp, pc, iter, todo, args, loop, map, Threads, Numa>>
      /\ \A r : Input(i, r)' = Input(i, r)
  BY <1>1, MatrixKept DEF workers
<1>10. BufferInv'
  BY <1>6, <1>8, <1>9 DEF BufferInv
<1>11. PlaceInv'
  BY <1>1, <1>9 DEF FullInv, PlaceInv
<1>12. Cleared(i)'
  <2>1. InBuf' = x
    BY <1>1, <1>9 DEF InBuf
  <2>2. \A r \in Rows : mem'[InBuf'][r] = Input(i, r)'
    BY <1>5, <1>8, <1>9, <2>1
  <2>3. loop' = "check" /\ mpc' # "compare"
    BY <1>1, <1>9
  <2>4. Cleared(i)
    BY DEF FullInv, DataInv
  <2>5. \A t \in Threads : pc'[t] \in {"clear", "call"} =>
          \A e \in DOMAIN map[t] \ todo'[t] : temp'[map[t][e][1]][map[t][e][2]] = Zero
    BY <1>3, <1>9, <2>4 DEF Cleared
  <2> QED
    BY <1>9, <2>2, <2>3, <2>5 DEF Cleared
<1>13. DataInv'
  BY <1>1, <1>3, <1>12, OnePartNext
<1> QED
  BY <1>10, <1>11, <1>13

\* The calling thread frames a pass with its barrier calls.
LEMMA MainWaitKeeps ==
  ASSUME FullInv, MainWait
  PROVE  BufferInv' /\ PlaceInv' /\ DataInv'
<1>1. /\ UNCHANGED <<matrix, x, y, mem, temp, workers>> /\ BarrierWait(Main, Parties)
      /\ \/ mpc = "first" /\ mpc' = "second"
         \/ mpc = "second" /\ mpc' = "third"
         \/ mpc = "third" /\ mpc' = "compare"
  BY DEF MainWait
<1>2. Checks /\ Main \in Members /\ pass \in Nat
  BY <1>1 DEF FullInv, IInv, TypeInv, Members
<1>3. /\ Main \notin blocked
      /\ round' = round \/ (round' = round + 1 /\ Threads \subseteq blocked)
  BY <1>1, <1>2, LastOrNotMain DEF FullInv
<1>4. BufferInv' /\ PlaceInv'
  BY <1>1, PlacesKept DEF FullInv
<1>5. PICK i \in Nat : i = pass
  BY <1>2
<1>6. UNCHANGED <<pc, todo, loop, Threads>>
  BY <1>1, MatrixKept DEF workers
<1>7. CASE mpc = "first"
  <2>1. round = 3 * i
    BY <1>2, <1>3, <1>5, <1>7, MainPlace DEF FullInv
  <2>2. CASE round' = round
    <3>1. InputReady' => InputReady
      BY <1>6, <1>7 DEF InputReady
    <3>2. mpc' = "second"
      BY <1>1, <1>7
    <3> QED
      BY <1>1, <1>4, <2>1, <2>2, <3>1, <3>2, DataKept DEF FullInv
  <2>3. CASE round' = round + 1 /\ Threads \subseteq blocked
    <3>1. \A u \in Threads : pc[u] = "call"
      BY <2>1, <2>3, WorkerPlace DEF FullInv
    <3>2. \A u \in Threads : pc[u] \in {"clear", "call"} /\ todo[u] = {} /\ pc'[u] = "call"
      BY <1>6, <3>1 DEF FullInv, IInv, TodoInv
    <3>3. InputReady
      BY <1>2, <1>7 DEF InputReady, Checks
    <3>4. Computed(i)'
      BY <1>1, <2>1, <3>2, <3>3, OpenFirst DEF FullInv, DataInv
    <3>5. DataInv'
      BY <2>1, <2>3, <3>4, OnePartNext
    <3> QED
      BY <1>4, <3>5
  <2> QED
    BY <1>3, <2>2, <2>3
<1>8. CASE mpc = "second"
  <2>1. round = 3 * i + 1
    BY <1>2, <1>3, <1>5, <1>8, MainPlace DEF FullInv
  <2>2. CASE round' = round
    BY <1>1, <1>4, <2>1, <2>2, DataKept DEF FullInv
  <2>3. CASE round' = round + 1 /\ Threads \subseteq blocked
    <3>1. Computed(i)
      BY DEF FullInv, DataInv
    <3>2. \A u \in Threads : pc[u] = "reduce"
      BY <2>1, <2>3, WorkerPlace DEF FullInv
    <3>3. \A u \in Threads : todo'[u] = DOMAIN map[u]
      BY <1>6, <2>1, <3>1, <3>2 DEF Computed
    <3>4. Reduced(i)'
      BY <1>1, <2>1, <3>1, <3>2, <3>3, OpenSecond DEF FullInv
    <3>5. DataInv'
      BY <2>1, <2>3, <3>4, OnePartNext
    <3> QED
      BY <1>4, <3>5
  <2> QED
    BY <1>3, <2>2, <2>3
<1>9. CASE mpc = "third"
  <2>1. round = 3 * i + 2
    BY <1>2, <1>3, <1>5, <1>9, MainPlace DEF FullInv
  <2>2. CASE round' = round
    BY <1>1, <1>4, <2>1, <2>2, DataKept DEF FullInv
  <2>3. CASE round' = round + 1 /\ Threads \subseteq blocked
    <3>1. Reduced(i)
      BY DEF FullInv, DataInv
    <3>2. \A u \in Threads : pc[u] = "next"
      BY <2>1, <2>3, WorkerPlace DEF FullInv
    <3>3. \A u \in Threads : todo[u] = {} /\ pc'[u] = "next"
      BY <1>6, <3>2 DEF FullInv, IInv, TodoInv
    <3>4. mpc' = "compare"
      BY <1>1, <1>9
    <3>5. Cleared(i + 1)'
      BY <1>1, <2>1, <3>1, <3>3, <3>4, OpenThird DEF FullInv
    <3>6. PICK j \in Nat : j = i + 1
      OBVIOUS
    <3>7. round' = 3 * j /\ Cleared(j)'
      BY <2>1, <2>3, <3>5, <3>6
    <3> QED
      BY <1>4, <3>7, OnePartNext
  <2> QED
    BY <1>3, <2>2, <2>3
<1> QED
  BY <1>1, <1>7, <1>8, <1>9

\* The comparison with the serial product succeeds.
LEMMA MainCompareKeeps ==
  ASSUME FullInv, MainCompare
  PROVE  BufferInv' /\ PlaceInv' /\ DataInv'
<1>1. /\ UNCHANGED <<matrix, x, y, mem, temp, workers, round>> /\ mpc = "compare"
      /\ Main \notin blocked
  BY DEF MainCompare, Awake, barrier
<1>2. Checks /\ pass \in Nat
  BY <1>1 DEF FullInv, IInv, TypeInv
<1>3. PICK i \in Nat : i = pass + 1 /\ round = 3 * i
  <2>1. round = 3 * (pass + 1) /\ pass + 1 \in Nat
    BY <1>1, <1>2, MainPlace DEF FullInv
  <2> QED
    BY <2>1
<1>4. Cleared(i)
  BY DEF FullInv, DataInv
<1>5. \A r \in Rows : mem[y][r] = Output(pass, r)
  <2>1. ResBuf = y
    BY <1>2 DEF ResBuf, Checks
  <2>2. i > 0 /\ i - 1 = pass
    BY <1>2, <1>3
  <2> QED
    BY <1>1, <1>3, <1>4, <2>1, <2>2 DEF Cleared
<1>6. mpc' = "loop"
  BY <1>5 DEF MainCompare
<1>7. InputReady' => InputReady
  BY <1>1, <1>2, <1>6 DEF InputReady, Checks, matrix
<1>8. DataInv'
  BY <1>1, <1>3, <1>6, <1>7, DataKept DEF FullInv
<1> QED
  BY <1>1, <1>6, <1>8, PlacesKept DEF FullInv

\* The calling thread has joined the threads.
LEMMA MainJoinKeeps ==
  ASSUME FullInv, MainJoin
  PROVE  BufferInv' /\ PlaceInv' /\ DataInv'
<1>1. UNCHANGED <<matrix, x, y, mem, temp, workers, round>> /\ mpc = "join" /\ mpc' = "end"
  BY DEF MainJoin, barrier
<1>2. PICK i \in Nat : round = 3 * i \/ round = 3 * i + 1 \/ round = 3 * i + 2
  BY RoundOfPass DEF FullInv
<1>3. InputReady' => InputReady
  BY <1>1 DEF InputReady, matrix, workers
<1>4. DataInv'
  BY <1>1, <1>2, <1>3, DataKept DEF FullInv
<1> QED
  BY <1>1, <1>4, PlacesKept DEF FullInv

-----------------------------------------------------------------------------
\* The first states satisfy the invariant of the data.
LEMMA InitFull == Init => FullInv
<1> SUFFICES ASSUME Init PROVE FullInv
  OBVIOUS
<1>1. IInv
  BY InitInv
<1>2. MatrixInv
  BY DEF Init, MatrixInv
<1>3. BufferInv
  <2>1. mem = [b \in {"bx", "by"} |-> [r \in Rows |-> IF Numa THEN Zero ELSE Garbage]]
    BY DEF Init
  <2>2. temp = [t \in Threads |-> [r \in Rows |-> IF Numa /\ r > 0 THEN Zero ELSE Garbage]]
    BY DEF Init
  <2>3. Grid(mem, {"bx", "by"})
    BY <2>1 DEF Grid
  <2>4. Grid(temp, Threads)
    BY <2>2 DEF Grid
  <2> QED
    BY <2>3, <2>4 DEF BufferInv, Init
<1>4. PlaceInv
  BY DEF Init, PlaceInv
<1>5. PICK i \in Nat : i = 0
  OBVIOUS
<1>6. round = 3 * i /\ ~(i > 0)
  BY <1>5 DEF Init, BarrierInit
<1>7. Cleared(i)
  <2>1. ASSUME InputReady PROVE \A r \in Rows : mem[InBuf][r] = Input(i, r)
    <3>1. Numa /\ loop # "bench" /\ 0 \in Threads
      BY <1>2, <2>1, ThreadsCounted DEF InputReady, Init, Numa, Checks
    <3>2. InBuf = "bx"
      BY <3>1 DEF InBuf, Init
    <3>3. \A r \in Rows : mem["bx"][r] = Zero
      BY <3>1 DEF Init
    <3>4. \A r \in Rows : Input(i, r) = Zero
      BY <3>1 DEF Input, Filled, Zero
    <3> QED
      BY <3>2, <3>3, <3>4
  <2>2. \A t \in Threads : pc[t] \notin {"clear", "call"}
    BY DEF Init
  <2> QED
    BY <1>6, <2>1, <2>2 DEF Cleared
<1>8. DataInv
  BY <1>6, <1>7, OnePart DEF PartTells
<1> QED
  BY <1>1, <1>2, <1>3, <1>4, <1>8 DEF FullInv

\* No step of a worker disturbs the matrix, nor one of the calling thread.
LEMMA MatrixUnchanged == [Next]_vars => UNCHANGED matrix
BY DEF Next, vars, Caller, MainLoop, MainFill, MainWait, MainCompare, MainJoin, Thread, InitX,
       LoopStart, Clear, FirstWait, CallKernel, KernelReturn, SecondWait, Reduce, ThirdWait,
       EndPass, Finished

\* The invariant of the data is inductive.
LEMMA StepFull == FullInv /\ [Next]_vars => FullInv'
<1> SUFFICES ASSUME FullInv, [Next]_vars PROVE FullInv'
  OBVIOUS
<1>1. IInv' /\ MatrixInv'
  BY StepInv, MatrixUnchanged, MatrixInvKept DEF FullInv
<1>2. CASE Caller
  <2>1. BufferInv' /\ PlaceInv' /\ DataInv'
    BY <1>2, MainLoopKeeps, MainFillKeeps, MainWaitKeeps, MainCompareKeeps, MainJoinKeeps DEF Caller
  <2> QED
    BY <1>1, <2>1 DEF FullInv
<1>3. CASE \E t \in Threads : Thread(t)
  <2>1. PICK t \in Threads : Thread(t)
    BY <1>3
  <2>2. BufferInv' /\ PlaceInv' /\ DataInv'
    BY <2>1, InitXKeeps, LoopStartKeeps, ClearKeeps, FirstWaitKeeps, CallKernelKeeps,
       KernelReturnKeeps, SecondWaitKeeps, ReduceKeeps, ThirdWaitKeeps, EndPassKeeps DEF Thread
  <2> QED
    BY <1>1, <2>2 DEF FullInv
<1>4. CASE UNCHANGED vars
  <2>1. UNCHANGED <<matrix, x, y, mem, temp, workers, round, mpc>>
    BY <1>4 DEF vars, workers, caller, barrier
  <2>2. PICK i \in Nat : round = 3 * i \/ round = 3 * i + 1 \/ round = 3 * i + 2
    BY RoundOfPass DEF FullInv
  <2>3. InputReady' => InputReady
    BY <2>1 DEF InputReady, matrix, workers
  <2>4. DataInv'
    BY <2>1, <2>2, <2>3, DataKept DEF FullInv
  <2>5. BufferInv' /\ PlaceInv'
    BY <2>1, PlacesKept DEF FullInv, PlaceInv
  <2> QED
    BY <1>1, <2>4, <2>5 DEF FullInv
<1> QED
  BY <1>2, <1>3, <1>4 DEF Next, Finished

\* In every reachable state the vectors hold what the barrier's round says.
THEOREM DataInvariant == Spec => []FullInv
BY InitFull, StepFull, PTL DEF Spec

\* In every reachable state the map covers each private element once.
THEOREM MapCovers == Spec => []MapCoversConflicts
<1>1. FullInv => MapCoversConflicts
  BY MapCoversFromInv DEF FullInv
<1> QED
  BY <1>1, DataInvariant, PTL

\* A product that a thread finds finished is complete.
LEMMA CompleteFromInv == FullInv => PassComplete
<1> SUFFICES ASSUME FullInv PROVE PassComplete
  OBVIOUS
<1>1. mpc # "failed"
  BY DEF FullInv, PlaceInv
<1>2. ASSUME ~Checks, NEW t \in Threads, pc[t] = "next", Awake(t)
      PROVE  \A r \in Rows :
               mem[IF loop = "bench" /\ iter[0] > iter[t] THEN x ELSE y][r] = Output(iter[t], r)
  <2>1. iter[t] \in Nat /\ round = 3 * (iter[t] + 1)
    BY <1>2, WorkerRound DEF FullInv, Awake
  <2>2. PICK i \in Nat : i = iter[t] + 1
    BY <2>1
  <2>3. round = 3 * i /\ i > 0 /\ i - 1 = iter[t]
    BY <2>1, <2>2
  <2>4. Cleared(i) /\ loop # "check"
    BY <1>2 DEF FullInv, DataInv, Checks
  <2>5. \A r \in Rows : mem[ResBuf][r] = Output(iter[t], r)
    BY <2>3, <2>4 DEF Cleared
  <2>6. 0 \in Threads
    BY ThreadsCounted DEF FullInv, MatrixInv
  <2>7. \/ pc[0] # "next" /\ iter[0] = i
        \/ pc[0] = "next" /\ iter[0] + 1 = i
    BY <2>3, <2>6, WorkerPlace DEF FullInv
  <2>8. iter[0] \in Nat
    BY <2>6, WorkerRound DEF FullInv
  <2>9. ResBuf = IF loop = "bench" /\ iter[0] > iter[t] THEN x ELSE y
    BY <2>1, <2>2, <2>7, <2>8 DEF ResBuf
  <2> QED
    BY <2>5, <2>9
<1> QED
  BY <1>1, <1>2 DEF PassComplete

\* Every pass of the symmetric product is complete, and the comparison with the serial
\* product never fails, for any partition, any rows that the parts reach and any number
\* of passes.
THEOREM EveryPassComplete == Spec => []PassComplete
BY DataInvariant, CompleteFromInv, PTL
=============================================================================
