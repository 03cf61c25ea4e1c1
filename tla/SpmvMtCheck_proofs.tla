------------------------- MODULE SpmvMtCheck_proofs --------------------------
(***************************************************************************)
(* Proofs, for any finite set of threads, any number of passes and any     *)
(* number of files or calls, that the programs around the product never    *)
(* run a kernel that is not built, never touch a vector that a worker is   *)
(* at, and always find the parallel product equal to the serial one.       *)
(***************************************************************************)
EXTENDS SpmvMtCheck, FiniteSetTheorems, TLAPS

\* From the opening of a loop or call to the end of it.
Running == mpc \in {"fill", "filled", "create", "loop", "wait", "serial", "compare", "join", "close"}

\* x is complete and stays as it is.
Steady ==
  \/ mpc \in {"wait", "serial", "compare"}
  \/ program # "csx" /\ mpc \in {"filled", "create", "loop", "join", "close"}

\* The parties of the barrier.
Members == Threads \cup (IF loop = "check" THEN {Main} ELSE {})

\* Barrier calls that a party has made since the barrier was initialised.
Arrivals(m) ==
  IF m = Main
    THEN 2 * pass + (IF mpc = "wait" THEN 1 ELSE IF mpc \in {"serial", "compare"} THEN 2 ELSE 0)
  ELSE IF m \notin created THEN 0
  ELSE 2 * iter[m] + (IF pc[m] \in {"call", "kernel", "wait"} THEN 1
                      ELSE IF pc[m] = "next" \/ (pc[m] = "exit" /\ loop = "matvec") THEN 2 ELSE 0)

\* Where a party can be asleep.
Sleeps(m) == IF m = Main THEN mpc \in {"wait", "serial"} ELSE pc[m] \in {"call", "next"}

Barrier ==
  /\ blocked \subseteq Members /\ blocked # Members
  /\ \A m \in Members : Arrivals(m) = IF m \in blocked THEN round + 1 ELSE round
  /\ \A m \in blocked : Sleeps(m)
BarrierInv == Running => Barrier

Frames == [x : Buffers, y : Buffers, todo : SUBSET Threads, seen : SUBSET Iterates]
TypeInv ==
  /\ x = "bx" /\ y = "by" /\ mem \in [Buffers -> [Threads -> Iterates]]
  /\ pc \in [Threads -> {"loop", "call", "kernel", "wait", "next", "exit"}]
  /\ iter \in [Threads -> Nat] /\ frame \in [Threads -> Frames] /\ round \in Nat
  /\ program \in {"csx", "numa", "elmer"} /\ loop \in {"check", "bench", "matvec"}
  /\ mpc \in {"turn", "end", "preprocess", "jit", "open", "fill", "filled", "create", "loop",
              "wait", "serial", "compare", "join", "close", "put"}
  /\ spm \in [Threads -> {"none", "loaded", "encoding", "encoded", "compiled", "miscompiled"}]
  /\ turn \in Nat /\ pass \in Nat
  /\ unfilled \subseteq Threads /\ created \subseteq Threads /\ joined \subseteq created

\* Which loop a program is in, at which control points.
ModeInv ==
  /\ program = "elmer" <=> loop = "matvec"
  /\ loop = "bench" => program = "numa"
  /\ mpc \in {"filled", "loop", "wait", "serial"} => loop = "check"
  /\ mpc = "filled" => program # "csx"
  /\ mpc = "compare" => loop = "check" \/ (loop = "matvec" /\ joined = Threads)
  /\ mpc \in {"close", "put"} => joined = Threads /\ loop # "matvec"
  /\ mpc = "fill" /\ program # "csx" => created = {}
  /\ Running => created = Threads \/ mpc = "create" \/ (mpc = "fill" /\ program # "csx")

\* Threads exist only while a loop runs.
ThreadInv ==
  \A t \in Threads :
    /\ ~Running \/ t \notin created \/ t \in joined => pc[t] = "exit"
    /\ Running /\ (t \notin created \/ loop = "matvec") => iter[t] = 0

SourceInv ==
  /\ Steady => unfilled = {}
  /\ Steady \/ mpc = "fill" => \A p \in Threads \ unfilled : mem[x][p] = Filled

FrameInv ==
  \A t \in Threads : pc[t] = "kernel" =>
    /\ frame[t].x = x /\ frame[t].y = y
    /\ frame[t].seen \subseteq {Filled}
    /\ frame[t].seen = {} => frame[t].todo = Threads

\* Thread t has stored its rows of this pass's, or this call's, product.
HasProduct(t) ==
  \/ loop = "check" /\ iter[t] = pass /\ pc[t] \in {"wait", "next"}
  \/ loop = "check" /\ iter[t] = pass + 1
  \/ loop = "matvec" /\ t \in created /\ pc[t] \in {"wait", "next", "exit"}

ProductInv ==
  /\ Running => \A t \in Threads : HasProduct(t) => mem[y][t] = Filled + 1
  /\ mpc = "compare" \/ (loop = "matvec" /\ mpc \in {"create", "join"}) => y2 = Filled + 1

BuiltInv ==
  /\ \A t \in Threads : spm[t] = "encoding" => mpc = "preprocess"
  /\ mpc = "jit" => \A t \in Threads : spm[t] = "encoded"
  /\ Running \/ mpc = "open" \/ (mpc = "turn" /\ program = "elmer" /\ turn > 0)
       => \A t \in Threads : spm[t] = "compiled"

IInv == /\ TypeInv /\ ModeInv /\ ThreadInv /\ BarrierInv /\ SourceInv /\ FrameInv
        /\ ProductInv /\ BuiltInv
-----------------------------------------------------------------------------
\* The barrier is initialised for its members.
LEMMA MembersCounted ==
  IsFiniteSet(Members) /\ Cardinality(Members) = Parties /\ Members # {}
<1>1. IsFiniteSet(Threads) /\ Threads # {} /\ Main \notin Threads
  BY ThreadsAssumption, MainAssumption
<1>2. CASE loop = "check"
  <2>1. Members = Threads \cup {Main}
    BY <1>2 DEF Members
  <2> QED
    BY <1>1, <1>2, <2>1, FS_AddElement DEF Parties
<1>3. CASE loop # "check"
  <2>1. Members = Threads
    BY <1>3 DEF Members
  <2>2. Cardinality(Threads) \in Nat
    BY <1>1, FS_CardinalityType
  <2> QED
    BY <1>1, <1>3, <2>1, <2>2 DEF Parties
<1> QED
  BY <1>2, <1>3

\* What a call of pthread_barrier_wait does: the last member's arrival opens the
\* next round, any other goes to sleep.
LEMMA BarrierStep ==
  ASSUME NEW m \in Members, blocked \subseteq Members, BarrierWait(m, Parties)
  PROVE  /\ m \notin blocked
         /\ \/ /\ blocked = Members \ {m}
               /\ blocked' = {} /\ round' = round + 1
            \/ /\ blocked \cup {m} # Members
               /\ blocked' = blocked \cup {m} /\ round' = round
<1>1. m \notin blocked
  BY DEF BarrierWait, Awake
<1>2. IsFiniteSet(blocked) /\ Cardinality(blocked) \in Nat
  BY MembersCounted, FS_Subset, FS_CardinalityType
<1>3. IsFiniteSet(blocked \cup {m}) /\ Cardinality(blocked \cup {m}) = Cardinality(blocked) + 1
  BY <1>1, <1>2, FS_AddElement
<1>4. CASE Cardinality(blocked) + 1 = Parties
  <2>1. blocked \cup {m} = Members
    BY <1>3, <1>4, MembersCounted, FS_Subset
  <2>2. blocked = Members \ {m}
    BY <1>1, <2>1
  <2> QED
    BY <1>1, <1>4, <2>2 DEF BarrierWait
<1>5. CASE Cardinality(blocked) + 1 # Parties
  <2>1. blocked \cup {m} # Members
    BY <1>3, <1>5, MembersCounted
  <2> QED
    BY <1>1, <1>5, <2>1 DEF BarrierWait
<1> QED
  BY <1>4, <1>5

\* A barrier call that moves its caller on by one arrival keeps the barrier's part
\* of the invariant.
LEMMA BarrierCall ==
  ASSUME NEW m \in Members, Barrier, round \in Nat, BarrierWait(m, Parties), Members' = Members,
         Arrivals(m) = round => Arrivals(m)' = round + 1, Sleeps(m)',
         \A n \in Members \ {m} : Arrivals(n)' = Arrivals(n) /\ (Sleeps(n) => Sleeps(n)')
  PROVE  Barrier'
<1>1. /\ m \notin blocked
      /\ \/ /\ blocked = Members \ {m}
            /\ blocked' = {} /\ round' = round + 1
         \/ /\ blocked \cup {m} # Members
            /\ blocked' = blocked \cup {m} /\ round' = round
  BY BarrierStep DEF Barrier
<1>2. Arrivals(m)' = round + 1
  BY <1>1 DEF Barrier
<1>3. \A n \in Members : Arrivals(n)' = IF n \in blocked' THEN round' + 1 ELSE round'
  <2> SUFFICES ASSUME NEW n \in Members
               PROVE  Arrivals(n)' = IF n \in blocked' THEN round' + 1 ELSE round'
    OBVIOUS
  <2>1. CASE n = m
    BY <1>1, <1>2, <2>1
  <2>2. CASE n # m
    <3>1. Arrivals(n)' = IF n \in blocked THEN round + 1 ELSE round
      BY <2>2 DEF Barrier
    <3> QED
      BY <1>1, <2>2, <3>1
  <2> QED
    BY <2>1, <2>2
<1>4. \A n \in blocked' : Sleeps(n)'
  BY <1>1 DEF Barrier
<1>5. blocked' \subseteq Members' /\ blocked' # Members'
  BY <1>1, MembersCounted DEF Barrier
<1> QED
  BY <1>3, <1>4, <1>5 DEF Barrier

\* What equal arrivals say of two passes.
LEMMA RoundArithmetic ==
  ASSUME NEW i \in Nat, NEW j \in Nat
  PROVE  /\ 2 * i + 1 # 2 * j /\ 2 * i + 1 # 2 * j + 2
         /\ 2 * i + 1 = 2 * j + 1 => i = j
         /\ 2 * i + 2 = 2 * j + 2 => i = j
         /\ 2 * i + 2 = 2 * j => j = i + 1
         /\ 2 * i + 2 = 2 * j + 1 + 1 => i = j
  OBVIOUS

\* While a worker is at its kernel x is complete, and in the check loops the calling
\* thread is in the same pass, between its two barriers or asleep in the second.
LEMMA KernelPass ==
  ASSUME IInv, NEW t \in Threads, pc[t] = "kernel" \/ (pc[t] = "call" /\ Awake(t))
  PROVE  /\ t \in created /\ t \notin joined /\ Running /\ Steady
         /\ mpc \notin {"fill", "compare", "close"}
         /\ ~(mpc = "serial" /\ Awake(Main))
         /\ loop = "check" => pass = iter[t]
<1>1. t \in created /\ t \notin joined /\ Running
  BY DEF IInv, ThreadInv
<1>2. t \notin blocked
  BY <1>1, MainAssumption DEF IInv, BarrierInv, Barrier, Sleeps, Awake
<1>3. mpc \notin {"compare", "close"} \/ loop = "check"
  BY <1>1 DEF IInv, ModeInv
<1>4. CASE loop = "check"
  <2>1. t \in Members /\ Main \in Members /\ t # Main
    BY <1>4, MainAssumption DEF Members
  <2>2. iter[t] \in Nat /\ pass \in Nat /\ round \in Nat
    BY DEF IInv, TypeInv
  <2>3. round = 2 * iter[t] + 1
    BY <1>1, <1>2, <2>1, <2>2 DEF IInv, BarrierInv, Barrier, Arrivals
  <2>4. Arrivals(Main) = IF Main \in blocked THEN round + 1 ELSE round
    BY <1>1, <2>1 DEF IInv, BarrierInv, Barrier
  <2>5. CASE Main \in blocked
    <3>1. mpc \in {"wait", "serial"}
      BY <1>1, <2>5 DEF IInv, BarrierInv, Barrier, Sleeps
    <3>2. mpc # "wait"
      <4> SUFFICES ASSUME mpc = "wait" PROVE FALSE
        OBVIOUS
      <4>1. 2 * pass + 1 = 2 * iter[t] + 2
        BY <2>2, <2>3, <2>4, <2>5 DEF Arrivals
      <4> QED
        BY <2>2, <4>1, RoundArithmetic
    <3>3. 2 * pass + 2 = 2 * iter[t] + 2
      BY <2>2, <2>3, <2>4, <2>5, <3>1, <3>2 DEF Arrivals
    <3> QED
      BY <1>1, <2>2, <2>5, <3>1, <3>2, <3>3, RoundArithmetic DEF Steady, Awake
  <2>6. CASE Main \notin blocked
    <3>1. Arrivals(Main) = 2 * iter[t] + 1
      BY <2>3, <2>4, <2>6
    <3>2. mpc = "wait"
      <4>1. mpc \in {"serial", "compare"} => Arrivals(Main) = 2 * pass + 2
        BY DEF Arrivals
      <4>2. mpc \notin {"wait", "serial", "compare"} => Arrivals(Main) = 2 * pass
        BY <2>2 DEF Arrivals
      <4> QED
        BY <2>2, <3>1, <4>1, <4>2, RoundArithmetic
    <3>3. pass = iter[t]
      BY <2>2, <3>1, <3>2, RoundArithmetic DEF Arrivals
    <3> QED
      BY <1>1, <3>2, <3>3 DEF Steady
  <2> QED
    BY <2>5, <2>6
<1>5. CASE loop # "check"
  <2>1. program # "csx" /\ mpc \notin {"fill", "filled", "loop", "wait", "serial", "compare", "close"}
    BY <1>1, <1>3, <1>5 DEF IInv, TypeInv, ModeInv, ThreadInv
  <2> QED
    BY <1>1, <1>5, <2>1 DEF Running, Steady
<1> QED
  BY <1>4, <1>5

\* When the calling thread compares every worker has stored its part of the
\* product, and none is in the next pass.
LEMMA ComparePass ==
  ASSUME IInv, mpc = "compare", NEW t \in Threads
  PROVE  /\ HasProduct(t)
         /\ loop = "check" => \/ iter[t] = pass /\ pc[t] = "next"
                              \/ iter[t] = pass + 1 /\ pc[t] \notin {"wait", "next"}
<1>1. CASE loop = "check"
  <2>1. t \in Members /\ Main \in Members /\ t # Main
    BY <1>1, MainAssumption DEF Members
  <2>2. iter[t] \in Nat /\ pass \in Nat /\ round \in Nat
    BY DEF IInv, TypeInv
  <2>3. Barrier /\ Main \notin blocked
    BY <1>1 DEF IInv, BarrierInv, Barrier, Running, Sleeps
  <2>4. round = 2 * pass + 2
    BY <2>1, <2>3 DEF Barrier, Arrivals
  <2>5. t \in created
    BY <2>1, <2>2, <2>3, <2>4 DEF Barrier, Arrivals
  <2>6. pc[t] \in {"loop", "call", "kernel", "wait", "next", "exit"}
    BY DEF IInv, TypeInv
  <2>7. CASE t \in blocked
    <3>1. pc[t] \in {"call", "next"} /\ Arrivals(t) = 2 * pass + 3
      BY <2>1, <2>2, <2>3, <2>4, <2>7 DEF Barrier, Sleeps
    <3>2. pc[t] # "next"
      <4>1. pc[t] = "next" => 2 * iter[t] + 2 = 2 * pass + 3
        BY <2>1, <2>2, <2>5, <3>1 DEF Arrivals
      <4> QED
        BY <2>2, <4>1
    <3>3. iter[t] = pass + 1
      BY <2>1, <2>2, <2>5, <3>1, <3>2 DEF Arrivals
    <3> QED
      BY <1>1, <3>1, <3>2, <3>3 DEF HasProduct
  <2>8. CASE t \notin blocked
    <3>1. Arrivals(t) = 2 * pass + 2
      BY <2>1, <2>3, <2>4, <2>8 DEF Barrier
    <3>2. pc[t] \notin {"call", "kernel", "wait"}
      <4>1. pc[t] \in {"call", "kernel", "wait"} => 2 * iter[t] + 1 = 2 * pass + 2
        BY <2>1, <2>2, <2>5, <3>1 DEF Arrivals
      <4> QED
        BY <2>2, <4>1
    <3>3. pc[t] = "next" => iter[t] = pass
      <4>1. pc[t] = "next" => Arrivals(t) = 2 * iter[t] + 2
        BY <2>1, <2>5 DEF Arrivals
      <4> QED
        BY <2>2, <3>1, <4>1, RoundArithmetic
    <3>4. pc[t] \in {"loop", "exit"} => iter[t] = pass + 1
      <4>1. pc[t] \in {"loop", "exit"} => Arrivals(t) = 2 * iter[t]
        BY <1>1, <2>1, <2>2, <2>5 DEF Arrivals
      <4> QED
        BY <2>2, <3>1, <4>1, RoundArithmetic
    <3> QED
      BY <1>1, <2>6, <3>2, <3>3, <3>4 DEF HasProduct
  <2> QED
    BY <2>7, <2>8
<1>2. CASE loop # "check"
  <2>1. loop = "matvec" /\ joined = Threads /\ joined \subseteq created
    BY <1>2 DEF IInv, ModeInv, TypeInv
  <2>2. pc[t] = "exit"
    BY <2>1 DEF IInv, ThreadInv
  <2> QED
    BY <1>2, <2>1, <2>2 DEF HasProduct
<1> QED
  BY <1>1, <1>2

-----------------------------------------------------------------------------
\* The initial states satisfy the invariant: no loop runs.
LEMMA InitInv == Init => IInv
<1> SUFFICES ASSUME Init PROVE IInv
  OBVIOUS
<1> USE DEF Init, VectorsInit, BarrierInit
<1>1. TypeInv
  BY DEF TypeInv, Idle, Buffers, Frames, Iterates, Torn
<1>2. ModeInv /\ ThreadInv /\ BarrierInv /\ SourceInv /\ FrameInv /\ ProductInv /\ BuiltInv
  BY DEF ModeInv, ThreadInv, BarrierInv, SourceInv, FrameInv, ProductInv, BuiltInv, Running, Steady
<1> QED
  BY <1>1, <1>2 DEF IInv

\* Leaving the loop keeps the invariant; in a matvec no worker does so before its pass.
LEMMA LoopExitInv ==
  ASSUME IInv, NEW t \in Threads, t \in created, LoopExit(t), UNCHANGED mainVars
  PROVE  IInv'
<1> USE DEF IInv, LoopExit, mainVars
<1>1. Running /\ loop # "matvec"
  BY PassesAssumption, NLoopsAssumption DEF ThreadInv
<1>2. TypeInv' /\ ModeInv' /\ SourceInv' /\ BuiltInv'
  BY DEF TypeInv, ModeInv, SourceInv, BuiltInv, Running, Steady, Filled
<1>3. ThreadInv' /\ FrameInv'
  BY DEF TypeInv, ThreadInv, FrameInv, Running, Filled
<1>4. BarrierInv'
  BY <1>1, MainAssumption DEF TypeInv, BarrierInv, Barrier, Arrivals, Sleeps, Members, Running
<1>5. ProductInv'
  BY <1>1 DEF TypeInv, ProductInv, HasProduct, Running, Filled
<1> QED
  BY <1>2, <1>3, <1>4, <1>5

\* Entering a pass keeps the invariant.
LEMMA LoopEnterInv ==
  ASSUME IInv, NEW t \in Threads, t \in created, LoopEnter(t, Parties), UNCHANGED mainVars
  PROVE  IInv'
<1> USE DEF IInv, LoopEnter, mainVars
<1>1. Running
  BY DEF ThreadInv
<1>2. TypeInv'
  <2>1. round' \in Nat
    BY DEF BarrierWait, TypeInv
  <2> QED
    BY <2>1 DEF TypeInv
<1>3. ModeInv' /\ ThreadInv' /\ SourceInv' /\ FrameInv' /\ BuiltInv'
  BY DEF TypeInv, ModeInv, ThreadInv, SourceInv, FrameInv, BuiltInv, Running, Steady, Filled
<1>4. BarrierInv'
  <2>1. t \in Members /\ t # Main /\ Members' = Members
    BY MainAssumption DEF Members
  <2>2. Arrivals(t) = 2 * iter[t] /\ Arrivals(t)' = 2 * iter[t] + 1 /\ Sleeps(t)'
    BY <2>1 DEF TypeInv, Arrivals, Sleeps
  <2>3. \A n \in Members \ {t} : Arrivals(n)' = Arrivals(n) /\ (Sleeps(n) => Sleeps(n)')
    BY DEF TypeInv, Arrivals, Sleeps, Members
  <2>4. Barrier /\ round \in Nat /\ BarrierWait(t, Parties)
    BY <1>1 DEF BarrierInv, TypeInv
  <2> QED
    BY <2>1, <2>2, <2>3, <2>4, BarrierCall DEF BarrierInv
<1>5. ProductInv'
  BY DEF TypeInv, ProductInv, HasProduct, Running, Filled
<1> QED
  BY <1>2, <1>3, <1>4, <1>5

\* Calling the kernel keeps the invariant: its part of y is not one of this pass.
LEMMA CallKernelInv ==
  ASSUME IInv, NEW t \in Threads, t \in created, CallKernel(t), UNCHANGED mainVars
  PROVE  IInv'
<1> USE DEF IInv, CallKernel, mainVars
<1>1. Running /\ (loop = "check" => pass = iter[t])
  BY KernelPass
<1>2. TypeInv'
  BY DEF TypeInv, Buffers, Iterates, Frames
<1>3. ModeInv' /\ ThreadInv' /\ SourceInv' /\ BuiltInv'
  BY DEF TypeInv, Buffers, ModeInv, ThreadInv, SourceInv, BuiltInv, Running, Steady, Filled
<1>4. FrameInv'
  BY DEF TypeInv, FrameInv, Filled
<1>5. BarrierInv'
  BY MainAssumption DEF TypeInv, BarrierInv, Barrier, Arrivals, Sleeps, Members, Running, Awake
<1>6. ProductInv'
  <2>1. ~HasProduct(t)'
    BY <1>1 DEF TypeInv, HasProduct
  <2>2. \A u \in Threads \ {t} : (HasProduct(u)' => HasProduct(u)) /\ mem'[y'][u] = mem[y][u]
    BY DEF TypeInv, HasProduct
  <2> QED
    BY <2>1, <2>2 DEF ProductInv, Running, Filled
<1> QED
  BY <1>2, <1>3, <1>4, <1>5, <1>6

\* Gathering a part of x keeps the invariant: x is complete.
LEMMA ReadPartInv ==
  ASSUME IInv, NEW t \in Threads, t \in created, NEW p \in Threads, ReadPart(t, p), UNCHANGED mainVars
  PROVE  IInv'
<1> USE DEF IInv, ReadPart, mainVars
<1>1. /\ frame[t] \in Frames
      /\ frame'[t].x = frame[t].x /\ frame'[t].y = frame[t].y
      /\ frame'[t].seen = frame[t].seen \cup {mem[frame[t].x][p]}
      /\ \A u \in Threads \ {t} : frame'[u] = frame[u]
  BY DEF TypeInv, Frames
<1>2. TypeInv'
  <2>1. mem[frame[t].x][p] \in Iterates
    BY <1>1 DEF TypeInv, Frames
  <2>2. frame[t].todo \ {p} \in SUBSET Threads /\ frame[t].seen \cup {mem[frame[t].x][p]} \in SUBSET Iterates
    BY <1>1, <2>1 DEF Frames
  <2>3. frame' \in [Threads -> Frames]
    BY <1>1, <2>2 DEF TypeInv, Frames
  <2> QED
    BY <2>3 DEF TypeInv
<1>3. ModeInv' /\ ThreadInv' /\ BarrierInv' /\ SourceInv' /\ ProductInv' /\ BuiltInv'
  BY DEF ModeInv, ThreadInv, BarrierInv, Barrier, SourceInv, ProductInv, BuiltInv, Running, Steady,
         Filled, Arrivals, Sleeps, Members, HasProduct
<1>4. FrameInv'
  <2>1. mem[frame[t].x][p] = Filled
    BY KernelPass DEF FrameInv, SourceInv
  <2> QED
    BY <1>1, <2>1 DEF FrameInv, Filled
<1> QED
  BY <1>2, <1>3, <1>4

\* Storing a part of y keeps the invariant.
LEMMA KernelReturnInv ==
  ASSUME IInv, NEW t \in Threads, t \in created, KernelReturn(t), UNCHANGED mainVars
  PROVE  IInv'
<1> USE DEF IInv, KernelReturn, mainVars
<1>1. Running /\ (loop = "check" => pass = iter[t])
  BY KernelPass
<1>2. frame[t].y = y /\ frame[t].seen = {Filled}
  BY ThreadsAssumption DEF FrameInv
<1>3. Filled \in Nat
  BY DEF TypeInv, Filled
<1>4. Product(frame[t].seen) = Filled + 1
  <2>1. Filled # Torn
    BY <1>3 DEF Torn
  <2> QED
    BY <1>2, <2>1 DEF Product
<1>5. mem' = [mem EXCEPT ![y][t] = Filled + 1]
  BY <1>2, <1>4
<1>6. TypeInv'
  BY <1>3, <1>5 DEF TypeInv, Buffers, Iterates, Idle, Frames
<1>7. ModeInv' /\ ThreadInv' /\ SourceInv' /\ BuiltInv' /\ FrameInv'
  BY <1>5 DEF TypeInv, Buffers, ModeInv, ThreadInv, SourceInv, BuiltInv, FrameInv, Running, Steady, Filled
<1>8. BarrierInv'
  BY MainAssumption DEF TypeInv, BarrierInv, Barrier, Arrivals, Sleeps, Members, Running
<1>9. ProductInv'
  <2>1. mem'[y'][t] = Filled' + 1
    BY <1>5 DEF TypeInv, Buffers, Filled
  <2>2. \A u \in Threads \ {t} : (HasProduct(u)' => HasProduct(u)) /\ mem'[y'][u] = mem[y][u]
    BY <1>5 DEF TypeInv, HasProduct
  <2> QED
    BY <2>1, <2>2 DEF ProductInv, Running, Filled
<1> QED
  BY <1>6, <1>7, <1>8, <1>9

\* The second barrier of a pass keeps the invariant.
LEMMA SecondWaitInv ==
  ASSUME IInv, NEW t \in Threads, t \in created, SecondWait(t, Parties), UNCHANGED mainVars
  PROVE  IInv'
<1> USE DEF IInv, SecondWait, mainVars
<1>1. Running
  BY DEF ThreadInv
<1>2. TypeInv'
  <2>1. round' \in Nat
    BY DEF BarrierWait, TypeInv
  <2> QED
    BY <2>1 DEF TypeInv
<1>3. ModeInv' /\ ThreadInv' /\ SourceInv' /\ FrameInv' /\ BuiltInv'
  BY DEF TypeInv, ModeInv, ThreadInv, SourceInv, FrameInv, BuiltInv, Running, Steady, Filled
<1>4. BarrierInv'
  <2>1. t \in Members /\ t # Main /\ Members' = Members
    BY MainAssumption DEF Members
  <2>2. Arrivals(t) = 2 * iter[t] + 1 /\ Arrivals(t)' = 2 * iter[t] + 2 /\ Sleeps(t)' /\ iter[t] \in Nat
    BY <2>1 DEF TypeInv, Arrivals, Sleeps
  <2>3. \A n \in Members \ {t} : Arrivals(n)' = Arrivals(n) /\ (Sleeps(n) => Sleeps(n)')
    BY DEF TypeInv, Arrivals, Sleeps, Members
  <2>4. Barrier /\ round \in Nat /\ BarrierWait(t, Parties)
    BY <1>1 DEF BarrierInv, TypeInv
  <2>5. Arrivals(t) = round => Arrivals(t)' = round + 1
    BY <2>2, <2>4
  <2> QED
    BY <2>1, <2>2, <2>3, <2>4, <2>5, BarrierCall DEF BarrierInv
<1>5. ProductInv'
  BY DEF TypeInv, ProductInv, HasProduct, Running, Filled
<1> QED
  BY <1>2, <1>3, <1>4, <1>5

\* The end of a pass of a worker keeps the invariant.
LEMMA NextIterationInv ==
  ASSUME IInv, NEW t \in Threads, t \in created, loop # "matvec", NextIteration(t), UNCHANGED mainVars
  PROVE  IInv'
<1> USE DEF IInv, NextIteration, mainVars
<1>1. Running /\ iter[t] \in Nat
  BY DEF ThreadInv, TypeInv
<1>2. TypeInv'
  BY DEF TypeInv
<1>3. ModeInv' /\ ThreadInv' /\ SourceInv' /\ FrameInv' /\ BuiltInv'
  BY DEF TypeInv, ModeInv, ThreadInv, SourceInv, FrameInv, BuiltInv, Running, Steady, Filled
<1>4. BarrierInv'
  <2>1. t # Main /\ Arrivals(t)' = Arrivals(t)
    BY <1>1, MainAssumption DEF TypeInv, Arrivals
  <2>2. \A n \in Members \ {t} : Arrivals(n)' = Arrivals(n) /\ (Sleeps(n) => Sleeps(n)')
    BY DEF TypeInv, Arrivals, Sleeps, Members
  <2> QED
    BY <1>1, <2>1, <2>2 DEF BarrierInv, Barrier, Running, Members, Awake
<1>5. ProductInv'
  <2>1. HasProduct(t)' => HasProduct(t)
    <3>1. iter'[t] = iter[t] + 1 /\ pc[t] = "next" /\ pc'[t] = "loop"
      BY DEF TypeInv
    <3>2. pass \in Nat
      BY DEF TypeInv
    <3> QED
      BY <1>1, <3>1, <3>2 DEF HasProduct
  <2>2. \A u \in Threads \ {t} : HasProduct(u)' => HasProduct(u)
    BY DEF TypeInv, HasProduct
  <2> QED
    BY <2>1, <2>2 DEF ProductInv, Running, Filled
<1> QED
  BY <1>2, <1>3, <1>4, <1>5

\* The return of a worker of a matvec keeps the invariant.
LEMMA MatvecReturnInv ==
  ASSUME IInv, NEW t \in Threads, t \in created, loop = "matvec", MatvecReturn(t), UNCHANGED mainVars
  PROVE  IInv'
<1> USE DEF IInv, MatvecReturn, mainVars
<1>1. Running
  BY DEF ThreadInv
<1>2. TypeInv'
  BY DEF TypeInv
<1>3. ModeInv' /\ ThreadInv' /\ SourceInv' /\ FrameInv' /\ BuiltInv'
  BY DEF TypeInv, ModeInv, ThreadInv, SourceInv, FrameInv, BuiltInv, Running, Steady, Filled
<1>4. BarrierInv'
  <2>1. t # Main /\ Arrivals(t)' = Arrivals(t)
    BY MainAssumption DEF TypeInv, Arrivals
  <2>2. \A n \in Members \ {t} : Arrivals(n)' = Arrivals(n) /\ (Sleeps(n) => Sleeps(n)')
    BY DEF TypeInv, Arrivals, Sleeps, Members
  <2> QED
    BY <1>1, <2>1, <2>2 DEF BarrierInv, Barrier, Running, Members, Awake
<1>5. ProductInv'
  BY DEF TypeInv, ProductInv, HasProduct, Running, Filled
<1> QED
  BY <1>2, <1>3, <1>4, <1>5

-----------------------------------------------------------------------------
\* Loading, encoding and compiling, and the program's end, keep the invariant: no
\* loop runs meanwhile, and one begins only with compiled parts.
LEMMA PreparationInv ==
  ASSUME IInv,
         \/ (\E reinit \in BOOLEAN : NextTurn(reinit)) \/ EndProgram \/ JoinPreprocess
         \/ CompileKernels \/ PutSpmMt \/ (\E t \in Threads : StartPreprocess(t))
         \/ (\E t \in Threads : PreprocessThread(t) /\ mpc # "compare")
  PROVE  IInv'
<1> USE DEF IInv, NextTurn, EndProgram, JoinPreprocess, CompileKernels, PutSpmMt, StartPreprocess,
            PreprocessThread
<1>1. UNCHANGED workerVars /\ ~Running /\ ~Running' /\ mpc # "fill" /\ mpc' # "fill" /\ mpc' # "compare"
  BY DEF Running, BuiltInv
<1>2. TypeInv'
  BY <1>1 DEF TypeInv, workerVars
<1>3. ModeInv'
  BY <1>1 DEF TypeInv, ModeInv, Running
<1>4. ThreadInv' /\ BarrierInv' /\ SourceInv' /\ FrameInv' /\ ProductInv'
  BY <1>1 DEF workerVars, ThreadInv, BarrierInv, SourceInv, FrameInv, ProductInv, Running, Steady
<1>5. BuiltInv'
  BY <1>1 DEF TypeInv, ModeInv, BuiltInv, Running
<1> QED
  BY <1>2, <1>3, <1>4, <1>5

\* The beginning of a loop or call keeps the invariant: everything starts anew.
LEMMA OpenInv ==
  ASSUME IInv, Open
  PROVE  IInv'
<1> USE DEF IInv, Open
<1>1. ~Running /\ \A t \in Threads : pc[t] = "exit"
  BY DEF Running, ThreadInv
<1>2. TypeInv'
  BY DEF TypeInv, Iterates, Torn
<1>3. ModeInv' /\ ThreadInv' /\ SourceInv' /\ FrameInv' /\ BuiltInv'
  BY <1>1 DEF TypeInv, ModeInv, ThreadInv, SourceInv, FrameInv, BuiltInv, Running, Steady
<1>4. BarrierInv'
  BY MembersCounted, MainAssumption DEF TypeInv, BarrierInv, Barrier, Arrivals, Members
<1>5. ProductInv'
  BY <1>1 DEF TypeInv, ModeInv, ProductInv, HasProduct
<1> QED
  BY <1>2, <1>3, <1>4, <1>5

\* Filling x keeps the invariant: no worker reads it yet.
LEMMA FillPartInv ==
  ASSUME IInv, NEW p \in Threads, FillPart(p)
  PROVE  IInv'
<1> USE DEF IInv, FillPart
<1>1. Filled \in Nat /\ Filled' = Filled
  BY DEF TypeInv, Filled
<1>2. TypeInv'
  BY <1>1 DEF TypeInv, Buffers, Iterates
<1>3. ModeInv' /\ ThreadInv' /\ BuiltInv' /\ FrameInv'
  BY <1>1 DEF ModeInv, ThreadInv, BuiltInv, FrameInv, Running
<1>4. BarrierInv'
  BY DEF BarrierInv, Barrier, Arrivals, Sleeps, Members, Running
<1>5. SourceInv'
  BY <1>1 DEF TypeInv, Buffers, SourceInv, Steady
<1>6. ProductInv'
  BY <1>1 DEF TypeInv, Buffers, ProductInv, HasProduct, Running
<1> QED
  BY <1>2, <1>3, <1>4, <1>5, <1>6

\* Steps of the calling thread outside the barrier that leave the vectors alone.
LEMMA FilledOnceInv ==
  ASSUME IInv, FilledOnce
  PROVE  IInv'
<1> USE DEF IInv, FilledOnce
<1>1. UNCHANGED workerVars /\ Running /\ Running' /\ Filled' = Filled
  BY DEF Running, Filled
<1>2. TypeInv' /\ ModeInv' /\ ThreadInv' /\ BuiltInv' /\ FrameInv'
  BY <1>1 DEF workerVars, TypeInv, ModeInv, ThreadInv, BuiltInv, FrameInv
<1>3. BarrierInv'
  BY <1>1 DEF workerVars, BarrierInv, Barrier, Arrivals, Sleeps, Members
<1>4. SourceInv' /\ ProductInv'
  BY <1>1 DEF workerVars, TypeInv, ModeInv, SourceInv, ProductInv, HasProduct, Steady
<1> QED
  BY <1>2, <1>3, <1>4

LEMMA MainLoopInv ==
  ASSUME IInv, MainLoop
  PROVE  IInv'
<1> USE DEF IInv, MainLoop
<1>1. UNCHANGED workerVars /\ Running /\ Running' /\ Filled' = Filled /\ loop = "check"
  BY DEF Running, Filled, ModeInv
<1>2. TypeInv' /\ ModeInv' /\ ThreadInv' /\ BuiltInv' /\ FrameInv'
  BY <1>1 DEF workerVars, TypeInv, ModeInv, ThreadInv, BuiltInv, FrameInv
<1>3. BarrierInv'
  BY <1>1 DEF workerVars, BarrierInv, Barrier, Arrivals, Sleeps, Members
<1>4. SourceInv' /\ ProductInv'
  BY <1>1 DEF workerVars, SourceInv, ProductInv, HasProduct, Steady
<1> QED
  BY <1>2, <1>3, <1>4

\* Creating a worker keeps the invariant: it has not called the barrier yet.
LEMMA CreateInv ==
  ASSUME IInv, NEW t \in Threads, Create(t)
  PROVE  IInv'
<1> USE DEF IInv, Create
<1>1. Running /\ Running' /\ Filled' = Filled /\ iter[t] = 0 /\ pc[t] = "exit" /\ t \notin joined
  BY DEF Running, Filled, ThreadInv, TypeInv
<1>2. TypeInv'
  BY DEF TypeInv
<1>3. ModeInv' /\ ThreadInv' /\ BuiltInv' /\ FrameInv'
  BY <1>1 DEF TypeInv, ModeInv, ThreadInv, BuiltInv, FrameInv
<1>4. BarrierInv'
  <2>1. t # Main /\ Arrivals(t)' = Arrivals(t) /\ t \notin blocked
    BY <1>1, MainAssumption DEF TypeInv, Arrivals, BarrierInv, Barrier, Sleeps
  <2>2. \A n \in Members \ {t} : Arrivals(n)' = Arrivals(n) /\ (Sleeps(n) => Sleeps(n)')
    BY MainAssumption DEF TypeInv, Arrivals, Sleeps, Members, BarrierInv, Barrier
  <2> QED
    BY <1>1, <2>1, <2>2 DEF BarrierInv, Barrier, Members
<1>5. SourceInv' /\ ProductInv'
  BY <1>1 DEF TypeInv, ModeInv, SourceInv, ProductInv, HasProduct, Steady
<1> QED
  BY <1>2, <1>3, <1>4, <1>5

\* The calling thread's barrier calls keep the invariant: x is complete by then.
LEMMA MainFirstWaitInv ==
  ASSUME IInv, MainFirstWait
  PROVE  IInv'
<1> USE DEF IInv, MainFirstWait
<1>1. loop = "check" /\ Running /\ Running' /\ Filled' = Filled /\ mpc \in {"fill", "filled"}
  BY DEF MayStart, ModeInv, TypeInv, Running, Filled
<1>2. TypeInv'
  <2>1. round' \in Nat
    BY DEF BarrierWait, TypeInv
  <2> QED
    BY <2>1 DEF TypeInv
<1>3. ModeInv' /\ ThreadInv' /\ BuiltInv' /\ FrameInv'
  BY <1>1 DEF MayStart, TypeInv, ModeInv, ThreadInv, BuiltInv, FrameInv
<1>4. BarrierInv'
  <2>1. Main \in Members /\ Members' = Members
    BY <1>1 DEF Members
  <2>2. Arrivals(Main)' = Arrivals(Main) + 1 /\ Sleeps(Main)'
    BY <1>1 DEF TypeInv, Arrivals, Sleeps
  <2>3. \A n \in Members \ {Main} : Arrivals(n)' = Arrivals(n) /\ (Sleeps(n) => Sleeps(n)')
    BY DEF Arrivals, Sleeps, Members
  <2>4. Barrier /\ round \in Nat /\ BarrierWait(Main, Parties)
    BY <1>1 DEF BarrierInv, TypeInv
  <2>5. Arrivals(Main) = round => Arrivals(Main)' = round + 1
    BY <2>2
  <2> QED
    BY <2>1, <2>2, <2>3, <2>4, <2>5, BarrierCall DEF BarrierInv
<1>5. SourceInv' /\ ProductInv'
  BY <1>1 DEF MayStart, ModeInv, SourceInv, ProductInv, HasProduct, Steady
<1> QED
  BY <1>2, <1>3, <1>4, <1>5

LEMMA MainSecondWaitInv ==
  ASSUME IInv, MainSecondWait
  PROVE  IInv'
<1> USE DEF IInv, MainSecondWait
<1>1. loop = "check" /\ Running /\ Running' /\ Filled' = Filled
  BY DEF ModeInv, Running, Filled
<1>2. TypeInv'
  <2>1. round' \in Nat
    BY DEF BarrierWait, TypeInv
  <2> QED
    BY <2>1 DEF TypeInv
<1>3. ModeInv' /\ ThreadInv' /\ BuiltInv' /\ FrameInv'
  BY <1>1 DEF TypeInv, ModeInv, ThreadInv, BuiltInv, FrameInv
<1>4. BarrierInv'
  <2>1. Main \in Members /\ Members' = Members
    BY <1>1 DEF Members
  <2>2. Arrivals(Main)' = Arrivals(Main) + 1 /\ Sleeps(Main)'
    BY <1>1 DEF TypeInv, Arrivals, Sleeps
  <2>3. \A n \in Members \ {Main} : Arrivals(n)' = Arrivals(n) /\ (Sleeps(n) => Sleeps(n)')
    BY DEF Arrivals, Sleeps, Members
  <2>4. Barrier /\ round \in Nat /\ BarrierWait(Main, Parties)
    BY <1>1 DEF BarrierInv, TypeInv
  <2>5. Arrivals(Main) = round => Arrivals(Main)' = round + 1
    BY <2>2
  <2> QED
    BY <2>1, <2>2, <2>3, <2>4, <2>5, BarrierCall DEF BarrierInv
<1>5. SourceInv' /\ ProductInv'
  BY <1>1 DEF ModeInv, SourceInv, ProductInv, HasProduct, Steady
<1> QED
  BY <1>2, <1>3, <1>4, <1>5

\* The serial product is that of the complete x.
LEMMA SerialInv ==
  ASSUME IInv, Serial
  PROVE  IInv'
<1> USE DEF IInv, Serial
<1>1. UNCHANGED workerVars /\ Running /\ Running' /\ Filled' = Filled /\ loop = "check"
  BY DEF Running, Filled, ModeInv
<1>2. TypeInv' /\ ModeInv' /\ ThreadInv' /\ BuiltInv' /\ FrameInv'
  BY <1>1 DEF workerVars, TypeInv, ModeInv, ThreadInv, BuiltInv, FrameInv
<1>3. BarrierInv'
  BY <1>1 DEF workerVars, BarrierInv, Barrier, Arrivals, Sleeps, Members, Awake
<1>4. SourceInv'
  BY <1>1 DEF workerVars, SourceInv, Steady
<1>5. ProductInv'
  <2>1. Filled \in Nat /\ Filled # Torn
    BY DEF TypeInv, Filled, Torn
  <2>2. {mem[x][p] : p \in Threads} = {Filled}
    BY ThreadsAssumption DEF SourceInv, Steady
  <2>3. y2' = Filled + 1
    BY <2>1, <2>2 DEF Product
  <2> QED
    BY <1>1, <2>3 DEF workerVars, ProductInv, HasProduct
<1> QED
  BY <1>2, <1>3, <1>4, <1>5

\* The comparison finds no difference, and the next pass begins with no product.
LEMMA CompareInv ==
  ASSUME IInv, Compare
  PROVE  IInv'
<1> USE DEF IInv, Compare
<1>1. UNCHANGED workerVars /\ Running /\ loop \in {"check", "matvec"}
  BY DEF Running, ModeInv
<1>2. \A p \in Threads : mem[y][p] = y2
  BY <1>1, ComparePass DEF ProductInv
<1>3. CASE loop = "check"
  <2>1. mpc' = "loop" /\ pass' = pass + 1 /\ turn' = turn /\ pass \in Nat /\ Running'
    BY <1>2, <1>3 DEF TypeInv, Running
  <2>2. TypeInv' /\ ModeInv' /\ ThreadInv' /\ BuiltInv'
    BY <1>1, <1>3, <2>1 DEF workerVars, TypeInv, ModeInv, ThreadInv, BuiltInv
  <2>3. FrameInv'
    BY <1>1, KernelPass DEF workerVars, FrameInv
  <2>4. BarrierInv'
    BY <1>1, <1>3, <2>1, MainAssumption DEF workerVars, BarrierInv, Barrier, Arrivals, Sleeps, Members
  <2>5. SourceInv'
    <3>1. Steady' => Steady /\ Filled' = Filled
      BY <2>1 DEF Steady, Filled, TypeInv, ModeInv
    <3> QED
      BY <1>1, <2>1, <3>1 DEF workerVars, SourceInv
  <2>6. ProductInv'
    <3>1. ASSUME NEW t \in Threads PROVE ~HasProduct(t)'
      <4>1. iter[t] \in Nat
        BY DEF TypeInv
      <4>2. \/ iter[t] = pass /\ pc[t] = "next"
            \/ iter[t] = pass + 1 /\ pc[t] \notin {"wait", "next"}
        BY <1>3, ComparePass
      <4> QED
        BY <1>1, <1>3, <2>1, <4>1, <4>2 DEF workerVars, HasProduct
    <3> QED
      BY <1>3, <2>1, <3>1 DEF ProductInv
  <2> QED
    BY <2>2, <2>3, <2>4, <2>5, <2>6
<1>4. CASE loop = "matvec"
  <2>1. mpc' = "turn" /\ turn' = turn + 1 /\ pass' = pass /\ ~Running' /\ joined = Threads
    BY <1>2, <1>4 DEF Running, ModeInv
  <2>2. \A t \in Threads : pc[t] = "exit"
    BY <2>1 DEF ThreadInv
  <2>3. TypeInv' /\ ModeInv' /\ ThreadInv' /\ BuiltInv' /\ FrameInv'
    BY <1>1, <2>1, <2>2 DEF workerVars, TypeInv, ModeInv, ThreadInv, BuiltInv, FrameInv, Running
  <2>4. BarrierInv' /\ SourceInv' /\ ProductInv'
    BY <1>4, <2>1 DEF ModeInv, BarrierInv, SourceInv, ProductInv, Steady
  <2> QED
    BY <2>3, <2>4
<1> QED
  BY <1>1, <1>3, <1>4

\* Joining a worker keeps the invariant.
LEMMA JoinInv ==
  ASSUME IInv, NEW t \in Threads, Join(t)
  PROVE  IInv'
<1> USE DEF IInv, Join
<1>1. UNCHANGED workerVars /\ Running /\ Running' /\ Filled' = Filled
  BY DEF Running, Filled
<1>2. t \in created
  BY <1>1 DEF TypeInv, ModeInv
<1>3. TypeInv' /\ ModeInv' /\ ThreadInv' /\ BuiltInv' /\ FrameInv'
  BY <1>1, <1>2 DEF workerVars, TypeInv, ModeInv, ThreadInv, BuiltInv, FrameInv
<1>4. BarrierInv'
  BY <1>1, MainAssumption DEF workerVars, ModeInv, BarrierInv, Barrier, Arrivals, Sleeps, Members
<1>5. SourceInv' /\ ProductInv'
  BY <1>1 DEF workerVars, TypeInv, ModeInv, SourceInv, ProductInv, HasProduct, Steady
<1> QED
  BY <1>3, <1>4, <1>5

\* The end of a loop keeps the invariant: all workers have returned.
LEMMA CloseInv ==
  ASSUME IInv, Close
  PROVE  IInv'
<1> USE DEF IInv, Close
<1>1. UNCHANGED workerVars /\ Running /\ ~Running' /\ mpc' \in {"open", "put"}
  BY DEF Running
<1>2. \A t \in Threads : pc[t] = "exit"
  BY DEF ModeInv, ThreadInv
<1>3. TypeInv' /\ ModeInv' /\ ThreadInv' /\ BuiltInv' /\ FrameInv'
  BY <1>1, <1>2 DEF workerVars, TypeInv, ModeInv, ThreadInv, BuiltInv, FrameInv
<1>4. BarrierInv' /\ SourceInv' /\ ProductInv'
  BY <1>1 DEF ModeInv, BarrierInv, SourceInv, ProductInv, Steady
<1> QED
  BY <1>3, <1>4

\* Every step of the programs preserves the inductive invariant.
LEMMA StepInv == IInv /\ [Next]_vars => IInv'
<1> SUFFICES ASSUME IInv, [Next]_vars PROVE IInv'
  OBVIOUS
<1>1. CASE MainThread
  BY <1>1, PreparationInv, OpenInv, FillPartInv, FilledOnceInv, MainLoopInv, CreateInv,
     MainFirstWaitInv, MainSecondWaitInv, SerialInv, CompareInv, JoinInv, CloseInv DEF MainThread
<1>2. ASSUME NEW t \in Threads, Worker(t) PROVE IInv'
  BY <1>2, LoopExitInv, LoopEnterInv, CallKernelInv, ReadPartInv, KernelReturnInv, SecondWaitInv,
     NextIterationInv, MatvecReturnInv DEF Worker, Iteration
<1>3. ASSUME NEW t \in Threads, PreprocessThread(t) PROVE IInv'
  <2>1. mpc # "compare"
    BY <1>3 DEF PreprocessThread, IInv, BuiltInv
  <2> QED
    BY <1>3, <2>1, PreparationInv
<1>4. CASE UNCHANGED vars
  BY <1>4 DEF vars, workerVars, mainVars, IInv, TypeInv, ModeInv, ThreadInv, BarrierInv, Barrier,
     Arrivals, Sleeps, Members, SourceInv, FrameInv, ProductInv, HasProduct, BuiltInv, Running,
     Steady, Filled
<1> QED
  BY <1>1, <1>2, <1>3, <1>4 DEF Next, Finished

-----------------------------------------------------------------------------
\* The inductive invariant holds in every reachable state of the three programs.
THEOREM InductiveInvariant == Spec => []IInv
  BY InitInv, StepInv, PTL DEF Spec

\* The calling thread never finds a difference, whatever the number of threads,
\* passes, files and calls.
THEOREM CheckNeverFails == Spec => []ParallelEqualsSerial
<1>1. IInv => ParallelEqualsSerial
  BY DEF IInv, TypeInv, ParallelEqualsSerial
<1> QED
  BY <1>1, InductiveInvariant, PTL

\* The calling thread has no data race with a worker: one barrier before the
\* product and one after it are enough for any number of threads.
THEOREM NoRaceWithMain == Spec => []MainRaceFree
<1>1. IInv => MainRaceFree
  BY KernelPass DEF MainRaceFree
<1> QED
  BY <1>1, InductiveInvariant, PTL

\* Every kernel that runs belongs to a part that has been encoded and compiled and
\* not been freed.
THEOREM KernelsExist == Spec => []KernelsAreBuilt
<1>1. IInv => KernelsAreBuilt
  BY DEF IInv, ThreadInv, BuiltInv, KernelsAreBuilt
<1> QED
  BY <1>1, InductiveInvariant, PTL
=============================================================================
