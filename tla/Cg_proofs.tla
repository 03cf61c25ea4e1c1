------------------------------ MODULE Cg_proofs ------------------------------
(***************************************************************************)
(* Proofs, for any number of threads, rows and iterations, that the        *)
(* barriers keep the threads of the conjugate gradient solver in step      *)
(* (threads at work are in the same phase of the same iteration, and what  *)
(* one writes in it no other touches), and that the vectors and scalars    *)
(* they compute together are then those of the sequential method.          *)
(***************************************************************************)
EXTENDS Cg, Operators_proofs

\* Barrier calls that a thread has made.
Arrivals(t) ==
  (IF sys.sym THEN 9 * iter[t] ELSE 8 * iter[t])
    + phase[t] - (IF stage[t] = "work" THEN 0 ELSE 1)

LastPhase == IF sys.sym THEN 8 ELSE 7

TypeInv ==
  /\ sys \in Systems /\ round \in Nat
  /\ stage \in [Threads -> {"loop", "barrier", "work", "exit"}]
  /\ phase \in [Threads -> Nat] /\ iter \in [Threads -> Nat]

\* Which phases a thread can be in or wait for.
PhaseInv ==
  \A t \in Threads :
    /\ stage[t] \in {"loop", "exit"} => phase[t] = 1
    /\ stage[t] = "work" => phase[t] \in 1..LastPhase
    /\ stage[t] = "barrier" => phase[t] \in 1..(LastPhase + 1)

\* Every thread has been through as many rounds as the barrier has, and one that
\* sleeps is a call ahead.
BarrierInv ==
  /\ blocked \subseteq Threads /\ blocked # Threads
  /\ \A t \in Threads : Arrivals(t) = IF t \in blocked THEN round + 1 ELSE round
  /\ \A t \in blocked : stage[t] \in {"loop", "work"}

IInv == TypeInv /\ PhaseInv /\ BarrierInv

-----------------------------------------------------------------------------
\* The phases are counted.
LEMMA PhasesCounted == Len(Phases) = LastPhase
BY DEF Phases, LastPhase

\* The barrier is initialised for the threads, main among them.
LEMMA ThreadsCounted ==
  ASSUME sys \in Systems
  PROVE  /\ N \in Nat \ {0} /\ Threads # {}
         /\ IsFiniteSet(Threads) /\ Cardinality(Threads) = Parties
<1>1. N \in Nat \ {0}
  <2>1. sys.starts \in Seq(Nat) /\ sys.starts # <<>>
    BY Zenon, SystemsAssumption
  <2>2. \A q \in Seq(Nat) : q # <<>> => Len(q) \in Nat \ {0}
    OBVIOUS
  <2> QED
    BY Zenon, <2>1, <2>2 DEF N
<1>2. IsFiniteSet(Threads) /\ Cardinality(Threads) = N
  BY <1>1, FS_Interval DEF Threads
<1>3. 0 \in Threads
  BY <1>1 DEF Threads
<1> QED
  BY <1>1, <1>2, <1>3 DEF Parties

\* What a call of pthread_barrier_wait does: the last thread's arrival opens the
\* next round, any other goes to sleep.
LEMMA BarrierStep ==
  ASSUME sys \in Systems, NEW t \in Threads, blocked \subseteq Threads,
         BarrierWait(t, Parties)
  PROVE  /\ t \notin blocked
         /\ \/ /\ blocked = Threads \ {t}
               /\ blocked' = {} /\ round' = round + 1
            \/ /\ blocked \cup {t} # Threads
               /\ blocked' = blocked \cup {t} /\ round' = round
<1>1. t \notin blocked
  BY DEF BarrierWait, Awake
<1>2. IsFiniteSet(blocked) /\ Cardinality(blocked) \in Nat
  BY ThreadsCounted, FS_Subset, FS_CardinalityType
<1>3. IsFiniteSet(blocked \cup {t}) /\ Cardinality(blocked \cup {t}) = Cardinality(blocked) + 1
  BY <1>1, <1>2, FS_AddElement
<1>4. CASE Cardinality(blocked) + 1 = Parties
  <2>1. blocked \cup {t} = Threads
    BY <1>3, <1>4, ThreadsCounted, FS_Subset
  <2>2. blocked = Threads \ {t}
    BY <1>1, <2>1
  <2> QED
    BY <1>1, <1>4, <2>2 DEF BarrierWait
<1>5. CASE Cardinality(blocked) + 1 # Parties
  <2>1. blocked \cup {t} # Threads
    BY <1>3, <1>5, ThreadsCounted
  <2> QED
    BY <1>1, <1>5, <2>1 DEF BarrierWait
<1> QED
  BY <1>4, <1>5

-----------------------------------------------------------------------------
\* The initial states satisfy the invariant: nobody has arrived.
LEMMA InitInv == Init => IInv
<1> SUFFICES ASSUME Init PROVE IInv
  OBVIOUS
<1>1. TypeInv /\ PhaseInv
  BY DEF Init, TypeInv, PhaseInv, BarrierInit
<1>2. BarrierInv
  <2>1. sys \in Systems /\ round = 0 /\ blocked = {}
    BY DEF Init, BarrierInit
  <2>2. \A t \in Threads : Arrivals(t) = 0
    BY DEF Init, Arrivals
  <2> QED
    BY <2>1, <2>2, ThreadsCounted DEF BarrierInv
<1> QED
  BY <1>1, <1>2 DEF IInv

\* A step of one thread's control state.
Control(t) ==
  /\ stage' = [stage EXCEPT ![t] = stage'[t]]
  /\ phase' = [phase EXCEPT ![t] = phase'[t]]
  /\ iter' = [iter EXCEPT ![t] = iter'[t]]
  /\ sys' = sys

\* It leaves the other threads where they are.
LEMMA OthersUntouched ==
  ASSUME TypeInv, NEW t \in Threads, Control(t)
  PROVE  /\ Threads' = Threads /\ LastPhase' = LastPhase
         /\ \A u \in Threads \ {t} :
              /\ stage'[u] = stage[u] /\ phase'[u] = phase[u] /\ iter'[u] = iter[u]
              /\ Arrivals(u)' = Arrivals(u)
<1>1. Threads' = Threads /\ LastPhase' = LastPhase
  BY DEF Control, Threads, N, LastPhase
<1>2. \A u \in Threads \ {t} : stage'[u] = stage[u] /\ phase'[u] = phase[u] /\ iter'[u] = iter[u]
  BY DEF Control, TypeInv
<1> QED
  BY <1>1, <1>2 DEF Control, Arrivals

\* A thread's step between barrier calls keeps the invariant.
LEMMA QuietStep ==
  ASSUME IInv, NEW t \in Threads, Control(t), t \notin blocked, UNCHANGED barrier,
         iter'[t] = iter[t], Arrivals(t)' = Arrivals(t),
         \/ stage'[t] \in {"loop", "exit"} /\ phase'[t] = 1
         \/ stage'[t] = "barrier" /\ phase'[t] \in 1..(LastPhase + 1)
  PROVE  IInv'
<1> USE DEF IInv
<1>1. LastPhase \in Nat
  BY DEF LastPhase
<1>2. TypeInv'
  <2>1. stage' \in [Threads -> {"loop", "barrier", "work", "exit"}]
    BY DEF Control, TypeInv
  <2>2. phase' \in [Threads -> Nat]
    <3>1. phase'[t] \in Nat
      BY <1>1
    <3> QED
      BY <3>1 DEF Control, TypeInv
  <2>3. iter' \in [Threads -> Nat]
    BY DEF Control, TypeInv
  <2> QED
    BY <2>1, <2>2, <2>3, OthersUntouched DEF Control, TypeInv, barrier
<1>3. PhaseInv'
  BY OthersUntouched DEF PhaseInv
<1>4. BarrierInv'
  BY OthersUntouched DEF BarrierInv, barrier
<1> QED
  BY <1>2, <1>3, <1>4

\* Every step of a thread keeps the invariant.
LEMMA ThreadInv ==
  ASSUME IInv, NEW t \in Threads, Thread(t)
  PROVE  IInv'
<1> USE DEF IInv
<1>1. /\ stage = [u \in Threads |-> stage[u]] /\ phase = [u \in Threads |-> phase[u]]
      /\ iter = [u \in Threads |-> iter[u]]
      /\ iter[t] \in Nat /\ phase[t] \in Nat /\ round \in Nat /\ LastPhase \in Nat
  BY DEF TypeInv, LastPhase
<1>2. CASE LoopTest(t)
  <2>1. /\ Control(t) /\ t \notin blocked /\ UNCHANGED barrier
        /\ stage[t] = "loop" /\ stage'[t] \in {"barrier", "exit"}
        /\ phase'[t] = phase[t] /\ iter'[t] = iter[t] /\ phase[t] = 1
    BY <1>1, <1>2 DEF LoopTest, Control, Running, Awake, PhaseInv
  <2>2. Arrivals(t)' = Arrivals(t)
    BY <2>1 DEF Arrivals, Control
  <2> QED
    BY <1>1, <2>1, <2>2, QuietStep
<1>3. CASE Barrier(t)
  <2>1. stage[t] = "barrier" /\ phase[t] \in 1..(LastPhase + 1) /\ BarrierWait(t, Parties)
    BY <1>3 DEF Barrier, PhaseInv
  <2>2. /\ Control(t)
        /\ \/ /\ phase[t] = LastPhase + 1
              /\ stage'[t] = "loop" /\ phase'[t] = 1 /\ iter'[t] = iter[t] + 1
           \/ /\ phase[t] \in 1..LastPhase
              /\ stage'[t] = "work" /\ phase'[t] = phase[t] /\ iter'[t] = iter[t]
    <3>1. CASE phase[t] > Len(Phases)
      BY <1>1, <1>3, <2>1, <3>1, PhasesCounted DEF Barrier, Pass, Control
    <3>2. CASE ~(phase[t] > Len(Phases))
      BY <1>1, <1>3, <2>1, <3>2, PhasesCounted DEF Barrier, Pass, Control
    <3> QED
      BY <3>1, <3>2
  <2>3. Arrivals(t)' = Arrivals(t) + 1
    BY <1>1, <2>1, <2>2 DEF Arrivals, Control, LastPhase
  <2>4. TypeInv'
    <3>1. stage' \in [Threads -> {"loop", "barrier", "work", "exit"}]
      BY <2>2 DEF Control, TypeInv
    <3>2. phase' \in [Threads -> Nat] /\ iter' \in [Threads -> Nat]
      <4>1. phase'[t] \in Nat /\ iter'[t] \in Nat
        BY <1>1, <2>2
      <4> QED
        BY <2>2, <4>1 DEF Control, TypeInv
    <3>3. round' \in Nat
      BY <1>1, <2>1 DEF BarrierWait
    <3> QED
      BY <2>2, <3>1, <3>2, <3>3, OthersUntouched DEF Control, TypeInv
  <2>5. PhaseInv'
    BY <1>1, <2>2, OthersUntouched DEF PhaseInv
  <2>6. BarrierInv'
    <3>1. /\ t \notin blocked
          /\ \/ /\ blocked = Threads \ {t}
                /\ blocked' = {} /\ round' = round + 1
             \/ /\ blocked \cup {t} # Threads
                /\ blocked' = blocked \cup {t} /\ round' = round
      BY <2>1, BarrierStep DEF TypeInv, BarrierInv
    <3>2. Arrivals(t)' = round + 1
      BY <2>3, <3>1 DEF BarrierInv
    <3>3. \A u \in Threads \ {t} : Arrivals(u)' = IF u \in blocked THEN round + 1 ELSE round
      BY <2>2, OthersUntouched DEF BarrierInv
    <3>4. \A u \in Threads : Arrivals(u)' = IF u \in blocked' THEN round' + 1 ELSE round'
      BY <3>1, <3>2, <3>3
    <3>5. \A u \in blocked' : stage'[u] \in {"loop", "work"}
      BY <2>2, <3>1, OthersUntouched DEF BarrierInv
    <3>6. Threads' = Threads /\ blocked' # Threads
      BY <2>2, <3>1, OthersUntouched, ThreadsCounted DEF TypeInv
    <3> QED
      BY <3>1, <3>4, <3>5, <3>6 DEF BarrierInv
  <2> QED
    BY <2>4, <2>5, <2>6
<1>4. CASE \E name \in {"mult", "reduce", "dots", "alpha", "update", "newdots", "beta",
                         "direct"} : Work(t, name)
  <2>1. /\ Control(t) /\ t \notin blocked /\ UNCHANGED barrier
        /\ stage[t] = "work" /\ stage'[t] = "barrier"
        /\ phase'[t] = phase[t] + 1 /\ iter'[t] = iter[t] /\ phase[t] \in 1..LastPhase
    BY <1>1, <1>4 DEF Work, Control, Running, Awake, PhaseInv
  <2>2. Arrivals(t)' = Arrivals(t)
    BY <1>1, <2>1 DEF Arrivals, Control
  <2> QED
    BY <1>1, <2>1, <2>2, QuietStep
<1> QED
  BY <1>2, <1>3, <1>4 DEF Thread, Mult, Reduce, Dots, Alpha, Update, NewDots, Beta, Direct

\* The invariant is inductive: what main does before and after the loop leaves the
\* threads' places alone.
LEMMA StepInv == IInv /\ [Next]_vars => IInv'
<1> SUFFICES ASSUME IInv, [Next]_vars PROVE IInv'
  OBVIOUS
<1>1. CASE \E t \in Threads : Thread(t)
  BY <1>1, ThreadInv
<1>2. CASE Main \/ UNCHANGED vars
  <2>1. UNCHANGED <<sys, stage, phase, iter, round, blocked>>
    BY <1>2 DEF Main, Prepare, CreateSide, MeasureDistance, vars, control, barrier
  <2> QED
    BY <2>1 DEF IInv, TypeInv, PhaseInv, BarrierInv, Arrivals, LastPhase, Threads, N
<1> QED
  BY <1>1, <1>2 DEF Next, Finished

\* In every reachable state of the solver the barrier's rounds tell which phase of
\* which iteration each thread has reached, asleep or not.
THEOREM InductiveInvariant == Spec => []IInv
BY InitInv, StepInv, PTL DEF Spec

-----------------------------------------------------------------------------
\* Threads at work are in one phase of one iteration.
InStep == \A t, u \in AtWork : iter[t] = iter[u] /\ phase[t] = phase[u]

\* A round determines the iteration and the phase.
LEMMA RoundArithmetic ==
  ASSUME NEW i \in Nat, NEW j \in Nat
  PROVE  /\ \A k, l \in 1..8 : 9 * i + k - 0 = 9 * j + l - 0 => i = j /\ k = l
         /\ \A k, l \in 1..7 : 8 * i + k - 0 = 8 * j + l - 0 => i = j /\ k = l
OBVIOUS

\* The invariant implies it.
LEMMA InStepFromInv == IInv => InStep
<1> SUFFICES ASSUME IInv, NEW t \in AtWork, NEW u \in AtWork
             PROVE  iter[t] = iter[u] /\ phase[t] = phase[u]
  BY DEF InStep
<1>1. /\ t \in Threads /\ u \in Threads /\ t \notin blocked /\ u \notin blocked
      /\ stage[t] = "work" /\ stage[u] = "work"
  BY DEF AtWork, Running, Awake
<1>2. Arrivals(t) = Arrivals(u)
  BY <1>1 DEF IInv, BarrierInv
<1>3. /\ phase[t] \in 1..LastPhase /\ phase[u] \in 1..LastPhase
      /\ iter[t] \in Nat /\ iter[u] \in Nat
  BY <1>1 DEF IInv, TypeInv, PhaseInv
<1>4. CASE sys.sym
  <2>1. 9 * iter[t] + phase[t] - 0 = 9 * iter[u] + phase[u] - 0
    BY <1>1, <1>2, <1>4 DEF Arrivals
  <2>2. phase[t] \in 1..8 /\ phase[u] \in 1..8
    BY <1>3, <1>4 DEF LastPhase
  <2> QED
    BY <1>3, <2>1, <2>2, RoundArithmetic
<1>5. CASE ~sys.sym
  <2>1. 8 * iter[t] + phase[t] - 0 = 8 * iter[u] + phase[u] - 0
    BY <1>1, <1>2, <1>5 DEF Arrivals
  <2>2. phase[t] \in 1..7 /\ phase[u] \in 1..7
    BY <1>3, <1>5 DEF LastPhase
  <2> QED
    BY <1>3, <2>1, <2>2, RoundArithmetic
<1> QED
  BY <1>4, <1>5

\* The solver's threads work in step: nobody is in the next phase while another
\* thread is still in this one (cg.cc, CgSideThread and CgMainThread).
THEOREM ThreadsInStep == Spec => []InStep
BY InductiveInvariant, InStepFromInv, PTL

-----------------------------------------------------------------------------
\* Rounding down does not change the order.
LEMMA DivMonotone ==
  ASSUME NEW a \in Nat, NEW c \in Nat, NEW n \in Nat \ {0}, a <= c
  PROVE  a \div n <= c \div n
OBVIOUS

\* Different threads have different rows in the vector operations.
LEMMA PartsDisjoint ==
  ASSUME sys \in Systems, NEW t \in Threads, NEW u \in Threads, t # u
  PROVE  Part(t) \cap Part(u) = {}
<1>1. N \in Nat \ {0} /\ NRows \in Nat /\ t \in Nat /\ u \in Nat
  BY ThreadsCounted, NRowsAssumption DEF Threads
<1>2. ASSUME NEW i \in Nat, NEW j \in Nat, i < j
      PROVE  Part(i) \cap Part(j) = {}
  <2>1. (i + 1) * NRows <= j * NRows /\ (i + 1) * NRows \in Nat /\ j * NRows \in Nat
    BY <1>1, <1>2
  <2>2. ((i + 1) * NRows) \div N <= (j * NRows) \div N
    BY <1>1, <2>1, DivMonotone
  <2>3. /\ ((i + 1) * NRows) \div N \in Int /\ (j * NRows) \div N \in Int
        /\ (i * NRows) \div N \in Int /\ ((j + 1) * NRows) \div N \in Int
    BY <1>1, <1>2
  <2> QED
    BY <2>2, <2>3 DEF Part
<1> QED
  BY <1>1, <1>2

\* Different threads have different parts of the matrix.
LEMMA OwnDisjoint ==
  ASSUME sys \in Systems, NEW t \in Threads, NEW u \in Threads, t # u
  PROVE  Own(t) \cap Own(u) = {}
<1> DEFINE s == sys.starts
<1>1. s \in Seq(Nat) /\ \A i, j \in DOMAIN s : i < j => s[i] < s[j]
  BY Zenon, SystemsAssumption
<1>2. N = Len(s) /\ N \in Nat \ {0} /\ t \in 0..(N - 1) /\ u \in 0..(N - 1)
  BY ThreadsCounted DEF N, Threads
<1>3. Own(t) \subseteq s[t + 1]..(IF t = N - 1 THEN NRows ELSE s[t + 2]) - 1
  BY DEF Own
<1>4. Own(u) \subseteq s[u + 1]..(IF u = N - 1 THEN NRows ELSE s[u + 2]) - 1
  BY DEF Own
<1> HIDE DEF s
<1>5. DOMAIN s = 1..N /\ \A i \in 1..N : s[i] \in Nat
  BY <1>1, <1>2
<1>6. \A i, j \in 1..N : i <= j => s[i] <= s[j]
  <2> SUFFICES ASSUME NEW i \in 1..N, NEW j \in 1..N, i <= j PROVE s[i] <= s[j]
    OBVIOUS
  <2>1. CASE i = j
    BY <1>5, <2>1
  <2>2. CASE i < j
    BY <1>1, <1>5, <2>2
  <2> QED
    BY <2>1, <2>2
<1>7. CASE t < u
  <2>1. t # N - 1 /\ t + 2 \in 1..N /\ u + 1 \in 1..N /\ t + 2 <= u + 1
    BY <1>2, <1>7
  <2>2. s[t + 2] <= s[u + 1] /\ s[t + 2] \in Nat /\ s[u + 1] \in Nat
    BY <1>5, <1>6, <2>1
  <2>3. Own(t) \subseteq s[t + 1]..(s[t + 2] - 1)
    BY <1>3, <2>1
  <2> QED
    BY <1>4, <2>2, <2>3
<1>8. CASE u < t
  <2>1. u # N - 1 /\ u + 2 \in 1..N /\ t + 1 \in 1..N /\ u + 2 <= t + 1
    BY <1>2, <1>8
  <2>2. s[u + 2] <= s[t + 1] /\ s[u + 2] \in Nat /\ s[t + 1] \in Nat
    BY <1>5, <1>6, <2>1
  <2>3. Own(u) \subseteq s[u + 1]..(s[u + 2] - 1)
    BY <1>4, <2>1
  <2> QED
    BY <1>3, <2>2, <2>3
<1> QED
  BY <1>2, <1>7, <1>8

\* What the reduction map is for: different threads reduce different rows.
ReductionsDisjoint ==
  \A t, u \in Threads : t # u =>
    \A e \in ToSet(map[t]), f \in ToSet(map[u]) : e[2] # f[2]

\* The map has each private element that is added to once, by MakeMapOnce, as a
\* thread's elements reach rows before its own only.
LEMMA MapIs ==
  ASSUME sys \in Systems
  PROVE  EachOnce(map, [t \in Threads |-> Above(t)], N)
<1> DEFINE reach == [t \in Threads |-> Above(t)]
           n == N
<1>1. n \in Nat \ {0} /\ Threads = 0..(n - 1)
  BY ThreadsCounted DEF Threads
<1>2. \A k \in 0..(n - 1) : reach[k] \in SUBSET (0..(NRows - 2))
  <2> SUFFICES ASSUME NEW k \in Threads, NEW j \in Above(k) PROVE j \in 0..(NRows - 2)
    BY <1>1
  <2>1. j \in 0..(NRows - 1) /\ j < sys.starts[k + 1]
    BY DEF Above, Rows
  <2>2. sys.starts \in Seq(Nat) /\ \A i \in DOMAIN sys.starts : sys.starts[i] < NRows
    BY Zenon, SystemsAssumption
  <2>3. k + 1 \in DOMAIN sys.starts
    BY <1>1, <2>2 DEF N
  <2>4. sys.starts[k + 1] \in Nat /\ sys.starts[k + 1] < NRows
    BY <2>2, <2>3
  <2> QED
    BY <2>1, <2>4, NRowsAssumption
<1>3. map = MakeMap(reach, n)
  BY DEF map
<1>4. EachOnce(map, reach, n)
  <2> HIDE DEF reach, n
  <2> QED
    BY <1>1, <1>2, <1>3, MakeMapOnce
<1> QED
  BY <1>4

\* So it separates the threads.
LEMMA MapSeparates ==
  ASSUME sys \in Systems
  PROVE  ReductionsDisjoint
<1>1. EachOnce(map, [t \in Threads |-> Above(t)], N) /\ Threads = 0..(N - 1)
  BY MapIs DEF Threads
<1>2. ASSUME NEW t \in Threads, NEW u \in Threads, t # u,
             NEW e \in ToSet(map[t]), NEW f \in ToSet(map[u]), e[2] = f[2]
      PROVE  FALSE
  <2>1. (\E i \in DOMAIN map[t] : map[t][i] = e) /\ \E j \in DOMAIN map[u] : map[u][j] = f
    BY DEF ToSet
  <2> QED
    BY <1>1, <1>2, <2>1 DEF EachOnce
<1> QED
  BY <1>2 DEF ReductionsDisjoint

\* In no phase does a thread write what another one touches.
LEMMA PhasesSeparate ==
  ASSUME sys \in Systems, ReductionsDisjoint, NEW t \in Threads, NEW u \in Threads, t # u,
         Phases[phase[t]] = Phases[phase[u]],
         Phases[phase[t]] \in {"mult", "reduce", "dots", "alpha", "update", "newdots", "beta",
                               "direct"}
  PROVE  Writes(t) \cap (Reads(u) \cup Writes(u)) = {}
<1> DEFINE name == Phases[phase[t]]
<1>1. name = Phases[phase[u]]
  OBVIOUS
<1> SUFFICES ASSUME NEW c \in Writes(t), c \in Reads(u) \cup Writes(u) PROVE FALSE
  OBVIOUS
<1>2. CASE name = "mult"
  <2>1. Writes(t) = On({"temp"}, Own(t)) \cup
                    {<<"sub", t, j>> : j \in IF sys.sym THEN Above(t) ELSE {}}
    BY <1>2 DEF Writes
  <2>2. Reads(u) \cup Writes(u) \subseteq
          On({"p"}, Rows) \cup On({"temp"}, Own(u)) \cup
          {<<"sub", u, j>> : j \in IF sys.sym THEN Above(u) ELSE {}}
    BY <1>1, <1>2 DEF Reads, Writes
  <2>3. (c[1] = "temp" /\ c[2] \in Own(t)) \/ (c[1] = "sub" /\ c[2] = t)
    BY <2>1 DEF On
  <2>4. c[1] = "p" \/ (c[1] = "temp" /\ c[2] \in Own(u)) \/ (c[1] = "sub" /\ c[2] = u)
    BY <2>2 DEF On
  <2> QED
    BY <2>3, <2>4, OwnDisjoint
<1>3. CASE name = "reduce"
  <2>1. Writes(t) = InMap(t) \cup On({"temp"}, {e[2] : e \in ToSet(map[t])})
    BY <1>3 DEF Writes
  <2>2. Reads(u) \cup Writes(u) = InMap(u) \cup On({"temp"}, {e[2] : e \in ToSet(map[u])})
    BY <1>1, <1>3 DEF Reads, Writes
  <2>3. \E e \in ToSet(map[t]) : (c[1] = "sub" /\ c[3] = e[2]) \/ (c[1] = "temp" /\ c[2] = e[2])
    BY <2>1 DEF InMap, On
  <2>4. \E f \in ToSet(map[u]) : (c[1] = "sub" /\ c[3] = f[2]) \/ (c[1] = "temp" /\ c[2] = f[2])
    BY <2>2 DEF InMap, On
  <2> QED
    BY <2>3, <2>4 DEF ReductionsDisjoint
<1>4. CASE name = "dots"
  <2>1. Writes(t) = On({"rr", "tp"}, {t})
    BY <1>4 DEF Writes
  <2>2. Reads(u) \cup Writes(u) = On({"r", "temp", "p"}, Part(u)) \cup On({"rr", "tp"}, {u})
    BY <1>1, <1>4 DEF Reads, Writes
  <2>3. c[1] \in {"rr", "tp"} /\ c[2] = t
    BY <2>1 DEF On
  <2>4. c[1] \in {"r", "temp", "p"} \/ c[2] = u
    BY <2>2 DEF On
  <2> QED
    BY <2>3, <2>4
<1>5. CASE name = "alpha"
  <2>1. t = 0
    BY <1>5 DEF Writes
  <2> QED
    BY <1>1, <1>5, <2>1 DEF Reads, Writes
<1>6. CASE name = "update"
  <2>1. Writes(t) = On({"r", "x"}, Part(t))
    BY <1>6 DEF Writes
  <2>2. Reads(u) \cup Writes(u) =
          {<<"ai">>} \cup On({"r", "temp", "x", "p"}, Part(u)) \cup On({"r", "x"}, Part(u))
    BY <1>1, <1>6 DEF Reads, Writes
  <2>3. c[1] \in {"r", "x"} /\ c[2] \in Part(t)
    BY <2>1 DEF On
  <2>4. c[1] = "ai" \/ c[2] \in Part(u)
    BY <2>2 DEF On
  <2> QED
    BY <2>3, <2>4, PartsDisjoint
<1>7. CASE name = "newdots"
  <2>1. Writes(t) = On({"rr_new"}, {t})
    BY <1>7 DEF Writes
  <2>2. Reads(u) \cup Writes(u) = On({"r"}, Part(u)) \cup On({"rr_new"}, {u})
    BY <1>1, <1>7 DEF Reads, Writes
  <2>3. c[1] = "rr_new" /\ c[2] = t
    BY <2>1 DEF On
  <2>4. c[1] = "r" \/ c[2] = u
    BY <2>2 DEF On
  <2> QED
    BY <2>3, <2>4
<1>8. CASE name = "beta"
  <2>1. t = 0
    BY <1>8 DEF Writes
  <2> QED
    BY <1>1, <1>8, <2>1 DEF Reads, Writes
<1>9. CASE name = "direct"
  <2>1. Writes(t) = On({"p"}, Part(t))
    BY <1>9 DEF Writes
  <2>2. Reads(u) \cup Writes(u) = {<<"bi">>} \cup On({"r", "p"}, Part(u)) \cup On({"p"}, Part(u))
    BY <1>1, <1>9 DEF Reads, Writes
  <2>3. c[1] = "p" /\ c[2] \in Part(t)
    BY <2>1 DEF On
  <2>4. c[1] = "bi" \/ c[2] \in Part(u)
    BY <2>2 DEF On
  <2> QED
    BY <2>3, <2>4, PartsDisjoint
<1> QED
  BY <1>2, <1>3, <1>4, <1>5, <1>6, <1>7, <1>8, <1>9

\* Threads in step touch different data.
LEMMA RaceFreeFromInv == IInv /\ ReductionsDisjoint => RaceFree
<1> SUFFICES ASSUME IInv, ReductionsDisjoint, NEW t \in AtWork, NEW u \in AtWork, t # u
             PROVE  Writes(t) \cap (Reads(u) \cup Writes(u)) = {}
  BY DEF RaceFree
<1>1. t \in Threads /\ u \in Threads /\ stage[t] = "work" /\ sys \in Systems
  BY DEF AtWork, IInv, TypeInv
<1>2. phase[t] = phase[u]
  BY InStepFromInv DEF InStep
<1>3. Phases[phase[t]] \in {"mult", "reduce", "dots", "alpha", "update", "newdots", "beta",
                            "direct"}
  <2>1. phase[t] \in 1..LastPhase
    BY <1>1 DEF IInv, PhaseInv
  <2>2. CASE sys.sym
    BY <2>1, <2>2 DEF LastPhase, Phases
  <2>3. CASE ~sys.sym
    BY <2>1, <2>3 DEF LastPhase, Phases
  <2> QED
    BY <2>2, <2>3
<1> QED
  BY <1>1, <1>2, <1>3, PhasesSeparate

\* The solver has no data race, whatever the matrix, its parts and the number of
\* threads and rows.
THEOREM NoDataRace == Spec => []RaceFree
<1>1. IInv => RaceFree
  BY RaceFreeFromInv, MapSeparates DEF IInv, TypeInv
<1> QED
  BY <1>1, InductiveInvariant, PTL

-----------------------------------------------------------------------------
(***************************************************************************)
(* Numbers and sums.                                                       *)
(***************************************************************************)
\* A number less than twice the divisor.
LEMMA ModIs ==
  ASSUME NEW c \in Nat, c < 2 * Prime
  PROVE  c % Prime = IF c < Prime THEN c ELSE c - Prime
<1>1. Prime \in Nat /\ Prime > 2
  BY PrimeAssumption
<1> QED
  BY <1>1

\* Values add up in any order and grouping, from 0; NaN stays.
LEMMA AddIs ==
  ASSUME NEW u \in Values, NEW v \in Values, NEW w \in Values
  PROVE  /\ Add(u, v) \in Values /\ Add(u, v) = Add(v, u)
         /\ Add(u, Add(v, w)) = Add(Add(u, v), w)
         /\ Add(0, u) = u /\ Add(u, 0) = u
         /\ Add(NaN, u) = NaN /\ Add(u, NaN) = NaN
         /\ u # NaN /\ v # NaN => Add(u, v) # NaN
<1>1. Prime \in Nat /\ Prime > 2
  BY PrimeAssumption
<1>2. \A a, c \in Numbers : Add(a, c) = IF a + c < Prime THEN a + c ELSE a + c - Prime
  <2> SUFFICES ASSUME NEW a \in Numbers, NEW c \in Numbers
               PROVE  Add(a, c) = IF a + c < Prime THEN a + c ELSE a + c - Prime
    OBVIOUS
  <2>1. a \in Nat /\ c \in Nat /\ a < Prime /\ c < Prime
    BY <1>1 DEF Numbers
  <2>2. a + c \in Nat /\ a + c < 2 * Prime
    BY <1>1, <2>1
  <2>3. NaN \notin {a, c}
    BY <2>1 DEF NaN
  <2>4. Add(a, c) = (a + c) % Prime
    BY Zenon, <2>3 DEF Add
  <2>5. (a + c) % Prime = IF a + c < Prime THEN a + c ELSE a + c - Prime
    BY <1>1, <2>1
  <2> QED
    BY Zenon, <2>4, <2>5
<1>3. \A a \in Values : Add(NaN, a) = NaN /\ Add(a, NaN) = NaN
  BY DEF Add
<1>4. \A a \in Values : a \in Numbers \/ a = NaN
  BY DEF Values
<1>5. \A a, c \in Numbers : Add(a, c) \in Numbers /\ Add(a, c) # NaN
  BY <1>1, <1>2 DEF Numbers, NaN
<1>6. 0 \in Numbers
  BY <1>1 DEF Numbers
<1>7. \A a, c, d \in Numbers : Add(a, Add(c, d)) = Add(Add(a, c), d)
  <2> SUFFICES ASSUME NEW a \in Numbers, NEW c \in Numbers, NEW d \in Numbers
               PROVE  Add(a, Add(c, d)) = Add(Add(a, c), d)
    OBVIOUS
  <2>1. a \in Nat /\ c \in Nat /\ d \in Nat /\ a < Prime /\ c < Prime /\ d < Prime
    BY <1>1 DEF Numbers
  <2>2. /\ Add(c, d) = IF c + d < Prime THEN c + d ELSE c + d - Prime
        /\ Add(a, c) = IF a + c < Prime THEN a + c ELSE a + c - Prime
        /\ Add(c, d) \in Numbers /\ Add(a, c) \in Numbers
    BY <1>2, <1>5
  <2>3. /\ Add(a, Add(c, d)) =
             IF a + Add(c, d) < Prime THEN a + Add(c, d) ELSE a + Add(c, d) - Prime
        /\ Add(Add(a, c), d) =
             IF Add(a, c) + d < Prime THEN Add(a, c) + d ELSE Add(a, c) + d - Prime
    BY Zenon, <1>2, <2>2
  <2> QED
    BY <1>1, <2>1, <2>2, <2>3
<1>8. \A a, c \in Numbers : Add(a, c) = Add(c, a)
  BY <1>1, <1>2 DEF Numbers
<1>9. \A a \in Numbers : Add(0, a) = a /\ Add(a, 0) = a
  BY <1>1, <1>2, <1>6 DEF Numbers
<1>10. NaN \in Values /\ Numbers \subseteq Values
  BY DEF Values
<1>11. Add(u, v) \in Values /\ Add(u, v) = Add(v, u)
  <2>1. CASE u = NaN
    BY Zenon, <1>3, <1>10, <2>1
  <2>2. CASE v = NaN
    BY Zenon, <1>3, <1>10, <2>2
  <2>3. CASE u \in Numbers /\ v \in Numbers
    BY <1>5, <1>8, <1>10, <2>3
  <2> QED
    BY Zenon, <1>4, <2>1, <2>2, <2>3
<1>12. Add(u, Add(v, w)) = Add(Add(u, v), w)
  <2>1. CASE u = NaN \/ v = NaN \/ w = NaN
    <3>1. Add(v, w) \in Values /\ Add(u, v) \in Values
      BY <1>3, <1>4, <1>5, <1>10
    <3> QED
      BY Zenon, <1>3, <2>1, <3>1
  <2>2. CASE u \in Numbers /\ v \in Numbers /\ w \in Numbers
    BY Zenon, <1>7, <2>2
  <2> QED
    BY Zenon, <1>4, <2>1, <2>2
<1>13. Add(0, u) = u /\ Add(u, 0) = u
  BY Zenon, <1>3, <1>4, <1>6, <1>9, <1>10
<1>14. u # NaN /\ v # NaN => Add(u, v) # NaN
  BY Zenon, <1>4, <1>5
<1>15. Add(NaN, u) = NaN /\ Add(u, NaN) = NaN
  BY Zenon, <1>3
<1> QED
  BY Zenon, <1>11, <1>12, <1>13, <1>14, <1>15

\* Sums of two can be paired otherwise.
LEMMA AddPairs ==
  ASSUME NEW u \in Values, NEW v \in Values, NEW c \in Values, NEW d \in Values
  PROVE  Add(Add(u, v), Add(c, d)) = Add(Add(u, c), Add(v, d))
<1>1. /\ Add(u, v) \in Values /\ Add(c, d) \in Values /\ Add(v, d) \in Values
      /\ Add(v, c) = Add(c, v)
  BY AddIs
<1>2. Add(Add(u, v), Add(c, d)) = Add(u, Add(v, Add(c, d)))
  BY <1>1, AddIs
<1>3. Add(v, Add(c, d)) = Add(Add(v, c), d) /\ Add(Add(c, v), d) = Add(c, Add(v, d))
  BY <1>1, AddIs
<1>4. Add(u, Add(c, Add(v, d))) = Add(Add(u, c), Add(v, d))
  BY <1>1, AddIs
<1> QED
  BY Zenon, <1>1, <1>2, <1>3, <1>4

\* Products and quotients of values are values.
LEMMA MulIs ==
  ASSUME NEW u \in Values, NEW v \in Values
  PROVE  /\ Mul(u, v) \in Values /\ Neg(u) \in Values /\ Div(u, v) \in Values
         /\ u = NaN \/ v = NaN => Mul(u, v) = NaN
         /\ u \in Numbers /\ v \in Numbers => Mul(u, v) \in Numbers
         /\ v \in Numbers => Mul(0, v) = 0
         /\ u \in Numbers => Neg(u) \in Numbers
<1>1. Prime \in Nat /\ Prime > 2
  BY PrimeAssumption
<1>2. \A c \in Int : c % Prime \in Numbers
  BY <1>1 DEF Numbers
<1>3. \A a, c \in Numbers : Mul(a, c) \in Numbers /\ Neg(a) \in Numbers
  <2> SUFFICES ASSUME NEW a \in Numbers, NEW c \in Numbers
               PROVE  Mul(a, c) \in Numbers /\ Neg(a) \in Numbers
    OBVIOUS
  <2>1. a \in Int /\ c \in Int /\ a # NaN /\ c # NaN
    BY DEF Numbers, NaN
  <2>2. a * c \in Int /\ Prime - a \in Int
    BY <1>1, <2>1
  <2> QED
    BY <1>2, <2>1, <2>2 DEF Mul, Neg
<1>4. \A a \in Values : a \in Numbers \/ a = NaN
  BY DEF Values
<1>5. \A a, c : a = NaN \/ c = NaN => Mul(a, c) = NaN /\ Div(a, c) = NaN
  BY DEF Mul, Div
<1>6. \A a, c \in Values : Mul(a, c) \in Values
  BY Zenon, <1>3, <1>4, <1>5 DEF Values
<1>7. Neg(NaN) = NaN
  BY DEF Neg
<1>8. Neg(u) \in Values
  BY Zenon, <1>3, <1>4, <1>7 DEF Values
<1>9. Div(u, v) \in Values
  <2>1. CASE u = NaN \/ v = NaN \/ v = 0
    BY <2>1 DEF Div, Values
  <2>2. CASE u \in Numbers /\ v \in Numbers /\ v # 0
    <3>1. v \in 1..(Prime - 1) /\ u # NaN /\ v # NaN
      BY <2>2 DEF Numbers, NaN
    <3>2. Reciprocal[v] \in 1..(Prime - 1)
      BY <3>1, PrimeAssumption DEF Reciprocal
    <3>3. Reciprocal[v] \in Values
      BY <3>2 DEF Values, Numbers
    <3>4. Div(u, v) = Mul(u, Reciprocal[v])
      BY <2>2, <3>1 DEF Div
    <3> QED
      BY <1>6, <3>3, <3>4
  <2> QED
    BY <1>4, <2>1, <2>2
<1>10. \A a \in Numbers : Mul(0, a) = 0
  <2> SUFFICES ASSUME NEW a \in Numbers PROVE Mul(0, a) = 0
    OBVIOUS
  <2>1. a \in Int /\ a # NaN /\ 0 # NaN /\ 0 * a = 0
    BY DEF Numbers, NaN
  <2>2. 0 % Prime = 0
    BY <1>1, ModIs
  <2> QED
    BY <2>1, <2>2 DEF Mul
<1> QED
  BY Zenon, <1>3, <1>5, <1>6, <1>8, <1>9, <1>10

\* What f has of the rows are values.
Good(f) == \A n \in Rows : n \in DOMAIN f => f[n] \in Values

\* The partial sums obey their equation.
LEMMA SumsIs ==
  ASSUME NEW f, Good(f)
  PROVE  /\ Sums(f) \in [0..NRows -> Values] /\ Sums(f)[0] = 0
         /\ \A n \in Rows : Sums(f)[n + 1] =
              IF n \in DOMAIN f THEN Add(Sums(f)[n], f[n]) ELSE Sums(f)[n]
<1> DEFINE rule == [c \in (1..NRows) \X Values |->
                      IF c[1] - 1 \in DOMAIN f THEN Add(c[2], f[c[1] - 1]) ELSE c[2]]
           sums == Sums(f)
<1>1. NRows \in Nat /\ \A j \in 1..NRows : j - 1 \in Rows
  BY NRowsAssumption DEF Rows
<1>2. \A i \in 1..NRows, s \in Values : rule[<<i, s>>] \in Values
  <2> SUFFICES ASSUME NEW i \in 1..NRows, NEW s \in Values PROVE rule[<<i, s>>] \in Values
    OBVIOUS
  <2>1. rule[<<i, s>>] = IF i - 1 \in DOMAIN f THEN Add(s, f[i - 1]) ELSE s
    OBVIOUS
  <2>2. i - 1 \in DOMAIN f => f[i - 1] \in Values
    BY <1>1 DEF Good
  <2>3. i - 1 \in DOMAIN f => Add(s, f[i - 1]) \in Values
    BY <2>2, AddIs
  <2> HIDE DEF rule
  <2> QED
    BY <2>1, <2>3
<1>3. 0 \in Values
  BY PrimeAssumption DEF Values, Numbers
<1>4. PICK g : Follows(g, NRows, Values, 0, rule)
  <2> HIDE DEF rule
  <2> QED
    BY <1>1, <1>2, <1>3, IntervalRecursion
<1>5. g = [n \in 0..NRows |-> IF n = 0 THEN 0
             ELSE IF n - 1 \in DOMAIN f THEN Add(g[n - 1], f[n - 1]) ELSE g[n - 1]]
  <2>1. \A n \in 1..NRows : g[n - 1] \in Values
    BY <1>1, <1>4 DEF Follows
  <2>2. \A n \in 1..NRows : rule[<<n, g[n - 1]>>] =
          IF n - 1 \in DOMAIN f THEN Add(g[n - 1], f[n - 1]) ELSE g[n - 1]
    BY <2>1
  <2>3. \A n \in 0..NRows : n # 0 => n \in 1..NRows
    BY <1>1
  <2> HIDE DEF rule
  <2> QED
    BY <1>4, <2>2, <2>3 DEF Follows
<1>6. sums = [n \in 0..NRows |-> IF n = 0 THEN 0
             ELSE IF n - 1 \in DOMAIN f THEN Add(sums[n - 1], f[n - 1]) ELSE sums[n - 1]]
  BY <1>5 DEF Sums
<1> HIDE DEF sums
<1>7. /\ sums[0] = 0
      /\ \A n \in Rows : sums[n + 1] = IF n \in DOMAIN f THEN Add(sums[n], f[n]) ELSE sums[n]
  <2>1. 0 \in 0..NRows /\ \A n \in Rows : n + 1 \in 0..NRows /\ n + 1 # 0 /\ (n + 1) - 1 = n
    BY <1>1 DEF Rows
  <2> QED
    BY <1>6, <2>1
<1>8. sums \in [0..NRows -> Values]
  <2> DEFINE S == {j \in 0..NRows : sums[j] \in Values}
  <2>1. 0 \in S
    BY <1>1, <1>3, <1>7
  <2>2. ASSUME NEW j \in 0..(NRows - 1), j \in S PROVE j + 1 \in S
    <3>1. j \in Rows /\ sums[j] \in Values /\ j + 1 \in 0..NRows
      BY <1>1, <2>2 DEF Rows
    <3>2. j \in DOMAIN f => Add(sums[j], f[j]) \in Values
      BY <3>1, AddIs DEF Good
    <3> QED
      BY <1>7, <3>1, <3>2
  <2> HIDE DEF S
  <2>3. 0..NRows \subseteq S
    <3>1. 0 \in Int /\ NRows \in Int
      BY <1>1
    <3> QED
      BY Zenon, <2>1, <2>2, <3>1, IntervalInduction
  <2>4. \A j \in 0..NRows : sums[j] \in Values
    BY <2>3 DEF S
  <2> QED
    BY <1>6, <2>4
<1> QED
  BY <1>7, <1>8 DEF sums

\* A function on all rows.
Spread(f) == [n \in Rows |-> IF n \in DOMAIN f THEN f[n] ELSE 0]

\* An equation of partial sums up to the last follows by induction.
LEMMA RowInduction ==
  ASSUME NEW S, 0 \in S, \A n \in Rows : n \in S => n + 1 \in S
  PROVE  \A n \in 0..NRows : n \in S
<1>1. 0 \in Int /\ NRows \in Int /\ NRows >= 0 /\ Rows = 0..(NRows - 1)
  BY NRowsAssumption DEF Rows
<1>2. 0..NRows \subseteq S
  BY <1>1, IntervalInduction
<1> QED
  BY <1>2

\* A sum is a value, that of functions on all rows adds up all their values.
LEMMA SumOf ==
  ASSUME NEW f \in [Rows -> Values]
  PROVE  /\ Sums(f) \in [0..NRows -> Values] /\ Sums(f)[0] = 0 /\ Sum(f) \in Values
         /\ \A n \in Rows : Sums(f)[n + 1] = Add(Sums(f)[n], f[n])
<1>1. Good(f) /\ DOMAIN f = Rows
  BY DEF Good
<1>2. NRows \in 0..NRows
  BY NRowsAssumption
<1> QED
  BY <1>1, <1>2, SumsIs DEF Sum

\* What f does not have counts 0.
LEMMA SumSpread ==
  ASSUME NEW f, Good(f)
  PROVE  Spread(f) \in [Rows -> Values] /\ Sum(f) = Sum(Spread(f)) /\ Sum(f) \in Values
<1> DEFINE g == Spread(f)
           S == {n \in 0..NRows : Sums(f)[n] = Sums(g)[n]}
<1>1. 0 \in Values
  BY PrimeAssumption DEF Values, Numbers
<1>2. g \in [Rows -> Values]
  BY <1>1 DEF Good, Spread
<1>3. \A n \in Rows : g[n] = IF n \in DOMAIN f THEN f[n] ELSE 0
  BY DEF Spread
<1>4. /\ Sums(f) \in [0..NRows -> Values] /\ Sums(f)[0] = 0
      /\ \A n \in Rows : Sums(f)[n + 1] =
           IF n \in DOMAIN f THEN Add(Sums(f)[n], f[n]) ELSE Sums(f)[n]
  BY SumsIs
<1> HIDE DEF g
<1>5. /\ Sums(g)[0] = 0 /\ \A n \in Rows : Sums(g)[n + 1] = Add(Sums(g)[n], g[n])
  BY <1>2, SumOf
<1>6. 0 \in S
  BY <1>4, <1>5, NRowsAssumption
<1>7. ASSUME NEW n \in Rows, n \in S PROVE n + 1 \in S
  <2>1. n + 1 \in 0..NRows /\ n \in 0..NRows /\ Sums(f)[n] = Sums(g)[n] /\ Sums(f)[n] \in Values
    BY <1>4, <1>7, NRowsAssumption DEF Rows
  <2>2. Add(Sums(f)[n], 0) = Sums(f)[n]
    BY <2>1, AddIs
  <2>3. Sums(f)[n + 1] = Sums(g)[n + 1]
    BY <1>3, <1>4, <1>5, <2>1, <2>2
  <2> QED
    BY <2>1, <2>3
<1> HIDE DEF S
<1>8. NRows \in S
  <2>1. NRows \in 0..NRows
    BY NRowsAssumption
  <2> QED
    BY <1>6, <1>7, <2>1, RowInduction
<1>9. Sums(f)[NRows] = Sums(g)[NRows]
  BY <1>8 DEF S
<1> QED
  BY <1>2, <1>9, SumOf DEF Sum, g

\* The sum of sums.
LEMMA SumPlus ==
  ASSUME NEW f \in [Rows -> Values], NEW g \in [Rows -> Values], NEW h \in [Rows -> Values],
         \A n \in Rows : h[n] = Add(f[n], g[n])
  PROVE  Sum(h) = Add(Sum(f), Sum(g))
<1> DEFINE S == {n \in 0..NRows : Sums(h)[n] = Add(Sums(f)[n], Sums(g)[n])}
<1>1. /\ Sums(f) \in [0..NRows -> Values] /\ Sums(f)[0] = 0
      /\ \A n \in Rows : Sums(f)[n + 1] = Add(Sums(f)[n], f[n])
      /\ Sums(g) \in [0..NRows -> Values] /\ Sums(g)[0] = 0
      /\ \A n \in Rows : Sums(g)[n + 1] = Add(Sums(g)[n], g[n])
      /\ Sums(h) \in [0..NRows -> Values] /\ Sums(h)[0] = 0
      /\ \A n \in Rows : Sums(h)[n + 1] = Add(Sums(h)[n], h[n])
  BY SumOf
<1>2. 0 \in S
  <2>1. 0 \in 0..NRows /\ 0 \in Values
    BY NRowsAssumption, PrimeAssumption DEF Values, Numbers
  <2>2. Add(0, 0) = 0
    BY <2>1, AddIs
  <2> QED
    BY <1>1, <2>1, <2>2
<1>3. ASSUME NEW n \in Rows, n \in S PROVE n + 1 \in S
  <2>1. n + 1 \in 0..NRows /\ n \in 0..NRows
    BY NRowsAssumption DEF Rows
  <2>2. PICK u \in Values : u = Sums(f)[n]
    BY <1>1, <2>1
  <2>3. PICK v \in Values : v = Sums(g)[n]
    BY <1>1, <2>1
  <2>4. f[n] \in Values /\ g[n] \in Values
    OBVIOUS
  <2>5. Sums(h)[n + 1] = Add(Add(u, v), Add(f[n], g[n]))
    BY <1>1, <1>3, <2>2, <2>3
  <2>6. /\ Sums(f)[n + 1] = Add(u, f[n]) /\ Sums(g)[n + 1] = Add(v, g[n])
    BY <1>1, <2>2, <2>3
  <2>7. Add(Add(u, v), Add(f[n], g[n])) = Add(Add(u, f[n]), Add(v, g[n]))
    BY <2>4, AddPairs
  <2>8. Sums(h)[n + 1] = Add(Sums(f)[n + 1], Sums(g)[n + 1])
    BY Zenon, <2>5, <2>6, <2>7
  <2> QED
    BY <2>1, <2>8
<1> HIDE DEF S
<1>4. NRows \in S
  <2>1. NRows \in 0..NRows
    BY NRowsAssumption
  <2> QED
    BY <1>2, <1>3, <2>1, RowInduction
<1> QED
  BY <1>4 DEF S, Sum

\* The sum of zeros.
LEMMA SumZeros ==
  ASSUME NEW f \in [Rows -> Values], \A n \in Rows : f[n] = 0
  PROVE  \A n \in 0..NRows : Sums(f)[n] = 0
<1> DEFINE S == {n \in 0..NRows : Sums(f)[n] = 0}
<1>1. Sums(f)[0] = 0 /\ \A n \in Rows : Sums(f)[n + 1] = Add(Sums(f)[n], f[n])
  BY SumOf
<1>2. 0 \in S
  BY <1>1, NRowsAssumption
<1>3. ASSUME NEW n \in Rows, n \in S PROVE n + 1 \in S
  <2>1. n + 1 \in 0..NRows /\ 0 \in Values
    BY NRowsAssumption, PrimeAssumption DEF Rows, Values, Numbers
  <2>2. Add(0, 0) = 0
    BY <2>1, AddIs
  <2> QED
    BY <1>1, <1>3, <2>1, <2>2
<1> HIDE DEF S
<1>4. \A n \in 0..NRows : n \in S
  BY <1>2, <1>3, RowInduction
<1> QED
  BY <1>4 DEF S

\* A single value that is not 0 is the sum.
LEMMA SumSingle ==
  ASSUME NEW f \in [Rows -> Values], NEW o \in Rows, \A n \in Rows \ {o} : f[n] = 0
  PROVE  Sum(f) = f[o]
<1> DEFINE S == {n \in 0..NRows : Sums(f)[n] = IF n <= o THEN 0 ELSE f[o]}
<1>1. /\ Sums(f) \in [0..NRows -> Values] /\ Sums(f)[0] = 0
      /\ \A n \in Rows : Sums(f)[n + 1] = Add(Sums(f)[n], f[n])
  BY SumOf
<1>2. o \in Nat /\ o < NRows /\ NRows \in Nat
  BY NRowsAssumption DEF Rows
<1>3. 0 \in S
  BY <1>1, <1>2
<1>4. ASSUME NEW n \in Rows, n \in S PROVE n + 1 \in S
  <2>1. n + 1 \in 0..NRows /\ n \in Nat /\ 0 \in Values /\ f[o] \in Values
    BY NRowsAssumption, PrimeAssumption DEF Rows, Values, Numbers
  <2>2. Add(0, 0) = 0 /\ Add(0, f[o]) = f[o] /\ Add(f[o], 0) = f[o]
    BY <2>1, AddIs
  <2>3. CASE n < o
    BY <1>1, <1>2, <1>4, <2>1, <2>2, <2>3
  <2>4. CASE n = o
    BY <1>1, <1>2, <1>4, <2>1, <2>2, <2>4
  <2>5. CASE n > o
    BY <1>1, <1>2, <1>4, <2>1, <2>2, <2>5
  <2> QED
    BY <1>2, <2>1, <2>3, <2>4, <2>5
<1> HIDE DEF S
<1>5. NRows \in S
  <2>1. NRows \in 0..NRows
    BY NRowsAssumption
  <2> QED
    BY <1>3, <1>4, <2>1, RowInduction
<1> QED
  BY <1>2, <1>5 DEF S, Sum

\* A sum with a NaN is NaN.
LEMMA SumNaN ==
  ASSUME NEW f, Good(f), NEW o \in Rows, o \in DOMAIN f, f[o] = NaN
  PROVE  Sum(f) = NaN
<1> DEFINE S == {n \in 0..NRows : n <= o \/ Sums(f)[n] = NaN}
<1>1. /\ Sums(f) \in [0..NRows -> Values]
      /\ \A n \in Rows : Sums(f)[n + 1] =
           IF n \in DOMAIN f THEN Add(Sums(f)[n], f[n]) ELSE Sums(f)[n]
  BY SumsIs
<1>2. o \in Nat /\ o < NRows /\ NRows \in Nat
  BY NRowsAssumption DEF Rows
<1>3. 0 \in S
  BY <1>2
<1>4. ASSUME NEW n \in Rows, n \in S PROVE n + 1 \in S
  <2>1. n + 1 \in 0..NRows /\ n \in 0..NRows /\ n \in Nat /\ Sums(f)[n] \in Values
    BY <1>1, NRowsAssumption DEF Rows
  <2>2. Add(Sums(f)[n], NaN) = NaN
    BY <2>1, AddIs
  <2>3. n \in DOMAIN f => Add(NaN, f[n]) = NaN
    BY AddIs DEF Good
  <2>4. CASE n < o
    BY <1>2, <2>1, <2>4
  <2>5. CASE n = o
    BY <1>1, <2>1, <2>2, <2>5
  <2>6. CASE n > o
    BY <1>1, <1>2, <1>4, <2>1, <2>3, <2>6
  <2> QED
    BY <1>2, <2>1, <2>4, <2>5, <2>6
<1> HIDE DEF S
<1>5. NRows \in S
  <2>1. NRows \in 0..NRows
    BY NRowsAssumption
  <2> QED
    BY <1>3, <1>4, <2>1, RowInduction
<1> QED
  BY <1>2, <1>5 DEF S, Sum

\* Sums of rows of numbers are numbers.
LEMMA SumNumbers ==
  ASSUME NEW f, \A n \in Rows : n \in DOMAIN f => f[n] \in Numbers
  PROVE  Sum(f) \in Numbers
<1> DEFINE S == {n \in 0..NRows : Sums(f)[n] \in Numbers}
<1>1. Good(f)
  BY DEF Good, Values
<1>2. /\ Sums(f)[0] = 0
      /\ \A n \in Rows : Sums(f)[n + 1] =
           IF n \in DOMAIN f THEN Add(Sums(f)[n], f[n]) ELSE Sums(f)[n]
  BY <1>1, SumsIs
<1>3. 0 \in S
  BY <1>2, NRowsAssumption, PrimeAssumption DEF Numbers
<1>4. ASSUME NEW n \in Rows, n \in S PROVE n + 1 \in S
  <2>1. n + 1 \in 0..NRows /\ Sums(f)[n] \in Numbers
    BY <1>4, NRowsAssumption DEF Rows
  <2>2. \A u \in Numbers : u \in Values /\ u # NaN
    BY DEF Values, Numbers, NaN
  <2>3. \A u, v \in Numbers : Add(u, v) \in Numbers
    <3> SUFFICES ASSUME NEW u \in Numbers, NEW v \in Numbers PROVE Add(u, v) \in Numbers
      OBVIOUS
    <3>1. Add(u, v) \in Values /\ Add(u, v) # NaN
      BY <2>2, AddIs
    <3> QED
      BY <3>1 DEF Values
  <2> QED
    BY <1>2, <2>1, <2>3
<1> HIDE DEF S
<1>5. NRows \in S
  <2>1. NRows \in 0..NRows
    BY NRowsAssumption
  <2> QED
    BY <1>3, <1>4, <2>1, RowInduction
<1> QED
  BY <1>5 DEF S, Sum

\* A table can be added up by rows or by columns.
LEMMA SumSwap ==
  ASSUME NEW F \in [Rows -> [Rows -> Values]]
  PROVE  Sum([t \in Rows |-> Sum(F[t])]) = Sum([i \in Rows |-> Sum([t \in Rows |-> F[t][i]])])
<1> DEFINE sums == [t \in Rows |-> Sum(F[t])]
           col(i) == [t \in Rows |-> F[t][i]]
           upto(n) == [i \in Rows |-> Sums(col(i))[n]]
           S == {n \in 0..NRows : Sums(sums)[n] = Sum(upto(n))}
<1>1. sums \in [Rows -> Values] /\ \A t \in Rows : sums[t] = Sum(F[t])
  BY SumOf
<1>2. \A i \in Rows : col(i) \in [Rows -> Values]
  OBVIOUS
<1>3. \A i \in Rows : /\ Sums(col(i)) \in [0..NRows -> Values] /\ Sums(col(i))[0] = 0
                      /\ \A t \in Rows : Sums(col(i))[t + 1] = Add(Sums(col(i))[t], F[t][i])
  <2> SUFFICES ASSUME NEW i \in Rows
               PROVE  /\ Sums(col(i)) \in [0..NRows -> Values] /\ Sums(col(i))[0] = 0
                      /\ \A t \in Rows : Sums(col(i))[t + 1] = Add(Sums(col(i))[t], F[t][i])
    OBVIOUS
  <2>1. col(i) \in [Rows -> Values] /\ \A t \in Rows : col(i)[t] = F[t][i]
    OBVIOUS
  <2> HIDE DEF col
  <2> QED
    BY <2>1, SumOf
<1> HIDE DEF sums, col
<1>4. /\ Sums(sums)[0] = 0 /\ \A t \in Rows : Sums(sums)[t + 1] = Add(Sums(sums)[t], sums[t])
  BY <1>1, SumOf
<1>5. \A n \in 0..NRows : upto(n) \in [Rows -> Values]
  BY <1>3
<1>6. 0 \in S
  <2>1. 0 \in 0..NRows /\ NRows \in 0..NRows
    BY NRowsAssumption
  <2>2. upto(0) \in [Rows -> Values] /\ \A i \in Rows : upto(0)[i] = 0
    BY <1>3, <1>5, <2>1
  <2> HIDE DEF upto
  <2>3. Sum(upto(0)) = 0
    BY <2>1, <2>2, SumZeros DEF Sum
  <2> QED
    BY <1>4, <2>1, <2>3
<1>7. ASSUME NEW n \in Rows, n \in S PROVE n + 1 \in S
  <2>1. n + 1 \in 0..NRows /\ n \in 0..NRows
    BY NRowsAssumption DEF Rows
  <2>2. upto(n) \in [Rows -> Values] /\ upto(n + 1) \in [Rows -> Values] /\ F[n] \in [Rows -> Values]
    BY <1>5, <2>1
  <2>3. \A i \in Rows : upto(n + 1)[i] = Add(upto(n)[i], F[n][i])
    BY <1>3, <2>1
  <2>4. Sums(sums)[n] = Sum(upto(n))
    BY <1>7
  <2> HIDE DEF upto
  <2>5. Sum(upto(n + 1)) = Add(Sum(upto(n)), Sum(F[n]))
    BY <2>2, <2>3, SumPlus
  <2> QED
    BY <1>1, <1>4, <2>1, <2>4, <2>5
<1> HIDE DEF S
<1>8. NRows \in S
  <2>1. NRows \in 0..NRows
    BY NRowsAssumption
  <2> QED
    BY <1>6, <1>7, <2>1, RowInduction
<1>9. Sums(sums)[NRows] = Sum(upto(NRows))
  BY <1>8 DEF S
<1> QED
  BY <1>9 DEF Sum, sums, col

\* The value of one row can be added to the sum of the others.
LEMMA SumPull ==
  ASSUME NEW f \in [Rows -> Values], NEW o \in Rows, NEW C \in SUBSET (Rows \ {o}),
         \A n \in Rows : n \notin C /\ n # o => f[n] = 0
  PROVE  Sum(f) = Add(f[o], Sum([k \in C |-> f[k]]))
<1> DEFINE g == [k \in C |-> f[k]]
           one == [n \in Rows |-> IF n = o THEN f[o] ELSE 0]
<1>1. 0 \in Values
  BY PrimeAssumption DEF Values, Numbers
<1>2. one \in [Rows -> Values] /\ one[o] = f[o] /\ \A n \in Rows \ {o} : one[n] = 0
  BY <1>1
<1>3. Good(g) /\ \A n \in Rows : Spread(g)[n] = IF n \in C THEN f[n] ELSE 0
  BY DEF Good, Spread
<1>4. \A n \in Rows : f[n] = Add(one[n], Spread(g)[n])
  <2> SUFFICES ASSUME NEW n \in Rows PROVE f[n] = Add(one[n], Spread(g)[n])
    OBVIOUS
  <2>1. f[n] \in Values
    OBVIOUS
  <2>2. Add(f[n], 0) = f[n] /\ Add(0, f[n]) = f[n]
    BY <2>1, AddIs
  <2> HIDE DEF one, g
  <2>3. CASE n = o
    BY <1>2, <1>3, <2>2, <2>3
  <2>4. CASE n # o
    BY <1>2, <1>3, <2>2, <2>4
  <2> QED
    BY <2>3, <2>4
<1> HIDE DEF one, g
<1>5. Spread(g) \in [Rows -> Values] /\ Sum(g) = Sum(Spread(g))
  BY <1>3, SumSpread
<1>6. Sum(f) = Add(Sum(one), Sum(Spread(g)))
  BY <1>2, <1>4, <1>5, SumPlus
<1>7. Sum(one) = f[o]
  BY <1>2, SumSingle
<1> QED
  BY <1>5, <1>6, <1>7 DEF g

\* The sets of P, one for each t in T, hold each row once.
Splits(P, T) ==
  /\ T \subseteq Rows /\ \A t \in T : P[t] \subseteq Rows
  /\ \A i \in Rows : \E t \in T : i \in P[t]
  /\ \A t, u \in T : t # u => P[t] \cap P[u] = {}

\* The sums over disjoint parts that have all rows add up to the sum of the rows.
LEMMA SumParts ==
  ASSUME NEW f \in [Rows -> Values], NEW P, NEW T, Splits(P, T)
  PROVE  Sum([t \in T |-> Sum([i \in P[t] |-> f[i]])]) = Sum(f)
<1> DEFINE part(t) == [i \in P[t] |-> f[i]]
           F == [t \in Rows |-> [i \in Rows |-> IF t \in T /\ i \in P[t] THEN f[i] ELSE 0]]
           g == [t \in T |-> Sum(part(t))]
           rowSums == [t \in Rows |-> Sum(F[t])]
           col(i) == [t \in Rows |-> F[t][i]]
           colSums == [i \in Rows |-> Sum(col(i))]
<1>1. 0 \in Values
  BY PrimeAssumption DEF Values, Numbers
<1>2. F \in [Rows -> [Rows -> Values]]
  BY <1>1
<1>3. \A t, i \in Rows : F[t][i] = IF t \in T /\ i \in P[t] THEN f[i] ELSE 0
  OBVIOUS
<1>4. \A t \in T : F[t] = Spread(part(t)) /\ Good(part(t))
  BY DEF Spread, Good, Splits
<1>5. \A t \in T : Sum(part(t)) = Sum(F[t]) /\ Sum(part(t)) \in Values
  <2> SUFFICES ASSUME NEW t \in T PROVE Sum(part(t)) = Sum(F[t]) /\ Sum(part(t)) \in Values
    OBVIOUS
  <2>1. F[t] = Spread(part(t)) /\ Good(part(t))
    BY <1>4
  <2> HIDE DEF F, part
  <2> QED
    BY <2>1, SumSpread
<1>6. \A t \in Rows : t \notin T => Sum(F[t]) = 0
  <2> SUFFICES ASSUME NEW t \in Rows, t \notin T PROVE Sum(F[t]) = 0
    OBVIOUS
  <2>1. F[t] \in [Rows -> Values] /\ \A i \in Rows : F[t][i] = 0
    BY <1>1
  <2>2. NRows \in 0..NRows
    BY NRowsAssumption
  <2> HIDE DEF F
  <2> QED
    BY <2>1, <2>2, SumZeros DEF Sum
<1>7. Sum(g) = Sum(rowSums)
  <2>1. Good(g) /\ Spread(g) = rowSums
    <3>1. \A n : n \in DOMAIN g => n \in T /\ g[n] = Sum(part(n))
      OBVIOUS
    <3>2. Good(g)
      BY <1>5, <3>1 DEF Good
    <3>3. DOMAIN g = T /\ DOMAIN rowSums = Rows /\ \A n \in Rows : rowSums[n] = Sum(F[n])
      OBVIOUS
    <3> HIDE DEF g, rowSums, F, part
    <3>4. \A n \in Rows : rowSums[n] = IF n \in DOMAIN g THEN g[n] ELSE 0
      BY <1>5, <1>6, <3>1, <3>3
    <3>5. Spread(g) = rowSums
      <4>1. rowSums = [n \in Rows |-> rowSums[n]]
        BY DEF rowSums
      <4> QED
        BY <3>4, <4>1 DEF Spread
    <3> QED
      BY <3>2, <3>5
  <2> HIDE DEF g, rowSums
  <2> QED
    BY <2>1, SumSpread
<1>8. \A i \in Rows : Sum(col(i)) = f[i]
  <2> SUFFICES ASSUME NEW i \in Rows PROVE Sum(col(i)) = f[i]
    OBVIOUS
  <2>1. PICK o \in T : i \in P[o]
    BY DEF Splits
  <2>2. \A t \in T : t # o => i \notin P[t]
    BY <2>1 DEF Splits
  <2>3. col(i) \in [Rows -> Values] /\ \A t \in Rows : col(i)[t] = F[t][i]
    BY <1>2
  <2>4. o \in Rows
    BY DEF Splits
  <2> HIDE DEF F, col
  <2>5. col(i)[o] = f[i] /\ \A t \in Rows \ {o} : col(i)[t] = 0
    BY <1>3, <2>1, <2>2, <2>3, <2>4
  <2> QED
    BY <2>3, <2>4, <2>5, SumSingle
<1>9. colSums = f
  BY <1>8
<1>10. Sum(rowSums) = Sum(colSums)
  <2> HIDE DEF F
  <2> QED
    BY <1>2, SumSwap
<1> QED
  BY <1>7, <1>9, <1>10

-----------------------------------------------------------------------------
(***************************************************************************)
(* The parts of the threads.                                               *)
(***************************************************************************)
\* Between the first and the last of some bounds each row is between two that follow
\* each other.
LEMMA Located ==
  ASSUME NEW n \in Nat, NEW B \in [0..n -> Int], B[0] = 0, B[n] = NRows, NEW i \in Rows
  PROVE  \E t \in 0..(n - 1) : B[t] <= i /\ i < B[t + 1]
<1> SUFFICES ASSUME \A t \in 0..(n - 1) : B[t] <= i => B[t + 1] <= i
             PROVE  FALSE
  <2>1. \A t \in 0..(n - 1) : B[t + 1] \in Int /\ i \in Int
    BY DEF Rows
  <2> QED
    BY <2>1
<1> DEFINE S == {t \in 0..n : B[t] <= i}
<1>1. 0 \in S
  BY DEF Rows
<1>2. \A t \in 0..(n - 1) : t \in S => t + 1 \in S
  OBVIOUS
<1> HIDE DEF S
<1>3. 0..n \subseteq S
  <2>1. 0 \in Int /\ n \in Int
    OBVIOUS
  <2> QED
    BY Zenon, <1>1, <1>2, <2>1, IntervalInduction
<1>4. B[n] <= i
  BY <1>3 DEF S
<1> QED
  BY <1>4, NRowsAssumption DEF Rows

\* There are no more threads than rows.
LEMMA ThreadsAreRows ==
  ASSUME sys \in Systems
  PROVE  /\ Threads \subseteq Rows /\ N <= NRows /\ N \in Nat \ {0} /\ 0 \in Threads
         /\ sys.starts \in [1..N -> Nat] /\ sys.starts[1] = 0
         /\ \A i \in 1..N : sys.starts[i] < NRows
         /\ \A i, j \in 1..N : i < j => sys.starts[i] < sys.starts[j]
<1> DEFINE s == sys.starts
           S == {n \in 1..N : n - 1 <= s[n]}
<1>1. N \in Nat \ {0} /\ NRows \in Nat
  BY ThreadsCounted, NRowsAssumption
<1>2. /\ s \in Seq(Nat) /\ s[1] = 0 /\ \A i \in DOMAIN s : s[i] < NRows
      /\ \A i, j \in DOMAIN s : i < j => s[i] < s[j]
  BY Zenon, SystemsAssumption
<1>3. N = Len(s)
  BY DEF N
<1> HIDE DEF s
<1>4. DOMAIN s = 1..N /\ s \in [1..N -> Nat]
  BY <1>2, <1>3
<1>5. 1 \in S
  BY <1>1, <1>2, <1>4
<1>6. \A n \in 1..(N - 1) : n \in S => n + 1 \in S
  <2> SUFFICES ASSUME NEW n \in 1..(N - 1), n \in S PROVE n + 1 \in S
    OBVIOUS
  <2>1. n \in 1..N /\ n + 1 \in 1..N /\ n < n + 1
    BY <1>1
  <2>2. s[n] < s[n + 1] /\ s[n] \in Nat /\ s[n + 1] \in Nat
    BY <1>2, <1>4, <2>1
  <2> QED
    BY <2>1, <2>2
<1> HIDE DEF S
<1>7. 1..N \subseteq S
  BY <1>1, <1>5, <1>6, IntervalInduction
<1>8. N - 1 <= s[N] /\ s[N] < NRows /\ s[N] \in Nat
  BY <1>1, <1>2, <1>4, <1>7 DEF S
<1>9. N <= NRows
  BY <1>1, <1>8
<1>10. Threads \subseteq Rows /\ 0 \in Threads
  BY <1>1, <1>9 DEF Threads, Rows
<1> QED
  BY <1>1, <1>2, <1>4, <1>9, <1>10 DEF s

\* The vectors are split among the threads.
LEMMA PartsSplit ==
  ASSUME sys \in Systems
  PROVE  Splits([t \in Threads |-> Part(t)], Threads)
<1> DEFINE B == [t \in 0..N |-> (t * NRows) \div N]
<1>1. N \in Nat \ {0} /\ NRows \in Nat /\ Threads = 0..(N - 1) /\ Threads \subseteq Rows
  BY ThreadsAreRows, NRowsAssumption DEF Threads
<1>2. \A t \in 0..N : t * NRows \in Nat /\ t * NRows <= N * NRows
  BY <1>1
<1>3. \A t \in 0..N : B[t] \in Nat /\ B[t] <= NRows
  <2> SUFFICES ASSUME NEW t \in 0..N PROVE B[t] \in Nat /\ B[t] <= NRows
    OBVIOUS
  <2>1. (N * NRows) \div N = NRows /\ N * NRows \in Nat
    BY <1>1
  <2>2. (t * NRows) \div N <= (N * NRows) \div N /\ (t * NRows) \div N \in Nat
    BY <1>1, <1>2, <2>1, DivMonotone
  <2> QED
    BY <2>1, <2>2
<1>4. B[0] = 0 /\ B[N] = NRows
  BY <1>1
<1>5. \A t \in Threads : Part(t) = B[t]..(B[t + 1] - 1)
  BY <1>1 DEF Part
<1> HIDE DEF B
<1>6. \A t \in Threads : Part(t) \subseteq Rows
  <2> SUFFICES ASSUME NEW t \in Threads, NEW i \in Part(t) PROVE i \in Rows
    OBVIOUS
  <2>1. t \in 0..N /\ t + 1 \in 0..N
    BY <1>1
  <2>3. i \in B[t]..(B[t + 1] - 1)
    BY <1>5
  <2>2. B[t] \in Nat /\ B[t + 1] \in Nat /\ B[t + 1] <= NRows
    BY <1>3, <2>1
  <2> QED
    BY <1>1, <2>2, <2>3 DEF Rows
<1>7. \A i \in Rows : \E t \in Threads : i \in Part(t)
  <2> SUFFICES ASSUME NEW i \in Rows PROVE \E t \in Threads : i \in Part(t)
    OBVIOUS
  <2>1. B \in [0..N -> Int]
    BY <1>3 DEF B
  <2>2. PICK t \in 0..(N - 1) : B[t] <= i /\ i < B[t + 1]
    BY <1>1, <1>4, <2>1, Located
  <2>3. t \in Threads /\ B[t] \in Nat /\ B[t + 1] \in Nat /\ i \in Nat
    BY <1>1, <1>3, <2>2 DEF Rows
  <2> QED
    BY <1>5, <2>2, <2>3
<1>8. \A t, u \in Threads : t # u => Part(t) \cap Part(u) = {}
  BY PartsDisjoint
<1> QED
  BY <1>1, <1>6, <1>7, <1>8 DEF Splits

\* The rows of the matrix are split among the threads, in their order.
LEMMA OwnSplit ==
  ASSUME sys \in Systems
  PROVE  /\ Splits([t \in Threads |-> Own(t)], Threads)
         /\ \A t, u \in Threads : \A i \in Own(t), j \in Own(u) : t < u => i < j
         /\ \A t \in Threads : \A i \in Own(t) : sys.starts[t + 1] <= i
         /\ \A t, u \in Threads : \A i \in Own(t) : t < u => i < sys.starts[u + 1]
<1> DEFINE s == sys.starts
           B == [t \in 0..N |-> IF t = N THEN NRows ELSE s[t + 1]]
<1>1. /\ N \in Nat \ {0} /\ NRows \in Nat /\ Threads = 0..(N - 1) /\ Threads \subseteq Rows
      /\ s \in [1..N -> Nat] /\ s[1] = 0 /\ \A i \in 1..N : s[i] < NRows
      /\ \A i, j \in 1..N : i < j => s[i] < s[j]
  BY ThreadsAreRows, NRowsAssumption DEF Threads
<1>2. \A t \in Threads : Own(t) = s[t + 1]..(IF t = N - 1 THEN NRows ELSE s[t + 2]) - 1
  BY DEF Own
<1> HIDE DEF s
<1>3. B[0] = 0 /\ B[N] = NRows /\ \A t \in 0..N : B[t] \in Nat /\ B[t] <= NRows
  BY <1>1
<1>4. \A t \in Threads : Own(t) = B[t]..(B[t + 1] - 1) /\ B[t] = s[t + 1]
  BY <1>1, <1>2
<1>5. \A t, u \in 0..N : t <= u => B[t] <= B[u]
  <2> SUFFICES ASSUME NEW t \in 0..N, NEW u \in 0..N, t <= u PROVE B[t] <= B[u]
    OBVIOUS
  <2>1. CASE u = N
    BY <1>3, <2>1
  <2>2. CASE t = u
    BY <1>3, <2>2
  <2>3. CASE t < u /\ u < N
    <3>1. t + 1 \in 1..N /\ u + 1 \in 1..N /\ t + 1 < u + 1
      BY <1>1, <2>3
    <3>2. s[t + 1] < s[u + 1] /\ s[t + 1] \in Nat /\ s[u + 1] \in Nat
      BY <1>1, <3>1
    <3> QED
      BY <1>1, <2>3, <3>2
  <2> QED
    BY <1>1, <2>1, <2>2, <2>3
<1>6. B \in [0..N -> Int]
  BY <1>3
<1> HIDE DEF B
<1>7. \A t \in Threads : \A i \in Own(t) : i \in Rows /\ s[t + 1] <= i
  <2> SUFFICES ASSUME NEW t \in Threads, NEW i \in Own(t) PROVE i \in Rows /\ s[t + 1] <= i
    OBVIOUS
  <2>1. t \in 0..N /\ t + 1 \in 0..N
    BY <1>1
  <2>3. i \in B[t]..(B[t + 1] - 1) /\ B[t] = s[t + 1]
    BY <1>4
  <2>2. B[t] \in Nat /\ B[t + 1] \in Nat /\ B[t + 1] <= NRows
    BY <1>3, <2>1
  <2> QED
    BY <1>1, <2>2, <2>3 DEF Rows
<1>8. \A i \in Rows : \E t \in Threads : i \in Own(t)
  <2> SUFFICES ASSUME NEW i \in Rows PROVE \E t \in Threads : i \in Own(t)
    OBVIOUS
  <2>1. PICK t \in 0..(N - 1) : B[t] <= i /\ i < B[t + 1]
    BY <1>1, <1>3, <1>6, Located
  <2>2. t \in Threads /\ B[t] \in Nat /\ B[t + 1] \in Nat /\ i \in Nat
    BY <1>1, <1>3, <2>1 DEF Rows
  <2> QED
    BY <1>4, <2>1, <2>2
<1>9. \A t, u \in Threads : t # u => Own(t) \cap Own(u) = {}
  BY OwnDisjoint
<1>10. \A t, u \in Threads : \A i \in Own(t) : t < u => i < s[u + 1] /\ i \in Int
  <2> SUFFICES ASSUME NEW t \in Threads, NEW u \in Threads, NEW i \in Own(t), t < u
               PROVE  i < s[u + 1] /\ i \in Int
    OBVIOUS
  <2>1. t + 1 \in 0..N /\ u \in 0..N /\ t \in 0..N /\ t + 1 <= u
    BY <1>1
  <2>2. /\ B[t + 1] <= B[u] /\ B[t] \in Nat /\ B[t + 1] \in Nat /\ B[u] \in Nat
        /\ B[u] = s[u + 1] /\ i \in B[t]..(B[t + 1] - 1)
    BY <1>3, <1>4, <1>5, <2>1
  <2> QED
    BY <2>2
<1>11. \A u \in Threads : \A j \in Own(u) : s[u + 1] <= j /\ s[u + 1] \in Int /\ j \in Int
  <2> SUFFICES ASSUME NEW u \in Threads, NEW j \in Own(u)
               PROVE  s[u + 1] <= j /\ s[u + 1] \in Int /\ j \in Int
    OBVIOUS
  <2>1. u + 1 \in 1..N
    BY <1>1
  <2> QED
    BY <1>1, <1>7, <2>1 DEF Rows
<1>12. \A t, u \in Threads : \A i \in Own(t), j \in Own(u) : t < u => i < j
  BY <1>10, <1>11
<1> QED
  BY <1>1, <1>7, <1>8, <1>9, <1>10, <1>11, <1>12 DEF Splits, s

-----------------------------------------------------------------------------
(***************************************************************************)
(* The kernels.                                                            *)
(***************************************************************************)
\* A vector of numbers, or what a division by zero makes of one.
Uniform(v) == v \in [Rows -> Numbers] \/ v = [i \in Rows |-> NaN]

\* The elements of the matrix.
Entries(A) == A \in [Rows -> [Rows -> Numbers]]

\* What the systems are, taken from the assumption once.
LEMMA SystemIs ==
  ASSUME sys \in Systems
  PROVE  /\ Entries(sys.A) /\ sys.sol \in [Rows -> Numbers] /\ sys.x0 \in Numbers
         /\ sys.sym => \A i, j \in Rows : sys.A[i][j] = sys.A[j][i]
BY Zenon, SystemsAssumption DEF Entries

\* A sum of zeros, or of nothing, is 0.
LEMMA SumNothing ==
  ASSUME NEW f, \A n \in Rows : n \in DOMAIN f => f[n] = 0
  PROVE  Sum(f) = 0
<1>1. Good(f)
  BY PrimeAssumption DEF Good, Values, Numbers
<1>2. Spread(f) \in [Rows -> Values] /\ Sum(f) = Sum(Spread(f))
  BY <1>1, SumSpread
<1>3. \A n \in Rows : Spread(f)[n] = 0
  BY DEF Spread
<1>4. NRows \in 0..NRows
  BY NRowsAssumption
<1> QED
  BY <1>2, <1>3, <1>4, SumZeros DEF Sum

\* What the kernels add is values.
LEMMA KernelValues ==
  ASSUME sys \in Systems, NEW v \in [Rows -> Values], NEW t \in Threads, NEW i \in Rows
  PROVE  OwnRow(t, v, i) \in Values /\ AboveRow(t, v, i) \in Values
<1>1. \A j, k \in Rows : Mul(sys.A[j][k], v[k]) \in Values /\ Mul(sys.A[k][j], v[k]) \in Values
  <2> SUFFICES ASSUME NEW j \in Rows, NEW k \in Rows
               PROVE  Mul(sys.A[j][k], v[k]) \in Values /\ Mul(sys.A[k][j], v[k]) \in Values
    OBVIOUS
  <2>1. sys.A[j][k] \in Values /\ sys.A[k][j] \in Values /\ v[k] \in Values
    BY SystemIs DEF Entries, Values
  <2> QED
    BY <2>1, MulIs
<1>2. Own(t) \subseteq Rows
  BY OwnSplit DEF Splits
<1>3. AboveRow(t, v, i) \in Values
  <2> DEFINE f == [j \in Own(t) |-> Mul(sys.A[j][i], v[j])]
  <2>1. Good(f)
    BY <1>1, <1>2 DEF Good
  <2> HIDE DEF f
  <2>2. Sum(f) \in Values
    BY <2>1, SumSpread
  <2> QED
    BY <2>2 DEF f, AboveRow
<1>4. CASE sys.sym
  <2> DEFINE f == [j \in {j \in Rows : j <= i \/ j \in Own(t)} |->
                     Mul(IF j <= i THEN sys.A[i][j] ELSE sys.A[j][i], v[j])]
  <2>1. \A j \in DOMAIN f : j \in Rows /\ (f[j] = Mul(sys.A[i][j], v[j]) \/ f[j] = Mul(sys.A[j][i], v[j]))
    OBVIOUS
  <2> HIDE DEF f
  <2>2. Good(f)
    BY <1>1, <2>1 DEF Good
  <2>3. Sum(f) \in Values
    BY <2>2, SumSpread
  <2> QED
    BY <1>3, <1>4, <2>3 DEF f, OwnRow
<1>5. CASE ~sys.sym
  <2> DEFINE f == [j \in Rows |-> Mul(sys.A[i][j], v[j])]
  <2>1. Good(f)
    BY <1>1 DEF Good
  <2> HIDE DEF f
  <2>2. Sum(f) \in Values
    BY <2>1, SumSpread
  <2> QED
    BY <1>3, <1>5, <2>2 DEF f, OwnRow, Dot
<1> QED
  BY <1>4, <1>5

\* The vector operations on parts.
LEMMA DotIs ==
  ASSUME NEW u \in [Rows -> Values], NEW v \in [Rows -> Values], NEW part \in SUBSET Rows
  PROVE  Dot(u, v, part) \in Values
<1> DEFINE f == [i \in part |-> Mul(u[i], v[i])]
<1>1. Good(f)
  <2> SUFFICES ASSUME NEW i \in part PROVE Mul(u[i], v[i]) \in Values
    BY DEF Good
  <2>1. u[i] \in Values /\ v[i] \in Values
    OBVIOUS
  <2> QED
    BY <2>1, MulIs
<1> HIDE DEF f
<1>2. Sum(f) \in Values
  BY <1>1, SumSpread
<1> QED
  BY <1>2 DEF f, Dot

\* The threads' partial sums add up to the product of the vectors.
LEMMA DotParts ==
  ASSUME sys \in Systems, NEW u \in [Rows -> Values], NEW v \in [Rows -> Values]
  PROVE  Sum([t \in Threads |-> Dot(u, v, Part(t))]) = Dot(u, v, Rows)
<1> DEFINE f == [i \in Rows |-> Mul(u[i], v[i])]
           P == [t \in Threads |-> Part(t)]
<1>1. f \in [Rows -> Values]
  <2> SUFFICES ASSUME NEW i \in Rows PROVE Mul(u[i], v[i]) \in Values
    OBVIOUS
  <2>1. u[i] \in Values /\ v[i] \in Values
    OBVIOUS
  <2> QED
    BY <2>1, MulIs
<1>2. Splits(P, Threads)
  BY PartsSplit
<1>3. \A t \in Threads : [i \in P[t] |-> f[i]] = [i \in Part(t) |-> Mul(u[i], v[i])]
  BY <1>2 DEF Splits
<1>4. \A t \in Threads : Sum([i \in P[t] |-> f[i]]) = Dot(u, v, Part(t))
  BY <1>3 DEF Dot
<1>5. [t \in Threads |-> Sum([i \in P[t] |-> f[i]])] = [t \in Threads |-> Dot(u, v, Part(t))]
  BY <1>4
<1>6. Sum(f) = Dot(u, v, Rows)
  BY DEF Dot
<1> HIDE DEF f, P
<1> QED
  BY <1>1, <1>2, <1>5, <1>6, SumParts

\* The threads whose kernels add to row i of another thread.
Adders(i) == {k \in Threads : sys.sym /\ i \in Above(k)}

\* They come after the row's own thread.
LEMMA AddersFollow ==
  ASSUME sys \in Systems, NEW o \in Threads, NEW i \in Own(o), NEW k \in Adders(i)
  PROVE  k \in Threads /\ k > o /\ i < sys.starts[k + 1]
<1>1. k \in Threads /\ i < sys.starts[k + 1]
  BY DEF Adders, Above
<1>2. /\ o \in Int /\ k \in Int /\ i \in Int /\ sys.starts[k + 1] \in Int
      /\ k <= o => sys.starts[k + 1] <= i
  <2>1. o \in 0..(N - 1) /\ k \in 0..(N - 1) /\ N \in Nat \ {0}
    BY <1>1, ThreadsAreRows DEF Threads
  <2>2. k + 1 \in 1..N /\ o + 1 \in 1..N
    BY <2>1
  <2>3. sys.starts[k + 1] \in Int /\ sys.starts[o + 1] \in Int
    BY <2>2, ThreadsAreRows
  <2>4. sys.starts[o + 1] <= i /\ i \in Rows
    BY OwnSplit DEF Splits
  <2>5. k < o => sys.starts[k + 1] < sys.starts[o + 1]
    <3>1. \A j, l \in 1..N : j < l => sys.starts[j] < sys.starts[l]
      BY ThreadsAreRows
    <3>2. k < o => k + 1 < o + 1
      BY <2>1
    <3> QED
      BY Zenon, <2>2, <3>1, <3>2
  <2> QED
    BY <2>1, <2>3, <2>4, <2>5 DEF Rows
<1> QED
  BY <1>1, <1>2

\* With a vector of numbers, what a row's thread computes and what the others add to
\* it is the row of the product: the elements right of the thread's rows are the
\* mirrors of elements below.
LEMMA SymRowIs ==
  ASSUME sys \in Systems, sys.sym, NEW v \in [Rows -> Numbers], NEW o \in Threads, NEW i \in Own(o)
  PROVE  Add(OwnRow(o, v, i), Sum([k \in Adders(i) |-> AboveRow(k, v, i)])) = Product(sys, v)[i]
<1> DEFINE f == [j \in Rows |-> Mul(sys.A[i][j], v[j])]
           mine == {j \in Rows : j <= i \/ j \in Own(o)}
           P == [k \in Threads |-> IF k = o THEN mine ELSE IF k > o THEN Own(k) ELSE {}]
           h == [t \in Threads |-> Sum([j \in P[t] |-> f[j]])]
<1>1. /\ i \in Rows /\ Threads \subseteq Rows /\ \A t \in Threads : Own(t) \subseteq Rows
      /\ \A j \in Rows : \E t \in Threads : j \in Own(t)
      /\ \A t, u \in Threads : t # u => Own(t) \cap Own(u) = {}
      /\ \A t, u \in Threads : \A j \in Own(t), k \in Own(u) : t < u => j < k
  BY OwnSplit DEF Splits
<1>2. \A j \in Rows : v[j] \in Values /\ v[j] \in Numbers /\ sys.A[i][j] \in Numbers
                      /\ sys.A[i][j] = sys.A[j][i]
  BY <1>1, SystemIs DEF Values, Entries
<1>3. f \in [Rows -> Values] /\ \A j \in Rows : f[j] = Mul(sys.A[i][j], v[j])
  <2> SUFFICES ASSUME NEW j \in Rows PROVE Mul(sys.A[i][j], v[j]) \in Values
    OBVIOUS
  <2>1. sys.A[i][j] \in Values /\ v[j] \in Values
    BY <1>2 DEF Values
  <2> QED
    BY <2>1, MulIs
<1>4. Splits(P, Threads)
  <2>1. \A t \in Threads : P[t] \subseteq Rows
    BY <1>1
  <2>2. \A t \in Threads : t \in Int
    BY DEF Threads
  <2>3. ASSUME NEW j \in Rows PROVE \E t \in Threads : j \in P[t]
    <3>1. PICK u \in Threads : j \in Own(u)
      BY <1>1
    <3>2. CASE u < o
      <4>1. j < i
        BY <1>1, <3>1, <3>2
      <4>2. j \in P[o]
        BY <1>1, <4>1 DEF Rows
      <4> QED
        BY <4>2
    <3>3. CASE u = o
      <4>1. j \in P[o]
        BY <3>1, <3>3
      <4> QED
        BY <4>1
    <3>4. CASE u > o
      <4>1. j \in P[u]
        BY <2>2, <3>1, <3>4
      <4> QED
        BY <4>1
    <3> QED
      BY <2>2, <3>2, <3>3, <3>4
  <2>4. ASSUME NEW k \in Threads, k > o PROVE mine \cap Own(k) = {}
    <3> SUFFICES ASSUME NEW j \in Own(k), j \in mine PROVE FALSE
      OBVIOUS
    <3>1. i < j /\ j \in Int /\ i \in Int
      BY <1>1, <2>2, <2>4 DEF Rows
    <3>2. j \notin Own(o)
      BY <1>1, <2>2, <2>4
    <3> QED
      BY <3>1, <3>2
  <2>5. \A t \in Threads : P[t] = IF t = o THEN mine ELSE IF t > o THEN Own(t) ELSE {}
    OBVIOUS
  <2> HIDE DEF P, mine
  <2>6. ASSUME NEW t \in Threads, NEW u \in Threads, t # u PROVE P[t] \cap P[u] = {}
    <3>1. CASE t = o
      BY <2>4, <2>5, <2>6, <3>1
    <3>2. CASE u = o
      BY <2>4, <2>5, <2>6, <3>2
    <3>3. CASE t # o /\ u # o
      <4>1. P[t] \subseteq Own(t) /\ P[u] \subseteq Own(u)
        BY <2>5, <3>3
      <4> QED
        BY <1>1, <2>6, <4>1
    <3> QED
      BY <3>1, <3>2, <3>3
  <2> QED
    BY <1>1, <2>1, <2>3, <2>6 DEF Splits
<1>5. Sum(h) = Sum(f)
  <2> HIDE DEF f, P
  <2> QED
    BY <1>3, <1>4, SumParts
<1>6. h[o] = OwnRow(o, v, i)
  <2>1. P[o] = mine
    OBVIOUS
  <2>2. [j \in mine |-> f[j]] = [j \in mine |-> Mul(IF j <= i THEN sys.A[i][j] ELSE sys.A[j][i], v[j])]
    <3>1. \A j \in mine : f[j] = Mul(IF j <= i THEN sys.A[i][j] ELSE sys.A[j][i], v[j])
      <4> SUFFICES ASSUME NEW j \in mine
                   PROVE  f[j] = Mul(IF j <= i THEN sys.A[i][j] ELSE sys.A[j][i], v[j])
        OBVIOUS
      <4>1. j \in Rows
        OBVIOUS
      <4>2. (IF j <= i THEN sys.A[i][j] ELSE sys.A[j][i]) = sys.A[i][j]
        BY <1>2, <4>1
      <4> QED
        BY <1>3, <4>1, <4>2
    <3> HIDE DEF mine, f
    <3> QED
      BY <3>1
  <2>3. OwnRow(o, v, i) = Sum([j \in mine |-> Mul(IF j <= i THEN sys.A[i][j] ELSE sys.A[j][i], v[j])])
    BY DEF OwnRow
  <2>4. h[o] = Sum([j \in mine |-> f[j]])
    BY <2>1
  <2> QED
    BY Zenon, <2>2, <2>3, <2>4
<1>7. ASSUME NEW k \in Adders(i) PROVE k \in Threads /\ k # o /\ h[k] = AboveRow(k, v, i)
  <2>1. k \in Threads /\ k > o /\ k # o
    BY AddersFollow DEF Threads
  <2>2. P[k] = Own(k)
    BY <2>1
  <2>3. [j \in Own(k) |-> f[j]] = [j \in Own(k) |-> Mul(sys.A[j][i], v[j])]
    <3>1. \A j \in Own(k) : f[j] = Mul(sys.A[j][i], v[j])
      BY <1>1, <1>2, <1>3, <2>1
    <3> HIDE DEF f
    <3> QED
      BY <3>1
  <2>4. h[k] = Sum([j \in Own(k) |-> f[j]])
    BY <2>1, <2>2
  <2> QED
    BY Zenon, <2>1, <2>3, <2>4 DEF AboveRow
<1>8. ASSUME NEW k \in Threads, k # o, k \notin Adders(i) PROVE h[k] = 0
  <2> DEFINE g == [j \in P[k] |-> f[j]]
  <2>1. \A j \in P[k] : j \in Rows /\ f[j] = 0
    <3> SUFFICES ASSUME NEW j \in P[k] PROVE j \in Rows /\ f[j] = 0
      OBVIOUS
    <3>1. k > o /\ j \in Own(k)
      BY <1>8
    <3>2. i < sys.starts[k + 1]
      BY <3>1, OwnSplit
    <3>3. i \notin Above(k)
      BY <1>8 DEF Adders
    <3>4. sys.A[j][i] = 0
      BY <1>1, <3>1, <3>2, <3>3 DEF Above
    <3>5. j \in Rows /\ v[j] \in Numbers /\ v[j] \in Values /\ sys.A[i][j] = 0 /\ 0 \in Values
      BY <1>1, <1>2, <3>1, <3>4 DEF Values
    <3> QED
      BY <1>3, <3>5, MulIs
  <2>2. h[k] = Sum(g)
    OBVIOUS
  <2>3. \A n \in Rows : n \in DOMAIN g => g[n] = 0
    BY <2>1
  <2> HIDE DEF g, h
  <2> QED
    BY <2>2, <2>3, SumNothing
<1>9. Good(h)
  <2>1. \A t \in Threads : Good([j \in P[t] |-> f[j]])
    BY <1>3, <1>4 DEF Good, Splits
  <2>2. \A t \in Threads : h[t] \in Values
    <3> SUFFICES ASSUME NEW t \in Threads PROVE h[t] \in Values
      OBVIOUS
    <3> DEFINE g == [j \in P[t] |-> f[j]]
    <3>1. h[t] = Sum(g) /\ Good(g)
      BY <2>1
    <3> HIDE DEF g, h
    <3> QED
      BY <3>1, SumSpread
  <2> QED
    BY <2>2 DEF Good
<1>10. DOMAIN h = Threads
  OBVIOUS
<1> HIDE DEF h, f, P, mine
<1>11. Spread(h) \in [Rows -> Values] /\ Sum(h) = Sum(Spread(h))
  BY <1>9, SumSpread
<1>12. \A n \in Rows : Spread(h)[n] = IF n \in Threads THEN h[n] ELSE 0
  BY <1>10 DEF Spread
<1>13. Sum(Spread(h)) = Add(Spread(h)[o], Sum([k \in Adders(i) |-> Spread(h)[k]]))
  <2>1. o \in Rows /\ Adders(i) \in SUBSET (Rows \ {o})
    BY <1>1, <1>7
  <2>2. \A n \in Rows : n \notin Adders(i) /\ n # o => Spread(h)[n] = 0
    BY <1>8, <1>12
  <2> QED
    BY <1>11, <2>1, <2>2, SumPull
<1>14. [k \in Adders(i) |-> Spread(h)[k]] = [k \in Adders(i) |-> AboveRow(k, v, i)]
  BY <1>1, <1>7, <1>12
<1>15. Spread(h)[o] = OwnRow(o, v, i)
  BY <1>1, <1>6, <1>12
<1>16. Product(sys, v)[i] = Sum(f)
  BY <1>1 DEF Product, Dot, f
<1> QED
  BY Zenon, <1>5, <1>11, <1>13, <1>14, <1>15, <1>16

\* The product of a vector of numbers is one, that of NaN is NaN.
LEMMA ProductUniform ==
  ASSUME NEW s \in Systems, NEW v, Uniform(v)
  PROVE  /\ Uniform(Product(s, v))
         /\ v = [i \in Rows |-> NaN] => \A i \in Rows : Product(s, v)[i] = NaN
<1>1. s.A \in [Rows -> [Rows -> Numbers]]
  BY Zenon, SystemsAssumption
<1>2. \A j \in Numbers : j \in Values
  BY DEF Values
<1>3. CASE v \in [Rows -> Numbers]
  <2>1. ASSUME NEW i \in Rows PROVE Product(s, v)[i] \in Numbers
    <3> DEFINE f == [j \in Rows |-> Mul(s.A[i][j], v[j])]
    <3>1. \A n \in Rows : n \in DOMAIN f => f[n] \in Numbers
      <4> SUFFICES ASSUME NEW n \in Rows PROVE Mul(s.A[i][n], v[n]) \in Numbers
        OBVIOUS
      <4>1. s.A[i][n] \in Numbers /\ v[n] \in Numbers /\ s.A[i][n] \in Values /\ v[n] \in Values
        BY <1>1, <1>2, <1>3
      <4> QED
        BY <4>1, MulIs
    <3>2. Product(s, v)[i] = Sum(f)
      BY DEF Product, Dot
    <3> HIDE DEF f
    <3> QED
      BY <3>1, <3>2, SumNumbers
  <2>2. Product(s, v) \in [Rows -> Numbers]
    BY <2>1 DEF Product
  <2>3. v # [i \in Rows |-> NaN]
    <3>1. 0 \in Rows /\ NaN \notin Numbers
      BY NRowsAssumption DEF Rows, NaN, Numbers
    <3> QED
      BY <1>3, <3>1
  <2> QED
    BY <2>2, <2>3 DEF Uniform
<1>4. CASE v = [i \in Rows |-> NaN]
  <2>1. ASSUME NEW i \in Rows PROVE Product(s, v)[i] = NaN
    <3> DEFINE f == [j \in Rows |-> Mul(s.A[i][j], v[j])]
    <3>1. \A n \in Rows : f[n] = NaN
      <4> SUFFICES ASSUME NEW n \in Rows PROVE Mul(s.A[i][n], v[n]) = NaN
        OBVIOUS
      <4>1. s.A[i][n] \in Values /\ v[n] = NaN /\ NaN \in Values
        BY <1>1, <1>2, <1>4 DEF Values
      <4> QED
        BY <4>1, MulIs
    <3>2. Product(s, v)[i] = Sum(f) /\ DOMAIN f = Rows
      BY DEF Product, Dot
    <3> HIDE DEF f
    <3>3. Good(f)
      BY <3>1 DEF Good, Values
    <3> QED
      BY <3>1, <3>2, <3>3, SumNaN
  <2>2. Product(s, v) = [i \in Rows |-> NaN]
    BY <2>1 DEF Product
  <2> QED
    BY <2>1, <2>2 DEF Uniform
<1> QED
  BY <1>3, <1>4 DEF Uniform

\* A row of the product of any matrix, with a vector of numbers or NaN.
LEMMA ProductRowIs ==
  ASSUME sys \in Systems, NEW v, Uniform(v), NEW o \in Threads, NEW i \in Own(o)
  PROVE  /\ Add(OwnRow(o, v, i), Sum([k \in Adders(i) |-> AboveRow(k, v, i)])) = Product(sys, v)[i]
         /\ Adders(i) = {} => OwnRow(o, v, i) = Product(sys, v)[i]
<1> DEFINE rest == [k \in Adders(i) |-> AboveRow(k, v, i)]
<1>1. v \in [Rows -> Values] /\ i \in Rows /\ Adders(i) \subseteq Threads
  BY OwnSplit DEF Uniform, Values, Splits, Adders
<1>2. OwnRow(o, v, i) \in Values /\ Good(rest)
  BY <1>1, KernelValues DEF Good
<1>3. Sum(rest) \in Values
  <2> HIDE DEF rest
  <2> QED
    BY <1>2, SumSpread
<1>4. Adders(i) = {} => Sum(rest) = 0
  <2>1. DOMAIN rest = Adders(i)
    OBVIOUS
  <2> HIDE DEF rest
  <2> QED
    BY <2>1, SumNothing
<1>5. Add(OwnRow(o, v, i), 0) = OwnRow(o, v, i)
  BY <1>2, AddIs
<1>6. Add(OwnRow(o, v, i), Sum(rest)) = Product(sys, v)[i]
  <2>1. CASE ~sys.sym
    <3>1. Adders(i) = {} /\ OwnRow(o, v, i) = Product(sys, v)[i]
      BY <1>1, <2>1 DEF Adders, OwnRow, Product
    <3> QED
      BY <1>4, <1>5, <3>1
  <2>2. CASE sys.sym /\ v \in [Rows -> Numbers]
    BY <2>2, SymRowIs
  <2>3. CASE sys.sym /\ v = [j \in Rows |-> NaN]
    <3> DEFINE f == [j \in {j \in Rows : j <= i \/ j \in Own(o)} |->
                       Mul(IF j <= i THEN sys.A[i][j] ELSE sys.A[j][i], v[j])]
    <3>1. \A j \in DOMAIN f : j \in Rows /\ f[j] = NaN
      <4> SUFFICES ASSUME NEW j \in Rows
                   PROVE  Mul(IF j <= i THEN sys.A[i][j] ELSE sys.A[j][i], v[j]) = NaN
        OBVIOUS
      <4>1. sys.A[i][j] \in Values /\ sys.A[j][i] \in Values /\ v[j] = NaN /\ NaN \in Values
        BY <1>1, <2>3, SystemIs DEF Values, Entries
      <4> QED
        BY <4>1, MulIs
    <3>2. i \in DOMAIN f /\ OwnRow(o, v, i) = Sum(f)
      BY <1>1, <2>3 DEF OwnRow, Rows
    <3> HIDE DEF f
    <3>3. Good(f)
      BY <3>1 DEF Good, Values
    <3>4. OwnRow(o, v, i) = NaN
      BY <1>1, <3>1, <3>2, <3>3, SumNaN
    <3>5. Add(NaN, Sum(rest)) = NaN
      BY <1>3, AddIs
    <3>6. Product(sys, v)[i] = NaN
      BY <1>1, <2>3, ProductUniform
    <3> QED
      BY Zenon, <3>4, <3>5, <3>6
  <2> QED
    BY <2>1, <2>2, <2>3 DEF Uniform
<1>7. Adders(i) = {} => OwnRow(o, v, i) = Product(sys, v)[i]
  BY Zenon, <1>4, <1>5, <1>6
<1> QED
  BY <1>6, <1>7

\* What main computes before the loop with the kernels is the product.
LEMMA SerialProductIs ==
  ASSUME sys \in Systems, NEW v \in [Rows -> Numbers]
  PROVE  SerialProduct(v) = Product(sys, v)
<1>1. Uniform(v) /\ v \in [Rows -> Values]
  BY DEF Uniform, Values
<1>2. ASSUME NEW i \in Rows PROVE SerialProduct(v)[i] = Product(sys, v)[i]
  <2> DEFINE f == [t \in Threads |-> IF i \in Own(t) THEN OwnRow(t, v, i)
                     ELSE IF sys.sym /\ i \in Above(t) THEN AboveRow(t, v, i) ELSE 0]
  <2>1. /\ Threads \subseteq Rows /\ \E t \in Threads : i \in Own(t)
        /\ \A t, u \in Threads : t # u => Own(t) \cap Own(u) = {}
    BY OwnSplit DEF Splits
  <2>2. PICK o \in Threads : i \in Own(o)
    BY <2>1
  <2>3. \A k \in Adders(i) : k \in Threads /\ k # o
    BY <2>2, AddersFollow DEF Threads
  <2>4. f[o] = OwnRow(o, v, i) /\ \A k \in Adders(i) : f[k] = AboveRow(k, v, i)
    BY <2>1, <2>2, <2>3 DEF Adders
  <2>5. \A k \in Threads : k # o /\ k \notin Adders(i) => f[k] = 0
    BY <2>1, <2>2 DEF Adders
  <2>6. Good(f) /\ DOMAIN f = Threads
    <3>1. \A t \in Threads : OwnRow(t, v, i) \in Values /\ AboveRow(t, v, i) \in Values
      BY <1>1, KernelValues
    <3>2. 0 \in Values
      BY PrimeAssumption DEF Values, Numbers
    <3> QED
      BY <3>1, <3>2 DEF Good
  <2>7. SerialProduct(v)[i] = Sum(f)
    BY DEF SerialProduct
  <2> HIDE DEF f
  <2>8. Spread(f) \in [Rows -> Values] /\ Sum(f) = Sum(Spread(f))
    BY <2>6, SumSpread
  <2>9. \A n \in Rows : Spread(f)[n] = IF n \in Threads THEN f[n] ELSE 0
    BY <2>6 DEF Spread
  <2>10. Sum(Spread(f)) = Add(Spread(f)[o], Sum([k \in Adders(i) |-> Spread(f)[k]]))
    <3>1. o \in Rows /\ Adders(i) \in SUBSET (Rows \ {o})
      BY <2>1, <2>3
    <3>2. \A n \in Rows : n \notin Adders(i) /\ n # o => Spread(f)[n] = 0
      BY <2>5, <2>9
    <3> QED
      BY <2>8, <3>1, <3>2, SumPull
  <2>11. [k \in Adders(i) |-> Spread(f)[k]] = [k \in Adders(i) |-> AboveRow(k, v, i)]
    BY <2>1, <2>3, <2>4, <2>9
  <2>12. Spread(f)[o] = OwnRow(o, v, i)
    BY <2>1, <2>4, <2>9
  <2>13. Add(OwnRow(o, v, i), Sum([k \in Adders(i) |-> AboveRow(k, v, i)])) = Product(sys, v)[i]
    BY <1>1, <2>2, ProductRowIs
  <2> QED
    BY Zenon, <2>7, <2>8, <2>10, <2>11, <2>12, <2>13
<1> QED
  BY <1>2 DEF SerialProduct, Product

-----------------------------------------------------------------------------
(***************************************************************************)
(* The sequential method.                                                  *)
(***************************************************************************)
\* The vectors of the sequential method.
Vectors == [Rows -> Numbers] \cup {[i \in Rows |-> NaN]}
Iterates == [x : Vectors, r : Vectors, p : Vectors]

\* A vector is all numbers or all NaN.
LEMMA VectorsUniform ==
  /\ \A v : v \in Vectors <=> Uniform(v)
  /\ Vectors \subseteq [Rows -> Values]
BY DEF Vectors, Uniform, Values

\* A vector operation on all rows makes such a vector of such vectors.
LEMMA ScaleAddVectors ==
  ASSUME NEW u \in Vectors, NEW v \in Vectors, NEW w, NEW num \in Values
  PROVE  /\ ScaleAdd(u, v, w, num, Rows) \in Vectors
         /\ \A i \in Rows : ScaleAdd(u, v, w, num, Rows)[i] = Add(u[i], Mul(num, v[i]))
<1> DEFINE q == ScaleAdd(u, v, w, num, Rows)
<1>1. DOMAIN q = Rows /\ q = [i \in Rows |-> q[i]] /\ \A i \in Rows : q[i] = Add(u[i], Mul(num, v[i]))
  BY DEF ScaleAdd
<1> HIDE DEF q
<1>2. u \in [Rows -> Values] /\ v \in [Rows -> Values] /\ NaN \in Values
  BY VectorsUniform DEF Values
<1>3. \A i \in Rows : Mul(num, v[i]) \in Values
  <2> SUFFICES ASSUME NEW i \in Rows PROVE Mul(num, v[i]) \in Values
    OBVIOUS
  <2>1. v[i] \in Values
    BY <1>2
  <2> QED
    BY <2>1, MulIs
<1>4. CASE num # NaN /\ u \in [Rows -> Numbers] /\ v \in [Rows -> Numbers]
  <2>1. ASSUME NEW i \in Rows PROVE q[i] \in Numbers
    <3>1. num \in Numbers /\ u[i] \in Numbers /\ v[i] \in Numbers /\ v[i] \in Values /\ u[i] \in Values
      BY <1>2, <1>4 DEF Values
    <3>2. Mul(num, v[i]) \in Numbers
      BY <3>1, MulIs
    <3>3. u[i] # NaN /\ Mul(num, v[i]) # NaN /\ Mul(num, v[i]) \in Values
      BY <1>3, <3>1, <3>2 DEF Numbers, NaN
    <3>4. Add(u[i], Mul(num, v[i])) \in Values /\ Add(u[i], Mul(num, v[i])) # NaN
      BY <3>1, <3>3, AddIs
    <3> QED
      BY <1>1, <3>4 DEF Values
  <2>2. q \in [Rows -> Numbers]
    BY <1>1, <2>1
  <2> QED
    BY <1>1, <2>2 DEF Vectors, q
<1>5. CASE num = NaN \/ u = [i \in Rows |-> NaN] \/ v = [i \in Rows |-> NaN]
  <2>1. ASSUME NEW i \in Rows PROVE q[i] = NaN
    <3>1. u[i] \in Values /\ v[i] \in Values /\ Mul(num, v[i]) \in Values
      BY <1>2, <1>3
    <3>2. u[i] = NaN \/ Mul(num, v[i]) = NaN
      BY <1>5, <3>1, MulIs
    <3>3. Add(u[i], NaN) = NaN /\ Add(NaN, Mul(num, v[i])) = NaN
      BY <3>1, AddIs
    <3> QED
      BY <1>1, <3>2, <3>3
  <2>2. q = [i \in Rows |-> NaN]
    BY <1>1, <2>1
  <2> QED
    BY <1>1, <2>2 DEF Vectors, q
<1> QED
  BY <1>4, <1>5 DEF Vectors, q

\* The scalars of an iteration.
AlphaOf(s, v) == Div(Dot(v.r, v.r, Rows), Dot(Product(s, v.p), v.p, Rows))
NextR(s, v) == ScaleAdd(v.r, Product(s, v.p), v.r, Neg(AlphaOf(s, v)), Rows)
BetaOf(s, v) == Div(Dot(NextR(s, v), NextR(s, v), Rows), Dot(v.r, v.r, Rows))

\* An iteration leads from a point to a point.
LEMMA IterateIs ==
  ASSUME NEW s \in Systems, NEW v \in Iterates
  PROVE  /\ Iterate(s, v) \in Iterates
         /\ AlphaOf(s, v) \in Values /\ BetaOf(s, v) \in Values /\ Product(s, v.p) \in Vectors
         /\ Iterate(s, v).r = NextR(s, v)
         /\ \A i \in Rows : /\ Iterate(s, v).x[i] = Add(v.x[i], Mul(AlphaOf(s, v), v.p[i]))
                            /\ Iterate(s, v).r[i] =
                                 Add(v.r[i], Mul(Neg(AlphaOf(s, v)), Product(s, v.p)[i]))
                            /\ Iterate(s, v).p[i] =
                                 Add(Iterate(s, v).r[i], Mul(BetaOf(s, v), v.p[i]))
<1> DEFINE Ap == Product(s, v.p)
           a == AlphaOf(s, v)
           new == NextR(s, v)
           beta == BetaOf(s, v)
<1>1. v.x \in Vectors /\ v.r \in Vectors /\ v.p \in Vectors
  BY DEF Iterates
<1>2. Ap \in Vectors
  BY <1>1, VectorsUniform, ProductUniform
<1>3. a \in Values /\ Neg(a) \in Values
  <2>1. Dot(v.r, v.r, Rows) \in Values /\ Dot(Ap, v.p, Rows) \in Values
    BY <1>1, <1>2, VectorsUniform, DotIs
  <2>2. a = Div(Dot(v.r, v.r, Rows), Dot(Ap, v.p, Rows))
    BY DEF AlphaOf
  <2>3. a \in Values
    <3> HIDE DEF a, Ap
    <3>1. Div(Dot(v.r, v.r, Rows), Dot(Ap, v.p, Rows)) \in Values
      BY <2>1, MulIs
    <3> QED
      BY Zenon, <2>2, <3>1
  <2> HIDE DEF a, Ap
  <2> QED
    BY <2>3, MulIs
<1>4. new = ScaleAdd(v.r, Ap, v.r, Neg(a), Rows)
  BY DEF NextR
<1> HIDE DEF Ap, a
<1>5. new \in Vectors /\ \A i \in Rows : new[i] = Add(v.r[i], Mul(Neg(a), Ap[i]))
  BY <1>1, <1>2, <1>3, <1>4, ScaleAddVectors
<1>6. beta \in Values
  <2>1. Dot(v.r, v.r, Rows) \in Values /\ Dot(new, new, Rows) \in Values
    BY <1>1, <1>5, VectorsUniform, DotIs
  <2>2. beta = Div(Dot(new, new, Rows), Dot(v.r, v.r, Rows))
    BY DEF BetaOf
  <2> HIDE DEF beta, new
  <2> QED
    BY <2>1, <2>2, MulIs
<1>7. Iterate(s, v) = [x |-> ScaleAdd(v.x, v.p, v.x, a, Rows), r |-> new,
                       p |-> ScaleAdd(new, v.p, v.p, beta, Rows)]
  BY DEF Iterate, a, AlphaOf, NextR, BetaOf
<1> HIDE DEF new, beta
<1>8. /\ ScaleAdd(v.x, v.p, v.x, a, Rows) \in Vectors
      /\ \A i \in Rows : ScaleAdd(v.x, v.p, v.x, a, Rows)[i] = Add(v.x[i], Mul(a, v.p[i]))
  BY <1>1, <1>3, ScaleAddVectors
<1>9. /\ ScaleAdd(new, v.p, v.p, beta, Rows) \in Vectors
      /\ \A i \in Rows : ScaleAdd(new, v.p, v.p, beta, Rows)[i] = Add(new[i], Mul(beta, v.p[i]))
  BY <1>1, <1>5, <1>6, ScaleAddVectors
<1>10. Iterate(s, v) \in Iterates
  BY <1>5, <1>7, <1>8, <1>9 DEF Iterates
<1>11. /\ Iterate(s, v).r = new /\ Iterate(s, v).x = ScaleAdd(v.x, v.p, v.x, a, Rows)
       /\ Iterate(s, v).p = ScaleAdd(new, v.p, v.p, beta, Rows)
  BY <1>7
<1>12. \A i \in Rows : /\ Iterate(s, v).x[i] = Add(v.x[i], Mul(a, v.p[i]))
                       /\ Iterate(s, v).r[i] = Add(v.r[i], Mul(Neg(a), Ap[i]))
                       /\ Iterate(s, v).p[i] = Add(Iterate(s, v).r[i], Mul(beta, v.p[i]))
  BY <1>5, <1>8, <1>9, <1>11
<1> QED
  BY <1>2, <1>3, <1>6, <1>10, <1>11, <1>12 DEF Ap, a, new, beta

\* Where the method starts.
LEMMA FirstIs ==
  ASSUME NEW s \in Systems
  PROVE  /\ First(s) \in Iterates /\ First(s).p = First(s).r
         /\ \A i \in Rows : /\ First(s).x[i] = s.x0
                            /\ First(s).r[i] = Add(Product(s, s.sol)[i],
                                 Mul(Neg(1), Product(s, [j \in Rows |-> s.x0])[i]))
<1> DEFINE x0 == [j \in Rows |-> s.x0]
           r0 == ScaleAdd(Product(s, s.sol), Product(s, x0), x0, Neg(1), Rows)
<1>1. s.sol \in [Rows -> Numbers] /\ s.x0 \in Numbers
  BY Zenon, SystemsAssumption
<1>2. x0 \in Vectors /\ Uniform(s.sol) /\ Uniform(x0)
  BY <1>1, VectorsUniform DEF Vectors, Uniform
<1>3. Product(s, s.sol) \in Vectors /\ Product(s, x0) \in Vectors
  BY <1>2, VectorsUniform, ProductUniform
<1>4. Neg(1) \in Values
  <2>1. 1 \in Values
    BY PrimeAssumption DEF Values, Numbers
  <2> QED
    BY <2>1, MulIs
<1>5. First(s) = [x |-> x0, r |-> r0, p |-> r0]
  BY DEF First
<1>6. \A i \in Rows : x0[i] = s.x0
  OBVIOUS
<1> HIDE DEF x0
<1>7. /\ r0 \in Vectors
      /\ \A i \in Rows : r0[i] = Add(Product(s, s.sol)[i], Mul(Neg(1), Product(s, x0)[i]))
  BY <1>3, <1>4, ScaleAddVectors
<1> HIDE DEF r0
<1>8. First(s).x = x0 /\ First(s).r = r0 /\ First(s).p = r0 /\ First(s) \in Iterates
  BY <1>2, <1>5, <1>7 DEF Iterates
<1> QED
  BY <1>6, <1>7, <1>8 DEF x0

\* The sequence of its points.
LEMMA SolutionIs ==
  ASSUME NEW s \in Systems
  PROVE  /\ Solutions[s] \in [0..NLoops -> Iterates]
         /\ Solutions[s][0] = First(s)
         /\ \A k \in 0..(NLoops - 1) : Solutions[s][k + 1] = Iterate(s, Solutions[s][k])
<1> DEFINE rule == [c \in (1..NLoops) \X Iterates |-> Iterate(s, c[2])]
           points == Solution(s)
<1>1. \A i \in 1..NLoops, v \in Iterates : rule[<<i, v>>] \in Iterates
  <2> SUFFICES ASSUME NEW i \in 1..NLoops, NEW v \in Iterates PROVE rule[<<i, v>>] \in Iterates
    OBVIOUS
  <2>1. rule[<<i, v>>] = Iterate(s, v)
    OBVIOUS
  <2> HIDE DEF rule
  <2> QED
    BY <2>1, IterateIs
<1>2. First(s) \in Iterates /\ NLoops \in Nat
  BY FirstIs, NLoopsAssumption
<1>3. PICK g : Follows(g, NLoops, Iterates, First(s), rule)
  <2> HIDE DEF rule
  <2> QED
    BY <1>1, <1>2, IntervalRecursion
<1>4. /\ g \in [0..NLoops -> Iterates] /\ g[0] = First(s)
      /\ \A n \in 1..NLoops : g[n] = Iterate(s, g[n - 1])
  <2>1. \A n \in 1..NLoops : n - 1 \in 0..NLoops
    BY <1>2
  <2>2. \A n \in 1..NLoops : rule[<<n, g[n - 1]>>] = Iterate(s, g[n - 1])
    BY <1>3, <2>1 DEF Follows
  <2> HIDE DEF rule
  <2> QED
    BY <1>3, <2>2 DEF Follows
<1>5. g = [k \in 0..NLoops |-> IF k = 0 THEN First(s) ELSE Iterate(s, g[k - 1])]
  <2>1. \A n \in 0..NLoops : n # 0 => n \in 1..NLoops
    BY <1>2
  <2> QED
    BY <1>4, <2>1
<1>6. points = [k \in 0..NLoops |-> IF k = 0 THEN First(s) ELSE Iterate(s, points[k - 1])]
  BY <1>5 DEF Solution
<1>7. Solutions[s] = points
  BY DEF Solutions
<1> HIDE DEF points
<1>8. points[0] = First(s) /\ \A k \in 0..(NLoops - 1) : points[k + 1] = Iterate(s, points[k])
  <2>1. 0 \in 0..NLoops
    BY <1>2
  <2>2. \A k \in 0..(NLoops - 1) : k + 1 \in 0..NLoops /\ k + 1 # 0 /\ (k + 1) - 1 = k
    BY <1>2
  <2> QED
    BY <1>6, <2>1, <2>2
<1>9. points \in [0..NLoops -> Iterates]
  <2> DEFINE S == {j \in 0..NLoops : points[j] \in Iterates}
  <2>1. 0 \in S
    BY <1>2, <1>8
  <2>2. \A j \in 0..(NLoops - 1) : j \in S => j + 1 \in S
    <3> SUFFICES ASSUME NEW j \in 0..(NLoops - 1), j \in S PROVE j + 1 \in S
      OBVIOUS
    <3>1. points[j] \in Iterates /\ j + 1 \in 0..NLoops
      BY <1>2
    <3>2. Iterate(s, points[j]) \in Iterates
      BY <3>1, IterateIs
    <3> QED
      BY <1>8, <3>1, <3>2
  <2> HIDE DEF S
  <2>3. 0..NLoops \subseteq S
    <3>1. 0 \in Int /\ NLoops \in Int
      BY <1>2
    <3> QED
      BY Zenon, <2>1, <2>2, <3>1, IntervalInduction
  <2>4. \A j \in 0..NLoops : points[j] \in Iterates
    BY <2>3 DEF S
  <2> QED
    BY <1>6, <2>4
<1> QED
  BY <1>7, <1>8, <1>9

-----------------------------------------------------------------------------
(***************************************************************************)
(* How often threads have been through the phases.                         *)
(***************************************************************************)
\* The order of the phases, and the number of each for the system that is solved.
Order == [mult |-> 1, reduce |-> 2, dots |-> 3, alpha |-> 4, update |-> 5, newdots |-> 6,
          beta |-> 7, direct |-> 8]
Names == IF sys.sym THEN DOMAIN Order ELSE DOMAIN Order \ {"reduce"}
Number(n) == IF sys.sym \/ n = "mult" THEN Order[n] ELSE Order[n] - 1

\* Phases lists them.
LEMMA NumberIs ==
  /\ \A n \in Names : Number(n) \in 1..LastPhase /\ Phases[Number(n)] = n
  /\ \A q \in 1..LastPhase : Phases[q] \in Names /\ Number(Phases[q]) = q
  /\ \A n, m \in Names : Order[n] < Order[m] <=> Number(n) < Number(m)
<1>1. CASE sys.sym
  BY <1>1 DEF Order, Names, Number, LastPhase, Phases
<1>2. CASE ~sys.sym
  BY <1>2 DEF Order, Names, Number, LastPhase, Phases
<1> QED
  BY <1>1, <1>2

\* A phase is among the first if its number is.
LEMMA AmongFirst ==
  ASSUME NEW n \in Names, NEW ph \in 1..(LastPhase + 1)
  PROVE  (\E q \in 1..(ph - 1) : Phases[q] = n) <=> Number(n) < ph
<1>1. LastPhase \in Nat
  BY DEF LastPhase
<1>2. Number(n) \in 1..LastPhase /\ Phases[Number(n)] = n
  BY NumberIs
<1>3. ASSUME NEW q \in 1..(ph - 1), Phases[q] = n PROVE Number(n) < ph
  <2>1. q \in 1..LastPhase
    BY <1>1
  <2>2. Number(n) = q
    BY <1>3, <2>1, NumberIs
  <2> QED
    BY <2>2
<1>4. ASSUME Number(n) < ph PROVE \E q \in 1..(ph - 1) : Phases[q] = n
  <2>1. Number(n) \in 1..(ph - 1)
    BY <1>1, <1>2, <1>4
  <2> QED
    BY <1>2, <2>1
<1> QED
  BY <1>3, <1>4

\* How often a thread has been through a phase, by numbers.
LEMMA TimesIs ==
  ASSUME IInv, NEW t \in Threads, NEW n \in Names
  PROVE  /\ Times(t, n) = iter[t] + (IF Number(n) < phase[t] THEN 1 ELSE 0)
         /\ Times(t, n) \in Nat
<1>1. phase[t] \in 1..(LastPhase + 1) /\ iter[t] \in Nat
  <2>1. stage[t] \in {"loop", "barrier", "work", "exit"} /\ iter[t] \in Nat /\ LastPhase \in Nat
    BY DEF IInv, TypeInv, LastPhase
  <2> QED
    BY <2>1 DEF IInv, PhaseInv
<1>2. (\E q \in 1..(phase[t] - 1) : Phases[q] = n) <=> Number(n) < phase[t]
  BY <1>1, AmongFirst
<1>3. Times(t, n) = iter[t] + (IF Number(n) < phase[t] THEN 1 ELSE 0)
  BY <1>2 DEF Times
<1> QED
  BY <1>1, <1>3

\* A number of arrivals tells the iteration and the arrivals in it.
LEMMA SameTurn ==
  ASSUME NEW w \in {8, 9}, NEW i \in Nat, NEW k \in Nat, NEW q \in 1..w, NEW j \in 1..w,
         w * i + q = w * k + j
  PROVE  i = k /\ q = j
<1>1. CASE w = 8
  BY <1>1
<1>2. CASE w = 9
  BY <1>2
<1> QED
  BY <1>1, <1>2

\* While thread t is in a phase of its iteration k, each thread has been through the
\* phases before it k + 1 times, and through those after it k times.
LEMMA Lockstep ==
  ASSUME IInv, NEW t \in Threads, t \notin blocked, stage[t] = "work",
         NEW name \in Names, phase[t] = Number(name)
  PROVE  /\ Times(t, name) = iter[t]
         /\ \A u \in Threads, n \in Names :
              /\ Order[n] < Order[name] => Times(u, n) = iter[t] + 1
              /\ Order[n] > Order[name] => Times(u, n) = iter[t]
              /\ Times(u, name) \in {iter[t], iter[t] + 1}
<1> DEFINE k == iter[t]
           ph == phase[t]
           w == LastPhase + 1
<1>1. k \in Nat /\ ph \in 1..LastPhase /\ w \in {8, 9} /\ LastPhase = w - 1
      /\ w = IF sys.sym THEN 9 ELSE 8
  BY DEF IInv, TypeInv, PhaseInv, LastPhase
<1>2. Arrivals(t) = round /\ Arrivals(t) = w * k + ph
  <2>1. Arrivals(t) = round
    BY DEF IInv, BarrierInv
  <2>2. Arrivals(t) = (IF sys.sym THEN 9 * k ELSE 8 * k) + ph - 0
    BY DEF Arrivals
  <2> QED
    BY <1>1, <2>1, <2>2
<1>3. ASSUME NEW u \in Threads
      PROVE  \/ iter[u] = k /\ phase[u] = ph
             \/ iter[u] = k /\ phase[u] = ph + 1
             \/ iter[u] = k + 1 /\ phase[u] = 1 /\ ph = LastPhase
  <2>1. /\ stage[u] \in {"loop", "barrier", "work", "exit"} /\ iter[u] \in Nat
        /\ stage[u] \in {"loop", "exit"} => phase[u] = 1
        /\ stage[u] = "work" => phase[u] \in 1..LastPhase
        /\ stage[u] = "barrier" => phase[u] \in 1..(LastPhase + 1)
        /\ u \in blocked => stage[u] \in {"loop", "work"}
    BY DEF IInv, TypeInv, PhaseInv, BarrierInv
  <2>2. Arrivals(u) = w * iter[u] + phase[u] - (IF stage[u] = "work" THEN 0 ELSE 1)
    BY <1>1, <2>1 DEF Arrivals
  <2>3. Arrivals(u) = IF u \in blocked THEN w * k + ph + 1 ELSE w * k + ph
    BY <1>2 DEF IInv, BarrierInv
  <2> DEFINE i == iter[u]
             q == phase[u]
  <2>4. i \in Nat /\ q \in 1..w
    BY <1>1, <2>1
  <2> HIDE DEF k, ph, w, i, q
  <2>5. CASE u \notin blocked
    <3>1. w * i + q - (IF stage[u] = "work" THEN 0 ELSE 1) = w * k + ph
      BY <2>2, <2>3, <2>5 DEF i, q
    <3>2. CASE stage[u] = "work"
      <4>1. w * i + q = w * k + ph /\ ph \in 1..w
        BY <1>1, <2>4, <3>1, <3>2
      <4>2. i = k /\ q = ph
        BY <1>1, <2>4, <4>1, SameTurn
      <4> QED
        BY <4>2 DEF i, q
    <3>3. CASE stage[u] # "work"
      <4>1. w * i + q = w * k + (ph + 1) /\ ph + 1 \in 1..w
        BY <1>1, <2>4, <3>1, <3>3
      <4>2. i = k /\ q = ph + 1
        BY <1>1, <2>4, <4>1, SameTurn
      <4> QED
        BY <4>2 DEF i, q
    <3> QED
      BY <3>2, <3>3
  <2>6. CASE u \in blocked /\ stage[u] = "work"
    <3>1. w * i + q = w * k + (ph + 1) /\ ph + 1 \in 1..w
      BY <1>1, <2>1, <2>2, <2>3, <2>4, <2>6 DEF i, q
    <3>2. i = k /\ q = ph + 1
      BY <1>1, <2>4, <3>1, SameTurn
    <3> QED
      BY <3>2 DEF i, q
  <2>7. CASE u \in blocked /\ stage[u] = "loop"
    <3>1. w * i + q - 1 = w * k + ph + 1 /\ q = 1
      BY <2>1, <2>2, <2>3, <2>7 DEF i, q
    <3>2. i = k + 1 /\ ph = w - 1
      BY <1>1, <2>4, <3>1
    <3> QED
      BY <1>1, <3>1, <3>2 DEF i, q
  <2> QED
    BY <2>1, <2>5, <2>6, <2>7
<1>4. ASSUME NEW u \in Threads, NEW n \in Names
      PROVE  /\ Order[n] < Order[name] => Times(u, n) = k + 1
             /\ Order[n] > Order[name] => Times(u, n) = k
             /\ Times(u, name) \in {k, k + 1}
  <2>1. /\ Order[n] < Order[name] => Number(n) < ph
        /\ Order[n] > Order[name] => Number(n) > ph
        /\ Number(n) \in 1..LastPhase /\ Number(name) = ph
    BY NumberIs
  <2>2. /\ Times(u, n) = iter[u] + (IF Number(n) < phase[u] THEN 1 ELSE 0)
        /\ Times(u, name) = iter[u] + (IF ph < phase[u] THEN 1 ELSE 0)
    BY <2>1, TimesIs
  <2> HIDE DEF k, ph, w
  <2> QED
    BY <1>1, <1>3, <2>1, <2>2
<1>5. Times(t, name) = k
  <2>1. Times(t, name) = iter[t] + (IF Number(name) < phase[t] THEN 1 ELSE 0)
    BY TimesIs
  <2> QED
    BY <1>1, <2>1
<1> QED
  BY <1>4, <1>5

\* How often they have been there after a step.
OneMore(t, name) ==
  \A u \in Threads, n \in Names :
    Times(u, n)' = IF u = t /\ n = name THEN Times(u, n) + 1 ELSE Times(u, n)
SameTimes == \A u \in Threads, n \in Names : Times(u, n)' = Times(u, n)

\* How often a thread has been through a phase, after a step that keeps the system.
LEMMA TimesAfter ==
  ASSUME IInv, sys' = sys, NEW u \in Threads, phase'[u] \in 1..(LastPhase + 1), NEW n \in Names
  PROVE  Times(u, n)' = iter'[u] + (IF Number(n) < phase'[u] THEN 1 ELSE 0)
<1>1. Phases' = Phases
  BY DEF Phases
<1>2. Times(u, n)' =
        iter'[u] + (IF \E q \in 1..(phase'[u] - 1) : Phases[q] = n THEN 1 ELSE 0)
  BY <1>1 DEF Times
<1>3. (\E q \in 1..(phase'[u] - 1) : Phases[q] = n) <=> Number(n) < phase'[u]
  BY AmongFirst
<1> QED
  BY <1>2, <1>3

\* Where a thread is that works.
LEMMA AtPhase ==
  ASSUME IInv, NEW t \in Threads, NEW name, Work(t, name)
  PROVE  /\ name \in Names /\ phase[t] = Number(name) /\ t \notin blocked /\ stage[t] = "work"
         /\ t \in created /\ sys' = sys /\ created' = created /\ done' = done /\ OneMore(t, name)
<1>1. /\ t \notin blocked /\ stage[t] = "work" /\ Phases[phase[t]] = name /\ t \in created
      /\ phase' = [phase EXCEPT ![t] = @ + 1]
      /\ UNCHANGED <<sys, created, iter, done, barrier>>
  BY DEF Work, Running, Awake
<1>2. phase[t] \in 1..LastPhase /\ LastPhase \in Nat /\ phase \in [Threads -> Nat]
      /\ iter \in [Threads -> Nat]
  BY <1>1 DEF IInv, TypeInv, PhaseInv, LastPhase
<1>3. name \in Names /\ phase[t] = Number(name)
  BY <1>1, <1>2, NumberIs
<1>4. OneMore(t, name)
  <2> SUFFICES ASSUME NEW u \in Threads, NEW n \in Names
               PROVE  Times(u, n)' = IF u = t /\ n = name THEN Times(u, n) + 1 ELSE Times(u, n)
    BY DEF OneMore
  <2>1. phase'[u] = (IF u = t THEN phase[u] + 1 ELSE phase[u]) /\ iter'[u] = iter[u]
    BY <1>1, <1>2
  <2>2. phase[u] \in 1..(LastPhase + 1)
    BY <1>2 DEF IInv, TypeInv, PhaseInv
  <2>3. phase'[u] \in 1..(LastPhase + 1)
    BY <1>2, <2>1, <2>2
  <2>4. Times(u, n) = iter[u] + (IF Number(n) < phase[u] THEN 1 ELSE 0)
    BY TimesIs
  <2>5. Times(u, n)' = iter'[u] + (IF Number(n) < phase'[u] THEN 1 ELSE 0)
    BY <1>1, <2>3, TimesAfter
  <2>6. n # name => Number(n) # Number(name)
    BY <1>3, NumberIs
  <2>7. Number(n) \in Int /\ iter[u] \in Nat
    BY <1>2, NumberIs
  <2> QED
    BY <1>2, <1>3, <2>1, <2>4, <2>5, <2>6, <2>7
<1> QED
  BY <1>1, <1>3, <1>4

\* Between the phases it stays the same: the end of an iteration resets the phase as
\* it counts the iteration.
LEMMA QuietTimes ==
  ASSUME IInv, NEW t \in Threads, LoopTest(t) \/ Barrier(t)
  PROVE  SameTimes /\ UNCHANGED <<sys, created, done>>
<1>1. /\ LastPhase \in Nat /\ phase \in [Threads -> Nat] /\ iter \in [Threads -> Nat]
      /\ \A u \in Threads : phase[u] \in 1..(LastPhase + 1)
  <2>1. LastPhase \in Nat
    BY DEF LastPhase
  <2> QED
    BY <2>1 DEF IInv, TypeInv, PhaseInv
<1>2. UNCHANGED <<sys, created, done>>
  BY DEF LoopTest, Barrier
<1>3. \/ UNCHANGED <<phase, iter>>
      \/ /\ phase[t] = LastPhase + 1
         /\ phase' = [phase EXCEPT ![t] = 1] /\ iter' = [iter EXCEPT ![t] = @ + 1]
  <2>1. CASE LoopTest(t)
    BY <2>1 DEF LoopTest
  <2>2. CASE Barrier(t)
    <3>1. Pass(t)
      BY <2>2 DEF Barrier
    <3> QED
      BY <1>1, <3>1, PhasesCounted DEF Pass
  <2> QED
    BY <2>1, <2>2
<1>4. SameTimes
  <2> SUFFICES ASSUME NEW u \in Threads, NEW n \in Names PROVE Times(u, n)' = Times(u, n)
    BY DEF SameTimes
  <2>1. Times(u, n) = iter[u] + (IF Number(n) < phase[u] THEN 1 ELSE 0)
    BY TimesIs
  <2>2. phase'[u] \in 1..(LastPhase + 1)
    BY <1>1, <1>3
  <2>3. Times(u, n)' = iter'[u] + (IF Number(n) < phase'[u] THEN 1 ELSE 0)
    BY <1>2, <2>2, TimesAfter
  <2>4. Number(n) \in 1..LastPhase
    BY NumberIs
  <2> QED
    BY <1>1, <1>3, <2>1, <2>3, <2>4
<1> QED
  BY <1>2, <1>4

-----------------------------------------------------------------------------
\* What a step that leaves the system alone leaves alone with it.
LEMMA SystemStays ==
  ASSUME sys' = sys
  PROVE  /\ Threads' = Threads /\ Names' = Names /\ map' = map
         /\ \A t : Part(t)' = Part(t) /\ Own(t)' = Own(t) /\ Above(t)' = Above(t)
         /\ \A t, v, i : OwnRow(t, v, i)' = OwnRow(t, v, i) /\ AboveRow(t, v, i)' = AboveRow(t, v, i)
BY DEF Threads, Names, map, Part, Own, Above, OwnRow, AboveRow, N

-----------------------------------------------------------------------------
(***************************************************************************)
(* The data.                                                               *)
(***************************************************************************)
\* The sequential method's vectors after k iterations.
NthIterate(k) == Solutions[sys][k]

\* The threads that add what others computed to row i: the one that has it in its list.
Reducers(i) == {t \in Threads : sys.sym /\ \E k \in Threads : <<k, i>> \in ToSet(map[t])}

\* The vectors and scalars hold values.
ValueInv ==
  /\ x \in [Rows -> Values] /\ r \in [Rows -> Values] /\ p \in [Rows -> Values]
  /\ temp \in [Rows -> Values] /\ sub \in [Threads -> [Rows -> Values]]
  /\ rr \in [Threads -> Values] /\ tp \in [Threads -> Values] /\ rr_new \in [Threads -> Values]
  /\ ai \in Values /\ bi \in Values

\* No thread is past the last iteration, nor moves before main has created it or
\* after main has joined it.
CountInv ==
  /\ \A t \in Threads : iter[t] <= NLoops /\ (stage[t] \in {"barrier", "work"} => iter[t] < NLoops)
  /\ created = {} => \A t \in Threads : stage[t] = "loop" /\ phase[t] = 1 /\ iter[t] = 0
  /\ done => \A t \in Threads : stage[t] = "exit"
  /\ created \subseteq Threads

\* Each thread's part of x, r and p.
PartInv ==
  \A t \in Threads : \A i \in Part(t) :
    /\ x[i] = NthIterate(Times(t, "update")).x[i]
    /\ r[i] = NthIterate(Times(t, "update")).r[i]
    /\ p[i] = NthIterate(Times(t, "direct")).p[i]

\* A row of temp is what the kernel of the row's thread computed until the row is
\* reduced, and then the product.
TempInv ==
  \A o \in Threads : \A i \in Own(o) :
    LET k == Times(o, "mult")
        v == NthIterate(k - 1).p
    IN  k >= 1 =>
          temp[i] = IF \A t \in Reducers(i) : Times(t, "reduce") = k
                      THEN Product(sys, v)[i] ELSE OwnRow(o, v, i)

\* An element of a private vector waits to be reduced or is cleared.
SubInv ==
  sys.sym =>
    \A o \in Threads : \A i \in Above(o) : \A t \in Reducers(i) :
      LET k == Times(o, "mult")
      IN  IF Times(t, "reduce") = k THEN sub[o][i] = 0
          ELSE k >= 1 /\ sub[o][i] = AboveRow(o, NthIterate(k - 1).p, i)

\* The partial products, and their sums when main has added them up.
DotInv ==
  \A t \in Threads :
    LET k == Times(t, "dots")
        v == NthIterate(k - 1)
        part == IF t = 0 /\ Times(0, "alpha") = k THEN Rows ELSE Part(t)
    IN  k >= 1 => /\ rr[t] = Dot(v.r, v.r, part)
                  /\ tp[t] = Dot(Product(sys, v.p), v.p, part)
AlphaInv ==
  LET k == Times(0, "alpha") IN k >= 1 => ai = AlphaOf(sys, NthIterate(k - 1))
NewDotInv ==
  \A t \in Threads :
    LET k == Times(t, "newdots")
        v == NthIterate(k)
        part == IF t = 0 /\ Times(0, "beta") = k THEN Rows ELSE Part(t)
    IN  k >= 1 => rr_new[t] = Dot(v.r, v.r, part)
BetaInv ==
  LET k == Times(0, "beta") IN k >= 1 => bi = BetaOf(sys, NthIterate(k - 1))

DataInv ==
  /\ ValueInv /\ CountInv
  /\ created # {} =>
       PartInv /\ SubInv /\ DotInv /\ AlphaInv /\ NewDotInv /\ BetaInv /\ (~done => TempInv)

-----------------------------------------------------------------------------
(***************************************************************************)
(* The reduction map.                                                      *)
(***************************************************************************)
\* What thread t adds to row i.
LEMMA ReducersAre ==
  ASSUME sys \in Systems, NEW i
  PROVE  /\ Adders(i) = {} => Reducers(i) = {}
         /\ \A t \in Reducers(i) : Reducers(i) = {t}
         /\ Adders(i) # {} => Reducers(i) # {}
         /\ sys.sym => \A t \in Threads : {k \in Threads : <<k, i>> \in ToSet(map[t])} =
                                            IF t \in Reducers(i) THEN Adders(i) ELSE {}
<1> DEFINE reach == [t \in Threads |-> Above(t)]
<1>1. EachOnce(map, reach, N) /\ Threads = 0..(N - 1)
  BY MapIs DEF Threads
<1>2. ASSUME NEW t \in Threads, NEW k \in Threads, <<k, i>> \in ToSet(map[t])
      PROVE  i \in Above(k)
  <2>1. PICK l \in DOMAIN map[t] : map[t][l] = <<k, i>>
    BY <1>2 DEF ToSet
  <2>2. \E kk \in Threads : \E j \in reach[kk] : map[t][l] = <<kk, j>>
    BY <1>1, <2>1 DEF EachOnce
  <2> QED
    BY <2>1, <2>2
<1>3. ASSUME NEW k \in Threads, i \in Above(k)
      PROVE  \E t \in Threads : <<k, i>> \in ToSet(map[t])
  <2>1. i \in reach[k]
    BY <1>3
  <2> HIDE DEF reach
  <2>2. \E t \in Threads : \E l \in DOMAIN map[t] : map[t][l] = <<k, i>>
    BY <1>1, <2>1 DEF EachOnce
  <2> QED
    BY <2>2 DEF ToSet
<1>4. ASSUME NEW t \in Threads, NEW u \in Threads, NEW k, NEW l,
             <<k, i>> \in ToSet(map[t]), <<l, i>> \in ToSet(map[u])
      PROVE  t = u
  <2>1. <<k, i>>[2] = <<l, i>>[2]
    OBVIOUS
  <2> QED
    BY <1>4, <2>1, MapSeparates DEF ReductionsDisjoint
<1>5. \A t \in Reducers(i) : t \in Threads /\ sys.sym /\ \E k \in Threads : <<k, i>> \in ToSet(map[t])
  BY DEF Reducers
<1>6. Adders(i) = {} => Reducers(i) = {}
  BY <1>2, <1>5 DEF Adders
<1>7. Adders(i) # {} => Reducers(i) # {}
  BY <1>3 DEF Adders, Reducers
<1>8. \A t \in Reducers(i) : Reducers(i) = {t}
  <2> SUFFICES ASSUME NEW t \in Reducers(i), NEW u \in Reducers(i) PROVE t = u
    OBVIOUS
  <2> QED
    BY <1>4, <1>5
<1>9. ASSUME sys.sym, NEW t \in Threads
      PROVE  {k \in Threads : <<k, i>> \in ToSet(map[t])} = IF t \in Reducers(i) THEN Adders(i) ELSE {}
  <2>1. CASE t \in Reducers(i)
    <3>1. \A k \in Threads : <<k, i>> \in ToSet(map[t]) <=> i \in Above(k)
      <4> SUFFICES ASSUME NEW k \in Threads PROVE <<k, i>> \in ToSet(map[t]) <=> i \in Above(k)
        OBVIOUS
      <4>1. ASSUME i \in Above(k) PROVE <<k, i>> \in ToSet(map[t])
        <5>1. PICK u \in Threads : <<k, i>> \in ToSet(map[u])
          BY <1>3, <4>1
        <5>2. u = t
          BY <1>4, <1>5, <2>1, <5>1
        <5> QED
          BY <5>1, <5>2
      <4> QED
        BY <1>2, <4>1
    <3> QED
      BY <1>9, <2>1, <3>1 DEF Adders
  <2>2. CASE t \notin Reducers(i)
    BY <1>9, <2>2 DEF Reducers
  <2> QED
    BY <2>1, <2>2
<1> QED
  BY <1>6, <1>7, <1>8, <1>9

-----------------------------------------------------------------------------
(***************************************************************************)
(* What a step does not touch stays as it is.                              *)
(***************************************************************************)
KeptTimes(names) == \A u \in Threads : \A n \in names \cap Names : Times(u, n)' = Times(u, n)

\* The phases that every solver has.
LEMMA NamesAre ==
  /\ {"mult", "dots", "alpha", "update", "newdots", "beta", "direct"} \subseteq Names
  /\ sys.sym => "reduce" \in Names
BY DEF Names, Order

\* The parts of x, r and p depend on the updates and directions made.
LEMMA KeepPart ==
  ASSUME sys' = sys, PartInv, UNCHANGED <<x, r, p>>, KeptTimes({"update", "direct"})
  PROVE  PartInv'
<1>1. \A t \in Threads : /\ Times(t, "update")' = Times(t, "update")
                         /\ Times(t, "direct")' = Times(t, "direct")
  BY NamesAre DEF KeptTimes
<1> QED
  BY <1>1, SystemStays DEF PartInv, NthIterate

\* The product depends on the kernels and reductions that have run.
LEMMA KeepTemp ==
  ASSUME sys' = sys, TempInv, UNCHANGED temp, KeptTimes({"mult", "reduce"})
  PROVE  TempInv'
<1>1. \A t \in Threads : /\ Times(t, "mult")' = Times(t, "mult")
                         /\ sys.sym => Times(t, "reduce")' = Times(t, "reduce")
  BY NamesAre DEF KeptTimes
<1>2. \A i : Reducers(i)' = Reducers(i) /\ \A t \in Reducers(i) : t \in Threads /\ sys.sym
  BY SystemStays DEF Reducers
<1>3. \A i : (\A t \in Reducers(i) : Times(t, "reduce") = Times(t, "reduce")')
  BY <1>1, <1>2
<1>4. SUFFICES ASSUME NEW o \in Threads, NEW i \in Own(o), Times(o, "mult") >= 1
               PROVE  temp[i] = IF \A t \in Reducers(i) : Times(t, "reduce")' = Times(o, "mult")
                                  THEN Product(sys, NthIterate(Times(o, "mult") - 1).p)[i]
                                  ELSE OwnRow(o, NthIterate(Times(o, "mult") - 1).p, i)
  BY <1>1, <1>2, SystemStays DEF TempInv, NthIterate
<1>5. (\A t \in Reducers(i) : Times(t, "reduce")' = Times(o, "mult")) <=>
        \A t \in Reducers(i) : Times(t, "reduce") = Times(o, "mult")
  BY <1>3
<1> QED
  BY <1>4, <1>5 DEF TempInv

\* So do the private vectors.
LEMMA KeepSub ==
  ASSUME sys' = sys, SubInv, UNCHANGED sub, KeptTimes({"mult", "reduce"})
  PROVE  SubInv'
<1>1. \A t \in Threads : /\ Times(t, "mult")' = Times(t, "mult")
                         /\ sys.sym => Times(t, "reduce")' = Times(t, "reduce")
  BY NamesAre DEF KeptTimes
<1>2. \A i : Reducers(i)' = Reducers(i) /\ \A t \in Reducers(i) : t \in Threads /\ sys.sym
  BY SystemStays DEF Reducers
<1> QED
  BY <1>1, <1>2, SystemStays DEF SubInv, NthIterate

\* The first two partial sums depend on the two phases that write them.
LEMMA KeepDot ==
  ASSUME sys' = sys, sys \in Systems, DotInv, UNCHANGED <<rr, tp>>, KeptTimes({"dots", "alpha"})
  PROVE  DotInv'
<1>1. \A t \in Threads : /\ Times(t, "dots")' = Times(t, "dots")
                         /\ Times(t, "alpha")' = Times(t, "alpha")
  BY NamesAre DEF KeptTimes
<1>2. 0 \in Threads
  BY ThreadsAreRows
<1> QED
  BY <1>1, <1>2, SystemStays DEF DotInv, NthIterate

\* So does alpha.
LEMMA KeepAlpha ==
  ASSUME sys' = sys, sys \in Systems, AlphaInv, UNCHANGED ai, KeptTimes({"alpha"})
  PROVE  AlphaInv'
<1>1. Times(0, "alpha")' = Times(0, "alpha")
  BY NamesAre, ThreadsAreRows DEF KeptTimes
<1> QED
  BY <1>1 DEF AlphaInv, NthIterate

\* So does the third partial sum.
LEMMA KeepNewDot ==
  ASSUME sys' = sys, sys \in Systems, NewDotInv, UNCHANGED rr_new, KeptTimes({"newdots", "beta"})
  PROVE  NewDotInv'
<1>1. \A t \in Threads : /\ Times(t, "newdots")' = Times(t, "newdots")
                         /\ Times(t, "beta")' = Times(t, "beta")
  BY NamesAre DEF KeptTimes
<1>2. 0 \in Threads
  BY ThreadsAreRows
<1> QED
  BY <1>1, <1>2, SystemStays DEF NewDotInv, NthIterate

\* So does beta.
LEMMA KeepBeta ==
  ASSUME sys' = sys, sys \in Systems, BetaInv, UNCHANGED bi, KeptTimes({"beta"})
  PROVE  BetaInv'
<1>1. Times(0, "beta")' = Times(0, "beta")
  BY NamesAre, ThreadsAreRows DEF KeptTimes
<1> QED
  BY <1>1 DEF BetaInv, NthIterate

-----------------------------------------------------------------------------
(***************************************************************************)
(* The phases.                                                             *)
(***************************************************************************)
Clauses == PartInv /\ SubInv /\ DotInv /\ AlphaInv /\ NewDotInv /\ BetaInv /\ TempInv

\* What is known when thread t leaves the named phase of iteration k.
Leaves(t, name, k) ==
  /\ sys \in Systems /\ sys' = sys /\ 0 \in Threads /\ name \in Names
  /\ k \in Nat /\ OneMore(t, name) /\ Times(t, name) = k
  /\ \A u \in Threads, n \in Names :
       /\ Order[n] < Order[name] => Times(u, n) = k + 1
       /\ Order[n] > Order[name] => Times(u, n) = k
       /\ Times(u, name) \in {k, k + 1}
  /\ NthIterate(k) \in Iterates /\ NthIterate(k + 1) \in Iterates
  /\ NthIterate(k + 1) = Iterate(sys, NthIterate(k))
  /\ ValueInv /\ Clauses

\* What the invariant says of a thread in a phase, before any phase is looked at.
LEMMA Leaving ==
  ASSUME IInv, DataInv, NEW t \in Threads, NEW name, Work(t, name)
  PROVE  Leaves(t, name, iter[t]) /\ created # {} /\ ~done /\ created' = created /\ done' = done
<1>1. /\ name \in Names /\ phase[t] = Number(name) /\ t \notin blocked /\ stage[t] = "work"
      /\ t \in created /\ sys' = sys /\ created' = created /\ done' = done /\ OneMore(t, name)
  BY AtPhase
<1>2. sys \in Systems /\ 0 \in Threads /\ iter[t] \in Nat
  BY ThreadsAreRows DEF IInv, TypeInv
<1>3. iter[t] < NLoops /\ ~done
  BY <1>1 DEF DataInv, CountInv
<1>4. /\ Times(t, name) = iter[t]
      /\ \A u \in Threads, n \in Names :
           /\ Order[n] < Order[name] => Times(u, n) = iter[t] + 1
           /\ Order[n] > Order[name] => Times(u, n) = iter[t]
           /\ Times(u, name) \in {iter[t], iter[t] + 1}
  BY <1>1, Lockstep
<1>5. /\ NthIterate(iter[t]) \in Iterates /\ NthIterate(iter[t] + 1) \in Iterates
      /\ NthIterate(iter[t] + 1) = Iterate(sys, NthIterate(iter[t]))
  <2>1. iter[t] \in 0..NLoops /\ iter[t] + 1 \in 0..NLoops /\ iter[t] \in 0..(NLoops - 1)
    BY <1>2, <1>3, NLoopsAssumption
  <2> QED
    BY <1>2, <2>1, SolutionIs DEF NthIterate
<1>6. ValueInv /\ Clauses
  BY <1>1, <1>3 DEF DataInv, Clauses
<1> QED
  BY <1>1, <1>2, <1>3, <1>4, <1>5, <1>6 DEF Leaves

\* The other phases' counts stay.
LEMMA Kept ==
  ASSUME NEW t, NEW name, OneMore(t, name), NEW names, name \notin names
  PROVE  KeptTimes(names)
BY DEF OneMore, KeptTimes

\* Vectors that agree in all parts are equal.
LEMMA PartsAgree ==
  ASSUME sys \in Systems, NEW v \in [Rows -> Values], NEW w \in [Rows -> Values],
         \A t \in Threads : \A i \in Part(t) : v[i] = w[i]
  PROVE  v = w
<1>1. \A i \in Rows : \E t \in Threads : i \in Part(t)
  BY PartsSplit DEF Splits
<1> QED
  BY <1>1

\* What the vectors of a point are.
LEMMA PointIs ==
  ASSUME sys \in Systems, NEW v \in Iterates
  PROVE  /\ v.x \in Vectors /\ v.r \in Vectors /\ v.p \in Vectors
         /\ v.x \in [Rows -> Values] /\ v.r \in [Rows -> Values] /\ v.p \in [Rows -> Values]
         /\ Uniform(v.p) /\ Product(sys, v.p) \in [Rows -> Values]
<1>1. v.x \in Vectors /\ v.r \in Vectors /\ v.p \in Vectors
  BY DEF Iterates
<1>2. Product(sys, v.p) \in Vectors
  BY IterateIs
<1> QED
  BY <1>1, <1>2, VectorsUniform

\* MatrixMultiply of the threads' parts.
LEMMA MultData ==
  ASSUME NEW t \in Threads, NEW k, Mult(t), Leaves(t, "mult", k)
  PROVE  ValueInv' /\ Clauses'
<1> DEFINE v == NthIterate(k).p
<1>1. /\ sys \in Systems /\ sys' = sys /\ k \in Nat /\ OneMore(t, "mult") /\ Times(t, "mult") = k
      /\ v \in [Rows -> Values] /\ Uniform(v)
      /\ ValueInv /\ Clauses
  BY PointIs DEF Leaves
<1>2. /\ temp' = [i \in Rows |-> IF i \in Own(t) THEN OwnRow(t, p, i) ELSE temp[i]]
      /\ sub' = IF sys.sym
                  THEN [sub EXCEPT ![t] =
                         [j \in Rows |-> IF j \in Above(t) THEN Add(sub[t][j], AboveRow(t, p, j))
                                         ELSE sub[t][j]]]
                  ELSE sub
      /\ UNCHANGED <<x, r, p, rr, tp, rr_new, ai, bi>>
  BY DEF Mult, scalars
<1>3. \A u \in Threads : /\ Times(u, "direct") = k
                         /\ sys.sym => Times(u, "reduce") = k
  BY NamesAre DEF Leaves, Order
<1>4. p = v
  <2>1. \A u \in Threads : \A i \in Part(u) : p[i] = v[i]
    BY <1>1, <1>3 DEF Clauses, PartInv
  <2>2. p \in [Rows -> Values]
    BY <1>1 DEF ValueInv
  <2> HIDE DEF v
  <2> QED
    BY <1>1, <2>1, <2>2, PartsAgree
<1> HIDE DEF v
<1>5. \A i \in Rows : OwnRow(t, v, i) \in Values /\ AboveRow(t, v, i) \in Values
  BY <1>1, KernelValues
<1>6. ValueInv'
  <2>1. temp' \in [Rows -> Values]
    BY <1>1, <1>2, <1>4, <1>5 DEF ValueInv
  <2>2. sub' \in [Threads -> [Rows -> Values]]
    <3>1. \A j \in Rows : sub[t][j] \in Values /\ Add(sub[t][j], AboveRow(t, v, j)) \in Values
      <4> SUFFICES ASSUME NEW j \in Rows
                   PROVE  sub[t][j] \in Values /\ Add(sub[t][j], AboveRow(t, v, j)) \in Values
        OBVIOUS
      <4>1. sub[t][j] \in Values /\ AboveRow(t, v, j) \in Values
        BY <1>1, <1>5 DEF ValueInv
      <4> QED
        BY <4>1, AddIs
    <3> QED
      BY <1>1, <1>2, <1>4, <3>1 DEF ValueInv
  <2> QED
    BY <1>1, <1>2, <2>1, <2>2, SystemStays DEF ValueInv
<1>7. /\ \A u \in Threads : Times(u, "mult")' = IF u = t THEN k + 1 ELSE Times(u, "mult")
      /\ \A i : Reducers(i)' = Reducers(i) /\ \A q \in Reducers(i) : q \in Threads /\ sys.sym
      /\ \A i : \A q \in Reducers(i) : Times(q, "reduce")' = k /\ Times(q, "reduce") = k
  <2>1. \A u \in Threads : Times(u, "mult")' = IF u = t THEN k + 1 ELSE Times(u, "mult")
    BY <1>1, NamesAre DEF OneMore
  <2>2. \A i : Reducers(i)' = Reducers(i) /\ \A q \in Reducers(i) : q \in Threads /\ sys.sym
    BY <1>1, SystemStays DEF Reducers
  <2>3. \A i : \A q \in Reducers(i) : Times(q, "reduce")' = k /\ Times(q, "reduce") = k
    BY <1>1, <1>3, <2>2, NamesAre DEF OneMore
  <2> QED
    BY <2>1, <2>2, <2>3
<1>8. TempInv'
  <2>1. SUFFICES ASSUME NEW o \in Threads, NEW i \in Own(o), NEW m, m = Times(o, "mult")', m >= 1
                 PROVE  temp'[i] = IF \A q \in Reducers(i) : k = m
                                     THEN Product(sys, NthIterate(m - 1).p)[i]
                                     ELSE OwnRow(o, NthIterate(m - 1).p, i)
    BY <1>1, <1>7, SystemStays DEF TempInv, NthIterate
  <2>2. i \in Rows
    BY <1>1, OwnSplit DEF Splits
  <2>3. CASE o = t
    <3>1. m = k + 1 /\ m # k /\ m - 1 = k /\ temp'[i] = OwnRow(t, v, i)
      BY <1>1, <1>2, <1>4, <1>7, <2>1, <2>2, <2>3
    <3>2. CASE Reducers(i) = {}
      <4>1. Adders(i) = {}
        BY <1>1, <3>2, ReducersAre
      <4>2. OwnRow(t, v, i) = Product(sys, v)[i]
        BY <1>1, <2>3, <4>1, ProductRowIs
      <4> QED
        BY <3>1, <3>2, <4>2 DEF v
    <3>3. CASE Reducers(i) # {}
      BY <2>3, <3>1, <3>3 DEF v
    <3> QED
      BY <3>2, <3>3
  <2>4. CASE o # t
    <3>1. i \notin Own(t)
      BY <1>1, <2>4, OwnDisjoint
    <3>2. m = Times(o, "mult") /\ temp'[i] = temp[i]
      BY <1>2, <1>7, <2>1, <2>2, <2>4, <3>1
    <3>3. (\A q \in Reducers(i) : Times(q, "reduce") = m) <=> \A q \in Reducers(i) : k = m
      BY <1>7
    <3> QED
      BY <1>1, <2>1, <3>2, <3>3 DEF Clauses, TempInv
  <2> QED
    BY <2>3, <2>4
<1>9. SubInv'
  <2>1. SUFFICES ASSUME sys.sym, NEW o \in Threads, NEW i \in Above(o), NEW q \in Reducers(i),
                        NEW m, m = Times(o, "mult")'
                 PROVE  IF k = m THEN sub'[o][i] = 0
                        ELSE m >= 1 /\ sub'[o][i] = AboveRow(o, NthIterate(m - 1).p, i)
    BY <1>1, <1>7, SystemStays DEF SubInv, NthIterate
  <2>2. i \in Rows
    BY DEF Above
  <2>3. IF k = Times(o, "mult") THEN sub[o][i] = 0
        ELSE Times(o, "mult") >= 1 /\ sub[o][i] = AboveRow(o, NthIterate(Times(o, "mult") - 1).p, i)
    BY <1>1, <1>7, <2>1 DEF Clauses, SubInv
  <2>4. CASE o = t
    <3>1. m = k + 1 /\ m # k /\ m - 1 = k /\ m >= 1 /\ sub[t][i] = 0
      BY <1>1, <1>7, <2>1, <2>3, <2>4
    <3>2. sub'[t][i] = Add(sub[t][i], AboveRow(t, v, i))
      BY <1>1, <1>2, <1>4, <2>1, <2>2, <2>4 DEF ValueInv
    <3>3. AboveRow(t, v, i) \in Values
      BY <1>5, <2>2
    <3>4. Add(0, AboveRow(t, v, i)) = AboveRow(t, v, i)
      BY <3>3, AddIs
    <3> QED
      BY <2>4, <3>1, <3>2, <3>4 DEF v
  <2>5. CASE o # t
    <3>1. m = Times(o, "mult") /\ sub'[o] = sub[o]
      BY <1>1, <1>2, <1>7, <2>1, <2>5 DEF ValueInv
    <3> QED
      BY <2>3, <3>1
  <2> QED
    BY <2>4, <2>5
<1>10. PartInv' /\ DotInv' /\ AlphaInv' /\ NewDotInv' /\ BetaInv'
  <2>1. \A names : "mult" \notin names => KeptTimes(names)
    BY <1>1, Kept
  <2>2. /\ KeptTimes({"update", "direct"}) /\ KeptTimes({"dots", "alpha"})
        /\ KeptTimes({"alpha"}) /\ KeptTimes({"newdots", "beta"}) /\ KeptTimes({"beta"})
    BY <2>1
  <2> QED
    BY <1>1, <1>2, <2>2, KeepPart, KeepDot, KeepAlpha, KeepNewDot, KeepBeta DEF Clauses
<1> QED
  BY <1>6, <1>8, <1>9, <1>10 DEF Clauses

\* The reduction of the rows in the thread's list.
LEMMA ReduceData ==
  ASSUME NEW t \in Threads, NEW k, Reduce(t), Leaves(t, "reduce", k)
  PROVE  ValueInv' /\ Clauses'
<1> DEFINE v == NthIterate(k).p
           cpus(i) == {l \in Threads : <<l, i>> \in ToSet(map[t])}
           added(i) == Sum([l \in cpus(i) |-> sub[l][i]])
<1>1. /\ sys \in Systems /\ sys' = sys /\ k \in Nat /\ OneMore(t, "reduce") /\ Times(t, "reduce") = k
      /\ v \in [Rows -> Values] /\ Uniform(v) /\ "reduce" \in Names
      /\ ValueInv /\ Clauses
  BY PointIs DEF Leaves
<1>2. sys.sym
  BY <1>1 DEF Names
<1>3. /\ temp' = [i \in Rows |-> Add(temp[i], added(i))]
      /\ sub' = [l \in Threads |-> [i \in Rows |-> IF l \in cpus(i) THEN 0 ELSE sub[l][i]]]
      /\ UNCHANGED <<x, r, p, rr, tp, rr_new, ai, bi>>
  BY DEF Reduce, scalars
<1>4. \A i : cpus(i) = IF t \in Reducers(i) THEN Adders(i) ELSE {}
  BY <1>1, <1>2, ReducersAre
<1> HIDE DEF v, cpus
<1>5. \A i \in Rows : added(i) \in Values /\ (cpus(i) = {} => added(i) = 0)
  <2> SUFFICES ASSUME NEW i \in Rows PROVE added(i) \in Values /\ (cpus(i) = {} => added(i) = 0)
    OBVIOUS
  <2> DEFINE f == [l \in cpus(i) |-> sub[l][i]]
  <2>1. Good(f)
    BY <1>1 DEF Good, ValueInv, cpus
  <2>2. DOMAIN f = cpus(i) /\ added(i) = Sum(f)
    OBVIOUS
  <2> HIDE DEF f, added
  <2> QED
    BY <2>1, <2>2, SumSpread, SumNothing
<1> HIDE DEF added
<1>6. ValueInv'
  <2>1. \A i \in Rows : Add(temp[i], added(i)) \in Values
    <3> SUFFICES ASSUME NEW i \in Rows PROVE Add(temp[i], added(i)) \in Values
      OBVIOUS
    <3>1. temp[i] \in Values /\ added(i) \in Values
      BY <1>1, <1>5 DEF ValueInv
    <3> QED
      BY <3>1, AddIs
  <2>2. 0 \in Values
    BY PrimeAssumption DEF Values, Numbers
  <2>3. temp' \in [Rows -> Values] /\ sub' \in [Threads -> [Rows -> Values]]
    BY <1>1, <1>3, <2>1, <2>2 DEF ValueInv
  <2> QED
    BY <1>1, <1>3, <2>3, SystemStays DEF ValueInv
<1>7. /\ \A u \in Threads : Times(u, "mult")' = k + 1 /\ Times(u, "mult") = k + 1
      /\ \A u \in Threads : Times(u, "reduce")' = IF u = t THEN k + 1 ELSE Times(u, "reduce")
      /\ \A i : Reducers(i)' = Reducers(i) /\ \A q \in Reducers(i) : q \in Threads
  <2>1. \A u \in Threads : Times(u, "mult")' = k + 1 /\ Times(u, "mult") = k + 1
    BY <1>1, NamesAre DEF OneMore, Leaves, Order
  <2>2. \A u \in Threads : Times(u, "reduce")' = IF u = t THEN k + 1 ELSE Times(u, "reduce")
    BY <1>1 DEF OneMore
  <2>3. \A i : Reducers(i)' = Reducers(i) /\ \A q \in Reducers(i) : q \in Threads
    BY <1>1, SystemStays DEF Reducers
  <2> QED
    BY <2>1, <2>2, <2>3
<1>8. TempInv'
  <2>1. SUFFICES ASSUME NEW o \in Threads, NEW i \in Own(o)
                 PROVE  temp'[i] = IF \A q \in Reducers(i) : Times(q, "reduce")' = k + 1
                                     THEN Product(sys, v)[i] ELSE OwnRow(o, v, i)
    <3>1. (k + 1) - 1 = k
      BY <1>1
    <3> QED
      BY <1>1, <1>7, <3>1, SystemStays DEF TempInv, NthIterate, v
  <2>2. i \in Rows
    BY <1>1, OwnSplit DEF Splits
  <2>3. temp[i] = IF \A q \in Reducers(i) : Times(q, "reduce") = k + 1
                    THEN Product(sys, v)[i] ELSE OwnRow(o, v, i)
    <3>1. (k + 1) - 1 = k /\ k + 1 >= 1
      BY <1>1
    <3> QED
      BY <1>1, <1>7, <3>1 DEF Clauses, TempInv, v
  <2>4. temp'[i] = Add(temp[i], added(i))
    BY <1>3, <2>2
  <2>5. CASE t \in Reducers(i)
    <3>1. Reducers(i) = {t}
      BY <1>1, <2>5, ReducersAre
    <3>2. k # k + 1
      BY <1>1
    <3>3. temp[i] = OwnRow(o, v, i)
      BY <1>1, <2>3, <2>5, <3>2
    <3>4. cpus(i) = Adders(i)
      BY <1>4, <2>5
    <3>5. \A l \in Adders(i) : sub[l][i] = AboveRow(l, v, i)
      <4> SUFFICES ASSUME NEW l \in Adders(i) PROVE sub[l][i] = AboveRow(l, v, i)
        OBVIOUS
      <4>1. l \in Threads /\ i \in Above(l)
        BY DEF Adders
      <4>2. IF k = k + 1 THEN sub[l][i] = 0 ELSE sub[l][i] = AboveRow(l, NthIterate((k + 1) - 1).p, i)
        BY <1>1, <1>2, <1>7, <2>5, <4>1 DEF Clauses, SubInv
      <4>3. (k + 1) - 1 = k
        BY <1>1
      <4> QED
        BY <3>2, <4>2, <4>3 DEF v
    <3>6. added(i) = Sum([l \in Adders(i) |-> AboveRow(l, v, i)])
      <4>1. [l \in cpus(i) |-> sub[l][i]] = [l \in Adders(i) |-> AboveRow(l, v, i)]
        BY <3>4, <3>5
      <4> QED
        BY <4>1 DEF added
    <3>7. temp'[i] = Product(sys, v)[i]
      BY <1>1, <2>4, <3>3, <3>6, ProductRowIs
    <3>8. \A q \in Reducers(i) : Times(q, "reduce")' = k + 1
      BY <1>7, <3>1
    <3> QED
      BY <3>7, <3>8
  <2>6. CASE t \notin Reducers(i)
    <3>1. added(i) = 0
      BY <1>4, <1>5, <2>2, <2>6
    <3>2. temp[i] \in Values
      BY <1>1, <2>2 DEF ValueInv
    <3>3. temp'[i] = temp[i]
      BY <2>4, <3>1, <3>2, AddIs
    <3>4. (\A q \in Reducers(i) : Times(q, "reduce")' = k + 1) <=>
            \A q \in Reducers(i) : Times(q, "reduce") = k + 1
      BY <1>7, <2>6
    <3> QED
      BY <2>3, <3>3, <3>4
  <2> QED
    BY <2>5, <2>6
<1>9. SubInv'
  <2>1. SUFFICES ASSUME NEW o \in Threads, NEW i \in Above(o), NEW q \in Reducers(i)
                 PROVE  IF Times(q, "reduce")' = k + 1 THEN sub'[o][i] = 0
                        ELSE k + 1 >= 1 /\ sub'[o][i] = AboveRow(o, NthIterate((k + 1) - 1).p, i)
    BY <1>1, <1>7, SystemStays DEF SubInv, NthIterate
  <2>2. i \in Rows /\ o \in Adders(i)
    BY <1>2 DEF Above, Adders
  <2>3. CASE q = t
    <3>1. o \in cpus(i)
      BY <1>4, <2>2, <2>3
    <3>2. sub'[o][i] = 0 /\ Times(q, "reduce")' = k + 1
      BY <1>3, <1>7, <2>2, <2>3, <3>1
    <3> QED
      BY <3>2
  <2>4. CASE q # t
    <3>1. t \notin Reducers(i)
      BY <1>1, <2>4, ReducersAre
    <3>2. sub'[o][i] = sub[o][i]
      BY <1>3, <1>4, <2>2, <3>1
    <3>3. Times(q, "reduce")' = Times(q, "reduce")
      BY <1>7, <2>4
    <3>4. IF Times(q, "reduce") = k + 1 THEN sub[o][i] = 0
          ELSE k + 1 >= 1 /\ sub[o][i] = AboveRow(o, NthIterate((k + 1) - 1).p, i)
      BY <1>1, <1>2, <1>7 DEF Clauses, SubInv
    <3> QED
      BY <3>2, <3>3, <3>4
  <2> QED
    BY <2>3, <2>4
<1>10. PartInv' /\ DotInv' /\ AlphaInv' /\ NewDotInv' /\ BetaInv'
  <2>1. \A names : "reduce" \notin names => KeptTimes(names)
    BY <1>1, Kept
  <2>2. /\ KeptTimes({"update", "direct"}) /\ KeptTimes({"dots", "alpha"})
        /\ KeptTimes({"alpha"}) /\ KeptTimes({"newdots", "beta"}) /\ KeptTimes({"beta"})
    BY <2>1
  <2> QED
    BY <1>1, <1>3, <2>2, KeepPart, KeepDot, KeepAlpha, KeepNewDot, KeepBeta DEF Clauses
<1> QED
  BY <1>6, <1>8, <1>9, <1>10 DEF Clauses

\* Before they are used again the vectors are those of iteration k, and temp the product.
LEMMA VectorsOf ==
  ASSUME NEW t \in Threads, NEW name, NEW k, Leaves(t, name, k)
  PROVE  /\ Order[name] < 8 => p = NthIterate(k).p
         /\ Order[name] < 5 => r = NthIterate(k).r
         /\ Order[name] > 5 => r = NthIterate(k + 1).r
         /\ Order[name] > 2 => temp = Product(sys, NthIterate(k).p)
<1>1. /\ sys \in Systems /\ k \in Nat /\ ValueInv /\ Clauses /\ name \in Names
      /\ NthIterate(k).p \in [Rows -> Values] /\ NthIterate(k).r \in [Rows -> Values]
      /\ NthIterate(k + 1).r \in [Rows -> Values] /\ Product(sys, NthIterate(k).p) \in [Rows -> Values]
  BY PointIs DEF Leaves
<1>2. \A u \in Threads, n \in Names :
        /\ Order[n] < Order[name] => Times(u, n) = k + 1
        /\ Order[n] > Order[name] => Times(u, n) = k
  BY DEF Leaves
<1>3. /\ Order["direct"] = 8 /\ Order["update"] = 5 /\ Order["mult"] = 1 /\ Order["reduce"] = 2
      /\ \A n \in Names : Order[n] \in 1..8
  BY DEF Order, Names
<1>4. ASSUME Order[name] < 8 PROVE p = NthIterate(k).p
  <2>1. \A u \in Threads : Times(u, "direct") = k
    BY <1>2, <1>3, <1>4, NamesAre
  <2>2. \A u \in Threads : \A i \in Part(u) : p[i] = NthIterate(k).p[i]
    BY <1>1, <2>1 DEF Clauses, PartInv
  <2> QED
    BY <1>1, <2>2, PartsAgree DEF ValueInv
<1>5. ASSUME Order[name] < 5 PROVE r = NthIterate(k).r
  <2>1. \A u \in Threads : Times(u, "update") = k
    BY <1>2, <1>3, <1>5, NamesAre
  <2>2. \A u \in Threads : \A i \in Part(u) : r[i] = NthIterate(k).r[i]
    BY <1>1, <2>1 DEF Clauses, PartInv
  <2> QED
    BY <1>1, <2>2, PartsAgree DEF ValueInv
<1>6. ASSUME Order[name] > 5 PROVE r = NthIterate(k + 1).r
  <2>1. \A u \in Threads : Times(u, "update") = k + 1
    BY <1>2, <1>3, <1>6, NamesAre
  <2>2. \A u \in Threads : \A i \in Part(u) : r[i] = NthIterate(k + 1).r[i]
    BY <1>1, <2>1 DEF Clauses, PartInv
  <2> QED
    BY <1>1, <2>2, PartsAgree DEF ValueInv
<1>7. ASSUME Order[name] > 2 PROVE temp = Product(sys, NthIterate(k).p)
  <2>1. \A u \in Threads : Times(u, "mult") = k + 1 /\ (sys.sym => Times(u, "reduce") = k + 1)
    BY <1>1, <1>2, <1>3, <1>7, NamesAre
  <2>2. ASSUME NEW i \in Rows PROVE temp[i] = Product(sys, NthIterate(k).p)[i]
    <3>1. PICK o \in Threads : i \in Own(o)
      BY <1>1, OwnSplit DEF Splits
    <3>2. \A q \in Reducers(i) : Times(q, "reduce") = k + 1
      BY <2>1 DEF Reducers
    <3>3. k + 1 >= 1 /\ (k + 1) - 1 = k
      BY <1>1
    <3> QED
      BY <1>1, <2>1, <3>1, <3>2, <3>3 DEF Clauses, TempInv
  <2>3. temp \in [Rows -> Values]
    BY <1>1 DEF ValueInv
  <2> QED
    BY <1>1, <2>2, <2>3
<1> QED
  BY <1>4, <1>5, <1>6, <1>7

\* The partial products.
LEMMA DotsData ==
  ASSUME NEW t \in Threads, NEW k, Dots(t), Leaves(t, "dots", k)
  PROVE  ValueInv' /\ Clauses'
<1> DEFINE v == NthIterate(k)
<1>1. /\ sys \in Systems /\ sys' = sys /\ k \in Nat /\ OneMore(t, "dots") /\ Times(t, "dots") = k
      /\ v.r \in [Rows -> Values] /\ v.p \in [Rows -> Values]
      /\ Product(sys, v.p) \in [Rows -> Values]
      /\ ValueInv /\ Clauses /\ 0 \in Threads
  BY PointIs DEF Leaves
<1>2. /\ rr' = [rr EXCEPT ![t] = Dot(r, r, Part(t))]
      /\ tp' = [tp EXCEPT ![t] = Dot(temp, p, Part(t))]
      /\ UNCHANGED <<x, r, p, temp, sub, rr_new, ai, bi>>
  BY DEF Dots, vectors
<1>3. r = v.r /\ p = v.p /\ temp = Product(sys, v.p)
  BY VectorsOf DEF Order
<1>4. Part(t) \in SUBSET Rows
  BY <1>1, PartsSplit DEF Splits
<1> HIDE DEF v
<1>5. Dot(v.r, v.r, Part(t)) \in Values /\ Dot(Product(sys, v.p), v.p, Part(t)) \in Values
  BY <1>1, <1>4, DotIs
<1>6. ValueInv'
  <2>1. rr' \in [Threads -> Values] /\ tp' \in [Threads -> Values]
    BY <1>1, <1>2, <1>3, <1>5 DEF ValueInv
  <2> QED
    BY <1>1, <1>2, <2>1, SystemStays DEF ValueInv
<1>7. /\ \A u \in Threads : Times(u, "dots")' = IF u = t THEN k + 1 ELSE Times(u, "dots")
      /\ Times(0, "alpha")' = k /\ Times(0, "alpha") = k
  <2>1. Times(0, "alpha") = k
    BY <1>1, NamesAre DEF Leaves, Order
  <2> QED
    BY <1>1, <2>1, NamesAre DEF OneMore
<1>8. DotInv'
  <2>1. SUFFICES ASSUME NEW u \in Threads, NEW m, m = Times(u, "dots")', m >= 1,
                        NEW part, part = IF u = 0 /\ k = m THEN Rows ELSE Part(u)
                 PROVE  /\ rr'[u] = Dot(NthIterate(m - 1).r, NthIterate(m - 1).r, part)
                        /\ tp'[u] = Dot(Product(sys, NthIterate(m - 1).p), NthIterate(m - 1).p, part)
    BY <1>1, <1>7, SystemStays DEF DotInv, NthIterate
  <2>2. CASE u = t
    <3>1. m = k + 1 /\ m - 1 = k /\ part = Part(t)
      BY <1>1, <1>7, <2>1, <2>2
    <3>2. rr'[t] = Dot(v.r, v.r, Part(t)) /\ tp'[t] = Dot(Product(sys, v.p), v.p, Part(t))
      BY <1>1, <1>2, <1>3 DEF ValueInv
    <3> QED
      BY <2>2, <3>1, <3>2 DEF v
  <2>3. CASE u # t
    <3>1. m = Times(u, "dots") /\ rr'[u] = rr[u] /\ tp'[u] = tp[u]
      BY <1>1, <1>2, <1>7, <2>1, <2>3 DEF ValueInv
    <3> QED
      BY <1>1, <1>7, <2>1, <3>1 DEF Clauses, DotInv
  <2> QED
    BY <2>2, <2>3
<1>9. PartInv' /\ TempInv' /\ SubInv' /\ AlphaInv' /\ NewDotInv' /\ BetaInv'
  <2>1. \A names : "dots" \notin names => KeptTimes(names)
    BY <1>1, Kept
  <2>2. /\ KeptTimes({"update", "direct"}) /\ KeptTimes({"mult", "reduce"})
        /\ KeptTimes({"alpha"}) /\ KeptTimes({"newdots", "beta"}) /\ KeptTimes({"beta"})
    BY <2>1
  <2> QED
    BY <1>1, <1>2, <2>2, KeepPart, KeepTemp, KeepSub, KeepAlpha, KeepNewDot, KeepBeta DEF Clauses
<1> QED
  BY <1>6, <1>8, <1>9 DEF Clauses

\* Main adds them up.
LEMMA AlphaData ==
  ASSUME NEW t \in Threads, NEW k, Alpha(t), Leaves(t, "alpha", k)
  PROVE  ValueInv' /\ Clauses'
<1> DEFINE v == NthIterate(k)
<1>1. /\ sys \in Systems /\ sys' = sys /\ k \in Nat /\ OneMore(t, "alpha") /\ Times(t, "alpha") = k
      /\ v \in Iterates /\ v.r \in [Rows -> Values] /\ v.p \in [Rows -> Values]
      /\ Product(sys, v.p) \in [Rows -> Values]
      /\ ValueInv /\ Clauses /\ 0 \in Threads
  BY PointIs DEF Leaves
<1>2. /\ t = 0 => /\ rr' = [rr EXCEPT ![0] = Sum(rr)]
                  /\ tp' = [tp EXCEPT ![0] = Sum(tp)]
                  /\ ai' = Div(rr'[0], tp'[0])
      /\ t # 0 => UNCHANGED <<rr, tp, ai>>
      /\ UNCHANGED <<x, r, p, temp, sub, rr_new, bi>>
  BY DEF Alpha, vectors
<1>3. \A u \in Threads : Times(u, "dots")' = k + 1 /\ Times(u, "dots") = k + 1
  <2>1. \A u \in Threads : Times(u, "dots") = k + 1
    BY NamesAre DEF Leaves, Order
  <2> QED
    BY <1>1, <2>1, NamesAre DEF OneMore
<1>4. Times(0, "alpha")' = IF t = 0 THEN k + 1 ELSE Times(0, "alpha")
  BY <1>1, NamesAre DEF OneMore
<1>5. \A u \in Threads :
        LET part == IF u = 0 /\ Times(0, "alpha") = k + 1 THEN Rows ELSE Part(u)
        IN  rr[u] = Dot(v.r, v.r, part) /\ tp[u] = Dot(Product(sys, v.p), v.p, part)
  <2>1. k + 1 >= 1 /\ (k + 1) - 1 = k
    BY <1>1
  <2> QED
    BY <1>1, <1>3, <2>1 DEF Clauses, DotInv
<1> HIDE DEF v
<1>6. t = 0 => /\ Sum(rr) = Dot(v.r, v.r, Rows)
               /\ Sum(tp) = Dot(Product(sys, v.p), v.p, Rows)
  <2> SUFFICES ASSUME t = 0 PROVE Sum(rr) = Dot(v.r, v.r, Rows) /\ Sum(tp) = Dot(Product(sys, v.p), v.p, Rows)
    OBVIOUS
  <2>1. Times(0, "alpha") # k + 1
    BY <1>1
  <2>2. rr = [u \in Threads |-> Dot(v.r, v.r, Part(u))]
    BY <1>1, <1>5, <2>1 DEF ValueInv
  <2>3. tp = [u \in Threads |-> Dot(Product(sys, v.p), v.p, Part(u))]
    BY <1>1, <1>5, <2>1 DEF ValueInv
  <2>4. Sum([u \in Threads |-> Dot(v.r, v.r, Part(u))]) = Dot(v.r, v.r, Rows)
    BY <1>1, DotParts
  <2>5. Sum([u \in Threads |-> Dot(Product(sys, v.p), v.p, Part(u))]) = Dot(Product(sys, v.p), v.p, Rows)
    BY <1>1, DotParts
  <2> QED
    BY <2>2, <2>3, <2>4, <2>5
<1>7. t = 0 => /\ rr'[0] = Dot(v.r, v.r, Rows) /\ tp'[0] = Dot(Product(sys, v.p), v.p, Rows)
               /\ ai' = AlphaOf(sys, v)
               /\ \A u \in Threads : u # 0 => rr'[u] = rr[u] /\ tp'[u] = tp[u]
  BY <1>1, <1>2, <1>6 DEF AlphaOf, ValueInv
<1>8. ValueInv'
  <2>1. AlphaOf(sys, v) \in Values
    BY <1>1, IterateIs
  <2>2. Dot(v.r, v.r, Rows) \in Values /\ Dot(Product(sys, v.p), v.p, Rows) \in Values
    BY <1>1, DotIs
  <2>3. rr' \in [Threads -> Values] /\ tp' \in [Threads -> Values] /\ ai' \in Values
    <3>1. CASE t = 0
      BY <1>1, <1>2, <1>6, <1>7, <2>1, <2>2, <3>1 DEF ValueInv
    <3>2. CASE t # 0
      BY <1>1, <1>2, <3>2 DEF ValueInv
    <3> QED
      BY <3>1, <3>2
  <2> QED
    BY <1>1, <1>2, <2>3, SystemStays DEF ValueInv
<1>9. DotInv'
  <2>1. (k + 1) - 1 = k
    BY <1>1
  <2>2. SUFFICES ASSUME NEW u \in Threads,
                        NEW part, part = IF u = 0 /\ Times(0, "alpha")' = k + 1 THEN Rows ELSE Part(u)
                 PROVE  rr'[u] = Dot(v.r, v.r, part) /\ tp'[u] = Dot(Product(sys, v.p), v.p, part)
    BY <1>1, <1>3, <2>1, SystemStays DEF DotInv, NthIterate, v
  <2>3. CASE t = 0
    BY <1>1, <1>4, <1>5, <1>7, <2>2, <2>3
  <2>4. CASE t # 0
    BY <1>2, <1>4, <1>5, <2>2, <2>4
  <2> QED
    BY <2>3, <2>4
<1>10. AlphaInv'
  <2>1. SUFFICES ASSUME NEW m, m = Times(0, "alpha")', m >= 1
                 PROVE  ai' = AlphaOf(sys, NthIterate(m - 1))
    BY <1>1 DEF AlphaInv, NthIterate
  <2>2. CASE t = 0
    <3>1. m - 1 = k
      BY <1>1, <1>4, <2>1, <2>2
    <3> QED
      BY <1>7, <2>2, <3>1 DEF v
  <2>3. CASE t # 0
    BY <1>1, <1>2, <1>4, <2>1, <2>3 DEF Clauses, AlphaInv
  <2> QED
    BY <2>2, <2>3
<1>11. PartInv' /\ TempInv' /\ SubInv' /\ NewDotInv' /\ BetaInv'
  <2>1. \A names : "alpha" \notin names => KeptTimes(names)
    BY <1>1, Kept
  <2>2. /\ KeptTimes({"update", "direct"}) /\ KeptTimes({"mult", "reduce"})
        /\ KeptTimes({"newdots", "beta"}) /\ KeptTimes({"beta"})
    BY <2>1
  <2> QED
    BY <1>1, <1>2, <2>2, KeepPart, KeepTemp, KeepSub, KeepNewDot, KeepBeta DEF Clauses
<1> QED
  BY <1>8, <1>9, <1>10, <1>11 DEF Clauses

\* A vector operation on a part makes values.
LEMMA ScaleAddValues ==
  ASSUME NEW u \in [Rows -> Values], NEW v \in [Rows -> Values], NEW w \in [Rows -> Values],
         NEW num \in Values, NEW part
  PROVE  /\ ScaleAdd(u, v, w, num, part) \in [Rows -> Values]
         /\ \A i \in Rows : ScaleAdd(u, v, w, num, part)[i] =
              IF i \in part THEN Add(u[i], Mul(num, v[i])) ELSE w[i]
<1>1. ASSUME NEW i \in Rows PROVE Add(u[i], Mul(num, v[i])) \in Values
  <2>1. u[i] \in Values /\ v[i] \in Values
    OBVIOUS
  <2>2. Mul(num, v[i]) \in Values
    BY <2>1, MulIs
  <2> QED
    BY <2>1, <2>2, AddIs
<1> QED
  BY <1>1 DEF ScaleAdd

\* The step of x and r.
LEMMA UpdateData ==
  ASSUME NEW t \in Threads, NEW k, Update(t), Leaves(t, "update", k)
  PROVE  ValueInv' /\ Clauses'
<1> DEFINE v == NthIterate(k)
           new == NthIterate(k + 1)
<1>1. /\ sys \in Systems /\ sys' = sys /\ k \in Nat /\ OneMore(t, "update") /\ Times(t, "update") = k
      /\ v \in Iterates /\ new = Iterate(sys, v)
      /\ ValueInv /\ Clauses /\ 0 \in Threads
  BY PointIs DEF Leaves
<1>2. /\ r' = ScaleAdd(r, temp, r, Neg(ai), Part(t))
      /\ x' = ScaleAdd(x, p, x, ai, Part(t))
      /\ UNCHANGED <<p, temp, sub, rr, tp, rr_new, ai, bi>>
  BY DEF Update, scalars
<1>3. p = v.p /\ temp = Product(sys, v.p)
  BY VectorsOf DEF Order
<1>4. ai = AlphaOf(sys, v)
  <2>1. Times(0, "alpha") = k + 1
    BY NamesAre DEF Leaves, Order
  <2>2. k + 1 >= 1 /\ (k + 1) - 1 = k
    BY <1>1
  <2> QED
    BY <1>1, <2>1, <2>2 DEF Clauses, AlphaInv
<1>5. \A i \in Part(t) : i \in Rows /\ x[i] = v.x[i] /\ r[i] = v.r[i]
  BY <1>1, PartsSplit DEF Clauses, PartInv, Splits
<1> HIDE DEF v, new
<1>6. /\ r' \in [Rows -> Values] /\ x' \in [Rows -> Values]
      /\ \A i \in Rows :
           /\ r'[i] = IF i \in Part(t) THEN Add(r[i], Mul(Neg(ai), temp[i])) ELSE r[i]
           /\ x'[i] = IF i \in Part(t) THEN Add(x[i], Mul(ai, p[i])) ELSE x[i]
  <2>1. /\ r \in [Rows -> Values] /\ temp \in [Rows -> Values] /\ x \in [Rows -> Values]
        /\ p \in [Rows -> Values] /\ ai \in Values
    BY <1>1 DEF ValueInv
  <2>2. Neg(ai) \in Values
    BY <2>1, MulIs
  <2> QED
    BY <1>2, <2>1, <2>2, ScaleAddValues
<1>7. ValueInv'
  BY <1>1, <1>2, <1>6, SystemStays DEF ValueInv
<1>8. \A u \in Threads : /\ Times(u, "update")' = IF u = t THEN k + 1 ELSE Times(u, "update")
                         /\ Times(u, "direct")' = Times(u, "direct")
  BY <1>1, NamesAre DEF OneMore
<1>9. PartInv'
  <2>1. SUFFICES ASSUME NEW u \in Threads, NEW i \in Part(u)
                 PROVE  /\ x'[i] = NthIterate(Times(u, "update")').x[i]
                        /\ r'[i] = NthIterate(Times(u, "update")').r[i]
                        /\ p[i] = NthIterate(Times(u, "direct")).p[i]
    BY <1>1, <1>2, <1>8, SystemStays DEF PartInv, NthIterate
  <2>2. /\ x[i] = NthIterate(Times(u, "update")).x[i] /\ r[i] = NthIterate(Times(u, "update")).r[i]
        /\ p[i] = NthIterate(Times(u, "direct")).p[i] /\ i \in Rows
    BY <1>1, PartsSplit DEF Clauses, PartInv, Splits
  <2>3. CASE u = t
    <3>1. /\ x'[i] = Add(v.x[i], Mul(AlphaOf(sys, v), v.p[i]))
          /\ r'[i] = Add(v.r[i], Mul(Neg(AlphaOf(sys, v)), Product(sys, v.p)[i]))
      BY <1>3, <1>4, <1>5, <1>6, <2>3
    <3>2. x'[i] = new.x[i] /\ r'[i] = new.r[i]
      BY <1>1, <2>2, <3>1, IterateIs
    <3>3. NthIterate(Times(u, "update")') = new
      BY <1>8, <2>3 DEF new
    <3> QED
      BY <2>2, <3>2, <3>3
  <2>4. CASE u # t
    <3>1. i \notin Part(t)
      BY <1>1, <2>4, PartsDisjoint
    <3>2. x'[i] = x[i] /\ r'[i] = r[i] /\ Times(u, "update")' = Times(u, "update")
      BY <1>6, <1>8, <2>2, <2>4, <3>1
    <3> QED
      BY <2>2, <3>2
  <2> QED
    BY <2>3, <2>4
<1>10. TempInv' /\ SubInv' /\ DotInv' /\ AlphaInv' /\ NewDotInv' /\ BetaInv'
  <2>1. \A names : "update" \notin names => KeptTimes(names)
    BY <1>1, Kept
  <2>2. /\ KeptTimes({"mult", "reduce"}) /\ KeptTimes({"dots", "alpha"}) /\ KeptTimes({"alpha"})
        /\ KeptTimes({"newdots", "beta"}) /\ KeptTimes({"beta"})
    BY <2>1
  <2> QED
    BY <1>1, <1>2, <2>2, KeepTemp, KeepSub, KeepDot, KeepAlpha, KeepNewDot, KeepBeta DEF Clauses
<1> QED
  BY <1>7, <1>9, <1>10 DEF Clauses

\* The partial products of the new residual.
LEMMA NewDotsData ==
  ASSUME NEW t \in Threads, NEW k, NewDots(t), Leaves(t, "newdots", k)
  PROVE  ValueInv' /\ Clauses'
<1> DEFINE v == NthIterate(k + 1)
<1>1. /\ sys \in Systems /\ sys' = sys /\ k \in Nat /\ OneMore(t, "newdots") /\ Times(t, "newdots") = k
      /\ v.r \in [Rows -> Values]
      /\ ValueInv /\ Clauses /\ 0 \in Threads
  BY PointIs DEF Leaves
<1>2. /\ rr_new' = [rr_new EXCEPT ![t] = Dot(r, r, Part(t))]
      /\ UNCHANGED <<x, r, p, temp, sub, rr, tp, ai, bi>>
  BY DEF NewDots, vectors
<1>3. r = v.r
  BY VectorsOf DEF Order
<1>4. Part(t) \in SUBSET Rows
  BY <1>1, PartsSplit DEF Splits
<1> HIDE DEF v
<1>5. Dot(v.r, v.r, Part(t)) \in Values
  BY <1>1, <1>4, DotIs
<1>6. ValueInv'
  <2>1. rr_new' \in [Threads -> Values]
    BY <1>1, <1>2, <1>3, <1>5 DEF ValueInv
  <2> QED
    BY <1>1, <1>2, <2>1, SystemStays DEF ValueInv
<1>7. /\ \A u \in Threads : Times(u, "newdots")' = IF u = t THEN k + 1 ELSE Times(u, "newdots")
      /\ Times(0, "beta")' = k /\ Times(0, "beta") = k
  <2>1. Times(0, "beta") = k
    BY <1>1, NamesAre DEF Leaves, Order
  <2> QED
    BY <1>1, <2>1, NamesAre DEF OneMore
<1>8. NewDotInv'
  <2>1. SUFFICES ASSUME NEW u \in Threads, NEW m, m = Times(u, "newdots")', m >= 1,
                        NEW part, part = IF u = 0 /\ k = m THEN Rows ELSE Part(u)
                 PROVE  rr_new'[u] = Dot(NthIterate(m).r, NthIterate(m).r, part)
    BY <1>1, <1>7, SystemStays DEF NewDotInv, NthIterate
  <2>2. CASE u = t
    <3>1. m = k + 1 /\ part = Part(t)
      BY <1>1, <1>7, <2>1, <2>2
    <3>2. rr_new'[t] = Dot(v.r, v.r, Part(t))
      BY <1>1, <1>2, <1>3 DEF ValueInv
    <3> QED
      BY <2>2, <3>1, <3>2 DEF v
  <2>3. CASE u # t
    <3>1. m = Times(u, "newdots") /\ rr_new'[u] = rr_new[u]
      BY <1>1, <1>2, <1>7, <2>1, <2>3 DEF ValueInv
    <3> QED
      BY <1>1, <1>7, <2>1, <3>1 DEF Clauses, NewDotInv
  <2> QED
    BY <2>2, <2>3
<1>9. PartInv' /\ TempInv' /\ SubInv' /\ DotInv' /\ AlphaInv' /\ BetaInv'
  <2>1. \A names : "newdots" \notin names => KeptTimes(names)
    BY <1>1, Kept
  <2>2. /\ KeptTimes({"update", "direct"}) /\ KeptTimes({"mult", "reduce"})
        /\ KeptTimes({"dots", "alpha"}) /\ KeptTimes({"alpha"}) /\ KeptTimes({"beta"})
    BY <2>1
  <2> QED
    BY <1>1, <1>2, <2>2, KeepPart, KeepTemp, KeepSub, KeepDot, KeepAlpha, KeepBeta DEF Clauses
<1> QED
  BY <1>6, <1>8, <1>9 DEF Clauses

\* Main adds them up, too.
LEMMA BetaData ==
  ASSUME NEW t \in Threads, NEW k, Beta(t), Leaves(t, "beta", k)
  PROVE  ValueInv' /\ Clauses'
<1> DEFINE v == NthIterate(k)
           new == NthIterate(k + 1)
<1>1. /\ sys \in Systems /\ sys' = sys /\ k \in Nat /\ OneMore(t, "beta") /\ Times(t, "beta") = k
      /\ v \in Iterates /\ v.r \in [Rows -> Values] /\ new.r \in [Rows -> Values]
      /\ new = Iterate(sys, v)
      /\ ValueInv /\ Clauses /\ 0 \in Threads
  BY PointIs DEF Leaves
<1>2. /\ t = 0 => /\ rr_new' = [rr_new EXCEPT ![0] = Sum(rr_new)]
                  /\ bi' = Div(rr_new'[0], rr[0])
      /\ t # 0 => UNCHANGED <<rr_new, bi>>
      /\ UNCHANGED <<x, r, p, temp, sub, rr, tp, ai>>
  BY DEF Beta, vectors
<1>3. \A u \in Threads : Times(u, "newdots")' = k + 1 /\ Times(u, "newdots") = k + 1
  <2>1. \A u \in Threads : Times(u, "newdots") = k + 1
    BY NamesAre DEF Leaves, Order
  <2> QED
    BY <1>1, <2>1, NamesAre DEF OneMore
<1>4. Times(0, "beta")' = IF t = 0 THEN k + 1 ELSE Times(0, "beta")
  BY <1>1, NamesAre DEF OneMore
<1>5. \A u \in Threads :
        LET part == IF u = 0 /\ Times(0, "beta") = k + 1 THEN Rows ELSE Part(u)
        IN  rr_new[u] = Dot(new.r, new.r, part)
  <2>1. k + 1 >= 1
    BY <1>1
  <2> QED
    BY <1>1, <1>3, <2>1 DEF Clauses, NewDotInv
<1>6. rr[0] = Dot(v.r, v.r, Rows)
  <2>1. Times(0, "dots") = k + 1 /\ Times(0, "alpha") = k + 1
    BY <1>1, NamesAre DEF Leaves, Order
  <2>2. k + 1 >= 1 /\ (k + 1) - 1 = k
    BY <1>1
  <2> QED
    BY <1>1, <2>1, <2>2 DEF Clauses, DotInv
<1> HIDE DEF v, new
<1>7. t = 0 => Sum(rr_new) = Dot(new.r, new.r, Rows)
  <2> SUFFICES ASSUME t = 0 PROVE Sum(rr_new) = Dot(new.r, new.r, Rows)
    OBVIOUS
  <2>1. Times(0, "beta") # k + 1
    BY <1>1
  <2>2. rr_new = [u \in Threads |-> Dot(new.r, new.r, Part(u))]
    BY <1>1, <1>5, <2>1 DEF ValueInv
  <2>3. Sum([u \in Threads |-> Dot(new.r, new.r, Part(u))]) = Dot(new.r, new.r, Rows)
    BY <1>1, DotParts
  <2> QED
    BY <2>2, <2>3
<1>8. t = 0 => /\ rr_new'[0] = Dot(new.r, new.r, Rows) /\ bi' = BetaOf(sys, v)
               /\ \A u \in Threads : u # 0 => rr_new'[u] = rr_new[u]
  <2>1. new.r = NextR(sys, v)
    BY <1>1, IterateIs
  <2> QED
    BY <1>1, <1>2, <1>6, <1>7, <2>1 DEF BetaOf, ValueInv
<1>9. ValueInv'
  <2>1. BetaOf(sys, v) \in Values
    BY <1>1, IterateIs
  <2>2. Dot(new.r, new.r, Rows) \in Values
    BY <1>1, DotIs
  <2>3. rr_new' \in [Threads -> Values] /\ bi' \in Values
    <3>1. CASE t = 0
      BY <1>1, <1>2, <1>7, <1>8, <2>1, <2>2, <3>1 DEF ValueInv
    <3>2. CASE t # 0
      BY <1>1, <1>2, <3>2 DEF ValueInv
    <3> QED
      BY <3>1, <3>2
  <2> QED
    BY <1>1, <1>2, <2>3, SystemStays DEF ValueInv
<1>10. NewDotInv'
  <2>1. SUFFICES ASSUME NEW u \in Threads,
                        NEW part, part = IF u = 0 /\ Times(0, "beta")' = k + 1 THEN Rows ELSE Part(u)
                 PROVE  rr_new'[u] = Dot(new.r, new.r, part)
    BY <1>1, <1>3, SystemStays DEF NewDotInv, NthIterate, new
  <2>2. CASE t = 0
    BY <1>1, <1>4, <1>5, <1>8, <2>1, <2>2
  <2>3. CASE t # 0
    BY <1>2, <1>4, <1>5, <2>1, <2>3
  <2> QED
    BY <2>2, <2>3
<1>11. BetaInv'
  <2>1. SUFFICES ASSUME NEW m, m = Times(0, "beta")', m >= 1
                 PROVE  bi' = BetaOf(sys, NthIterate(m - 1))
    BY <1>1 DEF BetaInv, NthIterate
  <2>2. CASE t = 0
    <3>1. m - 1 = k
      BY <1>1, <1>4, <2>1, <2>2
    <3> QED
      BY <1>8, <2>2, <3>1 DEF v
  <2>3. CASE t # 0
    BY <1>1, <1>2, <1>4, <2>1, <2>3 DEF Clauses, BetaInv
  <2> QED
    BY <2>2, <2>3
<1>12. PartInv' /\ TempInv' /\ SubInv' /\ DotInv' /\ AlphaInv'
  <2>1. \A names : "beta" \notin names => KeptTimes(names)
    BY <1>1, Kept
  <2>2. /\ KeptTimes({"update", "direct"}) /\ KeptTimes({"mult", "reduce"})
        /\ KeptTimes({"dots", "alpha"}) /\ KeptTimes({"alpha"})
    BY <2>1
  <2> QED
    BY <1>1, <1>2, <2>2, KeepPart, KeepTemp, KeepSub, KeepDot, KeepAlpha DEF Clauses
<1> QED
  BY <1>9, <1>10, <1>11, <1>12 DEF Clauses

\* The new direction.
LEMMA DirectData ==
  ASSUME NEW t \in Threads, NEW k, Direct(t), Leaves(t, "direct", k)
  PROVE  ValueInv' /\ Clauses'
<1> DEFINE v == NthIterate(k)
           new == NthIterate(k + 1)
<1>1. /\ sys \in Systems /\ sys' = sys /\ k \in Nat /\ OneMore(t, "direct") /\ Times(t, "direct") = k
      /\ v \in Iterates /\ new = Iterate(sys, v)
      /\ ValueInv /\ Clauses /\ 0 \in Threads
  BY PointIs DEF Leaves
<1>2. /\ p' = ScaleAdd(r, p, p, bi, Part(t))
      /\ UNCHANGED <<x, r, temp, sub, rr, tp, rr_new, ai, bi>>
  BY DEF Direct, scalars
<1>3. r = new.r
  BY VectorsOf DEF Order
<1>4. bi = BetaOf(sys, v)
  <2>1. Times(0, "beta") = k + 1
    BY NamesAre DEF Leaves, Order
  <2>2. k + 1 >= 1 /\ (k + 1) - 1 = k
    BY <1>1
  <2> QED
    BY <1>1, <2>1, <2>2 DEF Clauses, BetaInv
<1>5. \A i \in Part(t) : i \in Rows /\ p[i] = v.p[i]
  BY <1>1, PartsSplit DEF Clauses, PartInv, Splits
<1> HIDE DEF v, new
<1>6. /\ p' \in [Rows -> Values]
      /\ \A i \in Rows : p'[i] = IF i \in Part(t) THEN Add(r[i], Mul(bi, p[i])) ELSE p[i]
  <2>1. r \in [Rows -> Values] /\ p \in [Rows -> Values] /\ bi \in Values
    BY <1>1 DEF ValueInv
  <2> QED
    BY <1>2, <2>1, ScaleAddValues
<1>7. ValueInv'
  BY <1>1, <1>2, <1>6, SystemStays DEF ValueInv
<1>8. \A u \in Threads : /\ Times(u, "direct")' = IF u = t THEN k + 1 ELSE Times(u, "direct")
                         /\ Times(u, "update")' = Times(u, "update")
  BY <1>1, NamesAre DEF OneMore
<1>9. PartInv'
  <2>1. SUFFICES ASSUME NEW u \in Threads, NEW i \in Part(u)
                 PROVE  /\ x[i] = NthIterate(Times(u, "update")).x[i]
                        /\ r[i] = NthIterate(Times(u, "update")).r[i]
                        /\ p'[i] = NthIterate(Times(u, "direct")').p[i]
    BY <1>1, <1>2, <1>8, SystemStays DEF PartInv, NthIterate
  <2>2. /\ x[i] = NthIterate(Times(u, "update")).x[i] /\ r[i] = NthIterate(Times(u, "update")).r[i]
        /\ p[i] = NthIterate(Times(u, "direct")).p[i] /\ i \in Rows
    BY <1>1, PartsSplit DEF Clauses, PartInv, Splits
  <2>3. CASE u = t
    <3>1. p'[i] = Add(new.r[i], Mul(BetaOf(sys, v), v.p[i]))
      BY <1>3, <1>4, <1>5, <1>6, <2>3
    <3>2. p'[i] = new.p[i]
      BY <1>1, <2>2, <3>1, IterateIs
    <3>3. NthIterate(Times(u, "direct")') = new
      BY <1>8, <2>3 DEF new
    <3> QED
      BY <2>2, <3>2, <3>3
  <2>4. CASE u # t
    <3>1. i \notin Part(t)
      BY <1>1, <2>4, PartsDisjoint
    <3>2. p'[i] = p[i] /\ Times(u, "direct")' = Times(u, "direct")
      BY <1>6, <1>8, <2>2, <2>4, <3>1
    <3> QED
      BY <2>2, <3>2
  <2> QED
    BY <2>3, <2>4
<1>10. TempInv' /\ SubInv' /\ DotInv' /\ AlphaInv' /\ NewDotInv' /\ BetaInv'
  <2>1. \A names : "direct" \notin names => KeptTimes(names)
    BY <1>1, Kept
  <2>2. /\ KeptTimes({"mult", "reduce"}) /\ KeptTimes({"dots", "alpha"}) /\ KeptTimes({"alpha"})
        /\ KeptTimes({"newdots", "beta"}) /\ KeptTimes({"beta"})
    BY <2>1
  <2> QED
    BY <1>1, <1>2, <2>2, KeepTemp, KeepSub, KeepDot, KeepAlpha, KeepNewDot, KeepBeta DEF Clauses
<1> QED
  BY <1>7, <1>9, <1>10 DEF Clauses

-----------------------------------------------------------------------------
(***************************************************************************)
(* The other steps.                                                        *)
(***************************************************************************)
\* The threads' steps between phases leave the data alone.
LEMMA QuietData ==
  ASSUME sys \in Systems, sys' = sys, SameTimes, UNCHANGED <<vectors, scalars>>
  PROVE  /\ ValueInv => ValueInv'
         /\ PartInv /\ SubInv /\ DotInv /\ AlphaInv /\ NewDotInv /\ BetaInv =>
              PartInv' /\ SubInv' /\ DotInv' /\ AlphaInv' /\ NewDotInv' /\ BetaInv'
         /\ TempInv => TempInv'
<1>1. \A names : KeptTimes(names)
  BY DEF SameTimes, KeptTimes
<1>2. UNCHANGED <<x, r, p, temp, sub, rr, tp, rr_new, ai, bi>>
  BY DEF vectors, scalars
<1>3. ValueInv => ValueInv'
  BY <1>2, SystemStays DEF ValueInv
<1>4. TempInv => TempInv'
  BY <1>1, <1>2, KeepTemp
<1>5. PartInv /\ SubInv /\ DotInv /\ AlphaInv /\ NewDotInv /\ BetaInv =>
        PartInv' /\ SubInv' /\ DotInv' /\ AlphaInv' /\ NewDotInv' /\ BetaInv'
  BY <1>1, <1>2, KeepPart, KeepSub, KeepDot, KeepAlpha, KeepNewDot, KeepBeta
<1> QED
  BY <1>3, <1>4, <1>5

\* The negative of a number.
LEMMA NegIs ==
  ASSUME NEW u \in Numbers
  PROVE  Neg(u) = Mul(Neg(1), u)
<1>1. Prime \in Nat /\ Prime > 2 /\ u \in Nat /\ u < Prime /\ u # NaN
  BY PrimeAssumption DEF Numbers, NaN
<1>2. Neg(1) = Prime - 1 /\ Neg(u) = IF u = 0 THEN 0 ELSE Prime - u
  <2>1. (Prime - 1) % Prime = Prime - 1
    BY <1>1
  <2>2. (Prime - u) % Prime = IF u = 0 THEN 0 ELSE Prime - u
    BY <1>1
  <2>3. 1 # NaN
    BY DEF NaN
  <2> QED
    BY <1>1, <2>1, <2>2, <2>3 DEF Neg
<1>3. Prime - 1 # NaN
  BY <1>1 DEF NaN
<1>4. Mul(Neg(1), u) = ((Prime - 1) * u) % Prime
  BY <1>1, <1>2, <1>3 DEF Mul
<1>5. CASE u = 0
  <2>1. (Prime - 1) * u = 0 /\ 0 % Prime = 0
    BY <1>1, <1>5
  <2> QED
    BY <1>2, <1>4, <1>5, <2>1
<1>6. CASE u # 0
  <2>1. (Prime - 1) * u = Prime * (u - 1) + (Prime - u)
    BY <1>1
  <2>2. ((Prime - 1) * u) % Prime = Prime - u
    BY <1>1, <1>6, <2>1
  <2> QED
    BY <1>2, <1>4, <1>6, <2>2
<1> QED
  BY <1>5, <1>6

\* main's preparation.
LEMMA PrepareData ==
  ASSUME IInv, DataInv, Prepare
  PROVE  /\ ValueInv' /\ created' = {0} /\ 0 \in Threads /\ done' = done /\ UNCHANGED <<sys, stage, phase, iter>>
         /\ Clauses'
<1>1. /\ sys \in Systems /\ sys' = sys /\ created = {} /\ created' = {0} /\ done' = done
      /\ UNCHANGED <<sys, scalars, stage, phase, iter, done, barrier>>
  BY DEF Prepare, IInv, TypeInv
<1>2. \A t \in Threads : phase[t] = 1 /\ iter[t] = 0
  BY <1>1 DEF DataInv, CountInv
<1>3. 0 \in Threads
  BY <1>1, ThreadsAreRows
<1>4. \A u \in Threads, n \in Names : Times(u, n)' = 0
  <2> SUFFICES ASSUME NEW u \in Threads, NEW n \in Names PROVE Times(u, n)' = 0
    OBVIOUS
  <2>1. phase'[u] = 1 /\ iter'[u] = 0 /\ LastPhase \in Nat
    BY <1>1, <1>2 DEF LastPhase
  <2>2. Times(u, n)' = iter'[u] + (IF Number(n) < phase'[u] THEN 1 ELSE 0)
    BY <1>1, <2>1, TimesAfter
  <2>3. Number(n) \in 1..LastPhase
    BY NumberIs
  <2> QED
    BY <2>1, <2>2, <2>3
<1> DEFINE x0 == [i \in Rows |-> sys.x0]
           product == Product(sys, x0)
           rhs == Product(sys, sys.sol)
           first == First(sys)
<1>5. sys.sol \in [Rows -> Numbers] /\ x0 \in [Rows -> Numbers]
  BY <1>1, SystemIs
<1>6. SerialProduct(x0) = product /\ SerialProduct(sys.sol) = rhs
  BY <1>1, <1>5, SerialProductIs
<1>7. /\ x' = x0 /\ temp' = product /\ r' = [i \in Rows |-> Add(rhs[i], Neg(product[i]))] /\ p' = r'
      /\ sub' = IF sys.sym THEN [t \in Threads |-> IF t = 0 THEN sub[0] ELSE Zeros] ELSE sub
  BY <1>6 DEF Prepare
<1>8. product \in [Rows -> Numbers] /\ rhs \in [Rows -> Numbers]
  <2>1. \A v \in [Rows -> Numbers] : Product(sys, v) \in [Rows -> Numbers]
    <3> SUFFICES ASSUME NEW v \in [Rows -> Numbers] PROVE Product(sys, v) \in [Rows -> Numbers]
      OBVIOUS
    <3>1. sys.A \in [Rows -> [Rows -> Numbers]]
      BY <1>1, SystemIs DEF Entries
    <3>2. ASSUME NEW i \in Rows PROVE Product(sys, v)[i] \in Numbers
      <4> DEFINE f == [j \in Rows |-> Mul(sys.A[i][j], v[j])]
      <4>1. \A n \in Rows : n \in DOMAIN f => f[n] \in Numbers
        <5> SUFFICES ASSUME NEW n \in Rows PROVE Mul(sys.A[i][n], v[n]) \in Numbers
          OBVIOUS
        <5>1. /\ sys.A[i][n] \in Numbers /\ v[n] \in Numbers
              /\ sys.A[i][n] \in Values /\ v[n] \in Values
          BY <3>1 DEF Values
        <5> QED
          BY <5>1, MulIs
      <4>2. Product(sys, v)[i] = Sum(f)
        BY DEF Product, Dot
      <4> HIDE DEF f
      <4> QED
        BY <4>1, <4>2, SumNumbers
    <3> QED
      BY <3>2 DEF Product
  <2> QED
    BY <1>5, <2>1
<1>9. first \in Iterates /\ NthIterate(0) = first
  BY <1>1, FirstIs, SolutionIs DEF NthIterate
<1>10. x' = first.x /\ r' = first.r /\ p' = first.p
  <2>1. /\ first.p = first.r
        /\ \A i \in Rows : /\ first.x[i] = sys.x0
                           /\ first.r[i] = Add(rhs[i], Mul(Neg(1), product[i]))
    BY <1>1, FirstIs
  <2>2. first.x \in [Rows -> Values] /\ first.r \in [Rows -> Values]
    BY <1>1, <1>9, PointIs
  <2>3. \A i \in Rows : Neg(product[i]) = Mul(Neg(1), product[i])
    <3> SUFFICES ASSUME NEW i \in Rows PROVE Neg(product[i]) = Mul(Neg(1), product[i])
      OBVIOUS
    <3>1. product[i] \in Numbers
      BY <1>8
    <3> QED
      BY <3>1, NegIs
  <2> HIDE DEF first, product, rhs
  <2>4. \A i \in Rows : x'[i] = first.x[i] /\ r'[i] = first.r[i]
    BY <1>7, <2>1, <2>3
  <2>5. DOMAIN x' = Rows /\ DOMAIN r' = Rows /\ x' = [i \in Rows |-> x'[i]] /\ r' = [i \in Rows |-> r'[i]]
    BY <1>7
  <2> QED
    BY <1>7, <2>1, <2>2, <2>4, <2>5
<1> HIDE DEF first, product, rhs, x0
<1>11. ValueInv'
  <2>1. /\ x' \in [Rows -> Values] /\ r' \in [Rows -> Values] /\ p' \in [Rows -> Values]
    BY <1>1, <1>9, <1>10, PointIs
  <2>2. temp' \in [Rows -> Values]
    BY <1>7, <1>8 DEF Values
  <2>3. Zeros \in [Rows -> Values]
    BY PrimeAssumption DEF Zeros, Values, Numbers
  <2>4. sub' \in [Threads -> [Rows -> Values]]
    BY <1>3, <1>7, <2>3 DEF DataInv, ValueInv
  <2>5. UNCHANGED <<rr, tp, rr_new, ai, bi>>
    BY <1>1 DEF scalars
  <2> QED
    BY <1>1, <2>1, <2>2, <2>4, <2>5, SystemStays DEF DataInv, ValueInv
<1>12. PartInv'
  <2>1. \A t \in Threads : Times(t, "update")' = 0 /\ Times(t, "direct")' = 0
    BY <1>4, NamesAre
  <2> QED
    BY <1>1, <1>9, <1>10, <2>1, SystemStays DEF PartInv, NthIterate
<1>13. SubInv'
  <2>1. \A t \in Threads : Times(t, "mult")' = 0 /\ (sys.sym => Times(t, "reduce")' = 0)
    BY <1>4, NamesAre
  <2>2. \A i : Reducers(i)' = Reducers(i) /\ \A t \in Reducers(i) : t \in Threads
    BY <1>1, SystemStays DEF Reducers
  <2>3. ASSUME sys.sym, NEW o \in Threads, NEW i \in Above(o) PROVE sub'[o][i] = 0
    <3>1. i \in Rows /\ i < sys.starts[o + 1]
      BY DEF Above
    <3>2. o # 0
      <4>1. sys.starts[1] = 0
        BY <1>1, ThreadsAreRows
      <4> QED
        BY <3>1, <4>1 DEF Rows
    <3> QED
      BY <1>7, <2>3, <3>1, <3>2 DEF Zeros
  <2> QED
    BY <1>1, <2>1, <2>2, <2>3, SystemStays DEF SubInv
<1>14. DotInv' /\ AlphaInv' /\ NewDotInv' /\ BetaInv' /\ TempInv'
  <2>1. \A t \in Threads : /\ Times(t, "mult")' = 0 /\ Times(t, "dots")' = 0 /\ Times(t, "alpha")' = 0
                           /\ Times(t, "newdots")' = 0 /\ Times(t, "beta")' = 0
    BY <1>4, NamesAre
  <2> QED
    BY <1>1, <1>3, <2>1, SystemStays DEF DotInv, AlphaInv, NewDotInv, BetaInv, TempInv
<1> QED
  BY <1>1, <1>3, <1>11, <1>12, <1>13, <1>14 DEF Clauses

-----------------------------------------------------------------------------
\* The initial states satisfy the invariant: nothing is said of the data yet.
LEMMA InitData == Init => DataInv
<1> SUFFICES ASSUME Init PROVE DataInv
  OBVIOUS
<1>1. NaN \in Values
  BY DEF Values
<1>2. ValueInv
  BY <1>1 DEF Init, ValueInv
<1>3. CountInv
  BY NLoopsAssumption DEF Init, CountInv
<1> QED
  BY <1>2, <1>3 DEF Init, DataInv

\* A thread's step keeps the counts.
LEMMA ThreadCounts ==
  ASSUME IInv, CountInv, NEW t \in Threads, Thread(t)
  PROVE  CountInv' /\ created' = created /\ done' = done /\ created # {} /\ ~done
<1>1. /\ t \in created /\ UNCHANGED <<sys, created, done>> /\ stage[t] # "exit"
  BY DEF Thread, LoopTest, Barrier, Mult, Reduce, Dots, Alpha, Update, NewDots, Beta, Direct,
         Work, Running
<1>2. ~done
  BY <1>1 DEF CountInv
<1>3. /\ stage \in [Threads -> {"loop", "barrier", "work", "exit"}] /\ iter \in [Threads -> Nat]
      /\ phase \in [Threads -> Nat]
  BY DEF IInv, TypeInv
<1>4. /\ stage' = [stage EXCEPT ![t] = stage'[t]] /\ iter' = [iter EXCEPT ![t] = iter'[t]]
      /\ iter'[t] <= NLoops /\ (stage'[t] \in {"barrier", "work"} => iter'[t] < NLoops)
  <2>1. /\ iter[t] \in Nat /\ iter[t] <= NLoops
        /\ stage[t] \in {"barrier", "work"} => iter[t] < NLoops
    BY <1>3 DEF CountInv
  <2>2. CASE LoopTest(t)
    BY <1>3, <2>1, <2>2 DEF LoopTest
  <2>3. CASE Barrier(t)
    <3>1. stage[t] = "barrier" /\ Pass(t)
      BY <2>3 DEF Barrier
    <3>2. CASE phase[t] > Len(Phases)
      BY <1>3, <2>1, <3>1, <3>2, NLoopsAssumption DEF Pass
    <3>3. CASE ~(phase[t] > Len(Phases))
      BY <1>3, <2>1, <3>1, <3>3 DEF Pass
    <3> QED
      BY <3>2, <3>3
  <2>4. CASE \E name : Work(t, name)
    BY <1>3, <2>1, <2>4 DEF Work
  <2> QED
    BY <2>2, <2>3, <2>4 DEF Thread, Mult, Reduce, Dots, Alpha, Update, NewDots, Beta, Direct
<1>5. Threads' = Threads
  BY <1>1, SystemStays
<1>6. \A u \in Threads : iter'[u] <= NLoops /\ (stage'[u] \in {"barrier", "work"} => iter'[u] < NLoops)
  <2> SUFFICES ASSUME NEW u \in Threads
               PROVE  iter'[u] <= NLoops /\ (stage'[u] \in {"barrier", "work"} => iter'[u] < NLoops)
    OBVIOUS
  <2>1. CASE u = t
    BY <1>4, <2>1
  <2>2. CASE u # t
    <3>1. iter'[u] = iter[u] /\ stage'[u] = stage[u]
      BY <1>3, <1>4, <2>2
    <3> QED
      BY <3>1 DEF CountInv
  <2> QED
    BY <2>1, <2>2
<1> QED
  BY <1>1, <1>2, <1>5, <1>6 DEF CountInv

\* Every step keeps the invariant.
LEMMA StepData == IInv /\ DataInv /\ [Next]_vars => DataInv'
<1> SUFFICES ASSUME IInv, DataInv, [Next]_vars PROVE DataInv'
  OBVIOUS
<1>1. sys \in Systems /\ ValueInv /\ CountInv
  BY DEF IInv, TypeInv, DataInv
<1>2. ASSUME NEW t \in Threads, Thread(t) PROVE DataInv'
  <2>1. CountInv' /\ created' = created /\ done' = done /\ created # {} /\ ~done
    BY <1>1, <1>2, ThreadCounts
  <2>2. ValueInv' /\ Clauses'
    <3>1. CASE LoopTest(t) \/ Barrier(t)
      <4>1. SameTimes /\ sys' = sys /\ UNCHANGED <<vectors, scalars>>
        BY <3>1, QuietTimes DEF LoopTest, Barrier
      <4> QED
        BY <1>1, <2>1, <4>1, QuietData DEF DataInv, Clauses
    <3>2. ASSUME NEW name, Work(t, name) PROVE Leaves(t, name, iter[t])
      BY <3>2, Leaving
    <3>3. CASE Mult(t)
      BY <3>2, <3>3, MultData DEF Mult
    <3>4. CASE Reduce(t)
      BY <3>2, <3>4, ReduceData DEF Reduce
    <3>5. CASE Dots(t)
      BY <3>2, <3>5, DotsData DEF Dots
    <3>6. CASE Alpha(t)
      BY <3>2, <3>6, AlphaData DEF Alpha
    <3>7. CASE Update(t)
      BY <3>2, <3>7, UpdateData DEF Update
    <3>8. CASE NewDots(t)
      BY <3>2, <3>8, NewDotsData DEF NewDots
    <3>9. CASE Beta(t)
      BY <3>2, <3>9, BetaData DEF Beta
    <3>10. CASE Direct(t)
      BY <3>2, <3>10, DirectData DEF Direct
    <3> QED
      BY <1>2, <3>1, <3>3, <3>4, <3>5, <3>6, <3>7, <3>8, <3>9, <3>10 DEF Thread
  <2> QED
    BY <2>1, <2>2 DEF DataInv, Clauses
<1>3. CASE Prepare
  <2>1. /\ ValueInv' /\ Clauses' /\ created' = {0} /\ 0 \in Threads /\ done' = done
        /\ UNCHANGED <<sys, stage, phase, iter>>
    BY <1>3, PrepareData
  <2>2. CountInv'
    BY <1>1, <2>1, SystemStays DEF CountInv
  <2> QED
    BY <2>1, <2>2 DEF DataInv, Clauses
<1>4. CASE UNCHANGED <<sys, vectors, scalars, stage, phase, iter, done>> /\
           (created' = created \/ (created # {} /\ \E t \in Threads : created' = created \cup {t}))
  <2>1. SameTimes
    BY <1>4 DEF SameTimes, Times, Phases
  <2>2. CountInv'
    BY <1>1, <1>4, SystemStays DEF CountInv
  <2>3. created' # {} => created # {}
    BY <1>4
  <2> QED
    BY <1>1, <1>4, <2>1, <2>2, <2>3, QuietData DEF DataInv
<1>5. CASE MeasureDistance
  <2>1. /\ UNCHANGED <<sys, x, r, p, sub, rr, tp, rr_new, ai, bi, created, stage, phase, iter>>
        /\ done' = TRUE /\ \A t \in Threads : stage[t] = "exit"
        /\ temp' = [i \in Rows |-> Add(sys.sol[i], Neg(x[i]))]
    BY <1>5 DEF MeasureDistance, scalars
  <2>2. SameTimes
    BY <2>1 DEF SameTimes, Times, Phases
  <2>3. CountInv'
    BY <1>1, <2>1, SystemStays DEF CountInv
  <2>4. \A i \in Rows : Add(sys.sol[i], Neg(x[i])) \in Values
    <3> SUFFICES ASSUME NEW i \in Rows PROVE Add(sys.sol[i], Neg(x[i])) \in Values
      OBVIOUS
    <3>1. sys.sol[i] \in Values /\ x[i] \in Values
      BY <1>1, SystemIs DEF ValueInv, Values
    <3>2. Neg(x[i]) \in Values
      BY <3>1, MulIs
    <3> QED
      BY <3>1, <3>2, AddIs
  <2>5. ValueInv'
    BY <1>1, <2>1, <2>4, SystemStays DEF ValueInv
  <2>6. \A names : KeptTimes(names)
    BY <2>2 DEF SameTimes, KeptTimes
  <2>7. created # {} => PartInv' /\ SubInv' /\ DotInv' /\ AlphaInv' /\ NewDotInv' /\ BetaInv'
    BY <1>1, <2>1, <2>6, KeepPart, KeepSub, KeepDot, KeepAlpha, KeepNewDot, KeepBeta DEF DataInv
  <2> QED
    BY <2>1, <2>3, <2>5, <2>7 DEF DataInv
<1>6. CASE \E t \in Threads : CreateSide(t)
  BY <1>4, <1>6 DEF CreateSide
<1>7. CASE UNCHANGED vars
  BY <1>4, <1>7 DEF vars, control
<1> QED
  BY <1>2, <1>3, <1>5, <1>6, <1>7 DEF Next, Main, Finished

\* In every reachable state each vector, partial sum and scalar of the solver is the
\* sequential method's after as many steps as the thread that computes it has made.
THEOREM DataInvariant == Spec => []DataInv
BY InductiveInvariant, InitData, StepData, PTL DEF Spec

\* The parallel solver computes what the sequential method does, whatever the system,
\* its parts, the number of threads and the iterations (cg.cc, CgMainThread and
\* CgSideThread).
THEOREM SequentialMethodFollowed == Spec => []FollowsSequentialMethod
<1>1. DataInv => FollowsSequentialMethod
  <2> SUFFICES ASSUME DataInv, NEW t \in created, NEW i \in Part(t)
               PROVE  /\ x[i] = Solutions[sys][Times(t, "update")].x[i]
                      /\ r[i] = Solutions[sys][Times(t, "update")].r[i]
                      /\ p[i] = Solutions[sys][Times(t, "direct")].p[i]
    BY DEF FollowsSequentialMethod
  <2> QED
    BY DEF DataInv, CountInv, PartInv, NthIterate
<1> QED
  BY <1>1, DataInvariant, PTL
=============================================================================
