--------------------------------- MODULE Cg ---------------------------------
(***************************************************************************)
(* The conjugate gradient solver (cg/main.cc, cg/cg.cc): a main thread and *)
(* side threads that meet at a barrier eight times an iteration, nine with *)
(* a symmetric matrix.  Vectors are split evenly for the vector operations *)
(* and by the matrix's parts for the product.                              *)
(*                                                                         *)
(* Numbers are the integers modulo a prime, so that the recurrence can be  *)
(* compared with the sequential method exactly; rounding is left out, and  *)
(* what a division by zero leads to is NaN.                                *)
(***************************************************************************)
EXTENDS ReductionMap, PthreadBarrier

CONSTANTS
  Prime,    \* numbers are taken modulo this
  Systems,  \* the considered systems: [sym, A, starts, sol, x0]
  NLoops    \* nloops, the option -l

NaN == -1
Numbers == 0..(Prime - 1)
Values == Numbers \cup {NaN}

\* Every number but 0 has a reciprocal: what being prime comes to.
ASSUME PrimeAssumption ==
  /\ Prime \in Nat /\ Prime > 2
  /\ \A v \in 1..(Prime - 1) : \E i \in 1..(Prime - 1) : (i * v) % Prime = 1
\* A part for each thread, every row in one; A is symmetric if sym says so.
ASSUME SystemsAssumption ==
  \A s \in Systems :
    /\ s.A \in [Rows -> [Rows -> Numbers]] /\ s.sol \in [Rows -> Numbers] /\ s.x0 \in Numbers
    /\ s.starts \in Seq(Nat) /\ s.starts # <<>>
    /\ s.starts[1] = 0 /\ \A i \in DOMAIN s.starts : s.starts[i] < NRows
    /\ \A i, j \in DOMAIN s.starts : i < j => s.starts[i] < s.starts[j]
    /\ s.sym => \A i, j \in Rows : s.A[i][j] = s.A[j][i]
ASSUME NLoopsAssumption == NLoops \in Nat

VARIABLES
  sys,                \* the system that is solved
  b, x, r, p, temp,   \* vectors; temp is `t' in main
  sub,                \* sub_vectors[i] for i > 0; sub_vectors[0] is temp
  rr, tp, rr_new,     \* partial sums of each thread
  ai, bi,             \* the scalars of an iteration
  created,            \* threads that run (0 is the main thread)
  stage,              \* of each thread: at the loop's test, at a barrier, in a phase, out
  phase,              \* of each thread: the phase it is in or waits for
  iter,               \* loop counter of each thread
  done                \* the side threads are joined and the distance is known

vectors == <<b, x, r, p, temp, sub>>
scalars == <<rr, tp, rr_new, ai, bi>>
control == <<created, stage, phase, iter, done>>
barrier == <<round, blocked>>
vars == <<sys, vectors, scalars, control, barrier>>

-----------------------------------------------------------------------------
Add(u, v) == IF NaN \in {u, v} THEN NaN ELSE (u + v) % Prime
Mul(u, v) == IF NaN \in {u, v} THEN NaN ELSE (u * v) % Prime
Neg(u) == IF u = NaN THEN NaN ELSE (Prime - u) % Prime
Reciprocal == [v \in 1..(Prime - 1) |-> CHOOSE i \in 1..(Prime - 1) : (i * v) % Prime = 1]
Div(u, v) == IF NaN \in {u, v} \/ v = 0 THEN NaN ELSE Mul(u, Reciprocal[v])

\* The sum of the values of f, a function on some of the rows or threads: there are
\* no more threads than rows.  Sums(f)[n] adds up those before n.
Sums(f) ==
  LET sum[n \in 0..NRows] ==
        IF n = 0 THEN 0
        ELSE IF n - 1 \in DOMAIN f THEN Add(sum[n - 1], f[n - 1]) ELSE sum[n - 1]
  IN  sum
Sum(f) == Sums(f)[NRows]
Dot(u, v, part) == Sum([i \in part |-> Mul(u[i], v[i])])
\* vec_scale_add_part(u, v, w, num, part): what becomes of w
ScaleAdd(u, v, w, num, part) ==
  [i \in Rows |-> IF i \in part THEN Add(u[i], Mul(num, v[i])) ELSE w[i]]

N == Len(sys.starts)
Threads == 0..(N - 1)
\* The rows of thread t's part of the matrix, and its part of the vectors.
Own(t) == sys.starts[t + 1]..(IF t = N - 1 THEN NRows ELSE sys.starts[t + 2]) - 1
Part(t) == ((t * NRows) \div N)..((((t + 1) * NRows) \div N) - 1)

(***************************************************************************)
(* The kernels.  The normal one computes its rows of the product.  The     *)
(* symmetric one has the lower triangle of its rows: an element left of    *)
(* the thread's first row adds to a private vector too, any other to the   *)
(* thread's own rows.                                                      *)
(***************************************************************************)
OwnRow(t, v, i) ==
  IF sys.sym
    THEN Sum([j \in {j \in Rows : j <= i \/ j \in Own(t)} |->
                Mul(IF j <= i THEN sys.A[i][j] ELSE sys.A[j][i], v[j])])
    ELSE Dot(sys.A[i], v, Rows)
Above(t) ==
  {j \in Rows : j < sys.starts[t + 1] /\ \E i \in Own(t) : sys.A[i][j] # 0}
AboveRow(t, v, j) == Sum([i \in Own(t) |-> Mul(sys.A[i][j], v[i])])

map == MakeMap([t \in Threads |-> Above(t)], N)

\* FindSolution, FindSymSolution and the start of InitializeCg: the kernels one
\* after the other, each into a cleared vector that is added to the result.
SerialProduct(v) ==
  [i \in Rows |->
    Sum([t \in Threads |-> IF i \in Own(t) THEN OwnRow(t, v, i)
                           ELSE IF sys.sym /\ i \in Above(t) THEN AboveRow(t, v, i) ELSE 0])]

-----------------------------------------------------------------------------
\* What the threads do between two barriers, in their order.
Phases ==
  IF sys.sym THEN <<"mult", "reduce", "dots", "alpha", "update", "newdots", "beta", "direct">>
  ELSE <<"mult", "dots", "alpha", "update", "newdots", "beta", "direct">>

Zeros == [i \in Rows |-> 0]

\* Before main has initialised them the vectors hold anything; NaN stands for it.
Init ==
  /\ sys \in Systems
  /\ b = [i \in Rows |-> NaN] /\ x = b /\ r = b /\ p = b /\ temp = b
  /\ sub = [t \in Threads |-> b]
  /\ rr = [t \in Threads |-> NaN] /\ tp = rr /\ rr_new = rr
  /\ ai = NaN /\ bi = NaN
  /\ created = {} /\ done = FALSE
  /\ stage = [t \in Threads |-> "loop"]
  /\ phase = [t \in Threads |-> 1]
  /\ iter = [t \in Threads |-> 0]
  /\ BarrierInit

(* main, up to the creation of the side threads.                           *)
Prepare ==
  /\ created = {}
  /\ LET product == SerialProduct([i \in Rows |-> sys.x0])
         rhs == SerialProduct(sys.sol)
     IN  /\ b' = rhs
         /\ x' = [i \in Rows |-> sys.x0]
         /\ temp' = product
         /\ r' = [i \in Rows |-> Add(rhs[i], Neg(product[i]))]
         /\ p' = r'
  /\ sub' = IF sys.sym THEN [t \in Threads |-> IF t = 0 THEN sub[0] ELSE Zeros] ELSE sub
  /\ created' = {0}
  /\ UNCHANGED <<sys, scalars, stage, phase, iter, done, barrier>>

CreateSide(t) ==
  /\ created # {} /\ t = Cardinality(created)
  /\ created' = created \cup {t}
  /\ UNCHANGED <<sys, vectors, scalars, stage, phase, iter, done, barrier>>

\* The thread can execute; main does once it has created the others.
Running(t) == t \in created /\ (t = 0 => created = Threads) /\ Awake(t)

\* There is no other test than the loop counter.
LoopTest(t) ==
  /\ Running(t) /\ stage[t] = "loop"
  /\ stage' = [stage EXCEPT ![t] = IF iter[t] < NLoops THEN "barrier" ELSE "exit"]
  /\ UNCHANGED <<sys, vectors, scalars, created, phase, iter, done, barrier>>

\* Faulty variant: a party for main besides the thread it acts as.
Parties_MainTwice == N + 1

\* pthread_barrier_init(&barrier, NULL, ncpus)
Parties == N

\* The last barrier of an iteration ends it, any other leads to the next phase.
Pass(t) ==
  IF phase[t] > Len(Phases)
    THEN /\ stage' = [stage EXCEPT ![t] = "loop"]
         /\ phase' = [phase EXCEPT ![t] = 1]
         /\ iter' = [iter EXCEPT ![t] = @ + 1]
    ELSE /\ stage' = [stage EXCEPT ![t] = "work"]
         /\ UNCHANGED <<phase, iter>>

\* Faulty variant: the side threads use alpha before main has signalled it.
Barrier_NoneAfterAlpha(t) ==
  /\ Running(t) /\ stage[t] = "barrier"
  /\ IF phase[t] <= Len(Phases) /\ Phases[phase[t]] = "update"
       THEN UNCHANGED barrier
       ELSE BarrierWait(t, Parties)
  /\ Pass(t)
  /\ UNCHANGED <<sys, vectors, scalars, created, done>>

Barrier(t) ==
  /\ Running(t) /\ stage[t] = "barrier"
  /\ BarrierWait(t, Parties)
  /\ Pass(t)
  /\ UNCHANGED <<sys, vectors, scalars, created, done>>

-----------------------------------------------------------------------------
\* Thread t is in the named phase and leaves it for the next barrier.
Work(t, name) ==
  /\ Running(t) /\ stage[t] = "work" /\ Phases[phase[t]] = name
  /\ stage' = [stage EXCEPT ![t] = "barrier"]
  /\ phase' = [phase EXCEPT ![t] = @ + 1]
  /\ UNCHANGED <<sys, created, iter, done, barrier>>

Mult(t) ==
  /\ Work(t, "mult")
  /\ temp' = [i \in Rows |-> IF i \in Own(t) THEN OwnRow(t, p, i) ELSE temp[i]]
  /\ sub' = IF sys.sym
              THEN [sub EXCEPT ![t] =
                     [j \in Rows |-> IF j \in Above(t) THEN Add(@[j], AboveRow(t, p, j)) ELSE @[j]]]
              ELSE sub
  /\ UNCHANGED <<b, x, r, p, scalars>>

\* add_from_map and init_from_map
Reduce(t) ==
  /\ Work(t, "reduce")
  /\ LET cpus(i) == {k \in Threads : <<k, i>> \in ToSet(map[t])}
     IN  /\ temp' = [i \in Rows |-> Add(temp[i], Sum([k \in cpus(i) |-> sub[k][i]]))]
         /\ sub' = [k \in Threads |-> [i \in Rows |-> IF k \in cpus(i) THEN 0 ELSE sub[k][i]]]
  /\ UNCHANGED <<b, x, r, p, scalars>>

Dots(t) ==
  /\ Work(t, "dots")
  /\ rr' = [rr EXCEPT ![t] = Dot(r, r, Part(t))]
  /\ tp' = [tp EXCEPT ![t] = Dot(temp, p, Part(t))]
  /\ UNCHANGED <<vectors, rr_new, ai, bi>>

\* Faulty variant: main leaves out the last partial sum.
Alpha_NotLast(t) ==
  /\ Work(t, "alpha")
  /\ IF t = 0
       THEN /\ rr' = [rr EXCEPT ![0] = Sum([j \in 0..(N - 2) |-> rr[j]])]
            /\ tp' = [tp EXCEPT ![0] = Sum(tp)]
            /\ ai' = Div(rr'[0], tp'[0])
       ELSE UNCHANGED <<rr, tp, ai>>
  /\ UNCHANGED <<vectors, rr_new, bi>>

\* Main adds up; side threads go on to the next barrier at once.
Alpha(t) ==
  /\ Work(t, "alpha")
  /\ IF t = 0
       THEN /\ rr' = [rr EXCEPT ![0] = Sum(rr)]
            /\ tp' = [tp EXCEPT ![0] = Sum(tp)]
            /\ ai' = Div(rr'[0], tp'[0])
       ELSE UNCHANGED <<rr, tp, ai>>
  /\ UNCHANGED <<vectors, rr_new, bi>>

Update(t) ==
  /\ Work(t, "update")
  /\ r' = ScaleAdd(r, temp, r, Neg(ai), Part(t))
  /\ x' = ScaleAdd(x, p, x, ai, Part(t))
  /\ UNCHANGED <<b, p, temp, sub, scalars>>

NewDots(t) ==
  /\ Work(t, "newdots")
  /\ rr_new' = [rr_new EXCEPT ![t] = Dot(r, r, Part(t))]
  /\ UNCHANGED <<vectors, rr, tp, ai, bi>>

Beta(t) ==
  /\ Work(t, "beta")
  /\ IF t = 0
       THEN /\ rr_new' = [rr_new EXCEPT ![0] = Sum(rr_new)]
            /\ bi' = Div(rr_new'[0], rr[0])
       ELSE UNCHANGED <<rr_new, bi>>
  /\ UNCHANGED <<vectors, rr, tp, ai>>

Direct(t) ==
  /\ Work(t, "direct")
  /\ p' = ScaleAdd(r, p, p, bi, Part(t))
  /\ UNCHANGED <<b, x, r, temp, sub, scalars>>

(* main, after CgMainThread: joins the others and measures the distance.   *)
MeasureDistance ==
  /\ \A t \in Threads : stage[t] = "exit"
  /\ ~done
  /\ temp' = [i \in Rows |-> Add(sys.sol[i], Neg(x[i]))]
  /\ done' = TRUE
  /\ UNCHANGED <<sys, b, x, r, p, sub, scalars, created, stage, phase, iter, barrier>>

-----------------------------------------------------------------------------
Thread(t) ==
  \/ LoopTest(t) \/ Barrier(t) \/ Mult(t) \/ Reduce(t) \/ Dots(t) \/ Alpha(t)
  \/ Update(t) \/ NewDots(t) \/ Beta(t) \/ Direct(t)

Main == Prepare \/ MeasureDistance \/ \E t \in Threads : CreateSide(t)

Finished == done /\ UNCHANGED vars

Next == Main \/ (\E t \in Threads : Thread(t)) \/ Finished

Spec == Init /\ [][Next]_vars

\* A step of main outside the loop, and one of thread t in it: what such steps do
\* to the control state, no other step does, and each is possible when its thread
\* runs.  (The numbers are left out for TLC's sake, which evaluates ENABLED.)
MainAdvances ==
  \/ \E t \in Threads : created' = created \cup {t} /\ UNCHANGED done
  \/ (\A t \in Threads : stage[t] = "exit") /\ done' = TRUE /\ UNCHANGED created
Advances(t) ==
  /\ t \in Threads /\ Running(t) /\ stage[t] # "exit"
  /\ \E s \in {"loop", "barrier", "work", "exit"} : stage' = [stage EXCEPT ![t] = s]

\* The threads are scheduled by the kernel: none that can run is left out for ever.
FairSpec ==
  /\ Spec /\ WF_<<created, done>>(MainAdvances)
  /\ \A t \in 0..(NRows - 1) : WF_stage(Advances(t))

-----------------------------------------------------------------------------
\* What a thread in a phase reads and writes: elements <<vector, index>>,
\* elements of private vectors <<"sub", thread, index>> and scalars.
On(names, part) == {<<v, i>> : v \in names, i \in part}
InMap(t) == {<<"sub", e[1], e[2]>> : e \in ToSet(map[t])}
Reads(t) ==
  CASE Phases[phase[t]] = "mult" ->
         On({"p"}, Rows) \cup {<<"sub", t, j>> : j \in IF sys.sym THEN Above(t) ELSE {}}
    [] Phases[phase[t]] = "reduce" -> InMap(t) \cup On({"temp"}, {e[2] : e \in ToSet(map[t])})
    [] Phases[phase[t]] = "dots" -> On({"r", "temp", "p"}, Part(t))
    [] Phases[phase[t]] = "alpha" -> IF t = 0 THEN On({"rr", "tp"}, Threads) ELSE {}
    [] Phases[phase[t]] = "update" -> {<<"ai">>} \cup On({"r", "temp", "x", "p"}, Part(t))
    [] Phases[phase[t]] = "newdots" -> On({"r"}, Part(t))
    [] Phases[phase[t]] = "beta" -> IF t = 0 THEN On({"rr_new"}, Threads) \cup {<<"rr", 0>>} ELSE {}
    [] Phases[phase[t]] = "direct" -> {<<"bi">>} \cup On({"r", "p"}, Part(t))
Writes(t) ==
  CASE Phases[phase[t]] = "mult" ->
         On({"temp"}, Own(t)) \cup {<<"sub", t, j>> : j \in IF sys.sym THEN Above(t) ELSE {}}
    [] Phases[phase[t]] = "reduce" -> InMap(t) \cup On({"temp"}, {e[2] : e \in ToSet(map[t])})
    [] Phases[phase[t]] = "dots" -> On({"rr", "tp"}, {t})
    [] Phases[phase[t]] = "alpha" -> IF t = 0 THEN {<<"ai">>} \cup On({"rr", "tp"}, {0}) ELSE {}
    [] Phases[phase[t]] = "update" -> On({"r", "x"}, Part(t))
    [] Phases[phase[t]] = "newdots" -> On({"rr_new"}, {t})
    [] Phases[phase[t]] = "beta" -> IF t = 0 THEN {<<"bi">>} \cup On({"rr_new"}, {0}) ELSE {}
    [] Phases[phase[t]] = "direct" -> On({"p"}, Part(t))

AtWork == {t \in Threads : Running(t) /\ stage[t] = "work"}

\* No data race: what one thread writes in the phase it is in, no other thread
\* reads or writes in the phase that one is in.
RaceFree ==
  \A t, u \in AtWork : t # u => Writes(t) \cap (Reads(u) \cup Writes(u)) = {}

\* The sequential method on the whole matrix: an iteration of it, and x, r and p
\* after k iterations.
Product(s, v) == [i \in Rows |-> Dot(s.A[i], v, Rows)]
First(s) ==
  LET x0 == [i \in Rows |-> s.x0]
      r0 == ScaleAdd(Product(s, s.sol), Product(s, x0), x0, Neg(1), Rows)
  IN  [x |-> x0, r |-> r0, p |-> r0]
Iterate(s, v) ==
  LET Ap == Product(s, v.p)
      a == Div(Dot(v.r, v.r, Rows), Dot(Ap, v.p, Rows))
      new == ScaleAdd(v.r, Ap, v.r, Neg(a), Rows)
      beta == Div(Dot(new, new, Rows), Dot(v.r, v.r, Rows))
  IN  [x |-> ScaleAdd(v.x, v.p, v.x, a, Rows), r |-> new,
       p |-> ScaleAdd(new, v.p, v.p, beta, Rows)]
Solution(s) ==
  LET sol[k \in 0..NLoops] == IF k = 0 THEN First(s) ELSE Iterate(s, sol[k - 1])
  IN  sol
Solutions == [s \in Systems |-> Solution(s)]

\* How often thread t has been through a phase.
Times(t, name) ==
  iter[t] + (IF \E i \in 1..(phase[t] - 1) : Phases[i] = name THEN 1 ELSE 0)

\* At every moment each thread's part of x and r is where the sequential method
\* has them after as many updates as the thread has made, and p likewise: no
\* sum misses a part, no thread uses an old scalar or a new direction.
FollowsSequentialMethod ==
  \A t \in created : \A i \in Part(t) :
    /\ x[i] = Solutions[sys][Times(t, "update")].x[i]
    /\ r[i] = Solutions[sys][Times(t, "update")].r[i]
    /\ p[i] = Solutions[sys][Times(t, "direct")].p[i]

\* The solver ends.
Termination == <>done
=============================================================================
