---------------------------- MODULE SpmvMtCheck -----------------------------
(***************************************************************************)
(* The programs around the multithreaded product: csx (csx/main.cc), csx   *)
(* built for NUMA, and the routine that Elmer calls (csx/elmerif.cc).      *)
(* GetSpmMt encodes the threads' parts of the matrix in parallel and       *)
(* compiles their kernels; then                                            *)
(*   csx    check_mt_loop: in each pass the calling thread fills x, lets   *)
(*          the workers multiply, multiplies serially and compares (the    *)
(*          benchmark that follows it is module SpmvMtBench);              *)
(*   numa   check_mt_loop_numa, where x is filled once, before the workers *)
(*          are created (its copies, one per node, count as one here),     *)
(*          then bench_mt_loop_numa;                                       *)
(*   elmer  spmv_double_matvec_mt for each call, where the calling thread  *)
(*          is a worker itself.                                            *)
(* The calling thread is a party of the barrier in the check loops only.   *)
(***************************************************************************)
EXTENDS SpmvMtThread

CONSTANTS
  Main,   \* the thread that runs the program
  First,  \* thread 0, which Main plays in spmv_double_matvec_mt
  Turns   \* matrix files given to csx, or calls that Elmer makes

ASSUME MainAssumption == Main \notin Threads /\ First \in Threads
ASSUME TurnsAssumption == Turns \in Nat

\* A matvec is one pass of the workers, whatever the number of passes in the loops.
ASSUME PassesAssumption == NLoops # 0

VARIABLES
  program,   \* "csx", "numa" or "elmer"
  mpc,       \* control point of the calling thread
  turn,      \* files or calls done
  spm,       \* spm_threads[t]: how far a thread's part and its kernel are
  loop,      \* "check", "bench" or "matvec"
  pass,      \* loop counter of the calling thread
  unfilled,  \* parts of x that are not filled yet
  y2,        \* the iterate that the serial product produced
  created, joined

mainVars == <<program, mpc, turn, spm, loop, pass, unfilled, y2, created, joined>>
vars == <<workerVars, mainVars>>

\* Faulty variant: the calling thread is not counted.
Parties_WorkersOnly == Cardinality(Threads)

\* pthread_barrier_init(&barrier, NULL, nr_threads + 1) or (.., nr_threads)
Parties == Cardinality(Threads) + (IF loop = "check" THEN 1 ELSE 0)

\* A vector filled for pass or call i counts as iterate 2i, its product as 2i + 1.
Filled == 2 * (CASE program = "csx" -> pass [] program = "elmer" -> turn [] OTHER -> 0)

Init ==
  /\ VectorsInit
  /\ pc = [t \in Threads |-> "exit"]
  /\ program \in {"csx", "numa", "elmer"}
  /\ mpc = "turn" /\ turn = 0
  /\ spm = [t \in Threads |-> "none"]
  /\ loop = (IF program = "elmer" THEN "matvec" ELSE "check")
  /\ pass = 0 /\ unfilled = {} /\ y2 = Torn
  /\ created = {} /\ joined = {}

-----------------------------------------------------------------------------
(* main and elmer_matvec_: a matrix is loaded and encoded for every file;  *)
(* Elmer keeps the encoded matrix unless it asks for a new one.            *)

NextTurn(reinit) ==
  /\ mpc = "turn" /\ turn < Turns
  /\ IF program = "elmer" /\ turn > 0 /\ ~reinit
       THEN mpc' = "open" /\ UNCHANGED spm
       ELSE mpc' = "preprocess" /\ spm' = [t \in Threads |-> "loaded"]
  /\ UNCHANGED <<workerVars, program, turn, loop, pass, unfilled, y2, created, joined>>

EndProgram ==
  /\ mpc = "turn" /\ turn = Turns
  /\ mpc' = "end"
  /\ UNCHANGED <<workerVars, program, turn, spm, loop, pass, unfilled, y2, created, joined>>

\* GetSpmMt: one thread for each part.
StartPreprocess(t) ==
  /\ mpc = "preprocess" /\ spm[t] = "loaded"
  /\ spm' = [spm EXCEPT ![t] = "encoding"]
  /\ UNCHANGED <<workerVars, program, mpc, turn, loop, pass, unfilled, y2, created, joined>>

\* PreprocessThread: encodes its part and writes it as CSX.
PreprocessThread(t) ==
  /\ spm[t] = "encoding"
  /\ spm' = [spm EXCEPT ![t] = "encoded"]
  /\ UNCHANGED <<workerVars, program, mpc, turn, loop, pass, unfilled, y2, created, joined>>

\* Faulty variant: the threads are started but not waited for.
JoinPreprocess_NoWait ==
  /\ mpc = "preprocess" /\ \A t \in Threads : spm[t] # "loaded"
  /\ mpc' = "jit"
  /\ UNCHANGED <<workerVars, program, turn, spm, loop, pass, unfilled, y2, created, joined>>

JoinPreprocess ==
  /\ mpc = "preprocess" /\ \A t \in Threads : spm[t] = "encoded"
  /\ mpc' = "jit"
  /\ UNCHANGED <<workerVars, program, turn, spm, loop, pass, unfilled, y2, created, joined>>

\* The kernels are generated one after the other for the patterns found, and
\* what only the preprocessing needed is freed.
CompileKernels ==
  /\ mpc = "jit"
  /\ spm' = [t \in Threads |-> IF spm[t] = "encoded" THEN "compiled" ELSE "miscompiled"]
  /\ mpc' = "open"
  /\ UNCHANGED <<workerVars, program, turn, loop, pass, unfilled, y2, created, joined>>

\* PutSpmMt, once the loops are over; Elmer's matrix is never freed.
PutSpmMt ==
  /\ mpc = "put"
  /\ spm' = [t \in Threads |-> "none"]
  /\ loop' = "check" /\ turn' = turn + 1 /\ mpc' = "turn"
  /\ UNCHANGED <<workerVars, program, pass, unfilled, y2, created, joined>>

-----------------------------------------------------------------------------
(* The beginning of each loop and of each matvec: the barrier is           *)
(* initialised and the vectors are new.                                    *)
Open ==
  /\ mpc = "open"
  /\ mem' = [b \in Buffers |-> [p \in Threads |-> Torn]]
  /\ iter' = [t \in Threads |-> 0]
  /\ round' = 0 /\ blocked' = {}
  /\ pass' = 0 /\ created' = {} /\ joined' = {} /\ y2' = Torn
  /\ mpc' = IF program = "csx" THEN "create" ELSE "fill"
  /\ unfilled' = Threads
  /\ UNCHANGED <<x, y, pc, frame, program, turn, spm, loop>>

\* init_rand_range(x), or Elmer's own computation: element after element.
FillPart(p) ==
  /\ mpc = "fill" /\ p \in unfilled
  /\ mem' = [mem EXCEPT ![x][p] = Filled]
  /\ unfilled' = unfilled \ {p}
  /\ UNCHANGED <<x, y, pc, iter, frame, round, blocked, program, mpc, turn, spm, loop, pass,
                 y2, created, joined>>

\* The NUMA loops create their threads after x; Elmer's debug build multiplies
\* serially first (matvec_csr).
FilledOnce ==
  /\ mpc = "fill" /\ unfilled = {} /\ program # "csx"
  /\ y2' = IF program = "elmer" THEN Filled + 1 ELSE y2
  /\ mpc' = "create"
  /\ UNCHANGED <<workerVars, program, turn, spm, loop, pass, unfilled, created, joined>>

\* In a matvec the calling thread comes last, as thread 0.
Create(t) ==
  /\ mpc = "create" /\ t \notin created
  /\ loop = "matvec" /\ t = First => Threads \ {First} \subseteq created
  /\ created' = created \cup {t}
  /\ pc' = [pc EXCEPT ![t] = "loop"]
  /\ mpc' = IF created' # Threads THEN "create"
            ELSE IF loop = "check" THEN "loop" ELSE "join"
  /\ UNCHANGED <<x, y, mem, iter, frame, round, blocked, program, turn, spm, loop, pass,
                 unfilled, y2, joined>>

MainLoop ==
  /\ mpc = "loop"
  /\ IF pass = NLoops THEN mpc' = "join" /\ UNCHANGED unfilled
     ELSE IF program = "csx" THEN mpc' = "fill" /\ unfilled' = Threads
     ELSE mpc' = "filled" /\ UNCHANGED unfilled
  /\ UNCHANGED <<workerVars, program, turn, spm, loop, pass, y2, created, joined>>

\* x is ready: filled for this pass, or once for all.
MayStart == mpc = "filled" \/ (mpc = "fill" /\ unfilled = {} /\ program = "csx")

\* Faulty variants: one of the calling thread's barriers is missing.
MainFirstWait_NoBarrier ==
  /\ MayStart
  /\ y2' = Torn /\ mpc' = "wait"
  /\ UNCHANGED <<workerVars, program, turn, spm, loop, pass, unfilled, created, joined>>

MainSecondWait_NoBarrier ==
  /\ mpc = "wait" /\ Awake(Main)
  /\ mpc' = "serial"
  /\ UNCHANGED <<workerVars, program, turn, spm, loop, pass, unfilled, y2, created, joined>>

\* init(y2, 21), then the two barriers that frame the workers' product.
MainFirstWait ==
  /\ MayStart
  /\ y2' = (IF program = "csx" THEN Torn ELSE y2)
  /\ BarrierWait(Main, Parties)
  /\ mpc' = "wait"
  /\ UNCHANGED <<x, y, mem, pc, iter, frame, program, turn, spm, loop, pass, unfilled,
                 created, joined>>

MainSecondWait ==
  /\ mpc = "wait"
  /\ BarrierWait(Main, Parties)
  /\ mpc' = "serial"
  /\ UNCHANGED <<x, y, mem, pc, iter, frame, program, turn, spm, loop, pass, unfilled, y2,
                 created, joined>>

Serial ==
  /\ mpc = "serial" /\ Awake(Main)
  /\ y2' = Product({mem[x][p] : p \in Threads})
  /\ mpc' = "compare"
  /\ UNCHANGED <<workerVars, program, turn, spm, loop, pass, unfilled, created, joined>>

\* csx ends when an element differs, Elmer's debug build says so.
Compare ==
  /\ mpc = "compare"
  /\ IF \E p \in Threads : mem[y][p] # y2
       THEN mpc' = "failed" /\ UNCHANGED <<pass, turn>>
     ELSE IF loop = "check" THEN mpc' = "loop" /\ pass' = pass + 1 /\ UNCHANGED turn
     ELSE mpc' = "turn" /\ turn' = turn + 1 /\ UNCHANGED pass
  /\ UNCHANGED <<workerVars, program, spm, loop, unfilled, y2, created, joined>>

\* In a matvec the calling thread joins the others when it has returned itself.
Join(t) ==
  /\ mpc = "join" /\ t \notin joined /\ pc[t] = "exit"
  /\ loop = "matvec" => pc[First] = "exit"
  /\ joined' = joined \cup {t}
  /\ mpc' = IF joined' # Threads THEN "join"
            ELSE IF loop = "matvec" THEN "compare" ELSE "close"
  /\ UNCHANGED <<workerVars, program, turn, spm, loop, pass, unfilled, y2, created>>

\* The vectors and the barrier are destroyed.
Close ==
  /\ mpc = "close"
  /\ IF program = "numa" /\ loop = "check"
       THEN loop' = "bench" /\ mpc' = "open"
       ELSE loop' = loop /\ mpc' = "put"
  /\ UNCHANGED <<workerVars, program, turn, spm, pass, unfilled, y2, created, joined>>

MainThread ==
  \/ (\E reinit \in BOOLEAN : NextTurn(reinit))
  \/ EndProgram \/ JoinPreprocess \/ CompileKernels \/ PutSpmMt
  \/ Open \/ FilledOnce \/ MainLoop \/ MainFirstWait \/ MainSecondWait \/ Serial \/ Compare
  \/ Close
  \/ \E t \in Threads : StartPreprocess(t) \/ Create(t) \/ FillPart(t) \/ Join(t)

\* do_matvec_thread returns after one product.
MatvecReturn(t) ==
  /\ pc[t] = "next" /\ Awake(t)
  /\ pc' = [pc EXCEPT ![t] = "exit"]
  /\ UNCHANGED <<x, y, mem, iter, frame, round, blocked>>

Worker(t) ==
  /\ t \in created /\ mpc # "failed"
  /\ \/ Iteration(t, Parties)
     \/ loop # "matvec" /\ NextIteration(t)
     \/ loop = "matvec" /\ MatvecReturn(t)
  /\ UNCHANGED mainVars

Finished == mpc \in {"end", "failed"} /\ UNCHANGED vars

Next ==
  \/ MainThread
  \/ \E t \in Threads : Worker(t) \/ PreprocessThread(t)
  \/ Finished

Spec == Init /\ [][Next]_vars

\* The calling thread, every worker and every preprocessing thread are scheduled
\* by the kernel.
FairSpec ==
  /\ Spec /\ WF_vars(MainThread)
  /\ \A t \in Threads : WF_vars(Worker(t)) /\ WF_vars(PreprocessThread(t))

-----------------------------------------------------------------------------
\* The comparison never fails: with a correct kernel the parallel result is
\* complete and of this pass, or this call, whenever the calling thread looks at
\* it (spmv_loops_mt.c, spmv_loops_mt_numa.c, elmerif.cc).
ParallelEqualsSerial == mpc # "failed"

\* No data race with the calling thread: x is not refilled and y not compared
\* while a worker is in its kernel or about to enter it.
MainRaceFree ==
  \A t \in Threads :
    pc[t] = "kernel" \/ (pc[t] = "call" /\ Awake(t)) =>
      /\ mpc \notin {"fill", "compare"}
      /\ ~(mpc = "serial" /\ Awake(Main))

\* No kernel runs on a part that is not encoded yet, or freed again, and no
\* kernel was generated before its part's patterns were all known (spmv.cc,
\* GetSpmMt and PutSpmMt).
KernelsAreBuilt == \A t \in Threads : pc[t] # "exit" => spm[t] = "compiled"

\* The programs end: nobody is left waiting, at a barrier that the calling thread
\* is a party of or not, or that is initialised again for each call.
CheckEnds == <>(mpc = "end")
=============================================================================
