# TLA+ models of the CSX library

CSX stores a sparse matrix by the regular substructures it finds in it and
multiplies it with vectors, in several threads, by code generated for those
substructures.  This directory holds TLA+ models of the parts of the library
where the mistakes are hard to see and hard to test for: the threads around the
kernels, the arithmetic that splits a matrix over them, and the chain that
turns a matrix into bytes which the generated kernel has to read back exactly.
TLC checks them on small instances; TLAPS proves what matters most for every
size.

`PROJECT.json` lists the components, the runs, for each definition the source
lines it models, and the hazards the properties are aimed at.

## 1. The system

| part | source | state | operations |
|---|---|---|---|
| loaders | `csx/spm.cc`, `csx/spm.h`, `csx/mmf.h`, `csx/csr.h` | parts (one SPM per thread), row pointers, diagonal | `LoadMMF_mt`, `LoadCSR_mt`, `SetElems`, `Builder::NewRow`, `Finalize`, the CSR iterator |
| internal matrix (SPM) | `csx/spm.cc`, `csx/spm_bits.h` | elements with patterns, row pointers, iteration order | `Transform`, iterators, `Builder`, `GetWindow`, `PutWindow`, `DivideMatrix`, `MergeMatrix` |
| run-length encoder (DRLE) | `csx/drle.cc` | windows, statistics, ignored orders, distances to encode | `ComputeSortSplits`, `SelectSplits`, `GenAllStats`, `CorrectStats`, `ChooseType`, `Encode`, `Decode`, `EncodeAll`, `EncodeSerial` |
| CSX writer | `csx/csx.cc`, `csx/ctl_ll.h`, `lib/dynarray` | ctl, values, flags handed out, new-row flag, empty rows, last column | `MakeCsx`, `DoRow`, `DoSymRow`, `AddXs`, `AddPattern`, `UpdateNewRow`, `GetFlag` |
| generated kernel | `csx/jit.cc`, `csx/mult_templates/` | position in ctl, row, column, target vector | one unit after the other |
| preprocessing and programs | `csx/spmv.cc`, `csx/main.cc`, `csx/elmerif.cc` | one `thread_info_t` per thread, the library's `spm_mt` | `GetSpmMt`, `PreprocessThread`, `MakeMap`, `PutSpmMt`, `elmer_matvec_` |
| SpMV loops | `lib/spm/spmv_loops_mt.c`, `spmv_loops_mt_numa.c`, `spmv_matvec_mt.c` | static `x`, `y`, a barrier, `loops_nr` | `bench_mt_loop`, `check_mt_loop`, the NUMA variants, `spmv_double_matvec_mt` |
| symmetric loops | `lib/spm/spmv_loops_sym_mt.c`, `spmv_loops_sym_mt_numa.c` | the same, `temp`, a map per thread | `bench_sym_mt_loop`, `check_sym_mt_loop`, the NUMA variants |
| conjugate gradient | `cg/cg.cc`, `cg/main.cc` | vectors, partial sums, scalars, a barrier | `NormalCg*Thread`, `SymCg*Thread` |
| other formats | `lib/spm/spm_crs*`, `bcsr`, `vbl` | arrays, parts | loading, splits, kernels |
| NUMA allocation | `lib/spm/numa_util.c` | the node of each page | `alloc_interleaved`, `fix_interleaving`, `check_interleaved` |

How they interact: the main thread loads the matrix and deals its rows to
threads, builds the reduction map if the matrix is symmetric, and starts one
preprocessing thread per part.  Each of those transforms, encodes and writes
its part on its own.  The main thread joins them, compiles one kernel per part,
and then starts the threads of a multiplication loop, which share the vectors
and meet at a barrier.  Elmer's routine keeps the compiled kernels between its
calls.  Data is handed over by create, join and barrier only.

The hard behaviours:

- *Concurrency.*  The loops synchronise static pointers, whole vectors and the
  per-thread reduction vectors by two or three barrier calls a pass, the solver
  by eight or nine.  Correct when no access races with a change and every pass
  computes with one iterate.
- *Dealing out.*  Rows are dealt by running counts over a file iterator,
  reduction entries by running counts over columns.  Correct when every point
  and every conflict belongs to exactly one thread, and each part knows its
  place in the matrix.
- *Coordinates.*  The encoder looks for runs in a transformed matrix, keeps
  only the start of a run, and goes through further transformations.  Correct
  when the kernel, which never sees the transformations, walks the entries
  whose values it was given.
- *Looking in place.*  Statistics are gathered by transforming the matrix
  itself, or windows that share its elements, and bringing it back.  Correct
  when nothing is left behind, and when what they promise is what the encoder,
  which scans the rows in its own way, then finds.
- *Implicit positions.*  The bytes hold jumps, not positions, in numbers of
  variable length and aligned deltas; the writer predicts where each unit leaves
  the kernel.  Correct when both agree.

There are no messages, no persistent state and no timeouts.  A failing allocation
ends the program; a failing thread creation is noticed by `spmv_matvec_mt.c` only,
elsewhere the result of `pthread_create` is not looked at, and the models take it to
succeed.

## 2. Modules

| module | models | state and actions |
|---|---|---|
| `PthreadBarrier` | the POSIX barrier (external) | `round`, `blocked`; an arrival sleeps or releases everybody |
| `SpmvMtThread` | `do_spmv_thread` and its variants | pointers `x`, `y`; `mem`: the iterate each part of a buffer holds; per thread `pc`, `iter` and the kernel's `frame`; one action per statement, one per part the kernel gathers |
| `SpmvMtBench` | `bench_mt_loop`, `do_spmv_thread_main_swap` | adds the thread that fills `x` and swaps, and the caller that creates, joins and frees |
| `PowerIteration` | what `bench_mt_loop` promises | one vector, multiplied N times |
| `SpmvMtCheck` | the programs around the product: `csx` (preprocessing, JIT, `check_mt_loop`), its NUMA build (`check_mt_loop_numa`, `bench_mt_loop_numa`), Elmer's routine (`spmv_double_matvec_mt`) | the parts' states from loaded to compiled to freed; the calling thread as one more party of the barrier, or as thread 0 |
| `ReductionMap` | `MakeMap` | operators |
| `SpmvSymMt` | the four symmetric loops, bench and check, plain and NUMA | elements as sets of contributions; clearing and reduction entry by entry |
| `Cg` | `cg/main.cc`, both pairs of thread functions of `cg/cg.cc` | the vectors, scalars and private vectors with their numbers; per thread `stage`, `phase`, `iter`; one action per phase between two barriers |
| `LoadSplit` | `LoadMMF_mt` of both matrices and `LoadCSR_mt` with `SetElems`, the builders and the CSR iterator | points, builder, finished parts; one action per turn of each loop |
| `SpmCoords` | coordinate maps of `csx/spm.cc` | operators |
| `SpmMatrix` | rows, row pointers, iterators, `Transform`, `Builder`, windows | operators |
| `SpmTransform` | a matrix and a window of it under any sequence of `Transform` | `spm`, `window` |
| `Drle` | `EncodeRow` and all below it, `DecodeRow`, `Encode`, `Decode` | operators |
| `DrleManager` | how `EncodeAll` and `EncodeSerial` decide: splits, samples, statistics, scores | `spm`, the window that is out, statistics, distances, ignored orders; one action per step of `GenAllStats` and of the loop of `EncodeAll` |
| `Dynarray`, `Ctl` | growing arrays; flags, variable-length integers, deltas of one width | operators on arrays of bytes |
| `MultTemplates` | the code emitted for each pattern | operators |
| `Csx` | encoder, writer and kernel composed, general and symmetric | the parts being encoded and their `paths`, the writer's fields `out`, the kernel's locals `run`; one action per encoding, row and unit |
| `Crs`, `Sss`, `Vbl`, `Bcsr` | loading, row split and kernel of each format | operators |
| `NumaPlacement` | interleaved allocation | operators |
| `Formats` | one product in one of those formats: load, split, place, run, reduce | the stored arrays, parts, pages, `y` and private vectors; one action per phase and thread |
| `MC*` | constants for TLC | |
| `Operators_proofs` | theorems and lemmas about operators: the reduction map, coordinates, the internal matrix, the encoding of rows and matrices, numbers as bytes | |
| `SpmvMtBench_proofs`, `SpmvMtCheck_proofs`, `SpmvSymMt_proofs`, `Cg_proofs`, `LoadSplit_proofs`, `SpmTransform_proofs`, `Csx_proofs` | theorems | |

`SpmvMtBench` and `SpmvMtCheck` extend `SpmvMtThread`, which extends
`PthreadBarrier`; `SpmvSymMt` and `Cg` extend the barrier and `ReductionMap`,
and their proofs, like those of `SpmTransform` and `Csx`, `Operators_proofs`.
`Csx` extends `Drle` (which extends `SpmMatrix` and `SpmCoords`), `Ctl` (which
extends `Dynarray`) and `MultTemplates`; `DrleManager` and `SpmTransform`
exercise the lower layers of that chain alone, on more matrices.  `Formats`
extends the four formats and `NumaPlacement`.  Names are those of the source
where there is one.  Operators called `X_Something` and marked "Faulty variant"
are not used by any specification: each is `X` with a plausible mistake, and
`PROJECT.json` ("mutants") says which property catches it.

Abstractions, by module:

- *Values.*  The loops look at no number.  `SpmvMt*` keep which iterate a part
  of a vector holds; a part that is not written, half written or computed from
  a mixture is `Torn`.  A random fill in pass i counts as iterate 2i and its
  product as 2i+1, so that passes cannot be confused.  `SpmvSymMt` keeps, for
  each element, which threads have contributed and from which iterate; a
  contribution added twice or to anything uncleared is `Garbage`.
- *Kernel.*  In the loops it clears its own rows, gathers from any part of `x`,
  in any order, and stores; every row belongs to one part (see finding 1 for
  when that fails).  What the kernel computes is modelled in `Csx` and `Formats`.
- *Preprocessing* of a part is one step of its thread in `SpmvMtCheck`; what
  that step does is `Csx`.  The copies of `x` on the NUMA nodes count as one
  vector: they are filled together and never written afterwards.
- *Matrix values* in `Csx` and `Formats` are the entries they belong to, so that
  "the right value at the right place" can be said.  A sum is the sequence of
  its products.
- *Choice of encodings.*  `DrleManager` makes the choices of `EncodeAll` and
  `EncodeSerial`; `Csx` takes any order not used yet with any considered set of
  distances, so what it shows does not depend on the scores.
- *Machine sizes* are parameters: `ByteSize` values of a byte, `PatternsMax`
  pattern ids, `MinLimit` and `MaxLimit` of a pattern's length, `Grain` of the
  arrays, `PageSize`.  Alignment of deltas counts bytes, as in the code.
- *Numbers* in `Cg` are integers modulo a prime, where the recurrence of the
  method is exact: a wrong order of two steps shows as a wrong number.  NaN is
  what a division by zero leads to.  Rounding, and so the order of a sum, is
  left out.  A phase is one action; that its threads may overlap freely is what
  `RaceFree`, over the elements each phase reads and writes, justifies.
- *Loader.*  A point is its row and whether it is on the diagonal.  The upper
  triangle, which `SPMSym::SetElems` passes over, is left out, and the diagonal
  is complete, as the loader's final assertion demands.
- *Undefined behaviour.*  An access outside an array ends the run of a model in
  `pc = "undefined"` (`DrleManager`, `Formats`); the properties say when that
  does not happen.  This holds for reads that often do no harm, too: the element
  behind `x` that BCSR multiplies with a padding zero may be any number, NaN included.
  Not counted are two reads whose value is never used: the size after VBL's last
  block, and a column index after SSS's last (section 4).

## 3. Runs

| run | instance | states | shows |
|---|---|---|---|
| `spmv_mt_bench` | 3 threads, 3 passes | 4134 | no race, one iterate per pass, `x` ends as the product applied N times, refinement of `PowerIteration`, termination |
| `spmv_mt_check` | 3 workers and the caller, 2 passes, 2 files or calls, with and without reinitialisation | 31590 | kernels exist when they run; the caller's fill, serial product and comparison never meet a running worker; no false alarm; termination |
| `spmv_sym_mt` | 4 rows, 3 threads, 2 partitions, every conflict pattern, 2 passes, the 4 loops | 122645 | the map covers each conflict once and never splits a row between threads; no race; complete sums; termination |
| `cg` | 4 unknowns, 2 and 3 threads, normal and symmetric, 2 iterations, 10 systems | 2682 | no race between phases, every part of `x`, `r`, `p` where the sequential method has it at every moment, termination |
| `load_split` | the 3 loaders, every matrix of 5 rows of up to 2 points, 1 to 4 threads | 23112 | every point in exactly one part, each part's place is right, kernels write disjoint rows |
| `load_split_rows` | 4 rows, 2 or 3 threads | violation | finding 1 |
| `csr_first_row` | CSR matrices of 4 rows that may begin with an empty one | violation | finding 2 |
| `spm_transform` | every matrix of 3x3, 2x4 and 4x2, every window, 9 orders | 58918 | no path of transformations moves, loses or reorders an entry; the row pointers fit the first size of their array; a window put back leaves no trace |
| `csx` | general and symmetric matrices with long, short and broken runs, blocks, empty rows; 6 orders, 3 sets of distances, up to 2 encodings on top of each other | 173447 | patterns keep their entries, the kernel multiplies each value once at its place, mirrors and diagonals go where they belong, flags suffice |
| `formats` | every 3x3 matrix, every 2x4 one for BCSR, every symmetric 4x4 one for SSS, bands, arrows and blocks of 6 to 10 rows; 0 to 4 threads, 2 nodes | 49462 | the product is the matrix's own, for VBL up to the first empty row; assertions fail for the matrices named and no other; array ends are only reached by those named; the parts tile the arrays but for one entry, and pages lie where most of them is used |
| `drle` | every 3x3 matrix in lines, every 2x4 in blocks, without sampling; 8 tall matrices with 11 samplings and 3 lists of the user | 35265 | statistics stay within the matrix, looking changes nothing, each round gains, encodings can be taken back, samples are windows up to the cases named, `EncodeAll` encodes no order twice and ends |
| `drle_windows` | the tall matrices with runs of up to 12 | violation | finding 3 |

Each run takes at most about half a minute.

Why the bounds are enough.  A barrier bug shows with two threads in adjacent
passes; three threads add the case of a third one left asleep, and a second and
third pass the reuse of the barrier and both parities of the swapped pointers.
Two turns let a program load a second matrix, or Elmer call again, after the
first one's kernels and barrier.  Three parties of the map give first, middle
and last (the code treats the last apart).  The solver's four unknowns make the
even split of the vectors differ from the matrix's parts, and two iterations
use every scalar and direction of the one before.  For the splits, five rows
hold an empty row, a row over the share and a boundary on either side of each.
For the encoder, `MinLimit` 2 and `MaxLimit` 4 instead of 4 and 254 keep the
relations (a run below the minimum, between, a multiple of the maximum, a
multiple and a rest) while rows of six elements suffice; a byte of four values
makes numbers of two and three bytes out of columns below ten, `Grain` 2 makes
the byte array move within a unit, and three pattern ids run out.  Two
encodings on top of each other are the shortest path in which a pattern is
carried through a foreign order.  The samplings take one, several, more than
half, all, and more windows than there are.  Pages of four bytes are shared by
two and by three parts.

No configuration turns deadlock checking off.  Every model but `SpmTransform`,
which never stops, has an explicit `Finished` step at its end, so that TLC
reports threads that wait for each other and a sequential model that is stuck.

*Fairness.*  Every thread is a pthread that the kernel schedules and that
shares nothing but the barrier, so each thread's next step is weakly fair
(`Fairness` in `SpmvMtBench`, `FairSpec` elsewhere).  Nothing stronger is needed.
`DrleManager` is one thread that runs on.  `Cg` and `DrleManager` state fairness by
what a step does to the control state: as those comments say, every step but
the last changes it, and there is no deadlock, so it is the same, while
`ENABLED` of the whole step would compute the matrices again for each state.

## 4. Findings

1. `SPM::LoadMMF_mt` gives rows after the last nonzero to no thread
   (`csx/spm.cc:284`): no kernel clears them, `check_mt_loop` compares them
   without ever initialising them (`lib/spm/spmv_loops_mt.c:186`, `:222`).
   `SPMSym::LoadMMF_mt` counts the rows of a part by its lower triangle
   (`csx/spm.cc:921`) but advances by its diagonal: last rows with only a
   diagonal element are left out of the product, and `check_sym_mt_loop`
   (`lib/spm/spmv_loops_sym_mt.c:294`) ends the program.
2. The iterator of `csx/csr.h:155` skips empty rows behind an element but not at
   the beginning: a CSR matrix with an empty first row is loaded with its first
   elements in row 1, and `csx/elmerif.cc:177` prints that the product failed.
3. `csx/drle.cc:201` says that windows may be empty because earlier patterns took
   their nonzeros, and tests for it after `GetWindow`; when they took all rows
   from the window's first on, `GetWindow` itself (`csx/spm.cc:663`) has by then
   read row pointers beyond the end.

Smaller observations made on the way, each visible in the models' definitions:

- `csx/csx.cc:245` and `:285` say that each unit leaves the x index at the last
  element it calculated.  Block units leave it at their first column; writer
  (`ColIncreaseJmp`) and kernel agree, so only the comment is wrong.
- The solver has no test for convergence.  When the residual is exactly zero
  the next iteration divides zero by zero (`cg/cg.cc:240`) and the result is
  NaN, where README:378 speaks of a maximum number of iterations.
- WINDOW_SIZE (README:213) has no effect without a portion and is replaced when
  there is one (`csx/drle.cc:120`), except that the number of nonzeros turns
  sampling off; the split by rows is never reached; SAMPLES=0 divides by zero.
- For samples of half of the windows or more `SelectSplits` (`csx/drle.cc:1208`)
  starts over and leaves entries unset; for all of them it asks for the end of
  the last window, which has none.  With one window more than twice the samples (one
  sample of three windows) it takes the last window, and if that is the rest's own
  there is no count of its elements: `csx/drle.cc:206` reads behind the vector
  `sort_splits_nzeros_`.  `SamplesAreWindows` says that fewer samples are right, and
  that this is the only case below a half that is not; the run `drle` reaches it.
- `EncodeSerial` takes block dimensions without a cap (`csx/drle.cc:524`).
- What is gained by a round is what was promised only without sampling
  (`EncodingGains`); with it the numbers are estimates.
- VBL: a row without elements adds a block (`lib/spm/vbl/spm_vbl.c:118`) that the
  kernel does not pass over, so the blocks of later rows are shifted.  With more empty
  rows than elements that extend a block, the blocks are more than the arrays hold;
  the assertion at `lib/spm/vbl/spm_vbl.c:156` fails after one has been written behind
  them.  Otherwise rows behind the empty one may get the wrong product, or the kernel
  reads values behind their end.  `AbortsOnEmptyRows` says when the assertion fails,
  `ProductIsMatrixTimesX` that the rows up to the first empty one are right.
- SSS: a last row with nothing but its diagonal fails an assertion
  (`lib/spm/spm_crs_sym.c:82`); the threaded kernel looks at one column index past
  the last (`lib/spm/spm_crs_sym_mt.c:358`).
- BCSR: the generic kernel adds to a `y` that nothing clears
  (`lib/spm/bcsr/mult/generic.c:70`); every kernel writes past `y` when the rows are
  no multiple of the block's, and reads past `x` when a block lies in a last block
  column that is cut off (`lib/spm/bcsr/mult/2x3.c:31`).
- The row splits of the other formats leave their arrays for small or uneven
  matrices; `EvenMatricesSplit` bounds when.
- NUMA: the symmetric initialisation makes the map twice.  The parts of VBL's and
  BCSR's row pointers leave out the last entry (`lib/spm/vbl/spm_vbl_mt.c:222`,
  `lib/spm/bcsr/spm_bcsr_mt.c:185`): when it begins a page, that page is bound to no
  node, which `check_interleaved` does not look at.  The sizes of VBL's blocks are not
  checked at all.
- Elmer's routine does not free the old kernels when it is initialised again,
  and `GetSpmMt` keeps the writers.

## 5. Proofs

All theorems assume what their modules assume of the constants and nothing
else.  Each invariant was first checked with TLC on the instance of the run.

*The loops.*  The safety invariants are not inductive.  They speak of two
threads at once, and what keeps those apart is the history of barrier arrivals.
Each `IInv` makes that history part of the state: from a thread's control point
and counter follows how often it has arrived (`Arrivals`); it sleeps exactly
when it has arrived once more than the barrier has completed rounds; and no
thread is ahead by more (`BarrierInv`).  So control points of different threads
determine each other.  What is added to this differs:

- `SpmvMtBench_proofs`, for any finite nonempty set of threads and any number of
  passes: `FrameInv` says what a running kernel's arguments and readings are,
  `DataInv` what the buffers hold in each phase (`x` iterate i, and the parts of
  `y` whose threads have returned iterate i+1).  Hence `TypeCorrect`,
  `NoDataRace`, `KernelsGatherOneIterate`, `LoopComputesPower`, and
  `RefinesPowerIteration`: every step is a product of the sequential iteration or
  leaves its vector alone.
- `SpmvMtCheck_proofs`, for the three programs with any threads, passes and
  turns: the parties of the barrier are the workers and, in the check loops
  only, the calling thread; its control point also tells which kernels are
  compiled and which threads exist (`ModeInv`).  Hence `CheckNeverFails`,
  `NoRaceWithMain` and `KernelsExist`.
- `SpmvSymMt_proofs`, for the four symmetric loops, any partition, any rows that
  the parts reach and any number of passes: a pass is three arrivals, and what a
  thread still has to clear or reduce tells where in its phase it is.  Hence
  `NoDataRace`, which needs nothing of the map.  `DataInv` adds what the vectors
  hold, a part for each third of a pass.  Before the first barrier (`Cleared`) the
  input is ready unless somebody has still to fill it, the last product is whole
  until the calling thread overwrites it, and each thread has cleared the entries
  of its list that it does not have left.  Before the second (`Computed`) an
  element of a private vector, or of a row, is clear or has its thread's share,
  as that thread's control point says.  Before the third (`Reduced`) a row has the
  shares of its owner and of the entries no longer left.  The proof that a step
  keeps it has a lemma for each action; a barrier call either waits, or opens the
  barrier when all others sleep there, and then one third's description implies
  the next one's (`OpenFirst`, `OpenSecond`, `OpenThird`).  The first and third
  of these need the map: `MakeMapOnce` says that clearing all lists clears every
  element in use and reducing them adds each once.  Hence `MapCovers` and
  `EveryPassComplete`.
- `Cg_proofs`, for any system, parts and iterations: an iteration is eight
  arrivals, or nine, and from the equality of two threads' arrivals follows that
  of their phases and iterations (`ThreadsInStep`).  Hence `NoDataRace`: what two
  threads touch in the same phase is apart, phase by phase, because the parts
  and the even pieces are disjoint, and because the map gives a row to one thread
  (`MakeMapOnce` again).  `SequentialMethodFollowed` is about the numbers.  Its first
  half is algebra: values with their addition, NaN included, are a commutative
  monoid, so a sum may be taken in pieces (`Sum` adds up a function in the order of
  its arguments, and the library's folds would not do: nothing can be proved of
  them).  So the partial sums over the even pieces add up to the sum over the rows;
  and what the kernels leave in `temp` and the private vectors adds up to the product,
  because the parts split the rows and the matrix is symmetric.  NaN needs care: it
  must reach all of a vector or none of it (`Vectors`), since a kernel leaves out
  zeros, which the sequential product multiplies.  The second half is the invariant
  `DataInv`: each element of `temp` and of the private vectors, each partial sum and
  each scalar is the sequential method's after as many iterations as the threads that
  write it have been through the phases that do (`Times`).  That a phase finds what it
  reads as the phases before have left it follows from the equality of arrivals, once
  for all phases (`Leaving`); then there is a lemma for each phase.  The divisor
  is nowhere needed to be prime beyond the assumption that every number but 0 has a
  reciprocal.

*The reduction map.*  `Operators_proofs`, for any number of threads and rows and
any rows that the parts reach: each thread takes columns from where the one before
it stopped, never past the last, until it has its share of what is left
(`EndsRise`; that the share is always there, so that the loop of `MakeMap` stops
within the array, is `ShareFits`), so the columns are a partition
(`SharesPartition`), and listing a set by rank lists each element once
(`ListedOnce`).  What the two recursive functions of the model, the running sum and
the ends, satisfy is proved by induction in the form of sets: a set of numbers that
has the first and the successor of each has all, since otherwise there would be a
least one outside (`IntervalInduction`, from the well-foundedness of the natural
numbers; `IntervalRecursion` for functions defined by recursion).  `Sss` makes its
map with the same operators.

*The loaders.*  `LoadSplit_proofs`, for any matrix, loader and number of threads.
First what the iterators give: points in the order of the rows they say, and in a
symmetric matrix each row ends with its diagonal (`PointsOrdered`).  For a CSR matrix
this takes the iterator's recursion: it is in the row of each element, or, if the
first row is empty, in the first row throughout (`IteratorRowsAre`), which is finding
2.  The invariant then follows the builder: the row pointers so far delimit the points
of consecutive rows from `row_start` on, the open row those of `row_prev`; where the
iterator is in the matrix is tied to `row_start` between parts and to the length of
the diagonal within one.  The step that is not obvious is the end of a part: what
`row_start` advances by (row pointers, or diagonal) is never less than the rows the
kernel will write, because a symmetric part stops only in front of the row after its
last.  Hence `PartsAreApart` for every loader, and `PartsKnowTheirPlace` unless the
first row of a CSR matrix is empty, wherever the shares end.  That nothing is lost
does need the shares (`LoadInv`): the parts have the first `cnt` points, the open one
those from there to the iterator, and the last thread's share is all that is left, so
it cannot stop before the end.  Hence `NothingIsLost`.

*Coordinates.*  `Operators_proofs`, for matrices of every size: `RoundTrip`, that
mapping an entry to any of the iteration orders and back gives the entry (what
`EntriesInPlace` checks on small matrices), and `ColumnsRunAlong`, that k columns
in the transformed row are k steps of the kernel's walk in the matrix, for
blocks if they start at an aligned row or column.  The latter is why
`DoEncodeBlock` trims runs, and why `PatternsReachTheirEntries` holds.  Division
and remainder are dealt with by a case for each of the eight block sizes.

*The internal matrix.*  `SpmTransform_proofs`, for matrices of any size and any set of
orders.  That entries are in place and rows in order is not inductive: a step needs
to know what the matrix is, not only what is right about it.  `Stored` says so: a
matrix is what loading its entries in its order would give, the images of the entries
under `Xform`, ranked row by row, and row pointers that count them.  Sorting by rank
has one result (`SortIs`, `SortUnique`), counting the points before a row gives the
row pointers that `Finalize` leaves (`CountIs`, `BuiltHolds`), and the row an element
lies in by them is its point's (`PointsAre`).  By `RoundTrip` a transformation first
finds the entries again and then their images in the new order, so the result is
`Stored` with the same entries, wherever it came from (`TransformedStored`).  A window
is tied to the matrix as it was when the window was taken: its rows' entries are one
stretch of the elements (`WindowPoints`), in every order the window has as many, so
what its transformations leave in the shared elements is the old matrix with that
stretch replaced (`TransformedWindow`); and in the matrix's own order the stretch and
the row pointers that go back are those that were there (`Returned`).  Hence all five
properties of the run `spm_transform`.

*The encoder.*  For matrices of every size, any orders and any distances; what it
does to a row and to a matrix in `Operators_proofs`, the invariant in `Csx_proofs`.
The passes over a row, over its groups and over a run are recursive functions; that
each obeys its equations is a lemma of its own, by `IntervalInduction`, and what a
pass has made after k elements is an invariant over k.  The result is
`EncodeRowCovers`: the new elements stand for the old ones in their order, each for
a stretch of them, the stretches follow each other and leave nothing out, and a
stretch of more than one is at equal distances and, if it is a block, starts at an
aligned column.  By `StepsAlong`, the converse of `ColumnsRunAlong`, such a stretch
lies along the pattern's direction in the matrix, in whatever order it was found.
The inductive invariant (`PartsInv`) says of each part that it holds a set of items
in its own order, in the sense of `SpmTransform_proofs` (`Keeps`): each item has the
entries that its pattern reaches from its first one, and each entry of the part is
in one place of one item.  An encoding transforms the part, replaces each stretch by
one item, which lies where the first one of the stretch does, and transforms it back
(`EncodedPart`). Hence `EncodingKeepsEntries`.

*The writer and the kernel.*  `Csx_proofs`, but for the numbers; both sides of the
ctl, from the bytes up.  A number is read back from where it was put, whatever
stands around it (`NumbersReadBack` for those of variable length, `FixedReadsBack`
for the others): by induction over its digits, with the powers of the base as an
opaque sequence, so that the solver sees only one multiplication at a time.  A unit
is described by what it says (flag, size, row jump, column, deltas) and by where its
bytes are (`WrittenAt`), which later appends do not change; reading its head and its
deltas there gives what it says (`HeadIsRead`), although the reader learns only from
the flags byte which of the numbers are present, and pads as the writer aligned.
`TemplatesReach` is the other half: the product loops of a pattern's template run
over the entries `Reached` by the pattern.  So a unit leads the kernel from one
place, row, column and number of values to the next (`Trace`), and the invariant of
the writer is that there is a trace for all it has written, that ends where the next
unit will begin (`Ready` within a row, `Boundary` between two): the column it takes
its deltas from is the kernel's, the rows it has still to jump are those the kernel
is behind, and the values of the trace are those of the elements so far.  That each
value stands for its entry comes from `PartsInv`, through `MakeCsx`'s merging of the
two parts of a symmetric matrix, in which the elements left of the thread's rows
come first (`BothRows`, and `SymRowIs` for the split of a row by `DoSymRow`).
`StageInv` says what each stage has made; while the kernel runs, that it is at a
state of the trace and has multiplied the values so far, mirrored them to the side
their columns call for, and run the diagonal up to its row (`KernelBetweenUnits`).
The invariant of all stages is `CsxInv` (`InductiveInvariant`).  Hence
`KernelMultipliesTheMatrix`, `MirrorsGoToTheirPhase`, `DiagonalsAreMultipliedOnce`
and, since a manager only stops when the ids of the patterns are used up,
`AbortsWhenOutOfFlags`.  The existential of `Trace` is over sequences of units and
is nothing TLC could enumerate; what it implies of the state is what the run `csx`
checks.

*Only model-checked.*  Liveness, and the fairness part of the refinement (`ENABLED`
is out of the prover's reach): `Termination`, `CheckEnds`, `EncodeAllEnds` and the
fairness of `ImplementsPowerIteration`.  Of the safety properties, those of
`DrleManager` and `Formats`: they compare the choices of `EncodeAll`, and the
products of four formats, with definitions that go through the whole matrix, and
each format would need what `Csx_proofs` is for CSX.

## 6. Not modelled

- `check_serial_loop` and its symmetric variant, which run one thread at a time;
  the outermost loop of the solver over solves (`-L`).
- `DRLE_Manager::MakeEncodeTree` and the encodings' printing; the NUMA build's
  other scan of a row (`EncodeRun`); `ComputeSortSplits` by rows (unreachable).
- The JIT as a program: text substitution, Clang and LLVM.  What the text it
  emits does is `MultTemplates` and the kernel of `Csx`.  The former back end
  (`csx/oldjit.cc`) is not built.
- The texts of the specialised block kernels of BCSR one by one: they are the same
  loop unrolled for each size, and `BcsrRow` is mapped to that of 2x3.  The size
  functions of all formats.
- What a kernel does with a ctl of length zero: its do-while loop reads a unit
  that is not there, and nothing about the outcome can be said from the source.
- The zero-based variant of the CSR iterator (`csx/csr.h:175`), which no caller uses.
- Pattern ids as numbers: they are pairs of order and distance, so that distances of
  10000 and more, which only the user's list can name and which would run into the ids
  of the next order, are not told from others.
- Performance counters, timers, drawing, scripts, parsing of files and of the
  environment.  Failure of an allocation ends the program and is not a behaviour
  of interest.

## 7. What could come next

The copies of `x` on several nodes as buffers of their own; `MakeEncodeTree` as the
exhaustive search that `EncodeAll`'s choices can be compared with; theorems about the
choices of `EncodeAll` and about the other formats.
