------------------------------ MODULE Formats -------------------------------
(***************************************************************************)
(* A matrix goes through one of the other storage formats: it is loaded    *)
(* from the file, dealt to the threads, placed on the memory nodes, and    *)
(* multiplied once (lib/spm: the _init_mmf, _numa_init_mmf and _multiply   *)
(* of each method).  The loops around the product are in SpmvMtBench and   *)
(* the modules beside it; here the threads only run in any order.          *)
(***************************************************************************)
EXTENDS Sss, Vbl, Bcsr, NumaPlacement

CONSTANTS
  Cases,      \* the calls considered: [method, mat, n, nodes, r, c]
  ValueSize,  \* sizeof(ELEM_TYPE)
  IndexSize   \* sizeof(SPM_CRS_IDX_TYPE)

(***************************************************************************)
(* n = 0 is the serial method.  A matrix with a sequence of nodes, one for *)
(* each thread, goes through the numa variant.  "elmer" is get_spm, which  *)
(* has no serial or numa variant.  r and c are the block's for "bcsr".     *)
(***************************************************************************)
Methods == {"crs", "elmer", "sss", "vbl", "bcsr"}

ASSUME CasesAssumption ==
  \A case \in Cases :
    /\ case.method \in Methods /\ case.n \in Nat
    /\ Len(case.nodes) \in {0, case.n}
    /\ case.method = "elmer" => case.n > 0 /\ case.nodes = <<>>
ASSUME SizesAssumption == {ValueSize, IndexSize} \subseteq Nat \ {0}

VARIABLES
  case,     \* the call
  pc,       \* "load", "split", "place", "run", "reduce", "done"; "abort" after a
            \* failed assertion, "undefined" after an access outside an array
  store,    \* the matrix in its format
  parts,    \* the parts of the threads
  placed,   \* the arrays in numa memory: [name, size, parts, pages], a node for each page
  y, temps, \* the result and the private vectors
  ran       \* threads that are through with the phase

vars == <<case, pc, store, parts, placed, y, temps, ran>>

Threads == 1..Len(parts)
AllRows == [begin |-> 0, end |-> case.mat.nrows, bstart |-> 0]

\* What y holds before: the serial loops clear it, the parallel ones do not.
Before == IF case.n = 0 THEN <<>> ELSE <<<<"old", 0>>>>

Init ==
  /\ case \in Cases
  /\ pc = "load"
  /\ store = <<>> /\ parts = <<>> /\ placed = {} /\ ran = {}
  /\ y = [i \in 0..(case.mat.nrows - 1) |-> Before]
  /\ temps = <<>>

-----------------------------------------------------------------------------
\* The CSR matrix that the other formats start from.
FromFile == CrsInitMmf(case.mat)

Loads ==
  CASE case.method = "sss" -> SssLoads(case.mat)
    [] case.method = "vbl" -> CrsLoads(case.mat) /\ VblLoads(FromFile)
    [] case.method = "elmer" -> TRUE
    [] OTHER -> CrsLoads(case.mat)

\* The rows an outside caller has: without elements at the end, too.
ElmerArrays ==
  BaseOne([FromFile EXCEPT !.rowptr =
             @ \o [k \in 1..(case.mat.nrows + 1 - Len(@)) |-> Len(FromFile.cols)]])

Stored ==
  CASE case.method = "crs" -> FromFile
    [] case.method = "elmer" -> ElmerArrays
    [] case.method = "sss" -> SssInitMmf(case.mat)
    [] case.method = "vbl" -> VblInitCrs(FromFile)
    [] case.method = "bcsr" -> BcsrInitCrs(FromFile, case.mat.ncols, case.r, case.c)

(* init_mmf of the serial method.                                          *)
Load ==
  /\ pc = "load"
  /\ IF Loads THEN store' = Stored /\ pc' = "split"
     ELSE pc' = "abort" /\ UNCHANGED store
  /\ UNCHANGED <<case, parts, placed, y, temps, ran>>

\* The parts of the multithreaded method, if its split stays inside its arrays.
Split ==
  CASE case.method = "crs" -> CrsMtParts(store, case.n)
    [] case.method = "elmer" -> GetSpmParts(store, case.n)
    [] case.method = "sss" -> SssMtParts(store, case.n)
    [] case.method = "vbl" -> VblMtParts(store, case.n)
    [] case.method = "bcsr" -> BcsrMtParts(store, case.r, case.n)

SplitDefined ==
  CASE case.method = "vbl" -> SplitInBounds(VblMtEnds(store, case.n), case.n)
    [] case.method = "bcsr" -> SplitInBounds(BcsrMtEnds(store, case.n), case.n)
    [] OTHER -> Len(Split) = case.n

(* init_mmf of the multithreaded method; the serial one works on all rows. *)
SplitRows ==
  /\ pc = "split"
  /\ IF case.n = 0 THEN parts' = <<AllRows>> /\ pc' = "run"
     ELSE IF SplitDefined
       THEN parts' = Split /\ pc' = IF case.nodes = <<>> THEN "run" ELSE "place"
       ELSE pc' = "undefined" /\ UNCHANGED parts
  /\ temps' = [t \in DOMAIN parts' |-> [i \in DOMAIN y |-> <<>>]]
  /\ UNCHANGED <<case, store, placed, y, ran>>

-----------------------------------------------------------------------------
\* The bytes of each part's share of an array with one element per row, after
\* whose last row there is one more; of the elements; and of the blocks.
RowBytes(size, extra, scale) ==
  [t \in Threads |->
     (((parts[t].end - parts[t].begin) \div scale) + (IF t = Len(parts) THEN extra ELSE 0)) * size]
ElemBytes(size, scale, per) ==
  [t \in Threads |->
     ((RowBegin(store, parts[t].end \div scale) - RowBegin(store, parts[t].begin \div scale))
        \div per) * size]
BlockBytes(size) == [t \in Threads |-> (parts[t].bend - parts[t].bstart) * size]

\* An array of count entries, and its parts.
Array(name, count, size, bytes) == [name |-> name, size |-> count * size, parts |-> bytes]

\* The elements stored, for BCSR with their padding.
NrStored == RowBegin(store, NrRows(store))

CrsArrays ==
  {Array("rowptr", NrRows(store) + 1, IndexSize, RowBytes(IndexSize, 1, 1)),
   Array("colind", NrStored, IndexSize, ElemBytes(IndexSize, 1, 1)),
   Array("values", NrStored, ValueSize, ElemBytes(ValueSize, 1, 1))}
SssArrays ==
  CrsArrays \cup {Array("dvalues", NrRows(store), ValueSize, RowBytes(ValueSize, 0, 1))}
\* The parts of the row pointers of VBL and BCSR come without the last entry.
VblArrays ==
  {Array("rowptr", NrRows(store) + 1, IndexSize, RowBytes(IndexSize, 0, 1)),
   Array("bcolind", Len(store.blocks), IndexSize, BlockBytes(IndexSize)),
   Array("bsize", Len(store.blocks), 1, BlockBytes(1)),
   Array("values", NrStored, ValueSize, ElemBytes(ValueSize, 1, 1))}
BcsrArrays ==
  {Array("rowptr", NrRows(store) + 1, IndexSize, RowBytes(IndexSize, 0, case.r)),
   Array("bcolind", Len(store.bcols), IndexSize,
         ElemBytes(IndexSize, case.r, case.r * case.c)),
   Array("bvalues", NrStored, ValueSize, ElemBytes(ValueSize, case.r, 1))}

(* _numa_init_mmf: the arrays move to interleaved memory.                  *)
Place ==
  /\ pc = "place"
  /\ LET arrays == CASE case.method = "crs" -> CrsArrays
                     [] case.method = "sss" -> SssArrays
                     [] case.method = "vbl" -> VblArrays
                     [] case.method = "bcsr" -> BcsrArrays
     IN  placed' = {a @@ [pages |-> AllocInterleaved(a.size, a.parts, case.nodes)] : a \in arrays}
  /\ pc' = "run"
  /\ UNCHANGED <<case, store, parts, y, temps, ran>>

\* The next phase of the threads, and what follows the last one of it.
Leave(t, next) ==
  IF ran \cup {t} = Threads THEN ran' = {} /\ pc' = next ELSE ran' = ran \cup {t} /\ pc' = pc

\* Does the kernel of thread t stay inside the vectors and the matrix.
RunsInside(t) ==
  CASE case.method = "bcsr" -> /\ BcsrWritesInside(case.mat.nrows, case.r)
                               /\ BcsrReadsInside(store, case.mat.ncols, case.c)
    [] case.method = "vbl" -> VblReadsInside(store, parts[t])
    [] OTHER -> TRUE

(* The kernel of thread t.                                                 *)
Run(t) ==
  /\ pc = "run" /\ t \in Threads \ ran /\ RunsInside(t)
  /\ CASE case.method = "crs" -> y' = CrsMultiply(store, parts[t], y) /\ UNCHANGED temps
       [] case.method = "elmer" -> y' = MultiplyBaseOne(store, parts[t], y) /\ UNCHANGED temps
       [] case.method = "vbl" -> y' = VblMultiply(store, parts[t], y) /\ UNCHANGED temps
       [] case.method = "bcsr" ->
            y' = BcsrMultiply(store, case.r, case.c, parts[t], y) /\ UNCHANGED temps
       [] case.method = "sss" ->
            LET out == SssMultiply(store, parts[t], [y |-> y, temp |-> temps[t]])
            IN  y' = out.y /\ temps' = [temps EXCEPT ![t] = out.temp]
  /\ Leave(t, IF case.method = "sss" /\ case.n > 0 THEN "reduce" ELSE "done")
  /\ UNCHANGED <<case, store, parts, placed>>

(* The kernel writes after the end of y, or reads after that of x or of    *)
(* the values.                                                             *)
RunOutside(t) ==
  /\ pc = "run" /\ t \in Threads \ ran /\ ~RunsInside(t)
  /\ pc' = "undefined"
  /\ UNCHANGED <<case, store, parts, placed, y, temps, ran>>

(* Thread t's part of the reduction.                                       *)
Reduce(t) ==
  /\ pc = "reduce" /\ t \in Threads \ ran
  /\ y' = SssReduce(SssMakeMap(store, parts), t, y, temps)
  /\ Leave(t, "done")
  /\ UNCHANGED <<case, store, parts, placed, temps>>

Finished == pc \in {"done", "abort", "undefined"} /\ UNCHANGED vars

Next ==
  \/ Load \/ SplitRows \/ Place
  \/ \E t \in Threads : Run(t) \/ RunOutside(t) \/ Reduce(t)
  \/ Finished

Spec == Init /\ [][Next]_vars

-----------------------------------------------------------------------------
\* Row i of the matrix times x: what has to be in y[i].
Product(i) ==
  LET row == SelectSeq(case.mat.points, LAMBDA p : p.row = i)
  IN  [k \in DOMAIN row |-> <<row[k].val, row[k].col>>]

\* What y[i] holds: with padding, the element of x is multiplied by zero.
Terms(i) == SelectSeq(y[i], LAMBDA t : t[1] # Pad)

\* The columns of row i with an element to store: SSS stores the diagonal apart.
StoredCols(i) ==
  {case.mat.points[k].col : k \in {k \in DOMAIN case.mat.points :
     /\ case.mat.points[k].row = i
     /\ case.method = "sss" => case.mat.points[k].col < i}}

EmptyRows == {i \in DOMAIN y : StoredCols(i) = {}}

\* The product is that of the matrix in the file, as the check that runs it against
\* the serial CSR expects (lib/spm/spmv_loops_mt.c, check_mt_loop).  There are two
\* exceptions.  get_spm may leave rows at the end to nobody; those that do belong to
\* a part are right.  And VBL shifts the blocks after a row without elements: the
\* rows up to the first of these are right.
ProductIsMatrixTimesX ==
  pc = "done" =>
    \A i \in DOMAIN y :
      /\ case.method = "elmer" => \E t \in Threads : parts[t].begin <= i /\ i < parts[t].end
      /\ case.method = "vbl" => \A j \in EmptyRows : i <= j
      => Terms(i) = Product(i)

\* Elements that VBL adds to the block of their left neighbour: not one whose run
\* of columns fills whole blocks before it.
Extending ==
  LET RunTo(i, c) == {b \in 0..c : b..c \subseteq StoredCols(i)}
  IN  UNION {{<<i, c>> : c \in {c \in StoredCols(i) :
                (Cardinality(RunTo(i, c)) - 1) % BlockMax # 0}} : i \in DOMAIN y}

\* An assertion of the loaders fails for a matrix whose last row has no element to
\* store, and of VBL's also for one with more empty rows than elements that extend a
\* block (lib/spm/vbl/spm_vbl.c, init_crs); it fails for no other.
AbortsOnEmptyRows ==
  pc # "load" =>
    (pc = "abort" <=>
       /\ case.method # "elmer"
       /\ \/ case.mat.nrows - 1 \in EmptyRows
          \/ case.method = "vbl" /\ Cardinality(EmptyRows) > Cardinality(Extending))

\* The longest row, of blocks for BCSR.
LongestRow == Max({RowCount(store, i) : i \in 0..(NrRows(store) - 1)})

\* The splits leave their arrays only for matrices that are small or uneven: never
\* if the elements are n * n times as many as those of the longest row.  The kernels
\* do so only for BCSR's blocks that are cut off and VBL's shifted ones.
EvenMatricesSplit ==
  pc = "undefined" =>
    \/ case.method = "bcsr" /\ case.mat.nrows % case.r # 0
    \/ case.method = "bcsr" /\ case.mat.ncols % case.c # 0
    \/ case.method = "vbl" /\ EmptyRows # {}
    \/ RowBegin(store, NrRows(store)) - RowBegin(store, 0) < case.n * case.n * LongestRow

\* The parts tile the arrays, but for the last entry of VBL's and BCSR's row pointers.
\* Every page of the parts is on a node that no other has more of the page's bytes on,
\* the check of the allocation (which the code leaves out for the sizes of VBL's blocks)
\* would find it where it should be, and a page that is bound
\* to no node holds nothing but that last entry (lib/spm/numa_util.c and the
\* _numa_init_mmf functions).
PagesOnMajorityNode ==
  \A a \in placed :
    LET tiled == SumOf(a.parts, 1, Len(a.parts))
    IN  /\ a.size - tiled =
             IF a.name = "rowptr" /\ case.method \in {"vbl", "bcsr"} THEN IndexSize ELSE 0
        /\ CheckInterleaved(a.pages, a.parts, case.nodes)
        /\ \A p \in DOMAIN a.pages :
             IF a.pages[p] = Unbound THEN p * PageSize >= tiled
             ELSE \A nd \in ToSet(case.nodes) :
                    BytesOn(a.parts, case.nodes, p, a.pages[p])
                      >= BytesOn(a.parts, case.nodes, p, nd)
=============================================================================
