----------------------------- MODULE LoadSplit ------------------------------
(***************************************************************************)
(* The row split: SPM::LoadMMF_mt and SPMSym::LoadMMF_mt (csx/spm.cc) with *)
(* their SetElems (csx/spm.h), and SPM::LoadCSR_mt with the iterator of    *)
(* csx/csr.h.  One pass over the points of the matrix, in row order, deals *)
(* whole rows to nr threads: a thread takes points until it has its share  *)
(* (limit) of what is left and the next point opens a row.                 *)
(*                                                                         *)
(* Only the row of a point matters here, and for a symmetric matrix        *)
(* whether it lies on the diagonal.  Its upper triangle is in the file     *)
(* too, but SetElems passes over it: it is left out of points.  The        *)
(* diagonal of a symmetric matrix is complete, or the final assertion of   *)
(* the loader fails.                                                       *)
(***************************************************************************)
EXTENDS Integers, Sequences, SequencesExt, FiniteSets

CONSTANTS
  Loaders,     \* of "SPM" (any matrix), "SPMSym" (symmetric matrices) and "CSR"
  NRows,       \* mmf.nrows
  MaxPerRow,   \* bound: points of a row below the diagonal, or in all
  ThreadCounts,\* the numbers of threads considered
  EmptyFirstRow\* may a CSR matrix begin with rows without elements?

ASSUME LoadersAssumption == Loaders \subseteq {"SPM", "SPMSym", "CSR"}
ASSUME NRowsAssumption == NRows \in Nat \ {0}
ASSUME MaxPerRowAssumption == MaxPerRow \in Nat
ASSUME ThreadCountsAssumption == ThreadCounts \subseteq Nat \ {0}
ASSUME EmptyFirstRowAssumption == EmptyFirstRow \in BOOLEAN

VARIABLES
  loader, nr,  \* the loader called and its nr argument
  points,      \* what the iterator gives, as [y, row, diag, val]: the row it says, the
               \* row of the matrix, and which point it is
  iter,        \* index of the point the iterator is at
  parts,       \* the parts that are finished: ret[0 .. i-1]
  cnt, rowStart, limit, rowPrev, \* locals of LoadMMF_mt and SetElems
  bld,         \* the builder: rowptr, elems, and diag (values of the diagonal)
  pc           \* "split", "elems" (in SetElems) or "done"

vars == <<loader, nr, points, iter, parts, cnt, rowStart, limit, rowPrev, bld, pc>>

Rows == 1..NRows

\* The row pointers of a matrix: row r has the elements after end[r - 1], up to end[r].
\* A symmetric matrix has up to r of them in row r, the diagonal one among them.
RowPointers(l) ==
  LET extra == IF l = "SPMSym" THEN 1 ELSE 0
      First(end, r) == IF r = 1 THEN 0 ELSE end[r - 1]
  IN  {end \in [Rows -> 0..(NRows * (MaxPerRow + extra))] :
         /\ \A q, r \in Rows : q <= r => end[q] <= end[r]
         /\ \A r \in Rows : end[r] - First(end, r) \in extra..(MaxPerRow + extra)
         /\ l = "SPMSym" => \A r \in Rows : end[r] - First(end, r) <= r
         /\ l = "CSR" /\ ~EmptyFirstRow => end[1] > 0}

\* The row of element k.
RowOf(end, k) == Min({r \in Rows : k <= end[r]})

\* The points of a file, row by row; the diagonal point of a symmetric matrix comes
\* after those below the diagonal.
FilePoints(l, end) ==
  [k \in 1..end[NRows] |->
     LET r == RowOf(end, k) IN [y |-> r, row |-> r, diag |-> l = "SPMSym" /\ k = end[r], val |-> k]]

\* Faulty variant: the iterator goes on by one row, whether or not it is empty.
NextRow_OneRow(end, row, elem) == IF end[row + 1] = elem THEN row + 1 ELSE row

\* CSR::iterator::operator++: on its way to element elem the iterator leaves the rows
\* that end before it (rows and elements from zero).
NextRow(end, row, elem) == Min({r \in row..NRows : r = NRows \/ end[r + 1] # elem})

\* Where the iterator is at each element.
IteratorRows(end) ==
  LET at[elem \in 0..(end[NRows] - 1)] ==
        IF elem = 0 THEN 0 ELSE NextRow(end, at[elem - 1], elem)
  IN  at

\* The points that begin() and operator++ pass.  Behind the last one operator++
\* reads beyond the row pointers; end() is made the same way and so compares equal.
CsrPoints(end) ==
  LET at == IteratorRows(end)
  IN  [k \in 1..end[NRows] |->
         [y |-> at[k - 1] + 1, row |-> RowOf(end, k), diag |-> FALSE, val |-> k]]

PointsOf(l, end) == IF l = "CSR" THEN CsrPoints(end) ELSE FilePoints(l, end)

NewBuilder == [rowptr |-> <<0>>, elems |-> <<>>, diag |-> <<>>]

Init ==
  /\ loader \in Loaders
  /\ \E end \in RowPointers(loader) : points = PointsOf(loader, end)
  /\ nr \in ThreadCounts
  /\ iter = 1
  /\ parts = <<>>
  /\ cnt = 0 /\ rowStart = 0 /\ limit = 0 /\ rowPrev = 0
  /\ bld = NewBuilder
  /\ pc = "split"

-----------------------------------------------------------------------------
\* Builder::GetElemsCnt
ElemsCnt == Len(bld.elems) + Len(bld.diag)

\* Builder::NewRow(rdiff)
NewRow(b, rdiff) == [b EXCEPT !.rowptr = @ \o [k \in 1..rdiff |-> Len(b.elems)]]

\* SetElems adds the current point.
AddPoint(p) ==
  IF p.diag THEN [bld EXCEPT !.diag = Append(@, p)]
  ELSE [NewRow(bld, p.y - rowPrev) EXCEPT !.elems = Append(@, p)]

\* Builder::Finalize: ends the last row if it has elements.
Finalize(b) == IF Last(b.rowptr) # Len(b.elems) THEN NewRow(b, 1) ELSE b

\* The conditions under which SetElems may stop in front of a point.
OpensRow(p) ==
  /\ ~p.diag /\ p.y # rowPrev
  /\ loader = "SPMSym" => rowPrev = p.y - 1

\* Faulty variant: a part may end inside a row.
Breaks_AnyPoint(p) == limit # 0 /\ ElemsCnt >= limit

\* limit 0 is no limit.
Breaks(p) == limit # 0 /\ ElemsCnt >= limit /\ OpensRow(p)

\* Faulty variant: the same share for every thread.
Share_Fixed == Len(points) \div nr

\* An equal share of what the threads before have left.
Share == (Len(points) - cnt) \div (nr - Len(parts))

(* The head of the loop over threads.                                      *)
BeginPart ==
  /\ pc = "split" /\ Len(parts) < nr
  /\ limit' = Share
  /\ rowPrev' = rowStart + 1
  /\ bld' = NewBuilder
  /\ pc' = "elems"
  /\ UNCHANGED <<loader, nr, points, iter, parts, cnt, rowStart>>

(* One turn of the loop in SetElems.                                       *)
TakePoint ==
  /\ pc = "elems" /\ iter <= Len(points)
  /\ ~Breaks(points[iter])
  /\ bld' = AddPoint(points[iter])
  /\ rowPrev' = IF points[iter].diag THEN rowPrev ELSE points[iter].y
  /\ iter' = iter + 1
  /\ UNCHANGED <<loader, nr, points, parts, cnt, rowStart, limit, pc>>

\* What row_start advances by: rowptr_size_ - 1, or the size of the diagonal.
RowsTaken(b) == IF loader = "SPMSym" THEN Len(b.diag) ELSE Len(b.rowptr) - 1

(* The end of SetElems, Finalize, and the rest of the loop over threads.   *)
EndPart ==
  /\ pc = "elems"
  /\ iter <= Len(points) => Breaks(points[iter])
  /\ LET b == Finalize(bld)
     IN  /\ parts' = Append(parts, [rowStart |-> rowStart, rowptr |-> b.rowptr,
                                    elems |-> b.elems, diag |-> b.diag])
         /\ rowStart' = rowStart + RowsTaken(b)
         /\ cnt' = cnt + ElemsCnt
         /\ bld' = b
  /\ pc' = "split"
  /\ UNCHANGED <<loader, nr, points, iter, limit, rowPrev>>

Return ==
  /\ pc = "split" /\ Len(parts) = nr
  /\ pc' = "done"
  /\ UNCHANGED <<loader, nr, points, iter, parts, cnt, rowStart, limit, rowPrev, bld>>

Finished == pc = "done" /\ UNCHANGED vars

Next == BeginPart \/ TakePoint \/ EndPart \/ Return \/ Finished

Spec == Init /\ [][Next]_vars

-----------------------------------------------------------------------------
\* The rows the kernel of a part clears and writes (csx->nrows of them).
NrRows(p) == Len(p.rowptr) - 1
KernelRows(p) == {p.rowStart + i : i \in 1..NrRows(p)}

\* A part knows where it is in the matrix: the element a kernel finds in local row
\* i lies in row rowStart + i of the matrix, and the k-th diagonal value belongs to
\* row rowStart + k.
EntriesAtTheirRows ==
  \A p \in ToSet(parts) :
    /\ \A i \in 1..NrRows(p) : \A k \in (p.rowptr[i] + 1)..p.rowptr[i + 1] :
         p.elems[k].row = p.rowStart + i
    /\ \A k \in DOMAIN p.diag : p.diag[k].row = p.rowStart + k
    /\ Last(p.rowptr) = Len(p.elems)

\* Two threads' kernels never write the same row of the result directly.
KernelRowsDisjoint ==
  \A i, j \in DOMAIN parts : i # j => KernelRows(parts[i]) \cap KernelRows(parts[j]) = {}

PointsIn(p) == ToSet(p.elems) \cup ToSet(p.diag)
InOrder(s) == \A i, j \in DOMAIN s : i < j => s[i].val < s[j].val

\* Every point is in exactly one part, the diagonal ones in diag and the others in
\* elems: the assertion cnt == nnz at the end, and the parts in a row give back the
\* points in file order.
AllLoaded ==
  pc = "done" =>
    /\ cnt = Len(points)
    /\ UNION {PointsIn(p) : p \in ToSet(parts)} = ToSet(points)
    /\ \A i, j \in DOMAIN parts : i < j =>
         \A p \in PointsIn(parts[i]), q \in PointsIn(parts[j]) : p.val < q.val
    /\ \A p \in ToSet(parts) :
         /\ InOrder(p.elems) /\ \A q \in ToSet(p.elems) : ~q.diag
         /\ InOrder(p.diag) /\ \A q \in ToSet(p.diag) : q.diag

\* Every row of the result is written by the kernel of some thread, as the loops
\* that compare all of it with a serial multiplication expect.
EveryRowWritten ==
  pc = "done" => \A r \in Rows : \E p \in ToSet(parts) : r \in KernelRows(p)
=============================================================================
