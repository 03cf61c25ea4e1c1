----------------------------- MODULE SpmMatrix ------------------------------
(***************************************************************************)
(* The internal sparse matrix (class SPM, csx/spm.h and csx/spm.cc): its   *)
(* elements row by row with row pointers, in some iteration order.  An     *)
(* element has a column and an item: what it holds, which no operation     *)
(* here looks at.                                                          *)
(***************************************************************************)
EXTENDS SpmCoords, SequencesExt, FiniteSetsExt

\* Faulty variant: the leading zero of the row pointers is missing.
RowPtrOf_NoLeadingZero(pts, first) ==
  IF pts = <<>> THEN <<0>>
  ELSE <<>> \o [i \in 1..(Last(pts).y - first + 1) |->
                  Quantify(DOMAIN pts, LAMBDA k : pts[k].y < first + i)]

(***************************************************************************)
(* SetElems with no limit, then Finalize: every row from the first one to  *)
(* the last that has a point gets a row pointer, empty rows included.      *)
(***************************************************************************)
RowPtrOf(pts, first) ==
  IF pts = <<>> THEN <<0>>
  ELSE <<0>> \o [i \in 1..(Last(pts).y - first + 1) |->
                   Quantify(DOMAIN pts, LAMBDA k : pts[k].y < first + i)]

ElemsOf(pts) == <<>> \o [k \in DOMAIN pts |-> [x |-> pts[k].x, item |-> pts[k].item]]

\* CooCmp: row-major order.
CooLess(a, b) == a.y < b.y \/ (a.y = b.y /\ a.x < b.x)

\* sort(elems, elem_cmp_less): each point at the place its rank gives it; no two
\* elements share their coordinates.
Rank(pts) == [p \in pts |-> Cardinality({q \in pts : CooLess(q, p)}) + 1]
Sort(pts) ==
  LET rank == Rank(pts)
  IN  [k \in 1..Cardinality(pts) |-> CHOOSE p \in pts : rank[p] = k]

\* GetNrRows: of the current order, while nrRows stays what was loaded.
GetNrRows(m) == Len(m.rowptr) - 1

\* RowBegin .. RowEnd of row i.
Row(m, i) == SubSeq(m.elems, m.rowptr[i] + 1, m.rowptr[i + 1])

\* PntIter: the points in storage order, each with the row it lies in.
Points(m) ==
  LET RowOf(k) == CHOOSE r \in 1..GetNrRows(m) : m.rowptr[r] < k /\ k <= m.rowptr[r + 1]
  IN  [k \in DOMAIN m.elems |->
         [y |-> RowOf(k), x |-> m.elems[k].x, item |-> m.elems[k].item]]

\* A matrix file loaded for one thread: the rows stop at the last one that has
\* an element.
Loaded(pts, cols) ==
  LET sorted == Sort(pts)
      rowptr == RowPtrOf(sorted, 1)
  IN  [type |-> HORIZONTAL, rowptr |-> rowptr, elems |-> ElemsOf(sorted),
       nrRows |-> Len(rowptr) - 1, nrCols |-> cols]

\* SPM::Transform: nothing to do when the matrix already has that order.
Transformed(m, t) ==
  LET Moved(p) == TransformFn(m.type, t, p, m.nrRows, m.nrCols)
      sorted == Sort({[y |-> Moved(p).y, x |-> Moved(p).x, item |-> p.item] :
                      p \in ToSet(Points(m))})
  IN  IF t = m.type THEN m
      ELSE [m EXCEPT !.type = t, !.rowptr = RowPtrOf(sorted, 1), !.elems = ElemsOf(sorted)]

(***************************************************************************)
(* GetWindow: rows rs+1 .. rs+length (or to the last row) as a matrix of   *)
(* its own that shares their elements: first is where they begin.  A       *)
(* window has the columns of its matrix and counts its rows from one.      *)
(***************************************************************************)
GetWindow(m, rs, length) ==
  LET n == IF rs + length > GetNrRows(m) THEN GetNrRows(m) - rs ELSE length
      es == m.rowptr[rs + 1]
  IN  [type |-> m.type, rowptr |-> [i \in 1..(n + 1) |-> m.rowptr[rs + i] - es],
       elems |-> SubSeq(m.elems, es + 1, m.rowptr[rs + n + 1]),
       nrRows |-> n, nrCols |-> m.nrCols, rowStart |-> rs, first |-> es]

\* Faulty variant: the window's elements are written one place late.
WithShared_OneLate(m, window) ==
  [m EXCEPT !.elems = SubSeq(@, 1, window.first + 1) \o window.elems
                        \o SubSeq(@, window.first + Len(window.elems) + 2, Len(@))]

\* The matrix with what a transformation of its window has left in the elements
\* they share.
WithShared(m, window) ==
  [m EXCEPT !.elems = SubSeq(@, 1, window.first) \o window.elems
                        \o SubSeq(@, window.first + Len(window.elems) + 1, Len(@))]

\* Faulty variant: the window's row pointers go back one row late.
PutWindow_RowLate(m, window) ==
  [m EXCEPT !.rowptr =
     SubSeq(@, 1, window.rowStart + 1)
       \o [i \in DOMAIN window.rowptr |-> m.rowptr[window.rowStart + 1] + window.rowptr[i]]
       \o SubSeq(@, window.rowStart + Len(window.rowptr) + 2, Len(@))]

\* PutWindow: the row pointers the window still has go back to their rows; the
\* elements are in place already.
PutWindow(m, window) ==
  [m EXCEPT !.rowptr =
     SubSeq(@, 1, window.rowStart)
       \o [i \in DOMAIN window.rowptr |-> m.rowptr[window.rowStart + 1] + window.rowptr[i]]
       \o SubSeq(@, window.rowStart + Len(window.rowptr) + 1, Len(@))]

\* How many elements there are up to the end of each row.
RowEnds(rows) ==
  LET end[i \in 0..Len(rows)] == IF i = 0 THEN 0 ELSE end[i - 1] + Len(rows[i])
  IN  end

\* SPM::Builder, used row after row: AllocElems copies the row, NewRow ends it.
Rebuilt(m, rows) ==
  LET end == RowEnds(rows)
      RowOf(k) == CHOOSE i \in 1..Len(rows) : end[i - 1] < k /\ k <= end[i]
      Elem(i, k) == rows[i][k - end[i - 1]]
  IN  [m EXCEPT !.elems = <<>> \o [k \in 1..end[Len(rows)] |-> Elem(RowOf(k), k)],
                !.rowptr = <<>> \o [i \in 1..(Len(rows) + 1) |-> end[i - 1]]]
=============================================================================
