---------------------------- MODULE SpmTransform ----------------------------
(***************************************************************************)
(* A sparse matrix under any sequence of SPM::Transform calls, as the      *)
(* encoder makes them for each iteration order it examines, and of windows *)
(* of it that are taken, transformed and put back, as sampling does.  The  *)
(* elements of a window are the matrix's own: while a transformed window   *)
(* is out the matrix is in disorder.  The item of an element is the matrix *)
(* entry it stands for.                                                    *)
(***************************************************************************)
EXTENDS SpmMatrix

CONSTANTS
  Shapes,  \* the <<rows, columns>> of the matrices considered
  Orders   \* the iteration orders to transform among

ASSUME ShapesAssumption == Shapes \subseteq (Nat \ {0}) \X (Nat \ {0})
ASSUME OrdersAssumption == Orders \subseteq IterOrders

VARIABLES
  spm,
  window,   \* the window that is out, or NoWindow
  before    \* history: the matrix when the window was taken

vars == <<spm, window, before>>

NoWindow == [type |-> <<"NONE", 0>>]

Entries(rows, cols) == [y : 1..rows, x : 1..cols]

Init ==
  /\ \E shape \in Shapes : \E entries \in SUBSET Entries(shape[1], shape[2]) :
       spm = Loaded({[y |-> e.y, x |-> e.x, item |-> e] : e \in entries}, shape[2])
  /\ window = NoWindow /\ before = <<>>

Transform(t) ==
  /\ window = NoWindow /\ t # spm.type
  /\ spm' = Transformed(spm, t)
  /\ UNCHANGED <<window, before>>

\* GenAllStats takes its windows when the matrix has its own order, and leaves
\* out the empty ones.
TakeWindow(rs, length) ==
  /\ window = NoWindow /\ spm.type = HORIZONTAL
  /\ rs < GetNrRows(spm)
  /\ GetWindow(spm, rs, length).elems # <<>>
  /\ window' = GetWindow(spm, rs, length) /\ before' = spm
  /\ UNCHANGED spm

TransformWindow(t) ==
  /\ window # NoWindow /\ t # window.type
  /\ window' = Transformed(window, t)
  /\ spm' = WithShared(spm, Transformed(window, t))
  /\ UNCHANGED before

ReturnWindow ==
  /\ window # NoWindow /\ window.type = spm.type
  /\ spm' = PutWindow(spm, window)
  /\ window' = NoWindow /\ before' = <<>>

Next ==
  \/ \E t \in Orders : Transform(t) \/ TransformWindow(t)
  \/ \E rs \in 0..(GetNrRows(spm) - 1), length \in 1..GetNrRows(spm) : TakeWindow(rs, length)
  \/ ReturnWindow

Spec == Init /\ [][Next]_vars

-----------------------------------------------------------------------------
\* A matrix whose points mapped back are their own entries, each once.
InPlace(m, shift) ==
  /\ \A p \in ToSet(Points(m)) :
       RevXform(m.type, p, m.nrRows, m.nrCols) = Point(p.item.y - shift, p.item.x)
  /\ \A j, k \in DOMAIN m.elems : m.elems[j].item = m.elems[k].item => j = k

\* No transformation displaces or duplicates an entry: mapping the points of the
\* matrix, and of the window that is out, back gives each entry's own coordinates
\* (csx/spm.cc, Transform).
EntriesInPlace ==
  IF window = NoWindow THEN InPlace(spm, 0) ELSE InPlace(window, window.rowStart)

\* Rows are contiguous, complete and sorted by column, whatever the path of
\* transformations: the encoder scans them for runs of increasing columns.
RowsSorted ==
  LET m == IF window = NoWindow THEN spm ELSE window
  IN  /\ m.rowptr[1] = 0 /\ Last(m.rowptr) = Len(m.elems)
      /\ \A k \in 1..(Len(m.elems) - 1) : CooLess(Points(m)[k], Points(m)[k + 1])

\* The number of rows of any order stays below max_rowptr_size_, the size the
\* row pointer array is created with.  (It is a dynamic array and could grow.)
RowPtrFits ==
  \A m \in {spm, window} \ {NoWindow} : Len(m.rowptr) <= m.nrRows + m.nrCols + 1

\* No transformation loses an entry, of the matrix or through a window.
Items == {spm.elems[k].item : k \in DOMAIN spm.elems}
KeepsEntries == [][Items' = Items]_vars

\* A window put back leaves the matrix as it was when the window was taken, though
\* transformations have moved its elements within it and dropped row pointers
\* (csx/drle.cc, GenAllStats).
WindowLeavesMatrix == [][ReturnWindow => spm' = before]_vars
=============================================================================
