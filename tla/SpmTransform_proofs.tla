------------------------- MODULE SpmTransform_proofs -------------------------
(***************************************************************************)
(* Proofs that the internal matrix keeps its entries and its order through *)
(* every sequence of transformations and windows, for matrices of any      *)
(* size.  Whatever the path, a matrix is what loading it in its order      *)
(* would give: its points are the entries' images in rank order and its    *)
(* row pointers count them.                                                *)
(***************************************************************************)
EXTENDS SpmTransform, Operators_proofs

-----------------------------------------------------------------------------
(***************************************************************************)
(* Here the items are entries, and their places their own coordinates.     *)
(***************************************************************************)
\* An entry counts its rows from shift + 1.
Position(e, shift) == Point(e.y - shift, e.x)
From(entries, shift) == [e \in entries |-> Position(e, shift)]
Image(t, e, shift, nrows, ncols) ==
  [y |-> Xform(t, Position(e, shift), nrows, ncols).y,
   x |-> Xform(t, Position(e, shift), nrows, ncols).x, item |-> e]
Images(t, entries, shift, nrows, ncols) ==
  {Image(t, e, shift, nrows, ncols) : e \in entries}

\* Entries of rows shift + 1 to shift + nrows.
Within(entries, shift, nrows, ncols) ==
  /\ nrows \in Nat /\ ncols \in Nat /\ shift \in Nat
  /\ IsFiniteSet(entries)
  /\ entries \subseteq [y : (shift + 1)..(shift + nrows), x : 1..ncols]

\* An entry's position lies in the matrix.
LEMMA PositionInside ==
  ASSUME NEW entries, NEW shift, NEW nrows, NEW ncols,
         Within(entries, shift, nrows, ncols), NEW e \in entries
  PROVE  /\ Matrix(nrows, ncols) /\ Inside(Position(e, shift), nrows, ncols)
         /\ e.y - shift \in 1..nrows /\ e.x \in 1..ncols
         /\ e = [y |-> e.y, x |-> e.x]
  BY DEF Within, Matrix, Inside, Position, Point, Pos

\* Where an entry is.
LEMMA FromIs ==
  ASSUME NEW entries, NEW shift, NEW e \in entries
  PROVE  /\ From(entries, shift)[e] = Position(e, shift)
         /\ From(entries, shift)[e].y = e.y - shift /\ From(entries, shift)[e].x = e.x
<1>1. From(entries, shift)[e] = Position(e, shift)
  BY DEF From
<1>2. Position(e, shift).y = e.y - shift /\ Position(e, shift).x = e.x
  BY DEF Position, Point
<1> QED
  BY Zenon, <1>1, <1>2

\* No two entries have one position.
LEMMA EntriesLie ==
  ASSUME NEW entries, NEW shift, NEW nrows, NEW ncols,
         Within(entries, shift, nrows, ncols)
  PROVE  Lie(entries, From(entries, shift), nrows, ncols)
<1>1. \A e \in entries : Position(e, shift) \in [y : 1..nrows, x : 1..ncols]
  BY PositionInside DEF Inside
<1>2. ASSUME NEW d \in entries, NEW e \in entries, Position(d, shift) = Position(e, shift)
      PROVE  d = e
  <2>1. /\ d = [y |-> d.y, x |-> d.x] /\ e = [y |-> e.y, x |-> e.x]
        /\ d.y \in Int /\ e.y \in Int /\ shift \in Int
    BY PositionInside DEF Within
  <2>2. d.y - shift = e.y - shift /\ d.x = e.x
    BY <1>2 DEF Position, Point
  <2>3. d.y = e.y
    BY <2>1, <2>2
  <2> QED
    BY Zenon, <2>1, <2>2, <2>3
<1>3. nrows \in Nat /\ ncols \in Nat /\ IsFiniteSet(entries)
  BY DEF Within
<1>4. \A e \in entries : From(entries, shift)[e] = Position(e, shift)
  BY FromIs
<1> DEFINE at == From(entries, shift)
<1> HIDE DEF at
<1>5. \A e \in entries : at[e] \in [y : 1..nrows, x : 1..ncols]
  BY Zenon, <1>1, <1>4 DEF at
<1>6. \A d, e \in entries : at[d] = at[e] => d = e
  BY Zenon, <1>2, <1>4 DEF at
<1> QED
  BY Zenon, <1>3, <1>5, <1>6 DEF Lie, at

\* An entry's point in an order is that of its position.
LEMMA ImageIsPlaced ==
  ASSUME NEW entries, NEW shift, NEW nrows, NEW ncols, NEW t, NEW e \in entries
  PROVE  Image(t, e, shift, nrows, ncols) = Placed(t, e, From(entries, shift), nrows, ncols)
  BY FromIs DEF Image, Placed

\* So are the points of all.
LEMMA ImagesAreAllPlaced ==
  ASSUME NEW entries, NEW shift, NEW nrows, NEW ncols, NEW t
  PROVE  Images(t, entries, shift, nrows, ncols)
           = AllPlaced(t, entries, From(entries, shift), nrows, ncols)
<1>1. \A e \in entries : Image(t, e, shift, nrows, ncols)
                           = Placed(t, e, From(entries, shift), nrows, ncols)
  BY ImageIsPlaced
<1> QED
  BY <1>1 DEF Images, AllPlaced

\* A transformation takes an entry's image in one order to its image in the other.
LEMMA ImageMoves ==
  ASSUME NEW entries, NEW shift, NEW nrows, NEW ncols,
         Within(entries, shift, nrows, ncols), NEW e \in entries,
         NEW t \in IterOrders
  PROVE  RevXform(t, Image(t, e, shift, nrows, ncols), nrows, ncols) = Position(e, shift)
<1>1. Lie(entries, From(entries, shift), nrows, ncols)
  BY EntriesLie
<1>2. Image(t, e, shift, nrows, ncols) = Placed(t, e, From(entries, shift), nrows, ncols)
  BY ImageIsPlaced
<1>3. From(entries, shift)[e] = Position(e, shift)
  BY DEF From
<1> QED
  BY <1>1, <1>2, <1>3, PlacedMoves

\* Where the maps lead: the rows of an order are numbered from one, and there are
\* fewer of them than rows and columns together.
LEMMA ImageRow ==
  ASSUME NEW entries, NEW shift, NEW nrows, NEW ncols,
         Within(entries, shift, nrows, ncols), NEW e \in entries,
         NEW t \in IterOrders
  PROVE  /\ Image(t, e, shift, nrows, ncols).y \in 1..(nrows + ncols)
         /\ Image(t, e, shift, nrows, ncols).x \in Int
         /\ t = HORIZONTAL => /\ Image(t, e, shift, nrows, ncols).y = e.y - shift
                              /\ Image(t, e, shift, nrows, ncols).x = e.x
<1> DEFINE at == From(entries, shift)
<1>1. Lie(entries, at, nrows, ncols)
  BY EntriesLie
<1>2. Image(t, e, shift, nrows, ncols) = Placed(t, e, at, nrows, ncols)
  BY ImageIsPlaced
<1>3. at[e].y = e.y - shift /\ at[e].x = e.x
  BY FromIs
<1> HIDE DEF at
<1> QED
  BY <1>1, <1>2, <1>3, PlacedRow

\* No two entries meet in any order.
LEMMA ImagesApart ==
  ASSUME NEW entries, NEW shift, NEW nrows, NEW ncols,
         Within(entries, shift, nrows, ncols), NEW t \in IterOrders
  PROVE  Apart(Images(t, entries, shift, nrows, ncols))
  BY EntriesLie, ImagesAreAllPlaced, PlacedApart

Sorted(t, entries, shift, nrows, ncols) == Sort(Images(t, entries, shift, nrows, ncols))

\* The points sorted are the same.
LEMMA SortedIsInRows ==
  ASSUME NEW entries, NEW shift, NEW nrows, NEW ncols, NEW t
  PROVE  Sorted(t, entries, shift, nrows, ncols)
           = InRows(t, entries, From(entries, shift), nrows, ncols)
  BY ImagesAreAllPlaced DEF Sorted, InRows

\* The sorted points are the entries' images, each once.
LEMMA SortedIs ==
  ASSUME NEW entries, NEW shift, NEW nrows, NEW ncols,
         Within(entries, shift, nrows, ncols), NEW t \in IterOrders,
         NEW s, s = Sorted(t, entries, shift, nrows, ncols)
  PROVE  /\ Stream(s)
         /\ \A k \in 1..Len(s) : /\ s[k].item \in entries
                                 /\ s[k] = Image(t, s[k].item, shift, nrows, ncols)
                                 /\ s[k].y \in 1..(nrows + ncols)
         /\ \A e \in entries : \E k \in 1..Len(s) : s[k].item = e
         /\ \A j, k \in 1..Len(s) : s[j].item = s[k].item => j = k
         /\ t = HORIZONTAL =>
              \A k \in 1..Len(s) : s[k].y = s[k].item.y - shift /\ s[k].x = s[k].item.x
<1> DEFINE at == From(entries, shift)
<1>1. Lie(entries, at, nrows, ncols)
  BY EntriesLie
<1>2. s = InRows(t, entries, at, nrows, ncols)
  BY SortedIsInRows
<1>3. \A e \in entries : Image(t, e, shift, nrows, ncols) = Placed(t, e, at, nrows, ncols)
  BY ImageIsPlaced
<1>5. \A e \in entries : at[e].y = e.y - shift /\ at[e].x = e.x
  BY FromIs
<1> HIDE DEF at
<1>4. /\ Stream(s)
      /\ \A k \in 1..Len(s) : /\ s[k].item \in entries
                              /\ s[k] = Placed(t, s[k].item, at, nrows, ncols)
                              /\ s[k].y \in 1..(nrows + ncols)
      /\ \A e \in entries : \E k \in 1..Len(s) : s[k].item = e
      /\ \A j, k \in 1..Len(s) : s[j].item = s[k].item => j = k
      /\ t = HORIZONTAL =>
           \A k \in 1..Len(s) : s[k].y = at[s[k].item].y /\ s[k].x = at[s[k].item].x
  BY <1>1, <1>2, InRowsIs
<1> QED
  BY <1>3, <1>4, <1>5

\* The matrix m holds the entries in its order, and no more row pointers than its
\* order can have rows.
Stored(m, entries, shift) ==
  /\ m.type \in IterOrders
  /\ Within(entries, shift, m.nrRows, m.nrCols)
  /\ \E n \in 1..(m.nrRows + m.nrCols + 1) :
       /\ Holds(m, Sorted(m.type, entries, shift, m.nrRows, m.nrCols), n)
       /\ m.type = HORIZONTAL => n <= m.nrRows + 1

\* That is to keep them at their positions.
LEMMA StoredKeeps ==
  ASSUME NEW m, NEW entries, NEW shift, Within(entries, shift, m.nrRows, m.nrCols)
  PROVE  Stored(m, entries, shift) <=> Keeps(m, entries, From(entries, shift))
  BY EntriesLie, SortedIsInRows DEF Stored, Keeps

\* The points of such a matrix are the sorted ones.
LEMMA StoredPoints ==
  ASSUME NEW m, NEW entries, NEW shift, Stored(m, entries, shift)
  PROVE  Points(m) = Sorted(m.type, entries, shift, m.nrRows, m.nrCols)
  BY StoredKeeps, KeptPoints, SortedIsInRows DEF Stored

\* What is built from the sorted points is such a matrix.
LEMMA BuiltStored ==
  ASSUME NEW m, NEW entries, NEW shift,
         m.type \in IterOrders, Within(entries, shift, m.nrRows, m.nrCols),
         m.elems = ElemsOf(Sorted(m.type, entries, shift, m.nrRows, m.nrCols)),
         m.rowptr = RowPtrOf(Sorted(m.type, entries, shift, m.nrRows, m.nrCols), 1)
  PROVE  Stored(m, entries, shift)
  BY EntriesLie, StoredKeeps, BuiltKeeps, SortedIsInRows

\* A transformation leaves such a matrix, with the same entries: it forgets nothing
\* of where it came from.
LEMMA TransformedStored ==
  ASSUME NEW m, NEW entries, NEW shift, Stored(m, entries, shift),
         NEW fields, Has(m, fields), MatrixFields \subseteq fields, NEW t \in IterOrders
  PROVE  /\ Stored(Transformed(m, t), entries, shift)
         /\ Has(Transformed(m, t), fields) /\ Transformed(m, t).type = t
         /\ OtherFieldsKept(Transformed(m, t), m, fields)
<1>1. Keeps(m, entries, From(entries, shift))
  BY StoredKeeps DEF Stored
<1>2. /\ Keeps(Transformed(m, t), entries, From(entries, shift))
      /\ Has(Transformed(m, t), fields) /\ Transformed(m, t).type = t
      /\ OtherFieldsKept(Transformed(m, t), m, fields)
  BY <1>1, TransformedKeeps
<1>3. Transformed(m, t).nrRows = m.nrRows /\ Transformed(m, t).nrCols = m.nrCols
  BY <1>2 DEF OtherFieldsKept, MatrixFields
<1> QED
  BY <1>2, <1>3, StoredKeeps DEF Stored

\* The elements of such a matrix are its entries, each once.
LEMMA StoredElems ==
  ASSUME NEW m, NEW entries, NEW shift, Stored(m, entries, shift)
  PROVE  HasElems(m, entries, Sorted(m.type, entries, shift, m.nrRows, m.nrCols))
  BY StoredKeeps, KeptElems, SortedIsInRows DEF Stored

-----------------------------------------------------------------------------
(***************************************************************************)
(* Windows.                                                                *)
(***************************************************************************)
\* f in the place of the elements of s after the first a.
Spliced(s, f, a) == SubSeq(s, 1, a) \o f \o SubSeq(s, a + Len(f) + 1, Len(s))

\* What a splice holds.
LEMMA Splice ==
  ASSUME NEW T, NEW s \in Seq(T), NEW f \in Seq(T), NEW a \in Nat, a + Len(f) <= Len(s),
         NEW r, r = Spliced(s, f, a)
  PROVE  /\ r \in Seq(T) /\ Len(r) = Len(s)
         /\ \A i \in 1..a : r[i] = s[i]
         /\ \A i \in 1..Len(f) : r[a + i] = f[i]
         /\ \A i \in (a + Len(f) + 1)..Len(s) : r[i] = s[i]
<1> DEFINE p == SubSeq(s, 1, a)
           q == SubSeq(s, a + Len(f) + 1, Len(s))
<1>1. Len(s) \in Nat /\ Len(f) \in Nat
  OBVIOUS
<1>2. p \in Seq(T) /\ Len(p) = a /\ \A i \in 1..a : p[i] = s[i]
  BY <1>1
<1>3. /\ q \in Seq(T) /\ Len(q) = Len(s) - (a + Len(f))
      /\ \A i \in 1..(Len(s) - (a + Len(f))) : q[i] = s[a + Len(f) + i]
  BY <1>1
<1> HIDE DEF p, q
<1> DEFINE g == p \o f
<1>4. g \in Seq(T) /\ Len(g) = Len(p) + Len(f)
      /\ \A i \in 1..(Len(p) + Len(f)) : g[i] = IF i <= Len(p) THEN p[i] ELSE f[i - Len(p)]
  BY Zenon, <1>2, ConcatProperties
<1>5. r = g \o q
  BY Zenon DEF Spliced, p, q
<1> HIDE DEF g
<1>6. /\ r \in Seq(T) /\ Len(r) = Len(g) + Len(q)
      /\ \A i \in 1..(Len(g) + Len(q)) : r[i] = IF i <= Len(g) THEN g[i] ELSE q[i - Len(g)]
  <2> DEFINE h == g \o q
  <2>0. g \in Seq(T) /\ q \in Seq(T)
    BY <1>3, <1>4
  <2>1. /\ h \in Seq(T) /\ Len(h) = Len(g) + Len(q)
        /\ \A i \in 1..(Len(g) + Len(q)) : h[i] = IF i <= Len(g) THEN g[i] ELSE q[i - Len(g)]
    BY Zenon, <2>0, ConcatProperties
  <2> HIDE DEF h
  <2> QED
    BY Zenon, <1>5, <2>1 DEF h
<1>7. /\ Len(r) = Len(s) /\ Len(g) = a + Len(f)
      /\ \A i \in 1..(a + Len(f)) : r[i] = g[i]
      /\ \A i \in 1..(Len(s) - (a + Len(f))) : r[a + Len(f) + i] = q[i]
  <2>1. Len(g) = a + Len(f) /\ Len(r) = Len(s)
    BY <1>1, <1>2, <1>3, <1>4, <1>6
  <2>2. Len(g) + Len(q) = Len(s)
    BY <1>1, <1>3, <2>1
  <2>3. ASSUME NEW i \in 1..(a + Len(f)) PROVE r[i] = g[i]
    <3>1. i \in 1..(Len(g) + Len(q)) /\ i <= Len(g)
      BY <1>1, <2>1, <2>2
    <3> QED
      BY <1>6, <3>1
  <2>4. ASSUME NEW i \in 1..(Len(s) - (a + Len(f))) PROVE r[a + Len(f) + i] = q[i]
    <3> DEFINE j == a + Len(f) + i
    <3>1. j \in 1..(Len(g) + Len(q)) /\ ~(j <= Len(g)) /\ j - Len(g) = i
      BY <1>1, <2>1, <2>2
    <3> HIDE DEF j
    <3>2. r[j] = q[i]
      BY <1>6, <3>1
    <3> QED
      BY <3>2 DEF j
  <2> QED
    BY <2>1, <2>3, <2>4
<1>8. ASSUME NEW i \in 1..a PROVE r[i] = s[i]
  <2>1. i \in 1..(a + Len(f)) /\ i \in 1..(Len(p) + Len(f)) /\ i <= Len(p)
    BY <1>1, <1>2
  <2>2. r[i] = g[i] /\ g[i] = p[i] /\ p[i] = s[i]
    BY <1>2, <1>4, <1>7, <2>1
  <2> QED
    BY <2>2
<1>9. ASSUME NEW i \in 1..Len(f) PROVE r[a + i] = f[i]
  <2>1. a + i \in 1..(a + Len(f)) /\ ~(a + i <= a) /\ (a + i) - a = i
    BY <1>1
  <2>2. r[a + i] = g[a + i] /\ g[a + i] = f[i]
    BY <1>2, <1>4, <1>7, <2>1
  <2> QED
    BY <2>2
<1>10. ASSUME NEW i \in (a + Len(f) + 1)..Len(s) PROVE r[i] = s[i]
  <2> DEFINE j == i - (a + Len(f))
  <2>1. j \in 1..(Len(s) - (a + Len(f))) /\ a + Len(f) + j = i
    BY <1>1
  <2> HIDE DEF j
  <2>2. r[a + Len(f) + j] = q[j] /\ q[j] = s[a + Len(f) + j]
    BY <1>3, <1>7, <2>1
  <2> QED
    BY <2>1, <2>2
<1> QED
  BY <1>6, <1>7, <1>8, <1>9, <1>10

\* What is spliced in may be what was there.
LEMMA SpliceSame ==
  ASSUME NEW T, NEW s \in Seq(T), NEW f \in Seq(T), NEW a \in Nat, a + Len(f) <= Len(s),
         \A i \in 1..Len(f) : f[i] = s[a + i]
  PROVE  Spliced(s, f, a) = s
<1> DEFINE r == Spliced(s, f, a)
<1>1. /\ r \in Seq(T) /\ Len(r) = Len(s)
      /\ \A i \in 1..a : r[i] = s[i]
      /\ \A i \in 1..Len(f) : r[a + i] = f[i]
      /\ \A i \in (a + Len(f) + 1)..Len(s) : r[i] = s[i]
  BY Splice
<1>2. Len(s) \in Nat /\ Len(f) \in Nat
  OBVIOUS
<1> HIDE DEF r
<1>3. ASSUME NEW i \in 1..Len(s) PROVE r[i] = s[i]
  <2>1. CASE i <= a
    BY <1>1, <2>1
  <2>2. CASE a < i /\ i <= a + Len(f)
    <3>1. i - a \in 1..Len(f) /\ a + (i - a) = i
      BY <1>2, <2>2
    <3>2. r[a + (i - a)] = f[i - a] /\ f[i - a] = s[a + (i - a)]
      BY <1>1, <3>1
    <3> QED
      BY <3>1, <3>2
  <2>3. CASE a + Len(f) < i
    BY <1>1, <1>2, <2>3
  <2> QED
    BY <1>2, <2>1, <2>2, <2>3
<1>4. r = s
  BY <1>1, <1>3
<1> QED
  BY <1>4 DEF r

\* The points U of n rows of b from row rs + 1 on are at their place in the points S
\* of b, after the first ones, and so are their row pointers.
AtPlace(b, rs, n, S, U, first) ==
  /\ b.rowptr = Pointers(S, GetNrRows(b) + 1) /\ GetNrRows(b) \in Nat
  /\ Len(S) \in Nat /\ Len(U) \in Nat /\ first \in Nat /\ first + Len(U) <= Len(S)
  /\ b.rowptr[rs + n + 1] = first + Len(U)
  /\ \A k \in 1..Len(U) : U[k].item = S[first + k].item /\ U[k].x = S[first + k].x
  /\ \A i \in 1..(n + 1) : Count(U, i) \in Nat /\ b.rowptr[rs + i] = first + Count(U, i)

\* The entries of n rows of the matrix from row rs + 1 on are where a window of
\* them has them: from the first element of row rs + 1, in the window's order, and
\* with the window's row pointers.
LEMMA WindowPoints ==
  ASSUME NEW b, NEW E, Stored(b, E, 0), b.type = HORIZONTAL,
         NEW rs \in Nat, NEW n \in Nat, rs + n <= GetNrRows(b)
  PROVE  LET W == {e \in E : rs < e.y /\ e.y <= rs + n}
         IN  /\ Within(W, rs, n, b.nrCols)
             /\ AtPlace(b, rs, n, Sorted(HORIZONTAL, E, 0, b.nrRows, b.nrCols),
                        Sorted(HORIZONTAL, W, rs, n, b.nrCols), b.rowptr[rs + 1])
<1> DEFINE W == {e \in E : rs < e.y /\ e.y <= rs + n}
           S == Sorted(HORIZONTAL, E, 0, b.nrRows, b.nrCols)
           U == Sorted(HORIZONTAL, W, rs, n, b.nrCols)
           first == b.rowptr[rs + 1]
<1>30. /\ W = {e \in E : rs < e.y /\ e.y <= rs + n}
       /\ S = Sorted(HORIZONTAL, E, 0, b.nrRows, b.nrCols)
       /\ U = Sorted(HORIZONTAL, W, rs, n, b.nrCols)
       /\ first = b.rowptr[rs + 1]
  OBVIOUS
<1> HIDE DEF W, S, U, first
<1> DEFINE np == GetNrRows(b) + 1
           last == Count(S, rs + n + 1)
           seg == [k \in 1..(last - first) |->
                     [y |-> S[first + k].y - rs, x |-> S[first + k].x, item |-> S[first + k].item]]
<1>0. HORIZONTAL \in IterOrders /\ Within(E, 0, b.nrRows, b.nrCols)
  BY DEF Stored
<1>1. /\ Stream(S)
      /\ \A k \in 1..Len(S) : /\ S[k].item \in E /\ S[k].y = S[k].item.y - 0
                              /\ S[k].x = S[k].item.x /\ S[k].y \in 1..(b.nrRows + b.nrCols)
      /\ \A e \in E : \E k \in 1..Len(S) : S[k].item = e
      /\ \A j, k \in 1..Len(S) : S[j].item = S[k].item => j = k
  BY <1>0, <1>30, SortedIs
<1>2. /\ Rising(S) /\ Len(S) \in Nat
      /\ \A k \in 1..Len(S) : S[k].x \in Int /\ S[k].y \in Int
      /\ \A j, k \in 1..Len(S) : j < k => CooLess(S[j], S[k])
  BY <1>1 DEF Stream, Rising
<1>3. \A k \in 1..Len(S) : S[k].y = S[k].item.y
  <2>1. \A e \in E : e.y \in Int
    BY <1>0 DEF Within
  <2> QED
    BY <1>1, <2>1
<1>4. /\ np \in Nat /\ np >= 1 /\ b.rowptr = Pointers(S, np)
      /\ GetNrRows(b) \in Nat /\ np = GetNrRows(b) + 1
  <2>1. PICK m \in 1..(b.nrRows + b.nrCols + 1) : Holds(b, S, m)
    BY <1>30 DEF Stored
  <2>2. m \in Nat /\ m >= 1 /\ b.rowptr = Pointers(S, m)
    BY <2>1 DEF Holds, Pos
  <2>3. GetNrRows(b) = m - 1
    BY <2>2 DEF GetNrRows, Pointers
  <2> QED
    BY <2>2, <2>3
<1>5. \A i \in 1..np : b.rowptr[i] = Count(S, i)
  BY <1>4 DEF Pointers
<1>6. /\ rs + 1 \in 1..np /\ rs + n + 1 \in 1..np
      /\ \A i \in 1..(n + 1) : rs + i \in 1..np /\ rs + i \in Int
  <2> DEFINE g == GetNrRows(b)
  <2>1. g \in Nat /\ np = g + 1 /\ rs + n <= g
    BY <1>4
  <2> HIDE DEF g, np
  <2> QED
    BY <2>1
<1>7. first = Count(S, rs + 1) /\ b.rowptr[rs + n + 1] = last
  BY <1>5, <1>6, <1>30
<1>8. \A i \in 1..np : /\ Count(S, i) \in 0..Len(S)
                       /\ \A k \in 1..Len(S) : k <= Count(S, i) <=> S[k].y < i
  <2> TAKE i \in 1..np
  <2>1. i \in Int
    OBVIOUS
  <2> QED
    BY Zenon, <1>2, <2>1, CountIs
<1>9. /\ first \in 0..Len(S) /\ last \in 0..Len(S)
      /\ \A k \in 1..Len(S) : k <= first <=> S[k].y < rs + 1
      /\ \A k \in 1..Len(S) : k <= last <=> S[k].y < rs + n + 1
  BY <1>6, <1>7, <1>8
<1> HIDE DEF np, last
<1>90. /\ Len(S) \in Nat /\ first \in Nat /\ last \in Nat
       /\ first <= Len(S) /\ last <= Len(S)
  BY <1>2, <1>9
<1>10. first <= last
  <2>1. CASE first = 0
    BY <1>90, <2>1
  <2>2. CASE first # 0
    <3>1. first \in 1..Len(S) /\ first <= first
      BY <1>90, <2>2
    <3>2. S[first].y \in Int /\ S[first].y < rs + 1
      BY <1>2, <1>9, <3>1
    <3>3. S[first].y < rs + n + 1
      BY <3>2
    <3> QED
      BY <1>9, <3>1, <3>3
  <2> QED
    BY <2>1, <2>2
<1>11. \A k \in 1..(last - first) :
         /\ first + k \in 1..Len(S)
         /\ rs < S[first + k].y /\ S[first + k].y <= rs + n
  <2> TAKE k \in 1..(last - first)
  <2>1. first + k \in 1..Len(S) /\ ~(first + k <= first) /\ first + k <= last
    BY <1>90, <1>10
  <2>2. /\ S[first + k].y \in Int
        /\ ~(S[first + k].y < rs + 1) /\ S[first + k].y < rs + n + 1
    BY <1>2, <1>9, <2>1
  <2> QED
    BY <2>1, <2>2
<1>12. Within(W, rs, n, b.nrCols)
  <2>1. W \in SUBSET E /\ IsFiniteSet(E) /\ b.nrCols \in Nat /\ E \subseteq [y : 1..b.nrRows, x : 1..b.nrCols]
    BY <1>0, <1>30 DEF Within
  <2>2. IsFiniteSet(W)
    BY <2>1, FS_Subset
  <2>3. ASSUME NEW e \in W PROVE e \in [y : (rs + 1)..(rs + n), x : 1..b.nrCols]
    <3>1. e \in [y : 1..b.nrRows, x : 1..b.nrCols] /\ rs < e.y /\ e.y <= rs + n
      BY <1>30, <2>1
    <3> QED
      BY <3>1
  <2> QED
    BY <2>1, <2>2, <2>3 DEF Within
<1> DEFINE pts == Images(HORIZONTAL, W, rs, n, b.nrCols)
           Im(e) == Image(HORIZONTAL, e, rs, n, b.nrCols)
<1>13. Apart(pts) /\ U = Sort(pts)
  BY <1>0, <1>12, <1>30, ImagesApart DEF Sorted
<1>14. \A e \in W : Im(e) = [y |-> e.y - rs, x |-> e.x, item |-> e]
  <2> TAKE e \in W
  <2>1. Im(e).y = e.y - rs /\ Im(e).x = e.x
    BY <1>0, <1>12, ImageRow
  <2>2. Im(e) = [y |-> Im(e).y, x |-> Im(e).x, item |-> e]
    BY DEF Image
  <2> QED
    BY Zenon, <2>1, <2>2
<1>15. \A k \in 1..(last - first) : S[first + k].item \in W
  BY <1>1, <1>3, <1>11, <1>30
<1>16. pts = {Im(e) : e \in W}
  BY DEF Images
<1> HIDE DEF Im, pts
<1>17. ASSUME NEW k \in 1..(last - first)
       PROVE  /\ seg[k] = Im(S[first + k].item)
              /\ seg[k].y = S[first + k].y - rs /\ seg[k].x = S[first + k].x
              /\ seg[k].item = S[first + k].item
  <2> DEFINE j == first + k
  <2>1. j \in 1..Len(S) /\ S[j].item \in W
    BY <1>11, <1>15
  <2>2. seg[k] = [y |-> S[j].y - rs, x |-> S[j].x, item |-> S[j].item]
    OBVIOUS
  <2>3. S[j].y = S[j].item.y /\ S[j].x = S[j].item.x
    BY <1>1, <1>3, <2>1
  <2> HIDE DEF seg, j
  <2>4. seg[k] = Im(S[j].item)
    BY Zenon, <1>14, <2>1, <2>2, <2>3
  <2>5. seg[k].y = S[j].y - rs /\ seg[k].x = S[j].x /\ seg[k].item = S[j].item
    BY <2>2
  <2> QED
    BY <2>4, <2>5 DEF j
<1>18. Len(seg) = last - first /\ seg = [k \in 1..(last - first) |-> seg[k]]
  <2>1. DOMAIN seg = 1..(last - first) /\ seg = [k \in 1..(last - first) |-> seg[k]]
    OBVIOUS
  <2> HIDE DEF seg
  <2>2. last - first \in Nat
    BY <1>90, <1>10
  <2> QED
    BY <2>1, <2>2
<1> HIDE DEF seg
<1>19. Rising(seg)
  <2>1. ASSUME NEW k \in 1..(last - first) PROVE seg[k].y \in Int /\ seg[k].x \in Int
    <3>1. S[first + k].y \in Int /\ S[first + k].x \in Int
      BY <1>2, <1>11
    <3>2. seg[k].y = S[first + k].y - rs /\ seg[k].x = S[first + k].x
      BY <1>17
    <3> QED
      BY <3>1, <3>2
  <2>2. ASSUME NEW j \in 1..(last - first), NEW k \in 1..(last - first), j < k
        PROVE  CooLess(seg[j], seg[k])
    <3>1. first + j \in 1..Len(S) /\ first + k \in 1..Len(S) /\ first + j < first + k
      BY <1>9, <1>11, <2>2
    <3>2. CooLess(S[first + j], S[first + k])
      BY <1>2, <3>1
    <3>3. S[first + j].y \in Int /\ S[first + k].y \in Int
      BY <1>2, <3>1
    <3> QED
      BY <1>17, <3>2, <3>3 DEF CooLess
  <2>3. last - first \in Nat
    BY <1>9, <1>10
  <2> QED
    BY <1>18, <2>1, <2>2, <2>3 DEF Rising
<1>20. InOrder(seg, pts)
  <2>1. \A k \in 1..(last - first) : seg[k] \in pts
    BY <1>15, <1>16, <1>17
  <2>2. ASSUME NEW p \in pts PROVE \E k \in 1..(last - first) : seg[k] = p
    <3>1. PICK e \in W : p = Im(e)
      BY <1>16
    <3>2. PICK j \in 1..Len(S) : S[j].item = e
      BY <1>1, <1>30, <3>1
    <3>3. rs < S[j].y /\ S[j].y <= rs + n
      BY <1>3, <1>30, <3>1, <3>2
    <3>4. ~(j <= first) /\ j <= last
      <4>1. S[j].y \in Int
        BY <1>2
      <4>2. ~(S[j].y < rs + 1) /\ S[j].y < rs + n + 1
        BY <3>3, <4>1
      <4> QED
        BY <1>9, <4>2
    <3>5. j - first \in 1..(last - first) /\ first + (j - first) = j
      BY <1>9, <3>4
    <3> QED
      BY <1>17, <3>1, <3>2, <3>5
  <2> QED
    BY <1>18, <1>19, <2>1, <2>2 DEF InOrder
<1>21. U = seg
  BY <1>13, <1>20, SortUnique
<1>22. Len(U) = last - first /\ Len(U) \in Nat
  BY <1>9, <1>10, <1>18, <1>21
<1>23. ASSUME NEW i \in 1..(n + 1)
       PROVE  Count(U, i) \in Nat /\ b.rowptr[rs + i] = first + Count(U, i)
  <2> DEFINE c == Count(S, rs + i)
             d == Count(U, i)
  <2>1. i \in Int /\ rs + i \in 1..np
    BY <1>6
  <2>2. d \in 0..Len(U) /\ \A k \in 1..Len(U) : k <= d <=> U[k].y < i
    BY Zenon, <1>19, <1>21, <2>1, CountIs
  <2>3. c \in 0..Len(S) /\ \A k \in 1..Len(S) : k <= c <=> S[k].y < rs + i
    BY <1>8, <2>1
  <2>4. b.rowptr[rs + i] = c
    BY <1>5, <2>1
  <2> HIDE DEF c, d
  <2>5. ASSUME NEW k \in 1..Len(U) PROVE k <= d <=> first + k <= c
    <3>1. k \in 1..(last - first) /\ first + k \in 1..Len(S)
      BY <1>11, <1>22
    <3>2. U[k].y = S[first + k].y - rs /\ S[first + k].y \in Int
      BY <1>2, <1>17, <1>21, <3>1
    <3>3. U[k].y < i <=> S[first + k].y < rs + i
      BY <3>2
    <3> QED
      BY <2>2, <2>3, <3>1, <3>3
  <2>6. first <= c
    <3>1. CASE first = 0
      BY <2>3, <3>1
    <3>2. CASE first # 0
      <4>1. first \in 1..Len(S)
        BY <1>9, <3>2
      <4>2. S[first].y < rs + 1 /\ S[first].y \in Int
        BY <1>2, <1>9, <4>1
      <4>3. S[first].y < rs + i
        BY <4>2
      <4> QED
        BY <2>3, <4>1, <4>3
    <3> QED
      BY <3>1, <3>2
  <2>7. c <= last
    <3>1. CASE c = 0
      BY <1>9, <3>1
    <3>2. CASE c # 0
      <4>1. c \in 1..Len(S)
        BY <2>3, <3>2
      <4>2. S[c].y < rs + i /\ S[c].y \in Int
        BY <1>2, <2>3, <4>1
      <4>3. S[c].y < rs + n + 1
        BY <4>2
      <4> QED
        BY <1>9, <4>1, <4>3
    <3> QED
      BY <3>1, <3>2
  <2>8. c - first \in 0..Len(U) /\ first + (c - first) = c
    BY <1>9, <1>22, <2>3, <2>6, <2>7
  <2>9. d <= c - first
    <3>1. d # 0 => d \in 1..Len(U)
      BY <2>2
    <3>2. d # 0 => first + d <= c
      BY <2>2, <2>5, <3>1
    <3> QED
      BY <1>9, <2>2, <2>3, <2>6, <3>2
  <2>10. c - first <= d
    <3>1. c - first # 0 => c - first \in 1..Len(U)
      BY <2>8
    <3>2. c - first # 0 => c - first <= d
      BY <2>3, <2>5, <2>8, <3>1
    <3> QED
      BY <2>2, <3>2
  <2>11. c = first + d
    <3>1. c \in Int /\ d \in Int
      BY <2>2, <2>3
    <3> QED
      BY <1>90, <2>9, <2>10, <3>1
  <2> QED
    BY <2>2, <2>4, <2>11 DEF d
<1>24. \A k \in 1..Len(U) : U[k].item = S[first + k].item /\ U[k].x = S[first + k].x
  BY <1>17, <1>21, <1>22
<1>25. first + Len(U) <= Len(S) /\ b.rowptr[rs + n + 1] = first + Len(U)
  BY <1>7, <1>10, <1>22, <1>90
<1>26. b.rowptr = Pointers(S, GetNrRows(b) + 1)
  BY Zenon, <1>4
<1> QED
  <2>1. AtPlace(b, rs, n, S, U, first)
    BY Zenon, <1>4, <1>22, <1>23, <1>24, <1>25, <1>26, <1>90 DEF AtPlace
  <2> QED
    BY Zenon, <1>12, <2>1 DEF W, S, U, first

\* Splicing at the same place twice leaves the second only.
LEMMA SpliceTwice ==
  ASSUME NEW T, NEW s \in Seq(T), NEW f \in Seq(T), NEW h \in Seq(T), NEW a \in Nat,
         a + Len(f) <= Len(s), Len(h) = Len(f)
  PROVE  Spliced(Spliced(s, f, a), h, a) = Spliced(s, h, a)
<1> DEFINE r == Spliced(s, f, a)
           u == Spliced(r, h, a)
           v == Spliced(s, h, a)
<1>1. Len(s) \in Nat /\ Len(f) \in Nat
  OBVIOUS
<1>2. /\ r \in Seq(T) /\ Len(r) = Len(s)
      /\ \A i \in 1..a : r[i] = s[i]
      /\ \A i \in (a + Len(f) + 1)..Len(s) : r[i] = s[i]
  BY Splice
<1>3. a + Len(h) <= Len(s)
  BY <1>1
<1>4. /\ v \in Seq(T) /\ Len(v) = Len(s)
      /\ \A i \in 1..a : v[i] = s[i]
      /\ \A i \in 1..Len(h) : v[a + i] = h[i]
      /\ \A i \in (a + Len(h) + 1)..Len(s) : v[i] = s[i]
  BY <1>3, Splice
<1> HIDE DEF r, v
<1>5. a + Len(h) <= Len(r)
  BY <1>2, <1>3
<1>6. /\ u \in Seq(T) /\ Len(u) = Len(r)
      /\ \A i \in 1..a : u[i] = r[i]
      /\ \A i \in 1..Len(h) : u[a + i] = h[i]
      /\ \A i \in (a + Len(h) + 1)..Len(r) : u[i] = r[i]
  BY <1>2, <1>5, Splice
<1> HIDE DEF u
<1>7. ASSUME NEW i \in 1..Len(s) PROVE u[i] = v[i]
  <2>1. CASE i <= a
    <3>1. i \in 1..a
      BY <2>1
    <3> QED
      BY <1>2, <1>4, <1>6, <3>1
  <2>2. CASE a < i /\ i <= a + Len(h)
    <3>1. i - a \in 1..Len(h) /\ a + (i - a) = i
      BY <1>1, <2>2
    <3>2. u[a + (i - a)] = h[i - a] /\ v[a + (i - a)] = h[i - a]
      BY <1>4, <1>6, <3>1
    <3> QED
      BY <3>1, <3>2
  <2>3. CASE a + Len(h) < i
    <3>1. i \in (a + Len(h) + 1)..Len(s) /\ Len(r) = Len(s)
      BY <1>1, <1>2, <2>3
    <3> QED
      BY <1>2, <1>4, <1>6, <3>1
  <2> QED
    BY <1>1, <2>1, <2>2, <2>3
<1>8. u = v
  <2>1. u \in Seq(T) /\ v \in Seq(T) /\ Len(u) = Len(s) /\ Len(v) = Len(s)
    BY <1>2, <1>4, <1>6
  <2> QED
    BY ONLY <1>7, <2>1
<1> QED
  BY <1>8 DEF r, u, v

\* There are as many sorted points as entries, in every order.
LEMMA SortedLen ==
  ASSUME NEW entries, NEW shift, NEW nrows, NEW ncols,
         Within(entries, shift, nrows, ncols), NEW t \in IterOrders
  PROVE  Len(Sorted(t, entries, shift, nrows, ncols)) = Cardinality(entries)
<1> DEFINE s == Sorted(t, entries, shift, nrows, ncols)
           f == [k \in 1..Len(s) |-> s[k].item]
<1>1. /\ Stream(s)
      /\ \A k \in 1..Len(s) : s[k].item \in entries
      /\ \A e \in entries : \E k \in 1..Len(s) : s[k].item = e
      /\ \A j, k \in 1..Len(s) : s[j].item = s[k].item => j = k
  BY SortedIs
<1>2. Len(s) \in Nat
  BY <1>1 DEF Stream, Rising
<1> HIDE DEF s
<1>3. f \in Bijection(1..Len(s), entries)
  BY <1>1 DEF Bijection, Injection, IsInjective, Surjection
<1>4. ExistsBijection(1..Len(s), entries)
  BY <1>3 DEF ExistsBijection
<1>5. IsFiniteSet(1..Len(s)) /\ Cardinality(1..Len(s)) = Len(s)
  <2> DEFINE n == Len(s)
  <2>1. n \in Nat
    BY <1>2
  <2> HIDE DEF n
  <2>2. IsFiniteSet(1..n) /\ Cardinality(1..n) = n
    BY <2>1, FS_Interval
  <2> QED
    BY <2>2 DEF n
<1>6. Cardinality(entries) = Len(s)
  BY <1>4, <1>5, FS_Bijection
<1> QED
  BY <1>6 DEF s

-----------------------------------------------------------------------------
(***************************************************************************)
(* The inductive invariant.                                                *)
(***************************************************************************)
EntriesOf(m) == {m.elems[k].item : k \in DOMAIN m.elems}

\* The entries in the rows of the window w of b.
RowsOf(b, w) ==
  {e \in EntriesOf(b) : w.rowStart < e.y /\ e.y <= w.rowStart + w.nrRows}

\* w is a window of b, in any order: it holds the entries of its rows.
IsWindowOf(b, w) ==
  /\ Has(b, MatrixFields) /\ b.type = HORIZONTAL /\ Stored(b, EntriesOf(b), 0)
  /\ Has(w, WindowFields)
  /\ w.rowStart \in Nat /\ w.rowStart + w.nrRows <= GetNrRows(b) /\ w.nrCols = b.nrCols
  /\ w.first = b.rowptr[w.rowStart + 1]
  /\ Stored(w, RowsOf(b, w), w.rowStart)

Idle ==
  /\ window = NoWindow /\ before = <<>>
  /\ Has(spm, MatrixFields) /\ Stored(spm, EntriesOf(spm), 0)
Out == IsWindowOf(before, window) /\ spm = WithShared(before, window)
IInv == Idle \/ Out

\* The sequence f fits after the first a places of s and has the items of those it
\* covers.
FitsIn(s, f, a, T) ==
  /\ s \in Seq(T) /\ f \in Seq(T) /\ a \in Nat /\ a + Len(f) <= Len(s)
  /\ {f[k].item : k \in 1..Len(f)} = {s[a + k].item : k \in 1..Len(f)}

\* f is what s holds after its first a places.
SameAs(s, f, a) == \A k \in 1..Len(f) : f[k] = s[a + k]
ItemsOf(s) == {s[k].item : k \in DOMAIN s}
\* The row pointers of the window w are those of its rows in b.
RowsFit(b, w) ==
  /\ b.rowptr \in Seq(Nat) /\ w.rowptr \in Seq(Nat)
  /\ w.rowStart + Len(w.rowptr) <= Len(b.rowptr)
  /\ \A i \in 1..Len(w.rowptr) : b.rowptr[w.rowStart + i] = b.rowptr[w.rowStart + 1] + w.rowptr[i]

\* A window's elements are those of its place in the matrix, in some order, and in
\* the matrix's own order the same and with the same row pointers.
LEMMA WindowIs ==
  ASSUME NEW b, NEW w, IsWindowOf(b, w)
  PROVE  /\ FitsIn(b.elems, w.elems, w.first, [x : Int, item : EntriesOf(b)])
         /\ Len(w.elems) = Cardinality(RowsOf(b, w))
         /\ w.type = HORIZONTAL => SameAs(b.elems, w.elems, w.first)
         /\ w.type = HORIZONTAL => RowsFit(b, w)
<1> DEFINE E == EntriesOf(b)
           W == RowsOf(b, w)
           rs == w.rowStart
           n == w.nrRows
           S == Sorted(HORIZONTAL, E, 0, b.nrRows, b.nrCols)
           U == Sorted(HORIZONTAL, W, rs, n, b.nrCols)
           V == Sorted(w.type, W, rs, n, b.nrCols)
           first == w.first
<1>1. /\ Stored(b, E, 0) /\ b.type = HORIZONTAL /\ Stored(w, W, rs) /\ w.nrCols = b.nrCols
      /\ rs \in Nat /\ rs + n <= GetNrRows(b) /\ first = b.rowptr[rs + 1]
  BY DEF IsWindowOf
<1>2. n \in Nat /\ w.type \in IterOrders /\ Within(W, rs, n, b.nrCols)
  BY <1>1 DEF Stored, Within
<1>3. W = {e \in E : rs < e.y /\ e.y <= rs + n}
  BY DEF RowsOf
<1> HIDE DEF E, W
<1>4. /\ b.rowptr = Pointers(S, GetNrRows(b) + 1) /\ GetNrRows(b) \in Nat
      /\ Len(S) \in Nat /\ Len(U) \in Nat /\ first \in Nat /\ first + Len(U) <= Len(S)
      /\ \A k \in 1..Len(U) : U[k].item = S[first + k].item /\ U[k].x = S[first + k].x
      /\ \A i \in 1..(n + 1) : Count(U, i) \in Nat /\ b.rowptr[rs + i] = first + Count(U, i)
  <2>1. AtPlace(b, rs, n, Sorted(HORIZONTAL, E, 0, b.nrRows, b.nrCols),
                Sorted(HORIZONTAL, {e \in E : rs < e.y /\ e.y <= rs + n}, rs, n, b.nrCols),
                b.rowptr[rs + 1])
    BY <1>1, <1>2, WindowPoints
  <2>2. AtPlace(b, rs, n, S, U, first)
    BY Zenon, <1>1, <1>3, <2>1
  <2> QED
    BY Zenon, <2>2 DEF AtPlace
<1>5. /\ b.elems \in Seq([x : Int, item : E]) /\ Len(b.elems) = Len(S)
      /\ \A k \in 1..Len(S) : b.elems[k] = [x |-> S[k].x, item |-> S[k].item]
      /\ \A k \in 1..Len(S) : b.elems[k].item = S[k].item
  <2>1. HasElems(b, E, Sorted(b.type, E, 0, b.nrRows, b.nrCols))
    BY <1>1, StoredElems
  <2>2. HasElems(b, E, S)
    BY Zenon, <1>1, <2>1
  <2> QED
    BY Zenon, <2>2 DEF HasElems
<1>6. /\ w.elems \in Seq([x : Int, item : W]) /\ Len(w.elems) = Len(V)
      /\ \A k \in 1..Len(V) : w.elems[k] = [x |-> V[k].x, item |-> V[k].item]
      /\ {w.elems[k].item : k \in DOMAIN w.elems} = W
  <2>1. HasElems(w, W, Sorted(w.type, W, rs, w.nrRows, w.nrCols))
    BY <1>1, StoredElems
  <2>2. HasElems(w, W, V)
    BY Zenon, <1>1, <2>1
  <2> QED
    BY Zenon, <2>2 DEF HasElems
<1>7. Len(V) = Cardinality(W) /\ Len(U) = Cardinality(W)
  <2>1. HORIZONTAL \in IterOrders
    BY DEF IterOrders
  <2> QED
    BY <1>2, <2>1, SortedLen
<1>8. {U[k].item : k \in 1..Len(U)} = W
  <2>1. HORIZONTAL \in IterOrders
    BY DEF IterOrders
  <2>2. /\ \A k \in 1..Len(U) : U[k].item \in W
        /\ \A e \in W : \E k \in 1..Len(U) : U[k].item = e
    BY <1>2, <2>1, SortedIs
  <2> HIDE DEF U
  <2> QED
    BY <2>2
<1> HIDE DEF S, U, V
<1>9. w.elems \in Seq([x : Int, item : E])
  <2>1. w.elems \in [1..Len(w.elems) -> [x : Int, item : W]] /\ Len(w.elems) \in Nat
    <3> DEFINE Q == [x : Int, item : W]
               g == w.elems
    <3>1. g \in Seq(Q)
      BY <1>6
    <3> HIDE DEF Q, g
    <3>2. g \in [1..Len(g) -> Q] /\ Len(g) \in Nat
      BY <3>1
    <3> QED
      BY <3>2 DEF Q, g
  <2>2. [x : Int, item : W] \subseteq [x : Int, item : E]
    BY <1>3
  <2>3. w.elems \in [1..Len(w.elems) -> [x : Int, item : E]]
    BY <2>1, <2>2
  <2> DEFINE T == [x : Int, item : E]
             g == w.elems
  <2>4. g \in [1..Len(g) -> T] /\ Len(g) \in Nat
    BY <2>1, <2>3
  <2> HIDE DEF T, g
  <2>5. g \in Seq(T)
    BY <2>4
  <2> QED
    BY <2>5 DEF T, g
<1>10. \A k \in 1..Len(U) : first + k \in 1..Len(S)
  BY <1>4
<1>11. {w.elems[k].item : k \in 1..Len(w.elems)} = {b.elems[first + k].item : k \in 1..Len(w.elems)}
  <2>1. {w.elems[k].item : k \in 1..Len(w.elems)} = W
    BY <1>6
  <2>2. \A k \in 1..Len(U) : b.elems[first + k].item = U[k].item
    BY <1>4, <1>5, <1>10
  <2>3. {b.elems[first + k].item : k \in 1..Len(U)} = {U[k].item : k \in 1..Len(U)}
    BY <2>2
  <2> QED
    BY <1>6, <1>7, <1>8, <2>1, <2>3
<1>12. ASSUME w.type = HORIZONTAL, NEW k \in 1..Len(w.elems)
       PROVE  w.elems[k] = b.elems[first + k]
  <2>1. V = U
    BY <1>12 DEF U, V
  <2>2. k \in 1..Len(U) /\ k \in 1..Len(V) /\ first + k \in 1..Len(S)
    BY <1>6, <1>7, <1>10
  <2>3. w.elems[k] = [x |-> U[k].x, item |-> U[k].item]
    BY Zenon, <1>6, <2>1, <2>2
  <2>4. b.elems[first + k] = [x |-> S[first + k].x, item |-> S[first + k].item]
    BY Zenon, <1>5, <2>2
  <2>5. U[k].x = S[first + k].x /\ U[k].item = S[first + k].item
    BY Zenon, <1>4, <2>2
  <2> QED
    BY Zenon, <2>3, <2>4, <2>5
<1>13. PICK m \in 1..(n + b.nrCols + 1) : Holds(w, V, m) /\ (w.type = HORIZONTAL => m <= n + 1)
  BY <1>1 DEF Stored, V
<1>14. m \in Nat /\ m >= 1 /\ w.rowptr = Pointers(V, m)
  BY <1>13 DEF Holds, Pos
<1>15. b.rowptr \in Seq(Nat) /\ Len(b.rowptr) = GetNrRows(b) + 1
  <2>1. HORIZONTAL \in IterOrders /\ Within(E, 0, b.nrRows, b.nrCols)
    BY <1>1 DEF Stored
  <2>2. Rising(S)
    BY <2>1, SortedIs DEF S, Stream
  <2>3. \A i \in 1..(GetNrRows(b) + 1) : Count(S, i) \in Nat
    BY <1>4, <2>2, CountIs
  <2> QED
    BY <1>4, <2>3 DEF Pointers
<1>16. w.rowptr \in Seq(Nat) /\ Len(w.rowptr) = m
  <2>1. Rising(V)
    BY <1>2, SortedIs DEF V, Stream
  <2>2. Len(V) \in Nat
    BY <2>1 DEF Rising
  <2>3. \A i \in 1..m : Count(V, i) \in Nat
    BY <1>14, <2>1, <2>2, CountIs
  <2> QED
    BY <1>14, <2>3 DEF Pointers
<1>17. ASSUME w.type = HORIZONTAL
       PROVE  /\ rs + Len(w.rowptr) <= Len(b.rowptr)
              /\ \A i \in 1..Len(w.rowptr) : b.rowptr[rs + i] = b.rowptr[rs + 1] + w.rowptr[i]
  <2>1. V = U /\ m <= n + 1
    BY <1>13, <1>17 DEF U, V
  <2>2. rs + Len(w.rowptr) <= Len(b.rowptr)
    <3> DEFINE g == GetNrRows(b)
    <3>1. g \in Nat /\ rs + n <= g /\ Len(b.rowptr) = g + 1 /\ Len(w.rowptr) = m
      BY <1>1, <1>4, <1>15, <1>16
    <3> HIDE DEF g
    <3> QED
      BY <1>1, <1>2, <1>14, <2>1, <3>1
  <2>3. ASSUME NEW i \in 1..Len(w.rowptr) PROVE b.rowptr[rs + i] = b.rowptr[rs + 1] + w.rowptr[i]
    <3>1. i \in 1..m /\ i \in 1..(n + 1)
      BY <1>2, <1>14, <1>16, <2>1
    <3>2. w.rowptr[i] = Count(U, i)
      BY <1>14, <2>1, <3>1 DEF Pointers
    <3> QED
      BY <1>1, <1>4, <3>1, <3>2
  <2> QED
    BY <2>2, <2>3
<1>18. first + Len(w.elems) <= Len(b.elems) /\ Len(w.elems) = Cardinality(W)
  BY <1>4, <1>5, <1>6, <1>7
<1> QED
  BY <1>4, <1>5, <1>9, <1>11, <1>12, <1>15, <1>16, <1>17, <1>18 DEF E, W, FitsIn, SameAs, RowsFit

\* A splice of elements with the items of those they replace keeps the items.
LEMMA SpliceItems ==
  ASSUME NEW T, NEW s, NEW f, NEW a, FitsIn(s, f, a, T)
  PROVE  ItemsOf(Spliced(s, f, a)) = ItemsOf(s)
<1> DEFINE r == Spliced(s, f, a)
<1>0. /\ s \in Seq(T) /\ f \in Seq(T) /\ a \in Nat /\ a + Len(f) <= Len(s)
      /\ {f[k].item : k \in 1..Len(f)} = {s[a + k].item : k \in 1..Len(f)}
  BY DEF FitsIn
<1>1. /\ r \in Seq(T) /\ Len(r) = Len(s)
      /\ \A i \in 1..a : r[i] = s[i]
      /\ \A i \in 1..Len(f) : r[a + i] = f[i]
      /\ \A i \in (a + Len(f) + 1)..Len(s) : r[i] = s[i]
  BY <1>0, Splice
<1> HIDE DEF r
<1>2. Len(s) \in Nat /\ Len(f) \in Nat /\ DOMAIN s = 1..Len(s) /\ DOMAIN r = 1..Len(s)
  BY <1>0, <1>1
<1>3. \A i \in 1..Len(f) : a + i \in 1..Len(s)
  BY <1>0, <1>2
<1>4. ASSUME NEW k \in 1..Len(s)
      PROVE  /\ \E j \in 1..Len(s) : r[k].item = s[j].item
             /\ \E j \in 1..Len(s) : s[k].item = r[j].item
  <2>1. CASE k <= a
    <3>1. k \in 1..a
      BY <2>1
    <3> QED
      BY <1>1, <3>1
  <2>2. CASE a < k /\ k <= a + Len(f)
    <3>1. k - a \in 1..Len(f) /\ a + (k - a) = k
      BY <1>0, <1>2, <2>2
    <3>2. r[k] = f[k - a]
      BY <1>1, <3>1
    <3>3. PICK j \in 1..Len(f) : f[k - a].item = s[a + j].item
      BY Zenon, <1>0, <3>1
    <3>4. s[a + (k - a)].item \in {s[a + i].item : i \in 1..Len(f)}
      BY ONLY Zenon, <3>1
    <3>5. PICK h \in 1..Len(f) : s[a + (k - a)].item = f[h].item
      BY Zenon, <1>0, <3>4
    <3>6. r[a + h] = f[h] /\ a + h \in 1..Len(s) /\ a + j \in 1..Len(s)
      BY <1>1, <1>3
    <3>7. s[k].item = f[h].item
      BY <3>1, <3>5
    <3> QED
      BY Zenon, <3>2, <3>3, <3>6, <3>7
  <2>3. CASE a + Len(f) < k
    <3>1. k \in (a + Len(f) + 1)..Len(s)
      BY <1>0, <1>2, <2>3
    <3> QED
      BY <1>1, <3>1
  <2> QED
    BY <1>0, <1>2, <2>1, <2>2, <2>3
<1>5. {r[k].item : k \in 1..Len(s)} = {s[k].item : k \in 1..Len(s)}
  <2>1. \A k \in 1..Len(s) : r[k].item \in {s[j].item : j \in 1..Len(s)}
    BY <1>4
  <2>2. \A k \in 1..Len(s) : s[k].item \in {r[j].item : j \in 1..Len(s)}
    BY <1>4
  <2> QED
    BY Zenon, <2>1, <2>2
<1> QED
  BY <1>2, <1>5 DEF r, ItemsOf

\* A matrix whose window is out differs in the order of the elements only, and when
\* the window has the matrix's order not at all.
LEMMA SharedIs ==
  ASSUME NEW b, NEW w, IsWindowOf(b, w), NEW m, m = WithShared(b, w)
  PROVE  /\ Has(m, MatrixFields) /\ m.elems = Spliced(b.elems, w.elems, w.first)
         /\ m.type = b.type /\ m.rowptr = b.rowptr /\ m.nrRows = b.nrRows /\ m.nrCols = b.nrCols
         /\ EntriesOf(m) = EntriesOf(b)
         /\ w.type = HORIZONTAL => m = b
<1> DEFINE T == [x : Int, item : EntriesOf(b)]
           r == Spliced(b.elems, w.elems, w.first)
<1>1. Has(b, MatrixFields)
  BY DEF IsWindowOf
<1>2. m = [b EXCEPT !.elems = r]
  BY DEF WithShared, Spliced
<1>3. FitsIn(b.elems, w.elems, w.first, T)
  BY WindowIs
<1>9. w.type = HORIZONTAL => SameAs(b.elems, w.elems, w.first)
  BY WindowIs
<1> HIDE DEF T
<1>4. ItemsOf(r) = ItemsOf(b.elems)
  BY <1>3, SpliceItems
<1>5. w.type = HORIZONTAL => r = b.elems
  <2>1. /\ b.elems \in Seq(T) /\ w.elems \in Seq(T)
        /\ w.first \in Nat /\ w.first + Len(w.elems) <= Len(b.elems)
    BY <1>3 DEF FitsIn
  <2> QED
    BY <1>9, <2>1, SpliceSame DEF SameAs
<1> HIDE DEF r
<1>6. /\ Has(m, MatrixFields) /\ m.elems = r
      /\ m.type = b.type /\ m.rowptr = b.rowptr /\ m.nrRows = b.nrRows /\ m.nrCols = b.nrCols
  BY <1>1, <1>2 DEF Has, MatrixFields
<1>7. w.type = HORIZONTAL => m = b
  BY <1>1, <1>5, <1>6 DEF Has, MatrixFields
<1>8. EntriesOf(m) = EntriesOf(b)
  BY Zenon, <1>4, <1>6 DEF EntriesOf, ItemsOf
<1> QED
  BY <1>6, <1>7, <1>8 DEF r

\* GetWindow takes a window.
LEMMA TakenWindow ==
  ASSUME NEW b, Has(b, MatrixFields), b.type = HORIZONTAL, Stored(b, EntriesOf(b), 0),
         NEW rs \in Nat, rs < GetNrRows(b), NEW length \in Nat,
         NEW w, w = GetWindow(b, rs, length)
  PROVE  IsWindowOf(b, w) /\ w.type = HORIZONTAL
<1> DEFINE E == EntriesOf(b)
           n == IF rs + length > GetNrRows(b) THEN GetNrRows(b) - rs ELSE length
           W == {e \in E : rs < e.y /\ e.y <= rs + n}
           S == Sorted(HORIZONTAL, E, 0, b.nrRows, b.nrCols)
           U == Sorted(HORIZONTAL, W, rs, n, b.nrCols)
           first == b.rowptr[rs + 1]
<1>1. HORIZONTAL \in IterOrders
  BY DEF IterOrders
<1>2. GetNrRows(b) \in Nat
  <2>1. PICK m \in 1..(b.nrRows + b.nrCols + 1) : b.rowptr = Pointers(Sorted(b.type, E, 0, b.nrRows, b.nrCols), m)
    BY DEF Stored, Holds
  <2>2. m \in Nat /\ m >= 1
    BY DEF Stored, Within
  <2> QED
    BY <2>1, <2>2 DEF GetNrRows, Pointers
<1>3. n \in Nat /\ rs + n <= GetNrRows(b)
  BY <1>2
<1>4. /\ w.type = HORIZONTAL /\ w.nrRows = n /\ w.nrCols = b.nrCols
      /\ w.rowStart = rs /\ w.first = first
      /\ w.rowptr = [i \in 1..(n + 1) |-> b.rowptr[rs + i] - first]
      /\ w.elems = SubSeq(b.elems, first + 1, b.rowptr[rs + n + 1])
      /\ Has(w, WindowFields)
  <2> HIDE DEF n
  <2> QED
    BY DEF GetWindow, n, Has, WindowFields, MatrixFields
<1> HIDE DEF n, E
<1>5. Within(W, rs, n, b.nrCols) /\ AtPlace(b, rs, n, S, U, first)
  BY <1>3, WindowPoints DEF E
<1>6. HasElems(b, E, S)
  BY StoredElems DEF E
<1> HIDE DEF W, S, U, first
<1>7. /\ Len(S) \in Nat /\ Len(U) \in Nat /\ first \in Nat /\ first + Len(U) <= Len(S)
      /\ b.rowptr[rs + n + 1] = first + Len(U)
      /\ \A k \in 1..Len(U) : U[k].item = S[first + k].item /\ U[k].x = S[first + k].x
      /\ \A i \in 1..(n + 1) : Count(U, i) \in Nat /\ b.rowptr[rs + i] = first + Count(U, i)
  BY Zenon, <1>5 DEF AtPlace
<1>8. /\ Len(b.elems) = Len(S) /\ b.elems \in Seq([x : Int, item : E])
      /\ \A k \in 1..Len(S) : b.elems[k] = [x |-> S[k].x, item |-> S[k].item]
  BY Zenon, <1>6 DEF HasElems
<1>9. w.elems = [k \in 1..Len(U) |-> [x |-> U[k].x, item |-> U[k].item]]
  <2> DEFINE T == [x : Int, item : E]
             s == b.elems
             g == SubSeq(s, first + 1, first + Len(U))
  <2>1. s \in Seq(T) /\ Len(s) = Len(S)
    BY <1>8
  <2>2. \A k \in 1..Len(S) : s[k] = [x |-> S[k].x, item |-> S[k].item]
    BY <1>8
  <2> HIDE DEF s, T
  <2>3. /\ Len(g) = Len(U) /\ g = [k \in 1..Len(U) |-> g[k]]
        /\ \A k \in 1..Len(U) : g[k] = s[first + k]
    BY <1>7, <2>1
  <2>4. w.elems = g
    BY <1>4, <1>7 DEF s
  <2> HIDE DEF g
  <2>5. ASSUME NEW k \in 1..Len(U) PROVE g[k] = [x |-> U[k].x, item |-> U[k].item]
    <3>1. first + k \in 1..Len(S)
      BY <1>7
    <3>2. s[first + k] = [x |-> S[first + k].x, item |-> S[first + k].item]
      BY Zenon, <2>2, <3>1
    <3>3. U[k].item = S[first + k].item /\ U[k].x = S[first + k].x
      BY Zenon, <1>7
    <3> QED
      BY Zenon, <2>3, <3>2, <3>3
  <2> QED
    BY <2>3, <2>4, <2>5
<1>10. w.rowptr = Pointers(U, n + 1)
  <2>1. \A i \in 1..(n + 1) : b.rowptr[rs + i] - first = Count(U, i)
    BY <1>7
  <2> QED
    BY <1>4, <2>1 DEF Pointers
<1>11. \A k \in 1..Len(U) : U[k].y \in 1..n
  <2>1. \A k \in 1..Len(U) : U[k].item \in W /\ U[k].y = U[k].item.y - rs
    BY <1>1, <1>5, SortedIs DEF U
  <2>2. \A e \in W : e.y - rs \in 1..n
    BY <1>5, PositionInside
  <2> QED
    BY <2>1, <2>2
<1>12. Holds(w, U, n + 1)
  <2>1. n + 1 \in Pos /\ (n + 1) - 1 = n
    BY <1>3 DEF Pos
  <2>2. \A k \in 1..Len(U) : U[k].y \in 1..((n + 1) - 1)
    BY Zenon, <1>11, <2>1
  <2> QED
    BY Zenon, <1>9, <1>10, <2>1, <2>2 DEF Holds
<1>13. W = RowsOf(b, w)
  BY <1>4 DEF W, RowsOf, E
<1>14. Stored(w, W, rs)
  <2>1. b.nrCols \in Nat
    BY <1>5 DEF Within
  <2>2. n + 1 \in 1..(w.nrRows + w.nrCols + 1) /\ n + 1 <= w.nrRows + 1
    BY <1>3, <1>4, <2>1
  <2>3. U = Sorted(w.type, W, rs, w.nrRows, w.nrCols)
    BY <1>4 DEF U
  <2>4. Holds(w, Sorted(w.type, W, rs, w.nrRows, w.nrCols), n + 1)
    BY Zenon, <1>12, <2>3
  <2>5. w.type \in IterOrders /\ Within(W, rs, w.nrRows, w.nrCols)
    BY Zenon, <1>1, <1>4, <1>5
  <2> QED
    BY <2>2, <2>4, <2>5 DEF Stored
<1>15. Stored(w, RowsOf(b, w), w.rowStart)
  BY Zenon, <1>4, <1>13, <1>14
<1> QED
  BY <1>3, <1>4, <1>15 DEF IsWindowOf, E, first

\* A window in another order is a window still, and its matrix has the elements where
\* the transformation leaves them.
LEMMA TransformedWindow ==
  ASSUME NEW b, NEW w, IsWindowOf(b, w), NEW t \in IterOrders
  PROVE  /\ IsWindowOf(b, Transformed(w, t)) /\ Transformed(w, t).type = t
         /\ WithShared(WithShared(b, w), Transformed(w, t)) = WithShared(b, Transformed(w, t))
<1> DEFINE v == Transformed(w, t)
           T == [x : Int, item : EntriesOf(b)]
<1>1. /\ Has(b, MatrixFields) /\ b.type = HORIZONTAL /\ Stored(b, EntriesOf(b), 0)
      /\ Has(w, WindowFields)
      /\ w.rowStart \in Nat /\ w.rowStart + w.nrRows <= GetNrRows(b) /\ w.nrCols = b.nrCols
      /\ w.first = b.rowptr[w.rowStart + 1]
      /\ Stored(w, RowsOf(b, w), w.rowStart)
  BY DEF IsWindowOf
<1>2. MatrixFields \subseteq WindowFields
  BY DEF WindowFields
<1>3. /\ Stored(v, RowsOf(b, w), w.rowStart)
      /\ Has(v, WindowFields) /\ v.type = t
      /\ OtherFieldsKept(v, w, WindowFields)
  BY Zenon, <1>1, <1>2, TransformedStored
<1> HIDE DEF v
<1>4. /\ v.nrRows = w.nrRows /\ v.nrCols = w.nrCols
      /\ v.rowStart = w.rowStart /\ v.first = w.first
  BY <1>3 DEF WindowFields, MatrixFields, OtherFieldsKept
<1>5. RowsOf(b, v) = RowsOf(b, w)
  BY Zenon, <1>4 DEF RowsOf
<1>6. IsWindowOf(b, v)
  BY Zenon, <1>1, <1>3, <1>4, <1>5 DEF IsWindowOf
<1>7. /\ FitsIn(b.elems, w.elems, w.first, T) /\ Len(w.elems) = Cardinality(RowsOf(b, w))
      /\ FitsIn(b.elems, v.elems, v.first, T) /\ Len(v.elems) = Cardinality(RowsOf(b, v))
  BY Zenon, <1>6, WindowIs
<1> HIDE DEF T
<1>8. Spliced(Spliced(b.elems, w.elems, w.first), v.elems, w.first)
        = Spliced(b.elems, v.elems, w.first)
  <2>1. /\ b.elems \in Seq(T) /\ w.elems \in Seq(T) /\ v.elems \in Seq(T) /\ w.first \in Nat
        /\ w.first + Len(w.elems) <= Len(b.elems) /\ Len(v.elems) = Len(w.elems)
    BY <1>5, <1>7 DEF FitsIn
  <2> QED
    BY <2>1, SpliceTwice
<1>9. /\ WithShared(b, w) = [b EXCEPT !.elems = Spliced(b.elems, w.elems, w.first)]
      /\ WithShared(b, v) = [b EXCEPT !.elems = Spliced(b.elems, v.elems, v.first)]
      /\ WithShared(WithShared(b, w), v)
           = [WithShared(b, w) EXCEPT !.elems = Spliced(WithShared(b, w).elems, v.elems, v.first)]
  BY Zenon DEF WithShared, Spliced
<1>10. /\ WithShared(b, w).elems = Spliced(b.elems, w.elems, w.first)
       /\ Has(WithShared(b, w), MatrixFields)
  <2> DEFINE m == WithShared(b, w)
  <2>1. m = WithShared(b, w)
    OBVIOUS
  <2> HIDE DEF m
  <2>2. m.elems = Spliced(b.elems, w.elems, w.first) /\ Has(m, MatrixFields)
    BY <2>1, SharedIs
  <2> QED
    BY <2>2 DEF m
<1>11. WithShared(WithShared(b, w), v) = WithShared(b, v)
  <2> DEFINE m == WithShared(b, w)
             e1 == Spliced(b.elems, w.elems, w.first)
             e2 == Spliced(b.elems, v.elems, v.first)
  <2>1. m = [b EXCEPT !.elems = e1] /\ WithShared(m, v) = [m EXCEPT !.elems = e2]
    BY Zenon, <1>4, <1>8, <1>9, <1>10
  <2>2. WithShared(b, v) = [b EXCEPT !.elems = e2]
    BY <1>9
  <2> HIDE DEF m, e1, e2
  <2>3. [[b EXCEPT !.elems = e1] EXCEPT !.elems = e2] = [b EXCEPT !.elems = e2]
    BY <1>1 DEF Has, MatrixFields
  <2> QED
    BY <2>1, <2>2, <2>3 DEF m
<1> QED
  BY <1>3, <1>6, <1>11 DEF v

\* A window in the matrix's order put back leaves the matrix as it was.
LEMMA Returned ==
  ASSUME NEW b, NEW w, IsWindowOf(b, w), w.type = HORIZONTAL
  PROVE  PutWindow(b, w) = b
<1> DEFINE f == [i \in DOMAIN w.rowptr |-> b.rowptr[w.rowStart + 1] + w.rowptr[i]]
<1>1. RowsFit(b, w)
  BY WindowIs
<1>2. w.rowStart \in Nat /\ Has(b, MatrixFields)
  BY DEF IsWindowOf
<1>3. /\ b.rowptr \in Seq(Nat) /\ w.rowptr \in Seq(Nat)
      /\ w.rowStart + Len(w.rowptr) <= Len(b.rowptr)
      /\ \A i \in 1..Len(w.rowptr) :
           b.rowptr[w.rowStart + i] = b.rowptr[w.rowStart + 1] + w.rowptr[i]
  BY <1>1 DEF RowsFit
<1>4. /\ Len(w.rowptr) \in Nat /\ Len(b.rowptr) \in Nat /\ DOMAIN w.rowptr = 1..Len(w.rowptr)
      /\ \A i \in 1..Len(b.rowptr) : b.rowptr[i] \in Nat
  BY <1>3
<1>5. \A i \in 1..Len(w.rowptr) : w.rowStart + i \in 1..Len(b.rowptr)
  <2> DEFINE rs == w.rowStart
             n == Len(w.rowptr)
             l == Len(b.rowptr)
  <2>1. rs \in Nat /\ n \in Nat /\ l \in Nat /\ rs + n <= l
    BY <1>2, <1>3, <1>4
  <2> HIDE DEF rs, n, l
  <2>2. \A i \in 1..n : rs + i \in 1..l
    BY <2>1
  <2> QED
    BY <2>2 DEF rs, n, l
<1>6. \A i \in 1..Len(w.rowptr) : f[i] = b.rowptr[w.rowStart + i] /\ f[i] \in Nat
  BY <1>3, <1>4, <1>5
<1>7. f = [i \in 1..Len(w.rowptr) |-> f[i]]
  BY <1>4
<1>8. PutWindow(b, w) =
        [b EXCEPT !.rowptr = SubSeq(b.rowptr, 1, w.rowStart) \o f
                               \o SubSeq(b.rowptr, w.rowStart + Len(w.rowptr) + 1, Len(b.rowptr))]
  BY DEF PutWindow
<1> HIDE DEF f
<1>9. f \in Seq(Nat) /\ Len(f) = Len(w.rowptr)
  BY <1>4, <1>6, <1>7
<1>10. PutWindow(b, w) = [b EXCEPT !.rowptr = Spliced(b.rowptr, f, w.rowStart)]
  BY Zenon, <1>8, <1>9 DEF Spliced
<1>11. Spliced(b.rowptr, f, w.rowStart) = b.rowptr
  <2>1. \A i \in 1..Len(f) : f[i] = b.rowptr[w.rowStart + i]
    BY <1>6, <1>9
  <2> QED
    BY <1>2, <1>3, <1>9, <2>1, SpliceSame
<1> QED
  BY <1>2, <1>10, <1>11 DEF Has, MatrixFields

-----------------------------------------------------------------------------
(***************************************************************************)
(* The invariant holds first.                                              *)
(***************************************************************************)
\* A matrix of any size has finitely many places.
LEMMA EntriesFinite ==
  ASSUME NEW rows \in Nat, NEW cols \in Nat
  PROVE  IsFiniteSet(Entries(rows, cols))
<1> DEFINE S == (1..rows) \X (1..cols)
           f == [p \in S |-> [y |-> p[1], x |-> p[2]]]
<1>1. IsFiniteSet(1..rows) /\ IsFiniteSet(1..cols)
  BY FS_Interval
<1>2. IsFiniteSet(S)
  BY <1>1, FS_Product
<1>3. f \in [S -> Entries(rows, cols)]
  BY DEF Entries
<1>4. ASSUME NEW e \in Entries(rows, cols) PROVE \E p \in S : f[p] = e
  <2>1. <<e.y, e.x>> \in S /\ e = [y |-> e.y, x |-> e.x]
    BY DEF Entries
  <2>2. f[<<e.y, e.x>>] = e
    BY <2>1
  <2> QED
    BY <2>1, <2>2
<1>5. f \in Surjection(S, Entries(rows, cols))
  BY <1>3, <1>4 DEF Surjection
<1> QED
  BY <1>2, <1>5, FS_Surjection

\* A matrix as loaded.
LEMMA LoadedStored ==
  ASSUME NEW rows \in Nat, NEW cols \in Nat, NEW entries \in SUBSET Entries(rows, cols),
         NEW m, m = Loaded({[y |-> e.y, x |-> e.x, item |-> e] : e \in entries}, cols)
  PROVE  Has(m, MatrixFields) /\ Stored(m, EntriesOf(m), 0)
<1> DEFINE pts == {[y |-> e.y, x |-> e.x, item |-> e] : e \in entries}
           s == Sort(pts)
           n == NrPointers(s)
<1>1. HORIZONTAL \in IterOrders
  BY DEF IterOrders
<1>2. Within(entries, 0, rows, cols)
  <2>1. IsFiniteSet(entries)
    BY EntriesFinite, FS_Subset
  <2> QED
    BY <2>1 DEF Within, Entries
<1>3. ASSUME NEW nrows PROVE Sorted(HORIZONTAL, entries, 0, nrows, cols) = s
  <2>1. ASSUME NEW e \in entries
        PROVE  Image(HORIZONTAL, e, 0, nrows, cols) = [y |-> e.y, x |-> e.x, item |-> e]
    <3>1. e.y \in Int /\ e.x \in Int
      BY DEF Entries
    <3>2. e.y - 0 = e.y
      BY <3>1
    <3>3. HORIZONTAL[1] = "HORIZONTAL"
      BY DEF HORIZONTAL
    <3>4. Xform(HORIZONTAL, Point(e.y, e.x), nrows, cols) = Point(e.y, e.x)
      BY <3>3 DEF Xform, Point
    <3> QED
      BY <3>2, <3>4 DEF Image, Position, Point
  <2>2. Images(HORIZONTAL, entries, 0, nrows, cols) = pts
    BY <2>1 DEF Images
  <2> QED
    BY <2>2 DEF Sorted
<1>4. /\ m.type = HORIZONTAL /\ m.rowptr = RowPtrOf(s, 1) /\ m.elems = ElemsOf(s)
      /\ m.nrRows = Len(m.rowptr) - 1 /\ m.nrCols = cols /\ Has(m, MatrixFields)
  <2> HIDE DEF s
  <2> QED
    BY DEF s, Loaded, Has, MatrixFields
<1>5. /\ Stream(s)
      /\ \A k \in 1..Len(s) : s[k].y \in Int /\ s[k].y >= 1
      /\ \A k \in 1..Len(s) : s[k].y = s[k].item.y
      /\ \A e \in entries : \E k \in 1..Len(s) : s[k].item = e
  <2>1. s = Sorted(HORIZONTAL, entries, 0, rows, cols)
    BY <1>3
  <2> HIDE DEF s
  <2>2. /\ Stream(s)
        /\ \A k \in 1..Len(s) : s[k].item \in entries /\ s[k].y \in 1..(rows + cols)
        /\ \A e \in entries : \E k \in 1..Len(s) : s[k].item = e
        /\ \A k \in 1..Len(s) : s[k].y = s[k].item.y - 0
    BY <1>1, <1>2, <2>1, SortedIs
  <2>3. \A e \in entries : e.y - 0 = e.y
    BY DEF Entries
  <2> QED
    BY <2>2, <2>3
<1> HIDE DEF s, n
<1>6. Holds(m, s, n)
  <2>1. \A k \in 1..Len(s) : s[k].y \in Pos
    BY <1>5 DEF Pos
  <2> QED
    BY <1>4, <1>5, <2>1, BuiltHolds DEF n
<1>7. n \in Nat /\ n >= 1 /\ Len(m.rowptr) = n
  BY <1>6 DEF Holds, Pointers, Pos
<1>8. Within(entries, 0, m.nrRows, m.nrCols)
  <2>1. \A k \in 1..Len(s) : s[k].y \in 1..(n - 1)
    BY <1>6 DEF Holds
  <2>2. \A e \in entries : e.y \in 1..(n - 1)
    BY <1>5, <2>1
  <2>3. \A e \in entries : e = [y |-> e.y, x |-> e.x] /\ e.x \in 1..cols
    BY DEF Entries
  <2>4. m.nrRows = n - 1 /\ n - 1 \in Nat
    BY <1>4, <1>7
  <2>5. (0 + 1)..(0 + (n - 1)) = 1..(n - 1)
    BY <1>7
  <2>6. entries \subseteq [y : 1..(n - 1), x : 1..cols]
    BY <2>2, <2>3
  <2> QED
    BY <1>2, <1>4, <2>4, <2>5, <2>6 DEF Within
<1>9. Stored(m, entries, 0)
  <2>1. s = Sorted(m.type, entries, 0, m.nrRows, m.nrCols)
    BY <1>3, <1>4
  <2> QED
    BY <1>1, <1>4, <1>8, <2>1, BuiltStored
<1>10. EntriesOf(m) = entries
  <2>1. HasElems(m, entries, Sorted(m.type, entries, 0, m.nrRows, m.nrCols))
    BY <1>9, StoredElems
  <2> QED
    BY <2>1 DEF HasElems, EntriesOf
<1> QED
  BY <1>4, <1>9, <1>10

\* The matrix is loaded first, and no window is out.
LEMMA InitInv == Init => IInv
<1> SUFFICES ASSUME Init PROVE Idle
  BY DEF IInv
<1>1. PICK shape \in Shapes : \E entries \in SUBSET Entries(shape[1], shape[2]) :
        spm = Loaded({[y |-> e.y, x |-> e.x, item |-> e] : e \in entries}, shape[2])
  BY DEF Init
<1>2. PICK entries \in SUBSET Entries(shape[1], shape[2]) :
        spm = Loaded({[y |-> e.y, x |-> e.x, item |-> e] : e \in entries}, shape[2])
  BY <1>1
<1>3. shape[1] \in Nat /\ shape[2] \in Nat
  BY ShapesAssumption
<1>4. Has(spm, MatrixFields) /\ Stored(spm, EntriesOf(spm), 0)
  BY <1>2, <1>3, LoadedStored
<1> QED
  BY <1>4 DEF Init, Idle

-----------------------------------------------------------------------------
(***************************************************************************)
(* Every step keeps the invariant.                                         *)
(***************************************************************************)
\* A window that is out is not the absence of one.
LEMMA OutIsNot ==
  ASSUME Out
  PROVE  window # NoWindow
<1>1. window.type \in IterOrders
  BY DEF Out, IsWindowOf, Stored
<1>2. window.type[1] # "NONE"
  BY <1>1, OrderKinds
<1>3. NoWindow.type[1] = "NONE"
  BY DEF NoWindow
<1> QED
  BY <1>2, <1>3

\* A transformation of the matrix keeps its entries.
LEMMA TransformInv ==
  ASSUME IInv, NEW t \in Orders, Transform(t)
  PROVE  IInv' /\ Items' = Items
<1>1. t \in IterOrders
  BY OrdersAssumption
<1>2. /\ window = NoWindow /\ spm' = Transformed(spm, t)
      /\ window' = window /\ before' = before
  BY DEF Transform
<1>3. before = <<>> /\ Has(spm, MatrixFields) /\ Stored(spm, EntriesOf(spm), 0)
  BY <1>2, OutIsNot DEF IInv, Idle
<1> DEFINE m == Transformed(spm, t)
<1>4. Stored(m, EntriesOf(spm), 0) /\ Has(m, MatrixFields)
  BY <1>1, <1>3, TransformedStored
<1> HIDE DEF m
<1>5. EntriesOf(m) = EntriesOf(spm)
  <2>1. HasElems(m, EntriesOf(spm),
                 Sorted(m.type, EntriesOf(spm), 0, m.nrRows, m.nrCols))
    BY <1>4, StoredElems
  <2> QED
    BY Zenon, <2>1 DEF HasElems, EntriesOf
<1>6. spm' = m /\ window' = NoWindow /\ before' = <<>>
  BY <1>2, <1>3 DEF m
<1>7. Items = EntriesOf(spm) /\ Items' = EntriesOf(m)
  BY <1>6 DEF Items, EntriesOf
<1>8. Stored(m, EntriesOf(m), 0)
  BY <1>4, <1>5
<1>9. Idle'
  BY Zenon, <1>4, <1>6, <1>8 DEF Idle
<1> QED
  BY <1>5, <1>7, <1>9 DEF IInv

\* A window is taken of a matrix in its own order.
LEMMA TakeWindowInv ==
  ASSUME IInv, NEW rs \in Nat, NEW length \in Nat, TakeWindow(rs, length)
  PROVE  IInv' /\ Items' = Items
<1>1. /\ window = NoWindow /\ spm.type = HORIZONTAL /\ rs < GetNrRows(spm)
      /\ window' = GetWindow(spm, rs, length) /\ before' = spm /\ spm' = spm
  BY DEF TakeWindow
<1>2. Has(spm, MatrixFields) /\ Stored(spm, EntriesOf(spm), 0)
  BY <1>1, OutIsNot DEF IInv, Idle
<1> DEFINE w == GetWindow(spm, rs, length)
<1>3. w = GetWindow(spm, rs, length)
  OBVIOUS
<1>4. window' = w
  BY <1>1
<1> HIDE DEF w
<1>5. IsWindowOf(spm, w) /\ w.type = HORIZONTAL
  BY <1>1, <1>2, <1>3, TakenWindow
<1> DEFINE m == WithShared(spm, w)
<1>6. m = WithShared(spm, w)
  OBVIOUS
<1> HIDE DEF m
<1>7. m = spm
  BY <1>5, <1>6, SharedIs
<1>8. Out'
  BY Zenon, <1>1, <1>4, <1>5, <1>6, <1>7 DEF Out
<1> QED
  BY <1>1, <1>8 DEF IInv, Items

\* A transformation of the window keeps the matrix's entries.
LEMMA TransformWindowInv ==
  ASSUME IInv, NEW t \in Orders, TransformWindow(t)
  PROVE  IInv' /\ Items' = Items
<1>1. t \in IterOrders
  BY OrdersAssumption
<1>2. /\ window # NoWindow /\ window' = Transformed(window, t)
      /\ spm' = WithShared(spm, Transformed(window, t)) /\ before' = before
  BY DEF TransformWindow
<1>3. IsWindowOf(before, window) /\ spm = WithShared(before, window)
  BY <1>2 DEF IInv, Idle, Out
<1> DEFINE v == Transformed(window, t)
<1>4. IsWindowOf(before, v) /\ WithShared(WithShared(before, window), v) = WithShared(before, v)
  BY <1>1, <1>3, TransformedWindow
<1>5. window' = v /\ spm' = WithShared(spm, v)
  BY <1>2
<1> HIDE DEF v
<1>6. spm' = WithShared(before, v)
  BY Zenon, <1>3, <1>4, <1>5
<1>7. Out'
  BY Zenon, <1>2, <1>4, <1>5, <1>6 DEF Out
<1>8. EntriesOf(spm) = EntriesOf(before)
  BY <1>3, SharedIs
<1>9. EntriesOf(spm') = EntriesOf(before)
  BY <1>4, <1>6, SharedIs
<1>10. Items = EntriesOf(spm) /\ Items' = EntriesOf(spm')
  BY DEF Items, EntriesOf
<1> QED
  BY <1>7, <1>8, <1>9, <1>10 DEF IInv

\* A window put back leaves the matrix as it was.
LEMMA ReturnWindowInv ==
  ASSUME IInv, ReturnWindow
  PROVE  IInv' /\ Items' = Items /\ spm' = before
<1>1. /\ window # NoWindow /\ window.type = spm.type /\ spm' = PutWindow(spm, window)
      /\ window' = NoWindow /\ before' = <<>>
  BY DEF ReturnWindow
<1>2. IsWindowOf(before, window) /\ spm = WithShared(before, window)
  BY <1>1 DEF IInv, Idle, Out
<1>3. /\ before.type = HORIZONTAL /\ Has(before, MatrixFields)
      /\ Stored(before, EntriesOf(before), 0)
  BY <1>2 DEF IsWindowOf
<1>4. spm.type = before.type
  BY <1>2, SharedIs
<1>5. window.type = HORIZONTAL
  BY <1>1, <1>3, <1>4
<1>6. spm = before
  BY <1>2, <1>5, SharedIs
<1>7. spm' = before
  BY <1>1, <1>2, <1>5, <1>6, Returned
<1>8. Idle'
  BY Zenon, <1>1, <1>3, <1>7 DEF Idle
<1> QED
  BY <1>6, <1>7, <1>8 DEF IInv, Items

\* The next-state relation, action by action.
LEMMA NextInv ==
  ASSUME IInv, Next
  PROVE  IInv' /\ Items' = Items /\ (ReturnWindow => spm' = before)
<1>1. CASE \E t \in Orders : Transform(t)
  <2>1. ReturnWindow => window # NoWindow
    BY DEF ReturnWindow
  <2>2. window = NoWindow
    BY <1>1 DEF Transform
  <2> QED
    BY <1>1, <2>1, <2>2, TransformInv
<1>2. CASE \E t \in Orders : TransformWindow(t)
  <2>1. ReturnWindow => spm' = before
    BY ReturnWindowInv
  <2> QED
    BY <1>2, <2>1, TransformWindowInv
<1>3. CASE \E rs \in 0..(GetNrRows(spm) - 1), length \in 1..GetNrRows(spm) : TakeWindow(rs, length)
  <2>1. PICK rs \in 0..(GetNrRows(spm) - 1), length \in 1..GetNrRows(spm) : TakeWindow(rs, length)
    BY <1>3
  <2>2. rs \in Nat /\ length \in Nat
    BY <2>1
  <2>3. ReturnWindow => spm' = before
    BY ReturnWindowInv
  <2> QED
    BY <2>1, <2>2, <2>3, TakeWindowInv
<1>4. CASE ReturnWindow
  BY <1>4, ReturnWindowInv
<1> QED
  BY <1>1, <1>2, <1>3, <1>4 DEF Next

\* Through every sequence of transformations and windows the matrix, or the window
\* that is out, is what loading it in its order would give.
THEOREM InductiveInvariant == Spec => []IInv
<1>1. IInv /\ [Next]_vars => IInv'
  <2> SUFFICES ASSUME IInv, [Next]_vars PROVE IInv'
    OBVIOUS
  <2>1. CASE Next
    BY <2>1, NextInv
  <2>2. CASE UNCHANGED vars
    BY <2>2 DEF vars, IInv, Idle, Out
  <2> QED
    BY <2>1, <2>2
<1> QED
  BY <1>1, InitInv, PTL DEF Spec

-----------------------------------------------------------------------------
(***************************************************************************)
(* What the invariant says of a matrix.                                    *)
(***************************************************************************)
\* Mapped back, the points are their entries, each once.
LEMMA StoredInPlace ==
  ASSUME NEW m, NEW entries, NEW shift, Stored(m, entries, shift)
  PROVE  InPlace(m, shift)
<1> DEFINE s == Sorted(m.type, entries, shift, m.nrRows, m.nrCols)
<1>1. m.type \in IterOrders /\ Within(entries, shift, m.nrRows, m.nrCols)
  BY DEF Stored
<1>2. Points(m) = s
  BY StoredPoints
<1>3. s = Sorted(m.type, entries, shift, m.nrRows, m.nrCols)
  OBVIOUS
<1>4. HasElems(m, entries, s)
  BY StoredElems
<1> HIDE DEF s
<1>5. /\ Stream(s)
      /\ \A k \in 1..Len(s) : /\ s[k].item \in entries
                              /\ s[k] = Image(m.type, s[k].item, shift, m.nrRows, m.nrCols)
      /\ \A j, k \in 1..Len(s) : s[j].item = s[k].item => j = k
  BY <1>1, <1>3, SortedIs
<1>6. Len(s) \in Nat /\ DOMAIN s = 1..Len(s)
  BY <1>5 DEF Stream, Rising
<1>7. ASSUME NEW k \in 1..Len(s)
      PROVE  RevXform(m.type, s[k], m.nrRows, m.nrCols)
               = Point(s[k].item.y - shift, s[k].item.x)
  <2> DEFINE e == s[k].item
  <2>1. e \in entries /\ s[k] = Image(m.type, e, shift, m.nrRows, m.nrCols)
    BY <1>5
  <2>2. RevXform(m.type, s[k], m.nrRows, m.nrCols) = Position(e, shift)
    BY <1>1, <2>1, ImageMoves
  <2> QED
    BY <2>2 DEF Position
<1>8. ToSet(Points(m)) = {s[k] : k \in 1..Len(s)}
  BY <1>2, <1>6 DEF ToSet
<1>9. \A p \in ToSet(Points(m)) :
        RevXform(m.type, p, m.nrRows, m.nrCols) = Point(p.item.y - shift, p.item.x)
  BY <1>7, <1>8
<1>10. /\ DOMAIN m.elems = 1..Len(s)
       /\ \A k \in 1..Len(s) : m.elems[k].item = s[k].item
  BY <1>4, <1>6 DEF HasElems
<1> QED
  BY <1>5, <1>9, <1>10 DEF InPlace

\* The row pointers delimit all elements, which rise row by row, and fit the array
\* they are built in.
LEMMA StoredRows ==
  ASSUME NEW m, NEW entries, NEW shift, Stored(m, entries, shift)
  PROVE  /\ m.rowptr[1] = 0 /\ Last(m.rowptr) = Len(m.elems)
         /\ \A k \in 1..(Len(m.elems) - 1) : CooLess(Points(m)[k], Points(m)[k + 1])
         /\ Len(m.rowptr) <= m.nrRows + m.nrCols + 1
<1> DEFINE s == Sorted(m.type, entries, shift, m.nrRows, m.nrCols)
<1>1. /\ m.type \in IterOrders /\ Within(entries, shift, m.nrRows, m.nrCols)
      /\ m.nrRows \in Nat /\ m.nrCols \in Nat
  BY DEF Stored, Within
<1>2. Points(m) = s
  BY StoredPoints
<1>3. PICK n \in 1..(m.nrRows + m.nrCols + 1) : Holds(m, s, n)
  BY DEF Stored
<1>4. Rising(s)
  BY <1>1, SortedIs DEF Stream
<1>5. HasElems(m, entries, s)
  BY StoredElems
<1> HIDE DEF s
<1>6. /\ Len(s) \in Nat
      /\ \A k \in 1..Len(s) : s[k].y \in Int
      /\ \A j, k \in 1..Len(s) : j < k => CooLess(s[j], s[k])
  BY <1>4 DEF Rising
<1>7. /\ n \in Nat /\ n >= 1 /\ n <= m.nrRows + m.nrCols + 1
      /\ m.rowptr = Pointers(s, n)
      /\ \A k \in 1..Len(s) : s[k].y \in 1..(n - 1)
      /\ Len(m.elems) = Len(s)
  BY <1>1, <1>3, <1>5 DEF Holds, Pos, HasElems
<1>8. Len(m.rowptr) = n /\ \A i \in 1..n : m.rowptr[i] = Count(s, i)
  BY <1>7 DEF Pointers
<1>9. m.rowptr[1] = 0
  <2>1. Count(s, 1) \in 0..Len(s) /\ \A k \in 1..Len(s) : k <= Count(s, 1) <=> s[k].y < 1
    BY <1>4, CountIs
  <2>2. Count(s, 1) = 0
    BY <1>6, <1>7, <2>1
  <2> QED
    BY <1>7, <1>8, <2>2
<1>10. Last(m.rowptr) = Len(s)
  <2>1. Count(s, n) \in 0..Len(s) /\ \A k \in 1..Len(s) : k <= Count(s, n) <=> s[k].y < n
    BY <1>4, <1>7, CountIs
  <2>2. Count(s, n) = Len(s)
    <3>1. CASE Len(s) = 0
      BY <2>1, <3>1
    <3>2. CASE Len(s) # 0
      <4>1. Len(s) \in 1..Len(s)
        BY <1>6, <3>2
      <4>2. s[Len(s)].y < n
        BY <1>6, <1>7, <4>1
      <4> QED
        BY <1>6, <2>1, <4>1, <4>2
    <3> QED
      BY <3>1, <3>2
  <2> QED
    BY <1>7, <1>8, <2>2 DEF Last
<1>11. \A k \in 1..(Len(s) - 1) : CooLess(s[k], s[k + 1])
  <2>1. \A k \in 1..(Len(s) - 1) : k \in 1..Len(s) /\ k + 1 \in 1..Len(s) /\ k < k + 1
    BY <1>6
  <2> QED
    BY <1>6, <2>1
<1> QED
  BY <1>2, <1>7, <1>8, <1>9, <1>10, <1>11

\* In either case the matrix in order, and its row pointers fit.
LEMMA InvGives ==
  ASSUME IInv
  PROVE  EntriesInPlace /\ RowsSorted /\ RowPtrFits
<1>1. CASE Idle
  <2>1. window = NoWindow /\ Stored(spm, EntriesOf(spm), 0)
    BY <1>1 DEF Idle
  <2>2. EntriesInPlace
    BY <2>1, StoredInPlace DEF EntriesInPlace
  <2>3. RowsSorted
    BY <2>1, StoredRows DEF RowsSorted
  <2>4. RowPtrFits
    BY <2>1, StoredRows DEF RowPtrFits
  <2> QED
    BY <2>2, <2>3, <2>4
<1>2. CASE Out
  <2>1. /\ window # NoWindow /\ spm = WithShared(before, window) /\ IsWindowOf(before, window)
        /\ Stored(window, RowsOf(before, window), window.rowStart)
        /\ Stored(before, EntriesOf(before), 0)
    BY <1>2, OutIsNot DEF Out, IsWindowOf
  <2>2. EntriesInPlace
    BY <2>1, StoredInPlace DEF EntriesInPlace
  <2>3. RowsSorted
    BY <2>1, StoredRows DEF RowsSorted
  <2>4. spm.rowptr = before.rowptr /\ spm.nrRows = before.nrRows /\ spm.nrCols = before.nrCols
    BY <2>1, SharedIs
  <2>5. /\ Len(before.rowptr) <= before.nrRows + before.nrCols + 1
        /\ Len(window.rowptr) <= window.nrRows + window.nrCols + 1
    BY <2>1, StoredRows
  <2>6. RowPtrFits
    BY Zenon, <2>4, <2>5 DEF RowPtrFits
  <2> QED
    BY <2>2, <2>3, <2>6
<1> QED
  BY <1>1, <1>2 DEF IInv

-----------------------------------------------------------------------------
(***************************************************************************)
(* The theorems.                                                           *)
(***************************************************************************)
\* No sequence of transformations displaces or duplicates an entry, in the matrix or
\* in a window (csx/spm.cc, Transform).
THEOREM PlaceKept == Spec => []EntriesInPlace
  BY InductiveInvariant, InvGives, PTL

\* Rows are contiguous, complete and sorted by column, whatever the path.
THEOREM OrderKept == Spec => []RowsSorted
  BY InductiveInvariant, InvGives, PTL

\* No order has more rows than the row pointer array is created for.
THEOREM RowPtrBounded == Spec => []RowPtrFits
  BY InductiveInvariant, InvGives, PTL

\* No step loses or gains an entry, of the matrix or through a window.
THEOREM EntriesKept == Spec => KeepsEntries
<1>1. IInv /\ [Next]_vars => [Items' = Items]_vars
  BY NextInv
<1> QED
  BY <1>1, InductiveInvariant, PTL DEF Spec, KeepsEntries

\* A window that is put back leaves the matrix as it was when the window was taken
\* (csx/drle.cc, GenAllStats).
THEOREM MatrixRestored == Spec => WindowLeavesMatrix
<1>1. IInv /\ [Next]_vars => [ReturnWindow => spm' = before]_vars
  BY NextInv
<1> QED
  BY <1>1, InductiveInvariant, PTL DEF Spec, WindowLeavesMatrix
=============================================================================
