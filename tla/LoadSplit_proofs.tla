-------------------------- MODULE LoadSplit_proofs ---------------------------
(***************************************************************************)
(* Proofs, for any matrix and any number of threads, whatever the shares:  *)
(* every point is in one of the loaders' parts, no row belongs to two of   *)
(* them, and they know their place in the matrix.                          *)
(***************************************************************************)
EXTENDS LoadSplit, SequenceTheorems, NaturalsInduction, WellFoundedInduction, TLAPS

PointSet == [y : Nat, row : Nat, diag : BOOLEAN, val : Nat]
Builders == [rowptr : Seq(Nat) \ {<<>>}, elems : Seq(PointSet), diag : Seq(PointSet)]
PartSet ==
  [rowStart : Nat, rowptr : Seq(Nat) \ {<<>>}, elems : Seq(PointSet), diag : Seq(PointSet)]

\* What the loaders are given: points in the order of the rows they say.  In a
\* symmetric matrix every row ends with its diagonal point.
InFileOrder ==
  /\ loader \in {"SPM", "SPMSym", "CSR"} /\ points \in Seq(PointSet)
  /\ \A k \in 1..Len(points) : points[k].y # 0
  /\ IF loader = "SPMSym"
       THEN /\ points # <<>> /\ points[1].y = 1 /\ points[Len(points)].diag
            /\ \A k \in 1..(Len(points) - 1) :
                 points[k + 1].y = points[k].y + (IF points[k].diag THEN 1 ELSE 0)
       ELSE /\ \A k \in 1..Len(points) : ~points[k].diag
            /\ \A k \in 1..(Len(points) - 1) : points[k].y <= points[k + 1].y

TypeInv ==
  /\ iter \in 1..(Len(points) + 1) /\ rowStart \in Nat /\ rowPrev \in Nat
  /\ bld \in Builders /\ parts \in Seq(PartSet) /\ pc \in {"split", "elems", "done"}

\* The rows from number first on that the row pointers of b delimit hold the
\* points of these rows, and the open row those of row number last.
Placed(b, first, last) ==
  /\ \A i \in 1..Len(b.rowptr) : b.rowptr[i] <= Len(b.elems)
  /\ \A i \in 1..(Len(b.rowptr) - 1) : \A k \in (b.rowptr[i] + 1)..b.rowptr[i + 1] :
       b.elems[k].y = first + i
  /\ \A k \in (b.rowptr[Len(b.rowptr)] + 1)..Len(b.elems) : b.elems[k].y = last
  /\ \A k \in 1..Len(b.diag) : b.diag[k].y = first + k

Closed(b) == b.rowptr[Len(b.rowptr)] = Len(b.elems)

BuilderInv ==
  pc = "elems" =>
    /\ Len(bld.rowptr) = rowPrev - rowStart
    /\ Placed(bld, rowStart, rowPrev)

\* Where the iterator is.
SourceInv ==
  /\ pc = "split" /\ iter <= Len(points) =>
       IF loader = "SPMSym" THEN points[iter].y = rowStart + 1
                            ELSE points[iter].y >= rowStart + 1
  /\ pc = "elems" /\ iter <= Len(points) =>
       /\ points[iter].y >= rowPrev
       /\ loader = "SPMSym" => points[iter].y = rowStart + Len(bld.diag) + 1
  /\ pc = "elems" /\ loader = "SPMSym" =>
       /\ rowPrev <= rowStart + Len(bld.diag) + 1
       /\ iter > 1 /\ points[iter - 1].diag =>
            rowPrev <= rowStart + Len(bld.diag) \/ Closed(bld)

PartInv(p) ==
  /\ \A i \in 1..Len(p.rowptr) : p.rowptr[i] <= Len(p.elems)
  /\ \A i \in 1..NrRows(p) : \A k \in (p.rowptr[i] + 1)..p.rowptr[i + 1] :
       p.elems[k].y = p.rowStart + i
  /\ \A k \in 1..Len(p.diag) : p.diag[k].y = p.rowStart + k
  /\ Closed(p)

PartsInv ==
  /\ \A i \in 1..Len(parts) : PartInv(parts[i]) /\ parts[i].rowStart + NrRows(parts[i]) <= rowStart
  /\ \A i, j \in 1..Len(parts) :
       i < j => parts[i].rowStart + NrRows(parts[i]) <= parts[j].rowStart

Inv == TypeInv /\ BuilderInv /\ SourceInv /\ PartsInv
\* The points are numbered, and but for a CSR matrix with an empty first row each is
\* said to be in its own row.
Numbered ==
  /\ \A k \in 1..Len(points) : points[k].val = k
  /\ (loader = "CSR" => ~EmptyFirstRow) => \A k \in 1..Len(points) : points[k].y = points[k].row

Between(a, b) == {points[k] : k \in a..b}

\* b has its points in file order, the diagonal ones apart.
Sorted(b) ==
  /\ InOrder(b.elems) /\ \A q \in ToSet(b.elems) : ~q.diag
  /\ InOrder(b.diag) /\ \A q \in ToSet(b.diag) : q.diag

\* The open part has the points behind the cnt points of the finished parts.
OpenInv ==
  /\ cnt \in Nat
  /\ pc = "split" => iter = cnt + 1
  /\ pc = "elems" =>
       /\ iter = cnt + ElemsCnt + 1
       /\ PointsIn(bld) = Between(cnt + 1, iter - 1) /\ Sorted(bld)
  /\ pc = "done" => cnt = Len(points)

FinishedInv ==
  /\ UNION {PointsIn(parts[i]) : i \in 1..Len(parts)} = Between(1, cnt)
  /\ \A i, j \in 1..Len(parts) : i < j =>
       \A p \in PointsIn(parts[i]), q \in PointsIn(parts[j]) : p.val < q.val
  /\ \A i \in 1..Len(parts) : Sorted(parts[i])

\* The last thread gets all that is left.
ShareInv ==
  /\ nr \in Nat \ {0} /\ Len(parts) <= nr
  /\ pc = "elems" => Len(parts) < nr
  /\ pc = "elems" /\ Len(parts) = nr - 1 => limit = Len(points) - cnt
  /\ pc = "split" /\ Len(parts) = nr => cnt = Len(points)

LoadInv == OpenInv /\ FinishedInv /\ ShareInv
IInv == InFileOrder /\ Numbered /\ Inv /\ LoadInv

-----------------------------------------------------------------------------
\* A set of numbers has a least one.
LEMMA MinIn ==
  ASSUME NEW S \in SUBSET Nat, S # {}
  PROVE  Min(S) \in S /\ \A k \in S : Min(S) <= k
<1> DEFINE R == OpToRel(<, Nat)
<1>1. IsWellFoundedOn(R, Nat)
  BY NatLessThanWellFounded
<1>2. \A m, n \in Nat : m < n => <<m, n>> \in R
  BY DEF OpToRel
<1> HIDE DEF R
<1>3. PICK n \in S : \A m \in S : ~(<<m, n>> \in R)
  BY Zenon, <1>1, WFMin
<1>4. \A m \in S : ~(m < n)
  BY <1>2, <1>3
<1>5. \A m \in S : n <= m
  BY <1>3, <1>4
<1> QED
  BY <1>3, <1>5 DEF Min

\* Row pointers never go back.
Rising(end) == end \in [Rows -> Nat] /\ \A q, r \in Rows : q <= r => end[q] <= end[r]

\* What the row pointers of a matrix satisfy.
LEMMA PointersRise ==
  ASSUME NEW l, NEW end \in RowPointers(l)
  PROVE  /\ Rising(end)
         /\ l = "SPMSym" => end[1] > 0 /\ \A r \in Rows : r + 1 \in Rows => end[r] < end[r + 1]
         /\ l = "CSR" /\ ~EmptyFirstRow => end[1] > 0
<1> DEFINE extra == IF l = "SPMSym" THEN 1 ELSE 0
           First(r) == IF r = 1 THEN 0 ELSE end[r - 1]
<1>1. /\ end \in [Rows -> 0..(NRows * (MaxPerRow + extra))]
      /\ \A q, r \in Rows : q <= r => end[q] <= end[r]
      /\ \A r \in Rows : end[r] - First(r) \in extra..(MaxPerRow + extra)
      /\ l = "CSR" /\ ~EmptyFirstRow => end[1] > 0
  BY DEF RowPointers
<1>2. 1 \in Rows /\ \A r \in Rows : end[r] \in Nat
  BY <1>1, NRowsAssumption DEF Rows
<1>3. Rising(end)
  BY <1>1, <1>2 DEF Rising
<1>4. ASSUME l = "SPMSym" PROVE end[1] > 0
  <2>1. end[1] - 0 >= 1
    BY <1>1, <1>2, <1>4
  <2> QED
    BY <1>2, <2>1
<1>5. ASSUME l = "SPMSym", NEW r \in Rows, r + 1 \in Rows PROVE end[r] < end[r + 1]
  <2>1. First(r + 1) = end[r]
    BY DEF Rows
  <2>2. end[r + 1] - end[r] >= 1
    BY <1>1, <1>2, <1>5, <2>1
  <2> QED
    BY <1>2, <1>5, <2>2
<1> QED
  BY <1>1, <1>3, <1>4, <1>5

\* The row of an element is the first that does not end before it.
LEMMA RowOfIn ==
  ASSUME NEW end, Rising(end), NEW k \in 1..end[NRows]
  PROVE  /\ RowOf(end, k) \in Rows /\ k <= end[RowOf(end, k)]
         /\ \A r \in Rows : k <= end[r] => RowOf(end, k) <= r
         /\ \A r \in Rows : r < RowOf(end, k) => end[r] < k
<1> DEFINE S == {r \in Rows : k <= end[r]}
<1>1. NRows \in Rows /\ Rows \in SUBSET Nat /\ \A r \in Rows : end[r] \in Nat
  BY NRowsAssumption DEF Rows, Rising
<1>2. S \in SUBSET Nat /\ S # {}
  <2>1. NRows \in S
    BY <1>1
  <2> QED
    BY <1>1, <2>1
<1>3. RowOf(end, k) = Min(S)
  BY DEF RowOf
<1>4. Min(S) \in S /\ \A r \in S : Min(S) <= r
  <2> HIDE DEF S
  <2> QED
    BY <1>2, MinIn
<1>5. PICK m \in Rows : m = RowOf(end, k) /\ k <= end[m] /\ \A r \in Rows : k <= end[r] => m <= r
  BY <1>3, <1>4
<1>6. \A r \in Rows : r < m => end[r] < k
  BY <1>1, <1>5
<1> QED
  BY <1>5, <1>6

\* Element k + 1 is in the row of element k or, if that ends with k, in a later one.
LEMMA RowOfNext ==
  ASSUME NEW end, Rising(end), NEW k \in 1..(end[NRows] - 1)
  PROVE  /\ RowOf(end, k) <= RowOf(end, k + 1)
         /\ k # end[RowOf(end, k)] => RowOf(end, k + 1) = RowOf(end, k)
         /\ k = end[RowOf(end, k)] => RowOf(end, k) < RowOf(end, k + 1)
<1>1. NRows \in Rows /\ Rows \in SUBSET Nat /\ \A r \in Rows : end[r] \in Nat
  BY NRowsAssumption DEF Rows, Rising
<1>2. k \in 1..end[NRows] /\ k + 1 \in 1..end[NRows]
  BY <1>1
<1>3. PICK q \in Rows : /\ q = RowOf(end, k) /\ k <= end[q]
                        /\ \A r \in Rows : k <= end[r] => q <= r
  BY <1>2, RowOfIn
<1>4. PICK m \in Rows : /\ m = RowOf(end, k + 1) /\ k + 1 <= end[m]
                        /\ \A r \in Rows : k + 1 <= end[r] => m <= r
  BY <1>2, RowOfIn
<1>5. q <= m
  BY <1>1, <1>3, <1>4
<1>6. k # end[q] => m = q
  BY <1>1, <1>3, <1>4, <1>5
<1>7. k = end[q] => q < m
  BY <1>1, <1>3, <1>4, <1>5
<1> QED
  BY <1>3, <1>4, <1>5, <1>6, <1>7

\* operator++ goes to the row of the next element, or stays in the first row if that
\* is empty: the end of an empty row is no element's.
LEMMA NextRowIs ==
  ASSUME NEW end, Rising(end), NEW elem \in 1..(end[NRows] - 1)
  PROVE  IF end[1] = 0 THEN NextRow(end, 0, elem) = 0
                       ELSE NextRow(end, RowOf(end, elem) - 1, elem) = RowOf(end, elem + 1) - 1
<1> DEFINE S(row) == {r \in row..NRows : r = NRows \/ end[r + 1] # elem}
<1>1. /\ NRows \in Rows /\ Rows \in SUBSET Nat /\ \A r \in Rows : end[r] \in Nat
      /\ Rows = 1..NRows /\ NRows \in Nat /\ elem \in Nat \ {0}
  BY NRowsAssumption DEF Rows, Rising
<1>2. ASSUME NEW row \in Nat, NEW to \in S(row), \A r \in S(row) : to <= r
      PROVE  NextRow(end, row, elem) = to
  <2>1. S(row) \in SUBSET Nat /\ S(row) # {}
    BY <1>1, <1>2
  <2>2. NextRow(end, row, elem) = Min(S(row))
    BY DEF NextRow
  <2>3. Min(S(row)) \in S(row) /\ \A r \in S(row) : Min(S(row)) <= r
    <3> HIDE DEF S
    <3> QED
      BY <2>1, MinIn
  <2>4. \A m \in Nat : m \in S(row) /\ (\A r \in S(row) : m <= r) => m = to
    BY <1>1, <1>2
  <2> QED
    BY Zenon, <2>1, <2>2, <2>3, <2>4
<1>3. CASE end[1] = 0
  <2>1. 0 \in S(0) /\ \A r \in S(0) : 0 <= r
    BY <1>1, <1>3
  <2>2. NextRow(end, 0, elem) = 0
    BY <1>2, <2>1
  <2> QED
    BY <1>3, <2>2
<1>4. CASE end[1] # 0
  <2>1. elem \in 1..end[NRows] /\ elem + 1 \in 1..end[NRows]
    BY <1>1
  <2>2. PICK q \in Rows : q = RowOf(end, elem) /\ elem <= end[q]
    BY <2>1, RowOfIn
  <2>3. PICK m \in Rows : /\ m = RowOf(end, elem + 1) /\ elem + 1 <= end[m]
                          /\ \A r \in Rows : r < m => end[r] < elem + 1
    BY <2>1, RowOfIn
  <2>4. q <= m
    BY <2>2, <2>3, RowOfNext
  <2>5. q - 1 \in Nat /\ m - 1 \in (q - 1)..NRows /\ end[(m - 1) + 1] # elem
    BY <1>1, <2>3, <2>4
  <2>6. ASSUME NEW r \in S(q - 1) PROVE m - 1 <= r
    <3>1. r \in (q - 1)..NRows /\ (r = NRows \/ end[r + 1] # elem)
      OBVIOUS
    <3>2. CASE r = NRows
      BY <1>1, <3>2
    <3>3. CASE r # NRows
      <4>1. r + 1 \in Rows /\ q <= r + 1 /\ end[r + 1] # elem
        BY <1>1, <3>1, <3>3
      <4>2. end[q] <= end[r + 1]
        BY <4>1 DEF Rising
      <4>3. ~(end[r + 1] < elem + 1)
        BY <1>1, <2>2, <4>1, <4>2
      <4>4. ~(r + 1 < m)
        BY <2>3, <4>1, <4>3
      <4> QED
        BY <1>1, <3>1, <4>4
    <3> QED
      BY <3>2, <3>3
  <2>7. NextRow(end, q - 1, elem) = m - 1
    BY <1>2, <2>5, <2>6
  <2> QED
    BY <1>4, <2>2, <2>3, <2>7
<1> QED
  BY <1>3, <1>4

\* So the iterator is in the row of each element or, if the first row is empty, in
\* the first row throughout.
LEMMA IteratorRowsAre ==
  ASSUME NEW end, Rising(end)
  PROVE  \A elem \in 0..(end[NRows] - 1) :
           IteratorRows(end)[elem] = (IF end[1] = 0 THEN 0 ELSE RowOf(end, elem + 1) - 1)
<1> DEFINE D == 0..(end[NRows] - 1)
           is == [elem \in D |-> IF end[1] = 0 THEN 0 ELSE RowOf(end, elem + 1) - 1]
           Goes(at) == at = [elem \in D |-> IF elem = 0 THEN 0 ELSE NextRow(end, at[elem - 1], elem)]
           at == IteratorRows(end)
<1>1. /\ NRows \in Rows /\ Rows \in SUBSET Nat /\ \A r \in Rows : end[r] \in Nat
      /\ Rows = 1..NRows /\ 1 \in Rows
  BY NRowsAssumption DEF Rows, Rising
<1>2. D \in SUBSET Nat /\ \A elem \in D : elem # 0 => elem - 1 \in D /\ elem \in 1..(end[NRows] - 1)
  BY <1>1
<1>3. ASSUME 0 \in D PROVE is[0] = 0
  <2>1. CASE end[1] = 0
    BY <1>3, <2>1
  <2>2. CASE end[1] # 0
    <3>1. 1 \in 1..end[NRows] /\ 1 <= end[1]
      BY <1>1, <1>3, <2>2
    <3>2. RowOf(end, 1) \in Rows /\ RowOf(end, 1) <= 1
      BY <1>1, <3>1, RowOfIn
    <3>3. RowOf(end, 1) = 1
      BY <1>1, <3>2
    <3> QED
      BY <1>3, <2>2, <3>3
  <2> QED
    BY <2>1, <2>2
<1>4. ASSUME NEW elem \in D, elem # 0 PROVE is[elem] = NextRow(end, is[elem - 1], elem)
  <2>1. elem - 1 \in D /\ elem \in 1..(end[NRows] - 1) /\ (elem - 1) + 1 = elem
    BY <1>2, <1>4
  <2> QED
    BY <2>1, NextRowIs
<1>5. Goes(is)
  <2>1. \A elem \in D : is[elem] = IF elem = 0 THEN 0 ELSE NextRow(end, is[elem - 1], elem)
    BY <1>3, <1>4
  <2>2. is = [elem \in D |-> is[elem]]
    OBVIOUS
  <2> HIDE DEF is
  <2> QED
    BY <2>1, <2>2
<1>6. Goes(at)
  <2>1. at = CHOOSE f : Goes(f)
    BY DEF IteratorRows
  <2>2. \E f : Goes(f)
    BY <1>5
  <2> HIDE DEF Goes, at
  <2> QED
    BY <2>1, <2>2
<1> HIDE DEF is, at
<1>7. \A elem \in D : at[elem] = is[elem]
  <2> DEFINE Wrong == {elem \in D : at[elem] # is[elem]}
  <2>1. SUFFICES ASSUME Wrong # {} PROVE FALSE
    OBVIOUS
  <2>2. PICK elem \in Wrong : \A k \in Wrong : elem <= k
    <3>1. Wrong \in SUBSET Nat
      BY <1>2
    <3> HIDE DEF Wrong
    <3> QED
      BY <2>1, <3>1, MinIn
  <2>3. CASE elem = 0
    BY <1>3, <1>6, <2>2, <2>3
  <2>4. CASE elem # 0
    <3>1. elem \in D /\ elem \in Nat /\ elem - 1 \in D
      BY <1>2, <2>2, <2>4
    <3>2. elem - 1 \notin Wrong
      BY <2>2, <3>1
    <3>3. at[elem - 1] = is[elem - 1]
      BY <3>1, <3>2
    <3>4. at[elem] = NextRow(end, at[elem - 1], elem)
      BY <1>6, <2>4, <3>1
    <3>5. at[elem] = is[elem]
      BY <1>4, <2>4, <3>1, <3>3, <3>4
    <3> QED
      BY <2>2, <3>5
  <2> QED
    BY <2>3, <2>4
<1> QED
  BY <1>7 DEF is, at

\* Every loader's iterator gives the points in the order of the rows it says.
LEMMA PointsOrdered == Init => InFileOrder /\ Numbered
<1> SUFFICES ASSUME Init PROVE InFileOrder /\ Numbered
  OBVIOUS
<1>1. PICK end \in RowPointers(loader) : points = PointsOf(loader, end)
  BY DEF Init
<1> DEFINE n == end[NRows]
           y(k) == IF loader = "CSR" /\ end[1] = 0 THEN 1 ELSE RowOf(end, k)
           point(k) == [y |-> y(k), row |-> RowOf(end, k),
                        diag |-> loader = "SPMSym" /\ k = end[RowOf(end, k)], val |-> k]
<1>2. /\ Rising(end)
      /\ loader = "SPMSym" =>
           end[1] > 0 /\ \A r \in Rows : r + 1 \in Rows => end[r] < end[r + 1]
      /\ loader = "CSR" /\ ~EmptyFirstRow => end[1] > 0
  BY PointersRise
<1>3. /\ NRows \in Rows /\ 1 \in Rows /\ Rows = 1..NRows /\ NRows \in Nat
      /\ n \in Nat /\ \A r \in Rows : end[r] \in Nat
  BY <1>2, NRowsAssumption DEF Rows, Rising
<1>4. points = [k \in 1..n |-> point(k)]
  <2>1. CASE loader = "CSR"
    <3>1. points = [k \in 1..n |-> [y |-> IteratorRows(end)[k - 1] + 1, row |-> RowOf(end, k),
                                    diag |-> FALSE, val |-> k]]
      BY <1>1, <2>1 DEF PointsOf, CsrPoints
    <3>2. ASSUME NEW k \in 1..n PROVE IteratorRows(end)[k - 1] + 1 = y(k)
      <4>1. k - 1 \in 0..(n - 1) /\ (k - 1) + 1 = k
        BY <1>3
      <4>2. IteratorRows(end)[k - 1] = IF end[1] = 0 THEN 0 ELSE RowOf(end, k) - 1
        BY <1>2, <4>1, IteratorRowsAre
      <4>3. RowOf(end, k) \in Nat
        BY <1>2, <1>3, RowOfIn
      <4> QED
        BY <2>1, <4>2, <4>3
    <3>3. \A k \in 1..n : (loader = "SPMSym" /\ k = end[RowOf(end, k)]) = FALSE
      BY <2>1
    <3> QED
      BY <3>1, <3>2, <3>3
  <2>2. CASE loader # "CSR"
    <3>1. \A k : y(k) = RowOf(end, k)
      BY <2>2
    <3> QED
      BY <1>1, <2>2, <3>1 DEF PointsOf, FilePoints
  <2> QED
    BY <2>1, <2>2
<1>5. ASSUME NEW k \in 1..n
      PROVE  /\ RowOf(end, k) \in Rows /\ y(k) \in Nat \ {0} /\ point(k) \in PointSet
  <2>1. RowOf(end, k) \in Rows
    BY <1>2, RowOfIn
  <2>2. RowOf(end, k) \in Nat \ {0} /\ y(k) \in Nat \ {0} /\ k \in Nat
    BY <1>3, <2>1
  <2> HIDE DEF y
  <2> QED
    BY <2>1, <2>2 DEF PointSet
<1>6. /\ Len(points) = n /\ points \in Seq(PointSet)
      /\ \A k \in 1..n : /\ points[k].y = y(k) /\ points[k].row = RowOf(end, k) /\ points[k].val = k
                         /\ points[k].diag = (loader = "SPMSym" /\ k = end[RowOf(end, k)])
  <2> HIDE DEF y
  <2>1. \A k \in 1..n : points[k] = point(k)
    BY <1>4
  <2>2. points \in Seq(PointSet) /\ Len(points) = n
    <3> HIDE DEF point, n
    <3> QED
      BY <1>3, <1>4, <1>5
  <2>3. \A k : /\ point(k).y = y(k) /\ point(k).row = RowOf(end, k) /\ point(k).val = k
              /\ point(k).diag = (loader = "SPMSym" /\ k = end[RowOf(end, k)])
    BY Zenon
  <2> HIDE DEF point, n
  <2> QED
    BY ZenonT(40), <2>1, <2>2, <2>3
<1> HIDE DEF n, point
<1>7. Numbered
  <2>1. ASSUME loader = "CSR" => ~EmptyFirstRow, NEW k \in 1..n PROVE y(k) = RowOf(end, k)
    BY <1>2, <2>1
  <2> HIDE DEF y
  <2> QED
    BY <1>6, <2>1 DEF Numbered
<1>8. \A k \in 1..(n - 1) : k \in 1..n /\ k + 1 \in 1..n /\ k \in 1..(end[NRows] - 1)
  BY <1>3 DEF n
<1>9. CASE loader # "SPMSym"
  <2>1. ASSUME NEW k \in 1..(n - 1) PROVE y(k) <= y(k + 1)
    <3>1. RowOf(end, k) <= RowOf(end, k + 1)
      BY <1>2, <1>8, RowOfNext
    <3> QED
      BY <3>1
  <2>2. \A k \in 1..n : y(k) # 0 /\ points[k].diag = FALSE
    BY <1>5, <1>6, <1>9
  <2> HIDE DEF y
  <2>3. \A k \in 1..(n - 1) : points[k].y <= points[k + 1].y
    BY <1>6, <1>8, <2>1
  <2>4. loader \in {"SPM", "SPMSym", "CSR"}
    BY LoadersAssumption DEF Init
  <2> QED
    BY <1>6, <1>7, <1>9, <2>2, <2>3, <2>4 DEF InFileOrder
<1>10. CASE loader = "SPMSym"
  <2>1. \A k : y(k) = RowOf(end, k)
    BY <1>10
  <2>2. \A r \in Rows : r + 1 \in Rows => end[r] < end[r + 1]
    BY <1>2, <1>10
  <2>3. n \in Nat \ {0} /\ 1 \in 1..n /\ n \in 1..n /\ end[1] > 0 /\ n = end[NRows]
    <3>1. 1 <= NRows /\ end[1] <= end[NRows]
      BY <1>2, <1>3 DEF Rising
    <3> QED
      BY <1>2, <1>3, <1>10, <3>1 DEF n
  <2>4. RowOf(end, 1) = 1
    <3>1. RowOf(end, 1) \in Rows /\ RowOf(end, 1) <= 1
      BY <1>2, <1>3, <2>3, RowOfIn
    <3> QED
      BY <1>3, <3>1
  <2>5. end[RowOf(end, n)] = n
    <3>1. RowOf(end, n) \in Rows /\ n <= end[RowOf(end, n)]
      BY <1>2, <2>3, RowOfIn
    <3>2. end[RowOf(end, n)] <= n
      BY <1>2, <1>3, <2>3, <3>1 DEF Rising
    <3> QED
      BY <1>3, <3>1, <3>2
  <2>6. ASSUME NEW k \in 1..(n - 1), k = end[RowOf(end, k)]
        PROVE  RowOf(end, k + 1) = RowOf(end, k) + 1
    <3>1. /\ RowOf(end, k) \in Rows /\ RowOf(end, k + 1) \in Rows
          /\ RowOf(end, k) < RowOf(end, k + 1)
      BY <1>2, <1>5, <1>8, <2>6, RowOfNext
    <3> DEFINE r == RowOf(end, k)
    <3>2. r + 1 \in Rows
      BY <1>3, <3>1
    <3>3. k + 1 <= end[r + 1]
      BY <1>3, <2>2, <2>6, <3>1, <3>2
    <3>4. RowOf(end, k + 1) <= r + 1
      BY <1>2, <1>8, <2>3, <3>2, <3>3, RowOfIn
    <3> QED
      BY <1>3, <3>1, <3>4
  <2>7. ASSUME NEW k \in 1..(n - 1), k # end[RowOf(end, k)]
        PROVE  RowOf(end, k + 1) = RowOf(end, k)
    BY <1>2, <1>8, <2>7, RowOfNext
  <2> HIDE DEF y
  <2>8. \A k \in 1..n : points[k].y # 0 /\ points[k].y = RowOf(end, k)
                         /\ points[k].diag = (k = end[RowOf(end, k)])
    BY <1>5, <1>6, <1>10, <2>1
  <2>9. \A k \in 1..(n - 1) :
          points[k + 1].y = points[k].y + (IF points[k].diag THEN 1 ELSE 0)
    <3> SUFFICES ASSUME NEW k \in 1..(n - 1)
                 PROVE  points[k + 1].y = points[k].y + (IF points[k].diag THEN 1 ELSE 0)
      OBVIOUS
    <3>1. /\ points[k].y = RowOf(end, k) /\ points[k + 1].y = RowOf(end, k + 1)
          /\ points[k].diag = (k = end[RowOf(end, k)]) /\ RowOf(end, k) \in Nat
      BY <1>3, <1>5, <1>8, <2>8
    <3>2. CASE k = end[RowOf(end, k)]
      BY <2>6, <3>1, <3>2
    <3>3. CASE k # end[RowOf(end, k)]
      <4>1. ~points[k].diag
        BY Zenon, <3>1, <3>3
      <4>2. RowOf(end, k + 1) = RowOf(end, k)
        BY <2>7, <3>3
      <4> QED
        BY <3>1, <4>1, <4>2
    <3> QED
      BY <3>2, <3>3
  <2>10. points # <<>> /\ points[1].y = 1 /\ points[Len(points)].diag
    <3>1. points[1].y = 1 /\ points[n].diag
      BY <2>3, <2>4, <2>5, <2>8
    <3> QED
      BY <1>6, <2>3, <3>1
  <2> QED
    BY <1>6, <1>7, <1>10, <2>8, <2>9, <2>10 DEF InFileOrder
<1> QED
  BY <1>9, <1>10

-----------------------------------------------------------------------------
\* New row pointers delimit the open row and then empty ones.
LEMMA NewRowAppends ==
  ASSUME NEW b \in Builders, NEW d \in Nat
  PROVE  /\ NewRow(b, d) \in Builders
         /\ NewRow(b, d).elems = b.elems /\ NewRow(b, d).diag = b.diag
         /\ Len(NewRow(b, d).rowptr) = Len(b.rowptr) + d
         /\ \A i \in 1..Len(b.rowptr) : NewRow(b, d).rowptr[i] = b.rowptr[i]
         /\ \A i \in (Len(b.rowptr) + 1)..(Len(b.rowptr) + d) :
              NewRow(b, d).rowptr[i] = Len(b.elems)
<1> DEFINE new == [k \in 1..d |-> Len(b.elems)]
           all == b.rowptr \o new
<1>1. /\ b.rowptr \in Seq(Nat) /\ b.rowptr # <<>> /\ b.elems \in Seq(PointSet)
      /\ b.diag \in Seq(PointSet) /\ Len(b.elems) \in Nat
  BY DEF Builders
<1>2. new \in Seq(Nat) /\ Len(new) = d /\ \A k \in 1..d : new[k] = Len(b.elems)
  BY <1>1
<1>3. NewRow(b, d) = [b EXCEPT !.rowptr = all]
  BY DEF NewRow
<1> HIDE DEF new
<1>4. all \in Seq(Nat) /\ Len(all) = Len(b.rowptr) + d
  <2>1. Len(all) = Len(b.rowptr) + Len(new) /\ all \in Seq(Nat)
    BY Zenon, <1>1, <1>2, ConcatProperties
  <2> QED
    BY <1>2, <2>1
<1>5. \A i \in 1..Len(b.rowptr) : all[i] = b.rowptr[i]
  BY <1>1, <1>2
<1>6. \A i \in (Len(b.rowptr) + 1)..(Len(b.rowptr) + d) : all[i] = Len(b.elems)
  BY <1>1, <1>2
<1>7. all # <<>>
  BY <1>1, <1>2, <1>4
<1> HIDE DEF all
<1>8. NewRow(b, d) = [rowptr |-> all, elems |-> b.elems, diag |-> b.diag]
  BY <1>3 DEF Builders
<1> QED
  BY <1>1, <1>4, <1>5, <1>6, <1>7, <1>8 DEF Builders

\* They leave the points in their rows: the open row's pointer is at its end.
LEMMA NewRowPlaces ==
  ASSUME NEW b \in Builders, NEW d \in Nat, NEW first \in Nat, NEW last \in Nat,
         Len(b.rowptr) = last - first, Placed(b, first, last)
  PROVE  Placed(NewRow(b, d), first, last + d)
<1> DEFINE c == NewRow(b, d)
<1>1. /\ c \in Builders /\ c.elems = b.elems /\ c.diag = b.diag
      /\ Len(c.rowptr) = Len(b.rowptr) + d
      /\ \A i \in 1..Len(b.rowptr) : c.rowptr[i] = b.rowptr[i]
      /\ \A i \in (Len(b.rowptr) + 1)..(Len(b.rowptr) + d) : c.rowptr[i] = Len(b.elems)
  BY NewRowAppends
<1>2. Len(b.rowptr) \in Nat \ {0} /\ Len(b.elems) \in Nat /\ \A i \in 1..Len(b.rowptr) : b.rowptr[i] \in Nat
  BY DEF Builders
<1> HIDE DEF c
<1>3. \A i \in 1..Len(c.rowptr) : c.rowptr[i] <= Len(c.elems)
  BY <1>1, <1>2 DEF Placed
<1>4. ASSUME NEW i \in 1..(Len(c.rowptr) - 1), NEW k \in (c.rowptr[i] + 1)..c.rowptr[i + 1]
      PROVE  c.elems[k].y = first + i
  <2>1. CASE i < Len(b.rowptr)
    <3>1. i \in 1..(Len(b.rowptr) - 1) /\ i \in 1..Len(b.rowptr) /\ i + 1 \in 1..Len(b.rowptr)
      BY <1>2, <2>1
    <3>2. k \in (b.rowptr[i] + 1)..b.rowptr[i + 1]
      BY <1>1, <3>1
    <3> QED
      BY <1>1, <3>1, <3>2 DEF Placed
  <2>2. CASE i = Len(b.rowptr)
    <3>1. c.rowptr[i] = b.rowptr[i] /\ c.rowptr[i + 1] = Len(b.elems)
      BY <1>1, <1>2, <2>2
    <3>2. k \in (b.rowptr[Len(b.rowptr)] + 1)..Len(b.elems)
      BY <2>2, <3>1
    <3>3. c.elems[k].y = last
      BY <1>1, <3>2 DEF Placed
    <3> QED
      BY <2>2, <3>3
  <2>3. CASE i > Len(b.rowptr)
    BY <1>1, <1>2, <1>4, <2>3
  <2> QED
    BY <1>2, <2>1, <2>2, <2>3
<1>5. \A k \in (c.rowptr[Len(c.rowptr)] + 1)..Len(c.elems) : c.elems[k].y = last + d
  <2>1. CASE d = 0
    <3>1. Len(c.rowptr) = Len(b.rowptr) /\ Len(b.rowptr) \in 1..Len(b.rowptr) /\ last + d = last
      BY <1>1, <1>2, <2>1
    <3>2. c.rowptr[Len(c.rowptr)] = b.rowptr[Len(b.rowptr)]
      BY <1>1, <3>1
    <3> QED
      BY <1>1, <3>1, <3>2 DEF Placed
  <2>2. CASE d # 0
    <3>1. Len(c.rowptr) \in (Len(b.rowptr) + 1)..(Len(b.rowptr) + d)
      BY <1>1, <1>2, <2>2
    <3>2. c.rowptr[Len(c.rowptr)] = Len(b.elems) /\ Len(c.elems) = Len(b.elems)
      BY <1>1, <3>1
    <3> QED
      BY <1>2, <3>2
  <2> QED
    BY <2>1, <2>2
<1>6. \A k \in 1..Len(c.diag) : c.diag[k].y = first + k
  BY <1>1 DEF Placed
<1>7. Placed(c, first, last + d)
  BY <1>3, <1>4, <1>5, <1>6 DEF Placed
<1> QED
  BY <1>7 DEF c

\* A builder is its three sequences.
LEMMA BuilderUpdate ==
  ASSUME NEW b \in Builders, NEW e
  PROVE  /\ [b EXCEPT !.elems = e] = [rowptr |-> b.rowptr, elems |-> e, diag |-> b.diag]
         /\ [b EXCEPT !.diag = e] = [rowptr |-> b.rowptr, elems |-> b.elems, diag |-> e]
<1>1. b = [rowptr |-> b.rowptr, elems |-> b.elems, diag |-> b.diag]
  BY DEF Builders
<1>2. [b EXCEPT !.elems = e] = [rowptr |-> b.rowptr, elems |-> e, diag |-> b.diag]
  BY <1>1
<1>3. [b EXCEPT !.diag = e] = [rowptr |-> b.rowptr, elems |-> b.elems, diag |-> e]
  BY <1>1
<1> QED
  BY <1>2, <1>3

\* A point of the open row goes to its end.
LEMMA AppendPlaces ==
  ASSUME NEW b \in Builders, NEW p \in PointSet, NEW first \in Nat, NEW last \in Nat, NEW c,
         c = [rowptr |-> b.rowptr, elems |-> Append(b.elems, p), diag |-> b.diag],
         Placed(b, first, last), p.y = last
  PROVE  /\ c \in Builders /\ c.rowptr = b.rowptr /\ c.diag = b.diag
         /\ Placed(c, first, last)
<1> DEFINE elems == Append(b.elems, p)
<1>1. /\ b.rowptr \in Seq(Nat) /\ b.rowptr # <<>> /\ b.elems \in Seq(PointSet)
      /\ b.diag \in Seq(PointSet) /\ Len(b.elems) \in Nat /\ Len(b.rowptr) \in Nat \ {0}
      /\ \A i \in 1..Len(b.rowptr) : b.rowptr[i] \in Nat
  BY SMTT(40) DEF Builders
<1>2. /\ elems \in Seq(PointSet) /\ Len(elems) = Len(b.elems) + 1
      /\ \A k \in 1..Len(b.elems) : elems[k] = b.elems[k]
      /\ elems[Len(b.elems) + 1] = p
  BY <1>1
<1>3. c.rowptr = b.rowptr /\ c.elems = elems /\ c.diag = b.diag
  OBVIOUS
<1> HIDE DEF elems
<1>4. c \in Builders
  <2>1. c = [rowptr |-> b.rowptr, elems |-> elems, diag |-> b.diag]
    BY DEF elems
  <2> QED
    BY <1>1, <1>2, <2>1 DEF Builders
<1>5. \A i \in 1..Len(c.rowptr) : c.rowptr[i] <= Len(c.elems)
  BY SMTT(40), <1>1, <1>2, <1>3 DEF Placed
<1>6. ASSUME NEW i \in 1..(Len(b.rowptr) - 1), NEW k \in (b.rowptr[i] + 1)..b.rowptr[i + 1]
      PROVE  elems[k].y = first + i
  <2>1. b.elems[k].y = first + i
    BY DEF Placed
  <2>2. i \in 1..Len(b.rowptr) /\ i + 1 \in 1..Len(b.rowptr)
    BY SMTT(40), <1>1
  <2>3. b.rowptr[i + 1] <= Len(b.elems) /\ b.rowptr[i] \in Nat /\ b.rowptr[i + 1] \in Nat
    BY <1>1, <2>2 DEF Placed
  <2>4. k \in 1..Len(b.elems)
    <3>1. Len(b.elems) \in Nat
      BY <1>1
    <3> QED
      BY SMTT(40), <2>3, <3>1
  <2> QED
    BY <1>2, <2>1, <2>4
<1>7. ASSUME NEW k \in (b.rowptr[Len(b.rowptr)] + 1)..Len(elems)
      PROVE  elems[k].y = last
  <2>1. b.rowptr[Len(b.rowptr)] \in Nat
    BY <1>1
  <2>2. CASE k = Len(b.elems) + 1
    BY <1>2, <2>2
  <2>3. CASE k # Len(b.elems) + 1
    <3>1. k \in (b.rowptr[Len(b.rowptr)] + 1)..Len(b.elems) /\ k \in 1..Len(b.elems)
      <4>1. \A m, n \in Nat : \A j \in (m + 1)..(n + 1) :
              j # n + 1 => j \in (m + 1)..n /\ j \in 1..n
        OBVIOUS
      <4>2. k \in (b.rowptr[Len(b.rowptr)] + 1)..(Len(b.elems) + 1) /\ Len(b.elems) \in Nat
        BY Zenon, <1>1, <1>2
      <4> QED
        BY Zenon, <2>1, <2>3, <4>1, <4>2
    <3> QED
      BY <1>2, <3>1 DEF Placed
  <2> QED
    BY <2>2, <2>3
<1>8. Placed(c, first, last)
  BY <1>3, <1>5, <1>6, <1>7 DEF Placed
<1> QED
  BY <1>3, <1>4, <1>8

\* A diagonal value goes to the next row of the part.
LEMMA DiagonalPlaces ==
  ASSUME NEW b \in Builders, NEW p \in PointSet, NEW first \in Nat, NEW last \in Nat, NEW c,
         c = [rowptr |-> b.rowptr, elems |-> b.elems, diag |-> Append(b.diag, p)],
         Placed(b, first, last), p.y = first + Len(b.diag) + 1
  PROVE  /\ c \in Builders /\ c.rowptr = b.rowptr /\ c.elems = b.elems
         /\ Len(c.diag) = Len(b.diag) + 1
         /\ Placed(c, first, last)
<1> DEFINE diag == Append(b.diag, p)
<1>1. /\ b.rowptr \in Seq(Nat) /\ b.rowptr # <<>> /\ b.elems \in Seq(PointSet)
      /\ b.diag \in Seq(PointSet) /\ Len(b.diag) \in Nat
  BY DEF Builders
<1>2. /\ diag \in Seq(PointSet) /\ Len(diag) = Len(b.diag) + 1
      /\ \A k \in 1..Len(b.diag) : diag[k] = b.diag[k]
      /\ diag[Len(b.diag) + 1] = p
  BY <1>1
<1>3. c.rowptr = b.rowptr /\ c.elems = b.elems /\ c.diag = diag
  OBVIOUS
<1> HIDE DEF diag
<1>4. c \in Builders
  <2>1. c = [rowptr |-> b.rowptr, elems |-> b.elems, diag |-> diag]
    BY DEF diag
  <2> QED
    BY <1>1, <1>2, <2>1 DEF Builders
<1>5. ASSUME NEW k \in 1..Len(diag)
      PROVE  diag[k].y = first + k
  <2>1. CASE k = Len(b.diag) + 1
    BY <1>1, <1>2, <2>1
  <2>2. CASE k # Len(b.diag) + 1
    <3>1. k \in 1..Len(b.diag)
      BY <1>1, <1>2, <2>2
    <3> QED
      BY <1>2, <3>1 DEF Placed
  <2> QED
    BY <2>1, <2>2
<1>6. Placed(c, first, last)
  BY <1>3, <1>5 DEF Placed
<1> QED
  BY <1>2, <1>3, <1>4, <1>6

\* Finalize closes the open row and thereby ends the part.
LEMMA FinalizePlaces ==
  ASSUME NEW b \in Builders, NEW first \in Nat, NEW last \in Nat,
         Len(b.rowptr) = last - first, Placed(b, first, last)
  PROVE  /\ Finalize(b) \in Builders /\ Closed(Finalize(b))
         /\ Finalize(b).diag = b.diag /\ Finalize(b).elems = b.elems
         /\ \E end \in Nat : Placed(Finalize(b), first, end)
         /\ Len(Finalize(b).rowptr) = last - first + (IF Closed(b) THEN 0 ELSE 1)
<1>1. CASE Closed(b)
  <2>1. Finalize(b) = b
    BY <1>1 DEF Finalize, Closed, Last
  <2> QED
    BY <1>1, <2>1
<1>2. CASE ~Closed(b)
  <2>1. Finalize(b) = NewRow(b, 1)
    BY <1>2 DEF Finalize, Closed, Last
  <2>2. /\ NewRow(b, 1) \in Builders
        /\ NewRow(b, 1).elems = b.elems /\ NewRow(b, 1).diag = b.diag
        /\ Len(NewRow(b, 1).rowptr) = Len(b.rowptr) + 1
        /\ \A i \in (Len(b.rowptr) + 1)..(Len(b.rowptr) + 1) :
             NewRow(b, 1).rowptr[i] = Len(b.elems)
    <3>1. 1 \in Nat
      OBVIOUS
    <3> QED
      BY Zenon, <3>1, NewRowAppends
  <2>3. Closed(NewRow(b, 1))
    <3>1. Len(b.rowptr) \in Nat
      BY DEF Builders
    <3>2. NewRow(b, 1).rowptr[Len(b.rowptr) + 1] = Len(b.elems)
      BY <2>2, <3>1
    <3> QED
      BY <2>2, <3>2 DEF Closed
  <2>4. Placed(NewRow(b, 1), first, last + 1) /\ last + 1 \in Nat
    BY NewRowPlaces
  <2> QED
    BY <1>2, <2>1, <2>2, <2>3, <2>4
<1> QED
  BY <1>1, <1>2

-----------------------------------------------------------------------------
\* A new builder has one open row and no points.
LEMMA NewBuilderPlaces ==
  ASSUME NEW first \in Nat
  PROVE  /\ NewBuilder \in Builders /\ Closed(NewBuilder)
         /\ Len(NewBuilder.rowptr) = 1 /\ Len(NewBuilder.diag) = 0
         /\ Placed(NewBuilder, first, first + 1)
<1>1. <<0>> \in Seq(Nat) \ {<<>>} /\ Len(<<0>>) = 1 /\ <<0>>[1] = 0
  OBVIOUS
<1>2. <<>> \in Seq(PointSet) /\ Len(<<>>) = 0
  OBVIOUS
<1>3. NewBuilder = [rowptr |-> <<0>>, elems |-> <<>>, diag |-> <<>>]
  BY DEF NewBuilder
<1>4. NewBuilder \in Builders
  BY <1>1, <1>2, <1>3 DEF Builders
<1> QED
  BY <1>1, <1>2, <1>3, <1>4 DEF Closed, Placed

\* The point at the iterator.
LEMMA PointTyped ==
  ASSUME InFileOrder, TypeInv, iter <= Len(points)
  PROVE  /\ iter \in 1..Len(points) /\ points[iter] \in PointSet
         /\ points[iter].y \in Nat /\ points[iter].y # 0 /\ points[iter].diag \in BOOLEAN
<1>1. Len(points) \in Nat /\ iter \in 1..Len(points)
  BY DEF InFileOrder, TypeInv
<1>2. points[iter] \in PointSet
  BY <1>1 DEF InFileOrder
<1> QED
  BY <1>1, <1>2 DEF InFileOrder, PointSet

\* The loaders begin at the matrix's first row.
LEMMA InitInv ==
  ASSUME Init, InFileOrder
  PROVE  Inv
<1>1. Len(points) \in Nat
  BY DEF InFileOrder
<1>2. TypeInv
  <2>1. NewBuilder \in Builders
    BY NewBuilderPlaces
  <2>2. parts \in Seq(PartSet)
    BY DEF Init
  <2> QED
    BY <1>1, <2>1, <2>2 DEF Init, TypeInv
<1>3. BuilderInv
  BY DEF Init, BuilderInv
<1>4. SourceInv
  <2>1. ASSUME iter <= Len(points)
        PROVE  IF loader = "SPMSym" THEN points[iter].y = 1 ELSE points[iter].y >= 1
    <3>1. iter = 1 /\ points[iter].y \in Nat /\ points[iter].y # 0
      BY <1>2, <2>1, PointTyped DEF Init
    <3> QED
      BY <3>1 DEF InFileOrder
  <2> QED
    BY <2>1 DEF Init, SourceInv
<1>5. PartsInv
  BY DEF Init, PartsInv
<1> QED
  BY <1>2, <1>3, <1>4, <1>5 DEF Inv

\* A part begins with the row the iterator is at, or an empty one before it.
LEMMA BeginPartInv ==
  ASSUME InFileOrder, Inv, BeginPart
  PROVE  Inv'
<1> USE DEF Inv, BeginPart
<1>1. rowStart \in Nat /\ rowStart' = rowStart
  BY DEF TypeInv
<1>2. /\ bld' \in Builders /\ Closed(bld') /\ Len(bld'.rowptr) = 1 /\ Len(bld'.diag) = 0
      /\ Placed(bld', rowStart, rowStart + 1)
  BY <1>1, NewBuilderPlaces
<1>3. TypeInv'
  BY <1>1, <1>2 DEF TypeInv
<1>4. BuilderInv'
  BY <1>1, <1>2 DEF BuilderInv
<1>5. SourceInv'
  <2>1. iter <= Len(points) => points[iter].y \in Nat
    BY PointTyped
  <2> QED
    BY <1>1, <1>2, <2>1 DEF SourceInv
<1>6. PartsInv'
  BY <1>1 DEF PartsInv
<1> QED
  BY <1>3, <1>4, <1>5, <1>6

\* A point goes to the row it belongs to.
LEMMA TakePointInv ==
  ASSUME InFileOrder, Inv, TakePoint
  PROVE  Inv'
<1> USE DEF Inv, TakePoint
<1> DEFINE p == points[iter]
<1>1. /\ iter \in 1..Len(points) /\ p \in PointSet /\ p.y \in Nat /\ p.y \in Nat
      /\ p.diag \in BOOLEAN
  BY PointTyped
<1>2. /\ rowStart \in Nat /\ rowPrev \in Nat /\ bld \in Builders /\ Len(points) \in Nat
      /\ Len(bld.rowptr) \in Nat /\ Len(bld.diag) \in Nat
  BY SMTT(40) DEF TypeInv, Builders, InFileOrder
<1>3. Len(bld.rowptr) = rowPrev - rowStart /\ Placed(bld, rowStart, rowPrev)
  BY DEF BuilderInv
<1>4. p.y >= rowPrev /\ (loader = "SPMSym" => p.y = rowStart + Len(bld.diag) + 1)
  BY <1>1 DEF SourceInv
<1>5. PartsInv'
  BY DEF PartsInv
<1>6. iter' \in 1..(Len(points) + 1) /\ iter' = iter + 1
  BY <1>1, <1>2
<1>7. CASE p.diag
  <2>1. loader = "SPMSym"
    BY <1>1, <1>7 DEF InFileOrder
  <2>2. bld' = [bld EXCEPT !.diag = Append(@, p)] /\ rowPrev' = rowPrev
    BY <1>7 DEF AddPoint
  <2>3. /\ bld' \in Builders /\ bld'.rowptr = bld.rowptr /\ bld'.elems = bld.elems
        /\ Len(bld'.diag) = Len(bld.diag) + 1
        /\ Placed(bld', rowStart, rowPrev)
    <3>1. bld' = [rowptr |-> bld.rowptr, elems |-> bld.elems, diag |-> Append(bld.diag, p)]
      BY Zenon, <1>2, <2>2, BuilderUpdate
    <3>2. p.y = rowStart + Len(bld.diag) + 1
      BY <1>4, <2>1
    <3> HIDE DEF Inv, TakePoint, p
    <3> QED
      BY SMTT(40), <1>1, <1>2, <1>3, <3>1, <3>2, DiagonalPlaces
  <2>4. TypeInv' /\ BuilderInv'
    BY <1>2, <1>3, <1>6, <2>2, <2>3 DEF TypeInv, BuilderInv
  <2>5. SourceInv'
    <3>1. iter' <= Len(points) => points[iter'].y = p.y + 1
      BY <1>1, <1>2, <1>6, <1>7, <2>1 DEF InFileOrder
    <3>2. iter' <= Len(points) => points[iter'].y = rowStart + Len(bld'.diag) + 1
      BY <1>2, <1>4, <2>1, <2>3, <3>1
    <3>3. rowPrev <= rowStart + Len(bld'.diag)
      BY <1>1, <1>2, <1>4, <2>1, <2>3
    <3>4. Len(bld'.diag) \in Nat
      BY <1>2, <2>3
    <3> QED
      BY SMTT(40), <1>1, <1>2, <1>4, <2>1, <2>2, <3>1, <3>2, <3>3, <3>4 DEF SourceInv
  <2> QED
    BY <1>5, <2>4, <2>5
<1>8. CASE ~p.diag
  <2> DEFINE b == NewRow(bld, p.y - rowPrev)
  <2>1. bld' = [b EXCEPT !.elems = Append(@, p)] /\ rowPrev' = p.y
    BY <1>8 DEF AddPoint
  <2>2. p.y - rowPrev \in Nat /\ rowPrev + (p.y - rowPrev) = p.y
    BY <1>1, <1>2, <1>4
  <2>3. b \in Builders /\ b.diag = bld.diag /\ Len(b.rowptr) = Len(bld.rowptr) + (p.y - rowPrev)
    BY <1>2, <2>2, NewRowAppends
  <2>4. Placed(b, rowStart, p.y)
    <3>1. Placed(b, rowStart, rowPrev + (p.y - rowPrev))
      BY <1>2, <1>3, <2>2, NewRowPlaces
    <3> QED
      BY <2>2, <3>1
  <2> HIDE DEF b
  <2>5. /\ bld' \in Builders /\ bld'.rowptr = b.rowptr /\ bld'.diag = b.diag
        /\ Placed(bld', rowStart, p.y)
    <3>1. bld' = [rowptr |-> b.rowptr, elems |-> Append(b.elems, p), diag |-> b.diag]
      BY Zenon, <2>1, <2>3, BuilderUpdate
    <3> HIDE DEF Inv, TakePoint, p
    <3> QED
      BY <1>1, <1>2, <2>3, <2>4, <3>1, AppendPlaces
  <2>6. TypeInv'
    BY <1>1, <1>2, <1>6, <2>1, <2>5 DEF TypeInv
  <2>7. BuilderInv'
    <3>1. Len(bld'.rowptr) = p.y - rowStart
      BY <1>1, <1>2, <1>3, <2>3, <2>5
    <3> QED
      BY <2>1, <2>5, <3>1 DEF BuilderInv
  <2>8. SourceInv'
    <3>1. iter' <= Len(points) =>
            /\ points[iter'].y >= p.y
            /\ loader = "SPMSym" => points[iter'].y = p.y
      BY <1>1, <1>2, <1>6, <1>8 DEF InFileOrder
    <3>2. Len(bld'.diag) = Len(bld.diag)
      BY <2>3, <2>5
    <3>3. points[iter' - 1] = p
      BY <1>1, <1>6
    <3> QED
      BY <1>1, <1>2, <1>4, <1>8, <2>1, <3>1, <3>2, <3>3 DEF SourceInv
  <2> QED
    BY <1>5, <2>6, <2>7, <2>8
<1> QED
  BY <1>1, <1>7, <1>8

\* The place and the number of rows of a part.
LEMMA PartTyped ==
  ASSUME parts \in Seq(PartSet), NEW i \in 1..Len(parts)
  PROVE  NrRows(parts[i]) \in Int /\ parts[i].rowStart \in Nat
<1>1. parts[i] \in PartSet
  OBVIOUS
<1>2. parts[i].rowStart \in Nat /\ parts[i].rowptr \in Seq(Nat)
  BY <1>1 DEF PartSet
<1> QED
  BY <1>2 DEF NrRows

\* A part ends with all its rows, and the next one begins behind them.
LEMMA EndPartInv ==
  ASSUME InFileOrder, Inv, EndPart
  PROVE  Inv'
<1> USE DEF Inv
<1> DEFINE b == Finalize(bld)
           q == [rowStart |-> rowStart, rowptr |-> b.rowptr, elems |-> b.elems, diag |-> b.diag]
<1>1. /\ rowStart \in Nat /\ rowPrev \in Nat /\ bld \in Builders /\ Len(points) \in Nat
      /\ Len(bld.rowptr) \in Nat /\ Len(bld.diag) \in Nat /\ parts \in Seq(PartSet)
      /\ Len(parts) \in Nat /\ iter \in 1..(Len(points) + 1)
  BY DEF TypeInv, Builders, InFileOrder
<1>2. Len(bld.rowptr) = rowPrev - rowStart /\ Placed(bld, rowStart, rowPrev)
  BY DEF EndPart, BuilderInv
<1>3. /\ b \in Builders /\ Closed(b) /\ b.diag = bld.diag
      /\ \E end \in Nat : Placed(b, rowStart, end)
      /\ Len(b.rowptr) = rowPrev - rowStart + (IF Closed(bld) THEN 0 ELSE 1)
  <2> HIDE DEF Inv
  <2>1. /\ Finalize(bld) \in Builders /\ Closed(Finalize(bld))
        /\ Finalize(bld).diag = bld.diag
        /\ \E end \in Nat : Placed(Finalize(bld), rowStart, end)
        /\ Len(Finalize(bld).rowptr) = rowPrev - rowStart + (IF Closed(bld) THEN 0 ELSE 1)
    BY <1>1, <1>2, FinalizePlaces
  <2> QED
    BY Zenon, <2>1
<1>4. Len(b.rowptr) \in Nat \ {0} /\ Len(b.diag) = Len(bld.diag)
  BY <1>3 DEF Builders
<1>5. /\ parts' = Append(parts, q) /\ rowStart' = rowStart + RowsTaken(b) /\ bld' = b
      /\ UNCHANGED <<loader, points, iter, rowPrev>> /\ pc' = "split" /\ pc = "elems"
  BY Zenon DEF EndPart
<1> HIDE DEF b
<1>6. /\ q \in PartSet /\ q.rowStart = rowStart /\ q.rowptr = b.rowptr
      /\ q.elems = b.elems /\ q.diag = b.diag
  BY <1>1, <1>3 DEF Builders, PartSet
<1> HIDE DEF q
<1>7. PartInv(q) /\ NrRows(q) = Len(b.rowptr) - 1
  <2>1. NrRows(q) = Len(b.rowptr) - 1
    BY <1>6 DEF NrRows
  <2>2. PICK end \in Nat : Placed(b, rowStart, end)
    BY <1>3
  <2>3. \A i \in 1..NrRows(q) : \A k \in (q.rowptr[i] + 1)..q.rowptr[i + 1] :
          q.elems[k].y = q.rowStart + i
    BY <1>6, <2>1, <2>2 DEF Placed
  <2>4. \A k \in 1..Len(q.diag) : q.diag[k].y = q.rowStart + k
    BY <1>6, <2>2 DEF Placed
  <2>5. Closed(q)
    BY <1>3, <1>6 DEF Closed
  <2>6. \A i \in 1..Len(q.rowptr) : q.rowptr[i] <= Len(q.elems)
    BY <1>6, <2>2 DEF Placed
  <2> QED
    BY <2>1, <2>3, <2>4, <2>5, <2>6 DEF PartInv
<1>8. /\ RowsTaken(b) \in Nat /\ NrRows(q) <= RowsTaken(b)
      /\ loader = "SPMSym" => RowsTaken(b) = Len(bld.diag)
      /\ loader # "SPMSym" => RowsTaken(b) = Len(b.rowptr) - 1
  <2>1. CASE loader # "SPMSym"
    BY <1>4, <1>7, <2>1 DEF RowsTaken
  <2>2. CASE loader = "SPMSym"
    <3>1. RowsTaken(b) = Len(bld.diag)
      BY <1>4, <2>2 DEF RowsTaken
    <3>2. CASE Closed(bld)
      <4>1. rowPrev <= rowStart + Len(bld.diag) + 1
        BY <1>5, <2>2 DEF SourceInv
      <4> QED
        BY <1>1, <1>3, <1>7, <2>2, <3>1, <3>2, <4>1
    <3>3. CASE ~Closed(bld)
      <4>1. rowPrev <= rowStart + Len(bld.diag)
        <5>1. CASE iter <= Len(points)
          <6>1. /\ points[iter].y = rowStart + Len(bld.diag) + 1
            BY <1>5, <2>2, <5>1, PointTyped DEF SourceInv
          <6>2. rowPrev = points[iter].y - 1
            BY <2>2, <5>1 DEF EndPart, Breaks, OpensRow
          <6> QED
            BY <1>1, <6>1, <6>2
        <5>2. CASE ~(iter <= Len(points))
          <6>1. points # <<>> /\ points[Len(points)].diag /\ points \in Seq(PointSet)
            BY <2>2 DEF InFileOrder
          <6>2. iter - 1 = Len(points) /\ iter > 1
            BY <1>1, <5>2, <6>1
          <6> QED
            BY <1>5, <2>2, <3>3, <6>1, <6>2 DEF SourceInv
        <5> QED
          BY <5>1, <5>2
      <4> QED
        BY <1>1, <1>3, <1>7, <2>2, <3>1, <3>3, <4>1
    <3> QED
      BY <3>2, <3>3
  <2> QED
    BY <2>1, <2>2
<1>9. rowStart' \in Nat /\ rowStart <= rowStart' /\ rowStart + NrRows(q) <= rowStart'
  <2>1. \A m, n \in Nat : \A k \in Int : k <= n => m + n \in Nat /\ m <= m + n /\ m + k <= m + n
    OBVIOUS
  <2>2. NrRows(q) \in Int
    BY <1>4, <1>7
  <2> QED
    BY Zenon, <1>1, <1>5, <1>8, <2>1, <2>2
<1>10. /\ parts' \in Seq(PartSet) /\ Len(parts') = Len(parts) + 1
       /\ \A i \in 1..Len(parts) : parts'[i] = parts[i]
       /\ parts'[Len(parts) + 1] = q
  <2>1. \A s \in Seq(PartSet), e \in PartSet :
          /\ Append(s, e) \in Seq(PartSet) /\ Len(Append(s, e)) = Len(s) + 1
          /\ \A i \in 1..Len(s) : Append(s, e)[i] = s[i]
          /\ Append(s, e)[Len(s) + 1] = e
    BY AppendProperties
  <2> QED
    BY Zenon, <1>1, <1>5, <1>6, <2>1
<1>11. TypeInv'
  BY <1>1, <1>3, <1>5, <1>9, <1>10 DEF TypeInv
<1>12. BuilderInv'
  BY <1>5 DEF BuilderInv
<1>13. SourceInv'
  <2>1. ASSUME iter <= Len(points)
        PROVE  IF loader = "SPMSym" THEN points[iter].y = rowStart' + 1
                                    ELSE points[iter].y >= rowStart' + 1
    <3>1. points[iter].y \in Nat
      BY <2>1, PointTyped
    <3>2. points[iter].y # rowPrev
      BY <2>1 DEF EndPart, Breaks, OpensRow
    <3>3. CASE loader = "SPMSym"
      <4>1. points[iter].y = rowStart + Len(bld.diag) + 1
        BY <1>5, <2>1, <3>3 DEF SourceInv
      <4> QED
        BY <1>1, <1>5, <1>8, <3>3, <4>1
    <3>4. CASE loader # "SPMSym"
      <4>1. points[iter].y >= rowPrev
        BY <1>5, <2>1 DEF SourceInv
      <4>2. rowStart' = rowStart + (Len(b.rowptr) - 1)
        BY <1>5, <1>8, <3>4
      <4>3. Len(b.rowptr) <= rowPrev - rowStart + 1
        BY <1>1, <1>3
      <4>4. rowStart' + 1 <= rowPrev + 1
        BY <1>1, <1>4, <4>2, <4>3
      <4>5. points[iter].y >= rowPrev + 1
        BY <1>1, <3>1, <3>2, <4>1
      <4>6. points[iter].y >= rowStart' + 1
        <5>1. \A k, m, n \in Nat : m + 1 <= n + 1 /\ k >= n + 1 => k >= m + 1
          OBVIOUS
        <5>2. points[iter].y \in Nat /\ rowStart' \in Nat /\ rowPrev \in Nat
          BY <1>1, <1>9, <3>1
        <5> QED
          BY Zenon, <4>4, <4>5, <5>1, <5>2
      <4> QED
        BY <3>4, <4>6
    <3> QED
      BY <3>3, <3>4
  <2> QED
    BY <1>5, <2>1 DEF SourceInv
<1>14. PartsInv'
  <2>1. \A i \in 1..Len(parts) : NrRows(parts[i]) \in Int /\ parts[i].rowStart \in Nat
    BY <1>1, PartTyped
  <2>2. NrRows(q) \in Int
    BY <1>4, <1>7
  <2>3. \A i \in 1..Len(parts') :
          PartInv(parts'[i]) /\ parts'[i].rowStart + NrRows(parts'[i]) <= rowStart'
    <3> SUFFICES ASSUME NEW i \in 1..Len(parts')
                 PROVE  /\ PartInv(parts'[i])
                        /\ parts'[i].rowStart + NrRows(parts'[i]) <= rowStart'
      OBVIOUS
    <3>1. CASE i = Len(parts) + 1
      BY <1>6, <1>7, <1>9, <1>10, <3>1
    <3>2. CASE i # Len(parts) + 1
      <4>1. i \in 1..Len(parts) /\ parts'[i] = parts[i]
        BY <1>1, <1>10, <3>2
      <4>2. PartInv(parts[i]) /\ parts[i].rowStart + NrRows(parts[i]) <= rowStart
        BY <4>1 DEF PartsInv
      <4> QED
        BY <1>1, <1>9, <2>1, <4>1, <4>2
    <3> QED
      BY <3>1, <3>2
  <2>4. \A i, j \in 1..Len(parts') :
          i < j => parts'[i].rowStart + NrRows(parts'[i]) <= parts'[j].rowStart
    <3> SUFFICES ASSUME NEW i \in 1..Len(parts'), NEW j \in 1..Len(parts'), i < j
                 PROVE  parts'[i].rowStart + NrRows(parts'[i]) <= parts'[j].rowStart
      OBVIOUS
    <3>1. i \in 1..Len(parts) /\ parts'[i] = parts[i]
      BY <1>1, <1>10
    <3>2. CASE j = Len(parts) + 1
      BY <1>6, <1>10, <3>1, <3>2 DEF PartsInv
    <3>3. CASE j # Len(parts) + 1
      <4>1. j \in 1..Len(parts)
        BY <1>1, <1>10, <3>3
      <4>2. parts'[j] = parts[j]
        BY <1>10, <4>1
      <4> QED
        BY <3>1, <4>1, <4>2 DEF PartsInv
    <3> QED
      BY <3>2, <3>3
  <2> QED
    BY <2>3, <2>4 DEF PartsInv
<1> QED
  BY <1>11, <1>12, <1>13, <1>14

\* Returning, or staying returned, changes nothing.
LEMMA ReturnInv ==
  ASSUME Inv, Return \/ UNCHANGED vars
  PROVE  Inv'
<1> USE DEF Inv
<1>1. /\ UNCHANGED <<loader, points, iter, parts, rowStart, rowPrev, bld>>
      /\ pc' = "done" \/ pc' = pc
  BY DEF Return, vars
<1>2. TypeInv'
  BY <1>1 DEF TypeInv
<1>3. BuilderInv'
  BY <1>1 DEF BuilderInv
<1>4. SourceInv'
  BY <1>1 DEF SourceInv
<1>5. PartsInv'
  BY <1>1 DEF PartsInv
<1> QED
  BY <1>2, <1>3, <1>4, <1>5

-----------------------------------------------------------------------------
\* A point behind those of a sequence in file order goes to its end.
LEMMA AppendInOrder ==
  ASSUME NEW s \in Seq(PointSet), NEW p \in PointSet, InOrder(s),
         \A q \in ToSet(s) : q.val < p.val
  PROVE  InOrder(Append(s, p)) /\ ToSet(Append(s, p)) = ToSet(s) \cup {p}
<1> DEFINE a == Append(s, p)
<1>1. /\ Len(s) \in Nat /\ DOMAIN s = 1..Len(s) /\ DOMAIN a = 1..(Len(s) + 1)
      /\ \A i \in 1..Len(s) : a[i] = s[i]
      /\ a[Len(s) + 1] = p
  OBVIOUS
<1>2. \A i \in 1..(Len(s) + 1) : i \in 1..Len(s) \/ i = Len(s) + 1
  BY <1>1
<1> HIDE DEF a
<1>3. InOrder(a)
  <2> SUFFICES ASSUME NEW i \in DOMAIN a, NEW j \in DOMAIN a, i < j PROVE a[i].val < a[j].val
    BY DEF InOrder
  <2>1. i \in 1..Len(s) /\ a[i] = s[i] /\ s[i] \in ToSet(s)
    BY <1>1 DEF ToSet
  <2>2. CASE j \in 1..Len(s)
    BY <1>1, <2>1, <2>2 DEF InOrder
  <2>3. CASE j = Len(s) + 1
    BY <1>1, <2>1, <2>3
  <2> QED
    BY <1>1, <1>2, <2>2, <2>3
<1>4. ToSet(a) = ToSet(s) \cup {p}
  <2>1. \A i \in 1..Len(s) : i \in 1..(Len(s) + 1)
    BY <1>1
  <2>2. Len(s) + 1 \in 1..(Len(s) + 1)
    BY <1>1
  <2> QED
    BY Zenon, <1>1, <1>2, <2>1, <2>2 DEF ToSet
<1> QED
  BY <1>3, <1>4 DEF a

\* A point is added to the elements or to the diagonal.
LEMMA PointAdded ==
  ASSUME InFileOrder, Inv, TakePoint
  PROVE  IF points[iter].diag
           THEN bld'.elems = bld.elems /\ bld'.diag = Append(bld.diag, points[iter])
           ELSE bld'.elems = Append(bld.elems, points[iter]) /\ bld'.diag = bld.diag
<1> DEFINE p == points[iter]
<1>1. p.y \in Nat /\ rowPrev \in Nat /\ bld \in Builders /\ rowPrev <= p.y
  BY PointTyped DEF Inv, TypeInv, SourceInv, TakePoint
<1>2. CASE p.diag
  <2>1. bld' = [bld EXCEPT !.diag = Append(bld.diag, p)]
    BY <1>2 DEF TakePoint, AddPoint
  <2>2. bld' = [rowptr |-> bld.rowptr, elems |-> bld.elems, diag |-> Append(bld.diag, p)]
    BY Zenon, <1>1, <2>1, BuilderUpdate
  <2> QED
    BY <1>2, <2>2
<1>3. CASE ~p.diag
  <2> DEFINE b == NewRow(bld, p.y - rowPrev)
  <2>1. bld' = [b EXCEPT !.elems = Append(b.elems, p)]
    BY <1>3 DEF TakePoint, AddPoint
  <2>2. p.y - rowPrev \in Nat
    BY <1>1
  <2>3. b \in Builders /\ b.elems = bld.elems /\ b.diag = bld.diag
    BY <1>1, <2>2, NewRowAppends
  <2> HIDE DEF b
  <2>4. bld' = [rowptr |-> b.rowptr, elems |-> Append(b.elems, p), diag |-> b.diag]
    BY Zenon, <2>1, <2>3, BuilderUpdate
  <2> QED
    BY <1>3, <2>3, <2>4
<1> QED
  BY <1>2, <1>3

\* The points taken are those the iterator has passed.
LEMMA TakePointLoads ==
  ASSUME InFileOrder, Numbered, Inv, LoadInv, TakePoint
  PROVE  LoadInv'
<1> DEFINE p == points[iter]
<1>1. /\ pc = "elems" /\ iter <= Len(points) /\ iter' = iter + 1
      /\ UNCHANGED <<nr, points, parts, cnt, limit, pc>>
  BY DEF TakePoint
<1>2. /\ cnt \in Nat /\ iter \in 1..Len(points) /\ p \in PointSet /\ bld \in Builders
      /\ Len(points) \in Nat
  BY <1>1, PointTyped DEF Inv, TypeInv, LoadInv, OpenInv, InFileOrder
<1>3. /\ iter = cnt + ElemsCnt + 1
      /\ PointsIn(bld) = Between(cnt + 1, iter - 1) /\ Sorted(bld)
  BY <1>1 DEF LoadInv, OpenInv
<1>4. /\ bld.elems \in Seq(PointSet) /\ bld.diag \in Seq(PointSet)
      /\ Len(bld.elems) \in Nat /\ Len(bld.diag) \in Nat /\ ElemsCnt \in Nat
  BY <1>2 DEF Builders, ElemsCnt
<1>5. \A q \in PointsIn(bld) : q.val < p.val
  <2> SUFFICES ASSUME NEW q \in PointsIn(bld) PROVE q.val < p.val
    OBVIOUS
  <2>1. PICK k \in (cnt + 1)..(iter - 1) : q = points[k]
    BY <1>3 DEF Between
  <2>2. k \in 1..Len(points) /\ k < iter
    BY <1>2
  <2> QED
    BY <1>2, <2>1, <2>2 DEF Numbered
<1>6. /\ InOrder(bld'.elems) /\ \A q \in ToSet(bld'.elems) : ~q.diag
      /\ InOrder(bld'.diag) /\ \A q \in ToSet(bld'.diag) : q.diag
      /\ PointsIn(bld') = PointsIn(bld) \cup {p}
      /\ ElemsCnt' = ElemsCnt + 1
  <2>1. CASE p.diag
    <3>1. bld'.elems = bld.elems /\ bld'.diag = Append(bld.diag, p)
      BY <2>1, PointAdded
    <3>2. InOrder(Append(bld.diag, p)) /\ ToSet(Append(bld.diag, p)) = ToSet(bld.diag) \cup {p}
      <4>1. InOrder(bld.diag) /\ \A q \in ToSet(bld.diag) : q.val < p.val
        BY <1>3, <1>5 DEF Sorted, PointsIn
      <4> HIDE DEF p
      <4> QED
        BY <1>2, <1>4, <4>1, AppendInOrder
    <3>3. Len(Append(bld.diag, p)) = Len(bld.diag) + 1
      BY <1>4
    <3>4. ElemsCnt' = ElemsCnt + 1
      <4>1. ElemsCnt' = Len(bld.elems) + (Len(bld.diag) + 1)
        BY Zenon, <3>1, <3>3 DEF ElemsCnt
      <4>2. ElemsCnt = Len(bld.elems) + Len(bld.diag)
        BY DEF ElemsCnt
      <4>3. \A m, k \in Nat : m + (k + 1) = (m + k) + 1 /\ (m + 1) + k = (m + k) + 1
        OBVIOUS
      <4> QED
        BY Zenon, <1>4, <4>1, <4>2, <4>3
    <3>5. InOrder(bld'.diag) /\ \A q \in ToSet(bld'.diag) : q.diag
      BY Zenon, <1>3, <2>1, <3>1, <3>2 DEF Sorted
    <3>6. InOrder(bld'.elems) /\ \A q \in ToSet(bld'.elems) : ~q.diag
      BY Zenon, <1>3, <3>1 DEF Sorted
    <3>7. PointsIn(bld') = PointsIn(bld) \cup {p}
      <4>1. ToSet(bld'.diag) = ToSet(bld.diag) \cup {p} /\ ToSet(bld'.elems) = ToSet(bld.elems)
        BY Zenon, <3>1, <3>2
      <4> QED
        BY <4>1 DEF PointsIn
    <3> QED
      BY <3>4, <3>5, <3>6, <3>7
  <2>2. CASE ~p.diag
    <3>1. bld'.elems = Append(bld.elems, p) /\ bld'.diag = bld.diag
      BY <2>2, PointAdded
    <3>2. InOrder(Append(bld.elems, p)) /\ ToSet(Append(bld.elems, p)) = ToSet(bld.elems) \cup {p}
      <4>1. InOrder(bld.elems) /\ \A q \in ToSet(bld.elems) : q.val < p.val
        BY <1>3, <1>5 DEF Sorted, PointsIn
      <4> HIDE DEF p
      <4> QED
        BY <1>2, <1>4, <4>1, AppendInOrder
    <3>3. Len(Append(bld.elems, p)) = Len(bld.elems) + 1
      BY <1>4
    <3>4. ElemsCnt' = ElemsCnt + 1
      <4>1. ElemsCnt' = (Len(bld.elems) + 1) + Len(bld.diag)
        BY Zenon, <3>1, <3>3 DEF ElemsCnt
      <4>2. ElemsCnt = Len(bld.elems) + Len(bld.diag)
        BY DEF ElemsCnt
      <4>3. \A m, k \in Nat : m + (k + 1) = (m + k) + 1 /\ (m + 1) + k = (m + k) + 1
        OBVIOUS
      <4> QED
        BY Zenon, <1>4, <4>1, <4>2, <4>3
    <3>5. InOrder(bld'.elems) /\ \A q \in ToSet(bld'.elems) : ~q.diag
      BY Zenon, <1>3, <2>2, <3>1, <3>2 DEF Sorted
    <3>6. InOrder(bld'.diag) /\ \A q \in ToSet(bld'.diag) : q.diag
      BY Zenon, <1>3, <3>1 DEF Sorted
    <3>7. PointsIn(bld') = PointsIn(bld) \cup {p}
      <4>1. ToSet(bld'.elems) = ToSet(bld.elems) \cup {p} /\ ToSet(bld'.diag) = ToSet(bld.diag)
        BY Zenon, <3>1, <3>2
      <4> QED
        BY <4>1 DEF PointsIn
    <3> QED
      BY <3>4, <3>5, <3>6, <3>7
  <2> QED
    BY <2>1, <2>2
<1>7. Between(cnt + 1, iter - 1) \cup {p} = {points[k] : k \in (cnt + 1)..iter}
  <2>1. \A k : k \in (cnt + 1)..iter <=> (k \in (cnt + 1)..(iter - 1) \/ k = iter)
    <3>1. \A m, e \in Nat : \A k : LET n == m + e + 1 IN
            k \in (m + 1)..n <=> (k \in (m + 1)..(n - 1) \/ k = n)
      OBVIOUS
    <3> QED
      BY <1>2, <1>3, <1>4, <3>1
  <2> QED
    BY Zenon, <2>1 DEF Between
<1>8. OpenInv'
  <2>1. iter' = cnt' + ElemsCnt' + 1
    BY <1>1, <1>2, <1>3, <1>4, <1>6
  <2>2. iter' - 1 = iter
    BY <1>1, <1>2
  <2>3. PointsIn(bld)' = Between(cnt + 1, iter - 1)'
    <3>1. PointsIn(bld') = {points[k] : k \in (cnt + 1)..iter}
      BY Zenon, <1>3, <1>6, <1>7
    <3>2. Between(cnt + 1, iter - 1)' = {points[k] : k \in (cnt + 1)..iter}
      BY Zenon, <1>1, <2>2 DEF Between
    <3> QED
      BY <3>1, <3>2 DEF PointsIn
  <2>4. Sorted(bld)'
    BY <1>6 DEF Sorted
  <2> QED
    BY <1>1, <1>2, <2>1, <2>3, <2>4 DEF OpenInv
<1>9. FinishedInv'
  BY <1>1 DEF LoadInv, FinishedInv, Between
<1>10. ShareInv'
  BY <1>1 DEF LoadInv, ShareInv
<1> QED
  BY <1>8, <1>9, <1>10 DEF LoadInv

\* A part begins where the last one ended.
LEMMA BeginPartLoads ==
  ASSUME InFileOrder, Inv, LoadInv, BeginPart
  PROVE  LoadInv'
<1>1. /\ pc = "split" /\ pc' = "elems" /\ Len(parts) < nr /\ limit' = Share
      /\ bld' = NewBuilder /\ UNCHANGED <<nr, points, iter, parts, cnt>>
  BY DEF BeginPart
<1>2. /\ cnt \in Nat /\ iter = cnt + 1 /\ Len(points) \in Nat /\ cnt <= Len(points)
      /\ nr \in Nat \ {0} /\ Len(parts) \in Nat
  BY <1>1 DEF LoadInv, OpenInv, ShareInv, Inv, TypeInv, InFileOrder
<1>3. NewBuilder.elems = <<>> /\ NewBuilder.diag = <<>>
  BY DEF NewBuilder
<1>4. OpenInv'
  <2>1. ToSet(<<>>) = {} /\ InOrder(<<>>) /\ Len(<<>>) = 0
    BY DEF ToSet, InOrder
  <2>2. PointsIn(NewBuilder) = {} /\ Sorted(NewBuilder)
    BY <1>3, <2>1 DEF PointsIn, Sorted
  <2>3. Between(cnt + 1, iter - 1)' = {}
    <3>1. (cnt + 1)..(iter - 1) = {}
      BY <1>2
    <3> QED
      BY <1>1, <3>1 DEF Between
  <2>4. ElemsCnt' = 0
    BY <1>1, <1>3, <2>1 DEF ElemsCnt
  <2> QED
    BY <1>1, <1>2, <2>2, <2>3, <2>4 DEF OpenInv, Sorted, PointsIn
<1>5. FinishedInv'
  BY <1>1 DEF LoadInv, FinishedInv, Between
<1>6. ShareInv'
  <2>1. Len(parts) = nr - 1 => Share = Len(points) - cnt
    <3>1. Len(parts) = nr - 1 => nr - Len(parts) = 1
      BY <1>2
    <3>2. (Len(points) - cnt) \div 1 = Len(points) - cnt
      BY <1>2
    <3> QED
      BY <3>1, <3>2 DEF Share
  <2> QED
    BY <1>1, <1>2, <2>1 DEF LoadInv, ShareInv
<1> QED
  BY <1>4, <1>5, <1>6 DEF LoadInv

\* A part ends with the points it took; if it is the last, they are all gone.
LEMMA EndPartLoads ==
  ASSUME InFileOrder, Numbered, Inv, LoadInv, EndPart
  PROVE  LoadInv'
<1> DEFINE b == Finalize(bld)
           q == [rowStart |-> rowStart, rowptr |-> b.rowptr, elems |-> b.elems, diag |-> b.diag]
           n == Len(parts)
<1>1. /\ pc = "elems" /\ pc' = "split" /\ UNCHANGED <<nr, points, iter, limit>>
      /\ iter <= Len(points) => Breaks(points[iter])
      /\ parts' = Append(parts, q) /\ cnt' = cnt + ElemsCnt
  BY Zenon DEF EndPart
<1>2. /\ cnt \in Nat /\ iter \in 1..(Len(points) + 1) /\ Len(points) \in Nat /\ n \in Nat
      /\ bld \in Builders /\ ElemsCnt \in Nat /\ rowStart \in Nat /\ rowPrev \in Nat
      /\ parts \in Seq(PartSet) /\ nr \in Nat \ {0} /\ n < nr
  <2>1. /\ iter \in 1..(Len(points) + 1) /\ Len(points) \in Nat /\ bld \in Builders
        /\ rowStart \in Nat /\ rowPrev \in Nat /\ parts \in Seq(PartSet)
    BY DEF Inv, TypeInv, InFileOrder
  <2>2. cnt \in Nat /\ nr \in Nat \ {0} /\ n < nr
    BY <1>1 DEF LoadInv, OpenInv, ShareInv
  <2>3. ElemsCnt \in Nat
    BY <2>1 DEF ElemsCnt, Builders
  <2>4. n \in Nat
    BY <2>1
  <2> QED
    BY <2>1, <2>2, <2>3, <2>4
<1>3. /\ iter = cnt + ElemsCnt + 1
      /\ PointsIn(bld) = Between(cnt + 1, iter - 1) /\ Sorted(bld)
  BY <1>1 DEF LoadInv, OpenInv
<1>4. b \in Builders /\ b.elems = bld.elems /\ b.diag = bld.diag
  <2>1. Len(bld.rowptr) = rowPrev - rowStart /\ Placed(bld, rowStart, rowPrev)
    BY <1>1 DEF Inv, BuilderInv
  <2>2. /\ Finalize(bld) \in Builders /\ Finalize(bld).diag = bld.diag
        /\ Finalize(bld).elems = bld.elems
    BY <1>2, <2>1, FinalizePlaces
  <2> QED
    BY Zenon, <2>2
<1> HIDE DEF b
<1>5. q \in PartSet /\ q.elems = bld.elems /\ q.diag = bld.diag
  BY <1>2, <1>4 DEF Builders, PartSet
<1> HIDE DEF q
<1>6. PointsIn(q) = Between(cnt + 1, iter - 1) /\ Sorted(q)
  BY <1>3, <1>5 DEF PointsIn, Sorted
<1>7. /\ Len(parts') = n + 1 /\ parts'[n + 1] = q
      /\ \A i \in 1..n : parts'[i] = parts[i]
  BY <1>1, <1>2, <1>5
<1>8. cnt' \in Nat /\ iter' = cnt' + 1 /\ cnt' = iter - 1 /\ cnt <= cnt' /\ cnt' <= Len(points)
  BY <1>1, <1>2, <1>3
<1> HIDE DEF n
<1>9. \A i \in 1..(n + 1) : i \in 1..n \/ i = n + 1
  BY <1>2
<1>10. \A i \in 1..n : i \in 1..(n + 1)
  BY <1>2
<1>11. n + 1 \in 1..(n + 1)
  BY <1>2
<1>12. OpenInv'
  BY <1>1, <1>8 DEF OpenInv
<1>13. FinishedInv'
  <2>1. UNION {PointsIn(parts'[i]) : i \in 1..Len(parts')} = Between(1, cnt)'
    <3> DEFINE now == UNION {PointsIn(parts'[i]) : i \in 1..(n + 1)}
               before == UNION {PointsIn(parts[i]) : i \in 1..n}
    <3>1. \A a : a \in now <=> a \in before \/ a \in PointsIn(q)
      <4>1. \A a : a \in now <=> \E i \in 1..(n + 1) : a \in PointsIn(parts'[i])
        BY Zenon
      <4>2. \A a : a \in before <=> \E i \in 1..n : a \in PointsIn(parts[i])
        BY Zenon
      <4>3. \A a : (\E i \in 1..(n + 1) : a \in PointsIn(parts'[i])) <=>
                    (\E i \in 1..n : a \in PointsIn(parts[i])) \/ a \in PointsIn(q)
        BY Zenon, <1>7, <1>9, <1>10, <1>11
      <4> HIDE DEF now, before
      <4> QED
        BY Zenon, <4>1, <4>2, <4>3
    <3>2. before = Between(1, cnt)
      BY DEF LoadInv, FinishedInv, n
    <3>3. \A k : k \in 1..cnt' <=> (k \in 1..cnt \/ k \in (cnt + 1)..(iter - 1))
      BY <1>2, <1>8
    <3>4. Between(1, cnt)' = Between(1, cnt) \cup Between(cnt + 1, iter - 1)
      BY Zenon, <1>1, <3>3 DEF Between
    <3>5. now = UNION {PointsIn(parts'[i]) : i \in 1..Len(parts')}
      BY <1>7
    <3> HIDE DEF now, before
    <3>6. now = before \cup PointsIn(q)
      BY <3>1
    <3>7. now = Between(1, cnt) \cup Between(cnt + 1, iter - 1)
      BY <1>6, <3>2, <3>6
    <3> QED
      BY <3>4, <3>5, <3>7
  <2>2. ASSUME NEW i \in 1..Len(parts'), NEW j \in 1..Len(parts'), i < j,
               NEW a \in PointsIn(parts'[i]), NEW c \in PointsIn(parts'[j])
        PROVE  a.val < c.val
    <3>1. i \in 1..n /\ parts'[i] = parts[i]
      BY <1>2, <1>7, <2>2
    <3>2. CASE j \in 1..n
      BY <1>7, <2>2, <3>1, <3>2 DEF LoadInv, FinishedInv, n
    <3>3. CASE j = n + 1
      <4>1. a \in Between(1, cnt)
        BY <3>1 DEF LoadInv, FinishedInv, n
      <4>2. PICK k \in 1..cnt : a = points[k]
        BY <4>1 DEF Between
      <4>3. PICK m \in (cnt + 1)..(iter - 1) : c = points[m]
        BY <1>6, <1>7, <3>3 DEF Between
      <4>4. k \in 1..Len(points) /\ m \in 1..Len(points) /\ k < m
        BY <1>2, <1>8
      <4> QED
        BY <4>2, <4>3, <4>4 DEF Numbered
    <3> QED
      BY <1>7, <1>9, <3>2, <3>3
  <2>3. ASSUME NEW i \in 1..Len(parts') PROVE Sorted(parts'[i])
    BY <1>6, <1>7, <1>9 DEF LoadInv, FinishedInv, n
  <2> QED
    BY <2>1, <2>2, <2>3 DEF FinishedInv, PointsIn, Sorted
<1>14. ShareInv'
  <2>1. ASSUME n + 1 = nr PROVE cnt' = Len(points)
    <3>1. limit = Len(points) - cnt
      BY <1>1, <1>2, <2>1 DEF LoadInv, ShareInv, n
    <3>2. iter <= Len(points) => ElemsCnt >= limit
      BY <1>1 DEF Breaks
    <3> QED
      BY <1>2, <1>3, <1>8, <3>1, <3>2
  <2> QED
    BY <1>1, <1>2, <1>7, <2>1 DEF ShareInv
<1> QED
  BY <1>12, <1>13, <1>14 DEF LoadInv

\* Returning, or staying returned, leaves the parts as they are.
LEMMA ReturnLoads ==
  ASSUME LoadInv, Return \/ UNCHANGED vars
  PROVE  LoadInv'
<1>1. UNCHANGED <<nr, points, iter, parts, cnt, limit, bld>>
  BY DEF Return, vars
<1>2. \/ pc' = "done" /\ pc = "split" /\ Len(parts) = nr
      \/ pc' = pc
  BY DEF Return, vars
<1>3. OpenInv'
  BY <1>1, <1>2 DEF LoadInv, OpenInv, ShareInv, ElemsCnt, Between
<1>4. FinishedInv'
  BY <1>1 DEF LoadInv, FinishedInv, Between
<1>5. ShareInv'
  BY <1>1, <1>2 DEF LoadInv, ShareInv
<1> QED
  BY <1>3, <1>4, <1>5 DEF LoadInv

\* The loaders begin with no part and no point taken.
LEMMA InitLoads == Init => LoadInv
<1> SUFFICES ASSUME Init PROVE LoadInv
  OBVIOUS
<1>1. Len(parts) = 0 /\ nr \in Nat \ {0} /\ cnt = 0 /\ pc = "split" /\ iter = 1
  BY ThreadCountsAssumption DEF Init
<1>2. FinishedInv
  BY <1>1 DEF FinishedInv, Between
<1> QED
  BY <1>1, <1>2 DEF LoadInv, OpenInv, ShareInv

\* Every step keeps the invariant.
LEMMA StepInv == IInv /\ [Next]_vars => IInv'
<1> SUFFICES ASSUME IInv, [Next]_vars PROVE IInv'
  OBVIOUS
<1>1. InFileOrder /\ Numbered /\ Inv /\ LoadInv
  BY DEF IInv
<1>2. InFileOrder' /\ Numbered'
  <2>1. UNCHANGED <<loader, points>>
    BY DEF Next, vars, BeginPart, TakePoint, EndPart, Return, Finished
  <2> QED
    BY <1>1, <2>1 DEF InFileOrder, Numbered
<1>3. CASE BeginPart
  BY <1>1, <1>2, <1>3, BeginPartInv, BeginPartLoads DEF IInv
<1>4. CASE TakePoint
  BY <1>1, <1>2, <1>4, TakePointInv, TakePointLoads DEF IInv
<1>5. CASE EndPart
  BY <1>1, <1>2, <1>5, EndPartInv, EndPartLoads DEF IInv
<1>6. CASE Return \/ UNCHANGED vars
  BY <1>1, <1>2, <1>6, ReturnInv, ReturnLoads DEF IInv
<1> QED
  BY <1>3, <1>4, <1>5, <1>6 DEF Next, Finished

-----------------------------------------------------------------------------
\* The invariant of the loaders (csx/spm.cc): the points come in the order of their
\* rows, the rows of the parts so far follow each other up to row_start and the open
\* part's rows follow on, and the parts have the cnt first points of the matrix.
THEOREM InductiveInvariant == Spec => []IInv
<1>1. Init => IInv
  BY InitInv, InitLoads, PointsOrdered DEF IInv
<1>2. IInv /\ [Next]_vars => IInv'
  BY StepInv
<1> QED
  BY <1>1, <1>2, PTL DEF Spec

\* The parts of a matrix from a file, and of one in CSR form whose first row is not
\* empty, know where their rows are in the matrix, for any number of threads.
THEOREM PartsKnowTheirPlace ==
  Spec => []((loader = "CSR" => ~EmptyFirstRow) => EntriesAtTheirRows)
<1>1. IInv => ((loader = "CSR" => ~EmptyFirstRow) => EntriesAtTheirRows)
  <2> SUFFICES ASSUME IInv, loader = "CSR" => ~EmptyFirstRow, NEW p \in ToSet(parts)
               PROVE  /\ \A i \in 1..NrRows(p) : \A k \in (p.rowptr[i] + 1)..p.rowptr[i + 1] :
                           p.elems[k].row = p.rowStart + i
                      /\ \A k \in DOMAIN p.diag : p.diag[k].row = p.rowStart + k
                      /\ Last(p.rowptr) = Len(p.elems)
    BY DEF EntriesAtTheirRows
  <2>1. parts \in Seq(PartSet) /\ cnt \in Nat /\ Len(points) \in Nat
    BY DEF IInv, Inv, TypeInv, LoadInv, OpenInv, InFileOrder
  <2>2. PICK i \in 1..Len(parts) : p = parts[i]
    BY <2>1 DEF ToSet
  <2>3. PartInv(p) /\ p \in PartSet
    BY <2>1, <2>2 DEF IInv, Inv, PartsInv
  <2>4. /\ DOMAIN p.diag = 1..Len(p.diag) /\ DOMAIN p.elems = 1..Len(p.elems)
        /\ p.rowptr \in Seq(Nat) /\ Len(p.elems) \in Nat /\ Len(p.rowptr) \in Nat
    BY <2>3 DEF PartSet
  <2>5. cnt <= Len(points)
    <3>1. bld \in Builders /\ iter \in 1..(Len(points) + 1) /\ pc \in {"split", "elems", "done"}
      BY DEF IInv, Inv, TypeInv
    <3>2. ElemsCnt \in Nat
      BY <3>1 DEF ElemsCnt, Builders
    <3>3. iter = cnt + 1 \/ iter = cnt + ElemsCnt + 1 \/ cnt = Len(points)
      BY <3>1 DEF IInv, LoadInv, OpenInv
    <3> QED
      BY <2>1, <3>1, <3>2, <3>3
  <2>6. ASSUME NEW q \in PointsIn(p) PROVE q.y = q.row
    <3>1. q \in Between(1, cnt)
      BY <2>2 DEF IInv, LoadInv, FinishedInv
    <3>2. PICK k \in 1..cnt : q = points[k]
      BY <3>1 DEF Between
    <3>3. k \in 1..Len(points)
      BY <2>1, <2>5
    <3> QED
      BY <3>2, <3>3 DEF IInv, Numbered
  <2>7. /\ \A k \in 1..Len(p.elems) : p.elems[k].y = p.elems[k].row
        /\ \A k \in 1..Len(p.diag) : p.diag[k].y = p.diag[k].row
    BY <2>4, <2>6 DEF PointsIn, ToSet
  <2>8. \A k \in 1..Len(p.rowptr) : p.rowptr[k] \in Nat /\ p.rowptr[k] <= Len(p.elems)
    BY <2>3, <2>4 DEF PartInv
  <2>9. ASSUME NEW r \in 1..NrRows(p), NEW k \in (p.rowptr[r] + 1)..p.rowptr[r + 1]
        PROVE  p.elems[k].row = p.rowStart + r
    <3>1. r \in 1..Len(p.rowptr) /\ r + 1 \in 1..Len(p.rowptr)
      BY <2>4 DEF NrRows
    <3>2. p.rowptr[r] \in Nat /\ p.rowptr[r + 1] \in Nat /\ p.rowptr[r + 1] <= Len(p.elems)
      BY <2>8, <3>1
    <3>3. k \in 1..Len(p.elems)
      <4>1. PICK a, b, c \in Nat : a = p.rowptr[r] /\ b = p.rowptr[r + 1] /\ c = Len(p.elems)
        BY <2>4, <3>2
      <4>2. k \in (a + 1)..b /\ b <= c
        BY <3>2, <4>1
      <4>3. k \in 1..c
        BY <4>2
      <4> QED
        BY <4>1, <4>3
    <3> QED
      BY <2>3, <2>7, <3>3 DEF PartInv
  <2> QED
    BY <2>3, <2>4, <2>7, <2>9 DEF PartInv, Closed, Last
<1> QED
  BY <1>1, InductiveInvariant, PTL

\* The kernels of two threads never write the same row of the result, however many
\* threads there are, wherever the shares end and whichever loader made the parts.
THEOREM PartsAreApart == Spec => []KernelRowsDisjoint
<1>1. IInv => KernelRowsDisjoint
  <2> SUFFICES ASSUME Inv, NEW i \in DOMAIN parts, NEW j \in DOMAIN parts, i # j
               PROVE  KernelRows(parts[i]) \cap KernelRows(parts[j]) = {}
    BY DEF IInv, KernelRowsDisjoint
  <2>1. parts \in Seq(PartSet)
    BY DEF Inv, TypeInv
  <2>2. i \in 1..Len(parts) /\ j \in 1..Len(parts)
    BY <2>1
  <2>3. \A k \in 1..Len(parts) : NrRows(parts[k]) \in Int /\ parts[k].rowStart \in Nat
    BY <2>1, PartTyped
  <2>4. \/ parts[i].rowStart + NrRows(parts[i]) <= parts[j].rowStart
        \/ parts[j].rowStart + NrRows(parts[j]) <= parts[i].rowStart
    BY <2>2 DEF Inv, PartsInv
  <2>5. parts[i].rowStart \in Nat /\ parts[j].rowStart \in Nat
        /\ NrRows(parts[i]) \in Int /\ NrRows(parts[j]) \in Int
    BY Zenon, <2>2, <2>3
  <2>6. \A a, b \in Nat : \A m, n \in Int : a + m <= b =>
          \A k \in 1..m : \A l \in 1..n : a + k # b + l /\ b + l # a + k
    OBVIOUS
  <2>7. \A k \in 1..NrRows(parts[i]) : \A l \in 1..NrRows(parts[j]) :
          parts[i].rowStart + k # parts[j].rowStart + l
    BY Zenon, <2>4, <2>5, <2>6
  <2> QED
    BY Zenon, <2>7 DEF KernelRows
<1> QED
  BY <1>1, InductiveInvariant, PTL

\* Every point of the matrix is in one part, in the order of the file: the loaders'
\* assertion at the end, cnt == nnz, never fails, whatever the matrix and the shares.
THEOREM NothingIsLost == Spec => []AllLoaded
<1>1. IInv => AllLoaded
  <2> SUFFICES ASSUME IInv, pc = "done"
               PROVE  /\ cnt = Len(points)
                      /\ UNION {PointsIn(p) : p \in ToSet(parts)} = ToSet(points)
                      /\ \A i, j \in DOMAIN parts : i < j =>
                           \A p \in PointsIn(parts[i]), q \in PointsIn(parts[j]) : p.val < q.val
                      /\ \A p \in ToSet(parts) :
                           /\ InOrder(p.elems) /\ \A q \in ToSet(p.elems) : ~q.diag
                           /\ InOrder(p.diag) /\ \A q \in ToSet(p.diag) : q.diag
    BY DEF AllLoaded
  <2>1. DOMAIN parts = 1..Len(parts) /\ DOMAIN points = 1..Len(points)
    BY DEF IInv, Inv, TypeInv, InFileOrder
  <2>2. /\ cnt = Len(points) /\ UNION {PointsIn(parts[i]) : i \in 1..Len(parts)} = Between(1, cnt)
    BY DEF IInv, LoadInv, OpenInv, FinishedInv
  <2>3. UNION {PointsIn(p) : p \in ToSet(parts)} = UNION {PointsIn(parts[i]) : i \in 1..Len(parts)}
    BY Zenon, <2>1 DEF ToSet
  <2>4. ToSet(points) = Between(1, cnt)
    BY <2>1, <2>2 DEF ToSet, Between
  <2>5. \A p \in ToSet(parts) : Sorted(p)
    BY <2>1 DEF ToSet, IInv, LoadInv, FinishedInv
  <2> QED
    BY <2>1, <2>2, <2>3, <2>4, <2>5 DEF Sorted, IInv, LoadInv, FinishedInv
<1> QED
  BY <1>1, InductiveInvariant, PTL
=============================================================================
