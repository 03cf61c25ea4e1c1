-------------------------------- MODULE Sss ---------------------------------
(***************************************************************************)
(* The symmetric format: the strict lower triangle in CSR and the diagonal *)
(* in an array of its own (lib/spm/spm_crs_sym.c, spm_crs_sym_mt.c).       *)
(***************************************************************************)
EXTENDS Crs

LOCAL Map(nrows) == INSTANCE ReductionMap WITH NRows <- nrows

\* init_mmf passes over the upper triangle and keeps the diagonal apart.
SssInitMmf(mmf) ==
  LET lower == CrsInitMmf([mmf EXCEPT !.points = SelectSeq(@, LAMBDA p : p.col < p.row)])
      Diagonal(i) == SelectSeq(mmf.points, LAMBDA p : p.row = i /\ p.col = i)
  IN  [rowptr |-> lower.rowptr, cols |-> lower.cols, vals |-> lower.vals,
       dvalues |-> [i \in 0..(mmf.nrows - 1) |->
                      IF Diagonal(i) = <<>> THEN "uninitialised" ELSE Last(Diagonal(i)).val]]

\* Its assertions: square, (nnz - n) even, and the arrays filled exactly.
SssLoads(mmf) ==
  /\ mmf.nrows = mmf.ncols
  /\ (Len(mmf.points) - mmf.nrows) % 2 = 0
  /\ Len(SssInitMmf(mmf).cols) = (Len(mmf.points) - mmf.nrows) \div 2
  /\ Len(SssInitMmf(mmf).rowptr) = mmf.nrows + 1

\* Rows are dealt until the threads so far have their share of what the ones
\* before them left: elements of the triangle, and one of the diagonal a row.
SssMtParts(sss, n) ==
  LET Before(r) == RowBegin(sss, r) + r
      Extend(ends, i) ==
        LET cur == IF ends = <<>> THEN 0 ELSE Last(ends)
            total == Before(cur) + ((Before(NrRows(sss)) - Before(cur)) \div (n - i + 1))
        IN  Append(ends, Min({r \in cur..NrRows(sss) : Before(r) >= total}))
  IN  PartsUpTo(FoldLeft(Extend, <<>>, [i \in 1..n |-> i]))

\* The kernel of a part, out being y and the thread's private vector.  Row i sets
\* y[i], and each of its elements adds to the row that its column names: in the
\* private vector if that is above the part.  The serial kernel's part is all rows.
SssMultiply(sss, part, out) ==
  LET Add(i, o, k) ==
        LET j == sss.cols[k]
            term == <<sss.vals[k], i>>
        IN  IF j < part.begin THEN [o EXCEPT !.temp[j] = Append(@, term)]
            ELSE [o EXCEPT !.y[j] = Append(@, term)]
      Row(o, i) ==
        LET elems == [k \in 1..RowCount(sss, i) |-> RowBegin(sss, i) + k]
            added == FoldLeft(LAMBDA acc, k : Add(i, acc, k), o, elems)
        IN  [added EXCEPT !.y[i] = Append(CrsRow(sss, i), <<sss.dvalues[i], i>>)]
  IN  FoldLeft(Row, out, [i \in 1..(part.end - part.begin) |-> part.begin + i - 1])

\* initial_map: the rows above its own that a part's kernel adds to.
SssReach(sss, part) ==
  {j \in 0..(part.begin - 1) : \E i \in part.begin..(part.end - 1) :
     j \in {sss.cols[k] : k \in (RowBegin(sss, i) + 1)..RowEnd(sss, i)}}

\* make_map: the private elements <<cpu, row>> that each thread adds to y.
SssMakeMap(sss, parts) ==
  LET n == Len(parts)
      Users(j) == {k \in 1..n : j \in SssReach(sss, parts[k])}
      shares == Map(NrRows(sss))!Shares([j \in 0..(NrRows(sss) - 1) |-> Cardinality(Users(j))], n)
  IN  [t \in 1..n |->
         Map(NrRows(sss))!Listed(UNION {{<<k, j>> : k \in Users(j)} : j \in shares[t]})]

\* add_from_map: what thread t does after all kernels; temps are the private vectors.
SssReduce(map, t, y, temps) ==
  FoldLeft(LAMBDA acc, e : [acc EXCEPT ![e[2]] = @ \o temps[e[1]][e[2]]], y, map[t])
=============================================================================
