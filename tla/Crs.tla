-------------------------------- MODULE Crs ---------------------------------
(***************************************************************************)
(* The CSR format and its row splits (lib/spm/spm_crs.c, spm_crs_mt.c).    *)
(*                                                                         *)
(* A matrix file is a record [nrows, ncols, points]: the points [row, col, *)
(* val] come in row order and count from 0, as mmf_get_next gives them.    *)
(* The sum that a kernel leaves in y[i] is the sequence of its products    *)
(* <<value, column of x>>, and an array a[0 .. n-1] of the code a sequence *)
(* whose element i + 1 is a[i].                                            *)
(***************************************************************************)
EXTENDS Integers, Sequences, SequencesExt, FiniteSetsExt

\* Faulty variant: only one row is ended, whether or not rows in between are empty.
CrsAddPoint_OneRow(crs, p) ==
  [rowptr |-> IF p.row # crs.prev THEN Append(crs.rowptr, Len(crs.cols)) ELSE crs.rowptr,
   cols |-> Append(crs.cols, p.col),
   vals |-> Append(crs.vals, p.val),
   prev |-> p.row]

\* The turn of the reading loop of init_mmf: a new row ends those before it.
CrsAddPoint(crs, p) ==
  [rowptr |-> crs.rowptr \o [k \in 1..(p.row - crs.prev) |-> Len(crs.cols)],
   cols |-> Append(crs.cols, p.col),
   vals |-> Append(crs.vals, p.val),
   prev |-> p.row]

CrsInitMmf(mmf) ==
  LET crs == FoldLeft(CrsAddPoint, [rowptr |-> <<0>>, cols |-> <<>>, vals |-> <<>>, prev |-> 0],
                      mmf.points)
  IN  [crs EXCEPT !.rowptr = Append(@, Len(crs.cols))]

\* The assertion row_i == nrows + 1: the last row is not empty.
CrsLoads(mmf) == Len(CrsInitMmf(mmf).rowptr) = mmf.nrows + 1

\* Row i, and how many elements it has.
RowBegin(m, i) == m.rowptr[i + 1]
RowEnd(m, i) == m.rowptr[i + 2]
RowCount(m, i) == RowEnd(m, i) - RowBegin(m, i)
NrRows(m) == Len(m.rowptr) - 1

\* The kernels: every row of the part, from zero.
CrsRow(crs, i) ==
  [k \in 1..RowCount(crs, i) |->
     <<crs.vals[RowBegin(crs, i) + k], crs.cols[RowBegin(crs, i) + k]>>]

CrsMultiply(crs, part, y) ==
  [i \in DOMAIN y |-> IF part.begin <= i /\ i < part.end THEN CrsRow(crs, i) ELSE y[i]]

\* The arrays of a caller that counts from one (get_spm and multiply_base_one).
BaseOne(crs) ==
  [rowptr |-> [i \in DOMAIN crs.rowptr |-> crs.rowptr[i] + 1],
   cols |-> [k \in DOMAIN crs.cols |-> crs.cols[k] + 1],
   vals |-> crs.vals]

MultiplyBaseOne(csr, part, y) ==
  LET Row(i) == [k \in 1..RowCount(csr, i) |->
                   <<csr.vals[(RowBegin(csr, i) - 1) + k], csr.cols[(RowBegin(csr, i) - 1) + k] - 1>>]
  IN  [i \in DOMAIN y |-> IF part.begin <= i /\ i < part.end THEN Row(i) ELSE y[i]]

-----------------------------------------------------------------------------
\* The parts [begin, end) between the rows of a sequence of ends.
PartsUpTo(ends) ==
  [i \in DOMAIN ends |-> [begin |-> IF i = 1 THEN 0 ELSE ends[i - 1], end |-> ends[i]]]

\* crs_mt, init_mmf: each thread takes one row at least, until it has its share of
\* what is left.  Fewer parts than n: the loop ran over the end of row_ptr.
CrsMtParts(crs, n) ==
  LET Candidates(ends) ==
        LET cur == IF ends = <<>> THEN 0 ELSE Last(ends)
            limit == (Len(crs.cols) - RowBegin(crs, cur)) \div (n - Len(ends))
        IN  {e \in (cur + 1)..NrRows(crs) : RowBegin(crs, e) - RowBegin(crs, cur) >= limit}
      Extend(ends, i) ==
        IF Len(ends) = i - 1 /\ Candidates(ends) # {} THEN Append(ends, Min(Candidates(ends)))
        ELSE ends
  IN  PartsUpTo(FoldLeft(Extend, <<>>, [i \in 1..n |-> i]))

\* get_spm: a part ends at the row that gives it an equal share or more; rows
\* after the last such part are a part if there is a thread left for it.
GetSpmParts(csr, n) ==
  LET share == (csr.rowptr[NrRows(csr) + 1] - 1) \div n
      Take(acc, i) ==
        IF acc.count + RowCount(csr, i) >= share
          THEN [count |-> 0, ends |-> Append(acc.ends, i + 1)]
          ELSE [acc EXCEPT !.count = @ + RowCount(csr, i)]
      split == FoldLeft(Take, [count |-> 0, ends |-> <<>>], [i \in 1..NrRows(csr) |-> i - 1])
  IN  PartsUpTo(IF split.count < share /\ Len(split.ends) < n
                  THEN Append(split.ends, NrRows(csr)) ELSE split.ends)

\* Faulty variant: the count is not brought down when a part ends.
SplitEnds_NoReset(size, parts) ==
  LET share == FoldLeft(+, 0, size) \div parts
      Take(acc, i) ==
        [count |-> acc.count + size[i],
         ends |-> IF acc.count + size[i] > share THEN Append(acc.ends, i) ELSE acc.ends]
  IN  FoldLeft(Take, [count |-> 0, ends |-> <<>>], [i \in DOMAIN size |-> i]).ends

\* vbl_mt and bcsr_mt, split: the ends of the parts when row i, of the n rows, has
\* size[i] elements.  The code stores end k of them in splits[k], of which there
\* are parts + 1, and overwrites splits[parts].
SplitEnds(size, parts) ==
  LET share == FoldLeft(+, 0, size) \div parts
      Take(acc, i) ==
        IF acc.count + size[i] > share
          THEN [count |-> acc.count + size[i] - share, ends |-> Append(acc.ends, i)]
          ELSE [acc EXCEPT !.count = @ + size[i]]
  IN  FoldLeft(Take, [count |-> 0, ends |-> <<>>], [i \in DOMAIN size |-> i]).ends

\* All of splits[] is set and nothing beyond it.
SplitInBounds(ends, parts) == Len(ends) \in {parts - 1, parts}
=============================================================================
