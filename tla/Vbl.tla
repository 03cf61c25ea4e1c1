-------------------------------- MODULE Vbl ---------------------------------
(***************************************************************************)
(* The VBL format: a row's elements in blocks of consecutive columns, the  *)
(* size of a block in one byte (lib/spm/vbl/spm_vbl.c, spm_vbl_mt.c).      *)
(***************************************************************************)
EXTENDS Crs

CONSTANT BlockMax   \* UINT8_MAX, the largest size of a block

ASSUME BlockMaxAssumption == BlockMax \in Nat \ {0}

\* A column of a row after its first: it extends the last block, or opens one.
VblAddCol(blocks, c) ==
  LET b == Last(blocks)
  IN  IF c = b.col + b.size /\ b.size < BlockMax
        THEN [blocks EXCEPT ![Len(blocks)].size = @ + 1]
        ELSE Append(blocks, [col |-> c, size |-> 1])

\* init_crs.  Every row opens a block, with the column at its row pointer even if
\* the row has no element.
VblInitCrs(crs) ==
  LET RowBlocks(i) ==
        FoldLeft(VblAddCol, <<[col |-> crs.cols[RowBegin(crs, i) + 1], size |-> 1]>>,
                 SubSeq(crs.cols, RowBegin(crs, i) + 2, RowEnd(crs, i)))
  IN  [rowptr |-> crs.rowptr, vals |-> crs.vals,
       blocks |-> FlattenSeq([i \in 1..NrRows(crs) |-> RowBlocks(i - 1)])]

\* Its assertion: the blocks fit in arrays of nz elements.  It is looked at after each
\* row, when a block too many has already been written behind the arrays.
VblLoads(crs) == Len(VblInitCrs(crs).blocks) <= Len(crs.vals)

Outside == "outside"   \* what is read of the values beyond their end

\* The loop over the blocks of row i, from block blk on (counted from zero): the
\* products, and the next block.  It goes by the sizes of the blocks alone.  (Each
\* turn reads the size of the next block ahead, after the last block one that is not
\* there; that number is never used.)
VblRow(vbl, i, blk) ==
  LET Value(k) == IF k \in DOMAIN vbl.vals THEN vbl.vals[k] ELSE Outside
      Step(acc, k) ==
        LET b == vbl.blocks[acc.blk + 1]
        IN  IF acc.j >= RowEnd(vbl, i) THEN acc
            ELSE [j |-> acc.j + b.size, blk |-> acc.blk + 1,
                  terms |-> acc.terms \o
                    [m \in 1..b.size |-> <<Value(acc.j + m), b.col + m - 1>>]]
  IN  FoldLeft(Step, [j |-> RowBegin(vbl, i), blk |-> blk, terms |-> <<>>],
               [k \in 1..RowCount(vbl, i) |-> k])

VblMultiply(vbl, part, y) ==
  LET Row(acc, i) ==
        LET row == VblRow(vbl, i, acc.blk)
        IN  [y |-> [acc.y EXCEPT ![i] = row.terms], blk |-> row.blk]
  IN  FoldLeft(Row, [y |-> y, blk |-> part.bstart],
               [i \in 1..(part.end - part.begin) |-> part.begin + i - 1]).y

\* Does a part of the product read no value beyond the end.
VblReadsInside(vbl, part) ==
  LET rows == part.begin..(part.end - 1)
      terms == VblMultiply(vbl, part, [i \in rows |-> <<>>])
  IN  \A i \in rows : \A m \in DOMAIN terms[i] : terms[i][m][1] # Outside

\* split: the parts, and the block each starts with.  The last takes all that is
\* left.  What is read of splits[] must have been written: see SplitInBounds.
VblMtEnds(vbl, n) == SplitEnds([i \in 1..NrRows(vbl) |-> RowCount(vbl, i - 1)], n)

VblMtParts(vbl, n) ==
  LET ends == Append(SubSeq(VblMtEnds(vbl, n), 1, n - 1), NrRows(vbl))
      BlocksBefore(r) == FoldLeft(LAMBDA blk, i : VblRow(vbl, i, blk).blk, 0,
                                  [i \in 1..r |-> i - 1])
  IN  [t \in 1..n |->
         [begin |-> PartsUpTo(ends)[t].begin, end |-> ends[t],
          bstart |-> BlocksBefore(PartsUpTo(ends)[t].begin),
          bend |-> IF t = n THEN Len(vbl.blocks) ELSE BlocksBefore(ends[t])]]
=============================================================================
