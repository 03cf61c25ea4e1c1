-------------------------------- MODULE Bcsr --------------------------------
(***************************************************************************)
(* The BCSR format: aligned dense blocks of r x c elements, built from CSR *)
(* through a cache with room for one block per block column                *)
(* (lib/spm/bcsr/spm_bcsr.c, blocks.c, spm_bcsr_mt.c, mult/).              *)
(***************************************************************************)
EXTENDS Crs

Pad == "pad"   \* a zero that fills a block up

Iceil(a, b) == (a \div b) + (IF a % b # 0 THEN 1 ELSE 0)

\* map_rw: where element (i, j) of a block is stored.
BlkMap(c, i, j) == (i * c) + j

EmptyBlock(r, c) == [k \in 0..((r * c) - 1) |-> Pad]

\* Faulty variant: a block is not cleared when its place in the cache is used again.
CacheAddElem_NoClear(cache, r, c, e) ==
  LET bcol == e.col \div c
  IN  [valid |-> cache.valid \cup {bcol},
       blocks |-> [cache.blocks EXCEPT ![bcol][BlkMap(c, e.row % r, e.col % c)] = e.val]]

\* block_cache_add_elem: the first element of a block clears it.
CacheAddElem(cache, r, c, e) ==
  LET bcol == e.col \div c
      block == IF bcol \in cache.valid THEN cache.blocks[bcol] ELSE EmptyBlock(r, c)
  IN  [valid |-> cache.valid \cup {bcol},
       blocks |-> [cache.blocks EXCEPT ![bcol] =
                     [block EXCEPT ![BlkMap(c, e.row % r, e.col % c)] = e.val]]]

\* Block row b of the matrix goes through the cache.
CacheRow(crs, r, c, cache, b) ==
  LET first == RowBegin(crs, b * r)
      last == RowBegin(crs, Min({(b + 1) * r, NrRows(crs)}))
      RowOf(k) == CHOOSE i \in 0..(NrRows(crs) - 1) : RowBegin(crs, i) < k /\ k <= RowEnd(crs, i)
      Elem(k) == [row |-> RowOf(k), col |-> crs.cols[k], val |-> crs.vals[k]]
  IN  FoldLeft(LAMBDA acc, k : CacheAddElem(acc, r, c, Elem(k)), cache,
               [k \in 1..(last - first) |-> first + k])

\* bcsr_add: the row pointers of the block rows up to brow, and the block.
BcsrAdd(bcsr, brow, bcol, block, r, c) ==
  LET next == Len(bcsr.bcols) * r * c
  IN  [bcsr EXCEPT
        !.rowptr = @ \o [k \in 1..(brow + 1 - Len(@)) |-> next],
        !.bcols = Append(@, bcol * c),
        !.bvals = @ \o [k \in 1..(r * c) |-> block[k - 1]]]

\* init_crs with _fill_bcsr: block row after block row, the valid blocks sorted; the
\* largest padding is allowed, so none is left over.  bcsr_finalize ends the rows.
BcsrInitCrs(crs, ncols, r, c) ==
  LET nbrows == Iceil(NrRows(crs), r)
      cache0 == [valid |-> {}, blocks |-> [b \in 0..(Iceil(ncols, c) - 1) |-> EmptyBlock(r, c)]]
      BlockRow(acc, b) ==
        LET cache == CacheRow(crs, r, c, acc.cache, b)
            bcsr == FoldLeft(LAMBDA m, bcol : BcsrAdd(m, b, bcol, cache.blocks[bcol], r, c),
                             acc.bcsr, SetToSortSeq(cache.valid, <))
        IN  [bcsr |-> bcsr, cache |-> [cache EXCEPT !.valid = {}]]
      filled == FoldLeft(BlockRow,
                  [bcsr |-> [rowptr |-> <<>>, bcols |-> <<>>, bvals |-> <<>>], cache |-> cache0],
                  [b \in 1..nbrows |-> b - 1]).bcsr
  IN  [filled EXCEPT !.rowptr = @ \o [k \in 1..(nbrows + 1 - Len(@)) |-> Len(filled.bvals)]]

\* The products of row i * r + k over the blocks of block row i, padding included.
BcsrRow(bcsr, r, c, i, k) ==
  LET Block(m) == [l \in 1..c |->
                     <<bcsr.bvals[(m * r * c) + BlkMap(c, k, l - 1) + 1], bcsr.bcols[m + 1] + l - 1>>]
      first == RowBegin(bcsr, i) \div (r * c)
      count == RowCount(bcsr, i) \div (r * c)
  IN  FlattenSeq([m \in 1..count |-> Block(first + m - 1)])

\* The table of multiply.h: the sizes that have a kernel of their own.
HasKernel(r, c) ==
  <<r, c>> \in ({1} \X (2..8)) \cup ({2} \X (1..4)) \cup ({3} \X (1..3)) \cup ({4} \X (1..2))
               \cup ((5..8) \X {1})

\* Those set the rows of y, the generic kernel adds to them.
BcsrMultiply(bcsr, r, c, part, y) ==
  LET Row(j) == BcsrRow(bcsr, r, c, j \div r, j % r)
  IN  [j \in DOMAIN y |->
         IF part.begin <= j /\ j < part.end
           THEN IF HasKernel(r, c) THEN Row(j) ELSE y[j] \o Row(j)
           ELSE y[j]]

\* Every kernel writes whole block rows: beyond y if the last one is cut off.
BcsrWritesInside(nrows, r) == nrows % r = 0

\* A block is multiplied with c elements of x, padding or not: with elements after the
\* end of x if it is in the last block column and that one is cut off.
BcsrReadsInside(bcsr, ncols, c) == \A m \in DOMAIN bcsr.bcols : bcsr.bcols[m] + c <= ncols

\* split, in block rows; see SplitInBounds.
BcsrMtEnds(bcsr, n) == SplitEnds([i \in 1..NrRows(bcsr) |-> RowCount(bcsr, i - 1)], n)

BcsrMtParts(bcsr, r, n) ==
  LET ends == Append(SubSeq(BcsrMtEnds(bcsr, n), 1, n - 1), NrRows(bcsr))
  IN  PartsUpTo([t \in 1..n |-> ends[t] * r])
=============================================================================
