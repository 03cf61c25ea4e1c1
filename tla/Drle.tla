-------------------------------- MODULE Drle --------------------------------
(***************************************************************************)
(* The run-length encoder of csx/drle.cc (DRLE_Manager), one row at a      *)
(* time.  An element's item has the values it holds, each standing for the *)
(* matrix entry it belongs to, and a pattern; an element without pattern   *)
(* holds one value.  delta is the column distance between the elements of  *)
(* a pattern; other is a block's second dimension.                         *)
(***************************************************************************)
EXTENDS SpmMatrix

CONSTANTS
  MinLimit,  \* shortest run worth a pattern (min_limit_)
  MaxLimit   \* longest pattern (max_limit_)

ASSUME LimitsAssumption ==
  MinLimit \in Nat /\ MaxLimit \in Nat /\ 2 <= MinLimit /\ MinLimit <= MaxLimit

NoPattern == [order |-> <<"NONE", 0>>, delta |-> 0, size |-> 1, other |-> 0]

DeltaRLE(size, delta, t) == [order |-> t, delta |-> delta, size |-> size, other |-> 0]
BlockRLE(size, other, t) == [order |-> t, delta |-> 1, size |-> size, other |-> other]

Element(x, val) == [x |-> x, item |-> [pattern |-> NoPattern, vals |-> <<val>>]]
HasPattern(e) == e.item.pattern # NoPattern

\* Faulty variant: the last value is not copied.
Unit_OneShort(group, i, pattern) ==
  [x |-> group[i].x,
   item |-> [pattern |-> pattern,
             vals |-> [k \in 1..(pattern.size - 1) |-> group[i + k - 1].item.vals[1]]]]

\* Elements i .. i+n-1 of a group as one pattern, and as single elements.
Unit(group, i, pattern) ==
  [x |-> group[i].x,
   item |-> [pattern |-> pattern,
             vals |-> [k \in 1..pattern.size |-> group[i + k - 1].item.vals[1]]]]
Singles(group, i, n) == SubSeq(group, i, i + n - 1)

\* DeltaEncode: the distance of an element to the one before it, of the first
\* one its column.
Distance(group, i) == IF i = 1 THEN group[1].x ELSE group[i].x - group[i - 1].x

\* One more element: in the last run, or in a run of its own.
WithDistance(runs, i, distance) ==
  IF runs # <<>> /\ Last(runs).val = distance
    THEN [runs EXCEPT ![Len(runs)].to = i]
    ELSE Append(runs, [from |-> i, val |-> distance, to |-> i])

\* RLEncode: the maximal stretches from .. to of elements with the same distance.
Runs(group) ==
  LET rles[i \in 0..Len(group)] ==
        IF i = 0 THEN <<>> ELSE WithDistance(rles[i - 1], i, Distance(group, i))
  IN  rles[Len(group)]

-----------------------------------------------------------------------------
(* DoEncode: runs along the row.                                           *)

\* A run whose distance is to be encoded takes in the element before it unless
\* that one already ends a pattern.  It is cut in patterns of MaxLimit; what is
\* left becomes a pattern if it has MinLimit elements, else single elements.
EncodeRun(group, deltas, t, encoded, run) ==
  LET freq == run.to - run.from + 1
      takesPrevious == run.from > 1 /\ ~HasPattern(Last(encoded))
      start == IF takesPrevious THEN run.from - 1 ELSE run.from
      before == IF takesPrevious THEN Front(encoded) ELSE encoded
      n == run.to - start + 1
      whole == n \div MaxLimit
      rest == n % MaxLimit
      Chunk(k) == Unit(group, start + (k - 1) * MaxLimit, DeltaRLE(MaxLimit, run.val, t))
      tail == start + whole * MaxLimit
  IN  IF freq = 1 \/ run.val \notin deltas
        THEN encoded \o Singles(group, run.from, freq)
        ELSE before \o [k \in 1..whole |-> Chunk(k)]
               \o (IF rest >= MinLimit
                     THEN <<Unit(group, tail, DeltaRLE(rest, run.val, t))>>
                     ELSE Singles(group, tail, rest))

-----------------------------------------------------------------------------
(* DoEncodeBlock, DoEncodeBlockAlt: a run of distance 1 in a block order   *)
(* holds the block's rows (columns) of align elements one after the other. *)

\* The part of a run that fills whole rows of the block: it starts at the first
\* element on a multiple of align and has a multiple of align elements.
Aligned(group, run, align) ==
  LET first == IF group[run.from].x = 1 THEN run.from ELSE run.from - 1
      skip == (align - ((group[first].x - 1) % align)) % align
      n == run.to - first + 1
      usable == IF n > skip THEN n - skip ELSE 0
  IN  [first |-> first, from |-> first + skip, n |-> usable - (usable % align)]

\* The row before the run, then the run's head, its blocks and its tail.
WithBlocks(group, run, encoded, part, blocks, done) ==
  (IF part.first < run.from THEN Front(encoded) ELSE encoded)
    \o Singles(group, part.first, part.from - part.first)
    \o blocks
    \o Singles(group, done, run.to - done + 1)

\* Blocks of the run's own size, or of the largest size MaxLimit allows.
EncodeBlockRun(group, dims, t, encoded, run) ==
  LET align == IsBlockType(t)
      part == Aligned(group, run, align)
      limit == (MaxLimit \div align) * align
      size == IF part.n < limit THEN part.n ELSE limit
      count == IF part.n < limit THEN 1 ELSE part.n \div limit
      Block(k) == Unit(group, part.from + (k - 1) * size, BlockRLE(size, size \div align, t))
  IN  IF run.val = 1 /\ (part.n \div align) \in dims /\ part.n >= 2 * align
        THEN WithBlocks(group, run, encoded, part, [k \in 1..count |-> Block(k)],
                        part.from + count * size)
        ELSE encoded \o Singles(group, run.from, run.to - run.from + 1)

\* As many blocks of so many rows (columns) as fit in what is left of the run.
WithBlocksOf(group, t, split, dim) ==
  LET align == IsBlockType(t)
      count == split.left \div dim
      Block(k) == Unit(group, split.from + (k - 1) * (dim * align), BlockRLE(dim * align, dim, t))
  IN  [from |-> split.from + count * (dim * align), left |-> split.left - count * dim,
       blocks |-> split.blocks \o [k \in 1..count |-> Block(k)]]

\* Blocks of the sizes in dims only, the largest ones first.
EncodeBlockAltRun(group, dims, t, encoded, run) ==
  LET align == IsBlockType(t)
      part == Aligned(group, run, align)
      all == part.n \div align
      split[k \in 0..all] ==
        IF k = 0 THEN [from |-> part.from, left |-> all, blocks |-> <<>>]
        ELSE IF all - k + 1 \in dims THEN WithBlocksOf(group, t, split[k - 1], all - k + 1)
        ELSE split[k - 1]
  IN  IF run.val = 1 /\ part.n >= 2 * align
        THEN WithBlocks(group, run, encoded, part, split[all].blocks, split[all].from)
        ELSE encoded \o Singles(group, run.from, run.to - run.from + 1)

\* One run, in the way of the order.
EncodeAnyRun(group, deltas, t, splitBlocks, encoded, run) ==
  IF IsBlockType(t) = 0 THEN EncodeRun(group, deltas, t, encoded, run)
  ELSE IF splitBlocks THEN EncodeBlockAltRun(group, deltas, t, encoded, run)
  ELSE EncodeBlockRun(group, deltas, t, encoded, run)

DoEncode(group, deltas, t, splitBlocks, encoded) ==
  LET runs == Runs(group)
      after[k \in 0..Len(runs)] ==
        IF k = 0 THEN encoded
        ELSE EncodeAnyRun(group, deltas, t, splitBlocks, after[k - 1], runs[k])
  IN  after[Len(runs)]

\* The single elements since the last pattern are encoded together.
EncodeGroup(acc, deltas, t, splitBlocks) ==
  IF acc.group = <<>> THEN acc.new
  ELSE DoEncode(acc.group, deltas, t, splitBlocks, acc.new)

TakeElem(acc, e, deltas, t, splitBlocks) ==
  IF HasPattern(e)
    THEN [group |-> <<>>, new |-> Append(EncodeGroup(acc, deltas, t, splitBlocks), e)]
    ELSE [acc EXCEPT !.group = Append(@, e)]

EncodeRow(row, deltas, t, splitBlocks) ==
  LET taken[k \in 0..Len(row)] ==
        IF k = 0 THEN [group |-> <<>>, new |-> <<>>]
        ELSE TakeElem(taken[k - 1], row[k], deltas, t, splitBlocks)
  IN  EncodeGroup(taken[Len(row)], deltas, t, splitBlocks)

\* Faulty variant: decoding ignores the distance.
DecodeRow_UnitSteps(row, t) ==
  FlattenSeq([k \in DOMAIN row |->
    IF row[k].item.pattern.order # t THEN <<row[k]>>
    ELSE [j \in 1..row[k].item.pattern.size |-> Element(row[k].x + j - 1, row[k].item.vals[j])]])

\* DecodeRow: only the patterns of the current order are taken apart.
DecodeRow(row, t) ==
  LET DoDecode(e) ==
        [k \in 1..e.item.pattern.size |->
           Element(e.x + (k - 1) * e.item.pattern.delta, e.item.vals[k])]
  IN  FlattenSeq([k \in DOMAIN row |->
        IF row[k].item.pattern.order = t THEN DoDecode(row[k]) ELSE <<row[k]>>])

(* Encode and Decode: in the order t, row by row, and back.                *)
Encoded(m, t, deltas, splitBlocks) ==
  LET w == Transformed(m, t)
      rows == [i \in 1..GetNrRows(w) |-> EncodeRow(Row(w, i), deltas, t, splitBlocks)]
  IN  Transformed(Rebuilt(w, rows), m.type)

Decoded(m, t) ==
  LET w == Transformed(m, t)
  IN  Transformed(Rebuilt(w, [i \in 1..GetNrRows(w) |-> DecodeRow(Row(w, i), t)]), m.type)
=============================================================================
