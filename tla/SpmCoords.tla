----------------------------- MODULE SpmCoords ------------------------------
(***************************************************************************)
(* The coordinate transformations of csx/spm.cc.  CSX looks for runs of    *)
(* elements in several directions; to reuse one row-wise search it maps    *)
(* the matrix so that the direction of interest becomes the row direction. *)
(* Coordinates are one-based; a point is a record with fields y (row) and  *)
(* x (column).  An iteration order is a pair of a direction and, for block *)
(* orders, the block's row (column) count.                                 *)
(***************************************************************************)
EXTENDS Integers

HORIZONTAL == <<"HORIZONTAL", 0>>
VERTICAL == <<"VERTICAL", 0>>
DIAGONAL == <<"DIAGONAL", 0>>
REV_DIAGONAL == <<"REV_DIAGONAL", 0>>
BLOCK_R(r) == <<"BLOCK_R", r>>
BLOCK_C(c) == <<"BLOCK_C", c>>

BlockSizes == 1..8
IterOrders == {HORIZONTAL, VERTICAL, DIAGONAL, REV_DIAGONAL}
                \cup {BLOCK_R(r) : r \in BlockSizes} \cup {BLOCK_C(c) : c \in BlockSizes}

\* The block alignment of an order, 0 when it is not a block order.
IsBlockType(t) == t[2]

Point(y, x) == [y |-> y, x |-> x]

(* pnt_map_*: from the matrix to the order.                                *)
MapV(p) == Point(p.x, p.y)

MapD(p, nrows) == Point(nrows + p.x - p.y, IF p.x < p.y THEN p.x ELSE p.y)

MapRD(p, ncols) ==
  LET dy == p.x + p.y - 1
  IN  Point(dy, IF dy <= ncols THEN p.y ELSE ncols + 1 - p.x)

\* Faulty variant: the row is multiplied by r, not divided by it.
MapBR_RowTimesR(p, r) == Point((p.y - 1) * r + 1, ((p.y - 1) % r) + r * (p.x - 1) + 1)

MapBR(p, r) == Point(((p.y - 1) \div r) + 1, ((p.y - 1) % r) + r * (p.x - 1) + 1)

\* The macro maps src to dst and then src again; it is only ever bound with
\* src and dst the same element, so the two maps compose.
MapBC(p, c) == MapBR(MapV(p), c)

(* pnt_rmap_*: from the order back to the matrix.                          *)
RMapV(p) == MapV(p)

RMapD(p, nrows) ==
  IF p.y < nrows THEN Point(nrows + p.x - p.y, p.x)
                 ELSE Point(p.x, p.y + p.x - nrows)

\* Faulty variant: the columns of the lower right triangle are not turned.
RMapRD_OneTriangle(p, ncols) == Point(p.x, p.y + 1 - p.x)

RMapRD(p, ncols) ==
  LET x == IF p.y <= ncols THEN p.y + 1 - p.x ELSE ncols + 1 - p.x
  IN  Point(p.y - x + 1, x)

RMapBR(p, r) == Point(r * (p.y - 1) + ((p.x - 1) % r) + 1, ((p.x - 1) \div r) + 1)

RMapBC(p, c) == RMapV(RMapBR(p, c))

(* GetXformFn, GetRevXformFn and their composition GetTransformFn.         *)
Xform(t, p, nrows, ncols) ==
  CASE t[1] = "HORIZONTAL"   -> Point(p.y, p.x)
    [] t[1] = "VERTICAL"     -> MapV(p)
    [] t[1] = "DIAGONAL"     -> MapD(p, nrows)
    [] t[1] = "REV_DIAGONAL" -> MapRD(p, ncols)
    [] t[1] = "BLOCK_R"      -> MapBR(p, t[2])
    [] t[1] = "BLOCK_C"      -> MapBC(p, t[2])

RevXform(t, p, nrows, ncols) ==
  CASE t[1] = "HORIZONTAL"   -> Point(p.y, p.x)
    [] t[1] = "VERTICAL"     -> RMapV(p)
    [] t[1] = "DIAGONAL"     -> RMapD(p, nrows)
    [] t[1] = "REV_DIAGONAL" -> RMapRD(p, ncols)
    [] t[1] = "BLOCK_R"      -> RMapBR(p, t[2])
    [] t[1] = "BLOCK_C"      -> RMapBC(p, t[2])

TransformFn(from, to, p, nrows, ncols) ==
  Xform(to, RevXform(from, p, nrows, ncols), nrows, ncols)

\* The entry that is k columns after p in p's row of the order, as the generated
\* kernels walk it (csx/mult_templates): block rows (columns) one by one.
Along(t, p, k) ==
  CASE t[1] = "HORIZONTAL"   -> Point(p.y, p.x + k)
    [] t[1] = "VERTICAL"     -> Point(p.y + k, p.x)
    [] t[1] = "DIAGONAL"     -> Point(p.y + k, p.x + k)
    [] t[1] = "REV_DIAGONAL" -> Point(p.y + k, p.x - k)
    [] t[1] = "BLOCK_R"      -> Point(p.y + (k % t[2]), p.x + (k \div t[2]))
    [] t[1] = "BLOCK_C"      -> Point(p.y + (k \div t[2]), p.x + (k % t[2]))
=============================================================================
