--------------------------- MODULE MCSpmTransform ---------------------------
(* TLC instance of SpmTransform: every square, wide and tall matrix of up  *)
(* to nine entries, and orders of every kind with block sizes that divide  *)
(* the dimension and that do not.                                          *)
EXTENDS SpmTransform

MCShapes == {<<3, 3>>, <<2, 4>>, <<4, 2>>}
MCOrders == {HORIZONTAL, VERTICAL, DIAGONAL, REV_DIAGONAL,
             BLOCK_R(1), BLOCK_R(2), BLOCK_R(3), BLOCK_C(2), BLOCK_C(4)}
=============================================================================
