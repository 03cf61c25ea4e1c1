---------------------------- MODULE MCSpmvSymMt -----------------------------
(* TLC instance of SpmvSymMt: three threads, four rows.                    *)
EXTENDS SpmvSymMt

MCPartitions == {<<0, 2, 3>>, <<0, 1, 2>>}
=============================================================================
