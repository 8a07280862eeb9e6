--------------------------- MODULE MCStorageSweep ---------------------------
(* Instances of StorageSweep for TLC.                                      *)
EXTENDS StorageSweep

CONSTANTS w1, w2
=============================================================================
