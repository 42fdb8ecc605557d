--------------------------- MODULE MCStorageQueue ---------------------------
(* StorageQueue on small instances.                                        *)
EXTENDS StorageQueue

CONSTANTS c1, c2, k1, k2, s1, s2

=============================================================================
