------------------------ MODULE MCStorageLocations ------------------------
(* StorageLocations on small instances.                                    *)
EXTENDS StorageLocations

CONSTANTS s1, s2, u1, u2

Named == [u \in Users |-> IF u = u1 THEN s1 ELSE Null]

PrometheusAndView == [u \in Users |-> IF u = u1 THEN "prometheus" ELSE "view"]
===========================================================================
