------------------------- MODULE MCTableLifecycle -------------------------
(* The table lifecycle on small instances.                                 *)
EXTENDS TableLifecycle

(* One data source with its HiveTable and PrestoTable; two data sources of *)
(* one name, one after the other, with their views; four PrestoTables.     *)
Generations == [hive |-> 3, view |-> 4, ctas |-> 4]

(* The steps at which a fault is tried: all but the creation of the        *)
(* PrestoTable of a HiveTable, which no sync repeats (hivetables.go:186).  *)
Repeated == Steps \ {"idle", "createPrestoTable"}
===========================================================================
