---------------------------- MODULE MCReportsAPI ----------------------------
(***************************************************************************)
(* A namespace with a Report that clients read, and one without where they *)
(* collect and push metrics.                                               *)
(***************************************************************************)
EXTENDS ReportsAPI

Read(endpoint, format, ignore) ==
  [endpoint |-> endpoint, format |-> format, ignoreFailed |-> ignore, name |-> "", size |-> 0]

(* Formats matter once there are rows, ignoreFailed before.                *)
Reads == { Read(e, f, FALSE) : e \in ReportEndpoints, f \in Formats \ {"other"} } \cup
         { Read(e, "json", TRUE) : e \in ReportEndpoints } \cup { Read("v1", "other", FALSE) }

Write(endpoint, name, size) ==
  [Read(endpoint, "json", FALSE) EXCEPT !.name = name, !.size = size]

Writes == { Write("collect", "", size) : size \in Sizes } \cup
          { Write(e, d, size) : e \in {"collect", "store"}, d \in DataSources, size \in Sizes }

(* Data sources matter where metrics are imported, Reports where they are  *)
(* read.                                                                   *)
ReadOrWrite == { [asked |-> Reads, dataSources |-> {}, reports |-> TRUE],
                 [asked |-> Writes, dataSources |-> DataSources, reports |-> FALSE] }
=============================================================================
