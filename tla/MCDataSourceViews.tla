------------------------- MODULE MCDataSourceViews -------------------------
(* A data source, a view over it and a Report over both.                   *)
EXTENDS DataSourceViews, DependencyResolverCheck

CONSTANTS d1, v1, q1, q2, q3, r1

Input(name, d) == [name |-> name, type |-> "ReportDataSource", default |-> d]

ReadsD1 == [q \in Queries |-> <<Input("a", d1)>>]
UseQ1 == [x \in Views \cup Reports |-> q1]
SameNames == [v \in Views |-> QueryOf[v]]
NoViewInputs == [v \in Views |-> NoInputs]

(* The query comes late and a call may fail, over both kinds of data       *)
(* source; and data sources with finalizers, where no call fails.          *)
LateQuery(kind) == [kind |-> kind, late |-> {q1}, enableFinalizers |-> FALSE, maxFaults |-> 1]
ThreeSetups ==
  { LateQuery("aws"), LateQuery("prestoTable"),
    [kind |-> "aws", late |-> {}, enableFinalizers |-> TRUE, maxFaults |-> 0] }

(* Chains of three queries, and two queries with two inputs each.          *)
DeepAndWide == { [queries |-> {q1, q2, q3}, maxInputs |-> 1], [queries |-> {q1, q2}, maxInputs |-> 2] }

ByObject(x) == x

(* What exists, of what a resolution may name (and TLC evaluates the two   *)
(* functions here, once for all states).                                   *)
Deps == [ queries : SUBSET Queries, dataSources : SUBSET DataSources, reports : SUBSET Reports,
          inputValues : SUBSET {"a"}, err : {"none", "notFound", "cycle", "invalid"} ]

ASSUME DepsAssumption ==
  QueryDeps \in [World -> [Queries -> Deps]] /\ ViewDeps \in [World -> [Views -> Deps]]

(* Whatever the queries refer to, and with the data sources and Reports    *)
(* that exist now, a query is resolved only with everything it refers to,  *)
(* directly or not: a Report never runs without a dependency that it has   *)
(* to wait for (dependencies.go:89).                                       *)
ResolvesEverything == NotResolved[Existing(obj) \cap SomeDataSources, reports \cap SomeReports] = {}

(* Likewise, a resolution fails only for a reason: an object that is       *)
(* missing, a cycle, or an input that the query does not define.  What     *)
(* refers back to itself always fails instead of recursing for ever, and   *)
(* nothing else is called a cycle (dependencies.go:96).                    *)
FailsWithReason == NoReason[Existing(obj) \cap SomeDataSources, reports \cap SomeReports] = {}
============================================================================
