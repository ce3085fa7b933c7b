---------------------- MODULE DependencyResolverCheck ----------------------
(***************************************************************************)
(* The resolver against the graph of references: every way in which a few  *)
(* ReportQueries, a ReportDataSource and a Report can refer to each other, *)
(* and every input that can be given.                                      *)
(***************************************************************************)
EXTENDS DependencyResolver, SequencesExt

CONSTANTS
  Shapes,                          \* the queries there can be, and their longest list of inputs
  SomeDataSources, SomeReports,    \* the other names in use
  Top,                             \* the query that is resolved
  NameOf(_)                        \* the name of an input with a given default

SomeQueries == UNION {shape.queries : shape \in Shapes}

TypeOf(x) == IF x \in SomeQueries THEN "ReportQuery"
             ELSE IF x \in SomeDataSources THEN "ReportDataSource" ELSE "Report"

Names(shape) == shape.queries \cup SomeDataSources \cup SomeReports

(* Lists of inputs with different names.                                   *)
InputLists(shape) ==
  { [i \in DOMAIN s |-> [name |-> NameOf(s[i]), type |-> TypeOf(s[i]), default |-> s[i]]] :
      s \in {t \in UNION {[1..n -> Names(shape)] : n \in 0..shape.maxInputs} :
               IsInjective([i \in DOMAIN t |-> NameOf(t[i])])} }

Partial(S, T) == UNION {[D -> T] : D \in SUBSET S}

Graphs(shape) ==
  [ queries : {q \in Partial(shape.queries, InputLists(shape)) : Top \in DOMAIN q},
    dataSources : Partial(SomeDataSources, shape.queries \cup {Null}),
    reports : Partial(SomeReports, shape.queries) ]

(* What may be given: nothing, another object of that type, or an input    *)
(* that Top does not define.                                               *)
Given(shape) ==
  {NoInputs} \cup
  UNION { {[name \in {NameOf(x)} |-> y] : y \in {z \in Names(shape) : TypeOf(z) = TypeOf(x)}} :
          x \in shape.queries \cup SomeDataSources }

Cases == UNION { [objects : Graphs(shape), vals : Given(shape)] : shape \in Shapes }

Result(c) == getQueryDependencies(c.objects, Top, c.vals)

-----------------------------------------------------------------------------
Found(c, x) ==
  x \in DOMAIN c.objects.queries \cup DOMAIN c.objects.dataSources \cup DOMAIN c.objects.reports

(* The objects an object refers to: the inputs given count for the         *)
(* outermost query only, which is written Null here.                       *)
InputsTo(c, q, given) ==
  { LET def == c.objects.queries[q][i]
    IN  IF def.name \in DOMAIN given THEN given[def.name] ELSE def.default :
      i \in DOMAIN c.objects.queries[q] }

RefersTo(c, x) ==
  IF x = Null THEN InputsTo(c, Top, c.vals)
  ELSE IF ~Found(c, x) THEN {}
  ELSE IF x \in SomeQueries THEN InputsTo(c, x, NoInputs)
  ELSE IF x \in SomeDataSources THEN {c.objects.dataSources[x]} \ {Null}
  ELSE {c.objects.reports[x]}

(* Everything that can be reached from a set of objects, itself included.  *)
Closure(c, S) ==
  FoldLeft(LAMBDA T, n : T \cup UNION {RefersTo(c, x) : x \in T}, S, [n \in 1..5 |-> n])

Reached(c) == Closure(c, RefersTo(c, Null))

OnCycle(c, x) == x \in Closure(c, RefersTo(c, x))

Resolved(c) ==
  LET result == Result(c)
  IN  result.err = "none" => result.queries \cup result.dataSources \cup result.reports = Reached(c)

HasReason(c) ==
  LET err     == Result(c).err
      cyclic  == \E x \in Reached(c) : OnCycle(c, x)
      missing == \E x \in Reached(c) : ~Found(c, x)
      unknown == \E name \in DOMAIN c.vals :
                   \A i \in DOMAIN c.objects.queries[Top] :
                     c.objects.queries[Top][i].name # name
  IN  /\ err # "none" => cyclic \/ missing \/ unknown
      /\ err = "cycle" => cyclic
      /\ cyclic => err # "none"

(* The cases with certain data sources and Reports that fail one of them.  *)
CasesWith(ds, rs) == {c \in Cases : DOMAIN c.objects.dataSources = ds /\ DOMAIN c.objects.reports = rs}

NotResolved ==
  [ds \in SUBSET SomeDataSources, rs \in SUBSET SomeReports |->
     {c \in CasesWith(ds, rs) : ~Resolved(c)}] @@ NoInputs

NoReason ==
  [ds \in SUBSET SomeDataSources, rs \in SUBSET SomeReports |->
     {c \in CasesWith(ds, rs) : ~HasReason(c)}] @@ NoInputs
============================================================================
