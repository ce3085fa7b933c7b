------------------------- MODULE DependencyResolver -------------------------
(***************************************************************************)
(* What a ReportQuery depends on: ResolveDependencies of                   *)
(* pkg/operator/reporting/dependencies.go, as a function of the objects    *)
(* its getters find.                                                       *)
(*                                                                         *)
(* "objects" is a record of what exists: the input definitions of each     *)
(* ReportQuery, the query of each ReportDataSource that is a view (Null    *)
(* for the other kinds), and the query of each Report.  An input has a     *)
(* name, a type and a default, all but references to objects being of      *)
(* type "value"; the ones that cannot be parsed are of type "malformed".   *)
(***************************************************************************)
EXTENDS Integers, Sequences, FiniteSets

CONSTANTS
  Null,      \* no value
  maxDepth   \* of nested queries

ASSUME ResolverAssumption == maxDepth \in Nat

(* resolverContext, and the error that ends the resolution.                *)
NewContext == [queries |-> {}, dataSources |-> {}, reports |-> {}, inputValues |-> {}, err |-> "none"]

Failed(ctx, err) == [ctx EXCEPT !.err = err]

NoInputs == [name \in {} |-> Null]

(***************************************************************************)
(* The functions of the resolver call each other down to a depth.  They    *)
(* are given what resolveQuery returns for the calls past its checks.      *)
(***************************************************************************)
resolveQuery(objects, ctx, q, depth, resolved) ==
  IF q \in ctx.queries THEN ctx
  ELSE IF q \notin DOMAIN objects.queries THEN Failed(ctx, "notFound")
  ELSE resolved[[ctx |-> ctx, query |-> q, depth |-> depth]]

resolveDataSource(objects, ctx, d, depth, resolved) ==
  IF d \in ctx.dataSources THEN ctx
  ELSE IF d \notin DOMAIN objects.dataSources THEN Failed(ctx, "notFound")
  ELSE LET q == objects.dataSources[d]
           c == IF q = Null THEN ctx ELSE resolveQuery(objects, ctx, q, depth, resolved)
       IN  IF c.err # "none" THEN c ELSE [c EXCEPT !.dataSources = @ \cup {d}]

resolveReport(objects, ctx, r, depth, resolved) ==
  IF r \in ctx.reports THEN ctx
  ELSE IF r \notin DOMAIN objects.reports THEN Failed(ctx, "notFound")
  ELSE LET c == resolveQuery(objects, ctx, objects.reports[r], depth, resolved)
       IN  IF c.err # "none" THEN c ELSE [c EXCEPT !.reports = @ \cup {r}]

InputValue_default(def, vals) == def.default

(* The value given, or else the default.                                   *)
InputValue(def, vals) ==
  IF def.name \in DOMAIN vals /\ vals[def.name] # Null THEN vals[def.name] ELSE def.default

(* One input definition; one of a name that has a value is passed over.    *)
resolveInput(objects, ctx, def, vals, depth, resolved) ==
  LET value == InputValue(def, vals)
      c == CASE def.type = "ReportQuery"      -> resolveQuery(objects, ctx, value, depth, resolved)
             [] def.type = "ReportDataSource" -> resolveDataSource(objects, ctx, value, depth, resolved)
             [] def.type = "Report"           -> resolveReport(objects, ctx, value, depth, resolved)
             [] def.type = "malformed"        -> Failed(ctx, "invalid")
             [] OTHER                         -> ctx
  IN  IF ctx.err # "none" \/ def.name \in ctx.inputValues \/ value = Null THEN ctx
      ELSE IF c.err # "none" THEN c ELSE [c EXCEPT !.inputValues = @ \cup {def.name}]

DepthExceeded_early(depth) == depth + 1 >= maxDepth

DepthExceeded(depth) == depth >= maxDepth

(* The context after each of the input definitions, one after the other.   *)
inputsResolved(objects, ctx, defs, vals, depth, resolved) ==
  LET after[n \in 0..Len(defs)] ==
        IF n = 0 THEN ctx ELSE resolveInput(objects, after[n - 1], defs[n], vals, depth, resolved)
  IN  after

resolveDependencies(objects, ctx, defs, vals, depth, resolved) ==
  IF DepthExceeded(depth) THEN Failed(ctx, "cycle")
  ELSE IF ~(DOMAIN vals \subseteq {defs[i].name : i \in DOMAIN defs}) THEN Failed(ctx, "invalid")
  ELSE inputsResolved(objects, ctx, defs, vals, depth + 1, resolved)[Len(defs)]

InputNames(objects) ==
  UNION {{objects.queries[q][i].name : i \in DOMAIN objects.queries[q]} : q \in DOMAIN objects.queries}

Contexts(objects) ==
  [ queries : SUBSET DOMAIN objects.queries, dataSources : SUBSET DOMAIN objects.dataSources,
    reports : SUBSET DOMAIN objects.reports, inputValues : SUBSET InputNames(objects),
    err : {"none", "notFound", "cycle", "invalid"} ]

(* The calls of resolveQuery that get past its checks.                     *)
Calls(objects) == [ctx : Contexts(objects), query : DOMAIN objects.queries, depth : 0..maxDepth]

(* What they return.  The inputs given to the outermost query are not      *)
(* those of the others.                                                    *)
queriesResolved(objects) ==
  LET resolved[call \in Calls(objects)] ==
        LET c == resolveDependencies(objects, call.ctx, objects.queries[call.query], NoInputs,
                                     call.depth, resolved)
        IN  IF c.err # "none" THEN c ELSE [c EXCEPT !.queries = @ \cup {call.query}]
  IN  resolved

ResolveDependencies(objects, defs, vals) ==
  resolveDependencies(objects, NewContext, defs, vals, 0, queriesResolved(objects))

(* getQueryDependencies                                                    *)
getQueryDependencies(objects, q, vals) ==
  IF q \in DOMAIN objects.queries THEN ResolveDependencies(objects, objects.queries[q], vals)
  ELSE Failed(NewContext, "notFound")
=============================================================================
