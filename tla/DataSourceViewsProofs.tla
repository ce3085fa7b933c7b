----------------------- MODULE DataSourceViewsProofs -----------------------
(***************************************************************************)
(* What the resolver of dependencies returns, whatever the objects refer   *)
(* to, and what it is good for: views are only created over data sources   *)
(* that have their tables.                                                 *)
(***************************************************************************)
EXTENDS DataSourceViews, WellFoundedInduction, TLAPS

-----------------------------------------------------------------------------
(***************************************************************************)
(* The two recursive functions of the resolver satisfy the equations of    *)
(* their definitions, because some function does: over the inputs of one   *)
(* query from the first to the last, and over nested queries from the      *)
(* deepest to the outermost.                                               *)
(***************************************************************************)

(* A set of numbers with 0 and the successor of each of them.              *)
LEMMA Induction ==
  ASSUME NEW T, 0 \in T, \A n \in Nat : n \in T => n + 1 \in T
  PROVE  Nat \subseteq T
  <1> SUFFICES ASSUME Nat \ T # {}
               PROVE  FALSE
    OBVIOUS
  <1>1. \E R : IsWellFoundedOn(R, Nat) /\ \A x, y \in Nat : y < x => <<y, x>> \in R
    <2>1. \A x, y \in Nat : y < x => <<y, x>> \in OpToRel(<, Nat)
      BY DEF OpToRel
    <2> QED BY <2>1, NatLessThanWellFounded, Zenon
  <1>2. PICK R : IsWellFoundedOn(R, Nat) /\ \A x, y \in Nat : y < x => <<y, x>> \in R
    BY <1>1
  <1>3. PICK x \in Nat \ T : \A y \in Nat \ T : ~ (<<y, x>> \in R)
    BY <1>2, WFMin
  <1>4. x - 1 \in Nat /\ x - 1 < x /\ (x - 1) + 1 = x
    OBVIOUS
  <1> QED BY <1>2, <1>3, <1>4

(* The contexts after the first n inputs.                                  *)
After(h, n, objects, ctx, defs, vals, depth, f) ==
  h = [m \in 0..n |-> IF m = 0 THEN ctx
                      ELSE resolveInput(objects, h[m - 1], defs[m], vals, depth, f)]

LEMMA AfterExists ==
  ASSUME NEW objects, NEW ctx, NEW defs, NEW vals, NEW depth, NEW f, NEW n \in Nat
  PROVE  \E h : After(h, n, objects, ctx, defs, vals, depth, f)
  <1> DEFINE T == {k \in Nat : \E h : After(h, k, objects, ctx, defs, vals, depth, f)}
  <1>1. 0 \in T
    <2>1. After([m \in 0..0 |-> ctx], 0, objects, ctx, defs, vals, depth, f)
      BY DEF After
    <2> QED BY <2>1
  <1>2. ASSUME NEW k \in Nat, k \in T
        PROVE  k + 1 \in T
    <2>1. PICK h : After(h, k, objects, ctx, defs, vals, depth, f)
      BY <1>2
    <2> DEFINE g == [m \in 0..(k + 1) |->
                       IF m <= k THEN h[m] ELSE resolveInput(objects, h[k], defs[k + 1], vals, depth, f)]
    <2>2. ASSUME NEW m \in 0..(k + 1)
          PROVE  g[m] = IF m = 0 THEN ctx ELSE resolveInput(objects, g[m - 1], defs[m], vals, depth, f)
      <3>1. CASE m = 0
        BY <2>1, <3>1 DEF After
      <3>2. CASE m # 0 /\ m <= k
        <4>1. m \in 0..k /\ m - 1 \in 0..(k + 1) /\ m - 1 <= k
          BY <3>2
        <4>2. g[m] = h[m] /\ g[m - 1] = h[m - 1]
          BY <3>2, <4>1
        <4>3. h[m] = resolveInput(objects, h[m - 1], defs[m], vals, depth, f)
          BY <2>1, <3>2, <4>1 DEF After
        <4> QED BY <3>2, <4>2, <4>3
      <3>3. CASE m = k + 1
        <4>1. k \in 0..(k + 1) /\ k <= k /\ ~(k + 1 <= k) /\ m - 1 = k /\ m # 0
          BY <3>3
        <4>2. g[m] = resolveInput(objects, h[k], defs[k + 1], vals, depth, f) /\ g[k] = h[k]
          BY <3>3, <4>1
        <4> QED BY <3>3, <4>1, <4>2
      <3> QED BY <3>1, <3>2, <3>3
    <2>3. g = [m \in 0..(k + 1) |-> IF m = 0 THEN ctx
                                    ELSE resolveInput(objects, g[m - 1], defs[m], vals, depth, f)]
      BY <2>2
    <2> HIDE DEF g
    <2>4. After(g, k + 1, objects, ctx, defs, vals, depth, f)
      BY <2>3 DEF After
    <2> QED BY <2>4
  <1> HIDE DEF T
  <1>3. n \in T
    BY <1>1, <1>2, Induction
  <1> QED BY <1>3 DEF T

LEMMA InputsResolved ==
  ASSUME NEW objects, NEW ctx, NEW defs, NEW vals, NEW depth, NEW f, Len(defs) \in Nat
  PROVE  /\ inputsResolved(objects, ctx, defs, vals, depth, f)[0] = ctx
         /\ \A n \in 1..Len(defs) :
              inputsResolved(objects, ctx, defs, vals, depth, f)[n]
                = resolveInput(objects, inputsResolved(objects, ctx, defs, vals, depth, f)[n - 1],
                               defs[n], vals, depth, f)
  <1> DEFINE a == inputsResolved(objects, ctx, defs, vals, depth, f)
  <1>1. PICK h : After(h, Len(defs), objects, ctx, defs, vals, depth, f)
    BY AfterExists
  <1>2. After(a, Len(defs), objects, ctx, defs, vals, depth, f)
    BY <1>1 DEF After, inputsResolved
  <1> HIDE DEF a
  <1>3. a[0] = ctx
    BY <1>2 DEF After
  <1>4. ASSUME NEW n \in 1..Len(defs)
        PROVE  a[n] = resolveInput(objects, a[n - 1], defs[n], vals, depth, f)
    BY <1>2 DEF After
  <1> QED BY <1>3, <1>4 DEF a

-----------------------------------------------------------------------------
(* What each function returns when the nested calls return contexts.       *)

WellFormed(objects) ==
  \A q \in DOMAIN objects.queries :
    Len(objects.queries[q]) \in Nat /\ DOMAIN objects.queries[q] = 1..Len(objects.queries[q])

(* The calls of a depth return contexts, or the same for two functions.    *)
TypedAt(objects, k, f) ==
  \A call \in Calls(objects) : call.depth = k => f[call] \in Contexts(objects)

SameAt(objects, k, f, g) ==
  \A call \in Calls(objects) : call.depth = k => f[call] = g[call]

LEMMA FailedIsContext ==
  ASSUME NEW objects, NEW c \in Contexts(objects), NEW e \in {"notFound", "cycle", "invalid"}
  PROVE  Failed(c, e) \in Contexts(objects)
  BY DEF Failed, Contexts

LEMMA ContextGrows ==
  ASSUME NEW objects, NEW c \in Contexts(objects)
  PROVE  /\ \A q \in DOMAIN objects.queries :
              [c EXCEPT !.queries = @ \cup {q}] \in Contexts(objects)
         /\ \A d \in DOMAIN objects.dataSources :
              [c EXCEPT !.dataSources = @ \cup {d}] \in Contexts(objects)
         /\ \A r \in DOMAIN objects.reports :
              [c EXCEPT !.reports = @ \cup {r}] \in Contexts(objects)
         /\ \A name \in InputNames(objects) :
              [c EXCEPT !.inputValues = @ \cup {name}] \in Contexts(objects)
  <1> DEFINE Q == DOMAIN objects.queries
             D == DOMAIN objects.dataSources
             R == DOMAIN objects.reports
             N == InputNames(objects)
  <1>1. c \in [ queries : SUBSET Q, dataSources : SUBSET D, reports : SUBSET R,
                inputValues : SUBSET N, err : {"none", "notFound", "cycle", "invalid"} ]
    BY DEF Contexts
  <1> HIDE DEF Q, D, R, N
  <1>2. /\ \A q \in Q : [c EXCEPT !.queries = @ \cup {q}]
                          \in [ queries : SUBSET Q, dataSources : SUBSET D, reports : SUBSET R,
                                inputValues : SUBSET N, err : {"none", "notFound", "cycle", "invalid"} ]
        /\ \A d \in D : [c EXCEPT !.dataSources = @ \cup {d}]
                          \in [ queries : SUBSET Q, dataSources : SUBSET D, reports : SUBSET R,
                                inputValues : SUBSET N, err : {"none", "notFound", "cycle", "invalid"} ]
        /\ \A r \in R : [c EXCEPT !.reports = @ \cup {r}]
                          \in [ queries : SUBSET Q, dataSources : SUBSET D, reports : SUBSET R,
                                inputValues : SUBSET N, err : {"none", "notFound", "cycle", "invalid"} ]
        /\ \A n \in N : [c EXCEPT !.inputValues = @ \cup {n}]
                          \in [ queries : SUBSET Q, dataSources : SUBSET D, reports : SUBSET R,
                                inputValues : SUBSET N, err : {"none", "notFound", "cycle", "invalid"} ]
    BY <1>1
  <1> QED BY <1>2 DEF Contexts, Q, D, R, N

LEMMA CallOf ==
  ASSUME NEW objects, NEW c \in Contexts(objects), NEW q \in DOMAIN objects.queries,
         NEW k \in 0..maxDepth
  PROVE  /\ [ctx |-> c, query |-> q, depth |-> k] \in Calls(objects)
         /\ [ctx |-> c, query |-> q, depth |-> k].ctx = c
         /\ [ctx |-> c, query |-> q, depth |-> k].query = q
         /\ [ctx |-> c, query |-> q, depth |-> k].depth = k
  BY DEF Calls

LEMMA QueryTyped ==
  ASSUME NEW objects, NEW c \in Contexts(objects), NEW k \in 0..maxDepth, NEW f,
         TypedAt(objects, k, f), NEW q
  PROVE  resolveQuery(objects, c, q, k, f) \in Contexts(objects)
  <1>1. CASE q \in c.queries
    BY <1>1 DEF resolveQuery
  <1>2. CASE q \notin c.queries /\ q \notin DOMAIN objects.queries
    BY <1>2, FailedIsContext DEF resolveQuery
  <1>3. CASE q \notin c.queries /\ q \in DOMAIN objects.queries
    <2>1. resolveQuery(objects, c, q, k, f) = f[[ctx |-> c, query |-> q, depth |-> k]]
      BY <1>3 DEF resolveQuery
    <2> QED BY <1>3, <2>1, CallOf DEF TypedAt
  <1> QED BY <1>1, <1>2, <1>3

LEMMA DataSourceTyped ==
  ASSUME NEW objects, NEW c \in Contexts(objects), NEW k \in 0..maxDepth, NEW f,
         TypedAt(objects, k, f), NEW d
  PROVE  resolveDataSource(objects, c, d, k, f) \in Contexts(objects)
  <1>1. CASE d \in c.dataSources
    BY <1>1 DEF resolveDataSource
  <1>2. CASE d \notin c.dataSources /\ d \notin DOMAIN objects.dataSources
    BY <1>2, FailedIsContext DEF resolveDataSource
  <1>3. CASE d \notin c.dataSources /\ d \in DOMAIN objects.dataSources
    <2> DEFINE q == objects.dataSources[d]
               x == IF q = Null THEN c ELSE resolveQuery(objects, c, q, k, f)
    <2>1. x \in Contexts(objects)
      BY QueryTyped
    <2>2. resolveDataSource(objects, c, d, k, f)
            = IF x.err # "none" THEN x ELSE [x EXCEPT !.dataSources = @ \cup {d}]
      BY <1>3 DEF resolveDataSource
    <2> HIDE DEF x
    <2> QED BY <1>3, <2>1, <2>2, ContextGrows
  <1> QED BY <1>1, <1>2, <1>3

LEMMA ReportTyped ==
  ASSUME NEW objects, NEW c \in Contexts(objects), NEW k \in 0..maxDepth, NEW f,
         TypedAt(objects, k, f), NEW r
  PROVE  resolveReport(objects, c, r, k, f) \in Contexts(objects)
  <1>1. CASE r \in c.reports
    BY <1>1 DEF resolveReport
  <1>2. CASE r \notin c.reports /\ r \notin DOMAIN objects.reports
    BY <1>2, FailedIsContext DEF resolveReport
  <1>3. CASE r \notin c.reports /\ r \in DOMAIN objects.reports
    <2> DEFINE x == resolveQuery(objects, c, objects.reports[r], k, f)
    <2>1. x \in Contexts(objects)
      BY QueryTyped
    <2>2. resolveReport(objects, c, r, k, f)
            = IF x.err # "none" THEN x ELSE [x EXCEPT !.reports = @ \cup {r}]
      BY <1>3 DEF resolveReport
    <2> HIDE DEF x
    <2> QED BY <1>3, <2>1, <2>2, ContextGrows
  <1> QED BY <1>1, <1>2, <1>3

(* What resolveInput does with a reference.                                *)
Referred(objects, c, def, value, k, f) ==
  CASE def.type = "ReportQuery"      -> resolveQuery(objects, c, value, k, f)
    [] def.type = "ReportDataSource" -> resolveDataSource(objects, c, value, k, f)
    [] def.type = "Report"           -> resolveReport(objects, c, value, k, f)
    [] def.type = "malformed"        -> Failed(c, "invalid")
    [] OTHER                         -> c

LEMMA ResolveInputIs ==
  ASSUME NEW objects, NEW c, NEW def, NEW vals, NEW k, NEW f
  PROVE  resolveInput(objects, c, def, vals, k, f)
           = IF c.err # "none" \/ def.name \in c.inputValues \/ InputValue(def, vals) = Null THEN c
             ELSE IF Referred(objects, c, def, InputValue(def, vals), k, f).err # "none"
             THEN Referred(objects, c, def, InputValue(def, vals), k, f)
             ELSE [Referred(objects, c, def, InputValue(def, vals), k, f)
                     EXCEPT !.inputValues = @ \cup {def.name}]
  BY Zenon DEF resolveInput, Referred

LEMMA ReferredIs ==
  ASSUME NEW objects, NEW c, NEW def, NEW value, NEW k, NEW f
  PROVE  /\ def.type = "ReportQuery" =>
              Referred(objects, c, def, value, k, f) = resolveQuery(objects, c, value, k, f)
         /\ def.type = "ReportDataSource" =>
              Referred(objects, c, def, value, k, f) = resolveDataSource(objects, c, value, k, f)
         /\ def.type = "Report" =>
              Referred(objects, c, def, value, k, f) = resolveReport(objects, c, value, k, f)
         /\ def.type = "malformed" => Referred(objects, c, def, value, k, f) = Failed(c, "invalid")
         /\ def.type \notin {"ReportQuery", "ReportDataSource", "Report", "malformed"} =>
              Referred(objects, c, def, value, k, f) = c
  BY DEF Referred

LEMMA ReferredTyped ==
  ASSUME NEW objects, NEW c \in Contexts(objects), NEW k \in 0..maxDepth, NEW f,
         TypedAt(objects, k, f), NEW def, NEW value
  PROVE  Referred(objects, c, def, value, k, f) \in Contexts(objects)
  <1>1. CASE def.type = "ReportQuery"
    BY <1>1, ReferredIs, QueryTyped
  <1>2. CASE def.type = "ReportDataSource"
    BY <1>2, ReferredIs, DataSourceTyped
  <1>3. CASE def.type = "Report"
    BY <1>3, ReferredIs, ReportTyped
  <1>4. CASE def.type = "malformed"
    BY <1>4, ReferredIs, FailedIsContext
  <1>5. CASE def.type \notin {"ReportQuery", "ReportDataSource", "Report", "malformed"}
    BY <1>5, ReferredIs
  <1> QED BY <1>1, <1>2, <1>3, <1>4, <1>5

LEMMA InputTyped ==
  ASSUME NEW objects, NEW c \in Contexts(objects), NEW k \in 0..maxDepth, NEW f,
         TypedAt(objects, k, f), NEW def, def.name \in InputNames(objects), NEW vals
  PROVE  resolveInput(objects, c, def, vals, k, f) \in Contexts(objects)
  <1> DEFINE x == Referred(objects, c, def, InputValue(def, vals), k, f)
  <1>1. x \in Contexts(objects)
    BY ReferredTyped
  <1> HIDE DEF x
  <1>2. x.err = "none" => [x EXCEPT !.inputValues = @ \cup {def.name}] \in Contexts(objects)
    BY <1>1, ContextGrows
  <1> QED BY <1>1, <1>2, ResolveInputIs DEF x

(* Nested calls that return the same lead to the same.                     *)
LEMMA InputSame ==
  ASSUME NEW objects, NEW c \in Contexts(objects), NEW k \in 0..maxDepth, NEW f, NEW g,
         SameAt(objects, k, f, g), NEW def, NEW vals
  PROVE  resolveInput(objects, c, def, vals, k, f) = resolveInput(objects, c, def, vals, k, g)
  <1>1. ASSUME NEW q
        PROVE  resolveQuery(objects, c, q, k, f) = resolveQuery(objects, c, q, k, g)
    <2>1. CASE q \notin c.queries /\ q \in DOMAIN objects.queries
      <3>1. f[[ctx |-> c, query |-> q, depth |-> k]] = g[[ctx |-> c, query |-> q, depth |-> k]]
        BY <2>1, CallOf DEF SameAt
      <3> QED BY <3>1 DEF resolveQuery
    <2>2. CASE ~(q \notin c.queries /\ q \in DOMAIN objects.queries)
      BY <2>2 DEF resolveQuery
    <2> QED BY <2>1, <2>2
  <1>2. ASSUME NEW d
        PROVE  resolveDataSource(objects, c, d, k, f) = resolveDataSource(objects, c, d, k, g)
    BY <1>1 DEF resolveDataSource
  <1>3. ASSUME NEW r
        PROVE  resolveReport(objects, c, r, k, f) = resolveReport(objects, c, r, k, g)
    BY <1>1 DEF resolveReport
  <1>4. ASSUME NEW value
        PROVE  Referred(objects, c, def, value, k, f) = Referred(objects, c, def, value, k, g)
    BY <1>1, <1>2, <1>3 DEF Referred
  <1> QED BY <1>4, ResolveInputIs

LEMMA NamesOfInputs ==
  ASSUME NEW objects, WellFormed(objects), NEW q \in DOMAIN objects.queries,
         NEW i \in 1..Len(objects.queries[q])
  PROVE  objects.queries[q][i].name \in InputNames(objects)
  BY DEF InputNames, WellFormed

LEMMA InputsTyped ==
  ASSUME NEW objects, WellFormed(objects), NEW c \in Contexts(objects), NEW k \in 0..maxDepth, NEW f,
         TypedAt(objects, k, f), NEW q \in DOMAIN objects.queries, NEW vals,
         NEW n \in 0..Len(objects.queries[q])
  PROVE  inputsResolved(objects, c, objects.queries[q], vals, k, f)[n] \in Contexts(objects)
  <1> DEFINE defs == objects.queries[q]
             a == inputsResolved(objects, c, defs, vals, k, f)
             T == {m \in Nat : m <= Len(defs) => a[m] \in Contexts(objects)}
  <1>1. Len(defs) \in Nat
    BY DEF WellFormed
  <1>2. a[0] = c /\ \A m \in 1..Len(defs) : a[m] = resolveInput(objects, a[m - 1], defs[m], vals, k, f)
    BY <1>1, InputsResolved
  <1> HIDE DEF a
  <1>3. 0 \in T
    BY <1>2
  <1>4. ASSUME NEW m \in Nat, m \in T
        PROVE  m + 1 \in T
    <2>1. CASE m + 1 <= Len(defs)
      <3>1. m + 1 \in 1..Len(defs) /\ (m + 1) - 1 = m /\ m <= Len(defs)
        BY <1>1, <2>1
      <3>2. a[m] \in Contexts(objects)
        BY <1>4, <3>1
      <3>3. a[m + 1] = resolveInput(objects, a[m], defs[m + 1], vals, k, f)
        BY <1>2, <3>1
      <3>4. defs[m + 1].name \in InputNames(objects)
        BY <3>1, NamesOfInputs
      <3>5. a[m + 1] \in Contexts(objects)
        BY <3>2, <3>3, <3>4, InputTyped
      <3> QED BY <3>5
    <2>2. CASE ~(m + 1 <= Len(defs))
      BY <2>2
    <2> QED BY <2>1, <2>2
  <1> HIDE DEF T
  <1>5. n \in Nat /\ n <= Len(defs)
    BY <1>1
  <1>6. n \in T
    BY <1>3, <1>4, <1>5, Induction
  <1> QED BY <1>5, <1>6 DEF T, a

LEMMA InputsSame ==
  ASSUME NEW objects, WellFormed(objects), NEW c \in Contexts(objects), NEW k \in 0..maxDepth, NEW f, NEW g,
         TypedAt(objects, k, f), SameAt(objects, k, f, g), NEW q \in DOMAIN objects.queries, NEW vals,
         NEW n \in 0..Len(objects.queries[q])
  PROVE  inputsResolved(objects, c, objects.queries[q], vals, k, f)[n]
           = inputsResolved(objects, c, objects.queries[q], vals, k, g)[n]
  <1> DEFINE defs == objects.queries[q]
             a == inputsResolved(objects, c, defs, vals, k, f)
             b == inputsResolved(objects, c, defs, vals, k, g)
             T == {m \in Nat : m <= Len(defs) => a[m] = b[m]}
  <1>1. Len(defs) \in Nat
    BY DEF WellFormed
  <1>2. /\ a[0] = c /\ \A m \in 1..Len(defs) : a[m] = resolveInput(objects, a[m - 1], defs[m], vals, k, f)
        /\ b[0] = c /\ \A m \in 1..Len(defs) : b[m] = resolveInput(objects, b[m - 1], defs[m], vals, k, g)
    BY <1>1, InputsResolved
  <1>3. \A m \in 0..Len(defs) : a[m] \in Contexts(objects)
    BY InputsTyped
  <1> HIDE DEF a, b
  <1>4. 0 \in T
    BY <1>2
  <1>5. ASSUME NEW m \in Nat, m \in T
        PROVE  m + 1 \in T
    <2>1. CASE m + 1 <= Len(defs)
      <3>1. m + 1 \in 1..Len(defs) /\ (m + 1) - 1 = m /\ m <= Len(defs) /\ m \in 0..Len(defs)
        BY <1>1, <2>1
      <3>2. a[m] \in Contexts(objects) /\ a[m] = b[m]
        BY <1>3, <1>5, <3>1
      <3>3. /\ a[m + 1] = resolveInput(objects, a[m], defs[m + 1], vals, k, f)
            /\ b[m + 1] = resolveInput(objects, b[m], defs[m + 1], vals, k, g)
        BY <1>2, <3>1
      <3>4. a[m + 1] = b[m + 1]
        BY <3>2, <3>3, InputSame
      <3> QED BY <3>4
    <2>2. CASE ~(m + 1 <= Len(defs))
      BY <2>2
    <2> QED BY <2>1, <2>2
  <1> HIDE DEF T
  <1>6. n \in Nat /\ n <= Len(defs)
    BY <1>1
  <1>7. n \in T
    BY <1>4, <1>5, <1>6, Induction
  <1> QED BY <1>6, <1>7 DEF T, a, b

(* The inputs of an existing query, from its call.                         *)
LEMMA DependenciesTyped ==
  ASSUME NEW objects, WellFormed(objects), NEW c \in Contexts(objects), NEW k \in 0..maxDepth, NEW f,
         TypedAt(objects, k + 1, f), NEW q \in DOMAIN objects.queries, NEW vals
  PROVE  resolveDependencies(objects, c, objects.queries[q], vals, k, f) \in Contexts(objects)
  <1>1. Failed(c, "cycle") \in Contexts(objects) /\ Failed(c, "invalid") \in Contexts(objects)
    BY FailedIsContext
  <1>2. CASE DepthExceeded(k)
    BY <1>1, <1>2 DEF resolveDependencies
  <1>3. CASE ~DepthExceeded(k)
    <2>1. k + 1 \in 0..maxDepth
      BY <1>3, ResolverAssumption DEF DepthExceeded
    <2>2. Len(objects.queries[q]) \in 0..Len(objects.queries[q])
      BY DEF WellFormed
    <2>3. inputsResolved(objects, c, objects.queries[q], vals, k + 1, f)[Len(objects.queries[q])]
            \in Contexts(objects)
      BY <2>1, <2>2, InputsTyped
    <2> QED BY <1>1, <1>3, <2>3 DEF resolveDependencies
  <1> QED BY <1>2, <1>3

LEMMA DependenciesSame ==
  ASSUME NEW objects, WellFormed(objects), NEW c \in Contexts(objects), NEW k \in 0..maxDepth, NEW f, NEW g,
         TypedAt(objects, k + 1, f), SameAt(objects, k + 1, f, g), NEW q \in DOMAIN objects.queries, NEW vals
  PROVE  resolveDependencies(objects, c, objects.queries[q], vals, k, f)
           = resolveDependencies(objects, c, objects.queries[q], vals, k, g)
  <1>1. CASE DepthExceeded(k)
    BY <1>1 DEF resolveDependencies
  <1>2. CASE ~DepthExceeded(k)
    <2>1. k + 1 \in 0..maxDepth
      BY <1>2, ResolverAssumption DEF DepthExceeded
    <2>2. Len(objects.queries[q]) \in 0..Len(objects.queries[q])
      BY DEF WellFormed
    <2>3. inputsResolved(objects, c, objects.queries[q], vals, k + 1, f)[Len(objects.queries[q])]
            = inputsResolved(objects, c, objects.queries[q], vals, k + 1, g)[Len(objects.queries[q])]
      <3> DEFINE defs == objects.queries[q]
                 n == Len(defs)
                 d == k + 1
      <3>1. d \in 0..maxDepth /\ n \in 0..Len(objects.queries[q])
        BY <2>1, <2>2
      <3>2. TypedAt(objects, d, f) /\ SameAt(objects, d, f, g)
        OBVIOUS
      <3> HIDE DEF d, n
      <3>3. inputsResolved(objects, c, objects.queries[q], vals, d, f)[n]
              = inputsResolved(objects, c, objects.queries[q], vals, d, g)[n]
        BY <3>1, <3>2, InputsSame
      <3> QED BY <3>3 DEF d, n
    <2> QED BY <1>2, <2>3 DEF resolveDependencies
  <1> QED BY <1>1, <1>2

-----------------------------------------------------------------------------
(* The nested calls.                                                       *)

(* What the call of an existing query returns, given what others do.       *)
Returned(objects, call, f) ==
  LET c == resolveDependencies(objects, call.ctx, objects.queries[call.query], NoInputs, call.depth, f)
  IN  IF c.err # "none" THEN c ELSE [c EXCEPT !.queries = @ \cup {call.query}]

CallsFrom(objects, m) == {call \in Calls(objects) : call.depth >= m}

(* A function for the calls from a depth on.                               *)
Resolves(objects, m, f) ==
  /\ f = [call \in CallsFrom(objects, m) |-> Returned(objects, call, f)]
  /\ \A call \in CallsFrom(objects, m) : f[call] \in Contexts(objects)

LEMMA CallParts ==
  ASSUME NEW objects, NEW call \in Calls(objects)
  PROVE  call.ctx \in Contexts(objects) /\ call.query \in DOMAIN objects.queries /\ call.depth \in 0..maxDepth
  BY DEF Calls

LEMMA ReturnedTyped ==
  ASSUME NEW objects, WellFormed(objects), NEW call \in Calls(objects), NEW f,
         TypedAt(objects, call.depth + 1, f)
  PROVE  Returned(objects, call, f) \in Contexts(objects)
  <1> DEFINE c == resolveDependencies(objects, call.ctx, objects.queries[call.query], NoInputs, call.depth, f)
  <1>1. c \in Contexts(objects)
    BY CallParts, DependenciesTyped
  <1>2. Returned(objects, call, f)
          = IF c.err # "none" THEN c ELSE [c EXCEPT !.queries = @ \cup {call.query}]
    BY DEF Returned
  <1> HIDE DEF c
  <1>3. call.query \in DOMAIN objects.queries
    BY CallParts
  <1> QED BY <1>1, <1>2, <1>3, ContextGrows

LEMMA ReturnedSame ==
  ASSUME NEW objects, WellFormed(objects), NEW call \in Calls(objects), NEW f, NEW g,
         TypedAt(objects, call.depth + 1, f), SameAt(objects, call.depth + 1, f, g)
  PROVE  Returned(objects, call, f) = Returned(objects, call, g)
  <1>1. resolveDependencies(objects, call.ctx, objects.queries[call.query], NoInputs, call.depth, f)
          = resolveDependencies(objects, call.ctx, objects.queries[call.query], NoInputs, call.depth, g)
    <2>1. call.ctx \in Contexts(objects) /\ call.query \in DOMAIN objects.queries /\ call.depth \in 0..maxDepth
      BY CallParts
    <2> DEFINE c == call.ctx
               q == call.query
               k == call.depth
    <2>2. c \in Contexts(objects) /\ q \in DOMAIN objects.queries /\ k \in 0..maxDepth
      BY <2>1
    <2>3. TypedAt(objects, k + 1, f) /\ SameAt(objects, k + 1, f, g)
      OBVIOUS
    <2> HIDE DEF c, q, k
    <2>4. resolveDependencies(objects, c, objects.queries[q], NoInputs, k, f)
            = resolveDependencies(objects, c, objects.queries[q], NoInputs, k, g)
      BY <2>2, <2>3, DependenciesSame
    <2> QED BY <2>4 DEF c, q, k
  <1> QED BY <1>1 DEF Returned

LEMMA ResolvesMore ==
  ASSUME NEW objects, WellFormed(objects), NEW m \in Nat, NEW f, Resolves(objects, m + 1, f)
  PROVE  \E g : Resolves(objects, m, g)
  <1> DEFINE g == [call \in CallsFrom(objects, m) |->
                     IF call.depth >= m + 1 THEN f[call] ELSE Returned(objects, call, f)]
  <1>1. ASSUME NEW call \in CallsFrom(objects, m)
        PROVE  /\ call \in Calls(objects) /\ call.depth \in Nat /\ call.depth >= m
               /\ TypedAt(objects, call.depth + 1, f) /\ SameAt(objects, call.depth + 1, f, g)
    <2>1. call \in Calls(objects) /\ call.depth \in Nat /\ call.depth >= m
      BY CallParts, ResolverAssumption DEF CallsFrom
    <2>2. ASSUME NEW other \in Calls(objects), other.depth = call.depth + 1
          PROVE  f[other] \in Contexts(objects) /\ f[other] = g[other]
      <3>1. other.depth >= m + 1 /\ other.depth >= m
        BY <2>1, <2>2
      <3>2. other \in CallsFrom(objects, m) /\ other \in CallsFrom(objects, m + 1)
        BY <3>1 DEF CallsFrom
      <3> QED BY <3>1, <3>2 DEF Resolves
    <2> QED BY <2>1, <2>2 DEF TypedAt, SameAt
  <1>2. ASSUME NEW call \in CallsFrom(objects, m)
        PROVE  g[call] = Returned(objects, call, f) /\ g[call] \in Contexts(objects)
    <2>1. CASE call.depth >= m + 1
      <3>1. call \in CallsFrom(objects, m + 1)
        BY <1>1, <2>1 DEF CallsFrom
      <3>2. f[call] = Returned(objects, call, f) /\ f[call] \in Contexts(objects)
        BY <3>1 DEF Resolves
      <3> QED BY <2>1, <3>2
    <2>2. CASE ~(call.depth >= m + 1)
      <3>1. g[call] = Returned(objects, call, f)
        BY <2>2
      <3> HIDE DEF g
      <3> QED BY <1>1, <3>1, ReturnedTyped
    <2> QED BY <2>1, <2>2
  <1>3. ASSUME NEW call \in CallsFrom(objects, m)
        PROVE  Returned(objects, call, f) = Returned(objects, call, g)
    <2> HIDE DEF g
    <2> QED BY <1>1, ReturnedSame
  <1>4. g = [call \in CallsFrom(objects, m) |-> g[call]]
    OBVIOUS
  <1> HIDE DEF g
  <1>5. Resolves(objects, m, g)
    BY <1>2, <1>3, <1>4 DEF Resolves
  <1> QED BY <1>5

LEMMA ResolvesExists ==
  ASSUME NEW objects, WellFormed(objects)
  PROVE  \E f : Resolves(objects, 0, f)
  <1> DEFINE T == {n \in Nat : n <= maxDepth + 1 => \E f : Resolves(objects, maxDepth + 1 - n, f)}
  <1>1. 0 \in T
    <2>1. CallsFrom(objects, maxDepth + 1) = {}
      BY CallParts, ResolverAssumption DEF CallsFrom
    <2>2. Resolves(objects, maxDepth + 1, [call \in {} |-> Null])
      BY <2>1 DEF Resolves
    <2>3. maxDepth + 1 - 0 = maxDepth + 1
      BY ResolverAssumption
    <2> QED BY <2>2, <2>3
  <1>2. ASSUME NEW n \in Nat, n \in T
        PROVE  n + 1 \in T
    <2> SUFFICES ASSUME n + 1 <= maxDepth + 1
                 PROVE  \E f : Resolves(objects, maxDepth + 1 - (n + 1), f)
      OBVIOUS
    <2>1. /\ maxDepth + 1 - (n + 1) \in Nat /\ n <= maxDepth + 1
          /\ maxDepth + 1 - n = (maxDepth + 1 - (n + 1)) + 1
      BY ResolverAssumption
    <2>2. PICK f : Resolves(objects, (maxDepth + 1 - (n + 1)) + 1, f)
      BY <1>2, <2>1
    <2> QED BY <2>1, <2>2, ResolvesMore
  <1> HIDE DEF T
  <1>3. maxDepth + 1 \in T
    BY <1>1, <1>2, Induction, ResolverAssumption
  <1>4. maxDepth + 1 <= maxDepth + 1 /\ maxDepth + 1 - (maxDepth + 1) = 0
    BY ResolverAssumption
  <1> QED BY <1>3, <1>4 DEF T

LEMMA QueriesResolved ==
  ASSUME NEW objects, WellFormed(objects), NEW call \in Calls(objects)
  PROVE  queriesResolved(objects)[call] = Returned(objects, call, queriesResolved(objects))
  <1> DEFINE r == queriesResolved(objects)
  <1>1. PICK f : Resolves(objects, 0, f)
    BY ResolvesExists
  <1>2. CallsFrom(objects, 0) = Calls(objects)
    BY CallParts, ResolverAssumption DEF CallsFrom
  <1>3. f = [other \in Calls(objects) |-> Returned(objects, other, f)]
    BY <1>1, <1>2 DEF Resolves
  <1>4. r = [other \in Calls(objects) |-> Returned(objects, other, r)]
    BY <1>3, Zenon DEF queriesResolved, Returned
  <1> HIDE DEF r
  <1>5. r[call] = Returned(objects, call, r)
    BY <1>4
  <1> QED BY <1>5 DEF r

(* From the deepest calls to the outermost.                                *)
LEMMA FromTheDeepest ==
  ASSUME NEW T, maxDepth + 1 \in T, \A k \in 0..maxDepth : k + 1 \in T => k \in T
  PROVE  0..(maxDepth + 1) \subseteq T
  <1> DEFINE U == {n \in Nat : n <= maxDepth + 1 => maxDepth + 1 - n \in T}
  <1>1. 0 \in U
    BY ResolverAssumption
  <1>2. ASSUME NEW n \in Nat, n \in U
        PROVE  n + 1 \in U
    <2> SUFFICES ASSUME n + 1 <= maxDepth + 1
                 PROVE  maxDepth + 1 - (n + 1) \in T
      OBVIOUS
    <2>1. /\ maxDepth + 1 - (n + 1) \in 0..maxDepth /\ n <= maxDepth + 1
          /\ maxDepth + 1 - n = (maxDepth + 1 - (n + 1)) + 1
      BY ResolverAssumption
    <2> QED BY <1>2, <2>1
  <1> HIDE DEF U
  <1>3. Nat \subseteq U
    BY <1>1, <1>2, Induction
  <1>4. ASSUME NEW k \in 0..(maxDepth + 1)
        PROVE  k \in T
    <2>1. /\ maxDepth + 1 - k \in Nat /\ maxDepth + 1 - k <= maxDepth + 1
          /\ maxDepth + 1 - (maxDepth + 1 - k) = k
      BY ResolverAssumption
    <2> QED BY <1>3, <2>1 DEF U
  <1> QED BY <1>4

LEMMA QueriesTyped ==
  ASSUME NEW objects, WellFormed(objects), NEW k \in 0..(maxDepth + 1)
  PROVE  TypedAt(objects, k, queriesResolved(objects))
  <1> DEFINE r == queriesResolved(objects)
             T == {m \in 0..(maxDepth + 1) : TypedAt(objects, m, r)}
  <1>1. maxDepth + 1 \in T
    <2>1. TypedAt(objects, maxDepth + 1, r)
      BY CallParts, ResolverAssumption DEF TypedAt
    <2> QED BY <2>1, ResolverAssumption
  <1>2. ASSUME NEW m \in 0..maxDepth, m + 1 \in T
        PROVE  m \in T
    <2>1. ASSUME NEW call \in Calls(objects), call.depth = m
          PROVE  r[call] \in Contexts(objects)
      BY <1>2, <2>1, QueriesResolved, ReturnedTyped
    <2>2. m \in 0..(maxDepth + 1)
      BY ResolverAssumption
    <2> QED BY <2>1, <2>2 DEF TypedAt
  <1> HIDE DEF T
  <1>3. k \in T
    BY <1>1, <1>2, FromTheDeepest
  <1> QED BY <1>3 DEF T

LEMMA NewIsContext ==
  ASSUME NEW objects
  PROVE  NewContext \in Contexts(objects) /\ NewContext.err = "none"
  BY DEF NewContext, Contexts

(* Whatever its error, the result names only objects that exist.           *)
LEMMA DependenciesExist ==
  ASSUME NEW objects, WellFormed(objects), NEW q, NEW vals
  PROVE  getQueryDependencies(objects, q, vals) \in Contexts(objects)
  <1>1. CASE q \in DOMAIN objects.queries
    <2>1. 0 \in 0..maxDepth /\ 0 + 1 \in 0..(maxDepth + 1)
      BY ResolverAssumption
    <2>2. TypedAt(objects, 0 + 1, queriesResolved(objects))
      BY <2>1, QueriesTyped
    <2>3. resolveDependencies(objects, NewContext, objects.queries[q], vals, 0, queriesResolved(objects))
            \in Contexts(objects)
      BY <1>1, <2>1, <2>2, NewIsContext, DependenciesTyped
    <2> QED BY <1>1, <2>3 DEF getQueryDependencies, ResolveDependencies
  <1>2. CASE q \notin DOMAIN objects.queries
    BY <1>2, NewIsContext, FailedIsContext DEF getQueryDependencies
  <1> QED BY <1>1, <1>2

-----------------------------------------------------------------------------
(***************************************************************************)
(* What a resolution is for: the objects that a query refers to, directly  *)
(* or not.  A collection of objects is a record of their names.            *)
(***************************************************************************)

(* What an input refers to is there, or it refers to nothing.              *)
Covered(S, def) ==
  def.default # Null =>
    /\ def.type = "ReportQuery" => def.default \in S.queries
    /\ def.type = "ReportDataSource" => def.default \in S.dataSources
    /\ def.type = "Report" => def.default \in S.reports

InputsCovered(objects, S, q) ==
  \A i \in 1..Len(objects.queries[q]) : Covered(S, objects.queries[q][i])

(* With an object, everything it refers to.                                *)
ClosedUnder(objects, S) ==
  /\ \A q \in S.queries : q \in DOMAIN objects.queries => InputsCovered(objects, S, q)
  /\ \A d \in S.dataSources :
       d \in DOMAIN objects.dataSources /\ objects.dataSources[d] # Null => objects.dataSources[d] \in S.queries
  /\ \A r \in S.reports : r \in DOMAIN objects.reports => objects.reports[r] \in S.queries

Within(c, S) ==
  c.queries \subseteq S.queries /\ c.dataSources \subseteq S.dataSources /\ c.reports \subseteq S.reports

(***************************************************************************)
(* Inputs of one name refer to the same object.  Without it the resolver   *)
(* passes over references, because it remembers inputs by their names only *)
(* (dependencies.go:122).                                                  *)
(***************************************************************************)
NamesAgree(objects) ==
  \A p, q \in DOMAIN objects.queries :
    \A i \in 1..Len(objects.queries[p]), j \in 1..Len(objects.queries[q]) :
      objects.queries[p][i].name = objects.queries[q][j].name =>
        /\ objects.queries[p][i].type = objects.queries[q][j].type
        /\ objects.queries[p][i].default = objects.queries[q][j].default

(* The names that are passed over are those of inputs that are there.      *)
ValuesCovered(objects, c) ==
  \A q \in DOMAIN objects.queries : \A i \in 1..Len(objects.queries[q]) :
    objects.queries[q][i].name \in c.inputValues => Covered(c, objects.queries[q][i])

Complete(objects, c) == ClosedUnder(objects, c) /\ ValuesCovered(objects, c)

(* What happens to a context: nothing is lost, and what is added brings    *)
(* along everything it refers to.                                          *)
Kept(objects, c, R) ==
  /\ Within(c, R) /\ c.inputValues \subseteq R.inputValues
  /\ R.err = "none" /\ Complete(objects, c) => Complete(objects, R)

(* The calls of a depth keep their contexts, add the query, and nothing    *)
(* that is not in S if S has everything the query refers to.               *)
SoundAt(objects, S, k, f) ==
  \A call \in Calls(objects) : call.depth = k =>
    /\ f[call] \in Contexts(objects) /\ Kept(objects, call.ctx, f[call])
    /\ f[call].err = "none" => call.query \in f[call].queries
    /\ Within(call.ctx, S) /\ call.query \in S.queries => Within(f[call], S)

LEMMA CoveredStays ==
  ASSUME NEW c, NEW R, NEW def, Covered(c, def), Within(c, R)
  PROVE  Covered(R, def)
  BY DEF Covered, Within

LEMMA KeptIsReflexive ==
  ASSUME NEW objects, NEW c
  PROVE  Kept(objects, c, c)
  BY DEF Kept, Within

LEMMA KeptIsTransitive ==
  ASSUME NEW objects, NEW c, NEW x, NEW R, Kept(objects, c, x), Kept(objects, x, R),
         R.err = "none" => x.err = "none"
  PROVE  Kept(objects, c, R)
  BY DEF Kept, Within

LEMMA WithinIsTransitive ==
  ASSUME NEW c, NEW x, NEW R, Within(c, x), Within(x, R)
  PROVE  Within(c, R)
  BY DEF Within

LEMMA KeptByFailure ==
  ASSUME NEW objects, NEW c \in Contexts(objects), NEW e \in {"notFound", "cycle", "invalid"}
  PROVE  /\ Kept(objects, c, Failed(c, e)) /\ Failed(c, e).err # "none"
         /\ \A S : Within(c, S) => Within(Failed(c, e), S)
  <1>1. /\ Failed(c, e).queries = c.queries /\ Failed(c, e).dataSources = c.dataSources
        /\ Failed(c, e).reports = c.reports /\ Failed(c, e).inputValues = c.inputValues
        /\ Failed(c, e).err = e
    BY DEF Failed, Contexts
  <1> QED BY <1>1 DEF Kept, Within

(* The fields of a context with a query, data source, Report or name more. *)
LEMMA GrownFields ==
  ASSUME NEW objects, NEW c \in Contexts(objects), NEW x
  PROVE  /\ LET R == [c EXCEPT !.queries = @ \cup {x}]
            IN  /\ R.queries = c.queries \cup {x} /\ R.dataSources = c.dataSources
                /\ R.reports = c.reports /\ R.inputValues = c.inputValues /\ R.err = c.err
         /\ LET R == [c EXCEPT !.dataSources = @ \cup {x}]
            IN  /\ R.queries = c.queries /\ R.dataSources = c.dataSources \cup {x}
                /\ R.reports = c.reports /\ R.inputValues = c.inputValues /\ R.err = c.err
         /\ LET R == [c EXCEPT !.reports = @ \cup {x}]
            IN  /\ R.queries = c.queries /\ R.dataSources = c.dataSources
                /\ R.reports = c.reports \cup {x} /\ R.inputValues = c.inputValues /\ R.err = c.err
         /\ LET R == [c EXCEPT !.inputValues = @ \cup {x}]
            IN  /\ R.queries = c.queries /\ R.dataSources = c.dataSources
                /\ R.reports = c.reports /\ R.inputValues = c.inputValues \cup {x} /\ R.err = c.err
  BY DEF Contexts

(* Each kind of object keeps the context when what it refers to is there.  *)
LEMMA GrowsByQuery ==
  ASSUME NEW objects, NEW c, NEW q, NEW R,
         R.queries = c.queries \cup {q}, R.dataSources = c.dataSources,
         R.reports = c.reports, R.inputValues = c.inputValues, R.err = c.err,
         Complete(objects, c) => InputsCovered(objects, c, q)
  PROVE  /\ Kept(objects, c, R) /\ R.err = c.err /\ q \in R.queries
         /\ \A S : Within(c, S) /\ q \in S.queries => Within(R, S)
  <1>1. /\ R.queries = c.queries \cup {q} /\ R.dataSources = c.dataSources
        /\ R.reports = c.reports /\ R.inputValues = c.inputValues /\ R.err = c.err
    OBVIOUS
  <1>2. Within(c, R)
    BY <1>1 DEF Within
  <1>3. ASSUME Complete(objects, c)
        PROVE  Complete(objects, R)
    <2>1. \A p \in R.queries : p \in DOMAIN objects.queries => InputsCovered(objects, c, p)
      BY <1>1, <1>3 DEF Complete, ClosedUnder
    <2>2. \A p \in R.queries : p \in DOMAIN objects.queries => InputsCovered(objects, R, p)
      BY <2>1, <1>2, CoveredStays DEF InputsCovered
    <2>3. ClosedUnder(objects, R)
      BY <1>1, <1>3, <2>2 DEF Complete, ClosedUnder
    <2>4. ValuesCovered(objects, R)
      BY <1>1, <1>2, <1>3, CoveredStays DEF Complete, ValuesCovered
    <2> QED BY <2>3, <2>4 DEF Complete
  <1> QED BY <1>1, <1>2, <1>3 DEF Kept, Within

LEMMA GrowsByDataSource ==
  ASSUME NEW objects, NEW c \in Contexts(objects), NEW d, NEW R,
         R = [c EXCEPT !.dataSources = @ \cup {d}],
         objects.dataSources[d] # Null => objects.dataSources[d] \in c.queries
  PROVE  /\ Kept(objects, c, R) /\ R.err = c.err /\ d \in R.dataSources
         /\ \A S : Within(c, S) /\ d \in S.dataSources => Within(R, S)
  <1>1. /\ R.queries = c.queries /\ R.dataSources = c.dataSources \cup {d}
        /\ R.reports = c.reports /\ R.inputValues = c.inputValues /\ R.err = c.err
    BY GrownFields
  <1>2. Within(c, R)
    BY <1>1 DEF Within
  <1>3. ASSUME Complete(objects, c)
        PROVE  Complete(objects, R)
    <2>1. \A p \in R.queries : p \in DOMAIN objects.queries => InputsCovered(objects, R, p)
      BY <1>1, <1>2, <1>3, CoveredStays DEF Complete, ClosedUnder, InputsCovered
    <2>2. ClosedUnder(objects, R)
      BY <1>1, <1>3, <2>1 DEF Complete, ClosedUnder
    <2>3. ValuesCovered(objects, R)
      BY <1>1, <1>2, <1>3, CoveredStays DEF Complete, ValuesCovered
    <2> QED BY <2>2, <2>3 DEF Complete
  <1> QED BY <1>1, <1>2, <1>3 DEF Kept, Within

LEMMA GrowsByReport ==
  ASSUME NEW objects, NEW c \in Contexts(objects), NEW r, NEW R,
         R = [c EXCEPT !.reports = @ \cup {r}], objects.reports[r] \in c.queries
  PROVE  /\ Kept(objects, c, R) /\ R.err = c.err /\ r \in R.reports
         /\ \A S : Within(c, S) /\ r \in S.reports => Within(R, S)
  <1>1. /\ R.queries = c.queries /\ R.dataSources = c.dataSources
        /\ R.reports = c.reports \cup {r} /\ R.inputValues = c.inputValues /\ R.err = c.err
    BY GrownFields
  <1>2. Within(c, R)
    BY <1>1 DEF Within
  <1>3. ASSUME Complete(objects, c)
        PROVE  Complete(objects, R)
    <2>1. \A p \in R.queries : p \in DOMAIN objects.queries => InputsCovered(objects, R, p)
      BY <1>1, <1>2, <1>3, CoveredStays DEF Complete, ClosedUnder, InputsCovered
    <2>2. ClosedUnder(objects, R)
      BY <1>1, <1>3, <2>1 DEF Complete, ClosedUnder
    <2>3. ValuesCovered(objects, R)
      BY <1>1, <1>2, <1>3, CoveredStays DEF Complete, ValuesCovered
    <2> QED BY <2>2, <2>3 DEF Complete
  <1> QED BY <1>1, <1>2, <1>3 DEF Kept, Within

LEMMA GrowsByName ==
  ASSUME NEW objects, NamesAgree(objects), NEW c \in Contexts(objects),
         NEW q \in DOMAIN objects.queries, NEW i \in 1..Len(objects.queries[q]), NEW R,
         R = [c EXCEPT !.inputValues = @ \cup {objects.queries[q][i].name}],
         Covered(c, objects.queries[q][i])
  PROVE  /\ Kept(objects, c, R) /\ R.err = c.err
         /\ \A S : Within(c, S) => Within(R, S)
  <1> DEFINE def == objects.queries[q][i]
  <1>1. /\ R.queries = c.queries /\ R.dataSources = c.dataSources
        /\ R.reports = c.reports /\ R.inputValues = c.inputValues \cup {def.name} /\ R.err = c.err
    BY GrownFields
  <1>2. Within(c, R)
    BY <1>1 DEF Within
  <1>3. ASSUME Complete(objects, c)
        PROVE  Complete(objects, R)
    <2>1. \A p \in R.queries : p \in DOMAIN objects.queries => InputsCovered(objects, R, p)
      BY <1>1, <1>2, <1>3, CoveredStays DEF Complete, ClosedUnder, InputsCovered
    <2>2. ClosedUnder(objects, R)
      BY <1>1, <1>3, <2>1 DEF Complete, ClosedUnder
    <2>3. ASSUME NEW p \in DOMAIN objects.queries, NEW j \in 1..Len(objects.queries[p]),
                 objects.queries[p][j].name \in R.inputValues
          PROVE  Covered(c, objects.queries[p][j])
      <3>1. CASE objects.queries[p][j].name \in c.inputValues
        BY <1>3, <3>1 DEF Complete, ValuesCovered
      <3>2. CASE objects.queries[p][j].name = def.name
        <4>1. objects.queries[p][j].type = def.type /\ objects.queries[p][j].default = def.default
          BY <3>2 DEF NamesAgree
        <4> QED BY <4>1 DEF Covered
      <3> QED BY <1>1, <2>3, <3>1, <3>2
    <2>4. ValuesCovered(objects, R)
      BY <1>2, <2>3, CoveredStays DEF ValuesCovered
    <2> QED BY <2>2, <2>4 DEF Complete
  <1> QED BY <1>1, <1>2, <1>3 DEF Kept, Within

LEMMA SoundIsTyped ==
  ASSUME NEW objects, NEW S, NEW k, NEW f, SoundAt(objects, S, k, f)
  PROVE  TypedAt(objects, k, f)
  BY DEF SoundAt, TypedAt

LEMMA QuerySound ==
  ASSUME NEW objects, NEW S, NEW c \in Contexts(objects), NEW k \in 0..maxDepth, NEW f,
         SoundAt(objects, S, k, f), NEW q, NEW R, R = resolveQuery(objects, c, q, k, f)
  PROVE  /\ Kept(objects, c, R)
         /\ R.err = "none" => q \in R.queries
         /\ Within(c, S) /\ q \in S.queries => Within(R, S)
  <1>1. CASE q \in c.queries
    BY <1>1, KeptIsReflexive DEF resolveQuery
  <1>2. CASE q \notin c.queries /\ q \notin DOMAIN objects.queries
    BY <1>2, KeptByFailure DEF resolveQuery
  <1>3. CASE q \notin c.queries /\ q \in DOMAIN objects.queries
    <2> DEFINE call == [ctx |-> c, query |-> q, depth |-> k]
    <2>1. R = f[call]
      BY <1>3 DEF resolveQuery
    <2>2. call \in Calls(objects) /\ call.ctx = c /\ call.query = q /\ call.depth = k
      BY <1>3, CallOf
    <2> HIDE DEF call
    <2> QED BY <2>1, <2>2 DEF SoundAt
  <1> QED BY <1>1, <1>2, <1>3

LEMMA DataSourceSound ==
  ASSUME NEW objects, NEW S, ClosedUnder(objects, S), NEW c \in Contexts(objects), NEW k \in 0..maxDepth,
         NEW f, SoundAt(objects, S, k, f), NEW d, NEW R, R = resolveDataSource(objects, c, d, k, f)
  PROVE  /\ Kept(objects, c, R)
         /\ R.err = "none" => d \in R.dataSources
         /\ Within(c, S) /\ d \in S.dataSources => Within(R, S)
  <1>1. CASE d \in c.dataSources
    BY <1>1, KeptIsReflexive DEF resolveDataSource
  <1>2. CASE d \notin c.dataSources /\ d \notin DOMAIN objects.dataSources
    BY <1>2, KeptByFailure DEF resolveDataSource
  <1>3. CASE d \notin c.dataSources /\ d \in DOMAIN objects.dataSources
    <2> DEFINE q == objects.dataSources[d]
               x == IF q = Null THEN c ELSE resolveQuery(objects, c, q, k, f)
               y == [x EXCEPT !.dataSources = @ \cup {d}]
    <2>1. x \in Contexts(objects)
      BY QueryTyped, SoundIsTyped
    <2>2. R = IF x.err # "none" THEN x ELSE y
      BY <1>3 DEF resolveDataSource
    <2>3. ASSUME NEW z, z = resolveQuery(objects, c, q, k, f)
          PROVE  /\ Kept(objects, c, z) /\ (z.err = "none" => q \in z.queries)
                 /\ Within(c, S) /\ q \in S.queries => Within(z, S)
      <3> HIDE DEF q
      <3> QED BY <2>3, QuerySound
    <2>4. /\ Kept(objects, c, x) /\ (q # Null /\ x.err = "none" => q \in x.queries)
          /\ Within(c, S) /\ d \in S.dataSources => Within(x, S)
      BY <1>3, <2>3, KeptIsReflexive DEF ClosedUnder
    <2> HIDE DEF x
    <2>5. CASE x.err # "none"
      BY <2>2, <2>4, <2>5
    <2>6. CASE x.err = "none"
      <3>1. /\ Kept(objects, x, y) /\ y.err = x.err /\ d \in y.dataSources
            /\ Within(x, S) /\ d \in S.dataSources => Within(y, S)
        BY <2>1, <2>4, <2>6, GrowsByDataSource
      <3> HIDE DEF y
      <3>2. Kept(objects, c, y)
        BY <2>4, <3>1, KeptIsTransitive
      <3> QED BY <2>2, <2>4, <2>6, <3>1, <3>2
    <2> QED BY <2>5, <2>6
  <1> QED BY <1>1, <1>2, <1>3

LEMMA ReportSound ==
  ASSUME NEW objects, NEW S, ClosedUnder(objects, S), NEW c \in Contexts(objects), NEW k \in 0..maxDepth,
         NEW f, SoundAt(objects, S, k, f), NEW r, NEW R, R = resolveReport(objects, c, r, k, f)
  PROVE  /\ Kept(objects, c, R)
         /\ R.err = "none" => r \in R.reports
         /\ Within(c, S) /\ r \in S.reports => Within(R, S)
  <1>1. CASE r \in c.reports
    BY <1>1, KeptIsReflexive DEF resolveReport
  <1>2. CASE r \notin c.reports /\ r \notin DOMAIN objects.reports
    BY <1>2, KeptByFailure DEF resolveReport
  <1>3. CASE r \notin c.reports /\ r \in DOMAIN objects.reports
    <2> DEFINE q == objects.reports[r]
               x == resolveQuery(objects, c, q, k, f)
               y == [x EXCEPT !.reports = @ \cup {r}]
    <2>1. x \in Contexts(objects)
      BY QueryTyped, SoundIsTyped
    <2>2. R = IF x.err # "none" THEN x ELSE y
      BY <1>3 DEF resolveReport
    <2>3. ASSUME NEW z, z = resolveQuery(objects, c, q, k, f)
          PROVE  /\ Kept(objects, c, z) /\ (z.err = "none" => q \in z.queries)
                 /\ Within(c, S) /\ q \in S.queries => Within(z, S)
      <3> HIDE DEF q
      <3> QED BY <2>3, QuerySound
    <2>4. /\ Kept(objects, c, x) /\ (x.err = "none" => q \in x.queries)
          /\ Within(c, S) /\ r \in S.reports => Within(x, S)
      BY <1>3, <2>3 DEF ClosedUnder
    <2> HIDE DEF x
    <2>5. CASE x.err # "none"
      BY <2>2, <2>4, <2>5
    <2>6. CASE x.err = "none"
      <3>1. /\ Kept(objects, x, y) /\ y.err = x.err /\ r \in y.reports
            /\ Within(x, S) /\ r \in S.reports => Within(y, S)
        BY <2>1, <2>4, <2>6, GrowsByReport
      <3> HIDE DEF y
      <3>2. Kept(objects, c, y)
        BY <2>4, <3>1, KeptIsTransitive
      <3> QED BY <2>2, <2>4, <2>6, <3>1, <3>2
    <2> QED BY <2>5, <2>6
  <1> QED BY <1>1, <1>2, <1>3

LEMMA ReferredSound ==
  ASSUME NEW objects, NEW S, ClosedUnder(objects, S), NEW c \in Contexts(objects), NEW k \in 0..maxDepth,
         NEW f, SoundAt(objects, S, k, f), NEW def, def.default # Null,
         NEW R, R = Referred(objects, c, def, def.default, k, f)
  PROVE  /\ R \in Contexts(objects) /\ Kept(objects, c, R)
         /\ R.err = "none" => Covered(R, def)
         /\ Within(c, S) /\ Covered(S, def) => Within(R, S)
  <1>1. CASE def.type = "ReportQuery"
    <2>1. R = resolveQuery(objects, c, def.default, k, f)
      BY <1>1, ReferredIs
    <2> QED BY <1>1, <2>1, QuerySound, QueryTyped, SoundIsTyped DEF Covered
  <1>2. CASE def.type = "ReportDataSource"
    <2>1. R = resolveDataSource(objects, c, def.default, k, f)
      BY <1>2, ReferredIs
    <2> QED BY <1>2, <2>1, DataSourceSound, DataSourceTyped, SoundIsTyped DEF Covered
  <1>3. CASE def.type = "Report"
    <2>1. R = resolveReport(objects, c, def.default, k, f)
      BY <1>3, ReferredIs
    <2> QED BY <1>3, <2>1, ReportSound, ReportTyped, SoundIsTyped DEF Covered
  <1>4. CASE def.type = "malformed"
    BY <1>4, ReferredIs, KeptByFailure, FailedIsContext
  <1>5. CASE def.type \notin {"ReportQuery", "ReportDataSource", "Report", "malformed"}
    BY <1>5, ReferredIs, KeptIsReflexive DEF Covered
  <1> QED BY <1>1, <1>2, <1>3, <1>4, <1>5

LEMMA InputSound ==
  ASSUME NEW objects, NamesAgree(objects), NEW S, ClosedUnder(objects, S), NEW c \in Contexts(objects),
         NEW k \in 0..maxDepth, NEW f, SoundAt(objects, S, k, f),
         NEW q \in DOMAIN objects.queries, NEW i \in 1..Len(objects.queries[q]),
         NEW R, R = resolveInput(objects, c, objects.queries[q][i], NoInputs, k, f)
  PROVE  /\ Kept(objects, c, R)
         /\ R.err = "none" => c.err = "none"
         /\ R.err = "none" /\ Complete(objects, c) => Covered(R, objects.queries[q][i])
         /\ Within(c, S) /\ Covered(S, objects.queries[q][i]) => Within(R, S)
  <1> DEFINE def == objects.queries[q][i]
             x == Referred(objects, c, def, def.default, k, f)
             y == [x EXCEPT !.inputValues = @ \cup {def.name}]
  <1>1. InputValue(def, NoInputs) = def.default
    BY DEF InputValue, NoInputs
  <1>2. R = IF c.err # "none" \/ def.name \in c.inputValues \/ def.default = Null THEN c
            ELSE IF x.err # "none" THEN x ELSE y
    BY <1>1, ResolveInputIs
  <1>3. CASE c.err # "none" \/ def.name \in c.inputValues \/ def.default = Null
    <2>1. R = c
      BY <1>2, <1>3
    <2>2. R.err = "none" /\ Complete(objects, c) => Covered(c, def)
      BY <1>3, <2>1 DEF Complete, ValuesCovered, Covered
    <2> QED BY <2>1, <2>2, KeptIsReflexive
  <1>4. CASE ~(c.err # "none" \/ def.name \in c.inputValues \/ def.default = Null)
    <2>1. /\ x \in Contexts(objects) /\ Kept(objects, c, x)
          /\ x.err = "none" => Covered(x, def)
          /\ Within(c, S) /\ Covered(S, def) => Within(x, S)
      BY <1>4, ReferredSound
    <2>2. c.err = "none" /\ R = IF x.err # "none" THEN x ELSE y
      BY <1>2, <1>4
    <2> HIDE DEF x
    <2>3. CASE x.err # "none"
      BY <2>1, <2>2, <2>3
    <2>4. CASE x.err = "none"
      <3>1. /\ Kept(objects, x, y) /\ y.err = x.err
            /\ \A U : Within(x, U) => Within(y, U)
        BY <2>1, <2>4, GrowsByName
      <3> HIDE DEF y
      <3>2. Kept(objects, c, y)
        BY <2>1, <3>1, KeptIsTransitive
      <3>3. Covered(y, def)
        BY <2>1, <2>4, <3>1, CoveredStays DEF Kept
      <3> QED BY <2>1, <2>2, <2>4, <3>1, <3>2, <3>3
    <2> QED BY <2>3, <2>4
  <1> QED BY <1>3, <1>4

LEMMA InputsSound ==
  ASSUME NEW objects, WellFormed(objects), NamesAgree(objects), NEW S, ClosedUnder(objects, S),
         NEW c \in Contexts(objects), NEW k \in 0..maxDepth, NEW f, SoundAt(objects, S, k, f),
         NEW q \in DOMAIN objects.queries,
         NEW R, R = inputsResolved(objects, c, objects.queries[q], NoInputs, k, f)[Len(objects.queries[q])]
  PROVE  /\ Kept(objects, c, R)
         /\ R.err = "none" /\ Complete(objects, c) => InputsCovered(objects, R, q)
         /\ Within(c, S) /\ InputsCovered(objects, S, q) => Within(R, S)
  <1> DEFINE defs == objects.queries[q]
             a == inputsResolved(objects, c, defs, NoInputs, k, f)
             P(m) == /\ Kept(objects, c, a[m])
                     /\ a[m].err = "none" /\ Complete(objects, c) => \A i \in 1..m : Covered(a[m], defs[i])
                     /\ Within(c, S) /\ InputsCovered(objects, S, q) => Within(a[m], S)
             T == {m \in Nat : m <= Len(defs) => P(m)}
  <1>1. Len(defs) \in Nat
    BY DEF WellFormed
  <1>2. a[0] = c /\ \A m \in 1..Len(defs) : a[m] = resolveInput(objects, a[m - 1], defs[m], NoInputs, k, f)
    BY <1>1, InputsResolved
  <1>3. \A m \in 0..Len(defs) : a[m] \in Contexts(objects)
    BY InputsTyped, SoundIsTyped
  <1> HIDE DEF a
  <1>4. 0 \in T
    BY <1>2, KeptIsReflexive
  <1>5. ASSUME NEW m \in Nat, m \in T
        PROVE  m + 1 \in T
    <2> SUFFICES ASSUME m + 1 <= Len(defs)
                 PROVE  P(m + 1)
      OBVIOUS
    <2>1. m + 1 \in 1..Len(defs) /\ (m + 1) - 1 = m /\ m <= Len(defs) /\ m \in 0..Len(defs)
      BY <1>1
    <2> DEFINE x == a[m]
               y == a[m + 1]
               def == defs[m + 1]
    <2>2. x \in Contexts(objects) /\ P(m)
      BY <1>3, <1>5, <2>1
    <2>3. y = resolveInput(objects, x, def, NoInputs, k, f)
      BY <1>2, <2>1
    <2> HIDE DEF x, y
    <2>4. /\ Kept(objects, x, y)
          /\ y.err = "none" => x.err = "none"
          /\ y.err = "none" /\ Complete(objects, x) => Covered(y, def)
          /\ Within(x, S) /\ Covered(S, def) => Within(y, S)
      BY <2>1, <2>2, <2>3, InputSound
    <2>5. Kept(objects, c, x)
      BY <2>2 DEF x
    <2>6. Kept(objects, c, y)
      BY <2>4, <2>5, KeptIsTransitive
    <2>7. ASSUME y.err = "none", Complete(objects, c), NEW i \in 1..(m + 1)
          PROVE  Covered(y, defs[i])
      <3>1. CASE i = m + 1
        BY <2>4, <2>5, <2>7, <3>1 DEF Kept
      <3>2. CASE i \in 1..m
        <4>1. Covered(x, defs[i])
          BY <2>2, <2>4, <2>7, <3>2 DEF x
        <4> QED BY <2>4, <4>1, CoveredStays DEF Kept
      <3> QED BY <3>1, <3>2
    <2>8. Within(c, S) /\ InputsCovered(objects, S, q) => Within(y, S)
      <3>1. InputsCovered(objects, S, q) => Covered(S, def)
        BY <2>1 DEF InputsCovered
      <3>2. Within(c, S) /\ InputsCovered(objects, S, q) => Within(x, S)
        BY <2>2 DEF x
      <3> QED BY <2>4, <3>1, <3>2
    <2> QED BY <2>6, <2>7, <2>8 DEF y
  <1> HIDE DEF T
  <1>6. Len(defs) \in T
    BY <1>1, <1>4, <1>5, Induction
  <1>7. P(Len(defs))
    BY <1>1, <1>6 DEF T
  <1>8. R = a[Len(defs)]
    BY DEF a
  <1>9. R.err = "none" /\ Complete(objects, c) => InputsCovered(objects, R, q)
    BY <1>7, <1>8 DEF InputsCovered
  <1> QED BY <1>7, <1>8, <1>9

(* Inputs, depth and all of the checks of resolveDependencies.             *)
LEMMA DependenciesSound ==
  ASSUME NEW objects, WellFormed(objects), NamesAgree(objects), NEW S, ClosedUnder(objects, S),
         NEW c \in Contexts(objects), NEW k \in 0..maxDepth, NEW f, SoundAt(objects, S, k + 1, f),
         NEW q \in DOMAIN objects.queries,
         NEW R, R = resolveDependencies(objects, c, objects.queries[q], NoInputs, k, f)
  PROVE  /\ Kept(objects, c, R)
         /\ R.err = "none" /\ Complete(objects, c) => InputsCovered(objects, R, q)
         /\ Within(c, S) /\ InputsCovered(objects, S, q) => Within(R, S)
  <1>1. CASE DepthExceeded(k)
    <2>1. R = Failed(c, "cycle")
      BY <1>1 DEF resolveDependencies
    <2> QED BY <2>1, KeptByFailure
  <1>2. CASE ~DepthExceeded(k)
    <2>1. k + 1 \in 0..maxDepth
      BY <1>2, ResolverAssumption DEF DepthExceeded
    <2>2. DOMAIN NoInputs \subseteq {objects.queries[q][i].name : i \in DOMAIN objects.queries[q]}
      BY DEF NoInputs
    <2> DEFINE d == k + 1
    <2>3. R = inputsResolved(objects, c, objects.queries[q], NoInputs, d, f)[Len(objects.queries[q])]
      BY <1>2, <2>2 DEF resolveDependencies
    <2>4. d \in 0..maxDepth /\ SoundAt(objects, S, d, f)
      BY <2>1
    <2> HIDE DEF d
    <2> QED BY <2>3, <2>4, InputsSound
  <1> QED BY <1>1, <1>2

LEMMA QueriesSound ==
  ASSUME NEW objects, WellFormed(objects), NamesAgree(objects), NEW S, ClosedUnder(objects, S),
         NEW k \in 0..(maxDepth + 1)
  PROVE  SoundAt(objects, S, k, queriesResolved(objects))
  <1> DEFINE r == queriesResolved(objects)
             T == {m \in 0..(maxDepth + 1) : SoundAt(objects, S, m, r)}
  <1>1. maxDepth + 1 \in T
    <2>1. SoundAt(objects, S, maxDepth + 1, r)
      BY CallParts, ResolverAssumption DEF SoundAt
    <2> QED BY <2>1, ResolverAssumption
  <1>2. ASSUME NEW m \in 0..maxDepth, m + 1 \in T
        PROVE  m \in T
    <2>1. m \in 0..(maxDepth + 1) /\ SoundAt(objects, S, m + 1, r)
      BY <1>2, ResolverAssumption
    <2>2. ASSUME NEW call \in Calls(objects), call.depth = m
          PROVE  /\ r[call] \in Contexts(objects) /\ Kept(objects, call.ctx, r[call])
                 /\ r[call].err = "none" => call.query \in r[call].queries
                 /\ Within(call.ctx, S) /\ call.query \in S.queries => Within(r[call], S)
      <3> DEFINE c == call.ctx
                 q == call.query
                 x == resolveDependencies(objects, c, objects.queries[q], NoInputs, m, r)
                 y == [x EXCEPT !.queries = @ \cup {q}]
                 R == r[call]
      <3>1. c \in Contexts(objects) /\ q \in DOMAIN objects.queries
        BY CallParts
      <3>2. R = IF x.err # "none" THEN x ELSE y
        BY <2>2, QueriesResolved DEF Returned
      <3>3. R \in Contexts(objects)
        BY <2>1, <2>2, QueriesTyped DEF TypedAt
      <3> HIDE DEF c, q, r, R, T
      <3>4. x \in Contexts(objects)
        BY <2>1, <3>1, SoundIsTyped, DependenciesTyped
      <3>5. /\ Kept(objects, c, x)
            /\ x.err = "none" /\ Complete(objects, c) => InputsCovered(objects, x, q)
            /\ Within(c, S) /\ InputsCovered(objects, S, q) => Within(x, S)
        BY <2>1, <3>1, DependenciesSound
      <3>6. q \in S.queries => InputsCovered(objects, S, q)
        BY <3>1 DEF ClosedUnder
      <3> HIDE DEF x
      <3>7. CASE x.err # "none"
        BY <3>2, <3>3, <3>5, <3>6, <3>7 DEF c, q, R
      <3>8. CASE x.err = "none" /\ ~Complete(objects, c)
        <4>1. /\ y.queries = x.queries \cup {q} /\ y.dataSources = x.dataSources
              /\ y.reports = x.reports /\ y.inputValues = x.inputValues /\ y.err = x.err
          BY <3>4, GrownFields
        <4> HIDE DEF y
        <4>2. R = y
          BY <3>2, <3>8
        <4>3. Kept(objects, c, y)
          BY <3>5, <3>8, <4>1 DEF Kept, Within
        <4>4. q \in y.queries /\ (Within(c, S) /\ q \in S.queries => Within(y, S))
          BY <3>5, <3>6, <4>1 DEF Within
        <4> QED BY <3>3, <4>2, <4>3, <4>4 DEF c, q, R
      <3>9. CASE x.err = "none" /\ Complete(objects, c)
        <4>1. InputsCovered(objects, x, q)
          BY <3>5, <3>9
        <4>2. /\ Kept(objects, x, y) /\ y.err = x.err /\ q \in y.queries
              /\ Within(x, S) /\ q \in S.queries => Within(y, S)
          <5>1. /\ y.queries = x.queries \cup {q} /\ y.dataSources = x.dataSources
                /\ y.reports = x.reports /\ y.inputValues = x.inputValues /\ y.err = x.err
            BY <3>4, GrownFields
          <5> HIDE DEF y
          <5> QED BY <4>1, <5>1, GrowsByQuery
        <4> HIDE DEF y
        <4>3. R = y
          BY <3>2, <3>9
        <4>4. Kept(objects, c, y)
          BY <3>5, <4>2, KeptIsTransitive
        <4> QED BY <3>3, <3>5, <3>6, <4>2, <4>3, <4>4 DEF c, q, R
      <3> QED BY <3>7, <3>8, <3>9
    <2>3. SoundAt(objects, S, m, r)
      BY <2>2 DEF SoundAt
    <2> QED BY <2>1, <2>3
  <1> HIDE DEF T
  <1>3. k \in T
    BY <1>1, <1>2, FromTheDeepest
  <1> QED BY <1>3 DEF T

(***************************************************************************)
(* A resolution without an error returns exactly what the query refers to, *)
(* directly or not: everything it returns exists, the result holds what    *)
(* the query's inputs refer to and with every object what that one refers  *)
(* to, and it lies within every other collection that does.  So a Report   *)
(* never runs without a dependency it has to wait for, and never waits for *)
(* an object it does not read (ResolveDependencies, dependencies.go:89).   *)
(***************************************************************************)
THEOREM ResolvesExactly ==
  ASSUME NEW objects, WellFormed(objects), NamesAgree(objects), NEW q \in DOMAIN objects.queries,
         NEW R, R = getQueryDependencies(objects, q, NoInputs), R.err = "none"
  PROVE  /\ R \in Contexts(objects)
         /\ InputsCovered(objects, R, q) /\ ClosedUnder(objects, R)
         /\ \A S : InputsCovered(objects, S, q) /\ ClosedUnder(objects, S) => Within(R, S)
  <1> DEFINE r == queriesResolved(objects)
  <1>1. R \in Contexts(objects)
    BY DependenciesExist
  <1>2. R = resolveDependencies(objects, NewContext, objects.queries[q], NoInputs, 0, r)
    BY DEF getQueryDependencies, ResolveDependencies
  <1>3. /\ NewContext \in Contexts(objects) /\ 0 \in 0..maxDepth /\ 0 + 1 \in 0..(maxDepth + 1)
        /\ NewContext.queries = {} /\ NewContext.dataSources = {} /\ NewContext.reports = {}
        /\ NewContext.inputValues = {}
    BY NewIsContext, ResolverAssumption DEF NewContext
  <1>4. Complete(objects, NewContext) /\ \A S : Within(NewContext, S)
    BY <1>3 DEF Complete, ClosedUnder, ValuesCovered, Within
  <1> HIDE DEF r
  <1>5. ASSUME NEW S, ClosedUnder(objects, S)
        PROVE  /\ Kept(objects, NewContext, R)
               /\ R.err = "none" /\ Complete(objects, NewContext) => InputsCovered(objects, R, q)
               /\ Within(NewContext, S) /\ InputsCovered(objects, S, q) => Within(R, S)
    <2>1. SoundAt(objects, S, 0 + 1, r)
      BY <1>3, <1>5, QueriesSound DEF r
    <2> QED BY <1>2, <1>3, <1>5, <2>1, DependenciesSound
  <1>6. ClosedUnder(objects, NewContext)
    BY <1>4 DEF Complete
  <1>7. Kept(objects, NewContext, R) /\ InputsCovered(objects, R, q)
    BY <1>4, <1>5, <1>6
  <1>8. ClosedUnder(objects, R)
    BY <1>4, <1>7 DEF Kept, Complete
  <1> QED BY <1>1, <1>4, <1>5, <1>7, <1>8

-----------------------------------------------------------------------------
(***************************************************************************)
(* When a resolution succeeds.  A collection is grounded if its objects    *)
(* exist, no input of its queries is malformed, and its queries have       *)
(* heights that fall with every reference: nothing refers back to itself.  *)
(***************************************************************************)

(* The query behind an input, if there is one, is lower than n.            *)
Lower(objects, h, def, n) ==
  def.default # Null =>
    /\ def.type # "malformed"
    /\ def.type = "ReportQuery" => h[def.default] < n
    /\ def.type = "ReportDataSource" /\ objects.dataSources[def.default] # Null =>
         h[objects.dataSources[def.default]] < n
    /\ def.type = "Report" => h[objects.reports[def.default]] < n

Grounded(objects, S, h) ==
  /\ ClosedUnder(objects, S)
  /\ S.queries \subseteq DOMAIN objects.queries
  /\ S.dataSources \subseteq DOMAIN objects.dataSources
  /\ S.reports \subseteq DOMAIN objects.reports
  /\ \A q \in S.queries :
       h[q] \in Nat /\ \A i \in 1..Len(objects.queries[q]) : Lower(objects, h, objects.queries[q][i], h[q])

(* A call within a grounded collection that has room for the nested ones.  *)
Fits(S, h, k, c, q) ==
  c.err = "none" /\ Within(c, S) /\ q \in S.queries /\ k + h[q] < maxDepth

SucceedsAt(objects, S, h, k, f) ==
  \A call \in Calls(objects) :
    call.depth = k /\ Fits(S, h, k, call.ctx, call.query) => f[call].err = "none"

LEMMA QuerySucceeds ==
  ASSUME NEW objects, NEW S, NEW h, Grounded(objects, S, h), NEW c \in Contexts(objects),
         NEW k \in 0..maxDepth, NEW f, SucceedsAt(objects, S, h, k, f), NEW q, Fits(S, h, k, c, q)
  PROVE  resolveQuery(objects, c, q, k, f).err = "none"
  <1>1. q \in DOMAIN objects.queries
    BY DEF Fits, Grounded
  <1>2. CASE q \in c.queries
    BY <1>2 DEF resolveQuery, Fits
  <1>3. CASE q \notin c.queries
    <2> DEFINE call == [ctx |-> c, query |-> q, depth |-> k]
    <2>1. resolveQuery(objects, c, q, k, f) = f[call]
      BY <1>1, <1>3 DEF resolveQuery
    <2>2. call \in Calls(objects) /\ call.ctx = c /\ call.query = q /\ call.depth = k
      BY <1>1, CallOf
    <2> HIDE DEF call
    <2>3. f[call].err = "none"
      BY <2>2 DEF SucceedsAt
    <2> QED BY <2>1, <2>3
  <1> QED BY <1>2, <1>3

(* n is the height of the query whose input it is, one level up.           *)
LEMMA ReferredSucceeds ==
  ASSUME NEW objects, NEW S, NEW h, Grounded(objects, S, h), NEW c \in Contexts(objects),
         c.err = "none", Within(c, S), NEW k \in 0..maxDepth, NEW f,
         SoundAt(objects, S, k, f), SucceedsAt(objects, S, h, k, f),
         NEW def, def.default # Null, Covered(S, def),
         NEW n \in Nat, k + n <= maxDepth, Lower(objects, h, def, n)
  PROVE  Referred(objects, c, def, def.default, k, f).err = "none"
  <1>1. ClosedUnder(objects, S)
    BY DEF Grounded
  <1>2. ASSUME NEW q \in S.queries, h[q] < n
        PROVE  Fits(S, h, k, c, q)
    <2>1. h[q] \in Nat
      BY DEF Grounded
    <2>2. k + h[q] < maxDepth
      BY <1>2, <2>1, ResolverAssumption
    <2> QED BY <2>2 DEF Fits
  <1>3. ASSUME NEW q \in S.queries, h[q] < n
        PROVE  resolveQuery(objects, c, q, k, f) \in Contexts(objects)
               /\ resolveQuery(objects, c, q, k, f).err = "none"
    BY <1>2, <1>3, QuerySucceeds, QueryTyped, SoundIsTyped
  <1>4. CASE def.type = "ReportQuery"
    BY <1>3, <1>4, ReferredIs DEF Covered, Lower
  <1>5. CASE def.type = "ReportDataSource"
    <2> DEFINE d == def.default
               q == objects.dataSources[d]
               x == IF q = Null THEN c ELSE resolveQuery(objects, c, q, k, f)
    <2>1. d \in S.dataSources /\ d \in DOMAIN objects.dataSources
      BY <1>5 DEF Covered, Grounded
    <2>2. x \in Contexts(objects) /\ x.err = "none"
      BY <1>1, <1>3, <1>5, <2>1 DEF Lower, ClosedUnder
    <2>3. resolveDataSource(objects, c, d, k, f)
            = IF d \in c.dataSources THEN c
              ELSE IF x.err # "none" THEN x ELSE [x EXCEPT !.dataSources = @ \cup {d}]
      BY <2>1 DEF resolveDataSource
    <2> HIDE DEF x, d
    <2>4. [x EXCEPT !.dataSources = @ \cup {d}].err = "none"
      BY <2>2, GrownFields
    <2>5. resolveDataSource(objects, c, d, k, f).err = "none"
      BY <2>2, <2>3, <2>4
    <2> QED BY <1>5, <2>5, ReferredIs DEF d
  <1>6. CASE def.type = "Report"
    <2> DEFINE r == def.default
               x == resolveQuery(objects, c, objects.reports[r], k, f)
    <2>1. r \in S.reports /\ r \in DOMAIN objects.reports
      BY <1>6 DEF Covered, Grounded
    <2>2. x \in Contexts(objects) /\ x.err = "none"
      BY <1>1, <1>3, <1>6, <2>1 DEF Lower, ClosedUnder
    <2>3. resolveReport(objects, c, r, k, f)
            = IF r \in c.reports THEN c
              ELSE IF x.err # "none" THEN x ELSE [x EXCEPT !.reports = @ \cup {r}]
      BY <2>1 DEF resolveReport
    <2> HIDE DEF x, r
    <2>4. [x EXCEPT !.reports = @ \cup {r}].err = "none"
      BY <2>2, GrownFields
    <2>5. resolveReport(objects, c, r, k, f).err = "none"
      BY <2>2, <2>3, <2>4
    <2> QED BY <1>6, <2>5, ReferredIs DEF r
  <1>7. CASE def.type \notin {"ReportQuery", "ReportDataSource", "Report"}
    BY <1>7, ReferredIs DEF Lower
  <1> QED BY <1>4, <1>5, <1>6, <1>7

LEMMA InputSucceeds ==
  ASSUME NEW objects, NEW S, NEW h, Grounded(objects, S, h), NEW c \in Contexts(objects),
         c.err = "none", Within(c, S), NEW k \in 0..maxDepth, NEW f,
         SoundAt(objects, S, k, f), SucceedsAt(objects, S, h, k, f),
         NEW def, Covered(S, def), NEW n \in Nat, k + n <= maxDepth, Lower(objects, h, def, n)
  PROVE  resolveInput(objects, c, def, NoInputs, k, f).err = "none"
  <1> DEFINE x == Referred(objects, c, def, def.default, k, f)
             y == [x EXCEPT !.inputValues = @ \cup {def.name}]
  <1>1. InputValue(def, NoInputs) = def.default
    BY DEF InputValue, NoInputs
  <1>2. resolveInput(objects, c, def, NoInputs, k, f)
          = IF c.err # "none" \/ def.name \in c.inputValues \/ def.default = Null THEN c
            ELSE IF x.err # "none" THEN x ELSE y
    BY <1>1, ResolveInputIs
  <1>3. CASE def.default = Null
    BY <1>2, <1>3
  <1>4. CASE def.default # Null
    <2>1. x.err = "none"
      BY <1>4, ReferredSucceeds
    <2>2. x \in Contexts(objects)
      BY <1>4, ReferredSound DEF Grounded
    <2> HIDE DEF x
    <2>3. y.err = "none"
      BY <2>1, <2>2, GrownFields
    <2> QED BY <1>2, <2>1, <2>3
  <1> QED BY <1>3, <1>4

LEMMA InputsSucceed ==
  ASSUME NEW objects, WellFormed(objects), NamesAgree(objects), NEW S, NEW h, Grounded(objects, S, h),
         NEW c \in Contexts(objects), NEW k \in 0..maxDepth, NEW f,
         SoundAt(objects, S, k, f), SucceedsAt(objects, S, h, k, f),
         NEW q \in S.queries, c.err = "none", Within(c, S), k + h[q] <= maxDepth
  PROVE  inputsResolved(objects, c, objects.queries[q], NoInputs, k, f)[Len(objects.queries[q])].err = "none"
  <1> DEFINE defs == objects.queries[q]
             a == inputsResolved(objects, c, defs, NoInputs, k, f)
             T == {m \in Nat : m <= Len(defs) => a[m].err = "none" /\ Within(a[m], S)}
  <1>1. ClosedUnder(objects, S) /\ q \in DOMAIN objects.queries /\ h[q] \in Nat
    BY DEF Grounded
  <1>2. Len(defs) \in Nat
    BY <1>1 DEF WellFormed
  <1>3. a[0] = c /\ \A m \in 1..Len(defs) : a[m] = resolveInput(objects, a[m - 1], defs[m], NoInputs, k, f)
    BY <1>2, InputsResolved
  <1>4. \A m \in 0..Len(defs) : a[m] \in Contexts(objects)
    BY <1>1, InputsTyped, SoundIsTyped
  <1> HIDE DEF a
  <1>5. 0 \in T
    BY <1>3
  <1>6. ASSUME NEW m \in Nat, m \in T
        PROVE  m + 1 \in T
    <2> SUFFICES ASSUME m + 1 <= Len(defs)
                 PROVE  a[m + 1].err = "none" /\ Within(a[m + 1], S)
      OBVIOUS
    <2>1. m + 1 \in 1..Len(defs) /\ (m + 1) - 1 = m /\ m <= Len(defs) /\ m \in 0..Len(defs)
      BY <1>2
    <2> DEFINE x == a[m]
               y == a[m + 1]
               i == m + 1
    <2>2. x \in Contexts(objects) /\ x.err = "none" /\ Within(x, S)
      BY <1>4, <1>6, <2>1
    <2>3. i \in 1..Len(objects.queries[q]) /\ y = resolveInput(objects, x, objects.queries[q][i], NoInputs, k, f)
      BY <1>3, <2>1
    <2>4. Covered(S, objects.queries[q][i]) /\ Lower(objects, h, objects.queries[q][i], h[q])
      BY <1>1, <2>3 DEF ClosedUnder, InputsCovered, Grounded
    <2> HIDE DEF x, y, i, T
    <2>5. y.err = "none"
      BY <1>1, <2>2, <2>3, <2>4, InputSucceeds
    <2>6. Within(y, S)
      BY <1>1, <2>2, <2>3, <2>4, InputSound
    <2> QED BY <2>5, <2>6 DEF y
  <1> HIDE DEF T
  <1>7. Len(defs) \in T
    BY <1>2, <1>5, <1>6, Induction
  <1>8. a[Len(defs)].err = "none"
    BY <1>2, <1>7 DEF T
  <1> QED BY <1>8 DEF a

LEMMA DependenciesSucceed ==
  ASSUME NEW objects, WellFormed(objects), NamesAgree(objects), NEW S, NEW h, Grounded(objects, S, h),
         NEW c \in Contexts(objects), NEW k \in 0..maxDepth, NEW f,
         SoundAt(objects, S, k + 1, f), SucceedsAt(objects, S, h, k + 1, f), NEW q, Fits(S, h, k, c, q)
  PROVE  resolveDependencies(objects, c, objects.queries[q], NoInputs, k, f).err = "none"
  <1>1. q \in S.queries /\ h[q] \in Nat /\ c.err = "none" /\ Within(c, S) /\ k + h[q] < maxDepth
    BY DEF Grounded, Fits
  <1> DEFINE d == k + 1
  <1>2. ~DepthExceeded(k) /\ d \in 0..maxDepth /\ d + h[q] <= maxDepth
    BY <1>1, ResolverAssumption DEF DepthExceeded
  <1>3. DOMAIN NoInputs \subseteq {objects.queries[q][i].name : i \in DOMAIN objects.queries[q]}
    BY DEF NoInputs
  <1>4. resolveDependencies(objects, c, objects.queries[q], NoInputs, k, f)
          = inputsResolved(objects, c, objects.queries[q], NoInputs, d, f)[Len(objects.queries[q])]
    BY <1>2, <1>3 DEF resolveDependencies
  <1>5. SoundAt(objects, S, d, f) /\ SucceedsAt(objects, S, h, d, f)
    OBVIOUS
  <1> HIDE DEF d
  <1> QED BY <1>1, <1>2, <1>4, <1>5, InputsSucceed

LEMMA QueriesSucceed ==
  ASSUME NEW objects, WellFormed(objects), NamesAgree(objects), NEW S, NEW h, Grounded(objects, S, h),
         NEW k \in 0..(maxDepth + 1)
  PROVE  SucceedsAt(objects, S, h, k, queriesResolved(objects))
  <1> DEFINE r == queriesResolved(objects)
             T == {m \in 0..(maxDepth + 1) : SucceedsAt(objects, S, h, m, r)}
  <1>1. maxDepth + 1 \in T
    <2>1. SucceedsAt(objects, S, h, maxDepth + 1, r)
      BY CallParts, ResolverAssumption DEF SucceedsAt
    <2> QED BY <2>1, ResolverAssumption
  <1>2. ASSUME NEW m \in 0..maxDepth, m + 1 \in T
        PROVE  m \in T
    <2>1. m \in 0..(maxDepth + 1) /\ m + 1 \in 0..(maxDepth + 1) /\ SucceedsAt(objects, S, h, m + 1, r)
      BY <1>2, ResolverAssumption
    <2>2. SoundAt(objects, S, m + 1, r)
      BY <2>1, QueriesSound DEF Grounded
    <2>3. ASSUME NEW call \in Calls(objects), call.depth = m, Fits(S, h, m, call.ctx, call.query)
          PROVE  r[call].err = "none"
      <3> DEFINE c == call.ctx
                 q == call.query
                 x == resolveDependencies(objects, c, objects.queries[q], NoInputs, m, r)
                 y == [x EXCEPT !.queries = @ \cup {q}]
      <3>1. c \in Contexts(objects) /\ q \in DOMAIN objects.queries /\ Fits(S, h, m, c, q)
        BY <2>3, CallParts
      <3>2. r[call] = IF x.err # "none" THEN x ELSE y
        BY <2>3, QueriesResolved DEF Returned
      <3> HIDE DEF c, q, r, T
      <3>3. x \in Contexts(objects)
        BY <2>2, <3>1, SoundIsTyped, DependenciesTyped
      <3>4. x.err = "none"
        BY <2>1, <2>2, <3>1, DependenciesSucceed
      <3> HIDE DEF x
      <3>5. y.err = "none"
        BY <3>3, <3>4, GrownFields
      <3> QED BY <3>2, <3>4, <3>5
    <2>4. SucceedsAt(objects, S, h, m, r)
      BY <2>3 DEF SucceedsAt
    <2> QED BY <2>1, <2>4
  <1> HIDE DEF T
  <1>3. k \in T
    BY <1>1, <1>2, FromTheDeepest
  <1> QED BY <1>3 DEF T

(***************************************************************************)
(* A query is resolved if everything it refers to exists and refers to     *)
(* nothing above it, to fewer levels than maxDepth: neither an order of    *)
(* the inputs nor what has been resolved before makes it fail, and only    *)
(* what is deeper than the limit is taken for a cycle (dependencies.go:96).*)
(***************************************************************************)
THEOREM ResolvesWhatExists ==
  ASSUME NEW objects, WellFormed(objects), NamesAgree(objects),
         NEW S, NEW h, Grounded(objects, S, h), NEW q \in S.queries, h[q] < maxDepth
  PROVE  getQueryDependencies(objects, q, NoInputs).err = "none"
  <1> DEFINE r == queriesResolved(objects)
  <1>1. q \in DOMAIN objects.queries /\ h[q] \in Nat
    BY DEF Grounded
  <1>2. /\ NewContext \in Contexts(objects) /\ 0 \in 0..maxDepth /\ 0 + 1 \in 0..(maxDepth + 1)
        /\ NewContext.err = "none" /\ Within(NewContext, S) /\ 0 + h[q] < maxDepth
    BY <1>1, NewIsContext, ResolverAssumption DEF NewContext, Within
  <1>3. Fits(S, h, 0, NewContext, q)
    BY <1>2 DEF Fits
  <1>4. SoundAt(objects, S, 0 + 1, r) /\ SucceedsAt(objects, S, h, 0 + 1, r)
    BY <1>2, QueriesSound, QueriesSucceed DEF Grounded
  <1> HIDE DEF r
  <1>5. resolveDependencies(objects, NewContext, objects.queries[q], NoInputs, 0, r).err = "none"
    BY <1>2, <1>3, <1>4, DependenciesSucceed
  <1> QED BY <1>1, <1>5 DEF getQueryDependencies, ResolveDependencies, r

-----------------------------------------------------------------------------
(***************************************************************************)
(* When it does not.  Z is a set of queries each of which refers to        *)
(* another of them or to itself: a cycle, with what leads to it.           *)
(***************************************************************************)

RefersInto(objects, Z, def) ==
  /\ def.default # Null
  /\ \/ def.type = "ReportQuery" /\ def.default \in Z
     \/ def.type = "ReportDataSource" /\ objects.dataSources[def.default] \in Z
     \/ def.type = "Report" /\ objects.reports[def.default] \in Z

Circular(objects, Z) ==
  /\ Null \notin Z
  /\ \A q \in Z \cap DOMAIN objects.queries :
       \E i \in 1..Len(objects.queries[q]) : RefersInto(objects, Z, objects.queries[q][i])

Free(Z, c) == c.queries \cap Z = {}

FreeAt(objects, Z, k, f) ==
  \A call \in Calls(objects) :
    call.depth = k /\ Complete(objects, call.ctx) /\ Free(Z, call.ctx) /\ f[call].err = "none"
      => Free(Z, f[call])

(* The first of them to be added would have had to come after another.     *)
LEMMA NoneIsFirst ==
  ASSUME NEW objects, NEW Z, Circular(objects, Z), NEW c \in Contexts(objects), Complete(objects, c),
         Free(Z, c), NEW q \in DOMAIN objects.queries, InputsCovered(objects, c, q)
  PROVE  q \notin Z
  <1> SUFFICES ASSUME q \in Z
               PROVE  FALSE
    OBVIOUS
  <1>1. PICK i \in 1..Len(objects.queries[q]) : RefersInto(objects, Z, objects.queries[q][i])
    BY DEF Circular
  <1> DEFINE def == objects.queries[q][i]
  <1>2. Covered(c, def)
    BY DEF InputsCovered
  <1>3. c.dataSources \subseteq DOMAIN objects.dataSources /\ c.reports \subseteq DOMAIN objects.reports
    BY DEF Contexts
  <1>4. CASE def.type = "ReportQuery" /\ def.default \in Z
    BY <1>1, <1>2, <1>4 DEF RefersInto, Covered, Free
  <1>5. CASE def.type = "ReportDataSource" /\ objects.dataSources[def.default] \in Z
    <2>1. def.default \in c.dataSources
      BY <1>1, <1>2, <1>5 DEF RefersInto, Covered
    <2>2. objects.dataSources[def.default] \in c.queries
      BY <1>3, <1>5, <2>1 DEF Complete, ClosedUnder, Circular
    <2> QED BY <1>5, <2>2 DEF Free
  <1>6. CASE def.type = "Report" /\ objects.reports[def.default] \in Z
    <2>1. def.default \in c.reports
      BY <1>1, <1>2, <1>6 DEF RefersInto, Covered
    <2>2. objects.reports[def.default] \in c.queries
      BY <1>3, <2>1 DEF Complete, ClosedUnder
    <2> QED BY <1>6, <2>2 DEF Free
  <1> QED BY <1>1, <1>4, <1>5, <1>6 DEF RefersInto

LEMMA QueryFree ==
  ASSUME NEW objects, NEW Z, NEW c \in Contexts(objects), Complete(objects, c), Free(Z, c),
         NEW k \in 0..maxDepth, NEW f, FreeAt(objects, Z, k, f),
         NEW q, resolveQuery(objects, c, q, k, f).err = "none"
  PROVE  Free(Z, resolveQuery(objects, c, q, k, f))
  <1>1. CASE q \in c.queries
    BY <1>1 DEF resolveQuery
  <1>2. CASE q \notin c.queries /\ q \notin DOMAIN objects.queries
    <2>1. resolveQuery(objects, c, q, k, f) = Failed(c, "notFound")
      BY <1>2 DEF resolveQuery
    <2> QED BY <2>1, KeptByFailure
  <1>3. CASE q \notin c.queries /\ q \in DOMAIN objects.queries
    <2> DEFINE call == [ctx |-> c, query |-> q, depth |-> k]
    <2>1. resolveQuery(objects, c, q, k, f) = f[call]
      BY <1>3 DEF resolveQuery
    <2>2. call \in Calls(objects) /\ call.ctx = c /\ call.query = q /\ call.depth = k
      BY <1>3, CallOf
    <2> HIDE DEF call
    <2> QED BY <2>1, <2>2 DEF FreeAt
  <1> QED BY <1>1, <1>2, <1>3

LEMMA ReferredFree ==
  ASSUME NEW objects, NEW Z, NEW c \in Contexts(objects), Complete(objects, c), Free(Z, c),
         NEW k \in 0..maxDepth, NEW f, TypedAt(objects, k, f), FreeAt(objects, Z, k, f),
         NEW def, NEW v, Referred(objects, c, def, v, k, f).err = "none"
  PROVE  Free(Z, Referred(objects, c, def, v, k, f))
  <1>1. CASE def.type = "ReportQuery"
    BY <1>1, ReferredIs, QueryFree
  <1>2. CASE def.type = "ReportDataSource"
    <2> DEFINE q == objects.dataSources[v]
               x == IF q = Null THEN c ELSE resolveQuery(objects, c, q, k, f)
               R == resolveDataSource(objects, c, v, k, f)
    <2>1. R.err = "none" /\ Referred(objects, c, def, v, k, f) = R
      BY <1>2, ReferredIs
    <2>2. CASE v \in c.dataSources
      BY <2>1, <2>2 DEF resolveDataSource
    <2>3. CASE v \notin c.dataSources /\ v \notin DOMAIN objects.dataSources
      <3>1. R = Failed(c, "notFound")
        BY <2>3 DEF resolveDataSource
      <3> QED BY <2>1, <3>1, KeptByFailure
    <2>4. CASE v \notin c.dataSources /\ v \in DOMAIN objects.dataSources
      <3>1. R = IF x.err # "none" THEN x ELSE [x EXCEPT !.dataSources = @ \cup {v}]
        BY <2>4 DEF resolveDataSource
      <3>2. x \in Contexts(objects) /\ (x.err = "none" => Free(Z, x))
        BY QueryTyped, QueryFree
      <3> HIDE DEF x, R
      <3>3. x.err = "none" /\ R = [x EXCEPT !.dataSources = @ \cup {v}]
        BY <2>1, <3>1
      <3>4. R.queries = x.queries
        BY <3>2, <3>3, GrownFields
      <3> QED BY <2>1, <3>2, <3>3, <3>4 DEF Free
    <2> QED BY <2>2, <2>3, <2>4
  <1>3. CASE def.type = "Report"
    <2> DEFINE x == resolveQuery(objects, c, objects.reports[v], k, f)
               R == resolveReport(objects, c, v, k, f)
    <2>1. R.err = "none" /\ Referred(objects, c, def, v, k, f) = R
      BY <1>3, ReferredIs
    <2>2. CASE v \in c.reports
      BY <2>1, <2>2 DEF resolveReport
    <2>3. CASE v \notin c.reports /\ v \notin DOMAIN objects.reports
      <3>1. R = Failed(c, "notFound")
        BY <2>3 DEF resolveReport
      <3> QED BY <2>1, <3>1, KeptByFailure
    <2>4. CASE v \notin c.reports /\ v \in DOMAIN objects.reports
      <3>1. R = IF x.err # "none" THEN x ELSE [x EXCEPT !.reports = @ \cup {v}]
        BY <2>4 DEF resolveReport
      <3>2. x \in Contexts(objects) /\ (x.err = "none" => Free(Z, x))
        BY QueryTyped, QueryFree
      <3> HIDE DEF x, R
      <3>3. x.err = "none" /\ R = [x EXCEPT !.reports = @ \cup {v}]
        BY <2>1, <3>1
      <3>4. R.queries = x.queries
        BY <3>2, <3>3, GrownFields
      <3> QED BY <2>1, <3>2, <3>3, <3>4 DEF Free
    <2> QED BY <2>2, <2>3, <2>4
  <1>4. CASE def.type = "malformed"
    <2>1. Referred(objects, c, def, v, k, f) = Failed(c, "invalid")
      BY <1>4, ReferredIs
    <2> QED BY <2>1, KeptByFailure
  <1>5. CASE def.type \notin {"ReportQuery", "ReportDataSource", "Report", "malformed"}
    BY <1>5, ReferredIs
  <1> QED BY <1>1, <1>2, <1>3, <1>4, <1>5

LEMMA InputFree ==
  ASSUME NEW objects, NEW Z, NEW c \in Contexts(objects), Complete(objects, c), Free(Z, c),
         NEW k \in 0..maxDepth, NEW f, TypedAt(objects, k, f), FreeAt(objects, Z, k, f),
         NEW def, NEW R, R = resolveInput(objects, c, def, NoInputs, k, f), R.err = "none"
  PROVE  Free(Z, R)
  <1> DEFINE v == InputValue(def, NoInputs)
             x == Referred(objects, c, def, v, k, f)
  <1>1. R = IF c.err # "none" \/ def.name \in c.inputValues \/ v = Null THEN c
            ELSE IF x.err # "none" THEN x ELSE [x EXCEPT !.inputValues = @ \cup {def.name}]
    BY ResolveInputIs
  <1>2. x \in Contexts(objects)
    BY ReferredTyped
  <1>3. x.err = "none" => Free(Z, x)
    BY ReferredFree
  <1> HIDE DEF v, x
  <1>4. CASE R = c
    BY <1>4
  <1>5. CASE x.err = "none" /\ R = [x EXCEPT !.inputValues = @ \cup {def.name}]
    <2>1. R.queries = x.queries
      BY <1>2, <1>5, GrownFields
    <2> QED BY <1>3, <1>5, <2>1 DEF Free
  <1> QED BY <1>1, <1>4, <1>5

LEMMA InputsFree ==
  ASSUME NEW objects, WellFormed(objects), NamesAgree(objects), NEW Z, NEW S, ClosedUnder(objects, S),
         NEW c \in Contexts(objects), Complete(objects, c), Free(Z, c), NEW k \in 0..maxDepth, NEW f,
         SoundAt(objects, S, k, f), FreeAt(objects, Z, k, f), NEW q \in DOMAIN objects.queries,
         NEW R, R = inputsResolved(objects, c, objects.queries[q], NoInputs, k, f)[Len(objects.queries[q])],
         R.err = "none"
  PROVE  Free(Z, R)
  <1> DEFINE defs == objects.queries[q]
             a == inputsResolved(objects, c, defs, NoInputs, k, f)
             P(m) == a[m].err = "none" => Free(Z, a[m]) /\ Complete(objects, a[m])
             T == {m \in Nat : m <= Len(defs) => P(m)}
  <1>1. Len(defs) \in Nat
    BY DEF WellFormed
  <1>2. a[0] = c /\ \A m \in 1..Len(defs) : a[m] = resolveInput(objects, a[m - 1], defs[m], NoInputs, k, f)
    BY <1>1, InputsResolved
  <1>3. \A m \in 0..Len(defs) : a[m] \in Contexts(objects)
    BY InputsTyped, SoundIsTyped
  <1> HIDE DEF a
  <1>4. 0 \in T
    BY <1>2
  <1>5. ASSUME NEW m \in Nat, m \in T
        PROVE  m + 1 \in T
    <2> SUFFICES ASSUME m + 1 <= Len(defs), a[m + 1].err = "none"
                 PROVE  Free(Z, a[m + 1]) /\ Complete(objects, a[m + 1])
      OBVIOUS
    <2>1. m + 1 \in 1..Len(defs) /\ (m + 1) - 1 = m /\ m <= Len(defs) /\ m \in 0..Len(defs)
      BY <1>1
    <2> DEFINE x == a[m]
               y == a[m + 1]
               i == m + 1
    <2>2. x \in Contexts(objects) /\ P(m)
      BY <1>3, <1>5, <2>1
    <2>3. i \in 1..Len(objects.queries[q]) /\ y = resolveInput(objects, x, objects.queries[q][i], NoInputs, k, f)
      BY <1>2, <2>1
    <2>4. y.err = "none" /\ (x.err = "none" => Free(Z, x) /\ Complete(objects, x))
      BY <2>2
    <2> HIDE DEF x, y, i, T
    <2>5. Kept(objects, x, y) /\ x.err = "none"
      BY <2>2, <2>3, <2>4, InputSound
    <2>6. Free(Z, y)
      BY <2>2, <2>3, <2>4, <2>5, InputFree, SoundIsTyped
    <2>7. Complete(objects, y)
      BY <2>4, <2>5 DEF Kept
    <2> QED BY <2>6, <2>7 DEF y
  <1> HIDE DEF T
  <1>6. Len(defs) \in T
    BY <1>1, <1>4, <1>5, Induction
  <1>7. P(Len(defs))
    BY <1>1, <1>6 DEF T
  <1> QED BY <1>7 DEF a

LEMMA DependenciesFree ==
  ASSUME NEW objects, WellFormed(objects), NamesAgree(objects), NEW Z, NEW S, ClosedUnder(objects, S),
         NEW c \in Contexts(objects), Complete(objects, c), Free(Z, c), NEW k \in 0..maxDepth, NEW f,
         SoundAt(objects, S, k + 1, f), FreeAt(objects, Z, k + 1, f), NEW q \in DOMAIN objects.queries,
         NEW R, R = resolveDependencies(objects, c, objects.queries[q], NoInputs, k, f), R.err = "none"
  PROVE  Free(Z, R)
  <1>1. CASE DepthExceeded(k)
    <2>1. R = Failed(c, "cycle")
      BY <1>1 DEF resolveDependencies
    <2> QED BY <2>1, KeptByFailure
  <1>2. CASE ~DepthExceeded(k)
    <2> DEFINE d == k + 1
    <2>1. d \in 0..maxDepth /\ SoundAt(objects, S, d, f) /\ FreeAt(objects, Z, d, f)
      BY <1>2, ResolverAssumption DEF DepthExceeded
    <2>2. DOMAIN NoInputs \subseteq {objects.queries[q][i].name : i \in DOMAIN objects.queries[q]}
      BY DEF NoInputs
    <2>3. R = inputsResolved(objects, c, objects.queries[q], NoInputs, d, f)[Len(objects.queries[q])]
      BY <1>2, <2>2 DEF resolveDependencies
    <2> HIDE DEF d
    <2> QED BY <2>1, <2>3, InputsFree
  <1> QED BY <1>1, <1>2

LEMMA QueriesFree ==
  ASSUME NEW objects, WellFormed(objects), NamesAgree(objects), NEW Z, Circular(objects, Z),
         NEW S, ClosedUnder(objects, S), NEW k \in 0..(maxDepth + 1)
  PROVE  FreeAt(objects, Z, k, queriesResolved(objects))
  <1> DEFINE r == queriesResolved(objects)
             T == {m \in 0..(maxDepth + 1) : FreeAt(objects, Z, m, r)}
  <1>1. maxDepth + 1 \in T
    <2>1. FreeAt(objects, Z, maxDepth + 1, r)
      BY CallParts, ResolverAssumption DEF FreeAt
    <2> QED BY <2>1, ResolverAssumption
  <1>2. ASSUME NEW m \in 0..maxDepth, m + 1 \in T
        PROVE  m \in T
    <2>1. m \in 0..(maxDepth + 1) /\ m + 1 \in 0..(maxDepth + 1) /\ FreeAt(objects, Z, m + 1, r)
      BY <1>2, ResolverAssumption
    <2>2. SoundAt(objects, S, m + 1, r)
      BY <2>1, QueriesSound
    <2>3. ASSUME NEW call \in Calls(objects), call.depth = m, Complete(objects, call.ctx),
                 Free(Z, call.ctx), r[call].err = "none"
          PROVE  Free(Z, r[call])
      <3> DEFINE c == call.ctx
                 q == call.query
                 x == resolveDependencies(objects, c, objects.queries[q], NoInputs, m, r)
                 R == r[call]
      <3>1. /\ c \in Contexts(objects) /\ q \in DOMAIN objects.queries
            /\ Complete(objects, c) /\ Free(Z, c) /\ R.err = "none"
        BY <2>3, CallParts
      <3>2. R = IF x.err # "none" THEN x ELSE [x EXCEPT !.queries = @ \cup {q}]
        BY <2>3, QueriesResolved DEF Returned
      <3> HIDE DEF c, q, r, R, T
      <3>3. x \in Contexts(objects)
        BY <2>2, <3>1, SoundIsTyped, DependenciesTyped
      <3>4. x.err = "none" => Free(Z, x)
        BY <2>1, <2>2, <3>1, DependenciesFree
      <3>5. Kept(objects, c, x) /\ (x.err = "none" /\ Complete(objects, c) => InputsCovered(objects, x, q))
        BY <2>2, <3>1, DependenciesSound
      <3> HIDE DEF x
      <3>6. x.err = "none" /\ R = [x EXCEPT !.queries = @ \cup {q}]
        BY <3>1, <3>2
      <3>7. R.queries = x.queries \cup {q}
        BY <3>3, <3>6, GrownFields
      <3>8. Complete(objects, x) /\ Free(Z, x) /\ InputsCovered(objects, x, q)
        BY <3>1, <3>4, <3>5, <3>6 DEF Kept
      <3>9. q \notin Z
        BY <3>1, <3>3, <3>8, NoneIsFirst
      <3>10. Free(Z, R)
        BY <3>7, <3>8, <3>9 DEF Free
      <3> QED BY <3>10 DEF R
    <2>4. FreeAt(objects, Z, m, r)
      BY <2>3 DEF FreeAt
    <2> QED BY <2>1, <2>4
  <1> HIDE DEF T
  <1>3. k \in T
    BY <1>1, <1>2, FromTheDeepest
  <1> QED BY <1>3 DEF T

(***************************************************************************)
(* Queries that refer to each other in a circle, and all that lead to one, *)
(* are never resolved: the depth limit ends the recursion with an error,   *)
(* not with a part of the result, and the memory of what is resolved never *)
(* hides the circle (resolveDependencies, dependencies.go:96).             *)
(***************************************************************************)
THEOREM CyclesFail ==
  ASSUME NEW objects, WellFormed(objects), NamesAgree(objects), NEW Z, Circular(objects, Z), NEW q \in Z
  PROVE  getQueryDependencies(objects, q, NoInputs).err # "none"
  <1> DEFINE r == queriesResolved(objects)
             R == getQueryDependencies(objects, q, NoInputs)
  <1>1. CASE q \notin DOMAIN objects.queries
    <2>1. R = Failed(NewContext, "notFound")
      BY <1>1 DEF getQueryDependencies
    <2> QED BY <2>1, NewIsContext, KeptByFailure
  <1>2. CASE q \in DOMAIN objects.queries
    <2> SUFFICES ASSUME R.err = "none"
                 PROVE  FALSE
      OBVIOUS
    <2>1. R = resolveDependencies(objects, NewContext, objects.queries[q], NoInputs, 0, r)
      BY <1>2 DEF getQueryDependencies, ResolveDependencies
    <2>2. R \in Contexts(objects) /\ InputsCovered(objects, R, q) /\ ClosedUnder(objects, R)
      BY <1>2, ResolvesExactly
    <2>3. /\ NewContext \in Contexts(objects) /\ 0 \in 0..maxDepth /\ 0 + 1 \in 0..(maxDepth + 1)
          /\ NewContext.queries = {} /\ NewContext.dataSources = {} /\ NewContext.reports = {}
          /\ NewContext.inputValues = {}
      BY NewIsContext, ResolverAssumption DEF NewContext
    <2>4. Complete(objects, NewContext) /\ Free(Z, NewContext)
      BY <2>3 DEF Complete, ClosedUnder, ValuesCovered, Free
    <2>5. SoundAt(objects, R, 0 + 1, r) /\ FreeAt(objects, Z, 0 + 1, r)
      BY <2>2, <2>3, QueriesSound, QueriesFree
    <2> HIDE DEF r, R
    <2>6. Free(Z, R)
      BY <1>2, <2>1, <2>2, <2>3, <2>4, <2>5, DependenciesFree
    <2>7. Kept(objects, NewContext, R)
      BY <1>2, <2>1, <2>2, <2>3, <2>5, DependenciesSound
    <2>8. Complete(objects, R)
      BY <2>4, <2>7 DEF Kept
    <2> QED BY <1>2, <2>2, <2>6, <2>8, NoneIsFirst
  <1> QED BY <1>1, <1>2

-----------------------------------------------------------------------------
(* The resolver in the controllers                                         *)

LEMMA ObjectsWellFormed ==
  ASSUME NEW ds, NEW qs \in SUBSET Queries, NEW rs
  PROVE  /\ WellFormed(Objects(ds, qs, rs))
         /\ DOMAIN Objects(ds, qs, rs).queries = qs
         /\ DOMAIN Objects(ds, qs, rs).dataSources = ds
         /\ DOMAIN Objects(ds, qs, rs).reports = rs
  <1>1. /\ DOMAIN Objects(ds, qs, rs).queries = qs
        /\ DOMAIN Objects(ds, qs, rs).dataSources = ds
        /\ DOMAIN Objects(ds, qs, rs).reports = rs
        /\ \A q \in qs : Objects(ds, qs, rs).queries[q] = InputsOf[q]
    BY DEF Objects
  <1>2. ASSUME NEW q \in Queries
        PROVE  Len(InputsOf[q]) \in Nat /\ DOMAIN InputsOf[q] = 1..Len(InputsOf[q])
    <2> DEFINE D == {InputsOf[q][i] : i \in DOMAIN InputsOf[q]}
    <2>1. InputsOf[q] \in Seq(D)
      BY ViewsAssumption
    <2> HIDE DEF D
    <2> QED BY <2>1
  <1> QED BY <1>1, <1>2 DEF WellFormed

LEMMA QueryDepsExist ==
  ASSUME NEW ds \in SUBSET DataSources, NEW qs \in SUBSET Queries, NEW rs \in SUBSET Reports, NEW q \in Queries
  PROVE  QueryDeps[<<ds, qs, rs>>][q].dataSources \subseteq ds
  <1>1. QueryDeps[<<ds, qs, rs>>][q] = getQueryDependencies(Objects(ds, qs, rs), q, NoInputs)
    BY DEF QueryDeps, World
  <1>2. getQueryDependencies(Objects(ds, qs, rs), q, NoInputs) \in Contexts(Objects(ds, qs, rs))
    BY ObjectsWellFormed, DependenciesExist
  <1>3. getQueryDependencies(Objects(ds, qs, rs), q, NoInputs).dataSources \subseteq ds
    BY <1>2, ObjectsWellFormed DEF Contexts
  <1> QED BY <1>1, <1>3

LEMMA CachedDependencies ==
  ASSUME TypeOK, NEW q \in Queries
  PROVE  cachedDependencies(q).dataSources \subseteq Existing(cache)
  <1>1. Existing(cache) \in SUBSET DataSources
    BY DEF Existing
  <1>2. cachedQueries \in SUBSET Queries /\ cachedReports \in SUBSET Reports
    BY DEF TypeOK
  <1> QED BY <1>1, <1>2, QueryDepsExist DEF cachedDependencies, Cached

-----------------------------------------------------------------------------
(* The invariant of the controllers                                        *)

(* A tableRef in a cache is a stored one, and what a view is about to be   *)
(* created over has its tables.                                            *)
TablesReady ==
  \A d \in DataSources :
    /\ cache[d].tableRef => obj[d].tableRef
    /\ \A e \in work[d].reads : obj[e].tableRef

ViewsInv == TypeOK /\ TablesReady

WorkRecord == [ pc : Steps, copy : ReportDataSource, reads : SUBSET DataSources, announces : BOOLEAN ]

(* A tableRef is never taken off.                                          *)
RefsStay == \A d \in DataSources : obj[d].tableRef => obj'[d].tableRef

LEMMA IdleIsWork == Idle \in WorkRecord /\ Idle.reads = {} /\ NewDataSource \in ReportDataSource
  BY DEF Idle, WorkRecord, Steps, NewDataSource, ReportDataSource

LEMMA ViewsInit == Init => ViewsInv
  <1> SUFFICES ASSUME Init
               PROVE  ViewsInv
    OBVIOUS
  <1>1. setup \in Setups /\ setup.maxFaults \in Nat /\ setup.late \subseteq Queries
    BY ViewsAssumption DEF Init
  <1>2. 0 \in 0..maxRequeues /\ 0 \in 0..setup.maxFaults
    BY <1>1, ViewsAssumption
  <1>3. TypeOK
    <2>1. obj \in [DataSources -> ReportDataSource] /\ cache \in [DataSources -> ReportDataSource]
      BY IdleIsWork DEF Init
    <2>2. work \in [DataSources -> WorkRecord] /\ table \in [DataSources -> (SUBSET DataSources) \cup {Null}]
      BY IdleIsWork DEF Init
    <2>3. tries \in [DataSources -> 0..maxRequeues] /\ faults \in 0..setup.maxFaults
      BY <1>2 DEF Init
    <2>4. /\ queries \subseteq Queries /\ cachedQueries \subseteq Queries /\ queryQueue \subseteq Queries
          /\ reports \subseteq Reports /\ cachedReports \subseteq Reports /\ reportQueue \subseteq Reports
          /\ valid \subseteq Reports /\ dsQueue \subseteq DataSources /\ stripped \subseteq DataSources
      BY <1>1 DEF Init
    <2> QED BY <1>1, <2>1, <2>2, <2>3, <2>4 DEF TypeOK, WorkRecord
  <1>4. TablesReady
    BY IdleIsWork DEF Init, TablesReady, NewDataSource
  <1> QED BY <1>3, <1>4 DEF ViewsInv

(* What the ends of a sync do to the worker.                               *)
LEMMA FailTyped ==
  ASSUME TypeOK, NEW d \in DataSources, Fail(d)
  PROVE  /\ work' \in [DataSources -> WorkRecord] /\ tries' \in [DataSources -> 0..maxRequeues]
         /\ dsQueue' \subseteq DataSources
         /\ \A e \in DataSources : work'[e].reads \subseteq work[e].reads
  <1>1. work \in [DataSources -> WorkRecord]
    BY DEF TypeOK, WorkRecord
  <1>2. work' \in [DataSources -> WorkRecord] /\ \A e \in DataSources : work'[e].reads \subseteq work[e].reads
    BY <1>1, IdleIsWork DEF Fail
  <1>3. tries[d] \in 0..maxRequeues /\ maxRequeues \in Nat
    BY ViewsAssumption DEF TypeOK
  <1>4. (IF tries[d] < maxRequeues THEN tries[d] + 1 ELSE 0) \in 0..maxRequeues
    BY <1>3
  <1>5. tries' \in [DataSources -> 0..maxRequeues]
    BY <1>4 DEF Fail, TypeOK
  <1> QED BY <1>2, <1>5 DEF Fail, TypeOK

LEMMA DoneTyped ==
  ASSUME TypeOK, NEW d \in DataSources, Done(d)
  PROVE  /\ work' \in [DataSources -> WorkRecord] /\ tries' \in [DataSources -> 0..maxRequeues]
         /\ \A e \in DataSources : work'[e].reads \subseteq work[e].reads
  <1>1. work \in [DataSources -> WorkRecord]
    BY DEF TypeOK, WorkRecord
  <1>2. work' \in [DataSources -> WorkRecord] /\ \A e \in DataSources : work'[e].reads \subseteq work[e].reads
    BY <1>1, IdleIsWork DEF Done
  <1>3. 0 \in 0..maxRequeues
    BY ViewsAssumption
  <1> QED BY <1>2, <1>3 DEF Done, TypeOK

LEMMA GotoTyped ==
  ASSUME TypeOK, NEW d \in DataSources, NEW step \in Steps, Goto(d, step)
  PROVE  /\ work' \in [DataSources -> WorkRecord] /\ tries' \in [DataSources -> 0..maxRequeues]
         /\ \A e \in DataSources : work'[e].reads \subseteq work[e].reads
  <1>1. work \in [DataSources -> WorkRecord]
    BY DEF TypeOK, WorkRecord
  <1>2. work' = [work EXCEPT ![d].pc = step] /\ tries' = tries
    BY DEF Goto
  <1>3. work' \in [DataSources -> WorkRecord] /\ \A e \in DataSources : work'[e].reads \subseteq work[e].reads
    BY <1>1, <1>2 DEF WorkRecord
  <1> QED BY <1>2, <1>3 DEF TypeOK

-----------------------------------------------------------------------------
(* Steps                                                                   *)

(* What a step may do to the caches and to what is read.                   *)
Prepared ==
  /\ RefsStay
  /\ \A d \in DataSources : cache'[d].tableRef => cache[d].tableRef \/ obj[d].tableRef
  /\ \A d \in DataSources : \A e \in work'[d].reads : e \in work[d].reads \/ obj[e].tableRef

LEMMA ReadyKept ==
  ASSUME ViewsInv, TypeOK', Prepared
  PROVE  ViewsInv'
  <1>1. \A d \in DataSources : work'[d].reads \subseteq DataSources
    BY DEF TypeOK
  <1>2. ASSUME NEW d \in DataSources
        PROVE  cache'[d].tableRef => obj'[d].tableRef
    BY DEF Prepared, RefsStay, ViewsInv, TablesReady
  <1>3. ASSUME NEW d \in DataSources, NEW e \in work'[d].reads
        PROVE  obj'[e].tableRef
    <2>1. e \in DataSources /\ obj[e].tableRef
      BY <1>1, <1>3 DEF Prepared, ViewsInv, TablesReady
    <2> QED BY <2>1 DEF Prepared, RefsStay
  <1>4. TablesReady'
    BY <1>2, <1>3 DEF TablesReady
  <1> QED BY <1>4 DEF ViewsInv

(* Users: only objects come, go or get a table.                            *)
LEMMA UsersKeep ==
  ASSUME ViewsInv, UNCHANGED setup,
         UNCHANGED <<cache, stripped, cachedQueries, cachedReports, valid,
                     dsQueue, queryQueue, reportQueue, tries, work, faults>>,
         obj' \in [DataSources -> ReportDataSource], RefsStay, queries' \subseteq Queries,
         reports' \subseteq Reports, table' \in [DataSources -> (SUBSET DataSources) \cup {Null}]
  PROVE  ViewsInv'
  <1>1. TypeOK'
    BY DEF ViewsInv, TypeOK
  <1>2. Prepared
    BY DEF Prepared
  <1> QED BY <1>1, <1>2, ReadyKept

LEMMA CreateDataSourceKeeps ==
  ASSUME ViewsInv, UNCHANGED setup, NEW d \in DataSources, createDataSource(d)
  PROVE  ViewsInv'
  <1>1. obj \in [DataSources -> ReportDataSource] /\ obj' = [obj EXCEPT ![d].phase = "live"]
    BY DEF ViewsInv, TypeOK, createDataSource
  <1>2. obj' \in [DataSources -> ReportDataSource] /\ RefsStay
    BY <1>1 DEF ReportDataSource, RefsStay
  <1> QED BY <1>2, UsersKeep DEF createDataSource, ViewsInv, TypeOK

LEMMA DeleteDataSourceKeeps ==
  ASSUME ViewsInv, UNCHANGED setup, NEW d \in DataSources, deleteDataSource(d)
  PROVE  ViewsInv'
  <1>1. /\ obj \in [DataSources -> ReportDataSource]
        /\ obj' = [obj EXCEPT ![d].phase = IF obj[d].finalizer THEN "terminating" ELSE "gone"]
    BY DEF ViewsInv, TypeOK, deleteDataSource
  <1>2. obj' \in [DataSources -> ReportDataSource] /\ RefsStay
    BY <1>1 DEF ReportDataSource, RefsStay
  <1> QED BY <1>2, UsersKeep DEF deleteDataSource, ViewsInv, TypeOK

LEMMA CreateOthersKeep ==
  ASSUME ViewsInv, UNCHANGED setup,
         \/ \E d \in DataSources : createPrestoTable(d)
         \/ \E q \in Queries : createQuery(q)
         \/ \E r \in Reports : createReport(r)
  PROVE  ViewsInv'
  <1>1. RefsStay /\ obj' = obj
    BY DEF createPrestoTable, createQuery, createReport, RefsStay
  <1>2. CASE \E d \in DataSources : createPrestoTable(d)
    BY <1>1, <1>2, UsersKeep DEF createPrestoTable, ViewsInv, TypeOK
  <1>3. CASE \E q \in Queries : createQuery(q)
    BY <1>1, <1>3, UsersKeep DEF createQuery, ViewsInv, TypeOK
  <1>4. CASE \E r \in Reports : createReport(r)
    BY <1>1, <1>4, UsersKeep DEF createReport, ViewsInv, TypeOK
  <1> QED BY <1>2, <1>3, <1>4

LEMMA DeliverDataSourceKeeps ==
  ASSUME ViewsInv, UNCHANGED setup, NEW d \in DataSources, deliverDataSource(d)
  PROVE  ViewsInv'
  <1>1. /\ obj \in [DataSources -> ReportDataSource] /\ cache \in [DataSources -> ReportDataSource]
        /\ cache' = [cache EXCEPT ![d] = obj[d]]
    BY DEF ViewsInv, TypeOK, deliverDataSource
  <1>2. cache' \in [DataSources -> ReportDataSource]
    BY <1>1
  <1>3. TypeOK'
    BY <1>2 DEF ViewsInv, TypeOK, deliverDataSource, objects_vars
  <1>4. \A e \in DataSources : cache'[e] = cache[e] \/ cache'[e] = obj[e]
    BY <1>1
  <1>5. Prepared
    BY <1>4 DEF Prepared, RefsStay, deliverDataSource, objects_vars
  <1> QED BY <1>3, <1>5, ReadyKept

(* Steps that only queue, or fill the lists of the informers.              *)
LEMMA QueueingKeeps ==
  ASSUME ViewsInv, UNCHANGED <<setup, objects_vars, cache, stripped, tries, work, faults>>,
         cachedQueries' \subseteq Queries, cachedReports' \subseteq Reports, valid' \subseteq Reports,
         dsQueue' \subseteq DataSources, queryQueue' \subseteq Queries, reportQueue' \subseteq Reports
  PROVE  ViewsInv'
  <1>1. TypeOK'
    BY DEF ViewsInv, TypeOK, objects_vars
  <1>2. Prepared
    BY DEF Prepared, RefsStay, objects_vars
  <1> QED BY <1>1, <1>2, ReadyKept

LEMMA InformersKeep ==
  ASSUME ViewsInv, UNCHANGED setup,
         \/ \E q \in Queries : deliverQuery(q) \/ syncReportQuery(q)
         \/ \E r \in Reports : deliverReport(r)
         \/ \E d \in DataSources : resync(d)
  PROVE  ViewsInv'
  <1>1. Views \subseteq DataSources
    BY ViewsAssumption
  <1>2. ASSUME NEW q \in Queries, deliverQuery(q)
        PROVE  ViewsInv'
    BY <1>2, QueueingKeeps DEF deliverQuery, ViewsInv, TypeOK
  <1>3. ASSUME NEW q \in Queries, syncReportQuery(q)
        PROVE  ViewsInv'
    BY <1>1, <1>3, QueueingKeeps DEF syncReportQuery, ViewsInv, TypeOK
  <1>4. ASSUME NEW r \in Reports, deliverReport(r)
        PROVE  ViewsInv'
    BY <1>4, QueueingKeeps DEF deliverReport, ViewsInv, TypeOK
  <1>5. ASSUME NEW d \in DataSources, resync(d)
        PROVE  ViewsInv'
    BY <1>5, QueueingKeeps DEF resync, ViewsInv, TypeOK
  <1> QED BY <1>2, <1>3, <1>4, <1>5

LEMMA ValidateReportKeeps ==
  ASSUME ViewsInv, UNCHANGED setup, NEW r \in Reports, validateReport(r)
  PROVE  ViewsInv'
  <1>1. QueryOf[r] \in Queries
    BY ViewsAssumption
  <1>2. cachedDependencies(QueryOf[r]).dataSources \subseteq DataSources
    BY <1>1, CachedDependencies DEF ViewsInv, Existing
  <1> DEFINE deps == cachedDependencies(QueryOf[r])
             missing == IF deps.err = "none" THEN Uninitialized(deps) ELSE {}
  <1>3. missing \subseteq DataSources
    BY <1>2 DEF Uninitialized
  <1>4. /\ reportQueue' = reportQueue \ {r}
        /\ valid' = IF deps.err = "none" /\ missing = {} THEN valid \cup {r} ELSE valid
        /\ dsQueue' = dsQueue \cup missing
        /\ UNCHANGED <<objects_vars, cache, stripped, cachedQueries, cachedReports, queryQueue, tries, work, faults>>
    BY DEF validateReport
  <1> HIDE DEF deps, missing
  <1> QED BY <1>3, <1>4, QueueingKeeps DEF ViewsInv, TypeOK

(* Steps of a worker that leave the caches alone.                          *)
LEMMA WorkerKeeps ==
  ASSUME ViewsInv,
         UNCHANGED <<setup, cache, queries, cachedQueries, reports, cachedReports, valid, queryQueue>>,
         obj' \in [DataSources -> ReportDataSource], RefsStay,
         table' \in [DataSources -> (SUBSET DataSources) \cup {Null}],
         work' \in [DataSources -> WorkRecord], tries' \in [DataSources -> 0..maxRequeues],
         faults' \in 0..setup.maxFaults, stripped' \subseteq DataSources,
         dsQueue' \subseteq DataSources, reportQueue' \subseteq Reports,
         \A d \in DataSources : \A e \in work'[d].reads : e \in work[d].reads \/ obj[e].tableRef
  PROVE  ViewsInv'
  <1>1. TypeOK'
    BY DEF ViewsInv, TypeOK, WorkRecord
  <1>2. Prepared
    BY DEF Prepared
  <1> QED BY <1>1, <1>2, ReadyKept

LEMMA SameRefs == obj' = obj => RefsStay
  BY DEF RefsStay

LEMMA SyncKeeps ==
  ASSUME ViewsInv, UNCHANGED setup, NEW d \in DataSources, syncReportDataSource(d)
  PROVE  ViewsInv'
  <1> DEFINE o == cache[d]
             step == IF o.phase = "terminating" /\ o.finalizer /\ d \notin stripped THEN "removeFinalizer"
                     ELSE IF o.phase # "live" THEN "idle"
                     ELSE IF setup.enableFinalizers /\ ~o.finalizer THEN "addFinalizer" ELSE "handle"
             begun == IF step = "idle" THEN Idle ELSE [Idle EXCEPT !.pc = step, !.copy = o]
  <1>1. o \in ReportDataSource /\ step \in Steps
    BY DEF ViewsInv, TypeOK, Steps
  <1>2. /\ dsQueue' = dsQueue \ {d}
        /\ work' = [work EXCEPT ![d] = begun]
        /\ tries' = [tries EXCEPT ![d] = IF step = "idle" THEN 0 ELSE @]
        /\ stripped' = IF step = "removeFinalizer" THEN stripped \cup {d} ELSE stripped
        /\ UNCHANGED <<objects_vars, cache, cachedQueries, cachedReports, valid, queryQueue, reportQueue, faults>>
    BY DEF syncReportDataSource
  <1> HIDE DEF o, step
  <1>3. begun \in WorkRecord /\ begun.reads = {}
    BY <1>1, IdleIsWork DEF Idle, WorkRecord
  <1> HIDE DEF begun
  <1>4. work \in [DataSources -> WorkRecord] /\ 0 \in 0..maxRequeues
    BY ViewsAssumption DEF ViewsInv, TypeOK, WorkRecord
  <1>5. /\ work' \in [DataSources -> WorkRecord]
        /\ \A x \in DataSources : \A e \in work'[x].reads : e \in work[x].reads
    BY <1>2, <1>3, <1>4
  <1>6. tries' \in [DataSources -> 0..maxRequeues]
    BY <1>2, <1>4 DEF ViewsInv, TypeOK
  <1> QED BY <1>2, <1>5, <1>6, SameRefs, WorkerKeeps DEF ViewsInv, TypeOK, objects_vars

(* A step that ends in an error, or that leaves for another.               *)
LEMMA FailKeeps ==
  ASSUME ViewsInv, NEW d \in DataSources, Fail(d), faults' \in 0..setup.maxFaults,
         UNCHANGED <<setup, objects_vars, cache, stripped, cachedQueries, cachedReports, valid, queryQueue, reportQueue>>
  PROVE  ViewsInv'
  <1>1. TypeOK
    BY DEF ViewsInv
  <1>2. /\ work' \in [DataSources -> WorkRecord] /\ tries' \in [DataSources -> 0..maxRequeues]
        /\ dsQueue' \subseteq DataSources
        /\ \A e \in DataSources : work'[e].reads \subseteq work[e].reads
    BY <1>1, FailTyped
  <1> QED BY <1>1, <1>2, SameRefs, WorkerKeeps DEF TypeOK, objects_vars

LEMMA CallFailsKeeps ==
  ASSUME ViewsInv, UNCHANGED setup, NEW d \in DataSources, callFails(d)
  PROVE  ViewsInv'
  <1>1. setup.maxFaults \in Nat /\ faults \in 0..setup.maxFaults
    BY ViewsAssumption DEF ViewsInv, TypeOK
  <1>2. faults' \in 0..setup.maxFaults
    BY <1>1 DEF callFails
  <1> QED BY <1>2, FailKeeps DEF callFails

LEMMA AddFinalizerKeeps ==
  ASSUME ViewsInv, UNCHANGED setup, NEW d \in DataSources, addReportDataSourceFinalizer(d)
  PROVE  ViewsInv'
  <1>1. CASE updateAccepted(d)
    <2>1. /\ obj' = [obj EXCEPT ![d].finalizer = TRUE]
          /\ work' = [work EXCEPT ![d].pc = "handle", ![d].copy.finalizer = TRUE]
          /\ UNCHANGED <<tries, dsQueue, cache, stripped, queries, cachedQueries, reports, cachedReports,
                         valid, queryQueue, reportQueue, table, faults>>
      BY <1>1 DEF addReportDataSourceFinalizer
    <2>2. obj \in [DataSources -> ReportDataSource] /\ work \in [DataSources -> WorkRecord]
      BY DEF ViewsInv, TypeOK, WorkRecord
    <2>3. obj' \in [DataSources -> ReportDataSource] /\ RefsStay
      BY <2>1, <2>2 DEF ReportDataSource, RefsStay
    <2> DEFINE w == [work EXCEPT ![d].pc = "handle"]
    <2>4. w \in [DataSources -> WorkRecord] /\ \A x \in DataSources : w[x].reads = work[x].reads
      BY <2>2 DEF WorkRecord, Steps
    <2>5. work' = [w EXCEPT ![d].copy.finalizer = TRUE]
      BY <2>1
    <2> HIDE DEF w
    <2> DEFINE z == [w[d] EXCEPT !.copy.finalizer = TRUE]
    <2>6. w[d] \in WorkRecord
      BY <2>4
    <2>7. z \in WorkRecord /\ z.reads = w[d].reads
      BY <2>6 DEF WorkRecord, ReportDataSource
    <2>8. work' = [w EXCEPT ![d] = z]
      BY <2>5
    <2> HIDE DEF z
    <2>9. /\ work' \in [DataSources -> WorkRecord]
          /\ \A x \in DataSources : work'[x].reads = work[x].reads
      BY <2>4, <2>7, <2>8
    <2> QED BY <2>1, <2>3, <2>9, WorkerKeeps DEF ViewsInv, TypeOK
  <1>2. CASE ~updateAccepted(d)
    BY <1>2, FailKeeps DEF addReportDataSourceFinalizer, ViewsInv, TypeOK, objects_vars
  <1> QED BY <1>1, <1>2

LEMMA RemoveFinalizerKeeps ==
  ASSUME ViewsInv, UNCHANGED setup, NEW d \in DataSources, removeReportDataSourceFinalizer(d)
  PROVE  ViewsInv'
  <1>1. CASE updateAccepted(d)
    <2>1. /\ obj' = [obj EXCEPT ![d].phase = "gone", ![d].finalizer = FALSE] /\ Done(d)
          /\ UNCHANGED <<dsQueue, cache, stripped, queries, cachedQueries, reports, cachedReports,
                         valid, queryQueue, reportQueue, table, faults>>
      BY <1>1 DEF removeReportDataSourceFinalizer
    <2>2. TypeOK /\ obj \in [DataSources -> ReportDataSource]
      BY DEF ViewsInv, TypeOK
    <2>3. obj' \in [DataSources -> ReportDataSource] /\ RefsStay
      BY <2>1, <2>2 DEF ReportDataSource, RefsStay
    <2>4. /\ work' \in [DataSources -> WorkRecord] /\ tries' \in [DataSources -> 0..maxRequeues]
          /\ \A x \in DataSources : work'[x].reads \subseteq work[x].reads
      BY <2>1, <2>2, DoneTyped
    <2> QED BY <2>1, <2>3, <2>4, WorkerKeeps DEF ViewsInv, TypeOK
  <1>2. CASE ~updateAccepted(d)
    BY <1>2, FailKeeps DEF removeReportDataSourceFinalizer, ViewsInv, TypeOK, objects_vars
  <1> QED BY <1>1, <1>2

LEMMA PutTableRefKeeps ==
  ASSUME ViewsInv, UNCHANGED setup, NEW d \in DataSources, putTableRef(d)
  PROVE  ViewsInv'
  <1>1. CASE Exists(obj[d])
    <2> DEFINE step == IF KindOf(d) = "prestoTable" THEN "idle" ELSE "queueReports"
    <2>1. /\ obj' = [obj EXCEPT ![d].tableRef = TRUE]
          /\ work' = [work EXCEPT ![d].pc = step, ![d].announces = TRUE]
          /\ UNCHANGED <<tries, dsQueue, cache, stripped, queries, cachedQueries, reports, cachedReports,
                         valid, queryQueue, reportQueue, table, faults>>
      BY <1>1 DEF putTableRef
    <2>2. /\ obj \in [DataSources -> ReportDataSource] /\ work \in [DataSources -> WorkRecord]
          /\ step \in Steps
      BY DEF ViewsInv, TypeOK, WorkRecord, Steps
    <2> HIDE DEF step
    <2>3. obj' \in [DataSources -> ReportDataSource] /\ RefsStay
      BY <2>1, <2>2 DEF ReportDataSource, RefsStay
    <2> DEFINE w == [work EXCEPT ![d].pc = step]
    <2>4. w \in [DataSources -> WorkRecord] /\ \A x \in DataSources : w[x].reads = work[x].reads
      BY <2>2 DEF WorkRecord
    <2>5. work' = [w EXCEPT ![d].announces = TRUE]
      BY <2>1
    <2> HIDE DEF w
    <2> DEFINE z == [w[d] EXCEPT !.announces = TRUE]
    <2>6. w[d] \in WorkRecord
      BY <2>4
    <2>7. z \in WorkRecord /\ z.reads = w[d].reads
      BY <2>6 DEF WorkRecord
    <2>8. work' = [w EXCEPT ![d] = z]
      BY <2>5
    <2> HIDE DEF z
    <2>9. /\ work' \in [DataSources -> WorkRecord]
          /\ \A x \in DataSources : work'[x].reads = work[x].reads
      BY <2>4, <2>7, <2>8
    <2> QED BY <2>1, <2>3, <2>9, WorkerKeeps DEF ViewsInv, TypeOK
  <1>2. CASE ~Exists(obj[d])
    BY <1>2, FailKeeps DEF putTableRef, ViewsInv, TypeOK, objects_vars
  <1> QED BY <1>1, <1>2

LEMMA CreateTableKeeps ==
  ASSUME ViewsInv, UNCHANGED setup, NEW d \in DataSources, createTable(d)
  PROVE  ViewsInv'
  <1>1. TypeOK /\ "putTableRef" \in Steps
    BY DEF ViewsInv, Steps
  <1>2. /\ work' \in [DataSources -> WorkRecord] /\ tries' \in [DataSources -> 0..maxRequeues]
        /\ \A x \in DataSources : work'[x].reads \subseteq work[x].reads
    BY <1>1, GotoTyped DEF createTable
  <1>3. table' \in [DataSources -> (SUBSET DataSources) \cup {Null}]
    <2>1. work[d].reads \in SUBSET DataSources /\ table \in [DataSources -> (SUBSET DataSources) \cup {Null}]
      BY <1>1 DEF TypeOK
    <2> QED BY <2>1 DEF createTable
  <1> QED BY <1>1, <1>2, <1>3, SameRefs, WorkerKeeps DEF createTable, TypeOK

(* A sync that goes on, or is done, with what it found in the informers.   *)
LEMMA ContinueKeeps ==
  ASSUME ViewsInv, work' \in [DataSources -> WorkRecord], tries' \in [DataSources -> 0..maxRequeues],
         dsQueue' \subseteq DataSources, reportQueue' \subseteq Reports,
         UNCHANGED <<setup, objects_vars, cache, stripped, cachedQueries, cachedReports, valid, queryQueue, faults>>,
         \A x \in DataSources : \A e \in work'[x].reads : e \in work[x].reads \/ obj[e].tableRef
  PROVE  ViewsInv'
  BY SameRefs, WorkerKeeps DEF ViewsInv, TypeOK, objects_vars

LEMMA HandleViewKeeps ==
  ASSUME ViewsInv, NEW d \in Views, handleView(d),
         UNCHANGED <<setup, objects_vars, cache, stripped, cachedQueries, cachedReports, valid, queryQueue,
                     reportQueue, faults>>
  PROVE  ViewsInv'
  <1>1. TypeOK /\ d \in DataSources /\ QueryOf[d] \in Queries
    BY ViewsAssumption DEF ViewsInv
  <1>2. work \in [DataSources -> WorkRecord]
    BY <1>1 DEF TypeOK, WorkRecord
  <1> DEFINE deps == cachedDependencies(QueryOf[d])
             missing == Uninitialized(deps)
  <1>3. deps.dataSources \subseteq DataSources
    BY <1>1, CachedDependencies DEF Existing
  <1>4. missing = {x \in deps.dataSources : ~cache[x].tableRef}
    BY DEF Uninitialized
  <1>5. CASE deps.err # "none"
    BY <1>1, <1>5, FailKeeps DEF handleView, TypeOK
  <1>6. CASE deps.err = "none" /\ missing # {}
    <2>1. Done(d) /\ dsQueue' = dsQueue \cup missing
      BY <1>6 DEF handleView
    <2> HIDE DEF deps, missing
    <2>2. /\ work' \in [DataSources -> WorkRecord] /\ tries' \in [DataSources -> 0..maxRequeues]
          /\ \A x \in DataSources : work'[x].reads \subseteq work[x].reads
      BY <1>1, <2>1, DoneTyped
    <2> QED BY <1>1, <1>3, <1>4, <2>1, <2>2, ContinueKeeps DEF TypeOK
  <1>7. CASE deps.err = "none" /\ missing = {}
    <2> DEFINE step == IF work[d].copy.tableRef THEN "queueReports" ELSE "create"
               w == [work EXCEPT ![d].pc = step]
    <2>1. /\ work' = [work EXCEPT ![d].pc = step, ![d].reads = deps.dataSources]
          /\ UNCHANGED <<tries, dsQueue>>
      BY <1>7 DEF handleView
    <2>2. work' = [w EXCEPT ![d].reads = deps.dataSources]
      BY <2>1
    <2>3. step \in Steps
      BY DEF Steps
    <2>4. \A e \in deps.dataSources : obj[e].tableRef
      BY <1>3, <1>4, <1>7 DEF ViewsInv, TablesReady
    <2> HIDE DEF step, deps, missing
    <2>5. w \in [DataSources -> WorkRecord] /\ \A x \in DataSources : w[x].reads = work[x].reads
      BY <1>1, <1>2, <2>3 DEF WorkRecord
    <2> HIDE DEF w
    <2> DEFINE z == [w[d] EXCEPT !.reads = deps.dataSources]
    <2>6. w[d] \in WorkRecord /\ deps.dataSources \in SUBSET DataSources
      BY <1>1, <1>3, <2>5
    <2>7. z \in WorkRecord /\ z.reads = deps.dataSources
      BY <2>6 DEF WorkRecord
    <2>8. work' = [w EXCEPT ![d] = z]
      BY <2>2
    <2> HIDE DEF z
    <2>9. /\ work' \in [DataSources -> WorkRecord]
          /\ \A x \in DataSources : \A e \in work'[x].reads : e \in work[x].reads \/ obj[e].tableRef
      BY <1>1, <2>4, <2>5, <2>7, <2>8
    <2> QED BY <1>1, <2>1, <2>9, ContinueKeeps DEF TypeOK
  <1> QED BY <1>5, <1>6, <1>7

LEMMA HandleTableKeeps ==
  ASSUME ViewsInv, NEW d \in DataSources, handleTable(d),
         UNCHANGED <<setup, objects_vars, cache, stripped, cachedQueries, cachedReports, valid, queryQueue,
                     reportQueue, faults>>
  PROVE  ViewsInv'
  <1>1. TypeOK
    BY DEF ViewsInv
  <1>2. {"queueReports", "create", "putTableRef"} \subseteq Steps
    BY DEF Steps
  <1>3. \/ Fail(d)
        \/ UNCHANGED dsQueue /\ Done(d)
        \/ UNCHANGED dsQueue /\ \E step \in Steps : Goto(d, step)
    BY <1>2 DEF handleTable
  <1>4. CASE Fail(d)
    BY <1>1, <1>4, FailKeeps DEF TypeOK
  <1>5. CASE UNCHANGED dsQueue /\ Done(d)
    <2>1. /\ work' \in [DataSources -> WorkRecord] /\ tries' \in [DataSources -> 0..maxRequeues]
          /\ \A x \in DataSources : work'[x].reads \subseteq work[x].reads
      BY <1>1, <1>5, DoneTyped
    <2> QED BY <1>1, <1>5, <2>1, ContinueKeeps DEF TypeOK
  <1>6. CASE UNCHANGED dsQueue /\ \E step \in Steps : Goto(d, step)
    <2>1. /\ work' \in [DataSources -> WorkRecord] /\ tries' \in [DataSources -> 0..maxRequeues]
          /\ \A x \in DataSources : work'[x].reads \subseteq work[x].reads
      BY <1>1, <1>6, GotoTyped
    <2> QED BY <1>1, <1>6, <2>1, ContinueKeeps DEF TypeOK
  <1> QED BY <1>3, <1>4, <1>5, <1>6

LEMMA HandleKeeps ==
  ASSUME ViewsInv, UNCHANGED setup, NEW d \in DataSources, handleReportDataSource(d)
  PROVE  ViewsInv'
  <1>1. UNCHANGED <<setup, objects_vars, cache, stripped, cachedQueries, cachedReports, valid, queryQueue,
                    reportQueue, faults>>
    BY DEF handleReportDataSource
  <1>2. CASE d \in Views
    BY <1>1, <1>2, HandleViewKeeps DEF handleReportDataSource, KindOf
  <1>3. CASE d \notin Views
    <2>1. setup.kind # "view"
      BY ViewsAssumption DEF ViewsInv, TypeOK
    <2> QED BY <1>1, <1>3, <2>1, HandleTableKeeps DEF handleReportDataSource, KindOf
  <1> QED BY <1>2, <1>3

LEMMA QueueReportsKeeps ==
  ASSUME ViewsInv, UNCHANGED setup, NEW d \in DataSources, queueReports(d)
  PROVE  ViewsInv'
  <1>1. TypeOK /\ "queueDataSources" \in Steps
    BY DEF ViewsInv, Steps
  <1>2. /\ work' \in [DataSources -> WorkRecord] /\ tries' \in [DataSources -> 0..maxRequeues]
        /\ \A x \in DataSources : work'[x].reads \subseteq work[x].reads
    BY <1>1, GotoTyped DEF queueReports
  <1>3. \E queued \in SUBSET cachedReports : reportQueue' = reportQueue \cup queued
    BY DEF queueReports, queueDependentReportsForDataSource
  <1>4. reportQueue' \subseteq Reports
    BY <1>1, <1>3 DEF TypeOK
  <1> QED BY <1>1, <1>2, <1>4, ContinueKeeps DEF queueReports, TypeOK

LEMMA QueueDataSourcesKeeps ==
  ASSUME ViewsInv, UNCHANGED setup, NEW d \in DataSources, queueDataSources(d)
  PROVE  ViewsInv'
  <1>1. TypeOK
    BY DEF ViewsInv
  <1>2. /\ work' \in [DataSources -> WorkRecord] /\ tries' \in [DataSources -> 0..maxRequeues]
        /\ \A x \in DataSources : work'[x].reads \subseteq work[x].reads
    BY <1>1, DoneTyped DEF queueDataSources
  <1>3. \E queued \in SUBSET {v \in Views : Exists(cache[v])} : dsQueue' = dsQueue \cup queued
    BY DEF queueDataSources, queueDependentReportDataSources
  <1>4. dsQueue' \subseteq DataSources
    BY <1>1, <1>3, ViewsAssumption DEF TypeOK
  <1> QED BY <1>1, <1>2, <1>4, ContinueKeeps DEF queueDataSources, TypeOK

LEMMA RestartKeeps ==
  ASSUME ViewsInv, UNCHANGED setup, restart
  PROVE  ViewsInv'
  <1>1. setup.maxFaults \in Nat /\ faults \in 0..setup.maxFaults /\ 0 \in 0..maxRequeues
    BY ViewsAssumption DEF ViewsInv, TypeOK
  <1>2. faults' \in 0..setup.maxFaults
    BY <1>1 DEF restart
  <1>3. work' \in [DataSources -> WorkRecord] /\ \A d \in DataSources : work'[d].reads = {}
    BY IdleIsWork DEF restart
  <1>4. tries' \in [DataSources -> 0..maxRequeues]
    BY <1>1 DEF restart
  <1>5. TypeOK'
    BY <1>2, <1>3, <1>4 DEF ViewsInv, TypeOK, restart, objects_vars, WorkRecord
  <1>6. Prepared
    BY <1>3 DEF Prepared, RefsStay, restart, objects_vars
  <1> QED BY <1>5, <1>6, ReadyKept

LEMMA ViewsStep == ViewsInv /\ [Next]_<<vars, setup>> => ViewsInv'
  <1> SUFFICES ASSUME ViewsInv, [Next]_<<vars, setup>>
               PROVE  ViewsInv'
    OBVIOUS
  <1>1. CASE UNCHANGED <<vars, setup>>
    BY <1>1 DEF vars, ViewsInv, TypeOK, TablesReady
  <1>2. CASE Next
    <2>1. UNCHANGED setup
      BY <1>2 DEF Next
    <2>2. ASSUME NEW d \in DataSources, WorkerStep(d)
          PROVE  ViewsInv'
      BY <2>1, <2>2, SyncKeeps, AddFinalizerKeeps, HandleKeeps, CreateTableKeeps, PutTableRefKeeps,
         QueueReportsKeeps, QueueDataSourcesKeeps, RemoveFinalizerKeeps DEF WorkerStep
    <2>3. ASSUME NEW d \in DataSources, createDataSource(d) \/ deleteDataSource(d) \/ createPrestoTable(d)
                                        \/ deliverDataSource(d) \/ resync(d) \/ callFails(d)
          PROVE  ViewsInv'
      BY <2>1, <2>3, CreateDataSourceKeeps, DeleteDataSourceKeeps, CreateOthersKeep, DeliverDataSourceKeeps,
         InformersKeep, CallFailsKeeps
    <2>4. ASSUME NEW q \in Queries, createQuery(q) \/ deliverQuery(q) \/ syncReportQuery(q)
          PROVE  ViewsInv'
      BY <2>1, <2>4, CreateOthersKeep, InformersKeep
    <2>5. ASSUME NEW r \in Reports, createReport(r) \/ deliverReport(r) \/ validateReport(r)
          PROVE  ViewsInv'
      BY <2>1, <2>5, CreateOthersKeep, InformersKeep, ValidateReportKeeps
    <2> QED BY <1>2, <2>1, <2>2, <2>3, <2>4, <2>5, RestartKeeps DEF Next
  <1> QED BY <1>1, <1>2

(***************************************************************************)
(* Every variable of the data sources' controllers keeps its type: what a  *)
(* query depends on, and so what a sync or a Report queues and a view      *)
(* reads, are data sources (datasources.go, reportquery.go).               *)
(***************************************************************************)
THEOREM ViewsTypes == Spec => []TypeOK
  <1>1. ViewsInv => TypeOK
    BY DEF ViewsInv
  <1> QED BY <1>1, ViewsInit, ViewsStep, PTL DEF Spec

(***************************************************************************)
(* ViewsReadTables, for every set of objects: when the PrestoTable of a    *)
(* view is created (datasources.go:538), each data source that its query   *)
(* reads has its table, although the worker saw them in an informer that   *)
(* may be behind and between the check and the create anything may happen. *)
(***************************************************************************)
THEOREM ViewsReadOnlyTables == Spec => ViewsReadTables
  <1> DEFINE Reads == \A v \in Views : table[v] = Null /\ table'[v] # Null
                        => \A d \in table'[v] : obj[d].phase = "live" => obj[d].tableRef
  <1>1. ASSUME ViewsInv, [Next]_<<vars, setup>>
        PROVE  [Reads]_vars
    <2> SUFFICES ASSUME vars' # vars, NEW v \in Views, table[v] = Null, table'[v] # Null, NEW d \in table'[v]
                 PROVE  obj[d].tableRef
      BY DEF vars
    <2>1. v \in DataSources /\ KindOf(v) = "view"
      BY ViewsAssumption DEF KindOf
    <2>2. Next /\ table \in [DataSources -> (SUBSET DataSources) \cup {Null}]
      BY <1>1 DEF ViewsInv, TypeOK
    <2>3. \E x \in DataSources : createPrestoTable(x) \/ createTable(x)
      <3> SUFFICES ASSUME ~ \E x \in DataSources : createPrestoTable(x) \/ createTable(x)
                   PROVE  table' = table
        OBVIOUS
      <3> QED BY <2>2 DEF Next, WorkerStep, createDataSource, deleteDataSource, deliverDataSource, resync,
             callFails, createQuery, deliverQuery, syncReportQuery, createReport, deliverReport, validateReport,
             restart, syncReportDataSource, addReportDataSourceFinalizer, handleReportDataSource, putTableRef,
             queueReports, queueDataSources, removeReportDataSourceFinalizer, objects_vars
    <2>4. createTable(v)
      BY <2>1, <2>2, <2>3 DEF createPrestoTable, createTable
    <2>5. table'[v] = work[v].reads
      BY <2>1, <2>2, <2>4 DEF createTable
    <2> QED BY <2>1, <2>5, <1>1 DEF ViewsInv, TablesReady
  <1> QED BY <1>1, ViewsInit, ViewsStep, PTL DEF Spec, ViewsReadTables
=============================================================================
