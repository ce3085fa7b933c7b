---------------------- MODULE PrometheusImporterProofs ----------------------
(***************************************************************************)
(* Importing Prometheus metrics, for any installation whose step size is   *)
(* the minute that truncateToSecond truncates to (the default of           *)
(* operator.go): what getTimeRangesChunked computes for every import that  *)
(* allows incomplete chunks, as the operator's do; that no sample is stored*)
(* twice; and that the tables and the published windows behave as          *)
(* MetricsTable says.                                                      *)
(***************************************************************************)
EXTENDS PrometheusImporter, TimeRangesCheck, WellFoundedInduction, FiniteSetTheorems, TLAPS

-----------------------------------------------------------------------------
(* Facts about numbers                                                     *)

OnMinute(t) == t % Minute = 0

LEMMA Least ==
  ASSUME NEW T, T \subseteq Nat, T # {}
  PROVE  \E x \in T : \A y \in T : x <= y
  <1>1. \E R : IsWellFoundedOn(R, Nat) /\ \A x, y \in Nat : y < x => <<y, x>> \in R
    <2>1. \A x, y \in Nat : y < x => <<y, x>> \in OpToRel(<, Nat)
      BY DEF OpToRel
    <2> QED BY <2>1, NatLessThanWellFounded, Zenon
  <1>2. PICK R : IsWellFoundedOn(R, Nat) /\ \A x, y \in Nat : y < x => <<y, x>> \in R
    BY <1>1
  <1>3. PICK x \in T : \A y \in T : ~ (<<y, x>> \in R)
    BY <1>2, WFMin
  <1>4. ASSUME NEW y \in T
        PROVE  x <= y
    <2>1. ~(y < x)
      BY <1>2, <1>3
    <2> QED BY <2>1
  <1> QED BY <1>4

LEMMA MultiplesOfMinute ==
  ASSUME NEW q \in Int
  PROVE  q * Minute \in Int /\ OnMinute(q * Minute)
  BY MinuteAssumption DEF OnMinute

LEMMA OnMinuteIsMultiple ==
  ASSUME NEW t \in Int, OnMinute(t)
  PROVE  \E q \in Int : t = q * Minute
  <1>1. t = (t \div Minute) * Minute + (t % Minute)
    BY MinuteAssumption
  <1>2. t \div Minute \in Int /\ t = (t \div Minute) * Minute
    BY <1>1, MinuteAssumption DEF OnMinute
  <1> QED BY <1>2

LEMMA NextMinute ==
  ASSUME NEW t \in Int, OnMinute(t)
  PROVE  OnMinute(t + Minute)
  <1>1. PICK q \in Int : t = q * Minute
    BY OnMinuteIsMultiple
  <1>2. t + Minute = (q + 1) * Minute
    BY <1>1, MinuteAssumption
  <1> QED BY <1>2, MultiplesOfMinute

(* Two minutes are a minute apart.                                         *)
LEMMA MinutesApart ==
  ASSUME NEW a \in Int, NEW b \in Int, OnMinute(a), OnMinute(b), a < b
  PROVE  a + Minute <= b
  <1>1. PICK p \in Int : a = p * Minute
    BY OnMinuteIsMultiple
  <1>2. PICK q \in Int : b = q * Minute
    BY OnMinuteIsMultiple
  <1>3. q - p - 1 \in Nat
    BY <1>1, <1>2, MinuteAssumption
  <1>4. (q - p - 1) * Minute \in Nat
    BY <1>3, MinuteAssumption
  <1> QED BY <1>1, <1>2, <1>4, MinuteAssumption

(* truncateToSecond truncates to the minute (query.go:207).                *)
LEMMA Truncated ==
  ASSUME NEW t \in Int
  PROVE  /\ truncateToSecond(t) \in Int
         /\ OnMinute(truncateToSecond(t))
         /\ truncateToSecond(t) <= t
         /\ t < truncateToSecond(t) + Minute
  <1>1. t % Minute \in 0..(Minute - 1)
    BY MinuteAssumption
  <1>2. (t - (t % Minute)) % Minute = 0
    BY MinuteAssumption
  <1> QED BY <1>1, <1>2, MinuteAssumption DEF truncateToSecond, OnMinute

LEMMA TruncateKeepsMinutes ==
  ASSUME NEW t \in Int, OnMinute(t)
  PROVE  truncateToSecond(t) = t
  BY DEF truncateToSecond, OnMinute

(* A minute up to an instant is one up to the truncated instant.           *)
LEMMA TruncateIsLast ==
  ASSUME NEW a \in Int, OnMinute(a), NEW t \in Int, a <= t
  PROVE  a <= truncateToSecond(t)
  <1>1. CASE truncateToSecond(t) < a
    <2>1. truncateToSecond(t) + Minute <= a
      BY <1>1, Truncated, MinutesApart
    <2> QED BY <2>1, Truncated, MinuteAssumption
  <1> QED BY <1>1, Truncated

(* A multiple of a minute after a minute is a minute.                      *)
LEMMA MinutesAfter ==
  ASSUME NEW s \in Int, OnMinute(s), NEW t \in Int, OnMinute(t - s)
  PROVE  OnMinute(t)
  <1>1. PICK p \in Int : s = p * Minute
    BY OnMinuteIsMultiple
  <1>2. PICK q \in Int : t - s = q * Minute
    BY OnMinuteIsMultiple
  <1>3. t = (p + q) * Minute
    BY <1>1, <1>2, MinuteAssumption
  <1> QED BY <1>3, MultiplesOfMinute

LEMMA MinutesBetween ==
  ASSUME NEW s \in Int, OnMinute(s), NEW t \in Int, OnMinute(t)
  PROVE  OnMinute(t - s)
  <1>1. PICK p \in Int : s = p * Minute
    BY OnMinuteIsMultiple
  <1>2. PICK q \in Int : t = q * Minute
    BY OnMinuteIsMultiple
  <1>3. t - s = (q - p) * Minute
    BY <1>1, <1>2, MinuteAssumption
  <1> QED BY <1>3, MultiplesOfMinute

-----------------------------------------------------------------------------
(***************************************************************************)
(* What getTimeRangesChunked computes                                      *)
(*                                                                         *)
(* chunksFrom is a recursive function: it satisfies the equation of its    *)
(* definition if any function does.  One does, because a query that is not *)
(* the last starts before truncateToSecond(end) and is followed by a later *)
(* one.                                                                    *)
(***************************************************************************)

ChunkEnd(s, end, chunk) == chunkEndFor(s, truncateToSecond(s + chunk), end, TRUE)

NextOf(c, end, chunk) == <<nextChunkStart(ChunkEnd(c[1], end, chunk), Minute), c[2] + 1>>

(* The body of the recursive definition, for incomplete chunks.            *)
Unfold(f, c, end, chunk, max) ==
  IF \/ max > NoLimit /\ c[2] >= max
     \/ ~chunkAccepted(c[1], ChunkEnd(c[1], end, chunk), end, chunk, TRUE)
  THEN << >>
  ELSE << [start |-> c[1], end |-> ChunkEnd(c[1], end, chunk)] >> \o
       (IF TRUE /\ ChunkEnd(c[1], end, chunk) = truncateToSecond(end)
        THEN << >> ELSE f[NextOf(c, end, chunk)])

LEMMA ChunkEnds ==
  ASSUME NEW end \in Int, NEW chunk \in Nat, NEW s \in Int
  PROVE  /\ ChunkEnd(s, end, chunk) \in Int
         /\ OnMinute(ChunkEnd(s, end, chunk))
         /\ ChunkEnd(s, end, chunk) <= truncateToSecond(end)
         /\ OnMinute(s) /\ s <= truncateToSecond(end) => s <= ChunkEnd(s, end, chunk)
  <1> DEFINE e == truncateToSecond(s + chunk)
  <1>1. s + chunk \in Int /\ s <= s + chunk
    OBVIOUS
  <1>2. e \in Int /\ OnMinute(e) /\ truncateToSecond(end) \in Int
    BY <1>1, Truncated
  <1>3. CASE e > end
    <2>1. ChunkEnd(s, end, chunk) = truncateToSecond(end)
      BY <1>3 DEF ChunkEnd, chunkEndFor
    <2> QED BY <2>1, <1>2, Truncated
  <1>4. CASE ~(e > end)
    <2>1. ChunkEnd(s, end, chunk) = e
      BY <1>4 DEF ChunkEnd, chunkEndFor
    <2>2. e <= truncateToSecond(end)
      BY <1>2, <1>4, TruncateIsLast
    <2>3. OnMinute(s) => s <= e
      BY <1>1, TruncateIsLast
    <2> HIDE DEF e
    <2> QED BY <2>1, <2>2, <2>3, <1>2
  <1> QED BY <1>3, <1>4

LEMMA NextIsLater ==
  ASSUME NEW end \in Int, NEW chunk \in Nat, NEW c \in Int \X Nat,
         ChunkEnd(c[1], end, chunk) # truncateToSecond(end)
  PROVE  /\ NextOf(c, end, chunk) \in Int \X Nat
         /\ NextOf(c, end, chunk)[1] = ChunkEnd(c[1], end, chunk) + Minute
         /\ c[1] < NextOf(c, end, chunk)[1]
         /\ NextOf(c, end, chunk)[1] <= truncateToSecond(end)
         /\ OnMinute(NextOf(c, end, chunk)[1])
  <1> DEFINE s == c[1]
             e == ChunkEnd(s, end, chunk)
             t == truncateToSecond(s + chunk)
  <1>1. s \in Int /\ c[2] \in Nat /\ s + chunk \in Int /\ Minute \in Nat
    BY MinuteAssumption
  <1> HIDE DEF s
  <1>2. e \in Int /\ OnMinute(e) /\ e <= truncateToSecond(end) /\ e # truncateToSecond(end)
    BY <1>1, ChunkEnds DEF s
  <1>3. e = t
    BY DEF ChunkEnd, chunkEndFor, s
  <1>4. t \in Int /\ s + chunk < t + Minute
    BY <1>1, Truncated
  <1>5. truncateToSecond(end) \in Int /\ OnMinute(truncateToSecond(end))
    BY Truncated
  <1> HIDE DEF e, t
  <1>6. OnMinute(e + Minute) /\ e + Minute \in Int
    BY <1>1, <1>2, NextMinute
  <1>7. nextChunkStart(e, Minute) = e + Minute
    BY <1>6, TruncateKeepsMinutes DEF nextChunkStart
  <1>8. e < truncateToSecond(end)
    BY <1>2, <1>5
  <1>9. e + Minute <= truncateToSecond(end)
    BY <1>2, <1>5, <1>8, MinutesApart
  <1>10. s < e + Minute
    BY <1>1, <1>3, <1>4
  <1>11. NextOf(c, end, chunk) = <<e + Minute, c[2] + 1>>
    BY <1>7 DEF NextOf, e, s
  <1> QED BY <1>1, <1>6, <1>9, <1>10, <1>11 DEF e, s

AgreeAhead(f, g, c, end) ==
  \A b \in Int \X Nat : c[1] < b[1] /\ b[1] <= truncateToSecond(end) => f[b] = g[b]

(* The body looks the function up only at later starts.                    *)
LEMMA UnfoldLooksAhead ==
  ASSUME NEW end \in Int, NEW chunk \in Nat, NEW max, NEW c \in Int \X Nat, NEW f, NEW g,
         AgreeAhead(f, g, c, end)
  PROVE  Unfold(f, c, end, chunk, max) = Unfold(g, c, end, chunk, max)
  <1>1. CASE ChunkEnd(c[1], end, chunk) = truncateToSecond(end)
    BY <1>1, Zenon DEF Unfold
  <1>2. CASE ChunkEnd(c[1], end, chunk) # truncateToSecond(end)
    <2>1. f[NextOf(c, end, chunk)] = g[NextOf(c, end, chunk)]
      BY <1>2, NextIsLater, Zenon DEF AgreeAhead
    <2> QED BY <2>1, Zenon DEF Unfold
  <1> QED BY <1>1, <1>2

(* f satisfies the equation for the starts after truncateToSecond(end) - k. *)
SatisfiesTo(f, k, end, chunk, max) ==
  \A c \in Int \X Nat :
    c[1] > truncateToSecond(end) - k => f[c] = Unfold(f, c, end, chunk, max)

LEMMA ExtendsBack ==
  ASSUME NEW end \in Int, NEW chunk \in Nat, NEW max, NEW k \in Nat, NEW f,
         SatisfiesTo(f, k, end, chunk, max)
  PROVE  \E g : SatisfiesTo(g, k + 1, end, chunk, max)
  <1> DEFINE E == truncateToSecond(end)
             D == Int \X Nat
             g == [c \in D |-> IF c[1] > E - k THEN f[c] ELSE Unfold(f, c, end, chunk, max)]
  <1>1. E \in Int
    BY Truncated
  <1>2. SUFFICES ASSUME NEW c \in D, c[1] > E - (k + 1)
                 PROVE  g[c] = Unfold(g, c, end, chunk, max)
    BY Zenon DEF SatisfiesTo
  <1>3. c[1] \in Int /\ \A b \in D : b[1] \in Int
    OBVIOUS
  <1> HIDE DEF E, D
  <1>4. \A b \in D : c[1] < b[1] => b[1] > E - k
    BY <1>1, <1>2, <1>3
  <1>5. \A b \in D : b[1] > E - k => g[b] = f[b]
    OBVIOUS
  <1>6. g[c] = Unfold(f, c, end, chunk, max)
    <2>1. CASE c[1] > E - k
      BY <2>1, <1>5, Zenon DEF SatisfiesTo, E, D
    <2>2. CASE ~(c[1] > E - k)
      BY <2>2
    <2> QED BY <2>1, <2>2
  <1> HIDE DEF g
  <1>7. AgreeAhead(f, g, c, end)
    BY <1>4, <1>5, Zenon DEF D, AgreeAhead
  <1>8. Unfold(f, c, end, chunk, max) = Unfold(g, c, end, chunk, max)
    BY <1>7, UnfoldLooksAhead, SMT DEF D
  <1> QED BY <1>6, <1>8, Zenon

LEMMA SatisfiableTo ==
  ASSUME NEW end \in Int, NEW chunk \in Nat, NEW max, NEW k \in Nat
  PROVE  \E f : SatisfiesTo(f, k, end, chunk, max)
  <1> DEFINE T == {i \in Nat : ~ \E f : SatisfiesTo(f, i, end, chunk, max)}
  <1> SUFFICES T = {}
    OBVIOUS
  <1>1. ASSUME T # {}
        PROVE  FALSE
    <2>1. T \subseteq Nat
      OBVIOUS
    <2>2. PICK i \in T : \A y \in T : i <= y
      <3> HIDE DEF T
      <3> QED BY <1>1, <2>1, Least
    <2>3. CASE i = 0
      <3> DEFINE E == truncateToSecond(end)
                 g == [c \in Int \X Nat |-> Unfold(<< >>, c, end, chunk, max)]
      <3>1. E \in Int
        BY Truncated
      <3>2. ASSUME NEW c \in Int \X Nat, c[1] > E - 0
            PROVE  g[c] = Unfold(g, c, end, chunk, max)
        <4>1. g[c] = Unfold(<< >>, c, end, chunk, max)
          OBVIOUS
        <4> HIDE DEF g
        <4>2. AgreeAhead(<< >>, g, c, end)
          BY <3>1, <3>2 DEF AgreeAhead
        <4>3. Unfold(<< >>, c, end, chunk, max) = Unfold(g, c, end, chunk, max)
          BY <4>2, UnfoldLooksAhead, SMT
        <4> QED BY <4>1, <4>3, Zenon
      <3>3. SatisfiesTo(g, 0, end, chunk, max)
        BY <3>2, Zenon DEF SatisfiesTo
      <3> HIDE DEF g
      <3> QED BY <2>2, <2>3, <3>3
    <2>4. CASE i # 0
      <3>1. i - 1 \in Nat /\ i - 1 \notin T
        BY <2>2, <2>4
      <3>2. PICK f : SatisfiesTo(f, i - 1, end, chunk, max)
        BY <3>1
      <3>3. \E g : SatisfiesTo(g, (i - 1) + 1, end, chunk, max)
        BY <3>1, <3>2, ExtendsBack, Zenon
      <3>4. (i - 1) + 1 = i
        BY <2>2
      <3> QED BY <2>2, <3>3, <3>4
    <2> QED BY <2>3, <2>4
  <1> QED BY <1>1

(* Starts cannot ascend for ever to one that is bounded.                   *)
LEMMA NoEndlessAscent ==
  ASSUME NEW E \in Int, NEW T, T \subseteq Int \X Nat,
         \A c \in T : \E b \in T : c[1] < b[1] /\ b[1] <= E
  PROVE  T = {}
  <1> DEFINE D == {E - c[1] : c \in {x \in T : x[1] <= E}}
  <1>1. \A c \in T : c[1] \in Int
    OBVIOUS
  <1>2. D \subseteq Nat
    BY <1>1
  <1>3. ASSUME T # {}
        PROVE  FALSE
    <2>1. PICK c \in T : c[1] <= E
      BY <1>3
    <2>2. D # {}
      BY <2>1
    <2>3. PICK d \in D : \A y \in D : d <= y
      <3> HIDE DEF D
      <3> QED BY <1>2, <2>2, Least
    <2>4. PICK a \in T : a[1] <= E /\ d = E - a[1]
      BY <2>3
    <2>5. PICK b \in T : a[1] < b[1] /\ b[1] <= E
      BY <2>4
    <2>6. E - b[1] \in D
      BY <2>5
    <2>7. E - a[1] <= E - b[1]
      BY <2>3, <2>4, <2>6
    <2> QED BY <1>1, <2>5, <2>7
  <1> QED BY <1>3

(* The equation determines the values.                                     *)
LEMMA SatisfiesSame ==
  ASSUME NEW end \in Int, NEW chunk \in Nat, NEW max, NEW k \in Nat, NEW l \in Nat, NEW f, NEW g,
         SatisfiesTo(f, k, end, chunk, max), SatisfiesTo(g, l, end, chunk, max),
         NEW c \in Int \X Nat,
         c[1] > truncateToSecond(end) - k, c[1] > truncateToSecond(end) - l
  PROVE  f[c] = g[c]
  <1> DEFINE E == truncateToSecond(end)
             D == Int \X Nat
             T == {b \in D : b[1] > E - k /\ b[1] > E - l /\ f[b] # g[b]}
  <1>1. E \in Int /\ \A b \in D : b[1] \in Int
    BY Truncated
  <1>2. ASSUME NEW b \in T
        PROVE  \E a \in T : b[1] < a[1] /\ a[1] <= E
    <2>1. SUFFICES ASSUME \A a \in D : b[1] < a[1] /\ a[1] <= E => f[a] = g[a]
                   PROVE  FALSE
      BY <1>1
    <2>2. AgreeAhead(f, g, b, end)
      BY <2>1, Zenon DEF AgreeAhead
    <2>3. Unfold(f, b, end, chunk, max) = Unfold(g, b, end, chunk, max)
      BY <2>2, UnfoldLooksAhead, SMT
    <2>4. f[b] = Unfold(f, b, end, chunk, max) /\ g[b] = Unfold(g, b, end, chunk, max)
      BY Zenon DEF SatisfiesTo
    <2> QED BY <2>3, <2>4, Zenon
  <1>3. T = {}
    <2>1. T \subseteq Int \X Nat
      OBVIOUS
    <2> HIDE DEF T, E
    <2> QED BY <1>1, <1>2, <2>1, NoEndlessAscent
  <1> QED BY <1>3

(* How far before truncateToSecond(end) a start is.                        *)
Depth(s, end) ==
  IF s > truncateToSecond(end) THEN 0 ELSE truncateToSecond(end) - s + 1

LEMMA DepthReaches ==
  ASSUME NEW end \in Int, NEW s \in Int
  PROVE  Depth(s, end) \in Nat /\ s > truncateToSecond(end) - Depth(s, end)
  BY Truncated DEF Depth

LEMMA EquationSatisfiable ==
  ASSUME NEW end \in Int, NEW chunk \in Nat, NEW max
  PROVE  \E f : f = [c \in Int \X Nat |-> Unfold(f, c, end, chunk, max)]
  <1> DEFINE D == Int \X Nat
             To(k) == CHOOSE g : SatisfiesTo(g, k, end, chunk, max)
             f == [c \in D |-> To(Depth(c[1], end))[c]]
  <1>1. \A c \in D : c[1] \in Int
    OBVIOUS
  <1>2. \A k \in Nat : SatisfiesTo(To(k), k, end, chunk, max)
    BY SatisfiableTo, Zenon
  <1> HIDE DEF To
  <1>3. \A c \in D : f[c] = To(Depth(c[1], end))[c]
    OBVIOUS
  <1> HIDE DEF f
  <1>4. ASSUME NEW c \in D
        PROVE  f[c] = Unfold(f, c, end, chunk, max)
    <2> DEFINE k == Depth(c[1], end)
               g == To(k)
    <2>1. k \in Nat /\ c[1] > truncateToSecond(end) - k
      BY <1>1, DepthReaches
    <2> HIDE DEF k
    <2>2. SatisfiesTo(g, k, end, chunk, max)
      BY <1>2, <2>1
    <2>3. f[c] = g[c]
      BY <1>3 DEF k
    <2> HIDE DEF g
    <2>4. g[c] = Unfold(g, c, end, chunk, max)
      BY <2>1, <2>2, Zenon DEF SatisfiesTo
    <2>5. ASSUME NEW b \in D, c[1] < b[1]
          PROVE  g[b] = f[b]
      <3> DEFINE l == Depth(b[1], end)
      <3>1. l \in Nat /\ b[1] > truncateToSecond(end) - l
        BY <1>1, DepthReaches
      <3>2. b[1] > truncateToSecond(end) - k
        BY <1>1, <2>1, <2>5, Truncated
      <3> HIDE DEF l
      <3>3. SatisfiesTo(To(l), l, end, chunk, max)
        BY <1>2, <3>1
      <3>4. g[b] = To(l)[b]
        BY <2>1, <2>2, <3>1, <3>2, <3>3, SatisfiesSame, SMT
      <3> QED BY <1>3, <3>4 DEF l
    <2>6. AgreeAhead(g, f, c, end)
      BY <2>5, Zenon DEF AgreeAhead
    <2>7. Unfold(g, c, end, chunk, max) = Unfold(f, c, end, chunk, max)
      BY <2>6, UnfoldLooksAhead, SMT
    <2> QED BY <2>3, <2>4, <2>7, Zenon
  <1>5. f = [c \in D |-> f[c]]
    BY Zenon DEF f
  <1>6. f = [c \in D |-> Unfold(f, c, end, chunk, max)]
    BY <1>4, <1>5, Zenon
  <1> QED BY <1>6, Zenon

(* chunksFrom satisfies the equation that defines it.                      *)
LEMMA ChunksEquation ==
  ASSUME NEW end \in Int, NEW chunk \in Nat, NEW max, NEW c \in Int \X Nat
  PROVE  chunksFrom(end, chunk, Minute, max, TRUE)[c]
           = Unfold(chunksFrom(end, chunk, Minute, max, TRUE), c, end, chunk, max)
  <1> DEFINE Solves(f) == f = [b \in Int \X Nat |-> Unfold(f, b, end, chunk, max)]
             F == chunksFrom(end, chunk, Minute, max, TRUE)
  <1>1. F = CHOOSE f : Solves(f)
    BY Zenon DEF chunksFrom, Unfold, ChunkEnd, NextOf
  <1>2. \E f : Solves(f)
    BY EquationSatisfiable, Zenon
  <1> HIDE DEF Solves, F
  <1>3. Solves(F)
    BY <1>1, <1>2, Zenon
  <1>4. F = [b \in Int \X Nat |-> Unfold(F, b, end, chunk, max)]
    BY <1>3, Zenon DEF Solves
  <1>5. F[c] = Unfold(F, c, end, chunk, max)
    BY <1>4, Zenon
  <1> QED BY <1>5, Zenon DEF F

(* No query, or the next one followed by none or by what comes after it.   *)
NextChunks(F, c, end, chunk) ==
  LET e == ChunkEnd(c[1], end, chunk)
  IN  \/ F[c] = << >>
      \/ /\ e # c[1]
         /\ \E t : /\ F[c] = << [start |-> c[1], end |-> e] >> \o t
                   /\ t = << >> \/ (e # truncateToSecond(end) /\ t = F[NextOf(c, end, chunk)])

LEMMA ChunksAre ==
  ASSUME NEW end \in Int, NEW chunk \in Nat, NEW max, NEW c \in Int \X Nat
  PROVE  NextChunks(chunksFrom(end, chunk, Minute, max, TRUE), c, end, chunk)
  <1> DEFINE F == chunksFrom(end, chunk, Minute, max, TRUE)
             e == ChunkEnd(c[1], end, chunk)
  <1>1. F[c] = Unfold(F, c, end, chunk, max)
    BY ChunksEquation, Zenon
  <1> HIDE DEF F
  <1>2. \/ F[c] = << >>
        \/ /\ e # c[1]
           /\ F[c] = << [start |-> c[1], end |-> e] >> \o
                     (IF e = truncateToSecond(end) THEN << >> ELSE F[NextOf(c, end, chunk)])
    BY <1>1, Zenon DEF Unfold, chunkAccepted
  <1>3. NextChunks(F, c, end, chunk)
    BY <1>2, Zenon DEF NextChunks
  <1> QED BY <1>3, Zenon DEF F

(***************************************************************************)
(* Queries from one minute to a later one, each a minute after the last.   *)
(***************************************************************************)
Contiguous(rs, hi) ==
  /\ rs \in Seq(Window)
  /\ \A i \in 1..Len(rs) :
       /\ OnMinute(rs[i].start) /\ OnMinute(rs[i].end)
       /\ rs[i].start < rs[i].end /\ rs[i].end <= hi
       /\ i > 1 => rs[i].start = rs[i - 1].end + Minute

LEMMA RangeTyped ==
  ASSUME NEW rs \in Seq(Window), NEW i \in 1..Len(rs)
  PROVE  rs[i] \in Window /\ rs[i].start \in Int /\ rs[i].end \in Int
  <1>1. rs[i] \in Window
    OBVIOUS
  <1> QED BY <1>1 DEF Window

ContiguousFrom(rs, s, hi) == Contiguous(rs, hi) /\ (rs # << >> => rs[1].start = s)

LEMMA ContiguousCons ==
  ASSUME NEW s \in Int, NEW e \in Int, NEW hi \in Int, NEW t,
         OnMinute(s), OnMinute(e), s < e, e <= hi, ContiguousFrom(t, e + Minute, hi)
  PROVE  ContiguousFrom(<< [start |-> s, end |-> e] >> \o t, s, hi)
  <1> DEFINE r == [start |-> s, end |-> e]
             rs == << r >> \o t
  <1>1. r \in Window /\ t \in Seq(Window)
    BY DEF Window, ContiguousFrom, Contiguous
  <1>2. /\ rs \in Seq(Window) /\ Len(rs) = Len(t) + 1 /\ Len(t) \in Nat
        /\ rs[1] = r
        /\ \A i \in 1..Len(t) : rs[i + 1] = t[i]
    BY <1>1
  <1> HIDE DEF rs
  <1>3. ASSUME NEW i \in 1..Len(rs)
        PROVE  /\ OnMinute(rs[i].start) /\ OnMinute(rs[i].end)
               /\ rs[i].start < rs[i].end /\ rs[i].end <= hi
               /\ i > 1 => rs[i].start = rs[i - 1].end + Minute
    <2>1. CASE i = 1
      BY <1>2, <2>1
    <2>2. CASE i # 1
      <3> DEFINE k == i - 1
      <3>1. k \in 1..Len(t) /\ i = k + 1
        BY <1>2, <2>2
      <3> HIDE DEF k
      <3>2. rs[i] = t[k]
        BY <1>2, <3>1
      <3>3. /\ OnMinute(t[k].start) /\ OnMinute(t[k].end)
            /\ t[k].start < t[k].end /\ t[k].end <= hi
            /\ k > 1 => t[k].start = t[k - 1].end + Minute
        BY <3>1 DEF ContiguousFrom, Contiguous
      <3>4. rs[i].start = rs[i - 1].end + Minute
        <4>1. CASE k = 1
          <5>1. t # << >> /\ rs[i - 1] = r
            BY <1>1, <1>2, <3>1, <4>1
          <5> QED BY <3>2, <4>1, <5>1 DEF ContiguousFrom
        <4>2. CASE k # 1
          <5>1. k - 1 \in 1..Len(t) /\ rs[(k - 1) + 1] = t[k - 1]
            BY <1>2, <3>1, <4>2
          <5>2. rs[i - 1] = t[k - 1] /\ k > 1
            BY <1>2, <3>1, <4>2, <5>1
          <5> QED BY <3>2, <3>3, <5>2
        <4> QED BY <4>1, <4>2
      <3> QED BY <3>2, <3>3, <3>4
    <2> QED BY <2>1, <2>2
  <1>4. Contiguous(rs, hi)
    BY <1>2, <1>3 DEF Contiguous
  <1> QED BY <1>2, <1>4 DEF rs, ContiguousFrom

(***************************************************************************)
(* Whatever the chunk size and the limit on their number, the queries for  *)
(* an import are contiguous, start where they are asked to and end by the  *)
(* minute asked for (query.go:159-205).                                    *)
(***************************************************************************)
LEMMA ChunksContiguous ==
  ASSUME NEW end \in Int, NEW chunk \in Nat, NEW max, NEW c \in Int \X Nat
  PROVE  LET rs == chunksFrom(end, chunk, Minute, max, TRUE)[c]
         IN  /\ rs \in Seq(Window)
             /\ OnMinute(c[1]) /\ c[1] <= truncateToSecond(end) =>
                  ContiguousFrom(rs, c[1], truncateToSecond(end))
  <1> DEFINE F == chunksFrom(end, chunk, Minute, max, TRUE)
             E == truncateToSecond(end)
             Good(b) == /\ F[b] \in Seq(Window)
                        /\ OnMinute(b[1]) /\ b[1] <= E => ContiguousFrom(F[b], b[1], E)
             T == {b \in Int \X Nat : ~Good(b)}
  <1>1. E \in Int /\ OnMinute(E) /\ Minute \in Nat
    BY Truncated, MinuteAssumption
  <1>2. ASSUME NEW b \in Int \X Nat, ~Good(b)
        PROVE  \E a \in T : b[1] < a[1] /\ a[1] <= E
    <2> DEFINE e == ChunkEnd(b[1], end, chunk)
               n == NextOf(b, end, chunk)
    <2>1. b[1] \in Int
      OBVIOUS
    <2>2. /\ e \in Int /\ OnMinute(e) /\ e <= E
          /\ OnMinute(b[1]) /\ b[1] <= E => b[1] <= e
      BY <2>1, ChunkEnds
    <2>3. e # E => /\ n \in Int \X Nat /\ n[1] = e + Minute /\ b[1] < n[1] /\ n[1] <= E
                   /\ OnMinute(n[1])
      BY NextIsLater
    <2>4. CASE F[b] = << >>
      <3>1. << >> \in Seq(Window) /\ Len(<< >>) = 0
        OBVIOUS
      <3>2. ContiguousFrom(<< >>, b[1], E)
        BY <3>1 DEF ContiguousFrom, Contiguous
      <3> QED BY <1>2, <2>4, <3>1, <3>2
    <2>5. CASE /\ e # b[1]
               /\ \E t : /\ F[b] = << [start |-> b[1], end |-> e] >> \o t
                         /\ t = << >> \/ (e # E /\ t = F[n])
      <3>1. PICK t : /\ F[b] = << [start |-> b[1], end |-> e] >> \o t
                     /\ t = << >> \/ (e # E /\ t = F[n])
        BY <2>5
      <3> HIDE DEF F, E, e, n
      <3>2. SUFFICES ASSUME e # E => Good(n)
                     PROVE  FALSE
        BY <2>3
      <3>3. t \in Seq(Window) /\ ContiguousFrom(t, e + Minute, E)
        <4>1. CASE t = << >>
          <5>1. << >> \in Seq(Window) /\ Len(<< >>) = 0
            OBVIOUS
          <5> QED BY <4>1, <5>1 DEF ContiguousFrom, Contiguous
        <4>2. CASE e # E /\ t = F[n]
          BY <4>2, <2>3, <3>2
        <4> QED BY <3>1, <4>1, <4>2
      <3>4. F[b] \in Seq(Window)
        <4>1. [start |-> b[1], end |-> e] \in Window
          BY <2>1, <2>2 DEF Window
        <4> QED BY <3>1, <3>3, <4>1
      <3>5. ASSUME OnMinute(b[1]), b[1] <= E
            PROVE  ContiguousFrom(F[b], b[1], E)
        <4>1. b[1] < e
          BY <2>1, <2>2, <2>5, <3>5
        <4>2. ContiguousFrom(<< [start |-> b[1], end |-> e] >> \o t, b[1], E)
          BY <1>1, <2>1, <2>2, <3>3, <3>5, <4>1, ContiguousCons
        <4> QED BY <3>1, <4>2
      <3> QED BY <1>2, <3>4, <3>5
    <2>6. \/ F[b] = << >>
          \/ /\ e # b[1]
             /\ \E t : /\ F[b] = << [start |-> b[1], end |-> e] >> \o t
                       /\ t = << >> \/ (e # E /\ t = F[n])
      <3>1. NextChunks(F, b, end, chunk)
        BY ChunksAre
      <3> HIDE DEF F
      <3> QED BY <3>1, Zenon DEF NextChunks
    <2> QED BY <2>4, <2>5, <2>6
  <1>3. T = {}
    <2>1. T \subseteq Int \X Nat
      OBVIOUS
    <2>2. \A b \in T : \E a \in T : b[1] < a[1] /\ a[1] <= E
      BY <1>2
    <2> HIDE DEF T, E
    <2> QED BY <1>1, <2>1, <2>2, NoEndlessAscent
  <1>4. Good(c)
    BY <1>3
  <1> QED BY <1>4, Zenon

(***************************************************************************)
(* Without a limit on their number, the queries reach the last minute but  *)
(* one: a last one of a single instant is not made (query.go:172).         *)
(***************************************************************************)
LEMMA ChunksReach ==
  ASSUME NEW end \in Int, NEW chunk \in Nat, Minute <= chunk, NEW c \in Int \X Nat,
         OnMinute(c[1]), c[1] <= truncateToSecond(end)
  PROVE  LET rs == chunksFrom(end, chunk, Minute, NoLimit, TRUE)[c]
         IN  /\ rs = << >> => c[1] = truncateToSecond(end)
             /\ rs # << >> => truncateToSecond(end) <= rs[Len(rs)].end + Minute
  <1> DEFINE F == chunksFrom(end, chunk, Minute, NoLimit, TRUE)
             E == truncateToSecond(end)
             Reach(b) == /\ F[b] = << >> => b[1] = E
                         /\ F[b] # << >> => E <= F[b][Len(F[b])].end + Minute
             T == {b \in Int \X Nat : OnMinute(b[1]) /\ b[1] <= E /\ ~Reach(b)}
  <1>1. E \in Int /\ OnMinute(E) /\ Minute \in Nat \ {0}
    BY Truncated, MinuteAssumption
  <1>2. \A b \in Int \X Nat : F[b] \in Seq(Window)
    BY ChunksContiguous, Zenon
  <1>3. ASSUME NEW b \in T
        PROVE  \E a \in T : b[1] < a[1] /\ a[1] <= E
    <2> DEFINE e == ChunkEnd(b[1], end, chunk)
               n == NextOf(b, end, chunk)
               r == [start |-> b[1], end |-> e]
    <2>1. b \in Int \X Nat /\ b[1] \in Int /\ OnMinute(b[1]) /\ b[1] <= E /\ ~Reach(b)
      OBVIOUS
    <2>2. e \in Int /\ e <= E
      BY <2>1, ChunkEnds
    <2>3. e # E => /\ n \in Int \X Nat /\ n[1] = e + Minute /\ b[1] < n[1] /\ n[1] <= E
                   /\ OnMinute(n[1])
      BY <2>1, NextIsLater
    <2>4. e = b[1] => e = E
      <3> DEFINE s == b[1]
      <3>1. s \in Int /\ OnMinute(s)
        BY <2>1
      <3> HIDE DEF s
      <3>2. OnMinute(s + Minute)
        BY <3>1, NextMinute
      <3>3. s + Minute <= truncateToSecond(s + chunk)
        BY <1>1, <3>1, <3>2, TruncateIsLast
      <3>4. truncateToSecond(s + chunk) \in Int
        BY <3>1, Truncated
      <3>5. truncateToSecond(s + chunk) # s
        BY <1>1, <3>1, <3>3, <3>4
      <3> QED BY <3>5 DEF ChunkEnd, chunkEndFor, s
    <2>5. F[b] = Unfold(F, b, end, chunk, NoLimit)
      BY <2>1, ChunksEquation
    <2> HIDE DEF F, e, n, E
    <2>6. ~(NoLimit > NoLimit)
      BY DEF NoLimit
    <2>7. \/ e = b[1] /\ F[b] = << >>
          \/ e # b[1] /\ F[b] = << r >> \o (IF e = E THEN << >> ELSE F[n])
      BY <2>5, <2>6, Zenon DEF Unfold, chunkAccepted, e, n, E
    <2>8. CASE e = b[1] /\ F[b] = << >>
      BY <2>1, <2>4, <2>8
    <2>9. CASE e = E /\ F[b] = << r >>
      <3>1. F[b] # << >> /\ F[b][Len(F[b])] = r
        BY <2>9
      <3> QED BY <1>1, <2>1, <2>9, <3>1
    <2>10. CASE e # E /\ F[b] = << r >> \o F[n]
      <3>1. F[n] \in Seq(Window)
        BY <1>2, <2>3, <2>10
      <3>2. /\ F[b] # << >> /\ Len(F[b]) = Len(F[n]) + 1
            /\ F[n] = << >> => F[b][Len(F[b])] = r
            /\ F[n] # << >> => F[b][Len(F[b])] = F[n][Len(F[n])]
        BY <2>10, <3>1
      <3>3. ~Reach(n)
        <4>1. SUFFICES ASSUME Reach(n)
                       PROVE  FALSE
          OBVIOUS
        <4>2. CASE F[n] = << >>
          <5>1. e + Minute = E /\ F[b][Len(F[b])].end = e
            BY <2>3, <2>10, <3>2, <4>1, <4>2
          <5> QED BY <1>1, <2>1, <2>2, <3>2, <5>1
        <4>3. CASE F[n] # << >>
          BY <2>1, <3>2, <4>1, <4>3
        <4> QED BY <4>2, <4>3
      <3> QED BY <2>3, <2>10, <3>3
    <2>11. << r >> \o << >> = << r >>
      BY <2>1, <2>2
    <2> QED BY <2>7, <2>8, <2>9, <2>10, <2>11
  <1>4. T = {}
    <2>1. T \subseteq Int \X Nat
      OBVIOUS
    <2> HIDE DEF T, E
    <2> QED BY <1>1, <1>3, <2>1, NoEndlessAscent
  <1>5. Reach(c)
    BY <1>4
  <1> QED BY <1>5, Zenon

-----------------------------------------------------------------------------
(* The minutes of contiguous queries                                       *)

(* They ascend.                                                            *)
LEMMA ContiguousAscends ==
  ASSUME NEW rs, NEW hi, Contiguous(rs, hi), NEW i \in 1..Len(rs), NEW j \in 1..Len(rs), i < j
  PROVE  rs[i].end < rs[j].start
  <1> DEFINE T == {k \in 1..Len(rs) : i < k /\ ~(rs[i].end < rs[k].start)}
  <1>1. rs \in Seq(Window) /\ Len(rs) \in Nat
    BY DEF Contiguous
  <1>2. \A k \in 1..Len(rs) : rs[k].start \in Int /\ rs[k].end \in Int
    BY <1>1, RangeTyped
  <1>3. T = {}
    <2>1. SUFFICES ASSUME T # {}
                   PROVE  FALSE
      OBVIOUS
    <2>2. T \subseteq Nat
      OBVIOUS
    <2>3. PICK k \in T : \A m \in T : k <= m
      <3> HIDE DEF T
      <3> QED BY <2>1, <2>2, Least
    <2>4. k \in 1..Len(rs) /\ i < k /\ ~(rs[i].end < rs[k].start)
      BY <2>3
    <2>5. rs[k].start = rs[k - 1].end + Minute /\ k - 1 \in 1..Len(rs)
      BY <1>1, <2>4 DEF Contiguous
    <2>6. CASE k - 1 = i
      BY <1>2, <2>4, <2>5, <2>6, MinuteAssumption
    <2>7. CASE k - 1 # i
      <3>1. k - 1 \notin T /\ i < k - 1
        BY <2>3, <2>4, <2>7
      <3>2. rs[i].end < rs[k - 1].start
        BY <2>5, <3>1
      <3>3. rs[k - 1].start < rs[k - 1].end
        BY <2>5 DEF Contiguous
      <3>4. /\ rs[i].end \in Int /\ rs[k - 1].start \in Int /\ rs[k - 1].end \in Int
            /\ rs[k].start \in Int
        BY <1>2, <2>4, <2>5
      <3> QED BY <2>4, <2>5, <3>2, <3>3, <3>4, MinuteAssumption
    <2> QED BY <2>6, <2>7
  <1> QED BY <1>3

(* They leave no minute out.                                               *)
LEMMA ContiguousCovers ==
  ASSUME NEW rs, NEW hi, Contiguous(rs, hi), rs # << >>, NEW t \in Int, OnMinute(t),
         rs[1].start <= t, t <= rs[Len(rs)].end
  PROVE  \E i \in 1..Len(rs) : rs[i].start <= t /\ t <= rs[i].end
  <1> DEFINE T == {k \in 1..Len(rs) : t <= rs[k].end}
  <1>1. rs \in Seq(Window) /\ Len(rs) \in Nat \ {0}
    BY DEF Contiguous
  <1>2. \A k \in 1..Len(rs) : rs[k].start \in Int /\ rs[k].end \in Int
    BY <1>1, RangeTyped
  <1>3. Len(rs) \in T /\ T \subseteq Nat
    BY <1>1
  <1>4. PICK k \in T : \A m \in T : k <= m
    <2> HIDE DEF T
    <2> QED BY <1>3, Least
  <1>5. k \in 1..Len(rs) /\ t <= rs[k].end
    BY <1>4
  <1>6. rs[k].start <= t
    <2>1. CASE k = 1
      BY <2>1
    <2>2. CASE k # 1
      <3>1. /\ rs[k].start = rs[k - 1].end + Minute /\ k - 1 \in 1..Len(rs)
            /\ OnMinute(rs[k - 1].end)
        BY <1>1, <1>5, <2>2 DEF Contiguous
      <3>2. k - 1 \notin T
        BY <1>4, <1>5
      <3>3. rs[k - 1].end < t
        BY <1>2, <3>1, <3>2
      <3> QED BY <1>2, <3>1, <3>3, MinutesApart
    <2> QED BY <2>1, <2>2
  <1> QED BY <1>5, <1>6

(* The instants of a query are its minutes.                                *)
LEMMA InstantsAreMinutes ==
  ASSUME NEW r \in Window, OnMinute(r.start), NEW t
  PROVE  t \in Instants(r, Minute) <=>
           t \in Int /\ OnMinute(t) /\ r.start <= t /\ t <= r.end
  <1>1. r.start \in Int /\ r.end \in Int
    BY DEF Window
  <1>2. ASSUME t \in Instants(r, Minute)
        PROVE  t \in Int /\ OnMinute(t) /\ r.start <= t /\ t <= r.end
    <2>1. t \in Int /\ r.start <= t /\ t <= r.end /\ OnMinute(t - r.start)
      BY <1>1, <1>2 DEF Instants, OnMinute
    <2> QED BY <1>1, <2>1, MinutesAfter
  <1>3. ASSUME t \in Int, OnMinute(t), r.start <= t, t <= r.end
        PROVE  t \in Instants(r, Minute)
    <2>1. OnMinute(t - r.start)
      BY <1>1, <1>3, MinutesBetween
    <2> QED BY <1>1, <1>3, <2>1 DEF Instants, OnMinute
  <1> QED BY <1>2, <1>3

(***************************************************************************)
(* Every import that allows incomplete chunks, as all of the operator's    *)
(* do (datasources.go:33), is cut into queries as RangesCoverOnce asks,    *)
(* for instants without a bound, any chunk of a minute or more and any     *)
(* limit on their number: the queries lie within what is asked for, never  *)
(* evaluate an instant twice, skip none, and without a limit leave at most *)
(* the last one (query.go:159-205).                                        *)
(***************************************************************************)
THEOREM ImportsCoverOnce ==
  ASSUME NEW begin \in Int, NEW end \in Int, begin <= end,
         NEW chunk \in Nat, Minute <= chunk, NEW max \in Nat
  PROVE  CoversOnce([begin |-> begin, end |-> end, step |-> Minute, chunk |-> chunk,
                     max |-> max, incomplete |-> TRUE])
  <1> DEFINE import == [begin |-> begin, end |-> end, step |-> Minute, chunk |-> chunk,
                        max |-> max, incomplete |-> TRUE]
             B == truncateToSecond(begin)
             E == truncateToSecond(end)
             rs == chunksFrom(end, chunk, Minute, max, TRUE)[<<B, 0>>]
             In(i) == Instants(rs[i], Minute)
             reached == UNION {In(i) : i \in DOMAIN rs}
             left == Wanted(import) \ reached
  <1>1. B \in Int /\ E \in Int /\ OnMinute(B) /\ OnMinute(E) /\ B <= begin /\ E <= end
    BY Truncated
  <1>2. B <= E
    BY <1>1, TruncateIsLast
  <1>3. <<B, 0>> \in Int \X Nat /\ <<B, 0>>[1] = B
    BY <1>1
  <1>4. ContiguousFrom(rs, B, E)
    <2>1. /\ rs \in Seq(Window)
          /\ OnMinute(<<B, 0>>[1]) /\ <<B, 0>>[1] <= E => ContiguousFrom(rs, <<B, 0>>[1], E)
      BY <1>3, ChunksContiguous, Zenon
    <2> HIDE DEF rs
    <2> QED BY <1>1, <1>2, <1>3, <2>1
  <1>5. max = NoLimit => /\ rs = << >> => B = E
                         /\ rs # << >> => E <= rs[Len(rs)].end + Minute
    <2>1. SUFFICES ASSUME max = NoLimit
                   PROVE  /\ rs = << >> => B = E
                          /\ rs # << >> => E <= rs[Len(rs)].end + Minute
      OBVIOUS
    <2>2. OnMinute(<<B, 0>>[1]) /\ <<B, 0>>[1] <= E
      BY <1>1, <1>2, <1>3
    <2>3. /\ rs = << >> => <<B, 0>>[1] = E
          /\ rs # << >> => E <= rs[Len(rs)].end + Minute
      BY <1>3, <2>1, <2>2, ChunksReach, Zenon
    <2> HIDE DEF rs
    <2> QED BY <1>3, <2>3
  <1>6. Ranges(import) = rs
    BY Zenon DEF Ranges, getTimeRangesChunked
  <1>7. Wanted(import) = {t \in B .. E : (t - B) % Minute = 0}
    BY DEF Wanted
  <1>8. \A t \in Wanted(import) : t \in Int /\ OnMinute(t) /\ B <= t /\ t <= E
    <2> HIDE DEF import, B, E
    <2>1. SUFFICES ASSUME NEW t \in Wanted(import)
                   PROVE  t \in Int /\ OnMinute(t) /\ B <= t /\ t <= E
      OBVIOUS
    <2>2. t \in Int /\ B <= t /\ t <= E /\ OnMinute(t - B)
      BY <1>1, <1>7 DEF OnMinute
    <2> QED BY <1>1, <2>2, MinutesAfter
  <1> HIDE DEF rs
  <1>9. /\ rs \in Seq(Window) /\ Len(rs) \in Nat /\ DOMAIN rs = 1..Len(rs)
        /\ Contiguous(rs, E) /\ (rs # << >> => rs[1].start = B)
        /\ rs # << >> <=> Len(rs) > 0
    BY <1>4 DEF ContiguousFrom, Contiguous
  <1>10. \A i \in 1..Len(rs) :
           /\ rs[i] \in Window /\ rs[i].start \in Int /\ rs[i].end \in Int
           /\ OnMinute(rs[i].start) /\ OnMinute(rs[i].end)
           /\ rs[i].start < rs[i].end /\ rs[i].end <= E
    BY <1>9, RangeTyped DEF Contiguous
  <1>11. \A i \in 1..Len(rs) : \A t :
           t \in In(i) <=> t \in Int /\ OnMinute(t) /\ rs[i].start <= t /\ t <= rs[i].end
    BY <1>10, InstantsAreMinutes
  <1>12. \A i, j \in 1..Len(rs) : i < j => rs[i].end < rs[j].start
    BY <1>9, ContiguousAscends
  <1> HIDE DEF import, B, E, In
  <1>13. \A i \in DOMAIN rs : /\ B <= rs[i].start
                              /\ rs[i].start <= rs[i].end
                              /\ rs[i].end <= end
    <2>1. SUFFICES ASSUME NEW i \in 1..Len(rs)
                   PROVE  B <= rs[i].start /\ rs[i].start <= rs[i].end /\ rs[i].end <= end
      BY <1>9
    <2>2. 1 \in 1..Len(rs) /\ rs[1].start = B
      BY <1>9
    <2>3. i = 1 \/ 1 < i
      BY <1>9
    <2>4. B <= rs[i].start
      BY <1>1, <1>10, <1>12, <2>2, <2>3
    <2> QED BY <1>1, <1>10, <2>4
  <1>14. \A i, j \in DOMAIN rs : i < j => In(i) \cap In(j) = {}
    BY <1>9, <1>10, <1>11, <1>12
  <1>15. ASSUME NEW t \in left, rs # << >>
         PROVE  rs[Len(rs)].end < t
    <2>1. t \in Int /\ OnMinute(t) /\ B <= t /\ t <= E /\ \A i \in 1..Len(rs) : t \notin In(i)
      BY <1>8, <1>9
    <2>2. SUFFICES ASSUME t <= rs[Len(rs)].end
                   PROVE  FALSE
      BY <1>9, <1>10, <1>15, <2>1
    <2>3. \E i \in 1..Len(rs) : rs[i].start <= t /\ t <= rs[i].end
      BY <1>9, <1>15, <2>1, <2>2, ContiguousCovers
    <2> QED BY <1>11, <2>1, <2>3
  <1>16. ASSUME NEW t \in left, NEW u \in reached
         PROVE  u < t
    <2>1. PICK i \in 1..Len(rs) : u \in In(i)
      BY <1>9
    <2>2. t \in Int /\ (rs # << >> => rs[Len(rs)].end < t)
      BY <1>8, <1>15
    <2> HIDE DEF left, reached
    <2>3. rs # << >> /\ Len(rs) \in 1..Len(rs) /\ (i = Len(rs) \/ i < Len(rs))
      <3>1. Len(rs) \in Nat /\ i \in Int /\ 1 <= i /\ i <= Len(rs)
        BY <1>9
      <3>2. Len(rs) > 0 /\ Len(rs) \in 1..Len(rs) /\ (i = Len(rs) \/ i < Len(rs))
        BY <3>1
      <3> QED BY <1>9, <3>2
    <2>4. rs[i].end <= rs[Len(rs)].end
      BY <1>10, <1>12, <2>3
    <2>5. u \in Int /\ u <= rs[i].end
      BY <1>11, <2>1
    <2> QED BY <1>10, <2>3, <2>4, <2>5, <2>2
  <1>17. max = NoLimit => left \subseteq {E}
    <2>1. SUFFICES ASSUME max = NoLimit, NEW t \in left
                   PROVE  t = E
      OBVIOUS
    <2>2. t \in Int /\ OnMinute(t) /\ B <= t /\ t <= E
      BY <1>8
    <2>3. CASE rs = << >>
      BY <1>1, <1>5, <2>1, <2>2, <2>3
    <2>4. CASE rs # << >>
      <3>1. Len(rs) \in 1..Len(rs) /\ rs[Len(rs)].end < t /\ E <= rs[Len(rs)].end + Minute
        BY <1>5, <1>9, <1>15, <2>1, <2>4
      <3>2. rs[Len(rs)].end + Minute <= t /\ rs[Len(rs)].end \in Int
        BY <1>10, <2>2, <3>1, MinutesApart
      <3> QED BY <1>1, <2>2, <3>1, <3>2, MinuteAssumption
    <2> QED BY <2>3, <2>4
  <1>18. /\ import.begin = begin /\ import.end = end /\ import.step = Minute
         /\ import.max = max /\ import.incomplete = TRUE
    BY DEF import
  <1>19. CoversOnce(import)
    <2> HIDE DEF left, reached
    <2>1. left = Wanted(import) \ UNION {Instants(rs[i], Minute) : i \in DOMAIN rs}
      BY DEF left, reached, In
    <2>2. \A t \in left, u \in reached : u < t
      BY <1>16
    <2> QED BY <1>6, <1>13, <1>14, <2>2, <1>17, <1>18, Zenon
            DEF CoversOnce, left, reached, In, B, E
  <1> QED BY <1>19 DEF import

-----------------------------------------------------------------------------
(* The inductive invariants                                                *)

Importing == {"query", "store"}

(* What a job has at hand when it goes on.                                 *)
JobSound(j) ==
  LET w == work[j]
  IN  /\ w.pc \in Importing => w.ranges # << >> /\ w.table \in DataSources
      /\ w.pc = "store" => w.pending # {}
      /\ w.pc \in {"endImport", "putStatus"} => w.done # Null
      /\ j[1] = "periodic" /\ w.pc \notin {"idle", "createTable"} =>
           importers[NameOf[j[2]]].cfg # Null

(* Nothing is stored before its time.                                      *)
PastSamples ==
  /\ \A d \in DataSources : \A x \in rows[d] : x.at <= now
  /\ \A j \in Jobs : \A x \in work[j].pending : x.at <= now

JobsInv == TypeOK /\ PastSamples /\ \A j \in Jobs : JobSound(j)

SamplesOf(r) == {x \in Present : x.at \in Instants(r, StepSize)}

(***************************************************************************)
(* The import of d, if nothing disturbs it: it stays ahead of what the     *)
(* table holds, wherever it learned how far the table has come.            *)
(***************************************************************************)
ImportSound(d) ==
  LET w  == work[<<"periodic", d>>]
      im == importers[NameOf[d]]
  IN  /\ im.cfg \in {Null, d}
      /\ twice[d] = {}
      /\ \A x \in rows[d] : OnMinute(x.at)
      /\ w.pc \in Importing =>
           /\ w.table = d /\ Contiguous(w.ranges, now)
           /\ \A x \in rows[d] : x.at < w.ranges[1].start
      /\ w.pc = "store" => w.pending = SamplesOf(w.ranges[1])
      /\ w.pc \in {"endImport", "putStatus"} =>
           OnMinute(w.done.end) /\ \A x \in rows[d] : x.at <= w.done.end
      /\ w.pc \notin Importing \cup {"endImport"} /\ im.last # Null =>
           OnMinute(im.last) /\ \A x \in rows[d] : x.at <= im.last

(* Nobody else imports.                                                    *)
OthersIdle ==
  \A d \in DataSources :
    /\ work[<<"onDemand", d>>] = NoWork
    /\ d \notin setup.sources => work[<<"periodic", d>>] = NoWork /\ twice[d] = {}

ImporterInv ==
  /\ JobsInv
  /\ Undisturbed => OthersIdle /\ \A d \in setup.sources : ImportSound(d)

(***************************************************************************)
(* What MetricsTable needs.  Queries are made at minutes only, and where   *)
(* an import of an empty table starts does not move: either ImportFromTime *)
(* is set, or the first query of every backfill finds a sample.  A backfill *)
(* that finds none publishes its window, and after a restart the next one  *)
(* starts MaxBackfill before the present: what Prometheus has got in       *)
(* between is never imported.                                              *)
(***************************************************************************)
SamplesAtMinutes == \A x \in Present : OnMinute(x.at)

BackfillsFindSamples ==
  \A t \in Nat : MaxBackfill <= t =>
    LET todo == timeRangesBetween(t - MaxBackfill, t)
    IN  todo # << >> => SamplesOf(todo[1]) # {}

StartStays == ImportFromTime # Null \/ BackfillsFindSamples

Has(d, t) == \E y \in rows[d] : y.at = t

(* The table holds all samples from s to e.                                *)
Complete(d, s, e) == \A x \in Present : s <= x.at /\ x.at <= e => x \in rows[d]

(* The table holds all samples from s up to its latest.                    *)
CompleteFrom(d, s) == \A y \in rows[d] : Complete(d, s, y.at)

(* An import of d that has lost its memory does not start later than s.    *)
Anchored(d, s) ==
  IF rows[d] = {} THEN ImportFromTime # Null /\ s = truncateToSecond(ImportFromTime)
  ELSE \E y \in rows[d] : s <= y.at + Minute

(* The window st can be extended from s on.                                *)
Extends(d, st, s) ==
  IF st.start = Null THEN Anchored(d, s)
  ELSE st.start <= s /\ Complete(d, st.start, s - Minute)

(* r has been imported for d, and would extend what d has published.       *)
DoneSound(d, r) ==
  LET st == api[d].status
  IN  /\ r \in Window /\ r.start <= r.end /\ Complete(d, r.start, r.end)
      /\ IF st.start = Null THEN Anchored(d, r.start)
         ELSE st.start <= r.start /\ Complete(d, st.start, r.end)

(* The published window has no gaps, nor has the table from its start on.  *)
StatusSound(d) ==
  LET st == api[d].status
  IN  /\ st.start = Null => st.end = Null /\ st.earliest = Null
      /\ st.start # Null =>
           /\ st.end # Null /\ st.start <= st.end
           /\ Complete(d, st.start, st.end)
           /\ CompleteFrom(d, st.start) /\ Anchored(d, st.start)

(***************************************************************************)
(* The status of d is sound, and an import continues where the window can  *)
(* be extended.                                                            *)
(***************************************************************************)
WindowSound(d) ==
  LET st == api[d].status
      w  == work[<<"periodic", d>>]
      im == importers[NameOf[d]]
  IN  /\ StatusSound(d)
      /\ w.pc \notin {"idle", "createTable"} => w.status = st
      /\ w.pc = "import" => w.done = Null
      /\ w.pc \in Importing =>
           IF w.done = Null
           THEN \/ Extends(d, st, w.ranges[1].start)
                \/ st.start = Null /\ SamplesOf(w.ranges[1]) # {}
           ELSE DoneSound(d, w.done) /\ w.done.end + Minute = w.ranges[1].start
      /\ w.pc \in {"endImport", "putStatus"} => DoneSound(d, w.done)
      /\ w.pc = "putStatus" => im.last = w.done.end
      /\ w.pc \notin Importing \cup {"endImport", "putStatus"} /\ im.last # Null =>
           Extends(d, st, im.last + Minute)

PromiseInv ==
  /\ ImporterInv
  /\ MaxBackfill <= now
  /\ Undisturbed =>
       \A d \in DataSources :
         IF d \in setup.sources THEN WindowSound(d)
         ELSE rows[d] = {} /\ api[d].status = NoStatus

-----------------------------------------------------------------------------
(* Facts about the operators of the importer                               *)

LEMMA PresentTimes == \A x \in Present : x.at \in Nat
  BY ImporterAssumption DEF Sample

LEMMA LatestTimeIs ==
  ASSUME NEW S, S \subseteq Present, S # {}, NEW hi \in Int, \A x \in S : x.at <= hi
  PROVE  /\ LatestTime(S) \in Nat
         /\ \E y \in S : y.at = LatestTime(S)
         /\ \A x \in S : x.at <= LatestTime(S)
  <1> DEFINE Ts == {x.at : x \in S}
             D == {hi - t : t \in Ts}
  <1>1. Ts \subseteq Nat /\ Ts # {}
    BY PresentTimes
  <1>2. \A t \in Ts : t <= hi
    OBVIOUS
  <1> HIDE DEF Ts
  <1>3. D \subseteq Nat /\ D # {}
    <2>1. \A t \in Ts : hi - t \in Nat
      BY <1>1, <1>2
    <2> QED BY <1>1, <2>1
  <1>4. PICK d \in D : \A e \in D : d <= e
    BY <1>3, Least
  <1>5. PICK t \in Ts : d = hi - t
    BY <1>4
  <1>6. ASSUME NEW u \in Ts
        PROVE  u <= t
    <2>1. hi - t <= hi - u
      BY <1>4, <1>5
    <2> QED BY <1>1, <2>1
  <1>7. \A x \in S : x.at <= t
    BY <1>6 DEF Ts
  <1>8. LatestTime(S) \in Ts /\ \A x \in S : x.at <= LatestTime(S)
    BY <1>7 DEF LatestTime, Ts
  <1> QED BY <1>1, <1>8 DEF Ts

LEMMA MetricsTyped ==
  ASSUME NEW S, S \subseteq Present, S # {}, NEW hi \in Int, \A x \in S : x.at <= hi,
         NEW m \in Window \cup {Null}
  PROVE  MetricsWith(m, S) \in Window
  <1> DEFINE Ts == {x.at : x \in S}
             first == CHOOSE t \in Ts : \A u \in Ts : t <= u
  <1>1. Ts \subseteq Nat /\ Ts # {}
    BY PresentTimes
  <1>2. MetricsWith(m, S) = [start |-> IF m = Null THEN first ELSE m.start, end |-> LatestTime(S)]
    BY Zenon DEF MetricsWith
  <1> HIDE DEF Ts
  <1>3. \E t \in Ts : \A u \in Ts : t <= u
    BY <1>1, Least
  <1>4. first \in Nat
    BY <1>1, <1>3
  <1> HIDE DEF first
  <1>5. LatestTime(S) \in Int
    BY LatestTimeIs
  <1>6. m # Null => m.start \in Int
    BY DEF Window
  <1> QED BY <1>2, <1>4, <1>5, <1>6 DEF Window

LEMMA BatchesAre ==
  ASSUME setup \in Setups, NEW S, S \subseteq Present, S # {}, NEW B \in Batches(S)
  PROVE  /\ B \subseteq S /\ B # {}
         /\ setup.batchSize >= Cardinality(Present) => B = S
  <1>1. setup.batchSize \in Nat \ {0}
    BY ImporterAssumption DEF Setup
  <1>2. IsFiniteSet(Present)
    BY ImporterAssumption
  <1>3. IsFiniteSet(S) /\ Cardinality(S) <= Cardinality(Present)
    BY <1>2, FS_Subset
  <1>4. Cardinality(S) \in Nat /\ Cardinality(Present) \in Nat /\ Cardinality(S) # 0
    BY <1>2, <1>3, FS_CardinalityType, FS_EmptySet
  <1>5. /\ B \subseteq S
        /\ Cardinality(B) = IF Cardinality(S) < setup.batchSize THEN Cardinality(S)
                            ELSE setup.batchSize
    BY DEF Batches
  <1>6. Cardinality(B) # 0
    BY <1>1, <1>4, <1>5
  <1>7. B # {}
    BY <1>6, FS_EmptySet
  <1>8. ASSUME setup.batchSize >= Cardinality(Present)
        PROVE  B = S
    <2>1. Cardinality(S) = Cardinality(B)
      BY <1>1, <1>3, <1>4, <1>5, <1>8
    <2> QED BY <1>3, <1>5, <2>1, FS_Subset
  <1> QED BY <1>5, <1>7, <1>8

(* The configuration of operator.go: a step is a minute.                   *)
MinuteSteps == StepSize = Minute

LEMMA RangesBetween ==
  ASSUME MinuteSteps, NEW start \in Int, NEW end \in Int
  PROVE  /\ timeRangesBetween(start, end) \in Seq(Window)
         /\ start <= end =>
              ContiguousFrom(timeRangesBetween(start, end), truncateToSecond(start), end)
  <1> DEFINE cut == IF MaxQueryRangeDuration # 0 /\ end - start > MaxQueryRangeDuration
                    THEN start + MaxQueryRangeDuration ELSE end
             c == <<truncateToSecond(start), 0>>
             rs == chunksFrom(cut, ChunkSize, Minute, MaxTimeRanges, TRUE)[c]
  <1>1. timeRangesBetween(start, end) = rs
    BY Zenon DEF timeRangesBetween, getTimeRangesChunked, MinuteSteps
  <1>2. /\ MaxQueryRangeDuration \in Nat /\ ChunkSize \in Nat
        /\ truncateToSecond(start) \in Int /\ OnMinute(truncateToSecond(start))
        /\ truncateToSecond(start) <= start
    BY ImporterAssumption, Truncated
  <1>3. cut \in Int /\ cut <= end /\ (start <= end => start <= cut)
    BY <1>2
  <1> HIDE DEF cut
  <1>4. c \in Int \X Nat /\ c[1] = truncateToSecond(start)
    BY <1>2
  <1> HIDE DEF c
  <1>5. /\ rs \in Seq(Window)
        /\ OnMinute(c[1]) /\ c[1] <= truncateToSecond(cut) =>
             ContiguousFrom(rs, c[1], truncateToSecond(cut))
    BY <1>2, <1>3, <1>4, ChunksContiguous
  <1> HIDE DEF rs
  <1>6. ASSUME start <= end
        PROVE  ContiguousFrom(rs, truncateToSecond(start), end)
    <2>1. truncateToSecond(start) <= cut
      BY <1>2, <1>3, <1>6
    <2>2. c[1] <= truncateToSecond(cut)
      <3>1. truncateToSecond(start) <= truncateToSecond(cut)
        BY <1>2, <1>3, <2>1, TruncateIsLast
      <3> QED BY <1>4, <3>1
    <2>3. ContiguousFrom(rs, c[1], truncateToSecond(cut))
      BY <1>2, <1>4, <1>5, <2>2
    <2>4. truncateToSecond(cut) \in Int /\ truncateToSecond(cut) <= end
      BY <1>3, Truncated
    <2>5. \A i \in 1..Len(rs) : rs[i].end \in Int
      BY <1>5, RangeTyped
    <2> QED BY <1>4, <2>3, <2>4, <2>5 DEF ContiguousFrom, Contiguous
  <1> QED BY <1>1, <1>5, <1>6, Zenon

-----------------------------------------------------------------------------
(* Types, and what jobs have at hand                                       *)

LEMMA JobsInitially == Init => JobsInv
  <1> SUFFICES ASSUME Init
               PROVE  JobsInv
    OBVIOUS
  <1> USE ImporterAssumption DEF Init
  <1>1. setup \in Setup
    OBVIOUS
  <1>2. NoWork \in Work /\ NewDataSource \in DataSourceObject
    BY DEF NoWork, Work, Steps, NoStatus, ImportStatus, OptTime, NewDataSource, DataSourceObject
  <1>3. TypeOK
    BY <1>1, <1>2 DEF TypeOK, Setup, NoImporter, OptTime
  <1>4. \A j \in Jobs : work[j].pc = "idle" /\ work[j].pending = {}
    BY DEF NoWork
  <1>5. PastSamples
    BY <1>4 DEF PastSamples
  <1>6. \A j \in Jobs : JobSound(j)
    BY <1>4 DEF JobSound, Importing
  <1> QED BY <1>3, <1>5, <1>6 DEF JobsInv

LEMMA NamesAre == \A d \in DataSources : NameOf[d] \in Names
  BY DEF Names

LEMMA JobsAre ==
  /\ \A d \in DataSources : <<"periodic", d>> \in Jobs /\ <<"onDemand", d>> \in Jobs
  /\ \A j \in Jobs : /\ j[1] \in {"periodic", "onDemand"} /\ j[2] \in DataSources
                     /\ j = <<j[1], j[2]>>
  BY DEF Jobs

LEMMA NoWorkTyped ==
  NoWork \in Work /\ NoWork.pc = "idle" /\ NoWork.pending = {}
  BY DEF NoWork, Work, Steps, NoStatus, ImportStatus, OptTime

(***************************************************************************)
(* A step of one job, to w: what must be shown of w, and of the importers  *)
(* the step leaves.                                                        *)
(***************************************************************************)
WorkSound(j, w) ==
  /\ w \in Work
  /\ \A x \in w.pending : x.at <= now
  /\ w.pc \in Importing => w.ranges # << >> /\ w.table \in DataSources
  /\ w.pc = "store" => w.pending # {}
  /\ w.pc \in {"endImport", "putStatus"} => w.done # Null
  /\ j[1] = "periodic" /\ w.pc \notin {"idle", "createTable"} =>
       importers'[NameOf[j[2]]].cfg # Null

LEMMA NoWorkSound == \A j \in Jobs : WorkSound(j, NoWork)
  BY NoWorkTyped DEF WorkSound, Importing

(* Configured importers stay configured.                                   *)
StayConfigured == \A n \in Names : importers[n].cfg # Null => importers'[n].cfg # Null

LEMMA JobGoesOn ==
  ASSUME JobsInv, NEW j \in Jobs, NEW w, Goto(j, w), WorkSound(j, w), StayConfigured,
         UNCHANGED now
  PROVE  /\ work' \in [Jobs -> Work]
         /\ \A k \in Jobs : \A x \in work'[k].pending : x.at <= now'
         /\ \A k \in Jobs : JobSound(k)'
  <1>1. work \in [Jobs -> Work]
    BY DEF JobsInv, TypeOK
  <1>2. work' = [work EXCEPT ![j] = w] /\ w \in Work
    BY DEF Goto, WorkSound
  <1>3. work' \in [Jobs -> Work]
    BY <1>1, <1>2
  <1>4. work'[j] = w /\ \A k \in Jobs : k # j => work'[k] = work[k]
    BY <1>1, <1>2
  <1>5. ASSUME NEW k \in Jobs
        PROVE  (\A x \in work'[k].pending : x.at <= now') /\ JobSound(k)'
    <2>1. CASE k = j
      BY <1>4, <2>1 DEF WorkSound, JobSound
    <2>2. CASE k # j
      <3>1. work'[k] = work[k] /\ JobSound(k) /\ \A x \in work[k].pending : x.at <= now
        BY <1>4, <2>2 DEF JobsInv, PastSamples
      <3>2. NameOf[k[2]] \in Names
        BY NamesAre, JobsAre
      <3> QED BY <3>1, <3>2 DEF JobSound, StayConfigured
    <2> QED BY <2>1, <2>2
  <1> QED BY <1>3, <1>5

LEMMA SourcesAre ==
  ASSUME TypeOK
  PROVE  setup \in Setup /\ setup.sources \subseteq DataSources
  BY ImporterAssumption DEF TypeOK, Setup

LEMMA WorkTyped ==
  ASSUME JobsInv, NEW j \in Jobs
  PROVE  /\ work[j] \in Work /\ work[j].pc \in Steps /\ work[j].status \in ImportStatus
         /\ work[j].table \in DataSources \cup {Null} /\ work[j].ranges \in Seq(Window)
         /\ work[j].pending \subseteq Present
         /\ work[j].done \in Window \cup {Null} /\ work[j].metrics \in Window \cup {Null}
  <1>1. work[j] \in Work
    BY DEF JobsInv, TypeOK
  <1> QED BY <1>1 DEF Work

LEMMA ClockAdvances ==
  ASSUME JobsInv, UNCHANGED <<rows, work>>, now' = now \/ now' = now + 1
  PROVE  PastSamples'
  <1>1. TypeOK /\ PastSamples
    BY DEF JobsInv
  <1>2. now \in Nat /\ now <= now' /\ now' \in Nat
    BY <1>1 DEF TypeOK
  <1>3. ASSUME NEW S, S \subseteq Present, \A x \in S : x.at <= now
        PROVE  \A x \in S : x.at <= now'
    BY <1>2, <1>3, PresentTimes
  <1>4. \A e \in DataSources : rows[e] \subseteq Present
    BY <1>1 DEF TypeOK
  <1>5. \A j \in Jobs : work[j].pending \subseteq Present
    BY WorkTyped
  <1>6. \A e \in DataSources : \A x \in rows[e] : x.at <= now'
    BY <1>1, <1>3, <1>4 DEF PastSamples
  <1>7. \A j \in Jobs : \A x \in work[j].pending : x.at <= now'
    BY <1>1, <1>3, <1>5 DEF PastSamples
  <1> QED BY <1>6, <1>7 DEF PastSamples

(* The watch and the queue touch no job.                                   *)
LEMMA QuietJobs ==
  ASSUME JobsInv, NEW d \in setup.sources, UNCHANGED setup,
         deliver(d) \/ resync(d) \/ fireDelayed(d)
  PROVE  JobsInv'
  <1> USE DEF queueVars, memVars, tableVars, boundVars
  <1>1. TypeOK /\ PastSamples /\ \A j \in Jobs : JobSound(j)
    BY DEF JobsInv
  <1>2. d \in DataSources
    BY <1>1, SourcesAre
  <1>3. UNCHANGED <<work, importers, rows, now>>
    BY DEF deliver, resync, fireDelayed
  <1>4. TypeOK'
    <2>1. CASE deliver(d)
      BY <1>1, <1>2, <2>1 DEF TypeOK, deliver
    <2>2. CASE resync(d)
      BY <1>1, <1>2, <2>2 DEF TypeOK, resync
    <2>3. CASE fireDelayed(d)
      BY <1>1, <1>2, <2>3 DEF TypeOK, fireDelayed
    <2> QED BY <2>1, <2>2, <2>3
  <1>5. PastSamples'
    BY <1>3, ClockAdvances
  <1>6. \A j \in Jobs : JobSound(j)'
    BY <1>1, <1>3 DEF JobSound
  <1> QED BY <1>4, <1>5, <1>6 DEF JobsInv

(* After a job's step, everything else being typed.                        *)
LEMMA JobsInvAfter ==
  ASSUME JobsInv, NEW j \in Jobs, NEW w, Goto(j, w), WorkSound(j, w), StayConfigured,
         UNCHANGED now,
         work' \in [Jobs -> Work] => TypeOK',
         \A d \in DataSources : \A x \in rows'[d] : x.at <= now
  PROVE  JobsInv'
  <1>1. /\ work' \in [Jobs -> Work]
        /\ \A k \in Jobs : \A x \in work'[k].pending : x.at <= now'
        /\ \A k \in Jobs : JobSound(k)'
    BY JobGoesOn
  <1> QED BY <1>1 DEF JobsInv, PastSamples

LEMMA syncJobs ==
  ASSUME JobsInv, NEW d \in setup.sources, UNCHANGED setup, syncReportDataSource(d)
  PROVE  JobsInv'
  <1> USE DEF queueVars, memVars, tableVars, boundVars
  <1> DEFINE j == <<"periodic", d>>
             n == NameOf[d]
  <1>1. TypeOK /\ PastSamples
    BY DEF JobsInv
  <1>2. d \in DataSources /\ j \in Jobs /\ n \in Names
    BY <1>1, SourcesAre, NamesAre, JobsAre
  <1>3. UNCHANGED <<now, api, cache, delayed, requeues, rows, twice, recreated, faults>>
        /\ queue' = queue \ {d}
    BY DEF syncReportDataSource
  <1>4. /\ cache[d] \in DataSourceObject
        /\ importers \in [Names -> [cfg : DataSources \cup {Null}, last : OptTime]]
    BY <1>1, <1>2 DEF TypeOK
  <1>5. cache[d].status \in ImportStatus
    BY <1>4 DEF DataSourceObject
  <1>6. \A e \in DataSources : \A x \in rows'[e] : x.at <= now
    BY <1>1, <1>3 DEF PastSamples
  <1>7. CASE ~cache[d].table /\ Goto(j, [NoWork EXCEPT !.pc = "createTable"]) /\ UNCHANGED memVars
    <2> DEFINE w == [NoWork EXCEPT !.pc = "createTable"]
    <2>1. w \in Work /\ w.pc = "createTable" /\ w.pending = {}
      <3>1. "createTable" \in Steps
        BY DEF Steps
      <3> QED BY <3>1, NoWorkTyped DEF Work
    <2> HIDE DEF w
    <2>2. WorkSound(j, w)
      BY <2>1 DEF WorkSound, Importing
    <2>3. StayConfigured
      BY <1>7 DEF StayConfigured
    <2>4. work' \in [Jobs -> Work] => TypeOK'
      BY <1>1, <1>3, <1>7 DEF TypeOK
    <2> QED BY <1>2, <1>3, <1>6, <1>7, <2>2, <2>3, <2>4, JobsInvAfter DEF w
  <1>8. CASE /\ cache[d].table /\ configureImporter(d)
             /\ Goto(j, [NoWork EXCEPT !.pc = "import", !.status = cache[d].status])
    <2> DEFINE w == [NoWork EXCEPT !.pc = "import", !.status = cache[d].status]
    <2>1. w \in Work /\ w.pc = "import" /\ w.pending = {}
      <3>1. "import" \in Steps
        BY DEF Steps
      <3> QED BY <1>5, <3>1, NoWorkTyped DEF Work
    <2> HIDE DEF w
    <2>2. UNCHANGED importLock
          /\ \/ importers' = [importers EXCEPT ![n] = [cfg |-> d, last |-> Null]]
             \/ importers' = [importers EXCEPT ![n].cfg = d]
      BY <1>8 DEF configureImporter, newPromImporter, UpdateConfig
    <2>3. /\ importers' \in [Names -> [cfg : DataSources \cup {Null}, last : OptTime]]
          /\ importers'[n].cfg = d
          /\ \A m \in Names : m # n => importers'[m] = importers[m]
      BY <1>2, <1>4, <2>2 DEF OptTime
    <2>4. d # Null
      BY <1>2, ImporterAssumption
    <2>5. WorkSound(j, w)
      BY <2>1, <2>3, <2>4 DEF WorkSound, Importing
    <2>6. StayConfigured
      BY <2>3, <2>4 DEF StayConfigured
    <2>7. work' \in [Jobs -> Work] => TypeOK'
      BY <1>1, <1>3, <2>2, <2>3 DEF TypeOK
    <2> QED BY <1>2, <1>3, <1>6, <1>8, <2>5, <2>6, <2>7, JobsInvAfter DEF w
  <1> QED BY <1>7, <1>8 DEF syncReportDataSource

LEMMA createTableJobs ==
  ASSUME JobsInv, NEW d \in setup.sources, UNCHANGED setup, createTable(d)
  PROVE  JobsInv'
  <1> USE DEF queueVars, memVars, tableVars, boundVars
  <1> DEFINE j == <<"periodic", d>>
  <1>1. TypeOK /\ PastSamples
    BY DEF JobsInv
  <1>2. d \in DataSources /\ j \in Jobs
    BY <1>1, SourcesAre, JobsAre
  <1>3. /\ UNCHANGED <<now, cache, queue, importers, importLock, rows, twice, recreated, faults>>
        /\ api' = [api EXCEPT ![d] = [api[d] EXCEPT !.table = TRUE]]
        /\ delayed' = delayed \cup {d} /\ requeues' = [requeues EXCEPT ![d] = 0]
        /\ Goto(j, NoWork)
    BY DEF createTable, updateReportDataSource, forgetKey
  <1>4. api' \in [DataSources -> DataSourceObject]
    <2>1. api \in [DataSources -> DataSourceObject]
      BY <1>1 DEF TypeOK
    <2>2. [api[d] EXCEPT !.table = TRUE] \in DataSourceObject
      BY <1>2, <2>1 DEF DataSourceObject
    <2> QED BY <1>2, <1>3, <2>1, <2>2
  <1>5. work' \in [Jobs -> Work] => TypeOK'
    BY <1>1, <1>2, <1>3, <1>4, ImporterAssumption DEF TypeOK
  <1>6. \A e \in DataSources : \A x \in rows'[e] : x.at <= now
    BY <1>1, <1>3 DEF PastSamples
  <1>7. StayConfigured
    BY <1>3 DEF StayConfigured
  <1> QED BY <1>2, <1>3, <1>5, <1>6, <1>7, NoWorkSound, JobsInvAfter

(* How far the table of d has come, as far as its importer knows.          *)
LastOf(d) ==
  LET im == importers[NameOf[d]]
  IN  IF im.last # Null THEN im.last ELSE GetLastTimestampForTable(im.cfg)

LEMMA LastTyped ==
  ASSUME JobsInv, NEW d \in DataSources, importers[NameOf[d]].cfg # Null
  PROVE  /\ importers[NameOf[d]].cfg \in DataSources
         /\ LastOf(d) \in OptTime /\ importStartTime(LastOf(d)) \in Int
  <1> DEFINE im == importers[NameOf[d]]
  <1>1. TypeOK /\ PastSamples
    BY DEF JobsInv
  <1>2. im \in [cfg : DataSources \cup {Null}, last : OptTime]
    BY <1>1, NamesAre DEF TypeOK
  <1>3. im.cfg \in DataSources /\ im.last \in OptTime
    BY <1>2
  <1>4. GetLastTimestampForTable(im.cfg) \in OptTime
    <2>1. CASE rows[im.cfg] = {}
      BY <2>1 DEF GetLastTimestampForTable, OptTime
    <2>2. CASE rows[im.cfg] # {}
      <3>1. rows[im.cfg] \subseteq Present /\ now \in Int /\ \A x \in rows[im.cfg] : x.at <= now
        BY <1>1, <1>3 DEF TypeOK, PastSamples
      <3>2. LatestTime(rows[im.cfg]) \in Nat
        BY <2>2, <3>1, LatestTimeIs
      <3> QED BY <2>2, <3>2 DEF GetLastTimestampForTable, OptTime
    <2> QED BY <2>1, <2>2
  <1>5. LastOf(d) \in OptTime
    BY <1>3, <1>4 DEF LastOf
  <1>6. now \in Nat
    BY <1>1 DEF TypeOK
  <1>7. importStartTime(LastOf(d)) \in Int
    BY <1>5, <1>6, ImporterAssumption DEF importStartTime, firstStartTime, OptTime
  <1> QED BY <1>3, <1>5, <1>7

LEMMA ImportJobs ==
  ASSUME MinuteSteps, JobsInv, NEW d \in setup.sources, UNCHANGED setup,
         ImportFromLastTimestamp(d)
  PROVE  JobsInv'
  <1> USE DEF queueVars, memVars, tableVars, boundVars
  <1> DEFINE j == <<"periodic", d>>
             n == NameOf[d]
             last == LastOf(d)
             start == importStartTime(last)
             todo == IF start > now THEN << >> ELSE timeRangesBetween(start, now)
             w == [work[j] EXCEPT !.pc = "query", !.table = importers[n].cfg, !.ranges = todo]
  <1>1. TypeOK /\ PastSamples /\ JobSound(j)
    BY SourcesAre, JobsAre DEF JobsInv
  <1>2. d \in DataSources /\ j \in Jobs /\ n \in Names /\ j[1] = "periodic" /\ j[2] = d
    BY <1>1, SourcesAre, JobsAre, NamesAre
  <1>3. /\ UNCHANGED <<now, api, cache, queue, rows, twice, recreated, faults>>
        /\ work[j].pc = "import"
        /\ importers' = [importers EXCEPT ![n].last = last]
        /\ \/ /\ todo = << >>
              /\ delayed' = delayed \cup {d} /\ forgetKey(d)
              /\ Goto(j, NoWork)
              /\ UNCHANGED importLock
           \/ /\ todo # << >>
              /\ importLock' = [importLock EXCEPT ![n] = d]
              /\ Goto(j, w)
              /\ UNCHANGED <<delayed, requeues>>
    BY DEF ImportFromLastTimestamp, LastOf
  <1>4. importers[n].cfg # Null
    BY <1>1, <1>2, <1>3 DEF JobSound
  <1>5. importers[n].cfg \in DataSources /\ last \in OptTime /\ start \in Int
    BY <1>2, <1>4, LastTyped
  <1>6. now \in Int /\ importers \in [Names -> [cfg : DataSources \cup {Null}, last : OptTime]]
    BY <1>1 DEF TypeOK
  <1> HIDE DEF last, start
  <1>7. todo \in Seq(Window)
    <2>1. timeRangesBetween(start, now) \in Seq(Window)
      BY <1>5, <1>6, RangesBetween
    <2> QED BY <2>1
  <1> HIDE DEF todo
  <1>8. /\ importers' \in [Names -> [cfg : DataSources \cup {Null}, last : OptTime]]
        /\ \A m \in Names : importers'[m].cfg = importers[m].cfg
    BY <1>2, <1>3, <1>5, <1>6
  <1>9. StayConfigured
    BY <1>8 DEF StayConfigured
  <1>10. \A e \in DataSources : \A x \in rows'[e] : x.at <= now
    BY <1>1, <1>3 DEF PastSamples
  <1>11. CASE todo = << >>
    <2>1. delayed' = delayed \cup {d} /\ forgetKey(d) /\ Goto(j, NoWork) /\ UNCHANGED importLock
      BY <1>3, <1>11
    <2>2. work' \in [Jobs -> Work] => TypeOK'
      BY <1>1, <1>2, <1>3, <1>8, <2>1, ImporterAssumption DEF TypeOK, forgetKey
    <2> QED BY <1>2, <1>3, <1>9, <1>10, <2>1, <2>2, NoWorkSound, JobsInvAfter
  <1>12. CASE todo # << >>
    <2>1. importLock' = [importLock EXCEPT ![n] = d] /\ Goto(j, w) /\ UNCHANGED <<delayed, requeues>>
      BY <1>3, <1>12
    <2>2. work' \in [Jobs -> Work] => TypeOK'
      <3>1. importLock' \in [Names -> DataSources \cup {Null}]
        BY <1>1, <1>2, <2>1 DEF TypeOK
      <3> QED BY <1>1, <1>2, <1>3, <1>8, <2>1, <3>1 DEF TypeOK
    <2>3. work[j] \in Work /\ \A x \in work[j].pending : x.at <= now
      BY <1>1, <1>2 DEF TypeOK, PastSamples
    <2>4. "query" \in Steps
      BY DEF Steps
    <2>5. /\ w \in Work /\ w.pc = "query" /\ w.ranges = todo /\ w.table = importers[n].cfg
          /\ w.pending = work[j].pending
      BY <1>5, <1>7, <2>3, <2>4 DEF Work
    <2> HIDE DEF w
    <2>6. WorkSound(j, w)
      BY <1>2, <1>4, <1>5, <1>8, <1>12, <2>3, <2>5 DEF WorkSound, Importing
    <2> QED BY <1>2, <1>3, <1>9, <1>10, <2>1, <2>2, <2>6, JobsInvAfter
  <1> QED BY <1>11, <1>12

LEMMA RangeProcessed ==
  ASSUME NEW w \in Work, w.ranges # << >>
  PROVE  LET v == rangeProcessed(w)
         IN  /\ v \in Work
             /\ v.status = w.status /\ v.table = w.table /\ v.metrics = w.metrics
             /\ v.pending = {} /\ v.ranges = Tail(w.ranges)
             /\ v.done \in Window /\ v.done.end = w.ranges[1].end
             /\ v.done.start = IF w.done = Null THEN w.ranges[1].start ELSE w.done.start
             /\ v.pc = IF Len(w.ranges) = 1 THEN "endImport" ELSE "query"
             /\ v.pc = "query" => v.ranges # << >>
  <1> DEFINE r == w.ranges[1]
             done == [start |-> IF w.done = Null THEN r.start ELSE w.done.start, end |-> r.end]
             pc == IF Len(w.ranges) = 1 THEN "endImport" ELSE "query"
             v == [w EXCEPT !.done = done, !.ranges = Tail(w.ranges), !.pending = {}, !.pc = pc]
  <1>1. w.ranges \in Seq(Window) /\ w.done \in Window \cup {Null}
    BY DEF Work
  <1>2. /\ Len(w.ranges) \in Nat \ {0} /\ Head(w.ranges) = r
        /\ Tail(w.ranges) \in Seq(Window) /\ Len(Tail(w.ranges)) = Len(w.ranges) - 1
    BY <1>1
  <1>3. r.start \in Int /\ r.end \in Int
    BY <1>1, <1>2, RangeTyped
  <1>4. w.done # Null => w.done.start \in Int
    BY <1>1 DEF Window
  <1>5. done \in Window
    BY <1>3, <1>4 DEF Window
  <1>6. rangeProcessed(w) = v
    BY <1>2 DEF rangeProcessed
  <1>7. pc \in Steps
    BY DEF Steps
  <1>8. done.end = r.end /\ done.start = IF w.done = Null THEN r.start ELSE w.done.start
    OBVIOUS
  <1> HIDE DEF done, pc
  <1>9. /\ v \in Work /\ v.status = w.status /\ v.table = w.table /\ v.metrics = w.metrics
        /\ v.pending = {} /\ v.ranges = Tail(w.ranges) /\ v.done = done /\ v.pc = pc
    BY <1>2, <1>5, <1>7 DEF Work
  <1> HIDE DEF v
  <1>10. pc = "query" => Tail(w.ranges) # << >>
    <2>1. pc = "query" => Len(w.ranges) # 1
      BY DEF pc
    <2>2. Len(w.ranges) # 1 => Len(Tail(w.ranges)) # 0
      BY <1>2
    <2>3. Len(<< >>) = 0
      OBVIOUS
    <2> QED BY <2>1, <2>2, <2>3
  <1> QED BY <1>5, <1>6, <1>8, <1>9, <1>10 DEF pc

(* A step of an import leaves everything but its table.                    *)
LEMMA ImportGoesOn ==
  ASSUME JobsInv, NEW j \in Jobs, NEW w, Goto(j, w), WorkSound(j, w),
         UNCHANGED <<setup, now, api, cache, queueVars, memVars, boundVars>>,
         rows' \in [DataSources -> SUBSET Present], twice' \in [DataSources -> SUBSET Present],
         \A d \in DataSources : \A x \in rows'[d] : x.at <= now
  PROVE  JobsInv'
  <1> USE DEF queueVars, memVars, boundVars
  <1>1. TypeOK
    BY DEF JobsInv
  <1>2. StayConfigured
    BY DEF StayConfigured
  <1>3. work' \in [Jobs -> Work] => TypeOK'
    BY <1>1 DEF TypeOK
  <1> QED BY <1>2, <1>3, JobsInvAfter

LEMMA queryJobs ==
  ASSUME JobsInv, NEW j \in Jobs, UNCHANGED setup, queryPrometheus(j)
  PROVE  JobsInv'
  <1> DEFINE w == work[j]
             got == QueryRange(Head(w.ranges))
             v == IF got = {} THEN rangeProcessed(w) ELSE [w EXCEPT !.pc = "store", !.pending = got]
  <1>1. TypeOK /\ PastSamples /\ JobSound(j)
    BY DEF JobsInv
  <1>2. /\ UNCHANGED <<now, api, cache, queueVars, memVars, tableVars, boundVars>>
        /\ w.pc = "query" /\ Goto(j, v)
    BY DEF queryPrometheus
  <1>3. /\ w \in Work /\ w.ranges # << >> /\ w.table \in DataSources
        /\ j[1] = "periodic" => importers[NameOf[j[2]]].cfg # Null
    BY <1>1, <1>2 DEF JobSound, Importing, TypeOK
  <1>4. got \subseteq Present /\ \A x \in got : x.at <= now
    BY DEF QueryRange
  <1>5. UNCHANGED importers
    BY <1>2 DEF memVars
  <1>6. WorkSound(j, v)
    <2>1. CASE got = {}
      <3>1. v = rangeProcessed(w)
        BY <2>1
      <3> HIDE DEF v
      <3> QED BY <1>3, <1>5, <3>1, RangeProcessed, ImporterAssumption DEF WorkSound, Importing
    <2>2. CASE got # {}
      <3>1. "store" \in Steps
        BY DEF Steps
      <3>2. v = [w EXCEPT !.pc = "store", !.pending = got]
        BY <2>2
      <3> HIDE DEF v, got, w
      <3>3. v \in Work /\ v.pc = "store" /\ v.pending = got /\ v.ranges = w.ranges /\ v.table = w.table
        BY <1>3, <1>4, <3>1, <3>2 DEF Work
      <3> QED BY <1>3, <1>4, <1>5, <2>2, <3>3 DEF WorkSound, Importing
    <2> QED BY <2>1, <2>2
  <1> HIDE DEF v
  <1>7. /\ rows' \in [DataSources -> SUBSET Present] /\ twice' \in [DataSources -> SUBSET Present]
        /\ \A d \in DataSources : \A x \in rows'[d] : x.at <= now
    BY <1>1, <1>2 DEF tableVars, TypeOK, PastSamples
  <1> QED BY <1>2, <1>6, <1>7, ImportGoesOn

LEMMA Inserted ==
  ASSUME JobsInv, NEW t \in DataSources, NEW B, B \subseteq Present, \A x \in B : x.at <= now,
         Insert(t, B)
  PROVE  /\ rows' \in [DataSources -> SUBSET Present] /\ twice' \in [DataSources -> SUBSET Present]
         /\ \A d \in DataSources : \A x \in rows'[d] : x.at <= now
         /\ rows'[t] = rows[t] \cup B /\ twice'[t] = twice[t] \cup (B \cap rows[t])
         /\ \A d \in DataSources : d # t => rows'[d] = rows[d] /\ twice'[d] = twice[d]
  <1>1. rows \in [DataSources -> SUBSET Present] /\ twice \in [DataSources -> SUBSET Present]
    BY DEF JobsInv, TypeOK
  <1>2. /\ rows' = [rows EXCEPT ![t] = rows[t] \cup B]
        /\ twice' = [twice EXCEPT ![t] = twice[t] \cup (B \cap rows[t])]
    BY DEF Insert
  <1>3. /\ rows'[t] = rows[t] \cup B /\ twice'[t] = twice[t] \cup (B \cap rows[t])
        /\ \A d \in DataSources : d # t => rows'[d] = rows[d] /\ twice'[d] = twice[d]
        /\ rows' \in [DataSources -> SUBSET Present] /\ twice' \in [DataSources -> SUBSET Present]
    BY <1>1, <1>2
  <1>4. \A d \in DataSources : \A x \in rows'[d] : x.at <= now
    BY <1>3 DEF JobsInv, PastSamples
  <1> QED BY <1>3, <1>4

(* The state of a job after the INSERT of B.                               *)
Stored(w, B) ==
  LET new == [w EXCEPT !.metrics = MetricsWith(@, B), !.pending = @ \ B]
  IN  IF new.pending = {} THEN rangeProcessed(new) ELSE new

LEMMA StoredIs ==
  ASSUME JobsInv, NEW j \in Jobs, work[j].pc = "store", NEW B \in Batches(work[j].pending)
  PROVE  LET w == work[j]
             new == [w EXCEPT !.metrics = MetricsWith(@, B), !.pending = @ \ B]
         IN  /\ B \subseteq w.pending /\ B # {} /\ B \subseteq Present /\ \A x \in B : x.at <= now
             /\ setup.batchSize >= Cardinality(Present) => B = w.pending
             /\ w.ranges # << >> /\ w.table \in DataSources
             /\ new \in Work /\ new.pending = w.pending \ B /\ new.ranges = w.ranges
             /\ new.table = w.table /\ new.done = w.done /\ new.status = w.status
             /\ new.pc = "store"
  <1> DEFINE w == work[j]
             m == MetricsWith(w.metrics, B)
             new == [w EXCEPT !.metrics = m, !.pending = w.pending \ B]
  <1>1. /\ w \in Work /\ w.pending \subseteq Present /\ w.metrics \in Window \cup {Null}
        /\ w.pending # {} /\ w.ranges # << >> /\ w.table \in DataSources
        /\ \A x \in w.pending : x.at <= now
        /\ setup \in Setups /\ now \in Int
    BY WorkTyped DEF JobsInv, JobSound, PastSamples, TypeOK, Importing
  <1>2. B \subseteq w.pending /\ B # {} /\ (setup.batchSize >= Cardinality(Present) => B = w.pending)
    BY <1>1, BatchesAre
  <1>3. m \in Window
    BY <1>1, <1>2, MetricsTyped
  <1>4. w.pending \ B \subseteq Present
    BY <1>1
  <1> HIDE DEF w, m
  <1>5. /\ new \in Work /\ new.pending = w.pending \ B /\ new.ranges = w.ranges
        /\ new.table = w.table /\ new.done = w.done /\ new.status = w.status /\ new.pc = w.pc
    BY <1>1, <1>3, <1>4 DEF Work
  <1> QED BY <1>1, <1>2, <1>5 DEF w, m

LEMMA storeJobs ==
  ASSUME JobsInv, NEW j \in Jobs, UNCHANGED setup, StorePrometheusMetrics(j)
  PROVE  JobsInv'
  <1> DEFINE w == work[j]
  <1>1. TypeOK /\ PastSamples /\ JobSound(j) /\ w.pc = "store"
    BY DEF JobsInv, StorePrometheusMetrics
  <1>2. PICK B \in Batches(w.pending) : Insert(w.table, B) /\ Goto(j, Stored(w, B))
    BY DEF StorePrometheusMetrics, Stored
  <1>3. UNCHANGED <<now, api, cache, queueVars, memVars, boundVars>>
    BY DEF StorePrometheusMetrics
  <1> DEFINE new == [w EXCEPT !.metrics = MetricsWith(@, B), !.pending = @ \ B]
             v == Stored(w, B)
  <1>4. /\ B \subseteq w.pending /\ B \subseteq Present /\ \A x \in B : x.at <= now
        /\ w.ranges # << >> /\ w.table \in DataSources
        /\ new \in Work /\ new.pending = w.pending \ B /\ new.ranges = w.ranges
        /\ new.table = w.table /\ new.pc = "store"
    BY <1>1, <1>2, StoredIs
  <1>5. v = IF new.pending = {} THEN rangeProcessed(new) ELSE new
    BY DEF Stored
  <1>6. /\ j[1] = "periodic" => importers[NameOf[j[2]]].cfg # Null
        /\ UNCHANGED importers /\ \A x \in w.pending : x.at <= now
    BY <1>1, <1>3 DEF JobSound, memVars, PastSamples
  <1> HIDE DEF new, v, w
  <1>7. WorkSound(j, v)
    <2>1. CASE new.pending = {}
      BY <1>4, <1>5, <1>6, <2>1, RangeProcessed, ImporterAssumption DEF WorkSound, Importing
    <2>2. CASE new.pending # {}
      BY <1>4, <1>5, <1>6, <2>2 DEF WorkSound, Importing
    <2> QED BY <2>1, <2>2
  <1>8. /\ rows' \in [DataSources -> SUBSET Present] /\ twice' \in [DataSources -> SUBSET Present]
        /\ \A d \in DataSources : \A x \in rows'[d] : x.at <= now
    BY <1>2, <1>4, Inserted
  <1> QED BY <1>2, <1>3, <1>7, <1>8, ImportGoesOn DEF v

LEMMA endImportJobs ==
  ASSUME JobsInv, NEW j \in Jobs, UNCHANGED setup, endImport(j)
  PROVE  JobsInv'
  <1> USE DEF queueVars, tableVars, boundVars
  <1>1. TypeOK /\ PastSamples /\ JobSound(j) /\ work[j].pc = "endImport"
    BY DEF JobsInv, endImport
  <1>2. UNCHANGED <<now, api, cache, queue, delayed, requeues, rows, twice, recreated, faults>>
    BY DEF endImport
  <1>3. \A e \in DataSources : \A x \in rows'[e] : x.at <= now
    BY <1>1, <1>2 DEF PastSamples
  <1>4. CASE j[1] = "periodic"
    <2> DEFINE w == work[j]
               d == j[2]
               n == NameOf[d]
               v == [w EXCEPT !.pc = "putStatus"]
    <2>1. j = <<"periodic", d>> /\ d \in DataSources /\ n \in Names
      BY <1>4, JobsAre, NamesAre
    <2>2. /\ importers' = [importers EXCEPT ![n].last = w.done.end]
          /\ importLock' = [importLock EXCEPT ![n] = Null]
          /\ Goto(j, v)
      <3>1. finishImport(d) /\ Goto(j, v)
        BY <1>4 DEF endImport
      <3> QED BY <2>1, <3>1 DEF finishImport
    <2>3. w \in Work /\ w.done \in Window /\ importers[n].cfg # Null
          /\ \A x \in w.pending : x.at <= now
      BY <1>1, <1>4, WorkTyped DEF JobSound, PastSamples
    <2>4. w.done.end \in Int
      BY <2>3 DEF Window
    <2>5. importers \in [Names -> [cfg : DataSources \cup {Null}, last : OptTime]]
      BY <1>1 DEF TypeOK
    <2>6. /\ importers' \in [Names -> [cfg : DataSources \cup {Null}, last : OptTime]]
          /\ \A m \in Names : importers'[m].cfg = importers[m].cfg
      <3>1. w.done.end \in OptTime
        BY <2>4 DEF OptTime
      <3> QED BY <2>1, <2>2, <2>5, <3>1
    <2>7. StayConfigured
      BY <2>6 DEF StayConfigured
    <2>8. "putStatus" \in Steps
      BY DEF Steps
    <2>9. v \in Work /\ v.pc = "putStatus" /\ v.done = w.done /\ v.pending = w.pending
      BY <2>3, <2>8 DEF Work
    <2> HIDE DEF v, w
    <2>10. v.done # Null
      BY <2>3, <2>9, ImporterAssumption
    <2>11. WorkSound(j, v)
      BY <2>1, <2>3, <2>6, <2>9, <2>10 DEF WorkSound, Importing
    <2>12. work' \in [Jobs -> Work] => TypeOK'
      <3>1. importLock' \in [Names -> DataSources \cup {Null}]
        BY <1>1, <2>1, <2>2 DEF TypeOK
      <3> QED BY <1>1, <1>2, <2>6, <3>1 DEF TypeOK
    <2> QED BY <1>2, <1>3, <2>2, <2>7, <2>11, <2>12, JobsInvAfter
  <1>5. CASE j[1] # "periodic"
    <2>1. Goto(j, NoWork) /\ UNCHANGED memVars
      BY <1>5 DEF endImport
    <2>2. /\ rows' \in [DataSources -> SUBSET Present]
          /\ twice' \in [DataSources -> SUBSET Present]
      BY <1>1, <1>2 DEF TypeOK
    <2> QED BY <1>2, <1>3, <2>1, <2>2, NoWorkSound, ImportGoesOn
  <1> QED BY <1>4, <1>5

LEMMA StatusTyped ==
  ASSUME NEW w \in Work, w.done # Null
  PROVE  newImportStatus(w) \in ImportStatus
  <1> DEFINE s == w.status
             m == w.metrics
  <1>1. s \in ImportStatus /\ w.done \in Window /\ m \in Window \cup {Null}
    BY DEF Work
  <1>2. /\ s.start \in OptTime /\ s.end \in OptTime
        /\ s.earliest \in OptTime /\ s.newest \in OptTime
    BY <1>1 DEF ImportStatus
  <1>3. /\ w.done.start \in OptTime /\ w.done.end \in OptTime
        /\ m # Null => m.start \in OptTime /\ m.end \in OptTime
    BY <1>1 DEF Window, OptTime
  <1> HIDE DEF s, m
  <1>4. newImportStatus(w) =
          [ start    |-> IF Earlier(w.done.start, s.start) THEN w.done.start ELSE s.start,
            end      |-> IF Later(w.done.end, s.end) THEN w.done.end ELSE s.end,
            earliest |-> IF m # Null /\ s.earliest = Null THEN m.start ELSE s.earliest,
            newest   |-> IF m # Null /\ Later(m.end, s.newest) THEN m.end ELSE s.newest ]
    BY DEF newImportStatus, s, m
  <1> QED BY <1>2, <1>3, <1>4 DEF ImportStatus

LEMMA putImportStatusJobs ==
  ASSUME JobsInv, NEW d \in setup.sources, UNCHANGED setup, putImportStatus(d)
  PROVE  JobsInv'
  <1> USE DEF queueVars, memVars, tableVars, boundVars
  <1> DEFINE j == <<"periodic", d>>
             w == work[j]
  <1>1. TypeOK /\ PastSamples
    BY DEF JobsInv
  <1>2. d \in DataSources /\ j \in Jobs
    BY <1>1, SourcesAre, JobsAre
  <1>3. /\ UNCHANGED <<now, cache, queue, importers, importLock, rows, twice, recreated, faults>>
        /\ w.pc = "putStatus" /\ Goto(j, NoWork)
    BY DEF putImportStatus
  <1>4. w \in Work /\ w.done # Null
    BY <1>2, <1>3, WorkTyped DEF JobsInv, JobSound
  <1>5. newImportStatus(w) \in ImportStatus
    BY <1>4, StatusTyped
  <1>6. api \in [DataSources -> DataSourceObject]
    BY <1>1 DEF TypeOK
  <1>7. [api[d] EXCEPT !.status = newImportStatus(w)] \in DataSourceObject
    BY <1>2, <1>5, <1>6 DEF DataSourceObject
  <1>8. /\ api' \in [DataSources -> DataSourceObject] /\ delayed' \subseteq DataSources
        /\ requeues' \in [DataSources -> 0..MaxRequeues]
    <2>1. /\ requeues' = [requeues EXCEPT ![d] = 0]
          /\ \/ UNCHANGED <<api, delayed>>
             \/ /\ api' = [api EXCEPT ![d] = [api[d] EXCEPT !.status = newImportStatus(w)]]
                /\ delayed' = delayed \cup {d}
      BY DEF putImportStatus, updateReportDataSource, forgetKey
    <2> QED BY <1>1, <1>2, <1>6, <1>7, <2>1, ImporterAssumption DEF TypeOK
  <1>9. work' \in [Jobs -> Work] => TypeOK'
    BY <1>1, <1>3, <1>8 DEF TypeOK
  <1>10. \A e \in DataSources : \A x \in rows'[e] : x.at <= now
    BY <1>1, <1>3 DEF PastSamples
  <1>11. StayConfigured
    BY <1>3 DEF StayConfigured
  <1> QED BY <1>2, <1>3, <1>9, <1>10, <1>11, NoWorkSound, JobsInvAfter

LEMMA onDemandJobs ==
  ASSUME MinuteSteps, JobsInv, NEW d \in setup.sources, NEW r \in setup.onDemand,
         UNCHANGED setup, importPrometheusForTimeRange(d, r)
  PROVE  JobsInv'
  <1> DEFINE j == <<"onDemand", d>>
             todo == timeRangesBetween(r.start, r.end)
             v == [NoWork EXCEPT !.pc = "query", !.table = d, !.ranges = todo]
  <1>1. TypeOK /\ PastSamples
    BY DEF JobsInv
  <1>2. d \in DataSources /\ j \in Jobs /\ j[1] = "onDemand"
    BY <1>1, SourcesAre, JobsAre
  <1>3. /\ UNCHANGED <<now, api, cache, queueVars, memVars, tableVars, boundVars>>
        /\ todo # << >> /\ Goto(j, v)
    BY DEF importPrometheusForTimeRange
  <1>4. r.start \in Int /\ r.end \in Int
    BY <1>1, SourcesAre DEF Setup
  <1>5. todo \in Seq(Window)
    BY <1>4, RangesBetween
  <1> HIDE DEF todo
  <1>6. "query" \in Steps
    BY DEF Steps
  <1>7. v \in Work /\ v.pc = "query" /\ v.table = d /\ v.ranges = todo /\ v.pending = {}
    BY <1>2, <1>5, <1>6, NoWorkTyped DEF Work
  <1> HIDE DEF v
  <1>8. WorkSound(j, v)
    BY <1>2, <1>3, <1>7 DEF WorkSound, Importing
  <1>9. /\ rows' \in [DataSources -> SUBSET Present] /\ twice' \in [DataSources -> SUBSET Present]
        /\ \A e \in DataSources : \A x \in rows'[e] : x.at <= now
    BY <1>1, <1>3 DEF tableVars, TypeOK, PastSamples
  <1> QED BY <1>2, <1>3, <1>8, <1>9, ImportGoesOn

LEMMA recreateJobs ==
  ASSUME JobsInv, NEW d \in setup.sources, UNCHANGED setup, recreateDataSource(d)
  PROVE  JobsInv'
  <1> USE DEF memVars
  <1>1. TypeOK /\ PastSamples /\ \A j \in Jobs : JobSound(j)
    BY DEF JobsInv
  <1>2. d \in DataSources /\ setup \in Setup
    BY <1>1, SourcesAre
  <1>3. /\ UNCHANGED <<now, delayed, requeues, importers, importLock, work, twice, faults>>
        /\ recreated < setup.maxRecreations /\ recreated' = recreated + 1
        /\ api' = [api EXCEPT ![d] = NewDataSource]
        /\ cache' = [cache EXCEPT ![d] = NewDataSource]
        /\ rows' = [rows EXCEPT ![d] = {}]
        /\ queue' = queue \cup {d}
    BY DEF recreateDataSource
  <1>4. NewDataSource \in DataSourceObject
    BY DEF NewDataSource, DataSourceObject, NoStatus, ImportStatus, OptTime
  <1>5. /\ api' \in [DataSources -> DataSourceObject] /\ cache' \in [DataSources -> DataSourceObject]
        /\ rows' \in [DataSources -> SUBSET Present]
        /\ \A e \in DataSources : rows'[e] \subseteq rows[e]
    BY <1>1, <1>2, <1>3, <1>4 DEF TypeOK
  <1>6. recreated' \in 0..setup.maxRecreations
    BY <1>1, <1>2, <1>3 DEF TypeOK, Setup
  <1>7. TypeOK'
    BY <1>1, <1>2, <1>3, <1>5, <1>6 DEF TypeOK
  <1>8. PastSamples'
    BY <1>1, <1>3, <1>5 DEF PastSamples
  <1>9. \A j \in Jobs : JobSound(j)'
    BY <1>1, <1>3 DEF JobSound
  <1> QED BY <1>7, <1>8, <1>9 DEF JobsInv

LEMMA Aborted ==
  ASSUME JobsInv, NEW j \in Jobs, UNCHANGED setup, Fault, abortJob(j)
  PROVE  /\ Goto(j, NoWork)
         /\ faults' \in 0..setup.maxFaults /\ UNCHANGED recreated
         /\ requeues' \in [DataSources -> 0..MaxRequeues] /\ delayed' \subseteq DataSources
         /\ importers' \in [Names -> [cfg : DataSources \cup {Null}, last : OptTime]]
         /\ importLock' \in [Names -> DataSources \cup {Null}]
         /\ \A n \in Names : importers'[n].cfg = importers[n].cfg
         /\ \A n \in Names : n # NameOf[j[2]] => importers'[n] = importers[n]
         /\ \/ importers'[NameOf[j[2]]] = importers[NameOf[j[2]]]
               /\ work[j].pc \notin {"query", "store"}
            \/ importers'[NameOf[j[2]]].last = Null
            \/ j[1] # "periodic"
  <1> DEFINE d == j[2]
             n == NameOf[d]
  <1>1. TypeOK
    BY DEF JobsInv
  <1>2. d \in DataSources /\ n \in Names /\ setup \in Setup
    BY <1>1, SourcesAre, JobsAre, NamesAre
  <1>3. faults' \in 0..setup.maxFaults /\ UNCHANGED recreated
    BY <1>1, <1>2 DEF Fault, TypeOK, Setup
  <1>4. requeues' \in [DataSources -> 0..MaxRequeues] /\ delayed' \subseteq DataSources
    <2>1. handleErr(d) \/ UNCHANGED <<requeues, delayed>>
      BY DEF abortJob
    <2>2. requeues \in [DataSources -> 0..MaxRequeues] /\ delayed \subseteq DataSources
      BY <1>1 DEF TypeOK
    <2>3. MaxRequeues \in Nat
      BY ImporterAssumption
    <2>4. CASE handleErr(d)
      BY <1>2, <2>2, <2>3, <2>4 DEF handleErr, forgetKey
    <2> QED BY <2>1, <2>2, <2>4
  <1>5. /\ importers \in [Names -> [cfg : DataSources \cup {Null}, last : OptTime]]
        /\ importLock \in [Names -> DataSources \cup {Null}] /\ Null \in OptTime
    BY <1>1 DEF TypeOK, OptTime
  <1>6. CASE j[1] = "periodic" /\ work[j].pc \in {"query", "store"}
    <2>1. /\ importLock' = [importLock EXCEPT ![n] = Null]
          /\ importers' = [importers EXCEPT ![n].last = Null]
      BY <1>6 DEF abortJob, resetImporter
    <2>2. /\ importers' \in [Names -> [cfg : DataSources \cup {Null}, last : OptTime]]
          /\ importLock' \in [Names -> DataSources \cup {Null}]
          /\ \A m \in Names : importers'[m].cfg = importers[m].cfg
          /\ \A m \in Names : m # n => importers'[m] = importers[m]
          /\ importers'[n].last = Null
      BY <1>2, <1>5, <2>1
    <2> QED BY <1>3, <1>4, <2>2 DEF abortJob
  <1>7. CASE ~(j[1] = "periodic" /\ work[j].pc \in {"query", "store"})
    <2>1. UNCHANGED <<importers, importLock>>
      BY <1>7 DEF abortJob, memVars
    <2> QED BY <1>3, <1>4, <1>5, <1>7, <2>1 DEF abortJob
  <1> QED BY <1>6, <1>7

LEMMA faultJobs ==
  ASSUME JobsInv, NEW j \in Jobs, UNCHANGED setup, callFails(j) \/ insertSeemsToFail(j)
  PROVE  JobsInv'
  <1>1. TypeOK /\ PastSamples
    BY DEF JobsInv
  <1>2. Fault /\ abortJob(j) /\ UNCHANGED <<now, api, cache, queue>>
    BY DEF callFails, insertSeemsToFail
  <1>3. /\ rows' \in [DataSources -> SUBSET Present] /\ twice' \in [DataSources -> SUBSET Present]
        /\ \A d \in DataSources : \A x \in rows'[d] : x.at <= now
    <2>1. CASE callFails(j)
      BY <1>1, <2>1 DEF callFails, tableVars, TypeOK, PastSamples
    <2>2. CASE insertSeemsToFail(j)
      <3>1. work[j].pc = "store"
        BY <2>2 DEF insertSeemsToFail
      <3>2. PICK B \in Batches(work[j].pending) : Insert(work[j].table, B)
        BY <2>2 DEF insertSeemsToFail
      <3>3. B \subseteq Present /\ (\A x \in B : x.at <= now) /\ work[j].table \in DataSources
        BY <3>1, StoredIs
      <3> QED BY <3>2, <3>3, Inserted
    <2> QED BY <2>1, <2>2
  <1>4. work' \in [Jobs -> Work] => TypeOK'
    BY <1>1, <1>2, <1>3, Aborted DEF TypeOK
  <1>5. Goto(j, NoWork) /\ StayConfigured
    BY <1>2, Aborted DEF StayConfigured
  <1> QED BY <1>2, <1>3, <1>4, <1>5, NoWorkSound, JobsInvAfter

LEMMA restartJobs ==
  ASSUME JobsInv, UNCHANGED setup, restart
  PROVE  JobsInv'
  <1>1. TypeOK /\ PastSamples /\ setup \in Setup
    BY SourcesAre DEF JobsInv
  <1>2. \A j \in Jobs : work'[j] = NoWork /\ work' \in [Jobs -> Work]
    BY NoWorkTyped DEF restart
  <1>3. importers' \in [Names -> [cfg : DataSources \cup {Null}, last : OptTime]]
    BY DEF restart, NoImporter, OptTime
  <1>4. faults' \in 0..setup.maxFaults /\ UNCHANGED recreated
    BY <1>1 DEF restart, Fault, TypeOK, Setup
  <1>5. TypeOK'
    <2>1. work' \in [Jobs -> Work]
      BY NoWorkTyped DEF restart
    <2>2. MaxRequeues \in Nat
      BY ImporterAssumption
    <2> QED BY <1>1, <1>3, <1>4, <2>1, <2>2, SourcesAre DEF TypeOK, restart, tableVars
  <1>6. PastSamples'
    BY <1>1, <1>2, NoWorkTyped DEF PastSamples, restart, tableVars
  <1>7. \A j \in Jobs : JobSound(j)'
    BY <1>2, NoWorkTyped DEF JobSound, Importing
  <1> QED BY <1>5, <1>6, <1>7 DEF JobsInv

LEMMA JobsStep ==
  ASSUME MinuteSteps, JobsInv, [Next]_<<vars, setup>>
  PROVE  JobsInv'
  <1>1. CASE UNCHANGED <<vars, setup>>
    BY <1>1 DEF JobsInv, TypeOK, PastSamples, JobSound, vars, queueVars, memVars, tableVars, boundVars
  <1>2. ASSUME UNCHANGED setup, NEW d \in setup.sources,
               \/ deliver(d) \/ resync(d) \/ fireDelayed(d) \/ syncReportDataSource(d)
               \/ createTable(d) \/ ImportFromLastTimestamp(d) \/ putImportStatus(d)
               \/ recreateDataSource(d)
               \/ \E r \in setup.onDemand : importPrometheusForTimeRange(d, r)
        PROVE  JobsInv'
    BY <1>2, QuietJobs, syncJobs, createTableJobs, ImportJobs, putImportStatusJobs, recreateJobs,
       onDemandJobs
  <1>3. ASSUME UNCHANGED setup, NEW j \in Jobs, step(j) \/ callFails(j) \/ insertSeemsToFail(j)
        PROVE  JobsInv'
    BY <1>3, queryJobs, storeJobs, endImportJobs, faultJobs DEF step
  <1>4. CASE UNCHANGED setup /\ restart
    BY <1>4, restartJobs
  <1>5. CASE UNCHANGED setup /\ tick
    <2>1. TypeOK /\ PastSamples /\ \A j \in Jobs : JobSound(j)
      BY DEF JobsInv
    <2>2. /\ UNCHANGED <<api, cache, queue, delayed, requeues, importers, importLock, work, rows,
                         twice, recreated, faults, setup>>
          /\ now' = now + 1
      BY <1>5 DEF tick, queueVars, memVars, tableVars, boundVars
    <2>3. TypeOK'
      BY <2>1, <2>2 DEF TypeOK
    <2>4. PastSamples'
      BY <2>1, <2>2, ClockAdvances
    <2>5. \A j \in Jobs : JobSound(j)'
      BY <2>1, <2>2 DEF JobSound
    <2> QED BY <2>3, <2>4, <2>5 DEF JobsInv
  <1> QED BY <1>1, <1>2, <1>3, <1>4, <1>5 DEF Next

-----------------------------------------------------------------------------
(* No sample is stored twice                                               *)

LEMMA ContiguousTail ==
  ASSUME NEW rs, NEW hi, Contiguous(rs, hi), rs # << >>
  PROVE  /\ rs[1] \in Window /\ rs[1].start \in Int /\ rs[1].end \in Int
         /\ OnMinute(rs[1].start) /\ OnMinute(rs[1].end)
         /\ rs[1].start < rs[1].end /\ rs[1].end <= hi
         /\ Contiguous(Tail(rs), hi)
         /\ Tail(rs) # << >> => Tail(rs)[1].start = rs[1].end + Minute
  <1> DEFINE t == Tail(rs)
  <1>1. rs \in Seq(Window) /\ Len(rs) \in Nat \ {0}
    BY DEF Contiguous
  <1>2. 1 \in 1..Len(rs)
    BY <1>1
  <1>3. rs[1] \in Window /\ rs[1].start \in Int /\ rs[1].end \in Int
    BY <1>1, <1>2, RangeTyped
  <1>4. /\ OnMinute(rs[1].start) /\ OnMinute(rs[1].end)
        /\ rs[1].start < rs[1].end /\ rs[1].end <= hi
    BY <1>2 DEF Contiguous
  <1>5. /\ t \in Seq(Window) /\ Len(t) = Len(rs) - 1
        /\ \A i \in 1..Len(t) : t[i] = rs[i + 1]
    BY <1>1
  <1> HIDE DEF t
  <1>6. ASSUME NEW i \in 1..Len(t)
        PROVE  /\ OnMinute(t[i].start) /\ OnMinute(t[i].end)
               /\ t[i].start < t[i].end /\ t[i].end <= hi
               /\ i > 1 => t[i].start = t[i - 1].end + Minute
               /\ i = 1 => t[i].start = rs[1].end + Minute
    <2> DEFINE k == i + 1
    <2>1. k \in 1..Len(rs) /\ k > 1 /\ t[i] = rs[k] /\ k - 1 = i
      BY <1>1, <1>5
    <2>2. i > 1 => i - 1 \in 1..Len(t) /\ t[i - 1] = rs[i]
      <3>1. i > 1 => i - 1 \in 1..Len(t) /\ (i - 1) + 1 = i
        OBVIOUS
      <3> QED BY <1>5, <3>1
    <2> HIDE DEF k
    <2>3. /\ OnMinute(rs[k].start) /\ OnMinute(rs[k].end)
          /\ rs[k].start < rs[k].end /\ rs[k].end <= hi
          /\ rs[k].start = rs[k - 1].end + Minute
      BY <2>1 DEF Contiguous
    <2> QED BY <2>1, <2>2, <2>3
  <1>7. Contiguous(t, hi)
    BY <1>5, <1>6 DEF Contiguous
  <1>8. t # << >> => t[1].start = rs[1].end + Minute
    <2>1. t # << >> => 1 \in 1..Len(t)
      BY <1>5
    <2> QED BY <1>6, <2>1
  <1> QED BY <1>3, <1>4, <1>7, <1>8 DEF t

LEMMA ContiguousLater ==
  ASSUME NEW rs, NEW hi \in Int, NEW hj \in Int, hi <= hj, Contiguous(rs, hi)
  PROVE  Contiguous(rs, hj)
  <1>1. \A i \in 1..Len(rs) : rs[i].end \in Int
    BY RangeTyped DEF Contiguous
  <1> QED BY <1>1 DEF Contiguous

(* What a query returns: all samples at the minutes of its range.          *)
LEMMA SamplesAre ==
  ASSUME MinuteSteps, NEW r \in Window, OnMinute(r.start)
  PROVE  /\ \A x \in SamplesOf(r) : OnMinute(x.at) /\ r.start <= x.at /\ x.at <= r.end
         /\ \A x \in Present :
              OnMinute(x.at) /\ r.start <= x.at /\ x.at <= r.end => x \in SamplesOf(r)
         /\ now \in Int /\ r.end <= now => QueryRange(r) = SamplesOf(r)
  <1>1. r.start \in Int /\ r.end \in Int
    BY DEF Window
  <1>2. \A x \in Present : x.at \in Int
    BY PresentTimes
  <1>3. \A x \in SamplesOf(r) : r.start <= x.at /\ x.at <= r.end /\ OnMinute(x.at - r.start)
    BY <1>1, <1>2 DEF SamplesOf, Instants, OnMinute, MinuteSteps
  <1>4. \A x \in SamplesOf(r) : OnMinute(x.at)
    BY <1>1, <1>2, <1>3, MinutesAfter DEF SamplesOf
  <1>5. ASSUME NEW x \in Present, OnMinute(x.at), r.start <= x.at, x.at <= r.end
        PROVE  x \in SamplesOf(r)
    <2>1. OnMinute(x.at - r.start)
      BY <1>1, <1>2, <1>5, MinutesBetween
    <2>2. x.at \in r.start .. r.end
      BY <1>1, <1>2, <1>5
    <2> QED BY <2>1, <2>2 DEF SamplesOf, Instants, OnMinute, MinuteSteps
  <1>6. ASSUME now \in Int, r.end <= now
        PROVE  QueryRange(r) = SamplesOf(r)
    <2>1. \A x \in SamplesOf(r) : x \in Present /\ x.at <= now
      BY <1>1, <1>2, <1>3, <1>6 DEF SamplesOf
    <2> QED BY <2>1 DEF QueryRange, SamplesOf
  <1> QED BY <1>3, <1>4, <1>5, <1>6

LEMMA ImportFrame ==
  ASSUME JobsInv, NEW d \in DataSources, ImportSound(d),
         work'[<<"periodic", d>>] = work[<<"periodic", d>>],
         importers'[NameOf[d]] = importers[NameOf[d]],
         rows'[d] = rows[d], twice'[d] = twice[d], now' = now \/ now' = now + 1
  PROVE  ImportSound(d)'
  <1>1. now \in Int /\ now' \in Int /\ now <= now'
    BY DEF JobsInv, TypeOK
  <1>2. \A rs : Contiguous(rs, now) => Contiguous(rs, now')
    BY <1>1, ContiguousLater
  <1> QED BY <1>2 DEF ImportSound, SamplesOf

(* Whoever goes on, if nothing disturbs it, is the sync of a source.       *)
LEMMA ActiveJob ==
  ASSUME ImporterInv, Undisturbed, NEW j \in Jobs, work[j].pc # "idle"
  PROVE  j[2] \in setup.sources /\ j = <<"periodic", j[2]>> /\ j[1] = "periodic"
  <1>1. /\ j[1] \in {"periodic", "onDemand"} /\ j[2] \in DataSources /\ j = <<j[1], j[2]>>
    BY JobsAre
  <1>2. OthersIdle /\ NoWork.pc = "idle"
    BY NoWorkTyped DEF ImporterInv
  <1>3. j[1] # "onDemand"
    BY <1>1, <1>2 DEF OthersIdle
  <1>4. j[1] = "periodic" /\ j = <<"periodic", j[2]>>
    BY <1>1, <1>3
  <1>5. j[2] \in setup.sources
    BY <1>1, <1>2, <1>4 DEF OthersIdle
  <1> QED BY <1>4, <1>5

(* A step of the import of d leaves the others' imports alone.             *)
OnlyImportOf(d) ==
  /\ UNCHANGED <<setup, now>>
  /\ \A j \in Jobs : j # <<"periodic", d>> => work'[j] = work[j]
  /\ \A n \in Names : n # NameOf[d] => importers'[n] = importers[n]
  /\ \A e \in DataSources : e # d => rows'[e] = rows[e] /\ twice'[e] = twice[e]

LEMMA OneImport ==
  ASSUME ImporterInv, JobsInv', Undisturbed, NEW d \in setup.sources, OnlyImportOf(d),
         ImportSound(d)'
  PROVE  ImporterInv'
  <1>1. JobsInv /\ OthersIdle /\ \A e \in setup.sources : ImportSound(e)
    BY DEF ImporterInv
  <1>2. setup' = setup /\ setup.sources \subseteq DataSources /\ d \in DataSources
    BY <1>1, SourcesAre DEF OnlyImportOf, JobsInv
  <1>3. OthersIdle'
    <2>1. \A e \in DataSources :
            /\ <<"onDemand", e>> \in Jobs /\ <<"onDemand", e>> # <<"periodic", d>>
            /\ <<"periodic", e>> \in Jobs /\ (e # d => <<"periodic", e>> # <<"periodic", d>>)
      BY JobsAre
    <2> QED BY <1>1, <1>2, <2>1 DEF OthersIdle, OnlyImportOf
  <1>4. ASSUME NEW e \in setup.sources
        PROVE  ImportSound(e)'
    <2>1. CASE e = d
      BY <2>1
    <2>2. CASE e # d
      <3>1. NameOf[e] \in Names /\ NameOf[e] # NameOf[d]
        BY <1>2, <2>2, NamesAre DEF Undisturbed
      <3>2. <<"periodic", e>> \in Jobs /\ <<"periodic", e>> # <<"periodic", d>>
        BY <1>2, <2>2, JobsAre
      <3> QED BY <1>1, <1>2, <2>2, <3>1, <3>2, ImportFrame DEF OnlyImportOf
    <2> QED BY <2>1, <2>2
  <1> QED BY <1>2, <1>3, <1>4 DEF ImporterInv

LEMMA GotoIs ==
  ASSUME JobsInv, NEW j \in Jobs, NEW w, Goto(j, w)
  PROVE  work'[j] = w /\ \A k \in Jobs : k # j => work'[k] = work[k]
  BY DEF JobsInv, TypeOK, Goto

(* The job of d, its importer and its place among the others.              *)
LEMMA SourceIs ==
  ASSUME JobsInv, NEW d \in setup.sources
  PROVE  /\ d \in DataSources /\ NameOf[d] \in Names
         /\ <<"periodic", d>> \in Jobs
         /\ <<"periodic", d>>[1] = "periodic" /\ <<"periodic", d>>[2] = d
         /\ importers[NameOf[d]] \in [cfg : DataSources \cup {Null}, last : OptTime]
         /\ rows[d] \subseteq Present /\ now \in Nat
         /\ \A x \in rows[d] : x.at <= now /\ x.at \in Nat
  <1>1. TypeOK /\ PastSamples
    BY DEF JobsInv
  <1>2. d \in DataSources
    BY <1>1, SourcesAre
  <1>3. NameOf[d] \in Names /\ <<"periodic", d>> \in Jobs
    BY <1>2, NamesAre, JobsAre
  <1>4. rows[d] \subseteq Present /\ now \in Nat
    BY <1>1, <1>2 DEF TypeOK
  <1>5. \A x \in rows[d] : x.at <= now /\ x.at \in Nat
    BY <1>1, <1>2, <1>4, PresentTimes DEF PastSamples
  <1>6. importers[NameOf[d]] \in [cfg : DataSources \cup {Null}, last : OptTime]
    BY <1>1, <1>3 DEF TypeOK
  <1> QED BY <1>2, <1>3, <1>4, <1>5, <1>6

(* A sync starts: what its job and its importer become.                    *)
LEMMA SyncIs ==
  ASSUME JobsInv, NEW d \in setup.sources, UNCHANGED setup, syncReportDataSource(d)
  PROVE  LET j == <<"periodic", d>>
             n == NameOf[d]
         IN  /\ OnlyImportOf(d) /\ UNCHANGED <<api, rows, twice>>
             /\ work[j].pc = "idle" /\ work'[j].pc \in {"createTable", "import"}
             /\ work'[j].done = Null
             /\ work'[j].pc = "import" => work'[j].status = cache[d].status
             /\ setup.laggy \/ cache[d] = api[d]
             /\ importers'[n].cfg \in {importers[n].cfg, d}
             /\ importers'[n].last \in {importers[n].last, Null}
  <1> DEFINE j == <<"periodic", d>>
             n == NameOf[d]
  <1>1. TypeOK
    BY DEF JobsInv
  <1>2. d \in DataSources /\ n \in Names /\ j \in Jobs
    BY SourceIs
  <1>3. /\ UNCHANGED <<now, api, rows, twice>> /\ work[j].pc = "idle"
        /\ setup.laggy \/ cache[d] = api[d]
    BY DEF syncReportDataSource, tableVars
  <1>4. CASE Goto(j, [NoWork EXCEPT !.pc = "createTable"]) /\ UNCHANGED memVars
    <2> DEFINE v == [NoWork EXCEPT !.pc = "createTable"]
    <2>1. v.pc = "createTable" /\ v.done = Null
      BY DEF NoWork
    <2> HIDE DEF v
    <2>2. work'[j] = v /\ \A k \in Jobs : k # j => work'[k] = work[k]
      BY <1>2, <1>4, GotoIs DEF v
    <2>3. UNCHANGED importers
      BY <1>4 DEF memVars
    <2> QED BY <1>2, <1>3, <2>1, <2>2, <2>3 DEF OnlyImportOf
  <1>5. CASE /\ configureImporter(d)
             /\ Goto(j, [NoWork EXCEPT !.pc = "import", !.status = cache[d].status])
    <2> DEFINE v == [NoWork EXCEPT !.pc = "import", !.status = cache[d].status]
    <2>1. v.pc = "import" /\ v.done = Null /\ v.status = cache[d].status
      BY DEF NoWork
    <2> HIDE DEF v
    <2>2. work'[j] = v /\ \A k \in Jobs : k # j => work'[k] = work[k]
      BY <1>2, <1>5, GotoIs DEF v
    <2>3. importers \in [Names -> [cfg : DataSources \cup {Null}, last : OptTime]]
      BY <1>1 DEF TypeOK
    <2>4. \/ importers' = [importers EXCEPT ![n] = [cfg |-> d, last |-> Null]]
          \/ importers' = [importers EXCEPT ![n].cfg = d]
      BY <1>5 DEF configureImporter, newPromImporter, UpdateConfig
    <2>5. /\ importers'[n].cfg \in {importers[n].cfg, d}
          /\ importers'[n].last \in {importers[n].last, Null}
          /\ \A m \in Names : m # n => importers'[m] = importers[m]
      BY <1>2, <2>3, <2>4
    <2> QED BY <1>2, <1>3, <2>1, <2>2, <2>5 DEF OnlyImportOf
  <1> QED BY <1>4, <1>5 DEF syncReportDataSource

LEMMA syncImport ==
  ASSUME ImporterInv, Undisturbed, NEW d \in setup.sources, UNCHANGED setup,
         syncReportDataSource(d)
  PROVE  OnlyImportOf(d) /\ ImportSound(d)'
  <1>1. JobsInv /\ ImportSound(d)
    BY DEF ImporterInv
  <1> DEFINE j == <<"periodic", d>>
             n == NameOf[d]
  <1>2. /\ OnlyImportOf(d) /\ UNCHANGED <<rows, twice>>
        /\ work[j].pc = "idle" /\ work'[j].pc \in {"createTable", "import"}
        /\ importers'[n].cfg \in {importers[n].cfg, d}
        /\ importers'[n].last \in {importers[n].last, Null}
    BY <1>1, SyncIs
  <1> QED BY <1>1, <1>2 DEF ImportSound, Importing

(* A job that ends, and leaves its importer and its table alone.           *)
LEMMA JobEnds ==
  ASSUME JobsInv, NEW d \in setup.sources, ImportSound(d), UNCHANGED <<setup, now, rows, twice>>,
         Goto(<<"periodic", d>>, NoWork),
         \A n \in Names : n # NameOf[d] => importers'[n] = importers[n],
         importers'[NameOf[d]].cfg = importers[NameOf[d]].cfg,
         \/ importers'[NameOf[d]].last = Null
         \/ /\ importers'[NameOf[d]].last = importers[NameOf[d]].last
            /\ work[<<"periodic", d>>].pc \notin Importing \cup {"endImport"}
  PROVE  OnlyImportOf(d) /\ ImportSound(d)'
  <1> DEFINE j == <<"periodic", d>>
  <1>1. j \in Jobs
    BY SourceIs
  <1>2. work'[j] = NoWork /\ \A k \in Jobs : k # j => work'[k] = work[k]
    BY <1>1, GotoIs
  <1>3. work'[j].pc = "idle"
    BY <1>2, NoWorkTyped
  <1> HIDE DEF j
  <1>4. OnlyImportOf(d)
    BY <1>2 DEF OnlyImportOf, j
  <1> QED BY <1>3, <1>4 DEF ImportSound, Importing, j

(* How far the table has come is known well enough before an import.       *)
LEMMA LastSound ==
  ASSUME JobsInv, NEW d \in setup.sources, ImportSound(d), importers[NameOf[d]].cfg # Null,
         work[<<"periodic", d>>].pc = "import"
  PROVE  /\ LastOf(d) \in OptTime /\ importers[NameOf[d]].cfg = d
         /\ LastOf(d) = Null => rows[d] = {}
         /\ LastOf(d) # Null => /\ LastOf(d) \in Int /\ OnMinute(LastOf(d))
                                /\ \A x \in rows[d] : x.at <= LastOf(d)
         /\ LastOf(d) # Null /\ importers[NameOf[d]].last = Null => Has(d, LastOf(d))
  <1> DEFINE im == importers[NameOf[d]]
  <1>1. d \in DataSources /\ rows[d] \subseteq Present /\ now \in Nat
        /\ \A x \in rows[d] : x.at <= now
    BY SourceIs
  <1>2. im.cfg = d
    BY DEF ImportSound
  <1>3. LastOf(d) \in OptTime
    BY <1>1, LastTyped
  <1>4. CASE im.last # Null
    <2>1. LastOf(d) = im.last
      BY <1>4 DEF LastOf
    <2>2. OnMinute(im.last) /\ \A x \in rows[d] : x.at <= im.last
      BY <1>4 DEF ImportSound, Importing
    <2> QED BY <1>2, <1>3, <1>4, <2>1, <2>2 DEF OptTime
  <1>5. CASE im.last = Null
    <2>1. LastOf(d) = IF rows[d] = {} THEN Null ELSE LatestTime(rows[d])
      BY <1>2, <1>5 DEF LastOf, GetLastTimestampForTable
    <2>2. CASE rows[d] = {}
      BY <1>2, <1>3, <2>1, <2>2
    <2>3. CASE rows[d] # {}
      <3>1. /\ LatestTime(rows[d]) \in Nat
            /\ \E y \in rows[d] : y.at = LatestTime(rows[d])
            /\ \A x \in rows[d] : x.at <= LatestTime(rows[d])
        BY <1>1, <2>3, LatestTimeIs
      <3>2. OnMinute(LatestTime(rows[d]))
        BY <3>1 DEF ImportSound
      <3>3. LatestTime(rows[d]) # Null
        BY <3>1, ImporterAssumption
      <3> QED BY <1>2, <1>3, <2>1, <2>3, <3>1, <3>2, <3>3 DEF Has
    <2> QED BY <2>2, <2>3
  <1> QED BY <1>4, <1>5

(* The part of an import up to its first query.                            *)
LEMMA ImportIs ==
  ASSUME MinuteSteps, JobsInv, NEW d \in setup.sources, ImportSound(d), UNCHANGED setup,
         ImportFromLastTimestamp(d)
  PROVE  LET j == <<"periodic", d>>
             n == NameOf[d]
             start == importStartTime(LastOf(d))
             v == work'[j]
         IN  /\ OnlyImportOf(d) /\ UNCHANGED <<api, rows, twice>>
             /\ work[j].pc = "import" /\ start \in Int
             /\ importers[n].cfg # Null
             /\ importers'[n].cfg = importers[n].cfg /\ importers'[n].last = LastOf(d)
             /\ \/ v = NoWork
                \/ /\ v.pc = "query" /\ v.table = importers[n].cfg
                   /\ v.status = work[j].status /\ v.done = work[j].done
                   /\ v.ranges # << >> /\ start <= now
                   /\ v.ranges = timeRangesBetween(start, now)
                   /\ ContiguousFrom(v.ranges, truncateToSecond(start), now)
  <1> DEFINE j == <<"periodic", d>>
             n == NameOf[d]
             last == LastOf(d)
             start == importStartTime(last)
             todo == IF start > now THEN << >> ELSE timeRangesBetween(start, now)
             w == [work[j] EXCEPT !.pc = "query", !.table = importers[n].cfg, !.ranges = todo]
  <1>1. d \in DataSources /\ n \in Names /\ j \in Jobs /\ j[1] = "periodic" /\ j[2] = d
        /\ now \in Nat
    BY SourceIs
  <1>2. /\ UNCHANGED <<now, api, rows, twice>>
        /\ work[j].pc = "import"
        /\ importers' = [importers EXCEPT ![n].last = last]
        /\ \/ Goto(j, NoWork)
           \/ todo # << >> /\ Goto(j, w)
    BY DEF ImportFromLastTimestamp, LastOf, tableVars
  <1>3. importers[n].cfg # Null
    BY <1>1, <1>2 DEF JobsInv, JobSound
  <1>4. start \in Int
    BY <1>1, <1>3, LastTyped
  <1>5. importers \in [Names -> [cfg : DataSources \cup {Null}, last : OptTime]]
        /\ work[j] \in Work
    BY <1>1 DEF JobsInv, TypeOK
  <1> HIDE DEF last, start
  <1>6. /\ importers'[n].cfg = importers[n].cfg /\ importers'[n].last = last
        /\ \A m \in Names : m # n => importers'[m] = importers[m]
    BY <1>1, <1>2, <1>5
  <1>7. CASE Goto(j, NoWork)
    <2>1. work'[j] = NoWork /\ \A k \in Jobs : k # j => work'[k] = work[k]
      BY <1>1, <1>7, GotoIs
    <2> HIDE DEF j
    <2> QED BY <1>2, <1>3, <1>4, <1>6, <2>1 DEF OnlyImportOf, last, start, j
  <1>8. CASE todo # << >> /\ Goto(j, w)
    <2>1. start <= now /\ todo = timeRangesBetween(start, now)
      BY <1>1, <1>4, <1>8
    <2>2. ContiguousFrom(todo, truncateToSecond(start), now)
      BY <1>1, <1>4, <2>1, RangesBetween
    <2>3. /\ w.pc = "query" /\ w.ranges = todo /\ w.table = importers[n].cfg
          /\ w.status = work[j].status /\ w.done = work[j].done
      BY <1>5 DEF Work
    <2> HIDE DEF w, todo
    <2>4. work'[j] = w /\ \A k \in Jobs : k # j => work'[k] = work[k]
      BY <1>1, <1>8, GotoIs
    <2> HIDE DEF j
    <2>5. OnlyImportOf(d)
      BY <1>2, <1>6, <2>4 DEF OnlyImportOf, j
    <2> QED BY <1>2, <1>3, <1>4, <1>6, <1>8, <2>1, <2>2, <2>3, <2>4, <2>5 DEF last, start, j
  <1> QED BY <1>2, <1>7, <1>8

LEMMA ImportImport ==
  ASSUME MinuteSteps, ImporterInv, Undisturbed, NEW d \in setup.sources, UNCHANGED setup,
         ImportFromLastTimestamp(d)
  PROVE  OnlyImportOf(d) /\ ImportSound(d)'
  <1>1. JobsInv /\ ImportSound(d)
    BY DEF ImporterInv
  <1> DEFINE j == <<"periodic", d>>
             n == NameOf[d]
             last == LastOf(d)
             start == importStartTime(last)
             v == work'[j]
  <1>2. /\ OnlyImportOf(d) /\ UNCHANGED <<rows, twice>>
        /\ work[j].pc = "import" /\ importers[n].cfg # Null /\ start \in Int
        /\ importers'[n].cfg = importers[n].cfg /\ importers'[n].last = last
        /\ \/ v = NoWork
           \/ /\ v.pc = "query" /\ v.table = importers[n].cfg
              /\ v.ranges # << >>
              /\ ContiguousFrom(v.ranges, truncateToSecond(start), now)
    BY <1>1, ImportIs
  <1>3. /\ importers[n].cfg = d
        /\ last = Null => rows[d] = {}
        /\ last # Null => last \in Int /\ OnMinute(last) /\ \A x \in rows[d] : x.at <= last
    BY <1>1, <1>2, LastSound
  <1>4. UNCHANGED now
    BY <1>2 DEF OnlyImportOf
  <1>5. \A x \in rows[d] : x.at \in Nat
    BY <1>1, SourceIs
  <1> HIDE DEF last
  <1>6. CASE v = NoWork
    <2>1. work'[j].pc = "idle"
      BY <1>6, NoWorkTyped
    <2> QED BY <1>1, <1>2, <1>3, <2>1 DEF ImportSound, Importing
  <1>7. CASE v # NoWork
    <2>1. /\ v.pc = "query" /\ v.table = d /\ Contiguous(v.ranges, now)
          /\ v.ranges[1].start = truncateToSecond(start)
      BY <1>2, <1>3, <1>7 DEF ContiguousFrom
    <2>2. \A x \in rows[d] : x.at < v.ranges[1].start
      <3>1. CASE last = Null
        BY <1>3, <3>1
      <3>2. CASE last # Null
        <4>1. start = last + Minute
          BY <3>2 DEF importStartTime, MinuteSteps
        <4>2. last \in Int /\ OnMinute(last) /\ last + Minute \in Int
          BY <1>3, <3>2, MinuteAssumption
        <4>3. truncateToSecond(last + Minute) = last + Minute
          BY <4>2, NextMinute, TruncateKeepsMinutes
        <4>4. v.ranges[1].start = last + Minute
          BY <2>1, <4>1, <4>3
        <4> QED BY <1>3, <1>5, <3>2, <4>2, <4>4, MinuteAssumption
      <3> QED BY <3>1, <3>2
    <2> HIDE DEF v
    <2>3. work'[j].pc = "query" /\ work'[j].table = d /\ Contiguous(work'[j].ranges, now')
          /\ \A x \in rows'[d] : x.at < work'[j].ranges[1].start
      BY <1>2, <1>4, <2>1, <2>2 DEF v
    <2> QED BY <1>1, <1>2, <1>3, <2>3 DEF ImportSound, Importing
  <1> QED BY <1>6, <1>7

(* The import of d once its first query is dealt with: R is what the table *)
(* holds by then.                                                          *)
LEMMA RangeDone ==
  ASSUME NEW w \in Work, Contiguous(w.ranges, now), w.ranges # << >>,
         NEW R, R \subseteq Present, \A x \in R : x.at <= w.ranges[1].end
  PROVE  LET v == rangeProcessed(w)
         IN  /\ v.pc \in {"query", "endImport"}
             /\ v.pc = "query" =>
                  /\ v.table = w.table /\ v.ranges # << >> /\ Contiguous(v.ranges, now)
                  /\ v.ranges[1].start = w.ranges[1].end + Minute
                  /\ \A x \in R : x.at < v.ranges[1].start
             /\ v.pc = "endImport" =>
                  OnMinute(v.done.end) /\ \A x \in R : x.at <= v.done.end
  <1> DEFINE v == rangeProcessed(w)
  <1>1. /\ v.table = w.table /\ v.ranges = Tail(w.ranges) /\ v.done.end = w.ranges[1].end
        /\ v.pc = IF Len(w.ranges) = 1 THEN "endImport" ELSE "query"
        /\ v.pc = "query" => v.ranges # << >>
    BY RangeProcessed
  <1>2. /\ w.ranges[1].end \in Int /\ OnMinute(w.ranges[1].end)
        /\ Contiguous(Tail(w.ranges), now)
        /\ Tail(w.ranges) # << >> => Tail(w.ranges)[1].start = w.ranges[1].end + Minute
    BY ContiguousTail
  <1>3. \A x \in R : x.at \in Int
    BY PresentTimes
  <1>4. \A x \in R : x.at < w.ranges[1].end + Minute
    BY <1>2, <1>3, MinuteAssumption
  <1> HIDE DEF v
  <1>5. v.pc \in {"query", "endImport"}
    BY <1>1
  <1> QED BY <1>1, <1>2, <1>4, <1>5 DEF v

(* What the query of an import of d finds: all samples of its range.       *)
LEMMA QueryIs ==
  ASSUME MinuteSteps, JobsInv, NEW d \in setup.sources, ImportSound(d), UNCHANGED setup,
         queryPrometheus(<<"periodic", d>>)
  PROVE  LET j == <<"periodic", d>>
             w == work[j]
             v == work'[j]
         IN  /\ OnlyImportOf(d) /\ UNCHANGED <<api, importers, rows, twice>>
             /\ w.pc = "query" /\ w \in Work /\ w.ranges # << >> /\ w.table = d
             /\ Contiguous(w.ranges, now)
             /\ \/ SamplesOf(w.ranges[1]) = {} /\ v = rangeProcessed(w)
                \/ /\ SamplesOf(w.ranges[1]) # {} /\ v.pc = "store"
                   /\ v.pending = SamplesOf(w.ranges[1])
                   /\ v.ranges = w.ranges /\ v.table = w.table /\ v.done = w.done
                   /\ v.status = w.status
  <1> DEFINE j == <<"periodic", d>>
             w == work[j]
             r == w.ranges[1]
             got == QueryRange(Head(w.ranges))
             u == [w EXCEPT !.pc = "store", !.pending = got]
             v == IF got = {} THEN rangeProcessed(w) ELSE u
  <1>1. j \in Jobs /\ now \in Nat
    BY SourceIs
  <1>2. /\ UNCHANGED <<now, api, importers, rows, twice>>
        /\ w.pc = "query" /\ Goto(j, v)
    BY DEF queryPrometheus, memVars, tableVars
  <1>3. w \in Work /\ w.ranges \in Seq(Window) /\ w.ranges # << >>
    BY <1>1, <1>2, WorkTyped DEF JobsInv, JobSound, Importing
  <1>4. w.table = d /\ Contiguous(w.ranges, now)
    BY <1>2 DEF ImportSound, Importing
  <1>5. Head(w.ranges) = r
    BY <1>3
  <1>6. r \in Window /\ OnMinute(r.start) /\ r.end <= now
    BY <1>3, <1>4, ContiguousTail
  <1>7. got = SamplesOf(r)
    BY <1>1, <1>5, <1>6, SamplesAre
  <1>8. work'[j] = v /\ \A k \in Jobs : k # j => work'[k] = work[k]
    BY <1>1, <1>2, GotoIs
  <1>9. OnlyImportOf(d)
    BY <1>2, <1>8 DEF OnlyImportOf
  <1>10. /\ u.pc = "store" /\ u.pending = got /\ u.ranges = w.ranges /\ u.table = w.table
         /\ u.done = w.done /\ u.status = w.status
    <2> HIDE DEF got, w
    <2> QED BY <1>3 DEF Work
  <1> HIDE DEF u, got, w
  <1> QED BY <1>2, <1>3, <1>4, <1>7, <1>8, <1>9, <1>10 DEF w

LEMMA queryImport ==
  ASSUME MinuteSteps, ImporterInv, Undisturbed, NEW d \in setup.sources, UNCHANGED setup,
         queryPrometheus(<<"periodic", d>>)
  PROVE  OnlyImportOf(d) /\ ImportSound(d)'
  <1> DEFINE j == <<"periodic", d>>
             w == work[j]
             v == work'[j]
  <1>1. JobsInv /\ ImportSound(d)
    BY DEF ImporterInv
  <1>2. /\ OnlyImportOf(d) /\ UNCHANGED <<importers, rows, twice>>
        /\ w.pc = "query" /\ w \in Work /\ w.ranges # << >> /\ w.table = d
        /\ Contiguous(w.ranges, now)
        /\ \/ SamplesOf(w.ranges[1]) = {} /\ v = rangeProcessed(w)
           \/ /\ v.pc = "store" /\ v.pending = SamplesOf(w.ranges[1])
              /\ v.ranges = w.ranges /\ v.table = w.table
    BY <1>1, QueryIs
  <1>3. UNCHANGED now
    BY <1>2 DEF OnlyImportOf
  <1>4. \A x \in rows[d] : x.at < w.ranges[1].start
    BY <1>1, <1>2 DEF ImportSound, Importing
  <1>5. CASE v = rangeProcessed(w)
    <2>1. w.ranges[1].start \in Int /\ w.ranges[1].end \in Int
          /\ w.ranges[1].start < w.ranges[1].end
      BY <1>2, ContiguousTail
    <2>2. rows[d] \subseteq Present /\ \A x \in rows[d] : x.at <= w.ranges[1].end
      <3>1. rows[d] \subseteq Present /\ \A x \in rows[d] : x.at \in Nat
        BY <1>1, SourceIs
      <3> QED BY <1>4, <2>1, <3>1
    <2>3. /\ v.pc \in {"query", "endImport"}
          /\ v.pc = "query" =>
                  /\ v.table = w.table /\ Contiguous(v.ranges, now)
                  /\ \A x \in rows[d] : x.at < v.ranges[1].start
          /\ v.pc = "endImport" => OnMinute(v.done.end) /\ \A x \in rows[d] : x.at <= v.done.end
      BY <1>2, <1>5, <2>2, RangeDone
    <2> HIDE DEF w
    <2> QED BY <1>1, <1>2, <1>3, <2>3 DEF ImportSound, Importing
  <1>6. CASE v # rangeProcessed(w)
    <2>1. /\ v.pc = "store" /\ v.pending = SamplesOf(w.ranges[1])
          /\ v.ranges = w.ranges /\ v.table = w.table
      BY <1>2, <1>6
    <2>2. \A r : SamplesOf(r)' = SamplesOf(r)
      BY DEF SamplesOf
    <2> HIDE DEF w
    <2> QED BY <1>1, <1>2, <1>3, <1>4, <2>1, <2>2 DEF ImportSound, Importing
  <1> QED BY <1>5, <1>6

(***************************************************************************)
(* One INSERT of an import of d: all samples of its range, and they are    *)
(* newer than what the table holds.                                        *)
(***************************************************************************)
LEMMA InsertIs ==
  ASSUME MinuteSteps, JobsInv, Undisturbed, NEW d \in setup.sources, ImportSound(d),
         work[<<"periodic", d>>].pc = "store",
         NEW B \in Batches(work[<<"periodic", d>>].pending),
         Insert(work[<<"periodic", d>>].table, B)
  PROVE  LET w == work[<<"periodic", d>>]
             r == w.ranges[1]
         IN  /\ w \in Work /\ w.table = d /\ w.ranges # << >> /\ Contiguous(w.ranges, now)
             /\ B = w.pending /\ B = SamplesOf(r) /\ B # {} /\ B \subseteq Present
             /\ rows'[d] = rows[d] \cup B /\ rows'[d] \subseteq Present
             /\ twice'[d] = {}
             /\ \A x \in rows'[d] : OnMinute(x.at) /\ x.at <= r.end
             /\ \A x \in rows[d] : x.at < r.start
             /\ \A x \in B : r.start <= x.at
             /\ \A e \in DataSources : e # d => rows'[e] = rows[e] /\ twice'[e] = twice[e]
  <1> DEFINE j == <<"periodic", d>>
             w == work[j]
             r == w.ranges[1]
  <1>1. d \in DataSources /\ j \in Jobs /\ rows[d] \subseteq Present
        /\ \A x \in rows[d] : x.at \in Nat
    BY SourceIs
  <1>2. /\ B # {} /\ B \subseteq Present /\ B = w.pending /\ w.ranges # << >>
        /\ \A x \in B : x.at <= now
    BY <1>1, StoredIs DEF Undisturbed
  <1>3. /\ w.table = d /\ Contiguous(w.ranges, now) /\ w.pending = SamplesOf(r)
        /\ \A x \in rows[d] : x.at < r.start /\ OnMinute(x.at)
        /\ twice[d] = {}
    BY DEF ImportSound, Importing
  <1>4. r \in Window /\ OnMinute(r.start) /\ r.start \in Int /\ r.end \in Int /\ r.start < r.end
    BY <1>2, <1>3, ContiguousTail
  <1>5. \A x \in B : OnMinute(x.at) /\ r.start <= x.at /\ x.at <= r.end
    BY <1>2, <1>3, <1>4, SamplesAre
  <1>6. /\ rows'[d] = rows[d] \cup B /\ twice'[d] = twice[d] \cup (B \cap rows[d])
        /\ \A e \in DataSources : e # d => rows'[e] = rows[e] /\ twice'[e] = twice[e]
    BY <1>1, <1>2, <1>3, Inserted
  <1>7. \A x \in B : x.at \in Nat
    BY <1>2, PresentTimes
  <1> HIDE DEF r
  <1>8. B \cap rows[d] = {}
    BY <1>1, <1>3, <1>4, <1>5, <1>7
  <1>9. \A x \in rows[d] : x.at <= r.end
    BY <1>1, <1>3, <1>4
  <1>10. w \in Work
    BY <1>1, WorkTyped
  <1> QED BY <1>1, <1>2, <1>3, <1>5, <1>6, <1>8, <1>9, <1>10 DEF r

(* v is w, a job that imports into t, after its current range.             *)
RangeOver(v, w, t) ==
  \E u \in Work : /\ v = rangeProcessed(u)
                  /\ u.ranges = w.ranges /\ u.table = t
                  /\ u.done = w.done /\ u.status = w.status

LEMMA StoreIs ==
  ASSUME MinuteSteps, JobsInv, Undisturbed, NEW d \in setup.sources, ImportSound(d),
         UNCHANGED setup, StorePrometheusMetrics(<<"periodic", d>>)
  PROVE  LET j == <<"periodic", d>>
             w == work[j]
             r == w.ranges[1]
         IN  /\ OnlyImportOf(d) /\ UNCHANGED <<api, importers>>
             /\ w.pc = "store" /\ w.ranges # << >> /\ Contiguous(w.ranges, now)
             /\ w.pending # {} /\ w.pending \subseteq Present
             /\ w.pending = SamplesOf(r)
             /\ rows'[d] = rows[d] \cup w.pending /\ rows'[d] \subseteq Present
             /\ twice'[d] = {}
             /\ \A x \in rows'[d] : OnMinute(x.at) /\ x.at <= r.end
             /\ \A x \in rows[d] : x.at < r.start
             /\ \A x \in w.pending : r.start <= x.at
             /\ RangeOver(work'[j], w, d)
  <1> DEFINE j == <<"periodic", d>>
             w == work[j]
             r == w.ranges[1]
  <1>1. j \in Jobs /\ w.pc = "store"
    BY SourceIs DEF StorePrometheusMetrics
  <1>2. PICK B \in Batches(w.pending) : Insert(w.table, B) /\ Goto(j, Stored(w, B))
    BY DEF StorePrometheusMetrics, Stored
  <1>3. UNCHANGED <<now, api, importers>>
    BY DEF StorePrometheusMetrics, memVars
  <1> DEFINE u == [w EXCEPT !.metrics = MetricsWith(@, B), !.pending = @ \ B]
  <1>4. /\ w.table = d /\ w.ranges # << >> /\ Contiguous(w.ranges, now)
        /\ B = w.pending /\ B = SamplesOf(r) /\ B # {} /\ B \subseteq Present
        /\ rows'[d] = rows[d] \cup B /\ rows'[d] \subseteq Present
        /\ twice'[d] = {}
        /\ \A x \in rows'[d] : OnMinute(x.at) /\ x.at <= r.end
        /\ \A x \in rows[d] : x.at < r.start
        /\ \A x \in B : r.start <= x.at
        /\ \A e \in DataSources : e # d => rows'[e] = rows[e] /\ twice'[e] = twice[e]
    BY <1>1, <1>2, InsertIs
  <1>5. /\ u \in Work /\ u.pending = w.pending \ B /\ u.ranges = w.ranges
        /\ u.table = w.table /\ u.done = w.done /\ u.status = w.status
    BY <1>1, <1>2, StoredIs
  <1>6. Stored(w, B) = IF u.pending = {} THEN rangeProcessed(u) ELSE u
    BY DEF Stored
  <1> HIDE DEF u
  <1>7. work'[j] = Stored(w, B) /\ \A k \in Jobs : k # j => work'[k] = work[k]
    BY <1>1, <1>2, GotoIs
  <1>8. work'[j] = rangeProcessed(u)
    BY <1>4, <1>5, <1>6, <1>7
  <1>9. OnlyImportOf(d)
    BY <1>3, <1>4, <1>7 DEF OnlyImportOf
  <1> HIDE DEF w
  <1>10. RangeOver(work'[j], w, d)
    BY <1>4, <1>5, <1>8 DEF RangeOver
  <1> QED BY <1>1, <1>3, <1>4, <1>9, <1>10 DEF w

LEMMA storeImport ==
  ASSUME MinuteSteps, ImporterInv, Undisturbed, NEW d \in setup.sources, UNCHANGED setup,
         StorePrometheusMetrics(<<"periodic", d>>)
  PROVE  OnlyImportOf(d) /\ ImportSound(d)'
  <1> DEFINE j == <<"periodic", d>>
             w == work[j]
             v == work'[j]
  <1>1. JobsInv /\ ImportSound(d)
    BY DEF ImporterInv
  <1>2. /\ OnlyImportOf(d) /\ UNCHANGED importers
        /\ w.pc = "store" /\ w.ranges # << >> /\ Contiguous(w.ranges, now)
        /\ rows'[d] \subseteq Present /\ twice'[d] = {}
        /\ \A x \in rows'[d] : OnMinute(x.at) /\ x.at <= w.ranges[1].end
        /\ RangeOver(v, w, d)
    BY <1>1, StoreIs
  <1>3. PICK u \in Work : v = rangeProcessed(u) /\ u.ranges = w.ranges /\ u.table = d
    BY <1>2 DEF RangeOver
  <1>4. UNCHANGED now
    BY <1>2 DEF OnlyImportOf
  <1> DEFINE R == rows'[d]
  <1>5. R \subseteq Present /\ \A x \in R : x.at <= u.ranges[1].end
    BY <1>2, <1>3
  <1>6. u.ranges # << >> /\ Contiguous(u.ranges, now)
    BY <1>2, <1>3
  <1> HIDE DEF R
  <1>7. /\ v.pc \in {"query", "endImport"}
        /\ v.pc = "query" =>
             /\ v.table = u.table /\ Contiguous(v.ranges, now)
             /\ \A x \in R : x.at < v.ranges[1].start
        /\ v.pc = "endImport" => OnMinute(v.done.end) /\ \A x \in R : x.at <= v.done.end
    BY <1>3, <1>5, <1>6, RangeDone
  <1> QED BY <1>1, <1>2, <1>3, <1>4, <1>7 DEF ImportSound, Importing, R

LEMMA EndIs ==
  ASSUME JobsInv, NEW d \in setup.sources, UNCHANGED setup, endImport(<<"periodic", d>>)
  PROVE  LET j == <<"periodic", d>>
             n == NameOf[d]
             w == work[j]
             v == work'[j]
         IN  /\ OnlyImportOf(d) /\ UNCHANGED <<api, rows, twice>>
             /\ w.pc = "endImport" /\ v.pc = "putStatus"
             /\ w.done \in Window
             /\ v.done = w.done /\ v.status = w.status
             /\ importers'[n].cfg = importers[n].cfg
             /\ importers'[n].last = w.done.end
  <1> DEFINE j == <<"periodic", d>>
             n == NameOf[d]
             w == work[j]
             v == [w EXCEPT !.pc = "putStatus"]
  <1>1. j \in Jobs /\ n \in Names /\ j[1] = "periodic" /\ j[2] = d
    BY SourceIs
  <1>2. UNCHANGED <<now, api, rows, twice>> /\ w.pc = "endImport"
    BY DEF endImport, tableVars
  <1>3. finishImport(d) /\ Goto(j, v)
    BY <1>1 DEF endImport
  <1>4. importers' = [importers EXCEPT ![n].last = w.done.end]
    BY <1>3 DEF finishImport
  <1>5. importers \in [Names -> [cfg : DataSources \cup {Null}, last : OptTime]]
    BY DEF JobsInv, TypeOK
  <1>6. /\ importers'[n].cfg = importers[n].cfg /\ importers'[n].last = w.done.end
        /\ \A m \in Names : m # n => importers'[m] = importers[m]
    BY <1>1, <1>4, <1>5
  <1>7. w \in Work /\ w.done \in Window
    BY <1>1, <1>2, WorkTyped DEF JobsInv, JobSound
  <1>8. v.pc = "putStatus" /\ v.done = w.done /\ v.status = w.status
    BY <1>7 DEF Work
  <1>9. work'[j] = v /\ \A k \in Jobs : k # j => work'[k] = work[k]
    BY <1>1, <1>3, GotoIs
  <1> HIDE DEF v
  <1>10. OnlyImportOf(d)
    BY <1>2, <1>6, <1>9 DEF OnlyImportOf
  <1> QED BY <1>2, <1>6, <1>7, <1>8, <1>9, <1>10

LEMMA endImportImport ==
  ASSUME ImporterInv, Undisturbed, NEW d \in setup.sources, UNCHANGED setup,
         endImport(<<"periodic", d>>)
  PROVE  OnlyImportOf(d) /\ ImportSound(d)'
  <1>1. JobsInv /\ ImportSound(d)
    BY DEF ImporterInv
  <1> QED BY <1>1, EndIs DEF ImportSound, Importing

(* A failed call, or an INSERT that only seems to fail.                    *)
LEMMA faultImport ==
  ASSUME MinuteSteps, ImporterInv, Undisturbed, NEW d \in setup.sources, UNCHANGED setup,
         callFails(<<"periodic", d>>) \/ insertSeemsToFail(<<"periodic", d>>)
  PROVE  OnlyImportOf(d) /\ ImportSound(d)'
  <1> DEFINE j == <<"periodic", d>>
             n == NameOf[d]
  <1>1. JobsInv /\ ImportSound(d)
    BY DEF ImporterInv
  <1>2. j \in Jobs /\ n \in Names /\ j[1] = "periodic" /\ j[2] = d
    BY <1>1, SourceIs
  <1>3. Fault /\ abortJob(j) /\ UNCHANGED now /\ work[j].pc # "endImport"
    BY DEF callFails, insertSeemsToFail
  <1>4. /\ Goto(j, NoWork)
        /\ \A m \in Names : importers'[m].cfg = importers[m].cfg
        /\ \A m \in Names : m # n => importers'[m] = importers[m]
        /\ \/ importers'[n] = importers[n] /\ work[j].pc \notin {"query", "store"}
           \/ importers'[n].last = Null
    BY <1>1, <1>2, <1>3, Aborted
  <1>5. CASE callFails(j)
    <2>1. UNCHANGED <<rows, twice>>
      BY <1>5 DEF callFails, tableVars
    <2> QED BY <1>1, <1>2, <1>3, <1>4, <2>1, JobEnds DEF Importing
  <1>6. CASE insertSeemsToFail(j)
    <2>1. work[j].pc = "store"
      BY <1>6 DEF insertSeemsToFail
    <2>2. PICK B \in Batches(work[j].pending) : Insert(work[j].table, B)
      BY <1>6 DEF insertSeemsToFail
    <2>3. /\ twice'[d] = {} /\ \A x \in rows'[d] : OnMinute(x.at)
          /\ \A e \in DataSources : e # d => rows'[e] = rows[e] /\ twice'[e] = twice[e]
      BY <1>1, <2>1, <2>2, InsertIs
    <2>4. importers'[n].last = Null /\ importers'[n].cfg = importers[n].cfg
      BY <1>2, <1>4, <2>1
    <2>5. work'[j] = NoWork /\ \A k \in Jobs : k # j => work'[k] = work[k]
      BY <1>1, <1>2, <1>4, GotoIs
    <2>6. work'[j].pc = "idle"
      BY <2>5, NoWorkTyped
    <2>7. OnlyImportOf(d)
      BY <1>3, <1>4, <2>3, <2>5 DEF OnlyImportOf
    <2> QED BY <1>1, <2>3, <2>4, <2>6, <2>7 DEF ImportSound, Importing
  <1> QED BY <1>5, <1>6

(* A step that touches no job, no importer and no table.                   *)
NoImport == /\ UNCHANGED <<setup, work, importers, rows, twice>>
            /\ now' = now \/ now' = now + 1

LEMMA NoImportStep ==
  ASSUME ImporterInv, JobsInv', Undisturbed, NoImport
  PROVE  ImporterInv'
  <1>1. JobsInv /\ OthersIdle /\ \A e \in setup.sources : ImportSound(e)
    BY DEF ImporterInv
  <1>2. setup' = setup /\ setup.sources \subseteq DataSources
    BY <1>1, SourcesAre DEF NoImport, JobsInv
  <1>3. OthersIdle'
    BY <1>1 DEF OthersIdle, NoImport
  <1>4. \A e \in setup.sources : ImportSound(e)'
    BY <1>1, <1>2, ImportFrame DEF NoImport
  <1> QED BY <1>2, <1>3, <1>4 DEF ImporterInv

(***************************************************************************)
(* The steps of the importer when nothing but faults disturbs it: one that *)
(* touches no import, one of the import of one source, or a restart.       *)
(***************************************************************************)
UndisturbedStep ==
  \/ NoImport /\ UNCHANGED api
  \/ \E d \in setup.sources :
       \/ syncReportDataSource(d) \/ createTable(d) \/ ImportFromLastTimestamp(d)
       \/ putImportStatus(d)
       \/ queryPrometheus(<<"periodic", d>>)
       \/ StorePrometheusMetrics(<<"periodic", d>>)
       \/ endImport(<<"periodic", d>>)
       \/ callFails(<<"periodic", d>>) \/ insertSeemsToFail(<<"periodic", d>>)
  \/ restart

LEMMA UndisturbedSteps ==
  ASSUME ImporterInv, Undisturbed, [Next]_<<vars, setup>>
  PROVE  UNCHANGED setup /\ UndisturbedStep
  <1> USE DEF queueVars, memVars, tableVars, boundVars
  <1>0. TypeOK
    BY DEF ImporterInv, JobsInv
  <1>1. CASE UNCHANGED <<vars, setup>>
    BY <1>1 DEF vars, UndisturbedStep, NoImport
  <1>2. ASSUME UNCHANGED setup, NEW d \in setup.sources, deliver(d) \/ resync(d) \/ fireDelayed(d)
        PROVE  UndisturbedStep
    BY <1>2 DEF deliver, resync, fireDelayed, UndisturbedStep, NoImport
  <1>3. ASSUME UNCHANGED setup, NEW d \in setup.sources, recreateDataSource(d)
        PROVE  FALSE
    <2>1. setup.maxRecreations = 0 /\ recreated \in 0..0
      BY <1>0 DEF Undisturbed, TypeOK
    <2> QED BY <1>3, <2>1 DEF recreateDataSource
  <1>4. ASSUME NEW r \in setup.onDemand
        PROVE  FALSE
    BY <1>4 DEF Undisturbed
  <1>5. ASSUME UNCHANGED setup, NEW j \in Jobs, step(j) \/ callFails(j) \/ insertSeemsToFail(j)
        PROVE  UndisturbedStep
    <2>1. work[j].pc # "idle"
      BY <1>5 DEF step, queryPrometheus, StorePrometheusMetrics, endImport, callFails,
                  insertSeemsToFail
    <2>2. j[2] \in setup.sources /\ j = <<"periodic", j[2]>>
      BY <2>1, ActiveJob
    <2> QED BY <1>5, <2>2 DEF step, UndisturbedStep
  <1>6. CASE UNCHANGED setup /\ tick
    BY <1>6 DEF tick, UndisturbedStep, NoImport
  <1>7. ASSUME UNCHANGED setup, NEW d \in setup.sources,
               \/ syncReportDataSource(d) \/ createTable(d) \/ ImportFromLastTimestamp(d)
               \/ putImportStatus(d)
        PROVE  UndisturbedStep
    BY <1>7 DEF UndisturbedStep
  <1>8. CASE UNCHANGED setup /\ restart
    BY <1>8 DEF UndisturbedStep
  <1> QED BY <1>1, <1>2, <1>3, <1>4, <1>5, <1>6, <1>7, <1>8 DEF Next

LEMMA createTableImport ==
  ASSUME ImporterInv, Undisturbed, NEW d \in setup.sources, UNCHANGED setup, createTable(d)
  PROVE  OnlyImportOf(d) /\ ImportSound(d)'
  <1>1. JobsInv /\ ImportSound(d) /\ NameOf[d] \in Names
    BY SourceIs DEF ImporterInv
  <1>2. /\ UNCHANGED <<now, importers, rows, twice>> /\ Goto(<<"periodic", d>>, NoWork)
        /\ work[<<"periodic", d>>].pc = "createTable"
    BY DEF createTable, memVars, tableVars
  <1> QED BY <1>1, <1>2, JobEnds DEF Importing

LEMMA putImportStatusImport ==
  ASSUME ImporterInv, Undisturbed, NEW d \in setup.sources, UNCHANGED setup, putImportStatus(d)
  PROVE  OnlyImportOf(d) /\ ImportSound(d)'
  <1>1. JobsInv /\ ImportSound(d) /\ NameOf[d] \in Names
    BY SourceIs DEF ImporterInv
  <1>2. /\ UNCHANGED <<now, importers, rows, twice>> /\ Goto(<<"periodic", d>>, NoWork)
        /\ work[<<"periodic", d>>].pc = "putStatus"
    BY DEF putImportStatus, memVars, tableVars
  <1> QED BY <1>1, <1>2, JobEnds DEF Importing

LEMMA restartImport ==
  ASSUME ImporterInv, JobsInv', Undisturbed, UNCHANGED setup, restart
  PROVE  ImporterInv'
  <1>1. JobsInv /\ OthersIdle /\ \A e \in setup.sources : ImportSound(e)
    BY DEF ImporterInv
  <1>2. setup.sources \subseteq DataSources
    BY <1>1, SourcesAre DEF JobsInv
  <1>3. /\ \A n \in Names : importers'[n] = NoImporter
        /\ \A j \in Jobs : work'[j] = NoWork
        /\ UNCHANGED <<now, rows, twice>>
    BY DEF restart, tableVars
  <1>4. OthersIdle'
    BY <1>1, <1>3, JobsAre DEF OthersIdle
  <1>5. ASSUME NEW e \in setup.sources
        PROVE  ImportSound(e)'
    <2>1. importers'[NameOf[e]].cfg = Null /\ importers'[NameOf[e]].last = Null
      BY <1>2, <1>3, NamesAre DEF NoImporter
    <2>2. work'[<<"periodic", e>>].pc = "idle"
      BY <1>2, <1>3, JobsAre, NoWorkTyped
    <2>3. ImportSound(e)
      BY <1>1
    <2> QED BY <1>3, <2>1, <2>2, <2>3 DEF ImportSound, Importing
  <1> QED BY <1>4, <1>5 DEF ImporterInv

LEMMA ImporterInvStep ==
  ASSUME MinuteSteps, ImporterInv, [Next]_<<vars, setup>>
  PROVE  ImporterInv'
  <1>1. JobsInv'
    BY JobsStep DEF ImporterInv
  <1>2. setup' = setup
    BY DEF Next
  <1>3. CASE ~Undisturbed
    BY <1>1, <1>2, <1>3 DEF ImporterInv, Undisturbed
  <1>4. CASE Undisturbed
    <2>1. UndisturbedStep
      BY <1>4, UndisturbedSteps
    <2>2. CASE NoImport
      BY <1>1, <1>4, <2>2, NoImportStep
    <2>3. ASSUME NEW d \in setup.sources,
                 \/ syncReportDataSource(d) \/ createTable(d) \/ ImportFromLastTimestamp(d)
                 \/ putImportStatus(d)
                 \/ queryPrometheus(<<"periodic", d>>)
                 \/ StorePrometheusMetrics(<<"periodic", d>>)
                 \/ endImport(<<"periodic", d>>)
                 \/ callFails(<<"periodic", d>>) \/ insertSeemsToFail(<<"periodic", d>>)
          PROVE  ImporterInv'
      <3>1. OnlyImportOf(d) /\ ImportSound(d)'
        BY <1>2, <1>4, <2>3, syncImport, createTableImport, ImportImport, putImportStatusImport,
           queryImport, storeImport, endImportImport, faultImport
      <3> QED BY <1>1, <1>4, <3>1, OneImport
    <2>4. CASE restart
      BY <1>1, <1>2, <1>4, <2>4, restartImport
    <2> QED BY <2>1, <2>2, <2>3, <2>4 DEF UndisturbedStep
  <1> QED BY <1>3, <1>4

LEMMA ImporterInvInitially == Init => ImporterInv
  <1> SUFFICES ASSUME Init
               PROVE  ImporterInv
    OBVIOUS
  <1>1. JobsInv
    BY JobsInitially
  <1>2. setup.sources \subseteq DataSources
    BY <1>1, SourcesAre DEF JobsInv
  <1>3. /\ \A n \in Names : importers[n] = NoImporter
        /\ \A j \in Jobs : work[j] = NoWork
        /\ \A d \in DataSources : rows[d] = {} /\ twice[d] = {}
    BY DEF Init
  <1>4. OthersIdle
    BY <1>3, JobsAre DEF OthersIdle
  <1>5. ASSUME NEW e \in setup.sources
        PROVE  ImportSound(e)
    <2>1. importers[NameOf[e]].cfg = Null /\ importers[NameOf[e]].last = Null
      BY <1>2, <1>3, NamesAre DEF NoImporter
    <2>2. work[<<"periodic", e>>].pc = "idle"
      BY <1>2, <1>3, JobsAre, NoWorkTyped
    <2> QED BY <1>2, <1>3, <2>1, <2>2 DEF ImportSound, Importing
  <1> QED BY <1>1, <1>4, <1>5 DEF ImporterInv

(***************************************************************************)
(* Whatever calls fail, INSERTs only seem to fail and restarts happen: an  *)
(* undisturbed import never stores a sample twice, for any set of data     *)
(* sources, samples, chunk sizes and query limits (importer.go:124).       *)
(***************************************************************************)
THEOREM NeverTwice ==
  ASSUME MinuteSteps
  PROVE  Spec => []NoDuplicates
  <1>1. Init => ImporterInv
    BY ImporterInvInitially
  <1>2. ImporterInv /\ [Next]_<<vars, setup>> => ImporterInv'
    BY ImporterInvStep
  <1>3. ImporterInv => NoDuplicates
    BY DEF ImporterInv, JobsInv, NoDuplicates, OthersIdle, ImportSound
  <1> QED BY <1>1, <1>2, <1>3, PTL DEF Spec

-----------------------------------------------------------------------------
(* The tables and the published windows behave as MetricsTable says        *)

(* What a table that has not changed held still holds.                     *)
LEMMA SameRows ==
  ASSUME NEW d, rows'[d] = rows[d], api'[d].status = api[d].status
  PROVE  /\ \A s, e : Complete(d, s, e)' <=> Complete(d, s, e)
         /\ \A s : Anchored(d, s)' <=> Anchored(d, s)
         /\ \A st, s : Extends(d, st, s)' <=> Extends(d, st, s)
         /\ \A r : DoneSound(d, r)' <=> DoneSound(d, r)
         /\ StatusSound(d)' <=> StatusSound(d)
  <1>1. \A s, e : Complete(d, s, e)' <=> Complete(d, s, e)
    BY DEF Complete
  <1>2. \A s : Anchored(d, s)' <=> Anchored(d, s)
    BY DEF Anchored
  <1>3. \A s : CompleteFrom(d, s)' <=> CompleteFrom(d, s)
    BY <1>1 DEF CompleteFrom
  <1> QED BY <1>1, <1>2, <1>3 DEF Extends, DoneSound, StatusSound

(* Nothing else of d than its job and its importer has changed.            *)
LEMMA WindowFrame ==
  ASSUME NEW d, WindowSound(d), work'[<<"periodic", d>>] = work[<<"periodic", d>>],
         importers'[NameOf[d]] = importers[NameOf[d]], rows'[d] = rows[d], api'[d] = api[d]
  PROVE  WindowSound(d)'
  <1>1. api'[d].status = api[d].status
    OBVIOUS
  <1> QED BY <1>1, SameRows DEF WindowSound

(* The statuses of the others are left alone.                              *)
OnlyStatusOf(d) == \A e \in DataSources : e # d => api'[e] = api[e]

LEMMA OneWindow ==
  ASSUME PromiseInv, ImporterInv', Undisturbed, NEW d \in setup.sources, OnlyImportOf(d),
         OnlyStatusOf(d), WindowSound(d)'
  PROVE  PromiseInv'
  <1>1. ImporterInv /\ JobsInv /\ TypeOK
    BY DEF PromiseInv, ImporterInv, JobsInv
  <1>2. setup' = setup /\ now' = now /\ setup.sources \subseteq DataSources /\ d \in DataSources
    BY <1>1, SourcesAre DEF OnlyImportOf
  <1>3. ASSUME NEW e \in DataSources
        PROVE  IF e \in setup.sources THEN WindowSound(e)'
               ELSE rows'[e] = {} /\ api'[e].status = NoStatus
    <2>1. CASE e = d
      BY <2>1
    <2>2. CASE e # d
      <3>1. rows'[e] = rows[e] /\ api'[e] = api[e]
        BY <2>2 DEF OnlyImportOf, OnlyStatusOf
      <3>2. CASE e \in setup.sources
        <4>1. NameOf[e] \in Names /\ NameOf[e] # NameOf[d]
          BY <1>2, <2>2, <3>2, NamesAre DEF Undisturbed
        <4>2. <<"periodic", e>> \in Jobs /\ <<"periodic", e>> # <<"periodic", d>>
          BY <1>2, <2>2, JobsAre
        <4>3. /\ work'[<<"periodic", e>>] = work[<<"periodic", e>>]
              /\ importers'[NameOf[e]] = importers[NameOf[e]]
          BY <4>1, <4>2 DEF OnlyImportOf
        <4>4. WindowSound(e)
          BY <3>2 DEF PromiseInv
        <4> QED BY <3>1, <3>2, <4>3, <4>4, WindowFrame
      <3>3. CASE e \notin setup.sources
        <4>1. rows[e] = {} /\ api[e].status = NoStatus
          BY <3>3 DEF PromiseInv
        <4> QED BY <3>1, <3>3, <4>1
      <3> QED BY <3>2, <3>3
    <2> QED BY <2>1, <2>2
  <1>4. MaxBackfill <= now'
    BY <1>2 DEF PromiseInv
  <1> QED BY <1>2, <1>3, <1>4 DEF PromiseInv

LEMMA syncWindow ==
  ASSUME PromiseInv, Undisturbed, NEW d \in setup.sources, UNCHANGED setup,
         syncReportDataSource(d)
  PROVE  UNCHANGED <<rows, api>> /\ WindowSound(d)'
  <1>1. JobsInv /\ WindowSound(d) /\ d \in DataSources
    BY SourceIs DEF PromiseInv, ImporterInv
  <1> DEFINE j == <<"periodic", d>>
             n == NameOf[d]
  <1>2. /\ UNCHANGED <<api, rows>>
        /\ work[j].pc = "idle" /\ work'[j].pc \in {"createTable", "import"}
        /\ work'[j].done = Null
        /\ work'[j].pc = "import" => work'[j].status = cache[d].status
        /\ setup.laggy \/ cache[d] = api[d]
        /\ importers'[n].last \in {importers[n].last, Null}
    BY <1>1, SyncIs
  <1>3. ~setup.laggy
    BY DEF Undisturbed
  <1>4. importers[n].last # Null => Extends(d, api[d].status, importers[n].last + Minute)
    BY <1>1, <1>2 DEF WindowSound, Importing
  <1>5. /\ StatusSound(d)' <=> StatusSound(d)
        /\ \A st, s : Extends(d, st, s)' <=> Extends(d, st, s)
    BY <1>2, SameRows
  <1> QED BY <1>1, <1>2, <1>3, <1>4, <1>5 DEF WindowSound, Importing

(* A job that ends, and leaves its table and its status alone.             *)
LEMMA WindowAfterJob ==
  ASSUME JobsInv, NEW d \in setup.sources, WindowSound(d), rows'[d] = rows[d],
         api'[d].status = api[d].status, Goto(<<"periodic", d>>, NoWork),
         LET last == importers'[NameOf[d]].last
         IN  last # Null => Extends(d, api[d].status, last + Minute)
  PROVE  WindowSound(d)'
  <1> DEFINE j == <<"periodic", d>>
  <1>1. work'[j].pc = "idle"
    BY SourceIs, GotoIs, NoWorkTyped
  <1> HIDE DEF j
  <1>2. /\ StatusSound(d)' <=> StatusSound(d)
        /\ \A st, s : Extends(d, st, s)' <=> Extends(d, st, s)
    BY SameRows
  <1> QED BY <1>1, <1>2 DEF WindowSound, Importing, j

LEMMA createTableWindow ==
  ASSUME PromiseInv, Undisturbed, NEW d \in setup.sources, UNCHANGED setup, createTable(d)
  PROVE  /\ UNCHANGED rows /\ api'[d].status = api[d].status /\ OnlyStatusOf(d)
         /\ WindowSound(d)'
  <1>1. JobsInv /\ TypeOK /\ WindowSound(d) /\ d \in DataSources
    BY SourceIs DEF PromiseInv, ImporterInv, JobsInv
  <1>2. /\ UNCHANGED <<importers, rows>> /\ Goto(<<"periodic", d>>, NoWork)
        /\ work[<<"periodic", d>>].pc = "createTable"
        /\ api' = [api EXCEPT ![d] = [api[d] EXCEPT !.table = TRUE]]
    BY DEF createTable, memVars, tableVars, updateReportDataSource
  <1>3. api \in [DataSources -> DataSourceObject]
    BY <1>1 DEF TypeOK
  <1>4. api'[d] = [api[d] EXCEPT !.table = TRUE] /\ OnlyStatusOf(d)
    BY <1>1, <1>2, <1>3 DEF OnlyStatusOf
  <1>5. api[d] \in DataSourceObject
    BY <1>1, <1>3
  <1>6. api'[d].status = api[d].status
    BY <1>4, <1>5 DEF DataSourceObject
  <1>7. importers[NameOf[d]].last # Null =>
          Extends(d, api[d].status, importers[NameOf[d]].last + Minute)
    BY <1>1, <1>2 DEF WindowSound, Importing
  <1> QED BY <1>1, <1>2, <1>4, <1>6, <1>7, WindowAfterJob

(* The published times are times.                                          *)
LEMMA StatusTimes ==
  ASSUME JobsInv, NEW d \in setup.sources, StatusSound(d)
  PROVE  LET st == api[d].status
         IN  st.start # Null => st.start \in Int /\ st.end \in Int
  <1>1. TypeOK /\ d \in DataSources
    BY SourceIs DEF JobsInv
  <1>2. api[d].status.start \in OptTime /\ api[d].status.end \in OptTime
    BY <1>1 DEF TypeOK, DataSourceObject, ImportStatus
  <1> QED BY <1>2 DEF StatusSound, OptTime

(* Where an import learns how far the table has come, the window can be    *)
(* extended from there on.                                                 *)
LEMMA LastExtends ==
  ASSUME JobsInv, NEW d \in setup.sources, ImportSound(d), WindowSound(d),
         work[<<"periodic", d>>].pc = "import", LastOf(d) # Null
  PROVE  Extends(d, api[d].status, LastOf(d) + Minute)
  <1> DEFINE im == importers[NameOf[d]]
             st == api[d].status
             last == LastOf(d)
  <1>1. im.cfg # Null
    BY SourceIs DEF JobsInv, JobSound
  <1>2. CASE im.last # Null
    <2>1. last = im.last
      BY <1>2 DEF LastOf
    <2>2. Extends(d, st, im.last + Minute)
      BY <1>2 DEF WindowSound, Importing
    <2> QED BY <2>1, <2>2
  <1>3. CASE im.last = Null
    <2>1. last \in Int /\ Has(d, last) /\ \A x \in rows[d] : x.at <= last
      BY <1>1, <1>3, LastSound
    <2> HIDE DEF last, st
    <2>2. PICK y \in rows[d] : y.at = last
      BY <2>1 DEF Has
    <2>3. \A x \in rows[d] : x.at \in Nat
      BY SourceIs
    <2>4. CASE st.start = Null
      <3>1. Anchored(d, last + Minute)
        BY <2>1, <2>2, MinuteAssumption DEF Anchored
      <3> QED BY <2>4, <3>1 DEF Extends, st, last
    <2>5. CASE st.start # Null
      <3>1. CompleteFrom(d, st.start) /\ Anchored(d, st.start) /\ st.start \in Int
        BY <2>5, StatusTimes DEF WindowSound, StatusSound, st
      <3>2. PICK z \in rows[d] : st.start <= z.at + Minute
        BY <2>2, <3>1 DEF Anchored
      <3>3. st.start <= last + Minute
        BY <2>1, <2>3, <3>1, <3>2, MinuteAssumption
      <3>4. Complete(d, st.start, y.at) /\ y.at = (last + Minute) - Minute
        BY <2>1, <2>2, <3>1, MinuteAssumption DEF CompleteFrom
      <3> QED BY <2>5, <3>3, <3>4 DEF Extends, st, last
    <2> QED BY <2>4, <2>5
  <1> QED BY <1>2, <1>3

(* An instant before which nothing is asked for.                           *)
LEMMA NothingBefore ==
  ASSUME NEW d, NEW s \in Int
  PROVE  Complete(d, s, s - Minute)
  <1>1. \A x \in Present : ~(s <= x.at /\ x.at <= s - Minute)
    BY PresentTimes, MinuteAssumption
  <1> QED BY <1>1 DEF Complete

LEMMA ImportWindow ==
  ASSUME MinuteSteps, StartStays, PromiseInv, Undisturbed, NEW d \in setup.sources,
         UNCHANGED setup, ImportFromLastTimestamp(d)
  PROVE  UNCHANGED <<rows, api>> /\ WindowSound(d)'
  <1>1. JobsInv /\ ImportSound(d) /\ WindowSound(d) /\ d \in DataSources
    BY SourceIs DEF PromiseInv, ImporterInv
  <1> DEFINE j == <<"periodic", d>>
             n == NameOf[d]
             last == LastOf(d)
             start == importStartTime(last)
             st == api[d].status
             v == work'[j]
  <1>2. /\ UNCHANGED <<api, rows>>
        /\ work[j].pc = "import" /\ importers[n].cfg # Null /\ start \in Int
        /\ importers'[n].last = last
        /\ \/ v = NoWork
           \/ /\ v.pc = "query" /\ v.status = work[j].status /\ v.done = work[j].done
              /\ v.ranges # << >> /\ v.ranges = timeRangesBetween(start, now)
              /\ ContiguousFrom(v.ranges, truncateToSecond(start), now)
    BY <1>1, ImportIs
  <1>3. /\ last = Null => rows[d] = {}
        /\ last # Null => last \in Int /\ OnMinute(last)
    BY <1>1, <1>2, LastSound
  <1>4. last # Null => Extends(d, st, last + Minute)
    BY <1>1, <1>2, LastExtends
  <1>5. /\ StatusSound(d)' <=> StatusSound(d)
        /\ \A u, s : Extends(d, u, s)' <=> Extends(d, u, s)
    BY <1>2, SameRows
  <1> HIDE DEF last
  <1>6. CASE v = NoWork
    <2>1. work'[j].pc = "idle"
      BY <1>6, NoWorkTyped
    <2> QED BY <1>1, <1>2, <1>4, <1>5, <2>1 DEF WindowSound, Importing
  <1>7. CASE v # NoWork
    <2> DEFINE p == v.ranges[1].start
    <2>1. /\ v.pc = "query" /\ v.done = Null /\ v.status = st
          /\ p = truncateToSecond(start)
      BY <1>1, <1>2, <1>7 DEF ContiguousFrom, WindowSound
    <2>2. CASE last # Null
      <3>1. start = last + Minute
        BY <2>2 DEF importStartTime, MinuteSteps
      <3>2. last \in Int /\ OnMinute(last) /\ last + Minute \in Int
        BY <1>3, <2>2, MinuteAssumption
      <3>3. p = last + Minute
        BY <2>1, <3>1, <3>2, NextMinute, TruncateKeepsMinutes
      <3>4. Extends(d, st, p)
        BY <1>4, <2>2, <3>3
      <3> QED BY <1>1, <1>2, <1>5, <2>1, <3>4 DEF WindowSound, Importing
    <2>3. CASE last = Null
      <3>1. rows[d] = {} /\ start = firstStartTime
        BY <1>3, <2>3 DEF importStartTime
      <3>2. st.start # Null => ImportFromTime # Null /\ st.start = truncateToSecond(ImportFromTime)
        BY <1>1, <3>1 DEF WindowSound, StatusSound, Anchored
      <3>3. CASE ImportFromTime # Null
        <4>1. start = ImportFromTime
          BY <3>1, <3>3 DEF firstStartTime
        <4>2. p = truncateToSecond(ImportFromTime) /\ p \in Int
          BY <1>2, <2>1, <4>1, Truncated
        <4>3. st.start = Null => Anchored(d, p)
          BY <3>1, <3>3, <4>2 DEF Anchored
        <4>4. st.start # Null => st.start <= p /\ Complete(d, st.start, p - Minute)
          <5>1. Complete(d, p, p - Minute)
            BY <4>2, NothingBefore
          <5> HIDE DEF p, st
          <5> QED BY <3>2, <4>2, <5>1
        <4>5. Extends(d, st, p)
          BY <4>3, <4>4 DEF Extends
        <4> QED BY <1>1, <1>2, <1>5, <2>1, <2>3, <4>5 DEF WindowSound, Importing
      <3>4. CASE ImportFromTime = Null
        <4>1. start = now - MaxBackfill /\ now \in Nat /\ MaxBackfill <= now
          BY <1>1, <3>1, <3>4, SourceIs DEF firstStartTime, PromiseInv
        <4>2. v.ranges = timeRangesBetween(now - MaxBackfill, now) /\ v.ranges # << >>
          BY <1>2, <1>7, <4>1
        <4>3. SamplesOf(v.ranges[1]) # {}
          BY <3>4, <4>1, <4>2 DEF StartStays, BackfillsFindSamples
        <4>4. st.start = Null
          BY <3>2, <3>4
        <4> QED BY <1>1, <1>2, <1>5, <2>1, <2>3, <4>3, <4>4 DEF WindowSound, Importing
      <3> QED BY <3>3, <3>4
    <2> QED BY <2>2, <2>3
  <1> QED BY <1>6, <1>7

(* Where the job of d is about to deal with a range, d's window can be     *)
(* extended.                                                               *)
RangeExtends(d) ==
  LET w == work[<<"periodic", d>>]
      r == w.ranges[1]
      begin == IF w.done = Null THEN r.start ELSE w.done.start
      st == api[d].status
  IN  /\ r \in Window /\ r.start \in Int /\ r.end \in Int /\ r.start < r.end
      /\ OnMinute(r.start)
      /\ begin \in Int /\ begin <= r.start /\ Complete(d, begin, r.start - Minute)
      /\ st.start = Null => Anchored(d, begin) \/ SamplesOf(r) # {}
      /\ st.start # Null =>
           /\ st.start \in Int /\ st.start <= begin
           /\ Complete(d, st.start, r.start - Minute)

LEMMA ImportExtends ==
  ASSUME PromiseInv, Undisturbed, NEW d \in setup.sources,
         work[<<"periodic", d>>].pc \in Importing
  PROVE  RangeExtends(d)
  <1> DEFINE w == work[<<"periodic", d>>]
             r == w.ranges[1]
             st == api[d].status
  <1>1. JobsInv /\ ImportSound(d) /\ WindowSound(d) /\ d \in DataSources
        /\ <<"periodic", d>> \in Jobs
    BY SourceIs DEF PromiseInv, ImporterInv
  <1>2. w.ranges # << >> /\ Contiguous(w.ranges, now)
    BY <1>1 DEF ImportSound, JobsInv, JobSound
  <1>3. r \in Window /\ r.start \in Int /\ r.end \in Int /\ r.start < r.end /\ OnMinute(r.start)
    BY <1>2, ContiguousTail
  <1>4. IF w.done = Null
        THEN Extends(d, st, r.start) \/ (st.start = Null /\ SamplesOf(r) # {})
        ELSE DoneSound(d, w.done) /\ w.done.end + Minute = r.start
    BY <1>1 DEF WindowSound
  <1>5. st.start # Null => st.start \in Int
    BY <1>1, StatusTimes DEF WindowSound
  <1>6. CASE w.done = Null
    <2>1. Complete(d, r.start, r.start - Minute)
      BY <1>3, NothingBefore
    <2> HIDE DEF r, w, st
    <2>2. /\ st.start = Null => Anchored(d, r.start) \/ SamplesOf(r) # {}
          /\ st.start # Null => st.start <= r.start /\ Complete(d, st.start, r.start - Minute)
      BY <1>4, <1>6 DEF Extends
    <2> QED BY <1>3, <1>5, <1>6, <2>1, <2>2 DEF RangeExtends, r, w, st
  <1>7. CASE w.done # Null
    <2> DEFINE f == w.done
    <2>1. DoneSound(d, f) /\ f.end + Minute = r.start
      BY <1>4, <1>7
    <2> HIDE DEF r, f, st
    <2>2. /\ f.start \in Int /\ f.end \in Int /\ f.start <= f.end
          /\ Complete(d, f.start, f.end)
          /\ st.start = Null => Anchored(d, f.start)
          /\ st.start # Null => st.start <= f.start /\ Complete(d, st.start, f.end)
      BY <2>1 DEF DoneSound, Window, st
    <2>3. f.end = r.start - Minute /\ f.start <= r.start
      BY <1>3, <2>1, <2>2, MinuteAssumption
    <2>4. Complete(d, f.start, r.start - Minute)
          /\ (st.start # Null => Complete(d, st.start, r.start - Minute))
      BY <2>2, <2>3
    <2> QED BY <1>3, <1>5, <1>7, <2>2, <2>3, <2>4 DEF RangeExtends, r, f, st
  <1> QED BY <1>6, <1>7

(***************************************************************************)
(* With all samples of its range r stored, an import of d has done what it *)
(* has to up to the end of r, and the published window st is sound.        *)
(***************************************************************************)
LEMMA RangeStored ==
  ASSUME MinuteSteps, SamplesAtMinutes, NEW d, RangeExtends(d), StatusSound(d),
         NEW st, st = api[d].status, st = api'[d].status,
         NEW r, r = work[<<"periodic", d>>].ranges[1],
         rows'[d] = rows[d] \cup SamplesOf(r), NEW f \in Window, f.end = r.end,
         f.start = IF work[<<"periodic", d>>].done = Null THEN r.start
                   ELSE work[<<"periodic", d>>].done.start
  PROVE  StatusSound(d)' /\ DoneSound(d, f)'
  <1>1. /\ r \in Window /\ r.start \in Int /\ r.end \in Int /\ r.start < r.end
        /\ OnMinute(r.start)
        /\ f.start \in Int /\ f.start <= r.start /\ Complete(d, f.start, r.start - Minute)
        /\ st.start = Null => Anchored(d, f.start) \/ SamplesOf(r) # {}
        /\ st.start # Null => /\ st.start \in Int /\ st.start <= f.start
                              /\ Complete(d, st.start, r.start - Minute)
    BY DEF RangeExtends
  <1>2. rows'[d] = rows[d] \cup SamplesOf(r)
    OBVIOUS
  <1>3. \A x \in Present : x.at \in Int /\ OnMinute(x.at)
    BY PresentTimes DEF SamplesAtMinutes
  <1>4. \A x \in Present : r.start <= x.at /\ x.at <= r.end => x \in rows'[d]
    BY <1>1, <1>2, <1>3, SamplesAre
  <1>5. \A x \in Present : x.at < r.start => x.at <= r.start - Minute
    BY <1>1, <1>3, MinutesApart, MinuteAssumption
  <1>6. \A s, e : Complete(d, s, e) => Complete(d, s, e)'
    BY <1>2 DEF Complete
  <1>7. ASSUME NEW s \in Int, Complete(d, s, r.start - Minute)
        PROVE  Complete(d, s, r.end)'
    <2>1. ASSUME NEW x \in Present, s <= x.at, x.at <= r.end
          PROVE  x \in rows'[d]
      <3>1. CASE r.start <= x.at
        BY <1>4, <2>1, <3>1
      <3>2. CASE x.at < r.start
        BY <1>2, <1>5, <1>7, <2>1, <3>2 DEF Complete
      <3> QED BY <1>1, <1>3, <3>1, <3>2
    <2> QED BY <2>1 DEF Complete
  <1>8. ASSUME NEW s \in Int, s <= r.start, Anchored(d, s) \/ SamplesOf(r) # {}
        PROVE  Anchored(d, s)'
    <2>1. CASE SamplesOf(r) # {}
      <3>1. PICK y \in SamplesOf(r) : TRUE
        BY <2>1
      <3>2. y \in Present /\ r.start <= y.at
        BY <1>1, <3>1, SamplesAre DEF SamplesOf
      <3>3. s <= y.at + Minute /\ y \in rows'[d]
        BY <1>1, <1>2, <1>3, <1>8, <3>1, <3>2, MinuteAssumption
      <3> QED BY <3>3 DEF Anchored
    <2>2. CASE SamplesOf(r) = {}
      <3>1. rows'[d] = rows[d] /\ Anchored(d, s)
        BY <1>2, <1>8, <2>2
      <3> QED BY <3>1 DEF Anchored
    <2> QED BY <2>1, <2>2
  <1>9. DoneSound(d, f)'
    <2>1. Complete(d, f.start, f.end)' /\ f.start <= f.end
      <3>1. Complete(d, f.start, r.end)'
        BY <1>1, <1>7
      <3> QED BY <1>1, <3>1
    <2>2. st.start = Null => Anchored(d, f.start)'
      BY <1>1, <1>8
    <2>3. st.start # Null => st.start <= f.start /\ Complete(d, st.start, f.end)'
      BY <1>1, <1>7
    <2> QED BY <2>1, <2>2, <2>3 DEF DoneSound
  <1>10. StatusSound(d)'
    <2>1. CASE st.start = Null
      BY <2>1 DEF StatusSound
    <2>2. CASE st.start # Null
      <3>1. /\ st.end # Null /\ st.start <= st.end
            /\ Complete(d, st.start, st.end)
            /\ CompleteFrom(d, st.start) /\ Anchored(d, st.start)
        BY <2>2 DEF StatusSound
      <3>2. Complete(d, st.start, st.end)'
        BY <1>6, <3>1
      <3>3. Complete(d, st.start, r.end)'
        BY <1>1, <1>7, <2>2
      <3>4. Anchored(d, st.start)'
        <4>1. st.start \in Int /\ st.start <= r.start
          BY <1>1, <2>2
        <4> QED BY <1>8, <3>1, <4>1
      <3>5. CompleteFrom(d, st.start)'
        <4>1. ASSUME NEW y \in rows'[d]
              PROVE  Complete(d, st.start, y.at)'
          <5>1. CASE y \in rows[d]
            <6>1. Complete(d, st.start, y.at)
              BY <3>1, <5>1 DEF CompleteFrom
            <6> QED BY <1>6, <6>1
          <5>2. CASE y \in SamplesOf(r)
            <6>1. y.at <= r.end /\ y.at \in Int
              BY <1>1, <1>3, <5>2, SamplesAre DEF SamplesOf
            <6>2. \A x \in Present : x.at <= y.at => x.at <= r.end
              BY <1>1, <1>3, <6>1
            <6> QED BY <3>3, <6>2 DEF Complete
          <5> QED BY <1>2, <5>1, <5>2
        <4> QED BY <4>1 DEF CompleteFrom
      <3> QED BY <3>1, <3>2, <3>4, <3>5 DEF StatusSound
    <2> QED BY <2>1, <2>2
  <1> QED BY <1>9, <1>10

(* The next range of the job v of d, once its range r has been dealt with. *)
LEMMA WindowAfterRange ==
  ASSUME MinuteSteps, SamplesAtMinutes, PromiseInv, Undisturbed, NEW d \in setup.sources,
         work[<<"periodic", d>>].pc \in Importing, UNCHANGED <<api, importers>>,
         rows'[d] = rows[d] \cup SamplesOf(work[<<"periodic", d>>].ranges[1]),
         RangeOver(work'[<<"periodic", d>>], work[<<"periodic", d>>], d)
  PROVE  WindowSound(d)'
  <1> DEFINE j == <<"periodic", d>>
             w == work[j]
             r == w.ranges[1]
             v == work'[j]
             st == api[d].status
  <1>1. JobsInv /\ ImportSound(d) /\ WindowSound(d) /\ d \in DataSources /\ j \in Jobs
        /\ rows[d] \subseteq Present
    BY SourceIs DEF PromiseInv, ImporterInv
  <1>2. w.ranges # << >> /\ Contiguous(w.ranges, now)
    BY <1>1 DEF ImportSound, JobsInv, JobSound
  <1>3. PICK u \in Work : /\ v = rangeProcessed(u)
                          /\ u.ranges = w.ranges /\ u.table = d
                          /\ u.done = w.done /\ u.status = w.status
    BY DEF RangeOver
  <1>4. u.ranges # << >> /\ Contiguous(u.ranges, now)
    BY <1>2, <1>3
  <1>5. /\ v.status = w.status /\ v.ranges = Tail(w.ranges)
        /\ v.done \in Window /\ v.done.end = r.end
        /\ v.done.start = IF w.done = Null THEN r.start ELSE w.done.start
        /\ v.pc = IF Len(w.ranges) = 1 THEN "endImport" ELSE "query"
        /\ v.pc = "query" => v.ranges # << >>
    BY <1>3, <1>4, RangeProcessed
  <1>6. v.pc = "query" => v.ranges[1].start = r.end + Minute
    BY <1>2, <1>5, ContiguousTail
  <1>7. RangeExtends(d) /\ StatusSound(d)
    BY <1>1, ImportExtends DEF WindowSound
  <1>8. ASSUME NEW f, f = v.done
        PROVE  StatusSound(d)' /\ DoneSound(d, f)'
    <2>1. PICK x : x = r
      OBVIOUS
    <2>2. PICK y : y = st
      OBVIOUS
    <2>3. api'[d].status = y /\ f \in Window /\ f.end = x.end
          /\ f.start = IF w.done = Null THEN x.start ELSE w.done.start
      BY <1>5, <1>8, <2>1, <2>2
    <2> QED BY <1>7, <2>1, <2>2, <2>3, RangeStored
  <1>9. StatusSound(d)' /\ DoneSound(d, work[j].done)'
    BY <1>8
  <1>10. w.status = st /\ v.done # Null
    BY <1>1, <1>5, ImporterAssumption DEF WindowSound, Importing
  <1>11. /\ v.status = api'[d].status /\ v.pc \in {"endImport", "query"}
         /\ v.pc = "query" => v.done.end + Minute = v.ranges[1].start
    BY <1>5, <1>6, <1>10
  <1> HIDE DEF w, r, st
  <1> QED BY <1>9, <1>10, <1>11 DEF WindowSound, Importing

LEMMA queryWindow ==
  ASSUME MinuteSteps, SamplesAtMinutes, PromiseInv, Undisturbed, NEW d \in setup.sources,
         UNCHANGED setup, queryPrometheus(<<"periodic", d>>)
  PROVE  UNCHANGED <<rows, api>> /\ WindowSound(d)'
  <1> DEFINE j == <<"periodic", d>>
             w == work[j]
             v == work'[j]
  <1>1. JobsInv /\ ImportSound(d) /\ WindowSound(d) /\ d \in DataSources
    BY SourceIs DEF PromiseInv, ImporterInv
  <1>2. /\ UNCHANGED <<api, importers, rows>>
        /\ w.pc = "query" /\ w \in Work /\ w.table = d
        /\ \/ SamplesOf(w.ranges[1]) = {} /\ v = rangeProcessed(w)
           \/ /\ v.pc = "store"
              /\ v.ranges = w.ranges /\ v.done = w.done /\ v.status = w.status
    BY <1>1, QueryIs
  <1>3. CASE SamplesOf(w.ranges[1]) = {} /\ v = rangeProcessed(w)
    <2>1. RangeOver(v, w, d)
      BY <1>2, <1>3 DEF RangeOver
    <2>2. rows'[d] = rows[d] \cup SamplesOf(w.ranges[1]) /\ w.pc \in Importing
      BY <1>2, <1>3 DEF Importing
    <2> QED BY <1>2, <2>1, <2>2, WindowAfterRange
  <1>4. CASE v.pc = "store" /\ v.ranges = w.ranges /\ v.done = w.done /\ v.status = w.status
    <2>1. /\ StatusSound(d)' <=> StatusSound(d)
          /\ \A st, s : Extends(d, st, s)' <=> Extends(d, st, s)
          /\ \A r : DoneSound(d, r)' <=> DoneSound(d, r)
      BY <1>2, SameRows
    <2> QED BY <1>1, <1>2, <1>4, <2>1 DEF WindowSound, Importing
  <1> QED BY <1>2, <1>3, <1>4

LEMMA storeWindow ==
  ASSUME MinuteSteps, SamplesAtMinutes, PromiseInv, Undisturbed, NEW d \in setup.sources,
         UNCHANGED setup, StorePrometheusMetrics(<<"periodic", d>>)
  PROVE  UNCHANGED api /\ WindowSound(d)'
  <1> DEFINE w == work[<<"periodic", d>>]
  <1>1. JobsInv /\ ImportSound(d)
    BY DEF PromiseInv, ImporterInv
  <1>2. /\ UNCHANGED <<api, importers>> /\ w.pc = "store"
        /\ rows'[d] = rows[d] \cup SamplesOf(w.ranges[1])
        /\ RangeOver(work'[<<"periodic", d>>], w, d)
    BY <1>1, StoreIs
  <1> QED BY <1>2, WindowAfterRange DEF Importing

LEMMA endImportWindow ==
  ASSUME PromiseInv, Undisturbed, NEW d \in setup.sources, UNCHANGED setup,
         endImport(<<"periodic", d>>)
  PROVE  UNCHANGED <<rows, api>> /\ WindowSound(d)'
  <1> DEFINE j == <<"periodic", d>>
             w == work[j]
             v == work'[j]
  <1>1. JobsInv /\ WindowSound(d) /\ d \in DataSources
    BY SourceIs DEF PromiseInv, ImporterInv
  <1>2. /\ UNCHANGED <<api, rows>> /\ w.pc = "endImport" /\ v.pc = "putStatus"
        /\ v.done = w.done /\ v.status = w.status /\ importers'[NameOf[d]].last = w.done.end
    BY <1>1, EndIs
  <1>3. /\ StatusSound(d)' <=> StatusSound(d)
        /\ \A r : DoneSound(d, r)' <=> DoneSound(d, r)
    BY <1>2, SameRows
  <1> QED BY <1>1, <1>2, <1>3 DEF WindowSound, Importing

(* What an import of d has done, seen from its next import.                *)
LEMMA DoneExtends ==
  ASSUME NEW d, NEW st, NEW f \in Window, f.start <= f.end, st.start \in Int,
         st.start <= f.start, Complete(d, st.start, f.end)
  PROVE  Extends(d, st, f.end + Minute)
  <1>1. f.start \in Int /\ f.end \in Int
    BY DEF Window
  <1>2. st.start <= f.end + Minute /\ (f.end + Minute) - Minute = f.end
    BY <1>1, MinuteAssumption
  <1>3. st.start # Null
    BY ImporterAssumption
  <1> QED BY <1>2, <1>3 DEF Extends

(***************************************************************************)
(* The status an import publishes keeps the start of the window and moves  *)
(* its end to a later minute up to which the samples are stored.           *)
(***************************************************************************)
LEMMA Published ==
  ASSUME PromiseInv, Undisturbed, NEW d \in setup.sources,
         work[<<"periodic", d>>].pc = "putStatus"
  PROVE  LET w  == work[<<"periodic", d>>]
             st == api[d].status
             s  == newImportStatus(w)
         IN  /\ s.start \in Int /\ s.end \in Int /\ s.start <= s.end
             /\ Complete(d, s.start, s.end) /\ CompleteFrom(d, s.start) /\ Anchored(d, s.start)
             /\ st.start # Null => s.start = st.start /\ st.end <= s.end
             /\ Extends(d, s, w.done.end + Minute)
             /\ st.start # Null => Extends(d, st, w.done.end + Minute)
  <1> DEFINE w == work[<<"periodic", d>>]
             st == api[d].status
             s == newImportStatus(w)
             f == w.done
  <1>1. JobsInv /\ ImportSound(d) /\ WindowSound(d) /\ d \in DataSources
        /\ \A x \in rows[d] : x.at \in Nat
    BY SourceIs DEF PromiseInv, ImporterInv
  <1>2. w.status = st /\ DoneSound(d, f) /\ StatusSound(d)
    BY <1>1 DEF WindowSound
  <1>3. \A x \in rows[d] : x.at <= f.end
    BY <1>1 DEF ImportSound
  <1>4. st.start # Null => st.start \in Int /\ st.end \in Int
    BY <1>1, <1>2, StatusTimes
  <1>5. /\ s.start = IF Earlier(f.start, st.start) THEN f.start ELSE st.start
        /\ s.end = IF Later(f.end, st.end) THEN f.end ELSE st.end
    BY <1>2 DEF newImportStatus
  <1> HIDE DEF f, s
  <1>6. /\ f \in Window /\ f.start \in Int /\ f.end \in Int /\ f.start <= f.end
        /\ Complete(d, f.start, f.end)
        /\ st.start = Null => Anchored(d, f.start)
        /\ st.start # Null => st.start <= f.start /\ Complete(d, st.start, f.end)
    BY <1>2 DEF DoneSound, Window
  <1>7. CASE st.start = Null
    <2>1. st.end = Null
      BY <1>2, <1>7 DEF StatusSound
    <2>2. s.start = f.start /\ s.end = f.end
      BY <1>5, <1>7, <2>1 DEF Earlier, Later
    <2>3. CompleteFrom(d, f.start)
      <3>1. \A x \in Present, y \in rows[d] : x.at <= y.at => x.at <= f.end
        BY <1>1, <1>3, <1>6, PresentTimes
      <3> QED BY <1>6, <3>1 DEF CompleteFrom, Complete
    <2>4. Extends(d, s, f.end + Minute)
      <3>1. Complete(d, s.start, f.end) /\ s.start \in Int /\ s.start <= f.start
        BY <1>6, <2>2
      <3> QED BY <1>6, <3>1, DoneExtends
    <2> QED BY <1>6, <1>7, <2>2, <2>3, <2>4 DEF s, f
  <1>8. CASE st.start # Null
    <2>1. /\ st.start \in Int /\ st.end \in Int /\ st.start <= st.end
          /\ Complete(d, st.start, st.end)
          /\ CompleteFrom(d, st.start) /\ Anchored(d, st.start)
      BY <1>2, <1>4, <1>8 DEF StatusSound
    <2>2. st.end # Null
      BY <2>1, ImporterAssumption
    <2> HIDE DEF st
    <2>3. s.start = st.start /\ s.end = IF f.end > st.end THEN f.end ELSE st.end
      BY <1>5, <1>6, <1>8, <2>1, <2>2 DEF Earlier, Later
    <2>4. s.end \in {f.end, st.end} /\ s.end \in Int /\ st.end <= s.end /\ st.start <= s.end
      BY <1>6, <2>1, <2>3
    <2>5. Complete(d, s.start, s.end)
      BY <1>6, <1>8, <2>1, <2>3, <2>4
    <2>6. Extends(d, s, f.end + Minute) /\ Extends(d, st, f.end + Minute)
      BY <1>6, <1>8, <2>1, <2>3, DoneExtends
    <2> QED BY <1>8, <2>1, <2>3, <2>4, <2>5, <2>6 DEF s, f, st
  <1> QED BY <1>7, <1>8

(* What putImportStatus does to the status of d.                           *)
LEMMA PutIs ==
  ASSUME JobsInv, NEW d \in setup.sources, UNCHANGED setup, putImportStatus(d)
  PROVE  LET w == work[<<"periodic", d>>]
         IN  /\ UNCHANGED <<importers, rows>> /\ Goto(<<"periodic", d>>, NoWork)
             /\ w.pc = "putStatus" /\ OnlyStatusOf(d)
             /\ \/ api'[d] = api[d] /\ w.status.earliest # Null
                \/ api'[d].status = newImportStatus(w)
  <1> DEFINE w == work[<<"periodic", d>>]
             new == [api[d] EXCEPT !.status = newImportStatus(w)]
  <1>1. TypeOK /\ d \in DataSources
    BY SourceIs DEF JobsInv
  <1>2. /\ UNCHANGED <<importers, rows>> /\ Goto(<<"periodic", d>>, NoWork)
        /\ w.pc = "putStatus"
        /\ \/ api' = api /\ w.status.earliest # Null
           \/ api' = [api EXCEPT ![d] = new]
    BY DEF putImportStatus, memVars, tableVars, updateReportDataSource, olderDataImported
  <1>3. api \in [DataSources -> DataSourceObject] /\ api[d] \in DataSourceObject
    BY <1>1 DEF TypeOK
  <1>4. new.status = newImportStatus(w)
    BY <1>3 DEF DataSourceObject
  <1> HIDE DEF new
  <1>5. /\ OnlyStatusOf(d)
        /\ \/ api'[d] = api[d] /\ w.status.earliest # Null
           \/ api'[d] = new
    BY <1>1, <1>2, <1>3 DEF OnlyStatusOf
  <1> QED BY <1>2, <1>4, <1>5

LEMMA putImportStatusWindow ==
  ASSUME PromiseInv, Undisturbed, NEW d \in setup.sources, UNCHANGED setup, putImportStatus(d)
  PROVE  UNCHANGED rows /\ OnlyStatusOf(d) /\ WindowSound(d)'
  <1> DEFINE w == work[<<"periodic", d>>]
             s == newImportStatus(w)
             n == NameOf[d]
  <1>1. JobsInv /\ WindowSound(d) /\ d \in DataSources /\ <<"periodic", d>> \in Jobs
    BY SourceIs DEF PromiseInv, ImporterInv
  <1>2. /\ UNCHANGED <<importers, rows>> /\ Goto(<<"periodic", d>>, NoWork)
        /\ w.pc = "putStatus" /\ OnlyStatusOf(d)
        /\ \/ api'[d] = api[d] /\ w.status.earliest # Null
           \/ api'[d].status = s
    BY <1>1, PutIs
  <1>3. importers[n].last = w.done.end /\ w.status = api[d].status /\ StatusSound(d)
    BY <1>1, <1>2 DEF WindowSound
  <1>4. CASE api'[d] = api[d] /\ w.status.earliest # Null
    <2>1. api[d].status.start # Null
      BY <1>3, <1>4 DEF StatusSound
    <2>2. Extends(d, api[d].status, importers[n].last + Minute)
      BY <1>2, <1>3, <2>1, Published
    <2>3. importers'[n].last = importers[n].last /\ rows'[d] = rows[d]
          /\ api'[d].status = api[d].status
      BY <1>2, <1>4
    <2> QED BY <1>1, <1>2, <2>2, <2>3, WindowAfterJob
  <1>5. CASE api'[d].status = s
    <2>1. /\ s.start \in Int /\ s.end \in Int /\ s.start <= s.end
          /\ Complete(d, s.start, s.end) /\ CompleteFrom(d, s.start) /\ Anchored(d, s.start)
          /\ Extends(d, s, importers[n].last + Minute)
      BY <1>2, <1>3, Published
    <2>2. s.start # Null /\ s.end # Null
      BY <2>1, ImporterAssumption
    <2>3. work'[<<"periodic", d>>].pc = "idle"
      BY <1>1, <1>2, GotoIs, NoWorkTyped
    <2> HIDE DEF s
    <2>4. \A a, e : Complete(d, a, e)' <=> Complete(d, a, e)
      BY <1>2 DEF Complete
    <2>5. \A a : Anchored(d, a)' <=> Anchored(d, a)
      BY <1>2 DEF Anchored
    <2>6. \A a : CompleteFrom(d, a)' <=> CompleteFrom(d, a)
      BY <1>2, <2>4 DEF CompleteFrom
    <2>7. \A st, a : Extends(d, st, a)' <=> Extends(d, st, a)
      BY <2>4, <2>5 DEF Extends
    <2>8. StatusSound(d)'
      BY <1>5, <2>1, <2>2, <2>4, <2>5, <2>6 DEF StatusSound
    <2>9. importers'[n].last # Null => Extends(d, api[d].status, importers[n].last + Minute)'
      BY <1>2, <1>5, <2>1, <2>7
    <2> QED BY <1>2, <2>3, <2>8, <2>9 DEF WindowSound, Importing
  <1> QED BY <1>2, <1>4, <1>5

LEMMA faultWindow ==
  ASSUME MinuteSteps, SamplesAtMinutes, PromiseInv, Undisturbed, NEW d \in setup.sources,
         UNCHANGED setup, callFails(<<"periodic", d>>) \/ insertSeemsToFail(<<"periodic", d>>)
  PROVE  UNCHANGED api /\ WindowSound(d)'
  <1> DEFINE j == <<"periodic", d>>
             n == NameOf[d]
             st == api[d].status
  <1>1. JobsInv /\ ImportSound(d) /\ WindowSound(d)
    BY SourceIs DEF PromiseInv, ImporterInv
  <1>2. d \in DataSources /\ j \in Jobs /\ n \in Names /\ j[1] = "periodic" /\ j[2] = d
        /\ rows[d] \subseteq Present
    BY <1>1, SourceIs
  <1>3. Fault /\ abortJob(j) /\ UNCHANGED api
        /\ work[j].pc \in {"createTable", "import", "query", "store"}
    BY DEF callFails, insertSeemsToFail
  <1>4. /\ Goto(j, NoWork)
        /\ \/ importers'[n] = importers[n] /\ work[j].pc \notin {"query", "store"}
           \/ importers'[n].last = Null
    BY <1>1, <1>2, <1>3, Aborted
  <1>5. CASE callFails(j)
    <2>1. UNCHANGED rows
      BY <1>5 DEF callFails, tableVars
    <2>2. importers'[n].last # Null => Extends(d, st, importers'[n].last + Minute)
      BY <1>1, <1>3, <1>4 DEF WindowSound, Importing
    <2> QED BY <1>1, <1>2, <1>3, <1>4, <2>1, <2>2, WindowAfterJob
  <1>6. CASE insertSeemsToFail(j)
    <2>1. work[j].pc = "store"
      BY <1>6 DEF insertSeemsToFail
    <2>2. PICK B \in Batches(work[j].pending) : Insert(work[j].table, B)
      BY <1>6 DEF insertSeemsToFail
    <2>3. rows'[d] = rows[d] \cup SamplesOf(work[j].ranges[1])
      BY <1>1, <2>1, <2>2, InsertIs
    <2>4. importers'[n].last = Null
      BY <1>4, <2>1
    <2>5. work'[j].pc = "idle"
      BY <1>1, <1>2, <1>4, GotoIs, NoWorkTyped
    <2>6. RangeExtends(d) /\ StatusSound(d)
      BY <1>1, <2>1, ImportExtends DEF WindowSound, Importing
    <2>7. StatusSound(d)'
      <3> DEFINE w == work[j]
                 b == IF w.done = Null THEN w.ranges[1].start ELSE w.done.start
      <3>1. PICK r : r = w.ranges[1]
        OBVIOUS
      <3>2. PICK y : y = st
        OBVIOUS
      <3>3. PICK f : f = [start |-> b, end |-> r.end]
        OBVIOUS
      <3>4. b \in Int /\ r.end \in Int
        BY <2>6, <3>1 DEF RangeExtends
      <3>5. f \in Window /\ f.end = r.end
            /\ f.start = IF w.done = Null THEN r.start ELSE w.done.start
        BY <3>1, <3>3, <3>4 DEF Window
      <3> QED BY <1>3, <2>3, <2>6, <3>1, <3>2, <3>5, RangeStored
    <2> QED BY <1>3, <2>4, <2>5, <2>7 DEF WindowSound, Importing
  <1> QED BY <1>5, <1>6

LEMMA restartWindow ==
  ASSUME PromiseInv, ImporterInv', Undisturbed, UNCHANGED setup, restart
  PROVE  PromiseInv'
  <1>1. setup.sources \subseteq DataSources
    BY SourcesAre DEF PromiseInv, ImporterInv, JobsInv
  <1>2. /\ \A n \in Names : importers'[n] = NoImporter
        /\ \A j \in Jobs : work'[j] = NoWork
        /\ UNCHANGED <<now, api, rows>>
    BY DEF restart, tableVars
  <1>3. ASSUME NEW e \in setup.sources
        PROVE  WindowSound(e)'
    <2>1. importers'[NameOf[e]].last = Null
      BY <1>1, <1>2, NamesAre DEF NoImporter
    <2>2. work'[<<"periodic", e>>].pc = "idle"
      BY <1>1, <1>2, JobsAre, NoWorkTyped
    <2>3. WindowSound(e)
      BY <1>1 DEF PromiseInv
    <2>4. StatusSound(e)' <=> StatusSound(e)
      BY <1>2, SameRows
    <2> QED BY <1>2, <2>1, <2>2, <2>3, <2>4 DEF WindowSound, Importing
  <1> QED BY <1>2, <1>3 DEF PromiseInv

(* The clock never goes back.                                              *)
LEMMA ClockBound ==
  ASSUME TypeOK, MaxBackfill <= now, [Next]_<<vars, setup>>
  PROVE  MaxBackfill <= now'
  <1>1. now \in Nat /\ MaxBackfill \in Nat
    BY ImporterAssumption DEF TypeOK
  <1>2. now' = now \/ now' = now + 1
    BY DEF Next, vars, deliver, resync, fireDelayed, syncReportDataSource, createTable,
           ImportFromLastTimestamp, putImportStatus, recreateDataSource,
           importPrometheusForTimeRange, step, queryPrometheus, StorePrometheusMetrics,
           endImport, callFails, insertSeemsToFail, restart, tick
  <1> QED BY <1>1, <1>2

(***************************************************************************)
(* What a step of the importer is to the Reports: nothing, some samples    *)
(* stored that are newer than what was there, or a status published.       *)
(***************************************************************************)
QuietFor == UNCHANGED rows /\ \A d \in DataSources : api'[d].status = api[d].status

StoresFor(d) ==
  /\ UNCHANGED api /\ rows' = [rows EXCEPT ![d] = rows'[d]]
  /\ rows[d] # rows'[d] /\ rows[d] \subseteq rows'[d] /\ rows'[d] \subseteq Present
  /\ \A old \in rows[d], new \in rows'[d] \ rows[d] : old.at < new.at

PublishesFor(d) ==
  LET st == api[d].status
      s  == api'[d].status
  IN  /\ UNCHANGED rows /\ OnlyStatusOf(d)
      /\ s.start \in Int /\ s.end \in Int /\ s.start <= s.end
      /\ st.start # Null => s.start = st.start /\ st.end <= s.end
      /\ \A x \in Present : s.start <= x.at /\ x.at <= s.end => x \in rows[d]

LEMMA InsertStores ==
  ASSUME MinuteSteps, PromiseInv, PromiseInv', Undisturbed, NEW d \in setup.sources,
         UNCHANGED <<api, setup>>,
         work[<<"periodic", d>>].pc = "store",
         NEW B \in Batches(work[<<"periodic", d>>].pending),
         Insert(work[<<"periodic", d>>].table, B)
  PROVE  StoresFor(d)
  <1> DEFINE r == work[<<"periodic", d>>].ranges[1]
  <1>1. JobsInv /\ ImportSound(d) /\ d \in DataSources /\ \A x \in rows[d] : x.at \in Nat
    BY SourceIs DEF PromiseInv, ImporterInv
  <1>2. /\ B # {} /\ B \subseteq Present /\ rows'[d] = rows[d] \cup B
        /\ rows'[d] \subseteq Present
        /\ work[<<"periodic", d>>].ranges # << >>
        /\ Contiguous(work[<<"periodic", d>>].ranges, now)
        /\ \A x \in rows[d] : x.at < r.start
        /\ \A x \in B : r.start <= x.at
        /\ \A e \in DataSources : e # d => rows'[e] = rows[e] /\ twice'[e] = twice[e]
    BY <1>1, InsertIs
  <1>3. r.start \in Int /\ \A x \in B : x.at \in Nat
    BY <1>2, ContiguousTail, PresentTimes
  <1> HIDE DEF r
  <1>4. \A old \in rows[d], new \in B : old.at < new.at
    BY <1>1, <1>2, <1>3
  <1>5. rows[d] # rows'[d]
    <2>1. PICK x \in B : TRUE
      BY <1>2
    <2>2. x \notin rows[d]
      BY <1>1, <1>4, <2>1
    <2> QED BY <1>2, <2>1, <2>2
  <1>6. rows' = [rows EXCEPT ![d] = rows'[d]]
    <2>1. /\ rows \in [DataSources -> SUBSET Present]
          /\ rows' \in [DataSources -> SUBSET Present]
      BY DEF PromiseInv, ImporterInv, JobsInv, TypeOK
    <2> QED BY <1>1, <1>2, <2>1
  <1> QED BY <1>2, <1>4, <1>5, <1>6 DEF StoresFor

LEMMA PutPublishes ==
  ASSUME PromiseInv, Undisturbed, NEW d \in setup.sources, UNCHANGED setup, putImportStatus(d)
  PROVE  QuietFor \/ PublishesFor(d)
  <1> DEFINE w == work[<<"periodic", d>>]
             s == newImportStatus(w)
  <1>1. JobsInv /\ d \in DataSources
    BY SourceIs DEF PromiseInv, ImporterInv
  <1>2. /\ UNCHANGED rows /\ w.pc = "putStatus" /\ OnlyStatusOf(d)
        /\ api'[d] = api[d] \/ api'[d].status = s
    BY <1>1, PutIs
  <1>3. CASE api'[d] = api[d]
    BY <1>2, <1>3 DEF QuietFor, OnlyStatusOf
  <1>4. CASE api'[d].status = s
    <2>1. /\ s.start \in Int /\ s.end \in Int /\ s.start <= s.end
          /\ Complete(d, s.start, s.end)
          /\ api[d].status.start # Null =>
               s.start = api[d].status.start /\ api[d].status.end <= s.end
      BY <1>2, Published
    <2> HIDE DEF s
    <2>2. \A x \in Present : s.start <= x.at /\ x.at <= s.end => x \in rows[d]
      BY <2>1 DEF Complete
    <2> QED BY <1>2, <1>4, <2>1, <2>2 DEF PublishesFor
  <1> QED BY <1>2, <1>3, <1>4

(* The step of one source's import, seen by the Reports.                   *)
SourceStep(d) ==
  \/ syncReportDataSource(d) \/ createTable(d) \/ ImportFromLastTimestamp(d)
  \/ putImportStatus(d)
  \/ queryPrometheus(<<"periodic", d>>)
  \/ StorePrometheusMetrics(<<"periodic", d>>)
  \/ endImport(<<"periodic", d>>)
  \/ callFails(<<"periodic", d>>) \/ insertSeemsToFail(<<"periodic", d>>)

LEMMA SourceSteps ==
  ASSUME MinuteSteps, SamplesAtMinutes, StartStays, PromiseInv, ImporterInv', Undisturbed,
         UNCHANGED setup, NEW d \in setup.sources, SourceStep(d)
  PROVE  PromiseInv'
  <1>1. ImporterInv
    BY DEF PromiseInv
  <1>2. OnlyImportOf(d)
    BY <1>1, syncImport, createTableImport, ImportImport, putImportStatusImport, queryImport,
       storeImport, endImportImport, faultImport DEF SourceStep
  <1>3. UNCHANGED api => OnlyStatusOf(d)
    BY DEF OnlyStatusOf
  <1>4. OnlyStatusOf(d) /\ WindowSound(d)'
    BY <1>3, syncWindow, createTableWindow, ImportWindow, putImportStatusWindow, queryWindow,
       storeWindow, endImportWindow, faultWindow DEF SourceStep
  <1> QED BY <1>2, <1>4, OneWindow

LEMMA PromiseInvStep ==
  ASSUME MinuteSteps, SamplesAtMinutes, StartStays, PromiseInv, [Next]_<<vars, setup>>
  PROVE  PromiseInv'
  <1>1. ImporterInv /\ TypeOK
    BY DEF PromiseInv, ImporterInv, JobsInv
  <1>2. ImporterInv'
    BY <1>1, ImporterInvStep
  <1>3. setup' = setup
    BY DEF Next
  <1>4. MaxBackfill <= now'
    BY <1>1, ClockBound DEF PromiseInv
  <1>5. CASE ~Undisturbed
    BY <1>2, <1>3, <1>4, <1>5 DEF PromiseInv, Undisturbed
  <1>6. CASE Undisturbed
    <2>1. UndisturbedStep
      BY <1>1, <1>6, UndisturbedSteps
    <2>2. CASE NoImport /\ UNCHANGED api
      <3>1. UNCHANGED <<work, importers, rows, api>>
        BY <2>2 DEF NoImport
      <3>2. \A e \in DataSources :
              IF e \in setup.sources THEN WindowSound(e)'
              ELSE rows'[e] = {} /\ api'[e].status = NoStatus
        BY <1>6, <3>1, WindowFrame DEF PromiseInv
      <3> QED BY <1>2, <1>3, <1>4, <3>2 DEF PromiseInv
    <2>3. ASSUME NEW d \in setup.sources, SourceStep(d)
          PROVE  PromiseInv'
      BY <1>2, <1>3, <1>6, <2>3, SourceSteps
    <2>4. CASE restart
      BY <1>2, <1>3, <1>6, <2>4, restartWindow
    <2> QED BY <2>1, <2>2, <2>3, <2>4 DEF UndisturbedStep, SourceStep
  <1> QED BY <1>5, <1>6

LEMMA PromiseInvInitially == Init => PromiseInv
  <1> SUFFICES ASSUME Init
               PROVE  PromiseInv
    OBVIOUS
  <1>1. ImporterInv
    BY ImporterInvInitially
  <1>2. setup \in Setup /\ setup.sources \subseteq DataSources
    BY <1>1, SourcesAre DEF ImporterInv, JobsInv
  <1>3. /\ \A n \in Names : importers[n] = NoImporter
        /\ \A j \in Jobs : work[j] = NoWork
        /\ \A d \in DataSources : rows[d] = {} /\ api[d].status = NoStatus
        /\ now = MaxBackfill
    BY DEF Init, NewDataSource
  <1>4. MaxBackfill <= now
    BY <1>3, ImporterAssumption
  <1>5. ASSUME NEW e \in setup.sources
        PROVE  WindowSound(e)
    <2>1. importers[NameOf[e]].last = Null
      BY <1>2, <1>3, NamesAre DEF NoImporter
    <2>2. work[<<"periodic", e>>].pc = "idle"
      BY <1>2, <1>3, JobsAre, NoWorkTyped
    <2>3. StatusSound(e)
      BY <1>2, <1>3 DEF NoStatus, StatusSound
    <2> QED BY <2>1, <2>2, <2>3 DEF WindowSound, Importing
  <1> QED BY <1>1, <1>3, <1>4, <1>5 DEF PromiseInv

LEMMA SeenByReports ==
  ASSUME MinuteSteps, PromiseInv, PromiseInv', Undisturbed, [Next]_<<vars, setup>>
  PROVE  QuietFor \/ \E d \in DataSources : StoresFor(d) \/ PublishesFor(d)
  <1>1. ImporterInv /\ JobsInv /\ TypeOK
    BY DEF PromiseInv, ImporterInv, JobsInv
  <1>2. setup' = setup /\ UndisturbedStep
    BY <1>1, UndisturbedSteps
  <1>3. UNCHANGED <<rows, api>> => QuietFor
    BY DEF QuietFor
  <1>4. CASE NoImport /\ UNCHANGED api
    BY <1>3, <1>4 DEF NoImport
  <1>5. CASE restart
    BY <1>3, <1>5 DEF restart, tableVars
  <1>6. ASSUME NEW d \in setup.sources, SourceStep(d)
        PROVE  QuietFor \/ \E e \in DataSources : StoresFor(e) \/ PublishesFor(e)
    <2>1. d \in DataSources /\ <<"periodic", d>> \in Jobs /\ ImportSound(d)
      BY <1>1, SourceIs DEF ImporterInv
    <2>2. CASE syncReportDataSource(d) \/ ImportFromLastTimestamp(d)
      BY <1>3, <2>2 DEF syncReportDataSource, ImportFromLastTimestamp, tableVars
    <2>3. CASE queryPrometheus(<<"periodic", d>>) \/ endImport(<<"periodic", d>>)
               \/ callFails(<<"periodic", d>>)
      BY <1>3, <2>3 DEF queryPrometheus, endImport, callFails, tableVars
    <2>4. CASE createTable(d)
      BY <1>2, <2>4, createTableWindow DEF QuietFor, OnlyStatusOf
    <2>5. CASE putImportStatus(d)
      BY <1>2, <2>1, <2>5, PutPublishes
    <2>6. CASE \/ StorePrometheusMetrics(<<"periodic", d>>)
               \/ insertSeemsToFail(<<"periodic", d>>)
      <3>1. /\ work[<<"periodic", d>>].pc = "store" /\ UNCHANGED api
            /\ \E B \in Batches(work[<<"periodic", d>>].pending) :
                 Insert(work[<<"periodic", d>>].table, B)
        BY <2>6 DEF StorePrometheusMetrics, insertSeemsToFail
      <3>2. StoresFor(d)
        BY <1>2, <3>1, InsertStores
      <3> QED BY <2>1, <3>2
    <2> QED BY <1>6, <2>2, <2>3, <2>4, <2>5, <2>6 DEF SourceStep
  <1> QED BY <1>2, <1>4, <1>5, <1>6 DEF UndisturbedStep, SourceStep

LEMMA PromiseStep ==
  ASSUME MinuteSteps, PromiseInv, PromiseInv', [Next]_<<vars, setup>>
  PROVE  [Promise!Next]_(Promise!vars)
  <1> DEFINE T == IF Undisturbed THEN rows ELSE [d \in DataSources |-> {}]
             W == [d \in DataSources |->
                     IF Undisturbed /\ Imported(d)
                     THEN [start |-> api[d].status.start, end |-> api[d].status.end]
                     ELSE Null]
  <1>1. setup' = setup /\ (Undisturbed' <=> Undisturbed)
    BY DEF Next, Undisturbed
  <1>2. SUFFICES UNCHANGED <<T, W>> \/ Promise!Next
    BY DEF Promise!vars
  <1>3. CASE ~Undisturbed
    <2>1. T' = T /\ W' = W
      BY <1>1, <1>3
    <2> QED BY <2>1
  <1>4. CASE Undisturbed
    <2>1. T = rows /\ T' = rows'
      BY <1>1, <1>4
    <2>2. \A d \in DataSources :
            /\ W[d] = IF Imported(d)
                      THEN [start |-> api[d].status.start, end |-> api[d].status.end] ELSE Null
            /\ W'[d] = IF api'[d].status.start # Null
                       THEN [start |-> api'[d].status.start, end |-> api'[d].status.end] ELSE Null
      BY <1>1, <1>4 DEF Imported
    <2>3. DOMAIN W = DataSources /\ DOMAIN W' = DataSources /\ W = [d \in DataSources |-> W[d]]
          /\ W' = [d \in DataSources |-> W'[d]]
      OBVIOUS
    <2> HIDE DEF T, W
    <2>4. CASE QuietFor
      <3>1. \A d \in DataSources : W'[d] = W[d]
        BY <2>2, <2>4 DEF QuietFor, Imported
      <3>2. W' = W
        BY <2>3, <3>1
      <3> QED BY <2>1, <2>4, <3>2 DEF QuietFor
    <2>5. ASSUME NEW d \in DataSources, StoresFor(d)
          PROVE  Promise!Next
      <3>1. \A e \in DataSources : W'[e] = W[e]
        BY <2>2, <2>5 DEF StoresFor, Imported
      <3>2. W' = W
        BY <2>3, <3>1
      <3>3. /\ T[d] # T'[d] /\ T[d] \subseteq T'[d] /\ T'[d] \subseteq Present
            /\ \A old \in T[d], new \in T'[d] \ T[d] : old.at < new.at
            /\ T' = [T EXCEPT ![d] = T'[d]]
        BY <2>1, <2>5 DEF StoresFor
      <3>4. Promise!Store(d)
        BY <3>2, <3>3 DEF Promise!Store, T, W
      <3> QED BY <3>4 DEF Promise!Next
    <2>6. ASSUME NEW d \in DataSources, PublishesFor(d)
          PROVE  Promise!Next
      <3> DEFINE st == api[d].status
                 s == api'[d].status
      <3>1. /\ UNCHANGED rows /\ OnlyStatusOf(d)
            /\ s.start \in Int /\ s.end \in Int /\ s.start <= s.end
            /\ st.start # Null => s.start = st.start /\ st.end <= s.end
            /\ \A x \in Present : s.start <= x.at /\ x.at <= s.end => x \in rows[d]
        BY <2>6 DEF PublishesFor
      <3>2. s.start # Null
        BY <3>1, ImporterAssumption
      <3>3. W'[d] = [start |-> s.start, end |-> s.end]
        BY <2>2, <3>2
      <3>4. W'[d] # Null
        <4>1. [start |-> s.start, end |-> s.end] \in Window
          BY <3>1 DEF Window
        <4> QED BY <3>3, <4>1, ImporterAssumption
      <3>5. W[d] # Null => W[d] = [start |-> st.start, end |-> st.end] /\ st.start # Null
        BY <2>2 DEF Imported
      <3> HIDE DEF st, s
      <3>6. /\ W'[d].start <= W'[d].end
            /\ W[d] # Null => W'[d].start = W[d].start /\ W'[d].end >= W[d].end
        <4>1. W'[d].start = s.start /\ W'[d].end = s.end
          BY <3>3
        <4>2. W[d] # Null => W[d].start = st.start /\ W[d].end = st.end
          BY <3>5
        <4> QED BY <3>1, <3>5, <4>1, <4>2
      <3>7. \A x \in Present : W'[d].start <= x.at /\ x.at <= W'[d].end => x \in T[d]
        BY <2>1, <3>1, <3>3
      <3>8. \A e \in DataSources : e # d => W'[e] = W[e]
        BY <2>2, <3>1 DEF OnlyStatusOf, Imported
      <3>9. W' = [W EXCEPT ![d] = W'[d]]
        BY <2>3, <3>8
      <3>10. T' = T
        BY <2>1, <3>1
      <3>11. Promise!Publish(d)
        BY <3>4, <3>6, <3>7, <3>9, <3>10 DEF Promise!Publish, Promise!SamplesIn, T, W
      <3> QED BY <3>11 DEF Promise!Next
    <2> QED BY <1>4, <2>4, <2>5, <2>6, SeenByReports
  <1> QED BY <1>3, <1>4

(***************************************************************************)
(* Where an import of an empty table starts in the same place every time,  *)
(* an undisturbed import is an implementation of MetricsTable: whatever    *)
(* Prometheus has missed, whatever fails and whenever the operator is      *)
(* restarted, samples are appended in order and once, and the published    *)
(* window only grows and has no gaps (importer.go:92, 112;                 *)
(* datasources.go:239).                                                    *)
(***************************************************************************)
THEOREM ImportsKeepPromise ==
  ASSUME MinuteSteps, SamplesAtMinutes, StartStays
  PROVE  Spec => ImportsAsPromised
  <1>1. Init => PromiseInv /\ Promise!Init
    <2> SUFFICES ASSUME Init
                 PROVE  PromiseInv /\ Promise!Init
      OBVIOUS
    <2>1. rows = [d \in DataSources |-> {}] /\ \A d \in DataSources : api[d].status.start = Null
      BY DEF Init, NewDataSource, NoStatus
    <2>2. Promise!Init
      BY <2>1 DEF Promise!Init, Imported
    <2> QED BY <2>2, PromiseInvInitially
  <1>2. PromiseInv /\ [Next]_<<vars, setup>> => PromiseInv'
    BY PromiseInvStep
  <1>3. PromiseInv /\ PromiseInv' /\ [Next]_<<vars, setup>> => [Promise!Next]_(Promise!vars)
    BY PromiseStep
  <1> QED BY <1>1, <1>2, <1>3, PTL DEF Spec, ImportsAsPromised, Promise!Spec
=============================================================================
