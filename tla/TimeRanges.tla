----------------------------- MODULE TimeRanges -----------------------------
(***************************************************************************)
(* How an import is cut into Prometheus range queries                      *)
(* (pkg/operator/prestostore/query.go, getTimeRangesChunked).  Instants    *)
(* are naturals; Minute is the number of clock units in the minute that    *)
(* truncateToSecond truncates to.                                          *)
(***************************************************************************)
EXTENDS Integers, Sequences

CONSTANT Minute

ASSUME MinuteAssumption == Minute \in Nat \ {0}

(* MaxTimeRanges: "don't set a limit if negative or zero".                 *)
NoLimit == 0

(* A range of instants, both ends included.                                *)
Window == [start : Int, end : Int]

truncateToSecond(t) == t - (t % Minute)

(***************************************************************************)
(* The loop body of getTimeRangesChunked once it has a candidate chunk     *)
(* [s, e]: the end the chunk is queried up to, and whether it is queried.  *)
(***************************************************************************)
chunkEndFor(s, e, end, allowIncompleteChunks) ==
  IF allowIncompleteChunks /\ e > end THEN truncateToSecond(end) ELSE e

chunkAccepted(s, e, end, chunkSize, allowIncompleteChunks) ==
  IF allowIncompleteChunks THEN e # s ELSE e <= end /\ e - s >= chunkSize

(* A faulty variant, as are all the operators whose name is another one's  *)
(* with a suffix: a run shows that its property notices the difference.    *)
nextChunkStart_noStep(e, stepSize) == e

nextChunkStart(e, stepSize) == truncateToSecond(e + stepSize)

(***************************************************************************)
(* The loop of getTimeRangesChunked: the queries still to come when the    *)
(* next one starts at c[1] and c[2] have been made.                        *)
(***************************************************************************)
chunksFrom(end, chunkSize, stepSize, maxTimeRanges, allowIncompleteChunks) ==
  LET from[c \in Int \X Nat] ==
        LET e == chunkEndFor(c[1], truncateToSecond(c[1] + chunkSize), end, allowIncompleteChunks)
            last == allowIncompleteChunks /\ e = truncateToSecond(end)
        IN  IF \/ maxTimeRanges > NoLimit /\ c[2] >= maxTimeRanges
               \/ ~chunkAccepted(c[1], e, end, chunkSize, allowIncompleteChunks)
            THEN << >>
            ELSE << [start |-> c[1], end |-> e] >> \o
                 (IF last THEN << >> ELSE from[<<nextChunkStart(e, stepSize), c[2] + 1>>])
  IN  from

getTimeRangesChunked(begin, end, chunkSize, stepSize, maxTimeRanges, allowIncompleteChunks) ==
  chunksFrom(end, chunkSize, stepSize, maxTimeRanges, allowIncompleteChunks)
    [<<truncateToSecond(begin), 0>>]

(* The instants at which Prometheus evaluates a range query.               *)
Instants(range, stepSize) ==
  { t \in range.start .. range.end : (t - range.start) % stepSize = 0 }
=============================================================================
