--------------------------- MODULE TimeRangesCheck ---------------------------
(***************************************************************************)
(* getTimeRangesChunked against a reference definition: every import an    *)
(* operator with the given step and chunk sizes can be asked for, over     *)
(* bounded instants.                                                       *)
(***************************************************************************)
EXTENDS TimeRanges, TLC

CONSTANTS
  StepSizes, ChunkSizes, RangeLimits,   \* the configurations tried
  Horizon                               \* the latest instant tried

ASSUME CheckAssumption ==
  /\ StepSizes \subseteq Nat \ {0}
  /\ ChunkSizes \subseteq Nat \ {0}
  /\ RangeLimits \subseteq Nat
  /\ Horizon \in Nat

Imports ==
  { i \in [ begin : 0..Horizon, end : 0..Horizon, step : StepSizes, chunk : ChunkSizes,
            max : RangeLimits, incomplete : BOOLEAN ] : i.begin <= i.end }

(* The queries of an import, in their order.                               *)
Ranges(import) ==
  getTimeRangesChunked(import.begin, import.end, import.chunk, import.step,
                       import.max, import.incomplete)

(* The evaluation instants an import is meant to reach.                    *)
Wanted(import) ==
  { t \in truncateToSecond(import.begin) .. truncateToSecond(import.end) :
      (t - truncateToSecond(import.begin)) % import.step = 0 }

-----------------------------------------------------------------------------
(***************************************************************************)
(* The queries of an import lie between the start and the end asked for,   *)
(* do not run backwards and never evaluate an instant twice.  Nothing is   *)
(* skipped: what an import leaves is after its last query; it leaves at    *)
(* most the very last instant when incomplete chunks are allowed and their *)
(* number is not limited, and less than a chunk when only full ones are.   *)
(***************************************************************************)
CoversOnce(import) ==
  LET asked   == Ranges(import)
      In(i)   == Instants(asked[i], import.step)
      reached == UNION {In(i) : i \in DOMAIN asked}
      left    == Wanted(import) \ reached
  IN  /\ \A i \in DOMAIN asked :
           /\ truncateToSecond(import.begin) <= asked[i].start
           /\ asked[i].start <= asked[i].end
           /\ asked[i].end <= import.end
      /\ \A i, j \in DOMAIN asked : i < j => In(i) \cap In(j) = {}
      /\ \A t \in left, u \in reached : u < t
      /\ import.max = NoLimit =>
           IF import.incomplete
           THEN left \subseteq {truncateToSecond(import.end)}
           ELSE \A t, u \in left : u - t < import.chunk

(* The imports up to an instant that are cut into queries another way.     *)
CutWrongly ==
  [t \in 0..Horizon |-> {import \in Imports : import.end = t /\ ~CoversOnce(import)}] @@ << >>
=============================================================================
