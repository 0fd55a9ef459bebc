-------------------------- MODULE AdaptiveScanner --------------------------
(***************************************************************************)
(* AdaptiveHistoricalScanner.scan: reads the logs of Start..End in ranges  *)
(* whose width follows what the provider accepts and how dense the logs    *)
(* are, and commits each range as one batch.  The provider is external: it *)
(* serves ranges of at most Limit blocks and refuses wider ones with an    *)
(* error that says split_range; a flaky one refuses or fails at any time.  *)
(***************************************************************************)
EXTENDS Integers

CONSTANTS
  Start, End,     \* the blocks to scan
  MaximumChunk,
  DenseThreshold, \* dense_log_threshold
  Limit,          \* the widest range the provider serves
  MaxLogs         \* bound: logs in Start..End

ASSUME RangeAssumption == Start \in Nat /\ End \in Nat /\ Start <= End
ASSUME ChunkAssumption == MaximumChunk \in Nat \ {0}
ASSUME ProviderAssumption ==
  /\ DenseThreshold \in Nat /\ MaxLogs \in Nat
  /\ Limit \in Nat \ {0}

VARIABLES
  flaky,     \* the provider refuses and fails as it likes
  upto,      \* upto[b]: the logs the chain has in the blocks Start..b
  cursor,
  chunk,
  pc,        \* "ask", "boundary", "commit", "done" or "raised"
  batchEnd,  \* batch_end of the request being handled
  delivered  \* logs the consumer has committed

vars == <<flaky, upto, cursor, chunk, pc, batchEnd, delivered>>

Blocks == Start - 1 .. End

TypeOK ==
  /\ flaky \in BOOLEAN
  /\ upto \in [Blocks -> 0..MaxLogs]
  /\ cursor \in Start .. End + 1
  /\ chunk \in 1..MaximumChunk
  /\ pc \in {"ask", "boundary", "commit", "done", "raised"}
  /\ batchEnd \in Blocks
  /\ delivered \in 0..MaxLogs

\* The scan begins with any initial chunk its constructor accepts, and with a
\* provider of either kind.
Init ==
  /\ flaky \in BOOLEAN
  /\ upto \in [Blocks -> 0..MaxLogs]
  /\ upto[Start - 1] = 0
  /\ \A b \in Start..End : upto[b - 1] <= upto[b]
  /\ cursor = Start
  /\ chunk \in 1..MaximumChunk
  /\ pc = "ask"
  /\ batchEnd = Start - 1
  /\ delivered = 0

Least(a, b) == IF a <= b THEN a ELSE b
Most(a, b) == IF a >= b THEN a ELSE b

RequestEnd == Least(cursor + chunk - 1, End)
Width == RequestEnd - cursor + 1
Logs == upto[batchEnd] - upto[cursor - 1]

\* Mutant: no refused range is tried again.
RaisesAlways == TRUE
Raises == chunk = 1

\* Mutant: a refused range is tried again with the same chunk.
HalvedNot == chunk
Halved == Most(1, chunk \div 2)

Resized(logs) ==
  IF logs >= DenseThreshold THEN Halved
  ELSE IF logs < Most(1, DenseThreshold \div 4)
         THEN Least(MaximumChunk, Most(chunk + 1, chunk * 2))
  ELSE chunk

-----------------------------------------------------------------------------

Serve ==
  /\ pc = "ask" /\ cursor <= End
  /\ Width <= Limit
  /\ batchEnd' = RequestEnd
  /\ pc' = "boundary"
  /\ UNCHANGED <<flaky, upto, cursor, chunk, delivered>>

\* ProviderError with split_range.
Refuse ==
  /\ pc = "ask" /\ cursor <= End
  /\ Width > Limit \/ flaky
  /\ IF Raises THEN pc' = "raised" /\ UNCHANGED chunk
               ELSE chunk' = Halved /\ UNCHANGED pc
  /\ UNCHANGED <<flaky, upto, cursor, batchEnd, delivered>>

\* Any other error of logs, block or commit, and the boundary mismatch.
Fail ==
  /\ flaky
  /\ pc \in {"ask", "boundary", "commit"} /\ cursor <= End
  /\ pc' = "raised"
  /\ UNCHANGED <<flaky, upto, cursor, chunk, batchEnd, delivered>>

Boundary ==
  /\ pc = "boundary"
  /\ pc' = "commit"
  /\ UNCHANGED <<flaky, upto, cursor, chunk, batchEnd, delivered>>

\* Mutant: the next range begins with the last block of this one.
AdvanceOverlapping == cursor' = batchEnd
Advance == cursor' = batchEnd + 1

\* The consumer commits, then the cursor moves and the chunk is resized.
Commit ==
  /\ pc = "commit"
  /\ delivered' = delivered + Logs
  /\ Advance
  /\ chunk' = Resized(Logs)
  /\ pc' = "ask"
  /\ UNCHANGED <<flaky, upto, batchEnd>>

Return ==
  /\ pc = "ask" /\ cursor > End
  /\ pc' = "done"
  /\ UNCHANGED <<flaky, upto, cursor, chunk, batchEnd, delivered>>

Next == Serve \/ Refuse \/ Fail \/ Boundary \/ Commit \/ Return

Spec == Init /\ [][Next]_vars

\* The coroutine runs on, and every provider call returns or raises.
Fairness == WF_vars(Next)

FairSpec == Spec /\ Fairness

-----------------------------------------------------------------------------
(* Properties.                                                             *)

Outcome == IF pc \in {"done", "raised"} THEN pc ELSE "scanning"

Promise == INSTANCE RangeScan WITH next <- cursor, outcome <- Outcome

\* Whatever the provider refuses and however the chunk is resized, the
\* consumer gets consecutive batches with every log exactly once, and the scan
\* returns only at the end of the range (AdaptiveHistoricalScanner.scan).
Contiguous == Promise!Spec

\* Refusals and growth cannot keep a scan going for ever: it returns or raises.
Terminates == <>(pc \in {"done", "raised"})

\* If the provider's only errors are refusals of ranges that are too wide, the
\* scan returns: halving always reaches a width that is served, and growth
\* never leads to an error (the ProviderError branch of scan).
CompletesIfServed == ~ flaky => <>(pc = "done")

=============================================================================
