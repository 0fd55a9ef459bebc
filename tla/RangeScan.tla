----------------------------- MODULE RangeScan -----------------------------
(***************************************************************************)
(* What a historical scan of the blocks Start..End promises the consumer   *)
(* of its batches: consecutive batches from Start on, each with every log  *)
(* of its blocks, and no end before End unless the scan raises.            *)
(***************************************************************************)
EXTENDS Integers

CONSTANTS Start, End

VARIABLES
  upto,      \* upto[b]: the logs the chain has in the blocks Start..b
  next,      \* the first block no batch covers yet
  delivered, \* logs handed to the consumer
  outcome    \* "scanning", "done" or "raised"

vars == <<upto, next, delivered, outcome>>

Init ==
  /\ upto \in [Start - 1 .. End -> Nat]
  /\ next = Start
  /\ delivered = 0
  /\ outcome = "scanning"

Batch(last) ==
  /\ outcome = "scanning"
  /\ next' = last + 1
  /\ delivered' = delivered + (upto[last] - upto[next - 1])
  /\ UNCHANGED <<upto, outcome>>

Finish ==
  /\ outcome = "scanning" /\ next = End + 1
  /\ outcome' = "done"
  /\ UNCHANGED <<upto, next, delivered>>

Raise ==
  /\ outcome = "scanning" /\ next <= End
  /\ outcome' = "raised"
  /\ UNCHANGED <<upto, next, delivered>>

Next == (\E last \in next..End : Batch(last)) \/ Finish \/ Raise

Spec == Init /\ [][Next]_vars

=============================================================================
