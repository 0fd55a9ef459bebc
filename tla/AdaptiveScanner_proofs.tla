----------------------- MODULE AdaptiveScanner_proofs -----------------------
(***************************************************************************)
(* The scan keeps its promise for every range, every distribution of logs, *)
(* every initial and maximum chunk and every provider; the deployment probe*)
(* finds a boundary and the history follows the slot for every chain.      *)
(***************************************************************************)
EXTENDS AdaptiveScanner, DeploymentProbe, ProxyHistory, TLAPS

\* The request in hand begins at the cursor, and the consumer has exactly the
\* logs of the blocks before it.
IInv ==
  /\ TypeOK
  /\ upto[Start - 1] = 0
  /\ delivered = upto[cursor - 1]
  /\ pc \in {"boundary", "commit"} => batchEnd \in cursor..End
  /\ pc = "done" => cursor = End + 1

-----------------------------------------------------------------------------

\* A request ends inside the scan's range and no earlier than it begins.
LEMMA RequestInRange ==
  ASSUME TypeOK, cursor <= End
  PROVE  RequestEnd \in cursor..End
  BY RangeAssumption, ChunkAssumption DEF TypeOK, RequestEnd, Least

\* However many logs a batch had, the next chunk is one the scan accepts.
LEMMA ChunkStaysValid ==
  ASSUME TypeOK, NEW logs \in Int
  PROVE  /\ Halved \in 1..MaximumChunk
         /\ Resized(logs) \in 1..MaximumChunk
<1>1. Halved \in 1..chunk
  BY ChunkAssumption DEF TypeOK, Halved, Most
<1>2. Halved \in 1..MaximumChunk
  BY <1>1, ChunkAssumption DEF TypeOK
<1>3. Most(chunk + 1, chunk * 2) \in Nat \ {0}
  BY ChunkAssumption DEF TypeOK, Most
<1>4. Least(MaximumChunk, Most(chunk + 1, chunk * 2)) \in 1..MaximumChunk
  BY <1>3, ChunkAssumption DEF Least
<1> QED BY <1>2, <1>4 DEF Resized, TypeOK

\* A scan begins with nothing committed.
LEMMA InitIInv == Init => IInv
  BY RangeAssumption, ChunkAssumption, ProviderAssumption DEF Init, IInv, TypeOK, Blocks

\* Every step keeps the cursor, the request and the consumer's logs together.
LEMMA StepIInv == IInv /\ [Next]_vars => IInv'
<1> SUFFICES ASSUME IInv, [Next]_vars PROVE IInv'
  OBVIOUS
<1> USE RangeAssumption, ChunkAssumption, ProviderAssumption
<1>0. TypeOK
  BY DEF IInv
<1>1. CASE Serve
  <2>1. RequestEnd \in cursor..End
    BY <1>0, <1>1, RequestInRange DEF Serve
  <2> QED BY <1>1, <2>1 DEF Serve, IInv, TypeOK, Blocks
<1>2. CASE Refuse
  <2>1. Halved \in 1..MaximumChunk
    BY <1>0, ChunkStaysValid
  <2>2. /\ chunk' \in 1..MaximumChunk
        /\ pc' \in {"ask", "raised"}
        /\ UNCHANGED <<flaky, upto, cursor, batchEnd, delivered>>
    <3>1. CASE Raises
      BY <1>0, <1>2, <3>1 DEF Refuse, TypeOK
    <3>2. CASE ~ Raises
      BY <1>0, <1>2, <2>1, <3>2 DEF Refuse, TypeOK
    <3> QED BY <3>1, <3>2
  <2> QED BY <2>2 DEF IInv, TypeOK, Blocks
<1>3. CASE Fail
  BY <1>3 DEF Fail, IInv, TypeOK, Blocks
<1>6. CASE Boundary
  BY <1>6 DEF Boundary, IInv, TypeOK, Blocks
<1>7. CASE Return
  <2>1. cursor = End + 1
    BY <1>0, <1>7 DEF Return, TypeOK
  <2> QED BY <1>7, <2>1 DEF Return, IInv, TypeOK, Blocks
<1>4. CASE Commit
  <2>1. /\ batchEnd \in cursor..End
        /\ batchEnd \in Blocks
        /\ cursor - 1 \in Blocks
    BY <1>4 DEF Commit, IInv, TypeOK, Blocks
  <2>2. upto[batchEnd] \in 0..MaxLogs /\ upto[cursor - 1] \in 0..MaxLogs
    BY <1>0, <2>1 DEF TypeOK
  <2>3. Logs \in Int /\ delivered' = upto[batchEnd]
    BY <1>4, <2>2 DEF Commit, Logs, IInv
  <2>4. chunk' \in 1..MaximumChunk
    BY <1>0, <1>4, <2>3, ChunkStaysValid DEF Commit
  <2>5. cursor' = batchEnd + 1
    BY <1>4 DEF Commit, Advance
  <2>6. cursor' - 1 = batchEnd
    BY <2>1, <2>5
  <2> QED BY <1>4, <2>1, <2>2, <2>3, <2>4, <2>5, <2>6 DEF Commit, IInv, TypeOK, Blocks
<1>5. CASE UNCHANGED vars
  BY <1>5 DEF vars, IInv, TypeOK, Blocks
<1> QED BY <1>1, <1>2, <1>3, <1>4, <1>5, <1>6, <1>7 DEF Next

\* The invariant holds in every run of the scan.
THEOREM Invariance == Spec => []IInv
  BY InitIInv, StepIInv, PTL DEF Spec

\* Types, and with them 1 <= chunk <= maximum chunk however it is resized.
THEOREM TypeCorrect == Spec => []TypeOK
<1>1. IInv => TypeOK
  BY DEF IInv
<1> QED BY Invariance, <1>1, PTL

\* A scan begins as the promise does.
LEMMA InitPromise == Init => Promise!Init
  BY RangeAssumption, ProviderAssumption DEF Init, Promise!Init, Blocks, Outcome

\* Every step of the scan is a step of the promise, or leaves it as it is.
LEMMA StepPromise == IInv /\ [Next]_vars => [Promise!Next]_(Promise!vars)
<1> SUFFICES ASSUME IInv, [Next]_vars
             PROVE  [Promise!Next]_(Promise!vars)
  OBVIOUS
<1> USE RangeAssumption DEF Promise!vars, Outcome
<1>1. CASE Serve
  BY <1>1 DEF Serve
<1>2. CASE Refuse
  <2>1. CASE Raises
    BY <1>2, <2>1 DEF Refuse, Promise!Next, Promise!Raise
  <2>2. CASE ~ Raises
    BY <1>2, <2>2 DEF Refuse
  <2> QED BY <2>1, <2>2
<1>3. CASE Fail
  BY <1>3 DEF Fail, Promise!Next, Promise!Raise
<1>4. CASE Boundary
  BY <1>4 DEF Boundary
<1>5. CASE Commit
  <2>1. batchEnd \in cursor..End
    BY <1>5 DEF Commit, IInv
  <2>2. Promise!Batch(batchEnd)
    BY <1>5 DEF Commit, Promise!Batch, Advance, Logs
  <2> QED BY <2>1, <2>2 DEF Promise!Next
<1>6. CASE Return
  <2>1. cursor = End + 1
    BY <1>6 DEF Return, IInv, TypeOK
  <2> QED BY <1>6, <2>1 DEF Return, Promise!Next, Promise!Finish
<1>7. CASE UNCHANGED vars
  BY <1>7 DEF vars
<1> QED BY <1>1, <1>2, <1>3, <1>4, <1>5, <1>6, <1>7 DEF Next

\* Consecutive batches with every log once, and a return only at the end of
\* the range: the adaptive scan implements RangeScan.
THEOREM ScanIsContiguous == Spec => Contiguous
  BY InitPromise, StepPromise, Invariance, PTL DEF Spec, Contiguous, Promise!Spec

-----------------------------------------------------------------------------

\* How far the scan is from the end of the request in hand.
Rank == CASE pc = "ask" -> 3 [] pc = "boundary" -> 2 [] pc = "commit" -> 1
          [] pc \in {"done", "raised"} -> 0

\* The cursor goes on, or the chunk shrinks where the cursor is, or the request
\* is a step further on: a lexicographic order that cannot fall for ever, since
\* IInv bounds the cursor above, the chunk and the rank below.
Forward ==
  \/ cursor' > cursor
  \/ cursor' = cursor /\ chunk' < chunk
  \/ cursor' = cursor /\ chunk' = chunk /\ Rank' < Rank

\* Whatever the provider refuses, whatever the logs are like and however the
\* chunk grows, no step of a scan takes it back or leaves it where it was: a
\* refusal halves a chunk above one or ends the scan, and a chunk grows only
\* behind a cursor that moved (AdaptiveHistoricalScanner.scan).  Under weak
\* fairness this is why a scan ends.
THEOREM ScanGoesForward == Spec => [][Forward]_vars
<1>1. IInv /\ [Next]_vars => [Forward]_vars
  <2> SUFFICES ASSUME IInv, Next PROVE Forward
    BY DEF vars
  <2>1. /\ TypeOK
        /\ cursor \in Nat /\ chunk \in 1..MaximumChunk
    BY RangeAssumption DEF IInv, TypeOK
  <2>2. CASE Refuse /\ ~ Raises
    <3>1. chunk' < chunk
      BY <2>1, <2>2, ChunkAssumption DEF Refuse, Raises, Halved, Most
    <3> QED BY <2>2, <3>1 DEF Refuse, Forward
  <2>3. CASE Refuse /\ Raises
    BY <2>3 DEF Refuse, Forward, Rank
  <2>4. CASE Commit
    <3>1. batchEnd \in cursor..End
      BY <2>4 DEF Commit, IInv
    <3>2. cursor' > cursor
      BY <2>1, <2>4, <3>1 DEF Commit, Advance
    <3> QED BY <3>2 DEF Forward
  <2>5. CASE Serve \/ Boundary \/ Return
    BY <2>5 DEF Serve, Boundary, Return, Forward, Rank
  <2>6. CASE Fail
    BY <2>6 DEF Fail, Forward, Rank
  <2> QED BY <2>2, <2>3, <2>4, <2>5, <2>6 DEF Next
<1> QED BY <1>1, Invariance, PTL DEF Spec

\* A provider that only refuses what is too wide never makes a scan raise.
ServedNeverRaises == ~ flaky => pc # "raised"

\* For any provider limit, range and density of the logs: the halving reaches a
\* width that is served before it reaches the error that ends the scan, and a
\* chunk that grew again leads to no error either (the ProviderError branch of
\* scan).  With ScanGoesForward, the reason that such a scan completes.
THEOREM ServedScanNeverRaises == Spec => []ServedNeverRaises
<1>1. Init => ServedNeverRaises
  BY DEF Init, ServedNeverRaises
<1>2. IInv /\ ServedNeverRaises /\ [Next]_vars => ServedNeverRaises'
  <2> SUFFICES ASSUME IInv, ServedNeverRaises, [Next]_vars, ~ flaky
               PROVE  pc' # "raised"
    BY DEF ServedNeverRaises, Next, Serve, Refuse, Fail, Boundary, Commit, Return, vars
  <2>1. CASE Refuse
    <3>1. Width > Limit
      BY <2>1 DEF Refuse
    <3>2. chunk # 1
      BY <3>1, RangeAssumption, ProviderAssumption
      DEF IInv, TypeOK, Width, RequestEnd, Least
    <3> QED BY <2>1, <3>2 DEF Refuse, Raises
  <2>2. CASE Serve \/ Boundary \/ Commit \/ Return \/ UNCHANGED vars
    BY <2>2 DEF ServedNeverRaises, Serve, Boundary, Commit, Return, vars
  <2>3. ~ Fail
    BY DEF Fail
  <2> QED BY <2>1, <2>2, <2>3 DEF Next
<1> QED BY <1>1, <1>2, Invariance, PTL DEF Spec

-----------------------------------------------------------------------------

\* Code is present at the upper bound of the search and absent just below the
\* lower one.
ProbeInv ==
  /\ ProbeTypeOK
  /\ phase \in {"search", "found"} =>
       low <= high /\ code[high] /\ (low = 0 \/ ~ code[low - 1])
  /\ phase = "found" => low = high
  /\ phase = "check" => low = 0 /\ high = Finalized

\* The middle is looked at inside the bounds, and below the upper one.
LEMMA MiddleInside ==
  ASSUME ProbeTypeOK, low < high
  PROVE  Middle \in Heights /\ low <= Middle /\ Middle < high
  BY FinalizedAssumption DEF ProbeTypeOK, Heights, Middle

\* Every step of the search keeps a boundary between its bounds.
LEMMA StepProbe == ProbeInv /\ [ProbeNext]_probeVars => ProbeInv'
<1> SUFFICES ASSUME ProbeInv, [ProbeNext]_probeVars PROVE ProbeInv'
  OBVIOUS
<1> USE FinalizedAssumption
<1>1. CASE CheckCode
  BY <1>1 DEF CheckCode, ProbeInv, ProbeTypeOK, Heights
<1>2. CASE Halve
  <2>1. Middle \in Heights /\ low <= Middle /\ Middle < high
    BY <1>2, MiddleInside DEF Halve, ProbeInv
  <2>2. CASE code[Middle]
    BY <1>2, <2>1, <2>2 DEF Halve, NewHigh, ProbeInv, ProbeTypeOK, Heights
  <2>3. CASE ~ code[Middle]
    <3>1. /\ low' = Middle + 1 /\ low' - 1 = Middle
          /\ UNCHANGED <<code, high, phase>> /\ phase = "search"
      BY <1>2, <2>1, <2>3 DEF Halve, Heights
    <3> HIDE DEF Middle
    <3> QED BY <2>1, <2>3, <3>1 DEF ProbeInv, ProbeTypeOK, Heights
  <2> QED BY <2>2, <2>3
<1>3. CASE Found
  BY <1>3 DEF Found, ProbeInv, ProbeTypeOK, Heights
<1>4. CASE ProbeFails
  BY <1>4 DEF ProbeFails, ProbeInv, ProbeTypeOK, Heights
<1>5. CASE UNCHANGED probeVars
  BY <1>5 DEF probeVars, ProbeInv, ProbeTypeOK, Heights
<1> QED BY <1>1, <1>2, <1>3, <1>4, <1>5 DEF ProbeNext

\* The bounds of the search enclose a boundary in every run of the probe.
LEMMA ProbeInvariance == ProbeSpec => []ProbeInv
<1>1. ProbeInit => ProbeInv
  BY FinalizedAssumption DEF ProbeInit, ProbeInv, ProbeTypeOK, Heights
<1> QED BY <1>1, StepProbe, PTL DEF ProbeSpec

\* Types of the probe: its bounds stay blocks of the chain.
THEOREM ProbeTypeCorrect == ProbeSpec => []ProbeTypeOK
<1>1. ProbeInv => ProbeTypeOK
  BY DEF ProbeInv
<1> QED BY <1>1, ProbeInvariance, PTL

\* The block the probe returns is one in which code appeared, for a chain of any
\* length and a contract of any life.
THEOREM BoundaryIsFound == ProbeSpec => []BoundaryFound
<1>1. ProbeInv => BoundaryFound
  BY DEF ProbeInv, BoundaryFound
<1> QED BY <1>1, ProbeInvariance, PTL

\* A look at the chain leaves at most half of the blocks to search.
Halves ==
  phase = "search" /\ phase' = "search" => high' - low' <= (high - low) \div 2

\* For a chain of any length, each block the probe looks at halves the blocks
\* that are left: it ends, after as many calls as the height has binary digits
\* (the loop of EthereumCollectionDiscovery.probe).
THEOREM ProbeHalvesTheRange == ProbeSpec => [][Halves]_probeVars
<1>1. ProbeInv /\ [ProbeNext]_probeVars => [Halves]_probeVars
  <2> SUFFICES ASSUME ProbeInv, ProbeNext, phase = "search", phase' = "search"
               PROVE  high' - low' <= (high - low) \div 2
    BY DEF Halves
  <2>1. Halve
    BY DEF ProbeNext, CheckCode, Found, ProbeFails
  <2>2. low \in Nat /\ high \in Nat /\ low < high
    BY <2>1, FinalizedAssumption DEF Halve, ProbeInv, ProbeTypeOK, Heights
  <2>3. CASE code[Middle]
    BY <2>1, <2>2, <2>3 DEF Halve, NewHigh, Middle
  <2>4. CASE ~ code[Middle]
    BY <2>1, <2>2, <2>4 DEF Halve, Middle
  <2> QED BY <2>3, <2>4
<1> QED BY <1>1, ProbeInvariance, PTL DEF ProbeSpec

-----------------------------------------------------------------------------

\* In the history so far, block b has the implementation its slot holds.
Told(b) ==
  \A a : (\E i \in intervals : i.address = a /\ Covers(i, b)) <=> a = slot[b] /\ a # None

\* The closed intervals end before the active one begins, and tell the blocks
\* before it; the active implementation is that of the blocks since.
Walked ==
  /\ active.from = FromBlock \/ active.from < block
  /\ \A i \in intervals : i.to # Open /\ i.to < active.from
  /\ Faithful =>
       /\ block = FromBlock => active.address = slot[Baseline]
       /\ \A b \in FromBlock..block - 1 :
            IF b < active.from THEN Told(b) ELSE slot[b] = active.address

HistoryInv ==
  /\ HistoryTypeOK
  /\ state = "baseline" => intervals = {} /\ block = FromBlock
  /\ state = "walk" => Walked
  /\ state = "done" => \A b \in FromBlock..ToBlock : Faithful \/ b = ToBlock => Told(b)

\* The upgrade of a block is one of the implementations, or there is none.
LEMMA UpgradeType ==
  ASSUME HistoryTypeOK, NEW b \in FromBlock..ToBlock
  PROVE  /\ events[b] = <<>> => Upgrade(b) = None
         /\ events[b] # <<>> => Upgrade(b) = Last(events[b]) /\ Upgrade(b) \in Implementations
<1>1. PICK m \in 0..MaxEvents : events[b] \in [1..m -> Implementations]
  <2>1. events[b] \in BoundedSeq(Implementations, MaxEvents)
    BY DEF HistoryTypeOK
  <2> QED BY ONLY <2>1 DEF BoundedSeq, SeqOf
<1>2. events[b] \in Seq(Implementations) /\ Len(events[b]) = m
  BY <1>1, HistoryAssumption
<1>3. events[b] # <<>> => events[b][m] \in Implementations
  BY <1>1, <1>2, HistoryAssumption
<1> QED BY <1>2, <1>3 DEF Upgrade, Last

\* Reading the slot before the range begins the walk.
LEMMA BaselineStep == ASSUME HistoryInv, ReadBaseline PROVE HistoryInv'
<1>1. Baseline \in Baseline..ToBlock /\ FromBlock \in FromBlock..ToBlock
  BY HistoryAssumption DEF Baseline
<1>2. slot[Baseline] \in Slots
  BY <1>1 DEF HistoryInv, HistoryTypeOK
<1>3. HistoryTypeOK'
  BY <1>1, <1>2 DEF ReadBaseline, HistoryInv, HistoryTypeOK
<1>4. FromBlock..FromBlock - 1 = {}
  BY HistoryAssumption
<1>5. Walked'
  BY <1>4 DEF ReadBaseline, HistoryInv, Walked, Faithful
<1> QED BY <1>3, <1>5 DEF ReadBaseline, HistoryInv

\* A faithful slot after the block walked: the upgrade's, or the active one.
LEMMA SlotAfterBlock ==
  ASSUME HistoryTypeOK, Walked, Faithful, block <= ToBlock
  PROVE  slot[block] = IF Upgrade(block) = None THEN active.address ELSE Upgrade(block)
<1>1. block \in FromBlock..ToBlock
  BY HistoryAssumption DEF HistoryTypeOK
<1>2. slot[block] = IF events[block] # <<>> THEN Last(events[block])
                    ELSE slot[IF block = Baseline THEN block ELSE block - 1]
  BY <1>1 DEF Faithful
<1>3. slot[IF block = Baseline THEN block ELSE block - 1] = active.address
  <2>1. CASE block = FromBlock
    <3>1. (IF block = Baseline THEN block ELSE block - 1) = Baseline
      BY <2>1, HistoryAssumption DEF Baseline
    <3> QED BY <2>1, <3>1 DEF Walked
  <2>2. CASE block # FromBlock
    <3>1. block # Baseline /\ block - 1 \in FromBlock..block - 1
      BY <1>1, <2>2, HistoryAssumption DEF Baseline
    <3>2. ~ (block - 1 < active.from)
      BY <1>1, <2>2, HistoryAssumption DEF Walked, HistoryTypeOK
    <3> QED BY <3>1, <3>2 DEF Walked
  <2> QED BY <2>1, <2>2
<1>4. None \notin Implementations
  BY HistoryAssumption
<1> QED BY <1>1, <1>2, <1>3, <1>4, UpgradeType

\* One block is walked: an upgrade to another implementation closes the interval.
LEMMA WalkStep == ASSUME HistoryInv, Walk PROVE HistoryInv'
<1> USE HistoryAssumption
<1>1. /\ HistoryTypeOK /\ Walked /\ state = "walk" /\ state' = "walk"
      /\ block \in FromBlock..ToBlock /\ block' = block + 1
      /\ UNCHANGED <<slot, events, prefixed>>
  BY DEF HistoryInv, HistoryTypeOK, Walk
<1>2. Upgrade(block) \in Slots
  BY <1>1, UpgradeType DEF Slots
<1>3. Faithful' = Faithful
  BY <1>1 DEF Faithful
<1>4. active.from \in FromBlock..block
  BY <1>1 DEF Walked, HistoryTypeOK
<1>5. CASE Upgrade(block) \in {None, active.address}
  <2>1. UNCHANGED <<active, intervals>>
    BY <1>5 DEF Walk
  <2>2. HistoryTypeOK'
    BY <1>1, <2>1 DEF HistoryTypeOK
  <2>3. ASSUME Faithful, NEW b \in FromBlock..block
        PROVE  IF b < active.from THEN Told(b) ELSE slot[b] = active.address
    <3>1. CASE b = block
      BY <1>1, <1>4, <1>5, <2>3, <3>1, SlotAfterBlock
    <3>2. CASE b # block
      <4>1. b \in FromBlock..block - 1
        BY <1>1, <3>2
      <4> QED BY <1>1, <2>3, <4>1 DEF Walked
    <3> QED BY <3>1, <3>2
  <2>4. block' - 1 = block /\ block' # FromBlock
    BY <1>1
  <2>5. \A b : Told(b)' <=> Told(b)
    BY <1>1, <2>1 DEF Told
  <2>6. Walked'
    BY <1>1, <1>3, <1>4, <2>1, <2>3, <2>4, <2>5 DEF Walked
  <2> QED BY <1>1, <2>2, <2>6 DEF HistoryInv
<1>6. CASE Upgrade(block) \notin {None, active.address}
  <2> DEFINE closed == Interval(block - 1)
  <2>1. /\ active' = [address |-> Upgrade(block), from |-> block]
        /\ intervals' = IF active.address = None THEN intervals
                        ELSE intervals \cup {closed}
    BY <1>6 DEF Walk
  <2>2. closed = [address |-> active.address, from |-> active.from, to |-> block - 1]
    BY DEF Interval
  <2>3. HistoryTypeOK'
    BY <1>1, <1>2, <1>4, <2>1, <2>2 DEF HistoryTypeOK, Slots
  <2>4. \A i \in intervals' : i.to # Open /\ i.to < block
    <3> SUFFICES ASSUME NEW i \in intervals' PROVE i.to # Open /\ i.to < block
      OBVIOUS
    <3>1. CASE i \in intervals
      BY <1>1, <1>4, <3>1 DEF Walked, HistoryTypeOK, Open
    <3>2. CASE i = closed
      BY <1>1, <2>2, <3>2 DEF Open
    <3> QED BY <2>1, <3>1, <3>2
  <2>5. ASSUME Faithful, NEW b \in FromBlock..block - 1 PROVE Told(b)'
    <3>1. CASE b < active.from
      <4>1. ~ Covers(closed, b)
        BY <1>4, <2>2, <2>5, <3>1 DEF Covers
      <4>2. Told(b)
        BY <1>1, <2>5, <3>1 DEF Walked
      <4> QED BY <1>1, <2>1, <4>1, <4>2 DEF Told
    <3>2. CASE ~ (b < active.from)
      <4>1. slot[b] = active.address
        BY <1>1, <2>5, <3>2 DEF Walked
      <4>2. \A i \in intervals : ~ Covers(i, b)
        BY <1>1, <1>4, <2>5, <3>2 DEF Walked, Covers, HistoryTypeOK, Open
      <4>3. Covers(closed, b) /\ closed.address = slot[b]
        BY <1>4, <2>2, <2>5, <3>2, <4>1 DEF Covers
      <4> HIDE DEF closed
      <4> QED BY <1>1, <2>1, <4>1, <4>2, <4>3 DEF Told
    <3> QED BY <3>1, <3>2
  <2>6. Faithful => slot[block] = Upgrade(block)
    BY <1>1, <1>6, SlotAfterBlock
  <2>7. ASSUME Faithful, NEW b \in FromBlock..block
        PROVE  IF b < block THEN Told(b)' ELSE slot[b] = Upgrade(block)
    <3>1. CASE b = block
      BY <1>1, <2>6, <2>7, <3>1
    <3>2. CASE b # block
      <4>1. b \in FromBlock..block - 1 /\ b < block
        BY <1>1, <3>2
      <4> QED BY <2>5, <2>7, <4>1
    <3> QED BY <3>1, <3>2
  <2>8. block' - 1 = block /\ block' # FromBlock /\ block < block'
    BY <1>1
  <2>9. active'.from = block /\ active'.address = Upgrade(block)
    BY <2>1
  <2>10. Walked'
    BY <1>1, <1>3, <2>4, <2>7, <2>8, <2>9 DEF Walked
  <2> QED BY <1>1, <2>3, <2>10 DEF HistoryInv
<1> QED BY <1>5, <1>6

\* The slot at the end agrees with the events, and closes the history.
LEMMA ConcludeStep == ASSUME HistoryInv, Conclude PROVE HistoryInv'
<1> USE HistoryAssumption
<1>1. /\ HistoryTypeOK /\ Walked /\ block = ToBlock + 1
      /\ UNCHANGED <<slot, events, prefixed, block, active>>
  BY DEF HistoryInv, HistoryTypeOK, Conclude
<1>2. CASE active.address # slot[ToBlock]
  BY <1>1, <1>2 DEF Conclude, HistoryInv, HistoryTypeOK
<1>3. CASE active.address = slot[ToBlock]
  <2> DEFINE last == Interval(Open)
  <2>1. /\ state' = "done"
        /\ intervals' = IF active.address = None THEN intervals
                        ELSE intervals \cup {last}
    BY <1>3 DEF Conclude
  <2>2. last = [address |-> active.address, from |-> active.from, to |-> Open]
    BY DEF Interval
  <2>3. HistoryTypeOK'
    BY <1>1, <2>1, <2>2 DEF HistoryTypeOK, Slots
  <2>4. active.from \in FromBlock..ToBlock
    BY <1>1 DEF HistoryTypeOK
  <2>5. ASSUME NEW b \in FromBlock..ToBlock, Faithful \/ b = ToBlock PROVE Told(b)'
    <3>1. CASE b < active.from
      <4>1. ~ Covers(last, b)
        BY <2>2, <2>4, <3>1 DEF Covers
      <4>2. Told(b)
        BY <1>1, <2>4, <2>5, <3>1 DEF Walked
      <4> QED BY <1>1, <2>1, <4>1, <4>2 DEF Told
    <3>2. CASE ~ (b < active.from)
      <4>1. slot[b] = active.address
        <5>1. b = ToBlock => slot[b] = active.address
          BY <1>3
        <5>2. Faithful => slot[b] = active.address
          BY <1>1, <3>2 DEF Walked
        <5> QED BY <2>5, <5>1, <5>2
      <4>2. \A i \in intervals : ~ Covers(i, b)
        BY <1>1, <2>4, <3>2 DEF Walked, Covers, HistoryTypeOK, Open
      <4>3. Covers(last, b) /\ last.address = slot[b]
        BY <2>2, <2>4, <3>2, <4>1 DEF Covers
      <4> HIDE DEF last
      <4> QED BY <1>1, <2>1, <4>1, <4>2, <4>3 DEF Told
    <3> QED BY <3>1, <3>2
  <2>6. Faithful' = Faithful
    BY <1>1 DEF Faithful
  <2> QED BY <2>1, <2>3, <2>5, <2>6 DEF HistoryInv
<1> QED BY <1>2, <1>3

\* The invariant holds in every run of history.
LEMMA HistoryInvariance == HistorySpec => []HistoryInv
<1>1. HistoryInit => HistoryInv
  BY HistoryAssumption DEF HistoryInit, HistoryInv, HistoryTypeOK, Slots
<1>2. HistoryInv /\ [HistoryNext]_historyVars => HistoryInv'
  <2> SUFFICES ASSUME HistoryInv, [HistoryNext]_historyVars PROVE HistoryInv'
    OBVIOUS
  <2>1. CASE HistoryFails
    BY <2>1 DEF HistoryFails, HistoryInv, HistoryTypeOK
  <2>2. CASE UNCHANGED historyVars
    <3>1. /\ Faithful' = Faithful /\ Walked' = Walked
          /\ \A b : Told(b)' = Told(b)
      BY <2>2 DEF historyVars, Faithful, Walked, Told
    <3> QED BY <2>2, <3>1 DEF historyVars, HistoryInv, HistoryTypeOK
  <2> QED BY <2>1, <2>2, BaselineStep, WalkStep, ConcludeStep DEF HistoryNext
<1> QED BY <1>1, <1>2, PTL DEF HistorySpec

\* Types of the history: no interval leaves the range.
THEOREM HistoryTypeCorrect == HistorySpec => []HistoryTypeOK
<1>1. HistoryInv => HistoryTypeOK
  BY DEF HistoryInv
<1> QED BY <1>1, HistoryInvariance, PTL

\* For any range, any number of implementations and any upgrades, the history
\* of a proxy whose slot changes only with an event follows its slot.
THEOREM HistoryIsExact == HistorySpec => []HistoryFollowsSlot
<1>1. HistoryInv => HistoryFollowsSlot
  <2> SUFFICES ASSUME HistoryInv, state = "done", NEW b \in FromBlock..ToBlock,
                      Faithful \/ b = ToBlock
               PROVE  {i.address : i \in {j \in intervals : Covers(j, b)}} = {slot[b]} \ {None}
    BY DEF HistoryFollowsSlot
  <2>1. Told(b)
    BY DEF HistoryInv
  <2> QED BY <2>1 DEF Told
<1> QED BY <1>1, HistoryInvariance, PTL

\* No block is in two intervals, ...
IntervalsApart ==
  \A i, j \in intervals, b \in FromBlock..ToBlock :
    Covers(i, b) /\ Covers(j, b) => i = j

\* ... and the history leaves no block out once it has begun: where an interval
\* ends, another begins, with another implementation.
IntervalsTile ==
  state = "done" =>
    \A i \in intervals : i.to # Open =>
      \E j \in intervals : j.from = i.to + 1 /\ j.address # i.address

\* While the blocks are walked, the active implementation follows the last
\* interval.
Followed(i) == \E j \in intervals : j.from = i.to + 1 /\ j.address # i.address
Chained ==
  state = "walk" => \A i \in intervals :
    \/ active.from = i.to + 1 /\ active.address \notin {i.address, None}
    \/ Followed(i)

TilingInv == IntervalsApart /\ IntervalsTile /\ Chained

\* One more interval, from where the active implementation began, keeps the
\* intervals apart.
LEMMA StillApart ==
  ASSUME HistoryTypeOK, Walked, IntervalsApart,
         NEW to, intervals' \subseteq intervals \cup {Interval(to)}
  PROVE  IntervalsApart'
<1> DEFINE new == Interval(to)
<1>1. new.from = active.from
  BY DEF Interval
<1>2. ASSUME NEW i \in intervals, NEW b \in FromBlock..ToBlock
      PROVE  ~ (Covers(i, b) /\ Covers(new, b))
  <2>1. i.to # Open /\ i.to < active.from /\ i.to \in Int /\ active.from \in Int
    BY HistoryAssumption DEF Walked, HistoryTypeOK, Open
  <2>2. b \in Int
    BY HistoryAssumption
  <2> QED BY <1>1, <2>1, <2>2 DEF Covers
<1> HIDE DEF new
<1>3. intervals' \subseteq intervals \cup {new}
  BY DEF new
<1>4. ASSUME NEW i \in intervals', NEW j \in intervals', NEW b \in FromBlock..ToBlock,
             Covers(i, b), Covers(j, b)
      PROVE  i = j
  BY <1>2, <1>3, <1>4 DEF IntervalsApart
<1> QED BY <1>4 DEF IntervalsApart, Covers

\* The loop closes an interval where the next implementation begins.
LEMMA WalkTiles ==
  ASSUME HistoryInv, TilingInv, Walk
  PROVE  TilingInv'
<1>1. /\ HistoryTypeOK /\ Walked /\ state = "walk" /\ state' = "walk"
      /\ IntervalsApart /\ Chained
  BY DEF HistoryInv, Walk, TilingInv
<1>2. intervals' \subseteq intervals \cup {Interval(block - 1)} /\ intervals \subseteq intervals'
  BY DEF Walk
<1>3. IntervalsApart'
  BY <1>1, <1>2, StillApart
<1>4. \A i \in intervals : Followed(i) => Followed(i)'
  BY <1>2 DEF Followed
<1>5. CASE Upgrade(block) \in {None, active.address}
  <2>1. UNCHANGED <<active, intervals>>
    BY <1>5 DEF Walk
  <2> QED BY <1>1, <1>3, <1>4, <2>1 DEF TilingInv, IntervalsTile, Chained
<1>6. CASE Upgrade(block) \notin {None, active.address}
  <2> DEFINE closed == Interval(block - 1)
  <2>1. /\ active' = [address |-> Upgrade(block), from |-> block]
        /\ intervals' = IF active.address = None THEN intervals
                        ELSE intervals \cup {closed}
    BY <1>6 DEF Walk
  <2>2. /\ closed.from = active.from /\ closed.address = active.address
        /\ closed.to + 1 = block
    BY <1>1, HistoryAssumption DEF Interval, HistoryTypeOK
  <2> HIDE DEF closed
  <2>3. ASSUME NEW i \in intervals PROVE Followed(i)'
    <3>1. CASE active.from = i.to + 1 /\ active.address \notin {i.address, None}
      <4>1. closed \in intervals'
        BY <2>1, <3>1
      <4> QED BY <2>2, <3>1, <4>1 DEF Followed
    <3>2. CASE Followed(i)
      BY <1>4, <3>2
    <3> QED BY <1>1, <3>1, <3>2 DEF Chained
  <2>4. ASSUME closed \in intervals' \ intervals
        PROVE  active'.from = closed.to + 1 /\ active'.address \notin {closed.address, None}
    BY <1>6, <2>1, <2>2
  <2>5. ASSUME NEW i \in intervals'
        PROVE  \/ active'.from = i.to + 1 /\ active'.address \notin {i.address, None}
               \/ Followed(i)'
    BY <2>1, <2>3, <2>4
  <2> QED BY <1>1, <1>3, <2>5 DEF TilingInv, IntervalsTile, Chained
<1> QED BY <1>5, <1>6

\* The end closes the last interval.
LEMMA ConcludeTiles ==
  ASSUME HistoryInv, TilingInv, Conclude
  PROVE  TilingInv'
<1>1. /\ HistoryTypeOK /\ Walked /\ state = "walk" /\ IntervalsApart /\ Chained
      /\ state' \in {"done", "raised"}
  BY DEF HistoryInv, Conclude, TilingInv
<1>2. intervals' \subseteq intervals \cup {Interval(Open)} /\ intervals \subseteq intervals'
  BY DEF Conclude
<1>3. IntervalsApart'
  BY <1>1, <1>2, StillApart
<1> DEFINE last == Interval(Open)
<1>4. last.from = active.from /\ last.address = active.address /\ last.to = Open
  BY DEF Interval
<1> HIDE DEF last
<1>5. ASSUME state' = "done", NEW i \in intervals', i.to # Open
      PROVE  \E j \in intervals' : j.from = i.to + 1 /\ j.address # i.address
  <2>1. intervals' = IF active.address = None THEN intervals ELSE intervals \cup {last}
    BY <1>5 DEF Conclude, last
  <2>2. i \in intervals
    BY <1>4, <1>5, <2>1
  <2>3. CASE active.from = i.to + 1 /\ active.address \notin {i.address, None}
    BY <1>4, <2>1, <2>3
  <2>4. CASE Followed(i)
    BY <1>2, <2>4 DEF Followed
  <2> QED BY <1>1, <2>2, <2>3, <2>4 DEF Chained
<1> QED BY <1>1, <1>3, <1>5 DEF TilingInv, IntervalsTile, Chained

\* The intervals of a history in hand, and of one that is returned, are apart.
LEMMA TilingStep == HistoryInv /\ TilingInv /\ [HistoryNext]_historyVars => TilingInv'
<1> SUFFICES ASSUME HistoryInv, TilingInv, [HistoryNext]_historyVars PROVE TilingInv'
  OBVIOUS
<1>1. CASE ReadBaseline
  BY <1>1 DEF ReadBaseline, HistoryInv, TilingInv, IntervalsApart, IntervalsTile, Chained
<1>2. CASE HistoryFails
  BY <1>2 DEF HistoryFails, TilingInv, IntervalsApart, IntervalsTile, Chained
<1>3. CASE UNCHANGED historyVars
  BY <1>3 DEF historyVars, TilingInv, IntervalsApart, IntervalsTile, Chained, Followed
<1> QED BY <1>1, <1>2, <1>3, WalkTiles, ConcludeTiles DEF HistoryNext

\* Whatever the slot holds and the events say, a history has at most one
\* implementation for a block, and it names one for every block after the first
\* it names (Eip1967ImplementationResolver.history: the intervals are verified
\* and do not overlap).
THEOREM HistoryIsTiled == HistorySpec => [](IntervalsApart /\ IntervalsTile)
<1>1. HistoryInit => TilingInv
  BY DEF HistoryInit, TilingInv, IntervalsApart, IntervalsTile, Chained
<1>2. TilingInv => IntervalsApart /\ IntervalsTile
  BY DEF TilingInv
<1> QED BY <1>1, <1>2, TilingStep, HistoryInvariance, PTL DEF HistorySpec

\* An interval of the history has a block, unless it is the first, of the
\* implementation before the range, and the proxy was upgraded in the first block.
OnlyFirstIsEmpty ==
  \A i \in intervals : i.to # Open /\ i.to < i.from =>
    /\ i.from = FromBlock /\ i.to = FromBlock - 1
    /\ i.address = slot[Baseline]
    /\ Upgrade(FromBlock) \notin {None, i.address}

BeganWithSlot == state = "walk" /\ block = FromBlock => active.address = slot[Baseline]

\* The one interval that the CHECK of collection_implementations
\* (effective_to_block >= effective_from_block) would refuse, and that nobody
\* stores yet: history closes the implementation before the range at the block
\* before it began.  For every chain, whatever its slot holds, there is no other.
THEOREM EmptyIntervalIsFirst == HistorySpec => []OnlyFirstIsEmpty
<1>1. HistoryInit => OnlyFirstIsEmpty /\ BeganWithSlot
  BY DEF HistoryInit, OnlyFirstIsEmpty, BeganWithSlot
<1>2. HistoryInv /\ OnlyFirstIsEmpty /\ BeganWithSlot /\ [HistoryNext]_historyVars
        => OnlyFirstIsEmpty' /\ BeganWithSlot'
  <2> SUFFICES ASSUME HistoryInv, OnlyFirstIsEmpty, BeganWithSlot,
                      [HistoryNext]_historyVars
               PROVE  OnlyFirstIsEmpty' /\ BeganWithSlot'
    OBVIOUS
  <2>1. UNCHANGED <<slot, events>>
    BY DEF HistoryNext, ReadBaseline, Walk, Conclude, HistoryFails, historyVars
  <2>2. Upgrade(FromBlock)' = Upgrade(FromBlock)
    BY <2>1 DEF Upgrade
  <2>3. ASSUME NEW to, intervals' \subseteq intervals \cup {Interval(to)},
               to = Open \/ (to \in Int /\ to >= active.from)
                 \/ (to = FromBlock - 1 /\ active.from = FromBlock
                     /\ active.address = slot[Baseline]
                     /\ Upgrade(FromBlock) \notin {None, active.address})
        PROVE  OnlyFirstIsEmpty'
    <3> DEFINE new == Interval(to)
    <3>1. new.from = active.from /\ new.to = to /\ new.address = active.address
      BY DEF Interval
    <3>2. active.from \in Int
      BY HistoryAssumption DEF HistoryInv, HistoryTypeOK
    <3>3. intervals' \subseteq intervals \cup {new}
      BY <2>3
    <3> HIDE DEF new
    <3> QED BY <2>1, <2>2, <2>3, <3>1, <3>2, <3>3 DEF OnlyFirstIsEmpty
  <2>4. CASE ReadBaseline
    BY <2>1, <2>2, <2>4 DEF ReadBaseline, HistoryInv, OnlyFirstIsEmpty, BeganWithSlot
  <2>5. CASE Walk
    <3>1. /\ HistoryTypeOK /\ Walked /\ state = "walk"
          /\ block \in FromBlock..ToBlock /\ block' = block + 1
          /\ active.from \in FromBlock..ToBlock
          /\ intervals' \subseteq intervals \cup {Interval(block - 1)}
      BY <2>5, HistoryAssumption DEF Walk, HistoryInv, HistoryTypeOK
    <3>2. block' # FromBlock
      BY <3>1, HistoryAssumption
    <3>3. CASE active.from < block
      BY <2>3, <3>1, <3>2, <3>3, HistoryAssumption DEF BeganWithSlot
    <3>4. CASE ~ (active.from < block)
      <4>1. block = FromBlock /\ active.from = FromBlock /\ active.address = slot[Baseline]
        BY <3>1, <3>4, HistoryAssumption DEF Walked, BeganWithSlot
      <4>2. CASE Upgrade(block) \in {None, active.address}
        BY <2>1, <2>2, <2>5, <3>2, <4>2 DEF Walk, OnlyFirstIsEmpty, BeganWithSlot
      <4>3. CASE Upgrade(block) \notin {None, active.address}
        BY <2>3, <3>1, <3>2, <4>1, <4>3 DEF BeganWithSlot
      <4> QED BY <4>2, <4>3
    <3> QED BY <3>3, <3>4
  <2>6. CASE Conclude
    <3>1. intervals' \subseteq intervals \cup {Interval(Open)} /\ state' # "walk"
      BY <2>6 DEF Conclude
    <3> QED BY <2>3, <3>1 DEF BeganWithSlot
  <2>7. CASE HistoryFails \/ UNCHANGED historyVars
    BY <2>1, <2>2, <2>7 DEF HistoryFails, historyVars, OnlyFirstIsEmpty, BeganWithSlot
  <2> QED BY <2>4, <2>5, <2>6, <2>7 DEF HistoryNext
<1> QED BY <1>1, <1>2, HistoryInvariance, PTL DEF HistorySpec

=============================================================================
