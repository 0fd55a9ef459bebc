--------------------------- MODULE DeploymentProbe ---------------------------
(***************************************************************************)
(* EthereumCollectionDiscovery.probe: the block a contract was deployed    *)
(* in, by binary search over the blocks up to the finalized one for the    *)
(* first that has code.  Code need not stay once it is there: a contract   *)
(* may be destroyed and deployed again.                                    *)
(***************************************************************************)
EXTENDS Integers

CONSTANT Finalized   \* number of the finalized block

ASSUME FinalizedAssumption == Finalized \in Nat

VARIABLES
  code,   \* code[b]: the address has code at block b
  low,
  high,
  phase   \* "check", "search", "found", "invalid" or "failed"

probeVars == <<code, low, high, phase>>

Heights == 0..Finalized

ProbeTypeOK ==
  /\ code \in [Heights -> BOOLEAN]
  /\ low \in Heights
  /\ high \in Heights
  /\ phase \in {"check", "search", "found", "invalid", "failed"}

ProbeInit ==
  /\ code \in [Heights -> BOOLEAN]
  /\ low = 0
  /\ high = Finalized
  /\ phase = "check"

\* No code at the finalized block: InvalidCollection.
CheckCode ==
  /\ phase = "check"
  /\ phase' = IF code[Finalized] THEN "search" ELSE "invalid"
  /\ UNCHANGED <<code, low, high>>

Middle == (low + high) \div 2

\* Mutant: the middle itself is left out.
BelowMiddle == Middle - 1
NewHigh == Middle

Halve ==
  /\ phase = "search"
  /\ low < high
  /\ IF code[Middle]
     THEN high' = NewHigh /\ UNCHANGED low
     ELSE low' = Middle + 1 /\ UNCHANGED high
  /\ UNCHANGED <<code, phase>>

\* The block's hash is read, and the probe returned.
Found ==
  /\ phase = "search"
  /\ low >= high
  /\ phase' = "found"
  /\ UNCHANGED <<code, low, high>>

\* The provider fails, or is of another chain.
ProbeFails ==
  /\ phase \in {"check", "search"}
  /\ phase' = "failed"
  /\ UNCHANGED <<code, low, high>>

ProbeNext == CheckCode \/ Halve \/ Found \/ ProbeFails

ProbeSpec == ProbeInit /\ [][ProbeNext]_probeVars

\* Whatever the contract's life was, the block returned is one in which code
\* appeared: it has code, and the block before it has none (probe).  So it is
\* the first with code when code, once there, stays.
BoundaryFound ==
  phase = "found" => code[low] /\ (low = 0 \/ ~ code[low - 1])

=============================================================================
