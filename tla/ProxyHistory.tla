---------------------------- MODULE ProxyHistory ----------------------------
(***************************************************************************)
(* Eip1967ImplementationResolver.history: which implementation a proxy had *)
(* over a range of blocks, from its Upgraded events in the range, the      *)
(* storage slot before the range, and the slot at its end.                 *)
(***************************************************************************)
EXTENDS Integers, SequencesExt

CONSTANTS
  FromBlock, ToBlock,       \* start_block, end_block
  Implementations,
  None,             \* an empty storage slot
  MaxEvents         \* bound: Upgraded events in one block

ASSUME HistoryAssumption ==
  /\ FromBlock \in Nat /\ ToBlock \in Nat /\ FromBlock <= ToBlock
  /\ None \notin Implementations
  /\ MaxEvents \in Nat

VARIABLES
  slot,       \* the implementation the slot holds after each block
  events,     \* the implementations of the Upgraded events of each block, in
              \* the order of their log_index
  prefixed,   \* whether topics begin with "0x", as those of a node do
  block,      \* the next block whose upgrade is looked at
  active,     \* active_address, active_from
  intervals,
  state       \* "baseline", "walk", "done" or "raised"

historyVars == <<slot, events, prefixed, block, active, intervals, state>>

Baseline == IF FromBlock > 0 THEN FromBlock - 1 ELSE FromBlock
Slots == Implementations \cup {None}
Open == -2   \* effective_to_block = None, of the last interval

HistoryTypeOK ==
  /\ slot \in [Baseline..ToBlock -> Slots]
  /\ events \in [FromBlock..ToBlock -> BoundedSeq(Implementations, MaxEvents)]
  /\ prefixed \in BOOLEAN
  /\ block \in FromBlock..ToBlock + 1
  /\ active \in [address : Slots, from : FromBlock..ToBlock]
  /\ intervals \subseteq [address : Implementations, from : FromBlock..ToBlock,
                          to : FromBlock - 1..ToBlock \cup {Open}]
  /\ state \in {"baseline", "walk", "done", "raised"}

HistoryInit ==
  /\ slot \in [Baseline..ToBlock -> Slots]
  /\ events \in [FromBlock..ToBlock -> BoundedSeq(Implementations, MaxEvents)]
  /\ prefixed \in BOOLEAN
  /\ block = FromBlock
  /\ active = [address |-> None, from |-> FromBlock]
  /\ intervals = {}
  /\ state = "baseline"

\* implementation_from_upgrade compares a topic with one that has no prefix: it
\* raises on every event whose topics have one.
Readable == ~ prefixed \/ \A b \in FromBlock..ToBlock : events[b] = <<>>

\* The events of the range are read, then the slot before it.
ReadBaseline ==
  /\ state = "baseline"
  /\ Readable
  /\ active' = [address |-> slot[Baseline], from |-> FromBlock]
  /\ state' = "walk"
  /\ UNCHANGED <<slot, events, prefixed, block, intervals>>

\* Of several upgrades in one block the last counts.  Mutant: the first.
FirstUpgrade(b) == IF events[b] = <<>> THEN None ELSE Head(events[b])
Upgrade(b) == IF events[b] = <<>> THEN None ELSE Last(events[b])

Interval(to) == [address |-> active.address, from |-> active.from, to |-> to]

\* One round of the loop over the blocks with an upgrade.
Walk ==
  /\ state = "walk"
  /\ block <= ToBlock
  /\ LET new == Upgrade(block)
     IN IF new \in {None, active.address}
        THEN UNCHANGED <<active, intervals>>
        ELSE /\ active' = [address |-> new, from |-> block]
             /\ intervals' = IF active.address = None THEN intervals
                             ELSE intervals \cup {Interval(block - 1)}
  /\ block' = block + 1
  /\ UNCHANGED <<slot, events, prefixed, state>>

\* The slot at the end must agree with the events.
Conclude ==
  /\ state = "walk"
  /\ block > ToBlock
  /\ IF active.address = slot[ToBlock]
     THEN /\ state' = "done"
          /\ intervals' = IF active.address = None THEN intervals
                          ELSE intervals \cup {Interval(Open)}
     ELSE /\ state' = "raised"
          /\ UNCHANGED intervals
  /\ UNCHANGED <<slot, events, prefixed, block, active>>

\* The provider fails, an implementation has no code, or an event (each, if they
\* are not Readable) or the slot is malformed.
HistoryFails ==
  /\ state \in {"baseline", "walk"}
  /\ state' = "raised"
  /\ UNCHANGED <<slot, events, prefixed, block, active, intervals>>

HistoryNext == ReadBaseline \/ Walk \/ Conclude \/ HistoryFails

HistorySpec == HistoryInit /\ [][HistoryNext]_historyVars

-----------------------------------------------------------------------------

\* A proxy that keeps to EIP-1967: its slot changes only with an event.
Faithful ==
  \A b \in FromBlock..ToBlock :
    slot[b] = IF events[b] # <<>> THEN Last(events[b])
              ELSE slot[IF b = Baseline THEN b ELSE b - 1]

Covers(i, b) == i.from <= b /\ (i.to = Open \/ b <= i.to)

\* The history of such a proxy names, for every block of the range, the
\* implementation its slot holds after that block, and no other; for no proxy
\* does it contradict the slot at the end (history).
HistoryFollowsSlot ==
  state = "done" =>
    \A b \in FromBlock..ToBlock : Faithful \/ b = ToBlock =>
      {i.address : i \in {j \in intervals : Covers(j, b)}} = {slot[b]} \ {None}

=============================================================================
