---------------------------- MODULE MintRecords ----------------------------
(***************************************************************************)
(* What a collection's scan writes down of the logs it is given: the       *)
(* evidence, a row for each mint that decode_mint_log finds in a log, and  *)
(* the identity that enrich_mint finds for the rows of a transaction.      *)
(* CollectionScan says when batches are committed and blocks enriched;     *)
(* here any batch may be committed again and any transaction enriched next.*)
(*                                                                         *)
(* The node writes topics with "0x" in front.  The decoder compares them   *)
(* with the .hex() of HexBytes, which has no prefix.                       *)
(***************************************************************************)
EXTENDS Integers, Sequences, FiniteSetsExt

CONSTANTS
  Positions,  \* where logs of the collection may be: [block, tx, index]
  Forms,      \* what a log at a position may be
  MaxRange    \* max_erc2309_range

Kinds == {"transfer", "single", "batch", "consecutive", "other"}

\* topics[0] is a kind after a prefix.  minter says whether the topic of the
\* sender is the zero address, legible whether the data and the other topics
\* have the expected form.  The arguments are the token of a transfer, the token
\* and the quantity of a single, the two arrays of a batch and the first and the
\* last token of a consecutive transfer.
LogForms == [kind : Kinds, prefix : {"", "0x"}, removed : BOOLEAN, topics : 0..4,
             minter : BOOLEAN, legible : BOOLEAN,
             tokens : Seq(Nat), quantities : Seq(Nat)]

\* A chain has as many logs as its blocks hold; log_index is the log's index in
\* its block, and a transaction has one block.
ASSUME PositionsAssumption ==
  /\ IsFiniteSet(Positions)
  /\ Positions \subseteq [block : Nat, tx : STRING, index : Nat]
  /\ \A p, q \in Positions : p.tx = q.tx /\ p.index = q.index => p = q
  /\ \A p, q \in Positions : p.tx = q.tx => p.block = q.block
\* The ABI types of the arguments.
ASSUME FormsAssumption ==
  /\ Forms \subseteq LogForms
  /\ \A f \in Forms :
       /\ f.kind \in {"transfer", "single"} => Len(f.tokens) = 1
       /\ f.kind = "single" => Len(f.quantities) = 1
       /\ f.kind = "consecutive" => Len(f.tokens) = 2
ASSUME RangeAssumption == MaxRange \in Nat

VARIABLES
  chain,     \* the collection's logs, a form for each position that has one
  calls,     \* the transactions that call the collection itself
  evidence,  \* raw_evidence: the positions whose log is stored
  rows       \* mint_events: the identity of each mint that is recorded

vars == <<chain, calls, evidence, rows>>

Txs == {p.tx : p \in Positions}
Mints == [tx : STRING, index : Nat, sub : Nat, token : Nat, quantity : Nat \ {0}]
Identities == {"not_enriched", "direct_transaction_sender",
               "indirect_call_requires_trace"}

TypeOK ==
  /\ DOMAIN chain \subseteq Positions /\ chain \in [DOMAIN chain -> Forms]
  /\ calls \subseteq Txs
  /\ evidence \subseteq DOMAIN chain
  /\ DOMAIN rows \subseteq Mints /\ rows \in [DOMAIN rows -> Identities]

Init ==
  /\ \E logged \in SUBSET Positions : chain \in [logged -> Forms]
  /\ calls \in SUBSET Txs
  /\ evidence = {}
  /\ rows = [m \in {} |-> "not_enriched"]

-----------------------------------------------------------------------------
(* decode_mint_log.                                                        *)

\* The log is of the standard event and not skipped.
Recognised(f, kind) ==
  /\ ~ f.removed
  /\ f.prefix = "" /\ f.kind = kind
  /\ f.topics = 4 /\ f.minter

Width(f) == f.tokens[2] - f.tokens[1] + 1

\* It raises.
Refused(f) ==
  /\ \E kind \in Kinds \ {"other"} : Recognised(f, kind)
  /\ \/ ~ f.legible
     \/ f.kind = "batch" /\ Len(f.tokens) # Len(f.quantities)
     \/ f.kind = "consecutive" /\ (Width(f) <= 0 \/ Width(f) > MaxRange)
     \/ \E kind \in {"single", "batch"} :
          Recognised(f, kind) /\ \E i \in DOMAIN f.quantities : f.quantities[i] = 0

Mint(p, sub, token, quantity) ==
  [tx |-> p.tx, index |-> p.index, sub |-> sub, token |-> token, quantity |-> quantity]

\* The range policy.  Mutant: the last token is left out.
ConsecutiveShort(p, f) == {Mint(p, n, f.tokens[1] + n, 1) : n \in 0 .. Width(f) - 2}
Consecutive(p, f) == {Mint(p, n, f.tokens[1] + n, 1) : n \in 0 .. Width(f) - 1}

\* The mints of a log that is not refused.
Decoded(p, f) ==
  CASE Recognised(f, "transfer") -> {Mint(p, 0, f.tokens[1], 1)}
    [] Recognised(f, "single") -> {Mint(p, 0, f.tokens[1], f.quantities[1])}
    [] Recognised(f, "batch") ->
         {Mint(p, i - 1, f.tokens[i], f.quantities[i]) : i \in DOMAIN f.tokens}
    [] Recognised(f, "consecutive") -> Consecutive(p, f)
    [] OTHER -> {}

-----------------------------------------------------------------------------
(* The transactions.                                                       *)

\* The unique constraint.  Mutant: the transaction is missing.
KeyInBlock(m) == <<m.index, m.sub>>
Key(m) == <<m.tx, m.index, m.sub>>

Recorded == DOMAIN rows

\* ON CONFLICT DO NOTHING.  Mutant: the row is written again.
RecordAgain(mints) ==
  [m \in Recorded \cup mints |-> IF m \in mints THEN "not_enriched" ELSE rows[m]]
Record(mints) ==
  LET new == {m \in mints : \A r \in Recorded : Key(r) # Key(m)}
  IN  [m \in Recorded \cup new |-> IF m \in Recorded THEN rows[m] ELSE "not_enriched"]

Logs(first, last) == {p \in DOMAIN chain : p.block \in first .. last}

\* SqlAlchemyMintBatchConsumer.commit.  A log that is refused raises, and nothing
\* of its batch is stored.
Commit(first, last) ==
  LET batch == Logs(first, last)
  IN  /\ \A p \in batch : ~ Refused(chain[p])
      /\ evidence' = evidence \cup batch
      /\ rows' = Record(UNION {Decoded(p, chain[p]) : p \in batch})
      /\ UNCHANGED <<chain, calls>>

\* enrich_mint, of a receipt that matches its transaction and its mint: no caller
\* names relayers or knows the state of the sale.
Identity(tx) == IF tx \in calls THEN "direct_transaction_sender"
                ELSE "indirect_call_requires_trace"

Unenriched(tx) == {m \in Recorded : m.tx = tx /\ rows[m] = "not_enriched"}

\* enrich_range for one transaction.
Enrich(tx) ==
  /\ Unenriched(tx) # {}
  /\ rows' = [m \in Recorded |-> IF m \in Unenriched(tx) THEN Identity(tx) ELSE rows[m]]
  /\ UNCHANGED <<chain, calls, evidence>>

Blocks == {p.block : p \in Positions}

Next == \/ \E first, last \in Blocks : first <= last /\ Commit(first, last)
        \/ \E tx \in Txs : Enrich(tx)

Spec == Init /\ [][Next]_vars

-----------------------------------------------------------------------------
(* Properties.                                                             *)

\* However often and in whatever overlapping batches the logs are committed, the
\* rows are the mints of the stored logs: none missing, none twice (commit).
RowsOfEvidence == Recorded = UNION {Decoded(p, chain[p]) : p \in evidence}

\* What the standards say that a log mints of a token.
Minted(f, token) ==
  IF f.removed \/ f.topics # 4 \/ ~ f.minter THEN 0
  ELSE CASE f.kind = "transfer" /\ f.tokens[1] = token -> 1
         [] f.kind = "single" /\ f.tokens[1] = token -> f.quantities[1]
         [] f.kind = "batch" ->
              SumFunctionOnSet(f.quantities, {i \in DOMAIN f.tokens : f.tokens[i] = token})
         [] f.kind = "consecutive" /\ token \in f.tokens[1] .. f.tokens[2] -> 1
         [] OTHER -> 0

MintedBy(positions, token) == SumFunction([p \in positions |-> Minted(chain[p], token)])
RowsOf(token) == {m \in Recorded : m.token = token}
Supply(token) == SumFunction([m \in RowsOf(token) |-> m.quantity])

Tokens == UNION {{f.tokens[i] : i \in DOMAIN f.tokens} : f \in Forms}
Read(prefixes) == {p \in evidence : chain[p].prefix \in prefixes}

\* The rows add up to what the stored logs mint, for logs whose topics have no
\* prefix (decode_mint_log).
SupplyRecorded == \A token \in Tokens : Supply(token) = MintedBy(Read({""}), token)

\* The same for logs as the node writes them (tests/unit/test_mint_decoders.py).
NodeLogsRecorded == \A token \in Tokens : Supply(token) = MintedBy(evidence, token)

\* An identity that was found is not lost when the batch is committed again, by
\* another task or after a redelivery, and does not change (commit, enrich_range).
IdentityKept ==
  [][\A m \in Recorded :
       /\ m \in DOMAIN rows'
       /\ rows[m] # "not_enriched" => rows'[m] = rows[m]]_vars

=============================================================================
