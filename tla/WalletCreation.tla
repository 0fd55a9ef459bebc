--------------------------- MODULE WalletCreation ---------------------------
(***************************************************************************)
(* Creating an execution wallet: the application's wallet service, the     *)
(* signer it calls over HTTP, and their two databases.  Calls run at the   *)
(* same time, in several processes; the application may give up on a call  *)
(* (timeout, error, death) while the signer goes on with it.  Each step    *)
(* below is one database transaction, or the KMS call, of one side.        *)
(***************************************************************************)
EXTENDS Naturals, FiniteSets

CONSTANTS
  Workspaces,   \* workspaces that create wallets
  Keys,         \* idempotency keys
  Calls,        \* calls of WalletService.create_wallet, each made once
  Limit,        \* max_wallets_per_workspace
  NoAddress,    \* in the abstract view, of a slot without a wallet
  MaxInFlight   \* bound: calls that can be in progress at the same time

ASSUME LimitAssumption == Limit \in Nat \ {0}
ASSUME NoAddressAssumption == NoAddress \notin Calls
ASSUME InFlightAssumption == MaxInFlight \in Nat \ {0}

VARIABLES
  call,       \* progress of each call in the application
  signer,     \* progress of each call's HTTP request in the signer
  envelopes,  \* signer_key_envelopes
  wallets     \* execution_wallets, all active

vars == <<call, signer, envelopes, wallets>>

Slots == Workspaces \X Keys

\* The address of the key pair that the request of call c generates is named
\* by c: key pairs are never generated twice.
Rows == [slot : Slots, address : Calls]

Idle == [pc |-> "idle"]
CallStates ==
  {Idle} \cup [pc : {"find", "count", "wait", "error"}, slot : Slots]
         \cup [pc : {"save", "done"}, slot : Slots, address : Calls]
SignerStates == {Idle} \cup [pc : {"find", "generate", "error"}]
                       \cup [pc : {"reply"}, address : Calls]

TypeOK ==
  /\ call \in [Calls -> CallStates]
  /\ signer \in [Calls -> SignerStates]
  /\ envelopes \subseteq Rows
  /\ wallets \subseteq Rows

Init ==
  /\ call = [c \in Calls |-> Idle]
  /\ signer = [c \in Calls |-> Idle]
  /\ envelopes = {}
  /\ wallets = {}

-----------------------------------------------------------------------------

Working == {c \in Calls : call[c].pc \in {"find", "count", "wait", "save"}}
Of(table, slot) == {row \in table : row.slot = slot}
WalletsOf(w) == {row \in wallets : row.slot[1] = w}

CallBecomes(c, state) == call' = [call EXCEPT ![c] = state]
SignerBecomes(c, state) == signer' = [signer EXCEPT ![c] = state]

\* The row of a unique index.
AddressIn(rows) == (CHOOSE row \in rows : TRUE).address

\* INSERT ... ON CONFLICT DO NOTHING.  Mutant: there is no such index.
Inserted(table, row) == table \cup {row}
SaveOrGet(table, row) ==
  IF Of(table, row.slot) = {} THEN table \cup {row} ELSE table

-----------------------------------------------------------------------------
(* WalletService.create_wallet.                                            *)

Begin(c, slot) ==
  /\ call[c] = Idle
  /\ Cardinality(Working) < MaxInFlight
  /\ CallBecomes(c, [pc |-> "find", slot |-> slot])
  /\ UNCHANGED <<signer, envelopes, wallets>>

Find(c) ==
  /\ call[c].pc = "find"
  /\ CallBecomes(c,
       IF Of(wallets, call[c].slot) = {}
       THEN [pc |-> "count", slot |-> call[c].slot]
       ELSE [pc |-> "done", slot |-> call[c].slot,
             address |-> AddressIn(Of(wallets, call[c].slot))])
  /\ UNCHANGED <<signer, envelopes, wallets>>

\* Mutant: the limit itself is still allowed.
UpToLimit(w) == Cardinality(WalletsOf(w)) <= Limit
BelowLimit(w) == Cardinality(WalletsOf(w)) < Limit

\* The count, then the request to the signer; or WalletLimitReached.
Count(c) ==
  /\ call[c].pc = "count"
  /\ IF BelowLimit(call[c].slot[1])
     THEN /\ CallBecomes(c, [pc |-> "wait", slot |-> call[c].slot])
          /\ SignerBecomes(c, [pc |-> "find"])
     ELSE /\ CallBecomes(c, [pc |-> "error", slot |-> call[c].slot])
          /\ UNCHANGED signer
  /\ UNCHANGED <<envelopes, wallets>>

Receive(c) ==
  /\ call[c].pc = "wait"
  /\ signer[c].pc = "reply"
  /\ CallBecomes(c, [pc |-> "save", slot |-> call[c].slot,
                     address |-> signer[c].address])
  /\ UNCHANGED <<signer, envelopes, wallets>>

Save(c) ==
  /\ call[c].pc = "save"
  /\ wallets' = SaveOrGet(wallets, [slot |-> call[c].slot,
                                    address |-> call[c].address])
  /\ CallBecomes(c, [pc |-> "done", slot |-> call[c].slot,
                     address |-> AddressIn(Of(wallets', call[c].slot))])
  /\ UNCHANGED <<signer, envelopes>>

\* The transaction of Save commits, and its answer is lost: the connection
\* breaks, or the process dies.
LoseAnswer(c) ==
  /\ call[c].pc = "save"
  /\ wallets' = SaveOrGet(wallets, [slot |-> call[c].slot,
                                    address |-> call[c].address])
  /\ CallBecomes(c, [pc |-> "error", slot |-> call[c].slot])
  /\ UNCHANGED <<signer, envelopes>>

\* A timeout, an HTTP or database error, or the death of the process, at any
\* point; what the signer does with the request does not depend on it.
GiveUp(c) ==
  /\ c \in Working
  /\ CallBecomes(c, [pc |-> "error", slot |-> call[c].slot])
  /\ UNCHANGED <<signer, envelopes, wallets>>

-----------------------------------------------------------------------------
(* SignerWalletService.create_wallet.                                      *)

\* find_by_idempotency.
Stored(slot) == Of(envelopes, slot)

SignerFind(c) ==
  /\ signer[c].pc = "find"
  /\ SignerBecomes(c,
       IF Stored(call[c].slot) = {} THEN [pc |-> "generate"]
       ELSE [pc |-> "reply", address |-> AddressIn(Stored(call[c].slot))])
  /\ UNCHANGED <<call, envelopes, wallets>>

\* The descriptor of the persisted envelope.  Mutant: of the generated one.
DescribeGenerated(c, rows) == c
Describe(c, rows) == AddressIn(rows)

\* create_key_envelope asks KMS for a data key, then the envelope is saved.
SignerSave(c) ==
  /\ signer[c].pc = "generate"
  /\ envelopes' = SaveOrGet(envelopes, [slot |-> call[c].slot, address |-> c])
  /\ SignerBecomes(c, [pc |-> "reply",
                       address |-> Describe(c, Of(envelopes', call[c].slot))])
  /\ UNCHANGED <<call, wallets>>

\* KMS, the database or the process fails.
SignerFail(c) ==
  /\ signer[c].pc \in {"find", "generate"}
  /\ SignerBecomes(c, [pc |-> "error"])
  /\ UNCHANGED <<call, envelopes, wallets>>

-----------------------------------------------------------------------------

Next ==
  \E c \in Calls :
    \/ \E slot \in Slots : Begin(c, slot)
    \/ Find(c)
    \/ Count(c)
    \/ Receive(c)
    \/ Save(c)
    \/ LoseAnswer(c)
    \/ GiveUp(c)
    \/ SignerFind(c)
    \/ SignerSave(c)
    \/ SignerFail(c)

Spec == Init /\ [][Next]_vars

-----------------------------------------------------------------------------
(* Safety.                                                                 *)

\* Each wallet the application shows has its key in the signer: whichever
\* of several racing or abandoned requests saved its envelope, the wallet of a
\* slot carries the address of that envelope (save_or_get on both sides).
WalletsHaveKeys == wallets \subseteq envelopes

\* An address belongs to one workspace and one key.
AddressesUnshared ==
  \A x, y \in wallets : x.address = y.address => x = y

\* A key pair no wallet uses is left behind only by a call that gave up, or
\* belongs to a call that is still in progress.
OrphansExplained ==
  \A e \in envelopes \ wallets :
    \E c \in Calls : call[c].pc \in {"wait", "save", "error"}
                       /\ call[c].slot = e.slot

\* Calls that overlap may exceed the configured number of wallets, for
\* create_wallet counts before it asks the signer; they exceed it by fewer
\* than the calls that can overlap.  Calls made one at a time keep the limit.
ExcessBounded ==
  \A w \in Workspaces :
    Cardinality(WalletsOf(w)) <= Limit + MaxInFlight - 1

-----------------------------------------------------------------------------
(* Refinement: what callers are promised.                                  *)

AnswerOf(c) ==
  CASE call[c].pc = "done"  -> [kind |-> "address", slot |-> call[c].slot,
                                address |-> call[c].address]
    [] call[c].pc = "error" -> [kind |-> "error"]
    [] OTHER                -> [kind |-> "none"]

MadeOf(slot) ==
  IF Of(wallets, slot) = {} THEN NoAddress
  ELSE AddressIn(Of(wallets, slot))

Promise == INSTANCE IdempotentCreation
  WITH Addresses <- Calls,
       made <- [slot \in Slots |-> MadeOf(slot)],
       answer <- [c \in Calls |-> AnswerOf(c)]

\* Repeated and concurrent calls with one idempotency key are answered with
\* one wallet (docs/adr/004, WalletService.create_wallet).
Idempotent == Promise!Spec

-----------------------------------------------------------------------------
(* implementation.md, line 298: the application enforces the configured    *)
(* wallet limit of a workspace.  Calls that overlap create more.           *)
WithinLimit ==
  \A w \in Workspaces : Cardinality(WalletsOf(w)) <= Limit

=============================================================================
