---------------------------- MODULE WalletBalances ----------------------------
(***************************************************************************)
(* Balance snapshots of the execution wallets.  Showing the wallets asks   *)
(* for a refresh of each; the refreshes run on several workers at the same *)
(* time, may be delivered again, and may be slow.  A refresh asks the      *)
(* provider for the newest block, then for the balance at that block, and  *)
(* stores both unless the row already holds a newer block.                 *)
(***************************************************************************)
EXTENDS Integers

CONSTANTS
  Wallets,      \* rows of execution_wallets, which are never deleted
  Workers,      \* worker processes
  MaxBlock,     \* bound: height of the chain
  MaxMessages   \* bound: refresh messages of one wallet in the queue

ASSUME HeightAssumption == MaxBlock \in Nat
ASSUME MessagesAssumption == MaxMessages \in Nat \ {0}

VARIABLES
  head,      \* the newest block of the chain
  queue,     \* refresh messages waiting, for each wallet
  refresh,   \* the refresh each worker is running
  snapshot,  \* balance_block_number, and the block whose balance was stored
  newest     \* history: the newest block a refresh of the wallet brought

balanceVars == <<head, queue, refresh, snapshot, newest>>

Null == -1
Blocks == 0..MaxBlock
Resting == [pc |-> "resting"]
Refreshes ==
  {Resting} \cup [pc : {"number", "ack"}, wallet : Wallets]
            \cup [pc : {"balance"}, wallet : Wallets, block : Blocks]
            \cup [pc : {"update"}, wallet : Wallets, block : Blocks,
                  balanceOf : Blocks]

BalanceTypeOK ==
  /\ head \in Blocks
  /\ queue \in [Wallets -> 0..MaxMessages]
  /\ refresh \in [Workers -> Refreshes]
  /\ snapshot \in [Wallets -> [block : Blocks \cup {Null},
                               balanceOf : Blocks \cup {Null}]]
  /\ newest \in [Wallets -> Blocks \cup {Null}]

BalanceInit ==
  /\ head = 0
  /\ queue = [w \in Wallets |-> 0]
  /\ refresh = [k \in Workers |-> Resting]
  /\ snapshot = [w \in Wallets |-> [block |-> Null, balanceOf |-> Null]]
  /\ newest = [w \in Wallets |-> Null]

RefreshBecomes(k, state) == refresh' = [refresh EXCEPT ![k] = state]

-----------------------------------------------------------------------------

\* The chain (external); its blocks are final.
Mine ==
  /\ head < MaxBlock
  /\ head' = head + 1
  /\ UNCHANGED <<queue, refresh, snapshot, newest>>

\* list_wallets sends one message for each wallet; a send that fails is logged
\* and the next wallet goes on, so any of them may be missing.
ListWallets(sent) ==
  /\ \A w \in sent : queue[w] < MaxMessages
  /\ queue' = [w \in Wallets |-> IF w \in sent THEN queue[w] + 1 ELSE queue[w]]
  /\ UNCHANGED <<head, refresh, snapshot, newest>>

\* A worker receives the message and finds the wallet.
StartRefresh(k, w) ==
  /\ refresh[k] = Resting
  /\ queue[w] > 0
  /\ queue' = [queue EXCEPT ![w] = @ - 1]
  /\ RefreshBecomes(k, [pc |-> "number", wallet |-> w])
  /\ UNCHANGED <<head, snapshot, newest>>

\* eth_blockNumber, answered by a node that may be behind the chain.
ReadNumber(k, n) ==
  /\ refresh[k].pc = "number"
  /\ n <= head
  /\ RefreshBecomes(k, [pc |-> "balance", wallet |-> refresh[k].wallet,
                        block |-> n])
  /\ UNCHANGED <<head, queue, snapshot, newest>>

\* The block named in eth_getBalance.  Mutant: "latest".
AtLatest(k) == head
AtBlock(k) == refresh[k].block

ReadBalance(k) ==
  /\ refresh[k].pc = "balance"
  /\ RefreshBecomes(k, [pc |-> "update", wallet |-> refresh[k].wallet,
                        block |-> refresh[k].block, balanceOf |-> AtBlock(k)])
  /\ UNCHANGED <<head, queue, snapshot, newest>>

\* The WHERE of update_balance.  Mutant: the row is written whatever it holds.
NewerAlways(w, n) == TRUE
NotOlder(w, n) == snapshot[w].block = Null \/ snapshot[w].block <= n

UpdateBalance(k) ==
  /\ refresh[k].pc = "update"
  /\ LET w == refresh[k].wallet
         n == refresh[k].block
     IN /\ snapshot' =
             IF NotOlder(w, n)
             THEN [snapshot EXCEPT ![w] =
                     [block |-> n, balanceOf |-> refresh[k].balanceOf]]
             ELSE snapshot
        /\ newest' = [newest EXCEPT ![w] = IF n > @ THEN n ELSE @]
        /\ RefreshBecomes(k, [pc |-> "ack", wallet |-> w])
  /\ UNCHANGED <<head, queue>>

\* The task has returned, or raised at any point: the message is acknowledged
\* and nothing is tried again.
Acknowledge(k) ==
  /\ refresh[k] # Resting
  /\ RefreshBecomes(k, Resting)
  /\ UNCHANGED <<head, queue, snapshot, newest>>

\* The worker is lost before it acknowledged: the message comes back.
WorkerLost(k) ==
  /\ refresh[k] # Resting
  /\ queue[refresh[k].wallet] < MaxMessages
  /\ queue' = [queue EXCEPT ![refresh[k].wallet] = @ + 1]
  /\ RefreshBecomes(k, Resting)
  /\ UNCHANGED <<head, snapshot, newest>>

BalanceNext ==
  \/ Mine
  \/ \E sent \in SUBSET Wallets : ListWallets(sent)
  \/ \E k \in Workers :
       \/ \E w \in Wallets : StartRefresh(k, w)
       \/ \E n \in Blocks : ReadNumber(k, n)
       \/ ReadBalance(k)
       \/ UpdateBalance(k)
       \/ Acknowledge(k)
       \/ WorkerLost(k)

BalanceSpec == BalanceInit /\ [][BalanceNext]_balanceVars

-----------------------------------------------------------------------------

\* Whatever order the refreshes of a wallet end in, repeated ones included, its
\* row holds the newest block any of them brought, and the balance at that very
\* block: a slow refresh never puts an older balance over a newer one, and the
\* number stored beside a balance is not that of another block (update_balance,
\* balance_at_latest_block).
SnapshotIsNewest ==
  \A w \in Wallets :
    snapshot[w] = [block |-> newest[w], balanceOf |-> newest[w]]

=============================================================================
