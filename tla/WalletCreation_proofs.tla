------------------------ MODULE WalletCreation_proofs ------------------------
(***************************************************************************)
(* What wallet creation guarantees for any number of workspaces, keys and  *)
(* calls, however they overlap and wherever they fail; what the balance    *)
(* rows hold for any number of workers and any chain.                      *)
(***************************************************************************)
EXTENDS WalletCreation, WalletBalances, FiniteSetTheorems, TLAPS

\* A unique index: one row per slot.
Unique(table) == \A x, y \in table : x.slot = y.slot => x = y

\* A reply, and a wallet about to be saved, name the stored envelope.
RepliesStored ==
  \A c \in Calls :
    /\ call[c] = Idle => signer[c] = Idle
    /\ call[c].pc \in {"find", "count"} => signer[c] = Idle
    /\ signer[c].pc = "reply" =>
         [slot |-> call[c].slot, address |-> signer[c].address] \in envelopes
    /\ call[c].pc = "save" =>
         [slot |-> call[c].slot, address |-> call[c].address] \in envelopes
    /\ call[c].pc = "done" =>
         [slot |-> call[c].slot, address |-> call[c].address] \in wallets

\* Each envelope was saved by the request of the call that names its address.
EnvelopesOwned ==
  \A e \in envelopes :
    /\ call[e.address] # Idle
    /\ signer[e.address].pc = "reply"
    /\ call[e.address].slot = e.slot
    /\ call[e.address].pc \in {"wait", "save", "done", "error"}

IInv ==
  TypeOK /\ Unique(envelopes) /\ WalletsHaveKeys /\ RepliesStored /\ EnvelopesOwned

-----------------------------------------------------------------------------

\* The row of a slot in a table with a unique index.
LEMMA RowOfSlot ==
  ASSUME NEW table \in SUBSET Rows, Unique(table), NEW row \in table
  PROVE  /\ Of(table, row.slot) = {row}
         /\ AddressIn(Of(table, row.slot)) = row.address
<1>1. Of(table, row.slot) = {row}
  BY DEF Of, Unique
<1>2. (CHOOSE r \in {row} : TRUE) = row
  OBVIOUS
<1> QED BY <1>1, <1>2 DEF AddressIn

\* Saving a row leaves the index unique and its slot with a row, the one that
\* was there if there was one.
LEMMA SaveOrGetRow ==
  ASSUME NEW table \in SUBSET Rows, Unique(table), NEW slot \in Slots,
         NEW a \in Calls
  PROVE  LET row == [slot |-> slot, address |-> a]
             saved == SaveOrGet(table, row) IN
         /\ saved \in SUBSET Rows
         /\ Unique(saved)
         /\ table \subseteq saved
         /\ saved \subseteq table \cup {row}
         /\ AddressIn(Of(saved, slot)) \in Calls
         /\ [slot |-> slot, address |-> AddressIn(Of(saved, slot))] \in saved
         /\ Of(table, slot) = {} => saved = table \cup {row}
         /\ Of(table, slot) # {} => saved = table
<1> DEFINE row == [slot |-> slot, address |-> a]
           saved == SaveOrGet(table, row)
<1>0. row \in Rows /\ row.slot = slot /\ row.address = a
  BY DEF Rows
<1> HIDE DEF row
<1>1. CASE Of(table, slot) = {}
  <2>1. saved = table \cup {row}
    BY <1>0, <1>1 DEF SaveOrGet
  <2>2. Unique(saved)
    BY <1>0, <1>1, <2>1 DEF Unique, Of
  <2>3. AddressIn(Of(saved, slot)) = a
    BY <1>0, <2>1, <2>2, RowOfSlot
  <2>4. [slot |-> slot, address |-> a] = row
    BY DEF row
  <2> QED BY <1>0, <1>1, <2>1, <2>2, <2>3, <2>4 DEF row
<1>2. CASE Of(table, slot) # {}
  <2>1. saved = table
    BY <1>0, <1>2 DEF SaveOrGet
  <2>2. PICK old \in table : old.slot = slot
    BY <1>2 DEF Of
  <2>3. old = [slot |-> slot, address |-> old.address] /\ old.address \in Calls
    BY <2>2 DEF Rows
  <2>4. AddressIn(Of(saved, slot)) = old.address
    BY <2>1, <2>2, RowOfSlot
  <2> QED BY <1>2, <2>1, <2>2, <2>3, <2>4 DEF row
<1> QED BY <1>1, <1>2 DEF row

\* What a call and its request carry, by their stage.
LEMMA Stages ==
  ASSUME TypeOK, NEW c \in Calls
  PROVE  /\ call[c] # Idle => call[c].slot \in Slots
         /\ call[c].pc \in {"save", "done"} => call[c].address \in Calls
         /\ signer[c].pc = "reply" => signer[c].address \in Calls
         /\ call[c] = Idle <=> call[c].pc = "idle"
         /\ signer[c] = Idle <=> signer[c].pc = "idle"
         /\ call[c].pc \in {"idle", "find", "count", "wait", "save", "done", "error"}
         /\ signer[c].pc \in {"idle", "find", "generate", "reply", "error"}
  BY DEF TypeOK, CallStates, SignerStates, Idle

-----------------------------------------------------------------------------

Late == {"wait", "save", "done", "error"}

\* A step that moves one call and its request and changes no table: it keeps
\* the call's slot, follows no reply but the stored one, and takes back none.
LEMMA QuietStep ==
  ASSUME IInv, NEW c \in Calls, NEW k \in CallStates, NEW g \in SignerStates,
         CallBecomes(c, k), SignerBecomes(c, g),
         envelopes' = envelopes, wallets' = wallets,
         k # Idle,
         k.pc \in {"find", "count"} => g = Idle,
         call[c] # Idle => k.slot = call[c].slot,
         g.pc = "reply" =>
           [slot |-> k.slot, address |-> g.address] \in envelopes,
         k.pc = "save" =>
           [slot |-> k.slot, address |-> k.address] \in envelopes,
         k.pc = "done" =>
           [slot |-> k.slot, address |-> k.address] \in wallets,
         signer[c].pc = "reply" => g = signer[c],
         call[c].pc \in Late => k.pc \in Late
  PROVE  IInv'
<1> USE DEF IInv
<1>1. /\ call'[c] = k /\ signer'[c] = g
      /\ \A d \in Calls \ {c} : call'[d] = call[d] /\ signer'[d] = signer[d]
      /\ call' \in [Calls -> CallStates] /\ signer' \in [Calls -> SignerStates]
  BY DEF CallBecomes, SignerBecomes, TypeOK
<1>2. TypeOK' /\ Unique(envelopes)' /\ WalletsHaveKeys'
  BY <1>1 DEF TypeOK, WalletsHaveKeys, Unique
<1>3. RepliesStored'
  <2> SUFFICES ASSUME NEW d \in Calls
               PROVE  /\ call'[d] = Idle => signer'[d] = Idle
                      /\ call'[d].pc \in {"find", "count"} => signer'[d] = Idle
                      /\ signer'[d].pc = "reply" =>
                           [slot |-> call'[d].slot, address |-> signer'[d].address]
                             \in envelopes
                      /\ call'[d].pc = "save" =>
                           [slot |-> call'[d].slot, address |-> call'[d].address]
                             \in envelopes
                      /\ call'[d].pc = "done" =>
                           [slot |-> call'[d].slot, address |-> call'[d].address]
                             \in wallets
    BY DEF RepliesStored
  <2>1. CASE d = c
    BY <1>1, <2>1
  <2>2. CASE d # c
    BY <1>1, <2>2 DEF RepliesStored
  <2> QED BY <2>1, <2>2
<1>4. EnvelopesOwned'
  <2> SUFFICES ASSUME NEW e \in envelopes
               PROVE  /\ call'[e.address] # Idle
                      /\ signer'[e.address].pc = "reply"
                      /\ call'[e.address].slot = e.slot
                      /\ call'[e.address].pc \in Late
    BY DEF EnvelopesOwned, Late
  <2>1. e.address \in Calls
    BY DEF TypeOK, Rows
  <2>2. CASE e.address = c
    BY <1>1, <2>2 DEF EnvelopesOwned, Late
  <2>3. CASE e.address # c
    BY <1>1, <2>1, <2>3 DEF EnvelopesOwned, Late
  <2> QED BY <2>2, <2>3
<1> QED BY <1>2, <1>3, <1>4

\* The application's steps that change no table.
LEMMA CallStep ==
  ASSUME IInv, NEW c \in Calls,
         \/ \E slot \in Slots : Begin(c, slot)
         \/ Find(c) \/ Count(c) \/ Receive(c) \/ GiveUp(c)
  PROVE  IInv'
<1> USE DEF IInv, Late
<1>1. ASSUME NEW slot \in Slots, Begin(c, slot) PROVE IInv'
  <2> DEFINE k == [pc |-> "find", slot |-> slot]
  <2>1. k \in CallStates /\ k # Idle /\ k.pc = "find"
    BY DEF CallStates, Idle
  <2>2. CallBecomes(c, k) /\ SignerBecomes(c, Idle)
    BY <1>1 DEF Begin, SignerBecomes, TypeOK, RepliesStored
  <2>3. Idle.pc = "idle" /\ Idle \in SignerStates
    BY DEF Idle, SignerStates
  <2>4. call[c] = Idle /\ signer[c] = Idle
    BY <1>1 DEF Begin, RepliesStored
  <2> HIDE DEF k
  <2> QED BY <1>1, <2>1, <2>2, <2>3, <2>4, QuietStep DEF Begin
<1>2. CASE Find(c)
  <2> DEFINE k == IF Of(wallets, call[c].slot) = {}
                  THEN [pc |-> "count", slot |-> call[c].slot]
                  ELSE [pc |-> "done", slot |-> call[c].slot,
                        address |-> AddressIn(Of(wallets, call[c].slot))]
  <2>1. call[c].pc = "find" /\ call[c] # Idle /\ call[c].slot \in Slots
    BY <1>2, Stages DEF Find, Idle
  <2>2. CASE Of(wallets, call[c].slot) = {}
    <3>1. k = [pc |-> "count", slot |-> call[c].slot]
      BY <2>2
    <3>2. k \in CallStates /\ k # Idle /\ k.pc = "count" /\ k.slot = call[c].slot
      BY <2>1, <3>1 DEF CallStates, Idle
    <3>3. CallBecomes(c, k) /\ SignerBecomes(c, signer[c])
      BY <1>2 DEF Find, SignerBecomes, TypeOK
    <3> HIDE DEF k
    <3> QED BY <1>2, <2>1, <3>2, <3>3, QuietStep DEF Find, TypeOK, RepliesStored
  <2>3. CASE Of(wallets, call[c].slot) # {}
    <3> DEFINE a == AddressIn(Of(wallets, call[c].slot))
    <3>1. PICK row \in wallets : row.slot = call[c].slot
      BY <2>3 DEF Of
    <3>2. Unique(wallets)
      BY DEF WalletsHaveKeys, Unique
    <3>3. a = row.address /\ a \in Calls
          /\ [slot |-> call[c].slot, address |-> a] \in wallets
      <4>1. a = row.address
        BY <3>1, <3>2, RowOfSlot DEF TypeOK
      <4>2. row = [slot |-> row.slot, address |-> row.address]
            /\ row.address \in Calls
        BY DEF TypeOK, Rows
      <4> QED BY <3>1, <4>1, <4>2
    <3>4. k = [pc |-> "done", slot |-> call[c].slot, address |-> a]
      BY <2>3
    <3> HIDE DEF a
    <3>5. k \in CallStates /\ k # Idle /\ k.pc = "done" /\ k.slot = call[c].slot
          /\ k.address = a
      BY <2>1, <3>3, <3>4 DEF CallStates, Idle
    <3>6. CallBecomes(c, k) /\ SignerBecomes(c, signer[c])
      BY <1>2 DEF Find, SignerBecomes, TypeOK
    <3> HIDE DEF k
    <3> QED BY <1>2, <2>1, <3>3, <3>5, <3>6, QuietStep
            DEF Find, TypeOK, RepliesStored
  <2> QED BY <2>2, <2>3
<1>3. CASE Count(c)
  <2>1. call[c].pc = "count" /\ call[c] # Idle /\ call[c].slot \in Slots
    BY <1>3, Stages DEF Count, Idle
  <2>2. CASE BelowLimit(call[c].slot[1])
    <3> DEFINE k == [pc |-> "wait", slot |-> call[c].slot]
               g == [pc |-> "find"]
    <3>1. k \in CallStates /\ k # Idle /\ k.pc = "wait" /\ k.slot = call[c].slot
          /\ g \in SignerStates /\ g.pc = "find"
      BY <2>1 DEF CallStates, SignerStates, Idle
    <3>2. CallBecomes(c, k) /\ SignerBecomes(c, g)
      BY <1>3, <2>2 DEF Count
    <3>3. signer[c] = Idle /\ Idle.pc # "reply"
      BY <2>1 DEF RepliesStored, Idle
    <3> HIDE DEF k, g
    <3> QED BY <1>3, <2>1, <3>1, <3>2, <3>3, QuietStep DEF Count
  <2>3. CASE ~ BelowLimit(call[c].slot[1])
    <3> DEFINE k == [pc |-> "error", slot |-> call[c].slot]
    <3>1. k \in CallStates /\ k # Idle /\ k.pc = "error" /\ k.slot = call[c].slot
      BY <2>1 DEF CallStates, Idle
    <3>2. CallBecomes(c, k) /\ SignerBecomes(c, signer[c])
      BY <1>3, <2>3 DEF Count, SignerBecomes, TypeOK
    <3> HIDE DEF k
    <3> QED BY <1>3, <2>1, <3>1, <3>2, QuietStep DEF Count, TypeOK, RepliesStored
  <2> QED BY <2>2, <2>3
<1>4. CASE Receive(c)
  <2> DEFINE k == [pc |-> "save", slot |-> call[c].slot,
                   address |-> signer[c].address]
  <2>1. call[c].pc = "wait" /\ call[c] # Idle /\ call[c].slot \in Slots
        /\ signer[c].pc = "reply" /\ signer[c].address \in Calls
    BY <1>4, Stages DEF Receive, Idle
  <2>2. k \in CallStates /\ k # Idle /\ k.pc = "save" /\ k.slot = call[c].slot
        /\ k.address = signer[c].address
    BY <2>1 DEF CallStates, Idle
  <2>3. CallBecomes(c, k) /\ SignerBecomes(c, signer[c])
    BY <1>4 DEF Receive, SignerBecomes, TypeOK
  <2> HIDE DEF k
  <2> QED BY <1>4, <2>1, <2>2, <2>3, QuietStep DEF Receive, TypeOK, RepliesStored
<1>5. CASE GiveUp(c)
  <2> DEFINE k == [pc |-> "error", slot |-> call[c].slot]
  <2>1. call[c] # Idle /\ call[c].slot \in Slots
    BY <1>5, Stages DEF GiveUp, Working, Idle
  <2>2. k \in CallStates /\ k # Idle /\ k.pc = "error" /\ k.slot = call[c].slot
    BY <2>1 DEF CallStates, Idle
  <2>3. CallBecomes(c, k) /\ SignerBecomes(c, signer[c])
    BY <1>5 DEF GiveUp, SignerBecomes, TypeOK
  <2> HIDE DEF k
  <2> QED BY <1>5, <2>1, <2>2, <2>3, QuietStep DEF GiveUp, TypeOK, RepliesStored
<1> QED BY <1>1, <1>2, <1>3, <1>4, <1>5

\* The signer's steps that change no table.
LEMMA SignerStep ==
  ASSUME IInv, NEW c \in Calls, SignerFind(c) \/ SignerFail(c)
  PROVE  IInv'
<1> USE DEF IInv
<1>1. /\ call[c] # Idle /\ call[c] \in CallStates /\ call[c].slot \in Slots
      /\ ~ call[c].pc \in {"find", "count"}
      /\ signer[c].pc \in {"find", "generate"}
  <2>1. signer[c].pc \in {"find", "generate"} /\ Idle.pc = "idle"
    BY DEF SignerFind, SignerFail, Idle
  <2> QED BY <2>1, Stages DEF RepliesStored, TypeOK
<1>2. CallBecomes(c, call[c]) /\ envelopes' = envelopes /\ wallets' = wallets
  BY DEF SignerFind, SignerFail, CallBecomes, TypeOK
<1>3. /\ call[c].pc = "save" =>
           [slot |-> call[c].slot, address |-> call[c].address] \in envelopes
      /\ call[c].pc = "done" =>
           [slot |-> call[c].slot, address |-> call[c].address] \in wallets
  BY DEF RepliesStored
<1>4. CASE SignerFind(c) /\ Of(envelopes, call[c].slot) # {}
  <2> DEFINE a == AddressIn(Of(envelopes, call[c].slot))
             g == [pc |-> "reply", address |-> a]
  <2>1. PICK row \in envelopes : row.slot = call[c].slot
    BY <1>4 DEF Of
  <2>2. a = row.address
    BY <2>1, RowOfSlot DEF TypeOK
  <2>3. row = [slot |-> row.slot, address |-> row.address]
        /\ row.address \in Calls
    BY DEF TypeOK, Rows
  <2>4. SignerBecomes(c, g)
    BY <1>4 DEF SignerFind, Stored
  <2> HIDE DEF a
  <2>5. g \in SignerStates /\ g.pc = "reply" /\ g.address = a
    BY <2>2, <2>3 DEF SignerStates
  <2> HIDE DEF g
  <2> QED BY <1>1, <1>2, <1>3, <2>1, <2>2, <2>3, <2>4, <2>5, QuietStep
<1>5. CASE \/ SignerFail(c)
           \/ SignerFind(c) /\ Of(envelopes, call[c].slot) = {}
  <2>1. PICK pc \in {"generate", "error"} : SignerBecomes(c, [pc |-> pc])
    <3>1. CASE SignerFail(c)
      BY <3>1 DEF SignerFail
    <3>2. CASE SignerFind(c) /\ Of(envelopes, call[c].slot) = {}
      BY <3>2 DEF SignerFind, Stored
    <3> QED BY <1>5, <3>1, <3>2
  <2> DEFINE g == [pc |-> pc]
  <2>2. g \in SignerStates /\ g.pc # "reply"
    BY DEF SignerStates
  <2>3. SignerBecomes(c, g)
    BY <2>1
  <2> HIDE DEF g
  <2> QED BY <1>1, <1>2, <1>3, <2>2, <2>3, QuietStep
<1>6. \/ SignerFind(c) /\ Of(envelopes, call[c].slot) # {}
      \/ SignerFail(c)
      \/ SignerFind(c) /\ Of(envelopes, call[c].slot) = {}
  OBVIOUS
<1> QED BY <1>4, <1>5, <1>6

\* The signer saves its envelope, or finds that another request was first.
LEMMA SignerSaveStep ==
  ASSUME IInv, NEW c \in Calls, SignerSave(c)
  PROVE  IInv'
<1> USE DEF IInv
<1> DEFINE slot == call[c].slot
           row == [slot |-> slot, address |-> c]
           a == AddressIn(Of(envelopes', slot))
           g == [pc |-> "reply", address |-> a]
<1>1. /\ signer[c].pc = "generate" /\ slot \in Slots /\ call[c] # Idle
      /\ call[c].pc \in Late
  <2>1. signer[c].pc = "generate" /\ Idle.pc = "idle"
    BY DEF SignerSave, Idle
  <2> QED BY <2>1, Stages DEF RepliesStored, Late
<1>2. envelopes' = SaveOrGet(envelopes, row)
  BY DEF SignerSave
<1>3. /\ envelopes' \in SUBSET Rows /\ Unique(envelopes')
      /\ envelopes \subseteq envelopes'
      /\ envelopes' \subseteq envelopes \cup {row}
      /\ a \in Calls /\ [slot |-> slot, address |-> a] \in envelopes'
  BY <1>1, <1>2, SaveOrGetRow DEF TypeOK
<1>4. row.address = c /\ row.slot = slot
  OBVIOUS
<1>5. SignerBecomes(c, g) /\ call' = call /\ wallets' = wallets
  BY DEF SignerSave, Describe
<1> HIDE DEF row, a
<1>6. g \in SignerStates /\ g.pc = "reply" /\ g.address = a
  BY <1>3 DEF SignerStates
<1> HIDE DEF g
<1>7. /\ signer'[c] = g
      /\ \A d \in Calls \ {c} : signer'[d] = signer[d]
      /\ signer' \in [Calls -> SignerStates]
  BY <1>5, <1>6 DEF SignerBecomes, TypeOK
<1>8. TypeOK' /\ Unique(envelopes)' /\ WalletsHaveKeys'
  BY <1>3, <1>5, <1>7 DEF TypeOK, WalletsHaveKeys, Unique
<1>9. RepliesStored'
  <2> SUFFICES ASSUME NEW d \in Calls
               PROVE  /\ call[d] = Idle => signer'[d] = Idle
                      /\ call[d].pc \in {"find", "count"} => signer'[d] = Idle
                      /\ signer'[d].pc = "reply" =>
                           [slot |-> call[d].slot, address |-> signer'[d].address]
                             \in envelopes'
                      /\ call[d].pc = "save" =>
                           [slot |-> call[d].slot, address |-> call[d].address]
                             \in envelopes'
                      /\ call[d].pc = "done" =>
                           [slot |-> call[d].slot, address |-> call[d].address]
                             \in wallets
    BY <1>5 DEF RepliesStored
  <2>1. CASE d = c
    BY <1>1, <1>3, <1>6, <1>7, <2>1 DEF RepliesStored, Late
  <2>2. CASE d # c
    BY <1>3, <1>7, <2>2 DEF RepliesStored
  <2> QED BY <2>1, <2>2
<1>10. EnvelopesOwned'
  <2> SUFFICES ASSUME NEW e \in envelopes'
               PROVE  /\ call[e.address] # Idle
                      /\ signer'[e.address].pc = "reply"
                      /\ call[e.address].slot = e.slot
                      /\ call[e.address].pc \in Late
    BY <1>5 DEF EnvelopesOwned, Late
  <2>1. CASE e \in envelopes
    <3>1. e.address \in Calls
      BY <2>1 DEF TypeOK, Rows
    <3> QED BY <1>5, <1>6, <1>7, <2>1, <3>1 DEF EnvelopesOwned, Late
  <2>2. CASE e = row
    BY <1>1, <1>4, <1>6, <1>7, <2>2
  <2> QED BY <1>3, <2>1, <2>2
<1> QED BY <1>8, <1>9, <1>10

\* The application saves its wallet, or finds that another call was first,
\* whether or not the answer reaches it.
LEMMA SaveStep ==
  ASSUME IInv, NEW c \in Calls, Save(c) \/ LoseAnswer(c)
  PROVE  /\ IInv'
         /\ Of(wallets, call[c].slot) = {} =>
              wallets' = wallets \cup {[slot |-> call[c].slot,
                                        address |-> call[c].address]}
         /\ Of(wallets, call[c].slot) # {} => wallets' = wallets
<1> USE DEF IInv
<1> DEFINE slot == call[c].slot
           row == [slot |-> slot, address |-> call[c].address]
           a == AddressIn(Of(wallets', slot))
<1>1. /\ call[c].pc = "save" /\ slot \in Slots /\ call[c].address \in Calls
      /\ call[c] # Idle /\ row \in envelopes
  <2>1. call[c].pc = "save" /\ Idle.pc = "idle"
    BY DEF Save, LoseAnswer, Idle
  <2> QED BY <2>1, Stages DEF RepliesStored
<1>2. wallets' = SaveOrGet(wallets, row)
  BY DEF Save, LoseAnswer
<1>3. Unique(wallets) /\ wallets \in SUBSET Rows
  BY DEF Unique, WalletsHaveKeys, TypeOK
<1>4. /\ wallets' \in SUBSET Rows
      /\ wallets \subseteq wallets'
      /\ wallets' \subseteq wallets \cup {row}
      /\ a \in Calls /\ [slot |-> slot, address |-> a] \in wallets'
      /\ Of(wallets, slot) = {} => wallets' = wallets \cup {row}
      /\ Of(wallets, slot) # {} => wallets' = wallets
  <2> DEFINE saved == SaveOrGet(wallets, row)
  <2>1. /\ saved \in SUBSET Rows
        /\ wallets \subseteq saved
        /\ saved \subseteq wallets \cup {row}
        /\ AddressIn(Of(saved, slot)) \in Calls
        /\ [slot |-> slot, address |-> AddressIn(Of(saved, slot))] \in saved
        /\ Of(wallets, slot) = {} => saved = wallets \cup {row}
        /\ Of(wallets, slot) # {} => saved = wallets
    BY <1>1, <1>3, SaveOrGetRow
  <2>2. wallets' = saved
    BY <1>2
  <2> HIDE DEF saved, row
  <2> QED BY <2>1, <2>2
<1>5. signer' = signer /\ envelopes' = envelopes
  BY DEF Save, LoseAnswer
<1>6. WalletsHaveKeys'
  BY <1>1, <1>4, <1>5 DEF WalletsHaveKeys
<1> HIDE DEF row, a
<1>7. PICK k \in CallStates :
        /\ CallBecomes(c, k)
        /\ k # Idle /\ k.slot = slot /\ k.pc \in {"done", "error"}
        /\ k.pc = "done" => k.address = a
  <2>1. CASE Save(c)
    <3> DEFINE saved == [pc |-> "done", slot |-> slot, address |-> a]
    <3>1. saved \in CallStates /\ saved # Idle
      BY <1>1, <1>4 DEF CallStates, Idle
    <3> QED BY <2>1, <3>1 DEF Save, a
  <2>2. CASE LoseAnswer(c)
    <3> DEFINE lost == [pc |-> "error", slot |-> slot]
    <3>1. lost \in CallStates /\ lost # Idle
      BY <1>1 DEF CallStates, Idle
    <3> QED BY <2>2, <3>1 DEF LoseAnswer
  <2> QED BY <2>1, <2>2
<1>8. /\ call'[c] = k
      /\ \A d \in Calls \ {c} : call'[d] = call[d]
      /\ call' \in [Calls -> CallStates]
  BY <1>7 DEF CallBecomes, TypeOK
<1>9. TypeOK' /\ Unique(envelopes)'
  BY <1>4, <1>5, <1>8 DEF TypeOK, Unique
<1>10. RepliesStored'
  <2> SUFFICES ASSUME NEW d \in Calls
               PROVE  /\ call'[d] = Idle => signer[d] = Idle
                      /\ call'[d].pc \in {"find", "count"} => signer[d] = Idle
                      /\ signer[d].pc = "reply" =>
                           [slot |-> call'[d].slot, address |-> signer[d].address]
                             \in envelopes
                      /\ call'[d].pc = "save" =>
                           [slot |-> call'[d].slot, address |-> call'[d].address]
                             \in envelopes
                      /\ call'[d].pc = "done" =>
                           [slot |-> call'[d].slot, address |-> call'[d].address]
                             \in wallets'
    BY <1>5 DEF RepliesStored
  <2>1. CASE d = c
    BY <1>4, <1>7, <1>8, <2>1 DEF RepliesStored
  <2>2. CASE d # c
    BY <1>4, <1>8, <2>2 DEF RepliesStored
  <2> QED BY <2>1, <2>2
<1>11. EnvelopesOwned'
  <2> SUFFICES ASSUME NEW e \in envelopes
               PROVE  /\ call'[e.address] # Idle
                      /\ signer[e.address].pc = "reply"
                      /\ call'[e.address].slot = e.slot
                      /\ call'[e.address].pc \in Late
    BY <1>5 DEF EnvelopesOwned, Late
  <2>1. e.address \in Calls
    BY DEF TypeOK, Rows
  <2>2. CASE e.address = c
    BY <1>7, <1>8, <2>2 DEF EnvelopesOwned, Late
  <2>3. CASE e.address # c
    BY <1>8, <2>1, <2>3 DEF EnvelopesOwned, Late
  <2> QED BY <2>2, <2>3
<1> QED BY <1>4, <1>6, <1>9, <1>10, <1>11 DEF row

-----------------------------------------------------------------------------

\* No call has begun and no key exists.
LEMMA InitIInv == Init => IInv
<1> SUFFICES ASSUME Init PROVE IInv
  OBVIOUS
<1>1. TypeOK /\ Unique(envelopes) /\ WalletsHaveKeys /\ EnvelopesOwned
  BY DEF Init, TypeOK, Unique, WalletsHaveKeys, EnvelopesOwned, CallStates,
         SignerStates
<1>2. RepliesStored
  <2>1. Idle.pc = "idle"
    BY DEF Idle
  <2> QED BY <2>1 DEF Init, RepliesStored
<1> QED BY <1>1, <1>2 DEF IInv

\* Every step preserves the inductive invariant.
LEMMA NextIInv == IInv /\ [Next]_vars => IInv'
<1> SUFFICES ASSUME IInv, [Next]_vars PROVE IInv'
  OBVIOUS
<1>1. CASE UNCHANGED vars
  BY <1>1 DEF vars, IInv, TypeOK, Unique, WalletsHaveKeys, RepliesStored,
              EnvelopesOwned
<1>2. CASE Next
  BY <1>2, CallStep, SignerStep, SignerSaveStep, SaveStep DEF Next
<1> QED BY <1>1, <1>2

\* IInv is an invariant of the system.
THEOREM Invariance == Spec => []IInv
<1> QED BY InitIInv, NextIInv, PTL DEF Spec

\* Every wallet carries the address of the key the signer stored for it.
THEOREM WalletKeysExist == Spec => []WalletsHaveKeys
<1>1. IInv => WalletsHaveKeys
  BY DEF IInv
<1> QED BY <1>1, Invariance, PTL

\* No two wallets share an address, across workspaces and keys.
THEOREM AddressesDiffer == Spec => []AddressesUnshared
<1>1. ASSUME IInv PROVE AddressesUnshared
  <2> SUFFICES ASSUME NEW x \in wallets, NEW y \in wallets,
                      x.address = y.address
               PROVE  x = y
    BY DEF AddressesUnshared
  <2>1. x.slot = y.slot
    BY <1>1 DEF IInv, WalletsHaveKeys, EnvelopesOwned
  <2> QED BY <1>1, <2>1 DEF IInv, WalletsHaveKeys, Unique
<1> QED BY <1>1, Invariance, PTL

\* A key pair without a wallet belongs to a call in progress or given up.
THEOREM OrphansHaveCalls == Spec => []OrphansExplained
<1>1. ASSUME IInv PROVE OrphansExplained
  <2> USE <1>1 DEF IInv
  <2> SUFFICES ASSUME NEW e \in envelopes, e \notin wallets
               PROVE  \E c \in Calls : call[c].pc \in {"wait", "save", "error"}
                                         /\ call[c].slot = e.slot
    BY DEF OrphansExplained
  <2> DEFINE c == e.address
  <2>1. /\ c \in Calls /\ call[c].slot = e.slot
        /\ call[c].pc \in {"wait", "save", "done", "error"}
    BY DEF TypeOK, Rows, EnvelopesOwned
  <2>2. call[c].pc # "done"
    <3> SUFFICES ASSUME call[c].pc = "done" PROVE FALSE
      OBVIOUS
    <3> DEFINE row == [slot |-> call[c].slot, address |-> call[c].address]
    <3>1. row \in wallets
      BY <2>1 DEF RepliesStored
    <3>2. row.slot = e.slot
      BY <2>1
    <3> HIDE DEF row
    <3> QED BY <3>1, <3>2 DEF WalletsHaveKeys, Unique
  <2> QED BY <2>1, <2>2
<1> QED BY <1>1, Invariance, PTL

-----------------------------------------------------------------------------
(* The refinement.                                                         *)

made == [slot \in Slots |-> MadeOf(slot)]
answer == [c \in Calls |-> AnswerOf(c)]

\* What a call was told, by its stage.
LEMMA Answers ==
  ASSUME TypeOK, NEW c \in Calls
  PROVE  /\ call[c].pc \in {"idle", "find", "count", "wait", "save"} =>
              AnswerOf(c) = [kind |-> "none"]
         /\ call[c].pc = "error" => AnswerOf(c) = [kind |-> "error"]
         /\ call[c].pc = "done" =>
              AnswerOf(c) = [kind |-> "address", slot |-> call[c].slot,
                             address |-> call[c].address]
  BY DEF AnswerOf

\* A wallet is what its slot was given.
LEMMA MadeIs ==
  ASSUME IInv, NEW row \in wallets
  PROVE  MadeOf(row.slot) = row.address /\ row.address # NoAddress
<1>1. wallets \in SUBSET Rows /\ Unique(wallets)
  BY DEF IInv, TypeOK, WalletsHaveKeys, Unique
<1>2. row.address \in Calls
  BY <1>1 DEF Rows
<1>3. Of(wallets, row.slot) = {row}
      /\ AddressIn(Of(wallets, row.slot)) = row.address
  BY <1>1, RowOfSlot
<1>4. Of(wallets, row.slot) # {}
  BY <1>3
<1> QED BY <1>2, <1>3, <1>4, NoAddressAssumption DEF MadeOf

\* Nothing has been promised yet.
LEMMA InitPromise == Init => Promise!Init
<1> SUFFICES ASSUME Init PROVE Promise!Init
  OBVIOUS
<1>1. \A slot \in Slots : MadeOf(slot) = NoAddress
  BY DEF Init, MadeOf, Of
<1>2. \A c \in Calls : AnswerOf(c) = [kind |-> "none"]
  <2>1. Idle.pc = "idle"
    BY DEF Idle
  <2> QED BY <2>1 DEF Init, AnswerOf
<1> QED BY <1>1, <1>2 DEF Promise!Init, Promise!Untold

\* The answers when one call is answered, or when none is.
LEMMA AnswerUpdate ==
  ASSUME NEW c \in Calls,
         \A d \in Calls \ {c} : call'[d] = call[d]
  PROVE  /\ answer' = [answer EXCEPT ![c] = AnswerOf(c)']
         /\ AnswerOf(c)' = AnswerOf(c) => answer' = answer
         /\ answer[c] = AnswerOf(c)
<1>1. \A d \in Calls \ {c} : AnswerOf(d)' = AnswerOf(d)
  BY DEF AnswerOf
<1> QED BY <1>1 DEF answer

\* What was made stays as it is while the wallets do.
LEMMA MadeUnchanged ==
  ASSUME wallets' = wallets
  PROVE  made' = made
<1>1. \A slot \in Slots : MadeOf(slot)' = MadeOf(slot)
  BY DEF MadeOf, Of, AddressIn
<1> QED BY <1>1 DEF made

\* Each step of the application and the signer keeps the promise.
LEMMA PromiseStep ==
  ASSUME IInv, IInv', NEW c \in Calls,
         \/ \E slot \in Slots : Begin(c, slot)
         \/ Find(c) \/ Count(c) \/ Receive(c)
         \/ Save(c) \/ LoseAnswer(c) \/ GiveUp(c)
         \/ SignerFind(c) \/ SignerSave(c) \/ SignerFail(c)
  PROVE  \/ \E slot \in Slots : Promise!Repeat(c, slot)
         \/ \E slot \in Slots, a \in Calls : Promise!Create(c, slot, a)
         \/ Promise!Fail(c)
         \/ made' = made /\ answer' = answer
<1> DEFINE slot == call[c].slot
<1>a. TypeOK /\ TypeOK'
  BY DEF IInv
<1>b. /\ \A d \in Calls \ {c} : call'[d] = call[d]
      /\ \A k : CallBecomes(c, k) => call'[c] = k
  BY <1>a DEF CallBecomes, Begin, Find, Count, Receive, Save, LoseAnswer,
              GiveUp, SignerFind, SignerSave, SignerFail, TypeOK
<1>c. answer' = [answer EXCEPT ![c] = AnswerOf(c)'] /\ answer[c] = AnswerOf(c)
  BY <1>b, AnswerUpdate
<1>1. ASSUME NEW s \in Slots, Begin(c, s) PROVE made' = made /\ answer' = answer
  <2>1. call[c].pc = "idle" /\ call'[c].pc = "find"
    BY <1>1, <1>b DEF Begin, Idle
  <2>2. AnswerOf(c)' = AnswerOf(c)
    BY <2>1 DEF AnswerOf
  <2> QED BY <1>1, <1>b, <2>2, AnswerUpdate, MadeUnchanged DEF Begin
<1>2. CASE \/ Find(c) /\ Of(wallets, slot) = {}
           \/ Count(c) /\ BelowLimit(slot[1])
           \/ Receive(c)
  <2>1. /\ call[c].pc \in {"find", "count", "wait"}
        /\ call'[c].pc \in {"count", "wait", "save"}
        /\ wallets' = wallets
    BY <1>2, <1>b DEF Find, Count, Receive
  <2>2. AnswerOf(c)' = AnswerOf(c)
    BY <2>1 DEF AnswerOf
  <2> QED BY <1>b, <2>1, <2>2, AnswerUpdate, MadeUnchanged
<1>3. CASE \/ GiveUp(c)
           \/ Count(c) /\ ~ BelowLimit(slot[1])
  <2>1. /\ call[c].pc \in {"find", "count", "wait", "save"}
        /\ call'[c].pc = "error"
        /\ wallets' = wallets
    BY <1>3, <1>b DEF GiveUp, Count, Working
  <2>2. AnswerOf(c) = [kind |-> "none"] /\ AnswerOf(c)' = [kind |-> "error"]
    BY <2>1 DEF AnswerOf
  <2>3. Promise!Fail(c)
    BY <1>c, <2>1, <2>2, MadeUnchanged
       DEF Promise!Fail, Promise!Untold, Promise!Error, made, answer
  <2> QED BY <2>3
<1>4. CASE Find(c) /\ Of(wallets, slot) # {}
  <2>1. PICK row \in wallets : row.slot = slot
    BY <1>4 DEF Of
  <2>2. /\ slot \in Slots /\ row.address \in Calls
        /\ AddressIn(Of(wallets, slot)) = row.address
    BY <2>1, RowOfSlot DEF IInv, TypeOK, Rows, WalletsHaveKeys, Unique
  <2>3. call'[c] = [pc |-> "done", slot |-> slot, address |-> row.address]
    BY <1>4, <1>b, <2>2 DEF Find
  <2>4. /\ AnswerOf(c) = [kind |-> "none"]
        /\ AnswerOf(c)' = [kind |-> "address", slot |-> slot,
                           address |-> row.address]
    BY <1>4, <2>3 DEF AnswerOf, Find
  <2>5. made[slot] = row.address /\ made[slot] # NoAddress /\ made' = made
    BY <1>4, <2>1, <2>2, MadeIs, MadeUnchanged DEF Find, made
  <2>6. Promise!Repeat(c, slot)
    BY <1>c, <2>2, <2>4, <2>5
       DEF Promise!Repeat, Promise!Untold, Promise!Told, made, answer
  <2> QED BY <2>2, <2>6
<1>5. CASE Save(c) \/ LoseAnswer(c)
  <2> DEFINE a == call[c].address
  <2>1. /\ call[c].pc = "save" /\ slot \in Slots /\ a \in Calls
        /\ [slot |-> slot, address |-> a] \in envelopes
    <3>1. call[c].pc = "save" /\ Idle.pc = "idle"
      BY <1>5 DEF Save, LoseAnswer, Idle
    <3> QED BY <1>a, <3>1, Stages DEF IInv, RepliesStored
  <2>2. \/ /\ call'[c].pc = "done" /\ call'[c].slot = slot
           /\ call'[c].address = AddressIn(Of(wallets', slot))
        \/ call'[c].pc = "error"
    BY <1>5, <1>b DEF Save, LoseAnswer
  <2>3. PICK row \in wallets' : row.slot = slot
          /\ row.address = AddressIn(Of(wallets', slot)) /\ row.address \in Calls
    <3>1. PICK row \in wallets' : row.slot = slot
      <4>1. CASE Of(wallets, slot) = {}
        <5> DEFINE new == [slot |-> slot, address |-> a]
        <5>1. new \in wallets' /\ new.slot = slot
          BY <1>5, <4>1, SaveStep
        <5> HIDE DEF new
        <5> QED BY <5>1
      <4>2. CASE Of(wallets, slot) # {}
        BY <1>5, <4>2, SaveStep DEF Of
      <4> QED BY <4>1, <4>2
    <3>2. wallets' \in SUBSET Rows /\ Unique(wallets')
      BY DEF IInv, TypeOK, WalletsHaveKeys, Unique
    <3> QED BY <3>1, <3>2, RowOfSlot DEF Rows
  <2>4. /\ AnswerOf(c) = [kind |-> "none"]
        /\ \/ AnswerOf(c)' = [kind |-> "address", slot |-> slot,
                              address |-> row.address]
           \/ AnswerOf(c)' = [kind |-> "error"]
    BY <2>1, <2>2, <2>3 DEF AnswerOf
  <2>5. CASE Of(wallets, slot) # {}
    <3>1. wallets' = wallets
      BY <1>5, <2>5, SaveStep
    <3>2. made[slot] = row.address /\ made[slot] # NoAddress /\ made' = made
      BY <2>1, <2>3, <3>1, MadeIs, MadeUnchanged DEF made
    <3>3. Promise!Repeat(c, slot) \/ Promise!Fail(c)
      BY <1>c, <2>1, <2>4, <3>2
         DEF Promise!Repeat, Promise!Fail, Promise!Untold, Promise!Told,
             Promise!Error, made, answer
    <3> QED BY <2>1, <3>3
  <2>6. CASE Of(wallets, slot) = {}
    <3> DEFINE new == [slot |-> slot, address |-> a]
    <3>1. wallets' = wallets \cup {new} /\ new.slot = slot /\ new.address = a
      BY <1>5, <2>6, SaveStep
    <3> HIDE DEF new
    <3>2. row = new
      BY <2>3, <2>6, <3>1 DEF Of
    <3>3. made[slot] = NoAddress
      BY <2>1, <2>6 DEF made, MadeOf
    <3>4. \A t \in Slots : made[t] # a
      <4> SUFFICES ASSUME NEW t \in Slots, MadeOf(t) = a PROVE FALSE
        BY DEF made
      <4>1. PICK old \in wallets : old.slot = t
        BY <2>1, NoAddressAssumption DEF MadeOf, Of
      <4>2. old.address = a
        BY <4>1, MadeIs
      <4>3. old \in envelopes /\ call[a].slot = t
        BY <4>1, <4>2 DEF IInv, WalletsHaveKeys, EnvelopesOwned
      <4>4. call[a].slot = slot
        <5>1. new \in envelopes
          BY <2>1 DEF new
        <5> QED BY <3>1, <5>1 DEF IInv, EnvelopesOwned
      <4> QED BY <2>6, <4>1, <4>3, <4>4 DEF Of
    <3>5. made' = [made EXCEPT ![slot] = a]
      <4> PICK s \in Slots : s = slot
        BY <2>1
      <4>1. \A t \in Slots : t # s => MadeOf(t)' = MadeOf(t)
        <5> SUFFICES ASSUME NEW t \in Slots, t # s
                     PROVE  MadeOf(t)' = MadeOf(t)
          OBVIOUS
        <5>1. Of(wallets', t) = Of(wallets, t)
          BY <3>1 DEF Of
        <5> QED BY <5>1 DEF MadeOf
      <4>2. MadeOf(s)' = a
        <5>1. Of(wallets', s) # {} /\ AddressIn(Of(wallets', s)) = a
          BY <2>3, <3>1, <3>2 DEF Of
        <5> QED BY <5>1 DEF MadeOf
      <4> QED BY <4>1, <4>2 DEF made
    <3>6. Promise!Create(c, slot, a)
      BY <1>c, <2>1, <2>4, <3>1, <3>2, <3>3, <3>4, <3>5
         DEF Promise!Create, Promise!Untold, Promise!Told, Promise!Error,
             made, answer
    <3> QED BY <2>1, <3>6
  <2> QED BY <2>5, <2>6
<1>6. CASE SignerFind(c) \/ SignerSave(c) \/ SignerFail(c)
  <2>1. call' = call /\ wallets' = wallets
    BY <1>6 DEF SignerFind, SignerSave, SignerFail
  <2>2. AnswerOf(c)' = AnswerOf(c)
    BY <2>1 DEF AnswerOf
  <2> QED BY <1>b, <2>1, <2>2, AnswerUpdate, MadeUnchanged
<1> QED BY <1>1, <1>2, <1>3, <1>4, <1>5, <1>6

\* Wallet creation implements the promise: whatever overlaps, fails or is
\* abandoned, each slot gets at most one address, no other slot's, and every
\* successful call is answered with the one of its slot.
THEOREM CreationIsIdempotent == Spec => Idempotent
<1>1. IInv /\ IInv' /\ [Next]_vars => [Promise!Next]_<<made, answer>>
  <2> SUFFICES ASSUME IInv, IInv', [Next]_vars
               PROVE  [Promise!Next]_<<made, answer>>
    OBVIOUS
  <2>1. CASE UNCHANGED vars
    <3>1. made' = made
      BY <2>1, MadeUnchanged DEF vars
    <3>2. \A c \in Calls : AnswerOf(c)' = AnswerOf(c)
      BY <2>1 DEF AnswerOf, vars
    <3> QED BY <3>1, <3>2 DEF answer
  <2>2. ASSUME NEW c \in Calls,
               \/ \E slot \in Slots : Begin(c, slot)
               \/ Find(c) \/ Count(c) \/ Receive(c)
               \/ Save(c) \/ LoseAnswer(c) \/ GiveUp(c)
               \/ SignerFind(c) \/ SignerSave(c) \/ SignerFail(c)
        PROVE  [Promise!Next]_<<made, answer>>
    BY <2>2, PromiseStep DEF Promise!Next
  <2> QED BY <2>1, <2>2 DEF Next
<1> QED BY <1>1, InitPromise, Invariance, PTL
        DEF Spec, Idempotent, Promise!Spec, made, answer

-----------------------------------------------------------------------------
(* The limit.  A call past the count may still add a wallet; there are     *)
(* never more of them than calls in progress.                              *)

Asking(w) == {c \in Calls : /\ call[c].pc \in {"wait", "save"}
                            /\ call[c].slot[1] = w}

Excess ==
  /\ IsFiniteSet(Working) /\ Cardinality(Working) <= MaxInFlight
  /\ \A w \in Workspaces :
       /\ IsFiniteSet(WalletsOf(w))
       /\ Cardinality(WalletsOf(w)) + Cardinality(Asking(w))
            <= Limit + MaxInFlight - 1

\* The calls past the count are calls in progress.
LEMMA AskingWork ==
  ASSUME IsFiniteSet(Working), NEW w
  PROVE  /\ Asking(w) \subseteq Working /\ IsFiniteSet(Asking(w))
         /\ Cardinality(Asking(w)) \in Nat
         /\ Cardinality(Asking(w)) <= Cardinality(Working)
         /\ Cardinality(Working) \in Nat
<1>1. Asking(w) \subseteq Working
  BY DEF Asking, Working
<1> QED BY <1>1, FS_Subset, FS_CardinalityType

\* A step that neither begins a call, nor passes the count, nor saves.
LEMMA QuietExcess ==
  ASSUME Excess, Working' \subseteq Working, wallets' = wallets,
         \A w \in Workspaces : Asking(w)' \subseteq Asking(w)
  PROVE  Excess'
<1>1. IsFiniteSet(Working') /\ Cardinality(Working') <= Cardinality(Working)
  BY FS_Subset DEF Excess
<1>2. Cardinality(Working) \in Nat /\ Cardinality(Working') \in Nat
  BY <1>1, FS_CardinalityType DEF Excess
<1>3. ASSUME NEW w \in Workspaces
      PROVE  /\ IsFiniteSet(WalletsOf(w)')
             /\ Cardinality(WalletsOf(w)') + Cardinality(Asking(w)')
                  <= Limit + MaxInFlight - 1
  <2>1. WalletsOf(w)' = WalletsOf(w)
    BY DEF WalletsOf
  <2>2. IsFiniteSet(Asking(w)) /\ Asking(w)' \subseteq Asking(w)
    BY AskingWork DEF Excess
  <2>3. Cardinality(Asking(w)') <= Cardinality(Asking(w))
    BY <2>2, FS_Subset
  <2>4. Cardinality(Asking(w)) \in Nat /\ Cardinality(Asking(w)') \in Nat
    BY <2>2, FS_Subset, FS_CardinalityType
  <2>5. Cardinality(WalletsOf(w)) \in Nat
    BY FS_CardinalityType DEF Excess
  <2> QED BY <2>1, <2>3, <2>4, <2>5, LimitAssumption, InFlightAssumption DEF Excess
<1> QED BY <1>1, <1>2, <1>3, InFlightAssumption DEF Excess

\* What a step of call c does to the calls.
LEMMA CallChanged ==
  ASSUME TypeOK, NEW c \in Calls, NEW s, CallBecomes(c, s)
  PROVE  /\ call'[c] = s
         /\ \A d \in Calls \ {c} : call'[d] = call[d]
  BY DEF TypeOK, CallBecomes

\* A wallet more of a workspace is a call less that may add one.
LEMMA SaveExcess ==
  ASSUME TypeOK, Excess, NEW c \in Calls, Save(c) \/ LoseAnswer(c)
  PROVE  Excess'
<1> DEFINE row == [slot |-> call[c].slot, address |-> call[c].address]
           v == call[c].slot[1]
<1>1. /\ call'[c].pc \in {"done", "error"}
      /\ \A d \in Calls \ {c} : call'[d] = call[d]
      /\ call[c].pc = "save"
  BY CallChanged DEF Save, LoseAnswer
<1>2. Working' \subseteq Working
  BY <1>1 DEF Working
<1>3. IsFiniteSet(Working') /\ Cardinality(Working') <= Cardinality(Working)
  BY <1>2, FS_Subset DEF Excess
<1>4. Cardinality(Working) \in Nat /\ Cardinality(Working') \in Nat
  BY <1>3, FS_CardinalityType DEF Excess
<1>5. wallets \subseteq wallets' /\ wallets' \subseteq wallets \cup {row}
  BY DEF Save, LoseAnswer, SaveOrGet
<1>6. ASSUME NEW w \in Workspaces
      PROVE  /\ IsFiniteSet(WalletsOf(w)')
             /\ Cardinality(WalletsOf(w)') + Cardinality(Asking(w)')
                  <= Limit + MaxInFlight - 1
  <2>1. /\ IsFiniteSet(WalletsOf(w)) /\ Cardinality(WalletsOf(w)) \in Nat
        /\ IsFiniteSet(Asking(w)) /\ Cardinality(Asking(w)) \in Nat
        /\ Cardinality(WalletsOf(w)) + Cardinality(Asking(w))
             <= Limit + MaxInFlight - 1
    BY FS_CardinalityType, AskingWork DEF Excess
  <2>2. CASE w = v
    <3>1. WalletsOf(w)' \subseteq WalletsOf(w) \cup {row}
      BY <1>5 DEF WalletsOf
    <3>2. /\ IsFiniteSet(WalletsOf(w) \cup {row})
          /\ Cardinality(WalletsOf(w) \cup {row}) <= Cardinality(WalletsOf(w)) + 1
          /\ Cardinality(WalletsOf(w) \cup {row}) \in Nat
      <4> HIDE DEF row
      <4>1. /\ IsFiniteSet(WalletsOf(w) \cup {row})
            /\ Cardinality(WalletsOf(w) \cup {row}) =
                 IF row \in WalletsOf(w) THEN Cardinality(WalletsOf(w))
                 ELSE Cardinality(WalletsOf(w)) + 1
        BY <2>1, FS_AddElement
      <4> QED BY <2>1, <4>1
    <3>3. /\ IsFiniteSet(WalletsOf(w)')
          /\ Cardinality(WalletsOf(w)') <= Cardinality(WalletsOf(w) \cup {row})
      BY <3>1, <3>2, FS_Subset
    <3>4. Cardinality(WalletsOf(w)') \in Nat
      BY <3>3, FS_CardinalityType
    <3>5. c \in Asking(w) /\ Asking(w)' = Asking(w) \ {c}
      BY <1>1, <2>2 DEF Asking
    <3>6. Cardinality(Asking(w)') = Cardinality(Asking(w)) - 1
      BY <2>1, <3>5, FS_RemoveElement
    <3> QED BY <2>1, <3>2, <3>3, <3>4, <3>6, LimitAssumption, InFlightAssumption
  <2>3. CASE w # v
    <3>1. WalletsOf(w)' = WalletsOf(w)
      BY <1>5, <2>3 DEF WalletsOf
    <3>2. Asking(w)' = Asking(w)
      BY <1>1, <2>3 DEF Asking
    <3> QED BY <2>1, <3>1, <3>2
  <2> QED BY <2>2, <2>3
<1> QED BY <1>3, <1>4, <1>6, InFlightAssumption DEF Excess

\* A call passes the count only below the limit.
LEMMA CountExcess ==
  ASSUME TypeOK, Excess, NEW c \in Calls, Count(c)
  PROVE  Excess'
<1> DEFINE v == call[c].slot[1]
<1>1. /\ call[c].pc = "count" /\ wallets' = wallets
      /\ call'[c].pc \in {"wait", "error"} /\ call'[c].slot = call[c].slot
      /\ call'[c].pc = "wait" => BelowLimit(v)
      /\ \A d \in Calls \ {c} : call'[d] = call[d]
  <2>1. CASE BelowLimit(v)
    BY <2>1, CallChanged DEF Count
  <2>2. CASE ~ BelowLimit(v)
    BY <2>2, CallChanged DEF Count
  <2> QED BY <2>1, <2>2
<1>2. Working' \subseteq Working
  BY <1>1 DEF Working
<1>3. CASE call'[c].pc = "error"
  <2>1. \A w \in Workspaces : Asking(w)' \subseteq Asking(w)
    BY <1>1, <1>3 DEF Asking
  <2> QED BY <1>1, <1>2, <2>1, QuietExcess
<1>4. CASE call'[c].pc = "wait"
  <2>1. IsFiniteSet(Working') /\ Cardinality(Working') <= Cardinality(Working)
    BY <1>2, FS_Subset DEF Excess
  <2>2. Cardinality(Working) \in Nat /\ Cardinality(Working') \in Nat
    BY <2>1, FS_CardinalityType DEF Excess
  <2>3. Cardinality(Working') <= MaxInFlight
    BY <2>1, <2>2, InFlightAssumption DEF Excess
  <2>4. ASSUME NEW w \in Workspaces
        PROVE  /\ IsFiniteSet(WalletsOf(w)')
               /\ Cardinality(WalletsOf(w)') + Cardinality(Asking(w)')
                    <= Limit + MaxInFlight - 1
    <3>1. WalletsOf(w)' = WalletsOf(w)
      BY <1>1 DEF WalletsOf
    <3>2. IsFiniteSet(WalletsOf(w)) /\ Cardinality(WalletsOf(w)) \in Nat
      BY FS_CardinalityType DEF Excess
    <3>3. CASE w = v
      <4>1. Asking(w)' \subseteq Working'
        BY DEF Asking, Working
      <4>2. IsFiniteSet(Asking(w)') /\ Cardinality(Asking(w)') <= Cardinality(Working')
        BY <2>1, <4>1, FS_Subset
      <4>3. Cardinality(Asking(w)') \in Nat
        BY <4>2, FS_CardinalityType
      <4>4. Cardinality(WalletsOf(w)) < Limit
        BY <1>1, <1>4, <3>3 DEF BelowLimit
      <4> QED BY <2>2, <2>3, <3>1, <3>2, <4>2, <4>3, <4>4, LimitAssumption,
                 InFlightAssumption
    <3>4. CASE w # v
      <4>1. Asking(w)' = Asking(w)
        BY <1>1, <3>4 DEF Asking
      <4> QED BY <3>1, <3>2, <4>1 DEF Excess
    <3> QED BY <3>3, <3>4
  <2> QED BY <2>1, <2>3, <2>4 DEF Excess
<1> QED BY <1>1, <1>3, <1>4

\* A call begins only while fewer than MaxInFlight are in progress.
LEMMA BeginExcess ==
  ASSUME TypeOK, Excess, NEW c \in Calls, NEW slot \in Slots, Begin(c, slot)
  PROVE  Excess'
<1>1. /\ call[c].pc = "idle" /\ call'[c].pc = "find" /\ wallets' = wallets
      /\ \A d \in Calls \ {c} : call'[d] = call[d]
  BY CallChanged DEF Begin, Idle
<1>2. Working' = Working \cup {c} /\ c \notin Working
  BY <1>1 DEF Working
<1>3. /\ IsFiniteSet(Working')
      /\ Cardinality(Working') = Cardinality(Working) + 1
  BY <1>2, FS_AddElement DEF Excess
<1>4. Cardinality(Working) \in Nat /\ Cardinality(Working) < MaxInFlight
  BY FS_CardinalityType DEF Excess, Begin
<1>5. \A w \in Workspaces : Asking(w)' = Asking(w) /\ WalletsOf(w)' = WalletsOf(w)
  BY <1>1 DEF Asking, WalletsOf
<1> QED BY <1>3, <1>4, <1>5, InFlightAssumption DEF Excess

\* Every step keeps the excess in bounds.
LEMMA NextExcess == TypeOK /\ Excess /\ [Next]_vars => Excess'
<1> SUFFICES ASSUME TypeOK, Excess, [Next]_vars PROVE Excess'
  OBVIOUS
<1>1. CASE UNCHANGED vars
  BY <1>1 DEF vars, Excess, Working, WalletsOf, Asking
<1>2. ASSUME NEW c \in Calls, Find(c) \/ Receive(c) \/ GiveUp(c)
      PROVE  Excess'
  <2>1. /\ wallets' = wallets
        /\ \A d \in Calls \ {c} : call'[d] = call[d]
    BY <1>2, CallChanged DEF Find, Receive, GiveUp
  <2>2. \/ call[c].pc = "find" /\ call'[c].pc \in {"count", "done"}
        \/ /\ call[c].pc = "wait" /\ call'[c].pc = "save"
           /\ call'[c].slot = call[c].slot
        \/ call[c].pc \in {"find", "count", "wait", "save"} /\ call'[c].pc = "error"
    <3>1. CASE Find(c)
      BY <3>1, CallChanged DEF Find
    <3>2. CASE Receive(c)
      BY <3>2, CallChanged DEF Receive
    <3>3. CASE GiveUp(c)
      BY <3>3, CallChanged DEF GiveUp, Working
    <3> QED BY <1>2, <3>1, <3>2, <3>3
  <2>3. Working' \subseteq Working
    BY <2>1, <2>2 DEF Working
  <2>4. \A w \in Workspaces : Asking(w)' \subseteq Asking(w)
    BY <2>1, <2>2 DEF Asking
  <2> QED BY <2>1, <2>3, <2>4, QuietExcess
<1>3. ASSUME NEW c \in Calls, SignerFind(c) \/ SignerSave(c) \/ SignerFail(c)
      PROVE  Excess'
  <2>1. UNCHANGED <<call, wallets>>
    BY <1>3 DEF SignerFind, SignerSave, SignerFail
  <2> QED BY <2>1 DEF Excess, Working, WalletsOf, Asking
<1> QED BY <1>1, <1>2, <1>3, BeginExcess, CountExcess, SaveExcess DEF Next

\* Calls that overlap exceed the limit by fewer than can overlap; calls made
\* one at a time (MaxInFlight = 1) keep it.
THEOREM LimitHolds == Spec => []ExcessBounded
<1>1. Init => Excess
  <2> SUFFICES ASSUME Init PROVE Excess
    OBVIOUS
  <2>1. Working = {} /\ \A w \in Workspaces : WalletsOf(w) = {} /\ Asking(w) = {}
    BY DEF Init, Idle, Working, WalletsOf, Asking
  <2> QED BY <2>1, FS_EmptySet, LimitAssumption, InFlightAssumption DEF Excess
<1>2. IInv => TypeOK
  BY DEF IInv
<1>3. Excess => ExcessBounded
  <2> SUFFICES ASSUME Excess, NEW w \in Workspaces
               PROVE  Cardinality(WalletsOf(w)) <= Limit + MaxInFlight - 1
    BY DEF ExcessBounded
  <2>1. Cardinality(Asking(w)) \in Nat /\ Cardinality(WalletsOf(w)) \in Nat
    BY AskingWork, FS_CardinalityType DEF Excess
  <2> QED BY <2>1, LimitAssumption, InFlightAssumption DEF Excess
<1>4. Spec => []Excess
  BY <1>1, <1>2, NextExcess, Invariance, PTL DEF Spec
<1> QED BY <1>3, <1>4, PTL

\* Types of wallet creation.
THEOREM TypeCorrect == Spec => []TypeOK
<1>1. IInv => TypeOK
  BY DEF IInv
<1> QED BY <1>1, Invariance, PTL

-----------------------------------------------------------------------------

\* A balance about to be stored is that of the block stored beside it.
Matching ==
  \A k \in Workers : refresh[k].pc = "update" => refresh[k].balanceOf = refresh[k].block

BalanceInv == BalanceTypeOK /\ Matching /\ SnapshotIsNewest

\* What an entry of the workers' table looks like at each step of a refresh.
LEMMA RefreshShapes ==
  ASSUME BalanceTypeOK, NEW k \in Workers
  PROVE  /\ refresh[k].pc \in {"resting", "number", "ack", "balance", "update"}
         /\ refresh[k].pc = "resting" <=> refresh[k] = Resting
         /\ refresh[k] # Resting => refresh[k].wallet \in Wallets
         /\ refresh[k].pc \in {"balance", "update"} => refresh[k].block \in Blocks
         /\ refresh[k].pc = "update" => refresh[k].balanceOf \in Blocks
  BY DEF BalanceTypeOK, Refreshes, Resting

\* Storing a balance keeps the row at the newest block.
LEMMA UpdateKeepsNewest ==
  ASSUME BalanceInv, NEW k \in Workers, UpdateBalance(k)
  PROVE  BalanceInv'
<1> DEFINE w == refresh[k].wallet
           n == refresh[k].block
<1>1. w \in Wallets /\ n \in Blocks /\ refresh[k].balanceOf = n
  BY RefreshShapes DEF UpdateBalance, BalanceInv, Matching, Resting
<1>2. PICK m \in Blocks \cup {Null} :
        newest[w] = m /\ snapshot[w] = [block |-> m, balanceOf |-> m]
  BY <1>1 DEF BalanceInv, BalanceTypeOK, SnapshotIsNewest
<1>3. /\ newest' = [newest EXCEPT ![w] = IF n > m THEN n ELSE m]
      /\ snapshot' = IF m = Null \/ m <= n
                     THEN [snapshot EXCEPT ![w] = [block |-> n, balanceOf |-> n]]
                     ELSE snapshot
  BY <1>1, <1>2 DEF UpdateBalance, NotOlder
<1>4. PICK r \in Blocks \cup {Null} :
        newest'[w] = r /\ snapshot'[w] = [block |-> r, balanceOf |-> r]
  <2>1. w \in DOMAIN newest /\ w \in DOMAIN snapshot
    BY <1>1 DEF BalanceInv, BalanceTypeOK
  <2>2. /\ newest'[w] = IF n > m THEN n ELSE m
        /\ snapshot'[w] = IF m = Null \/ m <= n THEN [block |-> n, balanceOf |-> n]
                          ELSE [block |-> m, balanceOf |-> m]
    BY <1>2, <1>3, <2>1
  <2>3. n \in Nat /\ (m = Null \/ m \in Nat) /\ Null = -1
    BY <1>1, HeightAssumption DEF Blocks, Null
  <2>4. CASE m = Null \/ m <= n
    <3>1. newest'[w] = n
      BY <2>2, <2>3, <2>4
    <3> QED BY <1>1, <2>2, <2>4, <3>1
  <2>5. CASE ~ (m = Null \/ m <= n)
    <3>1. newest'[w] = m
      BY <2>2, <2>3, <2>5
    <3> QED BY <2>2, <2>5, <3>1
  <2> QED BY <2>4, <2>5
<1>5. \A v \in Wallets : v # w => newest'[v] = newest[v] /\ snapshot'[v] = snapshot[v]
  BY <1>1, <1>3 DEF BalanceInv, BalanceTypeOK
<1>6. SnapshotIsNewest'
  BY <1>4, <1>5 DEF SnapshotIsNewest, BalanceInv
<1>7. newest' \in [Wallets -> Blocks \cup {Null}]
  BY <1>1, <1>2, <1>3 DEF BalanceInv, BalanceTypeOK
<1>8. snapshot' \in [Wallets -> [block : Blocks \cup {Null}, balanceOf : Blocks \cup {Null}]]
  BY <1>1, <1>2, <1>3 DEF BalanceInv, BalanceTypeOK
<1>9. refresh' = [refresh EXCEPT ![k] = [pc |-> "ack", wallet |-> w]]
  BY DEF UpdateBalance, RefreshBecomes
<1>10. refresh' \in [Workers -> Refreshes]
  BY <1>1, <1>9 DEF BalanceInv, BalanceTypeOK, Refreshes
<1>11. Matching'
  BY <1>9 DEF BalanceInv, BalanceTypeOK, Matching
<1> QED BY <1>6, <1>7, <1>8, <1>10, <1>11 DEF BalanceInv, BalanceTypeOK, UpdateBalance

\* So does every other step, which leaves the rows alone.
LEMMA StepBalance == BalanceInv /\ [BalanceNext]_balanceVars => BalanceInv'
<1> SUFFICES ASSUME BalanceInv, [BalanceNext]_balanceVars PROVE BalanceInv'
  OBVIOUS
<1>0. BalanceTypeOK /\ Matching /\ SnapshotIsNewest
  BY DEF BalanceInv
<1> USE HeightAssumption, MessagesAssumption
<1>1. CASE Mine \/ UNCHANGED balanceVars
  BY <1>0, <1>1 DEF Mine, balanceVars, BalanceInv, BalanceTypeOK, Matching, SnapshotIsNewest, Blocks
<1>2. ASSUME NEW sent \in SUBSET Wallets, ListWallets(sent) PROVE BalanceInv'
  BY <1>0, <1>2 DEF ListWallets, BalanceInv, BalanceTypeOK, Matching, SnapshotIsNewest
<1>3. ASSUME NEW k \in Workers, NEW w \in Wallets, StartRefresh(k, w) PROVE BalanceInv'
  <2>1. queue' \in [Wallets -> 0..MaxMessages]
    BY <1>0, <1>3 DEF StartRefresh, BalanceTypeOK
  <2>2. [pc |-> "number", wallet |-> w] \in Refreshes
    BY DEF Refreshes
  <2> QED BY <1>0, <1>3, <2>1, <2>2
          DEF StartRefresh, RefreshBecomes, BalanceInv, BalanceTypeOK, Matching, SnapshotIsNewest
<1>4. ASSUME NEW k \in Workers, NEW n \in Blocks, ReadNumber(k, n) PROVE BalanceInv'
  <2>1. refresh[k].wallet \in Wallets
    BY <1>0, <1>4, RefreshShapes DEF ReadNumber, Resting
  <2>2. [pc |-> "balance", wallet |-> refresh[k].wallet, block |-> n] \in Refreshes
    BY <2>1 DEF Refreshes
  <2> QED BY <1>0, <1>4, <2>2
          DEF ReadNumber, RefreshBecomes, BalanceInv, BalanceTypeOK, Matching, SnapshotIsNewest
<1>5. ASSUME NEW k \in Workers, ReadBalance(k) PROVE BalanceInv'
  <2>1. refresh[k].wallet \in Wallets /\ refresh[k].block \in Blocks
    BY <1>0, <1>5, RefreshShapes DEF ReadBalance, Resting
  <2>2. [pc |-> "update", wallet |-> refresh[k].wallet, block |-> refresh[k].block,
         balanceOf |-> refresh[k].block] \in Refreshes
    BY <2>1 DEF Refreshes
  <2> QED BY <1>0, <1>5, <2>2
          DEF ReadBalance, AtBlock, RefreshBecomes, BalanceInv, BalanceTypeOK, Matching,
              SnapshotIsNewest
<1>6. ASSUME NEW k \in Workers, Acknowledge(k) \/ WorkerLost(k) PROVE BalanceInv'
  <2>1. Resting \in Refreshes /\ Resting.pc # "update"
    BY DEF Refreshes, Resting
  <2>2. queue' \in [Wallets -> 0..MaxMessages]
    BY <1>0, <1>6 DEF Acknowledge, WorkerLost, BalanceTypeOK
  <2> QED BY <1>0, <1>6, <2>1, <2>2
          DEF Acknowledge, WorkerLost, RefreshBecomes, BalanceInv, BalanceTypeOK, Matching,
              SnapshotIsNewest
<1> QED BY <1>1, <1>2, <1>3, <1>4, <1>5, <1>6, UpdateKeepsNewest DEF BalanceNext

\* The invariant of the balance rows holds in every run.
LEMMA BalanceInvariance == BalanceSpec => []BalanceInv
<1>1. BalanceInit => BalanceInv
  BY HeightAssumption, MessagesAssumption
  DEF BalanceInit, BalanceInv, BalanceTypeOK, Matching, SnapshotIsNewest, Blocks,
      Refreshes, Resting
<1> QED BY <1>1, StepBalance, PTL DEF BalanceSpec

\* Types of the balance refresh.
THEOREM BalanceTypeCorrect == BalanceSpec => []BalanceTypeOK
<1>1. BalanceInv => BalanceTypeOK
  BY DEF BalanceInv
<1> QED BY <1>1, BalanceInvariance, PTL

\* Whatever order the refreshes of a wallet end in, its row holds the newest
\* block one of them brought, and the balance at that block.
THEOREM BalancesAreNewest == BalanceSpec => []SnapshotIsNewest
<1>1. BalanceInv => SnapshotIsNewest
  BY DEF BalanceInv
<1> QED BY <1>1, BalanceInvariance, PTL

=============================================================================
