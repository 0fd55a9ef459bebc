-------------------------- MODULE WalletConfirmation --------------------------
(***************************************************************************)
(* Confirming that a wallet is to be created.  /create_wallet issues a     *)
(* challenge that expires; a press of its button consumes it and sends the *)
(* signer one signed, dated request, which the network may lose, delay or  *)
(* deliver again.  The signer, whose clock may differ, refuses a request   *)
(* that is too old or from the future, and one whose identifier it has     *)
(* seen.  What the two create_wallet services do is in WalletCreation.     *)
(***************************************************************************)
EXTENDS Integers

CONSTANTS
  Challenges,  \* rows of callback_challenges
  Presses,     \* updates with the button's token, repeated ones included
  SignerTasks,  \* requests the signer can be handling at the same time
  TTL,         \* lifetime of a challenge
  MaxAge,      \* oldest request the signer accepts
  Early,       \* how far in its future a request may be dated
  MaxSkew,     \* bound: difference of the two clocks
  MaxCopies    \* bound: times the network delivers one request

ASSUME TimesAssumption ==
  /\ TTL \in Nat \ {0}
  /\ MaxAge \in Nat /\ Early \in Nat /\ MaxSkew \in Nat
ASSUME CopiesAssumption == MaxCopies \in Nat \ {0}

VARIABLES
  skew,       \* what the signer's clock is ahead of the application's
  challenge,  \* state of each challenge's row
  left,       \* time until it expires
  press,      \* progress of each press
  copies,     \* deliveries of its request that are still to come
  age,        \* time since the date of its request
  signer,     \* what the signer is doing
  claimed,    \* signer_request_replays
  created,    \* history: times the signer ran create_wallet for each press
  faults      \* history: presses that consumed, and met a fault that excuses
               \* their loss

confirmationVars == <<skew, challenge, left, press, copies, age, signer,
                      claimed, created, faults>>

Unused == [pc |-> "idle"]
PressStates == {Unused} \cup [pc : {"consume"}, of : Challenges, inTime : BOOLEAN]
                      \cup [pc : {"send", "sent", "end"}, of : Challenges]
SignerStates == {Unused} \cup [pc : {"claim", "create"}, press : Presses]

\* An age beyond Oldest is refused whatever the skew.
Oldest == MaxAge + MaxSkew + 1

ConfirmationTypeOK ==
  /\ skew \in -MaxSkew..MaxSkew
  /\ challenge \in [Challenges -> {"none", "open", "consumed"}]
  /\ left \in [Challenges -> 0..TTL]
  /\ press \in [Presses -> PressStates]
  /\ copies \in [Presses -> 0..MaxCopies]
  /\ age \in [Presses -> 0..Oldest]
  /\ signer \in [SignerTasks -> SignerStates]
  /\ claimed \subseteq Presses
  /\ created \in [Presses -> Nat]
  /\ faults \subseteq Presses

ConfirmationInit ==
  /\ skew \in -MaxSkew..MaxSkew
  /\ challenge = [h \in Challenges |-> "none"]
  /\ left = [h \in Challenges |-> 0]
  /\ press = [p \in Presses |-> Unused]
  /\ copies = [p \in Presses |-> 0]
  /\ age = [p \in Presses |-> 0]
  /\ signer = [d \in SignerTasks |-> Unused]
  /\ claimed = {}
  /\ created = [p \in Presses |-> 0]
  /\ faults = {}

PressBecomes(p, state) == press' = [press EXCEPT ![p] = state]
SignerBecomes(d, state) == signer' = [signer EXCEPT ![d] = state]
Sent == {p \in Presses : press[p].pc = "sent"}

-----------------------------------------------------------------------------

TimePasses ==
  /\ left' = [h \in Challenges |-> IF left[h] = 0 THEN 0 ELSE left[h] - 1]
  /\ age' = [p \in Presses |->
               IF p \in Sent /\ age[p] < Oldest THEN age[p] + 1 ELSE age[p]]
  /\ UNCHANGED <<skew, challenge, press, copies, signer, claimed, created,
                 faults>>

\* create_wallet_command: ChallengeService.issue.
Issue(h) ==
  /\ challenge[h] = "none"
  /\ challenge' = [challenge EXCEPT ![h] = "open"]
  /\ left' = [left EXCEPT ![h] = TTL]
  /\ UNCHANGED <<skew, press, copies, age, signer, claimed, created, faults>>

\* create_wallet_callback: ChallengeService.consume reads its clock ...
Press(p, h) ==
  /\ press[p] = Unused
  /\ challenge[h] # "none"
  /\ PressBecomes(p, [pc |-> "consume", of |-> h, inTime |-> left[h] > 0])
  /\ UNCHANGED <<skew, challenge, left, copies, age, signer, claimed, created,
                 faults>>

\* ... and, later, one conditional UPDATE compares the row with what it read.
\* Mutant: without consumed_at IS NULL.
MatchesAny(p) == press[p].inTime
Matches(p) == press[p].inTime /\ challenge[press[p].of] = "open"

Consume(p) ==
  /\ press[p].pc = "consume"
  /\ IF Matches(p)
     THEN /\ challenge' = [challenge EXCEPT ![press[p].of] = "consumed"]
          /\ PressBecomes(p, [pc |-> "send", of |-> press[p].of])
     ELSE /\ PressBecomes(p, [pc |-> "end", of |-> press[p].of])
          /\ UNCHANGED challenge
  /\ UNCHANGED <<skew, left, copies, age, signer, claimed, created, faults>>

\* HttpSignerWalletClient.create_wallet: one request with a fresh identifier,
\* dated in whole seconds, so up to one second early.
Send(p) ==
  /\ press[p].pc = "send"
  /\ PressBecomes(p, [pc |-> "sent", of |-> press[p].of])
  /\ \E n \in 0..MaxCopies :
       /\ copies' = [copies EXCEPT ![p] = n]
       /\ faults' = IF n = 0 THEN faults \cup {p} ELSE faults
  /\ \E cut \in {0, 1} : age' = [age EXCEPT ![p] = cut]
  /\ UNCHANGED <<skew, challenge, left, signer, claimed, created>>

\* The process dies, the limit is reached, or find or count fails, before the
\* request; what happens to a press afterwards has no effect on the signer.
GiveUp(p) ==
  /\ press[p].pc \in {"consume", "send"}
  /\ PressBecomes(p, [pc |-> "end", of |-> press[p].of])
  /\ faults' = IF press[p].pc = "send" THEN faults \cup {p} ELSE faults
  /\ UNCHANGED <<skew, challenge, left, copies, age, signer, claimed, created>>

-----------------------------------------------------------------------------
(* The signer: authenticate, then create_wallet.                           *)

\* verify_claims.  Mutant: no allowance for a clock that is behind.
NoAllowance(p) == age[p] + skew >= 0 /\ age[p] + skew <= MaxAge
Fresh(p) == age[p] + skew >= -Early /\ age[p] + skew <= MaxAge

\* The network delivers a request (external).
DeliverRequest(d, p) ==
  /\ copies[p] > 0
  /\ signer[d] = Unused
  /\ copies' = [copies EXCEPT ![p] = @ - 1]
  /\ IF Fresh(p)
     THEN SignerBecomes(d, [pc |-> "claim", press |-> p])
     ELSE UNCHANGED signer
  /\ faults' = IF age[p] + skew > MaxAge \/ skew < -Early
               THEN faults \cup {p} ELSE faults
  /\ UNCHANGED <<skew, challenge, left, press, age, claimed, created>>

\* INSERT ... ON CONFLICT DO NOTHING.  Mutant: every request is claimed.
UnclaimedAlways(p) == TRUE
Unclaimed(p) == p \notin claimed

ClaimRequest(d) ==
  /\ signer[d].pc = "claim"
  /\ LET p == signer[d].press
     IN /\ SignerBecomes(d, IF Unclaimed(p)
                            THEN [pc |-> "create", press |-> p] ELSE Unused)
        /\ claimed' = claimed \cup {p}
  /\ UNCHANGED <<skew, challenge, left, press, copies, age, created, faults>>

Create(d) ==
  /\ signer[d].pc = "create"
  /\ created' = [created EXCEPT ![signer[d].press] = @ + 1]
  /\ SignerBecomes(d, Unused)
  /\ UNCHANGED <<skew, challenge, left, press, copies, age, claimed, faults>>

SignerDies(d) ==
  /\ signer[d] # Unused
  /\ faults' = faults \cup {signer[d].press}
  /\ SignerBecomes(d, Unused)
  /\ UNCHANGED <<skew, challenge, left, press, copies, age, claimed, created>>

Handle(d) == ClaimRequest(d) \/ Create(d)
Proceed(p) == Consume(p) \/ Send(p)

ConfirmationNext ==
  \/ TimePasses
  \/ \E h \in Challenges : Issue(h)
  \/ \E p \in Presses :
       \/ \E h \in Challenges : Press(p, h)
       \/ Proceed(p)
       \/ GiveUp(p)
  \/ \E d \in SignerTasks :
       \/ \E p \in Presses : DeliverRequest(d, p)
       \/ Handle(d)
       \/ SignerDies(d)

ConfirmationSpec == ConfirmationInit /\ [][ConfirmationNext]_confirmationVars

\* Running processes go on with what they do; a request that is not lost
\* reaches the signer.
ConfirmationFairness ==
  /\ \A p \in Presses : WF_confirmationVars(Proceed(p))
  /\ \A p \in Presses :
       SF_confirmationVars(\E d \in SignerTasks : DeliverRequest(d, p))
  /\ \A d \in SignerTasks : WF_confirmationVars(Handle(d))

FairConfirmationSpec == ConfirmationSpec /\ ConfirmationFairness

-----------------------------------------------------------------------------
(* Properties.                                                             *)

PressesOf(h) == {p \in Presses : press[p] # Unused /\ press[p].of = h}

\* One confirmation runs the signer's create_wallet at most once, however often
\* the button is pressed, the update repeated or the request delivered
\* (consume_challenge, SqlAlchemySignerReplayRepository.claim).
ExecutedOnce ==
  \A h \in Challenges : \A p, q \in PressesOf(h) :
    created[p] > 0 /\ created[q] > 0 => p = q /\ created[p] = 1

\* A consumed confirmation is carried out, unless its press died before it
\* sent its request, the network lost or delayed that, the signer died over
\* it, or the clocks are further apart than the signer allows: the checks of
\* the signer refuse no other request, and none twice (authenticate).
ConfirmedIsExecuted ==
  \A h \in Challenges :
    challenge[h] = "consumed" ~>
      \E p \in PressesOf(h) : created[p] > 0 \/ p \in faults

=============================================================================
