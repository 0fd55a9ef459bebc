------------------------- MODULE IdempotentCreation -------------------------
(***************************************************************************)
(* What wallet creation promises its callers.  Each call names a slot (a   *)
(* workspace and an idempotency key).  A call is answered with the address *)
(* of the slot or with an error.  The slot is given one address, which no  *)
(* other slot has, and every success answers with that address.            *)
(***************************************************************************)
CONSTANTS Slots, Calls, Addresses, NoAddress    \* NoAddress \notin Addresses

VARIABLES
  made,    \* the address of each slot, NoAddress before the first success
  answer   \* what each call was told

Untold == [kind |-> "none"]
Error == [kind |-> "error"]
Told(s, a) == [kind |-> "address", slot |-> s, address |-> a]

Init ==
  /\ made = [s \in Slots |-> NoAddress]
  /\ answer = [c \in Calls |-> Untold]

\* A slot without an address gets one, and the call is answered with it, or
\* told of an error when the answer is lost.
Create(c, s, a) ==
  /\ answer[c] = Untold
  /\ made[s] = NoAddress
  /\ \A t \in Slots : made[t] # a
  /\ made' = [made EXCEPT ![s] = a]
  /\ \E told \in {Told(s, a), Error} : answer' = [answer EXCEPT ![c] = told]

\* A slot with an address keeps it, and the call is answered with it.
Repeat(c, s) ==
  /\ answer[c] = Untold
  /\ made[s] # NoAddress
  /\ answer' = [answer EXCEPT ![c] = Told(s, made[s])]
  /\ UNCHANGED made

Fail(c) ==
  /\ answer[c] = Untold
  /\ answer' = [answer EXCEPT ![c] = Error]
  /\ UNCHANGED made

Next == \E c \in Calls :
          \/ Fail(c)
          \/ \E s \in Slots : Repeat(c, s)
          \/ \E s \in Slots, a \in Addresses : Create(c, s, a)

Spec == Init /\ [][Next]_<<made, answer>>

=============================================================================
