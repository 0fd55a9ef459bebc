-------------------------- MODULE TelegramUpdates --------------------------
(***************************************************************************)
(* Webhook deliveries and their durable deduplication.  Telegram (external)*)
(* delivers an update again and again, possibly while an earlier delivery  *)
(* of it is still being handled, until one delivery is answered with 2xx.  *)
(* A delivery claims the update's row, runs the dispatcher, and marks the  *)
(* row; its process may die, or its database call fail, at any point.      *)
(***************************************************************************)
EXTENDS Naturals, FiniteSets

CONSTANTS
  Updates,      \* the update_id values Telegram sends
  Deliveries,   \* webhook requests that can be in progress at the same time
  MaxFailures,  \* bound: dispatches of one update that raise
  MaxDeaths     \* bound: deliveries of one update that die

ASSUME BoundsAssumption == MaxFailures \in Nat /\ MaxDeaths \in Nat

VARIABLES
  status,    \* telegram_updates.status of each update, "none" without a row
  delivery,  \* what each webhook request is doing
  acked,     \* Telegram got a 2xx answer for the update
  effects,   \* history: times the handlers of the update took effect
  failures,  \* history: times its dispatch raised
  deaths,    \* history: times a delivery of it died after its claim
  early      \* history: a redelivery of it was answered during its dispatch

vars == <<status, delivery, acked, effects, failures, deaths, early>>

Idle == [pc |-> "idle"]
Stages == {"claim", "dispatch", "fail", "processed"}
Requests == {Idle} \cup [pc : Stages, update : Updates]

TypeOK ==
  /\ status \in [Updates -> {"none", "received", "processed", "failed"}]
  /\ delivery \in [Deliveries -> Requests]
  /\ acked \in [Updates -> BOOLEAN]
  /\ effects \in [Updates -> Nat]
  /\ failures \in [Updates -> 0..MaxFailures]
  /\ deaths \in [Updates -> 0..MaxDeaths]
  /\ early \in [Updates -> BOOLEAN]

Init ==
  /\ status = [u \in Updates |-> "none"]
  /\ delivery = [d \in Deliveries |-> Idle]
  /\ acked = [u \in Updates |-> FALSE]
  /\ effects = [u \in Updates |-> 0]
  /\ failures = [u \in Updates |-> 0]
  /\ deaths = [u \in Updates |-> 0]
  /\ early = [u \in Updates |-> FALSE]

At(d, pc, u) == delivery[d] = [pc |-> pc, update |-> u]
Holds(d, u) == At(d, "dispatch", u) \/ At(d, "fail", u) \/ At(d, "processed", u)
Goto(d, request) == delivery' = [delivery EXCEPT ![d] = request]
Answer2xx(d, u) == Goto(d, Idle) /\ acked' = [acked EXCEPT ![u] = TRUE]
Count(counter, u) == [counter EXCEPT ![u] = @ + 1]
\* _mark.
Mark(u, outcome) == status' = [status EXCEPT ![u] = outcome]

-----------------------------------------------------------------------------

\* Telegram, which never stops before it has its 2xx and may lose patience with
\* a delivery that is still being handled.
Deliver(d, u) ==
  /\ delivery[d] = Idle
  /\ ~ acked[u]
  /\ Goto(d, [pc |-> "claim", update |-> u])
  /\ UNCHANGED <<status, acked, effects, failures, deaths, early>>

\* INSERT ... ON CONFLICT DO UPDATE ... WHERE status = 'failed'.
\* Mutants: the WHERE is missing; ON CONFLICT DO NOTHING.
ClaimableAlways(u) == TRUE
ClaimableOnce(u) == status[u] = "none"
Claimable(u) == status[u] \in {"none", "failed"}

Claim(d, u) ==
  /\ At(d, "claim", u)
  /\ \/ /\ Claimable(u)
        /\ Mark(u, "received")
        /\ Goto(d, [pc |-> "dispatch", update |-> u])
        /\ UNCHANGED <<acked, early>>
     \/ /\ ~ Claimable(u)                    \* answered "duplicate"
        /\ Answer2xx(d, u)
        /\ early' = [early EXCEPT ![u] = 
                     @ \/ \E e \in Deliveries : Holds(e, u)]
        /\ UNCHANGED status
  /\ UNCHANGED <<effects, failures, deaths>>

\* feed_update returns.
Dispatch(d, u) ==
  /\ At(d, "dispatch", u)
  /\ effects' = Count(effects, u)
  /\ Goto(d, [pc |-> "processed", update |-> u])
  /\ UNCHANGED <<status, acked, failures, deaths, early>>

\* feed_update raises, before or after the handler took effect.
DispatchRaises(d, u) ==
  /\ At(d, "dispatch", u)
  /\ failures[u] < MaxFailures
  /\ failures' = Count(failures, u)
  /\ effects' \in {effects, Count(effects, u)}
  /\ Goto(d, [pc |-> "fail", update |-> u])
  /\ UNCHANGED <<status, acked, deaths, early>>

\* mark_failed, then 503: Telegram will deliver the update again.
MarkFailed(d, u) ==
  /\ At(d, "fail", u)
  /\ Mark(u, "failed")
  /\ Goto(d, Idle)
  /\ UNCHANGED <<acked, effects, failures, deaths, early>>

\* mark_processed, then 200.
MarkProcessed(d, u) ==
  /\ At(d, "processed", u)
  /\ Mark(u, "processed")
  /\ Answer2xx(d, u)
  /\ UNCHANGED <<effects, failures, deaths, early>>

\* The process dies or a database call fails: no answer, or a 500.
Die(d, u) ==
  /\ \E pc \in Stages : At(d, pc, u)
  /\ deaths[u] < MaxDeaths
  /\ Goto(d, Idle)
  /\ deaths' = IF At(d, "claim", u) THEN deaths ELSE Count(deaths, u)
  /\ UNCHANGED <<status, acked, effects, failures, early>>

Step(d, u) == \/ Claim(d, u)
              \/ Dispatch(d, u)
              \/ DispatchRaises(d, u)
              \/ MarkFailed(d, u)
              \/ MarkProcessed(d, u)

Next == \E d \in Deliveries, u \in Updates :
          Deliver(d, u) \/ Step(d, u) \/ Die(d, u)

Spec == Init /\ [][Next]_vars

\* A running process goes on with its requests; Telegram's retries of an update
\* are not starved by those of another; the bot is not down for ever, so not
\* every delivery of an update dies before its claim.
Fairness ==
  /\ \A d \in Deliveries, u \in Updates : WF_vars(Step(d, u))
  /\ \A u \in Updates : SF_vars(\E d \in Deliveries : Deliver(d, u))
  /\ \A u \in Updates : SF_vars(\E d \in Deliveries : Claim(d, u))

FairSpec == Spec /\ Fairness

-----------------------------------------------------------------------------
(* Properties.                                                             *)

\* Concurrent deliveries of one update: at most one of them has claimed it
\* and not finished, and while one does the row says "received"
\* (SqlAlchemyTelegramUpdateRepository.claim).
OneClaimant ==
  \A u \in Updates, d \in Deliveries :
    Holds(d, u) =>
      /\ status[u] = "received"
      /\ \A e \in Deliveries : Holds(e, u) => e = d

\* Redelivery repeats an effect only after a dispatch of the update raised:
\* effects are never more than the raising dispatches and one (telegram_webhook).
EffectsExplained ==
  \A u \in Updates : effects[u] <= failures[u] + 1

\* Telegram stops delivering an update that never took effect only if a
\* delivery of it died after its claim, or a redelivery was told "duplicate"
\* before the outcome was known: a dispatch that raised is retried otherwise
\* (claim, telegram_webhook).
LostExplained ==
  \A u \in Updates :
    acked[u] /\ effects[u] = 0 => deaths[u] > 0 \/ early[u]

\* Once processed, an update is never run again: no later delivery changes
\* its row or repeats its effect.
ProcessedForGood ==
  [][\A u \in Updates : status[u] = "processed" =>
       status'[u] = "processed" /\ effects'[u] = effects[u]]_vars

\* With the same two exceptions every update takes effect sooner or later.
HandledUnlessLost ==
  \A u \in Updates : <>(effects[u] > 0 \/ deaths[u] > 0 \/ early[u])

=============================================================================
