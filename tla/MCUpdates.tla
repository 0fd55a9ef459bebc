------------------------------ MODULE MCUpdates ------------------------------
(***************************************************************************)
(* Small instances for TLC of what a Telegram update passes on its way to  *)
(* the data: the webhook, the rate limit, the confirmation of a wallet, the*)
(* isolation of the workspaces.  They share no state; a behaviour runs one *)
(* of them, chosen at its start, so that TLC explores the sum of their     *)
(* state spaces and not the product.                                       *)
(***************************************************************************)
EXTENDS TelegramUpdates, RateLimit, WalletConfirmation, WorkspaceIsolation

VARIABLE part

\* What the parts that do not run could begin with is fixed.
MCInit ==
  /\ part \in {"webhook", "limits", "confirmation", "isolation"}
  /\ part # "limits" => member = TRUE
  /\ part # "confirmation" => skew = 0
  /\ part # "isolation" => role = CHOOSE r \in Roles : TRUE
  /\ Init
  /\ LimitInit
  /\ ConfirmationInit
  /\ IsolationInit

MCNext ==
  /\ UNCHANGED part
  /\ \/ /\ part = "webhook"
        /\ Next
        /\ UNCHANGED <<limitVars, confirmationVars, isolationVars>>
     \/ /\ part = "limits"
        /\ LimitNext
        /\ UNCHANGED <<vars, confirmationVars, isolationVars>>
     \/ /\ part = "confirmation"
        /\ ConfirmationNext
        /\ UNCHANGED <<vars, limitVars, isolationVars>>
     \/ /\ part = "isolation"
        /\ IsolationNext
        /\ UNCHANGED <<vars, limitVars, confirmationVars>>

\* Fairness and ConfirmationFairness, each of the steps of the
\* part that runs (TLC is faster with one conjunction than with implications).
MCFairness ==
  /\ \A d \in Deliveries, u \in Updates : WF_vars(part = "webhook" /\ Step(d, u))
  /\ \A u \in Updates :
       /\ SF_vars(part = "webhook" /\ \E d \in Deliveries : Deliver(d, u))
       /\ SF_vars(part = "webhook" /\ \E d \in Deliveries : Claim(d, u))
  /\ \A p \in Presses :
       /\ WF_confirmationVars(part = "confirmation" /\ Proceed(p))
       /\ SF_confirmationVars(/\ part = "confirmation"
                              /\ \E d \in SignerTasks : DeliverRequest(d, p))
  /\ \A d \in SignerTasks :
       WF_confirmationVars(part = "confirmation" /\ Handle(d))

MCSpec ==
  /\ MCInit
  /\ [][MCNext]_<<vars, limitVars, confirmationVars, isolationVars, part>>
  /\ MCFairness

\* HandledUnlessLost of TelegramUpdates, in the behaviours that run it: every
\* update takes effect, with two exceptions.
UpdateHandledUnlessLost == part = "webhook" => HandledUnlessLost
=============================================================================
