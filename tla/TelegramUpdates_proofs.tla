----------------------- MODULE TelegramUpdates_proofs -----------------------
(***************************************************************************)
(* What deduplication guarantees for any number of updates, deliveries,    *)
(* failures and deaths.                                                    *)
(***************************************************************************)
EXTENDS TelegramUpdates, TLAPS

\* While an update may still be run again, every effect it had is accounted
\* for by a dispatch that raised.
Accounted ==
  \A u \in Updates :
    status[u] \in {"none", "failed"}
      \/ (\E d \in Deliveries : At(d, "dispatch", u) \/ At(d, "fail", u))
    => effects[u] <= failures[u]

\* A processed update took effect; a row that says "received" without a
\* claimant was left by a death; and Telegram has its 2xx only for an update
\* that is processed, died on, or was answered early.
Answered ==
  \A u \in Updates :
    /\ status[u] = "processed" => effects[u] > 0
    /\ \A d \in Deliveries : At(d, "processed", u) => effects[u] > 0
    /\ status[u] = "received" =>
         deaths[u] > 0 \/ \E d \in Deliveries : Holds(d, u)
    /\ acked[u] => status[u] = "processed" \/ deaths[u] > 0 \/ early[u]

IInv == TypeOK /\ OneClaimant /\ EffectsExplained /\ Accounted /\ Answered

-----------------------------------------------------------------------------

\* What a request is doing after a step of some request d.
LEMMA GotoAt ==
  ASSUME TypeOK, NEW d \in Deliveries, NEW r \in Requests, Goto(d, r)
  PROVE  /\ delivery' \in [Deliveries -> Requests]
         /\ delivery'[d] = r
         /\ \A e \in Deliveries \ {d} : delivery'[e] = delivery[e]
  BY DEF TypeOK, Goto

\* The stages are told apart.
LEMMA Distinct ==
  ASSUME NEW d \in Deliveries, NEW u \in Updates, NEW v \in Updates
  PROVE  /\ ~ (At(d, "claim", u) /\ Holds(d, v))
         /\ ~ (At(d, "dispatch", u) /\ At(d, "fail", v))
         /\ ~ (At(d, "processed", u) /\ (At(d, "dispatch", v) \/ At(d, "fail", v)))
         /\ Holds(d, u) /\ Holds(d, v) => u = v
         /\ delivery[d] = Idle => ~ Holds(d, u) /\ ~ At(d, "claim", u)
  BY DEF At, Holds, Idle

\* Nothing has been delivered.
LEMMA InitIInv == Init => IInv
<1> SUFFICES ASSUME Init PROVE IInv
  OBVIOUS
<1>1. TypeOK
  BY BoundsAssumption DEF Init, TypeOK, Requests
<1>2. \A d \in Deliveries, u \in Updates : ~ Holds(d, u)
  BY Distinct DEF Init
<1>3. OneClaimant /\ EffectsExplained /\ Accounted /\ Answered
  BY <1>2 DEF Init, OneClaimant, EffectsExplained, Accounted, Answered, Holds
<1> QED BY <1>1, <1>3 DEF IInv

\* The types survive every step.
LEMMA TypeStep ==
  ASSUME TypeOK, NEW d \in Deliveries, NEW u \in Updates,
         Deliver(d, u) \/ Step(d, u) \/ Die(d, u)
  PROVE  TypeOK'
<1> USE BoundsAssumption DEF TypeOK, Requests, Stages, Idle, Count, Mark, Goto,
        Answer2xx
<1>1. CASE Deliver(d, u)
  BY <1>1 DEF Deliver
<1>2. CASE Claim(d, u)
  <2>1. CASE Claimable(u)
    BY <1>2, <2>1 DEF Claim
  <2>2. CASE ~ Claimable(u)
    BY <1>2, <2>2 DEF Claim
  <2> QED BY <2>1, <2>2
<1>3. CASE Dispatch(d, u)
  BY <1>3 DEF Dispatch
<1>4. CASE DispatchRaises(d, u)
  BY <1>4 DEF DispatchRaises
<1>5. CASE MarkFailed(d, u) \/ MarkProcessed(d, u)
  BY <1>5 DEF MarkFailed, MarkProcessed
<1>6. CASE Die(d, u)
  BY <1>6 DEF Die
<1> QED BY <1>1, <1>2, <1>3, <1>4, <1>5, <1>6 DEF Step

\* A step of a request leaves the rows and the counts of other updates alone.
LEMMA OtherUpdates ==
  ASSUME TypeOK, NEW d \in Deliveries, NEW u \in Updates,
         Deliver(d, u) \/ Step(d, u) \/ Die(d, u),
         NEW v \in Updates \ {u}
  PROVE  /\ status'[v] = status[v]
         /\ effects'[v] = effects[v]
         /\ failures'[v] = failures[v]
         /\ deaths'[v] = deaths[v] /\ early'[v] = early[v] /\ acked'[v] = acked[v]
         /\ \A e \in Deliveries, pc \in Stages : At(e, pc, v)' <=> At(e, pc, v)
<1> USE DEF TypeOK
<1>1. \A e \in Deliveries \ {d} : delivery'[e] = delivery[e]
  BY DEF Deliver, Step, Claim, Dispatch, DispatchRaises, MarkFailed,
         MarkProcessed, Die, Goto, Answer2xx
<1>2. \A pc \in Stages : ~ At(d, pc, v) /\ ~ At(d, pc, v)'
  BY DEF Deliver, Step, Claim, Dispatch, DispatchRaises, MarkFailed,
         MarkProcessed, Die, Goto, Answer2xx, At, Stages, Idle
<1>3. /\ status'[v] = status[v]
      /\ effects'[v] = effects[v]
      /\ failures'[v] = failures[v]
      /\ deaths'[v] = deaths[v] /\ early'[v] = early[v] /\ acked'[v] = acked[v]
  BY DEF Deliver, Step, Claim, Dispatch, DispatchRaises, MarkFailed,
         MarkProcessed, Die, Mark, Count, Answer2xx
<1>4. \A e \in Deliveries, pc \in Stages : At(e, pc, v)' <=> At(e, pc, v)
  BY <1>1, <1>2 DEF At
<1> QED BY <1>3, <1>4

\* A claim is refused while anyone holds the update, and nothing else takes it.
LEMMA ClaimantStep ==
  ASSUME IInv, NEW d \in Deliveries, NEW u \in Updates,
         Deliver(d, u) \/ Step(d, u) \/ Die(d, u)
  PROVE  OneClaimant'
<1> SUFFICES ASSUME NEW v \in Updates, NEW e \in Deliveries, Holds(e, v)'
             PROVE  /\ status'[v] = "received"
                    /\ \A f \in Deliveries : Holds(f, v)' => f = e
  BY DEF OneClaimant
<1> USE DEF IInv
<1>1. CASE v # u
  BY <1>1, OtherUpdates DEF Holds, OneClaimant, Stages
<1>2. CASE v = u
  <2>1. \A f \in Deliveries \ {d} : Holds(f, u)' <=> Holds(f, u)
    BY DEF Deliver, Step, Claim, Dispatch, DispatchRaises, MarkFailed,
           MarkProcessed, Die, Goto, Answer2xx, Holds, At, TypeOK
  <2>2. CASE Claim(d, u) /\ Claimable(u)
    <3>1. \A f \in Deliveries : ~ Holds(f, u)
      BY <2>2 DEF OneClaimant, Claimable
    <3>2. status'[u] = "received"
      BY <2>2 DEF Claim, Mark, TypeOK
    <3> QED BY <1>2, <2>1, <3>1, <3>2
  <2>3. CASE Dispatch(d, u) \/ DispatchRaises(d, u)
    <3>1. Holds(d, u) /\ status' = status
      BY <2>3 DEF Dispatch, DispatchRaises, Holds
    <3> QED BY <1>2, <2>1, <3>1 DEF OneClaimant
  <2>4. CASE \/ Deliver(d, u) \/ MarkFailed(d, u) \/ MarkProcessed(d, u)
             \/ Die(d, u)
             \/ Claim(d, u) /\ ~ Claimable(u)
    <3>1. ~ Holds(d, u)'
      BY <2>4 DEF Deliver, MarkFailed, MarkProcessed, Die, Claim, Goto,
                  Answer2xx, Holds, At, Idle, TypeOK
    <3>2. status' = status \/ Holds(d, u)
      BY <2>4 DEF Deliver, MarkFailed, MarkProcessed, Die, Claim, Holds
    <3> QED BY <1>2, <2>1, <3>1, <3>2 DEF OneClaimant
  <2>5. \/ Claim(d, u) /\ Claimable(u)
        \/ Dispatch(d, u) \/ DispatchRaises(d, u)
        \/ Deliver(d, u) \/ MarkFailed(d, u) \/ MarkProcessed(d, u)
        \/ Die(d, u)
        \/ Claim(d, u) /\ ~ Claimable(u)
    BY DEF Step, Claimable
  <2> QED BY <2>2, <2>3, <2>4, <2>5
<1> QED BY <1>1, <1>2

\* Each effect beyond the first was preceded by a dispatch that raised.
LEMMA AccountedStep ==
  ASSUME IInv, NEW d \in Deliveries, NEW u \in Updates,
         Deliver(d, u) \/ Step(d, u) \/ Die(d, u)
  PROVE  Accounted' /\ EffectsExplained'
<1> DEFINE Open(v) == \/ status[v] \in {"none", "failed"}
                      \/ \E e \in Deliveries :
                           At(e, "dispatch", v) \/ At(e, "fail", v)
<1> USE DEF IInv
<1>1. ASSUME NEW v \in Updates \ {u}
      PROVE  /\ effects'[v] <= failures'[v] + 1
             /\ Open(v)' => effects'[v] <= failures'[v]
  BY <1>1, OtherUpdates DEF Accounted, EffectsExplained, Stages
<1>2. /\ effects'[u] <= failures'[u] + 1
      /\ Open(u)' => effects'[u] <= failures'[u]
  <2>0. effects[u] \in Nat /\ failures[u] \in Nat
    BY BoundsAssumption DEF TypeOK
  <2>1. \A e \in Deliveries \ {d}, pc \in Stages :
          At(e, pc, u)' <=> At(e, pc, u)
    BY DEF Deliver, Step, Claim, Dispatch, DispatchRaises, MarkFailed,
           MarkProcessed, Die, Goto, Answer2xx, At, TypeOK
  <2>2. CASE Dispatch(d, u)
    <3>1. Open(u) /\ Holds(d, u)
      BY <2>2 DEF Dispatch, Holds
    <3>2. /\ effects'[u] = effects[u] + 1 /\ failures'[u] = failures[u]
          /\ status'[u] = "received" /\ At(d, "processed", u)'
      BY <2>2, <3>1 DEF Dispatch, Count, Goto, At, TypeOK, OneClaimant
    <3>3. ~ At(d, "dispatch", u)' /\ ~ At(d, "fail", u)'
      BY <3>2 DEF At
    <3>4. \A e \in Deliveries \ {d} : ~ Holds(e, u)
      BY <3>1 DEF OneClaimant
    <3>5. \A e \in Deliveries \ {d} :
            ~ At(e, "dispatch", u)' /\ ~ At(e, "fail", u)'
      BY <2>1, <3>4 DEF Holds, Stages
    <3> QED BY <2>0, <3>1, <3>2, <3>3, <3>5 DEF Accounted
  <2>3. CASE DispatchRaises(d, u)
    <3>1. Open(u)
      BY <2>3 DEF DispatchRaises
    <3>2. failures'[u] = failures[u] + 1
      BY <2>3 DEF DispatchRaises, Count, TypeOK
    <3>3. effects'[u] \in {effects[u], effects[u] + 1}
      BY <2>3 DEF DispatchRaises, Count, TypeOK
    <3>4. effects[u] <= failures[u]
      BY <3>1 DEF Accounted
    <3> QED BY <2>0, <3>2, <3>3, <3>4
  <2>4. CASE ~ Dispatch(d, u) /\ ~ DispatchRaises(d, u)
    <3>1. effects' = effects /\ failures' = failures
      BY <2>4 DEF Deliver, Step, Claim, MarkFailed, MarkProcessed, Die
    <3>2. ASSUME Open(u)' PROVE Open(u)
      <4>1. CASE Deliver(d, u) \/ Die(d, u)
        <5>1. /\ status' = status
              /\ ~ At(d, "dispatch", u)' /\ ~ At(d, "fail", u)'
          BY <4>1 DEF Deliver, Die, Goto, At, Idle, TypeOK
        <5> QED BY <2>1, <3>2, <5>1 DEF Stages
      <4>2. CASE Claim(d, u) /\ ~ Claimable(u)
        <5>1. /\ status' = status
              /\ ~ At(d, "dispatch", u)' /\ ~ At(d, "fail", u)'
          BY <4>2 DEF Claim, Answer2xx, Goto, At, Idle, TypeOK
        <5> QED BY <2>1, <3>2, <5>1 DEF Stages
      <4>3. CASE Claim(d, u) /\ Claimable(u)
        BY <4>3 DEF Claimable
      <4>4. CASE MarkFailed(d, u)
        BY <4>4 DEF MarkFailed
      <4>5. CASE MarkProcessed(d, u)
        <5>1. /\ status'[u] = "processed" /\ Holds(d, u)
              /\ ~ At(d, "dispatch", u)' /\ ~ At(d, "fail", u)'
          BY <4>5 DEF MarkProcessed, Mark, Answer2xx, Goto, At, Idle, TypeOK,
                      Holds
        <5> QED BY <2>1, <3>2, <5>1 DEF Stages
      <4> QED BY <2>4, <4>1, <4>2, <4>3, <4>4, <4>5 DEF Step
    <3> QED BY <3>1, <3>2 DEF Accounted, EffectsExplained
  <2> QED BY <2>2, <2>3, <2>4
<1> QED BY <1>1, <1>2 DEF Accounted, EffectsExplained

\* What Telegram was told, and what a row without a claimant means.
LEMMA AnsweredStep ==
  ASSUME IInv, NEW d \in Deliveries, NEW u \in Updates,
         Deliver(d, u) \/ Step(d, u) \/ Die(d, u)
  PROVE  Answered'
<1> DEFINE Fine(v) ==
      /\ status[v] = "processed" => effects[v] > 0
      /\ \A e \in Deliveries : At(e, "processed", v) => effects[v] > 0
      /\ status[v] = "received" =>
           deaths[v] > 0 \/ \E e \in Deliveries : Holds(e, v)
      /\ acked[v] => status[v] = "processed" \/ deaths[v] > 0 \/ early[v]
<1> USE DEF IInv
<1>1. ASSUME NEW v \in Updates \ {u} PROVE Fine(v)'
  BY <1>1, OtherUpdates DEF Answered, Holds, Stages
<1>2. Fine(u)'
  <2>0. effects[u] \in Nat /\ deaths[u] \in Nat /\ Fine(u)
    BY BoundsAssumption DEF TypeOK, Answered
  <2>1. \A e \in Deliveries \ {d}, pc \in Stages :
          At(e, pc, u)' <=> At(e, pc, u)
    BY DEF Deliver, Step, Claim, Dispatch, DispatchRaises, MarkFailed,
           MarkProcessed, Die, Goto, Answer2xx, At, TypeOK
  <2>2. \A e \in Deliveries \ {d} :
          /\ Holds(e, u)' <=> Holds(e, u)
          /\ At(e, "processed", u)' <=> At(e, "processed", u)
    BY <2>1 DEF Holds, Stages
  <2>3. CASE Deliver(d, u)
    <3>1. ~ At(d, "processed", u)' /\ ~ Holds(d, u)
      BY <2>3 DEF Deliver, Goto, At, Idle, TypeOK, Holds
    <3> QED BY <2>0, <2>2, <2>3, <3>1 DEF Deliver
  <2>4. CASE Claim(d, u) /\ Claimable(u)
    <3>1. /\ Holds(d, u)' /\ ~ At(d, "processed", u)'
          /\ status'[u] = "received"
          /\ UNCHANGED <<acked, effects, deaths, early>>
      BY <2>4 DEF Claim, Mark, Goto, Holds, At, TypeOK
    <3>2. status[u] # "processed"
      BY <2>4 DEF Claimable
    <3> QED BY <2>0, <2>2, <3>1, <3>2
  <2>5. CASE Claim(d, u) /\ ~ Claimable(u)
    <3>1. /\ ~ At(d, "processed", u)' /\ ~ Holds(d, u)
          /\ UNCHANGED <<status, effects, deaths>>
      BY <2>5 DEF Claim, Answer2xx, Goto, Holds, At, Idle, TypeOK
    <3>2. status[u] \in {"received", "processed"}
      BY <2>5 DEF Claimable, TypeOK
    <3>3. early'[u] = (early[u] \/ \E e \in Deliveries : Holds(e, u))
      BY <2>5 DEF Claim, TypeOK
    <3> QED BY <2>0, <2>2, <3>1, <3>2, <3>3
  <2>6. CASE Dispatch(d, u)
    <3>1. Holds(d, u)' /\ effects'[u] = effects[u] + 1
      BY <2>6 DEF Dispatch, Count, Goto, Holds, At, TypeOK
    <3> QED BY <2>0, <2>2, <2>6, <3>1 DEF Dispatch
  <2>7. CASE DispatchRaises(d, u)
    <3>1. Holds(d, u)' /\ ~ At(d, "processed", u)'
      BY <2>7 DEF DispatchRaises, Goto, Holds, At, TypeOK
    <3>2. effects'[u] \in {effects[u], effects[u] + 1}
      BY <2>7 DEF DispatchRaises, Count, TypeOK
    <3> QED BY <2>0, <2>2, <2>7, <3>1, <3>2 DEF DispatchRaises
  <2>8. CASE MarkFailed(d, u)
    <3>1. /\ status'[u] = "failed" /\ ~ At(d, "processed", u)'
          /\ Holds(d, u) /\ UNCHANGED <<acked, effects, deaths, early>>
      BY <2>8 DEF MarkFailed, Mark, Goto, Holds, At, Idle, TypeOK
    <3>2. status[u] = "received"
      BY <3>1 DEF OneClaimant
    <3> QED BY <2>0, <2>2, <3>1, <3>2
  <2>9. CASE MarkProcessed(d, u)
    <3>1. /\ status'[u] = "processed" /\ ~ At(d, "processed", u)'
          /\ At(d, "processed", u) /\ UNCHANGED <<effects, deaths, early>>
      BY <2>9 DEF MarkProcessed, Mark, Answer2xx, Goto, At, Idle, TypeOK
    <3> QED BY <2>0, <2>2, <3>1
  <2>10. CASE Die(d, u)
    <3>1. /\ ~ At(d, "processed", u)'
          /\ UNCHANGED <<status, acked, effects, early>>
      BY <2>10 DEF Die, Goto, At, Idle, TypeOK
    <3>2. CASE At(d, "claim", u)
      <4>1. ~ Holds(d, u) /\ deaths' = deaths
        BY <2>10, <3>2 DEF Die, Holds, At
      <4> QED BY <2>0, <2>2, <3>1, <4>1
    <3>3. CASE ~ At(d, "claim", u)
      <4>1. deaths'[u] = deaths[u] + 1
        BY <2>10, <3>3 DEF Die, Count, TypeOK
      <4> QED BY <2>0, <2>2, <3>1, <4>1
    <3> QED BY <3>2, <3>3
  <2> QED BY <2>3, <2>4, <2>5, <2>6, <2>7, <2>8, <2>9, <2>10 DEF Step
<1> QED BY <1>1, <1>2 DEF Answered

\* Every step preserves the inductive invariant.
LEMMA NextIInv == IInv /\ [Next]_vars => IInv'
<1> SUFFICES ASSUME IInv, [Next]_vars PROVE IInv'
  OBVIOUS
<1>1. CASE UNCHANGED vars
  BY <1>1 DEF vars, IInv, TypeOK, OneClaimant, EffectsExplained, Accounted,
              Answered, Holds, At
<1>2. ASSUME NEW d \in Deliveries, NEW u \in Updates,
             Deliver(d, u) \/ Step(d, u) \/ Die(d, u)
      PROVE  IInv'
  BY <1>2, TypeStep, ClaimantStep, AccountedStep, AnsweredStep DEF IInv
<1> QED BY <1>1, <1>2 DEF Next

-----------------------------------------------------------------------------

\* IInv is an invariant of the system.
THEOREM Invariance == Spec => []IInv
<1> QED BY InitIInv, NextIInv, PTL DEF Spec

\* However deliveries of an update overlap, fail and die, at most one of them
\* holds its claim.
THEOREM ClaimIsExclusive == Spec => []OneClaimant
<1>1. IInv => OneClaimant
  BY DEF IInv
<1> QED BY <1>1, Invariance, PTL

\* However often Telegram delivers an update, its effects number at most one
\* more than the dispatches of it that raised.
THEOREM RedeliveryIsIdempotent == Spec => []EffectsExplained
<1>1. IInv => EffectsExplained
  BY DEF IInv
<1> QED BY <1>1, Invariance, PTL

\* Telegram stops delivering an update that never took effect only after a
\* death or an early answer.
THEOREM LossesHaveCauses == Spec => []LostExplained
<1>1. IInv => LostExplained
  <2> SUFFICES ASSUME IInv, NEW u \in Updates, acked[u], effects[u] = 0
               PROVE  deaths[u] > 0 \/ early[u]
    BY DEF LostExplained
  <2> QED BY DEF IInv, Answered
<1> QED BY <1>1, Invariance, PTL

\* An update that took no effect, without a death and an early answer, is still
\* delivered, and the next delivery of it may claim it unless one has.
StillClaimable ==
  \A u \in Updates :
    effects[u] = 0 /\ deaths[u] = 0 /\ ~ early[u] =>
      /\ ~ acked[u]
      /\ Claimable(u) \/ \E d \in Deliveries : Holds(d, u)

\* No failed dispatch, no redelivery and no interleaving of them leaves an update
\* whose effect is due with an answer or a row that ends it: Telegram goes on,
\* and claim lets it through (claim, mark_failed).  With the fairness of the
\* deliveries this is why every update takes effect sooner or later.
THEOREM UpdatesStayClaimable == Spec => []StillClaimable
<1>1. IInv => StillClaimable
  <2> SUFFICES ASSUME IInv, NEW u \in Updates,
                      effects[u] = 0, deaths[u] = 0, ~ early[u]
               PROVE  ~ acked[u] /\ (Claimable(u) \/ \E d \in Deliveries : Holds(d, u))
    BY DEF StillClaimable
  <2>1. status[u] \in {"none", "received", "processed", "failed"}
    BY DEF IInv, TypeOK
  <2>2. status[u] # "processed" /\ ~ acked[u]
    BY DEF IInv, Answered
  <2>3. status[u] = "received" => \E d \in Deliveries : Holds(d, u)
    BY DEF IInv, Answered
  <2> QED BY <2>1, <2>2, <2>3 DEF Claimable
<1> QED BY <1>1, Invariance, PTL

\* An update that has been processed is never run or marked again.
THEOREM ProcessedIsFinal == Spec => ProcessedForGood
<1> DEFINE Kept(u) == status[u] = "processed" =>
                        status'[u] = "processed" /\ effects'[u] = effects[u]
<1>1. ASSUME IInv, [Next]_vars, NEW u \in Updates PROVE Kept(u)
  <2> USE <1>1 DEF IInv
  <2>1. CASE UNCHANGED vars
    BY <2>1 DEF vars
  <2>2. ASSUME NEW d \in Deliveries, NEW v \in Updates,
               Deliver(d, v) \/ Step(d, v) \/ Die(d, v)
        PROVE  Kept(u)
    <3>1. CASE u # v
      BY <2>2, <3>1, OtherUpdates
    <3>2. CASE u = v /\ status[u] = "processed"
      <4>1. ~ Holds(d, v)
        BY <3>2 DEF OneClaimant
      <4> QED BY <2>2, <3>2, <4>1 DEF Deliver, Step, Claim, Claimable, Dispatch,
                 DispatchRaises, MarkFailed, MarkProcessed, Die, Holds
    <3> QED BY <3>1, <3>2
  <2> QED BY <2>1, <2>2 DEF Next
<1>2. IInv /\ [Next]_vars => [\A u \in Updates : Kept(u)]_vars
  BY <1>1
<1> QED BY <1>2, Invariance, PTL DEF Spec, ProcessedForGood

\* Types of an update and its deliveries.
THEOREM TypeCorrect == Spec => []TypeOK
<1>1. IInv => TypeOK
  BY DEF IInv
<1> QED BY <1>1, Invariance, PTL

=============================================================================
