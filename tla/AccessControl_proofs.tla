----------------------- MODULE AccessControl_proofs ------------------------
(***************************************************************************)
(* Proofs about AccessControl, for any people, owners, handlers and bounds.*)
(*                                                                         *)
(* The inductive invariant IInv is the type invariant, the safety          *)
(* properties of AccessControl, and three facts that tie the tables and    *)
(* the handlers together: what a challenge refers to (ChallengesSound),    *)
(* what a handler about to send cards refers to (CardsSound), and that a   *)
(* handler acting on a confirmation holds a consumed challenge of its own  *)
(* actor (InFlight).                                                       *)
(***************************************************************************)
EXTENDS AccessControl, TLAPS

ChallengesSound ==
  \A c \in 1..Len(challenges) :
    /\ challenges[c].action \in {"approve", "reject"} =>
         /\ challenges[c].actor \in Owners
         /\ challenges[c].subject \in 1..Len(requests)
    /\ challenges[c].action = "revoke" => challenges[c].actor \in Owners

CardsSound ==
  \A h \in Handlers :
    op[h].pc = "cards" => op[h].todo \subseteq Owners \X (1..Len(requests))

InFlight ==
  \A h \in Handlers :
    op[h].pc \in {"decide", "wallet"} =>
      /\ op[h].via \in 1..Len(challenges)
      /\ challenges[op[h].via].state = "consumed"
      /\ challenges[op[h].via].actor = op[h].who
      /\ op[h].pc = "decide" => challenges[op[h].via].action \in Decisions

Links == ChallengesSound /\ CardsSound /\ InFlight

\* What the access rows and the requests promise.
RowsSafe ==
  OnePendingRequest /\ AccessNeedsApproval /\ AccessConsistent /\ OwnersKeepAccess

\* What the confirmations and the audit trail promise.
TrailSafe == ConfirmedOnce /\ DecisionsConfirmed /\ AuditExplainsRequests

IInv == TypeOK /\ RowsSafe /\ TrailSafe /\ Links

-----------------------------------------------------------------------------
(* Tables.                                                                 *)

\* A table keeps its type and length, and its other rows, when one changes.
LEMMA RowUpdate ==
  ASSUME NEW S, NEW t \in Seq(S), NEW i \in 1..Len(t), NEW x \in S
  PROVE  /\ [t EXCEPT ![i] = x] \in Seq(S)
         /\ Len([t EXCEPT ![i] = x]) = Len(t)
         /\ [t EXCEPT ![i] = x][i] = x
         /\ \A j \in 1..Len(t) : j # i => [t EXCEPT ![i] = x][j] = t[j]
  OBVIOUS

\* A table keeps its type and its rows when one is appended.
LEMMA RowAppend ==
  ASSUME NEW S, NEW t \in Seq(S), NEW x \in S
  PROVE  /\ Append(t, x) \in Seq(S)
         /\ Len(Append(t, x)) = Len(t) + 1
         /\ Append(t, x)[Len(t) + 1] = x
         /\ \A j \in 1..Len(t) : Append(t, x)[j] = t[j]
  OBVIOUS

\* The same for two rows at once.
LEMMA TwoRowsAppend ==
  ASSUME NEW S, NEW t \in Seq(S), NEW x \in S, NEW y \in S
  PROVE  /\ t \o <<x, y>> \in Seq(S)
         /\ Len(t \o <<x, y>>) = Len(t) + 2
         /\ (t \o <<x, y>>)[Len(t) + 1] = x
         /\ (t \o <<x, y>>)[Len(t) + 2] = y
         /\ \A j \in 1..Len(t) : (t \o <<x, y>>)[j] = t[j]
  OBVIOUS

\* A decision changes the status of a request and nothing else of it.
LEMMA DecidedRow ==
  ASSUME NEW row \in RequestRows, NEW s \in {"approved", "rejected"}
  PROVE  [row EXCEPT !.status = s]
           = [who |-> row.who, at |-> row.at, status |-> s]
  BY DEF RequestRows

\* Consuming a challenge changes its state and nothing else of it.
LEMMA ConsumedRow ==
  ASSUME NEW row \in ChallengeRows
  PROVE  [row EXCEPT !.state = "consumed"]
           = [action |-> row.action, actor |-> row.actor,
              subject |-> row.subject, state |-> "consumed"]
  BY DEF ChallengeRows

\* A handler may take up any operation of the right type, and the other
\* handlers keep theirs.
LEMMA BecomeOp ==
  ASSUME TypeOK, NEW h \in Handlers, NEW o \in Operations, Become(h, o)
  PROVE  /\ op' \in [Handlers -> Operations]
         /\ op'[h] = o
         /\ \A g \in Handlers \ {h} : op'[g] = op[g]
  BY DEF TypeOK, Become

\* What a handler carries, by the kind of its operation.
LEMMA OpFields ==
  ASSUME TypeOK, NEW h \in Handlers
  PROVE  /\ op[h].pc \in {"read_latest", "insert", "resolved", "decide",
                          "wallet"} => op[h].who \in People
         /\ op[h].pc = "insert" => op[h].at \in Nat
         /\ op[h].pc = "cards" =>
              /\ op[h].todo \subseteq Owners \X Nat
              /\ op[h] \in [pc : {"cards"}, todo : SUBSET (Owners \X Nat)]
         /\ op[h].pc \in {"decide", "wallet"} => op[h].via \in Nat
  BY DEF TypeOK, Operations, Idle

\* The challenge behind a recorded decision.
LEMMA BehindDecision ==
  ASSUME DecisionsConfirmed, NEW e \in audit
  PROVE  /\ e.actor \in Owners
         /\ e.via \in 1..Len(challenges)
         /\ challenges[e.via].action = e.action
         /\ challenges[e.via].actor = e.actor
         /\ challenges[e.via].subject = e.subject
         /\ challenges[e.via].state = "consumed"
<1>1. /\ e.actor \in Owners
      /\ e.via \in 1..Len(challenges)
      /\ challenges[e.via] = [action |-> e.action, actor |-> e.actor,
                              subject |-> e.subject, state |-> "consumed"]
  BY DEF DecisionsConfirmed
<1> DEFINE row == [action |-> e.action, actor |-> e.actor,
                   subject |-> e.subject, state |-> "consumed"]
<1>2. /\ row.action = e.action /\ row.actor = e.actor
      /\ row.subject = e.subject /\ row.state = "consumed"
  OBVIOUS
<1>3. challenges[e.via] = row
  BY <1>1
<1> HIDE DEF row
<1> QED BY <1>1, <1>2, <1>3

-----------------------------------------------------------------------------
(* The invariant holds initially.                                          *)

\* The inductive invariant holds of the empty tables.
LEMMA InitIInv == Init => IInv
<1> SUFFICES ASSUME Init PROVE IInv
  OBVIOUS
<1>1. TypeOK
  BY DEF Init, TypeOK, Operations, Idle
<1>2. RowsSafe
  BY OwnersAssumption
     DEF Init, RowsSafe, OnePendingRequest, AccessNeedsApproval, Pending,
         AccessConsistent, OwnersKeepAccess, HasContext
<1>3. TrailSafe
  BY DEF Init, TrailSafe, ConfirmedOnce, DecisionsConfirmed,
         AuditExplainsRequests, Idle
<1>4. Links
  BY DEF Init, Links, ChallengesSound, CardsSound, InFlight, Idle
<1> QED BY <1>1, <1>2, <1>3, <1>4 DEF IInv

-----------------------------------------------------------------------------
(* Steps that change only what a handler is doing.                         *)

\* A handler may take up any operation that refers only to requests that
\* exist and that does not act on a confirmation.
LEMMA HandlerStep ==
  ASSUME IInv, NEW h \in Handlers, NEW o \in Operations, Become(h, o),
         o.pc \notin {"decide", "wallet"},
         o.pc = "cards" => o.todo \subseteq Owners \X (1..Len(requests)),
         UNCHANGED <<accessRows, requests, challenges, audit>>,
         clock' \in Nat
  PROVE  IInv'
<1>1. /\ op' \in [Handlers -> Operations]
      /\ op'[h] = o
      /\ \A g \in Handlers \ {h} : op'[g] = op[g]
  BY BecomeOp DEF IInv
<1>2. TypeOK'
  BY <1>1 DEF IInv, TypeOK, accessRows
<1>3. RowsSafe'
  BY DEF IInv, RowsSafe, OnePendingRequest, AccessNeedsApproval, Pending,
         AccessConsistent, OwnersKeepAccess, HasContext, InWorkspace,
         RequestsOf, accessRows
<1>4. TrailSafe'
  BY <1>1 DEF IInv, TrailSafe, ConfirmedOnce, DecisionsConfirmed,
              AuditExplainsRequests
<1>5. Links'
  BY <1>1 DEF IInv, Links, ChallengesSound, CardsSound, InFlight
<1> QED BY <1>2, <1>3, <1>4, <1>5 DEF IInv

\* The steps of that kind, one by one.
LEMMA HandlerSteps ==
  ASSUME IInv, NEW h \in Handlers,
         \/ \E p \in People : StartReadPrincipal(h, p) \/ Resolve(h, p)
         \/ StartReadLatest(h)
         \/ AdminRequests(h)
         \/ FinishWallet(h)
         \/ Abandon(h)
  PROVE  IInv'
<1> USE DEF accessRows
<1>1. Idle \in Operations /\ Idle.pc = "idle"
  BY DEF Operations, Idle
<1>2. ASSUME NEW p \in People, StartReadPrincipal(h, p) PROVE IInv'
  <2> DEFINE o == [pc |-> "read_latest", who |-> p]
  <2>1. o \in Operations /\ o.pc = "read_latest"
    BY DEF Operations
  <2> HIDE DEF o
  <2> QED BY <1>2, <2>1, HandlerStep DEF StartReadPrincipal, o, IInv, TypeOK
<1>3. ASSUME NEW p \in People, Resolve(h, p) PROVE IInv'
  <2> DEFINE o == [pc |-> "resolved", who |-> p, workspace |-> InWorkspace(p)]
  <2>1. o \in Operations /\ o.pc = "resolved"
    BY DEF Operations, InWorkspace
  <2>2. Become(h, o)
    BY <1>3 DEF Resolve
  <2> HIDE DEF o
  <2> QED BY <1>3, <2>1, <2>2, HandlerStep DEF Resolve, IInv, TypeOK
<1>4. CASE StartReadLatest(h)
  <2> DEFINE o == [pc |-> "insert", who |-> op[h].who, at |-> clock]
  <2>1. op[h].who \in People /\ clock \in Nat
    BY <1>4 DEF StartReadLatest, IInv, TypeOK, Operations, Idle
  <2>2. o \in Operations /\ o.pc = "insert"
    BY <2>1 DEF Operations
  <2>3. /\ Become(h, Idle) \/ Become(h, o)
        /\ clock' \in Nat
        /\ UNCHANGED <<accessRows, requests, challenges, audit>>
    BY <1>4, <2>1 DEF StartReadLatest
  <2> HIDE DEF o
  <2> QED BY <1>1, <2>2, <2>3, HandlerStep
<1>5. CASE AdminRequests(h)
  <2> DEFINE o == [pc |-> "cards", todo |-> {op[h].who} \X Pending]
  <2>1. o.todo \subseteq Owners \X (1..Len(requests))
    BY <1>5 DEF AdminRequests, Pending
  <2>2. o \in Operations
    BY <2>1 DEF Operations, IInv, TypeOK
  <2>3. o.pc = "cards" /\ Become(h, o)
    BY <1>5 DEF AdminRequests
  <2> HIDE DEF o
  <2> QED BY <1>5, <2>1, <2>2, <2>3, HandlerStep
          DEF AdminRequests, IInv, TypeOK
<1>6. CASE FinishWallet(h)
  BY <1>1, <1>6, HandlerStep DEF FinishWallet, IInv, TypeOK
<1>7. CASE Abandon(h)
  BY <1>1, <1>7, HandlerStep DEF Abandon, IInv, TypeOK
<1> QED BY <1>2, <1>3, <1>4, <1>5, <1>6, <1>7

-----------------------------------------------------------------------------
(* /start inserts a request.                                               *)

\* A new request: the index keeps it the only pending one of its person.
LEMMA InsertStep ==
  ASSUME IInv, NEW h \in Handlers, StartInsert(h)
  PROVE  IInv'
<1> USE DEF accessRows
<1> DEFINE p == op[h].who
           row == [who |-> p, at |-> op[h].at, status |-> "pending"]
           new == Len(requests) + 1
           cards == [pc |-> "cards", todo |-> Owners \X {new}]
<1>1. p \in People /\ op[h].at \in Nat
  <2> HIDE DEF row, cards, new
  <2> QED BY OpFields DEF StartInsert, HasPending, IInv
<1>2. CASE Become(h, Idle) /\ UNCHANGED requests
  <2>1. Idle \in Operations /\ Idle.pc = "idle"
    BY DEF Operations, Idle
  <2> QED BY <1>2, <2>1, HandlerStep DEF StartInsert, HasPending, IInv, TypeOK
<1>3. CASE /\ RequestsOf(p) \cap Pending = {}
           /\ requests' = Append(requests, row)
           /\ Become(h, cards)
  <2>1. row \in RequestRows /\ requests \in Seq(RequestRows)
    BY <1>1 DEF RequestRows, IInv, TypeOK
  <2>2. /\ requests' \in Seq(RequestRows)
        /\ Len(requests) \in Nat
        /\ Len(requests') = new
        /\ requests'[new] = row
        /\ \A r \in 1..Len(requests) : requests'[r] = requests[r]
    <3> HIDE DEF row
    <3> QED BY <1>3, <2>1, RowAppend
  <2>3. row.who = p /\ row.status = "pending"
    OBVIOUS
  <2>4. cards \in Operations /\ cards.pc = "cards"
    BY <2>2 DEF Operations
  <2>5. /\ op' \in [Handlers -> Operations]
        /\ op'[h] = cards
        /\ \A g \in Handlers \ {h} : op'[g] = op[g]
    <3> HIDE DEF cards
    <3> QED BY <1>3, <2>4, BecomeOp DEF IInv
  <2>6. UNCHANGED <<accessRows, challenges, audit, clock>>
    BY DEF StartInsert, HasPending
  <2> HIDE DEF row, p
  <2>7. TypeOK'
    BY <2>2, <2>5, <2>6 DEF IInv, TypeOK
  <2>8. RowsSafe'
    <3>1. OnePendingRequest'
      BY <1>3, <2>2, <2>3
         DEF IInv, RowsSafe, OnePendingRequest, Pending, RequestsOf
    <3>2. AccessNeedsApproval'
      <4> SUFFICES ASSUME NEW q \in People \ Owners, users[q] = "active"
                   PROVE  \E r \in RequestsOf(q)' :
                            requests'[r].status = "approved"
        BY <2>6 DEF AccessNeedsApproval
      <4>1. PICK r \in RequestsOf(q) : requests[r].status = "approved"
        BY DEF IInv, RowsSafe, AccessNeedsApproval
      <4> QED BY <4>1, <2>2 DEF RequestsOf
    <3>3. AccessConsistent' /\ OwnersKeepAccess'
      BY <2>6 DEF IInv, RowsSafe, AccessConsistent, OwnersKeepAccess,
                  HasContext, InWorkspace
    <3> QED BY <3>1, <3>2, <3>3 DEF RowsSafe
  <2>9. TrailSafe'
    <3>1. ConfirmedOnce' /\ DecisionsConfirmed'
      BY <2>4, <2>5, <2>6 DEF IInv, TrailSafe, ConfirmedOnce, DecisionsConfirmed
    <3>2. \A e \in audit : e.action # "revoke" => e.subject # new
      <4> SUFFICES ASSUME NEW e \in audit, e.action # "revoke"
                   PROVE  e.subject \in 1..Len(requests)
        BY <2>2
      <4>1. e.action \in {"approve", "reject"}
        BY DEF IInv, TypeOK, AuditRows, Decisions
      <4>2. /\ e.via \in 1..Len(challenges)
            /\ challenges[e.via].action = e.action
            /\ challenges[e.via].subject = e.subject
        BY BehindDecision DEF IInv, TrailSafe
      <4> QED BY <4>1, <4>2 DEF IInv, Links, ChallengesSound
    <3>3. AuditExplainsRequests'
      <4> SUFFICES ASSUME NEW r \in 1..new
                   PROVE  LET records == {e \in audit : /\ e.action # "revoke"
                                                        /\ e.subject = r} IN
                          CASE requests'[r].status = "pending" -> records = {}
                            [] requests'[r].status = "approved" ->
                                 \E e \in records : records = {e} /\ e.action = "approve"
                            [] OTHER ->
                                 \E e \in records : records = {e} /\ e.action = "reject"
        BY <2>2, <2>6 DEF AuditExplainsRequests
      <4>1. CASE r = new
        BY <4>1, <3>2, <2>2, <2>3
      <4>2. CASE r \in 1..Len(requests)
        BY <4>2, <2>2 DEF IInv, TrailSafe, AuditExplainsRequests
      <4> QED BY <4>1, <4>2, <2>2
    <3> QED BY <3>1, <3>3 DEF TrailSafe
  <2>10. Links'
    <3>1. ChallengesSound'
      BY <2>2, <2>6 DEF IInv, Links, ChallengesSound
    <3>2. cards.todo \subseteq Owners \X (1..new)
      BY <2>2
    <3> HIDE DEF cards
    <3>3. CardsSound'
      BY <2>2, <2>5, <3>2 DEF IInv, Links, CardsSound
    <3>4. InFlight'
      BY <2>4, <2>5, <2>6 DEF IInv, Links, InFlight
    <3> QED BY <3>1, <3>3, <3>4 DEF Links
  <2> QED BY <2>7, <2>8, <2>9, <2>10 DEF IInv
<1> QED BY <1>2, <1>3 DEF StartInsert, HasPending

-----------------------------------------------------------------------------
(* Challenges are issued.                                                  *)

\* New challenges that refer to what exists, and that only an owner can
\* confirm unless they are for a wallet, disturb nothing.
LEMMA IssueStep ==
  ASSUME IInv, NEW h \in Handlers, NEW o \in Operations, Become(h, o),
         o.pc \notin {"decide", "wallet"},
         o.pc = "cards" => o.todo \subseteq Owners \X (1..Len(requests)),
         UNCHANGED <<accessRows, requests, audit, clock>>,
         challenges' \in Seq(ChallengeRows),
         Len(challenges') >= Len(challenges),
         \A c \in 1..Len(challenges) : challenges'[c] = challenges[c],
         \A c \in 1..Len(challenges') : c > Len(challenges) =>
           /\ challenges'[c].action \in {"approve", "reject"} =>
                /\ challenges'[c].actor \in Owners
                /\ challenges'[c].subject \in 1..Len(requests)
           /\ challenges'[c].action = "revoke" =>
                challenges'[c].actor \in Owners
  PROVE  IInv'
<1>1. /\ op' \in [Handlers -> Operations]
      /\ op'[h] = o
      /\ \A g \in Handlers \ {h} : op'[g] = op[g]
  BY BecomeOp DEF IInv
<1>2. TypeOK'
  BY <1>1 DEF IInv, TypeOK, accessRows
<1>3. RowsSafe'
  BY DEF IInv, RowsSafe, OnePendingRequest, AccessNeedsApproval, Pending,
         AccessConsistent, OwnersKeepAccess, HasContext, InWorkspace,
         RequestsOf, accessRows
<1>4. /\ Len(challenges) \in Nat
      /\ Len(challenges') \in Nat
      /\ \A c \in 1..Len(challenges) : c \in 1..Len(challenges')
  BY DEF IInv, TypeOK
<1>5. TrailSafe'
  <2>1. ConfirmedOnce' /\ AuditExplainsRequests'
    BY <1>1 DEF IInv, TrailSafe, ConfirmedOnce, AuditExplainsRequests
  <2>2. DecisionsConfirmed'
    BY <1>4 DEF IInv, TrailSafe, DecisionsConfirmed
  <2> QED BY <2>1, <2>2 DEF TrailSafe
<1>6. Links'
  <2>1. ChallengesSound'
    <3> SUFFICES ASSUME NEW c \in 1..Len(challenges')
                 PROVE  /\ challenges'[c].action \in {"approve", "reject"} =>
                             /\ challenges'[c].actor \in Owners
                             /\ challenges'[c].subject \in 1..Len(requests)
                        /\ challenges'[c].action = "revoke" =>
                             challenges'[c].actor \in Owners
      BY DEF ChallengesSound
    <3>1. CASE c \in 1..Len(challenges)
      BY <3>1 DEF IInv, Links, ChallengesSound
    <3>2. CASE c > Len(challenges)
      BY <3>2
    <3> QED BY <1>4, <3>1, <3>2
  <2>2. CardsSound'
    BY <1>1 DEF IInv, Links, CardsSound
  <2>3. InFlight'
    BY <1>1, <1>4 DEF IInv, Links, InFlight
  <2> QED BY <2>1, <2>2, <2>3 DEF Links
<1> QED BY <1>2, <1>3, <1>5, <1>6 DEF IInv

\* The fields of a new challenge.
LEMMA IssueFields ==
  ASSUME NEW a \in Actions, NEW p \in People, NEW s \in Subjects
  PROVE  /\ Issue(a, p, s) \in ChallengeRows
         /\ Issue(a, p, s).action = a
         /\ Issue(a, p, s).actor = p
         /\ Issue(a, p, s).subject = s
  BY DEF Issue, ChallengeRows

\* One owner's card.
LEMMA SendCardStep ==
  ASSUME IInv, NEW h \in Handlers, SendCard(h)
  PROVE  IInv'
<1>1. PICK card \in op[h].todo :
        /\ challenges' = challenges \o
             <<Issue("approve", card[1], card[2]),
               Issue("reject", card[1], card[2])>>
        /\ Become(h, IF op[h].todo = {card} THEN Idle
                     ELSE [op[h] EXCEPT !.todo = @ \ {card}])
  BY DEF SendCard
<1>2. /\ op[h] \in [pc : {"cards"}, todo : SUBSET (Owners \X Nat)]
      /\ op[h].todo \subseteq Owners \X (1..Len(requests))
  BY OpFields DEF SendCard, IInv, Links, CardsSound
<1>3. /\ card[1] \in Owners /\ card[1] \in People
      /\ card[2] \in 1..Len(requests) /\ card[2] \in Subjects
  BY <1>2, OwnersAssumption DEF Subjects
<1> DEFINE o == IF op[h].todo = {card} THEN Idle
                ELSE [op[h] EXCEPT !.todo = @ \ {card}]
           a == Issue("approve", card[1], card[2])
           b == Issue("reject", card[1], card[2])
<1>4. /\ Idle \in Operations /\ Idle.pc = "idle"
      /\ [op[h] EXCEPT !.todo = @ \ {card}] \in Operations
      /\ [op[h] EXCEPT !.todo = @ \ {card}].pc = "cards"
      /\ [op[h] EXCEPT !.todo = @ \ {card}].todo
           \subseteq Owners \X (1..Len(requests))
  BY <1>2 DEF Operations, Idle
<1>5. /\ o \in Operations
      /\ o.pc \notin {"decide", "wallet"}
      /\ o.pc = "cards" => o.todo \subseteq Owners \X (1..Len(requests))
  BY <1>4
<1>6. /\ a \in ChallengeRows /\ b \in ChallengeRows
      /\ a.action = "approve" /\ b.action = "reject"
      /\ a.actor = card[1] /\ b.actor = card[1]
      /\ a.subject = card[2] /\ b.subject = card[2]
  BY <1>3, IssueFields DEF Actions, Decisions
<1>7. Become(h, o) /\ challenges' = challenges \o <<a, b>>
  BY <1>1
<1> HIDE DEF o, a, b
<1>8. /\ challenges \in Seq(ChallengeRows) /\ Len(challenges) \in Nat
      /\ challenges' \in Seq(ChallengeRows)
      /\ Len(challenges') = Len(challenges) + 2
      /\ challenges'[Len(challenges) + 1] = a
      /\ challenges'[Len(challenges) + 2] = b
      /\ \A c \in 1..Len(challenges) : challenges'[c] = challenges[c]
  BY <1>6, <1>7, TwoRowsAppend DEF IInv, TypeOK
<1>9. \A c \in 1..Len(challenges') : c > Len(challenges) =>
        challenges'[c] \in {a, b}
  BY <1>8
<1>10. \A c \in 1..Len(challenges') : c > Len(challenges) =>
        /\ challenges'[c].action \in {"approve", "reject"} =>
             /\ challenges'[c].actor \in Owners
             /\ challenges'[c].subject \in 1..Len(requests)
        /\ challenges'[c].action = "revoke" => challenges'[c].actor \in Owners
  BY <1>3, <1>6, <1>9
<1>11. UNCHANGED <<accessRows, requests, audit, clock>>
  BY DEF SendCard
<1>12. Len(challenges') >= Len(challenges)
  BY <1>8
<1> QED BY <1>5, <1>7, <1>8, <1>10, <1>11, <1>12, IssueStep

\* A single new challenge from /admin_revoke or /create_wallet.
LEMMA CommandStep ==
  ASSUME IInv, NEW h \in Handlers, NEW t \in People,
         AdminRevoke(h, t) \/ CreateWalletCommand(h)
  PROVE  IInv'
<1>1. op[h].who \in People
  BY OpFields DEF AdminRevoke, CreateWalletCommand, IInv
<1>2. PICK row \in ChallengeRows :
        /\ challenges' = Append(challenges, row)
        /\ row.action \in {"revoke", "create_wallet"}
        /\ row.action = "revoke" => row.actor \in Owners
  <2>1. CASE AdminRevoke(h, t)
    <3> DEFINE row == Issue("revoke", op[h].who, t)
    <3>3. "revoke" \in Actions /\ t \in Subjects
      BY DEF Actions, Decisions, Subjects
    <3>1. /\ row \in ChallengeRows
          /\ row.action = "revoke" /\ row.actor = op[h].who
      BY <1>1, <3>3, IssueFields
    <3>2. challenges' = Append(challenges, row) /\ op[h].who \in Owners
      BY <2>1 DEF AdminRevoke
    <3> HIDE DEF row
    <3> QED BY <3>1, <3>2
  <2>2. CASE CreateWalletCommand(h)
    <3> DEFINE row == Issue("create_wallet", op[h].who, op[h].who)
    <3>3. "create_wallet" \in Actions /\ op[h].who \in Subjects
      BY <1>1 DEF Actions, Subjects
    <3>1. row \in ChallengeRows /\ row.action = "create_wallet"
      BY <1>1, <3>3, IssueFields
    <3>2. challenges' = Append(challenges, row)
      BY <2>2 DEF CreateWalletCommand
    <3> HIDE DEF row
    <3> QED BY <3>1, <3>2
  <2> QED BY <2>1, <2>2
<1>3. /\ Idle \in Operations /\ Idle.pc = "idle" /\ Become(h, Idle)
      /\ UNCHANGED <<accessRows, requests, audit, clock>>
  BY DEF Operations, Idle, AdminRevoke, CreateWalletCommand
<1>4. /\ challenges \in Seq(ChallengeRows) /\ Len(challenges) \in Nat
      /\ challenges' \in Seq(ChallengeRows)
      /\ Len(challenges') = Len(challenges) + 1
      /\ challenges'[Len(challenges) + 1] = row
      /\ \A c \in 1..Len(challenges) : challenges'[c] = challenges[c]
  BY <1>2, RowAppend DEF IInv, TypeOK
<1>5. \A c \in 1..Len(challenges') : c > Len(challenges) =>
        challenges'[c] = row
  BY <1>4
<1>6. \A c \in 1..Len(challenges') : c > Len(challenges) =>
        /\ challenges'[c].action \in {"approve", "reject"} =>
             /\ challenges'[c].actor \in Owners
             /\ challenges'[c].subject \in 1..Len(requests)
        /\ challenges'[c].action = "revoke" => challenges'[c].actor \in Owners
  BY <1>2, <1>5
<1>7. Len(challenges') >= Len(challenges)
  BY <1>4
<1> QED BY <1>3, <1>4, <1>6, <1>7, IssueStep

-----------------------------------------------------------------------------
(* A challenge is consumed.                                                *)

\* A consumed challenge was open, so no handler acts on it and no decision
\* names it yet.
LEMMA ConsumeStep ==
  ASSUME IInv, NEW h \in Handlers, NEW c \in 1..Len(challenges),
         NEW action \in Actions, Consume(h, c, action)
  PROVE  IInv'
<1> DEFINE o == [pc |-> IF action = "create_wallet" THEN "wallet" ELSE "decide",
                 who |-> op[h].who, via |-> c]
           row == [challenges[c] EXCEPT !.state = "consumed"]
<1>1. /\ challenges \in Seq(ChallengeRows)
      /\ Len(challenges) \in Nat
      /\ challenges[c] \in ChallengeRows
  BY DEF IInv, TypeOK
<1>2. /\ row \in ChallengeRows
      /\ row.action = challenges[c].action
      /\ row.actor = challenges[c].actor
      /\ row.subject = challenges[c].subject
      /\ row.state = "consumed"
  BY <1>1, ConsumedRow DEF ChallengeRows
<1>3. op[h].who \in People
  <2> HIDE DEF o, row
  <2> QED BY OpFields DEF Consume, IInv
<1>4. /\ o \in Operations /\ o.via = c /\ o.who = op[h].who
      /\ o.pc \in {"decide", "wallet"}
      /\ o.pc = "decide" => action \in Decisions
  BY <1>3 DEF Operations, Actions
<1>5. /\ challenges' = [challenges EXCEPT ![c] = row]
      /\ Become(h, o)
      /\ challenges[c].state = "open"
      /\ challenges[c].action = action
      /\ challenges[c].actor = op[h].who
      /\ UNCHANGED <<accessRows, requests, audit, clock>>
  BY DEF Consume, Matches
<1> HIDE DEF o, row
<1>6. /\ op' \in [Handlers -> Operations]
      /\ op'[h] = o
      /\ \A g \in Handlers \ {h} : op'[g] = op[g]
  BY <1>4, <1>5, BecomeOp DEF IInv
<1>7. /\ challenges' \in Seq(ChallengeRows)
      /\ Len(challenges') = Len(challenges)
      /\ challenges'[c] = row
      /\ \A d \in 1..Len(challenges) : d # c => challenges'[d] = challenges[d]
  BY <1>1, <1>2, <1>5, RowUpdate
<1>8. TypeOK'
  BY <1>5, <1>6, <1>7 DEF IInv, TypeOK, accessRows
<1>9. RowsSafe'
  BY <1>5 DEF IInv, RowsSafe, OnePendingRequest, AccessNeedsApproval, Pending,
              AccessConsistent, OwnersKeepAccess, HasContext, InWorkspace,
              RequestsOf, accessRows
<1>10. \A e \in audit : e.via \in 1..Len(challenges) /\ e.via # c
  BY <1>5, BehindDecision DEF IInv, TrailSafe
<1>11. \A g \in Handlers \ {h} :
         op[g].pc \in {"decide", "wallet"} => op[g].via # c
  BY <1>5 DEF IInv, Links, InFlight
<1>12. TrailSafe'
  <2>1. ConfirmedOnce'
    BY <1>4, <1>5, <1>6, <1>10, <1>11 DEF IInv, TrailSafe, ConfirmedOnce
  <2>2. DecisionsConfirmed'
    BY <1>5, <1>7, <1>10 DEF IInv, TrailSafe, DecisionsConfirmed
  <2>3. AuditExplainsRequests'
    BY <1>5 DEF IInv, TrailSafe, AuditExplainsRequests
  <2> QED BY <2>1, <2>2, <2>3 DEF TrailSafe
<1>13. Links'
  <2>1. ChallengesSound'
    <3> SUFFICES ASSUME NEW d \in 1..Len(challenges)
                 PROVE  /\ challenges'[d].action \in {"approve", "reject"} =>
                             /\ challenges'[d].actor \in Owners
                             /\ challenges'[d].subject \in 1..Len(requests)
                        /\ challenges'[d].action = "revoke" =>
                             challenges'[d].actor \in Owners
      BY <1>5, <1>7 DEF ChallengesSound
    <3>1. /\ challenges'[d].action = challenges[d].action
          /\ challenges'[d].actor = challenges[d].actor
          /\ challenges'[d].subject = challenges[d].subject
      BY <1>2, <1>7
    <3> QED BY <3>1 DEF IInv, Links, ChallengesSound
  <2>2. CardsSound'
    BY <1>4, <1>5, <1>6 DEF IInv, Links, CardsSound
  <2>3. InFlight'
    <3> SUFFICES ASSUME NEW g \in Handlers, op'[g].pc \in {"decide", "wallet"}
                 PROVE  /\ op'[g].via \in 1..Len(challenges')
                        /\ challenges'[op'[g].via].state = "consumed"
                        /\ challenges'[op'[g].via].actor = op'[g].who
                        /\ op'[g].pc = "decide" =>
                             challenges'[op'[g].via].action \in Decisions
      BY DEF InFlight
    <3>1. CASE g = h
      BY <3>1, <1>2, <1>4, <1>5, <1>6, <1>7
    <3>2. CASE g # h
      BY <3>2, <1>6, <1>7, <1>11 DEF IInv, Links, InFlight
    <3> QED BY <3>1, <3>2
  <2> QED BY <2>1, <2>2, <2>3 DEF Links
<1> QED BY <1>8, <1>9, <1>12, <1>13 DEF IInv

-----------------------------------------------------------------------------
(* A confirmed decision is carried out.                                    *)

\* What the three decisions have in common: the handler records the decision
\* that its own consumed challenge confirms, and is done.
LEMMA RecordStep ==
  ASSUME IInv, NEW h \in Handlers, op[h].pc = "decide",
         Confirmed(h).subject \in Subjects,
         Record(h), Become(h, Idle), UNCHANGED challenges,
         Confirmed(h).action \in Decisions => op[h].who \in Owners,
         Len(requests') = Len(requests)
  PROVE  /\ audit' \subseteq AuditRows
         /\ op' \in [Handlers -> Operations]
         /\ ConfirmedOnce' /\ DecisionsConfirmed' /\ Links'
<1> DEFINE e == [action |-> Confirmed(h).action, actor |-> op[h].who,
                 subject |-> Confirmed(h).subject, via |-> op[h].via]
           c == op[h].via
<1>1. /\ op[h].who \in People
      /\ c \in Nat
  <2> HIDE DEF e, c
  <2> QED BY OpFields DEF IInv, c
<1>2. /\ c \in 1..Len(challenges)
      /\ challenges[c].state = "consumed"
      /\ challenges[c].actor = op[h].who
      /\ challenges[c].action \in Decisions
      /\ challenges[c] \in ChallengeRows
  BY DEF IInv, Links, InFlight, TypeOK
<1>3. /\ e \in AuditRows
      /\ e.action = challenges[c].action /\ e.actor = op[h].who
      /\ e.subject = challenges[c].subject /\ e.via = c
  BY <1>1, <1>2 DEF AuditRows, Confirmed
<1>4. audit' = audit \cup {e}
  BY DEF Record
<1>5. /\ Idle \in Operations /\ Idle.pc = "idle"
  BY DEF Operations, Idle
<1>6. /\ op' \in [Handlers -> Operations]
      /\ op'[h] = Idle
      /\ \A g \in Handlers \ {h} : op'[g] = op[g]
  BY <1>5, BecomeOp DEF IInv
<1> HIDE DEF e, c
<1>7. audit' \subseteq AuditRows
  BY <1>3, <1>4 DEF IInv, TypeOK
<1>8. ConfirmedOnce'
  BY <1>3, <1>4, <1>5, <1>6 DEF IInv, TrailSafe, ConfirmedOnce, c
<1>9. challenges[c] = [action |-> e.action, actor |-> e.actor,
                       subject |-> e.subject, state |-> "consumed"]
  BY <1>2, <1>3 DEF ChallengeRows
<1>10. e.actor \in Owners
  BY <1>2, <1>3 DEF Confirmed, c
<1>11. DecisionsConfirmed'
  BY <1>2, <1>3, <1>4, <1>9, <1>10 DEF IInv, TrailSafe, DecisionsConfirmed
<1>12. Links'
  BY <1>5, <1>6 DEF IInv, Links, ChallengesSound, CardsSound, InFlight
<1> QED BY <1>6, <1>7, <1>8, <1>11, <1>12

\* The decided request, and the audit trail with the decision's record.
LEMMA DecideRequest ==
  ASSUME IInv, NEW h \in Handlers, NEW a \in {"approve", "reject"},
         NEW s \in {"approved", "rejected"},
         s = "approved" <=> a = "approve",
         DecidesPending(h, a), Record(h),
         requests' = [requests EXCEPT ![Confirmed(h).subject].status = s]
  PROVE  /\ requests' \in Seq(RequestRows)
         /\ Len(requests') = Len(requests)
         /\ requests'[Confirmed(h).subject].status = s
         /\ \A q \in 1..Len(requests) :
              /\ requests'[q].who = requests[q].who
              /\ q # Confirmed(h).subject => requests'[q] = requests[q]
         /\ AuditExplainsRequests'
<1> DEFINE r == Confirmed(h).subject
           row == [requests[r] EXCEPT !.status = s]
           e == [action |-> Confirmed(h).action, actor |-> op[h].who,
                 subject |-> r, via |-> op[h].via]
<1>1. /\ requests \in Seq(RequestRows)
      /\ r \in 1..Len(requests)
      /\ requests[r].status = "pending"
      /\ Confirmed(h).action = a
  BY DEF IInv, TypeOK, DecidesPending, Pending
<1>2. requests[r] \in RequestRows
  BY <1>1
<1>3. row \in RequestRows /\ row.status = s /\ row.who = requests[r].who
  BY <1>2, DecidedRow DEF RequestRows
<1>4. requests' = [requests EXCEPT ![r] = row]
  OBVIOUS
<1>5. e.action = a /\ e.subject = r
  BY <1>1
<1>6. audit' = audit \cup {e}
  BY DEF Record
<1> HIDE DEF row, r, e
<1>7. /\ requests' \in Seq(RequestRows)
      /\ Len(requests') = Len(requests)
      /\ requests'[r] = row
      /\ \A q \in 1..Len(requests) : q # r => requests'[q] = requests[q]
  BY <1>1, <1>3, <1>4, RowUpdate
<1>8. AuditExplainsRequests'
  <2> DEFINE trail(q) == {f \in audit : f.action # "revoke" /\ f.subject = q}
             trailNext(q) == {f \in audit' : f.action # "revoke" /\ f.subject = q}
  <2>1. trail(r) = {}
    BY <1>1 DEF IInv, TrailSafe, AuditExplainsRequests
  <2>2. trailNext(r) = {e}
    BY <1>5, <1>6, <2>1
  <2>3. ASSUME NEW q \in 1..Len(requests), q # r
        PROVE  trailNext(q) = trail(q)
    BY <1>5, <1>6, <2>3
  <2> SUFFICES ASSUME NEW q \in 1..Len(requests)
               PROVE  CASE requests'[q].status = "pending" ->
                             trailNext(q) = {}
                        [] requests'[q].status = "approved" ->
                             \E f \in trailNext(q) : /\ trailNext(q) = {f}
                                                     /\ f.action = "approve"
                        [] OTHER ->
                             \E f \in trailNext(q) : /\ trailNext(q) = {f}
                                                     /\ f.action = "reject"
    BY <1>7 DEF AuditExplainsRequests
  <2>4. CASE q = r
    BY <2>4, <2>2, <1>3, <1>5, <1>7
  <2>5. CASE q # r
    <3>1. trailNext(q) = trail(q) /\ requests'[q] = requests[q]
      BY <2>3, <2>5, <1>7
    <3>2. CASE requests[q].status = "pending"
      <4>1. trail(q) = {}
        BY <3>2 DEF IInv, TrailSafe, AuditExplainsRequests
      <4> HIDE DEF trail, trailNext
      <4> QED BY <3>1, <3>2, <4>1
    <3>3. CASE requests[q].status = "approved"
      <4>1. \E f \in trail(q) : trail(q) = {f} /\ f.action = "approve"
        BY <3>3 DEF IInv, TrailSafe, AuditExplainsRequests
      <4> HIDE DEF trail, trailNext
      <4> QED BY <3>1, <3>3, <4>1
    <3>4. CASE requests[q].status \notin {"pending", "approved"}
      <4>1. \E f \in trail(q) : trail(q) = {f} /\ f.action = "reject"
        BY <3>4 DEF IInv, TrailSafe, AuditExplainsRequests
      <4> HIDE DEF trail, trailNext
      <4> QED BY <3>1, <3>4, <4>1
    <3> QED BY <3>2, <3>3, <3>4
  <2> QED BY <2>4, <2>5
<1> QED BY <1>3, <1>7, <1>8 DEF r

\* Whoever decides is a configured owner.
LEMMA DeciderIsOwner ==
  ASSUME IInv, NEW h \in Handlers, op[h].pc = "decide"
  PROVE  op[h].who \in Owners /\ op[h].who \in People
<1>1. /\ op[h].via \in 1..Len(challenges)
      /\ challenges[op[h].via].actor = op[h].who
      /\ challenges[op[h].via].action \in {"approve", "reject", "revoke"}
  BY DEF IInv, Links, InFlight, Decisions
<1> QED BY <1>1, OwnersAssumption DEF IInv, Links, ChallengesSound

\* For a configured owner, having access means not being revoked.
LEMMA OwnerAccess ==
  ASSUME TypeOK, NEW p \in Owners
  PROVE  HasContext(p) <=> users[p] \in {"none", "active"}
  BY DEF HasContext

\* An approval gives all four rows of access to the person who asked.
LEMMA ApproveStep ==
  ASSUME IInv, NEW h \in Handlers, Approve(h)
  PROVE  IInv'
<1> DEFINE r == Confirmed(h).subject
           p == requests[r].who
           o == op[h].who
<1>1. o \in Owners /\ o \in People
  BY DeciderIsOwner DEF Approve, Decided, DecidesPending
<1>2. /\ r \in 1..Len(requests) /\ r \in Subjects /\ p \in People
      /\ requests[r].status = "pending"
  <2>1. r \in 1..Len(requests) /\ requests[r].status = "pending"
    BY DEF Approve, Decided, DecidesPending, Pending
  <2>2. requests[r] \in RequestRows
    BY <2>1 DEF IInv, TypeOK
  <2> HIDE DEF r
  <2> QED BY <2>1, <2>2 DEF RequestRows, Subjects
<1>3. /\ requests' \in Seq(RequestRows)
      /\ Len(requests') = Len(requests)
      /\ requests'[r].status = "approved"
      /\ \A q \in 1..Len(requests) :
           /\ requests'[q].who = requests[q].who
           /\ q # r => requests'[q] = requests[q]
      /\ AuditExplainsRequests'
  BY DecideRequest DEF Approve, Decided
<1>4. /\ audit' \subseteq AuditRows
      /\ op' \in [Handlers -> Operations]
      /\ ConfirmedOnce' /\ DecisionsConfirmed' /\ Links'
  BY <1>1, <1>2, <1>3, RecordStep DEF Approve, Decided, DecidesPending
<1>5. /\ users' = [users EXCEPT ![o] = "active", ![p] = "active"]
      /\ workspace' = [workspace EXCEPT ![p] = "active"]
      /\ membership' = [membership EXCEPT ![p] = "active"]
      /\ destination' = [destination EXCEPT ![p] = "enabled"]
      /\ UNCHANGED <<challenges, clock>>
  BY DEF Approve, Decided
<1> HIDE DEF r, p, o
<1>6. TypeOK'
  BY <1>3, <1>4, <1>5 DEF IInv, TypeOK
<1>7. RowsSafe'
  <2>1. OnePendingRequest'
    BY <1>2, <1>3 DEF IInv, RowsSafe, OnePendingRequest, Pending
  <2>2. AccessNeedsApproval'
    <3> SUFFICES ASSUME NEW q \in People \ Owners, users'[q] = "active"
                 PROVE  \E t \in 1..Len(requests) :
                          requests'[t].who = q /\ requests'[t].status = "approved"
      BY <1>3 DEF AccessNeedsApproval, RequestsOf
    <3>1. CASE q = p
      BY <3>1, <1>2, <1>3 DEF p
    <3>2. CASE q # p
      <4>1. users[q] = "active"
        BY <3>2, <1>1, <1>5 DEF IInv, TypeOK
      <4>2. PICK t \in 1..Len(requests) :
              requests[t].who = q /\ requests[t].status = "approved"
        BY <4>1 DEF IInv, RowsSafe, AccessNeedsApproval, RequestsOf
      <4> QED BY <4>2, <1>2, <1>3
    <3> QED BY <3>1, <3>2
  <2>3. AccessConsistent'
    BY <1>1, <1>2, <1>5 DEF IInv, TypeOK, RowsSafe, AccessConsistent
  <2>4. OwnersKeepAccess'
    <3>1. \A q \in Owners : users'[q] \in {"none", "active"}
      BY <1>1, <1>2, <1>5, OwnerAccess, OwnersAssumption
         DEF IInv, TypeOK, RowsSafe, OwnersKeepAccess
    <3> QED BY <3>1 DEF OwnersKeepAccess, HasContext
  <2> QED BY <2>1, <2>2, <2>3, <2>4 DEF RowsSafe
<1> QED BY <1>3, <1>4, <1>6, <1>7 DEF IInv, TrailSafe

\* A rejection decides the request and touches no access row but the owner's.
LEMMA RejectStep ==
  ASSUME IInv, NEW h \in Handlers, Reject(h)
  PROVE  IInv'
<1> DEFINE r == Confirmed(h).subject
           o == op[h].who
<1>1. o \in Owners /\ o \in People
  BY DeciderIsOwner DEF Reject, Decided, DecidesPending
<1>2. /\ r \in 1..Len(requests) /\ r \in Subjects
      /\ requests[r].status = "pending"
  BY DEF Reject, Decided, DecidesPending, Pending, IInv, TypeOK, Subjects
<1>3. /\ requests' \in Seq(RequestRows)
      /\ Len(requests') = Len(requests)
      /\ requests'[r].status = "rejected"
      /\ \A q \in 1..Len(requests) :
           /\ requests'[q].who = requests[q].who
           /\ q # r => requests'[q] = requests[q]
      /\ AuditExplainsRequests'
  BY DecideRequest DEF Reject, Decided
<1>4. /\ audit' \subseteq AuditRows
      /\ op' \in [Handlers -> Operations]
      /\ ConfirmedOnce' /\ DecisionsConfirmed' /\ Links'
  BY <1>1, <1>2, <1>3, RecordStep DEF Reject, Decided, DecidesPending
<1>5. /\ users' = [users EXCEPT ![o] = "active"]
      /\ UNCHANGED <<workspace, membership, destination, challenges, clock>>
  BY DEF Reject, Decided
<1> HIDE DEF r, o
<1>6. TypeOK'
  BY <1>3, <1>4, <1>5 DEF IInv, TypeOK
<1>7. RowsSafe'
  <2>1. OnePendingRequest'
    BY <1>2, <1>3 DEF IInv, RowsSafe, OnePendingRequest, Pending
  <2>2. AccessNeedsApproval'
    <3> SUFFICES ASSUME NEW q \in People \ Owners, users'[q] = "active"
                 PROVE  \E t \in 1..Len(requests) :
                          requests'[t].who = q /\ requests'[t].status = "approved"
      BY <1>3 DEF AccessNeedsApproval, RequestsOf
    <3>1. users[q] = "active"
      BY <1>1, <1>5 DEF IInv, TypeOK
    <3>2. PICK t \in 1..Len(requests) :
            requests[t].who = q /\ requests[t].status = "approved"
      BY <3>1 DEF IInv, RowsSafe, AccessNeedsApproval, RequestsOf
    <3> QED BY <3>2, <1>2, <1>3
  <2>3. AccessConsistent'
    BY <1>1, <1>5 DEF IInv, TypeOK, RowsSafe, AccessConsistent
  <2>4. OwnersKeepAccess'
    <3>1. \A q \in Owners : users'[q] \in {"none", "active"}
      BY <1>1, <1>5, OwnerAccess, OwnersAssumption
         DEF IInv, TypeOK, RowsSafe, OwnersKeepAccess
    <3> QED BY <3>1 DEF OwnersKeepAccess, HasContext
  <2> QED BY <2>1, <2>2, <2>3, <2>4 DEF RowsSafe
<1> QED BY <1>3, <1>4, <1>6, <1>7 DEF IInv, TrailSafe

\* A revocation takes all four rows away, and never from an owner.
LEMMA RevokeStep ==
  ASSUME IInv, NEW h \in Handlers, Revoke(h)
  PROVE  IInv'
<1> DEFINE p == Confirmed(h).subject
           o == op[h].who
<1>1. o \in Owners /\ o \in People
  BY DeciderIsOwner DEF Revoke, Revocable
<1>2. p \in Subjects
  <2>1. op[h].via \in 1..Len(challenges)
    BY DEF Revoke, Revocable, IInv, Links, InFlight
  <2>2. challenges[op[h].via] \in ChallengeRows
    BY <2>1 DEF IInv, TypeOK
  <2> QED BY <2>2 DEF Confirmed, ChallengeRows
<1>3. /\ audit' \subseteq AuditRows
      /\ op' \in [Handlers -> Operations]
      /\ ConfirmedOnce' /\ DecisionsConfirmed' /\ Links'
  BY <1>1, <1>2, RecordStep DEF Revoke, Revocable
<1>4. /\ p \notin Owners
      /\ users' = [users EXCEPT ![o] = "active", ![p] = "revoked"]
      /\ workspace' = Suspend(workspace, p, "suspended")
      /\ membership' = Suspend(membership, p, "revoked")
      /\ destination' = Suspend(destination, p, "disabled")
      /\ UNCHANGED <<requests, challenges, clock>>
  BY DEF Revoke, Revocable
<1>5. \E e : /\ audit' = audit \cup {e}
             /\ e.action = "revoke"
  <2> DEFINE e == [action |-> Confirmed(h).action, actor |-> o,
                   subject |-> p, via |-> op[h].via]
  <2>1. e.action = "revoke"
    BY DEF Revoke, Revocable
  <2>2. audit' = audit \cup {e}
    BY DEF Revoke, Revocable, Record
  <2> HIDE DEF e
  <2> QED BY <2>1, <2>2
<1> HIDE DEF p, o
<1>6. TypeOK'
  BY <1>3, <1>4 DEF IInv, TypeOK, Suspend
<1>7. RowsSafe'
  <2>1. OnePendingRequest'
    BY <1>4 DEF IInv, RowsSafe, OnePendingRequest, Pending
  <2>2. AccessNeedsApproval'
    <3> SUFFICES ASSUME NEW q \in People \ Owners, users'[q] = "active"
                 PROVE  \E t \in RequestsOf(q) : requests[t].status = "approved"
      BY <1>4 DEF AccessNeedsApproval, RequestsOf
    <3>1. users[q] = "active"
      BY <1>1, <1>4 DEF IInv, TypeOK
    <3> QED BY <3>1 DEF IInv, RowsSafe, AccessNeedsApproval
  <2>3. AccessConsistent'
    BY <1>1, <1>4 DEF IInv, TypeOK, RowsSafe, AccessConsistent, Suspend
  <2>4. OwnersKeepAccess'
    <3>1. \A q \in Owners : users'[q] \in {"none", "active"}
      BY <1>1, <1>4, OwnerAccess, OwnersAssumption
         DEF IInv, TypeOK, RowsSafe, OwnersKeepAccess
    <3> QED BY <3>1 DEF OwnersKeepAccess, HasContext
  <2> QED BY <2>1, <2>2, <2>3, <2>4 DEF RowsSafe
<1>8. AuditExplainsRequests'
  <2> DEFINE trail(r) == {e \in audit : e.action # "revoke" /\ e.subject = r}
             trailNext(r) == {e \in audit' : e.action # "revoke" /\ e.subject = r}
  <2> SUFFICES ASSUME NEW r \in 1..Len(requests)
               PROVE  CASE requests[r].status = "pending" ->
                             trailNext(r) = {}
                        [] requests[r].status = "approved" ->
                             \E f \in trailNext(r) : /\ trailNext(r) = {f}
                                                     /\ f.action = "approve"
                        [] OTHER ->
                             \E f \in trailNext(r) : /\ trailNext(r) = {f}
                                                     /\ f.action = "reject"
    BY <1>4 DEF AuditExplainsRequests
  <2>1. trailNext(r) = trail(r)
    BY <1>5
  <2> QED BY <2>1 DEF IInv, TrailSafe, AuditExplainsRequests
<1> QED BY <1>3, <1>6, <1>7, <1>8 DEF IInv, TrailSafe

-----------------------------------------------------------------------------
(* The theorems.                                                           *)

\* Every step of every handler preserves the inductive invariant.
LEMMA NextIInv == IInv /\ [Next]_vars => IInv'
<1> SUFFICES ASSUME IInv, [Next]_vars PROVE IInv'
  OBVIOUS
<1>1. ASSUME NEW h \in Handlers, Handle(h) PROVE IInv'
  <2>1. CASE \/ \E p \in People : StartReadPrincipal(h, p) \/ Resolve(h, p)
             \/ StartReadLatest(h)
             \/ AdminRequests(h)
             \/ FinishWallet(h)
             \/ Abandon(h)
    BY <2>1, HandlerSteps
  <2>2. CASE StartInsert(h)
    BY <2>2, InsertStep
  <2>3. CASE SendCard(h)
    BY <2>3, SendCardStep
  <2>4. CASE (\E p \in People : AdminRevoke(h, p)) \/ CreateWalletCommand(h)
    BY <2>4, CommandStep, OwnersAssumption
  <2>5. CASE \E c \in 1..Len(challenges), action \in Actions :
               Consume(h, c, action)
    BY <2>5, ConsumeStep
  <2>6. CASE Approve(h) \/ Reject(h) \/ Revoke(h)
    BY <2>6, ApproveStep, RejectStep, RevokeStep
  <2> QED BY <1>1, <2>1, <2>2, <2>3, <2>4, <2>5, <2>6, BoundsAssumption
       DEF Handle
<1>2. CASE UNCHANGED vars
  <2> USE <1>2 DEF vars
  <2>1. TypeOK'
    BY DEF IInv, TypeOK
  <2>2. RowsSafe'
    BY DEF IInv, RowsSafe, OnePendingRequest, AccessNeedsApproval,
           AccessConsistent, OwnersKeepAccess, HasContext, InWorkspace,
           RequestsOf, Pending
  <2>3. TrailSafe'
    BY DEF IInv, TrailSafe, ConfirmedOnce, DecisionsConfirmed,
           AuditExplainsRequests
  <2>4. Links'
    BY DEF IInv, Links, ChallengesSound, CardsSound, InFlight
  <2> QED BY <2>1, <2>2, <2>3, <2>4 DEF IInv
<1> QED BY <1>1, <1>2 DEF Next

\* IInv is an invariant of the system.
THEOREM Invariance == Spec => []IInv
<1> QED BY InitIInv, NextIInv, PTL DEF Spec

\* Every state of the tables and the handlers is one the data model allows.
THEOREM TypeCorrect == Spec => []TypeOK
<1>1. IInv => TypeOK
  BY DEF IInv
<1> QED BY <1>1, Invariance, PTL

\* However /start updates interleave, a person has at most one undecided
\* request.
THEOREM OneRequest == Spec => []OnePendingRequest
<1>1. IInv => OnePendingRequest
  BY DEF IInv, RowsSafe
<1> QED BY <1>1, Invariance, PTL

\* However approvals and revocations interleave and wherever they fail, the
\* rows that make up a person's access agree, nobody but a configured owner is
\* active without an approved request, and no owner is locked out.
THEOREM AccessIsSound ==
  Spec => [](AccessNeedsApproval /\ AccessConsistent /\ OwnersKeepAccess)
<1>1. IInv => AccessNeedsApproval /\ AccessConsistent /\ OwnersKeepAccess
  BY DEF IInv, RowsSafe
<1> QED BY <1>1, Invariance, PTL

\* Every recorded decision is backed by a consumed challenge of the owner who
\* made it, and no challenge is acted on twice.
THEOREM ChallengesAreOneShot == Spec => [](ConfirmedOnce /\ DecisionsConfirmed)
<1>1. IInv => ConfirmedOnce /\ DecisionsConfirmed
  BY DEF IInv, TrailSafe
<1> QED BY <1>1, Invariance, PTL

\* The audit trail has exactly one record for each decided request.
THEOREM TrailIsComplete == Spec => []AuditExplainsRequests
<1>1. IInv => AuditExplainsRequests
  BY DEF IInv, TrailSafe
<1> QED BY <1>1, Invariance, PTL

-----------------------------------------------------------------------------
(* What a step may never do.                                               *)

\* The steps that neither decide a request nor touch a user's status.
Undeciding(h) ==
  \/ \E p \in People : StartReadPrincipal(h, p) \/ Resolve(h, p)
  \/ StartReadLatest(h)
  \/ StartInsert(h)
  \/ SendCard(h)
  \/ AdminRequests(h)
  \/ \E p \in People : AdminRevoke(h, p)
  \/ CreateWalletCommand(h)
  \/ \E c \in 1..Len(challenges), action \in Actions : Consume(h, c, action)
  \/ FinishWallet(h)
  \/ Abandon(h)

\* They keep every request there is, and every status.
LEMMA UndecidingStep ==
  ASSUME TypeOK, NEW h \in Handlers, Undeciding(h)
  PROVE  /\ users' = users
         /\ \A r \in 1..Len(requests) : requests'[r] = requests[r]
<1>1. CASE StartInsert(h)
  <2>1. users' = users
    BY <1>1 DEF StartInsert, accessRows
  <2>2. CASE UNCHANGED requests
    BY <2>1, <2>2
  <2>3. CASE requests' = Append(requests, [who |-> op[h].who, at |-> op[h].at,
                                           status |-> "pending"])
    <3> DEFINE row == [who |-> op[h].who, at |-> op[h].at,
                       status |-> "pending"]
    <3> requests' = Append(requests, row) /\ requests \in Seq(RequestRows)
      BY <2>3 DEF TypeOK
    <3> HIDE DEF row
    <3> QED BY <2>1
  <2> QED BY <1>1, <2>2, <2>3 DEF StartInsert, HasPending
<1>2. CASE ~ StartInsert(h)
  BY <1>2 DEF Undeciding, StartReadPrincipal, Resolve, StartReadLatest,
              SendCard, AdminRequests, AdminRevoke, CreateWalletCommand,
              Consume, FinishWallet, Abandon, accessRows
<1> QED BY <1>1, <1>2

\* A step that decides changes one request, which was pending.
LEMMA DecidingStep ==
  ASSUME TypeOK, NEW h \in Handlers, Approve(h) \/ Reject(h)
  PROVE  \E r \in Pending :
           /\ \A s \in 1..Len(requests) : s # r => requests'[s] = requests[s]
           /\ Approve(h) => /\ users' = [users EXCEPT ![op[h].who] = "active",
                                           ![requests[r].who] = "active"]
                            /\ requests'[r].status = "approved"
           /\ Reject(h) => users' = [users EXCEPT ![op[h].who] = "active"]
<1> DEFINE r == Confirmed(h).subject
<1>1. r \in Pending /\ r \in 1..Len(requests)
  BY DEF Approve, Reject, DecidesPending, Pending
<1>2. PICK status \in {"approved", "rejected"} :
        /\ requests' = [requests EXCEPT ![r].status = status]
        /\ Approve(h) => status = "approved"
  <2>1. CASE Approve(h)
    BY <2>1 DEF Approve, Decided
  <2>2. CASE ~ Approve(h)
    BY <2>2 DEF Reject, Decided
  <2> QED BY <2>1, <2>2
<1>3. /\ Approve(h) => users' = [users EXCEPT ![op[h].who] = "active",
                                   ![requests[r].who] = "active"]
      /\ Reject(h) => users' = [users EXCEPT ![op[h].who] = "active"]
  BY DEF Approve, Reject
<1> HIDE DEF r
<1>4. requests[r] \in RequestRows
  BY <1>1 DEF TypeOK
<1> DEFINE row == [who |-> requests[r].who, at |-> requests[r].at,
                   status |-> status]
<1>5. requests' = [requests EXCEPT ![r] = row]
  BY <1>2, <1>4, DecidedRow
<1>6. row.status = status
  OBVIOUS
<1> HIDE DEF row
<1>7. /\ requests'[r] = row
      /\ \A s \in 1..Len(requests) : s # r => requests'[s] = requests[s]
  BY <1>1, <1>5 DEF TypeOK
<1> QED BY <1>1, <1>2, <1>3, <1>6, <1>7

\* A decision on a request is final: whoever loses a race of two decisions
\* changes nothing, and nothing reopens it later.
THEOREM DecisionsAreFinal == Spec => DecisionsFinal
<1>1. ASSUME IInv, [Next]_vars
      PROVE  \A r \in 1..Len(requests) :
               requests[r].status # "pending" => requests'[r] = requests[r]
  <2> USE <1>1 DEF IInv
  <2>1. CASE UNCHANGED vars
    BY <2>1 DEF vars
  <2>2. ASSUME NEW h \in Handlers, Handle(h)
        PROVE  \A r \in 1..Len(requests) :
                 requests[r].status # "pending" => requests'[r] = requests[r]
    <3>1. CASE Undeciding(h)
      BY <3>1, UndecidingStep
    <3>2. CASE Approve(h) \/ Reject(h)
      BY <3>2, DecidingStep DEF Pending
    <3>3. CASE Revoke(h)
      BY <3>3 DEF Revoke
    <3> QED BY <2>2, <3>1, <3>2, <3>3, BoundsAssumption
        DEF Handle, Undeciding
  <2> QED BY <2>1, <2>2 DEF Next
<1>2. IInv /\ [Next]_vars =>
        [\A r \in 1..Len(requests) :
           requests[r].status # "pending" => requests'[r] = requests[r]]_vars
  BY <1>1
<1> QED BY <1>2, Invariance, PTL DEF Spec, DecisionsFinal

\* A revoked person is let in again only by the approval of a request of
\* theirs that was pending when it was approved.
THEOREM RevokedNeedApproval == Spec => RevokedStayOut
<1> DEFINE Back(p) == users[p] = "revoked" /\ users'[p] = "active"
           Asked(p) == \E r \in RequestsOf(p) \cap Pending :
                         requests'[r].status = "approved"
<1>1. ASSUME IInv, [Next]_vars, NEW p \in People, Back(p)
      PROVE  Asked(p)
  <2> USE <1>1 DEF IInv
  <2>1. CASE UNCHANGED vars
    BY <2>1 DEF vars
  <2>2. ASSUME NEW h \in Handlers, Handle(h)
        PROVE  Asked(p)
    <3>1. CASE Undeciding(h)
      BY <3>1, UndecidingStep
    <3>2. p \notin Owners
      BY OwnerAccess DEF RowsSafe, OwnersKeepAccess
    <3>3. CASE Approve(h)
      <4>1. op[h].who \in Owners
        BY <3>3, DeciderIsOwner DEF Approve, DecidesPending
      <4>2. PICK r \in Pending :
              /\ users' = [users EXCEPT ![op[h].who] = "active",
                             ![requests[r].who] = "active"]
              /\ requests'[r].status = "approved"
        BY <3>3, DecidingStep
      <4>3. p = requests[r].who
        BY <3>2, <4>1, <4>2 DEF TypeOK
      <4> QED BY <4>2, <4>3 DEF RequestsOf, Pending
    <3>4. CASE Reject(h)
      <4>1. op[h].who \in Owners
        BY <3>4, DeciderIsOwner DEF Reject, DecidesPending
      <4> QED BY <3>2, <3>4, <4>1 DEF Reject, TypeOK
    <3>5. CASE Revoke(h)
      <4>1. op[h].who \in Owners
        BY <3>5, DeciderIsOwner DEF Revoke
      <4> QED BY <3>2, <3>5, <4>1 DEF Revoke, TypeOK
    <3> QED BY <2>2, <3>1, <3>3, <3>4, <3>5, BoundsAssumption
        DEF Handle, Undeciding
  <2> QED BY <1>1, <2>1, <2>2 DEF Next
<1>2. IInv /\ [Next]_vars => [\A p \in People : Back(p) => Asked(p)]_vars
  BY <1>1
<1> QED BY <1>2, Invariance, PTL DEF Spec, RevokedStayOut

=============================================================================
