--------------------------- MODULE AccessControl ---------------------------
(***************************************************************************)
(* Invite-only access to the bot: requests, the owner's decisions, the     *)
(* single-use confirmation challenges, and what revocation takes away.     *)
(*                                                                         *)
(* A handler is one webhook update being processed.  It runs as a series   *)
(* of database transactions with awaits in between, so other handlers      *)
(* interleave with it and it may fail after any of them, leaving what it   *)
(* has committed.  One action below is one transaction (or one read) of    *)
(* one handler.  Rows are never deleted: the request and challenge tables  *)
(* are append-only sequences whose index stands for the row's uuid.  Time  *)
(* is left out: an expired challenge is one that nobody confirms any more. *)
(***************************************************************************)
EXTENDS Naturals, Sequences, FiniteSets

CONSTANTS
  People,        \* Telegram users known to the bot
  Owners,        \* PLATFORM_OWNER_TELEGRAM_IDS, the configured owners
  Handlers,      \* updates that can be in progress at the same time
  Askers,        \* bound: the people who send /start
  MaxRequests,   \* bound: rows of access_requests
  MaxCards,      \* bound: decision cards sent to owners
  MaxCommands,   \* bound: challenges issued by the other commands
  MaxClock       \* bound: readings of the clock by request_access

ASSUME OwnersAssumption == Owners \subseteq People /\ Owners # {}
ASSUME BoundsAssumption == /\ Askers \subseteq People
                           /\ MaxRequests \in Nat
                           /\ MaxCards \in Nat
                           /\ MaxCommands \in Nat
                           /\ MaxClock \in Nat

VARIABLES
  users,       \* platform_users.status of each person, "none" without a row
  workspace,   \* workspaces.status of the person's personal workspace
  membership,  \* workspace_memberships.status of the person in it
  destination, \* notification_destinations.enabled of the person's chat
  requests,    \* access_requests in insertion order
  challenges,  \* callback_challenges in insertion order
  audit,       \* the decisions recorded in audit_logs
  clock,       \* orders the requested_at values read by request_access
  op           \* what each handler is doing

vars == <<users, workspace, membership, destination, requests, challenges,
          audit, clock, op>>

accessRows == <<users, workspace, membership, destination>>

-----------------------------------------------------------------------------
(* The records.                                                            *)

Decisions == {"approve", "reject", "revoke"}
Actions == Decisions \cup {"create_wallet"}
Subjects == Nat \cup People      \* a request to decide, or a person

RequestRows == [who : People, at : Nat,
                status : {"pending", "approved", "rejected"}]
ChallengeRows == [action : Actions, actor : People, subject : Subjects,
                  state : {"open", "consumed"}]
AuditRows == [action : Decisions, actor : People, subject : Subjects,
              via : Nat]         \* via: history, the challenge that led here

Idle == [pc |-> "idle"]
Operations ==
  {Idle}
    \cup [pc : {"read_latest"}, who : People]
    \cup [pc : {"insert"}, who : People, at : Nat]
    \cup [pc : {"cards"}, todo : SUBSET (Owners \X Nat)]
    \cup [pc : {"resolved"}, who : People, workspace : BOOLEAN]
    \cup [pc : {"decide"}, who : People, via : Nat]
    \cup [pc : {"wallet"}, who : People, via : Nat]

TypeOK ==
  /\ users \in [People -> {"none", "active", "revoked"}]
  /\ workspace \in [People -> {"none", "active", "suspended"}]
  /\ membership \in [People -> {"none", "active", "revoked"}]
  /\ destination \in [People -> {"none", "enabled", "disabled"}]
  /\ requests \in Seq(RequestRows)
  /\ challenges \in Seq(ChallengeRows)
  /\ audit \subseteq AuditRows
  /\ clock \in Nat
  /\ op \in [Handlers -> Operations]

Init ==
  /\ users = [p \in People |-> "none"]
  /\ workspace = [p \in People |-> "none"]
  /\ membership = [p \in People |-> "none"]
  /\ destination = [p \in People |-> "none"]
  /\ requests = << >>
  /\ challenges = << >>
  /\ audit = {}
  /\ clock = 0
  /\ op = [h \in Handlers |-> Idle]

-----------------------------------------------------------------------------
(* Reads of the tables.                                                    *)

Pending == {r \in 1..Len(requests) : requests[r].status = "pending"}
RequestsOf(p) == {r \in 1..Len(requests) : requests[r].who = p}

\* The partial unique index on access_requests: one pending row per person.
\* Mutant: the application's own read is the only check.
NoIndex(p) == FALSE
HasPending(p) == RequestsOf(p) \cap Pending # {}

\* The request of p with the greatest requested_at, if there is one.
LatestIs(p, r) ==
  /\ r \in RequestsOf(p)
  /\ \A s \in RequestsOf(p) : requests[s].at <= requests[r].at

\* find_principal joins an ACTIVE membership with an ACTIVE workspace.
InWorkspace(p) ==
  /\ users[p] # "none"
  /\ workspace[p] = "active"
  /\ membership[p] = "active"

\* resolve_context returns a context instead of raising an AccessError.
HasContext(p) ==
  \/ users[p] = "none" /\ p \in Owners
  \/ users[p] = "active" /\ (p \in Owners \/ InWorkspace(p))

Issued(actions) ==
  Cardinality({c \in 1..Len(challenges) : challenges[c].action \in actions})

Become(h, operation) == op' = [op EXCEPT ![h] = operation]

Issue(action, actor, subject) ==
  [action |-> action, actor |-> actor, subject |-> subject, state |-> "open"]

-----------------------------------------------------------------------------
(* /start: request_access reads the principal, then the latest request and *)
(* the clock, then inserts; the handler then sends a card to every owner.  *)

StartReadPrincipal(h, p) ==
  /\ op[h] = Idle
  /\ users[p] # "active"            \* otherwise answered "active"
  /\ Become(h, [pc |-> "read_latest", who |-> p])
  /\ UNCHANGED <<accessRows, requests, challenges, audit, clock>>

StartReadLatest(h) ==
  /\ op[h].pc = "read_latest"
  /\ LET p == op[h].who IN
       \/ /\ \E r \in Pending : LatestIs(p, r)    \* answered "pending"
          /\ Become(h, Idle)
          /\ UNCHANGED clock
       \/ /\ ~ \E r \in Pending : LatestIs(p, r)
          /\ clock < MaxClock
          /\ clock' = clock + 1
          /\ Become(h, [pc |-> "insert", who |-> p, at |-> clock])
  /\ UNCHANGED <<accessRows, requests, challenges, audit>>

\* INSERT ... ON CONFLICT DO NOTHING on the one-pending-request index.
StartInsert(h) ==
  /\ op[h].pc = "insert"
  /\ LET p == op[h].who IN
       \/ /\ HasPending(p)                        \* created = False
          /\ Become(h, Idle)
          /\ UNCHANGED requests
       \/ /\ ~ HasPending(p)
          /\ Len(requests) < MaxRequests
          /\ requests' = Append(requests,
                [who |-> p, at |-> op[h].at, status |-> "pending"])
          /\ Become(h, [pc |-> "cards",
                        todo |-> Owners \X {Len(requests) + 1}])
  /\ UNCHANGED <<accessRows, challenges, audit, clock>>

\* One owner's card: the two challenges of owner_keyboard, then the message.
SendCard(h) ==
  /\ op[h].pc = "cards"
  /\ Issued({"approve"}) < MaxCards
  /\ \E card \in op[h].todo :
       /\ challenges' = challenges \o
            <<Issue("approve", card[1], card[2]),
              Issue("reject", card[1], card[2])>>
       /\ Become(h, IF op[h].todo = {card} THEN Idle
                    ELSE [op[h] EXCEPT !.todo = @ \ {card}])
  /\ UNCHANGED <<accessRows, requests, audit, clock>>

-----------------------------------------------------------------------------
(* Private commands: the middleware resolves the context once, and the     *)
(* handler works with that snapshot from then on.                          *)

Resolve(h, p) ==
  /\ op[h] = Idle
  /\ HasContext(p)
  /\ Become(h, [pc |-> "resolved", who |-> p, workspace |-> InWorkspace(p)])
  /\ UNCHANGED <<accessRows, requests, challenges, audit, clock>>

\* /admin_requests: fresh cards, for the asking owner, of what is pending.
AdminRequests(h) ==
  /\ op[h].pc = "resolved"
  /\ op[h].who \in Owners
  /\ Pending # {}
  /\ Become(h, [pc |-> "cards", todo |-> {op[h].who} \X Pending])
  /\ UNCHANGED <<accessRows, requests, challenges, audit, clock>>

\* /admin_revoke <id>: any numeric id is accepted here.
AdminRevoke(h, target) ==
  /\ op[h].pc = "resolved"
  /\ op[h].who \in Owners
  /\ Issued({"revoke", "create_wallet"}) < MaxCommands
  /\ challenges' = Append(challenges, Issue("revoke", op[h].who, target))
  /\ Become(h, Idle)
  /\ UNCHANGED <<accessRows, requests, audit, clock>>

\* /create_wallet: the challenge is bound to the workspace of the context.
CreateWalletCommand(h) ==
  /\ op[h].pc = "resolved"
  /\ op[h].workspace
  /\ Issued({"revoke", "create_wallet"}) < MaxCommands
  /\ challenges' = Append(challenges,
                          Issue("create_wallet", op[h].who, op[h].who))
  /\ Become(h, Idle)
  /\ UNCHANGED <<accessRows, requests, audit, clock>>

-----------------------------------------------------------------------------
(* A pressed button: the challenge is consumed in a transaction of its     *)
(* own, then the confirmed action runs in another.                         *)

\* The WHERE clause of consume_challenge; the chat is the actor's own.
\* Mutant: consumed_at is not looked at.
MatchesUsed(row, action, p) ==
  /\ row.action = action
  /\ row.actor = p
Matches(row, action, p) ==
  /\ row.action = action
  /\ row.actor = p
  /\ row.state = "open"

\* require_workspace for a wallet, require_platform_owner for the rest.
MayConsume(h, action) ==
  IF action = "create_wallet" THEN op[h].workspace ELSE op[h].who \in Owners

Consume(h, c, action) ==
  /\ op[h].pc = "resolved"
  /\ MayConsume(h, action)
  /\ Matches(challenges[c], action, op[h].who)
  /\ challenges' = [challenges EXCEPT ![c].state = "consumed"]
  /\ Become(h, [pc |-> IF action = "create_wallet" THEN "wallet" ELSE "decide",
                who |-> op[h].who, via |-> c])
  /\ UNCHANGED <<accessRows, requests, audit, clock>>

Confirmed(h) == challenges[op[h].via]

Record(h) ==
  audit' = audit \cup {[action |-> Confirmed(h).action, actor |-> op[h].who,
                        subject |-> Confirmed(h).subject, via |-> op[h].via]}

\* A decision on a request needs it to be pending under its row lock.
\* Mutant: the status is not read again.
DecidesAny(h, action) ==
  /\ op[h].pc = "decide"
  /\ Confirmed(h).action = action
  /\ Confirmed(h).subject \in 1..Len(requests)
DecidesPending(h, action) ==
  /\ op[h].pc = "decide"
  /\ Confirmed(h).action = action
  /\ Confirmed(h).subject \in Pending

Decided(r, decision) == [requests EXCEPT ![r].status = decision]

\* approve_request: one transaction, which also creates or reactivates the
\* deciding owner's own user row (_platform_actor).
Approve(h) ==
  /\ DecidesPending(h, "approve")
  /\ LET r == Confirmed(h).subject
         p == requests[r].who IN
       /\ requests' = Decided(r, "approved")
       /\ users' = [users EXCEPT ![op[h].who] = "active", ![p] = "active"]
       /\ workspace' = [workspace EXCEPT ![p] = "active"]
       /\ membership' = [membership EXCEPT ![p] = "active"]
       /\ destination' = [destination EXCEPT ![p] = "enabled"]
  /\ Record(h)
  /\ Become(h, Idle)
  /\ UNCHANGED <<challenges, clock>>

Reject(h) ==
  /\ DecidesPending(h, "reject")
  /\ requests' = Decided(Confirmed(h).subject, "rejected")
  /\ users' = [users EXCEPT ![op[h].who] = "active"]
  /\ Record(h)
  /\ Become(h, Idle)
  /\ UNCHANGED <<workspace, membership, destination, challenges, clock>>

\* What revocation turns off, if the person has a workspace at all.
\* Mutant: the chat keeps its notifications.
SuspendNotChat(table, p, off) == IF off = "disabled" THEN table
                                 ELSE [table EXCEPT ![p] = off]
Suspend(table, p, off) == IF workspace[p] = "none" THEN table
                          ELSE [table EXCEPT ![p] = off]

\* Refused for a configured owner and for a person without a user row.
Revocable(p) == p \notin Owners /\ users[p] # "none"

\* revoke, then revoke_user; challenges are left as they are.
Revoke(h) ==
  /\ op[h].pc = "decide"
  /\ Confirmed(h).action = "revoke"
  /\ LET p == Confirmed(h).subject IN
       /\ Revocable(p)
       /\ users' = [users EXCEPT ![op[h].who] = "active", ![p] = "revoked"]
       /\ workspace' = Suspend(workspace, p, "suspended")
       /\ membership' = Suspend(membership, p, "revoked")
       /\ destination' = Suspend(destination, p, "disabled")
  /\ Record(h)
  /\ Become(h, Idle)
  /\ UNCHANGED <<requests, challenges, clock>>

\* The confirmed wallet command; WalletCreation models what it does.
FinishWallet(h) ==
  /\ op[h].pc = "wallet"
  /\ Become(h, Idle)
  /\ UNCHANGED <<accessRows, requests, challenges, audit, clock>>

\* The handler is refused, raises, is rolled back or dies with its process:
\* what it committed stays, the rest of it never happens.
Abandon(h) ==
  /\ op[h] # Idle
  /\ Become(h, Idle)
  /\ UNCHANGED <<accessRows, requests, challenges, audit, clock>>

-----------------------------------------------------------------------------

Handle(h) ==
  \/ \E p \in Askers : StartReadPrincipal(h, p)
  \/ \E p \in People : Resolve(h, p)
  \/ StartReadLatest(h)
  \/ StartInsert(h)
  \/ SendCard(h)
  \/ AdminRequests(h)
  \/ \E p \in People : AdminRevoke(h, p)
  \/ CreateWalletCommand(h)
  \/ \E c \in 1..Len(challenges), action \in Actions : Consume(h, c, action)
  \/ Approve(h)
  \/ Reject(h)
  \/ Revoke(h)
  \/ FinishWallet(h)
  \/ Abandon(h)

Next == \E h \in Handlers : Handle(h)

Spec == Init /\ [][Next]_vars

-----------------------------------------------------------------------------
(* Safety.                                                                 *)

\* Duplicate and concurrent /start updates leave at most one undecided
\* request per person (get_or_create_pending_request).
OnePendingRequest ==
  \A r, s \in Pending : requests[r].who = requests[s].who => r = s

\* Only somebody with a decided-in-favour request is let in; the configured
\* owners need none (approve_request, _platform_actor).
AccessNeedsApproval ==
  \A p \in People \ Owners :
    users[p] = "active" =>
      \E r \in RequestsOf(p) : requests[r].status = "approved"

\* The four rows that make up a person's access move together: in whatever
\* order approvals and revocations interleave, no revoked person keeps a
\* workspace, a membership or a notification destination, and nobody is
\* active with one of them missing (approve_request, revoke_user).
AccessConsistent ==
  \A p \in People :
    /\ workspace[p] = "active" <=> membership[p] = "active"
    /\ workspace[p] = "active" <=> destination[p] = "enabled"
    /\ workspace[p] = "none" <=> membership[p] = "none"
    /\ workspace[p] = "active" => users[p] = "active"
    /\ p \notin Owners /\ users[p] = "active" => workspace[p] = "active"

\* A configured owner is never locked out by the bot (AccessService.revoke).
OwnersKeepAccess == \A p \in Owners : HasContext(p)

\* A confirmation is worth one action: a challenge that a handler acts on is
\* consumed, no other handler acts on it, and no decision was recorded for it
\* yet (consume_challenge, access_callback).
ConfirmedOnce ==
  \A h \in Handlers :
    op[h].pc \in {"decide", "wallet"} =>
      /\ \A e \in audit : e.via # op[h].via
      /\ \A g \in Handlers \ {h} :
           op[g].pc \in {"decide", "wallet"} => op[g].via # op[h].via

\* Every recorded decision was made by a configured owner who pressed a
\* button issued to that owner for that action on that subject.
DecisionsConfirmed ==
  \A e \in audit :
    /\ e.actor \in Owners
    /\ e.via \in 1..Len(challenges)
    /\ challenges[e.via] = [action |-> e.action, actor |-> e.actor,
                            subject |-> e.subject, state |-> "consumed"]

\* The audit trail explains every request: a decided one has exactly one
\* record, of that decision, and a pending one has none, however many owners
\* press Approve and Reject at the same time.
AuditExplainsRequests ==
  \A r \in 1..Len(requests) :
    LET records == {e \in audit : e.action # "revoke" /\ e.subject = r} IN
    CASE requests[r].status = "pending"  -> records = {}
      [] requests[r].status = "approved" ->
           \E e \in records : records = {e} /\ e.action = "approve"
      [] OTHER ->
           \E e \in records : records = {e} /\ e.action = "reject"

\* A revoked person comes back only through the approval of a request of
\* theirs that was still pending, never by another owner's unrelated step.
RevokedStayOut ==
  [][\A p \in People :
       users[p] = "revoked" /\ users'[p] = "active" =>
         \E r \in RequestsOf(p) \cap Pending :
           requests'[r].status = "approved"]_vars

\* A decision is final: the loser of a race between two owners changes
\* nothing, and no later confirmation reopens or reverses the request.
DecisionsFinal ==
  [][\A r \in 1..Len(requests) :
       requests[r].status # "pending" => requests'[r] = requests[r]]_vars

=============================================================================
