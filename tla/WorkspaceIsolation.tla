-------------------------- MODULE WorkspaceIsolation --------------------------
(***************************************************************************)
(* What keeps the rows of one workspace from the requests of another: the  *)
(* WHERE of each query, and below it the row level security policies,      *)
(* which compare a row with two settings that a transaction makes for      *)
(* itself.  Transactions run at the same time on pooled connections; each  *)
(* is a fixed sequence of statements, may be aborted between any two, and  *)
(* leaves its connection to whoever comes next.  A workspace stands for    *)
(* its one member as well.                                                 *)
(***************************************************************************)
EXTENDS Naturals, Sequences

CONSTANTS
  Workspaces,   \* workspaces, each with its member
  NoWorkspace,  \* a setting that is not made, and the NULL of an audit row
  Connections,  \* connections of the pool
  Roles         \* the database roles considered

ASSUME NoWorkspaceAssumption == NoWorkspace \notin Workspaces
ASSUME RolesAssumption == Roles # {} /\ Roles \subseteq {"subject", "exempt"}

VARIABLES
  role,        \* "exempt": a superuser, which no policy applies to
  connection,  \* the transaction on each connection
  setting,     \* app.user_id and app.workspace_id, as the connection has them
  missed       \* history: kinds of transaction that could not do what they had to

isolationVars == <<role, connection, setting, missed>>

Free == [kind |-> "idle"]

\* The statements of each kind of transaction, by the table they concern.
\* principal: find_principal.  decision: approve_request and revoke_user; bare:
\* revoke_user for a person who has no workspace.  unscoped: reject_request and
\* unauthorized_attempt.  private, lookup: wallets and collections.
\* Mutant: a decision makes the workspace its setting after it has used it.
Late ==
  [principal |-> <<"set_user", "memberships">>,
   decision  |-> <<"set_user", "workspaces", "memberships", "private",
                   "set_workspace", "audit">>,
   bare      |-> <<"set_user", "audit_null">>,
   unscoped  |-> <<"audit_null">>,
   private   |-> <<"set_workspace", "private", "audit">>,
   lookup    |-> <<"set_workspace", "private">>]
Statements ==
  [principal |-> <<"set_user", "memberships">>,
   decision  |-> <<"set_user", "workspaces", "set_workspace", "memberships",
                   "private", "audit">>,
   bare      |-> <<"set_user", "audit_null">>,
   unscoped  |-> <<"audit_null">>,
   private   |-> <<"set_workspace", "private", "audit">>,
   lookup    |-> <<"set_workspace", "private">>]

Kinds == DOMAIN Statements

UserTables == {"workspaces", "memberships"}
Tables == UserTables \cup {"private"}

\* of: the workspace acted for; row: the one that the row asked for belongs to.
Transactions ==
  [kind : Kinds, of : Workspaces, row : Workspaces, next : Nat \ {0}]
Unset == [user |-> NoWorkspace, workspace |-> NoWorkspace]

IsolationTypeOK ==
  /\ role \in Roles
  /\ connection \in [Connections -> {Free} \cup Transactions]
  /\ setting \in [Connections -> [user : Workspaces \cup {NoWorkspace},
                                  workspace : Workspaces \cup {NoWorkspace}]]
  /\ missed \subseteq Kinds

IsolationInit ==
  /\ role \in Roles
  /\ connection = [c \in Connections |-> Free]
  /\ setting = [c \in Connections |-> Unset]
  /\ missed = {}

-----------------------------------------------------------------------------
(* The policies.                                                           *)

\* enable_workspace_rls: the row's workspace or, in two tables, its member.
Admits(c, table, w) ==
  \/ setting[c].workspace = w
  \/ table \in UserTables /\ setting[c].user = w

\* audit_logs: an insert may leave the workspace out, but the row it returns
\* (occurred_at is read back) must satisfy the policy for SELECT as well, which
\* NULL does not.
AuditInserts(c, w) == w = NoWorkspace \/ setting[c].workspace = w
AuditShows(c, w) == w # NoWorkspace /\ setting[c].workspace = w

Reaches(c, table, w) == role = "exempt" \/ Admits(c, table, w)
Records(c, w) == role = "exempt" \/ (AuditInserts(c, w) /\ AuditShows(c, w))

\* The WHERE of the repositories.
Selects(of, row) == row = of

-----------------------------------------------------------------------------

\* A request or a job takes a connection from the pool.  A job or a message
\* may name a private row of another workspace; everything else names its own.
Begin(c, kind, w, row) ==
  /\ connection[c] = Free
  /\ kind \notin {"private", "lookup"} => row = w
  /\ connection' = [connection EXCEPT ![c] =
                      [kind |-> kind, of |-> w, row |-> row, next |-> 1]]
  /\ UNCHANGED <<role, setting, missed>>

\* set_config(..., true) holds until the end of the transaction.  Mutant: for
\* the session, so that the connection keeps it.
Kept(c) == setting[c]
AtEnd(c) == Unset

End(c) ==
  /\ connection' = [connection EXCEPT ![c] = Free]
  /\ setting' = [setting EXCEPT ![c] = AtEnd(c)]

Continue(c) ==
  IF connection[c].next < Len(Statements[connection[c].kind])
  THEN /\ connection' = [connection EXCEPT ![c].next = @ + 1]
       /\ UNCHANGED setting
  ELSE End(c)

Running(c, statement) ==
  /\ connection[c] # Free
  /\ statement = Statements[connection[c].kind][connection[c].next]

\* set_user_context, set_workspace_context.
SetUser(c) ==
  /\ Running(c, "set_user")
  /\ setting' = [setting EXCEPT ![c].user = connection[c].of]
  /\ connection' = [connection EXCEPT ![c].next = @ + 1]
  /\ UNCHANGED <<role, missed>>

SetWorkspace(c) ==
  /\ Running(c, "set_workspace")
  /\ setting' = [setting EXCEPT ![c].workspace = connection[c].of]
  /\ connection' = [connection EXCEPT ![c].next = @ + 1]
  /\ UNCHANGED <<role, missed>>

Miss(c) == missed' = missed \cup {connection[c].kind}

\* A query or an insert.  A row that is not found ends the transaction with
\* nothing done; to miss a row of one's own is an error, or an update lost.
Query(c, table) ==
  /\ Running(c, table)
  /\ LET w == connection[c].of
         row == connection[c].row
     IN IF Selects(w, row) /\ Reaches(c, table, row)
        THEN Continue(c) /\ UNCHANGED missed
        ELSE /\ IF row = w THEN Miss(c) ELSE UNCHANGED missed
             /\ End(c)
  /\ UNCHANGED role

\* The audit row, of the workspace or, in reject_request and
\* unauthorized_attempt, of none.  If it is refused, all is rolled back.
WriteAudit(c, w) ==
  /\ \/ Running(c, "audit") /\ w = connection[c].of
     \/ Running(c, "audit_null") /\ w = NoWorkspace
  /\ IF Records(c, w) THEN UNCHANGED missed ELSE Miss(c)
  /\ End(c)
  /\ UNCHANGED role

\* An error, a cancelled request or a lost connection, which is replaced.
Abort(c) ==
  /\ connection[c] # Free
  /\ End(c)
  /\ UNCHANGED <<role, missed>>

IsolationNext ==
  \E c \in Connections :
    \/ \E kind \in Kinds, w, row \in Workspaces : Begin(c, kind, w, row)
    \/ SetUser(c)
    \/ SetWorkspace(c)
    \/ \E table \in Tables : Query(c, table)
    \/ \E w \in Workspaces \cup {NoWorkspace} : WriteAudit(c, w)
    \/ Abort(c)

IsolationSpec == IsolationInit /\ [][IsolationNext]_isolationVars

-----------------------------------------------------------------------------
(* Properties.                                                             *)

\* Whatever ran on its connection before and runs beside it now, a transaction
\* is admitted by the policies to rows of its own workspace or member only
\* (set_user_context, set_workspace_context; docs/adr/002, line 41).
AdmittedToOwn ==
  \A c \in Connections : connection[c] # Free =>
    \A table \in Tables, w \in Workspaces :
      Admits(c, table, w) => w = connection[c].of

\* The settings are made early enough: under the policies each transaction
\* reaches its own rows, except that an audit row without a workspace is
\* refused, and with it the rejection, the unauthorized attempt, or the
\* revocation of a person who has none (SqlAlchemyAccessRepository).
OwnRowsReached ==
  missed \subseteq IF role = "exempt" THEN {} ELSE {"unscoped", "bare"}

-----------------------------------------------------------------------------
(* docs/adr/003, lines 28 and 71: a rejection records a reason and a        *)
(* cooldown, an unauthorized attempt an audit event.                        *)
RejectionsRecorded == "unscoped" \notin missed

=============================================================================
