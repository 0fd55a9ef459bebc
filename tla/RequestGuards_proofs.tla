------------------------- MODULE RequestGuards_proofs -------------------------
(***************************************************************************)
(* What guards a request does so for any number of workspaces, connections,*)
(* challenges, presses and calls, any limit, window and lifetime.          *)
(***************************************************************************)
EXTENDS RateLimit, WalletConfirmation, WorkspaceIsolation, TLAPS

-----------------------------------------------------------------------------
(* Isolation.                                                              *)

\* The statement a transaction is at comes after the settings it relies on, and
\* a statement that makes a setting is never the last.
LEMMA SettingsComeFirst ==
  ASSUME NEW kind \in Kinds, NEW n \in 1..Len(Statements[kind])
  PROVE  /\ Statements[kind][n] \in UserTables =>
              \E i \in 1..n - 1 : Statements[kind][i] = "set_user"
         /\ Statements[kind][n] \in {"private", "audit"} =>
              \E i \in 1..n - 1 : Statements[kind][i] = "set_workspace"
         /\ Statements[kind][n] = "audit_null" => kind \in {"unscoped", "bare"}
         /\ Statements[kind][n] \in {"set_user", "set_workspace"} =>
              n + 1 \in 1..Len(Statements[kind])
<1> USE DEF Statements, UserTables, Kinds
<1>1. kind \in {"principal", "decision", "bare", "unscoped", "private", "lookup"}
  OBVIOUS
<1>2. CASE kind = "principal"
  <2>1. n \in {1, 2}
    BY <1>2
  <2> QED BY <1>2, <2>1
<1>3. CASE kind = "decision"
  <2>1. n \in {1, 2, 3, 4, 5, 6}
    BY <1>3
  <2>2. Statements[kind][1] = "set_user" /\ Statements[kind][3] = "set_workspace"
    BY <1>3
  <2>3. CASE n = 1 BY <1>3, <2>3
  <2>4. CASE n = 2 BY <1>3, <2>2, <2>4
  <2>5. CASE n = 3 BY <1>3, <2>5
  <2>6. CASE n = 4 BY <1>3, <2>2, <2>6
  <2>7. CASE n = 5 BY <1>3, <2>2, <2>7
  <2>8. CASE n = 6 BY <1>3, <2>2, <2>8
  <2> QED BY <2>1, <2>3, <2>4, <2>5, <2>6, <2>7, <2>8
<1>4. CASE kind = "bare"
  <2>1. n \in {1, 2}
    BY <1>4
  <2> QED BY <1>4, <2>1
<1>5. CASE kind = "unscoped"
  <2>1. n = 1
    BY <1>5
  <2> QED BY <1>5, <2>1
<1>6. CASE kind = "private"
  <2>1. n \in {1, 2, 3}
    BY <1>6
  <2>2. Statements[kind][1] = "set_workspace"
    BY <1>6
  <2> QED BY <1>6, <2>1, <2>2
<1>7. CASE kind = "lookup"
  <2>1. n \in {1, 2}
    BY <1>7
  <2> QED BY <1>7, <2>1
<1> QED BY <1>1, <1>2, <1>3, <1>4, <1>5, <1>6, <1>7

\* What the transaction on a connection may rely on: the settings are its own or
\* not made, and those of the statements behind it are made.
Scoped(c) ==
  LET t == connection[c]
  IN /\ t.next \in 1..Len(Statements[t.kind])
     /\ setting[c].user \in {NoWorkspace, t.of}
     /\ setting[c].workspace \in {NoWorkspace, t.of}
     /\ t.kind \notin {"private", "lookup"} => t.row = t.of
     /\ \A i \in 1..t.next - 1 :
          /\ Statements[t.kind][i] = "set_user" => setting[c].user = t.of
          /\ Statements[t.kind][i] = "set_workspace" => setting[c].workspace = t.of

Settled(c) == IF connection[c] = Free THEN setting[c] = Unset ELSE Scoped(c)

IsolationInv ==
  /\ IsolationTypeOK
  /\ \A c \in Connections : Settled(c)
  /\ OwnRowsReached

\* A transaction is not the free connection.
LEMMA BusyType ==
  ASSUME IsolationTypeOK, NEW c \in Connections, connection[c] # Free
  PROVE  /\ connection[c] \in Transactions
         /\ connection[c].kind \in Kinds
         /\ connection[c].of \in Workspaces
         /\ connection[c].row \in Workspaces
         /\ connection[c].next \in Nat \ {0}
  BY DEF IsolationTypeOK, Transactions

\* A transaction in progress is not a free connection.
LEMMA NotFree ==
  ASSUME NEW t \in Transactions
  PROVE  t # Free
<1>1. t.kind \in Kinds
  BY DEF Transactions
<1> QED BY <1>1 DEF Free, Kinds, Statements

\* A step that changes one connection leaves the others as they are.
LEMMA OthersSettled ==
  ASSUME IsolationInv, NEW c \in Connections,
         \A d \in Connections \ {c} :
           connection'[d] = connection[d] /\ setting'[d] = setting[d],
         Settled(c)'
  PROVE  \A d \in Connections : Settled(d)'
<1> SUFFICES ASSUME NEW d \in Connections PROVE Settled(d)'
  OBVIOUS
<1>1. CASE d # c
  <2>1. Settled(d) /\ connection'[d] = connection[d] /\ setting'[d] = setting[d]
    BY <1>1 DEF IsolationInv
  <2> QED BY <2>1 DEF Settled, Scoped
<1> QED BY <1>1

\* A connection given back has no settings left, so the next transaction on it
\* begins with none.
LEMMA EndSettles ==
  ASSUME IsolationInv, NEW c \in Connections, End(c)
  PROVE  /\ connection' \in [Connections -> {Free} \cup Transactions]
         /\ setting' \in [Connections -> [user : Workspaces \cup {NoWorkspace},
                                          workspace : Workspaces \cup {NoWorkspace}]]
         /\ \A d \in Connections : Settled(d)'
<1>1. /\ connection'[c] = Free /\ setting'[c] = Unset
      /\ \A d \in Connections \ {c} :
           connection'[d] = connection[d] /\ setting'[d] = setting[d]
  BY DEF End, AtEnd, IsolationInv, IsolationTypeOK
<1>2. Settled(c)'
  BY <1>1 DEF Settled
<1>3. \A d \in Connections : Settled(d)'
  BY <1>1, <1>2, OthersSettled
<1> QED BY <1>3 DEF End, AtEnd, Unset, IsolationInv, IsolationTypeOK

\* The step to the next statement, with the settings that the statement made.
StepsOn(c, u, w) ==
  /\ connection' = [connection EXCEPT ![c].next = @ + 1]
  /\ setting' = [setting EXCEPT ![c] = [user |-> u, workspace |-> w]]

\* A statement that sets the user or the workspace sets the caller's own, and the
\* transaction goes on with what it set so far.
LEMMA NextSettles ==
  ASSUME IsolationInv, NEW c \in Connections, connection[c] # Free,
         connection[c].next + 1 \in 1..Len(Statements[connection[c].kind]),
         NEW u \in {NoWorkspace, connection[c].of},
         NEW w \in {NoWorkspace, connection[c].of},
         StepsOn(c, u, w),
         (\/ setting[c].user = connection[c].of
          \/ Statements[connection[c].kind][connection[c].next] = "set_user")
             => u = connection[c].of,
         (\/ setting[c].workspace = connection[c].of
          \/ Statements[connection[c].kind][connection[c].next] = "set_workspace")
             => w = connection[c].of
  PROVE  /\ connection' \in [Connections -> {Free} \cup Transactions]
         /\ setting' \in [Connections -> [user : Workspaces \cup {NoWorkspace},
                                          workspace : Workspaces \cup {NoWorkspace}]]
         /\ \A d \in Connections : Settled(d)'
<1> DEFINE t == connection[c]
           next == [t EXCEPT !.next = @ + 1]
<1>1. /\ t \in Transactions /\ t.kind \in Kinds /\ t.of \in Workspaces
      /\ t.row \in Workspaces /\ t.next \in Nat \ {0}
  BY BusyType DEF IsolationInv
<1>2. Scoped(c)
  BY DEF IsolationInv, Settled
<1>3. /\ next \in Transactions
      /\ next.kind = t.kind /\ next.of = t.of /\ next.row = t.row
      /\ next.next = t.next + 1
  BY <1>1 DEF Transactions
<1>4. /\ connection'[c] = next
      /\ setting'[c] = [user |-> u, workspace |-> w]
      /\ \A d \in Connections \ {c} :
           connection'[d] = connection[d] /\ setting'[d] = setting[d]
  BY DEF StepsOn, IsolationInv, IsolationTypeOK
<1>5. connection'[c] # Free
  BY <1>3, <1>4, NotFree
<1>6. Scoped(c)'
  <2>1. ASSUME NEW i \in 1..t.next
        PROVE  /\ Statements[t.kind][i] = "set_user" => u = t.of
               /\ Statements[t.kind][i] = "set_workspace" => w = t.of
    <3>1. i = t.next \/ i \in 1..t.next - 1
      BY <1>1
    <3> QED BY <1>2, <3>1 DEF Scoped
  <2>2. t.next + 1 - 1 = t.next
    BY <1>1
  <2> QED BY <1>2, <1>3, <1>4, <2>1, <2>2 DEF Scoped
<1>7. Settled(c)'
  BY <1>5, <1>6 DEF Settled
<1>8. \A d \in Connections : Settled(d)'
  BY <1>4, <1>7, OthersSettled
<1>9. [user |-> u, workspace |-> w] \in [user : Workspaces \cup {NoWorkspace},
                                         workspace : Workspaces \cup {NoWorkspace}]
  BY <1>1
<1>10. connection' = [connection EXCEPT ![c] = next]
  BY DEF StepsOn
<1> QED BY <1>3, <1>8, <1>9, <1>10 DEF StepsOn, IsolationInv, IsolationTypeOK

\* Any other statement leaves the settings of the transaction as they are.
LEMMA ContinueSettles ==
  ASSUME IsolationInv, NEW c \in Connections, connection[c] # Free, Continue(c),
         Statements[connection[c].kind][connection[c].next]
           \notin {"set_user", "set_workspace"}
  PROVE  /\ connection' \in [Connections -> {Free} \cup Transactions]
         /\ setting' \in [Connections -> [user : Workspaces \cup {NoWorkspace},
                                          workspace : Workspaces \cup {NoWorkspace}]]
         /\ \A d \in Connections : Settled(d)'
<1> DEFINE t == connection[c]
<1>1. CASE t.next < Len(Statements[t.kind])
  <2>1. connection' = [connection EXCEPT ![c].next = @ + 1] /\ setting' = setting
    BY <1>1 DEF Continue
  <2>2. /\ t.next \in Nat \ {0} /\ t.kind \in Kinds /\ Scoped(c)
        /\ setting[c].user \in {NoWorkspace, t.of}
        /\ setting[c].workspace \in {NoWorkspace, t.of}
    BY BusyType DEF IsolationInv, Settled, Scoped
  <2>3. Len(Statements[t.kind]) \in Nat
    BY <2>2 DEF Kinds, Statements
  <2>4. t.next + 1 \in 1..Len(Statements[t.kind])
    BY <1>1, <2>2, <2>3
  <2>5. StepsOn(c, setting[c].user, setting[c].workspace)
    BY <2>1 DEF StepsOn, IsolationInv, IsolationTypeOK
  <2> QED BY <2>2, <2>4, <2>5, NextSettles
<1>2. CASE ~ t.next < Len(Statements[t.kind])
  BY <1>2, EndSettles DEF Continue
<1> QED BY <1>1, <1>2

\* What missed says is kept by a step that does not change it.
LEMMA HistoryKept ==
  ASSUME IsolationInv, UNCHANGED <<role, missed>>
  PROVE  OwnRowsReached'
  BY DEF IsolationInv, OwnRowsReached

\* Every kind of transaction has a first statement.
LEMMA SomeStatement ==
  ASSUME NEW kind \in Kinds
  PROVE  Len(Statements[kind]) \in Nat \ {0}
<1> USE DEF Statements, Kinds
<1>1. CASE kind = "principal" BY <1>1
<1>2. CASE kind = "decision" BY <1>2
<1>3. CASE kind = "bare" BY <1>3
<1>4. CASE kind = "unscoped" BY <1>4
<1>5. CASE kind = "private" BY <1>5
<1>6. CASE kind = "lookup" BY <1>6
<1> QED BY <1>1, <1>2, <1>3, <1>4, <1>5, <1>6

\* The beginning of a transaction keeps the invariant.
LEMMA BeginStep ==
  ASSUME IsolationInv, NEW c \in Connections, NEW kind \in Kinds,
         NEW w \in Workspaces, NEW row \in Workspaces, Begin(c, kind, w, row)
  PROVE  IsolationInv'
<1> DEFINE t == [kind |-> kind, of |-> w, row |-> row, next |-> 1]
<1>1. t \in Transactions
  BY DEF Transactions
<1>2. /\ connection'[c] = t /\ setting'[c] = Unset
      /\ \A d \in Connections \ {c} :
           connection'[d] = connection[d] /\ setting'[d] = setting[d]
  BY DEF Begin, IsolationInv, IsolationTypeOK, Settled
<1>3. 1 \in 1..Len(Statements[kind])
  BY SomeStatement
<1>4. connection'[c] # Free
  BY <1>1, <1>2, NotFree
<1>5. Settled(c)'
  BY <1>2, <1>3, <1>4 DEF Settled, Scoped, Unset, Begin
<1>6. \A d \in Connections : Settled(d)'
  BY <1>2, <1>5, OthersSettled
<1>7. IsolationTypeOK'
  BY <1>1 DEF Begin, IsolationInv, IsolationTypeOK
<1> QED BY <1>6, <1>7, HistoryKept DEF Begin, IsolationInv

\* Setting the user or the workspace keeps the invariant.
LEMMA SettingStep ==
  ASSUME IsolationInv, NEW c \in Connections, SetUser(c) \/ SetWorkspace(c)
  PROVE  IsolationInv'
<1> DEFINE t == connection[c]
<1>1. connection[c] # Free /\ UNCHANGED <<role, missed>>
  BY DEF SetUser, SetWorkspace, Running
<1>2. t.kind \in Kinds /\ Scoped(c)
  BY <1>1, BusyType DEF IsolationInv, Settled
<1>3. t.next \in 1..Len(Statements[t.kind])
  BY <1>2 DEF Scoped
<1>4. t.next + 1 \in 1..Len(Statements[t.kind])
  BY <1>2, <1>3, SettingsComeFirst DEF SetUser, SetWorkspace, Running
<1>5. /\ setting[c].user \in {NoWorkspace, t.of}
      /\ setting[c].workspace \in {NoWorkspace, t.of}
      /\ setting[c] \in [user : Workspaces \cup {NoWorkspace},
                         workspace : Workspaces \cup {NoWorkspace}]
  BY <1>2 DEF Scoped, IsolationInv, IsolationTypeOK
<1>6. /\ connection' \in [Connections -> {Free} \cup Transactions]
      /\ setting' \in [Connections -> [user : Workspaces \cup {NoWorkspace},
                                       workspace : Workspaces \cup {NoWorkspace}]]
      /\ \A d \in Connections : Settled(d)'
  <2>1. CASE SetUser(c)
    <3>1. StepsOn(c, t.of, setting[c].workspace)
      <4>1. setting' = [setting EXCEPT ![c] = [setting[c] EXCEPT !.user = t.of]]
        BY <2>1 DEF SetUser
      <4>2. [setting[c] EXCEPT !.user = t.of]
              = [user |-> t.of, workspace |-> setting[c].workspace]
        BY <1>5
      <4> QED BY <4>1, <4>2, <2>1 DEF SetUser, StepsOn
    <3>2. Statements[t.kind][t.next] # "set_workspace"
      BY <2>1 DEF SetUser, Running
    <3>3. (setting[c].workspace = t.of \/ Statements[t.kind][t.next] = "set_workspace")
            => setting[c].workspace = t.of
      BY <3>2
    <3> QED BY <1>1, <1>4, <1>5, <3>1, <3>3, NextSettles
  <2>2. CASE SetWorkspace(c)
    <3>1. StepsOn(c, setting[c].user, t.of)
      <4>1. setting' = [setting EXCEPT ![c] = [setting[c] EXCEPT !.workspace = t.of]]
        BY <2>2 DEF SetWorkspace
      <4>2. [setting[c] EXCEPT !.workspace = t.of]
              = [user |-> setting[c].user, workspace |-> t.of]
        BY <1>5
      <4> QED BY <4>1, <4>2, <2>2 DEF SetWorkspace, StepsOn
    <3>2. Statements[t.kind][t.next] # "set_user"
      BY <2>2 DEF SetWorkspace, Running
    <3>3. (setting[c].user = t.of \/ Statements[t.kind][t.next] = "set_user")
            => setting[c].user = t.of
      BY <3>2
    <3> QED BY <1>1, <1>4, <1>5, <3>1, <3>3, NextSettles
  <2> QED BY <2>1, <2>2
<1> QED BY <1>1, <1>6, HistoryKept DEF IsolationInv, IsolationTypeOK

\* A transaction that comes to a table has the setting that admits its own rows.
LEMMA OwnRowAdmitted ==
  ASSUME IsolationInv, NEW c \in Connections, NEW table \in Tables, Running(c, table)
  PROVE  Admits(c, table, connection[c].of)
<1> DEFINE t == connection[c]
<1>1. t.kind \in Kinds /\ Scoped(c)
  BY BusyType DEF IsolationInv, Settled, Running
<1>2. t.next \in 1..Len(Statements[t.kind]) /\ Statements[t.kind][t.next] = table
  BY <1>1 DEF Scoped, Running
<1>3. CASE table \in UserTables
  <2>1. PICK i \in 1..t.next - 1 : Statements[t.kind][i] = "set_user"
    BY <1>1, <1>2, <1>3, SettingsComeFirst
  <2> QED BY <1>1, <1>3, <2>1 DEF Scoped, Admits
<1>4. CASE table = "private"
  <2>1. PICK i \in 1..t.next - 1 : Statements[t.kind][i] = "set_workspace"
    BY <1>1, <1>2, <1>4, SettingsComeFirst
  <2> QED BY <1>1, <2>1 DEF Scoped, Admits
<1> QED BY <1>3, <1>4 DEF Tables

\* A query reaches the rows its settings admit, which are the caller's own.
LEMMA QueryStep ==
  ASSUME IsolationInv, NEW c \in Connections, NEW table \in Tables, Query(c, table)
  PROVE  IsolationInv'
<1> DEFINE w == connection[c].of
           row == connection[c].row
<1>1. connection[c] # Free /\ w \in Workspaces /\ row \in Workspaces
  BY BusyType DEF Query, Running, IsolationInv
<1>2. Statements[connection[c].kind][connection[c].next]
        \notin {"set_user", "set_workspace"}
  BY DEF Query, Running, Tables, UserTables
<1>3. CASE Selects(w, row) /\ Reaches(c, table, row)
  <2>1. Continue(c) /\ UNCHANGED <<role, missed>>
    BY <1>3 DEF Query
  <2> QED BY <1>1, <1>2, <2>1, HistoryKept, ContinueSettles
          DEF IsolationInv, IsolationTypeOK
<1>4. CASE ~ (Selects(w, row) /\ Reaches(c, table, row))
  <2>1. row # w
    BY <1>4, OwnRowAdmitted DEF Query, Selects, Reaches
  <2>2. End(c) /\ UNCHANGED <<role, missed>>
    BY <1>4, <2>1 DEF Query
  <2> QED BY <2>2, EndSettles, HistoryKept DEF IsolationInv, IsolationTypeOK
<1> QED BY <1>3, <1>4

\* The audit row of a workspace is recorded; one without is in the kinds that
\* OwnRowsReached excepts.
LEMMA AuditStep ==
  ASSUME IsolationInv, NEW c \in Connections, NEW w \in Workspaces \cup {NoWorkspace},
         WriteAudit(c, w)
  PROVE  IsolationInv'
<1> DEFINE t == connection[c]
<1>1. connection[c] # Free
  BY DEF WriteAudit, Running
<1>2. t.kind \in Kinds /\ t.of \in Workspaces /\ Scoped(c)
  BY <1>1, BusyType DEF IsolationInv, Settled
<1>3. t.next \in 1..Len(Statements[t.kind])
  BY <1>2 DEF Scoped
<1>4. Records(c, w) \/ t.kind \in {"unscoped", "bare"}
  <2>1. CASE Running(c, "audit") /\ w = t.of
    <3>1. PICK i \in 1..t.next - 1 : Statements[t.kind][i] = "set_workspace"
      BY <1>2, <1>3, <2>1, SettingsComeFirst DEF Running
    <3>2. setting[c].workspace = w /\ w # NoWorkspace
      BY <1>2, <2>1, <3>1, NoWorkspaceAssumption DEF Scoped
    <3> QED BY <3>2 DEF Records, AuditInserts, AuditShows
  <2>2. CASE Running(c, "audit_null")
    BY <1>2, <1>3, <2>2, SettingsComeFirst DEF Running
  <2> QED BY <2>1, <2>2 DEF WriteAudit
<1>5. missed' = missed \/ (role # "exempt" /\ missed' = missed \cup {t.kind})
  BY DEF WriteAudit, Records, Miss
<1>6. OwnRowsReached' /\ missed' \subseteq Kinds
  <2>1. missed' \subseteq missed \cup {t.kind}
    BY <1>5
  <2>2. CASE missed' = missed
    BY <2>2 DEF WriteAudit, IsolationInv, IsolationTypeOK, OwnRowsReached
  <2>3. CASE missed' # missed
    <3>1. role # "exempt" /\ t.kind \in {"unscoped", "bare"}
      BY <1>4, <1>5, <2>3 DEF WriteAudit
    <3> QED
      BY <1>2, <2>1, <3>1
      DEF WriteAudit, IsolationInv, IsolationTypeOK, OwnRowsReached
  <2> QED BY <2>2, <2>3
<1> QED BY <1>6, EndSettles DEF WriteAudit, IsolationInv, IsolationTypeOK

\* Every step of every connection keeps the invariant.
LEMMA IsolationStep == IsolationInv /\ [IsolationNext]_isolationVars => IsolationInv'
<1> SUFFICES ASSUME IsolationInv, [IsolationNext]_isolationVars PROVE IsolationInv'
  OBVIOUS
<1>1. CASE UNCHANGED isolationVars
  BY <1>1 DEF isolationVars, IsolationInv, IsolationTypeOK, Settled, Scoped,
              OwnRowsReached
<1>2. ASSUME NEW c \in Connections, Abort(c) PROVE IsolationInv'
  BY <1>2, EndSettles, HistoryKept DEF Abort, IsolationInv, IsolationTypeOK
<1> QED
  BY <1>1, <1>2, BeginStep, SettingStep, QueryStep, AuditStep DEF IsolationNext

\* At the start every connection is free and has no settings.
LEMMA IsolationBegins == IsolationInit => IsolationInv
<1> SUFFICES ASSUME IsolationInit PROVE IsolationInv
  OBVIOUS
<1>1. IsolationTypeOK
  BY DEF IsolationInit, IsolationTypeOK, Unset
<1>2. \A c \in Connections : Settled(c)
  BY DEF IsolationInit, Settled
<1> QED
  BY <1>1, <1>2 DEF IsolationInv, OwnRowsReached, IsolationInit

\* The invariant of the isolation holds in every run.
LEMMA IsolationInvariance == IsolationSpec => []IsolationInv
  BY IsolationBegins, IsolationStep, PTL DEF IsolationSpec

\* Types of the connections and their settings: a setting is unset or names the
\* workspace of the transaction that made it.
THEOREM IsolationTypeCorrect == IsolationSpec => []IsolationTypeOK
<1>1. IsolationInv => IsolationTypeOK
  BY DEF IsolationInv
<1> QED BY <1>1, IsolationInvariance, PTL

\* A transaction is admitted to rows of its own workspace only, whatever ran on
\* its connection before (set_user_context, set_workspace_context).
THEOREM OnlyOwnRowsAdmitted == IsolationSpec => []AdmittedToOwn
<1>1. IsolationInv => AdmittedToOwn
  <2> SUFFICES ASSUME IsolationInv, NEW c \in Connections, connection[c] # Free,
                      NEW table \in Tables, NEW w \in Workspaces, Admits(c, table, w)
               PROVE  w = connection[c].of
    BY DEF AdmittedToOwn
  <2> QED BY NoWorkspaceAssumption DEF IsolationInv, Settled, Scoped, Admits
<1> QED BY <1>1, IsolationInvariance, PTL

\* Under the policies every transaction reaches its own rows, except for audit
\* rows without a workspace (reject_request, unauthorized_attempt, revoke_user).
THEOREM OwnRowsAlwaysReached == IsolationSpec => []OwnRowsReached
<1>1. IsolationInv => OwnRowsReached
  BY DEF IsolationInv
<1> QED BY <1>1, IsolationInvariance, PTL

-----------------------------------------------------------------------------
(* Confirmation.                                                           *)

Acting(p) == press[p].pc \in {"send", "sent"}
Creates(d, p) == signer[d].pc = "create" /\ signer[d].press = p

\* A press acts only with a challenge that it alone has consumed.
OneActs ==
  \A p \in Presses : Acting(p) =>
    /\ challenge[press[p].of] = "consumed"
    /\ \A q \in Presses : Acting(q) /\ press[q].of = press[p].of => q = p

\* What reaches the signer was sent, ...
SentFirst ==
  /\ \A p \in Presses :
       copies[p] > 0 \/ p \in claimed => press[p].pc = "sent"
  /\ \A d \in SignerTasks : signer[d] # Unused => press[signer[d].press].pc = "sent"

\* ... and what creates, or has created, has claimed its request before.
ClaimedOnce ==
  \A p \in Presses :
    /\ created[p] <= 1
    /\ created[p] > 0 => p \in claimed
    /\ \A d \in SignerTasks : Creates(d, p) =>
         /\ p \in claimed
         /\ created[p] = 0
         /\ \A e \in SignerTasks : Creates(e, p) => e = d

ConfirmationInv == ConfirmationTypeOK /\ OneActs /\ SentFirst /\ ClaimedOnce

\* What the state of a press holds at each step of the callback.
LEMMA PressFields ==
  ASSUME NEW s \in PressStates
  PROVE  /\ s.pc \in {"idle", "consume", "send", "sent", "end"}
         /\ s.pc = "idle" <=> s = Unused
         /\ s # Unused => s.of \in Challenges
         /\ s.pc = "consume" => s.inTime \in BOOLEAN
  BY DEF PressStates, Unused

\* What the state of a signer task holds at each step.
LEMMA SignerFields ==
  ASSUME NEW s \in SignerStates
  PROVE  /\ s.pc \in {"idle", "claim", "create"}
         /\ s.pc = "idle" <=> s = Unused
         /\ s # Unused => s.press \in Presses
  BY DEF SignerStates, Unused

\* A press that goes on, and does not begin to act, keeps who acts.
LEMMA PressKeeps ==
  ASSUME ConfirmationInv, NEW p \in Presses, NEW state \in PressStates,
         PressBecomes(p, state),
         state.pc \in {"send", "sent"} => Acting(p) /\ state.of = press[p].of,
         press[p].pc = "sent" => state.pc = "sent",
         \A h \in Challenges : challenge[h] = "consumed" => challenge'[h] = "consumed",
         UNCHANGED <<signer, claimed, created>>,
         \A q \in Presses : copies'[q] > 0 =>
           copies[q] > 0 \/ (q = p /\ state.pc = "sent")
  PROVE  OneActs' /\ SentFirst' /\ ClaimedOnce'
<1>1. /\ press'[p] = state
      /\ \A q \in Presses \ {p} : press'[q] = press[q]
      /\ \A q \in Presses : press[q] \in PressStates
  BY DEF PressBecomes, ConfirmationInv, ConfirmationTypeOK
<1>2. ASSUME NEW q \in Presses, Acting(q)'
      PROVE  Acting(q) /\ press'[q].of = press[q].of /\ press[q].of \in Challenges
  <2>1. Acting(q) /\ press'[q].of = press[q].of
    BY <1>1, <1>2 DEF Acting
  <2>2. press[q] # Unused
    BY <1>1, <2>1, PressFields DEF Acting
  <2> QED BY <1>1, <2>1, <2>2, PressFields
<1>3. OneActs'
  BY <1>2 DEF OneActs, ConfirmationInv
<1>4. SentFirst'
  <2>1. \A q \in Presses : press[q].pc = "sent" => press'[q].pc = "sent"
    BY <1>1
  <2>2. ASSUME NEW d \in SignerTasks, signer[d] # Unused
        PROVE  signer[d].press \in Presses
    BY <2>2, SignerFields DEF ConfirmationInv, ConfirmationTypeOK
  <2> QED BY <1>1, <2>1, <2>2 DEF SentFirst, ConfirmationInv
<1>5. ClaimedOnce'
  BY DEF ClaimedOnce, Creates, ConfirmationInv
<1> QED BY <1>3, <1>4, <1>5

\* At the start nothing is issued, pressed or sent.
LEMMA ConfirmationBegins == ConfirmationInit => ConfirmationInv
<1> SUFFICES ASSUME ConfirmationInit PROVE ConfirmationInv
  OBVIOUS
<1>1. ConfirmationTypeOK
  BY TimesAssumption, CopiesAssumption
  DEF ConfirmationInit, ConfirmationTypeOK, PressStates, SignerStates, Oldest
<1>2. \A p \in Presses : press[p].pc = "idle" /\ copies[p] = 0 /\ created[p] = 0
  BY DEF ConfirmationInit, Unused
<1>3. \A d \in SignerTasks : signer[d] = Unused
  BY DEF ConfirmationInit
<1>4. claimed = {}
  BY DEF ConfirmationInit
<1> QED
  BY <1>1, <1>2, <1>3, <1>4
  DEF ConfirmationInv, OneActs, Acting, SentFirst, ClaimedOnce, Creates, Unused

\* The passing of time keeps the invariant.
LEMMA TimeStep ==
  ASSUME ConfirmationInv, TimePasses
  PROVE  ConfirmationInv'
<1>1. ConfirmationTypeOK'
  <2>1. \A h \in Challenges : left[h] \in 0..TTL
    BY DEF ConfirmationInv, ConfirmationTypeOK
  <2>2. \A p \in Presses : age[p] \in 0..Oldest
    BY DEF ConfirmationInv, ConfirmationTypeOK
  <2>3. left' \in [Challenges -> 0..TTL]
    BY <2>1, TimesAssumption DEF TimePasses
  <2>4. Oldest \in Nat
    BY TimesAssumption DEF Oldest
  <2>5. age' \in [Presses -> 0..Oldest]
    BY <2>2, <2>4 DEF TimePasses
  <2> QED BY <2>3, <2>5 DEF TimePasses, ConfirmationInv, ConfirmationTypeOK
<1> QED
  BY <1>1 DEF TimePasses, ConfirmationInv, OneActs, Acting, SentFirst, ClaimedOnce, Creates

\* Issuing a challenge keeps the invariant.
LEMMA IssueStep ==
  ASSUME ConfirmationInv, NEW h \in Challenges, Issue(h)
  PROVE  ConfirmationInv'
<1>1. ConfirmationTypeOK'
  BY TimesAssumption DEF Issue, ConfirmationInv, ConfirmationTypeOK
<1>2. \A g \in Challenges : challenge[g] = "consumed" => challenge'[g] = "consumed"
  BY DEF Issue, ConfirmationInv, ConfirmationTypeOK
<1>3. \A p \in Presses : Acting(p) => press[p].of \in Challenges
  BY PressFields DEF Acting, ConfirmationInv, ConfirmationTypeOK, Unused
<1>4. OneActs'
  BY <1>2, <1>3 DEF Issue, ConfirmationInv, OneActs, Acting
<1> QED
  BY <1>1, <1>4 DEF Issue, ConfirmationInv, SentFirst, ClaimedOnce, Creates

\* A press of the button keeps the invariant: nothing acts yet.
LEMMA PressStep ==
  ASSUME ConfirmationInv, NEW p \in Presses, NEW h \in Challenges, Press(p, h)
  PROVE  ConfirmationInv'
<1> DEFINE state == [pc |-> "consume", of |-> h, inTime |-> left[h] > 0]
<1>1. state \in PressStates /\ state.pc = "consume"
  BY DEF PressStates
<1>2. press[p].pc = "idle"
  BY DEF Press, Unused
<1>3. OneActs' /\ SentFirst' /\ ClaimedOnce'
  BY <1>1, <1>2, PressKeeps DEF Press
<1>4. ConfirmationTypeOK'
  BY <1>1 DEF Press, PressBecomes, ConfirmationInv, ConfirmationTypeOK
<1> QED BY <1>3, <1>4 DEF ConfirmationInv

\* Only an open challenge is consumed, so that nobody acts with it yet.
LEMMA ConsumeStep ==
  ASSUME ConfirmationInv, NEW p \in Presses, Consume(p)
  PROVE  ConfirmationInv'
<1> DEFINE h == press[p].of
           send == [pc |-> "send", of |-> h]
           end == [pc |-> "end", of |-> h]
<1>1. h \in Challenges /\ press[p].pc = "consume"
  BY PressFields DEF Consume, ConfirmationInv, ConfirmationTypeOK, Unused
<1>2. send \in PressStates /\ end \in PressStates
  BY <1>1 DEF PressStates
<1>3. ConfirmationTypeOK'
  BY <1>1, <1>2 DEF Consume, PressBecomes, ConfirmationInv, ConfirmationTypeOK
<1>4. CASE Matches(p)
  <2>1. /\ press'[p] = send /\ challenge'[h] = "consumed"
        /\ \A q \in Presses \ {p} : press'[q] = press[q]
        /\ \A g \in Challenges \ {h} : challenge'[g] = challenge[g]
    BY <1>1, <1>4 DEF Consume, PressBecomes, ConfirmationInv, ConfirmationTypeOK
  <2>2. \A q \in Presses : Acting(q) => press[q].of # h /\ press[q].of \in Challenges
    BY <1>4, PressFields
    DEF Matches, Acting, OneActs, ConfirmationInv, ConfirmationTypeOK, Unused
  <2>3. \A q \in Presses : Acting(q)' => q = p \/ Acting(q)
    BY <2>1 DEF Acting
  <2>4. OneActs'
    BY <2>1, <2>2, <2>3 DEF OneActs, ConfirmationInv
  <2>5. \A q \in Presses : press[q].pc = "sent" => press'[q].pc = "sent"
    BY <1>1, <2>1
  <2>6. \A d \in SignerTasks : signer[d] # Unused => signer[d].press \in Presses
    BY SignerFields DEF ConfirmationInv, ConfirmationTypeOK
  <2>7. UNCHANGED <<copies, signer, claimed, created>>
    BY DEF Consume
  <2>8. SentFirst'
    BY <2>5, <2>6, <2>7 DEF SentFirst, ConfirmationInv
  <2>9. ClaimedOnce'
    BY <2>7 DEF ClaimedOnce, Creates, ConfirmationInv
  <2> QED BY <1>3, <2>4, <2>8, <2>9 DEF ConfirmationInv
<1>5. CASE ~ Matches(p)
  <2>1. PressBecomes(p, end) /\ UNCHANGED <<challenge, copies, signer, claimed, created>>
    BY <1>5 DEF Consume
  <2>2. OneActs' /\ SentFirst' /\ ClaimedOnce'
    BY <1>1, <1>2, <2>1, PressKeeps
  <2> QED BY <1>3, <2>2 DEF ConfirmationInv
<1> QED BY <1>4, <1>5

\* Sending the signed request keeps the invariant: the press already acted.
LEMMA SendStep ==
  ASSUME ConfirmationInv, NEW p \in Presses, Send(p)
  PROVE  ConfirmationInv'
<1> DEFINE sent == [pc |-> "sent", of |-> press[p].of]
<1>1. press[p].of \in Challenges /\ press[p].pc = "send" /\ Acting(p)
  BY PressFields DEF Send, Acting, ConfirmationInv, ConfirmationTypeOK, Unused
<1>2. sent \in PressStates
  BY <1>1 DEF PressStates
<1>3. PressBecomes(p, sent) /\ UNCHANGED <<challenge, signer, claimed, created>>
  BY DEF Send
<1>4. PICK n \in 0..MaxCopies : copies' = [copies EXCEPT ![p] = n]
  BY DEF Send
<1>5. \A q \in Presses : copies'[q] > 0 => copies[q] > 0 \/ q = p
  BY <1>4 DEF ConfirmationInv, ConfirmationTypeOK
<1>6. OneActs' /\ SentFirst' /\ ClaimedOnce'
  BY <1>1, <1>2, <1>3, <1>5, PressKeeps
<1>7. PICK cut \in {0, 1} : age' = [age EXCEPT ![p] = cut]
  BY DEF Send
<1>8. cut \in 0..Oldest
  BY TimesAssumption DEF Oldest
<1>9. ConfirmationTypeOK'
  BY <1>2, <1>3, <1>4, <1>7, <1>8
  DEF Send, PressBecomes, ConfirmationInv, ConfirmationTypeOK
<1> QED BY <1>6, <1>9 DEF ConfirmationInv

\* A press that ends without sending keeps the invariant.
LEMMA GiveUpStep ==
  ASSUME ConfirmationInv, NEW p \in Presses, GiveUp(p)
  PROVE  ConfirmationInv'
<1> DEFINE end == [pc |-> "end", of |-> press[p].of]
<1>1. press[p].of \in Challenges /\ press[p].pc # "sent"
  BY PressFields DEF GiveUp, ConfirmationInv, ConfirmationTypeOK, Unused
<1>2. end \in PressStates /\ end.pc = "end"
  BY <1>1 DEF PressStates
<1>3. /\ PressBecomes(p, end)
      /\ UNCHANGED <<challenge, copies, signer, claimed, created>>
  BY DEF GiveUp
<1>4. OneActs' /\ SentFirst' /\ ClaimedOnce'
  BY <1>1, <1>2, <1>3, PressKeeps
<1>5. ConfirmationTypeOK'
  BY <1>2, <1>3 DEF GiveUp, PressBecomes, ConfirmationInv, ConfirmationTypeOK
<1> QED BY <1>4, <1>5 DEF ConfirmationInv

\* A delivered request, the first copy or a later one, keeps the invariant.
LEMMA DeliverStep ==
  ASSUME ConfirmationInv, NEW d \in SignerTasks, NEW p \in Presses,
         DeliverRequest(d, p)
  PROVE  ConfirmationInv'
<1> DEFINE claim == [pc |-> "claim", press |-> p]
<1>1. press[p].pc = "sent"
  BY DEF DeliverRequest, ConfirmationInv, SentFirst
<1>2. /\ signer' = [signer EXCEPT ![d] = claim] \/ signer' = signer
      /\ claim \in SignerStates
      /\ signer \in [SignerTasks -> SignerStates]
  BY DEF DeliverRequest, SignerBecomes, SignerStates, ConfirmationInv, ConfirmationTypeOK
<1>3. /\ copies' \in [Presses -> 0..MaxCopies]
      /\ \A q \in Presses : copies'[q] > 0 => copies[q] > 0
  <2>1. copies \in [Presses -> 0..MaxCopies]
    BY DEF ConfirmationInv, ConfirmationTypeOK
  <2>2. copies[p] > 0 /\ copies' = [copies EXCEPT ![p] = @ - 1]
    BY DEF DeliverRequest
  <2> QED BY <2>1, <2>2, CopiesAssumption
<1>4. UNCHANGED <<skew, challenge, left, press, age, claimed, created>>
  BY DEF DeliverRequest
<1>5. faults' \subseteq Presses
  BY DEF DeliverRequest, ConfirmationInv, ConfirmationTypeOK
<1>6. ConfirmationTypeOK'
  BY <1>2, <1>3, <1>4, <1>5 DEF ConfirmationInv, ConfirmationTypeOK
<1>7. OneActs'
  BY <1>4 DEF OneActs, Acting, ConfirmationInv
<1>8. \A e \in SignerTasks :
        signer'[e] = signer[e] \/ signer'[e] = claim
  BY <1>2
<1>9. SentFirst'
  BY <1>1, <1>3, <1>4, <1>8 DEF SentFirst, ConfirmationInv
<1>10. \A e \in SignerTasks, q \in Presses : Creates(e, q)' => Creates(e, q)
  BY <1>8 DEF Creates
<1>11. ClaimedOnce'
  BY <1>4, <1>10 DEF ClaimedOnce, ConfirmationInv
<1> QED BY <1>6, <1>7, <1>9, <1>11 DEF ConfirmationInv

\* The identifier is claimed once: whoever creates is the only one, and the
\* first.
LEMMA ClaimStep ==
  ASSUME ConfirmationInv, NEW d \in SignerTasks, ClaimRequest(d)
  PROVE  ConfirmationInv'
<1> DEFINE p == signer[d].press
           create == [pc |-> "create", press |-> p]
<1>1. p \in Presses /\ signer[d] # Unused
  BY SignerFields DEF ClaimRequest, ConfirmationInv, ConfirmationTypeOK, Unused
<1>2. press[p].pc = "sent"
  BY <1>1 DEF ConfirmationInv, SentFirst
<1>3. /\ UNCHANGED <<skew, challenge, left, press, copies, age, created, faults>>
      /\ claimed' = claimed \cup {p}
  BY DEF ClaimRequest
<1>4. signer' = [signer EXCEPT ![d] = IF Unclaimed(p) THEN create ELSE Unused]
  BY DEF ClaimRequest, SignerBecomes
<1>5. create \in SignerStates /\ Unused \in SignerStates
  BY <1>1 DEF SignerStates
<1>6. ConfirmationTypeOK'
  BY <1>1, <1>3, <1>4, <1>5 DEF ConfirmationInv, ConfirmationTypeOK
<1>7. OneActs'
  BY <1>3 DEF OneActs, Acting, ConfirmationInv
<1>8. \A e \in SignerTasks \ {d} : signer'[e] = signer[e]
  BY <1>4 DEF ConfirmationInv, ConfirmationTypeOK
<1>9. signer'[d] = IF Unclaimed(p) THEN create ELSE Unused
  BY <1>4 DEF ConfirmationInv, ConfirmationTypeOK
<1>10. SentFirst'
  BY <1>1, <1>2, <1>3, <1>8, <1>9 DEF SentFirst, ConfirmationInv
<1>11. ASSUME NEW q \in Presses
       PROVE  /\ created'[q] <= 1
              /\ created'[q] > 0 => q \in claimed'
              /\ \A e \in SignerTasks : Creates(e, q)' =>
                   /\ q \in claimed'
                   /\ created'[q] = 0
                   /\ \A f \in SignerTasks : Creates(f, q)' => f = e
  <2>1. created'[q] <= 1 /\ (created'[q] > 0 => q \in claimed')
    BY <1>3 DEF ConfirmationInv, ClaimedOnce
  <2>2. CASE p # q \/ ~ Unclaimed(p)
    <3>1. ~ Creates(d, q)'
      BY <1>9, <2>2 DEF Creates, Unused
    <3>2. \A e \in SignerTasks : Creates(e, q)' => Creates(e, q)
      BY <1>8, <3>1 DEF Creates
    <3> QED BY <1>3, <2>1, <3>2 DEF ConfirmationInv, ClaimedOnce
  <2>3. CASE p = q /\ Unclaimed(p)
    <3>1. q \notin claimed /\ q \in claimed'
      BY <1>3, <2>3 DEF Unclaimed
    <3>2. created[q] = 0 /\ \A e \in SignerTasks : ~ Creates(e, q)
      BY <3>1 DEF ConfirmationInv, ConfirmationTypeOK, ClaimedOnce
    <3>3. \A e \in SignerTasks \ {d} : ~ Creates(e, q)'
      BY <1>8, <3>2 DEF Creates
    <3> QED BY <1>3, <2>1, <3>1, <3>2, <3>3
  <2> QED BY <2>2, <2>3
<1>12. ClaimedOnce'
  BY <1>11 DEF ClaimedOnce
<1> QED BY <1>6, <1>7, <1>10, <1>12 DEF ConfirmationInv

\* The end of a signer task, with the wallet created or not, keeps the invariant.
LEMMA SignerEndsStep ==
  ASSUME ConfirmationInv, NEW d \in SignerTasks, Create(d) \/ SignerDies(d)
  PROVE  ConfirmationInv'
<1>1. PICK p \in Presses : p = signer[d].press /\ signer[d] # Unused
  BY SignerFields DEF Create, SignerDies, ConfirmationInv, ConfirmationTypeOK, Unused
<1>2. /\ UNCHANGED <<skew, challenge, left, press, copies, age, claimed>>
      /\ signer' = [signer EXCEPT ![d] = Unused]
  BY DEF Create, SignerDies, SignerBecomes
<1>3. \/ created' = created
      \/ Creates(d, p) /\ created' = [created EXCEPT ![p] = @ + 1]
  BY <1>1 DEF Create, SignerDies, Creates
<1>4. created \in [Presses -> Nat] /\ created' \in [Presses -> Nat]
  BY <1>1, <1>3 DEF ConfirmationInv, ConfirmationTypeOK
<1>5. ConfirmationTypeOK'
  BY <1>1, <1>2, <1>4
  DEF Create, SignerDies, SignerStates, ConfirmationInv, ConfirmationTypeOK
<1>6. OneActs'
  BY <1>2 DEF OneActs, Acting, ConfirmationInv
<1>7. /\ signer'[d] = Unused
      /\ \A e \in SignerTasks \ {d} : signer'[e] = signer[e]
  BY <1>2 DEF ConfirmationInv, ConfirmationTypeOK
<1>8. SentFirst'
  BY <1>2, <1>7 DEF SentFirst, ConfirmationInv
<1>9. \A e \in SignerTasks, q \in Presses : Creates(e, q)' => Creates(e, q) /\ e # d
  BY <1>7 DEF Creates, Unused
<1>10. ClaimedOnce'
  <2>1. CASE created' = created
    BY <1>2, <1>9, <2>1 DEF ClaimedOnce, ConfirmationInv
  <2>2. CASE Creates(d, p) /\ created' = [created EXCEPT ![p] = @ + 1]
    <3>1. /\ p \in claimed /\ created[p] = 0
          /\ \A e \in SignerTasks : Creates(e, p) => e = d
      BY <1>1, <2>2 DEF ClaimedOnce, ConfirmationInv
    <3>2. created'[p] = 1 /\ \A q \in Presses \ {p} : created'[q] = created[q]
      BY <1>1, <1>4, <2>2, <3>1
    <3>3. \A e \in SignerTasks : ~ Creates(e, p)'
      BY <1>1, <1>9, <3>1
    <3> QED BY <1>2, <1>9, <3>1, <3>2, <3>3 DEF ClaimedOnce, ConfirmationInv
  <2> QED BY <1>3, <2>1, <2>2
<1> QED BY <1>5, <1>6, <1>8, <1>10 DEF ConfirmationInv

\* Every step of the bot, the network and the signer keeps the invariant.
LEMMA ConfirmationStep ==
  ConfirmationInv /\ [ConfirmationNext]_confirmationVars => ConfirmationInv'
<1> SUFFICES ASSUME ConfirmationInv, [ConfirmationNext]_confirmationVars
             PROVE  ConfirmationInv'
  OBVIOUS
<1>1. CASE UNCHANGED confirmationVars
  BY <1>1 DEF confirmationVars, ConfirmationInv, ConfirmationTypeOK, OneActs, Acting,
              SentFirst, ClaimedOnce, Creates
<1> QED
  BY <1>1, TimeStep, IssueStep, PressStep, ConsumeStep, SendStep, GiveUpStep,
     DeliverStep, ClaimStep, SignerEndsStep
  DEF ConfirmationNext, Proceed, Handle

\* The invariant of the confirmations holds in every run.
LEMMA ConfirmationInvariance == ConfirmationSpec => []ConfirmationInv
  BY ConfirmationBegins, ConfirmationStep, PTL DEF ConfirmationSpec

\* Types of the challenges, the presses and the signer's tasks.
THEOREM ConfirmationTypeCorrect == ConfirmationSpec => []ConfirmationTypeOK
<1>1. ConfirmationInv => ConfirmationTypeOK
  BY DEF ConfirmationInv
<1> QED BY <1>1, ConfirmationInvariance, PTL

\* One confirmation runs the signer's create_wallet at most once, for any number
\* of presses, repeated deliveries and deaths (consume_challenge,
\* SqlAlchemySignerReplayRepository.claim).
THEOREM ConfirmationRunsOnce == ConfirmationSpec => []ExecutedOnce
<1>1. ConfirmationInv => ExecutedOnce
  <2> SUFFICES ASSUME ConfirmationInv, NEW h \in Challenges,
                      NEW p \in PressesOf(h), NEW q \in PressesOf(h),
                      created[p] > 0, created[q] > 0
               PROVE  p = q /\ created[p] = 1
    BY DEF ExecutedOnce
  <2>1. p \in Presses /\ q \in Presses /\ press[p].of = h /\ press[q].of = h
    BY DEF PressesOf
  <2>2. Acting(p) /\ Acting(q)
    BY <2>1 DEF ConfirmationInv, ClaimedOnce, SentFirst, Acting
  <2>3. created[p] <= 1 /\ created[p] \in Nat
    BY <2>1 DEF ConfirmationInv, ConfirmationTypeOK, ClaimedOnce
  <2> QED BY <2>1, <2>2, <2>3 DEF ConfirmationInv, OneActs
<1> QED BY <1>1, ConfirmationInvariance, PTL

\* What is left of a press that consumed its challenge: work on its way, ...
OnItsWay(p) ==
  \/ press[p].pc = "send"
  \/ copies[p] > 0
  \/ \E d \in SignerTasks : signer[d] # Unused /\ signer[d].press = p

\* ... or the wallet it asked for, or a fault that excuses its loss.
Accounted(p) == created[p] > 0 \/ p \in faults

\* A consumed confirmation is never dropped without a trace.
NoneForgotten ==
  \A h \in Challenges : challenge[h] = "consumed" =>
    \E p \in PressesOf(h) : OnItsWay(p) \/ Accounted(p)

\* A claimed identifier was claimed for a reason: the copies that the signer
\* refuses because of it are not the last of their request.
ClaimedAccounted ==
  \A p \in claimed : Accounted(p) \/ \E d \in SignerTasks : Creates(d, p)

ForgottenInv == NoneForgotten /\ ClaimedAccounted

\* What is accounted for stays so.
LEMMA AccountedStays ==
  ASSUME ConfirmationInv, [ConfirmationNext]_confirmationVars,
         NEW p \in Presses, Accounted(p)
  PROVE  Accounted(p)'
<1>1. faults \subseteq faults'
  BY DEF ConfirmationNext, TimePasses, Issue, Press, Proceed, Consume, Send, GiveUp,
         DeliverRequest, Handle, ClaimRequest, Create, SignerDies, confirmationVars
<1>2. /\ created \in [Presses -> Nat]
      /\ \/ created' = created
         \/ \E q \in Presses : created' = [created EXCEPT ![q] = @ + 1]
  <2>1. \A d \in SignerTasks : signer[d].pc = "create" => signer[d].press \in Presses
    BY SignerFields DEF ConfirmationInv, ConfirmationTypeOK, Unused
  <2> QED
    BY <2>1
    DEF ConfirmationNext, TimePasses, Issue, Press, Proceed, Consume, Send, GiveUp,
        DeliverRequest, Handle, ClaimRequest, Create, SignerDies, confirmationVars,
        ConfirmationInv, ConfirmationTypeOK
<1>3. created[p] > 0 => created'[p] > 0
  BY <1>2
<1> QED BY <1>1, <1>3 DEF Accounted

\* A press keeps the challenge it was made with.
LEMMA PressesStay ==
  ASSUME ConfirmationInv, [ConfirmationNext]_confirmationVars,
         NEW h \in Challenges, NEW p \in PressesOf(h)
  PROVE  p \in PressesOf(h)'
<1>1. p \in Presses /\ press[p] # Unused /\ press[p].of = h /\ press[p] \in PressStates
  BY DEF PressesOf, ConfirmationInv, ConfirmationTypeOK
<1>2. press \in [Presses -> PressStates]
  BY DEF ConfirmationInv, ConfirmationTypeOK
<1>3. ASSUME NEW q \in Presses, NEW state, PressBecomes(q, state),
             state.pc # "idle",
             press[q] = Unused \/ state.of = press[q].of
      PROVE  p \in PressesOf(h)'
  <2>1. CASE q = p
    BY <1>1, <1>2, <1>3, <2>1 DEF PressBecomes, PressesOf, Unused
  <2>2. CASE q # p
    BY <1>1, <1>2, <1>3, <2>2 DEF PressBecomes, PressesOf
  <2> QED BY <2>1, <2>2
<1>4. ASSUME UNCHANGED press
      PROVE  p \in PressesOf(h)'
  BY <1>1, <1>4 DEF PressesOf
<1>5. ASSUME NEW q \in Presses, NEW g \in Challenges, Press(q, g)
      PROVE  p \in PressesOf(h)'
  BY <1>3, <1>5 DEF Press
<1>6. ASSUME NEW q \in Presses, Consume(q) \/ Send(q) \/ GiveUp(q)
      PROVE  p \in PressesOf(h)'
  BY <1>3, <1>6 DEF Consume, Send, GiveUp
<1> QED
  BY <1>4, <1>5, <1>6
  DEF ConfirmationNext, Proceed, TimePasses, Issue, DeliverRequest, Handle,
      ClaimRequest, Create, SignerDies, confirmationVars

\* The bot hands its request to the network, or meets a fault.
LEMMA BotForgetsNone ==
  ASSUME ConfirmationInv, NEW p \in Presses, OnItsWay(p), NEW q \in Presses,
         Consume(q) \/ Send(q) \/ GiveUp(q)
  PROVE  OnItsWay(p)' \/ Accounted(p)'
<1>1. /\ press \in [Presses -> PressStates]
      /\ copies \in [Presses -> 0..MaxCopies]
      /\ UNCHANGED signer
  BY DEF Consume, Send, GiveUp, ConfirmationInv, ConfirmationTypeOK
<1>2. CASE \E d \in SignerTasks : signer[d] # Unused /\ signer[d].press = p
  BY <1>1, <1>2 DEF OnItsWay
<1>3. CASE copies[p] > 0
  <2>1. press[p].pc = "sent"
    BY <1>3 DEF ConfirmationInv, SentFirst
  <2>2. copies'[p] = copies[p]
    BY <1>1, <2>1 DEF Consume, Send, GiveUp
  <2> QED BY <1>3, <2>2 DEF OnItsWay
<1>4. CASE press[p].pc = "send" /\ q # p
  BY <1>1, <1>4 DEF Consume, Send, GiveUp, PressBecomes, OnItsWay
<1>5. CASE press[p].pc = "send" /\ q = p
  <2>1. ~ Consume(q)
    BY <1>5 DEF Consume
  <2>2. CASE GiveUp(q)
    BY <1>5, <2>2 DEF GiveUp, Accounted
  <2>3. CASE Send(q)
    <3>1. PICK n \in 0..MaxCopies :
            /\ copies' = [copies EXCEPT ![q] = n]
            /\ faults' = IF n = 0 THEN faults \cup {q} ELSE faults
      BY <2>3 DEF Send
    <3>2. copies'[p] = n
      BY <1>1, <1>5, <3>1
    <3> QED BY <1>5, <3>1, <3>2 DEF OnItsWay, Accounted
  <2> QED BY <2>1, <2>2, <2>3
<1> QED BY <1>2, <1>3, <1>4, <1>5 DEF OnItsWay

\* The network delivers a request to a signer that takes it up, or refuses it
\* because of the network's delay or of the clocks.
LEMMA NetworkForgetsNone ==
  ASSUME ConfirmationInv, NEW p \in Presses, OnItsWay(p),
         NEW d \in SignerTasks, NEW q \in Presses, DeliverRequest(d, q)
  PROVE  OnItsWay(p)' \/ Accounted(p)'
<1>1. /\ copies \in [Presses -> 0..MaxCopies]
      /\ signer \in [SignerTasks -> SignerStates]
      /\ UNCHANGED press
  BY DEF DeliverRequest, ConfirmationInv, ConfirmationTypeOK
<1>2. CASE press[p].pc = "send"
  BY <1>1, <1>2 DEF OnItsWay
<1>3. ASSUME NEW e \in SignerTasks, signer[e] # Unused, signer[e].press = p
      PROVE  OnItsWay(p)'
  <2>1. e # d
    BY <1>3 DEF DeliverRequest
  <2>2. signer'[e] = signer[e]
    BY <1>1, <2>1 DEF DeliverRequest, SignerBecomes
  <2> QED BY <1>3, <2>2 DEF OnItsWay
<1>4. CASE copies[p] > 0 /\ q # p
  <2>1. copies'[p] = copies[p]
    BY <1>1, <1>4 DEF DeliverRequest
  <2> QED BY <1>4, <2>1 DEF OnItsWay
<1>5. CASE q = p /\ Fresh(p)
  <2>1. signer'[d] = [pc |-> "claim", press |-> p]
    BY <1>1, <1>5 DEF DeliverRequest, SignerBecomes
  <2> QED BY <2>1 DEF OnItsWay, Unused
<1>6. CASE q = p /\ ~ Fresh(p)
  <2>1. /\ age[p] \in Nat /\ skew \in Int /\ MaxAge \in Nat /\ Early \in Nat
        /\ ~ (age[p] + skew >= -Early /\ age[p] + skew <= MaxAge)
    <3>1. age[p] \in 0..Oldest /\ skew \in -MaxSkew..MaxSkew
      BY DEF ConfirmationInv, ConfirmationTypeOK
    <3>2. MaxAge \in Nat /\ Early \in Nat /\ MaxSkew \in Nat /\ Oldest \in Nat
      BY TimesAssumption DEF Oldest
    <3> QED BY <1>6, <3>1, <3>2 DEF Fresh
  <2>2. age[p] + skew > MaxAge \/ skew < -Early
    BY <2>1
  <2>3. p \in faults'
    BY <1>6, <2>2 DEF DeliverRequest
  <2> QED BY <2>3 DEF Accounted
<1> QED BY <1>2, <1>3, <1>4, <1>5, <1>6 DEF OnItsWay

\* The signer refuses an identifier only if somebody creates, or has created,
\* for it, and drops nothing else but by dying.
LEMMA SignerForgetsNone ==
  ASSUME ConfirmationInv, ClaimedAccounted, NEW p \in Presses, OnItsWay(p),
         NEW d \in SignerTasks, ClaimRequest(d) \/ Create(d) \/ SignerDies(d)
  PROVE  OnItsWay(p)' \/ Accounted(p)'
<1>1. /\ created \in [Presses -> Nat]
      /\ signer \in [SignerTasks -> SignerStates]
      /\ UNCHANGED <<press, copies>>
  BY DEF ClaimRequest, Create, SignerDies, ConfirmationInv, ConfirmationTypeOK
<1>2. \A e \in SignerTasks \ {d} : signer'[e] = signer[e]
  BY <1>1 DEF ClaimRequest, Create, SignerDies, SignerBecomes
<1>3. CASE press[p].pc = "send" \/ copies[p] > 0
  BY <1>1, <1>3 DEF OnItsWay
<1>4. ASSUME NEW e \in SignerTasks \ {d}, signer[e] # Unused, signer[e].press = p
      PROVE  OnItsWay(p)'
  BY <1>2, <1>4 DEF OnItsWay
<1>5. CASE signer[d] # Unused /\ signer[d].press = p
  <2>1. CASE Create(d)
    <3>1. created'[p] = created[p] + 1
      BY <1>1, <1>5, <2>1 DEF Create
    <3> QED BY <1>1, <3>1 DEF Accounted
  <2>2. CASE SignerDies(d)
    BY <1>5, <2>2 DEF SignerDies, Accounted
  <2>3. CASE ClaimRequest(d) /\ Unclaimed(p)
    <3>1. signer'[d] = [pc |-> "create", press |-> p]
      BY <1>1, <1>5, <2>3 DEF ClaimRequest, SignerBecomes
    <3> QED BY <3>1 DEF OnItsWay, Unused
  <2>4. CASE ClaimRequest(d) /\ ~ Unclaimed(p)
    <3>1. Accounted(p) \/ \E e \in SignerTasks : Creates(e, p)
      BY <2>4 DEF Unclaimed, ClaimedAccounted
    <3>2. CASE Accounted(p)
      BY <2>4, <3>2 DEF ClaimRequest, Accounted
    <3>3. ASSUME NEW e \in SignerTasks, Creates(e, p)
          PROVE  OnItsWay(p)'
      <4>1. e # d
        BY <2>4, <3>3 DEF ClaimRequest, Creates
      <4>2. signer[e] # Unused /\ signer[e].press = p
        BY <3>3 DEF Creates, Unused
      <4> QED BY <1>4, <4>1, <4>2
    <3> QED BY <3>1, <3>2, <3>3
  <2> QED BY <2>1, <2>2, <2>3, <2>4
<1> QED BY <1>3, <1>4, <1>5 DEF OnItsWay

\* No step drops what is on its way without accounting for it.
LEMMA WorkStays ==
  ASSUME ConfirmationInv, ClaimedAccounted, [ConfirmationNext]_confirmationVars,
         NEW p \in Presses, OnItsWay(p)
  PROVE  OnItsWay(p)' \/ Accounted(p)'
<1>1. ASSUME UNCHANGED <<press, copies, signer>>
      PROVE  OnItsWay(p)'
  BY <1>1 DEF OnItsWay
<1>2. ASSUME NEW q \in Presses, NEW h \in Challenges, Press(q, h)
      PROVE  OnItsWay(p)'
  <2>1. press \in [Presses -> PressStates]
    BY DEF ConfirmationInv, ConfirmationTypeOK
  <2>2. press[p].pc = "send" => press'[p] = press[p]
    BY <1>2, <2>1 DEF Press, PressBecomes, Unused
  <2> QED BY <1>2, <2>2 DEF Press, OnItsWay
<1> QED
  BY <1>1, <1>2, BotForgetsNone, NetworkForgetsNone, SignerForgetsNone
  DEF ConfirmationNext, TimePasses, Issue, Proceed, Handle, confirmationVars

\* The challenge that a step consumes is the one of a press that sends next.
LEMMA ConsumedBySender ==
  ASSUME ConfirmationInv, [ConfirmationNext]_confirmationVars,
         NEW h \in Challenges, challenge[h] # "consumed", challenge'[h] = "consumed"
  PROVE  \E p \in PressesOf(h)' : OnItsWay(p)'
<1>1. /\ challenge \in [Challenges -> {"none", "open", "consumed"}]
      /\ press \in [Presses -> PressStates]
  BY DEF ConfirmationInv, ConfirmationTypeOK
<1>2. PICK p \in Presses : Consume(p)
  <2>1. \A g \in Challenges : ~ Issue(g)
    BY <1>1 DEF Issue
  <2> QED
    BY <2>1 DEF ConfirmationNext, TimePasses, Press, Proceed, Send, GiveUp,
                DeliverRequest, Handle, ClaimRequest, Create, SignerDies,
                confirmationVars
<1>3. Matches(p) /\ press[p].of = h
  BY <1>1, <1>2 DEF Consume
<1>4. press'[p] = [pc |-> "send", of |-> h]
  BY <1>1, <1>2, <1>3 DEF Consume, PressBecomes
<1> QED BY <1>4 DEF PressesOf, OnItsWay, Unused

\* An identifier is newly claimed by the task that goes on to create, and a task
\* that creates ends with the wallet or by dying.
LEMMA ClaimsStayAccounted ==
  ASSUME ConfirmationInv, ClaimedAccounted, [ConfirmationNext]_confirmationVars
  PROVE  ClaimedAccounted'
<1>1. /\ created \in [Presses -> Nat]
      /\ signer \in [SignerTasks -> SignerStates]
      /\ claimed \subseteq Presses
  BY DEF ConfirmationInv, ConfirmationTypeOK
<1>2. ASSUME NEW p \in claimed, NEW d \in SignerTasks, Creates(d, p)
      PROVE  Accounted(p)' \/ Creates(d, p)'
  <2>1. signer[d] # Unused /\ signer[d].press = p /\ p \in Presses
    BY <1>1, <1>2 DEF Creates, Unused
  <2>2. CASE Create(d)
    <3>1. created'[p] = created[p] + 1
      BY <1>1, <2>1, <2>2 DEF Create
    <3> QED BY <1>1, <2>1, <3>1 DEF Accounted
  <2>3. CASE SignerDies(d)
    BY <2>1, <2>3 DEF SignerDies, Accounted
  <2>4. ASSUME ~ Create(d), ~ SignerDies(d)
        PROVE  signer'[d] = signer[d]
    <3>1. ~ ClaimRequest(d) /\ \A q \in Presses : ~ DeliverRequest(d, q)
      BY <1>2, <2>1 DEF Creates, ClaimRequest, DeliverRequest
    <3>2. \A e \in SignerTasks \ {d} :
            /\ ClaimRequest(e) \/ Create(e) \/ SignerDies(e) => signer'[d] = signer[d]
            /\ \A q \in Presses : DeliverRequest(e, q) => signer'[d] = signer[d]
      BY <1>1 DEF ClaimRequest, Create, SignerDies, DeliverRequest, SignerBecomes
    <3> QED
      BY <2>4, <3>1, <3>2
      DEF ConfirmationNext, TimePasses, Issue, Press, Proceed, Consume, Send, GiveUp,
          Handle, confirmationVars
  <2> QED BY <1>2, <2>2, <2>3, <2>4 DEF Creates
<1>3. ASSUME NEW p \in claimed' \ claimed
      PROVE  \E d \in SignerTasks : Creates(d, p)'
  <2>1. PICK d \in SignerTasks : ClaimRequest(d)
    BY <1>3
    DEF ConfirmationNext, TimePasses, Issue, Press, Proceed, Consume, Send, GiveUp,
        DeliverRequest, Handle, Create, SignerDies, confirmationVars
  <2>2. signer[d].press = p /\ Unclaimed(p)
    BY <1>3, <2>1 DEF ClaimRequest, Unclaimed
  <2>3. signer'[d] = [pc |-> "create", press |-> p]
    BY <1>1, <2>1, <2>2 DEF ClaimRequest, SignerBecomes
  <2> QED BY <2>3 DEF Creates
<1>4. ASSUME NEW p \in claimed'
      PROVE  Accounted(p)' \/ \E d \in SignerTasks : Creates(d, p)'
  <2>1. CASE p \notin claimed
    BY <1>3, <1>4, <2>1
  <2>2. CASE p \in claimed
    <3>1. CASE Accounted(p)
      BY <1>1, <2>2, <3>1, AccountedStays
    <3>2. CASE \E d \in SignerTasks : Creates(d, p)
      BY <1>2, <2>2, <3>2
    <3> QED BY <2>2, <3>1, <3>2 DEF ClaimedAccounted
  <2> QED BY <2>1, <2>2
<1> QED BY <1>4 DEF ClaimedAccounted

\* A consumed confirmation is never dropped without a trace: its press has its
\* request to send, in the network or at the signer, until the wallet is created
\* or a fault has lost it.  Whatever the presses, the copies and the clocks, no
\* check of the signer (verify_claims, claim) loses a request the bot was
\* entitled to make (authenticate).
THEOREM ConfirmationNeverForgotten == ConfirmationSpec => []NoneForgotten
<1>1. ConfirmationInit => ForgottenInv
  BY DEF ConfirmationInit, ForgottenInv, NoneForgotten, ClaimedAccounted
<1>2. ConfirmationInv /\ ForgottenInv /\ [ConfirmationNext]_confirmationVars
        => ForgottenInv'
  <2> SUFFICES ASSUME ConfirmationInv, NoneForgotten, ClaimedAccounted,
                      [ConfirmationNext]_confirmationVars
               PROVE  NoneForgotten'
    BY ClaimsStayAccounted DEF ForgottenInv
  <2>1. ASSUME NEW h \in Challenges, challenge'[h] = "consumed"
        PROVE  \E p \in PressesOf(h)' : OnItsWay(p)' \/ Accounted(p)'
    <3>1. CASE challenge[h] # "consumed"
      BY <2>1, <3>1, ConsumedBySender
    <3>2. CASE challenge[h] = "consumed"
      <4>1. PICK p \in PressesOf(h) : OnItsWay(p) \/ Accounted(p)
        BY <3>2 DEF NoneForgotten
      <4>2. p \in Presses
        BY DEF PressesOf
      <4>3. p \in PressesOf(h)'
        BY PressesStay
      <4>4. OnItsWay(p)' \/ Accounted(p)'
        BY <4>1, <4>2, WorkStays, AccountedStays
      <4> QED BY <4>3, <4>4
    <3> QED BY <3>1, <3>2
  <2> QED BY <2>1 DEF NoneForgotten
<1>3. ForgottenInv => NoneForgotten
  BY DEF ForgottenInv
<1> QED BY <1>1, <1>2, <1>3, ConfirmationInvariance, PTL DEF ConfirmationSpec

-----------------------------------------------------------------------------
(* Rate limit.                                                             *)

\* A counter that has no key has promised nothing.
LimitInv ==
  /\ LimitTypeOK
  /\ RetryKept
  /\ \A s \in Scopes : ttl[s] = 0 => promised[s] = NoPromise

\* The minimum of two integers.
LEMMA MinOfTwo ==
  ASSUME NEW a \in Int, NEW b \in Int
  PROVE  Min({a, b}) \in {a, b} /\ Min({a, b}) <= a /\ Min({a, b}) <= b
<1>1. \E x \in {a, b} : \A y \in {a, b} : x <= y
  <2>1. CASE a <= b BY <2>1
  <2>2. CASE ~ a <= b BY <2>2
  <2> QED BY <2>1, <2>2
<1>2. Min({a, b}) \in {a, b} /\ \A y \in {a, b} : Min({a, b}) <= y
  BY <1>1 DEF Min
<1> QED BY <1>2

\* The maximum of two integers.
LEMMA MaxOfTwo ==
  ASSUME NEW a \in Int, NEW b \in Int
  PROVE  Max({a, b}) \in {a, b} /\ Max({a, b}) >= a /\ Max({a, b}) >= b
<1>1. \E x \in {a, b} : \A y \in {a, b} : x >= y
  <2>1. CASE a >= b BY <2>1
  <2>2. CASE ~ a >= b BY <2>2
  <2> QED BY <2>1, <2>2
<1>2. Max({a, b}) \in {a, b} /\ \A y \in {a, b} : Max({a, b}) >= y
  BY <1>1 DEF Max
<1> QED BY <1>2

\* The limits and the windows are positive.
LEMMA Constants ==
  /\ Ticks \in Nat \ {0} /\ Span \in Nat \ {0} /\ NoPromise = Span + Ticks
  /\ \A s \in Scopes : Limit(s) \in Nat \ {0}
<1>1. \A a, b \in Nat \ {0} : a * b \in Nat \ {0}
  OBVIOUS
<1>2. Span \in Nat \ {0}
  BY <1>1, WindowAssumption DEF Span
<1> QED BY <1>2, WindowAssumption, LimitsAssumption DEF NoPromise, Limit, Scopes

\* Rounding to the nearest second takes away half a second at most.
LEMMA NearestSecond ==
  ASSUME NEW t \in Nat
  PROVE  /\ Seconds(t) \in Nat
         /\ t <= Seconds(t) * Ticks + Ticks \div 2
<1> DEFINE q == Seconds(t)
<1>1. Ticks \in Nat \ {0} /\ Ticks \div 2 \in Nat /\ Ticks <= 2 * (Ticks \div 2) + 1
  BY Constants
<1>2. \A a \in Nat, b \in Nat \ {0} : a \div b \in Nat /\ a < b * (a \div b) + b
  OBVIOUS
<1>3. 2 * t + Ticks \in Nat /\ 2 * Ticks \in Nat \ {0}
  BY <1>1
<1>4. q \in Nat /\ 2 * t + Ticks < (2 * Ticks) * q + 2 * Ticks
  BY <1>2, <1>3 DEF Seconds
<1> HIDE DEF q
<1>5. (2 * Ticks) * q = 2 * (q * Ticks) /\ q * Ticks \in Nat
  <2>1. \A a, b \in Nat : (2 * a) * b = 2 * (b * a) /\ b * a \in Nat
    OBVIOUS
  <2> QED BY <1>1, <1>4, <2>1
<1>6. 2 * t < 2 * (q * Ticks) + Ticks
  BY <1>1, <1>4, <1>5
<1>7. \A x, y, h \in Nat : 2 * t < 2 * x + y /\ y <= 2 * h + 1 => t <= x + h
  OBVIOUS
<1>8. t <= q * Ticks + Ticks \div 2
  BY <1>1, <1>5, <1>6, <1>7
<1> QED BY <1>4, <1>8 DEF q

\* A refused caller is told of a time at which the counter's key is gone.
LEMMA ToldKept ==
  ASSUME LimitInv, NEW s \in Scopes, ttl[s] # 0
  PROVE  /\ Told(s) \in 0..promised[s]
         /\ ttl[s] <= Told(s)
<1>1. /\ ttl[s] \in 0..Span /\ promised[s] \in 0..NoPromise /\ ttl[s] <= promised[s]
      /\ Ticks \in Nat \ {0} /\ Span \in Nat /\ Ticks \div 2 \in Nat
      /\ promised[s] \in Int
  BY Constants DEF LimitInv, LimitTypeOK, RetryKept
<1>2. Remaining(s) = ttl[s] /\ ttl[s] \in Nat
  BY <1>1 DEF Remaining
<1>3. /\ Seconds(ttl[s]) \in Nat
      /\ ttl[s] <= Seconds(ttl[s]) * Ticks + Ticks \div 2
  BY <1>2, NearestSecond
<1>4. RetryAfter(s) \in Nat /\ Seconds(ttl[s]) <= RetryAfter(s)
  <2>1. RetryAfter(s) = Max({Seconds(ttl[s]), 1})
    BY <1>2 DEF RetryAfter
  <2>2. /\ Max({Seconds(ttl[s]), 1}) \in {Seconds(ttl[s]), 1}
        /\ Max({Seconds(ttl[s]), 1}) >= Seconds(ttl[s])
    <3>1. Seconds(ttl[s]) \in Int /\ 1 \in Int
      BY <1>3
    <3> QED BY ONLY <3>1, MaxOfTwo
  <2> QED BY <1>3, <2>1, <2>2
<1>5. \A a, b, c \in Nat : a <= b => a * c <= b * c /\ a * c \in Nat /\ b * c \in Nat
  OBVIOUS
<1> DEFINE r == RetryAfter(s) * Ticks + Ticks \div 2
<1>6. r \in Nat /\ ttl[s] <= r
  BY <1>1, <1>3, <1>4, <1>5
<1> HIDE DEF r
<1>7. /\ Min({promised[s], r}) \in {promised[s], r}
      /\ Min({promised[s], r}) <= promised[s]
  BY <1>1, <1>6, MinOfTwo
<1>8. Told(s) = Min({promised[s], r})
  BY DEF Told, r
<1> QED BY <1>1, <1>6, <1>7, <1>8

\* At the start no window is open and nothing is promised.
LEMMA LimitBegins == LimitInit => LimitInv
<1> SUFFICES ASSUME LimitInit PROVE LimitInv
  OBVIOUS
<1>1. /\ \A s \in Scopes : Limit(s) \in Nat
      /\ Span \in Nat \ {0} /\ Ticks \in Nat /\ NoPromise = Span + Ticks
  BY Constants
<1>2. LimitTypeOK
  BY <1>1, LostAssumption DEF LimitInit, LimitTypeOK
<1> QED BY <1>1, <1>2 DEF LimitInit, LimitInv, RetryKept

\* A hit changes a counter within its type, and begins its time if it has none.
LEMMA ChargeKeeps ==
  ASSUME LimitInv, NEW s \in Scopes, Charge(s)
  PROVE  /\ count' \in [Scopes -> Nat]
         /\ \A r \in Scopes : count'[r] <= Limit(r) + 1
         /\ ttl' \in [Scopes -> 0..Span]
         /\ ttl'[s] = Remaining(s) /\ ttl'[s] # 0
         /\ \A r \in Scopes \ {s} : ttl'[r] = ttl[r]
<1>1. /\ count \in [Scopes -> Nat] /\ ttl \in [Scopes -> 0..Span]
      /\ \A r \in Scopes : count[r] <= Limit(r) + 1 /\ Limit(r) \in Nat \ {0}
      /\ Span \in Nat \ {0}
  BY Constants DEF LimitInv, LimitTypeOK
<1>2. NewCount(s) \in Nat /\ NewCount(s) <= Limit(s) + 1
  <2> DEFINE a == count[s] + 1
             b == Limit(s) + 1
  <2>1. a \in Nat /\ b \in Nat /\ a \in Int /\ b \in Int /\ 1 <= b
    BY <1>1
  <2>2. NewCount(s) = 1 \/ NewCount(s) = Min({a, b})
    BY DEF NewCount
  <2> HIDE DEF a, b
  <2>3. Min({a, b}) \in {a, b} /\ Min({a, b}) <= b
    BY ONLY <2>1, MinOfTwo
  <2>4. NewCount(s) \in Nat /\ NewCount(s) <= b
    BY <2>1, <2>2, <2>3
  <2> QED BY <2>4 DEF b
<1>3. Remaining(s) \in 0..Span /\ Remaining(s) # 0
  BY <1>1 DEF Remaining
<1>4. count' = [count EXCEPT ![s] = NewCount(s)] /\ ttl' = [ttl EXCEPT ![s] = Remaining(s)]
  BY DEF Charge
<1> QED BY <1>1, <1>2, <1>3, <1>4

\* The ages once the newest hit is let through.
Shifted(s) == [i \in Hits(s) |-> IF i = 1 THEN 0 ELSE ages[s][i - 1]]

\* They are ages again.
LEMMA ShiftedAges ==
  ASSUME NEW s \in Scopes, ages[s] \in [Hits(s) -> 0..Span]
  PROVE  Shifted(s) \in [Hits(s) -> 0..Span]
<1>1. Limit(s) \in Nat /\ Span \in Nat
  BY Constants
<1>2. \A i \in Hits(s) : i # 1 => i - 1 \in Hits(s)
  BY <1>1 DEF Hits
<1> QED BY <1>1, <1>2 DEF Shifted

\* A hit keeps the invariant: what a refusal told is no less than the key's life.
LEMMA HitStep ==
  ASSUME LimitInv, NEW c \in Calls, Hit(c)
  PROVE  LimitInv'
<1>1. PICK s \in Scopes : s = stage[c]
  BY DEF Hit
<1>2. Charge(s) /\ UNCHANGED <<member, lost>>
  BY <1>1 DEF Hit
<1>3. /\ promised \in [Scopes -> 0..NoPromise]
      /\ ages = [r \in Scopes |-> ages[r]]
      /\ \A r \in Scopes : ages[r] \in [Hits(r) -> 0..Span]
      /\ stage \in [Calls -> {"idle"} \cup Scopes]
      /\ Span \in Nat \ {0} /\ NoPromise \in Nat
      /\ ttl \in [Scopes -> 0..Span]
  <2>1. Span \in Nat \ {0} /\ NoPromise \in Nat
    BY Constants
  <2> QED BY <2>1 DEF LimitInv, LimitTypeOK
<1>4. stage' \in [Calls -> {"idle"} \cup Scopes]
  BY <1>3 DEF Hit, After, Scopes
<1>5. CASE Allowed(s) /\ promised' = promised
             /\ ages' = [ages EXCEPT ![s] = Shifted(s)]
  <2>1. /\ ages' = [r \in Scopes |-> ages'[r]]
        /\ \A r \in Scopes : ages'[r] \in [Hits(r) -> 0..Span]
    <3>1. Shifted(s) \in [Hits(s) -> 0..Span]
      BY <1>3, ShiftedAges
    <3>2. \A r \in Scopes : ages'[r] = IF r = s THEN Shifted(s) ELSE ages[r]
      BY <1>3, <1>5
    <3> QED BY <1>3, <1>5, <3>1, <3>2
  <2>2. LimitTypeOK'
    BY <1>2, <1>3, <1>4, <1>5, <2>1, ChargeKeeps DEF LimitInv, LimitTypeOK
  <2>3. ASSUME NEW r \in Scopes
        PROVE  ttl'[r] <= promised'[r] /\ (ttl'[r] = 0 => promised'[r] = NoPromise)
    <3>1. CASE r # s
      BY <1>2, <1>5, <3>1, ChargeKeeps DEF LimitInv, RetryKept
    <3>2. CASE r = s /\ ttl[s] # 0
      BY <1>2, <1>5, <3>2, ChargeKeeps DEF LimitInv, RetryKept, Remaining
    <3>3. CASE r = s /\ ttl[s] = 0
      BY <1>2, <1>3, <1>5, <3>3, ChargeKeeps, Constants DEF LimitInv, Remaining
    <3> QED BY <3>1, <3>2, <3>3
  <2> QED BY <2>2, <2>3 DEF LimitInv, RetryKept
<1>6. CASE ~ Allowed(s) /\ promised' = [promised EXCEPT ![s] = Told(s)]
             /\ ages' = ages
  <2>1. ttl[s] # 0
    BY <1>6, Constants DEF Allowed, NewCount
  <2>2. Told(s) \in 0..promised[s] /\ ttl[s] <= Told(s)
    BY <2>1, ToldKept
  <2>3. Told(s) \in 0..NoPromise
    BY <1>3, <2>2
  <2>4. LimitTypeOK'
    BY <1>2, <1>3, <1>4, <1>6, <2>3, ChargeKeeps DEF LimitInv, LimitTypeOK
  <2>5. ASSUME NEW r \in Scopes
        PROVE  ttl'[r] <= promised'[r] /\ (ttl'[r] = 0 => promised'[r] = NoPromise)
    <3>1. CASE r # s
      BY <1>2, <1>3, <1>6, <3>1, ChargeKeeps DEF LimitInv, RetryKept
    <3>2. CASE r = s
      BY <1>2, <1>3, <1>6, <2>1, <2>2, <3>2, ChargeKeeps DEF Remaining
    <3> QED BY <3>1, <3>2
  <2> QED BY <2>4, <2>5 DEF LimitInv, RetryKept
<1> QED BY <1>1, <1>5, <1>6 DEF Hit, Shifted

\* A counter lost with the server keeps the invariant.
LEMMA LoseStep ==
  ASSUME LimitInv, NEW c \in Calls, Lose(c)
  PROVE  LimitInv'
<1>1. PICK s \in Scopes : s = stage[c]
  BY DEF Lose
<1>2. /\ lost' \in 0..MaxLost /\ stage' \in [Calls -> {"idle"} \cup Scopes]
      /\ UNCHANGED <<member, ages, promised>>
  BY LostAssumption DEF Lose, LimitInv, LimitTypeOK
<1>3. CASE UNCHANGED <<count, ttl>>
  BY <1>2, <1>3 DEF LimitInv, LimitTypeOK, RetryKept
<1>4. CASE Charge(s)
  <2>1. LimitTypeOK'
    BY <1>2, <1>4, ChargeKeeps DEF LimitInv, LimitTypeOK
  <2>2. ASSUME NEW r \in Scopes
        PROVE  ttl'[r] <= promised'[r] /\ (ttl'[r] = 0 => promised'[r] = NoPromise)
    <3>1. CASE r # s
      BY <1>2, <1>4, <3>1, ChargeKeeps DEF LimitInv, RetryKept
    <3>2. CASE r = s /\ ttl[s] # 0
      BY <1>2, <1>4, <3>2, ChargeKeeps DEF LimitInv, RetryKept, Remaining
    <3>3. CASE r = s /\ ttl[s] = 0
      BY <1>2, <1>4, <3>3, ChargeKeeps, Constants DEF LimitInv, Remaining
    <3> QED BY <3>1, <3>2, <3>3
  <2> QED BY <2>1, <2>2 DEF LimitInv, RetryKept
<1> QED BY <1>1, <1>3, <1>4 DEF Lose

\* A tick shortens the key's life and the promise alike.
LEMMA TickStep ==
  ASSUME LimitInv, Tick
  PROVE  LimitInv'
<1>1. /\ ttl \in [Scopes -> 0..Span] /\ promised \in [Scopes -> 0..NoPromise]
      /\ \A s \in Scopes : ages[s] \in [Hits(s) -> 0..Span]
      /\ Span \in Nat \ {0} /\ Ticks \in Nat /\ NoPromise = Span + Ticks
      /\ \A s \in Scopes : ttl[s] <= promised[s] /\ Limit(s) \in Nat
  <2>1. /\ Span \in Nat \ {0} /\ Ticks \in Nat /\ NoPromise = Span + Ticks
        /\ \A s \in Scopes : Limit(s) \in Nat
    BY Constants
  <2>2. ttl \in [Scopes -> 0..Span] /\ promised \in [Scopes -> 0..NoPromise]
    BY DEF LimitInv, LimitTypeOK
  <2>3. \A s \in Scopes : ages[s] \in [Hits(s) -> 0..Span]
    BY DEF LimitInv, LimitTypeOK
  <2>4. \A s \in Scopes : ttl[s] <= promised[s]
    BY DEF LimitInv, RetryKept
  <2> QED BY <2>1, <2>2, <2>3, <2>4
<1>2. ttl' \in [Scopes -> 0..Span]
  <2>1. ttl' = [s \in Scopes |-> IF ttl[s] = 0 THEN 0 ELSE ttl[s] - 1]
    BY DEF Tick
  <2>2. \A n \in Nat : \A t \in 0..n : (IF t = 0 THEN 0 ELSE t - 1) \in 0..n
    OBVIOUS
  <2>3. ASSUME NEW s \in Scopes
        PROVE  (IF ttl[s] = 0 THEN 0 ELSE ttl[s] - 1) \in 0..Span
    <3>1. ttl[s] \in 0..Span /\ Span \in Nat
      BY <1>1
    <3> QED BY ONLY <2>2, <3>1
  <2> QED BY <2>1, <2>3
<1>3. count' \in [Scopes -> Nat] /\ \A s \in Scopes : count'[s] <= Limit(s) + 1
  <2>1. count \in [Scopes -> Nat] /\ \A s \in Scopes : count[s] <= Limit(s) + 1
    BY DEF LimitInv, LimitTypeOK
  <2>2. count' = [s \in Scopes |-> IF ttl'[s] = 0 THEN 0 ELSE count[s]]
    BY DEF Tick
  <2> QED BY <1>1, <2>1, <2>2
<1>4. /\ ages' = [s \in Scopes |-> ages'[s]]
      /\ \A s \in Scopes : ages'[s] \in [Hits(s) -> 0..Span]
  <2>1. ages' = [s \in Scopes |-> [i \in Hits(s) |->
                   IF ages[s][i] = Span THEN Span ELSE ages[s][i] + 1]]
    BY DEF Tick
  <2>2. ASSUME NEW s \in Scopes, NEW i \in Hits(s)
        PROVE  (IF ages[s][i] = Span THEN Span ELSE ages[s][i] + 1) \in 0..Span
    <3>1. ages[s][i] \in 0..Span /\ Span \in Nat
      BY <1>1
    <3>2. \A n \in Nat : \A a \in 0..n : (IF a = n THEN n ELSE a + 1) \in 0..n
      OBVIOUS
    <3> QED BY ONLY <3>1, <3>2
  <2> QED BY <2>1, <2>2
<1>5. promised' \in [Scopes -> 0..NoPromise]
  <2>1. promised' = [s \in Scopes |->
                       IF ttl'[s] = 0 \/ promised[s] = NoPromise THEN NoPromise
                       ELSE IF promised[s] = 0 THEN 0 ELSE promised[s] - 1]
    BY DEF Tick
  <2>2. NoPromise \in Nat
    BY <1>1
  <2>3. \A n \in Nat : \A a \in 0..n :
          (IF a = n THEN n ELSE IF a = 0 THEN 0 ELSE a - 1) \in 0..n /\ n \in 0..n
    OBVIOUS
  <2>4. ASSUME NEW s \in Scopes
        PROVE  (IF ttl'[s] = 0 \/ promised[s] = NoPromise THEN NoPromise
                ELSE IF promised[s] = 0 THEN 0 ELSE promised[s] - 1) \in 0..NoPromise
    <3>1. promised[s] \in 0..NoPromise
      BY <1>1
    <3> QED BY ONLY <2>2, <2>3, <3>1
  <2> QED BY <2>1, <2>4
<1>6. LimitTypeOK'
  BY <1>2, <1>3, <1>4, <1>5 DEF Tick, LimitInv, LimitTypeOK
<1>7. ASSUME NEW s \in Scopes
      PROVE  ttl'[s] <= promised'[s] /\ (ttl'[s] = 0 => promised'[s] = NoPromise)
  <2>1. ttl'[s] = IF ttl[s] = 0 THEN 0 ELSE ttl[s] - 1
    BY DEF Tick
  <2>2. promised'[s] = IF ttl'[s] = 0 \/ promised[s] = NoPromise THEN NoPromise
                       ELSE IF promised[s] = 0 THEN 0 ELSE promised[s] - 1
    BY DEF Tick
  <2> QED BY <1>1, <2>1, <2>2
<1> QED BY <1>6, <1>7 DEF LimitInv, RetryKept

\* Every step of the limiter keeps the invariant.
LEMMA LimitStep == LimitInv /\ [LimitNext]_limitVars => LimitInv'
<1> SUFFICES ASSUME LimitInv, [LimitNext]_limitVars PROVE LimitInv'
  OBVIOUS
<1>1. CASE UNCHANGED limitVars
  BY <1>1 DEF limitVars, LimitInv, LimitTypeOK, RetryKept
<1>2. ASSUME NEW c \in Calls, Arrive(c) PROVE LimitInv'
  BY <1>2 DEF Arrive, Scopes, LimitInv, LimitTypeOK, RetryKept
<1> QED BY <1>1, <1>2, HitStep, LoseStep, TickStep DEF LimitNext

\* The invariant of the limiter holds in every run.
LEMMA LimitInvariance == LimitSpec => []LimitInv
  BY LimitBegins, LimitStep, PTL DEF LimitSpec

\* The hits allowed in the open window are at most count and at most the limit;
\* the others are older than it, and those of two windows ago a Window old.
Counted(s) ==
  IF ttl[s] = 0 THEN 0 ELSE IF count[s] <= Limit(s) THEN count[s] ELSE Limit(s)
Apart(s) ==
  \A i \in Hits(s) :
    /\ ttl[s] # 0 /\ i > Counted(s) => ages[s][i] >= Span - ttl[s]
    /\ i > Counted(s) + Limit(s) => ages[s][i] = Span
WindowsApart == \A s \in Scopes : Apart(s)

\* What the types say of one counter.
LEMMA CounterTypes ==
  ASSUME LimitInv, NEW s \in Scopes
  PROVE  /\ Limit(s) \in Nat \ {0} /\ Span \in Nat \ {0}
         /\ count[s] \in Nat /\ ttl[s] \in 0..Span
         /\ Counted(s) \in 0..Limit(s)
         /\ \A i \in Hits(s) : i \in Nat \ {0} /\ ages[s][i] \in 0..Span
<1>1. Limit(s) \in Nat \ {0} /\ Span \in Nat \ {0}
  BY Constants
<1>2. count[s] \in Nat /\ ttl[s] \in 0..Span /\ ages[s] \in [Hits(s) -> 0..Span]
  BY DEF LimitInv, LimitTypeOK
<1> QED BY <1>1, <1>2 DEF Counted, Hits

\* A counted hit that is not let through makes the window no smaller.
LEMMA ChargeApart ==
  ASSUME LimitInv, NEW s \in Scopes, Apart(s), Charge(s), ages'[s] = ages[s]
  PROVE  Apart(s)'
<1>1. /\ count'[s] = NewCount(s) /\ ttl'[s] = Remaining(s) /\ ttl'[s] # 0
      /\ count'[s] \in Nat /\ count'[s] <= Limit(s) + 1
  BY ChargeKeeps DEF Charge, LimitInv, LimitTypeOK
<1>2. CASE ttl[s] = 0
  <2>1. count'[s] = 1 /\ ttl'[s] = Span
    BY <1>1, <1>2 DEF NewCount, Remaining
  <2>2. Counted(s) = 0 /\ Counted(s)' = 1
    BY <1>2, <2>1, CounterTypes DEF Counted
  <2> QED BY <2>1, <2>2, CounterTypes DEF Apart
<1>3. CASE ttl[s] # 0
  <2>1. ttl'[s] = ttl[s] /\ count'[s] = Min({count[s] + 1, Limit(s) + 1})
    BY <1>1, <1>3 DEF NewCount, Remaining
  <2>2. count'[s] \in {count[s] + 1, Limit(s) + 1}
    <3>1. count[s] + 1 \in Int /\ Limit(s) + 1 \in Int
      BY CounterTypes
    <3> QED BY ONLY <2>1, <3>1, MinOfTwo
  <2>3. Counted(s) <= Counted(s)' /\ Counted(s)' \in Nat
    BY <1>3, <2>1, <2>2, CounterTypes DEF Counted
  <2> QED BY <1>3, <2>1, <2>3, CounterTypes DEF Apart
<1> QED BY <1>2, <1>3

\* A hit that is let through is one of the open window's, at most Limit of them.
LEMMA AllowedApart ==
  ASSUME LimitInv, NEW s \in Scopes, Apart(s), Charge(s), Allowed(s),
         ages'[s] = Shifted(s)
  PROVE  Apart(s)'
<1>1. /\ count'[s] = NewCount(s) /\ ttl'[s] = Remaining(s) /\ ttl'[s] # 0
      /\ count'[s] \in Nat /\ count'[s] <= Limit(s)
  BY ChargeKeeps DEF Charge, LimitInv, LimitTypeOK, Allowed
<1>2. Counted(s)' = Counted(s) + 1
  <2>1. CASE ttl[s] = 0
    BY <1>1, <2>1, CounterTypes DEF NewCount, Counted
  <2>2. CASE ttl[s] # 0
    <3>1. count[s] + 1 \in Int /\ Limit(s) + 1 \in Int
      BY CounterTypes
    <3>2. count'[s] = Min({count[s] + 1, Limit(s) + 1})
      BY <1>1, <2>2 DEF NewCount
    <3>3. count'[s] \in {count[s] + 1, Limit(s) + 1}
      BY ONLY <3>1, <3>2, MinOfTwo
    <3> QED BY <1>1, <2>2, <3>3, CounterTypes DEF Counted
  <2> QED BY <2>1, <2>2
<1>3. ASSUME NEW i \in Hits(s), i > Counted(s) + 1
      PROVE  /\ i - 1 \in Hits(s) /\ i - 1 > Counted(s)
             /\ ages'[s][i] = ages[s][i - 1] /\ ages[s][i - 1] \in 0..Span
             /\ ages'[s][i] >= Span - ttl'[s]
  <2>1. i \in Nat /\ i - 1 \in Hits(s) /\ i - 1 > Counted(s) /\ i # 1
    BY <1>3, CounterTypes DEF Hits
  <2>2. ages'[s][i] = ages[s][i - 1] /\ ages[s][i - 1] \in 0..Span
    BY <2>1, CounterTypes DEF Shifted
  <2>3. ages'[s][i] >= Span - ttl'[s]
    BY <1>1, <2>1, <2>2, CounterTypes DEF Apart, Remaining
  <2> QED BY <2>1, <2>2, <2>3
<1>4. ASSUME NEW i \in Hits(s), i > Counted(s) + 1 + Limit(s)
      PROVE  ages'[s][i] = Span
  <2>1. i > Counted(s) + 1 /\ i - 1 > Counted(s) + Limit(s)
    BY <1>4, CounterTypes
  <2> QED BY <1>3, <2>1 DEF Apart
<1> QED BY <1>2, <1>3, <1>4 DEF Apart

\* A window that ends is a Window older than every hit before it.
LEMMA TickApart ==
  ASSUME LimitInv, NEW s \in Scopes, Apart(s), Tick
  PROVE  Apart(s)'
<1>1. /\ ttl'[s] = IF ttl[s] = 0 THEN 0 ELSE ttl[s] - 1
      /\ count'[s] = IF ttl'[s] = 0 THEN 0 ELSE count[s]
  BY DEF Tick
<1>2. \A i \in Hits(s) :
        ages'[s][i] = IF ages[s][i] = Span THEN Span ELSE ages[s][i] + 1
  BY DEF Tick
<1>3. CASE ttl'[s] = 0
  <2>1. Counted(s)' = 0
    BY <1>3 DEF Counted
  <2>2. ASSUME NEW i \in Hits(s), i > Limit(s) PROVE ages'[s][i] = Span
    <3>1. CASE ttl[s] = 0
      BY <1>2, <2>2, <3>1, CounterTypes DEF Apart, Counted
    <3>2. CASE ttl[s] # 0
      <4>1. ttl[s] = 1 /\ i > Counted(s)
        BY <1>1, <1>3, <2>2, <3>2, CounterTypes
      <4>2. ages[s][i] >= Span - 1 /\ ages[s][i] \in 0..Span
        BY <4>1, CounterTypes DEF Apart
      <4> QED BY <1>2, <4>2, CounterTypes
    <3> QED BY <3>1, <3>2
  <2> QED BY <1>3, <2>1, <2>2, CounterTypes DEF Apart
<1>4. CASE ttl'[s] # 0
  <2>1. ttl[s] # 0 /\ ttl'[s] = ttl[s] - 1 /\ Counted(s)' = Counted(s)
    BY <1>1, <1>4 DEF Counted
  <2> QED BY <1>2, <2>1, CounterTypes DEF Apart
<1> QED BY <1>3, <1>4

\* The hits of different windows stay apart.
LEMMA WindowsStayApart ==
  ASSUME LimitInv, WindowsApart, [LimitNext]_limitVars
  PROVE  WindowsApart'
<1> SUFFICES ASSUME NEW s \in Scopes PROVE Apart(s)'
  BY DEF WindowsApart
<1>1. Apart(s)
  BY DEF WindowsApart
<1>2. CASE UNCHANGED <<count, ttl, ages>>
  BY <1>1, <1>2 DEF Apart, Counted
<1>3. ASSUME NEW r \in Scopes \ {s}, Charge(r), ages'[s] = ages[s] PROVE Apart(s)'
  <2>1. count'[s] = count[s] /\ ttl'[s] = ttl[s]
    BY <1>3 DEF Charge, LimitInv, LimitTypeOK
  <2> QED BY <1>1, <1>3, <2>1 DEF Apart, Counted
<1>4. ASSUME NEW c \in Calls, Hit(c) PROVE Apart(s)'
  <2>1. PICK r \in Scopes : r = stage[c] /\ Charge(r)
    BY <1>4 DEF Hit
  <2>2. \/ Allowed(r) /\ ages' = [ages EXCEPT ![r] = Shifted(r)]
        \/ ages' = ages
    BY <1>4, <2>1 DEF Hit, Shifted
  <2>3. r # s => ages'[s] = ages[s]
    BY <2>2 DEF LimitInv, LimitTypeOK
  <2>4. Allowed(s) /\ r = s /\ ages' # ages => ages'[s] = Shifted(s)
    BY <2>2 DEF LimitInv, LimitTypeOK
  <2> QED BY <1>1, <1>3, <2>1, <2>2, <2>3, <2>4, ChargeApart, AllowedApart
<1>5. ASSUME NEW c \in Calls, Lose(c) PROVE Apart(s)'
  <2>1. ages' = ages
    BY <1>5 DEF Lose
  <2>2. UNCHANGED <<count, ttl>> \/ \E r \in Scopes : Charge(r)
    BY <1>5 DEF Lose
  <2> QED BY <1>1, <1>2, <1>3, <2>1, <2>2, ChargeApart
<1>6. ASSUME NEW c \in Calls, Arrive(c) PROVE Apart(s)'
  BY <1>2, <1>6 DEF Arrive
<1>7. CASE UNCHANGED limitVars
  BY <1>2, <1>7 DEF limitVars
<1> QED BY <1>1, <1>4, <1>5, <1>6, <1>7, TickApart DEF LimitNext

\* Types of the counters, their lives and the promises.
THEOREM LimitTypeCorrect == LimitSpec => []LimitTypeOK
<1>1. LimitInv => LimitTypeOK
  BY DEF LimitInv
<1> QED BY <1>1, LimitInvariance, PTL

\* Who waits as long as a refusal said is not refused by the same window,
\* whatever calls are made meanwhile (RedisRateLimiter.hit).
THEOREM RefusalsAreKept == LimitSpec => []RetryKept
<1>1. LimitInv => RetryKept
  BY DEF LimitInv
<1> QED BY <1>1, LimitInvariance, PTL

\* In any Window seconds at most twice the limit is let through, whatever calls
\* interleave and whichever are lost after they were counted
\* (RedisRateLimiter.hit).
THEOREM BurstIsBounded == LimitSpec => []BurstBounded
<1>1. LimitInit => WindowsApart
  <2> SUFFICES ASSUME LimitInit, NEW s \in Scopes PROVE Apart(s)
    BY DEF WindowsApart
  <2>1. Span \in Nat
    BY Constants
  <2> QED BY <2>1 DEF LimitInit, Apart
<1>2. LimitInv /\ WindowsApart => BurstBounded
  <2> SUFFICES ASSUME LimitInv, WindowsApart, NEW s \in Scopes
               PROVE  ages[s][2 * Limit(s) + 1] = Span
    BY DEF BurstBounded
  <2> DEFINE i == 2 * Limit(s) + 1
  <2>1. i \in Hits(s) /\ i > Counted(s) + Limit(s)
    BY CounterTypes DEF Hits
  <2> QED BY <2>1 DEF WindowsApart, Apart
<1> QED BY <1>1, <1>2, WindowsStayApart, LimitInvariance, PTL DEF LimitSpec

=============================================================================
