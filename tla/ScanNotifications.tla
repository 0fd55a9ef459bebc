------------------------- MODULE ScanNotifications -------------------------
(***************************************************************************)
(* One workspace's subscription to a collection, and the track_scan tasks  *)
(* that report the scan's progress to its chat.  /add_collection and /scan *)
(* publish a scan message and then a tracking message.  A tracker compares *)
(* the rows of the scan, those of ScanProgress, with the last report the   *)
(* subscription stores, stores and sends a new one, and sends itself again *)
(* until the scan has ended.                                               *)
(*                                                                         *)
(* The queue acknowledges late but does not reject what a lost worker had: *)
(* a tracker that dies may be delivered again or be gone.  The countdown   *)
(* between two polls is left out: a message may be taken at any time.      *)
(***************************************************************************)
EXTENDS ScanProgress

CONSTANTS
  Handlers,     \* commands in progress at the same time
  Trackers,     \* notification workers
  MaxRequests,  \* bound: /add_collection and /scan commands
  MaxFailures   \* bound: workers that die during a task, and calls to the
                \* database, the broker or Telegram that raise

ASSUME BoundsAssumption == MaxRequests \in Nat /\ MaxFailures \in Nat

VARIABLES
  saved,    \* the workspace_collections row exists
  enabled,  \* notification_destinations.enabled
  report,   \* last_scan_report in the row's notification_settings
  handler,  \* what each command is doing
  queue,    \* track_scan messages waiting
  tracker,  \* what each worker is doing
  told,     \* the last report the chat shows
  requests, failures,  \* counts of what the bounds limit
  promised,    \* history: a command answered that the scan is queued
  toldEnd,     \* history: the chat was shown that the scan ended
  overlapped,  \* history: a tracker read while another had a report to send
  unsent,      \* history: send_message did not return for a stored report
  stopped      \* history: a tracker ended without having seen the scan's end

counts == <<requests, failures>>
chat == <<told, toldEnd>>
vars == <<scan, saved, enabled, report, handler, queue, tracker, chat, counts,
          promised, overlapped, unsent, stopped>>

Reports == [milestone : 0..100, status : Statuses, warnings : SUBSET Codes]
NoReport == [milestone |-> -1, status |-> "none", warnings |-> {}]
Stages == {"idle", "read", "store", "send", "resend", "ack"}
Trackings == [pc : Stages, report : Reports \cup {NoReport}]
Idle == [pc |-> "idle", report |-> NoReport]

TypeOK ==
  /\ ScanTypeOK
  /\ saved \in BOOLEAN /\ enabled \in BOOLEAN
  /\ report \in Reports \cup {NoReport}
  /\ handler \in [Handlers -> {"idle", "publish"}]
  /\ queue \in Nat
  /\ tracker \in [Trackers -> Trackings]
  /\ told \in Reports \cup {NoReport}
  /\ requests \in 0..MaxRequests /\ failures \in 0..MaxFailures
  /\ promised \in BOOLEAN /\ toldEnd \in BOOLEAN
  /\ overlapped \in BOOLEAN /\ unsent \in BOOLEAN /\ stopped \in BOOLEAN

Init ==
  /\ ScanInit
  /\ saved = FALSE /\ enabled = TRUE
  /\ report = NoReport
  /\ handler = [h \in Handlers |-> "idle"]
  /\ queue = 0
  /\ tracker = [t \in Trackers |-> Idle]
  /\ told = NoReport
  /\ requests = 0 /\ failures = 0
  /\ promised = FALSE /\ toldEnd = FALSE
  /\ overlapped = FALSE /\ unsent = FALSE /\ stopped = FALSE

At(t, pc) == tracker[t].pc = pc
Become(t, pc, r) == tracker' = [tracker EXCEPT ![t] = [pc |-> pc, report |-> r]]
Goto(t, pc) == Become(t, pc, NoReport)

-----------------------------------------------------------------------------
(* The world outside the commands and the trackers.                        *)

Scan ==
  /\ ScanNext
  /\ UNCHANGED <<saved, enabled, report, handler, queue, tracker, chat, counts,
                 promised, overlapped, unsent, stopped>>

\* Revocation disables the destination, a new approval enables it again.
Switch ==
  /\ enabled' = ~ enabled
  /\ UNCHANGED <<scan, saved, report, handler, queue, tracker, chat, counts,
                 promised, overlapped, unsent, stopped>>

-----------------------------------------------------------------------------
(* The commands.                                                           *)

\* add_or_get keeps the row there is; find_by_address needs one.
Command(h) ==
  /\ handler[h] = "idle" /\ enabled
  /\ requests < MaxRequests
  /\ requests' = requests + 1
  /\ handler' = [handler EXCEPT ![h] = "publish"]
  /\ UNCHANGED <<scan, enabled, report, queue, tracker, chat, failures,
                 promised, overlapped, unsent, stopped>>

AddCollection(h) == Command(h) /\ saved' = TRUE
ScanAgain(h) == Command(h) /\ saved /\ UNCHANGED saved

\* The scan message, then the tracking message.
Publish(h) ==
  /\ handler[h] = "publish"
  /\ handler' = [handler EXCEPT ![h] = "idle"]
  /\ queue' = queue + 1
  /\ promised' = TRUE
  /\ UNCHANGED <<scan, saved, enabled, report, tracker, chat, counts,
                 overlapped, unsent, stopped>>

\* One of the two raises, perhaps after the broker had the message: the user is
\* told that the queue is unavailable, whatever was published.
PublishRaises(h) ==
  /\ handler[h] = "publish"
  /\ failures < MaxFailures
  /\ failures' = failures + 1
  /\ handler' = [handler EXCEPT ![h] = "idle"]
  /\ queue' \in {queue, queue + 1}
  /\ UNCHANGED <<scan, saved, enabled, report, tracker, chat, requests,
                 promised, overlapped, unsent, stopped>>

-----------------------------------------------------------------------------
(* A tracker.                                                              *)

Terminal == {"complete", "failed", "quality_warning"}

Percent == IF span = 0 THEN 0 ELSE (blocks * 100) \div span

Milestone == IF status \in Terminal THEN 100 ELSE (Percent \div 25) * 25

Current == [milestone |-> Milestone, status |-> status, warnings |-> warnings]

\* Mutant: the last report is not compared.
NewsAlways == TRUE
News == report # Current

\* Mutants: the scan's end does not stop the polling; one report is enough.
AfterForever(r) == "resend"
AfterOnce(r) == "ack"
After(r) == IF r.status \in Terminal THEN "ack" ELSE "resend"

Take(t) ==
  /\ At(t, "idle") /\ queue > 0
  /\ queue' = queue - 1
  /\ Goto(t, "read")
  /\ UNCHANGED <<scan, saved, enabled, report, handler, chat, counts, promised,
                 overlapped, unsent, stopped>>

Busy(t) == At(t, "store") \/ At(t, "send")

\* The join of the subscription, the scan's rows and the destination.
Read(t) ==
  /\ At(t, "read")
  /\ \/ /\ ~ enabled                                   \* no row: it stops
        /\ Goto(t, "ack")
        /\ stopped' = TRUE
     \/ /\ enabled /\ ~ News
        /\ Goto(t, After(Current))
        /\ UNCHANGED stopped
     \/ /\ enabled /\ News
        /\ Become(t, "store", Current)
        /\ UNCHANGED stopped
  /\ overlapped' = (overlapped \/ \E s \in Trackers : Busy(s))
  /\ UNCHANGED <<scan, saved, enabled, report, handler, queue, chat, counts,
                 promised, unsent>>

\* Mutant: the settings are changed in place, which the ORM does not see.
StoredInPlace(r) == report
Stored(r) == r

\* The update of notification_settings, committed before the report is sent.
Store(t) ==
  /\ At(t, "store")
  /\ report' = Stored(tracker[t].report)
  /\ Become(t, "send", tracker[t].report)
  /\ UNCHANGED <<scan, saved, enabled, handler, queue, chat, counts, promised,
                 overlapped, unsent, stopped>>

\* The chat (external) shows a message it is sent.
Show(r) == told' = r /\ toldEnd' = (toldEnd \/ r.status \in Terminal)

Send(t) ==
  /\ At(t, "send")
  /\ Show(tracker[t].report)
  /\ Goto(t, After(tracker[t].report))
  /\ UNCHANGED <<scan, saved, enabled, report, handler, queue, counts, promised,
                 overlapped, unsent, stopped>>

\* track_scan sends itself again before its own message is acknowledged.
Resend(t) ==
  /\ At(t, "resend")
  /\ queue' = queue + 1
  /\ Goto(t, "ack")
  /\ UNCHANGED <<scan, saved, enabled, report, handler, chat, counts, promised,
                 overlapped, unsent, stopped>>

Ack(t) ==
  /\ At(t, "ack")
  /\ Become(t, "idle", NoReport)
  /\ UNCHANGED <<scan, saved, enabled, report, handler, queue, chat, counts,
                 promised, overlapped, unsent, stopped>>

Step(t) == \/ Take(t) \/ Read(t) \/ Store(t) \/ Send(t) \/ Resend(t) \/ Ack(t)

-----------------------------------------------------------------------------
(* Failures.                                                               *)

\* A message whose sending does not return may have reached the chat.
Interrupted(t) ==
  \/ /\ At(t, "send")
     /\ unsent' = TRUE
     /\ UNCHANGED chat \/ Show(tracker[t].report)
  \/ ~ At(t, "send") /\ UNCHANGED <<chat, unsent>>

\* An exception acknowledges the message, and nobody sends another; but a
\* send_task that raises may do so after the broker had the message.
Raise(t) ==
  /\ tracker[t].pc \notin {"idle", "ack"}
  /\ failures < MaxFailures
  /\ failures' = failures + 1
  /\ Interrupted(t)
  /\ Goto(t, "idle")
  /\ \/ stopped' = TRUE /\ UNCHANGED queue
     \/ At(t, "resend") /\ queue' = queue + 1 /\ UNCHANGED stopped
  /\ UNCHANGED <<scan, saved, enabled, report, handler, requests, promised,
                 overlapped>>

\* The worker dies: its message is delivered again, or it is gone.
Die(t) ==
  /\ ~ At(t, "idle")
  /\ failures < MaxFailures
  /\ failures' = failures + 1
  /\ Interrupted(t)
  /\ Goto(t, "idle")
  /\ \/ queue' = queue + 1 /\ UNCHANGED stopped
     \/ stopped' = TRUE /\ UNCHANGED queue
  /\ UNCHANGED <<scan, saved, enabled, report, handler, requests, promised,
                 overlapped>>

Next == \/ Scan \/ Switch
        \/ \E h \in Handlers : \/ AddCollection(h) \/ ScanAgain(h)
                               \/ Publish(h) \/ PublishRaises(h)
        \/ \E t \in Trackers : Step(t) \/ Raise(t) \/ Die(t)

Spec == Init /\ [][Next]_vars

\* A running worker gets on with its task and takes messages that wait.
FairSpec == Spec /\ \A t \in Trackers : WF_vars(Step(t))

-----------------------------------------------------------------------------
(* Properties.                                                             *)

Silent == queue = 0 /\ \A t \in Trackers : At(t, "idle")

\* The reports end with the scan's end: a command that answered "queued" has
\* the end told, and told last if no two trackers overlapped, unless a tracker
\* was stopped or a message did not get through (track_scan, _notify).
EndTold ==
  Silent /\ promised =>
    \/ stopped \/ unsent
    \/ toldEnd /\ (overlapped \/ told.status \in Ended)

\* The stored report is the one the chat shows, as long as no two trackers
\* overlapped and every send_message returned (last_scan_report).
InStep ==
  overlapped \/ unsent \/ told = report \/ \E t \in Trackers : At(t, "send")

\* Under the same conditions no report is repeated, and progress that is told
\* does not go back (milestone).
ReportsAdvance ==
  [][\A t \in Trackers : At(t, "send") /\ ~ At(t, "send")' /\ ~ overlapped /\ ~ unsent' =>
       /\ told' # told
       /\ told'.milestone >= told.milestone]_vars

\* Once the scan stays ended, the polling ends: trackers do not keep sending
\* themselves (track_scan).
TrackingEnds == <>[](status \in Ended) => <>[]Silent

=============================================================================
