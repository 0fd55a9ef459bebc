---------------------- MODULE ScanNotifications_proofs ----------------------
(***************************************************************************)
(* What the reports of a scan promise for any number of commands, trackers *)
(* and failures, and for a scan of any length.                             *)
(***************************************************************************)
EXTENDS ScanNotifications, FiniteSetTheorems, TLAPS

\* A scan that has ended has passed its whole range, whatever it does next.
EndedIsWhole == status \in Ended => span # 0 /\ blocks = span

\* Nothing that was read of the scan is ahead of it.
NothingAhead ==
  /\ told.milestone <= Milestone
  /\ \A t \in Trackers : Busy(t) => tracker[t].report.milestone <= Milestone

\* Without overlaps one tracker at a time has news, and it is news to the chat.
OneBusy ==
  overlapped \/ \A s, t \in Trackers : Busy(s) /\ Busy(t) => s = t
NewsIsFresh ==
  overlapped \/ \A t \in Trackers : Busy(t) =>
    /\ At(t, "send") => tracker[t].report = report
    /\ told.milestone <= tracker[t].report.milestone
    /\ unsent \/ tracker[t].report # told

\* The end of the scan has been told, failed to be, or is about to be.
EndOnItsWay ==
  \/ toldEnd \/ unsent
  \/ \E t \in Trackers : At(t, "send") /\ tracker[t].report.status \in Terminal
EndStored == report.status \in Terminal => EndOnItsWay

\* A chain of trackers goes on, was stopped, or came to the end of the scan.
Alive(t) ==
  \/ At(t, "read") \/ At(t, "store") \/ At(t, "resend")
  \/ At(t, "send") /\ tracker[t].report.status \notin Terminal
GoesOn == queue > 0 \/ \E t \in Trackers : Alive(t)
CameToEnd == EndOnItsWay /\ (overlapped \/ report.status \in Terminal)
Chain == promised => stopped \/ GoesOn \/ CameToEnd

IInv == /\ TypeOK /\ EndedIsWhole /\ NothingAhead
        /\ OneBusy /\ NewsIsFresh /\ InStep
        /\ EndStored /\ Chain

-----------------------------------------------------------------------------
(* Arithmetic.                                                             *)

\* A share of the whole is at most the whole, and all of it is 100 per cent.
LEMMA Shares ==
  ASSUME NEW n \in Nat \ {0}, NEW a \in Nat, a <= n
  PROVE  /\ (a * 100) \div n \in 0..100
         /\ (n * 100) \div n = 100
         /\ (0 * 100) \div n = 0
<1> DEFINE q == (a * 100) \div n
<1>1. q \in Int /\ n * q <= a * 100 /\ a * 100 < n * q + n
  BY SMT
<1> HIDE DEF q
<1>2. q >= 0
  BY <1>1, SMT
<1>3. q <= 100
  BY <1>1, SMT
<1> QED BY <1>2, <1>3, <1>1, SMT DEF q

\* More blocks are not a smaller share.
LEMMA SharesGrow ==
  ASSUME NEW n \in Nat \ {0}, NEW a \in Nat, NEW b \in Nat, a <= b
  PROVE  (a * 100) \div n <= (b * 100) \div n
<1> DEFINE p == (a * 100) \div n
           q == (b * 100) \div n
<1>1. p \in Int /\ n * p <= a * 100
  BY SMT
<1>2. q \in Int /\ b * 100 < n * q + n
  BY SMT
<1> HIDE DEF p, q
<1>3. n * p < n * q + n
  BY <1>1, <1>2, SMT
<1>4. p <= q
  BY <1>1, <1>2, <1>3, SMT
<1> QED BY <1>4 DEF p, q

\* A quarter that is over: at most the percentage, and no less than that of a
\* smaller one.
LEMMA Quarters ==
  ASSUME NEW p \in 0..100, NEW q \in 0..100, p <= q
  PROVE  /\ (p \div 25) * 25 \in 0..100
         /\ (p \div 25) * 25 <= (q \div 25) * 25
  BY SMT

-----------------------------------------------------------------------------
(* The scan.                                                               *)

\* The percentage is one.
LEMMA PercentType == ScanTypeOK => Percent \in 0..100
<1> SUFFICES ASSUME ScanTypeOK PROVE Percent \in 0..100
  OBVIOUS
<1>1. CASE span = 0
  BY <1>1 DEF Percent
<1>2. CASE span # 0
  <2>1. span \in Nat \ {0} /\ blocks \in Nat /\ blocks <= span
    BY <1>2, SpansAssumption DEF ScanTypeOK
  <2>2. (blocks * 100) \div span \in 0..100
    BY <2>1, Shares
  <2> QED BY <1>2, <2>2 DEF Percent
<1> QED BY <1>1, <1>2

\* And so is the milestone.
LEMMA MilestoneType == ScanTypeOK => Milestone \in 0..100
<1> SUFFICES ASSUME ScanTypeOK PROVE Milestone \in 0..100
  OBVIOUS
<1>1. (Percent \div 25) * 25 \in 0..100
  BY PercentType, Quarters
<1> QED BY <1>1 DEF Milestone

\* The report that a tracker makes of the rows.
LEMMA CurrentType ==
  ASSUME ScanTypeOK
  PROVE  /\ Current \in Reports
         /\ Current.milestone = Milestone
         /\ Current.status = status
  BY MilestoneType DEF Current, Reports, ScanTypeOK

\* The steps of the scan keep its types, and the milestone never goes back.
LEMMA ScanSteps ==
  ASSUME ScanTypeOK, EndedIsWhole, ScanNext
  PROVE  ScanTypeOK' /\ EndedIsWhole' /\ Milestone' >= Milestone
<1>0. span \in Nat /\ blocks \in Nat /\ blocks <= span
  BY SpansAssumption DEF ScanTypeOK
<1>1. ScanTypeOK'
  <2>1. CASE Begin \/ Warn \/ End
    BY <2>1 DEF ScanTypeOK, Begin, Warn, End, Statuses, Ended
  <2>2. CASE CreateJob
    <3>1. span' \in Nat /\ blocks' = 0
      BY <1>0, <2>2, SpansAssumption DEF CreateJob
    <3> QED BY <2>2, <3>1 DEF ScanTypeOK, CreateJob
  <2>3. CASE Advance
    <3>1. blocks' \in Nat /\ blocks' <= span
      BY <1>0, <2>3 DEF Advance
    <3> QED BY <2>3, <3>1 DEF ScanTypeOK, Advance
  <2> QED BY <2>1, <2>2, <2>3 DEF ScanNext
<1>2. EndedIsWhole'
  BY DEF EndedIsWhole, ScanTypeOK, ScanNext, Begin, CreateJob, Advance, Warn, End, Ended
<1>3. Percent \in 0..100 /\ Percent' \in 0..100
  <2>1. (ScanTypeOK => Percent \in 0..100)'
    BY PercentType, PTL
  <2> QED BY <1>1, <2>1, PercentType
<1>4. status \in Ended => Percent = 100
  <2> SUFFICES ASSUME status \in Ended PROVE Percent = 100
    OBVIOUS
  <2>1. span \in Nat \ {0} /\ blocks = span
    BY <1>0 DEF EndedIsWhole
  <2>2. (span * 100) \div span = 100
    BY <2>1, Shares
  <2> QED BY <2>1, <2>2 DEF Percent
<1>5. Percent' >= Percent
  <2>1. CASE CreateJob
    <3>1. Percent = 0
      BY <2>1 DEF CreateJob, Percent
    <3> QED BY <1>3, <3>1
  <2>2. CASE Advance
    <3>1. span \in Nat \ {0} /\ span' = span /\ blocks' \in Nat /\ blocks <= blocks'
      BY <1>0, <2>2 DEF Advance
    <3>2. (blocks * 100) \div span <= (blocks' * 100) \div span
      BY <1>0, <3>1, SharesGrow
    <3> QED BY <3>1, <3>2 DEF Percent
  <2>3. CASE Begin \/ Warn \/ End
    <3>1. span' = span /\ blocks' = blocks
      BY <2>3 DEF Begin, Warn, End
    <3> QED BY <1>3, <3>1 DEF Percent
  <2> QED BY <2>1, <2>2, <2>3 DEF ScanNext
<1>6. (Percent' \div 25) * 25 >= (Percent \div 25) * 25
  BY <1>3, <1>5, Quarters
<1>7. Milestone' >= Milestone
  <2>1. status \in Terminal <=> status \in Ended
    BY DEF Terminal, Ended, ScanTypeOK, Statuses
  <2>2. CASE status \in Ended
    <3>1. Percent' = 100
      BY <1>3, <1>4, <1>5, <2>2
    <3>2. (100 \div 25) * 25 = 100
      OBVIOUS
    <3>3. Milestone' = 100 /\ Milestone = 100
      BY <2>1, <2>2, <3>1, <3>2 DEF Milestone
    <3> QED BY <3>3
  <2>3. CASE status \notin Ended
    <3>1. Milestone = (Percent \div 25) * 25
      BY <2>1, <2>3 DEF Milestone
    <3>2. (Percent \div 25) * 25 \in 0..100
      BY <1>3, Quarters
    <3>3. Milestone' = 100 \/ Milestone' = (Percent' \div 25) * 25
      BY DEF Milestone
    <3> QED BY <1>6, <3>1, <3>2, <3>3
  <2> QED BY <2>2, <2>3
<1> QED BY <1>1, <1>2, <1>7

-----------------------------------------------------------------------------
(* Steps of a tracker.                                                     *)

\* What a report, or the lack of one, is.
LEMMA ReportType ==
  ASSUME NEW r \in Reports \cup {NoReport}
  PROVE  /\ r.milestone \in Int /\ -1 <= r.milestone /\ r.milestone <= 100
         /\ r.status \in Terminal => r.status \in Ended
<1>1. CASE r \in Reports
  BY <1>1 DEF Reports, Terminal, Ended, Statuses
<1>2. CASE r = NoReport
  <2>1. r.milestone = -1 /\ r.status = "none"
    BY <1>2 DEF NoReport
  <2>2. "none" \notin Terminal
    BY DEF Terminal
  <2> QED BY <2>1, <2>2
<1> QED BY <1>1, <1>2

\* What the trackers do after a step of t.
LEMMA BecomeTracker ==
  ASSUME TypeOK, NEW t \in Trackers, NEW pc \in Stages,
         NEW r \in Reports \cup {NoReport}, Become(t, pc, r)
  PROVE  /\ tracker' \in [Trackers -> Trackings]
         /\ tracker'[t].pc = pc /\ tracker'[t].report = r
         /\ \A s \in Trackers \ {t} : tracker'[s] = tracker[s]
<1>1. PICK k \in Trackings : k = [pc |-> pc, report |-> r]
  BY DEF Trackings
<1>2. k.pc = pc /\ k.report = r
  BY <1>1
<1>3. tracker' = [tracker EXCEPT ![t] = k]
  BY <1>1 DEF Become
<1> QED BY <1>2, <1>3 DEF TypeOK

\* The part of the invariant that is about reports.
Reporting == NothingAhead /\ OneBusy /\ NewsIsFresh /\ InStep /\ EndStored

\* The chat and the stored report are as they were.
Reported == UNCHANGED <<scan, report, chat, unsent>>

\* A tracker that has no report to send, and gets none, leaves everything that
\* is about reports as it was.
LEMMA WithoutReport ==
  ASSUME TypeOK, Reporting, NEW t \in Trackers, ~ At(t, "send"), ~ Busy(t)', Reported,
         overlapped \in BOOLEAN, overlapped' \in BOOLEAN, overlapped => overlapped',
         \A s \in Trackers \ {t} : tracker'[s] = tracker[s]
  PROVE  Reporting' /\ (EndOnItsWay => EndOnItsWay')
<1>0. \A s \in Trackers : Busy(s)' => s # t /\ Busy(s) /\ tracker'[s] = tracker[s]
  BY DEF Busy, At
<1>1. \A s \in Trackers : At(s, "send") => At(s, "send")' /\ tracker'[s] = tracker[s]
  BY DEF At
<1>2. Milestone' = Milestone
  BY DEF Reported, scan, Milestone, Percent
<1>3. NothingAhead'
  BY <1>0, <1>2 DEF Reporting, NothingAhead, Reported, chat
<1>4. OneBusy'
  BY <1>0 DEF Reporting, OneBusy
<1>5. NewsIsFresh'
  BY <1>0 DEF Reporting, NewsIsFresh, Reported, chat, At
<1>6. InStep'
  BY <1>1 DEF Reporting, InStep, Reported, chat
<1>7. EndOnItsWay => EndOnItsWay'
  BY <1>1 DEF EndOnItsWay, Reported, chat
<1>8. EndStored'
  BY <1>7 DEF Reporting, EndStored, Reported
<1> QED BY <1>3, <1>4, <1>5, <1>6, <1>7, <1>8 DEF Reporting

\* Read with news.  If another tracker was busy, they overlap from now on.
LEMMA ReadsNews ==
  ASSUME TypeOK, Reporting, NEW t \in Trackers, At(t, "read"), News, Reported,
         At(t, "store")', tracker'[t].report = Current,
         overlapped' = (overlapped \/ \E s \in Trackers : Busy(s)),
         \A s \in Trackers \ {t} : tracker'[s] = tracker[s]
  PROVE  Reporting' /\ (EndOnItsWay => EndOnItsWay')
<1>0. \A s \in Trackers \ {t} : (Busy(s)' <=> Busy(s)) /\ (At(s, "send")' <=> At(s, "send"))
  BY DEF Busy, At
<1>1. ~ At(t, "send")' /\ Busy(t)' /\ ~ At(t, "send")
  BY DEF At, Busy
<1>2. Milestone' = Milestone
  BY DEF Reported, scan, Milestone, Percent
<1>3. Current.milestone = Milestone /\ Milestone \in Int
  BY CurrentType, MilestoneType DEF TypeOK
<1>4. NothingAhead'
  BY <1>0, <1>2, <1>3 DEF Reporting, NothingAhead, Reported, chat
<1>5. ~ overlapped' => ~ overlapped /\ \A s \in Trackers : ~ Busy(s)
  BY DEF TypeOK
<1>6. OneBusy'
  BY <1>0, <1>5 DEF OneBusy
<1>7. NewsIsFresh'
  <2> SUFFICES ASSUME ~ overlapped', NEW s \in Trackers, Busy(s)'
               PROVE  /\ At(s, "send")' => tracker'[s].report = report'
                      /\ told'.milestone <= tracker'[s].report.milestone
                      /\ unsent' \/ tracker'[s].report # told'
    BY DEF NewsIsFresh
  <2>1. s = t /\ ~ overlapped
    BY <1>0, <1>5
  <2>2. told.milestone <= Milestone /\ told' = told
    BY DEF Reporting, NothingAhead, Reported, chat
  <2>3. unsent \/ told = report
    BY <1>5, <2>1 DEF Reporting, InStep, Busy
  <2> QED BY <1>1, <1>3, <2>1, <2>2, <2>3 DEF News, Reported
<1>8. InStep'
  BY <1>0, <1>1 DEF Reporting, InStep, Reported, chat
<1>9. EndOnItsWay => EndOnItsWay'
  BY <1>0, <1>1 DEF EndOnItsWay, Reported, chat
<1>10. EndStored'
  BY <1>9 DEF Reporting, EndStored, Reported
<1> QED BY <1>4, <1>6, <1>7, <1>8, <1>9, <1>10 DEF Reporting

\* Store: the report is stored, and about to be sent.
LEMMA StoresReport ==
  ASSUME TypeOK, Reporting, NEW t \in Trackers, At(t, "store"),
         UNCHANGED <<scan, chat, unsent, overlapped>>,
         report' = tracker[t].report, At(t, "send")', tracker'[t].report = tracker[t].report,
         \A s \in Trackers \ {t} : tracker'[s] = tracker[s]
  PROVE  Reporting' /\ (EndOnItsWay => EndOnItsWay')
<1>0. \A s \in Trackers : Busy(s)' <=> Busy(s)
  BY DEF Busy, At
<1>1. \A s \in Trackers : tracker'[s].report = tracker[s].report
  OBVIOUS
<1>2. Milestone' = Milestone
  BY DEF scan, Milestone, Percent
<1>3. NothingAhead'
  BY <1>0, <1>1, <1>2 DEF Reporting, NothingAhead, chat
<1>4. OneBusy'
  BY <1>0 DEF Reporting, OneBusy
<1>5. NewsIsFresh'
  <2> SUFFICES ASSUME ~ overlapped, NEW s \in Trackers, Busy(s)
               PROVE  /\ At(s, "send")' => tracker'[s].report = report'
                      /\ told'.milestone <= tracker'[s].report.milestone
                      /\ unsent' \/ tracker'[s].report # told'
    BY <1>0 DEF NewsIsFresh
  <2>1. Busy(t)
    BY DEF Busy
  <2>2. s = t
    BY <2>1 DEF Reporting, OneBusy
  <2>3. told.milestone <= tracker[t].report.milestone /\ (unsent \/ tracker[t].report # told)
    BY <2>1 DEF Reporting, NewsIsFresh
  <2> QED BY <2>2, <2>3 DEF chat
<1>6. InStep'
  BY DEF InStep
<1>7. EndOnItsWay => EndOnItsWay'
  BY <1>1 DEF EndOnItsWay, At, chat
<1>8. EndStored'
  BY DEF EndStored, EndOnItsWay
<1> QED BY <1>3, <1>4, <1>5, <1>6, <1>7, <1>8 DEF Reporting

\* A report is sent, or its sending was interrupted.
LEMMA SendsReport ==
  ASSUME TypeOK, Reporting, NEW t \in Trackers, At(t, "send"), ~ Busy(t)',
         UNCHANGED <<scan, report, overlapped>>, unsent \in BOOLEAN, unsent' \in BOOLEAN,
         \/ Show(tracker[t].report) /\ unsent' = unsent
         \/ (Show(tracker[t].report) \/ UNCHANGED chat) /\ unsent' = TRUE,
         \A s \in Trackers \ {t} : tracker'[s] = tracker[s]
  PROVE  Reporting' /\ (EndOnItsWay => EndOnItsWay')
<1>0. \A s \in Trackers : Busy(s)' => s # t /\ Busy(s) /\ tracker'[s] = tracker[s]
  BY DEF Busy, At
<1>1. \A s \in Trackers \ {t} : At(s, "send") => At(s, "send")'
  BY DEF At
<1>2. Milestone' = Milestone
  BY DEF scan, Milestone, Percent
<1>3. Busy(t)
  BY DEF Busy
<1>4. told' = told \/ told' = tracker[t].report
  BY DEF Show, chat
<1>5. NothingAhead'
  BY <1>0, <1>2, <1>3, <1>4 DEF Reporting, NothingAhead
<1>6. OneBusy'
  BY <1>0 DEF Reporting, OneBusy
<1>7. NewsIsFresh'
  BY <1>0, <1>3 DEF Reporting, OneBusy, NewsIsFresh
<1>8. InStep'
  BY <1>3 DEF Reporting, NewsIsFresh, InStep, Show
<1>9. EndOnItsWay => EndOnItsWay'
  BY <1>1 DEF EndOnItsWay, Show, chat, TypeOK
<1>10. EndStored'
  BY <1>9 DEF Reporting, EndStored
<1> QED BY <1>5, <1>6, <1>7, <1>8, <1>9, <1>10 DEF Reporting

-----------------------------------------------------------------------------
(* Every action.                                                           *)

\* What a step must establish for the chain of trackers to go on.
LEMMA ChainKept ==
  ASSUME Chain, promised' => promised \/ GoesOn', stopped => stopped',
         EndOnItsWay => EndOnItsWay', overlapped => overlapped', report' = report,
         GoesOn => stopped' \/ GoesOn' \/ CameToEnd'
  PROVE  Chain'
  BY DEF Chain, CameToEnd

\* What a step of t keeps of the other trackers' chains.
LEMMA OthersAlive ==
  ASSUME NEW t \in Trackers, ~ Alive(t), queue' = queue,
         \A s \in Trackers \ {t} : tracker'[s] = tracker[s]
  PROVE  GoesOn => GoesOn'
  BY DEF GoesOn, Alive, At

\* A message that waits.
LEMMA MessageGoesOn == queue' \in Nat /\ queue' > 0 => GoesOn'
  BY DEF GoesOn

\* A tracker that has more to do.
LEMMA TrackerGoesOn == ASSUME NEW t \in Trackers, Alive(t)' PROVE GoesOn'
  BY DEF GoesOn

\* The invariant after a step of a tracker, from what it did to each part.
LEMMA TrackerStep ==
  ASSUME IInv, Reporting', Chain', tracker' \in [Trackers -> Trackings],
         UNCHANGED <<scan, saved, enabled, handler, requests, promised>>,
         report' \in Reports \cup {NoReport}, told' \in Reports \cup {NoReport},
         queue' \in Nat, failures' \in 0..MaxFailures,
         toldEnd' \in BOOLEAN, overlapped' \in BOOLEAN, unsent' \in BOOLEAN,
         stopped' \in BOOLEAN
  PROVE  IInv'
<1>1. TypeOK'
  BY DEF IInv, TypeOK, ScanTypeOK, scan
<1>2. EndedIsWhole'
  BY DEF IInv, EndedIsWhole, scan
<1> QED BY <1>1, <1>2 DEF IInv, Reporting

\* Take: the message is now a tracker at work.
LEMMA TakeKeeps ==
  ASSUME IInv, NEW t \in Trackers, Take(t)
  PROVE  IInv'
<1>1. TypeOK /\ Reporting /\ Chain
  BY DEF IInv, Reporting
<1>2. /\ tracker' \in [Trackers -> Trackings] /\ tracker'[t].pc = "read"
      /\ \A s \in Trackers \ {t} : tracker'[s] = tracker[s]
  BY <1>1, BecomeTracker DEF Take, Goto, Stages
<1>3. Reporting' /\ (EndOnItsWay => EndOnItsWay')
  BY <1>1, <1>2, WithoutReport DEF Take, At, Busy, Reported, TypeOK
<1>4. GoesOn'
  BY <1>2, TrackerGoesOn DEF Alive, At
<1>5. Chain'
  BY <1>1, <1>3, <1>4, ChainKept DEF Take
<1>6. queue' \in Nat
  BY <1>1 DEF Take, TypeOK
<1> QED BY <1>1, <1>2, <1>3, <1>5, <1>6, TrackerStep DEF Take, TypeOK, counts, chat

\* Read: without a destination it is stopped, without news it goes on or came
\* to the end, with news it has a report.
LEMMA ReadKeeps ==
  ASSUME IInv, NEW t \in Trackers, Read(t)
  PROVE  IInv'
<1>1. TypeOK /\ Reporting /\ Chain
  BY DEF IInv, Reporting
<1>2. overlapped' = (overlapped \/ \E s \in Trackers : Busy(s)) /\ overlapped' \in BOOLEAN
  BY <1>1 DEF Read, TypeOK
<1>3. At(t, "read") /\ Reported
  BY DEF Read, Reported
<1>4. UNCHANGED <<saved, enabled, handler, queue, counts, promised>>
  BY DEF Read
<1>5. Current \in Reports /\ Current.status = status
  BY <1>1, CurrentType DEF TypeOK
<1>6. CASE ~ enabled
  <2>1. Goto(t, "ack") /\ stopped' = TRUE
    BY <1>6 DEF Read
  <2>2. /\ tracker' \in [Trackers -> Trackings] /\ tracker'[t].pc = "ack"
        /\ \A s \in Trackers \ {t} : tracker'[s] = tracker[s]
    BY <1>1, <2>1, BecomeTracker DEF Goto, Stages
  <2>3. Reporting'
    BY <1>1, <1>2, <1>3, <2>2, WithoutReport DEF At, Busy, TypeOK
  <2>4. Chain'
    BY <2>1 DEF Chain
  <2> QED BY <1>1, <1>2, <1>3, <1>4, <2>1, <2>2, <2>3, <2>4, TrackerStep
          DEF Reported, TypeOK, counts, chat
<1>7. CASE enabled /\ ~ News
  <2>1. Goto(t, After(Current)) /\ stopped' = stopped
    BY <1>7 DEF Read
  <2>2. PICK pc \in {"ack", "resend"} : pc = After(Current)
    BY DEF After
  <2>3. /\ tracker' \in [Trackers -> Trackings] /\ tracker'[t].pc = pc
        /\ \A s \in Trackers \ {t} : tracker'[s] = tracker[s]
    BY <1>1, <2>1, <2>2, BecomeTracker DEF Goto, Stages
  <2>4. Reporting' /\ (EndOnItsWay => EndOnItsWay')
    BY <1>1, <1>2, <1>3, <2>3, WithoutReport DEF At, Busy, TypeOK
  <2>5. GoesOn' \/ CameToEnd'
    <3>1. CASE Current.status \in Terminal
      <4>1. report = Current /\ report' = report
        BY <1>3, <1>7 DEF News, Reported
      <4>2. EndOnItsWay
        BY <1>1, <3>1, <4>1 DEF Reporting, EndStored
      <4> QED BY <2>4, <3>1, <4>1, <4>2 DEF CameToEnd
    <3>2. CASE Current.status \notin Terminal
      <4>1. Alive(t)'
        BY <2>2, <2>3, <3>2 DEF After, Alive, At
      <4> QED BY <4>1, TrackerGoesOn
    <3> QED BY <3>1, <3>2
  <2>6. Chain'
    BY <2>5 DEF Chain
  <2> QED BY <1>1, <1>2, <1>3, <1>4, <2>1, <2>3, <2>4, <2>6, TrackerStep
          DEF Reported, TypeOK, counts, chat
<1>8. CASE enabled /\ News
  <2>1. Become(t, "store", Current) /\ stopped' = stopped
    BY <1>8 DEF Read
  <2>2. /\ tracker' \in [Trackers -> Trackings]
        /\ tracker'[t].pc = "store" /\ tracker'[t].report = Current
        /\ \A s \in Trackers \ {t} : tracker'[s] = tracker[s]
    BY <1>1, <1>5, <2>1, BecomeTracker DEF Stages
  <2>3. Reporting'
    BY <1>1, <1>2, <1>3, <1>8, <2>2, ReadsNews DEF At
  <2>4. GoesOn'
    BY <2>2, TrackerGoesOn DEF Alive, At
  <2>5. Chain'
    BY <2>4 DEF Chain
  <2> QED BY <1>1, <1>2, <1>3, <1>4, <2>1, <2>2, <2>3, <2>5, TrackerStep
          DEF Reported, TypeOK, counts, chat
<1> QED BY <1>6, <1>7, <1>8

\* Store: the chain goes on, or its last report is stored and on its way.
LEMMA StoreKeeps ==
  ASSUME IInv, NEW t \in Trackers, Store(t)
  PROVE  IInv'
<1>1. TypeOK /\ Reporting /\ Chain
  BY DEF IInv, Reporting
<1>2. PICK r \in Reports \cup {NoReport} : r = tracker[t].report
  BY <1>1 DEF TypeOK, Trackings
<1>3. /\ tracker' \in [Trackers -> Trackings]
      /\ tracker'[t].pc = "send" /\ tracker'[t].report = r
      /\ \A s \in Trackers \ {t} : tracker'[s] = tracker[s]
  BY <1>1, <1>2, BecomeTracker DEF Store, Stages
<1>4. report' = r /\ UNCHANGED <<scan, chat, unsent, overlapped, queue>>
  BY <1>2 DEF Store, Stored
<1>5. Reporting'
  BY <1>1, <1>2, <1>3, <1>4, StoresReport DEF Store, At
<1>6. GoesOn' \/ CameToEnd'
  <2>1. CASE r.status \in Terminal
    BY <1>3, <1>4, <2>1 DEF CameToEnd, EndOnItsWay, At
  <2>2. CASE r.status \notin Terminal
    <3>1. Alive(t)'
      BY <1>3, <2>2 DEF Alive, At
    <3> QED BY <3>1, TrackerGoesOn
  <2> QED BY <2>1, <2>2
<1>7. Chain'
  BY <1>6 DEF Chain
<1> QED BY <1>1, <1>2, <1>3, <1>4, <1>5, <1>7, TrackerStep DEF Store, TypeOK, counts, chat

\* Send: the chain goes on, or its last report has been shown.
LEMMA SendKeeps ==
  ASSUME IInv, NEW t \in Trackers, Send(t)
  PROVE  IInv'
<1>1. TypeOK /\ Reporting /\ Chain
  BY DEF IInv, Reporting
<1>2. PICK r \in Reports \cup {NoReport} : r = tracker[t].report
  BY <1>1 DEF TypeOK, Trackings
<1>3. PICK pc \in {"ack", "resend"} : pc = After(r)
  BY DEF After
<1>4. /\ tracker' \in [Trackers -> Trackings] /\ tracker'[t].pc = pc
      /\ \A s \in Trackers \ {t} : tracker'[s] = tracker[s]
  BY <1>1, <1>2, <1>3, BecomeTracker DEF Send, Goto, Stages
<1>5. /\ Show(r)
      /\ UNCHANGED <<scan, saved, enabled, report, handler, queue, counts, promised,
                     overlapped, unsent, stopped>>
  BY <1>2 DEF Send
<1>6. Reporting' /\ (EndOnItsWay => EndOnItsWay')
  BY <1>1, <1>2, <1>4, <1>5, SendsReport DEF Send, At, Busy, TypeOK
<1>7. GoesOn => GoesOn'
  <2>1. CASE r.status \in Terminal
    <3>1. ~ Alive(t)
      BY <1>2, <2>1 DEF Send, Alive, At
    <3> QED BY <1>4, <1>5, <3>1, OthersAlive
  <2>2. CASE r.status \notin Terminal
    <3>1. Alive(t)'
      BY <1>3, <1>4, <2>2 DEF After, Alive, At
    <3> QED BY <3>1, TrackerGoesOn
  <2> QED BY <2>1, <2>2
<1>8. Chain'
  BY <1>1, <1>5, <1>6, <1>7, ChainKept
<1>9. told' \in Reports \cup {NoReport} /\ toldEnd' \in BOOLEAN
  BY <1>1, <1>2, <1>5 DEF Show, TypeOK
<1> QED BY <1>1, <1>4, <1>5, <1>6, <1>8, <1>9, TrackerStep DEF TypeOK, counts

\* Resend and Ack: a message follows the tracker, or none has to.
LEMMA ResendKeeps ==
  ASSUME IInv, NEW t \in Trackers, Resend(t) \/ Ack(t)
  PROVE  IInv'
<1>1. TypeOK /\ Reporting /\ Chain
  BY DEF IInv, Reporting
<1>2. PICK pc \in {"ack", "idle"} : Goto(t, pc)
  BY DEF Resend, Ack, Goto
<1>3. /\ tracker' \in [Trackers -> Trackings] /\ tracker'[t].pc = pc
      /\ \A s \in Trackers \ {t} : tracker'[s] = tracker[s]
  BY <1>1, <1>2, BecomeTracker DEF Goto, Stages
<1>4. UNCHANGED <<scan, saved, enabled, report, handler, chat, counts, promised,
                  overlapped, unsent, stopped>>
  BY DEF Resend, Ack
<1>5. Reporting' /\ (EndOnItsWay => EndOnItsWay')
  BY <1>1, <1>3, <1>4, WithoutReport DEF Resend, Ack, At, Busy, Reported, TypeOK
<1>6. queue' \in Nat /\ (GoesOn => GoesOn')
  <2>1. CASE Resend(t)
    BY <1>1, <2>1, MessageGoesOn DEF Resend, TypeOK
  <2>2. CASE Ack(t)
    <3>1. ~ Alive(t) /\ queue' = queue
      BY <2>2 DEF Ack, Alive, At
    <3> QED BY <1>1, <1>3, <3>1, OthersAlive DEF TypeOK
  <2> QED BY <2>1, <2>2
<1>7. Chain'
  BY <1>1, <1>4, <1>5, <1>6, ChainKept
<1> QED BY <1>1, <1>3, <1>4, <1>5, <1>6, <1>7, TrackerStep DEF TypeOK, counts, chat

\* A tracker that raises or dies: its chain is stopped, or its message is back.
LEMMA FailureKeeps ==
  ASSUME IInv, NEW t \in Trackers, Raise(t) \/ Die(t)
  PROVE  IInv'
<1>1. TypeOK /\ Reporting /\ Chain
  BY DEF IInv, Reporting
<1>2. /\ tracker' \in [Trackers -> Trackings] /\ tracker'[t].pc = "idle"
      /\ \A s \in Trackers \ {t} : tracker'[s] = tracker[s]
  BY <1>1, BecomeTracker DEF Raise, Die, Goto, Stages
<1>3. UNCHANGED <<scan, saved, enabled, report, handler, requests, promised, overlapped>>
  BY DEF Raise, Die
<1>4. PICK r \in Reports \cup {NoReport} : r = tracker[t].report
  BY <1>1 DEF TypeOK, Trackings
<1>5. /\ At(t, "send") => unsent' = TRUE /\ (UNCHANGED chat \/ Show(r))
      /\ ~ At(t, "send") => UNCHANGED <<chat, unsent>>
  BY <1>4 DEF Raise, Die, Interrupted
<1>6. Reporting'
  <2>1. CASE At(t, "send")
    BY <1>1, <1>2, <1>3, <1>4, <1>5, <2>1, SendsReport DEF At, Busy, TypeOK
  <2>2. CASE ~ At(t, "send")
    BY <1>1, <1>2, <1>3, <1>5, <2>2, WithoutReport DEF At, Busy, Reported, TypeOK
  <2> QED BY <2>1, <2>2
<1>7. queue' \in Nat /\ stopped' \in BOOLEAN /\ (stopped' \/ GoesOn')
  <2>1. queue \in Nat /\ stopped \in BOOLEAN
    BY <1>1 DEF TypeOK
  <2>2. \/ stopped' = TRUE /\ queue' = queue
        \/ queue' = queue + 1 /\ stopped' = stopped
    BY DEF Raise, Die
  <2>3. queue' \in Nat /\ (queue' = queue + 1 => queue' > 0)
    BY <2>1, <2>2
  <2>4. queue' = queue + 1 => GoesOn'
    BY <2>3, MessageGoesOn
  <2> QED BY <2>1, <2>2, <2>3, <2>4
<1>8. Chain'
  BY <1>7 DEF Chain
<1>9. /\ told' \in Reports \cup {NoReport} /\ toldEnd' \in BOOLEAN
      /\ unsent' \in BOOLEAN /\ overlapped' \in BOOLEAN
  BY <1>1, <1>3, <1>4, <1>5 DEF Show, chat, TypeOK
<1>10. failures' \in 0..MaxFailures
  BY <1>1, BoundsAssumption DEF Raise, Die, TypeOK
<1> QED BY <1>1, <1>2, <1>3, <1>6, <1>7, <1>8, <1>9, <1>10, TrackerStep DEF TypeOK

\* Scan, Switch and the commands leave the trackers and the reports alone.
LEMMA WorldKeeps ==
  ASSUME IInv,
         \/ Scan \/ Switch
         \/ \E h \in Handlers : AddCollection(h) \/ ScanAgain(h) \/ Publish(h) \/ PublishRaises(h)
  PROVE  IInv'
<1>1. TypeOK /\ EndedIsWhole /\ Reporting /\ Chain
  BY DEF IInv, Reporting
<1>2. UNCHANGED <<report, tracker, chat, overlapped, unsent, stopped>>
  BY DEF Scan, Switch, AddCollection, ScanAgain, Command, Publish, PublishRaises
<1>3. ScanTypeOK' /\ EndedIsWhole' /\ Milestone' >= Milestone
  <2>1. CASE Scan
    BY <1>1, <2>1, ScanSteps DEF Scan, TypeOK
  <2>2. CASE ~ Scan
    <3>1. UNCHANGED scan
      BY <2>2 DEF Switch, AddCollection, ScanAgain, Command, Publish, PublishRaises
    <3>2. Milestone' = Milestone /\ Milestone \in Int
      BY <1>1, <3>1, MilestoneType DEF Milestone, Percent, scan, TypeOK
    <3> QED BY <1>1, <3>1, <3>2 DEF TypeOK, ScanTypeOK, EndedIsWhole, scan
  <2> QED BY <2>1, <2>2
<1>4. /\ queue' \in Nat /\ queue' >= queue
      /\ promised' \in BOOLEAN /\ (promised' => promised \/ GoesOn')
  <2>1. CASE \E h \in Handlers : Publish(h)
    BY <1>1, <2>1, MessageGoesOn DEF Publish, TypeOK
  <2>2. CASE ~ \E h \in Handlers : Publish(h)
    BY <1>1, <2>2 DEF Scan, Switch, AddCollection, ScanAgain, Command, PublishRaises, TypeOK
  <2> QED BY <2>1, <2>2
<1>5. TypeOK'
  <2>1. /\ saved' \in BOOLEAN /\ enabled' \in BOOLEAN
        /\ handler' \in [Handlers -> {"idle", "publish"}]
    BY <1>1 DEF Scan, Switch, AddCollection, ScanAgain, Command, Publish, PublishRaises, TypeOK
  <2>2. requests' \in 0..MaxRequests /\ failures' \in 0..MaxFailures
    BY <1>1, BoundsAssumption
       DEF Scan, Switch, AddCollection, ScanAgain, Command, Publish, PublishRaises, TypeOK, counts
  <2> QED BY <1>1, <1>2, <1>3, <1>4, <2>1, <2>2 DEF TypeOK, chat
<1>6. Reporting' /\ (EndOnItsWay => EndOnItsWay')
  <2>1. NothingAhead'
    <3>1. \A r \in Reports \cup {NoReport} : r.milestone <= Milestone => r.milestone <= Milestone'
      <4>1. Milestone \in Int /\ Milestone' \in Int
        <5>1. (ScanTypeOK => Milestone \in 0..100)'
          BY MilestoneType, PTL
        <5> QED BY <1>1, <1>3, <5>1, MilestoneType DEF TypeOK
      <4> QED BY <1>3, <4>1, ReportType
    <3> QED BY <1>1, <1>2, <3>1 DEF Reporting, NothingAhead, Busy, At, chat, TypeOK, Trackings
  <2>2. OneBusy' /\ NewsIsFresh' /\ InStep'
    BY <1>1, <1>2 DEF Reporting, OneBusy, NewsIsFresh, InStep, Busy, At, chat
  <2>3. EndOnItsWay => EndOnItsWay'
    BY <1>2 DEF EndOnItsWay, At, chat
  <2>4. EndStored'
    BY <1>1, <1>2, <2>3 DEF Reporting, EndStored
  <2> QED BY <2>1, <2>2, <2>3, <2>4 DEF Reporting
<1>7. GoesOn => GoesOn'
  BY <1>1, <1>2, <1>4 DEF GoesOn, Alive, At, TypeOK
<1>8. Chain'
  BY <1>1, <1>2, <1>4, <1>6, <1>7, ChainKept
<1> QED BY <1>3, <1>5, <1>6, <1>8 DEF IInv, Reporting

-----------------------------------------------------------------------------

\* Nothing requested, nothing read, nothing told.
LEMMA InitIInv == Init => IInv
<1> SUFFICES ASSUME Init PROVE IInv
  OBVIOUS
<1>1. \A t \in Trackers : tracker[t].pc = "idle"
  BY DEF Init, Idle
<1>2. ScanTypeOK
  BY DEF Init, ScanInit, ScanTypeOK, Statuses
<1>3. TypeOK
  <2>1. tracker \in [Trackers -> Trackings]
    BY DEF Init, Idle, Trackings, Stages
  <2>2. handler \in [Handlers -> {"idle", "publish"}]
    BY DEF Init
  <2>3. requests \in 0..MaxRequests /\ failures \in 0..MaxFailures
    BY BoundsAssumption DEF Init
  <2> QED BY <1>2, <2>1, <2>2, <2>3 DEF Init, TypeOK
<1>4. EndedIsWhole
  BY DEF Init, ScanInit, EndedIsWhole, Ended
<1>5. NothingAhead
  <2>1. told.milestone = -1 /\ Milestone \in 0..100
    BY <1>2, MilestoneType DEF Init, NoReport
  <2> QED BY <1>1, <2>1 DEF NothingAhead, Busy, At
<1>6. OneBusy /\ NewsIsFresh
  BY <1>1 DEF OneBusy, NewsIsFresh, Busy, At
<1>7. InStep /\ EndStored /\ Chain
  BY DEF Init, InStep, EndStored, Chain, NoReport, Terminal
<1> QED BY <1>3, <1>4, <1>5, <1>6, <1>7 DEF IInv

\* Every step keeps the invariant.
LEMMA StepIInv == IInv /\ [Next]_vars => IInv'
<1> SUFFICES ASSUME IInv, [Next]_vars PROVE IInv'
  OBVIOUS
<1>1. ASSUME NEW t \in Trackers, Step(t) \/ Raise(t) \/ Die(t)
      PROVE  IInv'
  BY <1>1, TakeKeeps, ReadKeeps, StoreKeeps, SendKeeps, ResendKeeps, FailureKeeps DEF Step
<1>2. CASE UNCHANGED vars
  <2>1. UNCHANGED <<TypeOK, EndedIsWhole, NothingAhead>>
    BY <1>2 DEF vars, scan, chat, counts, TypeOK, ScanTypeOK, EndedIsWhole, NothingAhead,
                Milestone, Percent, Busy, At
  <2>2. UNCHANGED <<OneBusy, NewsIsFresh, InStep>>
    BY <1>2 DEF vars, scan, chat, OneBusy, NewsIsFresh, InStep, Busy, At
  <2>3. UNCHANGED <<EndStored, Chain>>
    BY <1>2 DEF vars, scan, chat, EndStored, Chain, GoesOn, CameToEnd, EndOnItsWay, Alive, At
  <2> QED BY <2>1, <2>2, <2>3 DEF IInv
<1> QED BY <1>1, <1>2, WorldKeeps DEF Next

\* The invariant holds in every run.
THEOREM Invariance == Spec => []IInv
  BY InitIInv, StepIInv, PTL DEF Spec

\* Reports and the rows they are made of keep their types: a milestone is a
\* percentage for a scan of any length.
THEOREM TypeCorrect == Spec => []TypeOK
<1>1. IInv => TypeOK
  BY DEF IInv
<1> QED BY Invariance, <1>1, PTL

\* A command that answered "queued" has the end of the scan told, unless a
\* tracker was stopped or a message did not get through.
THEOREM EndIsTold == Spec => []EndTold
<1>1. IInv => EndTold
  <2> SUFFICES ASSUME IInv, Silent, promised, ~ stopped, ~ unsent
               PROVE  toldEnd /\ (overlapped \/ told.status \in Ended)
    BY DEF EndTold
  <2>1. \A t \in Trackers : tracker[t].pc = "idle"
    BY DEF Silent, At
  <2>2. ~ GoesOn
    BY <2>1 DEF Silent, GoesOn, Alive, At
  <2>3. toldEnd /\ (overlapped \/ report.status \in Terminal)
    BY <2>1, <2>2 DEF IInv, Chain, CameToEnd, EndOnItsWay, At
  <2>4. overlapped \/ told = report
    BY <2>1 DEF IInv, InStep, At
  <2> QED BY <2>3, <2>4, ReportType DEF IInv, TypeOK
<1> QED BY Invariance, <1>1, PTL

\* The stored report is the one the chat shows, if no trackers overlapped and
\* every message was sent.
THEOREM StoredIsTold == Spec => []InStep
<1>1. IInv => InStep
  BY DEF IInv
<1> QED BY Invariance, <1>1, PTL

\* Under the same conditions no report is repeated and none goes back.
THEOREM ReportsGoForward == Spec => ReportsAdvance
<1> DEFINE Forward ==
      \A t \in Trackers : At(t, "send") /\ ~ At(t, "send")' /\ ~ overlapped /\ ~ unsent' =>
        /\ told' # told
        /\ told'.milestone >= told.milestone
<1>1. IInv /\ [Next]_vars => [Forward]_vars
  <2> SUFFICES ASSUME IInv, Next, NEW t \in Trackers, At(t, "send"), ~ At(t, "send")',
                      ~ overlapped, ~ unsent'
               PROVE  told' # told /\ told'.milestone >= told.milestone
    OBVIOUS
  <2>1. \A s \in Trackers \ {t} : ~ (Step(s) \/ Raise(s) \/ Die(s))
    <3> SUFFICES ASSUME NEW s \in Trackers \ {t}, Step(s) \/ Raise(s) \/ Die(s)
                 PROVE  FALSE
      OBVIOUS
    <3>1. \E pc \in Stages, r \in Reports \cup {NoReport} : Become(s, pc, r)
      <4>1. NoReport \in Reports \cup {NoReport} /\ Current \in Reports \cup {NoReport}
        BY CurrentType DEF IInv, TypeOK
      <4>2. tracker[s].report \in Reports \cup {NoReport}
        BY DEF IInv, TypeOK, Trackings
      <4>3. \A r : After(r) \in Stages
        BY DEF After, Stages
      <4> QED BY <4>1, <4>2, <4>3
              DEF Step, Take, Read, Store, Send, Resend, Ack, Raise, Die, Goto, Stages
    <3>2. tracker'[t] = tracker[t]
      BY <3>1, BecomeTracker DEF IInv
    <3> QED BY <3>2 DEF At
  <2>2. tracker' # tracker
    BY DEF At
  <2>3. Step(t) \/ Raise(t) \/ Die(t)
    BY <2>1, <2>2 DEF Next, Scan, Switch, AddCollection, ScanAgain, Command, Publish, PublishRaises
  <2>4. Send(t)
    BY <2>3 DEF Step, Take, Read, Store, Resend, Ack, Raise, Die, Interrupted, At
  <2>5. told' = tracker[t].report /\ ~ unsent
    BY <2>4 DEF Send, Show
  <2>6. Busy(t) /\ NewsIsFresh
    BY DEF Busy, IInv
  <2> QED BY <2>5, <2>6, ReportType DEF NewsIsFresh, IInv, TypeOK, Trackings
<1>2. ReportsAdvance <=> [][Forward]_vars
  BY DEF ReportsAdvance
<1> HIDE DEF Forward
<1> QED BY Invariance, <1>1, <1>2, PTL DEF Spec

-----------------------------------------------------------------------------
(* Polling chains.                                                         *)

\* The trackers that work for a message, and the commands that are about to
\* publish one.
Pollers == {t \in Trackers : tracker[t].pc \notin {"idle", "ack"}}
Publishers == {h \in Handlers : handler[h] = "publish"}
Works(pc) == IF pc \in {"idle", "ack"} THEN 0 ELSE 1
Publishes(pc) == IF pc = "publish" THEN 1 ELSE 0

\* The polling chains of the subscription, waiting or at work, are no more than
\* its commands and its failures.
ChainsBounded ==
  queue + Cardinality(Pollers) + Cardinality(Publishers) <= requests + failures

ChainsInv == IsFiniteSet(Pollers) /\ IsFiniteSet(Publishers) /\ ChainsBounded

\* A tracker joins the pollers or leaves them; the others are as they were.
LEMMA PollersStep ==
  ASSUME TypeOK, ChainsInv, NEW t \in Trackers, NEW pc \in Stages,
         NEW r \in Reports \cup {NoReport}, Become(t, pc, r)
  PROVE  /\ IsFiniteSet(Pollers')
         /\ Cardinality(Pollers') \in Nat /\ Cardinality(Pollers) \in Nat
         /\ Cardinality(Pollers') =
              Cardinality(Pollers) - Works(tracker[t].pc) + Works(pc)
<1>1. /\ tracker'[t].pc = pc
      /\ \A s \in Trackers \ {t} : tracker'[s] = tracker[s]
  BY BecomeTracker
<1>2. IsFiniteSet(Pollers) /\ Cardinality(Pollers) \in Nat
  BY FS_CardinalityType DEF ChainsInv
<1>5. t \in Pollers <=> tracker[t].pc \notin {"idle", "ack"}
  BY DEF Pollers
<1>3. CASE pc \in {"idle", "ack"}
  <2>1. Pollers' = Pollers \ {t}
    BY <1>1, <1>3 DEF Pollers
  <2>2. /\ IsFiniteSet(Pollers \ {t})
        /\ Cardinality(Pollers \ {t}) =
             IF t \in Pollers THEN Cardinality(Pollers) - 1 ELSE Cardinality(Pollers)
    BY <1>2, FS_RemoveElement
  <2>3. Cardinality(Pollers \ {t}) \in Nat
    BY <2>2, FS_CardinalityType
  <2> QED BY <1>2, <1>3, <1>5, <2>1, <2>2, <2>3 DEF Works
<1>4. CASE pc \notin {"idle", "ack"}
  <2>1. Pollers' = Pollers \cup {t}
    BY <1>1, <1>4 DEF Pollers
  <2>2. /\ IsFiniteSet(Pollers \cup {t})
        /\ Cardinality(Pollers \cup {t}) =
             IF t \in Pollers THEN Cardinality(Pollers) ELSE Cardinality(Pollers) + 1
    BY <1>2, FS_AddElement
  <2> QED BY <1>2, <1>4, <1>5, <2>1, <2>2 DEF Works
<1> QED BY <1>3, <1>4

\* A command begins to publish, or has published.
LEMMA PublishersStep ==
  ASSUME TypeOK, ChainsInv, NEW h \in Handlers, NEW pc \in {"idle", "publish"},
         handler' = [handler EXCEPT ![h] = pc]
  PROVE  /\ IsFiniteSet(Publishers')
         /\ Cardinality(Publishers') \in Nat /\ Cardinality(Publishers) \in Nat
         /\ Cardinality(Publishers') =
              Cardinality(Publishers) - Publishes(handler[h]) + Publishes(pc)
<1>1. handler'[h] = pc /\ \A g \in Handlers \ {h} : handler'[g] = handler[g]
  BY DEF TypeOK
<1>2. IsFiniteSet(Publishers) /\ Cardinality(Publishers) \in Nat
  BY FS_CardinalityType DEF ChainsInv
<1>3. h \in Publishers <=> handler[h] = "publish"
  BY DEF Publishers
<1>4. CASE pc = "idle"
  <2>1. Publishers' = Publishers \ {h}
    BY <1>1, <1>4 DEF Publishers
  <2>2. /\ IsFiniteSet(Publishers \ {h})
        /\ Cardinality(Publishers \ {h}) =
             IF h \in Publishers THEN Cardinality(Publishers) - 1 ELSE Cardinality(Publishers)
    BY <1>2, FS_RemoveElement
  <2>3. Cardinality(Publishers \ {h}) \in Nat
    BY <2>2, FS_CardinalityType
  <2> QED BY <1>2, <1>3, <1>4, <2>1, <2>2, <2>3 DEF Publishes
<1>5. CASE pc = "publish"
  <2>1. Publishers' = Publishers \cup {h}
    BY <1>1, <1>5 DEF Publishers
  <2>2. /\ IsFiniteSet(Publishers \cup {h})
        /\ Cardinality(Publishers \cup {h}) =
             IF h \in Publishers THEN Cardinality(Publishers) ELSE Cardinality(Publishers) + 1
    BY <1>2, FS_AddElement
  <2> QED BY <1>2, <1>3, <1>5, <2>1, <2>2 DEF Publishes
<1> QED BY <1>4, <1>5

\* A tracker takes one message, and puts back at most one; only a failure may
\* leave a message and its tracker's work for one.
LEMMA TrackerChains ==
  ASSUME IInv, ChainsInv, NEW t \in Trackers, Step(t) \/ Raise(t) \/ Die(t)
  PROVE  ChainsInv'
<1> DEFINE n == Cardinality(Pollers)
<1>1. TypeOK /\ queue \in Nat /\ requests \in Nat /\ failures \in Nat
  BY BoundsAssumption DEF IInv, TypeOK
<1>2. tracker[t] \in Trackings /\ tracker[t].report \in Reports \cup {NoReport}
  BY <1>1 DEF TypeOK, Trackings
<1>3. UNCHANGED <<handler, requests>>
  BY DEF Step, Take, Read, Store, Send, Resend, Ack, Raise, Die, counts
<1>4. IsFiniteSet(Publishers') /\ Cardinality(Publishers') = Cardinality(Publishers)
  BY <1>3 DEF Publishers, ChainsInv
<1>5. /\ Cardinality(Publishers) \in Nat /\ n \in Nat
      /\ n + queue + Cardinality(Publishers) <= requests + failures
  BY <1>1, FS_CardinalityType DEF ChainsInv, ChainsBounded
<1>6. /\ Works("idle") = 0 /\ Works("ack") = 0
      /\ \A pc : Works(pc) \in {0, 1}
      /\ \A pc \in {"read", "store", "send", "resend"} : Works(pc) = 1
  BY DEF Works
<1>7. ASSUME IsFiniteSet(Pollers'), Cardinality(Pollers') \in Nat,
             queue' \in Nat, failures' \in Nat,
             queue' + Cardinality(Pollers') + failures <= queue + n + failures'
      PROVE  ChainsInv'
  BY <1>1, <1>3, <1>4, <1>5, <1>7 DEF ChainsInv, ChainsBounded
<1>8. ASSUME NEW pc \in Stages, NEW r \in Reports \cup {NoReport}, Become(t, pc, r),
             queue' \in Nat, failures' \in Nat,
             queue' + Works(pc) + failures <= queue + Works(tracker[t].pc) + failures'
      PROVE  ChainsInv'
  <2>1. /\ IsFiniteSet(Pollers') /\ Cardinality(Pollers') \in Nat
        /\ Cardinality(Pollers') = n - Works(tracker[t].pc) + Works(pc)
    BY <1>1, <1>8, PollersStep
  <2>2. Works(tracker[t].pc) \in {0, 1} /\ Works(pc) \in {0, 1}
    BY <1>6
  <2>3. queue' + Cardinality(Pollers') + failures <= queue + n + failures'
    BY <1>1, <1>5, <1>8, <2>1, <2>2
  <2> QED BY <1>7, <1>8, <2>1, <2>3
<1>9. CASE Take(t)
  BY <1>1, <1>6, <1>8, <1>9 DEF Take, At, Goto, Stages, counts
<1>10. CASE Read(t)
  <2>1. \A r : After(r) \in Stages
    BY DEF After, Stages
  <2>2. PICK pc \in Stages, r \in Reports \cup {NoReport} : Become(t, pc, r)
    BY <1>1, <1>10, <2>1, CurrentType DEF Read, Goto, Stages, TypeOK
  <2>3. Works(tracker[t].pc) = 1 /\ UNCHANGED <<queue, failures>>
    BY <1>6, <1>10 DEF Read, At, counts
  <2> QED BY <1>1, <1>6, <1>8, <2>2, <2>3
<1>11. CASE Store(t)
  BY <1>1, <1>2, <1>6, <1>8, <1>11 DEF Store, At, Stages, counts
<1>12. CASE Send(t)
  <2>1. PICK pc \in Stages : Become(t, pc, NoReport)
    BY <1>12 DEF Send, Goto, After, Stages
  <2>2. Works(tracker[t].pc) = 1 /\ UNCHANGED <<queue, failures>>
    BY <1>6, <1>12 DEF Send, At, counts
  <2> QED BY <1>1, <1>6, <1>8, <2>1, <2>2
<1>13. CASE Resend(t)
  BY <1>1, <1>6, <1>8, <1>13 DEF Resend, At, Goto, Stages, counts
<1>14. CASE Ack(t)
  BY <1>1, <1>6, <1>8, <1>14 DEF Ack, At, Stages, counts
<1>15. CASE Raise(t) \/ Die(t)
  <2>1. /\ Become(t, "idle", NoReport) /\ failures' = failures + 1
        /\ queue' \in {queue, queue + 1}
    BY <1>15 DEF Raise, Die, Goto
  <2>2. "idle" \in Stages /\ Works(tracker[t].pc) \in {0, 1} /\ Works("idle") = 0
    BY <1>6 DEF Stages
  <2> QED BY <1>1, <1>8, <2>1, <2>2
<1> QED BY <1>9, <1>10, <1>11, <1>12, <1>13, <1>14, <1>15 DEF Step

\* A command publishes one tracking message, or raises and leaves at most one.
LEMMA WorldChains ==
  ASSUME IInv, ChainsInv,
         \/ Scan \/ Switch
         \/ \E h \in Handlers : AddCollection(h) \/ ScanAgain(h) \/ Publish(h) \/ PublishRaises(h)
  PROVE  ChainsInv'
<1>1. TypeOK /\ queue \in Nat /\ requests \in Nat /\ failures \in Nat
  BY BoundsAssumption DEF IInv, TypeOK
<1>2. UNCHANGED tracker
  BY DEF Scan, Switch, AddCollection, ScanAgain, Command, Publish, PublishRaises
<1>3. IsFiniteSet(Pollers') /\ Cardinality(Pollers') = Cardinality(Pollers)
  BY <1>2 DEF Pollers, ChainsInv
<1>4. /\ Cardinality(Pollers) \in Nat /\ Cardinality(Publishers) \in Nat
      /\ queue + Cardinality(Pollers) + Cardinality(Publishers) <= requests + failures
      /\ IsFiniteSet(Publishers)
  BY FS_CardinalityType DEF ChainsInv, ChainsBounded
<1>5. CASE Scan \/ Switch
  <2>1. UNCHANGED <<handler, queue, requests, failures>>
    BY <1>5 DEF Scan, Switch, counts
  <2>2. Publishers' = Publishers
    BY <2>1 DEF Publishers
  <2> QED BY <1>3, <1>4, <2>1, <2>2 DEF ChainsInv, ChainsBounded
<1>6. ASSUME NEW h \in Handlers, AddCollection(h) \/ ScanAgain(h)
      PROVE  ChainsInv'
  <2>1. /\ handler[h] = "idle" /\ handler' = [handler EXCEPT ![h] = "publish"]
        /\ requests' = requests + 1 /\ UNCHANGED <<queue, failures>>
    BY <1>6 DEF AddCollection, ScanAgain, Command
  <2>2. /\ IsFiniteSet(Publishers')
        /\ Cardinality(Publishers') =
             Cardinality(Publishers) - Publishes("idle") + Publishes("publish")
    <3>1. "publish" \in {"idle", "publish"}
      OBVIOUS
    <3> QED BY ONLY <1>1, <2>1, <3>1, ChainsInv, h \in Handlers, PublishersStep
  <2>3. Publishes("publish") = 1 /\ Publishes("idle") = 0
    BY DEF Publishes
  <2> QED BY <1>1, <1>3, <1>4, <2>1, <2>2, <2>3 DEF ChainsInv, ChainsBounded
<1>7. ASSUME NEW h \in Handlers, Publish(h) \/ PublishRaises(h)
      PROVE  ChainsInv'
  <2>1. /\ handler[h] = "publish" /\ handler' = [handler EXCEPT ![h] = "idle"]
        /\ requests' = requests /\ failures' \in {failures, failures + 1}
        /\ queue' \in {queue, queue + 1}
    BY <1>7 DEF Publish, PublishRaises, counts
  <2>2. /\ IsFiniteSet(Publishers')
        /\ Cardinality(Publishers') =
             Cardinality(Publishers) - Publishes("publish") + Publishes("idle")
    <3>1. "idle" \in {"idle", "publish"}
      OBVIOUS
    <3> QED BY ONLY <1>1, <2>1, <3>1, ChainsInv, h \in Handlers, PublishersStep
  <2>3. Publishes("publish") = 1 /\ Publishes("idle") = 0
    BY DEF Publishes
  <2> QED BY <1>1, <1>3, <1>4, <2>1, <2>2, <2>3 DEF ChainsInv, ChainsBounded
<1> QED BY <1>5, <1>6, <1>7

\* Trackers do not multiply: however often they send themselves again, however
\* messages are redelivered and however they overlap, a subscription has at most
\* one polling chain for each /add_collection and /scan and one more for each
\* failure (track_scan, apply_async before the acknowledgement).  A worker that
\* dies between the two doubles its chain, which the failures count.
THEOREM ChainsAreBounded == Spec => []ChainsBounded
<1>1. Init => ChainsInv
  <2> SUFFICES ASSUME Init PROVE ChainsInv
    OBVIOUS
  <2>1. Pollers = {} /\ Publishers = {}
    BY DEF Init, Idle, Pollers, Publishers
  <2>2. queue = 0 /\ requests = 0 /\ failures = 0
    BY DEF Init
  <2> QED BY <2>1, <2>2, FS_EmptySet DEF ChainsInv, ChainsBounded
<1>2. IInv /\ ChainsInv /\ [Next]_vars => ChainsInv'
  <2> SUFFICES ASSUME IInv, ChainsInv, [Next]_vars PROVE ChainsInv'
    OBVIOUS
  <2>1. CASE UNCHANGED vars
    BY <2>1 DEF vars, counts, ChainsInv, ChainsBounded, Pollers, Publishers
  <2> QED BY <2>1, TrackerChains, WorldChains DEF Next
<1>3. ChainsInv => ChainsBounded
  BY DEF ChainsInv
<1> QED BY <1>1, <1>2, <1>3, Invariance, PTL DEF Spec

\* What is left for a tracker to do, with a message that waits counted as 5: a
\* report of an unfinished scan is followed by another message.
Effort(k) ==
  LET unfinished == IF k.report.status \in Terminal THEN 0 ELSE 6
  IN CASE k.pc = "idle" -> 0
       [] k.pc = "ack" -> 1
       [] k.pc = "send" -> 2 + unfinished
       [] k.pc = "store" -> 3 + unfinished
       [] k.pc = "read" -> 4
       [] k.pc = "resend" -> 7

\* A step of a tracker leaves less to do, to it and the queue together.
Drains ==
  \A t \in Trackers : Step(t) /\ status \in Ended =>
    /\ 5 * queue' + Effort(tracker'[t]) < 5 * queue + Effort(tracker[t])
    /\ \A s \in Trackers \ {t} : tracker'[s] = tracker[s]

\* Once the scan has ended every step of every tracker brings the polling nearer
\* to its end, whatever reports were read before: no message is sent for one
\* that found the scan ended (track_scan, _notify).  Commands and failures, which
\* alone add to what is left, are finite.
THEOREM EndedScanDrains == Spec => [][Drains]_vars
<1>1. IInv /\ [Next]_vars => [Drains]_vars
  <2> SUFFICES ASSUME IInv, NEW t \in Trackers, Step(t), status \in Ended
               PROVE  /\ 5 * queue' + Effort(tracker'[t]) < 5 * queue + Effort(tracker[t])
                      /\ \A s \in Trackers \ {t} : tracker'[s] = tracker[s]
    BY DEF Drains
  <2>1. TypeOK /\ queue \in Nat /\ Current.status \in Terminal
    BY DEF IInv, TypeOK, Current, Ended, Terminal
  <2>2. /\ tracker[t] \in Trackings
        /\ tracker[t].report \in Reports \cup {NoReport}
        /\ Current \in Reports \cup {NoReport} /\ NoReport \in Reports \cup {NoReport}
    BY <2>1, CurrentType DEF TypeOK, Trackings
  <2>3. ASSUME NEW k
        PROVE  /\ k.pc = "idle" => Effort(k) = 0
               /\ k.pc = "ack" => Effort(k) = 1
               /\ k.pc = "send" /\ k.report.status \in Terminal => Effort(k) = 2
               /\ k.pc = "send" /\ k.report.status \notin Terminal => Effort(k) = 8
               /\ k.pc = "store" /\ k.report.status \in Terminal => Effort(k) = 3
               /\ k.pc = "store" /\ k.report.status \notin Terminal => Effort(k) = 9
               /\ k.pc = "read" => Effort(k) = 4
               /\ k.pc = "resend" => Effort(k) = 7
    BY DEF Effort
  <2>4. ASSUME NEW pc \in Stages, NEW r \in Reports \cup {NoReport}, Become(t, pc, r)
        PROVE  /\ tracker'[t].pc = pc /\ tracker'[t].report = r
               /\ \A s \in Trackers \ {t} : tracker'[s] = tracker[s]
    BY <2>1, <2>4, BecomeTracker
  <2>5. CASE Take(t)
    BY <2>1, <2>2, <2>3, <2>4, <2>5 DEF Take, At, Goto, Stages
  <2>6. CASE Read(t)
    <3>1. \/ Become(t, "ack", NoReport)
          \/ Become(t, "store", Current)
      BY <2>1, <2>6 DEF Read, Goto, After
    <3>2. UNCHANGED queue /\ tracker[t].pc = "read"
      BY <2>6 DEF Read, At
    <3> QED BY <2>1, <2>2, <2>3, <2>4, <3>1, <3>2 DEF Stages
  <2>7. CASE Store(t)
    <3>1. /\ Become(t, "send", tracker[t].report)
          /\ UNCHANGED queue /\ tracker[t].pc = "store"
      BY <2>7 DEF Store, At
    <3> QED BY <2>1, <2>2, <2>3, <2>4, <3>1 DEF Stages
  <2>8. CASE Send(t)
    <3>1. /\ tracker[t].report.status \in Terminal => Become(t, "ack", NoReport)
          /\ tracker[t].report.status \notin Terminal => Become(t, "resend", NoReport)
          /\ UNCHANGED queue /\ tracker[t].pc = "send"
      BY <2>8 DEF Send, Goto, After, At
    <3> QED BY <2>1, <2>2, <2>3, <2>4, <3>1 DEF Stages
  <2>9. CASE Resend(t)
    BY <2>1, <2>2, <2>3, <2>4, <2>9 DEF Resend, At, Goto, Stages
  <2>10. CASE Ack(t)
    BY <2>1, <2>2, <2>3, <2>4, <2>10 DEF Ack, At, Stages
  <2> QED BY <2>5, <2>6, <2>7, <2>8, <2>9, <2>10 DEF Step
<1> QED BY <1>1, Invariance, PTL DEF Spec

=============================================================================
