--------------------------- MODULE CollectionScan ---------------------------
(***************************************************************************)
(* The historical scan of one collection: copymint.ethereum.scan_collection*)
(* tasks on several indexer workers, their queue, and the rows they share  *)
(* in PostgreSQL.  A task finds the deployment block if nobody has, creates*)
(* or resumes the scan job, commits the mints and the checkpoint of one    *)
(* slice batch by batch, enriches the slice's mints, and sends the task    *)
(* again until the slice reaches the job's end.                            *)
(*                                                                         *)
(* The queue delivers at least once (acks_late, reject_on_worker_lost): a  *)
(* task whose worker dies is delivered again; one that raises is gone.     *)
(* The range scan itself is taken as RangeScan promises it.                *)
(***************************************************************************)
EXTENDS Integers

CONSTANTS
  Workers,
  Deployed,     \* the block that deployed the contract
  Mints,        \* the blocks in which the collection mints
  Refusals,     \* sets of them that may hold a log the decoder refuses
  SliceBlocks,  \* SCAN_SLICE_BLOCKS
  Codes,        \* quality warning codes
  MaxHead,      \* bound: the last block that is ever finalized
  MaxRequests,  \* bound: scan requests
  MaxCrashes,   \* bound: workers that die during a task
  MaxErrors     \* bound: provider, database and broker calls that raise

ASSUME ChainAssumption ==
  /\ Deployed \in Nat /\ MaxHead \in Nat /\ Mints \subseteq Nat
  /\ Refusals \subseteq SUBSET Mints
ASSUME SliceAssumption == SliceBlocks \in Nat \ {0}
ASSUME BoundsAssumption ==
  MaxRequests \in Nat /\ MaxCrashes \in Nat /\ MaxErrors \in Nat

VARIABLES
  head,        \* the finalized head of the chain
  refused,     \* the blocks with a log that decode_mint_log refuses
  deployment,  \* collections.deployment_block_number
  scanStatus,  \* collections.scan_status
  job,         \* the scan_jobs row
  checkpoint,  \* scan_checkpoints.last_committed_block_number
  events,      \* the mint_events of each block that mints
  queue,       \* scan_collection messages waiting
  task,        \* what each worker is doing
  requests, crashes, errors,  \* counts of what the bounds limit
  owed,        \* history: a request came, and no task was refused or raised since
  raced,       \* history: warnings were written that another task had read to
               \* write or to complete, or that came after the completion
  reopened,    \* history: the deployment block was saved when it was known
  abandoned    \* history: blocks a task committed and did not live to enrich

database == <<deployment, scanStatus, job, checkpoint, events>>
counts == <<requests, crashes, errors>>
marks == <<owed, raced, reopened, abandoned>>
vars == <<head, refused, database, queue, task, counts, marks>>

NoBlock == -1
NoJob == [status |-> "none", start |-> NoBlock, end |-> NoBlock, warnings |-> {}]

Stages == {"idle", "finalized", "probe", "deploy", "job", "insert", "scan", "pick",
           "enrich", "readWarnings", "writeWarnings", "readJob", "complete",
           "resend", "ack"}
Statuses == {"pending", "scanning", "complete", "quality_warning"}

\* The local variables of _scan_collection.  pos is the scanner's cursor, todo
\* the transactions still to enrich, seen and shown are what was read of the
\* job's warnings and of the collection's status.
Tasks == [pc : Stages, start : Int, final : Int, cursor : Int, pos : Int,
          sliceEnd : Int, fixedEnd : Int, todo : SUBSET Mints,
          codes : SUBSET Codes, seen : SUBSET Codes, shown : Statuses]
Idle == [pc |-> "idle", start |-> NoBlock, final |-> NoBlock, cursor |-> NoBlock,
         pos |-> NoBlock, sliceEnd |-> NoBlock, fixedEnd |-> NoBlock,
         todo |-> {}, codes |-> {}, seen |-> {}, shown |-> "pending"]

TypeOK ==
  /\ head \in 0..MaxHead
  /\ refused \in Refusals
  /\ deployment \in {NoBlock, Deployed}
  /\ scanStatus \in Statuses
  /\ job \in [status : {"none", "running", "completed"}, start : Int, end : Int,
              warnings : SUBSET Codes]
  /\ checkpoint \in Int
  /\ events \in [Mints -> {"absent", "recorded", "enriched"}]
  /\ queue \in Nat
  /\ task \in [Workers -> Tasks]
  /\ requests \in 0..MaxRequests /\ crashes \in 0..MaxCrashes /\ errors \in 0..MaxErrors
  /\ owed \in BOOLEAN /\ raced \in BOOLEAN /\ reopened \in BOOLEAN
  /\ abandoned \in SUBSET Mints

Init ==
  /\ head = 0
  /\ refused \in Refusals
  /\ deployment = NoBlock
  /\ scanStatus = "pending"
  /\ job = NoJob
  /\ checkpoint = NoBlock
  /\ events = [b \in Mints |-> "absent"]
  /\ queue = 0
  /\ task = [w \in Workers |-> Idle]
  /\ requests = 0 /\ crashes = 0 /\ errors = 0
  /\ owed = FALSE /\ raced = FALSE /\ reopened = FALSE
  /\ abandoned = {}

Least(a, b) == IF a <= b THEN a ELSE b
Most(a, b) == IF a >= b THEN a ELSE b

At(w, pc) == task[w].pc = pc
Become(w, t) == task' = [task EXCEPT ![w] = t]
Goto(w, pc) == Become(w, [task[w] EXCEPT !.pc = pc])

-----------------------------------------------------------------------------
(* The world outside the workers.                                          *)

HeadGrows ==
  /\ head < MaxHead
  /\ head' = head + 1
  /\ UNCHANGED <<refused, database, queue, task, counts, marks>>

\* /add_collection or /scan, in any workspace that saved the collection.
Request ==
  /\ requests < MaxRequests
  /\ requests' = requests + 1
  /\ queue' = queue + 1
  /\ owed' = TRUE
  /\ UNCHANGED <<head, refused, database, task, crashes, errors, raced, reopened,
                 abandoned>>

-----------------------------------------------------------------------------
(* A task, from its delivery to the job.                                   *)

\* A worker gets a message and reads the collection.
Take(w) ==
  /\ At(w, "idle") /\ queue > 0
  /\ queue' = queue - 1
  /\ Become(w, [Idle EXCEPT !.pc = "finalized", !.start = deployment])
  /\ UNCHANGED <<head, refused, database, counts, marks>>

ReadFinalized(w) ==
  /\ At(w, "finalized")
  /\ Become(w, [task[w] EXCEPT !.final = head,
       !.pc = IF task[w].start = NoBlock THEN "probe" ELSE "job"])
  /\ UNCHANGED <<head, refused, database, queue, counts, marks>>

\* An exception: the message is acknowledged, and nobody sends it again.
Raise(w) == Become(w, Idle) /\ UNCHANGED <<database, queue>>

\* EthereumCollectionDiscovery.probe, against a head of its own.
Probe(w) ==
  /\ At(w, "probe")
  /\ \/ /\ head >= Deployed
        /\ Become(w, [task[w] EXCEPT !.start = Deployed, !.pc = "deploy"])
        /\ UNCHANGED <<database, queue, owed>>
     \/ /\ head < Deployed                     \* no contract code
        /\ Raise(w)
        /\ owed' = FALSE
  /\ UNCHANGED <<head, refused, counts, raced, reopened, abandoned>>

SaveDeployment(w) ==
  /\ At(w, "deploy")
  /\ deployment' = task[w].start
  /\ scanStatus' = "scanning"
  /\ Goto(w, "job")
  /\ reopened' = (reopened \/ deployment # NoBlock)
  /\ UNCHANGED <<head, refused, job, checkpoint, events, queue, counts, owed, raced,
                 abandoned>>

ResumeAt(start) == IF checkpoint = NoBlock THEN start ELSE checkpoint + 1

\* The task goes on with the job's slice that begins after the checkpoint.  What
\* it read before to create the job is not used again.
BeginSlice(w, start, end) ==
  LET cursor == ResumeAt(start)
  IN  Become(w, [task[w] EXCEPT
        !.cursor = cursor, !.pos = cursor, !.fixedEnd = end,
        !.sliceEnd = Least(cursor + SliceBlocks - 1, end),
        !.start = NoBlock, !.final = NoBlock,
        !.pc = IF cursor <= end THEN "scan" ELSE "readJob"])

\* The select of the job: none, one to resume, or one that is completed.
OpenJob(w) ==
  /\ At(w, "job")
  /\ \/ job.status = "none" /\ Goto(w, "insert")
     \/ job.status = "running" /\ BeginSlice(w, job.start, job.end)
     \/ job.status = "completed" /\ Goto(w, "ack")
  /\ UNCHANGED <<head, refused, database, queue, counts, marks>>

\* The insert fails if another worker's came first, or on the CHECK that the
\* range is not empty.
InsertJob(w) ==
  /\ At(w, "insert")
  /\ \/ /\ job.status = "none" /\ task[w].start <= task[w].final
        /\ job' = [status |-> "running", start |-> task[w].start,
                   end |-> task[w].final, warnings |-> {}]
        /\ BeginSlice(w, task[w].start, task[w].final)
        /\ UNCHANGED <<deployment, scanStatus, checkpoint, events, queue, owed>>
     \/ /\ job.status # "none"
        /\ Raise(w)
        /\ UNCHANGED owed
     \/ /\ job.status = "none" /\ task[w].start > task[w].final
        /\ Raise(w)
        /\ owed' = FALSE
  /\ UNCHANGED <<head, refused, counts, raced, reopened, abandoned>>

-----------------------------------------------------------------------------
(* The slice.                                                              *)

\* ON CONFLICT DO NOTHING.  Mutant: a committed mint is written again.
RecordAgain(first, last) ==
  [b \in Mints |-> IF b \in first..last \ refused THEN "recorded" ELSE events[b]]
Record(first, last) ==
  [b \in Mints |-> IF b \in first..last \ refused /\ events[b] = "absent"
                   THEN "recorded" ELSE events[b]]

\* The upsert's WHERE.  Mutants: it is missing; the next block is stored.
ForwardAlways(last) == last
ForwardToNext(last) == Most(checkpoint, last + 1)
Forward(last) == Most(checkpoint, last)

\* A batch raises if a log in it is refused.  Mutant: such a log is skipped.
DecodedAlways(first, last) == TRUE
Decoded(first, last) == first..last \cap refused = {}

\* SqlAlchemyMintBatchConsumer.commit of the scanner's next batch: its mints
\* and the checkpoint in one transaction.
CommitBatch(w) ==
  /\ At(w, "scan")
  /\ \E last \in task[w].pos .. task[w].sliceEnd :
       /\ Decoded(task[w].pos, last)
       /\ events' = Record(task[w].pos, last)
       /\ checkpoint' = Forward(last)
       /\ Become(w, [task[w] EXCEPT !.pos = last + 1,
            !.pc = IF last = task[w].sliceEnd THEN "pick" ELSE "scan"])
  /\ UNCHANGED <<head, refused, deployment, scanStatus, job, queue, counts, marks>>

\* The mints a task has committed and not enriched.
InSlice(w, b) == b \in task[w].cursor .. task[w].sliceEnd
InHand(w) ==
  {b \in Mints : \/ At(w, "scan") /\ b \in task[w].cursor .. task[w].pos - 1
                 \/ At(w, "pick") /\ InSlice(w, b)
                 \/ At(w, "enrich") /\ b \in task[w].todo}

\* The task comes to a log that is refused, in this attempt as in the next one.
Refuse(w) ==
  /\ At(w, "scan")
  /\ ~ Decoded(task[w].pos, task[w].sliceEnd)
  /\ Raise(w)
  /\ owed' = FALSE
  /\ abandoned' = abandoned \cup InHand(w)
  /\ UNCHANGED <<head, refused, counts, raced, reopened>>

\* Where the task goes when nothing is left to enrich.
\* Mutants: the next slice is not sent; the scan ends one block early.
AfterSliceEarly(w) == IF task[w].sliceEnd >= task[w].fixedEnd - 1 THEN "readJob" ELSE "resend"
AfterSliceStops(w) == IF task[w].sliceEnd >= task[w].fixedEnd THEN "readJob" ELSE "ack"
AfterSlice(w) == IF task[w].sliceEnd >= task[w].fixedEnd THEN "readJob" ELSE "resend"
AfterEnrichment(w, codes) == IF codes # {} THEN "readWarnings" ELSE AfterSlice(w)

\* enrich_range: the slice's mints that are not enriched yet, ...
\* Mutant: the last block of the slice is left out.
UnenrichedButLast(w) ==
  {b \in Mints : InSlice(w, b) /\ b # task[w].sliceEnd /\ events[b] = "recorded"}
Unenriched(w) == {b \in Mints : InSlice(w, b) /\ events[b] = "recorded"}

PickMints(w) ==
  /\ At(w, "pick")
  /\ LET todo == Unenriched(w)
     IN  Become(w, [task[w] EXCEPT !.todo = todo,
           !.pc = IF todo = {} THEN AfterEnrichment(w, {}) ELSE "enrich"])
  /\ UNCHANGED <<head, refused, database, queue, counts, marks>>

\* ... one transaction after the other, with a warning if it has no trace.
EnrichMint(w) ==
  /\ At(w, "enrich")
  /\ \E b \in task[w].todo, found \in {{}} \cup {{c} : c \in Codes} :
       LET todo == task[w].todo \ {b}
           codes == task[w].codes \cup found
       IN  /\ events' = [events EXCEPT ![b] = "enriched"]
           /\ Become(w, [task[w] EXCEPT !.todo = todo, !.codes = codes,
                !.pc = IF todo = {} THEN AfterEnrichment(w, codes) ELSE "enrich"])
  /\ UNCHANGED <<head, refused, deployment, scanStatus, job, checkpoint, queue, counts,
                 marks>>

-----------------------------------------------------------------------------
(* The end of the task.                                                    *)

ReadWarnings(w) ==
  /\ At(w, "readWarnings")
  /\ Become(w, [task[w] EXCEPT !.seen = job.warnings, !.pc = "writeWarnings"])
  /\ UNCHANGED <<head, refused, database, queue, counts, marks>>

\* The list has been read, and what was read is still to be used.
HasRead(v) == At(v, "writeWarnings") \/ At(v, "complete")
Watched(w) == job.status = "completed" \/ \E v \in Workers \ {w} : HasRead(v)

\* The merged list is written if it is not the one that was read.
\* Mutant: the list is replaced.
MergedReplacing(w) == task[w].codes
Merged(w) == task[w].seen \cup task[w].codes

WriteWarnings(w) ==
  /\ At(w, "writeWarnings")
  /\ job' = IF Merged(w) = task[w].seen THEN job
            ELSE [job EXCEPT !.warnings = Merged(w)]
  /\ raced' = (raced \/ (job' # job /\ Watched(w)))
  /\ Goto(w, AfterSlice(w))
  /\ UNCHANGED <<head, refused, deployment, scanStatus, checkpoint, events, queue, counts,
                 owed, reopened, abandoned>>

ReadJob(w) ==
  /\ At(w, "readJob")
  /\ Become(w, [task[w] EXCEPT !.seen = job.warnings, !.shown = scanStatus,
                               !.pc = "complete"])
  /\ UNCHANGED <<head, refused, database, queue, counts, marks>>

\* Mutant: warnings are ignored.
FinalStatusIgnoring(w) == "complete"
FinalStatus(w) == IF task[w].seen # {} THEN "quality_warning" ELSE "complete"

\* Both rows get their final status; a status equal to the one that was read
\* is not written.
Complete(w) ==
  /\ At(w, "complete")
  /\ scanStatus' = IF FinalStatus(w) = task[w].shown THEN scanStatus
                   ELSE FinalStatus(w)
  /\ job' = [job EXCEPT !.status = "completed"]
  /\ Goto(w, "ack")
  /\ UNCHANGED <<head, refused, deployment, checkpoint, events, queue, counts, marks>>

\* scan_collection sends itself again before its own message is acknowledged.
Resend(w) ==
  /\ At(w, "resend")
  /\ queue' = queue + 1
  /\ Goto(w, "ack")
  /\ UNCHANGED <<head, refused, database, counts, marks>>

Ack(w) ==
  /\ At(w, "ack")
  /\ Become(w, Idle)
  /\ UNCHANGED <<head, refused, database, queue, counts, marks>>

Step(w) == \/ Take(w) \/ ReadFinalized(w) \/ Probe(w) \/ SaveDeployment(w)
           \/ OpenJob(w) \/ InsertJob(w)
           \/ CommitBatch(w) \/ Refuse(w) \/ PickMints(w) \/ EnrichMint(w)
           \/ ReadWarnings(w) \/ WriteWarnings(w)
           \/ ReadJob(w) \/ Complete(w) \/ Resend(w) \/ Ack(w)

-----------------------------------------------------------------------------
(* Failures.                                                               *)

\* A call to the provider, the database or the broker raises, or a time limit
\* ends the task.  One that raises when its commit or its message is out is the
\* step that does it, and then Fail (after Resend and Complete: Ack).
Fail(w) ==
  /\ task[w].pc \notin {"idle", "ack"}
  /\ errors < MaxErrors
  /\ errors' = errors + 1
  /\ Raise(w)
  /\ owed' = FALSE
  /\ abandoned' = abandoned \cup InHand(w)
  /\ UNCHANGED <<head, refused, requests, crashes, raced, reopened>>

\* The worker dies; its message is delivered again.
\* Mutant: messages are acknowledged when they are delivered (no acks_late).
RedeliverNever == UNCHANGED queue
Redeliver == queue' = queue + 1

Crash(w) ==
  /\ ~ At(w, "idle")
  /\ crashes < MaxCrashes
  /\ crashes' = crashes + 1
  /\ Become(w, Idle)
  /\ Redeliver
  /\ abandoned' = abandoned \cup InHand(w)
  /\ UNCHANGED <<head, refused, database, requests, errors, owed, raced, reopened>>

Next == \/ HeadGrows \/ Request
        \/ \E w \in Workers : Step(w) \/ Fail(w) \/ Crash(w)

Spec == Init /\ [][Next]_vars

\* A running worker gets on with its task and takes messages that wait.
FairSpec == Spec /\ \A w \in Workers : WF_vars(Step(w))

-----------------------------------------------------------------------------
(* Properties.                                                             *)

Quiet == queue = 0 /\ \A w \in Workers : At(w, "idle")

\* However many workers run, die and start again, the rows hold the mints from
\* the deployment to the checkpoint, all of them and no others
\* (SqlAlchemyMintBatchConsumer.commit, resumption in _scan_collection).
NoGaps ==
  \A b \in Mints : events[b] # "absent" <=> b \in Deployed..checkpoint

\* A completed job has reached the end fixed when it was created, so every mint
\* from the deployment to there is recorded: in particular a scan does not pass
\* a log that is refused, and never completes over it (_scan_collection).
CompletedIsWhole ==
  job.status = "completed" =>
    /\ checkpoint = job.end
    /\ \A b \in Mints : b \in Deployed..job.end => events[b] # "absent"

\* A recorded mint stays without enrichment only if a task that committed it
\* raised or died first (commit, then enrich_range).
StrandedExplained ==
  \A b \in Mints : events[b] = "recorded" =>
    b \in abandoned \/ \E w \in Workers : b \in InHand(w)

\* No step takes progress back: the checkpoint never moves back, an enriched
\* mint stays enriched and a completed job completed, and the job's range
\* never changes.
NothingUndone ==
  [][/\ checkpoint' >= checkpoint
     /\ \A b \in Mints : events[b] = "enriched" => events'[b] = "enriched"
     /\ job.status = "completed" => job'.status = "completed"
     /\ job.status # "none" => job'.start = job.start /\ job'.end = job.end]_vars

\* A task loses no warning of others and the final status tells of all of them,
\* however tasks overlap, unless one was written between another task's reading
\* and its using of the list, or after the completion (_scan_collection).  The
\* collection of a completed job says "scanning" only if its deployment block was
\* saved by two tasks.
WarningsKept == [][~ raced => job.warnings \subseteq job'.warnings]_vars
StatusShown ==
  job.status = "completed" /\ ~ raced =>
    \/ scanStatus = IF job.warnings = {} THEN "complete" ELSE "quality_warning"
    \/ reopened /\ scanStatus = "scanning"

\* A request leads to a completed job unless a call raises after it, the contract
\* is not finalized yet or one of its logs is refused; so does one that comes
\* after a call raised.  A worker that dies, or loses the race to create the job,
\* does not stop the scan.
ScanCompletes == owed ~> job.status = "completed" \/ ~ owed

\* Readers of the rows see a scan that begins, goes forward through a range
\* fixed when its job is created, and ends only when it has passed all of it,
\* whatever tasks run, die and start again.
Readers == INSTANCE ScanProgress WITH
  Spans <- Nat \ {0}, status <- scanStatus, warnings <- job.warnings,
  span <- IF job.status = "none" THEN 0 ELSE job.end - job.start + 1,
  blocks <- IF checkpoint = NoBlock THEN 0 ELSE checkpoint - job.start + 1
ShowsProgress == Readers!ScanSpec

-----------------------------------------------------------------------------
(* docs/adr/005, line 84: a worker killed after a database commit resumes  *)
(* safely.  The mints of its slice are never enriched: the resumed task    *)
(* begins after the checkpoint.                                            *)
EveryMintEnriched ==
  Quiet /\ job.status = "completed" /\ errors = 0 =>
    \A b \in Mints : b \in Deployed..job.end => events[b] = "enriched"

(* implementation.md, line 830: re-scans are idempotent.  Two concurrent   *)
(* scans of a new collection can leave a completed one "scanning".         *)
CompletedIsShown ==
  Quiet /\ job.status = "completed" => scanStatus \in {"complete", "quality_warning"}

=============================================================================
