----------------------- MODULE CollectionScan_proofs -----------------------
(***************************************************************************)
(* What holds of a collection's scan for any number of workers, any slice, *)
(* any chain and any number of requests, deaths and errors.                *)
(***************************************************************************)
EXTENDS CollectionScan, TLAPS

\* The job begins at the deployment block, and there is no checkpoint without
\* a job or outside its range.
RowsAgree ==
  /\ job.status = "none" => checkpoint = NoBlock
  /\ job.status # "none" => job.start = Deployed /\ Deployed <= job.end
  /\ checkpoint = NoBlock \/ checkpoint \in Deployed..job.end
  /\ job.status = "completed" => checkpoint = job.end

Rows == RowsAgree /\ NoGaps

Starting == {"deploy", "job", "insert"}
Enriching == {"pick", "enrich", "readWarnings", "writeWarnings"}
Finishing == {"readJob", "complete"}

\* What a task knows of the rows at each stage, whatever the others do to them.
Knows(w) ==
  /\ At(w, "finalized") => task[w].start \in {NoBlock, Deployed}
  /\ task[w].pc \in Starting => task[w].start = Deployed
  /\ At(w, "scan") =>
       /\ job.status # "none" /\ task[w].fixedEnd = job.end
       /\ Deployed <= task[w].cursor /\ task[w].cursor <= task[w].pos
       /\ task[w].pos <= task[w].sliceEnd /\ task[w].sliceEnd <= job.end
       /\ task[w].pos = Deployed \/ task[w].pos - 1 <= checkpoint
  /\ task[w].pc \in Enriching =>
       /\ job.status # "none" /\ task[w].fixedEnd = job.end
       /\ task[w].sliceEnd <= checkpoint
  /\ At(w, "enrich") => task[w].todo \subseteq Deployed..checkpoint
  /\ task[w].pc \in Finishing => job.status # "none" /\ checkpoint = job.end

IInv ==
  /\ TypeOK
  /\ Rows
  /\ \A w \in Workers : Knows(w)
  /\ StrandedExplained

\* The rows never lose ground.
Grows ==
  /\ checkpoint' >= checkpoint
  /\ job.status # "none" =>
       job'.status # "none" /\ job'.start = job.start /\ job'.end = job.end

\* No mint that w recorded or had in hand gets out of sight.
Tracks(w) ==
  /\ abandoned \subseteq abandoned'
  /\ \A b \in Mints :
       events'[b] = "recorded" /\ (events[b] # "recorded" \/ b \in InHand(w)) =>
         b \in InHand(w)' \/ b \in abandoned'

\* What a step of w must establish.
Moves(w) ==
  /\ TypeOK'
  /\ Rows'
  /\ Grows
  /\ \A v \in Workers \ {w} : task'[v] = task[v]
  /\ Knows(w)'
  /\ Tracks(w)

-----------------------------------------------------------------------------

\* What the workers do after a step of w.
LEMMA BecomeTask ==
  ASSUME TypeOK, NEW w \in Workers, NEW t \in Tasks, Become(w, t)
  PROVE  /\ task' \in [Workers -> Tasks]
         /\ task'[w] = t
         /\ \A v \in Workers \ {w} : task'[v] = task[v]
  BY DEF TypeOK, Become

\* An idle worker is a task.
LEMMA IdleTask == Idle \in Tasks /\ Idle.pc = "idle"
<1>1. Idle \in Tasks
  BY DEF Idle, Tasks, Stages, Statuses, NoBlock
<1>2. Idle.pc = "idle"
  BY DEF Idle
<1> QED BY <1>1, <1>2

\* A task that goes to another stage keeps its local variables.
LEMMA GotoTask ==
  ASSUME NEW t \in Tasks, NEW pc \in Stages
  PROVE  /\ [t EXCEPT !.pc = pc] \in Tasks
         /\ [t EXCEPT !.pc = pc].pc = pc
         /\ [t EXCEPT !.pc = pc].start = t.start
         /\ [t EXCEPT !.pc = pc].cursor = t.cursor
         /\ [t EXCEPT !.pc = pc].sliceEnd = t.sliceEnd
         /\ [t EXCEPT !.pc = pc].fixedEnd = t.fixedEnd
<1>1. [t EXCEPT !.pc = pc] \in Tasks
  BY DEF Tasks
<1>2. [t EXCEPT !.pc = pc].pc = pc
  BY DEF Tasks
<1>3. /\ [t EXCEPT !.pc = pc].start = t.start
      /\ [t EXCEPT !.pc = pc].cursor = t.cursor
      /\ [t EXCEPT !.pc = pc].sliceEnd = t.sliceEnd
      /\ [t EXCEPT !.pc = pc].fixedEnd = t.fixedEnd
  BY DEF Tasks
<1> QED BY <1>1, <1>2, <1>3

\* Steps that leave the job, the checkpoint and the mints alone.
LEMMA RowsSame ==
  ASSUME TypeOK, Rows, UNCHANGED <<job, checkpoint, events>>
  PROVE  Rows' /\ Grows
  BY DEF TypeOK, Rows, RowsAgree, NoGaps, Grows, NoBlock

\* A task at a stage without mints in hand has none to keep track of.
LEMMA NothingInHand ==
  ASSUME NEW w \in Workers, task[w].pc \notin {"scan", "pick", "enrich"},
         UNCHANGED events, abandoned \subseteq abandoned'
  PROVE  Tracks(w)
  BY DEF Tracks, InHand, At

\* A task that waits, starts or is over knows nothing of the rows.
LEMMA KnowsNothing ==
  ASSUME NEW w \in Workers, task[w].pc \in {"idle", "probe", "resend", "ack"}
  PROVE  Knows(w)
  BY DEF Knows, At, Starting, Enriching, Finishing

\* What another worker's step leaves of what v knows.
LEMMA KnowsFrame ==
  ASSUME TypeOK, TypeOK', Rows, Rows', Grows,
         NEW v \in Workers, Knows(v), task'[v] = task[v]
  PROVE  Knows(v)'
<1> USE ChainAssumption DEF TypeOK, Tasks, NoBlock
<1>1. At(v, "scan")' => At(v, "scan")
  BY DEF At
<1>2. CASE task[v].pc \in Finishing
  <2>1. job.status # "none" /\ checkpoint = job.end
    BY <1>2 DEF Knows
  <2>2. job'.status # "none" /\ checkpoint' = job'.end
    BY <2>1 DEF Grows, Rows, RowsAgree
  <2> QED BY <1>2, <2>2 DEF Knows, At, Finishing, Starting, Enriching
<1>3. CASE task[v].pc \in Enriching
  BY <1>3 DEF Knows, At, Grows, Finishing, Starting, Enriching
<1>4. CASE At(v, "scan")
  BY <1>4 DEF Knows, At, Grows, Finishing, Starting, Enriching
<1>5. CASE /\ task[v].pc \notin Finishing \cup Enriching
           /\ ~ At(v, "scan")
  BY <1>5 DEF Knows, At, Finishing, Starting, Enriching
<1> QED BY <1>2, <1>3, <1>4, <1>5

-----------------------------------------------------------------------------

\* The steps of a task up to its job leave the job, the checkpoint and the
\* mints alone, and a task that raised knows nothing.
LEMMA TakeMoves ==
  ASSUME TypeOK, Rows, NEW w \in Workers, Take(w)
  PROVE  Moves(w)
<1>1. PICK t \in Tasks : t = [Idle EXCEPT !.pc = "finalized", !.start = deployment]
  <2>1. deployment \in Int
    BY ChainAssumption DEF TypeOK, NoBlock
  <2>2. "finalized" \in Stages
    BY DEF Stages
  <2>3. [Idle EXCEPT !.pc = "finalized", !.start = deployment] \in Tasks
    BY <2>1, <2>2, IdleTask DEF Tasks
  <2> QED BY <2>3
<1>2. t.pc = "finalized" /\ t.start = deployment
  BY <1>1 DEF Idle
<1>3. /\ task' \in [Workers -> Tasks]
      /\ task'[w] = t
      /\ \A v \in Workers \ {w} : task'[v] = task[v]
  BY <1>1, BecomeTask DEF Take
<1>4. /\ UNCHANGED <<head, refused, database, counts, marks>>
      /\ queue' \in Nat
  BY DEF Take, TypeOK
<1>5. Rows' /\ Grows
  BY <1>4, RowsSame DEF database
<1>6. TypeOK'
  <2>1. /\ UNCHANGED <<head, refused, deployment, scanStatus, job, checkpoint, events>>
        /\ UNCHANGED <<counts, marks>>
        /\ queue' \in Nat
    BY <1>4 DEF TypeOK, database
  <2> QED BY <1>3, <2>1 DEF TypeOK, counts, marks
<1>7. Knows(w)'
  BY <1>2, <1>3, <1>4 DEF Knows, At, Starting, Enriching, Finishing, TypeOK, database
<1>8. Tracks(w)
  BY <1>4, NothingInHand DEF Take, At, database, marks
<1> QED BY <1>3, <1>5, <1>6, <1>7, <1>8 DEF Moves

\* ReadFinalized keeps the deployment block that was read.
LEMMA ReadFinalizedMoves ==
  ASSUME TypeOK, Rows, NEW w \in Workers, Knows(w), ReadFinalized(w)
  PROVE  Moves(w)
<1> DEFINE pc == IF task[w].start = NoBlock THEN "probe" ELSE "job"
<1>0. task[w] \in Tasks
  BY DEF TypeOK
<1>1. PICK t \in Tasks : t = [task[w] EXCEPT !.final = head, !.pc = pc]
  <2>1. head \in Int
    BY ChainAssumption DEF TypeOK
  <2>2. pc \in Stages
    BY DEF Stages
  <2> HIDE DEF pc
  <2>3. [task[w] EXCEPT !.final = head, !.pc = pc] \in Tasks
    BY <1>0, <2>1, <2>2 DEF Tasks
  <2> QED BY <2>3
<1>2. t.pc = pc /\ t.start = task[w].start
  BY <1>0, <1>1 DEF Tasks
<1>3. /\ task' \in [Workers -> Tasks]
      /\ task'[w] = t
      /\ \A v \in Workers \ {w} : task'[v] = task[v]
  BY <1>1, BecomeTask DEF ReadFinalized
<1>4. UNCHANGED <<head, refused, database, queue, counts, marks>>
  BY DEF ReadFinalized
<1>5. Rows' /\ Grows
  BY <1>4, RowsSame DEF database
<1>6. TypeOK'
  <2>1. /\ UNCHANGED <<head, refused, deployment, scanStatus, job, checkpoint, events>>
        /\ UNCHANGED <<counts, marks>>
        /\ queue' \in Nat
    BY <1>4 DEF TypeOK, database, counts
  <2> QED BY <1>3, <2>1 DEF TypeOK, counts, marks
<1>7. task[w].start \in {NoBlock, Deployed}
  BY DEF ReadFinalized, Knows, At
<1>8. Knows(w)'
  BY <1>2, <1>3, <1>7 DEF Knows, At, Starting, Enriching, Finishing
<1>9. Tracks(w)
  BY <1>4, NothingInHand DEF ReadFinalized, At, database, marks
<1> QED BY <1>3, <1>5, <1>6, <1>8, <1>9 DEF Moves

\* A task that ends: it raised, its worker died, or it was acknowledged.
LEMMA EndMoves ==
  ASSUME TypeOK, Rows, NEW w \in Workers, Become(w, Idle),
         UNCHANGED <<head, refused, database>>, queue' \in Nat,
         owed' \in BOOLEAN, UNCHANGED <<raced, reopened>>,
         requests' \in 0..MaxRequests, crashes' \in 0..MaxCrashes,
         errors' \in 0..MaxErrors,
         abandoned' = abandoned \cup InHand(w)
  PROVE  Moves(w)
<1>1. /\ task' \in [Workers -> Tasks]
      /\ task'[w] = Idle
      /\ \A v \in Workers \ {w} : task'[v] = task[v]
  BY BecomeTask, IdleTask
<1>2. Rows' /\ Grows
  BY RowsSame DEF database
<1>3. TypeOK'
  BY <1>1 DEF TypeOK, database, InHand
<1>4. Knows(w)'
  BY <1>1, IdleTask DEF Knows, At, Starting, Enriching, Finishing
<1>5. Tracks(w)
  BY DEF Tracks, database
<1> QED BY <1>1, <1>2, <1>3, <1>4, <1>5 DEF Moves

\* The same for a task without mints in hand.
LEMMA RaiseMoves ==
  ASSUME TypeOK, Rows, NEW w \in Workers, Become(w, Idle),
         task[w].pc \notin {"scan", "pick", "enrich"},
         UNCHANGED <<head, refused, database, queue, counts, raced, reopened, abandoned>>,
         owed' \in BOOLEAN
  PROVE  Moves(w)
<1>1. InHand(w) = {}
  BY DEF InHand, At
<1>2. abandoned' = abandoned \cup InHand(w)
  BY <1>1
<1>3. /\ requests' \in 0..MaxRequests
      /\ crashes' \in 0..MaxCrashes
      /\ errors' \in 0..MaxErrors
      /\ queue' \in Nat
  BY DEF TypeOK, counts
<1> QED BY <1>2, <1>3, EndMoves

\* A stage without mints in hand leads to another one that needs no more of
\* the rows than the task knows already.
LEMMA GotoMoves ==
  ASSUME TypeOK, Rows, NEW w \in Workers, NEW pc \in Stages, Goto(w, pc),
         task[w].pc \notin {"scan", "pick", "enrich"},
         UNCHANGED <<head, refused, job, checkpoint, events, counts, owed, raced,
                     abandoned>>,
         reopened' \in BOOLEAN, deployment' \in {NoBlock, Deployed},
         scanStatus' \in Statuses, queue' \in Nat,
         \/ pc \in {"probe", "resend", "ack"}
         \/ pc \in Starting /\ task[w].start = Deployed
         \/ /\ pc \in Finishing
            /\ job.status # "none" /\ checkpoint = job.end
  PROVE  Moves(w)
<1>0. task[w] \in Tasks
  BY DEF TypeOK
<1>1. PICK t \in Tasks : t = [task[w] EXCEPT !.pc = pc]
  BY <1>0, GotoTask
<1>2. t.pc = pc /\ t.start = task[w].start
  BY <1>0, <1>1, GotoTask
<1>3. /\ task' \in [Workers -> Tasks]
      /\ task'[w] = t
      /\ \A v \in Workers \ {w} : task'[v] = task[v]
  BY <1>1, BecomeTask DEF Goto
<1>4. Rows' /\ Grows
  BY RowsSame
<1>5. TypeOK'
  BY <1>3 DEF TypeOK, counts
<1>6. Knows(w)'
  BY <1>2, <1>3 DEF Knows, At, Starting, Enriching, Finishing
<1>7. Tracks(w)
  BY NothingInHand
<1> QED BY <1>3, <1>4, <1>5, <1>6, <1>7 DEF Moves

\* Probe finds the deployment block, or raises.
LEMMA ProbeMoves ==
  ASSUME TypeOK, Rows, NEW w \in Workers, Probe(w)
  PROVE  Moves(w)
<1>1. CASE head < Deployed
  <2>1. /\ Become(w, Idle)
        /\ UNCHANGED <<head, refused, database, queue, counts, raced, reopened, abandoned>>
    BY <1>1, ChainAssumption DEF Probe, Raise, TypeOK
  <2>2. owed' \in BOOLEAN /\ task[w].pc = "probe"
    BY <1>1, ChainAssumption DEF Probe, At, TypeOK
  <2> QED BY <2>1, <2>2, RaiseMoves
<1>2. CASE ~ (head < Deployed)
  <2>0. task[w] \in Tasks /\ task[w].pc = "probe"
    BY DEF TypeOK, Probe, At
  <2>1. /\ Become(w, [task[w] EXCEPT !.start = Deployed, !.pc = "deploy"])
        /\ UNCHANGED <<head, refused, database, queue, counts, marks>>
    BY <1>2 DEF Probe, marks
  <2>2. PICK t \in Tasks : t = [task[w] EXCEPT !.start = Deployed, !.pc = "deploy"]
    <3>1. Deployed \in Int /\ "deploy" \in Stages
      BY ChainAssumption DEF Stages
    <3>2. [task[w] EXCEPT !.start = Deployed, !.pc = "deploy"] \in Tasks
      BY <2>0, <3>1 DEF Tasks
    <3> QED BY <3>2
  <2>3. t.pc = "deploy" /\ t.start = Deployed
    BY <2>0, <2>2 DEF Tasks
  <2>4. /\ task' \in [Workers -> Tasks]
        /\ task'[w] = t
        /\ \A v \in Workers \ {w} : task'[v] = task[v]
    BY <2>1, <2>2, BecomeTask
  <2>5. Rows' /\ Grows
    BY <2>1, RowsSame DEF database
  <2>6. TypeOK'
    <3>1. /\ UNCHANGED <<head, refused, deployment, scanStatus, job, checkpoint, events>>
          /\ UNCHANGED <<counts, marks, queue>>
      BY <2>1 DEF database
    <3> QED BY <2>4, <3>1 DEF TypeOK, counts, marks
  <2>7. Knows(w)'
    BY <2>3, <2>4 DEF Knows, At, Starting, Enriching, Finishing
  <2>8. Tracks(w)
    BY <2>0, <2>1, NothingInHand DEF database, marks
  <2> QED BY <2>4, <2>5, <2>6, <2>7, <2>8 DEF Moves
<1> QED BY <1>1, <1>2

\* SaveDeployment stores the block the probe found.
LEMMA SaveDeploymentMoves ==
  ASSUME TypeOK, Rows, NEW w \in Workers, Knows(w), SaveDeployment(w)
  PROVE  Moves(w)
<1>1. task[w].pc = "deploy" /\ task[w].start = Deployed
  BY DEF SaveDeployment, At, Knows, Starting
<1>2. /\ Goto(w, "job")
      /\ UNCHANGED <<head, refused, job, checkpoint, events, counts, owed, raced, abandoned>>
      /\ reopened' \in BOOLEAN
      /\ deployment' \in {NoBlock, Deployed}
      /\ scanStatus' \in Statuses
      /\ queue' \in Nat
  BY <1>1 DEF SaveDeployment, Statuses, TypeOK
<1>3. "job" \in Stages /\ "job" \in Starting
  BY DEF Stages, Starting
<1> QED BY <1>1, <1>2, <1>3, GotoMoves

\* A slice begins after the checkpoint, or there is nothing left to scan.
LEMMA SliceBegins ==
  ASSUME TypeOK, Rows, NEW w \in Workers, task[w].pc \in {"job", "insert"},
         NEW end \in Int, Deployed <= end,
         checkpoint = NoBlock \/ checkpoint \in Deployed..end,
         BeginSlice(w, Deployed, end)
  PROVE  /\ task' \in [Workers -> Tasks]
         /\ \A v \in Workers \ {w} : task'[v] = task[v]
         /\ task'[w].fixedEnd = end
         /\ \/ /\ task'[w].pc = "scan"
               /\ Deployed <= task'[w].cursor
               /\ task'[w].pos = task'[w].cursor
               /\ task'[w].pos <= task'[w].sliceEnd
               /\ task'[w].sliceEnd <= end
               /\ task'[w].pos = Deployed \/ task'[w].pos - 1 <= checkpoint
            \/ /\ task'[w].pc = "readJob"
               /\ checkpoint = end
<1>0. task[w] \in Tasks
  BY DEF TypeOK
<1>1. PICK cursor \in Int : cursor = ResumeAt(Deployed)
  BY ChainAssumption DEF ResumeAt, TypeOK
<1>2. PICK last \in Int : last = Least(cursor + SliceBlocks - 1, end)
  BY SliceAssumption DEF Least
<1>3. PICK pc \in Stages : pc = IF cursor <= end THEN "scan" ELSE "readJob"
  BY DEF Stages
<1>4. PICK t \in Tasks :
        t = [task[w] EXCEPT !.cursor = cursor, !.pos = cursor, !.fixedEnd = end,
                            !.sliceEnd = last, !.start = NoBlock, !.final = NoBlock,
                            !.pc = pc]
  <2>0. NoBlock \in Int
    BY DEF NoBlock
  <2>1. [task[w] EXCEPT !.cursor = cursor, !.pos = cursor, !.fixedEnd = end,
                        !.sliceEnd = last, !.start = NoBlock, !.final = NoBlock,
                        !.pc = pc] \in Tasks
    BY <1>0, <2>0 DEF Tasks
  <2> QED BY <2>1
<1>5. /\ t.cursor = cursor /\ t.pos = cursor /\ t.fixedEnd = end
      /\ t.sliceEnd = last /\ t.pc = pc
  BY <1>0, <1>4 DEF Tasks
<1>6. Become(w, t)
  BY <1>1, <1>2, <1>3, <1>4 DEF BeginSlice
<1>7. /\ task' \in [Workers -> Tasks]
      /\ task'[w] = t
      /\ \A v \in Workers \ {w} : task'[v] = task[v]
  BY <1>6, BecomeTask
<1>8. /\ Deployed <= cursor
      /\ cursor = Deployed \/ cursor - 1 <= checkpoint
      /\ cursor <= end \/ checkpoint = end
  BY <1>1, ChainAssumption DEF ResumeAt, TypeOK, NoBlock
<1>9. last <= end /\ (cursor <= end => cursor <= last)
  BY <1>2, SliceAssumption DEF Least
<1> QED BY <1>3, <1>5, <1>7, <1>8, <1>9

\* What a task knows when its slice has begun.
LEMMA SliceKnown ==
  ASSUME TypeOK, TypeOK', Rows', NEW w \in Workers,
         job'.status # "none", task'[w].fixedEnd = job'.end, checkpoint' = checkpoint,
         \/ /\ task'[w].pc = "scan"
            /\ Deployed <= task'[w].cursor
            /\ task'[w].pos = task'[w].cursor
            /\ task'[w].pos <= task'[w].sliceEnd
            /\ task'[w].sliceEnd <= job'.end
            /\ task'[w].pos = Deployed \/ task'[w].pos - 1 <= checkpoint
         \/ /\ task'[w].pc = "readJob"
            /\ checkpoint = job'.end
  PROVE  Knows(w)'
<1>1. CASE task'[w].pc = "readJob"
  BY <1>1 DEF Knows, At, Starting, Enriching, Finishing
<1>2. CASE task'[w].pc # "readJob"
  <2>1. task'[w].pc = "scan"
    BY <1>2
  <2>2. task'[w].cursor \in Int
    BY DEF TypeOK, Tasks
  <2>3. task'[w].cursor <= task'[w].pos
    BY <1>2, <2>2
  <2> QED BY <1>2, <2>1, <2>3 DEF Knows, At, Starting, Enriching, Finishing
<1> QED BY <1>1, <1>2

\* OpenJob finds no job, resumes it, or finds it completed.
LEMMA OpenJobMoves ==
  ASSUME TypeOK, Rows, NEW w \in Workers, Knows(w), OpenJob(w)
  PROVE  Moves(w)
<1>1. /\ task[w].pc = "job" /\ task[w].start = Deployed
      /\ UNCHANGED <<head, refused, database, queue, counts, marks>>
  BY DEF OpenJob, At, Knows, Starting
<1>2. /\ UNCHANGED <<head, refused, job, checkpoint, events, counts, owed, raced, abandoned>>
      /\ reopened' \in BOOLEAN
      /\ deployment' \in {NoBlock, Deployed} /\ scanStatus' \in Statuses
      /\ queue' \in Nat
  BY <1>1 DEF database, marks, TypeOK
<1>3. CASE Goto(w, "insert")
  BY <1>1, <1>2, <1>3, GotoMoves DEF Stages, Starting
<1>4. CASE Goto(w, "ack")
  BY <1>1, <1>2, <1>4, GotoMoves DEF Stages
<1>5. CASE job.status = "running" /\ BeginSlice(w, job.start, job.end)
  <2>1. /\ job.start = Deployed /\ Deployed <= job.end /\ job.end \in Int
        /\ checkpoint = NoBlock \/ checkpoint \in Deployed..job.end
    BY <1>5 DEF Rows, RowsAgree, TypeOK
  <2>2. BeginSlice(w, Deployed, job.end)
    BY <1>5, <2>1
  <2>3. Rows' /\ Grows
    BY <1>2, RowsSame
  <2>4. /\ task' \in [Workers -> Tasks]
        /\ \A v \in Workers \ {w} : task'[v] = task[v]
    BY <1>1, <2>1, <2>2, SliceBegins
  <2>5. TypeOK'
    BY <1>1, <1>2, <2>4 DEF TypeOK, counts
  <2>6. Knows(w)'
    <3>1. /\ job'.status # "none" /\ job' = job /\ checkpoint' = checkpoint
      BY <1>2, <1>5
    <3> QED BY <1>1, <2>1, <2>2, <2>3, <2>5, <3>1, SliceBegins, SliceKnown
  <2>7. Tracks(w)
    BY <1>1, <1>2, NothingInHand
  <2> QED BY <2>3, <2>4, <2>5, <2>6, <2>7 DEF Moves
<1> QED BY <1>3, <1>4, <1>5 DEF OpenJob

\* InsertJob creates the job from the deployment to the finalized head, or
\* raises.
LEMMA InsertJobMoves ==
  ASSUME TypeOK, Rows, NEW w \in Workers, Knows(w), InsertJob(w)
  PROVE  Moves(w)
<1>1. /\ task[w].pc = "insert" /\ task[w].start = Deployed
      /\ UNCHANGED <<head, refused, counts, raced, reopened, abandoned>>
  BY DEF InsertJob, At, Knows, Starting
<1>2. CASE Raise(w)
  <2>1. owed' \in BOOLEAN
    BY DEF InsertJob, TypeOK
  <2> QED BY <1>1, <1>2, <2>1, RaiseMoves DEF Raise
<1>3. CASE ~ Raise(w)
  <2>0. task[w] \in Tasks
    BY DEF TypeOK
  <2>1. PICK end \in Int : end = task[w].final
    BY <2>0 DEF Tasks
  <2>2. /\ job.status = "none" /\ Deployed <= end
        /\ job' = [status |-> "running", start |-> Deployed, end |-> end,
                   warnings |-> {}]
        /\ BeginSlice(w, Deployed, end)
        /\ UNCHANGED <<deployment, scanStatus, checkpoint, events, queue, owed>>
    BY <1>1, <1>3, <2>1 DEF InsertJob
  <2>3. checkpoint = NoBlock
    BY <2>2 DEF Rows, RowsAgree
  <2>4. /\ task' \in [Workers -> Tasks]
        /\ \A v \in Workers \ {w} : task'[v] = task[v]
    BY <1>1, <2>2, <2>3, SliceBegins
  <2>5. /\ job'.status = "running" /\ job'.start = Deployed /\ job'.end = end
        /\ job' \in [status : {"none", "running", "completed"}, start : Int,
                     end : Int, warnings : SUBSET Codes]
    BY <2>2, ChainAssumption
  <2>6. TypeOK'
    BY <1>1, <2>2, <2>4, <2>5 DEF TypeOK, counts
  <2>7. Rows' /\ Grows
    BY <2>2, <2>3, <2>5 DEF Rows, RowsAgree, NoGaps, Grows, NoBlock
  <2>8. Knows(w)'
    <3>1. job'.status # "none" /\ checkpoint' = checkpoint
      BY <2>2, <2>5
    <3> QED BY <1>1, <2>2, <2>3, <2>5, <2>6, <2>7, <3>1, SliceBegins, SliceKnown
  <2>9. Tracks(w)
    BY <1>1, <2>2, NothingInHand
  <2> QED BY <2>4, <2>6, <2>7, <2>8, <2>9 DEF Moves
<1> QED BY <1>2, <1>3

-----------------------------------------------------------------------------

\* The rows after a batch of a slice whose earlier blocks are committed.
LEMMA BatchRows ==
  ASSUME TypeOK, Rows, NEW first \in Int, NEW last \in Int,
         job.status # "none", first <= last, last <= job.end,
         Deployed <= first, first = Deployed \/ first - 1 <= checkpoint,
         Decoded(first, last),
         events' = Record(first, last), checkpoint' = Forward(last), job' = job
  PROVE  /\ Rows'
         /\ Grows
         /\ checkpoint' \in Int /\ last <= checkpoint'
         /\ events' \in [Mints -> {"absent", "recorded", "enriched"}]
         /\ \A b \in Mints : events'[b] = "recorded" =>
              events[b] = "recorded" \/ b \in first..last
<1> USE ChainAssumption DEF TypeOK, NoBlock
<1>0. first..last \ refused = first..last
  BY DEF Decoded
<1>1. checkpoint' \in Int /\ checkpoint <= checkpoint' /\ last <= checkpoint'
  BY DEF Forward, Most
<1>2. checkpoint' = checkpoint \/ checkpoint' = last
  BY DEF Forward, Most
<1>3. events' \in [Mints -> {"absent", "recorded", "enriched"}]
  BY <1>0 DEF Record
<1>4. \A b \in Mints : events'[b] = "recorded" =>
        events[b] = "recorded" \/ b \in first..last
  BY <1>0 DEF Record
<1>5. RowsAgree'
  BY <1>1, <1>2 DEF Rows, RowsAgree
<1>6. NoGaps'
  <2> SUFFICES ASSUME NEW b \in Mints
               PROVE  events'[b] # "absent" <=> b \in Deployed..checkpoint'
    BY DEF NoGaps
  <2>1. events'[b] # "absent" <=> events[b] # "absent" \/ b \in first..last
    BY <1>0 DEF Record
  <2>2. events[b] # "absent" <=> b \in Deployed..checkpoint
    BY DEF Rows, NoGaps
  <2>3. b \in Int
    OBVIOUS
  <2>4. CASE checkpoint' = last
    BY <1>1, <2>1, <2>2, <2>3, <2>4
  <2>5. CASE checkpoint' = checkpoint
    BY <1>1, <2>1, <2>2, <2>3, <2>5
  <2> QED BY <1>2, <2>4, <2>5
<1>7. Grows
  BY <1>1 DEF Grows
<1> QED BY <1>1, <1>3, <1>4, <1>5, <1>6, <1>7 DEF Rows

\* CommitBatch moves the rows on from the position the task has reached.
LEMMA CommitBatchMoves ==
  ASSUME TypeOK, Rows, NEW w \in Workers, Knows(w), CommitBatch(w)
  PROVE  Moves(w)
<1>0. task[w] \in Tasks /\ task[w].pc = "scan"
  BY DEF TypeOK, CommitBatch, At
<1>1. /\ task[w].cursor \in Int /\ task[w].pos \in Int /\ task[w].sliceEnd \in Int
      /\ job.end \in Int
  BY <1>0 DEF Tasks, TypeOK
<1>2. PICK last \in task[w].pos .. task[w].sliceEnd :
        /\ Decoded(task[w].pos, last)
        /\ events' = Record(task[w].pos, last)
        /\ checkpoint' = Forward(last)
        /\ Become(w, [task[w] EXCEPT !.pos = last + 1,
             !.pc = IF last = task[w].sliceEnd THEN "pick" ELSE "scan"])
  BY DEF CommitBatch
<1>3. UNCHANGED <<head, refused, deployment, scanStatus, job, queue, counts, marks>>
  BY DEF CommitBatch
<1>4. /\ job.status # "none" /\ task[w].fixedEnd = job.end
      /\ Deployed <= task[w].cursor /\ task[w].cursor <= task[w].pos
      /\ task[w].pos <= task[w].sliceEnd /\ task[w].sliceEnd <= job.end
      /\ task[w].pos = Deployed \/ task[w].pos - 1 <= checkpoint
  BY <1>0 DEF Knows, At
<1>5. /\ last \in Int /\ task[w].pos <= last /\ last <= job.end
      /\ last <= task[w].sliceEnd /\ Deployed <= task[w].pos
  BY <1>1, <1>2, <1>4, ChainAssumption
<1>6. /\ Rows'
      /\ Grows
      /\ checkpoint' \in Int /\ last <= checkpoint'
      /\ events' \in [Mints -> {"absent", "recorded", "enriched"}]
      /\ \A b \in Mints : events'[b] = "recorded" =>
           events[b] = "recorded" \/ b \in task[w].pos..last
  BY <1>1, <1>2, <1>3, <1>4, <1>5, BatchRows
<1>7. PICK pc \in Stages : pc = IF last = task[w].sliceEnd THEN "pick" ELSE "scan"
  BY DEF Stages
<1>8. PICK t \in Tasks : t = [task[w] EXCEPT !.pos = last + 1, !.pc = pc]
  <2>1. PICK next \in Int : next = last + 1
    BY <1>5
  <2>2. [task[w] EXCEPT !.pos = next, !.pc = pc] \in Tasks
    BY <1>0 DEF Tasks
  <2> QED BY <2>1, <2>2
<1>9. /\ t.pc = pc /\ t.pos = last + 1 /\ t.cursor = task[w].cursor
      /\ t.sliceEnd = task[w].sliceEnd /\ t.fixedEnd = task[w].fixedEnd
  BY <1>0, <1>8 DEF Tasks
<1>10. /\ task' \in [Workers -> Tasks]
       /\ task'[w] = t
       /\ \A v \in Workers \ {w} : task'[v] = task[v]
  BY <1>2, <1>7, <1>8, BecomeTask
<1>11. TypeOK'
  BY <1>3, <1>6, <1>10 DEF TypeOK, counts, marks
<1>12. Knows(w)'
  <2>1. CASE last = task[w].sliceEnd
    BY <1>3, <1>4, <1>6, <1>7, <1>9, <1>10, <2>1
       DEF Knows, At, Starting, Enriching, Finishing
  <2>2. CASE last # task[w].sliceEnd
    <3>1. /\ task[w].cursor <= last + 1
          /\ last + 1 <= task[w].sliceEnd
          /\ (last + 1) - 1 <= checkpoint'
      BY <1>1, <1>4, <1>5, <1>6, <2>2
    <3> QED BY <1>3, <1>4, <1>7, <1>9, <1>10, <2>2, <3>1
            DEF Knows, At, Starting, Enriching, Finishing
  <2> QED BY <2>1, <2>2
<1>13. Tracks(w)
  <2> SUFFICES ASSUME NEW b \in Mints, events'[b] = "recorded",
                      events[b] # "recorded" \/ b \in InHand(w)
               PROVE  b \in InHand(w)'
    BY <1>3 DEF Tracks, marks
  <2>1. b \in Int
    BY ChainAssumption
  <2>2. b \in task[w].cursor..last
    <3>1. CASE events[b] # "recorded"
      BY <1>1, <1>4, <1>5, <1>6, <2>1, <3>1
    <3>2. CASE b \in InHand(w)
      BY <1>0, <1>1, <1>4, <1>5, <2>1, <3>2 DEF InHand, At
    <3> QED BY <3>1, <3>2
  <2>3. CASE last = task[w].sliceEnd
    BY <1>7, <1>9, <1>10, <2>2, <2>3 DEF InHand, InSlice, At
  <2>4. CASE last # task[w].sliceEnd
    <3>1. b \in task[w].cursor .. (last + 1) - 1
      BY <1>1, <1>5, <2>2
    <3> QED BY <1>7, <1>9, <1>10, <2>4, <3>1 DEF InHand, At
  <2> QED BY <2>3, <2>4
<1> QED BY <1>6, <1>10, <1>11, <1>12, <1>13 DEF Moves

\* A slice that reaches the job's end leaves the checkpoint there.
LEMMA SliceReachesEnd ==
  ASSUME TypeOK, Rows, NEW w \in Workers, job.status # "none",
         task[w].fixedEnd = job.end, task[w].sliceEnd <= checkpoint
  PROVE  /\ AfterSlice(w) \in {"readJob", "resend"}
         /\ AfterSlice(w) = "readJob" => checkpoint = job.end
<1>1. task[w].sliceEnd \in Int /\ job.end \in Int /\ checkpoint \in Int
  BY DEF TypeOK, Tasks
<1>2. AfterSlice(w) = "readJob" => checkpoint >= job.end
  BY <1>1 DEF AfterSlice
<1>3. Deployed <= job.end /\ (checkpoint = NoBlock \/ checkpoint <= job.end)
  BY <1>1 DEF Rows, RowsAgree
<1>4. AfterSlice(w) \in {"readJob", "resend"}
  BY DEF AfterSlice
<1> QED BY <1>1, <1>2, <1>3, <1>4, ChainAssumption DEF NoBlock

\* PickMints has in hand every mint of the slice that is not enriched.
LEMMA PickMintsMoves ==
  ASSUME TypeOK, Rows, NEW w \in Workers, Knows(w), PickMints(w)
  PROVE  Moves(w)
<1>0. task[w] \in Tasks /\ task[w].pc = "pick"
  BY DEF TypeOK, PickMints, At
<1>1. UNCHANGED <<head, refused, database, queue, counts, marks>>
  BY DEF PickMints
<1>2. /\ job.status # "none" /\ task[w].fixedEnd = job.end
      /\ task[w].sliceEnd <= checkpoint
  BY <1>0 DEF Knows, Enriching
<1>3. PICK todo \in SUBSET Mints : todo = Unenriched(w)
  BY DEF Unenriched
<1>4. PICK pc \in Stages :
        pc = IF todo = {} THEN AfterEnrichment(w, {}) ELSE "enrich"
  BY DEF Stages, AfterEnrichment, AfterSlice
<1>5. PICK t \in Tasks : t = [task[w] EXCEPT !.todo = todo, !.pc = pc]
  <2>1. [task[w] EXCEPT !.todo = todo, !.pc = pc] \in Tasks
    BY <1>0 DEF Tasks
  <2> QED BY <2>1
<1>6. /\ t.pc = pc /\ t.todo = todo /\ t.cursor = task[w].cursor
      /\ t.sliceEnd = task[w].sliceEnd /\ t.fixedEnd = task[w].fixedEnd
  BY <1>0, <1>5 DEF Tasks
<1>7. /\ task' \in [Workers -> Tasks]
      /\ task'[w] = t
      /\ \A v \in Workers \ {w} : task'[v] = task[v]
  <2>1. Become(w, t)
    BY <1>3, <1>4, <1>5 DEF PickMints
  <2> QED BY <2>1, BecomeTask
<1>8. Rows' /\ Grows
  BY <1>1, RowsSame DEF database
<1>9. TypeOK'
  <2>1. /\ UNCHANGED <<head, refused, deployment, scanStatus, job, checkpoint, events>>
        /\ UNCHANGED <<counts, marks, queue>>
    BY <1>1 DEF database
  <2> QED BY <1>7, <2>1 DEF TypeOK, counts, marks
<1>10. pc = "readJob" => checkpoint = job.end
  BY <1>0, <1>2, <1>4, SliceReachesEnd DEF AfterEnrichment
<1>11. pc \in {"enrich", "readJob", "resend"}
  BY <1>4 DEF AfterEnrichment, AfterSlice
<1>12. Knows(w)'
  <2>1. todo \subseteq Deployed..checkpoint
    BY <1>3 DEF Unenriched, Rows, NoGaps
  <2> QED BY <1>1, <1>2, <1>6, <1>7, <1>10, <1>11, <2>1
     DEF Knows, At, Starting, Enriching, Finishing, database
<1>13. Tracks(w)
  <2> SUFFICES ASSUME NEW b \in Mints, events'[b] = "recorded",
                      events[b] # "recorded" \/ b \in InHand(w)
               PROVE  b \in InHand(w)'
    BY <1>1 DEF Tracks, marks
  <2>1. events[b] = "recorded" /\ b \in InHand(w)
    BY <1>1 DEF database
  <2>2. b \in todo
    BY <1>0, <1>3, <2>1 DEF InHand, At, Unenriched
  <2>3. pc = "enrich"
    BY <1>4, <2>2
  <2> QED BY <1>6, <1>7, <2>2, <2>3 DEF InHand, At
<1> QED BY <1>7, <1>8, <1>9, <1>12, <1>13 DEF Moves

\* Enriching a mint changes no other row.
LEMMA EnrichedRows ==
  ASSUME TypeOK, Rows, NEW b \in Mints, b \in Deployed..checkpoint,
         events' = [events EXCEPT ![b] = "enriched"], UNCHANGED <<job, checkpoint>>
  PROVE  /\ Rows'
         /\ Grows
         /\ events' \in [Mints -> {"absent", "recorded", "enriched"}]
         /\ events'[b] = "enriched"
         /\ \A c \in Mints \ {b} : events'[c] = events[c]
<1>1. /\ events' \in [Mints -> {"absent", "recorded", "enriched"}]
      /\ events'[b] = "enriched"
      /\ \A c \in Mints \ {b} : events'[c] = events[c]
  BY DEF TypeOK
<1>2. RowsAgree' /\ Grows
  BY DEF Rows, RowsAgree, Grows, TypeOK, NoBlock
<1>3. NoGaps'
  BY <1>1 DEF Rows, NoGaps
<1> QED BY <1>1, <1>2, <1>3 DEF Rows

\* EnrichMint takes one mint of the slice out of the task's hands.
LEMMA EnrichMintMoves ==
  ASSUME TypeOK, Rows, NEW w \in Workers, Knows(w), EnrichMint(w)
  PROVE  Moves(w)
<1>0. task[w] \in Tasks /\ task[w].pc = "enrich" /\ task[w].todo \in SUBSET Mints
  BY DEF TypeOK, EnrichMint, At, Tasks
<1>1. UNCHANGED <<head, refused, deployment, scanStatus, job, checkpoint, queue, counts,
                  marks>>
  BY DEF EnrichMint
<1>2. /\ job.status # "none" /\ task[w].fixedEnd = job.end
      /\ task[w].sliceEnd <= checkpoint
      /\ task[w].todo \subseteq Deployed..checkpoint
  BY <1>0 DEF Knows, At, Enriching
<1>3. PICK b \in task[w].todo, found \in {{}} \cup {{c} : c \in Codes} :
        LET todo == task[w].todo \ {b}
            codes == task[w].codes \cup found
        IN  /\ events' = [events EXCEPT ![b] = "enriched"]
            /\ Become(w, [task[w] EXCEPT !.todo = todo, !.codes = codes,
                 !.pc = IF todo = {} THEN AfterEnrichment(w, codes) ELSE "enrich"])
  BY DEF EnrichMint
<1>4. PICK todo \in SUBSET Mints : todo = task[w].todo \ {b}
  BY <1>0
<1>5. PICK codes \in SUBSET Codes : codes = task[w].codes \cup found
  BY <1>0 DEF Tasks
<1>6. PICK pc \in Stages :
        pc = IF todo = {} THEN AfterEnrichment(w, codes) ELSE "enrich"
  BY DEF Stages, AfterEnrichment, AfterSlice
<1>7. PICK t \in Tasks :
        t = [task[w] EXCEPT !.todo = todo, !.codes = codes, !.pc = pc]
  <2>1. [task[w] EXCEPT !.todo = todo, !.codes = codes, !.pc = pc] \in Tasks
    BY <1>0 DEF Tasks
  <2> QED BY <2>1
<1>8. /\ t.pc = pc /\ t.todo = todo
      /\ t.sliceEnd = task[w].sliceEnd /\ t.fixedEnd = task[w].fixedEnd
  BY <1>0, <1>7 DEF Tasks
<1>9. /\ task' \in [Workers -> Tasks]
      /\ task'[w] = t
      /\ \A v \in Workers \ {w} : task'[v] = task[v]
  <2>1. Become(w, t)
    BY <1>3, <1>4, <1>5, <1>6, <1>7
  <2> QED BY <2>1, BecomeTask
<1>10. /\ Rows'
       /\ Grows
       /\ events' \in [Mints -> {"absent", "recorded", "enriched"}]
       /\ events'[b] = "enriched"
       /\ \A c \in Mints \ {b} : events'[c] = events[c]
  BY <1>0, <1>1, <1>2, <1>3, EnrichedRows
<1>11. TypeOK'
  BY <1>1, <1>9, <1>10 DEF TypeOK, counts, marks
<1>12. Knows(w)'
  <2>1. pc = "readJob" => checkpoint = job.end
    BY <1>2, <1>6, SliceReachesEnd DEF AfterEnrichment
  <2>2. pc \in {"enrich", "readWarnings", "readJob", "resend"}
    BY <1>6 DEF AfterEnrichment, AfterSlice
  <2>3. todo \subseteq Deployed..checkpoint
    BY <1>2, <1>4
  <2> QED BY <1>1, <1>2, <1>8, <1>9, <2>1, <2>2, <2>3
          DEF Knows, At, Starting, Enriching, Finishing
<1>13. Tracks(w)
  <2> SUFFICES ASSUME NEW c \in Mints, events'[c] = "recorded",
                      events[c] # "recorded" \/ c \in InHand(w)
               PROVE  c \in InHand(w)'
    BY <1>1 DEF Tracks, marks
  <2>1. c # b /\ c \in InHand(w)
    BY <1>10
  <2>2. c \in todo
    BY <1>0, <1>4, <2>1 DEF InHand, At
  <2>3. pc = "enrich"
    BY <1>6, <2>2
  <2> QED BY <1>8, <1>9, <2>2, <2>3 DEF InHand, At
<1> QED BY <1>9, <1>10, <1>11, <1>12, <1>13 DEF Moves

-----------------------------------------------------------------------------

\* A task that reads the job's row, and the collection's, knows what it knew.
LEMMA ReadMoves ==
  ASSUME TypeOK, Rows, NEW w \in Workers, Knows(w), ReadWarnings(w) \/ ReadJob(w)
  PROVE  Moves(w)
<1>0. task[w] \in Tasks
  BY DEF TypeOK
<1>1. UNCHANGED <<head, refused, database, queue, counts, marks>>
  BY DEF ReadWarnings, ReadJob
<1>2. PICK seen \in SUBSET Codes : seen = job.warnings
  BY DEF TypeOK
<1>3. PICK shown \in Statuses :
        shown = IF ReadJob(w) THEN scanStatus ELSE task[w].shown
  BY <1>0 DEF TypeOK, Tasks
<1>4. PICK pc \in Stages :
        pc = IF At(w, "readJob") THEN "complete" ELSE "writeWarnings"
  BY DEF Stages
<1>5. PICK t \in Tasks : t = [task[w] EXCEPT !.seen = seen, !.shown = shown, !.pc = pc]
  <2>1. [task[w] EXCEPT !.seen = seen, !.shown = shown, !.pc = pc] \in Tasks
    BY <1>0 DEF Tasks
  <2> QED BY <2>1
<1>6. /\ t.pc = pc
      /\ t.sliceEnd = task[w].sliceEnd /\ t.fixedEnd = task[w].fixedEnd
  BY <1>0, <1>5 DEF Tasks
<1>7. Become(w, t)
  <2>1. CASE ReadJob(w)
    <3>1. shown = scanStatus /\ pc = "complete"
      BY <1>3, <1>4, <2>1 DEF ReadJob
    <3> QED BY <1>2, <1>5, <2>1, <3>1 DEF ReadJob
  <2>2. CASE ReadWarnings(w) /\ ~ ReadJob(w)
    <3>1. shown = task[w].shown /\ pc = "writeWarnings"
      BY <1>3, <1>4, <2>2 DEF ReadWarnings, At
    <3>2. t = [task[w] EXCEPT !.seen = seen, !.pc = "writeWarnings"]
      BY <1>0, <1>5, <3>1 DEF Tasks
    <3> QED BY <1>2, <2>2, <3>2 DEF ReadWarnings
  <2> QED BY <2>1, <2>2
<1>8. /\ task' \in [Workers -> Tasks]
      /\ task'[w] = t
      /\ \A v \in Workers \ {w} : task'[v] = task[v]
  BY <1>7, BecomeTask
<1>9. Rows' /\ Grows
  BY <1>1, RowsSame DEF database
<1>10. TypeOK'
  <2>1. /\ UNCHANGED <<head, refused, deployment, scanStatus, job, checkpoint, events>>
        /\ UNCHANGED <<counts, marks, queue>>
    BY <1>1 DEF database
  <2> QED BY <1>8, <2>1 DEF TypeOK, counts, marks
<1>11. Knows(w)'
  <2>1. CASE At(w, "readJob")
    BY <1>1, <1>4, <1>6, <1>8, <2>1
       DEF Knows, At, Starting, Enriching, Finishing, database
  <2>2. CASE ~ At(w, "readJob")
    <3>1. task[w].pc = "readWarnings"
      BY <2>2 DEF ReadWarnings, ReadJob, At
    <3> QED BY <1>1, <1>4, <1>6, <1>8, <2>2, <3>1
            DEF Knows, At, Starting, Enriching, Finishing, database
  <2> QED BY <2>1, <2>2
<1>12. Tracks(w)
  BY <1>1, NothingInHand DEF ReadWarnings, ReadJob, At, database, marks
<1> QED BY <1>8, <1>9, <1>10, <1>11, <1>12 DEF Moves

\* WriteWarnings and Complete leave the job's range alone.
LEMMA JobRows ==
  ASSUME TypeOK, Rows, NEW w \in Workers, UNCHANGED <<checkpoint, events>>,
         job' \in [status : {"none", "running", "completed"}, start : Int, end : Int,
                   warnings : SUBSET Codes],
         job'.start = job.start, job'.end = job.end, job.status # "none",
         \/ job'.status = job.status
         \/ job'.status = "completed" /\ checkpoint = job.end
  PROVE  Rows' /\ Grows
  BY DEF TypeOK, Rows, RowsAgree, NoGaps, Grows

\* WriteWarnings adds what the slice found to what was read.
LEMMA WriteWarningsMoves ==
  ASSUME TypeOK, Rows, NEW w \in Workers, Knows(w), WriteWarnings(w)
  PROVE  Moves(w)
<1>0. task[w] \in Tasks /\ task[w].pc = "writeWarnings"
  BY DEF TypeOK, WriteWarnings, At
<1>1. /\ UNCHANGED <<head, refused, deployment, scanStatus, checkpoint, events, queue>>
      /\ UNCHANGED <<counts, owed, reopened, abandoned>>
      /\ raced' \in BOOLEAN
  BY DEF WriteWarnings, TypeOK
<1>2. /\ job.status # "none" /\ task[w].fixedEnd = job.end
      /\ task[w].sliceEnd <= checkpoint
  BY <1>0 DEF Knows, Enriching
<1>3. PICK pc \in Stages : pc = AfterSlice(w)
  BY DEF Stages, AfterSlice
<1>4. PICK t \in Tasks : t = [task[w] EXCEPT !.pc = pc]
  BY <1>0, GotoTask
<1>5. t.pc = pc
  BY <1>0, <1>4, GotoTask
<1>6. /\ task' \in [Workers -> Tasks]
      /\ task'[w] = t
      /\ \A v \in Workers \ {w} : task'[v] = task[v]
  BY <1>3, <1>4, BecomeTask DEF WriteWarnings, Goto
<1>7. /\ job' \in [status : {"none", "running", "completed"}, start : Int, end : Int,
                   warnings : SUBSET Codes]
      /\ job'.status = job.status /\ job'.start = job.start /\ job'.end = job.end
  <2>1. PICK merged \in SUBSET Codes : merged = Merged(w)
    BY <1>0 DEF Merged, Tasks
  <2>2. job' = job \/ job' = [job EXCEPT !.warnings = merged]
    BY <2>1 DEF WriteWarnings
  <2> QED BY <2>2 DEF TypeOK
<1>8. Rows' /\ Grows
  BY <1>1, <1>2, <1>7, JobRows
<1>9. TypeOK'
  BY <1>1, <1>6, <1>7 DEF TypeOK, counts
<1>10. Knows(w)'
  <2>1. pc \in {"readJob", "resend"} /\ (pc = "readJob" => checkpoint = job.end)
    BY <1>2, <1>3, SliceReachesEnd
  <2> QED BY <1>1, <1>2, <1>5, <1>6, <1>7, <2>1
          DEF Knows, At, Starting, Enriching, Finishing
<1>11. Tracks(w)
  BY <1>0, <1>1, NothingInHand
<1> QED BY <1>6, <1>8, <1>9, <1>10, <1>11 DEF Moves

\* Complete marks a job whose checkpoint is at its end.
LEMMA CompleteMoves ==
  ASSUME TypeOK, Rows, NEW w \in Workers, Knows(w), Complete(w)
  PROVE  Moves(w)
<1>0. task[w] \in Tasks /\ task[w].pc = "complete"
  BY DEF TypeOK, Complete, At
<1>1. UNCHANGED <<head, refused, deployment, checkpoint, events, queue, counts, marks>>
  BY DEF Complete
<1>2. job.status # "none" /\ checkpoint = job.end
  BY <1>0 DEF Knows, Finishing
<1>3. PICK t \in Tasks : t = [task[w] EXCEPT !.pc = "ack"]
  BY <1>0, GotoTask DEF Stages
<1>4. t.pc = "ack"
  BY <1>0, <1>3, GotoTask DEF Stages
<1>5. /\ task' \in [Workers -> Tasks]
      /\ task'[w] = t
      /\ \A v \in Workers \ {w} : task'[v] = task[v]
  BY <1>3, BecomeTask DEF Complete, Goto
<1>6. /\ job' \in [status : {"none", "running", "completed"}, start : Int, end : Int,
                   warnings : SUBSET Codes]
      /\ job'.status = "completed" /\ job'.start = job.start /\ job'.end = job.end
  BY DEF Complete, TypeOK
<1>7. Rows' /\ Grows
  BY <1>1, <1>2, <1>6, JobRows
<1>8. scanStatus' \in Statuses
  BY DEF Complete, FinalStatus, Statuses, TypeOK
<1>9. TypeOK'
  BY <1>1, <1>5, <1>6, <1>8 DEF TypeOK, counts, marks
<1>10. Knows(w)'
  BY <1>4, <1>5 DEF Knows, At, Starting, Enriching, Finishing
<1>11. Tracks(w)
  BY <1>0, <1>1, NothingInHand DEF marks
<1> QED BY <1>5, <1>7, <1>9, <1>10, <1>11 DEF Moves

\* Resend, Ack and the three ways to end a task early.
LEMMA EndingMoves ==
  ASSUME TypeOK, Rows, NEW w \in Workers,
         Resend(w) \/ Ack(w) \/ Refuse(w) \/ Fail(w) \/ Crash(w)
  PROVE  Moves(w)
<1>1. CASE Resend(w)
  <2>1. /\ Goto(w, "ack") /\ task[w].pc = "resend"
        /\ UNCHANGED <<head, refused, job, checkpoint, events, counts, owed, raced, abandoned>>
        /\ reopened' \in BOOLEAN
        /\ deployment' \in {NoBlock, Deployed} /\ scanStatus' \in Statuses
        /\ queue' \in Nat
    BY <1>1 DEF Resend, At, database, marks, TypeOK
  <2> QED BY <2>1, GotoMoves DEF Stages
<1>2. CASE Ack(w)
  <2>1. Become(w, Idle) /\ task[w].pc = "ack" /\ owed' \in BOOLEAN
    BY <1>2 DEF Ack, At, TypeOK, marks
  <2>2. UNCHANGED <<head, refused, database, queue, counts, raced, reopened, abandoned>>
    BY <1>2 DEF Ack, marks
  <2> QED BY <2>1, <2>2, RaiseMoves
<1>3. CASE Fail(w)
  <2>1. /\ requests' \in 0..MaxRequests
        /\ crashes' \in 0..MaxCrashes
        /\ errors' \in 0..MaxErrors
        /\ queue' \in Nat
    BY <1>3, BoundsAssumption DEF Fail, Raise, TypeOK
  <2>2. /\ Become(w, Idle) /\ UNCHANGED <<head, refused, database>>
        /\ owed' \in BOOLEAN /\ UNCHANGED <<raced, reopened>>
        /\ abandoned' = abandoned \cup InHand(w)
    BY <1>3 DEF Fail, Raise
  <2> QED BY <2>1, <2>2, EndMoves
<1>4. CASE Crash(w)
  <2>1. /\ requests' \in 0..MaxRequests
        /\ crashes' \in 0..MaxCrashes
        /\ errors' \in 0..MaxErrors
        /\ queue' \in Nat /\ owed' \in BOOLEAN /\ UNCHANGED <<raced, reopened>>
    BY <1>4, BoundsAssumption DEF Crash, Redeliver, TypeOK
  <2>2. /\ Become(w, Idle) /\ UNCHANGED <<head, refused, database>>
        /\ abandoned' = abandoned \cup InHand(w)
    BY <1>4 DEF Crash
  <2> QED BY <2>1, <2>2, EndMoves
<1>5. CASE Refuse(w)
  <2>1. /\ requests' \in 0..MaxRequests
        /\ crashes' \in 0..MaxCrashes
        /\ errors' \in 0..MaxErrors
        /\ queue' \in Nat /\ owed' \in BOOLEAN /\ UNCHANGED <<raced, reopened>>
    BY <1>5 DEF Refuse, Raise, TypeOK, counts
  <2>2. /\ Become(w, Idle) /\ UNCHANGED <<head, refused, database>>
        /\ abandoned' = abandoned \cup InHand(w)
    BY <1>5 DEF Refuse, Raise
  <2> QED BY <2>1, <2>2, EndMoves
<1> QED BY <1>1, <1>2, <1>3, <1>4, <1>5

\* Every step of a worker does what Moves says.
LEMMA WorkerMoves ==
  ASSUME TypeOK, Rows, NEW w \in Workers, Knows(w), Step(w) \/ Fail(w) \/ Crash(w)
  PROVE  Moves(w)
  BY TakeMoves, ReadFinalizedMoves, ProbeMoves, SaveDeploymentMoves, OpenJobMoves,
     InsertJobMoves, CommitBatchMoves, PickMintsMoves, EnrichMintMoves, ReadMoves,
     WriteWarningsMoves, CompleteMoves, EndingMoves
  DEF Step

-----------------------------------------------------------------------------

\* No task, no job, no mints.
LEMMA InitIInv == Init => IInv
<1> SUFFICES ASSUME Init PROVE IInv
  OBVIOUS
<1>1. \A w \in Workers : task[w] = Idle
  BY DEF Init
<1>2. TypeOK
  <2>1. job \in [status : {"none", "running", "completed"}, start : Int, end : Int,
                 warnings : SUBSET Codes]
    BY DEF Init, NoJob, NoBlock
  <2>2. task \in [Workers -> Tasks]
    BY IdleTask DEF Init
  <2>3. events \in [Mints -> {"absent", "recorded", "enriched"}]
    BY DEF Init
  <2>4. head \in 0..MaxHead /\ checkpoint \in Int /\ queue \in Nat
    BY ChainAssumption DEF Init, NoBlock
  <2>5. /\ requests \in 0..MaxRequests /\ crashes \in 0..MaxCrashes
        /\ errors \in 0..MaxErrors
    BY BoundsAssumption DEF Init
  <2>6. /\ deployment \in {NoBlock, Deployed} /\ scanStatus \in Statuses
        /\ refused \in Refusals /\ owed \in BOOLEAN /\ raced \in BOOLEAN
        /\ reopened \in BOOLEAN /\ abandoned \in SUBSET Mints
    BY DEF Init, Statuses
  <2> QED BY <2>1, <2>2, <2>3, <2>4, <2>5, <2>6 DEF TypeOK
<1>3. Rows
  BY ChainAssumption DEF Init, Rows, RowsAgree, NoGaps, NoJob, NoBlock
<1>4. \A w \in Workers : Knows(w)
  BY <1>1, IdleTask DEF Knows, At, Starting, Enriching, Finishing
<1>5. StrandedExplained
  BY DEF Init, StrandedExplained
<1> QED BY <1>2, <1>3, <1>4, <1>5 DEF IInv

\* Every step keeps the invariant: the worker that moves by WorkerMoves, the
\* others because the rows never lose ground.
LEMMA StepIInv == IInv /\ [Next]_vars => IInv'
<1> SUFFICES ASSUME IInv, [Next]_vars PROVE IInv'
  OBVIOUS
<1>0. TypeOK /\ Rows /\ (\A w \in Workers : Knows(w)) /\ StrandedExplained
  BY DEF IInv
<1>1. ASSUME NEW w \in Workers, Step(w) \/ Fail(w) \/ Crash(w)
      PROVE  IInv'
  <2>1. Moves(w)
    BY <1>0, <1>1, WorkerMoves
  <2>2. TypeOK' /\ Rows' /\ Grows /\ Knows(w)'
    BY <2>1 DEF Moves
  <2>3. \A v \in Workers \ {w} : task'[v] = task[v]
    BY <2>1 DEF Moves
  <2>4. \A v \in Workers : Knows(v)'
    <3> SUFFICES ASSUME NEW v \in Workers, v # w PROVE Knows(v)'
      BY <2>2
    <3> QED BY <1>0, <2>2, <2>3, KnowsFrame
  <2>5. StrandedExplained'
    <3> SUFFICES ASSUME NEW b \in Mints, events'[b] = "recorded"
                 PROVE  b \in abandoned' \/ \E v \in Workers : b \in InHand(v)'
      BY DEF StrandedExplained
    <3>1. CASE events[b] # "recorded" \/ b \in InHand(w)
      BY <2>1, <3>1 DEF Moves, Tracks
    <3>2. CASE events[b] = "recorded" /\ b \notin InHand(w)
      <4>1. CASE b \in abandoned
        BY <2>1, <4>1 DEF Moves, Tracks
      <4>2. CASE b \notin abandoned
        <5>1. PICK v \in Workers : b \in InHand(v) /\ v # w
          BY <1>0, <3>2, <4>2 DEF StrandedExplained
        <5>2. b \in InHand(v)'
          BY <2>3, <5>1 DEF InHand, At, InSlice
        <5> QED BY <5>2
      <4> QED BY <4>1, <4>2
    <3> QED BY <3>1, <3>2
  <2> QED BY <2>2, <2>4, <2>5 DEF IInv
<1>2. CASE HeadGrows \/ Request \/ UNCHANGED vars
  <2>1. UNCHANGED <<deployment, scanStatus, job, checkpoint, events, task>>
    BY <1>2 DEF HeadGrows, Request, vars, database
  <2>2. /\ UNCHANGED <<refused, raced, reopened, abandoned>>
        /\ owed' \in BOOLEAN
    BY <1>0, <1>2 DEF HeadGrows, Request, vars, marks, TypeOK
  <2>3. head' \in 0..MaxHead /\ queue' \in Nat
    BY <1>0, <1>2, ChainAssumption DEF HeadGrows, Request, vars, TypeOK
  <2>4. /\ requests' \in 0..MaxRequests /\ crashes' \in 0..MaxCrashes
        /\ errors' \in 0..MaxErrors
    BY <1>0, <1>2, BoundsAssumption DEF HeadGrows, Request, vars, counts, TypeOK
  <2>5. TypeOK'
    BY <1>0, <2>1, <2>2, <2>3, <2>4 DEF TypeOK
  <2>6. Rows'
    BY <1>0, <2>1, RowsSame
  <2>7. \A w \in Workers : Knows(w)'
    BY <1>0, <2>1 DEF Knows, At
  <2>8. StrandedExplained'
    BY <1>0, <2>1, <2>2 DEF StrandedExplained, InHand, InSlice, At
  <2> QED BY <2>5, <2>6, <2>7, <2>8 DEF IInv
<1> QED BY <1>1, <1>2 DEF Next

\* The invariant holds in every run.
THEOREM Invariance == Spec => []IInv
  BY InitIInv, StepIInv, PTL DEF Spec

\* Scans resume without gaps: the rows hold exactly the mints from the
\* deployment to the checkpoint, whatever overlaps, dies or raises.
THEOREM ScanHasNoGaps == Spec => []NoGaps
<1>1. IInv => NoGaps
  BY DEF IInv, Rows
<1> QED BY Invariance, <1>1, PTL

\* A completed job has every mint up to the end it was created with.
THEOREM CompletedScanIsWhole == Spec => []CompletedIsWhole
<1>1. IInv => CompletedIsWhole
  BY DEF IInv, Rows, RowsAgree, NoGaps, CompletedIsWhole
<1> QED BY Invariance, <1>1, PTL

\* Only a task that raised or died leaves a mint behind without enrichment.
THEOREM OnlyEndedTasksStrand == Spec => []StrandedExplained
<1>1. IInv => StrandedExplained
  BY DEF IInv
<1> QED BY Invariance, <1>1, PTL

\* What a step of a worker does to an enriched mint and to a completed job.
LEMMA StepKeeps ==
  ASSUME TypeOK, NEW w \in Workers, Step(w) \/ Fail(w) \/ Crash(w)
  PROVE  /\ \A b \in Mints : events[b] = "enriched" => events'[b] = "enriched"
         /\ job.status = "completed" => job'.status = "completed"
<1>1. CASE CommitBatch(w)
  BY <1>1 DEF CommitBatch, Record
<1>2. CASE EnrichMint(w)
  <2>1. PICK b \in task[w].todo : events' = [events EXCEPT ![b] = "enriched"]
    BY <1>2 DEF EnrichMint
  <2>2. job' = job
    BY <1>2 DEF EnrichMint
  <2> QED BY <2>1, <2>2 DEF TypeOK
<1>3. CASE InsertJob(w)
  BY <1>3 DEF InsertJob, Raise, database
<1>4. CASE WriteWarnings(w)
  BY <1>4 DEF WriteWarnings, TypeOK
<1>5. CASE Complete(w)
  BY <1>5 DEF Complete, TypeOK
<1>6. CASE ~ (CommitBatch(w) \/ EnrichMint(w) \/ InsertJob(w) \/ WriteWarnings(w) \/ Complete(w))
  <2>1. UNCHANGED <<job, events>>
    BY <1>6 DEF Step, Take, ReadFinalized, Probe, Raise, SaveDeployment, OpenJob,
                Refuse, PickMints, ReadWarnings, ReadJob, Resend, Ack, Fail, Crash, database
  <2> QED BY <2>1
<1> QED BY <1>1, <1>2, <1>3, <1>4, <1>5, <1>6

\* The checkpoint, the enriched mints, the completed job and the job's range
\* are never taken back.
THEOREM ProgressIsKept == Spec => NothingUndone
<1> DEFINE Kept ==
      /\ checkpoint' >= checkpoint
      /\ \A b \in Mints : events[b] = "enriched" => events'[b] = "enriched"
      /\ job.status = "completed" => job'.status = "completed"
      /\ job.status # "none" => job'.start = job.start /\ job'.end = job.end
<1>1. IInv /\ [Next]_vars => [Kept]_vars
  <2> SUFFICES ASSUME IInv, Next PROVE Kept
    OBVIOUS
  <2>1. TypeOK /\ Rows
    BY DEF IInv
  <2>2. ASSUME NEW w \in Workers, Step(w) \/ Fail(w) \/ Crash(w)
        PROVE  Kept
    <3>1. Grows
      BY <2>1, <2>2, WorkerMoves DEF Moves, IInv
    <3> QED BY <2>1, <2>2, <3>1, StepKeeps DEF Grows
  <2>3. CASE HeadGrows \/ Request
    <3>1. UNCHANGED <<job, checkpoint, events>>
      BY <2>3 DEF HeadGrows, Request, database
    <3> QED BY <2>1, <3>1 DEF TypeOK
  <2> QED BY <2>2, <2>3 DEF Next
<1>2. NothingUndone <=> [][Kept]_vars
  BY DEF NothingUndone
<1> HIDE DEF Kept
<1> QED BY Invariance, <1>1, <1>2, PTL DEF Spec

-----------------------------------------------------------------------------
(* What readers of the rows see.                                           *)

\* A job that does not exist has no warnings, and a task that found some, or
\* read some, leaves a job that has them.
WarningsAgree ==
  /\ job.status = "none" => job.warnings = {}
  /\ \A w \in Workers :
       /\ task[w].pc \in {"readWarnings", "writeWarnings"} => task[w].codes # {}
       /\ At(w, "complete") /\ task[w].seen # {} => job.warnings # {}

\* The steps that change the warnings, or make a task rely on them.
WarningSteps(w) ==
  \/ InsertJob(w) \/ EnrichMint(w) \/ PickMints(w)
  \/ ReadWarnings(w) \/ WriteWarnings(w) \/ ReadJob(w)

\* A slice that begins is scanned, or was the last.
LEMMA SliceStage ==
  ASSUME TypeOK, NEW w \in Workers, NEW start, NEW end, BeginSlice(w, start, end)
  PROVE  task'[w].pc \in {"scan", "readJob"}
<1> DEFINE cursor == ResumeAt(start)
           last == Least(cursor + SliceBlocks - 1, end)
<1>1. PICK pc \in {"scan", "readJob"} : pc = IF cursor <= end THEN "scan" ELSE "readJob"
  OBVIOUS
<1>2. PICK t : t = [task[w] EXCEPT !.cursor = cursor, !.pos = cursor, !.fixedEnd = end,
                                   !.sliceEnd = last, !.start = NoBlock,
                                   !.final = NoBlock, !.pc = pc]
  OBVIOUS
<1>3. task' = [task EXCEPT ![w] = t]
  BY <1>1, <1>2 DEF BeginSlice, Become
<1> HIDE DEF cursor, last
<1>4. t.pc = pc
  BY <1>2 DEF TypeOK, Tasks
<1> QED BY <1>1, <1>3, <1>4 DEF TypeOK

\* No other step does.
LEMMA WarningsApart ==
  ASSUME TypeOK, WarningsAgree, NEW w \in Workers, Step(w) \/ Fail(w) \/ Crash(w),
         ~ WarningSteps(w), \A v \in Workers \ {w} : task'[v] = task[v],
         task'[w].pc \notin {"readWarnings", "writeWarnings", "complete"}
  PROVE  WarningsAgree'
<1>1. job'.warnings = job.warnings /\ (job'.status = "none" => job.status = "none")
  BY DEF WarningSteps, Step, Take, ReadFinalized, Probe, Raise, SaveDeployment, OpenJob,
         CommitBatch, Refuse, Complete, Resend, Ack, Fail, Crash, database, TypeOK
<1> QED BY <1>1 DEF WarningsAgree, At

\* Where those steps lead.
LEMMA WarningsElsewhere ==
  ASSUME TypeOK, NEW w \in Workers, Step(w) \/ Fail(w) \/ Crash(w), ~ WarningSteps(w)
  PROVE  task'[w].pc \notin {"readWarnings", "writeWarnings", "complete"}
<1>0. task[w] \in Tasks /\ task \in [Workers -> Tasks]
  BY DEF TypeOK
<1>1. CASE Take(w)
  BY <1>0, <1>1 DEF Take, Become, Idle
<1>2. CASE ReadFinalized(w)
  BY <1>0, <1>2 DEF ReadFinalized, Become, Tasks
<1>3. CASE Probe(w)
  BY <1>0, <1>3, IdleTask DEF Probe, Raise, Become, Tasks
<1>4. CASE SaveDeployment(w) \/ Complete(w) \/ Resend(w)
  BY <1>0, <1>4 DEF SaveDeployment, Complete, Resend, Goto, Become, Tasks
<1>5. CASE OpenJob(w)
  <2>1. CASE Goto(w, "insert") \/ Goto(w, "ack")
    BY <1>0, <2>1 DEF Goto, Become, Tasks
  <2>2. CASE BeginSlice(w, job.start, job.end)
    BY <2>2, SliceStage
  <2> QED BY <1>5, <2>1, <2>2 DEF OpenJob
<1>6. CASE CommitBatch(w)
  BY <1>0, <1>6 DEF CommitBatch, Become, Tasks
<1>7. CASE Ack(w) \/ Refuse(w) \/ Fail(w) \/ Crash(w)
  BY <1>0, <1>7, IdleTask DEF Ack, Refuse, Fail, Crash, Raise, Become
<1> QED BY <1>1, <1>2, <1>3, <1>4, <1>5, <1>6, <1>7 DEF Step, WarningSteps

\* Every step keeps what tasks rely on of the warnings.
LEMMA StepWarnings == IInv /\ WarningsAgree /\ [Next]_vars => WarningsAgree'
<1> SUFFICES ASSUME IInv, WarningsAgree, [Next]_vars PROVE WarningsAgree'
  OBVIOUS
<1>0. TypeOK /\ Rows /\ \A w \in Workers : Knows(w)
  BY DEF IInv
<1>1. ASSUME NEW w \in Workers, Step(w) \/ Fail(w) \/ Crash(w)
      PROVE  WarningsAgree'
  <2>0. /\ \A v \in Workers \ {w} : task'[v] = task[v]
        /\ task[w] \in Tasks /\ task \in [Workers -> Tasks]
    BY <1>0, <1>1, WorkerMoves DEF Moves, TypeOK
  <2>1. CASE InsertJob(w)
    <3>1. task'[w].pc \notin {"readWarnings", "writeWarnings", "complete"}
      <4>1. CASE Become(w, Idle)
        BY <2>0, <4>1, IdleTask DEF Become
      <4>2. CASE BeginSlice(w, task[w].start, task[w].final)
        BY <1>0, <4>2, SliceStage
      <4> QED BY <2>1, <4>1, <4>2 DEF InsertJob, Raise
    <3>2. \/ job' = job
          \/ job.status = "none" /\ job'.status = "running"
      BY <2>1 DEF InsertJob, Raise, database
    <3>3. \A v \in Workers \ {w} : At(v, "complete") => job.status # "none"
      BY <1>0 DEF Knows, Finishing, At
    <3> QED BY <2>0, <3>1, <3>2, <3>3 DEF WarningsAgree, At
  <2>2. CASE PickMints(w)
    <3>1. task'[w].pc \notin {"readWarnings", "writeWarnings", "complete"}
      BY <2>0, <2>2 DEF PickMints, AfterEnrichment, AfterSlice, Become, Tasks
    <3>2. job' = job
      BY <2>2 DEF PickMints, database
    <3> QED BY <2>0, <3>1, <3>2 DEF WarningsAgree, At
  <2>3. CASE EnrichMint(w)
    <3>1. /\ task'[w].pc # "complete"
          /\ task'[w].pc \in {"readWarnings", "writeWarnings"} => task'[w].codes # {}
      <4>1. PICK b \in task[w].todo, found \in {{}} \cup {{c} : c \in Codes} :
              Become(w, [task[w] EXCEPT !.todo = task[w].todo \ {b},
                !.codes = task[w].codes \cup found,
                !.pc = IF task[w].todo \ {b} = {}
                       THEN AfterEnrichment(w, task[w].codes \cup found) ELSE "enrich"])
        BY <2>3 DEF EnrichMint
      <4>2. PICK todo, codes : todo = task[w].todo \ {b} /\ codes = task[w].codes \cup found
        OBVIOUS
      <4>3. PICK pc : pc = IF todo = {} THEN AfterEnrichment(w, codes) ELSE "enrich"
        OBVIOUS
      <4>4. PICK t : t = [task[w] EXCEPT !.todo = todo, !.codes = codes, !.pc = pc]
        OBVIOUS
      <4>5. t.pc = pc /\ t.codes = codes
        BY <2>0, <4>4 DEF Tasks
      <4>6. task' = [task EXCEPT ![w] = t]
        BY <4>1, <4>2, <4>3, <4>4 DEF Become
      <4>7. task'[w].pc = pc /\ task'[w].codes = codes
        BY <2>0, <4>5, <4>6
      <4> QED BY <4>3, <4>7 DEF AfterEnrichment, AfterSlice
    <3>2. job' = job
      BY <2>3 DEF EnrichMint
    <3> QED BY <2>0, <3>1, <3>2 DEF WarningsAgree, At
  <2>4. CASE ReadWarnings(w)
    <3>1. task[w].pc = "readWarnings" /\ task'[w].pc = "writeWarnings"
          /\ task'[w].codes = task[w].codes
      BY <2>0, <2>4 DEF ReadWarnings, At, Become, Tasks
    <3>2. job' = job
      BY <2>4 DEF ReadWarnings, database
    <3> QED BY <2>0, <3>1, <3>2 DEF WarningsAgree, At
  <2>5. CASE WriteWarnings(w)
    <3>1. task[w].codes # {}
      BY <2>5 DEF WriteWarnings, WarningsAgree, At
    <3>2. job'.warnings = job.warnings \/ job'.warnings # {}
      BY <1>0, <2>5, <3>1 DEF WriteWarnings, Merged, TypeOK
    <3>3. job.status # "none" /\ job'.status = job.status
      BY <1>0, <2>5 DEF WriteWarnings, Knows, Enriching, At, TypeOK
    <3>4. task'[w].pc \notin {"readWarnings", "writeWarnings", "complete"}
      BY <2>0, <2>5 DEF WriteWarnings, AfterSlice, Goto, Become, Tasks
    <3> QED BY <2>0, <3>2, <3>3, <3>4 DEF WarningsAgree, At
  <2>6. CASE ReadJob(w)
    <3>1. task'[w].pc = "complete" /\ task'[w].seen = job.warnings
      BY <2>0, <2>6 DEF ReadJob, Become, Tasks
    <3>2. job' = job
      BY <2>6 DEF ReadJob, database
    <3> QED BY <2>0, <3>1, <3>2 DEF WarningsAgree, At
  <2>7. CASE ~ WarningSteps(w)
    BY <1>0, <1>1, <2>0, <2>7, WarningsApart, WarningsElsewhere
  <2> QED BY <2>1, <2>2, <2>3, <2>4, <2>5, <2>6, <2>7 DEF WarningSteps
<1>2. CASE HeadGrows \/ Request \/ UNCHANGED vars
  <2>1. UNCHANGED <<job, task>>
    BY <1>2 DEF HeadGrows, Request, vars, database
  <2> QED BY <2>1 DEF WarningsAgree, At
<1> QED BY <1>1, <1>2 DEF Next

\* A scan nobody asked for has not begun.
LEMMA InitReaders == Init => Readers!ScanInit /\ WarningsAgree
<1> SUFFICES ASSUME Init PROVE Readers!ScanInit /\ WarningsAgree
  OBVIOUS
<1>1. Readers!ScanInit
  BY DEF Init, Readers!ScanInit, NoJob, NoBlock
<1>2. WarningsAgree
  BY IdleTask DEF Init, WarningsAgree, NoJob, At
<1> QED BY <1>1, <1>2

\* Every step is one that readers expect, or one they do not see.
LEMMA StepReaders ==
  IInv /\ WarningsAgree /\ [Next]_vars => [Readers!ScanNext]_Readers!scan
<1> SUFFICES ASSUME IInv, WarningsAgree, [Next]_vars
             PROVE  Readers!ScanNext \/ UNCHANGED Readers!scan
  OBVIOUS
<1>0. TypeOK /\ Rows
  BY DEF IInv
<1>1. CASE UNCHANGED <<scanStatus, job, checkpoint>>
  BY <1>1 DEF Readers!scan
<1>2. ASSUME NEW w \in Workers, Step(w) \/ Fail(w) \/ Crash(w)
      PROVE  Readers!ScanNext \/ UNCHANGED Readers!scan
  <2>1. Knows(w) /\ Rows' /\ Grows
    BY <1>0, <1>2, WorkerMoves DEF IInv, Moves
  <2>2. CASE SaveDeployment(w)
    BY <2>2 DEF SaveDeployment, Readers!scan, Readers!ScanNext, Readers!Begin
  <2>3. CASE InsertJob(w)
    <3>1. CASE job' # job
      <4>1. /\ job.status = "none" /\ checkpoint = NoBlock
            /\ job'.status = "running" /\ job'.warnings = job.warnings
            /\ UNCHANGED <<scanStatus, checkpoint>>
        <5>1. /\ job.status = "none"
              /\ job' = [status |-> "running", start |-> task[w].start,
                         end |-> task[w].final, warnings |-> {}]
              /\ UNCHANGED <<scanStatus, checkpoint>>
          BY <2>3, <3>1 DEF InsertJob, Raise, database
        <5>2. checkpoint = NoBlock
          BY <1>0, <5>1 DEF Rows, RowsAgree
        <5>3. job.warnings = {}
          BY <5>1 DEF WarningsAgree
        <5>4. job'.status = "running" /\ job'.warnings = {}
          BY <5>1
        <5> QED BY <5>1, <5>2, <5>3, <5>4
      <4>2. job'.start \in Nat /\ job'.end \in Int /\ job'.start <= job'.end
        BY <1>0, <1>2, <2>1, <4>1, ChainAssumption, WorkerMoves
        DEF Rows, RowsAgree, Moves, TypeOK, IInv
      <4>3. job'.end - job'.start + 1 \in Nat \ {0}
        BY <4>2
      <4> QED BY <4>1, <4>3 DEF Readers!ScanNext, Readers!CreateJob
    <3>2. CASE job' = job
      BY <2>3, <3>2 DEF InsertJob, Raise, database, BeginSlice, Readers!scan
    <3> QED BY <3>1, <3>2
  <2>4. CASE CommitBatch(w)
    <3>1. job.status # "none" /\ job' = job /\ scanStatus' = scanStatus
      BY <2>1, <2>4 DEF CommitBatch, Knows, At
    <3>2. /\ job.start = Deployed /\ job.end \in Int /\ checkpoint' >= checkpoint
          /\ checkpoint = NoBlock \/ checkpoint \in Deployed..job.end
          /\ checkpoint' = NoBlock \/ checkpoint' \in Deployed..job.end
      BY <1>0, <2>1, <3>1 DEF Rows, RowsAgree, Grows, TypeOK
    <3>3. CASE checkpoint' # checkpoint
      BY <3>1, <3>2, <3>3, ChainAssumption DEF NoBlock, Readers!ScanNext, Readers!Advance
    <3> QED BY <1>1, <3>1, <3>3
  <2>5. CASE WriteWarnings(w)
    <3>1. /\ job.status # "none" /\ job.start = Deployed /\ Deployed <= job.end
          /\ job.end \in Int
      BY <1>0, <2>1, <2>5 DEF WriteWarnings, Knows, Enriching, At, Rows, RowsAgree, TypeOK
    <3>2. CASE job'.warnings # job.warnings
      <4>1. task[w].codes # {} /\ task[w].seen \subseteq Codes /\ task[w].codes \subseteq Codes
        BY <1>0, <2>5 DEF WriteWarnings, WarningsAgree, At, TypeOK, Tasks
      <4>2. job' = [job EXCEPT !.warnings = Merged(w)]
        BY <2>5, <3>2 DEF WriteWarnings
      <4>3. /\ job'.warnings \in (SUBSET Codes) \ {{}}
            /\ job'.status = job.status /\ job'.start = job.start /\ job'.end = job.end
        BY <1>0, <4>1, <4>2 DEF Merged, TypeOK
      <4>4. UNCHANGED <<scanStatus, checkpoint>>
        BY <2>5 DEF WriteWarnings
      <4>5. job.end - job.start + 1 # 0
        BY <3>1, ChainAssumption
      <4> QED BY <3>1, <3>2, <4>3, <4>4, <4>5 DEF Readers!ScanNext, Readers!Warn
    <3>3. CASE job'.warnings = job.warnings
      <4>1. /\ job'.status = job.status /\ job'.start = job.start /\ job'.end = job.end
            /\ UNCHANGED <<scanStatus, checkpoint>>
        BY <1>0, <2>5 DEF WriteWarnings, TypeOK
      <4> QED BY <3>3, <4>1 DEF Readers!scan
    <3> QED BY <3>2, <3>3
  <2>6. CASE Complete(w)
    <3>1. /\ job.status # "none" /\ job.start = Deployed /\ Deployed <= job.end
          /\ job.end \in Int /\ checkpoint = job.end
      BY <1>0, <2>1, <2>6 DEF Complete, Knows, Finishing, At, Rows, RowsAgree, TypeOK
    <3>2. /\ job'.status = "completed" /\ job'.start = job.start /\ job'.end = job.end
          /\ job'.warnings = job.warnings /\ checkpoint' = checkpoint
      BY <1>0, <2>6 DEF Complete, TypeOK
    <3>3. CASE scanStatus' # scanStatus
      <4>1. /\ scanStatus' \in {"complete", "quality_warning"}
            /\ scanStatus' = "quality_warning" => job.warnings # {}
        BY <2>6, <3>3 DEF Complete, FinalStatus, WarningsAgree, At
      <4>2. job.end - job.start + 1 # 0 /\ checkpoint # NoBlock
        BY <3>1, ChainAssumption DEF NoBlock
      <4> QED BY <3>1, <3>2, <3>3, <4>1, <4>2
              DEF Readers!ScanNext, Readers!End, Readers!Ended
    <3>4. CASE scanStatus' = scanStatus
      BY <3>1, <3>2, <3>4 DEF Readers!scan
    <3> QED BY <3>3, <3>4
  <2>7. CASE ~ (\/ SaveDeployment(w) \/ InsertJob(w) \/ CommitBatch(w)
               \/ WriteWarnings(w) \/ Complete(w))
    <3>1. UNCHANGED <<scanStatus, job, checkpoint>>
      BY <1>2, <2>7 DEF Step, Take, ReadFinalized, Probe, Raise, OpenJob, Refuse,
                        PickMints, EnrichMint, ReadWarnings, ReadJob, Resend, Ack, Fail,
                        Crash, database
    <3> QED BY <1>1, <3>1
  <2> QED BY <2>2, <2>3, <2>4, <2>5, <2>6, <2>7
<1>3. CASE HeadGrows \/ Request \/ UNCHANGED vars
  <2>1. UNCHANGED <<scanStatus, job, checkpoint>>
    BY <1>3 DEF HeadGrows, Request, vars, database
  <2> QED BY <1>1, <2>1
<1> QED BY <1>2, <1>3 DEF Next

\* The scan implements ScanProgress: its readers see it begin, go forward and
\* end with its range passed, whatever overlaps, dies or raises.
THEOREM ReadersSeeProgress == Spec => ShowsProgress
  BY InitReaders, StepReaders, StepWarnings, Invariance, PTL
  DEF Spec, ShowsProgress, Readers!ScanSpec

\* Types of the scan.
THEOREM TypeCorrect == Spec => []TypeOK
<1>1. IInv => TypeOK
  BY DEF IInv
<1> QED BY <1>1, Invariance, PTL

-----------------------------------------------------------------------------
(* What a collection shows, and what a task has read of the warnings.      *)

\* Who passed the probe left the deployment block in the row.
DeploymentSaved ==
  /\ job.status # "none" => deployment # NoBlock
  /\ \A w \in Workers :
       /\ task[w].pc \in {"job", "insert"} => deployment # NoBlock
       /\ At(w, "finalized") /\ task[w].start # NoBlock => deployment # NoBlock

EndShown == {"complete", "quality_warning"}

\* Without a race a task that has read the warnings has read what they still are,
\* and an end is shown, or was read, of a completed job only.
Agreed ==
  /\ ~ raced => \A w \in Workers : HasRead(w) => task[w].seen = job.warnings
  /\ scanStatus \in EndShown => job.status = "completed"
  /\ \A w \in Workers :
       At(w, "complete") /\ task[w].shown \in EndShown => job.status = "completed"

ShownInv == DeploymentSaved /\ Agreed /\ StatusShown

\* Where a task stands after each step before its slice begins.
LEMMA EarlyStages ==
  ASSUME TypeOK, NEW w \in Workers
  PROVE  /\ Take(w) => task'[w].pc = "finalized" /\ task'[w].start = deployment
         /\ ReadFinalized(w) =>
              task'[w].pc = IF task[w].start = NoBlock THEN "probe" ELSE "job"
         /\ Probe(w) => task'[w].pc \in {"deploy", "idle"}
         /\ SaveDeployment(w) => task'[w].pc = "job"
         /\ OpenJob(w) => \/ job.status = "none" /\ task'[w].pc = "insert"
                          \/ job.status = "running" /\ task'[w].pc \in {"scan", "readJob"}
                          \/ job.status = "completed" /\ task'[w].pc = "ack"
         /\ InsertJob(w) => \/ /\ job.status = "none" /\ job'.status = "running"
                               /\ task'[w].pc \in {"scan", "readJob"}
                            \/ /\ job' = job /\ task'[w].pc = "idle"
                               /\ job.status # "none" \/ ~ owed'
<1>0. task[w] \in Tasks /\ task \in [Workers -> Tasks]
  BY DEF TypeOK
<1>1. Take(w) => task'[w].pc = "finalized" /\ task'[w].start = deployment
  BY <1>0 DEF Take, Become, Idle
<1>2. ReadFinalized(w) => task'[w].pc = IF task[w].start = NoBlock THEN "probe" ELSE "job"
  BY <1>0 DEF ReadFinalized, Become, Tasks
<1>3. Become(w, Idle) => task'[w].pc = "idle"
  BY <1>0, IdleTask DEF Become
<1>4. Probe(w) => task'[w].pc \in {"deploy", "idle"}
  BY <1>0, <1>3 DEF Probe, Raise, Become, Tasks
<1>5. \A pc \in Stages : Goto(w, pc) => task'[w].pc = pc
  BY <1>0 DEF Goto, Become, Tasks
<1>6. SaveDeployment(w) => task'[w].pc = "job"
  BY <1>5 DEF SaveDeployment, Stages
<1>7. \A start, end : BeginSlice(w, start, end) => task'[w].pc \in {"scan", "readJob"}
  BY SliceStage
<1>8. OpenJob(w) => \/ job.status = "none" /\ task'[w].pc = "insert"
                    \/ job.status = "running" /\ task'[w].pc \in {"scan", "readJob"}
                    \/ job.status = "completed" /\ task'[w].pc = "ack"
  BY <1>5, <1>7 DEF OpenJob, Stages
<1>9. InsertJob(w) => \/ /\ job.status = "none" /\ job'.status = "running"
                         /\ task'[w].pc \in {"scan", "readJob"}
                      \/ /\ job' = job /\ task'[w].pc = "idle"
                         /\ job.status # "none" \/ ~ owed'
  BY <1>3, <1>7 DEF InsertJob, Raise, database
<1> QED BY <1>1, <1>2, <1>4, <1>6, <1>8, <1>9

\* Where an enrichment leads.
LEMMA EnrichStage ==
  ASSUME TypeOK, NEW w \in Workers, EnrichMint(w)
  PROVE  task'[w].pc \in {"enrich", "readWarnings", "readJob", "resend"}
<1>0. task[w] \in Tasks /\ task \in [Workers -> Tasks]
  BY DEF TypeOK
<1>1. PICK b \in task[w].todo, found \in {{}} \cup {{c} : c \in Codes} :
        LET todo == task[w].todo \ {b}
            codes == task[w].codes \cup found
        IN  /\ events' = [events EXCEPT ![b] = "enriched"]
            /\ Become(w, [task[w] EXCEPT !.todo = todo, !.codes = codes,
                 !.pc = IF todo = {} THEN AfterEnrichment(w, codes) ELSE "enrich"])
  BY DEF EnrichMint
<1>2. PICK todo, codes : todo = task[w].todo \ {b} /\ codes = task[w].codes \cup found
  OBVIOUS
<1>3. PICK pc : pc = IF todo = {} THEN AfterEnrichment(w, codes) ELSE "enrich"
  OBVIOUS
<1>4. PICK t : t = [task[w] EXCEPT !.todo = todo, !.codes = codes, !.pc = pc]
  OBVIOUS
<1>5. t.pc = pc
  BY <1>0, <1>4 DEF Tasks
<1>6. task' = [task EXCEPT ![w] = t]
  BY <1>1, <1>2, <1>3, <1>4 DEF Become
<1>7. task'[w].pc = pc
  BY <1>0, <1>5, <1>6
<1> QED BY <1>3, <1>7 DEF AfterEnrichment, AfterSlice

\* Where it stands after each step of its slice and of its end.
LEMMA LateStages ==
  ASSUME TypeOK, NEW w \in Workers
  PROVE  /\ CommitBatch(w) => task'[w].pc \in {"scan", "pick"}
         /\ PickMints(w) => task'[w].pc \in {"enrich", "readJob", "resend"}
         /\ EnrichMint(w) =>
              task'[w].pc \in {"enrich", "readWarnings", "readJob", "resend"}
         /\ ReadWarnings(w) => task'[w].pc = "writeWarnings" /\ task'[w].seen = job.warnings
         /\ WriteWarnings(w) => task'[w].pc \in {"readJob", "resend"}
         /\ ReadJob(w) => /\ task'[w].pc = "complete"
                          /\ task'[w].seen = job.warnings /\ task'[w].shown = scanStatus
         /\ Complete(w) \/ Resend(w) => task'[w].pc = "ack"
         /\ Ack(w) \/ Refuse(w) \/ Fail(w) \/ Crash(w) => task'[w].pc = "idle"
<1>0. task[w] \in Tasks /\ task \in [Workers -> Tasks]
  BY DEF TypeOK
<1>1. CommitBatch(w) => task'[w].pc \in {"scan", "pick"}
  BY <1>0 DEF CommitBatch, Become, Tasks
<1>2. PickMints(w) => task'[w].pc \in {"enrich", "readJob", "resend"}
  BY <1>0 DEF PickMints, AfterEnrichment, AfterSlice, Become, Tasks
<1>3. EnrichMint(w) => task'[w].pc \in {"enrich", "readWarnings", "readJob", "resend"}
  BY EnrichStage
<1>4. ReadWarnings(w) => task'[w].pc = "writeWarnings" /\ task'[w].seen = job.warnings
  BY <1>0 DEF ReadWarnings, Become, Tasks
<1>5. WriteWarnings(w) => task'[w].pc \in {"readJob", "resend"}
  BY <1>0 DEF WriteWarnings, AfterSlice, Goto, Become, Tasks
<1>6. ReadJob(w) => /\ task'[w].pc = "complete"
                    /\ task'[w].seen = job.warnings /\ task'[w].shown = scanStatus
  BY <1>0 DEF ReadJob, Become, Tasks
<1>7. Complete(w) \/ Resend(w) => task'[w].pc = "ack"
  BY <1>0 DEF Complete, Resend, Goto, Become, Tasks
<1>8. Ack(w) \/ Refuse(w) \/ Fail(w) \/ Crash(w) => task'[w].pc = "idle"
  BY <1>0, IdleTask DEF Ack, Refuse, Fail, Crash, Raise, Become
<1> QED BY <1>1, <1>2, <1>3, <1>4, <1>5, <1>6, <1>7, <1>8

\* The steps that write the job, the collection's status and its deployment
\* block, and those that note a race or a second deployment.
LEMMA WhoWrites ==
  ASSUME NEW w \in Workers, Step(w) \/ Fail(w) \/ Crash(w)
  PROVE  /\ \/ SaveDeployment(w) \/ InsertJob(w) \/ WriteWarnings(w) \/ Complete(w)
            \/ UNCHANGED <<job, scanStatus, deployment>>
         /\ WriteWarnings(w) \/ raced' = raced
         /\ SaveDeployment(w) \/ reopened' = reopened
<1>1. CASE Take(w) \/ ReadFinalized(w) \/ Probe(w) \/ OpenJob(w) \/ PickMints(w)
  BY <1>1 DEF Take, ReadFinalized, Probe, Raise, OpenJob, PickMints, database, marks
<1>2. CASE CommitBatch(w) \/ EnrichMint(w) \/ Complete(w)
  <2>1. UNCHANGED <<job, scanStatus, deployment, marks>> \/ Complete(w)
    BY <1>2, Zenon DEF CommitBatch, EnrichMint
  <2> QED BY <2>1 DEF Complete, marks
<1>3. CASE \/ ReadWarnings(w) \/ ReadJob(w) \/ Resend(w) \/ Ack(w)
           \/ Refuse(w) \/ Fail(w) \/ Crash(w)
  BY <1>3 DEF ReadWarnings, ReadJob, Resend, Ack, Refuse, Fail, Crash, Raise, database,
              marks
<1>4. CASE SaveDeployment(w) \/ InsertJob(w) \/ WriteWarnings(w)
  BY <1>4 DEF SaveDeployment, InsertJob, WriteWarnings
<1> QED BY <1>1, <1>2, <1>3, <1>4 DEF Step

\* Every step leaves the deployment block in the row of who relies on it.
LEMMA StepDeployment ==
  ASSUME IInv, DeploymentSaved, NEW w \in Workers, Step(w) \/ Fail(w) \/ Crash(w)
  PROVE  DeploymentSaved'
<1>0. /\ TypeOK /\ Knows(w)
      /\ \A v \in Workers \ {w} : task'[v] = task[v]
  BY WorkerMoves DEF IInv, Moves
<1>1. CASE SaveDeployment(w)
  <2>1. deployment' = Deployed /\ job' = job
    BY <1>0, <1>1 DEF SaveDeployment, Knows, At, Starting
  <2> QED BY <2>1, ChainAssumption DEF DeploymentSaved, NoBlock
<1>2. CASE InsertJob(w)
  <2>1. deployment # NoBlock
    BY <1>2 DEF InsertJob, DeploymentSaved, At
  <2>2. deployment' = deployment
    BY <1>2 DEF InsertJob, Raise, database
  <2> QED BY <2>1, <2>2 DEF DeploymentSaved
<1>3. CASE OpenJob(w) \/ ReadFinalized(w)
  <2>1. UNCHANGED <<job, deployment>>
    BY <1>3 DEF OpenJob, ReadFinalized, database
  <2>2. task'[w].pc = "insert" => deployment # NoBlock
    BY <1>0, <1>3, EarlyStages DEF OpenJob, DeploymentSaved, At
  <2>3. task'[w].pc = "job" => deployment # NoBlock
    BY <1>0, <1>3, EarlyStages DEF ReadFinalized, DeploymentSaved, At
  <2>4. task'[w].pc # "finalized"
    BY <1>0, <1>3, EarlyStages
  <2> QED BY <1>0, <2>1, <2>2, <2>3, <2>4 DEF DeploymentSaved, At
<1>4. CASE ~ (SaveDeployment(w) \/ InsertJob(w) \/ OpenJob(w) \/ ReadFinalized(w))
  <2>1. /\ task'[w].pc \notin {"job", "insert"}
        /\ task'[w].pc = "finalized" => task'[w].start = deployment
    BY <1>0, <1>4, EarlyStages, LateStages DEF Step
  <2>2. deployment' = deployment /\ (job'.status = "none" \/ job.status # "none")
    <3>1. CASE WriteWarnings(w) \/ Complete(w)
      BY <1>0, <3>1 DEF WriteWarnings, Complete, Knows, Enriching, Finishing, At
    <3>2. CASE ~ (WriteWarnings(w) \/ Complete(w))
      BY <1>4, <3>2, WhoWrites
    <3> QED BY <3>1, <3>2
  <2> QED BY <1>0, <2>1, <2>2 DEF DeploymentSaved, At
<1> QED BY <1>1, <1>2, <1>3, <1>4

\* Where a step leads that reads neither the warnings nor the rows to complete.
LEMMA ReadsElsewhere ==
  ASSUME TypeOK, NEW w \in Workers, Step(w) \/ Fail(w) \/ Crash(w)
  PROVE  ReadWarnings(w) \/ ReadJob(w) \/ ~ HasRead(w)'
<1>1. ReadWarnings(w) \/ ReadJob(w) \/ task'[w].pc \notin {"writeWarnings", "complete"}
  BY EarlyStages, LateStages DEF Step
<1> QED BY <1>1 DEF HasRead, At

\* A step leaves what tasks have read in step with the rows, or notes the race.
LEMMA StepAgreed ==
  ASSUME IInv, Agreed, NEW w \in Workers, Step(w) \/ Fail(w) \/ Crash(w)
  PROVE  Agreed'
<1>0. /\ TypeOK /\ (\A v \in Workers : Knows(v))
      /\ \A v \in Workers \ {w} : task'[v] = task[v]
  BY WorkerMoves DEF IInv, Moves
<1>1. \A v \in Workers \ {w} : HasRead(v)' = HasRead(v)
  BY <1>0 DEF HasRead, At
<1>2. job.status = "completed" => job'.status = "completed"
  BY <1>0, StepKeeps
<1>3. ASSUME ~ raced', NEW v \in Workers, HasRead(v)'
      PROVE  task'[v].seen = job'.warnings
  <2>1. CASE v = w
    <3>1. ReadWarnings(w) \/ ReadJob(w)
      BY <1>0, <1>3, <2>1, ReadsElsewhere
    <3>2. task'[w].seen = job.warnings
      BY <1>0, <3>1, LateStages
    <3>3. job' = job
      BY <3>1 DEF ReadWarnings, ReadJob, database
    <3> QED BY <2>1, <3>2, <3>3
  <2>2. CASE v # w
    <3>1. HasRead(v) /\ task'[v] = task[v]
      BY <1>0, <1>1, <1>3, <2>2
    <3>2. ~ raced
      <4>1. CASE WriteWarnings(w)
        BY <1>3, <4>1 DEF WriteWarnings
      <4>2. CASE ~ WriteWarnings(w)
        BY <1>3, <4>2, WhoWrites
      <4> QED BY <4>1, <4>2
    <3>3. task[v].seen = job.warnings
      BY <3>1, <3>2 DEF Agreed
    <3>4. job'.warnings = job.warnings
      <4>1. CASE InsertJob(w)
        <5>1. job.status # "none"
          BY <1>0, <3>1 DEF HasRead, At, Knows, Enriching, Finishing
        <5> QED BY <1>0, <4>1, <5>1, EarlyStages
      <4>2. CASE WriteWarnings(w)
        <5>1. Watched(w)
          BY <2>2, <3>1 DEF Watched
        <5> QED BY <1>3, <4>2, <5>1 DEF WriteWarnings
      <4>3. CASE Complete(w)
        BY <1>0, <4>3 DEF Complete, TypeOK
      <4>4. CASE SaveDeployment(w)
        BY <4>4 DEF SaveDeployment
      <4> QED BY <4>1, <4>2, <4>3, <4>4, WhoWrites
    <3> QED BY <3>1, <3>3, <3>4
  <2> QED BY <2>1, <2>2
<1>4. scanStatus' \in EndShown => job'.status = "completed"
  <2>1. CASE Complete(w)
    BY <1>0, <2>1 DEF Complete, TypeOK
  <2>2. CASE SaveDeployment(w)
    BY <2>2 DEF SaveDeployment, EndShown
  <2>3. CASE InsertJob(w) \/ WriteWarnings(w)
    <3>1. scanStatus' = scanStatus
      BY <2>3 DEF InsertJob, Raise, database, WriteWarnings
    <3> QED BY <1>2, <3>1 DEF Agreed
  <2> QED BY <2>1, <2>2, <2>3, WhoWrites DEF Agreed
<1>5. ASSUME NEW v \in Workers, At(v, "complete")', task'[v].shown \in EndShown
      PROVE  job'.status = "completed"
  <2>1. CASE v = w
    <3>1. ReadJob(w)
      BY <1>0, <1>5, <2>1, ReadsElsewhere, LateStages DEF HasRead, At
    <3>2. task'[w].shown = scanStatus
      BY <1>0, <3>1, LateStages
    <3> QED BY <1>2, <1>5, <2>1, <3>2 DEF Agreed
  <2>2. CASE v # w
    BY <1>0, <1>2, <1>5, <2>2 DEF Agreed, At
  <2> QED BY <2>1, <2>2
<1> QED BY <1>3, <1>4, <1>5 DEF Agreed

\* A step leaves a completed job shown, or notes why it is not.
LEMMA StepShown ==
  ASSUME IInv, ShownInv, NEW w \in Workers, Step(w) \/ Fail(w) \/ Crash(w)
  PROVE  StatusShown'
<1>0. TypeOK /\ DeploymentSaved /\ Agreed /\ StatusShown
  BY DEF IInv, ShownInv
<1>1. SUFFICES ASSUME job'.status = "completed", ~ raced'
               PROVE  \/ scanStatus' = IF job'.warnings = {} THEN "complete"
                                       ELSE "quality_warning"
                      \/ reopened' /\ scanStatus' = "scanning"
  BY DEF StatusShown
<1>2. CASE Complete(w)
  <2>1. ~ raced /\ reopened' = reopened
    BY <1>1, <1>2 DEF Complete, marks
  <2>2. task[w].seen = job.warnings /\ job'.warnings = job.warnings
    BY <1>0, <1>2, <2>1 DEF Complete, Agreed, HasRead, TypeOK
  <2>3. FinalStatus(w) = IF job.warnings = {} THEN "complete" ELSE "quality_warning"
    BY <2>2 DEF FinalStatus
  <2>4. CASE FinalStatus(w) = task[w].shown
    <3>1. job.status = "completed"
      BY <1>0, <1>2, <2>3, <2>4 DEF Complete, Agreed, EndShown
    <3>2. scanStatus' = scanStatus
      BY <1>2, <2>4 DEF Complete
    <3> QED BY <1>0, <2>1, <2>2, <3>1, <3>2 DEF StatusShown
  <2>5. CASE FinalStatus(w) # task[w].shown
    <3>1. scanStatus' = FinalStatus(w)
      BY <1>2, <2>5 DEF Complete
    <3> QED BY <2>2, <2>3, <3>1
  <2> QED BY <2>4, <2>5
<1>3. CASE WriteWarnings(w)
  <2>1. job'.status = job.status
    BY <1>0, <1>3 DEF WriteWarnings, TypeOK
  <2>2. ~ raced /\ job' = job
    BY <1>1, <1>3, <2>1 DEF WriteWarnings, Watched
  <2>3. UNCHANGED <<scanStatus, reopened>>
    BY <1>3 DEF WriteWarnings
  <2> QED BY <1>0, <1>1, <2>2, <2>3 DEF StatusShown
<1>4. CASE SaveDeployment(w)
  <2>1. job' = job /\ scanStatus' = "scanning"
    BY <1>4 DEF SaveDeployment
  <2>2. deployment # NoBlock
    BY <1>0, <1>1, <2>1 DEF DeploymentSaved
  <2>3. reopened'
    BY <1>4, <2>2 DEF SaveDeployment
  <2> QED BY <2>1, <2>3
<1>5. CASE InsertJob(w)
  <2>1. job' = job
    BY <1>0, <1>1, <1>5, EarlyStages
  <2>2. UNCHANGED <<scanStatus, raced, reopened>>
    BY <1>5 DEF InsertJob, Raise, database
  <2> QED BY <1>0, <1>1, <2>1, <2>2 DEF StatusShown
<1>6. CASE ~ (Complete(w) \/ WriteWarnings(w) \/ SaveDeployment(w) \/ InsertJob(w))
  <2>1. UNCHANGED <<job, scanStatus, raced, reopened>>
    BY <1>6, WhoWrites
  <2> QED BY <1>0, <1>1, <2>1 DEF StatusShown
<1> QED BY <1>2, <1>3, <1>4, <1>5, <1>6

\* Nothing has been read and nothing is completed at first.
LEMMA InitShown == Init => ShownInv
<1> SUFFICES ASSUME Init PROVE ShownInv
  OBVIOUS
<1>1. \A w \in Workers : At(w, "idle")
  BY IdleTask DEF Init, At
<1>2. job.status = "none" /\ scanStatus = "pending"
  BY DEF Init, NoJob
<1> QED BY <1>1, <1>2 DEF ShownInv, DeploymentSaved, Agreed, EndShown, HasRead,
                          StatusShown, At

\* Every step keeps it.
LEMMA StepShownInv == IInv /\ ShownInv /\ [Next]_vars => ShownInv'
<1> SUFFICES ASSUME IInv, ShownInv, [Next]_vars PROVE ShownInv'
  OBVIOUS
<1>1. ASSUME NEW w \in Workers, Step(w) \/ Fail(w) \/ Crash(w)
      PROVE  ShownInv'
  BY <1>1, StepDeployment, StepAgreed, StepShown DEF ShownInv
<1>2. CASE HeadGrows \/ Request \/ UNCHANGED vars
  <2>1. UNCHANGED <<deployment, scanStatus, job, task, raced, reopened>>
    BY <1>2 DEF HeadGrows, Request, vars, database, marks
  <2>2. DeploymentSaved' /\ Agreed'
    BY <2>1 DEF ShownInv, DeploymentSaved, Agreed, HasRead, At
  <2>3. StatusShown'
    BY <2>1 DEF ShownInv, StatusShown
  <2> QED BY <2>2, <2>3 DEF ShownInv
<1> QED BY <1>1, <1>2 DEF Next

\* Unless a warning was written between another task's reading and its using of
\* the list, or after the end, the collection of a completed job shows whether the
\* job has warnings, or "scanning" if its deployment block was saved twice
\* (_scan_collection, completed).
THEOREM CompletedScanIsShown == Spec => []StatusShown
<1>1. ShownInv => StatusShown
  BY DEF ShownInv
<1> QED BY InitShown, StepShownInv, Invariance, <1>1, PTL DEF Spec

\* Without such a race no warning is lost: the list a task writes back is the one
\* there is, with its own added (_scan_collection, quality_warnings).
THEOREM WarningsAreKept == Spec => WarningsKept
<1> DEFINE Kept == ~ raced => job.warnings \subseteq job'.warnings
<1>1. IInv /\ ShownInv /\ WarningsAgree /\ [Next]_vars => [Kept]_vars
  <2> SUFFICES ASSUME IInv, ShownInv, WarningsAgree, Next, ~ raced
               PROVE  job.warnings \subseteq job'.warnings
    OBVIOUS
  <2>0. TypeOK
    BY DEF IInv
  <2>1. ASSUME NEW w \in Workers, Step(w) \/ Fail(w) \/ Crash(w)
        PROVE  job.warnings \subseteq job'.warnings
    <3>1. CASE InsertJob(w)
      <4>1. job' = job \/ job.status = "none"
        BY <2>0, <3>1, EarlyStages
      <4> QED BY <4>1 DEF WarningsAgree
    <3>2. CASE WriteWarnings(w)
      <4>1. task[w].seen = job.warnings
        BY <3>2 DEF WriteWarnings, ShownInv, Agreed, HasRead
      <4> QED BY <2>0, <3>2, <4>1 DEF WriteWarnings, Merged, TypeOK
    <3>3. CASE Complete(w)
      BY <2>0, <3>3 DEF Complete, TypeOK
    <3>4. CASE SaveDeployment(w)
      BY <3>4 DEF SaveDeployment
    <3> QED BY <2>1, <3>1, <3>2, <3>3, <3>4, WhoWrites
  <2>2. CASE HeadGrows \/ Request
    BY <2>2 DEF HeadGrows, Request, database
  <2> QED BY <2>1, <2>2 DEF Next
<1>2. WarningsKept <=> [][Kept]_vars
  BY DEF WarningsKept
<1> HIDE DEF Kept
<1> QED BY InitShown, StepShownInv, InitReaders, StepWarnings, Invariance, <1>1, <1>2, PTL
        DEF Spec

-----------------------------------------------------------------------------
(* What keeps a scan going.                                                *)

\* A task that has a message to send or a job to end before it is over.  One
\* about to lose the race to create the job has neither.
Busy(w) ==
  /\ task[w].pc \notin {"idle", "ack"}
  /\ At(w, "insert") => job.status = "none"

\* A scan that was asked for and is not completed has a message waiting or a
\* task at work, unless a task was refused or raised since: what the safety of
\* ScanCompletes comes down to (_scan_collection, Celery's acks_late).
ScanNeverStalls ==
  owed /\ job.status # "completed" => queue > 0 \/ \E w \in Workers : Busy(w)

\* A busy task stays busy, or sends a message, ends the job, or gives a reason.
LEMMA BusyGoesOn ==
  ASSUME TypeOK, NEW w \in Workers, Busy(w), Step(w) \/ Fail(w) \/ Crash(w)
  PROVE  \/ Busy(w)' \/ queue' > 0
         \/ job'.status = "completed" \/ ~ owed'
<1>1. CASE Probe(w)
  <2>1. task'[w].pc = "deploy" \/ ~ owed'
    BY <1>1, ChainAssumption, EarlyStages, IdleTask DEF Probe, Become, TypeOK, Tasks
  <2> QED BY <2>1 DEF Busy, At
<1>2. CASE OpenJob(w)
  <2>1. job' = job
    BY <1>2 DEF OpenJob, database
  <2> QED BY <1>2, <2>1, EarlyStages DEF Busy, At
<1>3. CASE InsertJob(w)
  BY <1>3, EarlyStages DEF Busy, At, InsertJob
<1>4. CASE Resend(w)
  BY <1>4 DEF Resend, TypeOK
<1>5. CASE Crash(w)
  BY <1>5 DEF Crash, Redeliver, TypeOK
<1>6. CASE Fail(w) \/ Refuse(w)
  BY <1>6 DEF Fail, Refuse
<1>7. CASE Complete(w)
  BY <1>7 DEF Complete, TypeOK
<1>8. CASE Take(w) \/ Ack(w)
  BY <1>8 DEF Take, Ack, Busy, At
<1>9. CASE \/ ReadFinalized(w) \/ SaveDeployment(w) \/ CommitBatch(w) \/ PickMints(w)
           \/ EnrichMint(w) \/ ReadWarnings(w) \/ WriteWarnings(w) \/ ReadJob(w)
  <2>1. task'[w].pc \notin {"idle", "ack", "insert"}
    BY <1>9, EarlyStages, LateStages
  <2> QED BY <2>1 DEF Busy, At
<1> QED BY <1>1, <1>2, <1>3, <1>4, <1>5, <1>6, <1>7, <1>8, <1>9 DEF Step

\* Every step keeps a message or a busy task.
LEMMA StepNeverStalls == IInv /\ ScanNeverStalls /\ [Next]_vars => ScanNeverStalls'
<1> SUFFICES ASSUME IInv, ScanNeverStalls, [Next]_vars,
                    (owed /\ job.status # "completed")'
             PROVE  queue' > 0 \/ \E w \in Workers : Busy(w)'
  BY DEF ScanNeverStalls
<1>0. TypeOK
  BY DEF IInv
<1>1. ASSUME NEW w \in Workers, Step(w) \/ Fail(w) \/ Crash(w)
      PROVE  queue' > 0 \/ \E v \in Workers : Busy(v)'
  <2>1. owed /\ job.status # "completed"
    <3>1. owed' => owed
      <4>1. CASE Take(w) \/ ReadFinalized(w) \/ Probe(w) \/ SaveDeployment(w) \/ OpenJob(w)
        BY <4>1 DEF Take, ReadFinalized, Probe, SaveDeployment, OpenJob, marks
      <4>2. CASE InsertJob(w) \/ CommitBatch(w) \/ PickMints(w) \/ EnrichMint(w)
        <5>1. owed' = owed \/ owed' = FALSE
          BY <4>2, Zenon DEF InsertJob, CommitBatch, PickMints, EnrichMint, marks
        <5> QED BY <5>1
      <4>3. CASE ReadWarnings(w) \/ WriteWarnings(w) \/ ReadJob(w) \/ Complete(w)
        BY <4>3 DEF ReadWarnings, WriteWarnings, ReadJob, Complete, marks
      <4>4. CASE Resend(w) \/ Ack(w) \/ Refuse(w) \/ Fail(w) \/ Crash(w)
        BY <4>4 DEF Resend, Ack, Refuse, Fail, Crash, marks
      <4> QED BY <1>1, <4>1, <4>2, <4>3, <4>4 DEF Step
    <3>2. job.status = "completed" => job'.status = "completed"
      BY <1>0, <1>1, StepKeeps
    <3> QED BY <3>1, <3>2
  <2>2. queue > 0 \/ \E v \in Workers : Busy(v)
    BY <2>1 DEF ScanNeverStalls
  <2>3. CASE Take(w)
    <3>1. task'[w].pc = "finalized"
      BY <1>0, <2>3, EarlyStages
    <3> QED BY <3>1 DEF Busy, At
  <2>4. CASE Busy(w)
    BY <1>0, <1>1, <2>4, BusyGoesOn
  <2>5. CASE ~ Take(w) /\ ~ Busy(w)
    <3>1. queue' >= queue /\ job' = job
      <4>1. CASE InsertJob(w)
        <5>1. job.status # "none"
          BY <2>5, <4>1 DEF InsertJob, Busy, At
        <5>2. Raise(w)
          BY <4>1, <5>1, Zenon DEF InsertJob
        <5> QED BY <1>0, <5>2 DEF Raise, database, TypeOK
      <4>2. CASE Ack(w)
        BY <1>0, <4>2 DEF Ack, database, TypeOK
      <4>3. CASE Crash(w)
        BY <1>0, <4>3 DEF Crash, Redeliver, database, TypeOK
      <4>4. CASE Fail(w) \/ Refuse(w)
        BY <1>0, <4>4 DEF Fail, Refuse, Raise, database, TypeOK
      <4> QED BY <1>1, <2>5, <4>1, <4>2, <4>3, <4>4
              DEF Step, ReadFinalized, Probe, SaveDeployment, OpenJob, CommitBatch,
                  PickMints, EnrichMint, ReadWarnings, WriteWarnings, ReadJob, Complete,
                  Resend, Busy, At
    <3>2. \A v \in Workers \ {w} : task'[v] = task[v]
      BY <1>1, WorkerMoves DEF IInv, Moves
    <3>3. \A v \in Workers : Busy(v) => v # w /\ Busy(v)'
      BY <2>5, <3>1, <3>2 DEF Busy, At
    <3>4. queue > 0 => queue' > 0
      BY <1>0, <3>1, WorkerMoves, <1>1 DEF TypeOK, IInv, Moves
    <3> QED BY <2>2, <3>3, <3>4
  <2>6. CASE ~ Take(w) /\ Busy(w)
    BY <2>4, <2>6
  <2> QED BY <2>3, <2>5, <2>6
<1>2. CASE Request
  BY <1>0, <1>2 DEF Request, TypeOK
<1>3. CASE HeadGrows \/ UNCHANGED vars
  <2>1. UNCHANGED <<job, owed, queue, task>>
    BY <1>3 DEF HeadGrows, vars, database, marks
  <2> QED BY <2>1 DEF ScanNeverStalls, Busy, At
<1> QED BY <1>1, <1>2, <1>3 DEF Next

\* No death and no lost race leaves a scan without a message or a task: the
\* fairness of ScanCompletes has something to work on in every state.
THEOREM ScansNeverStall == Spec => []ScanNeverStalls
<1>1. Init => ScanNeverStalls
  BY DEF Init, ScanNeverStalls
<1> QED BY <1>1, StepNeverStalls, Invariance, PTL DEF Spec

=============================================================================
