------------------------- MODULE CaptureQueueProofs -------------------------
(***************************************************************************)
(* What holds of CaptureQueue for every set of exports, records and        *)
(* commands, every depth of the queue and every bound.                     *)
(***************************************************************************)
EXTENDS CaptureQueue, FiniteSetTheorems, TLAPS

LEMMA SpentDomain ==
  {"posts", "bursts", "pauses", "faults", "panics", "exits"} = DOMAIN Bound
BY DEF Bound

LEMMA ContentCounts ==
  ASSUME NEW b \in Batch
  PROVE  Content[b] \subseteq Record /\ Cardinality(Content[b]) \in Nat
<1>1. Content[b] \subseteq Record
  BY QueueAssumption
<1> QED BY <1>1, QueueAssumption, FS_Subset, FS_CardinalityType

\* What a handler answers with.
HandlerType == [Batch -> [at : {"none", "arrived", "admitted"}, seq : Nat]]
ExporterType == [Batch -> {"unsent", "sent", "refused", "done"}]

LEMMA RespondType ==
  ASSUME TypeOK, NEW b \in Batch, Respond(b, TRUE) \/ Respond(b, FALSE)
  PROVE  /\ handler' = [handler EXCEPT ![b] = NoHandler]
         /\ handler' \in HandlerType
         /\ exporter' \in ExporterType
         /\ \A c \in Batch : c # b => exporter'[c] = exporter[c]
<1>1. handler \in HandlerType /\ exporter \in ExporterType
  BY DEF TypeOK, HandlerType, ExporterType
<1>2. NoHandler \in [at : {"none", "arrived", "admitted"}, seq : Nat]
  BY DEF NoHandler
<1>3. handler' = [handler EXCEPT ![b] = NoHandler]
  BY DEF Respond
<1>4. \E e \in {"done", "refused"} : exporter' = [exporter EXCEPT ![b] = e]
  BY DEF Respond
<1>5. handler' \in HandlerType
  BY <1>1, <1>2, <1>3 DEF HandlerType
<1>6. exporter' \in ExporterType /\ \A c \in Batch : c # b => exporter'[c] = exporter[c]
  BY <1>1, <1>4 DEF ExporterType
<1> QED BY <1>3, <1>5, <1>6

-----------------------------------------------------------------------------
(* Types. Beside its type, a job is of somebody of its kind.               *)

JobsOfTheirKind ==
  \A i \in DOMAIN queue : /\ queue[i].kind = "batch" => queue[i].of \in Batch
                          /\ queue[i].kind = "ask" => queue[i].of \in Asker

Shape == TypeOK /\ JobsOfTheirKind

LEMMA PushShape ==
  ASSUME Shape, Room, NEW job \in JobType, Push(job),
         job.kind = "batch" => job.of \in Batch, job.kind = "ask" => job.of \in Asker
  PROVE  /\ queue' \in Seq(JobType) /\ Len(queue') <= Depth
         /\ JobsOfTheirKind'
<1>1. queue \in Seq(JobType) /\ Len(queue) \in Nat /\ Depth \in Nat
  BY QueueAssumption DEF Shape, TypeOK
<1>2. queue' = Append(queue, job) /\ Len(queue') = Len(queue) + 1
  BY <1>1 DEF Push
<1>3. \A i \in DOMAIN queue' : IF i \in DOMAIN queue THEN queue'[i] = queue[i] ELSE queue'[i] = job
  BY <1>1, <1>2
<1>4. JobsOfTheirKind'
  BY <1>3 DEF Shape, JobsOfTheirKind
<1> QED BY <1>1, <1>2, <1>4 DEF Room

LEMMA PopShape ==
  ASSUME Shape, queue # <<>>, queue' = Tail(queue)
  PROVE  /\ queue' \in Seq(JobType) /\ Len(queue') <= Depth
         /\ JobsOfTheirKind'
         /\ Head(queue) \in JobType /\ Head(queue) = queue[1]
         /\ Head(queue).kind = "batch" => Head(queue).of \in Batch
         /\ Head(queue).kind = "ask" => Head(queue).of \in Asker
         /\ \A i \in DOMAIN queue' : i + 1 \in DOMAIN queue /\ queue'[i] = queue[i + 1]
         /\ \A i \in DOMAIN queue : i # 1 => i - 1 \in DOMAIN queue' /\ queue'[i - 1] = queue[i]
<1>1. queue \in Seq(JobType) /\ Len(queue) \in Nat /\ Depth \in Nat /\ Len(queue) <= Depth
  BY QueueAssumption DEF Shape, TypeOK
<1>2. queue' \in Seq(JobType) /\ Len(queue') = Len(queue) - 1 /\ Len(queue) > 0
  BY <1>1
<1>3. \A i \in DOMAIN queue' : i + 1 \in DOMAIN queue /\ queue'[i] = queue[i + 1]
  BY <1>1, <1>2
<1>4. \A i \in DOMAIN queue : i # 1 => i - 1 \in DOMAIN queue' /\ queue'[i - 1] = queue[i]
  BY <1>1, <1>2
<1>5. Head(queue) = queue[1] /\ 1 \in DOMAIN queue /\ Head(queue) \in JobType
  BY <1>1, <1>2
<1>6. JobsOfTheirKind'
  BY <1>3 DEF Shape, JobsOfTheirKind
<1> QED BY <1>1, <1>2, <1>3, <1>4, <1>5, <1>6 DEF Shape, JobsOfTheirKind

LEMMA SpendType ==
  ASSUME TypeOK, NEW what \in DOMAIN Bound, Spend(what)
  PROVE  spent' \in [DOMAIN Bound -> Nat]
BY DEF TypeOK, Spend

CountersType ==
  [{"batches", "records", "dropped", "rejected_bodies", "paused_drops"} -> Nat]
TallyType == [{"arrived", "empty", "accepted"} -> Nat]

LEMMA BumpType ==
  ASSUME TypeOK, NEW c \in {"batches", "dropped", "rejected_bodies", "paused_drops"}, Bump(c)
  PROVE  counters' \in CountersType
BY DEF TypeOK, Bump, CountersType

LEMMA NoteType ==
  ASSUME TypeOK, NEW t \in {"arrived", "empty", "accepted"}, Note(t)
  PROVE  tally' \in TallyType
BY DEF TypeOK, Note, TallyType

\* The type invariant for one request.
LEMMA RequestKeepsShape ==
  ASSUME Shape, NEW b \in Batch, Post(b) \/ Handle(b)
  PROVE  Shape'
<1> USE DEF Shape
<1>0. UNCHANGED queue => JobsOfTheirKind'
  BY DEF JobsOfTheirKind
<1>1. CASE Post(b)
  <2>1. spent' \in [DOMAIN Bound -> Nat]
    BY <1>1, SpendType, SpentDomain DEF Post
  <2>2. handler' \in [Batch -> [at : {"none", "arrived", "admitted"}, seq : Nat]]
    BY <1>1 DEF Post, NoHandler, TypeOK
  <2> QED BY <1>0, <1>1, <2>1, <2>2 DEF Post, TypeOK, Note
<1>2. CASE Reject(b)
  BY <1>0, <1>2 DEF Reject, TypeOK, Bump, NoHandler
<1>3. CASE AcceptEmpty(b)
  <2>1. handler' \in HandlerType /\ exporter' \in ExporterType
    BY <1>3, RespondType DEF AcceptEmpty
  <2>2. /\ tally' = [tally EXCEPT !["empty"] = @ + 1]
        /\ UNCHANGED <<up, writer, queue, paused, counters, lane, asker, rows, outcome, spent>>
    BY <1>3 DEF AcceptEmpty, Note
  <2> QED BY <1>0, <2>1, <2>2 DEF TypeOK, HandlerType, ExporterType
<1>4. CASE DropPaused(b)
  <2>1. handler' \in HandlerType /\ exporter' \in ExporterType
    BY <1>4, RespondType DEF DropPaused
  <2>2. counters' \in CountersType
    BY <1>4, BumpType DEF DropPaused
  <2>3. UNCHANGED <<up, writer, queue, paused, lane, asker, rows, tally, outcome, spent>>
    BY <1>4 DEF DropPaused
  <2> QED BY <1>0, <2>1, <2>2, <2>3 DEF TypeOK, HandlerType, ExporterType, CountersType
<1>5. CASE Admit(b)
  BY <1>0, <1>5 DEF Admit, TypeOK, Bump, SeqOfBatch
<1>6. CASE Accept(b)
  <2>1. Job("batch", b, handler[b].seq) \in JobType
    BY DEF Job, JobType, TypeOK
  <2>2. /\ queue' \in Seq(JobType) /\ Len(queue') <= Depth
        /\ JobsOfTheirKind'
    BY <1>6, <2>1, PushShape DEF Accept, Job
  <2>3. counters' \in CountersType
    <3>1. counters' = [counters EXCEPT !.records = @ + Cardinality(Content[b])]
        BY <1>6 DEF Accept
    <3>2. counters \in CountersType
      BY DEF TypeOK, CountersType
    <3>3. counters.records + Cardinality(Content[b]) \in Nat
      BY <3>2, ContentCounts DEF CountersType
    <3> QED BY <3>1, <3>2, <3>3 DEF CountersType
  <2>4. handler' \in HandlerType /\ exporter' \in ExporterType
    BY <1>6, RespondType DEF Accept
  <2>5. tally' \in TallyType
    BY <1>6, NoteType DEF Accept
  <2>6. /\ outcome' = [outcome EXCEPT !.accepted = @ \cup {b}]
        /\ UNCHANGED <<up, writer, paused, lane, asker, rows, spent>>
    BY <1>6 DEF Accept
  <2>7. outcome' \in [accepted : SUBSET Batch, failed : SUBSET Batch, run : SUBSET Asker]
    BY <2>6 DEF TypeOK
  <2> QED BY <2>2, <2>3, <2>4, <2>5, <2>6, <2>7
          DEF TypeOK, HandlerType, ExporterType, CountersType, TallyType
<1>7. CASE Refuse(b)
  <2>1. handler' \in HandlerType /\ exporter' \in ExporterType
    BY <1>7, RespondType DEF Refuse
  <2>2. counters' \in CountersType
    BY <1>7, BumpType DEF Refuse
  <2>3. UNCHANGED <<up, writer, queue, paused, lane, asker, rows, tally, outcome, spent>>
    BY <1>7 DEF Refuse
  <2> QED BY <1>0, <2>1, <2>2, <2>3 DEF TypeOK, HandlerType, ExporterType, CountersType
<1> QED BY <1>1, <1>2, <1>3, <1>4, <1>5, <1>6, <1>7 DEF Handle

LaneType == [{"tailer", "user"} -> {"idle", "waiting"}]
AskerType == [Asker -> {"idle", "submitting", "waiting", "replied", "stopped"}]
OutcomeType == [accepted : SUBSET Batch, failed : SUBSET Batch, run : SUBSET Asker]
RowType == [record : Record, ref : Nat, batch : Batch]

\* ... for the tailer and the commands ...
LEMMA CallerKeepsShape ==
  ASSUME Shape,
         \/ HandBurst
         \/ \E l \in DOMAIN NoLane : SubmitBurst(l)
         \/ \E a \in Asker : Ask(a) \/ SubmitAsk(a)
  PROVE  Shape'
<1> USE DEF Shape
<1>0. UNCHANGED queue => JobsOfTheirKind'
  BY DEF JobsOfTheirKind
<1>1. CASE HandBurst
  <2>1. spent' \in [DOMAIN Bound -> Nat]
    BY <1>1, SpendType, SpentDomain DEF HandBurst
  <2> QED BY <1>0, <1>1, <2>1 DEF HandBurst, TypeOK
<1>2. ASSUME NEW l \in DOMAIN NoLane, SubmitBurst(l) PROVE Shape'
  <2>1. l \in {"tailer", "user"}
    BY DEF NoLane
  <2>2. lane' \in LaneType
    BY <1>2, <2>1 DEF SubmitBurst, TypeOK, LaneType
  <2>3. queue' \in Seq(JobType) /\ Len(queue') <= Depth /\ JobsOfTheirKind'
    <3>1. CASE writer = "gone"
      BY <1>0, <1>2, <3>1 DEF SubmitBurst, TypeOK
    <3>2. CASE writer # "gone"
      <4>1. Job("burst", l, 0) \in JobType
        BY <2>1 DEF Job, JobType
      <4> QED BY <1>2, <3>2, <4>1, PushShape DEF SubmitBurst, Job
    <3> QED BY <3>1, <3>2
  <2>4. UNCHANGED <<up, writer, paused, counters, handler, exporter, asker, rows,
                    tally, outcome, spent>>
    BY <1>2 DEF SubmitBurst
  <2> QED BY <2>2, <2>3, <2>4 DEF TypeOK, LaneType
<1>3. ASSUME NEW a \in Asker, Ask(a) PROVE Shape'
  BY <1>0, <1>3 DEF Ask, TypeOK
<1>4. ASSUME NEW a \in Asker, SubmitAsk(a) PROVE Shape'
  <2>1. asker' \in AskerType
    <3>1. asker \in AskerType
      BY DEF TypeOK, AskerType
    <3>2. \E s \in {"stopped", "waiting"} : asker' = [asker EXCEPT ![a] = s]
      BY <1>4 DEF SubmitAsk
    <3> QED BY <3>1, <3>2 DEF AskerType
  <2>2. queue' \in Seq(JobType) /\ Len(queue') <= Depth /\ JobsOfTheirKind'
    <3>1. CASE writer = "gone"
      BY <1>0, <1>4, <3>1 DEF SubmitAsk, TypeOK
    <3>2. CASE writer # "gone"
      <4>1. Job("ask", a, 0) \in JobType
        BY DEF Job, JobType
      <4> QED BY <1>4, <3>2, <4>1, PushShape DEF SubmitAsk, Job
    <3> QED BY <3>1, <3>2
  <2>3. UNCHANGED <<up, writer, paused, counters, handler, exporter, lane, rows,
                    tally, outcome, spent>>
    BY <1>4 DEF SubmitAsk
  <2> QED BY <2>1, <2>2, <2>3 DEF TypeOK, AskerType
<1> QED BY <1>1, <1>2, <1>3, <1>4

\* ... for the writer ...
LEMMA WriterKeepsShape ==
  ASSUME Shape, SealDone \/ RunJob \/ FailBatch \/ Panic
  PROVE  Shape'
<1> USE DEF Shape
<1>0. UNCHANGED queue => JobsOfTheirKind'
  BY DEF JobsOfTheirKind
<1>1. CASE SealDone
  BY <1>0, <1>1 DEF SealDone, TypeOK
<1>2. CASE RunJob
  <2> DEFINE job == Head(queue)
  <2>1. /\ queue' \in Seq(JobType) /\ Len(queue') <= Depth /\ JobsOfTheirKind'
        /\ job \in JobType
        /\ job.kind = "batch" => job.of \in Batch
        /\ job.kind = "ask" => job.of \in Asker
    BY <1>2, PopShape DEF RunJob
  <2>2. UNCHANGED <<up, writer, paused, counters, handler, exporter, lane, tally, spent>>
    BY <1>2 DEF RunJob
  <2>3. rows' \subseteq RowType /\ asker' \in AskerType /\ outcome' \in OutcomeType
    <3>0. rows \subseteq RowType /\ asker \in AskerType /\ outcome \in OutcomeType
      BY DEF TypeOK, RowType, AskerType, OutcomeType
    <3>1. CASE job.kind = "batch"
      <4>1. RunBatch(job)
        BY <1>2, <3>1 DEF RunJob
      <4>2. job.of \in Batch /\ job.ref \in Nat /\ Content[job.of] \subseteq Record
        BY <2>1, <3>1, ContentCounts DEF JobType
      <4>3. rows' \subseteq RowType /\ UNCHANGED <<asker, outcome>>
        BY <3>0, <4>1, <4>2 DEF RunBatch, RowType
      <4> QED BY <3>0, <4>3
    <3>2. CASE job.kind = "ask"
      <4>1. RunAsk(job)
        BY <1>2, <3>2 DEF RunJob
      <4>2. job.of \in Asker
        BY <2>1, <3>2
      <4> QED BY <3>0, <4>1, <4>2 DEF RunAsk, AskerType, OutcomeType
    <3>3. CASE job.kind \notin {"batch", "ask"}
      <4>1. UNCHANGED <<rows, asker, outcome>>
        BY <1>2, <3>3 DEF RunJob
      <4> QED BY <3>0, <4>1
    <3> QED BY <3>1, <3>2, <3>3
  <2> HIDE DEF job
  <2> QED BY <2>1, <2>2, <2>3 DEF TypeOK, RowType, AskerType, OutcomeType
<1>3. CASE FailBatch
  <2>1. /\ queue' \in Seq(JobType) /\ Len(queue') <= Depth /\ JobsOfTheirKind'
        /\ Head(queue).of \in Batch
    BY <1>3, PopShape DEF FailBatch
  <2>2. spent' \in [DOMAIN Bound -> Nat]
    BY <1>3, SpendType, SpentDomain DEF FailBatch
  <2>3. outcome' \in OutcomeType
    BY <1>3, <2>1 DEF FailBatch, TypeOK, OutcomeType
  <2>4. UNCHANGED <<up, writer, paused, counters, handler, exporter, lane, asker, rows, tally>>
    BY <1>3 DEF FailBatch
  <2> QED BY <2>1, <2>2, <2>3, <2>4 DEF TypeOK, OutcomeType
<1>4. CASE Panic
  <2>1. spent' \in [DOMAIN Bound -> Nat]
    BY <1>4, SpendType, SpentDomain DEF Panic
  <2>2. asker' \in AskerType
    BY <1>4 DEF Panic, ReleaseAskers, TypeOK, AskerType
  <2>3. queue' = <<>> /\ writer' = "gone" /\ Depth \in Nat
    BY <1>4, QueueAssumption DEF Panic
  <2>4. queue' \in Seq(JobType) /\ Len(queue') <= Depth /\ JobsOfTheirKind'
    BY <2>3 DEF JobsOfTheirKind
  <2>5. UNCHANGED <<up, paused, counters, handler, exporter, lane, rows, tally, outcome>>
    BY <1>4 DEF Panic
  <2> QED BY <2>1, <2>2, <2>3, <2>4, <2>5 DEF TypeOK, AskerType
<1> QED BY <1>1, <1>2, <1>3, <1>4

\* ... and for the application.
LEMMA ApplicationKeepsShape ==
  ASSUME Shape, Pause \/ Resume \/ Exit \/ Start
  PROVE  Shape'
<1> USE DEF Shape
<1>0. UNCHANGED queue => JobsOfTheirKind'
  BY DEF JobsOfTheirKind
<1>1. CASE Pause
  <2>1. spent' \in [DOMAIN Bound -> Nat]
    BY <1>1, SpendType, SpentDomain DEF Pause
  <2> QED BY <1>0, <1>1, <2>1 DEF Pause, TypeOK
<1>2. CASE Resume
  BY <1>0, <1>2 DEF Resume, TypeOK
<1>3. CASE Exit
  <2>1. spent' \in [DOMAIN Bound -> Nat]
    BY <1>3, SpendType, SpentDomain DEF Exit
  <2>2. queue' = <<>> /\ Depth \in Nat
    BY <1>3, QueueAssumption DEF Exit
  <2>3. queue' \in Seq(JobType) /\ Len(queue') <= Depth /\ JobsOfTheirKind'
    BY <2>2 DEF JobsOfTheirKind
  <2>4. counters' \in CountersType /\ tally' \in TallyType
    <3>1. tally \in TallyType
      BY DEF TypeOK, TallyType
    <3>2. counters' = Zero /\ tally' = [tally EXCEPT !.arrived = 0, !.empty = 0, !.accepted = 0]
      BY <1>3 DEF Exit
    <3>3. counters' \in CountersType
      BY <3>2 DEF Zero, CountersType
    <3>4. tally' \in TallyType
      BY <3>1, <3>2 DEF TallyType
    <3> QED BY <3>3, <3>4
  <2>5. handler' \in HandlerType /\ exporter' \in ExporterType
    BY <1>3 DEF Exit, NoHandler, TypeOK, HandlerType, ExporterType
  <2>6. lane' \in LaneType /\ asker' \in AskerType
    BY <1>3 DEF Exit, NoLane, LaneType, AskerType
  <2>7. outcome' \in OutcomeType
    BY <1>3 DEF Exit, TypeOK, OutcomeType
  <2>8. up' = FALSE /\ writer' = "gone" /\ paused' = FALSE /\ UNCHANGED rows
    BY <1>3 DEF Exit
  <2> QED BY <2>1, <2>3, <2>4, <2>5, <2>6, <2>7, <2>8
          DEF TypeOK, CountersType, TallyType, HandlerType, ExporterType, LaneType,
              AskerType, OutcomeType
<1>4. CASE Start
  BY <1>0, <1>4 DEF Start, TypeOK
<1> QED BY <1>1, <1>2, <1>3, <1>4

LEMMA InitShape == Init => Shape
<1> SUFFICES ASSUME Init PROVE Shape
  OBVIOUS
<1>1. queue = <<>> /\ Depth \in Nat
  BY QueueAssumption DEF Init
<1>2. queue \in Seq(JobType) /\ Len(queue) <= Depth /\ JobsOfTheirKind
  BY <1>1 DEF JobsOfTheirKind
<1>3. spent \in [DOMAIN Bound -> Nat]
  BY DEF Init
<1>4. counters \in CountersType /\ tally \in TallyType /\ lane \in LaneType
  BY DEF Init, Zero, NoLane, CountersType, TallyType, LaneType
<1>5. handler \in HandlerType /\ exporter \in ExporterType /\ asker \in AskerType
  BY DEF Init, NoHandler, HandlerType, ExporterType, AskerType
<1>6. outcome \in OutcomeType /\ rows = {} /\ up = FALSE /\ paused = FALSE /\ writer = "gone"
  BY DEF Init, OutcomeType
<1> QED BY <1>2, <1>3, <1>4, <1>5, <1>6
        DEF Shape, TypeOK, CountersType, TallyType, HandlerType, ExporterType, LaneType,
            AskerType, OutcomeType

LEMMA StepKeepsShape == Shape /\ [Next]_vars => Shape'
<1> SUFFICES ASSUME Shape, [Next]_vars PROVE Shape'
  OBVIOUS
<1>1. CASE Next
  BY <1>1, RequestKeepsShape, CallerKeepsShape, WriterKeepsShape, ApplicationKeepsShape DEF Next
<1>2. CASE UNCHANGED vars
  BY <1>2 DEF vars, Shape, TypeOK, JobsOfTheirKind
<1> QED BY <1>1, <1>2

\* Every variable keeps its type, the queue its depth, and a job is of somebody
\* of its kind (writer.rs submit, server.rs ingest).
THEOREM QueueTypeCorrect == Spec => []Shape
<1> QED BY InitShape, StepKeepsShape, PTL DEF Spec

-----------------------------------------------------------------------------
(* Rows. Only the job that stores a batch adds any, and none for a record   *)
(* that is held.                                                            *)

\* What a step does to the rows: nothing, or it stores what the batch at the
\* head of the queue carries and the store does not hold.
LEMMA RowsChange ==
  ASSUME Shape, Next
  PROVE  \/ UNCHANGED rows
         \/ /\ RunJob /\ Head(queue).kind = "batch" /\ RunBatch(Head(queue))
            /\ Head(queue).of \in Batch
<1>1. ASSUME NEW b \in Batch, Post(b) \/ Handle(b) PROVE UNCHANGED rows
  BY <1>1 DEF Post, Handle, Reject, AcceptEmpty, DropPaused, Admit, Accept, Refuse
<1>2. CASE HandBurst
  BY <1>2 DEF HandBurst
<1>3. ASSUME NEW l \in DOMAIN NoLane, SubmitBurst(l) PROVE UNCHANGED rows
  BY <1>3 DEF SubmitBurst
<1>4. ASSUME NEW a \in Asker, Ask(a) \/ SubmitAsk(a) PROVE UNCHANGED rows
  BY <1>4 DEF Ask, SubmitAsk
<1>5. CASE SealDone \/ FailBatch \/ Panic
  BY <1>5 DEF SealDone, FailBatch, Panic
<1>6. CASE Pause \/ Resume \/ Exit \/ Start
  BY <1>6 DEF Pause, Resume, Exit, Start
<1>7. CASE RunJob
  <2>1. CASE Head(queue).kind = "batch"
    <3>1. Head(queue).of \in Batch
      BY <1>7, <2>1, PopShape DEF RunJob
    <3> QED BY <1>7, <2>1, <3>1 DEF RunJob
  <2>2. CASE Head(queue).kind # "batch"
    BY <1>7, <2>2 DEF RunJob, RunAsk
  <2> QED BY <2>1, <2>2
<1> QED BY <1>1, <1>2, <1>3, <1>4, <1>5, <1>6, <1>7 DEF Next

LEMMA RunKeepsOneRow ==
  ASSUME OneRowPerRecord, NEW job, RunBatch(job)
  PROVE  OneRowPerRecord'
<1> DEFINE added == {[record |-> c, ref |-> job.ref, batch |-> job.of] :
                        c \in {d \in Content[job.of] : ~Held(d)}}
<1>1. rows' = rows \cup added
  BY DEF RunBatch
<1>2. \A q, r \in added : q.record = r.record => q = r
  OBVIOUS
<1>3. \A q \in added, r \in rows : q.record # r.record
  BY DEF Held
<1> HIDE DEF added
<1> QED BY <1>1, <1>2, <1>3 DEF OneRowPerRecord

\* However often an export is sent again, and whatever it shares with another,
\* a record is stored once (ingest.rs, raw.rs ON CONFLICT).
THEOREM OneRowEach == Spec => []OneRowPerRecord
<1>1. Init => OneRowPerRecord
  BY DEF Init, OneRowPerRecord
<1>2. Shape /\ OneRowPerRecord /\ [Next]_vars => OneRowPerRecord'
  <2> SUFFICES ASSUME Shape, OneRowPerRecord, [Next]_vars PROVE OneRowPerRecord'
    OBVIOUS
  <2>1. CASE UNCHANGED rows
    BY <2>1 DEF OneRowPerRecord
  <2>2. CASE Next
    BY <2>1, <2>2, RowsChange, RunKeepsOneRow
  <2> QED BY <2>1, <2>2 DEF vars
<1> QED BY <1>1, <1>2, QueueTypeCorrect, PTL DEF Spec

-----------------------------------------------------------------------------
(* Counters. A request is sent only where none of its batch is in a         *)
(* handler's hands, so it is never counted twice.                           *)

Under(at) == {b \in Batch : handler[b].at = at}

SentWhileHandled == \A b \in Batch : handler[b].at # "none" => exporter[b] = "sent"

Accounts == SentWhileHandled /\ CountersAddUp

LEMMA UnderFinite == \A at : IsFiniteSet(Under(at)) /\ InHandler(at) \in Nat
BY QueueAssumption, FS_Subset, FS_CardinalityType DEF Under, InHandler

\* A handler that turns from one stage to another moves one request.
LEMMA Moves ==
  ASSUME TypeOK, NEW b \in Batch, NEW h, NEW old,
         handler[b].at = old, handler' = [handler EXCEPT ![b] = h], h.at # old
  PROVE  /\ InHandler(h.at)' = InHandler(h.at) + 1
         /\ InHandler(old)' = InHandler(old) - 1
         /\ \A at : at \notin {h.at, old} => InHandler(at)' = InHandler(at)
<1>0. \A c \in Batch : handler'[c] = IF c = b THEN h ELSE handler[c]
  BY DEF TypeOK
<1>1. Under(h.at)' = Under(h.at) \cup {b} /\ b \notin Under(h.at)
  BY <1>0 DEF Under
<1>2. Under(old)' = Under(old) \ {b} /\ b \in Under(old)
  BY <1>0 DEF Under
<1>3. \A at : at \notin {h.at, old} => Under(at)' = Under(at)
  BY <1>0 DEF Under
<1>4. \A at : InHandler(at) = Cardinality(Under(at)) /\ InHandler(at)' = Cardinality(Under(at)')
  BY DEF InHandler, Under
<1>5. Cardinality(Under(h.at) \cup {b}) = Cardinality(Under(h.at)) + 1
  BY <1>1, UnderFinite, FS_AddElement
<1>6. Cardinality(Under(old) \ {b}) = Cardinality(Under(old)) - 1
  BY <1>2, UnderFinite, FS_RemoveElement
<1> QED BY <1>1, <1>2, <1>3, <1>4, <1>5, <1>6

\* What a step leaves alone.
LEMMA SameAccounts ==
  ASSUME Accounts, UNCHANGED <<handler, exporter, counters, tally>>
  PROVE  Accounts'
<1>1. \A at : InHandler(at)' = InHandler(at)
  BY DEF InHandler
<1> QED BY <1>1 DEF Accounts, SentWhileHandled, CountersAddUp

\* One request.
LEMMA RequestKeepsAccounts ==
  ASSUME TypeOK, Accounts, NEW b \in Batch, Post(b) \/ Handle(b)
  PROVE  Accounts'
<1>0. /\ \A at : InHandler(at) \in Nat
      /\ counters \in CountersType /\ tally \in TallyType
      /\ handler \in HandlerType /\ exporter \in ExporterType
  BY UnderFinite DEF TypeOK, CountersType, TallyType, HandlerType, ExporterType
<1> DEFINE none == [at |-> "none", seq |-> 0]
<1>a. NoHandler = none /\ none.at = "none"
  BY DEF NoHandler
<1> HIDE DEF none
<1>b. ASSUME handler' = [handler EXCEPT ![b] = NoHandler],
             \A c \in Batch : c # b => exporter'[c] = exporter[c]
      PROVE  SentWhileHandled'
  BY <1>0, <1>a, <1>b DEF Accounts, SentWhileHandled, HandlerType
<1>1. CASE Post(b)
  <2>1. handler[b].at = "none"
    BY <1>0, <1>1 DEF Post, Accounts, SentWhileHandled, HandlerType
  <2> DEFINE h == [NoHandler EXCEPT !.at = "arrived"]
  <2>2. handler' = [handler EXCEPT ![b] = h] /\ h.at = "arrived"
    BY <1>1 DEF Post, NoHandler
  <2> HIDE DEF h
  <2>3. /\ InHandler("arrived")' = InHandler("arrived") + 1
        /\ InHandler("admitted")' = InHandler("admitted")
    BY <2>1, <2>2, Moves
  <2>4. tally' = [tally EXCEPT !["arrived"] = @ + 1] /\ UNCHANGED counters
    BY <1>1 DEF Post, Note
  <2>5. CountersAddUp'
    BY <1>0, <2>3, <2>4 DEF Accounts, CountersAddUp, CountersType, TallyType
  <2>6. SentWhileHandled'
    <3>1. exporter' = [exporter EXCEPT ![b] = "sent"]
      BY <1>1 DEF Post
    <3>2. exporter'[b] = "sent"
      BY <1>0, <3>1 DEF ExporterType
    <3>3. \A c \in Batch : c # b => exporter'[c] = exporter[c] /\ handler'[c] = handler[c]
      BY <1>0, <2>2, <3>1 DEF ExporterType, HandlerType
    <3> QED BY <3>2, <3>3 DEF Accounts, SentWhileHandled
  <2> QED BY <2>5, <2>6 DEF Accounts
<1>2. CASE Reject(b)
  <2>1. /\ handler[b].at = "arrived" /\ handler' = [handler EXCEPT ![b] = NoHandler]
        /\ exporter' = [exporter EXCEPT ![b] = "done"] /\ UNCHANGED tally
        /\ counters' = [counters EXCEPT !["rejected_bodies"] = @ + 1]
    BY <1>2 DEF Reject, Bump
  <2>2. /\ InHandler("arrived")' = InHandler("arrived") - 1
        /\ InHandler("admitted")' = InHandler("admitted")
    BY <1>a, <2>1, Moves
  <2>3. CountersAddUp'
    BY <1>0, <2>1, <2>2 DEF Accounts, CountersAddUp, CountersType, TallyType
  <2>4. SentWhileHandled'
    BY <1>0, <1>b, <2>1 DEF ExporterType
  <2> QED BY <2>3, <2>4 DEF Accounts
<1>3. CASE AcceptEmpty(b)
  <2>1. /\ handler[b].at = "arrived" /\ UNCHANGED counters
        /\ tally' = [tally EXCEPT !["empty"] = @ + 1]
    BY <1>3 DEF AcceptEmpty, Note
  <2>2. /\ handler' = [handler EXCEPT ![b] = NoHandler]
        /\ \A c \in Batch : c # b => exporter'[c] = exporter[c]
    BY <1>3, RespondType DEF AcceptEmpty
  <2>3. /\ InHandler("arrived")' = InHandler("arrived") - 1
        /\ InHandler("admitted")' = InHandler("admitted")
    BY <1>a, <2>1, <2>2, Moves
  <2>4. CountersAddUp'
    BY <1>0, <2>1, <2>3 DEF Accounts, CountersAddUp, CountersType, TallyType
  <2> QED BY <1>b, <2>2, <2>4 DEF Accounts
<1>4. CASE DropPaused(b)
  <2>1. /\ handler[b].at = "arrived" /\ UNCHANGED tally
        /\ counters' = [counters EXCEPT !["paused_drops"] = @ + 1]
    BY <1>4 DEF DropPaused, Bump
  <2>2. /\ handler' = [handler EXCEPT ![b] = NoHandler]
        /\ \A c \in Batch : c # b => exporter'[c] = exporter[c]
    BY <1>4, RespondType DEF DropPaused
  <2>3. /\ InHandler("arrived")' = InHandler("arrived") - 1
        /\ InHandler("admitted")' = InHandler("admitted")
    BY <1>a, <2>1, <2>2, Moves
  <2>4. CountersAddUp'
    BY <1>0, <2>1, <2>3 DEF Accounts, CountersAddUp, CountersType, TallyType
  <2> QED BY <1>b, <2>2, <2>4 DEF Accounts
<1>5. CASE Admit(b)
  <2>1. /\ handler[b].at = "arrived" /\ UNCHANGED <<tally, exporter>>
        /\ counters' = [counters EXCEPT !["batches"] = @ + 1]
    BY <1>5 DEF Admit, Bump
  <2> DEFINE h == [at |-> "admitted", seq |-> SeqOfBatch]
  <2>2. handler' = [handler EXCEPT ![b] = h] /\ h.at = "admitted"
    BY <1>5 DEF Admit
  <2> HIDE DEF h
  <2>3. /\ InHandler("arrived")' = InHandler("arrived") - 1
        /\ InHandler("admitted")' = InHandler("admitted") + 1
    BY <2>1, <2>2, Moves
  <2>4. CountersAddUp'
    BY <1>0, <2>1, <2>3 DEF Accounts, CountersAddUp, CountersType, TallyType
  <2>5. SentWhileHandled'
    <3>1. \A c \in Batch : c # b => handler'[c] = handler[c]
      BY <1>0, <2>2 DEF HandlerType
    <3>2. exporter[b] = "sent"
      BY <2>1 DEF Accounts, SentWhileHandled
    <3> QED BY <2>1, <3>1, <3>2 DEF Accounts, SentWhileHandled
  <2> QED BY <2>4, <2>5 DEF Accounts
<1>6. CASE Accept(b)
  <2>1. /\ handler[b].at = "admitted"
        /\ tally' = [tally EXCEPT !["accepted"] = @ + 1]
        /\ counters' = [counters EXCEPT !.records = @ + Cardinality(Content[b])]
    BY <1>6 DEF Accept, Note
  <2>2. /\ handler' = [handler EXCEPT ![b] = NoHandler]
        /\ \A c \in Batch : c # b => exporter'[c] = exporter[c]
    BY <1>6, RespondType DEF Accept
  <2>3. /\ InHandler("arrived")' = InHandler("arrived")
        /\ InHandler("admitted")' = InHandler("admitted") - 1
    BY <1>a, <2>1, <2>2, Moves
  <2>4. \A c \in {"batches", "dropped", "rejected_bodies", "paused_drops"} :
          counters'[c] = counters[c]
    BY <1>0, <2>1 DEF CountersType
  <2>5. CountersAddUp'
    BY <1>0, <2>1, <2>3, <2>4 DEF Accounts, CountersAddUp, CountersType, TallyType
  <2> QED BY <1>b, <2>2, <2>5 DEF Accounts
<1>7. CASE Refuse(b)
  <2>1. /\ handler[b].at = "admitted" /\ UNCHANGED tally
        /\ counters' = [counters EXCEPT !["dropped"] = @ + 1]
    BY <1>7 DEF Refuse, Bump
  <2>2. /\ handler' = [handler EXCEPT ![b] = NoHandler]
        /\ \A c \in Batch : c # b => exporter'[c] = exporter[c]
    BY <1>7, RespondType DEF Refuse
  <2>3. /\ InHandler("arrived")' = InHandler("arrived")
        /\ InHandler("admitted")' = InHandler("admitted") - 1
    BY <1>a, <2>1, <2>2, Moves
  <2>4. CountersAddUp'
    BY <1>0, <2>1, <2>3 DEF Accounts, CountersAddUp, CountersType, TallyType
  <2> QED BY <1>b, <2>2, <2>4 DEF Accounts
<1> QED BY <1>1, <1>2, <1>3, <1>4, <1>5, <1>6, <1>7 DEF Handle

\* What else touches the accounts: only an exit, and it closes them.
LEMMA ExitKeepsAccounts ==
  ASSUME TypeOK, Exit
  PROVE  Accounts'
<1>1. /\ handler' = [b \in Batch |-> NoHandler] /\ counters' = Zero
      /\ tally' = [tally EXCEPT !.arrived = 0, !.empty = 0, !.accepted = 0]
  BY DEF Exit
<1>2. \A b \in Batch : handler'[b].at = "none"
  BY <1>1 DEF NoHandler
<1>3. InHandler("arrived")' = 0 /\ InHandler("admitted")' = 0
  <2>1. /\ {b \in Batch : handler'[b].at = "arrived"} = {}
        /\ {b \in Batch : handler'[b].at = "admitted"} = {}
    BY <1>2
  <2> QED BY <2>1, FS_EmptySet DEF InHandler
<1>4. tally \in TallyType
  BY DEF TypeOK, TallyType
<1>5. tally'.arrived = 0 /\ tally'.empty = 0 /\ tally'.accepted = 0
  BY <1>1, <1>4 DEF TallyType
<1>6. CountersAddUp'
  BY <1>1, <1>3, <1>5 DEF CountersAddUp, Zero
<1> QED BY <1>2, <1>6 DEF Accounts, SentWhileHandled

LEMMA OthersKeepAccounts ==
  ASSUME Next, ~ \E b \in Batch : Post(b) \/ Handle(b), ~ Exit
  PROVE  UNCHANGED <<handler, exporter, counters, tally>>
<1>1. CASE HandBurst \/ \E l \in DOMAIN NoLane : SubmitBurst(l)
  BY <1>1 DEF HandBurst, SubmitBurst
<1>2. CASE \E a \in Asker : Ask(a) \/ SubmitAsk(a)
  BY <1>2 DEF Ask, SubmitAsk
<1>3. CASE SealDone \/ RunJob \/ FailBatch \/ Panic
  BY <1>3 DEF SealDone, RunJob, FailBatch, Panic
<1>4. CASE Pause \/ Resume \/ Start
  BY <1>4 DEF Pause, Resume, Start
<1> QED BY <1>1, <1>2, <1>3, <1>4 DEF Next

\* Every request that arrived is with its handler or in exactly one counter, in
\* any interleaving of handlers, retries and pauses (server.rs, ingest.rs).
THEOREM RequestsAccountedFor == Spec => []CountersAddUp
<1>1. Init => Accounts
  <2> SUFFICES ASSUME Init PROVE Accounts
    OBVIOUS
  <2>1. \A b \in Batch : handler[b].at = "none"
    BY DEF Init, NoHandler
  <2>2. /\ {b \in Batch : handler[b].at = "arrived"} = {}
        /\ {b \in Batch : handler[b].at = "admitted"} = {}
    BY <2>1
  <2>3. InHandler("arrived") = 0 /\ InHandler("admitted") = 0
    BY <2>2, FS_EmptySet DEF InHandler
  <2>4. CountersAddUp
    BY <2>3 DEF Init, CountersAddUp, Zero
  <2> QED BY <2>1, <2>4 DEF Accounts, SentWhileHandled
<1>2. Shape /\ Accounts /\ [Next]_vars => Accounts'
  <2> SUFFICES ASSUME Shape, Accounts, [Next]_vars PROVE Accounts'
    OBVIOUS
  <2>0. TypeOK
    BY DEF Shape
  <2>1. CASE UNCHANGED vars
    BY <2>1, SameAccounts DEF vars
  <2>2. CASE \E b \in Batch : Post(b) \/ Handle(b)
    BY <2>0, <2>2, RequestKeepsAccounts
  <2>3. CASE Exit
    BY <2>0, <2>3, ExitKeepsAccounts
  <2>4. CASE Next /\ ~ Exit /\ ~ \E b \in Batch : Post(b) \/ Handle(b)
    BY <2>4, OthersKeepAccounts, SameAccounts
  <2> QED BY <2>1, <2>2, <2>3, <2>4
<1>3. Accounts => CountersAddUp
  BY DEF Accounts
<1> QED BY <1>1, <1>2, <1>3, QueueTypeCorrect, PTL DEF Spec

\* The queue keeps its depth and the store one row of a record, and no request
\* goes uncounted (writer.rs, server.rs, ingest.rs).
THEOREM QueueHolds == Spec => []QueueInv
<1>1. Shape /\ OneRowPerRecord /\ CountersAddUp => QueueInv
  BY DEF Shape, QueueInv
<1> QED BY <1>1, QueueTypeCorrect, OneRowEach, RequestsAccountedFor, PTL

-----------------------------------------------------------------------------
(* Replies. A job has run exactly where its reply is there to be read.      *)

RunIsReplied == \A a \in Asker : a \in outcome.run <=> asker[a] = "replied"

LEMMA StepKeepsReplies == Shape /\ RunIsReplied /\ [Next]_vars => RunIsReplied'
<1> SUFFICES ASSUME Shape, RunIsReplied, [Next]_vars PROVE RunIsReplied'
  OBVIOUS
<1>0. asker \in AskerType /\ outcome \in OutcomeType
  BY DEF Shape, TypeOK, AskerType, OutcomeType
<1>1. CASE UNCHANGED <<asker, outcome>>
  BY <1>1 DEF RunIsReplied
<1>2. ASSUME NEW b \in Batch, Post(b) \/ Handle(b) PROVE RunIsReplied'
  <2>1. UNCHANGED asker /\ outcome'.run = outcome.run
    BY <1>0, <1>2 DEF Post, Handle, Reject, AcceptEmpty, DropPaused, Admit, Accept, Refuse,
                      OutcomeType
  <2> QED BY <2>1 DEF RunIsReplied
<1>3. CASE HandBurst \/ \E l \in DOMAIN NoLane : SubmitBurst(l)
  BY <1>1, <1>3 DEF HandBurst, SubmitBurst
<1>4. ASSUME NEW a \in Asker, Ask(a) PROVE RunIsReplied'
  BY <1>0, <1>4 DEF Ask, RunIsReplied, AskerType
<1>5. ASSUME NEW a \in Asker, SubmitAsk(a) PROVE RunIsReplied'
  <2>1. /\ UNCHANGED outcome /\ asker[a] = "submitting"
        /\ \E s \in {"stopped", "waiting"} : asker' = [asker EXCEPT ![a] = s]
    BY <1>5 DEF SubmitAsk
  <2> QED BY <1>0, <2>1 DEF RunIsReplied, AskerType
<1>6. CASE SealDone
  BY <1>1, <1>6 DEF SealDone
<1>7. CASE RunJob
  <2> DEFINE job == Head(queue)
  <2>1. CASE job.kind = "ask"
    <3>1. job.of \in Asker
      BY <1>7, <2>1, PopShape DEF RunJob
    <3>2. /\ asker' = [asker EXCEPT ![job.of] = "replied"]
          /\ outcome' = [outcome EXCEPT !.run = @ \cup {job.of}]
      BY <1>7, <2>1 DEF RunJob, RunAsk
    <3> HIDE DEF job
    <3> QED BY <1>0, <3>1, <3>2 DEF RunIsReplied, AskerType, OutcomeType
  <2>2. CASE job.kind # "ask"
    BY <1>1, <1>7, <2>2 DEF RunJob, RunBatch
  <2> QED BY <2>1, <2>2
<1>8. CASE FailBatch
  <2>1. UNCHANGED asker /\ outcome'.run = outcome.run
    BY <1>0, <1>8 DEF FailBatch, OutcomeType
  <2> QED BY <2>1 DEF RunIsReplied
<1>9. CASE Panic
  BY <1>0, <1>9 DEF Panic, ReleaseAskers, RunIsReplied, AskerType
<1>10. CASE Exit
  <2>1. asker' = [a \in Asker |-> "idle"] /\ outcome'.run = {}
    BY <1>0, <1>10 DEF Exit, OutcomeType
  <2> QED BY <2>1 DEF RunIsReplied
<1>11. CASE Pause \/ Resume \/ Start
  BY <1>1, <1>11 DEF Pause, Resume, Start
<1> QED BY <1>1, <1>2, <1>3, <1>4, <1>5, <1>6, <1>7, <1>8, <1>9, <1>10, <1>11
        DEF Next, vars

\* A command that is told the writer has stopped knows its job did not run, and
\* one that got a reply that it did (writer.rs submit_blocking).
THEOREM RepliesTellTheTruth == Spec => []ReplyMeansRun
<1>1. Init => RunIsReplied
  BY DEF Init, RunIsReplied
<1>2. RunIsReplied => ReplyMeansRun
  BY DEF RunIsReplied, ReplyMeansRun
<1> QED BY <1>1, <1>2, QueueTypeCorrect, StepKeepsReplies, PTL DEF Spec

-----------------------------------------------------------------------------
(* References. The number an export is stored under is drawn once: by its   *)
(* handler, its job or its rows, and by no other export, while the counter  *)
(* goes on.                                                                  *)

Refers(n, b) ==
  \/ \E r \in rows : r.ref = n /\ r.batch = b
  \/ \E i \in DOMAIN queue : queue[i].kind = "batch" /\ queue[i].of = b /\ queue[i].ref = n
  \/ b \in Batch /\ handler[b].at = "admitted" /\ handler[b].seq = n

DrawnOnce ==
  spent.exits = 0 =>
    /\ \A n, b : Refers(n, b) => n \in Nat /\ n < counters.batches
    /\ \A n, b, c : Refers(n, b) /\ Refers(n, c) => b = c

\* No step but an admission gives an export a number.
NoneDrawn == /\ \A n, b : Refers(n, b)' => Refers(n, b)
             /\ counters'.batches = counters.batches
             /\ spent'.exits = 0 => spent.exits = 0

LEMMA NoneDrawnKeeps ==
  ASSUME DrawnOnce, NoneDrawn
  PROVE  DrawnOnce'
BY DEF DrawnOnce, NoneDrawn

\* What was spent is not given back.
LEMMA SpentGrows ==
  ASSUME TypeOK, Next
  PROVE  /\ spent'.exits = 0 => spent.exits = 0
         /\ spent'.panics = 0 => spent.panics = 0
<1>1. spent \in [DOMAIN Bound -> Nat] /\ {"exits", "panics"} \subseteq DOMAIN Bound
  BY SpentDomain DEF TypeOK
<1>2. UNCHANGED spent \/ \E what \in DOMAIN Bound : spent' = [spent EXCEPT ![what] = @ + 1]
  <2>1. ASSUME NEW b \in Batch, Post(b) \/ Handle(b)
        PROVE  UNCHANGED spent \/ spent' = [spent EXCEPT !["posts"] = @ + 1]
    BY <2>1 DEF Post, Handle, Reject, AcceptEmpty, DropPaused, Admit, Accept, Refuse, Spend
  <2>2. CASE HandBurst
    BY <2>2, SpentDomain DEF HandBurst, Spend
  <2>3. CASE \E l \in DOMAIN NoLane : SubmitBurst(l)
    BY <2>3 DEF SubmitBurst
  <2>4. CASE \E a \in Asker : Ask(a) \/ SubmitAsk(a)
    BY <2>4 DEF Ask, SubmitAsk
  <2>5. CASE SealDone \/ RunJob \/ Resume \/ Start
    BY <2>5 DEF SealDone, RunJob, Resume, Start
  <2>6. CASE FailBatch
    BY <2>6, SpentDomain DEF FailBatch, Spend
  <2>7. CASE Panic
    BY <2>7, SpentDomain DEF Panic, Spend
  <2>8. CASE Pause
    BY <2>8, SpentDomain DEF Pause, Spend
  <2>9. CASE Exit
    BY <2>9, SpentDomain DEF Exit, Spend
  <2> QED BY <2>1, <2>2, <2>3, <2>4, <2>5, <2>6, <2>7, <2>8, <2>9, SpentDomain DEF Next
<1> QED BY <1>1, <1>2

\* A handler that ends, or begins anew, gives up its number.
LEMMA HandlerLetsGo ==
  ASSUME TypeOK, NEW b \in Batch, NEW h, h.at # "admitted",
         handler' = [handler EXCEPT ![b] = h], UNCHANGED <<rows, queue>>
  PROVE  \A n, c : Refers(n, c)' => Refers(n, c)
<1>1. \A c \in Batch : handler'[c] = IF c = b THEN h ELSE handler[c]
  BY DEF TypeOK
<1> QED BY <1>1 DEF Refers

\* A job that is no batch refers to none.
LEMMA PushRefers ==
  ASSUME TypeOK, NEW job, Push(job), UNCHANGED rows
  PROVE  \A i \in DOMAIN queue' : queue'[i] = job \/ (i \in DOMAIN queue /\ queue'[i] = queue[i])
<1>1. queue \in Seq(JobType) /\ queue' = Append(queue, job)
  BY DEF TypeOK, Push
<1> QED BY <1>1

LEMMA AdmitDraws ==
  ASSUME TypeOK, DrawnOnce, NEW b \in Batch, Admit(b)
  PROVE  DrawnOnce'
<1> DEFINE drawn == counters.batches
<1>0. drawn \in Nat /\ counters \in CountersType
  BY DEF TypeOK, CountersType
<1>1. counters'.batches = drawn + 1
  BY <1>0 DEF Admit, Bump, CountersType
<1>2. \A c \in Batch : handler'[c] = IF c = b THEN [at |-> "admitted", seq |-> drawn]
                                     ELSE handler[c]
  BY DEF TypeOK, Admit, SeqOfBatch
<1>3. \A n, c : Refers(n, c)' => Refers(n, c) \/ (c = b /\ n = drawn)
  BY <1>2 DEF Admit, Refers
<1>4. UNCHANGED spent
  BY DEF Admit
<1> HIDE DEF drawn
<1> SUFFICES ASSUME spent.exits = 0
             PROVE  /\ \A n, c : Refers(n, c)' => n \in Nat /\ n < counters'.batches
                    /\ \A n, c, d : Refers(n, c)' /\ Refers(n, d)' => c = d
  BY <1>4 DEF DrawnOnce
<1>5. /\ \A n, c : Refers(n, c) => n \in Nat /\ n < drawn
      /\ \A n, c, d : Refers(n, c) /\ Refers(n, d) => c = d
  BY DEF DrawnOnce, drawn
<1> QED BY <1>0, <1>1, <1>3, <1>5

LEMMA AcceptDrawsNone ==
  ASSUME TypeOK, NEW b \in Batch, Accept(b)
  PROVE  \A n, c : Refers(n, c)' => Refers(n, c)
<1>1. /\ handler[b].at = "admitted" /\ UNCHANGED rows
      /\ Push(Job("batch", b, handler[b].seq))
  BY DEF Accept
<1>2. handler' = [handler EXCEPT ![b] = NoHandler]
  BY RespondType DEF Accept
<1>3. \A c \in Batch : handler'[c] = IF c = b THEN NoHandler ELSE handler[c]
  BY <1>2 DEF TypeOK
<1>4. \A i \in DOMAIN queue' : \/ queue'[i] = Job("batch", b, handler[b].seq)
                               \/ i \in DOMAIN queue /\ queue'[i] = queue[i]
  BY <1>1, PushRefers
<1> TAKE n, c
<1>5. ASSUME NEW i \in DOMAIN queue', queue'[i].kind = "batch", queue'[i].of = c, queue'[i].ref = n
      PROVE  Refers(n, c)
  <2>1. CASE queue'[i] = Job("batch", b, handler[b].seq)
    BY <1>1, <1>5, <2>1 DEF Job, Refers
  <2>2. CASE i \in DOMAIN queue /\ queue'[i] = queue[i]
    BY <1>5, <2>2 DEF Refers
  <2> QED BY <1>4, <2>1, <2>2
<1> QED BY <1>1, <1>3, <1>5 DEF Refers, NoHandler

LEMMA RequestKeepsDrawn ==
  ASSUME Shape, DrawnOnce, NEW b \in Batch, Post(b) \/ Handle(b)
  PROVE  DrawnOnce'
<1>0. TypeOK /\ counters \in CountersType
  BY DEF Shape, TypeOK, CountersType
<1>a. spent'.exits = 0 => spent.exits = 0
  BY <1>0, SpentGrows DEF Next
<1>b. NoHandler.at # "admitted"
  BY DEF NoHandler
<1>1. CASE Post(b)
  <2> DEFINE h == [NoHandler EXCEPT !.at = "arrived"]
  <2>1. /\ handler' = [handler EXCEPT ![b] = h] /\ h.at # "admitted"
        /\ UNCHANGED <<rows, queue, counters>>
    BY <1>1 DEF Post, NoHandler
  <2> HIDE DEF h
  <2> QED BY <1>0, <1>a, <2>1, HandlerLetsGo, NoneDrawnKeeps DEF NoneDrawn
<1>2. CASE Reject(b)
  <2>1. /\ handler' = [handler EXCEPT ![b] = NoHandler] /\ UNCHANGED <<rows, queue>>
        /\ counters'.batches = counters.batches
    BY <1>0, <1>2 DEF Reject, Bump, CountersType
  <2> QED BY <1>0, <1>a, <1>b, <2>1, HandlerLetsGo, NoneDrawnKeeps DEF NoneDrawn
<1>3. CASE AcceptEmpty(b)
  <2>1. /\ handler' = [handler EXCEPT ![b] = NoHandler] /\ UNCHANGED <<rows, queue, counters>>
    BY <1>0, <1>3, RespondType DEF AcceptEmpty
  <2> QED BY <1>0, <1>a, <1>b, <2>1, HandlerLetsGo, NoneDrawnKeeps DEF NoneDrawn
<1>4. CASE DropPaused(b)
  <2>1. handler' = [handler EXCEPT ![b] = NoHandler]
    BY <1>0, <1>4, RespondType DEF DropPaused
  <2>2. UNCHANGED <<rows, queue>> /\ counters'.batches = counters.batches
    <3>1. UNCHANGED <<rows, queue>> /\ Bump("paused_drops")
      BY <1>4 DEF DropPaused
    <3> QED BY <1>0, <3>1 DEF Bump, CountersType
  <2> QED BY <1>0, <1>a, <1>b, <2>1, <2>2, HandlerLetsGo, NoneDrawnKeeps DEF NoneDrawn
<1>5. CASE Admit(b)
  BY <1>0, <1>5, AdmitDraws
<1>6. CASE Accept(b)
  <2>1. counters'.batches = counters.batches
    <3>1. counters' = [counters EXCEPT !.records = @ + Cardinality(Content[b])]
      BY <1>6 DEF Accept
    <3> QED BY <1>0, <3>1 DEF CountersType
  <2> QED BY <1>0, <1>a, <1>6, <2>1, AcceptDrawsNone, NoneDrawnKeeps DEF NoneDrawn
<1>7. CASE Refuse(b)
  <2>1. handler' = [handler EXCEPT ![b] = NoHandler]
    BY <1>0, <1>7, RespondType DEF Refuse
  <2>2. UNCHANGED <<rows, queue>> /\ counters'.batches = counters.batches
    <3>1. UNCHANGED <<rows, queue>> /\ Bump("dropped")
      BY <1>7 DEF Refuse
    <3> QED BY <1>0, <3>1 DEF Bump, CountersType
  <2> QED BY <1>0, <1>a, <1>b, <2>1, <2>2, HandlerLetsGo, NoneDrawnKeeps DEF NoneDrawn
<1> QED BY <1>1, <1>2, <1>3, <1>4, <1>5, <1>6, <1>7 DEF Handle

\* The job at the head refers to its export as its rows will.
LEMMA RunDrawsNone ==
  ASSUME Shape, RunJob \/ FailBatch
  PROVE  \A n, c : Refers(n, c)' => Refers(n, c)
<1> DEFINE job == Head(queue)
<1>1. /\ queue # <<>> /\ queue' = Tail(queue) /\ UNCHANGED handler
  BY DEF RunJob, FailBatch
<1>2. /\ \A i \in DOMAIN queue' : i + 1 \in DOMAIN queue /\ queue'[i] = queue[i + 1]
      /\ job = queue[1]
  BY <1>1, PopShape
<1>3. 1 \in DOMAIN queue
  BY <1>1 DEF Shape, TypeOK
<1>4. \A r \in rows' : \/ r \in rows
                       \/ job.kind = "batch" /\ r.ref = job.ref /\ r.batch = job.of
  <2>1. CASE job.kind = "batch" /\ RunJob
    <3>1. RunBatch(job)
      BY <2>1 DEF RunJob
    <3> QED BY <2>1, <3>1 DEF RunBatch
  <2>2. CASE ~ (job.kind = "batch" /\ RunJob)
    BY <2>2 DEF RunJob, RunAsk, FailBatch
  <2> QED BY <2>1, <2>2
<1> HIDE DEF job
<1> TAKE n, c
<1>5. (\E r \in rows' : r.ref = n /\ r.batch = c) => Refers(n, c)
  BY <1>2, <1>3, <1>4 DEF Refers
<1>6. (\E i \in DOMAIN queue' : queue'[i].kind = "batch" /\ queue'[i].of = c /\ queue'[i].ref = n)
        => Refers(n, c)
  BY <1>2 DEF Refers
<1> QED BY <1>1, <1>5, <1>6 DEF Refers

LEMMA StepKeepsDrawn == Shape /\ DrawnOnce /\ [Next]_vars => DrawnOnce'
<1> SUFFICES ASSUME Shape, DrawnOnce, [Next]_vars PROVE DrawnOnce'
  OBVIOUS
<1>0. TypeOK
  BY DEF Shape
<1>a. Next => (spent'.exits = 0 => spent.exits = 0)
  BY <1>0, SpentGrows
<1>1. CASE UNCHANGED vars
  BY <1>1 DEF vars, DrawnOnce, Refers
<1>2. CASE \E b \in Batch : Post(b) \/ Handle(b)
  BY <1>2, RequestKeepsDrawn
<1>3. CASE Next /\ UNCHANGED <<rows, queue, handler, counters>>
  BY <1>a, <1>3, NoneDrawnKeeps DEF NoneDrawn, Refers
<1>4. ASSUME Next, NEW job, Push(job), job.kind # "batch", UNCHANGED <<rows, handler, counters>>
      PROVE  DrawnOnce'
  <2>1. \A i \in DOMAIN queue' : queue'[i] = job \/ (i \in DOMAIN queue /\ queue'[i] = queue[i])
    BY <1>0, <1>4, PushRefers
  <2>2. \A n, c : Refers(n, c)' => Refers(n, c)
    BY <1>4, <2>1 DEF Refers
  <2> QED BY <1>a, <1>4, <2>2, NoneDrawnKeeps DEF NoneDrawn
<1>5. ASSUME NEW l \in DOMAIN NoLane, SubmitBurst(l) PROVE DrawnOnce'
  <2>1. Next
    BY <1>5 DEF Next
  <2>2. UNCHANGED <<rows, handler, counters>>
    BY <1>5 DEF SubmitBurst
  <2>3. UNCHANGED queue \/ Push(Job("burst", l, 0))
    BY <1>5 DEF SubmitBurst
  <2>4. Job("burst", l, 0).kind # "batch"
    BY DEF Job
  <2> QED BY <1>3, <1>4, <2>1, <2>2, <2>3, <2>4
<1>6. ASSUME NEW a \in Asker, SubmitAsk(a) PROVE DrawnOnce'
  <2>1. Next
    BY <1>6 DEF Next
  <2>2. UNCHANGED <<rows, handler, counters>>
    BY <1>6 DEF SubmitAsk
  <2>3. UNCHANGED queue \/ Push(Job("ask", a, 0))
    BY <1>6 DEF SubmitAsk
  <2>4. Job("ask", a, 0).kind # "batch"
    BY DEF Job
  <2> QED BY <1>3, <1>4, <2>1, <2>2, <2>3, <2>4
<1>7. CASE HandBurst \/ \E a \in Asker : Ask(a)
  <2>1. Next /\ UNCHANGED <<rows, queue, handler, counters>>
    BY <1>7 DEF HandBurst, Ask, Next
  <2> QED BY <1>3, <2>1
<1>8. CASE RunJob \/ FailBatch
  <2>1. UNCHANGED counters
    BY <1>8 DEF RunJob, FailBatch
  <2> QED BY <1>a, <1>8, <2>1, RunDrawsNone, NoneDrawnKeeps DEF NoneDrawn, Next
<1>9. CASE Panic
  <2>1. queue' = <<>> /\ UNCHANGED <<rows, handler, counters>>
    BY <1>9 DEF Panic
  <2>2. \A n, c : Refers(n, c)' => Refers(n, c)
    BY <2>1 DEF Refers
  <2> QED BY <1>a, <1>9, <2>1, <2>2, NoneDrawnKeeps DEF NoneDrawn, Next
<1>10. CASE Exit
  <2>1. spent \in [DOMAIN Bound -> Nat] /\ spent' = [spent EXCEPT !["exits"] = @ + 1]
    BY <1>0, <1>10 DEF TypeOK, Exit, Spend
  <2>2. spent'.exits # 0
    BY <2>1, SpentDomain
  <2> QED BY <2>2 DEF DrawnOnce
<1>11. CASE SealDone \/ Pause \/ Resume \/ Start
  <2>1. Next /\ UNCHANGED <<rows, queue, handler, counters>>
    BY <1>11 DEF SealDone, Pause, Resume, Start, Next
  <2> QED BY <1>3, <2>1
<1> QED BY <1>1, <1>2, <1>5, <1>6, <1>7, <1>8, <1>9, <1>10, <1>11 DEF Next

\* In one run of the application a reference names one export, however the
\* handlers and the retries fall (server.rs fetch_add).
THEOREM ReferencesAreOwn == Spec => []RefNamesOneExport
<1>1. Init => DrawnOnce
  BY DEF Init, DrawnOnce, Refers, NoHandler
<1>2. Shape /\ DrawnOnce => RefNamesOneExport
  BY DEF DrawnOnce, RefNamesOneExport, Refers
<1> QED BY <1>1, <1>2, QueueTypeCorrect, StepKeepsDrawn, PTL DEF Spec

-----------------------------------------------------------------------------
(* Acceptance. A batch answered with success is in the queue, in the store  *)
(* or in the log of failures, unless the writer or the application went.    *)

Settled(b) == Stored(b) \/ Queued(b) \/ b \in outcome.failed

\* Rows and failures stay; what matters is what becomes of the queue.
LEMMA StaysSettled ==
  ASSUME NEW b, Settled(b), rows \subseteq rows', outcome.failed \subseteq outcome'.failed,
         Queued(b) => Settled(b)'
  PROVE  Settled(b)'
<1>1. CASE Stored(b)
  BY <1>1 DEF Settled, Stored, Held
<1>2. CASE Queued(b)
  BY <1>2
<1>3. CASE b \in outcome.failed
  BY <1>3 DEF Settled
<1> QED BY <1>1, <1>2, <1>3 DEF Settled

LEMMA PushStaysQueued ==
  ASSUME TypeOK, NEW job, Push(job)
  PROVE  /\ \A b : Queued(b) => Queued(b)'
         /\ job.kind = "batch" => Queued(job.of)'
<1>1. queue \in Seq(JobType) /\ queue' = Append(queue, job)
  BY DEF TypeOK, Push
<1>2. /\ \A i \in DOMAIN queue : i \in DOMAIN queue' /\ queue'[i] = queue[i]
      /\ Len(queue') \in DOMAIN queue' /\ queue'[Len(queue')] = job
  BY <1>1
<1> QED BY <1>2 DEF Queued

\* The head of the queue is stored, logged, or no batch.
LEMMA PopStaysSettled ==
  ASSUME Shape, RunJob \/ FailBatch
  PROVE  /\ \A b : Queued(b) => Settled(b)'
         /\ rows \subseteq rows' /\ outcome.failed \subseteq outcome'.failed
         /\ outcome'.accepted = outcome.accepted
<1> DEFINE job == Head(queue)
<1>0. outcome \in OutcomeType
  BY DEF Shape, TypeOK, OutcomeType
<1>1. queue # <<>> /\ queue' = Tail(queue)
  BY DEF RunJob, FailBatch
<1>2. /\ \A i \in DOMAIN queue : i # 1 => i - 1 \in DOMAIN queue' /\ queue'[i - 1] = queue[i]
      /\ job = queue[1]
  BY <1>1, PopShape
<1>3. /\ rows \subseteq rows' /\ outcome.failed \subseteq outcome'.failed
      /\ outcome'.accepted = outcome.accepted
  BY <1>0 DEF RunJob, FailBatch, RunBatch, RunAsk, OutcomeType
<1>4. ASSUME NEW b, job.kind = "batch", job.of = b
      PROVE  Settled(b)'
  <2>1. CASE RunJob
    <3>1. RunBatch(job)
      BY <1>4, <2>1 DEF RunJob
    <3> HIDE DEF job
    <3>2. ASSUME NEW c \in Content[b] PROVE Held(c)'
      <4>1. CASE Held(c)
        BY <3>1, <4>1 DEF RunBatch, Held
      <4>2. CASE ~ Held(c)
        <5>1. [record |-> c, ref |-> job.ref, batch |-> b] \in rows'
          BY <1>4, <3>1, <4>2 DEF RunBatch
        <5> QED BY <5>1 DEF Held
      <4> QED BY <4>1, <4>2
    <3> QED BY <3>2 DEF Settled, Stored
  <2>2. CASE FailBatch
    <3>1. outcome' = [outcome EXCEPT !.failed = @ \cup {b}]
      BY <1>4, <2>2 DEF FailBatch
    <3> QED BY <1>0, <3>1 DEF Settled, OutcomeType
  <2> QED BY <2>1, <2>2
<1> HIDE DEF job
<1>5. ASSUME NEW b, NEW i \in DOMAIN queue, queue[i].kind = "batch", queue[i].of = b
      PROVE  Settled(b)'
  <2>1. CASE i = 1
    BY <1>2, <1>4, <1>5, <2>1
  <2>2. CASE i # 1
    BY <1>2, <1>5, <2>2 DEF Settled, Queued
  <2> QED BY <2>1, <2>2
<1> QED BY <1>3, <1>5 DEF Queued

LEMMA StepKeepsAccepted == Shape /\ AcceptedIsKept /\ [Next]_vars => AcceptedIsKept'
<1> SUFFICES ASSUME Shape, AcceptedIsKept, [Next]_vars, NothingLost'
             PROVE  \A b \in outcome'.accepted : Settled(b)'
  BY DEF AcceptedIsKept, Settled
<1>0. TypeOK /\ outcome \in OutcomeType
  BY DEF Shape, TypeOK, OutcomeType
<1>a. NothingLost
  BY <1>0, SpentGrows DEF NothingLost, vars
<1>b. \A b \in outcome.accepted : Settled(b)
  BY <1>a DEF AcceptedIsKept, Settled
<1>1. CASE UNCHANGED <<rows, queue, outcome>>
  BY <1>1, <1>b DEF Settled, Stored, Held, Queued
<1>2. ASSUME NEW job, Push(job), UNCHANGED rows, outcome'.failed = outcome.failed,
             \A b \in outcome'.accepted : b \in outcome.accepted \/ (job.kind = "batch" /\ job.of = b)
      PROVE  \A b \in outcome'.accepted : Settled(b)'
  <2>1. /\ \A b : Queued(b) => Queued(b)'
        /\ job.kind = "batch" => Queued(job.of)'
    BY <1>0, <1>2, PushStaysQueued
  <2>2. \A b \in outcome.accepted : Settled(b)'
    BY <1>2, <1>b, <2>1 DEF Settled, Stored, Held
  <2> QED BY <1>2, <2>1, <2>2 DEF Settled
<1>3. ASSUME NEW b \in Batch, Post(b) \/ Handle(b)
      PROVE  \A c \in outcome'.accepted : Settled(c)'
  <2>1. CASE Accept(b)
    <3>1. /\ Push(Job("batch", b, handler[b].seq)) /\ UNCHANGED rows
          /\ outcome' = [outcome EXCEPT !.accepted = @ \cup {b}]
      BY <2>1 DEF Accept
    <3>2. outcome'.failed = outcome.failed /\ outcome'.accepted = outcome.accepted \cup {b}
      BY <1>0, <3>1 DEF OutcomeType
    <3>3. Job("batch", b, handler[b].seq).kind = "batch" /\ Job("batch", b, handler[b].seq).of = b
      BY DEF Job
    <3> QED BY <1>2, <3>1, <3>2, <3>3
  <2>2. CASE ~ Accept(b)
    BY <1>1, <1>3, <2>2 DEF Post, Handle, Reject, AcceptEmpty, DropPaused, Admit, Refuse
  <2> QED BY <2>1, <2>2
<1>4. ASSUME NEW l \in DOMAIN NoLane, SubmitBurst(l)
      PROVE  \A c \in outcome'.accepted : Settled(c)'
  <2>1. UNCHANGED <<rows, outcome>> /\ (UNCHANGED queue \/ Push(Job("burst", l, 0)))
    BY <1>4 DEF SubmitBurst
  <2> QED BY <1>1, <1>2, <2>1
<1>5. ASSUME NEW a \in Asker, SubmitAsk(a)
      PROVE  \A c \in outcome'.accepted : Settled(c)'
  <2>1. UNCHANGED <<rows, outcome>> /\ (UNCHANGED queue \/ Push(Job("ask", a, 0)))
    BY <1>5 DEF SubmitAsk
  <2> QED BY <1>1, <1>2, <2>1
<1>6. CASE RunJob \/ FailBatch
  <2>1. /\ \A b : Queued(b) => Settled(b)'
        /\ rows \subseteq rows' /\ outcome.failed \subseteq outcome'.failed
        /\ outcome'.accepted = outcome.accepted
    BY <1>6, PopStaysSettled
  <2> QED BY <1>b, <2>1, StaysSettled
<1>7. CASE Panic \/ Exit
  <2>1. \E what \in {"panics", "exits"} : spent' = [spent EXCEPT ![what] = @ + 1]
    BY <1>7 DEF Panic, Exit, Spend
  <2>2. spent \in [DOMAIN Bound -> Nat] /\ {"exits", "panics"} \subseteq DOMAIN Bound
    BY <1>0, SpentDomain DEF TypeOK
  <2> QED BY <1>a, <2>1, <2>2 DEF NothingLost
<1>8. CASE \/ HandBurst \/ SealDone \/ Pause \/ Resume \/ Start
           \/ \E a \in Asker : Ask(a)
  BY <1>1, <1>8 DEF HandBurst, SealDone, Pause, Resume, Start, Ask
<1>9. CASE UNCHANGED vars
  BY <1>1, <1>9 DEF vars
<1> QED BY <1>3, <1>4, <1>5, <1>6, <1>7, <1>8, <1>9 DEF Next

\* While the application runs and its writer lives, a batch answered with success
\* is stored, or in the queue, or its failure was logged (server.rs, writer.rs).
THEOREM AcceptedStays == Spec => []AcceptedIsKept
<1>1. Init => AcceptedIsKept
  BY DEF Init, AcceptedIsKept
<1> QED BY <1>1, QueueTypeCorrect, StepKeepsAccepted, PTL DEF Spec

\* What an answer said stays true: of the batch, of its reference and of a
\* command's job (server.rs, ingest.rs, writer.rs).
THEOREM AnswersHold == Spec => []AnswersAreKept
<1>1. AcceptedIsKept /\ RefNamesOneExport /\ ReplyMeansRun => AnswersAreKept
  BY DEF AnswersAreKept
<1> QED BY <1>1, AcceptedStays, ReferencesAreOwn, RepliesTellTheTruth, PTL
=============================================================================
