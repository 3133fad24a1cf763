---------------------------- MODULE CaptureQueue ----------------------------
(***************************************************************************)
(* The one writer thread, its bounded queue and those who submit to it:    *)
(* crates/toolog-core/src/writer.rs, the OTLP receiver's handler in        *)
(* crates/toolog-otlp/src/{server,ingest}.rs, and the pause flag and the   *)
(* tailer of crates/toolog-cli/src/capture.rs.                             *)
(*                                                                         *)
(* An HTTP handler never waits: it refuses when the queue is full.  The    *)
(* tailer waits for room.  A command (an import, a re-projection) waits    *)
(* for room and then for its result.  Handlers run concurrently, so each   *)
(* is two steps: what it reads, then its submission and its answer.        *)
(*                                                                         *)
(* The exporter outside retries an export it got no success for, and an    *)
(* answer may be lost on the way.                                          *)
(***************************************************************************)
EXTENDS Integers, Sequences, FiniteSets

CONSTANTS
  Batch,        \* exports
  Content,      \* Batch -> SUBSET Record: what each carries
  Record,       \* log records
  Malformed,    \* SUBSET Batch: bodies that do not decode
  Asker,        \* commands that wait for their result
  Depth,        \* jobs the queue holds
  MaxPosts,     \* bound on requests made
  MaxBursts,    \* bound on the tailer's bursts
  MaxPauses,    \* bound on pauses
  MaxFaults,    \* bound on failed transactions
  MaxPanics,    \* bound on jobs that panic
  MaxExits,     \* bound on quits and crashes
  MaxTroubles   \* bound on pauses, failures, panics and exits together

ASSUME QueueAssumption ==
  /\ IsFiniteSet(Batch) /\ IsFiniteSet(Record) /\ Content \in [Batch -> SUBSET Record]
  /\ Malformed \subseteq Batch
  /\ Depth \in Nat \ {0}
  /\ {MaxPosts, MaxBursts, MaxPauses, MaxFaults, MaxPanics, MaxExits,
      MaxTroubles} \subseteq Nat

VARIABLES
  up,           \* the application runs
  writer,       \* the writer thread: "sealing", "running" or "gone"
  queue,        \* jobs submitted and not yet run, oldest first
  paused,       \* the flag both lanes share
  counters,     \* the receiver's counters
  handler,      \* Batch -> the handler of its request: [at, seq]
  exporter,     \* Batch -> what the exporter knows of it
  lane,         \* the tailer's thread, and the user's when resuming: "idle", or
                \* "waiting" for room with transcripts to be read
  asker,        \* Asker -> "idle", "submitting", "waiting", "replied", "stopped"
  rows,         \* raw_event: a set of [record, ref, batch]
  tally,        \* observation only: requests that arrived, were empty, were accepted
  outcome,      \* observation only: batches accepted, failed; asks run
  spent         \* how much of each bound is used up

vars == <<up, writer, queue, paused, counters, handler, exporter, lane, asker,
          rows, tally, outcome, spent>>

Bound == [posts |-> MaxPosts, bursts |-> MaxBursts, pauses |-> MaxPauses,
          faults |-> MaxFaults, panics |-> MaxPanics, exits |-> MaxExits]
Troubles == spent.pauses + spent.faults + spent.panics + spent.exits
Spend(what) == /\ spent[what] < Bound[what]
               /\ what \in {"posts", "bursts"} \/ Troubles < MaxTroubles
               /\ spent' = [spent EXCEPT ![what] = @ + 1]

Bump(c) == counters' = [counters EXCEPT ![c] = @ + 1]
Note(t) == tally' = [tally EXCEPT ![t] = @ + 1]

-----------------------------------------------------------------------------
(* Submitting. *)

Room == Len(queue) < Depth

Job(kind, of, ref) == [kind |-> kind, of |-> of, ref |-> ref]
Push(job) == queue' = Append(queue, job)

-----------------------------------------------------------------------------
(* The receiver. *)

NoHandler == [at |-> "none", seq |-> 0]

\* The exporter sends a batch, or sends it again.
Post(b) ==
  /\ up /\ exporter[b] \in {"unsent", "refused"}
  /\ Spend("posts")
  /\ exporter' = [exporter EXCEPT ![b] = "sent"]
  /\ handler' = [handler EXCEPT ![b] = [NoHandler EXCEPT !.at = "arrived"]]
  /\ Note("arrived")
  /\ UNCHANGED <<up, writer, queue, paused, counters, lane, asker, rows, outcome>>

\* A success tells the exporter to forget the batch, if it hears of it.
Respond(b, success) ==
  /\ handler' = [handler EXCEPT ![b] = NoHandler]
  /\ exporter' \in {[exporter EXCEPT ![b] = IF success THEN "done" ELSE "refused"],
                    [exporter EXCEPT ![b] = "refused"]}

Reject(b) ==
  /\ handler[b].at = "arrived" /\ b \in Malformed
  /\ Bump("rejected_bodies")
  /\ handler' = [handler EXCEPT ![b] = NoHandler]
  /\ exporter' = [exporter EXCEPT ![b] = "done"]
  /\ UNCHANGED <<up, writer, queue, paused, lane, asker, rows, tally, outcome, spent>>

AcceptEmpty(b) ==
  /\ handler[b].at = "arrived" /\ b \notin Malformed
  /\ Content[b] = {}
  /\ Note("empty")
  /\ Respond(b, TRUE)
  /\ UNCHANGED <<up, writer, queue, paused, counters, lane, asker, rows, outcome, spent>>

\* While capture is paused a batch is answered with success and dropped.
DropPaused(b) ==
  /\ handler[b].at = "arrived" /\ b \notin Malformed
  /\ Content[b] # {} /\ paused
  /\ Bump("paused_drops")
  /\ Respond(b, TRUE)
  /\ UNCHANGED <<up, writer, queue, paused, lane, asker, rows, tally, outcome, spent>>

SeqOfAccepted == tally.accepted          \* mutant: numbered by what is accepted
SeqOfBatch == counters.batches           \* fetch_add

Admit(b) ==
  /\ handler[b].at = "arrived" /\ b \notin Malformed
  /\ Content[b] # {} /\ ~paused
  /\ handler' = [handler EXCEPT ![b] = [at |-> "admitted", seq |-> SeqOfBatch]]
  /\ Bump("batches")
  /\ UNCHANGED <<up, writer, queue, paused, exporter, lane, asker, rows, tally,
                 outcome, spent>>

\* try_submit accepts the batch ...
Accept(b) ==
  /\ handler[b].at = "admitted"
  /\ writer # "gone" /\ Room
  /\ Push(Job("batch", b, handler[b].seq))
  /\ counters' = [counters EXCEPT !.records = @ + Cardinality(Content[b])]
  /\ Note("accepted")
  /\ outcome' = [outcome EXCEPT !.accepted = @ \cup {b}]
  /\ Respond(b, TRUE)
  /\ UNCHANGED <<up, writer, paused, lane, asker, rows, spent>>

\* ... or says that the queue is full, or the writer gone.
RefuseSilently(b) ==                     \* mutant: a refusal that is not counted
  /\ handler[b].at = "admitted"
  /\ writer = "gone" \/ ~Room
  /\ Respond(b, FALSE)
  /\ UNCHANGED <<up, writer, queue, paused, counters, lane, asker, rows, tally,
                 outcome, spent>>
Refuse(b) ==
  /\ handler[b].at = "admitted"
  /\ writer = "gone" \/ ~Room
  /\ Bump("dropped")
  /\ Respond(b, FALSE)
  /\ UNCHANGED <<up, writer, queue, paused, lane, asker, rows, tally, outcome, spent>>

-----------------------------------------------------------------------------
(* The tailer and the commands. *)

HandBurst ==
  /\ up /\ lane.tailer = "idle" /\ ~paused
  /\ Spend("bursts")
  /\ lane' = [lane EXCEPT !.tailer = "waiting"]
  /\ UNCHANGED <<up, writer, queue, paused, counters, handler, exporter, asker,
                 rows, tally, outcome>>

\* submit waits for room; a writer that is gone ends the wait, and the burst.
SubmitBurst(l) ==
  /\ lane[l] = "waiting"
  /\ writer = "gone" \/ Room
  /\ IF writer = "gone" THEN UNCHANGED queue ELSE Push(Job("burst", l, 0))
  /\ lane' = [lane EXCEPT ![l] = "idle"]
  /\ UNCHANGED <<up, writer, paused, counters, handler, exporter, asker, rows,
                 tally, outcome, spent>>

Ask(a) ==
  /\ up /\ asker[a] = "idle"
  /\ asker' = [asker EXCEPT ![a] = "submitting"]
  /\ UNCHANGED <<up, writer, queue, paused, counters, handler, exporter, lane,
                 rows, tally, outcome, spent>>

SubmitAsk(a) ==
  /\ asker[a] = "submitting"
  /\ writer = "gone" \/ Room
  /\ IF writer = "gone"
     THEN asker' = [asker EXCEPT ![a] = "stopped"] /\ UNCHANGED queue
     ELSE asker' = [asker EXCEPT ![a] = "waiting"] /\ Push(Job("ask", a, 0))
  /\ UNCHANGED <<up, writer, paused, counters, handler, exporter, lane, rows,
                 tally, outcome, spent>>

-----------------------------------------------------------------------------
(* The writer thread.  Every process starts by sealing the chain; what is  *)
(* submitted meanwhile waits.                                              *)

SealDone ==
  /\ writer = "sealing"
  /\ writer' = "running"
  /\ UNCHANGED <<up, queue, paused, counters, handler, exporter, lane, asker,
                 rows, tally, outcome, spent>>

Held(record) == \E r \in rows : r.record = record

RunBatchUnlessHeld(job) ==               \* mutant: one duplicate refuses the batch
  /\ rows' = IF \E c \in Content[job.of] : Held(c) THEN rows
             ELSE rows \cup {[record |-> c, ref |-> job.ref, batch |-> job.of] :
                                c \in Content[job.of]}
  /\ UNCHANGED <<asker, outcome>>
RunBatch(job) ==
  /\ rows' = rows \cup {[record |-> c, ref |-> job.ref, batch |-> job.of] :
                           c \in {d \in Content[job.of] : ~Held(d)}}
  /\ UNCHANGED <<asker, outcome>>

\* The reply waits in a channel of its own until it is received.
RunAsk(job) ==
  /\ asker' = [asker EXCEPT ![job.of] = "replied"]
  /\ outcome' = [outcome EXCEPT !.run = @ \cup {job.of}]
  /\ UNCHANGED rows

RunJob ==
  /\ writer = "running" /\ queue # <<>>
  /\ queue' = Tail(queue)
  /\ CASE Head(queue).kind = "batch" -> RunBatch(Head(queue))
       [] Head(queue).kind = "ask"   -> RunAsk(Head(queue))
       [] OTHER                      -> UNCHANGED <<rows, asker, outcome>>
  /\ UNCHANGED <<up, writer, paused, counters, handler, exporter, lane, tally, spent>>

\* A batch that cannot be stored is logged, and that is all.
FailBatch ==
  /\ writer = "running" /\ queue # <<>> /\ Head(queue).kind = "batch"
  /\ Spend("faults")
  /\ queue' = Tail(queue)
  /\ outcome' = [outcome EXCEPT !.failed = @ \cup {Head(queue).of}]
  /\ UNCHANGED <<up, writer, paused, counters, handler, exporter, lane, asker,
                 rows, tally>>

\* A job that panics ends the thread; the queue and every reply go with it.
StrandAskers == asker                    \* mutant: the replies outlive the thread
ReleaseEvery ==                          \* mutant: a reply not yet received is lost
  [a \in Asker |-> IF asker[a] \in {"waiting", "replied"} THEN "stopped" ELSE asker[a]]
ReleaseAskers ==
  [a \in Asker |-> IF asker[a] = "waiting" THEN "stopped" ELSE asker[a]]

Panic ==
  /\ writer = "running" /\ queue # <<>>
  /\ Spend("panics")
  /\ writer' = "gone"
  /\ queue' = <<>>
  /\ asker' = ReleaseAskers
  /\ UNCHANGED <<up, paused, counters, handler, exporter, lane, rows, tally, outcome>>

-----------------------------------------------------------------------------
(* The application. *)

Pause ==
  /\ up /\ ~paused
  /\ Spend("pauses")
  /\ paused' = TRUE
  /\ UNCHANGED <<up, writer, queue, counters, handler, exporter, lane, asker,
                 rows, tally, outcome>>

\* Resuming hands the writer a catch-up, and waits for room like the tailer.
Resume ==
  /\ up /\ paused /\ lane.user = "idle"
  /\ paused' = FALSE
  /\ lane' = [lane EXCEPT !.user = "waiting"]
  /\ UNCHANGED <<up, writer, queue, counters, handler, exporter, asker, rows, tally,
                 outcome, spent>>

NoLane == [tailer |-> "idle", user |-> "idle"]
Zero == [batches |-> 0, records |-> 0, dropped |-> 0, rejected_bodies |-> 0,
         paused_drops |-> 0]

\* Quitting joins the lanes' threads, not the writer's: what is queued goes.
Exit ==
  /\ up
  /\ Spend("exits")
  /\ up' = FALSE
  /\ writer' = "gone" /\ queue' = <<>>
  /\ paused' = FALSE
  /\ counters' = Zero /\ tally' = [tally EXCEPT !.arrived = 0, !.empty = 0, !.accepted = 0]
  /\ handler' = [b \in Batch |-> NoHandler]
  /\ exporter' = [b \in Batch |-> IF exporter[b] = "sent" THEN "refused" ELSE exporter[b]]
  /\ lane' = NoLane
  /\ asker' = [a \in Asker |-> "idle"]
  /\ outcome' = [outcome EXCEPT !.run = {}]
  /\ UNCHANGED rows

Start ==
  /\ ~up
  /\ up' = TRUE
  /\ writer' = "sealing"
  /\ UNCHANGED <<queue, paused, counters, handler, exporter, lane, asker, rows,
                 tally, outcome, spent>>

Init ==
  /\ up = FALSE /\ writer = "gone" /\ queue = <<>> /\ paused = FALSE
  /\ counters = Zero
  /\ handler = [b \in Batch |-> NoHandler]
  /\ exporter = [b \in Batch |-> "unsent"]
  /\ lane = NoLane
  /\ asker = [a \in Asker |-> "idle"]
  /\ rows = {}
  /\ tally = [arrived |-> 0, empty |-> 0, accepted |-> 0]
  /\ outcome = [accepted |-> {}, failed |-> {}, run |-> {}]
  /\ spent = [what \in DOMAIN Bound |-> 0]

Handle(b) == \/ Reject(b) \/ AcceptEmpty(b) \/ DropPaused(b) \/ Admit(b)
             \/ Accept(b) \/ Refuse(b)

Next ==
  \/ \E b \in Batch : Post(b) \/ Handle(b)
  \/ HandBurst \/ \E l \in DOMAIN NoLane : SubmitBurst(l)
  \/ \E a \in Asker : Ask(a) \/ SubmitAsk(a)
  \/ SealDone \/ RunJob \/ FailBatch \/ Panic
  \/ Pause \/ Resume \/ Exit \/ Start

Spec == Init /\ [][Next]_vars

(* Threads and handlers run.  Room in the queue may go to others first, but *)
(* there are only so many of them.                                          *)
Fairness ==
  /\ WF_vars(SealDone) /\ WF_vars(RunJob)
  /\ \A l \in DOMAIN NoLane : WF_vars(SubmitBurst(l))
  /\ \A b \in Batch : WF_vars(Handle(b))
  /\ \A a \in Asker : WF_vars(SubmitAsk(a))

FairSpec == Spec /\ Fairness

-----------------------------------------------------------------------------
(* Properties. *)

JobType == [kind : {"batch", "ask", "burst"},
            of : Batch \cup Asker \cup {"tailer", "user"}, ref : Nat]

\* Every variable keeps its type, and the queue its depth.
TypeOK ==
  /\ up \in BOOLEAN /\ paused \in BOOLEAN
  /\ writer \in {"sealing", "running", "gone"}
  /\ queue \in Seq(JobType) /\ Len(queue) <= Depth
  /\ counters \in [{"batches", "records", "dropped", "rejected_bodies", "paused_drops"} -> Nat]
  /\ handler \in [Batch -> [at : {"none", "arrived", "admitted"}, seq : Nat]]
  /\ exporter \in [Batch -> {"unsent", "sent", "refused", "done"}]
  /\ lane \in [{"tailer", "user"} -> {"idle", "waiting"}]
  /\ asker \in [Asker -> {"idle", "submitting", "waiting", "replied", "stopped"}]
  /\ rows \subseteq [record : Record, ref : Nat, batch : Batch]
  /\ tally \in [{"arrived", "empty", "accepted"} -> Nat]
  /\ outcome \in [accepted : SUBSET Batch, failed : SUBSET Batch, run : SUBSET Asker]
  /\ spent \in [DOMAIN Bound -> Nat]

Stored(b) == \A c \in Content[b] : Held(c)
Queued(b) == \E i \in DOMAIN queue : queue[i].kind = "batch" /\ queue[i].of = b

\* While the application runs and its writer lives, a batch the receiver answered
\* with success, capture not being paused, is stored, or still on its way to the
\* store, or its failure was logged.
NothingLost == spent.exits = 0 /\ spent.panics = 0
AcceptedIsKept ==
  NothingLost =>
    \A b \in outcome.accepted : Stored(b) \/ Queued(b) \/ b \in outcome.failed

\* However often an export is retried, each record is stored once.
OneRowPerRecord == \A q, r \in rows : q.record = r.record => q = r

\* Every request that arrived is accounted for: it is being handled, or one
\* counter, and only one, says what became of it.
InHandler(at) == Cardinality({b \in Batch : handler[b].at = at})
CountersAddUp ==
  /\ tally.arrived = InHandler("arrived") + tally.empty + counters.rejected_bodies
                       + counters.paused_drops + counters.batches
  /\ counters.batches = InHandler("admitted") + tally.accepted + counters.dropped

\* The queue keeps its depth and the store one row of a record, and no request
\* goes uncounted.
QueueInv == TypeOK /\ OneRowPerRecord /\ CountersAddUp

\* In one run of the application a reference names one export: two rows that
\* carry it came in together.
RefNamesOneExport ==
  spent.exits = 0 => \A q, r \in rows : q.ref = r.ref => q.batch = r.batch

\* A command that is told the writer has stopped knows its job did not run;
\* one that got a reply, that it did.
ReplyMeansRun ==
  \A a \in Asker : /\ asker[a] = "replied" => a \in outcome.run
                   /\ asker[a] = "stopped" => a \notin outcome.run

\* What an answer said stays true: a batch answered with success is stored or
\* accounted for, its reference is its own, and a reply is of a job that ran
\* (receiver.rs ingest, store.rs submit, writer.rs).
AnswersAreKept == AcceptedIsKept /\ RefNamesOneExport /\ ReplyMeansRun

\* No command and no burst waits for ever, whatever becomes of the writer.
NobodyWaitsForever ==
  /\ \A a \in Asker : []<>(asker[a] \notin {"submitting", "waiting"})
  /\ \A l \in DOMAIN NoLane : []<>(lane[l] # "waiting")

\* No batch stays in the queue for good while the writer lives, and none leaves it
\* but stored, failed, or with the writer.
Done(b) == Stored(b) \/ b \in outcome.failed \/ writer = "gone"
QueuedIsStored ==
  /\ \A b \in Batch : []<>(Queued(b) => Done(b))
  /\ [][\A b \in Batch : Queued(b) => Queued(b)' \/ Done(b)']_vars
=============================================================================
