---------------------------- MODULE Examination ----------------------------
(***************************************************************************)
(* The local model's second opinion: crates/toolog-cli/src/analysis.rs,    *)
(* crates/toolog-llm/src/engine.rs, crates/toolog-app/src/llm.rs and the   *)
(* verdict table of crates/toolog-core/src/llm.rs.                         *)
(*                                                                         *)
(* Each time a model is configured a loader thread loads it and starts an  *)
(* examination: a worker thread that owns the model, a backfill thread     *)
(* that works through the calls with no verdict of this model, and a live  *)
(* thread that is offered calls as they arrive.  Both hand their verdicts  *)
(* to the process's writer.  The application holds one examination; the    *)
(* threads of one it lets go of run until they notice.                     *)
(*                                                                         *)
(* A model stands for the pair (model, prompt) a verdict is keyed on.      *)
(***************************************************************************)
EXTENDS Integers, Sequences, FiniteSets

CONSTANTS
  Model,        \* model files
  CallId,         \* Bash calls no rule matched, oldest first: 1 .. n
  BATCH,        \* pending calls one read of the store takes
  WRITE_EVERY,  \* verdicts written in one transaction
  LIVE_QUEUE,   \* arriving calls that may wait for the model
  LIVE_SEEN_MAX,\* calls the live path remembers
  MaxStarts,    \* bound on examinations started, whatever the course
  Courses       \* what may happen besides: records of
                \*   models: the models the user chooses among
                \*   starts: bound on examinations started
                \*   lanes: CallId -> how many lanes report it
                \*   toggles: bound on pausing and resuming
                \*   unset, quit, fail: BOOLEAN, the user may unset the model,
                \*     the application quit and start again, the model fail

ASSUME ExaminationAssumption ==
  /\ IsFiniteSet(CallId) /\ CallId = 1..Cardinality(CallId)
  /\ BATCH \in Nat \ {0} /\ WRITE_EVERY \in Nat \ {0}
  /\ LIVE_QUEUE \in Nat \ {0} /\ LIVE_SEEN_MAX \in Nat \ {0}
  /\ MaxStarts \in Nat
  /\ \A u \in Courses : /\ u.models \subseteq Model /\ u.starts \in 0..MaxStarts
                         /\ u.lanes \in [CallId -> Nat] /\ u.toggles \in Nat
  /\ "none" \notin Model

Instance == 1..MaxStarts
Route == {"live", "back"}

VARIABLES
  course,       \* the one of Courses this is; no step changes it
  configured,   \* the model the preferences name, or "none"
  prefPaused,   \* the pause the preferences remember
  handle,       \* the examination the application holds, or 0
  exam,         \* Instance -> its shared state
  thread,       \* Instance -> Route -> what the thread is at
  lanes,        \* CallId -> how often it has arrived
  verdict,      \* Model -> CallId -> "none", "ok", "failed"
  started,      \* examinations started so far
  toggles,      \* pauses and resumes so far
  asked,        \* observation only: Instance -> Route -> CallId -> times asked
  sincePause    \* observation only: Instance -> backfill calls begun since the
                \*   examination was last paused

user == <<configured, prefPaused, started, toggles>>
examinationvars == <<course, configured, prefPaused, handle, exam, thread, lanes, verdict, started,
                     toggles, asked, sincePause>>

-----------------------------------------------------------------------------
(* The store. *)

Arrived == {c \in CallId : lanes[c] > 0}

\* pending: arrived calls this model has no verdict for, oldest first.
PendingAnyPair(m) ==                      \* mutant: a verdict of any model will do
  {c \in Arrived : \A n \in Model : verdict[n][c] = "none"}
PendingAll(m) == {c \in Arrived : verdict[m][c] = "none"}
Pending(m) ==
  {c \in PendingAll(m) : Cardinality({d \in PendingAll(m) : d < c}) < BATCH}

\* record: INSERT OR REPLACE, the later record of a call winning whatever it
\* says.  (The full-text index over the summaries is left out.)
RecordVerdicts(m, answers) ==
  verdict' = [verdict EXCEPT ![m] =
    [c \in CallId |-> IF \E a \in answers : a[1] = c
                      THEN (CHOOSE a \in answers : a[1] = c)[2] ELSE @[c]]]

-----------------------------------------------------------------------------
(* Starting and stopping. *)

\* A loader goes through "loading", "ready" (the threads run) and "installed";
\* an examination that quits with the application is "gone".
Unused == [state |-> "unused", model |-> "none", paused |-> FALSE, startPaused |-> FALSE,
           stopping |-> FALSE, open |-> FALSE, seen |-> {}, live |-> <<>>,
           queue |-> <<>>, worker |-> "none"]
Resting == [at |-> "idle", todo |-> {}, call |-> 0, writes |-> {}]

Stop == [path |-> "stop", call |-> 0]

\* stop(): take the examination, raise its flag, send Stop, let go of it.
StopMutely(e) ==                          \* mutant: the worker is not told
  IF handle = 0 THEN e
  ELSE [e EXCEPT ![handle].stopping = TRUE, ![handle].open = FALSE]
StopHeld(e) ==
  IF handle = 0 THEN e
  ELSE [e EXCEPT ![handle].stopping = TRUE, ![handle].open = FALSE,
                 ![handle].queue = Append(@, Stop)]

\* The loader is given the pause as it is now.
Loader(m) == [Unused EXCEPT !.state = "loading", !.model = m, !.startPaused = prefPaused]

\* set_model and apply_model: what is held is stopped, and a loader started.
SetModel(m) ==
  /\ started < course.starts
  /\ configured' = m
  /\ started' = started + 1
  /\ exam' = [StopHeld(exam) EXCEPT ![started + 1] = Loader(m)]
  /\ handle' = 0
  /\ UNCHANGED <<prefPaused, thread, lanes, verdict, toggles, asked, sincePause>>

UnsetModel ==
  /\ course.unset
  /\ configured' = "none"
  /\ exam' = StopHeld(exam)
  /\ handle' = 0
  /\ UNCHANGED <<prefPaused, thread, lanes, verdict, started, toggles,
                 asked, sincePause>>

\* The application quits and is started again: the model is loaded anew.
Restart ==
  /\ course.quit /\ started < course.starts /\ configured # "none"
  /\ started' = started + 1
  /\ exam' = [y \in Instance |->
       IF y = started + 1 THEN Loader(configured)
       ELSE IF y > started THEN exam[y]
       ELSE [Unused EXCEPT !.state = "gone", !.model = exam[y].model, !.worker = "gone"]]
  /\ thread' = [y \in Instance |->
       IF y > started THEN thread[y]
       ELSE [path \in Route |-> [Resting EXCEPT !.at = "ended"]]]
  /\ handle' = 0
  /\ UNCHANGED <<configured, prefPaused, lanes, verdict, toggles, asked, sincePause>>

\* Analysis::start: the model is loaded and the threads run, not paused yet ...
Loaded(x) ==
  /\ exam[x].state = "loading"
  /\ exam' = [exam EXCEPT ![x].state = "ready", ![x].open = TRUE, ![x].worker = "up"]
  /\ UNCHANGED <<user, handle, thread, lanes, verdict, asked, sincePause>>

\* ... and the loader installs it: what is held by now is dropped, not stopped.
Installed(x) ==
  /\ exam[x].state = "ready"
  /\ exam' = [y \in Instance |->
       IF y = x THEN [exam[x] EXCEPT !.state = "installed", !.paused = exam[x].startPaused]
       ELSE IF y = handle THEN [exam[y] EXCEPT !.open = FALSE] ELSE exam[y]]
  /\ handle' = x
  /\ UNCHANGED <<user, thread, lanes, verdict, asked, sincePause>>

LoadFails(x) ==
  /\ course.fail /\ exam[x].state = "loading"
  /\ exam' = [exam EXCEPT ![x].state = "failed"]
  /\ UNCHANGED <<user, handle, thread, lanes, verdict, asked, sincePause>>

\* set_analysis_paused: the preference, and the examination held, if any.
TogglePause ==
  /\ toggles < course.toggles
  /\ toggles' = toggles + 1
  /\ prefPaused' = ~prefPaused
  /\ exam' = IF handle = 0 THEN exam ELSE [exam EXCEPT ![handle].paused = ~prefPaused]
  /\ sincePause' = IF handle = 0 THEN sincePause ELSE [sincePause EXCEPT ![handle] = 0]
  /\ UNCHANGED <<configured, handle, thread, lanes, verdict, started, asked>>

-----------------------------------------------------------------------------
(* A call arrives, and is offered to the live path. *)

\* claim: a full memory is emptied before the call is looked for in it.
SeenForgotten(x) == {}                    \* mutant: no memory of what was offered
Seen(x) == IF Cardinality(exam[x].seen) >= LIVE_SEEN_MAX THEN {} ELSE exam[x].seen

\* try_send: a call that finds the queue full is left to the backfill.
Enqueued(live, c) == IF Len(live) < LIVE_QUEUE THEN Append(live, c) ELSE live

Offer(x, c) ==
  IF c \in Seen(x) THEN [exam EXCEPT ![x].seen = Seen(x)]
  ELSE [exam EXCEPT ![x].seen = Seen(x) \cup {c},
                    ![x].live = Enqueued(@, c)]

Arrive(c) ==
  /\ lanes[c] < course.lanes[c]
  /\ \A d \in CallId : d < c => lanes[d] > 0
  /\ lanes' = [lanes EXCEPT ![c] = @ + 1]
  /\ exam' = IF handle = 0 THEN exam ELSE Offer(handle, c)
  /\ UNCHANGED <<user, handle, thread, verdict, asked, sincePause>>

-----------------------------------------------------------------------------
(* The threads of an examination. *)

At(x, path, step) == exam[x].state \in {"ready", "installed"} /\ thread[x][path].at = step
Becomes(x, path, t) == thread' = [thread EXCEPT ![x][path] = t]

\* The live thread takes a call, and leaves if the examination is stopping; it
\* ends when nobody can offer it any more.
LiveTakes(x) ==
  /\ At(x, "live", "idle") /\ exam[x].live # <<>>
  /\ exam' = [exam EXCEPT ![x].live = Tail(@)]
  /\ Becomes(x, "live", [Resting EXCEPT !.call = Head(exam[x].live),
                          !.at = IF exam[x].stopping THEN "ended" ELSE "asking"])
  /\ UNCHANGED <<user, handle, lanes, verdict, asked, sincePause>>

LiveEnds(x) ==
  /\ At(x, "live", "idle") /\ exam[x].live = <<>> /\ ~exam[x].open
  /\ Becomes(x, "live", [Resting EXCEPT !.at = "ended"])
  /\ UNCHANGED <<user, handle, exam, lanes, verdict, asked, sincePause>>

\* backfill_loop: the flags, then a batch.
BackReads(x) ==
  /\ At(x, "back", "idle")
  /\ \/ /\ exam[x].stopping
        /\ Becomes(x, "back", [Resting EXCEPT !.at = "ended"])
     \/ /\ ~exam[x].stopping /\ ~exam[x].paused
        /\ Pending(exam[x].model) # {}
        /\ Becomes(x, "back", [Resting EXCEPT !.at = "next", !.todo = Pending(exam[x].model)])
  /\ UNCHANGED <<user, handle, exam, lanes, verdict, asked, sincePause>>

\* Between two calls the flags are looked at again.
Oldest(todo) == CHOOSE c \in todo : \A d \in todo : c <= d
HaltAtBatch(x) == thread[x]["back"].todo = {}    \* mutant: flags between batches only
Halt(x) == exam[x].stopping \/ exam[x].paused \/ thread[x]["back"].todo = {}

BackNext(x) ==
  /\ At(x, "back", "next")
  /\ Becomes(x, "back",
       IF Halt(x) THEN [thread[x]["back"] EXCEPT !.at = "flush"]
       ELSE [thread[x]["back"] EXCEPT !.at = "asking", !.todo = @ \ {Oldest(@)},
                                      !.call = Oldest(thread[x]["back"].todo)])
  /\ UNCHANGED <<user, handle, exam, lanes, verdict, asked, sincePause>>

\* An answer in hand: written at once by the live thread, kept by the backfill
\* until there are enough of them.
Answered(t, answer) == [t EXCEPT !.writes = @ \cup {<<t.call, answer>>}, !.at = "answered"]

\* analyze: send, unless the worker has gone, and wait.
Asks(x, path) ==
  /\ At(x, path, "asking")
  /\ IF exam[x].worker = "gone"
     THEN /\ Becomes(x, path, Answered(thread[x][path], "failed"))
          /\ UNCHANGED exam
     ELSE /\ Becomes(x, path, [thread[x][path] EXCEPT !.at = "waiting"])
          /\ exam' = [exam EXCEPT ![x].queue = Append(@, [path |-> path,
                                                          call |-> thread[x][path].call])]
  /\ sincePause' = IF path = "back" /\ exam[x].paused /\ sincePause[x] < 2
                   THEN [sincePause EXCEPT ![x] = @ + 1] ELSE sincePause
  /\ UNCHANGED <<user, handle, lanes, verdict, asked>>

WorkerAnswers(x) ==
  /\ exam[x].worker = "up" /\ exam[x].queue # <<>>
  /\ Head(exam[x].queue) # Stop
  /\ LET job == Head(exam[x].queue)
     IN /\ \E answer \in (IF course.fail THEN {"ok", "failed"} ELSE {"ok"}) :
             Becomes(x, job.path, Answered(thread[x][job.path], answer))
        /\ asked' = [asked EXCEPT ![x][job.path][job.call] = IF @ < 2 THEN @ + 1 ELSE @]
  /\ exam' = [exam EXCEPT ![x].queue = Tail(@)]
  /\ UNCHANGED <<user, handle, lanes, verdict, sincePause>>

\* Stop ends the worker; whoever waits behind it learns that it has gone.
WorkerStops(x) ==
  /\ exam[x].worker = "up" /\ exam[x].queue # <<>>
  /\ Head(exam[x].queue) = Stop
  /\ exam' = [exam EXCEPT ![x].worker = "gone", ![x].queue = <<>>]
  /\ thread' = [thread EXCEPT ![x] =
       [path \in Route |-> IF @[path].at = "waiting" THEN Answered(@[path], "failed")
                           ELSE @[path]]]
  /\ UNCHANGED <<user, handle, lanes, verdict, asked, sincePause>>

PairHeld(x) == IF handle = 0 THEN exam[x].model ELSE exam[handle].model
                                          \* mutant: keyed on the model held now
PairOf(x) == exam[x].model

LiveWrites(x) ==
  /\ At(x, "live", "answered")
  /\ RecordVerdicts(PairOf(x), thread[x]["live"].writes)
  /\ Becomes(x, "live", Resting)
  /\ UNCHANGED <<user, handle, exam, lanes, asked, sincePause>>

\* The backfill writes when it has WRITE_EVERY answers ...
BackCollects(x) ==
  /\ At(x, "back", "answered")
  /\ LET t == thread[x]["back"]
     IN IF Cardinality(t.writes) >= WRITE_EVERY
        THEN /\ RecordVerdicts(PairOf(x), t.writes)
             /\ Becomes(x, "back", [t EXCEPT !.writes = {}, !.at = "next"])
        ELSE /\ Becomes(x, "back", [t EXCEPT !.at = "next"])
             /\ UNCHANGED verdict
  /\ UNCHANGED <<user, handle, exam, lanes, asked, sincePause>>

\* ... and whatever is left when the batch ends or is interrupted.
Leftover(x) == thread[x]["back"].writes
BackFlushes(x) ==
  /\ At(x, "back", "flush")
  /\ RecordVerdicts(PairOf(x), Leftover(x))
  /\ Becomes(x, "back", Resting)
  /\ UNCHANGED <<user, handle, exam, lanes, asked, sincePause>>

ExaminationInit ==
  /\ course \in Courses
  /\ configured = "none" /\ prefPaused = FALSE /\ handle = 0
  /\ exam = [x \in Instance |-> Unused]
  /\ thread = [x \in Instance |-> [path \in Route |-> Resting]]
  /\ lanes = [c \in CallId |-> 0]
  /\ verdict = [m \in Model |-> [c \in CallId |-> "none"]]
  /\ started = 0 /\ toggles = 0
  /\ asked = [x \in Instance |-> [path \in Route |-> [c \in CallId |-> 0]]]
  /\ sincePause = [x \in Instance |-> 0]

LiveThread(x) == LiveTakes(x) \/ LiveEnds(x) \/ Asks(x, "live") \/ LiveWrites(x)
BackThread(x) == BackReads(x) \/ BackNext(x) \/ Asks(x, "back") \/ BackCollects(x)
                 \/ BackFlushes(x)
Worker(x) == WorkerAnswers(x) \/ WorkerStops(x)

ExaminationNext ==
  /\ UNCHANGED course
  /\ \/ \E m \in course.models : SetModel(m)
     \/ UnsetModel \/ TogglePause \/ Restart
     \/ \E c \in CallId : Arrive(c)
     \/ \E x \in Instance : Loaded(x) \/ LoadFails(x) \/ Installed(x)
     \/ \E x \in Instance : LiveThread(x) \/ BackThread(x) \/ Worker(x)

ExaminationSpec == ExaminationInit /\ [][ExaminationNext]_examinationvars

\* Threads run: a loader ends, and each thread and the worker go on.
ExaminationFairness ==
  \A x \in Instance :
    /\ WF_examinationvars(UNCHANGED course /\ (Loaded(x) \/ LoadFails(x) \/ Installed(x)))
    /\ WF_examinationvars(UNCHANGED course /\ LiveThread(x))
    /\ WF_examinationvars(UNCHANGED course /\ BackThread(x))
    /\ WF_examinationvars(UNCHANGED course /\ Worker(x))
FairExaminationSpec == ExaminationSpec /\ ExaminationFairness

-----------------------------------------------------------------------------
(* Properties. *)

TaskType == [path : Route \cup {"stop"}, call : CallId \cup {0}]
ExamType ==
  [state : {"unused", "loading", "failed", "ready", "installed", "gone"},
   model : Model \cup {"none"}, paused : BOOLEAN, startPaused : BOOLEAN,
   stopping : BOOLEAN, open : BOOLEAN, seen : SUBSET CallId,
   live : Seq(CallId), queue : Seq(TaskType), worker : {"none", "up", "gone"}]
ThreadType ==
  [at : {"idle", "next", "asking", "waiting", "answered", "flush", "ended"},
   todo : SUBSET CallId, call : CallId \cup {0}, writes : SUBSET (CallId \X {"ok", "failed"})]

\* Every variable keeps its type, the live queue its length and the memory of
\* the live path its size; the worker never has more than three jobs waiting.
ExaminationTypeOK ==
  /\ course \in Courses
  /\ configured \in Model \cup {"none"} /\ prefPaused \in BOOLEAN
  /\ handle \in Instance \cup {0}
  /\ exam \in [Instance -> ExamType]
  /\ thread \in [Instance -> [Route -> ThreadType]]
  /\ lanes \in [CallId -> Nat] /\ \A c \in CallId : lanes[c] <= course.lanes[c]
  /\ verdict \in [Model -> [CallId -> {"none", "ok", "failed"}]]
  /\ started \in 0..course.starts /\ toggles \in 0..course.toggles
  /\ asked \in [Instance -> [Route -> [CallId -> 0..2]]]
  /\ sincePause \in [Instance -> 0..2]
  /\ \A x \in Instance : /\ Len(exam[x].live) <= LIVE_QUEUE
                         /\ Cardinality(exam[x].seen) <= LIVE_SEEN_MAX
                         /\ Len(exam[x].queue) <= 3

\* Within one examination each path asks the model about a call once, although
\* calls arrive on two lanes and batches are interrupted and read again.
AskedOncePerPath ==
  \A x \in Instance, path \in Route, c \in CallId : asked[x][path][c] <= 1

\* The state keeps its shape and its limits, and no question is asked again.
ExamInv == ExaminationTypeOK /\ AskedOncePerPath

\* Pausing costs at most one more inference of an examination's backfill.
PauseIsPrompt == \A x \in Instance : sincePause[x] <= 1

\* An accepted verdict was given by the model it is recorded for.
OkMeansAsked ==
  \A m \in Model, c \in CallId : verdict[m][c] = "ok" =>
    \E x \in Instance, path \in Route : exam[x].model = m /\ asked[x][path][c] > 0

\* The examination keeps its limits and asks about a call once on each path, a
\* pause costs one more inference at most, and a verdict that is there was given
\* by the model it is recorded for (analysis.rs).
ExaminationKept == ExamInv /\ PauseIsPrompt /\ OkMeansAsked

\* There is always a later moment when every call that has arrived is examined
\* by the model held, dropped by the live path or not, unless again and again
\* none is held or it is paused.
Examined(c) == verdict[exam[handle].model][c] # "none"
EveryCallExamined ==
  []<>(handle = 0 \/ exam[handle].paused \/ \A c \in Arrived : Examined(c))

\* Every examination that was told to stop puts its model down and ends: there
\* is always a later moment when none is left that has not.
Ended(x) == /\ exam[x].worker = "gone"
            /\ \A path \in Route : thread[x][path].at = "ended"
StoppedEnds == []<>(\A x \in Instance : exam[x].stopping => Ended(x))
=============================================================================
