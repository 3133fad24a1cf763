------------------------- MODULE ExaminationProofs -------------------------
(***************************************************************************)
(* What holds of Examination for every set of models and calls, every      *)
(* course of events and every limit, the live path's memory having room    *)
(* for every call (a full memory is emptied, and a call may be offered     *)
(* again).                                                                 *)
(*                                                                         *)
(* An examination touches nothing of another, so the invariant is a        *)
(* property of one examination's state e, threads t and observations, and  *)
(* the lemmas say what each step does to such a state.                     *)
(*                                                                         *)
(* After it, what holds of ModelAnswers: the worker under the examination, *)
(* for any commands and any size of its context.                           *)
(***************************************************************************)
EXTENDS Examination, ModelAnswers, Extremes, FiniteSetTheorems, SequenceTheorems, TLAPS

-----------------------------------------------------------------------------
(* The inductive invariant. *)

\* The worker's queue holds at most one job of each path and at most one Stop;
\* whoever has a job there waits for its answer.
Queued(e, t) ==
  /\ \A i \in 1..Len(e.queue) :
       IF e.queue[i].path = "stop" THEN e.queue[i] = Stop /\ e.stopping
       ELSE t[e.queue[i].path].at = "waiting" /\ t[e.queue[i].path].call = e.queue[i].call
  /\ \A i, j \in 1..Len(e.queue) : e.queue[i].path = e.queue[j].path => i = j

\* A thread with a question has a call; an accepted answer it holds was asked for.
Asking(t, a) ==
  \A p \in Route :
    /\ t[p].at \in {"asking", "waiting", "answered"} => t[p].call \in CallId
    /\ \A w \in t[p].writes : w[2] = "ok" => a[p][w[1]] > 0

\* What the backfill has before it was not asked about; what it did ask about has
\* a verdict, or its answer is in hand (v is the verdicts of the examination's
\* model).
BackAsks(t, a, v) ==
  /\ \A c \in t["back"].todo : a["back"][c] = 0
  /\ t["back"].at \in {"asking", "waiting"} =>
       a["back"][t["back"].call] = 0 /\ t["back"].call \notin t["back"].todo
  /\ t["back"].at = "idle" => t["back"].writes = {}
  /\ \A c \in CallId : a["back"][c] > 0 =>
       \/ a["back"][c] = 1 /\ v[c] # "none"
       \/ a["back"][c] = 1 /\ \E w \in t["back"].writes : w[1] = c
       \/ a["back"][c] = 1 /\ t["back"].at = "ended"

\* What the live path holds it remembers, once, and has not asked about; what it
\* asked about it remembers.
LiveAsks(e, t, a) ==
  /\ \A i \in 1..Len(e.live) : e.live[i] \in e.seen /\ a["live"][e.live[i]] = 0
  /\ \A i, j \in 1..Len(e.live) : e.live[i] = e.live[j] => i = j
  /\ t["live"].at \in {"asking", "waiting"} =>
       /\ a["live"][t["live"].call] = 0 /\ t["live"].call \in e.seen
       /\ \A i \in 1..Len(e.live) : e.live[i] # t["live"].call
  /\ \A c \in CallId : a["live"][c] > 0 =>
       a["live"][c] = 1 /\ (c \in e.seen \/ e.state = "gone")

\* Since the last pause at most one question, and then the backfill is no longer
\* asking.
Prompt(e, t, s) ==
  s = 0 \/ (s = 1 /\ t["back"].at # "asking" /\ (e.paused \/ e.state = "gone"))

\* The live queue and the memory of the live path keep their size.
Limits(e) == Len(e.live) <= LIVE_QUEUE /\ Cardinality(e.seen) <= LIVE_SEEN_MAX

Sound(e, t, a, v, s) ==
  /\ Queued(e, t) /\ Asking(t, a) /\ BackAsks(t, a, v) /\ Prompt(e, t, s) /\ Limits(e)
  /\ Cardinality(CallId) < LIVE_SEEN_MAX => LiveAsks(e, t, a)

\* Nobody has touched an examination that was not started; a started one has a
\* model; one is not paused before it is installed, and its worker runs from when it
\* is loaded; the one held is installed, and one that was told to stop is not held.
Lifecycle ==
  /\ handle # 0 => handle <= started /\ exam[handle].state = "installed"
                   /\ ~exam[handle].stopping
  /\ \A x \in Instance :
       /\ x > started => /\ exam[x] = Unused /\ sincePause[x] = 0
                         /\ thread[x] = [path \in Route |-> Resting]
                         /\ asked[x] = [path \in Route |-> [c \in CallId |-> 0]]
       /\ x <= started => exam[x].model \in Model
       /\ exam[x].stopping => exam[x].state = "installed"
       /\ exam[x].state \in {"loading", "ready"} => ~exam[x].paused
       /\ exam[x].worker = "up" => exam[x].state \in {"ready", "installed"}
       /\ exam[x].state = "gone" => \A p \in Route : thread[x][p].at = "ended"

VerdictsOf(x) == IF exam[x].model \in Model THEN verdict[exam[x].model]
                 ELSE [c \in CallId |-> "none"]

Typed ==
  /\ course \in Courses
  /\ configured \in Model \cup {"none"} /\ prefPaused \in BOOLEAN
  /\ handle \in Instance \cup {0}
  /\ exam \in [Instance -> ExamType]
  /\ thread \in [Instance -> [Route -> ThreadType]]
  /\ lanes \in [CallId -> Nat] /\ \A c \in CallId : lanes[c] <= course.lanes[c]
  /\ verdict \in [Model -> [CallId -> {"none", "ok", "failed"}]]
  /\ started \in 0..course.starts /\ toggles \in 0..course.toggles
  /\ asked \in [Instance -> [Route -> [CallId -> 0..2]]]
  /\ sincePause \in [Instance -> 0..2]

AllSound ==
  \A x \in Instance : Sound(exam[x], thread[x], asked[x], VerdictsOf(x), sincePause[x])

IInv == Typed /\ Lifecycle /\ AllSound /\ OkMeansAsked

-----------------------------------------------------------------------------
(* Calls, sequences and the oldest of a batch. *)

LEMMA CallsAreFinite ==
  /\ Cardinality(CallId) \in Nat /\ CallId \subseteq Nat /\ 0 \notin CallId
  /\ \A S \in SUBSET CallId :
       IsFiniteSet(S) /\ Cardinality(S) \in Nat /\ Cardinality(S) <= Cardinality(CallId)
<1>1. IsFiniteSet(CallId) /\ CallId = 1..Cardinality(CallId)
  BY ExaminationAssumption
<1>2. Cardinality(CallId) \in Nat
  BY <1>1, FS_CardinalityType
<1>3. ASSUME NEW S \in SUBSET CallId
      PROVE  IsFiniteSet(S) /\ Cardinality(S) \in Nat /\ Cardinality(S) <= Cardinality(CallId)
  BY <1>1, FS_Subset, FS_CardinalityType
<1>4. CallId \subseteq Nat /\ 0 \notin CallId
  BY <1>1, <1>2
<1> QED BY <1>2, <1>3, <1>4

LEMMA OldestIsOne ==
  ASSUME NEW S \in SUBSET CallId, S # {}
  PROVE  Oldest(S) \in S
<1>1. S \in SUBSET (0..Cardinality(CallId)) /\ Cardinality(CallId) \in Nat
  BY CallsAreFinite, ExaminationAssumption
<1>2. \E m \in S : \A k \in S : m <= k
  BY <1>1, HasLeast
<1> QED BY <1>2 DEF Oldest

\* What is left of a sequence when its first element is taken.
LEMMA AfterHead ==
  ASSUME NEW S, NEW q \in Seq(S), q # <<>>
  PROVE  /\ Head(q) \in S /\ Head(q) = q[1] /\ Tail(q) \in Seq(S)
         /\ Len(q) \in Nat \ {0} /\ Len(Tail(q)) = Len(q) - 1
         /\ \A i \in 1..Len(Tail(q)) : i + 1 \in 1..Len(q) /\ Tail(q)[i] = q[i + 1]
<1>1. Len(q) \in Nat \ {0}
  BY EmptySeq, LenProperties
<1>2. Head(q) \in S /\ Tail(q) \in Seq(S) /\ Len(Tail(q)) = Len(q) - 1
      /\ \A i \in 1..Len(Tail(q)) : Tail(q)[i] = q[i + 1]
  BY HeadTailProperties
<1>3. Head(q) = q[1]
  OBVIOUS
<1> QED BY <1>1, <1>2, <1>3

LEMMA AfterAppend ==
  ASSUME NEW S, NEW q \in Seq(S), NEW d \in S
  PROVE  /\ Append(q, d) \in Seq(S) /\ Len(q) \in Nat /\ Len(Append(q, d)) = Len(q) + 1
         /\ \A i \in 1..Len(q) : Append(q, d)[i] = q[i]
         /\ Append(q, d)[Len(q) + 1] = d
BY AppendProperties, LenProperties

-----------------------------------------------------------------------------
(* What the steps of a thread do to a sound examination. *)

Threads == [Route -> ThreadType]
Counts == [Route -> [CallId -> 0..2]]
Verdicts == [CallId -> {"none", "ok", "failed"}]

\* What a thread never changes of its examination.
SameLife(f, e) ==
  f.model = e.model /\ f.state = e.state /\ f.stopping = e.stopping /\ f.paused = e.paused

\* Whoever does not wait for an answer is none of the queue's business.
LEMMA QueuedStays ==
  ASSUME NEW e \in ExamType, NEW t, NEW u, Queued(e, t), NEW p \in Route,
         t[p].at # "waiting", \A q \in Route \ {p} : u[q] = t[q]
  PROVE  Queued(e, u)
<1>1. e.queue \in Seq(TaskType)
  BY DEF ExamType
<1>2. ASSUME NEW i \in 1..Len(e.queue)
      PROVE  IF e.queue[i].path = "stop" THEN e.queue[i] = Stop /\ e.stopping
             ELSE u[e.queue[i].path].at = "waiting" /\ u[e.queue[i].path].call = e.queue[i].call
  <2>1. e.queue[i] \in TaskType
    BY <1>1, ElementOfSeq
  <2>2. CASE e.queue[i].path = "stop"
    BY <2>2 DEF Queued
  <2>3. CASE e.queue[i].path # "stop"
    <3>1. e.queue[i].path \in Route
      BY <2>1, <2>3 DEF TaskType
    <3>2. t[e.queue[i].path].at = "waiting" /\ t[e.queue[i].path].call = e.queue[i].call
      BY <2>3 DEF Queued
    <3> QED BY <2>3, <3>1, <3>2
  <2> QED BY <2>2, <2>3
<1> QED BY <1>2 DEF Queued

\* The live thread takes a call.
LEMMA TakesSound ==
  ASSUME NEW e \in ExamType, NEW t \in Threads, NEW a \in Counts, NEW v \in Verdicts,
         NEW s \in 0..2, Sound(e, t, a, v, s),
         t["live"].at = "idle", e.live # <<>>,
         NEW f \in ExamType, SameLife(f, e), f.queue = e.queue, f.seen = e.seen,
         f.live = Tail(e.live),
         NEW r \in ThreadType, r.at \in {"ended", "asking"}, r.call = Head(e.live),
         r.writes = {}, NEW u, u = [t EXCEPT !["live"] = r]
  PROVE  u \in Threads /\ Sound(f, u, a, v, s)
<1>1. /\ Head(e.live) \in CallId /\ Head(e.live) = e.live[1] /\ Tail(e.live) \in Seq(CallId)
      /\ Len(e.live) \in Nat \ {0} /\ Len(Tail(e.live)) = Len(e.live) - 1
      /\ \A i \in 1..Len(Tail(e.live)) :
           i + 1 \in 1..Len(e.live) /\ Tail(e.live)[i] = e.live[i + 1]
  <2>1. e.live \in Seq(CallId)
    BY DEF ExamType
  <2> QED BY <2>1, AfterHead
<1>2. f.live = Tail(e.live) /\ f.queue = e.queue /\ f.stopping = e.stopping
      /\ f.paused = e.paused /\ f.state = e.state /\ f.seen = e.seen
  BY DEF SameLife
<1>3. u \in Threads /\ u["back"] = t["back"] /\ u["live"].at \in {"ended", "asking"}
      /\ u["live"].call = Head(e.live) /\ u["live"].writes = {}
  BY DEF Threads, Route
<1>4. Queued(f, u)
  <2>1. Queued(e, u)
    BY <1>3, QueuedStays DEF Sound, Route
  <2> QED BY <1>2, <2>1 DEF Queued
<1>5. Asking(u, a)
  BY <1>1, <1>3 DEF Sound, Asking, Route
<1>6. BackAsks(u, a, v) /\ Prompt(f, u, s)
  BY <1>2, <1>3 DEF Sound, BackAsks, Prompt
<1>7. Limits(f)
  BY <1>1, <1>2, ExaminationAssumption DEF Sound, Limits
<1>8. ASSUME LiveAsks(e, t, a) PROVE LiveAsks(f, u, a)
  <2>1. 1 \in 1..Len(e.live)
    BY <1>1
  <2>2. u["live"].call \in e.seen /\ a["live"][u["live"].call] = 0
    BY <1>1, <1>3, <1>8, <2>1 DEF LiveAsks
  <2>3. \A i \in 1..Len(f.live) : f.live[i] # u["live"].call
    <3>1. \A i \in 1..Len(f.live) :
            i + 1 \in 1..Len(e.live) /\ f.live[i] = e.live[i + 1] /\ i + 1 # 1
      BY <1>1, <1>2
    <3>2. \A i \in 1..Len(e.live) : i # 1 => e.live[i] # e.live[1]
      BY <1>8, <2>1 DEF LiveAsks
    <3> QED BY <1>1, <1>2, <1>3, <3>1, <3>2
  <2>4. \A i \in 1..Len(f.live) : f.live[i] \in f.seen /\ a["live"][f.live[i]] = 0
    BY <1>1, <1>2, <1>8 DEF LiveAsks
  <2>5. \A i, j \in 1..Len(f.live) : f.live[i] = f.live[j] => i = j
    BY <1>1, <1>2, <1>8 DEF LiveAsks
  <2> QED BY <1>2, <1>8, <2>2, <2>3, <2>4, <2>5 DEF LiveAsks
<1> QED BY <1>2, <1>3, <1>4, <1>5, <1>6, <1>7, <1>8 DEF Sound

\* The live thread has nothing in hand any more.
LEMMA LiveRests ==
  ASSUME NEW e \in ExamType, NEW t \in Threads, NEW a \in Counts, NEW v \in Verdicts,
         NEW s \in 0..2, Sound(e, t, a, v, s), t["live"].at # "waiting",
         NEW at \in {"idle", "ended"}, NEW u,
         u = [t EXCEPT !["live"] = [Resting EXCEPT !.at = at]]
  PROVE  u \in Threads /\ Sound(e, u, a, v, s)
<1>1. u \in Threads /\ u["back"] = t["back"] /\ u["live"].at = at /\ u["live"].writes = {}
  BY DEF Threads, ThreadType, Resting, Route
<1>2. Queued(e, u)
  BY <1>1 DEF Sound, Queued, Route, ExamType, TaskType
<1>3. Asking(u, a)
  BY <1>1 DEF Sound, Asking, Route
<1>4. BackAsks(u, a, v) /\ Prompt(e, u, s) /\ Limits(e)
  BY <1>1 DEF Sound, BackAsks, Prompt
<1>5. ASSUME LiveAsks(e, t, a) PROVE LiveAsks(e, u, a)
  BY <1>1, <1>5 DEF LiveAsks
<1> QED BY <1>1, <1>2, <1>3, <1>4, <1>5 DEF Sound

\* The backfill has nothing in hand any more, what it had being recorded.
LEMMA BackRests ==
  ASSUME NEW e \in ExamType, NEW t \in Threads, NEW a \in Counts, NEW v \in Verdicts,
         NEW s \in 0..2, Sound(e, t, a, v, s), t["back"].at \notin {"waiting", "ended"},
         \A w \in t["back"].writes : v[w[1]] # "none",
         NEW at \in {"idle", "ended"}, NEW u,
         u = [t EXCEPT !["back"] = [Resting EXCEPT !.at = at]]
  PROVE  u \in Threads /\ Sound(e, u, a, v, s)
<1>1. u \in Threads /\ u["live"] = t["live"] /\ u["back"].at = at /\ u["back"].writes = {}
      /\ u["back"].todo = {}
  BY DEF Threads, ThreadType, Resting, Route
<1>2. Queued(e, u)
  BY <1>1 DEF Sound, Queued, Route, ExamType, TaskType
<1>3. Asking(u, a)
  BY <1>1 DEF Sound, Asking, Route
<1>4. BackAsks(u, a, v)
  <2>1. ASSUME NEW c \in CallId, a["back"][c] > 0
        PROVE  a["back"][c] = 1 /\ v[c] # "none"
    BY <2>1 DEF Sound, BackAsks
  <2> QED BY <1>1, <2>1 DEF BackAsks
<1>5. Prompt(e, u, s) /\ Limits(e)
  BY <1>1 DEF Sound, Prompt
<1>6. ASSUME LiveAsks(e, t, a) PROVE LiveAsks(e, u, a)
  BY <1>1, <1>6 DEF LiveAsks
<1> QED BY <1>1, <1>2, <1>3, <1>4, <1>5, <1>6 DEF Sound

\* The backfill reads a batch of calls that have no verdict, and so were not asked
\* about: it has nothing in hand.
LEMMA ReadsSound ==
  ASSUME NEW e \in ExamType, NEW t \in Threads, NEW a \in Counts, NEW v \in Verdicts,
         NEW s \in 0..2, Sound(e, t, a, v, s), t["back"].at = "idle",
         NEW r \in ThreadType, r.at = "next", r.writes = {},
         \A c \in r.todo : v[c] = "none",
         NEW u, u = [t EXCEPT !["back"] = r]
  PROVE  u \in Threads /\ Sound(e, u, a, v, s)
<1>1. u \in Threads /\ u["live"] = t["live"] /\ u["back"].at = "next" /\ u["back"].writes = {}
      /\ u["back"].todo = r.todo
  BY DEF Threads, Route
<1>0. r.todo \subseteq CallId
  BY DEF ThreadType
<1>2. Queued(e, u)
  BY <1>1, QueuedStays DEF Sound, Route
<1>3. Asking(u, a)
  BY <1>1 DEF Sound, Asking, Route
<1>4. ASSUME NEW c \in CallId, a["back"][c] > 0
      PROVE  a["back"][c] = 1 /\ v[c] # "none"
  BY <1>4 DEF Sound, BackAsks
<1>5. \A c \in r.todo : a["back"][c] = 0
  <2>1. \A c \in r.todo : ~(a["back"][c] > 0)
    BY <1>0, <1>4
  <2>2. \A c \in r.todo : a["back"][c] \in 0..2
    BY <1>0 DEF Counts, Route
  <2> QED BY <2>1, <2>2
<1>6. BackAsks(u, a, v)
  BY <1>1, <1>4, <1>5 DEF BackAsks
<1>7. Prompt(e, u, s) /\ Limits(e)
  BY <1>1 DEF Sound, Prompt
<1>8. ASSUME LiveAsks(e, t, a) PROVE LiveAsks(e, u, a)
  BY <1>1, <1>8 DEF LiveAsks
<1> QED BY <1>1, <1>2, <1>3, <1>6, <1>7, <1>8 DEF Sound

\* Between two calls the backfill stops short, or goes on to the oldest one left:
\* not while it is paused.
LEMMA NextSound ==
  ASSUME NEW e \in ExamType, NEW t \in Threads, NEW a \in Counts, NEW v \in Verdicts,
         NEW s \in 0..2, Sound(e, t, a, v, s), t["back"].at = "next", e.state # "gone",
         NEW u,
         \/ u = [t EXCEPT !["back"].at = "flush"]
         \/ /\ ~e.paused /\ t["back"].todo # {}
            /\ u = [t EXCEPT !["back"] = [t["back"] EXCEPT !.at = "asking",
                      !.todo = @ \ {Oldest(@)}, !.call = Oldest(t["back"].todo)]]
  PROVE  u \in Threads /\ Sound(e, u, a, v, s)
<1> DEFINE b == t["back"]
<1>0. b \in ThreadType /\ b.todo \in SUBSET CallId /\ t["live"] \in ThreadType
  BY DEF Threads, ThreadType, Route
<1>1. CASE u = [t EXCEPT !["back"].at = "flush"]
  <2>1. u \in Threads /\ u["live"] = t["live"] /\ u["back"].at = "flush"
        /\ u["back"].writes = b.writes /\ u["back"].todo = b.todo
    BY <1>1 DEF Threads, ThreadType, Route
  <2>2. Queued(e, u)
    BY <2>1, QueuedStays DEF Sound, Route
  <2>3. Asking(u, a) /\ BackAsks(u, a, v)
    BY <2>1 DEF Sound, Asking, BackAsks, Route
  <2>4. Prompt(e, u, s) /\ Limits(e)
    BY <2>1 DEF Sound, Prompt
  <2>5. ASSUME LiveAsks(e, t, a) PROVE LiveAsks(e, u, a)
    BY <2>1, <2>5 DEF LiveAsks
  <2> QED BY <2>1, <2>2, <2>3, <2>4, <2>5 DEF Sound
<1>2. CASE /\ ~e.paused /\ b.todo # {}
           /\ u = [t EXCEPT !["back"] = [b EXCEPT !.at = "asking",
                     !.todo = @ \ {Oldest(@)}, !.call = Oldest(b.todo)]]
  <2>1. PICK c \in b.todo : c = Oldest(b.todo)
    BY <1>0, <1>2, OldestIsOne
  <2>2. u \in Threads /\ u["live"] = t["live"] /\ u["back"].at = "asking"
        /\ u["back"].writes = b.writes /\ u["back"].todo = b.todo \ {c} /\ u["back"].call = c
    BY <1>0, <1>2, <2>1 DEF Threads, ThreadType, Route
  <2>3. Queued(e, u)
    BY <2>2, QueuedStays DEF Sound, Route
  <2>4. Asking(u, a)
    BY <1>0, <2>1, <2>2 DEF Sound, Asking, Route
  <2>5. BackAsks(u, a, v)
    BY <2>1, <2>2 DEF Sound, BackAsks
  <2>6. Prompt(e, u, s) /\ Limits(e)
    BY <1>2 DEF Sound, Prompt
  <2>7. ASSUME LiveAsks(e, t, a) PROVE LiveAsks(e, u, a)
    BY <2>2, <2>7 DEF LiveAsks
  <2> QED BY <2>2, <2>3, <2>4, <2>5, <2>6, <2>7 DEF Sound
<1> QED BY <1>1, <1>2

\* An answer in hand.
LEMMA AnsweredType ==
  ASSUME NEW r \in ThreadType, r.call \in CallId, NEW answer \in {"ok", "failed"}
  PROVE  LET b == Answered(r, answer)
         IN  /\ b \in ThreadType /\ b.at = "answered" /\ b.call = r.call
             /\ b.todo = r.todo /\ b.writes = r.writes \cup {<<r.call, answer>>}
<1> DEFINE more == r.writes \cup {<<r.call, answer>>}
<1>1. more \in SUBSET (CallId \X {"ok", "failed"})
  BY DEF ThreadType
<1>2. Answered(r, answer) = [[r EXCEPT !.writes = more] EXCEPT !.at = "answered"]
  BY DEF Answered
<1> HIDE DEF more
<1>3. [r EXCEPT !.writes = more] \in ThreadType
  BY <1>1 DEF ThreadType
<1> QED BY <1>1, <1>2, <1>3 DEF ThreadType, more

\* A thread that finds the worker gone has failed to get an answer.
LEMMA AnsweredSound ==
  ASSUME NEW e \in ExamType, NEW t \in Threads, NEW a \in Counts, NEW v \in Verdicts,
         NEW s \in 0..2, Sound(e, t, a, v, s),
         NEW p \in Route, t[p].at = "asking", e.state # "gone",
         NEW b, b = Answered(t[p], "failed"), NEW u, u = [t EXCEPT ![p] = b],
         NEW z, z = IF p = "back" /\ e.paused THEN s + 1 ELSE s
  PROVE  u \in Threads /\ z \in 0..2 /\ Sound(e, u, a, v, z)
<1>0. t[p] \in ThreadType /\ t[p].call \in CallId
  BY DEF Threads, Sound, Asking
<1>1. b \in ThreadType /\ b.at = "answered" /\ b.call = t[p].call /\ b.todo = t[p].todo
      /\ b.writes = t[p].writes \cup {<<t[p].call, "failed">>}
  BY <1>0, AnsweredType
<1>3. u \in Threads /\ u[p] = b /\ \A q \in Route \ {p} : u[q] = t[q]
  BY <1>1 DEF Threads
<1>4. Queued(e, u)
  <2>1. Queued(e, t) /\ t[p].at # "waiting"
    BY DEF Sound
  <2>2. \A q \in Route \ {p} : u[q] = t[q]
    BY <1>3
  <2> QED BY ONLY e \in ExamType, p \in Route, <2>1, <2>2, QueuedStays
<1>5. Asking(u, a)
  <2>1. ASSUME NEW q \in Route
        PROVE  /\ u[q].at \in {"asking", "waiting", "answered"} => u[q].call \in CallId
               /\ \A w \in u[q].writes : w[2] = "ok" => a[q][w[1]] > 0
    BY <1>0, <1>1, <1>3 DEF Sound, Asking
  <2> QED BY <2>1 DEF Asking
<1>6. BackAsks(u, a, v)
  BY <1>1, <1>3 DEF Sound, BackAsks, Route
<1>7. z \in 0..2 /\ Prompt(e, u, z) /\ Limits(e)
  <2>1. CASE p = "back"
    <3>1. s = 0 /\ e.paused \in BOOLEAN
      BY <2>1 DEF Sound, Prompt, ExamType
    <3>2. z \in 0..2 /\ (z = 0 \/ (z = 1 /\ e.paused))
      BY <2>1, <3>1
    <3> QED BY <1>1, <1>3, <2>1, <3>2 DEF Prompt, Sound
  <2>2. CASE p # "back"
    BY <1>3, <2>2 DEF Sound, Prompt, Route
  <2> QED BY <2>1, <2>2
<1>8. ASSUME LiveAsks(e, t, a) PROVE LiveAsks(e, u, a)
  BY <1>1, <1>3, <1>8 DEF LiveAsks, Route
<1> QED BY <1>3, <1>4, <1>5, <1>6, <1>7, <1>8 DEF Sound

\* The thread of path p of e and t asks, which leaves f and u.
AskStep(e, t, p, f, u) ==
  /\ t[p].at = "asking" /\ e.state # "gone"
  /\ f \in ExamType /\ SameLife(f, e) /\ f.seen = e.seen /\ f.live = e.live
  /\ \E job \in TaskType :
       job.path = p /\ job.call = t[p].call /\ f.queue = Append(e.queue, job)
  /\ \E b \in ThreadType :
       /\ b.at = "waiting" /\ b.call = t[p].call /\ b.todo = t[p].todo
       /\ b.writes = t[p].writes /\ u = [t EXCEPT ![p] = b]

\* A question joins the queue; a question of the backfill while it is paused is the
\* one question a pause costs.
LEMMA AskSound ==
  ASSUME NEW e \in ExamType, NEW t \in Threads, NEW a \in Counts, NEW v \in Verdicts,
         NEW s \in 0..2, Sound(e, t, a, v, s),
         NEW p \in Route, NEW f, NEW u, AskStep(e, t, p, f, u),
         NEW z, z = IF p = "back" /\ e.paused THEN s + 1 ELSE s
  PROVE  u \in Threads /\ z \in 0..2 /\ Sound(f, u, a, v, z)
<1>x. t[p].at = "asking" /\ e.state # "gone"
      /\ f \in ExamType /\ SameLife(f, e) /\ f.seen = e.seen /\ f.live = e.live
  BY DEF AskStep
<1>y. PICK job \in TaskType :
        job.path = p /\ job.call = t[p].call /\ f.queue = Append(e.queue, job)
  BY DEF AskStep
<1>z. PICK b \in ThreadType :
        /\ b.at = "waiting" /\ b.call = t[p].call /\ b.todo = t[p].todo
        /\ b.writes = t[p].writes /\ u = [t EXCEPT ![p] = b]
  BY DEF AskStep
<1>0. t[p] \in ThreadType /\ t[p].call \in CallId /\ e.queue \in Seq(TaskType)
  BY <1>x DEF Threads, Sound, Asking, ExamType
<1>1. b.at = "waiting" /\ b.call = t[p].call /\ b.todo = t[p].todo /\ b.writes = t[p].writes
  BY <1>z
<1>2. job \in TaskType /\ job.path = p /\ job.call = t[p].call /\ p # "stop"
  BY <1>y DEF Route
<1>4. u \in Threads /\ u[p] = b /\ \A q \in Route \ {p} : u[q] = t[q]
  BY <1>z DEF Threads
<1>5. /\ Append(e.queue, job) \in Seq(TaskType) /\ Len(e.queue) \in Nat
      /\ Len(Append(e.queue, job)) = Len(e.queue) + 1
      /\ \A i \in 1..Len(e.queue) : Append(e.queue, job)[i] = e.queue[i]
      /\ Append(e.queue, job)[Len(e.queue) + 1] = job
  BY <1>0, <1>2, AfterAppend
<1>6. f.queue = Append(e.queue, job) /\ f.stopping = e.stopping
      /\ f.paused = e.paused /\ f.state = e.state /\ f.seen = e.seen /\ f.live = e.live
  BY <1>x, <1>y DEF SameLife
<1>7. \A i \in 1..Len(e.queue) : e.queue[i].path # p
  <2> SUFFICES ASSUME NEW i \in 1..Len(e.queue), e.queue[i].path = p PROVE FALSE
    OBVIOUS
  <2>1. e.queue[i].path # "stop"
    BY <1>2
  <2>2. t[e.queue[i].path].at = "waiting"
    BY <2>1 DEF Sound, Queued
  <2> QED BY <1>x, <2>2
<1>8. Queued(e, u)
  <2>1. Queued(e, t) /\ t[p].at # "waiting"
    BY <1>x DEF Sound
  <2>2. \A q \in Route \ {p} : u[q] = t[q]
    BY <1>4
  <2> QED BY ONLY e \in ExamType, p \in Route, <2>1, <2>2, QueuedStays
<1>9. Queued(f, u)
  <2>1. ASSUME NEW i \in 1..Len(f.queue)
        PROVE  IF f.queue[i].path = "stop" THEN f.queue[i] = Stop /\ f.stopping
               ELSE u[f.queue[i].path].at = "waiting" /\ u[f.queue[i].path].call = f.queue[i].call
    <3>1. CASE i \in 1..Len(e.queue)
      BY <1>5, <1>6, <1>8, <3>1 DEF Queued
    <3>2. CASE i = Len(e.queue) + 1
      <4>1. f.queue[i] = job
        BY <1>5, <1>6, <3>2
      <4>2. f.queue[i].path = p /\ f.queue[i].call = t[p].call
        BY <1>2, <4>1
      <4>3. u[p].at = "waiting" /\ u[p].call = t[p].call
        BY <1>1, <1>4
      <4> QED BY <1>2, <4>2, <4>3
    <3> QED BY <1>5, <1>6, <3>1, <3>2
  <2>2. ASSUME NEW i \in 1..Len(f.queue), NEW j \in 1..Len(f.queue),
               f.queue[i].path = f.queue[j].path
        PROVE  i = j
    <3>1. CASE i \in 1..Len(e.queue) /\ j \in 1..Len(e.queue)
      BY <1>5, <1>6, <1>8, <2>2, <3>1 DEF Queued
    <3>2. CASE i = Len(e.queue) + 1 \/ j = Len(e.queue) + 1
      BY <1>2, <1>5, <1>6, <1>7, <2>2, <3>2
    <3> QED BY <1>5, <1>6, <3>1, <3>2
  <2> QED BY <2>1, <2>2 DEF Queued
<1>10. Asking(u, a)
  <2>1. ASSUME NEW q \in Route
        PROVE  /\ u[q].at \in {"asking", "waiting", "answered"} => u[q].call \in CallId
               /\ \A w \in u[q].writes : w[2] = "ok" => a[q][w[1]] > 0
    BY <1>0, <1>1, <1>4 DEF Sound, Asking
  <2> QED BY <2>1 DEF Asking
<1>11. BackAsks(u, a, v)
  BY <1>x, <1>1, <1>4 DEF Sound, BackAsks, Route
<1>12. z \in 0..2 /\ Prompt(f, u, z)
  <2>1. CASE p = "back"
    <3>1. s = 0 /\ e.paused \in BOOLEAN
      BY <1>x, <2>1 DEF Sound, Prompt, ExamType
    <3>2. z \in 0..2 /\ (z = 0 \/ (z = 1 /\ e.paused))
      BY <2>1, <3>1
    <3> QED BY <1>1, <1>4, <1>6, <2>1, <3>2 DEF Prompt
  <2>2. CASE p # "back"
    BY <1>4, <1>6, <2>2 DEF Sound, Prompt, Route
  <2> QED BY <2>1, <2>2
<1>13. Limits(f)
  BY <1>6 DEF Sound, Limits
<1>14. ASSUME LiveAsks(e, t, a) PROVE LiveAsks(f, u, a)
  BY <1>x, <1>1, <1>4, <1>6, <1>14 DEF LiveAsks, Route
<1> QED BY <1>4, <1>6, <1>9, <1>10, <1>11, <1>12, <1>13, <1>14 DEF Sound

\* A question that is counted.
Counted(a, p, c) == [a EXCEPT ![p][c] = IF @ < 2 THEN @ + 1 ELSE @]

LEMMA CountedOnce ==
  ASSUME NEW a \in Counts, NEW p \in Route, NEW c \in CallId, NEW z, z = Counted(a, p, c)
  PROVE  /\ z \in Counts /\ z[p][c] > 0 /\ (a[p][c] = 0 => z[p][c] = 1)
         /\ \A q \in Route, d \in CallId : q # p \/ d # c => z[q][d] = a[q][d]
         /\ \A q \in Route, d \in CallId : a[q][d] \in 0..2 /\ (a[q][d] > 0 => z[q][d] > 0)
<1> DEFINE n == IF a[p][c] < 2 THEN a[p][c] + 1 ELSE a[p][c]
<1>1. a[p] \in [CallId -> 0..2] /\ a[p][c] \in 0..2
  BY DEF Counts
<1>2. n \in 0..2 /\ n > 0 /\ (a[p][c] = 0 => n = 1)
  BY <1>1
<1>3. z = [a EXCEPT ![p] = [a[p] EXCEPT ![c] = n]]
  BY DEF Counted
<1> HIDE DEF n
<1>4. PICK m : m = [a[p] EXCEPT ![c] = n]
  OBVIOUS
<1>5. m \in [CallId -> 0..2] /\ m[c] = n /\ \A d \in CallId : d # c => m[d] = a[p][d]
  BY <1>1, <1>2, <1>4
<1>6. z = [a EXCEPT ![p] = m]
  BY <1>3, <1>4
<1>7. z \in Counts /\ z[p] = m /\ \A q \in Route : q # p => z[q] = a[q]
  BY ONLY p \in Route, <1>5, <1>6, a \in Counts DEF Counts
<1>8. \A q \in Route, d \in CallId : a[q][d] \in 0..2
  BY DEF Counts
<1>9. /\ z \in Counts /\ z[p][c] > 0 /\ (a[p][c] = 0 => z[p][c] = 1)
      /\ \A q \in Route, d \in CallId : q # p \/ d # c => z[q][d] = a[q][d]
  BY <1>2, <1>5, <1>7
<1> QED BY <1>8, <1>9
\* The worker answers the first job of e's queue, which leaves f, u and z.
AnswerStep(e, t, a, f, u, z) ==
  /\ e.state # "gone" /\ e.queue # <<>> /\ Head(e.queue) # Stop
  /\ f \in ExamType /\ SameLife(f, e) /\ f.seen = e.seen /\ f.live = e.live
  /\ f.queue = Tail(e.queue)
  /\ LET p == Head(e.queue).path
     IN /\ \E answer \in {"ok", "failed"} : u = [t EXCEPT ![p] = Answered(t[p], answer)]
        /\ z = Counted(a, p, Head(e.queue).call)

\* The thread that waits for the answer had not asked about this call before.
LEMMA AnswerSound ==
  ASSUME NEW e \in ExamType, NEW t \in Threads, NEW a \in Counts, NEW v \in Verdicts,
         NEW s \in 0..2, Sound(e, t, a, v, s), NEW f, NEW u, NEW z,
         AnswerStep(e, t, a, f, u, z)
  PROVE  /\ u \in Threads /\ z \in Counts /\ Sound(f, u, z, v, s)
         /\ \A q \in Route, d \in CallId : a[q][d] > 0 => z[q][d] > 0
<1>x. /\ e.state # "gone" /\ e.queue # <<>> /\ Head(e.queue) # Stop
      /\ f \in ExamType /\ SameLife(f, e) /\ f.seen = e.seen /\ f.live = e.live
      /\ f.queue = Tail(e.queue)
  BY DEF AnswerStep
<1>y. PICK p, c : p = Head(e.queue).path /\ c = Head(e.queue).call
  OBVIOUS
<1>z. PICK answer \in {"ok", "failed"} : u = [t EXCEPT ![p] = Answered(t[p], answer)]
  BY <1>y DEF AnswerStep
<1>b. PICK b : b = Answered(t[p], answer)
  OBVIOUS
<1>c. u = [t EXCEPT ![p] = b] /\ z = Counted(a, p, c)
  BY <1>y, <1>z, <1>b DEF AnswerStep
<1>1. e.queue \in Seq(TaskType)
  BY DEF ExamType
<1>2. /\ Head(e.queue) \in TaskType /\ Head(e.queue) = e.queue[1]
      /\ Tail(e.queue) \in Seq(TaskType)
      /\ Len(e.queue) \in Nat \ {0} /\ Len(Tail(e.queue)) = Len(e.queue) - 1
      /\ \A i \in 1..Len(Tail(e.queue)) :
           i + 1 \in 1..Len(e.queue) /\ Tail(e.queue)[i] = e.queue[i + 1]
  BY <1>1, <1>x, AfterHead
<1>3. 1 \in 1..Len(e.queue)
  BY <1>2
<1>4. p # "stop" /\ p \in Route /\ t[p].at = "waiting" /\ t[p].call = c
  <2>1. p # "stop"
    BY <1>2, <1>3, <1>x, <1>y DEF Sound, Queued
  <2>2. t[p].at = "waiting" /\ t[p].call = c
    BY <1>2, <1>3, <1>y, <2>1 DEF Sound, Queued
  <2> QED BY <1>2, <1>y, <2>1, <2>2 DEF TaskType
<1>5. t[p] \in ThreadType /\ c \in CallId /\ t[p].call \in CallId
  BY <1>4 DEF Threads, Sound, Asking
<1>6. b \in ThreadType /\ b.at = "answered" /\ b.call = c /\ b.todo = t[p].todo
      /\ b.writes = t[p].writes \cup {<<c, answer>>}
  BY <1>4, <1>5, <1>b, AnsweredType
<1>7. u \in Threads /\ u[p] = b /\ \A q \in Route \ {p} : u[q] = t[q]
  BY <1>4, <1>6, <1>c DEF Threads
<1>8. f.queue = Tail(e.queue) /\ f.stopping = e.stopping
      /\ f.paused = e.paused /\ f.state = e.state /\ f.seen = e.seen /\ f.live = e.live
  BY <1>x DEF SameLife
<1>9. /\ z \in Counts /\ z[p][c] > 0 /\ (a[p][c] = 0 => z[p][c] = 1)
      /\ \A q \in Route, d \in CallId : q # p \/ d # c => z[q][d] = a[q][d]
  BY <1>4, <1>5, <1>c, CountedOnce
<1>10. \A q \in Route, d \in CallId : a[q][d] \in 0..2 /\ (a[q][d] > 0 => z[q][d] > 0)
  BY <1>4, <1>5, <1>c, CountedOnce
<1>11. Queued(f, u)
  <2>1. ASSUME NEW i \in 1..Len(f.queue)
        PROVE  /\ i + 1 \in 1..Len(e.queue) /\ f.queue[i] = e.queue[i + 1]
               /\ f.queue[i].path # p /\ f.queue[i] \in TaskType
    <3>1. i + 1 \in 1..Len(e.queue) /\ f.queue[i] = e.queue[i + 1] /\ i + 1 # 1
      BY <1>2, <1>8
    <3>2. e.queue[i + 1].path # e.queue[1].path
      BY <1>3, <3>1 DEF Sound, Queued
    <3>3. e.queue[i + 1] \in TaskType
      BY <1>1, <3>1, ElementOfSeq
    <3> QED BY <1>2, <1>y, <3>1, <3>2, <3>3
  <2>2. ASSUME NEW i \in 1..Len(f.queue)
        PROVE  IF f.queue[i].path = "stop" THEN f.queue[i] = Stop /\ f.stopping
               ELSE u[f.queue[i].path].at = "waiting" /\ u[f.queue[i].path].call = f.queue[i].call
    <3>1. CASE f.queue[i].path = "stop"
      BY <1>8, <2>1, <3>1 DEF Sound, Queued
    <3>2. CASE f.queue[i].path # "stop"
      <4>1. f.queue[i].path \in Route \ {p}
        BY <2>1, <3>2 DEF TaskType
      <4>2. t[f.queue[i].path].at = "waiting" /\ t[f.queue[i].path].call = f.queue[i].call
        BY <2>1, <3>2 DEF Sound, Queued
      <4> QED BY <1>7, <3>2, <4>1, <4>2
    <3> QED BY <3>1, <3>2
  <2>3. ASSUME NEW i \in 1..Len(f.queue), NEW j \in 1..Len(f.queue),
               f.queue[i].path = f.queue[j].path
        PROVE  i = j
    <3>1. i + 1 = j + 1
      BY <2>1, <2>3 DEF Sound, Queued
    <3> QED BY <3>1
  <2> QED BY <2>2, <2>3 DEF Queued
<1>12. Asking(u, z)
  <2>1. ASSUME NEW q \in Route
        PROVE  /\ u[q].at \in {"asking", "waiting", "answered"} => u[q].call \in CallId
               /\ \A w \in u[q].writes : w[2] = "ok" => z[q][w[1]] > 0
    <3>1. \A w \in t[q].writes : w[1] \in CallId /\ (w[2] = "ok" => z[q][w[1]] > 0)
      <4>1. \A w \in t[q].writes : w[1] \in CallId
        BY DEF Threads, ThreadType
      <4> QED BY <1>10, <4>1 DEF Sound, Asking
    <3>2. CASE q = p
      <4>1. u[q] = b /\ z[q][c] > 0 /\ <<c, answer>>[1] = c
        BY <1>7, <1>9, <3>2
      <4>2. \A w \in b.writes : w \in t[q].writes \/ w[1] = c
        BY <1>6, <3>2
      <4> QED BY <1>5, <1>6, <3>1, <4>1, <4>2
    <3>3. CASE q # p
      BY <1>7, <3>1, <3>3 DEF Sound, Asking
    <3> QED BY <3>2, <3>3
  <2> QED BY <2>1 DEF Asking
<1>13. BackAsks(u, z, v)
  <2>1. CASE p = "back"
    <3>1. a["back"][c] = 0 /\ c \notin t["back"].todo
      BY <1>4, <2>1 DEF Sound, BackAsks
    <3>2. u["back"] = b /\ z["back"][c] = 1 /\ \A d \in CallId : d # c => z["back"][d] = a["back"][d]
      <4>1. \A d \in CallId : d # c => z[p][d] = a[p][d]
        BY <1>4, <1>9
      <4>2. u[p] = b /\ z[p][c] = 1
        BY <1>7, <1>9, <2>1, <3>1
      <4> QED BY <2>1, <4>1, <4>2
    <3>3. t["back"].todo \subseteq CallId
      BY DEF Threads, ThreadType, Route
    <3>4. \A d \in u["back"].todo : z["back"][d] = 0
      BY <1>6, <2>1, <3>1, <3>2, <3>3 DEF Sound, BackAsks
    <3>5. u["back"].at = "answered" /\ <<c, answer>> \in u["back"].writes
          /\ t["back"].writes \subseteq u["back"].writes /\ t["back"].at # "ended"
      BY <1>4, <1>6, <2>1, <3>2
    <3>6. ASSUME NEW d \in CallId, z["back"][d] > 0
          PROVE  z["back"][d] = 1 /\ (v[d] # "none" \/ \E w \in u["back"].writes : w[1] = d)
      <4>1. CASE d = c
        BY <3>2, <3>5, <4>1
      <4>2. CASE d # c
        BY <3>2, <3>5, <3>6, <4>2 DEF Sound, BackAsks
      <4> QED BY <4>1, <4>2
    <3> QED BY <3>4, <3>5, <3>6 DEF BackAsks
  <2>2. CASE p # "back"
    <3>1. u["back"] = t["back"] /\ \A d \in CallId : z["back"][d] = a["back"][d]
      BY <1>7, <1>9, <2>2 DEF Route
    <3>2. t["back"].todo \subseteq CallId
      BY DEF Threads, ThreadType, Route
    <3>3. t["back"].at \in {"asking", "waiting"} => t["back"].call \in CallId
      BY DEF Sound, Asking, Route
    <3> QED BY <3>1, <3>2, <3>3 DEF Sound, BackAsks
  <2> QED BY <2>1, <2>2
<1>14. Prompt(f, u, s) /\ Limits(f)
  BY <1>x, <1>6, <1>7, <1>8 DEF Sound, Prompt, Limits, Route
<1>15. ASSUME LiveAsks(e, t, a) PROVE LiveAsks(f, u, z)
  <2>0. \A i \in 1..Len(e.live) : e.live[i] \in CallId
    BY ElementOfSeq DEF ExamType
  <2>1. CASE p = "live"
    <3>1. a["live"][c] = 0 /\ c \in e.seen /\ \A i \in 1..Len(e.live) : e.live[i] # c
      BY <1>4, <1>15, <2>1 DEF LiveAsks
    <3>2. u["live"].at = "answered" /\ z["live"][c] = 1
          /\ \A d \in CallId : d # c => z["live"][d] = a["live"][d]
      <4>1. \A d \in CallId : d # c => z[p][d] = a[p][d]
        BY <1>4, <1>9
      <4>2. u[p].at = "answered" /\ z[p][c] = 1
        BY <1>6, <1>7, <1>9, <2>1, <3>1
      <4> QED BY <2>1, <4>1, <4>2
    <3>3. ASSUME NEW d \in CallId, z["live"][d] > 0
          PROVE  z["live"][d] = 1 /\ (d \in f.seen \/ f.state = "gone")
      <4>1. CASE d = c
        BY <1>8, <3>1, <3>2, <4>1
      <4>2. CASE d # c
        BY <1>8, <1>15, <3>2, <3>3, <4>2 DEF LiveAsks
      <4> QED BY <4>1, <4>2
    <3>4. \A i \in 1..Len(f.live) : f.live[i] \in f.seen /\ z["live"][f.live[i]] = 0
      BY <1>8, <1>15, <2>0, <3>1, <3>2 DEF LiveAsks
    <3>5. \A i, j \in 1..Len(f.live) : f.live[i] = f.live[j] => i = j
      BY <1>8, <1>15 DEF LiveAsks
    <3> QED BY <3>2, <3>3, <3>4, <3>5 DEF LiveAsks
  <2>2. CASE p # "live"
    <3>1. u["live"] = t["live"] /\ \A d \in CallId : z["live"][d] = a["live"][d]
      BY <1>7, <1>9, <2>2 DEF Route
    <3>2. t["live"].at \in {"asking", "waiting"} => t["live"].call \in CallId
      BY DEF Sound, Asking, Route
    <3>3. /\ \A i \in 1..Len(f.live) : f.live[i] \in f.seen /\ z["live"][f.live[i]] = 0
          /\ \A i, j \in 1..Len(f.live) : f.live[i] = f.live[j] => i = j
      <4>1. \A i \in 1..Len(e.live) :
              e.live[i] \in e.seen /\ a["live"][e.live[i]] = 0 /\ e.live[i] \in CallId
        BY <1>15, <2>0 DEF LiveAsks
      <4>2. \A i, j \in 1..Len(e.live) : e.live[i] = e.live[j] => i = j
        BY <1>15 DEF LiveAsks
      <4>3. f.live = e.live /\ f.seen = e.seen
        BY <1>8
      <4>4. \A i \in 1..Len(e.live) : z["live"][e.live[i]] = 0
        BY <3>1, <4>1
      <4> QED BY ONLY <4>1, <4>2, <4>3, <4>4
    <3>4. u["live"].at \in {"asking", "waiting"} =>
            /\ z["live"][u["live"].call] = 0 /\ u["live"].call \in f.seen
            /\ \A i \in 1..Len(f.live) : f.live[i] # u["live"].call
      BY <1>8, <1>15, <3>1, <3>2 DEF LiveAsks
    <3>5. \A d \in CallId : z["live"][d] > 0 =>
            z["live"][d] = 1 /\ (d \in f.seen \/ f.state = "gone")
      BY <1>8, <1>15, <3>1 DEF LiveAsks
    <3> QED BY <3>3, <3>4, <3>5 DEF LiveAsks
  <2> QED BY <2>1, <2>2
<1> QED BY <1>4, <1>5, <1>7, <1>8, <1>9, <1>10, <1>11, <1>12, <1>13, <1>14, <1>15 DEF Sound

\* Stop ends the worker, and whoever waits learns that there is no answer.
LEMMA WorkerStopsSound ==
  ASSUME NEW e \in ExamType, NEW t \in Threads, NEW a \in Counts, NEW v \in Verdicts,
         NEW s \in 0..2, Sound(e, t, a, v, s), e.state # "gone",
         NEW f \in ExamType, SameLife(f, e), f.seen = e.seen, f.live = e.live,
         f.queue = <<>>,
         NEW u, u = [p \in Route |-> IF t[p].at = "waiting" THEN Answered(t[p], "failed") ELSE t[p]]
  PROVE  u \in Threads /\ Sound(f, u, a, v, s)
<1>1. f.queue = <<>> /\ f.stopping = e.stopping
      /\ f.paused = e.paused /\ f.state = e.state /\ f.seen = e.seen /\ f.live = e.live
  BY DEF SameLife
<1>2. ASSUME NEW p \in Route
      PROVE  /\ u[p] \in ThreadType /\ u[p].at # "waiting" /\ u[p].todo = t[p].todo
             /\ \/ u[p].at = t[p].at /\ u[p].call = t[p].call /\ u[p].writes = t[p].writes
                \/ /\ t[p].at = "waiting" /\ u[p].at = "answered" /\ u[p].call \in CallId
                   /\ u[p].writes = t[p].writes \cup {<<t[p].call, "failed">>}
  <2>1. t[p] \in ThreadType
    BY DEF Threads
  <2>2. CASE t[p].at = "waiting"
    <3>1. t[p].call \in CallId
      BY <2>2 DEF Sound, Asking
    <3>2. u[p] = Answered(t[p], "failed")
      BY <2>2
    <3> QED BY <2>1, <2>2, <3>1, <3>2, AnsweredType
  <2>3. CASE t[p].at # "waiting"
    BY <2>1, <2>3
  <2> QED BY <2>2, <2>3
<1>3. u \in Threads
  BY <1>2 DEF Threads
<1>4. Queued(f, u)
  BY <1>1, EmptySeq DEF Queued
<1>5. Asking(u, a)
  <2>1. ASSUME NEW q \in Route
        PROVE  /\ u[q].at \in {"asking", "waiting", "answered"} => u[q].call \in CallId
               /\ \A w \in u[q].writes : w[2] = "ok" => a[q][w[1]] > 0
    BY <1>2 DEF Sound, Asking
  <2> QED BY <2>1 DEF Asking
<1>6. BackAsks(u, a, v)
  <2>1. "back" \in Route
    BY DEF Route
  <2>2. t["back"].writes \subseteq u["back"].writes
    BY <1>2, <2>1
  <2> QED BY <1>2, <2>1, <2>2 DEF Sound, BackAsks
<1>7. Prompt(f, u, s) /\ Limits(f)
  BY <1>1, <1>2 DEF Sound, Prompt, Limits, Route
<1>8. ASSUME LiveAsks(e, t, a) PROVE LiveAsks(f, u, a)
  <2>1. "live" \in Route
    BY DEF Route
  <2> QED BY <1>1, <1>2, <1>8, <2>1 DEF LiveAsks
<1> QED BY <1>1, <1>3, <1>4, <1>5, <1>6, <1>7, <1>8 DEF Sound

\* What Record makes of the verdicts v of a model.
Recorded(v, W) ==
  [c \in CallId |-> IF \E x \in W : x[1] = c THEN (CHOOSE x \in W : x[1] = c)[2] ELSE v[c]]

\* Each answer recorded is a verdict of its call, and no verdict is taken back.
LEMMA RecordedVerdicts ==
  ASSUME NEW v \in Verdicts, NEW W \in SUBSET (CallId \X {"ok", "failed"}), NEW w,
         w = Recorded(v, W)
  PROVE  /\ w \in Verdicts
         /\ \A c \in CallId : v[c] # "none" => w[c] # "none"
         /\ \A x \in W : w[x[1]] # "none"
         /\ \A c \in CallId : w[c] = "ok" => v[c] = "ok" \/ \E x \in W : x[1] = c /\ x[2] = "ok"
<1>1. ASSUME NEW c \in CallId
      PROVE  \/ w[c] = v[c] /\ ~ \E x \in W : x[1] = c
             \/ \E x \in W : x[1] = c /\ w[c] = x[2] /\ x[2] \in {"ok", "failed"}
  <2>1. CASE \E x \in W : x[1] = c
    <3> DEFINE x == CHOOSE x \in W : x[1] = c
    <3>1. x \in W /\ x[1] = c
      BY <2>1
    <3>2. w[c] = x[2]
      BY <2>1 DEF Recorded
    <3> HIDE DEF x
    <3>3. x[2] \in {"ok", "failed"}
      BY <3>1
    <3> QED BY <3>1, <3>2, <3>3
  <2>2. CASE ~ \E x \in W : x[1] = c
    BY <2>2 DEF Recorded
  <2> QED BY <2>1, <2>2
<1>2. w \in Verdicts
  <2>1. \A c \in CallId : w[c] \in {"none", "ok", "failed"}
    BY <1>1 DEF Verdicts
  <2> QED BY <2>1 DEF Verdicts, Recorded
<1>3. \A c \in CallId : v[c] # "none" => w[c] # "none"
  BY <1>1
<1>4. \A x \in W : x[1] \in CallId
  OBVIOUS
<1>5. \A x \in W : w[x[1]] # "none"
  BY <1>1, <1>4
<1>6. \A c \in CallId : w[c] = "ok" => v[c] = "ok" \/ \E x \in W : x[1] = c /\ x[2] = "ok"
  BY <1>1
<1> QED BY <1>2, <1>3, <1>5, <1>6

\* A verdict that is there stays there, whoever writes another.
LEMMA MoreVerdicts ==
  ASSUME NEW e, NEW t, NEW a, NEW v, NEW s, Sound(e, t, a, v, s),
         NEW w, \A c \in CallId : v[c] # "none" => w[c] # "none"
  PROVE  Sound(e, t, a, w, s)
<1>1. BackAsks(t, a, w)
  <2>1. ASSUME NEW c \in CallId, a["back"][c] > 0
        PROVE  \/ a["back"][c] = 1 /\ w[c] # "none"
               \/ a["back"][c] = 1 /\ \E x \in t["back"].writes : x[1] = c
               \/ a["back"][c] = 1 /\ t["back"].at = "ended"
    BY <2>1 DEF Sound, BackAsks
  <2> QED BY <2>1 DEF Sound, BackAsks
<1> QED BY <1>1 DEF Sound

\* The backfill goes on, with its answers in hand or recorded in v.
CollectStep(t, u, v) ==
  /\ t["back"].at = "answered"
  /\ \E b \in ThreadType :
       /\ b.at = "next" /\ b.todo = t["back"].todo /\ u = [t EXCEPT !["back"] = b]
       /\ \/ b.writes = t["back"].writes
          \/ b.writes = {} /\ \A w \in t["back"].writes : v[w[1]] # "none"

LEMMA CollectsSound ==
  ASSUME NEW e \in ExamType, NEW t \in Threads, NEW a \in Counts, NEW v \in Verdicts,
         NEW s \in 0..2, Sound(e, t, a, v, s), NEW u, CollectStep(t, u, v)
  PROVE  u \in Threads /\ Sound(e, u, a, v, s)
<1>0. "back" \in Route /\ "live" \in Route /\ t["back"] \in ThreadType
  BY DEF Threads, Route
<1>a. t["back"].at = "answered"
  BY DEF CollectStep
<1>1. PICK b \in ThreadType :
        /\ b.at = "next" /\ b.todo = t["back"].todo /\ u = [t EXCEPT !["back"] = b]
        /\ \/ b.writes = t["back"].writes
           \/ b.writes = {} /\ \A w \in t["back"].writes : v[w[1]] # "none"
  BY DEF CollectStep
<1>2. u \in Threads /\ u["back"] = b /\ u["live"] = t["live"]
  BY <1>0, <1>1 DEF Threads
<1>3. Queued(e, u)
  <2>1. Queued(e, t) /\ t["back"].at # "waiting"
    BY <1>a DEF Sound
  <2>2. \A q \in Route \ {"back"} : u[q] = t[q]
    BY <1>2 DEF Route
  <2> QED BY ONLY e \in ExamType, <1>0, <2>1, <2>2, QueuedStays
<1>4. Asking(u, a)
  <2>1. \A w \in b.writes : w[2] = "ok" => a["back"][w[1]] > 0
    BY <1>0, <1>1 DEF Sound, Asking
  <2> QED BY <1>1, <1>2, <2>1 DEF Sound, Asking, Route
<1>5. BackAsks(u, a, v)
  <2>1. ASSUME NEW c \in CallId, a["back"][c] > 0
        PROVE  a["back"][c] = 1 /\ (v[c] # "none" \/ \E w \in b.writes : w[1] = c)
    BY <1>a, <1>1, <2>1 DEF Sound, BackAsks
  <2> QED BY <1>1, <1>2, <2>1 DEF Sound, BackAsks
<1>6. Prompt(e, u, s) /\ Limits(e)
  BY <1>1, <1>2 DEF Sound, Prompt
<1>7. ASSUME LiveAsks(e, t, a) PROVE LiveAsks(e, u, a)
  BY <1>2, <1>7 DEF LiveAsks
<1> QED BY <1>2, <1>3, <1>4, <1>5, <1>6, <1>7 DEF Sound

-----------------------------------------------------------------------------
(* What the application does to a sound examination. *)

\* Whatever leaves the queues alone, and forgets the last pause when it changes the
\* flag, leaves an examination sound.
LEMMA SameWork ==
  ASSUME NEW e, NEW t, NEW a, NEW v, NEW s, Sound(e, t, a, v, s),
         NEW f, f.queue = e.queue, f.stopping = e.stopping, f.live = e.live,
         f.seen = e.seen, e.state = "gone" => f.state = "gone",
         NEW z, z = 0 \/ (z = s /\ f.paused = e.paused)
  PROVE  Sound(f, t, a, v, z)
<1>1. Queued(f, t) /\ Prompt(f, t, z) /\ Limits(f)
  BY DEF Sound, Queued, Prompt, Limits
<1>2. ASSUME LiveAsks(e, t, a) PROVE LiveAsks(f, t, a)
  BY <1>2 DEF LiveAsks
<1> QED BY <1>1, <1>2 DEF Sound

\* An examination that is told to stop for the first time has one Stop to read.
LEMMA StoppedSound ==
  ASSUME NEW e \in ExamType, NEW t \in Threads, NEW a \in Counts, NEW v \in Verdicts,
         NEW s \in 0..2, Sound(e, t, a, v, s), ~e.stopping,
         NEW f, f.stopping, f.live = e.live, f.seen = e.seen, f.state = e.state,
         f.paused = e.paused, f.queue = Append(e.queue, Stop)
  PROVE  Sound(f, t, a, v, s)
<1>1. e.queue \in Seq(TaskType) /\ Stop \in TaskType /\ Stop.path = "stop"
  BY DEF ExamType, Stop, TaskType
<1>2. PICK q : q = Append(e.queue, Stop)
  OBVIOUS
<1>3. /\ q \in Seq(TaskType) /\ Len(e.queue) \in Nat /\ Len(q) = Len(e.queue) + 1
      /\ \A i \in 1..Len(e.queue) : q[i] = e.queue[i]
      /\ q[Len(e.queue) + 1] = Stop
  BY <1>1, <1>2, AfterAppend
<1>5. f.queue = q /\ f.stopping /\ f.live = e.live
      /\ f.seen = e.seen /\ f.state = e.state /\ f.paused = e.paused
  BY <1>2
<1>6. \A i \in 1..Len(e.queue) : e.queue[i].path # "stop"
  BY DEF Sound, Queued
<1>7. Queued(f, t)
  <2>1. ASSUME NEW i \in 1..Len(q)
        PROVE  IF q[i].path = "stop" THEN q[i] = Stop
               ELSE t[q[i].path].at = "waiting" /\ t[q[i].path].call = q[i].call
    <3>1. CASE i \in 1..Len(e.queue)
      BY <1>3, <1>6, <3>1 DEF Sound, Queued
    <3>2. CASE i = Len(e.queue) + 1
      BY <1>1, <1>3, <3>2
    <3> QED BY <1>3, <3>1, <3>2
  <2>2. ASSUME NEW i \in 1..Len(q), NEW j \in 1..Len(q), q[i].path = q[j].path
        PROVE  i = j
    <3>1. CASE i \in 1..Len(e.queue) /\ j \in 1..Len(e.queue)
      BY <1>3, <2>2, <3>1 DEF Sound, Queued
    <3>2. CASE i = Len(e.queue) + 1 \/ j = Len(e.queue) + 1
      <4>1. \A k \in 1..Len(e.queue) : q[k].path # "stop"
        BY <1>3, <1>6
      <4>2. q[Len(e.queue) + 1].path = "stop"
        BY <1>1, <1>3
      <4> QED BY ONLY <1>3, <2>2, <3>2, <4>1, <4>2, i \in 1..Len(q), j \in 1..Len(q)
    <3> QED BY <1>3, <3>1, <3>2
  <2> QED BY ONLY <1>5, <2>1, <2>2 DEF Queued
<1>8. Prompt(f, t, s) /\ Limits(f)
  BY <1>5 DEF Sound, Prompt, Limits
<1>9. ASSUME LiveAsks(e, t, a) PROVE LiveAsks(f, t, a)
  BY <1>5, <1>9 DEF LiveAsks
<1> QED BY <1>5, <1>7, <1>8, <1>9 DEF Sound

\* A call that is offered is remembered, and waits if there is room; when the memory
\* has room for every call nothing is ever forgotten.
OfferStep(e, c, S, f) ==
  /\ S = IF Cardinality(e.seen) >= LIVE_SEEN_MAX THEN {} ELSE e.seen
  /\ f.queue = e.queue /\ f.stopping = e.stopping /\ f.paused = e.paused
  /\ f.state = e.state /\ f.seen = S \cup {c}
  /\ f.live = IF c \in S THEN e.live ELSE Enqueued(e.live, c)

LEMMA OfferedSound ==
  ASSUME NEW e \in ExamType, NEW t \in Threads, NEW a \in Counts, NEW v \in Verdicts,
         NEW s \in 0..2, Sound(e, t, a, v, s), e.state # "gone", NEW c \in CallId,
         NEW S, NEW f, OfferStep(e, c, S, f)
  PROVE  Sound(f, t, a, v, s) /\ f.seen \in SUBSET CallId /\ f.live \in Seq(CallId)
<1> USE DEF OfferStep
<1>1. /\ e.seen \in SUBSET CallId /\ e.live \in Seq(CallId) /\ Len(e.live) \in Nat
      /\ \A i \in 1..Len(e.live) : e.live[i] \in CallId
  BY LenProperties, ElementOfSeq DEF ExamType
<1>2. Cardinality(e.seen) \in Nat /\ IsFiniteSet(e.seen) /\ Cardinality(e.seen) <= Cardinality(CallId)
  BY <1>1, CallsAreFinite
<1>3. S \in SUBSET CallId /\ IsFiniteSet(S) /\ Cardinality(S) \in Nat
      /\ Cardinality(S) < LIVE_SEEN_MAX
  <2>1. CASE Cardinality(e.seen) >= LIVE_SEEN_MAX
    BY <2>1, FS_EmptySet, ExaminationAssumption
  <2>2. CASE ~(Cardinality(e.seen) >= LIVE_SEEN_MAX)
    BY <1>1, <1>2, <2>2, ExaminationAssumption
  <2> QED BY <2>1, <2>2
<1>4. Cardinality(CallId) < LIVE_SEEN_MAX => S = e.seen
  BY <1>2, CallsAreFinite, ExaminationAssumption
<1>5. CASE c \in S
  <2>1. f.seen = S /\ f.live = e.live /\ f.queue = e.queue
        /\ f.stopping = e.stopping /\ f.paused = e.paused /\ f.state = e.state
    BY <1>5
  <2>2. Queued(f, t) /\ Prompt(f, t, s)
    BY <2>1 DEF Sound, Queued, Prompt
  <2>3. Limits(f)
    BY <1>3, <2>1, ExaminationAssumption DEF Sound, Limits
  <2>4. ASSUME LiveAsks(e, t, a), S = e.seen PROVE LiveAsks(f, t, a)
    BY <2>1, <2>4 DEF LiveAsks
  <2> QED BY <1>1, <1>3, <1>4, <2>1, <2>2, <2>3, <2>4 DEF Sound
<1>6. CASE c \notin S
  <2>1. PICK m : m = Enqueued(e.live, c)
    OBVIOUS
  <2>2. /\ m \in Seq(CallId) /\ Len(m) \in Nat
        /\ \/ m = e.live
           \/ /\ Len(m) = Len(e.live) + 1 /\ m[Len(m)] = c
              /\ \A i \in 1..Len(e.live) : m[i] = e.live[i]
        /\ Len(m) <= LIVE_QUEUE
    <3>1. CASE Len(e.live) < LIVE_QUEUE
      <4>1. m = Append(e.live, c)
        BY <2>1, <3>1 DEF Enqueued
      <4> QED BY <1>1, <3>1, <4>1, AfterAppend, ExaminationAssumption
    <3>2. CASE ~(Len(e.live) < LIVE_QUEUE)
      BY <1>1, <2>1, <3>2 DEF Enqueued, Sound, Limits
    <3> QED BY <3>1, <3>2
  <2>3. PICK R : R = S \cup {c}
    OBVIOUS
  <2>4. R \in SUBSET CallId /\ Cardinality(R) = Cardinality(S) + 1
    BY <1>3, <1>6, <2>3, FS_AddElement
  <2>8. f.seen = R /\ f.live = m /\ f.queue = e.queue
        /\ f.stopping = e.stopping /\ f.paused = e.paused /\ f.state = e.state
    BY <1>6, <2>1, <2>3
  <2>9. Queued(f, t) /\ Prompt(f, t, s)
    BY <2>8 DEF Sound, Queued, Prompt
  <2>10. Limits(f)
    <3>1. Cardinality(R) <= LIVE_SEEN_MAX
      BY <1>3, <2>4, ExaminationAssumption
    <3> QED BY ONLY <2>2, <2>8, <3>1 DEF Limits
  <2>11. ASSUME LiveAsks(e, t, a), S = e.seen PROVE LiveAsks(f, t, a)
    <3>1. a["live"][c] = 0
      <4>1. a["live"][c] \in 0..2
        BY DEF Counts, Route
      <4>2. ~(a["live"][c] > 0)
        BY <1>6, <2>11 DEF LiveAsks
      <4> QED BY <4>1, <4>2
    <3>2. \A i \in 1..Len(e.live) : e.live[i] \in S /\ e.live[i] # c /\ a["live"][e.live[i]] = 0
      BY <1>6, <2>11 DEF LiveAsks
    <3>3. \A i \in 1..Len(m) : m[i] \in R /\ a["live"][m[i]] = 0
      BY ONLY <1>1, <2>2, <2>3, <3>1, <3>2
    <3>4. \A i, j \in 1..Len(e.live) : e.live[i] = e.live[j] => i = j
      BY <2>11 DEF LiveAsks
    <3>5. \A i, j \in 1..Len(m) : m[i] = m[j] => i = j
      <4>1. CASE m = e.live
        BY ONLY <3>4, <4>1
      <4>2. CASE /\ Len(m) = Len(e.live) + 1 /\ m[Len(m)] = c
                 /\ \A i \in 1..Len(e.live) : m[i] = e.live[i]
        <5>1. Len(e.live) \in Nat
          BY <1>1
        <5>2. ASSUME NEW i \in 1..Len(m)
              PROVE  IF i = Len(m) THEN m[i] = c
                     ELSE i \in 1..Len(e.live) /\ m[i] = e.live[i] /\ m[i] # c
          BY ONLY <3>2, <4>2, <5>1, <5>2
        <5> QED BY ONLY <3>4, <5>2
      <4> QED BY <2>2, <4>1, <4>2
    <3>6. t["live"].at \in {"asking", "waiting"} =>
            /\ a["live"][t["live"].call] = 0 /\ t["live"].call \in S
            /\ \A i \in 1..Len(e.live) : e.live[i] # t["live"].call
      BY <2>11 DEF LiveAsks
    <3>7. t["live"].at \in {"asking", "waiting"} =>
            /\ a["live"][t["live"].call] = 0 /\ t["live"].call \in R
            /\ \A i \in 1..Len(m) : m[i] # t["live"].call
      BY ONLY <1>1, <1>6, <2>2, <2>3, <3>6
    <3>8. \A d \in CallId : a["live"][d] > 0 => a["live"][d] = 1 /\ d \in R
      BY <2>3, <2>11 DEF LiveAsks
    <3> QED BY ONLY <2>8, <3>3, <3>5, <3>7, <3>8 DEF LiveAsks
  <2> QED BY <1>4, <2>2, <2>4, <2>8, <2>9, <2>10, <2>11 DEF Sound
<1> QED BY <1>5, <1>6

\* An examination that nobody has started, or that has just been, is sound.
Nothing == [p \in Route |-> Resting]
NoneAsked == [p \in Route |-> [c \in CallId |-> 0]]

LEMMA NothingSound ==
  ASSUME NEW e, e.queue = <<>>, e.live = <<>>, e.seen = {}, NEW v
  PROVE  /\ Nothing \in Threads /\ NoneAsked \in Counts
         /\ Sound(e, Nothing, NoneAsked, v, 0)
<1>1. Resting \in ThreadType /\ Resting.at = "idle" /\ Resting.writes = {} /\ Resting.todo = {}
  BY DEF Resting, ThreadType
<1>2. Nothing \in Threads /\ \A p \in Route : Nothing[p] = Resting
  BY <1>1 DEF Nothing, Threads
<1>3. NoneAsked \in Counts /\ \A p \in Route, c \in CallId : NoneAsked[p][c] = 0
  BY DEF NoneAsked, Counts
<1>4. Len(e.queue) = 0 /\ Len(e.live) = 0
  OBVIOUS
<1>5. "back" \in Route /\ "live" \in Route
  BY DEF Route
<1>6. Queued(e, Nothing)
  BY <1>4 DEF Queued
<1>7. Asking(Nothing, NoneAsked) /\ BackAsks(Nothing, NoneAsked, v)
  BY <1>1, <1>2, <1>3, <1>5 DEF Asking, BackAsks
<1>8. Prompt(e, Nothing, 0) /\ Limits(e)
  BY <1>4, FS_EmptySet, ExaminationAssumption DEF Prompt, Limits
<1>9. LiveAsks(e, Nothing, NoneAsked)
  BY <1>1, <1>2, <1>3, <1>4, <1>5 DEF LiveAsks
<1> QED BY <1>2, <1>3, <1>6, <1>7, <1>8, <1>9 DEF Sound

\* One that went with the application has nothing before it.
LEMMA GoneSound ==
  ASSUME NEW e, NEW t \in Threads, NEW a \in Counts, NEW v, NEW s \in 0..2,
         Sound(e, t, a, v, s),
         NEW f, f.queue = <<>>, f.live = <<>>, f.seen = {}, f.state = "gone",
         NEW u, u = [p \in Route |-> [Resting EXCEPT !.at = "ended"]], NEW w
  PROVE  u \in Threads /\ Sound(f, u, a, w, s)
<1>1. PICK r : r = [Resting EXCEPT !.at = "ended"]
  OBVIOUS
<1>2. r \in ThreadType /\ r.at = "ended" /\ r.writes = {} /\ r.todo = {}
  BY <1>1 DEF Resting, ThreadType
<1>3. u \in Threads /\ \A p \in Route : u[p] = r
  BY <1>1, <1>2 DEF Threads
<1>4. Len(f.queue) = 0 /\ Len(f.live) = 0
  OBVIOUS
<1>5. "back" \in Route /\ "live" \in Route
  BY DEF Route
<1>6. Queued(f, u)
  BY <1>4 DEF Queued
<1>7. Asking(u, a)
  BY <1>2, <1>3 DEF Asking
<1>8. BackAsks(u, a, w)
  BY <1>2, <1>3, <1>5 DEF Sound, BackAsks
<1>9. Prompt(f, u, s) /\ Limits(f)
  BY <1>2, <1>3, <1>4, <1>5, FS_EmptySet, ExaminationAssumption DEF Sound, Prompt, Limits
<1>10. ASSUME LiveAsks(e, t, a) PROVE LiveAsks(f, u, a)
  BY <1>2, <1>3, <1>4, <1>5, <1>10 DEF LiveAsks
<1> QED BY <1>3, <1>6, <1>7, <1>8, <1>9, <1>10 DEF Sound

-----------------------------------------------------------------------------
(* One examination moves. *)

\* What a step may not change when it is the step of a thread.
Still == UNCHANGED <<course, user, handle, lanes>>

LEMMA StartedOnes ==
  ASSUME IInv, NEW x \in Instance, exam[x].state # "unused"
  PROVE  x <= started /\ ~(x > started) /\ exam[x].model \in Model
<1>1. started \in Nat /\ x \in Nat
  BY ExaminationAssumption DEF IInv, Typed, Instance
<1>2. ~(x > started)
  BY DEF IInv, Lifecycle, Unused
<1> QED BY <1>1, <1>2 DEF IInv, Lifecycle

\* A step of the threads of x, which leaves e, t, a and s of it.
Moves(x, e, t, a, s) ==
  /\ Still /\ SameLife(e, exam[x])
  /\ exam' = [exam EXCEPT ![x] = e] /\ thread' = [thread EXCEPT ![x] = t]
  /\ asked' = [asked EXCEPT ![x] = a] /\ sincePause' = [sincePause EXCEPT ![x] = s]

\* A step of one examination's threads keeps the invariant when it leaves that one
\* sound and takes back no verdict, and each acceptance it writes was asked for.
LEMMA OneMoves ==
  ASSUME IInv, NEW x \in Instance, exam[x].state \in {"ready", "installed"},
         NEW e \in ExamType, NEW t \in Threads, NEW a \in Counts, NEW s \in 0..2,
         \A p \in Route, c \in CallId : asked[x][p][c] > 0 => a[p][c] > 0,
         Moves(x, e, t, a, s),
         verdict' \in [Model -> Verdicts],
         \A m \in Model, c \in CallId : verdict[m][c] # "none" => verdict'[m][c] # "none",
         \A m \in Model, c \in CallId : verdict'[m][c] = "ok" =>
           verdict[m][c] = "ok" \/ (m = e.model /\ \E p \in Route : a[p][c] > 0),
         Sound(e, t, a, verdict'[e.model], s)
  PROVE  IInv'
<1>0. /\ e.model = exam[x].model /\ e.state = exam[x].state
      /\ e.stopping = exam[x].stopping /\ e.paused = exam[x].paused
  BY DEF Moves, SameLife
<1>1. x <= started /\ e.model \in Model /\ exam \in [Instance -> ExamType]
  <2>1. ~(x > started)
    BY DEF IInv, Lifecycle, Unused
  <2>2. started \in Nat /\ x \in Nat
    BY ExaminationAssumption DEF IInv, Typed, Instance
  <2> QED BY <1>0, <2>1, <2>2 DEF IInv, Lifecycle, Typed
<1>2. /\ exam'[x] = e /\ thread'[x] = t /\ asked'[x] = a /\ sincePause'[x] = s
      /\ \A y \in Instance : y # x =>
           /\ exam'[y] = exam[y] /\ thread'[y] = thread[y] /\ asked'[y] = asked[y]
           /\ sincePause'[y] = sincePause[y]
  BY DEF IInv, Typed, Moves
<1>3. Typed'
  BY DEF IInv, Typed, Moves, Still, user, Threads, Counts, Verdicts
<1>4. Lifecycle'
  <2>1. handle' = handle /\ started' = started
    BY DEF Moves, Still, user
  <2>2. ASSUME NEW y \in Instance
        PROVE  /\ exam'[y].model = exam[y].model /\ exam'[y].state = exam[y].state
               /\ exam'[y].stopping = exam[y].stopping /\ exam'[y].paused = exam[y].paused
               /\ y # x => exam'[y] = exam[y] /\ thread'[y] = thread[y] /\ asked'[y] = asked[y]
                           /\ sincePause'[y] = sincePause[y]
    BY <1>0, <1>2
  <2>3. handle # 0 => handle \in Instance
    BY DEF IInv, Typed
  <2>4. exam[x].state # "gone" /\ ~(x > started)
    BY <1>1, ExaminationAssumption DEF IInv, Typed, Instance
  <2>5. exam'[x].state \in {"ready", "installed"}
    BY <1>0, <1>2
  <2> QED BY ONLY IInv, <2>1, <2>2, <2>3, <2>4, <2>5 DEF IInv, Lifecycle
<1>5. AllSound'
  <2>1. ASSUME NEW y \in Instance
        PROVE  Sound(exam'[y], thread'[y], asked'[y], VerdictsOf(y)', sincePause'[y])
    <3>1. CASE y = x
      <4>1. VerdictsOf(y)' = verdict'[e.model]
        BY <1>1, <1>2, <3>1 DEF VerdictsOf
      <4> QED BY <1>2, <3>1, <4>1
    <3>2. CASE y # x
      <4>1. Sound(exam[y], thread[y], asked[y], VerdictsOf(y), sincePause[y])
        BY DEF IInv, AllSound
      <4>2. \A c \in CallId : VerdictsOf(y)[c] # "none" => VerdictsOf(y)'[c] # "none"
        BY <1>2, <3>2 DEF VerdictsOf
      <4>3. Sound(exam[y], thread[y], asked[y], VerdictsOf(y)', sincePause[y])
        BY <4>1, <4>2, MoreVerdicts
      <4> QED BY <1>2, <3>2, <4>3
    <3> QED BY <3>1, <3>2
  <2> QED BY <2>1 DEF AllSound
<1>6. OkMeansAsked'
  <2>1. ASSUME NEW m \in Model, NEW c \in CallId, verdict'[m][c] = "ok"
        PROVE  \E y \in Instance, p \in Route : exam'[y].model = m /\ asked'[y][p][c] > 0
    <3>1. CASE verdict[m][c] = "ok"
      <4>1. PICK y \in Instance, p \in Route : exam[y].model = m /\ asked[y][p][c] > 0
        BY <3>1 DEF IInv, OkMeansAsked
      <4>2. exam'[y].model = m /\ asked'[y][p][c] > 0
        BY <1>0, <1>2, <4>1
      <4> QED BY <4>2
    <3>2. CASE m = e.model /\ \E p \in Route : a[p][c] > 0
      BY <1>2, <3>2
    <3> QED BY <2>1, <3>1, <3>2
  <2> QED BY <2>1 DEF OkMeansAsked
<1> QED BY <1>3, <1>4, <1>5, <1>6 DEF IInv

\* The same when no verdict is written.
LEMMA OneMovesQuietly ==
  ASSUME IInv, NEW x \in Instance, exam[x].state \in {"ready", "installed"},
         NEW e \in ExamType, SameLife(e, exam[x]),
         NEW t \in Threads, NEW a \in Counts, NEW s \in 0..2,
         \A p \in Route, c \in CallId : asked[x][p][c] > 0 => a[p][c] > 0,
         Still, exam' = [exam EXCEPT ![x] = e], thread' = [thread EXCEPT ![x] = t],
         asked' = [asked EXCEPT ![x] = a], sincePause' = [sincePause EXCEPT ![x] = s],
         verdict' = verdict, Sound(e, t, a, VerdictsOf(x), s)
  PROVE  IInv'
<1>1. ~(x > started)
  BY DEF IInv, Lifecycle, Unused
<1>2. e.model = exam[x].model /\ e.model \in Model
  BY <1>1, ExaminationAssumption DEF IInv, Lifecycle, Typed, Instance, SameLife
<1>3. VerdictsOf(x) = verdict'[e.model] /\ verdict' \in [Model -> Verdicts]
  BY <1>2 DEF VerdictsOf, IInv, Typed, Verdicts
<1>4. Sound(e, t, a, verdict'[e.model], s)
  BY <1>3
<1>5. Moves(x, e, t, a, s)
  BY DEF Moves
<1>6. \A m \in Model, c \in CallId : verdict'[m][c] = verdict[m][c]
  OBVIOUS
<1> QED BY <1>3, <1>4, <1>5, <1>6, OneMoves

LEMMA Parts ==
  ASSUME IInv, NEW x \in Instance
  PROVE  /\ exam[x] \in ExamType /\ thread[x] \in Threads /\ asked[x] \in Counts
         /\ VerdictsOf(x) \in Verdicts /\ sincePause[x] \in 0..2
         /\ Sound(exam[x], thread[x], asked[x], VerdictsOf(x), sincePause[x])
         /\ exam = [exam EXCEPT ![x] = exam[x]] /\ thread = [thread EXCEPT ![x] = thread[x]]
         /\ asked = [asked EXCEPT ![x] = asked[x]]
         /\ sincePause = [sincePause EXCEPT ![x] = sincePause[x]]
BY DEF IInv, Typed, AllSound, Threads, Counts, Verdicts, VerdictsOf

LEMMA LiveTakesKeeps ==
  ASSUME IInv, UNCHANGED course, NEW x \in Instance, LiveTakes(x)
  PROVE  IInv'
<1>1. exam[x].state \in {"ready", "installed"} /\ thread[x]["live"].at = "idle"
      /\ exam[x].live # <<>>
  BY DEF LiveTakes, At
<1>2. /\ exam[x] \in ExamType /\ thread[x] \in Threads /\ asked[x] \in Counts
      /\ VerdictsOf(x) \in Verdicts /\ sincePause[x] \in 0..2
      /\ Sound(exam[x], thread[x], asked[x], VerdictsOf(x), sincePause[x])
  BY Parts
<1>3. PICK q : q = Tail(exam[x].live)
  OBVIOUS
<1>4. q \in Seq(CallId) /\ Head(exam[x].live) \in CallId
  BY <1>1, <1>2, <1>3, AfterHead DEF ExamType
<1>5. PICK e : e = [exam[x] EXCEPT !.live = q]
  OBVIOUS
<1>6. /\ e \in ExamType /\ SameLife(e, exam[x]) /\ e.queue = exam[x].queue
      /\ e.seen = exam[x].seen /\ e.live = Tail(exam[x].live)
  BY <1>2, <1>3, <1>4, <1>5 DEF ExamType, SameLife
<1>7. PICK r : r = [Resting EXCEPT !.call = Head(exam[x].live),
                          !.at = IF exam[x].stopping THEN "ended" ELSE "asking"]
  OBVIOUS
<1>8. r \in ThreadType /\ r.at \in {"ended", "asking"} /\ r.call = Head(exam[x].live)
      /\ r.writes = {}
  BY <1>4, <1>7 DEF Resting, ThreadType
<1>9. PICK t : t = [thread[x] EXCEPT !["live"] = r]
  OBVIOUS
<1>10. t \in Threads /\ Sound(e, t, asked[x], VerdictsOf(x), sincePause[x])
  BY ONLY <1>1, <1>2, <1>6, <1>8, <1>9, TakesSound
<1>11. exam' = [exam EXCEPT ![x] = e] /\ thread' = [thread EXCEPT ![x] = t]
  BY <1>3, <1>5, <1>7, <1>9 DEF LiveTakes, Becomes
<1>12. Still /\ verdict' = verdict /\ asked' = [asked EXCEPT ![x] = asked[x]]
       /\ sincePause' = [sincePause EXCEPT ![x] = sincePause[x]]
  BY Parts DEF LiveTakes, Still
<1> QED BY ONLY IInv, x \in Instance, <1>1, <1>2, <1>6, <1>10, <1>11, <1>12, OneMovesQuietly

\* A step that changes nothing of an examination but one of its threads.
LEMMA ThreadMoves ==
  ASSUME IInv, UNCHANGED course, NEW x \in Instance, exam[x].state \in {"ready", "installed"},
         NEW path \in Route, NEW r, Becomes(x, path, r),
         UNCHANGED <<user, handle, exam, lanes, verdict, asked, sincePause>>,
         NEW t, t = [thread[x] EXCEPT ![path] = r],
         t \in Threads, Sound(exam[x], t, asked[x], VerdictsOf(x), sincePause[x])
  PROVE  IInv'
<1>1. thread' = [thread EXCEPT ![x] = t]
  BY DEF Becomes
<1>2. exam[x] \in ExamType /\ asked[x] \in Counts /\ sincePause[x] \in 0..2
  BY Parts
<1>3. Still /\ verdict' = verdict /\ asked' = [asked EXCEPT ![x] = asked[x]]
      /\ sincePause' = [sincePause EXCEPT ![x] = sincePause[x]]
      /\ exam' = [exam EXCEPT ![x] = exam[x]]
  BY Parts DEF Still
<1>4. PICK e \in ExamType : e = exam[x]
  BY <1>2
<1>5. PICK a \in Counts : a = asked[x]
  BY <1>2
<1>6. PICK s \in 0..2 : s = sincePause[x]
  BY <1>2
<1>7. /\ exam' = [exam EXCEPT ![x] = e] /\ asked' = [asked EXCEPT ![x] = a]
      /\ sincePause' = [sincePause EXCEPT ![x] = s] /\ Sound(e, t, a, VerdictsOf(x), s)
      /\ SameLife(e, exam[x])
      /\ \A p \in Route, c \in CallId : asked[x][p][c] > 0 => a[p][c] > 0
  BY <1>3, <1>4, <1>5, <1>6 DEF SameLife
<1>8. Still /\ verdict' = verdict
  BY <1>3
<1> QED BY ONLY IInv, x \in Instance, exam[x].state \in {"ready", "installed"}, t \in Threads,
               e \in ExamType, a \in Counts, s \in 0..2, <1>1, <1>7, <1>8, OneMovesQuietly

LEMMA LiveEndsKeeps ==
  ASSUME IInv, UNCHANGED course, NEW x \in Instance, LiveEnds(x)
  PROVE  IInv'
<1>1. exam[x].state \in {"ready", "installed"} /\ thread[x]["live"].at = "idle"
  BY DEF LiveEnds, At
<1>2. PICK t : t = [thread[x] EXCEPT !["live"] = [Resting EXCEPT !.at = "ended"]]
  OBVIOUS
<1>3. t \in Threads /\ Sound(exam[x], t, asked[x], VerdictsOf(x), sincePause[x])
  BY <1>1, <1>2, Parts, LiveRests
<1> QED BY <1>1, <1>2, <1>3, ThreadMoves DEF LiveEnds, Route

LEMMA BackReadsKeeps ==
  ASSUME IInv, UNCHANGED course, NEW x \in Instance, BackReads(x)
  PROVE  IInv'
<1>1. exam[x].state \in {"ready", "installed"} /\ thread[x]["back"].at = "idle"
  BY DEF BackReads, At
<1>2. CASE exam[x].stopping /\ Becomes(x, "back", [Resting EXCEPT !.at = "ended"])
  <2>1. PICK t : t = [thread[x] EXCEPT !["back"] = [Resting EXCEPT !.at = "ended"]]
    OBVIOUS
  <2>2. thread[x]["back"].writes = {}
    BY <1>1, Parts DEF Sound, BackAsks
  <2>3. t \in Threads /\ Sound(exam[x], t, asked[x], VerdictsOf(x), sincePause[x])
    BY <1>1, <2>1, <2>2, Parts, BackRests
  <2> QED BY <1>1, <1>2, <2>1, <2>3, ThreadMoves DEF BackReads, Route
<1>3. CASE /\ Pending(exam[x].model) # {}
           /\ Becomes(x, "back", [Resting EXCEPT !.at = "next", !.todo = Pending(exam[x].model)])
  <2>1. PICK S : S = Pending(exam[x].model)
    OBVIOUS
  <2>2. exam[x].model \in Model
    BY <1>1, StartedOnes
  <2>3. S \in SUBSET CallId /\ \A c \in S : VerdictsOf(x)[c] = "none"
    BY <2>1, <2>2 DEF Pending, PendingAll, Arrived, VerdictsOf
  <2>4. PICK r : r = [Resting EXCEPT !.at = "next", !.todo = S]
    OBVIOUS
  <2>5. PICK t : t = [thread[x] EXCEPT !["back"] = r]
    OBVIOUS
  <2>6. r \in ThreadType /\ r.at = "next" /\ r.todo = S /\ r.writes = {}
    BY <2>3, <2>4 DEF Resting, ThreadType
  <2>7. t \in Threads /\ Sound(exam[x], t, asked[x], VerdictsOf(x), sincePause[x])
    <3>1. /\ exam[x] \in ExamType /\ thread[x] \in Threads /\ asked[x] \in Counts
          /\ VerdictsOf(x) \in Verdicts /\ sincePause[x] \in 0..2
          /\ Sound(exam[x], thread[x], asked[x], VerdictsOf(x), sincePause[x])
      BY Parts
    <3>2. \A c \in r.todo : VerdictsOf(x)[c] = "none"
      BY <2>3, <2>6
    <3> QED BY ONLY <1>1, <2>5, <2>6, <3>1, <3>2, ReadsSound
  <2>8. Becomes(x, "back", r)
    BY <1>3, <2>1, <2>4
  <2> QED BY <1>1, <2>5, <2>7, <2>8, ThreadMoves DEF BackReads, Route
<1> QED BY <1>2, <1>3 DEF BackReads

LEMMA BackNextKeeps ==
  ASSUME IInv, UNCHANGED course, NEW x \in Instance, BackNext(x)
  PROVE  IInv'
<1>1. exam[x].state \in {"ready", "installed"} /\ thread[x]["back"].at = "next"
  BY DEF BackNext, At
<1>2. PICK r : r = IF Halt(x) THEN [thread[x]["back"] EXCEPT !.at = "flush"]
                   ELSE [thread[x]["back"] EXCEPT !.at = "asking", !.todo = @ \ {Oldest(@)},
                                                  !.call = Oldest(thread[x]["back"].todo)]
  OBVIOUS
<1>3. Becomes(x, "back", r)
  BY <1>2 DEF BackNext
<1>4. PICK t : t = [thread[x] EXCEPT !["back"] = r]
  OBVIOUS
<1>5. \/ t = [thread[x] EXCEPT !["back"].at = "flush"]
      \/ /\ ~exam[x].paused /\ thread[x]["back"].todo # {}
         /\ t = [thread[x] EXCEPT !["back"] = [thread[x]["back"] EXCEPT !.at = "asking",
                   !.todo = @ \ {Oldest(@)}, !.call = Oldest(thread[x]["back"].todo)]]
  BY <1>2, <1>4 DEF Halt
<1>6. t \in Threads /\ Sound(exam[x], t, asked[x], VerdictsOf(x), sincePause[x])
  <2>1. exam[x].state # "gone"
    BY <1>1
  <2> QED BY <1>1, <1>5, <2>1, Parts, NextSound
<1> QED BY <1>1, <1>3, <1>4, <1>6, ThreadMoves DEF BackNext, Route

LEMMA AsksKeeps ==
  ASSUME IInv, UNCHANGED course, NEW x \in Instance, NEW path \in Route, Asks(x, path)
  PROVE  IInv'
<1>1. exam[x].state \in {"ready", "installed"} /\ thread[x][path].at = "asking"
      /\ exam[x].state # "gone"
  BY DEF Asks, At
<1>2. /\ exam[x] \in ExamType /\ thread[x] \in Threads /\ asked[x] \in Counts
      /\ VerdictsOf(x) \in Verdicts /\ sincePause[x] \in 0..2
      /\ Sound(exam[x], thread[x], asked[x], VerdictsOf(x), sincePause[x])
  BY Parts
<1>3. PICK z : z = IF path = "back" /\ exam[x].paused THEN sincePause[x] + 1 ELSE sincePause[x]
  OBVIOUS
<1>4. sincePause' = [sincePause EXCEPT ![x] = z]
  <2>1. path = "back" => sincePause[x] = 0
    BY <1>1, <1>2 DEF Sound, Prompt
  <2>2. CASE path = "back" /\ exam[x].paused
    BY <1>3, <2>1, <2>2 DEF Asks
  <2>3. CASE ~(path = "back" /\ exam[x].paused)
    <3>1. sincePause' = sincePause /\ z = sincePause[x]
      BY <1>3, <2>3 DEF Asks
    <3> QED BY <3>1, Parts
  <2> QED BY <2>2, <2>3
<1>5. Still /\ verdict' = verdict /\ asked' = [asked EXCEPT ![x] = asked[x]]
  BY Parts DEF Asks, Still
<1>6. CASE exam[x].worker = "gone"
  <2>1. PICK b : b = Answered(thread[x][path], "failed")
    OBVIOUS
  <2>2. PICK t : t = [thread[x] EXCEPT ![path] = b]
    OBVIOUS
  <2>3. t \in Threads /\ z \in 0..2 /\ Sound(exam[x], t, asked[x], VerdictsOf(x), z)
    BY ONLY path \in Route, <1>1, <1>2, <1>3, <2>1, <2>2, AnsweredSound
  <2>4. thread' = [thread EXCEPT ![x] = t] /\ exam' = exam
    BY <1>6, <2>1, <2>2 DEF Asks, Becomes
  <2>5. exam' = [exam EXCEPT ![x] = exam[x]] /\ SameLife(exam[x], exam[x])
    BY <2>4, Parts DEF SameLife
  <2>6. thread' = [thread EXCEPT ![x] = t]
    BY <2>4
  <2> QED BY ONLY IInv, x \in Instance, <1>1, <1>2, <1>4, <1>5, <2>3, <2>5, <2>6, OneMovesQuietly
<1>7. CASE exam[x].worker # "gone"
  <2>1. PICK job : job = [path |-> path, call |-> thread[x][path].call]
    OBVIOUS
  <2>2. thread[x][path] \in ThreadType
    BY <1>2 DEF Threads
  <2>3. job \in TaskType /\ job.path = path /\ job.call = thread[x][path].call
    BY <2>1, <2>2 DEF ThreadType, TaskType
  <2>4. PICK q \in Seq(TaskType) : q = Append(exam[x].queue, job)
    BY <1>2, <2>3, AfterAppend DEF ExamType
  <2>5. PICK e : e = [exam[x] EXCEPT !.queue = q]
    OBVIOUS
  <2>6. /\ e \in ExamType /\ SameLife(e, exam[x]) /\ e.live = exam[x].live
        /\ e.seen = exam[x].seen /\ e.queue = Append(exam[x].queue, job)
    BY <1>2, <2>4, <2>5 DEF ExamType, SameLife
  <2>7. PICK b : b = [thread[x][path] EXCEPT !.at = "waiting"]
    OBVIOUS
  <2>8. /\ b \in ThreadType /\ b.at = "waiting" /\ b.call = thread[x][path].call
        /\ b.todo = thread[x][path].todo /\ b.writes = thread[x][path].writes
    BY <2>2, <2>7 DEF ThreadType
  <2>10. PICK t : t = [thread[x] EXCEPT ![path] = b]
    OBVIOUS
  <2>11. t \in Threads /\ z \in 0..2 /\ Sound(e, t, asked[x], VerdictsOf(x), z)
    <3>1. AskStep(exam[x], thread[x], path, e, t)
      BY ONLY <1>1, <2>3, <2>6, <2>8, <2>10 DEF AskStep
    <3> QED BY ONLY path \in Route, <1>2, <1>3, <3>1, AskSound
  <2>9. thread' = [thread EXCEPT ![x] = t] /\ exam' = [exam EXCEPT ![x] = e]
    BY <1>7, <2>1, <2>4, <2>5, <2>7, <2>10 DEF Asks, Becomes
  <2> QED BY ONLY IInv, x \in Instance, <1>1, <1>2, <1>4, <1>5, <2>6, <2>9, <2>11, OneMovesQuietly
<1> QED BY <1>6, <1>7

LEMMA WorkerAnswersKeeps ==
  ASSUME IInv, UNCHANGED course, NEW x \in Instance, WorkerAnswers(x)
  PROVE  IInv'
<1>0. exam[x].state \in {"ready", "installed"}
  BY DEF WorkerAnswers, IInv, Lifecycle
<1>1. exam[x].queue # <<>> /\ Head(exam[x].queue) # Stop /\ exam[x].state # "gone"
  BY <1>0 DEF WorkerAnswers
<1>2. /\ exam[x] \in ExamType /\ thread[x] \in Threads /\ asked[x] \in Counts
      /\ VerdictsOf(x) \in Verdicts /\ sincePause[x] \in 0..2
      /\ Sound(exam[x], thread[x], asked[x], VerdictsOf(x), sincePause[x])
  BY Parts
<1>3. PICK p, c : p = Head(exam[x].queue).path /\ c = Head(exam[x].queue).call
  OBVIOUS
<1>4. PICK answer \in {"ok", "failed"} :
        Becomes(x, Head(exam[x].queue).path,
                Answered(thread[x][Head(exam[x].queue).path], answer))
  BY DEF WorkerAnswers
<1>5. PICK q : q = Tail(exam[x].queue)
  OBVIOUS
<1>6. PICK e : e = [exam[x] EXCEPT !.queue = q]
  OBVIOUS
<1>7. /\ e \in ExamType /\ SameLife(e, exam[x]) /\ e.live = exam[x].live
      /\ e.seen = exam[x].seen /\ e.queue = Tail(exam[x].queue)
  <2>1. q \in Seq(TaskType)
    BY <1>1, <1>2, <1>5, AfterHead DEF ExamType
  <2> QED BY <1>2, <1>5, <1>6, <2>1 DEF ExamType, SameLife
<1>8. PICK b : b = Answered(thread[x][p], answer)
  OBVIOUS
<1>9. PICK t : t = [thread[x] EXCEPT ![p] = b]
  OBVIOUS
<1>10. PICK a : a = Counted(asked[x], p, c)
  OBVIOUS
<1>11. /\ t \in Threads /\ a \in Counts /\ Sound(e, t, a, VerdictsOf(x), sincePause[x])
       /\ \A r \in Route, d \in CallId : asked[x][r][d] > 0 => a[r][d] > 0
  <2>1. AnswerStep(exam[x], thread[x], asked[x], e, t, a)
    BY ONLY answer \in {"ok", "failed"}, <1>1, <1>3, <1>7, <1>8, <1>9, <1>10 DEF AnswerStep
  <2> QED BY ONLY <1>2, <2>1, AnswerSound
<1>12. thread' = [thread EXCEPT ![x] = t] /\ exam' = [exam EXCEPT ![x] = e]
  BY <1>3, <1>4, <1>5, <1>6, <1>8, <1>9 DEF WorkerAnswers, Becomes
<1>13. asked' = [asked EXCEPT ![x] = a]
  BY <1>3, <1>10 DEF WorkerAnswers, Counted
<1>14. Still /\ verdict' = verdict /\ sincePause' = [sincePause EXCEPT ![x] = sincePause[x]]
  BY Parts DEF WorkerAnswers, Still
<1> QED BY ONLY IInv, x \in Instance, <1>0, <1>2, <1>7, <1>11, <1>12, <1>13, <1>14, OneMovesQuietly

LEMMA WorkerStopsKeeps ==
  ASSUME IInv, UNCHANGED course, NEW x \in Instance, WorkerStops(x)
  PROVE  IInv'
<1>0. exam[x].state \in {"ready", "installed"}
  BY DEF WorkerStops, IInv, Lifecycle
<1>1. exam[x].state # "gone"
  BY <1>0
<1>2. /\ exam[x] \in ExamType /\ thread[x] \in Threads /\ asked[x] \in Counts
      /\ VerdictsOf(x) \in Verdicts /\ sincePause[x] \in 0..2
      /\ Sound(exam[x], thread[x], asked[x], VerdictsOf(x), sincePause[x])
  BY Parts
<1>3. PICK q : q = <<>>
  OBVIOUS
<1>4. PICK g : g = [exam[x] EXCEPT !.queue = q]
  OBVIOUS
<1>5. g \in ExamType /\ SameLife(g, exam[x]) /\ g.live = exam[x].live
      /\ g.seen = exam[x].seen /\ g.queue = q
  <2>1. q \in Seq(TaskType)
    BY <1>3, EmptySeq
  <2> QED BY <1>2, <1>4, <2>1 DEF ExamType, SameLife
<1>6. PICK e : e = [g EXCEPT !.worker = "gone"]
  OBVIOUS
<1>7. e \in ExamType /\ SameLife(e, exam[x]) /\ e.live = exam[x].live
      /\ e.seen = exam[x].seen /\ e.queue = <<>>
  BY <1>3, <1>5, <1>6 DEF ExamType, SameLife
<1>8. PICK t : t = [p \in Route |-> IF thread[x][p].at = "waiting"
                                    THEN Answered(thread[x][p], "failed") ELSE thread[x][p]]
  OBVIOUS
<1>9. t \in Threads /\ Sound(e, t, asked[x], VerdictsOf(x), sincePause[x])
  BY ONLY <1>1, <1>2, <1>7, <1>8, WorkerStopsSound
<1>10. exam' = [exam EXCEPT ![x] = e]
  <2>1. e = [exam[x] EXCEPT !.worker = "gone", !.queue = <<>>]
    BY <1>2, <1>3, <1>4, <1>6 DEF ExamType
  <2> QED BY <2>1 DEF WorkerStops
<1>11. thread' = [thread EXCEPT ![x] = t]
  BY <1>8 DEF WorkerStops
<1>12. Still /\ verdict' = verdict /\ asked' = [asked EXCEPT ![x] = asked[x]]
       /\ sincePause' = [sincePause EXCEPT ![x] = sincePause[x]]
  BY Parts DEF WorkerStops, Still
<1> QED BY ONLY IInv, x \in Instance, <1>0, <1>2, <1>7, <1>9, <1>10, <1>11, <1>12, OneMovesQuietly

\* Answers a thread has in hand may be recorded: each acceptance was asked for.
LEMMA WritesKeep ==
  ASSUME IInv, NEW x \in Instance, exam[x].state \in {"ready", "installed"},
         NEW path \in Route, RecordVerdicts(PairOf(x), thread[x][path].writes), Still,
         UNCHANGED <<exam, asked, sincePause>>,
         NEW t, thread' = [thread EXCEPT ![x] = t],
         \A w \in Verdicts :
           /\ Sound(exam[x], thread[x], asked[x], w, sincePause[x])
           /\ \A y \in thread[x][path].writes : w[y[1]] # "none"
           => t \in Threads /\ Sound(exam[x], t, asked[x], w, sincePause[x])
  PROVE  IInv'
<1> DEFINE m == exam[x].model
           W == thread[x][path].writes
<1>1. /\ exam[x] \in ExamType /\ thread[x] \in Threads /\ asked[x] \in Counts
      /\ VerdictsOf(x) \in Verdicts /\ sincePause[x] \in 0..2
      /\ Sound(exam[x], thread[x], asked[x], VerdictsOf(x), sincePause[x])
  BY Parts
<1>2. m \in Model
  BY StartedOnes
<1>3. W \in SUBSET (CallId \X {"ok", "failed"}) /\ \A y \in W : y[2] = "ok" => asked[x][path][y[1]] > 0
  BY <1>1 DEF Threads, ThreadType, Sound, Asking
<1>4. PICK w : w = Recorded(VerdictsOf(x), W)
  OBVIOUS
<1>5. VerdictsOf(x) = verdict[m] /\ verdict \in [Model -> Verdicts]
  BY <1>2 DEF VerdictsOf, IInv, Typed, Verdicts
<1>6. verdict' = [verdict EXCEPT ![m] = w]
  BY <1>4, <1>5 DEF RecordVerdicts, Recorded, PairOf
<1> HIDE DEF m, W
<1>7. /\ w \in Verdicts
      /\ \A c \in CallId : VerdictsOf(x)[c] # "none" => w[c] # "none"
      /\ \A y \in W : w[y[1]] # "none"
      /\ \A c \in CallId : w[c] = "ok" =>
           VerdictsOf(x)[c] = "ok" \/ \E y \in W : y[1] = c /\ y[2] = "ok"
  BY ONLY <1>1, <1>3, <1>4, RecordedVerdicts
<1>8. Sound(exam[x], thread[x], asked[x], w, sincePause[x])
  BY ONLY <1>1, <1>7, MoreVerdicts
<1>9. t \in Threads /\ Sound(exam[x], t, asked[x], w, sincePause[x])
  BY <1>7, <1>8 DEF W
<1>10. /\ verdict' \in [Model -> Verdicts] /\ verdict'[m] = w
       /\ \A n \in Model : n # m => verdict'[n] = verdict[n]
  BY ONLY <1>2, <1>5, <1>6, <1>7
<1>11. \A n \in Model, c \in CallId : verdict[n][c] # "none" => verdict'[n][c] # "none"
  BY ONLY <1>5, <1>7, <1>10
<1>12. \A n \in Model, c \in CallId : verdict'[n][c] = "ok" =>
         verdict[n][c] = "ok" \/ (n = m /\ \E p \in Route : asked[x][p][c] > 0)
  <2> SUFFICES ASSUME NEW n \in Model, NEW c \in CallId, verdict'[n][c] = "ok",
                      verdict[n][c] # "ok"
               PROVE  n = m /\ \E p \in Route : asked[x][p][c] > 0
    OBVIOUS
  <2>1. n = m
    BY <1>10
  <2>2. PICK y \in W : y[1] = c /\ y[2] = "ok"
    BY <1>5, <1>7, <1>10, <2>1
  <2>3. asked[x][path][c] > 0
    BY <1>3, <2>2
  <2> QED BY <2>1, <2>3
<1>13. PICK e \in ExamType : e = exam[x]
  BY <1>1
<1>14. PICK a \in Counts : a = asked[x]
  BY <1>1
<1>15. PICK s \in 0..2 : s = sincePause[x]
  BY <1>1
<1>16. /\ SameLife(e, exam[x]) /\ exam' = [exam EXCEPT ![x] = e]
       /\ asked' = [asked EXCEPT ![x] = a] /\ sincePause' = [sincePause EXCEPT ![x] = s]
  <2>1. /\ exam' = exam /\ asked' = asked /\ sincePause' = sincePause
    OBVIOUS
  <2> QED BY <1>13, <1>14, <1>15, <2>1, Parts DEF SameLife
<1>17. e.model = m /\ \A p \in Route, c \in CallId : asked[x][p][c] > 0 => a[p][c] > 0
  BY <1>13, <1>14 DEF m
<1>18. Sound(e, t, a, verdict'[e.model], s)
  BY <1>9, <1>10, <1>13, <1>14, <1>15, <1>17
<1>19. \A n \in Model, c \in CallId : verdict'[n][c] = "ok" =>
         verdict[n][c] = "ok" \/ (n = e.model /\ \E p \in Route : a[p][c] > 0)
  BY <1>12, <1>14, <1>17
<1>20. Still /\ thread' = [thread EXCEPT ![x] = t] /\ t \in Threads
  BY <1>9
<1>21. verdict' \in [Model -> Verdicts]
  BY <1>10
<1>22. Moves(x, e, t, a, s)
  BY <1>16, <1>20 DEF Moves
<1> QED BY ONLY IInv, x \in Instance, exam[x].state \in {"ready", "installed"}, e \in ExamType,
               a \in Counts, s \in 0..2, <1>11, <1>17, <1>18, <1>19, <1>20, <1>21, <1>22, OneMoves

LEMMA LiveWritesKeeps ==
  ASSUME IInv, UNCHANGED course, NEW x \in Instance, LiveWrites(x)
  PROVE  IInv'
<1>1. exam[x].state \in {"ready", "installed"} /\ thread[x]["live"].at = "answered"
      /\ "live" \in Route
  BY DEF LiveWrites, At, Route
<1>2. exam[x] \in ExamType /\ thread[x] \in Threads /\ asked[x] \in Counts
      /\ sincePause[x] \in 0..2
  BY Parts
<1>3. PICK t : t = [thread[x] EXCEPT !["live"] = [Resting EXCEPT !.at = "idle"]]
  OBVIOUS
<1>4. ASSUME NEW w \in Verdicts, Sound(exam[x], thread[x], asked[x], w, sincePause[x])
      PROVE  t \in Threads /\ Sound(exam[x], t, asked[x], w, sincePause[x])
  BY ONLY w \in Verdicts, <1>1, <1>2, <1>3, <1>4, LiveRests
<1>5. thread' = [thread EXCEPT ![x] = t]
  <2>1. Resting = [Resting EXCEPT !.at = "idle"]
    BY DEF Resting
  <2> QED BY <1>3, <2>1 DEF LiveWrites, Becomes
<1>6. Still /\ UNCHANGED <<exam, asked, sincePause>>
      /\ RecordVerdicts(PairOf(x), thread[x]["live"].writes)
  BY DEF LiveWrites, Still
<1> QED BY ONLY IInv, x \in Instance, <1>1, <1>4, <1>5, <1>6, WritesKeep

LEMMA BackFlushesKeeps ==
  ASSUME IInv, UNCHANGED course, NEW x \in Instance, BackFlushes(x)
  PROVE  IInv'
<1>1. exam[x].state \in {"ready", "installed"} /\ thread[x]["back"].at = "flush"
      /\ "back" \in Route
  BY DEF BackFlushes, At, Route
<1>2. exam[x] \in ExamType /\ thread[x] \in Threads /\ asked[x] \in Counts
      /\ sincePause[x] \in 0..2
  BY Parts
<1>3. PICK t : t = [thread[x] EXCEPT !["back"] = [Resting EXCEPT !.at = "idle"]]
  OBVIOUS
<1>4. ASSUME NEW w \in Verdicts, Sound(exam[x], thread[x], asked[x], w, sincePause[x]),
             \A y \in thread[x]["back"].writes : w[y[1]] # "none"
      PROVE  t \in Threads /\ Sound(exam[x], t, asked[x], w, sincePause[x])
  BY ONLY w \in Verdicts, <1>1, <1>2, <1>3, <1>4, BackRests
<1>5. thread' = [thread EXCEPT ![x] = t]
  <2>1. Resting = [Resting EXCEPT !.at = "idle"]
    BY DEF Resting
  <2> QED BY <1>3, <2>1 DEF BackFlushes, Becomes
<1>6. Still /\ UNCHANGED <<exam, asked, sincePause>>
      /\ RecordVerdicts(PairOf(x), thread[x]["back"].writes)
  BY DEF BackFlushes, Still, Leftover
<1> QED BY ONLY IInv, x \in Instance, <1>1, <1>4, <1>5, <1>6, WritesKeep

LEMMA BackCollectsKeeps ==
  ASSUME IInv, UNCHANGED course, NEW x \in Instance, BackCollects(x)
  PROVE  IInv'
<1>1. exam[x].state \in {"ready", "installed"} /\ thread[x]["back"].at = "answered"
      /\ "back" \in Route
  BY DEF BackCollects, At, Route
<1>2. /\ exam[x] \in ExamType /\ thread[x] \in Threads /\ asked[x] \in Counts
      /\ VerdictsOf(x) \in Verdicts /\ sincePause[x] \in 0..2
      /\ Sound(exam[x], thread[x], asked[x], VerdictsOf(x), sincePause[x])
  BY Parts
<1>3. thread[x]["back"] \in ThreadType
  BY <1>1, <1>2 DEF Threads
<1>4. CASE Cardinality(thread[x]["back"].writes) >= WRITE_EVERY
  <2>1. PICK b : b = [thread[x]["back"] EXCEPT !.writes = {}, !.at = "next"]
    OBVIOUS
  <2>2. b \in ThreadType /\ b.at = "next" /\ b.todo = thread[x]["back"].todo /\ b.writes = {}
    BY <1>3, <2>1 DEF ThreadType
  <2>3. PICK t : t = [thread[x] EXCEPT !["back"] = b]
    OBVIOUS
  <2>4. ASSUME NEW w \in Verdicts, Sound(exam[x], thread[x], asked[x], w, sincePause[x]),
               \A y \in thread[x]["back"].writes : w[y[1]] # "none"
        PROVE  t \in Threads /\ Sound(exam[x], t, asked[x], w, sincePause[x])
    <3>1. CollectStep(thread[x], t, w)
      BY <1>1, <2>2, <2>3, <2>4 DEF CollectStep
    <3> QED BY ONLY w \in Verdicts, <1>2, <2>4, <3>1, CollectsSound
  <2>5. thread' = [thread EXCEPT ![x] = t]
    BY <1>4, <2>1, <2>3 DEF BackCollects, Becomes
  <2>6. Still /\ UNCHANGED <<exam, asked, sincePause>>
        /\ RecordVerdicts(PairOf(x), thread[x]["back"].writes)
    BY <1>4 DEF BackCollects, Still
  <2> QED BY ONLY IInv, x \in Instance, <1>1, <2>4, <2>5, <2>6, WritesKeep
<1>5. CASE ~(Cardinality(thread[x]["back"].writes) >= WRITE_EVERY)
  <2>1. PICK b : b = [thread[x]["back"] EXCEPT !.at = "next"]
    OBVIOUS
  <2>2. b \in ThreadType /\ b.at = "next" /\ b.todo = thread[x]["back"].todo
        /\ b.writes = thread[x]["back"].writes
    BY <1>3, <2>1 DEF ThreadType
  <2>3. PICK t : t = [thread[x] EXCEPT !["back"] = b]
    OBVIOUS
  <2>4. CollectStep(thread[x], t, VerdictsOf(x))
    BY <1>1, <2>2, <2>3 DEF CollectStep
  <2>5. t \in Threads /\ Sound(exam[x], t, asked[x], VerdictsOf(x), sincePause[x])
    BY ONLY <1>2, <2>4, CollectsSound
  <2>6. Becomes(x, "back", b)
    BY <1>5, <2>1 DEF BackCollects
  <2> QED BY <1>1, <1>5, <2>3, <2>5, <2>6, ThreadMoves DEF BackCollects
<1> QED BY <1>4, <1>5

-----------------------------------------------------------------------------
(* The application acts. *)

\* As long as what was asked about stays with the model it was asked of, an accepted
\* verdict was asked for.
LEMMA OkStays ==
  ASSUME IInv, verdict' = verdict, asked' = asked,
         \A x \in Instance : x <= started => exam'[x].model = exam[x].model
  PROVE  OkMeansAsked'
<1> SUFFICES ASSUME NEW m \in Model, NEW c \in CallId, verdict'[m][c] = "ok"
             PROVE  \E x \in Instance, p \in Route : exam'[x].model = m /\ asked'[x][p][c] > 0
  BY DEF OkMeansAsked
<1>1. PICK x \in Instance, p \in Route : exam[x].model = m /\ asked[x][p][c] > 0
  BY DEF IInv, OkMeansAsked
<1>2. ~(x > started)
  <2> SUFFICES ASSUME x > started PROVE FALSE
    OBVIOUS
  <2>1. asked[x] = NoneAsked
    BY DEF IInv, Lifecycle, NoneAsked
  <2> QED BY <1>1, <2>1 DEF NoneAsked
<1>3. x <= started
  BY <1>2, ExaminationAssumption DEF IInv, Typed, Instance
<1> QED BY <1>1, <1>3

\* What becomes of the examinations when the one held is told to stop.
LEMMA StopHeldKeeps ==
  ASSUME IInv, NEW H, H = StopHeld(exam)
  PROVE  /\ H \in [Instance -> ExamType]
         /\ \A x \in Instance :
              /\ H[x].model = exam[x].model /\ H[x].state = exam[x].state
              /\ H[x].paused = exam[x].paused /\ H[x].worker = exam[x].worker
              /\ H[x].stopping => exam[x].state = "installed"
              /\ x > started => H[x] = exam[x]
              /\ Sound(H[x], thread[x], asked[x], VerdictsOf(x), sincePause[x])
<1>1. exam \in [Instance -> ExamType]
  BY DEF IInv, Typed
<1>2. CASE handle = 0
  <2>1. H = exam
    BY <1>2 DEF StopHeld
  <2> QED BY <1>1, <2>1, Parts DEF IInv, Lifecycle
<1>3. CASE handle # 0
  <2>1. /\ handle \in Instance /\ handle <= started /\ exam[handle].state = "installed"
        /\ ~exam[handle].stopping /\ ~(handle > started)
    BY <1>3, ExaminationAssumption DEF IInv, Typed, Lifecycle, Instance
  <2>2. /\ exam[handle] \in ExamType /\ thread[handle] \in Threads /\ asked[handle] \in Counts
        /\ VerdictsOf(handle) \in Verdicts /\ sincePause[handle] \in 0..2
        /\ Sound(exam[handle], thread[handle], asked[handle], VerdictsOf(handle),
                 sincePause[handle])
    BY <2>1, Parts
  <2>3. Stop \in TaskType
    BY DEF Stop, TaskType
  <2>4. PICK q \in Seq(TaskType) : q = Append(exam[handle].queue, Stop)
    BY <2>2, <2>3, AfterAppend DEF ExamType
  <2>5. PICK f : f = [exam[handle] EXCEPT !.stopping = TRUE, !.open = FALSE, !.queue = q]
    OBVIOUS
  <2>6. /\ f \in ExamType /\ f.stopping = TRUE /\ f.live = exam[handle].live
        /\ f.seen = exam[handle].seen /\ f.state = exam[handle].state
        /\ f.paused = exam[handle].paused /\ f.model = exam[handle].model
        /\ f.worker = exam[handle].worker /\ f.queue = q
    BY <2>2, <2>5 DEF ExamType
  <2>7. Sound(f, thread[handle], asked[handle], VerdictsOf(handle), sincePause[handle])
    BY <2>1, <2>2, <2>4, <2>6, StoppedSound
  <2>8. H = [exam EXCEPT ![handle] = f]
    BY <1>3, <2>4, <2>5 DEF StopHeld
  <2>9. /\ H \in [Instance -> ExamType] /\ H[handle] = f
        /\ \A x \in Instance : x # handle => H[x] = exam[x]
    BY <1>1, <2>1, <2>6, <2>8
  <2>10. ASSUME NEW x \in Instance
         PROVE  /\ H[x].model = exam[x].model /\ H[x].state = exam[x].state
                /\ H[x].paused = exam[x].paused /\ H[x].worker = exam[x].worker
                /\ H[x].stopping => exam[x].state = "installed"
                /\ x > started => H[x] = exam[x]
                /\ Sound(H[x], thread[x], asked[x], VerdictsOf(x), sincePause[x])
    <3>1. CASE x = handle
      BY <2>1, <2>6, <2>7, <2>9, <3>1
    <3>2. CASE x # handle
      BY <2>9, <3>2, Parts DEF IInv, Lifecycle
    <3> QED BY <3>1, <3>2
  <2> QED BY <2>9, <2>10
<1> QED BY <1>2, <1>3

LEMMA UnsetModelKeeps ==
  ASSUME IInv, UNCHANGED course, UnsetModel
  PROVE  IInv'
<1>1. exam' = StopHeld(exam) /\ handle' = 0 /\ configured' = "none"
      /\ UNCHANGED <<prefPaused, thread, lanes, verdict, started, toggles, asked, sincePause>>
  BY DEF UnsetModel
<1>2. PICK H : H = StopHeld(exam)
  OBVIOUS
<1>3. /\ H \in [Instance -> ExamType]
      /\ \A x \in Instance :
           /\ H[x].model = exam[x].model /\ H[x].state = exam[x].state
           /\ H[x].paused = exam[x].paused /\ H[x].worker = exam[x].worker
           /\ H[x].stopping => exam[x].state = "installed"
           /\ x > started => H[x] = exam[x]
           /\ Sound(H[x], thread[x], asked[x], VerdictsOf(x), sincePause[x])
  BY <1>2, StopHeldKeeps
<1>4. exam' = H
  BY <1>1, <1>2
<1>5. Typed'
  BY <1>1, <1>3, <1>4 DEF IInv, Typed
<1>6. Lifecycle'
  BY <1>1, <1>3, <1>4 DEF IInv, Lifecycle
<1>7. AllSound'
  <2>1. ASSUME NEW x \in Instance PROVE VerdictsOf(x)' = VerdictsOf(x)
    BY <1>1, <1>3, <1>4 DEF VerdictsOf
  <2> QED BY <1>1, <1>3, <1>4, <2>1 DEF AllSound
<1>8. OkMeansAsked'
  BY <1>1, <1>3, <1>4, OkStays
<1> QED BY <1>5, <1>6, <1>7, <1>8 DEF IInv
\* The loader of a model that is chosen: nothing of it has run.
LEMMA LoaderFields ==
  ASSUME IInv, NEW m \in Model
  PROVE  /\ Loader(m) \in ExamType /\ Loader(m).model = m /\ Loader(m).state = "loading"
         /\ ~Loader(m).paused /\ ~Loader(m).stopping /\ Loader(m).worker = "none"
         /\ Loader(m).queue = <<>> /\ Loader(m).live = <<>> /\ Loader(m).seen = {}
<1>1. prefPaused \in BOOLEAN
  BY DEF IInv, Typed
<1>2. PICK q : q = <<>>
  OBVIOUS
<1>3. q \in Seq(CallId) /\ q \in Seq(TaskType)
  BY <1>2
<1>4. Unused = [state |-> "unused", model |-> "none", paused |-> FALSE, startPaused |-> FALSE,
                stopping |-> FALSE, open |-> FALSE, seen |-> {}, live |-> q,
                queue |-> q, worker |-> "none"]
  BY <1>2 DEF Unused
<1> QED BY <1>1, <1>2, <1>3, <1>4 DEF Loader, ExamType

\* The examination that is started next has not been touched.
LEMMA NextOne ==
  ASSUME IInv, started < course.starts
  PROVE  /\ started + 1 \in Instance /\ started + 1 \in 0..course.starts
         /\ thread[started + 1] = Nothing /\ asked[started + 1] = NoneAsked
         /\ sincePause[started + 1] = 0
         /\ \A x \in Instance : (x > started + 1) => x > started /\ x # started + 1
         /\ \A x \in Instance : (x <= started + 1) => x <= started \/ x = started + 1
<1>1. started \in 0..course.starts /\ course.starts \in 0..MaxStarts /\ MaxStarts \in Nat
  BY ExaminationAssumption DEF IInv, Typed
<1>2. started + 1 \in Instance /\ started + 1 \in 0..course.starts /\ started + 1 > started
  BY <1>1 DEF Instance
<1>3. \A x \in Instance : x > started => /\ thread[x] = Nothing /\ asked[x] = NoneAsked
                                         /\ sincePause[x] = 0
  BY DEF IInv, Lifecycle, Nothing, NoneAsked
<1>4. thread[started + 1] = Nothing /\ asked[started + 1] = NoneAsked
      /\ sincePause[started + 1] = 0
  BY <1>2, <1>3
<1>5. \A x \in Instance : x \in Int
  BY DEF Instance
<1> QED BY <1>1, <1>2, <1>4, <1>5

LEMMA SetModelKeeps ==
  ASSUME IInv, UNCHANGED course, NEW m \in course.models, SetModel(m)
  PROVE  IInv'
<1>1. /\ started < course.starts /\ configured' = m /\ started' = started + 1
      /\ exam' = [StopHeld(exam) EXCEPT ![started + 1] = Loader(m)] /\ handle' = 0
      /\ UNCHANGED <<prefPaused, thread, lanes, verdict, toggles, asked, sincePause>>
  BY DEF SetModel
<1>2. PICK H : H = StopHeld(exam)
  OBVIOUS
<1>3. /\ H \in [Instance -> ExamType]
      /\ \A x \in Instance :
           /\ H[x].model = exam[x].model /\ H[x].state = exam[x].state
           /\ H[x].paused = exam[x].paused /\ H[x].worker = exam[x].worker
           /\ H[x].stopping => exam[x].state = "installed"
           /\ x > started => H[x] = exam[x]
           /\ Sound(H[x], thread[x], asked[x], VerdictsOf(x), sincePause[x])
  BY <1>2, StopHeldKeeps
<1>4. m \in Model
  BY ExaminationAssumption DEF IInv, Typed
<1>5. PICK l : l = Loader(m)
  OBVIOUS
<1>6. /\ l \in ExamType /\ l.model = m /\ l.state = "loading" /\ ~l.paused /\ ~l.stopping
      /\ l.worker = "none" /\ l.queue = <<>> /\ l.live = <<>> /\ l.seen = {}
  BY <1>4, <1>5, LoaderFields
<1>7. PICK n : n = started + 1
  OBVIOUS
<1>8. /\ n \in Instance /\ n \in 0..course.starts /\ started' = n
      /\ thread[n] = Nothing /\ asked[n] = NoneAsked /\ sincePause[n] = 0
      /\ \A x \in Instance : x > n => x > started /\ x # n
      /\ \A x \in Instance : x <= n => x <= started \/ x = n
  BY ONLY <1>1, <1>7, IInv, NextOne
<1>9. /\ exam' \in [Instance -> ExamType] /\ exam'[n] = l
      /\ \A x \in Instance : x # n => exam'[x] = H[x]
  BY <1>1, <1>2, <1>3, <1>5, <1>6, <1>7, <1>8
<1>10. Typed'
  BY <1>1, <1>4, <1>8, <1>9 DEF IInv, Typed
<1>11. Lifecycle'
  <2>1. ASSUME NEW x \in Instance
        PROVE  /\ x > n => /\ exam'[x] = Unused /\ sincePause[x] = 0
                           /\ thread[x] = [path \in Route |-> Resting]
                           /\ asked[x] = [path \in Route |-> [c \in CallId |-> 0]]
               /\ x <= n => exam'[x].model \in Model
               /\ exam'[x].stopping => exam'[x].state = "installed"
               /\ exam'[x].state \in {"loading", "ready"} => ~exam'[x].paused
               /\ exam'[x].worker = "up" => exam'[x].state \in {"ready", "installed"}
               /\ exam'[x].state = "gone" => \A p \in Route : thread[x][p].at = "ended"
    <3>1. CASE x = n
      BY <1>4, <1>6, <1>8, <1>9, <3>1
    <3>2. CASE x # n
      <4>1. exam'[x] = H[x]
        BY <1>9, <3>2
      <4> QED BY ONLY x \in Instance, IInv, <1>3, <1>8, <3>2, <4>1 DEF IInv, Lifecycle
    <3> QED BY <3>1, <3>2
  <2> QED BY ONLY <1>1, <1>8, <2>1 DEF Lifecycle
<1>12. AllSound'
  <2>1. ASSUME NEW x \in Instance
        PROVE  Sound(exam'[x], thread'[x], asked'[x], VerdictsOf(x)', sincePause'[x])
    <3>1. CASE x = n
      <4>1. Sound(l, Nothing, NoneAsked, VerdictsOf(x)', 0)
        BY <1>6, NothingSound
      <4> QED BY <1>1, <1>8, <1>9, <3>1, <4>1
    <3>2. CASE x # n
      <4>1. VerdictsOf(x)' = VerdictsOf(x)
        BY <1>1, <1>3, <1>9, <3>2 DEF VerdictsOf
      <4> QED BY <1>1, <1>3, <1>9, <3>2, <4>1
    <3> QED BY <3>1, <3>2
  <2> QED BY <2>1 DEF AllSound
<1>13. OkMeansAsked'
  <2>1. ASSUME NEW x \in Instance, x <= started PROVE exam'[x].model = exam[x].model
    <3>1. x # n
      BY <1>7, <2>1 DEF IInv, Typed, Instance
    <3> QED BY <1>3, <1>9, <3>1
  <2> QED BY <1>1, <2>1, OkStays
<1> QED BY <1>10, <1>11, <1>12, <1>13 DEF IInv

LEMMA RestartKeeps ==
  ASSUME IInv, UNCHANGED course, Restart
  PROVE  IInv'
<1>1. /\ started < course.starts /\ configured # "none" /\ started' = started + 1
      /\ handle' = 0
      /\ UNCHANGED <<configured, prefPaused, lanes, verdict, toggles, asked, sincePause>>
  BY DEF Restart
<1>2. configured \in Model
  BY <1>1 DEF IInv, Typed
<1>3. PICK l : l = Loader(configured)
  OBVIOUS
<1>4. /\ l \in ExamType /\ l.model = configured /\ l.state = "loading" /\ ~l.paused
      /\ ~l.stopping /\ l.worker = "none" /\ l.queue = <<>> /\ l.live = <<>> /\ l.seen = {}
  BY <1>2, <1>3, LoaderFields
<1>5. PICK n : n = started + 1
  OBVIOUS
<1>6. /\ n \in Instance /\ n \in 0..course.starts /\ started' = n
      /\ thread[n] = Nothing /\ asked[n] = NoneAsked /\ sincePause[n] = 0
      /\ \A x \in Instance : x > n => x > started /\ x # n
      /\ \A x \in Instance : x <= n => x <= started \/ x = n
  BY ONLY <1>1, <1>5, IInv, NextOne
<1>7. PICK u : u = [p \in Route |-> [Resting EXCEPT !.at = "ended"]]
  OBVIOUS
<1>8. exam' = [y \in Instance |->
       IF y = n THEN l
       ELSE IF y > started THEN exam[y]
       ELSE [Unused EXCEPT !.state = "gone", !.model = exam[y].model, !.worker = "gone"]]
  BY <1>3, <1>5 DEF Restart
<1>9. thread' = [y \in Instance |-> IF y > started THEN thread[y] ELSE u]
  BY <1>7 DEF Restart
<1>10. started \in Nat /\ n > started /\ \A x \in Instance : x \in Nat
  BY <1>5, <1>6, ExaminationAssumption DEF IInv, Typed, Instance
<1>11. ASSUME NEW x \in Instance, ~(x > started)
       PROVE  /\ exam'[x] \in ExamType /\ exam'[x].state = "gone"
              /\ exam'[x].model = exam[x].model /\ exam[x].model \in Model
              /\ ~exam'[x].stopping /\ exam'[x].worker = "gone"
              /\ thread'[x] = u /\ u \in Threads /\ \A p \in Route : u[p].at = "ended"
              /\ Sound(exam'[x], u, asked[x], VerdictsOf(x), sincePause[x])
  <2>1. PICK g : g = [Unused EXCEPT !.state = "gone", !.model = exam[x].model, !.worker = "gone"]
    OBVIOUS
  <2>2. exam'[x] = g /\ thread'[x] = u
    BY <1>8, <1>9, <1>10, <1>11, <2>1
  <2>3. exam[x].model \in Model
    BY <1>10, <1>11 DEF IInv, Lifecycle
  <2>4. /\ g.state = "gone" /\ g.model = exam[x].model /\ ~g.stopping /\ g.worker = "gone"
        /\ g.queue = <<>> /\ g.live = <<>> /\ g.seen = {}
    BY <2>1 DEF Unused
  <2>5. g \in ExamType
    <3>1. PICK q : q = <<>>
      OBVIOUS
    <3>2. q \in Seq(CallId) /\ q \in Seq(TaskType)
      BY <3>1
    <3>3. Unused = [state |-> "unused", model |-> "none", paused |-> FALSE,
                    startPaused |-> FALSE, stopping |-> FALSE, open |-> FALSE, seen |-> {},
                    live |-> q, queue |-> q, worker |-> "none"]
      BY <3>1 DEF Unused
    <3> QED BY <2>1, <2>3, <3>2, <3>3 DEF ExamType
  <2>6. /\ thread[x] \in Threads /\ asked[x] \in Counts /\ sincePause[x] \in 0..2
        /\ Sound(exam[x], thread[x], asked[x], VerdictsOf(x), sincePause[x])
    BY Parts
  <2>7. u \in Threads /\ Sound(g, u, asked[x], VerdictsOf(x), sincePause[x])
    BY ONLY <1>7, <2>4, <2>6, GoneSound
  <2>8. \A p \in Route : u[p].at = "ended"
    BY <1>7 DEF Resting
  <2> QED BY <2>2, <2>3, <2>4, <2>5, <2>7, <2>8
<1>12. ASSUME NEW x \in Instance, x > started, x # n
       PROVE  exam'[x] = exam[x] /\ thread'[x] = thread[x]
  BY <1>8, <1>9, <1>12
<1>13. exam'[n] = l /\ thread'[n] = Nothing
  BY <1>6, <1>8, <1>9, <1>10
<1>14. exam' \in [Instance -> ExamType] /\ thread' \in [Instance -> Threads]
  <2>1. ASSUME NEW x \in Instance PROVE exam'[x] \in ExamType /\ thread'[x] \in Threads
    <3>1. CASE x = n
      BY <1>4, <1>6, <1>13, <3>1, Parts
    <3>2. CASE x > started /\ x # n
      BY <1>12, <3>2, Parts
    <3>3. CASE ~(x > started)
      BY <1>11, <3>3
    <3> QED BY <3>1, <3>2, <3>3
  <2> QED BY <1>8, <1>9, <2>1
<1>15. Typed'
  BY <1>1, <1>6, <1>14 DEF IInv, Typed, Threads
<1>16. Lifecycle'
  <2>1. ASSUME NEW x \in Instance
        PROVE  /\ x > n => /\ exam'[x] = Unused /\ sincePause[x] = 0
                           /\ thread'[x] = [path \in Route |-> Resting]
                           /\ asked[x] = [path \in Route |-> [c \in CallId |-> 0]]
               /\ x <= n => exam'[x].model \in Model
               /\ exam'[x].stopping => exam'[x].state = "installed"
               /\ exam'[x].state \in {"loading", "ready"} => ~exam'[x].paused
               /\ exam'[x].worker = "up" => exam'[x].state \in {"ready", "installed"}
               /\ exam'[x].state = "gone" => \A p \in Route : thread'[x][p].at = "ended"
    <3>1. CASE x = n
      BY <1>2, <1>4, <1>10, <1>13, <3>1
    <3>2. CASE x > started /\ x # n
      <4>1. /\ exam[x] = Unused /\ sincePause[x] = 0
            /\ thread[x] = [path \in Route |-> Resting]
            /\ asked[x] = [path \in Route |-> [c \in CallId |-> 0]]
        BY <3>2 DEF IInv, Lifecycle
      <4>2. ~(x <= n)
        BY <1>5, <1>10, <3>2
      <4>3. exam'[x] = Unused /\ thread'[x] = [path \in Route |-> Resting]
        BY <1>12, <3>2, <4>1
      <4>4. ~exam'[x].stopping /\ exam'[x].state = "unused" /\ exam'[x].worker = "none"
        BY <4>3 DEF Unused
      <4> QED BY ONLY <4>1, <4>2, <4>3, <4>4
    <3>3. CASE ~(x > started)
      <4>1. ~(x > n)
        BY <1>5, <1>10, <3>3
      <4>2. /\ exam'[x].state = "gone" /\ exam'[x].model \in Model
            /\ ~exam'[x].stopping /\ exam'[x].worker = "gone"
            /\ \A p \in Route : thread'[x][p].at = "ended"
        BY <1>11, <3>3
      <4> QED BY ONLY <4>1, <4>2
    <3> QED BY <3>1, <3>2, <3>3
  <2> QED BY ONLY <1>1, <1>6, <2>1 DEF Lifecycle
<1>17. AllSound'
  <2>1. ASSUME NEW x \in Instance
        PROVE  Sound(exam'[x], thread'[x], asked'[x], VerdictsOf(x)', sincePause'[x])
    <3>1. CASE x = n
      <4>1. Sound(l, Nothing, NoneAsked, VerdictsOf(x)', 0)
        BY <1>4, NothingSound
      <4> QED BY <1>1, <1>6, <1>13, <3>1, <4>1
    <3>2. CASE x > started /\ x # n
      <4>1. VerdictsOf(x)' = VerdictsOf(x)
        BY <1>1, <1>12, <3>2 DEF VerdictsOf
      <4>2. Sound(exam[x], thread[x], asked[x], VerdictsOf(x), sincePause[x])
        BY Parts
      <4> QED BY <1>1, <1>12, <3>2, <4>1, <4>2
    <3>3. CASE ~(x > started)
      <4>1. VerdictsOf(x)' = VerdictsOf(x)
        BY <1>1, <1>11, <3>3 DEF VerdictsOf
      <4> QED BY <1>1, <1>11, <3>3, <4>1
    <3> QED BY <3>1, <3>2, <3>3
  <2> QED BY <2>1 DEF AllSound
<1>18. OkMeansAsked'
  <2>1. ASSUME NEW x \in Instance, x <= started PROVE exam'[x].model = exam[x].model
    BY <1>10, <1>11, <2>1
  <2> QED BY <1>1, <2>1, OkStays
<1> QED BY <1>15, <1>16, <1>17, <1>18 DEF IInv

\* A step that changes the flags of examinations and what they are at, and neither
\* their queues nor their models, keeps the invariant when it keeps the order of an
\* examination's life.
LEMMA OnlyFlags ==
  ASSUME IInv, UNCHANGED course, exam' \in [Instance -> ExamType],
         sincePause' \in [Instance -> 0..2],
         UNCHANGED <<configured, thread, lanes, verdict, started, asked>>,
         prefPaused' \in BOOLEAN, handle' \in Instance \cup {0},
         toggles' \in 0..course.toggles,
         \A x \in Instance :
           /\ exam'[x].queue = exam[x].queue /\ exam'[x].stopping = exam[x].stopping
           /\ exam'[x].live = exam[x].live /\ exam'[x].seen = exam[x].seen
           /\ exam'[x].model = exam[x].model
           /\ exam[x].state = "gone" => exam'[x].state = "gone"
           /\ \/ sincePause'[x] = 0
              \/ sincePause'[x] = sincePause[x] /\ exam'[x].paused = exam[x].paused,
         Lifecycle'
  PROVE  IInv'
<1>1. Typed'
  BY DEF IInv, Typed
<1>2. AllSound'
  <2>1. ASSUME NEW x \in Instance
        PROVE  Sound(exam'[x], thread'[x], asked'[x], VerdictsOf(x)', sincePause'[x])
    <3>1. VerdictsOf(x)' = VerdictsOf(x)
      BY DEF VerdictsOf
    <3>2. Sound(exam[x], thread[x], asked[x], VerdictsOf(x), sincePause[x])
      BY Parts
    <3>3. Sound(exam'[x], thread[x], asked[x], VerdictsOf(x), sincePause'[x])
      BY <3>2, SameWork
    <3> QED BY <3>1, <3>3
  <2> QED BY <2>1 DEF AllSound
<1>3. OkMeansAsked'
  BY OkStays
<1> QED BY <1>1, <1>2, <1>3 DEF IInv

LEMMA LoadedKeeps ==
  ASSUME IInv, UNCHANGED course, NEW x \in Instance, Loaded(x)
  PROVE  IInv'
<1>1. /\ exam[x].state = "loading"
      /\ exam' = [exam EXCEPT ![x].state = "ready", ![x].open = TRUE, ![x].worker = "up"]
      /\ UNCHANGED <<user, handle, thread, lanes, verdict, asked, sincePause>>
  BY DEF Loaded
<1>2. exam \in [Instance -> ExamType] /\ exam[x] \in ExamType
  BY DEF IInv, Typed
<1>3. PICK f : f = [exam[x] EXCEPT !.state = "ready", !.open = TRUE, !.worker = "up"]
  OBVIOUS
<1>4. /\ f \in ExamType /\ f.state = "ready" /\ f.worker = "up" /\ f.queue = exam[x].queue
      /\ f.stopping = exam[x].stopping /\ f.live = exam[x].live /\ f.seen = exam[x].seen
      /\ f.model = exam[x].model /\ f.paused = exam[x].paused
  BY <1>2, <1>3 DEF ExamType
<1>5. exam' = [exam EXCEPT ![x] = f]
  BY <1>1, <1>3
<1>6. /\ exam' \in [Instance -> ExamType] /\ exam'[x] = f
      /\ \A y \in Instance : y # x => exam'[y] = exam[y]
  BY <1>2, <1>4, <1>5
<1>7. x <= started /\ ~(x > started) /\ exam[x].model \in Model
  BY <1>1, StartedOnes
<1>8. handle # x
  <2>1. x # 0
    BY DEF Instance
  <2>2. handle # 0 => exam[handle].state = "installed"
    BY DEF IInv, Lifecycle
  <2> QED BY <1>1, <2>1, <2>2
<1>9. Lifecycle'
  <2>1. UNCHANGED <<handle, started, sincePause, thread, asked>>
    BY <1>1 DEF user
  <2>2. ~f.stopping /\ ~f.paused
    BY <1>1, <1>4 DEF IInv, Lifecycle
  <2>3. handle # 0 => handle \in Instance
    BY DEF IInv, Typed
  <2> QED BY ONLY IInv, x \in Instance, <1>4, <1>6, <1>7, <1>8, <2>1, <2>2, <2>3 DEF IInv, Lifecycle
<1>10. \A y \in Instance :
           /\ exam'[y].queue = exam[y].queue /\ exam'[y].stopping = exam[y].stopping
           /\ exam'[y].live = exam[y].live /\ exam'[y].seen = exam[y].seen
           /\ exam'[y].model = exam[y].model
           /\ exam[y].state = "gone" => exam'[y].state = "gone"
           /\ \/ sincePause'[y] = 0
              \/ sincePause'[y] = sincePause[y] /\ exam'[y].paused = exam[y].paused
  BY <1>1, <1>4, <1>6
<1>11. /\ sincePause' \in [Instance -> 0..2] /\ prefPaused' \in BOOLEAN
       /\ handle' \in Instance \cup {0} /\ toggles' \in 0..course.toggles
       /\ UNCHANGED <<configured, thread, lanes, verdict, started, asked>>
  BY <1>1 DEF IInv, Typed, user
<1> QED BY ONLY IInv, UNCHANGED course, <1>6, <1>9, <1>10, <1>11, OnlyFlags

LEMMA LoadFailsKeeps ==
  ASSUME IInv, UNCHANGED course, NEW x \in Instance, LoadFails(x)
  PROVE  IInv'
<1>1. /\ exam[x].state = "loading"
      /\ exam' = [exam EXCEPT ![x].state = "failed"]
      /\ UNCHANGED <<user, handle, thread, lanes, verdict, asked, sincePause>>
  BY DEF LoadFails
<1>2. exam \in [Instance -> ExamType] /\ exam[x] \in ExamType
  BY DEF IInv, Typed
<1>3. PICK f : f = [exam[x] EXCEPT !.state = "failed"]
  OBVIOUS
<1>4. /\ f \in ExamType /\ f.state = "failed" /\ f.worker = exam[x].worker
      /\ f.queue = exam[x].queue
      /\ f.stopping = exam[x].stopping /\ f.live = exam[x].live /\ f.seen = exam[x].seen
      /\ f.model = exam[x].model /\ f.paused = exam[x].paused
  BY <1>2, <1>3 DEF ExamType
<1>5. exam' = [exam EXCEPT ![x] = f]
  BY <1>1, <1>3
<1>6. /\ exam' \in [Instance -> ExamType] /\ exam'[x] = f
      /\ \A y \in Instance : y # x => exam'[y] = exam[y]
  BY <1>2, <1>4, <1>5
<1>7. x <= started /\ ~(x > started) /\ exam[x].model \in Model
  BY <1>1, StartedOnes
<1>8. handle # x
  <2>1. x # 0
    BY DEF Instance
  <2>2. handle # 0 => exam[handle].state = "installed"
    BY DEF IInv, Lifecycle
  <2> QED BY <1>1, <2>1, <2>2
<1>9. Lifecycle'
  <2>1. UNCHANGED <<handle, started, sincePause, thread, asked>>
    BY <1>1 DEF user
  <2>2. ~f.stopping /\ f.worker # "up"
    BY <1>1, <1>4 DEF IInv, Lifecycle
  <2>3. handle # 0 => handle \in Instance
    BY DEF IInv, Typed
  <2> QED BY ONLY IInv, x \in Instance, <1>4, <1>6, <1>7, <1>8, <2>1, <2>2, <2>3 DEF IInv, Lifecycle
<1>10. \A y \in Instance :
           /\ exam'[y].queue = exam[y].queue /\ exam'[y].stopping = exam[y].stopping
           /\ exam'[y].live = exam[y].live /\ exam'[y].seen = exam[y].seen
           /\ exam'[y].model = exam[y].model
           /\ exam[y].state = "gone" => exam'[y].state = "gone"
           /\ \/ sincePause'[y] = 0
              \/ sincePause'[y] = sincePause[y] /\ exam'[y].paused = exam[y].paused
  BY <1>1, <1>4, <1>6
<1>11. /\ sincePause' \in [Instance -> 0..2] /\ prefPaused' \in BOOLEAN
       /\ handle' \in Instance \cup {0} /\ toggles' \in 0..course.toggles
       /\ UNCHANGED <<configured, thread, lanes, verdict, started, asked>>
  BY <1>1 DEF IInv, Typed, user
<1> QED BY ONLY IInv, UNCHANGED course, <1>6, <1>9, <1>10, <1>11, OnlyFlags

\* What is installed was not paused, so nothing was asked since its last pause; what
\* was held is only let go of.
LEMMA InstalledKeeps ==
  ASSUME IInv, UNCHANGED course, NEW x \in Instance, Installed(x)
  PROVE  IInv'
<1>1. /\ exam[x].state = "ready" /\ handle' = x
      /\ UNCHANGED <<user, thread, lanes, verdict, asked, sincePause>>
  BY DEF Installed
<1>2. exam \in [Instance -> ExamType] /\ exam[x] \in ExamType
  BY DEF IInv, Typed
<1>3. PICK f : f = [exam[x] EXCEPT !.state = "installed", !.paused = exam[x].startPaused]
  OBVIOUS
<1>4. /\ f \in ExamType /\ f.state = "installed" /\ f.worker = exam[x].worker
      /\ f.queue = exam[x].queue
      /\ f.stopping = exam[x].stopping /\ f.live = exam[x].live /\ f.seen = exam[x].seen
      /\ f.model = exam[x].model
  BY <1>2, <1>3 DEF ExamType
<1>5. exam' = [y \in Instance |-> IF y = x THEN f
                                  ELSE IF y = handle THEN [exam[y] EXCEPT !.open = FALSE]
                                  ELSE exam[y]]
  BY <1>3 DEF Installed
<1>6. exam'[x] = f
  BY <1>5
<1>7. ASSUME NEW y \in Instance, y # x
      PROVE  /\ exam'[y] \in ExamType /\ exam'[y].state = exam[y].state
             /\ exam'[y].worker = exam[y].worker /\ exam'[y].queue = exam[y].queue
             /\ exam'[y].stopping = exam[y].stopping /\ exam'[y].live = exam[y].live
             /\ exam'[y].seen = exam[y].seen /\ exam'[y].model = exam[y].model
             /\ exam'[y].paused = exam[y].paused
             /\ y > started => exam'[y] = exam[y]
  <2>1. exam[y] \in ExamType
    BY <1>2
  <2>2. CASE y = handle
    <3>1. exam'[y] = [exam[y] EXCEPT !.open = FALSE]
      BY <1>5, <1>7, <2>2
    <3>2. ~(y > started)
      BY <2>2, ExaminationAssumption DEF IInv, Typed, Lifecycle, Instance
    <3> QED BY <2>1, <3>1, <3>2 DEF ExamType
  <2>3. CASE y # handle
    BY <1>5, <1>7, <2>1, <2>3
  <2> QED BY <2>2, <2>3
<1>8. exam' \in [Instance -> ExamType]
  BY <1>4, <1>5, <1>6, <1>7
<1>9. x <= started /\ ~(x > started) /\ exam[x].model \in Model
  BY <1>1, StartedOnes
<1>10. ~exam[x].stopping /\ ~exam[x].paused
  BY <1>1 DEF IInv, Lifecycle
<1>11. sincePause[x] = 0
  BY <1>1, <1>10, Parts DEF Sound, Prompt
<1>12. Lifecycle'
  <2>1. UNCHANGED <<started, sincePause, thread, asked>>
    BY <1>1 DEF user
  <2> QED BY ONLY IInv, x \in Instance, <1>1, <1>4, <1>6, <1>7, <1>9, <1>10, <2>1
             DEF IInv, Lifecycle
<1>13. ASSUME NEW y \in Instance
       PROVE  /\ exam'[y].queue = exam[y].queue /\ exam'[y].stopping = exam[y].stopping
              /\ exam'[y].live = exam[y].live /\ exam'[y].seen = exam[y].seen
              /\ exam'[y].model = exam[y].model
              /\ exam[y].state = "gone" => exam'[y].state = "gone"
              /\ \/ sincePause'[y] = 0
                 \/ sincePause'[y] = sincePause[y] /\ exam'[y].paused = exam[y].paused
  BY <1>1, <1>4, <1>6, <1>7, <1>11
<1>14. /\ sincePause' \in [Instance -> 0..2] /\ prefPaused' \in BOOLEAN
       /\ handle' \in Instance \cup {0} /\ toggles' \in 0..course.toggles
       /\ UNCHANGED <<configured, thread, lanes, verdict, started, asked>>
  BY <1>1 DEF IInv, Typed, user
<1> QED BY ONLY IInv, UNCHANGED course, <1>8, <1>12, <1>13, <1>14, OnlyFlags

LEMMA TogglePauseKeeps ==
  ASSUME IInv, UNCHANGED course, TogglePause
  PROVE  IInv'
<1>1. /\ toggles < course.toggles /\ toggles' = toggles + 1 /\ prefPaused' = ~prefPaused
      /\ UNCHANGED <<configured, handle, thread, lanes, verdict, started, asked>>
  BY DEF TogglePause
<1>2. exam \in [Instance -> ExamType] /\ prefPaused' \in BOOLEAN
      /\ sincePause \in [Instance -> 0..2] /\ handle' \in Instance \cup {0}
  BY <1>1 DEF IInv, Typed
<1>3. toggles' \in 0..course.toggles
  <2>1. course.toggles \in Nat /\ toggles \in 0..course.toggles
    BY ExaminationAssumption DEF IInv, Typed
  <2> QED BY <1>1, <2>1
<1>4. CASE handle = 0
  <2>1. exam' = exam /\ sincePause' = sincePause
    BY <1>4 DEF TogglePause
  <2>2. Lifecycle'
    BY <1>1, <2>1 DEF IInv, Lifecycle
  <2> QED BY ONLY IInv, UNCHANGED course, <1>1, <1>2, <1>3, <2>1, <2>2, OnlyFlags
<1>5. CASE handle # 0
  <2>1. handle \in Instance /\ exam[handle].state = "installed" /\ ~exam[handle].stopping
        /\ handle <= started /\ ~(handle > started)
    BY <1>5, ExaminationAssumption DEF IInv, Typed, Lifecycle, Instance
  <2>2. PICK f : f = [exam[handle] EXCEPT !.paused = prefPaused']
    OBVIOUS
  <2>3. /\ f \in ExamType /\ f.state = exam[handle].state /\ f.worker = exam[handle].worker
        /\ f.queue = exam[handle].queue /\ f.stopping = exam[handle].stopping
        /\ f.live = exam[handle].live /\ f.seen = exam[handle].seen
        /\ f.model = exam[handle].model
    BY <1>2, <2>1, <2>2 DEF ExamType
  <2>4. exam' = [exam EXCEPT ![handle] = f] /\ sincePause' = [sincePause EXCEPT ![handle] = 0]
    BY <1>1, <1>5, <2>2 DEF TogglePause
  <2>5. /\ exam' \in [Instance -> ExamType] /\ exam'[handle] = f
        /\ sincePause' \in [Instance -> 0..2] /\ sincePause'[handle] = 0
        /\ \A y \in Instance : y # handle => exam'[y] = exam[y] /\ sincePause'[y] = sincePause[y]
    BY <1>2, <2>1, <2>3, <2>4
  <2>6. Lifecycle'
    BY ONLY IInv, <1>1, <2>1, <2>3, <2>5 DEF IInv, Lifecycle
  <2>7. \A y \in Instance :
           /\ exam'[y].queue = exam[y].queue /\ exam'[y].stopping = exam[y].stopping
           /\ exam'[y].live = exam[y].live /\ exam'[y].seen = exam[y].seen
           /\ exam'[y].model = exam[y].model
           /\ exam[y].state = "gone" => exam'[y].state = "gone"
           /\ \/ sincePause'[y] = 0
              \/ sincePause'[y] = sincePause[y] /\ exam'[y].paused = exam[y].paused
    BY <2>3, <2>5
  <2> QED BY ONLY IInv, UNCHANGED course, <1>1, <1>2, <1>3, <2>5, <2>6, <2>7, OnlyFlags
<1> QED BY <1>4, <1>5

\* The course of a call that arrives: only the examination held is offered it.
LEMMA ArriveKeeps ==
  ASSUME IInv, UNCHANGED course, NEW c \in CallId, Arrive(c)
  PROVE  IInv'
<1>1. /\ lanes[c] < course.lanes[c] /\ lanes' = [lanes EXCEPT ![c] = @ + 1]
      /\ UNCHANGED <<user, handle, thread, verdict, asked, sincePause>>
  BY DEF Arrive
<1>2. lanes' \in [CallId -> Nat] /\ \A d \in CallId : lanes'[d] <= course.lanes[d]
  <2>1. lanes \in [CallId -> Nat] /\ course.lanes \in [CallId -> Nat]
        /\ \A d \in CallId : lanes[d] <= course.lanes[d]
    BY ExaminationAssumption DEF IInv, Typed
  <2> QED BY <1>1, <2>1
<1>3. ASSUME exam' \in [Instance -> ExamType],
             \A x \in Instance :
               /\ exam'[x].model = exam[x].model /\ exam'[x].state = exam[x].state
               /\ exam'[x].stopping = exam[x].stopping /\ exam'[x].paused = exam[x].paused
               /\ exam'[x].worker = exam[x].worker
               /\ x > started => exam'[x] = exam[x]
               /\ Sound(exam'[x], thread[x], asked[x], VerdictsOf(x), sincePause[x])
      PROVE  IInv'
  <2>1. Typed'
    BY <1>1, <1>2, <1>3 DEF IInv, Typed, user
  <2>2. Lifecycle'
    <3>1. UNCHANGED <<handle, started, thread, asked, sincePause>>
      BY <1>1 DEF user
    <3>2. handle # 0 => handle \in Instance
      BY DEF IInv, Typed
    <3> QED BY ONLY IInv, <1>3, <3>1, <3>2 DEF IInv, Lifecycle
  <2>3. AllSound'
    <3>1. ASSUME NEW x \in Instance PROVE VerdictsOf(x)' = VerdictsOf(x)
      BY <1>1, <1>3 DEF VerdictsOf
    <3> QED BY <1>1, <1>3, <3>1 DEF AllSound
  <2>4. OkMeansAsked'
    BY <1>1, <1>3, OkStays
  <2> QED BY <2>1, <2>2, <2>3, <2>4 DEF IInv
<1>4. CASE handle = 0
  <2>1. exam' = exam
    BY <1>4 DEF Arrive
  <2>2. exam' \in [Instance -> ExamType]
    BY <2>1 DEF IInv, Typed
  <2>3. \A x \in Instance :
               /\ exam'[x].model = exam[x].model /\ exam'[x].state = exam[x].state
               /\ exam'[x].stopping = exam[x].stopping /\ exam'[x].paused = exam[x].paused
               /\ exam'[x].worker = exam[x].worker
               /\ x > started => exam'[x] = exam[x]
               /\ Sound(exam'[x], thread[x], asked[x], VerdictsOf(x), sincePause[x])
    BY <2>1, Parts
  <2> QED BY <1>3, <2>2, <2>3
<1>5. CASE handle # 0
  <2>1. handle \in Instance /\ exam[handle].state = "installed" /\ ~(handle > started)
    BY <1>5, ExaminationAssumption DEF IInv, Typed, Lifecycle, Instance
  <2>2. /\ exam[handle] \in ExamType /\ thread[handle] \in Threads /\ asked[handle] \in Counts
        /\ VerdictsOf(handle) \in Verdicts /\ sincePause[handle] \in 0..2
        /\ Sound(exam[handle], thread[handle], asked[handle], VerdictsOf(handle),
                 sincePause[handle])
    BY <2>1, Parts
  <2>3. PICK S : S = IF Cardinality(exam[handle].seen) >= LIVE_SEEN_MAX THEN {}
                     ELSE exam[handle].seen
    OBVIOUS
  <2>4. PICK R : R = S \cup {c}
    OBVIOUS
  <2>5. PICK l : l = IF c \in S THEN exam[handle].live ELSE Enqueued(exam[handle].live, c)
    OBVIOUS
  <2>6. PICK f : f = [exam[handle] EXCEPT !.seen = R, !.live = l]
    OBVIOUS
  <2>7. /\ f.queue = exam[handle].queue /\ f.stopping = exam[handle].stopping
        /\ f.paused = exam[handle].paused /\ f.state = exam[handle].state
        /\ f.model = exam[handle].model /\ f.worker = exam[handle].worker
        /\ f.seen = R /\ f.live = l
    BY <2>2, <2>6 DEF ExamType
  <2>8. /\ Sound(f, thread[handle], asked[handle], VerdictsOf(handle), sincePause[handle])
        /\ f.seen \in SUBSET CallId /\ f.live \in Seq(CallId)
    <3>1. OfferStep(exam[handle], c, S, f)
      BY <2>3, <2>4, <2>5, <2>7 DEF OfferStep
    <3>2. exam[handle].state # "gone"
      BY <2>1
    <3> QED BY ONLY c \in CallId, <2>2, <3>1, <3>2, OfferedSound
  <2>9. f \in ExamType
    BY <2>2, <2>6, <2>7, <2>8 DEF ExamType
  <2>10. exam' = [exam EXCEPT ![handle] = f]
    <3>1. exam' = Offer(handle, c) /\ S = Seen(handle)
      BY <1>5, <2>3 DEF Arrive, Seen
    <3>2. CASE c \in S
      <4>1. R = S /\ l = exam[handle].live
        BY <2>4, <2>5, <3>2
      <4>2. exam' = [exam EXCEPT ![handle].seen = R]
        BY <3>1, <3>2, <4>1 DEF Offer
      <4>3. f = [exam[handle] EXCEPT !.seen = R]
        BY <2>2, <2>6, <4>1 DEF ExamType
      <4> QED BY <4>2, <4>3
    <3>3. CASE c \notin S
      <4>1. l = Enqueued(exam[handle].live, c)
        BY <2>5, <3>3
      <4>2. exam' = [exam EXCEPT ![handle].seen = R, ![handle].live = l]
        BY <2>4, <3>1, <3>3, <4>1 DEF Offer
      <4> QED BY <2>6, <4>2
    <3> QED BY <3>2, <3>3
  <2>11. exam \in [Instance -> ExamType]
    BY DEF IInv, Typed
  <2>12. /\ exam' \in [Instance -> ExamType] /\ exam'[handle] = f
         /\ \A x \in Instance : x # handle => exam'[x] = exam[x]
    BY <2>1, <2>9, <2>10, <2>11
  <2>13. ASSUME NEW x \in Instance
         PROVE  /\ exam'[x].model = exam[x].model /\ exam'[x].state = exam[x].state
                /\ exam'[x].stopping = exam[x].stopping /\ exam'[x].paused = exam[x].paused
                /\ exam'[x].worker = exam[x].worker
                /\ x > started => exam'[x] = exam[x]
                /\ Sound(exam'[x], thread[x], asked[x], VerdictsOf(x), sincePause[x])
    <3>1. CASE x = handle
      BY <2>1, <2>7, <2>8, <2>12, <3>1
    <3>2. CASE x # handle
      BY <2>12, <3>2, Parts
    <3> QED BY <3>1, <3>2
  <2> QED BY <1>3, <2>12, <2>13
<1> QED BY <1>4, <1>5

-----------------------------------------------------------------------------
(* The specification. *)

LEMMA InitKept ==
  ASSUME ExaminationInit
  PROVE  IInv
<1>1. /\ course \in Courses /\ configured = "none" /\ prefPaused = FALSE /\ handle = 0
      /\ exam = [x \in Instance |-> Unused]
      /\ thread = [x \in Instance |-> Nothing]
      /\ lanes = [c \in CallId |-> 0]
      /\ verdict = [m \in Model |-> [c \in CallId |-> "none"]]
      /\ started = 0 /\ toggles = 0
      /\ asked = [x \in Instance |-> NoneAsked]
      /\ sincePause = [x \in Instance |-> 0]
  BY DEF ExaminationInit, Nothing, NoneAsked
<1>2. /\ Unused.queue = <<>> /\ Unused.live = <<>> /\ Unused.seen = {} /\ ~Unused.stopping
      /\ Unused.state = "unused" /\ Unused.worker = "none"
  BY DEF Unused
<1>3. Unused \in ExamType
  <2>1. PICK q : q = <<>>
    OBVIOUS
  <2>2. q \in Seq(CallId) /\ q \in Seq(TaskType)
    BY <2>1
  <2>3. Unused = [state |-> "unused", model |-> "none", paused |-> FALSE,
                  startPaused |-> FALSE, stopping |-> FALSE, open |-> FALSE, seen |-> {},
                  live |-> q, queue |-> q, worker |-> "none"]
    BY <2>1 DEF Unused
  <2> QED BY <2>2, <2>3 DEF ExamType
<1>4. Nothing \in Threads /\ NoneAsked \in Counts
  BY <1>2, NothingSound
<1>5. course.starts \in Nat /\ course.toggles \in Nat /\ course.lanes \in [CallId -> Nat]
  BY <1>1, ExaminationAssumption
<1>6. Typed
  <2>1. thread \in [Instance -> [Route -> ThreadType]]
    BY <1>1, <1>4 DEF Threads
  <2>2. asked \in [Instance -> [Route -> [CallId -> 0..2]]]
    BY <1>1, <1>4 DEF Counts
  <2>3. exam \in [Instance -> ExamType]
    BY <1>1, <1>3
  <2>4. lanes \in [CallId -> Nat] /\ \A c \in CallId : lanes[c] <= course.lanes[c]
    BY <1>1, <1>5
  <2>5. verdict \in [Model -> [CallId -> {"none", "ok", "failed"}]]
        /\ sincePause \in [Instance -> 0..2]
    BY <1>1
  <2>6. started \in 0..course.starts /\ toggles \in 0..course.toggles
    BY <1>1, <1>5
  <2>7. course \in Courses /\ configured \in Model \cup {"none"} /\ prefPaused \in BOOLEAN
        /\ handle \in Instance \cup {0}
    BY <1>1
  <2> QED BY ONLY <2>1, <2>2, <2>3, <2>4, <2>5, <2>6, <2>7 DEF Typed
<1>7. Lifecycle
  <2>1. ASSUME NEW x \in Instance
        PROVE  /\ exam[x] = Unused /\ sincePause[x] = 0 /\ ~(x <= started)
               /\ thread[x] = Nothing /\ asked[x] = NoneAsked
    BY <1>1 DEF Instance
  <2> QED BY <1>1, <1>2, <2>1 DEF Lifecycle, Nothing, NoneAsked
<1>8. AllSound
  BY <1>1, <1>2, NothingSound DEF AllSound
<1>9. OkMeansAsked
  BY <1>1 DEF OkMeansAsked
<1> QED BY <1>6, <1>7, <1>8, <1>9 DEF IInv

LEMMA NextKept ==
  ASSUME IInv, [ExaminationNext]_examinationvars
  PROVE  IInv'
<1>1. CASE UNCHANGED examinationvars
  <2>1. UNCHANGED <<course, configured, prefPaused, handle, exam, thread, lanes, verdict,
                    started, toggles, asked, sincePause>>
    BY <1>1 DEF examinationvars
  <2>2. Typed' /\ Lifecycle' /\ OkMeansAsked'
    BY <2>1 DEF IInv, Typed, Lifecycle, OkMeansAsked
  <2>3. AllSound'
    BY <2>1 DEF IInv, AllSound, VerdictsOf
  <2> QED BY <2>2, <2>3 DEF IInv
<1>2. CASE ExaminationNext
  <2>1. course' = course
    BY <1>2 DEF ExaminationNext
  <2>2. ASSUME NEW m \in course.models, SetModel(m) PROVE IInv'
    BY <2>1, <2>2, SetModelKeeps
  <2>3. CASE UnsetModel
    BY <2>1, <2>3, UnsetModelKeeps
  <2>4. CASE TogglePause
    BY <2>1, <2>4, TogglePauseKeeps
  <2>5. CASE Restart
    BY <2>1, <2>5, RestartKeeps
  <2>6. ASSUME NEW c \in CallId, Arrive(c) PROVE IInv'
    BY <2>1, <2>6, ArriveKeeps
  <2>7. ASSUME NEW x \in Instance, Loaded(x) \/ LoadFails(x) \/ Installed(x) PROVE IInv'
    BY <2>1, <2>7, LoadedKeeps, LoadFailsKeeps, InstalledKeeps
  <2>8. ASSUME NEW x \in Instance, LiveThread(x) PROVE IInv'
    <3>1. LiveTakes(x) \/ LiveEnds(x) \/ Asks(x, "live") \/ LiveWrites(x)
      BY <2>8 DEF LiveThread
    <3>2. "live" \in Route
      BY DEF Route
    <3> QED BY <2>1, <3>1, <3>2, LiveTakesKeeps, LiveEndsKeeps, AsksKeeps, LiveWritesKeeps
  <2>9. ASSUME NEW x \in Instance, BackThread(x) PROVE IInv'
    <3>1. BackReads(x) \/ BackNext(x) \/ Asks(x, "back") \/ BackCollects(x) \/ BackFlushes(x)
      BY <2>9 DEF BackThread
    <3>2. "back" \in Route
      BY DEF Route
    <3> QED BY <2>1, <3>1, <3>2, BackReadsKeeps, BackNextKeeps, AsksKeeps, BackCollectsKeeps,
               BackFlushesKeeps
  <2>10. ASSUME NEW x \in Instance, Worker(x) PROVE IInv'
    BY <2>1, <2>10, WorkerAnswersKeeps, WorkerStopsKeeps DEF Worker
  <2> QED BY <1>2, <2>2, <2>3, <2>4, <2>5, <2>6, <2>7, <2>8, <2>9, <2>10 DEF ExaminationNext
<1> QED BY <1>1, <1>2

\* Three jobs at most are before a worker: the jobs there come on different paths.
LEMMA QueueIsShort ==
  ASSUME IInv, NEW x \in Instance
  PROVE  Len(exam[x].queue) <= 3
<1>1. PICK q : q = exam[x].queue
  OBVIOUS
<1>2. q \in Seq(TaskType) /\ Len(q) \in Nat
  BY <1>1, Parts, LenProperties DEF ExamType
<1>3. \A i, j \in 1..Len(q) : q[i].path = q[j].path => i = j
  BY <1>1, Parts DEF Sound, Queued
<1>4. \A i \in 1..Len(q) : q[i].path \in {"live", "back", "stop"}
  <2>1. ASSUME NEW i \in 1..Len(q) PROVE q[i] \in TaskType
    BY <1>2, ElementOfSeq
  <2>2. ASSUME NEW j \in TaskType PROVE j.path \in {"live", "back", "stop"}
    BY DEF TaskType, Route
  <2> QED BY <2>1, <2>2
<1>5. SUFFICES ASSUME Len(q) > 3 PROVE FALSE
  BY <1>1, <1>2
<1>6. 1 \in 1..Len(q) /\ 2 \in 1..Len(q) /\ 3 \in 1..Len(q) /\ 4 \in 1..Len(q)
  BY <1>2, <1>5
<1>7. /\ q[1].path # q[2].path /\ q[1].path # q[3].path /\ q[1].path # q[4].path
      /\ q[2].path # q[3].path /\ q[2].path # q[4].path /\ q[3].path # q[4].path
  BY <1>3, <1>6
<1>8. /\ q[1].path \in {"live", "back", "stop"} /\ q[2].path \in {"live", "back", "stop"}
      /\ q[3].path \in {"live", "back", "stop"} /\ q[4].path \in {"live", "back", "stop"}
  BY <1>4, <1>6
<1> QED BY ONLY <1>7, <1>8

LEMMA TypesFollow ==
  ASSUME IInv
  PROVE  ExaminationTypeOK /\ PauseIsPrompt /\ OkMeansAsked
<1>1. ASSUME NEW x \in Instance
      PROVE  /\ Len(exam[x].live) <= LIVE_QUEUE /\ Cardinality(exam[x].seen) <= LIVE_SEEN_MAX
             /\ Len(exam[x].queue) <= 3 /\ sincePause[x] <= 1
  <2>1. Len(exam[x].queue) <= 3
    BY QueueIsShort
  <2>2. Prompt(exam[x], thread[x], sincePause[x]) /\ Limits(exam[x])
    BY Parts DEF Sound
  <2>3. sincePause[x] <= 1
    BY <2>2 DEF Prompt
  <2> QED BY <2>1, <2>2, <2>3 DEF Limits
<1> QED BY <1>1 DEF IInv, Typed, ExaminationTypeOK, PauseIsPrompt

\* What the backfill asked about it asked about once; so did the live path, as long
\* as it remembers every call.
LEMMA OnceFollows ==
  ASSUME IInv, Cardinality(CallId) < LIVE_SEEN_MAX
  PROVE  AskedOncePerPath
<1> SUFFICES ASSUME NEW x \in Instance, NEW path \in Route, NEW c \in CallId
             PROVE  asked[x][path][c] <= 1
  BY DEF AskedOncePerPath
<1>1. asked[x][path][c] \in 0..2
  BY DEF IInv, Typed
<1>2. /\ BackAsks(thread[x], asked[x], VerdictsOf(x))
      /\ LiveAsks(exam[x], thread[x], asked[x])
  BY Parts DEF Sound
<1>3. asked[x][path][c] > 0 => asked[x][path][c] = 1
  <2>1. CASE path = "back"
    BY <1>2, <2>1 DEF BackAsks
  <2>2. CASE path = "live"
    BY <1>2, <2>2 DEF LiveAsks
  <2> QED BY <2>1, <2>2 DEF Route
<1> QED BY <1>1, <1>3

\* Whatever the models, the calls and the limits are: the state keeps its shape, the
\* queues of an examination their limits, a pause costs one more question of its
\* backfill at most (analysis.rs, backfill_loop), and an accepted verdict was given
\* by the model it is recorded for (llm.rs, record).
THEOREM PausedAtOnce == ExaminationSpec => [](ExaminationTypeOK /\ PauseIsPrompt /\ OkMeansAsked)
<1>1. ExaminationInit => IInv
  BY InitKept
<1>2. IInv /\ [ExaminationNext]_examinationvars => IInv'
  BY NextKept
<1>3. IInv => ExaminationTypeOK /\ PauseIsPrompt /\ OkMeansAsked
  BY TypesFollow
<1> QED BY <1>1, <1>2, <1>3, PTL DEF ExaminationSpec

\* As long as the live path's memory has room for every call, no examination asks
\* about a call twice on one path, however often the call arrives and however the
\* backfill is interrupted (analysis.rs, claim and backfill_loop).
THEOREM NothingAskedTwice ==
  ASSUME Cardinality(CallId) < LIVE_SEEN_MAX
  PROVE  ExaminationSpec => []ExaminationKept
<1>1. ExaminationInit => IInv
  BY InitKept
<1>2. IInv /\ [ExaminationNext]_examinationvars => IInv'
  BY NextKept
<1>3. IInv => ExaminationKept
  BY TypesFollow, OnceFollows DEF ExaminationKept, ExamInv
<1> QED BY <1>1, <1>2, <1>3, PTL DEF ExaminationSpec

-----------------------------------------------------------------------------
(* The prompt of ModelAnswers: whatever the command, its block holds neither   *)
(* marker, and its tokens are a number.                                        *)

IsMarker(s, k) == s \in Seq(Char) /\ k \in 1..Len(s) /\ \A j \in 1..Len(s) : s[j] # "_"

LEMMA Markers == IsMarker(OPEN, 2) /\ IsMarker(CLOSE, 3) /\ Len(OPEN) = 4 /\ Len(CLOSE) = 4
<1>1. OPEN \in Seq(Char) /\ Len(OPEN) = 4 /\ \A j \in 1..4 : OPEN[j] # "_"
  BY DEF OPEN, Char
<1>2. CLOSE \in Seq(Char) /\ Len(CLOSE) = 4 /\ \A j \in 1..4 : CLOSE[j] # "_"
  BY DEF CLOSE, Char
<1>3. 2 \in 1..4 /\ 3 \in 1..4
  OBVIOUS
<1> HIDE DEF OPEN, CLOSE, Char
<1> QED BY <1>1, <1>2, <1>3 DEF IsMarker

LEMMA ReplacedText ==
  ASSUME NEW text \in Seq(Char), NEW s, NEW k
  PROVE  /\ Replaced(text, s, k) \in Seq(Char)
         /\ Len(Replaced(text, s, k)) = Len(text)
         /\ \A i \in 1..Len(text) : Replaced(text, s, k)[i] \in {text[i], "_"}
<1> DEFINE new == [i \in 1..Len(text) |-> IF Marked(text, s, i - k + 1) THEN "_" ELSE text[i]]
<1>1. \A i \in 1..Len(text) : text[i] \in Char
  OBVIOUS
<1>2. "_" \in Char
  BY DEF Char
<1>3. new \in Seq(Char) /\ Len(new) = Len(text)
  <2>1. Len(text) \in Nat
    OBVIOUS
  <2>2. new \in [1..Len(text) -> Char]
    BY <1>1, <1>2
  <2> HIDE DEF new
  <2> QED BY <2>1, <2>2
<1>4. \A i \in 1..Len(text) : new[i] \in {text[i], "_"}
  OBVIOUS
<1> QED BY <1>3, <1>4 DEF Replaced

\* A text in which a marker was replaced does not hold it.
LEMMA NoneLeft ==
  ASSUME NEW text \in Seq(Char), NEW s, NEW k, IsMarker(s, k),
         NEW at, Marked(Replaced(text, s, k), s, at)
  PROVE  FALSE
<1> DEFINE new == Replaced(text, s, k)
<1>1. /\ Len(new) = Len(text) /\ \A i \in 1..Len(text) : new[i] \in {text[i], "_"}
  BY ReplacedText
<1>2. /\ at \in 1..(Len(text) - Len(s) + 1) /\ \A j \in 1..Len(s) : new[at + j - 1] = s[j]
  BY <1>1 DEF Marked
<1>3. Len(s) \in Nat /\ Len(text) \in Nat /\ k \in 1..Len(s)
  <2>1. s \in Seq(Char) /\ k \in 1..Len(s)
    BY DEF IsMarker
  <2> QED BY <2>1
<1>4. ASSUME NEW j \in 1..Len(s) PROVE text[at + j - 1] = s[j]
  <2>1. at + j - 1 \in 1..Len(text)
    BY <1>2, <1>3
  <2>2. s[j] # "_"
    BY DEF IsMarker
  <2> QED BY <1>1, <1>2, <2>1, <2>2
<1>5. Marked(text, s, at)
  BY <1>2, <1>4 DEF Marked
<1>6. at + k - 1 \in 1..Len(text) /\ (at + k - 1) - k + 1 = at
  BY <1>2, <1>3
<1>7. new[at + k - 1] = "_"
  BY <1>5, <1>6 DEF Replaced
<1>8. s[k] # "_"
  BY DEF IsMarker
<1> QED BY <1>2, <1>3, <1>7, <1>8

\* ... and no other that it did not hold before.
LEMMA NoneMade ==
  ASSUME NEW text \in Seq(Char), NEW t, NEW k, NEW s, NEW m, IsMarker(s, m),
         NEW at, Marked(Replaced(text, t, k), s, at)
  PROVE  Marked(text, s, at)
<1> DEFINE new == Replaced(text, t, k)
<1>1. /\ Len(new) = Len(text) /\ \A i \in 1..Len(text) : new[i] \in {text[i], "_"}
  BY ReplacedText
<1>2. /\ at \in 1..(Len(text) - Len(s) + 1) /\ \A j \in 1..Len(s) : new[at + j - 1] = s[j]
  BY <1>1 DEF Marked
<1>3. Len(s) \in Nat /\ Len(text) \in Nat
  <2>1. s \in Seq(Char)
    BY DEF IsMarker
  <2> QED BY <2>1
<1>4. ASSUME NEW j \in 1..Len(s) PROVE text[at + j - 1] = s[j]
  <2>1. at + j - 1 \in 1..Len(text)
    BY <1>2, <1>3
  <2>2. s[j] # "_"
    BY DEF IsMarker
  <2> QED BY <1>1, <1>2, <2>1, <2>2
<1> QED BY <1>2, <1>4 DEF Marked

LEMMA BrokenText ==
  ASSUME NEW text \in Seq(Char)
  PROVE  /\ Broken(text) \in Seq(Char)
         /\ \A at : ~Marked(Broken(text), OPEN, at) /\ ~Marked(Broken(text), CLOSE, at)
<1> DEFINE once == Replaced(text, CLOSE, 3)
<1>1. once \in Seq(Char)
  BY ReplacedText
<1>2. Broken(text) \in Seq(Char)
  BY <1>1, ReplacedText DEF Broken
<1>3. ASSUME NEW at, Marked(Broken(text), OPEN, at) PROVE FALSE
  BY <1>1, <1>3, Markers, NoneLeft DEF Broken
<1>4. ASSUME NEW at, Marked(Broken(text), CLOSE, at) PROVE FALSE
  <2>1. Marked(once, CLOSE, at)
    BY <1>1, <1>4, Markers, NoneMade DEF Broken
  <2> QED BY <2>1, Markers, NoneLeft
<1> QED BY <1>2, <1>3, <1>4

\* A cut makes no marker either, for what is put behind it is in none.
LEMMA NoMarkerInside ==
  ASSUME NEW text \in Seq(Char), COMMAND_LIMIT \in Nat, NEW s \in {OPEN, CLOSE}, NEW at
  PROVE  CommandBody(text) \in Seq(Char) /\ ~Marked(CommandBody(text), s, at)
<1> DEFINE b == Broken(text)
           shown == SubSeq(b, 1, COMMAND_LIMIT)
<1>1. b \in Seq(Char) /\ ~Marked(b, s, at)
  BY BrokenText
<1>2. CASE ~(Len(b) > COMMAND_LIMIT)
  BY <1>1, <1>2 DEF CommandBody
<1>3. CASE Len(b) > COMMAND_LIMIT
  <2>1. /\ shown \in Seq(Char) /\ Len(shown) = COMMAND_LIMIT
        /\ \A i \in 1..COMMAND_LIMIT : shown[i] = b[i]
    BY <1>1, <1>3
  <2>2. TRUNCATED \in Seq(Char) /\ Len(TRUNCATED) = 1 /\ TRUNCATED[1] = "..."
    <3>1. "..." \in Char
      BY DEF Char
    <3> HIDE DEF Char
    <3> QED BY <3>1 DEF TRUNCATED
  <2> DEFINE body == shown \o TRUNCATED
  <2>3. /\ body \in Seq(Char) /\ Len(body) = COMMAND_LIMIT + 1
        /\ \A i \in 1..COMMAND_LIMIT : body[i] = b[i]
        /\ body[COMMAND_LIMIT + 1] = "..."
    <3> HIDE DEF shown
    <3> HIDE DEF b
    <3>1. /\ body \in Seq(Char) /\ Len(body) = COMMAND_LIMIT + 1
          /\ \A i \in 1..(COMMAND_LIMIT + 1) :
               body[i] = IF i <= COMMAND_LIMIT THEN shown[i] ELSE TRUNCATED[i - COMMAND_LIMIT]
      <4>1. /\ body \in Seq(Char) /\ Len(body) = Len(shown) + Len(TRUNCATED)
            /\ \A i \in 1..Len(shown) + Len(TRUNCATED) :
                 body[i] = IF i <= Len(shown) THEN shown[i] ELSE TRUNCATED[i - Len(shown)]
        BY <2>1, <2>2, ConcatProperties, Zenon
      <4> HIDE DEF body
      <4> QED BY <2>1, <2>2, <4>1
    <3>2. ASSUME NEW i \in 1..COMMAND_LIMIT PROVE body[i] = b[i]
      <4> HIDE DEF body
      <4> QED BY <2>1, <3>1
    <3>3. body[COMMAND_LIMIT + 1] = "..."
      <4> HIDE DEF body
      <4> QED BY <2>2, <3>1
    <3> QED BY <3>1, <3>2, <3>3
  <2>4. CommandBody(text) = body
    BY <1>3 DEF CommandBody
  <2> HIDE DEF body
  <2>5. ASSUME Marked(body, s, at) PROVE FALSE
    <3>1. /\ Len(s) = 4 /\ \A j \in 1..4 : s[j] # "..."
      BY DEF OPEN, CLOSE
    <3>2. /\ at \in 1..(COMMAND_LIMIT + 1 - 4 + 1) /\ \A j \in 1..4 : body[at + j - 1] = s[j]
      BY <2>3, <2>5, <3>1 DEF Marked
    <3>3. ASSUME NEW j \in 1..4 PROVE b[at + j - 1] = s[j]
      <4>1. at + j - 1 \in 1..(COMMAND_LIMIT + 1)
        BY <3>2
      <4>2. at + j - 1 # COMMAND_LIMIT + 1
        BY <2>3, <3>1, <3>2
      <4>3. at + j - 1 \in 1..COMMAND_LIMIT
        BY <4>1, <4>2
      <4> QED BY <2>3, <3>2, <4>3
    <3>4. Len(b) \in Nat /\ at \in 1..(Len(b) - 4 + 1)
      BY <1>1, <1>3, <3>2
    <3> QED BY <1>1, <3>1, <3>3, <3>4 DEF Marked
  <2> QED BY <2>3, <2>4, <2>5
<1> QED BY <1>2, <1>3

LEMMA TailIsCounted ==
  ASSUME NEW text \in Seq(Char), COMMAND_LIMIT \in Nat
  PROVE  TailTokens(text) \in Nat \ {0}
<1>1. CommandBody(text) \in Seq(Char)
  BY NoMarkerInside
<1>2. Len(CommandBody(text)) \in Nat
  BY <1>1
<1>3. IsFiniteSet(1..Len(CommandBody(text)))
  BY <1>2, FS_Interval
<1>4. Long(CommandBody(text)) \subseteq 1..Len(CommandBody(text))
  BY DEF Long
<1>5. Cardinality(Long(CommandBody(text))) \in Nat
  BY <1>3, <1>4, FS_Subset, FS_CardinalityType
<1> QED BY <1>2, <1>5 DEF TailTokens, Suffix
-----------------------------------------------------------------------------
(* The worker of ModelAnswers.  Its context holds the instructions and so much *)
(* of the question and the answer as it has decoded, and nothing else.         *)

Piece == {"open", "text", "brace", "fields", "close"}
Verdict == {"none", "ok", "does not fit", "decode failed", "no JSON", "not JSON", "empty summary"}

WorkerState == [at : {"loading", "idle", "clearing", "feeding", "sampling", "decoding"},
           ask : Nat, fed : Nat, past : Nat, out : Seq(Piece)]

TailLength == TailTokens(asks[worker.ask])
Instructions == Cells(0, Prefix, 0)
Own(n) == Instructions \cup Cells(Prefix, n, worker.ask)

AnswersTyped ==
  /\ worker \in WorkerState
  /\ asks \in Seq(Commands)
  /\ answers \in Seq([verdict : Verdict, raw : Seq(Piece)])
  /\ Len(answers) = Len(asks)
  /\ unread \subseteq 1..Len(asks)
  /\ cache \subseteq [pos : 0..(N_CTX - 1), of : Nat]

\* The question at hand is the last; it has no answer and no decode failed for it.
AtHand ==
  worker.at \notin {"loading", "idle"} =>
    /\ worker.ask = Len(asks) /\ asks # <<>>
    /\ answers[worker.ask].verdict = "none" /\ worker.ask \notin unread

\* The instructions are in the context from the first question on, and nothing else
\* is where they are.
InstructionsKept ==
  IF worker.at = "loading" THEN asks = <<>> /\ cache = {}
  ELSE Instructions = {c \in cache : c.pos < Prefix}

\* How far the worker has come says what the context holds.
ContextFollows ==
  /\ worker.at = "clearing" => worker.fed = 0 /\ worker.out = <<>>
  /\ worker.at = "feeding" =>
       /\ Fits(TailLength) /\ worker.fed < TailLength /\ worker.past = Prefix + worker.fed
       /\ cache = Own(worker.fed) /\ worker.out = <<>>
  /\ worker.at = "sampling" =>
       /\ Fits(TailLength) /\ worker.past = Prefix + TailLength + Len(worker.out) /\ worker.past <= Limit
       /\ cache = Own(worker.past - Prefix)
  /\ worker.at = "decoding" =>
       /\ Fits(TailLength) /\ worker.past + 1 = Prefix + TailLength + Len(worker.out) /\ worker.past < Limit
       /\ cache = Own(worker.past - Prefix)

AnswersInv == AnswersTyped /\ AtHand /\ InstructionsKept /\ ContextFollows /\ FailsForAReason

LEMMA FreshShape ==
  ASSUME NEW at \in {"loading", "idle", "clearing"}, NEW ask \in Nat
  PROVE  /\ Fresh(at, ask) \in WorkerState
         /\ Fresh(at, ask).at = at /\ Fresh(at, ask).ask = ask
         /\ Fresh(at, ask).fed = 0 /\ Fresh(at, ask).out = <<>>
BY DEF Fresh, WorkerState

LEMMA UnaskedShape == Unasked \in WorkerState /\ Unasked.at = "idle"
BY FreshShape DEF Unasked

LEMMA InstructionsFit ==
  /\ Instructions = {c \in Instructions : c.pos < Prefix}
  /\ Instructions \subseteq [pos : 0..(N_CTX - 1), of : Nat]
<1>1. \A c \in Instructions : c.pos < Prefix
  BY AnswersAssumption DEF Instructions, Cells
<1>2. \A c \in Instructions : c \in [pos : 0..(N_CTX - 1), of : Nat]
  BY AnswersAssumption DEF Instructions, Cells
<1> QED BY <1>1, <1>2

\* Cells that follow each other.
LEMMA CellsJoin ==
  ASSUME NEW from \in Nat, NEW n \in Nat, NEW m \in Nat, NEW k, NEW c
  PROVE  c \in Cells(from, n, k) \/ c \in Cells(from + n, m, k) <=> c \in Cells(from, n + m, k)
<1>1. \A p : p \in from..(from + n - 1) \/ p \in (from + n)..(from + n + m - 1)
              <=> p \in from..(from + (n + m) - 1)
  OBVIOUS
<1> QED BY <1>1, Zenon DEF Cells

LEMMA Sizes ==
  /\ Prefix \in Nat /\ Prefix >= 1 /\ N_CTX \in Nat /\ Prefix < N_CTX
  /\ MAX_ANSWER_TOKENS \in Nat /\ MAX_ANSWER_TOKENS >= 1
BY AnswersAssumption

LEMMA NoCells == ASSUME NEW from \in Nat, NEW k PROVE Cells(from, 0, k) = {}
BY DEF Cells

\* A question that is at hand has a tail, and so has every question asked.
LEMMA TailOfAsked ==
  ASSUME AnswersTyped, NEW i \in 1..Len(asks)
  PROVE  asks[i] \in Seq(Char) /\ TailTokens(asks[i]) \in Nat \ {0}
<1>1. asks[i] \in Seq(Char)
  BY AnswersAssumption DEF AnswersTyped
<1> QED BY <1>1, AnswersAssumption, TailIsCounted

LEMMA AtWork ==
  ASSUME AnswersInv, worker.at \notin {"loading", "idle"}
  PROVE  /\ worker.ask \in 1..Len(asks) /\ worker.ask = Len(asks)
         /\ TailLength \in Nat \ {0}
<1>1. worker.ask \in 1..Len(asks) /\ worker.ask = Len(asks)
  BY DEF AnswersInv, AtHand, AnswersTyped, WorkerState
<1> QED BY <1>1, TailOfAsked DEF AnswersInv, TailLength

\* What stands where the instructions do is the instructions.
LEMMA OwnKeepsInstructions ==
  ASSUME NEW n \in Nat
  PROVE  Instructions = {c \in Own(n) : c.pos < Prefix}
<1>1. \A c \in Instructions : c.pos < Prefix
  BY AnswersAssumption DEF Instructions, Cells
<1>2. \A c \in Cells(Prefix, n, worker.ask) : ~(c.pos < Prefix)
  BY AnswersAssumption DEF Cells
<1> QED BY <1>1, <1>2 DEF Own

LEMMA OwnFits ==
  ASSUME NEW n \in Nat, Prefix + n <= N_CTX, worker.ask \in Nat
  PROVE  Own(n) \subseteq [pos : 0..(N_CTX - 1), of : Nat]
BY AnswersAssumption DEF Own, Instructions, Cells

-----------------------------------------------------------------------------
(* A reply: what was said of the question at hand has its reason.              *)

Reasonable(said, raw, length, failed) ==
  /\ said \in Verdict \ {"none"} /\ raw \in Seq(Piece)
  /\ (said = "ok") <=> WholeAndSaysSomething(raw)
  /\ (said = "does not fit") <=> Prefix + length >= N_CTX
  /\ (said = "decode failed") <=> failed
  /\ said \in {"no JSON", "not JSON"} =>
       raw = <<>> \/ Last(raw) = "brace"
         \/ Len(raw) = Smaller(MAX_ANSWER_TOKENS, N_CTX - 1 - Prefix - length)

LEMMA ReplyFollows ==
  ASSUME AnswersInv, worker.at \notin {"loading", "idle"},
         NEW said, NEW raw, Replies(said, raw),
         unread' \in {unread, unread \cup {worker.ask}},
         Reasonable(said, raw, TailLength, worker.ask \in unread'),
         Instructions = {c \in cache' : c.pos < Prefix},
         cache' \subseteq [pos : 0..(N_CTX - 1), of : Nat]
  PROVE  AnswersInv'
<1>1. worker.ask \in 1..Len(asks) /\ worker.ask = Len(asks)
  BY AtWork
<1>2. worker' = Unasked /\ asks' = asks
      /\ answers' = [answers EXCEPT ![worker.ask] = [verdict |-> said, raw |-> raw]]
  BY DEF Replies
<1>3. /\ answers \in Seq([verdict : Verdict, raw : Seq(Piece)]) /\ Len(answers) = Len(asks)
      /\ asks \in Seq(Commands) /\ unread \subseteq 1..Len(asks)
  BY DEF AnswersInv, AnswersTyped
<1>4. [verdict |-> said, raw |-> raw] \in [verdict : Verdict, raw : Seq(Piece)]
  BY DEF Reasonable
<1>5. answers' \in Seq([verdict : Verdict, raw : Seq(Piece)]) /\ Len(answers') = Len(asks)
  BY <1>1, <1>2, <1>3, <1>4
<1>6. AnswersTyped'
  BY <1>1, <1>2, <1>3, <1>5, UnaskedShape DEF AnswersTyped
<1>7. AtHand' /\ InstructionsKept' /\ ContextFollows'
  BY <1>2, UnaskedShape DEF AtHand, InstructionsKept, ContextFollows, Instructions
<1>8. FailsForAReason'
  <2> SUFFICES ASSUME NEW i \in 1..Len(asks), answers'[i].verdict # "none"
               PROVE  /\ (answers'[i].verdict = "ok") <=> WholeAndSaysSomething(answers'[i].raw)
                      /\ (answers'[i].verdict = "does not fit")
                           <=> Prefix + TailTokens(asks[i]) >= N_CTX
                      /\ (answers'[i].verdict = "decode failed") <=> i \in unread'
                      /\ answers'[i].verdict \in {"no JSON", "not JSON"} =>
                           answers'[i].raw = <<>> \/ Last(answers'[i].raw) = "brace"
                             \/ Len(answers'[i].raw) = RoomFor(i)
    BY <1>2 DEF FailsForAReason, RoomFor
  <2>1. CASE i = worker.ask
    <3>1. answers'[i] = [verdict |-> said, raw |-> raw]
      BY <1>1, <1>2, <1>3, <2>1
    <3>2. answers'[i].verdict = said /\ answers'[i].raw = raw
      BY <3>1
    <3> QED BY <2>1, <3>2 DEF Reasonable, TailLength, RoomFor
  <2>2. CASE i # worker.ask
    <3>1. answers'[i] = answers[i]
      BY <1>1, <1>2, <1>3, <2>2
    <3>2. i \in unread' <=> i \in unread
      BY <2>2
    <3> QED BY <3>1, <3>2 DEF AnswersInv, FailsForAReason
  <2> QED BY <2>1, <2>2
<1> QED BY <1>6, <1>7, <1>8 DEF AnswersInv

\* A step that is no reply: the question stays at hand.
LEMMA WorkFollows ==
  ASSUME AnswersInv, worker.at \notin {"loading", "idle"},
         worker' \in WorkerState,
         worker'.ask = worker.ask, worker'.at \notin {"loading", "idle"},
         UNCHANGED <<asks, answers, unread>>,
         Instructions = {c \in cache' : c.pos < Prefix},
         cache' \subseteq [pos : 0..(N_CTX - 1), of : Nat],
         ContextFollows'
  PROVE  AnswersInv'
<1>1. AnswersTyped'
  BY DEF AnswersInv, AnswersTyped
<1>2. AtHand' /\ InstructionsKept'
  BY DEF AnswersInv, AtHand, InstructionsKept, Instructions
<1>3. FailsForAReason'
  BY DEF AnswersInv, FailsForAReason, RoomFor
<1> QED BY <1>1, <1>2, <1>3 DEF AnswersInv

-----------------------------------------------------------------------------
(* The steps of the worker. *)

LEMMA LoadsKept == ASSUME AnswersInv, Loads PROVE AnswersInv'
<1>1. /\ worker' = Unasked /\ cache' = Instructions /\ asks' = <<>> /\ asks = <<>>
      /\ UNCHANGED <<answers, unread>>
  BY DEF Loads, AnswersInv, InstructionsKept, Instructions
<1>2. /\ Instructions = {c \in Instructions : c.pos < Prefix}
      /\ Instructions \subseteq [pos : 0..(N_CTX - 1), of : Nat]
  BY InstructionsFit
<1>3. AnswersTyped'
  BY <1>1, <1>2, UnaskedShape DEF AnswersInv, AnswersTyped
<1>4. AtHand' /\ InstructionsKept' /\ ContextFollows'
  BY <1>1, <1>2, UnaskedShape DEF AtHand, InstructionsKept, ContextFollows, Instructions
<1>5. FailsForAReason'
  BY <1>1 DEF AnswersInv, FailsForAReason, RoomFor
<1> QED BY <1>3, <1>4, <1>5 DEF AnswersInv

LEMMA AsksForKept ==
  ASSUME AnswersInv, NEW command \in Commands, AsksFor(command) PROVE AnswersInv'
<1> DEFINE none == [verdict |-> "none", raw |-> <<>>]
           n == Len(asks)
           start == Fresh("clearing", n + 1)
<1>1. /\ worker' = start /\ asks' = Append(asks, command) /\ answers' = Append(answers, none)
      /\ UNCHANGED <<cache, unread>> /\ worker.at = "idle"
  BY DEF AsksFor
<1>2. /\ asks \in Seq(Commands) /\ answers \in Seq([verdict : Verdict, raw : Seq(Piece)])
      /\ Len(answers) = n /\ n \in Nat /\ unread \subseteq 1..n
      /\ cache \subseteq [pos : 0..(N_CTX - 1), of : Nat]
  BY DEF AnswersInv, AnswersTyped
<1>3. none \in [verdict : Verdict, raw : Seq(Piece)]
  BY DEF Verdict
<1>4. /\ start \in WorkerState
      /\ start.at = "clearing" /\ start.ask = n + 1 /\ start.fed = 0 /\ start.out = <<>>
  BY <1>2, FreshShape
<1> HIDE DEF none, start
<1>5. /\ asks' \in Seq(Commands) /\ Len(asks') = n + 1
      /\ \A i \in 1..n : asks'[i] = asks[i]
  BY <1>1, <1>2
<1>6. /\ answers' \in Seq([verdict : Verdict, raw : Seq(Piece)]) /\ Len(answers') = n + 1
      /\ \A i \in 1..n : answers'[i] = answers[i]
      /\ answers'[n + 1] = none
  BY <1>1, <1>2, <1>3
<1>7. none.verdict = "none"
  BY DEF none
<1>8. AnswersTyped'
  <2>1. unread \subseteq 1..(n + 1)
    BY <1>2
  <2> HIDE DEF n
  <2> QED BY <1>1, <1>2, <1>4, <1>5, <1>6, <2>1 DEF AnswersTyped
<1>9. AtHand'
  BY <1>1, <1>2, <1>4, <1>5, <1>6, <1>7 DEF AtHand
<1>10. InstructionsKept' /\ ContextFollows'
  BY <1>1, <1>4 DEF AnswersInv, InstructionsKept, ContextFollows, Instructions
<1>11. FailsForAReason'
  <2> SUFFICES ASSUME NEW i \in 1..(n + 1), answers'[i].verdict # "none"
               PROVE  /\ (answers'[i].verdict = "ok") <=> WholeAndSaysSomething(answers'[i].raw)
                      /\ (answers'[i].verdict = "does not fit")
                           <=> Prefix + TailTokens(asks'[i]) >= N_CTX
                      /\ (answers'[i].verdict = "decode failed") <=> i \in unread
                      /\ answers'[i].verdict \in {"no JSON", "not JSON"} =>
                           answers'[i].raw = <<>> \/ Last(answers'[i].raw) = "brace"
                             \/ Len(answers'[i].raw)
                                = Smaller(MAX_ANSWER_TOKENS, N_CTX - 1 - Prefix - TailTokens(asks'[i]))
    BY <1>1, <1>5 DEF FailsForAReason, RoomFor
  <2>1. i \in 1..n
    BY <1>2, <1>6, <1>7
  <2>2. answers'[i] = answers[i] /\ asks'[i] = asks[i]
    BY <1>5, <1>6, <2>1
  <2> QED BY <2>1, <2>2 DEF AnswersInv, FailsForAReason, RoomFor
<1> QED BY <1>8, <1>9, <1>10, <1>11 DEF AnswersInv

\* A reply without a text.
LEMMA SaysNothing ==
  ~WholeAndSaysSomething(<<>>) /\ <<>> \in Seq(Piece)
BY DEF WholeAndSaysSomething

LEMMA ClearsKept == ASSUME AnswersInv, Clears PROVE AnswersInv'
<1>1. worker.at = "clearing" /\ cache' = Kept(cache) /\ UNCHANGED unread
  BY DEF Clears
<1>2. cache' = Instructions
  BY <1>1 DEF AnswersInv, InstructionsKept, Kept
<1>3. /\ Instructions = {c \in Instructions : c.pos < Prefix}
      /\ Instructions \subseteq [pos : 0..(N_CTX - 1), of : Nat]
  BY InstructionsFit
<1>4. /\ worker.ask \in 1..Len(asks) /\ TailLength \in Nat \ {0}
  BY <1>1, AtWork
<1>5. CASE Fits(TailLength)
  <2>1. worker' = [worker EXCEPT !.at = "feeding", !.past = Prefix] /\ UNCHANGED <<asks, answers>>
    BY <1>5 DEF Clears, TailLength
  <2>2. /\ worker' \in WorkerState
        /\ worker'.ask = worker.ask /\ worker'.at = "feeding" /\ worker'.past = Prefix
        /\ worker'.fed = worker.fed /\ worker'.out = worker.out
    BY <2>1, AnswersAssumption DEF AnswersInv, AnswersTyped, WorkerState
  <2>3. worker.fed = 0 /\ worker.out = <<>>
    BY <1>1 DEF AnswersInv, ContextFollows
  <2>4. TailLength' = TailLength /\ Own(0)' = Instructions
    <3>1. Cells(Prefix, 0, worker'.ask) = {}
      BY AnswersAssumption, NoCells
    <3> QED BY <2>1, <2>2, <3>1 DEF TailLength, Own, Instructions
  <2>5. ContextFollows'
    BY <1>2, <1>4, <1>5, <2>2, <2>3, <2>4, AnswersAssumption DEF ContextFollows, Fits
  <2> QED BY <1>1, <1>2, <1>3, <2>1, <2>2, <2>5, WorkFollows
<1>6. CASE ~Fits(TailLength)
  <2>1. Replies("does not fit", <<>>)
    BY <1>6 DEF Clears, TailLength
  <2>2. Reasonable("does not fit", <<>>, TailLength, worker.ask \in unread')
    <3>1. worker.ask \notin unread'
      BY <1>1 DEF AnswersInv, AtHand
    <3>2. Prefix + TailLength >= N_CTX
      BY <1>4, <1>6, AnswersAssumption DEF Fits
    <3> QED BY <3>1, <3>2, SaysNothing DEF Reasonable, Verdict
  <2> QED BY <1>1, <1>2, <1>3, <2>1, <2>2, ReplyFollows
<1> QED BY <1>5, <1>6

LEMMA ChunkIsSome ==
  ASSUME AnswersInv, worker.at = "feeding"
  PROVE  /\ Chunk \in Nat \ {0} /\ worker.fed + Chunk <= TailLength
         /\ worker.past = Prefix + worker.fed /\ Fits(TailLength)
         /\ worker.fed \in Nat /\ TailLength \in Nat /\ worker.ask \in Nat
         /\ cache = Own(worker.fed) /\ worker.out = <<>>
<1>1. /\ TailLength \in Nat /\ worker.ask \in Nat
  BY AtWork
<1>2. /\ worker.fed \in Nat /\ worker.fed < TailLength /\ worker.past = Prefix + worker.fed
      /\ Fits(TailLength) /\ cache = Own(worker.fed) /\ worker.out = <<>>
  BY DEF AnswersInv, AnswersTyped, WorkerState, ContextFollows
<1> QED BY <1>1, <1>2, AnswersAssumption DEF Chunk, Smaller, TailLength

\* One more chunk of one's own.
LEMMA OwnGrows ==
  ASSUME NEW n \in Nat, NEW m \in Nat
  PROVE  Own(n) \cup Cells(Prefix + n, m, worker.ask) = Own(n + m)
<1>1. \A c : c \in Cells(Prefix, n, worker.ask) \/ c \in Cells(Prefix + n, m, worker.ask)
              <=> c \in Cells(Prefix, n + m, worker.ask)
  BY AnswersAssumption, CellsJoin
<1> QED BY <1>1 DEF Own

LEMMA FeedsKept == ASSUME AnswersInv, Feeds PROVE AnswersInv'
<1> DEFINE k == Chunk
           f == worker.fed
<1>1. /\ k \in Nat \ {0} /\ f + k <= TailLength /\ worker.past = Prefix + f /\ Fits(TailLength)
      /\ f \in Nat /\ TailLength \in Nat /\ worker.ask \in Nat
      /\ cache = Own(f) /\ worker.out = <<>> /\ worker.at = "feeding"
  BY ChunkIsSome DEF Feeds
<1>2. cache' = cache \cup Cells(Prefix + f, k, worker.ask)
  BY <1>1 DEF Feeds
<1>3. cache' = Own(f + k)
  BY <1>1, <1>2, OwnGrows
<1>4. /\ worker' \in WorkerState
      /\ worker'.ask = worker.ask /\ worker'.out = worker.out
      /\ worker'.fed = f + k /\ worker'.past = Prefix + f + k
      /\ worker'.at = IF f + k = TailLength THEN "sampling" ELSE "feeding"
      /\ UNCHANGED <<asks, answers, unread>>
  <2>1. worker' = [worker EXCEPT !.fed = @ + k, !.past = @ + k,
                                 !.at = IF f + k = TailLength THEN "sampling" ELSE "feeding"]
        /\ UNCHANGED <<asks, answers, unread>>
    BY DEF Feeds, TailLength
  <2> HIDE DEF k
  <2>3. worker \in WorkerState
    BY DEF AnswersInv, AnswersTyped
  <2>5. k \in Nat
    BY <1>1
  <2> DEFINE way == IF f + k = TailLength THEN "sampling" ELSE "feeding"
  <2>6. worker' = [worker EXCEPT !.fed = @ + k, !.past = @ + k, !.at = way]
    BY <2>1
  <2>7. way \in {"sampling", "feeding"}
    OBVIOUS
  <2> HIDE DEF way
  <2>8. /\ worker' \in WorkerState /\ worker'.ask = worker.ask /\ worker'.out = worker.out
        /\ worker'.fed = f + k /\ worker'.past = worker.past + k /\ worker'.at = way
    <3>1. worker' = [at |-> way, ask |-> worker.ask, fed |-> f + k, past |-> worker.past + k,
                     out |-> worker.out]
      BY <2>3, <2>6 DEF WorkerState
    <3>2. worker.ask \in Nat /\ f + k \in Nat /\ worker.past + k \in Nat /\ worker.out \in Seq(Piece)
      BY <2>3, <2>5 DEF WorkerState
    <3> QED BY <2>7, <3>1, <3>2 DEF WorkerState
  <2> QED BY <1>1, <2>1, <2>8 DEF way
<1> HIDE DEF k, f
<1>5. TailLength' = TailLength /\ \A n \in Nat : Own(n)' = Own(n)
  BY <1>4 DEF TailLength, Own, Instructions
<1>6. Limit' = Smaller(Prefix + TailLength + MAX_ANSWER_TOKENS, N_CTX - 1)
  BY <1>4 DEF Limit, TailLength
<1>7. ContextFollows'
  <2>1. CASE f + k = TailLength
    <3>1. worker'.at = "sampling" /\ Len(worker'.out) = 0 /\ worker'.past = Prefix + TailLength
      BY <1>1, <1>4, <2>1, AnswersAssumption
    <3>2. worker'.past <= Limit'
      BY <1>1, <1>6, <3>1, AnswersAssumption DEF Smaller, Fits
    <3>3. cache' = (Own(worker.past - Prefix))'
      BY <1>1, <1>3, <1>5, <2>1, <3>1, AnswersAssumption DEF Own, Instructions
    <3> QED BY <1>1, <1>5, <3>1, <3>2, <3>3, AnswersAssumption DEF ContextFollows, Fits
  <2>2. CASE f + k # TailLength
    BY <1>1, <1>3, <1>4, <1>5, <2>2, AnswersAssumption DEF ContextFollows, Fits
  <2> QED BY <2>1, <2>2
<1>8. /\ Instructions = {c \in cache' : c.pos < Prefix}
      /\ cache' \subseteq [pos : 0..(N_CTX - 1), of : Nat]
  BY <1>1, <1>3, OwnKeepsInstructions, OwnFits, AnswersAssumption DEF Fits
<1> QED BY <1>1, <1>4, <1>7, <1>8, WorkFollows

LEMMA DecodeFailsKept == ASSUME AnswersInv, DecodeFails PROVE AnswersInv'
<1>1. PICK n \in {0, IF worker.at = "feeding" THEN Chunk ELSE 1} :
        cache' = cache \cup Cells(worker.past, n, worker.ask)
  BY DEF DecodeFails
<1>2. /\ worker.at \in {"feeding", "decoding"} /\ unread' = unread \cup {worker.ask}
      /\ Replies("decode failed", <<>>)
  <2>1. worker.at \in {"feeding", "decoding"} /\ unread' = unread \cup {worker.ask}
    BY DEF DecodeFails
  <2>2. Replies("decode failed", <<>>)
    BY DEF DecodeFails
  <2> QED BY <2>1, <2>2
<1>3. worker.ask \in Nat /\ TailLength \in Nat /\ worker.ask \in 1..Len(asks)
  <2>1. worker.at \notin {"loading", "idle"}
    BY <1>2
  <2>2. worker.ask \in 1..Len(asks) /\ TailLength \in Nat
    BY <2>1, AtWork
  <2> QED BY <2>2 DEF AnswersInv, AnswersTyped, WorkerState
<1>4. \E m \in Nat : /\ worker.past = Prefix + m /\ cache = Own(m) /\ n \in Nat
                     /\ Prefix + (m + n) <= N_CTX
  <2>1. CASE worker.at = "feeding"
    <3>1. /\ Chunk \in Nat /\ worker.fed + Chunk <= TailLength /\ worker.fed \in Nat
          /\ worker.past = Prefix + worker.fed /\ Fits(TailLength) /\ cache = Own(worker.fed)
      BY <2>1, ChunkIsSome
    <3>2. n \in Nat /\ n <= Chunk
      BY <1>1, <2>1, <3>1
    <3> QED BY <1>3, <3>1, <3>2, AnswersAssumption DEF Fits
  <2>2. CASE worker.at = "decoding"
    <3>1. /\ worker.past + 1 = Prefix + TailLength + Len(worker.out) /\ worker.past < Limit
          /\ cache = Own(worker.past - Prefix) /\ Fits(TailLength)
      BY <2>2 DEF AnswersInv, ContextFollows
    <3>2. Len(worker.out) \in Nat /\ worker.past \in Nat
      BY DEF AnswersInv, AnswersTyped, WorkerState
    <3>3. Limit <= N_CTX - 1
      BY <1>3, AnswersAssumption DEF Limit, Smaller, TailLength
    <3>4. n \in {0, 1}
      BY <1>1, <2>2
    <3>5. TailLength \in Nat \ {0}
      BY <2>2, AtWork
    <3>6. worker.past - Prefix \in Nat
      <4> DEFINE past == worker.past
                 tail == TailLength
                 len == Len(worker.out)
      <4>1. past + 1 = Prefix + tail + len /\ past \in Nat /\ tail \in Nat \ {0} /\ len \in Nat
        BY <3>1, <3>2, <3>5
      <4> HIDE DEF past, tail, len
      <4>2. past - Prefix \in Nat
        BY <4>1, Sizes
      <4> QED BY <4>2 DEF past
    <3>7. Prefix + ((worker.past - Prefix) + n) <= N_CTX
      <4>1. Limit \in Int
        BY <1>3, Sizes DEF Limit, Smaller, TailLength
      <4> QED BY <3>1, <3>2, <3>3, <3>4, <4>1, Sizes
    <3>8. worker.past = Prefix + (worker.past - Prefix)
      BY <3>2, AnswersAssumption
    <3> QED BY <3>1, <3>4, <3>6, <3>7, <3>8
  <2> QED BY <1>2, <2>1, <2>2
<1>5. PICK m \in Nat : /\ worker.past = Prefix + m /\ cache = Own(m) /\ n \in Nat
                       /\ Prefix + (m + n) <= N_CTX
  BY <1>4
<1>6. cache' = Own(m + n)
  BY <1>1, <1>5, OwnGrows
<1>7. /\ Instructions = {c \in cache' : c.pos < Prefix}
      /\ cache' \subseteq [pos : 0..(N_CTX - 1), of : Nat]
  BY <1>3, <1>5, <1>6, OwnKeepsInstructions, OwnFits
<1>8. Reasonable("decode failed", <<>>, TailLength, worker.ask \in unread')
  <2>1. Fits(TailLength)
    BY <1>2 DEF AnswersInv, ContextFollows
  <2>2. ~(Prefix + TailLength >= N_CTX)
    BY <1>3, <2>1, AnswersAssumption DEF Fits
  <2> QED BY <1>2, <2>2, SaysNothing DEF Reasonable, Verdict
<1> QED BY <1>2, <1>7, <1>8, ReplyFollows

\* What the worker makes of an answer that ended, at a brace or for want of room.
LEMMA ParsedFollows ==
  ASSUME AnswersInv, worker.at = "sampling", NEW raw \in Seq(Piece), Replies(Parse(raw), raw),
         UNCHANGED <<cache, unread>>,
         EndsWithBrace(raw) \/ Len(raw) = RoomFor(worker.ask)
  PROVE  AnswersInv'
<1>1. worker.ask \in 1..Len(asks) /\ TailLength \in Nat
  BY AtWork
<1>2. /\ Fits(TailLength) /\ worker.ask \notin unread
      /\ Instructions = {c \in cache : c.pos < Prefix}
      /\ cache \subseteq [pos : 0..(N_CTX - 1), of : Nat]
  BY DEF AnswersInv, AnswersTyped, AtHand, InstructionsKept, ContextFollows
<1>3. ~(Prefix + TailLength >= N_CTX)
  BY <1>1, <1>2, AnswersAssumption DEF Fits
<1>4. Parse(raw) \in {"ok", "no JSON", "not JSON", "empty summary"}
  BY DEF Parse
<1>5. (Parse(raw) = "ok") <=> WholeAndSaysSomething(raw)
  <2>1. CASE raw = <<>>
    <3>1. "brace" \notin ToSet(raw)
      BY <2>1 DEF ToSet
    <3> QED BY <2>1, <3>1 DEF Parse, EndsWithBrace, WholeAndSaysSomething
  <2>2. CASE raw # <<>>
    BY <2>2 DEF Parse, EndsWithBrace, WholeAndSaysSomething
  <2> QED BY <2>1, <2>2
<1>6. Parse(raw) \in {"no JSON", "not JSON"} =>
        raw = <<>> \/ Last(raw) = "brace" \/ Len(raw) = RoomFor(worker.ask)
  BY DEF Parse, EndsWithBrace
<1>7. Reasonable(Parse(raw), raw, TailLength, worker.ask \in unread')
  <2>1. RoomFor(worker.ask) = Smaller(MAX_ANSWER_TOKENS, N_CTX - 1 - Prefix - TailLength)
    BY DEF RoomFor, TailLength
  <2> QED BY <1>2, <1>3, <1>4, <1>5, <1>6, <2>1 DEF Reasonable, Verdict
<1> QED BY <1>2, <1>7, ReplyFollows

LEMMA SamplesKept == ASSUME AnswersInv, Samples PROVE AnswersInv'
<1>1. worker.at = "sampling" /\ worker.past < Limit /\ UNCHANGED <<cache, unread>>
  BY DEF Samples
<1>2. PICK piece \in Grammar(worker.out) :
        LET out == Append(worker.out, piece)
        IN IF EndsWithBrace(out) THEN Replies(Parse(out), out)
           ELSE /\ worker' = [worker EXCEPT !.out = out, !.at = "decoding"]
                /\ UNCHANGED <<asks, answers>>
  BY DEF Samples
<1> DEFINE out == Append(worker.out, piece)
<1>3. worker.out \in Seq(Piece) /\ worker \in WorkerState
  BY DEF AnswersInv, AnswersTyped, WorkerState
<1>4. piece \in Piece
  <2>1. ASSUME NEW p \in Grammar(worker.out) PROVE p \in Piece
    BY <2>1 DEF Grammar, Piece, SummaryOf
  <2> QED BY <2>1
<1>5. out \in Seq(Piece) /\ Len(out) = Len(worker.out) + 1
  BY <1>3, <1>4
<1>6. CASE EndsWithBrace(out)
  <2>1. Replies(Parse(out), out)
    BY <1>2, <1>6
  <2> QED BY <1>1, <1>5, <1>6, <2>1, ParsedFollows
<1>7. CASE ~EndsWithBrace(out)
  <2>1. worker' = [worker EXCEPT !.out = out, !.at = "decoding"] /\ UNCHANGED <<asks, answers>>
    BY <1>2, <1>7
  <2>2. /\ worker' \in WorkerState /\ worker'.ask = worker.ask /\ worker'.at = "decoding"
        /\ worker'.past = worker.past /\ worker'.out = out
    <3> HIDE DEF out
    <3>1. worker' = [at |-> "decoding", ask |-> worker.ask, fed |-> worker.fed,
                     past |-> worker.past, out |-> out]
      BY <1>3, <2>1 DEF WorkerState
    <3> QED BY <1>3, <1>5, <3>1 DEF WorkerState
  <2>3. /\ Fits(TailLength) /\ worker.past = Prefix + TailLength + Len(worker.out)
        /\ cache = Own(worker.past - Prefix)
    BY <1>1 DEF AnswersInv, ContextFollows
  <2>4. /\ TailLength' = TailLength /\ Limit' = Limit
        /\ (Own(worker.past - Prefix))' = Own(worker.past - Prefix)
    BY <2>1, <2>2 DEF TailLength, Limit, Own, Instructions
  <2>5. TailLength \in Nat /\ worker.past \in Nat /\ Len(worker.out) \in Nat
    BY <1>1, <1>3, AtWork DEF WorkerState
  <2> HIDE DEF out
  <2>6. worker'.past + 1 = Prefix + TailLength' + Len(worker'.out)
    <3> DEFINE past == worker.past
               tail == TailLength
               len == Len(worker.out)
    <3>1. past = Prefix + tail + len /\ past \in Nat /\ tail \in Nat /\ len \in Nat
      BY <2>3, <2>5
    <3>2. worker'.past = past /\ TailLength' = tail /\ Len(worker'.out) = len + 1
      BY <1>5, <2>2, <2>4
    <3> HIDE DEF past, tail, len
    <3>3. past + 1 = Prefix + tail + (len + 1)
      BY <3>1, Sizes
    <3> QED BY <3>2, <3>3
  <2>7. ContextFollows'
    BY <1>1, <2>2, <2>3, <2>4, <2>6 DEF ContextFollows, Fits
  <2>8. /\ Instructions = {c \in cache' : c.pos < Prefix}
        /\ cache' \subseteq [pos : 0..(N_CTX - 1), of : Nat]
    BY <1>1 DEF AnswersInv, InstructionsKept, AnswersTyped
  <2> QED BY <1>1, <2>1, <2>2, <2>7, <2>8, WorkFollows
<1> QED BY <1>6, <1>7

LEMMA DecodesKept == ASSUME AnswersInv, Decodes PROVE AnswersInv'
<1>1. /\ worker.at = "decoding" /\ cache' = cache \cup Cells(worker.past, 1, worker.ask)
      /\ worker' = [worker EXCEPT !.at = "sampling", !.past = @ + 1]
      /\ UNCHANGED <<asks, answers, unread>>
  BY DEF Decodes
<1>2. worker \in WorkerState /\ TailLength \in Nat \ {0} /\ worker.ask \in Nat
  BY <1>1, AtWork DEF AnswersInv, AnswersTyped
<1>3. /\ worker' \in WorkerState /\ worker'.ask = worker.ask /\ worker'.at = "sampling"
      /\ worker'.past = worker.past + 1 /\ worker'.out = worker.out
  <2>1. worker' = [at |-> "sampling", ask |-> worker.ask, fed |-> worker.fed,
                   past |-> worker.past + 1, out |-> worker.out]
    BY <1>1, <1>2 DEF WorkerState
  <2> QED BY <1>2, <2>1 DEF WorkerState
<1>4. /\ Fits(TailLength) /\ worker.past + 1 = Prefix + TailLength + Len(worker.out)
      /\ worker.past < Limit /\ cache = Own(worker.past - Prefix)
  BY <1>1 DEF AnswersInv, ContextFollows
<1> DEFINE m == worker.past - Prefix
<1>5. worker.past \in Nat /\ Len(worker.out) \in Nat
  BY <1>2 DEF WorkerState
<1>6. m \in Nat /\ worker.past = Prefix + m
  <2> DEFINE past == worker.past
             tail == TailLength
             len == Len(worker.out)
  <2>1. past + 1 = Prefix + tail + len /\ past \in Nat /\ tail \in Nat \ {0} /\ len \in Nat
    BY <1>2, <1>4, <1>5
  <2> HIDE DEF past, tail, len
  <2>2. past - Prefix \in Nat /\ past = Prefix + (past - Prefix)
    BY <2>1, Sizes
  <2> QED BY <2>2 DEF past
<1>7. Limit \in Int /\ Limit <= N_CTX - 1
  BY <1>2, AnswersAssumption DEF Limit, Smaller, TailLength
<1>8. cache' = Own(m + 1)
  <2> HIDE DEF m
  <2>1. cache' = Own(m) \cup Cells(Prefix + m, 1, worker.ask)
    BY <1>1, <1>4, <1>6 DEF m
  <2> QED BY <1>6, <2>1, OwnGrows
<1>9. /\ TailLength' = TailLength /\ Limit' = Limit
      /\ (Own(worker.past - Prefix))' = Own(m + 1)
  <2>1. worker'.past - Prefix = m + 1
    BY <1>3, <1>5, AnswersAssumption
  <2> QED BY <1>1, <1>3, <2>1 DEF TailLength, Limit, Own, Instructions
<1>10. ContextFollows'
  <2>1. worker'.past = Prefix + TailLength' + Len(worker'.out) /\ worker'.past <= Limit'
    <3> DEFINE past == worker.past
               end == Limit
    <3>1. past < end /\ past \in Nat /\ end \in Int
      BY <1>4, <1>5, <1>7
    <3>2. worker'.past = past + 1 /\ Limit' = end
      BY <1>3, <1>9
    <3>3. past + 1 = Prefix + TailLength' + Len(worker'.out)
      BY <1>3, <1>4, <1>9
    <3> HIDE DEF past, end
    <3> QED BY <3>1, <3>2, <3>3
  <2> HIDE DEF m
  <2> QED BY <1>3, <1>4, <1>8, <1>9, <2>1 DEF ContextFollows, Fits
<1>11. /\ Instructions = {c \in cache' : c.pos < Prefix}
       /\ cache' \subseteq [pos : 0..(N_CTX - 1), of : Nat]
  <2>1. m + 1 \in Nat /\ Prefix + (m + 1) <= N_CTX
    BY <1>4, <1>5, <1>6, <1>7, AnswersAssumption
  <2> QED BY <1>2, <1>8, <2>1, OwnKeepsInstructions, OwnFits
<1> QED BY <1>1, <1>3, <1>10, <1>11, WorkFollows

LEMMA RunsOutKept == ASSUME AnswersInv, RunsOut PROVE AnswersInv'
<1>1. /\ worker.at = "sampling" /\ worker.past >= Limit
      /\ Replies(Parse(worker.out), worker.out) /\ UNCHANGED <<cache, unread>>
  BY DEF RunsOut
<1>2. worker.out \in Seq(Piece) /\ worker.past \in Nat /\ TailLength \in Nat
  BY <1>1, AtWork DEF AnswersInv, AnswersTyped, WorkerState
<1>3. worker.past = Prefix + TailLength + Len(worker.out) /\ worker.past <= Limit
  BY <1>1 DEF AnswersInv, ContextFollows
<1>4. Len(worker.out) = RoomFor(worker.ask)
  <2>1. Len(worker.out) \in Nat
    BY <1>2
  <2>2. Limit = Smaller(Prefix + TailLength + MAX_ANSWER_TOKENS, N_CTX - 1)
        /\ RoomFor(worker.ask) = Smaller(MAX_ANSWER_TOKENS, N_CTX - 1 - Prefix - TailLength)
    BY DEF Limit, RoomFor, TailLength
  <2> DEFINE end == Limit
             room == RoomFor(worker.ask)
             len == Len(worker.out)
             past == worker.past
             tail == TailLength
  <2>3. /\ past >= end /\ past <= end /\ len \in Nat /\ past \in Nat /\ tail \in Nat
        /\ past = Prefix + tail + len
    BY <1>1, <1>2, <1>3, <2>1
  <2>4. /\ end = Smaller(Prefix + tail + MAX_ANSWER_TOKENS, N_CTX - 1)
        /\ room = Smaller(MAX_ANSWER_TOKENS, N_CTX - 1 - Prefix - tail)
    BY <2>2
  <2> HIDE DEF end, room, len, past, tail
  <2>5. len = room
    BY <2>3, <2>4, Sizes DEF Smaller
  <2> QED BY <2>5 DEF len, room
<1> QED BY <1>1, <1>2, <1>4, ParsedFollows

LEMMA AnswersNextKept == AnswersInv /\ [AnswersNext]_avars => AnswersInv'
<1> SUFFICES ASSUME AnswersInv, [AnswersNext]_avars PROVE AnswersInv'
  OBVIOUS
<1>1. CASE UNCHANGED avars
  <2>1. UNCHANGED <<cache, worker, asks, answers, unread>>
    BY <1>1 DEF avars
  <2> QED BY <2>1 DEF AnswersInv, AnswersTyped, AtHand, InstructionsKept, ContextFollows,
       FailsForAReason, Instructions, Own, TailLength, Limit, RoomFor
<1>2. ASSUME NEW command \in Commands, AsksFor(command) PROVE AnswersInv'
  BY <1>2, AsksForKept
<1> QED BY <1>1, <1>2, LoadsKept, ClearsKept, FeedsKept, DecodeFailsKept, SamplesKept, DecodesKept,
        RunsOutKept DEF AnswersNext

LEMMA AnswersInitKept == AnswersInit => AnswersInv
<1> SUFFICES ASSUME AnswersInit PROVE AnswersInv
  OBVIOUS
<1>1. /\ cache = {} /\ worker = Fresh("loading", 0)
      /\ asks = <<>> /\ answers = <<>> /\ unread = {}
  BY DEF AnswersInit
<1>2. worker \in WorkerState /\ worker.at = "loading"
  BY <1>1, FreshShape
<1>3. AnswersTyped
  BY <1>1, <1>2 DEF AnswersTyped
<1>4. AtHand /\ InstructionsKept /\ ContextFollows /\ FailsForAReason
  BY <1>1, <1>2 DEF AtHand, InstructionsKept, ContextFollows, FailsForAReason
<1> QED BY <1>3, <1>4 DEF AnswersInv

LEMMA OwnFollows == AnswersInv => AnswersToItsOwn
<1> SUFFICES ASSUME AnswersInv PROVE AnswersToItsOwn
  OBVIOUS
<1>1. \A c \in cache : c.pos \in 0..(N_CTX - 1)
  BY DEF AnswersInv, AnswersTyped
<1>2. worker.at = "sampling" =>
        cache = Cells(0, Prefix, 0) \cup Cells(Prefix, worker.past - Prefix, worker.ask)
  BY DEF AnswersInv, ContextFollows, Own, Instructions
<1>3. ASSUME NEW i \in 1..Len(asks), NEW s \in {OPEN, CLOSE}, NEW at \in 1..Len(CommandBody(asks[i]))
      PROVE  ~Marked(CommandBody(asks[i]), s, at)
  BY TailOfAsked, NoMarkerInside, AnswersAssumption DEF AnswersInv
<1> QED BY <1>1, <1>2, <1>3 DEF AnswersToItsOwn

\* Whatever the commands are, and wherever a decode fails: what the model answers it
\* answers to its own question, inside markers that are the prompt's own, and a
\* verdict is kept of exactly the whole answers (engine.rs, prompt.rs, verdict.rs).
THEOREM OwnAnswersKept == AnswersSpec => []AnswersKept
<1>1. AnswersInv => AnswersKept
  BY OwnFollows DEF AnswersInv, AnswersKept
<1> QED BY <1>1, AnswersInitKept, AnswersNextKept, PTL DEF AnswersSpec
=============================================================================
