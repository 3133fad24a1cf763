----------------------------- MODULE Projection -----------------------------
(***************************************************************************)
(* Who projects the evidence, and when: ingest_and_project of crates/      *)
(* toolog-ingest/src/backfill.rs, ingest_records of crates/toolog-otlp/    *)
(* src/ingest.rs, reproject of crates/toolog-core/src/project.rs, and      *)
(* their callers in capture.rs, commands.rs and cli.rs of toolog-cli.      *)
(*                                                                         *)
(* The resident process has one writer, which runs one job at a time: a    *)
(* burst of the tailer (whose projector lives as long as the process), a   *)
(* catch-up or an import (a projector of its own), or an export. The       *)
(* command line is a second process with a connection of its own. A job    *)
(* stores the lines of a file in one transaction and projects them in      *)
(* another, so the other process may come in between.                      *)
(*                                                                         *)
(* What ToolCallRows says of a record, this module applies to the tables.  *)
(***************************************************************************)
EXTENDS ToolCallRows

CONSTANTS
  File,        \* transcript paths, in the order discovery lists them
  Worlds,      \* what may come to be written: lines, the lines each file will
               \* ever have, and posts, the OTLP records, posted in any order
  MaxEvents    \* bound on catch-ups, imports, command-line backfills, quits,
               \* kills and errors, all together

Path == {File[i] : i \in DOMAIN File}

\* Every record a world may come to hold.
Written(w) == (UNION {{w.lines[f][n] : n \in DOMAIN w.lines[f]} : f \in Path})
              \cup {w.posts[n] : n \in DOMAIN w.posts}

\* What Claude Code may write and post, in as many records as it likes.
Possible(w) ==
  /\ \A f \in Path : /\ w.lines[f] \in Seq(Written(w))
                     /\ \A n \in DOMAIN w.lines[f] : w.lines[f][n].lane = "transcript"
  /\ w.posts \in Seq(Written(w))
  /\ \A n \in DOMAIN w.posts : w.posts[n].lane = "otlp"
  /\ \A r \in Written(w) : WellFormed(r)
  /\ \A r, q \in Written(w) : OneStory(r, q)

ASSUME ProjectionAssumption ==
  /\ IsFiniteSet(Call) /\ IsFiniteSet(Session) /\ IsFiniteSet(Agent)
  /\ File \in Seq(Path) /\ Len(File) > 0 /\ "otlp" \notin Path
  /\ \A i \in DOMAIN File, j \in DOMAIN File : File[i] = File[j] => i = j
  /\ \A w \in Worlds : Possible(w)
  /\ MaxEvents \in Nat

\* What Claude Code writes of its own calls and subagents agrees with itself;
\* only what ToldOfCalls says rests on it.
ASSUME ToldAssumption ==
  \A w \in Worlds : AskedOnce(Written(w)) /\ SubagentsTold(Written(w))

VARIABLES
  world,       \* the one of Worlds this is; no step changes it
  evidence,    \* raw_event by id: <<path, line number>> or <<"otlp", number>>
  db,          \* the projection tables
  resident,    \* BOOLEAN: the resident process runs
  memory,      \* what the tailer's projector remembers
  job,         \* what each process is doing
  owed,        \* observation only: the ids no projector has been through since
               \* the tables were last cleared
  seer,        \* observation only: who has been through all of them: the
               \* "tail" projector, a "rebuild", "none" yet, or "many"
  met,         \* observation only: both processes have been at work at once
  spent        \* how much of MaxEvents is used up

vars == <<world, evidence, db, resident, memory, job, owed, seer, met, spent>>

Process == {"app", "cli"}
Idle == [kind |-> "none", step |-> "idle", left |-> <<>>, before |-> 0,
         mem |-> NoMemory]

Lines == world.lines
Posts == world.posts
Body(e) == IF e[1] = "otlp" THEN Posts[e[2]] ELSE Lines[e[1]][e[2]]
Bodies == [i \in DOMAIN evidence |-> Body(evidence[i])]
\* mutant: a scan starts at the beginning
SinceStart(before) == Bodies

Since(before) == SubSeq(Bodies, before + 1, Len(evidence))
Ids == DOMAIN evidence

Held(body) == \E i \in Ids : Body(evidence[i]) = body

\* The last line of a file that has a row; the next pass goes on from it.
MaxOffset(f) == LET held == {i \in Ids : evidence[i][1] = f}
                IN IF held = {} THEN 0
                   ELSE CHOOSE n \in {evidence[i][2] : i \in held} :
                          \A i \in held : evidence[i][2] <= n

\* The rows storing lines first .. last of f adds: content is stored once.
NewRows(f, first, last) ==
  LET fresh  == {n \in first .. last :
                   /\ ~ Held(Lines[f][n])
                   /\ \A m \in first .. n - 1 : Lines[f][m] # Lines[f][n]}
      nth(k) == CHOOSE n \in fresh : Cardinality({m \in fresh : m <= n}) = k
  IN [k \in 1 .. Cardinality(fresh) |-> <<f, nth(k)>>]

\* A job opens its first file, noting the highest id before it stores any.
Begin(p, kind, files, mem) ==
  job' = [job EXCEPT ![p] = [kind |-> kind, step |-> "read", left |-> files,
                             before |-> Len(evidence), mem |-> mem]]

\* One more of what MaxEvents bounds.
Counted ==
  /\ spent < MaxEvents
  /\ spent' = spent + 1

-----------------------------------------------------------------------------
Init ==
  /\ world \in Worlds
  /\ evidence = <<>>
  /\ db = NoRows
  /\ resident = TRUE
  /\ memory = NoMemory
  /\ job = [p \in Process |-> Idle]
  /\ owed = {}
  /\ seer = "tail"
  /\ met = FALSE
  /\ spent = 0

\* The writer starts on a file of a settled burst, with the tailer's
\* projector. A burst of several files is as many of these.
Burst ==
  /\ resident /\ job["app"] = Idle
  /\ \E i \in DOMAIN File : Begin("app", "tail", <<File[i]>>, memory)
  /\ UNCHANGED <<evidence, db, resident, memory, owed, seer, met, spent>>

\* Resume, the tray's and the window's Import History: every file, with a
\* projector that begins with nothing.
CatchUp ==
  /\ resident /\ job["app"] = Idle /\ Counted
  /\ Begin("app", "catchUp", File, NoMemory)
  /\ UNCHANGED <<evidence, db, resident, memory, owed, seer, met>>

\* `toolog backfill`, with or without --reproject (Advance chooses). That the
\* application runs is only remarked upon.
Backfill ==
  /\ job["cli"] = Idle /\ Counted
  /\ Begin("cli", "backfill", File, NoMemory)
  /\ met' = (met \/ resident)
  /\ UNCHANGED <<evidence, db, resident, memory, owed, seer>>

\* The same for the next file of a job of several.
OpenFile(p) ==
  /\ job[p].step = "next"
  /\ Begin(p, job[p].kind, job[p].left, job[p].mem)
  /\ UNCHANGED <<evidence, db, resident, memory, owed, seer, met, spent>>

\* Its first transaction: the lines complete by now, from the offset on.
StoreLines(p) ==
  /\ job[p].step = "read"
  /\ LET f == Head(job[p].left) IN
       \E last \in MaxOffset(f) .. Len(Lines[f]) :
         LET rows == NewRows(f, MaxOffset(f) + 1, last) IN
         /\ evidence' = evidence \o rows
         /\ owed' = owed \cup (Len(evidence) + 1 .. Len(evidence) + Len(rows))
  /\ job' = [job EXCEPT ![p].step = "stored"]
  /\ UNCHANGED <<db, resident, memory, seer, met, spent>>

\* A file is done: the next one, or nothing more, or the rebuild that
\* --reproject asks for.
Advance(p, mem) ==
  LET left == Tail(job[p].left)
      next(step, m) == [kind |-> job[p].kind, step |-> step, left |-> left,
                        before |-> 0, mem |-> m]
  IN IF left # <<>> THEN job' = [job EXCEPT ![p] = next("next", mem)]
     ELSE \/ job' = [job EXCEPT ![p] = Idle]
          \/ /\ job[p].kind = "backfill"
             /\ job' = [job EXCEPT ![p] = next("clear", NoMemory)]

\* mutant: every burst has a projector of its own
RememberNot(p, mem) == UNCHANGED memory

Remember(p, mem) == memory' = IF job[p].kind = "tail" THEN mem ELSE memory

\* Transcript rows among those a scan after the given id returns.
Scanned(before) ==
  {i \in before + 1 .. Len(evidence) : Body(evidence[i]).lane = "transcript"}

\* Its second transaction: every row since the id noted, whoever stored it,
\* and what needs the whole stream.
ProjectRows(p) ==
  /\ job[p].step = "stored"
  /\ LET s == ReplayTranscript([db |-> db, mem |-> job[p].mem],
                               Since(job[p].before))
     IN /\ db' = Finish(s.db, s.mem)
        /\ Remember(p, s.mem)
        /\ Advance(p, s.mem)
  /\ owed' = owed \ Scanned(job[p].before)
  /\ seer' = IF Scanned(job[p].before) = {}
                \/ (job[p].kind = "tail" /\ seer = "tail")
             THEN seer ELSE "many"
  /\ UNCHANGED <<evidence, resident, met, spent>>

\* A transaction fails. What it wrote is rolled back; what the projector
\* learned from the rows it got through is not. A burst and a catch-up go on
\* with the next file; an import and the command line stop.
FailFile(p) ==
  /\ job[p].step \in {"read", "stored"} /\ Counted
  /\ \E k \in 0 .. (IF job[p].step = "read" THEN 0
                    ELSE Len(Since(job[p].before))) :
       LET s == ReplayTranscript([db |-> db, mem |-> job[p].mem],
                                 SubSeq(Since(job[p].before), 1, k))
       IN /\ Remember(p, s.mem)
          /\ \/ job[p].kind = "catchUp" /\ Advance(p, s.mem)
             \/ job' = [job EXCEPT ![p] = Idle]
  /\ UNCHANGED <<evidence, db, resident, owed, seer, met>>

\* clear_projections, a transaction of its own.
Clear ==
  /\ job["cli"].step = "clear"
  /\ db' = NoRows
  /\ owed' = Ids
  /\ seer' = "none"
  /\ met' = resident
  /\ job' = [job EXCEPT !["cli"].step = "rebuild"]
  /\ UNCHANGED <<evidence, resident, memory, spent>>

\* mutant: one lane's projector only
RebuildOneLane ==
  /\ job["cli"].step = "rebuild"
  /\ LET s == ReplayTranscript([db |-> db, mem |-> NoMemory], Bodies)
     IN db' = Finish(s.db, s.mem)
  /\ owed' = {}
  /\ seer' = IF seer = "none" THEN "rebuild" ELSE seer
  /\ job' = [job EXCEPT !["cli"] = Idle]
  /\ UNCHANGED <<evidence, resident, memory, met, spent>>

\* The whole store through both projectors, on top of what is there.
Rebuild ==
  /\ job["cli"].step = "rebuild"
  /\ LET s == ReplayBoth([db |-> db, mem |-> NoMemory], Bodies)
     IN db' = Finish(s.db, s.mem)
  /\ owed' = {}
  /\ seer' = IF seer = "none" THEN "rebuild" ELSE seer
  /\ job' = [job EXCEPT !["cli"] = Idle]
  /\ UNCHANGED <<evidence, resident, memory, met, spent>>

FailRebuild ==
  /\ job["cli"].step \in {"clear", "rebuild"} /\ Counted
  /\ job' = [job EXCEPT !["cli"] = Idle]
  /\ UNCHANGED <<evidence, db, resident, memory, owed, seer, met>>

\* An export: stored and projected in one transaction, by a projector that
\* is new each time. A record already held is neither.
Post ==
  /\ resident /\ job["app"] = Idle
  /\ \E n \in DOMAIN Posts :
       /\ ~ Held(Posts[n])
       /\ evidence' = Append(evidence, <<"otlp", n>>)
       /\ db' = ProjectOtlp(db, Posts[n])
  /\ seer' = IF seer = "none" THEN "many" ELSE seer
  /\ UNCHANGED <<resident, memory, job, owed, met, spent>>

\* The resident process quits or dies, and starts again.
Exit ==
  /\ resident /\ Counted
  /\ resident' = FALSE
  /\ memory' = NoMemory
  /\ job' = [job EXCEPT !["app"] = Idle]
  /\ seer' = IF seer = "tail" /\ Scanned(0) # {} THEN "many" ELSE seer
  /\ UNCHANGED <<evidence, db, owed, met>>

Start ==
  /\ ~ resident
  /\ resident' = TRUE
  /\ met' = (met \/ job["cli"] # Idle)
  /\ UNCHANGED <<evidence, db, memory, job, owed, seer, spent>>

\* The command is interrupted.
Kill ==
  /\ job["cli"] # Idle /\ Counted
  /\ job' = [job EXCEPT !["cli"] = Idle]
  /\ UNCHANGED <<evidence, db, resident, memory, owed, seer, met>>

Next ==
  /\ UNCHANGED world
  /\ \/ Burst \/ CatchUp \/ Backfill \/ Post \/ Clear \/ Rebuild
     \/ FailRebuild \/ Exit \/ Start \/ Kill
     \/ \E p \in Process :
          OpenFile(p) \/ StoreLines(p) \/ ProjectRows(p) \/ FailFile(p)

Spec == Init /\ [][Next]_vars

-----------------------------------------------------------------------------
(* Properties.                                                             *)

\* The shape of the state.
TypeOK ==
  /\ \A i \in Ids : Body(evidence[i]).lane \in Lane
  /\ \A i, j \in Ids : Body(evidence[i]) = Body(evidence[j]) => i = j
  /\ \A c \in Call : /\ db.lanes[c] \subseteq Lane
                     /\ db.call[c] # NoRow => Has(db, c)
                     /\ db.edits[c] \in Nat
  /\ resident \in BOOLEAN /\ met \in BOOLEAN
  /\ owed \subseteq Ids
  /\ seer \in {"tail", "rebuild", "none", "many"}
  /\ \A p \in Process : job[p].before <= Len(evidence)
  /\ ~ resident => job["app"] = Idle /\ memory = NoMemory

\* What some projector has been through since the tables were last cleared.
Projected == Ids \ owed
BodyOf(i) == Body(evidence[i])
About(i, c) == BodyOf(i).call = c

\* A row's provenance is exactly the lanes whose records about the call have
\* been projected: whichever came first, whoever came between, whatever
\* failed, was cleared or rebuilt.
WitnessesSaid ==
  \A c \in Call :
    db.lanes[c] = {BodyOf(i).lane : i \in {i \in Projected : About(i, c)}}

\* The state keeps its shape, and a row says which lanes it comes from.
ProjectionInv == TypeOK /\ WitnessesSaid

\* What only one lane can say stands in the row once it has been projected,
\* and the other lane does not displace it: the transcript's whole input over
\* OTLP's cut one, its result, and OTLP's decision and duration. A call shown
\* as refused is never shown as a success.
Says(row, r) ==
  CASE r.kind = "use" -> row.input = "full"
    [] r.kind = "result" /\ r.lane = "transcript" -> row.result = "body"
    [] r.kind = "result" /\ r.lane = "otlp" ->
         r.duration # Nil => row.duration = r.duration
    [] r.kind = "decision" ->
         /\ r.decision # Nil => row.decision = r.decision
         /\ r.decision = "reject" => row.success = FALSE
    [] OTHER -> TRUE

CallsShow ==
  \A i \in Projected : BodyOf(i).call # Nil =>
                         Says(db.call[BodyOf(i).call], BodyOf(i))

\* A session's first and last sight are the least and the greatest time of the
\* records projected, in whatever order they came.
SessionSpans ==
  \A s \in Session :
    LET times == {BodyOf(i).ts :
                    i \in {i \in Projected : BodyOf(i).session = s}} \ {Nil}
    IN times # {} =>
         /\ db.session[s].first \in times /\ db.session[s].last \in times
         /\ \A t \in times :
              db.session[s].first <= t /\ t <= db.session[s].last

\* What has been projected is there to be read, of a call and of a session.
EvidenceShown == CallsShow /\ SessionSpans

\* One projector has seen everything, in order, and is between two files.
OneEye == /\ seer \in {"tail", "rebuild"} /\ owed = {}
          /\ \A p \in Process : job[p].step \notin {"stored", "rebuild"}

\* The latest record before i that told the mode of i's session.
ModeTold(i) ==
  LET told == {j \in 1 .. i - 1 : /\ BodyOf(j).lane = "transcript"
                                  /\ BodyOf(j).session = BodyOf(i).session
                                  /\ BodyOf(j).session # Nil
                                  /\ BodyOf(j).mode # Nil}
  IN IF told = {} THEN Nil
     ELSE BodyOf(CHOOSE j \in told : \A k \in told : k <= j).mode

Uses == {i \in Projected : BodyOf(i).kind = "use"}

\* A call carries the permission mode the last record before it established,
\* if one projector has seen them all.
ModesFollowed ==
  OneEye => \A i \in Uses : ModeTold(i) # Nil =>
              db.call[BodyOf(i).call].mode = ModeTold(i)

\* A subagent's calls carry the type the call that spawned it asked for, even
\* when the two transcripts are read in the other order, if one projector has
\* seen them all.
AgentsNamed ==
  OneEye =>
    \A i, j \in Projected :
      /\ BodyOf(i).kind = "use" /\ BodyOf(i).spawns # Nil
      /\ BodyOf(j).kind = "result" /\ BodyOf(j).lane = "transcript"
      /\ BodyOf(j).call = BodyOf(i).call /\ i < j
      => \A c \in Call : BodyOf(j).names # Nil
                         /\ db.call[c].agent = BodyOf(j).names
                           => db.call[c].type = BodyOf(i).spawns

\* What the live lanes made of the evidence, burst by burst, is what a rebuild
\* would make of it, but for what the next burst will still settle.
LiveIsRebuilt ==
  OneEye /\ seer = "tail" => Finish(db, memory) = Rebuilt(Bodies)

\* The changes of file a result reports are recorded once, unless the command
\* line ran beside the application.
EditsOnce ==
  ~ met => \A c \in Call :
             db.edits[c] = Cardinality({i \in Projected :
               About(i, c) /\ BodyOf(i).kind = "result"
                           /\ BodyOf(i).edits # Nil})

\* What one record tells of the call of another reaches it, whatever the order
\* they are read in, and once: its mode, its subagent's type, the changes its
\* result reports (projector.rs, project.rs).
ToldOfCalls == ModesFollowed /\ AgentsNamed /\ EditsOnce

\* A tool call's record does not carry the mode: it is "established by an
\* earlier record and holds until another changes it" (toolog-ingest
\* projector.rs:66), whichever projector reads it.
ModeInForce ==
  \A i \in Uses : ModeTold(i) # Nil /\ owed = {} =>
    db.call[BodyOf(i).call].mode = ModeTold(i)
=============================================================================
