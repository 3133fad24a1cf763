---------------------------- MODULE ToolCallRows ----------------------------
(***************************************************************************)
(* What projecting one stored record does to the tables:                   *)
(* crates/toolog-core/src/project.rs and the two projectors,               *)
(* crates/toolog-ingest/src/projector.rs and crates/toolog-otlp/src/       *)
(* {projector,events}.rs.                                                  *)
(*                                                                         *)
(* A record is the fields the projectors read from it, Nil where it has    *)
(* none. Of a tool_call row the columns kept are the ones both lanes write *)
(* (session, calledAt, success), one or two each lane owns, and the two    *)
(* inferred ones (type, the subagent's; mode). An input is "full" from the *)
(* transcript and "cut" from OTLP, which truncates it. Prompts and API     *)
(* requests have tables of their own and are left out.                     *)
(***************************************************************************)
EXTENDS Integers, Sequences, FiniteSets

CONSTANTS
  Nil,        \* SQL's NULL, Rust's None
  Call,       \* tool_use_id
  Session,    \* session_id
  Agent       \* agentId, a subagent instance

Lane == {"transcript", "otlp"}

\* NULL is none of the values a column may have.
ASSUME NilAssumption ==
  Nil \notin Nat \cup BOOLEAN \cup {"full", "body", "accept", "reject"}
             \cup Call \cup Session \cup Agent

\* The fields a record may have; ts is a positive number of milliseconds.
Field == {"lane", "kind", "session", "ts", "path", "moved", "mode", "agent",
          "type", "call", "spawns", "names", "success", "edits", "decision",
          "duration", "input", "from"}

\* The record with the given fields and no others.
Rec(given) ==
  [k \in Field |-> IF k \in DOMAIN given THEN given[k] ELSE Nil]

\* What classify and the normaliser make of any JSON: a result or a decision
\* that names no call is of no such kind, and a result changes one file or none.
WellFormed(r) ==
  /\ r.lane \in Lane
  /\ r.kind = "use" => r.lane = "transcript"
  /\ r.kind = "decision" => r.lane = "otlp"
  /\ r.call # Nil <=> r.kind \in {"use", "result", "decision"}
  /\ r.call = Nil \/ r.call \in Call
  /\ r.session = Nil \/ r.session \in Session
  /\ r.agent = Nil \/ r.agent \in Agent
  /\ r.names = Nil \/ r.names \in Agent
  /\ r.ts = Nil \/ r.ts \in Nat
  /\ r.edits # Nil => r.lane = "transcript" /\ r.edits = 1

\* Claude Code does not contradict itself: one call has one duration and one
\* decision, ran only if it was not refused, and did not succeed if it was.
OneStory(r, q) ==
  r.call = q.call =>
    /\ r.lane = "otlp" /\ r.kind = "result" /\ q.lane = "otlp" /\ q.kind = "result"
         => \/ Nil \in {r.duration, q.duration}
            \/ r.duration = q.duration
    /\ r.kind = "decision" /\ q.kind = "decision"
         => \/ Nil \in {r.decision, q.decision}
            \/ r.decision = q.decision
    /\ r.kind = "decision" /\ q.lane = "otlp" /\ q.kind = "result"
         => r.decision \in {Nil, "accept"}
    /\ r.kind = "decision" /\ r.decision = "reject" /\ q.kind = "result"
         => q.success \in {Nil, FALSE}

\* Claude Code asks for a call in one record, and that record does not tell of
\* the mode (toolog-ingest projector.rs:66).
AskedOnce(W) ==
  \A r, q \in W : r.kind = "use" /\ q.kind = "use" /\ r.call = q.call
                   => r = q /\ r.mode = Nil

\* A transcript's records of a call name one subagent it is made by, one that it
\* spawns; and a subagent has one type, the one it was asked for by.
OneSubagent(W, type) ==
  /\ \A r \in W : r.lane = "transcript" /\ Nil \notin {r.agent, r.type}
                  => r.type = type[r.agent]
  /\ \A r, q \in W :
       /\ r.lane = "transcript" /\ r.kind \in {"use", "result"}
       /\ q.lane = "transcript" /\ q.kind \in {"use", "result"}
       /\ r.call = q.call
       => /\ Nil \notin {r.agent, q.agent} => r.agent = q.agent
          /\ Nil \notin {r.names, q.names} => r.names = q.names
          /\ Nil \notin {r.type, q.agent} => r.type = type[q.agent]
          /\ Nil \notin {r.spawns, q.names} => r.spawns = type[q.names]
SubagentsTold(W) ==
  \E type \in [Agent -> {r.type : r \in W} \cup {r.spawns : r \in W} \cup {Nil}] :
    OneSubagent(W, type)

Column == {"session", "agent", "type", "calledAt", "input", "result",
           "success", "mode", "duration", "decision"}

NoRow == [k \in Column |-> Nil]

NoSpan == [path |-> Nil, first |-> Nil, last |-> Nil]

\* The tables, empty. A call has a row when some lane has witnessed it, a
\* session when it is held.
NoRows ==
  [call    |-> [c \in Call |-> NoRow],
   lanes   |-> [c \in Call |-> {}],         \* provenance
   edits   |-> [c \in Call |-> 0],          \* rows of file_change
   session |-> [s \in Session |-> NoSpan],
   held    |-> {},
   changes |-> <<>>]                        \* permission_mode_change, by id

\* What a TranscriptProjector remembers between records, at first.
NoMemory ==
  [mode  |-> [s \in Session |-> Nil],       \* modes
   type  |-> [a \in Agent |-> Nil],         \* agent_types
   asked |-> [c \in Call |-> Nil],          \* pending_agent_types
   moved |-> [s \in Session |-> Nil]]       \* relocations

Has(db, c) == db.lanes[c] # {}

-----------------------------------------------------------------------------
(* The upserts. COALESCE(new, old) keeps what is known.                    *)

Coalesce(new, old) == IF new = Nil THEN old ELSE new

Merge(facts, row) ==
  [k \in DOMAIN row |->
     IF k \in DOMAIN facts THEN Coalesce(facts[k], row[k]) ELSE row[k]]

\* mutant: the provenance is the last lane's
UpsertTranscriptAlone(db, c, facts) ==
  [db EXCEPT !.call[c] = Merge(facts, @), !.lanes[c] = {"transcript"}]

UpsertTranscript(db, c, facts) ==
  [db EXCEPT !.call[c] = Merge(facts, @),
             !.lanes[c] = @ \cup {"transcript"}]

\* OTLP's input only fills a hole.
Filled(row, input) == [row EXCEPT !.input = Coalesce(@, input)]

\* Every other column newest wins.
UpsertOtel(db, c, facts, input) ==
  [db EXCEPT !.call[c] = Filled(Merge(facts, @), input),
             !.lanes[c] = @ \cup {"otlp"}]

Least(a, b) == IF a = Nil \/ (b # Nil /\ b < a) THEN b ELSE a
Greatest(a, b) == IF a = Nil \/ (b # Nil /\ b > a) THEN b ELSE a

UpsertSession(db, sid, path, ts) ==
  [db EXCEPT !.session[sid] = [path  |-> Coalesce(path, @.path),
                               first |-> Least(@.first, ts),
                               last  |-> Greatest(@.last, ts)],
             !.held = @ \cup {sid}]

InsertChange(db, sid, from, to, ts) ==
  [db EXCEPT !.changes =
     Append(@, [session |-> sid, from |-> from, to |-> to, ts |-> ts])]

-----------------------------------------------------------------------------
(* Permission modes. A descending sort in SQLite puts NULLs last.          *)

Rank(ts) == IF ts = Nil THEN 0 ELSE ts

\* ORDER BY ts DESC, id DESC LIMIT 1 among the changes numbered I.
LatestOf(changes, I) ==
  CHOOSE i \in I : \A j \in I :
    \/ Rank(changes[j].ts) < Rank(changes[i].ts)
    \/ Rank(changes[j].ts) = Rank(changes[i].ts) /\ j <= i

ChangesOf(db, sid) == {i \in DOMAIN db.changes : db.changes[i].session = sid}

\* Two calls of one session are never called at the same instant here: the
\* code breaks such a tie by the order the rows were made in.
LastKnownMode(db, sid) ==
  LET told  == {i \in ChangesOf(db, sid) : db.changes[i].to # Nil}
      calls == {c \in Call : /\ Has(db, c) /\ db.call[c].session = sid
                             /\ db.call[c].mode # Nil}
      latest == CHOOSE c \in calls : \A d \in calls :
                  Rank(db.call[d].calledAt) <= Rank(db.call[c].calledAt)
  IN IF told # {} THEN db.changes[LatestOf(db.changes, told)].to
     ELSE IF calls # {} THEN db.call[latest].mode ELSE Nil

\* mutant: the mode is the session's first
ModeForFirst(s, sid) ==
  IF sid = Nil \/ ChangesOf(s.db, sid) = {} THEN Nil
  ELSE s.db.changes[CHOOSE i \in ChangesOf(s.db, sid) :
                      \A j \in ChangesOf(s.db, sid) : i <= j].to

ModeFor(s, sid) ==
  IF sid = Nil THEN Nil
  ELSE Coalesce(s.mem.mode[sid], LastKnownMode(s.db, sid))

NotePermissionMode(s, r) ==
  IF r.session = Nil \/ r.mode = Nil \/ s.mem.mode[r.session] = r.mode THEN s
  ELSE [db  |-> InsertChange(s.db, r.session, s.mem.mode[r.session], r.mode,
                             r.ts),
        mem |-> [s.mem EXCEPT !.mode[r.session] = r.mode]]

-----------------------------------------------------------------------------
(* The transcript projector: a step from [db, mem] to [db, mem].           *)

ProjectToolUse(s, r) ==
  LET mode == ModeFor(s, r.session)
      mem1 == [s.mem EXCEPT !.asked[r.call] = Coalesce(r.spawns, @)]
  IN [db  |-> UpsertTranscript(s.db, r.call,
                [session |-> r.session, agent |-> r.agent, type |-> r.type,
                 calledAt |-> r.ts, input |-> "full", mode |-> mode]),
      mem |-> IF r.session = Nil THEN mem1
              ELSE [mem1 EXCEPT !.mode[r.session] = mode]]

\* An Agent result names the agentId its subagent's calls carry.
ProjectToolResult(s, r) ==
  [db  |-> [UpsertTranscript(s.db, r.call,
              [session |-> r.session, agent |-> r.agent,
               result |-> "body", success |-> r.success])
            EXCEPT !.edits[r.call] = @ + Coalesce(r.edits, 0)],
   mem |-> IF r.names = Nil \/ s.mem.asked[r.call] = Nil THEN s.mem
           ELSE [s.mem EXCEPT !.type[r.names] = s.mem.asked[r.call],
                              !.asked[r.call] = Nil]]

\* The session, relocation and subagent type any record may carry.
NoteEnvelope(s, r) ==
  [db  |-> IF r.session = Nil THEN s.db
           ELSE UpsertSession(s.db, r.session, Coalesce(r.moved, r.path), r.ts),
   mem |-> [s.mem EXCEPT
              !.moved = [x \in Session |-> IF x = r.session
                                           THEN Coalesce(r.moved, @[x])
                                           ELSE @[x]],
              !.type  = [a \in Agent |-> IF a = r.agent
                                         THEN Coalesce(r.type, @[a])
                                         ELSE @[a]]]]

ProjectTranscript(s, r) ==
  LET noted == NotePermissionMode(NoteEnvelope(s, r), r) IN
  CASE r.lane # "transcript" -> s
    [] r.lane = "transcript" /\ r.kind = "use"    -> ProjectToolUse(noted, r)
    [] r.lane = "transcript" /\ r.kind = "result" -> ProjectToolResult(noted, r)
    [] OTHER -> noted

Moved(span, to) == [span EXCEPT !.path = Coalesce(to, @)]

Relocate(db, mem) ==
  [db EXCEPT !.session = [x \in Session |->
     IF x \in db.held THEN Moved(@[x], mem.moved[x]) ELSE @[x]]]

\* mutant: only a call's own record names its subagent
NameAgentsNever(db, mem) == db

\* set_agent_type, then spread_agent_names: the type a projector knows, or
\* else the one some other call of the same subagent has.
NameAgents(db, mem) ==
  LET known(c) == IF mem.type[db.call[c].agent] # Nil
                  THEN {mem.type[db.call[c].agent]}
                  ELSE {db.call[d].type : d \in
                         {d \in Call : db.call[d].agent = db.call[c].agent}}
                       \ {Nil}
      lacks(c) == db.call[c].agent # Nil /\ db.call[c].type = Nil
  IN [db EXCEPT !.call = [c \in Call |->
        IF lacks(c) /\ known(c) # {}
        THEN [@[c] EXCEPT !.type = CHOOSE t \in known(c) : TRUE]
        ELSE @[c]]]

\* The latest change at or before the call, else the session's first.
InheritModes(db) ==
  LET before(c) == {i \in ChangesOf(db, db.call[c].session) :
                      /\ db.changes[i].ts # Nil /\ db.call[c].calledAt # Nil
                      /\ db.changes[i].ts <= db.call[c].calledAt}
      first(c) == CHOOSE i \in ChangesOf(db, db.call[c].session) :
                    \A j \in ChangesOf(db, db.call[c].session) : i <= j
      latest(c) == IF before(c) = {} THEN Nil
                   ELSE db.changes[LatestOf(db.changes, before(c))].to
      lacks(c) == db.call[c].mode = Nil /\ db.call[c].session # Nil
  IN [db EXCEPT !.call = [c \in Call |->
        IF lacks(c) /\ ChangesOf(db, db.call[c].session) # {}
        THEN [@[c] EXCEPT !.mode = Coalesce(latest(c),
                                            db.changes[first(c)].to)]
        ELSE @[c]]]

Finish(db, mem) == InheritModes(NameAgents(Relocate(db, mem), mem))

-----------------------------------------------------------------------------
(* The OTLP projector, which remembers nothing.                            *)

\* tool_result: the call ran, so it was accepted.
ResultFacts(r) ==
  [session |-> r.session, calledAt |-> r.ts, duration |-> r.duration,
   decision |-> "accept", success |-> r.success]

\* tool_decision: a refused call never ran.
DecisionFacts(r) ==
  [session |-> r.session, calledAt |-> r.ts, decision |-> r.decision,
   success |-> IF r.decision = "reject" THEN FALSE ELSE Nil]

ProjectOtlp(db, r) ==
  LET noted == IF r.session = Nil THEN db
               ELSE UpsertSession(db, r.session, r.path, r.ts)
  IN CASE r.kind = "result" ->
            UpsertOtel(noted, r.call, ResultFacts(r), r.input)
       [] r.kind = "decision" ->
            UpsertOtel(noted, r.call, DecisionFacts(r), r.input)
       [] r.kind = "modeChanged" ->
            InsertChange(noted, r.session, r.from, r.mode, r.ts)
       [] OTHER -> noted

\* Chain: each record through both projectors.
ProjectBoth(s, r) ==
  IF r.lane = "otlp" THEN [s EXCEPT !.db = ProjectOtlp(@, r)]
  ELSE ProjectTranscript(s, r)

\* Records through the transcript projector, or through both.
ReplayTranscript(s, rs) ==
  LET after[n \in 0 .. Len(rs)] ==
        IF n = 0 THEN s ELSE ProjectTranscript(after[n - 1], rs[n])
  IN after[Len(rs)]

ReplayBoth(s, rs) ==
  LET after[n \in 0 .. Len(rs)] ==
        IF n = 0 THEN s ELSE ProjectBoth(after[n - 1], rs[n])
  IN after[Len(rs)]

\* What the whole store is worth, read from its beginning.
Rebuilt(rs) ==
  LET s == ReplayBoth([db |-> NoRows, mem |-> NoMemory], rs)
  IN Finish(s.db, s.mem)
=============================================================================
