--------------------------- MODULE ProjectionProofs ---------------------------
(***************************************************************************)
(* What the tables say of the evidence, for any calls, sessions, records   *)
(* and files: the provenance of a call is exactly the lanes that witnessed *)
(* it, nothing a lane said of it is lost, a session spans its records, and *)
(* a change of a file is recorded once unless two processes were at work;  *)
(* and a call's mode and a subagent's type, which other records tell, are  *)
(* the ones told, whatever order the transcripts are read in.              *)
(***************************************************************************)
EXTENDS Projection, Extremes, FiniteSetTheorems, SequenceTheorems, TLAPS

-----------------------------------------------------------------------------
(* The tables keep their shape.                                            *)

Shaped(d) ==
  /\ d = [call |-> d.call, lanes |-> d.lanes, edits |-> d.edits,
          session |-> d.session, held |-> d.held, changes |-> d.changes]
  /\ d.lanes \in [Call -> SUBSET Lane]
  /\ d.edits \in [Call -> Nat]
  /\ d.call = [c \in Call |-> d.call[c]]
  /\ \A c \in Call : /\ d.call[c] = [k \in Column |-> d.call[c][k]]
                     /\ ~ Has(d, c) => d.call[c] = NoRow
  /\ d.session = [x \in Session |-> d.session[x]]
  /\ \A x \in Session :
       /\ d.session[x] = [path |-> d.session[x].path, first |-> d.session[x].first,
                          last |-> d.session[x].last]
       /\ d.session[x].first \in Nat \cup {Nil}
       /\ d.session[x].last \in Nat \cup {Nil}

\* What the theorems are about is the same of a call, and of a session.
SameCall(d, e, c) ==
  /\ e.lanes[c] = d.lanes[c]
  /\ e.edits[c] = d.edits[c]
  /\ e.call[c].input = d.call[c].input
  /\ e.call[c].result = d.call[c].result
  /\ e.call[c].duration = d.call[c].duration
  /\ e.call[c].decision = d.call[c].decision
  /\ e.call[c].success = d.call[c].success

SameSpan(d, e, x) ==
  /\ e.session[x].first = d.session[x].first
  /\ e.session[x].last = d.session[x].last

\* Does a result report a change of a file by call c?
Edits(r, c) == r.call = c /\ r.kind = "result" /\ r.edits # Nil

\* What projecting record r does to the tables, as far as the theorems go.
Effect(d, e, r) ==
  /\ Shaped(e)
  /\ \A c \in Call \ {r.call} : SameCall(d, e, c)
  /\ \A x \in Session \ {r.session} : SameSpan(d, e, x)
  /\ r.session \in Session =>
       /\ e.session[r.session].first = Least(d.session[r.session].first, r.ts)
       /\ e.session[r.session].last = Greatest(d.session[r.session].last, r.ts)
  /\ r.call \in Call =>
       LET old == d.call[r.call]
           new == e.call[r.call]
       IN /\ e.lanes[r.call] = d.lanes[r.call] \cup {r.lane}
          /\ e.edits[r.call] = d.edits[r.call] + (IF Edits(r, r.call) THEN 1 ELSE 0)
          /\ new.input = old.input \/ old.input = Nil \/ r.kind = "use"
          /\ r.kind = "use" => new.input = "full"
          /\ new.result = IF r.kind = "result" /\ r.lane = "transcript"
                          THEN "body" ELSE old.result
          /\ new.duration = IF r.kind = "result" /\ r.lane = "otlp"
                            THEN Coalesce(r.duration, old.duration)
                            ELSE old.duration
          /\ new.decision = IF r.kind = "result" /\ r.lane = "otlp" THEN "accept"
                            ELSE IF r.kind = "decision"
                            THEN Coalesce(r.decision, old.decision)
                            ELSE old.decision
          /\ new.success = IF r.kind = "result"
                           THEN Coalesce(r.success, old.success)
                           ELSE IF r.kind = "decision" /\ r.decision = "reject"
                           THEN FALSE ELSE old.success

-----------------------------------------------------------------------------
(* The upserts.                                                            *)

LEMMA NoRowsShaped == Shaped(NoRows)
<1>1. \A k \in Column : NoRow[k] = Nil
  BY DEF NoRow
<1>2. NoRow = [k \in Column |-> NoRow[k]]
  BY DEF NoRow
<1>3. /\ NoRows.call = [c \in Call |-> NoRow] /\ NoRows.lanes = [c \in Call |-> {}]
      /\ NoRows.edits = [c \in Call |-> 0] /\ NoRows.session = [s \in Session |-> NoSpan]
      /\ NoRows = [call |-> NoRows.call, lanes |-> NoRows.lanes, edits |-> NoRows.edits,
          session |-> NoRows.session, held |-> NoRows.held, changes |-> NoRows.changes]
  BY DEF NoRows
<1>4. /\ NoSpan.first = Nil /\ NoSpan.last = Nil
      /\ NoSpan = [path |-> NoSpan.path, first |-> NoSpan.first, last |-> NoSpan.last]
  BY DEF NoSpan
<1> QED BY <1>2, <1>3, <1>4 DEF Shaped

\* What the session upsert leaves is known field by field.
LEMMA UpsertSessionDoes ==
  ASSUME NEW d, Shaped(d), NEW sid \in Session, NEW path, NEW ts,
         ts = Nil \/ ts \in Nat,
         NEW e, e = UpsertSession(d, sid, path, ts)
  PROVE  /\ Shaped(e)
         /\ \A c \in Call : SameCall(d, e, c)
         /\ \A x \in Session \ {sid} : SameSpan(d, e, x)
         /\ e.session[sid].first = Least(d.session[sid].first, ts)
         /\ e.session[sid].last = Greatest(d.session[sid].last, ts)
<1> DEFINE row == [path  |-> Coalesce(path, d.session[sid].path),
                   first |-> Least(d.session[sid].first, ts),
                   last  |-> Greatest(d.session[sid].last, ts)]
<1>1. e = [call |-> d.call, lanes |-> d.lanes, edits |-> d.edits,
           session |-> [d.session EXCEPT ![sid] = row],
           held |-> d.held \cup {sid}, changes |-> d.changes]
  BY DEF UpsertSession, Shaped
<1>2. /\ row.first \in Nat \cup {Nil} /\ row.last \in Nat \cup {Nil}
      /\ row = [path |-> row.path, first |-> row.first, last |-> row.last]
      /\ row.first = Least(d.session[sid].first, ts)
      /\ row.last = Greatest(d.session[sid].last, ts)
  BY DEF Shaped, Least, Greatest
<1> HIDE DEF row
<1>3. \A x \in Session : e.session[x] = IF x = sid THEN row ELSE d.session[x]
  BY <1>1 DEF Shaped
<1>4. e.session = [x \in Session |-> e.session[x]]
  BY <1>1 DEF Shaped
<1>5. /\ e.call = d.call /\ e.lanes = d.lanes /\ e.edits = d.edits
      /\ e = [call |-> e.call, lanes |-> e.lanes, edits |-> e.edits,
              session |-> e.session, held |-> e.held, changes |-> e.changes]
  BY <1>1
<1>6. Shaped(e)
  BY <1>2, <1>3, <1>4, <1>5 DEF Shaped, Has
<1> QED BY <1>2, <1>3, <1>5, <1>6 DEF SameCall, SameSpan

LEMMA InsertChangeDoes ==
  ASSUME NEW d, Shaped(d), NEW sid, NEW from, NEW to, NEW ts,
         NEW e, e = InsertChange(d, sid, from, to, ts)
  PROVE  /\ Shaped(e)
         /\ \A c \in Call : SameCall(d, e, c)
         /\ \A x \in Session : SameSpan(d, e, x)
<1> PICK ch : ch = Append(d.changes, [session |-> sid, from |-> from, to |-> to, ts |-> ts])
  OBVIOUS
<1>1. e = [call |-> d.call, lanes |-> d.lanes, edits |-> d.edits,
           session |-> d.session, held |-> d.held, changes |-> ch]
  BY DEF InsertChange, Shaped
<1>2. /\ e.call = d.call /\ e.lanes = d.lanes /\ e.edits = d.edits
      /\ e.session = d.session
      /\ e = [call |-> e.call, lanes |-> e.lanes, edits |-> e.edits,
              session |-> e.session, held |-> e.held, changes |-> e.changes]
  BY <1>1
<1>3. Shaped(e)
  BY <1>2 DEF Shaped, Has
<1> QED BY <1>2, <1>3 DEF SameCall, SameSpan

\* A call's row becomes the merge of the facts into it, and its provenance one
\* lane more.
LEMMA UpsertTranscriptDoes ==
  ASSUME NEW d, Shaped(d), NEW c \in Call, NEW facts,
         NEW e, e = UpsertTranscript(d, c, facts)
  PROVE  /\ Shaped(e)
         /\ \A x \in Session : SameSpan(d, e, x)
         /\ \A b \in Call \ {c} : SameCall(d, e, b)
         /\ e.lanes[c] = d.lanes[c] \cup {"transcript"}
         /\ e.edits[c] = d.edits[c]
         /\ \A k \in Column : e.call[c][k] = IF k \in DOMAIN facts
                                             THEN Coalesce(facts[k], d.call[c][k])
                                             ELSE d.call[c][k]
<1> DEFINE row == Merge(facts, d.call[c])
<1>1. e = [call |-> [d.call EXCEPT ![c] = row],
           lanes |-> [d.lanes EXCEPT ![c] = @ \cup {"transcript"}], edits |-> d.edits,
           session |-> d.session, held |-> d.held, changes |-> d.changes]
  BY DEF UpsertTranscript, Shaped
<1>2. /\ row = [k \in Column |-> row[k]]
      /\ \A k \in Column : row[k] = IF k \in DOMAIN facts
                                    THEN Coalesce(facts[k], d.call[c][k])
                                    ELSE d.call[c][k]
  <2>1. DOMAIN d.call[c] = Column
    BY DEF Shaped
  <2> QED BY <2>1 DEF Merge
<1> HIDE DEF row
<1>3. \A b \in Call : /\ e.call[b] = IF b = c THEN row ELSE d.call[b]
                      /\ e.lanes[b] = IF b = c THEN d.lanes[c] \cup {"transcript"}
                                      ELSE d.lanes[b]
  BY <1>1 DEF Shaped
<1>4. /\ e.call = [b \in Call |-> e.call[b]]
      /\ e.lanes \in [Call -> SUBSET Lane]
  BY <1>1 DEF Shaped, Lane
<1>5. /\ e.session = d.session /\ e.edits = d.edits
      /\ e = [call |-> e.call, lanes |-> e.lanes, edits |-> e.edits,
              session |-> e.session, held |-> e.held, changes |-> e.changes]
  BY <1>1
<1>6. Shaped(e)
  <2>1. \A b \in Call : /\ e.call[b] = [k \in Column |-> e.call[b][k]]
                        /\ ~ Has(e, b) => e.call[b] = NoRow
    <3> SUFFICES ASSUME NEW b \in Call
                 PROVE  /\ e.call[b] = [k \in Column |-> e.call[b][k]]
                        /\ ~ Has(e, b) => e.call[b] = NoRow
      OBVIOUS
    <3>1. CASE b = c
      <4>1. e.call[b] = row /\ e.lanes[b] # {}
        BY <1>3, <3>1
      <4> QED BY <1>2, <4>1 DEF Has
    <3>2. CASE b # c
      <4>1. e.call[b] = d.call[b] /\ e.lanes[b] = d.lanes[b]
        BY <1>3, <3>2
      <4> QED BY <4>1 DEF Shaped, Has
    <3> QED BY <3>1, <3>2
  <2> QED BY <1>4, <1>5, <2>1 DEF Shaped
<1> QED BY <1>2, <1>3, <1>5, <1>6 DEF SameCall, SameSpan

LEMMA UpsertOtelDoes ==
  ASSUME NEW d, Shaped(d), NEW c \in Call, NEW facts, NEW input,
         "input" \notin DOMAIN facts,
         NEW e, e = UpsertOtel(d, c, facts, input)
  PROVE  /\ Shaped(e)
         /\ \A x \in Session : SameSpan(d, e, x)
         /\ \A b \in Call \ {c} : SameCall(d, e, b)
         /\ e.lanes[c] = d.lanes[c] \cup {"otlp"}
         /\ e.edits[c] = d.edits[c]
         /\ \A k \in Column \ {"input"} :
              e.call[c][k] = IF k \in DOMAIN facts
                             THEN Coalesce(facts[k], d.call[c][k])
                             ELSE d.call[c][k]
         /\ e.call[c].input = Coalesce(d.call[c].input, input)
<1> DEFINE merged == Merge(facts, d.call[c])
           row == Filled(merged, input)
<1>1. e = [call |-> [d.call EXCEPT ![c] = row],
           lanes |-> [d.lanes EXCEPT ![c] = @ \cup {"otlp"}], edits |-> d.edits,
           session |-> d.session, held |-> d.held, changes |-> d.changes]
  BY DEF UpsertOtel, Shaped
<1>2. /\ merged = [k \in Column |-> merged[k]]
      /\ \A k \in Column : merged[k] = IF k \in DOMAIN facts
                                    THEN Coalesce(facts[k], d.call[c][k])
                                    ELSE d.call[c][k]
  <2>1. DOMAIN d.call[c] = Column
    BY DEF Shaped
  <2> QED BY <2>1 DEF Merge
<1> HIDE DEF merged
<1>3. /\ row = [k \in Column |-> row[k]]
      /\ \A k \in Column \ {"input"} : row[k] = merged[k]
      /\ row["input"] = Coalesce(merged["input"], input)
  BY <1>2 DEF Column, Filled
<1> HIDE DEF row
<1>4. \A b \in Call : /\ e.call[b] = IF b = c THEN row ELSE d.call[b]
                      /\ e.lanes[b] = IF b = c THEN d.lanes[c] \cup {"otlp"}
                                      ELSE d.lanes[b]
  BY <1>1 DEF Shaped
<1>5. /\ e.call = [b \in Call |-> e.call[b]]
      /\ e.lanes \in [Call -> SUBSET Lane]
  BY <1>1 DEF Shaped, Lane
<1>6. /\ e.session = d.session /\ e.edits = d.edits
      /\ e = [call |-> e.call, lanes |-> e.lanes, edits |-> e.edits,
              session |-> e.session, held |-> e.held, changes |-> e.changes]
  BY <1>1
<1>7. Shaped(e)
  <2>1. \A b \in Call : /\ e.call[b] = [k \in Column |-> e.call[b][k]]
                        /\ ~ Has(e, b) => e.call[b] = NoRow
    <3> SUFFICES ASSUME NEW b \in Call
                 PROVE  /\ e.call[b] = [k \in Column |-> e.call[b][k]]
                        /\ ~ Has(e, b) => e.call[b] = NoRow
      OBVIOUS
    <3>1. CASE b = c
      <4>1. e.call[b] = row /\ e.lanes[b] # {}
        BY <1>4, <3>1
      <4> QED BY <1>3, <4>1 DEF Has
    <3>2. CASE b # c
      <4>1. e.call[b] = d.call[b] /\ e.lanes[b] = d.lanes[b]
        BY <1>4, <3>2
      <4> QED BY <4>1 DEF Shaped, Has
    <3> QED BY <3>1, <3>2
  <2> QED BY <1>5, <1>6, <2>1 DEF Shaped
<1>8. "input" \in Column
  BY DEF Column
<1> QED BY <1>2, <1>3, <1>4, <1>6, <1>7, <1>8 DEF SameCall, SameSpan

-----------------------------------------------------------------------------
(* The records.                                                            *)

\* The envelope tells the session's span, and the mode is only noted.
LEMMA NotedDoes ==
  ASSUME NEW s, Shaped(s.db), NEW r, WellFormed(r),
         NEW n, n = NotePermissionMode(NoteEnvelope(s, r), r)
  PROVE  /\ Shaped(n.db)
         /\ \A c \in Call : SameCall(s.db, n.db, c)
         /\ \A x \in Session \ {r.session} : SameSpan(s.db, n.db, x)
         /\ r.session \in Session =>
              /\ n.db.session[r.session].first = Least(s.db.session[r.session].first, r.ts)
              /\ n.db.session[r.session].last = Greatest(s.db.session[r.session].last, r.ts)
<1> DEFINE v == NoteEnvelope(s, r)
<1>1. v.db = IF r.session = Nil THEN s.db
             ELSE UpsertSession(s.db, r.session, Coalesce(r.moved, r.path), r.ts)
  BY DEF NoteEnvelope
<1>2. \/ n = v
      \/ n.db = InsertChange(v.db, r.session, v.mem.mode[r.session], r.mode, r.ts)
  BY DEF NotePermissionMode
<1> HIDE DEF v
<1>3. /\ Shaped(v.db)
      /\ \A c \in Call : SameCall(s.db, v.db, c)
      /\ \A x \in Session \ {r.session} : SameSpan(s.db, v.db, x)
      /\ r.session \in Session =>
           /\ v.db.session[r.session].first = Least(s.db.session[r.session].first, r.ts)
           /\ v.db.session[r.session].last = Greatest(s.db.session[r.session].last, r.ts)
  <2>1. CASE r.session = Nil
    <3>1. v.db = s.db /\ r.session \notin Session
      BY <1>1, <2>1, NilAssumption
    <3> QED BY <3>1 DEF SameCall, SameSpan
  <2>2. CASE r.session # Nil
    <3>1. r.session \in Session /\ (r.ts = Nil \/ r.ts \in Nat)
      BY <2>2 DEF WellFormed
    <3> QED BY <1>1, <2>2, <3>1, UpsertSessionDoes
  <2> QED BY <2>1, <2>2
<1>4. CASE n = v
  BY <1>3, <1>4
<1>5. CASE n.db = InsertChange(v.db, r.session, v.mem.mode[r.session], r.mode, r.ts)
  <2>1. /\ Shaped(n.db)
        /\ \A c \in Call : SameCall(v.db, n.db, c)
        /\ \A x \in Session : SameSpan(v.db, n.db, x)
    BY <1>3, <1>5, InsertChangeDoes
  <2> QED BY <1>3, <2>1 DEF SameCall, SameSpan
<1> QED BY <1>2, <1>4, <1>5

\* A record of the transcript has its effect on the tables ...
LEMMA TranscriptDoes ==
  ASSUME NEW s, Shaped(s.db), NEW r, WellFormed(r), r.lane = "transcript"
  PROVE  Effect(s.db, ProjectTranscript(s, r).db, r)
<1> DEFINE d == s.db
           n == NotePermissionMode(NoteEnvelope(s, r), r)
           e == ProjectTranscript(s, r).db
<1> SUFFICES Effect(d, e, r)
  OBVIOUS
<1>1. /\ Shaped(n.db)
      /\ \A c \in Call : SameCall(d, n.db, c)
      /\ \A x \in Session \ {r.session} : SameSpan(d, n.db, x)
      /\ r.session \in Session =>
           /\ n.db.session[r.session].first = Least(d.session[r.session].first, r.ts)
           /\ n.db.session[r.session].last = Greatest(d.session[r.session].last, r.ts)
  BY NotedDoes
<1>2. ProjectTranscript(s, r) = CASE r.kind = "use" -> ProjectToolUse(n, r)
                                  [] r.kind = "result" -> ProjectToolResult(n, r)
                                  [] OTHER -> n
  BY DEF ProjectTranscript
<1>3. CASE r.kind = "use"
  <2> DEFINE facts == [session |-> r.session, agent |-> r.agent, type |-> r.type,
                       calledAt |-> r.ts, input |-> "full",
                       mode |-> ModeFor(n, r.session)]
  <2>1. e = UpsertTranscript(n.db, r.call, facts)
    BY <1>2, <1>3 DEF ProjectToolUse
  <2>2. /\ facts["input"] = "full" /\ "input" \in DOMAIN facts
        /\ \A k \in {"result", "duration", "decision", "success"} : k \notin DOMAIN facts
    OBVIOUS
  <2>3. r.call \in Call
    BY <1>3 DEF WellFormed
  <2> HIDE DEF facts, n, e
  <2>4. /\ Shaped(e)
        /\ \A x \in Session : SameSpan(n.db, e, x)
        /\ \A b \in Call \ {r.call} : SameCall(n.db, e, b)
        /\ e.lanes[r.call] = n.db.lanes[r.call] \cup {"transcript"}
        /\ e.edits[r.call] = n.db.edits[r.call]
        /\ \A k \in Column : e.call[r.call][k] = IF k \in DOMAIN facts
                                   THEN Coalesce(facts[k], n.db.call[r.call][k])
                                   ELSE n.db.call[r.call][k]
    BY <1>1, <2>1, <2>3, UpsertTranscriptDoes
  <2>5. /\ e.call[r.call].input = "full"
        /\ e.call[r.call].result = d.call[r.call].result
        /\ e.call[r.call].duration = d.call[r.call].duration
        /\ e.call[r.call].decision = d.call[r.call].decision
        /\ e.call[r.call].success = d.call[r.call].success
        /\ e.lanes[r.call] = d.lanes[r.call] \cup {r.lane}
        /\ e.edits[r.call] = d.edits[r.call]
    BY <1>1, <2>2, <2>3, <2>4, NilAssumption DEF SameCall, Coalesce, Column
  <2>6. d.edits[r.call] \in Nat
    BY <2>3 DEF Shaped
  <2> HIDE DEF d
  <2> QED BY <1>1, <1>3, <2>3, <2>4, <2>5, <2>6, SMTT(30) DEF Effect, SameCall, SameSpan, Edits
<1>4. CASE r.kind = "result"
  <2> DEFINE facts == [session |-> r.session, agent |-> r.agent,
                       result |-> "body", success |-> r.success]
             u == UpsertTranscript(n.db, r.call, facts)
  <2>1. e = [u EXCEPT !.edits[r.call] = @ + Coalesce(r.edits, 0)]
    BY <1>2, <1>4 DEF ProjectToolResult
  <2>2. /\ facts["result"] = "body" /\ facts["success"] = r.success
        /\ {"result", "success"} \subseteq DOMAIN facts
        /\ \A k \in {"input", "duration", "decision"} : k \notin DOMAIN facts
    OBVIOUS
  <2>3. r.call \in Call
    BY <1>4 DEF WellFormed
  <2> HIDE DEF facts, n, e
  <2>4. /\ Shaped(u)
        /\ \A x \in Session : SameSpan(n.db, u, x)
        /\ \A b \in Call \ {r.call} : SameCall(n.db, u, b)
        /\ u.lanes[r.call] = n.db.lanes[r.call] \cup {"transcript"}
        /\ u.edits[r.call] = n.db.edits[r.call]
        /\ \A k \in Column : u.call[r.call][k] = IF k \in DOMAIN facts
                                   THEN Coalesce(facts[k], n.db.call[r.call][k])
                                   ELSE n.db.call[r.call][k]
    BY <1>1, <2>3, UpsertTranscriptDoes
  <2> HIDE DEF u
  <2>5. Coalesce(r.edits, 0) = IF Edits(r, r.call) THEN 1 ELSE 0
    BY <1>4, NilAssumption DEF Coalesce, Edits, WellFormed
  <2>6. d.edits[r.call] \in Nat /\ u.edits[r.call] = d.edits[r.call]
    BY <1>1, <2>3, <2>4 DEF Shaped, SameCall
  <2>7. /\ e = [call |-> u.call, lanes |-> u.lanes,
                edits |-> [u.edits EXCEPT ![r.call] = @ + Coalesce(r.edits, 0)],
                session |-> u.session, held |-> u.held, changes |-> u.changes]
    BY <2>1, <2>4 DEF Shaped
  <2>8. /\ e.call = u.call /\ e.lanes = u.lanes /\ e.session = u.session
        /\ e = [call |-> e.call, lanes |-> e.lanes, edits |-> e.edits,
                session |-> e.session, held |-> e.held, changes |-> e.changes]
        /\ e.edits = [u.edits EXCEPT ![r.call] = @ + Coalesce(r.edits, 0)]
    BY <2>7
  <2>9. /\ e.edits \in [Call -> Nat]
        /\ \A b \in Call \ {r.call} : e.edits[b] = u.edits[b]
        /\ e.edits[r.call] = d.edits[r.call] + (IF Edits(r, r.call) THEN 1 ELSE 0)
    <3>1. u.edits \in [Call -> Nat] /\ Coalesce(r.edits, 0) \in Nat
      BY <2>4, <2>5 DEF Shaped
    <3> QED BY <2>3, <2>5, <2>6, <2>8, <3>1
  <2>10. Shaped(e)
    BY <2>4, <2>8, <2>9, SMTT(30) DEF Shaped, Has
  <2>11. /\ e.call[r.call].input = d.call[r.call].input
        /\ e.call[r.call].result = "body"
        /\ e.call[r.call].duration = d.call[r.call].duration
        /\ e.call[r.call].decision = d.call[r.call].decision
        /\ e.call[r.call].success = Coalesce(r.success, d.call[r.call].success)
        /\ e.lanes[r.call] = d.lanes[r.call] \cup {r.lane}
    BY <1>1, <2>2, <2>3, <2>4, <2>8, NilAssumption, ZenonT(60) DEF SameCall, Coalesce, Column
  <2>12. /\ \A b \in Call \ {r.call} : SameCall(d, e, b)
         /\ \A x \in Session : SameSpan(n.db, e, x)
    BY <1>1, <2>4, <2>8, <2>9, SMTT(30) DEF SameCall, SameSpan
  <2> HIDE DEF d
  <2> QED BY <1>1, <1>4, <2>9, <2>10, <2>11, <2>12 DEF Effect, SameSpan
<1>5. CASE r.kind \notin {"use", "result"}
  <2>1. e = n.db /\ r.call \notin Call
    BY <1>2, <1>5, NilAssumption DEF WellFormed
  <2> HIDE DEF e, n, d
  <2> QED BY <1>1, <2>1 DEF Effect
<1> QED BY <1>3, <1>4, <1>5

\* ... and so has a record of the other lane.
LEMMA OtlpDoes ==
  ASSUME NEW d, Shaped(d), NEW r, WellFormed(r), r.lane = "otlp"
  PROVE  Effect(d, ProjectOtlp(d, r), r)
<1> DEFINE n == IF r.session = Nil THEN d ELSE UpsertSession(d, r.session, r.path, r.ts)
           e == ProjectOtlp(d, r)
<1> SUFFICES Effect(d, e, r)
  OBVIOUS
<1>1. /\ Shaped(n)
      /\ \A c \in Call : SameCall(d, n, c)
      /\ \A x \in Session \ {r.session} : SameSpan(d, n, x)
      /\ r.session \in Session =>
           /\ n.session[r.session].first = Least(d.session[r.session].first, r.ts)
           /\ n.session[r.session].last = Greatest(d.session[r.session].last, r.ts)
  <2>1. CASE r.session = Nil
    <3>1. n = d /\ r.session \notin Session
      BY <2>1, NilAssumption
    <3> QED BY <3>1 DEF SameCall, SameSpan
  <2>2. CASE r.session # Nil
    <3>1. r.session \in Session /\ (r.ts = Nil \/ r.ts \in Nat)
      BY <2>2 DEF WellFormed
    <3>2. n = UpsertSession(d, r.session, r.path, r.ts)
      BY <2>2
    <3> HIDE DEF n
    <3> QED BY <3>1, <3>2, UpsertSessionDoes
  <2> QED BY <2>1, <2>2
<1>2. e = CASE r.kind = "result" -> UpsertOtel(n, r.call, ResultFacts(r), r.input)
            [] r.kind = "decision" -> UpsertOtel(n, r.call, DecisionFacts(r), r.input)
            [] r.kind = "modeChanged" -> InsertChange(n, r.session, r.from, r.mode, r.ts)
            [] OTHER -> n
  BY DEF ProjectOtlp
<1> HIDE DEF n, e
<1>3. ASSUME r.kind \in {"result", "decision"},
             NEW facts, e = UpsertOtel(n, r.call, facts, r.input),
             DOMAIN facts \cap {"input", "result"} = {}
      PROVE  /\ Shaped(e) /\ r.call \in Call
             /\ \A x \in Session : SameSpan(n, e, x)
             /\ \A b \in Call \ {r.call} : SameCall(d, e, b)
             /\ e.lanes[r.call] = d.lanes[r.call] \cup {r.lane}
             /\ e.edits[r.call] = d.edits[r.call] + (IF Edits(r, r.call) THEN 1 ELSE 0)
             /\ e.call[r.call].result = d.call[r.call].result
             /\ \/ e.call[r.call].input = d.call[r.call].input
                \/ d.call[r.call].input = Nil
             /\ \A k \in {"duration", "decision", "success"} :
                  e.call[r.call][k] = IF k \in DOMAIN facts
                                     THEN Coalesce(facts[k], d.call[r.call][k])
                                     ELSE d.call[r.call][k]
  <2>1. r.call \in Call /\ ~ Edits(r, r.call)
    BY <1>3 DEF WellFormed, Edits
  <2>2. d.edits[r.call] \in Nat
    BY <2>1 DEF Shaped
  <2>3. "input" \notin DOMAIN facts /\ "result" \notin DOMAIN facts
    BY <1>3
  <2>4. /\ Shaped(e)
        /\ \A x \in Session : SameSpan(n, e, x)
        /\ \A b \in Call \ {r.call} : SameCall(n, e, b)
        /\ e.lanes[r.call] = n.lanes[r.call] \cup {"otlp"}
        /\ e.edits[r.call] = n.edits[r.call]
        /\ \A k \in Column \ {"input"} :
             e.call[r.call][k] = IF k \in DOMAIN facts
                                 THEN Coalesce(facts[k], n.call[r.call][k])
                                 ELSE n.call[r.call][k]
        /\ e.call[r.call].input = Coalesce(n.call[r.call].input, r.input)
    BY <1>1, <1>3, <2>1, <2>3, UpsertOtelDoes
  <2>5. \A k \in {"duration", "decision", "success", "result"} :
          k \in Column \ {"input"} /\ n.call[r.call][k] = d.call[r.call][k]
    BY <1>1, <2>1 DEF Column, SameCall
  <2> QED BY <1>1, <2>1, <2>2, <2>3, <2>4, <2>5, SMTT(30) DEF SameCall, Coalesce
<1>4. CASE r.kind = "result"
  <2>1. /\ DOMAIN ResultFacts(r) = {"session", "calledAt", "duration", "decision", "success"}
        /\ ResultFacts(r)["duration"] = r.duration
        /\ ResultFacts(r)["decision"] = "accept"
        /\ ResultFacts(r)["success"] = r.success
    BY DEF ResultFacts
  <2>2. e = UpsertOtel(n, r.call, ResultFacts(r), r.input)
    BY <1>2, <1>4
  <2>3. /\ Shaped(e) /\ r.call \in Call
        /\ \A x \in Session : SameSpan(n, e, x)
        /\ \A b \in Call \ {r.call} : SameCall(d, e, b)
        /\ e.lanes[r.call] = d.lanes[r.call] \cup {r.lane}
        /\ e.edits[r.call] = d.edits[r.call] + (IF Edits(r, r.call) THEN 1 ELSE 0)
        /\ e.call[r.call].result = d.call[r.call].result
        /\ \/ e.call[r.call].input = d.call[r.call].input
           \/ d.call[r.call].input = Nil
        /\ \A k \in {"duration", "decision", "success"} :
             e.call[r.call][k] = IF k \in DOMAIN ResultFacts(r)
                                THEN Coalesce(ResultFacts(r)[k], d.call[r.call][k])
                                ELSE d.call[r.call][k]
    BY <1>3, <1>4, <2>1, <2>2
  <2>4. /\ e.call[r.call].duration = Coalesce(r.duration, d.call[r.call].duration)
        /\ e.call[r.call].decision = "accept"
        /\ e.call[r.call].success = Coalesce(r.success, d.call[r.call].success)
    BY <2>1, <2>3, NilAssumption DEF Coalesce
  <2> QED BY <1>1, <1>4, <2>3, <2>4 DEF Effect, SameSpan
<1>5. CASE r.kind = "decision"
  <2>1. /\ DOMAIN DecisionFacts(r) = {"session", "calledAt", "decision", "success"}
        /\ DecisionFacts(r)["decision"] = r.decision
        /\ DecisionFacts(r)["success"] = IF r.decision = "reject" THEN FALSE ELSE Nil
    BY DEF DecisionFacts
  <2>2. e = UpsertOtel(n, r.call, DecisionFacts(r), r.input)
    BY <1>2, <1>5
  <2>3. /\ Shaped(e) /\ r.call \in Call
        /\ \A x \in Session : SameSpan(n, e, x)
        /\ \A b \in Call \ {r.call} : SameCall(d, e, b)
        /\ e.lanes[r.call] = d.lanes[r.call] \cup {r.lane}
        /\ e.edits[r.call] = d.edits[r.call] + (IF Edits(r, r.call) THEN 1 ELSE 0)
        /\ e.call[r.call].result = d.call[r.call].result
        /\ \/ e.call[r.call].input = d.call[r.call].input
           \/ d.call[r.call].input = Nil
        /\ \A k \in {"duration", "decision", "success"} :
             e.call[r.call][k] = IF k \in DOMAIN DecisionFacts(r)
                                THEN Coalesce(DecisionFacts(r)[k], d.call[r.call][k])
                                ELSE d.call[r.call][k]
    BY <1>3, <1>5, <2>1, <2>2
  <2>4. /\ e.call[r.call].duration = d.call[r.call].duration
        /\ e.call[r.call].decision = Coalesce(r.decision, d.call[r.call].decision)
        /\ e.call[r.call].success = IF r.decision = "reject" THEN FALSE
                                    ELSE d.call[r.call].success
    BY <2>1, <2>3, NilAssumption DEF Coalesce
  <2> QED BY <1>1, <1>5, <2>3, <2>4 DEF Effect, SameSpan
<1>6. CASE r.kind \notin {"result", "decision"}
  <2>1. r.call \notin Call
    BY <1>6, NilAssumption DEF WellFormed
  <2>2. /\ Shaped(e)
        /\ \A c \in Call : SameCall(n, e, c)
        /\ \A x \in Session : SameSpan(n, e, x)
    <3>1. CASE r.kind = "modeChanged"
      <4>1. e = InsertChange(n, r.session, r.from, r.mode, r.ts)
        BY <1>2, <3>1
      <4> QED BY <1>1, <4>1, InsertChangeDoes
    <3>2. CASE r.kind # "modeChanged"
      <4>1. e = n
        BY <1>2, <1>6, <3>2
      <4> QED BY <1>1, <4>1 DEF SameCall, SameSpan
    <3> QED BY <3>1, <3>2
  <2>3. \A c \in Call : SameCall(d, e, c)
    BY <1>1, <2>2 DEF SameCall
  <2>4. \A x \in Session \ {r.session} : SameSpan(d, e, x)
    BY <1>1, <2>2 DEF SameSpan
  <2>5. r.session \in Session =>
          /\ e.session[r.session].first = Least(d.session[r.session].first, r.ts)
          /\ e.session[r.session].last = Greatest(d.session[r.session].last, r.ts)
    BY <1>1, <2>2 DEF SameSpan
  <2> QED BY <2>1, <2>2, <2>3, <2>4, <2>5 DEF Effect
<1> QED BY <1>4, <1>5, <1>6

-----------------------------------------------------------------------------
(* What needs the whole stream touches a path, a type and a mode.          *)

\* Inferring a type or a mode of rows that are not empty changes nothing else.
LEMMA RowsTouched ==
  ASSUME NEW d, Shaped(d), NEW rows, rows = [c \in Call |-> rows[c]],
         \A c \in Call :
           \/ rows[c] = d.call[c]
           \/ /\ d.call[c] # NoRow
              /\ \E v : \/ rows[c] = [d.call[c] EXCEPT !.type = v]
                       \/ rows[c] = [d.call[c] EXCEPT !.mode = v],
         NEW e, e = [d EXCEPT !.call = rows]
  PROVE  /\ Shaped(e)
         /\ \A c \in Call : SameCall(d, e, c)
         /\ \A x \in Session : SameSpan(d, e, x)
<1>1. e = [call |-> rows, lanes |-> d.lanes, edits |-> d.edits,
           session |-> d.session, held |-> d.held, changes |-> d.changes]
  BY DEF Shaped
<1>2. /\ e.call = rows /\ e.lanes = d.lanes /\ e.edits = d.edits /\ e.session = d.session
      /\ e = [call |-> e.call, lanes |-> e.lanes, edits |-> e.edits,
              session |-> e.session, held |-> e.held, changes |-> e.changes]
  BY <1>1
<1>3. ASSUME NEW c \in Call
      PROVE  /\ e.call[c] = [k \in Column |-> e.call[c][k]]
             /\ ~ Has(e, c) => e.call[c] = NoRow
             /\ \A k \in Column \ {"type", "mode"} : e.call[c][k] = d.call[c][k]
  <2>1. /\ d.call[c] = [k \in Column |-> d.call[c][k]]
        /\ ~ Has(d, c) => d.call[c] = NoRow
    BY DEF Shaped
  <2>2. CASE rows[c] = d.call[c]
    <3>1. e.call[c] = d.call[c] /\ (Has(e, c) <=> Has(d, c))
      BY <1>2, <2>2 DEF Has
    <3> QED BY <2>1, <3>1
  <2>3. ASSUME d.call[c] # NoRow, NEW v, NEW key \in {"type", "mode"},
               rows[c] = [d.call[c] EXCEPT ![key] = v]
        PROVE  /\ e.call[c] = [k \in Column |-> e.call[c][k]]
               /\ ~ Has(e, c) => e.call[c] = NoRow
               /\ \A k \in Column \ {"type", "mode"} : e.call[c][k] = d.call[c][k]
    <3>1. Has(e, c)
      BY <1>2, <2>1, <2>3 DEF Has
    <3>2. e.call[c] = [d.call[c] EXCEPT ![key] = v]
      BY <1>2, <2>3
    <3>3. /\ e.call[c] = [k \in Column |-> e.call[c][k]]
          /\ \A k \in Column \ {"type", "mode"} : e.call[c][k] = d.call[c][k]
      BY <2>1, <3>2
    <3> QED BY <3>1, <3>3
  <2> QED BY <2>2, <2>3
<1>4. Shaped(e)
  BY <1>2, <1>3 DEF Shaped
<1>5. \A c \in Call : SameCall(d, e, c)
  <2>1. \A k \in {"input", "result", "duration", "decision", "success"} :
          k \in Column \ {"type", "mode"}
    BY DEF Column
  <2>2. \A c \in Call :
          \A k \in {"input", "result", "duration", "decision", "success"} :
            e.call[c][k] = d.call[c][k]
    BY <1>3, <2>1
  <2> QED BY <1>2, <2>2 DEF SameCall
<1> QED BY <1>2, <1>4, <1>5 DEF SameSpan

LEMMA RelocateDoes ==
  ASSUME NEW d, Shaped(d), NEW mem, NEW e, e = Relocate(d, mem)
  PROVE  /\ Shaped(e)
         /\ \A c \in Call : SameCall(d, e, c)
         /\ \A x \in Session : SameSpan(d, e, x)
<1> DEFINE moved == [x \in Session |->
                       IF x \in d.held
                       THEN Moved(d.session[x], mem.moved[x])
                       ELSE d.session[x]]
<1>1. e = [call |-> d.call, lanes |-> d.lanes, edits |-> d.edits,
           session |-> moved, held |-> d.held, changes |-> d.changes]
  BY DEF Relocate, Shaped
<1>2. ASSUME NEW x \in Session
      PROVE  /\ moved[x] = [path |-> moved[x].path, first |-> moved[x].first,
                            last |-> moved[x].last]
             /\ moved[x].first = d.session[x].first
             /\ moved[x].last = d.session[x].last
  <2>1. d.session[x] = [path |-> d.session[x].path, first |-> d.session[x].first,
                        last |-> d.session[x].last]
    BY DEF Shaped
  <2>2. CASE x \in d.held
    <3> DEFINE p == Coalesce(mem.moved[x], d.session[x].path)
    <3>1. moved[x] = [d.session[x] EXCEPT !.path = p]
      BY <2>2 DEF Moved
    <3> HIDE DEF p, moved
    <3>2. moved[x] = [path |-> p, first |-> d.session[x].first, last |-> d.session[x].last]
      BY <2>1, <3>1
    <3> QED BY <3>2
  <2>3. CASE x \notin d.held
    <3>1. moved[x] = d.session[x]
      BY <2>3
    <3> HIDE DEF moved
    <3> QED BY <2>1, <3>1
  <2> QED BY <2>2, <2>3
<1>3. moved = [x \in Session |-> moved[x]]
  OBVIOUS
<1> HIDE DEF moved
<1>4. /\ e.call = d.call /\ e.lanes = d.lanes /\ e.edits = d.edits
      /\ e.session = moved
      /\ e = [call |-> e.call, lanes |-> e.lanes, edits |-> e.edits,
              session |-> e.session, held |-> e.held, changes |-> e.changes]
  BY <1>1
<1>5. Shaped(e)
  <2>1. \A x \in Session : d.session[x].first \in Nat \cup {Nil}
                           /\ d.session[x].last \in Nat \cup {Nil}
    BY DEF Shaped
  <2> QED BY <1>2, <1>3, <1>4, <2>1 DEF Shaped, Has
<1> QED BY <1>2, <1>4, <1>5 DEF SameCall, SameSpan

LEMMA NameAgentsDoes ==
  ASSUME NEW d, Shaped(d), NEW mem, NEW e, e = NameAgents(d, mem)
  PROVE  /\ Shaped(e)
         /\ \A c \in Call : SameCall(d, e, c)
         /\ \A x \in Session : SameSpan(d, e, x)
<1>1. PICK known :
        e = [d EXCEPT !.call = [c \in Call |->
               IF (d.call[c].agent # Nil /\ d.call[c].type = Nil) /\ known[c] # {}
               THEN [d.call[c] EXCEPT !.type = CHOOSE t \in known[c] : TRUE]
               ELSE d.call[c]]]
  <2> DEFINE K == [c \in Call |->
                    IF mem.type[d.call[c].agent] # Nil
                    THEN {mem.type[d.call[c].agent]}
                    ELSE {d.call[b].type : b \in
                           {b \in Call : d.call[b].agent = d.call[c].agent}} \ {Nil}]
  <2> WITNESS K
  <2> QED BY DEF NameAgents
<1> DEFINE rows == [c \in Call |->
               IF (d.call[c].agent # Nil /\ d.call[c].type = Nil) /\ known[c] # {}
               THEN [d.call[c] EXCEPT !.type = CHOOSE t \in known[c] : TRUE]
               ELSE d.call[c]]
<1>2. \A c \in Call :
           \/ rows[c] = d.call[c]
           \/ /\ d.call[c] # NoRow
              /\ \E v : \/ rows[c] = [d.call[c] EXCEPT !.type = v]
                       \/ rows[c] = [d.call[c] EXCEPT !.mode = v]
  <2>1. NoRow.agent = Nil
    BY DEF NoRow, Column
  <2> QED BY <2>1
<1>3. rows = [c \in Call |-> rows[c]]
  OBVIOUS
<1> HIDE DEF rows
<1>4. e = [d EXCEPT !.call = rows]
  BY <1>1 DEF rows
<1> QED BY <1>2, <1>3, <1>4, RowsTouched

LEMMA InheritModesDoes ==
  ASSUME NEW d, Shaped(d), NEW e, e = InheritModes(d)
  PROVE  /\ Shaped(e)
         /\ \A c \in Call : SameCall(d, e, c)
         /\ \A x \in Session : SameSpan(d, e, x)
<1> DEFINE gets(c) == (d.call[c].mode = Nil /\ d.call[c].session # Nil)
                      /\ ChangesOf(d, d.call[c].session) # {}
<1> DEFINE before(c) == {i \in ChangesOf(d, d.call[c].session) :
                      /\ d.changes[i].ts # Nil /\ d.call[c].calledAt # Nil
                      /\ d.changes[i].ts <= d.call[c].calledAt}
           first(c) == CHOOSE i \in ChangesOf(d, d.call[c].session) :
                         \A j \in ChangesOf(d, d.call[c].session) : i <= j
           latest(c) == IF before(c) = {} THEN Nil
                        ELSE d.changes[LatestOf(d.changes, before(c))].to
           mode == [c \in Call |-> Coalesce(latest(c), d.changes[first(c)].to)]
<1>1. e = [d EXCEPT !.call = [c \in Call |->
             IF gets(c) THEN [d.call[c] EXCEPT !.mode = mode[c]] ELSE d.call[c]]]
  <2> DEFINE told(c) == Coalesce(latest(c), d.changes[first(c)].to)
  <2>1. e = [d EXCEPT !.call = [c \in Call |->
               IF gets(c) THEN [d.call[c] EXCEPT !.mode = told(c)] ELSE d.call[c]]]
    BY DEF InheritModes
  <2>2. \A c \in Call : mode[c] = told(c)
    OBVIOUS
  <2> HIDE DEF mode, told, gets
  <2>3. [c \in Call |-> IF gets(c) THEN [d.call[c] EXCEPT !.mode = mode[c]] ELSE d.call[c]]
          = [c \in Call |-> IF gets(c) THEN [d.call[c] EXCEPT !.mode = told(c)] ELSE d.call[c]]
    BY <2>2
  <2> QED BY <2>1, <2>3, Zenon
<1> HIDE DEF mode
<1> DEFINE rows == [c \in Call |->
               IF gets(c) THEN [d.call[c] EXCEPT !.mode = mode[c]] ELSE d.call[c]]
<1>2. \A c \in Call :
           \/ rows[c] = d.call[c]
           \/ /\ d.call[c] # NoRow
              /\ \E v : \/ rows[c] = [d.call[c] EXCEPT !.type = v]
                       \/ rows[c] = [d.call[c] EXCEPT !.mode = v]
  <2>1. NoRow.session = Nil
    BY DEF NoRow, Column
  <2> QED BY <2>1
<1>3. rows = [c \in Call |-> rows[c]]
  OBVIOUS
<1> HIDE DEF rows
<1>4. e = [d EXCEPT !.call = rows]
  BY <1>1 DEF rows
<1> QED BY <1>2, <1>3, <1>4, RowsTouched

LEMMA FinishDoes ==
  ASSUME NEW d, Shaped(d), NEW mem
  PROVE  /\ Shaped(Finish(d, mem))
         /\ \A c \in Call : SameCall(d, Finish(d, mem), c)
         /\ \A x \in Session : SameSpan(d, Finish(d, mem), x)
<1> DEFINE a == Relocate(d, mem)
           b == NameAgents(a, mem)
           e == InheritModes(b)
<1>1. Finish(d, mem) = e
  BY DEF Finish
<1> HIDE DEF a, b, e
<1>2. /\ Shaped(a)
      /\ \A c \in Call : SameCall(d, a, c)
      /\ \A x \in Session : SameSpan(d, a, x)
  BY RelocateDoes DEF a
<1>3. /\ Shaped(b)
      /\ \A c \in Call : SameCall(a, b, c)
      /\ \A x \in Session : SameSpan(a, b, x)
  BY <1>2, NameAgentsDoes DEF b
<1>4. /\ Shaped(e)
      /\ \A c \in Call : SameCall(b, e, c)
      /\ \A x \in Session : SameSpan(b, e, x)
  BY <1>3, InheritModesDoes DEF e
<1> QED BY <1>1, <1>2, <1>3, <1>4 DEF SameCall, SameSpan

-----------------------------------------------------------------------------
(* What the tables say of a set of records.                                *)

WitnessedBy(d, R) ==
  \A c \in Call, l \in Lane :
    l \in d.lanes[c] <=> \E q \in R : q.call = c /\ q.lane = l

Shown(d, R) == \A q \in R : q.call # Nil => Says(d.call[q.call], q)

Spanned(d, R) ==
  \A x \in Session :
    LET first == d.session[x].first
        last == d.session[x].last
    IN /\ \A q \in R : q.session = x /\ q.ts # Nil =>
            /\ first # Nil /\ first <= q.ts
            /\ last # Nil /\ q.ts <= last
       /\ first # Nil => \E q \in R : q.session = x /\ q.ts = first
       /\ last # Nil => \E q \in R : q.session = x /\ q.ts = last

Faithful(d, R) == WitnessedBy(d, R) /\ Shown(d, R) /\ Spanned(d, R)

\* Records that are as Claude Code writes them.
Coherent(R) == /\ \A r \in R : WellFormed(r)
               /\ \A r, q \in R : OneStory(r, q)

\* Tables with nothing in them are faithful to no record.
LEMMA NoRowsFaithful == Faithful(NoRows, {})
<1>1. /\ NoRows.lanes = [c \in Call |-> {}]
      /\ NoRows.session = [s \in Session |-> NoSpan]
  BY DEF NoRows
<1>2. NoSpan.first = Nil /\ NoSpan.last = Nil
  BY DEF NoSpan
<1> QED BY <1>1, <1>2 DEF Faithful, WitnessedBy, Shown, Spanned

\* The tables are faithful to a record more when it has had its effect ...
LEMMA WitnessedToo ==
  ASSUME NEW d, Shaped(d), NEW R, NEW r, WellFormed(r), NEW e, Effect(d, e, r),
         WitnessedBy(d, R)
  PROVE  WitnessedBy(e, R \cup {r})
<1> SUFFICES ASSUME NEW c \in Call, NEW l \in Lane
             PROVE  l \in e.lanes[c] <=> \E q \in R \cup {r} : q.call = c /\ q.lane = l
  BY DEF WitnessedBy
<1>1. l \in d.lanes[c] <=> \E q \in R : q.call = c /\ q.lane = l
  BY DEF WitnessedBy
<1>2. CASE c = r.call
  <2>1. e.lanes[c] = d.lanes[c] \cup {r.lane}
    BY <1>2 DEF Effect
  <2> QED BY <1>1, <1>2, <2>1
<1>3. CASE c # r.call
  <2>1. e.lanes[c] = d.lanes[c]
    BY <1>3 DEF Effect, SameCall
  <2> QED BY <1>1, <1>3, <2>1
<1> QED BY <1>2, <1>3

LEMMA ShownToo ==
  ASSUME NEW d, Shaped(d), NEW R, NEW r, Coherent(R \cup {r}), NEW e, Effect(d, e, r),
         Shown(d, R)
  PROVE  Shown(e, R \cup {r})
<1> SUFFICES ASSUME NEW q \in R \cup {r}, q.call # Nil
             PROVE  Says(e.call[q.call], q)
  BY DEF Shown
<1>1. WellFormed(q) /\ WellFormed(r) /\ OneStory(q, r) /\ OneStory(r, q)
  BY DEF Coherent
<1>2. q.call \in Call
  BY <1>1 DEF WellFormed
<1>3. q # r => Says(d.call[q.call], q)
  BY DEF Shown
<1>4. CASE q.call # r.call
  <2>1. SameCall(d, e, q.call)
    BY <1>2, <1>4 DEF Effect
  <2>2. Says(d.call[q.call], q)
    BY <1>3, <1>4
  <2> QED BY <2>1, <2>2 DEF Says, SameCall
<1>5. CASE q.call = r.call
  <2> DEFINE old == d.call[r.call]
             new == e.call[r.call]
  <2>1. /\ new.input = old.input \/ old.input = Nil \/ r.kind = "use"
        /\ r.kind = "use" => new.input = "full"
        /\ new.result = IF r.kind = "result" /\ r.lane = "transcript"
                        THEN "body" ELSE old.result
        /\ new.duration = IF r.kind = "result" /\ r.lane = "otlp"
                          THEN Coalesce(r.duration, old.duration)
                          ELSE old.duration
        /\ new.decision = IF r.kind = "result" /\ r.lane = "otlp" THEN "accept"
                          ELSE IF r.kind = "decision"
                          THEN Coalesce(r.decision, old.decision)
                          ELSE old.decision
        /\ new.success = IF r.kind = "result"
                         THEN Coalesce(r.success, old.success)
                         ELSE IF r.kind = "decision" /\ r.decision = "reject"
                         THEN FALSE ELSE old.success
    BY <1>2, <1>5 DEF Effect
  <2>2. q # r => Says(old, q)
    BY <1>3, <1>5
  <2> HIDE DEF old, new
  <2>3. q.kind \in {"use", "result", "decision"} /\ q.lane \in {"transcript", "otlp"}
    BY <1>1 DEF WellFormed, Lane
  <2>4. CASE q.kind = "use"
    <3>1. q = r => new.input = "full"
      BY <2>1, <2>4
    <3>2. q # r => new.input = "full"
      <4>1. q # r => old.input = "full"
        BY <2>2, <2>4 DEF Says
      <4> QED BY <2>1, <4>1, NilAssumption
    <3> QED BY <1>5, <2>4, <3>1, <3>2 DEF Says, new
  <2>5. CASE q.kind = "result" /\ q.lane = "transcript"
    <3>1. q # r => old.result = "body"
      BY <2>2, <2>5 DEF Says
    <3>2. new.result = "body"
      BY <2>1, <2>5, <3>1
    <3> QED BY <1>5, <2>5, <3>2 DEF Says, new
  <2>6. CASE q.kind = "result" /\ q.lane = "otlp"
    <3> SUFFICES ASSUME q.duration # Nil PROVE new.duration = q.duration
      BY <1>5, <2>6 DEF Says, new
    <3>1. q # r => old.duration = q.duration
      BY <2>2, <2>6 DEF Says
    <3>2. r.kind = "result" /\ r.lane = "otlp" => r.duration = Nil \/ r.duration = q.duration
      BY <1>1, <1>5, <2>6 DEF OneStory
    <3> QED BY <2>1, <2>6, <3>1, <3>2 DEF Coalesce
  <2>7. CASE q.kind = "decision"
    <3>1. q # r => /\ q.decision # Nil => old.decision = q.decision
                   /\ q.decision = "reject" => old.success = FALSE
      BY <2>2, <2>7 DEF Says
    <3>2. r.kind = "decision" => Nil \in {r.decision, q.decision} \/ r.decision = q.decision
      BY <1>1, <1>5, <2>7 DEF OneStory
    <3>3. r.kind = "result" /\ r.lane = "otlp" => q.decision \in {Nil, "accept"}
      BY <1>1, <1>5, <2>7 DEF OneStory
    <3>4. r.kind = "result" /\ q.decision = "reject" => r.success \in {Nil, FALSE}
      BY <1>1, <1>5, <2>7 DEF OneStory
    <3>5. r.kind = "decision" => r.lane = "otlp"
      BY <1>1 DEF WellFormed
    <3>6. q.decision # Nil => new.decision = q.decision
      BY <2>1, <2>7, <3>1, <3>2, <3>3, <3>5 DEF Coalesce
    <3>7. q.decision = "reject" => new.success = FALSE
      <4> SUFFICES ASSUME q.decision = "reject" PROVE new.success = FALSE
        OBVIOUS
      <4>1. CASE r.kind = "result"
        <5>1. q # r /\ old.success = FALSE
          BY <2>7, <3>1, <4>1
        <5>2. new.success = Coalesce(r.success, old.success)
          BY <2>1, <4>1
        <5>3. CASE r.success = Nil
          BY <5>1, <5>2, <5>3, Zenon DEF Coalesce
        <5>4. CASE r.success = FALSE /\ r.success # Nil
          BY <5>2, <5>4, Zenon DEF Coalesce
        <5> QED BY <3>4, <4>1, <5>3, <5>4
      <4>2. CASE r.kind = "decision" /\ r.decision = "reject"
        BY <2>1, <4>2, Zenon
      <4>3. CASE r.kind # "result" /\ ~ (r.kind = "decision" /\ r.decision = "reject")
        <5>1. q # r
          BY <2>7, <4>3
        <5>2. new.success = old.success
          BY <2>1, <4>3, Zenon
        <5> QED BY <3>1, <5>1, <5>2, Zenon
      <4> QED BY <4>1, <4>2, <4>3, Zenon
    <3> QED BY <1>5, <2>7, <3>6, <3>7 DEF Says, new
  <2> QED BY <2>3, <2>4, <2>5, <2>6, <2>7
<1> QED BY <1>4, <1>5

LEMMA SpannedToo ==
  ASSUME NEW d, Shaped(d), NEW R, NEW r, Coherent(R \cup {r}), NEW e, Effect(d, e, r),
         Spanned(d, R)
  PROVE  Spanned(e, R \cup {r})
<1> SUFFICES ASSUME NEW x \in Session
             PROVE  LET first == e.session[x].first
                        last == e.session[x].last
                    IN /\ \A q \in R \cup {r} : q.session = x /\ q.ts # Nil =>
                            /\ first # Nil /\ first <= q.ts
                            /\ last # Nil /\ q.ts <= last
                       /\ first # Nil => \E q \in R \cup {r} : q.session = x /\ q.ts = first
                       /\ last # Nil => \E q \in R \cup {r} : q.session = x /\ q.ts = last
  BY DEF Spanned
<1> DEFINE f == d.session[x].first
           l == d.session[x].last
           first == e.session[x].first
           last == e.session[x].last
<1>1. /\ \A q \in R : q.session = x /\ q.ts # Nil =>
            /\ f # Nil /\ f <= q.ts
            /\ l # Nil /\ q.ts <= l
      /\ f # Nil => \E q \in R : q.session = x /\ q.ts = f
      /\ l # Nil => \E q \in R : q.session = x /\ q.ts = l
  BY DEF Spanned
<1>2. f \in Nat \cup {Nil} /\ l \in Nat \cup {Nil}
  BY DEF Shaped
<1>3. \A q \in R \cup {r} : q.ts = Nil \/ q.ts \in Nat
  BY DEF Coherent, WellFormed
<1>4. CASE x # r.session
  <2>1. first = f /\ last = l
    BY <1>4 DEF Effect, SameSpan
  <2> HIDE DEF f, l, first, last
  <2> QED BY <1>1, <1>4, <2>1 DEF first, last
<1>5. CASE x = r.session
  <2>1. first = Least(f, r.ts) /\ last = Greatest(l, r.ts)
    BY <1>5 DEF Effect
  <2>2. Nil \notin Nat
    BY NilAssumption
  <2> HIDE DEF f, l, first, last
  <2>3. CASE r.ts = Nil
    <3>1. first = f /\ last = l
      BY <1>2, <2>1, <2>3 DEF Least, Greatest
    <3> QED BY <1>1, <2>3, <3>1 DEF first, last
  <2>4. CASE r.ts # Nil
    <3>1. r.ts \in Nat
      BY <1>3, <2>4
    <3>2. /\ first \in Nat /\ first <= r.ts /\ first \in {f, r.ts} /\ (f # Nil => first <= f)
          /\ last \in Nat /\ r.ts <= last /\ last \in {l, r.ts} /\ (l # Nil => l <= last)
      BY <1>2, <2>1, <2>2, <2>4, <3>1 DEF Least, Greatest
    <3>3. ASSUME NEW q \in R, q.session = x, q.ts # Nil
          PROVE  first <= q.ts /\ q.ts <= last
      <4>1. f \in Nat /\ l \in Nat /\ q.ts \in Nat /\ f <= q.ts /\ q.ts <= l
        BY <1>1, <1>2, <1>3, <3>3
      <4> QED BY <2>2, <3>2, <4>1
    <3>4. \E q \in R \cup {r} : q.session = x /\ q.ts = first
      <4>1. CASE first = r.ts
        BY <1>5, <4>1
      <4>2. CASE first # r.ts
        <5>1. first = f /\ f # Nil
          BY <2>2, <3>2, <4>2
        <5> QED BY <1>1, <5>1
      <4> QED BY <4>1, <4>2
    <3>5. \E q \in R \cup {r} : q.session = x /\ q.ts = last
      <4>1. CASE last = r.ts
        BY <1>5, <4>1
      <4>2. CASE last # r.ts
        <5>1. last = l /\ l # Nil
          BY <2>2, <3>2, <4>2
        <5> QED BY <1>1, <5>1
      <4> QED BY <4>1, <4>2
    <3>6. first # Nil /\ last # Nil
      BY <2>2, <3>2
    <3> QED BY <3>2, <3>3, <3>4, <3>5, <3>6 DEF first, last
  <2> QED BY <2>3, <2>4
<1> QED BY <1>4, <1>5

LEMMA FaithfulToo ==
  ASSUME NEW d, Shaped(d), NEW R, NEW r, Coherent(R \cup {r}), NEW e, Effect(d, e, r),
         Faithful(d, R)
  PROVE  Faithful(e, R \cup {r})
<1>1. WellFormed(r)
  BY DEF Coherent
<1> QED BY <1>1, WitnessedToo, ShownToo, SpannedToo DEF Faithful

\* ... and stay so when what needs the whole stream is done.
LEMMA FaithfulStill ==
  ASSUME NEW d, Shaped(d), NEW R, Coherent(R), Faithful(d, R), NEW e,
         \A c \in Call : SameCall(d, e, c), \A x \in Session : SameSpan(d, e, x)
  PROVE  Faithful(e, R)
<1>1. WitnessedBy(e, R)
  BY DEF Faithful, WitnessedBy, SameCall
<1>2. Shown(e, R)
  <2> SUFFICES ASSUME NEW q \in R, q.call # Nil
               PROVE  Says(e.call[q.call], q)
    BY DEF Shown
  <2>1. q.call \in Call
    BY DEF Coherent, WellFormed
  <2>2. Says(d.call[q.call], q)
    BY DEF Faithful, Shown
  <2> QED BY <2>1, <2>2 DEF Says, SameCall
<1>3. Spanned(e, R)
  BY DEF Faithful, Spanned, SameSpan
<1> QED BY <1>1, <1>2, <1>3 DEF Faithful

-----------------------------------------------------------------------------
(* Records one after another.                                              *)

\* What a replay goes through is a function: it begins with the state it is
\* given, and each state after is the projection of the one before.
LEMMA TranscriptReplayed ==
  ASSUME NEW s, NEW rs, Len(rs) \in Nat
  PROVE  \E after : /\ after[0] = s
                    /\ \A n \in 1..Len(rs) : after[n] = ProjectTranscript(after[n - 1], rs[n])
                    /\ ReplayTranscript(s, rs) = after[Len(rs)]
<1> DEFINE N == Len(rs)
           Runs(f, n) == f = [m \in 0..n |-> IF m = 0 THEN s
                                             ELSE ProjectTranscript(f[m - 1], rs[m])]
           S == {n \in 0..N : \E f : Runs(f, n)}
<1> HIDE DEF N
<1>0. N \in Nat
  BY DEF N
<1>1. 0 \in S
  <2>1. Runs([m \in 0..0 |-> s], 0)
    OBVIOUS
  <2>2. 0 \in 0..N
    BY <1>0
  <2> HIDE DEF Runs
  <2> QED BY <2>1, <2>2
<1>2. ASSUME NEW n \in 0..(N - 1), n \in S PROVE n + 1 \in S
  <2>1. PICK f : Runs(f, n)
    BY <1>2
  <2> DEFINE g == [m \in 0..(n + 1) |-> IF m = n + 1 THEN ProjectTranscript(f[n], rs[n + 1])
                                         ELSE f[m]]
  <2>2. \A m \in 0..n : g[m] = f[m]
    OBVIOUS
  <2>3. g[n + 1] = ProjectTranscript(g[n], rs[n + 1])
    BY <2>2
  <2>4. \A m \in 0..(n + 1) : g[m] = IF m = 0 THEN s ELSE ProjectTranscript(g[m - 1], rs[m])
    <3> SUFFICES ASSUME NEW m \in 0..(n + 1)
                 PROVE  g[m] = IF m = 0 THEN s ELSE ProjectTranscript(g[m - 1], rs[m])
      OBVIOUS
    <3> HIDE DEF g
    <3>1. CASE m = n + 1
      BY <2>3, <3>1
    <3>2. CASE m \in 0..n
      <4>1. f[m] = IF m = 0 THEN s ELSE ProjectTranscript(f[m - 1], rs[m])
        BY <2>1, <3>2
      <4> QED BY <2>2, <3>2, <4>1
    <3> QED BY <3>1, <3>2
  <2>5. g = [m \in 0..(n + 1) |-> g[m]]
    OBVIOUS
  <2> HIDE DEF g
  <2>6. Runs(g, n + 1)
    BY <2>4, <2>5
  <2> QED BY <1>0, <2>6
<1>3. \E f : Runs(f, N)
  <2> HIDE DEF S
  <2>0. \A n \in 0..(N - 1) : n \in S => n + 1 \in S
    BY <1>2
  <2>1. \A n \in 0..N : n \in S
    BY <1>0, <1>1, <2>0, Throughout
  <2>2. N \in S
    BY <1>0, <2>1
  <2> QED BY <2>2 DEF S
<1> DEFINE after == CHOOSE f : Runs(f, N)
<1>4. Runs(after, N)
  BY <1>3
<1>5. ReplayTranscript(s, rs) = after[N]
  BY DEF ReplayTranscript, N
<1> HIDE DEF after
<1>6. after[0] = s /\ \A n \in 1..N : after[n] = ProjectTranscript(after[n - 1], rs[n])
  BY <1>0, <1>4
<1> QED BY <1>5, <1>6 DEF N

\* The same of a replay through both projectors.
LEMMA BothReplayed ==
  ASSUME NEW s, NEW rs, Len(rs) \in Nat
  PROVE  \E after : /\ after[0] = s
                    /\ \A n \in 1..Len(rs) : after[n] = ProjectBoth(after[n - 1], rs[n])
                    /\ ReplayBoth(s, rs) = after[Len(rs)]
<1> DEFINE N == Len(rs)
           Runs(f, n) == f = [m \in 0..n |-> IF m = 0 THEN s
                                             ELSE ProjectBoth(f[m - 1], rs[m])]
           S == {n \in 0..N : \E f : Runs(f, n)}
<1> HIDE DEF N
<1>0. N \in Nat
  BY DEF N
<1>1. 0 \in S
  <2>1. Runs([m \in 0..0 |-> s], 0)
    OBVIOUS
  <2>2. 0 \in 0..N
    BY <1>0
  <2> HIDE DEF Runs
  <2> QED BY <2>1, <2>2
<1>2. ASSUME NEW n \in 0..(N - 1), n \in S PROVE n + 1 \in S
  <2>1. PICK f : Runs(f, n)
    BY <1>2
  <2> DEFINE g == [m \in 0..(n + 1) |-> IF m = n + 1 THEN ProjectBoth(f[n], rs[n + 1])
                                         ELSE f[m]]
  <2>2. \A m \in 0..n : g[m] = f[m]
    OBVIOUS
  <2>3. g[n + 1] = ProjectBoth(g[n], rs[n + 1])
    BY <2>2
  <2>4. \A m \in 0..(n + 1) : g[m] = IF m = 0 THEN s ELSE ProjectBoth(g[m - 1], rs[m])
    <3> SUFFICES ASSUME NEW m \in 0..(n + 1)
                 PROVE  g[m] = IF m = 0 THEN s ELSE ProjectBoth(g[m - 1], rs[m])
      OBVIOUS
    <3> HIDE DEF g
    <3>1. CASE m = n + 1
      BY <2>3, <3>1
    <3>2. CASE m \in 0..n
      <4>1. f[m] = IF m = 0 THEN s ELSE ProjectBoth(f[m - 1], rs[m])
        BY <2>1, <3>2
      <4> QED BY <2>2, <3>2, <4>1
    <3> QED BY <3>1, <3>2
  <2>5. g = [m \in 0..(n + 1) |-> g[m]]
    OBVIOUS
  <2> HIDE DEF g
  <2>6. Runs(g, n + 1)
    BY <2>4, <2>5
  <2> QED BY <1>0, <2>6
<1>3. \E f : Runs(f, N)
  <2> HIDE DEF S
  <2>0. \A n \in 0..(N - 1) : n \in S => n + 1 \in S
    BY <1>2
  <2>1. \A n \in 0..N : n \in S
    BY <1>0, <1>1, <2>0, Throughout
  <2>2. N \in S
    BY <1>0, <2>1
  <2> QED BY <2>2 DEF S
<1> DEFINE after == CHOOSE f : Runs(f, N)
<1>4. Runs(after, N)
  BY <1>3
<1>5. ReplayBoth(s, rs) = after[N]
  BY DEF ReplayBoth, N
<1> HIDE DEF after
<1>6. after[0] = s /\ \A n \in 1..N : after[n] = ProjectBoth(after[n - 1], rs[n])
  BY <1>0, <1>4
<1> QED BY <1>5, <1>6 DEF N

-----------------------------------------------------------------------------
(* Records projected one after another.                                     *)

\* The records of rs numbered K up to n, with those of R before them; and the
\* ids from b on of those among them that report a change of a file by c.
SaidBy(R, rs, K, n) == R \cup {rs[k] : k \in {k \in K : k <= n}}
Changes(rs, K, b, n, c) == {i \in b + 1 .. b + n : i - b \in K /\ Edits(rs[i - b], c)}

LEMMA SaidFirst ==
  ASSUME NEW N \in Nat, NEW K \in SUBSET (1..N), NEW R, NEW rs
  PROVE  SaidBy(R, rs, K, 0) = R
<1>1. \A k \in K : k \in 1..N
  OBVIOUS
<1>2. \A k \in K : ~ (k <= 0)
  BY <1>1
<1>3. \A q : q \in SaidBy(R, rs, K, 0) <=> q \in R
  BY <1>2, Zenon DEF SaidBy
<1> QED BY <1>3

LEMMA SaidNext ==
  ASSUME NEW N \in Nat, NEW K \in SUBSET (1..N), NEW R, NEW rs, NEW n \in 0..(N - 1)
  PROVE  \A q : q \in SaidBy(R, rs, K, n + 1)
                  <=> q \in SaidBy(R, rs, K, n) \/ (n + 1 \in K /\ q = rs[n + 1])
<1>1. (\A k \in K : k <= n + 1 <=> k <= n \/ k = n + 1) /\ n + 1 <= n + 1
  OBVIOUS
<1> SUFFICES ASSUME NEW q
             PROVE  q \in R \/ (\E k \in K : k <= n + 1 /\ q = rs[k])
                      <=> \/ q \in R \/ (\E k \in K : k <= n /\ q = rs[k])
                          \/ n + 1 \in K /\ q = rs[n + 1]
  BY Zenon DEF SaidBy
<1> QED BY <1>1, Zenon

LEMMA SaidLast ==
  ASSUME NEW N \in Nat, NEW K \in SUBSET (1..N), NEW R, NEW rs
  PROVE  SaidBy(R, rs, K, N) = R \cup {rs[k] : k \in K}
<1>1. \A k \in K : k \in 1..N
  OBVIOUS
<1>2. \A k \in K : k <= N
  BY <1>1
<1>3. \A q : q \in SaidBy(R, rs, K, N) <=> q \in R \cup {rs[k] : k \in K}
  BY <1>2, Zenon DEF SaidBy
<1> QED BY <1>3

LEMMA ChangesAre ==
  ASSUME NEW N \in Nat, NEW K \in SUBSET (1..N), NEW rs, NEW b \in Nat, NEW c, NEW n \in 0..N
  PROVE  IsFiniteSet(Changes(rs, K, b, n, c)) /\ Cardinality(Changes(rs, K, b, n, c)) \in Nat
<1>1. b + 1 \in Int /\ b + n \in Int
  OBVIOUS
<1>2. IsFiniteSet(b + 1 .. b + n)
  BY <1>1, FS_Interval
<1>3. Changes(rs, K, b, n, c) \in SUBSET (b + 1 .. b + n)
  BY DEF Changes
<1> QED BY <1>2, <1>3, FS_Subset, FS_CardinalityType

LEMMA ChangesFirst ==
  ASSUME NEW rs, NEW K, NEW b \in Nat, NEW c
  PROVE  Cardinality(Changes(rs, K, b, 0, c)) = 0
<1>1. b + 1 .. b + 0 = {}
  OBVIOUS
<1>2. Changes(rs, K, b, 0, c) = {}
  BY <1>1 DEF Changes
<1> QED BY <1>2, FS_EmptySet

LEMMA ChangesNext ==
  ASSUME NEW N \in Nat, NEW K \in SUBSET (1..N), NEW rs, NEW b \in Nat, NEW c, NEW n \in 0..(N - 1)
  PROVE  Cardinality(Changes(rs, K, b, n + 1, c))
           = Cardinality(Changes(rs, K, b, n, c))
               + (IF n + 1 \in K /\ Edits(rs[n + 1], c) THEN 1 ELSE 0)
<1> DEFINE i0 == b + (n + 1)
<1>1. /\ i0 \notin b + 1 .. b + n /\ i0 - b = n + 1 /\ n \in 0..N
      /\ \A i : i \in b + 1 .. b + (n + 1) <=> i \in b + 1 .. b + n \/ i = i0
  OBVIOUS
<1> HIDE DEF i0
<1>2. IsFiniteSet(Changes(rs, K, b, n, c)) /\ Cardinality(Changes(rs, K, b, n, c)) \in Nat
  BY <1>1, ChangesAre
<1>3. i0 \notin Changes(rs, K, b, n, c)
  BY <1>1, Zenon DEF Changes
<1>4. CASE n + 1 \in K /\ Edits(rs[n + 1], c)
  <2>1. \A i : i \in Changes(rs, K, b, n + 1, c) <=> i \in Changes(rs, K, b, n, c) \/ i = i0
    BY <1>1, <1>4, Zenon DEF Changes
  <2>2. Changes(rs, K, b, n + 1, c) = Changes(rs, K, b, n, c) \cup {i0}
    BY <2>1
  <2>3. Cardinality(Changes(rs, K, b, n, c) \cup {i0}) = Cardinality(Changes(rs, K, b, n, c)) + 1
    BY <1>2, <1>3, FS_AddElement, Zenon
  <2> QED BY <1>4, <2>2, <2>3, Zenon
<1>5. CASE ~ (n + 1 \in K /\ Edits(rs[n + 1], c))
  <2>1. \A i : i \in Changes(rs, K, b, n + 1, c) <=> i \in Changes(rs, K, b, n, c)
    BY <1>1, <1>5, Zenon DEF Changes
  <2>2. Changes(rs, K, b, n + 1, c) = Changes(rs, K, b, n, c)
    BY <2>1
  <2>3. Cardinality(Changes(rs, K, b, n + 1, c)) = Cardinality(Changes(rs, K, b, n, c))
    BY <2>2, Zenon
  <2> QED BY <1>2, <1>5, <2>3
<1> QED BY <1>4, <1>5

\* A run of states that takes the records of rs numbered K, one at a time.
Takes(after, rs, K, N) ==
  \A k \in 1..N : Shaped(after[k - 1].db) =>
    IF k \in K THEN Effect(after[k - 1].db, after[k].db, rs[k])
    ELSE after[k] = after[k - 1]

\* In the tables e stand, besides what stands in d, the records of rs in K, and
\* a change of a file for each of them that reports one.
Adds(d, e, R, rs, K, b, N) ==
  /\ Shaped(e)
  /\ Faithful(e, SaidBy(R, rs, K, N))
  /\ \A c \in Call : e.edits[c] = d.edits[c] + Cardinality(Changes(rs, K, b, N, c))

\* Of records projected one after another, those in K, the tables come to say
\* what they said before and what those records say; and every change of a file
\* among them has been recorded, once more if it had been before. Ids are the
\* numbers from b on.
LEMMA Replaying ==
  ASSUME NEW N \in Nat, NEW after, NEW rs, NEW b \in Nat, NEW K \in SUBSET (1..N),
         NEW R, Coherent(SaidBy(R, rs, K, N)),
         Shaped(after[0].db), Faithful(after[0].db, R),
         Takes(after, rs, K, N)
  PROVE  Adds(after[0].db, after[N].db, R, rs, K, b, N)
<1> DEFINE Holds(n) == /\ Shaped(after[n].db)
                       /\ Faithful(after[n].db, SaidBy(R, rs, K, n))
                       /\ \A c \in Call :
                            after[n].db.edits[c]
                              = after[0].db.edits[c] + Cardinality(Changes(rs, K, b, n, c))
           S == {n \in 0..N : Holds(n)}
<1>2. 0 \in S
  <2>1. ASSUME NEW c \in Call
        PROVE  after[0].db.edits[c] = after[0].db.edits[c] + Cardinality(Changes(rs, K, b, 0, c))
    <3>1. Cardinality(Changes(rs, K, b, 0, c)) = 0
      BY ChangesFirst
    <3>2. after[0].db.edits[c] \in Nat
      BY DEF Shaped
    <3> QED BY <3>1, <3>2
  <2>2. Faithful(after[0].db, SaidBy(R, rs, K, 0))
    BY SaidFirst, Zenon
  <2>3. Holds(0)
    BY <2>1, <2>2
  <2>4. 0 \in 0..N
    OBVIOUS
  <2> HIDE DEF Holds
  <2> QED BY <2>3, <2>4
<1>3. ASSUME NEW n \in 0..(N - 1), n \in S
      PROVE  n + 1 \in S
  <2>0. n + 1 \in 1..N /\ n + 1 \in 0..N /\ (n + 1) - 1 = n /\ n \in 0..N
    OBVIOUS
  <2>1. Holds(n)
    <3> HIDE DEF Holds
    <3> QED BY <1>3
  <2>2. IF n + 1 \in K THEN Effect(after[n].db, after[n + 1].db, rs[n + 1])
        ELSE after[n + 1] = after[n]
    <3>1. Shaped(after[n].db)
      BY <2>1
    <3> HIDE DEF S, Holds
    <3> QED BY <2>0, <3>1 DEF Takes
  <2>3. \A q : q \in SaidBy(R, rs, K, n + 1)
                 <=> q \in SaidBy(R, rs, K, n) \/ (n + 1 \in K /\ q = rs[n + 1])
    <3> HIDE DEF S, Holds
    <3> QED BY SaidNext
  <2>4. Shaped(after[n + 1].db) /\ Faithful(after[n + 1].db, SaidBy(R, rs, K, n + 1))
    <3>1. CASE n + 1 \in K
      <4>1. SaidBy(R, rs, K, n) \cup {rs[n + 1]} \subseteq SaidBy(R, rs, K, N)
        <5>1. \A k \in K : k <= n => k <= N
          BY <2>0
        <5>2. n + 1 <= N
          BY <2>0
        <5> QED BY <3>1, <5>1, <5>2 DEF SaidBy
      <4>2. Coherent(SaidBy(R, rs, K, n) \cup {rs[n + 1]})
        BY <4>1 DEF Coherent
      <4>3. Effect(after[n].db, after[n + 1].db, rs[n + 1])
        BY <2>2, <3>1, Zenon
      <4>4. Shaped(after[n + 1].db)
        BY <4>3 DEF Effect
      <4>5. Shaped(after[n].db) /\ Faithful(after[n].db, SaidBy(R, rs, K, n))
        BY <2>1, Zenon
      <4>6. Faithful(after[n + 1].db, SaidBy(R, rs, K, n) \cup {rs[n + 1]})
        BY <4>2, <4>3, <4>5, FaithfulToo, Zenon
      <4>7. SaidBy(R, rs, K, n + 1) = SaidBy(R, rs, K, n) \cup {rs[n + 1]}
        BY <2>3, <3>1
      <4> QED BY <4>4, <4>6, <4>7, Zenon
    <3>2. CASE n + 1 \notin K
      <4>1. SaidBy(R, rs, K, n + 1) = SaidBy(R, rs, K, n)
        BY <2>3, <3>2
      <4> QED BY <2>1, <2>2, <3>2, <4>1, Zenon
    <3> QED BY <3>1, <3>2
  <2>5. ASSUME NEW c \in Call
        PROVE  after[n + 1].db.edits[c]
                 = after[0].db.edits[c] + Cardinality(Changes(rs, K, b, n + 1, c))
    <3>1. after[0].db.edits[c] \in Nat /\ after[n].db.edits[c] \in Nat
      BY <2>1 DEF Shaped
    <3>2. after[n].db.edits[c] = after[0].db.edits[c] + Cardinality(Changes(rs, K, b, n, c))
      BY <2>1, Zenon
    <3>3. Cardinality(Changes(rs, K, b, n, c)) \in Nat
      BY <2>0, ChangesAre
    <3>4. Cardinality(Changes(rs, K, b, n + 1, c))
            = Cardinality(Changes(rs, K, b, n, c))
                + (IF n + 1 \in K /\ Edits(rs[n + 1], c) THEN 1 ELSE 0)
      BY ChangesNext
    <3>5. after[n + 1].db.edits[c]
            = after[n].db.edits[c] + (IF n + 1 \in K /\ Edits(rs[n + 1], c) THEN 1 ELSE 0)
      <4>1. CASE n + 1 \notin K
        BY <2>2, <3>1, <4>1
      <4>2. CASE n + 1 \in K
        <5>1. Effect(after[n].db, after[n + 1].db, rs[n + 1])
          BY <2>2, <4>2, Zenon
        <5>2. CASE rs[n + 1].call = c
          <6>1. after[n + 1].db.edits[c]
                  = after[n].db.edits[c] + (IF Edits(rs[n + 1], c) THEN 1 ELSE 0)
            BY <5>1, <5>2 DEF Effect
          <6> QED BY <4>2, <6>1, Zenon
        <5>3. CASE rs[n + 1].call # c
          <6>1. after[n + 1].db.edits[c] = after[n].db.edits[c]
            BY <5>1, <5>3 DEF Effect, SameCall
          <6>2. ~ Edits(rs[n + 1], c)
            BY <5>3 DEF Edits
          <6> QED BY <3>1, <6>1, <6>2
        <5> QED BY <5>2, <5>3
      <4> QED BY <4>1, <4>2
    <3> HIDE DEF S, Holds
    <3> QED BY <3>1, <3>2, <3>3, <3>4, <3>5
  <2>6. Holds(n + 1)
    BY <2>4, <2>5
  <2> HIDE DEF Holds
  <2> QED BY <2>0, <2>6
<1>4. Holds(N)
  <2> HIDE DEF S
  <2>0. \A n \in 0..(N - 1) : n \in S => n + 1 \in S
    BY <1>3
  <2>1. \A n \in 0..N : n \in S
    BY <1>2, <2>0, Throughout
  <2>2. N \in 0..N
    OBVIOUS
  <2>3. N \in S
    BY <2>1, <2>2, Zenon
  <2> HIDE DEF Holds
  <2> QED BY <2>3 DEF S
<1> QED BY <1>4, Zenon DEF Adds

TranscriptsAre(K, rs, N) == \A k \in 1..N : k \in K <=> rs[k].lane = "transcript"

\* A replay through the transcript projector takes the records of its lane ...
LEMMA TranscriptTold ==
  ASSUME NEW s, NEW rs, NEW N \in Nat, N = Len(rs), NEW b \in Nat, NEW R,
         NEW K \in SUBSET (1..N), TranscriptsAre(K, rs, N),
         Coherent(SaidBy(R, rs, K, N)),
         Shaped(s.db), Faithful(s.db, R)
  PROVE  Adds(s.db, ReplayTranscript(s, rs).db, R, rs, K, b, N)
<1>0. \A k \in 1..N : k \in K <=> rs[k].lane = "transcript"
  BY Zenon DEF TranscriptsAre
<1>1. PICK after : /\ after[0] = s
                   /\ \A n \in 1..N : after[n] = ProjectTranscript(after[n - 1], rs[n])
                   /\ ReplayTranscript(s, rs) = after[N]
  BY TranscriptReplayed
<1>2. ASSUME NEW k \in 1..N, Shaped(after[k - 1].db)
      PROVE  IF k \in K THEN Effect(after[k - 1].db, after[k].db, rs[k])
             ELSE after[k] = after[k - 1]
  <2>1. after[k] = ProjectTranscript(after[k - 1], rs[k])
    BY <1>1
  <2>2. CASE k \in K
    <3>1. rs[k] \in SaidBy(R, rs, K, N)
      BY <2>2 DEF SaidBy
    <3>2. WellFormed(rs[k]) /\ rs[k].lane = "transcript"
      BY <1>0, <2>2, <3>1 DEF Coherent
    <3>3. Effect(after[k - 1].db, ProjectTranscript(after[k - 1], rs[k]).db, rs[k])
      BY <1>2, <3>2, TranscriptDoes
    <3> QED BY <2>1, <2>2, <3>3, Zenon
  <2>3. CASE k \notin K
    <3>1. rs[k].lane # "transcript"
      BY <1>0, <2>3
    <3>2. after[k] = after[k - 1]
      BY <2>1, <3>1 DEF ProjectTranscript
    <3> QED BY <2>3, <3>2, Zenon
  <2> QED BY <2>2, <2>3
<1>3. Shaped(after[0].db) /\ Faithful(after[0].db, R)
  BY <1>1, Zenon
<1>4. Takes(after, rs, K, N)
  BY <1>2, Zenon DEF Takes
<1>5. Adds(after[0].db, after[N].db, R, rs, K, b, N)
  BY <1>3, <1>4, Replaying
<1> QED BY <1>1, <1>5, Zenon

\* ... and one through both takes them all.
LEMMA BothTold ==
  ASSUME NEW s, NEW rs, NEW N \in Nat, N = Len(rs), NEW b \in Nat, NEW R,
         Coherent(SaidBy(R, rs, 1..N, N)),
         Shaped(s.db), Faithful(s.db, R)
  PROVE  Adds(s.db, ReplayBoth(s, rs).db, R, rs, 1..N, b, N)
<1> DEFINE K == 1..N
<1>1. PICK after : /\ after[0] = s
                   /\ \A n \in 1..N : after[n] = ProjectBoth(after[n - 1], rs[n])
                   /\ ReplayBoth(s, rs) = after[N]
  BY BothReplayed
<1>2. ASSUME NEW k \in 1..N, Shaped(after[k - 1].db)
      PROVE  Effect(after[k - 1].db, after[k].db, rs[k])
  <2>1. after[k] = ProjectBoth(after[k - 1], rs[k])
    BY <1>1
  <2>2. rs[k] \in SaidBy(R, rs, K, N)
    BY DEF SaidBy
  <2>3. WellFormed(rs[k]) /\ rs[k].lane \in {"transcript", "otlp"}
    BY <2>2 DEF Coherent, WellFormed, Lane
  <2>4. CASE rs[k].lane = "otlp"
    <3>1. after[k].db = ProjectOtlp(after[k - 1].db, rs[k])
      BY <2>1, <2>4 DEF ProjectBoth
    <3>2. Effect(after[k - 1].db, ProjectOtlp(after[k - 1].db, rs[k]), rs[k])
      BY <1>2, <2>3, <2>4, OtlpDoes
    <3> QED BY <3>1, <3>2, Zenon
  <2>5. CASE rs[k].lane = "transcript"
    <3>1. after[k] = ProjectTranscript(after[k - 1], rs[k])
      BY <2>1, <2>5 DEF ProjectBoth
    <3>2. Effect(after[k - 1].db, ProjectTranscript(after[k - 1], rs[k]).db, rs[k])
      BY <1>2, <2>3, <2>5, TranscriptDoes
    <3> QED BY <3>1, <3>2, Zenon
  <2> QED BY <2>3, <2>4, <2>5
<1>3. Shaped(after[0].db) /\ Faithful(after[0].db, R)
  BY <1>1, Zenon
<1>4. Takes(after, rs, K, N)
  BY <1>2, Zenon DEF Takes
<1>5. K \in SUBSET (1..N)
  OBVIOUS
<1> HIDE DEF K
<1>6. Adds(after[0].db, after[N].db, R, rs, K, b, N)
  <2>1. Coherent(SaidBy(R, rs, K, N))
    BY Zenon DEF K
  <2> QED BY <1>3, <1>4, <1>5, <2>1, Replaying
<1> QED BY <1>1, <1>6, Zenon DEF K

-----------------------------------------------------------------------------
(* The inductive invariant.                                                *)

Entry == (Path \cup {"otlp"}) \X Nat

\* A row of the store is a line of a file or a posted record of this world.
RowsHold ==
  /\ world \in Worlds
  /\ evidence \in Seq(Entry)
  /\ \A i \in Ids :
       IF evidence[i][1] = "otlp" THEN evidence[i][2] \in DOMAIN Posts
       ELSE evidence[i][1] \in Path /\ evidence[i][2] \in DOMAIN Lines[evidence[i][1]]
  /\ \A i, j \in Ids : BodyOf(i) = BodyOf(j) => i = j
  /\ owed \subseteq Ids

\* A process has files left while it is at one, and the tailer's projector goes
\* with the resident process.
JobFits(j, n) ==
  /\ j = [kind |-> j.kind, step |-> j.step, left |-> j.left, before |-> j.before,
          mem |-> j.mem]
  /\ j.before \in 0 .. n
  /\ j.left \in Seq(Path)
  /\ j.step \in {"read", "stored", "next"} => j.left # <<>>

JobsHold ==
  /\ resident \in BOOLEAN /\ met \in BOOLEAN
  /\ seer \in {"tail", "rebuild", "none", "many"}
  /\ job = [p \in Process |-> job[p]]
  /\ \A p \in Process : JobFits(job[p], Len(evidence))
  /\ job["cli"].kind # "tail"
  /\ ~ resident => job["app"] = Idle /\ memory = NoMemory

\* The records some projector has been through.
Been == {BodyOf(i) : i \in Projected}

\* Those that report a change of a file by call c.
Editing(c) == {i \in Projected : Edits(BodyOf(i), c)}

TablesHold == Shaped(db) /\ Faithful(db, Been)

\* Unless both processes have been at work, what one of them is about to
\* project is owed, and a change of a file is there as often as it was told.
AloneHolds ==
  ~ met =>
    /\ resident => job["cli"] = Idle
    /\ \A p \in Process :
         job[p].step \in {"read", "stored"} => job[p].before + 1 .. Len(evidence) \subseteq owed
    /\ job["cli"].step = "rebuild" => owed = Ids
    /\ \A c \in Call : db.edits[c] = Cardinality(Editing(c))

IInv == RowsHold /\ JobsHold /\ TablesHold /\ AloneHolds

-----------------------------------------------------------------------------
(* Rows of the store.                                                      *)

LEMMA Bounded ==
  ASSUME RowsHold
  PROVE  /\ Len(evidence) \in Nat /\ Ids = 1..Len(evidence) /\ DOMAIN evidence = 1..Len(evidence)
         /\ \A i \in Ids : evidence[i] \in Entry
         /\ \A f \in Path : Len(Lines[f]) \in Nat /\ DOMAIN Lines[f] = 1..Len(Lines[f])
         /\ Len(Posts) \in Nat /\ DOMAIN Posts = 1..Len(Posts)
         /\ Possible(world)
<1>1. Possible(world)
  BY ProjectionAssumption DEF RowsHold
<1>2. /\ \A f \in Path : Lines[f] \in Seq(Written(world))
      /\ Posts \in Seq(Written(world))
  BY <1>1 DEF Possible, Lines, Posts
<1> QED BY <1>1, <1>2, LenProperties, ElementOfSeq DEF RowsHold, Ids

\* A record stored is one of those the world may come to hold, of the lane it
\* came in by.
LEMMA BodiesAre ==
  ASSUME RowsHold
  PROVE  /\ \A i \in Ids : /\ BodyOf(i) \in Written(world)
                           /\ BodyOf(i).lane = IF evidence[i][1] = "otlp" THEN "otlp"
                                               ELSE "transcript"
         /\ \A f \in Path : \A n \in DOMAIN Lines[f] : /\ Lines[f][n] \in Written(world)
                                                        /\ Lines[f][n].lane = "transcript"
         /\ \A n \in DOMAIN Posts : Posts[n] \in Written(world) /\ Posts[n].lane = "otlp"
         /\ Coherent(Written(world))
<1>1. Possible(world)
  BY Bounded
<1>2. /\ \A f \in Path : \A n \in DOMAIN Lines[f] : /\ Lines[f][n] \in Written(world)
                                                    /\ Lines[f][n].lane = "transcript"
      /\ \A n \in DOMAIN Posts : Posts[n] \in Written(world) /\ Posts[n].lane = "otlp"
  <2>1. ASSUME NEW f \in Path, NEW n \in DOMAIN Lines[f]
        PROVE  Lines[f][n] \in Written(world) /\ Lines[f][n].lane = "transcript"
    <3>1. Lines[f][n] \in {world.lines[f][m] : m \in DOMAIN world.lines[f]}
      BY Zenon DEF Lines
    <3>2. Lines[f][n] \in Written(world)
      BY <3>1, Zenon DEF Written
    <3> QED BY <1>1, <3>2, Zenon DEF Possible, Lines
  <2>2. ASSUME NEW n \in DOMAIN Posts
        PROVE  Posts[n] \in Written(world) /\ Posts[n].lane = "otlp"
    <3>1. Posts[n] \in {world.posts[m] : m \in DOMAIN world.posts}
      BY Zenon DEF Posts
    <3>2. Posts[n] \in Written(world)
      BY <3>1, Zenon DEF Written
    <3> QED BY <1>1, <3>2, Zenon DEF Possible, Posts
  <2> QED BY <2>1, <2>2, Zenon
<1>3. \A i \in Ids : /\ BodyOf(i) \in Written(world)
                     /\ BodyOf(i).lane = IF evidence[i][1] = "otlp" THEN "otlp"
                                         ELSE "transcript"
  BY <1>2 DEF RowsHold, BodyOf, Body
<1>4. Coherent(Written(world))
  BY <1>1 DEF Possible, Coherent
<1> QED BY <1>2, <1>3, <1>4

\* Any records of the store are coherent.
LEMMA BeenCoherent ==
  ASSUME RowsHold, NEW I \in SUBSET Ids
  PROVE  Coherent({BodyOf(i) : i \in I})
<1>1. {BodyOf(i) : i \in I} \subseteq Written(world)
  BY BodiesAre
<1> QED BY <1>1, BodiesAre DEF Coherent

\* A pass goes on from a line of the file, or from its beginning.
LEMMA MaxOffsetIs ==
  ASSUME RowsHold, NEW f \in Path
  PROVE  MaxOffset(f) \in 0..Len(Lines[f])
<1> DEFINE held == {i \in Ids : evidence[i][1] = f}
           ns == {evidence[i][2] : i \in held}
<1>0. Len(Lines[f]) \in Nat /\ DOMAIN Lines[f] = 1..Len(Lines[f])
  BY Bounded
<1>1. \A i \in held : evidence[i][2] \in 1..Len(Lines[f])
  <2> SUFFICES ASSUME NEW i \in Ids, evidence[i][1] = f
               PROVE  evidence[i][2] \in DOMAIN Lines[f]
    BY <1>0
  <2>1. evidence[i][1] # "otlp"
    BY ProjectionAssumption
  <2> QED BY <2>1, Zenon DEF RowsHold
<1>2. CASE held = {}
  BY <1>0, <1>2 DEF MaxOffset
<1>3. CASE held # {}
  <2>1. ns \in SUBSET (0..Len(Lines[f])) /\ ns # {}
    <3>1. \A i \in held : evidence[i][2] \in 0..Len(Lines[f])
      BY <1>0, <1>1
    <3> HIDE DEF held
    <3>2. \A k \in ns : k \in 0..Len(Lines[f])
      BY <3>1, Zenon
    <3>3. PICK i : i \in held
      BY <1>3
    <3>4. evidence[i][2] \in ns
      BY <3>3, Zenon
    <3> HIDE DEF ns
    <3> QED BY <3>2, <3>4
  <2>2. PICK m \in ns : \A k \in ns : k <= m
    <3> HIDE DEF ns
    <3> QED BY <1>0, <2>1, HasGreatest
  <2>3. \E n \in ns : \A i \in held : evidence[i][2] <= n
    <3> HIDE DEF held
    <3> QED BY <2>2, Zenon
  <2>4. MaxOffset(f) = CHOOSE n \in ns : \A i \in held : evidence[i][2] <= n
    BY <1>3 DEF MaxOffset
  <2>5. MaxOffset(f) \in ns
    <3> HIDE DEF ns, held
    <3> QED BY <2>3, <2>4
  <2> QED BY <2>1, <2>5
<1> QED BY <1>2, <1>3

\* How many of S there are up to n ...
Upto(S, n) == {m \in S : m <= n}

LEMMA UptoNext ==
  ASSUME NEW N \in Nat, NEW S \in SUBSET (1..N), NEW n \in 1..N
  PROVE  /\ IsFiniteSet(Upto(S, n)) /\ Cardinality(Upto(S, n)) \in Nat
         /\ Cardinality(Upto(S, n))
              = Cardinality(Upto(S, n - 1)) + (IF n \in S THEN 1 ELSE 0)
<1>1. IsFiniteSet(1..N)
  BY FS_Interval
<1>2. IsFiniteSet(S)
  BY <1>1, FS_Subset
<1>3. \A i : IsFiniteSet(Upto(S, i)) /\ Cardinality(Upto(S, i)) \in Nat
  <2> SUFFICES ASSUME NEW i PROVE IsFiniteSet(Upto(S, i)) /\ Cardinality(Upto(S, i)) \in Nat
    OBVIOUS
  <2>1. Upto(S, i) \in SUBSET S
    BY Zenon DEF Upto
  <2> QED BY <1>2, <2>1, FS_Subset, FS_CardinalityType
<1>4. /\ \A m \in S : m <= n <=> m <= n - 1 \/ m = n
      /\ n <= n /\ ~ (n <= n - 1)
  OBVIOUS
<1>5. CASE n \in S
  <2>1. \A m : m \in Upto(S, n) <=> m \in Upto(S, n - 1) \/ m = n
    BY <1>4, <1>5, Zenon DEF Upto
  <2>2. Upto(S, n) = Upto(S, n - 1) \cup {n}
    BY <2>1
  <2>3. n \notin Upto(S, n - 1)
    BY <1>4, Zenon DEF Upto
  <2>4. Cardinality(Upto(S, n - 1) \cup {n}) = Cardinality(Upto(S, n - 1)) + 1
    BY <1>3, <2>3, FS_AddElement, Zenon
  <2> QED BY <1>3, <1>5, <2>2, <2>4, Zenon
<1>6. CASE n \notin S
  <2>1. \A m : m \in Upto(S, n) <=> m \in Upto(S, n - 1)
    BY <1>4, <1>6, Zenon DEF Upto
  <2>2. Upto(S, n) = Upto(S, n - 1)
    BY <2>1
  <2>3. Cardinality(Upto(S, n)) = Cardinality(Upto(S, n - 1))
    BY <2>2, Zenon
  <2> QED BY <1>3, <1>6, <2>3
<1> QED BY <1>5, <1>6

\* ... comes to every number there are members for.
LEMMA HasNth ==
  ASSUME NEW N \in Nat, NEW S \in SUBSET (1..N), NEW k \in 1..Cardinality(S)
  PROVE  \E n \in S : Cardinality(Upto(S, n)) = k
<1> DEFINE T == {n \in 0..N : k <= Cardinality(Upto(S, n))}
<1>1. Cardinality(S) \in Nat /\ IsFiniteSet(S)
  <2>1. IsFiniteSet(1..N)
    BY FS_Interval
  <2> QED BY <2>1, FS_Subset, FS_CardinalityType
<1>2. \A m \in S : m \in 1..N
  OBVIOUS
<1>3. Upto(S, N) = S /\ Upto(S, 0) = {}
  <2>1. \A m \in S : m <= N /\ ~ (m <= 0)
    BY <1>2
  <2>2. (\A m : m \in Upto(S, N) <=> m \in S) /\ \A m : m \notin Upto(S, 0)
    BY <2>1, Zenon DEF Upto
  <2> QED BY <2>2
<1>4. Cardinality(Upto(S, N)) = Cardinality(S) /\ Cardinality(Upto(S, 0)) = 0
  BY <1>3, FS_EmptySet, Zenon
<1>5. PICK n \in T : \A j \in T : n <= j
  <2>1. N \in T
    BY <1>1, <1>4
  <2>2. T \in SUBSET (0..N) /\ T # {}
    BY <2>1
  <2> HIDE DEF T
  <2> QED BY <2>2, HasLeast
<1>6. n \in 0..N /\ k <= Cardinality(Upto(S, n))
  OBVIOUS
<1>7. n \in 1..N
  BY <1>1, <1>4, <1>6
<1>8. n - 1 \in 0..N /\ n - 1 \notin T
  <2> HIDE DEF T
  <2> QED BY <1>5, <1>7
<1>9. ~ (k <= Cardinality(Upto(S, n - 1)))
  BY <1>8
<1>10. Cardinality(Upto(S, n)) = Cardinality(Upto(S, n - 1)) + (IF n \in S THEN 1 ELSE 0)
  BY <1>7, UptoNext
<1>11. Cardinality(Upto(S, n)) \in Nat /\ Cardinality(Upto(S, n - 1)) \in Nat
  <2>1. Cardinality(Upto(S, n)) \in Nat
    BY <1>7, UptoNext
  <2>2. Upto(S, n - 1) \in SUBSET S
    BY Zenon DEF Upto
  <2>3. Cardinality(Upto(S, n - 1)) \in Nat
    BY <1>1, <2>2, FS_Subset, FS_CardinalityType
  <2> QED BY <2>1, <2>3
<1> HIDE DEF T
<1>12. n \in S /\ Cardinality(Upto(S, n)) = k
  BY <1>6, <1>9, <1>10, <1>11
<1> QED BY <1>12

\* The rows a pass adds are lines of its file nobody holds, each once.
FreshRows(f, rows) ==
  /\ rows \in Seq(Entry)
  /\ \A k \in 1..Len(rows) : /\ rows[k][1] = f
                            /\ rows[k][2] \in DOMAIN Lines[f]
                            /\ ~ Held(Lines[f][rows[k][2]])
  /\ \A k, j \in 1..Len(rows) : Lines[f][rows[k][2]] = Lines[f][rows[j][2]] => k = j

LEMMA NewRowsAre ==
  ASSUME RowsHold, NEW f \in Path, NEW first \in Nat \ {0}, NEW last \in 0..Len(Lines[f])
  PROVE  FreshRows(f, NewRows(f, first, last))
<1> PICK rows : rows = NewRows(f, first, last)
  OBVIOUS
<1> DEFINE fresh == {n \in first .. last :
                       /\ ~ Held(Lines[f][n])
                       /\ \A m \in first .. n - 1 : Lines[f][m] # Lines[f][n]}
           nth(k) == CHOOSE n \in fresh : Cardinality(Upto(fresh, n)) = k
<1>0. Len(Lines[f]) \in Nat /\ DOMAIN Lines[f] = 1..Len(Lines[f])
  BY Bounded
<1>1. fresh \in SUBSET (1..last) /\ IsFiniteSet(fresh) /\ Cardinality(fresh) \in Nat
  <2>1. first .. last \subseteq 1..last /\ last \in Nat
    BY <1>0
  <2>2. fresh \subseteq first .. last
    BY Zenon
  <2>3. IsFiniteSet(1..last)
    BY <2>1, FS_Interval
  <2> HIDE DEF fresh
  <2>4. fresh \in SUBSET (1..last)
    BY <2>1, <2>2
  <2> QED BY <2>3, <2>4, FS_Subset, FS_CardinalityType
<1>2. rows = [k \in 1 .. Cardinality(fresh) |-> <<f, nth(k)>>]
  BY Zenon DEF NewRows, Upto
<1>3. \A m, n \in fresh : Lines[f][m] = Lines[f][n] => m = n
  <2> SUFFICES ASSUME NEW m \in fresh, NEW n \in fresh, Lines[f][m] = Lines[f][n], m < n
               PROVE  FALSE
    <3> HIDE DEF fresh
    <3> QED BY <1>1
  <2>1. m \in first .. n - 1
    <3>1. m \in first .. last /\ n \in first .. last
      OBVIOUS
    <3> QED BY <3>1
  <2> QED BY <2>1, Zenon
<1>4. \A n \in fresh : ~ Held(Lines[f][n])
  OBVIOUS
<1> HIDE DEF fresh
<1>5. \A k \in 1..Cardinality(fresh) : nth(k) \in fresh /\ Cardinality(Upto(fresh, nth(k))) = k
  <2> SUFFICES ASSUME NEW k \in 1..Cardinality(fresh)
               PROVE  nth(k) \in fresh /\ Cardinality(Upto(fresh, nth(k))) = k
    OBVIOUS
  <2>1. \E n \in fresh : Cardinality(Upto(fresh, n)) = k
    <3>1. last \in Nat
      BY <1>0
    <3> QED BY <1>1, <3>1, HasNth
  <2> QED BY <2>1, Zenon
<1> HIDE DEF nth
<1>6. Len(rows) = Cardinality(fresh) /\ DOMAIN rows = 1..Cardinality(fresh)
  BY <1>1, <1>2
<1>7. \A k \in 1..Len(rows) : nth(k) \in fresh /\ nth(k) \in 1..Len(Lines[f])
  <2>1. \A n \in fresh : n \in 1..Len(Lines[f])
    BY <1>0, <1>1
  <2> QED BY <1>5, <1>6, <2>1
<1>8. \A k \in 1..Len(rows) : rows[k] = <<f, nth(k)>>
  BY <1>2, <1>6
<1>9. \A k \in 1..Len(rows) : rows[k] \in Entry
  <2> SUFFICES ASSUME NEW k \in 1..Len(rows) PROVE <<f, nth(k)>> \in Entry
    BY <1>8, Zenon
  <2>1. nth(k) \in Nat /\ f \in Path \cup {"otlp"}
    BY <1>0, <1>7
  <2> QED BY <2>1, Zenon DEF Entry
<1>10. rows \in Seq(Entry)
  <2>1. rows = [k \in 1..Cardinality(fresh) |-> rows[k]]
    BY <1>2, <1>6
  <2>2. rows \in [1..Cardinality(fresh) -> Entry]
    BY <1>6, <1>9, <2>1
  <2> QED BY <1>1, <2>2, SeqDef
<1>11. \A k \in 1..Len(rows) : rows[k][1] = f /\ rows[k][2] = nth(k)
  BY <1>8
<1>12. ASSUME NEW k \in 1..Len(rows), NEW j \in 1..Len(rows),
              Lines[f][rows[k][2]] = Lines[f][rows[j][2]]
       PROVE  k = j
  <2>1. nth(k) \in fresh /\ nth(j) \in fresh /\ Lines[f][nth(k)] = Lines[f][nth(j)]
    BY <1>7, <1>11, <1>12, Zenon
  <2>2. nth(k) = nth(j)
    BY <1>3, <2>1, Zenon
  <2> QED BY <1>5, <1>6, <2>2
<1>13. \A k \in 1..Len(rows) : rows[k][2] \in DOMAIN Lines[f] /\ ~ Held(Lines[f][rows[k][2]])
  BY <1>0, <1>4, <1>7, <1>11, Zenon
<1> QED BY <1>10, <1>11, <1>12, <1>13, Zenon DEF FreshRows

-----------------------------------------------------------------------------
(* A job's steps.                                                          *)

LEMMA IdleFits ==
  ASSUME NEW n \in Nat
  PROVE  JobFits(Idle, n) /\ Idle.step = "idle" /\ Idle.kind = "none"
<1>1. <<>> \in Seq(Path)
  BY EmptySeq
<1>2. Idle = [kind |-> "none", step |-> "idle", left |-> <<>>, before |-> 0, mem |-> NoMemory]
  BY DEF Idle
<1>3. /\ Idle.kind = "none" /\ Idle.step = "idle" /\ Idle.left = <<>> /\ Idle.before = 0
      /\ Idle.mem = NoMemory
  BY <1>2
<1> QED BY <1>1, <1>2, <1>3 DEF JobFits

\* The job of one process becomes j.
Puts(p, j) == job' = [job EXCEPT ![p] = j]

LEMMA OneJob ==
  ASSUME RowsHold, JobsHold, NEW p \in Process, NEW n \in Nat, NEW j, JobFits(j, n),
         n = Len(evidence'), Len(evidence) <= n,
         p = "cli" => j.kind # "tail",
         Puts(p, j),
         resident' \in BOOLEAN, met' \in BOOLEAN,
         seer' \in {"tail", "rebuild", "none", "many"},
         ~ resident' => job'["app"] = Idle /\ memory' = NoMemory
  PROVE  JobsHold'
<1>0. job = [q \in Process |-> job[q]] /\ Len(evidence) \in Nat
  BY Bounded DEF JobsHold
<1>1. /\ job' = [q \in Process |-> job'[q]]
      /\ \A q \in Process : job'[q] = IF q = p THEN j ELSE job[q]
  BY <1>0 DEF Puts
<1>2. \A q \in Process : JobFits(job[q], n)
  <2> SUFFICES ASSUME NEW q \in Process PROVE JobFits(job[q], n)
    OBVIOUS
  <2>1. JobFits(job[q], Len(evidence))
    BY DEF JobsHold
  <2>2. \A b \in 0..Len(evidence) : b \in 0..n
    BY <1>0
  <2> QED BY <2>1, <2>2, Zenon DEF JobFits
<1>3. \A q \in Process : JobFits(job'[q], n)
  BY <1>1, <1>2
<1>4. job'["cli"].kind # "tail"
  BY <1>1 DEF JobsHold, Process
<1>5. \A q \in Process : JobFits(job'[q], Len(evidence'))
  BY <1>3, Zenon
<1>6. \A q \in Process : JobFits(job[q], Len(evidence))'
  BY <1>5, Zenon DEF JobFits
<1> QED BY <1>1, <1>4, <1>6 DEF JobsHold

\* A step that only moves a job on.
LEMMA OnlyJobs ==
  ASSUME IInv, NEW p \in Process, NEW j, Puts(p, j),
         UNCHANGED <<world, evidence, db, owed>>, JobsHold',
         ~ met' => ~ met /\ (resident' => job'["cli"] = Idle),
         j.step \in {"read", "stored"} => j.before = Len(evidence),
         j.step # "rebuild"
  PROVE  IInv'
<1>1. RowsHold' /\ TablesHold'
  BY SMTT(30) DEF IInv, RowsHold, TablesHold, Been, Projected, BodyOf, Body, Ids, Lines, Posts
<1>2. ASSUME ~ met'
      PROVE  /\ \A q \in Process :
                  job'[q].step \in {"read", "stored"}
                    => job'[q].before + 1 .. Len(evidence)' \subseteq owed'
             /\ job'["cli"].step = "rebuild" => owed' = Ids'
             /\ \A c \in Call : db'.edits[c] = Cardinality(Editing(c)')
  <2>1. \A q \in Process : job'[q] = IF q = p THEN j ELSE job[q]
    BY DEF IInv, JobsHold, Puts
  <2>2. /\ \A q \in Process :
             job[q].step \in {"read", "stored"} => job[q].before + 1 .. Len(evidence) \subseteq owed
        /\ job["cli"].step = "rebuild" => owed = Ids
        /\ \A c \in Call : db.edits[c] = Cardinality(Editing(c))
    BY <1>2 DEF IInv, AloneHolds
  <2>3. Len(evidence) \in Nat
    BY Bounded DEF IInv
  <2>4. \A q \in Process :
          job'[q].step \in {"read", "stored"}
            => job'[q].before + 1 .. Len(evidence)' \subseteq owed'
    BY <2>1, <2>2, <2>3
  <2>5. job'["cli"].step = "rebuild" => owed' = Ids'
    BY <2>1, <2>2 DEF Process, Ids
  <2>6. db'.edits = db.edits /\ \A c \in Call : Editing(c)' = Editing(c)
    BY DEF Editing, Projected, BodyOf, Body, Ids, Lines, Posts
  <2> QED BY <2>2, <2>4, <2>5, <2>6
<1>3. AloneHolds'
  BY <1>2 DEF AloneHolds
<1> QED BY <1>1, <1>3 DEF IInv

\* A job that begins, or goes on, with a file has all there is behind it.
LEMMA BeginKeeps ==
  ASSUME IInv, NEW p \in Process, NEW kind, NEW files \in Seq(Path), files # <<>>, NEW mem,
         Begin(p, kind, files, mem), p = "cli" => kind # "tail",
         UNCHANGED <<world, evidence, db, owed, resident, memory, seer>>,
         met' \in BOOLEAN, ~ met' => ~ met /\ (resident => p = "app"),
         p = "app" => resident
  PROVE  IInv'
<1> DEFINE j == [kind |-> kind, step |-> "read", left |-> files, before |-> Len(evidence),
                 mem |-> mem]
<1>1. Puts(p, j)
  BY Zenon DEF Begin, Puts
<1>2. /\ j.kind = kind /\ j.step = "read" /\ j.left = files /\ j.before = Len(evidence)
      /\ j.mem = mem /\ j = [kind |-> j.kind, step |-> j.step, left |-> j.left,
                             before |-> j.before, mem |-> j.mem]
  OBVIOUS
<1> HIDE DEF j
<1>3. Len(evidence) \in Nat /\ Len(evidence') = Len(evidence)
  BY Bounded DEF IInv
<1>4. JobFits(j, Len(evidence))
  BY <1>2, <1>3 DEF JobFits
<1>5. \A q \in Process : job'[q] = IF q = p THEN j ELSE job[q]
  BY <1>1 DEF IInv, JobsHold, Puts
<1>6. ~ resident' => job'["app"] = Idle /\ memory' = NoMemory
  BY <1>5 DEF IInv, JobsHold, Process
<1>7. JobsHold'
  <2>1. resident' \in BOOLEAN /\ seer' \in {"tail", "rebuild", "none", "many"}
    BY DEF IInv, JobsHold
  <2> QED BY <1>1, <1>2, <1>3, <1>4, <1>6, <2>1, OneJob DEF IInv
<1>8. ~ met' => (resident' => job'["cli"] = Idle)
  BY <1>5 DEF IInv, AloneHolds, Process
<1> QED BY <1>1, <1>2, <1>7, <1>8, OnlyJobs

\* A job that ends, with nothing else done.
LEMMA StopKeeps ==
  ASSUME IInv, NEW p \in Process, NEW j, Puts(p, j),
         \A n \in Nat : JobFits(j, n), j.step \in {"idle", "next", "clear"},
         p = "cli" => j.kind # "tail", j # Idle => job[p] # Idle,
         UNCHANGED <<world, evidence, db, owed, met>>, resident' \in BOOLEAN,
         seer' \in {"tail", "rebuild", "none", "many"},
         resident' => resident,
         ~ resident' => IF resident THEN p = "app" /\ j = Idle /\ memory' = NoMemory
                        ELSE memory' = memory
  PROVE  IInv'
<1>1. Len(evidence) \in Nat /\ Len(evidence') = Len(evidence)
  BY Bounded DEF IInv
<1>2. \A q \in Process : job'[q] = IF q = p THEN j ELSE job[q]
  BY DEF IInv, JobsHold, Puts
<1>3. ~ resident' => job'["app"] = Idle /\ memory' = NoMemory
  BY <1>2 DEF IInv, JobsHold, Process
<1>4. JobsHold'
  <2>1. met' \in BOOLEAN
    BY DEF IInv, JobsHold
  <2> QED BY <1>1, <1>3, <2>1, OneJob DEF IInv
<1>5. ~ met' => ~ met /\ (resident' => job'["cli"] = Idle)
  BY <1>2 DEF IInv, AloneHolds, Process
<1> QED BY <1>4, <1>5, OnlyJobs

\* When a file is done the next one is opened, or nothing, or the rebuild begins.
LEMMA AdvanceDoes ==
  ASSUME IInv, NEW p \in Process, job[p].step \in {"read", "stored", "next"}, NEW mem,
         Advance(p, mem)
  PROVE  \E j : /\ Puts(p, j)
                /\ \A n \in Nat : JobFits(j, n)
                /\ j.step \in {"idle", "next", "clear"}
                /\ p = "cli" => j.kind # "tail"
<1>1. /\ job[p] = [kind |-> job[p].kind, step |-> job[p].step, left |-> job[p].left,
                   before |-> job[p].before, mem |-> job[p].mem]
      /\ job[p].left \in Seq(Path) /\ job[p].left # <<>>
      /\ p = "cli" => job[p].kind # "tail"
  BY DEF IInv, JobsHold, JobFits
<1> DEFINE left == Tail(job[p].left)
           next(step, m) == [kind |-> job[p].kind, step |-> step, left |-> left,
                             before |-> 0, mem |-> m]
<1>2. left \in Seq(Path)
  BY <1>1, HeadTailProperties
<1>3. \/ Puts(p, next("next", mem)) /\ left # <<>>
      \/ Puts(p, Idle)
      \/ Puts(p, next("clear", NoMemory))
  BY Zenon DEF Advance, Puts
<1> HIDE DEF left
<1>4. CASE Puts(p, next("next", mem)) /\ left # <<>>
  <2>1. /\ \A n \in Nat : JobFits(next("next", mem), n)
        /\ next("next", mem).step = "next" /\ next("next", mem).kind = job[p].kind
    BY <1>2, <1>4 DEF JobFits
  <2> HIDE DEF next
  <2> QED BY <1>1, <1>4, <2>1
<1>5. CASE Puts(p, Idle)
  <2>1. /\ \A n \in Nat : JobFits(Idle, n)
        /\ Idle.step = "idle" /\ Idle.kind = "none"
    BY IdleFits
  <2> QED BY <1>5, <2>1
<1>6. CASE Puts(p, next("clear", NoMemory))
  <2>1. /\ \A n \in Nat : JobFits(next("clear", NoMemory), n)
        /\ next("clear", NoMemory).step = "clear" /\ next("clear", NoMemory).kind = job[p].kind
    BY <1>2 DEF JobFits
  <2> HIDE DEF next
  <2> QED BY <1>1, <1>6, <2>1
<1> QED BY <1>3, <1>4, <1>5, <1>6

\* A busy resident process runs, and a burst's projector is its own.
LEMMA BusyRuns ==
  ASSUME IInv, NEW p \in Process, job[p].step # "idle"
  PROVE  /\ job[p] # Idle
         /\ p = "app" => resident
         /\ ~ met /\ resident => p = "app"
         /\ ~ resident => p = "cli" /\ job[p].kind # "tail"
<1>1. job[p] # Idle
  BY IdleFits
<1> QED BY <1>1 DEF IInv, JobsHold, AloneHolds, Process

-----------------------------------------------------------------------------
(* The steps, one by one.                                                  *)

LEMMA FilesAre ==
  File \in Seq(Path) /\ File # <<>> /\ \A i \in DOMAIN File : <<File[i]>> \in Seq(Path)
  BY ProjectionAssumption DEF Path

LEMMA BurstKeeps == ASSUME IInv, Burst, UNCHANGED world PROVE IInv'
<1>1. PICK i \in DOMAIN File : Begin("app", "tail", <<File[i]>>, memory)
  BY DEF Burst
<1>2. <<File[i]>> \in Seq(Path) /\ <<File[i]>> # <<>>
  BY FilesAre
<1>3. met' \in BOOLEAN /\ met' = met /\ "app" \in Process
  BY DEF Burst, IInv, JobsHold, Process
<1>4. resident /\ UNCHANGED <<evidence, db, owed, resident, memory, seer>>
  BY DEF Burst
<1> DEFINE files == <<File[i]>>
<1> HIDE DEF files
<1>5. Begin("app", "tail", files, memory) /\ files \in Seq(Path) /\ files # <<>>
  BY <1>1, <1>2 DEF files
<1> QED BY <1>3, <1>4, <1>5, BeginKeeps

LEMMA CatchUpKeeps == ASSUME IInv, CatchUp, UNCHANGED world PROVE IInv'
<1>1. Begin("app", "catchUp", File, NoMemory)
  BY DEF CatchUp
<1>2. met' \in BOOLEAN /\ met' = met /\ "app" \in Process
  BY DEF CatchUp, IInv, JobsHold, Process
<1> QED BY <1>1, <1>2, FilesAre, BeginKeeps DEF CatchUp

LEMMA BackfillKeeps == ASSUME IInv, Backfill, UNCHANGED world PROVE IInv'
<1>1. Begin("cli", "backfill", File, NoMemory) /\ met' = (met \/ resident)
  BY DEF Backfill
<1>2. met' \in BOOLEAN /\ "cli" \in Process /\ (~ met' => ~ met /\ ~ resident)
  BY <1>1, Zenon DEF IInv, JobsHold, Process
<1> QED BY <1>1, <1>2, FilesAre, BeginKeeps DEF Backfill

LEMMA OpenFileKeeps ==
  ASSUME IInv, NEW p \in Process, OpenFile(p), UNCHANGED world PROVE IInv'
<1>1. /\ job[p].left \in Seq(Path) /\ job[p].left # <<>> /\ job[p].step = "next"
      /\ p = "cli" => job[p].kind # "tail"
  BY DEF OpenFile, IInv, JobsHold, JobFits
<1>2. /\ job[p] # Idle
      /\ p = "app" => resident
      /\ ~ met /\ resident => p = "app"
  BY <1>1, BusyRuns
<1>3. Begin(p, job[p].kind, job[p].left, job[p].mem)
  BY DEF OpenFile
<1>4. met' \in BOOLEAN /\ met' = met
  BY DEF OpenFile, IInv, JobsHold
<1> QED BY <1>1, <1>2, <1>3, <1>4, BeginKeeps DEF OpenFile

LEMMA FailFileKeeps ==
  ASSUME IInv, NEW p \in Process, FailFile(p), UNCHANGED world PROVE IInv'
<1>1. PICK mem : /\ Remember(p, mem)
                 /\ \/ Advance(p, mem)
                    \/ Puts(p, Idle)
  BY Zenon DEF FailFile, Puts
<1>2. PICK j : /\ Puts(p, j)
               /\ \A n \in Nat : JobFits(j, n)
               /\ j.step \in {"idle", "next", "clear"}
               /\ p = "cli" => j.kind # "tail"
  <2>1. CASE Advance(p, mem)
    BY <2>1, AdvanceDoes DEF FailFile
  <2>2. CASE Puts(p, Idle)
    BY <2>2, IdleFits
  <2> QED BY <1>1, <2>1, <2>2
<1>3. job[p].step # "idle"
  BY DEF FailFile
<1>4. ~ resident => memory' = memory
  BY <1>1, <1>3, BusyRuns DEF Remember
<1>5. resident' \in BOOLEAN /\ seer' \in {"tail", "rebuild", "none", "many"} /\ resident' = resident
  BY DEF FailFile, IInv, JobsHold
<1> QED BY <1>2, <1>3, <1>4, <1>5, BusyRuns, StopKeeps DEF FailFile

LEMMA FailRebuildKeeps == ASSUME IInv, FailRebuild, UNCHANGED world PROVE IInv'
<1>1. /\ Puts("cli", Idle) /\ "cli" \in Process
      /\ resident' \in BOOLEAN /\ seer' \in {"tail", "rebuild", "none", "many"}
  BY DEF FailRebuild, IInv, JobsHold, Process, Puts
<1> QED BY <1>1, IdleFits, StopKeeps DEF FailRebuild

LEMMA KillKeeps == ASSUME IInv, Kill, UNCHANGED world PROVE IInv'
<1>1. /\ Puts("cli", Idle) /\ "cli" \in Process
      /\ resident' \in BOOLEAN /\ seer' \in {"tail", "rebuild", "none", "many"}
  BY DEF Kill, IInv, JobsHold, Process, Puts
<1> QED BY <1>1, IdleFits, StopKeeps DEF Kill

LEMMA ExitKeeps == ASSUME IInv, Exit, UNCHANGED world PROVE IInv'
<1>1. /\ Puts("app", Idle) /\ "app" \in Process
      /\ resident' = FALSE /\ memory' = NoMemory /\ resident
  BY DEF Exit, Process, Puts
<1>2. resident' \in BOOLEAN /\ seer' \in {"tail", "rebuild", "none", "many"}
  BY DEF Exit, IInv, JobsHold
<1> QED BY <1>1, <1>2, IdleFits, StopKeeps DEF Exit

LEMMA StartKeeps == ASSUME IInv, Start, UNCHANGED world PROVE IInv'
<1>1. /\ job["app"] = Idle /\ job' = job /\ resident' = TRUE /\ "app" \in Process
      /\ met' = (met \/ job["cli"] # Idle) /\ met \in BOOLEAN
  BY DEF Start, IInv, JobsHold, Process
<1>2. Puts("app", Idle)
  BY <1>1 DEF IInv, JobsHold, Puts
<1>3. met' \in BOOLEAN /\ (~ met' => ~ met /\ (resident' => job'["cli"] = Idle))
  BY <1>1, Zenon
<1>4. Len(evidence) \in Nat /\ Len(evidence') = Len(evidence)
  BY Bounded DEF IInv, Start
<1>5. JobsHold'
  <2>1. resident' \in BOOLEAN /\ seer' \in {"tail", "rebuild", "none", "many"}
    BY DEF Start, IInv, JobsHold
  <2>2. resident'
    BY <1>1
  <2> QED BY <1>1, <1>2, <1>3, <1>4, <2>1, <2>2, IdleFits, OneJob DEF IInv
<1> QED BY <1>1, <1>2, <1>3, <1>5, IdleFits, OnlyJobs DEF Start

-----------------------------------------------------------------------------
(* Rows added to the store.                                                 *)

\* Rows added to the store leave those it had as they were.
LEMMA Grown ==
  ASSUME RowsHold, NEW n \in Nat, n = Len(evidence),
         NEW rows \in Seq(Entry),
         \A k \in 1..Len(rows) :
           /\ IF rows[k][1] = "otlp" THEN rows[k][2] \in DOMAIN Posts
              ELSE rows[k][1] \in Path /\ rows[k][2] \in DOMAIN Lines[rows[k][1]]
           /\ ~ Held(Body(rows[k])),
         \A k, j \in 1..Len(rows) : Body(rows[k]) = Body(rows[j]) => k = j,
         world' = world, evidence' = evidence \o rows,
         owed' \subseteq 1 .. n + Len(rows)
  PROVE  /\ RowsHold'
         /\ Len(rows) \in Nat
         /\ Len(evidence') = n + Len(rows)
         /\ Ids' = 1 .. n + Len(rows)
         /\ \A i \in Ids : BodyOf(i)' = BodyOf(i)
         /\ \A k \in 1..Len(rows) : BodyOf(n + k)' = Body(rows[k])
<1>1. Ids = 1..n /\ evidence \in Seq(Entry) /\ Len(rows) \in Nat
  BY Bounded, LenProperties DEF RowsHold
<1>2. /\ evidence' \in Seq(Entry)
      /\ Len(evidence') = n + Len(rows)
      /\ \A i \in 1 .. n + Len(rows) : evidence'[i] = IF i <= n THEN evidence[i] ELSE rows[i - n]
  BY <1>1, ConcatProperties
<1>3. Ids' = 1 .. n + Len(rows)
  BY <1>2, LenProperties DEF Ids
<1>4. (\A e : Body(e)' = Body(e)) /\ Posts' = Posts /\ Lines' = Lines
  BY DEF Body, Lines, Posts
<1>5. \A i \in Ids : evidence'[i] = evidence[i] /\ BodyOf(i)' = BodyOf(i)
  <2> SUFFICES ASSUME NEW i \in Ids PROVE evidence'[i] = evidence[i] /\ BodyOf(i)' = BodyOf(i)
    OBVIOUS
  <2>1. evidence'[i] = evidence[i]
    BY <1>1, <1>2
  <2> QED BY <1>4, <2>1, Zenon DEF BodyOf
<1>6. \A k \in 1..Len(rows) : evidence'[n + k] = rows[k] /\ BodyOf(n + k)' = Body(rows[k])
  <2> SUFFICES ASSUME NEW k \in 1..Len(rows)
               PROVE  evidence'[n + k] = rows[k] /\ BodyOf(n + k)' = Body(rows[k])
    OBVIOUS
  <2>1. evidence'[n + k] = rows[k]
    BY <1>1, <1>2
  <2> QED BY <1>4, <2>1, Zenon DEF BodyOf
<1>7. \A i \in Ids' : i \in Ids \/ \E k \in 1..Len(rows) : i = n + k
  <2> SUFFICES ASSUME NEW i \in 1 .. n + Len(rows), i \notin 1..n
               PROVE  \E k \in 1..Len(rows) : i = n + k
    BY <1>1, <1>3
  <2>1. i - n \in 1..Len(rows) /\ i = n + (i - n)
    BY <1>1
  <2> QED BY <2>1
<1>8. ASSUME NEW i \in Ids'
      PROVE  IF evidence'[i][1] = "otlp" THEN evidence'[i][2] \in DOMAIN Posts'
             ELSE evidence'[i][1] \in Path /\ evidence'[i][2] \in DOMAIN Lines'[evidence'[i][1]]
  <2>1. CASE i \in Ids
    <3>1. IF evidence[i][1] = "otlp" THEN evidence[i][2] \in DOMAIN Posts
          ELSE evidence[i][1] \in Path /\ evidence[i][2] \in DOMAIN Lines[evidence[i][1]]
      BY <2>1 DEF RowsHold
    <3>2. evidence'[i] = evidence[i]
      BY <1>5, <2>1
    <3> QED BY <1>4, <3>1, <3>2, Zenon
  <2>2. CASE i \notin Ids
    <3>1. PICK k \in 1..Len(rows) : i = n + k
      BY <1>7, <2>2
    <3>2. evidence'[i] = rows[k]
      BY <1>6, <3>1, Zenon
    <3> QED BY <1>4, <3>2, Zenon
  <2> QED BY <2>1, <2>2
<1>9. \A i, j \in Ids' : BodyOf(i)' = BodyOf(j)' => i = j
  <2> SUFFICES ASSUME NEW i \in Ids', NEW j \in Ids', BodyOf(i)' = BodyOf(j)'
               PROVE  i = j
    OBVIOUS
  <2>1. \A h \in Ids, k \in 1..Len(rows) : BodyOf(h) # Body(rows[k])
    BY Zenon DEF Held, BodyOf
  <2>2. CASE i \in Ids /\ j \in Ids
    <3>1. BodyOf(i) = BodyOf(j)
      BY <1>5, <2>2, Zenon
    <3> QED BY <2>2, <3>1, Zenon DEF RowsHold
  <2>3. CASE i \in Ids /\ j \notin Ids
    <3>1. PICK k \in 1..Len(rows) : j = n + k
      BY <1>7, <2>3
    <3>2. BodyOf(i) = Body(rows[k])
      BY <1>5, <1>6, <2>3, <3>1, Zenon
    <3> QED BY <2>1, <2>3, <3>2, Zenon
  <2>4. CASE i \notin Ids /\ j \in Ids
    <3>1. PICK k \in 1..Len(rows) : i = n + k
      BY <1>7, <2>4
    <3>2. BodyOf(j) = Body(rows[k])
      BY <1>5, <1>6, <2>4, <3>1, Zenon
    <3> QED BY <2>1, <2>4, <3>2, Zenon
  <2>5. CASE i \notin Ids /\ j \notin Ids
    <3>1. PICK k \in 1..Len(rows) : i = n + k
      BY <1>7, <2>5
    <3>2. PICK h \in 1..Len(rows) : j = n + h
      BY <1>7, <2>5
    <3>3. Body(rows[k]) = Body(rows[h])
      BY <1>6, <3>1, <3>2, Zenon
    <3> QED BY <3>1, <3>2, <3>3, Zenon
  <2> QED BY <2>2, <2>3, <2>4, <2>5
<1>10. RowsHold'
  <2>1. world' \in Worlds
    BY DEF RowsHold
  <2>2. owed' \subseteq Ids'
    BY <1>3
  <2> QED BY <1>2, <1>8, <1>9, <2>1, <2>2, Zenon DEF RowsHold
<1> QED BY <1>1, <1>2, <1>3, <1>5, <1>6, <1>10, Zenon

LEMMA StoreLinesKeeps ==
  ASSUME IInv, NEW p \in Process, StoreLines(p), UNCHANGED world PROVE IInv'
<1> DEFINE f == Head(job[p].left)
<1>0. /\ RowsHold /\ JobsHold /\ Len(evidence) \in Nat /\ Ids = 1..Len(evidence)
      /\ job[p].step = "read" /\ owed \subseteq Ids
  BY Bounded DEF IInv, StoreLines, RowsHold
<1>1. f \in Path /\ Len(Lines[f]) \in Nat /\ MaxOffset(f) \in 0..Len(Lines[f])
  <2>1. job[p].left \in Seq(Path) /\ job[p].left # <<>>
    BY <1>0 DEF JobsHold, JobFits
  <2>2. f \in Path
    BY <2>1, HeadTailProperties
  <2> HIDE DEF f
  <2> QED BY <1>0, <2>2, Bounded, MaxOffsetIs
<1> HIDE DEF f
<1> PICK last \in MaxOffset(f) .. Len(Lines[f]) :
        LET rows == NewRows(f, MaxOffset(f) + 1, last) IN
        /\ evidence' = evidence \o rows
        /\ owed' = owed \cup (Len(evidence) + 1 .. Len(evidence) + Len(rows))
  BY DEF StoreLines, f
<1> DEFINE rows == NewRows(f, MaxOffset(f) + 1, last)
<1>2. /\ evidence' = evidence \o rows
      /\ owed' = owed \cup (Len(evidence) + 1 .. Len(evidence) + Len(rows))
  OBVIOUS
<1>2a. rows = NewRows(f, MaxOffset(f) + 1, last)
  OBVIOUS
<1> HIDE DEF rows
<1>3. /\ rows \in Seq(Entry)
      /\ \A k \in 1..Len(rows) : /\ rows[k][1] = f
                                /\ rows[k][2] \in DOMAIN Lines[f]
                                /\ ~ Held(Lines[f][rows[k][2]])
      /\ \A k, j \in 1..Len(rows) :
           Lines[f][rows[k][2]] = Lines[f][rows[j][2]] => k = j
  <2> DEFINE first == MaxOffset(f) + 1
  <2>1. first \in Nat \ {0} /\ last \in 0..Len(Lines[f])
    BY <1>1
  <2> HIDE DEF first
  <2>2. FreshRows(f, NewRows(f, first, last))
    BY <1>0, <1>1, <2>1, NewRowsAre
  <2>3. FreshRows(f, rows)
    BY <1>2a, <2>2, Zenon DEF first
  <2> QED BY <2>3, Zenon DEF FreshRows
<1>4. f # "otlp"
  BY <1>1, ProjectionAssumption
<1>5. \A k \in 1..Len(rows) : Body(rows[k]) = Lines[f][rows[k][2]]
  BY <1>3, <1>4 DEF Body
<1>6. Len(rows) \in Nat
  BY <1>3, LenProperties
<1>7. /\ RowsHold'
      /\ Len(evidence') = Len(evidence) + Len(rows)
      /\ Ids' = 1 .. Len(evidence) + Len(rows)
      /\ \A i \in Ids : BodyOf(i)' = BodyOf(i)
  <2>1. owed' \subseteq 1 .. Len(evidence) + Len(rows)
    BY <1>0, <1>2, <1>6
  <2>2. \A k \in 1..Len(rows) :
           /\ IF rows[k][1] = "otlp" THEN rows[k][2] \in DOMAIN Posts
              ELSE rows[k][1] \in Path /\ rows[k][2] \in DOMAIN Lines[rows[k][1]]
           /\ ~ Held(Body(rows[k]))
    BY <1>1, <1>3, <1>4, <1>5
  <2>3. \A k, j \in 1..Len(rows) : Body(rows[k]) = Body(rows[j]) => k = j
    <3> SUFFICES ASSUME NEW k \in 1..Len(rows), NEW j \in 1..Len(rows),
                        Body(rows[k]) = Body(rows[j])
                 PROVE  k = j
      OBVIOUS
    <3>1. /\ Body(rows[k]) = Lines[f][rows[k][2]]
          /\ Body(rows[j]) = Lines[f][rows[j][2]]
      BY <1>5
    <3>2. Lines[f][rows[k][2]] = Lines[f][rows[j][2]]
      BY <3>1, Zenon
    <3> QED BY <1>3, <3>2, Zenon
  <2> QED BY <1>0, <1>2, <1>3, <2>1, <2>2, <2>3, Grown
<1>8. Projected' = Projected
  BY <1>0, <1>2, <1>6, <1>7 DEF Projected
<1>9. TablesHold'
  <2>1. Been' = Been
    BY <1>7, <1>8 DEF Been, Projected
  <2>2. db' = db
    BY DEF StoreLines
  <2> QED BY <2>1, <2>2 DEF IInv, TablesHold
<1> DEFINE j == [kind |-> job[p].kind, step |-> "stored", left |-> job[p].left,
                 before |-> job[p].before, mem |-> job[p].mem]
<1>10. /\ Puts(p, j) /\ j.step = "stored" /\ j.before = job[p].before
       /\ j.kind = job[p].kind /\ JobFits(j, Len(evidence'))
  <2>1. JobFits(job[p], Len(evidence)) /\ job[p].left # <<>>
    BY <1>0 DEF JobsHold, JobFits
  <2>2. Puts(p, [job[p] EXCEPT !.step = "stored"])
    BY Zenon DEF StoreLines, Puts
  <2>3. [job[p] EXCEPT !.step = "stored"] = j
    <3>1. PICK k0, s0, l0, b0, m0 :
            job[p] = [kind |-> k0, step |-> s0, left |-> l0, before |-> b0, mem |-> m0]
      BY <2>1, Zenon DEF JobFits
    <3>2. PICK o : o = job[p]
      OBVIOUS
    <3>3. o = [kind |-> k0, step |-> s0, left |-> l0, before |-> b0, mem |-> m0]
      BY <3>1, <3>2, Zenon
    <3>4. [o EXCEPT !.step = "stored"]
            = [kind |-> k0, step |-> "stored", left |-> l0, before |-> b0, mem |-> m0]
      BY <3>3
    <3>5. o.kind = k0 /\ o.left = l0 /\ o.before = b0 /\ o.mem = m0
      BY <3>3
    <3> QED BY <3>2, <3>4, <3>5, Zenon DEF j
  <2> QED BY <1>0, <1>6, <1>7, <2>1, <2>2, <2>3 DEF JobFits
<1> HIDE DEF j
<1>11. \A q \in Process : job'[q] = IF q = p THEN j ELSE job[q]
  BY <1>10 DEF IInv, JobsHold, Puts
<1>12. JobsHold'
  <2>1. /\ resident' = resident /\ met' = met /\ seer' = seer /\ memory' = memory
        /\ resident \in BOOLEAN /\ met \in BOOLEAN /\ seer \in {"tail", "rebuild", "none", "many"}
    BY DEF StoreLines, IInv, JobsHold
  <2>2. ~ resident' => job'["app"] = Idle /\ memory' = NoMemory
    BY <1>0, <1>11, <2>1, BusyRuns DEF JobsHold, Process
  <2>3. p = "cli" => j.kind # "tail"
    BY <1>0, <1>10 DEF JobsHold
  <2> QED BY <1>0, <1>6, <1>7, <1>10, <2>1, <2>2, <2>3, OneJob
<1>13. AloneHolds'
  <2> SUFFICES ASSUME ~ met'
               PROVE  /\ resident' => job'["cli"] = Idle
                      /\ \A q \in Process :
                           job'[q].step \in {"read", "stored"}
                             => job'[q].before + 1 .. Len(evidence') \subseteq owed'
                      /\ job'["cli"].step = "rebuild" => owed' = Ids'
                      /\ \A c \in Call :
                           db'.edits[c] = Cardinality(Editing(c)')
    BY DEF AloneHolds
  <2>1. ~ met /\ resident' = resident /\ db' = db
    BY DEF StoreLines
  <2>2. /\ resident => job["cli"] = Idle
        /\ \A q \in Process :
             job[q].step \in {"read", "stored"} => job[q].before + 1 .. Len(evidence) \subseteq owed
        /\ \A c \in Call : db.edits[c] = Cardinality(Editing(c))
    BY <2>1 DEF IInv, AloneHolds
  <2>3. \A q \in Process : q # p => job'[q] = Idle
    <3>1. job[p] # Idle /\ (resident => p = "app") /\ (~ resident => p = "cli")
      BY <1>0, <2>1, BusyRuns
    <3>2. ~ resident => job["app"] = Idle
      BY <1>0 DEF JobsHold
    <3> QED BY <1>11, <2>2, <3>1, <3>2 DEF Process
  <2>4. job[p].before \in 0..Len(evidence) /\ job[p].before + 1 .. Len(evidence) \subseteq owed
    BY <1>0, <2>2 DEF JobsHold, JobFits
  <2>5. job[p].before + 1 .. Len(evidence') \subseteq owed'
    BY <1>0, <1>2, <1>6, <1>7, <2>4
  <2>6. \A q \in Process :
          job'[q].step \in {"read", "stored"}
            => job'[q].before + 1 .. Len(evidence') \subseteq owed'
    BY <1>10, <1>11, <2>3, <2>5, IdleFits
  <2>7. job'["cli"].step # "rebuild"
    BY <1>10, <1>11, <2>3, IdleFits DEF Process
  <2>8. resident' => job'["cli"] = Idle
    <3>1. resident => p = "app"
      BY <1>0, <2>1, BusyRuns
    <3> QED BY <2>1, <2>3, <3>1 DEF Process
  <2>9. \A c \in Call : Editing(c)' = Editing(c)
    BY <1>7, <1>8 DEF Projected, Editing
  <2> QED BY <2>1, <2>2, <2>6, <2>7, <2>8, <2>9
<1> QED BY <1>7, <1>9, <1>12, <1>13 DEF IInv

LEMMA PostKeeps == ASSUME IInv, Post, UNCHANGED world PROVE IInv'
<1>0. RowsHold /\ JobsHold /\ evidence \in Seq(Entry) /\ DOMAIN Posts \subseteq Nat
  BY Bounded DEF IInv, RowsHold
<1> PICK m \in Nat : m = Len(evidence) /\ Ids = 1..m /\ owed \subseteq 1..m
  BY <1>0, Bounded DEF RowsHold
<1>1. PICK n \in DOMAIN Posts : /\ ~ Held(Posts[n])
                               /\ evidence' = Append(evidence, <<"otlp", n>>)
                               /\ db' = ProjectOtlp(db, Posts[n])
  BY DEF Post
<1> DEFINE e == <<"otlp", n>>
           rows == <<e>>
<1>2. e[1] = "otlp" /\ e[2] = n /\ Body(e) = Posts[n] /\ e \in Entry
  <2>1. e[1] = "otlp" /\ e[2] = n
    OBVIOUS
  <2>2. n \in Nat
    BY <1>0
  <2>3. e \in Entry
    BY <2>2, Zenon DEF Entry
  <2> QED BY <2>1, <2>3, Zenon DEF Body
<1>3. evidence' = evidence \o rows
  BY <1>0, <1>1, <1>2, AppendIsConcat, Zenon
<1> HIDE DEF e
<1>4. rows \in Seq(Entry) /\ Len(rows) = 1 /\ rows[1] = e
  BY <1>2
<1> HIDE DEF rows
<1>5. /\ RowsHold'
      /\ Len(evidence') = m + 1
      /\ Ids' = 1 .. m + 1
      /\ \A i \in Ids : BodyOf(i)' = BodyOf(i)
      /\ BodyOf(m + 1)' = Posts[n]
  <2>1. owed' \subseteq 1 .. m + Len(rows)
    BY <1>4 DEF Post
  <2>2. \A k \in 1..Len(rows) : k = 1 /\ rows[k] = e
    BY <1>4
  <2>3. \A k \in 1..Len(rows) :
           /\ IF rows[k][1] = "otlp" THEN rows[k][2] \in DOMAIN Posts
              ELSE rows[k][1] \in Path /\ rows[k][2] \in DOMAIN Lines[rows[k][1]]
           /\ ~ Held(Body(rows[k]))
    BY <1>1, <1>2, <2>2, Zenon
  <2>4. \A k, j \in 1..Len(rows) : Body(rows[k]) = Body(rows[j]) => k = j
    BY <2>2, Zenon
  <2>5. /\ RowsHold'
        /\ Len(evidence') = m + Len(rows)
        /\ Ids' = 1 .. m + Len(rows)
        /\ \A i \in Ids : BodyOf(i)' = BodyOf(i)
        /\ \A k \in 1..Len(rows) : BodyOf(m + k)' = Body(rows[k])
    BY <1>0, <1>3, <1>4, <2>1, <2>3, <2>4, Grown
  <2>6. 1 \in 1..Len(rows)
    BY <1>4
  <2>7. BodyOf(m + 1)' = Posts[n]
    BY <1>2, <2>2, <2>5, <2>6, Zenon
  <2> QED BY <1>4, <2>5, <2>7
<1> DEFINE r == Posts[n]
<1>6. WellFormed(r) /\ r.lane = "otlp" /\ r \in Written(world)
  BY <1>0, BodiesAre DEF Coherent
<1>7. BodyOf(m + 1)' = r /\ db' = ProjectOtlp(db, r)
  BY <1>1, <1>5
<1> HIDE DEF r
<1>8. Effect(db, db', r)
  BY <1>6, <1>7, OtlpDoes DEF IInv, TablesHold
<1>9. /\ \A i : i \in Projected' <=> i \in Projected \/ i = m + 1
      /\ \A i \in Projected : i \in Ids
      /\ m + 1 \notin Projected
  BY <1>5 DEF Projected, Post
<1>10. TablesHold'
  <2>1. Been' = Been \cup {r}
    <3>1. \A q : q \in Been' <=> q \in Been \/ q = r
      BY <1>5, <1>7, <1>9, Zenon DEF Been
    <3> QED BY <3>1
  <2>2. Coherent(Been \cup {r})
    <3>1. Been \cup {r} \subseteq Written(world)
      BY <1>0, <1>6, <1>9, BodiesAre DEF Been
    <3> QED BY <1>0, <3>1, BodiesAre DEF Coherent
  <2>3. Shaped(db) /\ Faithful(db, Been)
    BY DEF IInv, TablesHold
  <2>4. Faithful(db', Been \cup {r})
    BY <1>8, <2>2, <2>3, FaithfulToo, Zenon
  <2>5. Shaped(db')
    BY <1>8 DEF Effect
  <2> QED BY <2>1, <2>4, <2>5, Zenon DEF TablesHold
<1>11. UNCHANGED <<resident, memory, job, met>> /\ seer' \in {"tail", "rebuild", "none", "many"}
  BY DEF Post, IInv, JobsHold
<1>12. JobsHold'
  <2>1. \A p \in Process : JobFits(job[p], m) /\ JobFits(job[p], m + 1)
    BY <1>0 DEF JobsHold, JobFits
  <2>2. \A p \in Process : JobFits(job[p], Len(evidence))'
    BY <1>5, <1>11, <2>1 DEF JobFits
  <2> QED BY <1>0, <1>11, <2>2 DEF JobsHold
<1>13. AloneHolds'
  <2> SUFFICES ASSUME ~ met'
               PROVE  /\ resident' => job'["cli"] = Idle
                      /\ \A q \in Process :
                           job'[q].step \in {"read", "stored"}
                             => job'[q].before + 1 .. Len(evidence') \subseteq owed'
                      /\ job'["cli"].step = "rebuild" => owed' = Ids'
                      /\ \A c \in Call : db'.edits[c] = Cardinality(Editing(c)')
    BY DEF AloneHolds
  <2>1. /\ resident => job["cli"] = Idle
        /\ \A c \in Call : db.edits[c] = Cardinality(Editing(c))
    BY <1>11 DEF IInv, AloneHolds
  <2>2. \A q \in Process : job'[q] = Idle
    BY <1>11, <2>1 DEF Post, Process
  <2>3. \A c \in Call : ~ Edits(r, c)
    BY <1>6 DEF Edits, WellFormed
  <2>4. ASSUME NEW c \in Call PROVE Editing(c)' = Editing(c)
    <3>1. \A i \in Projected : BodyOf(i)' = BodyOf(i)
      BY <1>5, <1>9
    <3>2. ~ Edits(BodyOf(m + 1)', c)
      BY <1>7, <2>3, Zenon
    <3>3. \A i : i \in Editing(c)' <=> i \in Editing(c)
      BY <1>9, <3>1, <3>2, Zenon DEF Editing
    <3> QED BY <3>3
  <2>5. ASSUME NEW c \in Call PROVE db'.edits[c] = db.edits[c]
    <3>1. db.edits[c] \in Nat
      BY DEF IInv, TablesHold, Shaped
    <3>2. CASE r.call = c
      BY <1>8, <2>3, <3>1, <3>2 DEF Effect
    <3>3. CASE r.call # c
      BY <1>8, <3>3 DEF Effect, SameCall
    <3> QED BY <3>2, <3>3
  <2>6. \A c \in Call : db'.edits[c] = Cardinality(Editing(c)')
    BY <2>1, <2>4, <2>5, Zenon
  <2>7. job'["cli"] = Idle /\ "cli" \in Process
    BY <2>2 DEF Process
  <2>8. Idle.step = "idle"
    BY IdleFits
  <2> QED BY <2>2, <2>6, <2>7, <2>8
<1> QED BY <1>5, <1>10, <1>12, <1>13 DEF IInv

-----------------------------------------------------------------------------
(* Records projected: a file's second transaction, and the rebuild.         *)

\* A scan from an id on has the records stored after it, in their order.
LEMMA SinceIs ==
  ASSUME RowsHold, NEW n \in Nat, n = Len(evidence), NEW b \in 0..n
  PROVE  /\ Len(Since(b)) = n - b
         /\ \A k \in 1..(n - b) : Since(b)[k] = BodyOf(b + k)
<1>1. Ids = 1..n
  BY Bounded
<1>2. \A i \in 1..n : Bodies[i] = BodyOf(i)
  BY <1>1, Zenon DEF Bodies, BodyOf, Ids
<1> PICK bodies : bodies = Bodies
  OBVIOUS
<1>3. /\ b + 1 \in Int /\ n \in Int /\ b + 1 .. n \subseteq 1..n
      /\ n - (b + 1) + 1 = n - b /\ (b + 1 <= n \/ b = n)
      /\ \A k \in 1..(n - b) : (b + 1) + k - 1 = b + k /\ b + k \in 1..n
  OBVIOUS
<1>4. \A i \in b + 1 .. n : bodies[i] \in {BodyOf(j) : j \in 1..n}
  BY <1>2, <1>3
<1>5. /\ Len(SubSeq(bodies, b + 1, n)) = IF b + 1 <= n THEN n - (b + 1) + 1 ELSE 0
      /\ \A k \in 1 .. n - (b + 1) + 1 : SubSeq(bodies, b + 1, n)[k] = bodies[(b + 1) + k - 1]
  BY <1>3, <1>4, SubSeqProperties
<1>6. Since(b) = SubSeq(bodies, b + 1, n)
  BY Zenon DEF Since
<1>7. Len(Since(b)) = n - b
  BY <1>3, <1>5, <1>6
<1>8. \A k \in 1..(n - b) : Since(b)[k] = bodies[b + k]
  BY <1>3, <1>5, <1>6
<1> QED BY <1>2, <1>3, <1>7, <1>8, Zenon

\* The records of rs are those stored after b; T are the ids of those in K;
\* once they have been projected no one else needs to; and the changes of files
\* recorded are those among the records projected.
StoredAfter(rs, b, N) == \A k \in 1..N : rs[k] = BodyOf(b + k)
IdsAre(T, K, b, n) == \A i : i \in T <=> i \in b + 1 .. n /\ i - b \in K
Settles(T) == \A i : i \in owed' <=> i \in owed /\ i \notin T
Recorded == \A c \in Call : db.edits[c] = Cardinality(Editing(c))

\* A transaction that projects some of the records stored after b, and does
\* what needs the whole stream, has the tables say them too; and when none of
\* them had been projected before, their changes of files are recorded once.
LEMMA Projecting ==
  ASSUME IInv, NEW n \in Nat, n = Len(evidence), NEW b \in 0..n, NEW N \in Nat, N = n - b,
         NEW rs, StoredAfter(rs, b, N),
         NEW K \in SUBSET (1..N), NEW e, NEW mem,
         Adds(db, e, Been, rs, K, b, N),
         NEW T, IdsAre(T, K, b, n),
         UNCHANGED <<world, evidence>>, db' = Finish(e, mem), Settles(T)
  PROVE  /\ RowsHold' /\ TablesHold'
         /\ Recorded /\ T \subseteq owed => Recorded'
<1>0. /\ \A k \in 1..N : rs[k] = BodyOf(b + k)
      /\ \A i : i \in T <=> i \in b + 1 .. n /\ i - b \in K
      /\ \A i : i \in owed' <=> i \in owed /\ i \notin T
      /\ Shaped(e) /\ Faithful(e, SaidBy(Been, rs, K, N))
      /\ \A c \in Call : e.edits[c] = db.edits[c] + Cardinality(Changes(rs, K, b, N, c))
  BY Zenon DEF StoredAfter, IdsAre, Settles, Adds
<1>1. RowsHold /\ Ids = 1..n /\ owed \subseteq 1..n
  BY Bounded DEF IInv, RowsHold
<1>2. /\ Ids' = Ids /\ \A i : BodyOf(i)' = BodyOf(i)
      /\ Posts' = Posts /\ Lines' = Lines
  BY DEF Ids, BodyOf, Body, Lines, Posts
<1>3. /\ \A i \in T : i \in 1..n /\ i - b \in K /\ i = b + (i - b) /\ i - b <= N
      /\ \A k \in K : b + k \in T /\ (b + k) - b = k /\ k <= N
      /\ \A i : i \in b + 1 .. b + N <=> i \in b + 1 .. n
      /\ \A k \in K : k \in 1..N
  <2>1. \A k \in K : k \in 1..N
    OBVIOUS
  <2>2. \A k \in K : b + k \in b + 1 .. n /\ (b + k) - b = k /\ k <= N
    BY <2>1
  <2>3. \A i \in b + 1 .. n : i \in 1..n /\ i = b + (i - b) /\ i - b <= N
    OBVIOUS
  <2>4. \A i : i \in b + 1 .. b + N <=> i \in b + 1 .. n
    OBVIOUS
  <2> QED BY <1>0, <2>1, <2>2, <2>3, <2>4, Zenon
<1>4. RowsHold'
  <2>1. owed' \subseteq Ids
    BY <1>0, <1>1
  <2> QED BY <1>1, <1>2, <2>1 DEF RowsHold, Ids
<1>5. \A i : i \in Projected' <=> i \in Projected \/ i \in T
  BY <1>0, <1>1, <1>2, <1>3 DEF Projected
<1>6. Been' = SaidBy(Been, rs, K, N)
  <2>1. ASSUME NEW i \in T PROVE \E k \in K : k <= N /\ BodyOf(i) = rs[k]
    <3>1. i - b \in K /\ i - b \in 1..N /\ rs[i - b] = BodyOf(b + (i - b))
      BY <1>0, <1>3
    <3> QED BY <1>3, <3>1, Zenon
  <2>2. ASSUME NEW k \in K PROVE rs[k] = BodyOf(b + k) /\ b + k \in T
    BY <1>0, <1>3
  <2>3. \A q : q \in Been' <=> \E i \in Projected' : q = BodyOf(i)
    BY <1>2, Zenon DEF Been
  <2>4. \A q : q \in Been <=> \E i \in Projected : q = BodyOf(i)
    BY Zenon DEF Been
  <2>5. \A q : q \in SaidBy(Been, rs, K, N) <=> q \in Been \/ \E k \in K : k <= N /\ q = rs[k]
    BY Zenon DEF SaidBy
  <2>6. ASSUME NEW q, q \in Been' PROVE q \in SaidBy(Been, rs, K, N)
    <3>1. PICK i \in Projected' : q = BodyOf(i)
      BY <2>3, <2>6
    <3>2. CASE i \in Projected
      BY <2>4, <2>5, <3>1, <3>2, Zenon
    <3>3. CASE i \in T
      BY <2>1, <2>5, <3>1, <3>3, Zenon
    <3> QED BY <1>5, <3>2, <3>3
  <2>7. ASSUME NEW q, q \in SaidBy(Been, rs, K, N) PROVE q \in Been'
    <3>1. CASE q \in Been
      BY <1>5, <2>3, <2>4, <3>1, Zenon
    <3>2. CASE \E k \in K : k <= N /\ q = rs[k]
      BY <1>5, <2>2, <2>3, <3>2, Zenon
    <3> QED BY <2>5, <2>7, <3>1, <3>2
  <2> QED BY <2>6, <2>7
<1>7. Coherent(Been')
  <2>1. \A q \in Been' : q \in Written(world)
    <3>1. \A i \in Projected' : i \in Ids
      BY <1>2 DEF Projected
    <3>2. \A i \in Ids : BodyOf(i) \in Written(world)
      BY <1>1, BodiesAre
    <3> QED BY <1>2, <3>1, <3>2, Zenon DEF Been
  <2>2. Coherent(Written(world))
    BY <1>1, BodiesAre
  <2> QED BY <2>1, <2>2, Zenon DEF Coherent
<1>8. /\ Shaped(db')
      /\ \A c \in Call : SameCall(e, db', c)
      /\ \A x \in Session : SameSpan(e, db', x)
  BY <1>0, FinishDoes
<1>9. TablesHold'
  <2>0. Shaped(e) /\ Faithful(e, SaidBy(Been, rs, K, N))
    BY <1>0
  <2>1. Faithful(e, Been')
    BY <1>6, <2>0
  <2>2. Faithful(db', Been')
    BY <1>7, <1>8, <2>0, <2>1, FaithfulStill, Zenon
  <2> QED BY <1>8, <2>2, Zenon DEF TablesHold
<1>10. ASSUME Recorded, T \subseteq owed, NEW c \in Call
       PROVE  db'.edits[c] = Cardinality(Editing(c)')
  <2> PICK ch : ch = Changes(rs, K, b, N, c)
    OBVIOUS
  <2> PICK ed : ed = Editing(c)
    OBVIOUS
  <2>1. \A i : i \in ch <=> i \in T /\ Edits(BodyOf(i), c)
    <3>1. \A i : i \in ch <=> i \in b + 1 .. b + N /\ i - b \in K /\ Edits(rs[i - b], c)
      BY Zenon DEF Changes
    <3>2. \A i \in T : rs[i - b] = BodyOf(i)
      <4> SUFFICES ASSUME NEW i \in T PROVE rs[i - b] = BodyOf(i)
        OBVIOUS
      <4>1. i - b \in 1..N /\ rs[i - b] = BodyOf(b + (i - b)) /\ i = b + (i - b)
        BY <1>0, <1>3
      <4> QED BY <4>1, Zenon
    <3>3. \A i : i \in T <=> i \in b + 1 .. b + N /\ i - b \in K
      BY <1>0, <1>3, Zenon
    <3>4. \A i : i \in ch <=> i \in T /\ Edits(rs[i - b], c)
      BY <3>1, <3>3, Zenon
    <3>5. ASSUME NEW i \in T PROVE Edits(rs[i - b], c) <=> Edits(BodyOf(i), c)
      <4>1. rs[i - b] = BodyOf(i)
        BY <3>2
      <4> QED BY <4>1, Zenon
    <3> QED BY <3>4, <3>5, Zenon
  <2>2. \A i : i \in ed <=> i \in Projected /\ Edits(BodyOf(i), c)
    BY Zenon DEF Editing
  <2>3. \A i : i \in Editing(c)' <=> i \in Projected' /\ Edits(BodyOf(i), c)
    BY <1>2, Zenon DEF Editing
  <2>4. Editing(c)' = ed \cup ch
    <3>1. \A i : i \in Editing(c)' <=> i \in ed \/ i \in ch
      BY <1>5, <2>1, <2>2, <2>3, Zenon
    <3> QED BY <3>1
  <2>5. ed \cap ch = {}
    <3>1. \A i \in T : i \notin Projected
      BY <1>10 DEF Projected
    <3>2. \A i : ~ (i \in ed /\ i \in ch)
      BY <2>1, <2>2, <3>1, Zenon
    <3> QED BY <3>2
  <2>6. IsFiniteSet(ed) /\ IsFiniteSet(ch) /\ Cardinality(ed) \in Nat /\ Cardinality(ch) \in Nat
    <3>1. ed \in SUBSET (1..n) /\ ch \in SUBSET (1..n)
      <4>1. \A i : (i \in Projected => i \in 1..n) /\ (i \in T => i \in 1..n)
        BY <1>1, <1>3 DEF Projected
      <4>2. (\A i \in ed : i \in 1..n) /\ (\A i \in ch : i \in 1..n)
        BY <2>1, <2>2, <4>1, Zenon
      <4>3. ed \subseteq 1..n /\ ch \subseteq 1..n
        BY <4>2, Zenon
      <4> QED BY <4>3, Zenon
    <3>2. IsFiniteSet(1..n)
      BY FS_Interval
    <3> QED BY <3>1, <3>2, FS_Subset, FS_CardinalityType
  <2>7. Cardinality(ed \cup ch) = Cardinality(ed) + Cardinality(ch) - Cardinality(ed \cap ch)
    BY <2>6, FS_Union, Zenon
  <2>8. Cardinality(ed \cap ch) = 0
    BY <2>5, FS_EmptySet, Zenon
  <2>9. Cardinality(Editing(c)') = Cardinality(ed) + Cardinality(ch) - Cardinality(ed \cap ch)
    BY <2>4, <2>7, Zenon
  <2>10. db'.edits[c] = e.edits[c]
    BY <1>8, Zenon DEF SameCall
  <2>11. e.edits[c] = Cardinality(ed) + Cardinality(ch)
    BY <1>0, <1>10, Zenon DEF Recorded
  <2> QED BY <2>6, <2>8, <2>9, <2>10, <2>11
<1>11. Recorded /\ T \subseteq owed => Recorded'
  BY <1>10, Zenon DEF Recorded
<1> QED BY <1>4, <1>9, <1>11, Zenon

\* Second transaction of a file.
LEMMA ProjectRowsKeeps ==
  ASSUME IInv, NEW p \in Process, ProjectRows(p), UNCHANGED world PROVE IInv'
<1>0. /\ RowsHold /\ JobsHold /\ job[p].step = "stored" /\ JobFits(job[p], Len(evidence))
      /\ UNCHANGED <<evidence, resident, met, spent>>
  BY DEF IInv, JobsHold, ProjectRows
<1> PICK n \in Nat : n = Len(evidence) /\ Ids = 1..n /\ owed \subseteq 1..n
  BY <1>0, Bounded DEF RowsHold
<1> PICK b \in 0..n : b = job[p].before
  BY <1>0 DEF JobFits
<1> PICK N \in Nat : N = n - b
  OBVIOUS
<1> PICK rs : rs = Since(job[p].before)
  OBVIOUS
<1> PICK s : s = ReplayTranscript([db |-> db, mem |-> job[p].mem], rs)
  OBVIOUS
<1> PICK T : T = Scanned(job[p].before)
  OBVIOUS
<1> DEFINE K == {k \in 1..N : rs[k].lane = "transcript"}
<1>1. N = Len(rs) /\ \A k \in 1..N : rs[k] = BodyOf(b + k)
  <2>1. Len(Since(b)) = n - b /\ \A k \in 1..(n - b) : Since(b)[k] = BodyOf(b + k)
    BY <1>0, SinceIs
  <2>2. rs = Since(b)
    BY Zenon
  <2> QED BY <2>1, <2>2, Zenon
<1>2. /\ db' = Finish(s.db, s.mem) /\ Remember(p, s.mem) /\ Advance(p, s.mem)
      /\ owed' = owed \ T
      /\ seer' \in {"tail", "rebuild", "none", "many"}
  <2>1. /\ db' = Finish(s.db, s.mem) /\ Remember(p, s.mem) /\ Advance(p, s.mem)
        /\ owed' = owed \ T
    BY Zenon DEF ProjectRows
  <2>2. seer' \in {seer, "many"}
    BY Zenon DEF ProjectRows
  <2> QED BY <1>0, <2>1, <2>2 DEF JobsHold
<1>3. /\ K \in SUBSET (1..N)
      /\ \A k \in 1..N : k \in K <=> rs[k].lane = "transcript"
  OBVIOUS
<1> HIDE DEF K
<1>4. Coherent(SaidBy(Been, rs, K, N))
  <2>1. \A i \in Ids : BodyOf(i) \in Written(world)
    BY <1>0, BodiesAre
  <2>2. \A k \in K : b + k \in Ids /\ rs[k] = BodyOf(b + k)
    <3> SUFFICES ASSUME NEW k \in K PROVE b + k \in Ids /\ rs[k] = BodyOf(b + k)
      OBVIOUS
    <3>1. k \in 1..N
      BY <1>3
    <3> QED BY <1>1, <3>1
  <2>3. \A i \in Projected : i \in Ids
    BY DEF Projected
  <2>4. \A q \in SaidBy(Been, rs, K, N) : q \in Written(world)
    BY <2>1, <2>2, <2>3, Zenon DEF SaidBy, Been
  <2>5. Coherent(Written(world))
    BY <1>0, BodiesAre
  <2> QED BY <2>4, <2>5, Zenon DEF Coherent
<1>5. Shaped(db) /\ Faithful(db, Been)
  BY DEF IInv, TablesHold
<1> PICK s0 : s0 = [db |-> db, mem |-> job[p].mem]
  OBVIOUS
<1>6. Shaped(s0.db) /\ Faithful(s0.db, Been)
  <2>1. s0.db = db
    OBVIOUS
  <2> QED BY <1>5, <2>1, Zenon
<1>7. TranscriptsAre(K, rs, N)
  BY <1>3, Zenon DEF TranscriptsAre
<1>8. Adds(db, s.db, Been, rs, K, b, N)
  <2>1. b \in Nat /\ N = Len(rs)
    BY <1>1
  <2>2. Adds(s0.db, ReplayTranscript(s0, rs).db, Been, rs, K, b, N)
    BY <1>3, <1>4, <1>6, <1>7, <2>1, TranscriptTold
  <2>3. s0.db = db
    OBVIOUS
  <2>4. s = ReplayTranscript(s0, rs)
    BY Zenon
  <2> QED BY <2>2, <2>3, <2>4, Zenon
<1>9. StoredAfter(rs, b, N)
  BY <1>1, Zenon DEF StoredAfter
<1>10. \A i : i \in T <=> i \in b + 1 .. n /\ i - b \in K
  <2> SUFFICES ASSUME NEW i
               PROVE  i \in T <=> i \in b + 1 .. n /\ i - b \in K
    OBVIOUS
  <2>1. i \in T <=> i \in b + 1 .. n /\ BodyOf(i).lane = "transcript"
    BY Zenon DEF Scanned, BodyOf
  <2>2. ASSUME i \in b + 1 .. n PROVE i - b \in 1..N /\ BodyOf(i) = rs[i - b]
    <3>1. i - b \in 1..N /\ b + (i - b) = i
      BY <2>2, SMTT(30)
    <3> QED BY <1>1, <3>1
  <2> QED BY <1>3, <2>1, <2>2, Zenon
<1>11. /\ RowsHold' /\ TablesHold'
       /\ Recorded /\ T \subseteq owed => Recorded'
  <2>1. Settles(T)
    BY <1>2, Zenon DEF Settles
  <2>2. db' = Finish(s.db, s.mem)
    BY <1>2, Zenon
  <2>3. UNCHANGED <<world, evidence>>
    BY <1>0
  <2>4. IdsAre(T, K, b, n)
    BY <1>10, Zenon DEF IdsAre
  <2> QED BY <1>3, <1>8, <1>9, <2>1, <2>2, <2>3, <2>4, Projecting
<1>12. PICK j : /\ Puts(p, j)
                /\ \A m \in Nat : JobFits(j, m)
                /\ j.step \in {"idle", "next", "clear"}
                /\ p = "cli" => j.kind # "tail"
  BY <1>0, <1>2, AdvanceDoes
<1>13. \A q \in Process : job'[q] = IF q = p THEN j ELSE job[q]
  BY <1>12 DEF IInv, JobsHold, Puts
<1>14. /\ job[p] # Idle
       /\ p = "app" => resident
       /\ ~ met /\ resident => p = "app"
       /\ ~ resident => p = "cli" /\ job[p].kind # "tail"
  BY <1>0, BusyRuns
<1>15. JobsHold'
  <2>1. ~ resident' => job'["app"] = Idle /\ memory' = NoMemory
    BY <1>0, <1>2, <1>13, <1>14 DEF JobsHold, Process, Remember
  <2>2. n = Len(evidence') /\ JobFits(j, n) /\ resident' \in BOOLEAN /\ met' \in BOOLEAN
    BY <1>0, <1>12 DEF JobsHold
  <2> QED BY <1>0, <1>2, <1>12, <2>1, <2>2, OneJob
<1>16. AloneHolds'
  <2> SUFFICES ASSUME ~ met'
               PROVE  /\ resident' => job'["cli"] = Idle
                      /\ \A q \in Process :
                           job'[q].step \in {"read", "stored"}
                             => job'[q].before + 1 .. Len(evidence') \subseteq owed'
                      /\ job'["cli"].step = "rebuild" => owed' = Ids'
                      /\ \A c \in Call : db'.edits[c] = Cardinality(Editing(c)')
    BY DEF AloneHolds
  <2>1. /\ resident => job["cli"] = Idle
        /\ \A q \in Process :
             job[q].step \in {"read", "stored"} => job[q].before + 1 .. Len(evidence) \subseteq owed
        /\ \A c \in Call : db.edits[c] = Cardinality(Editing(c))
    BY <1>0 DEF IInv, AloneHolds
  <2>2. \A q \in Process : q # p => job'[q] = Idle
    BY <1>0, <1>13, <1>14, <2>1 DEF JobsHold, Process
  <2>3. \A q \in Process : job'[q].step \notin {"read", "stored", "rebuild"}
    BY <1>12, <1>13, <2>2, IdleFits
  <2>4. T \subseteq owed
    <3>1. b + 1 .. n \subseteq owed
      BY <1>0, <2>1
    <3> QED BY <1>10, <3>1
  <2>5. resident' => job'["cli"] = Idle
    BY <1>0, <1>14, <2>2 DEF Process
  <2>6. \A c \in Call : db'.edits[c] = Cardinality(Editing(c)')
    <3>1. Recorded
      BY <2>1, Zenon DEF Recorded
    <3>2. Recorded'
      BY <1>11, <2>4, <3>1, Zenon
    <3> QED BY <3>2, Zenon DEF Recorded
  <2> QED BY <2>3, <2>5, <2>6 DEF Process
<1> QED BY <1>11, <1>15, <1>16 DEF IInv

\* Tables with no rows say what no record says.
LEMMA NothingBeen ==
  ASSUME owed = Ids, db = NoRows
  PROVE  TablesHold /\ Recorded
<1>1. Projected = {}
  BY DEF Projected
<1>2. Been = {} /\ \A c \in Call : Editing(c) = {}
  BY <1>1 DEF Been, Editing
<1>3. Cardinality({}) = 0
  BY FS_EmptySet
<1>4. \A c \in Call : NoRows.edits[c] = 0
  BY DEF NoRows
<1>5. Recorded
  BY <1>2, <1>3, <1>4, Zenon DEF Recorded
<1>6. TablesHold
  BY <1>2, NoRowsShaped, NoRowsFaithful, Zenon DEF TablesHold
<1> QED BY <1>5, <1>6

LEMMA ClearKeeps == ASSUME IInv, Clear, UNCHANGED world PROVE IInv'
<1>1. /\ RowsHold /\ JobsHold /\ job["cli"].step = "clear" /\ "cli" \in Process
      /\ db' = NoRows /\ owed' = Ids /\ seer' = "none" /\ met' = resident
      /\ UNCHANGED <<world, evidence, resident, memory>>
  BY DEF IInv, Clear, Process
<1> PICK n \in Nat : n = Len(evidence)
  BY <1>1, Bounded
<1>2. /\ Ids' = Ids /\ owed' = Ids' /\ \A i : BodyOf(i)' = BodyOf(i)
      /\ Posts' = Posts /\ Lines' = Lines
  BY <1>1 DEF Ids, BodyOf, Body, Lines, Posts
<1>3. RowsHold'
  BY <1>1, <1>2 DEF RowsHold
<1>4. TablesHold' /\ Recorded'
  <2>1. (owed = Ids)' /\ (db = NoRows)'
    BY <1>1, <1>2
  <2>2. (owed = Ids /\ db = NoRows => TablesHold /\ Recorded)'
    BY NothingBeen, PTL
  <2> QED BY <2>1, <2>2
<1> PICK o : o = job["cli"]
  OBVIOUS
<1>5. JobFits(o, n) /\ o.kind # "tail"
  BY <1>1, Zenon DEF JobsHold
<1> DEFINE j == [kind |-> o.kind, step |-> "rebuild", left |-> o.left, before |-> o.before,
                 mem |-> o.mem]
<1>6. /\ Puts("cli", j)
      /\ JobFits(j, n) /\ j.kind # "tail" /\ j.step = "rebuild"
  <2>1. Puts("cli", [o EXCEPT !.step = "rebuild"])
    BY Zenon DEF Clear, Puts
  <2>2. [o EXCEPT !.step = "rebuild"] = j
    <3>1. PICK k0, s0, l0, b0, m0 :
            o = [kind |-> k0, step |-> s0, left |-> l0, before |-> b0, mem |-> m0]
      BY <1>5, Zenon DEF JobFits
    <3>2. [o EXCEPT !.step = "rebuild"]
            = [kind |-> k0, step |-> "rebuild", left |-> l0, before |-> b0, mem |-> m0]
      BY <3>1
    <3>3. o.kind = k0 /\ o.left = l0 /\ o.before = b0 /\ o.mem = m0
      BY <3>1
    <3> QED BY <3>2, <3>3, Zenon DEF j
  <2>3. Puts("cli", j)
    BY <2>1, <2>2, Zenon
  <2> QED BY <1>5, <2>3 DEF JobFits
<1> HIDE DEF j
<1>7. \A q \in Process : job'[q] = IF q = "cli" THEN j ELSE job[q]
  BY <1>1, <1>6 DEF JobsHold, Puts
<1>8. JobsHold'
  <2>1. ~ resident' => job'["app"] = Idle /\ memory' = NoMemory
    BY <1>1, <1>7 DEF JobsHold, Process
  <2>2. n = Len(evidence') /\ Len(evidence) <= n /\ resident' \in BOOLEAN /\ met' \in BOOLEAN
    BY <1>1 DEF JobsHold
  <2>3. seer' \in {"tail", "rebuild", "none", "many"}
    BY <1>1
  <2>4. "cli" = "cli" => j.kind # "tail"
    BY <1>6
  <2> QED BY <1>1, <1>6, <2>1, <2>2, <2>3, <2>4, OneJob
<1>9. AloneHolds'
  <2> SUFFICES ASSUME ~ met'
               PROVE  /\ resident' => job'["cli"] = Idle
                      /\ \A q \in Process :
                           job'[q].step \in {"read", "stored"}
                             => job'[q].before + 1 .. Len(evidence') \subseteq owed'
                      /\ job'["cli"].step = "rebuild" => owed' = Ids'
                      /\ \A c \in Call : db'.edits[c] = Cardinality(Editing(c)')
    BY DEF AloneHolds
  <2>1. ~ resident'
    BY <1>1
  <2>2. \A q \in Process : job'[q].step \notin {"read", "stored"}
    BY <1>6, <1>7, <1>8, <2>1, IdleFits DEF JobsHold, Process
  <2>3. \A c \in Call : db'.edits[c] = Cardinality(Editing(c)')
    BY <1>4, Zenon DEF Recorded
  <2> QED BY <1>2, <2>1, <2>2, <2>3
<1> QED BY <1>3, <1>4, <1>8, <1>9 DEF IInv

LEMMA RebuildKeeps == ASSUME IInv, Rebuild, UNCHANGED world PROVE IInv'
<1>1. /\ RowsHold /\ JobsHold /\ job["cli"].step = "rebuild" /\ "cli" \in Process
      /\ owed' = {}
      /\ UNCHANGED <<world, evidence, resident, memory, met>>
      /\ Puts("cli", Idle)
      /\ seer' \in {"tail", "rebuild", "none", "many"}
  BY DEF IInv, Rebuild, Process, Puts, JobsHold
<1> PICK n \in Nat : n = Len(evidence) /\ Ids = 1..n /\ owed \subseteq 1..n
  BY <1>1, Bounded DEF RowsHold
<1> PICK rs : rs = Bodies
  OBVIOUS
<1> PICK s0 : s0 = [db |-> db, mem |-> NoMemory]
  OBVIOUS
<1> PICK s : s = ReplayBoth(s0, rs)
  OBVIOUS
<1>2. db' = Finish(s.db, s.mem)
  BY Zenon DEF Rebuild
<1>3. n = Len(rs) /\ \A k \in 1..n : rs[k] = BodyOf(k)
  <2>1. Bodies = [i \in 1..n |-> BodyOf(i)]
    BY Zenon DEF Bodies, BodyOf, Ids
  <2>2. rs = [i \in 1..n |-> BodyOf(i)]
    BY <2>1, Zenon
  <2> QED BY <2>2
<1>4. StoredAfter(rs, 0, n)
  <2>1. \A k \in 1..n : 0 + k = k
    OBVIOUS
  <2> QED BY <1>3, <2>1, Zenon DEF StoredAfter
<1>5. Coherent(SaidBy(Been, rs, 1..n, n))
  <2>1. \A i \in Ids : BodyOf(i) \in Written(world)
    BY <1>1, BodiesAre
  <2>2. \A i \in Projected : i \in Ids
    BY DEF Projected
  <2>3. \A q \in SaidBy(Been, rs, 1..n, n) : q \in Written(world)
    BY <1>3, <2>1, <2>2, Zenon DEF SaidBy, Been
  <2>4. Coherent(Written(world))
    BY <1>1, BodiesAre
  <2> QED BY <2>3, <2>4, Zenon DEF Coherent
<1>6. Shaped(s0.db) /\ Faithful(s0.db, Been)
  <2>1. s0.db = db
    OBVIOUS
  <2>2. Shaped(db) /\ Faithful(db, Been)
    BY DEF IInv, TablesHold
  <2> QED BY <2>1, <2>2, Zenon
<1>7. Adds(db, s.db, Been, rs, 1..n, 0, n)
  <2>1. Adds(s0.db, ReplayBoth(s0, rs).db, Been, rs, 1..n, 0, n)
    <3>1. 0 \in Nat /\ n = Len(rs)
      BY <1>3
    <3> QED BY <1>5, <1>6, <3>1, BothTold, Zenon
  <2>2. s0.db = db
    OBVIOUS
  <2> QED BY <2>1, <2>2, Zenon
<1>8. /\ RowsHold' /\ TablesHold'
      /\ Recorded /\ Ids \subseteq owed => Recorded'
  <2>1. IdsAre(Ids, 1..n, 0, n)
    <3>1. \A i : i \in 1..n <=> i \in 0 + 1 .. n /\ i - 0 \in 1..n
      OBVIOUS
    <3> QED BY <3>1, Zenon DEF IdsAre
  <2>2. Settles(Ids)
    BY <1>1 DEF Settles
  <2>3. UNCHANGED <<world, evidence>>
    BY <1>1
  <2>4. 0 \in 0..n /\ n = n - 0 /\ 1..n \in SUBSET (1..n)
    OBVIOUS
  <2> QED BY <1>2, <1>4, <1>7, <2>1, <2>2, <2>3, <2>4, Projecting, Zenon
<1>9. \A q \in Process : job'[q] = IF q = "cli" THEN Idle ELSE job[q]
  BY <1>1 DEF JobsHold, Puts
<1>10. JobsHold'
  <2>1. ~ resident' => job'["app"] = Idle /\ memory' = NoMemory
    BY <1>1, <1>9 DEF JobsHold, Process
  <2>2. n = Len(evidence') /\ Len(evidence) <= n /\ resident' \in BOOLEAN /\ met' \in BOOLEAN
    BY <1>1 DEF JobsHold
  <2>3. JobFits(Idle, n) /\ ("cli" = "cli" => Idle.kind # "tail")
    BY IdleFits
  <2> QED BY <1>1, <2>1, <2>2, <2>3, OneJob
<1>11. AloneHolds'
  <2> SUFFICES ASSUME ~ met'
               PROVE  /\ resident' => job'["cli"] = Idle
                      /\ \A q \in Process :
                           job'[q].step \in {"read", "stored"}
                             => job'[q].before + 1 .. Len(evidence') \subseteq owed'
                      /\ job'["cli"].step = "rebuild" => owed' = Ids'
                      /\ \A c \in Call : db'.edits[c] = Cardinality(Editing(c)')
    BY DEF AloneHolds
  <2>1. /\ ~ resident /\ owed = Ids /\ Recorded
    BY <1>1, BusyRuns, IdleFits DEF IInv, AloneHolds, Recorded, JobsHold, Process
  <2>2. \A q \in Process : job'[q] = Idle
    BY <1>1, <1>9, <2>1 DEF JobsHold, Process
  <2>3. \A c \in Call : db'.edits[c] = Cardinality(Editing(c)')
    BY <1>8, <2>1, Zenon DEF Recorded
  <2> QED BY <1>1, <2>2, <2>3, IdleFits DEF Process
<1> QED BY <1>8, <1>10, <1>11 DEF IInv

-----------------------------------------------------------------------------
(* The theorems.                                                            *)

LEMMA InitHolds == Init => IInv
<1> SUFFICES ASSUME Init PROVE IInv
  OBVIOUS
<1>1. evidence = <<>> /\ Len(evidence) = 0 /\ Ids = {} /\ owed = {} /\ db = NoRows
  BY DEF Init, Ids
<1>2. RowsHold
  BY <1>1, EmptySeq DEF RowsHold, Init
<1>3. TablesHold /\ Recorded
  BY <1>1, NothingBeen
<1>4. job = [p \in Process |-> Idle] /\ "cli" \in Process /\ "app" \in Process
  BY DEF Init, Process
<1>5. \A p \in Process : job[p] = Idle
  BY <1>4
<1>6. JobsHold
  <2>1. \A p \in Process : JobFits(job[p], Len(evidence))
    BY <1>1, <1>5, IdleFits
  <2>2. job = [p \in Process |-> job[p]]
    BY <1>4
  <2> QED BY <1>4, <1>5, <2>1, <2>2, IdleFits DEF JobsHold, Init
<1>7. AloneHolds
  BY <1>3, <1>4, <1>5, IdleFits DEF AloneHolds, Recorded
<1> QED BY <1>2, <1>3, <1>6, <1>7 DEF IInv

\* Every step of either process keeps it.
LEMMA StepKeeps == IInv /\ [Next]_vars => IInv'
<1> SUFFICES ASSUME IInv, [Next]_vars PROVE IInv'
  OBVIOUS
<1>1. CASE UNCHANGED vars
  <2>1. UNCHANGED <<world, evidence, db, resident, memory, job, owed, seer, met>>
    BY <1>1 DEF vars
  <2>2. Ids' = Ids /\ Posts' = Posts /\ Lines' = Lines /\ \A i : BodyOf(i)' = BodyOf(i)
    BY <2>1 DEF Ids, Posts, Lines, BodyOf, Body
  <2>3. Projected' = Projected
    BY <2>1, <2>2 DEF Projected
  <2>4. Been' = Been /\ \A c \in Call : Editing(c)' = Editing(c)
    BY <2>2, <2>3 DEF Been, Editing
  <2>5. RowsHold' /\ JobsHold' /\ TablesHold'
    BY <2>1, <2>2, <2>4 DEF IInv, RowsHold, JobsHold, TablesHold
  <2>6. AloneHolds'
    BY <2>1, <2>2, <2>4 DEF IInv, AloneHolds
  <2> QED BY <2>5, <2>6 DEF IInv
<1>2. CASE Next
  <2>0. UNCHANGED world
    BY <1>2 DEF Next
  <2>1. CASE Burst
    BY <2>0, <2>1, BurstKeeps
  <2>2. CASE CatchUp
    BY <2>0, <2>2, CatchUpKeeps
  <2>3. CASE Backfill
    BY <2>0, <2>3, BackfillKeeps
  <2>4. CASE Post
    BY <2>0, <2>4, PostKeeps
  <2>5. CASE Clear
    BY <2>0, <2>5, ClearKeeps
  <2>6. CASE Rebuild
    BY <2>0, <2>6, RebuildKeeps
  <2>7. CASE FailRebuild
    BY <2>0, <2>7, FailRebuildKeeps
  <2>8. CASE Exit
    BY <2>0, <2>8, ExitKeeps
  <2>9. CASE Start
    BY <2>0, <2>9, StartKeeps
  <2>10. CASE Kill
    BY <2>0, <2>10, KillKeeps
  <2>11. ASSUME NEW p \in Process, OpenFile(p) PROVE IInv'
    BY <2>0, <2>11, OpenFileKeeps
  <2>12. ASSUME NEW p \in Process, StoreLines(p) PROVE IInv'
    BY <2>0, <2>12, StoreLinesKeeps
  <2>13. ASSUME NEW p \in Process, ProjectRows(p) PROVE IInv'
    BY <2>0, <2>13, ProjectRowsKeeps
  <2>14. ASSUME NEW p \in Process, FailFile(p) PROVE IInv'
    BY <2>0, <2>14, FailFileKeeps
  <2> QED BY <1>2, <2>1, <2>2, <2>3, <2>4, <2>5, <2>6, <2>7, <2>8, <2>9, <2>10,
             <2>11, <2>12, <2>13, <2>14, Zenon DEF Next
<1> QED BY <1>1, <1>2

LEMMA InvariantHolds == Spec => []IInv
<1> QED BY InitHolds, StepKeeps, PTL DEF Spec

\* What the invariant says of a call's row: the lanes its records came from,
\* what they can tell of it, and how often a change of files was recorded.
LEMMA RowsTell == IInv => ProjectionInv
<1> SUFFICES ASSUME IInv PROVE ProjectionInv
  OBVIOUS
<1>1. RowsHold /\ JobsHold /\ Shaped(db) /\ WitnessedBy(db, Been)
  BY DEF IInv, TablesHold, Faithful
<1>2. \A i \in Ids : BodyOf(i).lane \in Lane
  BY <1>1, BodiesAre DEF Lane
<1>3. \A i \in Projected : i \in Ids
  BY DEF Projected
<1>4. TypeOK
  <2>1. \A i, j \in Ids : Body(evidence[i]) = Body(evidence[j]) => i = j
    BY <1>1, Zenon DEF RowsHold, BodyOf
  <2>2. \A i \in Ids : Body(evidence[i]).lane \in Lane
    BY <1>2, Zenon DEF BodyOf
  <2>3. \A c \in Call : /\ db.lanes[c] \subseteq Lane
                        /\ db.call[c] # NoRow => Has(db, c)
                        /\ db.edits[c] \in Nat
    BY <1>1 DEF Shaped
  <2>4. \A p \in Process : job[p].before <= Len(evidence)
    BY <1>1, Bounded DEF JobsHold, JobFits
  <2>5. /\ resident \in BOOLEAN /\ met \in BOOLEAN /\ owed \subseteq Ids
        /\ seer \in {"tail", "rebuild", "none", "many"}
        /\ ~ resident => job["app"] = Idle /\ memory = NoMemory
    BY <1>1 DEF JobsHold, RowsHold
  <2> QED BY <2>1, <2>2, <2>3, <2>4, <2>5, Zenon DEF TypeOK
<1>5. ASSUME NEW c \in Call
      PROVE  db.lanes[c] = {BodyOf(i).lane : i \in {i \in Projected : About(i, c)}}
  <2> DEFINE lanes == {BodyOf(i).lane : i \in {i \in Projected : About(i, c)}}
  <2>1. \A l : l \in lanes <=> \E i \in Projected : BodyOf(i).call = c /\ l = BodyOf(i).lane
    BY Zenon DEF About
  <2>2. \A l \in lanes : l \in Lane
    BY <1>2, <1>3, <2>1, Zenon
  <2>3. \A l \in Lane : l \in db.lanes[c] <=> \E q \in Been : q.call = c /\ q.lane = l
    BY <1>1, Zenon DEF WitnessedBy
  <2>4. \A l \in Lane : l \in db.lanes[c] <=> l \in lanes
    <3> HIDE DEF lanes
    <3>1. \A l : (\E q \in Been : q.call = c /\ q.lane = l)
                   <=> \E i \in Projected : BodyOf(i).call = c /\ l = BodyOf(i).lane
      BY Zenon DEF Been
    <3> QED BY <2>1, <2>3, <3>1, Zenon
  <2>5. db.lanes[c] \subseteq Lane
    BY <1>1 DEF Shaped
  <2> HIDE DEF lanes
  <2>6. db.lanes[c] = lanes
    BY <2>2, <2>4, <2>5
  <2> QED BY <2>6, Zenon DEF lanes
<1> QED BY <1>4, <1>5, Zenon DEF ProjectionInv, WitnessesSaid

LEMMA TablesTell == IInv => EvidenceShown
<1> SUFFICES ASSUME IInv PROVE EvidenceShown
  OBVIOUS
<1>1. Shown(db, Been) /\ Spanned(db, Been)
  BY DEF IInv, TablesHold, Faithful
<1>2. \A i \in Projected : BodyOf(i) \in Been
  BY Zenon DEF Been
<1>3. \A q \in Been : \E i \in Projected : q = BodyOf(i)
  BY Zenon DEF Been
<1>4. CallsShow
  BY <1>1, <1>2, Zenon DEF CallsShow, Shown
<1>5. SessionSpans
  <2> SUFFICES ASSUME NEW x \in Session,
                      NEW times, times = {BodyOf(i).ts :
                                           i \in {i \in Projected : BodyOf(i).session = x}} \ {Nil},
                      times # {}
               PROVE  /\ db.session[x].first \in times /\ db.session[x].last \in times
                      /\ \A t \in times : db.session[x].first <= t /\ t <= db.session[x].last
    BY Zenon DEF SessionSpans
  <2> PICK first, last : first = db.session[x].first /\ last = db.session[x].last
    OBVIOUS
  <2>1. \A t : t \in times <=>
                 t # Nil /\ \E i \in Projected : BodyOf(i).session = x /\ t = BodyOf(i).ts
    BY Zenon
  <2>2. \A t : t \in times <=> t # Nil /\ \E q \in Been : q.session = x /\ t = q.ts
    BY <1>2, <1>3, <2>1, Zenon
  <2>3. /\ \A q \in Been : q.session = x /\ q.ts # Nil =>
             /\ first # Nil /\ first <= q.ts
             /\ last # Nil /\ q.ts <= last
        /\ first # Nil => \E q \in Been : q.session = x /\ q.ts = first
        /\ last # Nil => \E q \in Been : q.session = x /\ q.ts = last
    BY <1>1, Zenon DEF Spanned
  <2>4. PICK t : t \in times
    OBVIOUS
  <2>5. first # Nil /\ last # Nil
    BY <2>2, <2>3, <2>4, Zenon
  <2>6. first \in times /\ last \in times
    <3>1. PICK q \in Been : q.session = x /\ q.ts = first
      BY <2>3, <2>5, Zenon
    <3>2. PICK r \in Been : r.session = x /\ r.ts = last
      BY <2>3, <2>5, Zenon
    <3>3. q.ts # Nil /\ r.ts # Nil
      BY <2>5, <3>1, <3>2, Zenon
    <3>4. q.ts \in times /\ r.ts \in times
      BY <2>2, <3>1, <3>2, <3>3, Zenon
    <3> QED BY <3>1, <3>2, <3>4, Zenon
  <2>7. ASSUME NEW u \in times PROVE first <= u /\ u <= last
    <3>1. PICK q \in Been : u # Nil /\ q.session = x /\ u = q.ts
      BY <2>2, Zenon
    <3>2. first <= q.ts /\ q.ts <= last
      BY <2>3, <3>1, Zenon
    <3> QED BY <3>1, <3>2, Zenon
  <2> QED BY <2>6, <2>7, Zenon
<1> QED BY <1>4, <1>5 DEF EvidenceShown

LEMMA ChangesTell == IInv => EditsOnce
<1> SUFFICES ASSUME IInv, ~ met, NEW c \in Call
             PROVE  db.edits[c] = Cardinality({i \in Projected :
                                    About(i, c) /\ BodyOf(i).kind = "result"
                                                /\ BodyOf(i).edits # Nil})
  BY Zenon DEF EditsOnce
<1>1. db.edits[c] = Cardinality(Editing(c))
  BY DEF IInv, AloneHolds
<1>2. Editing(c) = {i \in Projected : About(i, c) /\ BodyOf(i).kind = "result"
                                                  /\ BodyOf(i).edits # Nil}
  BY Zenon DEF Editing, Edits, About
<1> QED BY <1>1, <1>2, Zenon

\* The tables keep their shape, a stored record is stored once, and a row's
\* provenance is exactly the lanes whose records about the call have been
\* projected, for every world that may come to be written: whichever record
\* came first, whichever process projected it, whatever failed, was killed,
\* cleared or rebuilt (upsert_tool_call and the two projectors).
THEOREM ProvenanceIsHonest == Spec => []ProjectionInv
<1> QED BY InvariantHolds, RowsTell, PTL

\* What only one lane can say stands in the row once it has been projected,
\* and nothing projected before or after displaces it; a call shown as refused
\* is not shown as a success; a session spans exactly its records.
THEOREM ProjectedIsShown == Spec => []EvidenceShown
<1> QED BY InvariantHolds, TablesTell, PTL

\* While the command line has not run beside the application, the changes of
\* file a result reports are recorded once, over any history of bursts,
\* imports, failures, kills, clears and rebuilds.
THEOREM ChangesRecordedOnce == Spec => []EditsOnce
<1> QED BY InvariantHolds, ChangesTell, PTL

-----------------------------------------------------------------------------
(* What one record tells of the call of another.                           *)

\* A record that tells the mode of session x; the latest of those among the
\* first n records of B.
Tells(r, x) == r.lane = "transcript" /\ r.session = x /\ x # Nil /\ r.mode # Nil
Latest(B, x, n, j) == Tells(B[j], x) /\ \A k \in 1..n : Tells(B[k], x) => k <= j

\* A call that spawns a subagent, the result that names it, and the two of one.
Spawning(r) == r.kind = "use" /\ r.spawns # Nil
Naming(r) == r.kind = "result" /\ r.lane = "transcript" /\ r.names # Nil
Names(B, i, j) == i < j /\ Spawning(B[i]) /\ Naming(B[j]) /\ B[j].call = B[i].call

\* The calls of B numbered in P carry the mode told last before them ...
ModesStand(d, B, P) ==
  \A i \in P : B[i].kind = "use" =>
    \A j \in 1 .. i - 1 :
      Latest(B, B[i].session, i - 1, j) => d.call[B[i].call].mode = B[j].mode

\* ... and the calls of a subagent the type it was asked for by.
TypesStand(d, B, P) ==
  \A i, j \in P : Names(B, i, j) =>
    \A c \in Call : d.call[c].agent = B[j].names => d.call[c].type = B[i].spawns

\* A projector that has been through the first n records of B remembers what
\* they told: a mode, a type asked for until it is named, a type named.
MemoryHas(mem, B, n) ==
  /\ \A x \in Session, j \in 1..n : Latest(B, x, n, j) => mem.mode[x] = B[j].mode
  /\ \A i \in 1..n : Spawning(B[i]) =>
       \/ mem.asked[B[i].call] = B[i].spawns
       \/ \E j \in 1..n : Names(B, i, j)
  /\ \A i, j \in 1..n : Names(B, i, j) => mem.type[B[j].names] # Nil

\* A row's subagent and its type, and what is remembered of them, were told by
\* some record of W.
Witness(q, c) == q.lane = "transcript" /\ q.kind \in {"use", "result"} /\ q.call = c

RowSound(row, c, W, T) ==
  /\ row.agent # Nil => \E q \in W : Witness(q, c) /\ q.agent = row.agent
  /\ row.type # Nil => \/ \E q \in W : Witness(q, c) /\ q.type = row.type
                       \/ row.agent # Nil /\ row.type = T[row.agent]
RowsSound(d, W, T) == \A c \in Call : RowSound(d.call[c], c, W, T)

MemShaped(mem) ==
  /\ mem = [mode |-> mem.mode, type |-> mem.type, asked |-> mem.asked, moved |-> mem.moved]
  /\ mem.mode = [x \in Session |-> mem.mode[x]]
  /\ mem.type = [a \in Agent |-> mem.type[a]]
  /\ mem.asked = [c \in Call |-> mem.asked[c]]

MemSound(mem, W, T) ==
  /\ MemShaped(mem)
  /\ \A a \in Agent : mem.type[a] = Nil \/ mem.type[a] = T[a]
  /\ \A c \in Call : mem.asked[c] # Nil =>
       \E q \in W : Spawning(q) /\ q.call = c /\ q.spawns = mem.asked[c]

\* The same columns of a call's row, as far as others tell them.
SameTold(d, e, c) ==
  /\ e.call[c].agent = d.call[c].agent
  /\ e.call[c].type = d.call[c].type
  /\ e.call[c].mode = d.call[c].mode

\* What record r tells the rows, and the projector.
TellsRows(s, e, r) ==
  /\ \A c \in Call \ {r.call} : SameTold(s.db, e.db, c)
  /\ r.call \in Call /\ ~ Witness(r, r.call) => SameTold(s.db, e.db, r.call)
  /\ r.call \in Call /\ Witness(r, r.call) =>
       LET old == s.db.call[r.call]
           new == e.db.call[r.call]
       IN /\ new.agent = Coalesce(r.agent, old.agent)
          /\ new.type = IF r.kind = "use" THEN Coalesce(r.type, old.type) ELSE old.type
          /\ r.kind = "result" => new.mode = old.mode
          /\ r.kind = "use" /\ r.mode = Nil /\ r.session \in Session
               /\ s.mem.mode[r.session] # Nil
             => new.mode = s.mem.mode[r.session]

TellsMemory(s, e, r) ==
  /\ MemShaped(e.mem)
  /\ \A x \in Session : /\ Tells(r, x) /\ r.kind # "use" => e.mem.mode[x] = r.mode
                        /\ ~ Tells(r, x) /\ s.mem.mode[x] # Nil
                             => e.mem.mode[x] = s.mem.mode[x]
  /\ \A c \in Call :
       e.mem.asked[c] = IF c = r.call /\ r.kind = "use" THEN Coalesce(r.spawns, s.mem.asked[c])
                        ELSE IF c = r.call /\ Naming(r) THEN Nil
                        ELSE s.mem.asked[c]
  /\ \A a \in Agent :
       e.mem.type[a] = IF Naming(r) /\ a = r.names /\ s.mem.asked[r.call] # Nil
                       THEN s.mem.asked[r.call]
                       ELSE IF r.lane = "transcript" /\ a = r.agent
                       THEN Coalesce(r.type, s.mem.type[a])
                       ELSE s.mem.type[a]

-----------------------------------------------------------------------------

LEMMA UpsertTranscriptTells ==
  ASSUME NEW d, Shaped(d), NEW c \in Call, NEW facts,
         NEW e, e = UpsertTranscript(d, c, facts)
  PROVE  \A b \in Call \ {c} : e.call[b] = d.call[b]
<1>1. e = [call |-> [d.call EXCEPT ![c] = Merge(facts, @)],
           lanes |-> [d.lanes EXCEPT ![c] = @ \cup {"transcript"}], edits |-> d.edits,
           session |-> d.session, held |-> d.held, changes |-> d.changes]
  BY DEF UpsertTranscript, Shaped
<1> QED BY <1>1 DEF Shaped

LEMMA UpsertOtelTells ==
  ASSUME NEW d, Shaped(d), NEW c \in Call, NEW facts, NEW input,
         NEW e, e = UpsertOtel(d, c, facts, input)
  PROVE  \A b \in Call \ {c} : e.call[b] = d.call[b]
<1>1. e = [call |-> [d.call EXCEPT ![c] = Filled(Merge(facts, @), input)],
           lanes |-> [d.lanes EXCEPT ![c] = @ \cup {"otlp"}], edits |-> d.edits,
           session |-> d.session, held |-> d.held, changes |-> d.changes]
  BY DEF UpsertOtel, Shaped
<1> QED BY <1>1 DEF Shaped

LEMMA UpsertSessionTells ==
  ASSUME NEW d, Shaped(d), NEW sid, NEW path, NEW ts
  PROVE  UpsertSession(d, sid, path, ts).call = d.call
<1> PICK e : e = UpsertSession(d, sid, path, ts)
  OBVIOUS
<1>1. e = [call |-> d.call, lanes |-> d.lanes, edits |-> d.edits,
           session |-> [d.session EXCEPT ![sid] = [path  |-> Coalesce(path, @.path),
                                                   first |-> Least(@.first, ts),
                                                   last  |-> Greatest(@.last, ts)]],
           held |-> d.held \cup {sid}, changes |-> d.changes]
  BY DEF UpsertSession, Shaped
<1>2. e.call = d.call
  BY <1>1
<1> QED BY <1>2

LEMMA InsertChangeTells ==
  ASSUME NEW d, Shaped(d), NEW sid, NEW from, NEW to, NEW ts
  PROVE  InsertChange(d, sid, from, to, ts).call = d.call
<1> PICK ch : ch = Append(d.changes, [session |-> sid, from |-> from, to |-> to, ts |-> ts])
  OBVIOUS
<1> PICK e : e = InsertChange(d, sid, from, to, ts)
  OBVIOUS
<1>1. e = [call |-> d.call, lanes |-> d.lanes, edits |-> d.edits,
           session |-> d.session, held |-> d.held, changes |-> ch]
  BY DEF InsertChange, Shaped
<1>2. e.call = d.call
  BY <1>1
<1> QED BY <1>2

LEMMA NoteEnvelopeTells ==
  ASSUME NEW s, Shaped(s.db), MemShaped(s.mem), NEW r, NEW v, v = NoteEnvelope(s, r)
  PROVE  /\ v.db.call = s.db.call
         /\ MemShaped(v.mem)
         /\ v.mem.mode = s.mem.mode
         /\ v.mem.asked = s.mem.asked
         /\ \A a \in Agent : v.mem.type[a] = IF a = r.agent
                                             THEN Coalesce(r.type, s.mem.type[a])
                                             ELSE s.mem.type[a]
<1> PICK m : m = s.mem
  OBVIOUS
<1> PICK moved : moved = [x \in Session |-> IF x = r.session THEN Coalesce(r.moved, m.moved[x])
                                            ELSE m.moved[x]]
  OBVIOUS
<1> PICK type : type = [a \in Agent |-> IF a = r.agent THEN Coalesce(r.type, m.type[a])
                                        ELSE m.type[a]]
  OBVIOUS
<1>1. /\ v.db = IF r.session = Nil THEN s.db
                ELSE UpsertSession(s.db, r.session, Coalesce(r.moved, r.path), r.ts)
      /\ v.mem = [m EXCEPT !.moved = moved, !.type = type]
  BY DEF NoteEnvelope
<1>2. v.db.call = s.db.call
  BY <1>1, UpsertSessionTells
<1>3. v.mem = [mode |-> m.mode, type |-> type, asked |-> m.asked, moved |-> moved]
  BY <1>1 DEF MemShaped
<1>4. /\ v.mem.mode = m.mode /\ v.mem.asked = m.asked /\ v.mem.type = type
      /\ v.mem = [mode |-> v.mem.mode, type |-> v.mem.type, asked |-> v.mem.asked,
                  moved |-> v.mem.moved]
  BY <1>3
<1>5. /\ type = [a \in Agent |-> type[a]]
      /\ \A a \in Agent : type[a] = IF a = r.agent THEN Coalesce(r.type, m.type[a])
                                    ELSE m.type[a]
  OBVIOUS
<1>6. MemShaped(v.mem)
  BY <1>4, <1>5, Zenon DEF MemShaped
<1> QED BY <1>2, <1>4, <1>5, <1>6, Zenon

\* A record is noted: its envelope, and the mode it tells.
LEMMA NotedTells ==
  ASSUME NEW s, Shaped(s.db), MemShaped(s.mem), NEW r, WellFormed(r), r.lane = "transcript",
         NEW n, n = NotePermissionMode(NoteEnvelope(s, r), r)
  PROVE  /\ n.db.call = s.db.call
         /\ MemShaped(n.mem)
         /\ \A x \in Session : n.mem.mode[x] = IF Tells(r, x) THEN r.mode ELSE s.mem.mode[x]
         /\ n.mem.asked = s.mem.asked
         /\ \A a \in Agent : n.mem.type[a] = IF a = r.agent
                                             THEN Coalesce(r.type, s.mem.type[a])
                                             ELSE s.mem.type[a]
<1> PICK v : v = NoteEnvelope(s, r)
  OBVIOUS
<1>1. /\ v.db.call = s.db.call
      /\ MemShaped(v.mem)
      /\ v.mem.mode = s.mem.mode
      /\ v.mem.asked = s.mem.asked
      /\ \A a \in Agent : v.mem.type[a] = IF a = r.agent
                                          THEN Coalesce(r.type, s.mem.type[a])
                                          ELSE s.mem.type[a]
  BY NoteEnvelopeTells
<1>2. Shaped(v.db)
  <2>1. v.db = IF r.session = Nil THEN s.db
               ELSE UpsertSession(s.db, r.session, Coalesce(r.moved, r.path), r.ts)
    BY DEF NoteEnvelope
  <2>2. CASE r.session = Nil
    BY <2>1, <2>2, Zenon
  <2>3. CASE r.session # Nil
    <3>1. r.session \in Session /\ (r.ts = Nil \/ r.ts \in Nat)
      BY <2>3 DEF WellFormed
    <3> QED BY <2>1, <2>3, <3>1, UpsertSessionDoes
  <2> QED BY <2>2, <2>3
<1>3. n = IF r.session = Nil \/ r.mode = Nil \/ v.mem.mode[r.session] = r.mode THEN v
          ELSE [db  |-> InsertChange(v.db, r.session, v.mem.mode[r.session], r.mode, r.ts),
                mem |-> [v.mem EXCEPT !.mode[r.session] = r.mode]]
  BY DEF NotePermissionMode
<1>4. CASE r.session = Nil \/ r.mode = Nil \/ v.mem.mode[r.session] = r.mode
  <2>1. n = v
    BY <1>3, <1>4, Zenon
  <2>2. \A x \in Session : Tells(r, x) => s.mem.mode[x] = r.mode
    BY <1>1, <1>4 DEF Tells
  <2>3. \A x \in Session : n.mem.mode[x] = IF Tells(r, x) THEN r.mode ELSE s.mem.mode[x]
    BY <1>1, <2>1, <2>2
  <2> QED BY <1>1, <2>1, <2>3, Zenon
<1>5. CASE ~ (r.session = Nil \/ r.mode = Nil \/ v.mem.mode[r.session] = r.mode)
  <2> PICK m : m = v.mem
    OBVIOUS
  <2>1. /\ n.db = InsertChange(v.db, r.session, v.mem.mode[r.session], r.mode, r.ts)
        /\ n.mem = [m EXCEPT !.mode[r.session] = r.mode]
    BY <1>3, <1>5
  <2>2. n.db.call = v.db.call
    BY <1>2, <2>1, InsertChangeTells
  <2>3. MemShaped(m)
    BY <1>1
  <2>4. n.mem = [mode |-> [m.mode EXCEPT ![r.session] = r.mode], type |-> m.type,
                 asked |-> m.asked, moved |-> m.moved]
    BY <2>1, <2>3 DEF MemShaped
  <2>5. /\ n.mem.mode = [m.mode EXCEPT ![r.session] = r.mode] /\ n.mem.type = m.type
        /\ n.mem.asked = m.asked
        /\ n.mem = [mode |-> n.mem.mode, type |-> n.mem.type, asked |-> n.mem.asked,
                    moved |-> n.mem.moved]
    BY <2>4
  <2>6. n.mem.mode = [x \in Session |-> IF x = r.session THEN r.mode ELSE m.mode[x]]
    BY <2>3, <2>5 DEF MemShaped
  <2>7. MemShaped(n.mem)
    BY <2>3, <2>5, <2>6 DEF MemShaped
  <2>8. \A x \in Session : n.mem.mode[x] = IF Tells(r, x) THEN r.mode ELSE s.mem.mode[x]
    BY <1>1, <1>5, <2>6 DEF Tells
  <2> QED BY <1>1, <2>2, <2>5, <2>7, <2>8, Zenon
<1> QED BY <1>4, <1>5

\* A record of the transcript tells what it tells ...
LEMMA UseTells ==
  ASSUME NEW s, Shaped(s.db), MemShaped(s.mem), NEW r, WellFormed(r), r.lane = "transcript",
         r.kind = "use", NEW e, e = ProjectTranscript(s, r)
  PROVE  TellsRows(s, e, r) /\ TellsMemory(s, e, r)
<1> PICK n : n = NotePermissionMode(NoteEnvelope(s, r), r)
  OBVIOUS
<1>1. /\ n.db.call = s.db.call
      /\ MemShaped(n.mem)
      /\ \A x \in Session : n.mem.mode[x] = IF Tells(r, x) THEN r.mode ELSE s.mem.mode[x]
      /\ n.mem.asked = s.mem.asked
      /\ \A a \in Agent : n.mem.type[a] = IF a = r.agent
                                          THEN Coalesce(r.type, s.mem.type[a])
                                          ELSE s.mem.type[a]
      /\ Shaped(n.db)
  BY NotedTells, NotedDoes
<1> PICK mode : mode = ModeFor(n, r.session)
  OBVIOUS
<1> DEFINE facts == [session |-> r.session, agent |-> r.agent, type |-> r.type,
                     calledAt |-> r.ts, input |-> "full", mode |-> mode]
<1>2. e = ProjectToolUse(n, r)
  BY DEF ProjectTranscript
<1>3. /\ e.db = UpsertTranscript(n.db, r.call, facts)
      /\ e.mem = IF r.session = Nil
                 THEN [n.mem EXCEPT !.asked[r.call] = Coalesce(r.spawns, @)]
                 ELSE [[n.mem EXCEPT !.asked[r.call] = Coalesce(r.spawns, @)]
                         EXCEPT !.mode[r.session] = mode]
  BY <1>2 DEF ProjectToolUse
<1>4. /\ facts["agent"] = r.agent /\ facts["type"] = r.type /\ facts["mode"] = mode
      /\ {"agent", "type", "mode"} \subseteq DOMAIN facts
      /\ {"agent", "type", "mode"} \subseteq Column
  BY DEF Column
<1>5. r.call \in Call /\ (r.session = Nil \/ r.session \in Session) /\ ~ Naming(r)
      /\ Witness(r, r.call)
  BY DEF WellFormed, Naming, Witness
<1> HIDE DEF facts
<1>6. /\ \A k \in Column : e.db.call[r.call][k]
                             = IF k \in DOMAIN facts THEN Coalesce(facts[k], n.db.call[r.call][k])
                               ELSE n.db.call[r.call][k]
      /\ \A b \in Call \ {r.call} : e.db.call[b] = n.db.call[b]
  BY <1>1, <1>3, <1>5, UpsertTranscriptDoes, UpsertTranscriptTells
<1>7. /\ e.db.call[r.call].agent = Coalesce(r.agent, s.db.call[r.call].agent)
      /\ e.db.call[r.call].type = Coalesce(r.type, s.db.call[r.call].type)
      /\ e.db.call[r.call].mode = Coalesce(mode, s.db.call[r.call].mode)
  BY <1>1, <1>4, <1>6
<1>8. ASSUME r.mode = Nil, r.session \in Session, s.mem.mode[r.session] # Nil
      PROVE  mode = s.mem.mode[r.session]
  <2>1. n.mem.mode[r.session] = s.mem.mode[r.session]
    BY <1>1, <1>8 DEF Tells
  <2>2. r.session # Nil
    BY <1>8, NilAssumption
  <2> QED BY <1>8, <2>1, <2>2 DEF ModeFor, Coalesce
<1>9. TellsRows(s, e, r)
  <2>1. \A b \in Call \ {r.call} : SameTold(s.db, e.db, b)
    BY <1>1, <1>6 DEF SameTold
  <2>2. r.mode = Nil /\ r.session \in Session /\ s.mem.mode[r.session] # Nil
           => e.db.call[r.call].mode = s.mem.mode[r.session]
    BY <1>7, <1>8 DEF Coalesce
  <2> QED BY <1>5, <1>7, <2>1, <2>2 DEF TellsRows
<1> PICK m : m = n.mem
  OBVIOUS
<1> PICK asked : asked = [m.asked EXCEPT ![r.call] = Coalesce(r.spawns, @)]
  OBVIOUS
<1> PICK modes : modes = IF r.session = Nil THEN m.mode
                         ELSE [m.mode EXCEPT ![r.session] = mode]
  OBVIOUS
<1>10. MemShaped(m)
  BY <1>1
<1>11. e.mem = [mode |-> modes, type |-> m.type, asked |-> asked, moved |-> m.moved]
  <2> PICK m1 : m1 = [m EXCEPT !.asked[r.call] = Coalesce(r.spawns, @)]
    OBVIOUS
  <2>1. m1 = [mode |-> m.mode, type |-> m.type, asked |-> asked, moved |-> m.moved]
    BY <1>10 DEF MemShaped
  <2>2. /\ m1.mode = m.mode /\ m1.type = m.type /\ m1.asked = asked /\ m1.moved = m.moved
        /\ m1 = [mode |-> m1.mode, type |-> m1.type, asked |-> m1.asked, moved |-> m1.moved]
    BY <2>1
  <2>3. e.mem = IF r.session = Nil THEN m1 ELSE [m1 EXCEPT !.mode[r.session] = mode]
    BY <1>3
  <2>4. CASE r.session = Nil
    BY <2>1, <2>3, <2>4
  <2>5. CASE r.session # Nil
    <3>1. e.mem = [m1 EXCEPT !.mode[r.session] = mode]
      BY <2>3, <2>5
    <3>2. e.mem = [mode |-> [m1.mode EXCEPT ![r.session] = mode], type |-> m1.type,
                   asked |-> m1.asked, moved |-> m1.moved]
      BY <2>2, <3>1
    <3> QED BY <2>2, <2>5, <3>2
  <2> QED BY <2>4, <2>5
<1>12. /\ e.mem.mode = modes /\ e.mem.type = m.type /\ e.mem.asked = asked
       /\ e.mem = [mode |-> e.mem.mode, type |-> e.mem.type, asked |-> e.mem.asked,
                   moved |-> e.mem.moved]
  BY <1>11
<1>13. /\ asked = [c \in Call |-> IF c = r.call THEN Coalesce(r.spawns, m.asked[c]) ELSE m.asked[c]]
       /\ modes = [x \in Session |-> IF x = r.session /\ r.session # Nil THEN mode
                                      ELSE m.mode[x]]
  BY <1>10 DEF MemShaped
<1>14. MemShaped(e.mem)
  BY <1>10, <1>12, <1>13, SMTT(30) DEF MemShaped
<1>15. \A x \in Session : ~ Tells(r, x) /\ s.mem.mode[x] # Nil => e.mem.mode[x] = s.mem.mode[x]
  <2> SUFFICES ASSUME NEW x \in Session, ~ Tells(r, x), s.mem.mode[x] # Nil
               PROVE  e.mem.mode[x] = s.mem.mode[x]
    OBVIOUS
  <2>1. CASE x = r.session /\ r.session # Nil
    <3>1. r.mode = Nil
      BY <2>1 DEF Tells
    <3> QED BY <1>8, <1>12, <1>13, <2>1, <3>1
  <2>2. CASE ~ (x = r.session /\ r.session # Nil)
    BY <1>1, <1>12, <1>13, <2>2
  <2> QED BY <2>1, <2>2
<1>16. TellsMemory(s, e, r)
  BY <1>1, <1>5, <1>12, <1>13, <1>14, <1>15, SMTT(30) DEF TellsMemory
<1> QED BY <1>9, <1>16

LEMMA ResultTells ==
  ASSUME NEW s, Shaped(s.db), MemShaped(s.mem), NEW r, WellFormed(r), r.lane = "transcript",
         r.kind = "result", NEW e, e = ProjectTranscript(s, r)
  PROVE  TellsRows(s, e, r) /\ TellsMemory(s, e, r)
<1> PICK n : n = NotePermissionMode(NoteEnvelope(s, r), r)
  OBVIOUS
<1>1. /\ n.db.call = s.db.call
      /\ MemShaped(n.mem)
      /\ \A x \in Session : n.mem.mode[x] = IF Tells(r, x) THEN r.mode ELSE s.mem.mode[x]
      /\ n.mem.asked = s.mem.asked
      /\ \A a \in Agent : n.mem.type[a] = IF a = r.agent
                                          THEN Coalesce(r.type, s.mem.type[a])
                                          ELSE s.mem.type[a]
      /\ Shaped(n.db)
  BY NotedTells, NotedDoes
<1> DEFINE facts == [session |-> r.session, agent |-> r.agent,
                     result |-> "body", success |-> r.success]
<1> PICK u : u = UpsertTranscript(n.db, r.call, facts)
  OBVIOUS
<1>2. e = ProjectToolResult(n, r)
  BY DEF ProjectTranscript
<1>3. /\ e.db = [u EXCEPT !.edits[r.call] = @ + Coalesce(r.edits, 0)]
      /\ e.mem = IF r.names = Nil \/ n.mem.asked[r.call] = Nil THEN n.mem
                 ELSE [n.mem EXCEPT !.type[r.names] = n.mem.asked[r.call],
                                    !.asked[r.call] = Nil]
  BY <1>2 DEF ProjectToolResult
<1>4. /\ facts["agent"] = r.agent /\ "type" \notin DOMAIN facts /\ "mode" \notin DOMAIN facts
      /\ "agent" \in DOMAIN facts /\ {"agent", "type", "mode"} \subseteq Column
  BY DEF Column
<1>5. r.call \in Call /\ Witness(r, r.call) /\ (Naming(r) <=> r.names # Nil)
      /\ (r.names = Nil \/ r.names \in Agent)
  BY DEF WellFormed, Naming, Witness
<1> HIDE DEF facts
<1>6. /\ \A k \in Column : u.call[r.call][k]
                             = IF k \in DOMAIN facts THEN Coalesce(facts[k], n.db.call[r.call][k])
                               ELSE n.db.call[r.call][k]
      /\ \A b \in Call \ {r.call} : u.call[b] = n.db.call[b]
      /\ Shaped(u)
  BY <1>1, <1>5, UpsertTranscriptDoes, UpsertTranscriptTells
<1>7. e.db.call = u.call
  <2>1. e.db = [call |-> u.call, lanes |-> u.lanes,
                edits |-> [u.edits EXCEPT ![r.call] = @ + Coalesce(r.edits, 0)],
                session |-> u.session, held |-> u.held, changes |-> u.changes]
    BY <1>3, <1>6, ZenonT(60) DEF Shaped
  <2> QED BY <2>1
<1>8. TellsRows(s, e, r)
  <2>1. \A b \in Call \ {r.call} : SameTold(s.db, e.db, b)
    BY <1>1, <1>6, <1>7 DEF SameTold
  <2>2. /\ e.db.call[r.call].agent = Coalesce(r.agent, s.db.call[r.call].agent)
        /\ e.db.call[r.call].type = s.db.call[r.call].type
        /\ e.db.call[r.call].mode = s.db.call[r.call].mode
    BY <1>1, <1>4, <1>6, <1>7
  <2> QED BY <1>5, <2>1, <2>2 DEF TellsRows
<1> PICK m : m = n.mem
  OBVIOUS
<1>9. MemShaped(m)
  BY <1>1
<1>10. CASE r.names = Nil \/ m.asked[r.call] = Nil
  <2>1. e.mem = m
    BY <1>3, <1>10, Zenon
  <2> QED BY <1>1, <1>5, <1>8, <1>10, <2>1 DEF TellsMemory
<1>11. CASE ~ (r.names = Nil \/ m.asked[r.call] = Nil)
  <2> PICK asked : asked = [m.asked EXCEPT ![r.call] = Nil]
    OBVIOUS
  <2> PICK type : type = [m.type EXCEPT ![r.names] = m.asked[r.call]]
    OBVIOUS
  <2>1. e.mem = [m EXCEPT !.type[r.names] = m.asked[r.call], !.asked[r.call] = Nil]
    BY <1>3, <1>11
  <2>2. e.mem = [mode |-> m.mode, type |-> type, asked |-> asked, moved |-> m.moved]
    BY <1>9, <2>1 DEF MemShaped
  <2>3. /\ e.mem.mode = m.mode /\ e.mem.type = type /\ e.mem.asked = asked
        /\ e.mem = [mode |-> e.mem.mode, type |-> e.mem.type, asked |-> e.mem.asked,
                    moved |-> e.mem.moved]
    BY <2>2
  <2>4. /\ asked = [c \in Call |-> IF c = r.call THEN Nil ELSE m.asked[c]]
        /\ type = [a \in Agent |-> IF a = r.names THEN m.asked[r.call] ELSE m.type[a]]
    BY <1>9 DEF MemShaped
  <2>5. MemShaped(e.mem)
    BY <1>9, <2>3, <2>4, SMTT(30) DEF MemShaped
  <2> QED BY <1>1, <1>5, <1>8, <1>11, <2>3, <2>4, <2>5, SMTT(30) DEF TellsMemory
<1> QED BY <1>10, <1>11

LEMMA TranscriptTells ==
  ASSUME NEW s, Shaped(s.db), MemShaped(s.mem), NEW r, WellFormed(r), r.lane = "transcript",
         NEW e, e = ProjectTranscript(s, r)
  PROVE  TellsRows(s, e, r) /\ TellsMemory(s, e, r)
<1>1. CASE r.kind = "use"
  BY <1>1, UseTells
<1>2. CASE r.kind = "result"
  BY <1>2, ResultTells
<1>3. CASE r.kind \notin {"use", "result"}
  <2>1. e = NotePermissionMode(NoteEnvelope(s, r), r)
    BY <1>3 DEF ProjectTranscript
  <2>2. /\ e.db.call = s.db.call
        /\ MemShaped(e.mem)
        /\ \A x \in Session : e.mem.mode[x] = IF Tells(r, x) THEN r.mode ELSE s.mem.mode[x]
        /\ e.mem.asked = s.mem.asked
        /\ \A a \in Agent : e.mem.type[a] = IF a = r.agent
                                            THEN Coalesce(r.type, s.mem.type[a])
                                            ELSE s.mem.type[a]
    BY <2>1, NotedTells
  <2>3. ~ Witness(r, r.call) /\ ~ Naming(r)
    BY <1>3 DEF Witness, Naming
  <2> QED BY <1>3, <2>2, <2>3 DEF TellsRows, TellsMemory, SameTold
<1> QED BY <1>1, <1>2, <1>3

\* ... and one of an export tells the others nothing.
LEMMA OtlpTells ==
  ASSUME NEW s, Shaped(s.db), MemShaped(s.mem), NEW r, WellFormed(r), r.lane = "otlp",
         NEW e, e.db = ProjectOtlp(s.db, r), e.mem = s.mem
  PROVE  TellsRows(s, e, r) /\ TellsMemory(s, e, r)
<1> PICK d : d = IF r.session = Nil THEN s.db ELSE UpsertSession(s.db, r.session, r.path, r.ts)
  OBVIOUS
<1>1. d.call = s.db.call /\ Shaped(d)
  <2>1. CASE r.session = Nil
    BY <2>1, Zenon
  <2>2. CASE r.session # Nil
    <3>1. r.session \in Session /\ (r.ts = Nil \/ r.ts \in Nat)
      BY <2>2 DEF WellFormed
    <3> QED BY <2>2, <3>1, UpsertSessionDoes, UpsertSessionTells
  <2> QED BY <2>1, <2>2
<1>2. ~ Witness(r, r.call) /\ ~ Naming(r) /\ (\A x : ~ Tells(r, x)) /\ r.kind # "use"
  BY DEF Witness, Naming, Tells, WellFormed
<1>3. TellsMemory(s, e, r)
  BY <1>2 DEF TellsMemory
<1>4. /\ \A c \in Call \ {r.call} : SameTold(s.db, e.db, c)
      /\ r.call \in Call => SameTold(s.db, e.db, r.call)
  <2>1. ASSUME NEW facts, "agent" \notin DOMAIN facts, "type" \notin DOMAIN facts,
               "mode" \notin DOMAIN facts, "input" \notin DOMAIN facts, r.call \in Call,
               e.db = UpsertOtel(d, r.call, facts, r.input)
        PROVE  \A c \in Call : SameTold(s.db, e.db, c)
    <3>1. /\ \A k \in Column \ {"input"} :
               e.db.call[r.call][k] = IF k \in DOMAIN facts THEN Coalesce(facts[k], d.call[r.call][k])
                                      ELSE d.call[r.call][k]
          /\ \A b \in Call \ {r.call} : e.db.call[b] = d.call[b]
      BY <1>1, <2>1, UpsertOtelDoes, UpsertOtelTells
    <3>2. {"agent", "type", "mode"} \subseteq Column \ {"input"}
      BY DEF Column
    <3> QED BY <1>1, <2>1, <3>1, <3>2 DEF SameTold
  <2>2. CASE r.kind = "result"
    <3>1. e.db = UpsertOtel(d, r.call, ResultFacts(r), r.input) /\ r.call \in Call
      BY <2>2 DEF ProjectOtlp, WellFormed
    <3>2. \A k \in {"agent", "type", "mode", "input"} : k \notin DOMAIN ResultFacts(r)
      BY DEF ResultFacts
    <3> QED BY <2>1, <3>1, <3>2
  <2>3. CASE r.kind = "decision"
    <3>1. e.db = UpsertOtel(d, r.call, DecisionFacts(r), r.input) /\ r.call \in Call
      BY <2>3 DEF ProjectOtlp, WellFormed
    <3>2. \A k \in {"agent", "type", "mode", "input"} : k \notin DOMAIN DecisionFacts(r)
      BY DEF DecisionFacts
    <3> QED BY <2>1, <3>1, <3>2
  <2>4. CASE r.kind = "modeChanged"
    <3>1. e.db = InsertChange(d, r.session, r.from, r.mode, r.ts)
      BY <2>4 DEF ProjectOtlp
    <3>2. e.db.call = d.call
      BY <1>1, <3>1, InsertChangeTells
    <3> QED BY <1>1, <3>2 DEF SameTold
  <2>5. CASE r.kind \notin {"result", "decision", "modeChanged"}
    <3>1. e.db = d
      BY <2>5 DEF ProjectOtlp
    <3> QED BY <1>1, <3>1 DEF SameTold
  <2> QED BY <2>2, <2>3, <2>4, <2>5
<1>5. TellsRows(s, e, r)
  BY <1>2, <1>4 DEF TellsRows
<1> QED BY <1>3, <1>5

\* An export's record leaves the transcript projector as it was.
LEMMA NothingTold ==
  ASSUME NEW s, MemShaped(s.mem), NEW r, WellFormed(r), r.lane = "otlp"
  PROVE  TellsRows(s, s, r) /\ TellsMemory(s, s, r)
<1>1. ~ Witness(r, r.call) /\ ~ Naming(r) /\ (\A x : ~ Tells(r, x)) /\ r.kind # "use"
  BY DEF Witness, Naming, Tells, WellFormed
<1> QED BY <1>1 DEF TellsRows, TellsMemory, SameTold

-----------------------------------------------------------------------------
(* A record more.                                                          *)

\* What Claude Code writes of calls and subagents: T is the subagents' types.
Story(W, T) ==
  /\ \A r \in W : WellFormed(r)
  /\ AskedOnce(W)
  /\ OneSubagent(W, T)

\* The first n of B are records of W, each once.
Records(B, n, W) == /\ \A i \in 1..n : B[i] \in W
                    /\ \A i, j \in 1..n : B[i] = B[j] => i = j

\* A type a row has is its subagent's.
LEMMA TypeIsTold ==
  ASSUME NEW W, NEW T, Story(W, T), NEW c, NEW row, RowSound(row, c, W, T),
         row.agent # Nil, row.type # Nil
  PROVE  row.type = T[row.agent]
<1>1. PICK q \in W : Witness(q, c) /\ q.agent = row.agent
  BY DEF RowSound
<1>2. CASE row.type = T[row.agent]
  BY <1>2
<1>3. CASE \E r \in W : Witness(r, c) /\ r.type = row.type
  <2>1. PICK r \in W : Witness(r, c) /\ r.type = row.type
    BY <1>3
  <2> QED BY <1>1, <2>1 DEF Story, OneSubagent, Witness
<1> QED BY <1>2, <1>3 DEF RowSound

LEMMA SoundToo ==
  ASSUME NEW W, NEW T, Story(W, T), NEW r \in W, NEW s, NEW e,
         RowsSound(s.db, W, T), MemSound(s.mem, W, T),
         TellsRows(s, e, r), TellsMemory(s, e, r)
  PROVE  RowsSound(e.db, W, T) /\ MemSound(e.mem, W, T)
<1>0. WellFormed(r) /\ OneSubagent(W, T)
  BY DEF Story
<1>1. ASSUME NEW c \in Call
      PROVE  RowSound(e.db.call[c], c, W, T)
  <2> PICK old : old = s.db.call[c]
    OBVIOUS
  <2> PICK new : new = e.db.call[c]
    OBVIOUS
  <2>1. RowSound(old, c, W, T)
    BY Zenon DEF RowsSound
  <2>2. CASE ~ (c = r.call /\ Witness(r, c))
    <3>1. new.agent = old.agent /\ new.type = old.type
      BY <2>2 DEF TellsRows, SameTold
    <3> QED BY <2>1, <3>1 DEF RowSound
  <2>3. CASE c = r.call /\ Witness(r, c)
    <3>1. /\ new.agent = Coalesce(r.agent, old.agent)
          /\ new.type = IF r.kind = "use" THEN Coalesce(r.type, old.type) ELSE old.type
      BY <2>3 DEF TellsRows
    <3>2. new.agent # Nil => \E q \in W : Witness(q, c) /\ q.agent = new.agent
      BY <2>1, <2>3, <3>1 DEF RowSound, Coalesce
    <3>3. ASSUME new.type # Nil, ~ \E q \in W : Witness(q, c) /\ q.type = new.type
          PROVE  new.agent # Nil /\ new.type = T[new.agent]
      <4>1. new.type = old.type
        BY <2>3, <3>1, <3>3 DEF Coalesce
      <4>2. old.agent # Nil /\ old.type = T[old.agent]
        BY <2>1, <3>3, <4>1 DEF RowSound
      <4>3. new.agent = old.agent
        <5>1. PICK q \in W : Witness(q, c) /\ q.agent = old.agent
          BY <2>1, <4>2 DEF RowSound
        <5>2. r.agent # Nil => r.agent = q.agent
          BY <1>0, <2>3, <4>2, <5>1 DEF OneSubagent, Witness
        <5> QED BY <3>1, <5>1, <5>2 DEF Coalesce
      <4> QED BY <4>1, <4>2, <4>3
    <3> QED BY <3>2, <3>3 DEF RowSound
  <2> QED BY <2>2, <2>3
<1>2. MemShaped(e.mem)
  BY DEF TellsMemory
<1>3. ASSUME NEW a \in Agent
      PROVE  e.mem.type[a] = Nil \/ e.mem.type[a] = T[a]
  <2>1. s.mem.type[a] = Nil \/ s.mem.type[a] = T[a]
    BY DEF MemSound
  <2>2. e.mem.type[a] = IF Naming(r) /\ a = r.names /\ s.mem.asked[r.call] # Nil
                        THEN s.mem.asked[r.call]
                        ELSE IF r.lane = "transcript" /\ a = r.agent
                        THEN Coalesce(r.type, s.mem.type[a])
                        ELSE s.mem.type[a]
    BY DEF TellsMemory
  <2>3. CASE Naming(r) /\ a = r.names /\ s.mem.asked[r.call] # Nil
    <3>1. r.call \in Call
      BY <1>0, <2>3 DEF WellFormed, Naming
    <3>2. PICK q \in W : Spawning(q) /\ q.call = r.call /\ q.spawns = s.mem.asked[r.call]
      BY <2>3, <3>1 DEF MemSound
    <3>3. WellFormed(q)
      BY DEF Story
    <3>4. q.spawns = T[r.names]
      BY <1>0, <2>3, <3>2, <3>3 DEF OneSubagent, Spawning, Naming, WellFormed
    <3> QED BY <2>2, <2>3, <3>2, <3>4
  <2>4. CASE ~ (Naming(r) /\ a = r.names /\ s.mem.asked[r.call] # Nil)
             /\ r.lane = "transcript" /\ a = r.agent /\ r.type # Nil
    <3>1. r.type = T[r.agent]
      BY <1>0, <2>4, NilAssumption DEF OneSubagent
    <3> QED BY <2>2, <2>4, <3>1 DEF Coalesce
  <2>5. CASE ~ (Naming(r) /\ a = r.names /\ s.mem.asked[r.call] # Nil)
             /\ ~ (r.lane = "transcript" /\ a = r.agent /\ r.type # Nil)
    BY <2>1, <2>2, <2>5, NilAssumption DEF Coalesce
  <2> QED BY <2>3, <2>4, <2>5
<1>4. ASSUME NEW c \in Call, e.mem.asked[c] # Nil
      PROVE  \E q \in W : Spawning(q) /\ q.call = c /\ q.spawns = e.mem.asked[c]
  <2>1. e.mem.asked[c] = IF c = r.call /\ r.kind = "use"
                         THEN Coalesce(r.spawns, s.mem.asked[c])
                         ELSE IF c = r.call /\ Naming(r) THEN Nil
                         ELSE s.mem.asked[c]
    BY DEF TellsMemory
  <2>2. CASE c = r.call /\ r.kind = "use" /\ r.spawns # Nil
    BY <2>1, <2>2 DEF Coalesce, Spawning
  <2>3. CASE ~ (c = r.call /\ r.kind = "use" /\ r.spawns # Nil)
    <3>1. e.mem.asked[c] = s.mem.asked[c]
      BY <1>4, <2>1, <2>3 DEF Coalesce
    <3> QED BY <1>4, <3>1 DEF MemSound
  <2> QED BY <2>2, <2>3
<1> QED BY <1>1, <1>2, <1>3, <1>4 DEF RowsSound, MemSound

\* What was told is remembered, and a call gets the mode that was told last.
LEMMA MemoryToo ==
  ASSUME NEW W, NEW T, Story(W, T), NEW B, NEW n \in Nat, Records(B, n + 1, W),
         NEW s, NEW e, NEW r, r = B[n + 1],
         MemoryHas(s.mem, B, n), ModesStand(s.db, B, 1..n),
         TellsRows(s, e, r), TellsMemory(s, e, r)
  PROVE  MemoryHas(e.mem, B, n + 1) /\ ModesStand(e.db, B, 1 .. n + 1)
<1>0. /\ n + 1 \in 1 .. n + 1 /\ (n + 1) - 1 = n
      /\ \A i \in 1 .. n + 1 : i \in 1..n \/ i = n + 1
      /\ \A i \in 1..n : i \in 1 .. n + 1 /\ i # n + 1 /\ i < n + 1
  OBVIOUS
<1>1. /\ \A i \in 1 .. n + 1 : B[i] \in W /\ WellFormed(B[i])
      /\ \A i, j \in 1 .. n + 1 : B[i] = B[j] => i = j
      /\ r \in W /\ WellFormed(r) /\ OneSubagent(W, T)
      /\ \A q, p \in W : q.kind = "use" /\ p.kind = "use" /\ q.call = p.call
                         => q = p /\ q.mode = Nil
  BY <1>0 DEF Records, Story, AskedOnce
<1>2. \A i \in 1..n : B[i].kind = "use" /\ r.kind = "use" => B[i].call # r.call
  <2> SUFFICES ASSUME NEW i \in 1..n, B[i].kind = "use", r.kind = "use", B[i].call = r.call
               PROVE  FALSE
    OBVIOUS
  <2>1. B[i] = r
    BY <1>0, <1>1, Zenon
  <2> QED BY <1>0, <1>1, <2>1
<1>3. ASSUME NEW x \in Session, NEW j \in 1 .. n + 1, Latest(B, x, n + 1, j)
      PROVE  e.mem.mode[x] = B[j].mode
  <2>1. CASE Tells(r, x)
    <3>1. n + 1 <= j
      BY <1>0, <1>3, <2>1 DEF Latest
    <3>2. j = n + 1
      BY <3>1
    <3>3. r.kind # "use"
      BY <1>1, <2>1 DEF Tells
    <3> QED BY <2>1, <3>2, <3>3 DEF TellsMemory
  <2>2. CASE ~ Tells(r, x)
    <3>1. j \in 1..n /\ Latest(B, x, n, j)
      BY <1>0, <1>3, <2>2 DEF Latest
    <3>2. s.mem.mode[x] = B[j].mode /\ B[j].mode # Nil
      BY <3>1 DEF MemoryHas, Latest, Tells
    <3> QED BY <2>2, <3>2 DEF TellsMemory
  <2> QED BY <2>1, <2>2
<1>4. ASSUME NEW i \in 1 .. n + 1, Spawning(B[i])
      PROVE  \/ e.mem.asked[B[i].call] = B[i].spawns
             \/ \E j \in 1 .. n + 1 : Names(B, i, j)
  <2>1. B[i].call \in Call /\ B[i].kind = "use"
    BY <1>1, <1>4 DEF WellFormed, Spawning
  <2> PICK c \in Call : c = B[i].call
    BY <2>1
  <2>2. e.mem.asked[c] = IF c = r.call /\ r.kind = "use"
                         THEN Coalesce(r.spawns, s.mem.asked[c])
                         ELSE IF c = r.call /\ Naming(r) THEN Nil
                         ELSE s.mem.asked[c]
    BY DEF TellsMemory
  <2>3. CASE i = n + 1
    BY <1>4, <2>1, <2>2, <2>3 DEF Spawning, Coalesce
  <2>4. CASE i \in 1..n
    <3>1. \/ s.mem.asked[c] = B[i].spawns
          \/ \E j \in 1..n : Names(B, i, j)
      BY <1>4, <2>4 DEF MemoryHas
    <3>2. CASE c = r.call /\ Naming(r)
      <4>1. Names(B, i, n + 1)
        BY <1>0, <1>4, <2>4, <3>2 DEF Names
      <4> QED BY <1>0, <4>1
    <3>3. CASE ~ (c = r.call /\ Naming(r))
      <4>1. ~ (c = r.call /\ r.kind = "use")
        BY <1>2, <2>1, <2>4
      <4>2. e.mem.asked[c] = s.mem.asked[c]
        BY <2>2, <3>3, <4>1, Zenon
      <4> QED BY <1>0, <3>1, <4>2
    <3> QED BY <3>2, <3>3
  <2> QED BY <1>0, <2>3, <2>4
<1>5. ASSUME NEW a \in Agent, s.mem.type[a] # Nil
      PROVE  e.mem.type[a] # Nil
  BY <1>5 DEF TellsMemory, Coalesce
<1>6. ASSUME NEW i \in 1 .. n + 1, NEW j \in 1 .. n + 1, Names(B, i, j)
      PROVE  e.mem.type[B[j].names] # Nil
  <2>1. B[j].names \in Agent /\ Naming(B[j]) /\ Spawning(B[i]) /\ B[j].call = B[i].call
        /\ i \in 1..n
    <3>1. B[j].names \in Agent /\ Naming(B[j]) /\ Spawning(B[i]) /\ B[j].call = B[i].call
          /\ i < j
      BY <1>1, <1>6 DEF Names, Naming, WellFormed
    <3> QED BY <3>1
  <2>2. CASE j \in 1..n
    <3>1. s.mem.type[B[j].names] # Nil
      BY <1>6, <2>1, <2>2 DEF MemoryHas
    <3> QED BY <1>5, <2>1, <3>1
  <2>3. CASE j = n + 1
    <3>1. \/ s.mem.asked[B[i].call] = B[i].spawns
          \/ \E k \in 1..n : Names(B, i, k)
      BY <2>1 DEF MemoryHas
    <3>2. CASE s.mem.asked[B[i].call] = B[i].spawns
      <4>1. s.mem.asked[r.call] # Nil /\ Naming(r) /\ r.names \in Agent
        BY <2>1, <2>3, <3>2 DEF Spawning
      <4> QED BY <2>3, <4>1 DEF TellsMemory
    <3>3. CASE \E k \in 1..n : Names(B, i, k)
      <4>1. PICK k \in 1..n : Names(B, i, k)
        BY <3>3
      <4>2. s.mem.type[B[k].names] # Nil
        BY <2>1, <4>1 DEF MemoryHas
      <4>3. B[k] \in W /\ Naming(B[k]) /\ B[k].call = r.call /\ Naming(r)
        BY <1>0, <1>1, <2>1, <2>3, <4>1 DEF Names
      <4>4. B[k].names = r.names
        BY <1>1, <4>3 DEF OneSubagent, Naming
      <4> QED BY <1>5, <2>1, <2>3, <4>2, <4>4
    <3> QED BY <3>1, <3>2, <3>3
  <2> QED BY <1>0, <2>2, <2>3
<1>7. MemoryHas(e.mem, B, n + 1)
  BY <1>3, <1>4, <1>6 DEF MemoryHas
<1>8. ASSUME NEW i \in 1 .. n + 1, B[i].kind = "use", NEW j \in 1 .. i - 1,
             Latest(B, B[i].session, i - 1, j)
      PROVE  e.db.call[B[i].call].mode = B[j].mode
  <2>1. B[i].call \in Call /\ (B[i].session = Nil \/ B[i].session \in Session)
    BY <1>1, <1>8 DEF WellFormed
  <2>2. CASE i \in 1..n
    <3>1. s.db.call[B[i].call].mode = B[j].mode
      BY <1>8, <2>2 DEF ModesStand
    <3>2. e.db.call[B[i].call].mode = s.db.call[B[i].call].mode
      <4>1. CASE ~ (r.call = B[i].call /\ Witness(r, r.call))
        BY <2>1, <4>1 DEF TellsRows, SameTold
      <4>2. CASE r.call = B[i].call /\ Witness(r, r.call)
        <5>1. r.kind = "result"
          BY <1>2, <1>8, <2>2, <4>2 DEF Witness
        <5> QED BY <2>1, <4>2, <5>1 DEF TellsRows
      <4> QED BY <4>1, <4>2
    <3> QED BY <3>1, <3>2
  <2>3. CASE i = n + 1
    <3>1. j \in 1..n /\ Latest(B, r.session, n, j) /\ r.kind = "use"
      BY <1>0, <1>8, <2>3
    <3>2. r.session \in Session /\ B[j].mode # Nil
      BY <2>1, <2>3, <3>1 DEF Latest, Tells
    <3>3. s.mem.mode[r.session] = B[j].mode
      BY <3>1, <3>2 DEF MemoryHas
    <3>4. r.mode = Nil /\ Witness(r, r.call) /\ r.call \in Call
      BY <1>1, <2>1, <2>3, <3>1 DEF Witness, WellFormed
    <3>5. e.db.call[r.call].mode = s.mem.mode[r.session]
      BY <3>1, <3>2, <3>3, <3>4 DEF TellsRows
    <3> QED BY <2>3, <3>3, <3>5
  <2> QED BY <1>0, <2>2, <2>3
<1>9. ModesStand(e.db, B, 1 .. n + 1)
  BY <1>8 DEF ModesStand
<1> QED BY <1>7, <1>9

-----------------------------------------------------------------------------
(* What needs the whole stream.                                            *)

\* The type NameAgents leaves call c with.
Named(d, mem, c, type) ==
  LET row == d.call[c] IN
  IF row.agent = Nil \/ row.type # Nil THEN type = row.type
  ELSE IF mem.type[row.agent] # Nil THEN type = mem.type[row.agent]
  ELSE \/ type = Nil
       \/ type # Nil /\ \E b \in Call : d.call[b].agent = row.agent /\ d.call[b].type = type

LEMMA RelocateTells ==
  ASSUME NEW d, Shaped(d), NEW mem
  PROVE  Relocate(d, mem).call = d.call
<1> PICK moved : moved = [x \in Session |-> IF x \in d.held THEN Moved(d.session[x], mem.moved[x])
                                            ELSE d.session[x]]
  OBVIOUS
<1> PICK e : e = Relocate(d, mem)
  OBVIOUS
<1>1. e = [call |-> d.call, lanes |-> d.lanes, edits |-> d.edits,
           session |-> moved, held |-> d.held, changes |-> d.changes]
  BY DEF Relocate, Shaped
<1>2. e.call = d.call
  BY <1>1
<1> QED BY <1>2

LEMMA OtherRows ==
  ASSUME NEW d, Shaped(d), NEW rows, NEW e, e = [d EXCEPT !.call = rows]
  PROVE  e.call = rows
<1>1. e = [call |-> rows, lanes |-> d.lanes, edits |-> d.edits,
           session |-> d.session, held |-> d.held, changes |-> d.changes]
  BY DEF Shaped
<1> QED BY <1>1

LEMMA NameAgentsTells ==
  ASSUME NEW d, Shaped(d), NEW mem, NEW e, e = NameAgents(d, mem), NEW c \in Call
  PROVE  /\ e.call[c].agent = d.call[c].agent
         /\ e.call[c].mode = d.call[c].mode
         /\ Named(d, mem, c, e.call[c].type)
<1> DEFINE known(b) == IF mem.type[d.call[b].agent] # Nil
                       THEN {mem.type[d.call[b].agent]}
                       ELSE {d.call[a].type : a \in
                              {a \in Call : d.call[a].agent = d.call[b].agent}} \ {Nil}
           lacks(b) == d.call[b].agent # Nil /\ d.call[b].type = Nil
           row(b) == IF lacks(b) /\ known(b) # {}
                     THEN [d.call[b] EXCEPT !.type = CHOOSE t \in known(b) : TRUE]
                     ELSE d.call[b]
<1> PICK rows : rows = [b \in Call |-> row(b)]
  OBVIOUS
<1>1. e = [d EXCEPT !.call = rows]
  BY DEF NameAgents
<1>3. e.call = rows
  BY <1>1, OtherRows
<1>4. e.call[c] = row(c)
  <2> HIDE DEF row
  <2> QED BY <1>3
<1>5. d.call[c] = [k \in Column |-> d.call[c][k]]
  BY DEF Shaped
<1> PICK K : K = known(c)
  OBVIOUS
<1>6. CASE lacks(c) /\ K # {}
  <2> PICK t : t = CHOOSE x \in K : TRUE
    OBVIOUS
  <2>1. t \in K
    BY <1>6
  <2>2. e.call[c] = [d.call[c] EXCEPT !.type = t]
    BY <1>4, <1>6
  <2>3. /\ e.call[c].agent = d.call[c].agent /\ e.call[c].mode = d.call[c].mode
        /\ e.call[c].type = t
    BY <1>5, <2>2 DEF Column
  <2>4. CASE mem.type[d.call[c].agent] # Nil
    <3>1. K = {mem.type[d.call[c].agent]}
      BY <2>4, Zenon
    <3>2. t = mem.type[d.call[c].agent]
      BY <2>1, <3>1
    <3> QED BY <1>6, <2>3, <2>4, <3>2, Zenon DEF Named
  <2>5. CASE mem.type[d.call[c].agent] = Nil
    <3> DEFINE same == {a \in Call : d.call[a].agent = d.call[c].agent}
    <3>1. K = {d.call[a].type : a \in same} \ {Nil}
      BY <2>5, Zenon
    <3>2. t # Nil /\ \E b \in same : t = d.call[b].type
      BY <2>1, <3>1
    <3>3. t # Nil /\ \E b \in Call : d.call[b].agent = d.call[c].agent /\ d.call[b].type = t
      BY <3>2, Zenon
    <3> QED BY <1>6, <2>3, <2>5, <3>3, Zenon DEF Named
  <2> QED BY <2>4, <2>5
<1>7. CASE ~ lacks(c)
  BY <1>4, <1>7 DEF Named
<1>8. CASE lacks(c) /\ K = {}
  <2>1. mem.type[d.call[c].agent] = Nil
    BY <1>8
  <2>2. e.call[c] = d.call[c]
    BY <1>4, <1>8
  <2> QED BY <1>8, <2>1, <2>2 DEF Named
<1> QED BY <1>6, <1>7, <1>8

LEMMA InheritModesTells ==
  ASSUME NEW d, Shaped(d), NEW e, e = InheritModes(d), NEW c \in Call
  PROVE  /\ e.call[c].agent = d.call[c].agent
         /\ e.call[c].type = d.call[c].type
         /\ d.call[c].mode # Nil => e.call[c].mode = d.call[c].mode
<1> DEFINE gets(b) == (d.call[b].mode = Nil /\ d.call[b].session # Nil)
                      /\ ChangesOf(d, d.call[b].session) # {}
           before(b) == {i \in ChangesOf(d, d.call[b].session) :
                      /\ d.changes[i].ts # Nil /\ d.call[b].calledAt # Nil
                      /\ d.changes[i].ts <= d.call[b].calledAt}
           first(b) == CHOOSE i \in ChangesOf(d, d.call[b].session) :
                         \A j \in ChangesOf(d, d.call[b].session) : i <= j
           latest(b) == IF before(b) = {} THEN Nil
                        ELSE d.changes[LatestOf(d.changes, before(b))].to
           told(b) == Coalesce(latest(b), d.changes[first(b)].to)
           row(b) == IF gets(b) THEN [d.call[b] EXCEPT !.mode = told(b)] ELSE d.call[b]
<1> PICK rows : rows = [b \in Call |-> row(b)]
  OBVIOUS
<1>1. e = [d EXCEPT !.call = rows]
  BY DEF InheritModes
<1>3. e.call = rows
  BY <1>1, OtherRows
<1>4. e.call[c] = row(c)
  <2> HIDE DEF row
  <2> QED BY <1>3
<1>5. d.call[c] = [k \in Column |-> d.call[c][k]]
  BY DEF Shaped
<1>6. CASE gets(c)
  <2> HIDE DEF told
  <2>1. e.call[c] = [d.call[c] EXCEPT !.mode = told(c)]
    BY <1>4, <1>6
  <2>2. /\ e.call[c].agent = d.call[c].agent /\ e.call[c].type = d.call[c].type
    BY <1>5, <2>1 DEF Column
  <2> QED BY <1>6, <2>2
<1>7. CASE ~ gets(c)
  <2> HIDE DEF gets
  <2> QED BY <1>4, <1>7
<1> QED BY <1>6, <1>7

\* The names and the modes of a call that it already had stay.
LEMMA FinishTells ==
  ASSUME NEW d, Shaped(d), NEW mem, NEW e, e = Finish(d, mem), NEW c \in Call
  PROVE  /\ e.call[c].agent = d.call[c].agent
         /\ d.call[c].mode # Nil => e.call[c].mode = d.call[c].mode
         /\ Named(d, mem, c, e.call[c].type)
<1> PICK a : a = Relocate(d, mem)
  OBVIOUS
<1> PICK b : b = NameAgents(a, mem)
  OBVIOUS
<1>1. e = InheritModes(b)
  BY DEF Finish
<1>2. a.call = d.call /\ Shaped(a)
  BY RelocateTells, RelocateDoes
<1>3. /\ Shaped(b) /\ b.call[c].agent = a.call[c].agent /\ b.call[c].mode = a.call[c].mode
      /\ Named(a, mem, c, b.call[c].type)
  BY <1>2, NameAgentsDoes, NameAgentsTells
<1>4. /\ e.call[c].agent = b.call[c].agent /\ e.call[c].type = b.call[c].type
      /\ b.call[c].mode # Nil => e.call[c].mode = b.call[c].mode
  BY <1>1, <1>3, InheritModesTells
<1>5. Named(d, mem, c, b.call[c].type)
  BY <1>2, <1>3 DEF Named
<1> QED BY <1>2, <1>3, <1>4, <1>5

LEMMA FinishSound ==
  ASSUME NEW W, NEW T, Story(W, T), NEW d, Shaped(d), NEW mem,
         RowsSound(d, W, T), MemSound(mem, W, T), NEW e, e = Finish(d, mem)
  PROVE  RowsSound(e, W, T)
<1> SUFFICES ASSUME NEW c \in Call PROVE RowSound(e.call[c], c, W, T)
  BY DEF RowsSound
<1> PICK old : old = d.call[c]
  OBVIOUS
<1> PICK new : new = e.call[c]
  OBVIOUS
<1>1. new.agent = old.agent /\ Named(d, mem, c, new.type) /\ RowSound(old, c, W, T)
  BY FinishTells DEF RowsSound
<1>2. CASE new.type = old.type
  BY <1>1, <1>2 DEF RowSound
<1>3. CASE new.type # old.type
  <2>1. old.agent # Nil
    BY <1>1, <1>3 DEF Named
  <2>2. PICK q \in W : Witness(q, c) /\ q.agent = old.agent
    BY <1>1, <2>1 DEF RowSound
  <2>3. old.agent \in Agent
    BY <2>1, <2>2 DEF Story, WellFormed
  <2>4. \/ new.type = mem.type[old.agent]
        \/ new.type = Nil
        \/ \E b \in Call : d.call[b].agent = old.agent /\ d.call[b].type = new.type
    BY <1>1, <1>3 DEF Named
  <2>5. new.type # Nil => new.type = T[old.agent]
    <3>1. CASE new.type = mem.type[old.agent]
      BY <2>3, <3>1 DEF MemSound
    <3>2. CASE new.type # Nil /\ \E b \in Call : d.call[b].agent = old.agent
                                                 /\ d.call[b].type = new.type
      <4> PICK b \in Call : d.call[b].agent = old.agent /\ d.call[b].type = new.type
        BY <3>2
      <4> PICK row : row = d.call[b]
        OBVIOUS
      <4>1. RowSound(row, b, W, T) /\ row.agent # Nil /\ row.type # Nil
        BY <2>1, <3>2 DEF RowsSound
      <4>2. row.type = T[row.agent]
        BY <4>1, TypeIsTold
      <4> QED BY <4>2
    <3> QED BY <2>4, <3>1, <3>2
  <2> QED BY <1>1, <2>1, <2>2, <2>5 DEF RowSound
<1> QED BY <1>2, <1>3

\* What stood in the rows still stands ...
LEMMA FinishKeeps ==
  ASSUME NEW W, NEW T, Story(W, T), NEW B, NEW P, \A i \in P : B[i] \in W,
         NEW d, Shaped(d), NEW mem, NEW e, e = Finish(d, mem)
  PROVE  /\ ModesStand(d, B, P) => ModesStand(e, B, P)
         /\ TypesStand(d, B, P) => TypesStand(e, B, P)
<1>1. ASSUME ModesStand(d, B, P), NEW i \in P, B[i].kind = "use", NEW j \in 1 .. i - 1,
             Latest(B, B[i].session, i - 1, j)
      PROVE  e.call[B[i].call].mode = B[j].mode
  <2>1. d.call[B[i].call].mode = B[j].mode /\ B[j].mode # Nil
    BY <1>1 DEF ModesStand, Latest, Tells
  <2>2. B[i].call \in Call
    BY <1>1 DEF Story, WellFormed
  <2> QED BY <2>1, <2>2, FinishTells
<1>2. ASSUME TypesStand(d, B, P), NEW i \in P, NEW j \in P, Names(B, i, j), NEW c \in Call,
             e.call[c].agent = B[j].names
      PROVE  e.call[c].type = B[i].spawns
  <2>1. e.call[c].agent = d.call[c].agent /\ Named(d, mem, c, e.call[c].type)
    BY FinishTells
  <2>2. d.call[c].type = B[i].spawns /\ B[i].spawns # Nil
    BY <1>2, <2>1 DEF TypesStand, Names, Spawning
  <2> QED BY <2>1, <2>2 DEF Named
<1> QED BY <1>1, <1>2 DEF ModesStand, TypesStand

\* ... and a projector that has seen all the records names every subagent.
LEMMA FinishNames ==
  ASSUME NEW W, NEW T, Story(W, T), NEW B, NEW n \in Nat, Records(B, n, W),
         NEW d, Shaped(d), NEW mem, RowsSound(d, W, T), MemSound(mem, W, T),
         MemoryHas(mem, B, n), NEW e, e = Finish(d, mem)
  PROVE  TypesStand(e, B, 1..n)
<1> SUFFICES ASSUME NEW i \in 1..n, NEW j \in 1..n, Names(B, i, j), NEW c \in Call,
                    e.call[c].agent = B[j].names
             PROVE  e.call[c].type = B[i].spawns
  BY DEF TypesStand
<1> PICK a : a = B[j].names
  OBVIOUS
<1>1. /\ B[i] \in W /\ B[j] \in W /\ WellFormed(B[i]) /\ WellFormed(B[j]) /\ OneSubagent(W, T)
      /\ Spawning(B[i]) /\ Naming(B[j]) /\ B[j].call = B[i].call
  BY DEF Records, Story, Names
<1>2. a \in Agent /\ a # Nil
  BY <1>1 DEF Naming, WellFormed
<1>3. B[i].spawns = T[a]
  BY <1>1, <1>2 DEF OneSubagent, Spawning, Naming, WellFormed
<1>4. mem.type[a] = T[a] /\ mem.type[a] # Nil
  BY <1>2 DEF MemoryHas, MemSound
<1>5. d.call[c].agent = a /\ Named(d, mem, c, e.call[c].type)
  BY FinishTells
<1>6. CASE d.call[c].type = Nil
  BY <1>2, <1>3, <1>4, <1>5, <1>6 DEF Named
<1>7. CASE d.call[c].type # Nil
  <2> PICK row : row = d.call[c]
    OBVIOUS
  <2>1. RowSound(row, c, W, T) /\ row.agent # Nil /\ row.type # Nil
    BY <1>2, <1>5, <1>7 DEF RowsSound
  <2>2. row.type = T[row.agent]
    BY <2>1, TypeIsTold
  <2> QED BY <1>3, <1>5, <1>7, <2>2 DEF Named
<1> QED BY <1>6, <1>7

-----------------------------------------------------------------------------
(* Records one after another.                                              *)

\* One record projected, of tables and a memory of the right shape.
Goes(s, e, r) == Shaped(s.db) /\ MemShaped(s.mem)
                   => Shaped(e.db) /\ TellsRows(s, e, r) /\ TellsMemory(s, e, r)

LEMMA TranscriptGoes ==
  ASSUME NEW s, NEW r, WellFormed(r), NEW e, e = ProjectTranscript(s, r)
  PROVE  Goes(s, e, r)
<1> SUFFICES ASSUME Shaped(s.db), MemShaped(s.mem)
             PROVE  Shaped(e.db) /\ TellsRows(s, e, r) /\ TellsMemory(s, e, r)
  BY DEF Goes
<1>1. CASE r.lane = "transcript"
  <2>1. Effect(s.db, e.db, r)
    BY <1>1, TranscriptDoes
  <2>2. TellsRows(s, e, r) /\ TellsMemory(s, e, r)
    BY <1>1, TranscriptTells
  <2> QED BY <2>1, <2>2 DEF Effect
<1>2. CASE r.lane # "transcript"
  <2>1. e = s
    BY <1>2 DEF ProjectTranscript
  <2>2. r.lane = "otlp"
    BY <1>2 DEF WellFormed, Lane
  <2>3. TellsRows(s, s, r) /\ TellsMemory(s, s, r)
    BY <2>2, NothingTold
  <2> QED BY <2>1, <2>3
<1> QED BY <1>1, <1>2

LEMMA OtlpGoes ==
  ASSUME NEW s, NEW r, WellFormed(r), r.lane = "otlp",
         NEW e, e.db = ProjectOtlp(s.db, r), e.mem = s.mem
  PROVE  Goes(s, e, r)
<1> SUFFICES ASSUME Shaped(s.db), MemShaped(s.mem)
             PROVE  Shaped(e.db) /\ TellsRows(s, e, r) /\ TellsMemory(s, e, r)
  BY DEF Goes
<1>1. Effect(s.db, e.db, r)
  BY OtlpDoes
<1>2. TellsRows(s, e, r) /\ TellsMemory(s, e, r)
  BY OtlpTells
<1> QED BY <1>1, <1>2 DEF Effect

LEMMA BothGoes ==
  ASSUME NEW s, NEW r, WellFormed(r), NEW e, e = ProjectBoth(s, r)
  PROVE  Goes(s, e, r)
<1>1. CASE r.lane = "otlp"
  <2>1. e.db = ProjectOtlp(s.db, r) /\ e.mem = s.mem
    BY <1>1 DEF ProjectBoth
  <2> QED BY <1>1, <2>1, OtlpGoes
<1>2. CASE r.lane # "otlp"
  <2>1. e = ProjectTranscript(s, r)
    BY <1>2 DEF ProjectBoth
  <2> QED BY <2>1, TranscriptGoes
<1> QED BY <1>1, <1>2

\* A run of states that takes the records of rs one at a time.
Follows(after, rs, N) == \A k \in 1..N : Goes(after[k - 1], after[k], rs[k])

\* What is known of the rows and of the memory stays sound along it ...
LEMMA SoundAfter ==
  ASSUME NEW W, NEW T, Story(W, T), NEW N \in Nat, NEW rs, \A k \in 1..N : rs[k] \in W,
         NEW after, Follows(after, rs, N),
         Shaped(after[0].db), RowsSound(after[0].db, W, T), MemSound(after[0].mem, W, T)
  PROVE  \A n \in 0..N : /\ Shaped(after[n].db) /\ RowsSound(after[n].db, W, T)
                         /\ MemSound(after[n].mem, W, T)
<1> DEFINE Holds(n) == /\ Shaped(after[n].db) /\ RowsSound(after[n].db, W, T)
                       /\ MemSound(after[n].mem, W, T)
           S == {n \in 0..N : Holds(n)}
<1>1. 0 \in S
  OBVIOUS
<1>2. ASSUME NEW n \in 0..(N - 1), n \in S
      PROVE  n + 1 \in S
  <2>0. n + 1 \in 1..N /\ n + 1 \in 0..N /\ (n + 1) - 1 = n
    OBVIOUS
  <2> PICK s : s = after[n]
    OBVIOUS
  <2> PICK e : e = after[n + 1]
    OBVIOUS
  <2> PICK r : r = rs[n + 1]
    OBVIOUS
  <2>1. Shaped(s.db) /\ RowsSound(s.db, W, T) /\ MemSound(s.mem, W, T)
    BY <1>2
  <2> HIDE DEF S, Holds
  <2>2. r \in W
    BY <2>0
  <2>3. Goes(s, e, r)
    BY <2>0 DEF Follows
  <2>4. Shaped(e.db) /\ TellsRows(s, e, r) /\ TellsMemory(s, e, r)
    BY <2>1, <2>3 DEF Goes, MemSound
  <2>5. RowsSound(e.db, W, T) /\ MemSound(e.mem, W, T)
    BY <2>1, <2>2, <2>4, SoundToo
  <2>6. Holds(n + 1)
    BY <2>4, <2>5 DEF Holds
  <2> QED BY <2>0, <2>6 DEF S
<1>3. \A n \in 0..N : n \in S
  <2> HIDE DEF S
  <2>1. \A n \in 0..(N - 1) : n \in S => n + 1 \in S
    BY <1>2
  <2> QED BY <1>1, <2>1, Throughout
<1> QED BY <1>3

\* ... and what was told is remembered, and stands.
LEMMA ToldAfter ==
  ASSUME NEW W, NEW T, Story(W, T), NEW B, NEW b \in Nat, NEW N \in Nat, Records(B, b + N, W),
         NEW rs, \A k \in 1..N : rs[k] = B[b + k],
         NEW after, Follows(after, rs, N),
         Shaped(after[0].db), RowsSound(after[0].db, W, T), MemSound(after[0].mem, W, T),
         MemoryHas(after[0].mem, B, b), ModesStand(after[0].db, B, 1..b)
  PROVE  MemoryHas(after[N].mem, B, b + N) /\ ModesStand(after[N].db, B, 1 .. b + N)
<1> DEFINE Holds(n) == MemoryHas(after[n].mem, B, b + n) /\ ModesStand(after[n].db, B, 1 .. b + n)
           S == {n \in 0..N : Holds(n)}
<1>0. \A k \in 1..N : rs[k] \in W
  <2> SUFFICES ASSUME NEW k \in 1..N PROVE rs[k] \in W
    OBVIOUS
  <2>1. b + k \in 1 .. b + N
    OBVIOUS
  <2> QED BY <2>1 DEF Records
<1>1. \A n \in 0..N : /\ Shaped(after[n].db) /\ MemSound(after[n].mem, W, T)
  BY <1>0, SoundAfter
<1>2. 0 \in S
  <2>1. b + 0 = b /\ 0 \in 0..N
    OBVIOUS
  <2>2. Holds(0)
    BY <2>1
  <2> HIDE DEF Holds
  <2> QED BY <2>1, <2>2
<1>3. ASSUME NEW n \in 0..(N - 1), n \in S
      PROVE  n + 1 \in S
  <2>0. /\ n + 1 \in 1..N /\ n + 1 \in 0..N /\ (n + 1) - 1 = n /\ n \in 0..N
        /\ b + n \in Nat /\ b + (n + 1) = (b + n) + 1
        /\ \A i \in 1 .. (b + n) + 1 : i \in 1 .. b + N
    OBVIOUS
  <2> PICK s : s = after[n]
    OBVIOUS
  <2> PICK e : e = after[n + 1]
    OBVIOUS
  <2> PICK r : r = rs[n + 1]
    OBVIOUS
  <2> PICK m \in Nat : m = b + n
    BY <2>0
  <2>1. MemoryHas(s.mem, B, m) /\ ModesStand(s.db, B, 1..m)
    BY <1>3
  <2> HIDE DEF S, Holds
  <2>2. r = B[m + 1]
    BY <2>0
  <2>3. TellsRows(s, e, r) /\ TellsMemory(s, e, r)
    <3>1. Goes(s, e, r)
      BY <2>0 DEF Follows
    <3>2. Shaped(s.db) /\ MemShaped(s.mem)
      BY <1>1, <2>0 DEF MemSound
    <3> QED BY <3>1, <3>2 DEF Goes
  <2>4. Records(B, m + 1, W)
    BY <2>0 DEF Records
  <2>5. MemoryHas(e.mem, B, m + 1) /\ ModesStand(e.db, B, 1 .. m + 1)
    BY <2>1, <2>2, <2>3, <2>4, MemoryToo
  <2>6. Holds(n + 1)
    BY <2>0, <2>5 DEF Holds
  <2> QED BY <2>0, <2>6 DEF S
<1>4. N \in S
  <2> HIDE DEF S
  <2>1. \A n \in 0..(N - 1) : n \in S => n + 1 \in S
    BY <1>3
  <2>2. \A n \in 0..N : n \in S
    BY <1>2, <2>1, Throughout
  <2> QED BY <2>2
<1>5. Holds(N)
  <2> HIDE DEF Holds
  <2> QED BY <1>4
<1> QED BY <1>5

\* A replay takes its records one at a time, through either projector.
Replays(s, e, rs) ==
  \E after : after[0] = s /\ after[Len(rs)] = e /\ Follows(after, rs, Len(rs))

LEMMA TranscriptReplays ==
  ASSUME NEW rs, Len(rs) \in Nat, \A k \in 1..Len(rs) : WellFormed(rs[k]), NEW s,
         NEW e, e = ReplayTranscript(s, rs)
  PROVE  Replays(s, e, rs)
<1>1. PICK after : /\ after[0] = s
                   /\ \A n \in 1..Len(rs) : after[n] = ProjectTranscript(after[n - 1], rs[n])
                   /\ ReplayTranscript(s, rs) = after[Len(rs)]
  BY TranscriptReplayed
<1>2. ASSUME NEW k \in 1..Len(rs)
      PROVE  Goes(after[k - 1], after[k], rs[k])
  <2>1. after[k] = ProjectTranscript(after[k - 1], rs[k])
    BY <1>1
  <2>2. WellFormed(rs[k])
    OBVIOUS
  <2> QED BY <2>1, <2>2, TranscriptGoes
<1>3. Follows(after, rs, Len(rs))
  BY <1>2 DEF Follows
<1>4. after[Len(rs)] = e
  BY <1>1
<1> QED BY <1>1, <1>3, <1>4, Zenon DEF Replays

LEMMA BothReplays ==
  ASSUME NEW rs, Len(rs) \in Nat, \A k \in 1..Len(rs) : WellFormed(rs[k]), NEW s,
         NEW e, e = ReplayBoth(s, rs)
  PROVE  Replays(s, e, rs)
<1>1. PICK after : /\ after[0] = s
                   /\ \A n \in 1..Len(rs) : after[n] = ProjectBoth(after[n - 1], rs[n])
                   /\ ReplayBoth(s, rs) = after[Len(rs)]
  BY BothReplayed
<1>2. ASSUME NEW k \in 1..Len(rs)
      PROVE  Goes(after[k - 1], after[k], rs[k])
  <2>1. after[k] = ProjectBoth(after[k - 1], rs[k])
    BY <1>1
  <2>2. WellFormed(rs[k])
    OBVIOUS
  <2> QED BY <2>1, <2>2, BothGoes
<1>3. Follows(after, rs, Len(rs))
  BY <1>2 DEF Follows
<1>4. after[Len(rs)] = e
  BY <1>1
<1> QED BY <1>1, <1>3, <1>4, Zenon DEF Replays

LEMMA ReplaySound ==
  ASSUME NEW W, NEW T, Story(W, T), NEW rs, Len(rs) \in Nat, \A k \in 1..Len(rs) : rs[k] \in W,
         NEW s, NEW e, Replays(s, e, rs),
         Shaped(s.db), RowsSound(s.db, W, T), MemSound(s.mem, W, T)
  PROVE  Shaped(e.db) /\ RowsSound(e.db, W, T) /\ MemSound(e.mem, W, T)
<1> PICK N \in Nat : N = Len(rs)
  OBVIOUS
<1>1. PICK after : after[0] = s /\ after[N] = e /\ Follows(after, rs, N)
  BY DEF Replays
<1>2. \A k \in 1..N : rs[k] \in W
  OBVIOUS
<1>3. Shaped(after[0].db) /\ RowsSound(after[0].db, W, T) /\ MemSound(after[0].mem, W, T)
  BY <1>1
<1>4. \A n \in 0..N : /\ Shaped(after[n].db) /\ RowsSound(after[n].db, W, T)
                      /\ MemSound(after[n].mem, W, T)
  BY <1>1, <1>2, <1>3, SoundAfter
<1>5. N \in 0..N
  OBVIOUS
<1> QED BY <1>1, <1>4, <1>5

\* The records of rs are those of B that come after the first b.
ComeAfter(rs, B, b) == \A k \in 1..Len(rs) : rs[k] = B[b + k]

LEMMA ReplayTold ==
  ASSUME NEW W, NEW T, Story(W, T), NEW rs, Len(rs) \in Nat,
         NEW B, NEW b \in Nat, NEW n \in Nat, n = b + Len(rs), Records(B, n, W),
         ComeAfter(rs, B, b), NEW s, NEW e, Replays(s, e, rs),
         Shaped(s.db), RowsSound(s.db, W, T), MemSound(s.mem, W, T),
         MemoryHas(s.mem, B, b), ModesStand(s.db, B, 1..b)
  PROVE  MemoryHas(e.mem, B, n) /\ ModesStand(e.db, B, 1..n)
<1> PICK N \in Nat : N = Len(rs)
  OBVIOUS
<1>1. PICK after : after[0] = s /\ after[N] = e /\ Follows(after, rs, N)
  BY DEF Replays
<1>2. \A k \in 1..N : rs[k] = B[b + k]
  BY DEF ComeAfter
<1>3. /\ Shaped(after[0].db) /\ RowsSound(after[0].db, W, T) /\ MemSound(after[0].mem, W, T)
      /\ MemoryHas(after[0].mem, B, b) /\ ModesStand(after[0].db, B, 1..b)
  BY <1>1
<1>4. Records(B, b + N, W)
  OBVIOUS
<1>5. MemoryHas(after[N].mem, B, b + N) /\ ModesStand(after[N].db, B, 1 .. b + N)
  BY <1>1, <1>2, <1>3, <1>4, ToldAfter
<1> QED BY <1>1, <1>5

\* Tables and a projector with nothing in them.
LEMMA NothingSound ==
  ASSUME NEW W, NEW T
  PROVE  /\ RowsSound(NoRows, W, T) /\ MemSound(NoMemory, W, T)
         /\ \A B : MemoryHas(NoMemory, B, 0)
<1>1. \A c \in Call : NoRows.call[c].agent = Nil /\ NoRows.call[c].type = Nil
  BY DEF NoRows, NoRow, Column
<1>2. RowsSound(NoRows, W, T)
  BY <1>1 DEF RowsSound, RowSound
<1> PICK mem : mem = NoMemory
  OBVIOUS
<1>3. mem = [mode |-> [x \in Session |-> Nil], type |-> [a \in Agent |-> Nil],
             asked |-> [c \in Call |-> Nil], moved |-> [x \in Session |-> Nil]]
  BY DEF NoMemory
<1>4. /\ mem.mode = [x \in Session |-> Nil] /\ mem.type = [a \in Agent |-> Nil]
      /\ mem.asked = [c \in Call |-> Nil]
      /\ mem = [mode |-> mem.mode, type |-> mem.type, asked |-> mem.asked, moved |-> mem.moved]
  BY <1>3
<1>5. MemShaped(mem)
  BY <1>4 DEF MemShaped
<1>6. MemSound(mem, W, T)
  BY <1>4, <1>5 DEF MemSound
<1>7. \A i : i \notin 1..0
  OBVIOUS
<1>8. \A B : MemoryHas(mem, B, 0)
  BY <1>7 DEF MemoryHas
<1> QED BY <1>2, <1>6, <1>8

\* One that has seen no record of the transcripts has nothing to remember.
LEMMA NothingToRemember ==
  ASSUME NEW B, NEW n, \A i \in 1..n : WellFormed(B[i]) /\ B[i].lane # "transcript", NEW mem
  PROVE  MemoryHas(mem, B, n)
<1>1. \A i \in 1..n : (\A x : ~ Tells(B[i], x)) /\ ~ Spawning(B[i])
  BY DEF Tells, Spawning, WellFormed
<1> QED BY <1>1 DEF MemoryHas, Latest, Names

\* What is known of the first n records is known when there are more.
LEMMA MoreRecords ==
  ASSUME NEW B, NEW C, NEW n \in Nat, \A i \in 1..n : C[i] = B[i]
  PROVE  /\ \A mem : MemoryHas(mem, B, n) => MemoryHas(mem, C, n)
         /\ \A d, P : P \subseteq 1..n =>
              /\ ModesStand(d, B, P) => ModesStand(d, C, P)
              /\ TypesStand(d, B, P) => TypesStand(d, C, P)
<1>1. ASSUME NEW x, NEW m \in 0..n, NEW j \in 1..m, Latest(C, x, m, j)
      PROVE  Latest(B, x, m, j)
  <2>1. \A k \in 1..m : C[k] = B[k]
    OBVIOUS
  <2> QED BY <1>1, <2>1 DEF Latest
<1>2. ASSUME NEW i \in 1..n, NEW j \in 1..n
      PROVE  Names(C, i, j) <=> Names(B, i, j)
  BY DEF Names
<1>3. n \in 0..n
  OBVIOUS
<1>4. ASSUME NEW mem, MemoryHas(mem, B, n) PROVE MemoryHas(mem, C, n)
  <2>1. \A x \in Session, j \in 1..n : Latest(C, x, n, j) => mem.mode[x] = C[j].mode
    BY <1>1, <1>3, <1>4 DEF MemoryHas
  <2>2. ASSUME NEW i \in 1..n, Spawning(C[i])
        PROVE  mem.asked[C[i].call] = C[i].spawns \/ \E j \in 1..n : Names(C, i, j)
    <3>1. mem.asked[B[i].call] = B[i].spawns \/ \E j \in 1..n : Names(B, i, j)
      BY <1>4, <2>2 DEF MemoryHas
    <3> QED BY <1>2, <3>1
  <2>3. ASSUME NEW i \in 1..n, NEW j \in 1..n, Names(C, i, j)
        PROVE  mem.type[C[j].names] # Nil
    <3>1. mem.type[B[j].names] # Nil
      BY <1>2, <1>4, <2>3 DEF MemoryHas
    <3> QED BY <3>1
  <2> QED BY <2>1, <2>2, <2>3 DEF MemoryHas
<1>5. ASSUME NEW d, NEW P, P \subseteq 1..n, ModesStand(d, B, P)
      PROVE  ModesStand(d, C, P)
  <2> SUFFICES ASSUME NEW i \in P, C[i].kind = "use", NEW j \in 1 .. i - 1,
                      Latest(C, C[i].session, i - 1, j)
               PROVE  d.call[C[i].call].mode = C[j].mode
    BY DEF ModesStand
  <2>1. i \in 1..n /\ j \in 1..n /\ i - 1 \in 0..n
    BY <1>5
  <2>2. C[i] = B[i] /\ C[j] = B[j]
    BY <2>1
  <2>3. Latest(B, C[i].session, i - 1, j)
    BY <1>1, <2>1
  <2> QED BY <1>5, <2>2, <2>3 DEF ModesStand
<1>6. ASSUME NEW d, NEW P, P \subseteq 1..n, TypesStand(d, B, P)
      PROVE  TypesStand(d, C, P)
  <2> SUFFICES ASSUME NEW i \in P, NEW j \in P, Names(C, i, j), NEW c \in Call,
                      d.call[c].agent = C[j].names
               PROVE  d.call[c].type = C[i].spawns
    BY DEF TypesStand
  <2>1. C[i] = B[i] /\ C[j] = B[j] /\ Names(B, i, j)
    BY <1>2, <1>6
  <2> QED BY <1>6, <2>1 DEF TypesStand
<1> QED BY <1>4, <1>5, <1>6

-----------------------------------------------------------------------------
(* What one projector knows that has seen everything.                      *)

\* What Claude Code writes of calls and of subagents, in any of the worlds.
WorldsTold == \A w \in Worlds : AskedOnce(Written(w)) /\ SubagentsTold(Written(w))

TypeOf == CHOOSE type : OneSubagent(Written(world), type)

\* Whatever a row or a projector has of a subagent was told.
SoundHolds ==
  /\ RowsSound(db, Written(world), TypeOf)
  /\ MemSound(memory, Written(world), TypeOf)
  /\ \A p \in Process : MemSound(job[p].mem, Written(world), TypeOf)

\* A burst takes one file, with the tailer's projector; as long as that one has
\* been through everything, all that is stored since is owed.
Tailing == job["app"].kind = "tail"

TailHolds ==
  /\ Tailing => /\ job["app"].step \in {"read", "stored"}
                /\ job["app"].mem = memory
                /\ Tail(job["app"].left) = <<>>
  /\ seer = "tail" => /\ job["cli"].step # "rebuild"
                      /\ Tailing => job["app"].before + 1 .. Len(evidence) \subseteq owed

\* Nothing is owed but what the burst under way is about to project, and so the
\* tailer's projector has been through the first Read records.
Fresh == \A i \in owed : Tailing /\ i > job["app"].before
Read == IF Tailing THEN job["app"].before ELSE Len(evidence)

ToldHolds ==
  /\ seer = "rebuild" \/ (seer = "tail" /\ Fresh)
       => ModesStand(db, Bodies, Projected) /\ TypesStand(db, Bodies, Projected)
  /\ seer = "tail" /\ Fresh => MemoryHas(memory, Bodies, Read)

Told == SoundHolds /\ TailHolds /\ ToldHolds

LEMMA TypesStay ==
  ASSUME UNCHANGED world
  PROVE  Written(world') = Written(world) /\ TypeOf' = TypeOf
BY DEF TypeOf

LEMMA WorldTold ==
  ASSUME WorldsTold, RowsHold
  PROVE  Story(Written(world), TypeOf)
<1>1. /\ \A r \in Written(world) : WellFormed(r)
      /\ world \in Worlds
  BY Bounded DEF Possible, RowsHold
<1>2. AskedOnce(Written(world)) /\ SubagentsTold(Written(world))
  BY <1>1 DEF WorldsTold
<1>3. PICK type : OneSubagent(Written(world), type)
  BY <1>2 DEF SubagentsTold
<1>4. OneSubagent(Written(world), TypeOf)
  BY <1>3, Zenon DEF TypeOf
<1> QED BY <1>1, <1>2, <1>4 DEF Story

LEMMA BodiesTold ==
  RowsHold =>
    /\ Len(evidence) \in Nat /\ Ids = 1..Len(evidence)
    /\ \A i \in 1..Len(evidence) : Bodies[i] = BodyOf(i) /\ Bodies[i] \in Written(world)
    /\ Records(Bodies, Len(evidence), Written(world))
    /\ owed \subseteq 1..Len(evidence) /\ Projected \subseteq 1..Len(evidence)
<1> HAVE RowsHold
<1>1. /\ Len(evidence) \in Nat /\ Ids = 1..Len(evidence)
      /\ owed \subseteq 1..Len(evidence) /\ Projected \subseteq 1..Len(evidence)
  BY Bounded DEF RowsHold, Projected
<1>2. \A i \in 1..Len(evidence) : Bodies[i] = BodyOf(i)
  BY <1>1, Zenon DEF Bodies, BodyOf, Ids
<1>3. \A i \in 1..Len(evidence) : BodyOf(i) \in Written(world)
  BY <1>1, BodiesAre
<1>4. \A i, j \in 1..Len(evidence) : BodyOf(i) = BodyOf(j) => i = j
  BY <1>1 DEF RowsHold
<1>5. Records(Bodies, Len(evidence), Written(world))
  BY <1>2, <1>3, <1>4 DEF Records
<1> QED BY <1>1, <1>2, <1>3, <1>5

LEMMA BodiesToldNext ==
  ASSUME RowsHold'
  PROVE  /\ Len(evidence') \in Nat /\ Ids' = 1..Len(evidence')
         /\ \A i \in 1..Len(evidence') : /\ Bodies'[i] = BodyOf(i)'
                                         /\ Bodies'[i] \in Written(world')
         /\ Records(Bodies', Len(evidence'), Written(world'))
<1>1. (RowsHold =>
         /\ Len(evidence) \in Nat /\ Ids = 1..Len(evidence)
         /\ \A i \in 1..Len(evidence) : Bodies[i] = BodyOf(i) /\ Bodies[i] \in Written(world)
         /\ Records(Bodies, Len(evidence), Written(world))
         /\ owed \subseteq 1..Len(evidence) /\ Projected \subseteq 1..Len(evidence))'
  BY BodiesTold, PTL
<1> QED BY <1>1

\* Steps that only move a job on.
LEMMA JobsSound ==
  ASSUME SoundHolds, UNCHANGED <<world, db>>,
         MemSound(memory', Written(world), TypeOf),
         \A p \in Process : MemSound(job'[p].mem, Written(world), TypeOf)
  PROVE  SoundHolds'
BY TypesStay DEF SoundHolds

LEMMA JobsTold ==
  ASSUME IInv, ToldHolds, UNCHANGED <<world, evidence, db, owed>>,
         seer' = "rebuild" => seer = "rebuild",
         seer' = "tail" /\ Fresh' => seer = "tail" /\ Fresh /\ MemoryHas(memory', Bodies, Read')
  PROVE  ToldHolds'
<1>1. Bodies' = Bodies /\ Projected' = Projected /\ db' = db
  BY DEF Bodies, Projected, Ids, Body, Lines, Posts
<1> QED BY <1>1 DEF ToldHolds

LEMMA PutTells ==
  ASSUME IInv, NEW p \in Process, NEW j, Puts(p, j)
  PROVE  job'[p] = j /\ \A q \in Process \ {p} : job'[q] = job[q]
BY DEF IInv, JobsHold, Puts

LEMMA BeginTells ==
  ASSUME IInv, NEW p \in Process, NEW kind, NEW files, NEW mem, Begin(p, kind, files, mem)
  PROVE  /\ job'[p].kind = kind /\ job'[p].step = "read" /\ job'[p].left = files
         /\ job'[p].before = Len(evidence) /\ job'[p].mem = mem
         /\ \A q \in Process \ {p} : job'[q] = job[q]
<1> PICK j : j = [kind |-> kind, step |-> "read", left |-> files, before |-> Len(evidence),
                  mem |-> mem]
  OBVIOUS
<1>1. Puts(p, j)
  BY Zenon DEF Begin, Puts
<1>2. j.kind = kind /\ j.step = "read" /\ j.left = files /\ j.before = Len(evidence) /\ j.mem = mem
  OBVIOUS
<1> QED BY <1>1, <1>2, PutTells

LEMMA AdvanceTells ==
  ASSUME IInv, NEW p \in Process, NEW mem, Advance(p, mem)
  PROVE  /\ job'[p].step # "rebuild"
         /\ job'[p].kind = job[p].kind \/ job'[p].kind = "none"
         /\ job'[p].mem = mem \/ job'[p].mem = NoMemory
         /\ Tail(job[p].left) = <<>> /\ job[p].kind # "backfill" => job'[p].kind = "none"
         /\ \A q \in Process \ {p} : job'[q] = job[q]
<1> DEFINE left == Tail(job[p].left)
           next(step, m) == [kind |-> job[p].kind, step |-> step, left |-> left,
                             before |-> 0, mem |-> m]
<1>1. \/ Puts(p, next("next", mem)) /\ left # <<>>
      \/ Puts(p, Idle)
      \/ Puts(p, next("clear", NoMemory)) /\ job[p].kind = "backfill"
  BY Zenon DEF Advance, Puts
<1> HIDE DEF left
<1>2. CASE Puts(p, next("next", mem)) /\ left # <<>>
  <2> PICK j : j = next("next", mem)
    OBVIOUS
  <2>1. j.step = "next" /\ j.kind = job[p].kind /\ j.mem = mem
    OBVIOUS
  <2> HIDE DEF next
  <2>2. job'[p] = j /\ \A q \in Process \ {p} : job'[q] = job[q]
    BY <1>2, PutTells
  <2> QED BY <1>2, <2>1, <2>2 DEF left
<1>3. CASE Puts(p, Idle)
  <2>1. Idle.step = "idle" /\ Idle.kind = "none" /\ Idle.mem = NoMemory
    BY DEF Idle
  <2> QED BY <1>3, <2>1, PutTells
<1>4. CASE Puts(p, next("clear", NoMemory)) /\ job[p].kind = "backfill"
  <2> PICK j : j = next("clear", NoMemory)
    OBVIOUS
  <2>1. j.step = "clear" /\ j.kind = job[p].kind /\ j.mem = NoMemory
    OBVIOUS
  <2> HIDE DEF next
  <2>2. job'[p] = j /\ \A q \in Process \ {p} : job'[q] = job[q]
    BY <1>4, PutTells
  <2> QED BY <1>4, <2>1, <2>2
<1> QED BY <1>1, <1>2, <1>3, <1>4

LEMMA BurstTells == ASSUME IInv, Told, Burst, UNCHANGED world PROVE Told'
<1>1. PICK i \in DOMAIN File : Begin("app", "tail", <<File[i]>>, memory)
  BY DEF Burst
<1> PICK files : files = <<File[i]>>
  OBVIOUS
<1>2. job["app"] = Idle /\ UNCHANGED <<world, evidence, db, resident, memory, owed, seer, met>>
  BY DEF Burst
<1>3. /\ job'["app"].kind = "tail" /\ job'["app"].step = "read" /\ job'["app"].left = files
      /\ job'["app"].before = Len(evidence) /\ job'["app"].mem = memory
      /\ job'["cli"] = job["cli"]
  BY <1>1, BeginTells DEF Process
<1>4. Tail(files) = <<>>
  OBVIOUS
<1>5. Len(evidence) \in Nat /\ owed \subseteq 1..Len(evidence)
  BY BodiesTold DEF IInv
<1>6. ~ Tailing
  BY <1>2, IdleFits DEF Tailing
<1>7. SoundHolds'
  <2>1. /\ MemSound(memory', Written(world), TypeOf)
        /\ \A p \in Process : MemSound(job'[p].mem, Written(world), TypeOf)
    BY <1>2, <1>3 DEF Told, SoundHolds, Process
  <2> QED BY <1>2, <2>1, JobsSound DEF Told
<1>8. TailHolds'
  <2>1. job'["app"].before + 1 .. Len(evidence) = {}
    BY <1>3, <1>5
  <2> QED BY <1>2, <1>3, <1>4, <2>1 DEF Told, TailHolds, Tailing
<1>9. ToldHolds'
  <2>1. seer' = "tail" /\ Fresh' => seer = "tail" /\ Fresh /\ MemoryHas(memory', Bodies, Read')
    <3> SUFFICES ASSUME seer' = "tail", Fresh'
                 PROVE  seer = "tail" /\ Fresh /\ MemoryHas(memory', Bodies, Read')
      OBVIOUS
    <3>1. owed = {}
      BY <1>2, <1>3, <1>5 DEF Fresh
    <3>2. seer = "tail" /\ Fresh
      BY <1>2, <3>1 DEF Fresh
    <3>3. MemoryHas(memory, Bodies, Len(evidence))
      BY <1>6, <3>2 DEF Told, ToldHolds, Read
    <3>4. Read' = Len(evidence)
      BY <1>2, <1>3 DEF Read, Tailing
    <3> QED BY <1>2, <3>2, <3>3, <3>4
  <2> QED BY <1>2, <2>1, JobsTold DEF Told
<1> QED BY <1>7, <1>8, <1>9 DEF Told

LEMMA CatchUpTells == ASSUME IInv, Told, CatchUp, UNCHANGED world PROVE Told'
<1>1. /\ Begin("app", "catchUp", File, NoMemory) /\ job["app"] = Idle
      /\ UNCHANGED <<world, evidence, db, resident, memory, owed, seer, met>>
  BY DEF CatchUp
<1>2. /\ job'["app"].kind = "catchUp" /\ job'["app"].mem = NoMemory
      /\ job'["cli"] = job["cli"]
  BY <1>1, BeginTells DEF Process
<1>3. ~ Tailing /\ ~ Tailing'
  BY <1>1, <1>2, IdleFits DEF Tailing
<1>4. SoundHolds'
  <2>1. /\ MemSound(memory', Written(world), TypeOf)
        /\ \A p \in Process : MemSound(job'[p].mem, Written(world), TypeOf)
    BY <1>1, <1>2, NothingSound DEF Told, SoundHolds, Process
  <2> QED BY <1>1, <2>1, JobsSound DEF Told
<1>5. TailHolds'
  BY <1>1, <1>2, <1>3 DEF Told, TailHolds
<1>6. ToldHolds'
  <2>1. (Fresh' <=> Fresh) /\ Read' = Read
    BY <1>1, <1>3 DEF Fresh, Read
  <2> QED BY <1>1, <2>1, JobsTold DEF Told, ToldHolds
<1> QED BY <1>4, <1>5, <1>6 DEF Told

\* A step of the command line's alone, that leaves the tables as they are.
LEMMA BesideTells ==
  ASSUME IInv, Told, UNCHANGED <<world, evidence, db, memory, owed, seer>>,
         job'["app"] = job["app"], job'["cli"].step # "rebuild",
         MemSound(job'["cli"].mem, Written(world), TypeOf)
  PROVE  Told'
<1>1. SoundHolds'
  <2>1. /\ MemSound(memory', Written(world), TypeOf)
        /\ \A p \in Process : MemSound(job'[p].mem, Written(world), TypeOf)
    BY DEF Told, SoundHolds, Process
  <2> QED BY <2>1, JobsSound DEF Told
<1>2. TailHolds'
  BY DEF Told, TailHolds, Tailing
<1>3. ToldHolds'
  <2>1. (Fresh' <=> Fresh) /\ Read' = Read
    BY DEF Fresh, Read, Tailing
  <2> QED BY <2>1, JobsTold DEF Told, ToldHolds
<1> QED BY <1>1, <1>2, <1>3 DEF Told

LEMMA BackfillTells == ASSUME IInv, Told, Backfill, UNCHANGED world PROVE Told'
<1>1. /\ Begin("cli", "backfill", File, NoMemory)
      /\ UNCHANGED <<world, evidence, db, memory, owed, seer>>
  BY DEF Backfill
<1>2. /\ job'["cli"].step = "read" /\ job'["cli"].mem = NoMemory
      /\ job'["app"] = job["app"]
  BY <1>1, BeginTells DEF Process
<1> QED BY <1>1, <1>2, NothingSound, BesideTells

LEMMA FailRebuildTells == ASSUME IInv, Told, FailRebuild, UNCHANGED world PROVE Told'
<1>1. /\ Puts("cli", Idle)
      /\ UNCHANGED <<world, evidence, db, memory, owed, seer>>
  BY DEF FailRebuild, Puts
<1>2. job'["cli"] = Idle /\ job'["app"] = job["app"]
  BY <1>1, PutTells DEF Process
<1>3. Idle.step = "idle" /\ Idle.mem = NoMemory
  BY DEF Idle
<1> QED BY <1>1, <1>2, <1>3, NothingSound, BesideTells

LEMMA KillTells == ASSUME IInv, Told, Kill, UNCHANGED world PROVE Told'
<1>1. /\ Puts("cli", Idle)
      /\ UNCHANGED <<world, evidence, db, memory, owed, seer>>
  BY DEF Kill, Puts
<1>2. job'["cli"] = Idle /\ job'["app"] = job["app"]
  BY <1>1, PutTells DEF Process
<1>3. Idle.step = "idle" /\ Idle.mem = NoMemory
  BY DEF Idle
<1> QED BY <1>1, <1>2, <1>3, NothingSound, BesideTells

LEMMA StartTells == ASSUME IInv, Told, Start, UNCHANGED world PROVE Told'
<1>1. UNCHANGED <<world, evidence, db, memory, job, owed, seer>>
  BY DEF Start
<1>2. Written(world') = Written(world) /\ TypeOf' = TypeOf
  BY TypesStay
<1>3. SoundHolds'
  BY <1>1, <1>2 DEF Told, SoundHolds
<1>4. TailHolds'
  BY <1>1 DEF Told, TailHolds, Tailing
<1>5. ToldHolds'
  <2>1. (Fresh' <=> Fresh) /\ Read' = Read
    BY <1>1 DEF Fresh, Read, Tailing
  <2> QED BY <1>1, <2>1, JobsTold DEF Told, ToldHolds
<1> QED BY <1>3, <1>4, <1>5 DEF Told

\* The tailer's projector is gone, and nobody is said to have seen everything
\* unless there is nothing it could have seen.
LEMMA ExitTells == ASSUME IInv, Told, Exit, UNCHANGED world PROVE Told'
<1>1. /\ Puts("app", Idle) /\ memory' = NoMemory
      /\ UNCHANGED <<world, evidence, db, owed>>
      /\ seer' = IF seer = "tail" /\ Scanned(0) # {} THEN "many" ELSE seer
  BY DEF Exit, Puts
<1>2. job'["app"] = Idle /\ job'["cli"] = job["cli"]
  BY <1>1, PutTells DEF Process
<1>3. Idle.kind = "none" /\ Idle.mem = NoMemory
  BY DEF Idle
<1>4. ~ Tailing'
  BY <1>2, <1>3 DEF Tailing
<1>5. SoundHolds'
  <2>1. /\ MemSound(memory', Written(world), TypeOf)
        /\ \A p \in Process : MemSound(job'[p].mem, Written(world), TypeOf)
    BY <1>1, <1>2, <1>3, NothingSound DEF Told, SoundHolds, Process
  <2> QED BY <1>1, <2>1, JobsSound DEF Told
<1>6. TailHolds'
  BY <1>1, <1>2, <1>4 DEF Told, TailHolds
<1>7. ToldHolds'
  <2>1. seer' = "tail" /\ Fresh' => seer = "tail" /\ Fresh /\ MemoryHas(memory', Bodies, Read')
    <3> SUFFICES ASSUME seer' = "tail", Fresh'
                 PROVE  seer = "tail" /\ Fresh /\ MemoryHas(memory', Bodies, Read')
      OBVIOUS
    <3>1. seer = "tail" /\ Scanned(0) = {}
      BY <1>1
    <3>2. owed = {}
      BY <1>1, <1>4 DEF Fresh
    <3>3. Fresh
      BY <3>2 DEF Fresh
    <3>4. Read' = Len(evidence)
      BY <1>1, <1>4 DEF Read
    <3>5. \A i \in 1..Len(evidence) : WellFormed(Bodies[i]) /\ Bodies[i].lane # "transcript"
      <4> SUFFICES ASSUME NEW i \in 1..Len(evidence)
                   PROVE  WellFormed(Bodies[i]) /\ Bodies[i].lane # "transcript"
        OBVIOUS
      <4>1. Bodies[i] = BodyOf(i) /\ Bodies[i] \in Written(world) /\ RowsHold
        BY BodiesTold DEF IInv
      <4>2. WellFormed(Bodies[i])
        BY <4>1, Bounded DEF Possible
      <4>3. i \notin Scanned(0)
        BY <3>1
      <4>4. Body(evidence[i]).lane # "transcript"
        <5>1. 0 + 1 = 1
          OBVIOUS
        <5> QED BY <4>3, <5>1, Zenon DEF Scanned
      <4> QED BY <4>1, <4>2, <4>4 DEF BodyOf
    <3>6. MemoryHas(memory', Bodies, Len(evidence))
      BY <3>5, NothingToRemember
    <3> QED BY <3>1, <3>3, <3>4, <3>6
  <2>2. seer' = "rebuild" => seer = "rebuild"
    BY <1>1
  <2> QED BY <1>1, <2>1, <2>2, JobsTold DEF Told
<1> QED BY <1>5, <1>6, <1>7 DEF Told

LEMMA OpenFileTells ==
  ASSUME IInv, Told, NEW p \in Process, OpenFile(p), UNCHANGED world PROVE Told'
<1>1. /\ Begin(p, job[p].kind, job[p].left, job[p].mem) /\ job[p].step = "next"
      /\ UNCHANGED <<world, evidence, db, resident, memory, owed, seer, met>>
  BY DEF OpenFile
<1>2. /\ job'[p].kind = job[p].kind /\ job'[p].step = "read" /\ job'[p].mem = job[p].mem
      /\ \A q \in Process \ {p} : job'[q] = job[q]
  BY <1>1, BeginTells
<1>3. MemSound(job[p].mem, Written(world), TypeOf)
  BY DEF Told, SoundHolds
<1>4. CASE p = "cli"
  BY <1>1, <1>2, <1>3, <1>4, BesideTells DEF Process
<1>5. CASE p = "app"
  <2>1. ~ Tailing
    BY <1>1, <1>5 DEF Told, TailHolds
  <2>2. ~ Tailing'
    BY <1>2, <1>5, <2>1 DEF Tailing
  <2>3. SoundHolds'
    <3>1. /\ MemSound(memory', Written(world), TypeOf)
          /\ \A q \in Process : MemSound(job'[q].mem, Written(world), TypeOf)
      BY <1>1, <1>2 DEF Told, SoundHolds
    <3> QED BY <1>1, <3>1, JobsSound DEF Told
  <2>4. TailHolds'
    BY <1>1, <1>2, <1>5, <2>1, <2>2 DEF Told, TailHolds, Process
  <2>5. ToldHolds'
    <3>1. (Fresh' <=> Fresh) /\ Read' = Read
      BY <1>1, <2>1, <2>2 DEF Fresh, Read
    <3> QED BY <1>1, <3>1, JobsTold DEF Told, ToldHolds
  <2> QED BY <2>3, <2>4, <2>5 DEF Told
<1> QED BY <1>4, <1>5 DEF Process

LEMMA StoredRows ==
  ASSUME RowsHold, JobsHold, NEW p \in Process, StoreLines(p), UNCHANGED world
  PROVE  \E m \in Nat : /\ Len(evidence') = Len(evidence) + m
                        /\ owed' = owed \cup (Len(evidence) + 1 .. Len(evidence) + m)
                        /\ \A i \in 1..Len(evidence) : evidence'[i] = evidence[i]
<1> PICK f : f = Head(job[p].left)
  OBVIOUS
<1>0. /\ Len(evidence) \in Nat /\ evidence \in Seq(Entry)
      /\ job[p].step = "read"
  BY Bounded DEF StoreLines, RowsHold
<1>1. f \in Path /\ Len(Lines[f]) \in Nat /\ MaxOffset(f) \in 0..Len(Lines[f])
  <2>1. job[p].left \in Seq(Path) /\ job[p].left # <<>>
    BY <1>0 DEF JobsHold, JobFits
  <2>2. f \in Path
    BY <2>1, HeadTailProperties
  <2> QED BY <1>0, <2>2, Bounded, MaxOffsetIs
<1>2. PICK last \in MaxOffset(f) .. Len(Lines[f]) :
        LET rows == NewRows(f, MaxOffset(f) + 1, last) IN
        /\ evidence' = evidence \o rows
        /\ owed' = owed \cup (Len(evidence) + 1 .. Len(evidence) + Len(rows))
  BY DEF StoreLines
<1> PICK first \in Nat \ {0} : first = MaxOffset(f) + 1
  BY <1>1
<1> PICK rows : rows = NewRows(f, first, last)
  OBVIOUS
<1>3. /\ evidence' = evidence \o rows
      /\ owed' = owed \cup (Len(evidence) + 1 .. Len(evidence) + Len(rows))
  BY <1>2
<1>4. rows \in Seq(Entry)
  <2>1. last \in 0..Len(Lines[f])
    BY <1>1, <1>2
  <2> QED BY <1>1, <2>1, NewRowsAre DEF FreshRows
<1>5. Len(rows) \in Nat
  BY <1>4, LenProperties
<1>6. /\ Len(evidence') = Len(evidence) + Len(rows)
      /\ \A i \in 1 .. Len(evidence) + Len(rows) :
           evidence'[i] = IF i <= Len(evidence) THEN evidence[i] ELSE rows[i - Len(evidence)]
  BY <1>0, <1>3, <1>4, ConcatProperties, SMTT(30)
<1>7. \A i \in 1..Len(evidence) : evidence'[i] = evidence[i]
  BY <1>0, <1>5, <1>6
<1> QED BY <1>3, <1>5, <1>6, <1>7

LEMMA StoreLinesTells ==
  ASSUME IInv, IInv', Told, NEW p \in Process, StoreLines(p), UNCHANGED world PROVE Told'
<1>1. /\ job' = [job EXCEPT ![p].step = "stored"]
      /\ UNCHANGED <<world, db, resident, memory, seer, met, spent>>
  BY DEF StoreLines
<1> PICK n \in Nat : n = Len(evidence) /\ Ids = 1..n /\ owed \subseteq 1..n
  BY BodiesTold DEF IInv
<1>2. PICK m \in Nat : /\ Len(evidence') = n + m
                       /\ owed' = owed \cup (n + 1 .. n + m)
                       /\ \A i \in 1..n : evidence'[i] = evidence[i]
  BY StoredRows DEF IInv
<1>3. \A q \in Process :
        /\ job'[q].kind = job[q].kind /\ job'[q].left = job[q].left
        /\ job'[q].before = job[q].before /\ job'[q].mem = job[q].mem
        /\ job'[q].step = IF q = p THEN "stored" ELSE job[q].step
  <2> PICK j : j = job[p]
    OBVIOUS
  <2>1. /\ job = [q \in Process |-> job[q]]
        /\ j = [kind |-> j.kind, step |-> j.step, left |-> j.left, before |-> j.before,
                mem |-> j.mem]
    BY DEF IInv, JobsHold, JobFits
  <2> PICK k : k = [kind |-> j.kind, step |-> "stored", left |-> j.left, before |-> j.before,
                    mem |-> j.mem]
    OBVIOUS
  <2>2. [j EXCEPT !.step = "stored"] = k
    BY <2>1
  <2>3. job' = [job EXCEPT ![p] = k]
    BY <1>1, <2>2
  <2>4. k.kind = j.kind /\ k.step = "stored" /\ k.left = j.left /\ k.before = j.before
        /\ k.mem = j.mem
    OBVIOUS
  <2>5. \A q \in Process : job'[q] = IF q = p THEN k ELSE job[q]
    BY <2>1, <2>3
  <2> QED BY <2>4, <2>5
<1>4. SoundHolds'
  <2>1. /\ MemSound(memory', Written(world), TypeOf)
        /\ \A q \in Process : MemSound(job'[q].mem, Written(world), TypeOf)
    BY <1>1, <1>3 DEF Told, SoundHolds
  <2> QED BY <1>1, <2>1, JobsSound DEF Told
<1>5. (Tailing' <=> Tailing) /\ job'["app"].before = job["app"].before
      /\ job["app"].before \in 0..n
  BY <1>3 DEF Tailing, Process, IInv, JobsHold, JobFits
<1>6. TailHolds'
  <2>1. Tailing => /\ job'["app"].step \in {"read", "stored"}
                   /\ job'["app"].mem = memory'
                   /\ Tail(job'["app"].left) = <<>>
    BY <1>1, <1>3 DEF Told, TailHolds, Process
  <2>2. seer = "tail" => job'["cli"].step # "rebuild"
    BY <1>3 DEF Told, TailHolds, Process
  <2>3. seer = "tail" /\ Tailing => job["app"].before + 1 .. n + m \subseteq owed'
    <3> SUFFICES ASSUME seer = "tail", Tailing, NEW i \in job["app"].before + 1 .. n + m
                 PROVE  i \in owed'
      OBVIOUS
    <3>1. CASE i \in n + 1 .. n + m
      BY <1>2, <3>1
    <3>2. CASE i \in job["app"].before + 1 .. n
      BY <1>2, <3>2 DEF Told, TailHolds
    <3> QED BY <1>5, <3>1, <3>2
  <2> QED BY <1>1, <1>2, <1>5, <2>1, <2>2, <2>3 DEF TailHolds
<1>7. Projected' = Projected /\ Projected \subseteq 1..n
  <2>1. Ids' = 1 .. n + m
    BY <1>2, BodiesToldNext DEF IInv
  <2> QED BY <1>2, <2>1 DEF Projected
<1>8. \A i \in 1..n : Bodies'[i] = Bodies[i]
  <2> SUFFICES ASSUME NEW i \in 1..n PROVE Bodies'[i] = Bodies[i]
    OBVIOUS
  <2>1. Bodies[i] = BodyOf(i)
    BY BodiesTold DEF IInv
  <2>2. \A j \in 1 .. Len(evidence') : Bodies'[j] = BodyOf(j)'
    BY BodiesToldNext DEF IInv
  <2>3. i \in 1 .. Len(evidence')
    BY <1>2
  <2>4. BodyOf(i)' = BodyOf(i)
    BY <1>1, <1>2 DEF BodyOf, Body, Lines, Posts
  <2> QED BY <2>1, <2>2, <2>3, <2>4
<1>9. Fresh' => Fresh
  BY <1>2, <1>5 DEF Fresh
<1> PICK B : B = Bodies
  OBVIOUS
<1> PICK C : C = Bodies'
  OBVIOUS
<1>10. ASSUME seer = "rebuild" \/ (seer = "tail" /\ Fresh')
       PROVE  ModesStand(db, C, Projected) /\ TypesStand(db, C, Projected)
  <2>1. ModesStand(db, B, Projected) /\ TypesStand(db, B, Projected)
    BY <1>9, <1>10 DEF Told, ToldHolds
  <2> QED BY <1>7, <1>8, <2>1, MoreRecords
<1>11. ASSUME seer = "tail", Fresh'
       PROVE  MemoryHas(memory, C, Read')
  <2>1. MemoryHas(memory, B, Read)
    BY <1>9, <1>11 DEF Told, ToldHolds
  <2>2. Read' = Read /\ Read \in 0..n
    <3>1. CASE Tailing
      BY <1>5, <3>1 DEF Read
    <3>2. CASE ~ Tailing
      <4>1. owed' = {}
        BY <1>5, <1>11, <3>2 DEF Fresh
      <4>2. m = 0
        BY <1>2, <4>1
      <4> QED BY <1>2, <1>5, <3>2, <4>2 DEF Read
    <3> QED BY <3>1, <3>2
  <2>3. \A i \in 1..Read : C[i] = B[i]
    BY <1>8, <2>2
  <2> QED BY <2>1, <2>2, <2>3, MoreRecords
<1>12. ToldHolds'
  BY <1>1, <1>7, <1>10, <1>11 DEF ToldHolds
<1> QED BY <1>4, <1>6, <1>12 DEF Told

LEMMA ClearTells == ASSUME IInv, Told, Clear, UNCHANGED world PROVE Told'
<1>1. /\ db' = NoRows /\ seer' = "none" /\ memory' = memory
      /\ job' = [job EXCEPT !["cli"].step = "rebuild"]
  BY DEF Clear
<1>2. job'["app"] = job["app"] /\ job'["cli"].mem = job["cli"].mem
  <2> PICK j : j = job["cli"]
    OBVIOUS
  <2>1. /\ job = [q \in Process |-> job[q]]
        /\ j = [kind |-> j.kind, step |-> j.step, left |-> j.left, before |-> j.before,
                mem |-> j.mem]
    BY DEF IInv, JobsHold, JobFits, Process
  <2> PICK k : k = [kind |-> j.kind, step |-> "rebuild", left |-> j.left, before |-> j.before,
                    mem |-> j.mem]
    OBVIOUS
  <2>2. [j EXCEPT !.step = "rebuild"] = k
    BY <2>1
  <2>3. job' = [job EXCEPT !["cli"] = k]
    BY <1>1, <2>2
  <2>4. k.mem = j.mem
    OBVIOUS
  <2> QED BY <2>1, <2>3, <2>4 DEF Process
<1>3. SoundHolds'
  <2>1. Written(world') = Written(world) /\ TypeOf' = TypeOf
    BY TypesStay
  <2>2. RowsSound(NoRows, Written(world), TypeOf)
    BY NothingSound
  <2> QED BY <1>1, <1>2, <2>1, <2>2 DEF Told, SoundHolds, Process
<1>4. TailHolds'
  BY <1>1, <1>2 DEF Told, TailHolds, Tailing
<1>5. ToldHolds'
  BY <1>1 DEF ToldHolds
<1> QED BY <1>3, <1>4, <1>5 DEF Told

\* A projector that goes through the whole store from its beginning.
LEMMA RebuildTells == ASSUME WorldsTold, IInv, Told, Rebuild, UNCHANGED world PROVE Told'
<1>1. /\ job["cli"].step = "rebuild" /\ "cli" \in Process
      /\ owed' = {}
      /\ UNCHANGED <<world, evidence, memory>>
      /\ Puts("cli", Idle)
      /\ seer' = IF seer = "none" THEN "rebuild" ELSE seer
  BY DEF Rebuild, Process, Puts
<1> PICK n \in Nat : n = Len(evidence) /\ Ids = 1..n
  BY BodiesTold DEF IInv
<1> PICK W : W = Written(world)
  OBVIOUS
<1> PICK rs : rs = Bodies
  OBVIOUS
<1> PICK s0 : s0 = [db |-> db, mem |-> NoMemory]
  OBVIOUS
<1> PICK s : s = ReplayBoth(s0, rs)
  OBVIOUS
<1>2. db' = Finish(s.db, s.mem)
  BY Zenon DEF Rebuild
<1>3. /\ Len(rs) = n /\ \A k \in 1..n : rs[k] \in W
      /\ Records(rs, n, W)
  <2>1. Bodies = [i \in 1..n |-> BodyOf(i)]
    BY Zenon DEF Bodies, BodyOf, Ids
  <2>2. rs = [i \in 1..n |-> BodyOf(i)]
    BY <2>1, Zenon
  <2>3. Len(rs) = n
    BY <2>2
  <2> QED BY <2>3, BodiesTold DEF IInv
<1>4. Story(W, TypeOf)
  BY WorldTold DEF IInv
<1>5. /\ s0.db = db /\ s0.mem = NoMemory
      /\ Shaped(db) /\ RowsSound(db, W, TypeOf) /\ MemSound(NoMemory, W, TypeOf)
  BY NothingSound DEF IInv, TablesHold, Told, SoundHolds
<1>6. Shaped(s0.db) /\ RowsSound(s0.db, W, TypeOf) /\ MemSound(s0.mem, W, TypeOf)
  BY <1>5
<1>7. Replays(s0, s, rs)
  <2>1. \A k \in 1..Len(rs) : WellFormed(rs[k])
    BY <1>3, <1>4 DEF Story
  <2> QED BY <1>3, <2>1, BothReplays
<1>8. Shaped(s.db) /\ RowsSound(s.db, W, TypeOf) /\ MemSound(s.mem, W, TypeOf)
  BY <1>3, <1>4, <1>6, <1>7, ReplaySound
<1>9. RowsSound(db', W, TypeOf)
  BY <1>2, <1>4, <1>8, FinishSound
<1>10. MemoryHas(s.mem, rs, n) /\ ModesStand(s.db, rs, 1..n)
  <2> PICK b \in Nat : b = 0
    OBVIOUS
  <2>1. MemoryHas(s0.mem, rs, b)
    BY <1>5, NothingSound
  <2>2. ModesStand(s0.db, rs, 1..b)
    <3>1. \A i : i \notin 1..b
      OBVIOUS
    <3> QED BY <3>1 DEF ModesStand
  <2>3. n = b + Len(rs) /\ ComeAfter(rs, rs, b)
    BY <1>3 DEF ComeAfter
  <2> QED BY <1>3, <1>4, <1>6, <1>7, <2>1, <2>2, <2>3, ReplayTold
<1>11. ModesStand(db', rs, 1..n) /\ TypesStand(db', rs, 1..n)
  <2>1. ModesStand(db', rs, 1..n)
    BY <1>2, <1>3, <1>4, <1>8, <1>10, FinishKeeps
  <2> QED BY <1>2, <1>3, <1>4, <1>8, <1>10, <2>1, FinishNames
<1>12. /\ Idle.step = "idle" /\ Idle.mem = NoMemory
       /\ job'["cli"] = Idle /\ job'["app"] = job["app"]
  <2>1. Idle.step = "idle" /\ Idle.mem = NoMemory
    BY DEF Idle
  <2> QED BY <1>1, <2>1, PutTells DEF Process
<1>13. SoundHolds'
  <2>1. Written(world') = Written(world) /\ TypeOf' = TypeOf
    BY TypesStay
  <2> QED BY <1>1, <1>5, <1>9, <1>12, <2>1 DEF Told, SoundHolds, Process
<1>14. seer' # "tail"
  BY <1>1 DEF Told, TailHolds
<1>15. TailHolds'
  BY <1>1, <1>12, <1>14 DEF Told, TailHolds, Tailing
<1>16. ToldHolds'
  <2>1. Bodies' = rs /\ Projected' = 1..n
    BY <1>1 DEF Bodies, Projected, Ids, Body, Lines, Posts
  <2> QED BY <1>11, <1>14, <2>1 DEF ToldHolds
<1> QED BY <1>13, <1>15, <1>16 DEF Told

\* Nothing of a transcript, nothing to project.
LEMMA NothingReplayed ==
  ASSUME NEW s, NEW rs, Len(rs) \in Nat, \A k \in 1..Len(rs) : rs[k].lane # "transcript"
  PROVE  ReplayTranscript(s, rs) = s
<1> PICK N \in Nat : N = Len(rs)
  OBVIOUS
<1>1. PICK after : /\ after[0] = s
                   /\ \A n \in 1..N : after[n] = ProjectTranscript(after[n - 1], rs[n])
                   /\ ReplayTranscript(s, rs) = after[N]
  BY TranscriptReplayed
<1> DEFINE S == {n \in 0..N : after[n] = s}
<1>2. 0 \in S
  BY <1>1
<1>3. ASSUME NEW n \in 0..(N - 1), n \in S
      PROVE  n + 1 \in S
  <2>1. n + 1 \in 1..N /\ n + 1 \in 0..N /\ (n + 1) - 1 = n
    OBVIOUS
  <2>2. after[n + 1] = ProjectTranscript(after[n], rs[n + 1])
    BY <1>1, <2>1
  <2>3. rs[n + 1].lane # "transcript"
    BY <2>1
  <2> QED BY <1>3, <2>1, <2>2, <2>3 DEF ProjectTranscript
<1>4. N \in S
  <2> HIDE DEF S
  <2>1. \A n \in 0..(N - 1) : n \in S => n + 1 \in S
    BY <1>3
  <2>2. \A n \in 0..N : n \in S
    BY <1>2, <2>1, Throughout
  <2> QED BY <2>2
<1> QED BY <1>1, <1>4

LEMMA FailFileTells ==
  ASSUME WorldsTold, IInv, Told, NEW p \in Process, FailFile(p), UNCHANGED world PROVE Told'
<1>0. /\ RowsHold /\ JobFits(job[p], Len(evidence)) /\ job["cli"].kind # "tail"
      /\ UNCHANGED <<world, evidence, db, resident, owed, seer, met>>
  BY DEF IInv, JobsHold, FailFile
<1> PICK n \in Nat : n = Len(evidence) /\ owed \subseteq 1..n
  BY <1>0, BodiesTold
<1> PICK b \in 0..n : b = job[p].before
  BY <1>0 DEF JobFits
<1> PICK rs : rs = Since(job[p].before)
  OBVIOUS
<1> PICK s0 : s0 = [db |-> db, mem |-> job[p].mem]
  OBVIOUS
<1> PICK W : W = Written(world)
  OBVIOUS
<1>1. Len(rs) = n - b /\ \A k \in 1..Len(rs) : rs[k] \in W
  <2>1. Len(Since(b)) = n - b /\ \A k \in 1..(n - b) : Since(b)[k] = BodyOf(b + k)
    BY <1>0, SinceIs
  <2>2. Ids = 1..n
    BY <1>0, BodiesTold
  <2>3. ASSUME NEW k \in 1..(n - b) PROVE BodyOf(b + k) \in W
    <3>1. b + k \in Ids
      BY <2>2
    <3> QED BY <1>0, <3>1, BodiesAre
  <2> QED BY <2>1, <2>3
<1>11. PICK k \in 0..Len(rs) :
         /\ Remember(p, ReplayTranscript(s0, SubSeq(rs, 1, k)).mem)
         /\ \/ job[p].kind = "catchUp" /\ Advance(p, ReplayTranscript(s0, SubSeq(rs, 1, k)).mem)
            \/ Puts(p, Idle)
  <2> PICK K : K = (IF job[p].step = "read" THEN 0 ELSE Len(rs))
    OBVIOUS
  <2>0. \A k \in 0..K : k \in 0..Len(rs)
    BY <1>1
  <2>1. \E k \in 0..K :
          /\ Remember(p, ReplayTranscript(s0, SubSeq(rs, 1, k)).mem)
          /\ \/ job[p].kind = "catchUp" /\ Advance(p, ReplayTranscript(s0, SubSeq(rs, 1, k)).mem)
             \/ Puts(p, Idle)
    BY Zenon DEF FailFile, Puts
  <2> QED BY <2>0, <2>1, Zenon
<1>2. PICK e : /\ e = ReplayTranscript(s0, SubSeq(rs, 1, k))
               /\ Remember(p, e.mem)
               /\ \/ job[p].kind = "catchUp" /\ Advance(p, e.mem)
                  \/ Puts(p, Idle)
  BY <1>11, Zenon
<1> PICK part : part = SubSeq(rs, 1, k)
  OBVIOUS
<1>3. Len(part) = k /\ \A i \in 1..k : part[i] \in W
  <2>1. 1 \in Int /\ k \in Int /\ 1..k \subseteq 1..Len(rs) /\ k - 1 + 1 = k
    BY <1>1
  <2>2. \A i \in 1..k : rs[i] \in W
    BY <1>1, <2>1
  <2>3. /\ Len(SubSeq(rs, 1, k)) = IF 1 <= k THEN k - 1 + 1 ELSE 0
        /\ \A i \in 1 .. k - 1 + 1 : SubSeq(rs, 1, k)[i] = rs[1 + i - 1]
    BY <2>1, <2>2, SubSeqProperties
  <2> QED BY <1>1, <2>2, <2>3
<1>4. Story(W, TypeOf)
  BY <1>0, WorldTold
<1>5. /\ s0.db = db /\ s0.mem = job[p].mem
      /\ Shaped(s0.db) /\ RowsSound(s0.db, W, TypeOf) /\ MemSound(s0.mem, W, TypeOf)
  <2>1. s0.db = db /\ s0.mem = job[p].mem
    OBVIOUS
  <2>2. Shaped(db) /\ RowsSound(db, W, TypeOf) /\ MemSound(job[p].mem, W, TypeOf)
    BY DEF IInv, TablesHold, Told, SoundHolds
  <2> QED BY <2>1, <2>2
<1>6. MemSound(e.mem, W, TypeOf)
  <2>1. \A i \in 1..Len(part) : WellFormed(part[i])
    BY <1>3, <1>4 DEF Story
  <2>2. e = ReplayTranscript(s0, part)
    BY <1>2, Zenon
  <2>3. Len(part) \in Nat /\ \A i \in 1..Len(part) : part[i] \in W
    BY <1>1, <1>3
  <2>4. Replays(s0, e, part)
    BY <2>1, <2>2, <2>3, TranscriptReplays
  <2> QED BY <1>4, <1>5, <2>3, <2>4, ReplaySound
<1>7. /\ job'[p].step # "rebuild"
      /\ job'[p].kind \in {job[p].kind, "none"}
      /\ job'[p].kind # "tail" \/ p = "cli"
      /\ job'[p].mem \in {e.mem, NoMemory}
      /\ \A q \in Process \ {p} : job'[q] = job[q]
  <2>1. CASE job[p].kind = "catchUp" /\ Advance(p, e.mem)
    BY <2>1, AdvanceTells
  <2>2. CASE Puts(p, Idle)
    <3>1. Idle.step = "idle" /\ Idle.kind = "none" /\ Idle.mem = NoMemory
      BY DEF Idle
    <3> QED BY <2>2, <3>1, PutTells
  <2> QED BY <1>2, <2>1, <2>2
<1>8. MemSound(job'[p].mem, W, TypeOf)
  BY <1>6, <1>7, NothingSound
<1>9. CASE p = "cli"
  <2>1. memory' = memory
    BY <1>0, <1>2, <1>9 DEF Remember
  <2>2. job'["app"] = job["app"]
    BY <1>7, <1>9 DEF Process
  <2> QED BY <1>0, <1>7, <1>8, <1>9, <2>1, <2>2, BesideTells
<1>10. CASE p = "app"
  <2>1. ~ Tailing' /\ job'["cli"] = job["cli"]
    BY <1>7, <1>10 DEF Tailing, Process
  <2>2. memory' = IF Tailing THEN e.mem ELSE memory
    BY <1>2, <1>10 DEF Remember, Tailing
  <2>3. SoundHolds'
    <3>1. MemSound(memory', Written(world), TypeOf)
      BY <1>6, <2>2 DEF Told, SoundHolds
    <3>2. \A q \in Process : MemSound(job'[q].mem, Written(world), TypeOf)
      BY <1>7, <1>8 DEF Told, SoundHolds
    <3> QED BY <1>0, <3>1, <3>2, JobsSound DEF Told
  <2>4. TailHolds'
    BY <1>0, <2>1 DEF Told, TailHolds
  <2>5. ToldHolds'
    <3>1. seer' = "tail" /\ Fresh' => seer = "tail" /\ Fresh /\ MemoryHas(memory', Bodies, Read')
      <4> SUFFICES ASSUME seer' = "tail", Fresh'
                   PROVE  seer = "tail" /\ Fresh /\ MemoryHas(memory', Bodies, Read')
        OBVIOUS
      <4>1. owed = {} /\ seer = "tail"
        BY <1>0, <2>1 DEF Fresh
      <4>2. Fresh
        BY <4>1 DEF Fresh
      <4>3. MemoryHas(memory, Bodies, Read)
        BY <4>1, <4>2 DEF Told, ToldHolds
      <4>4. Read' = n
        BY <1>0, <2>1 DEF Read
      <4>5. CASE ~ Tailing
        BY <2>2, <4>1, <4>2, <4>3, <4>4, <4>5 DEF Read
      <4>6. CASE Tailing
        <5>1. b + 1 .. n = {} /\ job[p].mem = memory
          BY <1>10, <4>1, <4>6 DEF Told, TailHolds
        <5>2. b = n
          BY <5>1
        <5>3. k = 0
          BY <1>1, <5>2
        <5>4. \A i \in 1..Len(part) : part[i].lane # "transcript"
          BY <1>3, <5>3
        <5>5. e = s0
          <6>1. e = ReplayTranscript(s0, part)
            BY <1>2, Zenon
          <6>2. Len(part) \in Nat
            BY <1>3, <5>3
          <6>3. ReplayTranscript(s0, part) = s0
            BY <5>4, <6>2, NothingReplayed
          <6> QED BY <6>1, <6>3, Zenon
        <5>6. Read = n
          BY <1>10, <4>6, <5>2 DEF Read
        <5> QED BY <1>5, <2>2, <4>1, <4>2, <4>3, <4>4, <4>6, <5>1, <5>5, <5>6
      <4> QED BY <4>5, <4>6
    <3> QED BY <1>0, <3>1, JobsTold DEF Told
  <2> QED BY <2>3, <2>4, <2>5 DEF Told
<1> QED BY <1>9, <1>10 DEF Process

\* Second transaction of a file: the tailer's, and then it has been through all
\* there is; or another's, that finds nothing, or is one of many.
LEMMA ProjectRowsTells ==
  ASSUME WorldsTold, IInv, Told, NEW p \in Process, ProjectRows(p), UNCHANGED world PROVE Told'
<1>0. /\ RowsHold /\ JobFits(job[p], Len(evidence)) /\ job["cli"].kind # "tail"
      /\ UNCHANGED <<world, evidence, resident, met>>
  BY DEF IInv, JobsHold, ProjectRows
<1> PICK n \in Nat : n = Len(evidence) /\ owed \subseteq 1..n /\ Ids = 1..n
                     /\ Projected \subseteq 1..n
  BY <1>0, BodiesTold
<1> PICK b \in 0..n : b = job[p].before
  BY <1>0 DEF JobFits
<1> PICK rs : rs = Since(job[p].before)
  OBVIOUS
<1> PICK s0 : s0 = [db |-> db, mem |-> job[p].mem]
  OBVIOUS
<1> PICK W : W = Written(world)
  OBVIOUS
<1> PICK B : B = Bodies
  OBVIOUS
<1> PICK s : s = ReplayTranscript(s0, rs)
  OBVIOUS
<1>1. Len(rs) = n - b /\ \A k \in 1..(n - b) : rs[k] = BodyOf(b + k) /\ rs[k] \in W
  <2>1. Len(Since(b)) = n - b /\ \A k \in 1..(n - b) : Since(b)[k] = BodyOf(b + k)
    BY <1>0, SinceIs
  <2>3. ASSUME NEW k \in 1..(n - b) PROVE BodyOf(b + k) \in W
    <3>1. b + k \in Ids
      OBVIOUS
    <3> QED BY <1>0, <3>1, BodiesAre
  <2> QED BY <2>1, <2>3
<1>2. Records(B, n, W) /\ \A i \in 1..n : B[i] = BodyOf(i) /\ B[i] \in W
  BY <1>0, BodiesTold
<1>3. Len(rs) \in Nat /\ n = b + Len(rs) /\ ComeAfter(rs, B, b)
  <2>1. Len(rs) \in Nat /\ n = b + Len(rs)
    BY <1>1
  <2>2. ASSUME NEW k \in 1..Len(rs) PROVE rs[k] = B[b + k]
    <3>1. b + k \in 1..n
      BY <2>1
    <3> QED BY <1>1, <1>2, <3>1
  <2> QED BY <2>1, <2>2 DEF ComeAfter
<1>4. Story(W, TypeOf)
  BY <1>0, WorldTold
<1>5. /\ db' = Finish(s.db, s.mem) /\ Remember(p, s.mem) /\ Advance(p, s.mem)
      /\ owed' = owed \ Scanned(b)
      /\ seer' = IF Scanned(b) = {} \/ (job[p].kind = "tail" /\ seer = "tail")
                 THEN seer ELSE "many"
  BY Zenon DEF ProjectRows
<1>6. /\ s0.db = db /\ s0.mem = job[p].mem
      /\ Shaped(s0.db) /\ RowsSound(s0.db, W, TypeOf) /\ MemSound(s0.mem, W, TypeOf)
  <2>1. s0.db = db /\ s0.mem = job[p].mem
    OBVIOUS
  <2>2. Shaped(db) /\ RowsSound(db, W, TypeOf) /\ MemSound(job[p].mem, W, TypeOf)
    BY DEF IInv, TablesHold, Told, SoundHolds
  <2> QED BY <2>1, <2>2
<1>7. Replays(s0, s, rs)
  <2>1. \A k \in 1..Len(rs) : WellFormed(rs[k])
    BY <1>1, <1>4 DEF Story
  <2> QED BY <1>3, <2>1, TranscriptReplays
<1>8. Shaped(s.db) /\ RowsSound(s.db, W, TypeOf) /\ MemSound(s.mem, W, TypeOf)
  <2>1. \A k \in 1..Len(rs) : rs[k] \in W
    BY <1>1
  <2> QED BY <1>3, <1>4, <1>6, <1>7, <2>1, ReplaySound
<1>9. RowsSound(db', W, TypeOf)
  BY <1>4, <1>5, <1>8, FinishSound
<1>10. /\ job'[p].step # "rebuild"
       /\ job'[p].kind = job[p].kind \/ job'[p].kind = "none"
       /\ job'[p].mem = s.mem \/ job'[p].mem = NoMemory
       /\ Tail(job[p].left) = <<>> /\ job[p].kind # "backfill" => job'[p].kind = "none"
       /\ \A q \in Process \ {p} : job'[q] = job[q]
  BY <1>5, AdvanceTells
<1>11. memory' = IF job[p].kind = "tail" THEN s.mem ELSE memory
  BY <1>5 DEF Remember
<1>12. IF p = "app" THEN ~ Tailing' /\ job'["cli"] = job["cli"]
       ELSE job'["app"] = job["app"] /\ job[p].kind # "tail" /\ (Tailing' <=> Tailing)
  <2>1. CASE p = "app"
    BY <1>10, <2>1 DEF Tailing, Told, TailHolds, Process
  <2>2. CASE p = "cli"
    BY <1>0, <1>10, <2>2 DEF Tailing, Process
  <2> QED BY <2>1, <2>2 DEF Process
<1>13. SoundHolds'
  <2>1. Written(world') = Written(world) /\ TypeOf' = TypeOf
    BY <1>0, TypesStay
  <2>2. MemSound(memory', W, TypeOf)
    BY <1>8, <1>11 DEF Told, SoundHolds
  <2>3. \A q \in Process : MemSound(job'[q].mem, W, TypeOf)
    <3>1. MemSound(job'[p].mem, W, TypeOf)
      BY <1>8, <1>10, NothingSound
    <3> QED BY <1>10, <3>1 DEF Told, SoundHolds
  <2> QED BY <1>9, <2>1, <2>2, <2>3 DEF SoundHolds
<1>14. Bodies' = B /\ Projected' = Ids \ owed'
  BY <1>0 DEF Bodies, Projected, Ids, Body, Lines, Posts
<1>15. \A i \in Scanned(b) : i \in b + 1 .. n
  BY DEF Scanned
<1>16. p = "app" /\ Tailing /\ seer = "tail" => b + 1 .. n \subseteq owed /\ job[p].mem = memory
  BY DEF Told, TailHolds
<1>17. seer' = "tail" => seer = "tail"
  BY <1>5
<1>18. TailHolds'
  <2>1. CASE p = "app"
    BY <1>12, <1>17, <2>1 DEF Told, TailHolds
  <2>2. CASE p = "cli"
    <3>1. job'["app"] = job["app"] /\ memory' = memory /\ (Tailing' <=> Tailing)
          /\ job'["cli"].step # "rebuild"
      BY <1>10, <1>11, <1>12, <2>2
    <3>2. seer' = "tail" => Scanned(b) = {}
      BY <1>5, <1>12, <2>2
    <3>3. seer' = "tail" => owed' = owed
      BY <1>5, <3>2
    <3> QED BY <1>0, <1>17, <3>1, <3>3 DEF Told, TailHolds
  <2> QED BY <2>1, <2>2 DEF Process
<1>19. CASE Scanned(b) = {}
  <2>1. \A k \in 1..Len(rs) : rs[k].lane # "transcript"
    <3> SUFFICES ASSUME NEW k \in 1..Len(rs) PROVE rs[k].lane # "transcript"
      OBVIOUS
    <3>1. b + k \in b + 1 .. n /\ rs[k] = BodyOf(b + k)
      BY <1>1, SMTT(30)
    <3>2. b + k \notin Scanned(b)
      BY <1>19
    <3> QED BY <3>1, <3>2, Zenon DEF Scanned, BodyOf
  <2>2. s = s0
    BY <1>3, <2>1, NothingReplayed
  <2>3. db' = Finish(db, job[p].mem) /\ seer' = seer /\ owed' = owed
    BY <1>5, <1>6, <1>19, <2>2
  <2>4. /\ ModesStand(db, B, Projected) => ModesStand(db', B, Projected)
        /\ TypesStand(db, B, Projected) => TypesStand(db', B, Projected)
    <3> PICK P : P = Projected
      OBVIOUS
    <3> PICK mem : mem = job[p].mem
      OBVIOUS
    <3>1. \A i \in P : B[i] \in W
      BY <1>2
    <3> PICK d : d = db
      OBVIOUS
    <3> PICK e : e = db'
      OBVIOUS
    <3>2. Shaped(d) /\ e = Finish(d, mem)
      BY <1>6, <2>3
    <3>3. /\ ModesStand(d, B, P) => ModesStand(e, B, P)
          /\ TypesStand(d, B, P) => TypesStand(e, B, P)
      BY <1>4, <3>1, <3>2, FinishKeeps
    <3> QED BY <3>3, Zenon
  <2>5. Projected' = Projected
    BY <1>14, <2>3 DEF Projected
  <2>6. ASSUME seer = "tail", Fresh'
        PROVE  Fresh /\ MemoryHas(memory', B, Read')
    <3>1. CASE p = "cli"
      <4>1. Fresh /\ Read' = Read /\ memory' = memory
        BY <1>0, <1>11, <1>12, <2>3, <2>6, <3>1 DEF Fresh, Read
      <4> QED BY <2>6, <4>1 DEF Told, ToldHolds
    <3>2. CASE p = "app"
      <4>1. owed = {}
        BY <1>12, <2>3, <2>6, <3>2 DEF Fresh
      <4>2. Fresh
        BY <4>1 DEF Fresh
      <4>3. Read' = n
        BY <1>0, <1>12, <3>2 DEF Read
      <4>4. MemoryHas(memory, B, Read)
        BY <2>6, <4>2 DEF Told, ToldHolds
      <4>5. memory' = memory /\ Read = n
        <5>1. CASE Tailing
          <6>1. b + 1 .. n = {} /\ job[p].mem = memory
            BY <1>16, <2>6, <3>2, <4>1, <5>1
          <6>2. b = n
            <7>1. n \notin b + 1 .. n
              BY <6>1, Zenon
            <7> QED BY <7>1
          <6> QED BY <1>6, <1>11, <2>2, <3>2, <5>1, <6>1, <6>2 DEF Read
        <5>2. CASE ~ Tailing
          BY <1>11, <3>2, <5>2 DEF Read, Tailing
        <5> QED BY <5>1, <5>2
      <4> QED BY <4>2, <4>3, <4>4, <4>5
    <3> QED BY <3>1, <3>2 DEF Process
  <2> QED BY <1>13, <1>14, <1>18, <2>3, <2>4, <2>5, <2>6 DEF Told, ToldHolds
<1>20. CASE Scanned(b) # {} /\ ~ (job[p].kind = "tail" /\ seer = "tail")
  <2>1. seer' = "many"
    BY <1>5, <1>20
  <2>2. ToldHolds'
    BY <2>1 DEF ToldHolds
  <2> QED BY <1>13, <1>18, <2>2 DEF Told
<1>21. CASE Scanned(b) # {} /\ job[p].kind = "tail" /\ seer = "tail"
  <2>1. p = "app" /\ Tailing /\ seer' = "tail" /\ memory' = s.mem /\ ~ Tailing'
        /\ job[p].mem = memory /\ Read' = n
    BY <1>0, <1>5, <1>11, <1>12, <1>16, <1>21 DEF Tailing, Process, Read
  <2>2. ASSUME Fresh'
        PROVE  /\ ModesStand(db', B, Projected') /\ TypesStand(db', B, Projected')
               /\ MemoryHas(s.mem, B, n)
    <3>1. owed' = {}
      BY <2>1, <2>2 DEF Fresh
    <3>2. \A i \in owed : i > b
      BY <1>5, <1>15, <3>1
    <3>3. Fresh
      BY <2>1, <3>2 DEF Fresh
    <3>4. ModesStand(db, B, Projected) /\ MemoryHas(memory, B, Read) /\ Read = b
      BY <2>1, <1>21, <3>3 DEF Told, ToldHolds, Read
    <3>5. ModesStand(db, B, 1..b)
      <4>1. \A i \in 1..b : i \in Projected
        BY <3>2 DEF Projected
      <4> QED BY <3>4, <4>1 DEF ModesStand
    <3>6. MemoryHas(s.mem, B, n) /\ ModesStand(s.db, B, 1..n)
      <4>1. MemoryHas(s0.mem, B, b) /\ ModesStand(s0.db, B, 1..b)
        BY <1>6, <2>1, <3>4, <3>5
      <4> QED BY <1>2, <1>3, <1>4, <1>6, <1>7, <4>1, ReplayTold
    <3>7. ModesStand(db', B, 1..n)
      <4>1. \A i \in 1..n : B[i] \in W
        BY <1>2
      <4> QED BY <1>4, <1>5, <1>8, <3>6, <4>1, FinishKeeps
    <3>8. TypesStand(db', B, 1..n)
      BY <1>2, <1>4, <1>5, <1>8, <3>6, FinishNames
    <3>9. Projected' = 1..n
      BY <1>14, <3>1
    <3> QED BY <3>6, <3>7, <3>8, <3>9
  <2>3. ToldHolds'
    BY <1>14, <2>1, <2>2 DEF ToldHolds
  <2> QED BY <1>13, <1>18, <2>3 DEF Told
<1> QED BY <1>19, <1>20, <1>21

-----------------------------------------------------------------------------
(* An export's record, that tells the calls nothing.                        *)

\* One record more, that tells nothing and leaves what was told.
LEMMA OneMore ==
  ASSUME NEW W, NEW T, Story(W, T), NEW m \in Nat, NEW B, NEW C, Records(C, m + 1, W),
         \A i \in 1..m : C[i] = B[i], C[m + 1].lane = "otlp",
         NEW P, P \subseteq 1..m, NEW Q, Q \subseteq P \cup {m + 1},
         NEW d, NEW e, \A c \in Call : SameTold(d, e, c)
  PROVE  /\ ModesStand(d, B, P) => ModesStand(e, C, Q)
         /\ TypesStand(d, B, P) => TypesStand(e, C, Q)
         /\ \A mem : MemoryHas(mem, B, m) => MemoryHas(mem, C, m + 1)
<1>1. \A i \in 1 .. m + 1 : WellFormed(C[i])
  BY DEF Records, Story
<1> PICK r : r = C[m + 1]
  OBVIOUS
<1>2. m + 1 \in 1 .. m + 1
  OBVIOUS
<1>3. /\ \A x : ~ Tells(r, x)
      /\ ~ Spawning(r) /\ ~ Naming(r) /\ r.kind # "use"
  <2>1. WellFormed(r) /\ r.lane = "otlp"
    BY <1>1, <1>2
  <2> QED BY <2>1 DEF Tells, Spawning, Naming, WellFormed
<1>4. \A mem : MemoryHas(mem, B, m) => MemoryHas(mem, C, m)
  BY MoreRecords
<1>5. ASSUME ModesStand(d, B, P) PROVE ModesStand(e, C, Q)
  <2>1. ModesStand(d, C, P)
    BY <1>5, MoreRecords
  <2> SUFFICES ASSUME NEW i \in Q, C[i].kind = "use", NEW j \in 1 .. i - 1,
                      Latest(C, C[i].session, i - 1, j)
               PROVE  e.call[C[i].call].mode = C[j].mode
    BY DEF ModesStand
  <2>2. i \in P
    BY <1>3
  <2>3. d.call[C[i].call].mode = C[j].mode
    BY <2>1, <2>2 DEF ModesStand
  <2>4. C[i].call \in Call
    <3>1. i \in 1 .. m + 1
      BY <2>2
    <3>2. WellFormed(C[i])
      BY <1>1, <3>1
    <3> QED BY <3>2 DEF WellFormed
  <2> QED BY <2>3, <2>4 DEF SameTold
<1>6. ASSUME TypesStand(d, B, P) PROVE TypesStand(e, C, Q)
  <2>1. TypesStand(d, C, P)
    BY <1>6, MoreRecords
  <2> SUFFICES ASSUME NEW i \in Q, NEW j \in Q, Names(C, i, j), NEW c \in Call,
                      e.call[c].agent = C[j].names
               PROVE  e.call[c].type = C[i].spawns
    BY DEF TypesStand
  <2>2. i \in P /\ j \in P
    BY <1>3 DEF Names
  <2>3. d.call[c].agent = C[j].names
    BY DEF SameTold
  <2>4. d.call[c].type = C[i].spawns
    BY <2>1, <2>2, <2>3 DEF TypesStand
  <2> QED BY <2>4 DEF SameTold
<1>7. ASSUME NEW mem, MemoryHas(mem, C, m) PROVE MemoryHas(mem, C, m + 1)
  <2>1. ASSUME NEW x \in Session, NEW j \in 1 .. m + 1, Latest(C, x, m + 1, j)
        PROVE  mem.mode[x] = C[j].mode
    <3>1. j \in 1..m
      BY <1>3, <2>1 DEF Latest
    <3>2. Latest(C, x, m, j)
      BY <2>1 DEF Latest
    <3> QED BY <1>7, <3>1, <3>2 DEF MemoryHas
  <2>2. ASSUME NEW i \in 1 .. m + 1, Spawning(C[i])
        PROVE  mem.asked[C[i].call] = C[i].spawns \/ \E j \in 1 .. m + 1 : Names(C, i, j)
    <3>1. i \in 1..m
      BY <1>3, <2>2
    <3> QED BY <1>7, <2>2, <3>1 DEF MemoryHas
  <2>3. ASSUME NEW i \in 1 .. m + 1, NEW j \in 1 .. m + 1, Names(C, i, j)
        PROVE  mem.type[C[j].names] # Nil
    <3>1. i \in 1..m /\ j \in 1..m
      BY <1>3, <2>3 DEF Names
    <3> QED BY <1>7, <2>3, <3>1 DEF MemoryHas
  <2> QED BY <2>1, <2>2, <2>3 DEF MemoryHas
<1> QED BY <1>4, <1>5, <1>6, <1>7

LEMMA PostTells ==
  ASSUME WorldsTold, IInv, IInv', Told, Post, UNCHANGED world PROVE Told'
<1>0. /\ RowsHold /\ RowsHold' /\ evidence \in Seq(Entry) /\ DOMAIN Posts \subseteq Nat
      /\ UNCHANGED <<world, resident, memory, job, owed, met>>
  <2>1. RowsHold /\ RowsHold'
    BY DEF IInv
  <2>2. evidence \in Seq(Entry) /\ DOMAIN Posts \subseteq Nat
    BY <2>1, Bounded DEF RowsHold
  <2> QED BY <2>1, <2>2 DEF Post
<1> PICK m \in Nat : m = Len(evidence) /\ owed \subseteq 1..m /\ Projected \subseteq 1..m
                     /\ Ids = 1..m
  BY <1>0, BodiesTold
<1> PICK W : W = Written(world)
  OBVIOUS
<1> PICK B : B = Bodies
  OBVIOUS
<1> PICK C : C = Bodies'
  OBVIOUS
<1>1. PICK n \in DOMAIN Posts : /\ evidence' = Append(evidence, <<"otlp", n>>)
                               /\ db' = ProjectOtlp(db, Posts[n])
  BY DEF Post
<1> PICK r : r = Posts[n]
  OBVIOUS
<1>2. WellFormed(r) /\ r.lane = "otlp" /\ r \in W
  BY <1>0, BodiesAre DEF Coherent
<1>3. ~ Tailing /\ ~ Tailing' /\ seer' = IF seer = "none" THEN "many" ELSE seer
  <2>1. job["app"] = Idle /\ job'["app"] = Idle
    BY <1>0 DEF Post
  <2>2. Idle.kind = "none"
    BY DEF Idle
  <2> QED BY <2>1, <2>2 DEF Tailing, Post
<1>4. Len(evidence') = m + 1 /\ Ids' = 1 .. m + 1
  <2> PICK row : row = <<"otlp", n>>
    OBVIOUS
  <2>1. row \in Entry
    BY <1>0, Zenon DEF Entry
  <2>2. Len(Append(evidence, row)) = Len(evidence) + 1
    BY <1>0, <2>1
  <2>3. Len(evidence') = m + 1
    BY <1>1, <2>2
  <2> QED BY <1>0, <2>3, BodiesToldNext
<1>5. evidence'[m + 1] = <<"otlp", n>> /\ \A i \in 1..m : evidence'[i] = evidence[i]
  <2> PICK row : row = <<"otlp", n>>
    OBVIOUS
  <2>1. row \in Entry
    BY <1>0, Zenon DEF Entry
  <2>2. /\ Append(evidence, row)[m + 1] = row
        /\ \A i \in 1..m : Append(evidence, row)[i] = evidence[i]
    BY <1>0, <2>1
  <2> QED BY <1>1, <2>2
<1>6. C[m + 1] = r /\ \A i \in 1..m : C[i] = B[i]
  <2>1. Posts' = Posts /\ Lines' = Lines
    BY <1>0 DEF Posts, Lines
  <2>2. \A i \in 1 .. m + 1 : C[i] = BodyOf(i)'
    BY <1>0, <1>4, BodiesToldNext
  <2>3. \A i \in 1..m : B[i] = BodyOf(i)
    BY <1>0, BodiesTold
  <2>4. ASSUME NEW i \in 1..m PROVE BodyOf(i)' = BodyOf(i)
    <3>1. evidence'[i] = evidence[i]
      BY <1>5
    <3> QED BY <2>1, <3>1, Zenon DEF BodyOf, Body
  <2>5. BodyOf(m + 1)' = r
    <3> PICK row : row = <<"otlp", n>>
      OBVIOUS
    <3>1. row[1] = "otlp" /\ row[2] = n
      OBVIOUS
    <3>2. evidence'[m + 1] = row
      BY <1>5
    <3> QED BY <2>1, <3>1, <3>2, Zenon DEF BodyOf, Body
  <2>6. m + 1 \in 1 .. m + 1 /\ \A i \in 1..m : i \in 1 .. m + 1
    OBVIOUS
  <2> QED BY <2>2, <2>3, <2>4, <2>5, <2>6
<1> PICK s : s = [db |-> db, mem |-> memory]
  OBVIOUS
<1> PICK e : e = [db |-> db', mem |-> memory]
  OBVIOUS
<1>7. s.db = db /\ s.mem = memory /\ e.db = db' /\ e.mem = memory
  OBVIOUS
<1>8. Story(W, TypeOf)
  BY <1>0, WorldTold
<1>9. Shaped(s.db) /\ RowsSound(s.db, W, TypeOf) /\ MemSound(s.mem, W, TypeOf)
      /\ MemShaped(s.mem)
  BY <1>7 DEF IInv, TablesHold, Told, SoundHolds, MemSound
<1>10. TellsRows(s, e, r) /\ TellsMemory(s, e, r)
  <2>1. e.db = ProjectOtlp(s.db, r) /\ e.mem = s.mem
    BY <1>1, <1>7
  <2> QED BY <1>2, <1>9, <2>1, OtlpTells
<1>11. RowsSound(db', W, TypeOf)
  <2>1. RowsSound(e.db, W, TypeOf)
    BY <1>2, <1>8, <1>9, <1>10, SoundToo
  <2> QED BY <1>7, <2>1
<1>12. \A c \in Call : SameTold(db, db', c)
  <2>1. ~ Witness(r, r.call)
    BY <1>2 DEF Witness
  <2> QED BY <1>7, <1>10, <2>1 DEF TellsRows
<1>13. SoundHolds'
  <2>1. Written(world') = Written(world) /\ TypeOf' = TypeOf
    BY <1>0, TypesStay
  <2> QED BY <1>0, <1>11, <2>1 DEF Told, SoundHolds
<1>14. TailHolds'
  BY <1>0, <1>3 DEF Told, TailHolds
<1> PICK P : P = Projected
  OBVIOUS
<1> PICK Q : Q = Projected'
  OBVIOUS
<1>15. Q \subseteq P \cup {m + 1}
  BY <1>0, <1>4 DEF Projected
<1>16. /\ ModesStand(db, B, P) => ModesStand(db', C, Q)
       /\ TypesStand(db, B, P) => TypesStand(db', C, Q)
       /\ \A mem : MemoryHas(mem, B, m) => MemoryHas(mem, C, m + 1)
  <2>1. Records(C, m + 1, W)
    BY <1>0, <1>4, BodiesToldNext
  <2> PICK d : d = db
    OBVIOUS
  <2> PICK f : f = db'
    OBVIOUS
  <2>2. \A c \in Call : SameTold(d, f, c)
    BY <1>12
  <2>3. C[m + 1].lane = "otlp"
    BY <1>2, <1>6
  <2>4. P \subseteq 1..m
    OBVIOUS
  <2>5. \A i \in 1..m : C[i] = B[i]
    BY <1>6
  <2>6. /\ ModesStand(d, B, P) => ModesStand(f, C, Q)
        /\ TypesStand(d, B, P) => TypesStand(f, C, Q)
        /\ \A mem : MemoryHas(mem, B, m) => MemoryHas(mem, C, m + 1)
    BY <1>8, <1>15, <2>1, <2>2, <2>3, <2>4, <2>5, OneMore
  <2> QED BY <2>6, Zenon
<1>17. Fresh' => Fresh
  BY <1>0, <1>3 DEF Fresh
<1>18. Read = m /\ Read' = m + 1
  BY <1>3, <1>4 DEF Read
<1>19. ToldHolds'
  <2>1. ASSUME seer' = "rebuild" \/ (seer' = "tail" /\ Fresh')
        PROVE  ModesStand(db', C, Q) /\ TypesStand(db', C, Q)
    <3>1. seer = "rebuild" \/ (seer = "tail" /\ Fresh)
      BY <1>3, <1>17, <2>1
    <3>2. ModesStand(db, B, P) /\ TypesStand(db, B, P)
      BY <3>1 DEF Told, ToldHolds
    <3> QED BY <1>16, <3>2
  <2>2. ASSUME seer' = "tail", Fresh'
        PROVE  MemoryHas(memory', C, Read')
    <3>1. seer = "tail" /\ Fresh
      BY <1>3, <1>17, <2>2
    <3>2. MemoryHas(memory, B, m)
      BY <1>18, <3>1 DEF Told, ToldHolds
    <3> QED BY <1>0, <1>16, <1>18, <3>2
  <2> QED BY <2>1, <2>2 DEF ToldHolds
<1> QED BY <1>13, <1>14, <1>19 DEF Told

-----------------------------------------------------------------------------
(* The theorem.                                                             *)

LEMMA InitTells == Init => Told
<1> SUFFICES ASSUME Init PROVE Told
  OBVIOUS
<1>1. evidence = <<>> /\ Len(evidence) = 0 /\ owed = {} /\ db = NoRows /\ memory = NoMemory
      /\ Ids = {} /\ Projected = {}
  BY DEF Init, Ids, Projected
<1>2. \A p \in Process : job[p] = Idle
  BY DEF Init
<1>3. Idle.kind = "none" /\ Idle.step = "idle" /\ Idle.mem = NoMemory
  BY DEF Idle
<1>4. "app" \in Process /\ "cli" \in Process
  BY DEF Process
<1>5. SoundHolds
  BY <1>1, <1>2, <1>3, NothingSound DEF SoundHolds
<1>6. ~ Tailing /\ job["cli"].step # "rebuild"
  BY <1>2, <1>3, <1>4 DEF Tailing
<1>7. TailHolds
  BY <1>6 DEF TailHolds
<1>8. ToldHolds
  <2>1. Read = 0
    BY <1>1, <1>6 DEF Read
  <2>2. ModesStand(db, Bodies, Projected) /\ TypesStand(db, Bodies, Projected)
    BY <1>1 DEF ModesStand, TypesStand
  <2>3. MemoryHas(memory, Bodies, Read)
    BY <1>1, <2>1, NothingSound
  <2> QED BY <2>2, <2>3 DEF ToldHolds
<1> QED BY <1>5, <1>7, <1>8 DEF Told

LEMMA ToldKeeps ==
  ASSUME WorldsTold PROVE IInv /\ Told /\ [Next]_vars => Told'
<1> SUFFICES ASSUME IInv, Told, [Next]_vars PROVE Told'
  OBVIOUS
<1>0. IInv'
  BY StepKeeps
<1>1. CASE UNCHANGED vars
  <2>1. UNCHANGED <<world, evidence, db, resident, memory, job, owed, seer, met>>
    BY <1>1 DEF vars
  <2>2. Bodies' = Bodies /\ Projected' = Projected
    BY <2>1 DEF Bodies, Projected, Ids, Body, Lines, Posts
  <2>3. Written(world') = Written(world) /\ TypeOf' = TypeOf
    BY <2>1, TypesStay
  <2>4. (Tailing' <=> Tailing) /\ (Fresh' <=> Fresh) /\ Read' = Read
    BY <2>1 DEF Tailing, Fresh, Read
  <2>5. SoundHolds'
    BY <2>1, <2>3 DEF Told, SoundHolds
  <2>6. TailHolds'
    BY <2>1, <2>4 DEF Told, TailHolds
  <2>7. ToldHolds'
    BY <2>1, <2>2, <2>4 DEF Told, ToldHolds
  <2> QED BY <2>5, <2>6, <2>7 DEF Told
<1>2. CASE Next
  <2>0. UNCHANGED world
    BY <1>2 DEF Next
  <2>1. CASE Burst
    BY <2>0, <2>1, BurstTells
  <2>2. CASE CatchUp
    BY <2>0, <2>2, CatchUpTells
  <2>3. CASE Backfill
    BY <2>0, <2>3, BackfillTells
  <2>4. CASE Post
    BY <1>0, <2>0, <2>4, PostTells
  <2>5. CASE Clear
    BY <2>0, <2>5, ClearTells
  <2>6. CASE Rebuild
    BY <2>0, <2>6, RebuildTells
  <2>7. CASE FailRebuild
    BY <2>0, <2>7, FailRebuildTells
  <2>8. CASE Exit
    BY <2>0, <2>8, ExitTells
  <2>9. CASE Start
    BY <2>0, <2>9, StartTells
  <2>10. CASE Kill
    BY <2>0, <2>10, KillTells
  <2>11. ASSUME NEW p \in Process, OpenFile(p) PROVE Told'
    BY <2>0, <2>11, OpenFileTells
  <2>12. ASSUME NEW p \in Process, StoreLines(p) PROVE Told'
    BY <1>0, <2>0, <2>12, StoreLinesTells
  <2>13. ASSUME NEW p \in Process, ProjectRows(p) PROVE Told'
    BY <2>0, <2>13, ProjectRowsTells
  <2>14. ASSUME NEW p \in Process, FailFile(p) PROVE Told'
    BY <2>0, <2>14, FailFileTells
  <2> QED BY <1>2, <2>1, <2>2, <2>3, <2>4, <2>5, <2>6, <2>7, <2>8, <2>9, <2>10,
             <2>11, <2>12, <2>13, <2>14, Zenon DEF Next
<1> QED BY <1>1, <1>2

\* A projector that has seen everything has settled every call.
LEMMA CallsTell == IInv /\ Told => ModesFollowed /\ AgentsNamed
<1> SUFFICES ASSUME IInv, Told, OneEye
             PROVE  /\ \A i \in Uses : ModeTold(i) # Nil =>
                         db.call[BodyOf(i).call].mode = ModeTold(i)
                    /\ AgentsNamed
  BY DEF ModesFollowed, AgentsNamed
<1>0. RowsHold
  BY DEF IInv
<1> PICK n \in Nat : /\ n = Len(evidence) /\ Ids = 1..n
                     /\ \A i \in 1..n : Bodies[i] = BodyOf(i) /\ Bodies[i] \in Written(world)
  BY <1>0, BodiesTold
<1> PICK B : B = Bodies
  OBVIOUS
<1>1. Projected = 1..n /\ owed = {}
  BY DEF Projected, OneEye
<1>2. ModesStand(db, B, 1..n) /\ TypesStand(db, B, 1..n)
  <2>1. Fresh /\ seer \in {"tail", "rebuild"}
    BY <1>1 DEF Fresh, OneEye
  <2> QED BY <1>1, <2>1 DEF Told, ToldHolds
<1>3. ASSUME NEW i \in Uses, ModeTold(i) # Nil
      PROVE  db.call[BodyOf(i).call].mode = ModeTold(i)
  <2> PICK told : told = {j \in 1 .. i - 1 : /\ BodyOf(j).lane = "transcript"
                                            /\ BodyOf(j).session = BodyOf(i).session
                                            /\ BodyOf(j).session # Nil
                                            /\ BodyOf(j).mode # Nil}
    OBVIOUS
  <2>1. i \in 1..n /\ BodyOf(i).kind = "use"
    BY <1>1 DEF Uses
  <2>2. told # {} /\ ModeTold(i) = BodyOf(CHOOSE j \in told : \A k \in told : k <= j).mode
    BY <1>3, Zenon DEF ModeTold
  <2>3. \E j \in told : \A k \in told : k <= j
    <3>1. told \in SUBSET (0..n)
      BY <2>1
    <3> QED BY <2>2, <3>1, HasGreatest
  <2>4. PICK j \in told : /\ \A k \in told : k <= j
                          /\ ModeTold(i) = BodyOf(j).mode
    BY <2>2, <2>3, Zenon
  <2>5. j \in 1 .. i - 1 /\ j \in 1..n /\ \A k \in 1 .. i - 1 : k \in 1..n
    BY <2>1
  <2>6. \A k \in 1 .. i - 1 : Tells(B[k], B[i].session) <=> k \in told
    BY <2>1, <2>5 DEF Tells
  <2>7. Latest(B, B[i].session, i - 1, j)
    BY <2>4, <2>5, <2>6 DEF Latest
  <2>8. db.call[B[i].call].mode = B[j].mode
    BY <1>2, <2>1, <2>5, <2>7 DEF ModesStand
  <2> QED BY <2>1, <2>4, <2>5, <2>8
<1>4. ASSUME NEW i \in Projected, NEW j \in Projected,
             BodyOf(i).kind = "use", BodyOf(i).spawns # Nil,
             BodyOf(j).kind = "result", BodyOf(j).lane = "transcript",
             BodyOf(j).call = BodyOf(i).call, i < j,
             NEW c \in Call, BodyOf(j).names # Nil, db.call[c].agent = BodyOf(j).names
      PROVE  db.call[c].type = BodyOf(i).spawns
  <2>1. i \in 1..n /\ j \in 1..n /\ B[i] = BodyOf(i) /\ B[j] = BodyOf(j)
    BY <1>1
  <2>2. Names(B, i, j)
    BY <1>4, <2>1 DEF Names, Spawning, Naming
  <2> QED BY <1>2, <1>4, <2>1, <2>2 DEF TypesStand
<1>5. AgentsNamed
  BY <1>4 DEF AgentsNamed
<1> QED BY <1>3, <1>5

\* While the command line has not run beside the application, what one record
\* tells of another's call reaches it, whatever the order the transcripts are
\* read in and however often a job fails, is killed or starts again: once one
\* projector has seen everything, a call's mode is the one told last before it
\* and a subagent's calls have the type it was asked for by; and at any time a
\* change of files is recorded once.
THEOREM CallsAreTold == Spec => []ToldOfCalls
<1>0. WorldsTold
  BY ToldAssumption DEF WorldsTold
<1>1. IInv /\ Told /\ [Next]_vars => Told'
  BY <1>0, ToldKeeps
<1>2. IInv /\ Told => ModesFollowed /\ AgentsNamed
  BY CallsTell
<1>3. IInv => EditsOnce
  BY ChangesTell
<1>4. ModesFollowed /\ AgentsNamed /\ EditsOnce => ToldOfCalls
  BY DEF ToldOfCalls
<1> QED BY <1>1, <1>2, <1>3, <1>4, InitTells, InvariantHolds, PTL DEF Spec
=============================================================================
