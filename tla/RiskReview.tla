----------------------------- MODULE RiskReview -----------------------------
(***************************************************************************)
(* The risk review: risk_review, dismiss_rule and restore_rule of crates/  *)
(* toolog-app/src/commands.rs, the memo of state.rs, and the sighting      *)
(* ledger of crates/toolog-core/src/rules.rs.                              *)
(*                                                                         *)
(* A review reads what each rule catches, on a connection of its own; has  *)
(* the writer record what it saw; and is remembered against the store's    *)
(* commit counter, the rules file's time and a counter of judgements.      *)
(* Commands run on threads of a pool, so several may be under way, and the *)
(* writer and the command line commit between any two of their steps.      *)
(*                                                                         *)
(* A rule's question stands for what its fingerprint covers.  A finding is *)
(* the calls it counts; severities, totals and projects are left out.      *)
(***************************************************************************)
EXTENDS Integers, FiniteSets

CONSTANTS
  Nil,
  Rule,         \* rule ids
  Question,     \* what a rule may look for, by fingerprint
  Call,         \* tool_use_id
  Thread,       \* of the pool the commands run on
  Recorded,     \* calls an earlier version recorded, for every rule, at time 0
  MaxEvents     \* bound on commands, captures, purges, edits, refusals, quits

RiskReviewAssumption ==
  /\ IsFiniteSet(Call) /\ IsFiniteSet(Rule) /\ Recorded \subseteq Call
  /\ MaxEvents \in Nat /\ Nil \notin Question \cup Thread \cup Nat

VARIABLES
  caught,       \* Question -> the calls in the store it catches
  dismissed,    \* rule_dismissal: the rules set aside
  ledger,       \* rule_sighting: records [rule, question, call, seen]
  version,      \* PRAGMA data_version, as the reviewing connection sees it
  rules,        \* the rules file: Rule -> its question, Nil if it has none
  mtime,        \* the file's modification time
  counter,      \* dismissal_counter
  memo,         \* risk_memo: a review and what it was stamped with, or Nil
  reader,       \* the thread that holds the reviewing connection, or Nil
  cmd,          \* Thread -> the command it is running
  news,         \* observation only: sightings announced as new, and how often
  spent         \* how much of MaxEvents is used up: also the time

reviewvars == <<caught, dismissed, ledger, version, rules, mtime, counter, memo,
                reader, cmd, news, spent>>
tables == <<caught, dismissed, ledger, version>>
rulesfile == <<rules, mtime>>

Step == {"idle", "judging", "noting", "looking", "loading", "evaluating",
         "rolling", "submitting", "refused", "reading", "stamping",
         "remembering"}
AtRest == [step |-> "idle", kind |-> Nil, rule |-> Nil, mtime |-> Nil,
         rules |-> Nil, first |-> FALSE, findings |-> Nil, todo |-> {},
         now |-> Nil, mark |-> Nil, again |-> FALSE, raced |-> FALSE]

Happens == spent < MaxEvents /\ spent' = spent + 1

Present(file1) == {r \in Rule : file1[r] # Nil}

\* Findings before anything is counted.
NoFinding(r) == [calls |-> {}, dismissed |-> r \in dismissed, seen |-> Nil,
                 new |-> {}]

\* Whoever has begun to read has been overtaken by a commit.
OvertakenBy(by, threads) ==
  [t \in Thread |-> IF t # by /\ threads[t].step \notin {"idle", "judging",
                                 "noting", "looking", "loading", "remembering"}
                    THEN [threads[t] EXCEPT !.raced = TRUE] ELSE threads[t]]

-----------------------------------------------------------------------------
(* The ledger. *)

\* adopt_sightings: what was recorded before questions were told apart goes to
\* the question the rule asks today.
Adopted(file1) ==
  {[x EXCEPT !.question = IF @ = Nil THEN file1[x.rule] ELSE @] : x \in ledger}

Sighting(r, q, c, now) == [rule |-> r, question |-> q, call |-> c, seen |-> now]
SameKey(x, y) == x.rule = y.rule /\ x.question = y.question /\ x.call = y.call

\* Only what is not set aside and caught something is recorded.
LiveAny(finding) == finding.calls # {}     \* mutant: what is set aside too
Live(finding) == ~ finding.dismissed /\ finding.calls # {}

\* ON CONFLICT DO NOTHING: a sighting that is there keeps its date.
InsertedAnew(old, rows) ==                 \* mutant: INSERT OR REPLACE
  {x \in old : \A y \in rows : ~ SameKey(x, y)} \cup rows
Inserted(old, rows) ==
  old \cup {x \in rows : \A y \in old : ~ SameKey(x, y)}

\* The calls each live rule catches by now, whatever the finding counted.
Rows(findings, file1, now) ==
  UNION {{Sighting(r, file1[r], c, now) : c \in caught[file1[r]]} :
           r \in {r \in DOMAIN findings : Live(findings[r])}}

\* mutant: adopted after the inserts
LedgerAfterLate(findings, file1, now) ==
  {[x EXCEPT !.question = IF @ = Nil THEN file1[x.rule] ELSE @] :
     x \in Inserted(ledger, Rows(findings, file1, now))}
LedgerAfter(findings, file1, now) ==
  Inserted(Adopted(file1), Rows(findings, file1, now))

\* read_sightings: the earliest date of a rule's present question.
FirstSeen(entries, r, q) ==
  LET dates == {x.seen : x \in {x \in entries : x.rule = r /\ x.question = q}}
  IN IF dates = {} THEN Nil ELSE CHOOSE d \in dates : \A e \in dates : d <= e

\* What a run saw for the first time: the rows its own inserts added.
NewOfAll(after, base, r, q) ==             \* mutant: every row of the rule
  {x.call : x \in {x \in after : x.rule = r /\ x.question = q}}
NewOf(after, base, r, q) ==
  {x.call : x \in {x \in after \ base : x.rule = r /\ x.question = q}}

-----------------------------------------------------------------------------
ReviewInit ==
  /\ caught = [q \in Question |-> {}]
  /\ dismissed = {}
  /\ \E old \in {{}, Recorded} :
       ledger = [rule : Rule, question : {Nil}, call : old, seen : {0}]
  /\ version = 0
  /\ rules \in [Rule -> Question]
  /\ mtime = 0 /\ counter = 0
  /\ memo = Nil /\ reader = Nil
  /\ cmd = [t \in Thread |-> AtRest]
  /\ news = [x \in Rule \X Question \X Call |-> 0]
  /\ spent = 0

(* The store and the rules file, as others change them.                    *)

Commits(by) ==
  /\ version' = version + 1
  /\ cmd' = OvertakenBy(by, cmd)

\* The lanes store a call, or complete one: other questions catch it now.
Capture ==
  /\ Happens
  /\ \E c \in Call, Q \in SUBSET Question :
       /\ caught' = [q \in Question |->
                     IF q \in Q THEN caught[q] \cup {c} ELSE caught[q]]
       /\ caught' # caught
  /\ Commits(Nil)
  /\ UNCHANGED <<dismissed, ledger, rulesfile, counter, memo, reader, news>>

\* toolog purge: the calls go, their sightings stay.
PurgeCalls ==
  /\ Happens
  /\ \E c \in Call : caught' = [q \in Question |-> caught[q] \ {c}]
  /\ caught' # caught
  /\ Commits(Nil)
  /\ UNCHANGED <<dismissed, ledger, rulesfile, counter, memo, reader, news>>

\* The user retunes, adds or removes a rule.
EditRules ==
  /\ Happens
  /\ \E r \in Rule, q \in Question \cup {Nil} :
       rules[r] # q /\ rules' = [rules EXCEPT ![r] = q]
  /\ mtime' = mtime + 1
  /\ UNCHANGED <<tables, counter, memo, reader, cmd, news>>

\* The application is quit and started again.
Quit ==
  /\ Happens
  /\ memo' = Nil /\ counter' = 0 /\ reader' = Nil
  /\ cmd' = [t \in Thread |-> AtRest]
  /\ UNCHANGED <<tables, rulesfile, news>>

-----------------------------------------------------------------------------
(* A command. *)

Enters(t, step) == cmd' = [cmd EXCEPT ![t].step = step]

\* The window asks for the review, or judges a rule.
Ask(t) ==
  /\ Happens
  /\ cmd[t].step = "idle"
  /\ \/ Enters(t, "looking")
     \/ \E kind \in {"dismiss", "restore"}, r \in Rule :
          cmd' = [cmd EXCEPT ![t] = [AtRest EXCEPT !.step = "judging",
                                                 !.kind = kind, !.rule = r]]
  /\ UNCHANGED <<tables, rulesfile, counter, memo, reader, news>>

\* The writer runs the judgement ...
Judge(t) ==
  /\ cmd[t].step = "judging"
  /\ dismissed' = IF cmd[t].kind = "dismiss" THEN dismissed \cup {cmd[t].rule}
                                             ELSE dismissed \ {cmd[t].rule}
  /\ version' = version + 1
  /\ cmd' = [OvertakenBy(t, cmd) EXCEPT ![t].step = "noting"]
  /\ UNCHANGED <<caught, ledger, rulesfile, counter, memo, reader, news, spent>>

\* ... and note_dismissal counts it.
Note(t) ==
  /\ cmd[t].step = "noting"
  /\ counter' = counter + 1
  /\ cmd' = [cmd EXCEPT ![t] = [AtRest EXCEPT !.step = "looking"]]
  /\ UNCHANGED <<tables, rulesfile, memo, reader, news, spent>>

\* cached_risk: the memo is served if nothing it was stamped with has moved.
ServableTouched ==                         \* mutant: an edit is not noticed
  memo # Nil /\ memo.version = version /\ memo.counter = counter
Servable ==
  /\ memo # Nil
  /\ memo.version = version /\ memo.mtime = mtime /\ memo.counter = counter

Look(t) ==
  /\ cmd[t].step = "looking" /\ reader = Nil
  /\ cmd' = [cmd EXCEPT ![t] = IF Servable THEN AtRest
                               ELSE [@ EXCEPT !.step = "loading",
                                              !.mtime = mtime]]
  /\ UNCHANGED <<tables, rulesfile, counter, memo, reader, news, spent>>

\* The rules, read after the time they are remembered by, and whether any
\* review has ever recorded anything.
LoadRules(t) ==
  /\ cmd[t].step = "loading" /\ reader = Nil
  /\ cmd' = [cmd EXCEPT ![t].step = "evaluating", ![t].rules = rules,
                        ![t].first = (ledger = {}), ![t].raced = FALSE]
  /\ UNCHANGED <<tables, rulesfile, counter, memo, reader, news, spent>>

\* evaluate: what is set aside first; the connection is held throughout.
Evaluate(t) ==
  /\ cmd[t].step = "evaluating" /\ reader = Nil
  /\ reader' = t
  /\ cmd' = [cmd EXCEPT
       ![t].step = "rolling",
       ![t].todo = Present(cmd[t].rules),
       ![t].findings = [r \in Present(cmd[t].rules) |-> NoFinding(r)],
       ![t].raced = IF cmd[t].again THEN FALSE ELSE @]
  /\ UNCHANGED <<tables, rulesfile, counter, memo, news, spent>>

\* rollup: one query for each rule.
Rollup(t) ==
  /\ cmd[t].step = "rolling"
  /\ \E r \in cmd[t].todo :
       cmd' = [cmd EXCEPT ![t].findings[r].calls = caught[cmd[t].rules[r]],
                          ![t].todo = @ \ {r}]
  /\ UNCHANGED <<tables, rulesfile, counter, memo, reader, news, spent>>

\* All rules are counted. The time is taken, and the writer asked; a review
\* the writer refused keeps the connection for reading the ledger.
Counted(t) ==
  /\ cmd[t].step = "rolling" /\ cmd[t].todo = {}
  /\ cmd' = [cmd EXCEPT ![t].step = IF cmd[t].again THEN "reading"
                                                    ELSE "submitting",
                        ![t].now = spent]
  /\ reader' = IF cmd[t].again THEN t ELSE Nil
  /\ UNCHANGED <<tables, rulesfile, counter, memo, news, spent>>

\* record_sightings, run by the writer.
Record(t) ==
  /\ cmd[t].step = "submitting"
  /\ LET file1 == cmd[t].rules
         found == cmd[t].findings
         after == LedgerAfter(found, file1, cmd[t].now)
         new   == [r \in DOMAIN found |->
                     NewOf(after, Adopted(file1), r, file1[r])]
     IN /\ ledger' = after
        /\ version' = IF after = ledger THEN version ELSE version + 1
        /\ cmd' = [(IF after = ledger THEN cmd ELSE OvertakenBy(t, cmd)) EXCEPT
             ![t].step = "stamping", ![t].rules = Nil, ![t].now = Nil,
             ![t].findings = [r \in DOMAIN found |->
               [found[r] EXCEPT !.seen = FirstSeen(after, r, file1[r]),
                                !.new  = new[r]]]]
        /\ news' = [x \in DOMAIN news |->
             IF x[1] \in DOMAIN found /\ x[2] = file1[x[1]] /\ x[3] \in new[x[1]]
             THEN news[x] + 1 ELSE news[x]]
  /\ UNCHANGED <<caught, dismissed, rulesfile, counter, memo, reader, spent>>

\* The writer has gone. A judgement is answered with the error; a review reads
\* the rules again and leaves the ledger as it is.
Again(t) == [cmd[t] EXCEPT !.step = "evaluating", !.again = TRUE]

Refuse(t) ==
  /\ Happens
  /\ \/ cmd[t].step = "submitting" /\ cmd' = [cmd EXCEPT ![t] = Again(t)]
     \/ cmd[t].step = "judging" /\ cmd' = [cmd EXCEPT ![t] = AtRest]
  /\ UNCHANGED <<tables, rulesfile, counter, memo, reader, news>>

\* Each statement of the job commits by itself: one fails after the adoption
\* and the inserts of some of the rules.
RecordFails(t) ==
  /\ Happens
  /\ cmd[t].step = "submitting"
  /\ \E done \in SUBSET DOMAIN cmd[t].findings :
       ledger' = Inserted(Adopted(cmd[t].rules),
                          {x \in Rows(cmd[t].findings, cmd[t].rules, cmd[t].now) :
                             x.rule \in done})
  /\ version' = IF ledger' = ledger THEN version ELSE version + 1
  /\ cmd' = [(IF ledger' = ledger THEN cmd ELSE OvertakenBy(t, cmd)) EXCEPT
                ![t] = Again(t)]
  /\ UNCHANGED <<caught, dismissed, rulesfile, counter, memo, reader, news>>

ReadSightings(t) ==
  /\ cmd[t].step = "reading"
  /\ cmd' = [cmd EXCEPT ![t].step = "stamping", ![t].rules = Nil, ![t].now = Nil,
       ![t].findings = [r \in DOMAIN @ |->
         [@[r] EXCEPT !.seen = FirstSeen(ledger, r, cmd[t].rules[r])]]]
  /\ reader' = Nil
  /\ UNCHANGED <<tables, rulesfile, counter, memo, news, spent>>

\* risk_watermark, after the sighting write ...
Stamp(t) ==
  /\ cmd[t].step = "stamping" /\ reader = Nil
  /\ cmd' = [cmd EXCEPT ![t].step = "remembering",
                        ![t].mark = [version |-> version, counter |-> counter]]
  /\ UNCHANGED <<tables, rulesfile, counter, memo, reader, news, spent>>

\* ... and the review is remembered under it, and answered.
RememberReview(t) ==
  /\ cmd[t].step = "remembering"
  /\ memo' = [version |-> cmd[t].mark.version, counter |-> cmd[t].mark.counter,
              mtime |-> cmd[t].mtime, findings |-> cmd[t].findings,
              raced |-> cmd[t].raced]
  /\ cmd' = [cmd EXCEPT ![t] = AtRest]
  /\ UNCHANGED <<tables, rulesfile, counter, reader, news, spent>>

ReviewNext ==
  \/ Capture \/ PurgeCalls \/ EditRules \/ Quit
  \/ \E t \in Thread :
       \/ Ask(t) \/ Judge(t) \/ Note(t) \/ Look(t) \/ LoadRules(t) \/ Evaluate(t)
       \/ Rollup(t) \/ Counted(t) \/ Record(t) \/ RecordFails(t) \/ Refuse(t)
       \/ ReadSightings(t) \/ Stamp(t) \/ RememberReview(t)

ReviewSpec == ReviewInit /\ [][ReviewNext]_reviewvars

-----------------------------------------------------------------------------
(* Properties.                                                             *)

\* The shape of the state; the connection is held by the thread that is
\* counting, and by no other.
ReviewTypeOK ==
  /\ caught \in [Question -> SUBSET Call] /\ dismissed \subseteq Rule
  /\ ledger \subseteq [rule : Rule, question : Question \cup {Nil},
                       call : Call, seen : 0..MaxEvents]
  /\ rules \in [Rule -> Question \cup {Nil}]
  /\ {version, mtime, counter, spent} \subseteq Nat
  /\ \A t \in Thread :
       /\ cmd[t].step \in Step
       /\ reader = t <=> cmd[t].step \in {"rolling", "reading"}

\* What the rules find in the store now.
Current(findings) ==
  /\ DOMAIN findings = Present(rules)
  /\ \A r \in DOMAIN findings :
       /\ findings[r].calls = caught[rules[r]]
       /\ findings[r].dismissed = (r \in dismissed)

\* A review that is served from memory counts what the rules find now and
\* knows every judgement, unless the store changed while it was computed.
ServedUnlessRaced == Servable /\ ~ memo.raced => Current(memo.findings)

\* The same with no condition. Reading the watermark before the evaluation
\* "can only make the memo expire early"; "reading it last can make it serve
\* an answer that is wrong" (state.rs:126).
ServedIsCurrent == Servable => Current(memo.findings)

\* No sighting is lost and none changes its date, whatever is purged, retuned
\* or judged; one of an earlier version is given a question at most.
KeepsSightings ==
  \A x \in ledger :
    \/ x \in ledger'
    \/ x.question = Nil /\ \E q \in Question :
                            [x EXCEPT !.question = q] \in ledger'

\* A rule's question has one sighting of a call, and the adoption of older
\* ones never meets one that is there already.
OneSighting == \A x, y \in ledger : SameKey(x, y) => x = y

\* The state keeps its shape, and a sighting its one row in the ledger.
LedgerInv == ReviewTypeOK /\ OneSighting

\* A sighting is announced as new by one review at most, although several may
\* be under way.
AnnouncedOnce == \A x \in DOMAIN news : news[x] <= 1

\* A review that nothing overtook agrees with itself: what is new is among what
\* it counts, all of it in a first review, none of it for a rule set aside;
\* and what caught something has a date.
ReviewAgrees ==
  \A t \in Thread :
    cmd[t].step \in {"stamping", "remembering"} /\ ~ cmd[t].raced
      /\ ~ cmd[t].again =>
      \A r \in DOMAIN cmd[t].findings :
        LET f == cmd[t].findings[r] IN
        /\ f.new \subseteq f.calls
        /\ f.dismissed => f.new = {}
        /\ Live(f) => f.seen # Nil
        /\ Live(f) /\ cmd[t].first => f.new = f.calls

\* A sighting has one row in the ledger, is announced as new by one review at
\* most, and a review nothing overtook agrees with itself.
LedgerHonest == LedgerInv /\ AnnouncedOnce /\ ReviewAgrees

\* No sighting is lost and none changes its date, whatever is purged, retuned or
\* judged (record_sightings, adopt_sightings).
LedgerKept == [][KeepsSightings]_reviewvars
=============================================================================
