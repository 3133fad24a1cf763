----------------------------- MODULE RiskRules -----------------------------
(* What a rule catches and what a review says of it: load, compile, evaluate, *)
(* reconcile, calls, matches and matched_rules of toolog-core rules.rs.       *)
(*                                                                            *)
(* A review counts each rule by a statement of its own, then each severity by *)
(* one more, with others' commits between. What a review records and whether  *)
(* it is remembered are in RiskReview.                                        *)
(*                                                                            *)
(* A rule is [id, severity, scope, match]; ids are numbers, for their order.  *)
(* A match gives values for some columns, and a pattern is the texts it       *)
(* matches; the columns left out are compared as those that are here.         *)
EXTENDS Records

CONSTANTS
  BuiltIn,   \* the rules that come with the program, in their order
  Files,     \* what the user's file may hold: rules, in their order
  Floor      \* the letters two commands must share to be alike

VARIABLES
  file,      \* the user's file
  dismissed, \* ids of the rules set aside
  review     \* [step, rules, aside, findings, listed, totals, posture]

riskvars == <<file, dismissed, review>>

Worst == <<"high", "medium", "low", "info">>
Slot(severity) == CHOOSE n \in 1..4 : Worst[n] = severity

\* Match::default, which gives nothing.
AnyMatch == [any_of |-> [tool_name |-> {}, decision |-> {}], main_thread |-> NULL,
             first_line |-> FALSE, contains |-> {}, path_glob |-> {},
             outside_cwd |-> FALSE, mode_changed |-> FALSE]

-----------------------------------------------------------------------------
(* The rules in force. *)

\* load: a rule of the user's takes the place of one that has its id.
Appended(rules, r) == Append(rules, r)    \* mutant: beside it
Replaced(rules, r) ==
  IF \E n \in DOMAIN rules : rules[n].id = r.id
  THEN [n \in DOMAIN rules |-> IF rules[n].id = r.id THEN r ELSE rules[n]]
  ELSE Append(rules, r)
Load(user) == FoldLeft(Replaced, BuiltIn, user)

-----------------------------------------------------------------------------
(* The calls a rule catches. *)

FirstLine(text) ==
  LET breaks == {n \in DOMAIN text : text[n] = "\n"}
  IN IF breaks = {} THEN text ELSE SubSeq(text, 1, Min(breaks) - 1)

IsWithin(part, text) ==
  \E n \in 0..(Len(text) - Len(part)) : SubSeq(text, n + 1, n + Len(part)) = part

\* compile: the conditions that are given, and'ed; none given matches nothing.
\* first_line changes a condition and is none.
Given(m) == \/ \E k \in DOMAIN m.any_of : m.any_of[k] # {}
            \/ m.main_thread # NULL \/ m.contains # {} \/ m.path_glob # {}
            \/ m.outside_cwd \/ m.mode_changed

Compile(m, i) ==
  LET c    == calls[i]
      text == IF m.first_line THEN FirstLine(c.input_summary) ELSE c.input_summary
  IN /\ Given(m)
     /\ \A k \in DOMAIN m.any_of : m.any_of[k] # {} => c[k] \in m.any_of[k]
     /\ m.main_thread # NULL => ((c.agent_id = NULL) <=> (m.main_thread = "main"))
     /\ m.contains # {} => /\ c.input_summary # NoText
                           /\ \E part \in m.contains : IsWithin(part, text)
     /\ m.path_glob # {} => c.target_path \in m.path_glob
     \* NOT LIKE cwd || '%': a path that begins with the directory's letters.
     /\ m.outside_cwd => /\ c.target_path # NoText /\ CwdOf(i) # NoText
                         /\ ~ IsPrefix(CwdOf(i), c.target_path)
     /\ m.mode_changed => c.session \in modes

\* The session's first call stands for the session.
FirstOfAll(i) == TRUE                     \* mutant: every call of it
FirstOf(i) == \A j \in Rows : calls[j].session = calls[i].session => ~ Older(j, i)

\* One command begins with the other, and the shorter is not too short.
Alike(a, b) == \/ Len(a) >= Floor /\ IsPrefix(a, b)
               \/ Len(b) >= Floor /\ IsPrefix(b, a)

\* A call that ran, like one refused before it in its session.
Retries(i) ==
  LET c == calls[i]
  IN /\ c.decision # "reject" /\ c.input_summary # NoText
     /\ \E j \in Rows \ {i} :
          LET refused == calls[j]
          IN /\ refused.decision = "reject" /\ refused.input_summary # NoText
             /\ refused.session = c.session /\ c.session # NULL
             /\ refused.tool_name = c.tool_name /\ c.tool_name # NULL
             /\ NoTime \notin {refused.called_at, c.called_at}
             /\ refused.called_at <= c.called_at
             /\ Alike(refused.input_summary, c.input_summary)

\* where_for: whether a rule catches a call (and matches).
WhereFor(r, i) ==
  /\ Compile(r.match, i)
  /\ r.scope = "session" => calls[i].session # NULL /\ FirstOf(i)
  /\ r.scope = "retry_after_refusal" => Retries(i)

Caught(r) == {i \in Rows : WhereFor(r, i)}

\* calls: the drill-through, a page at a time.
CallsPage(r, limit, offset) ==
  LET all == SetToSortSeq(Caught(r), Newer)
  IN SubSeq(all, offset + 1, Min({offset + limit, Len(all)}))

\* matched_rules: the live rules that catch a call.
MatchedRules(i) ==
  {r \in ToSet(Load(file)) : r.id \notin dismissed /\ WhereFor(r, i)}

-----------------------------------------------------------------------------
(* A review. *)

InProject(found, p) == {i \in found : ProjectOf(i) = p}
Projects(found) == {ProjectOf(i) : i \in found}

\* rollup: one rule's numbers, by project.
RolledUp(r) ==
  LET found == Caught(r)
      SessionsIn(p) == Cardinality({calls[i].session : i \in InProject(found, p)} \ {NULL})
  IN [calls    |-> Cardinality(found),
      sessions |-> MapThenSumSet(SessionsIn, Projects(found)),
      projects |-> Projects(found)]

\* evaluate's order: worst first, then the most calls, then the id.
ReadFirst(rules, findings) ==
  LET Of(id) == CHOOSE r \in ToSet(rules) : r.id = id
      Before(a, b) ==
        \/ Slot(Of(a).severity) < Slot(Of(b).severity)
        \/ /\ Of(a).severity = Of(b).severity
           /\ \/ findings[a].calls > findings[b].calls
              \/ findings[a].calls = findings[b].calls /\ a < b
  IN SetToSortSeq(DOMAIN findings, Before)

\* What still counts: not set aside when the review began, and not empty.
LiveFindingAny(f, id) == f.findings[id].calls > 0     \* mutant: set aside too
LiveFinding(f, id) == id \notin f.aside /\ f.findings[id].calls > 0

LiveOf(severity) ==
  {r \in ToSet(review.rules) : r.severity = severity /\ LiveFinding(review, r.id)}

\* One severity: its rules in one OR, so that a call two of them caught is one.
CaughtBy(rules) == {i \in Rows : \E r \in rules : WhereFor(r, i)}

NoPosture == [by_severity |-> [n \in 1..4 |-> 0], rule_ids |-> <<>>]

TallyPerRule(rules, p) ==                 \* mutant: counted rule by rule
  LET In(r) == Cardinality(InProject(Caught(r), p)) IN MapThenSumSet(In, rules)
Tally(rules, p) == Cardinality(InProject(CaughtBy(rules), p))

\* The rows, with one severity's counts added to them.
Added(posture, n, rules) ==
  [p \in DOMAIN posture \cup Projects(CaughtBy(rules)) |->
     LET row == IF p \in DOMAIN posture THEN posture[p] ELSE NoPosture
     IN IF p \in Projects(CaughtBy(rules))
        THEN [row EXCEPT !.by_severity[n] = Tally(rules, p)] ELSE row]

\* Which rules each row tripped, read off the findings: the row of no project
\* is that of the calls without one.
Tripped(f) ==
  [p \in DOMAIN f.posture |->
     [f.posture[p] EXCEPT !.rule_ids =
        SelectSeq(f.listed, LAMBDA id : LiveFinding(f, id) /\ p \in f.findings[id].projects)]]

NoReview == [step |-> "idle", rules |-> <<>>, aside |-> {}, findings |-> <<>>,
             listed |-> <<>>, totals |-> <<>>, posture |-> <<>>]

\* The rules are read, and what is set aside.
BeginReview ==
  /\ review.step \in {"idle", "done"}
  /\ review' = [NoReview EXCEPT !.step = "counting", !.rules = Load(file), !.aside = dismissed]
  /\ since' = {}
  /\ UNCHANGED <<calls, sessions, modes, spent, file, dismissed>>

\* evaluate, the next rule.
RollUp ==
  /\ review.step = "counting"
  /\ LET n     == Cardinality(DOMAIN review.findings) + 1
         r     == review.rules[n]
         found == [id \in DOMAIN review.findings \cup {r.id} |->
                     IF id = r.id THEN RolledUp(r) ELSE review.findings[id]]
         last  == n = Len(review.rules)
     IN review' = [review EXCEPT
          !.findings = found,
          !.listed = IF last THEN ReadFirst(review.rules, found) ELSE @,
          !.step = IF last THEN "tallying" ELSE @]
  /\ UNCHANGED <<recordvars, file, dismissed>>

\* reconcile, the next severity; after the last, the rules of each row.
TallySeverity ==
  /\ review.step = "tallying"
  /\ LET n     == Len(review.totals) + 1
         rules == LiveOf(Worst[n])
         In(p) == Tally(rules, p)
         after == [review EXCEPT
           !.totals = Append(@, [calls |-> MapThenSumSet(In, Projects(CaughtBy(rules))),
                                 rules |-> Cardinality(rules)]),
           !.posture = Added(@, n, rules)]
     IN review' = IF n < 4 THEN after
                  ELSE [after EXCEPT !.step = "done", !.posture = Tripped(after)]
  /\ UNCHANGED <<recordvars, file, dismissed>>

Dismiss(id) ==
  /\ Commit("judged")
  /\ dismissed' = dismissed \cup {id}
  /\ UNCHANGED <<calls, sessions, modes, file, review>>
Restore(id) ==
  /\ Commit("judged")
  /\ dismissed' = dismissed \ {id}
  /\ UNCHANGED <<calls, sessions, modes, file, review>>

RiskInit == file \in Files /\ dismissed = {} /\ review = NoReview

RiskNext ==
  \/ BeginReview \/ RollUp \/ TallySeverity
  \/ \E n \in DOMAIN Load(file) :
       Load(file)[n].id \notin dismissed /\ Dismiss(Load(file)[n].id)
  \/ \E id \in dismissed : Restore(id)
-----------------------------------------------------------------------------
(* The properties. *)

AllOf(r) == LET size == Cardinality(Caught(r))
            IN FlattenSeq([n \in 1..(size + 1) |-> CallsPage(r, 1, n - 1)])

\* The user's file retunes and adds, and takes away nothing: one rule of each id
\* is in force, the user's last word on it, or else the built-in one
\* (rules.rs load).
RulesInForce ==
  \A m \in DOMAIN Load(file) :
    LET r == Load(file)[m]
    IN /\ \A n \in DOMAIN Load(file) : Load(file)[n].id = r.id => m = n
       /\ \A q \in ToSet(file) \cup ToSet(BuiltIn) : q.id \in {x.id : x \in ToSet(Load(file))}
       /\ LET said == SelectSeq(BuiltIn \o file, LAMBDA q : q.id = r.id)
          IN r = Last(said)

\* A rule about sessions counts each session once, whatever calls tie for its
\* first or have no time: as many calls as sessions, and one that asks only for a
\* changed mode counts the sessions whose mode changed (rules.rs where_for).
SessionsStandOnce ==
  \A r \in ToSet(Load(file)) :
    r.scope = "session" =>
      /\ RolledUp(r).calls = RolledUp(r).sessions
      /\ r.match = [AnyMatch EXCEPT !.mode_changed = TRUE] =>
           RolledUp(r).calls = Cardinality(modes \cap {calls[i].session : i \in Rows})

\* The numbers a review opens with are the columns of the table under them,
\* whatever was committed while it was computed, and no row of the table is
\* empty. A review nothing overtook counts the calls that wear a rule of the
\* severity on the timeline, each once however many rules caught it; gives a row
\* to each project that has one, and names in it, worst first, exactly the rules
\* that caught a call there; and a finding counts what its drill-through lists
\* and what the rule itself says of each call (rules.rs reconcile, evaluate,
\* matched_rules, calls, matches).
ReviewAddsUp ==
  review.step = "done" =>
    LET f == review
        worn(i) == {r.severity : r \in MatchedRules(i)}
        slot(id) == Slot((CHOOSE r \in ToSet(f.rules) : r.id = id).severity)
    IN /\ \A n \in 1..4 :
            LET at(p) == f.posture[p].by_severity[n]
            IN f.totals[n].calls = MapThenSumSet(at, DOMAIN f.posture)
       /\ \A p \in DOMAIN f.posture : \E n \in 1..4 : f.posture[p].by_severity[n] > 0
       /\ \A p \in DOMAIN f.posture : \A m, n \in DOMAIN f.posture[p].rule_ids :
            m < n => slot(f.posture[p].rule_ids[m]) <= slot(f.posture[p].rule_ids[n])
       /\ since = {} =>
            /\ \A n \in 1..4 :
                 f.totals[n].calls = Cardinality({i \in Rows : Worst[n] \in worn(i)})
            /\ DOMAIN f.posture = {ProjectOf(i) : i \in {i \in Rows : worn(i) # {}}}
            /\ \A p \in DOMAIN f.posture :
                 ToSet(f.posture[p].rule_ids)
                   = {r.id : r \in UNION {MatchedRules(i) : i \in {i \in Rows : ProjectOf(i) = p}}}
            /\ \A r \in ToSet(f.rules) :
                 /\ f.findings[r.id].calls = Len(AllOf(r))
                 /\ ToSet(AllOf(r)) = {i \in Rows : WhereFor(r, i)}
=============================================================================
