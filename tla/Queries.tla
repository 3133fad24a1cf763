------------------------------- MODULE Queries -------------------------------
(* What the window, the command line and the export ask of the store          *)
(* (toolog-core query.rs, fts.rs, and the halves of rules.rs and llm.rs that  *)
(* answer a filter): the selection a filter stands for, the page and the      *)
(* count of it, the activity chart, the values the filter box offers and the  *)
(* figures of the Status screen, over a store that grows, is completed by the *)
(* other lane, is purged, is judged by a model, and whose rules are set       *)
(* aside and restored between two questions.                                  *)
(*                                                                            *)
(* A call is the columns the questions read. A word is a sequence of letters, *)
(* so that "begins with" means something. NULL is "null", and no comparison   *)
(* with it is true; a call with no time has NoTime.                           *)
EXTENDS Integers, Sequences, FiniteSets, SequencesExt, FiniteSetsExt

CONSTANTS
  Call,       \* [tool_name, agent_id, agent_name, decision, success,
              \*  called_at, provenance, words]
  Rules,      \* id -> [severity, tool]
  Pairs,      \* a model's and a prompt's fingerprint
  Filter,     \* the filters asked with
  Widths,     \* of a bucket, narrowest first
  Target,     \* TARGET_BUCKETS
  Offset,     \* of local time
  MaxRows,    \* bound: on the rows
  MaxVerdicts \* bound: on what models say

VARIABLES
  calls,      \* rowid -> Call
  dismissed,  \* rules set aside
  verdicts,   \* what models said: [row, pair, score], NoAnswer when they could not
  sighted     \* the calls a rule was seen to match, at any time

NULL == "null"
NoTime == -100
NoAnswer == 0
NoScore == [op |-> "any", score |-> 0]
Severities == <<"info", "low", "medium", "high">>

\* TimelineFilter::default
AnyCall == [tool_name |-> NULL, agent_id |-> NULL, decision |-> NULL, success |-> NULL,
            provenance |-> NULL, since |-> NoTime, until |-> NoTime, main_thread |-> NULL,
            query |-> <<>>, risk |-> NULL, rule_id |-> NULL, model_risk |-> NoScore]

qvars == <<calls, dismissed, verdicts, sighted>>

QueriesTypeOK ==
  /\ DOMAIN calls \subseteq 1..MaxRows
  /\ \A i \in DOMAIN calls :
       \E c \in Call : calls[i] \in {c, [c EXCEPT !.provenance = "both"]}
  /\ dismissed \subseteq DOMAIN Rules
  /\ verdicts \subseteq [row : 1..MaxRows, pair : Pairs, score : 0..5]
  /\ sighted \subseteq 1..MaxRows

-----------------------------------------------------------------------------
(* The selection. *)

\* build_query: the last term matches the words it begins, the others are whole.
\* No term is no filter at all.
BuildQuery(terms, words) ==
  \A i \in 1..Len(terms) :
    IF i = Len(terms) THEN \E w \in words : IsPrefix(terms[i], w)
                      ELSE terms[i] \in words

Columns == {"tool_name", "agent_id", "decision", "success", "provenance"}

\* bind!: a field that was given is a column that equals it.
Bound(f, c) ==
  /\ \A k \in Columns : f[k] # NULL => c[k] = f[k]
  /\ f.since # NoTime => (c.called_at # NoTime /\ c.called_at >= f.since)
  /\ f.until # NoTime => (c.called_at # NoTime /\ c.called_at <= f.until)
  /\ f.main_thread # NULL => ((c.agent_id = NULL) <=> (f.main_thread = "main"))

Live == DOMAIN Rules \ dismissed
Trips(r, c) == Rules[r].tool = c.tool_name

\* matched_rules, of one call
Matched(c) == {r \in Live : Trips(r, c)}

\* risk_clause: the live rules of a severity and an id, or'ed together. None
\* left is a fragment that matches nothing.
RiskClauseEver(f, c) ==                   \* mutant: set-aside rules still count
  (f.risk # NULL \/ f.rule_id # NULL) =>
    \E r \in DOMAIN Rules : /\ f.risk # NULL => Rules[r].severity = f.risk
                            /\ f.rule_id # NULL => r = f.rule_id
                            /\ Trips(r, c)
RiskClause(f, c) ==
  (f.risk # NULL \/ f.rule_id # NULL) =>
    \E r \in Live : /\ f.risk # NULL => Rules[r].severity = f.risk
                    /\ f.rule_id # NULL => r = f.rule_id
                    /\ Trips(r, c)

\* ScoreFilter: an operator and a score.
Scored(sf, n) == CASE sf.op = ">=" -> n >= sf.score
                   [] sf.op = "<"  -> n < sf.score
                   [] sf.op = "="  -> n = sf.score

\* verdict_clauses: what this model said, under this prompt.
VerdictClauses(f, pair, i) ==
  f.model_risk # NoScore =>
    \E v \in verdicts : /\ v.row = i /\ v.pair = pair /\ v.score # NoAnswer
                        /\ Scored(f.model_risk, v.score)

Selected(f, pair) ==
  {i \in DOMAIN calls : /\ BuildQuery(f.query, calls[i].words)
                        /\ Bound(f, calls[i])
                        /\ RiskClause(f, calls[i])
                        /\ VerdictClauses(f, pair, i)}

-----------------------------------------------------------------------------
(* The list. *)

\* ORDER BY called_at DESC, rowid DESC; a call with no time comes last.
Newer(i, j) == \/ calls[i].called_at > calls[j].called_at
               \/ calls[i].called_at = calls[j].called_at /\ i > j

TimelineOrder(f, pair) == SetToSortSeq(Selected(f, pair), Newer)

\* timeline_rows: LIMIT ? OFFSET ?.
PageByNumber(f, pair, limit, offset) ==   \* mutant: the offset counts pages
  LET all == TimelineOrder(f, pair)
  IN SubSeq(all, offset \div limit + 1,
            Min({offset \div limit + limit, Len(all)}))
TimelineRows(f, pair, limit, offset) ==
  LET all == TimelineOrder(f, pair)
  IN SubSeq(all, offset + 1, Min({offset + limit, Len(all)}))

TimelineCount(f, pair) == Cardinality(Selected(f, pair))

\* annotate_risk and worst_severity: the badge on a row.
Rank(s) == CHOOSE n \in 1..4 : Severities[n] = s
Badge(i) == LET found == Matched(calls[i])
            IN IF found = {} THEN NULL
               ELSE Severities[Max({Rank(Rules[r].severity) : r \in found})]

\* VERDICT_COLUMNS: the score drawn beside it.
ScoreOf(i, pair) == {v.score : v \in {w \in verdicts : w.row = i /\ w.pair = pair}}

-----------------------------------------------------------------------------
(* The chart. *)

Dated(f, pair) == {i \in Selected(f, pair) : calls[i].called_at # NoTime}

\* BucketSize::for_span: the narrowest width the span fits in, else the widest.
ForSpan(span) ==
  LET fits == {n \in 1..(Len(Widths) - 1) : span <= Widths[n] * Target}
  IN IF fits = {} THEN Len(Widths) ELSE Min(fits)

\* phase_ms: a week starts three days off the epoch's own.
Phase(n) == IF n = Len(Widths) THEN 3 ELSE 0

\* The column of an instant. SQL divides towards zero, and the CASE brings an
\* instant before the grid's origin down into the column below.
TowardsZero(a, w) == IF a >= 0 THEN a \div w ELSE -((-a) \div w)
SqlColumnRaw(a, w) == TowardsZero(a, w)   \* mutant: no CASE
SqlColumn(a, w) == TowardsZero(a, w) - (IF a - w * TowardsZero(a, w) < 0 THEN 1 ELSE 0)
Column(a, w) == a \div w                  \* div_euclid

NoChart == [width |-> 0, bars |-> <<>>]

\* histogram: a column for every step of the span, the counts dropped in.
Histogram(f, pair) ==
  LET dated == Dated(f, pair)
      at    == {calls[i].called_at : i \in dated}
      n     == ForSpan(Max(at) - Min(at))
      w     == Widths[n]
      shift == Offset + Phase(n)
      first == Column(Min(at) + shift, w)
      last  == Column(Max(at) + shift, w)
      In(k) == {i \in dated : SqlColumn(calls[i].called_at + shift, w) = k}
      Bar(k) == [start    |-> k * w - shift,
                 calls    |-> Cardinality(In(k)),
                 failures |-> Cardinality({i \in In(k) : calls[i].success = "false"})]
  IN IF dated = {} THEN NoChart
     ELSE [width |-> w, bars |-> [b \in 1..(last - first + 1) |-> Bar(first + b - 1)]]

\* pick: the bars from one to another, as absolute bounds, both ends in.
Picked(chart, from, to) ==
  [since |-> chart.bars[from].start, until |-> chart.bars[to].start + chart.width - 1]
Brushed(f, range) == [f EXCEPT !.since = range.since, !.until = range.until]

-----------------------------------------------------------------------------
(* The filter box's values, and the Status screen's figures. *)

Offered(k) == {calls[i][k] : i \in DOMAIN calls} \ {NULL}

\* facets and valuesFor: what the box offers after a key. For @agent it is the
\* agents' names.
Facets(key) == CASE key = "tool_name" -> Offered("tool_name")
                 [] key = "agent_id"  -> Offered("agent_name")
                 [] key = "decision"  -> {"accept", "reject"}

Calls(P(_)) == Cardinality({i \in DOMAIN calls : P(calls[i])})

\* reconcile: by which lanes saw a call. No call has neither.
Reconcile ==
  LET Transcript(c) == c.provenance \in {"transcript", "both"}
      Otel(c)       == c.provenance \in {"otel", "both"}
      Both(c)       == Transcript(c) /\ Otel(c)
      Only(c)       == Transcript(c) /\ ~Otel(c)
      OtelOnly(c)   == Otel(c) /\ ~Transcript(c)
      Refused(c)    == c.decision = "reject"
  IN [both |-> Calls(Both), transcript_only |-> Calls(Only), otel_only |-> Calls(OtelOnly),
      rejected |-> Calls(Refused)]

\* stats_totals: how many, and between which instants.
StatsTotals ==
  LET at == {calls[i].called_at : i \in DOMAIN calls} \ {NoTime}
  IN [tool_calls |-> Cardinality(DOMAIN calls),
      first |-> IF at = {} THEN NoTime ELSE Min(at),
      last  |-> IF at = {} THEN NoTime ELSE Max(at)]

\* stats_tool_usage: the calls of each named tool, and how many failed.
ToolUsage(t) ==
  LET Of(c) == c.tool_name = t
      Bad(c) == c.tool_name = t /\ c.success = "false"
  IN [calls |-> Calls(Of), failures |-> Calls(Bad)]

\* tool_calls_by_rowid: what the live thread reads.
ToolCallsByRowid(ids) == {calls[i] : i \in ids \cap DOMAIN calls}

-----------------------------------------------------------------------------
(* A model's opinions. *)

Said(pair) == {v \in verdicts : v.pair = pair}

\* is_eligible: a command no rule was ever seen to match.
IsEligibleUnmatched(i) ==                 \* mutant: the rules as they are now
  i \in DOMAIN calls /\ calls[i].tool_name = "Bash" /\ Matched(calls[i]) = {}
IsEligible(i) == i \in DOMAIN calls /\ calls[i].tool_name = "Bash" /\ i \notin sighted

\* pending: what the examination is still to ask about.
Pending(pair) ==
  {i \in DOMAIN calls : /\ calls[i].tool_name = "Bash" /\ i \notin sighted
                        /\ \A v \in Said(pair) : v.row # i}

\* progress: the verdicts are counted whatever became of their calls.
Progress(pair) ==
  LET eligible == Cardinality({i \in DOMAIN calls : calls[i].tool_name = "Bash"
                                                     /\ i \notin sighted})
      failed   == Cardinality({v \in Said(pair) : v.score = NoAnswer})
      examined == Cardinality(Said(pair)) - failed
  IN [eligible |-> eligible, examined |-> examined, failed |-> failed,
      queued |-> Max({eligible - examined - failed, 0})]

\* score_tallies: how many calls at each score.
ScoreTallies(pair) == [n \in 1..5 |-> Cardinality({v \in Said(pair) : v.score = n})]

\* top_scoring: the worst answers, with or without their calls.
TopScoring(pair, from) == {v.row : v \in {w \in Said(pair) : w.score >= from}}

\* verdict_for and second_opinion: what the detail pane says of a call.
SecondOpinion(pair, i) ==
  LET said == {v \in Said(pair) : v.row = i}
  IN IF \E v \in said : v.score = NoAnswer THEN "could not answer"
     ELSE IF said # {} THEN "answered"
     ELSE IF IsEligible(i) THEN "not examined yet"
     ELSE "silent"

-----------------------------------------------------------------------------
(* The store between two questions. *)

\* A call is known by its id, which is never given again; a row stands for one.
NextRow == Max(DOMAIN calls \cup {v.row : v \in verdicts} \cup sighted \cup {0}) + 1

Store(c) ==
  /\ NextRow <= MaxRows
  /\ calls' = [i \in DOMAIN calls \cup {NextRow} |-> IF i = NextRow THEN c ELSE calls[i]]
  /\ UNCHANGED <<dismissed, verdicts, sighted>>

\* The exporter's record of a call the transcript told of, or the reverse.
Complete(i) ==
  /\ calls[i].provenance # "both"
  /\ calls' = [calls EXCEPT ![i].provenance = "both"]
  /\ UNCHANGED <<dismissed, verdicts, sighted>>

\* A purge takes a call and leaves what was said and seen of it.
Purge(i) ==
  /\ calls' = [j \in DOMAIN calls \ {i} |-> calls[j]]
  /\ UNCHANGED <<dismissed, verdicts, sighted>>

\* record: the later answer takes the place of the one before.
Judge(i, pair, n) ==
  /\ calls[i].tool_name = "Bash" /\ Cardinality(verdicts) < MaxVerdicts
  /\ verdicts' = {v \in verdicts : v.row # i \/ v.pair # pair}
                 \cup {[row |-> i, pair |-> pair, score |-> n]}
  /\ UNCHANGED <<calls, dismissed, sighted>>

\* A rule is seen to match a call, maybe long after a model was asked about it.
Sight(i) ==
  /\ Matched(calls[i]) # {}
  /\ sighted' = sighted \cup {i}
  /\ UNCHANGED <<calls, dismissed, verdicts>>

Dismiss(r) == dismissed' = dismissed \cup {r} /\ UNCHANGED <<calls, verdicts, sighted>>
Restore(r) == dismissed' = dismissed \ {r} /\ UNCHANGED <<calls, verdicts, sighted>>

QueriesInit == calls = <<>> /\ dismissed = {} /\ verdicts = {} /\ sighted = {}

QueriesNext ==
  \/ \E c \in Call : Store(c)
  \/ \E i \in DOMAIN calls : Complete(i)
  \/ \E i \in DOMAIN calls : Purge(i)
  \/ \E i \in DOMAIN calls, pair \in Pairs, n \in {NoAnswer, 2, 4} : Judge(i, pair, n)
  \/ \E i \in DOMAIN calls : Sight(i)
  \/ \E r \in Live : Dismiss(r)
  \/ \E r \in dismissed : Restore(r)

QueriesSpec == QueriesInit /\ [][QueriesNext]_qvars

-----------------------------------------------------------------------------
(* The properties. *)

\* Which model it is matters to a filter that names a score, and to no other.
Asking(f) == IF f.model_risk = NoScore THEN {CHOOSE pair \in Pairs : TRUE} ELSE Pairs

Ranged(f) == f.since # NoTime \/ f.until # NoTime

\* The pages of a list, one after another, are the calls its count counted,
\* each once, newest first: no call is on two pages and none is between them
\* (LIMIT and OFFSET over an order with a tie in it, query.rs timeline_rows).
PagesPartition ==
  \A f \in Filter, limit \in 1..2 : \A pair \in Asking(f) :
    LET n      == TimelineCount(f, pair)
        pages  == [p \in 1..n |-> TimelineRows(f, pair, limit, (p - 1) * limit)]
        listed == FlattenSeq(pages)
    IN /\ Len(listed) = n
       /\ ToSet(listed) = Selected(f, pair)
       /\ \A i, j \in 1..Len(listed) : i < j => Newer(listed[i], listed[j])

\* Typing one more letter of the last word, or one more word, never brings a
\* call into the list that was not there before it (fts.rs build_query).
NarrowsAsTyped ==
  \A f, g \in Filter : \A pair \in Asking(f) :
    /\ [f EXCEPT !.query = <<>>] = [g EXCEPT !.query = <<>>]
    /\ f.query # <<>> /\ g.query # <<>>
    /\ \/ Front(f.query) = Front(g.query) /\ IsPrefix(Last(f.query), Last(g.query))
       \/ IsPrefix(f.query, g.query)
    => Selected(g, pair) \subseteq Selected(f, pair)

\* The Status screen's lanes are the timeline's @lane filters, and leave no
\* call out; its refusals are @outcome:refused; and a tool's row counts what the
\* filter on it lists, for every tool the box offers (query.rs facets, reconcile,
\* stats_totals, selection).
FiguresAgree ==
  /\ Reconcile.both + Reconcile.transcript_only + Reconcile.otel_only
       = StatsTotals.tool_calls
  /\ \A t \in Facets("tool_name") : ToolUsage(t).calls > 0
  /\ \A f \in Filter : \A pair \in Asking(f) :
       LET alone(k) == \A l \in (DOMAIN f) \ {k} : f[l] = AnyCall[l]
       IN /\ (alone("provenance") /\ f.provenance = "both")
               => TimelineCount(f, pair) = Reconcile.both
          /\ (alone("decision") /\ f.decision = "reject")
               => TimelineCount(f, pair) = Reconcile.rejected
          /\ (alone("tool_name") /\ f.tool_name # NULL)
               => TimelineCount(f, pair) = ToolUsage(f.tool_name).calls

ListsAgree == PagesPartition /\ NarrowsAsTyped /\ FiguresAgree

\* The chart and the list are one question asked twice: the bars add up to the
\* listed calls that have a time, whatever side of the grid's origin they are
\* on, and brushing bars of a chart that no range had cut narrows the list to
\* exactly the calls those bars counted (histogram, ActivityHistogram.pick).
SumOver(S, Op(_)) == FoldSet(LAMBDA x, acc : acc + Op(x), 0, S)

ChartCountsList ==
  \A f \in Filter : \A pair \in Asking(f) :
    LET chart    == Histogram(f, pair)
        dated    == Dated(f, pair)
        Height(b) == chart.bars[b].calls
        Failed(b) == chart.bars[b].failures
    IN /\ SumOver(DOMAIN chart.bars, Height) = Cardinality(dated)
       /\ SumOver(DOMAIN chart.bars, Failed)
            = Cardinality({i \in dated : calls[i].success = "false"})
       /\ ~Ranged(f) =>
            \A from, to \in DOMAIN chart.bars :
              from <= to =>
                TimelineCount(Brushed(f, Picked(chart, from, to)), pair)
                  = SumOver(from..to, Height)

\* A row's badge and the @risk filter read the same rules, set aside or not: a
\* row badged with a severity is in that severity's list, a row in it has a
\* badge at least as bad, and a row's score is the one @model-risk finds, no
\* other model's (annotate_risk, risk_clause, verdict_clauses).
BadgeAgreesWithFilter ==
  \A f \in Filter : \A pair \in Asking(f) :
    /\ \A i \in Selected(f, pair) :
         /\ f.risk # NULL => Badge(i) # NULL /\ Rank(Badge(i)) >= Rank(f.risk)
         /\ f.model_risk # NoScore =>
              \E n \in ScoreOf(i, pair) : Scored(f.model_risk, n)
    /\ (f.risk # NULL /\ \A k \in (DOMAIN f) \ {"risk"} : f[k] = AnyCall[k])
         => {i \in DOMAIN calls : Badge(i) = f.risk} \subseteq Selected(f, pair)

\* What is said of the model is one story: the pane promises an answer for
\* exactly the calls the examination will ask about; the tallies add up to the
\* calls examined; the worst calls are those the @model-risk filter finds, but
\* for the purged; and the figures never promise more than there is to do, and
\* that exactly while no answered call was purged or matched by a rule since
\* (llm.rs pending, progress, score_tallies, top_scoring; second_opinion).
OpinionsAgree ==
  \A pair \in Pairs :
    LET p       == Progress(pair)
        tally(n) == ScoreTallies(pair)[n]
        worst   == [AnyCall EXCEPT !.model_risk = [op |-> ">=", score |-> 4]]
    IN /\ {i \in DOMAIN calls : SecondOpinion(pair, i) = "not examined yet"} = Pending(pair)
       /\ SumOver(1..5, tally) = p.examined
       /\ TopScoring(pair, 4) \cap DOMAIN calls = Selected(worst, pair)
       /\ p.queued <= Cardinality(Pending(pair))
       /\ (\A v \in Said(pair) : IsEligible(v.row)) => p.queued = Cardinality(Pending(pair))
=============================================================================
