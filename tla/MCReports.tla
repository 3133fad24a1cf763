----------------------------- MODULE MCReports -----------------------------
(* Rows, and what is reported of them: the projection's small sessions; a     *)
(* small store of finished rows with the rules and filters a report is asked  *)
(* with; and another with the filters a reader asks. One of the three runs    *)
(* and the others stand still: they share no state.                           *)
EXTENDS MCProjection

VARIABLE part

-----------------------------------------------------------------------------
(* The store. Calls that are alike and tie, a text whose second line is not a *)
(* command, calls with no time and with no session, and files in and out of   *)
(* the directory of a session.                                                *)

VARIABLES rows, known, modes, since, commits, rulesfile, dismissed, review, export

Null == "null"
No == <<Null>>
Undated == -100
Row(s, t, a, d, p, at, text, path) ==
  [session |-> s, tool_name |-> t, agent_id |-> a, decision |-> d, provenance |-> p,
   called_at |-> at, input_summary |-> text, target_path |-> path]
RM == <<"r", "m">>
Refused == Row("s1", "Bash", Null, "reject", "both", 2, RM, No)
Ran     == Row("s1", "Bash", Null, Null, "transcript", 2, <<"r", "m", "x">>, No)
Heredoc == Row("s2", "Bash", "a1", "accept", "otel", Undated, <<"x", "\n", "r", "m">>, No)
Early   == Row("s2", "Bash", Null, Null, "transcript", 1, RM, No)
Inside  == Row("s2", "Edit", Null, "accept", "both", 3, No, <<"w", "w">>)
Outside == Row("s1", "Edit", Null, Null, "transcript", 1, No, <<"e">>)
Lost    == Row(Null, "Bash", Null, "accept", "otel", 4, RM, No)
Told == <<Refused, Ran, Heredoc, Early, Inside, Outside, Lost>>

\* Any three of them, of sessions that are known; and some with one that is not.
SomeStores ==
  {[calls |-> <<Told[t[1]], Told[t[2]], Told[t[3]]>>, known |-> {"s1", "s2"}, modes |-> {"s1"}] :
     t \in {t \in (1..7) \X (1..7) \X (1..7) : t[1] < t[2] /\ t[2] < t[3]}}
  \cup {[calls |-> <<Early, Heredoc, Outside>>, known |-> {}, modes |-> {"s2"}],
         [calls |-> <<Ran, Refused, Inside>>, known |-> {"s2"}, modes |-> {}]}

Whatever == [any_of |-> [tool_name |-> {}, decision |-> {}], main_thread |-> Null,
             first_line |-> FALSE, contains |-> {}, path_glob |-> {},
             outside_cwd |-> FALSE, mode_changed |-> FALSE]
Rule(id, severity, scope, match) ==
  [id |-> id, severity |-> severity, scope |-> scope, match |-> match]
SomeRules ==
  <<Rule(1, "high", "call", [Whatever EXCEPT !.contains = {RM}, !.first_line = TRUE]),
    Rule(2, "low", "session", [Whatever EXCEPT !.mode_changed = TRUE]),
    Rule(3, "high", "retry_after_refusal", [Whatever EXCEPT !.main_thread = "main"]),
    Rule(4, "medium", "call", [Whatever EXCEPT !.any_of.tool_name = {"Edit"},
                                               !.outside_cwd = TRUE])>>

\* No file; and one that retunes two rules, one of them twice.
SomeFiles ==
  {<<>>, <<Rule(4, "high", "call", Whatever),
           Rule(1, "low", "session", [Whatever EXCEPT !.contains = {RM}]),
           Rule(4, "medium", "call", [Whatever EXCEPT !.path_glob = {<<"e">>}])>>}

R == INSTANCE Reports WITH
  calls <- rows, sessions <- known, spent <- commits, file <- rulesfile,
  Stores <- SomeStores, Arriving <- {Ran, Early},
  Learnt <- [s1 |-> [project |-> "p1", cwd |-> <<"w">>],
             s2 |-> [project |-> "p2", cwd |-> <<"w">>]],
  MaxChanges <- 1, BuiltIn <- SomeRules, Files <- SomeFiles, Floor <- 2,
  SESSION_LIMIT <- 1, GAP_LIMIT <- 1, PAGE <- 2, NoLimit <- -1, Limits <- {-1, 3},
  Tools <- {{"Bash"}, {"Bash", "Edit"}}

storevars == <<rows, known, modes, since, commits, rulesfile, dismissed, review, export>>

-----------------------------------------------------------------------------
(* Finished rows, and the filters a reader asks the list and the chart with.  *)

VARIABLES listed, set_aside, opinions, flagged

W1 == <<1>>
W12 == <<1, 2>>
Call1(t, a, d, ok, when, lane, ws) ==
  [tool_name |-> t, agent_id |-> a, agent_name |-> IF a = Null THEN Null ELSE "Explore",
   decision |-> d, success |-> ok, called_at |-> when, provenance |-> lane, words |-> ws]
ListedCalls ==
  {Call1("Bash", Null, "accept", "true", 5, "transcript", {W1}),
   Call1("Bash", "a1", "accept", "false", 5, "otel", {W12}),
   Call1("Bash", Null, "reject", Null, -3, "otel", {W1, W12}),
   Call1("Edit", Null, Null, "true", 0, "transcript", {}),
   Call1("Edit", "a1", Null, "false", -8, "transcript", {W12}),
   Call1(Null, Null, Null, Null, Undated, "otel", {})}

Anything == [tool_name |-> Null, agent_id |-> Null, decision |-> Null, success |-> Null,
             provenance |-> Null, since |-> Undated, until |-> Undated, main_thread |-> Null,
             query |-> <<>>, risk |-> Null, rule_id |-> Null,
             model_risk |-> [op |-> "any", score |-> 0]]
Filters ==
  {Anything, [Anything EXCEPT !.tool_name = "Bash"], [Anything EXCEPT !.main_thread = "sub"],
   [Anything EXCEPT !.decision = "reject"], [Anything EXCEPT !.provenance = "both"],
   [Anything EXCEPT !.since = -3], [Anything EXCEPT !.until = 0, !.success = "true"],
   [Anything EXCEPT !.query = <<W1>>], [Anything EXCEPT !.query = <<W12>>],
   [Anything EXCEPT !.query = <<W1, W12>>], [Anything EXCEPT !.risk = "high"],
   [Anything EXCEPT !.risk = "low"], [Anything EXCEPT !.rule_id = "shell"],
   [Anything EXCEPT !.model_risk = [op |-> ">=", score |-> 3]]}

\* Minutes, hours and weeks, of one, four and seven; a zone west of the epoch's.
Q == INSTANCE Queries WITH
       calls <- listed, dismissed <- set_aside, verdicts <- opinions, sighted <- flagged,
       Call <- ListedCalls, Pairs <- {"p", "q"}, Filter <- Filters,
       Rules <- [net |-> [severity |-> "high", tool |-> "Bash"],
                 shell |-> [severity |-> "low", tool |-> "Bash"]],
       Widths <- <<1, 4, 7>>, Target <- 2, Offset <- -1, MaxRows <- 2, MaxVerdicts <- 1

queryvars == <<listed, set_aside, opinions, flagged>>

-----------------------------------------------------------------------------

Stands(v) == v = "unused"

MCReportsInit ==
  /\ part \in {"projection", "reports", "queries"}
  /\ Init /\ (part # "projection" => world = CHOOSE w \in Worlds : TRUE)
  /\ IF part = "reports" THEN R!ReportsInit
     ELSE /\ Stands(rows) /\ Stands(known) /\ Stands(modes) /\ Stands(since) /\ Stands(commits)
          /\ Stands(rulesfile) /\ Stands(dismissed) /\ Stands(review) /\ Stands(export)
  /\ Q!QueriesInit

MCReportsNext ==
  \/ part = "projection" /\ Next /\ UNCHANGED <<part, storevars, queryvars>>
  \/ part = "reports" /\ R!ReportsNext /\ UNCHANGED <<part, vars, queryvars>>
  \/ part = "queries" /\ Q!QueriesNext /\ UNCHANGED <<part, vars, storevars>>

MCReportsSpec == MCReportsInit /\ [][MCReportsNext]_<<part, vars, storevars, queryvars>>

-----------------------------------------------------------------------------
(* The properties of the reports and of the queries; those of the projection  *)
(* are its own.                                                               *)

\* A review's numbers, table, drill-through and badges are one count of one store
\* where nothing overtook it, and add up where something did; a session is counted
\* once; and the user's word on a rule is the one in force (RiskRules).
ReviewIsOneCount ==
  part = "reports" =>
    R!RecordsTypeOK /\ R!RulesInForce /\ R!SessionsStandOnce /\ R!ReviewAddsUp

\* An export is the list it was asked for, and the coverage report leaves no call
\* out (Export, Coverage).
ReportsAgree == part = "reports" => R!ExportWhole /\ R!CoverageAgrees

\* The pages of a list, its count, the Status screen's figures, the bars of the
\* chart, and a row's badge and score are one answer to one filter, whatever is
\* stored, purged, judged or set aside; and the pane, the figures, the tallies and
\* the list of the worst tell one story of what a model said (Queries, of query.rs,
\* rules.rs, llm.rs and second_opinion).
AnswersAgree ==
  part = "queries" =>
    /\ Q!QueriesTypeOK /\ Q!ListsAgree /\ Q!ChartCountsList /\ Q!BadgeAgreesWithFilter
    /\ Q!OpinionsAgree
=============================================================================
