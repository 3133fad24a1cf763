----------------------------- MODULE Normalize -----------------------------
(* What a row says of a call's arguments and result: toolog-core normalize.rs *)
(* as projector.rs and events.rs call it, for the two lanes in either order.  *)
(*                                                                            *)
(* A string is [of, size, hidden]: the key it stands under, how long it is    *)
(* ("short" up to SUMMARY_LIMIT, "mid" up to the 512 the exporter lets        *)
(* through, "long" beyond), and whether it went through the redactor (which   *)
(* is Redactor). A value is a record with a shape: null, a string, an array   *)
(* or an object with its fields.                                              *)
EXTENDS Integers, Sequences, FiniteSets, SequencesExt, FiniteSetsExt

CONSTANTS
  ToolCalls, \* [tool, input, params, attribute, result, is_error, decision]
  INLINE_BINARY_LIMIT,
  RESULT_BODY_LIMIT,
  REFERENCE  \* bytes a reference takes

VARIABLES
  call,    \* the call both lanes tell of
  columns, \* [summary, target, kind, success, text, body, changes]: its row
  told     \* who has told of it so far

callvars == <<call, columns, told>>

Null == "null"
NoText == [of |-> "null", size |-> "short", hidden |-> FALSE]
Coalesce2(new, old) == IF new = Null THEN old ELSE new
Coalesce(new, old) == IF new = NoText THEN old ELSE new
NoFacts == [summary |-> NoText, target |-> NoText]
NoBody == [size |-> 0, by_reference |-> FALSE, stored |-> 0]

-----------------------------------------------------------------------------
(* The arguments. *)

\* input.get(key).and_then(as_str), of the first key that has one.
IsText(value, key) == /\ value.shape = "object" /\ key \in DOMAIN value.fields
                      /\ value.fields[key].shape = "string"
FirstText(value, keys) ==
  LET found == {n \in DOMAIN keys : IsText(value, keys[n])}
  IN IF found = {} THEN NoText ELSE value.fields[keys[Min(found)]].string

TruncateNot(s) == s                       \* mutant: whatever its length
Truncate(s) == IF s.size = "short" THEN s ELSE [s EXCEPT !.size = "cut"]
RedactedNot(facts) == facts               \* mutant: as it came
Redacted(facts) ==
  [k \in DOMAIN facts |-> IF facts[k] = NoText THEN NoText ELSE [facts[k] EXCEPT !.hidden = TRUE]]

\* match_tool's arms: the keys of the summary and of the target.
SummaryKeys(tool) ==
  CASE tool = "Bash"                             -> <<"command">>
    [] tool \in {"Read", "Write", "NotebookEdit"} -> <<"file_path", "notebook_path">>
    [] tool = "Edit"                             -> <<"file_path">>
    [] tool = "WebFetch"                         -> <<"url">>
    [] tool = "WebSearch"                        -> <<"query">>
    [] tool \in {"Glob", "Grep"}                  -> <<"pattern">>
    [] tool \in {"Agent", "Task"}                 -> <<"description", "prompt">>
    [] tool = "Skill"                            -> <<"skill", "command">>
TargetKeys(tool) ==
  CASE tool \in {"Read", "Write", "NotebookEdit"} -> <<"file_path", "notebook_path">>
    [] tool = "Edit"                             -> <<"file_path">>
    [] tool = "WebFetch"                         -> <<"url">>
    [] tool \in {"Glob", "Grep"}                  -> <<"path">>
    [] tool \in {"Agent", "Task"}                 -> <<"subagent_type">>
    [] tool = "Skill"                            -> <<"skill">>
    [] OTHER                                     -> <<>>
KnownTools == {"Bash", "Read", "Write", "NotebookEdit", "Edit", "WebFetch", "WebSearch", "Glob",
               "Grep", "Agent", "Task", "Skill"}

\* classify: mcp__server__tool, and the tools of the program's own.
Classify(tool) ==
  IF tool.mcp # <<>>
  THEN [kind |-> "mcp", server |-> tool.mcp[1], part |-> IF Len(tool.mcp) = 2 THEN tool.mcp[2] ELSE Null]
  ELSE [kind |-> CASE tool.name \in {"Agent", "Task"} -> "agent" [] tool.name = "Skill" -> "skill"
                   [] OTHER -> "builtin",
        server |-> Null, part |-> Null]

Likely == <<"command", "file_path", "path", "url", "query", "pattern", "description", "prompt">>
GenericNever(input) == NoFacts            \* mutant: what is not known says nothing
GenericFacts(input) ==
  LET s == FirstText(input, Likely)
  IN CASE s # NoText -> [summary |-> Truncate(s),
                         target |-> IF s.of \in {"file_path", "path", "url"} THEN s ELSE NoText]
       [] s = NoText /\ input.shape = "null" -> NoFacts
       [] s = NoText /\ input.shape # "null" -> [summary |-> Truncate(input.string), target |-> NoText]

MatchTool(tool, input) ==
  IF tool \in KnownTools
  THEN [summary |-> Truncate(FirstText(input, SummaryKeys(tool))),
        target |-> FirstText(input, TargetKeys(tool))]
  ELSE GenericFacts(input)

Input(tool, input) == Redacted(MatchTool(tool, input))
Generic(input) == Redacted(GenericFacts(input))

\* attempted_input: what the exporter tells, under tool_input or, by its own
\* names, under tool_parameters.
OwnKeys == <<"full_command", "bash_command", "skill_name", "subagent_type", "description">>
AttemptedInput(c) ==
  CASE c.attribute = "tool_input" -> Input(c.tool.name, c.params)
    [] c.attribute = "tool_parameters" ->
         [summary |-> Coalesce(FirstText(c.params, OwnKeys), Generic(c.params).summary),
          target |-> Generic(c.params).target]
    [] OTHER -> NoFacts

-----------------------------------------------------------------------------
(* The result. *)

\* object_result: interrupted or not is all an object says of success.
ObjectResult(value) ==
  LET halted == "interrupted" \in DOMAIN value.fields /\ value.fields["interrupted"].shape = "true"
  IN [success |-> IF halted THEN "no" ELSE "yes", error_type |-> IF halted THEN "Interrupted" ELSE Null]

ResultOfShape(value) ==
  CASE value.shape = "string" -> [success |-> "no", error_type |-> "message"]
    [] value.shape = "object" -> ObjectResult(value)
    [] OTHER                  -> [success |-> Null, error_type |-> Null]

\* result: is_error, once known to be so, is the last word.
ResultTrusting(value, is_error) ==        \* mutant: an inferred error is dropped
  LET facts == ResultOfShape(value)
  IN IF is_error = Null THEN facts
     ELSE [success |-> IF is_error = "yes" THEN "no" ELSE "yes", error_type |-> facts.error_type]
Result(value, is_error) ==
  LET facts == ResultOfShape(value)
  IN CASE is_error = "yes" -> [success |-> "no",
                               error_type |-> Coalesce2(facts.error_type, "message")]
       [] is_error = "no" /\ facts.success = Null -> [facts EXCEPT !.success = "yes"]
       [] OTHER -> facts

\* content_blocks_text: texts as they are, images by name, nothing else.
ContentBlocksText(items) == SelectSeq(items, LAMBDA b : b \in {"text", "image", "bare"})

\* The keys whose text is searched, in their order; then a file's, then a
\* content that is a list of blocks.
ObjectTexts(value) ==
  SelectSeq(<<"stdout", "stderr", "content", "text", "result", "codeText", "query">>,
            LAMBDA k : IsText(value, k))
  \o SelectSeq(<<"file">>, LAMBDA k : k \in DOMAIN value.fields /\ value.fields[k].shape = "object"
                                     /\ IsText(value.fields[k], "content"))
  \o IF "content" \in DOMAIN value.fields /\ value.fields["content"].shape = "array"
     THEN ContentBlocksText(value.fields["content"].items) ELSE <<>>
ResultText(value) ==
  CASE value.shape = "string" -> <<"message">>
    [] value.shape = "array"  -> ContentBlocksText(value.items)
    [] value.shape = "object" -> ObjectTexts(value)
    [] OTHER                  -> <<>>

\* elide_binary: a string under "data", however deep.
ElideAlways(leaf) == IF leaf.key = "data" THEN [leaf EXCEPT !.bytes = 30] ELSE leaf
                                          \* mutant: small ones too
ElideBinary(leaf) == IF leaf.key = "data" /\ leaf.bytes > INLINE_BINARY_LIMIT
                     THEN [leaf EXCEPT !.bytes = 30] ELSE leaf

\* project_tool_result: the body, or a reference that says how large it was.
BodyOf(leaves) ==
  LET Bytes(n) == ElideBinary(leaves[n]).bytes
      size     == MapThenSumSet(Bytes, DOMAIN leaves)
  IN [size |-> size, by_reference |-> size > RESULT_BODY_LIMIT,
      stored |-> IF size > RESULT_BODY_LIMIT THEN REFERENCE ELSE size]

\* file_changes: the lines of a patch by their first letter; a file that was
\* made has none and is a change all the same.
FileChanges(value) ==
  IF value.shape # "object" \/ ~ IsText(value, "filePath") THEN <<>>
  ELSE LET lines == value.patch
       IN <<[added |-> Len(SelectSeq(lines, LAMBDA l : l = "+")),
             removed |-> Len(SelectSeq(lines, LAMBDA l : l = "-"))]>>

-----------------------------------------------------------------------------
(* The two lanes, each record as often as it is projected. *)

Tells(who) == told' = told \cup {who} /\ UNCHANGED call

\* project_tool_uses: newest wins, over what the exporter may have said.
TranscriptUse ==
  /\ Tells("use")
  /\ LET facts == Input(call.tool.name, call.input)
     IN columns' = [columns EXCEPT !.summary = Coalesce(facts.summary, @),
                                   !.target = Coalesce(facts.target, @),
                                   !.kind = Classify(call.tool)]

\* What is said of a call the user refused is that it failed, if anything is.
Failed == call.is_error = "yes" \/ call.result.shape = "string"
TranscriptResult ==
  /\ call.decision = "reject" => Failed
  /\ Tells("result")
  /\ columns' = [columns EXCEPT
       !.success = Coalesce2(Result(call.result, call.is_error).success, @),
       !.text = ResultText(call.result),
       !.body = BodyOf(call.result.leaves),
       !.changes = FileChanges(call.result)]

\* upsert_otel: the input fills a hole.
OtelFills(old, new) == Coalesce(new, old)    \* mutant: newest wins here too
Fills(old, new) == Coalesce(old, new)
ExporterDecides ==
  /\ Tells("decision")
  /\ LET facts == AttemptedInput(call)
     IN columns' = [columns EXCEPT
          !.summary = Fills(@, facts.summary), !.target = Fills(@, facts.target),
          !.success = IF call.decision = "reject" THEN "no" ELSE @]

NormalizeInit ==
  /\ call \in ToolCalls /\ told = {}
  /\ columns = [summary |-> NoText, target |-> NoText, success |-> Null, kind |-> Null,
                text |-> <<>>, body |-> NoBody, changes |-> <<>>]

NormalizeNext == TranscriptUse \/ TranscriptResult \/ ExporterDecides

-----------------------------------------------------------------------------
\* Once the transcript has told of a call its row says what the transcript says,
\* whoever came first and however often; where only the exporter told of it, what
\* that says; and a tool nobody knew of, or a refused call, has a summary as soon as
\* anybody gave it one (normalize.rs input, project.rs upsert_otel).
RowSaysTheCall ==
  LET own == Input(call.tool.name, call.input)
      attempt == AttemptedInput(call)
  IN \A k \in {"summary", "target"} :
       columns[k] = Coalesce(IF "use" \in told THEN own[k] ELSE NoText,
                             IF "decision" \in told THEN attempt[k] ELSE NoText)

\* An unknown tool with any argument at all has a summary, and where both lanes carry
\* the arguments under their own names they agree on it, although the exporter cuts
\* what it carries (normalize.rs generic, events.rs attempted_input).
Degrades ==
  /\ call.tool.name \notin KnownTools /\ call.input.shape # "null"
       => Input(call.tool.name, call.input).summary # NoText
  /\ call.attribute = "tool_input"
       => AttemptedInput(call).summary = Input(call.tool.name, call.input).summary

\* A summary fits the line and went through the redactor when the normalizer made
\* it. Of one the exporter gave under a name of its own nothing is said here: events.rs
\* neither cuts nor hides it, which EverySummaryPasses shows (normalize.rs redacted,
\* truncate).
SummariesFit ==
  (\/ columns.summary # NoText /\ columns.summary.of \notin ToSet(OwnKeys)
   \/ "use" \in told /\ Input(call.tool.name, call.input).summary # NoText)
    => columns.summary.size \in {"short", "cut"} /\ columns.summary.hidden

\* An error is never a success; what the tool reported as an error failed, and so did
\* what looks like one where the tool reported nothing; a call that ran has an outcome
\* unless nobody knew; a refused call is none; and the row's copy of a result is never
\* larger than it may be, elided only where it had to be. What becomes of a result that
\* looks like a failure and is reported as none is said in IsErrorTrusted
\* (normalize.rs result, elide_binary, by_reference).
OutcomeSound ==
  LET facts == Result(call.result, call.is_error)
      cut == {n \in DOMAIN call.result.leaves :
                ElideBinary(call.result.leaves[n]) # call.result.leaves[n]}
  IN /\ facts.error_type # Null => facts.success = "no"
     /\ call.is_error = "yes" => facts.success = "no"
     /\ call.is_error = Null /\ ResultOfShape(call.result).success = "no"
          => facts.success = "no"
     /\ facts.success = Null => call.is_error = Null
     /\ call.decision = "reject" /\ "decision" \in told => columns.success = "no"
     /\ columns.body.stored <= RESULT_BODY_LIMIT
     /\ \A n \in cut : call.result.leaves[n].bytes > INLINE_BINARY_LIMIT

\* What is documented of the same, and not so.
\* "is_error comes from the tool_result block when the tool set it, and is trusted over
\* anything inferred from the payload" (normalize.rs result): once a call that was
\* allowed has its result, and the tool said whether that is an error, the row says so.
IsErrorTrusted ==
  "result" \in told /\ call.is_error # Null /\ call.decision = "accept"
    => columns.success = IF call.is_error = "yes" THEN "no" ELSE "yes"

\* Secrets are stripped "at the one point every summary and target passes through"
\* (normalize.rs redacted): no text of a row got there beside it.
EverySummaryPasses ==
  \A k \in {"summary", "target"} : columns[k] # NoText => columns[k].hidden
=============================================================================
