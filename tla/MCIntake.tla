------------------------------ MODULE MCIntake ------------------------------
(* How records get into the store: the tailer of the transcripts, the sealing  *)
(* of what it stores, beside a backfill's, and what is hidden and kept of the  *)
(* texts. One of these runs and the others stand still.                        *)
EXTENDS MCTranscriptTail, SequencesExt

VARIABLE part

-----------------------------------------------------------------------------
(* Three lines of two sessions and two records of the exporter's, stored by    *)
(* the application and by a backfill, beside two rows of an earlier version.   *)

Line1(b, f, s, c, w) ==
  [body |-> b, lane |-> "transcript", ref |-> f, session |-> s, call |-> c, when |-> w]
Otlp1(b, s, c, w) ==
  [body |-> b, lane |-> "otlp", ref |-> "batch", session |-> s, call |-> c, when |-> w]

Incoming == {Line1("b1", "f1", "s1", "c1", 0), Line1("b2", "f1", "s1", "c2", 1),
             Line1("b3", "f2", "s2", "c3", 0),
             Otlp1("o1", "s1", "c1", 0), Otlp1("o2", "s2", "c3", 0)}
TwoLegacy == <<Line1("b1", "f1", "s1", "c1", 0), Line1("b3", "f2", "s2", "c3", 0)>>

VARIABLES stored, session, calls, deletions, clock, pc, unsealed, sealer, intended, history
S == INSTANCE EvidenceStore WITH
  Event <- Incoming, Session <- {"s1", "s2"}, Legacy <- TwoLegacy, Scope <- {},
  Resident <- TRUE, Commands <- {"backfill"}, MaxId <- 5, MaxClock <- 1, MaxPurges <- 0,
  rows <- stored, pending <- unsealed, plan <- intended
storevars == <<stored, session, calls, deletions, clock, pc, unsealed, sealer, intended, history>>

-----------------------------------------------------------------------------
(* Texts of up to four pieces, one of them what an earlier redaction left; a   *)
(* whole secret, a value in context, and an assignment that takes almost all.  *)

Pattern(id, head, class, least, after, group) ==
  [id |-> id, compiles |-> TRUE, head |-> head, class |-> class, least |-> least,
   tail |-> after, group |-> group]
Shipped == <<Pattern("key", <<"s">>, {"a"}, 1, <<>>, 0),
             Pattern("bearer", <<"b">>, {"s", "a"}, 2, <<>>, 1),
             Pattern("env", <<"k">>, {"s", "a", "b", "[", "]", "key"}, 1, <<>>, 1),
             Pattern("url", <<":">>, {"a", "k"}, 1, <<"b">>, 1)>>
Off == Pattern("env", <<"z">>, {"a"}, 1, <<>>, 0)
Ours == Pattern("ours", <<"t">>, {"a"}, 1, <<>>, 0)
Pieces == {<<"s">>, <<"a">>, <<"b">>, <<"k">>, <<":">>, <<"[", "key", "]">>}
Texts == {FlattenSeq(q) : q \in UNION {[1..n -> Pieces] : n \in 0..4}}

VARIABLES said, evidence_on, body, row, switches
D == INSTANCE Redactor WITH
  BuiltInPatterns <- Shipped, MarkerIds <- {"key", "bearer", "env", "url"}, Said <- Texts,
  PatternFiles <- {<<>>, <<Off, Ours>>, <<Ours, Off, [Ours EXCEPT !.compiles = FALSE]>>},
  Quote <- "q", MaxSwitches <- 1
textvars == <<said, evidence_on, body, row, switches>>

-----------------------------------------------------------------------------
(* Calls of tools that are known, new, or of a server; their arguments under   *)
(* the names each lane uses, of every length; results of every shape.          *)

Str(key, size) == [shape |-> "string", string |-> [of |-> key, size |-> size, hidden |-> FALSE]]
Obj(fields) == [shape |-> "object", fields |-> fields,
                string |-> [of |-> "json", size |-> "long", hidden |-> FALSE]]
Nothing == [shape |-> "null"]
OneKey(key, size) == Obj([k \in {key} |-> Str(key, size)])
TwoKeys(k1, k2) == Obj([k \in {k1, k2} |-> Str(k, "short")])
Named(name) == [name |-> name, mcp |-> <<>>]
Asks == {<<Named("Bash"), "command">>, <<Named("Read"), "notebook_path">>, <<Named("Agent"), "prompt">>,
         <<Named("Grep"), "pattern">>, <<Named("Bash"), "odd">>, <<Named("New"), "url">>,
         <<Named("New"), "odd">>, <<[name |-> "other", mcp |-> <<"srv", "t">>], "query">>,
         <<[name |-> "other", mcp |-> <<"srv">>], "path">>}
Body(shape, leaves) == [shape |-> shape, leaves |-> leaves, items |-> <<"text", "image">>,
                        fields |-> [k \in {"content"} |-> [shape |-> "array", items |-> <<"bare">>]],
                        patch |-> <<>>]
Leaf(key, bytes) == [key |-> key, bytes |-> bytes]
Edited == [Body("object", <<Leaf("text", 50)>>) EXCEPT
             !.patch = <<"+", "+", "-", " ">>,
             !.fields = [k \in {"filePath", "interrupted"} |->
                           IF k = "filePath" THEN Str(k, "short") ELSE [shape |-> "true"]]]
Given == {Body("string", <<Leaf("text", 5)>>), Body("array", <<Leaf("data", 11), Leaf("text", 60)>>),
          Body("array", <<Leaf("data", 10), Leaf("text", 91)>>), Body("other", <<>>),
          Body("object", <<Leaf("data", 200)>>), Body("object", <<Leaf("text", 101)>>), Edited}

ACall(tool, input, params, attribute, result, is_error, decision) ==
  [tool |-> tool, input |-> input, params |-> params, attribute |-> attribute,
   result |-> result, is_error |-> is_error, decision |-> decision]
SomeCalls ==
  {ACall(a[1], OneKey(a[2], size), OneKey(a[2], IF size = "long" THEN "mid" ELSE size),
         attribute, Body("other", <<>>), "null", "reject") :
     a \in Asks, size \in {"short", "mid", "long"}, attribute \in {"tool_input", "tool_parameters", "none"}}
  \cup {ACall(a[1], input, OneKey(k, "mid"), "tool_parameters", Body("other", <<>>), "null", d) :
          a \in Asks, k \in {"full_command", "description"}, d \in {"accept", "reject"},
          input \in {Nothing, Str("json", "short"), TwoKeys("file_path", "description")}}
  \cup {ACall(Named("Bash"), OneKey("command", "short"), Nothing, "none", r, e, d) :
          r \in Given, e \in {"null", "yes", "no"}, d \in {"accept", "reject"}}

VARIABLES call, columns, told
N == INSTANCE Normalize WITH
  ToolCalls <- SomeCalls, INLINE_BINARY_LIMIT <- 10, RESULT_BODY_LIMIT <- 100, REFERENCE <- 20
callvars == <<call, columns, told>>

-----------------------------------------------------------------------------

Stands(v) == v = "unused"

\* What has begun and what stands still, for the part there is.
IntakeBegun ==
  /\ Init
  /\ IF part = "store" THEN S!Init
     ELSE /\ Stands(stored) /\ Stands(session) /\ Stands(calls) /\ Stands(deletions)
          /\ Stands(clock) /\ Stands(pc) /\ Stands(unsealed) /\ Stands(sealer)
          /\ Stands(intended) /\ Stands(history)
  /\ IF part = "texts" THEN D!RedactorInit
     ELSE Stands(said) /\ Stands(evidence_on) /\ Stands(body) /\ Stands(row) /\ Stands(switches)
  /\ IF part = "calls" THEN N!NormalizeInit ELSE Stands(call) /\ Stands(columns) /\ Stands(told)

IntakeInit == part \in {"tail", "store", "texts", "calls"} /\ IntakeBegun

\* The tailer always has something to do; the sealers may have nothing more.
IntakeNext ==
  /\ UNCHANGED part
  /\ \/ part = "tail" /\ Next /\ UNCHANGED <<storevars, textvars, callvars>>
     \/ part = "store" /\ S!Next /\ UNCHANGED <<vars, textvars, callvars>>
     \/ part = "store" /\ UNCHANGED <<vars, storevars, textvars, callvars>>
     \/ part = "texts" /\ D!RedactorNext /\ UNCHANGED <<vars, storevars, callvars>>
     \/ part = "calls" /\ N!NormalizeNext /\ UNCHANGED <<vars, storevars, textvars>>

\* The fairness is the tail's, while it runs.
Tailing(B) == part = "tail" /\ B
TailFairness == /\ WF_vars(Tailing(Start)) /\ SF_vars(Tailing(Sweep))
                /\ WF_vars(Tailing(Submit)) /\ WF_vars(Tailing(SubmitCatchUp))
                /\ WF_vars(Tailing(Writer))

intakevars == <<vars, storevars, textvars, callvars>>

IntakeSpec == IntakeInit /\ [][IntakeNext]_<<part, intakevars>> /\ TailFairness

-----------------------------------------------------------------------------
(* The properties; the tail's are named in the configuration as they are.      *)

\* Two processes that store and seal beside each other store a body once and never
\* seal a row twice, legacy rows included (EvidenceStore, of raw.rs and chain.rs).
SealersAgree == [](part = "store" => S!OneRowPerBody)
                /\ [][part = "store" => S!SealsOnce]_storevars

\* A text is hidden in one pass that nothing cascades from, by the patterns the user
\* left in force; and a row says of a call what the lane that knows it best says,
\* for any tool and any shape of result (Redactor, Normalize).
TextsAreKept ==
  /\ part = "texts" => D!EachMatchOnce /\ D!HiddenOnce /\ D!PatternsInForce
  /\ part = "calls" => N!RowSaysTheCall /\ N!Degrades /\ N!SummariesFit /\ N!OutcomeSound

\* The two that are documented and not so, where there are calls: a result that was
\* reported as none of an error is none (normalize.rs result), and no summary and no
\* target passes beside the redactor (normalize.rs redacted).
IsErrorTrusted == part = "calls" => N!IsErrorTrusted
EverySummaryPasses == part = "calls" => N!EverySummaryPasses
=============================================================================
