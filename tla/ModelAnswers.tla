----------------------------- MODULE ModelAnswers -----------------------------
(* How one command becomes a verdict (toolog-llm prompt.rs, engine.rs and      *)
(* verdict.rs): the block the command is shown in, the worker that owns the    *)
(* model and keeps the instructions in its context between questions, the      *)
(* answer taken piece by piece under the grammar, and the check of what came   *)
(* out of it. A decode may fail anywhere; the worker goes on.                  *)
(*                                                                             *)
(* A command is a sequence of characters: those of the markers, of which C     *)
(* stands for their word, "w" for one that takes two tokens, "a" for any       *)
(* other, and what sanitize puts there. The context is the set of its cells: a *)
(* position, and whose token is there.                                         *)
EXTENDS Integers, Sequences, FiniteSets, SequencesExt

Char == {"a", "w", "C", "<", ">", "_", "..."}

CONSTANTS
  Commands,          \* the commands asked about, in any order and again
  Prefix,            \* tokens of the instructions
  N_CTX,             \* positions of the context
  PREFILL_CHUNK,     \* tokens decoded at once
  MAX_ANSWER_TOKENS, \* of one answer
  COMMAND_LIMIT,     \* characters of a command shown
  SUMMARY_LIMIT,     \* pieces of a summary
  MaxAsks            \* bound on the questions

ASSUME AnswersAssumption ==
  /\ Commands \subseteq Seq(Char)
  /\ Prefix \in Nat \ {0} /\ N_CTX \in Nat /\ Prefix < N_CTX
  /\ PREFILL_CHUNK \in Nat \ {0} /\ MAX_ANSWER_TOKENS \in Nat \ {0}
  /\ COMMAND_LIMIT \in Nat /\ SUMMARY_LIMIT \in Nat /\ MaxAsks \in Nat

VARIABLES
  cache,     \* the cells: [pos, of]
  worker,    \* [at, ask, fed, past, out]: what the thread is doing
  asks,      \* the questions so far, in order
  answers,   \* what was replied to each: [verdict, raw]
  unread     \* observation only: questions a decode failed for

avars == <<cache, worker, asks, answers, unread>>

-----------------------------------------------------------------------------
(* The prompt. *)

OPEN == <<"<", "<", "<", "C">>
CLOSE == <<"C", ">", ">", ">">>
TRUNCATED == <<"...">>

\* str::replace of a marker by one that differs in its k-th character. A marker
\* does not overlap itself, so every occurrence is replaced.
Marked(text, s, at) ==
  at \in 1..(Len(text) - Len(s) + 1) /\ \A j \in 1..Len(s) : text[at + j - 1] = s[j]
Replaced(text, s, k) ==
  [i \in 1..Len(text) |-> IF Marked(text, s, i - k + 1) THEN "_" ELSE text[i]]

\* sanitize: the markers are broken, and then the text is cut.
Broken(text) == Replaced(Replaced(text, CLOSE, 3), OPEN, 2)
CommandBody(text) == IF Len(Broken(text)) > COMMAND_LIMIT
                     THEN SubSeq(Broken(text), 1, COMMAND_LIMIT) \o TRUNCATED
                     ELSE Broken(text)

\* A token for each character, and one more for each that takes two.
Suffix == 1
Long(text) == {i \in 1..Len(text) : text[i] = "w"}
TailTokens(text) == Suffix + Len(CommandBody(text)) + Cardinality(Long(CommandBody(text)))

-----------------------------------------------------------------------------
(* The answer, in pieces. A brace is a piece of the summary that ends in one.  *)

SummaryOf(out) == SelectSeq(out, LAMBDA p : p \in {"text", "brace"})

\* verdict.gbnf: what may follow. The summary may be anything, or nothing.
Grammar(out) ==
  IF out = <<>> THEN {"open"}
  ELSE CASE Last(out) \in {"open", "text", "brace"} ->
              {"fields"} \cup (IF Len(SummaryOf(out)) < SUMMARY_LIMIT THEN {"text", "brace"}
                               ELSE {})
         [] Last(out) = "fields" -> {"close"}
         [] OTHER -> {}

\* out.trim_end().ends_with('}')
EndsWithBrace(out) == out # <<>> /\ Last(out) \in {"brace", "close"}

\* parse: the object from its first brace to its last.
ParseLoosely(out) == IF SummaryOf(out) = <<>> THEN "empty summary" ELSE "ok"
                                          \* mutant: what is there will do
Parse(out) ==
  IF ~EndsWithBrace(out) /\ "brace" \notin ToSet(out) THEN "no JSON"
  ELSE IF Last(out) # "close" THEN "not JSON"
  ELSE IF SummaryOf(out) = <<>> THEN "empty summary"
  ELSE "ok"

-----------------------------------------------------------------------------
(* The worker. *)

Fresh(at, ask) == [at |-> at, ask |-> ask, fed |-> 0, past |-> 0, out |-> <<>>]
Unasked == Fresh("idle", 0)
Cells(from, n, owner) == [pos : from..(from + n - 1), of : {owner}]
Smaller(a, b) == IF a <= b THEN a ELSE b

\* worker: the instructions are fed once, before the first job.
Loads ==
  /\ worker.at = "loading"
  /\ cache' = Cells(0, Prefix, 0)
  /\ worker' = Unasked
  /\ UNCHANGED <<asks, answers, unread>>

\* analyze: a question, and the thread takes it up.
AsksFor(command) ==
  /\ worker.at = "idle" /\ Len(asks) < MaxAsks
  /\ asks' = Append(asks, command)
  /\ answers' = Append(answers, [verdict |-> "none", raw |-> <<>>])
  /\ worker' = Fresh("clearing", Len(asks) + 1)
  /\ UNCHANGED <<cache, unread>>

Replies(verdict, raw) ==
  /\ answers' = [answers EXCEPT ![worker.ask] = [verdict |-> verdict, raw |-> raw]]
  /\ worker' = Unasked
  /\ UNCHANGED asks

\* clear_kv_cache_seq: all after the instructions, whoever left it there.
KeptOld(cells) == cells                   \* mutant: nothing is cleared
Kept(cells) == {c \in cells : c.pos < Prefix}

\* A question that would leave no room for an answer is refused.
Fits(tail) == Prefix + tail < N_CTX

Clears ==
  /\ worker.at = "clearing"
  /\ cache' = Kept(cache)
  /\ IF Fits(TailTokens(asks[worker.ask]))
     THEN /\ worker' = [worker EXCEPT !.at = "feeding", !.past = Prefix]
          /\ UNCHANGED <<asks, answers>>
     ELSE Replies("does not fit", <<>>)
  /\ UNCHANGED unread

\* feed: a chunk at a time. What a decode that fails leaves behind is anything.
Chunk == Smaller(TailTokens(asks[worker.ask]) - worker.fed, PREFILL_CHUNK)

Feeds ==
  /\ worker.at = "feeding"
  /\ cache' = cache \cup Cells(worker.past, Chunk, worker.ask)
  /\ worker' = [worker EXCEPT !.fed = @ + Chunk, !.past = @ + Chunk,
                              !.at = IF worker.fed + Chunk = TailTokens(asks[worker.ask])
                                     THEN "sampling" ELSE "feeding"]
  /\ UNCHANGED <<asks, answers, unread>>

DecodeFails ==
  /\ worker.at \in {"feeding", "decoding"}
  /\ \E n \in {0, IF worker.at = "feeding" THEN Chunk ELSE 1} :
       cache' = cache \cup Cells(worker.past, n, worker.ask)
  /\ unread' = unread \cup {worker.ask}
  /\ Replies("decode failed", <<>>)

\* one: the loop that takes the next piece, while there is room.
Limit == Smaller(Prefix + TailTokens(asks[worker.ask]) + MAX_ANSWER_TOKENS, N_CTX - 1)

Samples ==
  /\ worker.at = "sampling" /\ worker.past < Limit
  /\ \E piece \in Grammar(worker.out) :
       LET out == Append(worker.out, piece)
       IN IF EndsWithBrace(out) THEN Replies(Parse(out), out)
          ELSE /\ worker' = [worker EXCEPT !.out = out, !.at = "decoding"]
               /\ UNCHANGED <<asks, answers>>
  /\ UNCHANGED <<cache, unread>>

Decodes ==
  /\ worker.at = "decoding"
  /\ cache' = cache \cup Cells(worker.past, 1, worker.ask)
  /\ worker' = [worker EXCEPT !.at = "sampling", !.past = @ + 1]
  /\ UNCHANGED <<asks, answers, unread>>

RunsOut ==
  /\ worker.at = "sampling" /\ worker.past >= Limit
  /\ Replies(Parse(worker.out), worker.out)
  /\ UNCHANGED <<cache, unread>>

AnswersInit ==
  /\ cache = {} /\ worker = Fresh("loading", 0)
  /\ asks = <<>> /\ answers = <<>> /\ unread = {}

AnswersNext ==
  \/ Loads \/ Clears \/ Feeds \/ DecodeFails \/ Samples \/ Decodes \/ RunsOut
  \/ \E command \in Commands : AsksFor(command)

AnswersSpec == AnswersInit /\ [][AnswersNext]_avars

-----------------------------------------------------------------------------
(* The properties. *)

\* What the model has before it when it answers is the instructions and its own
\* question and answer so far, each position once and within the context: nothing
\* of an earlier question, one that failed half-way included, is left, and the
\* markers around the command are the prompt's own (engine.rs feed and one,
\* prompt.rs sanitize).
AnswersToItsOwn ==
  /\ \A c \in cache : c.pos \in 0..(N_CTX - 1)
  /\ worker.at = "sampling" =>
       cache = Cells(0, Prefix, 0) \cup Cells(Prefix, worker.past - Prefix, worker.ask)
  /\ \A i \in 1..Len(asks) : \A s \in {OPEN, CLOSE} :
       \A at \in 1..Len(CommandBody(asks[i])) : ~Marked(CommandBody(asks[i]), s, at)

\* A verdict is kept of exactly the answers that are whole and say something, and
\* any other answer has a reason that can be named: the question did not fit, a
\* decode failed, the summary was empty, the room ran out, or a piece of the
\* summary ended in a brace, which the worker takes for the end of the answer
\* (engine.rs one, verdict.rs parse).
WholeAndSaysSomething(out) ==
  out # <<>> /\ Last(out) = "close" /\ SummaryOf(out) # <<>>
RoomFor(i) == Smaller(MAX_ANSWER_TOKENS, N_CTX - 1 - Prefix - TailTokens(asks[i]))

FailsForAReason ==
  \A i \in 1..Len(asks) :
    LET said == answers[i].verdict
        raw  == answers[i].raw
    IN said # "none" =>
         /\ (said = "ok") <=> WholeAndSaysSomething(raw)
         /\ (said = "does not fit") <=> Prefix + TailTokens(asks[i]) >= N_CTX
         /\ (said = "decode failed") <=> i \in unread
         /\ said \in {"no JSON", "not JSON"} =>
              raw = <<>> \/ Last(raw) = "brace" \/ Len(raw) = RoomFor(i)

\* What the model answers it answers to its own question, and a verdict is kept of
\* exactly the whole answers (engine.rs, prompt.rs, verdict.rs).
AnswersKept == AnswersToItsOwn /\ FailsForAReason
=============================================================================
