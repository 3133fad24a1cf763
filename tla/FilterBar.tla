------------------------------ MODULE FilterBar ------------------------------
(* The one question the window asks, in the places it is kept                 *)
(* (ui/src/query.ts, view.ts, filterbar.ts, main.ts, and timeline.ts apply):  *)
(* the text in the filter box, the view the box holds, the view the timeline  *)
(* holds, the view the application holds, and the address with its history.   *)
(* The reader types, presses Enter or Escape, takes a completion, brushes the *)
(* chart, narrows from the pane, opens a call from the risk screen, goes back *)
(* and forward; a typed text is only read when its delay has run.             *)
(*                                                                            *)
(* Text is a sequence of characters, because quoting is the point; a key is   *)
(* one letter: t tool_name, d decision, o outcome, l lane, r risk.            *)
EXTENDS Integers, Sequences, FiniteSets, SequencesExt, TLC

CONSTANTS
  Typed,      \* what a reader may type
  Value,      \* what the store offers for a key of text
  Call,       \* calls that can be selected
  Instant,    \* ends of ranges, as the address writes them
  MaxHistory  \* bound: on the entries of the address's history

VARIABLES
  box,        \* the text in the box
  timer,      \* a reading of it is due
  bar,        \* the view FilterBar holds
  view,       \* the view TimelineView holds
  app,        \* the view main.ts holds
  screen,     \* the screen it shows
  history,    \* the addresses, oldest first
  at          \* which of them is current

fvars == <<box, timer, bar, view, app, screen, history, at>>

NULL == <<"null">>
Space == " "
Quote == "\""
Slash == "\\"

Word == {"tool_name", "decision"}
Fields == Word \cup {"risk", "success", "provenance", "since", "until", "query"}

EmptyFilter == [k \in Fields |-> NULL]
EmptyView == [filter |-> EmptyFilter, selected |-> NULL]

-----------------------------------------------------------------------------
(* Reading a text. *)

NextSpace(text, i) ==
  CHOOSE j \in i..(Len(text) + 1) :
    /\ j <= Len(text) => text[j] = Space
    /\ \A k \in i..(j - 1) : text[k] # Space

\* readValue: up to a space, or up to the closing quote with \ escaping.
ReadValue(text, i) ==
  LET Q[j \in 1..(Len(text) + 2)] ==
        IF j > Len(text) THEN [value |-> <<>>, end |-> Len(text) + 1, quoted |-> TRUE]
        ELSE IF text[j] = Slash /\ j < Len(text)
          THEN [Q[j + 2] EXCEPT !.value = <<text[j + 1]>> \o @]
        ELSE IF text[j] = Quote THEN [value |-> <<>>, end |-> j + 1, quoted |-> TRUE]
        ELSE [Q[j + 1] EXCEPT !.value = <<text[j]>> \o @]
  IN IF i <= Len(text) /\ text[i] = Quote THEN Q[i + 1]
     ELSE [value |-> SubSeq(text, i, NextSpace(text, i) - 1),
           end |-> NextSpace(text, i), quoted |-> FALSE]

Token(kind, key, read) ==
  [kind |-> kind, key |-> key, value |-> read.value, quoted |-> read.quoted,
   end |-> read.end]

\* tokenize, one token: @key:value, @key alone, or a run of text.
TokenAt(text, i) ==
  LET wordEnd == NextSpace(text, i)
      colons  == {j \in i..(wordEnd - 1) : text[j] = ":"}
      colon   == CHOOSE j \in colons : \A k \in colons : j <= k
  IN IF text[i] # "@" THEN Token("text", <<>>, ReadValue(text, i))
     ELSE IF colons = {}
       THEN Token("pair", SubSeq(text, i + 1, wordEnd - 1),
                  [value |-> <<>>, end |-> wordEnd, quoted |-> FALSE])
     ELSE Token("pair", SubSeq(text, i + 1, colon - 1), ReadValue(text, colon + 1))

Tokenize(text) ==
  LET From[i \in 1..(Len(text) + 1)] ==
        IF i > Len(text) THEN <<>>
        ELSE IF text[i] = Space THEN From[i + 1]
        ELSE <<TokenAt(text, i)>> \o From[TokenAt(text, i).end]
  IN From[1]

Outcomes == {<<"k">>, <<"f">>, <<"r">>}   \* ok, failed, refused
Lanes == {<<"b">>, <<"t">>, <<"o">>}      \* both, transcript, otel
Severities == {<<"h">>, <<"m">>}
Keys == {<<"t">>, <<"d">>, <<"o">>, <<"l">>, <<"r">>}

\* withLane and laneOf: a lane is the bits of a row's provenance.
Bits == (<<"b">> :> <<"3">>) @@ (<<"t">> :> <<"1">>) @@ (<<"o">> :> <<"2">>)
LaneOf(f) == CHOOSE l \in Lanes : Bits[l] = f.provenance

\* apply: one pair, written into the filter; a value its key does not take is
\* an error and changes nothing.
ApplyPair(f, key, value) ==
  CASE key = <<"t">> -> [f EXCEPT !.tool_name = value]
    [] key = <<"d">> -> [f EXCEPT !.decision = value]
    [] key = <<"r">> /\ value \in Severities -> [f EXCEPT !.risk = value]
    [] key = <<"l">> /\ value \in Lanes -> [f EXCEPT !.provenance = Bits[value]]
    [] key = <<"o">> /\ value = <<"r">> -> [f EXCEPT !.decision = <<"r", "e", "j">>]
    [] key = <<"o">> /\ value \in Outcomes \ {<<"r">>} ->
         [f EXCEPT !.success = IF value = <<"k">> THEN <<"true">> ELSE <<"false">>]
    [] OTHER -> f

Takes(t) == t.kind = "pair" /\ t.key \in Keys /\ (t.value # <<>> \/ t.quoted)

\* parse: the pairs in their order, and the words joined by one space. (What it
\* says of a token it cannot use is left out.)
Parse(text) ==
  LET tokens == Tokenize(text)
      pairs  == SelectSeq(tokens, Takes)
      words  == SelectSeq(tokens, LAMBDA t : t.kind = "text")
      F[n \in 0..Len(pairs)] ==
        IF n = 0 THEN EmptyFilter ELSE ApplyPair(F[n - 1], pairs[n].key, pairs[n].value)
      Joined[n \in 0..Len(words)] ==
        IF n = 0 THEN <<>>
        ELSE IF n = 1 THEN words[1].value
        ELSE Joined[n - 1] \o <<Space>> \o words[n].value
  IN [F[Len(pairs)] EXCEPT !.query = IF words = <<>> THEN NULL ELSE Joined[Len(words)]]

-----------------------------------------------------------------------------
(* Writing one. *)

\* quote: a value that would not survive being read back unquoted.
Escaped(value) ==
  FlattenSeq([i \in 1..Len(value) |->
    IF value[i] \in {Slash, Quote} THEN <<Slash, value[i]>> ELSE <<value[i]>>])
QuotedSpaces(value) ==                    \* mutant: a leading @ is left bare
  IF value # <<>> /\ ~Contains(value, Space) /\ ~Contains(value, Quote)
  THEN value ELSE <<Quote>> \o Escaped(value) \o <<Quote>>
Quoted(value) ==
  IF value # <<>> /\ ~Contains(value, Space) /\ ~Contains(value, Quote) /\ value[1] # "@"
  THEN value ELSE <<Quote>> \o Escaped(value) \o <<Quote>>

Pair(key, value) == <<"@", key, ":">> \o Quoted(value)

\* format: every field the box can say, in the keys' order, and the words last.
\* A refusal is an outcome, not a decision.
Format(f) ==
  LET refused == f.decision = <<"r", "e", "j">>
      When(p, text) == IF p THEN <<text>> ELSE <<>>
      parts == When(f.tool_name # NULL, Pair("t", f.tool_name))
               \o When(f.decision # NULL /\ ~refused, Pair("d", f.decision))
               \o When(f.risk # NULL, Pair("r", f.risk))
               \o When(refused, Pair("o", <<"r">>))
               \o When(f.success # NULL,
                       Pair("o", IF f.success = <<"true">> THEN <<"k">> ELSE <<"f">>))
               \o When(f.provenance # NULL, Pair("l", LaneOf(f)))
               \o When(f.query \notin {NULL, <<>>}, Quoted(f.query))
  IN FlattenSeq([i \in 1..Len(parts) |->
       IF i = 1 THEN parts[i] ELSE <<Space>> \o parts[i]])

-----------------------------------------------------------------------------
(* The address. *)

\* toHash: the fields that are set, under their short names, and the call;
\* hashFor adds the screen.
HashFor(s, v) ==
  LET set == {k \in Fields : v.filter[k] # NULL}
  IN [k \in set \cup (IF v.selected = NULL THEN {} ELSE {"call"})
                \cup (IF s = "timeline" THEN {} ELSE {"v"}) |->
        CASE k = "call" -> v.selected [] k = "v" -> <<s>> [] OTHER -> v.filter[k]]

\* fromHash and screenFromHash
FromHash(h) ==
  [filter   |-> [k \in Fields |-> IF k \in DOMAIN h THEN h[k] ELSE NULL],
   selected |-> IF "call" \in DOMAIN h THEN h["call"] ELSE NULL]
ScreenFromHash(h) == IF "v" \in DOMAIN h THEN h["v"][1] ELSE "timeline"

\* writeHash: a new entry after the current one, unless it says the same.
WriteHash(s, v) ==
  IF HashFor(s, v) = history[at] THEN UNCHANGED <<history, at>>
  ELSE /\ at < MaxHistory
       /\ history' = Append(SubSeq(history, 1, at), HashFor(s, v))
       /\ at' = at + 1

-----------------------------------------------------------------------------
(* A change of the view, wherever it comes from. *)

\* FilterBar.setView: the box is rewritten unless it already says the filter.
SaysSame(text, f) == Parse(text) = Parse(Format(f))
SetView(v, text) ==
  box' = IF Parse(text).query # v.filter.query \/ ~SaysSame(text, v.filter)
         THEN Format(v.filter) ELSE text

\* TimelineView.apply, with push, and main's onViewChange behind it. (What it
\* loads is Timeline's.)
Apply(v, text) ==
  /\ view' = v /\ bar' = v /\ app' = v
  /\ SetView(v, text)
  /\ WriteHash(screen, v)
  /\ UNCHANGED screen

Type(text) == box' = text /\ timer' = TRUE /\ UNCHANGED <<bar, view, app, screen, history, at>>

\* commit: the box says everything but the range, which stays.
RangeForgotten(f) == f                    \* mutant: since and until are not kept
RangeKept(f) == [f EXCEPT !.since = bar.filter.since, !.until = bar.filter.until]
Commit(text) == Apply([filter |-> RangeKept(Parse(text)), selected |-> NULL], text)

Elapse == timer /\ timer' = FALSE /\ Commit(box)
Enter  == timer' = FALSE /\ Commit(box)
\* Escape empties the box; a reading already due still comes.
Escape == Commit(<<>>) /\ UNCHANGED timer

\* accept: a completion in place of the last token, which commits.
Accept(key, value) ==
  LET tokens == Tokenize(box)
      before == IF tokens = <<>> THEN <<>>
                ELSE IF Len(tokens) = 1 THEN <<>>
                ELSE SubSeq(box, 1, tokens[Len(tokens) - 1].end - 1) \o <<Space>>
  IN /\ tokens # <<>> /\ tokens[Len(tokens)].kind = "pair"
     /\ Commit(before \o Pair(key, value) \o <<Space>>)
     /\ UNCHANGED timer

\* The links and menus: clear, the preset range, the chart's brush, the pane.
Clear == Apply([filter |-> EmptyFilter, selected |-> NULL], <<>>) /\ UNCHANGED timer
Since(t) ==
  /\ Apply([filter |-> [bar.filter EXCEPT !.since = t, !.until = NULL], selected |-> NULL], box)
  /\ UNCHANGED timer
Brush(s, u) ==
  /\ Apply([filter |-> [view.filter EXCEPT !.since = s, !.until = u], selected |-> NULL], box)
  /\ UNCHANGED timer
Narrow(k, value) ==
  /\ view.selected # NULL
  /\ Apply([filter |-> [view.filter EXCEPT ![k] = value], selected |-> NULL], box)
  /\ UNCHANGED timer

\* select and closeDetail go past the box.
Selecting(c) ==
  /\ screen = "timeline"
  /\ view' = [view EXCEPT !.selected = c]
  /\ app' = view'
  /\ WriteHash(screen, view')
  /\ UNCHANGED <<box, timer, bar, screen>>
Select(c) == c # view.selected /\ Selecting(c)
CloseDetail == view.selected # NULL /\ Selecting(NULL)

\* openCall and openQuery, from the risk screen: show, then apply.
Open(v) ==
  /\ screen = "risk"
  /\ screen' = "timeline"
  /\ view' = v /\ bar' = v /\ app' = v
  /\ SetView(v, box)
  /\ WriteHash("timeline", v)
  /\ UNCHANGED timer
OpenCall(c) == Open([app EXCEPT !.selected = c])
OpenQuery(text) == Open([filter |-> Parse(text), selected |-> NULL])

Show(s) ==
  /\ s # screen
  /\ screen' = s
  /\ WriteHash(s, app)
  /\ UNCHANGED <<box, timer, bar, view, app>>

\* popstate: the address is read, the screen shown and the view applied, none
\* of which may write the address anew.
Travel(to) ==
  /\ to \in DOMAIN history /\ to # at
  /\ LET v == FromHash(history[to])
         s == ScreenFromHash(history[to])
     IN /\ screen' = s
        /\ view' = v /\ bar' = v /\ app' = v
        /\ SetView(v, box)
        /\ IF HashFor(s, v) = history[to] THEN at' = to /\ UNCHANGED history
           ELSE /\ history' = Append(SubSeq(history, 1, to), HashFor(s, v))
                /\ at' = to + 1
  /\ UNCHANGED timer

FilterBarInit ==
  /\ box = <<>> /\ timer = FALSE
  /\ bar = EmptyView /\ view = EmptyView /\ app = EmptyView
  /\ screen = "timeline"
  /\ history = <<HashFor("timeline", EmptyView)>> /\ at = 1

FilterBarNext ==
  \/ \E text \in Typed : Type(text)
  \/ Elapse
  \/ Enter
  \/ Escape
  \/ \E v \in Value : Accept("t", v)
  \/ Clear
  \/ \E t \in Instant : Since(t)
  \/ \E s, u \in Instant : Brush(s, u)
  \/ \E v \in Value : Narrow("tool_name", v)
  \/ \E c \in Call : Select(c)
  \/ CloseDetail
  \/ \E c \in Call : OpenCall(c)
  \/ \E text \in Typed : OpenQuery(text)
  \/ \E s \in {"timeline", "risk"} : Show(s)
  \/ Travel(at - 1)
  \/ Travel(at + 1)

FilterBarSpec == FilterBarInit /\ [][FilterBarNext]_fvars

-----------------------------------------------------------------------------
(* The properties. *)

\* No words and no searchable words are one filter to the store.
Asked(f) == [f EXCEPT !.query = IF @ = <<>> THEN NULL ELSE @]
Sayable(f) == [Asked(f) EXCEPT !.since = NULL, !.until = NULL]

\* The copies of the view never part: whatever came from the box, the chart,
\* the pane, the risk screen or the address, the timeline, the application and
\* the address hold one view, and the box's own copy has its filter
\* (TimelineView.apply, closeDetail, select; main.ts onViewChange, popstate).
OneView ==
  /\ app = view
  /\ FromHash(history[at]) = view /\ ScreenFromHash(history[at]) = screen
  /\ bar.filter = view.filter

\* Once no reading is due, the box says what the list is filtered by, all but
\* its range: a filter set from elsewhere rewrote it (setView, saysSame).
BoxSaysFilter == ~timer => Asked(Parse(box)) = Sayable(view.filter)

\* What the box is rewritten to reads back as the filter it stands for, spaces,
\* quotes, backslashes and a leading @ included (format, quote, parse).
RoundTrip == Asked(Parse(Format(view.filter))) = Sayable(view.filter)

FilterBarInv == OneView /\ BoxSaysFilter /\ RoundTrip

\* Going back and forward never writes the history it travels, and a text that
\* is read keeps the range the timeline's own copy has, though it is the box's
\* that is read (popstate, writeHash, commit).
HistoryKept ==
  /\ (Travel(at - 1) \/ Travel(at + 1)) => history' = history
  /\ (Elapse \/ Enter) => /\ view'.filter.since = view.filter.since
                           /\ view'.filter.until = view.filter.until
TravelKeepsHistory == [][HistoryKept]_fvars
=============================================================================
