------------------------------ MODULE Redactor ------------------------------
(* What is hidden of a text, and when: toolog-core redact.rs, with the places *)
(* that call it: insert of raw.rs, before a record is stored, and the         *)
(* normalizers, before it is projected.                                       *)
(*                                                                            *)
(* A text is a sequence of letters. A pattern is what the shipped ones are: a *)
(* head, a run of letters of a class, a tail; the run or all of it goes.      *)
EXTENDS Integers, Sequences, FiniteSets, SequencesExt, FiniteSetsExt

CONSTANTS
  BuiltInPatterns, \* [id, compiles, head, class, least, tail, group]
  PatternFiles,    \* what a user's file may hold: patterns, in their order
  MarkerIds,       \* ids that the marker's own pattern knows
  Said,            \* the texts that are recorded
  Quote,           \* the letter a string of a record stands between
  MaxSwitches      \* bound: on changes of the preference

VARIABLES
  said,        \* the text of the record, before anything reads it
  evidence_on, \* REDACT_EVIDENCE
  body,        \* the evidence: what was stored of it, or NoBody
  row,         \* the projection: what was written of it, or NoBody
  switches

textvars == <<said, evidence_on, body, row, switches>>
NoBody == <<"none">>

-----------------------------------------------------------------------------
(* The patterns in force. *)

\* load: the user's word on an id, else the shipped one; then those that compile.
DeclaredBeside(user) == BuiltInPatterns \o user      \* mutant: added, not replaced
Declared(user) ==
  LET Put(rules, p) == IF \E n \in DOMAIN rules : rules[n].id = p.id
                       THEN [n \in DOMAIN rules |-> IF rules[n].id = p.id THEN p ELSE rules[n]]
                       ELSE Append(rules, p)
  IN FoldLeft(Put, BuiltInPatterns, user)
Compiled(declared) == SelectSeq(declared, LAMBDA p : p.compiles)

\* active: nobody installs another, so it is the shipped set.
Active == Compiled(Declared(<<>>))

-----------------------------------------------------------------------------
(* One text. A span is [from, upto, id]: from the letter from to before upto. *)

Holds(part, t, i) == /\ i + Len(part) <= Len(t) + 1
                     /\ SubSeq(t, i, i + Len(part) - 1) = part

\* How long the run may be for a match at i.
Runs(p, t, i) ==
  LET first == i + Len(p.head)
  IN IF ~Holds(p.head, t, i) THEN {}
     ELSE {n \in p.least..(Len(t) + 1 - first) :
             /\ \A k \in first..(first + n - 1) : t[k] \in p.class
             /\ Holds(p.tail, t, first + n)}

\* captures_iter: from left to right, none beginning inside another; of each,
\* the group that goes.
Captures(p, t) ==
  LET Look(acc, i) ==
        LET runs  == Runs(p, t, i)
            first == i + Len(p.head)
            after == first + Max(runs)
            past  == after + Len(p.tail)
        IN IF i < acc.next \/ runs = {} THEN acc
           ELSE [next  |-> past,
                 spans |-> acc.spans \cup
                   {IF p.group = 1 THEN [from |-> first, upto |-> after, id |-> p.id]
                    ELSE [from |-> i, upto |-> past, id |-> p.id]}]
  IN FoldLeft(Look, [next |-> 1, spans |-> {}], [i \in 1..Len(t) |-> i]).spans

Overlap(s, r) == s.from < r.upto /\ r.from < s.upto

\* What an earlier redaction left in the text.
Marker(id) == <<"[", id, "]">>
NoneKept(t) == {}                         \* mutant: markers are text like any other
Kept(t) == {[from |-> i, upto |-> i + 3, id |-> ""] :
              i \in {i \in DOMAIN t : \E id \in MarkerIds : Holds(Marker(id), t, i)}}

\* text: the spans of all patterns on the text as it came, the earlier winning.
SpansEach(patterns, t) == UNION {Captures(patterns[n], t) : n \in DOMAIN patterns}
                                          \* mutant: whatever overlaps
Spans(patterns, t) ==
  LET Free(spans, s) == IF \E r \in spans : Overlap(s, r) THEN spans ELSE spans \cup {s}
      Add(spans, p)  == FoldSet(LAMBDA s, all : Free(all, s), spans, Captures(p, t))
  IN FoldLeft(Add, Kept(t), patterns) \ Kept(t)

TextOfSpans(t, spans) ==
  FlattenSeq([i \in DOMAIN t |->
    IF \E s \in spans : s.from = i
    THEN Marker((CHOOSE s \in spans : s.from = i).id)
    ELSE IF \E s \in spans : s.from < i /\ i < s.upto THEN <<>> ELSE <<t[i]>>])

\* One pattern after the other, each on what the one before left.
TextCascaded(patterns, t) ==              \* mutant: as the comment says it once was
  FoldLeft(LAMBDA out, p : TextOfSpans(out, Captures(p, out)), t, patterns)
Text(patterns, t) == TextOfSpans(t, Spans(patterns, t))

-----------------------------------------------------------------------------
(* A record's way: stored, then projected, as often as it is rebuilt.         *)

\* A string stands in its record between quotes, and is read from between them.
InRecord(t) == <<Quote>> \o t \o <<Quote>>
OfRecord(b) == SubSeq(b, 2, Len(b) - 1)

SetEvidenceRedaction ==
  /\ switches < MaxSwitches /\ switches' = switches + 1
  /\ evidence_on' = ~evidence_on
  /\ UNCHANGED <<said, body, row>>

\* insert: redacted on the way in only if asked for.
Evidence(t) == IF evidence_on THEN Text(Active, t) ELSE t
StoreRecord ==
  /\ body = NoBody
  /\ body' = Evidence(InRecord(said))
  /\ UNCHANGED <<said, evidence_on, row, switches>>

\* json, in_place: each string of the record that reaches a column.
ProjectRecord ==
  /\ body # NoBody
  /\ row' = Text(Active, OfRecord(body))
  /\ UNCHANGED <<said, evidence_on, body, switches>>

RedactorInit == said \in Said /\ evidence_on = FALSE /\ body = NoBody /\ row = NoBody
                /\ switches = 0
RedactorNext == SetEvidenceRedaction \/ StoreRecord \/ ProjectRecord

-----------------------------------------------------------------------------
\* A match an earlier span overlaps is left out and may stick out of it: what is
\* left of it may match again the next time.
Crossed(t) ==
  LET taken == Spans(Active, t) \cup Kept(t)
  IN \E n \in DOMAIN Active : \E c \in Captures(Active[n], t) :
       ~ \E s \in taken : s.from <= c.from /\ c.upto <= s.upto

\* Every match of every pattern is replaced or cut into, no marker is taken apart
\* or put inside another, and what is written says as often as it hides something
\* that it does (redact.rs text).
EachMatchOnce ==
  LET spans == Spans(Active, said)
      taken == spans \cup Kept(said)
  IN /\ \A n \in DOMAIN Active : \A c \in Captures(Active[n], said) :
          \E s \in taken : Overlap(s, c)
     /\ \A s, r \in taken : s # r => ~ Overlap(s, r)
     /\ Cardinality(Kept(Text(Active, said))) = Cardinality(taken)

\* However often a text is redacted it comes out the same, and so the row is the
\* same whether the evidence it is read from was redacted or not, and however
\* often it is rebuilt; unless matches of it cross (redact.rs text: "which is what
\* makes this idempotent").
HiddenOnce ==
  LET hidden == Text(Active, said)
  IN ~ Crossed(said) => Text(Active, hidden) = hidden /\ row \in {NoBody, hidden}

\* The user's file has the last word on an id and takes nothing else away; a
\* pattern that does not compile takes only itself away (redact.rs load, compile).
PatternsInForce ==
  \A user \in PatternFiles :
    LET declared == Declared(user)
    IN /\ \A n \in DOMAIN declared :
            LET says == SelectSeq(BuiltInPatterns \o user, LAMBDA q : q.id = declared[n].id)
            IN declared[n] = Last(says)
       /\ {p.id : p \in ToSet(declared)} = {p.id : p \in ToSet(BuiltInPatterns \o user)}
       /\ Len(declared) = Cardinality({p.id : p \in ToSet(declared)})
=============================================================================
