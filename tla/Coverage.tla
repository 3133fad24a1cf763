------------------------------ MODULE Coverage ------------------------------
(* What the store can and cannot account for: completeness of toolog-core     *)
(* verify.rs, which `toolog verify` prints. A call the exporter never told of *)
(* has no decision on record; a gap is a run of such calls with no decided    *)
(* call between them, whatever sessions they are of.                          *)
EXTENDS Records

CONSTANTS
  SESSION_LIMIT, \* how many sessions the report names
  GAP_LIMIT      \* and how many gaps

Decided(i) == calls[i].provenance \in {"otel", "both"}

\* The lanes, of query.rs reconcile.
Lane(l) == Cardinality({i \in Rows : calls[i].provenance = l})
Whole == Rows # {} /\ Lane("transcript") = 0 /\ Lane("otel") = 0

-----------------------------------------------------------------------------
(* The sessions. *)

SessionsSeen == {calls[i].session : i \in Rows} \ {NULL}
CallsOf(s) == {i \in Rows : calls[i].session = s}
DecidedOf(s) == {i \in CallsOf(s) : Decided(i)}

SessionsIncomplete == {s \in SessionsSeen : DecidedOf(s) # CallsOf(s)}

\* ORDER BY decided / calls, calls DESC: the ratios are compared across.
LessCompleteBySize(s, t) ==               \* mutant: the larger first
  Cardinality(CallsOf(s)) > Cardinality(CallsOf(t))
LessComplete(s, t) ==
  LET left  == Cardinality(DecidedOf(s)) * Cardinality(CallsOf(t))
      right == Cardinality(DecidedOf(t)) * Cardinality(CallsOf(s))
  IN \/ left < right
     \/ left = right /\ Cardinality(CallsOf(s)) > Cardinality(CallsOf(t))

\* sessions: those it names. Where two tie, either may be named.
Named == {n \in SUBSET SessionsSeen :
            /\ Cardinality(n) = Min({SESSION_LIMIT, Cardinality(SessionsSeen)})
            /\ \A s \in n, t \in SessionsSeen \ n : ~ LessComplete(t, s)}

-----------------------------------------------------------------------------
(* The gaps. *)

\* ordered: the calls with a time, numbered in time order ...
Placed == {i \in Rows : calls[i].called_at # NoTime}
SeqOfCall(i) == Cardinality({j \in Placed : Older(j, i)}) + 1

\* runs: ... and the undecided numbered apart. The difference is one number
\* throughout a run.
Undecided == {i \in Placed : ~ Decided(i)}
RunBySession(i) == calls[i].session       \* mutant: a session's own gap
Run(i) == SeqOfCall(i) - (Cardinality({j \in Undecided : Older(j, i)}) + 1)
Gaps == {{j \in Undecided : Run(j) = Run(i)} : i \in Undecided}

\* Those it names: the largest, of as large the first.
Larger(g, h) == \/ Cardinality(g) > Cardinality(h)
                \/ Cardinality(g) = Cardinality(h)
                   /\ Min({calls[i].called_at : i \in g}) < Min({calls[i].called_at : i \in h})
NamedGaps == {n \in SUBSET Gaps : /\ Cardinality(n) = Min({GAP_LIMIT, Cardinality(Gaps)})
                                  /\ \A g \in n, h \in Gaps \ n : ~ Larger(h, g)}

-----------------------------------------------------------------------------
\* The report adds up: every call is in one lane; two undecided calls are in one
\* gap exactly when no decided call lies between them; a call the exporter never
\* told of is in one gap, unless it has no time; a store called whole has no gap
\* and no incomplete session; and a session whose record is complete is named
\* only once every incomplete one is, so that "n shown" is what the count says
\* (verify.rs completeness, sessions, gaps; commands.rs render_sessions).
CoverageAgrees ==
  /\ Lane("both") + Lane("transcript") + Lane("otel") = Cardinality(Rows)
  /\ \A i, j \in Undecided :
       (Run(i) = Run(j)) <=> ~ \E k \in Placed : /\ Decided(k)
                                                 /\ \/ Older(i, k) /\ Older(k, j)
                                                    \/ Older(j, k) /\ Older(k, i)
  /\ MapThenSumSet(Cardinality, Gaps)
       = Lane("transcript") - Cardinality({i \in Rows \ Placed : ~ Decided(i)})
  /\ Whole => Gaps = {} /\ SessionsIncomplete = {}
  /\ \A n \in Named : Cardinality(n \cap SessionsIncomplete)
                        = Min({SESSION_LIMIT, Cardinality(SessionsIncomplete)})
  /\ \A n \in NamedGaps : \A g \in n : \A h \in Gaps \ n : Cardinality(h) <= Cardinality(g)
=============================================================================
