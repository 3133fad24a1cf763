-------------------------- MODULE MCEvidenceStore --------------------------
(* Small stores for EvidenceStore. *)
EXTENDS EvidenceStore

Line1(b, f, s, c, w) ==
  [body |-> b, lane |-> "transcript", ref |-> f, session |-> s, call |-> c, when |-> w]
Otlp1(b, s, c, w) ==
  [body |-> b, lane |-> "otlp", ref |-> "batch", session |-> s, call |-> c, when |-> w]

\* Two sessions, one file each.
TwoFiles == {Line1("b1", "f1", "s1", "c1", 0), Line1("b2", "f1", "s1", "c2", 1),
             Line1("b3", "f2", "s2", "c3", 0)}
\* The same, and what the exporter says of two of the calls and of one only it
\* ever mentions.
TwoLanes == TwoFiles \cup {Otlp1("o1", "s1", "c1", 0)}
\* Two lines of one session, one of another and one record of the exporter's,
\* all of one instant.
AtOnce == {Line1("b1", "f1", "s1", "c1", 0), Line1("b2", "f1", "s1", "c2", 0),
           Line1("b3", "f2", "s2", "c3", 0), Otlp1("o1", "s1", "c1", 0)}

TwoSessions == {"s1", "s2"}

NoLegacy == <<>>
TwoLegacy == <<Line1("b1", "f1", "s1", "c1", 0), Line1("b3", "f2", "s2", "c3", 0)>>

Scope1(k, c, b, ss) == [kind |-> k, cutoff |-> c, bytes |-> b, sessions |-> ss]
BySession == {Scope1("sessions", 0, 0, {"s1"}), Scope1("sessions", 0, 0, {"s2"})}
ByAge == {Scope1("before", 1, 0, {})}
BySize == {Scope1("to_fit", 0, 1, {}), Scope1("to_fit", 0, 2, {})}
OneOfEach == {Scope1("sessions", 0, 0, {"s1"}), Scope1("to_fit", 0, 1, {})}
EveryScope == BySession \cup ByAge \cup BySize
=============================================================================
