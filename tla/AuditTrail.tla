----------------------------- MODULE AuditTrail -----------------------------
(***************************************************************************)
(* What the evidence store promises its reader, with no database in sight: *)
(* a set of captured contents that only grows, except by a deletion, and a *)
(* deletion always leaves one more entry in a log that is itself never     *)
(* shortened.  EvidenceStore is shown to implement this.                   *)
(***************************************************************************)
EXTENDS Naturals

CONSTANT Content        \* everything that can be captured

VARIABLES
  held,                 \* the contents the store holds
  log                   \* how many deletions have been recorded

trail == <<held, log>>

Init == /\ held \in SUBSET Content
        /\ log = 0

Capture(c) == /\ c \notin held
              /\ held' = held \cup {c}
              /\ UNCHANGED log

Forget(gone) == /\ held' = held \ gone
                /\ log' = log + 1

Next == \/ \E c \in Content : Capture(c)
        \/ \E gone \in SUBSET held : Forget(gone)

Spec == Init /\ [][Next]_trail
=============================================================================
