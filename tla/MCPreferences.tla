--------------------------- MODULE MCPreferences ---------------------------
(* Preferences on its own: one switch, and both processes that import.         *)
EXTENDS Preferences

TwoFiles == [p |-> "m1", q |-> "m2"]

SomeOutings ==
  {[clicks |-> 1, models |-> 0, pauses |-> 0, restarts |-> 1, failures |-> 0, swaps |-> 0,
    cli |-> 0, imports |-> 2]}
=============================================================================
