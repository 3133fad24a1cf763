---------------------------- MODULE MCProjection ----------------------------
(* Transcripts and exports for Projection. *)
EXTENDS Projection, TLC

T(given) == Rec([lane |-> "transcript", session |-> "s"] @@ given)
O(given) == Rec([lane |-> "otlp", session |-> "s"] @@ given)

TwoFiles == <<"main", "sub">>
Use(call, ts) == T([kind |-> "use", call |-> call, ts |-> ts])

\* A session that spawns a subagent, whose transcript is another file.
Spawning ==
  [lines |-> [main |-> <<
     T([kind |-> "mode", mode |-> "auto"]),
     T([kind |-> "use", call |-> "spawn", ts |-> 1, spawns |-> "Explore"]),
     T([kind |-> "result", call |-> "spawn", ts |-> 2, names |-> "a"]) >>,
             sub |-> <<
     T([kind |-> "use", call |-> "side", ts |-> 3, agent |-> "a"]) >>],
   posts |-> <<>>]

\* A session that moved, told of before the records that precede the move,
\* and that changes its mode.
Moving ==
  [lines |-> [main |-> <<
     T([kind |-> "moved", moved |-> "new"]),
     T([kind |-> "turn", mode |-> "plan", ts |-> 1, path |-> "old"]),
     T([kind |-> "mode", mode |-> "auto"]),
     Use("edit", 2) >>,
             sub |-> <<>>],
   posts |-> <<>>]

\* Calls both lanes witness, one of them refused, and a change of a file.
Witnessed ==
  [lines |-> [main |-> <<
     Use("edit", 1),
     T([kind |-> "result", call |-> "edit", ts |-> 2, success |-> TRUE,
        edits |-> 1]) >>,
             sub |-> <<
     Use("side", 3) >>],
   posts |-> <<
     O([kind |-> "result", call |-> "edit", ts |-> 4, duration |-> 9,
        success |-> TRUE, input |-> "cut"]),
     O([kind |-> "decision", call |-> "side", ts |-> 3,
        decision |-> "reject", input |-> "cut"]) >>]

AllWorlds == {Spawning, Moving, Witnessed}

\* Only the tool calls of a session that changes its mode: a small world.
OneFile == <<"main">>
Turning ==
  { [lines |-> [main |-> <<
       T([kind |-> "turn", mode |-> "plan", ts |-> 1]),
       T([kind |-> "mode", mode |-> "auto"]),
       Use("edit", 2) >>],
     posts |-> <<>>] }
=============================================================================
