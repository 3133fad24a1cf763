------------------------------- MODULE MCEnds -------------------------------
(* The two ends of the store: how records get in (MCIntake), and how they are *)
(* looked at, in the window: a timeline while rows arrive behind it, and a    *)
(* filter box and its address while a reader moves about. One of these runs   *)
(* and the others stand still: they share no state.                           *)
EXTENDS MCIntake, Timeline

-----------------------------------------------------------------------------
(* The timeline. *)

Course(already, r, u, e, s, f, w) ==
  [stored |-> already, rows |-> r, updates |-> u, edits |-> e, selects |-> s,
   failures |-> f, switches |-> w]
Both == <<"Bash", "Edit">>

\* Rows that arrive in bursts while the filter changes; calls that are selected
\* while it does; requests that fail, and a collector that is switched; and a
\* call that arrives twice.
FourCourses == {Course(<<>>, Both, 0, 1, 0, 0, 0), Course(Both, <<>>, 0, 1, 2, 0, 0),
                Course(Both, <<>>, 0, 1, 0, 1, 1), Course(<<"Bash">>, <<"Edit">>, 1, 0, 0, 0, 0)}

-----------------------------------------------------------------------------
(* The filter bar: texts with the characters that quoting is about. *)

VARIABLES box, timer, bar, view, app, screen, addresses, at
Typings == {<<"a">>, <<"@", "t", ":", "a", " ", "b">>, <<"@", "o", ":", "r">>,
            <<"\"", "a", "\\", "\"", "\"">>, <<"\"", "@", "r", "\"">>, <<"@", "l", ":", "b">>}
F == INSTANCE FilterBar WITH
       Typed <- Typings, Value <- {<<"@", "r">>, <<"a", " ">>}, Call <- {<<"c1">>},
       Instant <- {<<"1">>}, MaxHistory <- 3, history <- addresses

-----------------------------------------------------------------------------
(* One part runs and the others stand still. *)

barvars == <<box, timer, bar, view, app, screen, addresses, at>>

Standing == CHOOSE course \in Courses : TRUE

EndsInit ==
  /\ part \in {"tail", "store", "texts", "calls", "timeline", "bar"}
  /\ IntakeBegun
  /\ F!FilterBarInit
  /\ IF part = "timeline" THEN TimelineInit ELSE Opened(Standing)

\* The tailer always has something to do; the others may have nothing more.
EndsNext ==
  \/ IntakeNext /\ UNCHANGED <<tvars, barvars>>
  \/ part = "timeline" /\ TimelineNext /\ UNCHANGED <<part, intakevars, barvars>>
  \/ part = "bar" /\ F!FilterBarNext /\ UNCHANGED <<part, intakevars, tvars>>
  \/ part \in {"timeline", "bar"} /\ UNCHANGED <<part, intakevars, tvars, barvars>>

endsvars == <<part, intakevars, tvars, barvars>>

\* The fairness of Timeline, while it runs.
Watched(B) == part = "timeline" /\ B
WindowFairness == /\ WF_tvars(Watched(LiveThread)) /\ WF_tvars(Watched(LiveEvent))
                  /\ WF_tvars(Watched(Arrives))

EndsSpec == EndsInit /\ [][EndsNext]_endsvars /\ TailFairness /\ WindowFairness

-----------------------------------------------------------------------------
(* The property of the bar; those of the tail and of the timeline are named   *)
(* in the configuration as they are.                                          *)

\* The copies of the view never part, and once no reading is due the box says what
\* the list is filtered by; going back and forward never writes the history it
\* travels, and a text that is read keeps the range (FilterBar, of setView, apply,
\* quote, popstate, writeHash and commit).
OneViewOnly == [](part = "bar" => F!FilterBarInv) /\ [][F!HistoryKept]_barvars
=============================================================================
