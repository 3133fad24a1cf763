----------------------------- MODULE MCSettings -----------------------------
(* Small settings files for Settings. *)
EXTENDS Settings

TwoPorts == <<"47318", "47319">>

\* No file, one without env, one with a variable of the user's, one whose env
\* is empty, one that already sends somewhere on this machine, one that sends
\* elsewhere, and three that cannot be rewritten.
NoneYet == NoFile
Plain == AFile("none", NoEnv, 1)
WithTheirs == AFile("object", [theirs |-> "1"], 1)
EmptyEnv == AFile("object", NoEnv, 1)
Local == AFile("object", [endpoint |-> "4318"], 0)
Hijackable == AFile("object", [global |-> "away"], 0)
EnvIsText == AFile("other", NoEnv, 0)

\* What may happen, and how often.
May(edits, starts, fixes, undos, seizes, agents) ==
  [edits |-> edits, starts |-> starts, fixes |-> fixes, undos |-> undos,
   seizes |-> seizes, agents |-> agents]
On(files, above, may) ==
  {[file |-> f, above |-> above, may |-> may] : f \in files}

\* Any file, fixed and uninstalled while the application moves; one that is
\* edited as well, under files that set the endpoint too; one that is fixed by
\* both runners and uninstalled twice; one edited there and back between the
\* steps of a runner; and a login agent put in place and removed by hand and by
\* an uninstall.
EveryMachine ==
  On({NoneYet, Plain, WithTheirs, EmptyEnv, Local, Hijackable, EnvIsText, AList},
     NoEnv, May(0, 2, 1, 1, 1, 0))
  \cup On({WithTheirs, Local}, NoEnv, May(1, 1, 1, 1, 1, 0))
  \cup On({WithTheirs}, [endpoint |-> "47319"], May(0, 1, 2, 1, 2, 0))
  \cup On({WithTheirs}, [endpoint |-> "away"], May(1, 1, 1, 1, 1, 0))
  \cup On({WithTheirs}, NoEnv, May(1, 0, 2, 2, 0, 0))
  \cup On({Plain}, NoEnv, May(2, 0, 1, 1, 0, 0))
  \cup On({Plain}, NoEnv, May(1, 1, 2, 1, 0, 0))
  \cup On({WithTheirs}, NoEnv, May(0, 1, 1, 2, 0, 3))
=============================================================================
