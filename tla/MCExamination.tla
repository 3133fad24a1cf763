--------------------------- MODULE MCExamination ---------------------------
(* Small examinations for Examination. *)
EXTENDS Examination

TwoCalls == 1..2

\* One model, paused and resumed, that may fail, and two calls that both lanes
\* report.
OneModel == [models |-> {"m1"}, starts |-> 1, lanes |-> <<2, 2>>,
             toggles |-> 2, unset |-> FALSE, quit |-> FALSE, fail |-> TRUE]
\* A model changed, unset and loaded again, and one call.
ModelsChange == [models |-> {"m1", "m2"}, starts |-> 2, lanes |-> <<1, 0>>,
                 toggles |-> 0, unset |-> TRUE, quit |-> TRUE, fail |-> FALSE]
\* One model started over while it is paused: the old examination and the new one
\* both have a pause to notice.
StartedOver == [models |-> {"m1"}, starts |-> 2, lanes |-> <<1, 0>>,
                toggles |-> 1, unset |-> FALSE, quit |-> FALSE, fail |-> FALSE]
ThreeCourses == {OneModel, ModelsChange, StartedOver}
=============================================================================
