SPECIFICATION ReviewSpec
CONSTANTS
  Nil = Nil
  Rule = {"r1"}
  Question = {rm, dd}
  Call = {c1, c2}
  Thread = {t1, t2}
  Recorded = {c1, c2}
  MaxEvents = 4
SYMMETRY Alike






CHECK_DEADLOCK FALSE
INVARIANT ServedIsCurrent
