SPECIFICATION MCReportsSpec
CONSTANTS
  Nil = Nil
  Call = {"spawn", "edit", "side"}
  Session = {"s"}
  Agent = {"a"}
  File <- TwoFiles
  Worlds <- AllWorlds
  MaxEvents = 2
INVARIANT ProjectionInv
INVARIANT EvidenceShown
INVARIANT ToldOfCalls
INVARIANT LiveIsRebuilt
INVARIANT ReviewIsOneCount
INVARIANT ReportsAgree
INVARIANT AnswersAgree
