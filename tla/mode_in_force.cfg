SPECIFICATION Spec
CONSTANTS
  Nil = Nil
  Call = {"edit"}
  Session = {"s"}
  Agent = {"a"}
  File <- OneFile
  Worlds <- Turning
  MaxEvents = 1
INVARIANT ModeInForce
