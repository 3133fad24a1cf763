--------------------------- MODULE MCCaptureQueue ---------------------------
(* Small sets of exports for CaptureQueue. *)
EXTENDS CaptureQueue

\* Two exports; the second was batched anew and repeats a record of the first.
TwoBatches == {"b1", "b2"}
Overlapping == [b \in TwoBatches |-> IF b = "b1" THEN {"r1", "r2"} ELSE {"r2", "r3"}]
ThreeRecords == {"r1", "r2", "r3"}

\* Those two, an empty export and one that does not decode.
FourBatches == {"b1", "b2", "b3", "b4"}
OfEachSort == [b \in FourBatches |-> IF b \in TwoBatches THEN Overlapping[b] ELSE {}]
None == {}
=============================================================================
