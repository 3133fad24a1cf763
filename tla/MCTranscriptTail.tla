-------------------------- MODULE MCTranscriptTail --------------------------
(* Small transcripts for TranscriptTail. *)
EXTENDS TranscriptTail

OneFile == {"f1"}
TwoLines == [l \in {"a", "b"} |-> IF l = "a" THEN 2 ELSE 3]
NoFile == {}
=============================================================================
