------------------------------ MODULE MCKept ------------------------------
(* What toolog keeps: the evidence, in two courses, and what a user decides    *)
(* and is written down. One of these runs and the others stand still: they     *)
(* share no state.                                                             *)
EXTENDS MCStore, MCDecisions

KeptInit ==
  /\ part \in {"evidence", "settings", "review", "preferences"}
  /\ StoreInit /\ (part # "evidence" => course = "both")
  /\ DecisionsBegun

KeptNext ==
  \/ part = "evidence" /\ StoreNext /\ UNCHANGED <<part, decisionvars>>
  \/ DecisionsNext /\ UNCHANGED storevars

KeptSpec == KeptInit /\ [][KeptNext]_<<part, storevars, decisionvars>>
=============================================================================
