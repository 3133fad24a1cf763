---------------------------- MODULE MCDecisions ----------------------------
(* What a user decides and toolog writes down: the settings of Claude Code,    *)
(* the preferences, and the judgements of the risk review. One of the three    *)
(* runs and the others stand still as they began: they share no state.         *)
EXTENDS MCSettings, RiskReview, Preferences

VARIABLE part

-----------------------------------------------------------------------------
(* Two threads review what one rule catches.                                   *)

ASSUME RiskReviewAssumption

-----------------------------------------------------------------------------
(* Outings: a switch and a pick, two switches, two picks, and each with a      *)
(* restart, a failure, another file or the command line beside it.             *)

TwoModels == [p |-> "m1", q |-> "m2"]

Outing(clicks, models, pauses, restarts, failures, swaps, commands, imports) ==
  [clicks |-> clicks, models |-> models, pauses |-> pauses, restarts |-> restarts,
   failures |-> failures, swaps |-> swaps, cli |-> commands, imports |-> imports]
EveryOuting ==
  {Outing(1, 1, 1, 1, 0, 0, 0, 0), Outing(2, 0, 0, 2, 1, 0, 0, 1),
   Outing(0, 2, 0, 1, 0, 0, 0, 0), Outing(1, 0, 0, 2, 0, 0, 1, 1),
   Outing(0, 1, 0, 1, 0, 1, 1, 0)}

ASSUME PreferencesAssumption

-----------------------------------------------------------------------------

\* One of the three begins, and the others stand still.
DecisionsBegun ==
  /\ SettingsInit /\ ReviewInit /\ PreferencesInit
  /\ part # "settings" => file = NoFile
  /\ part # "review" => ledger = {} /\ rules = CHOOSE r \in [Rule -> Question] : TRUE
  /\ part # "preferences" => remains = CHOOSE o \in Outings : TRUE

decisionvars == <<settingsvars, reviewvars, pvars>>

DecisionsNext ==
  \/ part = "settings" /\ SettingsNext /\ UNCHANGED <<part, reviewvars, pvars>>
  \/ part = "review" /\ ReviewNext /\ UNCHANGED <<part, settingsvars, pvars>>
  \/ part = "preferences" /\ PreferencesNext /\ UNCHANGED <<part, settingsvars, reviewvars>>
=============================================================================
