------------------------------ MODULE MCStore ------------------------------
(* The store: what is stored and sealed and what a purge leaves of it, in      *)
(* two courses of EvidenceStore.                                               *)
EXTENDS MCEvidenceStore

AnyEvent == TwoFiles \cup AtOnce
AnyScope == EveryScope \cup OneOfEach

VARIABLE course

\* Transcripts only, purged twice by every sort of scope.
Purging == INSTANCE EvidenceStore WITH
  Event <- TwoFiles, Session <- TwoSessions, Legacy <- NoLegacy, Scope <- EveryScope,
  Resident <- FALSE, Commands <- {"backfill", "purge"}, MaxId <- 4, MaxClock <- 2,
  MaxPurges <- 2

\* Both lanes, purged while the application runs, all at one instant.
Both == INSTANCE EvidenceStore WITH
  Event <- AtOnce, Session <- TwoSessions, Legacy <- TwoLegacy, Scope <- OneOfEach,
  Resident <- TRUE, Commands <- {"purge"}, MaxId <- 5, MaxClock <- 0, MaxPurges <- 2

-----------------------------------------------------------------------------

StoreInit ==
  \/ course = "purging" /\ Purging!Init
  \/ course = "both" /\ Both!Init

StoreNext ==
  /\ UNCHANGED course
  /\ \/ course = "purging" /\ Purging!Next
     \/ course = "both" /\ Both!Next

storevars == <<course, vars>>
StoreSpec == StoreInit /\ [][StoreNext]_storevars

-----------------------------------------------------------------------------
(* The properties; those of EvidenceStore that hold whatever the course are    *)
(* named in the configuration as they are.                                     *)

\* No purge of transcripts takes away the projection of a record that stays
\* stored, which the next re-projection would silently bring back (NeverSeparated,
\* of retention.rs purge).
PurgeSeparatesNothing == [][course = "purging" => KeepsProjected]_storevars

\* A purge of transcripts removes the number it records, no session its preview
\* did not name, none that was active since its cutoff, and leaves no projected
\* call whose evidence is all gone (EvidenceStore, of retention.rs plan and purge).
PurgesAreHonest ==
  course = "purging" =>
    CountedAsRemoved /\ ShownBeforeGone /\ NothingActivePurged /\ NoOrphanProjection
=============================================================================
