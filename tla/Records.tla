------------------------------ MODULE Records ------------------------------
(* The rows the reports read: tool_call, session and permission_mode_change   *)
(* as the two lanes write them and a purge takes them (toolog-core project.rs *)
(* and retention.rs), one commit at a time, between any two statements of a   *)
(* report: no report reads inside a transaction.                              *)
(*                                                                            *)
(* A call is the columns the reports ask about. A text is a sequence of       *)
(* letters. NULL is "null", no text is NoText and no time is NoTime, which    *)
(* comes before every time, as NULL does.                                     *)
EXTENDS Integers, Sequences, FiniteSets, SequencesExt, FiniteSetsExt

CONSTANTS
  Stores,     \* what may be stored already: [calls, known, modes]
  Arriving,   \* the calls that may still arrive
  Learnt,     \* session -> [project, cwd], once its transcript is read
  MaxChanges  \* bound: on the commits of others

VARIABLES
  calls,      \* rowid -> [session, tool_name, agent_id, decision, provenance,
              \*  called_at, input_summary, target_path]
  sessions,   \* the sessions known: a part of Learnt
  modes,      \* the sessions whose permission mode changed
  since,      \* observation only: kinds of commits since the report began
  spent       \* commits so far

recordvars == <<calls, sessions, modes, since, spent>>

NULL == "null"
NoText == <<NULL>>
NoTime == -100

RecordsTypeOK ==
  /\ \A i \in DOMAIN calls : calls[i].provenance \in {"transcript", "otel", "both"}
  /\ DOMAIN sessions \subseteq DOMAIN Learnt /\ modes \subseteq DOMAIN Learnt
  /\ since \subseteq {"stored", "completed", "purged", "learnt", "changed", "judged"}
  /\ spent \in 0..MaxChanges

Rows == DOMAIN calls

\* ORDER BY called_at, rowid; and the other way round.
Older(i, j) == \/ calls[i].called_at < calls[j].called_at
               \/ calls[i].called_at = calls[j].called_at /\ i < j
Newer(i, j) == Older(j, i)

\* LEFT JOIN session
ProjectOf(i) == LET s == calls[i].session
                IN IF s \in DOMAIN sessions THEN sessions[s].project ELSE NULL
CwdOf(i) == LET s == calls[i].session
            IN IF s \in DOMAIN sessions THEN sessions[s].cwd ELSE NoText

-----------------------------------------------------------------------------
(* The commits of others. *)

Commit(kind) ==
  /\ spent < MaxChanges /\ spent' = spent + 1
  /\ since' = since \cup {kind}

\* The first lane to tell of a call.
Store(c) ==
  /\ Commit("stored")
  /\ LET new == Max(Rows \cup {0}) + 1
     IN calls' = [i \in Rows \cup {new} |-> IF i = new THEN c ELSE calls[i]]
  /\ UNCHANGED <<sessions, modes>>

\* The other lane: the exporter brings the decision and maybe a later time, the
\* transcript what the exporter does not know.
Complete(i, decision, later) ==
  /\ calls[i].provenance # "both"
  /\ Commit("completed")
  /\ calls' = [calls EXCEPT
       ![i].provenance = "both",
       ![i].decision = IF calls[i].provenance = "transcript" THEN decision ELSE @,
       ![i].called_at = IF @ # NoTime /\ later THEN @ + 1 ELSE @]
  /\ UNCHANGED <<sessions, modes>>

\* A session's row, and a change of its mode, are read from its transcript.
Learn(s) ==
  /\ Commit("learnt")
  /\ sessions' = [t \in DOMAIN sessions \cup {s} |-> Learnt[t]]
  /\ UNCHANGED <<calls, modes>>
Change(s) ==
  /\ Commit("changed")
  /\ modes' = modes \cup {s} /\ UNCHANGED <<calls, sessions>>

\* execute: a purge takes a session that is known, with everything of it.
PurgeSession(s) ==
  /\ Commit("purged")
  /\ calls' = [i \in {i \in Rows : calls[i].session # s} |-> calls[i]]
  /\ sessions' = [t \in DOMAIN sessions \ {s} |-> sessions[t]]
  /\ modes' = modes \ {s}

RecordsInit ==
  /\ \E store \in Stores : /\ calls = store.calls
                           /\ sessions = [s \in store.known |-> Learnt[s]]
                           /\ modes = store.modes
  /\ since = {} /\ spent = 0

RecordsNext ==
  \/ \E c \in Arriving : Store(c)
  \/ \E i \in Rows, decision \in {"accept", "reject"}, later \in BOOLEAN :
       Complete(i, decision, later)
  \/ \E s \in DOMAIN Learnt \ DOMAIN sessions : Learn(s)
  \/ \E s \in DOMAIN Learnt \ modes : Change(s)
  \/ \E s \in DOMAIN sessions : PurgeSession(s)
=============================================================================
