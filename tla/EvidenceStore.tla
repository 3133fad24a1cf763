--------------------------- MODULE EvidenceStore ---------------------------
(***************************************************************************)
(* The evidence table raw_event, the integrity chain over it, the session  *)
(* and tool_call projections a purge removes with it, and the deletion     *)
(* log: crates/toolog-core/src/{raw,chain,retention}.rs.                   *)
(*                                                                         *)
(* Two processes write the file.  The resident application seals what is   *)
(* unsealed when its writer thread starts and then stores what the two     *)
(* lanes bring; the command line runs `toolog backfill` (store, then seal) *)
(* and `toolog purge` (preview, preview again, delete).  SQLite makes each *)
(* transaction one step; sealing commits row by row, and a purge reads its *)
(* plan before its transaction begins, so both are several steps.          *)
(*                                                                         *)
(* A hash is a free constructor (no collisions): a chain value is the      *)
(* sequence of the digests it was computed from, <<>> being GENESIS.       *)
(***************************************************************************)
EXTENDS Integers, Sequences, FiniteSets

CONSTANTS
  Event,        \* captured records: [body, lane, ref, session, call, when]
  Session,      \* session ids
  Legacy,       \* Seq(Event): rows stored before migration 004, oldest first
  Scope,        \* the purges asked for: [kind, cutoff, bytes, sessions]
  Resident,     \* BOOLEAN: the application may be running
  Commands,     \* SUBSET {"backfill", "purge"}: the commands a user may run
  MaxId,        \* bound: no row gets an id past this one
  MaxClock,     \* bound on the clock
  MaxPurges     \* bound on the number of recorded purges

Lane == {"transcript", "otlp"}
Body == {e.body : e \in Event}
Ref  == {e.ref : e \in Event}
NoRef == "none"

ASSUME EventAssumption ==
  \A e \in Event : /\ e.lane \in Lane /\ e.session \in Session
                   /\ e.when \in 0..MaxClock /\ e.ref # NoRef

ASSUME ScopeAssumption ==
  \A sc \in Scope : /\ sc.kind \in {"before", "to_fit", "sessions"}
                    /\ sc.cutoff \in Nat /\ sc.bytes \in Nat
                    /\ sc.sessions \subseteq Session

ASSUME StoreAssumption ==
  /\ IsFiniteSet(Session)
  /\ Legacy \in Seq(Event) /\ Len(Legacy) <= MaxId
  /\ \A i, j \in DOMAIN Legacy : Legacy[i].body = Legacy[j].body => i = j
  /\ MaxId \in Nat /\ MaxClock \in Nat /\ MaxPurges \in Nat
  /\ Resident \in BOOLEAN /\ Commands \subseteq {"backfill", "purge"}

VARIABLES
  rows,         \* raw_event: a set of [id, ev, at, sealed, chain]
  session,      \* the session table: Session -> [known, path, last]
  calls,        \* the tool_call table: a set of <<call, session>>
  deletions,    \* the deletion table, oldest first
  clock,        \* now_ms()
  pc,           \* what each process is doing
  pending,      \* each process's stored but not yet projected ids: 0, or the first
  sealer,       \* each process's run of chain::seal
  plan,         \* the purge the command line is about to make
  history       \* observation only: what each purge really did

store == <<rows, session, calls, deletions>>
vars  == <<rows, session, calls, deletions, clock, pc, pending, sealer, plan, history>>

-----------------------------------------------------------------------------
(* The chain. *)

Genesis == <<>>
RowDigest(r) == [ev |-> r.ev, at |-> r.at]
Link(previous, digest) == Append(previous, digest)

Sealed(rs) == {r \in rs : r.sealed}
Below(rs, id) == {r \in Sealed(rs) : r.id < id}
First(rs) == CHOOSE r \in rs : \A q \in rs : r.id <= q.id
Last(rs)  == CHOOSE r \in rs : \A q \in rs : q.id <= r.id

(* The chain value carried past a set of sealed rows. *)
Carried(sealed) == IF sealed = {} THEN Genesis ELSE Last(sealed).chain
ChainHeadOldest(rs) ==                   \* mutant: ORDER BY id without DESC
  IF Sealed(rs) = {} THEN Genesis ELSE First(Sealed(rs)).chain
ChainHead(rs) == Carried(Sealed(rs))

(* verify: a sealed row is a break when its stored value does not follow   *)
(* from the one stored before it, and a break is explained when a deletion *)
(* recorded that value as the one before its hole.                         *)
Follows(rs, r) == r.chain = Link(Carried(Below(rs, r.id)), RowDigest(r))
Breaks(rs) == {r \in Sealed(rs) : ~Follows(rs, r)}
Explained(rs, r, holes) == Carried(Below(rs, r.id)) \in holes

\* chain_before is a value or NULL: a set of at most one.
Holes == UNION {deletions[i].chain_before : i \in DOMAIN deletions}

-----------------------------------------------------------------------------
(* Storing a record and projecting it. *)

HeldNever(body) == FALSE                           \* mutant: no UNIQUE index
Held(body) == \E r \in rows : r.ev.body = body

NextIdFromZero == Cardinality(rows)                \* mutant: ids from 0
NextId == IF rows = {} THEN 1 ELSE Last(rows).id + 1

Absent == [known |-> FALSE, path |-> NoRef, last |-> 0]

NewRow(e) == LET digest == [ev |-> e, at |-> clock]
             IN [id |-> NextId, ev |-> e, at |-> clock, sealed |-> TRUE,
                 chain |-> Link(ChainHead(rows), digest)]

(* upsert_session over a set of records, in id order: the file named last  *)
(* wins, and the time of last activity only grows.                         *)
SessionAfter(s, rs) ==
  LET mine  == {r \in rs : r.ev.session = s}
      lines == {r \in mine : r.ev.lane = "transcript"}
      times == {session[s].last} \cup {r.ev.when : r \in mine}
  IN IF mine = {} THEN session[s]
     ELSE [known |-> TRUE,
           path  |-> IF lines = {} THEN session[s].path ELSE Last(lines).ev.ref,
           last  |-> CHOOSE t \in times : \A u \in times : u <= t]

ProjectRows(rs) ==
  /\ session' = [s \in Session |-> SessionAfter(s, rs)]
  /\ calls' = calls \cup {<<r.ev.call, r.ev.session>> : r \in rs}

(* raw::insert of a body not held: digest, head and row in one statement.  *)
(* A duplicate stores and projects nothing, so it is no step.              *)
Fresh(e) == e.when <= clock /\ ~Held(e.body) /\ NextId <= MaxId
StoreRow(e) == rows' = rows \cup {NewRow(e)}

(* The exporter's record is stored and projected in one transaction, by    *)
(* the resident process alone, between two jobs of its writer thread.      *)
Observe(e) ==
  /\ pc.resident = "serving" /\ pending.resident = 0
  /\ e.lane = "otlp" /\ Fresh(e)
  /\ StoreRow(e)
  /\ ProjectRows({NewRow(e)})
  /\ UNCHANGED <<deletions, clock, pc, pending, sealer, plan, history>>

(* ingest_and_project, which the resident's tailer and `toolog backfill`   *)
(* both call: what the file gained is stored in one transaction ...        *)
Ingesting(p) == IF p = "resident" THEN pc[p] = "serving" ELSE pc[p] = "backfill"

StoreLine(p, e) ==
  /\ Ingesting(p) /\ pending[p] = 0
  /\ e.lane = "transcript" /\ Fresh(e)
  /\ StoreRow(e)
  /\ pending' = [pending EXCEPT ![p] = NextId]
  /\ UNCHANGED <<session, calls, deletions, clock, pc, sealer, plan, history>>

(* ... and every transcript row past the highest id seen before it is      *)
(* projected in another.                                                   *)
ProjectLines(p) ==
  /\ Ingesting(p) /\ pending[p] # 0
  /\ ProjectRows({r \in rows : r.id >= pending[p] /\ r.ev.lane = "transcript"})
  /\ pending' = [pending EXCEPT ![p] = 0]
  /\ UNCHANGED <<rows, deletions, clock, pc, sealer, plan, history>>

-----------------------------------------------------------------------------
(* Sealing: one autocommitted UPDATE per row, with the previous value kept *)
(* in memory from the start of the pass.                                   *)

Idle == [todo |-> {}, previous |-> Genesis]

SealPassAnew == [todo |-> rows \ Sealed(rows), previous |-> Genesis]
                                          \* mutant: the head is not read back
SealPass == [todo |-> rows \ Sealed(rows), previous |-> ChainHead(rows)]

BeginSeal(p) ==
  /\ pc' = [pc EXCEPT ![p] = "sealing"]
  /\ sealer' = [sealer EXCEPT ![p] = SealPass]
  /\ UNCHANGED <<store, clock, pending, plan, history>>

(* The pass holds the rows it read; one sealed or purged meanwhile is left *)
(* alone by the UPDATE, and the pass goes on from the value it computed.   *)
SealableAny(r, id) == r.id = id           \* mutant: no AND chain_sha256 IS NULL
Sealable(r, id) == r.id = id /\ ~r.sealed

SealRow(p) ==
  /\ pc[p] = "sealing"
  /\ sealer[p].todo # {}
  /\ LET read  == First(sealer[p].todo)
         value == Link(sealer[p].previous, RowDigest(read))
     IN /\ rows' = {IF Sealable(r, read.id)
                    THEN [r EXCEPT !.sealed = TRUE, !.chain = value]
                    ELSE r : r \in rows}
        /\ sealer' = [sealer EXCEPT ![p] =
             [todo |-> sealer[p].todo \ {read}, previous |-> value]]
  /\ UNCHANGED <<session, calls, deletions, clock, pc, pending, plan, history>>

EndSeal(p) ==
  /\ pc[p] = "sealing" /\ sealer[p].todo = {}
  /\ pc' = [pc EXCEPT ![p] = IF p = "resident" THEN "serving" ELSE "idle"]
  /\ sealer' = [sealer EXCEPT ![p] = Idle]
  /\ UNCHANGED <<store, clock, pending, plan, history>>

StartResident == /\ Resident
                 /\ pc.resident = "down"
                 /\ BeginSeal("resident")

StartBackfill ==
  /\ "backfill" \in Commands
  /\ pc.cli = "idle"
  /\ pc' = [pc EXCEPT !.cli = "backfill"]
  /\ UNCHANGED <<store, clock, pending, sealer, plan, history>>

EndBackfill == pc.cli = "backfill" /\ pending.cli = 0 /\ BeginSeal("cli")

-----------------------------------------------------------------------------
(* Purging. *)

NoCutoff == -1
NoScope  == [kind |-> "none", cutoff |-> 0, bytes |-> 0, sessions |-> {}]
NoPlan   == [scope |-> NoScope, doomed |-> {}, otlp |-> 0, derived |-> NoCutoff,
             count |-> 0, shown |-> {}]

(* The records a session owns, as SQL counts them: by its transcript path. *)
Owned(s) == {r \in rows : r.ev.ref = session[s].path}
OwnedFiles(S) ==                          \* mutant: count(DISTINCT source_ref)
  Cardinality({r.ev.ref : r \in UNION {Owned(s) : s \in S}})
OwnedBytes(S) == Cardinality({sr \in S \X rows : sr[2] \in Owned(sr[1])})

Known == {s \in Session : session[s].known}
NotNewerThan(c) == {s \in Known : session[s].last <= c}     \* mutant: off by one
OlderThan(c) == {s \in Known : session[s].last < c}
OtlpBefore(c) == {r \in rows : r.ev.lane = "otlp" /\ r.at < c}

(* cutoff_for: the lowest cutoff whose surviving sessions fit, each stored *)
(* record weighing one unit.                                               *)
Fits(c, bytes) == OwnedBytes(Known \ OlderThan(c)) <= bytes
CutoffFor(bytes) ==
  IF Fits(0, bytes) THEN NoCutoff
  ELSE LET ends == {session[s].last + 1 : s \in Known}
           fit  == {c \in ends : Fits(c, bytes)}
       IN CHOOSE c \in fit : \A d \in fit : c <= d

(* Where an age or size scope draws its line. *)
LineFromNow(sc, derived) ==               \* mutant: the age is taken from now, anew
  IF sc.kind = "before" THEN clock
  ELSE IF derived = NoCutoff THEN 0 ELSE derived
Line(sc, derived) == IF sc.kind = "before" THEN sc.cutoff
                     ELSE IF derived = NoCutoff THEN 0 ELSE derived

(* preview: which sessions would go, and how many records it counts. *)
Preview(sc) ==
  LET derived == IF sc.kind = "to_fit" THEN CutoffFor(sc.bytes) ELSE NoCutoff
      line    == Line(sc, derived)
      going   == IF sc.kind = "sessions" THEN Known \cap sc.sessions
                 ELSE OlderThan(line)
      otlp    == IF sc.kind = "sessions" THEN 0 ELSE Cardinality(OtlpBefore(line))
  IN [scope   |-> sc,
      doomed  |-> {<<s, session[s].path>> : s \in going},
      otlp    |-> otlp,
      derived |-> derived,
      count   |-> OwnedBytes(going) + otlp,
      shown   |-> {}]

Doomed(p) == {d[1] : d \in p.doomed}
Paths(p)  == {d[2] : d \in p.doomed}

(* `toolog purge` prints a preview; without --apply, or when nothing would *)
(* go, that is all it does.                                                *)
ShowPurge(sc) ==
  /\ "purge" \in Commands
  /\ pc.cli = "idle"
  /\ Len(deletions) < MaxPurges
  /\ plan' = Preview(sc)
  /\ pc' = [pc EXCEPT !.cli = "shown"]
  /\ UNCHANGED <<store, clock, pending, sealer, history>>

Decline ==
  /\ pc.cli = "shown"
  /\ plan' = NoPlan
  /\ pc' = [pc EXCEPT !.cli = "idle"]
  /\ UNCHANGED <<store, clock, pending, sealer, history>>

(* purge() makes its own plan, from statements outside its transaction. *)
PlanPurge ==
  /\ pc.cli = "shown"
  /\ plan.doomed # {} \/ plan.otlp # 0
  /\ plan' = [Preview(plan.scope) EXCEPT !.shown = Doomed(plan)]
  /\ pc' = [pc EXCEPT !.cli = "planned"]
  /\ UNCHANGED <<store, clock, pending, sealer, history>>

(* hole: the chain value before the first transcript record to go. *)
ChainBeforeStored(p) ==             \* mutant: no GENESIS for a hole at the start
  LET going == {r \in rows : r.ev.ref \in Paths(p)}
  IN IF going = {} \/ Below(rows, First(going).id) = {} THEN {}
     ELSE {Carried(Below(rows, First(going).id))}
ChainBefore(p) ==
  LET going == {r \in rows : r.ev.ref \in Paths(p)}
  IN IF going = {} THEN {} ELSE {Carried(Below(rows, First(going).id))}

(* What the transaction deletes.  A cutoff is recovered from the plan only *)
(* when a size cap derived one: cutoff_of reads the other kind back from   *)
(* the description, where it is written as a date and does not parse.      *)
GoingByTime(p) ==                   \* mutant: evidence goes by age, not by file
  {r \in rows : r.ev.ref \in Paths(p) /\ r.at < clock}
Going(p) == {r \in rows : r.ev.ref \in Paths(p)}
            \cup (IF p.derived = NoCutoff THEN {} ELSE OtlpBefore(p.derived))

Contiguous(gone) ==
  /\ \A r \in gone : r.ev.lane = "transcript"
  /\ \A r \in rows \ gone : ~(First(gone).id < r.id /\ r.id < Last(gone).id)

KeptAll(p) == calls                       \* mutant: projections are not deleted
KeptCalls(p) == {c \in calls : c[2] \notin Doomed(p)}

Deletion(p) == [kind |-> p.scope.kind, count |-> p.count,
                sessions |-> Cardinality(p.doomed), chain_before |-> ChainBefore(p)]
LoggedRetention(p) ==                     \* mutant: a named session leaves no entry
  IF p.scope.kind = "sessions" THEN deletions ELSE Append(deletions, Deletion(p))
Logged(p) == Append(deletions, Deletion(p))

(* What really happened, for the properties.                               *)
Observed(p) ==
  [removed |-> Cardinality(Going(p)),
   unseen  |-> Doomed(p) \ p.shown,
   active  |-> IF p.scope.kind = "sessions" THEN {}
               ELSE {s \in Doomed(p) : session[s].last >= Line(p.scope, p.derived)},
   plain   |-> /\ Sealed(rows) = rows
               /\ Going(p) = {} \/ Contiguous(Going(p))]

Purge ==
  /\ pc.cli = "planned"
  /\ rows' = rows \ Going(plan)
  /\ calls' = KeptCalls(plan)
  /\ session' = [s \in Session |-> IF s \in Doomed(plan) THEN Absent ELSE session[s]]
  /\ deletions' = Logged(plan)
  /\ history' = Append(history, Observed(plan))
  /\ plan' = NoPlan
  /\ pc' = [pc EXCEPT !.cli = "idle"]
  /\ UNCHANGED <<clock, pending, sealer>>

-----------------------------------------------------------------------------
(* A process may be killed between any two of its transactions. *)
Kill(p) ==
  /\ pc[p] \notin {"down", "idle"}
  /\ pc' = [pc EXCEPT ![p] = IF p = "resident" THEN "down" ELSE "idle"]
  /\ pending' = [pending EXCEPT ![p] = 0]
  /\ sealer' = [sealer EXCEPT ![p] = Idle]
  /\ plan' = IF p = "cli" THEN NoPlan ELSE plan
  /\ UNCHANGED <<store, clock, history>>

Tick == /\ clock < MaxClock
        /\ clock' = clock + 1
        /\ UNCHANGED <<store, pc, pending, sealer, plan, history>>

-----------------------------------------------------------------------------
Process == {"resident", "cli"}

LegacyRow(i) == [id |-> i, ev |-> Legacy[i], at |-> 0, sealed |-> FALSE,
                 chain |-> Genesis]
LegacyOf(s) == {Legacy[i] : i \in {j \in DOMAIN Legacy : Legacy[j].session = s}}

(* The projection of the rows stored before the chain existed: one file    *)
(* per session, the file of its newest line.                               *)
LegacySession(s) ==
  IF LegacyOf(s) = {} THEN Absent
  ELSE LET newest == CHOOSE e \in LegacyOf(s) : \A f \in LegacyOf(s) : f.when <= e.when
       IN [known |-> TRUE, path |-> newest.ref, last |-> newest.when]

Init ==
  /\ rows = {LegacyRow(i) : i \in DOMAIN Legacy}
  /\ session = [s \in Session |-> LegacySession(s)]
  /\ calls = {<<Legacy[i].call, Legacy[i].session>> : i \in DOMAIN Legacy}
  /\ deletions = <<>>
  /\ clock = 0
  /\ pc = [p \in Process |-> IF p = "resident" THEN "down" ELSE "idle"]
  /\ pending = [p \in Process |-> 0]
  /\ sealer = [p \in Process |-> Idle]
  /\ plan = NoPlan
  /\ history = <<>>

Next ==
  \/ \E e \in Event : Observe(e)
  \/ \E p \in Process, e \in Event : StoreLine(p, e)
  \/ \E p \in Process : ProjectLines(p)
  \/ StartResident
  \/ StartBackfill
  \/ EndBackfill
  \/ \E p \in Process : SealRow(p) \/ EndSeal(p) \/ Kill(p)
  \/ \E sc \in Scope : ShowPurge(sc)
  \/ Decline
  \/ PlanPurge
  \/ Purge
  \/ Tick

Spec == Init /\ [][Next]_vars

-----------------------------------------------------------------------------
(* Properties. *)

Digest == [ev : Event, at : 0..MaxClock]
Chain  == Seq(Digest)
Row    == [id : 1..MaxId, ev : Event, at : 0..MaxClock, sealed : BOOLEAN, chain : Chain]

Entry  == [kind : {"before", "to_fit", "sessions"}, count : Nat, sessions : Nat,
           chain_before : SUBSET Chain]
Observation == [removed : Nat, unseen : SUBSET Session, active : SUBSET Session,
                plain : BOOLEAN]

PlanTypeOK ==
  /\ pc.cli \in {"shown", "planned"} => plan.scope \in Scope
  /\ plan.doomed \subseteq Session \X (Ref \cup {NoRef})
  /\ IsFiniteSet(plan.doomed)
  /\ plan.count \in Nat
  /\ plan.shown \subseteq Session

\* Every variable keeps its type.
TypeOK ==
  /\ rows \subseteq Row /\ IsFiniteSet(rows)
  /\ session \in [Session -> [known : BOOLEAN, path : Ref \cup {NoRef},
                              last : 0..MaxClock]]
  /\ calls \subseteq {<<e.call, e.session>> : e \in Event}
  /\ deletions \in Seq(Entry)
  /\ clock \in 0..MaxClock
  /\ pc \in [Process -> {"down", "idle", "sealing", "serving", "backfill",
                        "shown", "planned"}]
  /\ pending \in [Process -> 0..MaxId]
  /\ sealer \in [Process -> [todo : SUBSET Row, previous : Chain]]
  /\ history \in Seq(Observation)
  /\ PlanTypeOK

\* A body is stored at most once, and an id names one row, whichever process
\* stores it and whatever was purged in between (the UNIQUE content hash).
OneRowPerBody ==
  \A q, r \in rows : q.ev.body = r.ev.body \/ q.id = r.id => q = r

\* The store keeps its shape, and each body and each id its one row (db.rs, raw.rs
\* insert).
StoreInv == TypeOK /\ OneRowPerBody

\* A store nothing was purged from walks intact: `toolog verify --chain` finds
\* no break, whatever was sealed, by whom, and wherever a seal was cut short.
WalksIntact == deletions = <<>> => Breaks(rows) = {}

\* A break is only ever reported where something is missing: the row whose
\* chain value the broken one was linked to is no longer stored.
BreaksOnlyAtHoles ==
  \A r \in Breaks(rows) : \A q \in Sealed(rows) :
    r.chain # Link(q.chain, RowDigest(r))

(* Why no break appears elsewhere: along the ids the sealed values get      *)
(* longer, the rows not yet sealed come after all of them, and a resident  *)
(* that serves has none left.  A backfill that runs before the resident    *)
(* has sealed the legacy rows is the one way out.                          *)
SealsFirst == Legacy = <<>> \/ "backfill" \notin Commands

Waiting == rows \ Sealed(rows)
Growing == \A q, r \in Sealed(rows) : q.id < r.id => Len(q.chain) < Len(r.chain)
WaitingLast == \A q \in Sealed(rows), u \in Waiting : q.id < u.id
ServingSealed == pc.resident = "serving" => Waiting = {}
NoBackfill == "backfill" \notin Commands => pc.cli \notin {"backfill", "sealing"}
NoneWaiting == Legacy = <<>> => Waiting = {}
SealerAhead ==
  pc.resident = "sealing" /\ Waiting # {}
    => /\ Waiting \subseteq sealer["resident"].todo
       /\ \A q \in Sealed(rows) : Len(q.chain) <= Len(sealer["resident"].previous)

ChainInv == /\ Growing /\ WaitingLast /\ ServingSealed
            /\ NoBackfill /\ NoneWaiting /\ SealerAhead

\* As long as each purge found every row sealed and took adjacent transcript rows
\* only, every break that the walk reports is explained by the deletion log,
\* however purges pile up.
BreaksAccountedFor ==
  (\A i \in DOMAIN history : history[i].plain)
    => \A r \in Breaks(rows) : Explained(rows, r, Holes)

\* No step takes away the projection of a transcript record that stays stored,
\* which the next re-projection would silently bring back after a purge.
Projected(r) == <<r.ev.call, r.ev.session>> \in calls
KeepsProjected ==
  \A r \in rows \cap rows' : r.ev.lane = "transcript" /\ Projected(r) => Projected(r)'
NeverSeparated == [][KeepsProjected]_vars

\* No projected call has lost all of its evidence, which nothing could rebuild.
NoOrphanProjection ==
  \A c \in calls : \E r \in rows : <<r.ev.call, r.ev.session>> = c

\* The number of records a deletion says it removed is the number it removed.
CountedAsRemoved ==
  \A i \in DOMAIN history : history[i].removed = deletions[i].count

\* A purge removes no session the preview printed before it did not name.
ShownBeforeGone == \A i \in DOMAIN history : history[i].unseen = {}

\* An age or size purge removes no session that was active since the cutoff.
NothingActivePurged == \A i \in DOMAIN history : history[i].active = {}

\* A row is sealed once: no step changes a sealed row, and only a step that
\* adds to the deletion log removes one.
SealsOnce == \A r \in Sealed(rows) : r \in rows' \/ Len(deletions') > Len(deletions)
SealedOnce == [][SealsOnce]_vars

\* The deletion log is never shortened or rewritten, a later purge included.
DeletionLogKept ==
  [][/\ Len(deletions') >= Len(deletions)
     /\ \A i \in DOMAIN deletions : deletions'[i] = deletions[i]]_vars

\* The store implements the abstract trail: contents are captured once, and
\* leave only together with an entry in the log.
Trail == INSTANCE AuditTrail WITH Content <- Body,
                                  held <- {r.ev.body : r \in rows},
                                  log <- Len(deletions)
ImplementsTrail == Trail!Spec
=============================================================================
