------------------------ MODULE EvidenceStoreProofs ------------------------
(***************************************************************************)
(* What holds of EvidenceStore for every set of events, sessions, scopes   *)
(* and every bound.                                                        *)
(***************************************************************************)
EXTENDS EvidenceStore, Extremes, FiniteSetTheorems, TLAPS

-----------------------------------------------------------------------------
(* First and last. *)

\* First and Last name the rows of the least and the greatest id.
LEMMA FirstLast ==
  ASSUME NEW rs, rs # {}, \A r \in rs : r.id \in 1..MaxId
  PROVE  /\ First(rs) \in rs /\ \A q \in rs : First(rs).id <= q.id
         /\ Last(rs) \in rs  /\ \A q \in rs : q.id <= Last(rs).id
<1> DEFINE S == {r.id : r \in rs}
<1>1. S \in SUBSET (0..MaxId) /\ S # {}
  BY StoreAssumption
<1>2. \E m \in S : \A k \in S : m <= k
  BY <1>1, HasLeast, StoreAssumption
<1>3. \E m \in S : \A k \in S : k <= m
  BY <1>1, HasGreatest, StoreAssumption
<1>4. \E r \in rs : \A q \in rs : r.id <= q.id
  BY <1>2
<1>5. \E r \in rs : \A q \in rs : q.id <= r.id
  BY <1>3
<1> QED BY <1>4, <1>5 DEF First, Last

-----------------------------------------------------------------------------
(* The type of what the operators build. *)

LEMMA CarriedType ==
  ASSUME NEW rs, rs \subseteq Row
  PROVE  Carried(rs) \in Chain
<1>1. CASE rs = {}
  BY <1>1 DEF Carried, Genesis, Chain
<1>2. CASE rs # {}
  <2>1. Last(rs) \in rs
    BY <1>2, FirstLast DEF Row
  <2> QED BY <1>2, <2>1 DEF Carried, Row
<1> QED BY <1>1, <1>2

LEMMA NextIdFresh ==
  ASSUME rows \subseteq Row
  PROVE  /\ NextId \in Nat \ {0}
         /\ \A r \in rows : r.id < NextId
<1>1. CASE rows = {}
  BY <1>1 DEF NextId
<1>2. CASE rows # {}
  <2>1. Last(rows) \in rows /\ \A q \in rows : q.id <= Last(rows).id
    BY <1>2, FirstLast DEF Row
  <2> QED BY <1>2, <2>1, StoreAssumption DEF NextId, Row
<1> QED BY <1>1, <1>2

LEMMA NewRowType ==
  ASSUME TypeOK, NEW e \in Event, Fresh(e)
  PROVE  /\ NewRow(e) \in Row
         /\ NewRow(e).id = NextId /\ NextId \in 1..MaxId
         /\ NewRow(e).ev = e /\ NewRow(e).sealed = TRUE
         /\ NewRow(e).chain = Link(ChainHead(rows), RowDigest(NewRow(e)))
<1>1. NextId \in 1..MaxId
  BY NextIdFresh, StoreAssumption DEF TypeOK, Fresh
<1>2. ChainHead(rows) \in Chain
  BY CarriedType DEF TypeOK, ChainHead, Sealed
<1>3. [ev |-> e, at |-> clock] \in Digest
  BY DEF TypeOK, Digest
<1>4. Link(ChainHead(rows), [ev |-> e, at |-> clock]) \in Chain
  BY <1>2, <1>3 DEF Link, Chain
<1> QED BY <1>1, <1>4 DEF NewRow, Row, TypeOK, RowDigest

SessionRow == [known : BOOLEAN, path : Ref \cup {NoRef}, last : 0..MaxClock]

LEMMA SessionAfterType ==
  ASSUME TypeOK, NEW rs, rs \subseteq Row, NEW s \in Session
  PROVE  SessionAfter(s, rs) \in SessionRow
<1> DEFINE mine  == {r \in rs : r.ev.session = s}
           lines == {r \in mine : r.ev.lane = "transcript"}
           times == {session[s].last} \cup {r.ev.when : r \in mine}
<1>1. session[s] \in SessionRow
  BY DEF TypeOK, SessionRow
<1>2. times \in SUBSET (0..MaxClock) /\ times # {}
  BY <1>1, EventAssumption DEF Row, SessionRow
<1>3. \E t \in times : \A u \in times : u <= t
  BY <1>2, HasGreatest, StoreAssumption
<1>4. (CHOOSE t \in times : \A u \in times : u <= t) \in 0..MaxClock
  <2> HIDE DEF times
  <2> QED BY <1>2, <1>3
<1>5. (IF lines = {} THEN session[s].path ELSE Last(lines).ev.ref) \in Ref \cup {NoRef}
  <2>1. CASE lines = {}
    BY <1>1, <2>1 DEF SessionRow
  <2>2. CASE lines # {}
    <3>1. lines \subseteq Row
      OBVIOUS
    <3>2. Last(lines) \in Row
      BY <2>2, <3>1, FirstLast DEF Row
    <3>3. Last(lines).ev.ref \in Ref
      BY <3>2 DEF Row, Ref
    <3> QED BY <2>2, <3>3
  <2> QED BY <2>1, <2>2
<1> QED BY <1>1, <1>4, <1>5 DEF SessionAfter, SessionRow

LEMMA ProjectRowsType ==
  ASSUME TypeOK, NEW rs, rs \subseteq Row, ProjectRows(rs)
  PROVE  /\ session' \in [Session -> SessionRow]
         /\ calls' \subseteq {<<e.call, e.session>> : e \in Event}
<1>1. session' \in [Session -> SessionRow]
  BY SessionAfterType DEF ProjectRows
<1>2. calls' \subseteq {<<e.call, e.session>> : e \in Event}
  BY DEF ProjectRows, TypeOK, Row
<1> QED BY <1>1, <1>2

LEMMA OwnedBytesType ==
  ASSUME TypeOK, NEW S, S \subseteq Session
  PROVE  OwnedBytes(S) \in Nat
<1>1. IsFiniteSet(S)
  BY FS_Subset, StoreAssumption
<1>2. IsFiniteSet(S \X rows)
  BY <1>1, FS_Product DEF TypeOK
<1>3. IsFiniteSet({sr \in S \X rows : sr[2] \in Owned(sr[1])})
  BY <1>2, FS_Subset
<1> QED BY <1>3, FS_CardinalityType DEF OwnedBytes

LEMMA FiniteRows ==
  ASSUME TypeOK, NEW rs, rs \subseteq rows
  PROVE  IsFiniteSet(rs) /\ Cardinality(rs) \in Nat
BY FS_Subset, FS_CardinalityType DEF TypeOK

LEMMA PreviewType ==
  ASSUME TypeOK, NEW sc \in Scope
  PROVE  /\ Preview(sc).scope = sc
         /\ Preview(sc).doomed \subseteq Session \X (Ref \cup {NoRef})
         /\ IsFiniteSet(Preview(sc).doomed)
         /\ Preview(sc).count \in Nat
         /\ Preview(sc).shown = {}
<1> DEFINE derived == IF sc.kind = "to_fit" THEN CutoffFor(sc.bytes) ELSE NoCutoff
           line    == Line(sc, derived)
           going   == IF sc.kind = "sessions" THEN Known \cap sc.sessions
                      ELSE OlderThan(line)
           otlp    == IF sc.kind = "sessions" THEN 0
                      ELSE Cardinality(OtlpBefore(line))
           pairs   == {<<s, session[s].path>> : s \in going}
<1>1. going \subseteq Session
  BY DEF Known, OlderThan
<1>2. pairs \subseteq Session \X (Ref \cup {NoRef})
  BY <1>1 DEF TypeOK
<1>3. IsFiniteSet(pairs)
  <2>1. IsFiniteSet(going)
    BY <1>1, FS_Subset, StoreAssumption
  <2> DEFINE f == [s \in going |-> <<s, session[s].path>>]
  <2>2. f \in Surjection(going, pairs)
    BY DEF Surjection
  <2> HIDE DEF f
  <2> QED BY <2>1, <2>2, FS_Surjection
<1>4. otlp \in Nat
  BY FiniteRows DEF OtlpBefore
<1>5. OwnedBytes(going) \in Nat
  BY <1>1, OwnedBytesType
<1>6. OwnedBytes(going) + otlp \in Nat
  BY <1>4, <1>5
<1>7. Preview(sc) = [scope |-> sc, doomed |-> pairs, otlp |-> otlp,
                     derived |-> derived, count |-> OwnedBytes(going) + otlp,
                     shown |-> {}]
  BY DEF Preview
<1> HIDE DEF derived, line, going, otlp, pairs
<1> QED BY <1>2, <1>3, <1>6, <1>7

-----------------------------------------------------------------------------
(* TypeOK is inductive. *)

LEMMA TypeInit == Init => TypeOK
<1> SUFFICES ASSUME Init PROVE TypeOK
  OBVIOUS
<1> USE StoreAssumption, EventAssumption
<1>1. \A i \in DOMAIN Legacy : Legacy[i] \in Event /\ i \in 1..MaxId
  OBVIOUS
<1>2. rows \subseteq Row
  <2>1. <<>> \in Chain
    BY DEF Chain
  <2>2. \A i \in DOMAIN Legacy : LegacyRow(i) \in Row
    BY <1>1, <2>1 DEF LegacyRow, Row, Genesis
  <2> QED BY <2>2 DEF Init
<1>3. IsFiniteSet(rows)
  <2> DEFINE f == [i \in DOMAIN Legacy |-> LegacyRow(i)]
  <2>1. DOMAIN Legacy = 1..Len(Legacy) /\ Len(Legacy) \in Nat
    OBVIOUS
  <2>2. IsFiniteSet(DOMAIN Legacy)
    BY <2>1, FS_Interval
  <2>3. f \in Surjection(DOMAIN Legacy, rows)
    BY DEF Surjection, Init
  <2> HIDE DEF f
  <2> QED BY <2>2, <2>3, FS_Surjection
<1>4. session \in [Session -> SessionRow]
  <2> SUFFICES ASSUME NEW s \in Session PROVE LegacySession(s) \in SessionRow
    BY DEF Init
  <2>1. CASE LegacyOf(s) = {}
    BY <2>1 DEF LegacySession, Absent, SessionRow
  <2>2. CASE LegacyOf(s) # {}
    <3> DEFINE times == {e.when : e \in LegacyOf(s)}
               newest == CHOOSE e \in LegacyOf(s) : \A f \in LegacyOf(s) : f.when <= e.when
    <3>1. LegacyOf(s) \subseteq Event
      BY <1>1 DEF LegacyOf
    <3>2. times \in SUBSET (0..MaxClock) /\ times # {}
      BY <2>2, <3>1
    <3>3. \E t \in times : \A u \in times : u <= t
      BY <3>2, HasGreatest
    <3>4. newest \in LegacyOf(s)
      BY <3>3
    <3>5. newest.ref \in Ref /\ newest.when \in 0..MaxClock
      BY <3>1, <3>4 DEF Ref
    <3> HIDE DEF newest
    <3>6. LegacySession(s) = [known |-> TRUE, path |-> newest.ref, last |-> newest.when]
      BY <2>2 DEF LegacySession, newest
    <3> QED BY <3>5, <3>6 DEF SessionRow
  <2> QED BY <2>1, <2>2
<1>5. calls \subseteq {<<e.call, e.session>> : e \in Event}
  BY <1>1 DEF Init
<1>6. pc \in [Process -> {"down", "idle", "sealing", "serving", "backfill",
                          "shown", "planned"}]
      /\ pc.cli = "idle"
  BY DEF Init, Process
<1>7. sealer \in [Process -> [todo : SUBSET Row, previous : Chain]]
  BY DEF Init, Idle, Genesis, Chain
<1>8. PlanTypeOK
  BY <1>6, FS_EmptySet DEF PlanTypeOK, Init, NoPlan
<1>9. deletions \in Seq(Entry) /\ history \in Seq(Observation)
      /\ clock \in 0..MaxClock /\ pending \in [Process -> 0..MaxId]
  BY DEF Init
<1> QED BY <1>2, <1>3, <1>4, <1>5, <1>6, <1>7, <1>8, <1>9 DEF TypeOK, SessionRow

LEMMA StoreRowType ==
  ASSUME TypeOK, NEW e \in Event, Fresh(e), StoreRow(e)
  PROVE  rows' \subseteq Row /\ IsFiniteSet(rows')
<1>1. NewRow(e) \in Row /\ rows' = rows \cup {NewRow(e)}
  BY NewRowType DEF StoreRow
<1>2. rows \subseteq Row /\ IsFiniteSet(rows)
  BY DEF TypeOK
<1>3. IsFiniteSet(rows \cup {NewRow(e)})
  BY <1>2, FS_AddElement
<1> QED BY <1>1, <1>2, <1>3

LEMMA SealRowType ==
  ASSUME TypeOK, NEW p \in Process, SealRow(p)
  PROVE  /\ rows' \subseteq Row /\ IsFiniteSet(rows')
         /\ sealer' \in [Process -> [todo : SUBSET Row, previous : Chain]]
<1> DEFINE read  == First(sealer[p].todo)
           value == Link(sealer[p].previous, RowDigest(read))
           f     == [r \in rows |-> IF Sealable(r, read.id)
                                    THEN [r EXCEPT !.sealed = TRUE, !.chain = value]
                                    ELSE r]
<1>1. sealer[p].todo \in SUBSET Row /\ sealer[p].previous \in Chain
  BY DEF TypeOK
<1>2. read \in Row
  BY <1>1, FirstLast DEF SealRow, Row
<1>3. RowDigest(read) \in Digest
  BY <1>2 DEF RowDigest, Row, Digest
<1>4. value \in Chain
  BY <1>1, <1>3 DEF Link, Chain
<1>5. rows' = {f[r] : r \in rows}
  BY DEF SealRow
<1>6. sealer' = [sealer EXCEPT ![p] =
        [todo |-> sealer[p].todo \ {read}, previous |-> value]]
  BY DEF SealRow
<1> HIDE DEF value, read
<1>7. \A r \in rows : f[r] \in Row
  <2> SUFFICES ASSUME NEW r \in rows PROVE f[r] \in Row
    OBVIOUS
  <2>1. r \in Row
    BY DEF TypeOK
  <2>2. [r EXCEPT !.sealed = TRUE, !.chain = value] \in Row
    BY <1>4, <2>1 DEF Row
  <2> QED BY <2>1, <2>2
<1>8. f \in Surjection(rows, rows')
  BY <1>5 DEF Surjection
<1>9. IsFiniteSet(rows')
  <2> HIDE DEF f
  <2> QED BY <1>8, FS_Surjection DEF TypeOK
<1>10. sealer' \in [Process -> [todo : SUBSET Row, previous : Chain]]
  BY <1>1, <1>4, <1>6 DEF TypeOK
<1> QED BY <1>5, <1>7, <1>9, <1>10

LEMMA BelowType ==
  ASSUME TypeOK, NEW id
  PROVE  Carried(Below(rows, id)) \in Chain
BY CarriedType DEF TypeOK, Below, Sealed

LEMMA PurgeType ==
  ASSUME TypeOK, Purge
  PROVE  /\ rows' \subseteq Row /\ IsFiniteSet(rows')
         /\ session' \in [Session -> SessionRow]
         /\ calls' \subseteq {<<e.call, e.session>> : e \in Event}
         /\ deletions' \in Seq(Entry) /\ history' \in Seq(Observation)
         /\ Len(deletions') = Len(deletions) + 1
<1>1. rows' \subseteq Row /\ IsFiniteSet(rows')
  BY FiniteRows DEF Purge, TypeOK
<1>2. session' \in [Session -> SessionRow]
  BY StoreAssumption DEF Purge, TypeOK, SessionRow, Absent
<1>3. calls' \subseteq {<<e.call, e.session>> : e \in Event}
  BY DEF Purge, TypeOK, KeptCalls
<1>4. Deletion(plan) \in Entry
  <2>1. plan.scope.kind \in {"before", "to_fit", "sessions"}
    BY ScopeAssumption DEF Purge, TypeOK, PlanTypeOK
  <2>2. Cardinality(plan.doomed) \in Nat /\ plan.count \in Nat
    BY FS_CardinalityType DEF TypeOK, PlanTypeOK
  <2>3. ChainBefore(plan) \in SUBSET Chain
    BY BelowType DEF ChainBefore
  <2> QED BY <2>1, <2>2, <2>3 DEF Deletion, Entry
<1>5. Observed(plan) \in Observation
  <2>1. Cardinality(Going(plan)) \in Nat
    BY FiniteRows DEF Going, OtlpBefore
  <2>2. Doomed(plan) \subseteq Session
    BY DEF Doomed, TypeOK, PlanTypeOK
  <2>3. (Going(plan) = {} \/ Contiguous(Going(plan))) \in BOOLEAN
    BY DEF Contiguous
  <2> QED BY <2>1, <2>2, <2>3 DEF Observed, Observation
<1>6. deletions' = Append(deletions, Deletion(plan))
      /\ history' = Append(history, Observed(plan))
  BY DEF Purge, Logged
<1>7. deletions' \in Seq(Entry) /\ history' \in Seq(Observation)
      /\ Len(deletions') = Len(deletions) + 1
  BY <1>4, <1>5, <1>6 DEF TypeOK
<1> QED BY <1>1, <1>2, <1>3, <1>7

LEMMA TypeNext == TypeOK /\ [Next]_vars => TypeOK'
<1> SUFFICES ASSUME TypeOK, [Next]_vars PROVE TypeOK'
  OBVIOUS
<1> USE DEF SessionRow
<1>1. ASSUME NEW e \in Event, Observe(e) PROVE TypeOK'
  <2>1. NewRow(e) \in Row
    BY <1>1, NewRowType DEF Observe
  <2>2. session' \in [Session -> SessionRow]
        /\ calls' \subseteq {<<x.call, x.session>> : x \in Event}
    BY <1>1, <2>1, ProjectRowsType DEF Observe
  <2> QED BY <1>1, <2>2, StoreRowType DEF Observe, TypeOK, PlanTypeOK
<1>2. ASSUME NEW p \in Process, NEW e \in Event, StoreLine(p, e) PROVE TypeOK'
  <2>1. pending' \in [Process -> 0..MaxId]
    <3>1. NextId \in 1..MaxId
      BY <1>2, NewRowType DEF StoreLine
    <3> QED BY <1>2, <3>1, StoreAssumption DEF StoreLine, TypeOK
  <2> QED BY <1>2, <2>1, StoreRowType DEF StoreLine, TypeOK, PlanTypeOK
<1>3. ASSUME NEW p \in Process, ProjectLines(p) PROVE TypeOK'
  <2> DEFINE rs == {r \in rows : r.id >= pending[p] /\ r.ev.lane = "transcript"}
  <2>1. rs \subseteq Row /\ ProjectRows(rs)
    BY <1>3 DEF ProjectLines, TypeOK
  <2>2. session' \in [Session -> SessionRow]
        /\ calls' \subseteq {<<x.call, x.session>> : x \in Event}
    <3> HIDE DEF rs
    <3> QED BY <2>1, ProjectRowsType
  <2>3. pending' \in [Process -> 0..MaxId]
    BY <1>3, StoreAssumption DEF ProjectLines, TypeOK
  <2> QED BY <1>3, <2>2, <2>3 DEF ProjectLines, TypeOK, PlanTypeOK
<1>4. ASSUME NEW p \in Process, BeginSeal(p), p = "cli" => pc.cli = "backfill"
      PROVE  TypeOK'
  <2>1. SealPass \in [todo : SUBSET Row, previous : Chain]
    BY CarriedType DEF SealPass, TypeOK, ChainHead, Sealed
  <2> QED BY <1>4, <2>1 DEF BeginSeal, store, TypeOK, PlanTypeOK, Process
<1>5. CASE StartResident
  BY <1>4, <1>5 DEF StartResident, Process
<1>6. CASE StartBackfill
  BY <1>6 DEF StartBackfill, store, TypeOK, PlanTypeOK, Process
<1>7. CASE EndBackfill
  BY <1>4, <1>7 DEF EndBackfill, Process
<1>8. ASSUME NEW p \in Process, SealRow(p) PROVE TypeOK'
  BY <1>8, SealRowType DEF SealRow, TypeOK, PlanTypeOK
<1>9. ASSUME NEW p \in Process, EndSeal(p) PROVE TypeOK'
  <2>1. Idle \in [todo : SUBSET Row, previous : Chain]
    BY DEF Idle, Genesis, Chain
  <2> QED BY <1>9, <2>1 DEF EndSeal, store, TypeOK, PlanTypeOK, Process
<1>10. ASSUME NEW p \in Process, Kill(p) PROVE TypeOK'
  <2>1. Idle \in [todo : SUBSET Row, previous : Chain]
    BY DEF Idle, Genesis, Chain
  <2>2. PlanTypeOK'
    BY <1>10, FS_EmptySet DEF Kill, TypeOK, PlanTypeOK, Process, NoPlan
  <2> QED BY <1>10, <2>1, <2>2, StoreAssumption DEF Kill, store, TypeOK, Process
<1>11. ASSUME NEW sc \in Scope, ShowPurge(sc) PROVE TypeOK'
  <2>1. PlanTypeOK'
    BY <1>11, PreviewType DEF ShowPurge, TypeOK, PlanTypeOK, Process
  <2> QED BY <1>11, <2>1 DEF ShowPurge, store, TypeOK, Process
<1>12. CASE Decline
  <2>1. PlanTypeOK'
    BY <1>12, FS_EmptySet DEF Decline, TypeOK, PlanTypeOK, Process, NoPlan
  <2> QED BY <1>12, <2>1 DEF Decline, store, TypeOK, Process
<1>13. CASE PlanPurge
  <2> DEFINE pv == Preview(plan.scope)
  <2>1. plan.scope \in Scope /\ Doomed(plan) \subseteq Session
    BY <1>13 DEF PlanPurge, TypeOK, PlanTypeOK, Doomed
  <2>2. plan' = [scope |-> pv.scope, doomed |-> pv.doomed, otlp |-> pv.otlp,
                 derived |-> pv.derived, count |-> pv.count, shown |-> Doomed(plan)]
    BY <1>13 DEF PlanPurge, Preview
  <2>3. PlanTypeOK'
    <3> HIDE DEF pv
    <3>1. /\ pv.scope = plan.scope
          /\ pv.doomed \subseteq Session \X (Ref \cup {NoRef})
          /\ IsFiniteSet(pv.doomed) /\ pv.count \in Nat
      BY <2>1, PreviewType DEF pv
    <3> QED BY <2>1, <2>2, <3>1 DEF PlanTypeOK
  <2> QED BY <1>13, <2>3 DEF PlanPurge, store, TypeOK, Process
<1>14. CASE Purge
  <2>1. PlanTypeOK'
    BY <1>14, FS_EmptySet DEF Purge, TypeOK, PlanTypeOK, Process, NoPlan
  <2>2. pc' \in [Process -> {"down", "idle", "sealing", "serving", "backfill",
                             "shown", "planned"}]
        /\ clock' = clock /\ pending' = pending /\ sealer' = sealer
    BY <1>14 DEF Purge, TypeOK, Process
  <2> QED BY <1>14, <2>1, <2>2, PurgeType DEF TypeOK
<1>15. CASE Tick
  BY <1>15, StoreAssumption DEF Tick, store, TypeOK, PlanTypeOK
<1>16. CASE UNCHANGED vars
  BY <1>16 DEF vars, TypeOK, PlanTypeOK
<1> QED BY <1>1, <1>2, <1>3, <1>5, <1>6, <1>7, <1>8, <1>9, <1>10, <1>11, <1>12,
           <1>13, <1>14, <1>15, <1>16 DEF Next

\* Every variable keeps its type, for any events, sessions, scopes and bounds:
\* what chain.rs, raw.rs and retention.rs write is always a well-formed store.
THEOREM TypeCorrect == Spec => []TypeOK
<1>1. Init => TypeOK
  BY TypeInit
<1>2. TypeOK /\ [Next]_vars => TypeOK'
  BY TypeNext
<1> QED BY <1>1, <1>2, PTL DEF Spec

-----------------------------------------------------------------------------
(* Steps fall into four kinds, as far as the stored rows are concerned.    *)

Stores(e) == /\ Fresh(e) /\ StoreRow(e)
             /\ UNCHANGED <<deletions, pc, sealer>>
             /\ \/ pc.resident = "serving"
                \/ pc.cli = "backfill"

LEMMA StepKinds ==
  ASSUME [Next]_vars
  PROVE  \/ \E e \in Event : Stores(e)
         \/ \E p \in Process : SealRow(p)
         \/ Purge
         \/ UNCHANGED <<rows, deletions>>
<1>1. ASSUME NEW e \in Event, Observe(e) PROVE Stores(e)
  BY <1>1 DEF Observe, Stores
<1>2. ASSUME NEW p \in Process, NEW e \in Event, StoreLine(p, e) PROVE Stores(e)
  BY <1>2 DEF StoreLine, Ingesting, Process, Stores
<1> QED BY <1>1, <1>2
        DEF Next, vars, store, ProjectLines, BeginSeal, StartResident, StartBackfill,
            EndBackfill, EndSeal, Kill, ShowPurge, Decline, PlanPurge, Tick

\* Sealing a row changes nothing but its own seal.
SealsTo(q, r) == r.id = q.id /\ r.ev = q.ev /\ r.at = q.at /\ (q.sealed => r = q)

LEMMA SealKeeps ==
  ASSUME TypeOK, NEW p \in Process, SealRow(p)
  PROVE  /\ deletions' = deletions
         /\ \A r \in rows' : \E q \in rows : SealsTo(q, r)
         /\ \A q \in rows : \E r \in rows' : SealsTo(q, r)
<1> DEFINE read  == First(sealer[p].todo)
           value == Link(sealer[p].previous, RowDigest(read))
           f(r)  == IF Sealable(r, read.id)
                    THEN [r EXCEPT !.sealed = TRUE, !.chain = value]
                    ELSE r
<1>1. rows' = {f(r) : r \in rows} /\ deletions' = deletions
  BY DEF SealRow
<1> HIDE DEF read, value
<1>2. \A q \in rows : SealsTo(q, f(q))
  <2> SUFFICES ASSUME NEW q \in rows PROVE SealsTo(q, f(q))
    OBVIOUS
  <2>1. q \in Row
    BY DEF TypeOK
  <2>2. CASE Sealable(q, read.id)
    BY <2>1, <2>2 DEF Row, SealsTo, Sealable
  <2>3. CASE ~Sealable(q, read.id)
    BY <2>3 DEF SealsTo
  <2> QED BY <2>2, <2>3
<1> HIDE DEF f
<1> QED BY <1>1, <1>2

-----------------------------------------------------------------------------
(* Deduplication. *)

LEMMA UniqueInit == Init => OneRowPerBody
<1> SUFFICES ASSUME Init, NEW q \in rows, NEW r \in rows,
                    q.ev.body = r.ev.body \/ q.id = r.id
             PROVE  q = r
  BY DEF OneRowPerBody
<1>1. PICK i \in DOMAIN Legacy, j \in DOMAIN Legacy :
        q = LegacyRow(i) /\ r = LegacyRow(j)
  BY DEF Init
<1>2. Legacy[i].body = Legacy[j].body \/ i = j
  BY <1>1 DEF LegacyRow
<1>3. i = j
  BY <1>2, StoreAssumption
<1> QED BY <1>1, <1>3

LEMMA UniqueStore ==
  ASSUME TypeOK, OneRowPerBody, NEW e \in Event, Stores(e)
  PROVE  OneRowPerBody'
<1>1. /\ rows' = rows \cup {NewRow(e)} /\ NewRow(e).id = NextId /\ NewRow(e).ev = e
  BY NewRowType DEF Stores, StoreRow
<1>2. \A q \in rows : q.id # NextId
  BY NextIdFresh DEF TypeOK, Row
<1>3. \A q \in rows : q.ev.body # e.body
  BY DEF Stores, Fresh, Held
<1> QED BY <1>1, <1>2, <1>3 DEF OneRowPerBody

LEMMA UniqueSeal ==
  ASSUME TypeOK, OneRowPerBody, NEW p \in Process, SealRow(p)
  PROVE  OneRowPerBody'
<1> DEFINE read  == First(sealer[p].todo)
           value == Link(sealer[p].previous, RowDigest(read))
           f(r)  == IF Sealable(r, read.id)
                    THEN [r EXCEPT !.sealed = TRUE, !.chain = value]
                    ELSE r
<1>1. rows' = {f(r) : r \in rows}
  BY DEF SealRow
<1> HIDE DEF read, value
<1>2. \A q \in rows : f(q).id = q.id /\ f(q).ev = q.ev
  BY DEF TypeOK, Row
<1> HIDE DEF f
<1> SUFFICES ASSUME NEW a \in rows', NEW b \in rows',
                    a.ev.body = b.ev.body \/ a.id = b.id
             PROVE  a = b
  BY DEF OneRowPerBody
<1>3. PICK q \in rows, r \in rows : a = f(q) /\ b = f(r)
  BY <1>1
<1>4. q = r
  BY <1>2, <1>3 DEF OneRowPerBody
<1> QED BY <1>3, <1>4

LEMMA UniqueNext == TypeOK /\ OneRowPerBody /\ [Next]_vars => OneRowPerBody'
<1> SUFFICES ASSUME TypeOK, OneRowPerBody, [Next]_vars PROVE OneRowPerBody'
  OBVIOUS
<1>1. CASE Purge
  BY <1>1 DEF Purge, OneRowPerBody
<1>2. CASE UNCHANGED <<rows, deletions>>
  BY <1>2 DEF OneRowPerBody
<1> QED BY <1>1, <1>2, StepKinds, UniqueStore, UniqueSeal

\* raw::insert holds each body at most once and no id names two rows, whichever
\* process inserts, however rows were sealed or purged in between; and the store
\* keeps its shape.
THEOREM StoredOnce == Spec => []StoreInv
<1>1. Init => StoreInv
  BY TypeInit, UniqueInit DEF StoreInv
<1>2. StoreInv /\ [Next]_vars => StoreInv'
  BY TypeNext, UniqueNext DEF StoreInv
<1> QED BY <1>1, <1>2, PTL DEF Spec

-----------------------------------------------------------------------------
(* What no step may do. *)

\* A sealed row is never changed, and removed only with an entry in the log.
THEOREM NeverResealed == Spec => SealedOnce
<1>1. TypeOK /\ [Next]_vars
        => \A r \in Sealed(rows) : r \in rows' \/ Len(deletions') > Len(deletions)
  <2> SUFFICES ASSUME TypeOK, [Next]_vars, NEW r \in Sealed(rows)
               PROVE  r \in rows' \/ Len(deletions') > Len(deletions)
    OBVIOUS
  <2>0. r \in rows /\ r.sealed
    BY DEF Sealed
  <2>1. ASSUME NEW e \in Event, Stores(e) PROVE r \in rows'
    BY <2>0, <2>1 DEF Stores, StoreRow
  <2>2. ASSUME NEW p \in Process, SealRow(p) PROVE r \in rows'
    BY <2>0, <2>2, SealKeeps DEF SealsTo
  <2>3. CASE Purge
    BY <2>3, PurgeType DEF TypeOK
  <2>4. CASE UNCHANGED <<rows, deletions>>
    BY <2>0, <2>4
  <2> QED BY <2>1, <2>2, <2>3, <2>4, StepKinds
<1> QED BY <1>1, TypeCorrect, PTL DEF Spec, SealedOnce, SealsOnce

\* The deletion log only grows at its end.
THEOREM LogKept == Spec => DeletionLogKept
<1>1. TypeOK /\ [Next]_vars
        => /\ Len(deletions') >= Len(deletions)
           /\ \A i \in DOMAIN deletions : deletions'[i] = deletions[i]
  <2> SUFFICES ASSUME TypeOK, [Next]_vars
               PROVE  /\ Len(deletions') >= Len(deletions)
                      /\ \A i \in DOMAIN deletions : deletions'[i] = deletions[i]
    OBVIOUS
  <2>0. deletions \in Seq(Entry)
    BY DEF TypeOK
  <2>1. CASE Purge
    <3>1. deletions' = Append(deletions, Deletion(plan))
      BY <2>1 DEF Purge, Logged
    <3>2. Len(deletions') = Len(deletions) + 1
      BY <2>1, PurgeType
    <3> QED BY <2>0, <3>1, <3>2
  <2>2. CASE deletions' = deletions
    BY <2>0, <2>2
  <2> QED BY <2>1, <2>2, StepKinds, SealKeeps DEF Stores
<1> QED BY <1>1, TypeCorrect, PTL DEF Spec, DeletionLogKept

-----------------------------------------------------------------------------
(* The store implements the abstract trail. *)

Contents == {r.ev.body : r \in rows}

\* Every step captures one content, forgets some with a log entry, or is none
\* of the reader's business.
THEOREM Implements == Spec => ImplementsTrail
<1>1. Init => Trail!Init
  <2> SUFFICES ASSUME Init PROVE Trail!Init
    OBVIOUS
  <2>1. TypeOK
    BY TypeInit
  <2> QED BY <2>1 DEF Trail!Init, TypeOK, Row, Body, Init
<1>2. TypeOK /\ [Next]_vars => [Trail!Next]_(Trail!trail)
  <2> SUFFICES ASSUME TypeOK, [Next]_vars PROVE [Trail!Next]_(Trail!trail)
    OBVIOUS
  <2>1. ASSUME NEW e \in Event, Stores(e) PROVE [Trail!Next]_(Trail!trail)
    <3>1. rows' = rows \cup {NewRow(e)} /\ NewRow(e).ev = e /\ deletions' = deletions
      BY <2>1, NewRowType DEF Stores, StoreRow
    <3>2. e.body \notin Contents /\ e.body \in Body
      BY <2>1 DEF Stores, Fresh, Held, Contents, Body
    <3>3. Contents' = Contents \cup {e.body}
      BY <3>1 DEF Contents
    <3>4. Trail!Capture(e.body)
      BY <3>1, <3>2, <3>3 DEF Trail!Capture, Contents
    <3> QED BY <3>2, <3>4 DEF Trail!Next
  <2>2. ASSUME NEW p \in Process, SealRow(p) PROVE [Trail!Next]_(Trail!trail)
    <3>1. Contents' = Contents /\ deletions' = deletions
      BY <2>2, SealKeeps DEF SealsTo, Contents
    <3> QED BY <3>1 DEF Contents, Trail!trail
  <2>3. ASSUME Purge PROVE Trail!Next
    <3>1. Contents' \subseteq Contents
      BY <2>3 DEF Purge, Contents
    <3>2. Len(deletions') = Len(deletions) + 1
      BY <2>3, PurgeType
    <3>3. PICK gone \in SUBSET Contents : gone = Contents \ Contents'
      OBVIOUS
    <3>4. Trail!Forget(gone)
      BY <3>1, <3>2, <3>3 DEF Trail!Forget, Contents
    <3> QED BY <3>4 DEF Trail!Next, Contents
  <2>4. CASE UNCHANGED <<rows, deletions>>
    BY <2>4 DEF Trail!trail
  <2>5. CASE Purge
    BY <2>3, <2>5
  <2> QED BY <2>1, <2>2, <2>4, <2>5, StepKinds
<1> QED BY <1>1, <1>2, TypeCorrect, PTL DEF Spec, ImplementsTrail, Trail!Spec

-----------------------------------------------------------------------------
(* The chain. *)

IInv == TypeOK /\ OneRowPerBody /\ ChainInv

LEMMA ChainInit == Init => ChainInv
<1> SUFFICES ASSUME Init PROVE ChainInv
  OBVIOUS
<1>1. Sealed(rows) = {} /\ Waiting = rows
  BY DEF Init, LegacyRow, Sealed, Waiting
<1>2. pc.resident = "down" /\ pc.cli = "idle"
  BY DEF Init, Process
<1>3. Legacy = <<>> => rows = {}
  BY DEF Init
<1> QED BY <1>1, <1>2, <1>3
        DEF ChainInv, Growing, WaitingLast, ServingSealed, NoBackfill, NoneWaiting,
            SealerAhead

\* The head is the longest value, and one row past it is longer than all.
LEMMA HeadLongest ==
  ASSUME TypeOK, OneRowPerBody, Growing
  PROVE  /\ ChainHead(rows) \in Chain
         /\ \A q \in Sealed(rows) : Len(q.chain) <= Len(ChainHead(rows))
<1>1. Sealed(rows) \subseteq Row
  BY DEF TypeOK, Sealed
<1>2. ChainHead(rows) \in Chain
  BY <1>1, CarriedType DEF ChainHead
<1>3. ASSUME NEW q \in Sealed(rows) PROVE Len(q.chain) <= Len(ChainHead(rows))
  <2> DEFINE last == Last(Sealed(rows))
  <2>1. last \in Sealed(rows) /\ q.id <= last.id
    BY <1>1, <1>3, FirstLast DEF Row
  <2>2. ChainHead(rows) = last.chain
    BY <1>3 DEF ChainHead, Carried
  <2> HIDE DEF last
  <2>3. q \in Row /\ last \in Row
    BY <1>1, <1>3, <2>1
  <2>4. Len(q.chain) \in Nat /\ Len(last.chain) \in Nat
    BY <2>3 DEF Row, Chain
  <2>5. CASE q.id < last.id
    BY <2>1, <2>2, <2>4, <2>5, <1>3 DEF Growing
  <2>6. CASE q.id = last.id
    <3>1. last = q
      BY <1>3, <2>1, <2>6 DEF OneRowPerBody, Sealed
    <3> QED BY <2>2, <2>4, <3>1
  <2> QED BY <2>1, <2>3, <2>5, <2>6 DEF Row
<1> QED BY <1>2, <1>3

\* A row is stored only while nothing waits, and extends the longest value.
LEMMA ChainStore ==
  ASSUME SealsFirst, IInv, NEW e \in Event, Stores(e)
  PROVE  ChainInv'
<1> DEFINE new == NewRow(e)
<1>0. TypeOK /\ OneRowPerBody /\ ChainInv
  BY DEF IInv
<1>1. /\ rows' = rows \cup {new} /\ new.id = NextId /\ new.sealed
      /\ new.chain = Append(ChainHead(rows), RowDigest(new)) /\ new \in Row
  BY <1>0, NewRowType DEF Stores, StoreRow, Link
<1> HIDE DEF new
<1>2. \A q \in rows : q.id < new.id
  BY <1>0, <1>1, NextIdFresh DEF TypeOK
<1>3. Waiting = {}
  BY <1>0 DEF Stores, ChainInv, ServingSealed, NoBackfill, NoneWaiting, SealsFirst
<1>4. Sealed(rows) = rows /\ Sealed(rows') = rows' /\ Waiting' = {}
  BY <1>1, <1>3 DEF Waiting, Sealed
<1>5. RowDigest(new) \in Digest
  BY <1>1 DEF RowDigest, Row, Digest
<1>6. /\ ChainHead(rows) \in Chain
      /\ \A q \in rows : Len(q.chain) <= Len(ChainHead(rows))
  BY <1>0, <1>4, HeadLongest DEF ChainInv
<1>7. Len(new.chain) = Len(ChainHead(rows)) + 1 /\ Len(ChainHead(rows)) \in Nat
  BY <1>1, <1>5, <1>6 DEF Chain
<1>8. \A q \in rows : Len(q.chain) \in Nat /\ q.id \in Nat
  BY <1>0 DEF TypeOK, Row, Chain
<1>9. Growing'
  <2> SUFFICES ASSUME NEW q \in rows', NEW r \in rows', q.id < r.id
               PROVE  Len(q.chain) < Len(r.chain)
    BY <1>4 DEF Growing
  <2>1. CASE q \in rows /\ r \in rows
    BY <1>0, <1>4, <2>1 DEF ChainInv, Growing
  <2>2. CASE q \in rows /\ r = new
    BY <1>6, <1>7, <1>8, <2>2
  <2>3. q # new
    BY <1>1, <1>2, <1>8 DEF Row
  <2> QED BY <1>1, <2>1, <2>2, <2>3
<1>10. NoBackfill'
  BY <1>0 DEF Stores, ChainInv, NoBackfill
<1> QED BY <1>4, <1>9, <1>10
        DEF ChainInv, WaitingLast, ServingSealed, NoneWaiting, SealerAhead

\* Only a resident that seals before it serves finds rows waiting.
LEMMA OneSealer ==
  ASSUME SealsFirst, IInv, NEW p \in Process, pc[p] = "sealing", Waiting # {}
  PROVE  p = "resident"
BY DEF IInv, ChainInv, NoBackfill, NoneWaiting, SealsFirst, Process

\* A seal step either finds its row sealed or gone, or puts t in the place of s.
LEMMA SealStep ==
  ASSUME TypeOK, OneRowPerBody, NEW p \in Process, SealRow(p),
         NEW read, read = First(sealer[p].todo),
         NEW value, value = Link(sealer[p].previous, RowDigest(read))
  PROVE  /\ read \in sealer[p].todo /\ \A q \in sealer[p].todo : read.id <= q.id
         /\ value \in Chain /\ Len(value) = Len(sealer[p].previous) + 1
         /\ Len(sealer[p].previous) \in Nat
         /\ sealer'[p].todo = sealer[p].todo \ {read} /\ sealer'[p].previous = value
         /\ pc' = pc
         /\ \/ rows' = rows /\ read \notin Waiting
            \/ \E s \in rows, t \in Row :
                 /\ s \in Waiting /\ s.id = read.id
                 /\ t.id = s.id /\ RowDigest(t) = RowDigest(s) /\ t.chain = value
                 /\ Sealed(rows') = Sealed(rows) \cup {t}
                 /\ Waiting' = Waiting \ {s}
<1> DEFINE f(r)  == IF Sealable(r, read.id)
                    THEN [r EXCEPT !.sealed = TRUE, !.chain = value]
                    ELSE r
<1>1. /\ rows' = {f(r) : r \in rows} /\ pc' = pc
      /\ sealer' = [sealer EXCEPT ![p] =
           [todo |-> sealer[p].todo \ {read}, previous |-> value]]
  BY DEF SealRow
<1>2. read \in sealer[p].todo /\ read \in Row /\ \A q \in sealer[p].todo : read.id <= q.id
  <2>1. sealer[p].todo \subseteq Row /\ sealer[p].todo # {}
    BY DEF SealRow, TypeOK
  <2>2. \A r \in sealer[p].todo : r.id \in 1..MaxId
    BY <2>1 DEF Row
  <2> QED BY <2>1, <2>2, FirstLast
<1>3. value \in Chain /\ Len(value) = Len(sealer[p].previous) + 1
      /\ Len(sealer[p].previous) \in Nat
  <2>1. sealer[p].previous \in Chain /\ RowDigest(read) \in Digest
    BY <1>2 DEF TypeOK, RowDigest, Row, Digest
  <2> QED BY <2>1 DEF Link, Chain
<1>4. sealer'[p].todo = sealer[p].todo \ {read} /\ sealer'[p].previous = value
  BY <1>1 DEF TypeOK
<1>5. \A r \in rows : /\ ~Sealable(r, read.id) => f(r) = r
                      /\ Sealable(r, read.id)
                           => /\ f(r) \in Row /\ f(r).sealed /\ f(r).chain = value
                              /\ f(r).id = r.id /\ RowDigest(f(r)) = RowDigest(r)
  BY <1>3 DEF TypeOK, Row, RowDigest
<1> HIDE DEF f
<1>6. CASE \A r \in rows : ~Sealable(r, read.id)
  <2>1. rows' = rows
    BY <1>1, <1>5, <1>6
  <2>2. read \notin Waiting
    BY <1>6 DEF Waiting, Sealed, Sealable
  <2> QED BY <1>1, <1>2, <1>3, <1>4, <2>1, <2>2
<1>7. CASE \E r \in rows : Sealable(r, read.id)
  <2>1. PICK s \in rows : Sealable(s, read.id)
    BY <1>7
  <2>2. s \in Waiting /\ s.id = read.id
    BY <2>1 DEF Waiting, Sealed, Sealable
  <2>3. \A r \in rows : r # s => f(r) = r
    BY <1>5, <2>2 DEF OneRowPerBody, Sealable
  <2>4. rows' = (rows \ {s}) \cup {f(s)}
    BY <1>1, <2>3
  <2>5. /\ f(s) \in Row /\ f(s).id = s.id /\ f(s).sealed
        /\ RowDigest(f(s)) = RowDigest(s) /\ f(s).chain = value
    BY <1>5, <2>1
  <2>6. f(s) \notin rows
    BY <2>1, <2>5 DEF OneRowPerBody, Sealable
  <2>7. Sealed(rows') = Sealed(rows) \cup {f(s)} /\ Waiting' = Waiting \ {s}
    BY <2>2, <2>4, <2>5, <2>6 DEF Sealed, Waiting
  <2> QED BY <1>1, <1>2, <1>3, <1>4, <2>2, <2>5, <2>7
<1> QED BY <1>6, <1>7

\* Sealing takes the waiting row of the least id and gives it the longest value.
LEMMA ChainSeal ==
  ASSUME SealsFirst, IInv, NEW p \in Process, SealRow(p)
  PROVE  ChainInv'
<1> DEFINE read  == First(sealer[p].todo)
           value == Link(sealer[p].previous, RowDigest(read))
<1>0. TypeOK /\ OneRowPerBody /\ ChainInv
  BY DEF IInv
<1>1. /\ read \in sealer[p].todo /\ \A q \in sealer[p].todo : read.id <= q.id
      /\ Len(value) = Len(sealer[p].previous) + 1 /\ Len(sealer[p].previous) \in Nat
      /\ sealer'[p].todo = sealer[p].todo \ {read} /\ sealer'[p].previous = value
      /\ pc' = pc
  BY <1>0, SealStep
<1>2. \/ rows' = rows /\ read \notin Waiting
      \/ \E s \in rows, t \in Row :
           /\ s \in Waiting /\ s.id = read.id /\ t.id = s.id /\ t.chain = value
           /\ Sealed(rows') = Sealed(rows) \cup {t} /\ Waiting' = Waiting \ {s}
  BY <1>0, SealStep
<1> HIDE DEF read, value
<1>3. \A q \in Sealed(rows) : Len(q.chain) \in Nat /\ q.id \in Nat
  BY <1>0 DEF TypeOK, Sealed, Row, Chain
<1>4. NoBackfill'
  BY <1>0, <1>1 DEF ChainInv, NoBackfill
<1>5. CASE rows' = rows /\ read \notin Waiting
  <2>1. Sealed(rows)' = Sealed(rows) /\ Waiting' = Waiting
    BY <1>5 DEF Sealed, Waiting
  <2>2. SealerAhead'
    <3> SUFFICES ASSUME pc.resident = "sealing", Waiting # {}
                 PROVE  /\ Waiting \subseteq sealer'["resident"].todo
                        /\ \A q \in Sealed(rows) :
                             Len(q.chain) <= Len(sealer'["resident"].previous)
      BY <1>1, <2>1 DEF SealerAhead
    <3>1. p = "resident"
      BY OneSealer DEF SealRow
    <3>2. /\ Waiting \subseteq sealer[p].todo
          /\ \A q \in Sealed(rows) : Len(q.chain) <= Len(sealer[p].previous)
      BY <1>0, <3>1 DEF ChainInv, SealerAhead
    <3> QED BY <1>1, <1>3, <1>5, <3>1, <3>2
  <2> QED BY <1>0, <1>1, <1>4, <1>5, <2>1, <2>2
          DEF ChainInv, Growing, WaitingLast, ServingSealed, NoneWaiting
<1>6. ASSUME NEW s \in rows, NEW t \in Row,
             s \in Waiting, s.id = read.id, t.id = s.id, t.chain = value,
             Sealed(rows') = Sealed(rows) \cup {t}, Waiting' = Waiting \ {s}
      PROVE  ChainInv'
  <2>1. p = "resident" /\ s.id \in Nat
    <3>1. p = "resident"
      BY <1>6, OneSealer DEF SealRow
    <3> QED BY <1>0, <3>1 DEF TypeOK, Row
  <2>2. /\ Waiting \subseteq sealer[p].todo
        /\ \A q \in Sealed(rows) : Len(q.chain) <= Len(sealer[p].previous)
    BY <1>0, <1>6, <2>1 DEF ChainInv, SealerAhead, SealRow
  <2>3. \A q \in Sealed(rows) : q.id < t.id /\ Len(q.chain) < Len(value)
    BY <1>0, <1>1, <1>3, <1>6, <2>2 DEF ChainInv, WaitingLast
  <2>4. Growing'
    <3> SUFFICES ASSUME NEW q \in Sealed(rows'), NEW r \in Sealed(rows'), q.id < r.id
                 PROVE  Len(q.chain) < Len(r.chain)
      BY DEF Growing
    <3>1. CASE q \in Sealed(rows) /\ r \in Sealed(rows)
      BY <1>0, <3>1 DEF ChainInv, Growing
    <3>2. CASE q \in Sealed(rows) /\ r = t
      BY <1>6, <2>3, <3>2
    <3>3. CASE q = t
      BY <1>3, <1>6, <2>1, <2>3, <3>3
    <3> QED BY <1>6, <3>1, <3>2, <3>3
  <2>5. WaitingLast'
    <3> SUFFICES ASSUME NEW q \in Sealed(rows'), NEW u \in Waiting' PROVE q.id < u.id
      BY DEF WaitingLast
    <3>1. u \in Waiting /\ u # s /\ u \in rows /\ u.id \in Nat
      BY <1>0, <1>6 DEF Waiting, TypeOK, Row
    <3>2. CASE q \in Sealed(rows)
      BY <1>0, <3>1, <3>2 DEF ChainInv, WaitingLast
    <3>3. CASE q = t
      <4>1. s.id <= u.id
        BY <1>1, <1>6, <2>2, <3>1
      <4>2. s.id # u.id
        BY <1>0, <3>1 DEF OneRowPerBody
      <4> QED BY <1>6, <2>1, <3>1, <3>3, <4>1, <4>2
    <3> QED BY <1>6, <3>2, <3>3
  <2>6. SealerAhead'
    <3>1. read \notin Waiting'
      BY <1>0, <1>6 DEF OneRowPerBody, Waiting
    <3>2. \A q \in Sealed(rows') : Len(q.chain) <= Len(value)
      BY <1>1, <1>3, <1>6, <2>3
    <3> QED BY <1>1, <1>6, <2>1, <2>2, <3>1, <3>2 DEF SealerAhead
  <2>7. ServingSealed' /\ NoneWaiting'
    BY <1>0, <1>1, <1>6 DEF ChainInv, ServingSealed, NoneWaiting
  <2> QED BY <1>4, <2>4, <2>5, <2>6, <2>7 DEF ChainInv
<1> QED BY <1>2, <1>5, <1>6

\* A purge, a crash and every other step only take rows or processes away.
LEMMA ChainPurge ==
  ASSUME SealsFirst, IInv, Purge
  PROVE  ChainInv'
<1>1. rows' \subseteq rows /\ sealer' = sealer
      /\ pc'.resident = pc.resident /\ pc'.cli = "idle"
  BY DEF Purge, IInv, TypeOK, Process
<1>2. Sealed(rows') \subseteq Sealed(rows) /\ Waiting' \subseteq Waiting
  BY <1>1 DEF Sealed, Waiting
<1> QED BY <1>1, <1>2
        DEF IInv, ChainInv, Growing, WaitingLast, ServingSealed, NoBackfill,
            NoneWaiting, SealerAhead

LEMMA ChainBegin ==
  ASSUME SealsFirst, IInv, NEW p \in Process, BeginSeal(p),
         p = "cli" => "backfill" \in Commands
  PROVE  ChainInv'
<1>1. rows' = rows /\ Waiting' = Waiting /\ Sealed(rows)' = Sealed(rows)
  BY DEF BeginSeal, store, Waiting, Sealed
<1>2. /\ pc' = [pc EXCEPT ![p] = "sealing"]
      /\ sealer' = [sealer EXCEPT ![p] = SealPass]
  BY DEF BeginSeal
<1>3. SealerAhead'
  <2>1. CASE p = "resident"
    <3>1. sealer'["resident"] = SealPass
      BY <1>2, <2>1 DEF IInv, TypeOK, Process
    <3>2. SealPass.todo = Waiting /\ SealPass.previous = ChainHead(rows)
      BY DEF SealPass, Waiting
    <3> QED BY <1>1, <3>1, <3>2, HeadLongest DEF SealerAhead, IInv, ChainInv
  <2>2. CASE p = "cli"
    <3>1. sealer'["resident"] = sealer["resident"] /\ pc'["resident"] = pc["resident"]
      BY <1>2, <2>2 DEF IInv, TypeOK, Process
    <3> QED BY <1>1, <3>1 DEF SealerAhead, IInv, ChainInv
  <2> QED BY <2>1, <2>2 DEF Process
<1>4. ServingSealed' /\ NoBackfill'
  BY <1>1, <1>2 DEF IInv, ChainInv, ServingSealed, NoBackfill, TypeOK, Process
<1> QED BY <1>1, <1>3, <1>4
        DEF IInv, ChainInv, Growing, WaitingLast, NoneWaiting

LEMMA ChainEnd ==
  ASSUME SealsFirst, IInv, NEW p \in Process, EndSeal(p)
  PROVE  ChainInv'
<1>1. rows' = rows /\ Waiting' = Waiting /\ Sealed(rows)' = Sealed(rows)
  BY DEF EndSeal, store, Waiting, Sealed
<1>2. CASE p = "resident"
  <2>1. Waiting = {}
    BY <1>2 DEF EndSeal, IInv, ChainInv, SealerAhead
  <2>2. pc'.resident = "serving" /\ pc'.cli = pc.cli
    BY <1>2 DEF EndSeal, IInv, TypeOK, Process
  <2> QED BY <1>1, <2>1, <2>2
          DEF IInv, ChainInv, Growing, WaitingLast, ServingSealed, NoBackfill,
              NoneWaiting, SealerAhead
<1>3. CASE p = "cli"
  <2>1. /\ pc'["resident"] = pc["resident"] /\ pc'["cli"] = "idle"
        /\ sealer'["resident"] = sealer["resident"]
    BY <1>3 DEF EndSeal, IInv, TypeOK, Process
  <2> QED BY <1>1, <2>1
          DEF IInv, ChainInv, Growing, WaitingLast, ServingSealed, NoBackfill,
              NoneWaiting, SealerAhead
<1> QED BY <1>2, <1>3 DEF Process

LEMMA ChainKill ==
  ASSUME SealsFirst, IInv, NEW p \in Process, Kill(p)
  PROVE  ChainInv'
<1>1. rows' = rows /\ Waiting' = Waiting /\ Sealed(rows)' = Sealed(rows)
  BY DEF Kill, store, Waiting, Sealed
<1>2. CASE p = "resident"
  <2>1. pc'.resident = "down" /\ pc'.cli = pc.cli
    BY <1>2 DEF Kill, IInv, TypeOK, Process
  <2> QED BY <1>1, <2>1
          DEF IInv, ChainInv, Growing, WaitingLast, ServingSealed, NoBackfill,
              NoneWaiting, SealerAhead
<1>3. CASE p = "cli"
  <2>1. /\ pc'["resident"] = pc["resident"] /\ pc'["cli"] = "idle"
        /\ sealer'["resident"] = sealer["resident"]
    BY <1>3 DEF Kill, IInv, TypeOK, Process
  <2> QED BY <1>1, <2>1
          DEF IInv, ChainInv, Growing, WaitingLast, ServingSealed, NoBackfill,
              NoneWaiting, SealerAhead
<1> QED BY <1>2, <1>3 DEF Process

\* The steps that touch neither rows nor the sealers.
LEMMA ChainQuiet ==
  ASSUME IInv, rows' = rows, sealer' = sealer, pc'["resident"] = pc["resident"],
         NoBackfill'
  PROVE  ChainInv'
<1>1. Waiting' = Waiting /\ Sealed(rows)' = Sealed(rows)
  BY DEF Waiting, Sealed
<1> QED BY <1>1 DEF IInv, ChainInv, Growing, WaitingLast, ServingSealed,
                    NoneWaiting, SealerAhead

LEMMA ChainNext ==
  ASSUME SealsFirst, IInv, [Next]_vars
  PROVE  IInv'
<1>0. TypeOK' /\ OneRowPerBody'
  BY TypeNext, UniqueNext DEF IInv
<1> SUFFICES ChainInv'
  BY <1>0 DEF IInv
<1> USE DEF IInv, TypeOK, Process
<1>1. ASSUME NEW e \in Event, Observe(e) PROVE ChainInv'
  <2>1. Stores(e)
    BY <1>1 DEF Observe, Stores
  <2> QED BY <2>1, ChainStore
<1>2. ASSUME NEW p \in Process, NEW e \in Event, StoreLine(p, e) PROVE ChainInv'
  <2>1. Stores(e)
    BY <1>2 DEF StoreLine, Ingesting, Stores
  <2> QED BY <2>1, ChainStore
<1>3. ASSUME NEW p \in Process, ProjectLines(p) PROVE ChainInv'
  BY <1>3, ChainQuiet DEF ProjectLines, ChainInv, NoBackfill
<1>4. CASE StartResident
  BY <1>4, ChainBegin DEF StartResident
<1>5. CASE StartBackfill
  BY <1>5, ChainQuiet DEF StartBackfill, store, NoBackfill
<1>6. CASE EndBackfill
  <2>1. "backfill" \in Commands
    BY <1>6 DEF EndBackfill, ChainInv, NoBackfill
  <2> QED BY <1>6, <2>1, ChainBegin DEF EndBackfill
<1>7. ASSUME NEW sc \in Scope, ShowPurge(sc) PROVE ChainInv'
  BY <1>7, ChainQuiet DEF ShowPurge, store, NoBackfill
<1>8. CASE Decline
  BY <1>8, ChainQuiet DEF Decline, store, NoBackfill
<1>9. CASE PlanPurge
  BY <1>9, ChainQuiet DEF PlanPurge, store, NoBackfill
<1>10. CASE Tick
  BY <1>10, ChainQuiet DEF Tick, store, ChainInv, NoBackfill
<1>11. CASE UNCHANGED vars
  BY <1>11, ChainQuiet DEF vars, ChainInv, NoBackfill
<1>12. CASE Purge
  BY <1>12, ChainPurge
<1>13. ASSUME NEW p \in Process, SealRow(p) \/ EndSeal(p) \/ Kill(p) PROVE ChainInv'
  BY <1>13, ChainSeal, ChainEnd, ChainKill
<1> QED BY <1>0, <1>1, <1>2, <1>3, <1>4, <1>5, <1>6, <1>7, <1>8, <1>9, <1>10, <1>11,
           <1>12, <1>13 DEF Next

\* A value one longer than another follows it directly, so a sealed row whose
\* predecessor is still stored is linked to the row before it.
LEMMA NoFalseBreak == IInv => BreaksOnlyAtHoles
<1> SUFFICES ASSUME IInv, NEW r \in Sealed(rows), NEW q \in Sealed(rows),
                    r.chain = Link(q.chain, RowDigest(r))
             PROVE  Follows(rows, r)
  BY DEF BreaksOnlyAtHoles, Breaks
<1> DEFINE before == Below(rows, r.id)
<1>0. TypeOK /\ OneRowPerBody /\ Growing
  BY DEF IInv, ChainInv
<1>1. \A x \in Sealed(rows) : x \in Row /\ x.id \in Nat /\ Len(x.chain) \in Nat
  BY <1>0 DEF TypeOK, Sealed, Row, Chain
<1>2. Len(r.chain) = Len(q.chain) + 1
  <2>1. q.chain \in Seq(Digest) /\ RowDigest(r) \in Digest
    BY <1>1 DEF Row, Chain, RowDigest, Digest
  <2> QED BY <2>1 DEF Link
<1>3. q.id < r.id
  <2>1. ~(r.id < q.id)
    BY <1>0, <1>1, <1>2 DEF Growing
  <2>2. r.id # q.id
    BY <1>0, <1>1, <1>2 DEF OneRowPerBody, Sealed
  <2> QED BY <1>1, <2>1, <2>2
<1>4. q \in before /\ before \subseteq Sealed(rows)
  BY <1>3 DEF Below
<1>5. Last(before) \in before /\ q.id <= Last(before).id
  <2>1. \A x \in before : x.id \in 1..MaxId
    BY <1>1, <1>4 DEF Row
  <2> QED BY <1>4, <2>1, FirstLast
<1>6. Last(before) = q
  <2> SUFFICES ASSUME q.id < Last(before).id PROVE FALSE
    BY <1>0, <1>1, <1>4, <1>5 DEF OneRowPerBody, Sealed
  <2>1. Last(before).id < r.id /\ Last(before) \in Sealed(rows)
    BY <1>5 DEF Below
  <2>2. /\ Len(q.chain) < Len(Last(before).chain)
        /\ Len(Last(before).chain) < Len(r.chain)
    BY <1>0, <2>1 DEF Growing
  <2> HIDE DEF before
  <2> QED BY <1>1, <1>2, <2>1, <2>2
<1>7. Carried(before) = q.chain
  BY <1>4, <1>6 DEF Carried
<1> QED BY <1>7 DEF Follows

\* The walk never reports a break between two rows that are both still there and
\* were linked to each other, in a store born with the chain or sealed by the
\* application before a backfill.
THEOREM BreaksAtHoles ==
  ASSUME SealsFirst
  PROVE  Spec => []BreaksOnlyAtHoles
<1>1. Init => IInv
  BY TypeInit, UniqueInit, ChainInit DEF IInv
<1>2. IInv /\ [Next]_vars => IInv'
  BY ChainNext
<1>3. IInv => BreaksOnlyAtHoles
  BY NoFalseBreak
<1> QED BY <1>1, <1>2, <1>3, PTL DEF Spec

-----------------------------------------------------------------------------
(* A store nothing was purged from.  A row follows from the one before it  *)
(* because the sealer, while rows wait, holds exactly those and continues  *)
(* from the head.                                                          *)

SealerOnHead == pc.resident = "sealing" /\ Waiting # {}
                  => /\ sealer["resident"].todo = Waiting
                     /\ sealer["resident"].previous = ChainHead(rows)

WalkInv == deletions = <<>> => Breaks(rows) = {} /\ SealerOnHead

LEMMA WalkInit == Init => WalkInv
<1> SUFFICES ASSUME Init PROVE WalkInv
  OBVIOUS
<1>1. Sealed(rows) = {} /\ pc.resident = "down"
  BY DEF Init, LegacyRow, Sealed, Process
<1> QED BY <1>1 DEF WalkInv, Breaks, SealerOnHead

\* A row added past every sealed one, linked to the head, adds no break.
LEMMA AddedFollows ==
  ASSUME TypeOK, OneRowPerBody, NEW t \in Row, Breaks(rows) = {},
         Sealed(rows') = Sealed(rows) \cup {t},
         \A q \in Sealed(rows) : q.id < t.id,
         t.chain = Link(ChainHead(rows), RowDigest(t))
  PROVE  Breaks(rows') = {} /\ ChainHead(rows') = t.chain
<1>1. \A q \in Sealed(rows) : q.id \in Nat /\ q.id \in 1..MaxId
  BY DEF TypeOK, Sealed, Row
<1>2. t.id \in Nat /\ t.id \in 1..MaxId
  BY DEF Row
<1>3. ASSUME NEW r \in Sealed(rows) PROVE Follows(rows', r)
  <2>1. Below(rows', r.id) = Below(rows, r.id)
    BY <1>1, <1>2, <1>3 DEF Below
  <2>2. Follows(rows, r)
    BY DEF Breaks
  <2> QED BY <2>1, <2>2 DEF Follows
<1>4. Follows(rows', t)
  <2>1. Below(rows', t.id) = Sealed(rows)
    BY <1>1, <1>2 DEF Below
  <2> QED BY <2>1 DEF Follows, ChainHead
<1>5. Breaks(rows') = {}
  BY <1>3, <1>4 DEF Breaks
<1>6. Last(Sealed(rows')) = t
  <2> DEFINE all == Sealed(rows')
  <2>1. /\ Last(all) \in all
        /\ \A q \in all : q.id <= Last(all).id
    <3>1. all # {} /\ \A r \in all : r.id \in 1..MaxId
      BY <1>1, <1>2
    <3> HIDE DEF all
    <3> QED BY <3>1, FirstLast
  <2>2. t.id <= Last(all).id
    BY <2>1
  <2> QED BY <1>1, <1>2, <2>1, <2>2
<1>7. ChainHead(rows') = t.chain
  BY <1>6 DEF ChainHead, Carried
<1> QED BY <1>5, <1>7

LEMMA WalkStore ==
  ASSUME SealsFirst, IInv, WalkInv, NEW e \in Event, Stores(e)
  PROVE  WalkInv'
<1> DEFINE new == NewRow(e)
<1>0. TypeOK /\ OneRowPerBody /\ ChainInv
  BY DEF IInv
<1>1. /\ rows' = rows \cup {new} /\ new.id = NextId /\ new.sealed = TRUE
      /\ new.chain = Link(ChainHead(rows), RowDigest(new)) /\ new \in Row
  BY <1>0, NewRowType DEF Stores, StoreRow
<1> HIDE DEF new
<1>2. \A q \in rows : q.id < new.id
  BY <1>0, <1>1, NextIdFresh DEF TypeOK
<1>3. Waiting = {}
  BY <1>0 DEF Stores, ChainInv, ServingSealed, NoBackfill, NoneWaiting, SealsFirst
<1>4. Sealed(rows') = Sealed(rows) \cup {new} /\ Waiting' = {}
  BY <1>1, <1>3 DEF Waiting, Sealed
<1>5. \A q \in Sealed(rows) : q.id < new.id
  BY <1>2 DEF Sealed
<1>6. deletions' = deletions
  BY DEF Stores
<1>7. deletions = <<>> => Breaks(rows') = {}
  BY <1>0, <1>1, <1>4, <1>5, AddedFollows DEF WalkInv
<1> QED BY <1>4, <1>6, <1>7 DEF WalkInv, SealerOnHead

LEMMA WalkSeal ==
  ASSUME SealsFirst, IInv, WalkInv, NEW p \in Process, SealRow(p)
  PROVE  WalkInv'
<1> DEFINE read  == First(sealer[p].todo)
           value == Link(sealer[p].previous, RowDigest(read))
<1>0. TypeOK /\ OneRowPerBody /\ ChainInv
  BY DEF IInv
<1>1. deletions' = deletions /\ pc[p] = "sealing"
  BY DEF SealRow
<1> SUFFICES ASSUME deletions = <<>> PROVE Breaks(rows') = {} /\ SealerOnHead'
  BY <1>1 DEF WalkInv
<1>2. Breaks(rows) = {} /\ SealerOnHead
  BY DEF WalkInv
<1>3. /\ read \in sealer[p].todo
      /\ sealer'[p].todo = sealer[p].todo \ {read} /\ sealer'[p].previous = value
      /\ pc' = pc
  BY <1>0, SealStep
<1>4. \/ rows' = rows /\ read \notin Waiting
      \/ \E s \in rows, t \in Row :
           /\ s \in Waiting /\ s.id = read.id /\ t.id = s.id
           /\ RowDigest(t) = RowDigest(s) /\ t.chain = value
           /\ Sealed(rows') = Sealed(rows) \cup {t} /\ Waiting' = Waiting \ {s}
  BY <1>0, SealStep
<1> HIDE DEF read
<1>5. CASE rows' = rows /\ read \notin Waiting
  <2>1. Waiting = {}
    <3> SUFFICES ASSUME Waiting # {} PROVE FALSE
      OBVIOUS
    <3>1. p = "resident"
      BY <1>1, OneSealer
    <3> QED BY <1>1, <1>2, <1>3, <1>5, <3>1 DEF SealerOnHead
  <2>2. Waiting' = Waiting
    BY <1>5 DEF Waiting, Sealed
  <2> QED BY <1>2, <1>5, <2>1, <2>2 DEF SealerOnHead, Breaks, Sealed, Follows, Below
<1>6. ASSUME NEW s \in rows, NEW t \in Row,
             s \in Waiting, s.id = read.id, t.id = s.id,
             RowDigest(t) = RowDigest(s), t.chain = value,
             Sealed(rows') = Sealed(rows) \cup {t}, Waiting' = Waiting \ {s}
      PROVE  Breaks(rows') = {} /\ SealerOnHead'
  <2>1. p = "resident"
    BY <1>1, <1>6, OneSealer
  <2>2. sealer[p].todo = Waiting /\ sealer[p].previous = ChainHead(rows)
    BY <1>1, <1>2, <1>6, <2>1 DEF SealerOnHead
  <2>3. read = s
    BY <1>0, <1>3, <1>6, <2>2 DEF OneRowPerBody, Waiting
  <2>4. \A q \in Sealed(rows) : q.id < t.id
    BY <1>0, <1>6 DEF ChainInv, WaitingLast
  <2>5. t.chain = Link(ChainHead(rows), RowDigest(t))
    BY <1>6, <2>2, <2>3
  <2>6. Breaks(rows') = {} /\ ChainHead(rows') = t.chain
    <3> HIDE DEF value
    <3> QED BY <1>0, <1>2, <1>6, <2>4, <2>5, AddedFollows
  <2>7. sealer'["resident"].todo = Waiting' /\ sealer'["resident"].previous = t.chain
    BY <1>3, <1>6, <2>1, <2>2, <2>3
  <2> QED BY <2>6, <2>7 DEF SealerOnHead
<1> HIDE DEF value
<1> QED BY <1>4, <1>5, <1>6

LEMMA WalkNext ==
  ASSUME SealsFirst, IInv, WalkInv, [Next]_vars
  PROVE  WalkInv'
<1>1. CASE Purge
  <2>1. Len(deletions') = Len(deletions) + 1 /\ Len(deletions) \in Nat
    BY <1>1, PurgeType DEF IInv, TypeOK
  <2> QED BY <2>1 DEF WalkInv
<1>2. ASSUME NEW p \in Process, BeginSeal(p) PROVE WalkInv'
  <2>1. /\ rows' = rows /\ deletions' = deletions
        /\ sealer' = [sealer EXCEPT ![p] = SealPass]
        /\ pc' = [pc EXCEPT ![p] = "sealing"]
    BY <1>2 DEF BeginSeal, store
  <2>2. Waiting' = Waiting /\ Breaks(rows)' = Breaks(rows)
        /\ ChainHead(rows)' = ChainHead(rows)
    BY <2>1 DEF Waiting, Breaks, ChainHead, Sealed, Follows, Below
  <2>3. CASE p = "resident"
    <3>1. sealer'["resident"] = SealPass
      BY <2>1, <2>3 DEF IInv, TypeOK, Process
    <3>2. SealPass.todo = Waiting /\ SealPass.previous = ChainHead(rows)
      BY DEF SealPass, Waiting
    <3> QED BY <2>1, <2>2, <3>1, <3>2 DEF WalkInv, SealerOnHead
  <2>4. CASE p = "cli"
    <3>1. sealer'["resident"] = sealer["resident"] /\ pc'["resident"] = pc["resident"]
      BY <2>1, <2>4 DEF IInv, TypeOK, Process
    <3> QED BY <2>1, <2>2, <3>1 DEF WalkInv, SealerOnHead
  <2> QED BY <2>3, <2>4 DEF Process
<1>3. ASSUME rows' = rows, deletions' = deletions,
             \/ pc'["resident"] # "sealing"
             \/ pc'["resident"] = pc["resident"] /\ sealer'["resident"] = sealer["resident"]
      PROVE  WalkInv'
  <2>1. Waiting' = Waiting /\ Breaks(rows)' = Breaks(rows)
        /\ ChainHead(rows)' = ChainHead(rows)
    BY <1>3 DEF Waiting, Breaks, ChainHead, Sealed, Follows, Below
  <2> QED BY <1>3, <2>1 DEF WalkInv, SealerOnHead
<1>4. ASSUME NEW p \in Process, EndSeal(p) \/ Kill(p) PROVE WalkInv'
  BY <1>3, <1>4 DEF EndSeal, Kill, store, IInv, TypeOK, Process
<1>5. ASSUME NEW e \in Event, Observe(e) PROVE WalkInv'
  <2>1. Stores(e)
    BY <1>5 DEF Observe, Stores
  <2> QED BY <2>1, WalkStore
<1>6. ASSUME NEW p \in Process, NEW e \in Event, StoreLine(p, e) PROVE WalkInv'
  <2>1. Stores(e)
    BY <1>6 DEF StoreLine, Ingesting, Process, Stores
  <2> QED BY <2>1, WalkStore
<1>7. CASE (\E p \in Process : ProjectLines(p)) \/ StartBackfill
           \/ (\E sc \in Scope : ShowPurge(sc)) \/ Decline \/ PlanPurge \/ Tick
           \/ UNCHANGED vars
  BY <1>3, <1>7 DEF ProjectLines, StartBackfill, ShowPurge, Decline, PlanPurge, Tick,
                    store, vars, IInv, TypeOK, Process
<1>8. CASE StartResident \/ EndBackfill
  BY <1>2, <1>8 DEF StartResident, EndBackfill, Process
<1> QED BY <1>1, <1>4, <1>5, <1>6, <1>7, <1>8, WalkSeal DEF Next

\* `toolog verify --chain` finds nothing in a store nothing was purged from,
\* wherever a seal was cut short, under the same condition.
THEOREM IntactUntilPurged ==
  ASSUME SealsFirst
  PROVE  Spec => []WalksIntact
<1>1. Init => IInv /\ WalkInv
  BY TypeInit, UniqueInit, ChainInit, WalkInit DEF IInv
<1>2. IInv /\ WalkInv /\ [Next]_vars => (IInv /\ WalkInv)'
  BY ChainNext, WalkNext
<1>3. WalkInv => WalksIntact
  BY DEF WalkInv, WalksIntact
<1> QED BY <1>1, <1>2, <1>3, PTL DEF Spec

-----------------------------------------------------------------------------
(* A store that was purged.  Each purge leaves one hole when it finds every *)
(* row sealed and takes adjacent rows only; the row after the hole then has *)
(* before it what the deletion recorded, and no row waits from then on.     *)

Plain == \A i \in DOMAIN history : history[i].plain
Accounted == \A r \in Breaks(rows) : Explained(rows, r, Holes)

AccountInv ==
  /\ Len(history) = Len(deletions)
  /\ Plain => \/ deletions = <<>>
              \/ Waiting = {} /\ Accounted

LEMMA AccountInit == Init => AccountInv
<1> SUFFICES ASSUME Init PROVE AccountInv
  OBVIOUS
<1>1. history = <<>> /\ deletions = <<>>
  BY DEF Init
<1> QED BY <1>1 DEF AccountInv

\* A row that goes last takes nothing from before any other.
LEMMA AddedAccounted ==
  ASSUME TypeOK, Accounted, NEW t \in Row, Holes' = Holes,
         Sealed(rows') = Sealed(rows) \cup {t},
         \A q \in Sealed(rows) : q.id < t.id,
         t.chain = Link(ChainHead(rows), RowDigest(t))
  PROVE  Accounted'
<1>1. \A q \in Sealed(rows) : q.id \in Nat
  BY DEF TypeOK, Sealed, Row
<1>2. t.id \in Nat
  BY DEF Row
<1>3. Follows(rows', t)
  <2>1. Below(rows', t.id) = Sealed(rows)
    BY <1>1, <1>2 DEF Below
  <2> QED BY <2>1 DEF Follows, ChainHead
<1>4. ASSUME NEW r \in Sealed(rows)
      PROVE  Below(rows', r.id) = Below(rows, r.id)
  BY <1>1, <1>2, <1>4 DEF Below
<1>5. ASSUME NEW r \in Breaks(rows') PROVE Explained(rows', r, Holes')
  <2>1. r \in Sealed(rows)
    BY <1>3, <1>5 DEF Breaks
  <2>2. Below(rows', r.id) = Below(rows, r.id)
    BY <1>4, <2>1
  <2>3. r \in Breaks(rows)
    BY <1>5, <2>1, <2>2 DEF Breaks, Follows
  <2>4. Explained(rows, r, Holes)
    BY <2>3 DEF Accounted
  <2> QED BY <2>2, <2>4 DEF Explained
<1> QED BY <1>5 DEF Accounted

LEMMA AccountStore ==
  ASSUME SealsFirst, IInv, AccountInv, NEW e \in Event, Stores(e), history' = history
  PROVE  AccountInv'
<1> DEFINE new == NewRow(e)
<1>0. TypeOK /\ OneRowPerBody /\ ChainInv
  BY DEF IInv
<1>1. /\ rows' = rows \cup {new} /\ new.id = NextId /\ new.sealed = TRUE
      /\ new.chain = Link(ChainHead(rows), RowDigest(new)) /\ new \in Row
  BY <1>0, NewRowType DEF Stores, StoreRow
<1> HIDE DEF new
<1>2. \A q \in Sealed(rows) : q.id < new.id
  BY <1>0, <1>1, NextIdFresh DEF TypeOK, Sealed
<1>3. Waiting = {}
  BY <1>0 DEF Stores, ChainInv, ServingSealed, NoBackfill, NoneWaiting, SealsFirst
<1>4. Sealed(rows') = Sealed(rows) \cup {new} /\ Waiting' = {}
  BY <1>1, <1>3 DEF Waiting, Sealed
<1>5. deletions' = deletions /\ Holes' = Holes
  BY DEF Stores, Holes
<1>6. Accounted => Accounted'
  BY <1>0, <1>1, <1>2, <1>4, <1>5, AddedAccounted
<1> QED BY <1>4, <1>5, <1>6 DEF AccountInv, Plain

\* Where no row waits the sealer changes none, so it disturbs nothing after a purge.
LEMMA AccountSeal ==
  ASSUME IInv, AccountInv, NEW p \in Process, SealRow(p)
  PROVE  AccountInv'
<1>1. PICK read : read = First(sealer[p].todo)
  OBVIOUS
<1>2. PICK value : value = Link(sealer[p].previous, RowDigest(read))
  OBVIOUS
<1>3. deletions' = deletions /\ history' = history
  BY DEF SealRow
<1>4. Waiting = {} => rows' = rows
  BY <1>1, <1>2, SealStep DEF IInv
<1>5. rows' = rows => Waiting' = Waiting /\ (Accounted => Accounted')
  <2> SUFFICES ASSUME rows' = rows PROVE Waiting' = Waiting /\ (Accounted => Accounted')
    OBVIOUS
  <2>1. Waiting' = Waiting /\ Breaks(rows)' = Breaks(rows) /\ Holes' = Holes
    BY <1>3 DEF Waiting, Sealed, Breaks, Follows, Below, Holes
  <2>2. \A r : Explained(rows, r, Holes)' <=> Explained(rows, r, Holes)
    BY <2>1 DEF Explained, Below, Sealed
  <2> QED BY <2>1, <2>2 DEF Accounted
<1>6. Plain' <=> Plain
  BY <1>3 DEF Plain
<1> QED BY <1>3, <1>4, <1>5, <1>6 DEF AccountInv

\* What a plain purge takes is one stretch of the rows: every other row has before
\* it the row it had, or the one that was before the stretch.
LEMMA HoleIsOne ==
  ASSUME TypeOK, OneRowPerBody, NEW gone, gone \subseteq rows, gone # {},
         Sealed(rows) = rows, Contiguous(gone), rows' = rows \ gone,
         NEW r \in rows \ gone
  PROVE  \/ Carried(Below(rows', r.id)) = Carried(Below(rows, r.id))
         \/ Carried(Below(rows', r.id)) = Carried(Below(rows, First(gone).id))
<1> DEFINE left == Below(rows', r.id)
           full == Below(rows, r.id)
<1>1. \A q \in rows : q.id \in Nat /\ q.id \in 1..MaxId
  BY DEF TypeOK, Row
<1>2. /\ First(gone) \in gone /\ \A q \in gone : First(gone).id <= q.id
      /\ Last(gone) \in gone /\ \A q \in gone : q.id <= Last(gone).id
  <2>1. \A q \in gone : q.id \in 1..MaxId
    BY <1>1
  <2> QED BY <2>1, FirstLast
<1>3. Sealed(rows') = rows'
  BY DEF Sealed
<1>4. left = {q \in rows \ gone : q.id < r.id} /\ full = {q \in rows : q.id < r.id}
  BY <1>3 DEF Below
<1>5. r.id < First(gone).id \/ Last(gone).id < r.id
  <2>1. ~(First(gone).id < r.id /\ r.id < Last(gone).id)
    BY DEF Contiguous
  <2>2. r.id # First(gone).id /\ r.id # Last(gone).id
    BY <1>2 DEF OneRowPerBody
  <2> QED BY <1>1, <1>2, <2>1, <2>2
<1> HIDE DEF left, full
<1>6. CASE r.id < First(gone).id
  <2>1. \A q \in rows : q.id < r.id => q \notin gone
    BY <1>1, <1>2, <1>6
  <2>2. left = full
    BY <1>4, <2>1
  <2> QED BY <2>2 DEF left, full
<1>7. CASE Last(gone).id < r.id
  <2>1. CASE \E q \in left : Last(gone).id < q.id
    <3>1. left # {} /\ left \subseteq full /\ full \subseteq rows
      BY <1>4, <2>1
    <3>2. Last(left) \in left /\ \A q \in left : q.id <= Last(left).id
      BY <1>1, <3>1, FirstLast
    <3>3. Last(full) \in full /\ \A q \in full : q.id <= Last(full).id
      BY <1>1, <3>1, FirstLast
    <3>4. /\ Last(left).id \in Nat /\ Last(full).id \in Nat /\ Last(gone).id \in Nat
          /\ \A q \in left : q.id \in Nat
      BY <1>1, <1>2, <3>1, <3>2, <3>3
    <3>5. Last(gone).id < Last(left).id /\ Last(left).id <= Last(full).id
      <4>1. PICK q \in left : Last(gone).id < q.id
        BY <2>1
      <4>2. q.id \in Nat /\ q.id <= Last(left).id
        BY <3>2, <3>4
      <4>3. Last(left).id <= Last(full).id
        BY <3>1, <3>2, <3>3
      <4> QED BY <3>4, <4>1, <4>2, <4>3
    <3>6. Last(full) \notin gone
      <4>1. ~(Last(full).id <= Last(gone).id)
        BY <3>4, <3>5
      <4> QED BY <1>2, <4>1
    <3>7. Last(full) \in left
      BY <1>4, <3>1, <3>3, <3>6
    <3>8. Last(full) = Last(left)
      <4>1. Last(full).id <= Last(left).id
        BY <3>2, <3>7
      <4>2. Last(full).id = Last(left).id
        BY <3>4, <3>5, <4>1
      <4> QED BY <3>1, <3>2, <3>3, <4>2 DEF OneRowPerBody
    <3>9. Carried(left) = Carried(full)
      <4>1. full # {}
        BY <3>1
      <4> QED BY <3>1, <3>8, <4>1 DEF Carried
    <3> QED BY <3>9 DEF left, full
  <2>2. CASE ~\E q \in left : Last(gone).id < q.id
    <3>1. ASSUME NEW q \in left PROVE q.id < First(gone).id
      <4>1. q \in rows \ gone /\ ~(Last(gone).id < q.id)
        BY <1>4, <2>2, <3>1
      <4>2. ~(First(gone).id < q.id /\ q.id < Last(gone).id)
        BY <4>1 DEF Contiguous
      <4>3. q.id # First(gone).id /\ q.id # Last(gone).id
        BY <1>2, <4>1 DEF OneRowPerBody
      <4> QED BY <1>1, <1>2, <4>1, <4>2, <4>3
    <3>2. Below(rows, First(gone).id) = {q \in rows : q.id < First(gone).id}
      BY DEF Below
    <3>3. ASSUME NEW q \in rows, q.id < First(gone).id PROVE q \in left
      <4>1. q.id \in Nat /\ First(gone).id \in Nat /\ Last(gone).id \in Nat /\ r.id \in Nat
        BY <1>1, <1>2, <3>3
      <4>2. First(gone).id <= Last(gone).id
        BY <1>2
      <4>3. q.id < r.id
        BY <1>7, <3>3, <4>1, <4>2
      <4>4. ~(First(gone).id <= q.id)
        BY <3>3, <4>1
      <4>5. q \notin gone
        BY <1>2, <4>4
      <4> QED BY <1>4, <3>3, <4>3, <4>5
    <3>4. left = Below(rows, First(gone).id)
      <4>1. left \subseteq rows
        BY <1>4
      <4> QED BY <3>1, <3>2, <3>3, <4>1
    <3> QED BY <3>4 DEF left
  <2> QED BY <2>1, <2>2
<1> QED BY <1>5, <1>6, <1>7

\* Every purge that was plain explains the one break it can make.
LEMMA AccountPurge ==
  ASSUME IInv, WalkInv, AccountInv, Purge
  PROVE  AccountInv'
<1> DEFINE gone == Going(plan)
           n == Len(history) + 1
<1>0. TypeOK /\ OneRowPerBody
  BY DEF IInv
<1>1. /\ rows' = rows \ gone /\ deletions' = Append(deletions, Deletion(plan))
      /\ history' = Append(history, Observed(plan))
  BY DEF Purge, Logged
<1>2. history \in Seq(Observation) /\ deletions \in Seq(Entry)
      /\ history' \in Seq(Observation) /\ deletions' \in Seq(Entry)
  BY <1>0, PurgeType DEF TypeOK
<1>3. Len(history') = Len(deletions') /\ Len(history) = Len(deletions)
  BY <1>1, <1>2 DEF AccountInv
<1> SUFFICES ASSUME Plain' PROVE Waiting' = {} /\ Accounted'
  BY <1>3 DEF AccountInv
<1>4. Plain /\ Observed(plan).plain
  <2>1. n \in DOMAIN history' /\ history'[n] = Observed(plan)
        /\ \A i \in DOMAIN history : i \in DOMAIN history' /\ history'[i] = history[i]
    BY <1>1, <1>2
  <2> QED BY <2>1 DEF Plain
<1>5. Sealed(rows) = rows /\ (gone = {} \/ Contiguous(gone))
  BY <1>4 DEF Observed
<1>6. Waiting' = {}
  BY <1>1, <1>5 DEF Waiting, Sealed
<1>7. Accounted
  <2>1. CASE deletions = <<>>
    BY <2>1 DEF WalkInv, Accounted
  <2>2. CASE deletions # <<>>
    BY <1>4, <2>2 DEF AccountInv
  <2> QED BY <2>1, <2>2
<1>8. gone \subseteq rows
  BY DEF Going, OtlpBefore
<1>9. Holes' = Holes \cup ChainBefore(plan)
  <2>1. PICK d : d = Deletion(plan)
    OBVIOUS
  <2>2. d.chain_before = ChainBefore(plan)
    BY <2>1 DEF Deletion
  <2>3. /\ DOMAIN deletions' = DOMAIN deletions \cup {Len(deletions) + 1}
        /\ deletions'[Len(deletions) + 1] = d
        /\ \A i \in DOMAIN deletions : deletions'[i] = deletions[i]
    BY <1>1, <1>2, <2>1
  <2> QED BY <2>2, <2>3 DEF Holes
<1> HIDE DEF gone, n
<1>10. CASE gone = {}
  <2>1. rows' = rows
    BY <1>1, <1>10
  <2>2. Breaks(rows)' = Breaks(rows) /\ \A r : Below(rows, r.id)' = Below(rows, r.id)
    BY <2>1 DEF Breaks, Follows, Below, Sealed
  <2> QED BY <1>6, <1>7, <1>9, <2>1, <2>2 DEF Accounted, Explained
<1>11. CASE gone # {}
  <2>1. Contiguous(gone)
    BY <1>5, <1>11
  <2>2. ChainBefore(plan) = {Carried(Below(rows, First(gone).id))}
    <3>1. \A r \in gone : r.ev.lane = "transcript"
      BY <2>1 DEF Contiguous
    <3>2. gone = {r \in rows : r.ev.ref \in Paths(plan)}
      BY <3>1 DEF gone, Going, OtlpBefore
    <3> QED BY <1>11, <3>2 DEF ChainBefore
  <2>3. ASSUME NEW r \in Breaks(rows') PROVE Explained(rows', r, Holes')
    <3>1. r \in rows \ gone /\ r \in Sealed(rows)
      BY <1>1, <1>5, <2>3 DEF Breaks, Sealed
    <3>2. \/ Carried(Below(rows', r.id)) = Carried(Below(rows, r.id))
          \/ Carried(Below(rows', r.id)) = Carried(Below(rows, First(gone).id))
      BY ONLY <1>0, <1>1, <1>5, <1>8, <1>11, <2>1, <3>1, HoleIsOne
    <3>3. CASE Carried(Below(rows', r.id)) = Carried(Below(rows, r.id))
      <4>1. r \in Breaks(rows)
        BY <2>3, <3>1, <3>3 DEF Breaks, Follows
      <4>2. Explained(rows, r, Holes)
        BY <1>7, <4>1 DEF Accounted
      <4> QED BY <1>9, <3>3, <4>2 DEF Explained
    <3>4. CASE Carried(Below(rows', r.id)) = Carried(Below(rows, First(gone).id))
      BY <1>9, <2>2, <3>4 DEF Explained
    <3> QED BY <3>2, <3>3, <3>4
  <2> QED BY <1>6, <2>3 DEF Accounted
<1> QED BY <1>10, <1>11

LEMMA AccountNext ==
  ASSUME SealsFirst, IInv, WalkInv, AccountInv, [Next]_vars
  PROVE  AccountInv'
<1>1. ASSUME NEW e \in Event, Stores(e), history' = history PROVE AccountInv'
  BY <1>1, AccountStore
<1>2. ASSUME NEW e \in Event, Observe(e) PROVE AccountInv'
  BY <1>1, <1>2 DEF Observe, Stores
<1>3. ASSUME NEW p \in Process, NEW e \in Event, StoreLine(p, e) PROVE AccountInv'
  BY <1>1, <1>3 DEF StoreLine, Ingesting, Process, Stores
<1>4. CASE UNCHANGED <<rows, deletions, history>>
  <2>1. Waiting' = Waiting /\ Breaks(rows)' = Breaks(rows) /\ Holes' = Holes /\ (Plain' <=> Plain)
    BY <1>4 DEF Waiting, Sealed, Breaks, Follows, Below, Holes, Plain
  <2>2. \A r : Explained(rows, r, Holes)' <=> Explained(rows, r, Holes)
    BY <1>4, <2>1 DEF Explained, Below, Sealed
  <2>3. Accounted => Accounted'
    BY <2>1, <2>2 DEF Accounted
  <2> QED BY <1>4, <2>1, <2>3 DEF AccountInv
<1>5. CASE Purge
  BY <1>5, AccountPurge
<1>6. ASSUME NEW p \in Process, SealRow(p) PROVE AccountInv'
  BY <1>6, AccountSeal
<1>7. \/ UNCHANGED <<rows, deletions, history>>
      \/ \E e \in Event : Observe(e) \/ \E p \in Process : StoreLine(p, e)
      \/ \E p \in Process : SealRow(p)
      \/ Purge
  BY DEF Next, vars, store, ProjectLines, BeginSeal, StartResident, StartBackfill,
         EndBackfill, EndSeal, Kill, ShowPurge, Decline, PlanPurge, Tick
<1> QED BY <1>2, <1>3, <1>4, <1>5, <1>6, <1>7

\* Under the same condition, and as long as each purge found every row sealed and
\* took adjacent transcript rows only, every break `toolog verify --chain` reports
\* is explained by an entry of the deletion log, however often rows are purged,
\* stored and sealed, and wherever a process is killed (verify.rs explain).
THEOREM BreaksExplained ==
  ASSUME SealsFirst
  PROVE  Spec => []BreaksAccountedFor
<1>1. Init => IInv /\ WalkInv /\ AccountInv
  BY TypeInit, UniqueInit, ChainInit, WalkInit, AccountInit DEF IInv
<1>2. IInv /\ WalkInv /\ AccountInv /\ [Next]_vars => (IInv /\ WalkInv /\ AccountInv)'
  BY ChainNext, WalkNext, AccountNext
<1>3. WalkInv /\ AccountInv => BreaksAccountedFor
  BY DEF WalkInv, AccountInv, BreaksAccountedFor, Plain, Accounted
<1> QED BY <1>1, <1>2, <1>3, PTL DEF Spec

-----------------------------------------------------------------------------
(* What a purge says and leaves, in a store of transcripts where a file is  *)
(* of one session ("a transcript file is a session", retention.rs).         *)

TranscriptsOnly == \A e \in Event : e.lane = "transcript"
OneSessionAFile == \A e, f \in Event : e.ref = f.ref => e.session = f.session

\* A path names a file of the session that has it, unless it names none.
NamesFileOf(path, s) == path # NoRef => \E e \in Event : e.ref = path /\ e.session = s

PathsAreOwn == /\ \A s \in Session : NamesFileOf(session[s].path, s)
               /\ \A d \in plan.doomed : NamesFileOf(d[2], d[1])

OwnInv == TypeOK /\ PathsAreOwn /\ NoOrphanProjection

\* The file a session had before the chain existed is that of a line of it.
LEMMA LegacyNewest ==
  ASSUME NEW s \in Session, LegacyOf(s) # {}
  PROVE  \E e \in Event : e.session = s /\ LegacySession(s).path = e.ref
<1>1. LegacyOf(s) \subseteq {e \in Event : e.session = s}
  BY StoreAssumption DEF LegacyOf
<1> DEFINE times == {e.when : e \in LegacyOf(s)}
<1>2. times \in SUBSET (0..MaxClock) /\ times # {}
  BY <1>1, EventAssumption
<1>3. \E t \in times : \A u \in times : u <= t
  BY <1>2, HasGreatest, StoreAssumption
<1>4. \E e \in LegacyOf(s) : \A f \in LegacyOf(s) : f.when <= e.when
  BY <1>3
<1>5. PICK newest : newest = CHOOSE e \in LegacyOf(s) : \A f \in LegacyOf(s) : f.when <= e.when
  OBVIOUS
<1>6. newest \in LegacyOf(s)
  BY <1>4, <1>5
<1>7. LegacySession(s).path = newest.ref
  BY <1>5 DEF LegacySession
<1> QED BY <1>1, <1>6, <1>7

LEMMA OwnInit == Init => OwnInv
<1> SUFFICES ASSUME Init PROVE OwnInv
  OBVIOUS
<1>1. ASSUME NEW s \in Session PROVE NamesFileOf(session[s].path, s)
  <2>1. session[s] = LegacySession(s)
    BY DEF Init
  <2>2. CASE LegacyOf(s) = {}
    BY <2>1, <2>2 DEF LegacySession, Absent, NamesFileOf
  <2>3. CASE LegacyOf(s) # {}
    <3>1. PICK e \in Event : e.session = s /\ LegacySession(s).path = e.ref
      BY <2>3, LegacyNewest
    <3> QED BY <2>1, <3>1 DEF NamesFileOf
  <2> QED BY <2>2, <2>3
<1>2. plan.doomed = {}
  BY DEF Init, NoPlan
<1>3. NoOrphanProjection
  <2>1. ASSUME NEW i \in DOMAIN Legacy PROVE \E r \in rows : r.ev = Legacy[i]
    <3>1. LegacyRow(i) \in rows
      BY <2>1 DEF Init
    <3>2. LegacyRow(i).ev = Legacy[i]
      BY DEF LegacyRow
    <3> QED BY <3>1, <3>2
  <2> QED BY <2>1 DEF Init, NoOrphanProjection
<1> QED BY <1>1, <1>2, <1>3, TypeInit DEF OwnInv, PathsAreOwn

LEMMA ProjectOwn ==
  ASSUME OwnInv, NEW rs, rs \subseteq Row, ProjectRows(rs), NEW s \in Session
  PROVE  NamesFileOf(session'[s].path, s)
<1> DEFINE mine  == {r \in rs : r.ev.session = s}
           lines == {r \in mine : r.ev.lane = "transcript"}
<1>1. session'[s] = SessionAfter(s, rs)
  BY DEF ProjectRows
<1>2. NamesFileOf(session[s].path, s)
  BY DEF OwnInv, PathsAreOwn
<1>3. CASE mine = {}
  BY <1>1, <1>2, <1>3 DEF SessionAfter
<1>4. CASE mine # {} /\ lines = {}
  BY <1>1, <1>2, <1>4 DEF SessionAfter
<1>5. CASE mine # {} /\ lines # {}
  <2>1. session'[s].path = Last(lines).ev.ref
    BY <1>1, <1>5 DEF SessionAfter
  <2>2. lines \subseteq Row /\ \A r \in lines : r.ev \in Event /\ r.ev.session = s /\ r.id \in 1..MaxId
    BY DEF Row
  <2>3. Last(lines) \in lines
    <3> HIDE DEF lines
    <3> QED BY <1>5, <2>2, FirstLast
  <2> HIDE DEF lines
  <2> QED BY <2>1, <2>2, <2>3 DEF NamesFileOf
<1> QED BY <1>3, <1>4, <1>5

LEMMA ProjectKeepsEvidence ==
  ASSUME NoOrphanProjection, NEW rs, ProjectRows(rs), rs \subseteq rows', rows \subseteq rows'
  PROVE  NoOrphanProjection'
BY DEF NoOrphanProjection, ProjectRows

LEMMA PreviewOwn ==
  ASSUME OwnInv, NEW sc \in Scope, NEW d \in Preview(sc).doomed
  PROVE  NamesFileOf(d[2], d[1])
<1>1. PICK going \in SUBSET Session : Preview(sc).doomed = {<<s, session[s].path>> : s \in going}
  <2> DEFINE derived == IF sc.kind = "to_fit" THEN CutoffFor(sc.bytes) ELSE NoCutoff
             going   == IF sc.kind = "sessions" THEN Known \cap sc.sessions
                        ELSE OlderThan(Line(sc, derived))
  <2>1. going \in SUBSET Session
    BY DEF Known, OlderThan
  <2>2. Preview(sc).doomed = {<<s, session[s].path>> : s \in going}
    BY DEF Preview
  <2> HIDE DEF going
  <2> QED BY <2>1, <2>2
<1>2. PICK s \in going : d = <<s, session[s].path>>
  BY <1>1
<1> QED BY <1>2 DEF OwnInv, PathsAreOwn

\* A purge takes a call with each session it names, so what it leaves has its rows.
LEMMA PurgeOwn ==
  ASSUME TranscriptsOnly, OneSessionAFile, OwnInv, Purge
  PROVE  NoOrphanProjection' /\ PathsAreOwn'
<1>0. TypeOK
  BY DEF OwnInv
<1>1. /\ rows' = rows \ Going(plan) /\ calls' = KeptCalls(plan) /\ plan' = NoPlan
      /\ session' = [s \in Session |-> IF s \in Doomed(plan) THEN Absent ELSE session[s]]
  BY DEF Purge
<1>2. ASSUME NEW c \in calls' PROVE \E r \in rows' : <<r.ev.call, r.ev.session>> = c
  <2>1. c \in calls /\ c[2] \notin Doomed(plan)
    BY <1>1, <1>2 DEF KeptCalls
  <2>2. PICK r \in rows : <<r.ev.call, r.ev.session>> = c
    BY <2>1 DEF OwnInv, NoOrphanProjection
  <2>3. r.ev \in Event /\ c[2] = r.ev.session
    BY <1>0, <2>2 DEF TypeOK, Row
  <2>4. r \notin Going(plan)
    <3> SUFFICES ASSUME r \in Going(plan) PROVE FALSE
      OBVIOUS
    <3>1. r.ev.ref \in Paths(plan)
      BY <2>3 DEF Going, OtlpBefore, TranscriptsOnly
    <3>2. PICK d \in plan.doomed : d[2] = r.ev.ref
      BY <3>1 DEF Paths
    <3>3. r.ev.ref # NoRef
      BY <2>3, EventAssumption
    <3>4. PICK e \in Event : e.ref = d[2] /\ e.session = d[1]
      BY <3>2, <3>3 DEF OwnInv, PathsAreOwn, NamesFileOf
    <3>5. r.ev.session = d[1]
      BY <2>3, <3>2, <3>4 DEF OneSessionAFile
    <3> QED BY <2>1, <2>3, <3>5 DEF Doomed
  <2> QED BY <1>1, <2>2, <2>4
<1>3. ASSUME NEW s \in Session PROVE NamesFileOf(session'[s].path, s)
  <2>1. session'[s].path = NoRef \/ session'[s] = session[s]
    BY <1>1 DEF Absent
  <2> QED BY <2>1 DEF OwnInv, PathsAreOwn, NamesFileOf
<1>4. plan'.doomed = {}
  BY <1>1 DEF NoPlan
<1> QED BY <1>2, <1>3, <1>4 DEF NoOrphanProjection, PathsAreOwn

LEMMA OwnNext ==
  ASSUME TranscriptsOnly, OneSessionAFile, OwnInv, [Next]_vars
  PROVE  OwnInv'
<1>0. TypeOK /\ TypeOK'
  BY TypeNext DEF OwnInv
<1>1. CASE Purge
  BY <1>0, <1>1, PurgeOwn DEF OwnInv
<1>2. ASSUME NEW e \in Event, Observe(e) PROVE OwnInv'
  BY <1>2 DEF Observe, TranscriptsOnly
<1>3. ASSUME NEW p \in Process, NEW e \in Event, StoreLine(p, e) PROVE OwnInv'
  <2>1. rows \subseteq rows' /\ UNCHANGED <<session, calls, plan>>
    BY <1>3 DEF StoreLine, StoreRow
  <2> QED BY <1>0, <2>1 DEF OwnInv, PathsAreOwn, NoOrphanProjection
<1>4. ASSUME NEW p \in Process, ProjectLines(p) PROVE OwnInv'
  <2>1. PICK rs : rs = {r \in rows : r.id >= pending[p] /\ r.ev.lane = "transcript"}
    OBVIOUS
  <2>2. ProjectRows(rs) /\ rows' = rows /\ plan' = plan /\ rs \subseteq rows
    BY <1>4, <2>1 DEF ProjectLines
  <2>3. \A s \in Session : NamesFileOf(session'[s].path, s)
    BY <1>0, <2>2, ProjectOwn DEF TypeOK
  <2>4. NoOrphanProjection'
    BY <2>2, ProjectKeepsEvidence DEF OwnInv
  <2> QED BY <1>0, <2>2, <2>3, <2>4 DEF OwnInv, PathsAreOwn
<1>5. ASSUME NEW p \in Process, SealRow(p) PROVE OwnInv'
  <2>1. \A q \in rows : \E r \in rows' : SealsTo(q, r)
    BY <1>0, <1>5, SealKeeps
  <2>2. UNCHANGED <<session, calls, plan>>
    BY <1>5 DEF SealRow
  <2>3. NoOrphanProjection'
    BY <2>1, <2>2 DEF OwnInv, NoOrphanProjection, SealsTo
  <2> QED BY <1>0, <2>2, <2>3 DEF OwnInv, PathsAreOwn
<1>6. ASSUME NEW sc \in Scope, UNCHANGED store,
             plan'.doomed = Preview(sc).doomed \/ plan'.doomed = {} \/ plan' = plan
      PROVE  OwnInv'
  <2>1. UNCHANGED <<rows, session, calls>>
    BY <1>6 DEF store
  <2>2. \A d \in plan'.doomed : NamesFileOf(d[2], d[1])
    BY <1>6, PreviewOwn DEF OwnInv, PathsAreOwn
  <2> QED BY <1>0, <2>1, <2>2 DEF OwnInv, PathsAreOwn, NoOrphanProjection
<1>7. ASSUME UNCHANGED store, plan' = plan \/ plan' = NoPlan PROVE OwnInv'
  <2>1. UNCHANGED <<rows, session, calls>>
    BY <1>7 DEF store
  <2>2. \A d \in plan'.doomed : NamesFileOf(d[2], d[1])
    BY <1>7 DEF OwnInv, PathsAreOwn, NoPlan
  <2> QED BY <1>0, <2>1, <2>2 DEF OwnInv, PathsAreOwn, NoOrphanProjection
<1>8. ASSUME NEW sc \in Scope, ShowPurge(sc) PROVE OwnInv'
  BY <1>6, <1>8 DEF ShowPurge
<1>9. CASE PlanPurge
  <2>1. plan.scope \in Scope
    BY <1>0, <1>9 DEF PlanPurge, TypeOK, PlanTypeOK
  <2>2. plan'.doomed = Preview(plan.scope).doomed /\ UNCHANGED store
    BY <1>9 DEF PlanPurge, Preview
  <2> QED BY <1>6, <2>1, <2>2
<1>10. ASSUME NEW p \in Process, BeginSeal(p) PROVE OwnInv'
  BY <1>7, <1>10 DEF BeginSeal
<1>11. ASSUME NEW p \in Process, EndSeal(p) \/ Kill(p) PROVE OwnInv'
  BY <1>7, <1>11 DEF EndSeal, Kill
<1>12. CASE StartResident \/ StartBackfill \/ EndBackfill \/ Decline \/ Tick \/ UNCHANGED vars
  BY <1>7, <1>10, <1>12
     DEF StartResident, StartBackfill, EndBackfill, Decline, Tick, vars, store, Process
<1> QED BY <1>1, <1>2, <1>3, <1>4, <1>5, <1>8, <1>9, <1>11, <1>12 DEF Next

\* No call is left without evidence that could rebuild it, however purges, imports
\* and re-projections follow and overtake one another (retention.rs purge).
THEOREM NothingOrphaned ==
  ASSUME TranscriptsOnly, OneSessionAFile
  PROVE  Spec => []NoOrphanProjection
<1>1. Init => OwnInv
  BY OwnInit
<1>2. OwnInv /\ [Next]_vars => OwnInv'
  BY OwnNext
<1>3. OwnInv => NoOrphanProjection
  BY DEF OwnInv
<1> QED BY <1>1, <1>2, <1>3, PTL DEF Spec

-----------------------------------------------------------------------------
(* What a purge leaves of a session it names, in the same store, where a    *)
(* session is of one file as well: nothing.                                 *)

OneFileASession == \A e, f \in Event : e.session = f.session => e.ref = f.ref

\* A session that is known has a path, and so has one that is about to go.
Named == /\ \A s \in Session : session[s].known => session[s].path # NoRef
         /\ \A d \in plan.doomed : d[2] # NoRef

NamedInv == OwnInv /\ Named

LEMMA NamedInit == Init => Named
<1> SUFFICES ASSUME Init PROVE Named
  OBVIOUS
<1>1. ASSUME NEW s \in Session, session[s].known PROVE session[s].path # NoRef
  <2>1. session[s] = LegacySession(s)
    BY DEF Init
  <2>2. LegacyOf(s) # {}
    BY <1>1, <2>1 DEF LegacySession, Absent
  <2>3. PICK e \in Event : LegacySession(s).path = e.ref
    BY <2>2, LegacyNewest
  <2> QED BY <2>1, <2>3, EventAssumption
<1>2. plan.doomed = {}
  BY DEF Init, NoPlan
<1> QED BY <1>1, <1>2 DEF Named

LEMMA ProjectNamed ==
  ASSUME TranscriptsOnly, Named, NEW rs, rs \subseteq Row, ProjectRows(rs),
         NEW s \in Session, session'[s].known
  PROVE  session'[s].path # NoRef
<1> DEFINE mine  == {r \in rs : r.ev.session = s}
           lines == {r \in mine : r.ev.lane = "transcript"}
<1>1. session'[s] = SessionAfter(s, rs)
  BY DEF ProjectRows
<1>2. CASE mine = {}
  BY <1>1, <1>2 DEF SessionAfter, Named
<1>3. CASE mine # {}
  <2>1. lines = mine
    BY DEF TranscriptsOnly, Row
  <2>2. session'[s].path = Last(lines).ev.ref
    BY <1>1, <1>3, <2>1 DEF SessionAfter
  <2>3. lines # {} /\ \A r \in lines : r.ev \in Event /\ r.id \in 1..MaxId
    BY <1>3, <2>1 DEF Row
  <2> HIDE DEF lines
  <2>4. Last(lines) \in lines
    BY <2>3, FirstLast
  <2> QED BY <2>2, <2>3, <2>4, EventAssumption
<1> QED BY <1>2, <1>3

LEMMA PreviewNamed ==
  ASSUME Named, NEW sc \in Scope, NEW d \in Preview(sc).doomed
  PROVE  d[2] # NoRef
<1>1. PICK going \in SUBSET Known : Preview(sc).doomed = {<<s, session[s].path>> : s \in going}
  <2> DEFINE derived == IF sc.kind = "to_fit" THEN CutoffFor(sc.bytes) ELSE NoCutoff
             going   == IF sc.kind = "sessions" THEN Known \cap sc.sessions
                        ELSE OlderThan(Line(sc, derived))
  <2>1. going \in SUBSET Known
    BY DEF OlderThan
  <2>2. Preview(sc).doomed = {<<s, session[s].path>> : s \in going}
    BY DEF Preview
  <2> HIDE DEF going
  <2> QED BY <2>1, <2>2
<1>2. PICK s \in going : d = <<s, session[s].path>>
  BY <1>1
<1> QED BY <1>2 DEF Named, Known

\* A purge that takes a session's calls takes every row of its file, the rows
\* stored since its plan included.
LEMMA PurgeKeepsProjected ==
  ASSUME OneFileASession, NamedInv, Purge
  PROVE  KeepsProjected /\ Named'
<1>0. TypeOK
  BY DEF NamedInv, OwnInv
<1>1. /\ rows' = rows \ Going(plan) /\ calls' = KeptCalls(plan) /\ plan' = NoPlan
      /\ session' = [s \in Session |-> IF s \in Doomed(plan) THEN Absent ELSE session[s]]
  BY DEF Purge
<1>2. ASSUME NEW r \in rows \cap rows', Projected(r)
      PROVE  <<r.ev.call, r.ev.session>> \in calls'
  <2>1. r.ev \in Event
    BY <1>0 DEF TypeOK, Row
  <2>2. r.ev.session \notin Doomed(plan)
    <3> SUFFICES ASSUME r.ev.session \in Doomed(plan) PROVE FALSE
      OBVIOUS
    <3>1. PICK d \in plan.doomed : d[1] = r.ev.session
      BY DEF Doomed
    <3>2. PICK e \in Event : e.ref = d[2] /\ e.session = d[1]
      BY DEF NamedInv, Named, OwnInv, PathsAreOwn, NamesFileOf
    <3>3. r.ev.ref = d[2]
      BY <2>1, <3>1, <3>2 DEF OneFileASession
    <3>4. r \in Going(plan)
      BY <3>3 DEF Going, Paths
    <3> QED BY <1>1, <3>4
  <2> QED BY <1>1, <1>2, <2>2 DEF KeptCalls, Projected
<1>3. Named'
  BY <1>1 DEF NamedInv, Named, Absent, NoPlan
<1> QED BY <1>2, <1>3 DEF KeepsProjected, Projected

LEMMA NamedNext ==
  ASSUME TranscriptsOnly, OneSessionAFile, OneFileASession, NamedInv, [Next]_vars
  PROVE  NamedInv' /\ KeepsProjected
<1>0. TypeOK /\ OwnInv /\ OwnInv' /\ Named
  BY OwnNext DEF NamedInv, OwnInv
<1> SUFFICES Named' /\ KeepsProjected
  BY <1>0 DEF NamedInv
<1>a. calls \subseteq calls' => KeepsProjected
  BY DEF KeepsProjected, Projected
<1>1. CASE Purge
  BY <1>0, <1>1, PurgeKeepsProjected DEF NamedInv
<1>2. ASSUME NEW e \in Event, Observe(e) PROVE FALSE
  BY <1>2 DEF Observe, TranscriptsOnly
<1>3. ASSUME NEW p \in Process, ProjectLines(p) PROVE Named' /\ KeepsProjected
  <2>1. PICK rs : rs = {r \in rows : r.id >= pending[p] /\ r.ev.lane = "transcript"}
    OBVIOUS
  <2>2. ProjectRows(rs) /\ plan' = plan /\ rs \subseteq Row
    BY <1>0, <1>3, <2>1 DEF ProjectLines, TypeOK
  <2>3. \A s \in Session : session'[s].known => session'[s].path # NoRef
    BY <1>0, <2>2, ProjectNamed
  <2>4. calls \subseteq calls'
    BY <2>2 DEF ProjectRows
  <2> QED BY <1>0, <1>a, <2>2, <2>3, <2>4 DEF Named
<1>4. ASSUME UNCHANGED <<session, calls>>, \A d \in plan'.doomed : d[2] # NoRef
      PROVE  Named' /\ KeepsProjected
  BY <1>0, <1>4, <1>a DEF Named
<1>5. ASSUME UNCHANGED <<session, calls>>, plan' = plan \/ plan' = NoPlan
      PROVE  Named' /\ KeepsProjected
  BY <1>0, <1>4, <1>5 DEF Named, NoPlan
<1>6. ASSUME NEW sc \in Scope, ShowPurge(sc) PROVE Named' /\ KeepsProjected
  <2>1. UNCHANGED <<session, calls>> /\ plan' = Preview(sc)
    BY <1>6 DEF ShowPurge, store
  <2> QED BY <1>0, <1>4, <2>1, PreviewNamed
<1>7. CASE PlanPurge
  <2>1. plan.scope \in Scope
    BY <1>0, <1>7 DEF PlanPurge, TypeOK, PlanTypeOK
  <2>2. plan'.doomed = Preview(plan.scope).doomed /\ UNCHANGED <<session, calls>>
    BY <1>7 DEF PlanPurge, Preview, store
  <2>3. \A d \in plan'.doomed : d[2] # NoRef
    BY <1>0, <2>1, <2>2, PreviewNamed
  <2> QED BY <1>0, <1>a, <2>2, <2>3 DEF Named
<1>8. ASSUME NEW p \in Process, SealRow(p) \/ EndSeal(p) \/ Kill(p) \/ BeginSeal(p)
      PROVE  Named' /\ KeepsProjected
  BY <1>5, <1>8 DEF SealRow, EndSeal, Kill, BeginSeal, store
<1>9. ASSUME NEW p \in Process, NEW e \in Event, StoreLine(p, e)
      PROVE  Named' /\ KeepsProjected
  BY <1>5, <1>9 DEF StoreLine
<1>10. CASE StartResident \/ EndBackfill
  BY <1>8, <1>10 DEF StartResident, EndBackfill, Process
<1>11. CASE StartBackfill \/ Decline \/ Tick \/ UNCHANGED vars
  <2>1. UNCHANGED <<session, calls>> /\ (plan' = plan \/ plan' = NoPlan)
    BY <1>11 DEF StartBackfill, Decline, Tick, vars, store
  <2> QED BY <1>5, <2>1
<1> QED BY <1>1, <1>2, <1>3, <1>6, <1>7, <1>8, <1>9, <1>10, <1>11 DEF Next

\* No step, a purge beside a tail that is still storing included, takes away the
\* projection of a record that stays stored, which the next re-projection would
\* silently bring back (retention.rs purge).
THEOREM NothingSeparated ==
  ASSUME TranscriptsOnly, OneSessionAFile, OneFileASession
  PROVE  Spec => NeverSeparated
<1>1. Init => NamedInv
  BY OwnInit, NamedInit DEF NamedInv
<1>2. NamedInv /\ [Next]_vars => NamedInv' /\ [KeepsProjected]_vars
  BY NamedNext
<1> QED BY <1>1, <1>2, PTL DEF Spec, NeverSeparated

-----------------------------------------------------------------------------
(* The number a purge records, in the same store: the rows its sessions own *)
(* are the rows it deletes.                                                 *)

LEMMA CountIsGoing ==
  ASSUME TranscriptsOnly, OneSessionAFile, OwnInv, NEW sc \in Scope,
         NEW p, p.doomed = Preview(sc).doomed, p.derived = Preview(sc).derived
  PROVE  Cardinality(Going(p)) = Preview(sc).count
<1> DEFINE derived == IF sc.kind = "to_fit" THEN CutoffFor(sc.bytes) ELSE NoCutoff
           line    == Line(sc, derived)
           going   == IF sc.kind = "sessions" THEN Known \cap sc.sessions
                      ELSE OlderThan(line)
           otlp    == IF sc.kind = "sessions" THEN 0 ELSE Cardinality(OtlpBefore(line))
           pairs   == {sr \in going \X rows : sr[2] \in Owned(sr[1])}
           row     == [sr \in pairs |-> sr[2]]
<1>0. TypeOK /\ IsFiniteSet(rows)
  BY DEF OwnInv, TypeOK
<1>1. going \subseteq Session
  BY DEF Known, OlderThan
<1>2. \A r \in rows : r.ev \in Event /\ r.ev.lane = "transcript" /\ r.ev.ref # NoRef
  BY <1>0, EventAssumption DEF TypeOK, Row, TranscriptsOnly
<1>3. \A c : OtlpBefore(c) = {}
  BY <1>2 DEF OtlpBefore
<1>4. otlp = 0
  BY <1>3, FS_EmptySet
<1>5. Preview(sc).count = Cardinality(pairs) + otlp
      /\ Preview(sc).doomed = {<<s, session[s].path>> : s \in going}
  BY DEF Preview, OwnedBytes
<1> HIDE DEF going, otlp
<1>6. Going(p) = {r \in rows : \E s \in going : r.ev.ref = session[s].path}
  <2>1. p.doomed = {<<s, session[s].path>> : s \in going}
    BY <1>5
  <2>2. \A x : x \in Paths(p) <=> \E s \in going : x = session[s].path
    <3>1. ASSUME NEW s \in going PROVE session[s].path \in Paths(p)
      <4>1. PICK d : d = <<s, session[s].path>>
        OBVIOUS
      <4>2. d \in p.doomed /\ d[2] = session[s].path
        BY <2>1, <3>1, <4>1
      <4> QED BY <4>2 DEF Paths
    <3>2. ASSUME NEW x \in Paths(p) PROVE \E s \in going : x = session[s].path
      <4>1. PICK d \in p.doomed : x = d[2]
        BY <3>2 DEF Paths
      <4>2. PICK s \in going : d = <<s, session[s].path>>
        BY <2>1, <4>1
      <4> QED BY <4>1, <4>2
    <3> QED BY <3>1, <3>2
  <2> QED BY <1>3, <2>2 DEF Going
<1>7. IsFiniteSet(pairs)
  <2>1. IsFiniteSet(going)
    BY <1>1, FS_Subset, StoreAssumption
  <2>2. IsFiniteSet(going \X rows)
    BY <1>0, <2>1, FS_Product
  <2> QED BY <2>2, FS_Subset
<1>8. row \in Bijection(pairs, Going(p))
  <2>1. \A sr \in pairs : /\ sr[1] \in going /\ sr[2] \in rows
                          /\ sr[2].ev.ref = session[sr[1]].path /\ sr = <<sr[1], sr[2]>>
    BY DEF Owned
  <2>2. \A sr \in pairs : row[sr] \in Going(p)
    BY <1>6, <2>1
  <2>3. ASSUME NEW sr \in pairs, NEW tr \in pairs, row[sr] = row[tr] PROVE sr = tr
    <3>1. sr[2] = tr[2]
      BY <2>3
    <3>2. sr[1] \in Session /\ tr[1] \in Session
      BY <1>1, <2>1
    <3>3. session[sr[1]].path = session[tr[1]].path /\ session[sr[1]].path # NoRef
      BY <1>2, <2>1, <3>1
    <3>4. PICK e \in Event : e.ref = session[sr[1]].path /\ e.session = sr[1]
      BY <3>2, <3>3 DEF OwnInv, PathsAreOwn, NamesFileOf
    <3>5. PICK f \in Event : f.ref = session[tr[1]].path /\ f.session = tr[1]
      BY <3>2, <3>3 DEF OwnInv, PathsAreOwn, NamesFileOf
    <3>6. sr[1] = tr[1]
      BY <3>3, <3>4, <3>5 DEF OneSessionAFile
    <3> QED BY <2>1, <3>1, <3>6
  <2>4. ASSUME NEW r \in Going(p) PROVE \E sr \in pairs : row[sr] = r
    <3>1. PICK s \in going : r \in rows /\ r.ev.ref = session[s].path
      BY <1>6, <2>4
    <3>2. <<s, r>> \in pairs
      BY <3>1 DEF Owned
    <3> QED BY <3>2
  <2> HIDE DEF pairs
  <2>5. row \in [pairs -> Going(p)]
    BY <2>2
  <2> HIDE DEF row
  <2> QED BY <2>3, <2>4, <2>5 DEF Bijection, Injection, Surjection, IsInjective
<1>9. Cardinality(pairs) = Cardinality(Going(p)) /\ Cardinality(pairs) \in Nat
  <2> HIDE DEF pairs, row
  <2> QED BY <1>7, <1>8, FS_Bijection, FS_CardinalityType DEF ExistsBijection
<1> HIDE DEF pairs
<1> QED BY <1>4, <1>5, <1>9

(* With the application closed nothing is stored between a preview and the  *)
(* deletion, so the plan made last says what the one that was shown did.    *)

HonestInv ==
  /\ OwnInv
  /\ pc.resident = "down"
  /\ pc.cli = "shown" => plan = Preview(plan.scope)
  /\ pc.cli = "planned" => plan = [Preview(plan.scope) EXCEPT !.shown = Doomed(plan)]
  /\ Len(history) = Len(deletions)
  /\ CountedAsRemoved /\ ShownBeforeGone /\ NothingActivePurged

LEMMA PreviewOfStore ==
  ASSUME rows' = rows, session' = session
  PROVE  \A sc : Preview(sc)' = Preview(sc)
<1>1. \A s : Owned(s)' = Owned(s)
  BY DEF Owned
<1>2. \A S : OwnedBytes(S)' = OwnedBytes(S)
  BY <1>1 DEF OwnedBytes
<1>3. Known' = Known
  BY DEF Known
<1>4. \A c : OlderThan(c)' = OlderThan(c) /\ OtlpBefore(c)' = OtlpBefore(c)
  BY <1>3 DEF OlderThan, OtlpBefore
<1>5. \A c, b : Fits(c, b)' <=> Fits(c, b)
  BY <1>2, <1>3, <1>4 DEF Fits
<1>6. \A b : CutoffFor(b)' = CutoffFor(b)
  <2> TAKE b
  <2> DEFINE ends == {session[s].last + 1 : s \in Known}
             fit  == {c \in ends : Fits(c, b)}
  <2>1. ends' = ends
    BY <1>3
  <2>2. fit' = fit
    BY <1>5, <2>1
  <2>3. CutoffFor(b) = IF Fits(0, b) THEN NoCutoff ELSE CHOOSE c \in fit : \A d \in fit : c <= d
    BY DEF CutoffFor
  <2>4. CutoffFor(b)' = IF Fits(0, b)' THEN NoCutoff
                        ELSE CHOOSE c \in fit' : \A d \in fit' : c <= d
    BY DEF CutoffFor
  <2> HIDE DEF fit
  <2> QED BY <1>5, <2>2, <2>3, <2>4
<1> QED BY <1>2, <1>3, <1>4, <1>6 DEF Preview

LEMMA StillShown ==
  ASSUME ~Resident, HonestInv, [Next]_vars, pc.cli \in {"shown", "planned"}, ~Purge
  PROVE  /\ UNCHANGED <<rows, session, deletions, history>>
         /\ pc'.resident = "down"
         /\ \/ pc'.cli = "idle"
            \/ pc'.cli = pc.cli /\ plan' = plan
            \/ PlanPurge
<1>1. TypeOK /\ pc.resident = "down"
  BY DEF HonestInv, OwnInv
<1>2. \A p \in Process : ~Ingesting(p) /\ pc[p] # "sealing"
  BY <1>1 DEF Ingesting, Process
<1>3. ASSUME NEW p \in Process, Kill(p) PROVE p = "cli"
  BY <1>1, <1>3 DEF Kill, Process
<1> QED BY <1>1, <1>2, <1>3
        DEF Next, vars, store, Observe, StoreLine, ProjectLines, StartResident, StartBackfill,
            EndBackfill, SealRow, EndSeal, Kill, ShowPurge, Decline, PlanPurge, Tick, Process,
            TypeOK

\* A size that does not fit has a cutoff that makes it fit: that of the newest.
LEMMA CutoffType ==
  ASSUME TypeOK, NEW b \in Nat
  PROVE  CutoffFor(b) \in Int
<1> DEFINE ends == {session[s].last + 1 : s \in Known}
           fit  == {c \in ends : Fits(c, b)}
<1>1. OwnedBytes({}) = 0
  <2>1. {sr \in {} \X rows : sr[2] \in Owned(sr[1])} = {}
    OBVIOUS
  <2> QED BY <2>1, FS_EmptySet DEF OwnedBytes
<1>2. \A s \in Known : s \in Session /\ session[s].last \in 0..MaxClock
  BY DEF Known, TypeOK
<1>3. CASE Fits(0, b)
  BY <1>3 DEF CutoffFor, NoCutoff
<1>4. CASE ~Fits(0, b)
  <2>1. Known # {}
    <3> SUFFICES ASSUME Known = {} PROVE FALSE
      OBVIOUS
    <3>1. Known \ OlderThan(0) = {}
      OBVIOUS
    <3> QED BY <1>1, <1>4, <3>1 DEF Fits
  <2>2. MaxClock + 1 \in Nat
    BY StoreAssumption
  <2>3. ends \in SUBSET (0..(MaxClock + 1)) /\ ends # {}
    <3>1. \A s \in Known : session[s].last + 1 \in 0..(MaxClock + 1)
      <4> SUFFICES ASSUME NEW s \in Known PROVE session[s].last + 1 \in 0..(MaxClock + 1)
        OBVIOUS
      <4>1. session[s].last \in 0..MaxClock /\ MaxClock \in Nat
        BY <1>2, StoreAssumption
      <4>2. PICK t : t = session[s].last
        OBVIOUS
      <4> QED BY ONLY <4>1, <4>2
    <3> QED BY <2>1, <3>1
  <2>4. PICK m \in ends : \A k \in ends : k <= m
    BY <2>2, <2>3, HasGreatest
  <2>5. Fits(m, b)
    <3>1. \A s \in Known : session[s].last < m
      <4> SUFFICES ASSUME NEW s \in Known PROVE session[s].last < m
        OBVIOUS
      <4>1. session[s].last + 1 <= m
        BY <2>4
      <4>2. m \in Int
        BY <2>3
      <4> QED BY <1>2, <4>1, <4>2
    <3>2. Known \ OlderThan(m) = {}
      BY <3>1 DEF OlderThan
    <3> QED BY <1>1, <3>2 DEF Fits
  <2>6. fit \in SUBSET (0..(MaxClock + 1)) /\ fit # {}
    BY <2>3, <2>4, <2>5
  <2>7. CutoffFor(b) = CHOOSE c \in fit : \A d \in fit : c <= d
    BY <1>4 DEF CutoffFor
  <2> HIDE DEF fit
  <2>8. \E c \in fit : \A d \in fit : c <= d
    BY <2>2, <2>6, HasLeast
  <2>9. CutoffFor(b) \in fit
    BY <2>7, <2>8
  <2>10. CutoffFor(b) \in 0..(MaxClock + 1)
    BY <2>6, <2>9
  <2> QED BY <2>2, <2>10
<1> QED BY <1>3, <1>4

LEMMA PurgeHonest ==
  ASSUME TranscriptsOnly, OneSessionAFile, HonestInv, Purge
  PROVE  /\ Len(history') = Len(deletions')
         /\ CountedAsRemoved' /\ ShownBeforeGone' /\ NothingActivePurged'
<1> DEFINE n == Len(history) + 1
<1>0. TypeOK /\ OwnInv
  BY DEF HonestInv, OwnInv
<1>1. plan.scope \in Scope /\ plan = [Preview(plan.scope) EXCEPT !.shown = Doomed(plan)]
  BY <1>0 DEF Purge, HonestInv, TypeOK, PlanTypeOK
<1>2. PICK v : v = Preview(plan.scope)
  OBVIOUS
<1>3. plan.doomed = v.doomed /\ plan.derived = v.derived /\ plan.count = v.count
      /\ plan.shown = Doomed(plan)
  BY <1>1, <1>2 DEF Preview
<1>4. PICK seen : seen = Observed(plan)
  OBVIOUS
<1>5. PICK entry : entry = Deletion(plan)
  OBVIOUS
<1>6. seen.removed = entry.count
  <2>1. Cardinality(Going(plan)) = v.count
    BY ONLY <1>0, <1>1, <1>2, <1>3, TranscriptsOnly, OneSessionAFile, CountIsGoing
  <2> QED BY <1>3, <1>4, <1>5, <2>1 DEF Observed, Deletion
<1>7. seen.unseen = {}
  BY <1>3, <1>4 DEF Observed
<1>8. seen.active = {}
  <2>1. CASE plan.scope.kind = "sessions"
    BY <1>4, <2>1 DEF Observed
  <2>2. CASE plan.scope.kind # "sessions"
    <3>1. plan.doomed = {<<s, session[s].path>> : s \in OlderThan(Line(plan.scope, plan.derived))}
      BY <1>2, <1>3, <2>2 DEF Preview
    <3>2. PICK line : line = Line(plan.scope, plan.derived)
      OBVIOUS
    <3>3. Doomed(plan) \subseteq OlderThan(line)
      BY <3>1, <3>2 DEF Doomed
    <3>4. seen.active = {s \in Doomed(plan) : session[s].last >= line}
      BY <1>4, <2>2, <3>2 DEF Observed
    <3>5. \A s \in OlderThan(line) : ~(session[s].last >= line)
      <4>1. line \in Int
        <5>1. CASE plan.scope.kind = "before"
          BY <1>1, <3>2, <5>1, ScopeAssumption DEF Line
        <5>2. CASE plan.scope.kind = "to_fit"
          <6>1. plan.derived = CutoffFor(plan.scope.bytes)
            BY <1>2, <1>3, <5>2 DEF Preview
          <6>2. plan.derived \in Int
            BY <1>0, <1>1, <6>1, CutoffType, ScopeAssumption
          <6> QED BY <3>2, <5>2, <6>2 DEF Line
        <5> QED BY <1>1, <2>2, <5>1, <5>2, ScopeAssumption
      <4>2. \A s \in Session : session[s].last \in Nat
        BY <1>0 DEF TypeOK
      <4> QED BY <4>1, <4>2 DEF OlderThan, Known
    <3> QED BY <3>3, <3>4, <3>5
  <2> QED BY <2>1, <2>2
<1>9. /\ history \in Seq(Observation) /\ deletions \in Seq(Entry)
      /\ history' = Append(history, seen) /\ deletions' = Append(deletions, entry)
      /\ Len(history) = Len(deletions)
      /\ history' \in Seq(Observation) /\ deletions' \in Seq(Entry)
  BY <1>0, <1>4, <1>5, PurgeType DEF Purge, Logged, HonestInv, TypeOK
<1>10. /\ DOMAIN history' = DOMAIN history \cup {n} /\ Len(history') = Len(deletions')
       /\ history'[n] = seen /\ deletions'[n] = entry
       /\ \A i \in DOMAIN history : history'[i] = history[i] /\ deletions'[i] = deletions[i]
  BY ONLY <1>9
<1> HIDE DEF n
<1> QED BY <1>6, <1>7, <1>8, <1>10
        DEF HonestInv, CountedAsRemoved, ShownBeforeGone, NothingActivePurged

LEMMA HonestNext ==
  ASSUME ~Resident, TranscriptsOnly, OneSessionAFile, HonestInv, [Next]_vars
  PROVE  HonestInv'
<1>0. TypeOK /\ OwnInv /\ OwnInv'
  BY OwnNext DEF HonestInv, OwnInv
<1>1. Len(history) = Len(deletions) /\ CountedAsRemoved /\ ShownBeforeGone
      /\ NothingActivePurged /\ pc.resident = "down"
  BY DEF HonestInv
<1>2. UNCHANGED <<deletions, history>>
        => /\ Len(history') = Len(deletions')
           /\ CountedAsRemoved' /\ ShownBeforeGone' /\ NothingActivePurged'
  BY <1>1 DEF CountedAsRemoved, ShownBeforeGone, NothingActivePurged
<1>3. CASE Purge
  <2>1. pc'.resident = "down" /\ pc'.cli = "idle"
    BY <1>0, <1>1, <1>3 DEF Purge, TypeOK, Process
  <2> QED BY <1>0, <1>3, <2>1, PurgeHonest DEF HonestInv
<1>4. CASE pc.cli \in {"shown", "planned"} /\ ~Purge
  <2>1. /\ UNCHANGED <<rows, session, deletions, history>>
        /\ pc'.resident = "down"
        /\ \/ pc'.cli = "idle"
           \/ pc'.cli = pc.cli /\ plan' = plan
           \/ PlanPurge
    BY <1>4, StillShown
  <2>2. \A sc : Preview(sc)' = Preview(sc)
    BY <2>1, PreviewOfStore
  <2>3. CASE pc'.cli = "idle"
    BY <1>0, <1>2, <2>1, <2>3 DEF HonestInv
  <2>4. CASE pc'.cli = pc.cli /\ plan' = plan
    <3>1. PICK sc : sc = plan.scope
      OBVIOUS
    <3>2. PICK doomed : doomed = Doomed(plan)
      OBVIOUS
    <3>3. PICK v : v = Preview(sc)
      OBVIOUS
    <3>4. plan'.scope = sc /\ Doomed(plan)' = doomed /\ Preview(sc)' = v
      BY <2>2, <2>4, <3>1, <3>2, <3>3 DEF Doomed
    <3>5. Preview(plan.scope)' = v /\ Preview(plan.scope) = v
      BY <3>1, <3>3, <3>4
    <3>6. CASE pc.cli = "shown"
      <4>1. plan' = Preview(plan.scope)'
        BY <2>4, <3>5, <3>6 DEF HonestInv
      <4> QED BY <1>0, <1>2, <2>1, <2>4, <3>6, <4>1 DEF HonestInv
    <3>7. CASE pc.cli = "planned"
      <4>1. plan = [v EXCEPT !.shown = doomed]
        BY <3>2, <3>5, <3>7 DEF HonestInv
      <4>2. plan' = [Preview(plan.scope)' EXCEPT !.shown = Doomed(plan)']
        BY ONLY <2>4, <3>4, <3>5, <4>1
      <4> QED BY <1>0, <1>2, <2>1, <2>4, <3>7, <4>2 DEF HonestInv
    <3> QED BY <1>4, <3>6, <3>7
  <2>5. CASE PlanPurge
    <3>1. plan = Preview(plan.scope) /\ pc'.cli = "planned"
      BY <1>0, <2>5 DEF PlanPurge, HonestInv, TypeOK, Process
    <3>2. PICK v : v = Preview(plan.scope)
      OBVIOUS
    <3>3. plan' = [v EXCEPT !.shown = Doomed(plan)] /\ v.scope = plan.scope
      BY <2>5, <3>2 DEF PlanPurge, Preview
    <3>4. plan'.scope = plan.scope /\ plan'.doomed = v.doomed
      BY <3>2, <3>3 DEF Preview
    <3>5. Doomed(plan)' = Doomed(plan)
      BY <3>1, <3>2, <3>4 DEF Doomed
    <3>6. Preview(plan.scope)' = v
      BY <2>2, <3>2, <3>4
    <3>7. plan' = [Preview(plan.scope)' EXCEPT !.shown = Doomed(plan)']
      BY <3>3, <3>5, <3>6
    <3> QED BY <1>0, <1>2, <2>1, <3>1, <3>7 DEF HonestInv
  <2> QED BY <2>1, <2>3, <2>4, <2>5
<1>5. CASE pc.cli \notin {"shown", "planned"} /\ ~Purge
  <2>1. UNCHANGED <<deletions, history>>
    BY <1>5 DEF Next, vars, store, Observe, StoreLine, ProjectLines, BeginSeal, StartResident,
       StartBackfill, EndBackfill, SealRow, EndSeal, Kill, ShowPurge, Decline, PlanPurge, Tick
  <2>2. CASE \E sc \in Scope : ShowPurge(sc)
    <3>1. PICK sc \in Scope : ShowPurge(sc)
      BY <2>2
    <3>2. /\ plan' = Preview(sc) /\ pc'.cli = "shown" /\ pc'.resident = "down"
          /\ UNCHANGED <<rows, session>>
      BY <1>0, <1>1, <3>1 DEF ShowPurge, store, TypeOK, Process
    <3>3. plan'.scope = sc /\ Preview(sc)' = Preview(sc)
      BY <1>0, <3>2, PreviewType, PreviewOfStore
    <3>4. plan' = Preview(plan.scope)'
      BY <3>2, <3>3
    <3> QED BY <1>0, <1>2, <2>1, <3>2, <3>4 DEF HonestInv
  <2>3. CASE ~\E sc \in Scope : ShowPurge(sc)
    <3>1. pc'.cli \notin {"shown", "planned"} /\ pc'.resident = "down"
      BY <1>0, <1>1, <1>5, <2>3 DEF Next, vars, store, Observe, StoreLine, ProjectLines, BeginSeal,
         StartResident, StartBackfill, EndBackfill, SealRow, EndSeal, Kill, Decline, PlanPurge,
         Tick, TypeOK, Process
    <3> QED BY <1>0, <1>2, <2>1, <3>1 DEF HonestInv
  <2> QED BY <2>2, <2>3
<1> QED BY <1>3, <1>4, <1>5

\* With the application closed, a purge of transcripts removes the number of
\* records it writes down, no session its preview had not named, and none that was
\* active since its cutoff, whatever else the command line did between (retention.rs
\* plan and purge).
THEOREM PurgesHonest ==
  ASSUME ~Resident, TranscriptsOnly, OneSessionAFile
  PROVE  Spec => [](CountedAsRemoved /\ ShownBeforeGone /\ NothingActivePurged)
<1>1. Init => HonestInv
  <2> SUFFICES ASSUME Init PROVE HonestInv
    OBVIOUS
  <2>1. pc.resident = "down" /\ pc.cli = "idle" /\ history = <<>> /\ deletions = <<>>
    BY DEF Init, Process
  <2> QED BY <2>1, OwnInit
          DEF HonestInv, CountedAsRemoved, ShownBeforeGone, NothingActivePurged
<1>2. HonestInv /\ [Next]_vars => HonestInv'
  BY HonestNext
<1>3. HonestInv => CountedAsRemoved /\ ShownBeforeGone /\ NothingActivePurged
  BY DEF HonestInv
<1> QED BY <1>1, <1>2, <1>3, PTL DEF Spec
=============================================================================
