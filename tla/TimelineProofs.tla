--------------------------- MODULE TimelineProofs ---------------------------
(***************************************************************************)
(* However late and in whatever order the answers come, the list that is   *)
(* laid out, the chart and the pane are those of the question the view now *)
(* has, what the window waits for has been asked for, and the rows held    *)
(* are the filter's unless the list was drawn while its count was awaited: *)
(* TimelineInv for any tools, filters, sizes of a page, a screen and a     *)
(* batch, and courses of events.                                           *)
(***************************************************************************)
EXTENDS Timeline, Extremes, FiniteSetTheorems, SequenceTheorems, TLAPS

-----------------------------------------------------------------------------
(* The inductive invariant. *)

RequestType ==
  [kind : {"count", "page", "chart", "call", "collector"}, filter : Filter,
   page : Nat, current : BOOLEAN, reply : Nat \cup {Waiting}]
PageType == UNION {[S -> Filter] : S \in SUBSET Nat}
StoreType == [pages : PageType, inflight : SUBSET Nat, failed : SUBSET Nat]

\* What is told of is a call that is stored, and no batch is empty.
Told(n) ==
  /\ arrivals \in Seq(SUBSET (1..n)) /\ \A i \in 1..Len(arrivals) : arrivals[i] # {}
  /\ alerts \in Seq(SUBSET (1..n)) /\ \A i \in 1..Len(alerts) : alerts[i] # {}
  /\ pending \subseteq 1..n

Typed ==
  /\ kept \in Seq(Tool) /\ left \in CourseType
  /\ filter \in Filter /\ selected \in Nat
  /\ plan \in [filter : Filter, total : Nat] /\ plan.total <= Len(kept)
  /\ cache \in StoreType /\ first \in Nat
  /\ Told(Len(kept))

\* A count is of the rows stored; a chart that is wanted is of the view's filter (f),
\* and so is, when nothing covers the list (s is state), the call wanted the one
\* selected (c).
Wanted(r, f, c, s, n) ==
  /\ r.kind = "count" => r.reply <= n
  /\ r.kind = "chart" /\ r.current => r.filter = f
  /\ r.kind = "call" /\ r.current /\ s = "none" => r.page = c
Requested(q, f, c, s, n) ==
  q \subseteq RequestType /\ \A r \in q : Wanted(r, f, c, s, n)

\* The rows held and those wanted are rows of the view's filter.
Matching(q, st, f) ==
  /\ \A n \in DOMAIN st.pages : st.pages[n] = f
  /\ \A r \in q : r.kind = "page" /\ r.current => r.filter = f

\* The chart is of the view's filter, or none, or on its way.
Charted(q, ch, f) ==
  ch \in {f, None} \/ \E r \in q : r.kind = "chart" /\ r.current /\ r.filter = f

\* While the list is covered (s) a count is on its way, and so is every page held (st)
\* to be.
Awaits(q, s, st) ==
  /\ s = "loading" => \E r \in q : r.kind = "count" /\ r.current
  /\ \A m \in st.inflight : \E r \in q : r.kind = "page" /\ r.current /\ r.page = m

IInv ==
  /\ Typed
  /\ Requested(asked, filter, selected, state, Len(kept))
  /\ mixed \/ Matching(asked, cache, filter)
  /\ Charted(asked, chart, filter)
  /\ Awaits(asked, state, cache)
  /\ state = "none" => plan.filter = filter /\ pane = selected

-----------------------------------------------------------------------------
(* Numbers, sequences and requests. *)

LEMMA MinOfTwo ==
  ASSUME NEW a \in Int, NEW b \in Int
  PROVE  Min({a, b}) \in {a, b} /\ Min({a, b}) <= a /\ Min({a, b}) <= b
<1>1. \E x \in {a, b} : \A y \in {a, b} : x <= y
  <2>1. CASE a <= b
    BY <2>1
  <2>2. CASE ~(a <= b)
    BY <2>2
  <2> QED BY <2>1, <2>2
<1> QED BY <1>1 DEF Min

LEMMA MaxOfTwo ==
  ASSUME NEW a \in Int, NEW b \in Int
  PROVE  Max({a, b}) \in {a, b} /\ a <= Max({a, b}) /\ b <= Max({a, b})
<1>1. \E x \in {a, b} : \A y \in {a, b} : x >= y
  <2>1. CASE a <= b
    BY <2>1
  <2>2. CASE ~(a <= b)
    BY <2>2
  <2> QED BY <2>1, <2>2
<1> QED BY <1>1 DEF Max

LEMMA LeastOf ==
  ASSUME NEW n \in Nat, NEW S \in SUBSET (1..n), S # {}
  PROVE  Min(S) \in S /\ \A k \in S : Min(S) <= k
<1>1. S \in SUBSET (0..n)
  OBVIOUS
<1>2. \E m \in S : \A k \in S : m <= k
  BY <1>1, HasLeast
<1> QED BY <1>2 DEF Min

\* The pages on the screen have numbers.
LEMMA ShownPages ==
  ASSUME NEW p \in [filter : Filter, total : Nat], NEW top \in Nat
  PROVE  Shown(p, top) \in SUBSET Nat
<1>1. Min({top + Screen - 1, p.total - 1}) \in Int
  BY MinOfTwo, TimelineAssumption
<1>2. ASSUME NEW i \in top..Min({top + Screen - 1, p.total - 1})
      PROVE  i \div Page \in Nat
  <2>1. i \in Nat /\ Page \in Nat /\ Page > 0
    BY <1>1, TimelineAssumption
  <2> QED BY <2>1
<1> QED BY <1>2 DEF Shown

LEMMA CountedRows ==
  ASSUME NEW f, kept \in Seq(Tool)
  PROVE  CountOf(f) \in Nat /\ CountOf(f) <= Len(kept)
<1>1. Len(kept) \in Nat /\ DOMAIN kept = 1..Len(kept)
  BY LenProperties
<1>2. IsFiniteSet(1..Len(kept)) /\ Cardinality(1..Len(kept)) = Len(kept)
  BY <1>1, FS_Interval
<1>3. PICK S \in SUBSET (1..Len(kept)) : S = {i \in DOMAIN kept : Matches(f, kept[i])}
  BY <1>1
<1>4. IsFiniteSet(S) /\ Cardinality(S) <= Cardinality(1..Len(kept)) /\ Cardinality(S) \in Nat
  BY <1>2, FS_Subset, FS_CardinalityType
<1> QED BY <1>2, <1>3, <1>4 DEF CountOf

\* Fewer requests are as sound as they were, and so are those that come to be
\* outdated; a chart stays on its way unless it is what is taken.
LEMMA FewerRequested ==
  ASSUME NEW q, NEW f, NEW c, NEW s, NEW n, Requested(q, f, c, s, n), NEW r
  PROVE  Requested(q \ {r}, f, c, s, n)
BY DEF Requested

LEMMA FewerMatching ==
  ASSUME NEW q, NEW f, NEW st, Matching(q, st, f), NEW r
  PROVE  Matching(q \ {r}, st, f)
BY DEF Matching

LEMMA FewerCharted ==
  ASSUME NEW q, NEW f, NEW ch, Charted(q, ch, f), NEW r, r.kind # "chart" \/ ~r.current
  PROVE  Charted(q \ {r}, ch, f)
BY DEF Charted

LEMMA FewerAwaits ==
  ASSUME NEW q, NEW s, NEW st, Awaits(q, s, st), NEW r, NEW z, NEW I,
         I.inflight \subseteq st.inflight,
         \/ ~r.current
         \/ r.kind \notin {"count", "page"}
         \/ r.kind = "count" /\ z # "loading"
         \/ r.kind = "page" /\ r.page \notin I.inflight,
         z = "loading" => s = "loading"
  PROVE  Awaits(q \ {r}, z, I)
BY DEF Awaits

\* Drawing asks for rows of the plan, and is remembered when they are not the view's.
LEMMA RenderKeeps ==
  ASSUME NEW p \in [filter : Filter, total : Nat], NEW top \in Nat, NEW st \in StoreType,
         NEW q, NEW f, NEW c, NEW s, NEW n, NEW ch,
         Requested(q, f, c, s, n), mixed \/ Matching(q, st, f), Charted(q, ch, f),
         Awaits(q, s, st), Render(p, top, st, q, f)
  PROVE  /\ cache' \in StoreType /\ Requested(asked', f, c, s, n)
         /\ mixed' \/ Matching(asked', cache', f)
         /\ Charted(asked', ch, f) /\ Awaits(asked', s, cache')
<1>1. PICK M : M = Missing(p, top, st)
  OBVIOUS
<1>2. M \in SUBSET Nat
  BY <1>1, ShownPages DEF Missing
<1>3. /\ cache' = [st EXCEPT !.inflight = @ \cup M]
      /\ asked' = q \cup {Request("page", p.filter, m) : m \in M}
      /\ mixed' = (mixed \/ (M # {} /\ p.filter # f))
  BY <1>1 DEF Render
<1>4. ASSUME NEW m \in M
      PROVE  /\ Request("page", p.filter, m) \in RequestType
             /\ Request("page", p.filter, m).kind = "page"
             /\ Request("page", p.filter, m).filter = p.filter
             /\ Request("page", p.filter, m).current
             /\ Request("page", p.filter, m).page = m
  BY <1>2 DEF Request, RequestType, Waiting
<1>5. cache' \in StoreType /\ cache'.pages = st.pages /\ cache'.inflight = st.inflight \cup M
  <2>1. PICK I \in SUBSET Nat : I = st.inflight \cup M
    BY <1>2 DEF StoreType
  <2>2. cache' = [st EXCEPT !.inflight = I]
    BY <1>3, <2>1
  <2>3. cache' \in StoreType /\ cache'.pages = st.pages /\ cache'.inflight = I
    BY <2>2 DEF StoreType
  <2> QED BY <2>1, <2>3
<1>6. Requested(asked', f, c, s, n)
  <2>1. asked' \subseteq RequestType
    BY <1>3, <1>4 DEF Requested
  <2>2. ASSUME NEW r \in asked' PROVE Wanted(r, f, c, s, n)
    <3>1. CASE r \in q
      BY <3>1 DEF Requested
    <3>2. CASE r \notin q
      <4>1. r.kind = "page"
        BY <1>3, <1>4, <3>2
      <4> QED BY <4>1 DEF Wanted
    <3> QED BY <3>1, <3>2
  <2> QED BY <2>1, <2>2 DEF Requested
<1>7. Charted(asked', ch, f)
  BY <1>3 DEF Charted
<1>8. mixed' \/ Matching(asked', cache', f)
  <2>1. CASE mixed \/ (M # {} /\ p.filter # f)
    BY <1>3, <2>1
  <2>2. CASE Matching(q, st, f) /\ (M = {} \/ p.filter = f)
    <3>1. \A m \in DOMAIN cache'.pages : cache'.pages[m] = f
      BY <1>5, <2>2 DEF Matching
    <3>2. ASSUME NEW r \in asked', r.kind = "page", r.current PROVE r.filter = f
      <4>1. CASE r \in q
        BY <2>2, <3>2, <4>1 DEF Matching
      <4>2. CASE r \notin q
        BY <1>3, <1>4, <2>2, <4>2
      <4> QED BY <4>1, <4>2
    <3> QED BY <3>1, <3>2 DEF Matching
  <2> QED BY <2>1, <2>2
<1>9. Awaits(asked', s, cache')
  <2>1. q \subseteq asked'
    BY <1>3
  <2>2. ASSUME NEW m \in cache'.inflight
        PROVE  \E r \in asked' : r.kind = "page" /\ r.current /\ r.page = m
    <3>1. CASE m \in st.inflight
      BY <2>1, <3>1 DEF Awaits
    <3>2. CASE m \in M
      BY <1>3, <1>4, <3>2
    <3> QED BY <1>5, <2>2, <3>1, <3>2
  <2> QED BY <2>1, <2>2 DEF Awaits
<1> QED BY <1>5, <1>6, <1>7, <1>8, <1>9

\* Showing another call outdates the details asked for before.
LEMMA OtherSelected ==
  ASSUME NEW q, NEW f \in Filter, NEW c, NEW s, NEW n, NEW st, NEW ch, NEW d \in Nat, NEW z,
         filter = f, Requested(q, f, c, s, n), Charted(q, ch, f)
  PROVE  /\ Requested(ShowSelected(d, q), f, d, z, n)
         /\ Matching(q, st, f) => Matching(ShowSelected(d, q), st, f)
         /\ Charted(ShowSelected(d, q), ch, f)
         /\ Awaits(q, z, st) => Awaits(ShowSelected(d, q), z, st)
<1>1. PICK Q : Q = ShowSelected(d, q)
  OBVIOUS
<1>2. ASSUME NEW r \in Q
      PROVE  \/ r \in q /\ r.kind # "call"
             \/ r \in RequestType /\ r.kind = "call" /\ (r.current => r.page = d)
  <2>1. CASE \E e \in q : e.kind # "call" /\ r = e
    BY <2>1
  <2>2. CASE \E e \in q : e.kind = "call" /\ r = [e EXCEPT !.current = FALSE]
    <3>1. PICK e \in q : e.kind = "call" /\ r = [e EXCEPT !.current = FALSE]
      BY <2>2
    <3>2. e \in RequestType
      BY DEF Requested
    <3> QED BY <3>1, <3>2 DEF RequestType
  <2>3. CASE r = Request("call", filter, d)
    BY <2>3 DEF Request, RequestType, Waiting
  <2> QED BY <1>1, <2>1, <2>2, <2>3 DEF ShowSelected
<1>3. ASSUME NEW e \in q, e.kind # "call" PROVE e \in Q
  BY <1>1, <1>3 DEF ShowSelected
<1>4. Requested(Q, f, d, z, n)
  BY <1>2 DEF Requested, Wanted
<1>5. Matching(q, st, f) => Matching(Q, st, f)
  BY <1>2 DEF Matching
<1>6. Charted(Q, ch, f)
  BY <1>3 DEF Charted
<1>7. Awaits(q, z, st) => Awaits(Q, z, st)
  BY <1>3 DEF Awaits
<1> QED BY <1>1, <1>4, <1>5, <1>6, <1>7

-----------------------------------------------------------------------------
(* Behind the window. *)

LEMMA DrainedSome ==
  ASSUME Len(arrivals) \in Nat \ {0}
  PROVE  Drained \in 1..Len(arrivals)
<1> DEFINE Enough(n) == n = Len(arrivals) \/ (n > 1 /\ Upto[n] >= LiveBatch)
<1>1. PICK S : S = {n \in 1..Len(arrivals) : Enough(n)}
  OBVIOUS
<1>2. S \in SUBSET (0..Len(arrivals)) /\ S # {}
  BY <1>1
<1>3. PICK m \in S : \A k \in S : m <= k
  BY <1>2, HasLeast
<1>4. m \in 1..Len(arrivals) /\ Enough(m)
  BY <1>1
<1>5. \A k \in 2..(m - 1) : ~(Upto[k] >= LiveBatch)
  <2> SUFFICES ASSUME NEW k \in 2..(m - 1), Upto[k] >= LiveBatch PROVE FALSE
    OBVIOUS
  <2>1. k \in 1..Len(arrivals) /\ k > 1 /\ ~(m <= k)
    BY <1>4
  <2>2. k \in S
    BY <1>1, <2>1
  <2> QED BY <1>3, <2>1, <2>2
<1> QED BY <1>4, <1>5 DEF Drained

\* The first of a set of calls, however many are cut from it, is in what is left.
LEMMA CutKeepsFirst ==
  ASSUME NEW n \in Nat, NEW S \in SUBSET (1..n), S # {}
  PROVE  CutLast(S) \in SUBSET (1..n) /\ CutLast(S) # {}
<1>1. PICK m \in S : \A k \in S : m <= k
  BY LeastOf
<1>2. {j \in S : j < m} = {}
  <2>1. \A j \in S : j \in Int
    OBVIOUS
  <2>2. \A j \in S : ~(j < m)
    BY <1>1, <2>1
  <2> QED BY <2>2
<1>3. Cardinality({j \in S : j < m}) = 0
  BY <1>2, FS_EmptySet
<1>4. m \in CutLast(S)
  BY <1>1, <1>3, TimelineAssumption DEF CutLast
<1> QED BY <1>4 DEF CutLast

LEMMA StoredKeeps ==
  ASSUME IInv, NEW n \in 1..MaxBatch, Stored(n)
  PROVE  IInv'
<1>1. /\ n <= Len(left.rows)
      /\ left' = [left EXCEPT !.rows = SubSeq(@, n + 1, Len(@))]
      /\ kept' = kept \o SubSeq(left.rows, 1, n)
      /\ arrivals' = Append(arrivals, (Len(kept) + 1)..(Len(kept) + n))
      /\ UNCHANGED <<alerts, collector, window, asked>>
  BY DEF Stored
<1>2. kept \in Seq(Tool) /\ left.rows \in Seq(Tool) /\ n \in Nat /\ n > 0
  BY TimelineAssumption DEF IInv, Typed, CourseType
<1>3. \A i \in 1..Len(left.rows) : left.rows[i] \in Tool
  BY <1>2, ElementOfSeq
<1>4. Len(left.rows) \in Nat /\ Len(kept) \in Nat
  BY <1>2, LenProperties
<1>5. PICK A \in Seq(Tool) : A = SubSeq(left.rows, 1, n) /\ Len(A) = n
  <2>1. \A i \in 1..n : left.rows[i] \in Tool
    BY <1>1, <1>2, <1>3, <1>4
  <2>2. SubSeq(left.rows, 1, n) \in Seq(Tool) /\ Len(SubSeq(left.rows, 1, n)) = n
    BY <1>2, <2>1, SubSeqProperties
  <2> QED BY <2>2
<1>6. PICK B \in Seq(Tool) : B = SubSeq(left.rows, n + 1, Len(left.rows))
  <2>1. \A i \in (n + 1)..Len(left.rows) : left.rows[i] \in Tool
    BY <1>2, <1>3, <1>4
  <2>2. n + 1 \in Int /\ Len(left.rows) \in Int
    BY <1>2, <1>4
  <2>3. SubSeq(left.rows, n + 1, Len(left.rows)) \in Seq(Tool)
    BY ONLY <2>1, <2>2, SubSeqProperties
  <2> QED BY <2>3
<1>7. kept' \in Seq(Tool) /\ Len(kept') = Len(kept) + n
  <2>1. kept' = kept \o A
    BY <1>1, <1>5
  <2> QED BY <1>2, <1>5, <2>1, ConcatProperties
<1>8. left' \in CourseType
  <2>1. left' = [left EXCEPT !.rows = B]
    BY <1>1, <1>6
  <2> QED BY <2>1 DEF IInv, Typed, CourseType
<1>9. PICK N : N = (Len(kept) + 1)..(Len(kept) + n)
  OBVIOUS
<1>10. N \in SUBSET (1..Len(kept')) /\ N # {}
  <2>1. Len(kept) + 1 \in N /\ N \subseteq 1..(Len(kept) + n)
    BY <1>2, <1>4, <1>9
  <2> QED BY <1>7, <2>1
<1>11. 1..Len(kept) \subseteq 1..Len(kept')
  BY <1>2, <1>4, <1>7
<1>12. Told(Len(kept))'
  <2>1. arrivals \in Seq(SUBSET (1..Len(kept))) /\ alerts \in Seq(SUBSET (1..Len(kept)))
        /\ pending \subseteq 1..Len(kept)
        /\ (\A i \in 1..Len(arrivals) : arrivals[i] # {})
        /\ (\A i \in 1..Len(alerts) : alerts[i] # {})
    BY DEF IInv, Typed, Told
  <2>2. arrivals \in Seq(SUBSET (1..Len(kept'))) /\ alerts \in Seq(SUBSET (1..Len(kept')))
    <3>1. SUBSET (1..Len(kept)) \subseteq SUBSET (1..Len(kept'))
      BY <1>11
    <3> QED BY <2>1, <3>1
  <2>3. /\ arrivals' \in Seq(SUBSET (1..Len(kept')))
        /\ Len(arrivals) \in Nat /\ Len(arrivals') = Len(arrivals) + 1
        /\ \A i \in 1..Len(arrivals) : arrivals'[i] = arrivals[i]
        /\ arrivals'[Len(arrivals) + 1] = N
    BY <1>1, <1>9, <1>10, <2>2, AppendProperties, LenProperties
  <2>4. \A i \in 1..Len(arrivals') : arrivals'[i] # {}
    <3>1. ASSUME NEW i \in 1..Len(arrivals') PROVE i \in 1..Len(arrivals) \/ i = Len(arrivals) + 1
      BY <2>3
    <3> QED BY ONLY <1>10, <2>1, <2>3, <3>1
  <2>5. alerts' = alerts /\ pending' = pending
    BY <1>1 DEF window
  <2> QED BY <1>11, <2>1, <2>2, <2>3, <2>4, <2>5 DEF Told
<1>13. Typed'
  <2>1. plan.total \in Nat /\ plan.total <= Len(kept')
    BY <1>2, <1>4, <1>7 DEF IInv, Typed
  <2> QED BY <1>1, <1>7, <1>8, <1>12, <2>1 DEF IInv, Typed, window
<1>14. Requested(asked, filter, selected, state, Len(kept'))
  <2>1. ASSUME NEW r \in asked, r.kind = "count" PROVE r.reply <= Len(kept')
    <3>1. r.reply \in Int /\ r.reply <= Len(kept)
      BY <2>1 DEF IInv, Requested, Wanted, RequestType, Waiting
    <3> QED BY <1>2, <1>4, <1>7, <3>1
  <2> QED BY <2>1 DEF IInv, Requested, Wanted
<1> QED BY <1>1, <1>13, <1>14 DEF IInv, window

\* A step that leaves the window and what it asked alone, and tells of stored calls.
LEMMA BackendMoves ==
  ASSUME IInv, UNCHANGED <<kept, window, asked>>, left' \in CourseType,
         Told(Len(kept))'
  PROVE  IInv'
<1>1. Typed'
  BY DEF IInv, Typed, window
<1> QED BY <1>1 DEF IInv, window

LEMMA SpentLess ==
  ASSUME left \in CourseType, NEW what \in {"updates", "edits", "selects", "failures", "switches"},
         Costs(what)
  PROVE  left' \in CourseType
<1>1. /\ left.updates \in Nat /\ left.edits \in Nat /\ left.selects \in Nat
      /\ left.failures \in Nat /\ left.switches \in Nat
  BY DEF CourseType
<1>2. CASE what = "updates"
  BY <1>1, <1>2 DEF Costs, CourseType
<1>3. CASE what = "edits"
  BY <1>1, <1>3 DEF Costs, CourseType
<1>4. CASE what = "selects"
  BY <1>1, <1>4 DEF Costs, CourseType
<1>5. CASE what = "failures"
  BY <1>1, <1>5 DEF Costs, CourseType
<1>6. CASE what = "switches"
  BY <1>1, <1>6 DEF Costs, CourseType
<1> QED BY <1>2, <1>3, <1>4, <1>5, <1>6

LEMMA UpdatedKeeps ==
  ASSUME IInv, NEW i \in DOMAIN kept, Updated(i)
  PROVE  IInv'
<1>1. /\ Costs("updates") /\ arrivals' = Append(arrivals, {i})
      /\ UNCHANGED <<kept, alerts, collector, window, asked>>
  BY DEF Updated
<1>2. left' \in CourseType
  BY <1>1, SpentLess DEF IInv, Typed
<1>3. i \in 1..Len(kept)
  BY DEF IInv, Typed
<1>4. Told(Len(kept))
  BY DEF IInv, Typed
<1>5. Told(Len(kept))'
  <2>1. /\ arrivals' \in Seq(SUBSET (1..Len(kept)))
        /\ Len(arrivals) \in Nat /\ Len(arrivals') = Len(arrivals) + 1
        /\ \A k \in 1..Len(arrivals) : arrivals'[k] = arrivals[k]
        /\ arrivals'[Len(arrivals) + 1] = {i}
    BY <1>1, <1>3, <1>4, AppendProperties, LenProperties DEF Told
  <2>2. \A k \in 1..Len(arrivals') : k \in 1..Len(arrivals) \/ k = Len(arrivals) + 1
    BY <2>1
  <2>3. \A k \in 1..Len(arrivals) : arrivals[k] # {}
    BY <1>4 DEF Told
  <2>4. \A k \in 1..Len(arrivals') : arrivals'[k] # {}
    BY ONLY <2>1, <2>2, <2>3
  <2>5. kept' = kept /\ alerts' = alerts /\ pending' = pending
    BY <1>1 DEF window
  <2> QED BY <1>4, <2>1, <2>4, <2>5 DEF Told
<1> QED BY <1>1, <1>2, <1>5, BackendMoves

LEMMA LiveThreadKeeps ==
  ASSUME IInv, LiveThread
  PROVE  IInv'
<1>1. /\ arrivals # <<>>
      /\ alerts' = Append(alerts, CutLast(UNION {arrivals[n] : n \in 1..Drained}))
      /\ arrivals' = SubSeq(arrivals, Drained + 1, Len(arrivals))
      /\ UNCHANGED <<kept, collector, window, asked, left>>
  BY DEF LiveThread
<1>2. Told(Len(kept)) /\ Len(kept) \in Nat
  BY LenProperties DEF IInv, Typed
<1>3. /\ arrivals \in Seq(SUBSET (1..Len(kept))) /\ Len(arrivals) \in Nat \ {0}
      /\ alerts \in Seq(SUBSET (1..Len(kept))) /\ Len(alerts) \in Nat
      /\ \A i \in 1..Len(arrivals) : arrivals[i] # {} /\ arrivals[i] \in SUBSET (1..Len(kept))
      /\ \A i \in 1..Len(alerts) : alerts[i] # {}
  BY <1>1, <1>2, LenProperties, EmptySeq, ElementOfSeq DEF Told
<1>4. Drained \in 1..Len(arrivals)
  BY <1>3, DrainedSome
<1>5. PICK U : U = UNION {arrivals[n] : n \in 1..Drained}
  OBVIOUS
<1>6. U \in SUBSET (1..Len(kept)) /\ U # {}
  <2>1. ASSUME NEW n \in 1..Drained PROVE n \in 1..Len(arrivals)
    BY <1>3, <1>4
  <2>2. 1 \in 1..Drained
    BY <1>3, <1>4
  <2>3. arrivals[1] \subseteq U /\ arrivals[1] # {}
    BY <1>3, <1>5, <2>1, <2>2
  <2>4. U \subseteq 1..Len(kept)
    BY <1>3, <1>5, <2>1
  <2> QED BY <2>3, <2>4
<1>7. PICK C : C = CutLast(U)
  OBVIOUS
<1>8. C \in SUBSET (1..Len(kept)) /\ C # {}
  BY <1>2, <1>6, <1>7, CutKeepsFirst
<1>9. /\ alerts' \in Seq(SUBSET (1..Len(kept))) /\ \A k \in 1..Len(alerts') : alerts'[k] # {}
  <2>1. alerts' = Append(alerts, C)
    BY <1>1, <1>5, <1>7
  <2>2. /\ alerts' \in Seq(SUBSET (1..Len(kept))) /\ Len(alerts') = Len(alerts) + 1
        /\ \A k \in 1..Len(alerts) : alerts'[k] = alerts[k]
        /\ alerts'[Len(alerts) + 1] = C
    BY <1>3, <1>8, <2>1, AppendProperties
  <2>3. \A k \in 1..Len(alerts') : k \in 1..Len(alerts) \/ k = Len(alerts) + 1
    BY <1>3, <2>2
  <2> QED BY ONLY <1>3, <1>8, <2>2, <2>3
<1>10. /\ arrivals' \in Seq(SUBSET (1..Len(kept)))
       /\ \A k \in 1..Len(arrivals') : arrivals'[k] # {}
  <2>1. PICK d : d = Drained + 1
    OBVIOUS
  <2>2. d \in Int /\ Len(arrivals) \in Int /\ d >= 1
        /\ \A i \in d..Len(arrivals) : i \in 1..Len(arrivals)
    BY <1>3, <1>4, <2>1
  <2>3. PICK T : T = {x \in SUBSET (1..Len(kept)) : x # {}}
    OBVIOUS
  <2>4. \A i \in d..Len(arrivals) : arrivals[i] \in T
    BY <1>3, <2>2, <2>3
  <2>5. SubSeq(arrivals, d, Len(arrivals)) \in Seq(T)
    BY ONLY <2>2, <2>4, SubSeqProperties
  <2>6. arrivals' \in Seq(T)
    BY <1>1, <2>1, <2>5
  <2>7. \A k \in 1..Len(arrivals') : arrivals'[k] \in T
    BY <2>6, ElementOfSeq
  <2>8. T \subseteq SUBSET (1..Len(kept)) /\ \A x \in T : x # {}
    BY <2>3
  <2>9. arrivals' \in Seq(SUBSET (1..Len(kept)))
    <3>1. \A i \in d..Len(arrivals) : arrivals[i] \in SUBSET (1..Len(kept))
      BY <1>3, <2>2
    <3>2. SubSeq(arrivals, d, Len(arrivals)) \in Seq(SUBSET (1..Len(kept)))
      BY ONLY <2>2, <3>1, SubSeqProperties
    <3> QED BY <1>1, <2>1, <3>2
  <2> QED BY <2>7, <2>8, <2>9
<1>11. Told(Len(kept))'
  <2>1. kept' = kept /\ pending' = pending
    BY <1>1 DEF window
  <2> QED BY <1>2, <1>9, <1>10, <2>1 DEF Told
<1>12. left' \in CourseType
  BY <1>1 DEF IInv, Typed
<1> QED BY <1>1, <1>11, <1>12, BackendMoves

LEMMA LiveEventKeeps ==
  ASSUME IInv, LiveEvent
  PROVE  IInv'
<1>1. PICK e : e = Head(alerts)
  OBVIOUS
<1>2. PICK i : i = Min(e)
  OBVIOUS
<1>3. /\ alerts # <<>> /\ pending' = Noted(i)
      /\ alerts' = IF e = {i} THEN Tail(alerts) ELSE [alerts EXCEPT ![1] = @ \ {i}]
      /\ UNCHANGED <<kept, arrivals, collector, filter, selected, plan, state, cache, first,
                     chart, pane, banner, asked, mixed, left>>
  BY <1>1, <1>2 DEF LiveEvent
<1>4. /\ Told(Len(kept)) /\ Len(kept) \in Nat
  BY LenProperties DEF IInv, Typed
<1>5. /\ alerts \in Seq(SUBSET (1..Len(kept))) /\ Len(alerts) \in Nat \ {0}
      /\ \A k \in 1..Len(alerts) : alerts[k] # {} /\ alerts[k] \in SUBSET (1..Len(kept))
      /\ e = alerts[1]
  BY <1>1, <1>3, <1>4, LenProperties, EmptySeq, ElementOfSeq DEF Told
<1>6. e \in SUBSET (1..Len(kept)) /\ e # {}
  BY <1>5
<1>7. i \in e
  BY <1>2, <1>4, <1>6, LeastOf
<1>8. pending' \subseteq 1..Len(kept)
  BY <1>3, <1>4, <1>6, <1>7 DEF Noted, Told
<1>9. /\ alerts' \in Seq(SUBSET (1..Len(kept))) /\ \A k \in 1..Len(alerts') : alerts'[k] # {}
  <2>1. CASE e = {i}
    <3>1. alerts' = Tail(alerts)
      BY <1>3, <2>1
    <3>2. /\ alerts' \in Seq(SUBSET (1..Len(kept))) /\ Len(alerts') = Len(alerts) - 1
          /\ \A k \in 1..Len(alerts') : alerts'[k] = alerts[k + 1]
      BY <1>3, <1>5, <3>1, HeadTailProperties
    <3>3. \A k \in 1..Len(alerts') : k + 1 \in 1..Len(alerts)
      BY <1>5, <3>2
    <3> QED BY <1>5, <3>2, <3>3
  <2>2. CASE e # {i}
    <3>1. PICK d : d = e \ {i}
      OBVIOUS
    <3>2. d \in SUBSET (1..Len(kept)) /\ d # {}
      BY <1>6, <1>7, <2>2, <3>1
    <3>3. alerts' = [alerts EXCEPT ![1] = d]
      BY <1>3, <1>5, <2>2, <3>1
    <3>4. alerts' \in Seq(SUBSET (1..Len(kept))) /\ Len(alerts') = Len(alerts)
          /\ \A k \in 1..Len(alerts') : alerts'[k] = IF k = 1 THEN d ELSE alerts[k]
      BY <1>5, <3>2, <3>3, ExceptSeq
    <3> QED BY <1>5, <3>2, <3>4
  <2> QED BY <2>1, <2>2
<1>10. Told(Len(kept))'
  BY <1>3, <1>4, <1>8, <1>9 DEF Told
<1>11. Typed'
  BY <1>3, <1>10 DEF IInv, Typed
<1> QED BY <1>3, <1>11 DEF IInv

-----------------------------------------------------------------------------
(* Requests and their answers. *)

\* A step that leaves what is behind the window alone.
LEMMA WindowMoves ==
  ASSUME IInv, UNCHANGED backend, left' \in CourseType,
         filter' \in Filter, selected' \in Nat,
         plan' \in [filter : Filter, total : Nat], plan'.total <= Len(kept),
         cache' \in StoreType, first' \in Nat, pending' \subseteq 1..Len(kept),
         Requested(asked', filter', selected', state', Len(kept)),
         mixed' \/ Matching(asked', cache', filter'),
         Charted(asked', chart', filter'), Awaits(asked', state', cache'),
         state' = "none" => plan'.filter = filter' /\ pane' = selected'
  PROVE  IInv'
<1>1. UNCHANGED <<kept, arrivals, alerts>>
  BY DEF backend
<1>2. Told(Len(kept))'
  BY <1>1 DEF IInv, Typed, Told
<1>3. Typed'
  BY <1>1, <1>2 DEF IInv, Typed
<1> QED BY <1>1, <1>3 DEF IInv

LEMMA Facts ==
  ASSUME IInv
  PROVE  /\ left \in CourseType /\ filter \in Filter /\ selected \in Nat
         /\ plan \in [filter : Filter, total : Nat] /\ plan.total <= Len(kept)
         /\ cache \in StoreType /\ first \in Nat /\ pending \subseteq 1..Len(kept)
         /\ Requested(asked, filter, selected, state, Len(kept))
         /\ mixed \/ Matching(asked, cache, filter)
         /\ Charted(asked, chart, filter) /\ Awaits(asked, state, cache)
         /\ state = "none" => plan.filter = filter /\ pane = selected
         /\ kept \in Seq(Tool) /\ Len(kept) \in Nat
BY LenProperties DEF IInv, Typed, Told

LEMMA AnswerKeeps ==
  ASSUME IInv, NEW r \in asked, Answer(r)
  PROVE  IInv'
<1>1. /\ r.kind = "count"
      /\ asked' = (asked \ {r}) \cup {[r EXCEPT !.reply = CountOf(r.filter)]}
      /\ UNCHANGED <<backend, window, left>>
  BY DEF Answer
<1>2. UNCHANGED <<filter, selected, plan, state, cache, first, chart, pane, banner, pending,
                  mixed>>
  BY <1>1 DEF window
<1>3. r \in RequestType
  BY Facts DEF Requested
<1>4. PICK k : k = CountOf(r.filter)
  OBVIOUS
<1>5. k \in Nat /\ k <= Len(kept)
  BY <1>4, CountedRows, Facts
<1>6. PICK z : z = [r EXCEPT !.reply = k]
  OBVIOUS
<1>7. /\ z \in RequestType /\ z.kind = "count" /\ z.reply = k
      /\ z.current = r.current
  BY <1>1, <1>3, <1>5, <1>6 DEF RequestType
<1>8. asked' = (asked \ {r}) \cup {z}
  BY <1>1, <1>4, <1>6
<1>9. Requested(asked', filter, selected, state, Len(kept))
  <2>1. Wanted(z, filter, selected, state, Len(kept))
    BY <1>5, <1>7 DEF Wanted
  <2> QED BY <1>7, <1>8, <2>1, Facts DEF Requested
<1>10. mixed \/ Matching(asked', cache, filter)
  BY <1>7, <1>8, Facts DEF Matching
<1>11. Charted(asked', chart, filter)
  BY <1>1, <1>8, Facts DEF Charted
<1>12. Awaits(asked', state, cache)
  BY <1>1, <1>7, <1>8, Facts DEF Awaits
<1> QED BY <1>1, <1>2, <1>9, <1>10, <1>11, <1>12, Facts, WindowMoves

\* A request is done with, whatever came of it, and neither the list nor the chart
\* changes; a chart that is wanted, a page that is and, while one is awaited, a count
\* are not given up so.
LEMMA DoneWith ==
  ASSUME IInv, NEW r \in asked, r.kind # "chart" \/ ~r.current,
         asked' = asked \ {r}, UNCHANGED <<backend, filter, selected, plan, first, chart, mixed>>,
         left' \in CourseType, cache' \in StoreType, cache'.pages = cache.pages,
         pending' \subseteq 1..Len(kept), cache'.inflight \subseteq cache.inflight,
         \/ ~r.current
         \/ r.kind \notin {"count", "page"}
         \/ r.kind = "count" /\ state' # "loading",
         state' = state \/ state' = "problem",
         state' = "none" => pane' = selected
  PROVE  IInv'
<1>1. Requested(asked', filter, selected, state', Len(kept))
  <2>1. Requested(asked \ {r}, filter, selected, state, Len(kept))
    BY Facts, FewerRequested
  <2>2. CASE state' = state
    BY <2>1, <2>2
  <2>3. CASE state' = "problem"
    BY <2>1, <2>3 DEF Requested, Wanted
  <2> QED BY <2>2, <2>3
<1>2. mixed \/ Matching(asked', cache', filter)
  BY Facts DEF Matching
<1>3. Charted(asked', chart, filter)
  BY Facts, FewerCharted
<1>4. state' = "none" => plan'.filter = filter' /\ pane' = selected'
  BY Facts
<1>5. Awaits(asked', state', cache')
  BY Facts, FewerAwaits
<1> QED BY <1>1, <1>2, <1>3, <1>4, <1>5, Facts, WindowMoves

LEMMA CountArrivesKeeps ==
  ASSUME IInv, NEW r \in asked, CountArrives(r)
  PROVE  IInv'
<1>1. r.kind = "count" /\ r.reply # Waiting /\ UNCHANGED <<backend, left>>
  BY DEF CountArrives, Delivered
<1>2. r \in RequestType /\ r.reply <= Len(kept)
  BY <1>1, Facts DEF Requested, Wanted
<1>3. CASE Stale(r)
  <2>1. asked' = asked \ {r} /\ UNCHANGED window
    BY <1>3 DEF CountArrives
  <2>2. UNCHANGED <<filter, selected, plan, state, cache, first, chart, pane, banner, pending,
                    mixed>>
    BY <2>1 DEF window
  <2> QED BY <1>1, <1>3, <2>1, <2>2, Facts, DoneWith DEF Stale
<1>4. CASE ~Stale(r)
  <2>1. PICK p : p = [filter |-> filter, total |-> r.reply]
    OBVIOUS
  <2>2. PICK top : top = Min({first, Max({0, r.reply - 1})})
    OBVIOUS
  <2>3. PICK Q : Q = ShowSelected(selected, asked \ {r})
    OBVIOUS
  <2>4. /\ plan' = p /\ first' = top /\ state' = "none" /\ pane' = selected
        /\ pending' = PillAfterCount /\ Render(p, top, cache, Q, filter)
        /\ UNCHANGED <<filter, selected, chart, banner>>
    BY <1>4, <2>1, <2>2, <2>3 DEF CountArrives
  <2>5. r.reply \in Nat
    BY <1>1, <1>2 DEF RequestType, Waiting
  <2>6. p \in [filter : Filter, total : Nat] /\ p.total <= Len(kept) /\ p.filter = filter
    BY <1>2, <2>1, <2>5, Facts
  <2>7. top \in Nat
    <3>1. PICK m : m = Max({0, r.reply - 1})
      OBVIOUS
    <3>2. m \in Nat
      <4>1. 0 \in Int /\ r.reply - 1 \in Int
        BY ONLY <2>5
      <4>2. Max({0, r.reply - 1}) \in {0, r.reply - 1} /\ 0 <= Max({0, r.reply - 1})
        BY ONLY <4>1, MaxOfTwo
      <4>3. m \in {0, r.reply - 1} /\ 0 <= m
        BY ONLY <3>1, <4>2
      <4> QED BY ONLY <4>1, <4>3
    <3>3. first \in Nat /\ Min({first, m}) \in {first, m}
      <4>1. first \in Nat
        BY Facts
      <4>2. first \in Int /\ m \in Int
        BY ONLY <3>2, <4>1
      <4>3. Min({first, m}) \in {first, m}
        BY ONLY <4>2, MinOfTwo
      <4> QED BY ONLY <4>1, <4>3
    <3> QED BY <2>2, <3>1, <3>2, <3>3
  <2>8. /\ Requested(asked \ {r}, filter, selected, state, Len(kept))
        /\ mixed \/ Matching(asked \ {r}, cache, filter)
        /\ Charted(asked \ {r}, chart, filter) /\ Awaits(asked \ {r}, "none", cache)
    BY <1>1, Facts, FewerRequested, FewerMatching, FewerCharted, FewerAwaits
  <2>9. /\ Requested(Q, filter, selected, "none", Len(kept))
        /\ mixed \/ Matching(Q, cache, filter)
        /\ Charted(Q, chart, filter) /\ Awaits(Q, "none", cache)
    BY <2>3, <2>8, Facts, OtherSelected
  <2>10. /\ cache' \in StoreType /\ Requested(asked', filter, selected, "none", Len(kept))
         /\ mixed' \/ Matching(asked', cache', filter)
         /\ Charted(asked', chart, filter) /\ Awaits(asked', "none", cache')
    BY <2>4, <2>6, <2>7, <2>9, Facts, RenderKeeps
  <2>11. pending' \subseteq 1..Len(kept)
    BY <2>4, Facts DEF PillAfterCount
  <2> QED BY <1>1, <2>4, <2>6, <2>7, <2>10, <2>11, Facts, WindowMoves
<1> QED BY <1>3, <1>4

LEMMA CountFailsKeeps ==
  ASSUME IInv, NEW r \in asked, CountFails(r)
  PROVE  IInv'
<1>1. /\ r.kind = "count" /\ Costs("failures") /\ asked' = asked \ {r}
      /\ state' = IF Stale(r) THEN state ELSE "problem"
      /\ UNCHANGED <<backend, filter, selected, plan, cache, first, chart, pane, banner,
                     pending, mixed>>
  BY DEF CountFails
<1>2. left' \in CourseType
  BY <1>1, SpentLess, Facts
<1>3. state' = state \/ state' = "problem"
  BY <1>1
<1>4. ~r.current \/ state' # "loading"
  BY <1>1 DEF Stale
<1> QED BY <1>4, <1>1, <1>2, <1>3, Facts, DoneWith

LEMMA PageArrivesKeeps ==
  ASSUME IInv, NEW r \in asked, PageArrives(r)
  PROVE  IInv'
<1>1. r.kind = "page"
      /\ UNCHANGED <<backend, filter, selected, plan, state, first, chart, pane, banner,
                     pending, left>>
  BY DEF PageArrives
<1>2. r \in RequestType
  BY Facts DEF Requested
<1>3. /\ Settled(r) \in StoreType /\ Settled(r).pages = cache.pages
      /\ Settled(r).inflight = cache.inflight \ {r.page}
  <2>1. PICK I \in SUBSET Nat : I = cache.inflight \ {r.page}
    BY Facts DEF StoreType
  <2>2. Settled(r) = [cache EXCEPT !.inflight = I]
    BY <2>1 DEF Settled
  <2>3. Settled(r) \in StoreType /\ Settled(r).pages = cache.pages /\ Settled(r).inflight = I
    BY <2>2, Facts DEF StoreType
  <2> QED BY <2>1, <2>3
<1>4. CASE Stale(r)
  BY <1>1, <1>3, <1>4, Facts, DoneWith DEF PageArrives, Stale
<1>5. CASE ~Stale(r)
  <2>1. PICK held : held = [n \in DOMAIN cache.pages \cup {r.page} |->
                              IF n = r.page THEN r.filter ELSE cache.pages[n]]
    OBVIOUS
  <2>2. PICK st : st = [Settled(r) EXCEPT !.pages = held]
    OBVIOUS
  <2>3. Render(plan, first, st, asked \ {r}, filter)
    BY <1>5, <2>1, <2>2 DEF PageArrives
  <2>4. r.page \in Nat /\ r.filter \in Filter
    BY <1>2 DEF RequestType
  <2>5. held \in PageType
    <3>1. PICK S \in SUBSET Nat : cache.pages \in [S -> Filter]
      BY Facts DEF StoreType, PageType
    <3>2. held \in [S \cup {r.page} -> Filter]
      BY <2>1, <2>4, <3>1
    <3> QED BY <2>4, <3>1, <3>2 DEF PageType
  <2>6. st \in StoreType /\ st.pages = held /\ st.inflight = cache.inflight \ {r.page}
    BY <1>3, <2>2, <2>5 DEF StoreType
  <2>7. /\ Requested(asked \ {r}, filter, selected, state, Len(kept))
        /\ Charted(asked \ {r}, chart, filter) /\ Awaits(asked \ {r}, state, st)
    BY <1>1, <2>6, Facts, FewerRequested, FewerCharted, FewerAwaits
  <2>8. mixed \/ Matching(asked \ {r}, st, filter)
    <3>1. CASE Matching(asked, cache, filter)
      <4>1. r.filter = filter
        BY <1>1, <1>5, <3>1 DEF Matching, Stale
      <4>2. \A n \in DOMAIN st.pages : st.pages[n] = filter
        BY <2>1, <2>6, <3>1, <4>1 DEF Matching
      <4> QED BY <3>1, <4>2 DEF Matching
    <3> QED BY <3>1, Facts
  <2>9. /\ cache' \in StoreType /\ Requested(asked', filter, selected, state, Len(kept))
        /\ mixed' \/ Matching(asked', cache', filter)
        /\ Charted(asked', chart, filter) /\ Awaits(asked', state, cache')
    BY <2>3, <2>6, <2>7, <2>8, Facts, RenderKeeps
  <2> QED BY <1>1, <2>9, Facts, WindowMoves
<1> QED BY <1>4, <1>5

LEMMA PageFailsKeeps ==
  ASSUME IInv, NEW r \in asked, PageFails(r)
  PROVE  IInv'
<1>1. r.kind = "page" /\ Costs("failures")
      /\ UNCHANGED <<backend, filter, selected, plan, state, first, chart, pane, banner, pending>>
  BY DEF PageFails
<1>2. r \in RequestType /\ left' \in CourseType
  BY <1>1, SpentLess, Facts DEF Requested
<1>3. /\ Settled(r) \in StoreType /\ Settled(r).pages = cache.pages
      /\ Settled(r).inflight = cache.inflight \ {r.page}
  <2>1. PICK I \in SUBSET Nat : I = cache.inflight \ {r.page}
    BY Facts DEF StoreType
  <2>2. Settled(r) = [cache EXCEPT !.inflight = I]
    BY <2>1 DEF Settled
  <2>3. Settled(r) \in StoreType /\ Settled(r).pages = cache.pages /\ Settled(r).inflight = I
    BY <2>2, Facts DEF StoreType
  <2> QED BY <2>1, <2>3
<1>4. CASE Stale(r)
  BY <1>1, <1>2, <1>3, <1>4, Facts, DoneWith DEF PageFails, Stale
<1>5. CASE ~Stale(r)
  <2>1. PICK F : F = Settled(r).failed \cup {r.page}
    OBVIOUS
  <2>2. F \in SUBSET Nat
    BY <1>2, <1>3, <2>1 DEF RequestType, StoreType
  <2>3. PICK st : st = [Settled(r) EXCEPT !.failed = F]
    OBVIOUS
  <2>4. Render(plan, first, st, asked \ {r}, filter)
    BY <1>5, <2>1, <2>3 DEF PageFails
  <2>5. /\ st \in StoreType /\ st.pages = cache.pages
        /\ st.inflight = cache.inflight \ {r.page}
    BY <1>3, <2>2, <2>3 DEF StoreType
  <2>6. /\ Requested(asked \ {r}, filter, selected, state, Len(kept))
        /\ Charted(asked \ {r}, chart, filter)
        /\ mixed \/ Matching(asked \ {r}, cache, filter)
        /\ Awaits(asked \ {r}, state, st)
    BY <1>1, <2>5, Facts, FewerRequested, FewerCharted, FewerMatching, FewerAwaits
  <2>7. mixed \/ Matching(asked \ {r}, st, filter)
    BY <2>5, <2>6 DEF Matching
  <2>8. /\ cache' \in StoreType /\ Requested(asked', filter, selected, state, Len(kept))
        /\ mixed' \/ Matching(asked', cache', filter)
        /\ Charted(asked', chart, filter) /\ Awaits(asked', state, cache')
    BY <2>4, <2>5, <2>6, <2>7, Facts, RenderKeeps
  <2> QED BY <1>1, <1>2, <2>8, Facts, WindowMoves
<1> QED BY <1>4, <1>5

\* A chart that comes is of the view's filter, or is dropped; one that does not is none.
LEMMA ChartSettles ==
  ASSUME IInv, NEW r \in asked, r.kind = "chart", asked' = asked \ {r},
         left' \in CourseType,
         IF Stale(r) THEN chart' = chart ELSE chart' \in {r.filter, None},
         UNCHANGED <<backend, filter, selected, plan, state, cache, first, pane, banner,
                     pending, mixed>>
  PROVE  IInv'
<1>1. CASE Stale(r)
  BY <1>1, Facts, DoneWith DEF Stale
<1>2. CASE ~Stale(r)
  <2>1. r.filter = filter
    BY <1>2, Facts DEF Requested, Wanted, Stale
  <2>2. Charted(asked', chart', filter)
    BY <1>2, <2>1 DEF Charted
  <2>3. Requested(asked', filter, selected, state, Len(kept))
        /\ (mixed \/ Matching(asked', cache, filter))
        /\ Awaits(asked', state, cache)
    BY Facts, FewerRequested, FewerMatching, FewerAwaits
  <2> QED BY <2>2, <2>3, Facts, WindowMoves
<1> QED BY <1>1, <1>2

LEMMA ChartArrivesKeeps ==
  ASSUME IInv, NEW r \in asked, ChartArrives(r)
  PROVE  IInv'
<1>1. /\ r.kind = "chart" /\ asked' = asked \ {r}
      /\ IF Stale(r) THEN chart' = chart ELSE chart' \in {r.filter, None}
      /\ UNCHANGED <<backend, filter, selected, plan, state, cache, first, pane, banner,
                     pending, mixed, left>>
  BY DEF ChartArrives
<1> QED BY <1>1, Facts, ChartSettles

LEMMA ChartFailsKeeps ==
  ASSUME IInv, NEW r \in asked, ChartFails(r)
  PROVE  IInv'
<1>1. /\ r.kind = "chart" /\ asked' = asked \ {r} /\ Costs("failures")
      /\ IF Stale(r) THEN chart' = chart ELSE chart' \in {r.filter, None}
      /\ UNCHANGED <<backend, filter, selected, plan, state, cache, first, pane, banner,
                     pending, mixed>>
  BY DEF ChartFails
<1> QED BY <1>1, SpentLess, Facts, ChartSettles

\* A detail that comes is the selected call's, or is dropped.
LEMMA DetailArrivesKeeps ==
  ASSUME IInv, NEW r \in asked, DetailArrives(r)
  PROVE  IInv'
<1>1. /\ r.kind = "call" /\ asked' = asked \ {r}
      /\ pane' = IF Stale(r) THEN pane ELSE r.page
      /\ UNCHANGED <<backend, filter, selected, plan, state, cache, first, chart, banner,
                     pending, mixed, left>>
  BY DEF DetailArrives
<1>2. state' = "none" => pane' = selected
  BY <1>1, Facts DEF Requested, Wanted, Stale
<1> QED BY <1>1, <1>2, Facts, DoneWith

LEMMA CollectorKeeps ==
  ASSUME IInv, NEW r \in asked, CollectorArrives(r) \/ CollectorFails(r)
  PROVE  IInv'
<1>1. /\ r.kind = "collector" /\ asked' = asked \ {r}
      /\ UNCHANGED <<backend, filter, selected, plan, state, cache, first, chart, pane,
                     pending, mixed>>
      /\ UNCHANGED left \/ Costs("failures")
  BY DEF CollectorArrives, CollectorFails
<1>2. left' \in CourseType
  BY <1>1, SpentLess, Facts
<1>3. state' = "none" => pane' = selected
  BY <1>1, Facts
<1> QED BY <1>1, <1>2, <1>3, Facts, DoneWith

-----------------------------------------------------------------------------
(* The reader. *)

\* Reloading leaves nothing of what was asked before, whatever the filter is now.
LEMMA Reloaded ==
  ASSUME IInv, NEW f \in Filter, NEW c \in Nat, Reload(f)
  PROVE  /\ cache' \in StoreType /\ pending' = {} /\ state' = "loading"
         /\ Requested(asked', f, c, "loading", Len(kept))
         /\ Matching(asked', cache', f) /\ Charted(asked', chart, f)
         /\ Awaits(asked', "loading", cache')
<1>1. PICK K : K = {"count", "page", "chart"}
  OBVIOUS
<1>2. /\ cache' = EmptyStore /\ pending' = {} /\ state' = "loading"
      /\ asked' = Outdated(K) \cup {Request("chart", f, 0), Request("count", f, 0)}
  BY <1>1 DEF Reload, Cleared
<1>3. cache' \in StoreType /\ DOMAIN cache'.pages = {} /\ cache'.inflight = {}
  <2>1. PICK g : g = <<>>
    OBVIOUS
  <2>2. DOMAIN g = {} /\ g \in [{} -> Filter]
    BY <2>1
  <2>3. g \in PageType
    BY <2>2 DEF PageType
  <2>4. cache' = [pages |-> g, inflight |-> {}, failed |-> {}]
    BY <1>2, <2>1 DEF EmptyStore
  <2> QED BY <2>2, <2>3, <2>4 DEF StoreType
<1>4. ASSUME NEW r \in Outdated(K)
      PROVE  r \in RequestType
             /\ (r.kind \in K => ~r.current)
             /\ (r.kind = "count" => r.reply <= Len(kept))
  <2>1. PICK e \in asked : r = IF e.kind \in K THEN [e EXCEPT !.current = FALSE] ELSE e
    BY DEF Outdated
  <2>2. e \in RequestType /\ (e.kind = "count" => e.reply <= Len(kept))
    BY Facts DEF Requested, Wanted
  <2>3. CASE e.kind \in K
    BY <2>1, <2>2, <2>3 DEF RequestType
  <2>4. CASE e.kind \notin K
    BY <2>1, <2>2, <2>4
  <2> QED BY <2>3, <2>4
<1>5. PICK a : a = Request("chart", f, 0)
  OBVIOUS
<1>6. a \in RequestType /\ a.kind = "chart" /\ a.filter = f /\ a.current
  BY <1>5 DEF Request, RequestType, Waiting
<1>7. PICK b : b = Request("count", f, 0)
  OBVIOUS
<1>8. b \in RequestType /\ b.kind = "count" /\ b.reply <= Len(kept) /\ b.current
  <2>1. b \in RequestType /\ b.kind = "count" /\ b.reply = -1 /\ b.current
    BY <1>7 DEF Request, RequestType, Waiting
  <2> QED BY <2>1, Facts
<1>9. asked' = Outdated(K) \cup {a, b}
  BY <1>2, <1>5, <1>7
<1>10. ASSUME NEW r \in asked' PROVE r \in RequestType /\ Wanted(r, f, c, "loading", Len(kept))
  <2>1. CASE r \in Outdated(K)
    BY <1>1, <1>4, <2>1 DEF Wanted
  <2>2. CASE r = a
    BY <1>6, <2>2 DEF Wanted
  <2>3. CASE r = b
    BY <1>8, <2>3 DEF Wanted
  <2> QED BY <1>9, <2>1, <2>2, <2>3
<1>11. Requested(asked', f, c, "loading", Len(kept))
  BY <1>10 DEF Requested
<1>12. Matching(asked', cache', f)
  BY <1>1, <1>3, <1>4, <1>6, <1>8, <1>9 DEF Matching
<1>13. Charted(asked', chart, f)
  BY <1>6, <1>9 DEF Charted
<1>14. Awaits(asked', "loading", cache')
  BY <1>3, <1>8, <1>9 DEF Awaits
<1> QED BY <1>2, <1>3, <1>11, <1>12, <1>13, <1>14

LEMMA ApplyFilterKeeps ==
  ASSUME IInv, NEW f \in Filter, ApplyFilter(f)
  PROVE  IInv'
<1>1. /\ Costs("edits") /\ filter' = f /\ selected' = NoCall /\ Reload(f)
      /\ UNCHANGED <<backend, plan, first, chart, pane, banner>>
  BY DEF ApplyFilter
<1>2. /\ cache' \in StoreType /\ pending' = {} /\ state' = "loading"
      /\ Requested(asked', f, NoCall, "loading", Len(kept))
      /\ Matching(asked', cache', f) /\ Charted(asked', chart, f)
      /\ Awaits(asked', "loading", cache')
  BY <1>1, Reloaded DEF NoCall
<1>3. left' \in CourseType /\ NoCall \in Nat
  BY <1>1, SpentLess, Facts DEF NoCall
<1> QED BY <1>1, <1>2, <1>3, Facts, WindowMoves

LEMMA AgainKeeps ==
  ASSUME IInv, Again
  PROVE  IInv'
<1>1. /\ Costs("edits") /\ Reload(filter)
      /\ UNCHANGED <<backend, filter, selected, plan, first, chart, pane, banner>>
  BY DEF Again
<1>2. /\ cache' \in StoreType /\ pending' = {} /\ state' = "loading"
      /\ Requested(asked', filter, selected, "loading", Len(kept))
      /\ Matching(asked', cache', filter) /\ Charted(asked', chart, filter)
      /\ Awaits(asked', "loading", cache')
  BY <1>1, Reloaded, Facts
<1>3. left' \in CourseType
  BY <1>1, SpentLess, Facts
<1> QED BY <1>1, <1>2, <1>3, Facts, WindowMoves

LEMMA ScrollKeeps ==
  ASSUME IInv, NEW top \in 0..Len(kept), Scroll(top)
  PROVE  IInv'
<1>1. /\ first' = top /\ Render(plan, top, cache, asked, filter) /\ top \in Nat
      /\ UNCHANGED <<backend, filter, selected, plan, state, chart, pane, banner, pending, left>>
  BY DEF Scroll
<1>2. /\ cache' \in StoreType /\ Requested(asked', filter, selected, state, Len(kept))
      /\ mixed' \/ Matching(asked', cache', filter)
      /\ Charted(asked', chart, filter) /\ Awaits(asked', state, cache')
  BY <1>1, Facts, RenderKeeps
<1> QED BY <1>1, <1>2, Facts, WindowMoves

LEMMA RetryKeeps ==
  ASSUME IInv, Retry
  PROVE  IInv'
<1>1. PICK st : st = [cache EXCEPT !.failed = {}]
  OBVIOUS
<1>2. /\ Render(plan, first, st, asked, filter)
      /\ UNCHANGED <<backend, filter, selected, plan, state, first, chart, pane, banner,
                     pending, left>>
  BY <1>1 DEF Retry
<1>3. st \in StoreType /\ st.pages = cache.pages /\ st.inflight = cache.inflight
  BY <1>1, Facts DEF StoreType
<1>4. (mixed \/ Matching(asked, st, filter)) /\ Awaits(asked, state, st)
  BY <1>3, Facts DEF Matching, Awaits
<1>5. /\ cache' \in StoreType /\ Requested(asked', filter, selected, state, Len(kept))
      /\ mixed' \/ Matching(asked', cache', filter)
      /\ Charted(asked', chart, filter) /\ Awaits(asked', state, cache')
  BY <1>2, <1>3, <1>4, Facts, RenderKeeps
<1> QED BY <1>2, <1>5, Facts, WindowMoves

\* Selecting a call, or none, shows it at once and outdates the details asked for.
LEMMA SelectedKeeps ==
  ASSUME IInv, NEW c \in Nat, selected' = c, pane' = c, left' \in CourseType,
         Render(plan, first, cache, ShowSelected(c, asked), filter),
         UNCHANGED <<backend, filter, plan, state, first, chart, banner, pending>>
  PROVE  IInv'
<1>1. PICK Q : Q = ShowSelected(c, asked)
  OBVIOUS
<1>2. /\ Requested(Q, filter, c, state, Len(kept))
      /\ mixed \/ Matching(Q, cache, filter)
      /\ Charted(Q, chart, filter) /\ Awaits(Q, state, cache)
  BY <1>1, Facts, OtherSelected
<1>3. /\ cache' \in StoreType /\ Requested(asked', filter, c, state, Len(kept))
      /\ mixed' \/ Matching(asked', cache', filter)
      /\ Charted(asked', chart, filter) /\ Awaits(asked', state, cache')
  BY <1>1, <1>2, Facts, RenderKeeps
<1> QED BY <1>3, Facts, WindowMoves

LEMMA SelectKeeps ==
  ASSUME IInv, NEW i \in DOMAIN kept, Select(i)
  PROVE  IInv'
<1>1. i \in Nat
  BY Facts
<1>2. /\ Costs("selects") /\ selected' = i /\ pane' = i
      /\ Render(plan, first, cache, ShowSelected(i, asked), filter)
      /\ UNCHANGED <<backend, filter, plan, state, first, chart, banner, pending>>
  BY DEF Select
<1> QED BY <1>1, <1>2, SpentLess, Facts, SelectedKeeps

LEMMA CloseDetailKeeps ==
  ASSUME IInv, CloseDetail
  PROVE  IInv'
<1>1. /\ selected' = NoCall /\ pane' = NoCall /\ NoCall \in Nat
      /\ Render(plan, first, cache, ShowSelected(NoCall, asked), filter)
      /\ UNCHANGED <<backend, filter, plan, state, first, chart, banner, pending, left>>
  BY DEF CloseDetail, NoCall
<1> QED BY <1>1, Facts, SelectedKeeps

LEMMA SwitchKeeps ==
  ASSUME IInv, Switch
  PROVE  IInv'
<1>1. Costs("switches") /\ UNCHANGED <<kept, arrivals, alerts, window, asked>>
  BY DEF Switch
<1>2. left' \in CourseType
  BY <1>1, SpentLess, Facts
<1>3. Told(Len(kept))'
  BY <1>1 DEF IInv, Typed, Told, window
<1> QED BY <1>1, <1>2, <1>3, BackendMoves

-----------------------------------------------------------------------------
(* The specification. *)

LEMMA TimelineInitKept ==
  ASSUME TimelineInit
  PROVE  IInv
<1>1. PICK course \in Courses : Opened(course)
  BY DEF TimelineInit
<1>2. course \in CourseType /\ AnyTool \in Filter
  BY TimelineAssumption
<1>3. /\ kept = course.stored /\ left = course
      /\ arrivals = <<>> /\ alerts = <<>>
      /\ filter = AnyTool /\ selected = 0
      /\ plan = [filter |-> AnyTool, total |-> 0]
      /\ state = "loading" /\ cache = EmptyStore /\ first = 0
      /\ chart = None /\ pending = {}
  BY <1>1 DEF Opened, NoCall
<1>4. PICK a : a = Request("chart", AnyTool, 0)
  OBVIOUS
<1>5. PICK b : b = Request("count", AnyTool, 0)
  OBVIOUS
<1>6. PICK d : d = Request("collector", AnyTool, 0)
  OBVIOUS
<1>7. /\ a \in RequestType /\ a.kind = "chart" /\ a.filter = AnyTool
      /\ b \in RequestType /\ b.kind = "count" /\ b.reply = -1 /\ b.current
      /\ d \in RequestType /\ d.kind = "collector"
  BY <1>2, <1>4, <1>5, <1>6 DEF Request, RequestType, Waiting
<1>8. asked \subseteq {a, b, d} /\ b \in asked
  BY <1>1, <1>4, <1>5, <1>6 DEF Opened
<1>9. kept \in Seq(Tool) /\ Len(kept) \in Nat
  BY <1>2, <1>3, LenProperties DEF CourseType
<1>10. cache \in StoreType /\ DOMAIN cache.pages = {} /\ cache.inflight = {}
  <2>1. PICK g : g = <<>>
    OBVIOUS
  <2>2. DOMAIN g = {} /\ g \in [{} -> Filter]
    BY <2>1
  <2>3. g \in PageType
    BY <2>2 DEF PageType
  <2>4. cache = [pages |-> g, inflight |-> {}, failed |-> {}]
    BY <1>3, <2>1 DEF EmptyStore
  <2> QED BY <2>2, <2>3, <2>4 DEF StoreType
<1>11. Told(Len(kept))
  BY <1>3 DEF Told
<1>12. Typed
  BY <1>2, <1>3, <1>9, <1>10, <1>11 DEF Typed
<1>13. Requested(asked, filter, selected, state, Len(kept))
  BY <1>3, <1>7, <1>8, <1>9 DEF Requested, Wanted
<1>14. Matching(asked, cache, filter)
  BY <1>7, <1>8, <1>10 DEF Matching
<1>15. Charted(asked, chart, filter)
  BY <1>3 DEF Charted
<1>16. Awaits(asked, state, cache)
  BY <1>7, <1>8, <1>10 DEF Awaits
<1> QED BY <1>3, <1>12, <1>13, <1>14, <1>15, <1>16 DEF IInv

LEMMA TimelineNextKept ==
  ASSUME IInv, [TimelineNext]_tvars
  PROVE  IInv'
<1>1. CASE UNCHANGED tvars
  <2>1. UNCHANGED <<kept, arrivals, alerts, window, asked, left>>
    BY <1>1 DEF tvars, backend
  <2>2. Told(Len(kept))' /\ left' \in CourseType
    BY <2>1 DEF IInv, Typed, Told, window
  <2> QED BY <2>1, <2>2, BackendMoves
<1>2. CASE TimelineNext
  <2>1. CASE \E n \in 1..MaxBatch : Stored(n)
    BY <2>1, StoredKeeps
  <2>2. CASE \E i \in DOMAIN kept : Updated(i)
    BY <2>2, UpdatedKeeps
  <2>3. CASE LiveThread
    BY <2>3, LiveThreadKeeps
  <2>4. CASE LiveEvent
    BY <2>4, LiveEventKeeps
  <2>5. CASE \E r \in asked : Answer(r)
    BY <2>5, AnswerKeeps
  <2>6. CASE \E r \in asked : CountArrives(r)
    BY <2>6, CountArrivesKeeps
  <2>7. CASE \E r \in asked : CountFails(r)
    BY <2>7, CountFailsKeeps
  <2>8. CASE \E r \in asked : PageArrives(r)
    BY <2>8, PageArrivesKeeps
  <2>9. CASE \E r \in asked : PageFails(r)
    BY <2>9, PageFailsKeeps
  <2>10. CASE \E r \in asked : ChartArrives(r)
    BY <2>10, ChartArrivesKeeps
  <2>11. CASE \E r \in asked : ChartFails(r)
    BY <2>11, ChartFailsKeeps
  <2>12. CASE \E r \in asked : DetailArrives(r)
    BY <2>12, DetailArrivesKeeps
  <2>13. CASE \E r \in asked : CollectorArrives(r) \/ CollectorFails(r)
    BY <2>13, CollectorKeeps
  <2>14. CASE \E f \in Filter : ApplyFilter(f)
    BY <2>14, ApplyFilterKeeps
  <2>15. CASE Again
    BY <2>15, AgainKeeps
  <2>16. CASE \E top \in 0..Len(kept) : Scroll(top)
    BY <2>16, ScrollKeeps
  <2>17. CASE Retry
    BY <2>17, RetryKeeps
  <2>18. CASE \E i \in DOMAIN kept : Select(i)
    BY <2>18, SelectKeeps
  <2>19. CASE CloseDetail
    BY <2>19, CloseDetailKeeps
  <2>20. CASE Switch
    BY <2>20, SwitchKeeps
  <2> QED BY <1>2, <2>1, <2>2, <2>3, <2>4, <2>5, <2>6, <2>7, <2>8, <2>9, <2>10, <2>11, <2>12,
             <2>13, <2>14, <2>15, <2>16, <2>17, <2>18, <2>19, <2>20 DEF TimelineNext
<1> QED BY <1>1, <1>2

LEMMA TimelineInvFollows ==
  ASSUME IInv
  PROVE  TimelineInv
<1>1. TimelineTypeOK
  <2>1. \A r \in asked : r.kind \in {"count", "page", "chart", "call", "collector"}
    BY Facts DEF Requested, RequestType
  <2>2. plan.filter \in Filter /\ plan.total \in 0..Len(kept)
    BY Facts
  <2>3. cache.inflight \cup cache.failed \subseteq Nat
    BY Facts DEF StoreType
  <2> QED BY <2>1, <2>2, <2>3, Facts DEF TimelineTypeOK
<1>2. AnswersOfTheView
  BY Facts DEF AnswersOfTheView, Charted
<1>3. RowsMatchUnlessDrawn
  BY Facts DEF RowsMatchUnlessDrawn, RowsMatchFilter, Matching
<1>4. AwaitedIsAsked
  BY Facts DEF AwaitedIsAsked, Awaits
<1> QED BY <1>1, <1>2, <1>3, <1>4 DEF TimelineInv

\* Whatever is stored meanwhile, and however late and in whatever order counts, pages,
\* charts and details come or fail: when nothing covers the list it is laid out for
\* the filter the view now has, the chart is that filter's, none or on its way, and the
\* pane is on the call that is selected; a list that is covered as loading has a count
\* on its way and every page in inflight is being asked for (timeline.ts, plan.ts,
\* histogram.ts and detail.ts, by their generations). The rows held are the filter's
\* unless the list was drawn since the last reload while its count was awaited: then
\* a page of the filter before comes under the new generation (plan.ts fetch).
THEOREM ShownIsAsked == TimelineSpec => []TimelineInv
<1>1. TimelineInit => IInv
  BY TimelineInitKept
<1>2. IInv /\ [TimelineNext]_tvars => IInv'
  BY TimelineNextKept
<1>3. IInv => TimelineInv
  BY TimelineInvFollows
<1> QED BY <1>1, <1>2, <1>3, PTL DEF TimelineSpec
=============================================================================
