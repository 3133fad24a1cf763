------------------------------- MODULE Timeline -------------------------------
(* The timeline while things happen behind it: rows being stored, the live    *)
(* thread that tells of them (writer.rs, capture.rs spawn_live, app.rs), and  *)
(* the view that asks for a count, pages, a chart and one call's detail, and  *)
(* must not show an answer to a question it no longer asks                    *)
(* (ui/src/timeline.ts, plan.ts, virtual.ts, histogram.ts, detail.ts).        *)
(*                                                                            *)
(* A row is its tool. Every request is answered by the backend and, later,    *)
(* delivered to the window, in any order. The generation numbers of           *)
(* TimelineView, RowStore and ActivityHistogram are bumped together, by       *)
(* reload, and those of DetailPane by show and clear: a request carries       *)
(* whether none has been since it was sent (current). The window handles one  *)
(* event at a time.                                                           *)
EXTENDS Integers, Sequences, FiniteSets, FiniteSetsExt

CONSTANTS
  Tool,         \* names of tools
  Filter,       \* a tool, AnyTool or Words
  Page,         \* PAGE, rows of one request
  Screen,       \* rows on the screen
  LiveBatch,    \* LIVE_BATCH
  MaxBatch,     \* bound: rows of one job of the writer
  Courses       \* where it starts and bounds: [stored, rows, updates, edits, selects,
                \* failures, switches], the calls stored, those to come, and how many of
                \* the rest there may be

None == "none"
NoCall == 0
AnyTool == "any"
Words == "words"      \* a search, whose results happen to be one tool's

CourseType == [stored : Seq(Tool), rows : Seq(Tool), updates : Nat, edits : Nat,
               selects : Nat, failures : Nat, switches : Nat]

ASSUME TimelineAssumption ==
  /\ Page \in Nat \ {0} /\ Screen \in Nat \ {0} /\ LiveBatch \in Nat \ {0}
  /\ MaxBatch \in Nat \ {0}
  /\ AnyTool \in Filter /\ Courses \subseteq CourseType

VARIABLES
  kept,         \* the stored calls, oldest first
  arrivals,     \* from the writer to the live thread: the rows each job touched
  alerts,       \* from the live thread to the window: the batches it tells of, a
                \* live_tool_call for each call, in order
  collector,    \* "listening" or "paused"
  filter,       \* what view.filter narrows by
  selected,     \* the call view.selected names, or NoCall
  plan,         \* [filter, total]: what the list is laid out for
  state,        \* what covers the list: "loading", "problem" or "none"
  cache,        \* RowStore: [pages, inflight, failed]
  first,        \* the first row on the screen
  chart,        \* the filter of the histogram's data, or None
  pane,         \* the call the detail pane shows or waits for, or NoCall
  banner,       \* what the banner says of the collector
  pending,      \* the calls the pill counts
  asked,        \* requests on their way
  mixed,        \* a page of the old plan was asked for while a count was awaited
  left          \* of the budget

backend == <<kept, arrivals, alerts, collector>>
window  == <<filter, selected, plan, state, cache, first, chart, pane, banner, pending, mixed>>
tvars   == <<backend, window, asked, left>>

TimelineTypeOK ==
  /\ kept \in Seq(Tool)
  /\ filter \in Filter /\ plan.filter \in Filter /\ plan.total \in 0..Len(kept)
  /\ cache.inflight \cup cache.failed \subseteq Nat
  /\ pending \subseteq 1..Len(kept)
  /\ \A r \in asked : r.kind \in {"count", "page", "chart", "call", "collector"}

Matches(f, tool) == \/ f = AnyTool
                    \/ f = tool
                    \/ f = Words /\ tool = "Bash"
CountOf(f) == Cardinality({i \in DOMAIN kept : Matches(f, kept[i])})

-----------------------------------------------------------------------------
(* The writer's hook and the live thread. *)

Costs(what) == left[what] > 0 /\ left' = [left EXCEPT ![what] = @ - 1]

\* A job stores calls; when it is done the rows it touched are sent.
Stored(n) ==
  /\ n <= Len(left.rows)
  /\ left' = [left EXCEPT !.rows = SubSeq(@, n + 1, Len(@))]
  /\ kept' = kept \o SubSeq(left.rows, 1, n)
  /\ arrivals' = Append(arrivals, (Len(kept) + 1)..(Len(kept) + n))
  /\ UNCHANGED <<alerts, collector, window, asked>>

\* A job completes a row another lane had created.
Updated(i) ==
  /\ Costs("updates")
  /\ arrivals' = Append(arrivals, {i})
  /\ UNCHANGED <<kept, alerts, collector, window, asked>>

\* spawn_live: what is queued, until it is a batch; sorted, once each, cut.
Upto ==
  LET Rows[n \in 1..Len(arrivals)] ==
        Cardinality(arrivals[n]) + (IF n = 1 THEN 0 ELSE Rows[n - 1])
  IN Rows
Drained ==
  CHOOSE n \in 1..Len(arrivals) :
    /\ n = Len(arrivals) \/ (n > 1 /\ Upto[n] >= LiveBatch)
    /\ \A m \in 2..(n - 1) : ~(Upto[m] >= LiveBatch)
CutLast(ids) == {i \in ids : Cardinality({j \in ids : j < i}) < LiveBatch}

LiveThread ==
  /\ arrivals # <<>>
  /\ alerts' = Append(alerts, CutLast(UNION {arrivals[n] : n \in 1..Drained}))
  /\ arrivals' = SubSeq(arrivals, Drained + 1, Len(arrivals))
  /\ UNCHANGED <<kept, collector, window, asked, left>>

\* noteLiveCall: unless the view is a search or another tool's, once per call.
Noted(i) ==
  IF filter # Words /\ (filter = AnyTool \/ filter = kept[i])
  THEN pending \cup {i} ELSE pending

LiveEvent ==
  /\ alerts # <<>>
  /\ LET i == Min(Head(alerts))
     IN /\ pending' = Noted(i)
        /\ alerts' = IF Head(alerts) = {i} THEN Tail(alerts)
                     ELSE [alerts EXCEPT ![1] = @ \ {i}]
  /\ UNCHANGED <<kept, arrivals, collector, filter, selected, plan, state, cache, first,
                 chart, pane, banner, asked, mixed, left>>

-----------------------------------------------------------------------------
(* Requests. *)

Waiting == -1
Request(kind, f, page) ==
  [kind |-> kind, filter |-> f, page |-> page, current |-> TRUE, reply |-> Waiting]

Outdated(kinds) == {IF r.kind \in kinds THEN [r EXCEPT !.current = FALSE] ELSE r : r \in asked}

\* The backend reads the store; the answer is delivered later.
Answer(r) ==
  /\ r.kind = "count" /\ r.reply = Waiting
  /\ asked' = (asked \ {r}) \cup {[r EXCEPT !.reply = CountOf(r.filter)]}
  /\ UNCHANGED <<backend, window, left>>

\* Plan.at and VirtualList.draw: the pages of the rows on the screen.
Shown(p, top) == {i \div Page : i \in top..Min({top + Screen - 1, p.total - 1})}

\* RowStore.get, for each of them: one not held, asked for or failed is asked for.
Missing(p, top, st) ==
  Shown(p, top) \ (DOMAIN st.pages \cup st.inflight \cup st.failed)

\* Rendering rows of a plan. st and requests are the store and what is on its
\* way before it, f the filter the view then has.
Render(p, top, st, requests, f) ==
  /\ cache' = [st EXCEPT !.inflight = @ \cup Missing(p, top, st)]
  /\ asked' = requests \cup {Request("page", p.filter, n) : n \in Missing(p, top, st)}
  /\ mixed' = (mixed \/ (Missing(p, top, st) # {} /\ p.filter # f))

EmptyStore == [pages |-> <<>>, inflight |-> {}, failed |-> {}]
ClearedPages == [cache EXCEPT !.pages = <<>>, !.failed = {}]  \* mutant: inflight is kept
Cleared == EmptyStore

\* reload: everything asked before is outdated, the store emptied, the pill
\* hidden, and the chart and the count asked for. The rows stay as they were.
Reload(f) ==
  /\ cache' = Cleared
  /\ pending' = {}
  /\ state' = "loading"
  /\ asked' = Outdated({"count", "page", "chart"})
              \cup {Request("chart", f, 0), Request("count", f, 0)}
  /\ mixed' = FALSE

\* showSelected: DetailPane.show, or clear; either makes an earlier call's
\* detail unwanted.
ShowSelected(c, requests) ==
  {IF r.kind = "call" THEN [r EXCEPT !.current = FALSE] ELSE r : r \in requests}
  \cup (IF c = NoCall THEN {} ELSE {Request("call", filter, c)})

Delivered(r) == r \in asked /\ (r.kind = "count" => r.reply # Waiting)

\* What a late reply is dropped by.
StaleNever(r) == FALSE                    \* mutant: generation is not compared
Stale(r) == ~r.current

\* The pill is hidden when a count is asked for, not when it comes.
PillHidden == {}                          \* mutant: it is hidden when the count comes
PillAfterCount == pending

\* The count of the filter: the plan is rebuilt, the list laid out and drawn
\* from it, and the pane brought in line.
CountArrives(r) ==
  /\ r.kind = "count" /\ Delivered(r)
  /\ IF Stale(r)
     THEN /\ asked' = asked \ {r}
          /\ UNCHANGED window
     ELSE LET p   == [filter |-> filter, total |-> r.reply]
              top == Min({first, Max({0, r.reply - 1})})
          IN /\ plan' = p
             /\ first' = top
             /\ state' = "none"
             /\ pane' = selected
             /\ pending' = PillAfterCount
             /\ Render(p, top, cache, ShowSelected(selected, asked \ {r}), filter)
             /\ UNCHANGED <<filter, selected, chart, banner>>
  /\ UNCHANGED <<backend, left>>

CountFails(r) ==
  /\ r.kind = "count" /\ r \in asked
  /\ Costs("failures")
  /\ asked' = asked \ {r}
  /\ state' = IF Stale(r) THEN state ELSE "problem"
  /\ UNCHANGED <<backend, filter, selected, plan, cache, first, chart, pane, banner,
                 pending, mixed>>

\* RowStore.fetch: a late page is dropped, but it takes its number out of
\* inflight all the same; one that is wanted is held and what is on the screen
\* drawn again.
Settled(r) == [cache EXCEPT !.inflight = @ \ {r.page}]

PageArrives(r) ==
  /\ r.kind = "page" /\ r \in asked
  /\ IF Stale(r)
     THEN /\ cache' = Settled(r)
          /\ asked' = asked \ {r}
          /\ UNCHANGED mixed
     ELSE LET held == [n \in DOMAIN cache.pages \cup {r.page} |->
                        IF n = r.page THEN r.filter ELSE cache.pages[n]]
          IN Render(plan, first, [Settled(r) EXCEPT !.pages = held],
                    asked \ {r}, filter)
  /\ UNCHANGED <<backend, filter, selected, plan, state, first, chart, pane, banner,
                 pending, left>>

PageFails(r) ==
  /\ r.kind = "page" /\ r \in asked
  /\ Costs("failures")
  /\ IF Stale(r)
     THEN /\ cache' = Settled(r)
          /\ asked' = asked \ {r}
          /\ UNCHANGED mixed
     ELSE Render(plan, first, [Settled(r) EXCEPT !.failed = @ \cup {r.page}],
                 asked \ {r}, filter)
  /\ UNCHANGED <<backend, filter, selected, plan, state, first, chart, pane, banner, pending>>

\* ActivityHistogram.load
ChartArrives(r) ==
  /\ r.kind = "chart" /\ r \in asked
  /\ chart' = IF Stale(r) THEN chart ELSE r.filter
  /\ asked' = asked \ {r}
  /\ UNCHANGED <<backend, filter, selected, plan, state, cache, first, pane, banner,
                 pending, mixed, left>>

\* A chart that cannot be had is no chart, never the one of the filter before.
ChartFails(r) ==
  /\ r.kind = "chart" /\ r \in asked
  /\ Costs("failures")
  /\ chart' = IF Stale(r) THEN chart ELSE None
  /\ asked' = asked \ {r}
  /\ UNCHANGED <<backend, filter, selected, plan, state, cache, first, pane, banner,
                 pending, mixed>>

\* DetailPane.show's answer fills the pane, with the call, with what went wrong
\* or with the news that the call is gone.
DetailArrives(r) ==
  /\ r.kind = "call" /\ r \in asked
  /\ pane' = IF Stale(r) THEN pane ELSE r.page
  /\ asked' = asked \ {r}
  /\ UNCHANGED <<backend, filter, selected, plan, state, cache, first, chart, banner,
                 pending, mixed, left>>

\* checkCollector, which only the constructor calls.
CollectorArrives(r) ==
  /\ r.kind = "collector" /\ r \in asked
  /\ banner' = collector
  /\ asked' = asked \ {r}
  /\ UNCHANGED <<backend, filter, selected, plan, state, cache, first, chart, pane,
                 pending, mixed, left>>

\* One that fails hides the banner.
CollectorFails(r) ==
  /\ r.kind = "collector" /\ r \in asked
  /\ Costs("failures")
  /\ banner' = "listening"
  /\ asked' = asked \ {r}
  /\ UNCHANGED <<backend, filter, selected, plan, state, cache, first, chart, pane,
                 pending, mixed>>

-----------------------------------------------------------------------------
(* The reader. *)

\* apply, with another filter. The pane waits for the count.
ApplyFilter(f) ==
  /\ f # filter
  /\ Costs("edits")
  /\ filter' = f /\ selected' = NoCall
  /\ Reload(f)
  /\ UNCHANGED <<backend, plan, first, chart, pane, banner>>

\* The pill, or "Try again".
Again ==
  /\ pending # {} \/ state = "problem"
  /\ Costs("edits")
  /\ Reload(filter)
  /\ UNCHANGED <<backend, filter, selected, plan, first, chart, pane, banner>>

\* Scrolling, or a key, draws the rows of the plan there is.
Scroll(top) ==
  /\ top # first /\ top \in 0..Max({0, plan.total - 1})
  /\ first' = top
  /\ Render(plan, top, cache, asked, filter)
  /\ UNCHANGED <<backend, filter, selected, plan, state, chart, pane, banner, pending, left>>

\* retry, from a row of a page that failed.
Retry ==
  /\ cache.failed \cap Shown(plan, first) # {}
  /\ Render(plan, first, [cache EXCEPT !.failed = {}], asked, filter)
  /\ UNCHANGED <<backend, filter, selected, plan, state, first, chart, pane, banner,
                 pending, left>>

\* select: a row whose page is held, by click or by key; the rows are redrawn.
Select(i) ==
  /\ i \in DOMAIN kept /\ i # selected
  /\ \E n \in DOMAIN cache.pages \cap Shown(plan, first) : Matches(cache.pages[n], kept[i])
  /\ Costs("selects")
  /\ selected' = i
  /\ pane' = i
  /\ Render(plan, first, cache, ShowSelected(i, asked), filter)
  /\ UNCHANGED <<backend, filter, plan, state, first, chart, banner, pending>>

CloseDetail ==
  /\ selected # NoCall
  /\ selected' = NoCall
  /\ pane' = NoCall
  /\ Render(plan, first, cache, ShowSelected(NoCall, asked), filter)
  /\ UNCHANGED <<backend, filter, plan, state, first, chart, banner, pending, left>>

\* The Status screen's switch: the backend pauses or resumes, and onChanged
\* applies the view the timeline already has, which does nothing.
Switch ==
  /\ Costs("switches")
  /\ collector' = IF collector = "paused" THEN "listening" ELSE "paused"
  /\ UNCHANGED <<kept, arrivals, alerts, window, asked>>

\* The window opens. (What it asks of the collector is left out of a course
\* that never switches it.)
Opened(course) ==
  /\ kept = course.stored /\ left = course
  /\ arrivals = <<>> /\ alerts = <<>> /\ collector = "listening"
  /\ filter = AnyTool /\ selected = NoCall
  /\ plan = [filter |-> AnyTool, total |-> 0]
  /\ state = "loading" /\ cache = EmptyStore /\ first = 0
  /\ chart = None /\ pane = NoCall /\ banner = "listening" /\ pending = {} /\ mixed = FALSE
  /\ asked = {Request("chart", AnyTool, 0), Request("count", AnyTool, 0)}
             \cup (IF course.switches = 0 THEN {} ELSE {Request("collector", AnyTool, 0)})

TimelineInit == \E course \in Courses : Opened(course)

TimelineNext ==
  \/ \E n \in 1..MaxBatch : Stored(n)
  \/ \E i \in DOMAIN kept : Updated(i)
  \/ LiveThread
  \/ LiveEvent
  \/ \E r \in asked : Answer(r)
  \/ \E r \in asked : CountArrives(r)
  \/ \E r \in asked : CountFails(r)
  \/ \E r \in asked : PageArrives(r)
  \/ \E r \in asked : PageFails(r)
  \/ \E r \in asked : ChartArrives(r)
  \/ \E r \in asked : ChartFails(r)
  \/ \E r \in asked : DetailArrives(r)
  \/ \E r \in asked : CollectorArrives(r)
  \/ \E r \in asked : CollectorFails(r)
  \/ \E f \in Filter : ApplyFilter(f)
  \/ Again
  \/ \E top \in 0..Len(kept) : Scroll(top)
  \/ Retry
  \/ \E i \in DOMAIN kept : Select(i)
  \/ CloseDetail
  \/ Switch

\* The live thread runs while the application does, the window handles its
\* events, and every command the window invokes ends. The reader owes nothing.
Arrives == \E r \in asked : Answer(r) \/ CountArrives(r) \/ PageArrives(r) \/ ChartArrives(r)
TimelineFairness == WF_tvars(LiveThread) /\ WF_tvars(LiveEvent) /\ WF_tvars(Arrives)

TimelineSpec == TimelineInit /\ [][TimelineNext]_tvars
FairTimelineSpec == TimelineSpec /\ TimelineFairness

-----------------------------------------------------------------------------
(* The properties. *)

\* However late and in whatever order the answers come: when nothing covers
\* the list it is laid out for the filter the view has, the chart is that
\* filter's, none at all or on its way, and the pane is on the selected call (the
\* generations of TimelineView and ActivityHistogram, DetailPane's token).
AnswersOfTheView ==
  state = "none" =>
    /\ plan.filter = filter
    /\ chart \in {filter, None} \/ \E r \in asked : r.kind = "chart" /\ r.current /\ r.filter = filter
    /\ pane = selected

\* "Bumped on every clear, so a late reply for an old filter is discarded"
\* (plan.ts, of RowStore): the rows the list holds are rows of its filter.
RowsMatchFilter ==
  state = "none" => \A n \in DOMAIN cache.pages : cache.pages[n] = filter

\* That much is true unless the list was drawn while its count was awaited.
RowsMatchUnlessDrawn == mixed \/ RowsMatchFilter

\* What the window waits for is on its way to it: while the list is covered as loading
\* a count of this generation, and for every number in inflight a page of it, which a
\* late answer to an earlier question could have taken along (reload, fetch).
AwaitedIsAsked ==
  /\ state = "loading" => \E r \in asked : r.kind = "count" /\ r.current
  /\ \A n \in cache.inflight : \E r \in asked : r.kind = "page" /\ r.current /\ r.page = n

TimelineInv == TimelineTypeOK /\ AnswersOfTheView /\ RowsMatchUnlessDrawn /\ AwaitedIsAsked

\* No list stays behind the store for good with no pill shown: it ends with one
\* or with a new count, though a burst is cut to a batch and the pill is cleared by every
\* reload (spawn_live, noteLiveCall, reload).
Behind == state = "none" /\ filter = AnyTool /\ plan.total < Len(kept)
NewCallsNoticed == []<>(Behind => pending # {})

\* Every row on the screen ends drawn, or as one that failed: no page is waited
\* for that nobody asked for, a reload in the middle included (RowStore).
EveryRowDrawn ==
  []<>(state = "none" => Shown(plan, first) \subseteq DOMAIN cache.pages \cup cache.failed)
=============================================================================
