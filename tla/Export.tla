------------------------------- MODULE Export -------------------------------
(* `toolog export`, and the window's: export of toolog-cli commands.rs. The   *)
(* calls a filter selects are read a page at a time, by limit and offset, and *)
(* each page is a statement of its own, so that calls arrive and sessions are *)
(* purged between two pages. A filter is the tools it lets through; what the  *)
(* other filters select is in Queries.                                        *)
EXTENDS Records

CONSTANTS
  PAGE,      \* calls to a page
  NoLimit, Limits, \* what --limit may say
  Tools      \* the filters asked with: sets of tools

VARIABLES export  \* [step, tools, limit, offset, written, asked]

NoExport == [step |-> "idle", tools |-> {}, limit |-> NoLimit, offset |-> 0,
             written |-> <<>>, asked |-> {}]

Listed(tools) == {i \in Rows : calls[i].tool_name \in tools}

\* timeline_page: newest first, no time last.
TimelinePage(tools, limit, offset) ==
  LET all == SetToSortSeq(Listed(tools), Newer)
  IN SubSeq(all, offset + 1, Min({offset + limit, Len(all)}))

\* asked is observation only: the calls selected when it began.
BeginExport ==
  /\ export.step \in {"idle", "done"}
  /\ \E tools \in Tools, limit \in Limits :
       export' = [NoExport EXCEPT !.step = "paging", !.tools = tools, !.limit = limit,
                                  !.asked = Listed(tools)]
  /\ since' = {}
  /\ UNCHANGED <<calls, sessions, modes, spent>>

\* The rest of what was asked for, a page of it at most.
RemainingPage == PAGE                     \* mutant: the last page is a whole one
Remaining == IF export.limit = NoLimit THEN PAGE
             ELSE Min({PAGE, Max({export.limit - Len(export.written), 0})})

\* Where the next page begins.
OffsetAfterOne(rows) == export.offset + 1 \* mutant: a page, not its rows
OffsetAfter(rows) == export.offset + Len(rows)

ExportPage ==
  /\ export.step = "paging"
  /\ LET rows == TimelinePage(export.tools, Remaining, export.offset)
     IN export' = IF Remaining = 0 \/ rows = <<>>
                  THEN [export EXCEPT !.step = "done"]
                  ELSE [export EXCEPT !.written = @ \o rows, !.offset = OffsetAfter(rows)]
  /\ UNCHANGED recordvars

ExportNext == BeginExport \/ ExportPage

-----------------------------------------------------------------------------
\* An export nothing overtook is the list, cut at its limit. One that calls
\* arrived behind, whatever their times, may write a call twice and still
\* leaves out none that was there when it began; and none is longer than its
\* limit (commands.rs export, over query.rs timeline_page).
ExportWhole ==
  /\ export.limit # NoLimit => Len(export.written) <= export.limit
  /\ export.step = "done" =>
       LET all == SetToSortSeq(export.asked, Newer)
           cut == IF export.limit = NoLimit THEN Len(all) ELSE Min({export.limit, Len(all)})
       IN /\ since = {} => export.written = SubSeq(all, 1, cut)
          /\ (since \subseteq {"stored", "learnt", "changed", "judged"}
                /\ export.limit = NoLimit)
                => export.asked \subseteq ToSet(export.written)
=============================================================================
