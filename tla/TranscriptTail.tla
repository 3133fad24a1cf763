--------------------------- MODULE TranscriptTail ---------------------------
(***************************************************************************)
(* The transcript lane: crates/toolog-ingest/src/{tail,backfill,jsonl}.rs  *)
(* and the tailer thread, pause, resume and catch-up of                    *)
(* crates/toolog-cli/src/capture.rs.                                       *)
(*                                                                         *)
(* Claude Code writes transcripts; the tailer thread learns of it from the *)
(* file watcher, coalesces a burst, and also sweeps every file on a timer. *)
(* Each burst is a job for the one writer thread, which reads every file   *)
(* from the offset it can work out from the store, stores the complete     *)
(* lines in one transaction and projects them in another.                  *)
(*                                                                         *)
(* A file is a sequence of cells, the units a write may be cut at: line l  *)
(* is the cells <<l, 1>> .. <<l, Size[l]>>, the last being its newline.    *)
(* The queue holds this lane's jobs only; the other lane's delay them.     *)
(***************************************************************************)
EXTENDS Integers, Sequences, FiniteSets

CONSTANTS
  File,         \* transcript paths
  LineId,       \* the lines Claude Code writes
  Size,         \* LineId -> number of cells, the newline included
  Depth,        \* jobs the writer's queue holds
  MaxLen,       \* bound on the length of a file
  MaxCuts,      \* bound on truncations
  Regrows,      \* BOOLEAN: a truncated file may grow past its old offset again
  MaxExits,     \* bound on quits and crashes
  MaxPauses,    \* bound on pauses
  MaxFaults,    \* bound on I/O and SQLite errors
  MaxTroubles,  \* bound on all of these together
  MayExclude    \* the files whose project the user may exclude

ASSUME TailAssumption ==
  /\ IsFiniteSet(File) /\ IsFiniteSet(LineId)
  /\ Size \in [LineId -> Nat \ {0, 1}]
  /\ Depth \in Nat \ {0}
  /\ {MaxLen, MaxCuts, MaxExits, MaxPauses, MaxFaults, MaxTroubles}
       \subseteq Nat
  /\ Regrows \in BOOLEAN /\ MayExclude \subseteq File

VARIABLES
  disk,         \* File -> Seq(cell); an empty file and no file are one
  written,      \* observation only: every whole line each file has ever held
  excluded,     \* the files discovery leaves out
  tail,         \* the tailer thread: "off", "start", "watching", "submitting"
  events,       \* files the watcher has told of, not yet received
  burst,        \* files heard of since the last burst was handed on
  batch,        \* the batch waiting for room in the queue
  paused,       \* the flag both lanes share
  catchUp,      \* BOOLEAN: a catch-up is waiting for room in the queue
  queue,        \* the writer's queue, oldest first: sets of files
  job,          \* the job being run: files to go, the open file, where it is
                \* read from, and the rows stored but not yet projected
  rows,         \* raw_event of this lane: a set of [file, offset, text]
  projected,    \* the texts of the rows that have been projected
  spent         \* how much of each bound is used up

user    == <<disk, written, excluded>>
thread  == <<tail, events, burst, batch>>
store   == <<rows, projected>>
vars    == <<disk, written, excluded, tail, events, burst, batch, paused,
             catchUp, queue, job, rows, projected, spent>>

Bound == [cuts |-> MaxCuts, exits |-> MaxExits, pauses |-> MaxPauses,
          faults |-> MaxFaults, excludes |-> Cardinality(MayExclude)]
Troubles == spent.cuts + spent.exits + spent.pauses + spent.faults + spent.excludes
Spend(what) == /\ spent[what] < Bound[what] /\ Troubles < MaxTroubles
               /\ spent' = [spent EXCEPT ![what] = @ + 1]

-----------------------------------------------------------------------------
(* read_from: the newline-terminated lines from an offset onward.  The     *)
(* offset is where the reader seeks to, at the start of a line or not.     *)

IsNewline(cell) == cell[2] = Size[cell[1]]
Newlines(d) == {i \in DOMAIN d : IsNewline(d[i])}

EndsOrEof(d, from) ==                  \* mutant: the trailing fragment is yielded
  {i \in Newlines(d) \cup {Len(d) + 1} : i > from}
Ends(d, from) == {i \in Newlines(d) : i > from}

\* The offset of the line that ends at i.
StartOf(d, from, i) ==
  LET before == {j \in Newlines(d) : from < j /\ j < i} \cup {from}
  IN CHOOSE j \in before : \A k \in before : k <= j

\* Blank lines are skipped.
ReadFrom(d, from) ==
  {[offset |-> StartOf(d, from, i), text |-> SubSeq(d, StartOf(d, from, i) + 1, i - 1)] :
     i \in {j \in Ends(d, from) : StartOf(d, from, j) + 1 < j}}

\* The complete lines of a file, whoever reads it: what is between one newline,
\* or the beginning, and the next.
WholeLines(f, d) ==
  LET spans == {ij \in (Newlines(d) \cup {0}) \X Newlines(d) :
                  ij[1] < ij[2] /\ \A k \in Newlines(d) : ~(ij[1] < k /\ k < ij[2])}
  IN {<<f, SubSeq(d, ij[1] + 1, ij[2] - 1)>> : ij \in spans}

-----------------------------------------------------------------------------
(* What the store answers. *)

HeldNever(text) == FALSE               \* mutant: no UNIQUE content hash
Held(text) == \E r \in rows : r.text = text

\* max_offset: NULL, which reads as 0, for a file with no row.
MaxOffset(f) ==
  LET offsets == {r.offset : r \in {q \in rows : q.file = f}} \cup {0}
  IN CHOOSE o \in offsets : \A p \in offsets : p <= o

\* A file shorter than its offset is read again from the beginning.
ResumeAtEnd(f) ==                      \* mutant: the offset is clamped instead
  IF MaxOffset(f) > Len(disk[f]) THEN Len(disk[f]) ELSE MaxOffset(f)
ResumeSize(f) == Len(disk[f])          \* mutant: only what comes next is read
Resume(f) == IF MaxOffset(f) > Len(disk[f]) THEN 0 ELSE MaxOffset(f)

\* Of lines with one text, the first is stored and the others are duplicates.
NewRows(f, lines) ==
  {[file |-> f, offset |-> l.offset, text |-> l.text] :
     l \in {k \in lines : /\ ~Held(k.text)
                          /\ \A o \in lines : o.text = k.text => k.offset <= o.offset}}

-----------------------------------------------------------------------------
(* Claude Code writes, and the watcher tells: of several writes at once,   *)
(* late, or not at all while it arms.                                      *)

Told(f) == IF tail = "off" THEN UNCHANGED events
           ELSE events' \in {events, events \cup {f}}

\* The next cell of the line being written, or the first of another line.
NextCells(d) ==
  IF d # <<>> /\ ~IsNewline(d[Len(d)])
  THEN {<<d[Len(d)][1], d[Len(d)][2] + 1>>}
  ELSE {<<l, 1>> : l \in {m \in LineId : \A i \in DOMAIN d : d[i][1] # m}}

CutShort(f) == Len(disk[f]) < MaxOffset(f)

WriteCell(f) ==
  /\ Len(disk[f]) < MaxLen
  /\ Regrows \/ ~CutShort(f) \/ Len(disk[f]) + 1 < MaxOffset(f)
  /\ \E c \in NextCells(disk[f]) : disk' = [disk EXCEPT ![f] = Append(@, c)]
  /\ written' = written \cup WholeLines(f, disk'[f])
  /\ Told(f)
  /\ UNCHANGED <<excluded, tail, burst, batch, paused, catchUp, queue, job,
                 store, spent>>

\* A file is rewritten shorter, emptied to be replaced, or removed.
Truncate(f) ==
  /\ Spend("cuts")
  /\ \E n \in 0..(Len(disk[f]) - 1) : disk' = [disk EXCEPT ![f] = SubSeq(@, 1, n)]
  /\ Told(f)
  /\ UNCHANGED <<written, excluded, tail, burst, batch, paused, catchUp, queue,
                 job, store>>

\* set_excluded, when preferences are saved.
Exclude(f) ==
  /\ f \in MayExclude \ excluded
  /\ Spend("excludes")
  /\ excluded' = excluded \cup {f}
  /\ UNCHANGED <<disk, written, thread, paused, catchUp, queue, job, store>>

\* discover::transcripts.
Exists(f) == disk[f] # <<>>
VisibleTold == {f \in burst : Exists(f)}   \* mutant: a sweep of what was told of
Visible == {f \in File : Exists(f) /\ f \notin excluded}

-----------------------------------------------------------------------------
(* The tailer thread.  Timers are abstracted: a sweep may come due and a   *)
(* burst may settle at any turn of the loop.                               *)

Start ==
  /\ tail = "off"
  /\ tail' = "start"
  /\ UNCHANGED <<user, events, burst, batch, paused, catchUp, queue, job, store, spent>>

\* on_batch: while capture is paused the batch is dropped; otherwise it is
\* submitted, however long the queue makes it wait.
OnBatch(files) ==
  IF paused \/ files = {}
  THEN tail' = "watching" /\ batch' = {}
  ELSE tail' = "submitting" /\ batch' = files

SweepDue == tail \in {"start", "watching"}

Sweep ==
  /\ SweepDue
  /\ OnBatch(Visible)
  /\ UNCHANGED <<user, events, burst, paused, catchUp, queue, job, store, spent>>

Hear(f) ==
  /\ tail = "watching"
  /\ f \in events
  /\ events' = events \ {f}
  /\ burst' = IF f \in excluded THEN burst ELSE burst \cup {f}
  /\ UNCHANGED <<user, tail, batch, paused, catchUp, queue, job, store, spent>>

Settle ==
  /\ tail = "watching"
  /\ burst # {}
  /\ burst' = {}
  /\ OnBatch({f \in burst : Exists(f)})
  /\ UNCHANGED <<user, events, paused, catchUp, queue, job, store, spent>>

Room == Len(queue) < Depth

Submit ==
  /\ tail = "submitting" /\ Room
  /\ queue' = Append(queue, [all |-> FALSE, files |-> batch])
  /\ tail' = "watching" /\ batch' = {}
  /\ UNCHANGED <<user, events, burst, paused, catchUp, job, store, spent>>

-----------------------------------------------------------------------------
(* The user: pause, resume, and "import history" from the tray, which asks *)
(* for a catch-up whether capture is paused or not.                        *)

Pause ==
  /\ tail # "off" /\ ~paused
  /\ Spend("pauses")
  /\ paused' = TRUE
  /\ UNCHANGED <<user, thread, catchUp, queue, job, store>>

ResumeCapture ==
  /\ paused
  /\ paused' = FALSE
  /\ catchUp' = TRUE
  /\ UNCHANGED <<user, thread, queue, job, store, spent>>

SubmitCatchUp ==
  /\ catchUp /\ Room
  /\ queue' = Append(queue, [all |-> TRUE, files |-> {}])
  /\ catchUp' = FALSE
  /\ UNCHANGED <<user, thread, paused, job, store, spent>>

-----------------------------------------------------------------------------
(* The writer thread: the files of a job one after the other. *)

Idle == [todo |-> {}, open |-> {}, start |-> 0, stored |-> FALSE, fresh |-> {}]

\* A catch-up looks for its files when it runs, not when it is asked for.
TakeJob ==
  /\ job.todo = {} /\ queue # <<>>
  /\ queue' = Tail(queue)
  /\ job' = [Idle EXCEPT !.todo = IF Head(queue).all THEN Visible
                                  ELSE Head(queue).files]
  /\ UNCHANGED <<user, thread, paused, catchUp, store, spent>>

\* ingest_file: the offset and the length decide where to read from ...
OpenFile(f) ==
  /\ f \in job.todo /\ job.open = {}
  /\ job' = [job EXCEPT !.open = {f}, !.start = Resume(f)]
  /\ UNCHANGED <<user, thread, paused, catchUp, queue, store, spent>>

\* ... and what the file holds by the time it is read is stored, at once.
StoreLines(f) ==
  /\ f \in job.open /\ ~job.stored
  /\ LET new == NewRows(f, ReadFrom(disk[f], job.start))
     IN /\ rows' = rows \cup new
        /\ job' = [job EXCEPT !.stored = TRUE, !.fresh = new]
  /\ UNCHANGED <<user, thread, paused, catchUp, queue, projected, spent>>

NextFile(f) == job' = [Idle EXCEPT !.todo = job.todo \ {f}]

ProjectNone(f) ==                      \* mutant: the highest id is read afterwards
  /\ f \in job.open /\ job.stored
  /\ NextFile(f)
  /\ UNCHANGED <<user, thread, paused, catchUp, queue, store, spent>>
ProjectRows(f) ==
  /\ f \in job.open /\ job.stored
  /\ projected' = projected \cup {r.text : r \in job.fresh}
  /\ NextFile(f)
  /\ UNCHANGED <<user, thread, paused, catchUp, queue, rows, spent>>

\* Reading, storing or projecting fails: the transaction is rolled back, the
\* file is given up and the next one is tried.
FailFile(f) ==
  /\ f \in job.open
  /\ Spend("faults")
  /\ NextFile(f)
  /\ UNCHANGED <<user, thread, paused, catchUp, queue, store>>

-----------------------------------------------------------------------------
\* The application quits or is killed: all but the files and the store is lost.
Exit ==
  /\ tail # "off"
  /\ Spend("exits")
  /\ tail' = "off"
  /\ events' = {} /\ burst' = {} /\ batch' = {}
  /\ paused' = FALSE /\ catchUp' = FALSE
  /\ queue' = <<>>
  /\ job' = Idle
  /\ UNCHANGED <<user, store>>

Init ==
  /\ disk = [f \in File |-> <<>>]
  /\ written = {} /\ excluded = {}
  /\ tail = "off" /\ events = {} /\ burst = {} /\ batch = {}
  /\ paused = FALSE /\ catchUp = FALSE
  /\ queue = <<>> /\ job = Idle
  /\ rows = {} /\ projected = {}
  /\ spent = [what \in DOMAIN Bound |-> 0]

Thread == Start \/ Sweep \/ (\E f \in File : Hear(f)) \/ Settle \/ Submit
Writer == TakeJob \/ \E f \in File : OpenFile(f) \/ StoreLines(f) \/ ProjectRows(f)
Outside == \E f \in File : WriteCell(f) \/ Truncate(f) \/ Exclude(f) \/ FailFile(f)

Next == Thread \/ Writer \/ Outside \/ Pause \/ ResumeCapture \/ SubmitCatchUp \/ Exit

Spec == Init /\ [][Next]_vars

(* The threads run, the login agent or the user starts the application     *)
(* again, and the timer comes round between any two bursts: the loop looks *)
(* at it at every turn, so a sweep that is due is not put off for ever.    *)
Fairness ==
  /\ WF_vars(Start) /\ SF_vars(Sweep) /\ WF_vars(Submit) /\ WF_vars(SubmitCatchUp)
  /\ WF_vars(Writer)

FairSpec == Spec /\ Fairness

-----------------------------------------------------------------------------
(* Properties. *)

Cell == {<<l, i>> : l \in LineId, i \in 1..MaxLen}
Row  == [file : File, offset : 0..MaxLen, text : Seq(Cell)]

\* Every variable keeps its type.
TypeOK ==
  /\ disk \in [File -> Seq(Cell)]
  /\ written \subseteq File \X Seq(Cell)
  /\ excluded \subseteq File
  /\ tail \in {"off", "start", "watching", "submitting"}
  /\ events \subseteq File /\ burst \subseteq File /\ batch \subseteq File
  /\ paused \in BOOLEAN /\ catchUp \in BOOLEAN
  /\ queue \in Seq([all : BOOLEAN, files : SUBSET File]) /\ Len(queue) <= Depth
  /\ job \in [todo : SUBSET File, open : SUBSET File, start : 0..MaxLen,
              stored : BOOLEAN, fresh : SUBSET Row]
  /\ rows \subseteq Row
  /\ projected \subseteq Seq(Cell)
  /\ spent \in [DOMAIN Bound -> Nat]

\* Evidence is whole: what is stored of a file was, word for word, a complete
\* line of that file, never a fragment of one being written.
OnlyWholeLines == \A r \in rows : <<r.file, r.text>> \in written

\* Resuming from an offset skips nothing: every complete line of a file before
\* the place the next pass starts from is held already.
NothingSkipped ==
  \A f \in File : \A l \in ReadFrom(disk[f], 0) : l.offset < Resume(f) => Held(l.text)

\* A line is held once, in whichever files and however often it appears.
OneRowPerLine == \A q, r \in rows : q.text = r.text => q = r

\* The state keeps its shape, the queue its depth, and a line its one row.
TailInv == TypeOK /\ OneRowPerLine

\* Unless a pass was killed or failed between its two transactions, a stored
\* row is projected, or the pass that stored it is about to do so.
StoredIsProjected ==
  spent.exits = 0 /\ spent.faults = 0
    => \A r \in rows : r.text \in projected \/ r \in job.fresh

\* What is stored of a transcript are whole lines of it, each once, resuming skips
\* none, and what is stored is projected (jsonl.rs, backfill.rs, raw.rs).
LinesAreWhole == TailInv /\ OnlyWholeLines /\ NothingSkipped /\ StoredIsProjected

TextOf(l) == [i \in 1..(Size[l] - 1) |-> <<l, i>>]
Complete(f, l) == <<f, TextOf(l)>> \in WholeLines(f, disk[f])

\* No complete line stays in its file and out of the store for good, the last
\* line of a session no event ever tells of included, unless capture is left
\* paused for good or the file is excluded.
Collected ==
  <>[]paused \/ \A f \in File, l \in LineId :
    []<>(Complete(f, l) => Held(TextOf(l)) \/ f \in excluded)
=============================================================================
