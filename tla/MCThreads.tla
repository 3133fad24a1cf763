----------------------------- MODULE MCThreads -----------------------------
(* The two parts that are threads about a queue: the capture queue, and the    *)
(* examination, with the model's worker and the model's file under it. One of  *)
(* these runs and the others stand still: they share no state.                 *)
EXTENDS MCCaptureQueue, MCExamination, ModelAnswers

VARIABLE part

-----------------------------------------------------------------------------
(* Commands that hold markers, cut anywhere; and one that does not fit.        *)

SomeCommands == {<<"a">>, <<"<", "<", "<", "<", "C", ">", ">", ">", ">">>,
             <<"C", "C", ">", ">", ">", "w", "w", "w">>,
             <<"C", ">", ">", ">", "C", ">", ">", ">">>,
             <<"w", "w", "w", "w", "w", "w">>}

-----------------------------------------------------------------------------
(* Headers: a usual one, and one of each sort that is odd or wrong.            *)

STRING_KIND == 8
ARRAY == 9
Str(t, n) == [text |-> t, size |-> n, ok |-> TRUE]
Key(k, n, kind, v, m, inner, items, claims) ==
  [key |-> Str(k, n), kind |-> kind, value |-> Str(v, m), inner |-> inner, items |-> items,
   claims |-> claims]
Scalar(kind) == Key("k", 1, kind, "", 0, 0, 0, 0)
Text(k, v) == Key(k, 4, STRING_KIND, v, 2, 0, 0, 0)
Array(inner, items) == Key("k", 1, ARRAY, "ab", 2, inner, items, items)
H(keys, tensors) == [magic |-> "GGUF", version |-> 3, keys |-> keys, tensors |-> tensors,
                     declared |-> Len(keys)]

Usual == H(<<Text("arch", "gm"), Scalar(3), Array(STRING_KIND, 2), Array(3, 3), Text("name", "ge")>>,
           <<<<2, 3>>, <<4>>>>)
SomeHeaders ==
  {Usual, H(<<Text("arch", "gm"), Key("arch", 4, 4, "", 0, 0, 0, 0), Scalar(12)>>, <<<<>>>>),
   H(<<Text("name", "ge"), Array(6, 2)>>, <<>>), H(<<Scalar(2)>>, <<<<40, 0>>, <<40, 40>>, <<7>>>>),
   H(<<Scalar(13)>>, <<<<1>>>>), H(<<Array(ARRAY, 1)>>, <<<<1>>>>),
   H(<<Key("k", 1, STRING_KIND, "long", 20, 0, 0, 0)>>, <<<<1>>>>),
   H(<<[Text("arch", "gm") EXCEPT !.value.ok = FALSE]>>, <<<<1>>>>),
   H(<<[Array(10, 1) EXCEPT !.claims = 400]>>, <<<<1>>>>),
   H(<<[Array(STRING_KIND, 1) EXCEPT !.claims = 3]>>, <<>>),
   H(<<Text("arch", "gm"), [Array(3, 1) EXCEPT !.claims = 50]>>, <<>>),
   H(<<[Array(3, 1) EXCEPT !.claims = 50]>>, <<<<1>>>>),
   H(<<[Array(3, 3) EXCEPT !.claims = 2], Text("name", "ge")>>, <<<<1>>>>),
   H(<<[Array(3, 4) EXCEPT !.claims = 2]>>, <<>>),
   H(<<>>, <<<<1, 1, 1, 1>>>>),
   [H(<<>>, <<<<1>>>>) EXCEPT !.version = 1], [H(<<>>, <<>>) EXCEPT !.declared = 99],
   [H(<<>>, <<>>) EXCEPT !.magic = "zip"], [H(<<>>, <<>>) EXCEPT !.magic = "what"]}
VARIABLES header, file, cut, pos, stage, index, found, reported
F == INSTANCE ModelFile WITH
  Headers <- SomeHeaders, MaxEntries <- 10, MaxString <- 9, MaxDims <- 3, MaxCount <- 1000,
  outcome <- reported
filevars == <<header, file, cut, pos, stage, index, found, reported>>

-----------------------------------------------------------------------------

-----------------------------------------------------------------------------
(* One part runs and the others stand still. *)

Stands(v) == v = "unused"

ThreadsInit ==
  /\ part \in {"queue", "examination", "answers", "file"}
  /\ Init /\ ExaminationInit /\ AnswersInit
  /\ part # "examination" => course = CHOOSE c \in Courses : TRUE
  /\ IF part = "file" THEN F!ModelFileInit
     ELSE /\ Stands(header) /\ Stands(file) /\ Stands(cut) /\ Stands(pos)
          /\ Stands(stage) /\ Stands(index) /\ Stands(found) /\ Stands(reported)

ThreadsNext ==
  \/ part = "queue" /\ Next /\ UNCHANGED <<part, examinationvars, avars, filevars>>
  \/ part = "examination" /\ ExaminationNext /\ UNCHANGED <<part, vars, avars, filevars>>
  \/ part = "answers" /\ AnswersNext /\ UNCHANGED <<part, vars, examinationvars, filevars>>
  \/ part = "file" /\ F!ModelFileNext /\ UNCHANGED <<part, vars, examinationvars, avars>>

\* The fairness of CaptureQueue and of Examination, each while it runs.
Queueing(B) == part = "queue" /\ B
QueueFairness ==
  /\ WF_vars(Queueing(SealDone)) /\ WF_vars(Queueing(RunJob))
  /\ \A l \in DOMAIN NoLane : WF_vars(Queueing(SubmitBurst(l)))
  /\ \A b \in Batch : WF_vars(Queueing(Handle(b)))
  /\ \A a \in Asker : WF_vars(Queueing(SubmitAsk(a)))

Examining(B) == part = "examination" /\ UNCHANGED course /\ B
ExaminersFair ==
  \A x \in Instance :
    /\ WF_examinationvars(Examining(Loaded(x) \/ LoadFails(x) \/ Installed(x)))
    /\ WF_examinationvars(Examining(LiveThread(x)))
    /\ WF_examinationvars(Examining(BackThread(x)))
    /\ WF_examinationvars(Examining(Worker(x)))

threadsvars == <<part, vars, examinationvars, avars, filevars>>
ThreadsSpec ==
  ThreadsInit /\ [][ThreadsNext]_threadsvars /\ QueueFairness /\ ExaminersFair

-----------------------------------------------------------------------------
(* The property of the model's file; the others are named in the configuration *)
(* as they are.                                                                *)

\* A model's header is reported exactly as it was written or the file is refused,
\* wherever a download ended, but for a last value that is skipped and for lengths
\* that lie, where ModelFile says what is reported instead (of gguf.rs).
WholeOrRefused == part = "file" => F!WholeOrRefused
=============================================================================
