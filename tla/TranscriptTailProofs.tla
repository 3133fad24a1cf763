------------------------ MODULE TranscriptTailProofs ------------------------
(***************************************************************************)
(* What holds of TranscriptTail for every set of files and lines, every    *)
(* depth of the queue and every bound, as long as a file that was cut      *)
(* short does not grow past the offset it was read to.                     *)
(***************************************************************************)
EXTENDS TranscriptTail, Extremes, FiniteSetTheorems, SequenceTheorems, TLAPS

-----------------------------------------------------------------------------
(* The invariant. *)

\* A cell is no further into its line than into its file.
FilesFit == \A f \in File : /\ Len(disk[f]) <= MaxLen
                            /\ \A i \in 1..Len(disk[f]) : disk[f][i][2] <= i

\* What is whole in a file was written.
WholeWritten == \A f \in File : WholeLines(f, disk[f]) \subseteq written

\* The next pass begins where a line does.
BeginsAtLine ==
  \A f \in File : CutShort(f) \/ MaxOffset(f) \in Newlines(disk[f]) \cup {0}

\* One file is open at most, and read from where the store says, or from its
\* beginning while it is cut short.
ReadsOn ==
  /\ job.open = {} => ~job.stored
  /\ ~job.stored => job.fresh = {}
  /\ \A f \in job.open : job.open = {f} /\ f \in job.todo
  /\ \A f \in job.open : \/ job.stored
                         \/ job.start = MaxOffset(f)
                         \/ (job.start = 0 /\ CutShort(f))

Evidence == OneRowPerLine /\ OnlyWholeLines /\ NothingSkipped /\ StoredIsProjected

IInv == TypeOK /\ FilesFit /\ WholeWritten /\ BeginsAtLine /\ ReadsOn /\ Evidence

-----------------------------------------------------------------------------
(* Reading a file. *)

\* d has a line that begins after s, ends at i and is not blank; what is read of
\* it where reading began at from.
LineAt(d, s, i) == [offset |-> s, text |-> SubSeq(d, s + 1, i - 1)]
IsLine(d, from, s, i) ==
  /\ i \in Newlines(d) /\ s \in Newlines(d) \cup {from}
  /\ from <= s /\ s + 1 < i
  /\ \A k \in Newlines(d) : ~(s < k /\ k < i)

\* The offset of a line is the newline before it, or where reading began.
LEMMA StartFound ==
  ASSUME NEW d, NEW from \in Nat, Newlines(d) \subseteq Nat, NEW i \in Ends(d, from)
  PROVE  /\ StartOf(d, from, i) \in Newlines(d) \cup {from}
         /\ from <= StartOf(d, from, i) /\ StartOf(d, from, i) < i
         /\ \A k \in Newlines(d) : ~(StartOf(d, from, i) < k /\ k < i)
<1> DEFINE before == {j \in Newlines(d) : from < j /\ j < i} \cup {from}
<1>0. i \in Nat /\ from < i
  BY DEF Ends
<1>1. before \in SUBSET (0..i) /\ before # {}
  BY <1>0
<1>2. \E m \in before : \A k \in before : k <= m
  BY <1>0, <1>1, HasGreatest
<1>3. StartOf(d, from, i) = CHOOSE m \in before : \A k \in before : k <= m
  BY DEF StartOf
<1> HIDE DEF before
<1>4. /\ StartOf(d, from, i) \in before
      /\ \A k \in before : k <= StartOf(d, from, i)
  BY <1>2, <1>3
<1>5. StartOf(d, from, i) < i /\ from <= StartOf(d, from, i)
  BY <1>0, <1>4, SMT DEF before
<1>6. ASSUME NEW k \in Newlines(d), StartOf(d, from, i) < k, k < i PROVE FALSE
  <2>1. k \in before
    BY <1>5, <1>6, <1>0, <1>4 DEF before
  <2>2. k <= StartOf(d, from, i)
    BY <2>1, <1>4, Zenon
  <2>3. k \in Nat /\ StartOf(d, from, i) \in Nat
    BY <1>4 DEF before
  <2> QED BY <2>2, <2>3, <1>6
<1> QED BY <1>4, <1>5, <1>6 DEF before

\* What is read are the lines that are there, and all of them.
LEMMA LinesRead ==
  ASSUME NEW d, NEW from \in Nat, Newlines(d) \subseteq Nat
  PROVE  /\ \A l \in ReadFrom(d, from) : \E s \in Nat : \E i \in Newlines(d) :
               IsLine(d, from, s, i) /\ l = LineAt(d, s, i)
         /\ \A s \in Nat : \A i \in Newlines(d) :
               IsLine(d, from, s, i) => LineAt(d, s, i) \in ReadFrom(d, from)
<1>1. ASSUME NEW l \in ReadFrom(d, from)
      PROVE  \E s \in Nat : \E i \in Newlines(d) : IsLine(d, from, s, i) /\ l = LineAt(d, s, i)
  <2>1. PICK i \in Ends(d, from) : /\ StartOf(d, from, i) + 1 < i
                                   /\ l = LineAt(d, StartOf(d, from, i), i)
    BY <1>1 DEF ReadFrom, LineAt
  <2>2. i \in Newlines(d)
    BY DEF Ends
  <2>3. IsLine(d, from, StartOf(d, from, i), i) /\ StartOf(d, from, i) \in Nat
    BY <2>1, <2>2, StartFound DEF IsLine
  <2> QED BY <2>1, <2>2, <2>3
<1>2. ASSUME NEW s \in Nat, NEW i \in Newlines(d), IsLine(d, from, s, i)
      PROVE  LineAt(d, s, i) \in ReadFrom(d, from)
  <2>1. i \in Ends(d, from) /\ i \in Nat
    BY <1>2 DEF IsLine, Ends
  <2>2. StartOf(d, from, i) = s
    BY <1>2, <2>1, StartFound DEF IsLine
  <2> QED BY <1>2, <2>1, <2>2 DEF ReadFrom, LineAt, IsLine
<1> QED BY <1>1, <1>2

LEMMA NewlineTypes ==
  ASSUME NEW d \in Seq(Cell)
  PROVE  Newlines(d) \subseteq 1..Len(d)
BY DEF Newlines

\* The text of a line that is read from a newline, or the beginning, is a whole
\* line of the file.
LEMMA LineIsWhole ==
  ASSUME NEW f, NEW d \in Seq(Cell), NEW from \in Newlines(d) \cup {0},
         NEW s \in Nat, NEW i \in Newlines(d), IsLine(d, from, s, i)
  PROVE  <<f, LineAt(d, s, i).text>> \in WholeLines(f, d)
<1>1. s \in Newlines(d) \cup {0} /\ s < i
  BY NewlineTypes DEF IsLine
<1> DEFINE spans == {ij \in (Newlines(d) \cup {0}) \X Newlines(d) :
                       ij[1] < ij[2] /\ \A k \in Newlines(d) : ~(ij[1] < k /\ k < ij[2])}
<1>2. <<s, i>> \in spans
  BY <1>1 DEF IsLine
<1>3. WholeLines(f, d) = {<<f, SubSeq(d, ij[1] + 1, ij[2] - 1)>> : ij \in spans}
  BY DEF WholeLines
<1> HIDE DEF spans
<1>4. <<f, SubSeq(d, <<s, i>>[1] + 1, <<s, i>>[2] - 1)>> \in WholeLines(f, d)
  BY <1>2, <1>3
<1> QED BY <1>4 DEF LineAt

\* A line read from a newline on was there from the beginning of the file, and of
\* those read from the beginning, the ones from the newline on are read from it.
LEMMA LinesFromThere ==
  ASSUME NEW d \in Seq(Cell), NEW from \in Newlines(d) \cup {0},
         NEW s \in Nat, NEW i \in Newlines(d)
  PROVE  IsLine(d, from, s, i) <=> IsLine(d, 0, s, i) /\ from <= s
<1>1. from \in Nat /\ i \in Nat /\ Newlines(d) \subseteq Nat
  BY NewlineTypes
<1>2. ASSUME IsLine(d, from, s, i) PROVE IsLine(d, 0, s, i) /\ from <= s
  BY <1>1, <1>2 DEF IsLine
<1>3. ASSUME IsLine(d, 0, s, i), from <= s PROVE IsLine(d, from, s, i)
  BY <1>1, <1>3 DEF IsLine
<1> QED BY <1>2, <1>3

LEMMA TextTypes ==
  ASSUME NEW d \in Seq(Cell), NEW a \in Nat \ {0}, NEW b \in Nat, b <= Len(d)
  PROVE  /\ SubSeq(d, a, b) \in Seq(Cell)
         /\ Len(SubSeq(d, a, b)) = IF a <= b THEN b - a + 1 ELSE 0
         /\ \A i \in 1..(b - a + 1) : SubSeq(d, a, b)[i] = d[a + i - 1]
<1>1. \A i \in a..b : d[i] \in Cell
  BY ElementOfSeq, LenProperties
<1>2. a \in Int /\ b \in Int
  OBVIOUS
<1>3. SubSeq(d, a, b) \in Seq(Cell)
  BY <1>1, <1>2, SubSeqProperties
<1>4. Len(SubSeq(d, a, b)) = IF a <= b THEN b - a + 1 ELSE 0
  BY <1>1, <1>2, SubSeqProperties
<1>5. \A i \in 1..(b - a + 1) : SubSeq(d, a, b)[i] = d[a + i - 1]
  BY <1>1, <1>2, SubSeqProperties
<1> QED BY <1>3, <1>4, <1>5

LEMMA WholeTypes ==
  ASSUME NEW f \in File, NEW d \in Seq(Cell)
  PROVE  WholeLines(f, d) \subseteq File \X Seq(Cell)
<1> DEFINE spans == {ij \in (Newlines(d) \cup {0}) \X Newlines(d) :
                       ij[1] < ij[2] /\ \A k \in Newlines(d) : ~(ij[1] < k /\ k < ij[2])}
<1>1. ASSUME NEW ij \in spans PROVE SubSeq(d, ij[1] + 1, ij[2] - 1) \in Seq(Cell)
  <2>1. ij[1] \in 0..Len(d) /\ ij[2] \in 1..Len(d) /\ Len(d) \in Nat
    BY NewlineTypes, LenProperties
  <2>2. ij[1] + 1 \in Nat \ {0} /\ ij[2] - 1 \in Nat /\ ij[2] - 1 <= Len(d)
    BY <2>1
  <2> QED BY <2>2, TextTypes
<1>2. WholeLines(f, d) = {<<f, SubSeq(d, ij[1] + 1, ij[2] - 1)>> : ij \in spans}
  BY DEF WholeLines
<1> HIDE DEF spans
<1>3. ASSUME NEW w \in WholeLines(f, d) PROVE w \in File \X Seq(Cell)
  <2>1. PICK ij \in spans : w = <<f, SubSeq(d, ij[1] + 1, ij[2] - 1)>>
    BY <1>2
  <2> QED BY <1>1, <2>1
<1> QED BY <1>3

LEMMA LineTypes ==
  ASSUME NEW d \in Seq(Cell), NEW from \in Nat, NEW s \in Nat, NEW i \in Newlines(d),
         IsLine(d, from, s, i)
  PROVE  /\ LineAt(d, s, i).text \in Seq(Cell)
         /\ s < i /\ i <= Len(d) /\ s < Len(d)
<1>1. i \in 1..Len(d) /\ Len(d) \in Nat /\ s + 1 < i
  BY NewlineTypes, LenProperties DEF IsLine
<1>2. s + 1 \in Nat \ {0} /\ i - 1 \in Nat /\ i - 1 <= Len(d)
  BY <1>1
<1>3. SubSeq(d, s + 1, i - 1) \in Seq(Cell)
  BY <1>2, TextTypes
<1> QED BY <1>1, <1>3 DEF LineAt

-----------------------------------------------------------------------------
(* A file that grows, or is cut short: d is how the longer e begins.           *)

Begins(d, e) == /\ d \in Seq(Cell) /\ e \in Seq(Cell) /\ Len(d) <= Len(e)
                /\ \A i \in 1..Len(d) : e[i] = d[i]

LEMMA BeginsNewlines ==
  ASSUME NEW d, NEW e, Begins(d, e)
  PROVE  Newlines(d) = {i \in Newlines(e) : i <= Len(d)}
<1>1. DOMAIN d = 1..Len(d) /\ DOMAIN e = 1..Len(e) /\ Len(d) \in Nat /\ Len(e) \in Nat
  BY LenProperties DEF Begins
<1>2. Len(d) <= Len(e) /\ \A i \in 1..Len(d) : e[i] = d[i]
  BY DEF Begins
<1> QED BY <1>1, <1>2 DEF Newlines, IsNewline

LEMMA BeginsTexts ==
  ASSUME NEW d, NEW e, Begins(d, e), NEW a \in Nat \ {0}, NEW b \in Nat, b <= Len(d)
  PROVE  SubSeq(d, a, b) = SubSeq(e, a, b)
<1>1. /\ d \in Seq(Cell) /\ e \in Seq(Cell) /\ b <= Len(e)
      /\ Len(d) \in Nat /\ Len(e) \in Nat
  BY LenProperties DEF Begins
<1>2. /\ SubSeq(d, a, b) \in Seq(Cell) /\ SubSeq(e, a, b) \in Seq(Cell)
      /\ Len(SubSeq(d, a, b)) = Len(SubSeq(e, a, b))
      /\ Len(SubSeq(d, a, b)) = IF a <= b THEN b - a + 1 ELSE 0
      /\ \A i \in 1..(b - a + 1) : SubSeq(d, a, b)[i] = d[a + i - 1]
      /\ \A i \in 1..(b - a + 1) : SubSeq(e, a, b)[i] = e[a + i - 1]
  BY <1>1, TextTypes
<1>3. \A i \in 1..(b - a + 1) : a + i - 1 \in 1..Len(d)
  BY <1>1
<1>4. \A i \in 1..Len(SubSeq(d, a, b)) : SubSeq(d, a, b)[i] = SubSeq(e, a, b)[i]
  BY <1>2, <1>3 DEF Begins
<1> QED BY <1>2, <1>4, SeqEqual

LEMMA BeginsWhole ==
  ASSUME NEW d, NEW e, Begins(d, e), NEW f
  PROVE  WholeLines(f, d) \subseteq WholeLines(f, e)
<1> DEFINE spans(x) == {ij \in (Newlines(x) \cup {0}) \X Newlines(x) :
                       ij[1] < ij[2] /\ \A k \in Newlines(x) : ~(ij[1] < k /\ k < ij[2])}
<1>0. \A x : WholeLines(f, x) = {<<f, SubSeq(x, ij[1] + 1, ij[2] - 1)>> : ij \in spans(x)}
  BY DEF WholeLines
<1>1. /\ d \in Seq(Cell) /\ e \in Seq(Cell) /\ Len(d) \in Nat
      /\ Newlines(d) = {i \in Newlines(e) : i <= Len(d)}
      /\ Newlines(d) \subseteq 1..Len(d) /\ Newlines(e) \subseteq Nat
  BY BeginsNewlines, NewlineTypes, LenProperties DEF Begins
<1>2. ASSUME NEW ij \in spans(d)
      PROVE  ij \in spans(e) /\ SubSeq(d, ij[1] + 1, ij[2] - 1) = SubSeq(e, ij[1] + 1, ij[2] - 1)
  <2>1. ij[1] \in 0..Len(d) /\ ij[2] \in 1..Len(d)
    BY <1>1
  <2>2. ij \in spans(e)
    BY <1>1, <2>1
  <2>3. ij[1] + 1 \in Nat \ {0} /\ ij[2] - 1 \in Nat /\ ij[2] - 1 <= Len(d)
    BY <1>1, <2>1
  <2> HIDE DEF spans
  <2> QED BY <2>2, <2>3, BeginsTexts
<1> HIDE DEF spans
<1>3. \A ij \in spans(d) : /\ ij \in spans(e)
                           /\ SubSeq(d, ij[1] + 1, ij[2] - 1) = SubSeq(e, ij[1] + 1, ij[2] - 1)
  BY <1>2
<1>4. ASSUME NEW w \in WholeLines(f, d) PROVE w \in WholeLines(f, e)
  <2>1. PICK ij \in spans(d) : w = <<f, SubSeq(d, ij[1] + 1, ij[2] - 1)>>
    BY <1>0
  <2>2. ij \in spans(e) /\ w = <<f, SubSeq(e, ij[1] + 1, ij[2] - 1)>>
    BY <1>3, <2>1
  <2> QED BY <1>0, <2>2
<1> QED BY <1>4

LEMMA BeginsLines ==
  ASSUME NEW d, NEW e, Begins(d, e), NEW s \in Nat, NEW i \in Newlines(e), i <= Len(d)
  PROVE  /\ i \in Newlines(d)
         /\ IsLine(d, 0, s, i) <=> IsLine(e, 0, s, i)
         /\ IsLine(d, 0, s, i) => LineAt(d, s, i) = LineAt(e, s, i)
<1>1. /\ d \in Seq(Cell) /\ e \in Seq(Cell) /\ Len(d) \in Nat
      /\ Newlines(d) = {k \in Newlines(e) : k <= Len(d)}
      /\ Newlines(d) \subseteq 1..Len(d) /\ Newlines(e) \subseteq Nat
  BY BeginsNewlines, NewlineTypes, LenProperties DEF Begins
<1>2. IsLine(d, 0, s, i) <=> IsLine(e, 0, s, i)
  BY <1>1 DEF IsLine
<1>3. ASSUME IsLine(d, 0, s, i) PROVE LineAt(d, s, i) = LineAt(e, s, i)
  <2>1. s + 1 \in Nat \ {0} /\ i - 1 \in Nat /\ i - 1 <= Len(d)
    BY <1>1, <1>3 DEF IsLine
  <2>2. SubSeq(d, s + 1, i - 1) = SubSeq(e, s + 1, i - 1)
    BY <2>1, BeginsTexts
  <2> QED BY <2>2 DEF LineAt
<1> QED BY <1>1, <1>2, <1>3

-----------------------------------------------------------------------------
(* What the store answers. *)

LEMMA Bounds ==
  /\ MaxLen \in Nat /\ MaxCuts \in Nat /\ MaxExits \in Nat /\ MaxPauses \in Nat
  /\ MaxFaults \in Nat /\ MaxTroubles \in Nat
BY TailAssumption

\* MaxOffset is what it says, for whatever rows.
MaxOf(rs, f) ==
  LET offsets == {r.offset : r \in {q \in rs : q.file = f}} \cup {0}
  IN CHOOSE o \in offsets : \A p \in offsets : p <= o

LEMMA MaxIs ==
  ASSUME NEW rs \in SUBSET Row, NEW f
  PROVE  /\ MaxOf(rs, f) \in 0..MaxLen
         /\ \A r \in rs : r.file = f => r.offset <= MaxOf(rs, f)
         /\ MaxOf(rs, f) = 0 \/ \E r \in rs : r.file = f /\ r.offset = MaxOf(rs, f)
<1> DEFINE offsets == {r.offset : r \in {q \in rs : q.file = f}} \cup {0}
<1>1. offsets \in SUBSET (0..MaxLen) /\ offsets # {}
  BY Bounds DEF Row
<1>2. \E m \in offsets : \A k \in offsets : k <= m
  BY <1>1, Bounds, HasGreatest
<1>3. MaxOf(rs, f) = CHOOSE m \in offsets : \A k \in offsets : k <= m
  BY DEF MaxOf
<1> HIDE DEF offsets
<1>4. MaxOf(rs, f) \in offsets /\ \A k \in offsets : k <= MaxOf(rs, f)
  BY <1>2, <1>3
<1> QED BY <1>1, <1>4 DEF offsets

LEMMA MaxOffsetOf == \A f : MaxOffset(f) = MaxOf(rows, f)
BY DEF MaxOffset, MaxOf

LEMMA ResumeTypes ==
  ASSUME TypeOK, NEW f \in File
  PROVE  /\ MaxOffset(f) \in 0..MaxLen /\ Resume(f) \in 0..MaxLen
         /\ Len(disk[f]) \in Nat
<1>1. rows \in SUBSET Row /\ disk[f] \in Seq(Cell)
  BY DEF TypeOK
<1>2. MaxOffset(f) \in 0..MaxLen
  BY <1>1, MaxIs, MaxOffsetOf
<1> QED BY <1>1, <1>2, Bounds, LenProperties DEF Resume

\* A row made of a line says where it is and what it says; of lines of one text
\* one becomes a row; and what is read is held before, or by a new row.
LEMMA NewRowsAre ==
  ASSUME TypeOK, FilesFit, NEW f \in File, NEW from \in Nat,
         NEW new, new = NewRows(f, ReadFrom(disk[f], from))
  PROVE  /\ \A q \in new : /\ q \in Row /\ q.file = f /\ ~Held(q.text)
                           /\ \E i \in Newlines(disk[f]) :
                                /\ IsLine(disk[f], from, q.offset, i)
                                /\ q.text = LineAt(disk[f], q.offset, i).text
                           /\ q.offset < Len(disk[f])
         /\ \A p, q \in new : p.text = q.text => p = q
         /\ \A l \in ReadFrom(disk[f], from) :
              Held(l.text) \/ \E q \in new : q.text = l.text
<1> DEFINE d == disk[f]
           lines == ReadFrom(d, from)
<1>0. d \in Seq(Cell) /\ Len(d) \in Nat /\ Len(d) <= MaxLen /\ Newlines(d) \subseteq Nat
  BY LenProperties, NewlineTypes DEF TypeOK, FilesFit
<1>1. \A l \in lines : /\ l.text \in Seq(Cell) /\ l.offset \in Nat /\ l.offset < Len(d)
                       /\ \E i \in Newlines(d) : /\ IsLine(d, from, l.offset, i)
                                                 /\ l = LineAt(d, l.offset, i)
  <2> SUFFICES ASSUME NEW l \in lines
               PROVE  /\ l.text \in Seq(Cell) /\ l.offset \in Nat /\ l.offset < Len(d)
                      /\ \E i \in Newlines(d) : /\ IsLine(d, from, l.offset, i)
                                                /\ l = LineAt(d, l.offset, i)
    OBVIOUS
  <2> HIDE DEF d
  <2>1. PICK s \in Nat, i \in Newlines(d) : IsLine(d, from, s, i) /\ l = LineAt(d, s, i)
    BY <1>0, LinesRead
  <2>2. l.offset = s
    BY <2>1 DEF LineAt
  <2> QED BY <1>0, <2>1, <2>2, LineTypes
<1> DEFINE Chosen(k) == ~Held(k.text) /\ \A o \in lines : o.text = k.text => k.offset <= o.offset
           made(l) == [file |-> f, offset |-> l.offset, text |-> l.text]
<1>2. new = {made(l) : l \in {k \in lines : Chosen(k)}}
  BY DEF NewRows
<1> HIDE DEF d, lines
<1>3. \A q \in new : \E l \in lines : Chosen(l) /\ q = made(l)
  BY <1>2
<1>4. ASSUME NEW q \in new
      PROVE  /\ q \in Row /\ q.file = f /\ ~Held(q.text) /\ q.offset < Len(d)
             /\ \E i \in Newlines(d) : /\ IsLine(d, from, q.offset, i)
                                       /\ q.text = LineAt(d, q.offset, i).text
  <2>1. PICK l \in lines : Chosen(l) /\ q = made(l)
    BY <1>3
  <2>2. PICK i \in Newlines(d) : IsLine(d, from, l.offset, i) /\ l = LineAt(d, l.offset, i)
    BY <1>1
  <2>3. q.file = f /\ q.offset = l.offset /\ q.text = l.text /\ ~Held(q.text)
    BY <2>1
  <2>4. q \in Row
    BY <1>0, <1>1, <2>1, Bounds DEF Row
  <2> QED BY <1>1, <2>2, <2>3, <2>4
<1>5. ASSUME NEW p \in new, NEW q \in new, p.text = q.text PROVE p = q
  <2>1. PICK k \in lines : Chosen(k) /\ p = made(k)
    BY <1>3
  <2>2. PICK l \in lines : Chosen(l) /\ q = made(l)
    BY <1>3
  <2>3. k.text = l.text
    BY <1>5, <2>1, <2>2
  <2>4. k.offset <= l.offset /\ l.offset <= k.offset
    BY <2>1, <2>2, <2>3
  <2>5. k.offset = l.offset
    BY <1>1, <2>4
  <2> QED BY <2>1, <2>2, <2>3, <2>5
<1>6. ASSUME NEW l \in lines, ~Held(l.text) PROVE \E q \in new : q.text = l.text
  <2> DEFINE offsets == {o.offset : o \in {k \in lines : k.text = l.text}}
  <2>1. offsets \in SUBSET (0..Len(d)) /\ offsets # {}
    BY <1>0, <1>1
  <2>2. PICK m \in offsets : \A k \in offsets : m <= k
    BY <1>0, <2>1, HasLeast
  <2>3. PICK k \in lines : k.text = l.text /\ k.offset = m
    BY <2>2
  <2>4. Chosen(k)
    BY <1>6, <2>2, <2>3
  <2>5. made(k) \in new /\ made(k).text = l.text
    BY <1>2, <2>3, <2>4
  <2> QED BY <2>5
<1> QED BY <1>4, <1>5, <1>6 DEF d, lines

-----------------------------------------------------------------------------
(* The steps of Claude Code: what they do to a file. *)

LEMMA WriteGrows ==
  ASSUME TypeOK, FilesFit, NEW f \in File, WriteCell(f)
  PROVE  /\ disk' \in [File -> Seq(Cell)] /\ FilesFit'
         /\ Begins(disk[f], disk'[f]) /\ Len(disk'[f]) = Len(disk[f]) + 1
         /\ \A g \in File : g # f => disk'[g] = disk[g]
<1> DEFINE d == disk[f]
<1>0. /\ disk \in [File -> Seq(Cell)] /\ d \in Seq(Cell) /\ Len(d) \in Nat /\ Len(d) < MaxLen
      /\ \A i \in 1..Len(d) : d[i] \in Cell /\ d[i][2] <= i
  BY LenProperties, ElementOfSeq DEF TypeOK, FilesFit, WriteCell
<1>1. PICK c \in NextCells(d) : disk' = [disk EXCEPT ![f] = Append(d, c)]
  BY DEF WriteCell
<1>2. c \in Cell /\ c[2] <= Len(d) + 1
  <2>1. CASE d # <<>> /\ ~IsNewline(d[Len(d)])
    <3>1. Len(d) \in 1..Len(d)
      BY <1>0, <2>1, EmptySeq
    <3>2. PICK l \in LineId, i \in 1..MaxLen : d[Len(d)] = <<l, i>> /\ i <= Len(d)
      BY <1>0, <3>1 DEF Cell
    <3>3. c = <<l, i + 1>>
      BY <1>1, <2>1, <3>2 DEF NextCells
    <3>4. i + 1 \in 1..MaxLen
      BY <1>0, <3>2, Bounds
    <3> QED BY <1>0, <3>2, <3>3, <3>4 DEF Cell
  <2>2. CASE ~(d # <<>> /\ ~IsNewline(d[Len(d)]))
    <3>1. PICK l \in LineId : c = <<l, 1>>
      BY <1>1, <2>2 DEF NextCells
    <3> QED BY <1>0, <3>1, Bounds DEF Cell
  <2> QED BY <2>1, <2>2
<1>3. /\ Append(d, c) \in Seq(Cell) /\ Len(Append(d, c)) = Len(d) + 1
      /\ Append(d, c)[Len(d) + 1] = c
      /\ \A i \in 1..Len(d) : Append(d, c)[i] = d[i]
  BY <1>0, <1>2, AppendProperties
<1>4. /\ disk' \in [File -> Seq(Cell)] /\ disk'[f] = Append(d, c)
      /\ \A g \in File : g # f => disk'[g] = disk[g]
  BY <1>0, <1>1, <1>3
<1>5. Begins(d, disk'[f])
  BY <1>0, <1>3, <1>4 DEF Begins
<1>6. ASSUME NEW g \in File
      PROVE  Len(disk'[g]) <= MaxLen /\ \A i \in 1..Len(disk'[g]) : disk'[g][i][2] <= i
  <2>1. CASE g = f
    <3>1. Len(disk'[g]) = Len(d) + 1 /\ Len(d) + 1 <= MaxLen
      BY <1>0, <1>3, <1>4, <2>1, Bounds
    <3>2. ASSUME NEW i \in 1..Len(disk'[g]) PROVE disk'[g][i][2] <= i
      <4>1. i \in 1..Len(d) \/ i = Len(d) + 1
        BY <1>0, <3>1
      <4>2. CASE i \in 1..Len(d)
        BY <1>0, <1>3, <1>4, <2>1, <4>2
      <4>3. CASE i = Len(d) + 1
        BY <1>2, <1>3, <1>4, <2>1, <4>3
      <4> QED BY <4>1, <4>2, <4>3
    <3> QED BY <3>1, <3>2
  <2>2. CASE g # f
    BY <1>4, <2>2 DEF FilesFit
  <2> QED BY <2>1, <2>2
<1> QED BY <1>3, <1>4, <1>5, <1>6 DEF FilesFit

LEMMA TruncateCuts ==
  ASSUME TypeOK, FilesFit, NEW f \in File, Truncate(f)
  PROVE  /\ disk' \in [File -> Seq(Cell)] /\ FilesFit'
         /\ Begins(disk'[f], disk[f])
         /\ \A g \in File : g # f => disk'[g] = disk[g]
<1> DEFINE d == disk[f]
<1>0. disk \in [File -> Seq(Cell)] /\ d \in Seq(Cell) /\ Len(d) \in Nat
  BY LenProperties DEF TypeOK
<1>1. PICK n \in 0..(Len(d) - 1) : disk' = [disk EXCEPT ![f] = SubSeq(d, 1, n)]
  BY DEF Truncate
<1>2. n \in Nat /\ n <= Len(d)
  BY <1>0, <1>1
<1>3. /\ SubSeq(d, 1, n) \in Seq(Cell) /\ Len(SubSeq(d, 1, n)) = n
      /\ \A i \in 1..n : SubSeq(d, 1, n)[i] = d[i]
  <2>1. /\ SubSeq(d, 1, n) \in Seq(Cell)
        /\ Len(SubSeq(d, 1, n)) = IF 1 <= n THEN n - 1 + 1 ELSE 0
        /\ \A i \in 1..(n - 1 + 1) : SubSeq(d, 1, n)[i] = d[1 + i - 1]
    BY <1>0, <1>2, TextTypes
  <2>2. \A i \in 1..n : 1 + i - 1 = i
    OBVIOUS
  <2>3. n - 1 + 1 = n /\ (IF 1 <= n THEN n - 1 + 1 ELSE 0) = n
    BY <1>2
  <2> QED BY <2>1, <2>2, <2>3
<1>4. /\ disk' \in [File -> Seq(Cell)] /\ disk'[f] = SubSeq(d, 1, n)
      /\ \A g \in File : g # f => disk'[g] = disk[g]
  BY <1>0, <1>1, <1>3
<1>5. Begins(disk'[f], d)
  BY <1>0, <1>2, <1>3, <1>4 DEF Begins
<1>6. ASSUME NEW g \in File
      PROVE  Len(disk'[g]) <= MaxLen /\ \A i \in 1..Len(disk'[g]) : disk'[g][i][2] <= i
  <2>1. CASE g = f
    BY <1>0, <1>2, <1>3, <1>4, <2>1, Bounds DEF FilesFit
  <2>2. CASE g # f
    BY <1>4, <2>2 DEF FilesFit
  <2> QED BY <2>1, <2>2
<1> QED BY <1>4, <1>5, <1>6 DEF FilesFit

-----------------------------------------------------------------------------
(* Types. *)

Task == [all : BOOLEAN, files : SUBSET File]

LEMMA SpendTypes ==
  ASSUME TypeOK, NEW what \in DOMAIN Bound, Spend(what)
  PROVE  spent' \in [DOMAIN Bound -> Nat]
BY DEF TypeOK, Spend

LEMMA BoundKinds == DOMAIN Bound = {"cuts", "exits", "pauses", "faults", "excludes"}
BY DEF Bound

\* The typing that a step of the thread, the user or the queue leaves to the others.
FilesTyped == /\ disk \in [File -> Seq(Cell)] /\ written \subseteq File \X Seq(Cell)
              /\ excluded \subseteq File
ThreadTyped == /\ tail \in {"off", "start", "watching", "submitting"}
               /\ events \subseteq File /\ burst \subseteq File /\ batch \subseteq File
               /\ paused \in BOOLEAN /\ catchUp \in BOOLEAN
QueueTyped == queue \in Seq(Task) /\ Len(queue) <= Depth
JobTyped == job \in [todo : SUBSET File, open : SUBSET File, start : 0..MaxLen,
                     stored : BOOLEAN, fresh : SUBSET Row]
StoreTyped == rows \subseteq Row /\ projected \subseteq Seq(Cell)
SpentTyped == spent \in [DOMAIN Bound -> Nat]

LEMMA Typed ==
  TypeOK <=> FilesTyped /\ ThreadTyped /\ QueueTyped /\ JobTyped /\ StoreTyped /\ SpentTyped
BY DEF TypeOK, FilesTyped, ThreadTyped, QueueTyped, JobTyped, StoreTyped, SpentTyped, Task

LEMMA IdleTyped == Idle \in [todo : SUBSET File, open : SUBSET File, start : 0..MaxLen,
                             stored : BOOLEAN, fresh : SUBSET Row]
BY Bounds DEF Idle

LEMMA FilesTypedNext == TypeOK /\ FilesFit /\ [Next]_vars => FilesTyped' /\ FilesFit'
<1> SUFFICES ASSUME TypeOK, FilesFit, [Next]_vars PROVE FilesTyped' /\ FilesFit'
  OBVIOUS
<1>0. FilesTyped
  BY Typed
<1>1. ASSUME NEW f \in File, WriteCell(f) PROVE FilesTyped' /\ FilesFit'
  <2>1. disk' \in [File -> Seq(Cell)] /\ FilesFit' /\ disk'[f] \in Seq(Cell)
    BY <1>1, WriteGrows
  <2>2. written' = written \cup WholeLines(f, disk'[f]) /\ excluded' = excluded
    BY <1>1 DEF WriteCell
  <2>3. WholeLines(f, disk'[f]) \subseteq File \X Seq(Cell)
    BY <2>1, WholeTypes
  <2> QED BY <1>0, <2>1, <2>2, <2>3 DEF FilesTyped
<1>2. ASSUME NEW f \in File, Truncate(f) PROVE FilesTyped' /\ FilesFit'
  BY <1>0, <1>2, TruncateCuts DEF FilesTyped, Truncate
<1>3. ASSUME NEW f \in File, Exclude(f) PROVE FilesTyped' /\ FilesFit'
  BY <1>0, <1>3, TailAssumption DEF FilesTyped, FilesFit, Exclude
<1>4. ASSUME UNCHANGED user PROVE FilesTyped' /\ FilesFit'
  BY <1>0, <1>4 DEF FilesTyped, FilesFit, user
<1>5. (\E f \in File : WriteCell(f) \/ Truncate(f) \/ Exclude(f)) \/ UNCHANGED user
  BY DEF Next, vars, user, Thread, Writer, Outside, Start, Sweep, Hear, Settle, Submit,
         TakeJob, OpenFile, StoreLines, ProjectRows, FailFile, Pause, ResumeCapture,
         SubmitCatchUp, Exit
<1> QED BY <1>1, <1>2, <1>3, <1>4, <1>5

LEMMA ThreadTypedNext == TypeOK /\ [Next]_vars => ThreadTyped'
<1> SUFFICES ASSUME TypeOK, [Next]_vars PROVE ThreadTyped'
  OBVIOUS
<1>0. ThreadTyped /\ FilesTyped
  BY Typed
<1>1. ASSUME NEW f \in File, Told(f), UNCHANGED <<tail, burst, batch, paused, catchUp>>
      PROVE  ThreadTyped'
  BY <1>0, <1>1 DEF ThreadTyped, Told
<1>2. ASSUME NEW f \in File, WriteCell(f) \/ Truncate(f) PROVE ThreadTyped'
  BY <1>1, <1>2 DEF WriteCell, Truncate
<1>3. ASSUME UNCHANGED <<thread, paused, catchUp>> PROVE ThreadTyped'
  BY <1>0, <1>3 DEF ThreadTyped, thread
<1>4. CASE Start
  BY <1>0, <1>4 DEF ThreadTyped, Start
<1>5. CASE Sweep
  BY <1>0, <1>5 DEF ThreadTyped, Sweep, OnBatch, Visible
<1>6. ASSUME NEW f \in File, Hear(f) PROVE ThreadTyped'
  BY <1>0, <1>6 DEF ThreadTyped, Hear
<1>7. CASE Settle
  BY <1>0, <1>7 DEF ThreadTyped, Settle, OnBatch
<1>8. CASE Submit
  BY <1>0, <1>8 DEF ThreadTyped, Submit
<1>9. CASE Pause \/ ResumeCapture \/ SubmitCatchUp
  BY <1>0, <1>9 DEF ThreadTyped, Pause, ResumeCapture, SubmitCatchUp, thread
<1>10. CASE Exit
  BY <1>0, <1>10 DEF ThreadTyped, Exit
<1>11. CASE Writer \/ (\E f \in File : Exclude(f) \/ FailFile(f)) \/ UNCHANGED vars
  BY <1>3, <1>11 DEF Writer, TakeJob, OpenFile, StoreLines, ProjectRows, FailFile, Exclude,
                     vars, thread
<1> QED BY <1>2, <1>4, <1>5, <1>6, <1>7, <1>8, <1>9, <1>10, <1>11 DEF Next, Thread, Outside

LEMMA QueueTypedNext == TypeOK /\ [Next]_vars => QueueTyped'
<1> SUFFICES ASSUME TypeOK, [Next]_vars PROVE QueueTyped'
  OBVIOUS
<1>0. /\ queue \in Seq(Task) /\ Len(queue) \in Nat /\ Len(queue) <= Depth
      /\ Depth \in Nat /\ batch \subseteq File
  BY Typed, LenProperties, TailAssumption DEF QueueTyped, ThreadTyped
<1>1. ASSUME NEW t \in Task, Room, queue' = Append(queue, t) PROVE QueueTyped'
  BY <1>0, <1>1, AppendProperties DEF QueueTyped, Room
<1>2. CASE Submit
  <2>1. [all |-> FALSE, files |-> batch] \in Task
    BY <1>0 DEF Task
  <2> QED BY <1>1, <1>2, <2>1 DEF Submit
<1>3. CASE SubmitCatchUp
  <2>1. [all |-> TRUE, files |-> {}] \in Task
    BY DEF Task
  <2> QED BY <1>1, <1>3, <2>1 DEF SubmitCatchUp
<1>4. CASE TakeJob
  BY <1>0, <1>4, HeadTailProperties DEF QueueTyped, TakeJob
<1>5. CASE Exit
  BY <1>0, <1>5, EmptySeq DEF QueueTyped, Exit
<1>6. CASE UNCHANGED queue
  BY <1>0, <1>6 DEF QueueTyped
<1>7. Submit \/ SubmitCatchUp \/ TakeJob \/ Exit \/ UNCHANGED queue
  BY DEF Next, vars, Thread, Writer, Outside, Start, Sweep, Hear, Settle, OpenFile,
         StoreLines, ProjectRows, WriteCell, Truncate, Exclude, FailFile, Pause, ResumeCapture
<1> QED BY <1>2, <1>3, <1>4, <1>5, <1>6, <1>7

LEMMA JobTypedNext == TypeOK /\ FilesFit /\ [Next]_vars => JobTyped'
<1> SUFFICES ASSUME TypeOK, FilesFit, [Next]_vars PROVE JobTyped'
  OBVIOUS
<1> DEFINE Jobs == [todo : SUBSET File, open : SUBSET File, start : 0..MaxLen,
                    stored : BOOLEAN, fresh : SUBSET Row]
<1>0. job \in Jobs /\ queue \in Seq(Task) /\ Idle \in Jobs
  BY Typed, IdleTyped DEF JobTyped, QueueTyped
<1>1. CASE TakeJob
  <2>1. Head(queue) \in Task
    BY <1>0, <1>1, HeadTailProperties DEF TakeJob
  <2>2. PICK files \in SUBSET File : job' = [Idle EXCEPT !.todo = files]
    BY <1>1, <2>1 DEF TakeJob, Task, Visible
  <2> QED BY <1>0, <2>2 DEF JobTyped
<1>2. ASSUME NEW f \in File, OpenFile(f) PROVE JobTyped'
  <2>1. Resume(f) \in 0..MaxLen
    BY ResumeTypes
  <2> QED BY <1>0, <1>2, <2>1 DEF JobTyped, OpenFile
<1>3. ASSUME NEW f \in File, StoreLines(f) PROVE JobTyped'
  <2> DEFINE new == NewRows(f, ReadFrom(disk[f], job.start))
  <2>1. new \subseteq Row
    BY <1>0, NewRowsAre
  <2>2. job' = [job EXCEPT !.stored = TRUE, !.fresh = new]
    BY <1>3 DEF StoreLines
  <2> HIDE DEF new
  <2> QED BY <1>0, <2>1, <2>2 DEF JobTyped
<1>4. ASSUME NEW f, NextFile(f) PROVE JobTyped'
  BY <1>0, <1>4 DEF JobTyped, NextFile
<1>5. CASE Exit
  BY <1>0, <1>5 DEF JobTyped, Exit
<1>6. CASE UNCHANGED job
  BY <1>0, <1>6 DEF JobTyped
<1>7. \/ TakeJob \/ Exit \/ UNCHANGED job
      \/ \E f \in File : OpenFile(f) \/ StoreLines(f) \/ NextFile(f)
  BY DEF Next, vars, Thread, Writer, Outside, Start, Sweep, Hear, Settle, Submit, ProjectRows,
         WriteCell, Truncate, Exclude, FailFile, Pause, ResumeCapture, SubmitCatchUp
<1> QED BY <1>1, <1>2, <1>3, <1>4, <1>5, <1>6, <1>7

LEMMA StoreTypedNext == TypeOK /\ FilesFit /\ [Next]_vars => StoreTyped' /\ SpentTyped'
<1> SUFFICES ASSUME TypeOK, FilesFit, [Next]_vars PROVE StoreTyped' /\ SpentTyped'
  OBVIOUS
<1>0. StoreTyped /\ JobTyped /\ SpentTyped
  BY Typed
<1>1. StoreTyped'
  <2>1. ASSUME NEW f \in File, StoreLines(f) PROVE StoreTyped'
    <3> DEFINE new == NewRows(f, ReadFrom(disk[f], job.start))
    <3>1. new \subseteq Row
      BY <1>0, NewRowsAre DEF JobTyped
    <3>2. rows' = rows \cup new /\ projected' = projected
      BY <2>1 DEF StoreLines
    <3> HIDE DEF new
    <3> QED BY <1>0, <3>1, <3>2 DEF StoreTyped
  <2>2. ASSUME NEW f \in File, ProjectRows(f) PROVE StoreTyped'
    <3>1. \A r \in job.fresh : r.text \in Seq(Cell)
      BY <1>0 DEF JobTyped, Row
    <3> QED BY <1>0, <2>2, <3>1 DEF StoreTyped, ProjectRows
  <2>3. CASE UNCHANGED store
    BY <1>0, <2>3 DEF StoreTyped, store
  <2>4. (\E f \in File : StoreLines(f) \/ ProjectRows(f)) \/ UNCHANGED store
    BY DEF Next, vars, store, Thread, Writer, Outside, Start, Sweep, Hear, Settle, Submit,
           TakeJob, OpenFile, WriteCell, Truncate, Exclude, FailFile, Pause, ResumeCapture,
           SubmitCatchUp, Exit
  <2> QED BY <2>1, <2>2, <2>3, <2>4
<1>2. SpentTyped'
  <2>1. (\E what \in DOMAIN Bound : Spend(what)) \/ UNCHANGED spent
    BY BoundKinds DEF Next, vars, Thread, Writer, Outside, Start, Sweep, Hear, Settle, Submit,
           TakeJob, OpenFile, StoreLines, ProjectRows, WriteCell, Truncate, Exclude, FailFile,
           Pause, ResumeCapture, SubmitCatchUp, Exit
  <2> QED BY <1>0, <2>1, SpendTypes DEF SpentTyped
<1> QED BY <1>1, <1>2

LEMMA TypeNext == TypeOK /\ FilesFit /\ [Next]_vars => TypeOK' /\ FilesFit'
<1> SUFFICES ASSUME TypeOK, FilesFit, [Next]_vars PROVE TypeOK' /\ FilesFit'
  OBVIOUS
<1>1. /\ FilesTyped' /\ ThreadTyped' /\ QueueTyped' /\ JobTyped' /\ StoreTyped' /\ SpentTyped'
      /\ FilesFit'
  BY FilesTypedNext, ThreadTypedNext, QueueTypedNext, JobTypedNext, StoreTypedNext
<1> QED BY <1>1 DEF TypeOK, FilesTyped, ThreadTyped, QueueTyped, JobTyped, StoreTyped,
                    SpentTyped, Task

LEMMA TypeInit == Init => TypeOK /\ FilesFit
<1> SUFFICES ASSUME Init PROVE TypeOK /\ FilesFit
  OBVIOUS
<1>1. FilesTyped /\ FilesFit
  BY Bounds, EmptySeq DEF Init, FilesTyped, FilesFit
<1>2. ThreadTyped /\ StoreTyped /\ SpentTyped
  BY DEF Init, ThreadTyped, StoreTyped, SpentTyped
<1>3. QueueTyped /\ JobTyped
  BY IdleTyped, EmptySeq, TailAssumption DEF Init, QueueTyped, JobTyped
<1> QED BY <1>1, <1>2, <1>3, Typed

-----------------------------------------------------------------------------
(* The evidence. First the steps that leave files and rows alone.              *)

Grounded == FilesFit /\ WholeWritten /\ BeginsAtLine /\ OneRowPerLine /\ OnlyWholeLines
            /\ NothingSkipped

LEMMA OffsetsFrame ==
  ASSUME UNCHANGED rows, NEW f
  PROVE  MaxOffset(f)' = MaxOffset(f)
BY DEF MaxOffset

LEMMA HeldGrows ==
  ASSUME rows \subseteq rows', NEW t, Held(t)
  PROVE  Held(t)'
BY DEF Held

LEMMA QuietSteps ==
  ASSUME Grounded, UNCHANGED <<disk, written, rows>>
  PROVE  Grounded'
<1>1. \A f : MaxOffset(f)' = MaxOffset(f)
  BY OffsetsFrame
<1>2. \A f : Resume(f)' = Resume(f) /\ CutShort(f)' = CutShort(f)
  BY <1>1 DEF Resume, CutShort
<1>3. \A t : Held(t)' = Held(t)
  BY DEF Held
<1>4. NothingSkipped'
  BY <1>2, <1>3 DEF Grounded, NothingSkipped
<1>5. BeginsAtLine'
  BY <1>1, <1>2 DEF Grounded, BeginsAtLine
<1>6. FilesFit' /\ WholeWritten' /\ OneRowPerLine' /\ OnlyWholeLines'
  BY DEF Grounded, FilesFit, WholeWritten, OneRowPerLine, OnlyWholeLines
<1> QED BY <1>4, <1>5, <1>6 DEF Grounded

\* A file that changes its length: what it still holds of what is before the offset
\* it held before.
LEMMA LengthSteps ==
  ASSUME TypeOK, TypeOK', Grounded, NEW f \in File, UNCHANGED <<rows, excluded>>,
         FilesFit', written \subseteq written', WholeLines(f, disk'[f]) \subseteq written',
         \A g \in File : g # f => disk'[g] = disk[g],
         \/ Begins(disk[f], disk'[f]) /\ (CutShort(f) => CutShort(f)')
         \/ Begins(disk'[f], disk[f])
  PROVE  Grounded' /\ (CutShort(f) => CutShort(f)')
<1> DEFINE d == disk[f]
           e == disk'[f]
           m == MaxOffset(f)
<1>0. /\ d \in Seq(Cell) /\ e \in Seq(Cell) /\ m \in Nat /\ MaxOffset(f)' = m
      /\ Len(d) \in Nat /\ Len(e) \in Nat
      /\ \A g : MaxOffset(g)' = MaxOffset(g)
      /\ \A t : Held(t)' = Held(t)
  BY ResumeTypes, OffsetsFrame, LenProperties DEF TypeOK, Held
<1>1. CutShort(f) => CutShort(f)'
  BY <1>0 DEF CutShort, Begins
<1>2. CutShort(f)' \/ m \in Newlines(e) \cup {0}
  <2> SUFFICES ASSUME ~CutShort(f)', m # 0 PROVE m \in Newlines(e)
    OBVIOUS
  <2>1. m \in Newlines(d) /\ m <= Len(e)
    BY <1>0, <1>1 DEF Grounded, BeginsAtLine, CutShort
  <2>2. Newlines(d) = {i \in Newlines(e) : i <= Len(d)} \/ Newlines(e) = {i \in Newlines(d) : i <= Len(e)}
    BY BeginsNewlines
  <2> QED BY <2>1, <2>2
<1>3. BeginsAtLine'
  <2>1. \A g \in File : g # f => (CutShort(g)' = CutShort(g) /\ Newlines(disk'[g]) = Newlines(disk[g]))
    BY <1>0 DEF CutShort
  <2> QED BY <1>0, <1>2, <2>1 DEF Grounded, BeginsAtLine
<1>4. WholeWritten'
  BY DEF Grounded, WholeWritten
<1>5. OneRowPerLine' /\ OnlyWholeLines'
  BY DEF Grounded, OneRowPerLine, OnlyWholeLines
<1>6. ASSUME NEW g \in File, g # f, NEW l \in ReadFrom(disk'[g], 0), l.offset < Resume(g)'
      PROVE  Held(l.text)'
  <2>1. Resume(g)' = Resume(g)
    BY <1>0, <1>6 DEF Resume
  <2> QED BY <1>0, <1>6, <2>1 DEF Grounded, NothingSkipped
<1>7. ASSUME NEW l \in ReadFrom(e, 0), l.offset < Resume(f)' PROVE Held(l.text)'
  <2>1. Newlines(d) \subseteq 1..Len(d) /\ Newlines(e) \subseteq 1..Len(e)
    BY <1>0, NewlineTypes
  <2>2. PICK s \in Nat, i \in Newlines(e) : IsLine(e, 0, s, i) /\ l = LineAt(e, s, i)
    BY <2>1, <1>7, LinesRead
  <2>3. s < i /\ i \in 1..Len(e) /\ l.offset = s
    BY <1>0, <2>1, <2>2, LineTypes DEF LineAt
  <2>4. ~CutShort(f)' /\ Resume(f)' = m /\ s < m
    BY <1>0, <1>7, <2>3 DEF CutShort, Resume
  <2>5. ~CutShort(f) /\ Resume(f) = m /\ m <= Len(d) /\ m <= Len(e)
    BY <1>0, <1>1, <2>4 DEF CutShort, Resume
  <2>6. i <= Len(d)
    <3>1. CASE i <= m
      BY <1>0, <2>3, <2>5, <3>1
    <3>2. CASE m < i
      <4>1. m \in Newlines(e)
        BY <1>2, <2>3, <2>4
      <4> QED BY <2>2, <2>4, <3>2, <4>1 DEF IsLine
    <3> QED BY <1>0, <2>3, <3>1, <3>2
  <2>7. i \in Newlines(d) /\ IsLine(d, 0, s, i) /\ LineAt(d, s, i) = l
    <3>1. CASE Begins(d, e)
      BY <2>2, <2>6, <3>1, BeginsLines
    <3>2. CASE Begins(e, d)
      <4>1. i \in Newlines(d) /\ i <= Len(e)
        BY <1>0, <2>3, <3>2, BeginsNewlines
      <4> QED BY <2>2, <3>2, <4>1, BeginsLines
    <3> QED BY <3>1, <3>2
  <2>8. l \in ReadFrom(d, 0)
    BY <1>0, <2>1, <2>7, LinesRead
  <2> QED BY <1>0, <2>3, <2>4, <2>5, <2>8 DEF Grounded, NothingSkipped
<1>8. NothingSkipped'
  BY <1>6, <1>7 DEF NothingSkipped
<1> QED BY <1>1, <1>3, <1>4, <1>5, <1>8 DEF Grounded

\* What a pass stores: the lines from where it was told to read.
LEMMA StoreSteps ==
  ASSUME TypeOK, TypeOK', Grounded, ReadsOn, NEW f \in File, StoreLines(f)
  PROVE  Grounded'
<1> DEFINE d == disk[f]
           from == job.start
           m == MaxOffset(f)
<1> PICK new : new = NewRows(f, ReadFrom(d, from))
  OBVIOUS
<1>0. /\ d \in Seq(Cell) /\ m \in Nat /\ from \in Nat /\ Len(d) \in Nat
      /\ Newlines(d) \subseteq 1..Len(d) /\ rows \in SUBSET Row
  BY ResumeTypes, LenProperties, NewlineTypes DEF TypeOK
<1>1. /\ rows' = rows \cup new /\ rows' \in SUBSET Row
      /\ UNCHANGED <<disk, written, excluded>>
  BY DEF StoreLines, TypeOK, user
<1>2. from = m \/ (from = 0 /\ CutShort(f))
  BY DEF ReadsOn, StoreLines
<1>3. /\ \A q \in new : /\ q \in Row /\ q.file = f /\ ~Held(q.text)
                        /\ \E i \in Newlines(d) :
                             /\ IsLine(d, from, q.offset, i)
                             /\ q.text = LineAt(d, q.offset, i).text
                        /\ q.offset < Len(d)
      /\ \A p, q \in new : p.text = q.text => p = q
      /\ \A l \in ReadFrom(d, from) : Held(l.text) \/ \E q \in new : q.text = l.text
  <2>1. new = NewRows(f, ReadFrom(disk[f], from)) /\ FilesFit
    BY DEF Grounded
  <2>2. job.start \in Nat
    BY <1>0
  <2> HIDE <1>0
  <2> QED BY <2>1, <2>2, NewRowsAre
<1>4. \A q \in new : q.offset \in Nat
  BY <1>3 DEF Row
<1>5. new = {} \/ from \in Newlines(d) \cup {0}
  <2> SUFFICES ASSUME NEW q \in new PROVE from \in Newlines(d) \cup {0}
    OBVIOUS
  <2>1. from <= q.offset /\ q.offset < Len(d)
    BY <1>3 DEF IsLine
  <2>2. from = 0 \/ ~CutShort(f)
    BY <1>0, <1>2, <1>4, <2>1 DEF CutShort
  <2> QED BY <1>2, <2>2 DEF Grounded, BeginsAtLine
<1>6. OnlyWholeLines'
  <2>1. ASSUME NEW q \in new PROVE <<q.file, q.text>> \in written
    <3>1. PICK i \in Newlines(d) : /\ IsLine(d, from, q.offset, i)
                                   /\ q.text = LineAt(d, q.offset, i).text
      BY <1>3
    <3>2. <<f, q.text>> \in WholeLines(f, d)
      BY <1>0, <1>4, <1>5, <3>1, LineIsWhole
    <3> QED BY <1>3, <3>2 DEF Grounded, WholeWritten
  <2> QED BY <1>1, <2>1 DEF Grounded, OnlyWholeLines
<1>7. OneRowPerLine'
  <2>1. \A q \in new, r \in rows : q.text # r.text
    BY <1>3 DEF Held
  <2> QED BY <1>1, <1>3, <2>1 DEF Grounded, OneRowPerLine
\* The offset of another file stands; that of this one moves to a line of it.
<1>8. ASSUME NEW g \in File, g # f PROVE MaxOffset(g)' = MaxOffset(g)
  <2>1. {q \in rows' : q.file = g} = {q \in rows : q.file = g}
    BY <1>1, <1>3, <1>8
  <2> QED BY <2>1 DEF MaxOffset
<1>9. /\ MaxOffset(f)' \in Nat /\ m <= MaxOffset(f)'
      /\ MaxOffset(f)' = m \/ \E q \in new : q.offset = MaxOffset(f)'
  <2>1. m = MaxOf(rows, f) /\ MaxOffset(f)' = MaxOf(rows', f)
    BY DEF MaxOffset, MaxOf
  <2>2. /\ \A r \in rows : r.file = f => r.offset <= m
        /\ m = 0 \/ \E r \in rows : r.file = f /\ r.offset = m
    BY <1>0, <2>1, MaxIs
  <2>3. /\ MaxOffset(f)' \in 0..MaxLen
        /\ \A r \in rows' : r.file = f => r.offset <= MaxOffset(f)'
        /\ MaxOffset(f)' = 0 \/ \E r \in rows' : r.file = f /\ r.offset = MaxOffset(f)'
    BY <1>1, <2>1, MaxIs
  <2>4. m <= MaxOffset(f)'
    BY <1>0, <1>1, <2>2, <2>3, Bounds
  <2>5. ASSUME NEW r \in rows, r.file = f, r.offset = MaxOffset(f)' PROVE MaxOffset(f)' = m
    BY <1>0, <2>2, <2>3, <2>4, <2>5, Bounds
  <2> QED BY <1>0, <1>1, <2>3, <2>4, <2>5, Bounds
<1>10. BeginsAtLine'
  <2>1. ASSUME NEW q \in new, q.offset = MaxOffset(f)', ~CutShort(f)'
        PROVE  MaxOffset(f)' \in Newlines(d) \cup {0}
    BY <1>3, <1>5, <2>1 DEF IsLine
  <2>2. CutShort(f)' \/ MaxOffset(f)' \in Newlines(d) \cup {0}
    <3>1. CASE MaxOffset(f)' = m
      BY <1>1, <3>1 DEF Grounded, BeginsAtLine, CutShort
    <3> QED BY <1>9, <2>1, <3>1
  <2>3. \A g \in File : g # f => CutShort(g)' \/ MaxOffset(g)' \in Newlines(disk[g]) \cup {0}
    BY <1>1, <1>8 DEF Grounded, BeginsAtLine, CutShort
  <2> QED BY <1>1, <2>2, <2>3 DEF BeginsAtLine
<1>11. \A t : Held(t) => Held(t)'
  BY <1>1 DEF Held
<1>12. ASSUME NEW l \in ReadFrom(d, 0), l.offset < Resume(f)' PROVE Held(l.text)'
  <2>1. PICK s \in Nat, i \in Newlines(d) : IsLine(d, 0, s, i) /\ l = LineAt(d, s, i)
    BY <1>0, LinesRead
  <2>2. l.offset = s /\ s < i /\ i <= Len(d)
    BY <1>0, <2>1, LineTypes DEF LineAt
  <2>3. CASE from <= s
    <3>1. from \in Newlines(d) \cup {0}
      BY <1>0, <1>2, <2>2, <2>3 DEF Grounded, BeginsAtLine, CutShort
    <3>2. IsLine(d, from, s, i)
      BY <1>0, <2>1, <2>3, <3>1, LinesFromThere
    <3>3. l \in ReadFrom(d, from)
      BY <1>0, <2>1, <3>2, LinesRead
    <3> QED BY <1>1, <1>3, <1>11, <3>3 DEF Held
  <2>4. CASE s < from
    <3>1. from = m /\ s < m
      BY <1>0, <1>2, <2>4
    <3>2. CASE CutShort(f)
      <4>1. CutShort(f)' /\ Resume(f)' = 0
        BY <1>0, <1>1, <1>9, <3>2 DEF CutShort, Resume
      <4> QED BY <1>12, <2>2, <4>1
    <3>3. CASE ~CutShort(f)
      <4>1. Resume(f) = m
        BY <1>0, <3>3 DEF CutShort, Resume
      <4> QED BY <1>11, <2>2, <3>1, <4>1 DEF Grounded, NothingSkipped
    <3> QED BY <3>2, <3>3
  <2> QED BY <1>0, <2>3, <2>4
<1>13. NothingSkipped'
  <2>1. \A g \in File : g # f => Resume(g)' = Resume(g)
    BY <1>1, <1>8 DEF Resume
  <2> QED BY <1>1, <1>11, <1>12, <2>1 DEF Grounded, NothingSkipped
<1>14. FilesFit' /\ WholeWritten'
  BY <1>1 DEF Grounded, FilesFit, WholeWritten
<1> QED BY <1>6, <1>7, <1>10, <1>13, <1>14 DEF Grounded

LEMMA GroundedNext ==
  ASSUME ~Regrows, TypeOK, TypeOK', FilesFit', Grounded, ReadsOn, [Next]_vars
  PROVE  /\ Grounded'
         /\ \A f \in File : disk' # disk /\ CutShort(f) => CutShort(f)'
<1>1. ASSUME NEW f \in File, WriteCell(f)
      PROVE  Grounded' /\ \A g \in File : CutShort(g) => CutShort(g)'
  <2>1. /\ Begins(disk[f], disk'[f]) /\ Len(disk'[f]) = Len(disk[f]) + 1
        /\ \A g \in File : g # f => disk'[g] = disk[g]
    BY <1>1, WriteGrows DEF Grounded
  <2>2. /\ UNCHANGED <<rows, excluded>> /\ written' = written \cup WholeLines(f, disk'[f])
        /\ ~CutShort(f) \/ Len(disk[f]) + 1 < MaxOffset(f)
    BY <1>1 DEF WriteCell, store
  <2>3. \A g : MaxOffset(g)' = MaxOffset(g)
    BY <2>2, OffsetsFrame
  <2>4. CutShort(f) => CutShort(f)'
    BY <2>1, <2>2, <2>3 DEF CutShort
  <2>5. Grounded'
    BY <2>1, <2>2, <2>4, LengthSteps
  <2>6. \A g \in File : g # f => (CutShort(g) => CutShort(g)')
    BY <2>1, <2>3 DEF CutShort
  <2> QED BY <2>4, <2>5, <2>6
<1>2. ASSUME NEW f \in File, Truncate(f)
      PROVE  Grounded' /\ \A g \in File : CutShort(g) => CutShort(g)'
  <2>1. /\ Begins(disk'[f], disk[f]) /\ \A g \in File : g # f => disk'[g] = disk[g]
    BY <1>2, TruncateCuts DEF Grounded
  <2>2. UNCHANGED <<rows, excluded, written>>
    BY <1>2 DEF Truncate, store
  <2>3. WholeLines(f, disk'[f]) \subseteq written'
    BY <2>1, <2>2, BeginsWhole DEF Grounded, WholeWritten
  <2>4. Grounded' /\ (CutShort(f) => CutShort(f)')
    BY <2>1, <2>2, <2>3, LengthSteps
  <2>5. \A g \in File : g # f => (CutShort(g) => CutShort(g)')
    BY <2>1, <2>2, OffsetsFrame DEF CutShort
  <2> QED BY <2>4, <2>5
<1>3. ASSUME NEW f \in File, StoreLines(f) PROVE Grounded' /\ UNCHANGED disk
  BY <1>3, StoreSteps DEF StoreLines, user
<1>4. CASE UNCHANGED <<disk, written, rows>>
  BY <1>4, QuietSteps
<1>5. \/ \E f \in File : WriteCell(f) \/ Truncate(f) \/ StoreLines(f)
      \/ UNCHANGED <<disk, written, rows>>
  BY DEF Next, vars, user, store, Thread, Writer, Outside, Start, Sweep, Hear, Settle, Submit,
         TakeJob, OpenFile, ProjectRows, Exclude, FailFile, Pause, ResumeCapture,
         SubmitCatchUp, Exit
<1> QED BY <1>1, <1>2, <1>3, <1>4, <1>5

\* The job under way.
LEMMA ReadsOnNext ==
  ASSUME TypeOK, Grounded, ReadsOn, [Next]_vars,
         \A f \in File : disk' # disk /\ CutShort(f) => CutShort(f)'
  PROVE  ReadsOn'
<1>0. /\ job \in [todo : SUBSET File, open : SUBSET File, start : 0..MaxLen,
                  stored : BOOLEAN, fresh : SUBSET Row]
      /\ Idle.open = {} /\ ~Idle.stored /\ Idle.fresh = {}
  BY DEF TypeOK, Idle
<1>1. ASSUME job'.open = {}, ~job'.stored, job'.fresh = {} PROVE ReadsOn'
  BY <1>1 DEF ReadsOn
<1>2. CASE TakeJob \/ Exit \/ \E f \in File : NextFile(f)
  BY <1>1, <1>2 DEF TakeJob, Exit, NextFile, Idle
<1>3. ASSUME NEW f \in File, OpenFile(f) PROVE ReadsOn'
  <2>1. /\ job' = [job EXCEPT !.open = {f}, !.start = Resume(f)] /\ f \in job.todo
        /\ job.open = {} /\ UNCHANGED <<disk, rows>>
    BY <1>3 DEF OpenFile, user, store
  <2>2. /\ job'.open = {f} /\ job'.start = Resume(f) /\ job'.todo = job.todo
        /\ ~job'.stored /\ job'.fresh = {}
    BY <1>0, <2>1 DEF ReadsOn
  <2>3. MaxOffset(f)' = MaxOffset(f) /\ CutShort(f)' = CutShort(f)
    BY <2>1, OffsetsFrame DEF CutShort
  <2>4. Resume(f) = MaxOffset(f) \/ (Resume(f) = 0 /\ CutShort(f))
    BY ResumeTypes DEF Resume, CutShort
  <2> QED BY <2>1, <2>2, <2>3, <2>4 DEF ReadsOn
<1>4. ASSUME NEW f \in File, StoreLines(f) PROVE ReadsOn'
  <2>1. /\ job'.open = job.open /\ job'.todo = job.todo /\ job'.stored
        /\ f \in job.open
    BY <1>0, <1>4 DEF StoreLines
  <2> QED BY <2>1 DEF ReadsOn
<1>5. ASSUME UNCHANGED <<job, rows>>, \A f \in File : CutShort(f) => CutShort(f)'
      PROVE  ReadsOn'
  <2>1. \A f : MaxOffset(f)' = MaxOffset(f)
    BY <1>5, OffsetsFrame
  <2>2. \A f \in job.open : f \in File
    BY <1>0
  <2> QED BY <1>5, <2>1, <2>2 DEF ReadsOn
<1>6. CASE UNCHANGED <<job, rows>> /\ disk' # disk
  BY <1>5, <1>6
<1>7. CASE UNCHANGED <<job, rows, disk>>
  BY <1>5, <1>7, OffsetsFrame DEF CutShort
<1>8. \/ TakeJob \/ Exit \/ \E f \in File : NextFile(f) \/ OpenFile(f) \/ StoreLines(f)
      \/ UNCHANGED <<job, rows>>
  BY DEF Next, vars, user, store, Thread, Writer, Outside, Start, Sweep, Hear, Settle, Submit,
         ProjectRows, WriteCell, Truncate, Exclude, FailFile, Pause, ResumeCapture, SubmitCatchUp
<1> QED BY <1>2, <1>3, <1>4, <1>6, <1>7, <1>8

LEMMA ProjectedNext ==
  ASSUME TypeOK, ReadsOn, StoredIsProjected, [Next]_vars
  PROVE  StoredIsProjected'
<1> SUFFICES ASSUME spent'.exits = 0, spent'.faults = 0, NEW r \in rows'
             PROVE  r.text \in projected' \/ r \in job'.fresh
  BY DEF StoredIsProjected
<1>0. /\ spent \in [{"cuts", "exits", "pauses", "faults", "excludes"} -> Nat]
      /\ job \in [todo : SUBSET File, open : SUBSET File, start : 0..MaxLen,
                  stored : BOOLEAN, fresh : SUBSET Row]
  BY BoundKinds DEF TypeOK
<1>1. \A w \in DOMAIN Bound : Spend(w) => spent'[w] = spent[w] + 1
  BY BoundKinds, <1>0 DEF Spend
<1>2. ~Exit /\ \A f \in File : ~FailFile(f)
  BY <1>0, <1>1, BoundKinds DEF Exit, FailFile
<1>3. spent.exits = 0 /\ spent.faults = 0
  <2>1. (\E w \in {"cuts", "pauses", "excludes"} : Spend(w)) \/ UNCHANGED spent
    BY <1>2 DEF Next, vars, Thread, Writer, Outside, Start, Sweep, Hear, Settle, Submit,
         TakeJob, OpenFile, StoreLines, ProjectRows, WriteCell, Truncate, Exclude,
         Pause, ResumeCapture, SubmitCatchUp
  <2> QED BY <1>0, <2>1 DEF Spend
<1>4. \A q \in rows : q.text \in projected \/ q \in job.fresh
  BY <1>3 DEF StoredIsProjected
<1>5. ASSUME UNCHANGED store, job.fresh \subseteq job'.fresh
      PROVE  r.text \in projected' \/ r \in job'.fresh
  BY <1>4, <1>5 DEF store
<1>6. CASE TakeJob
  <2>1. job.fresh = {}
    BY <1>0, <1>6 DEF TakeJob, ReadsOn
  <2> QED BY <1>5, <1>6, <2>1 DEF TakeJob
<1>7. ASSUME NEW f \in File, OpenFile(f) PROVE r.text \in projected' \/ r \in job'.fresh
  BY <1>0, <1>5, <1>7 DEF OpenFile
<1>8. ASSUME NEW f \in File, StoreLines(f) PROVE r.text \in projected' \/ r \in job'.fresh
  <2>1. PICK new : rows' = rows \cup new /\ job' = [job EXCEPT !.stored = TRUE, !.fresh = new]
    BY <1>8 DEF StoreLines
  <2>2. job'.fresh = new /\ job.fresh = {} /\ projected' = projected
    BY <1>0, <1>8, <2>1 DEF StoreLines, ReadsOn
  <2> QED BY <1>4, <2>1, <2>2
<1>9. ASSUME NEW f \in File, ProjectRows(f) PROVE r.text \in projected' \/ r \in job'.fresh
  BY <1>4, <1>9 DEF ProjectRows
<1>10. CASE UNCHANGED <<store, job>>
  BY <1>5, <1>10
<1>11. \/ TakeJob \/ UNCHANGED <<store, job>>
       \/ \E f \in File : OpenFile(f) \/ StoreLines(f) \/ ProjectRows(f)
  BY <1>2 DEF Next, vars, store, Thread, Writer, Outside, Start, Sweep, Hear, Settle, Submit,
         WriteCell, Truncate, Exclude, Pause, ResumeCapture, SubmitCatchUp
<1> QED BY <1>6, <1>7, <1>8, <1>9, <1>10, <1>11

-----------------------------------------------------------------------------

LEMMA TailInit == Init => IInv
<1> SUFFICES ASSUME Init PROVE IInv
  OBVIOUS
<1>1. TypeOK /\ FilesFit
  BY TypeInit
<1>2. \A f \in File : disk[f] = <<>> /\ Newlines(disk[f]) = {}
  BY DEF Init, Newlines
<1>3. rows = {} /\ job = Idle
  BY DEF Init
<1>4. \A f \in File : MaxOffset(f) = 0
  <2> TAKE f \in File
  <2>1. MaxOf(rows, f) = 0
    BY <1>3, MaxIs
  <2> QED BY <2>1, MaxOffsetOf
<1>5. WholeWritten
  BY <1>2 DEF WholeWritten, WholeLines
<1>6. BeginsAtLine
  BY <1>4 DEF BeginsAtLine
<1>7. ReadsOn
  BY <1>3 DEF ReadsOn, Idle
<1>8. NothingSkipped
  BY <1>2 DEF NothingSkipped, ReadFrom, Ends
<1>9. OneRowPerLine /\ OnlyWholeLines /\ StoredIsProjected
  BY <1>3 DEF OneRowPerLine, OnlyWholeLines, StoredIsProjected
<1> QED BY <1>1, <1>5, <1>6, <1>7, <1>8, <1>9 DEF IInv, Evidence

LEMMA TailNext == ASSUME ~Regrows PROVE IInv /\ [Next]_vars => IInv'
<1> SUFFICES ASSUME IInv, [Next]_vars PROVE IInv'
  OBVIOUS
<1>1. TypeOK /\ Grounded /\ ReadsOn /\ FilesFit /\ StoredIsProjected
  BY DEF IInv, Evidence, Grounded
<1>2. TypeOK' /\ FilesFit'
  BY <1>1, TypeNext
<1>3. Grounded' /\ \A f \in File : disk' # disk /\ CutShort(f) => CutShort(f)'
  BY <1>1, <1>2, GroundedNext
<1>4. ReadsOn' /\ StoredIsProjected'
  BY <1>1, <1>3, ReadsOnNext, ProjectedNext
<1> QED BY <1>2, <1>3, <1>4 DEF IInv, Evidence, Grounded

\* What is stored of a transcript are whole lines of it, each once, a pass that
\* resumes skips none, and what is stored is projected, whatever is written, cut,
\* excluded, paused, killed or fails in between; as long as no file grows past its
\* offset again after it was cut short (jsonl.rs read_from, backfill.rs ingest_file).
THEOREM LinesStoredWhole == ASSUME ~Regrows PROVE Spec => []LinesAreWhole
<1>1. IInv => LinesAreWhole
  BY DEF IInv, Evidence, LinesAreWhole, TailInv
<1> QED BY <1>1, TailInit, TailNext, PTL DEF Spec

\* No line a pass has read goes unheld: the offset the next pass begins at is the
\* beginning of a line, or of the file (backfill.rs ingest_file, raw.rs max_offset).
THEOREM ResumesAtLines == ASSUME ~Regrows PROVE Spec => []BeginsAtLine
<1>1. IInv => BeginsAtLine
  BY DEF IInv
<1> QED BY <1>1, TailInit, TailNext, PTL DEF Spec
=============================================================================
