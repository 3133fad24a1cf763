------------------------------ MODULE ModelFile ------------------------------
(* The header of a .gguf file, read before the file is adopted as a model      *)
(* (toolog-llm gguf.rs): a magic number, a version, two counts, the metadata   *)
(* keys and the tensors' names and shapes. The reader follows lengths the file *)
(* itself states, and a download may end anywhere.                             *)
(*                                                                             *)
(* What is on disk is a function from the offset a field starts at to the      *)
(* field, up to a number of bytes; a reader that has lost its place finds no   *)
(* field there.                                                                *)
EXTENDS Integers, Sequences, FiniteSets, SequencesExt

CONSTANTS
  Headers,     \* [magic, version, keys, tensors, declared]: a key is [key, kind,
               \* value, inner, items, claims], a tensor the sequence of its
               \* dimensions, and declared the count of keys the file claims
  MaxEntries,  \* 1_000_000
  MaxString,   \* 1 << 20
  MaxDims,     \* 8
  MaxCount     \* i64::MAX

VARIABLES
  header,      \* what was written to the file
  file,        \* the fields, by the offset they start at, and the bytes of them
  cut,         \* how many bytes are on disk
  pos,         \* where the reader is
  stage,       \* "magic", "version", "counts", "keys", "tensors", "done"
  index,       \* of the key or the tensor it is at
  found,       \* what it has read: [architecture, name, parameters]
  outcome      \* "reading", or what inspect returned

mvars == <<header, file, cut, pos, stage, index, found, outcome>>

None == "none"
Least(a, b) == IF a <= b THEN a ELSE b

-----------------------------------------------------------------------------
(* The file: fields in the order the format gives them. A string is its length *)
(* and its text; one that is not UTF-8 is not ok.                              *)

STRING_KIND == 8
ARRAY == 9
Sizes == <<1, 1, 2, 2, 4, 4, 4, 1>>       \* of the kinds 0 to 7
Fixed == (0..7) \cup (10..12)
Width(kind) == IF kind \in 0..7 THEN Sizes[kind + 1] ELSE 8

Field(w, v) == <<[width |-> w, value |-> v]>>
StringFields(s) == Field(8, s.size) \o Field(s.size, s)
ValueFields(k) ==
  CASE k.kind = STRING_KIND -> StringFields(k.value)
    [] k.kind = ARRAY /\ k.inner = STRING_KIND ->
         Field(4, k.inner) \o Field(8, k.claims)
           \o FlattenSeq([i \in 1..k.items |-> StringFields(k.value)])
    [] k.kind = ARRAY /\ k.inner # STRING_KIND ->
         Field(4, k.inner) \o Field(8, k.claims) \o Field(k.items * Width(k.inner), None)
    [] OTHER -> Field(Width(k.kind), None)
KeyFields(k) == StringFields(k.key) \o Field(4, k.kind) \o ValueFields(k)
TensorFields(t) ==
  StringFields([text |-> "t", size |-> 1, ok |-> TRUE]) \o Field(4, Len(t))
    \o FlattenSeq([i \in 1..Len(t) |-> Field(8, t[i])]) \o Field(4, None) \o Field(8, None)

AllFields(h) ==
  Field(4, h.magic) \o Field(4, h.version) \o Field(8, Len(h.tensors)) \o Field(8, h.declared)
    \o FlattenSeq([i \in 1..Len(h.keys) |-> KeyFields(h.keys[i])])
    \o FlattenSeq([i \in 1..Len(h.tensors) |-> TensorFields(h.tensors[i])])

Laid(fields) ==
  FoldLeft(LAMBDA acc, f : [at   |-> (acc.size :> f) @@ acc.at, size |-> acc.size + f.width],
           [at |-> <<>>, size |-> 0], SelectSeq(fields, LAMBDA f : f.width > 0))

-----------------------------------------------------------------------------
(* The reader. Each read gives the value, where it leaves the reader, and how  *)
(* it went.                                                                    *)

Got(v, p) == [value |-> v, at |-> p, how |-> "ok"]
IllFormed == [value |-> 0, at |-> 0, how |-> "malformed"]
Lost == [value |-> 0, at |-> 0, how |-> "lost"]

\* array::<N>, and the text of a string: read_exact, which ends where the file does.
Reads(p, w) ==
  IF p + w > cut THEN IllFormed
  ELSE IF p \in DOMAIN file.at /\ file.at[p].width = w THEN Got(file.at[p].value, p + w)
  ELSE Lost

\* string: its length is checked before that many bytes are asked for.
ReadString(p) ==
  LET size == Reads(p, 8)
  IN IF size.how # "ok" THEN size
     ELSE IF size.value > MaxString THEN IllFormed
     ELSE IF size.value = 0 THEN Got([text |-> "", size |-> 0, ok |-> TRUE], p + 8)
     ELSE LET text == Reads(p + 8, size.value)
          IN IF text.how = "ok" /\ ~text.value.ok THEN IllFormed ELSE text

\* skip: a seek, which may go past the end but not past what an offset can say.
Skip(p, n) == IF n > MaxCount - p THEN IllFormed ELSE Got(None, p + n)

WidthOfWrong(kind) == IF kind = 3 THEN 1 ELSE Width(kind)   \* mutant: one row is wrong
WidthOf(kind) == Width(kind)

RECURSIVE SkipStrings(_, _)
SkipStrings(p, n) ==
  IF n = 0 THEN Got(None, p)
  ELSE LET s == ReadString(p) IN IF s.how = "ok" THEN SkipStrings(s.at, n - 1) ELSE s

SkipArray(p) ==
  LET inner == Reads(p, 4)
      many  == Reads(p + 4, 8)
  IN IF inner.how # "ok" THEN inner
     ELSE IF many.how # "ok" THEN many
     ELSE IF inner.value = STRING_KIND THEN SkipStrings(p + 12, many.value)
     ELSE IF inner.value \notin Fixed THEN IllFormed
     ELSE Skip(p + 12, Least(many.value * WidthOf(inner.value), MaxCount))

SkipValueOf(p, kind) ==
  CASE kind \in Fixed      -> Skip(p, WidthOf(kind))
    [] kind = STRING_KIND  -> ReadString(p)
    [] kind = ARRAY        -> SkipArray(p)
    [] OTHER               -> IllFormed

-----------------------------------------------------------------------------
(* inspect. *)

Ends(how) ==
  /\ outcome' = how /\ stage' = "done"
  /\ UNCHANGED <<header, file, cut, pos, index, found>>

Goes(next, p, i, f) ==
  /\ stage' = next /\ pos' = p /\ index' = i /\ found' = f
  /\ UNCHANGED <<header, file, cut, outcome>>

\* describe_magic: what a file that is no model is said to be.
Described == [gzip |-> "gzip archive", zip |-> "zip archive", png |-> "PNG image",
              elf |-> "ELF binary", ggml |-> "pre-GGUF model"]
DescribeMagic(m) == IF m \in DOMAIN Described THEN Described[m] ELSE "unknown bytes"

ReadMagic ==
  /\ stage = "magic"
  /\ LET r == Reads(0, 4)
     IN IF r.how # "ok" THEN Ends(r.how)
        ELSE IF r.value # "GGUF" THEN Ends(DescribeMagic(r.value))
        ELSE Goes("version", r.at, 0, found)

ReadVersion ==
  /\ stage = "version"
  /\ LET r == Reads(pos, 4)
     IN IF r.how # "ok" THEN Ends(r.how)
        ELSE IF r.value \notin {2, 3} THEN Ends("unsupported version")
        ELSE Goes("counts", r.at, 0, found)

ReadCounts ==
  /\ stage = "counts"
  /\ LET tensors == Reads(pos, 8)
         keys    == Reads(pos + 8, 8)
     IN IF tensors.how # "ok" THEN Ends(tensors.how)
        ELSE IF keys.how # "ok" THEN Ends(keys.how)
        ELSE IF tensors.value > MaxEntries \/ keys.value > MaxEntries THEN Ends("malformed")
        ELSE Goes("keys", keys.at, 1, found)

\* One metadata key: the two that are wanted are kept if they are strings, and
\* forgotten again if a later one is not.
Wanted == [arch |-> "architecture", name |-> "name"]
Value(p, key, kind) ==
  IF key \in DOMAIN Wanted /\ kind = STRING_KIND THEN ReadString(p) ELSE SkipValueOf(p, kind)
Kept(key, kind, v) ==
  IF key \notin DOMAIN Wanted THEN found
  ELSE [found EXCEPT ![Wanted[key]] = IF kind = STRING_KIND THEN v.text ELSE None]

ReadKey ==
  /\ stage = "keys"
  /\ IF index > header.declared THEN Goes("tensors", pos, 1, found)
     ELSE LET key  == ReadString(pos)
              kind == IF key.how = "ok" THEN Reads(key.at, 4) ELSE key
              v    == IF kind.how = "ok" THEN Value(kind.at, key.value.text, kind.value)
                      ELSE kind
          IN IF v.how # "ok" THEN Ends(v.how)
             ELSE Goes("keys", v.at, index + 1, Kept(key.value.text, kind.value, v.value))

\* One tensor: its elements are the product of its dimensions, and the
\* parameters their sum, neither ever more than a count can say.
Elements(dims) == FoldLeft(LAMBDA n, d : Least(n * d, MaxCount), 1, dims)

ReadTensor ==
  /\ stage = "tensors"
  /\ IF index > Len(header.tensors) THEN Ends("ok")
     ELSE LET title == ReadString(pos)
              many  == IF title.how = "ok" THEN Reads(title.at, 4) ELSE title
              dims  == [d \in 1..Least(many.value, MaxDims) |-> Reads(many.at + 8 * (d - 1), 8)]
              end   == many.at + 8 * many.value
              rest  == Reads(end + 4, 8)
          IN IF many.how # "ok" THEN Ends(many.how)
             ELSE IF many.value > MaxDims THEN Ends("malformed")
             ELSE IF rest.how # "ok" THEN Ends(rest.how)
             ELSE Goes("tensors", rest.at, index + 1,
                       [found EXCEPT !.parameters =
                          Least(@ + Elements([d \in DOMAIN dims |-> dims[d].value]), MaxCount)])

ModelFileInit ==
  /\ header \in Headers
  /\ file = Laid(AllFields(header))
  /\ cut \in 0..file.size
  /\ pos = 0 /\ stage = "magic" /\ index = 0 /\ outcome = "reading"
  /\ found = [architecture |-> None, name |-> None, parameters |-> 0]

ModelFileNext == ReadMagic \/ ReadVersion \/ ReadCounts \/ ReadKey \/ ReadTensor

-----------------------------------------------------------------------------
(* The property. *)

WellFormed(h) ==
  /\ h.magic = "GGUF" /\ h.version \in {2, 3} /\ h.declared = Len(h.keys)
  /\ \A i \in 1..Len(h.keys) :
       LET k == h.keys[i]
           Sound(s) == s.ok /\ s.size <= MaxString
       IN /\ Sound(k.key) /\ k.kind \in 0..12
          /\ k.kind = STRING_KIND => Sound(k.value)
          /\ k.kind = ARRAY => /\ k.claims = k.items /\ k.inner \in Fixed \cup {STRING_KIND}
                               /\ k.inner = STRING_KIND => Sound(k.value)
  /\ \A i \in 1..Len(h.tensors) : Len(h.tensors[i]) <= MaxDims

\* What the last key of a name says.
Stated(h, key) ==
  LET all == {i \in 1..Len(h.keys) : h.keys[i].key.text = key}
      last == CHOOSE i \in all : \A j \in all : j <= i
  IN IF all = {} \/ h.keys[last].kind # STRING_KIND THEN None ELSE h.keys[last].value.text

\* Without tensors nothing is read after a last value that is skipped, and a seek
\* past the end does not fail (gguf.rs:386 and 410).
EndsInASkip(h) ==
  /\ h.tensors = <<>> /\ h.keys # <<>>
  /\ LET k == Last(h.keys)
     IN k.kind \in Fixed \/ (k.kind = ARRAY /\ k.inner # STRING_KIND)

\* The bytes of that value, and the header if its length were right.
Skipped(h) == LET k == Last(h.keys)
              IN IF k.kind = ARRAY THEN k.items * Width(k.inner) ELSE Width(k.kind)
Righted(h) == [h EXCEPT !.keys[Len(h.keys)].claims = Last(h.keys).items]

\* The lengths a header states of itself are not those it was written with.
Lies(h) == \/ h.declared # Len(h.keys)
           \/ \E i \in DOMAIN h.keys : h.keys[i].kind = ARRAY /\ h.keys[i].claims # h.keys[i].items

\* A header is reported exactly as it was written or the file is refused, wherever a
\* download of it ended. Two things are not so, and are named here. A last value that
\* is skipped, with no tensor after it, may be missing in part or claim any length,
\* and the header is reported all the same, although gguf.rs:413 has words for it ("it
\* ends part-way through a metadata value") and lib.rs:68 says the header read catches
\* "a partial download". And a length that is wrong and ends inside the file makes the
\* reader take one field for another (lost); one that is right never does. A whole
\* header that is well formed is never refused (gguf.rs inspect and Reader).
WholeOrRefused ==
  /\ outcome = "lost" => Lies(header)
  /\ outcome = "ok" =>
       /\ IF EndsInASkip(header)
          THEN WellFormed(Righted(header)) /\ cut >= file.size - Skipped(header)
          ELSE WellFormed(header) /\ cut = file.size
       /\ found.architecture = Stated(header, "arch")
       /\ found.name = Stated(header, "name")
       /\ found.parameters =
            Least(MaxCount, FoldLeft(LAMBDA n, t : n + FoldLeft(LAMBDA m, d : m * d, 1, t),
                                     0, header.tensors))
  /\ (stage = "done" /\ WellFormed(header) /\ cut = file.size) => outcome = "ok"
=============================================================================
