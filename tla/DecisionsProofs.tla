---------------------------- MODULE DecisionsProofs ----------------------------
(* What holds of the three parts that decide what is kept and shown, for every   *)
(* value of their constants.                                                     *)
(*   Settings: ~/.claude/settings.json, for any ports, any files to begin with   *)
(* and any number of edits, starts, fixes and uninstalls: the shape of what is   *)
(* kept, that nothing is lost that is not ours, that a fix fixes and an          *)
(* uninstall undoes, and that the endpoint follows the application.              *)
(*   Preferences: prefs.json and its copies, for any files, threads and outings. *)
(*   RiskReview: the ledger of sightings and the memo of a review, for every set *)
(* of rules, questions, calls and threads and every number of events.            *)
EXTENDS Settings, Preferences, RiskReview, Extremes, TLAPS

-----------------------------------------------------------------------------
(* The inductive invariant.  What a runner's job says of the file it goes by:    *)
(* nobody overtook it, so it is the file; what a fix is about to write is the    *)
(* file it read, merged with the port that was in service, or with the preferred *)
(* one when it could not find that; what an uninstall is about to do leaves what *)
(* is not ours.                                                                  *)

MayMerge(r, f) == f.kind \in {"absent", "object"} /\ f.block # "other" /\ ~Foreign(Stack(r, f))

\* addr is where an application at p listens, or would if it were started, or the
\* files do not tell where that is.
Serves(p) == IF p = "down" THEN Preferred ELSE p
Found(r, f, p, addr) ==
  \/ addr = Serves(p)
  \/ p \notin {"down", Preferred} /\ Effective(Stack(r, f), "endpoint") # {p}

FixReady(r) ==
  \E addr \in Port : /\ job[r].out = Merged(job[r].seen, addr)
                     /\ addr = job[r].probed \/ addr = Preferred
                     /\ job[r].what = "moved" => addr = job[r].probed
                     /\ Found(r, job[r].seen, job[r].probed, addr)

\* A file that holds nothing but our keys, and one a copy differs from by them.
OnlyOurs(f) == f.kind = "object" /\ f.block = "object" /\ Empty(WithoutOurKeys(f))
Restores(copies, f) ==
  Oldest(copies) = f \/ (f.kind = "object" /\ SameJson(Oldest(copies), WithoutOurKeys(f)))

JobFits(r) ==
  /\ job[r].at = "idle" => job[r] = NoJob
  /\ job[r].what = "none" => job[r] = NoJob
  /\ job[r].what \in {"fix", "moved"} => job[r].at \in {"read", "plan", "write"}
  /\ job[r].at = "read" => job[r].what = "moved"
  /\ job[r].what = "moved" => r = "app"
  /\ job[r].alone /\ job[r].at \notin {"idle", "read"} => job[r].seen = file
  /\ job[r].what \in {"fix", "moved"} /\ job[r].at = "write"
       => MayMerge(r, job[r].seen) /\ FixReady(r)
  /\ job[r].what = "uninstall" /\ job[r].at = "write"
       => /\ job[r].seen.kind = "object"
          /\ job[r].out = Pretty(WithoutOurKeys(job[r].seen))
  /\ job[r].at = "remove_file" => OnlyOurs(job[r].seen)
  /\ job[r].at = "restore" /\ job[r].alone => Restores(backups, file)

(* What toolog configured, as long as nobody else wrote the file, ...            *)
Ours == since.writes > 0 /\ ~since.edited
HoldsOurs(f) ==
  /\ f.kind = "object" /\ f.block = "object"
  /\ OurKeys \subseteq DOMAIN f.env /\ f.env["endpoint"] \in Port
  /\ "global" \in DOMAIN f.env => IsLoopback(f.env["global"])
ConfiguredByUs == Ours => HoldsOurs(file)

(* ... sends to where the application listens, or the application is about to    *)
(* move it there.                                                                *)
Moving ==
  /\ job.app.what = "moved"
  /\ \/ job.app.at = "read"
     \/ job.app.at = "plan" /\ job.app.seen = file
     \/ job.app.at = "write" /\ job.app.out.env["endpoint"] = app
EndpointFollows ==
  Ours /\ ~since.raced /\ ~since.missed /\ app \notin {"down", Preferred}
    => file.env["endpoint"] = app \/ Moving

(* What the first write of ours replaced can be told from the copies.  Undoable: *)
(* the conditions of UndoExact.                                                  *)
Clean(f) == NoneOfOurs(f) /\ (f.block = "object" => DOMAIN f.env # {})
FirstCopies == ~since.raced /\ ~since.copies /\ ~since.crowded
Undoable == Ours /\ FirstCopies /\ Clean(since.origin)
Kept(copies, f) == DOMAIN copies # {} /\ Oldest(copies) = f
Writing(q) == job[q].at = "write"

Deciding(r) == job[r].what = "uninstall" /\ job[r].alone /\ job[r].at # "plan"

\* Before the first write, of the copy a fix took; ...
BeforeFirst ==
  since.writes = 0 /\ FirstCopies =>
    \A r \in Runner : job[r].what \in {"fix", "moved"} /\ Writing(r) /\ job[r].alone =>
      IF file.kind = "absent" THEN DOMAIN backups = {} ELSE Kept(backups, file)
\* ... and since, of a file that was there and of one toolog created.
SinceFirst ==
  Undoable =>
    /\ since.origin.kind \in {"absent", "object"} /\ FileShape(since.origin)
    /\ since.origin.kind = "object" =>
         /\ Kept(backups, since.origin) /\ SameJson(since.origin, WithoutOurKeys(file))
         /\ \A r \in Runner : Deciding(r) => job[r].at = "restore"
    /\ since.origin.kind = "absent" /\ since.writes = 1 =>
         /\ Empty(WithoutOurKeys(file))
         /\ DOMAIN backups = {} \/ \E q \in Runner : Writing(q)
         /\ \A r \in Runner : Deciding(r) =>
              job[r].at = "remove_file" \/ \E q \in Runner \ {r} : Writing(q)

SinceShape ==
  since \in [origin : File, writes : Nat, edited : BOOLEAN, raced : BOOLEAN,
             missed : BOOLEAN, copies : BOOLEAN, crowded : BOOLEAN]

IInv ==
  /\ SettingsInv /\ SinceShape
  /\ \A r \in Runner : JobFits(r)
  /\ ConfiguredByUs /\ EndpointFollows
  /\ BeforeFirst /\ SinceFirst

-----------------------------------------------------------------------------
(* Ports, files and what is made of them. *)

LEMMA PortFacts ==
  Preferred \in Port /\ "down" \notin Port /\ Port \subseteq Value
BY SettingsAssumption DEF Preferred, Port, Value

\* A shape, with one condition on each kind of file.
Shaped(f) ==
  /\ f \in File
  /\ f.kind = "absent" => f = NoFile
  /\ f.kind # "object" => f.block = "none" /\ f.rest = 0
  /\ f.block # "object" => f.env = NoEnv

LEMMA Shapes == \A f : FileShape(f) <=> Shaped(f)
<1>1. NoEnv \in EnvBlock
  BY DEF NoEnv, EnvBlock
<1>2. Shaped(NoFile)
  BY <1>1 DEF Shaped, File, NoFile, AFile
<1> QED BY <1>2 DEF FileShape, Shaped

LEMMA NoFileFacts ==
  /\ FileShape(NoFile) /\ NoFile.kind = "absent" /\ NoFile.block = "none"
  /\ NoFile.env = NoEnv /\ NoFile.rest = 0
<1>1. NoEnv \in EnvBlock
  BY DEF NoEnv, EnvBlock
<1> QED BY Shapes, <1>1 DEF Shaped, File, NoFile, AFile

\* An env is a function from names to values.
LEMMA EnvFacts ==
  ASSUME NEW env \in EnvBlock
  PROVE  /\ DOMAIN env \subseteq Variable /\ env \in [DOMAIN env -> Value]
         /\ env = [n \in DOMAIN env |-> env[n]]
BY DEF EnvBlock

LEMMA EnvMade ==
  ASSUME NEW names \in SUBSET Variable, NEW env \in [names -> Value]
  PROVE  env \in EnvBlock
BY DEF EnvBlock

\* Laying our variables over a file's leaves the others, and removing ours again
\* what there was without them.
LEMMA OverlayFacts ==
  ASSUME NEW env \in EnvBlock, NEW addr \in Port
  PROVE  LET over == Overlay(env, DesiredEnv(addr))
         IN  /\ over \in EnvBlock /\ DOMAIN over = DOMAIN env \cup OurKeys
             /\ over["switch"] = "on" /\ over["endpoint"] = addr
             /\ \A n \in DOMAIN env \ OurKeys : over[n] = env[n]
             /\ Without(over) = Without(env)
<1> DEFINE over == Overlay(env, DesiredEnv(addr))
<1>1. DOMAIN DesiredEnv(addr) = OurKeys
  BY DEF DesiredEnv, OurKeys
<1>2. /\ DesiredEnv(addr)["switch"] = "on" /\ DesiredEnv(addr)["endpoint"] = addr
  BY DEF DesiredEnv
<1>3. DOMAIN over = DOMAIN env \cup OurKeys
  BY <1>1 DEF Overlay
<1>4. \A n \in DOMAIN over :
        over[n] = IF n \in OurKeys THEN DesiredEnv(addr)[n] ELSE env[n]
  BY <1>1 DEF Overlay
<1>5. over = [n \in DOMAIN over |-> over[n]]
  BY DEF Overlay
<1>6. DOMAIN env \subseteq Variable /\ env \in [DOMAIN env -> Value]
  BY EnvFacts
<1>7. \A n \in DOMAIN over : over[n] \in Value
  <2> SUFFICES ASSUME NEW n \in DOMAIN over PROVE over[n] \in Value
    OBVIOUS
  <2>1. CASE n \in OurKeys
    <3>1. over[n] = DesiredEnv(addr)[n]
      BY <1>4, <2>1
    <3>2. DesiredEnv(addr)[n] \in {"on", addr}
      BY <1>2, <2>1 DEF OurKeys
    <3> QED BY <3>1, <3>2, PortFacts DEF Value
  <2>2. CASE n \notin OurKeys
    BY <1>3, <1>4, <1>6, <2>2
  <2> QED BY <2>1, <2>2
<1>8. over \in EnvBlock
  <2>1. DOMAIN over \subseteq Variable
    BY <1>3, <1>6 DEF Variable
  <2>2. over \in [DOMAIN over -> Value]
    BY <1>5, <1>7
  <2> HIDE DEF over
  <2> QED BY <2>1, <2>2, EnvMade
<1>9. Without(over) = Without(env)
  <2> HIDE DEF over
  <2>1. DOMAIN over \ OurKeys = DOMAIN env \ OurKeys
    BY <1>3
  <2>2. \A n \in DOMAIN env \ OurKeys : over[n] = env[n]
    BY <1>3, <1>4
  <2> QED BY <2>1, <2>2 DEF Without
<1>10. "switch" \in DOMAIN over /\ "endpoint" \in DOMAIN over
  BY <1>3 DEF OurKeys
<1>11. over["switch"] = "on" /\ over["endpoint"] = addr
  <2> HIDE DEF over
  <2> QED BY <1>2, <1>4, <1>10 DEF OurKeys
<1>12. \A n \in DOMAIN env \ OurKeys : over[n] = env[n]
  <2> HIDE DEF over
  <2> QED BY <1>3, <1>4
<1> HIDE DEF over
<1>13. /\ over \in EnvBlock /\ DOMAIN over = DOMAIN env \cup OurKeys
       /\ over["switch"] = "on" /\ over["endpoint"] = addr
       /\ \A n \in DOMAIN env \ OurKeys : over[n] = env[n]
       /\ Without(over) = Without(env)
  BY <1>3, <1>8, <1>9, <1>11, <1>12
<1> QED BY <1>13 DEF over

LEMMA WithoutFacts ==
  ASSUME NEW env \in EnvBlock
  PROVE  /\ Without(env) \in EnvBlock /\ DOMAIN Without(env) = DOMAIN env \ OurKeys
         /\ Without(Without(env)) = Without(env)
         /\ OurKeys \cap DOMAIN env = {} => Without(env) = env
         /\ DOMAIN Without(env) = {} => Without(env) = NoEnv
<1>1. DOMAIN env \subseteq Variable /\ env \in [DOMAIN env -> Value]
  BY EnvFacts
<1>2. DOMAIN Without(env) = DOMAIN env \ OurKeys
  BY DEF Without
<1>3. Without(env) \in [DOMAIN env \ OurKeys -> Value]
  BY <1>1 DEF Without
<1>4. Without(env) \in EnvBlock
  <2>1. DOMAIN env \ OurKeys \in SUBSET Variable
    BY <1>1
  <2> QED BY <2>1, <1>3, EnvMade
<1>5. Without(Without(env)) = Without(env)
  BY DEF Without
<1>6. OurKeys \cap DOMAIN env = {} => Without(env) = env
  BY <1>1 DEF Without
<1>7. DOMAIN Without(env) = {} => Without(env) = NoEnv
  BY DEF Without, NoEnv
<1> QED BY <1>2, <1>4, <1>5, <1>6, <1>7

\* What a fix writes.
LEMMA MergedFacts ==
  ASSUME NEW f, FileShape(f), NEW addr \in Port
  PROVE  /\ FileShape(Merged(f, addr))
         /\ Merged(f, addr).kind = "object" /\ Merged(f, addr).block = "object"
         /\ Merged(f, addr).rest = f.rest
         /\ DOMAIN Merged(f, addr).env = DOMAIN f.env \cup OurKeys
         /\ Merged(f, addr).env["switch"] = "on" /\ Merged(f, addr).env["endpoint"] = addr
         /\ \A n \in DOMAIN f.env \ OurKeys : Merged(f, addr).env[n] = f.env[n]
         /\ Without(Merged(f, addr).env) = Without(f.env)
<1> DEFINE over == Overlay(f.env, DesiredEnv(addr))
<1>1. f.env \in EnvBlock /\ f.rest \in Nat
  BY Shapes DEF Shaped, File
<1>2. /\ over \in EnvBlock /\ DOMAIN over = DOMAIN f.env \cup OurKeys
      /\ over["switch"] = "on" /\ over["endpoint"] = addr
      /\ \A n \in DOMAIN f.env \ OurKeys : over[n] = f.env[n]
      /\ Without(over) = Without(f.env)
  BY <1>1, OverlayFacts
<1>3. Merged(f, addr) = [kind |-> "object", block |-> "object", env |-> over,
                         rest |-> f.rest, form |-> "ours"]
  BY DEF Merged
<1> HIDE DEF over
<1>4. FileShape(Merged(f, addr))
  BY Shapes, <1>1, <1>2, <1>3 DEF Shaped, File
<1> QED BY <1>2, <1>3, <1>4

\* What an uninstall leaves of a file.
LEMMA StrippedFacts ==
  ASSUME NEW f, FileShape(f), f.kind = "object"
  PROVE  LET g == WithoutOurKeys(f)
         IN  /\ FileShape(g) /\ FileShape(Pretty(g))
             /\ g.kind = "object" /\ g.rest = f.rest /\ g.form = f.form
             /\ g.env = Without(f.env) /\ Pretty(g).env = g.env /\ Pretty(g).rest = g.rest
             /\ g.block = IF f.block # "object" THEN f.block
                          ELSE IF DOMAIN Without(f.env) = {} THEN "none" ELSE "object"
<1> DEFINE g == WithoutOurKeys(f)
<1>1. /\ f \in File /\ f.env \in EnvBlock /\ f.rest \in Nat /\ f.form \in {"own", "ours"}
      /\ f.block \in {"none", "object", "other"}
      /\ (f.block # "object" => f.env = NoEnv)
  BY Shapes DEF Shaped, File
<1>2. /\ Without(f.env) \in EnvBlock
      /\ DOMAIN Without(f.env) = {} => Without(f.env) = NoEnv
      /\ OurKeys \cap DOMAIN f.env = {} => Without(f.env) = f.env
  BY <1>1, WithoutFacts
<1>3. f.block # "object" => Without(f.env) = f.env
  <2> SUFFICES ASSUME f.block # "object" PROVE Without(f.env) = f.env
    OBVIOUS
  <2>1. DOMAIN f.env = {}
    BY <1>1 DEF NoEnv
  <2> QED BY <1>2, <2>1
<1>4. f = [kind |-> "object", block |-> f.block, env |-> f.env, rest |-> f.rest,
           form |-> f.form]
  BY <1>1 DEF File
<1>5. g = [kind |-> "object",
           block |-> IF f.block # "object" THEN f.block
                     ELSE IF DOMAIN Without(f.env) = {} THEN "none" ELSE "object",
           env |-> Without(f.env), rest |-> f.rest, form |-> f.form]
  <2>1. CASE f.block # "object"
    BY <1>3, <1>4, <2>1 DEF WithoutOurKeys
  <2>2. CASE f.block = "object"
    <3>1. g = [f EXCEPT !.env = Without(f.env),
                        !.block = IF DOMAIN Without(f.env) = {} THEN "none" ELSE "object"]
      BY <2>2 DEF WithoutOurKeys
    <3> QED BY <1>4, <2>2, <3>1
  <2> QED BY <2>1, <2>2
<1> HIDE DEF g
<1>6. FileShape(g)
  BY Shapes, <1>1, <1>2, <1>3, <1>5 DEF Shaped, File
<1>7. Pretty(g) = [kind |-> "object", block |-> g.block, env |-> g.env, rest |-> g.rest,
                   form |-> "ours"]
  BY <1>5 DEF Pretty
<1>8. FileShape(Pretty(g))
  BY Shapes, <1>5, <1>6, <1>7 DEF Shaped, File
<1>9. /\ g.kind = "object" /\ g.rest = f.rest /\ g.form = f.form
      /\ g.env = Without(f.env)
      /\ g.block = IF f.block # "object" THEN f.block
                   ELSE IF DOMAIN Without(f.env) = {} THEN "none" ELSE "object"
  BY <1>5
<1>10. Pretty(g).env = g.env /\ Pretty(g).rest = g.rest
  BY <1>7
<1> QED BY <1>6, <1>8, <1>9, <1>10 DEF g

\* Two parsed files are equal when all but their layout is.
LEMMA SameFields ==
  ASSUME NEW f, NEW g, FileShape(f), FileShape(g)
  PROVE  SameJson(f, g) <=> /\ f.kind = g.kind /\ f.block = g.block
                            /\ f.env = g.env /\ f.rest = g.rest
<1>1. f \in File /\ g \in File
  BY Shapes DEF Shaped
<1>2. f = [kind |-> f.kind, block |-> f.block, env |-> f.env, rest |-> f.rest,
           form |-> f.form]
  BY <1>1 DEF File
<1>3. g = [kind |-> g.kind, block |-> g.block, env |-> g.env, rest |-> g.rest,
           form |-> g.form]
  BY <1>1 DEF File
<1>4. [f EXCEPT !.form = "any"] = [kind |-> f.kind, block |-> f.block, env |-> f.env,
                                   rest |-> f.rest, form |-> "any"]
  BY <1>2
<1>5. [g EXCEPT !.form = "any"] = [kind |-> g.kind, block |-> g.block, env |-> g.env,
                                   rest |-> g.rest, form |-> "any"]
  BY <1>3
<1> QED BY <1>4, <1>5 DEF SameJson

\* A fix changes nothing that an uninstall would leave, ...
LEMMA MergedAgain ==
  ASSUME NEW f, NEW g, NEW addr \in Port, FileShape(f), FileShape(g),
         f.kind = "object", f.block = "object", SameJson(g, WithoutOurKeys(f))
  PROVE  SameJson(g, WithoutOurKeys(Merged(f, addr)))
<1> DEFINE h == Merged(f, addr)
<1>1. /\ FileShape(h) /\ h.kind = "object" /\ h.block = "object" /\ h.rest = f.rest
      /\ Without(h.env) = Without(f.env)
  BY MergedFacts
<1> HIDE DEF h
<1>2. /\ FileShape(WithoutOurKeys(f)) /\ WithoutOurKeys(f).kind = "object"
      /\ WithoutOurKeys(f).rest = f.rest /\ WithoutOurKeys(f).env = Without(f.env)
      /\ WithoutOurKeys(f).block = IF DOMAIN Without(f.env) = {} THEN "none" ELSE "object"
  BY StrippedFacts
<1>3. /\ FileShape(WithoutOurKeys(h)) /\ WithoutOurKeys(h).kind = "object"
      /\ WithoutOurKeys(h).rest = h.rest /\ WithoutOurKeys(h).env = Without(h.env)
      /\ WithoutOurKeys(h).block = IF DOMAIN Without(h.env) = {} THEN "none" ELSE "object"
  BY <1>1, StrippedFacts
<1>4. /\ g.kind = "object" /\ g.block = WithoutOurKeys(f).block
      /\ g.env = Without(f.env) /\ g.rest = f.rest
  BY <1>2, SameFields
<1>5. SameJson(g, WithoutOurKeys(h))
  BY <1>1, <1>2, <1>3, <1>4, SameFields
<1> QED BY <1>5 DEF h

\* ... and of a file that held none of our keys an uninstall would leave all.
LEMMA MergedFirst ==
  ASSUME NEW f, NEW addr \in Port, FileShape(f), f.kind = "object", f.block # "other",
         Clean(f)
  PROVE  SameJson(f, WithoutOurKeys(Merged(f, addr)))
<1> DEFINE h == Merged(f, addr)
<1>1. /\ FileShape(h) /\ h.kind = "object" /\ h.block = "object" /\ h.rest = f.rest
      /\ Without(h.env) = Without(f.env)
  BY MergedFacts
<1> HIDE DEF h
<1>2. /\ f.env \in EnvBlock /\ f.block \in {"none", "object"}
      /\ f.block = "none" => f.env = NoEnv
  BY Shapes DEF Shaped, File
<1>3. Without(f.env) = f.env
  BY <1>2, WithoutFacts DEF Clean, NoneOfOurs
<1>4. f.block = IF DOMAIN f.env = {} THEN "none" ELSE "object"
  BY <1>2 DEF Clean, NoEnv
<1>5. /\ FileShape(WithoutOurKeys(h)) /\ WithoutOurKeys(h).kind = "object"
      /\ WithoutOurKeys(h).rest = h.rest /\ WithoutOurKeys(h).env = Without(h.env)
      /\ WithoutOurKeys(h).block = IF DOMAIN Without(h.env) = {} THEN "none" ELSE "object"
  BY <1>1, StrippedFacts
<1>6. SameJson(f, WithoutOurKeys(h))
  BY <1>1, <1>3, <1>4, <1>5, SameFields
<1> QED BY <1>6 DEF h

\* Of a file toolog created nothing is left.
LEMMA MergedNew ==
  ASSUME NEW addr \in Port
  PROVE  Empty(WithoutOurKeys(Merged(NoFile, addr)))
<1> DEFINE h == Merged(NoFile, addr)
<1>1. /\ FileShape(h) /\ h.kind = "object" /\ h.block = "object" /\ h.rest = 0
      /\ Without(h.env) = Without(NoEnv)
  BY NoFileFacts, MergedFacts
<1> HIDE DEF h
<1>2. DOMAIN Without(NoEnv) = {}
  BY DEF Without, NoEnv
<1>3. /\ WithoutOurKeys(h).rest = h.rest
      /\ WithoutOurKeys(h).block = IF DOMAIN Without(h.env) = {} THEN "none" ELSE "object"
  BY <1>1, StrippedFacts
<1>4. Empty(WithoutOurKeys(h))
  BY <1>1, <1>2, <1>3 DEF Empty
<1> QED BY <1>4 DEF h

\* The first copy is the oldest, and one taken now is no older.
LEMMA OldestFacts ==
  ASSUME NEW copies, DOMAIN copies # {}, NEW N \in Nat, DOMAIN copies \subseteq 0..N
  PROVE  \E t \in DOMAIN copies : /\ Oldest(copies) = copies[t]
                                  /\ \A u \in DOMAIN copies : t <= u
<1>1. \E t \in DOMAIN copies : \A u \in DOMAIN copies : t <= u
  <2>1. DOMAIN copies \in SUBSET (0..N)
    OBVIOUS
  <2> QED BY <2>1, HasLeast
<1> QED BY <1>1 DEF Oldest

LEMMA BackedUpFacts ==
  ASSUME NEW copies, NEW f, now \in Nat, DOMAIN copies \subseteq 0..now
  PROVE  /\ DOMAIN BackedUp(copies, f) = DOMAIN copies \cup {now}
         /\ \A t \in DOMAIN BackedUp(copies, f) : BackedUp(copies, f)[t] \in {f, copies[t]}
         /\ \A t \in DOMAIN BackedUp(copies, f) :
              t \notin DOMAIN copies => BackedUp(copies, f)[t] = f
         /\ DOMAIN copies = {} => Oldest(BackedUp(copies, f)) = f
         /\ DOMAIN copies # {} => Oldest(BackedUp(copies, f)) \in {f, Oldest(copies)}
         /\ DOMAIN copies # {} /\ now \notin DOMAIN copies
              => Oldest(BackedUp(copies, f)) = Oldest(copies)
<1> DEFINE b == BackedUp(copies, f)
<1>1. /\ DOMAIN b = DOMAIN copies \cup {now}
      /\ \A t \in DOMAIN b : b[t] = IF t = now THEN f ELSE copies[t]
  BY DEF BackedUp
<1> HIDE DEF b
<1>2. DOMAIN b # {} /\ DOMAIN b \subseteq 0..now
  BY <1>1
<1>3. PICK t \in DOMAIN b : Oldest(b) = b[t] /\ \A u \in DOMAIN b : t <= u
  BY <1>2, OldestFacts
<1>4. DOMAIN copies = {} => Oldest(b) = f
  BY <1>1, <1>3
<1>5. ASSUME DOMAIN copies # {}
      PROVE  /\ Oldest(b) \in {f, Oldest(copies)}
             /\ now \notin DOMAIN copies => Oldest(b) = Oldest(copies)
  <2>1. PICK s \in DOMAIN copies : /\ Oldest(copies) = copies[s]
                                   /\ \A u \in DOMAIN copies : s <= u
    BY <1>5, OldestFacts
  <2>2. s \in DOMAIN b /\ s \in 0..now /\ t \in 0..now
    BY <1>1, <1>2, <2>1
  <2>3. t <= s
    BY <1>3, <2>2
  <2>4. CASE t = now
    <3>1. s = now
      BY <2>2, <2>3, <2>4
    <3> QED BY <1>1, <1>3, <2>1, <2>4, <3>1
  <2>5. CASE t # now
    <3>1. t \in DOMAIN copies
      BY <1>1, <2>5
    <3>2. s <= t
      BY <2>1, <3>1
    <3>3. s = t
      BY <2>2, <2>3, <3>2
    <3> QED BY <1>1, <1>3, <2>1, <2>5, <3>3
  <2> QED BY <2>4, <2>5
<1>6. /\ DOMAIN b = DOMAIN copies \cup {now}
      /\ \A u \in DOMAIN b : b[u] \in {f, copies[u]}
      /\ \A u \in DOMAIN b : u \notin DOMAIN copies => b[u] = f
  BY <1>1
<1> QED BY <1>4, <1>5, <1>6 DEF b

\* A fix and an uninstall leave what is not ours.
LEMMA TheirsMerged ==
  ASSUME NEW f, FileShape(f), NEW addr \in Port
  PROVE  Theirs(Merged(f, addr)) = Theirs(f)
BY MergedFacts DEF Theirs

LEMMA TheirsStripped ==
  ASSUME NEW f, FileShape(f), f.kind = "object"
  PROVE  /\ Theirs(WithoutOurKeys(f)) = Theirs(f)
         /\ Theirs(Pretty(WithoutOurKeys(f))) = Theirs(f)
<1>1. f.env \in EnvBlock
  BY Shapes DEF Shaped, File
<1>2. Without(Without(f.env)) = Without(f.env)
  BY <1>1, WithoutFacts
<1>3. /\ WithoutOurKeys(f).rest = f.rest /\ WithoutOurKeys(f).env = Without(f.env)
      /\ Pretty(WithoutOurKeys(f)).env = WithoutOurKeys(f).env
      /\ Pretty(WithoutOurKeys(f)).rest = WithoutOurKeys(f).rest
  BY StrippedFacts
<1> QED BY <1>2, <1>3 DEF Theirs

LEMMA TheirsSame ==
  ASSUME NEW f, NEW g, FileShape(f), FileShape(g), SameJson(f, g)
  PROVE  Theirs(f) = Theirs(g)
BY SameFields DEF Theirs

LEMMA TheirsNone ==
  ASSUME NEW f, FileShape(f), OnlyOurs(f)
  PROVE  Theirs(f) = Theirs(NoFile)
<1>1. f.env \in EnvBlock
  BY Shapes DEF Shaped, File
<1>2. /\ WithoutOurKeys(f).rest = f.rest
      /\ WithoutOurKeys(f).block = IF DOMAIN Without(f.env) = {} THEN "none" ELSE "object"
  BY StrippedFacts DEF OnlyOurs
<1>3. f.rest = 0 /\ DOMAIN Without(f.env) = {}
  BY <1>2 DEF OnlyOurs, Empty
<1>4. Without(f.env) = NoEnv
  BY <1>1, <1>3, WithoutFacts
<1>5. Without(NoEnv) = NoEnv
  BY DEF Without, NoEnv
<1> QED BY <1>3, <1>4, <1>5, NoFileFacts DEF Theirs

-----------------------------------------------------------------------------
(* What a runner sees, and the port a fix writes. *)

LEMMA StackFacts ==
  ASSUME NEW r \in Runner, NEW f, FileShape(f), NEW key
  PROVE  LET above == IF key \in DOMAIN higher[r] THEN {higher[r][key]} ELSE {}
             own   == IF key \in DOMAIN f.env THEN {f.env[key]} ELSE {}
         IN  /\ Env(Stack(r, f)[1], key) = above
             /\ AllSettingsOf(Stack(r, f), key) = above \cup own
             /\ Effective(Stack(r, f), key) = IF above # {} THEN above ELSE own
<1>1. f \in File
  BY Shapes DEF Shaped
<1>2. DOMAIN Stack(r, f) = 1..2 /\ Stack(r, f)[2] = f
      /\ Stack(r, f)[1] = [f EXCEPT !.env = higher[r]]
  BY DEF Stack
<1>3. [f EXCEPT !.env = higher[r]].env = higher[r]
  BY <1>1 DEF File
<1>4. /\ Env(Stack(r, f)[1], key) = IF key \in DOMAIN higher[r] THEN {higher[r][key]} ELSE {}
      /\ Env(Stack(r, f)[2], key) = IF key \in DOMAIN f.env THEN {f.env[key]} ELSE {}
  BY <1>2, <1>3 DEF Env
<1>5. AllSettingsOf(Stack(r, f), key) = Env(Stack(r, f)[1], key) \cup Env(Stack(r, f)[2], key)
  <2>1. DOMAIN Stack(r, f) = {1, 2}
    BY <1>2
  <2> QED BY <2>1 DEF AllSettingsOf
<1> QED BY <1>4, <1>5 DEF Effective

\* It is the preferred port or the one that answers, and that one if the files tell
\* where it is.
LEMMA ResolveFacts ==
  ASSUME NEW r \in Runner, NEW f, FileShape(f), app \in Port \cup {"down"}
  PROVE  /\ ResolveAddr(Stack(r, f)) \in Port \cap {Preferred, app}
         /\ Found(r, f, app, ResolveAddr(Stack(r, f)))
<1> DEFINE configured == Effective(Stack(r, f), "endpoint")
<1>1. \E v : configured \subseteq {v}
  BY StackFacts
<1>2. CASE ProbeIsUp(Preferred)
  <2>1. ResolveAddr(Stack(r, f)) = Preferred /\ app = Preferred
    BY <1>2 DEF ResolveAddr, ProbeIsUp
  <2> QED BY <2>1, PortFacts DEF Found, Serves
<1>3. CASE ~ProbeIsUp(Preferred) /\ ~(\E a \in configured \cap Port : ProbeIsUp(a))
  <2>1. ResolveAddr(Stack(r, f)) = Preferred
    BY <1>3 DEF ResolveAddr
  <2>2. app = "down" \/ (app \notin {"down", Preferred} /\ configured # {app})
    BY <1>3, PortFacts DEF ProbeIsUp
  <2> QED BY <2>1, <2>2, PortFacts DEF Found, Serves
<1>4. CASE ~ProbeIsUp(Preferred) /\ \E a \in configured \cap Port : ProbeIsUp(a)
  <2>1. PICK a \in configured \cap Port : app = a
    BY <1>4 DEF ProbeIsUp
  <2>2. configured = {a}
    BY <1>1, <2>1
  <2>3. ResolveAddr(Stack(r, f)) = CHOOSE b \in configured : TRUE
    BY <1>4 DEF ResolveAddr
  <2>4. ResolveAddr(Stack(r, f)) = a
    BY <2>2, <2>3
  <2> QED BY <2>1, <2>4, PortFacts DEF Found, Serves
<1> QED BY <1>2, <1>3, <1>4

\* What a fix writes is what it was to write, and points at nobody else.
LEMMA MergedHolds ==
  ASSUME NEW r \in Runner, NEW f, FileShape(f), MayMerge(r, f), NEW addr \in Port
  PROVE  HoldsOurs(Merged(f, addr))
<1>1. /\ Merged(f, addr).kind = "object" /\ Merged(f, addr).block = "object"
      /\ DOMAIN Merged(f, addr).env = DOMAIN f.env \cup OurKeys
      /\ Merged(f, addr).env["endpoint"] = addr
      /\ \A n \in DOMAIN f.env \ OurKeys : Merged(f, addr).env[n] = f.env[n]
  BY MergedFacts
<1>2. ASSUME "global" \in DOMAIN f.env PROVE IsLoopback(f.env["global"])
  <2>1. PICK above : AllSettingsOf(Stack(r, f), "global") = above \cup {f.env["global"]}
    BY <1>2, StackFacts, Zenon
  <2> QED BY <2>1 DEF MayMerge, Foreign
<1>3. "global" \notin OurKeys
  BY DEF OurKeys
<1> QED BY <1>1, <1>2, <1>3 DEF HoldsOurs

\* The application finds nothing in the way of moving what toolog wrote.
LEMMA HoldsMovable ==
  ASSUME NEW f, FileShape(f), HoldsOurs(f), higher.app = NoEnv, NEW addr
  PROVE  /\ OursToMove(Stack("app", f)) /\ ~Refused(Stack("app", f), f, addr)
         /\ ~NotRewritable(f)
         /\ NoopPlan(f, addr) => f.env["endpoint"] = addr
<1>1. "app" \in Runner /\ DOMAIN higher["app"] = {} /\ "endpoint" \in OurKeys
  BY DEF Runner, NoEnv, OurKeys
<1>2. /\ Effective(Stack("app", f), "endpoint") = {f.env["endpoint"]}
      /\ AllSettingsOf(Stack("app", f), "endpoint") = {f.env["endpoint"]}
  BY <1>1, StackFacts DEF HoldsOurs
<1>3. AllSettingsOf(Stack("app", f), "global")
        = IF "global" \in DOMAIN f.env THEN {f.env["global"]} ELSE {}
  BY <1>1, StackFacts
<1>4. IsLoopback(f.env["endpoint"])
  BY DEF HoldsOurs, IsLoopback
<1>5. ~Foreign(Stack("app", f))
  BY <1>2, <1>3, <1>4 DEF Foreign, HoldsOurs
<1>6. Env(f, "endpoint") = {f.env["endpoint"]}
  BY <1>1 DEF Env, HoldsOurs
<1>7. NoopPlan(f, addr) => f.env["endpoint"] = addr
  BY <1>1, <1>6 DEF NoopPlan, DesiredEnv
<1> QED BY <1>2, <1>4, <1>5, <1>7 DEF OursToMove, Refused, NotRewritable, HoldsOurs

\* With the port that answers, or the preferred one, a fix fixes.
LEMMA MergedFixes ==
  ASSUME NEW r \in Runner, NEW f, FileShape(f), NEW addr \in Port,
         addr = app \/ addr = Preferred
  PROVE  LET s == Stack(r, Merged(f, addr)) IN Configured(s) \/ BeyondOurReach(s)
<1> DEFINE g == Merged(f, addr)  s == Stack(r, g)
<1>1. /\ FileShape(g) /\ DOMAIN g.env = DOMAIN f.env \cup OurKeys
      /\ g.env["switch"] = "on" /\ g.env["endpoint"] = addr
  BY MergedFacts
<1> HIDE DEF g
<1>2. \A key \in OurKeys :
        /\ Env(s[1], key) = IF key \in DOMAIN higher[r] THEN {higher[r][key]} ELSE {}
        /\ Effective(s, key) = IF Env(s[1], key) # {} THEN Env(s[1], key) ELSE {g.env[key]}
  BY <1>1, StackFacts
<1> SUFFICES ASSUME \A key \in OurKeys : EnvOk(s, key) \/ Env(s[1], key) = {}
             PROVE  \A key \in OurKeys : EnvOk(s, key)
  BY DEF Configured, BeyondOurReach, g
<1>3. CASE Env(s[1], "endpoint") = {}
  <2>1. Effective(s, "endpoint") = {addr}
    BY <1>1, <1>2, <1>3 DEF OurKeys
  <2>2. ResolveAddr(s) = addr
    <3>1. CASE ProbeIsUp(Preferred)
      BY <3>1 DEF ResolveAddr, ProbeIsUp
    <3>2. CASE ~ProbeIsUp(Preferred) /\ addr = app
      <4>1. \E a \in {addr} \cap Port : ProbeIsUp(a)
        BY <3>2 DEF ProbeIsUp
      <4>2. ResolveAddr(s) = CHOOSE a \in {addr} : TRUE
        BY <2>1, <3>2, <4>1 DEF ResolveAddr
      <4> QED BY <4>2
    <3>3. CASE ~ProbeIsUp(Preferred) /\ addr # app
      <4>1. ~(\E a \in {addr} \cap Port : ProbeIsUp(a))
        BY <3>3 DEF ProbeIsUp
      <4> QED BY <2>1, <3>3, <4>1 DEF ResolveAddr
    <3> QED BY <3>1, <3>2, <3>3
  <2>3. EnvOk(s, "endpoint")
    BY <2>1, <2>2 DEF EnvOk, DesiredEnv
  <2>4. EnvOk(s, "switch")
    <3>1. CASE Env(s[1], "switch") = {}
      <4>1. Effective(s, "switch") = {"on"}
        BY <1>1, <1>2, <3>1 DEF OurKeys
      <4> QED BY <4>1 DEF EnvOk, DesiredEnv
    <3>2. CASE Env(s[1], "switch") # {}
      BY <3>2 DEF OurKeys
    <3> QED BY <3>1, <3>2
  <2> QED BY <2>3, <2>4 DEF OurKeys
<1>4. CASE Env(s[1], "endpoint") # {}
  <2>1. EnvOk(s, "endpoint")
    BY <1>4 DEF OurKeys
  <2>2. EnvOk(s, "switch")
    <3>1. CASE Env(s[1], "switch") = {}
      <4>1. Effective(s, "switch") = {"on"}
        BY <1>1, <1>2, <3>1 DEF OurKeys
      <4> QED BY <4>1 DEF EnvOk, DesiredEnv
    <3>2. CASE Env(s[1], "switch") # {}
      BY <3>2 DEF OurKeys
    <3> QED BY <3>1, <3>2
  <2> QED BY <2>1, <2>2 DEF OurKeys
<1> QED BY <1>3, <1>4

-----------------------------------------------------------------------------
(* Types.  SettingsInv in parts. *)

Job ==
  [what : {"none", "fix", "moved", "uninstall"},
   at : {"idle", "read", "plan", "write", "restore", "remove_file", "remove_keys", "clean"},
   seen : File, out : File, probed : Port \cup {"down"}, alone : BOOLEAN]

CopiesOK(copies) == \A t \in DOMAIN copies : t \in 0..now /\ FileShape(copies[t])
JobOK(j, copies) ==
  /\ j \in Job /\ FileShape(j.seen) /\ FileShape(j.out)
  /\ j.at = "restore" => DOMAIN copies # {}
PortsOK == /\ app \in Port \cup {"down"} /\ busy \subseteq {Preferred} /\ app \notin busy
           /\ app = "down" => job.app = NoJob
AgentOK == agent \in [plist : BOOLEAN, loaded : BOOLEAN] /\ (agent.loaded => agent.plist)
AboveOK == higher \in [Runner -> EnvBlock] /\ higher.app = NoEnv
LeftOK == left \in [Bounded -> Nat]
JobsOK == job \in [Runner -> Job] /\ \A r \in Runner : JobOK(job[r], backups)

LEMMA IdleFacts ==
  /\ NoJob \in Job /\ FileShape(NoJob.seen) /\ FileShape(NoJob.out)
  /\ NoJob.what = "none" /\ NoJob.at = "idle" /\ NoJob.alone
BY Shapes, NoFileFacts DEF NoJob, Job, Shaped

LEMMA JobShapes ==
  \A j : JobShape(j) <=> j \in Job /\ FileShape(j.seen) /\ FileShape(j.out)
<1> SUFFICES ASSUME NEW j
             PROVE  JobShape(j) <=> j \in Job /\ FileShape(j.seen) /\ FileShape(j.out)
  OBVIOUS
<1>1. JobShape(j) => j \in Job /\ FileShape(j.seen) /\ FileShape(j.out)
  <2>1. CASE j = NoJob
    BY <2>1, IdleFacts
  <2>2. CASE j # NoJob
    <3>1. JobShape(j) => j.seen \in File /\ j.out \in File
      BY <2>2, Shapes DEF Shaped, JobShape
    <3> QED BY <2>2, <3>1 DEF Job, JobShape
  <2> QED BY <2>1, <2>2
<1>2. j \in Job /\ FileShape(j.seen) /\ FileShape(j.out) => JobShape(j)
  BY DEF Job, JobShape
<1> QED BY <1>1, <1>2

LEMMA AboveIs == higher \in [app : {NoEnv}, cli : EnvBlock] <=> AboveOK
<1>1. higher \in [app : {NoEnv}, cli : EnvBlock] => AboveOK
  <2>1. NoEnv \in EnvBlock
    BY DEF NoEnv, EnvBlock
  <2> QED BY <2>1 DEF AboveOK, Runner
<1>2. AboveOK => higher \in [app : {NoEnv}, cli : EnvBlock]
  BY DEF AboveOK, Runner
<1> QED BY <1>1, <1>2

LEMMA InParts ==
  SettingsInv <=> /\ FileShape(file) /\ now \in Nat /\ CopiesOK(backups)
                  /\ AboveOK /\ JobsOK /\ PortsOK /\ AgentOK /\ LeftOK
<1>1. (/\ job = [r \in Runner |-> job[r]]
       /\ \A r \in Runner :
            JobShape(job[r]) /\ (job[r].at = "restore" => DOMAIN backups # {}))
      <=> JobsOK
  BY JobShapes DEF JobsOK, JobOK
<1> QED BY <1>1, AboveIs DEF SettingsInv, CopiesOK, PortsOK, AgentOK, LeftOK

LEMMA InPartsNext ==
  ASSUME FileShape(file)', (now \in Nat)', CopiesOK(backups)',
         AboveOK', JobsOK', PortsOK', AgentOK', LeftOK'
  PROVE  SettingsInv'
<1>1. /\ job' = [r \in Runner |-> job'[r]]
      /\ \A r \in Runner :
            JobShape(job'[r]) /\ (job'[r].at = "restore" => DOMAIN backups' # {})
  BY JobShapes DEF JobsOK, JobOK
<1>2. higher' \in [app : {NoEnv}, cli : EnvBlock]
  BY DEF AboveOK, Runner
<1> QED BY <1>1, <1>2 DEF SettingsInv, CopiesOK, PortsOK, AgentOK, LeftOK

LEMMA Going ==
  ASSUME job \in [Runner -> Job], NEW r \in Runner, NEW next \in Job, Goes(r, next)
  PROVE  /\ job' \in [Runner -> Job] /\ job'[r] = next
         /\ \A q \in Runner \ {r} : job'[q] = job[q]
BY DEF Goes

LEMMA Overtaking ==
  ASSUME NEW j \in Job
  PROVE  /\ Overtaken(j) \in Job
         /\ Overtaken(j).what = j.what /\ Overtaken(j).at = j.at
         /\ Overtaken(j).seen = j.seen /\ Overtaken(j).out = j.out
         /\ Overtaken(j).probed = j.probed
         /\ Overtaken(j) = NoJob <=> j = NoJob
         /\ j # NoJob => ~Overtaken(j).alone
BY IdleFacts DEF Overtaken, Job, NoJob

LEMMA Writing1 ==
  ASSUME job \in [Runner -> Job], NEW r \in Runner, Writes(r)
  PROVE  /\ job' \in [Runner -> Job] /\ job'[r] = NoJob
         /\ \A q \in Runner \ {r} : job'[q] = Overtaken(job[q])
<1>1. \A q \in Runner : Overtaken(job[q]) \in Job
  BY Overtaking
<1> QED BY <1>1, IdleFacts DEF Writes

LEMMA Spending ==
  ASSUME LeftOK, NEW what \in Bounded, Spend(what)
  PROVE  LeftOK'
BY DEF LeftOK, Spend

\* One runner goes on, nobody writes.
LEMMA GoesTyped ==
  ASSUME JobsOK, NEW r \in Runner, NEW next, JobOK(next, backups'), Goes(r, next),
         DOMAIN backups # {} => DOMAIN backups' # {}
  PROVE  JobsOK'
<1>1. next \in Job
  BY DEF JobOK
<1>2. /\ job' \in [Runner -> Job] /\ job'[r] = next
      /\ \A q \in Runner \ {r} : job'[q] = job[q]
  BY <1>1, Going DEF JobsOK
<1>3. \A q \in Runner : JobOK(job'[q], backups')
  BY <1>2 DEF JobsOK, JobOK
<1> QED BY <1>2, <1>3 DEF JobsOK

LEMMA WritesTyped ==
  ASSUME JobsOK, NEW r \in Runner, Writes(r), backups' = backups
  PROVE  JobsOK'
<1>1. /\ job' \in [Runner -> Job] /\ job'[r] = NoJob
      /\ \A q \in Runner \ {r} : job'[q] = Overtaken(job[q])
  BY Writing1 DEF JobsOK
<1>2. ASSUME NEW q \in Runner \ {r} PROVE JobOK(Overtaken(job[q]), backups)
  BY Overtaking DEF JobsOK, JobOK
<1>3. JobOK(NoJob, backups)
  BY IdleFacts DEF JobOK
<1>4. \A q \in Runner : JobOK(job'[q], backups')
  BY <1>1, <1>2, <1>3
<1> QED BY <1>1, <1>4 DEF JobsOK

\* A copy is taken now.
LEMMA CopyTyped ==
  ASSUME now \in Nat, now' = now, CopiesOK(backups), NEW f, FileShape(f),
         backups' = BackedUp(backups, f)
  PROVE  CopiesOK(backups)' /\ DOMAIN backups' # {}
<1>1. DOMAIN backups \subseteq 0..now
  BY DEF CopiesOK
<1>2. /\ DOMAIN backups' = DOMAIN backups \cup {now}
      /\ \A t \in DOMAIN backups' : backups'[t] \in {f, backups[t]}
      /\ \A t \in DOMAIN backups' : t \notin DOMAIN backups => backups'[t] = f
  BY <1>1, BackedUpFacts
<1>3. \A t \in DOMAIN backups' : t \in 0..now /\ FileShape(backups'[t])
  BY <1>2 DEF CopiesOK
<1> QED BY <1>2, <1>3 DEF CopiesOK

LEMMA CopiesStay ==
  ASSUME now \in Nat, now' \in Nat, now <= now', CopiesOK(backups), backups' = backups
  PROVE  CopiesOK(backups)'
BY DEF CopiesOK

\* The port that is bound is one that nobody holds.
LEMMA FirstFreeFacts ==
  ASSUME Free # {}
  PROVE  FirstFree \in Port /\ FirstFree \notin busy
<1>1. Len(Ports) \in Nat /\ DOMAIN Ports = 1..Len(Ports)
  BY SettingsAssumption
<1>2. Free \in SUBSET (0..Len(Ports))
  BY <1>1 DEF Free
<1>3. \E i \in Free : \A j \in Free : i <= j
  BY <1>1, <1>2, HasLeast
<1>4. PICK i \in Free : FirstFree = Ports[i]
  BY <1>3 DEF FirstFree
<1> QED BY <1>4 DEF Free, Port

\* What others may make of a file is a file.
LEMMA EditedFacts ==
  ASSUME FileShape(file), Edit
  PROVE  FileShape(file')
<1>1. CASE file.kind # "object"
  <2>1. file' = AFile("none", NoEnv, 1)
    BY <1>1 DEF Edit
  <2>2. FileShape(AFile("none", NoEnv, 1))
    BY Shapes, NoFileFacts DEF AFile, Shaped, File, NoFile
  <2> QED BY <2>1, <2>2
<1>2. CASE file.kind = "object"
  <2>1. file' \in Edited(file)
    BY <1>2 DEF Edit
  <2>2. FileShape(Unparseable)
    BY Shapes, NoFileFacts DEF Unparseable, AFile, Shaped, File, NoFile
  <2>3. FileShape([file EXCEPT !.rest = 1, !.form = "own"])
    BY Shapes, <1>2 DEF Shaped, File
  <2>4. ASSUME file.block # "other",
               NEW change \in {[endpoint |-> "away"], [theirs |-> "1"]}
        PROVE  FileShape([file EXCEPT !.block = "object", !.env = Overlay(@, change),
                                      !.form = "own"])
    <3> DEFINE over == Overlay(file.env, change)
    <3>1. file.env \in EnvBlock
      BY Shapes DEF Shaped, File
    <3>2. DOMAIN file.env \subseteq Variable /\ file.env \in [DOMAIN file.env -> Value]
      BY <3>1, EnvFacts
    <3>3. /\ DOMAIN change \subseteq Variable
          /\ \A n \in DOMAIN change : change[n] \in Value
      BY DEF Variable, OurKeys, Value
    <3>4. over \in [DOMAIN file.env \cup DOMAIN change -> Value]
      BY <3>2, <3>3 DEF Overlay
    <3>5. over \in EnvBlock
      <4> HIDE DEF over
      <4>1. DOMAIN file.env \cup DOMAIN change \in SUBSET Variable
        BY <3>2, <3>3
      <4> QED BY <3>4, <4>1, EnvMade
    <3> HIDE DEF over
    <3>6. FileShape([file EXCEPT !.block = "object", !.env = over, !.form = "own"])
      BY Shapes, <1>2, <3>5 DEF Shaped, File
    <3> QED BY <3>6 DEF over
  <2> QED BY <2>1, <2>2, <2>3, <2>4 DEF Edited
<1> QED BY <1>1, <1>2

-----------------------------------------------------------------------------
(* The type invariant. *)

LEMMA TypedInit == SettingsInit => SettingsInv
<1> SUFFICES ASSUME SettingsInit PROVE SettingsInv
  OBVIOUS
<1>1. PICK m \in Machines : /\ file = m.file
                            /\ higher = [app |-> NoEnv, cli |-> m.above]
                            /\ left = m.may
  BY DEF SettingsInit
<1>2. FileShape(file) /\ LeftOK
  BY <1>1, SettingsAssumption DEF LeftOK
<1>3. AboveOK
  <2>1. m.above \in EnvBlock /\ NoEnv \in EnvBlock
    BY Shapes, SettingsAssumption, NoFileFacts DEF Shaped, File
  <2> QED BY <1>1, <2>1 DEF AboveOK, Runner
<1>4. now \in Nat /\ CopiesOK(backups)
  BY DEF SettingsInit, CopiesOK
<1>5. JobsOK
  BY IdleFacts DEF SettingsInit, JobsOK, JobOK, Runner
<1>6. PortsOK /\ AgentOK
  BY PortFacts DEF SettingsInit, PortsOK, AgentOK, Runner
<1> QED BY <1>2, <1>3, <1>4, <1>5, <1>6, InParts

\* What the steps of a job leave alone.
LEMMA BeginTyped ==
  ASSUME SettingsInv, NEW r \in Runner, BeginFix(r) \/ BeginUninstall(r) \/ (r = "app" /\ ReadStack)
  PROVE  SettingsInv'
<1>1. /\ FileShape(file) /\ now \in Nat /\ CopiesOK(backups)
      /\ AboveOK /\ JobsOK /\ PortsOK /\ AgentOK /\ LeftOK
  BY InParts
<1>2. /\ file' = file /\ now' = now /\ backups' = backups /\ higher' = higher
      /\ app' = app /\ busy' = busy /\ agent' = agent /\ (r = "app" => app # "down")
      /\ \E next : /\ Goes(r, next) /\ next.seen = file
                   /\ JobOK(next, backups)
  <2>0. /\ file \in File /\ NoJob \in Job /\ FileShape(NoJob.out)
    BY Shapes, <1>1, IdleFacts DEF Shaped
  <2>1. CASE BeginFix(r)
    <3>1. JobOK([NoJob EXCEPT !.what = "fix", !.at = "plan", !.seen = file], backups)
      BY <1>1, <2>0 DEF JobOK, Job, NoJob
    <3>2. PICK next : next = [NoJob EXCEPT !.what = "fix", !.at = "plan", !.seen = file]
      OBVIOUS
    <3>3. next.seen = file
      BY <2>0, <3>2 DEF NoJob
    <3> QED BY <2>1, <3>1, <3>2, <3>3 DEF BeginFix
  <2>2. CASE BeginUninstall(r)
    <3>1. JobOK([NoJob EXCEPT !.what = "uninstall", !.at = "plan", !.seen = file], backups)
      BY <1>1, <2>0 DEF JobOK, Job, NoJob
    <3>2. PICK next : next = [NoJob EXCEPT !.what = "uninstall", !.at = "plan", !.seen = file]
      OBVIOUS
    <3>3. next.seen = file
      BY <2>0, <3>2 DEF NoJob
    <3> QED BY <2>2, <3>1, <3>2, <3>3 DEF BeginUninstall
  <2>3. CASE r = "app" /\ ReadStack
    <3>0. job.app \in Job /\ FileShape(job.app.out) /\ job.app # NoJob
      BY <1>1, <2>3, IdleFacts DEF JobsOK, JobOK, ReadStack, At
    <3>1. JobOK([job.app EXCEPT !.at = "plan", !.seen = file, !.alone = TRUE], backups)
      BY <1>1, <2>0, <3>0 DEF JobOK, Job
    <3>2. PICK next : next = [job.app EXCEPT !.at = "plan", !.seen = file, !.alone = TRUE]
      OBVIOUS
    <3>3. next.seen = file
      BY <3>0, <3>2 DEF Job
    <3> QED BY <1>1, <2>3, <3>0, <3>1, <3>2, <3>3 DEF ReadStack, PortsOK
  <2> QED BY <2>1, <2>2, <2>3
<1>3. PICK next : Goes(r, next) /\ JobOK(next, backups)
  BY <1>2
<1>4. JobsOK'
  BY <1>1, <1>2, <1>3, GoesTyped
<1>5. LeftOK'
  BY <1>1, Spending DEF BeginFix, BeginUninstall, ReadStack, LeftOK, Bounded
<1>6. PortsOK'
  <2>1. r # "app" => job'["app"] = job["app"]
    BY <1>1, <1>3, Going DEF JobsOK, JobOK, Runner
  <2> QED BY <1>1, <1>2, <2>1 DEF PortsOK
<1>7. CopiesOK(backups)' /\ AboveOK' /\ AgentOK'
  BY <1>1, <1>2 DEF CopiesOK, AboveOK, AgentOK
<1>8. FileShape(file)' /\ (now \in Nat)'
  BY <1>1, <1>2
<1> QED BY ONLY <1>4, <1>5, <1>6, <1>7, <1>8, InPartsNext

\* A fix is planned: nothing comes of it, or the copy and what will be written.
Planned(r, next) ==
  /\ next \in Job /\ next.what = job[r].what /\ next.at = "write"
  /\ next.seen = job[r].seen /\ next.alone = job[r].alone /\ next.probed = app
  /\ \E addr \in Port \cap {Preferred, app} :
       /\ next.out = Merged(job[r].seen, addr)
       /\ job[r].what = "moved" => addr = app
       /\ Found(r, job[r].seen, app, addr)
PlansNothing(r) ==
  /\ Goes(r, NoJob) /\ backups' = backups /\ since' = since
PlansFix(r) ==
  /\ \E next : Goes(r, next) /\ Planned(r, next)
  /\ MayMerge(r, job[r].seen)
  /\ backups' = IF file.kind = "absent" THEN backups ELSE BackedUp(backups, file)
  /\ since' = [since EXCEPT
       !.copies = IF since.writes = 0 THEN DOMAIN backups # {} ELSE @,
       !.crowded = @ \/ now \in DOMAIN backups]

LEMMA PlanFixFacts ==
  ASSUME SettingsInv, NEW r \in Runner, PlanFix(r), job[r].what = "moved" => r = "app"
  PROVE  /\ job[r] # NoJob
         /\ file' = file /\ higher' = higher /\ app' = app /\ busy' = busy
         /\ agent' = agent /\ now' = now /\ left' = left
         /\ PlansNothing(r) \/ PlansFix(r)
<1>1. /\ JobsOK /\ PortsOK /\ job[r] \in Job /\ FileShape(job[r].seen)
  BY InParts DEF JobsOK, JobOK
<1>2. job[r] # NoJob /\ job[r].what \in {"fix", "moved"}
  BY IdleFacts DEF PlanFix, At
<1>3. job[r].what = "moved" => app \in Port
  BY <1>1, <1>2 DEF PortsOK
<1> DEFINE seen == job[r].seen
           stack == Stack(r, seen)
           addr == IF job[r].what = "moved" THEN app ELSE ResolveAddr(stack)
           stops == \/ job[r].what = "moved" /\ ~OursToMove(stack)
                    \/ Refused(stack, seen, addr)
                    \/ NoopPlan(seen, addr)
                    \/ NotRewritable(seen)
<1>4. /\ addr \in Port \cap {Preferred, app} /\ (job[r].what = "moved" => addr = app)
      /\ Found(r, seen, app, addr)
  <2>1. CASE job[r].what = "moved"
    BY <1>3, <2>1, PortFacts DEF Found, Serves
  <2>2. CASE job[r].what # "moved"
    BY <1>1, <2>2, ResolveFacts DEF PortsOK
  <2> QED BY <2>1, <2>2
<1>5. CASE stops
  <2>1. PlansNothing(r)
    BY <1>5 DEF PlanFix, PlansNothing
  <2> QED BY <1>2, <2>1 DEF PlanFix
<1>6. CASE ~stops
  <2>1. PICK a : a = addr
    OBVIOUS
  <2>2. PICK next : next = [job[r] EXCEPT !.at = "write", !.out = Merged(seen, a),
                                          !.probed = app]
    OBVIOUS
  <2>3. /\ Goes(r, next)
        /\ backups' = IF file.kind = "absent" THEN backups ELSE BackedUp(backups, file)
        /\ since' = [since EXCEPT
             !.copies = IF since.writes = 0 THEN DOMAIN backups # {} ELSE @,
             !.crowded = @ \/ now \in DOMAIN backups]
    BY <1>6, <2>1, <2>2 DEF PlanFix
  <2>4. /\ a \in Port \cap {Preferred, app} /\ (job[r].what = "moved" => a = app)
        /\ Found(r, seen, app, a)
    BY <1>4, <2>1
  <2>5. Merged(seen, a) \in File
    BY Shapes, <1>1, <2>4, MergedFacts DEF Shaped
  <2>6. app \in Port \cup {"down"}
    BY <1>1 DEF PortsOK
  <2>7. /\ next \in Job /\ next.what = job[r].what /\ next.at = "write"
        /\ next.seen = job[r].seen /\ next.alone = job[r].alone /\ next.probed = app
        /\ next.out = Merged(seen, a)
    BY <1>1, <2>2, <2>5, <2>6 DEF Job
  <2>8. Planned(r, next)
    BY <2>4, <2>7 DEF Planned
  <2>9. MayMerge(r, seen)
    <3>1. ~Foreign(stack) /\ seen.kind \notin {"broken", "list"} /\ seen.block # "other"
      BY <1>6 DEF Refused, NotRewritable
    <3>2. seen.kind \in {"absent", "broken", "list", "object"}
      BY Shapes, <1>1 DEF Shaped, File
    <3> QED BY <3>1, <3>2 DEF MayMerge
  <2>10. PlansFix(r)
    BY <2>3, <2>8, <2>9 DEF PlansFix
  <2> QED BY <1>2, <2>10 DEF PlanFix
<1> QED BY <1>5, <1>6

\* What is planned of an uninstall, and when the keys are removed by hand.
PlansUndo(r, next) ==
  /\ next \in Job /\ next.what = "uninstall" /\ next.seen = job[r].seen
  /\ next.at = PlanSettings(job[r].seen, backups)
  /\ next.out = job[r].out /\ next.alone = job[r].alone
Strips(r, next) ==
  /\ next \in Job /\ next.what = "uninstall" /\ next.at = "write"
  /\ next.seen = file /\ next.out = Pretty(WithoutOurKeys(file)) /\ next.alone

LEMMA PlanUninstallFacts ==
  ASSUME SettingsInv, NEW r \in Runner, PlanUninstall(r)
  PROVE  /\ job[r] # NoJob /\ job[r].what = "uninstall" /\ job[r].at = "plan"
         /\ file' = file /\ higher' = higher /\ app' = app /\ busy' = busy
         /\ now' = now /\ left' = left /\ backups' = backups /\ since' = since
         /\ \E next : Goes(r, next) /\ PlansUndo(r, next)
         /\ \E removes \in BOOLEAN :
              agent' = IF agent.plist THEN [BootOut EXCEPT !.plist = ~removes] ELSE agent
<1>1. job[r] \in Job
  BY InParts DEF JobsOK, JobOK
<1>2. job[r] # NoJob /\ job[r].what = "uninstall" /\ job[r].at = "plan"
  BY IdleFacts DEF PlanUninstall, At
<1>3. PICK next : next = [job[r] EXCEPT !.at = PlanSettings(job[r].seen, backups)]
  OBVIOUS
<1>4. PlanSettings(job[r].seen, backups)
        \in {"clean", "remove_file", "remove_keys", "restore"}
  BY DEF PlanSettings
<1>5. PlansUndo(r, next)
  <2>1. PICK place : place = PlanSettings(job[r].seen, backups)
    OBVIOUS
  <2> QED BY <1>1, <1>2, <1>3, <1>4, <2>1 DEF PlansUndo, Job
<1>6. Goes(r, next)
  BY <1>3 DEF PlanUninstall
<1> QED BY <1>2, <1>5, <1>6 DEF PlanUninstall

LEMMA RemoveKeysFacts ==
  ASSUME SettingsInv, NEW r \in Runner, RemoveKeys(r)
  PROVE  /\ job[r] # NoJob /\ job[r].what = "uninstall" /\ job[r].at = "remove_keys"
         /\ file' = file /\ higher' = higher /\ app' = app /\ busy' = busy
         /\ now' = now /\ left' = left /\ agent' = agent
         /\ since' = [since EXCEPT !.raced = @ \/ ~job[r].alone]
         /\ \/ file.kind # "object" /\ Goes(r, NoJob) /\ backups' = backups
            \/ /\ file.kind = "object" /\ backups' = BackedUp(backups, file)
               /\ \E next : Goes(r, next) /\ Strips(r, next)
<1>1. job[r] \in Job /\ FileShape(file)
  BY InParts DEF JobsOK, JobOK
<1>2. job[r] # NoJob /\ job[r].what = "uninstall" /\ job[r].at = "remove_keys"
  BY IdleFacts DEF RemoveKeys, At
<1>3. CASE file.kind # "object"
  BY <1>2, <1>3 DEF RemoveKeys
<1>4. CASE file.kind = "object"
  <2>1. PICK out : out = Pretty(WithoutOurKeys(file))
    OBVIOUS
  <2>2. file \in File /\ out \in File
    BY Shapes, <1>1, <1>4, <2>1, StrippedFacts DEF Shaped
  <2>3. PICK next : next = [job[r] EXCEPT !.at = "write", !.seen = file, !.alone = TRUE,
                                          !.out = out]
    OBVIOUS
  <2>4. Strips(r, next)
    BY <1>1, <1>2, <2>1, <2>2, <2>3 DEF Strips, Job
  <2>5. Goes(r, next) /\ backups' = BackedUp(backups, file)
    BY <1>4, <2>1, <2>3 DEF RemoveKeys
  <2> QED BY <1>2, <1>4, <2>4, <2>5 DEF RemoveKeys
<1> QED BY <1>3, <1>4

\* A write of ours.
Removal(r) == IF job[r].at = "restore" THEN Oldest(backups) ELSE NoFile
WritingFacts(r) ==
  /\ job[r] # NoJob /\ job[r].at \in {"write", "restore", "remove_file"}
  /\ job[r].at # "write" => job[r].what = "uninstall"
  /\ job[r].what \in {"fix", "moved", "uninstall"}
  /\ file' = IF job[r].at = "write" THEN job[r].out ELSE Removal(r)
  /\ Wrote(r) /\ Writes(r)
  /\ UNCHANGED <<backups, higher, app, busy, agent, now, left>>

LEMMA WriteFacts ==
  ASSUME NEW r \in Runner, WriteFile(r) \/ Revert(r)
  PROVE  WritingFacts(r)
BY IdleFacts DEF WriteFile, Revert, At, WritingFacts, Removal

LEMMA WriteTyped ==
  ASSUME SettingsInv, NEW r \in Runner, WritingFacts(r)
  PROVE  SettingsInv'
<1>1. /\ FileShape(file) /\ now \in Nat /\ CopiesOK(backups)
      /\ AboveOK /\ JobsOK /\ PortsOK /\ AgentOK /\ LeftOK
  BY InParts
<1>2. FileShape(file')
  <2>1. CASE job[r].at = "write"
    BY <1>1, <2>1 DEF JobsOK, JobOK, WritingFacts
  <2>2. CASE job[r].at = "restore"
    <3>1. DOMAIN backups # {}
      BY <1>1, <2>2 DEF JobsOK, JobOK
    <3>2. DOMAIN backups \subseteq 0..now
      BY <1>1 DEF CopiesOK
    <3>3. PICK t \in DOMAIN backups : Oldest(backups) = backups[t]
      BY <1>1, <3>1, <3>2, OldestFacts
    <3> QED BY <1>1, <2>2, <3>3 DEF CopiesOK, WritingFacts, Removal
  <2>3. CASE job[r].at = "remove_file"
    BY <2>3, NoFileFacts DEF WritingFacts, Removal
  <2> QED BY <2>1, <2>2, <2>3 DEF WritingFacts
<1>3. JobsOK'
  BY <1>1, WritesTyped DEF WritingFacts
<1>4. PortsOK'
  <2>1. job["app"] = NoJob => job'["app"] = NoJob
    <3>1. job \in [Runner -> Job] /\ "app" \in Runner
      BY <1>1 DEF JobsOK, Runner
    <3>2. job'["app"] \in {NoJob, Overtaken(job["app"])}
      BY <3>1, Writing1 DEF WritingFacts
    <3> QED BY <3>2 DEF Overtaken
  <2>2. app' = app /\ busy' = busy
    BY DEF WritingFacts
  <2> QED BY <1>1, <2>1, <2>2 DEF PortsOK
<1>5. CopiesOK(backups)' /\ AboveOK' /\ AgentOK' /\ LeftOK' /\ (now \in Nat)'
  BY <1>1 DEF WritingFacts, CopiesOK, AboveOK, AgentOK, LeftOK
<1> QED BY ONLY <1>2, <1>3, <1>4, <1>5, InPartsNext

\* The other steps of a job.
LEMMA PlanTyped ==
  ASSUME SettingsInv, NEW r \in Runner, PlanFix(r), job[r].what = "moved" => r = "app"
  PROVE  SettingsInv'
<1>1. /\ FileShape(file) /\ now \in Nat /\ CopiesOK(backups)
      /\ AboveOK /\ JobsOK /\ PortsOK /\ AgentOK /\ LeftOK
  BY InParts
<1>2. /\ job[r] # NoJob
      /\ file' = file /\ higher' = higher /\ app' = app /\ busy' = busy
      /\ agent' = agent /\ now' = now /\ left' = left
      /\ PlansNothing(r) \/ PlansFix(r)
  BY PlanFixFacts
<1>3. /\ \E next : Goes(r, next) /\ JobOK(next, backups')
      /\ CopiesOK(backups)' /\ (DOMAIN backups # {} => DOMAIN backups' # {})
  <2>1. CASE PlansNothing(r)
    <3>1. JobOK(NoJob, backups)
      BY IdleFacts DEF JobOK
    <3> QED BY <1>1, <1>2, <2>1, <3>1 DEF PlansNothing, CopiesOK
  <2>2. CASE PlansFix(r)
    <3>1. PICK next : Goes(r, next) /\ Planned(r, next)
      BY <2>2 DEF PlansFix
    <3>2. FileShape(job[r].seen)
      BY <1>1 DEF JobsOK, JobOK
    <3>3. FileShape(next.out)
      BY <3>1, <3>2, MergedFacts DEF Planned
    <3>4. JobOK(next, backups')
      BY <3>1, <3>2, <3>3 DEF JobOK, Planned
    <3>5. CopiesOK(backups)' /\ (DOMAIN backups # {} => DOMAIN backups' # {})
      <4>1. CASE file.kind = "absent"
        BY <1>1, <1>2, <2>2, <4>1 DEF PlansFix, CopiesOK
      <4>2. CASE file.kind # "absent"
        <5>1. backups' = BackedUp(backups, file)
          BY <2>2, <4>2 DEF PlansFix
        <5> QED BY <1>1, <1>2, <5>1, CopyTyped
      <4> QED BY <4>1, <4>2
    <3> QED BY <3>1, <3>4, <3>5
  <2> QED BY <1>2, <2>1, <2>2
<1>4. PICK next : Goes(r, next) /\ JobOK(next, backups')
  BY <1>3
<1>5. JobsOK'
  BY <1>1, <1>3, <1>4, GoesTyped
<1>6. PortsOK'
  <2>1. r # "app" => job'["app"] = job["app"]
    BY <1>1, <1>4, Going DEF JobsOK, JobOK, Runner
  <2> QED BY <1>1, <1>2, <2>1 DEF PortsOK
<1>7. AboveOK' /\ AgentOK' /\ LeftOK' /\ FileShape(file)' /\ (now \in Nat)'
  BY <1>1, <1>2 DEF AboveOK, AgentOK, LeftOK
<1> QED BY ONLY <1>3, <1>5, <1>6, <1>7, InPartsNext

LEMMA UndoTyped ==
  ASSUME SettingsInv, NEW r \in Runner, PlanUninstall(r) \/ LeaveFile(r) \/ RemoveKeys(r)
  PROVE  SettingsInv'
<1>1. /\ FileShape(file) /\ now \in Nat /\ CopiesOK(backups)
      /\ AboveOK /\ JobsOK /\ PortsOK /\ AgentOK /\ LeftOK
  BY InParts
<1>2. /\ JobOK(NoJob, backups) /\ FileShape(job[r].seen) /\ FileShape(job[r].out)
  BY <1>1, IdleFacts DEF JobsOK, JobOK
<1>3. /\ job[r] # NoJob
      /\ file' = file /\ higher' = higher /\ app' = app /\ busy' = busy
      /\ now' = now /\ left' = left /\ AgentOK'
      /\ \E next : Goes(r, next) /\ JobOK(next, backups')
      /\ CopiesOK(backups)' /\ (DOMAIN backups # {} => DOMAIN backups' # {})
  <2>1. CASE PlanUninstall(r)
    <3>1. PICK next : Goes(r, next) /\ PlansUndo(r, next)
      BY <2>1, PlanUninstallFacts
    <3>2. backups' = backups /\ now' = now
      BY <2>1, PlanUninstallFacts
    <3>3. next.at = "restore" => DOMAIN backups # {}
      BY <3>1 DEF PlansUndo, PlanSettings
    <3>4. JobOK(next, backups)
      BY <1>2, <3>1, <3>3 DEF JobOK, PlansUndo
    <3>5. AgentOK'
      <4>1. PICK removes \in BOOLEAN :
              agent' = IF agent.plist THEN [BootOut EXCEPT !.plist = ~removes] ELSE agent
        BY <2>1, PlanUninstallFacts
      <4> QED BY <1>1, <4>1 DEF AgentOK, BootOut
    <3>6. CopiesOK(backups)'
      BY <1>1, <3>2 DEF CopiesOK
    <3> QED BY <2>1, <3>1, <3>2, <3>4, <3>5, <3>6, PlanUninstallFacts
  <2>2. CASE LeaveFile(r)
    <3>1. job[r] # NoJob
      BY <2>2, IdleFacts DEF LeaveFile, At
    <3> QED BY <1>1, <1>2, <2>2, <3>1 DEF LeaveFile, AgentOK, CopiesOK
  <2>3. CASE RemoveKeys(r)
    <3>1. /\ job[r] # NoJob
          /\ file' = file /\ higher' = higher /\ app' = app /\ busy' = busy
          /\ now' = now /\ left' = left /\ agent' = agent
          /\ \/ file.kind # "object" /\ Goes(r, NoJob) /\ backups' = backups
             \/ /\ file.kind = "object" /\ backups' = BackedUp(backups, file)
                /\ \E next : Goes(r, next) /\ Strips(r, next)
      BY <2>3, RemoveKeysFacts
    <3>2. CASE file.kind # "object"
      BY <1>1, <1>2, <3>1, <3>2 DEF AgentOK, CopiesOK
    <3>3. CASE file.kind = "object"
      <4>1. PICK next : Goes(r, next) /\ Strips(r, next)
        BY <3>1, <3>3
      <4>2. CopiesOK(backups)' /\ DOMAIN backups' # {}
        BY <1>1, <3>1, <3>3, CopyTyped
      <4>3. FileShape(Pretty(WithoutOurKeys(file)))
        BY <1>1, <3>3, StrippedFacts
      <4>4. JobOK(next, backups')
        BY <1>1, <4>1, <4>2, <4>3 DEF JobOK, Strips
      <4> QED BY <1>1, <3>1, <4>1, <4>2, <4>4 DEF AgentOK
    <3> QED BY <3>2, <3>3
  <2> QED BY <2>1, <2>2, <2>3
<1>4. PICK next : Goes(r, next) /\ JobOK(next, backups')
  BY <1>3
<1>5. JobsOK'
  BY <1>1, <1>3, <1>4, GoesTyped
<1>6. PortsOK'
  <2>1. r # "app" => job'["app"] = job["app"]
    BY <1>1, <1>4, Going DEF JobsOK, JobOK, Runner
  <2> QED BY <1>1, <1>3, <2>1 DEF PortsOK
<1>7. AboveOK' /\ LeftOK' /\ FileShape(file)' /\ (now \in Nat)'
  BY <1>1, <1>3 DEF AboveOK, LeftOK
<1> QED BY ONLY <1>3, <1>5, <1>6, <1>7, InPartsNext

\* The application comes and goes.
Moved == [NoJob EXCEPT !.what = "moved", !.at = "read"]
LEMMA MovedFacts ==
  /\ Moved \in Job /\ FileShape(Moved.seen) /\ FileShape(Moved.out)
  /\ Moved.what = "moved" /\ Moved.at = "read" /\ Moved.alone
BY NoFileFacts, IdleFacts DEF Moved, NoJob, Job

LEMMA AppTyped ==
  ASSUME SettingsInv, StartApp \/ StopApp
  PROVE  SettingsInv'
<1>1. /\ FileShape(file) /\ now \in Nat /\ CopiesOK(backups)
      /\ AboveOK /\ JobsOK /\ PortsOK /\ AgentOK /\ LeftOK
  BY InParts
<1>2. "app" \in Runner
  BY DEF Runner
<1>3. /\ file' = file /\ backups' = backups /\ higher' = higher /\ busy' = busy
      /\ agent' = agent /\ now' = now
  BY DEF StartApp, StopApp
<1>4. PICK next \in {NoJob, Moved} : Goes("app", next)
  BY DEF StartApp, StopApp, Moved
<1>5. JobOK(next, backups')
  BY <1>3, <1>4, IdleFacts, MovedFacts DEF JobOK
<1>6. JobsOK'
  BY <1>1, <1>2, <1>3, <1>4, <1>5, GoesTyped
<1>7. PortsOK'
  <2>1. job'["app"] = next
    BY <1>1, <1>2, <1>4, <1>5, Going DEF JobsOK, JobOK
  <2>2. CASE StopApp
    <3>1. app' = "down" /\ Goes("app", NoJob)
      BY <2>2 DEF StopApp
    <3>2. job'["app"] = NoJob
      BY <1>1, <1>2, <3>1, IdleFacts, Going DEF JobsOK
    <3>3. "down" \notin busy
      BY <1>1, PortFacts DEF PortsOK
    <3> QED BY <1>1, <1>3, <3>1, <3>2, <3>3 DEF PortsOK
  <2>3. CASE StartApp
    <3>1. app' = FirstFree /\ Free # {}
      BY <2>3 DEF StartApp
    <3>2. app' \in Port /\ app' \notin busy /\ app' # "down"
      BY <3>1, FirstFreeFacts, PortFacts
    <3> QED BY <1>1, <1>3, <3>2 DEF PortsOK
  <2> QED BY <2>2, <2>3
<1>8. LeftOK'
  BY <1>1, Spending DEF StartApp, StopApp, LeftOK, Bounded
<1>9. CopiesOK(backups)' /\ AboveOK' /\ AgentOK' /\ FileShape(file)' /\ (now \in Nat)'
  BY <1>1, <1>3 DEF CopiesOK, AboveOK, AgentOK
<1> QED BY ONLY <1>6, <1>7, <1>8, <1>9, InPartsNext

LEMMA AgentTyped ==
  ASSUME SettingsInv, InstallAgent \/ UninstallAgent \/ ToggleLoginAgent
  PROVE  SettingsInv'
<1>1. /\ FileShape(file) /\ now \in Nat /\ CopiesOK(backups)
      /\ AboveOK /\ JobsOK /\ PortsOK /\ AgentOK /\ LeftOK
  BY InParts
<1>2. InstallAgent \/ UninstallAgent
  BY DEF ToggleLoginAgent
<1>3. /\ file' = file /\ backups' = backups /\ higher' = higher /\ busy' = busy
      /\ job' = job /\ app' = app /\ now' = now /\ Spend("agents")
  BY <1>2 DEF InstallAgent, UninstallAgent
<1>4. AgentOK'
  BY <1>1, <1>2 DEF InstallAgent, UninstallAgent, BootOut, AgentOK, Bootstrap
<1>5. LeftOK'
  BY <1>1, <1>3, Spending DEF Bounded
<1>6. /\ CopiesOK(backups)' /\ AboveOK' /\ JobsOK' /\ PortsOK' /\ FileShape(file)'
      /\ (now \in Nat)'
  BY <1>1, <1>3 DEF CopiesOK, AboveOK, JobsOK, JobOK, PortsOK
<1> QED BY ONLY <1>4, <1>5, <1>6, InPartsNext

LEMMA OvertakesTyped ==
  ASSUME JobsOK, job' = [r \in Runner |-> Overtaken(job[r])], backups' = backups
  PROVE  JobsOK'
<1>1. \A r \in Runner : JobOK(Overtaken(job[r]), backups)
  BY Overtaking DEF JobsOK, JobOK
<1>2. job' \in [Runner -> Job]
  BY <1>1 DEF JobOK
<1> QED BY <1>1, <1>2 DEF JobsOK

LEMMA OthersTyped ==
  ASSUME SettingsInv, Edit \/ SeizePort \/ Pass
  PROVE  SettingsInv'
<1>1. /\ FileShape(file) /\ now \in Nat /\ CopiesOK(backups)
      /\ AboveOK /\ JobsOK /\ PortsOK /\ AgentOK /\ LeftOK
  BY InParts
<1>2. backups' = backups /\ higher' = higher /\ agent' = agent /\ app' = app
  BY DEF Edit, SeizePort, Pass
<1>3. AboveOK' /\ AgentOK' /\ LeftOK'
  BY <1>1, <1>2, Spending DEF Edit, SeizePort, Pass, AboveOK, AgentOK, LeftOK, Bounded
<1>4. now' \in Nat /\ now <= now' /\ CopiesOK(backups)'
  <2>1. now' \in Nat /\ now <= now'
    BY <1>1 DEF Edit, SeizePort, Pass
  <2> QED BY <1>1, <1>2, <2>1, CopiesStay
<1>5. FileShape(file)'
  BY <1>1, EditedFacts DEF SeizePort, Pass
<1>6. JobsOK' /\ PortsOK'
  <2>1. CASE Edit
    <3>1. /\ job' = [r \in Runner |-> Overtaken(job[r])] /\ busy' = busy
      BY <2>1 DEF Edit
    <3>2. JobsOK'
      BY <1>1, <1>2, <3>1, OvertakesTyped
    <3>3. job["app"] = NoJob => job'["app"] = NoJob
      BY <3>1 DEF Overtaken, Runner
    <3> QED BY <1>1, <1>2, <3>1, <3>2, <3>3 DEF PortsOK
  <2>2. CASE SeizePort
    BY <1>1, <1>2, <2>2 DEF SeizePort, JobsOK, JobOK, PortsOK
  <2>3. CASE Pass
    BY <1>1, <1>2, <2>3 DEF Pass, JobsOK, JobOK, PortsOK
  <2> QED BY <2>1, <2>2, <2>3
<1> QED BY ONLY <1>3, <1>4, <1>5, <1>6, InPartsNext

-----------------------------------------------------------------------------
(* What a job says of the file it goes by. *)

Fits == \A r \in Runner : JobFits(r)

\* A job that does not depend on the files, and one that nobody disturbed.
LEMMA FitsIdle ==
  ASSUME NEW r \in Runner, job[r] = NoJob
  PROVE  JobFits(r)
BY IdleFacts DEF JobFits

LEMMA NextFits ==
  ASSUME NEW r \in Runner, JobFits(r), job'[r] = job[r], file' = file, higher' = higher,
         backups' = backups
  PROVE  JobFits(r)'
BY DEF JobFits, FixReady, Found, MayMerge, Foreign, Stack, Restores

\* Another runner took a copy.
LEMMA FitsBeside ==
  ASSUME SettingsInv, NEW q \in Runner, JobFits(q), job'[q] = job[q], file' = file,
         higher' = higher, backups' = backups \/ backups' = BackedUp(backups, file)
  PROVE  JobFits(q)'
<1>1. job[q].at = "restore" /\ job[q].alone => Restores(backups', file)
  <2> SUFFICES ASSUME job[q].at = "restore", job[q].alone PROVE Restores(backups', file)
    OBVIOUS
  <2>1. Restores(backups, file)
    BY DEF JobFits
  <2>2. CASE backups' = backups
    BY <2>1, <2>2
  <2>3. CASE backups' = BackedUp(backups, file)
    <3>1. DOMAIN backups # {} /\ now \in Nat /\ DOMAIN backups \subseteq 0..now
      BY InParts DEF JobsOK, JobOK, CopiesOK
    <3>2. Oldest(backups') \in {file, Oldest(backups)}
      BY <2>3, <3>1, BackedUpFacts
    <3> QED BY <2>1, <3>2 DEF Restores
  <2> QED BY <2>2, <2>3
<1>2. \A addr : Stack(q, job[q].seen)' = Stack(q, job[q].seen)
  BY DEF Stack
<1> QED BY <1>1, <1>2 DEF JobFits, FixReady, Found, MayMerge

\* Another runner, or someone else, wrote the file.
LEMMA FitsOvertaken ==
  ASSUME SettingsInv, NEW q \in Runner, JobFits(q), job'[q] = Overtaken(job[q]),
         higher' = higher
  PROVE  JobFits(q)'
<1>1. job[q] \in Job
  BY InParts DEF JobsOK, JobOK
<1>2. PICK j : j = Overtaken(job[q])
  OBVIOUS
<1>3. /\ j.what = job[q].what /\ j.at = job[q].at
      /\ j.seen = job[q].seen /\ j.out = job[q].out
      /\ j.probed = job[q].probed
      /\ j = NoJob <=> job[q] = NoJob
      /\ job[q] # NoJob => ~j.alone
  BY <1>1, <1>2, Overtaking
<1>4. job'[q] = j
  BY <1>2
<1>5. CASE job[q] = NoJob
  BY <1>3, <1>4, <1>5, IdleFacts DEF JobFits
<1>6. CASE job[q] # NoJob
  <2>1. ~j.alone
    BY <1>3, <1>6
  <2>2. job[q].what \in {"fix", "moved"} /\ job[q].at = "write"
          => MayMerge(q, job[q].seen)' /\ MayMerge(q, j.seen)' /\ FixReady(q)'
    BY <1>3, <1>4 DEF JobFits, FixReady, Found, MayMerge, Foreign, Stack
  <2> QED BY <1>3, <1>4, <2>1, <2>2 DEF JobFits
<1> QED BY <1>5, <1>6

LEMMA FitsBegun ==
  ASSUME SettingsInv, Fits, NEW r \in Runner,
         BeginFix(r) \/ BeginUninstall(r) \/ (r = "app" /\ ReadStack)
  PROVE  Fits'
<1>0. /\ job \in [Runner -> Job] /\ job[r] \in Job /\ file \in File /\ NoJob \in Job
  BY Shapes, InParts, IdleFacts DEF JobsOK, JobOK, Shaped
<1>1. /\ file' = file /\ backups' = backups /\ higher' = higher
  BY DEF BeginFix, BeginUninstall, ReadStack
<1>2. \E next \in Job : /\ Goes(r, next) /\ next.seen = file /\ next.at = "plan"
                        /\ next.what \in {"fix", "moved", "uninstall"}
                        /\ next.what = "moved" => r = "app"
  <2>1. CASE BeginFix(r)
    <3>1. PICK next : next = [NoJob EXCEPT !.what = "fix", !.at = "plan", !.seen = file]
      OBVIOUS
    <3>2. next \in Job /\ next.seen = file /\ next.at = "plan" /\ next.what = "fix"
      BY <1>0, <3>1 DEF Job
    <3> QED BY <2>1, <3>1, <3>2 DEF BeginFix
  <2>2. CASE BeginUninstall(r)
    <3>1. PICK next : next = [NoJob EXCEPT !.what = "uninstall", !.at = "plan", !.seen = file]
      OBVIOUS
    <3>2. next \in Job /\ next.seen = file /\ next.at = "plan" /\ next.what = "uninstall"
      BY <1>0, <3>1 DEF Job
    <3> QED BY <2>2, <3>1, <3>2 DEF BeginUninstall
  <2>3. CASE r = "app" /\ ReadStack
    <3>1. PICK next : next = [job.app EXCEPT !.at = "plan", !.seen = file, !.alone = TRUE]
      OBVIOUS
    <3>2. job.app.what = "moved"
      BY <2>3 DEF ReadStack, At
    <3>3. next \in Job /\ next.seen = file /\ next.at = "plan" /\ next.what = "moved"
      BY <1>0, <2>3, <3>1, <3>2 DEF Job
    <3> QED BY <2>3, <3>1, <3>3 DEF ReadStack
  <2> QED BY <2>1, <2>2, <2>3
<1>3. PICK next \in Job : /\ Goes(r, next) /\ next.seen = file /\ next.at = "plan"
                          /\ next.what \in {"fix", "moved", "uninstall"}
                          /\ next.what = "moved" => r = "app"
  BY <1>2
<1>4. job'[r] = next /\ \A q \in Runner \ {r} : job'[q] = job[q]
  BY <1>0, <1>3, Going
<1>5. JobFits(r)'
  BY <1>1, <1>3, <1>4 DEF JobFits
<1>6. ASSUME NEW q \in Runner \ {r} PROVE JobFits(q)'
  BY <1>1, <1>4, FitsBeside DEF Fits
<1> QED BY <1>5, <1>6 DEF Fits

LEMMA FitsPlanned ==
  ASSUME SettingsInv, Fits, NEW r \in Runner, PlanFix(r)
  PROVE  Fits'
<1>0. /\ job \in [Runner -> Job] /\ JobFits(r) /\ job[r].at = "plan"
  BY InParts DEF JobsOK, Fits, PlanFix, At
<1>1. /\ file' = file /\ higher' = higher /\ job[r].what \in {"fix", "moved"}
      /\ PlansNothing(r) \/ PlansFix(r)
  BY <1>0, PlanFixFacts DEF JobFits, PlanFix, At
<1>2. backups' = backups \/ backups' = BackedUp(backups, file)
  BY <1>1 DEF PlansNothing, PlansFix
<1>3. JobFits(r)' /\ \A q \in Runner \ {r} : job'[q] = job[q]
  <2>1. CASE PlansNothing(r)
    <3>1. job'[r] = NoJob /\ \A q \in Runner \ {r} : job'[q] = job[q]
      BY <1>0, <2>1, Going, IdleFacts DEF PlansNothing
    <3> QED BY <3>1, IdleFacts DEF JobFits
  <2>2. CASE PlansFix(r)
    <3>1. PICK next : Goes(r, next) /\ Planned(r, next)
      BY <2>2 DEF PlansFix
    <3>2. job'[r] = next /\ \A q \in Runner \ {r} : job'[q] = job[q]
      BY <1>0, <3>1, Going DEF Planned
    <3>3. MayMerge(r, job[r].seen)'
      <4>1. MayMerge(r, job[r].seen)
        BY <2>2 DEF PlansFix
      <4>2. next.seen = job[r].seen
        BY <3>1 DEF Planned
      <4> QED BY <1>1, <3>2, <4>1, <4>2 DEF MayMerge, Foreign, Stack
    <3>4. FixReady(r)'
      BY <1>1, <3>1, <3>2 DEF FixReady, Planned, Found, Stack
    <3>5. next.alone => next.seen = file'
      BY <1>0, <1>1, <3>1 DEF JobFits, Planned
    <3>6. JobFits(r)'
      BY <1>0, <1>1, <3>1, <3>2, <3>3, <3>4, <3>5 DEF JobFits, Planned
    <3> QED BY <3>2, <3>6
  <2> QED BY <1>1, <2>1, <2>2
<1>4. ASSUME NEW q \in Runner \ {r} PROVE JobFits(q)'
  BY <1>1, <1>2, <1>3, FitsBeside DEF Fits
<1> QED BY <1>3, <1>4 DEF Fits

\* What an uninstall decides from what it read.
LEMMA DecisionFacts ==
  ASSUME NEW f, FileShape(f), NEW copies
  PROVE  LET plan == PlanSettings(f, copies)
         IN  /\ plan \in {"clean", "remove_file", "remove_keys", "restore"}
             /\ plan = "remove_file" => OnlyOurs(f)
             /\ plan = "restore" => DOMAIN copies # {} /\ Restores(copies, f)
<1>1. OurKeys \cap DOMAIN f.env # {} => f.kind = "object" /\ f.block = "object"
  BY Shapes DEF Shaped, NoEnv
<1> QED BY <1>1 DEF PlanSettings, OnlyOurs, Restores

LEMMA FitsUndone ==
  ASSUME SettingsInv, Fits, NEW r \in Runner,
         PlanUninstall(r) \/ LeaveFile(r) \/ RemoveKeys(r)
  PROVE  Fits'
<1>0. /\ job \in [Runner -> Job] /\ JobFits(r) /\ FileShape(job[r].seen)
  BY InParts DEF JobsOK, JobOK, Fits
<1>1. CASE PlanUninstall(r)
  <2>1. /\ file' = file /\ higher' = higher /\ backups' = backups /\ job[r].at = "plan"
        /\ \E next : Goes(r, next) /\ PlansUndo(r, next)
    BY <1>1, PlanUninstallFacts
  <2>2. PICK next : Goes(r, next) /\ PlansUndo(r, next)
    BY <2>1
  <2>3. job'[r] = next /\ \A q \in Runner \ {r} : job'[q] = job[q]
    BY <1>0, <2>2, Going DEF PlansUndo
  <2>4. /\ next.at \in {"clean", "remove_file", "remove_keys", "restore"}
        /\ next.at = "remove_file" => OnlyOurs(next.seen)
        /\ next.at = "restore" => Restores(backups, next.seen)
    BY <1>0, <2>2, DecisionFacts DEF PlansUndo
  <2>5. next.alone => next.seen = file
    BY <1>0, <2>1, <2>2 DEF JobFits, PlansUndo
  <2>6. JobFits(r)'
    BY <2>1, <2>2, <2>3, <2>4, <2>5 DEF JobFits, PlansUndo
  <2>7. ASSUME NEW q \in Runner \ {r} PROVE JobFits(q)'
    BY <2>1, <2>3, FitsBeside DEF Fits
  <2> QED BY <2>6, <2>7 DEF Fits
<1>2. CASE LeaveFile(r)
  <2>1. /\ file' = file /\ higher' = higher /\ backups' = backups
        /\ job'[r] = NoJob /\ \A q \in Runner \ {r} : job'[q] = job[q]
    BY <1>0, <1>2, Going, IdleFacts DEF LeaveFile
  <2>2. JobFits(r)'
    BY <2>1, IdleFacts DEF JobFits
  <2>3. ASSUME NEW q \in Runner \ {r} PROVE JobFits(q)'
    BY <2>1, FitsBeside DEF Fits
  <2> QED BY <2>2, <2>3 DEF Fits
<1>3. CASE RemoveKeys(r)
  <2>1. /\ file' = file /\ higher' = higher
        /\ \/ file.kind # "object" /\ Goes(r, NoJob) /\ backups' = backups
           \/ /\ file.kind = "object" /\ backups' = BackedUp(backups, file)
              /\ \E next : Goes(r, next) /\ Strips(r, next)
    BY <1>3, RemoveKeysFacts
  <2>2. CASE file.kind # "object"
    <3>1. job'[r] = NoJob /\ \A q \in Runner \ {r} : job'[q] = job[q]
      BY <1>0, <2>1, <2>2, Going, IdleFacts
    <3>2. JobFits(r)'
      BY <3>1, IdleFacts DEF JobFits
    <3>3. ASSUME NEW q \in Runner \ {r} PROVE JobFits(q)'
      BY <2>1, <2>2, <3>1, FitsBeside DEF Fits
    <3> QED BY <3>2, <3>3 DEF Fits
  <2>3. CASE file.kind = "object"
    <3>1. PICK next : Goes(r, next) /\ Strips(r, next)
      BY <2>1, <2>3
    <3>2. job'[r] = next /\ \A q \in Runner \ {r} : job'[q] = job[q]
      BY <1>0, <3>1, Going DEF Strips
    <3>3. JobFits(r)'
      BY <2>1, <2>3, <3>1, <3>2 DEF JobFits, Strips
    <3>4. ASSUME NEW q \in Runner \ {r} PROVE JobFits(q)'
      BY <2>1, <2>3, <3>2, FitsBeside DEF Fits
    <3> QED BY <3>3, <3>4 DEF Fits
  <2> QED BY <2>2, <2>3
<1> QED BY <1>1, <1>2, <1>3

LEMMA FitsWritten ==
  ASSUME SettingsInv, Fits, NEW r \in Runner, WritingFacts(r)
  PROVE  Fits'
<1>1. /\ job'[r] = NoJob /\ \A q \in Runner \ {r} : job'[q] = Overtaken(job[q])
      /\ higher' = higher
  BY InParts, Writing1 DEF JobsOK, WritingFacts
<1>2. JobFits(r)'
  BY <1>1, IdleFacts DEF JobFits
<1>3. ASSUME NEW q \in Runner \ {r} PROVE JobFits(q)'
  BY <1>1, FitsOvertaken DEF Fits
<1> QED BY <1>2, <1>3 DEF Fits

LEMMA FitsOtherwise ==
  ASSUME SettingsInv, Fits,
         \/ StartApp \/ StopApp
         \/ InstallAgent \/ UninstallAgent \/ ToggleLoginAgent
         \/ Edit \/ SeizePort \/ Pass
  PROVE  Fits'
<1>0. job \in [Runner -> Job] /\ "app" \in Runner
  BY InParts DEF JobsOK, Runner
<1>1. CASE StartApp \/ StopApp
  <2>1. /\ file' = file /\ higher' = higher /\ backups' = backups
        /\ \E next \in {NoJob, Moved} : Goes("app", next)
    BY <1>1 DEF StartApp, StopApp, Moved
  <2>2. PICK next \in {NoJob, Moved} : Goes("app", next)
    BY <2>1
  <2>3. job'["app"] = next /\ \A q \in Runner \ {"app"} : job'[q] = job[q]
    BY <1>0, <2>2, Going, IdleFacts, MovedFacts
  <2>4. JobFits("app")'
    BY <2>2, <2>3, IdleFacts, MovedFacts DEF JobFits
  <2>5. ASSUME NEW q \in Runner \ {"app"} PROVE JobFits(q)'
    BY <2>1, <2>3, FitsBeside DEF Fits
  <2> QED BY <2>4, <2>5 DEF Fits
<1>2. CASE Edit
  <2>1. higher' = higher /\ \A q \in Runner : job'[q] = Overtaken(job[q])
    BY <1>2 DEF Edit
  <2> QED BY <2>1, FitsOvertaken DEF Fits
<1>3. CASE \/ InstallAgent \/ UninstallAgent \/ ToggleLoginAgent \/ SeizePort \/ Pass
  <2>1. file' = file /\ higher' = higher /\ backups' = backups /\ job' = job
    BY <1>3 DEF InstallAgent, UninstallAgent, ToggleLoginAgent, SeizePort, Pass
  <2> QED BY <2>1, FitsBeside DEF Fits
<1> QED BY <1>1, <1>2, <1>3

-----------------------------------------------------------------------------
(* What is observed since the first write of ours. *)

LEMMA NotSinceFacts ==
  /\ NotSince \in [origin : File, writes : Nat, edited : BOOLEAN, raced : BOOLEAN,
                   missed : BOOLEAN, copies : BOOLEAN, crowded : BOOLEAN]
  /\ NotSince.writes = 0
BY Shapes, NoFileFacts DEF NotSince, Shaped

\* A write counts.
Counts(r) ==
  /\ since'.origin = IF since.writes = 0 THEN file ELSE since.origin
  /\ since'.writes = since.writes + 1
  /\ since'.edited = since.edited
  /\ since'.raced <=> since.raced \/ ~job[r].alone
  /\ since'.missed <=> app # "down" /\ Env(job[r].out, "endpoint") # {app}
  /\ since'.copies = since.copies /\ since'.crowded = since.crowded

LEMMA WroteFacts ==
  ASSUME SettingsInv, SinceShape, NEW r \in Runner, Wrote(r)
  PROVE  /\ SinceShape'
         /\ job[r].what = "uninstall" => since' = NotSince
         /\ job[r].what # "uninstall" => Counts(r)
<1>0. file \in File /\ job[r] \in Job
  BY Shapes, InParts DEF JobsOK, JobOK, Shaped
<1>1. CASE job[r].what = "uninstall"
  BY <1>1, NotSinceFacts DEF Wrote, SinceShape
<1>2. CASE job[r].what # "uninstall"
  <2>1. PICK overtaken \in BOOLEAN : overtaken <=> since.raced \/ ~job[r].alone
    OBVIOUS
  <2>2. PICK missed \in BOOLEAN : missed <=> app # "down" /\ Env(job[r].out, "endpoint") # {app}
    OBVIOUS
  <2>3. PICK origin \in File : origin = IF since.writes = 0 THEN file ELSE since.origin
    BY <1>0 DEF SinceShape
  <2>4. since' = [since EXCEPT !.origin = IF since.writes = 0 THEN file ELSE @,
                    !.writes = @ + 1, !.raced = @ \/ ~job[r].alone,
                    !.missed = app # "down" /\ Env(job[r].out, "endpoint") # {app}]
    BY <1>2 DEF Wrote
  <2>5. (since.raced \/ ~job[r].alone) = overtaken
    BY <2>1
  <2>6. (app # "down" /\ Env(job[r].out, "endpoint") # {app}) = missed
    BY <2>2
  <2>7. since' = [since EXCEPT !.origin = origin, !.writes = since.writes + 1,
                               !.raced = overtaken, !.missed = missed]
    <3>1. since' = [since EXCEPT !.origin = IF since.writes = 0 THEN file ELSE since.origin,
                      !.writes = since.writes + 1, !.raced = since.raced \/ ~job[r].alone,
                      !.missed = app # "down" /\ Env(job[r].out, "endpoint") # {app}]
      BY <2>4 DEF SinceShape
    <3> QED BY ONLY <3>1, <2>3, <2>5, <2>6
  <2>8. PICK writes \in Nat : writes = since.writes + 1
    BY DEF SinceShape
  <2>9. since' = [since EXCEPT !.origin = origin, !.writes = writes, !.raced = overtaken,
                               !.missed = missed]
    BY ONLY <2>7, <2>8
  <2>10. /\ since'.origin = origin /\ since'.writes = since.writes + 1
         /\ since'.edited = since.edited /\ since'.raced = overtaken /\ since'.missed = missed
         /\ since'.copies = since.copies /\ since'.crowded = since.crowded
    BY <2>8, <2>9 DEF SinceShape
  <2>11. SinceShape'
    BY <2>9 DEF SinceShape
  <2> QED BY <1>2, <2>1, <2>2, <2>3, <2>10, <2>11 DEF Counts
<1> QED BY <1>1, <1>2

\* A copy that a fix takes, and a reading done again, are noticed.
LEMMA NoticedFacts ==
  ASSUME SinceShape, NEW r \in Runner, PlansFix(r)
  PROVE  /\ SinceShape'
         /\ since'.origin = since.origin /\ since'.writes = since.writes
         /\ since'.edited = since.edited /\ since'.raced = since.raced
         /\ since'.missed = since.missed
         /\ since'.copies <=> IF since.writes = 0 THEN DOMAIN backups # {} ELSE since.copies
         /\ since'.crowded <=> since.crowded \/ now \in DOMAIN backups
<1>1. PICK copies \in BOOLEAN :
        copies <=> IF since.writes = 0 THEN DOMAIN backups # {} ELSE since.copies
  OBVIOUS
<1>2. PICK crowded \in BOOLEAN : crowded <=> since.crowded \/ now \in DOMAIN backups
  OBVIOUS
<1>3. (IF since.writes = 0 THEN DOMAIN backups # {} ELSE since.copies) = copies
  BY <1>1 DEF SinceShape
<1>4. (since.crowded \/ now \in DOMAIN backups) = crowded
  BY <1>2
<1>5. since' = [since EXCEPT
        !.copies = IF since.writes = 0 THEN DOMAIN backups # {} ELSE since.copies,
        !.crowded = since.crowded \/ now \in DOMAIN backups]
  BY DEF PlansFix, SinceShape
<1>6. since' = [since EXCEPT !.copies = copies, !.crowded = crowded]
  BY ONLY <1>3, <1>4, <1>5
<1>7. /\ since'.origin = since.origin /\ since'.writes = since.writes
      /\ since'.edited = since.edited /\ since'.raced = since.raced
      /\ since'.missed = since.missed /\ since'.copies = copies /\ since'.crowded = crowded
      /\ SinceShape'
  BY <1>6 DEF SinceShape
<1> QED BY <1>1, <1>2, <1>7

LEMMA RacedFacts ==
  ASSUME SinceShape, NEW late \in BOOLEAN,
         since' = since \/ since' = [since EXCEPT !.raced = @ \/ late]
  PROVE  /\ SinceShape'
         /\ since'.origin = since.origin /\ since'.writes = since.writes
         /\ since'.edited = since.edited /\ since'.missed = since.missed
         /\ since'.copies = since.copies /\ since'.crowded = since.crowded
         /\ since.raced => since'.raced
         /\ since' # since => (since'.raced <=> since.raced \/ late)
<1>1. CASE since' = since
  BY <1>1 DEF SinceShape
<1>2. CASE since' = [since EXCEPT !.raced = @ \/ late]
  <2>1. PICK overtaken \in BOOLEAN : overtaken <=> since.raced \/ late
    OBVIOUS
  <2>2. (since.raced \/ late) = overtaken
    BY <2>1
  <2>3. since' = [since EXCEPT !.raced = since.raced \/ late]
    BY <1>2 DEF SinceShape
  <2>4. since' = [since EXCEPT !.raced = overtaken]
    BY ONLY <2>2, <2>3
  <2>5. /\ since'.origin = since.origin /\ since'.writes = since.writes
        /\ since'.edited = since.edited /\ since'.missed = since.missed
        /\ since'.copies = since.copies /\ since'.crowded = since.crowded
        /\ since'.raced = overtaken /\ SinceShape'
    BY <2>4 DEF SinceShape
  <2> QED BY <2>1, <2>5
<1> QED BY <1>1, <1>2

-----------------------------------------------------------------------------
(* What toolog configured, and the port it sends to. *)

Unnoticed ==
  /\ since'.writes = since.writes /\ since'.edited = since.edited
  /\ since'.missed = since.missed /\ (since.raced => since'.raced)

LEMMA FollowsStays ==
  ASSUME ConfiguredByUs, EndpointFollows, Unnoticed, file' = file, app' = app,
         ConfiguredByUs /\ Moving /\ Ours => Moving' \/ file.env["endpoint"] = app
  PROVE  ConfiguredByUs' /\ EndpointFollows'
<1>1. ConfiguredByUs'
  BY DEF ConfiguredByUs, Ours, Unnoticed
<1>2. EndpointFollows'
  BY DEF EndpointFollows, Ours, Unnoticed
<1> QED BY <1>1, <1>2

LEMMA FollowsBegun ==
  ASSUME SettingsInv, Fits, ConfiguredByUs, EndpointFollows, NEW r \in Runner,
         BeginFix(r) \/ BeginUninstall(r) \/ (r = "app" /\ ReadStack)
  PROVE  ConfiguredByUs' /\ EndpointFollows'
<1>0. job \in [Runner -> Job] /\ "app" \in Runner /\ file \in File
  BY Shapes, InParts DEF JobsOK, Runner, Shaped
<1>1. Unnoticed /\ file' = file /\ app' = app
  BY DEF BeginFix, BeginUninstall, ReadStack, Unnoticed
<1>2. Moving => Moving'
  <2>1. CASE r = "app" /\ ReadStack
    <3>1. PICK next : next = [job.app EXCEPT !.at = "plan", !.seen = file, !.alone = TRUE]
      OBVIOUS
    <3>2. job.app.what = "moved" /\ Goes("app", next)
      BY <2>1, <3>1 DEF ReadStack, At
    <3>3. next \in Job /\ next.seen = file /\ next.at = "plan" /\ next.what = "moved"
      BY <1>0, <3>1, <3>2 DEF Job
    <3>4. job'["app"] = next
      BY <1>0, <3>2, <3>3, Going
    <3> QED BY <1>1, <3>3, <3>4 DEF Moving
  <2>2. CASE BeginFix(r) \/ BeginUninstall(r)
    <3>1. job[r] = NoJob /\ \A q \in Runner \ {r} : job'[q] = job[q]
      BY <2>2, <1>0 DEF BeginFix, BeginUninstall, Goes
    <3>2. CASE r = "app"
      BY <3>1, <3>2, IdleFacts DEF Moving
    <3>3. CASE r # "app"
      <4>1. job'["app"] = job["app"]
        BY <1>0, <3>1, <3>3
      <4> QED BY <1>1, <4>1 DEF Moving
    <3> QED BY <3>2, <3>3
  <2> QED BY <2>1, <2>2
<1> QED BY <1>1, <1>2, FollowsStays

LEMMA FollowsPlanned ==
  ASSUME SettingsInv, SinceShape, Fits, ConfiguredByUs, EndpointFollows, NEW r \in Runner,
         PlanFix(r)
  PROVE  ConfiguredByUs' /\ EndpointFollows'
<1>0. /\ job \in [Runner -> Job] /\ "app" \in Runner /\ FileShape(file) /\ JobFits(r)
      /\ higher.app = NoEnv
  BY InParts DEF JobsOK, Runner, Fits, AboveOK
<1>1. /\ file' = file /\ app' = app /\ job[r].what \in {"fix", "moved"}
      /\ PlansNothing(r) \/ PlansFix(r)
  BY <1>0, PlanFixFacts DEF JobFits, PlanFix, At
<1>2. Unnoticed
  BY <1>1, NoticedFacts DEF PlansNothing, Unnoticed
<1>3. \A q \in Runner \ {r} : job'[q] = job[q]
  BY <1>0, <1>1, Going, IdleFacts DEF PlansNothing, PlansFix, Planned
<1>4. ASSUME ConfiguredByUs, Moving, Ours PROVE Moving' \/ file.env["endpoint"] = app
  <2>1. CASE r # "app"
    <3>1. job'["app"] = job["app"]
      BY <1>0, <1>3, <2>1
    <3> QED BY <1>1, <1>4, <3>1 DEF Moving
  <2>2. CASE r = "app" /\ PlansFix(r)
    <3>1. PICK next : Goes(r, next) /\ Planned(r, next)
      BY <2>2 DEF PlansFix
    <3>2. job'["app"] = next
      BY <1>0, <2>2, <3>1, Going DEF Planned
    <3>3. job["app"].what = "moved" /\ FileShape(job["app"].seen)
      BY <1>0, <1>4, InParts DEF Moving, JobsOK, JobOK
    <3>4. PICK addr \in Port : next.out = Merged(job["app"].seen, addr) /\ addr = app
      BY <2>2, <3>1, <3>3 DEF Planned
    <3>5. next.out.env["endpoint"] = app
      BY <3>3, <3>4, MergedFacts
    <3> QED BY <1>1, <2>2, <3>1, <3>2, <3>3, <3>5 DEF Moving, Planned
  <2>3. CASE r = "app" /\ PlansNothing(r)
    <3>1. job.app.what = "moved" /\ job.app.at = "plan" /\ job.app.seen = file
      BY <1>4, <2>3 DEF Moving, PlanFix, At
    <3>2. HoldsOurs(file)
      BY <1>4 DEF ConfiguredByUs
    <3>3. /\ OursToMove(Stack("app", file)) /\ ~Refused(Stack("app", file), file, app)
          /\ ~NotRewritable(file)
          /\ NoopPlan(file, app) => file.env["endpoint"] = app
      BY <1>0, <3>2, HoldsMovable
    <3>4. CASE NoopPlan(file, app)
      BY <3>3, <3>4
    <3>5. CASE ~NoopPlan(file, app)
      <4>1. \E next : Goes("app", next) /\ next = [job["app"] EXCEPT !.at = "write",
                !.out = Merged(file, app), !.probed = app]
        BY <2>3, <3>1, <3>3, <3>5 DEF PlanFix
      <4>2. PICK next : next = [job["app"] EXCEPT !.at = "write",
                !.out = Merged(file, app), !.probed = app]
        OBVIOUS
      <4>3. Goes("app", next)
        BY <4>1, <4>2
      <4>4. job["app"] \in Job
        BY <1>0
      <4>5. next.at = "write"
        BY <4>2, <4>4 DEF Job
      <4>6. job'["app"] = next /\ job'["app"] = NoJob
        BY <1>0, <2>3, <4>3 DEF Goes, PlansNothing
      <4> QED BY <4>5, <4>6, IdleFacts
    <3> QED BY <3>4, <3>5
  <2> QED BY <1>1, <2>1, <2>2, <2>3
<1> QED BY <1>1, <1>2, <1>4, FollowsStays

LEMMA FollowsUndone ==
  ASSUME SettingsInv, SinceShape, Fits, ConfiguredByUs, EndpointFollows, NEW r \in Runner,
         PlanUninstall(r) \/ LeaveFile(r) \/ RemoveKeys(r)
  PROVE  ConfiguredByUs' /\ EndpointFollows'
<1>0. job \in [Runner -> Job] /\ "app" \in Runner /\ job[r] \in Job
  BY InParts DEF JobsOK, Runner
<1>1. file' = file /\ app' = app /\ job[r].what = "uninstall"
  BY DEF PlanUninstall, LeaveFile, RemoveKeys, At
<1>2. Unnoticed
  <2>1. CASE PlanUninstall(r) \/ LeaveFile(r)
    BY <2>1 DEF PlanUninstall, LeaveFile, Unnoticed
  <2>2. CASE RemoveKeys(r)
    <3>1. since' = [since EXCEPT !.raced = @ \/ ~job[r].alone]
      BY <2>2, RemoveKeysFacts
    <3>2. PICK late \in BOOLEAN : late = ~job[r].alone
      BY <1>0 DEF Job
    <3> QED BY <3>1, <3>2, RacedFacts DEF Unnoticed
  <2> QED BY <2>1, <2>2
<1>3. \A q \in Runner \ {r} : job'[q] = job[q]
  BY <1>0 DEF PlanUninstall, LeaveFile, RemoveKeys, Goes
<1>4. Moving => Moving'
  <2>1. CASE r = "app"
    BY <1>1, <2>1 DEF Moving
  <2>2. CASE r # "app"
    <3>1. job'["app"] = job["app"]
      BY <1>0, <1>3, <2>2
    <3> QED BY <1>1, <3>1 DEF Moving
  <2> QED BY <2>1, <2>2
<1> QED BY <1>1, <1>2, <1>4, FollowsStays

LEMMA FollowsWritten ==
  ASSUME SettingsInv, SinceShape, Fits, NEW r \in Runner, WritingFacts(r)
  PROVE  ConfiguredByUs' /\ EndpointFollows'
<1>1. CASE job[r].what = "uninstall"
  <2>1. since'.writes = 0
    BY <1>1, WroteFacts, NotSinceFacts DEF WritingFacts
  <2> QED BY <2>1 DEF ConfiguredByUs, EndpointFollows, Ours
<1>2. CASE job[r].what # "uninstall"
  <2>1. /\ file' = job[r].out /\ app' = app /\ JobFits(r) /\ Counts(r)
        /\ job[r].what \in {"fix", "moved"} /\ job[r].at = "write"
        /\ FileShape(job[r].seen)
    BY <1>2, WroteFacts, InParts DEF WritingFacts, Fits, JobsOK, JobOK
  <2>2. MayMerge(r, job[r].seen) /\ FixReady(r)
    BY <2>1 DEF JobFits
  <2>3. PICK addr \in Port : job[r].out = Merged(job[r].seen, addr)
    BY <2>2 DEF FixReady
  <2>4. HoldsOurs(job[r].out)
    BY <2>1, <2>2, <2>3, MergedHolds
  <2>5. Env(job[r].out, "endpoint") = {job[r].out.env["endpoint"]}
    BY <2>4 DEF Env, HoldsOurs, OurKeys
  <2>6. ~since'.missed => app = "down" \/ job[r].out.env["endpoint"] = app
    BY <2>1, <2>5 DEF Counts
  <2> QED BY <2>1, <2>4, <2>6 DEF ConfiguredByUs, EndpointFollows, Ours
<1> QED BY <1>1, <1>2

LEMMA EditNoticed ==
  ASSUME SinceShape, Edit
  PROVE  /\ SinceShape' /\ since'.writes = since.writes
         /\ since'.edited <=> since.writes > 0
         /\ ~Ours'
         /\ since'.origin = since.origin /\ since'.raced = since.raced
         /\ since'.copies = since.copies /\ since'.crowded = since.crowded
<1>1. PICK edited \in BOOLEAN : edited <=> since.writes > 0
  OBVIOUS
<1>2. (since.writes > 0) = edited
  BY <1>1 DEF SinceShape
<1>3. since' = [since EXCEPT !.edited = since.writes > 0]
  BY DEF Edit
<1>4. since' = [since EXCEPT !.edited = edited]
  BY ONLY <1>2, <1>3
<1>5. /\ SinceShape' /\ since'.writes = since.writes /\ since'.edited = edited
      /\ since'.origin = since.origin /\ since'.raced = since.raced
      /\ since'.copies = since.copies /\ since'.crowded = since.crowded
  BY <1>4 DEF SinceShape
<1> QED BY <1>1, <1>5 DEF Ours

LEMMA StopNoticed ==
  ASSUME SettingsInv, SinceShape, StopApp
  PROVE  /\ SinceShape' /\ Unnoticed /\ since'.origin = since.origin
         /\ since'.copies = since.copies /\ since'.crowded = since.crowded
         /\ job.app # NoJob => since'.raced
<1>1. CASE job.app = NoJob
  BY <1>1 DEF StopApp, Unnoticed, SinceShape
<1>2. CASE job.app # NoJob
  <2>1. since' = [since EXCEPT !.raced = TRUE]
    BY <1>2 DEF StopApp
  <2>2. /\ SinceShape' /\ Unnoticed /\ since'.origin = since.origin
        /\ since'.copies = since.copies /\ since'.crowded = since.crowded
        /\ since'.raced = TRUE
    BY <2>1 DEF SinceShape, Unnoticed
  <2> QED BY <2>2
<1> QED BY <1>1, <1>2

LEMMA FollowsOtherwise ==
  ASSUME SettingsInv, SinceShape, Fits, ConfiguredByUs, EndpointFollows,
         \/ StartApp \/ StopApp
         \/ InstallAgent \/ UninstallAgent \/ ToggleLoginAgent
         \/ Edit \/ SeizePort \/ Pass
  PROVE  ConfiguredByUs' /\ EndpointFollows'
<1>0. job \in [Runner -> Job] /\ "app" \in Runner
  BY InParts DEF JobsOK, Runner
<1>1. CASE StartApp
  <2>1. /\ file' = file /\ since' = since /\ app' = FirstFree
        /\ Goes("app", IF PortChanged THEN Moved ELSE NoJob)
    BY <1>1 DEF StartApp, Moved
  <2>2. CASE FirstFree = Preferred
    BY <2>1, <2>2 DEF ConfiguredByUs, EndpointFollows, Ours
  <2>3. CASE FirstFree # Preferred
    <3>1. job'["app"] = Moved
      BY <1>0, <2>1, <2>3, MovedFacts, Going DEF PortChanged
    <3>2. Moving'
      BY <3>1, MovedFacts DEF Moving
    <3> QED BY <2>1, <3>2 DEF ConfiguredByUs, EndpointFollows, Ours
  <2> QED BY <2>2, <2>3
<1>2. CASE StopApp
  <2>1. Unnoticed /\ file' = file /\ app' = "down"
    BY <1>2, StopNoticed DEF StopApp
  <2> QED BY <2>1 DEF ConfiguredByUs, EndpointFollows, Ours, Unnoticed
<1>3. CASE Edit
  BY <1>3, EditNoticed DEF ConfiguredByUs, EndpointFollows
<1>4. CASE \/ InstallAgent \/ UninstallAgent \/ ToggleLoginAgent \/ SeizePort \/ Pass
  <2>1. file' = file /\ app' = app /\ job' = job /\ since' = since
    BY <1>4 DEF InstallAgent, UninstallAgent, ToggleLoginAgent, SeizePort, Pass
  <2> QED BY <2>1, FollowsStays DEF Unnoticed, Moving
<1> QED BY <1>1, <1>2, <1>3, <1>4

-----------------------------------------------------------------------------
(* What the first write of ours replaced. *)

Origins == BeforeFirst /\ SinceFirst
CopyTaken(r) ==
  job[r].what \in {"fix", "moved"} /\ Writing(r) /\ job[r].alone

\* Nobody writes, and nobody who was not does so next; r takes no copy.
LEMMA OriginsStay ==
  ASSUME Origins, Unnoticed, since'.origin = since.origin, since'.copies = since.copies,
         since'.crowded = since.crowded, file' = file, backups' = backups,
         \A q \in Runner : CopyTaken(q)' => CopyTaken(q),
         Undoable => \A q \in Runner : Writing(q) => Writing(q)',
         Undoable => \A q \in Runner :
           Deciding(q)' => Deciding(q) /\ job'[q].at = job[q].at
  PROVE  Origins'
<1>1. FirstCopies' => FirstCopies
  BY DEF FirstCopies, Unnoticed
<1>2. BeforeFirst'
  BY <1>1 DEF Origins, BeforeFirst, CopyTaken, Unnoticed
<1>3. Undoable' => Undoable
  BY <1>1 DEF Undoable, Ours, Clean, NoneOfOurs, Unnoticed
<1>4. SinceFirst'
  <2> SUFFICES ASSUME Undoable' PROVE SinceFirst'
    BY DEF SinceFirst
  <2>1. Undoable
    BY <1>3
  <2>2. /\ since.origin.kind \in {"absent", "object"} /\ FileShape(since.origin)
        /\ since.origin.kind = "object" =>
             /\ Kept(backups, since.origin) /\ SameJson(since.origin, WithoutOurKeys(file))
             /\ \A r \in Runner : Deciding(r) => job[r].at = "restore"
        /\ since.origin.kind = "absent" /\ since.writes = 1 =>
             /\ Empty(WithoutOurKeys(file))
             /\ DOMAIN backups = {} \/ \E q \in Runner : Writing(q)
             /\ \A r \in Runner : Deciding(r) =>
                  job[r].at = "remove_file" \/ \E q \in Runner \ {r} : Writing(q)
    BY <2>1 DEF Origins, SinceFirst
  <2>3. /\ \A q \in Runner : Writing(q) => Writing(q)'
        /\ \A q \in Runner : Deciding(q)' => Deciding(q) /\ job'[q].at = job[q].at
        /\ since'.writes = since.writes
    BY <2>1 DEF Unnoticed
  <2>4. since.origin.kind = "object" =>
          /\ Kept(backups, since.origin) /\ SameJson(since.origin, WithoutOurKeys(file))
          /\ \A r \in Runner : Deciding(r)' => job'[r].at = "restore"
    BY <2>2, <2>3
  <2>5. since.origin.kind = "absent" /\ since.writes = 1 =>
          /\ Empty(WithoutOurKeys(file))
          /\ DOMAIN backups = {} \/ \E q \in Runner : Writing(q)'
          /\ \A r \in Runner : Deciding(r)' =>
               job'[r].at = "remove_file" \/ \E q \in Runner \ {r} : Writing(q)'
    BY <2>2, <2>3
  <2> QED BY <2>2, <2>3, <2>4, <2>5 DEF SinceFirst
<1> QED BY <1>2, <1>4 DEF Origins

LEMMA OriginsBegun ==
  ASSUME SettingsInv, Fits, Origins, NEW r \in Runner,
         BeginFix(r) \/ BeginUninstall(r) \/ (r = "app" /\ ReadStack) \/ LeaveFile(r)
  PROVE  Origins'
<1>0. /\ job \in [Runner -> Job] /\ JobFits(r) /\ file \in File /\ NoJob \in Job
  BY Shapes, InParts, IdleFacts DEF JobsOK, Fits, Shaped
<1>1. /\ file' = file /\ backups' = backups /\ since' = since
  BY DEF BeginFix, BeginUninstall, ReadStack, LeaveFile
<1>2. /\ ~Writing(r)
      /\ \E next \in Job : Goes(r, next) /\ (next = NoJob \/ next.at = "plan")
  <2>1. CASE BeginFix(r)
    <3>1. PICK next : next = [NoJob EXCEPT !.what = "fix", !.at = "plan", !.seen = file]
      OBVIOUS
    <3>2. next \in Job /\ next.at = "plan"
      BY <1>0, <3>1 DEF Job
    <3> QED BY <2>1, <3>1, <3>2, IdleFacts DEF BeginFix, Writing
  <2>2. CASE BeginUninstall(r)
    <3>1. PICK next : next = [NoJob EXCEPT !.what = "uninstall", !.at = "plan", !.seen = file]
      OBVIOUS
    <3>2. next \in Job /\ next.at = "plan"
      BY <1>0, <3>1 DEF Job
    <3> QED BY <2>2, <3>1, <3>2, IdleFacts DEF BeginUninstall, Writing
  <2>3. CASE r = "app" /\ ReadStack
    <3>1. PICK next : next = [job.app EXCEPT !.at = "plan", !.seen = file, !.alone = TRUE]
      OBVIOUS
    <3>2. job["app"] \in Job
      BY <1>0, <2>3
    <3>3. next \in Job /\ next.at = "plan"
      BY <1>0, <3>1, <3>2 DEF Job
    <3> QED BY <2>3, <3>1, <3>3 DEF ReadStack, Writing, At
  <2>4. CASE LeaveFile(r)
    BY <1>0, <2>4 DEF LeaveFile, Writing, At
  <2> QED BY <2>1, <2>2, <2>3, <2>4
<1>3. PICK next \in Job : Goes(r, next) /\ (next = NoJob \/ next.at = "plan")
  BY <1>2
<1>4. job'[r] = next /\ \A q \in Runner \ {r} : job'[q] = job[q]
  BY <1>0, <1>3, Going
<1>5. /\ next.at # "write" /\ ~(next.what = "uninstall" /\ next.at # "plan")
  BY <1>3, IdleFacts
<1>6. \A q \in Runner : CopyTaken(q)' => CopyTaken(q)
  BY <1>4, <1>5 DEF CopyTaken, Writing
<1>7. \A q \in Runner : Writing(q) => Writing(q)'
  BY <1>2, <1>4 DEF Writing
<1>8. \A q \in Runner : Deciding(q)' => Deciding(q) /\ job'[q].at = job[q].at
  BY <1>4, <1>5 DEF Deciding
<1> QED BY <1>1, <1>6, <1>7, <1>8, OriginsStay DEF Unnoticed

\* A fix is planned.
LEMMA OriginsPlanned ==
  ASSUME SettingsInv, SinceShape, Fits, Origins, NEW r \in Runner, PlanFix(r)
  PROVE  Origins'
<1>0. /\ job \in [Runner -> Job] /\ JobFits(r) /\ job[r].at = "plan"
      /\ now \in Nat /\ DOMAIN backups \subseteq 0..now /\ FileShape(file)
  BY InParts DEF JobsOK, Fits, PlanFix, At, CopiesOK
<1>1. /\ file' = file /\ job[r].what \in {"fix", "moved"}
      /\ PlansNothing(r) \/ PlansFix(r)
  BY <1>0, PlanFixFacts DEF JobFits, PlanFix, At
<1>2. CASE PlansNothing(r)
  <2>1. job'[r] = NoJob /\ \A q \in Runner \ {r} : job'[q] = job[q]
    BY <1>0, <1>2, Going, IdleFacts DEF PlansNothing
  <2>2. \A q \in Runner : CopyTaken(q)' => CopyTaken(q)
    BY <2>1, IdleFacts DEF CopyTaken, Writing
  <2>3. \A q \in Runner : Writing(q) => Writing(q)'
    BY <1>0, <2>1 DEF Writing
  <2>4. \A q \in Runner : Deciding(q)' => Deciding(q) /\ job'[q].at = job[q].at
    BY <2>1, IdleFacts DEF Deciding
  <2> QED BY <1>1, <1>2, <2>2, <2>3, <2>4, OriginsStay DEF Unnoticed, PlansNothing
<1>3. CASE PlansFix(r)
  <2>1. PICK next : Goes(r, next) /\ Planned(r, next)
    BY <1>3 DEF PlansFix
  <2>2. job'[r] = next /\ \A q \in Runner \ {r} : job'[q] = job[q]
    BY <1>0, <2>1, Going DEF Planned
  <2>3. backups' = IF file.kind = "absent" THEN backups ELSE BackedUp(backups, file)
    BY <1>3 DEF PlansFix
  <2>4. /\ since'.origin = since.origin /\ since'.writes = since.writes
        /\ since'.edited = since.edited /\ since'.raced = since.raced
        /\ since'.copies <=> IF since.writes = 0 THEN DOMAIN backups # {} ELSE since.copies
        /\ since'.crowded <=> since.crowded \/ now \in DOMAIN backups
    BY <1>3, NoticedFacts
  <2>5. BeforeFirst'
    <3> SUFFICES ASSUME since'.writes = 0, FirstCopies'
                 PROVE  IF file'.kind = "absent" THEN DOMAIN backups' = {}
                                                 ELSE Kept(backups', file')
      BY DEF BeforeFirst
    <3>1. DOMAIN backups = {}
      BY <2>4 DEF FirstCopies
    <3>2. CASE file.kind = "absent"
      BY <1>1, <2>3, <3>1, <3>2
    <3>3. CASE file.kind # "absent"
      <4>1. /\ DOMAIN BackedUp(backups, file) = DOMAIN backups \cup {now}
            /\ Oldest(BackedUp(backups, file)) = file
        BY <1>0, <3>1, BackedUpFacts
      <4>2. backups' = BackedUp(backups, file)
        BY <2>3, <3>3
      <4>3. Kept(BackedUp(backups, file), file)
        BY <4>1 DEF Kept
      <4> QED BY <1>1, <3>3, <4>2, <4>3
    <3> QED BY <1>1, <3>2, <3>3
  <2>6. SinceFirst'
    <3> SUFFICES ASSUME Undoable' PROVE SinceFirst'
      BY DEF SinceFirst
    <3>1. since.writes > 0 /\ since.writes # 0
      BY <2>4 DEF Undoable, Ours, SinceShape
    <3>2. Undoable /\ now \notin DOMAIN backups
      BY <2>4, <3>1 DEF Undoable, Ours, FirstCopies, Clean, NoneOfOurs
    <3>3. Kept(backups, since.origin) => Kept(backups', since.origin)
      <4> SUFFICES ASSUME Kept(backups, since.origin) PROVE Kept(backups', since.origin)
        OBVIOUS
      <4>1. CASE file.kind = "absent"
        BY <2>3, <4>1
      <4>2. CASE file.kind # "absent"
        <5>1. DOMAIN backups # {} /\ Oldest(backups) = since.origin
          BY DEF Kept
        <5>2. /\ DOMAIN BackedUp(backups, file) = DOMAIN backups \cup {now}
              /\ Oldest(BackedUp(backups, file)) = Oldest(backups)
          BY <1>0, <3>2, <5>1, BackedUpFacts
        <5>3. Kept(BackedUp(backups, file), since.origin)
          BY <5>1, <5>2 DEF Kept
        <5> QED BY <2>3, <4>2, <5>3
      <4> QED BY <4>1, <4>2
    <3>4. Writing(r)' /\ \A q \in Runner : Writing(q) => Writing(q)'
      BY <2>1, <2>2 DEF Writing, Planned
    <3>5. \A q \in Runner : Deciding(q)' => Deciding(q) /\ q # r /\ job'[q].at = job[q].at
      BY <1>1, <2>1, <2>2 DEF Deciding, Planned
    <3>6. /\ since.origin.kind \in {"absent", "object"} /\ FileShape(since.origin)
          /\ since.origin.kind = "object" =>
               /\ Kept(backups, since.origin) /\ SameJson(since.origin, WithoutOurKeys(file))
               /\ \A q \in Runner : Deciding(q) => job[q].at = "restore"
          /\ since.origin.kind = "absent" /\ since.writes = 1 =>
               /\ Empty(WithoutOurKeys(file))
               /\ DOMAIN backups = {} \/ \E q \in Runner : Writing(q)
               /\ \A q \in Runner : Deciding(q) =>
                    job[q].at = "remove_file" \/ \E p \in Runner \ {q} : Writing(p)
      BY <3>2 DEF Origins, SinceFirst
    <3>7. since.origin.kind = "object" =>
            /\ Kept(backups', since.origin) /\ SameJson(since.origin, WithoutOurKeys(file))
            /\ \A q \in Runner : Deciding(q)' => job'[q].at = "restore"
      BY <3>3, <3>5, <3>6
    <3>8. since.origin.kind = "absent" /\ since.writes = 1 =>
            /\ Empty(WithoutOurKeys(file))
            /\ \E q \in Runner : Writing(q)'
            /\ \A q \in Runner : Deciding(q)' => \E p \in Runner \ {q} : Writing(p)'
      BY <3>4, <3>5, <3>6
    <3> QED BY <1>1, <2>4, <3>6, <3>7, <3>8 DEF SinceFirst
  <2> QED BY <2>5, <2>6 DEF Origins
<1> QED BY <1>1, <1>2, <1>3

\* An uninstall decides: the copy is put back, or the file removed.
LEMMA DecidesRight ==
  ASSUME NEW f, FileShape(f), HoldsOurs(f), NEW copies
  PROVE  /\ DOMAIN copies # {} /\ SameJson(Oldest(copies), WithoutOurKeys(f))
              => PlanSettings(f, copies) = "restore"
         /\ DOMAIN copies = {} /\ Empty(WithoutOurKeys(f))
              => PlanSettings(f, copies) = "remove_file"
<1>1. OurKeys \cap DOMAIN f.env # {}
  BY DEF HoldsOurs, OurKeys
<1>2. f.kind \notin {"broken", "list"}
  BY DEF HoldsOurs
<1> QED BY <1>1, <1>2 DEF PlanSettings

LEMMA OriginsDecided ==
  ASSUME SettingsInv, Fits, ConfiguredByUs, Origins, NEW r \in Runner, PlanUninstall(r)
  PROVE  Origins'
<1>0. job \in [Runner -> Job] /\ JobFits(r) /\ FileShape(file)
  BY InParts DEF JobsOK, Fits
<1>1. /\ file' = file /\ backups' = backups /\ since' = since /\ job[r].at = "plan"
      /\ \E next : Goes(r, next) /\ PlansUndo(r, next)
  BY PlanUninstallFacts
<1>2. PICK next : Goes(r, next) /\ PlansUndo(r, next)
  BY <1>1
<1>3. job'[r] = next /\ \A q \in Runner \ {r} : job'[q] = job[q]
  BY <1>0, <1>2, Going DEF PlansUndo
<1>4. BeforeFirst'
  BY <1>1, <1>2, <1>3 DEF Origins, BeforeFirst, FirstCopies, PlansUndo, Writing
<1>5. SinceFirst'
  <2> SUFFICES ASSUME Undoable' PROVE SinceFirst'
    BY DEF SinceFirst
  <2>1. Undoable
    BY <1>1 DEF Undoable, Ours, FirstCopies, Clean, NoneOfOurs
  <2>2. /\ since.origin.kind \in {"absent", "object"} /\ FileShape(since.origin)
        /\ since.origin.kind = "object" =>
             /\ Kept(backups, since.origin) /\ SameJson(since.origin, WithoutOurKeys(file))
             /\ \A q \in Runner : Deciding(q) => job[q].at = "restore"
        /\ since.origin.kind = "absent" /\ since.writes = 1 =>
             /\ Empty(WithoutOurKeys(file))
             /\ DOMAIN backups = {} \/ \E q \in Runner : Writing(q)
             /\ \A q \in Runner : Deciding(q) =>
                  job[q].at = "remove_file" \/ \E p \in Runner \ {q} : Writing(p)
    BY <2>1 DEF Origins, SinceFirst
  <2>3. ~Writing(r) /\ \A q \in Runner \ {r} : /\ Writing(q)' <=> Writing(q)
                                               /\ Deciding(q)' <=> Deciding(q)
                                               /\ job'[q].at = job[q].at
    BY <1>1, <1>3 DEF Writing, Deciding
  <2>4. HoldsOurs(file)
    BY <2>1 DEF ConfiguredByUs, Undoable
  <2>5. next.alone => job'[r].at = PlanSettings(file, backups)
    BY <1>0, <1>1, <1>2, <1>3 DEF JobFits, PlansUndo
  <2>6. since.origin.kind = "object" => \A q \in Runner : Deciding(q)' => job'[q].at = "restore"
    <3> SUFFICES ASSUME since.origin.kind = "object", NEW q \in Runner, Deciding(q)'
                 PROVE  job'[q].at = "restore"
      OBVIOUS
    <3>1. CASE q # r
      BY <2>2, <2>3, <3>1
    <3>2. CASE q = r
      <4>1. DOMAIN backups # {} /\ SameJson(Oldest(backups), WithoutOurKeys(file))
        BY <2>2 DEF Kept
      <4>2. PlanSettings(file, backups) = "restore"
        BY <1>0, <2>4, <4>1, DecidesRight
      <4> QED BY <1>3, <2>5, <3>2, <4>2 DEF Deciding
    <3> QED BY <3>1, <3>2
  <2>7. since.origin.kind = "absent" /\ since.writes = 1 =>
          /\ DOMAIN backups = {} \/ \E q \in Runner : Writing(q)'
          /\ \A q \in Runner : Deciding(q)' =>
               job'[q].at = "remove_file" \/ \E p \in Runner \ {q} : Writing(p)'
    <3> SUFFICES ASSUME since.origin.kind = "absent", since.writes = 1
                 PROVE  /\ DOMAIN backups = {} \/ \E q \in Runner : Writing(q)'
                        /\ \A q \in Runner : Deciding(q)' =>
                             job'[q].at = "remove_file" \/ \E p \in Runner \ {q} : Writing(p)'
      OBVIOUS
    <3>1. DOMAIN backups = {} \/ \E q \in Runner \ {r} : Writing(q)'
      BY <2>2, <2>3
    <3>2. ASSUME NEW q \in Runner, Deciding(q)'
          PROVE  job'[q].at = "remove_file" \/ \E p \in Runner \ {q} : Writing(p)'
      <4>1. CASE q # r
        <5>1. job[q].at = "remove_file" \/ \E p \in Runner \ {q} : Writing(p)
          BY <2>2, <2>3, <3>2, <4>1
        <5> QED BY <2>3, <4>1, <5>1
      <4>2. CASE q = r /\ DOMAIN backups = {}
        <5>1. PlanSettings(file, backups) = "remove_file"
          BY <1>0, <2>2, <2>4, <4>2, DecidesRight
        <5> QED BY <1>3, <2>5, <3>2, <4>2, <5>1 DEF Deciding
      <4>3. CASE q = r /\ DOMAIN backups # {}
        BY <3>1, <4>3
      <4> QED BY <4>1, <4>2, <4>3
    <3> QED BY <3>1, <3>2
  <2> QED BY <1>1, <2>2, <2>6, <2>7 DEF SinceFirst
<1> QED BY <1>4, <1>5 DEF Origins

\* The keys are removed from what is there.
LEMMA OriginsStripped ==
  ASSUME SettingsInv, SinceShape, Fits, Origins, NEW r \in Runner, RemoveKeys(r)
  PROVE  Origins'
<1>0. /\ job \in [Runner -> Job] /\ job[r] \in Job /\ FileShape(file)
      /\ now \in Nat /\ DOMAIN backups \subseteq 0..now
  BY InParts DEF JobsOK, CopiesOK
<1>1. /\ job[r].what = "uninstall" /\ job[r].at = "remove_keys" /\ file' = file
      /\ since' = [since EXCEPT !.raced = @ \/ ~job[r].alone]
      /\ \/ file.kind # "object" /\ Goes(r, NoJob) /\ backups' = backups
         \/ /\ file.kind = "object" /\ backups' = BackedUp(backups, file)
            /\ \E next : Goes(r, next) /\ Strips(r, next)
  BY RemoveKeysFacts
<1>2. PICK next \in Job : /\ Goes(r, next) /\ next.what \notin {"fix", "moved"}
                          /\ ~(next.what = "uninstall" /\ next.at \notin {"plan", "write"})
                          /\ file.kind = "object" => next.at = "write"
  BY <1>1, IdleFacts DEF Strips
<1>3. job'[r] = next /\ \A q \in Runner \ {r} : job'[q] = job[q]
  BY <1>0, <1>2, Going
<1>4. /\ since'.origin = since.origin /\ since'.writes = since.writes
      /\ since'.edited = since.edited
      /\ since'.copies = since.copies /\ since'.crowded = since.crowded
      /\ since.raced => since'.raced
      /\ ~job[r].alone => since'.raced
  <2>1. PICK late \in BOOLEAN : late = ~job[r].alone
    BY <1>0 DEF Job
  <2>2. since' = [since EXCEPT !.raced = @ \/ late]
    BY <1>1, <2>1
  <2>3. CASE since' # since
    BY <2>1, <2>2, <2>3, RacedFacts
  <2>4. CASE since' = since
    <3>1. since'.raced = (since.raced \/ late)
      BY <2>2 DEF SinceShape
    <3> QED BY <2>1, <2>4, <3>1 DEF SinceShape
  <2> QED BY <2>3, <2>4
<1>5. BeforeFirst'
  <2> SUFFICES ASSUME since'.writes = 0, FirstCopies', NEW q \in Runner, CopyTaken(q)'
               PROVE  IF file'.kind = "absent" THEN DOMAIN backups' = {}
                                               ELSE Kept(backups', file')
    BY DEF BeforeFirst, CopyTaken
  <2>1. CopyTaken(q) /\ q # r
    BY <1>2, <1>3 DEF CopyTaken, Writing
  <2>2. IF file.kind = "absent" THEN DOMAIN backups = {} ELSE Kept(backups, file)
    BY <1>4, <2>1 DEF Origins, BeforeFirst, FirstCopies, CopyTaken
  <2>3. CASE backups' = backups
    BY <1>1, <2>2, <2>3
  <2>4. CASE file.kind = "object" /\ backups' = BackedUp(backups, file)
    <3>1. DOMAIN backups # {} /\ Oldest(backups) = file
      BY <2>2, <2>4 DEF Kept
    <3>2. /\ DOMAIN BackedUp(backups, file) = DOMAIN backups \cup {now}
          /\ Oldest(BackedUp(backups, file)) \in {file, Oldest(backups)}
      BY <1>0, <3>1, BackedUpFacts
    <3>3. Kept(BackedUp(backups, file), file)
      BY <3>1, <3>2 DEF Kept
    <3> QED BY <1>1, <2>4, <3>3
  <2> QED BY <1>1, <2>3, <2>4
<1>6. SinceFirst'
  <2> SUFFICES ASSUME Undoable' PROVE SinceFirst'
    BY DEF SinceFirst
  <2>1. Undoable /\ job[r].alone
    BY <1>4 DEF Undoable, Ours, FirstCopies, Clean, NoneOfOurs
  <2>2. /\ since.origin.kind \in {"absent", "object"} /\ FileShape(since.origin)
        /\ since.origin.kind = "object" => \A q \in Runner : Deciding(q) => job[q].at = "restore"
        /\ since.origin.kind = "absent" /\ since.writes = 1 =>
             /\ Empty(WithoutOurKeys(file))
             /\ \A q \in Runner : Deciding(q) =>
                  job[q].at = "remove_file" \/ \E p \in Runner \ {q} : Writing(p)
    BY <2>1 DEF Origins, SinceFirst
  <2>3. Deciding(r)
    BY <1>1, <2>1 DEF Deciding
  <2>4. since.origin.kind = "absent"
    BY <1>1, <2>2, <2>3
  <2>5. since.writes = 1 =>
          /\ \E q \in Runner : Writing(q)'
          /\ \A q \in Runner : Deciding(q)' =>
               job'[q].at = "remove_file" \/ \E p \in Runner \ {q} : Writing(p)'
    <3> SUFFICES ASSUME since.writes = 1
                 PROVE  /\ \E q \in Runner : Writing(q)'
                        /\ \A q \in Runner : Deciding(q)' =>
                             job'[q].at = "remove_file" \/ \E p \in Runner \ {q} : Writing(p)'
      OBVIOUS
    <3>1. PICK p \in Runner \ {r} : Writing(p)
      BY <1>1, <2>2, <2>3, <2>4
    <3>2. Writing(p)'
      BY <1>3, <3>1 DEF Writing
    <3>3. ASSUME NEW q \in Runner, Deciding(q)'
          PROVE  job'[q].at = "remove_file" \/ \E s \in Runner \ {q} : Writing(s)'
      <4>1. CASE q = r
        BY <3>1, <3>2, <4>1
      <4>2. CASE q # r
        <5>1. Deciding(q) /\ job'[q].at = job[q].at
          BY <1>3, <3>3, <4>2 DEF Deciding
        <5>2. job[q].at = "remove_file" \/ \E s \in Runner \ {q} : Writing(s)
          BY <2>2, <2>4, <5>1
        <5>3. \A s \in Runner : Writing(s) => Writing(s)'
          BY <1>1, <1>3 DEF Writing
        <5> QED BY <5>1, <5>2, <5>3
      <4> QED BY <4>1, <4>2
    <3> QED BY <3>2, <3>3
  <2> QED BY <1>1, <1>4, <2>2, <2>4, <2>5 DEF SinceFirst
<1> QED BY <1>5, <1>6 DEF Origins

\* The file is replaced.
LEMMA OriginsWritten ==
  ASSUME SettingsInv, SinceShape, Fits, ConfiguredByUs, Origins, NEW r \in Runner,
         WritingFacts(r)
  PROVE  Origins'
<1>0. /\ job \in [Runner -> Job] /\ job[r] \in Job /\ JobFits(r) /\ FileShape(file)
      /\ FileShape(job[r].seen)
  BY InParts DEF JobsOK, JobOK, Fits
<1>1. job'[r] = NoJob /\ \A q \in Runner \ {r} : job'[q] = Overtaken(job[q])
  BY <1>0, Writing1 DEF WritingFacts
<1>2. \A q \in Runner : job'[q].alone => job'[q] = NoJob
  BY <1>0, <1>1, Overtaking
<1>3. \A q \in Runner : ~CopyTaken(q)' /\ ~Deciding(q)'
  BY <1>2, IdleFacts DEF CopyTaken, Deciding
<1>4. BeforeFirst'
  BY <1>3 DEF BeforeFirst, CopyTaken
<1>5. SinceFirst'
  <2> SUFFICES ASSUME Undoable' PROVE SinceFirst'
    BY DEF SinceFirst
  <2>1. job[r].what # "uninstall"
    BY WroteFacts, NotSinceFacts DEF WritingFacts, Undoable, Ours
  <2>2. Counts(r)
    BY <2>1, WroteFacts DEF WritingFacts
  <2>3. /\ file' = job[r].out /\ backups' = backups /\ job[r].alone
        /\ job[r].what \in {"fix", "moved"} /\ job[r].at = "write"
    BY <1>0, <2>1, <2>2 DEF WritingFacts, Counts, Undoable, FirstCopies, Job
  <2>4. job[r].seen = file /\ MayMerge(r, file)
    BY <1>0, <2>3 DEF JobFits
  <2>5. PICK addr \in Port : file' = Merged(file, addr)
    BY <1>0, <2>3, <2>4 DEF JobFits, FixReady
  <2>6. since.writes \in Nat /\ FirstCopies
    BY <2>2 DEF SinceShape, Undoable, FirstCopies, Counts
  <2>7. CASE since.writes = 0
    <3>1. since'.origin = file /\ since'.writes = 1 /\ Clean(file)
      BY <2>2, <2>7 DEF Counts, Undoable, Clean, NoneOfOurs
    <3>2. IF file.kind = "absent" THEN DOMAIN backups = {} ELSE Kept(backups, file)
      BY <2>3, <2>6, <2>7 DEF Origins, BeforeFirst, Writing
    <3>3. file.kind \in {"absent", "object"} /\ file.block # "other"
      BY <2>4 DEF MayMerge
    <3>4. file.kind = "object" => SameJson(file, WithoutOurKeys(file'))
      BY <1>0, <2>5, <3>1, <3>3, MergedFirst
    <3>5. file.kind = "absent" => Empty(WithoutOurKeys(file'))
      BY Shapes, <1>0, <2>5, MergedNew DEF Shaped
    <3>6. /\ since'.origin.kind \in {"absent", "object"} /\ FileShape(since'.origin)
          /\ since'.origin.kind = "object" =>
               Kept(backups', since'.origin) /\ SameJson(since'.origin, WithoutOurKeys(file'))
          /\ since'.origin.kind = "absent" =>
               Empty(WithoutOurKeys(file')) /\ DOMAIN backups' = {}
      BY <1>0, <2>3, <3>1, <3>2, <3>3, <3>4, <3>5
    <3> QED BY <1>3, <3>6 DEF SinceFirst
  <2>8. CASE since.writes > 0
    <3>1. since'.origin = since.origin /\ since'.writes # 1 /\ Undoable
      BY <2>2, <2>6, <2>8 DEF Counts, Undoable, Ours, Clean, NoneOfOurs
    <3>2. HoldsOurs(file)
      BY <3>1 DEF ConfiguredByUs, Undoable
    <3>3. /\ since.origin.kind \in {"absent", "object"} /\ FileShape(since.origin)
          /\ since.origin.kind = "object" =>
               Kept(backups, since.origin) /\ SameJson(since.origin, WithoutOurKeys(file))
      BY <3>1 DEF Origins, SinceFirst
    <3>4. since.origin.kind = "object" => SameJson(since.origin, WithoutOurKeys(file'))
      BY <1>0, <2>5, <3>2, <3>3, MergedAgain DEF HoldsOurs
    <3> QED BY <1>3, <2>3, <3>1, <3>3, <3>4 DEF SinceFirst
  <2> QED BY <2>6, <2>7, <2>8
<1> QED BY <1>4, <1>5 DEF Origins

LEMMA OriginsOtherwise ==
  ASSUME SettingsInv, SinceShape, Fits, Origins,
         \/ StartApp \/ StopApp
         \/ InstallAgent \/ UninstallAgent \/ ToggleLoginAgent
         \/ Edit \/ SeizePort \/ Pass
  PROVE  Origins'
<1>0. job \in [Runner -> Job] /\ "app" \in Runner
  BY InParts DEF JobsOK, Runner
<1>1. CASE StartApp
  <2>1. /\ file' = file /\ backups' = backups /\ since' = since /\ job["app"] = NoJob
        /\ \E next \in {NoJob, Moved} : Goes("app", next)
    BY <1>1 DEF StartApp, Moved
  <2>2. PICK next \in {NoJob, Moved} : Goes("app", next)
    BY <2>1
  <2>3. job'["app"] = next /\ \A q \in Runner \ {"app"} : job'[q] = job[q]
    BY <1>0, <2>2, Going, IdleFacts, MovedFacts
  <2>4. \A q \in Runner : CopyTaken(q)' => CopyTaken(q)
    BY <2>2, <2>3, IdleFacts, MovedFacts DEF CopyTaken, Writing
  <2>5. \A q \in Runner : Writing(q) => Writing(q)'
    BY <2>1, <2>3, IdleFacts DEF Writing
  <2>6. \A q \in Runner : Deciding(q)' => Deciding(q) /\ job'[q].at = job[q].at
    BY <2>2, <2>3, IdleFacts, MovedFacts DEF Deciding
  <2> QED BY <2>1, <2>4, <2>5, <2>6, OriginsStay DEF Unnoticed
<1>2. CASE StopApp
  <2>1. /\ file' = file /\ backups' = backups /\ Goes("app", NoJob)
        /\ Unnoticed /\ since'.origin = since.origin
        /\ since'.copies = since.copies /\ since'.crowded = since.crowded
        /\ job.app # NoJob => since'.raced
    BY <1>2, StopNoticed DEF StopApp
  <2>2. job'["app"] = NoJob /\ \A q \in Runner \ {"app"} : job'[q] = job[q]
    BY <1>0, <2>1, Going, IdleFacts
  <2>3. CASE job["app"] = NoJob
    <3>1. \A q \in Runner : job'[q] = job[q]
      BY <2>2, <2>3
    <3>2. \A q \in Runner : CopyTaken(q)' => CopyTaken(q)
      BY <3>1 DEF CopyTaken, Writing
    <3>3. \A q \in Runner : Writing(q) => Writing(q)'
      BY <3>1 DEF Writing
    <3>4. \A q \in Runner : Deciding(q)' => Deciding(q) /\ job'[q].at = job[q].at
      BY <3>1 DEF Deciding
    <3> QED BY <2>1, <3>2, <3>3, <3>4, OriginsStay
  <2>4. CASE job["app"] # NoJob
    <3>1. ~FirstCopies'
      BY <2>1, <2>4 DEF FirstCopies
    <3> QED BY <3>1 DEF Origins, BeforeFirst, SinceFirst, Undoable
  <2> QED BY <2>3, <2>4
<1>3. CASE Edit
  <2>1. \A q \in Runner : job'[q] = Overtaken(job[q])
    BY <1>3 DEF Edit
  <2>2. \A q \in Runner : job'[q].alone => job'[q] = NoJob
    BY <1>0, <2>1, Overtaking
  <2>3. \A q \in Runner : ~CopyTaken(q)'
    BY <2>2, IdleFacts DEF CopyTaken
  <2>4. ~Ours'
    BY <1>3, EditNoticed
  <2> QED BY <2>3, <2>4 DEF Origins, BeforeFirst, CopyTaken, SinceFirst, Undoable
<1>4. CASE \/ InstallAgent \/ UninstallAgent \/ ToggleLoginAgent \/ SeizePort \/ Pass
  <2>1. file' = file /\ backups' = backups /\ job' = job /\ since' = since
    BY <1>4 DEF InstallAgent, UninstallAgent, ToggleLoginAgent, SeizePort, Pass
  <2> QED BY <2>1, OriginsStay DEF Unnoticed, CopyTaken, Writing, Deciding
<1> QED BY <1>1, <1>2, <1>3, <1>4

-----------------------------------------------------------------------------
(* The invariant holds to begin with and after every step. *)

LEMMA InitHolds == SettingsInit => IInv
<1> SUFFICES ASSUME SettingsInit PROVE IInv
  OBVIOUS
<1>1. SettingsInv
  BY TypedInit
<1>2. since = NotSince /\ \A r \in Runner : job[r] = NoJob
  BY DEF SettingsInit
<1>3. SinceShape /\ since.writes = 0
  BY <1>2, NotSinceFacts DEF SinceShape
<1>4. \A r \in Runner : JobFits(r)
  BY <1>2, FitsIdle
<1>5. ConfiguredByUs /\ EndpointFollows /\ SinceFirst
  BY <1>3 DEF ConfiguredByUs, EndpointFollows, SinceFirst, Undoable, Ours
<1>6. BeforeFirst
  BY <1>2, IdleFacts DEF BeforeFirst
<1> QED BY <1>1, <1>3, <1>4, <1>5, <1>6 DEF IInv

LEMMA NextHolds == IInv /\ [SettingsNext]_settingsvars => IInv'
<1> SUFFICES ASSUME IInv, [SettingsNext]_settingsvars PROVE IInv'
  OBVIOUS
<1>0. /\ SettingsInv /\ SinceShape /\ Fits /\ ConfiguredByUs /\ EndpointFollows /\ Origins
  BY DEF IInv, Fits, Origins
<1> SUFFICES /\ SettingsInv' /\ SinceShape' /\ Fits' /\ ConfiguredByUs' /\ EndpointFollows'
             /\ Origins'
  BY DEF IInv, Fits, Origins
<1>1. CASE UNCHANGED settingsvars
  <2>1. /\ file' = file /\ backups' = backups /\ higher' = higher /\ job' = job
        /\ app' = app /\ busy' = busy /\ agent' = agent /\ now' = now /\ left' = left
        /\ since' = since
    BY <1>1 DEF settingsvars
  <2>2. SettingsInv' /\ SinceShape'
    BY <1>0, <2>1 DEF SettingsInv, SinceShape
  <2>3. Fits'
    BY <1>0, <2>1, FitsBeside DEF Fits
  <2>4. ConfiguredByUs' /\ EndpointFollows'
    BY <1>0, <2>1, FollowsStays DEF Unnoticed, Moving
  <2>5. Origins'
    BY <1>0, <2>1, OriginsStay DEF Unnoticed, CopyTaken, Writing, Deciding
  <2> QED BY <2>2, <2>3, <2>4, <2>5
<1>2. ASSUME NEW r \in Runner, BeginFix(r) \/ BeginUninstall(r) \/ (r = "app" /\ ReadStack)
      PROVE  /\ SettingsInv' /\ SinceShape' /\ Fits' /\ ConfiguredByUs' /\ EndpointFollows'
             /\ Origins'
  <2>1. SinceShape'
    BY <1>0, <1>2 DEF BeginFix, BeginUninstall, ReadStack, SinceShape
  <2> QED BY <1>0, <1>2, <2>1, BeginTyped, FitsBegun, FollowsBegun, OriginsBegun
<1>3. ASSUME NEW r \in Runner, PlanFix(r)
      PROVE  /\ SettingsInv' /\ SinceShape' /\ Fits' /\ ConfiguredByUs' /\ EndpointFollows'
             /\ Origins'
  <2>0. job[r].what = "moved" => r = "app"
    BY <1>0 DEF Fits, JobFits
  <2>1. SinceShape'
    <3>1. PlansNothing(r) \/ PlansFix(r)
      BY <1>0, <1>3, <2>0, PlanFixFacts
    <3>2. CASE PlansNothing(r)
      BY <1>0, <3>2 DEF PlansNothing, SinceShape
    <3>3. CASE PlansFix(r)
      BY <1>0, <3>3, NoticedFacts
    <3> QED BY <3>1, <3>2, <3>3
  <2> QED BY <1>0, <1>3, <2>0, <2>1, PlanTyped, FitsPlanned, FollowsPlanned, OriginsPlanned
<1>4. ASSUME NEW r \in Runner, WriteFile(r) \/ Revert(r)
      PROVE  /\ SettingsInv' /\ SinceShape' /\ Fits' /\ ConfiguredByUs' /\ EndpointFollows'
             /\ Origins'
  <2>1. WritingFacts(r)
    BY <1>4, WriteFacts
  <2>2. SinceShape'
    BY <1>0, <2>1, WroteFacts DEF WritingFacts
  <2> QED BY <1>0, <2>1, <2>2, WriteTyped, FitsWritten, FollowsWritten, OriginsWritten
<1>5. ASSUME NEW r \in Runner, PlanUninstall(r) \/ LeaveFile(r) \/ RemoveKeys(r)
      PROVE  /\ SettingsInv' /\ SinceShape' /\ Fits' /\ ConfiguredByUs' /\ EndpointFollows'
             /\ Origins'
  <2>1. SinceShape'
    <3>1. CASE PlanUninstall(r) \/ LeaveFile(r)
      BY <1>0, <3>1 DEF PlanUninstall, LeaveFile, SinceShape
    <3>2. CASE RemoveKeys(r)
      <4>1. since' = [since EXCEPT !.raced = @ \/ ~job[r].alone]
        BY <1>0, <3>2, RemoveKeysFacts
      <4>2. job[r] \in Job
        BY <1>0, InParts DEF JobsOK
      <4>3. PICK late \in BOOLEAN : late = ~job[r].alone
        BY <4>2 DEF Job
      <4> QED BY <1>0, <4>1, <4>3, RacedFacts
    <3> QED BY <1>5, <3>1, <3>2
  <2>2. Origins'
    BY <1>0, <1>5, OriginsBegun, OriginsDecided, OriginsStripped
  <2> QED BY <1>0, <1>5, <2>1, <2>2, UndoTyped, FitsUndone, FollowsUndone
<1>6. ASSUME \/ StartApp \/ StopApp
             \/ InstallAgent \/ UninstallAgent \/ ToggleLoginAgent
             \/ Edit \/ SeizePort \/ Pass
      PROVE  /\ SettingsInv' /\ SinceShape' /\ Fits' /\ ConfiguredByUs' /\ EndpointFollows'
             /\ Origins'
  <2>1. SettingsInv'
    BY <1>0, <1>6, AppTyped, AgentTyped, OthersTyped
  <2>2. SinceShape'
    <3>1. CASE StopApp
      BY <1>0, <3>1, StopNoticed
    <3>2. CASE Edit
      BY <1>0, <3>2, EditNoticed
    <3>3. CASE ~StopApp /\ ~Edit
      <4>1. since' = since
        BY <1>6, <3>3 DEF StartApp, InstallAgent, UninstallAgent, ToggleLoginAgent,
                          SeizePort, Pass
      <4> QED BY <1>0, <4>1 DEF SinceShape
    <3> QED BY <3>1, <3>2, <3>3
  <2> QED BY <1>0, <1>6, <2>1, <2>2, FitsOtherwise, FollowsOtherwise, OriginsOtherwise
<1>7. "app" \in Runner
  BY DEF Runner
<1> QED BY <1>1, <1>2, <1>3, <1>4, <1>5, <1>6, <1>7 DEF SettingsNext

LEMMA Holds == SettingsSpec => []IInv
BY InitHolds, NextHolds, PTL DEF SettingsSpec

-----------------------------------------------------------------------------
(* The theorems. *)

\* The settings file, its copies, the jobs and the login agent keep their shape
\* (settings.rs, uninstall.rs, launchagent.rs), and once nothing is under way what
\* toolog configured sends to the port the application moved to (app.rs
\* on_port_conflict): for any ports, files and bounds.
THEOREM SettingsHeld == SettingsSpec => []SettingsHold
<1>1. IInv => SettingsHold
  <2> SUFFICES ASSUME IInv PROVE MovedReaches
    BY DEF IInv, SettingsHold
  <2> SUFFICES ASSUME Settled, ~since.missed, app \notin {"down", Preferred}
               PROVE  Sends \subseteq {app}
    BY DEF MovedReaches
  <2>1. "app" \in Runner /\ job["app"] = NoJob /\ FileShape(file) /\ Ours
    BY InParts DEF Settled, Runner, IInv, Ours
  <2>2. file.env["endpoint"] = app
    BY <2>1, IdleFacts DEF IInv, EndpointFollows, Moving, Settled
  <2>3. HoldsOurs(file) /\ higher.app = NoEnv
    BY <2>1, InParts DEF IInv, ConfiguredByUs, AboveOK
  <2>4. DOMAIN higher["app"] = {}
    BY <2>3 DEF NoEnv
  <2>5. Effective(Stack("app", file), "endpoint") = {file.env["endpoint"]}
    <3>1. "endpoint" \in DOMAIN file.env
      BY <2>3 DEF HoldsOurs, OurKeys
    <3> QED BY <2>1, <2>4, <3>1, StackFacts
  <2> QED BY <2>2, <2>5 DEF Sends
<1> QED BY <1>1, Holds, PTL

\* Only the runner that is done replaces the file.
LEMMA ReplacesWrites ==
  ASSUME IInv, [SettingsNext]_settingsvars, NEW r \in Runner, Replaces(r)
  PROVE  WritingFacts(r)
<1>1. job \in [Runner -> Job] /\ file' # file /\ job[r] # NoJob /\ job'[r] = NoJob
  BY InParts DEF IInv, JobsOK, Replaces
<1>2. Edit \/ \E q \in Runner : WriteFile(q) \/ Revert(q)
  BY <1>1 DEF SettingsNext, settingsvars, BeginFix, BeginUninstall, PlanFix, PlanUninstall, LeaveFile,
              RemoveKeys, ReadStack, StartApp, StopApp, InstallAgent, UninstallAgent,
              ToggleLoginAgent, SeizePort, Pass
<1>3. job[r] \in Job /\ Overtaken(job[r]) # NoJob
  BY <1>1, Overtaking
<1>4. ~Edit
  BY <1>1, <1>3 DEF Edit
<1>5. PICK q \in Runner : WriteFile(q) \/ Revert(q)
  BY <1>2, <1>4
<1>6. WritingFacts(q)
  BY <1>5, WriteFacts
<1>7. q = r
  BY <1>1, <1>3, <1>6, Writing1 DEF WritingFacts
<1> QED BY <1>6, <1>7

\* A fix or an uninstall that raced with nobody keeps every variable and every
\* setting that is not ours, and no fix replaces a file that points at somebody
\* else's collector or could not be read (settings.rs plan_fix and apply_fix,
\* uninstall.rs plan_settings and apply_settings).
THEOREM TheirsAreKept == SettingsSpec => TheirsKept
<1>1. ASSUME IInv, [SettingsNext]_settingsvars, NEW r \in Runner, Replaces(r), Alone(r)
      PROVE  /\ Theirs(file') = Theirs(file)
             /\ job[r].what # "uninstall"
                  => file.kind \in {"absent", "object"} /\ ~Foreign(Stack(r, file))
  <2>0. /\ SettingsInv /\ JobFits(r) /\ WritingFacts(r) /\ FileShape(file)
        /\ now \in Nat /\ CopiesOK(backups)
    BY <1>1, ReplacesWrites, InParts DEF IInv
  <2>1. job[r].seen = file
    BY <1>1, <2>0 DEF JobFits, Alone, WritingFacts
  <2>2. CASE job[r].at = "write" /\ job[r].what \in {"fix", "moved"}
    <3>1. MayMerge(r, file) /\ \E addr \in Port : job[r].out = Merged(file, addr)
      BY <2>0, <2>1, <2>2 DEF JobFits, FixReady
    <3>2. Theirs(job[r].out) = Theirs(file)
      BY <2>0, <3>1, TheirsMerged
    <3> QED BY <2>0, <2>2, <3>1, <3>2 DEF MayMerge, WritingFacts
  <2>3. CASE job[r].at = "write" /\ job[r].what = "uninstall"
    <3>1. file' = Pretty(WithoutOurKeys(file)) /\ file.kind = "object"
      BY <2>0, <2>1, <2>3 DEF JobFits, WritingFacts
    <3> QED BY <2>0, <2>3, <3>1, TheirsStripped
  <2>4. CASE job[r].at = "restore"
    <3>1. Restores(backups, file) /\ file' = Oldest(backups) /\ job[r].what = "uninstall"
      BY <1>1, <2>0, <2>4 DEF JobFits, Alone, WritingFacts, Removal
    <3>2. CASE Oldest(backups) = file
      BY <3>1, <3>2
    <3>3. CASE file.kind = "object" /\ SameJson(Oldest(backups), WithoutOurKeys(file))
      <4>1. FileShape(WithoutOurKeys(file))
        BY <2>0, <3>3, StrippedFacts
      <4>2. DOMAIN backups # {} /\ DOMAIN backups \subseteq 0..now
        BY <2>0, <2>4 DEF SettingsInv, CopiesOK
      <4>3. FileShape(Oldest(backups))
        <5>1. PICK t \in DOMAIN backups : Oldest(backups) = backups[t]
          BY <2>0, <4>2, OldestFacts
        <5> QED BY <2>0, <5>1 DEF CopiesOK
      <4>4. Theirs(Oldest(backups)) = Theirs(WithoutOurKeys(file))
        BY <3>3, <4>1, <4>3, TheirsSame
      <4>5. Theirs(WithoutOurKeys(file)) = Theirs(file)
        BY <2>0, <3>3, TheirsStripped
      <4> QED BY <3>1, <4>4, <4>5
    <3> QED BY <3>1, <3>2, <3>3 DEF Restores
  <2>5. CASE job[r].at = "remove_file"
    <3>1. OnlyOurs(file) /\ file' = NoFile /\ job[r].what = "uninstall"
      BY <2>0, <2>1, <2>5 DEF JobFits, WritingFacts, Removal
    <3> QED BY <2>0, <3>1, TheirsNone
  <2> QED BY <2>0, <2>2, <2>3, <2>4, <2>5 DEF WritingFacts
<1>2. IInv /\ [SettingsNext]_settingsvars =>
        [\A r \in Runner : Replaces(r) /\ Alone(r) =>
           /\ Theirs(file') = Theirs(file)
           /\ job[r].what # "uninstall"
                => file.kind \in {"absent", "object"} /\ ~Foreign(Stack(r, file))]_settingsvars
  BY <1>1
<1> QED BY <1>2, Holds, PTL DEF SettingsSpec, TheirsKept

\* An uninstall puts back the bytes the first write of ours replaced, as far as the
\* copies can tell (uninstall.rs plan_settings), and a fix during which the
\* application did not move leaves the next report nothing to say, unless a file
\* above is in the way, and writes the port in service when that is the preferred
\* one or the endpoint in force (settings.rs plan_fix, doctor.rs fix and resolve_addr).
THEOREM FixedAndUndoneExactly == SettingsSpec => FixedAndUndone
<1>1. ASSUME IInv, [SettingsNext]_settingsvars, NEW r \in Runner,
             job[r].what = "uninstall", Replaces(r), NobodyElse(r),
             NoneOfOurs(since.origin), ~since.copies, ~since.crowded,
             since.origin.block = "object" => DOMAIN since.origin.env # {},
             since.origin.kind = "absent" => since.writes = 1
      PROVE  file' = since.origin
  <2>1. WritingFacts(r) /\ JobFits(r) /\ SinceFirst
    BY <1>1, ReplacesWrites DEF IInv
  <2>2. Undoable
    BY <1>1 DEF Undoable, Ours, FirstCopies, Clean, NobodyElse
  <2>3. Deciding(r) /\ \A q \in Runner \ {r} : ~Writing(q)
    BY <1>1, <2>1, IdleFacts DEF Deciding, NobodyElse, Alone, WritingFacts, Writing
  <2>4. CASE since.origin.kind = "object"
    <3>1. job[r].at = "restore" /\ Oldest(backups) = since.origin
      BY <2>1, <2>2, <2>3, <2>4 DEF SinceFirst, Kept
    <3> QED BY <2>1, <3>1 DEF WritingFacts, Removal
  <2>5. CASE since.origin.kind = "absent"
    <3>1. job[r].at = "remove_file" /\ since.origin = NoFile
      BY Shapes, <1>1, <2>1, <2>2, <2>3, <2>5 DEF SinceFirst, Shaped
    <3> QED BY <2>1, <3>1 DEF WritingFacts, Removal
  <2> QED BY <2>1, <2>2, <2>4, <2>5 DEF SinceFirst
<1>2. ASSUME IInv, [SettingsNext]_settingsvars, NEW r \in Runner,
             job[r].what \in {"fix", "moved"}, Replaces(r), job[r].probed = app
      PROVE  /\ Configured(Stack(r, file)') \/ BeyondOurReach(Stack(r, file)')
             /\ (job[r].what = "fix" => ~Missed(Stack(r, job[r].seen)))
                => Env(file', "endpoint") = {InService}
  <2>1. WritingFacts(r) /\ JobFits(r) /\ FileShape(job[r].seen)
    BY <1>1, <1>2, ReplacesWrites, InParts DEF IInv, JobsOK, JobOK
  <2>2. job[r].at = "write" /\ file' = job[r].out /\ higher' = higher
    BY <1>2, <2>1 DEF WritingFacts
  <2>3. PICK addr \in Port : /\ job[r].out = Merged(job[r].seen, addr)
                             /\ addr = app \/ addr = Preferred
                             /\ job[r].what = "moved" => addr = app
                             /\ Found(r, job[r].seen, app, addr)
    BY <1>2, <2>1, <2>2 DEF JobFits, FixReady
  <2>4. Stack(r, file)' = Stack(r, Merged(job[r].seen, addr))
    BY <2>2, <2>3 DEF Stack
  <2>5. Configured(Stack(r, file)') \/ BeyondOurReach(Stack(r, file)')
    BY <2>1, <2>3, <2>4, MergedFixes
  <2>6. ASSUME job[r].what = "fix" => ~Missed(Stack(r, job[r].seen))
        PROVE  Env(file', "endpoint") = {InService}
    <3>1. app \in Port \/ job[r].what # "moved"
      <4>1. PortsOK /\ job[r] # NoJob
        BY <1>2, InParts DEF IInv, Replaces
      <4>2. job[r].what = "moved" => r = "app"
        BY <2>1 DEF JobFits
      <4> QED BY <4>1, <4>2 DEF PortsOK
    <3>2. addr = InService
      BY <1>2, <2>3, <2>6, <3>1, PortFacts DEF Found, Serves, Missed, InService
    <3>3. /\ "endpoint" \in DOMAIN Merged(job[r].seen, addr).env
          /\ Merged(job[r].seen, addr).env["endpoint"] = addr
      BY <2>1, MergedFacts DEF OurKeys
    <3> QED BY <2>2, <2>3, <3>2, <3>3 DEF Env
  <2> QED BY <2>5, <2>6
<1>3. IInv /\ [SettingsNext]_settingsvars =>
        [\A r \in Runner :
           /\ job[r].what = "uninstall" /\ Replaces(r) /\ NobodyElse(r)
           /\ NoneOfOurs(since.origin) /\ ~since.copies /\ ~since.crowded
           /\ since.origin.block = "object" => DOMAIN since.origin.env # {}
           /\ since.origin.kind = "absent" => since.writes = 1
           => file' = since.origin]_settingsvars
  BY <1>1
<1>4. IInv /\ [SettingsNext]_settingsvars =>
        [\A r \in Runner :
           /\ job[r].what \in {"fix", "moved"} /\ Replaces(r) /\ job[r].probed = app
           => Configured(Stack(r, file)') \/ BeyondOurReach(Stack(r, file)')]_settingsvars
  BY <1>2
<1>5. IInv /\ [SettingsNext]_settingsvars =>
        [\A r \in Runner :
           /\ job[r].what \in {"fix", "moved"} /\ Replaces(r) /\ job[r].probed = app
           /\ job[r].what = "fix" => ~Missed(Stack(r, job[r].seen))
           => Env(file', "endpoint") = {InService}]_settingsvars
  BY <1>2
<1>6. SettingsSpec => UndoExact
  BY <1>3, Holds, PTL DEF SettingsSpec, UndoExact
<1>7. SettingsSpec => FixReported
  BY <1>4, Holds, PTL DEF SettingsSpec, FixReported
<1>8. SettingsSpec => FixReaches
  BY <1>5, Holds, PTL DEF SettingsSpec, FixReaches
<1> QED BY <1>6, <1>7, <1>8, PTL DEF FixedAndUndone

-----------------------------------------------------------------------------
(* The preferences.  What is carried is that without a race one command at a    *)
(* time is on its way, and how far it has come says what still disagrees.       *)

Kinds == {"switch", "pick", "forget", "pause"}
CommandRow == [what : Kinds \cup {"none"},
               at : {"idle", "adopting", "reading", "saving", "saved", "applied", "done"},
               next : Prefs, switch : Switch \cup {"none"}, path : Path \cup {NoModel},
               paused : BOOLEAN]
CommandOK(c) ==
  /\ c \in CommandRow
  /\ c.at = "idle" => c = NoCommand
  /\ c.at # "idle" => c.what \in Kinds
  /\ c.at \in {"adopting", "reading"} => c.what # "switch"
  /\ c.what = "switch" => c.switch \in Switch

Box == [live : BOOLEAN, copy : Prefs, checked : BOOLEAN]

FilesRecorded ==
  /\ memory \in Prefs /\ disk \in [whole : BOOLEAN, prefs : Prefs] /\ applied \in BOOLEAN
  /\ DOMAIN command = Slot /\ \A s \in Slot : CommandOK(command[s])
  /\ boxes \in [Switch -> Box] /\ drawings \in Nat
  /\ cli \in [at : {"idle", "read"}, prefs : Prefs]
  /\ running \in {"up", "down"} /\ raced \in BOOLEAN

\* What a switch must not change.
SameModel(p, q) == p.model_path = q.model_path /\ p.analysis_paused = q.analysis_paused

OneAtATime == \A s, t \in Slot : command[s].at # "idle" /\ command[t].at # "idle" => s = t

\* The file, its copy and the redaction, by how far a command has come.
Agreement ==
  /\ disk.whole
  /\ (\A s \in Slot : command[s].at \notin {"saved", "applied"})
       => disk.prefs = memory /\ applied = memory.redact_evidence
  /\ \A s \in Slot : command[s].at \in {"saved", "applied"} => disk.prefs = command[s].next
  /\ \A s \in Slot : command[s].at = "applied" => applied = command[s].next.redact_evidence

\* A box was drawn with the model and the pause that are in memory, or the view is
\* about to be drawn anew; so a switch saves them as they are.
CopiesFollow ==
  drawings = 0 /\ (\A s \in Slot : command[s].what # "switch" => command[s].at # "done")
    => \A sw \in Switch : boxes[sw].live => SameModel(boxes[sw].copy, memory)
SwitchesKeep ==
  \A s \in Slot : command[s].what = "switch" => SameModel(command[s].next, memory)

Calm ==
  /\ running = "down" => \A s \in Slot : command[s].at = "idle"
  /\ running = "up" /\ ~raced => OneAtATime /\ Agreement /\ CopiesFollow /\ SwitchesKeep

\* A loader has the key of what is at its path, or that was replaced.
Loader == [at : {"hashing", "loading"}, path : Path, key : Content \cup {"none"},
           swapped : BOOLEAN]
Keyed ==
  /\ loaders \subseteq Loader /\ content \in [Path -> Content]
  /\ \A l \in loaders : l.at = "loading" => l.key = content[l.path] \/ l.swapped
  /\ KeyNamesWeights

PInv == FilesRecorded /\ Calm /\ Keyed

-----------------------------------------------------------------------------
(* Shapes.                                                                      *)

LEMMA DefaultIsOne == Default \in Prefs
BY DEF Default, Prefs, NoModel

LEMMA IdleIsOne == CommandOK(NoCommand) /\ NoCommand.at = "idle" /\ NoCommand.what = "none"
<1>1. NoCommand \in CommandRow
  BY DefaultIsOne DEF NoCommand, CommandRow, NoModel
<1>2. NoCommand.at = "idle" /\ NoCommand.what = "none"
  BY DEF NoCommand
<1> HIDE DEF CommandRow
<1> QED BY <1>1, <1>2 DEF CommandOK, Kinds

LEMMA UndrawnIsOne == Undrawn \in Box /\ ~ Undrawn.live
BY DefaultIsOne DEF Undrawn, Box

LEMMA LoadIsOne == ASSUME FilesRecorded PROVE Load \in Prefs
BY DefaultIsOne DEF FilesRecorded, Load

LEMMA ToggledIsOne ==
  ASSUME NEW p \in Prefs, NEW sw \in Switch, NEW b \in BOOLEAN
  PROVE  [p EXCEPT ![sw] = b] \in Prefs /\ SameModel([p EXCEPT ![sw] = b], p)
BY DEF Prefs, Switch, SameModel

LEMMA EditedIsOne ==
  ASSUME memory \in Prefs, NEW c \in CommandRow, c.what \in {"pick", "forget", "pause"}
  PROVE  EditedPrefs(c) \in Prefs
<1>0. c.path \in Path \cup {NoModel} /\ c.paused \in BOOLEAN
  BY DEF CommandRow
<1>1. CASE c.what = "pick"
  <2>1. EditedPrefs(c) = [memory EXCEPT !.model_path = c.path]
    BY <1>1 DEF EditedPrefs
  <2> QED BY <1>0, <2>1 DEF Prefs
<1>2. CASE c.what = "forget"
  <2>1. EditedPrefs(c) = [memory EXCEPT !.model_path = NoModel]
    BY <1>2 DEF EditedPrefs
  <2> QED BY <2>1 DEF Prefs
<1>3. CASE c.what = "pause"
  <2>1. EditedPrefs(c) = [memory EXCEPT !.analysis_paused = c.paused]
    BY <1>3 DEF EditedPrefs
  <2> QED BY <1>0, <2>1 DEF Prefs
<1> QED BY <1>1, <1>2, <1>3

-----------------------------------------------------------------------------
(* One command moves; d is what it is then.                                     *)

LEMMA OneMoves ==
  ASSUME FilesRecorded, NEW s \in Slot, NEW d, CommandOK(d), command' = [command EXCEPT ![s] = d]
  PROVE  /\ DOMAIN command' = Slot /\ \A t \in Slot : CommandOK(command'[t])
         /\ \A t \in Slot : command'[t] = IF t = s THEN d ELSE command[t]
BY DEF FilesRecorded

\* A step of it that is no writing and no end.
LEMMA MovesOn ==
  ASSUME PInv, NEW s \in Slot, command[s].at # "idle", NEW d, CommandOK(d),
         command' = [command EXCEPT ![s] = d],
         UNCHANGED <<disk, memory, applied, running, boxes, drawings, cli, raced>>,
         command[s].at \in {"adopting", "reading"}, d.at \in {"idle", "reading", "saving"},
         d.what # "switch"
  PROVE  FilesRecorded' /\ Calm'
<1>1. /\ DOMAIN command' = Slot /\ \A t \in Slot : CommandOK(command'[t])
      /\ \A t \in Slot : command'[t] = IF t = s THEN d ELSE command[t]
  BY OneMoves DEF PInv
<1>2. FilesRecorded'
  BY <1>1 DEF PInv, FilesRecorded
<1>3. ASSUME running = "up", ~ raced
      PROVE  OneAtATime' /\ Agreement' /\ CopiesFollow' /\ SwitchesKeep'
  <2>0. OneAtATime /\ Agreement /\ CopiesFollow /\ SwitchesKeep
    BY <1>3 DEF PInv, Calm
  <2>1. OneAtATime'
    BY <1>1, <2>0 DEF OneAtATime
  <2>2. Agreement'
    BY <1>1, <2>0 DEF Agreement
  <2>3. CopiesFollow'
    BY <1>1, <2>0 DEF CopiesFollow
  <2>4. SwitchesKeep'
    BY <1>1, <2>0 DEF SwitchesKeep
  <2> QED BY <2>1, <2>2, <2>3, <2>4
<1>4. running = "up"
  BY DEF PInv, Calm, FilesRecorded
<1> QED BY <1>2, <1>3, <1>4 DEF Calm

\* A command begins. What it will save, if it is a switch, has the model and the
\* pause that are in memory, unless it races.
LEMMA BeginsCalmly ==
  ASSUME PInv, NEW s \in Slot, FreeSlot(s), NEW d, CommandOK(d),
         d.at \in {"adopting", "reading", "saving"},
         command' = [command EXCEPT ![s] = d],
         UNCHANGED <<disk, memory, applied, running, drawings, cli>>,
         boxes' \in [Switch -> Box],
         \A sw \in Switch : boxes'[sw].live = boxes[sw].live /\ boxes'[sw].copy = boxes[sw].copy,
         raced' \in BOOLEAN, raced \/ Busy => raced',
         ~ raced' /\ d.what = "switch" => SameModel(d.next, memory)
  PROVE  FilesRecorded' /\ Calm'
<1>1. /\ DOMAIN command' = Slot /\ \A t \in Slot : CommandOK(command'[t])
      /\ \A t \in Slot : command'[t] = IF t = s THEN d ELSE command[t]
  BY OneMoves DEF PInv
<1>2. FilesRecorded'
  BY <1>1 DEF PInv, FilesRecorded
<1>3. ASSUME ~ raced' PROVE OneAtATime' /\ Agreement' /\ CopiesFollow' /\ SwitchesKeep'
  <2>0. OneAtATime /\ Agreement /\ CopiesFollow /\ SwitchesKeep
    BY <1>3 DEF PInv, Calm, FreeSlot
  <2>1. OneAtATime'
    BY <1>1, <1>3 DEF OneAtATime, Busy
  <2>2. Agreement'
    BY <1>1, <2>0, <1>3 DEF Agreement, Busy
  <2>3. CopiesFollow'
    BY <1>1, <2>0, <1>3 DEF CopiesFollow, Busy
  <2>4. SwitchesKeep'
    BY <1>1, <1>3, <2>0 DEF SwitchesKeep
  <2> QED BY <2>1, <2>2, <2>3, <2>4
<1>4. running' = "up"
  BY DEF FreeSlot
<1> QED BY <1>2, <1>3, <1>4 DEF Calm

-----------------------------------------------------------------------------
(* The actions.                                                                 *)

LEMMA ToggleCalm ==
  ASSUME PInv, NEW s \in Slot, NEW sw \in Switch, Toggle(s, sw)
  PROVE  FilesRecorded' /\ Calm'
<1> DEFINE p == boxes[sw].copy
           b == ~ boxes[sw].checked
           next == [p EXCEPT ![sw] = b]
           d == [NoCommand EXCEPT !.what = "switch", !.at = "saving", !.switch = sw,
                                  !.next = next]
<1>0. p \in Prefs /\ b \in BOOLEAN
  BY DEF PInv, FilesRecorded, Box
<1>1. next \in Prefs /\ SameModel(next, p)
  BY <1>0, ToggledIsOne
<1>2. /\ FreeSlot(s) /\ boxes[sw].live /\ boxes' = [boxes EXCEPT ![sw].checked = ~ @]
      /\ raced' = (raced \/ Busy \/ drawings > 0)
      /\ UNCHANGED <<disk, memory, applied, running, drawings, cli>>
  BY DEF Toggle
<1>3. command' = [command EXCEPT ![s] = d]
  BY DEF Toggle
<1> HIDE DEF next
<1>4. CommandOK(d) /\ d.at = "saving" /\ d.what = "switch" /\ d.next = next
  <2>1. NoCommand \in CommandRow
    BY IdleIsOne DEF CommandOK
  <2> QED BY <1>1, <2>1 DEF CommandOK, CommandRow, Kinds
<1> HIDE DEF d
<1>5. /\ boxes' \in [Switch -> Box]
      /\ \A w \in Switch : boxes'[w].live = boxes[w].live /\ boxes'[w].copy = boxes[w].copy
  BY <1>2 DEF PInv, FilesRecorded, Box
<1>6. raced' \in BOOLEAN /\ (raced \/ Busy => raced')
  BY <1>2
<1>7. ASSUME ~ raced' PROVE SameModel(next, memory)
  <2>0. ~ raced /\ ~ Busy /\ ~ (drawings > 0)
    BY <1>2, <1>7
  <2>1. drawings = 0 /\ running = "up"
    BY <1>2, <2>0 DEF FreeSlot, PInv, FilesRecorded
  <2>2. \A t \in Slot : command[t].at # "done"
    BY <2>0 DEF Busy
  <2>3. SameModel(p, memory)
    BY <1>2, <2>0, <2>1, <2>2 DEF PInv, Calm, CopiesFollow
  <2> QED BY <1>1, <2>3 DEF SameModel
<1> QED BY <1>2, <1>3, <1>4, <1>5, <1>6, <1>7, BeginsCalmly

LEMMA CommandCalm ==
  ASSUME PInv, NEW s \in Slot, NEW d, Command(s, d), CommandOK(d), d.what # "switch",
         d.at \in {"adopting", "reading"}
  PROVE  FilesRecorded' /\ Calm'
<1>1. /\ FreeSlot(s) /\ command' = [command EXCEPT ![s] = d] /\ raced' = (raced \/ Busy)
      /\ UNCHANGED <<disk, memory, applied, running, drawings, cli, boxes>>
  BY DEF Command
<1>2. boxes' \in [Switch -> Box]
  BY <1>1 DEF PInv, FilesRecorded
<1>3. raced' \in BOOLEAN
  BY <1>1
<1> QED BY <1>1, <1>2, <1>3, BeginsCalmly

LEMMA CommandsCalm ==
  ASSUME PInv, NEW s \in Slot,
         (\E p \in Path : PickModel(s, p)) \/ ForgetModel(s) \/ PauseAnalysis(s)
  PROVE  FilesRecorded' /\ Calm'
<1>0. NoCommand \in CommandRow
  BY IdleIsOne DEF CommandOK
<1>1. ASSUME NEW p \in Path, PickModel(s, p) PROVE FilesRecorded' /\ Calm'
  <2> DEFINE d == [NoCommand EXCEPT !.what = "pick", !.at = "adopting", !.path = p]
  <2>1. Command(s, d)
    BY <1>1 DEF PickModel
  <2>2. CommandOK(d) /\ d.what # "switch" /\ d.at \in {"adopting", "reading"}
    BY <1>0 DEF CommandOK, CommandRow, Kinds
  <2> HIDE DEF d
  <2> QED BY <2>1, <2>2, CommandCalm
<1>2. CASE ForgetModel(s)
  <2> DEFINE d == [NoCommand EXCEPT !.what = "forget", !.at = "reading"]
  <2>1. Command(s, d)
    BY <1>2 DEF ForgetModel
  <2>2. CommandOK(d) /\ d.what # "switch" /\ d.at \in {"adopting", "reading"}
    BY <1>0 DEF CommandOK, CommandRow, Kinds
  <2> HIDE DEF d
  <2> QED BY <2>1, <2>2, CommandCalm
<1>3. CASE PauseAnalysis(s)
  <2> DEFINE b == ~ memory.analysis_paused
             d == [NoCommand EXCEPT !.what = "pause", !.at = "reading", !.paused = b]
  <2>1. Command(s, d)
    BY <1>3 DEF PauseAnalysis
  <2>2. b \in BOOLEAN
    BY DEF PInv, FilesRecorded, Prefs
  <2> HIDE DEF b
  <2>3. CommandOK(d) /\ d.what # "switch" /\ d.at \in {"adopting", "reading"}
    BY <1>0, <2>2 DEF CommandOK, CommandRow, Kinds
  <2> HIDE DEF d
  <2> QED BY <2>1, <2>3, CommandCalm
<1> QED BY <1>1, <1>2, <1>3

LEMMA ReadingCalm ==
  ASSUME PInv, NEW s \in Slot, Adopt(s) \/ ReadMemory(s)
  PROVE  FilesRecorded' /\ Calm'
<1> DEFINE c == command[s]
<1>0. CommandOK(c) /\ DOMAIN command = Slot /\ memory \in Prefs
  BY DEF PInv, FilesRecorded
<1>1. ASSUME NEW d, CommandOK(d), command' = [command EXCEPT ![s] = d],
             UNCHANGED <<disk, memory, applied, running, boxes, drawings, cli, raced>>,
             c.at \in {"adopting", "reading"}, d.at \in {"idle", "reading", "saving"},
             d.what # "switch"
      PROVE  FilesRecorded' /\ Calm'
  BY <1>1, MovesOn
<1>2. CASE Adopt(s)
  <2>1. /\ c.at = "adopting"
        /\ UNCHANGED <<disk, memory, applied, running, boxes, drawings, cli, raced>>
    BY <1>2 DEF Adopt, Steps
  <2>2. CASE Ends(s)
    <3>1. command' = [command EXCEPT ![s] = NoCommand]
      BY <2>2 DEF Ends
    <3> HIDE DEF c
    <3> QED BY <1>1, <2>1, <3>1, IdleIsOne
  <2>3. CASE Reaches(s, "reading")
    <3> DEFINE d == [c EXCEPT !.at = "reading"]
    <3>1. command' = [command EXCEPT ![s] = d]
      BY <1>0, <2>3 DEF Reaches
    <3>2. CommandOK(d) /\ d.at = "reading" /\ d.what # "switch"
      BY <1>0, <2>1 DEF CommandOK, CommandRow
    <3> HIDE DEF c, d
    <3> QED BY <1>1, <2>1, <3>1, <3>2
  <2> QED BY <1>2, <2>2, <2>3 DEF Adopt
<1>3. CASE ReadMemory(s)
  <2> DEFINE next == EditedPrefs(c)
             d == [c EXCEPT !.at = "saving", !.next = next]
  <2>1. /\ c.at = "reading"
        /\ UNCHANGED <<disk, memory, applied, running, boxes, drawings, cli, raced>>
        /\ command' = [command EXCEPT ![s] = d]
    BY <1>0, <1>3 DEF ReadMemory, Steps
  <2>2. c \in CommandRow /\ c.what \in {"pick", "forget", "pause"}
    BY <1>0, <2>1 DEF CommandOK, Kinds
  <2> HIDE DEF c
  <2>3. next \in Prefs
    BY <1>0, <2>2, EditedIsOne
  <2> HIDE DEF next
  <2>4. CommandOK(d) /\ d.at = "saving" /\ d.what # "switch"
    BY <1>0, <2>2, <2>3 DEF CommandOK, CommandRow, Kinds
  <2> HIDE DEF d
  <2> QED BY <1>1, <2>1, <2>4
<1> QED BY <1>2, <1>3

-----------------------------------------------------------------------------
(* How far a command has come.                                                  *)

LEMMA Sole ==
  ASSUME PInv, NEW s \in Slot, command[s].at # "idle"
  PROVE  /\ running = "up"
         /\ ~ raced => /\ OneAtATime /\ Agreement /\ CopiesFollow /\ SwitchesKeep
                       /\ \A t \in Slot : t # s => command[t].at = "idle"
BY DEF PInv, Calm, FilesRecorded, OneAtATime

LEMMA GoesOn ==
  ASSUME FilesRecorded, NEW s \in Slot, command[s].at \in {"saving", "saved", "applied"},
         NEW at \in {"saved", "applied", "done"}, Reaches(s, at)
  PROVE  /\ DOMAIN command' = Slot /\ \A t \in Slot : CommandOK(command'[t])
         /\ \A t \in Slot : t # s => command'[t] = command[t]
         /\ command'[s].at = at /\ command'[s].what = command[s].what
         /\ command'[s].next = command[s].next
<1> DEFINE c == command[s]
           d == [c EXCEPT !.at = at]
<1>1. CommandOK(c) /\ c.at \in {"saving", "saved", "applied"} /\ DOMAIN command = Slot
  BY DEF FilesRecorded
<1>2. command' = [command EXCEPT ![s] = d]
  BY <1>1 DEF Reaches
<1> HIDE DEF c
<1>3. CommandOK(d) /\ d.at = at /\ d.what = c.what /\ d.next = c.next
  BY <1>1 DEF CommandOK, CommandRow
<1> HIDE DEF d
<1>4. /\ DOMAIN command' = Slot /\ \A t \in Slot : CommandOK(command'[t])
      /\ \A t \in Slot : command'[t] = IF t = s THEN d ELSE command[t]
  BY <1>2, <1>3, OneMoves
<1> QED BY <1>3, <1>4 DEF c

LEMMA EndsIdle ==
  ASSUME FilesRecorded, NEW s \in Slot, Ends(s)
  PROVE  /\ DOMAIN command' = Slot /\ \A t \in Slot : CommandOK(command'[t])
         /\ \A t \in Slot : t # s => command'[t] = command[t]
         /\ command'[s].at = "idle" /\ command'[s].what = "none"
<1>1. command' = [command EXCEPT ![s] = NoCommand]
  BY DEF Ends
<1>2. /\ DOMAIN command' = Slot /\ \A t \in Slot : CommandOK(command'[t])
      /\ \A t \in Slot : command'[t] = IF t = s THEN NoCommand ELSE command[t]
  BY <1>1, IdleIsOne, OneMoves
<1> QED BY <1>2, IdleIsOne

LEMMA NextIsOne ==
  ASSUME FilesRecorded, NEW s \in Slot PROVE command[s].next \in Prefs /\ CommandOK(command[s])
BY DEF FilesRecorded, CommandOK, CommandRow

LEMMA SaveCalm ==
  ASSUME PInv, NEW s \in Slot, Save(s)
  PROVE  FilesRecorded' /\ Calm'
<1>1. /\ command[s].at = "saving" /\ Reaches(s, "saved")
      /\ disk' = [whole |-> TRUE, prefs |-> command[s].next]
      /\ UNCHANGED <<memory, applied, running, boxes, drawings, cli, raced>>
  BY DEF Save, Steps
<1>2. /\ DOMAIN command' = Slot /\ \A t \in Slot : CommandOK(command'[t])
      /\ \A t \in Slot : t # s => command'[t] = command[t]
      /\ command'[s].at = "saved" /\ command'[s].what = command[s].what
      /\ command'[s].next = command[s].next
  BY <1>1, GoesOn DEF PInv
<1>3. FilesRecorded'
  BY <1>1, <1>2, NextIsOne DEF PInv, FilesRecorded
<1>4. ASSUME ~ raced PROVE OneAtATime' /\ Agreement' /\ CopiesFollow' /\ SwitchesKeep'
  <2>0. /\ OneAtATime /\ Agreement /\ CopiesFollow /\ SwitchesKeep
        /\ \A t \in Slot : t # s => command[t].at = "idle"
    BY <1>1, <1>4, Sole
  <2>1. OneAtATime'
    BY <1>2, <2>0 DEF OneAtATime
  <2>2. disk'.whole /\ disk'.prefs = command[s].next
    BY <1>1
  <2>3. Agreement'
    BY <1>2, <2>0, <2>2 DEF Agreement
  <2>4. CopiesFollow'
    BY <1>1, <1>2, <2>0 DEF CopiesFollow
  <2>5. SwitchesKeep'
    BY <1>1, <1>2, <2>0 DEF SwitchesKeep
  <2> QED BY <2>1, <2>3, <2>4, <2>5
<1>5. running' = "up"
  BY <1>1, Sole
<1> QED BY <1>1, <1>3, <1>4, <1>5 DEF Calm

LEMMA SaveFailsCalm ==
  ASSUME PInv, NEW s \in Slot, SaveFails(s)
  PROVE  FilesRecorded' /\ Calm'
<1>1. /\ command[s].at = "saving" /\ Ends(s)
      /\ disk' = [disk EXCEPT !.whole = FALSE] /\ raced' = TRUE
      /\ UNCHANGED <<memory, applied, running, drawings, cli>>
  BY DEF SaveFails, Steps
<1>2. DOMAIN command' = Slot /\ \A t \in Slot : CommandOK(command'[t])
  BY <1>1, EndsIdle DEF PInv
<1>3. boxes' \in [Switch -> Box]
  <2>1. CASE ~ (command[s].what = "switch" /\ boxes[command[s].switch].live)
    BY <2>1 DEF SaveFails, PInv, FilesRecorded
  <2>2. CASE command[s].what = "switch" /\ boxes[command[s].switch].live
    <3> DEFINE w == command[s].switch
               b == boxes[w].copy[w]
    <3>1. boxes' = [boxes EXCEPT ![w].checked = b]
      BY <2>2 DEF SaveFails
    <3>2. w \in Switch /\ boxes \in [Switch -> Box]
      BY <2>2 DEF PInv, FilesRecorded, CommandOK
    <3>3. b \in BOOLEAN
      BY <3>2 DEF Box, Switch, Prefs
    <3> HIDE DEF w, b
    <3> QED BY <3>1, <3>2, <3>3 DEF Box
  <2> QED BY <2>1, <2>2
<1>4. running' = "up"
  BY <1>1, Sole
<1>5. FilesRecorded'
  BY <1>1, <1>2, <1>3 DEF PInv, FilesRecorded
<1> QED BY <1>1, <1>4, <1>5 DEF Calm

LEMMA ApplyCalm ==
  ASSUME PInv, NEW s \in Slot, Apply(s)
  PROVE  FilesRecorded' /\ Calm'
<1>1. /\ command[s].at = "saved" /\ Reaches(s, "applied")
      /\ applied' = command[s].next.redact_evidence
      /\ UNCHANGED <<disk, memory, running, boxes, drawings, cli, raced>>
  BY DEF Apply, Steps
<1>2. /\ DOMAIN command' = Slot /\ \A t \in Slot : CommandOK(command'[t])
      /\ \A t \in Slot : t # s => command'[t] = command[t]
      /\ command'[s].at = "applied" /\ command'[s].what = command[s].what
      /\ command'[s].next = command[s].next
  BY <1>1, GoesOn DEF PInv
<1>3. applied' \in BOOLEAN
  BY <1>1, NextIsOne DEF PInv, Prefs
<1>4. FilesRecorded'
  BY <1>1, <1>2, <1>3 DEF PInv, FilesRecorded
<1>5. ASSUME ~ raced PROVE OneAtATime' /\ Agreement' /\ CopiesFollow' /\ SwitchesKeep'
  <2>0. /\ OneAtATime /\ Agreement /\ CopiesFollow /\ SwitchesKeep
        /\ \A t \in Slot : t # s => command[t].at = "idle"
    BY <1>1, <1>5, Sole
  <2>1. OneAtATime'
    BY <1>2, <2>0 DEF OneAtATime
  <2>2. disk.whole /\ disk.prefs = command[s].next
    BY <1>1, <2>0 DEF Agreement
  <2>3. Agreement'
    BY <1>1, <1>2, <2>0, <2>2 DEF Agreement
  <2>4. CopiesFollow'
    BY <1>1, <1>2, <2>0 DEF CopiesFollow
  <2>5. SwitchesKeep'
    BY <1>1, <1>2, <2>0 DEF SwitchesKeep
  <2> QED BY <2>1, <2>3, <2>4, <2>5
<1>6. running' = "up"
  BY <1>1, Sole
<1> QED BY <1>1, <1>4, <1>5, <1>6 DEF Calm

\* A switch remembers the model and the pause as they were.
LEMMA RememberCalm ==
  ASSUME PInv, NEW s \in Slot, Remember(s)
  PROVE  FilesRecorded' /\ Calm'
<1>1. /\ command[s].at = "applied" /\ Reaches(s, "done") /\ memory' = command[s].next
      /\ UNCHANGED <<disk, applied, running, boxes, drawings, cli, raced>>
  BY DEF Remember, Steps
<1>2. /\ DOMAIN command' = Slot /\ \A t \in Slot : CommandOK(command'[t])
      /\ \A t \in Slot : t # s => command'[t] = command[t]
      /\ command'[s].at = "done" /\ command'[s].what = command[s].what
      /\ command'[s].next = command[s].next
  BY <1>1, GoesOn DEF PInv
<1>3. FilesRecorded'
  BY <1>1, <1>2, NextIsOne DEF PInv, FilesRecorded
<1>4. ASSUME ~ raced PROVE OneAtATime' /\ Agreement' /\ CopiesFollow' /\ SwitchesKeep'
  <2>0. /\ OneAtATime /\ Agreement /\ CopiesFollow /\ SwitchesKeep
        /\ \A t \in Slot : t # s => command[t].at = "idle"
    BY <1>1, <1>4, Sole
  <2>1. OneAtATime'
    BY <1>2, <2>0 DEF OneAtATime
  <2>2. /\ disk.whole /\ disk.prefs = command[s].next
        /\ applied = command[s].next.redact_evidence
    BY <1>1, <2>0 DEF Agreement
  <2>3. Agreement'
    BY <1>1, <1>2, <2>0, <2>2 DEF Agreement
  <2>4. CopiesFollow'
    <3>1. CASE command[s].what # "switch"
      BY <1>2, <3>1 DEF CopiesFollow
    <3>2. CASE command[s].what = "switch"
      <4>1. SameModel(memory', memory)
        BY <1>1, <2>0, <3>2 DEF SwitchesKeep
      <4>2. \A t \in Slot : command[t].at # "done"
        BY <1>1, <2>0
      <4>3. drawings = 0
              => \A sw \in Switch : boxes[sw].live => SameModel(boxes[sw].copy, memory)
        BY <2>0, <4>2 DEF CopiesFollow
      <4> QED BY <1>1, <4>1, <4>3 DEF CopiesFollow, SameModel
    <3> QED BY <3>1, <3>2
  <2>5. SwitchesKeep'
    <3>1. \A t \in Slot : t # s => command'[t].what # "switch"
      BY <1>2, <2>0, IdleIsOne DEF PInv, FilesRecorded, CommandOK
    <3> QED BY <1>1, <1>2, <3>1 DEF SwitchesKeep, SameModel
  <2> QED BY <2>1, <2>3, <2>4, <2>5
<1>5. running' = "up"
  BY <1>1, Sole
<1> QED BY <1>1, <1>3, <1>4, <1>5 DEF Calm

\* The box of a switch that was answered shows what was saved.
LEMMA AnsweredFacts ==
  ASSUME FilesRecorded, NEW c, CommandOK(c), c.what = "switch"
  PROVE  /\ Answered(c) \in [Switch -> Box]
         /\ \A w \in Switch : /\ Answered(c)[w].live = boxes[w].live
                              /\ \/ Answered(c)[w].copy = boxes[w].copy
                                 \/ Answered(c)[w].copy = c.next
<1> DEFINE w == c.switch
           b == c.next[w]
           p == IF w = "redact_evidence" THEN boxes[w].copy ELSE c.next
<1>1. w \in Switch /\ boxes \in [Switch -> Box] /\ c.next \in Prefs
  BY DEF FilesRecorded, CommandOK, CommandRow
<1>2. b \in BOOLEAN /\ p \in Prefs
  BY <1>1 DEF Box, Prefs, Switch
<1>3. Answered(c) = IF ~ boxes[w].live THEN boxes
                    ELSE [boxes EXCEPT ![w] = [live |-> TRUE, checked |-> b, copy |-> p]]
  BY DEF Answered
<1>4. p = boxes[w].copy \/ p = c.next
  OBVIOUS
<1> HIDE DEF w, b, p
<1> DEFINE n == [live |-> TRUE, checked |-> b, copy |-> p]
<1>5. n \in Box /\ n.live = TRUE /\ n.copy = p
  BY <1>2 DEF Box
<1>6. Answered(c) = IF ~ boxes[w].live THEN boxes ELSE [boxes EXCEPT ![w] = n]
  BY <1>3
<1>7. w \in Switch /\ (p = boxes[w].copy \/ p = c.next)
  BY <1>1, <1>4 DEF w
<1>8. boxes[w] \in Box /\ boxes[w].live \in BOOLEAN
  BY <1>1, <1>7 DEF Box
<1> HIDE DEF n
<1>9. CASE ~ boxes[w].live
  BY <1>1, <1>6, <1>9
<1>10. CASE boxes[w].live
  <2>1. \A v \in Switch : Answered(c)[v] = IF v = w THEN n ELSE boxes[v]
    BY <1>1, <1>6, <1>7, <1>10
  <2>2. Answered(c) \in [Switch -> Box]
    BY <1>1, <1>5, <1>6, <1>7, <1>10
  <2>3. boxes[w].live = TRUE
    BY <1>8, <1>10
  <2> QED BY <1>5, <1>7, <2>1, <2>2, <2>3
<1> QED BY <1>9, <1>10

LEMMA FinishCalm ==
  ASSUME PInv, NEW s \in Slot, Finish(s)
  PROVE  FilesRecorded' /\ Calm'
<1> DEFINE c == command[s]
<1>1. /\ c.at = "done" /\ Ends(s)
      /\ boxes' = IF c.what = "switch" THEN Answered(c) ELSE boxes
      /\ drawings' = IF c.what # "switch" THEN drawings + 1 ELSE drawings
      /\ UNCHANGED <<disk, memory, applied, running, cli, raced>>
  BY DEF Finish, Steps, DrawsAnew
<1>2. /\ DOMAIN command' = Slot /\ \A t \in Slot : CommandOK(command'[t])
      /\ \A t \in Slot : t # s => command'[t] = command[t]
      /\ command'[s].at = "idle" /\ command'[s].what = "none"
  BY <1>1, EndsIdle DEF PInv
<1>3. CommandOK(c) /\ boxes \in [Switch -> Box] /\ drawings \in Nat
  BY DEF PInv, FilesRecorded
<1>4. boxes' \in [Switch -> Box] /\ drawings' \in Nat
  BY <1>1, <1>3, AnsweredFacts DEF PInv
<1>5. FilesRecorded'
  BY <1>1, <1>2, <1>4 DEF PInv, FilesRecorded
<1>6. ASSUME ~ raced PROVE OneAtATime' /\ Agreement' /\ CopiesFollow' /\ SwitchesKeep'
  <2>0. /\ OneAtATime /\ Agreement /\ CopiesFollow /\ SwitchesKeep
        /\ \A t \in Slot : t # s => command[t].at = "idle"
    BY <1>1, <1>6, Sole
  <2>1. OneAtATime'
    BY <1>2, <2>0 DEF OneAtATime
  <2>2. \A t \in Slot : command[t].at \notin {"saved", "applied"}
    BY <1>1, <2>0
  <2>3. Agreement'
    BY <1>1, <1>2, <2>0, <2>2 DEF Agreement
  <2>4. CopiesFollow'
    <3>1. CASE c.what # "switch"
      <4>1. drawings' # 0
        BY <1>1, <1>3, <3>1
      <4> QED BY <4>1 DEF CopiesFollow
    <3>2. CASE c.what = "switch"
      <4>1. SameModel(c.next, memory)
        BY <2>0, <3>2 DEF SwitchesKeep
      <4>2. \A t \in Slot : command[t].what # "switch" => command[t].at # "done"
        BY <2>0, <3>2
      <4>3. drawings = 0
              => \A sw \in Switch : boxes[sw].live => SameModel(boxes[sw].copy, memory)
        BY <2>0, <4>2 DEF CopiesFollow
      <4>4. boxes' = Answered(c) /\ drawings' = drawings
        BY <1>1, <3>2
      <4>5. \A w \in Switch : /\ boxes'[w].live = boxes[w].live
                              /\ boxes'[w].copy = boxes[w].copy \/ boxes'[w].copy = c.next
        BY <1>3, <3>2, <4>4, AnsweredFacts DEF PInv
      <4>6. memory' = memory
        BY <1>1
      <4> HIDE DEF c
      <4> QED BY <4>1, <4>3, <4>4, <4>5, <4>6 DEF CopiesFollow, SameModel
    <3> QED BY <3>1, <3>2
  <2>5. SwitchesKeep'
    BY <1>1, <1>2, <2>0 DEF SwitchesKeep
  <2> QED BY <2>1, <2>3, <2>4, <2>5
<1>7. running' = "up"
  BY <1>1, Sole
<1> QED BY <1>1, <1>5, <1>6, <1>7 DEF Calm

\* The view is drawn, and a box is filled from the copy in memory.
LEMMA ViewCalm ==
  ASSUME PInv, Draw \/ \E sw \in Switch : FillBox(sw)
  PROVE  FilesRecorded' /\ Calm'
<1>1. /\ running = "up"
      /\ UNCHANGED <<disk, memory, applied, running, command, cli, raced>>
  BY DEF Draw, FillBox
<1>2. /\ boxes' \in [Switch -> Box] /\ drawings' \in Nat
      /\ \A w \in Switch : boxes'[w].live => \/ boxes'[w].copy = memory
                                             \/ boxes'[w] = boxes[w] /\ drawings' = drawings
  <2>0. boxes \in [Switch -> Box] /\ memory \in Prefs /\ drawings \in Nat
    BY DEF PInv, FilesRecorded
  <2>1. CASE Draw
    <3>1. boxes' = [sw \in Switch |-> Undrawn] /\ drawings' = drawings - 1 /\ drawings > 0
      BY <2>1 DEF Draw
    <3> QED BY <2>0, <3>1, UndrawnIsOne
  <2>2. ASSUME NEW sw \in Switch, FillBox(sw)
        PROVE  /\ boxes' \in [Switch -> Box] /\ drawings' \in Nat
               /\ \A w \in Switch : boxes'[w].live
                    => \/ boxes'[w].copy = memory
                       \/ boxes'[w] = boxes[w] /\ drawings' = drawings
    <3> DEFINE b == memory[sw]
    <3>1. /\ boxes' = [boxes EXCEPT ![sw] = [live |-> TRUE, copy |-> memory, checked |-> b]]
          /\ drawings' = drawings
      BY <2>2 DEF FillBox
    <3>2. b \in BOOLEAN
      BY <2>0 DEF Prefs, Switch
    <3> HIDE DEF b
    <3>3. [live |-> TRUE, copy |-> memory, checked |-> b] \in Box
      BY <2>0, <3>2 DEF Box
    <3> QED BY <2>0, <3>1, <3>3
  <2> QED BY <2>1, <2>2
<1>3. FilesRecorded'
  BY <1>1, <1>2 DEF PInv, FilesRecorded
<1>4. ASSUME ~ raced PROVE OneAtATime' /\ Agreement' /\ CopiesFollow' /\ SwitchesKeep'
  <2>0. OneAtATime /\ Agreement /\ CopiesFollow /\ SwitchesKeep
    BY <1>1, <1>4 DEF PInv, Calm
  <2>1. OneAtATime'
    BY <1>1, <2>0 DEF OneAtATime
  <2>2. Agreement'
    BY <1>1, <2>0 DEF Agreement
  <2>3. CopiesFollow'
    BY <1>1, <1>2, <2>0 DEF CopiesFollow, SameModel
  <2>4. SwitchesKeep'
    BY <1>1, <2>0 DEF SwitchesKeep
  <2> QED BY <2>1, <2>2, <2>3, <2>4
<1> QED BY <1>1, <1>3, <1>4 DEF Calm

LEMMA StartCalm ==
  ASSUME PInv, Start
  PROVE  FilesRecorded' /\ Calm'
<1>1. /\ running = "down" /\ running' = "up" /\ memory' = Load /\ applied' = Load.redact_evidence
      /\ boxes' = [sw \in Switch |-> Undrawn] /\ drawings' = 1
      /\ raced' = (~ disk.whole \/ cli.at # "idle")
      /\ UNCHANGED <<disk, command, cli>>
  BY DEF Start, AppliedAtStart
<1>2. Load \in Prefs
  BY LoadIsOne DEF PInv
<1>3. applied' \in BOOLEAN
  BY <1>1, <1>2 DEF Prefs
<1>4. boxes' \in [Switch -> Box]
  BY <1>1, UndrawnIsOne
<1>5. disk.whole \in BOOLEAN /\ disk' = disk
  BY <1>1 DEF PInv, FilesRecorded
<1>6. FilesRecorded'
  BY <1>1, <1>2, <1>3, <1>4, <1>5 DEF PInv, FilesRecorded
<1>7. \A t \in Slot : command[t].at = "idle"
  BY <1>1 DEF PInv, Calm
<1>8. ASSUME ~ raced' PROVE OneAtATime' /\ Agreement' /\ CopiesFollow' /\ SwitchesKeep'
  <2>1. OneAtATime'
    BY <1>1, <1>7 DEF OneAtATime
  <2>2. disk.whole /\ Load = disk.prefs
    BY <1>1, <1>8 DEF Load
  <2>3. Agreement'
    BY <1>1, <1>7, <2>2 DEF Agreement
  <2>4. CopiesFollow'
    BY <1>1 DEF CopiesFollow
  <2>5. \A t \in Slot : command[t].what # "switch"
    BY <1>7, IdleIsOne DEF PInv, FilesRecorded, CommandOK
  <2>6. SwitchesKeep'
    BY <1>1, <2>5 DEF SwitchesKeep
  <2> QED BY <2>1, <2>3, <2>4, <2>6
<1> QED BY <1>1, <1>6, <1>8 DEF Calm

LEMMA DieCalm ==
  ASSUME PInv, Die
  PROVE  FilesRecorded' /\ Calm'
<1>1. /\ running' = "down" /\ applied' = FALSE /\ drawings' = 0
      /\ disk' = disk \/ disk' = [disk EXCEPT !.whole = FALSE]
      /\ command' = [s \in Slot |-> NoCommand]
      /\ boxes' = [sw \in Switch |-> Undrawn]
      /\ UNCHANGED <<memory, cli, raced>>
  BY DEF Die
<1>2. /\ DOMAIN command' = Slot
      /\ \A t \in Slot : CommandOK(command'[t]) /\ command'[t].at = "idle"
  BY <1>1, IdleIsOne
<1>3. boxes' \in [Switch -> Box]
  BY <1>1, UndrawnIsOne
<1>4. FilesRecorded'
  BY <1>1, <1>2, <1>3 DEF PInv, FilesRecorded
<1> QED BY <1>1, <1>2, <1>4 DEF Calm

LEMMA CliCalm ==
  ASSUME PInv, CliReads \/ \E p \in Path \cup {NoModel} : CliWrites(p)
  PROVE  FilesRecorded' /\ Calm'
<1>0. disk \in [whole : BOOLEAN, prefs : Prefs] /\ cli \in [at : {"idle", "read"}, prefs : Prefs]
  BY DEF PInv, FilesRecorded
<1>1. CASE CliReads
  <2>1. /\ cli' = [at |-> "read", prefs |-> Load] /\ raced' = (raced \/ Busy)
        /\ UNCHANGED <<disk, memory, applied, running, command, boxes, drawings>>
    BY <1>1 DEF CliReads
  <2>2. Load \in Prefs
    BY LoadIsOne DEF PInv
  <2>3. raced' \in BOOLEAN
    BY <2>1
  <2>4. FilesRecorded'
    BY <2>1, <2>2, <2>3 DEF PInv, FilesRecorded
  <2>5. OneAtATime /\ Agreement /\ CopiesFollow /\ SwitchesKeep
          => OneAtATime' /\ Agreement' /\ CopiesFollow' /\ SwitchesKeep'
    BY <2>1 DEF OneAtATime, Agreement, CopiesFollow, SwitchesKeep
  <2> QED BY <2>1, <2>4, <2>5 DEF PInv, Calm
<1>2. ASSUME NEW p \in Path \cup {NoModel}, CliWrites(p) PROVE FilesRecorded' /\ Calm'
  <2> DEFINE q == [cli.prefs EXCEPT !.model_path = p]
  <2>1. /\ disk' = [whole |-> TRUE, prefs |-> q]
        /\ cli' = [cli EXCEPT !.at = "idle", !.prefs = Default]
        /\ raced' = (raced \/ running = "up")
        /\ UNCHANGED <<memory, applied, running, command, boxes, drawings>>
    BY <1>2 DEF CliWrites
  <2>2. q \in Prefs
    BY <1>0 DEF Prefs
  <2> HIDE DEF q
  <2>3. /\ disk' \in [whole : BOOLEAN, prefs : Prefs]
        /\ cli' \in [at : {"idle", "read"}, prefs : Prefs]
    BY <1>0, <2>1, <2>2, DefaultIsOne
  <2>4. raced' \in BOOLEAN
    BY <2>1
  <2>5. FilesRecorded'
    BY <2>1, <2>3, <2>4 DEF PInv, FilesRecorded
  <2> QED BY <2>1, <2>5 DEF PInv, Calm
<1> QED BY <1>1, <1>2

\* The rest leaves all of it alone.
LEMMA StaysCalm ==
  ASSUME PInv, UNCHANGED <<disk, memory, applied, running, command, boxes, drawings, cli, raced>>
  PROVE  FilesRecorded' /\ Calm'
<1>1. FilesRecorded'
  BY DEF PInv, FilesRecorded
<1>2. /\ OneAtATime => OneAtATime'
      /\ Agreement => Agreement'
      /\ CopiesFollow => CopiesFollow'
      /\ SwitchesKeep => SwitchesKeep'
  BY DEF OneAtATime, Agreement, CopiesFollow, SwitchesKeep
<1> QED BY <1>1, <1>2 DEF PInv, Calm

LEMMA NextCalm ==
  ASSUME PInv, [PreferencesNext]_pvars
  PROVE  FilesRecorded' /\ Calm'
<1>1. CASE \E s \in Slot, sw \in Switch : Toggle(s, sw)
  BY <1>1, ToggleCalm
<1>2. CASE \/ \E s \in Slot, p \in Path : PickModel(s, p)
           \/ \E s \in Slot : ForgetModel(s) \/ PauseAnalysis(s)
  BY <1>2, CommandsCalm
<1>3. CASE \E s \in Slot : Adopt(s) \/ ReadMemory(s) \/ Save(s) \/ SaveFails(s)
  BY <1>3, ReadingCalm, SaveCalm, SaveFailsCalm
<1>4. CASE \E s \in Slot : Apply(s) \/ Remember(s) \/ Finish(s)
  BY <1>4, ApplyCalm, RememberCalm, FinishCalm
<1>5. CASE Draw \/ \E sw \in Switch : FillBox(sw)
  BY <1>5, ViewCalm
<1>6. CASE Start \/ Die \/ CliReads \/ \E p \in Path \cup {NoModel} : CliWrites(p)
  BY <1>6, StartCalm, DieCalm, CliCalm
<1>7. CASE \/ \E l \in loaders : Hashes(l) \/ Loads(l)
           \/ \E p \in Path, c \in Content : SwapFile(p, c)
           \/ \E who \in {"app", "cli"} : StoreRecord(who)
           \/ UNCHANGED pvars
  <2>1. UNCHANGED <<disk, memory, applied, running, command, boxes, drawings, cli, raced>>
    BY <1>7 DEF Hashes, Loads, SwapFile, StoreRecord, pvars
  <2> QED BY <2>1, StaysCalm
<1> QED BY <1>1, <1>2, <1>3, <1>4, <1>5, <1>6, <1>7 DEF PreferencesNext

-----------------------------------------------------------------------------
(* The key of what is held.                                                     *)

LEMMA ModelApplied ==
  ASSUME Keyed, NEW p \in Path \cup {NoModel}, ApplyModel(p), UNCHANGED content
  PROVE  Keyed'
<1> DEFINE l == [at |-> "hashing", path |-> p, key |-> "none", swapped |-> FALSE]
<1>1. held' = NoOne /\ loaders' = IF p = NoModel THEN loaders ELSE loaders \cup {l}
  BY DEF ApplyModel
<1>2. KeyNamesWeights'
  BY <1>1 DEF KeyNamesWeights, NoOne
<1>3. p # NoModel => l \in Loader
  BY DEF Loader
<1>4. l.at = "hashing"
  OBVIOUS
<1> HIDE DEF l
<1> QED BY <1>1, <1>2, <1>3, <1>4 DEF Keyed

LEMMA HashesKeyed ==
  ASSUME Keyed, NEW l \in loaders, Hashes(l) \/ Loads(l)
  PROVE  Keyed'
<1>0. l \in Loader /\ content \in [Path -> Content] /\ content' = content
  BY DEF Keyed, Hashes, Loads
<1>1. CASE Hashes(l)
  <2> DEFINE k == content[l.path]
             m == [l EXCEPT !.at = "loading", !.key = k]
  <2>1. loaders' \subseteq (loaders \ {l}) \cup {m} /\ held' = held
    BY <1>1 DEF Hashes
  <2>2. k \in Content
    BY <1>0 DEF Loader
  <2>3. m \in Loader /\ m.key = content[m.path]
    BY <1>0, <2>2 DEF Loader
  <2> HIDE DEF m
  <2> QED BY <1>0, <2>1, <2>3 DEF Keyed, KeyNamesWeights
<1>2. CASE Loads(l)
  <2>1. loaders' = loaders \ {l} /\ l.at = "loading"
    BY <1>2 DEF Loads
  <2>2. held' = held
        \/ held' = [path |-> l.path, key |-> l.key, weights |-> content[l.path],
                    swapped |-> l.swapped]
    BY <1>2 DEF Loads, LoadedFrom
  <2>3. l.key = content[l.path] \/ l.swapped
    BY <2>1 DEF Keyed
  <2>4. KeyNamesWeights'
    BY <2>2, <2>3 DEF Keyed, KeyNamesWeights
  <2> QED BY <1>0, <2>1, <2>4 DEF Keyed
<1> QED BY <1>1, <1>2

LEMMA SwapKeyed ==
  ASSUME Keyed, NEW p \in Path, NEW c \in Content, SwapFile(p, c)
  PROVE  Keyed'
<1> DEFINE After(l) == IF l.path = p THEN [l EXCEPT !.swapped = (l.at = "loading")] ELSE l
<1>1. /\ content' = [content EXCEPT ![p] = c] /\ held' = held
      /\ loaders' = {After(l) : l \in loaders}
  BY DEF SwapFile
<1>2. content' \in [Path -> Content] /\ \A q \in Path : q # p => content'[q] = content[q]
  BY <1>1 DEF Keyed
<1>3. ASSUME NEW l \in loaders
      PROVE  /\ After(l) \in Loader
             /\ After(l).at = "loading"
                  => After(l).key = content'[After(l).path] \/ After(l).swapped
  <2>1. /\ l \in Loader /\ l.path \in Path
        /\ l.at = "loading" => l.key = content[l.path] \/ l.swapped
    BY DEF Keyed, Loader
  <2>2. CASE l.path = p
    <3> DEFINE b == l.at = "loading"
               m == [l EXCEPT !.swapped = b]
    <3>1. After(l) = m
      BY <2>2
    <3>2. b \in BOOLEAN
      OBVIOUS
    <3>3. m \in Loader /\ m.at = l.at /\ m.swapped = b
      BY <2>1, <3>2 DEF Loader
    <3> HIDE DEF m, After
    <3> QED BY <3>1, <3>3
  <2>3. CASE l.path # p
    BY <1>2, <2>1, <2>3
  <2> QED BY <2>2, <2>3
<1> HIDE DEF After
<1> QED BY <1>1, <1>2, <1>3 DEF Keyed, KeyNamesWeights

LEMMA NextKeyed ==
  ASSUME PInv, [PreferencesNext]_pvars
  PROVE  Keyed'
<1>0. Keyed
  BY DEF PInv
<1>1. ASSUME NEW s \in Slot, Finish(s) PROVE Keyed'
  <2>1. command[s].next.model_path \in Path \cup {NoModel} /\ content' = content
    BY <1>1, NextIsOne DEF Finish, PInv, Prefs
  <2>2. \/ ApplyModel(command[s].next.model_path)
        \/ UNCHANGED <<held, loaders>>
    BY <1>1 DEF Finish
  <2>3. UNCHANGED <<held, loaders>> => Keyed'
    BY <1>0, <2>1 DEF Keyed, KeyNamesWeights
  <2> QED BY <1>0, <2>1, <2>2, <2>3, ModelApplied
<1>2. CASE Start
  <2>1. ApplyModel(Load.model_path) /\ content' = content
    BY <1>2 DEF Start
  <2>2. Load.model_path \in Path \cup {NoModel}
    BY LoadIsOne DEF PInv, Prefs
  <2> QED BY <1>0, <2>1, <2>2, ModelApplied
<1>3. CASE Die
  <2>1. held' = NoOne /\ loaders' = {} /\ content' = content
    BY <1>3 DEF Die
  <2> QED BY <1>0, <2>1 DEF Keyed, KeyNamesWeights, NoOne
<1>4. CASE \E l \in loaders : Hashes(l) \/ Loads(l)
  BY <1>0, <1>4, HashesKeyed
<1>5. CASE \E p \in Path, c \in Content : SwapFile(p, c)
  BY <1>0, <1>5, SwapKeyed
<1>6. CASE UNCHANGED <<content, loaders, held>>
  BY <1>0, <1>6 DEF Keyed, KeyNamesWeights
<1>7. CASE \/ \E s \in Slot, sw \in Switch : Toggle(s, sw)
           \/ \E s \in Slot, p \in Path : PickModel(s, p)
           \/ \E s \in Slot : ForgetModel(s) \/ PauseAnalysis(s)
           \/ \E s \in Slot : Adopt(s) \/ ReadMemory(s) \/ Save(s) \/ SaveFails(s)
           \/ \E s \in Slot : Apply(s) \/ Remember(s)
           \/ Draw \/ \E sw \in Switch : FillBox(sw)
           \/ CliReads \/ \E p \in Path \cup {NoModel} : CliWrites(p)
           \/ \E who \in {"app", "cli"} : StoreRecord(who)
           \/ UNCHANGED pvars
  <2>1. UNCHANGED <<content, loaders, held>>
    BY <1>7 DEF Toggle, PickModel, ForgetModel, PauseAnalysis, Command, Adopt, ReadMemory, Save,
       SaveFails, Apply, Remember, Draw, FillBox, CliReads, CliWrites, StoreRecord, pvars
  <2> QED BY <1>6, <2>1
<1> QED BY <1>1, <1>2, <1>3, <1>4, <1>5, <1>7 DEF PreferencesNext

-----------------------------------------------------------------------------
(* The theorems.                                                                *)

LEMMA FirstPrefs ==
  ASSUME PreferencesAssumption, PreferencesInit
  PROVE  PInv
<1>1. /\ disk = [whole |-> TRUE, prefs |-> Default] /\ memory = Default
      /\ applied = FALSE /\ running = "down" /\ command = [s \in Slot |-> NoCommand]
      /\ boxes = [sw \in Switch |-> Undrawn] /\ drawings = 0
      /\ cli = [at |-> "idle", prefs |-> Default] /\ raced = FALSE
      /\ content = AtFirst /\ loaders = {} /\ held = NoOne
  BY DEF PreferencesInit
<1>2. FilesRecorded /\ \A s \in Slot : command[s].at = "idle"
  BY <1>1, DefaultIsOne, IdleIsOne, UndrawnIsOne DEF FilesRecorded
<1>3. Calm
  BY <1>1, <1>2 DEF Calm
<1>4. Keyed
  BY <1>1 DEF PreferencesAssumption, Keyed, KeyNamesWeights, NoOne
<1> QED BY <1>2, <1>3, <1>4 DEF PInv

LEMMA NextPrefs == PInv /\ [PreferencesNext]_pvars => PInv'
BY NextCalm, NextKeyed DEF PInv

LEMMA AlwaysPrefs == ASSUME PreferencesAssumption PROVE PreferencesSpec => []PInv
BY FirstPrefs, NextPrefs, PTL DEF PreferencesSpec

LEMMA PInvAgrees == PInv => PrefsAgree
<1> SUFFICES ASSUME PInv PROVE PrefsAgree
  OBVIOUS
<1>1. memory \in Prefs /\ disk.prefs \in Prefs
  BY DEF PInv, FilesRecorded
<1>2. ASSUME Quiet PROVE disk.whole /\ disk.prefs = memory /\ applied = memory.redact_evidence
  <2>1. running = "up" /\ ~ raced /\ \A s \in Slot : command[s].at = "idle"
    BY <1>2 DEF Quiet, Busy
  <2>2. Agreement
    BY <2>1 DEF PInv, Calm
  <2> QED BY <2>1, <2>2 DEF Agreement
<1> QED BY <1>1, <1>2 DEF PrefsAgree

LEMMA MemoryStays ==
  ASSUME PInv, [PreferencesNext]_pvars, NEW s \in Slot, command[s].at = "applied", ~ raced
  PROVE  memory' = memory \/ memory' = command[s].next
<1>0. running = "up" /\ \A t \in Slot : t # s => command[t].at = "idle"
  BY Sole
<1>1. ASSUME NEW t \in Slot, Remember(t) PROVE memory' = command[s].next
  BY <1>0, <1>1 DEF Remember, Steps
<1>2. CASE Start
  BY <1>0, <1>2 DEF Start
<1>3. CASE \/ \E t \in Slot, sw \in Switch : Toggle(t, sw)
           \/ \E t \in Slot, p \in Path : PickModel(t, p)
           \/ \E t \in Slot : ForgetModel(t) \/ PauseAnalysis(t)
           \/ \E t \in Slot : Adopt(t) \/ ReadMemory(t) \/ Save(t) \/ SaveFails(t)
           \/ \E t \in Slot : Apply(t) \/ Finish(t)
           \/ Draw \/ \E sw \in Switch : FillBox(sw)
           \/ \E l \in loaders : Hashes(l) \/ Loads(l)
           \/ \E p \in Path, c \in Content : SwapFile(p, c)
           \/ Die \/ CliReads \/ \E p \in Path \cup {NoModel} : CliWrites(p)
           \/ \E who \in {"app", "cli"} : StoreRecord(who)
           \/ UNCHANGED pvars
  BY <1>3 DEF Toggle, PickModel, ForgetModel, PauseAnalysis, Command, Adopt, ReadMemory, Save,
     SaveFails, Apply, Finish, Draw, FillBox, Hashes, Loads, SwapFile, Die, CliReads, CliWrites,
     StoreRecord, pvars
<1> QED BY <1>1, <1>2, <1>3 DEF PreferencesNext

LEMMA PInvLeaves == PInv /\ [PreferencesNext]_pvars => SwitchLeavesTheModel
<1> SUFFICES ASSUME PInv, [PreferencesNext]_pvars PROVE SwitchLeavesTheModel
  OBVIOUS
<1>1. ASSUME NEW s \in Slot, command[s].what = "switch", command[s].at = "applied", ~ raced
      PROVE  SameModel(memory', memory)
  <2>1. SameModel(command[s].next, memory)
    BY <1>1, Sole DEF SwitchesKeep
  <2>2. memory' = memory \/ memory' = command[s].next
    BY <1>1, MemoryStays
  <2> QED BY <2>1, <2>2 DEF SameModel
<1> QED BY <1>1 DEF SwitchLeavesTheModel, Steps, SameModel

\* When nothing is being written, and no two writers overlapped and no write was
\* cut since the application started, prefs.json can be read and says what the
\* application's copy says and what redaction is in force; and the key verdicts are
\* stored under is that of the weights that give them, unless the file was replaced
\* between its hashing and its loading. For any models, any number of threads and
\* any number of clicks, picks, crashes and restarts (state.rs set_prefs, llm.rs
\* start).
THEOREM FileAndMemoryAgree ==
  ASSUME PreferencesAssumption PROVE PreferencesSpec => []PrefsHold
<1>1. PInv => PrefsHold
  BY PInvAgrees DEF PInv, Keyed, PrefsHold
<1> QED BY <1>1, AlwaysPrefs, PTL

\* A switch of the Status view never changes the model that was picked nor the
\* pause, whatever the copy it was drawn with, as long as nobody raced it
\* (setup.ts toggle, privacy, model and render).
THEOREM SwitchesKeepTheModel ==
  ASSUME PreferencesAssumption PROVE PreferencesSpec => SwitchesLeaveTheModel
<1>1. PInv /\ [PreferencesNext]_pvars => [SwitchLeavesTheModel]_pvars
  BY PInvLeaves
<1> QED BY <1>1, AlwaysPrefs, PTL DEF PreferencesSpec, SwitchesLeaveTheModel

-----------------------------------------------------------------------------
(* The reviews of the rules.                                                   *)

Key == Rule \X Question \X Call
RuleFile == [Rule -> Question \cup {Nil}]
SightingRow == [rule : Rule, question : Question \cup {Nil}, call : Call, seen : 0..MaxEvents]

-----------------------------------------------------------------------------
(* The ledger, as one review writes it: what is there is adopted, and rows  *)
(* of the present questions of rules that have one are added.               *)

\* Rows as a review inserts them.
OfPresent(rows, file1, when) ==
  \A x \in rows : /\ x.rule \in Present(file1) /\ x.question = file1[x.rule]
                  /\ x.seen = when

\* A rule's rows are all of an earlier version, or none is.
NilAlone == \A x, y \in ledger : x.rule = y.rule /\ x.question = Nil => y.question = Nil

LEMMA AdoptedRow ==
  ASSUME ledger \subseteq SightingRow, NEW file1 \in RuleFile, NEW x \in ledger
  PROVE  /\ x.question # Nil => x \in Adopted(file1)
         /\ x.question = Nil => [x EXCEPT !.question = file1[x.rule]] \in Adopted(file1)
<1>1. [x EXCEPT !.question = IF @ = Nil THEN file1[x.rule] ELSE @] \in Adopted(file1)
  BY DEF Adopted
<1>2. ASSUME x.question # Nil
      PROVE  [x EXCEPT !.question = IF @ = Nil THEN file1[x.rule] ELSE @] = x
  BY <1>2 DEF SightingRow
<1> QED BY <1>1, <1>2

LEMMA AdoptedFrom ==
  ASSUME ledger \subseteq SightingRow, NEW file1 \in RuleFile, NEW z \in Adopted(file1)
  PROVE  \E x \in ledger :
           /\ z.rule = x.rule /\ z.call = x.call /\ z.seen = x.seen /\ z \in SightingRow
           /\ z.question = IF x.question = Nil THEN file1[x.rule] ELSE x.question
<1>1. PICK x \in ledger : z = [x EXCEPT !.question = IF @ = Nil THEN file1[x.rule] ELSE @]
  BY DEF Adopted
<1>2. x \in SightingRow /\ file1[x.rule] \in Question \cup {Nil}
  BY DEF SightingRow, RuleFile
<1> QED BY <1>1, <1>2 DEF SightingRow

\* What a review adds beside what was adopted.
LEMMA InsertedSound ==
  ASSUME ledger \subseteq SightingRow, OneSighting, NilAlone,
         NEW file1 \in RuleFile, NEW when \in 0..MaxEvents,
         NEW rows, rows \subseteq SightingRow, OfPresent(rows, file1, when),
         ledger' = Inserted(Adopted(file1), rows)
  PROVE  /\ ledger' \subseteq SightingRow /\ OneSighting' /\ NilAlone' /\ KeepsSightings
<1> DEFINE base == Adopted(file1)
<1>1. /\ base \subseteq SightingRow
      /\ \A x, y \in base : SameKey(x, y) => x = y
      /\ \A x, y \in base : x.rule = y.rule /\ x.question = Nil => y.question = Nil
      /\ \A x \in base : x.question = Nil => file1[x.rule] = Nil
  <2>1. ASSUME NEW v \in base PROVE v \in SightingRow
    BY <2>1, AdoptedFrom
  <2>2. ASSUME NEW v \in base, NEW w \in base, v.rule = w.rule
        PROVE  /\ SameKey(v, w) => v = w
               /\ v.question = Nil => w.question = Nil
    <3>1. PICK x \in ledger : /\ v.rule = x.rule /\ v.call = x.call /\ v.seen = x.seen
                              /\ v.question = IF x.question = Nil THEN file1[x.rule] ELSE x.question
      BY AdoptedFrom
    <3>2. PICK y \in ledger : /\ w.rule = y.rule /\ w.call = y.call /\ w.seen = y.seen
                              /\ w.question = IF y.question = Nil THEN file1[y.rule] ELSE y.question
      BY AdoptedFrom
    <3>3. x.question = Nil <=> y.question = Nil
      BY <2>2, <3>1, <3>2 DEF NilAlone
    <3>4. v.question = Nil => w.question = Nil
      BY <2>2, <3>1, <3>2, <3>3
    <3>5. SameKey(v, w) => x = y
      BY <3>1, <3>2, <3>3 DEF SameKey, OneSighting
    <3>6. x = y => v = w
      BY <2>1, <3>1, <3>2 DEF SightingRow
    <3> QED BY <3>4, <3>5, <3>6
  <2>3. ASSUME NEW v \in base, v.question = Nil PROVE file1[v.rule] = Nil
    BY <2>3, AdoptedFrom
  <2> QED BY <2>1, <2>2, <2>3 DEF SameKey
<1>2. /\ base \subseteq ledger'
      /\ \A x \in ledger' : x \in base \/ (x \in rows /\ \A y \in base : ~ SameKey(x, y))
  BY DEF Inserted
<1> HIDE DEF base
<1>3. ledger' \subseteq SightingRow
  BY <1>1, <1>2
<1>4. OneSighting'
  <2>1. ASSUME NEW x \in ledger', NEW y \in ledger', SameKey(x, y) PROVE x = y
    <3>1. SameKey(y, x)
      BY <2>1 DEF SameKey
    <3>2. CASE x \in base /\ y \in base
      BY <1>1, <2>1, <3>2
    <3>3. CASE x \in rows /\ y \in rows
      BY <2>1, <3>3 DEF OfPresent, SightingRow, SameKey
    <3> QED BY <1>2, <2>1, <3>1, <3>2, <3>3
  <2> QED BY <2>1 DEF OneSighting, SameKey
<1>5. NilAlone'
  <2>1. ASSUME NEW x \in ledger', NEW y \in ledger', x.rule = y.rule, x.question = Nil
        PROVE  y.question = Nil
    <3>1. x \notin rows
      BY <2>1 DEF OfPresent, Present
    <3>2. x \in base /\ file1[x.rule] = Nil
      BY <1>1, <1>2, <2>1, <3>1
    <3>3. y \notin rows
      BY <2>1, <3>2 DEF OfPresent, Present
    <3> QED BY <1>1, <1>2, <2>1, <3>2, <3>3
  <2> QED BY <2>1 DEF NilAlone
<1>6. KeepsSightings
  <2>1. ASSUME NEW x \in ledger
        PROVE  \/ x \in ledger'
               \/ x.question = Nil /\ \E q \in Question : [x EXCEPT !.question = q] \in ledger'
    <3>0. x \in SightingRow /\ file1[x.rule] \in Question \cup {Nil}
      BY DEF SightingRow, RuleFile
    <3>1. CASE x.question # Nil
      BY <1>2, <3>1, AdoptedRow DEF base
    <3>2. CASE x.question = Nil /\ file1[x.rule] = Nil
      <4>1. [x EXCEPT !.question = file1[x.rule]] = x
        BY <3>0, <3>2 DEF SightingRow
      <4> QED BY <1>2, <3>2, <4>1, AdoptedRow DEF base
    <3>3. CASE x.question = Nil /\ file1[x.rule] # Nil
      BY <1>2, <3>0, <3>3, AdoptedRow DEF base
    <3> QED BY <3>1, <3>2, <3>3
  <2> QED BY <2>1 DEF KeepsSightings
<1> QED BY <1>3, <1>4, <1>5, <1>6

LEMMA RowsType ==
  ASSUME caught \in [Question -> SUBSET Call], NEW file1 \in RuleFile,
         NEW when \in 0..MaxEvents, NEW findings, DOMAIN findings = Present(file1)
  PROVE  /\ Rows(findings, file1, when) \subseteq SightingRow
         /\ OfPresent(Rows(findings, file1, when), file1, when)
<1>1. ASSUME NEW x \in Rows(findings, file1, when)
      PROVE  /\ x \in SightingRow /\ x.rule \in Present(file1)
             /\ x.question = file1[x.rule] /\ x.seen = when
  <2>1. PICK r \in Present(file1) : \E c \in caught[file1[r]] : x = Sighting(r, file1[r], c, when)
    BY DEF Rows
  <2>2. PICK c \in caught[file1[r]] : x = Sighting(r, file1[r], c, when)
    BY <2>1
  <2>3. r \in Rule /\ file1[r] \in Question
    BY <2>1 DEF Present, RuleFile
  <2>4. c \in Call
    BY <2>2, <2>3
  <2> QED BY <2>1, <2>2, <2>3, <2>4 DEF Sighting, SightingRow
<1> QED BY <1>1 DEF OfPresent

-----------------------------------------------------------------------------
(* A command, as far as the ledger depends on it.                           *)

Knows(c) ==
  /\ DOMAIN c = DOMAIN AtRest
  /\ c.step \in Step
  /\ c.step \in {"evaluating", "rolling", "submitting", "reading"} => c.rules \in RuleFile
  /\ c.step \in {"rolling", "submitting", "reading"} => DOMAIN c.findings = Present(c.rules)
  /\ c.step = "submitting" => c.now \in 0..MaxEvents
  /\ c.step = "judging" => c.rule \in Rule

Commanded ==
  /\ DOMAIN cmd = Thread /\ \A t \in Thread : Knows(cmd[t])
  /\ spent \in 0..MaxEvents
  /\ rules \in RuleFile

Counting(c) == c.step \in {"rolling", "reading"}

LEMMA IdleKnows == Knows(AtRest) /\ ~ Counting(AtRest)
BY DEF Knows, AtRest, Step, Counting

LEMMA OvertakenKnows ==
  ASSUME NEW cs, DOMAIN cs = Thread, \A t \in Thread : Knows(cs[t]), NEW by
  PROVE  /\ DOMAIN OvertakenBy(by, cs) = Thread
         /\ \A t \in Thread : /\ Knows(OvertakenBy(by, cs)[t])
                              /\ OvertakenBy(by, cs)[t].step = cs[t].step
<1>1. DOMAIN OvertakenBy(by, cs) = Thread
  BY DEF OvertakenBy
<1>2. ASSUME NEW t \in Thread
      PROVE  Knows(OvertakenBy(by, cs)[t]) /\ OvertakenBy(by, cs)[t].step = cs[t].step
  <2>1. \/ OvertakenBy(by, cs)[t] = cs[t]
        \/ OvertakenBy(by, cs)[t] = [cs[t] EXCEPT !.raced = TRUE]
    BY DEF OvertakenBy
  <2>2. CASE OvertakenBy(by, cs)[t] = [cs[t] EXCEPT !.raced = TRUE]
    <3> DEFINE c == cs[t]
               d == [c EXCEPT !.raced = TRUE]
    <3>1. Knows(c)
      OBVIOUS
    <3> HIDE DEF c
    <3>2. /\ DOMAIN d = DOMAIN AtRest /\ d.step = c.step /\ d.rules = c.rules
          /\ d.findings = c.findings /\ d.now = c.now /\ d.rule = c.rule
      BY <3>1 DEF Knows, AtRest
    <3> HIDE DEF d
    <3>3. Knows(d) /\ d.step = c.step
      BY <3>1, <3>2 DEF Knows
    <3> QED BY <2>2, <3>3 DEF c, d
  <2> QED BY <2>1, <2>2
<1> QED BY <1>1, <1>2

\* A step of one command changes no other.
LEMMA OneCommand ==
  ASSUME Commanded, NEW t \in Thread, NEW d, Knows(d),
         cmd' = [cmd EXCEPT ![t] = d], spent' \in 0..MaxEvents, rules' \in RuleFile
  PROVE  Commanded' /\ \A u \in Thread : cmd'[u] = IF u = t THEN d ELSE cmd[u]
<1>1. DOMAIN cmd' = Thread /\ \A u \in Thread : cmd'[u] = IF u = t THEN d ELSE cmd[u]
  BY DEF Commanded
<1> QED BY <1>1 DEF Commanded

\* What others do to the store overtakes commands, and no more.
LEMMA OthersKeepCommanded ==
  ASSUME Commanded, MaxEvents \in Nat, Capture \/ PurgeCalls \/ EditRules
  PROVE  Commanded' /\ \A t \in Thread : cmd'[t].step = cmd[t].step
<1>0. spent' \in 0..MaxEvents
  BY DEF Capture, PurgeCalls, EditRules, Happens, Commanded
<1>1. CASE Capture \/ PurgeCalls
  <2>1. cmd' = OvertakenBy(Nil, cmd) /\ UNCHANGED rules
    BY <1>1 DEF Capture, PurgeCalls, Commits, rulesfile
  <2> QED BY <1>0, <2>1, OvertakenKnows DEF Commanded
<1>2. CASE EditRules
  <2>1. UNCHANGED cmd /\ rules' \in RuleFile
    BY <1>2 DEF EditRules, Commanded, RuleFile
  <2> QED BY <1>0, <2>1 DEF Commanded
<1> QED BY <1>1, <1>2

\* One command's steps that leave the store to others.
LEMMA CommandKeepsCommanded ==
  ASSUME Commanded, MaxEvents \in Nat, Nil \notin Thread, NEW t \in Thread,
         \A u \in Thread : reader = u <=> Counting(cmd[u]),
         \/ Ask(t) \/ Note(t) \/ Look(t) \/ LoadRules(t) \/ Evaluate(t) \/ Rollup(t)
         \/ Counted(t) \/ Refuse(t) \/ ReadSightings(t) \/ Stamp(t) \/ RememberReview(t)
  PROVE  Commanded' /\ \A u \in Thread : reader' = u <=> Counting(cmd'[u])
<1> DEFINE c == cmd[t]
<1>0. Knows(c) /\ spent \in 0..MaxEvents /\ rules \in RuleFile
  BY DEF Commanded
<1>1. spent' \in 0..MaxEvents /\ UNCHANGED rules
  <2>1. CASE Ask(t) \/ Refuse(t)
    <3>1. Happens /\ UNCHANGED rulesfile
      BY <2>1 DEF Ask, Refuse
    <3> QED BY <1>0, <3>1 DEF Happens, rulesfile
  <2>2. CASE ~ Ask(t) /\ ~ Refuse(t)
    <3>1. UNCHANGED <<spent, rulesfile>>
      BY <2>2 DEF Note, Look, LoadRules, Evaluate, Rollup, Counted, ReadSightings, Stamp,
         RememberReview
    <3> QED BY <1>0, <3>1 DEF rulesfile
  <2> QED BY <2>1, <2>2
<1>c. ASSUME NEW d, Knows(d), cmd' = [cmd EXCEPT ![t] = d]
      PROVE  Commanded' /\ \A u \in Thread : cmd'[u] = IF u = t THEN d ELSE cmd[u]
  BY <1>0, <1>1, <1>c, OneCommand
<1>a. ASSUME NEW d, Knows(d), cmd' = [cmd EXCEPT ![t] = d], UNCHANGED reader,
             Counting(d) <=> Counting(c)
      PROVE  Commanded' /\ \A u \in Thread : reader' = u <=> Counting(cmd'[u])
  <2>1. Commanded' /\ \A u \in Thread : cmd'[u] = IF u = t THEN d ELSE cmd[u]
    BY <1>a, <1>c
  <2> QED BY <1>a, <2>1
<1>b. ASSUME NEW d, Knows(d), cmd' = [cmd EXCEPT ![t] = d],
             IF Counting(d) THEN reader' = t /\ reader \in {Nil, t}
                            ELSE reader' = Nil /\ reader = t
      PROVE  Commanded' /\ \A u \in Thread : reader' = u <=> Counting(cmd'[u])
  <2>1. Commanded' /\ \A u \in Thread : cmd'[u] = IF u = t THEN d ELSE cmd[u]
    BY <1>b, <1>c
  <2>2. \A u \in Thread : u # t => ~ Counting(cmd[u])
    BY <1>b
  <2> QED BY <1>b, <2>1, <2>2
<1>2. CASE Ask(t)
  <2>1. c.step = "idle" /\ UNCHANGED reader
    BY <1>2 DEF Ask
  <2>2. CASE Enters(t, "looking")
    <3> DEFINE d == [c EXCEPT !.step = "looking"]
    <3>1. cmd' = [cmd EXCEPT ![t] = d]
      BY <2>2 DEF Enters, Commanded
    <3>2. Knows(d) /\ ~ Counting(d) /\ ~ Counting(c)
      BY <1>0, <2>1 DEF Knows, Counting, AtRest, Step
    <3> HIDE DEF d, c
    <3> QED BY <1>a, <2>1, <3>1, <3>2
  <2>3. ASSUME NEW kind \in {"dismiss", "restore"}, NEW r \in Rule,
               cmd' = [cmd EXCEPT ![t] = [AtRest EXCEPT !.step = "judging",
                                                      !.kind = kind, !.rule = r]]
        PROVE  Commanded' /\ \A u \in Thread : reader' = u <=> Counting(cmd'[u])
    <3> DEFINE d == [AtRest EXCEPT !.step = "judging", !.kind = kind, !.rule = r]
    <3>1. Knows(d) /\ ~ Counting(d) /\ ~ Counting(c)
      BY <2>1 DEF Knows, Counting, AtRest, Step
    <3>2. cmd' = [cmd EXCEPT ![t] = d]
      BY <2>3
    <3> HIDE DEF d, c
    <3> QED BY <1>a, <2>1, <3>1, <3>2
  <2> QED BY <1>2, <2>2, <2>3 DEF Ask
<1>3. CASE Note(t)
  <2> DEFINE d == [AtRest EXCEPT !.step = "looking"]
  <2>1. cmd' = [cmd EXCEPT ![t] = d] /\ UNCHANGED reader /\ c.step = "noting"
    BY <1>3 DEF Note
  <2>2. Knows(d) /\ ~ Counting(d) /\ ~ Counting(c)
    BY <2>1 DEF Knows, Counting, AtRest, Step
  <2> HIDE DEF d, c
  <2> QED BY <1>a, <2>1, <2>2
<1>4. CASE Look(t)
  <2> DEFINE d == IF Servable THEN AtRest ELSE [c EXCEPT !.step = "loading", !.mtime = mtime]
  <2>1. cmd' = [cmd EXCEPT ![t] = d] /\ UNCHANGED reader /\ c.step = "looking"
    BY <1>4 DEF Look
  <2>2. Knows(d) /\ ~ Counting(d) /\ ~ Counting(c)
    <3>1. CASE Servable
      BY <2>1, <3>1, IdleKnows DEF Counting
    <3>2. CASE ~ Servable
      <4>1. d = [c EXCEPT !.step = "loading", !.mtime = mtime]
        BY <3>2
      <4> QED BY <1>0, <2>1, <4>1 DEF Knows, Counting, AtRest, Step
    <3> QED BY <3>1, <3>2
  <2> HIDE DEF d, c
  <2> QED BY <1>a, <2>1, <2>2
<1>5. CASE LoadRules(t)
  <2> DEFINE d == [c EXCEPT !.step = "evaluating", !.rules = rules, !.first = (ledger = {}),
                            !.raced = FALSE]
  <2>1. cmd' = [cmd EXCEPT ![t] = d] /\ UNCHANGED reader /\ c.step = "loading"
    BY <1>5 DEF LoadRules, Commanded
  <2>2. Knows(d) /\ ~ Counting(d) /\ ~ Counting(c)
    BY <1>0, <2>1 DEF Knows, Counting, AtRest, Step
  <2> HIDE DEF d, c
  <2> QED BY <1>a, <2>1, <2>2
<1>6. CASE Evaluate(t)
  <2> DEFINE F == [r \in Present(c.rules) |-> NoFinding(r)]
             d == [c EXCEPT !.step = "rolling", !.todo = Present(c.rules), !.findings = F,
                            !.raced = IF c.again THEN FALSE ELSE c.raced]
  <2>1. /\ cmd' = [cmd EXCEPT ![t] = d] /\ reader = Nil /\ reader' = t
        /\ c.step = "evaluating"
    BY <1>6 DEF Evaluate, Commanded
  <2>2. DOMAIN F = Present(c.rules)
    OBVIOUS
  <2> HIDE DEF F
  <2>3. Knows(d) /\ Counting(d)
    BY <1>0, <2>1, <2>2 DEF Knows, Counting, AtRest, Step
  <2> HIDE DEF d, c
  <2> QED BY <1>b, <2>1, <2>3
<1>7. CASE Rollup(t)
  <2>0. c.step = "rolling" /\ UNCHANGED reader
    BY <1>7 DEF Rollup
  <2>1. PICK r \in c.todo :
          cmd' = [cmd EXCEPT ![t].findings[r].calls = caught[cmd[t].rules[r]],
                             ![t].todo = @ \ {r}]
    BY <1>7 DEF Rollup
  <2> DEFINE F == [c.findings EXCEPT ![r].calls = caught[c.rules[r]]]
             d == [c EXCEPT !.findings = F, !.todo = @ \ {r}]
  <2>2. cmd' = [cmd EXCEPT ![t] = d]
    BY <1>0, <2>1 DEF Commanded, Knows, AtRest
  <2>3. DOMAIN F = DOMAIN c.findings
    OBVIOUS
  <2> HIDE DEF F
  <2>4. Knows(d) /\ Counting(d) /\ Counting(c)
    BY <1>0, <2>0, <2>3 DEF Knows, Counting, AtRest, Step
  <2> HIDE DEF d, c
  <2> QED BY <1>a, <2>0, <2>2, <2>4
<1>8. CASE Counted(t)
  <2> DEFINE d == [c EXCEPT !.step = IF c.again THEN "reading" ELSE "submitting", !.now = spent]
  <2>1. /\ cmd' = [cmd EXCEPT ![t] = d] /\ c.step = "rolling"
        /\ reader' = IF c.again THEN t ELSE Nil
    BY <1>8 DEF Counted, Commanded
  <2>2. Knows(d) /\ Counting(c) /\ (Counting(d) <=> c.again)
    BY <1>0, <2>1 DEF Knows, Counting, AtRest, Step
  <2>3. reader = t
    BY <2>2
  <2>4. cmd' = [cmd EXCEPT ![t] = d] /\ reader' = IF Counting(d) THEN t ELSE Nil
    BY <2>1, <2>2
  <2> HIDE DEF d, c
  <2> QED BY <1>b, <2>2, <2>3, <2>4
<1>9. CASE Refuse(t)
  <2>0. UNCHANGED reader
    BY <1>9 DEF Refuse
  <2>1. CASE c.step = "submitting" /\ cmd' = [cmd EXCEPT ![t] = Again(t)]
    <3> DEFINE d == [c EXCEPT !.step = "evaluating", !.again = TRUE]
    <3>1. cmd' = [cmd EXCEPT ![t] = d]
      BY <2>1 DEF Again
    <3>2. Knows(d) /\ ~ Counting(d) /\ ~ Counting(c)
      BY <1>0, <2>1 DEF Knows, Counting, AtRest, Step
    <3> HIDE DEF d, c
    <3> QED BY <1>a, <2>0, <3>1, <3>2
  <2>2. CASE c.step = "judging" /\ cmd' = [cmd EXCEPT ![t] = AtRest]
    <3>1. ~ Counting(c)
      BY <2>2 DEF Counting
    <3> HIDE DEF c
    <3> QED BY <1>a, <2>0, <2>2, <3>1, IdleKnows
  <2> QED BY <1>9, <2>1, <2>2 DEF Refuse
<1>10. CASE ReadSightings(t)
  <2> DEFINE F == [r \in DOMAIN c.findings |->
                     [c.findings[r] EXCEPT !.seen = FirstSeen(ledger, r, c.rules[r])]]
             d == [c EXCEPT !.step = "stamping", !.rules = Nil, !.now = Nil, !.findings = F]
  <2>1. /\ cmd' = [cmd EXCEPT ![t] = d] /\ c.step = "reading" /\ reader' = Nil
    BY <1>0, <1>10 DEF ReadSightings, Commanded, Knows, AtRest
  <2> HIDE DEF F
  <2>2. Knows(d) /\ ~ Counting(d) /\ Counting(c)
    BY <1>0, <2>1 DEF Knows, Counting, AtRest, Step
  <2>3. reader = t
    BY <2>2
  <2> HIDE DEF d, c
  <2> QED BY <1>b, <2>1, <2>2, <2>3
<1>11. CASE Stamp(t)
  <2> DEFINE d == [c EXCEPT !.step = "remembering",
                            !.mark = [version |-> version, counter |-> counter]]
  <2>1. cmd' = [cmd EXCEPT ![t] = d] /\ UNCHANGED reader /\ c.step = "stamping"
    BY <1>11 DEF Stamp, Commanded
  <2>2. Knows(d) /\ ~ Counting(d) /\ ~ Counting(c)
    BY <1>0, <2>1 DEF Knows, Counting, AtRest, Step
  <2> HIDE DEF d, c
  <2> QED BY <1>a, <2>1, <2>2
<1>12. CASE RememberReview(t)
  <2>1. cmd' = [cmd EXCEPT ![t] = AtRest] /\ UNCHANGED reader /\ c.step = "remembering"
    BY <1>12 DEF RememberReview
  <2>2. ~ Counting(c)
    BY <2>1 DEF Counting
  <2> HIDE DEF c
  <2> QED BY <1>a, <2>1, <2>2, IdleKnows
<1> QED BY <1>2, <1>3, <1>4, <1>5, <1>6, <1>7, <1>8, <1>9, <1>10, <1>11, <1>12

\* A command that writes to the store may overtake others.
LEMMA WriteKeepsCommanded ==
  ASSUME Commanded, NEW t \in Thread,
         DOMAIN cmd' = Thread, \A u \in Thread : Knows(cmd'[u]),
         \A u \in Thread : u # t => cmd'[u].step = cmd[u].step,
         ~ Counting(cmd'[t]), ~ Counting(cmd[t]),
         spent' \in 0..MaxEvents, rules' \in RuleFile
  PROVE  Commanded' /\ \A u \in Thread : Counting(cmd'[u]) <=> Counting(cmd[u])
<1>1. Commanded'
  BY DEF Commanded
<1>2. \A u \in Thread : Counting(cmd'[u]) <=> Counting(cmd[u])
  BY DEF Counting
<1> QED BY <1>1, <1>2

\* The command after its step, and the others.
LEMMA OneWrites ==
  ASSUME NEW t \in Thread, NEW over, NEW d, DOMAIN over = Thread,
         \A u \in Thread : Knows(over[u]) /\ over[u].step = cmd[u].step,
         Knows(d), cmd' = [over EXCEPT ![t] = d]
  PROVE  /\ DOMAIN cmd' = Thread /\ \A u \in Thread : Knows(cmd'[u])
         /\ \A u \in Thread : u # t => cmd'[u].step = cmd[u].step
         /\ cmd'[t] = d
<1>1. DOMAIN cmd' = Thread /\ \A u \in Thread : cmd'[u] = IF u = t THEN d ELSE over[u]
  OBVIOUS
<1> QED BY <1>1

LEMMA JudgeKeepsCommanded ==
  ASSUME Commanded, NEW t \in Thread, Judge(t)
  PROVE  Commanded' /\ \A u \in Thread : Counting(cmd'[u]) <=> Counting(cmd[u])
<1> DEFINE over == OvertakenBy(t, cmd)
           d == [over[t] EXCEPT !.step = "noting"]
<1>1. /\ DOMAIN over = Thread
      /\ \A u \in Thread : Knows(over[u]) /\ over[u].step = cmd[u].step
  BY OvertakenKnows DEF Commanded
<1>2. cmd[t].step = "judging" /\ cmd' = [over EXCEPT ![t] = d] /\ UNCHANGED <<rules, spent>>
  BY <1>1 DEF Judge, rulesfile
<1> HIDE DEF over
<1>3. Knows(d) /\ ~ Counting(d) /\ ~ Counting(cmd[t])
  BY <1>1, <1>2 DEF Knows, Counting, AtRest, Step
<1>4. spent' \in 0..MaxEvents /\ rules' \in RuleFile
  BY <1>2 DEF Commanded
<1> HIDE DEF d
<1>5. /\ DOMAIN cmd' = Thread /\ \A u \in Thread : Knows(cmd'[u])
      /\ \A u \in Thread : u # t => cmd'[u].step = cmd[u].step
      /\ cmd'[t] = d
  BY <1>1, <1>2, <1>3, OneWrites
<1> QED BY <1>2, <1>3, <1>4, <1>5, WriteKeepsCommanded

LEMMA FourFields ==
  ASSUME NEW over, NEW t \in DOMAIN over, NEW F
  PROVE  [over EXCEPT ![t].step = "stamping", ![t].rules = Nil, ![t].now = Nil, ![t].findings = F]
           = [over EXCEPT ![t] = [over[t] EXCEPT !.step = "stamping", !.rules = Nil, !.now = Nil,
                                                 !.findings = F]]
OBVIOUS

LEMMA RecordKeepsCommanded ==
  ASSUME Commanded, MaxEvents \in Nat, NEW t \in Thread, Record(t) \/ RecordFails(t)
  PROVE  Commanded' /\ \A u \in Thread : Counting(cmd'[u]) <=> Counting(cmd[u])
<1> DEFINE over == IF ledger' = ledger THEN cmd ELSE OvertakenBy(t, cmd)
           c == over[t]
<1>1. /\ DOMAIN over = Thread
      /\ \A u \in Thread : Knows(over[u]) /\ over[u].step = cmd[u].step
  BY OvertakenKnows DEF Commanded
<1>2. cmd[t].step = "submitting" /\ ~ Counting(cmd[t])
  BY DEF Record, RecordFails, Counting
<1>3. spent' \in 0..MaxEvents /\ rules' \in RuleFile
  <2>1. UNCHANGED rulesfile /\ (Happens \/ UNCHANGED spent)
    BY DEF Record, RecordFails
  <2> QED BY <2>1 DEF rulesfile, Happens, Commanded
<1>4. CASE Record(t)
  <2> DEFINE file1 == cmd[t].rules
             found == cmd[t].findings
             after == LedgerAfter(found, file1, cmd[t].now)
             new   == [r \in DOMAIN found |-> NewOf(after, Adopted(file1), r, file1[r])]
             F == [r \in DOMAIN found |->
                    [found[r] EXCEPT !.seen = FirstSeen(after, r, file1[r]), !.new = new[r]]]
             d == [c EXCEPT !.step = "stamping", !.rules = Nil, !.now = Nil, !.findings = F]
  <2>1. ledger' = after
    BY <1>4 DEF Record
  <2>2. cmd' = [(IF after = ledger THEN cmd ELSE OvertakenBy(t, cmd)) EXCEPT
             ![t].step = "stamping", ![t].rules = Nil, ![t].now = Nil,
             ![t].findings = F]
    BY <1>4 DEF Record
  <2>3. cmd' = [over EXCEPT ![t].step = "stamping", ![t].rules = Nil, ![t].now = Nil,
                            ![t].findings = F]
    BY <2>1, <2>2
  <2> HIDE DEF F, over
  <2>4. cmd' = [over EXCEPT ![t] = d]
    BY <1>1, <2>3, FourFields
  <2>5. Knows(d) /\ ~ Counting(d)
    BY <1>1, <1>2 DEF Knows, Counting, AtRest, Step
  <2> HIDE DEF d
  <2> HIDE DEF c
  <2>6. /\ DOMAIN cmd' = Thread /\ \A u \in Thread : Knows(cmd'[u])
        /\ \A u \in Thread : u # t => cmd'[u].step = cmd[u].step
        /\ cmd'[t] = d
    BY <1>1, <2>4, <2>5, OneWrites
  <2> QED BY <1>2, <1>3, <2>5, <2>6, WriteKeepsCommanded
<1>5. CASE RecordFails(t)
  <2> DEFINE b == cmd[t]
             d == [b EXCEPT !.step = "evaluating", !.again = TRUE]
  <2>1. cmd' = [over EXCEPT ![t] = d]
    <3>1. cmd' = [over EXCEPT ![t] = Again(t)]
      BY <1>5 DEF RecordFails
    <3>2. Again(t) = d
      BY DEF Again
    <3> QED BY <3>1, <3>2
  <2>2. Knows(b)
    BY DEF Commanded
  <2>3. Knows(d) /\ ~ Counting(d)
    BY <1>2, <2>2 DEF Knows, Counting, AtRest, Step
  <2> HIDE DEF d, over
  <2> HIDE DEF c
  <2>6. /\ DOMAIN cmd' = Thread /\ \A u \in Thread : Knows(cmd'[u])
        /\ \A u \in Thread : u # t => cmd'[u].step = cmd[u].step
        /\ cmd'[t] = d
    BY <1>1, <2>1, <2>3, OneWrites
  <2> QED BY <1>2, <1>3, <2>3, <2>6, WriteKeepsCommanded
<1> QED BY <1>4, <1>5

-----------------------------------------------------------------------------
(* The invariant.                                                           *)

Ledgered == ReviewTypeOK /\ Commanded /\ OneSighting /\ NilAlone

StoreType == /\ caught \in [Question -> SUBSET Call] /\ dismissed \subseteq Rule
             /\ {version, mtime, counter} \subseteq Nat

TypeFromParts == ReviewTypeOK <=>
  /\ StoreType /\ ledger \subseteq SightingRow /\ rules \in RuleFile /\ spent \in Nat
  /\ \A t \in Thread : cmd[t].step \in Step /\ (reader = t <=> Counting(cmd[t]))

LEMMA TypeParts == TypeFromParts /\ TypeFromParts'
BY DEF TypeFromParts, ReviewTypeOK, StoreType, SightingRow, RuleFile, Counting

\* The rest of the store keeps its type whatever is done.
LEMMA StepKeepsStore ==
  ASSUME ReviewTypeOK, Commanded, ReviewNext
  PROVE  StoreType'
<1>0. StoreType
  BY TypeParts DEF TypeFromParts
<1>1. CASE Capture
  <2>1. UNCHANGED <<dismissed, mtime, counter>> /\ version' = version + 1
    BY <1>1 DEF Capture, Commits, rulesfile
  <2>2. caught' \in [Question -> SUBSET Call]
    BY <1>0, <1>1 DEF Capture, StoreType
  <2> QED BY <1>0, <2>1, <2>2 DEF StoreType
<1>2. CASE PurgeCalls
  <2>1. UNCHANGED <<dismissed, mtime, counter>> /\ version' = version + 1
    BY <1>2 DEF PurgeCalls, Commits, rulesfile
  <2>2. caught' \in [Question -> SUBSET Call]
    BY <1>0, <1>2 DEF PurgeCalls, StoreType
  <2> QED BY <1>0, <2>1, <2>2 DEF StoreType
<1>3. CASE EditRules
  BY <1>0, <1>3 DEF EditRules, tables, StoreType
<1>4. CASE Quit
  BY <1>0, <1>4 DEF Quit, tables, rulesfile, StoreType
<1>5. ASSUME NEW t \in Thread, Judge(t) PROVE StoreType'
  <2>1. cmd[t].rule \in Rule
    BY <1>5 DEF Judge, Commanded, Knows
  <2>2. dismissed' \subseteq Rule
    BY <1>0, <1>5, <2>1 DEF Judge, StoreType
  <2>3. UNCHANGED <<caught, mtime, counter>> /\ version' = version + 1
    BY <1>5 DEF Judge, rulesfile
  <2> QED BY <1>0, <2>2, <2>3 DEF StoreType
<1>6. ASSUME NEW t \in Thread, Note(t) PROVE StoreType'
  <2>1. UNCHANGED <<caught, dismissed, version, mtime>> /\ counter' = counter + 1
    BY <1>6 DEF Note, tables, rulesfile
  <2> QED BY <1>0, <2>1 DEF StoreType
<1>7. ASSUME NEW t \in Thread, Record(t) \/ RecordFails(t) PROVE StoreType'
  <2>1. /\ UNCHANGED <<caught, dismissed, mtime, counter>>
        /\ version' = version \/ version' = version + 1
    BY <1>7 DEF Record, RecordFails, rulesfile
  <2> QED BY <1>0, <2>1 DEF StoreType
<1>8. ASSUME NEW t \in Thread,
             \/ Ask(t) \/ Look(t) \/ LoadRules(t) \/ Evaluate(t) \/ Rollup(t) \/ Counted(t)
             \/ Refuse(t) \/ ReadSightings(t) \/ Stamp(t) \/ RememberReview(t)
      PROVE  StoreType'
  <2>1. UNCHANGED <<tables, rulesfile, counter>>
    BY <1>8 DEF Ask, Look, LoadRules, Evaluate, Rollup, Counted, Refuse, ReadSightings, Stamp,
       RememberReview
  <2> QED BY <1>0, <2>1 DEF tables, rulesfile, StoreType
<1> QED BY <1>1, <1>2, <1>3, <1>4, <1>5, <1>6, <1>7, <1>8 DEF ReviewNext

\* Commands, and who holds the connection.
LEMMA StepKeepsCommands ==
  ASSUME RiskReviewAssumption, Ledgered, ReviewNext
  PROVE  Commanded' /\ \A t \in Thread : reader' = t <=> Counting(cmd'[t])
<1>0. /\ MaxEvents \in Nat /\ Nil \notin Thread /\ Commanded
      /\ \A t \in Thread : reader = t <=> Counting(cmd[t])
  BY TypeParts DEF RiskReviewAssumption, Ledgered, TypeFromParts
<1>1. CASE Capture \/ PurgeCalls \/ EditRules
  <2>1. Commanded' /\ \A t \in Thread : cmd'[t].step = cmd[t].step
    BY <1>0, <1>1, OthersKeepCommanded
  <2>2. UNCHANGED reader
    BY <1>1 DEF Capture, PurgeCalls, EditRules
  <2> QED BY <1>0, <2>1, <2>2 DEF Counting
<1>2. CASE Quit
  <2>1. reader' = Nil /\ cmd' = [t \in Thread |-> AtRest] /\ UNCHANGED rules /\ Happens
    BY <1>2 DEF Quit, rulesfile
  <2>2. spent' \in 0..MaxEvents /\ rules' \in RuleFile
    BY <1>0, <2>1 DEF Happens, Commanded
  <2> QED BY <1>0, <2>1, <2>2, IdleKnows DEF Commanded
<1>3. ASSUME NEW t \in Thread, Judge(t)
      PROVE  Commanded' /\ \A u \in Thread : reader' = u <=> Counting(cmd'[u])
  <2>1. UNCHANGED reader
    BY <1>3 DEF Judge
  <2> QED BY <1>0, <1>3, <2>1, JudgeKeepsCommanded
<1>4. ASSUME NEW t \in Thread, Record(t) \/ RecordFails(t)
      PROVE  Commanded' /\ \A u \in Thread : reader' = u <=> Counting(cmd'[u])
  <2>1. UNCHANGED reader
    BY <1>4 DEF Record, RecordFails
  <2> QED BY <1>0, <1>4, <2>1, RecordKeepsCommanded
<1>5. ASSUME NEW t \in Thread,
             \/ Ask(t) \/ Note(t) \/ Look(t) \/ LoadRules(t) \/ Evaluate(t) \/ Rollup(t)
             \/ Counted(t) \/ Refuse(t) \/ ReadSightings(t) \/ Stamp(t) \/ RememberReview(t)
      PROVE  Commanded' /\ \A u \in Thread : reader' = u <=> Counting(cmd'[u])
  BY <1>0, <1>5, CommandKeepsCommanded
<1> QED BY <1>1, <1>2, <1>3, <1>4, <1>5 DEF ReviewNext

\* What one review writes.
LEMMA WritesSound ==
  ASSUME RiskReviewAssumption, Ledgered, NEW t \in Thread, Record(t) \/ RecordFails(t)
  PROVE  ledger' \subseteq SightingRow /\ OneSighting' /\ NilAlone' /\ KeepsSightings
<1> DEFINE file1 == cmd[t].rules
           when == cmd[t].now
           all == Rows(cmd[t].findings, file1, when)
<1>0. ledger \subseteq SightingRow /\ caught \in [Question -> SUBSET Call] /\ OneSighting /\ NilAlone
  BY TypeParts DEF Ledgered, TypeFromParts, StoreType
<1>1. file1 \in RuleFile /\ when \in 0..MaxEvents /\ DOMAIN cmd[t].findings = Present(file1)
  BY DEF Record, RecordFails, Ledgered, Commanded, Knows
<1>2. all \subseteq SightingRow /\ OfPresent(all, file1, when)
  BY <1>0, <1>1, RowsType
<1>3. \E rows \in SUBSET all : ledger' = Inserted(Adopted(file1), rows)
  BY DEF Record, RecordFails, LedgerAfter
<1> HIDE DEF file1, when, all
<1>4. PICK rows \in SUBSET all : ledger' = Inserted(Adopted(file1), rows)
  BY <1>3
<1>5. rows \subseteq SightingRow /\ OfPresent(rows, file1, when)
  BY <1>2 DEF OfPresent
<1> QED BY <1>0, <1>1, <1>4, <1>5, InsertedSound

\* Nothing else writes to the ledger.
LEMMA OthersLeaveLedger ==
  ASSUME ReviewNext, ~ \E t \in Thread : Record(t) \/ RecordFails(t)
  PROVE  UNCHANGED ledger
BY DEF ReviewNext, Capture, PurgeCalls, EditRules, Quit, Ask, Judge, Note, Look, LoadRules, Evaluate, Rollup,
       Counted, Refuse, ReadSightings, Stamp, RememberReview, tables

LEMMA StepKeepsLedger ==
  ASSUME RiskReviewAssumption, Ledgered, ReviewNext
  PROVE  ledger' \subseteq SightingRow /\ OneSighting' /\ NilAlone' /\ KeepsSightings
<1>1. CASE \E t \in Thread : Record(t) \/ RecordFails(t)
  BY <1>1, WritesSound
<1>2. CASE ~ \E t \in Thread : Record(t) \/ RecordFails(t)
  <2>1. UNCHANGED ledger /\ ledger \subseteq SightingRow
    BY <1>2, OthersLeaveLedger, TypeParts DEF Ledgered, TypeFromParts
  <2> QED BY <2>1 DEF Ledgered, OneSighting, NilAlone, KeepsSightings
<1> QED BY <1>1, <1>2

LEMMA InitLedgered == RiskReviewAssumption /\ ReviewInit => Ledgered
<1> SUFFICES ASSUME RiskReviewAssumption, ReviewInit PROVE Ledgered
  OBVIOUS
<1>0. MaxEvents \in Nat /\ Recorded \subseteq Call /\ Nil \notin Thread
  BY DEF RiskReviewAssumption
<1>1. \E old \in {{}, Recorded} :
        ledger = [rule : Rule, question : {Nil}, call : old, seen : {0}]
  BY DEF ReviewInit
<1>2. ledger \subseteq SightingRow /\ OneSighting /\ NilAlone
  BY <1>0, <1>1 DEF SightingRow, OneSighting, SameKey, NilAlone
<1>3. Commanded /\ \A t \in Thread : reader = t <=> Counting(cmd[t])
  BY <1>0, IdleKnows DEF ReviewInit, Commanded, RuleFile
<1>4. StoreType
  BY DEF ReviewInit, StoreType
<1>5. ReviewTypeOK
  BY <1>2, <1>3, <1>4, TypeParts DEF TypeFromParts, Commanded, Knows
<1> QED BY <1>2, <1>3, <1>5 DEF Ledgered

LEMMA StepKeepsLedgered ==
  RiskReviewAssumption /\ Ledgered /\ [ReviewNext]_reviewvars
    => Ledgered' /\ (ReviewNext => KeepsSightings)
<1> SUFFICES ASSUME RiskReviewAssumption, Ledgered, [ReviewNext]_reviewvars
             PROVE  Ledgered' /\ (ReviewNext => KeepsSightings)
  OBVIOUS
<1>1. CASE ReviewNext
  <2>1. Commanded' /\ \A t \in Thread : reader' = t <=> Counting(cmd'[t])
    BY <1>1, StepKeepsCommands
  <2>2. ledger' \subseteq SightingRow /\ OneSighting' /\ NilAlone' /\ KeepsSightings
    BY <1>1, StepKeepsLedger
  <2>3. StoreType'
    BY <1>1, StepKeepsStore DEF Ledgered
  <2>4. ReviewTypeOK'
    BY <2>1, <2>2, <2>3, TypeParts DEF TypeFromParts, Commanded, Knows
  <2> QED BY <2>1, <2>2, <2>4 DEF Ledgered
<1>2. CASE UNCHANGED reviewvars /\ ~ ReviewNext
  BY <1>2 DEF reviewvars, Ledgered, ReviewTypeOK, Commanded, OneSighting, NilAlone
<1> QED BY <1>1, <1>2

\* The state keeps its shape, and a call one row in the ledger under a question of
\* a rule, whatever is adopted, retuned, refused or half-recorded (rules.rs
\* record_sightings, adopt_sightings).
THEOREM LedgerSound ==
  ASSUME RiskReviewAssumption
  PROVE  ReviewSpec => []LedgerInv
<1>1. ReviewInit => Ledgered
  BY InitLedgered
<1>2. Ledgered /\ [ReviewNext]_reviewvars => Ledgered'
  BY StepKeepsLedgered
<1>3. Ledgered => LedgerInv
  BY DEF Ledgered, LedgerInv
<1> QED BY <1>1, <1>2, <1>3, PTL DEF ReviewSpec

\* No sighting is lost and none changes its date, whatever is purged, retuned or
\* judged; one of an earlier version is given a question at most (rules.rs).
THEOREM SightingsKept ==
  ASSUME RiskReviewAssumption
  PROVE  ReviewSpec => LedgerKept
<1>1. ReviewInit => Ledgered
  BY InitLedgered
<1>2. Ledgered /\ [ReviewNext]_reviewvars => Ledgered' /\ [KeepsSightings]_reviewvars
  BY StepKeepsLedgered
<1> QED BY <1>1, <1>2, PTL DEF ReviewSpec, LedgerKept

-----------------------------------------------------------------------------
(* Announcements: what was announced as new is in the ledger, under the     *)
(* question it was announced for, and so is never new again.                *)

HeldKey(x) == \E y \in ledger : y.rule = x[1] /\ y.question = x[2] /\ y.call = x[3]

Announced ==
  /\ news \in [Key -> Nat]
  /\ \A x \in Key : news[x] <= 1 /\ (news[x] = 1 => HeldKey(x))

\* A key that is held stays held.
LEMMA HeldStays ==
  ASSUME RiskReviewAssumption, KeepsSightings, NEW x \in Key, HeldKey(x)
  PROVE  HeldKey(x)'
<1>1. PICK y \in ledger : y.rule = x[1] /\ y.question = x[2] /\ y.call = x[3]
  BY DEF HeldKey
<1>2. x[2] \in Question /\ Nil \notin Question
  BY DEF Key, RiskReviewAssumption
<1>3. y \in ledger'
  BY <1>1, <1>2 DEF KeepsSightings
<1> QED BY <1>1, <1>3 DEF HeldKey

\* What a review finds new was not held before, and is now.
LEMMA NewWasNotHeld ==
  ASSUME RiskReviewAssumption, ledger \subseteq SightingRow, NEW file1 \in RuleFile,
         NEW rows, ledger' = Inserted(Adopted(file1), rows),
         NEW x \in Key, x[2] = file1[x[1]],
         x[3] \in NewOf(ledger', Adopted(file1), x[1], file1[x[1]])
  PROVE  ~ HeldKey(x) /\ HeldKey(x)'
<1>1. PICK z \in ledger' \ Adopted(file1) : z.rule = x[1] /\ z.question = x[2] /\ z.call = x[3]
  BY DEF NewOf
<1>2. \A y \in Adopted(file1) : ~ SameKey(z, y)
  BY <1>1 DEF Inserted
<1>3. ASSUME NEW y \in ledger, y.rule = x[1], y.question = x[2], y.call = x[3] PROVE FALSE
  <2>1. y.question # Nil
    BY <1>3 DEF Key, RiskReviewAssumption
  <2>2. y \in Adopted(file1)
    BY <2>1, AdoptedRow
  <2> QED BY <1>1, <1>2, <1>3, <2>2 DEF SameKey
<1> QED BY <1>1, <1>3 DEF HeldKey

\* A review announces a sighting once more only if it finds it new.
LEMMA RecordAnnounces ==
  ASSUME RiskReviewAssumption, Ledgered, Announced, NEW t \in Thread, Record(t)
  PROVE  Announced'
<1> DEFINE file1 == cmd[t].rules
           found == cmd[t].findings
           rows == Rows(found, file1, cmd[t].now)
           after == LedgerAfter(found, file1, cmd[t].now)
           new == [r \in DOMAIN found |-> NewOf(after, Adopted(file1), r, file1[r])]
<1>1. ledger \subseteq SightingRow /\ file1 \in RuleFile /\ KeepsSightings
  BY WritesSound, TypeParts DEF Record, Ledgered, TypeFromParts, Commanded, Knows
<1>2. ledger' = after /\ after = Inserted(Adopted(file1), rows)
  BY DEF Record, LedgerAfter
<1>3. news' = [x \in DOMAIN news |->
                 IF x[1] \in DOMAIN found /\ x[2] = file1[x[1]] /\ x[3] \in new[x[1]]
                 THEN news[x] + 1 ELSE news[x]]
  BY DEF Record
<1>4. \A r \in DOMAIN found : new[r] = NewOf(ledger', Adopted(file1), r, file1[r])
  BY <1>2
<1> HIDE DEF new, after, rows, file1, found
<1>5. ASSUME NEW x \in Key
      PROVE  \/ news'[x] = news[x]
             \/ news'[x] = news[x] + 1 /\ ~ HeldKey(x) /\ HeldKey(x)'
  <2>1. CASE x[1] \in DOMAIN found /\ x[2] = file1[x[1]] /\ x[3] \in new[x[1]]
    <3>1. news'[x] = news[x] + 1
      BY <1>3, <2>1 DEF Announced
    <3>2. x[3] \in NewOf(ledger', Adopted(file1), x[1], file1[x[1]])
      BY <1>4, <2>1
    <3>3. ~ HeldKey(x) /\ HeldKey(x)'
      BY <1>1, <1>2, <2>1, <3>2, NewWasNotHeld
    <3> QED BY <3>1, <3>3
  <2>2. CASE ~ (x[1] \in DOMAIN found /\ x[2] = file1[x[1]] /\ x[3] \in new[x[1]])
    BY <1>3, <2>2 DEF Announced
  <2> QED BY <2>1, <2>2
<1>6. news' \in [Key -> Nat]
  BY <1>3 DEF Announced
<1>7. ASSUME NEW x \in Key PROVE news'[x] <= 1 /\ (news'[x] = 1 => HeldKey(x)')
  <2>1. news[x] \in Nat /\ news[x] <= 1 /\ (news[x] = 1 => HeldKey(x))
    BY DEF Announced
  <2>2. HeldKey(x) => HeldKey(x)'
    BY <1>1, HeldStays
  <2> QED BY <1>5, <2>1, <2>2
<1> QED BY <1>6, <1>7 DEF Announced

LEMMA StepKeepsAnnounced ==
  RiskReviewAssumption /\ Ledgered /\ Announced /\ [ReviewNext]_reviewvars => Announced'
<1> SUFFICES ASSUME RiskReviewAssumption, Ledgered, Announced, [ReviewNext]_reviewvars
             PROVE  Announced'
  OBVIOUS
<1>1. CASE \E t \in Thread : Record(t)
  BY <1>1, RecordAnnounces
<1>2. CASE ReviewNext /\ ~ \E t \in Thread : Record(t)
  <2>1. UNCHANGED news
    BY <1>2 DEF ReviewNext, Capture, PurgeCalls, EditRules, Quit, Ask, Judge, Note, Look, LoadRules, Evaluate,
                Rollup, Counted, Refuse, RecordFails, ReadSightings, Stamp, RememberReview
  <2>2. KeepsSightings
    BY <1>2, StepKeepsLedger
  <2> QED BY <2>1, <2>2, HeldStays DEF Announced
<1>3. CASE UNCHANGED reviewvars
  BY <1>3 DEF reviewvars, Announced, HeldKey
<1> QED BY <1>1, <1>2, <1>3

\* A sighting is announced as new by one review at most, however many are under
\* way, refused, repeated or cut short (rules.rs record_sightings).
THEOREM NewOnce ==
  ASSUME RiskReviewAssumption
  PROVE  ReviewSpec => []AnnouncedOnce
<1>1. ReviewInit => Ledgered /\ Announced
  <2>1. ReviewInit => Announced
    BY DEF ReviewInit, Announced, Key
  <2> QED BY <2>1, InitLedgered
<1>2. Ledgered /\ Announced /\ [ReviewNext]_reviewvars => Ledgered' /\ Announced'
  BY StepKeepsLedgered, StepKeepsAnnounced
<1>3. Announced => AnnouncedOnce
  BY DEF Announced, AnnouncedOnce
<1> QED BY <1>1, <1>2, <1>3, PTL DEF ReviewSpec

-----------------------------------------------------------------------------
(* What a review counts.  k, di, l, v, ru and mt stand for what the store     *)
(* catches and has set aside, the ledger, the commits, the rules and their    *)
(* file's time.                                                               *)

\* Findings that count what the rules ru find.
CountIs(F, k, di, ru) ==
  /\ DOMAIN F = Present(ru)
  /\ \A r \in DOMAIN F : F[r].calls = k[ru[r]] /\ F[r].dismissed = (r \in di)

\* A review that counts has a finding for each rule, and rereads the rules
\* because it was refused.
RowsShaped(c) ==
  /\ c.step \in {"rolling", "submitting", "reading"} =>
       \A r \in DOMAIN c.findings :
         DOMAIN c.findings[r] = {"calls", "dismissed", "seen", "new"}
  /\ c.step = "reading" => c.again

\* The time a command remembers is of a file that may have changed since; while
\* it has not, the rules it read are the rules there are.
Timely(c, mt) ==
  c.step \in {"loading", "evaluating", "rolling", "submitting", "reading", "stamping",
              "remembering"} => c.mtime \in Nat /\ c.mtime <= mt
RulesHeld(c, ru, mt) ==
  c.step \in {"evaluating", "rolling", "submitting", "reading"} /\ c.mtime = mt => c.rules = ru

\* What it has counted is what the store has, unless it was overtaken ...
SightingsCounted(c, k, di) ==
  c.step \in {"rolling", "submitting", "reading"} /\ ~ c.raced =>
    \A r \in DOMAIN c.findings :
      /\ c.findings[r].dismissed = (r \in di)
      /\ (c.step = "rolling" /\ r \in c.todo) \/ c.findings[r].calls = k[c.rules[r]]

\* ... which after the stamp the commits since tell.
Marked(c, v) == c.step = "remembering" => c.mark.version \in Nat /\ c.mark.version <= v
Stamped(c, k, di, v, ru, mt) ==
  /\ c.step = "stamping" \/ (c.step = "remembering" /\ c.mark.version = v)
  /\ ~ c.raced /\ c.mtime = mt
  => CountIs(c.findings, k, di, ru)

\* Nothing was recorded before a first review, up to its own recording.
FirstOfAll(c, l) ==
  c.step \in {"evaluating", "rolling", "submitting"} /\ ~ c.raced /\ ~ c.again /\ c.first
    => l = {}

\* What ReviewAgrees says of one command.
Agreeing(F, first) ==
  \A r \in DOMAIN F :
    /\ F[r].new \subseteq F[r].calls
    /\ F[r].dismissed => F[r].new = {}
    /\ Live(F[r]) => F[r].seen # Nil
    /\ Live(F[r]) /\ first => F[r].new = F[r].calls
Agrees(c) ==
  c.step \in {"stamping", "remembering"} /\ ~ c.raced /\ ~ c.again =>
    Agreeing(c.findings, c.first)

Sees(c, k, di, l, v, ru, mt) ==
  /\ RowsShaped(c) /\ Timely(c, mt) /\ RulesHeld(c, ru, mt) /\ SightingsCounted(c, k, di)
  /\ Marked(c, v) /\ Stamped(c, k, di, v, ru, mt) /\ FirstOfAll(c, l) /\ Agrees(c)

\* What is remembered counts what the rules find, unless something moved.
Remembers(m, k, di, v, ru, mt) ==
  m # Nil =>
    /\ m.version \in Nat /\ m.version <= v /\ m.mtime \in Nat /\ m.mtime <= mt
    /\ m.version = v /\ m.mtime = mt /\ ~ m.raced => CountIs(m.findings, k, di, ru)

Reviewed ==
  /\ \A t \in Thread : Sees(cmd[t], caught, dismissed, ledger, version, rules, mtime)
  /\ Remembers(memo, caught, dismissed, version, rules, mtime)

-----------------------------------------------------------------------------
(* What a commit, and an edit of the rules, leave of what others have seen.  *)

LEMMA SeesNothing ==
  ASSUME NEW c, c.step \in {"idle", "judging", "noting", "looking"},
         NEW k, NEW di, NEW l, NEW v, NEW ru, NEW mt
  PROVE  Sees(c, k, di, l, v, ru, mt)
BY DEF Sees, RowsShaped, Timely, RulesHeld, SightingsCounted, Marked, Stamped, FirstOfAll, Agrees

\* Whoever reads is overtaken, and a stamp is of an earlier commit.
LEMMA CommitSeen ==
  ASSUME NEW c, Knows(c), NEW k, NEW di, NEW l, NEW v \in Nat, NEW ru, NEW mt,
         Sees(c, k, di, l, v, ru, mt),
         NEW d, d = IF c.step \notin {"idle", "judging", "noting", "looking", "loading",
                                      "remembering"}
                    THEN [c EXCEPT !.raced = TRUE] ELSE c,
         NEW k1, NEW di1, NEW l1
  PROVE  Sees(d, k1, di1, l1, v + 1, ru, mt)
<1>1. CASE c.step \notin {"idle", "judging", "noting", "looking", "loading", "remembering"}
  <2>0. d = [c EXCEPT !.raced = TRUE] /\ DOMAIN c = DOMAIN AtRest
    BY <1>1 DEF Knows
  <2>1. /\ d.step = c.step /\ d.mtime = c.mtime /\ d.rules = c.rules /\ d.again = c.again
        /\ d.findings = c.findings /\ d.raced = TRUE
    BY <2>0 DEF AtRest
  <2>2. RowsShaped(d) /\ Timely(d, mt) /\ RulesHeld(d, ru, mt)
    BY <2>1 DEF Sees, RowsShaped, Timely, RulesHeld
  <2>3. SightingsCounted(d, k1, di1) /\ FirstOfAll(d, l1) /\ Agrees(d) /\ Stamped(d, k1, di1, v + 1, ru, mt)
    BY <2>1 DEF SightingsCounted, FirstOfAll, Agrees, Stamped
  <2>4. Marked(d, v + 1)
    BY <1>1, <2>1 DEF Marked
  <2> QED BY <2>2, <2>3, <2>4 DEF Sees
<1>2. CASE c.step \in {"idle", "judging", "noting", "looking", "loading", "remembering"}
  <2>1. d = c
    BY <1>2
  <2>2. Marked(c, v + 1) /\ Stamped(c, k1, di1, v + 1, ru, mt)
    BY <1>2 DEF Sees, Marked, Stamped
  <2>3. SightingsCounted(c, k1, di1) /\ FirstOfAll(c, l1)
    BY <1>2 DEF SightingsCounted, FirstOfAll
  <2> QED BY <2>1, <2>2, <2>3 DEF Sees
<1> QED BY <1>1, <1>2

LEMMA EditSeen ==
  ASSUME NEW c, NEW k, NEW di, NEW l, NEW v, NEW ru, NEW mt \in Nat,
         Sees(c, k, di, l, v, ru, mt), NEW ru1
  PROVE  Sees(c, k, di, l, v, ru1, mt + 1)
<1>1. Timely(c, mt + 1) /\ RulesHeld(c, ru1, mt + 1)
  BY DEF Sees, Timely, RulesHeld
<1>2. Stamped(c, k, di, v, ru1, mt + 1)
  BY DEF Sees, Timely, Stamped
<1> QED BY <1>1, <1>2 DEF Sees

LEMMA MemoStands ==
  ASSUME NEW m, NEW k, NEW di, NEW v \in Nat, NEW ru, NEW mt \in Nat,
         Remembers(m, k, di, v, ru, mt), NEW k1, NEW di1, NEW ru1
  PROVE  /\ Remembers(m, k1, di1, v + 1, ru, mt)
         /\ Remembers(m, k, di, v, ru1, mt + 1)
BY DEF Remembers

\* Others commit, or one command does: the rest is overtaken.
LEMMA OvertakenSee ==
  ASSUME Ledgered, Reviewed, NEW by, NEW k1, NEW di1, NEW l1
  PROVE  \A u \in Thread : u # by =>
           Sees(OvertakenBy(by, cmd)[u], k1, di1, l1, version + 1, rules, mtime)
<1>1. ASSUME NEW u \in Thread, u # by
      PROVE  Sees(OvertakenBy(by, cmd)[u], k1, di1, l1, version + 1, rules, mtime)
  <2> DEFINE c == cmd[u]
             d == OvertakenBy(by, cmd)[u]
  <2>1. d = IF c.step \notin {"idle", "judging", "noting", "looking", "loading", "remembering"}
            THEN [c EXCEPT !.raced = TRUE] ELSE c
    BY <1>1 DEF OvertakenBy
  <2>2. Knows(c) /\ Sees(c, caught, dismissed, ledger, version, rules, mtime) /\ version \in Nat
    BY TypeParts DEF Ledgered, Commanded, Reviewed, TypeFromParts, StoreType
  <2> HIDE DEF c, d
  <2>3. Sees(d, k1, di1, l1, version + 1, rules, mtime)
    BY <2>1, <2>2, CommitSeen
  <2> QED BY <2>3 DEF d
<1> QED BY <1>1

-----------------------------------------------------------------------------
(* One command's steps that leave the store to others.                        *)

\* World after a step of t that leaves d, when all else stands.
LEMMA OneSees ==
  ASSUME Ledgered, Reviewed, NEW t \in Thread, NEW d, cmd' = [cmd EXCEPT ![t] = d],
         UNCHANGED <<tables, rulesfile>>,
         Sees(d, caught, dismissed, ledger, version, rules, mtime),
         Remembers(memo', caught, dismissed, version, rules, mtime)
  PROVE  Reviewed'
<1>1. \A u \in Thread : cmd'[u] = IF u = t THEN d ELSE cmd[u]
  BY DEF Ledgered, Commanded
<1>2. \A u \in Thread : Sees(cmd'[u], caught, dismissed, ledger, version, rules, mtime)
  BY <1>1 DEF Reviewed
<1>3. UNCHANGED <<caught, dismissed, ledger, version, rules, mtime>>
  BY DEF tables, rulesfile
<1> QED BY <1>2, <1>3 DEF Reviewed

\* The beginning of a review, and of a judgement.
LEMMA BeginningSeen ==
  ASSUME Ledgered, Reviewed, NEW t \in Thread,
         Ask(t) \/ Note(t) \/ Look(t) \/ LoadRules(t) \/ Evaluate(t)
  PROVE  Reviewed'
<1> DEFINE c == cmd[t]
<1>0. /\ Knows(c) /\ Sees(c, caught, dismissed, ledger, version, rules, mtime)
      /\ Remembers(memo, caught, dismissed, version, rules, mtime)
      /\ version \in Nat /\ mtime \in Nat
  BY TypeParts DEF Ledgered, Commanded, Reviewed, TypeFromParts, StoreType
<1>a. ASSUME NEW d, cmd' = [cmd EXCEPT ![t] = d], UNCHANGED <<tables, rulesfile, memo>>,
             Sees(d, caught, dismissed, ledger, version, rules, mtime)
      PROVE  Reviewed'
  BY <1>0, <1>a, OneSees
<1>1. CASE Ask(t) \/ Note(t)
  <2>0. UNCHANGED <<tables, rulesfile, memo>>
    BY <1>1 DEF Ask, Note
  <2>1. ASSUME cmd' = [cmd EXCEPT ![t].step = "looking"] PROVE Reviewed'
    <3> DEFINE d == [c EXCEPT !.step = "looking"]
    <3>1. cmd' = [cmd EXCEPT ![t] = d]
      BY <2>1
    <3>2. d.step = "looking"
      BY <1>0 DEF Knows, AtRest
    <3> HIDE DEF d, c
    <3>3. Sees(d, caught, dismissed, ledger, version, rules, mtime)
      BY <3>2, SeesNothing
    <3> QED BY <1>a, <2>0, <3>1, <3>3
  <2>2. ASSUME NEW kind, NEW r,
               cmd' = [cmd EXCEPT ![t] = [AtRest EXCEPT !.step = "judging",
                                                      !.kind = kind, !.rule = r]]
        PROVE  Reviewed'
    <3> DEFINE d == [AtRest EXCEPT !.step = "judging", !.kind = kind, !.rule = r]
    <3>0. d.step \in {"judging", "looking"}
      BY DEF AtRest
    <3>1. cmd' = [cmd EXCEPT ![t] = d]
      BY <2>2
    <3> HIDE DEF d
    <3>2. Sees(d, caught, dismissed, ledger, version, rules, mtime)
      BY <3>0, SeesNothing
    <3> QED BY <1>a, <2>0, <3>1, <3>2
  <2>3. CASE Note(t)
    <3> DEFINE d == [AtRest EXCEPT !.step = "looking"]
    <3>0. d.step \in {"judging", "looking"}
      BY DEF AtRest
    <3>1. cmd' = [cmd EXCEPT ![t] = d]
      BY <2>3 DEF Note
    <3> HIDE DEF d
    <3>2. Sees(d, caught, dismissed, ledger, version, rules, mtime)
      BY <3>0, SeesNothing
    <3> QED BY <1>a, <2>0, <3>1, <3>2
  <2> QED BY <1>1, <2>1, <2>2, <2>3 DEF Ask, Enters
<1>2. CASE Look(t)
  <2> DEFINE d == IF Servable THEN AtRest ELSE [c EXCEPT !.step = "loading", !.mtime = mtime]
  <2>1. cmd' = [cmd EXCEPT ![t] = d] /\ UNCHANGED <<tables, rulesfile, memo>>
    BY <1>2 DEF Look
  <2>2. d.step = "idle" \/ (d.step = "loading" /\ d.mtime = mtime)
    <3>1. CASE Servable
      BY <3>1 DEF AtRest
    <3>2. CASE ~ Servable
      BY <1>0, <3>2 DEF Knows, AtRest
    <3> QED BY <3>1, <3>2
  <2> HIDE DEF d, c
  <2>3. Sees(d, caught, dismissed, ledger, version, rules, mtime)
    BY <1>0, <2>2 DEF Sees, RowsShaped, Timely, RulesHeld, SightingsCounted, Marked, Stamped, FirstOfAll, Agrees
  <2> QED BY <1>a, <2>1, <2>3
<1>3. CASE LoadRules(t)
  <2> DEFINE d == [c EXCEPT !.step = "evaluating", !.rules = rules, !.first = (ledger = {}),
                            !.raced = FALSE]
  <2>1. /\ cmd' = [cmd EXCEPT ![t] = d] /\ UNCHANGED <<tables, rulesfile, memo>>
        /\ c.step = "loading"
    BY <1>3 DEF LoadRules, Ledgered, Commanded
  <2>2. /\ d.step = "evaluating" /\ d.rules = rules /\ d.first = (ledger = {})
        /\ d.mtime = c.mtime
    BY <1>0 DEF Knows, AtRest
  <2> HIDE DEF d, c
  <2>3. Sees(d, caught, dismissed, ledger, version, rules, mtime)
    BY <1>0, <2>1, <2>2
       DEF Sees, RowsShaped, Timely, RulesHeld, SightingsCounted, Marked, Stamped, FirstOfAll, Agrees
  <2> QED BY <1>a, <2>1, <2>3
<1>4. CASE Evaluate(t)
  <2> DEFINE F == [r \in Present(c.rules) |-> NoFinding(r)]
             d == [c EXCEPT !.step = "rolling", !.todo = Present(c.rules), !.findings = F,
                            !.raced = IF c.again THEN FALSE ELSE c.raced]
  <2>1. /\ cmd' = [cmd EXCEPT ![t] = d] /\ UNCHANGED <<tables, rulesfile, memo>>
        /\ c.step = "evaluating"
    BY <1>4 DEF Evaluate, Ledgered, Commanded
  <2>2. /\ DOMAIN F = Present(c.rules)
        /\ \A r \in DOMAIN F : /\ F[r].dismissed = (r \in dismissed)
                               /\ DOMAIN F[r] = {"calls", "dismissed", "seen", "new"}
    BY DEF NoFinding
  <2> HIDE DEF F
  <2>3. /\ d.step = "rolling" /\ d.todo = Present(c.rules) /\ d.findings = F
        /\ d.raced = (IF c.again THEN FALSE ELSE c.raced) /\ d.rules = c.rules
        /\ d.mtime = c.mtime /\ d.again = c.again /\ d.first = c.first
    BY <1>0 DEF Knows, AtRest
  <2> HIDE DEF d, c
  <2>4. Timely(d, mtime) /\ RulesHeld(d, rules, mtime)
    BY <1>0, <2>1, <2>3 DEF Sees, Timely, RulesHeld
  <2>5. RowsShaped(d) /\ SightingsCounted(d, caught, dismissed)
    BY <2>2, <2>3 DEF RowsShaped, SightingsCounted
  <2>6. Marked(d, version) /\ Stamped(d, caught, dismissed, version, rules, mtime) /\ Agrees(d)
    BY <2>3 DEF Marked, Stamped, Agrees
  <2>7. FirstOfAll(d, ledger)
    BY <1>0, <2>1, <2>3 DEF Sees, FirstOfAll
  <2>8. Sees(d, caught, dismissed, ledger, version, rules, mtime)
    BY <2>4, <2>5, <2>6, <2>7 DEF Sees
  <2> QED BY <1>a, <2>1, <2>8
<1> QED BY <1>1, <1>2, <1>3, <1>4

\* Counting, and the review that was refused.
LEMMA CountingSeen ==
  ASSUME Ledgered, Reviewed, NEW t \in Thread, Rollup(t) \/ Counted(t) \/ Refuse(t)
  PROVE  Reviewed'
<1> DEFINE c == cmd[t]
<1>0. /\ Knows(c) /\ Sees(c, caught, dismissed, ledger, version, rules, mtime)
      /\ Remembers(memo, caught, dismissed, version, rules, mtime)
      /\ version \in Nat /\ mtime \in Nat
  BY TypeParts DEF Ledgered, Commanded, Reviewed, TypeFromParts, StoreType
<1>a. ASSUME NEW d, cmd' = [cmd EXCEPT ![t] = d], UNCHANGED <<tables, rulesfile, memo>>,
             Sees(d, caught, dismissed, ledger, version, rules, mtime)
      PROVE  Reviewed'
  BY <1>0, <1>a, OneSees
<1>1. CASE Rollup(t)
  <2>1. PICK r \in c.todo :
          cmd' = [cmd EXCEPT ![t].findings[r].calls = caught[cmd[t].rules[r]],
                             ![t].todo = @ \ {r}]
    BY <1>1 DEF Rollup
  <2>2. c.step = "rolling" /\ UNCHANGED <<tables, rulesfile, memo>>
    BY <1>1 DEF Rollup
  <2> DEFINE F == [c.findings EXCEPT ![r].calls = caught[c.rules[r]]]
             d == [c EXCEPT !.findings = F, !.todo = @ \ {r}]
  <2>3. cmd' = [cmd EXCEPT ![t] = d]
    BY <1>0, <2>1 DEF Ledgered, Commanded, Knows, AtRest
  <2>4. \A s \in DOMAIN c.findings :
          DOMAIN c.findings[s] = {"calls", "dismissed", "seen", "new"}
    BY <1>0, <2>2 DEF Sees, RowsShaped
  <2>5. /\ DOMAIN F = DOMAIN c.findings
        /\ \A s \in DOMAIN F : /\ DOMAIN F[s] = {"calls", "dismissed", "seen", "new"}
                               /\ F[s].dismissed = c.findings[s].dismissed
                               /\ F[s].calls = IF s = r THEN caught[c.rules[s]]
                                                        ELSE c.findings[s].calls
    <3> DEFINE G == c.findings
               k == caught[c.rules[r]]
    <3>1. \A s \in DOMAIN G : DOMAIN G[s] = {"calls", "dismissed", "seen", "new"}
      BY <2>4
    <3>2. F = [G EXCEPT ![r].calls = k]
      OBVIOUS
    <3> HIDE DEF G, F, k
    <3>3. \A s \in DOMAIN G : F[s] = IF s = r THEN [G[s] EXCEPT !.calls = k] ELSE G[s]
      BY <3>2
    <3>4. /\ DOMAIN F = DOMAIN G
          /\ \A s \in DOMAIN F : /\ DOMAIN F[s] = {"calls", "dismissed", "seen", "new"}
                                 /\ F[s].dismissed = G[s].dismissed
                                 /\ F[s].calls = IF s = r THEN k ELSE G[s].calls
      BY <3>1, <3>2, <3>3
    <3> QED BY <3>4 DEF G, k
  <2> HIDE DEF F
  <2>6. /\ d.step = "rolling" /\ d.todo = c.todo \ {r} /\ d.findings = F /\ d.raced = c.raced
        /\ d.rules = c.rules /\ d.mtime = c.mtime /\ d.again = c.again /\ d.first = c.first
    BY <1>0, <2>2 DEF Knows, AtRest
  <2> HIDE DEF d, c
  <2>7. Timely(d, mtime) /\ RulesHeld(d, rules, mtime) /\ FirstOfAll(d, ledger)
    BY <1>0, <2>2, <2>6 DEF Sees, Timely, RulesHeld, FirstOfAll
  <2>8. RowsShaped(d)
    BY <2>5, <2>6 DEF RowsShaped
  <2>9. SightingsCounted(d, caught, dismissed)
    BY <1>0, <2>2, <2>5, <2>6 DEF Sees, SightingsCounted
  <2>10. Marked(d, version) /\ Stamped(d, caught, dismissed, version, rules, mtime) /\ Agrees(d)
    BY <2>6 DEF Marked, Stamped, Agrees
  <2>11. Sees(d, caught, dismissed, ledger, version, rules, mtime)
    BY <2>7, <2>8, <2>9, <2>10 DEF Sees
  <2> QED BY <1>a, <2>2, <2>3, <2>11
<1>2. CASE Counted(t)
  <2> DEFINE d == [c EXCEPT !.step = IF c.again THEN "reading" ELSE "submitting", !.now = spent]
  <2>1. /\ cmd' = [cmd EXCEPT ![t] = d] /\ c.step = "rolling" /\ c.todo = {}
        /\ UNCHANGED <<tables, rulesfile, memo>>
    BY <1>2 DEF Counted, Ledgered, Commanded
  <2>2. /\ d.step = IF c.again THEN "reading" ELSE "submitting"
        /\ d.findings = c.findings /\ d.raced = c.raced
        /\ d.rules = c.rules /\ d.mtime = c.mtime /\ d.again = c.again /\ d.first = c.first
    BY <1>0 DEF Knows, AtRest
  <2> HIDE DEF d, c
  <2>3. Timely(d, mtime) /\ RulesHeld(d, rules, mtime) /\ FirstOfAll(d, ledger) /\ RowsShaped(d)
    BY <1>0, <2>1, <2>2 DEF Sees, Timely, RulesHeld, FirstOfAll, RowsShaped
  <2>4. SightingsCounted(d, caught, dismissed)
    BY <1>0, <2>1, <2>2 DEF Sees, SightingsCounted
  <2>5. Marked(d, version) /\ Stamped(d, caught, dismissed, version, rules, mtime) /\ Agrees(d)
    BY <2>2 DEF Marked, Stamped, Agrees
  <2>6. Sees(d, caught, dismissed, ledger, version, rules, mtime)
    BY <2>3, <2>4, <2>5 DEF Sees
  <2> QED BY <1>a, <2>1, <2>6
<1>3. CASE Refuse(t)
  <2>0. UNCHANGED <<tables, rulesfile, memo>>
    BY <1>3 DEF Refuse
  <2>1. CASE c.step = "submitting" /\ cmd' = [cmd EXCEPT ![t] = Again(t)]
    <3> DEFINE d == [c EXCEPT !.step = "evaluating", !.again = TRUE]
    <3>1. cmd' = [cmd EXCEPT ![t] = d]
      BY <2>1 DEF Again
    <3>2. /\ d.step = "evaluating" /\ d.again = TRUE /\ d.rules = c.rules /\ d.mtime = c.mtime
      BY <1>0 DEF Knows, AtRest
    <3> HIDE DEF d, c
    <3>3. Sees(d, caught, dismissed, ledger, version, rules, mtime)
      BY <1>0, <2>1, <3>2
         DEF Sees, RowsShaped, Timely, RulesHeld, SightingsCounted, Marked, Stamped, FirstOfAll, Agrees
    <3> QED BY <1>a, <2>0, <3>1, <3>3
  <2>2. CASE c.step = "judging" /\ cmd' = [cmd EXCEPT ![t] = AtRest]
    <3>1. Sees(AtRest, caught, dismissed, ledger, version, rules, mtime)
      BY SeesNothing DEF AtRest
    <3> HIDE DEF c
    <3> QED BY <1>a, <2>0, <2>2, <3>1
  <2> QED BY <1>3, <2>1, <2>2 DEF Refuse
<1> QED BY <1>1, <1>2, <1>3

\* The ledger read, the stamp, and the memo.
LEMMA EndSeen ==
  ASSUME Ledgered, Reviewed, NEW t \in Thread, ReadSightings(t) \/ Stamp(t) \/ RememberReview(t)
  PROVE  Reviewed'
<1> DEFINE c == cmd[t]
<1>0. /\ Knows(c) /\ Sees(c, caught, dismissed, ledger, version, rules, mtime)
      /\ Remembers(memo, caught, dismissed, version, rules, mtime)
      /\ version \in Nat /\ mtime \in Nat
  BY TypeParts DEF Ledgered, Commanded, Reviewed, TypeFromParts, StoreType
<1>a. ASSUME NEW d, cmd' = [cmd EXCEPT ![t] = d], UNCHANGED <<tables, rulesfile, memo>>,
             Sees(d, caught, dismissed, ledger, version, rules, mtime)
      PROVE  Reviewed'
  BY <1>0, <1>a, OneSees
<1>1. CASE ReadSightings(t)
  <2> DEFINE F == [r \in DOMAIN c.findings |->
                     [c.findings[r] EXCEPT !.seen = FirstSeen(ledger, r, c.rules[r])]]
             d == [c EXCEPT !.step = "stamping", !.rules = Nil, !.now = Nil, !.findings = F]
  <2>1. /\ cmd' = [cmd EXCEPT ![t] = d] /\ c.step = "reading" /\ UNCHANGED <<tables, rulesfile, memo>>
    BY <1>0, <1>1 DEF ReadSightings, Ledgered, Commanded, Knows, AtRest
  <2>2. \A r \in DOMAIN c.findings :
          DOMAIN c.findings[r] = {"calls", "dismissed", "seen", "new"}
    BY <1>0, <2>1 DEF Sees, RowsShaped
  <2>3. /\ DOMAIN F = DOMAIN c.findings
        /\ \A r \in DOMAIN F : /\ F[r].calls = c.findings[r].calls
                               /\ F[r].dismissed = c.findings[r].dismissed
    BY <2>2
  <2> HIDE DEF F
  <2>4. /\ d.step = "stamping" /\ d.findings = F /\ d.raced = c.raced
        /\ d.mtime = c.mtime /\ d.again = c.again
    BY <1>0 DEF Knows, AtRest
  <2>5. c.again /\ DOMAIN c.findings = Present(c.rules)
    BY <1>0, <2>1 DEF Sees, RowsShaped, Knows
  <2> HIDE DEF d, c
  <2>6. Stamped(d, caught, dismissed, version, rules, mtime)
    <3> SUFFICES ASSUME ~ d.raced, d.mtime = mtime PROVE CountIs(F, caught, dismissed, rules)
      BY <2>4 DEF Stamped
    <3>1. c.rules = rules
      BY <1>0, <2>1, <2>4 DEF Sees, RulesHeld
    <3>2. \A r \in DOMAIN c.findings : /\ c.findings[r].dismissed = (r \in dismissed)
                                       /\ c.findings[r].calls = caught[c.rules[r]]
      BY <1>0, <2>1, <2>4 DEF Sees, SightingsCounted
    <3> QED BY <2>3, <2>5, <3>1, <3>2 DEF CountIs
  <2>7. RowsShaped(d) /\ Timely(d, mtime) /\ RulesHeld(d, rules, mtime) /\ FirstOfAll(d, ledger)
    BY <1>0, <2>1, <2>4 DEF Sees, RowsShaped, Timely, RulesHeld, FirstOfAll
  <2>8. SightingsCounted(d, caught, dismissed) /\ Marked(d, version) /\ Agrees(d)
    BY <2>4, <2>5 DEF SightingsCounted, Marked, Agrees
  <2>9. Sees(d, caught, dismissed, ledger, version, rules, mtime)
    BY <2>6, <2>7, <2>8 DEF Sees
  <2> QED BY <1>a, <2>1, <2>9
<1>2. CASE Stamp(t)
  <2> DEFINE m == [version |-> version, counter |-> counter]
             d == [c EXCEPT !.step = "remembering", !.mark = m]
  <2>1. cmd' = [cmd EXCEPT ![t] = d] /\ c.step = "stamping" /\ UNCHANGED <<tables, rulesfile, memo>>
    BY <1>2 DEF Stamp, Ledgered, Commanded
  <2>2. m.version = version
    OBVIOUS
  <2> HIDE DEF m
  <2>3. /\ d.step = "remembering" /\ d.mark = m /\ d.findings = c.findings /\ d.raced = c.raced
        /\ d.mtime = c.mtime /\ d.again = c.again /\ d.first = c.first
    BY <1>0 DEF Knows, AtRest
  <2> HIDE DEF d, c
  <2>4. RowsShaped(d) /\ RulesHeld(d, rules, mtime) /\ FirstOfAll(d, ledger)
        /\ SightingsCounted(d, caught, dismissed)
    BY <2>3 DEF RowsShaped, RulesHeld, FirstOfAll, SightingsCounted
  <2>5. Timely(d, mtime) /\ Agrees(d) /\ Stamped(d, caught, dismissed, version, rules, mtime)
    BY <1>0, <2>1, <2>3 DEF Sees, Timely, Agrees, Stamped
  <2>6. Marked(d, version)
    BY <1>0, <2>2, <2>3 DEF Marked
  <2>7. Sees(d, caught, dismissed, ledger, version, rules, mtime)
    BY <2>4, <2>5, <2>6 DEF Sees
  <2> QED BY <1>a, <2>1, <2>7
<1>3. CASE RememberReview(t)
  <2>1. /\ c.step = "remembering" /\ cmd' = [cmd EXCEPT ![t] = AtRest]
        /\ memo' = [version |-> c.mark.version, counter |-> c.mark.counter,
                    mtime |-> c.mtime, findings |-> c.findings, raced |-> c.raced]
        /\ UNCHANGED <<tables, rulesfile>>
    BY <1>3 DEF RememberReview
  <2> HIDE DEF c
  <2>2. /\ memo'.version = c.mark.version /\ memo'.mtime = c.mtime
        /\ memo'.findings = c.findings /\ memo'.raced = c.raced
    BY <2>1
  <2>3. Remembers(memo', caught, dismissed, version, rules, mtime)
    <3>1. /\ c.mark.version \in Nat /\ c.mark.version <= version
          /\ c.mtime \in Nat /\ c.mtime <= mtime
      BY <1>0, <2>1 DEF Sees, Marked, Timely
    <3>2. c.mark.version = version /\ c.mtime = mtime /\ ~ c.raced
            => CountIs(c.findings, caught, dismissed, rules)
      BY <1>0, <2>1 DEF Sees, Stamped
    <3> QED BY <2>2, <3>1, <3>2 DEF Remembers
  <2>4. Sees(AtRest, caught, dismissed, ledger, version, rules, mtime)
    BY SeesNothing DEF AtRest
  <2> QED BY <2>1, <2>3, <2>4, OneSees
<1> QED BY <1>1, <1>2, <1>3

-----------------------------------------------------------------------------
(* Commands that write.                                                       *)

\* The command that writes leaves d, and if it commits the others are overtaken.
LEMMA WriterSees ==
  ASSUME Ledgered, Reviewed, NEW t \in Thread, NEW d,
         \/ cmd' = [OvertakenBy(t, cmd) EXCEPT ![t] = d] /\ version' = version + 1
         \/ cmd' = [cmd EXCEPT ![t] = d] /\ UNCHANGED <<tables>>,
         UNCHANGED <<rulesfile, memo>>,
         Sees(d, caught', dismissed', ledger', version', rules, mtime)
  PROVE  Reviewed'
<1>0. /\ Remembers(memo, caught, dismissed, version, rules, mtime)
      /\ version \in Nat /\ mtime \in Nat /\ DOMAIN cmd = Thread
  BY TypeParts DEF Ledgered, Commanded, Reviewed, TypeFromParts, StoreType
<1>f. UNCHANGED <<rules, mtime>>
  BY DEF rulesfile
<1>1. CASE cmd' = [OvertakenBy(t, cmd) EXCEPT ![t] = d] /\ version' = version + 1
  <2> DEFINE over == OvertakenBy(t, cmd)
  <2>1. \A u \in Thread : u # t =>
          Sees(over[u], caught', dismissed', ledger', version', rules, mtime)
    BY <1>1, OvertakenSee
  <2>2. DOMAIN over = Thread
    BY DEF OvertakenBy
  <2>3. cmd' = [over EXCEPT ![t] = d]
    BY <1>1
  <2> HIDE DEF over
  <2>4. \A u \in Thread : cmd'[u] = IF u = t THEN d ELSE over[u]
    BY <2>2, <2>3
  <2>5. Remembers(memo, caught', dismissed', version', rules, mtime)
    BY <1>0, <1>1, MemoStands
  <2> QED BY <1>f, <2>1, <2>4, <2>5 DEF Reviewed
<1>2. CASE cmd' = [cmd EXCEPT ![t] = d] /\ UNCHANGED tables
  <2>1. UNCHANGED <<caught, dismissed, ledger, version>>
    BY <1>2 DEF tables
  <2>2. \A u \in Thread : cmd'[u] = IF u = t THEN d ELSE cmd[u]
    BY <1>0, <1>2
  <2>3. \A u \in Thread : Sees(cmd'[u], caught, dismissed, ledger, version, rules, mtime)
    BY <1>f, <2>1, <2>2 DEF Reviewed
  <2> QED BY <1>0, <1>f, <2>1, <2>3 DEF Reviewed
<1> QED BY <1>1, <1>2

LEMMA JudgeSeen ==
  ASSUME Ledgered, Reviewed, NEW t \in Thread, Judge(t)
  PROVE  Reviewed'
<1> DEFINE over == OvertakenBy(t, cmd)
           d == [over[t] EXCEPT !.step = "noting"]
<1>1. DOMAIN over = Thread /\ Knows(over[t])
  BY OvertakenKnows DEF Ledgered, Commanded
<1>2. cmd' = [over EXCEPT ![t] = d] /\ version' = version + 1 /\ UNCHANGED <<rulesfile, memo>>
  BY <1>1 DEF Judge
<1>3. d.step = "noting"
  BY <1>1 DEF Knows, AtRest
<1>4. cmd' = [OvertakenBy(t, cmd) EXCEPT ![t] = d]
  BY <1>2
<1> HIDE DEF over, d
<1>5. Sees(d, caught', dismissed', ledger', version', rules, mtime)
  BY <1>3, SeesNothing
<1> QED BY <1>2, <1>4, <1>5, WriterSees

LEMMA RecordFailsSeen ==
  ASSUME Ledgered, Reviewed, NEW t \in Thread, RecordFails(t)
  PROVE  Reviewed'
<1> DEFINE c == cmd[t]
           d == [c EXCEPT !.step = "evaluating", !.again = TRUE]
<1>0. /\ Knows(c) /\ Sees(c, caught, dismissed, ledger, version, rules, mtime)
      /\ mtime \in Nat
  BY TypeParts DEF Ledgered, Commanded, Reviewed, TypeFromParts, StoreType
<1>1. /\ c.step = "submitting" /\ UNCHANGED <<caught, dismissed, rulesfile, memo>>
      /\ \/ cmd' = [OvertakenBy(t, cmd) EXCEPT ![t] = d] /\ version' = version + 1
         \/ cmd' = [cmd EXCEPT ![t] = d] /\ UNCHANGED tables
  <2>1. CASE ledger' = ledger
    BY <2>1 DEF RecordFails, Again, tables
  <2>2. CASE ledger' # ledger
    BY <2>2 DEF RecordFails, Again
  <2> QED BY <2>1, <2>2
<1>2. /\ d.step = "evaluating" /\ d.again = TRUE /\ d.rules = c.rules /\ d.mtime = c.mtime
  BY <1>0 DEF Knows, AtRest
<1> HIDE DEF d, c
<1>3. Sees(d, caught', dismissed', ledger', version', rules, mtime)
  BY <1>0, <1>1, <1>2
     DEF Sees, RowsShaped, Timely, RulesHeld, SightingsCounted, Marked, Stamped, FirstOfAll, Agrees
<1> QED BY <1>1, <1>3, WriterSees

\* What a record makes of a rule: new is among what the rule catches by now, none
\* of it if it is set aside, all of it if the ledger was empty; and it has a date.
LEMMA RowsOfRule ==
  ASSUME NEW findings, NEW file1, NEW when, NEW r \in DOMAIN findings
  PROVE  /\ \A x \in Rows(findings, file1, when) :
              x.rule = r => Live(findings[r]) /\ x.call \in caught[file1[r]]
         /\ Live(findings[r]) => \A k \in caught[file1[r]] :
                                   Sighting(r, file1[r], k, when) \in Rows(findings, file1, when)
BY DEF Rows, Sighting

LEMMA FirstSeenIs ==
  ASSUME MaxEvents \in Nat, Nil \notin Nat, NEW entries, entries \subseteq SightingRow,
         NEW x \in entries
  PROVE  FirstSeen(entries, x.rule, x.question) # Nil
<1> DEFINE dates == {y.seen : y \in {y \in entries : y.rule = x.rule /\ y.question = x.question}}
<1>1. dates \in SUBSET (0..MaxEvents) /\ dates # {}
  BY DEF SightingRow
<1>2. FirstSeen(entries, x.rule, x.question) = CHOOSE d \in dates : \A e \in dates : d <= e
  BY <1>1 DEF FirstSeen
<1> HIDE DEF dates
<1>3. \E d \in dates : \A e \in dates : d <= e
  BY <1>1, HasLeast
<1>4. (CHOOSE d \in dates : \A e \in dates : d <= e) \in dates
  BY <1>3
<1>5. FirstSeen(entries, x.rule, x.question) \in 0..MaxEvents
  BY <1>1, <1>2, <1>4
<1> QED BY <1>5

LEMMA RecordFinds ==
  ASSUME RiskReviewAssumption, Ledgered, NEW file1 \in RuleFile, NEW when \in 0..MaxEvents,
         NEW findings, DOMAIN findings = Present(file1), NEW after, after \subseteq SightingRow,
         after = LedgerAfter(findings, file1, when), NEW r \in DOMAIN findings
  PROVE  /\ NewOf(after, Adopted(file1), r, file1[r]) \subseteq caught[file1[r]]
         /\ ~ Live(findings[r]) => NewOf(after, Adopted(file1), r, file1[r]) = {}
         /\ Live(findings[r]) /\ caught[file1[r]] # {} => FirstSeen(after, r, file1[r]) # Nil
         /\ Live(findings[r]) /\ ledger = {}
              => NewOf(after, Adopted(file1), r, file1[r]) = caught[file1[r]]
<1> DEFINE base == Adopted(file1)
           rows == Rows(findings, file1, when)
           new  == NewOf(after, base, r, file1[r])
<1>1. /\ \A x \in rows : x.rule = r => Live(findings[r]) /\ x.call \in caught[file1[r]]
      /\ Live(findings[r]) => \A k \in caught[file1[r]] : Sighting(r, file1[r], k, when) \in rows
  BY RowsOfRule
<1>2. /\ \A x \in after \ base : x \in rows
      /\ \A x \in rows : x \in after \/ \E y \in base : SameKey(x, y)
      /\ base \subseteq after
      /\ base = {} => rows \subseteq after
  BY DEF LedgerAfter, Inserted
<1>3. new = {x.call : x \in {x \in after \ base : x.rule = r /\ x.question = file1[r]}}
  BY DEF NewOf
<1>4. ledger = {} => base = {}
  BY DEF Adopted
<1>5. MaxEvents \in Nat /\ Nil \notin Nat
  BY DEF RiskReviewAssumption
<1> HIDE DEF base, rows, new
<1>6. new \subseteq caught[file1[r]]
  BY <1>1, <1>2, <1>3
<1>7. ~ Live(findings[r]) => new = {}
  BY <1>1, <1>2, <1>3
<1>8. ASSUME Live(findings[r]), NEW k \in caught[file1[r]]
      PROVE  /\ \E x \in after : x.rule = r /\ x.question = file1[r]
             /\ ledger = {} => k \in new
  <2> DEFINE s == Sighting(r, file1[r], k, when)
  <2>1. s \in rows /\ s.rule = r /\ s.question = file1[r] /\ s.call = k
    BY <1>1, <1>8 DEF Sighting
  <2> HIDE DEF s
  <2>2. \E x \in after : x.rule = r /\ x.question = file1[r]
    BY <1>2, <2>1 DEF SameKey
  <2>3. ledger = {} => k \in new
    BY <1>2, <1>3, <1>4, <2>1
  <2> QED BY <2>2, <2>3
<1>9. Live(findings[r]) /\ caught[file1[r]] # {} => FirstSeen(after, r, file1[r]) # Nil
  <2> SUFFICES ASSUME Live(findings[r]), NEW k \in caught[file1[r]]
               PROVE  FirstSeen(after, r, file1[r]) # Nil
    OBVIOUS
  <2>1. PICK x \in after : x.rule = r /\ x.question = file1[r]
    BY <1>8
  <2>2. FirstSeen(after, x.rule, x.question) # Nil
    BY <1>5, FirstSeenIs
  <2> QED BY <2>1, <2>2
<1> QED BY <1>6, <1>7, <1>8, <1>9 DEF new, base

LEMMA RecordSeen ==
  ASSUME RiskReviewAssumption, Ledgered, Reviewed, NEW t \in Thread, Record(t)
  PROVE  Reviewed'
<1> DEFINE c == cmd[t]
           found == c.findings
           file1 == c.rules
           after == LedgerAfter(found, file1, c.now)
           new == [r \in DOMAIN found |-> NewOf(after, Adopted(file1), r, file1[r])]
           F == [r \in DOMAIN found |->
                  [found[r] EXCEPT !.seen = FirstSeen(after, r, file1[r]), !.new = new[r]]]
           d == [c EXCEPT !.step = "stamping", !.rules = Nil, !.now = Nil, !.findings = F]
<1>0. /\ Knows(c) /\ Sees(c, caught, dismissed, ledger, version, rules, mtime)
      /\ mtime \in Nat /\ version \in Nat /\ DOMAIN cmd = Thread
  BY TypeParts DEF Ledgered, Commanded, Reviewed, TypeFromParts, StoreType
<1>1. /\ c.step = "submitting" /\ UNCHANGED <<caught, dismissed, rulesfile, memo>>
      /\ ledger' = after
      /\ version' = IF after = ledger THEN version ELSE version + 1
  BY DEF Record
<1>2. /\ file1 \in RuleFile /\ c.now \in 0..MaxEvents /\ DOMAIN found = Present(file1)
      /\ after \subseteq SightingRow
  BY <1>0, <1>1, WritesSound DEF Knows
<1>3. \A r \in DOMAIN found : DOMAIN found[r] = {"calls", "dismissed", "seen", "new"}
  BY <1>0, <1>1 DEF Sees, RowsShaped
<1>4. \/ cmd' = [OvertakenBy(t, cmd) EXCEPT ![t] = d] /\ version' = version + 1
      \/ cmd' = [cmd EXCEPT ![t] = d] /\ UNCHANGED tables
  <2> DEFINE over == IF after = ledger THEN cmd ELSE OvertakenBy(t, cmd)
  <2>1. cmd' = [over EXCEPT ![t].step = "stamping", ![t].rules = Nil, ![t].now = Nil,
                            ![t].findings = F]
    BY DEF Record
  <2>2. DOMAIN over = Thread /\ over[t] = c
    BY <1>0 DEF OvertakenBy
  <2> HIDE DEF over, c, found, file1, after, new, F, d
  <2>3. cmd' = [over EXCEPT ![t] = [over[t] EXCEPT !.step = "stamping", !.rules = Nil,
                                                   !.now = Nil, !.findings = F]]
    BY <2>1, <2>2, FourFields
  <2>4. cmd' = [over EXCEPT ![t] = d]
    BY <2>2, <2>3 DEF d
  <2> QED BY <1>1, <2>4 DEF over, tables
<1>5. \A r \in DOMAIN found :
        /\ NewOf(after, Adopted(file1), r, file1[r]) \subseteq caught[file1[r]]
        /\ ~ Live(found[r]) => NewOf(after, Adopted(file1), r, file1[r]) = {}
        /\ Live(found[r]) /\ caught[file1[r]] # {} => FirstSeen(after, r, file1[r]) # Nil
        /\ Live(found[r]) /\ ledger = {}
             => NewOf(after, Adopted(file1), r, file1[r]) = caught[file1[r]]
  <2> HIDE DEF c, file1
  <2> HIDE DEF found
  <2>1. after = LedgerAfter(found, file1, c.now)
    OBVIOUS
  <2> HIDE DEF after
  <2> QED BY <1>2, <2>1, RecordFinds
<1>6. \A r \in DOMAIN found : new[r] = NewOf(after, Adopted(file1), r, file1[r])
  OBVIOUS
<1> HIDE DEF new
<1>7. /\ DOMAIN F = DOMAIN found
      /\ \A r \in DOMAIN F : /\ F[r].calls = found[r].calls
                             /\ F[r].dismissed = found[r].dismissed
                             /\ F[r].seen = FirstSeen(after, r, file1[r])
                             /\ F[r].new = new[r]
  <2> HIDE DEF found, after, file1
  <2> QED BY <1>3
<1> HIDE DEF F
<1>8. /\ d.step = "stamping" /\ d.findings = F /\ d.raced = c.raced
      /\ d.mtime = c.mtime /\ d.again = c.again /\ d.first = c.first
  BY <1>0 DEF Knows, AtRest
<1> HIDE DEF d, after
<1>9. ASSUME ~ d.raced
      PROVE  \A r \in DOMAIN found : /\ found[r].dismissed = (r \in dismissed)
                                     /\ found[r].calls = caught[file1[r]]
  BY <1>0, <1>1, <1>8, <1>9 DEF Sees, SightingsCounted
<1>10. d.first /\ ~ d.raced /\ ~ d.again => ledger = {}
  BY <1>0, <1>1, <1>8 DEF Sees, FirstOfAll
<1>11. ASSUME ~ d.raced, d.mtime = mtime PROVE CountIs(F, caught, dismissed, rules)
  <2>1. file1 = rules
    BY <1>0, <1>1, <1>8, <1>11 DEF Sees, RulesHeld
  <2> HIDE DEF found, file1
  <2> QED BY <1>2, <1>7, <1>9, <1>11, <2>1 DEF CountIs
<1>12. Timely(d, mtime)
  BY <1>0, <1>1, <1>8 DEF Sees, Timely
<1> HIDE DEF c, found, file1
<1>13. Agrees(d)
  <2> SUFFICES ASSUME ~ d.raced, ~ d.again, NEW r \in DOMAIN F
               PROVE  /\ F[r].new \subseteq F[r].calls
                      /\ F[r].dismissed => F[r].new = {}
                      /\ Live(F[r]) => F[r].seen # Nil
                      /\ Live(F[r]) /\ d.first => F[r].new = F[r].calls
    BY <1>8 DEF Agrees, Agreeing
  <2>1. found[r].calls = caught[file1[r]] /\ r \in DOMAIN found
    BY <1>7, <1>9
  <2>2. Live(F[r]) <=> Live(found[r])
    BY <1>7 DEF Live
  <2>3. F[r].dismissed => ~ Live(found[r])
    BY <1>7 DEF Live
  <2>4. Live(found[r]) => caught[file1[r]] # {}
    BY <2>1 DEF Live
  <2> QED BY <1>5, <1>6, <1>7, <1>10, <2>1, <2>2, <2>3, <2>4
<1>14. Sees(d, caught, dismissed, ledger', version', rules, mtime)
  <2>1. RowsShaped(d) /\ RulesHeld(d, rules, mtime) /\ SightingsCounted(d, caught, dismissed)
        /\ Marked(d, version') /\ FirstOfAll(d, ledger')
    BY <1>8 DEF RowsShaped, RulesHeld, SightingsCounted, Marked, FirstOfAll
  <2>2. Stamped(d, caught, dismissed, version', rules, mtime)
    BY <1>8, <1>11 DEF Stamped
  <2> QED BY <1>12, <1>13, <2>1, <2>2 DEF Sees
<1>15. Sees(d, caught', dismissed', ledger', version', rules, mtime)
  BY <1>1, <1>14
<1> QED BY <1>1, <1>4, <1>15, WriterSees

-----------------------------------------------------------------------------
(* Whatever is done.                                                          *)

LEMMA OthersSeen ==
  ASSUME Ledgered, Reviewed, Nil \notin Thread, Capture \/ PurgeCalls \/ EditRules \/ Quit
  PROVE  Reviewed'
<1>0. /\ Remembers(memo, caught, dismissed, version, rules, mtime)
      /\ \A u \in Thread : Sees(cmd[u], caught, dismissed, ledger, version, rules, mtime)
      /\ version \in Nat /\ mtime \in Nat
  BY TypeParts DEF Ledgered, Reviewed, TypeFromParts, StoreType
<1>1. CASE Capture \/ PurgeCalls
  <2>1. /\ cmd' = OvertakenBy(Nil, cmd) /\ version' = version + 1
        /\ UNCHANGED <<rules, mtime, memo>>
    BY <1>1 DEF Capture, PurgeCalls, Commits, rulesfile
  <2>2. \A u \in Thread : Sees(cmd'[u], caught', dismissed', ledger', version', rules, mtime)
    BY <2>1, OvertakenSee
  <2>3. Remembers(memo, caught', dismissed', version', rules, mtime)
    BY <1>0, <2>1, MemoStands
  <2> QED BY <2>1, <2>2, <2>3 DEF Reviewed
<1>2. CASE EditRules
  <2>1. UNCHANGED <<caught, dismissed, ledger, version, memo, cmd>> /\ mtime' = mtime + 1
    BY <1>2 DEF EditRules, tables
  <2>2. \A u \in Thread : Sees(cmd[u], caught, dismissed, ledger, version, rules', mtime')
    BY <1>0, <2>1, EditSeen
  <2>3. Remembers(memo, caught, dismissed, version, rules', mtime')
    BY <1>0, <2>1, MemoStands
  <2> QED BY <2>1, <2>2, <2>3 DEF Reviewed
<1>3. CASE Quit
  <2>1. memo' = Nil /\ cmd' = [t \in Thread |-> AtRest]
    BY <1>3 DEF Quit
  <2>2. AtRest.step = "idle"
    BY DEF AtRest
  <2>3. \A u \in Thread : Sees(cmd'[u], caught', dismissed', ledger', version', rules', mtime')
    BY <2>1, <2>2, SeesNothing
  <2> QED BY <2>1, <2>3 DEF Reviewed, Remembers
<1> QED BY <1>1, <1>2, <1>3

LEMMA InitReviewed == ReviewInit => Reviewed
<1> SUFFICES ASSUME ReviewInit PROVE Reviewed
  OBVIOUS
<1>1. memo = Nil /\ cmd = [t \in Thread |-> AtRest]
  BY DEF ReviewInit
<1>2. AtRest.step = "idle"
  BY DEF AtRest
<1>3. \A u \in Thread : Sees(cmd[u], caught, dismissed, ledger, version, rules, mtime)
  BY <1>1, <1>2, SeesNothing
<1> QED BY <1>1, <1>3 DEF Reviewed, Remembers

LEMMA StepKeepsReviewed ==
  RiskReviewAssumption /\ Ledgered /\ Reviewed /\ [ReviewNext]_reviewvars => Reviewed'
<1> SUFFICES ASSUME RiskReviewAssumption, Ledgered, Reviewed, [ReviewNext]_reviewvars
             PROVE  Reviewed'
  OBVIOUS
<1>0. Nil \notin Thread
  BY DEF RiskReviewAssumption
<1>1. CASE Capture \/ PurgeCalls \/ EditRules \/ Quit
  BY <1>0, <1>1, OthersSeen
<1>2. ASSUME NEW t \in Thread, Ask(t) \/ Note(t) \/ Look(t) \/ LoadRules(t) \/ Evaluate(t)
      PROVE  Reviewed'
  BY <1>2, BeginningSeen
<1>3. ASSUME NEW t \in Thread, Rollup(t) \/ Counted(t) \/ Refuse(t) PROVE Reviewed'
  BY <1>3, CountingSeen
<1>4. ASSUME NEW t \in Thread, ReadSightings(t) \/ Stamp(t) \/ RememberReview(t) PROVE Reviewed'
  BY <1>4, EndSeen
<1>5. ASSUME NEW t \in Thread, Judge(t) PROVE Reviewed'
  BY <1>5, JudgeSeen
<1>6. ASSUME NEW t \in Thread, Record(t) PROVE Reviewed'
  BY <1>6, RecordSeen
<1>7. ASSUME NEW t \in Thread, RecordFails(t) PROVE Reviewed'
  BY <1>7, RecordFailsSeen
<1>8. CASE UNCHANGED reviewvars
  BY <1>8 DEF reviewvars, tables, rulesfile, Reviewed
<1> QED BY <1>1, <1>2, <1>3, <1>4, <1>5, <1>6, <1>7, <1>8 DEF ReviewNext

\* A review that is served from memory counts what the rules find now and knows
\* every judgement, unless the store changed while it was computed: a commit, an
\* edit of the rules and a judgement each make the memo expire (state.rs
\* cached_risk, remember_risk; commands.rs risk_review).
THEOREM ServedFromMemory ==
  ASSUME RiskReviewAssumption
  PROVE  ReviewSpec => []ServedUnlessRaced
<1>1. ReviewInit => Ledgered /\ Reviewed
  BY InitLedgered, InitReviewed
<1>2. Ledgered /\ Reviewed /\ [ReviewNext]_reviewvars => Ledgered' /\ Reviewed'
  BY StepKeepsLedgered, StepKeepsReviewed
<1>3. Reviewed => ServedUnlessRaced
  BY DEF Reviewed, Remembers, Servable, ServedUnlessRaced, Current, CountIs
<1> QED BY <1>1, <1>2, <1>3, PTL DEF ReviewSpec

\* A review that nothing overtook agrees with itself: what it announces as new is
\* among what it counts, all of it in a first review, none of it for a rule set
\* aside, and what caught something has a date (rules.rs record_sightings,
\* read_sightings).
THEOREM ReviewsAgree ==
  ASSUME RiskReviewAssumption
  PROVE  ReviewSpec => []ReviewAgrees
<1>1. ReviewInit => Ledgered /\ Reviewed
  BY InitLedgered, InitReviewed
<1>2. Ledgered /\ Reviewed /\ [ReviewNext]_reviewvars => Ledgered' /\ Reviewed'
  BY StepKeepsLedgered, StepKeepsReviewed
<1>3. Reviewed => ReviewAgrees
  BY DEF Reviewed, Sees, Agrees, Agreeing, ReviewAgrees
<1> QED BY <1>1, <1>2, <1>3, PTL DEF ReviewSpec

\* The three of them: what the ledger holds, what is announced and what is answered,
\* however reviews, judgements, captures, purges and edits follow one another.
THEOREM ReviewsHonest ==
  ASSUME RiskReviewAssumption
  PROVE  ReviewSpec => []LedgerHonest
BY LedgerSound, NewOnce, ReviewsAgree, PTL DEF LedgerHonest
=============================================================================
