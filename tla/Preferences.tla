------------------------------ MODULE Preferences ------------------------------
(* prefs.json and whoever acts on it: toolog-cli prefs.rs and cli.rs run_model, *)
(* toolog-app state.rs, commands.rs and llm.rs, and the switches of the Status  *)
(* view (ui setup.ts).                                                          *)
(*                                                                              *)
(* The preferences are one record. Every writer writes all of it: the window    *)
(* from a copy its switch was given when it was drawn, the application's other   *)
(* commands from the record in memory, the command line from the file. The      *)
(* application's commands run on threads beside each other, and the file is     *)
(* replaced by a plain write, which a crash or a full disk leaves unreadable.   *)
EXTENDS Integers, FiniteSets

CONSTANTS
  Path,        \* model files
  Content,     \* what may be at one of them: a model, or "gone"
  AtFirst,     \* Path -> Content: what is there to begin with
  Slot,        \* threads of the application's commands: 1, 2, ...
  Outings      \* what may happen: bounds [clicks, models, pauses, restarts,
               \* failures, swaps, cli, imports]

PreferencesAssumption ==
  /\ AtFirst \in [Path -> Content]
  /\ \A o \in Outings : o \in [{"clicks", "models", "pauses", "restarts", "failures", "swaps",
                                "cli", "imports"} -> Nat]

VARIABLES
  disk,        \* [whole, prefs]: prefs.json, and whether it can be read
  memory,      \* the application's copy
  applied,     \* the redaction of the evidence in force in the application
  running,     \* the application: "up" or "down"
  command,     \* Slot -> the command it runs
  boxes,       \* Switch -> its box: [live, copy, checked]
  drawings,    \* renderings of the view that are due
  cli,         \* a command of the command line: [at, prefs]
  content,     \* Path -> what is there
  loaders,     \* model files being loaded: [at, path, key, swapped]
  held,        \* the model held: [path, key, weights, swapped]
  remains,     \* of the bounds
  raced,       \* observation only: writers overlapped, or a write failed
  rawWhileOn   \* observation only: who stored an unredacted record while the
               \* file said otherwise

pvars == <<disk, memory, applied, running, command, boxes, drawings, cli, content, loaders,
           held, remains, raced, rawWhileOn>>

NoModel == "none"
Switch == {"notify_refusals", "redact_evidence"}
Default == [notify_refusals |-> FALSE, redact_evidence |-> FALSE, model_path |-> NoModel,
            analysis_paused |-> FALSE]
Prefs == [notify_refusals : BOOLEAN, redact_evidence : BOOLEAN,
          model_path : Path \cup {NoModel}, analysis_paused : BOOLEAN]

NoCommand == [what |-> "none", at |-> "idle", next |-> Default, switch |-> "none",
         path |-> NoModel, paused |-> FALSE]
Undrawn == [live |-> FALSE, copy |-> Default, checked |-> FALSE]
NoOne == [path |-> NoModel, key |-> "none", weights |-> "none", swapped |-> FALSE]

Uses(k) == remains[k] > 0 /\ remains' = [remains EXCEPT ![k] = @ - 1]

\* load: what cannot be read is the defaults.
Load == IF disk.whole THEN disk.prefs ELSE Default

-----------------------------------------------------------------------------
(* The Status view. *)

Busy == \E s \in Slot : command[s].at # "idle"
\* Threads are alike: the first that is free takes a command.
FreeSlot(s) == /\ running = "up" /\ command[s].at = "idle"
               /\ \A t \in Slot : t < s => command[t].at # "idle"

\* A box is clicked: the record it was drawn with, but for its own field.
Toggle(s, sw) ==
  /\ FreeSlot(s) /\ boxes[sw].live /\ Uses("clicks")
  /\ boxes' = [boxes EXCEPT ![sw].checked = ~@]
  /\ command' = [command EXCEPT ![s] =
       [NoCommand EXCEPT !.what = "switch", !.at = "saving", !.switch = sw,
                    !.next = [boxes[sw].copy EXCEPT ![sw] = ~boxes[sw].checked]]]
  /\ raced' = (raced \/ Busy \/ drawings > 0)
  /\ UNCHANGED <<disk, memory, applied, running, drawings, cli, content, loaders, held,
                 rawWhileOn>>

\* A model is picked or forgotten, or the examination paused or resumed.
Command(s, cmd) ==
  /\ FreeSlot(s)
  /\ command' = [command EXCEPT ![s] = cmd]
  /\ raced' = (raced \/ Busy)
  /\ UNCHANGED <<disk, memory, applied, running, boxes, drawings, cli, content, loaders, held,
                 rawWhileOn>>

PickModel(s, p) ==
  /\ Uses("models")
  /\ Command(s, [NoCommand EXCEPT !.what = "pick", !.at = "adopting", !.path = p])
ForgetModel(s) ==
  /\ Uses("models")
  /\ Command(s, [NoCommand EXCEPT !.what = "forget", !.at = "reading"])
PauseAnalysis(s) ==
  /\ held # NoOne /\ Uses("pauses")
  /\ Command(s, [NoCommand EXCEPT !.what = "pause", !.at = "reading",
                             !.paused = ~memory.analysis_paused])

\* render: the cards are built anew, and their boxes wait for a copy each.
Draw ==
  /\ running = "up" /\ drawings > 0
  /\ drawings' = drawings - 1
  /\ boxes' = [sw \in Switch |-> Undrawn]
  /\ UNCHANGED <<disk, memory, applied, running, command, cli, content, loaders, held, remains,
                 raced, rawWhileOn>>

FillBox(sw) ==
  /\ running = "up" /\ ~boxes[sw].live
  /\ boxes' = [boxes EXCEPT ![sw] = [live |-> TRUE, copy |-> memory, checked |-> memory[sw]]]
  /\ UNCHANGED <<disk, memory, applied, running, command, drawings, cli, content, loaders,
                 held, remains, raced, rawWhileOn>>

-----------------------------------------------------------------------------
(* The application's commands. *)

Steps(s, at) == command[s].at = at
Reaches(s, at) == command' = [command EXCEPT ![s].at = at]
Ends(s) == command' = [command EXCEPT ![s] = NoCommand]

\* adopt: a file that is no model is refused before anything is stored.
Adopt(s) ==
  /\ Steps(s, "adopting")
  /\ IF content[command[s].path] = "gone" THEN Ends(s) ELSE Reaches(s, "reading")
  /\ UNCHANGED <<disk, memory, applied, running, boxes, drawings, cli, content, loaders, held,
                 remains, raced, rawWhileOn>>

\* The record in memory, but for what the command is about.
EditedPrefs(c) ==
  CASE c.what = "pick"   -> [memory EXCEPT !.model_path = c.path]
    [] c.what = "forget" -> [memory EXCEPT !.model_path = NoModel]
    [] c.what = "pause"  -> [memory EXCEPT !.analysis_paused = c.paused]

ReadMemory(s) ==
  /\ Steps(s, "reading")
  /\ command' = [command EXCEPT ![s].at = "saving", ![s].next = EditedPrefs(command[s])]
  /\ UNCHANGED <<disk, memory, applied, running, boxes, drawings, cli, content, loaders, held,
                 remains, raced, rawWhileOn>>

\* set_prefs: the file, the redaction in force, and the copy in memory.
Save(s) ==
  /\ Steps(s, "saving")
  /\ disk' = [whole |-> TRUE, prefs |-> command[s].next]
  /\ Reaches(s, "saved")
  /\ UNCHANGED <<memory, applied, running, boxes, drawings, cli, content, loaders, held,
                 remains, raced, rawWhileOn>>

\* A write that fails has emptied the file, and the box goes back.
SaveFails(s) ==
  /\ Steps(s, "saving") /\ Uses("failures")
  /\ disk' = [disk EXCEPT !.whole = FALSE]
  /\ boxes' = IF command[s].what = "switch" /\ boxes[command[s].switch].live
              THEN [boxes EXCEPT ![command[s].switch].checked =
                      boxes[command[s].switch].copy[command[s].switch]]
              ELSE boxes
  /\ Ends(s)
  /\ raced' = TRUE
  /\ UNCHANGED <<memory, applied, running, drawings, cli, content, loaders, held, rawWhileOn>>

Apply(s) ==
  /\ Steps(s, "saved")
  /\ applied' = command[s].next.redact_evidence
  /\ Reaches(s, "applied")
  /\ UNCHANGED <<disk, memory, running, boxes, drawings, cli, content, loaders, held, remains,
                 raced, rawWhileOn>>

Remember(s) ==
  /\ Steps(s, "applied")
  /\ memory' = command[s].next
  /\ Reaches(s, "done")
  /\ UNCHANGED <<disk, applied, running, boxes, drawings, cli, content, loaders, held, remains,
                 raced, rawWhileOn>>

\* The answer to a switch: its box shows what was saved, and the notifications'
\* copy is now that, the privacy card's the one it was drawn with.
Answered(c) ==
  LET box == boxes[c.switch]
  IN IF ~box.live THEN boxes
     ELSE [boxes EXCEPT ![c.switch] =
             [live |-> TRUE, checked |-> c.next[c.switch],
              copy |-> IF c.switch = "redact_evidence" THEN box.copy ELSE c.next]]

\* Llm::stop and start: what is held is put down, and a loader begins.
ApplyModel(p) ==
  /\ held' = NoOne
  /\ loaders' = IF p = NoModel THEN loaders
                ELSE loaders \cup {[at |-> "hashing", path |-> p, key |-> "none",
                                    swapped |-> FALSE]}

\* Every command but a switch draws the view anew.
DrawsOnlyModels(c) == c.what \in {"pick", "forget"}   \* mutant: not after a pause
DrawsAnew(c) == c.what # "switch"

Finish(s) ==
  /\ Steps(s, "done")
  /\ IF command[s].what \in {"pick", "forget"} THEN ApplyModel(command[s].next.model_path)
     ELSE UNCHANGED <<held, loaders>>
  /\ boxes' = IF command[s].what = "switch" THEN Answered(command[s]) ELSE boxes
  /\ drawings' = IF DrawsAnew(command[s]) THEN drawings + 1 ELSE drawings
  /\ Ends(s)
  /\ UNCHANGED <<disk, memory, applied, running, cli, content, remains, raced, rawWhileOn>>

-----------------------------------------------------------------------------
(* The model's file. *)

\* sha256_file, and then load_from_file: two readings of one path.
Hashes(l) ==
  /\ l.at = "hashing"
  /\ loaders' = (loaders \ {l}) \cup
       (IF content[l.path] = "gone" THEN {}
        ELSE {[l EXCEPT !.at = "loading", !.key = content[l.path]]})
  /\ UNCHANGED <<disk, memory, applied, running, command, boxes, drawings, cli, content, held,
                 remains, raced, rawWhileOn>>

LoadedFromPrefs(l) == IF memory.model_path = NoModel THEN l.path ELSE memory.model_path
                                          \* mutant: the path is read again
LoadedFrom(l) == l.path

Loads(l) ==
  /\ l.at = "loading"
  /\ loaders' = loaders \ {l}
  /\ held' = IF content[LoadedFrom(l)] = "gone" THEN held
             ELSE [path |-> l.path, key |-> l.key, weights |-> content[LoadedFrom(l)],
                   swapped |-> l.swapped]
  /\ UNCHANGED <<disk, memory, applied, running, command, boxes, drawings, cli, content,
                 remains, raced, rawWhileOn>>

\* Somebody puts another file in its place, or takes it away.
SwapFile(p, c) ==
  /\ content[p] # c /\ Uses("swaps")
  /\ content' = [content EXCEPT ![p] = c]
  /\ loaders' = {IF l.path = p THEN [l EXCEPT !.swapped = (l.at = "loading")] ELSE l :
                 l \in loaders}
  /\ UNCHANGED <<disk, memory, applied, running, command, boxes, drawings, cli, held, raced,
                 rawWhileOn>>

-----------------------------------------------------------------------------
(* The application starts and dies; the command line beside it. *)

AppliedNever(p) == applied                \* mutant: what is loaded is not applied
AppliedAtStart(p) == p.redact_evidence

Start ==
  /\ running = "down" /\ Uses("restarts")
  /\ running' = "up" /\ memory' = Load /\ applied' = AppliedAtStart(Load)
  /\ boxes' = [sw \in Switch |-> Undrawn] /\ drawings' = 1
  /\ ApplyModel(Load.model_path)
  /\ raced' = (~disk.whole \/ cli.at # "idle")
  /\ UNCHANGED <<disk, command, cli, content, rawWhileOn>>

\* A save that is cut leaves the file unreadable.
Die ==
  /\ running = "up"
  /\ running' = "down" /\ applied' = FALSE /\ held' = NoOne /\ loaders' = {} /\ drawings' = 0
  /\ disk' \in {disk} \cup
       (IF \E s \in Slot : Steps(s, "saving") THEN {[disk EXCEPT !.whole = FALSE]} ELSE {})
  /\ command' = [s \in Slot |-> NoCommand]
  /\ boxes' = [sw \in Switch |-> Undrawn]
  /\ UNCHANGED <<memory, cli, content, remains, raced, rawWhileOn>>

\* toolog model set and clear: the file is read, the model adopted, the file
\* written. The application is not told.
CliReads ==
  /\ cli.at = "idle" /\ Uses("cli")
  /\ cli' = [at |-> "read", prefs |-> Load]
  /\ raced' = (raced \/ Busy)
  /\ UNCHANGED <<disk, memory, applied, running, command, boxes, drawings, content, loaders,
                 held, rawWhileOn>>

CliWrites(p) ==
  /\ cli.at = "read"
  /\ p # NoModel => content[p] # "gone"
  /\ disk' = [whole |-> TRUE, prefs |-> [cli.prefs EXCEPT !.model_path = p]]
  /\ cli' = [cli EXCEPT !.at = "idle", !.prefs = Default]
  /\ raced' = (raced \/ running = "up")
  /\ UNCHANGED <<memory, applied, running, command, boxes, drawings, content, loaders, held,
                 remains, rawWhileOn>>

\* A record is stored by the application, or by a backfill of the command line,
\* in whose process nobody applied any preference.
InForce(who) == IF who = "app" THEN applied ELSE FALSE
StoreRecord(who) ==
  /\ who = "app" => running = "up"
  /\ Uses("imports")
  /\ rawWhileOn' = IF disk.whole /\ disk.prefs.redact_evidence /\ ~InForce(who)
                   THEN rawWhileOn \cup {who} ELSE rawWhileOn
  /\ UNCHANGED <<disk, memory, applied, running, command, boxes, drawings, cli, content,
                 loaders, held, raced>>

-----------------------------------------------------------------------------

PreferencesInit ==
  /\ disk = [whole |-> TRUE, prefs |-> Default] /\ memory = Default
  /\ applied = FALSE /\ running = "down"
  /\ command = [s \in Slot |-> NoCommand]
  /\ boxes = [sw \in Switch |-> Undrawn] /\ drawings = 0
  /\ cli = [at |-> "idle", prefs |-> Default]
  /\ content = AtFirst
  /\ loaders = {} /\ held = NoOne
  /\ remains \in Outings
  /\ raced = FALSE /\ rawWhileOn = {}

PreferencesNext ==
  \/ \E s \in Slot, sw \in Switch : Toggle(s, sw)
  \/ \E s \in Slot, p \in Path : PickModel(s, p)
  \/ \E s \in Slot : ForgetModel(s) \/ PauseAnalysis(s)
  \/ \E s \in Slot : Adopt(s) \/ ReadMemory(s) \/ Save(s) \/ SaveFails(s)
  \/ \E s \in Slot : Apply(s) \/ Remember(s) \/ Finish(s)
  \/ Draw \/ \E sw \in Switch : FillBox(sw)
  \/ \E l \in loaders : Hashes(l) \/ Loads(l)
  \/ \E p \in Path, c \in Content : SwapFile(p, c)
  \/ Start \/ Die \/ CliReads \/ \E p \in Path \cup {NoModel} : CliWrites(p)
  \/ \E who \in {"app", "cli"} : StoreRecord(who)

PreferencesSpec == PreferencesInit /\ [][PreferencesNext]_pvars

-----------------------------------------------------------------------------
(* The properties. *)

Quiet == running = "up" /\ ~Busy /\ drawings = 0 /\ ~raced

\* When nothing is being written, and no two writers overlapped and no write was
\* cut since the application started, the file, its copy in memory and the
\* redaction in force say the same (state.rs, "so the two cannot disagree about
\* what the user asked for").
PrefsAgree ==
  /\ memory \in Prefs /\ disk.prefs \in Prefs
  /\ Quiet => /\ disk.whole /\ disk.prefs = memory
              /\ applied = memory.redact_evidence

\* A switch changes switches and never the model that was picked nor the pause,
\* whatever it was drawn with: after every command that changes those the view
\* is drawn anew (setup.ts toggle, privacy, model and render).
SwitchLeavesTheModel ==
  \A s \in Slot :
    command[s].what = "switch" /\ Steps(s, "applied") /\ command'[s].at = "done" /\ ~raced
    => /\ memory'.model_path = memory.model_path
       /\ memory'.analysis_paused = memory.analysis_paused

\* The key verdicts are stored under is that of the weights that give them, however
\* often the file is replaced and the model changed, unless the file was replaced
\* between its hashing and its loading (llm.rs start, engine.rs worker).
KeyNamesWeights == held.key = held.weights \/ held.swapped

\* Without a race the file, its copy in memory and the redaction in force agree,
\* and verdicts are stored under the key of the weights that gave them (state.rs
\* set_prefs, llm.rs start).
PrefsHold == PrefsAgree /\ KeyNamesWeights

\* A switch changes no model and no pause (setup.ts toggle).
SwitchesLeaveTheModel == [][SwitchLeavesTheModel]_pvars

\* "on stops storing them at all" (prefs.rs): while the preferences say to redact
\* the evidence nothing is stored that was not.
RedactionHolds == rawWhileOn = {}
=============================================================================
