------------------------------ MODULE Settings ------------------------------
(***************************************************************************)
(* ~/.claude/settings.json, the one file toolog writes that is not its     *)
(* own: crates/toolog-cli/src/{settings,uninstall,doctor,launchagent}.rs,  *)
(* the port the receiver binds (toolog-otlp/src/{port,health}.rs) and who  *)
(* makes the two agree (toolog-app/src/{app,commands,tray}.rs).            *)
(*                                                                         *)
(* A write of ours is several steps: read the files in force, decide, copy *)
(* the file beside itself, replace it.  The replacement is a rename, so it *)
(* is one step; what others write between those steps is not looked for.   *)
(* The application and the command line run them beside each other and     *)
(* beside whoever else edits the file.                                     *)
(***************************************************************************)
EXTENDS Integers, Sequences, FiniteSets

CONSTANTS
  Ports,        \* Seq: the loopback ports tried, the preferred one first
  Machines,     \* [file, above, may]: a user's settings file, the env a file
                \* above it holds for the command line's directory, and the
                \* bounds on what happens: how many edits by others, starts
                \* of the application, fixes, uninstalls, turns of the port's
                \* owner and changes of the login agent
  MaxTime       \* bound on the clock, in seconds: what a backup's name tells

Runner == {"app", "cli"}
Preferred == Ports[1]
Port == {Ports[i] : i \in DOMAIN Ports}
Bounded == {"edits", "starts", "fixes", "undos", "seizes", "agents"}

VARIABLES
  file,         \* the user's settings file
  backups,      \* its copies, by the second they were taken in
  higher,       \* what each runner finds in the files above the user's
  job,          \* what each runner is doing to the file
  app,          \* the port the application listens on, or "down"
  busy,         \* the ports other programs hold
  agent,        \* the login agent: [plist, loaded]
  now,          \* the clock
  left,         \* what the bounds leave of edits, starts, fixes and undos
  since         \* observation only: see Since

settingsvars == <<file, backups, higher, job, app, busy, agent, now, left, since>>

-----------------------------------------------------------------------------
(* A settings file.  Our six variables are two: "endpoint", whose value    *)
(* tells where logs go, and "switch" for the five whose value is fixed.    *)
(* "global" is OTEL_EXPORTER_OTLP_ENDPOINT and "theirs" any other          *)
(* variable; rest is everything outside env, and form who laid the bytes   *)
(* out: their owner or our serializer.                                     *)

OurKeys == {"switch", "endpoint"}
NoEnv == [n \in {} |-> ""]
AFile(block, env, rest) ==
  [kind |-> "object", block |-> block, env |-> env, rest |-> rest, form |-> "own"]
NoFile == [AFile("none", NoEnv, 0) EXCEPT !.kind = "absent"]
Unparseable == [NoFile EXCEPT !.kind = "broken"]
AList == [NoFile EXCEPT !.kind = "list"]

Variable == OurKeys \cup {"global", "theirs"}
Value == Port \cup {"4318", "away", "on", "1"}
EnvBlock == UNION {[names -> Value] : names \in SUBSET Variable}
File == [kind : {"absent", "broken", "list", "object"}, block : {"none", "object", "other"},
         env : EnvBlock, rest : Nat, form : {"own", "ours"}]
\* Only an object has anything in it, and only an env that is one has variables.
FileShape(f) ==
  \/ f = NoFile
  \/ /\ f \in File /\ f.kind # "absent"
     /\ f.kind # "object" => f.block = "none" /\ f.rest = 0
     /\ f.block # "object" => f.env = NoEnv

ASSUME SettingsAssumption ==
  /\ Ports \in Seq(STRING) /\ Ports # <<>> /\ "down" \notin Port
  /\ MaxTime \in Nat
  /\ \A m \in Machines :
       FileShape(m.file) /\ m.above \in EnvBlock /\ m.may \in [Bounded -> Nat]

\* SettingsFile::env: the value, when there is one.
Env(f, key) == IF key \in DOMAIN f.env THEN {f.env[key]} ELSE {}

IsLoopback(value) == value \in Port \cup {"4318"}

\* The files in force for a runner, highest precedence first.
Stack(r, f) == <<[f EXCEPT !.env = higher[r]], f>>
AllSettingsOf(stack, key) == UNION {Env(stack[i], key) : i \in DOMAIN stack}
Effective(stack, key) ==
  IF Env(stack[1], key) # {} THEN Env(stack[1], key) ELSE Env(stack[2], key)

DesiredEnv(addr) == [switch |-> "on", endpoint |-> addr]

Overlay(env, over) ==
  [n \in DOMAIN env \cup DOMAIN over |-> IF n \in DOMAIN over THEN over[n] ELSE env[n]]
Without(env) == [n \in DOMAIN env \ OurKeys |-> env[n]]

\* Equality of parsed files.
SameJson(f, g) == [f EXCEPT !.form = "any"] = [g EXCEPT !.form = "any"]

-----------------------------------------------------------------------------
(* Which receiver answers. *)

ProbeIsUp(addr) == app = addr
ResolveAddr(stack) ==
  IF ProbeIsUp(Preferred) THEN Preferred
  ELSE LET configured == Effective(stack, "endpoint")
       IN IF \E a \in configured \cap Port : ProbeIsUp(a)
          THEN CHOOSE a \in configured : TRUE
          ELSE Preferred

\* doctor's report: every variable in force is the one --fix would write, or
\* some that is not is set above the file it writes.
EnvOk(stack, key) == Effective(stack, key) = {DesiredEnv(ResolveAddr(stack))[key]}
Configured(stack) == \A key \in OurKeys : EnvOk(stack, key)
BeyondOurReach(stack) ==
  \E key \in OurKeys : ~EnvOk(stack, key) /\ Env(stack[1], key) # {}

-----------------------------------------------------------------------------
(* doctor --fix. *)

Foreign(stack) ==
  \E key \in {"endpoint", "global"} : \E v \in AllSettingsOf(stack, key) : ~IsLoopback(v)
Refused(stack, f, addr) == Foreign(stack) \/ f.kind = "broken"
NoopPlan(f, addr) == \A key \in OurKeys : Env(f, key) = {DesiredEnv(addr)[key]}
NotRewritable(f) == f.kind = "list" \/ f.block = "other"

MergedGently(f, addr) ==                  \* mutant: a key already there is kept
  [kind |-> "object", block |-> "object", env |-> Overlay(DesiredEnv(addr), f.env),
   rest |-> f.rest, form |-> "ours"]
Merged(f, addr) ==
  [kind |-> "object", block |-> "object", env |-> Overlay(f.env, DesiredEnv(addr)),
   rest |-> f.rest, form |-> "ours"]

(* Reverting it. *)

WithoutOurKeys(f) ==
  LET env == Without(f.env)
  IN IF f.block # "object" THEN f
     ELSE [f EXCEPT !.env = env, !.block = IF DOMAIN env = {} THEN "none" ELSE "object"]
Pretty(f) == [f EXCEPT !.form = "ours"]
Empty(f) == f.block = "none" /\ f.rest = 0

Newest(copies) ==                         \* mutant: the last copy, not the first
  copies[CHOOSE t \in DOMAIN copies : \A u \in DOMAIN copies : u <= t]
Oldest(copies) == copies[CHOOSE t \in DOMAIN copies : \A u \in DOMAIN copies : t <= u]

PlanSettingsTrusting(f, copies) ==        \* mutant: any backup is restored
  IF f.kind \in {"broken", "list"} \/ OurKeys \cap DOMAIN f.env = {} THEN "clean"
  ELSE IF DOMAIN copies = {} THEN IF Empty(WithoutOurKeys(f)) THEN "remove_file"
                                                              ELSE "remove_keys"
  ELSE "restore"
PlanSettings(f, copies) ==
  IF f.kind \in {"broken", "list"} \/ OurKeys \cap DOMAIN f.env = {} THEN "clean"
  ELSE IF DOMAIN copies = {} THEN IF Empty(WithoutOurKeys(f)) THEN "remove_file"
                                                              ELSE "remove_keys"
  ELSE IF SameJson(Oldest(copies), WithoutOurKeys(f)) THEN "restore"
  ELSE "remove_keys"

-----------------------------------------------------------------------------
(* Jobs.  seen is what was read, out what is to be written, by the same    *)
(* runner, later.  Two fields are observations: the port in service when   *)
(* out was made, and whether nobody else wrote the file since seen was     *)
(* read.                                                                   *)

NoJob == [what |-> "none", at |-> "idle", seen |-> NoFile, out |-> NoFile,
          probed |-> "down", alone |-> TRUE]
Goes(r, next) == job' = [job EXCEPT ![r] = next]

Overtaken(j) == IF j = NoJob THEN j ELSE [j EXCEPT !.alone = FALSE]
(* r replaces the file, and is done. *)
Writes(r) ==
  job' = [q \in Runner |-> IF q = r THEN NoJob ELSE Overtaken(job[q])]
Spend(what) == left[what] > 0 /\ left' = [left EXCEPT ![what] = @ - 1]

(* backup_file: a second copy within a second takes the first one's place. *)
BackedUp(copies, f) == [t \in DOMAIN copies \cup {now} |-> IF t = now THEN f ELSE copies[t]]

(* Since the first write of ours: what it replaced, whether anyone else    *)
(* has written since, whether a step of ours missed what another wrote,    *)
(* whether the last one missed the port in service, whether there were     *)
(* copies before, two of one second, and how often we wrote.               *)
NotSince == [origin |-> NoFile, writes |-> 0, edited |-> FALSE, raced |-> FALSE,
             missed |-> FALSE, copies |-> FALSE, crowded |-> FALSE]
Wrote(r) ==
  since' = IF job[r].what = "uninstall" THEN NotSince
           ELSE [since EXCEPT
             !.origin = IF since.writes = 0 THEN file ELSE @,
             !.writes = @ + 1,
             !.raced = @ \/ ~job[r].alone,
             !.missed = app # "down" /\ Env(job[r].out, "endpoint") # {app}]
(* The runner whose turn it is at a place of its job. *)
At(r, what, place) == job[r].what \in what /\ job[r].at = place

(* Stack::read, the first thing `doctor --fix`, the window's button and an *)
(* uninstall do, and what the application does after it had to move.       *)
BeginFix(r) ==
  /\ job[r] = NoJob /\ (r = "app" => app # "down")
  /\ Spend("fixes")
  /\ Goes(r, [NoJob EXCEPT !.what = "fix", !.at = "plan", !.seen = file])
  /\ UNCHANGED <<file, backups, higher, app, busy, agent, now, since>>

BeginUninstall(r) ==
  /\ job[r] = NoJob /\ (r = "app" => app # "down")
  /\ Spend("undos")
  /\ Goes(r, [NoJob EXCEPT !.what = "uninstall", !.at = "plan", !.seen = file])
  /\ UNCHANGED <<file, backups, higher, app, busy, agent, now, since>>

ReadStack ==
  /\ At("app", {"moved"}, "read")
  /\ Goes("app", [job.app EXCEPT !.at = "plan", !.seen = file, !.alone = TRUE])
  /\ UNCHANGED <<file, backups, higher, app, busy, agent, now, left, since>>

(* The configured endpoint is one of ours; otherwise the user is told.     *)
OursToMove(stack) == \E v \in Effective(stack, "endpoint") : IsLoopback(v)

(* plan_fix refuses, or there is nothing to change, or the copy is taken   *)
(* and what will be written is made from what was read.                    *)
PlanFix(r) ==
  /\ At(r, {"fix", "moved"}, "plan")
  /\ LET seen  == job[r].seen
         stack == Stack(r, seen)
         addr  == IF job[r].what = "moved" THEN app ELSE ResolveAddr(stack)
     IN IF \/ job[r].what = "moved" /\ ~OursToMove(stack)
           \/ Refused(stack, seen, addr)
           \/ NoopPlan(seen, addr)
           \/ NotRewritable(seen)
        THEN /\ Goes(r, NoJob)
             /\ UNCHANGED <<backups, since>>
        ELSE /\ backups' = IF file.kind = "absent" THEN backups ELSE BackedUp(backups, file)
             /\ since' = [since EXCEPT
                  !.copies = IF since.writes = 0 THEN DOMAIN backups # {} ELSE @,
                  !.crowded = @ \/ now \in DOMAIN backups]
             /\ Goes(r, [job[r] EXCEPT !.at = "write", !.out = Merged(seen, addr),
                                         !.probed = app])
  /\ UNCHANGED <<file, higher, app, busy, agent, now, left>>

(* write_atomically. *)
WriteFile(r) ==
  /\ At(r, {"fix", "moved", "uninstall"}, "write")
  /\ file' = job[r].out
  /\ Wrote(r)
  /\ Writes(r)
  /\ UNCHANGED <<backups, higher, app, busy, agent, now, left>>

BootOut == [agent EXCEPT !.loaded = FALSE]

(* uninstall::plan has read the stack; the copies are looked at next, and  *)
(* apply removes the login agent before it touches the file.  A failure of *)
(* one does not stop the other.                                            *)
PlanUninstall(r) ==
  /\ At(r, {"uninstall"}, "plan")
  /\ \E removes \in BOOLEAN :
       /\ agent' = IF agent.plist THEN [BootOut EXCEPT !.plist = ~removes] ELSE agent
       /\ Goes(r, [job[r] EXCEPT !.at = PlanSettings(job[r].seen, backups)])
  /\ UNCHANGED <<file, backups, higher, app, busy, now, left, since>>

(* apply_settings. *)
Revert(r) ==
  /\ At(r, {"uninstall"}, "restore") \/ At(r, {"uninstall"}, "remove_file")
  /\ file' = IF job[r].at = "restore" THEN Oldest(backups) ELSE NoFile
  /\ Wrote(r)
  /\ Writes(r)
  /\ UNCHANGED <<backups, higher, app, busy, agent, now, left>>

LeaveFile(r) ==
  /\ At(r, {"uninstall"}, "clean")
  /\ Goes(r, NoJob)
  /\ UNCHANGED <<file, backups, higher, app, busy, agent, now, left, since>>

RemoveKeys(r) ==
  /\ At(r, {"uninstall"}, "remove_keys")
  /\ since' = [since EXCEPT !.raced = @ \/ ~job[r].alone]
  /\ IF file.kind = "object"
     THEN /\ backups' = BackedUp(backups, file)
          /\ Goes(r, [job[r] EXCEPT !.at = "write", !.seen = file, !.alone = TRUE,
                                    !.out = Pretty(WithoutOurKeys(file))])
     ELSE /\ Goes(r, NoJob)
          /\ UNCHANGED backups
  /\ UNCHANGED <<file, higher, app, busy, agent, now, left>>

-----------------------------------------------------------------------------
(* The application.  It binds the first of the ports that is free and,     *)
(* when that is not the preferred one, tries to move the endpoint there.   *)

Free == {i \in DOMAIN Ports : Ports[i] \notin busy}
FirstFree == Ports[CHOOSE i \in Free : \A j \in Free : i <= j]
PortChangedNever == FALSE                 \* mutant: a fallback goes unnoticed
PortChanged == FirstFree # Preferred

StartApp ==
  /\ app = "down" /\ job.app = NoJob /\ Free # {}
  /\ Spend("starts")
  /\ app' = FirstFree
  /\ Goes("app", IF PortChanged THEN [NoJob EXCEPT !.what = "moved", !.at = "read"]
                                ELSE NoJob)
  /\ UNCHANGED <<file, backups, higher, busy, agent, now, since>>

(* A quit, or a crash between any two steps of its job. *)
StopApp ==
  /\ app # "down"
  /\ app' = "down"
  /\ Goes("app", NoJob)
  /\ since' = IF job.app = NoJob THEN since ELSE [since EXCEPT !.raced = TRUE]
  /\ UNCHANGED <<file, backups, higher, busy, agent, now, left>>

(* The login agent, from the tray, the window or the command line.         *)
Bootstrap == BOOLEAN                      \* launchctl may refuse
InstallAgent ==
  /\ Spend("agents")
  /\ \E loads \in Bootstrap : agent' = [BootOut EXCEPT !.plist = TRUE, !.loaded = loads]
  /\ UNCHANGED <<file, backups, higher, job, app, busy, now, since>>

UninstallAgentFileOnly ==                 \* mutant: no bootout
  /\ Spend("agents")
  /\ agent' = [agent EXCEPT !.plist = FALSE]
  /\ UNCHANGED <<file, backups, higher, job, app, busy, now, since>>
UninstallAgent ==
  /\ Spend("agents")
  /\ agent' = [BootOut EXCEPT !.plist = FALSE]
  /\ UNCHANGED <<file, backups, higher, job, app, busy, now, since>>
ToggleLoginAgent == IF agent.plist THEN UninstallAgent ELSE InstallAgent

-----------------------------------------------------------------------------
(* Everyone else: Claude Code or the user writes the file, other programs  *)
(* take the preferred port and give it back, seconds pass.                 *)

Edited(f) ==
  {[f EXCEPT !.rest = 1, !.form = "own"], Unparseable}
  \cup (IF f.block = "other" THEN {} ELSE
        {[f EXCEPT !.block = "object", !.env = Overlay(@, change), !.form = "own"] :
           change \in {[endpoint |-> "away"], [theirs |-> "1"]}})

Edit ==
  /\ Spend("edits")
  /\ file' \in IF file.kind = "object" THEN Edited(file) ELSE {AFile("none", NoEnv, 1)}
  /\ job' = [r \in Runner |-> Overtaken(job[r])]
  /\ since' = [since EXCEPT !.edited = since.writes > 0]
  /\ UNCHANGED <<backups, higher, app, busy, agent, now>>

SeizePort ==
  /\ app # Preferred
  /\ Spend("seizes")
  /\ busy' = IF Preferred \in busy THEN {} ELSE {Preferred}
  /\ UNCHANGED <<file, backups, higher, job, app, agent, now, since>>

Pass ==
  /\ now < MaxTime
  /\ now' = now + 1
  /\ UNCHANGED <<file, backups, higher, job, app, busy, agent, left, since>>

-----------------------------------------------------------------------------
SettingsInit ==
  /\ \E m \in Machines : /\ file = m.file
                         /\ higher = [app |-> NoEnv, cli |-> m.above]
                         /\ left = m.may
  /\ backups = [t \in {} |-> NoFile]
  /\ job = [r \in Runner |-> NoJob]
  /\ app = "down"
  /\ busy = {}
  /\ agent = [plist |-> FALSE, loaded |-> FALSE]
  /\ now = 0
  /\ since = NotSince

SettingsNext ==
  \/ \E r \in Runner :
       \/ BeginFix(r) \/ BeginUninstall(r)
       \/ PlanFix(r) \/ WriteFile(r)
       \/ PlanUninstall(r) \/ Revert(r) \/ LeaveFile(r) \/ RemoveKeys(r)
  \/ ReadStack
  \/ StartApp \/ StopApp
  \/ InstallAgent \/ UninstallAgent \/ ToggleLoginAgent
  \/ Edit \/ SeizePort \/ Pass

SettingsSpec == SettingsInit /\ [][SettingsNext]_settingsvars

-----------------------------------------------------------------------------
(* Properties. *)

JobShape(j) ==
  \/ j = NoJob
  \/ /\ j \in [what : {"none", "fix", "moved", "uninstall"},
               at : {"idle", "read", "plan", "write", "restore", "remove_file",
                     "remove_keys", "clean"},
               seen : {j.seen}, out : {j.out}, probed : Port \cup {"down"}, alone : BOOLEAN]
     /\ FileShape(j.seen) /\ FileShape(j.out)

\* Every variable keeps its type, the files their shape, the application has a
\* job only while it runs, a copy to be restored is there, and launchd holds no
\* job whose plist an uninstall would not find.
SettingsInv ==
  /\ FileShape(file) /\ now \in Nat
  /\ \A t \in DOMAIN backups : t \in 0..now /\ FileShape(backups[t])
  /\ higher \in [app : {NoEnv}, cli : EnvBlock]
  /\ job = [r \in Runner |-> job[r]]
  /\ \A r \in Runner :
       JobShape(job[r]) /\ (job[r].at = "restore" => DOMAIN backups # {})
  /\ app \in Port \cup {"down"} /\ busy \subseteq {Preferred} /\ app \notin busy
  /\ app = "down" => job.app = NoJob
  /\ agent \in [plist : BOOLEAN, loaded : BOOLEAN] /\ (agent.loaded => agent.plist)
  /\ left \in [Bounded -> Nat]

(* The step in which runner r replaces the file, when nobody else wrote    *)
(* it since r read what it goes by.                                        *)
Replaces(r) == job[r] # NoJob /\ job'[r] = NoJob /\ file' # file
Alone(r) == job[r].alone

Theirs(f) == <<f.rest, Without(f.env)>>

\* A fix or an uninstall that raced with nobody keeps all that is not ours,
\* whatever was edited since the copies were taken, and a fix replaces
\* neither a file that points at somebody else's collector nor one it could
\* not read.
TheirsKept ==
  [][\A r \in Runner : Replaces(r) /\ Alone(r) =>
       /\ Theirs(file') = Theirs(file)
       /\ job[r].what # "uninstall"
            => file.kind \in {"absent", "object"} /\ ~Foreign(Stack(r, file))]_settingsvars

\* When only toolog wrote the file since its first write, an uninstall puts
\* back the bytes that write replaced: if they held none of our keys and no
\* empty env, no copies of an earlier install were there, each write had a
\* second of its own, and a file toolog created was written once.
NoneOfOurs(f) == OurKeys \cap DOMAIN f.env = {}
NobodyElse(r) ==
  /\ Alone(r) /\ \A q \in Runner \ {r} : job[q] = NoJob
  /\ since.writes > 0 /\ ~since.edited /\ ~since.raced
UndoExact ==
  [][\A r \in Runner :
       /\ job[r].what = "uninstall" /\ Replaces(r) /\ NobodyElse(r)
       /\ NoneOfOurs(since.origin) /\ ~since.copies /\ ~since.crowded
       /\ since.origin.block = "object" => DOMAIN since.origin.env # {}
       /\ since.origin.kind = "absent" => since.writes = 1
       => file' = since.origin]_settingsvars

\* Unless the application moved meanwhile, the next report has nothing to say against
\* what a fix wrote, or what stands in the way is set above the file it writes
\* (settings.rs plan_fix and apply_fix, doctor.rs report).
FixReported ==
  [][\A r \in Runner :
       /\ job[r].what \in {"fix", "moved"} /\ Replaces(r) /\ job[r].probed = app
       => Configured(Stack(r, file)') \/ BeyondOurReach(Stack(r, file)')]_settingsvars

(* The port a fix has to write: where the application listens, or would if *)
(* it were started.  A report and a fix look for it at the preferred port  *)
(* and at the endpoint in force, so they do not find one that had to move  *)
(* and of which no file tells.                                             *)
InService == IF app = "down" THEN Preferred ELSE app
Missed(stack) == app \notin {"down", Preferred} /\ Effective(stack, "endpoint") # {app}

\* Unless the application moved meanwhile, a fix writes the port that is in service,
\* if that is the preferred one or the endpoint in force, and the application's own
\* after it had to move writes it always (doctor.rs resolve_addr and fix, app.rs
\* on_port_conflict).
FixReaches ==
  [][\A r \in Runner :
       /\ job[r].what \in {"fix", "moved"} /\ Replaces(r) /\ job[r].probed = app
       /\ job[r].what = "fix" => ~Missed(Stack(r, job[r].seen))
       => Env(file', "endpoint") = {InService}]_settingsvars

\* What is documented of a fix, and not so: it "writes the port that is actually in
\* service", once the application is through with what it does when it had to move
\* (doctor.rs fix).
FixWritesInService ==
  [][\A r \in Runner :
       /\ job[r].what = "fix" /\ Replaces(r) /\ job[r].probed = app
       /\ job.app.what # "moved"
       => Env(file', "endpoint") = {InService}]_settingsvars

(* Nothing is under way and nobody but toolog has written the endpoint.    *)
Settled == /\ \A r \in Runner : job[r] = NoJob
           /\ since.writes > 0 /\ ~since.edited /\ ~since.raced
Sends == Effective(Stack("app", file), "endpoint") \cap Port

\* Once the application had to move, what toolog configured sends to where it
\* listens, unless a fix made since had missed where that was.
MovedReaches ==
  Settled /\ ~since.missed /\ app \notin {"down", Preferred} => Sends \subseteq {app}

\* The settings file keeps its shape and the login agent its plist, and once the
\* application had to move, what toolog configured sends to where it listens
\* (settings.rs, launchagent.rs and app.rs on_port_conflict).
SettingsHold == SettingsInv /\ MovedReaches

\* An uninstall puts back what was there; a fix leaves nothing to report and writes
\* the port in service where it can find it (uninstall.rs plan_settings, settings.rs
\* plan_fix, doctor.rs fix).
FixedAndUndone == UndoExact /\ FixReported /\ FixReaches
=============================================================================
