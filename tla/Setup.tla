-------------------------------- MODULE Setup --------------------------------
(***************************************************************************)
(* yos init (cli/commands/init): prerequisites, the agent's runtime, the   *)
(* layout under ~/yos, instruction files, core skills, HTTPS and services. *)
(*                                                                         *)
(* An init takes one of two ways, by what it finds: a layout that looks    *)
(* complete is refreshed, any other is created.  It can die at every step, *)
(* also by what a step throws, and be run again.  Credentials have a       *)
(* module of their own (Credentials); questions the user is asked are      *)
(* choices.                                                                *)
(***************************************************************************)
EXTENDS Instructions

CONSTANTS
  MaxInits,      \* bound on the runs of yos init
  Runtimes,      \* "claude" and "codex"
  Ports,         \* the ports looked at, the default one first
  Packages,      \* system packages that may be missing: "tmux", "git", "pm2"
  Foreign        \* what may hold a port besides the console

ASSUME PortsAssumption == Ports \subseteq Nat /\ 1 \in Ports

VARIABLES
  box,           \* the machine: what is installed, recorded and running
  init,          \* the run of yos init
  inits          \* how many there were

setupVars == <<box, init, inits>>

DEFAULT_WEB_CONSOLE_PORT == 1
NONE == "none"

NoInit == [at |-> "none", way |-> "none", want |-> NONE, was |-> NONE, domain |-> FALSE,
           asks |-> FALSE, chain |-> <<>>, for |-> "", denied |-> FALSE, moved |-> FALSE,
           code |-> 0]

SetupInit ==
  /\ box = [have |-> {}, dirs |-> {}, runtime |-> NONE, threshold |-> 0, env |-> FALSE,
            port |-> 0, password |-> "none", zone |-> FALSE, ecosystem |-> FALSE, skills |-> 0,
            hooks |-> 0, db |-> FALSE, domain |-> FALSE, caddyBin |-> FALSE, caddyPort |-> 0,
            console |-> 0, monitor |-> NONE, health |-> NONE, boot |-> NONE, path |-> FALSE,
            stalePort |-> FALSE]
  /\ init = NoInit /\ inits = 0

AtStep(step) == init.at = step
Go(step) == init' = [init EXCEPT !.at = step]
Machine(new) == box' = new /\ UNCHANGED inits
InitExits == init' = NoInit
TextsStay == UNCHANGED instructionVars

\* The steps of the two ways in their order.
CompleteWay ==
  <<"path", "skills", "runtime", "threshold", "templates", "instructions", "hooks", "password",
    "source", "zone", "caddy", "health", "port", "dependencies", "stop", "start", "settle",
    "boot", "report">>
FreshWay ==
  <<"dirs", "path", "runtime", "threshold", "templates", "instructions", "hooks", "password",
    "source", "port", "zone", "skills", "caddy", "health", "dependencies", "stop", "start",
    "settle", "boot", "report">>
Way == IF init.way = "complete" THEN CompleteWay ELSE FreshWay
After(step) == Way[(CHOOSE i \in 1..Len(Way): Way[i] = step) + 1]
GoOn(step) == Go(After(step))

\* detectInstallState
InstallState ==
  IF box.dirs = {} THEN "fresh"
  ELSE IF box.dirs = {"skills", "config", "components"} THEN "complete" ELSE "incomplete"

-----------------------------------------------------------------------------
(* Prerequisites *)

\* Options, environment and consent; a user who declines has changed nothing.
StartInit ==
  /\ init = NoInit /\ inits < MaxInits /\ inits' = inits + 1
  /\ \E wanted \in Runtimes \cup {NONE}, domain, asks \in BOOLEAN:
       init' = [NoInit EXCEPT !.at = "packages", !.domain = domain, !.asks = asks,
                              !.want = wanted, !.was = box.runtime]
  /\ UNCHANGED box /\ TextsStay

\* planClaudeInstall, npmInstallSources
InstallSources(p) ==
  IF p = "claude" THEN <<"native", "npm", "mirror">>
  ELSE IF p \in {"pm2", "codex"} THEN <<"npm", "mirror">> ELSE <<"system">>

\* The next tool that the run misses and installs, the runtime when it is chosen.
MissingTool(p) == p \notin box.have
InstallPackage ==
  /\ AtStep("packages")
  /\ IF \E p \in Packages: MissingTool(p)
     THEN LET p == CHOOSE q \in Packages: MissingTool(q)
          IN init' = [init EXCEPT !.at = "install", !.for = p, !.chain = InstallSources(p)]
     ELSE Go("select")
  /\ Machine(box) /\ TextsStay

\* selectRuntime: what the user names, else what is on record, else what the
\* user is asked to choose, else codex.
SelectRuntime ==
  /\ AtStep("select")
  /\ \E chosen \in Runtimes:
       /\ init.want # NONE => chosen = init.want
       /\ init.want = NONE /\ init.was # NONE => chosen = init.was
       /\ init.want = NONE /\ init.was = NONE /\ ~init.asks => chosen = "codex"
       /\ init' = [init EXCEPT !.want = chosen,
                     !.at = IF MissingTool(chosen) THEN "install" ELSE "detect",
                     !.for = chosen, !.chain = InstallSources(chosen)]
  /\ Machine(box) /\ TextsStay

\* tryChain: one source after the other until the command is there; once more
\* with sudo, npm's sources only, when one of them was refused the permission.
TryInstall ==
  /\ AtStep("install") /\ init.chain # <<>>
  /\ \/ /\ Machine([box EXCEPT !.have = @ \cup {init.for}])
        /\ init' = [init EXCEPT !.at = IF init.for \in Runtimes THEN "detect" ELSE "packages",
                                !.chain = <<>>, !.denied = FALSE]
     \/ /\ Machine(box)
        /\ \E refused \in BOOLEAN:
             init' = [init EXCEPT !.chain = Tail(@),
                        !.denied = @ \/ (refused /\ Head(init.chain) \in {"npm", "mirror"})]
  /\ TextsStay

\* Without a way left the run ends with exit code 1.
InstallExhausted ==
  /\ AtStep("install") /\ init.chain = <<>>
  /\ \/ init.denied /\ init' = [init EXCEPT !.chain = <<"sudo npm", "sudo mirror">>, !.denied = FALSE]
     \/ InitExits
  /\ Machine(box) /\ TextsStay

\* resetManagedState, once the services are stopped.
ResetManaged ==
  [box EXCEPT !.console = 0, !.monitor = NONE, !.dirs = {}, !.runtime = NONE,
              !.threshold = 0, !.domain = FALSE, !.skills = 0, !.ecosystem = FALSE]

\* The state is looked at after all this.  On an incomplete layout the user may
\* start afresh: the services and all that YOS manages go, what the user owns stays.
Detect ==
  /\ AtStep("detect")
  /\ LET way == InstallState
     IN \/ /\ Machine(box) /\ TextsStay
           /\ init' = [init EXCEPT !.way = way, !.at = IF way = "complete" THEN "path" ELSE "dirs"]
        \/ way = "incomplete" /\ init.asks
           /\ init' = [init EXCEPT !.way = way, !.at = "dirs"]
           /\ Machine(ResetManaged)
           /\ marker' = NoFile /\ format' = FALSE
           /\ file' = [e \in Entries |-> IF e \in {"system", "assembler"} THEN NoFile ELSE file[e]]
           /\ UNCHANGED <<bak, temps, writer, release, stamp, spent>>

-----------------------------------------------------------------------------
(* Layout, configuration, templates *)

CreateDirectories ==
  /\ AtStep("dirs")
  /\ \/ "skills" \notin box.dirs /\ UNCHANGED init
        /\ Machine([box EXCEPT !.dirs = @ \cup {"skills", "config"}])
     \/ "skills" \in box.dirs /\ GoOn("dirs") /\ Machine([box EXCEPT !.dirs = @ \cup {"components"}])
  /\ TextsStay

EnsureBinInPath == AtStep("path") /\ GoOn("path") /\ Machine([box EXCEPT !.path = TRUE]) /\ TextsStay

\* Mutant: only an install without a runtime on record is given one.
RecordFirstRuntime ==
  /\ AtStep("runtime") /\ GoOn("runtime")
  /\ Machine([box EXCEPT !.runtime = IF @ = NONE THEN init.want ELSE @]) /\ TextsStay

RecordRuntime ==
  /\ AtStep("runtime") /\ GoOn("runtime")
  /\ Machine([box EXCEPT !.runtime = IF init.was # init.want THEN init.want ELSE @]) /\ TextsStay

\* A first install gets 30; a layout found complete without a value, 70.
RecordThreshold ==
  /\ AtStep("threshold") /\ GoOn("threshold")
  /\ Machine([box EXCEPT !.threshold =
            IF @ # 0 THEN @ ELSE IF init.way = "complete" THEN 70 ELSE 30])
  /\ TextsStay

\* The first part of deployTemplates: PM2's file, and .env where there is none.
DeployTemplates ==
  /\ AtStep("templates")
  /\ init' = [init EXCEPT !.at = "instructions"]
  /\ Machine([box EXCEPT !.ecosystem = TRUE, !.env = TRUE])
  /\ TextsStay

\* Then the instruction files, which may throw and thereby end the init; ...
DeployInstructions ==
  /\ AtStep("instructions")
  /\ \/ BeginInstructions(IF init.way = "complete" THEN "refresh" ELSE "fresh")
        /\ UNCHANGED init
     \/ WriterStep /\ UNCHANGED init
     \/ writer.at = "done" /\ WriterEnds /\ GoOn("instructions")
     \/ writer.at = "thrown" /\ WriterEnds /\ InitExits
  /\ Machine(box)

\* ... memory, .claude and the manifest where missing, and the hooks of the release.
SyncHooks == AtStep("hooks") /\ GoOn("hooks") /\ Machine([box EXCEPT !.hooks = release]) /\ TextsStay

MigratePassword ==
  /\ AtStep("password") /\ GoOn("password")
  /\ Machine([box EXCEPT !.password = IF @ = "old" THEN "new" ELSE @]) /\ TextsStay

RecordSource == AtStep("source") /\ GoOn("source") /\ Machine(box) /\ TextsStay

\* A zone that is on record is kept by a later init only.
ConfigureTimezone ==
  /\ AtStep("zone") /\ GoOn("zone") /\ Machine([box EXCEPT !.zone = box.env]) /\ TextsStay

\* copyTree of each skill; errors are swallowed, and what is there stays then.
SyncCoreSkills ==
  /\ AtStep("skills") /\ GoOn("skills")
  /\ \/ Machine([box EXCEPT !.skills = release])
     \/ Machine(box)
  /\ TextsStay

-----------------------------------------------------------------------------
(* The port of the web console and Caddy *)

\* readRecordedConsolePort
RecordedPort == IF box.port # 0 THEN box.port ELSE DEFAULT_WEB_CONSOLE_PORT

\* settleWebConsolePort: a port that the user set stays whether it is free or
\* not, the default moves to the next free one.  The console of a running
\* installation holds its own port.
SettlePort ==
  /\ AtStep("port")
  /\ \E foreign \in SUBSET Foreign:
       LET busy(p) == p = box.console \/ p \in foreign
           free == {p \in Ports: ~busy(p)}
           port == IF box.port # 0 \/ ~busy(RecordedPort) \/ free = {} THEN box.port
                   ELSE CHOOSE p \in free: \A q \in free: p <= q
       IN /\ Machine([box EXCEPT !.port = port,
                             !.stalePort = @ \/ (init.way = "complete" /\ port # box.port
                                                 /\ box.caddyPort # 0)])
          /\ GoOn("port")
  /\ TextsStay

\* setupCaddy: what was configured stays unless a domain is named; without any
\* domain at most the binary is installed.  The domain is on record before the
\* download, which may fail, and the file after it.
ConfigureCaddy ==
  /\ AtStep("caddy")
  /\ LET configured == box.caddyBin /\ box.caddyPort # 0 /\ box.domain /\ ~init.domain
     IN \/ configured /\ GoOn("caddy") /\ Machine(box)
        \/ ~configured /\ (init.domain \/ box.domain \/ init.asks)
           /\ Go("download") /\ Machine([box EXCEPT !.domain = TRUE])
        \/ ~configured /\ ~init.domain
           /\ \E bin \in BOOLEAN: Machine([box EXCEPT !.caddyBin = @ \/ bin])
           /\ GoOn("caddy")
  /\ TextsStay

\* The binary is downloaded once; without it there is no file.
DownloadCaddy ==
  /\ AtStep("download")
  /\ \/ Machine([box EXCEPT !.caddyBin = TRUE]) /\ Go("caddyfile")
     \/ ~box.caddyBin /\ Machine(box) /\ GoOn("caddy")
  /\ TextsStay

\* generateCaddyfile names the port that is on record by now.
WriteCaddyfile ==
  /\ AtStep("caddyfile") /\ GoOn("caddy")
  /\ Machine([box EXCEPT !.caddyPort = RecordedPort, !.stalePort = FALSE])
  /\ TextsStay

-----------------------------------------------------------------------------
(* Services *)

\* The health of the runtime that is left is forgotten.
ClearHealth ==
  /\ AtStep("health") /\ GoOn("health")
  /\ Machine([box EXCEPT !.health = IF init.was \notin {NONE, init.want} THEN NONE ELSE @]) /\ TextsStay

\* A password is made up where there is none under either name.
EnsuredPassword == IF box.password = "none" THEN "new" ELSE box.password

\* installSkillDependencies, ensureWebConsolePassword, initializeDatabases
PrepareServices ==
  /\ AtStep("dependencies") /\ GoOn("dependencies")
  /\ Machine([box EXCEPT !.password = EnsuredPassword, !.db = @ \/ box.skills # 0])
  /\ TextsStay

StopServices ==
  /\ AtStep("stop") /\ GoOn("stop")
  /\ Machine([box EXCEPT !.console = 0, !.monitor = NONE]) /\ TextsStay

\* pm2 start of the ecosystem file: the services read port and runtime as they
\* start.  Where pm2 refuses, or starts them and fails to save its list, the
\* services are not looked at any more.
StartServices ==
  /\ AtStep("start")
  /\ \/ box.skills # 0 /\ (GoOn("start") \/ Go("boot"))
        /\ Machine([box EXCEPT !.console = RecordedPort, !.monitor = box.runtime,
                           !.health = box.runtime])
     \/ Go("boot") /\ Machine(box)
  /\ TextsStay

\* judgeSettle after some seconds: one that keeps restarting, for instance since
\* another holds its port, makes the exit code 1.
ServicesSettle ==
  /\ AtStep("settle") /\ Machine(box)
  /\ \E failed \in BOOLEAN:
       init' = [init EXCEPT !.at = "boot", !.code = IF failed THEN 1 ELSE 0]
  /\ TextsStay

\* What takes the unit's place where sudo or the unit failed: pm2's own command, a
\* line of the user's crontab, or nothing.
BootWithoutUnit == {box.boot, "unit", "crontab"}

\* setupPm2Startup, where services run: the unit is left alone when it is this
\* one's or the machine is not its own, else written, an older one backed up.
BootAutostart ==
  /\ AtStep("boot") /\ GoOn("boot")
  /\ \/ Machine(box)
     \/ /\ box.monitor # NONE
        /\ \E boot \in BootWithoutUnit: Machine([box EXCEPT !.boot = boot])
  /\ TextsStay

ReportInit ==
  /\ AtStep("report") /\ InitExits /\ Machine(box) /\ TextsStay

InitDies ==
  /\ init # NoInit /\ Spend("deaths", MaxDeaths)
  /\ init' = NoInit /\ writer' = Idle /\ UNCHANGED <<box, inits>>
  /\ UNCHANGED <<file, bak, temps, marker, format, release, stamp>>

\* yos itself is replaced by a later release, and init run again.
NewerYos ==
  /\ init = NoInit /\ inits > 0 /\ release < MaxRelease /\ release' = release + 1
  /\ UNCHANGED <<file, bak, temps, marker, format, writer, stamp, spent>>
  /\ UNCHANGED setupVars

SetupNext ==
  \/ StartInit \/ InstallPackage \/ SelectRuntime \/ TryInstall \/ InstallExhausted \/ Detect
  \/ CreateDirectories \/ EnsureBinInPath \/ RecordRuntime \/ RecordThreshold
  \/ DeployTemplates \/ DeployInstructions \/ SyncHooks \/ MigratePassword \/ RecordSource
  \/ ConfigureTimezone \/ SyncCoreSkills \/ SettlePort \/ ConfigureCaddy \/ DownloadCaddy \/ WriteCaddyfile
  \/ ClearHealth \/ PrepareServices \/ StopServices \/ StartServices \/ ServicesSettle
  \/ BootAutostart \/ ReportInit \/ InitDies \/ NewerYos

SetupSpec == SetupInit /\ InstructionInit /\ [][SetupNext]_<<setupVars, instructionVars>>

-----------------------------------------------------------------------------
(* Properties *)

\* What an init that comes to its end with exit code 0 leaves behind is of one
\* piece, whatever died before it: the instruction files and hooks of its release,
\* services that run the runtime it was asked for, and the web console where
\* .env and Caddy say it is.  There are two exceptions: services that pm2 did not
\* start at all are no failure to init; and a later init settles the port after
\* Caddy, and takes the port of its own console for taken (stalePort).
FinishedInitAgrees ==
  AtStep("report") /\ init.code = 0 =>
    /\ marker # NoFile /\ marker.release = release /\ There("YOS")
    /\ box.hooks = release /\ box.password # "none" /\ box.threshold # 0
    /\ box.runtime = init.want /\ box.monitor \in {NONE, init.want}
    /\ box.monitor # NONE => box.console = RecordedPort
    /\ box.caddyPort \in {0, RecordedPort} \/ box.stalePort
=============================================================================
