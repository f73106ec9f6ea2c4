----------------------------- MODULE Collector -----------------------------
(***************************************************************************)
(* The managed collector: installing, starting, stopping, restarting and   *)
(* uninstalling the background service on the three platforms              *)
(* (src/internal/cli/collector_linux.go, collector_darwin.go and           *)
(* collector_windows.go), and the setup command that stops it, initializes *)
(* the ledger, installs and starts it again, and restores it when a later  *)
(* step fails (src/internal/cli/setup.go).                                 *)
(*                                                                         *)
(* A command is the sequence of its calls to the file system and to the    *)
(* service manager; any of them can fail, and the process can be killed    *)
(* between two of them.  A target stands for the home, the listener and    *)
(* the executable of a service definition.                                 *)
(***************************************************************************)
EXTENDS Integers, Sequences

CONSTANTS
    Targets,      \* homes a collector can be installed for
    Default,      \* the home used when none is given
    None,         \* no target
    MaxCommands,  \* bound on the commands that are started
    MaxFailures,  \* bound on the calls that fail
    MaxCrashes    \* bound on the killed commands and the reboots

ASSUME TargetsAssumption == Default \in Targets /\ None \notin Targets

VARIABLES
    platform,    \* the operating system; never changes
    queryable,   \* the Windows scheduler answers queries; never changes
    service,     \* what is installed and what runs
    foreground,  \* home of a collector a user serves from a terminal
    cmd,         \* the command in progress
    todo,        \* the calls it has still to make
    commands, failures, crashes

settings == <<platform, queryable>>
counters == <<commands, failures, crashes>>
vars == <<settings, service, foreground, cmd, todo, counters>>

\* def: target of the unit file, launch agent or scheduled task; saved: the
\* settings qlog keeps of what it installed; enabled: systemd starts the unit
\* at login; running: target of the collector in the background; trees: homes
\* with a collector directory; fallback, runKey: state file and login entry of
\* the legacy Windows collector; legacy: it is the one that runs.
NoService ==
    [def |-> None, saved |-> None, enabled |-> FALSE, running |-> None,
     trees |-> {}, fallback |-> None, runKey |-> FALSE, legacy |-> FALSE]

\* before: what ran when the command began; settled: definition, settings and
\* process agreed then, and nobody has taken the listener since; known: what
\* was defined was visible then; installed: it was, with known settings;
\* active: the target a failing setup restarts; restore: it was stopped and
\* is restarted; failed: an error is returned; unrestored: the restart failed
\* as well; denied: a scheduler policy refused the definition; partial: the
\* adapters could not all be uninstalled, and the command went on.
NoCommand ==
    [name |-> "none", target |-> None, before |-> None, settled |-> FALSE,
     known |-> FALSE, installed |-> FALSE, active |-> None, restore |-> FALSE,
     restoring |-> FALSE, failed |-> FALSE, unrestored |-> FALSE,
     denied |-> FALSE, partial |-> FALSE]

Windows == platform = "windows"

----------------------------------------------------------------------------
(* What a status query reports.                                            *)

LinuxStatus ==
    [installed |-> service.def # None, fallback |-> FALSE,
     running |-> service.def # None /\ service.running # None,
     home |-> service.saved]

DarwinStatus ==
    [installed |-> service.def # None, fallback |-> FALSE,
     running |-> service.def # None /\ service.running # None,
     home |-> service.saved]

\* The state file of the legacy collector counts while the login entry that
\* starts it is there.
windowsCollectorFallbackRegistered == service.fallback # None /\ service.runKey

windowsCollectorFallbackRunning == service.fallback # None /\ service.legacy

\* A task that cannot be queried counts as installed while its settings can
\* be read, so that setup cannot redirect it.
windowsCollectorStatus ==
    LET task == service.def # None /\ (queryable \/ service.saved # None)
        legacy == ~task /\ windowsCollectorFallbackRegistered
    IN  [installed |-> task, fallback |-> legacy,
         running |-> IF legacy THEN windowsCollectorFallbackRunning
                     ELSE task /\ queryable /\ service.running # None
                               /\ ~service.legacy,
         home |-> IF legacy THEN service.fallback ELSE service.saved]

Status ==
    CASE platform = "linux" -> LinuxStatus
      [] platform = "darwin" -> DarwinStatus
      [] Windows -> windowsCollectorStatus

\* The health probe pins the certificate of the home it knows.
probeCollectorHealth ==
    (IF Status.home = None THEN Default ELSE Status.home)
        \in {service.running, foreground}

\* The settings a command inherits when it names no home.
LinuxSettings(target) ==
    IF service.saved # None THEN service.saved ELSE target

DarwinSettings(target) ==
    IF service.saved # None THEN service.saved ELSE target

WindowsSettings(target) ==
    IF (Status.installed \/ Status.fallback) /\ Status.home # None
    THEN Status.home ELSE target

resolveManagedCollectorSettings(target) ==
    CASE platform = "linux" -> LinuxSettings(target)
      [] platform = "darwin" -> DarwinSettings(target)
      [] Windows -> WindowsSettings(target)

\* Only the Windows manager can tell whom the installed definition serves.
windowsCollectorSettingsMatch(target) == service.saved = target

collectorTargetMatches(target) ==
    Windows => windowsCollectorSettingsMatch(target)

----------------------------------------------------------------------------
(* The calls each operation makes, in order.                               *)

Call(name) == <<name, None>>

LinuxInstall(target) ==
    << <<"makeTree", target>>, <<"define", target>>, <<"save", target>> >>

DarwinInstall(target) ==
    << <<"makeTree", target>>, <<"define", target>>, <<"save", target>> >>

\* The settings are renamed into place once the scheduler took the task.
WindowsInstall(target) == << <<"define", target>>, <<"save", target>> >>

Install(target) ==
    CASE platform = "linux" -> LinuxInstall(target)
      [] platform = "darwin" -> DarwinInstall(target)
      [] Windows -> WindowsInstall(target)

LinuxStart(target) ==
    LinuxInstall(target) \o <<Call("reload"), Call("enable"), Call("run")>>

DarwinStart(target) ==
    DarwinInstall(target) \o <<Call("stop"), Call("run")>>

WindowsStart(target) ==
    <<Call("rejectFallback")>> \o WindowsInstall(target) \o <<Call("run")>>

Start(target) ==
    CASE platform = "linux" -> LinuxStart(target)
      [] platform = "darwin" -> DarwinStart(target)
      [] Windows -> WindowsStart(target)

LinuxRestart(target) == <<Call("stop")>> \o LinuxStart(target)

DarwinRestart(target) == <<Call("stop")>> \o DarwinStart(target)

WindowsRestart(target) ==
    <<Call("rejectFallback"), Call("stop")>> \o WindowsStart(target)

restartManagedCollector(target) ==
    CASE platform = "linux" -> LinuxRestart(target)
      [] platform = "darwin" -> DarwinRestart(target)
      [] Windows -> WindowsRestart(target)

\* Mutant: the unit is removed before it is disabled.
LinuxUninstallBeforeDisabling ==
    <<Call("stop"), Call("undefine"), Call("disable"), Call("removeTree"),
      Call("unsave")>>

LinuxUninstall ==
    <<Call("stop"), Call("disable"), Call("undefine")>>
      \o (IF service.def # None \/ service.saved # None
          THEN <<Call("reload")>> ELSE <<>>)
      \o <<Call("removeTree"), Call("unsave")>>

\* Mutant: the settings are removed before the files they name.
DarwinUninstallSettingsFirst ==
    <<Call("stop"), Call("undefine"), Call("unsave"), Call("removeTree")>>

DarwinUninstall ==
    <<Call("stop"), Call("undefine"), Call("removeTree"), Call("unsave")>>

WindowsUninstall ==
    <<Call("stopFallback"), Call("unregister")>>
      \o (IF Status.installed THEN <<Call("stop"), Call("undefine")>> ELSE <<>>)
      \o <<Call("unsave")>>

Uninstall ==
    CASE platform = "linux" -> LinuxUninstall
      [] platform = "darwin" -> DarwinUninstall
      [] Windows -> WindowsUninstall

\* An adapter that cannot be uninstalled does not keep the collector.
newUninstallCommand == <<Call("unadapt")>> \o Uninstall

\* Start installs once more what setup has just installed.
bootstrapSupportedAdapters(target) ==
    << <<"check", target>>, Call("plan"), Call("quiesce"),
       Call("initialize") >>
        \o Install(target) \o Start(target) \o <<Call("adapters")>>

Plan(name, target) ==
    CASE name = "install" -> Install(target)
      [] name = "start" -> Start(target)
      [] name = "stop" -> <<Call("stop")>>
      [] name = "restart" -> restartManagedCollector(target)
      [] name = "uninstall" -> Uninstall
      [] name = "uninstallAll" -> newUninstallCommand
      [] name = "setup" -> bootstrapSupportedAdapters(target)

----------------------------------------------------------------------------
(* What a call changes when it succeeds, and when it can fail.             *)

rejectLegacyWindowsFallback == Status.fallback

\* Mutant: the target of the installed collector is not looked at.
acceptActiveCollectorTargetChange(target) == FALSE

rejectActiveCollectorTargetChange(target) ==
    /\ Status.installed
    /\ \/ resolveManagedCollectorSettings(target) # target
       \/ ~collectorTargetMatches(target)

rejectForegroundCollectorReplacement ==
    ~Status.installed /\ foreground # None /\ probeCollectorHealth

SetupRejects(target) ==
    \/ rejectLegacyWindowsFallback
    \/ rejectActiveCollectorTargetChange(target)
    \/ rejectForegroundCollectorReplacement

stopCollectorForLedgerInitialization ==
    Status.installed /\ (Status.running \/ probeCollectorHealth)

\* What the platform's stop reaches: the managed collector, or in fallback
\* mode the legacy one.
LinuxStops == service.running # None

DarwinStops == service.running # None

WindowsStops ==
    /\ service.running # None
    /\ IF Status.fallback THEN windowsCollectorFallbackRunning
       ELSE Status.installed /\ ~service.legacy

Stops ==
    CASE platform = "linux" -> LinuxStops
      [] platform = "darwin" -> DarwinStops
      [] Windows -> WindowsStops

\* Mutant: the legacy collector is still taken for the one that runs.
StoppedStillLegacy == [service EXCEPT !.running = None]

Stopped == [service EXCEPT !.running = None, !.legacy = FALSE]

stopWindowsCollectorFallback ==
    IF windowsCollectorFallbackRunning THEN Stopped ELSE service

unregisterWindowsCollectorFallback == [service EXCEPT !.runKey = FALSE]

\* A listener has one owner: a start does nothing while a collector runs,
\* and a service cannot bind what a foreground collector listens on.  The
\* definition and the settings are written whole here; where the code
\* truncates the file first (Linux, macOS, the settings on Windows), a kill
\* inside the write is left out.
Effect(call) ==
    LET name == call[1]
        target == call[2]
    IN  CASE name = "makeTree" -> [service EXCEPT !.trees = @ \cup {target}]
          [] name = "define" -> [service EXCEPT !.def = target]
          [] name = "save" -> [service EXCEPT !.saved = target]
          [] name = "enable" -> [service EXCEPT !.enabled = TRUE]
          [] name \in {"run", "resume"} ->
                IF service.running = None /\ foreground = None
                THEN [service EXCEPT !.running = service.def] ELSE service
          [] name = "stop" -> IF Stops THEN Stopped ELSE service
          [] name = "quiesce" ->
                IF stopCollectorForLedgerInitialization /\ Stops
                THEN Stopped ELSE service
          [] name = "stopFallback" -> stopWindowsCollectorFallback
          [] name = "disable" ->
                [service EXCEPT !.enabled = @ /\ service.def = None]
          [] name = "undefine" -> [service EXCEPT !.def = None]
          [] name = "removeTree" -> [service EXCEPT !.trees = @ \ {service.saved}]
          [] name = "unsave" -> [service EXCEPT !.saved = None, !.fallback = None]
          [] name = "unregister" -> unregisterWindowsCollectorFallback
          [] name \in {"reload", "rejectFallback", "check", "plan",
                       "initialize", "adapters", "unadapt"} -> service

\* A task is resumed as it is, and only a scheduled one.
RestartExistingRefuses == ~Status.installed \/ Status.fallback

\* The checks a command makes of the state before it changes anything.
Refused(call) ==
    \/ call[1] = "rejectFallback" /\ Status.fallback
    \/ call[1] = "check" /\ SetupRejects(call[2])
    \/ call[1] = "resume" /\ RestartExistingRefuses

\* A stop that finds nothing to stop succeeds, whatever the service manager
\* says.
StopMayFail ==
    CASE platform = "linux" -> service.def # None
      [] platform = "darwin" -> service.running # None
      [] Windows -> Status.installed \/ Status.fallback

MayFail(call) ==
    CASE call[1] \in {"check", "rejectFallback"} -> FALSE
      [] call[1] = "stop" -> StopMayFail
      [] call[1] = "quiesce" -> stopCollectorForLedgerInitialization
      [] call[1] = "stopFallback" -> windowsCollectorFallbackRunning
      [] call[1] = "disable" -> service.def # None
      [] call[1] = "removeTree" -> service.saved # None
      [] OTHER -> TRUE

----------------------------------------------------------------------------
(* The system                                                              *)

Init ==
    /\ platform \in {"linux", "darwin", "windows"}
    /\ queryable \in IF Windows THEN BOOLEAN ELSE {TRUE}
    /\ \/ service = NoService
       \/ /\ Windows
          /\ \E target \in Targets, up \in BOOLEAN :
               service = [NoService EXCEPT
                            !.fallback = target, !.runKey = TRUE,
                            !.legacy = up,
                            !.running = IF up THEN target ELSE None]
    /\ foreground = None
    /\ cmd = NoCommand
    /\ todo = <<>>
    /\ commands = 0 /\ failures = 0 /\ crashes = 0

Begin(name, target) ==
    /\ cmd = NoCommand /\ commands < MaxCommands
    /\ cmd' = [NoCommand EXCEPT
                 !.name = name, !.target = target,
                 !.before = service.running,
                 !.settled = /\ service.def = service.saved
                             /\ service.running \in {None, service.def}
                             /\ foreground = None,
                 !.known = service.def = None \/ Status.installed,
                 !.installed = Status.installed /\ service.saved # None,
                 !.active = resolveManagedCollectorSettings(target)]
    /\ todo' = Plan(name, target)
    /\ commands' = commands + 1
    /\ UNCHANGED <<settings, service, foreground, failures, crashes>>

\* A collector that setup restored after a policy denial is not restarted
\* again by a later failure.
Succeed ==
    /\ todo # <<>>
    /\ ~Refused(Head(todo))
    /\ service' = Effect(Head(todo))
    /\ todo' = Tail(todo)
    /\ cmd' = CASE Head(todo)[1] = "quiesce" -> 
                      [cmd EXCEPT !.restore = stopCollectorForLedgerInitialization]
                [] Head(todo)[1] = "resume" /\ ~cmd.restoring ->
                      [cmd EXCEPT !.restore = FALSE]
                [] OTHER -> cmd
    /\ UNCHANGED <<settings, foreground, counters>>

\* Mutant: setup does not restart what it stopped.
AbortWithoutRestart ==
    /\ cmd' = [cmd EXCEPT !.failed = TRUE]
    /\ todo' = <<>>

\* An error ends the command; setup first restarts what it stopped.
Abort ==
    IF cmd.restore /\ ~cmd.restoring
    THEN /\ cmd' = [cmd EXCEPT !.failed = TRUE, !.restoring = TRUE]
         /\ todo' = restartManagedCollector(cmd.active)
    ELSE /\ cmd' = [cmd EXCEPT !.failed = TRUE, !.unrestored = cmd.restoring]
         /\ todo' = <<>>

Refuse ==
    /\ todo # <<>>
    /\ Refused(Head(todo))
    /\ Abort
    /\ UNCHANGED <<settings, service, foreground, counters>>

Fail ==
    /\ todo # <<>> /\ failures < MaxFailures
    /\ ~Refused(Head(todo)) /\ MayFail(Head(todo))
    /\ IF Head(todo)[1] = "unadapt"
       THEN /\ cmd' = [cmd EXCEPT !.partial = TRUE]
            /\ todo' = Tail(todo)
       ELSE Abort
    /\ failures' = failures + 1
    /\ UNCHANGED <<settings, service, foreground, commands, crashes>>

\* A policy refuses a task definition.  A restart resumes the task as it is
\* and succeeds when its settings are those wanted; setup resumes what it
\* stopped and goes on without a new collector.
Deny ==
    /\ Windows /\ todo # <<>> /\ failures < MaxFailures
    /\ Head(todo)[1] = "define"
    /\ \/ /\ cmd.name = "restart" \/ cmd.restoring
          /\ todo' = <<Call("resume")>>
          /\ cmd' = IF collectorTargetMatches(Head(todo)[2]) THEN cmd
                    ELSE [cmd EXCEPT !.failed = TRUE,
                                     !.unrestored = cmd.restoring]
       \/ /\ cmd.name = "setup" /\ ~cmd.restoring
          /\ todo' = (IF cmd.restore THEN <<Call("resume")>> ELSE <<>>)
                        \o <<Call("adapters")>>
          /\ cmd' = [cmd EXCEPT !.denied = TRUE]
    /\ failures' = failures + 1
    /\ UNCHANGED <<settings, service, foreground, commands, crashes>>

Finish ==
    /\ cmd # NoCommand /\ todo = <<>>
    /\ cmd' = NoCommand
    /\ UNCHANGED <<settings, service, foreground, todo, counters>>

Kill ==
    /\ cmd # NoCommand /\ crashes < MaxCrashes
    /\ cmd' = NoCommand /\ todo' = <<>>
    /\ crashes' = crashes + 1
    /\ UNCHANGED <<settings, service, foreground, commands, failures>>

\* What is started again at the next login.
Reboot ==
    /\ crashes < MaxCrashes
    /\ \E up \in {[target |-> service.def, legacy |-> FALSE],
                  [target |-> service.fallback, legacy |-> TRUE],
                  [target |-> None, legacy |-> FALSE]} :
         /\ up.legacy => service.runKey /\ up.target # None
         /\ (up.target # None /\ ~up.legacy /\ platform = "linux")
              => service.enabled
         /\ up.target = None =>
              /\ service.def = None \/ (platform = "linux" /\ ~service.enabled)
              /\ ~(service.runKey /\ service.fallback # None)
         /\ service' = [service EXCEPT !.running = up.target,
                                       !.legacy = up.legacy]
    /\ foreground' = None
    /\ cmd' = NoCommand /\ todo' = <<>>
    /\ crashes' = crashes + 1
    /\ UNCHANGED <<settings, commands, failures>>

Serve(target) ==
    /\ service.running = None /\ foreground = None
    /\ foreground' = target
    /\ cmd' = [cmd EXCEPT !.settled = FALSE]
    /\ UNCHANGED <<settings, service, todo, counters>>

StopServing ==
    /\ foreground # None
    /\ foreground' = None
    /\ UNCHANGED <<settings, service, cmd, todo, counters>>

Next ==
    \/ \E name \in {"install", "start", "stop", "restart", "uninstall",
                   "uninstallAll", "setup"},
          target \in Targets : Begin(name, target)
    \/ Succeed \/ Refuse \/ Fail \/ Deny \/ Finish
    \/ Kill \/ Reboot
    \/ \E target \in Targets : Serve(target)
    \/ StopServing

Spec == Init /\ [][Next]_vars

=============================================================================
