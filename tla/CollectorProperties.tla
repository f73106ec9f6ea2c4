------------------------ MODULE CollectorProperties ------------------------
(***************************************************************************)
(* What the collector's lifecycle promises across failures, policy         *)
(* denials, kills and reboots.                                             *)
(***************************************************************************)
EXTENDS Collector

TargetOrNone == Targets \cup {None}

\* Every variable keeps the values of its declaration, and a collector is the
\* only owner of the listener.
TypeOK ==
    /\ platform \in {"linux", "darwin", "windows"} /\ queryable \in BOOLEAN
    /\ {service.def, service.saved, service.running, service.fallback,
        foreground} \subseteq TargetOrNone
    /\ {service.enabled, service.runKey, service.legacy} \subseteq BOOLEAN
    /\ service.trees \subseteq Targets
    /\ DOMAIN service = DOMAIN NoService /\ DOMAIN cmd = DOMAIN NoCommand
    /\ service.running = None \/ foreground = None
    /\ service.legacy => service.running # None
    /\ cmd = NoCommand => todo = <<>>

Finished(name) == cmd.name = name /\ todo = <<>>

\* A setup that fails after it stopped the collector, and could restart it,
\* leaves running what ran before; one that succeeds leaves the collector it
\* was asked for, or after a policy denial the one that ran before
\* (bootstrapSupportedAdapters).  The collector it finds must agree with its
\* definition and settings, and nothing else take the listener meanwhile.
SetupKeepsCollectorRunning ==
    (Finished("setup") /\ ~cmd.unrestored /\ cmd.settled)
    => IF cmd.failed \/ cmd.denied
       THEN cmd.before # None => service.running = cmd.before
       ELSE service.running = cmd.target

\* Setup never redirects an installed collector whose settings are known to
\* another home, not even while it restores one
\* (rejectActiveCollectorTargetChange, the staged definition of Install).
SetupNeverRedirects ==
    [][(cmd.name = "setup" /\ cmd.installed)
       => /\ service'.saved = service.saved
          /\ service'.def \in {service.def, service.saved}]_vars

\* The settings that say where the collector's files are outlive those files,
\* so that an uninstall that failed half-way can be run again.
SettingsOutliveFiles ==
    [][(service.saved # None /\ service'.saved = None)
       => service.saved \notin service'.trees]_vars

\* An uninstall whose collector part returns no error leaves nothing behind:
\* no definition, no settings, no login entry and no collector in the
\* background, whatever failed, was killed or was rebooted before it, and
\* whether or not the adapters could all be uninstalled.  A definition that
\* the platform did not show when the uninstall began (cmd.known) is no claim
\* of it.
UninstallLeavesNothing ==
    /\ cmd.name \in {"uninstall", "uninstallAll"} /\ todo = <<>>
    /\ ~cmd.failed /\ cmd.known
    => /\ service.def = None /\ service.saved = None
       /\ service.running = None
       /\ ~service.enabled /\ ~service.runKey /\ service.fallback = None

=============================================================================
