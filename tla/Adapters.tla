------------------------------ MODULE Adapters ------------------------------
(***************************************************************************)
(* What `qlog adapter install` and `qlog adapter uninstall` do to the      *)
(* files of an agent: they put qlog's settings into a file the user owns,  *)
(* keep on record what stood there, and give it back.  The files are       *)
(* written one after the other and a command can be cut off between two    *)
(* of them; between commands the user edits the files.  A write replaces   *)
(* a file as a whole.  The code does so for the settings of VS Code, by a  *)
(* rename; all others it truncates first, and a command cut off inside     *)
(* such a write, which leaves an empty or half a file, is left out.        *)
(*                                                                         *)
(* The adapters touch disjoint files, so one of them is followed at a      *)
(* time: `kind` is chosen in the initial state.  "codex" (config.toml and  *)
(* a state file), "claude" (settings.json, a state file and hooks),        *)
(* "vscode" (settings.json that holds its own state, and a launcher),      *)
(* "posix" and "powershell" (Copilot's block in the shell profiles, and a  *)
(* file that lists them), "opencode" (a plugin file qlog owns).            *)
(*                                                                         *)
(* A disk has the settings qlog manages (the one that names the collector  *)
(* of a home, "target", and one with a fixed value, "switch"), the record  *)
(* of what they replaced, the places that hold text of qlog (a launcher    *)
(* per home, a block per profile, the file qlog owns) and the places       *)
(* listed on record.  Texts, layout, comments and backups are left out:    *)
(* what matters of a text is whose it is and which home it names.          *)
(***************************************************************************)
EXTENDS Naturals, Sequences, FiniteSets, SequencesExt

CONSTANTS Kinds,         \* the adapters followed
          Homes,         \* the homes qlog may be set up for, as strings
          MaxCommands,   \* bound: commands begun
          MaxEdits,      \* bound: edits of the user
          MaxCuts        \* bound: commands cut off

\* Homes are none of the other values that a setting or a place may have.
ASSUME AdapterAssumption ==
    /\ Kinds \subseteq {"codex", "claude", "vscode", "posix", "powershell",
                        "opencode"}
    /\ Homes \cap {"absent", "mine", "off", "untracked", "none", "edited",
                    "theirs", "owned", "p1", "p2"} = {}

VARIABLES kind,     \* the adapter, fixed
          disk,     \* its files
          run,      \* the command that runs: what it was given, the disks
                    \* its writes lead through, and whether it succeeds
          last,     \* how the last command ended, if nothing followed
          chosen,   \* the values the user has given each setting
          loose,    \* places an install left with text of qlog and
                    \* without a record of it
          counters

adapterVars == <<kind, disk, run, last, chosen, loose, counters>>

Profiles == <<"p1", "p2">>
Places == Homes \cup ToSet(Profiles) \cup {"owned"}
KeysOf(a) == CASE a = "codex" -> {"target", "switch"}
               [] a \in {"claude", "vscode", "powershell"} -> {"switch"}
               [] OTHER -> {}
Keys == KeysOf(kind)

\* What qlog writes, and what a setting may hold that qlog wrote.
codexOTelSettings(h) == [target |-> h, switch |-> "off"]
claudeCodeOTELEnvironment == [switch |-> "off"]
copilotOTelSettings == [switch |-> "off"]
Managed(k) == IF k = "target" THEN Homes ELSE {"off"}

UserValues(k) == IF k = "target" THEN {"absent", "mine"}
                 ELSE {"absent", "mine", "off"}
UserText == {"edited", "theirs"}

Untracked == [k \in Keys |-> "untracked"]
NoRecord == [present |-> FALSE, original |-> Untracked, wrote |-> Untracked]
NoRun == [name |-> "idle", home |-> "none", at |-> <<>>, steps |-> <<>>,
          ok |-> TRUE]

-----------------------------------------------------------------------------
(* A plan is the disk a command has got to, the disks its writes led       *)
(* through, and whether it is still going.                                 *)

Start(d) == [disk |-> d, steps |-> <<>>, ok |-> TRUE]
Write(p, d) ==
    IF p.ok /\ d # p.disk
      THEN [p EXCEPT !.disk = d, !.steps = Append(@, d)] ELSE p
Stop(p) == [p EXCEPT !.ok = FALSE]

\* A file qlog owns, or a block of text in a file of the user's.
applyManagedFile(p, place, text) ==
    Write(p, [p.disk EXCEPT !.blocks[place] = text])
removeManagedFile(p, place) == Write(p, [p.disk EXCEPT !.blocks[place] = "none"])

\* The state file that lists the places.
SetListed(p, places) == Write(p, [p.disk EXCEPT !.listed = places])

\* Mutant: what the user changed since is replaced as well.
RestoreAll(d) ==
    [k \in Keys |-> IF d.record.original[k] # "untracked"
                      THEN d.record.original[k] ELSE d.settings[k]]

\* Each setting that still has the value qlog wrote gets its original back.
Restore(d) ==
    [k \in Keys |-> IF /\ d.record.original[k] # "untracked"
                       /\ d.settings[k] = d.record.wrote[k]
                      THEN d.record.original[k] ELSE d.settings[k]]

-----------------------------------------------------------------------------
(* Codex: the state is written, then the config.  A setting that already   *)
(* has the desired value is not taken over.                                *)

exporterMatches(d, k, desired) == d.settings[k] = desired[k]

renderOTelRegion(d, desired) == [d EXCEPT !.settings = desired, !.file = TRUE]

updateCodexOTel(d, desired) ==
    [present |-> TRUE, wrote |-> desired,
     original |-> [k \in Keys |->
         IF d.record.original[k] # "untracked" THEN d.record.original[k]
         ELSE IF exporterMatches(d, k, desired) THEN "untracked"
         ELSE d.settings[k]]]

applyCodexOTelConfig(p, desired) ==
    LET recorded == [p.disk EXCEPT !.record = updateCodexOTel(p.disk, desired)]
    IN IF \A k \in Keys : exporterMatches(p.disk, k, desired) THEN p
       ELSE Write(Write(p, recorded), renderOTelRegion(recorded, desired))

restoreCodexOTel(d) == [d EXCEPT !.settings = Restore(d)]

\* Without a config file the removal fails for as long as there is a state.
removeCodexOTelConfig(p) ==
    LET restored == restoreCodexOTel(p.disk)
    IN IF ~p.disk.record.present THEN p
       ELSE IF ~p.disk.file THEN Stop(p)
       ELSE Write(Write(p, restored), [restored EXCEPT !.record = NoRecord])

\* With a state the exporter must be the one on record.
codexOTelConfigured(d) ==
    /\ d.record.present
    /\ d.settings = d.record.wrote

-----------------------------------------------------------------------------
(* Claude Code: the state is written, then settings.json with the hooks.   *)
(* What a setting held is recorded once and not again while the state      *)
(* exists.  Without a state the values of an older qlog are removed.       *)

\* Mutant: a second install records what the first one wrote.
trackPreviousAgain(d, desired) ==
    [present |-> TRUE, wrote |-> desired, original |-> d.settings]

trackPrevious(d, desired) ==
    [present |-> TRUE, wrote |-> desired,
     original |-> IF d.record.present THEN d.record.original ELSE d.settings]

claudeSettingsWithQlogHooks(d, h) ==
    [d EXCEPT !.settings = claudeCodeOTELEnvironment, !.file = TRUE,
              !.blocks["owned"] = h]

claudeSettingsHasQlog(d) == d.blocks["owned"] \in Homes

\* Mutant: an install does not look at whose the hooks are that it finds.
applySettingsOnce(p, h) ==
    LET recorded == [p.disk EXCEPT !.record =
                         trackPrevious(p.disk, claudeCodeOTELEnvironment)]
    IN IF p.disk.record.present /\ ~p.disk.file THEN Stop(p)
       ELSE IF /\ p.disk.settings = claudeCodeOTELEnvironment
               /\ claudeSettingsHasQlog(p.disk) THEN p
       ELSE Write(Write(p, recorded), claudeSettingsWithQlogHooks(recorded, h))

\* With a state the values on record are first taken out of settings.json.
\* Without the file that fails, at every install for as long as the state is
\* there, and nothing is written.
applySettings(p, h) ==
    LET recorded == [p.disk EXCEPT !.record =
                         trackPrevious(p.disk, claudeCodeOTELEnvironment)]
    IN IF p.disk.record.present /\ ~p.disk.file THEN Stop(p)
       ELSE IF p.disk = claudeSettingsWithQlogHooks(p.disk, h) THEN p
       ELSE Write(Write(p, recorded), claudeSettingsWithQlogHooks(recorded, h))

claudeSettingsWithoutQlogHooks(d) ==
    [d EXCEPT !.blocks["owned"] = "none",
              !.settings = IF d.record.present THEN Restore(d)
                           ELSE [k \in Keys |-> IF @[k] \in Managed(k)
                                                  THEN "absent" ELSE @[k]]]

\* When there is nothing to remove, a state that is left stays.
removeSettings(p) ==
    LET next == claudeSettingsWithoutQlogHooks(p.disk)
    IN IF ~p.disk.file \/ next = p.disk THEN p
       ELSE Write(Write(p, next), [next EXCEPT !.record = NoRecord])

-----------------------------------------------------------------------------
(* VS Code: settings and state are one file, replaced by a rename.  The    *)
(* launcher of a home is written before the state that names it.           *)

writeVSCodeSettings(p, values, record) ==
    Write(p, [p.disk EXCEPT !.settings = values, !.record = record,
                            !.file = TRUE])

applyVSCodeSettings(p) ==
    writeVSCodeSettings(p, copilotOTelSettings,
                        trackPrevious(p.disk, copilotOTelSettings))

removeVSCodeSettings(p) ==
    IF ~p.disk.file THEN p
    ELSE writeVSCodeSettings(p, Restore(p.disk), NoRecord)

\* The launcher is as qlog wrote it, whatever home it is for.
launcherHashMatches(d, h) == d.blocks[h] = h

\* The launchers on record, but for the one kept, that nobody edited go.
removeLaunchers(p, places) ==
    Write(p, [p.disk EXCEPT !.blocks = [q \in Places |->
        IF q \in places /\ launcherHashMatches(p.disk, q) THEN "none" ELSE @[q]]])

installLauncher(p, h) ==
    removeLaunchers(SetListed(applyManagedFile(p, h, h), {h}),
                    p.disk.listed \ {h})

uninstallLauncher(p) == SetListed(removeLaunchers(p, p.disk.listed), {})

launcherInstalled(d) == \E h \in d.listed : launcherHashMatches(d, h)

\* A launcher somebody edited stops the install before it writes anything.
vscodeInstall(p, h) ==
    IF p.disk.blocks[h] \in UserText THEN Stop(p)
    ELSE installLauncher(applyVSCodeSettings(p), h)

vscodeUninstall(p) == uninstallLauncher(removeVSCodeSettings(p))

vscodeStatus(d) == d.settings = copilotOTelSettings /\ launcherInstalled(d)

-----------------------------------------------------------------------------
(* Copilot CLI: a block in the shell profiles.  An incomplete block        *)
(* ("edited") stops the command; on a POSIX shell so does a wrapper of the *)
(* user's own.  The POSIX state names one profile, the PowerShell state    *)
(* collects them.                                                          *)

hasUnmanagedCopilotWrapper(d, profile) == d.blocks[profile] = "theirs"

withCopilotCLIPosixBlock(p, profile, h) ==
    IF p.disk.blocks[profile] = "edited" THEN Stop(p)
    ELSE applyManagedFile(p, profile, h)

withoutCopilotCLIPosixBlock(p, profile) ==
    IF p.disk.blocks[profile] = "edited" THEN Stop(p)
    ELSE IF p.disk.blocks[profile] \in Homes
           THEN applyManagedFile(p, profile, "none")
    ELSE p

\* Mutant: without a state no profile is looked at.
posixListedProfiles(d) == ToSet(Profiles) \cap d.listed

posixManagedProfiles(d) ==
    IF d.listed = {} THEN ToSet(Profiles) ELSE ToSet(Profiles) \cap d.listed

installPosixProfile(p, h, profile) ==
    IF hasUnmanagedCopilotWrapper(p.disk, profile) THEN Stop(p)
    ELSE SetListed(withCopilotCLIPosixBlock(p, profile, h), {profile})

uninstallPosixProfile(p) ==
    SetListed(FoldLeft(LAMBDA q, profile :
                           IF profile \in posixManagedProfiles(p.disk)
                             THEN withoutCopilotCLIPosixBlock(q, profile) ELSE q,
                       p, Profiles),
              {})

posixProfileInstalled(d) ==
    \E q \in posixManagedProfiles(d) : d.blocks[q] \in Homes

withCopilotCLIProfileBlock(p, profile, h) ==
    IF p.disk.blocks[profile] = "edited" THEN Stop(p)
    ELSE applyManagedFile(p, profile, h)

withoutCopilotCLIProfileBlock(p, profile) ==
    IF p.disk.blocks[profile] = "edited" THEN Stop(p)
    ELSE IF p.disk.blocks[profile] \in Homes
           THEN removeManagedFile(p, profile)
    ELSE p

installWindowsPowerShellProfile(p, h, at) ==
    FoldLeft(LAMBDA q, profile :
                 LET written == withCopilotCLIProfileBlock(q, profile, h)
                 IN SetListed(written, written.disk.listed \cup {profile}),
             p, at)

uninstallWindowsPowerShellProfile(p) ==
    SetListed(FoldLeft(LAMBDA q, profile :
                           IF profile \in p.disk.listed
                             THEN withoutCopilotCLIProfileBlock(q, profile) ELSE q,
                       p, Profiles),
              {})

windowsPowerShellProfileInstalled(d, at) ==
    \A q \in ToSet(at) : d.blocks[q] \in Homes

\* The user environment an older qlog set: what still has its value goes,
\* then the record of the names.
cleanupLegacyWindowsUserEnvironment(p) ==
    LET cleared == [p.disk EXCEPT !.settings = Restore(p.disk)]
    IN IF ~p.disk.record.present THEN p
       ELSE Write(Write(p, cleared), [cleared EXCEPT !.record = NoRecord])

\* The hooks are written last and removed first.
copilotInstall(p, h, at) ==
    applyManagedFile(IF kind = "posix" THEN installPosixProfile(p, h, at[1])
                     ELSE cleanupLegacyWindowsUserEnvironment(
                              installWindowsPowerShellProfile(p, h, at)),
                     "owned", h)

copilotUninstall(p) ==
    LET unhooked == removeManagedFile(p, "owned") IN
    IF kind = "posix" THEN uninstallPosixProfile(unhooked)
    ELSE cleanupLegacyWindowsUserEnvironment(
             uninstallWindowsPowerShellProfile(unhooked))

copilotStatus(d, at) ==
    /\ d.blocks["owned"] \in Homes
    /\ IF kind = "posix" THEN posixProfileInstalled(d)
       ELSE windowsPowerShellProfileInstalled(d, at)

-----------------------------------------------------------------------------
(* OpenCode: a plugin file.  Its uninstall is the one of the adapter it    *)
(* embeds, which looks for a marker the plugin does not have.              *)

openCodeInstall(p, h) == applyManagedFile(p, "owned", h)
openCodeUninstall(p) == p
openCodeStatus(d) == d.blocks["owned"] \in Homes

-----------------------------------------------------------------------------
(* The commands.                                                           *)

Install(d, h, at) ==
    LET p == Start(d) IN
    CASE kind = "codex" -> applyCodexOTelConfig(p, codexOTelSettings(h))
      [] kind = "claude" -> applySettings(p, h)
      [] kind = "vscode" -> vscodeInstall(p, h)
      [] kind \in {"posix", "powershell"} -> copilotInstall(p, h, at)
      [] kind = "opencode" -> openCodeInstall(p, h)

Uninstall(d) ==
    LET p == Start(d) IN
    CASE kind = "codex" -> removeCodexOTelConfig(p)
      [] kind = "claude" -> removeSettings(p)
      [] kind = "vscode" -> vscodeUninstall(p)
      [] kind \in {"posix", "powershell"} -> copilotUninstall(p)
      [] kind = "opencode" -> openCodeUninstall(p)

\* What Status calls installed, at the profiles it looks at.
Installed(d, at) ==
    CASE kind = "codex" -> codexOTelConfigured(d)
      [] kind = "claude" -> claudeSettingsHasQlog(d)
      [] kind = "vscode" -> vscodeStatus(d)
      [] kind \in {"posix", "powershell"} -> copilotStatus(d, at)
      [] kind = "opencode" -> openCodeStatus(d)

\* Profiles an install may find: the one of the shell, those PowerShell
\* reports.
posixProfilePath == {<<"p1">>, <<"p2">>}
copilotCLIPowerShellProfilePaths == {<<"p1">>, <<"p1", "p2">>}

ProfilesFound ==
    CASE kind = "posix" -> posixProfilePath
      [] kind = "powershell" -> copilotCLIPowerShellProfilePaths
      [] OTHER -> {<<>>}

\* The places that hold text of qlog which no record names, so that an
\* uninstall does not look there.  Without a state the uninstall on a POSIX
\* shell looks at every profile.
Unnamed(d) ==
    CASE kind = "codex" ->
           {h \in Homes : /\ d.settings["target"] = h
                          /\ d.record.wrote["target"] # h}
      [] kind = "vscode" ->
           {h \in Homes : launcherHashMatches(d, h)} \ d.listed
      [] kind = "posix" ->
           {q \in ToSet(Profiles) : d.listed # {} /\ d.blocks[q] \in Homes}
               \ d.listed
      [] kind = "powershell" ->
           {q \in ToSet(Profiles) : d.blocks[q] \in Homes} \ d.listed
      [] OTHER -> {}

\* Once qlog has met its own exporter in the config of Codex and taken it for
\* the user's there is no way back.
Loose(d) == Unnamed(d) \cup (IF kind = "codex" THEN loose ELSE {})

-----------------------------------------------------------------------------
AdapterInit ==
    /\ kind \in Kinds
    /\ \E s \in [Keys -> {"absent", "mine", "off"}],
          text \in [Places -> {"none", "theirs"}],
          legacy \in BOOLEAN :
         /\ \A k \in Keys : s[k] \in UserValues(k)
         /\ \A q \in Places :
              text[q] = "theirs" => \/ kind = "vscode" /\ q \in Homes
                                    \/ kind = "posix" /\ q \in ToSet(Profiles)
         /\ legacy => kind = "powershell" /\ s["switch"] = "off"
         /\ disk = [file |-> kind # "posix", settings |-> s, blocks |-> text,
                    listed |-> {},
                    record |-> IF legacy
                                 THEN [present |-> TRUE,
                                       original |-> [k \in Keys |-> "absent"],
                                       wrote |-> s]
                                 ELSE NoRecord]
         /\ chosen = [k \in Keys |-> IF legacy THEN {"absent"} ELSE {s[k]}]
    /\ run = NoRun
    /\ last = "none"
    /\ loose = {}
    /\ counters = [commands |-> 0, edits |-> 0, cuts |-> 0]

Begin(name, h, at, plan) ==
    /\ run.name = "idle"
    /\ counters.commands < MaxCommands
    /\ run' = [name |-> name, home |-> h, at |-> at, steps |-> plan.steps,
               ok |-> plan.ok]
    /\ last' = "none"
    /\ counters' = [counters EXCEPT !.commands = @ + 1]
    /\ UNCHANGED <<kind, disk, chosen, loose>>

BeginInstall ==
    \E h \in Homes, at \in ProfilesFound :
        Begin("install", h, at, Install(disk, h, at))

BeginUninstall == Begin("uninstall", "none", <<>>, Uninstall(disk))

\* The next write of the command.
WriteNext ==
    /\ run.name # "idle"
    /\ run.steps # <<>>
    /\ disk' = Head(run.steps)
    /\ run' = [run EXCEPT !.steps = Tail(@)]
    /\ last' = "none"
    /\ UNCHANGED <<kind, chosen, loose, counters>>

\* The command returns.
Finish ==
    /\ run.name # "idle"
    /\ run.steps = <<>>
    /\ last' = IF run.ok THEN run.name ELSE "failed"
    /\ loose' = IF run.name = "install" THEN Loose(disk) ELSE loose
    /\ run' = [NoRun EXCEPT !.home = run.home, !.at = run.at]
    /\ UNCHANGED <<kind, disk, chosen, counters>>

\* The process is killed between two writes, or a write fails before it has
\* changed its file and the command gives up.
CutOff ==
    /\ run.steps # <<>>
    /\ counters.cuts < MaxCuts
    /\ loose' = IF run.name = "install" THEN Loose(disk) ELSE loose
    /\ run' = NoRun
    /\ last' = "none"
    /\ counters' = [counters EXCEPT !.cuts = @ + 1]
    /\ UNCHANGED <<kind, disk, chosen>>

-----------------------------------------------------------------------------
(* The user.                                                               *)

Edit(d, values) ==
    /\ run.name = "idle"
    /\ counters.edits < MaxEdits
    /\ d # disk
    /\ disk' = d
    /\ chosen' = values
    /\ last' = "none"
    /\ counters' = [counters EXCEPT !.edits = @ + 1]
    /\ UNCHANGED <<kind, run, loose>>

\* A setting is written into the file, which may be new.
WithSetting(d, k, v) == [d EXCEPT !.settings[k] = v, !.file = TRUE]

EditSetting ==
    \E k \in Keys : \E v \in UserValues(k) :
        Edit(WithSetting(disk, k, v), [chosen EXCEPT ![k] = @ \cup {v}])

\* A launcher is changed; a line of a block is lost; or the text is deleted.
EditText ==
    \E q \in Places \ {"owned"}, text \in {"edited", "none"} :
        /\ disk.blocks[q] \in Homes \cup {"edited"}
        /\ Edit([disk EXCEPT !.blocks[q] = text], chosen)

\* The settings file is deleted, with the hooks and the state it holds.
DeleteFile ==
    /\ kind \in {"codex", "claude", "vscode"}
    /\ Edit([disk EXCEPT !.file = FALSE,
                         !.settings = [k \in Keys |-> "absent"],
                         !.blocks["owned"] = "none",
                         !.record = IF kind = "vscode" THEN NoRecord ELSE @],
            [k \in Keys |-> chosen[k] \cup {"absent"}])

AdapterNext ==
    \/ BeginInstall \/ BeginUninstall \/ WriteNext \/ Finish \/ CutOff
    \/ EditSetting \/ EditText \/ DeleteFile

AdapterSpec == AdapterInit /\ [][AdapterNext]_adapterVars
=============================================================================
