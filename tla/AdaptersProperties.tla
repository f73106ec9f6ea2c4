------------------------- MODULE AdaptersProperties -------------------------
(***************************************************************************)
(* What installing and uninstalling an adapter owes to the user of the     *)
(* files.                                                                  *)
(***************************************************************************)
EXTENDS Adapters

Ours(d) == {q \in Places : d.blocks[q] \in Homes}

\* The values a setting may have that are not qlog's.  Without a state the
\* uninstall of Claude Code takes a value an older qlog also wrote for one of
\* those, and removes it though the user may have set it.
Theirs(k) == IF kind = "claude" /\ "off" \in chosen[k]
               THEN chosen[k] \cup {"absent"} ELSE chosen[k]

\* Between whichever two writes a command was cut off, and however often, a
\* setting whose value is not one the user chose has its original on record,
\* and an original on record is a value the user chose and never one of qlog's own.  The codex
\* state is written before the config and the two can name different homes;
\* that case is left to the installs of `loose`.
OriginalsOnRecord ==
    (kind = "codex" => loose = {}) =>
        \A k \in Keys :
            /\ disk.record.original[k] \in Theirs(k) \cup {"untracked"}
            /\ disk.settings[k] \notin Theirs(k) =>
                   disk.record.present /\ disk.record.original[k] # "untracked"

\* An uninstall that returns without an error has removed everything of
\* qlog: no setting has a value only qlog gave it, no place holds its text,
\* and Status no longer says installed; whatever was installed, reinstalled
\* for another home, cut off and run again before, as long as no install was
\* left unfinished at a place no record names.  The plugin of OpenCode, which
\* its uninstall does not know, is not counted.
UninstallIsComplete ==
    (last = "uninstall" /\ loose = {} /\ kind # "opencode") =>
        /\ \A k \in Keys : disk.settings[k] \in Theirs(k)
        /\ Ours(disk) = {}
        /\ disk.listed = {}
        /\ ~Installed(disk, <<"p1">>)

\* The agent calls the collector of the home h: what an install for h was to
\* put on the disk is there, and the list names it.  `at` are the profiles the
\* install found.
SetUpFor(d, h, at) ==
    CASE kind = "codex" -> d.settings = codexOTelSettings(h)
      [] kind = "claude" -> /\ d.settings = claudeCodeOTELEnvironment
                            /\ d.blocks["owned"] = h
      [] kind = "vscode" -> /\ d.settings = copilotOTelSettings
                            /\ d.blocks[h] = h
                            /\ d.listed = {h}
      [] kind = "posix" -> /\ d.blocks["owned"] = h
                           /\ d.blocks[at[1]] = h
                           /\ d.listed = {at[1]}
      [] kind = "powershell" -> /\ d.blocks["owned"] = h
                                /\ \A q \in ToSet(at) : d.blocks[q] = h
                                /\ ToSet(at) \subseteq d.listed
      [] kind = "opencode" -> d.blocks["owned"] = h

\* After an install that returns without an error Status says installed, the
\* agent is set up for the home the install was run for, and nothing on the
\* disk is left of a home qlog was installed for before: whatever was cut off
\* or edited in between, as long as no install was left unfinished at a place
\* no record names.  Only a PowerShell profile that an earlier install found
\* and this one did not keeps the block of its own home.
InstallIsVisible ==
    (last = "install" /\ loose = {}) =>
        /\ Installed(disk, run.at)
        /\ SetUpFor(disk, run.home, run.at)
        /\ \A q \in Ours(disk) :
              \/ disk.blocks[q] = run.home
              \/ kind = "powershell" /\ q \notin ToSet(run.at)

\* No command changes a text of the user's, a launcher the user edited or an
\* incomplete block, and an uninstall changes no setting whose value is not
\* one qlog writes.
UserEditsSurvive ==
    [][run.name # "idle" =>
          /\ \A q \in Places :
               disk.blocks[q] \in UserText => disk'.blocks[q] = disk.blocks[q]
          /\ \A k \in Keys :
               (run.name = "uninstall" /\ disk'.settings[k] # disk.settings[k])
                   => disk.settings[k] \in Managed(k)]_adapterVars
=============================================================================
