------------------------------ MODULE Acceptance ------------------------------
(***************************************************************************)
(* The acceptance gate (cli/acceptance*.go, internal/acceptance): an       *)
(* operator begins a one-use boundary, lets an agent work, and packages    *)
(* what the ledger shows since.  Several runs may be under way, and the    *)
(* collector writes while they read: a run opens a snapshot store, whose   *)
(* statements each see the ledger of their moment.                         *)
(*                                                                         *)
(* A boundary is begun under the writer lock, so that its position, its    *)
(* start and its marker row are one step.  Time is the order of readings;  *)
(* the calls, sources and metrics of a report are the rows they come from. *)
(***************************************************************************)
EXTENDS Integers, Sequences, FiniteSets

CONSTANTS Agents,       \* the stable agents of the registry
          Supported,    \* those with an acceptance contract
          Correlated,   \* those whose contract also asks for lifecycle evidence
          Installed,    \* those that are available and installed
          Reachable,    \* does the collector answer?
          Evidence,     \* what the sources may deliver, see EvidenceRecord
          Sessions,
          Boundaries,
          Runs,
          Outputs,
          Window,       \* MaxRealAgentEvidenceWindow
          MaxTime,      \* bound on the clock
          FutureDated   \* may a source date its evidence later than now?

EvidenceRecord == [agent : Agents, part : {"model", "lifecycle"}, session : Sessions,
                   version : {"plain", "path", "secret"}, id : Nat]

ASSUME AgentsAssumption ==
    /\ Agents # {}
    /\ Supported \subseteq Agents /\ Correlated \subseteq Agents /\ Installed \subseteq Agents
    /\ Reachable \in BOOLEAN
    /\ Evidence \subseteq EvidenceRecord
    /\ Window \in Nat /\ MaxTime \in Nat \ {0} /\ FutureDated \in BOOLEAN

PASS    == "PASS"
FAIL    == "FAIL"
PENDING == "PENDING_EXTERNAL_E2E"
READY   == "READY_FOR_EXTERNAL_E2E"

VARIABLES clock,      \* the wall clock
          ledger,     \* the raw events with, if counted, their model call
          broken,     \* has something outside the program damaged the ledger?
          boundary,   \* the boundaries and their files
          used,       \* boundaries with a .used file
          reserved,   \* boundaries with a .reservation file
          taken,      \* output files that exist
          run,        \* the acceptance runs
          published,  \* every package that was ever written, and
          settled     \* the boundaries of those whose run is over (for the properties only)

vars == <<clock, ledger, broken, boundary, used, reserved, taken, run, published,
          settled>>

-----------------------------------------------------------------------------
(* What the store answers. *)

\* The rows of the ledger that carry evidence of an agent.
RowsOf(agent, part) ==
    {i \in DOMAIN ledger : /\ ledger[i].kind = "evidence"
                           /\ ledger[i].what.agent = agent
                           /\ ledger[i].what.part = part}

\* sourceModelCallCount of CapabilityReport: the calls from the agent's contracted source.
sourceModelCallCount(agent) == Cardinality({i \in RowsOf(agent, "model") : ledger[i].call})

InWindow(i, from, to) == from < ledger[i].occurred /\ ledger[i].occurred < to

HasRecentAdapterEvidence(agent, from, to) ==
    \E i \in RowsOf(agent, "model") : ledger[i].call /\ InWindow(i, from, to)

\* Mutant: the lifecycle evidence may be of any time.
HasCorrelatedAdapterEvidenceEver(agent, from, to) ==
    \E i \in RowsOf(agent, "model"), j \in RowsOf(agent, "lifecycle") :
        /\ ledger[i].call /\ InWindow(i, from, to)
        /\ ledger[i].what.session = ledger[j].what.session

HasCorrelatedAdapterEvidence(agent, from, to) ==
    \E i \in RowsOf(agent, "model"), j \in RowsOf(agent, "lifecycle") :
        /\ ledger[i].call /\ InWindow(i, from, to)
        /\ InWindow(j, from, to)
        /\ ledger[i].what.session = ledger[j].what.session

hasAdapterEvidence(agent, from, to) ==
    /\ HasRecentAdapterEvidence(agent, from, to)
    /\ agent \in Correlated => HasCorrelatedAdapterEvidence(agent, from, to)

RawEventIDsAfterAcceptanceBoundary(b) ==
    {i \in DOMAIN ledger : i > boundary[b].sequence /\ ledger[i].kind = "evidence"}

HasAcceptanceBoundaryMarker(b) ==
    \E i \in DOMAIN ledger : ledger[i].kind = "marker" /\ ledger[i].what = b

\* What a report shows of the ledger once acceptanceSafeReport has replaced paths.
acceptanceSafeReport ==
    {IF ledger[i].what.version = "path" THEN "hash" ELSE ledger[i].what.version :
        i \in {j \in DOMAIN ledger : ledger[j].kind = "evidence" /\ ledger[j].call}}

acceptancePackagePrivacyStatus(texts) == IF "secret" \in texts THEN FAIL ELSE PASS

-----------------------------------------------------------------------------
(* Evidence, statuses and the package, as the run derives and inspect re-derives them. *)

\* EvaluateRealAgentEvidence: the status is derived, never taken from the input.
EvaluatedStatus(e) ==
    IF FAIL \in {e.ledger, e.privacy, e.replay} THEN FAIL
    ELSE IF e.source /\ {e.ledger, e.privacy, e.replay} = {PASS} THEN PASS
    ELSE PENDING

\* A source claim must be backed by the capture quality and metrics that were observed.
ClaimIsBacked(e) == e.source => e.observed

Evaluated(e) == [e EXCEPT !.status = EvaluatedStatus(e)]

\* applyRealAgentEvidence: the status of every stable agent, from the evidence alone.
applyRealAgentEvidence(evidence) ==
    [a \in Agents |->
        IF \E e \in evidence : e.agent = a THEN (CHOOSE e \in evidence : e.agent = a).status
        ELSE PENDING]

acceptanceExternalStatus(statuses) ==
    IF \E a \in Agents : statuses[a] = FAIL THEN FAIL
    ELSE IF \A a \in Agents : statuses[a] = PASS THEN PASS
    ELSE PENDING

acceptanceAgentReadiness(reachable) ==
    [a \in Agents |-> IF reachable /\ a \in Installed THEN READY ELSE PENDING]

acceptanceReadiness(readiness) ==
    IF \A a \in Agents : readiness[a] = READY THEN READY ELSE PENDING

Always == {"collector.json", "diagnostics.json", "report.csv", "report.json", "report.txt",
           "sessions.json"}

validAcceptanceEntryName(name) ==
    name \in Always \cup {"real-agent-evidence.json", "manifest.json", "SHA256SUMS"}

\* writeAcceptancePackageWithBoundaries: the files, the manifest that hashes them and the
\* checksums of both.  Hashes are injective: a hash is what is hashed.
Package(texts, ledgerStatus, evidence) ==
    LET statuses  == applyRealAgentEvidence(evidence)
        readiness == acceptanceAgentReadiness(Reachable)
        names     == Always \cup IF evidence = {} THEN {} ELSE {"real-agent-evidence.json"}
        content(n) == CASE n \in {"report.csv", "report.json", "report.txt"} -> <<texts>>
                        [] n = "sessions.json" -> <<{}>>
                        [] n = "collector.json" -> <<Reachable>>
                        [] n = "diagnostics.json" -> <<ledgerStatus>>
                        [] OTHER -> <<evidence>>
        files     == [n \in names |-> content(n)]
        manifest  == [files |-> files, evidence |-> evidence, reachable |-> Reachable,
                      statuses |-> statuses, readiness |-> readiness,
                      aggregate |-> acceptanceReadiness(readiness),
                      external |-> IF ledgerStatus = FAIL THEN FAIL
                                   ELSE acceptanceExternalStatus(statuses)]
    IN  [files |-> files, manifest |-> manifest,
         sums |-> [files |-> files, manifest |-> manifest]]

verifyAcceptanceChecksums(p) == p.sums = [files |-> p.files, manifest |-> p.manifest]

validateAcceptanceRenderedReports(p) ==
    p.files["report.txt"] = p.files["report.json"] /\ p.files["report.csv"] = p.files["report.json"]

\* Evidence in a package must be of this binary, unreplayed, in order, and reproducible.
EvidenceIsReproducible(p) ==
    LET evidence == p.manifest.evidence
    IN  /\ evidence # {} => /\ "real-agent-evidence.json" \in DOMAIN p.files
                            /\ p.files["real-agent-evidence.json"] = <<evidence>>
        /\ \A e, f \in evidence : e # f => e.boundary # f.boundary /\ e.agent # f.agent
        /\ \A e \in evidence : /\ e.replay = PENDING
                               /\ e.started < e.ended
                               /\ ClaimIsBacked(e)
                               /\ e.status = EvaluatedStatus(e)

\* Mutant: the overall status is not derived again.
validateAcceptanceAgentStatuses(m) ==
    /\ m.readiness = acceptanceAgentReadiness(m.reachable)
    /\ \A e \in m.evidence : e.agent \in Agents
    /\ m.statuses = applyRealAgentEvidence(m.evidence)
    /\ m.aggregate = acceptanceReadiness(m.readiness)

validateAcceptanceManifestStatuses(m) ==
    /\ m.readiness = acceptanceAgentReadiness(m.reachable)
    /\ \A e \in m.evidence : e.agent \in Agents
    /\ m.statuses = applyRealAgentEvidence(m.evidence)
    /\ m.aggregate = acceptanceReadiness(m.readiness)
    /\ m.external = acceptanceExternalStatus(m.statuses)

inspectAcceptancePackage(p) ==
    /\ \A n \in DOMAIN p.files : validAcceptanceEntryName(n)
    /\ Always \subseteq DOMAIN p.files
    /\ validateAcceptanceRenderedReports(p)
    /\ verifyAcceptanceChecksums(p)
    /\ p.manifest.files = p.files
    /\ EvidenceIsReproducible(p)
    /\ validateAcceptanceManifestStatuses(p.manifest)
    /\ p.files["diagnostics.json"] \in {<<PASS>>, <<FAIL>>}
    /\ p.files["diagnostics.json"] = <<FAIL>> => p.manifest.external = FAIL
    /\ acceptancePackagePrivacyStatus(p.files["report.json"][1]) = PASS

-----------------------------------------------------------------------------
(* The ledger and the boundaries. *)

NoBoundary == [stage |-> "none"]

Idle == [stage |-> "idle"]

Init ==
    /\ clock = 1
    /\ ledger = <<>>
    /\ broken \in BOOLEAN
    /\ boundary = [b \in Boundaries |-> NoBoundary]
    /\ used = {} /\ reserved = {} /\ taken = {}
    /\ run = [r \in Runs |-> Idle]
    /\ published = {} /\ settled = {}

Tick ==
    /\ clock < MaxTime
    /\ clock' = clock + 1
    /\ UNCHANGED <<ledger, broken, boundary, used, reserved, taken, run, published, settled>>

\* A source delivers evidence once.  It may be late and, if FutureDated, early; its call is
\* counted in a second transaction, that a crash can delay until the event is delivered again.
RecordEvidence(e, occurred) ==
    /\ \A i \in DOMAIN ledger : ledger[i].what # e
    /\ FutureDated \/ occurred <= clock
    /\ ledger' = Append(ledger, [kind |-> "evidence", what |-> e, occurred |-> occurred,
                                 call |-> FALSE])
    /\ UNCHANGED <<clock, broken, boundary, used, reserved, taken, run, published, settled>>

RecordCall(i) ==
    /\ ledger[i].kind = "evidence" /\ ledger[i].what.part = "model" /\ ~ledger[i].call
    /\ ledger' = [ledger EXCEPT ![i].call = TRUE]
    /\ UNCHANGED <<clock, broken, boundary, used, reserved, taken, run, published, settled>>

\* createAcceptanceBoundary up to the marker: all of it under the writer lock.
BeginBoundary(b, agent) ==
    /\ boundary[b].stage = "none"
    /\ agent \in Supported
    /\ boundary' = [boundary EXCEPT ![b] =
           [stage |-> "marked", agent |-> agent, started |-> clock, events |-> Len(ledger),
            sequence |-> Len(ledger), calls |-> sourceModelCallCount(agent)]]
    /\ ledger' = Append(ledger, [kind |-> "marker", what |-> b, occurred |-> clock,
                                 call |-> FALSE])
    /\ UNCHANGED <<clock, broken, used, reserved, taken, run, published, settled>>

\* The file is created and written last; its name is printed after that.
WriteBoundaryFile(b) ==
    /\ boundary[b].stage = "marked"
    /\ boundary' = [boundary EXCEPT ![b].stage = "ready"]
    /\ UNCHANGED <<clock, ledger, broken, used, reserved, taken, run, published, settled>>

\* The process dies in between: the marker stays, the file is missing or empty.
CrashBegin(b) ==
    /\ boundary[b].stage = "marked"
    /\ boundary' = [boundary EXCEPT ![b].stage = "lost"]
    /\ UNCHANGED <<clock, ledger, broken, used, reserved, taken, run, published, settled>>

-----------------------------------------------------------------------------
(* A run.  `ids` are the boundaries still to be handled in the current loop. *)

SetRun(r, value) ==
    run' = [run EXCEPT ![r] = value]

\* Everything before the boundaries: reports, sessions, agents, collector, verification.
Gather(r, ids) ==
    /\ run[r].stage = "idle"
    /\ SetRun(r, [stage |-> "evaluating", all |-> ids, ids |-> ids, evidence |-> {},
                  advanced |-> {}, texts |-> acceptanceSafeReport,
                  ledger |-> IF broken THEN FAIL ELSE PASS, cutoff |-> clock,
                  mine |-> {}, out |-> {}, settled |-> settled])
    /\ UNCHANGED <<clock, ledger, broken, boundary, used, reserved, taken, published, settled>>

\* loadAcceptanceBoundary, ValidateRealAgentBoundary, the marker, one boundary per agent.
BoundaryIsUsable(r, b) ==
    /\ boundary[b].stage = "ready"
    /\ boundary[b].started < run[r].cutoff
    /\ run[r].cutoff - boundary[b].started <= Window
    /\ HasAcceptanceBoundaryMarker(b)
    /\ \A e \in run[r].evidence : e.agent # boundary[b].agent

\* The position: more rows than at the boundary, and more calls of the agent.
ReadPosition(r, b) ==
    /\ run[r].stage = "evaluating" /\ b \in run[r].ids /\ run[r].advanced = {}
    /\ BoundaryIsUsable(r, b)
    /\ SetRun(r, [run[r] EXCEPT !.advanced =
           {<<b, /\ Len(ledger) > boundary[b].events
                 /\ sourceModelCallCount(boundary[b].agent) > boundary[b].calls>>}])
    /\ UNCHANGED <<clock, ledger, broken, boundary, used, reserved, taken, published, settled>>

\* The rest of evaluateAcceptanceBoundaries for one boundary.
ReadEvidence(r, b, advanced) ==
    /\ run[r].stage = "evaluating" /\ <<b, advanced>> \in run[r].advanced
    /\ LET from   == boundary[b].started
           agent  == boundary[b].agent
           found  == /\ advanced
                     /\ \E i \in RawEventIDsAfterAcceptanceBoundary(b) : ledger[i].call
                     /\ hasAdapterEvidence(agent, from, run[r].cutoff)
           item   == Evaluated(
                       [boundary |-> b, agent |-> agent, started |-> from, ended |-> run[r].cutoff,
                        source |-> found, ledger |-> run[r].ledger, privacy |-> PENDING,
                        replay |-> PENDING,
                        observed |-> HasRecentAdapterEvidence(agent, from, run[r].cutoff),
                        status |-> PENDING])
       IN  /\ ClaimIsBacked(item)
           /\ SetRun(r, [run[r] EXCEPT !.evidence = @ \cup {item}, !.advanced = {},
                                       !.ids = @ \ {b}])
    /\ UNCHANGED <<clock, ledger, broken, boundary, used, reserved, taken, published, settled>>

\* The package is put together in memory, unless the scan finds something private in it.
Assemble(r) ==
    /\ run[r].stage = "evaluating" /\ run[r].ids = {}
    /\ acceptancePackagePrivacyStatus(run[r].texts) = PASS
    /\ LET evidence == {Evaluated([e EXCEPT !.privacy = PASS]) : e \in run[r].evidence}
       IN  SetRun(r, [run[r] EXCEPT !.stage = "checking", !.evidence = evidence])
    /\ UNCHANGED <<clock, ledger, broken, boundary, used, reserved, taken, published, settled>>

\* reserveAcceptanceBoundaries looks for used files first ...
CheckUsed(r) ==
    /\ run[r].stage = "checking"
    /\ run[r].all \cap used = {}
    /\ SetRun(r, [run[r] EXCEPT !.stage = "reserving", !.ids = run[r].all])
    /\ UNCHANGED <<clock, ledger, broken, boundary, used, reserved, taken, published, settled>>

\* ... and then creates one reservation after the other.
Reserve(r, b) ==
    /\ run[r].stage = "reserving" /\ b \in run[r].ids
    /\ b \notin reserved
    /\ reserved' = reserved \cup {b}
    /\ SetRun(r, [run[r] EXCEPT !.ids = @ \ {b}, !.mine = @ \cup {b}])
    /\ UNCHANGED <<clock, ledger, broken, boundary, used, taken, published, settled>>

\* writeAcceptanceZIP looks at the destination before it writes a temporary file.
CheckOutput(r, o) ==
    /\ run[r].stage = "reserving" /\ run[r].ids = {}
    /\ o \notin taken
    /\ SetRun(r, [run[r] EXCEPT !.stage = "publishing", !.out = {o}])
    /\ UNCHANGED <<clock, ledger, broken, boundary, used, reserved, taken, published, settled>>

\* The rename publishes the package.
Publish(r, o) ==
    /\ run[r].stage = "publishing" /\ o \in run[r].out
    /\ taken' = taken \cup {o}
    /\ published' = published \cup
           {[output |-> o, ids |-> run[r].all, settled |-> run[r].settled,
             package |-> Package(run[r].texts, run[r].ledger, run[r].evidence)]}
    /\ SetRun(r, [run[r] EXCEPT !.stage = "committing", !.ids = run[r].all])
    /\ UNCHANGED <<clock, ledger, broken, boundary, used, reserved, settled>>

\* commitAcceptanceReservations: a reservation is renamed to the used file.
Commit(r, b) ==
    /\ run[r].stage = "committing" /\ b \in run[r].ids
    /\ b \in reserved
    /\ reserved' = reserved \ {b}
    /\ used' = used \cup {b}
    /\ SetRun(r, [run[r] EXCEPT !.ids = @ \ {b}])
    /\ UNCHANGED <<clock, ledger, broken, boundary, taken, published, settled>>

\* The run is over; what it published counts as settled.
End(r) ==
    /\ SetRun(r, [stage |-> "over"])
    /\ settled' = settled \cup IF run[r].stage = "committing" THEN run[r].all ELSE {}

Finish(r) ==
    /\ run[r].stage = "committing" /\ run[r].ids = {}
    /\ End(r)
    /\ UNCHANGED <<clock, ledger, broken, boundary, used, reserved, taken, published>>

\* Mutant: the reservations of other runs are released as well.
FailReleasingAll(r) ==
    /\ run[r].stage \notin {"idle", "over"}
    /\ reserved' = IF run[r].stage = "committing" THEN reserved ELSE reserved \ run[r].all
    /\ End(r)
    /\ UNCHANGED <<clock, ledger, broken, boundary, used, taken, published>>

\* Mutant: reservations are released even when the package is out.
FailReleasingAfterPublication(r) ==
    /\ run[r].stage \notin {"idle", "over"}
    /\ reserved' = reserved \ run[r].mine
    /\ End(r)
    /\ UNCHANGED <<clock, ledger, broken, boundary, used, taken, published>>

\* Any refusal or error: before the publication the run's own reservations are released,
\* after it they are kept.
Fail(r) ==
    /\ run[r].stage \notin {"idle", "over"}
    /\ reserved' = IF run[r].stage = "committing" THEN reserved ELSE reserved \ run[r].mine
    /\ End(r)
    /\ UNCHANGED <<clock, ledger, broken, boundary, used, taken, published>>

Crash(r) ==
    /\ run[r].stage \notin {"idle", "over"}
    /\ End(r)
    /\ UNCHANGED <<clock, ledger, broken, boundary, used, reserved, taken, published>>

RunStep(r) ==
    \/ \E ids \in SUBSET Boundaries : Gather(r, ids)
    \/ \E b \in Boundaries : ReadPosition(r, b) \/ Reserve(r, b) \/ Commit(r, b)
    \/ \E b \in Boundaries, advanced \in BOOLEAN : ReadEvidence(r, b, advanced)
    \/ Assemble(r) \/ CheckUsed(r)
    \/ \E o \in Outputs : CheckOutput(r, o) \/ Publish(r, o)
    \/ Finish(r) \/ Fail(r) \/ Crash(r)

Next ==
    \/ Tick
    \/ \E e \in Evidence, occurred \in (clock - 1)..(clock + 1) : RecordEvidence(e, occurred)
    \/ \E i \in DOMAIN ledger : RecordCall(i)
    \/ \E b \in Boundaries :
           \/ \E agent \in Agents : BeginBoundary(b, agent)
           \/ WriteBoundaryFile(b) \/ CrashBegin(b)
    \/ \E r \in Runs : RunStep(r)

Spec == Init /\ [][Next]_vars

=============================================================================
