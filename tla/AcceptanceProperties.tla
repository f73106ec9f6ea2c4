------------------------- MODULE AcceptanceProperties -------------------------
(***************************************************************************)
(* What the acceptance gate promises (docs/EXTERNAL-ACCEPTANCE.md), on the *)
(* packages that were ever published.                                      *)
(***************************************************************************)
EXTENDS Acceptance

RunStages == {"idle", "evaluating", "checking", "reserving", "publishing", "committing",
              "over"}

\* The state is well formed; a boundary that is used or reserved has been begun completely, and
\* a run that publishes holds the reservations of all its boundaries.
TypeOK ==
    /\ clock \in 1..MaxTime /\ broken \in BOOLEAN
    /\ used \cup reserved \subseteq {b \in Boundaries : boundary[b].stage = "ready"}
    /\ taken \subseteq Outputs /\ settled \subseteq Boundaries
    /\ \A r \in Runs : /\ run[r].stage \in RunStages
                       /\ run[r].stage = "publishing" => run[r].mine = run[r].all
                       /\ run[r].stage \in {"reserving", "publishing"} =>
                              run[r].mine \subseteq reserved

\* Source evidence that a package claims was appended after the boundary, is counted, and is dated
\* between the boundary and the package; for an agent whose contract asks for it, so is lifecycle
\* evidence of the same session.  (evaluateAcceptanceBoundaries; FutureDated is excluded.)
EvidenceFollowsBoundary ==
    \A p \in published : \A e \in p.package.manifest.evidence :
        e.source =>
            LET after(part) == {i \in RowsOf(e.agent, part) :
                                   i > boundary[e.boundary].sequence /\ InWindow(i, e.started, e.ended)}
            IN  \E i \in after("model") :
                    /\ ledger[i].call
                    /\ e.agent \in Correlated =>
                           \E j \in after("lifecycle") :
                               ledger[j].what.session = ledger[i].what.session

\* No package uses a boundary that was published by a run which was over when this one began,
\* however that run ended: the used file or the reservation of a publication is there for good.
PublishedBoundaryIsSpent ==
    \A p \in published : p.ids \cap p.settled = {}

Sealed(p, manifest) ==
    [p EXCEPT !.manifest = manifest, !.sums = [files |-> p.files, manifest |-> manifest]]

\* What a run writes, inspect accepts, unless the ledger is broken and no boundary was given.
IsAccepted(p) ==
    (p.files["diagnostics.json"] = <<PASS>> \/ p.manifest.evidence # {})
        => inspectAcceptancePackage(p)

\* An exchanged file is noticed, and a status that does not follow from the evidence is refused
\* even if all checksums are made anew; no package is accepted as PASS.
IsReproducible(p) ==
    LET m == p.manifest
    IN  /\ inspectAcceptancePackage(p) => m.external # PASS
        /\ \A n \in DOMAIN p.files :
               ~inspectAcceptancePackage([p EXCEPT !.files[n] = <<>>])
        /\ \A s \in {PASS, FAIL, PENDING} :
               /\ s # acceptanceExternalStatus(m.statuses) =>
                      ~inspectAcceptancePackage(Sealed(p, [m EXCEPT !.external = s]))
               /\ \A a \in Agents : s # m.statuses[a] =>
                      ~inspectAcceptancePackage(Sealed(p, [m EXCEPT !.statuses[a] = s]))

\* Every package that is published is accepted by inspect, and only as it was derived.
PackagesAreInspectable ==
    [][\A p \in published' \ published : IsAccepted(p.package) /\ IsReproducible(p.package)]_published

=============================================================================
