------------------------ MODULE AllocationProperties -------------------------
(***************************************************************************)
(* What makes the allocation of usage correct.                             *)
(***************************************************************************)
EXTENDS Allocation

CONSTANT TokensOf  \* the tokens a call may have used

Methods == {"direct", "split", "manual", "revert", "legacy"}

\* qlog verify accepts the allocations of every ledger the program has written
\* or upgraded (AppendAllocationRevision, migrate, VerifyLedger).
AllocationsVerify ==
    Ready => \A c \in Calls :
                VerifyAllocations(revisions[c], heads[c], projection[c])

\* One revision gone from a history, one with other shares or another method,
\* or a projection that lost a row: qlog verify reports each of them
\* (verifyAllocationRevisionChain, -Contents, -Heads, verifyAllocationProjection).
TamperingIsDetected ==
    Ready => \A c \in Calls : \A k \in DOMAIN revisions[c] :
        /\ ~ VerifyAllocations(RemoveAt(revisions[c], k), heads[c], projection[c])
        /\ \A request \in Requests, method \in Methods :
              LET changed == [revisions[c] EXCEPT ![k].allocations = request,
                                                  ![k].method = method]
              IN  VerifyAllocations(changed, heads[c], projection[c]) =>
                     /\ method = revisions[c][k].method
                     /\ BySlug(request) = BySlug(revisions[c][k].allocations)
        /\ \A row \in projection[c] :
              ~ VerifyAllocations(revisions[c], heads[c], projection[c] \ {row})

\* However often a call was split, repaired or reverted, the usage reported
\* for its projects adds up to what the call used: no token is lost or counted
\* twice to rounding (Usage, apportionShare).
SharesAddUp ==
    \A c \in Calls, tokens \in TokensOf :
        projection[c] # {} =>
            \A order \in ReportOrders(projection[c]) :
                FoldLeft(+, 0, SharesOf(tokens, order)) = tokens

\* The projection holds nothing the history does not: rebuilding it changes no
\* report (RebuildAllocationProjection; ADR-007).
ProjectionIsRebuildable ==
    Ready => \A c \in Calls : projection[c] = Rebuilt(revisions[c])

\* A request that is repeated with its key, by whoever asks and whatever came
\* in between, makes no second revision (AppendAllocationRevision).
OneRevisionPerKey ==
    \A c \in Calls : \A j, k \in DOMAIN revisions[c] :
        revisions[c][j].key = revisions[c][k].key => j = k

\* An assignment never overrides an allocation: it only ever opens a history
\* (AssignUnattributedModelCall).
AssignmentsOpenHistories ==
    \A c \in Calls : \A k \in DOMAIN revisions[c] :
        revisions[c][k].key = "assign" => k = 1

\* A revert restores what was in force before the revision that is taken back,
\* even if more decisions were made since or while it ran
\* (RevertAllocationRevision).
RevertRestores ==
    [][AppendRevert =>
          LET c == reverting.call
          IN  Last(revisions'[c]).allocations =
                 BySlug(revisions[c][reverting.selected - 1].allocations)]_vars

=============================================================================
