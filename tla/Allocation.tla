----------------------------- MODULE Allocation ------------------------------
(***************************************************************************)
(* Which projects a model call's usage is allocated to.                    *)
(*                                                                         *)
(* Every decision is a revision in an append-only, hash-chained history    *)
(* per model call; usage_allocations is the current state, a projection    *)
(* that can be rebuilt from the history.  Store operations run one         *)
(* transaction at a time (the writer lock and the one connection see to    *)
(* it), but a revert reads the history in a transaction before the one it  *)
(* appends in.  A ledger from before the history is upgraded when it is    *)
(* opened, by migrations that commit one by one and by backfills that only *)
(* the process that applied a migration remembers to run.                  *)
(*                                                                         *)
(* Projects are numbered in the order of their slugs, which are unique and *)
(* never change.  Revision ids are random: a call's revisions are told     *)
(* apart by number.  Hashes are taken to be injective.                     *)
(***************************************************************************)
EXTENDS Naturals, Sequences, SequencesExt

CONSTANTS
    Calls,        \* model calls
    Projects,     \* registered projects
    Keys,         \* idempotency keys given by users
    Requests,     \* splits users ask for, in the order they write them
    Legacy,       \* allocations a ledger from before migration 014 may hold
    CrashPoints,  \* schemas at which an upgrade may be interrupted
    MaxRevisions, \* bound on the history of a call
    NoRevert      \* no revert is in progress

ASSUME AllocationAssumption ==
    /\ Projects \subseteq Nat
    /\ \A request \in Requests \union Legacy :
          request \in Seq([project : Projects, points : Nat])
    /\ CrashPoints \subseteq Nat
    /\ MaxRevisions \in Nat

VARIABLES
    recorded,    \* model calls in the ledger
    revisions,   \* allocation_revisions, per call by number
    heads,       \* allocation_revision_heads
    projection,  \* usage_allocations
    reverting,   \* what a revert has read
    schema,      \* number of the last migration applied
    hashPending, \* this process applied 015 and has not backfilled yet
    headPending  \* this process applied 016 and has not backfilled yet

tables == <<recorded, revisions, heads, projection>>
upgrade == <<schema, hashPending, headPending>>
vars == <<tables, reverting, upgrade>>

Whole == 10000  \* basis points
NoHash == <<>>
NoHead == [number |-> 0, hash |-> NoHash]
LastMigration == 17

-----------------------------------------------------------------------------
(* Revisions and the projection.                                           *)

PointsIn(allocations) ==
    FoldLeft(LAMBDA points, a : points + a.points, 0, allocations)

ValidateAllocations(allocations) ==
    /\ allocations # <<>>
    /\ \A k \in DOMAIN allocations : allocations[k].points \in 0..Whole
    /\ PointsIn(allocations) = Whole

\* The order revisionAllocations reads a revision in.
BySlug(allocations) ==
    SortSeq(allocations, LAMBDA a, b :
        \/ a.project < b.project
        \/ a.project = b.project /\ a.points < b.points)

\* allocationRevisionHash: the entries are hashed in an order of their own.
RevisionHash(r, previous) ==
    <<r.number, r.parent, r.key, r.method, BySlug(r.allocations), previous>>

Projected(allocations, method) ==
    {[ordinal |-> k - 1, project |-> allocations[k].project,
      points |-> allocations[k].points, method |-> method] :
        k \in DOMAIN allocations}

\* What RebuildAllocationProjection makes of a history.
Rebuilt(history) ==
    IF history = <<>> THEN {}
    ELSE Projected(BySlug(Last(history).allocations), Last(history).method)

UsedKeys(c) == {revisions[c][k].key : k \in DOMAIN revisions[c]}

NextRevision(c, allocations, key, method) ==
    LET history == revisions[c]
        previous == IF history = <<>> THEN NoHash ELSE Last(history).hash
        r == [number |-> Len(history) + 1, parent |-> Len(history), key |-> key,
              method |-> method, allocations |-> allocations, previous |-> previous]
    IN  [number |-> r.number, parent |-> r.parent, key |-> key, method |-> method,
         allocations |-> allocations, previous |-> previous,
         hash |-> RevisionHash(r, previous)]

\* Mutant: the head stays where it was.
CommitWithoutHead(c, r) ==
    /\ revisions' = [revisions EXCEPT ![c] = Append(@, r)]
    /\ projection' = [projection EXCEPT ![c] = Projected(r.allocations, r.method)]
    /\ heads' = IF r.number = 1
                THEN [heads EXCEPT ![c] = [number |-> 1, hash |-> r.hash]]
                ELSE heads

\* Mutant: the rows of the revision before are not deleted.
CommitBesides(c, r) ==
    /\ revisions' = [revisions EXCEPT ![c] = Append(@, r)]
    /\ heads' = [heads EXCEPT ![c] = [number |-> r.number, hash |-> r.hash]]
    /\ projection' = [projection EXCEPT ![c] = @ \union Projected(r.allocations, r.method)]

Commit(c, r) ==
    /\ revisions' = [revisions EXCEPT ![c] = Append(@, r)]
    /\ heads' = [heads EXCEPT ![c] = [number |-> r.number, hash |-> r.hash]]
    /\ projection' = [projection EXCEPT ![c] = Projected(r.allocations, r.method)]

-----------------------------------------------------------------------------
(* VerifyLedger: the allocation history of one call.                       *)

VerifyChain(history) ==
    \A k \in DOMAIN history :
        /\ history[k].hash # NoHash
        /\ history[k].number = k
        /\ history[k].parent = k - 1
        /\ history[k].previous = (IF k = 1 THEN NoHash ELSE history[k - 1].hash)

VerifyContents(history) ==
    \A k \in DOMAIN history :
        history[k].hash = RevisionHash(history[k], history[k].previous)

\* Mutant: a head whose history is gone is passed over.
VerifyHeadIfAny(history, head) ==
    head # NoHead /\ history # <<>> =>
        head.number >= Last(history).number

VerifyHead(history, head) ==
    head # NoHead =>
        /\ history # <<>>
        /\ head = [number |-> Last(history).number, hash |-> Last(history).hash]

VerifyProjection(history, rows) == history # <<>> => rows = Rebuilt(history)

VerifyAllocations(history, head, rows) ==
    /\ VerifyChain(history)
    /\ VerifyContents(history)
    /\ VerifyHead(history, head)
    /\ VerifyProjection(history, rows)

-----------------------------------------------------------------------------
(* Usage: every row of the projection gets its share of the call's tokens, *)
(* rows taken by ordinal and then by a random id.                          *)

\* Mutant: every share is rounded by itself.
ShareAlone(tokens, offset, points) == (tokens * points) \div Whole

ApportionShare(tokens, offset, points) ==
    LET share(n) == (tokens \div Whole) * n + ((tokens % Whole) * n) \div Whole
    IN  share(offset + points) - share(offset)

ReportOrders(rows) ==
    {order \in SetToSeqs(rows) :
        \A j, k \in DOMAIN order : j < k => order[j].ordinal <= order[k].ordinal}

SharesOf(tokens, order) ==
    [k \in DOMAIN order |->
        ApportionShare(tokens, PointsIn(SubSeq(order, 1, k - 1)), order[k].points)]

-----------------------------------------------------------------------------
(* The operations of the Store.                                            *)

Ready == schema = LastMigration /\ ~ hashPending /\ ~ headPending

\* A call of a known project gets its first revision along with its row.
RecordModelCall(c, attributed, p) ==
    /\ Ready
    /\ c \notin recorded
    /\ recorded' = recorded \union {c}
    /\ IF attributed
       THEN Commit(c, NextRevision(c, <<[project |-> p, points |-> Whole]>>,
                                   "direct", "direct"))
       ELSE UNCHANGED <<revisions, heads, projection>>
    /\ UNCHANGED <<reverting, upgrade>>

\* A key that was used for the call answers with the revision it made.
AppendAllocationRevision(c, allocations, key, method, requireUnallocated) ==
    /\ Ready
    /\ ValidateAllocations(allocations)
    /\ key \notin UsedKeys(c)
    /\ c \in recorded
    /\ requireUnallocated => revisions[c] = <<>>
    /\ Len(revisions[c]) < MaxRevisions
    /\ Commit(c, NextRevision(c, allocations, key, method))
    /\ UNCHANGED <<recorded, upgrade>>

ReplaceAllocations(c, request, key) ==
    /\ AppendAllocationRevision(c, request, key, "split", FALSE)
    /\ UNCHANGED reverting

RepairModelCallAllocation(c, p, key) ==
    /\ AppendAllocationRevision(c, <<[project |-> p, points |-> Whole]>>, key,
                                "manual", FALSE)
    /\ UNCHANGED reverting

AssignUnattributedModelCall(c, p) ==
    /\ AppendAllocationRevision(c, <<[project |-> p, points |-> Whole]>>, "assign",
                                "manual", TRUE)
    /\ UNCHANGED reverting

\* Mutant: the selected revision itself is restored.
ReadReverted(c, k, key) ==
    /\ Ready
    /\ reverting = NoRevert
    /\ k \in DOMAIN revisions[c]
    /\ revisions[c][k].parent # 0
    /\ reverting' = [call |-> c, selected |-> k, key |-> key,
                     allocations |-> BySlug(revisions[c][k].allocations)]
    /\ UNCHANGED <<tables, upgrade>>

\* RevertAllocationRevision reads the parent of the revision to take back ...
ReadRevertedParent(c, k, key) ==
    /\ Ready
    /\ reverting = NoRevert
    /\ k \in DOMAIN revisions[c]
    /\ revisions[c][k].parent # 0
    /\ reverting' = [call |-> c, selected |-> k, key |-> key,
                     allocations |-> BySlug(revisions[c][revisions[c][k].parent].allocations)]
    /\ UNCHANGED <<tables, upgrade>>

\* ... and appends what it read, unless the key has been used in between.
AnswerRevert ==
    /\ reverting # NoRevert
    /\ reverting.key \in UsedKeys(reverting.call)
    /\ reverting' = NoRevert
    /\ UNCHANGED <<tables, upgrade>>

AppendRevert ==
    /\ reverting # NoRevert
    /\ AppendAllocationRevision(reverting.call, reverting.allocations, reverting.key,
                                "revert", FALSE)
    /\ reverting' = NoRevert

RebuildAllocationProjection ==
    /\ Ready
    /\ projection' = [c \in Calls |-> Rebuilt(revisions[c])]
    /\ UNCHANGED <<recorded, revisions, heads, reverting, upgrade>>

-----------------------------------------------------------------------------
(* Opening a ledger: migrations 014 to 017 and their backfills.            *)

\* Pre-014 rows by row id, as the entries of a first revision.
LegacyRevision(c) ==
    LET rows == SetToSeq(projection[c])
    IN  [number |-> 1, parent |-> 0, key |-> "legacy", method |-> "legacy",
         allocations |-> [k \in DOMAIN rows |-> [project |-> rows[k].project,
                                                 points |-> rows[k].points]],
         previous |-> NoHash, hash |-> NoHash]

\* 014 turns the projection into first revisions, 015 adds their hashes,
\* 016 the heads and 017 the ordinals, all 0.
ApplyMigration ==
    /\ schema < LastMigration
    /\ schema' = schema + 1
    /\ revisions' = IF schema' # 14 THEN revisions
                    ELSE [c \in Calls |-> IF projection[c] = {} THEN <<>>
                                          ELSE <<LegacyRevision(c)>>]
    /\ hashPending' = (hashPending \/ schema' = 15)
    /\ headPending' = (headPending \/ schema' = 16)
    /\ UNCHANGED <<recorded, heads, projection, reverting>>

BackfillRevisionHashes ==
    /\ schema = LastMigration
    /\ hashPending
    /\ hashPending' = FALSE
    /\ revisions' =
          [c \in Calls |->
              [k \in DOMAIN revisions[c] |->
                  LET r == revisions[c][k]
                  IN  IF r.hash # NoHash THEN r
                      ELSE [r EXCEPT !.hash = RevisionHash(r, r.previous)]]]
    /\ UNCHANGED <<recorded, heads, projection, reverting, schema, headPending>>

BackfillRevisionHeads ==
    /\ schema = LastMigration
    /\ ~ hashPending
    /\ headPending
    /\ headPending' = FALSE
    /\ heads' = [c \in Calls |->
                    IF revisions[c] = <<>> \/ heads[c] # NoHead THEN heads[c]
                    ELSE [number |-> Last(revisions[c]).number,
                          hash |-> Last(revisions[c]).hash]]
    /\ UNCHANGED <<recorded, revisions, projection, reverting, schema, hashPending>>

\* The process ends and the ledger is opened again.
Crash ==
    /\ Ready \/ schema \in CrashPoints
    /\ reverting' = NoRevert
    /\ hashPending' = FALSE
    /\ headPending' = FALSE
    /\ UNCHANGED <<tables, schema>>

-----------------------------------------------------------------------------
\* A new ledger, or one from before migration 014.
Init ==
    /\ schema \in {13, LastMigration}
    /\ recorded \in (IF schema = 13 THEN SUBSET Calls ELSE {{}})
    /\ \E kept \in [recorded -> Legacy \union {<<>>}] :
          projection = [c \in Calls |->
              IF c \notin recorded THEN {}
              ELSE {[row EXCEPT !.ordinal = 0] : row \in Projected(kept[c], "legacy")}]
    /\ revisions = [c \in Calls |-> <<>>]
    /\ heads = [c \in Calls |-> NoHead]
    /\ reverting = NoRevert
    /\ hashPending = FALSE
    /\ headPending = FALSE

Next ==
    \/ \E c \in Calls, attributed \in BOOLEAN, p \in Projects :
          RecordModelCall(c, attributed, p)
    \/ \E c \in Calls, request \in Requests, key \in Keys :
          ReplaceAllocations(c, request, key)
    \/ \E c \in Calls, p \in Projects, key \in Keys :
          RepairModelCallAllocation(c, p, key)
    \/ \E c \in Calls, p \in Projects : AssignUnattributedModelCall(c, p)
    \/ \E c \in Calls, k \in 1..MaxRevisions, key \in Keys : ReadRevertedParent(c, k, key)
    \/ AnswerRevert
    \/ AppendRevert
    \/ RebuildAllocationProjection
    \/ ApplyMigration
    \/ BackfillRevisionHashes
    \/ BackfillRevisionHeads
    \/ Crash

Spec == Init /\ [][Next]_vars

=============================================================================
