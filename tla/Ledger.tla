------------------------------- MODULE Ledger -------------------------------
(***************************************************************************)
(* The local SQLite ledger and the processes that write evidence into it.  *)
(*                                                                         *)
(* A writer is one official process (a hook, an import command, one        *)
(* request of the collector): it opens the database, which takes the       *)
(* exclusive writer lock, delivers a batch of events one line after the    *)
(* other, reports the batch as ingested and closes.  Each line appends a   *)
(* raw event in one transaction and normalises it into a model call in     *)
(* another, so a crash can fall between the two; the source then delivers  *)
(* the batch again.  A writer may instead record an acceptance boundary.   *)
(*                                                                         *)
(* Every transaction is one action: SQLite makes it visible as a whole or  *)
(* not at all.  Crash also stands for a request context cancelled between  *)
(* two statements, which leaves the same database behind.  The audit hash  *)
(* is taken to be injective and is kept as the tuple that is hashed.       *)
(* Of a model call, the raw event and the total are kept: what the same    *)
(* line writes besides (session, interaction, tool call, allocation, the   *)
(* reconciliation of OTLP spans) changes neither.  suppression_count and   *)
(* the received-at columns are left out: ingestion never reads them back.  *)
(* The ledger starts empty, so it holds no call from before raw events     *)
(* were linked to calls.                                                   *)
(***************************************************************************)
EXTENDS Audit, FiniteSetsExt

CONSTANTS
    Writers,       \* processes that open the ledger for writing
    Identities,    \* canonical ingestion identities of delivered events
    Boundaries,    \* identities of acceptance boundaries (random challenges)
    ModelCalls,    \* identities whose event type is model.call
    Malformed,     \* model calls whose token counts are rejected
    Padded,        \* identities whose source version has outer blanks
    Chains,        \* source / session pairs
    ChainOf,       \* the chain an identity belongs to
    BoundaryChain, \* the qlog-owned chain of acceptance boundaries
    TokenCounts,   \* totals a delivered model call may carry
    MaxTotal,      \* stands for math.MaxInt64
    Unknown,       \* a nil cache
    MaxCrashes,    \* bound on crashes
    ClockAdvances  \* every transaction reads a later wall clock than the last

Keys == Identities \union Boundaries

ASSUME LedgerAssumption ==
    /\ Identities \intersect Boundaries = {}
    /\ Malformed \subseteq ModelCalls
    /\ ModelCalls \subseteq Identities
    /\ Padded \subseteq Identities
    /\ ChainOf \in [Identities -> Chains]
    /\ BoundaryChain \in Chains
    /\ \A i \in Identities : ChainOf[i] # BoundaryChain
    /\ TokenCounts \subseteq Nat
    /\ MaxTotal \in Nat
    /\ Unknown \notin Nat
    /\ MaxCrashes \in Nat
    /\ ClockAdvances \in BOOLEAN

VARIABLES
    events,         \* raw_events, in event_sequence order
    dedup,          \* raw_event_dedup: row number of an identity, 0 for none
    calls,          \* model_calls in order, with the row number of their raw event
    pc,             \* where a writer is in its handler
    batch,          \* the delivery a writer is working on
    todo,           \* the lines of it that are still to be appended
    raw,            \* row number of the event a writer is normalising
    recordedTokens, \* a writer's cached aggregate (Store.recordedTokens)
    position,       \* ledger position a writer read for a boundary
    acked,          \* identities whose delivery was reported as ingested
    crashes         \* crashes so far

ledgerVars == <<events, dedup, calls>>
writerVars == <<pc, batch, todo, raw, recordedTokens, position>>
vars == <<events, dedup, calls, pc, batch, todo, raw, recordedTokens,
          position, acked, crashes>>

States == {"closed", "open", "normalize", "boundary", "done", "failed"}

-----------------------------------------------------------------------------
(* Appending a row.                                                        *)

\* Mutant: the head of the ledger, not of the chain.
PreviousHashesOfAnyChain(chain) ==
    IF events = <<>> THEN {NoHash} ELSE {events[Len(events)].hash}

PreviousHashes(chain) ==
    IF Heads(events, chain) = {} THEN {NoHash}
    ELSE {events[k].hash : k \in Heads(events, chain)}

NextSequence == Len(events) + 1  \* COALESCE(MAX(event_sequence), 0) + 1

\* Only the order of clock readings matters.  A clock that always advances
\* gives the n-th transaction the n-th reading; one that is stepped back, or
\* too coarse, may repeat or precede an earlier reading.
ClockReadings ==
    IF ClockAdvances THEN {Len(events) + 1} ELSE 1..(Len(events) + 1)

SourceVersion(key) == IF key \in Padded THEN "padded" ELSE "trimmed"
TrimSpace(version) == "trimmed"

\* The hash covers the source version as delivered, the row stores it trimmed.
NewRow(key, chain, boundary, created, prev) ==
    [chain |-> chain, key |-> key, version |-> TrimSpace(SourceVersion(key)),
     boundary |-> boundary, seq |-> NextSequence, created |-> created,
     prev |-> prev,
     hash |-> Digest(chain, key, SourceVersion(key), boundary, NextSequence, prev)]

\* The rest of the transaction once the identity is reserved in
\* raw_event_dedup: read the head of the chain, number, hash and insert.
InsertRawEvent(key, chain, boundary) ==
    /\ \E created \in ClockReadings, prev \in PreviousHashes(chain) :
          events' = Append(events, NewRow(key, chain, boundary, created, prev))
    /\ dedup' = [dedup EXCEPT ![key] = NextSequence]

HasModelCallForRawEvent(row) == \E c \in 1..Len(calls) : calls[c].raw = row

UsageTotal == MapThenSumSet(LAMBDA c : calls[c].tokens, 1..Len(calls))

-----------------------------------------------------------------------------
(* Opening and closing the store.                                          *)

\* The writer lock is exclusive and not waited for: a process that finds it
\* held fails to open and delivers nothing.
WriterLockFree == \A w \in Writers : pc[w] = "closed"

Open(w, delivery) ==
    /\ WriterLockFree
    /\ pc' = [pc EXCEPT ![w] = "open"]
    /\ batch' = [batch EXCEPT ![w] = delivery]
    /\ todo' = [todo EXCEPT ![w] = delivery]
    /\ UNCHANGED <<ledgerVars, raw, recordedTokens, position, acked, crashes>>

\* The process is gone, its locks are released and its memory is lost.
Exit(w) ==
    /\ pc' = [pc EXCEPT ![w] = "closed"]
    /\ batch' = [batch EXCEPT ![w] = {}]
    /\ todo' = [todo EXCEPT ![w] = {}]
    /\ raw' = [raw EXCEPT ![w] = 0]
    /\ recordedTokens' = [recordedTokens EXCEPT ![w] = Unknown]
    /\ position' = [position EXCEPT ![w] = 0]

Close(w) ==
    /\ pc[w] \in {"done", "failed"}
    /\ Exit(w)
    /\ UNCHANGED <<ledgerVars, acked, crashes>>

Crash(w) ==
    /\ crashes < MaxCrashes
    /\ pc[w] # "closed"
    /\ Exit(w)
    /\ crashes' = crashes + 1
    /\ UNCHANGED <<ledgerVars, acked>>

-----------------------------------------------------------------------------
(* Ingesting a batch, line by line.                                        *)

AppendRawEvent(w, i) ==
    /\ pc[w] = "open"
    /\ i \in todo[w]
    /\ dedup[i] = 0
    /\ InsertRawEvent(i, ChainOf[i], 0)
    /\ raw' = [raw EXCEPT ![w] = NextSequence]
    /\ todo' = [todo EXCEPT ![w] = @ \ {i}]
    /\ pc' = [pc EXCEPT ![w] = "normalize"]
    /\ UNCHANGED <<calls, batch, recordedTokens, position, acked, crashes>>

\* Mutant: a duplicate counts as done and is not normalised again.
SuppressAsDone(w, i) ==
    /\ pc[w] = "open"
    /\ i \in todo[w]
    /\ dedup[i] # 0
    /\ todo' = [todo EXCEPT ![w] = @ \ {i}]
    /\ UNCHANGED <<ledgerVars, pc, batch, raw, recordedTokens, position, acked,
                   crashes>>

\* Mutant: a duplicate is an error.
SuppressAsError(w, i) ==
    /\ pc[w] = "open"
    /\ i \in todo[w]
    /\ dedup[i] # 0
    /\ pc' = [pc EXCEPT ![w] = "failed"]
    /\ UNCHANGED <<ledgerVars, batch, todo, raw, recordedTokens, position, acked,
                   crashes>>

\* The identity is already reserved: nothing is appended and the caller gets
\* the id of the existing event, which it normalises again.
SuppressDuplicate(w, i) ==
    /\ pc[w] = "open"
    /\ i \in todo[w]
    /\ dedup[i] # 0
    /\ raw' = [raw EXCEPT ![w] = dedup[i]]
    /\ todo' = [todo EXCEPT ![w] = @ \ {i}]
    /\ pc' = [pc EXCEPT ![w] = "normalize"]
    /\ UNCHANGED <<ledgerVars, batch, recordedTokens, position, acked, crashes>>

\* Nothing to count: not a model call, or its call is already recorded.
SkipNormalization(w) ==
    /\ pc[w] = "normalize"
    /\ \/ events[raw[w]].key \notin ModelCalls
       \/ HasModelCallForRawEvent(raw[w])
    /\ pc' = [pc EXCEPT ![w] = "open"]
    /\ UNCHANGED <<ledgerVars, batch, todo, raw, recordedTokens, position,
                   acked, crashes>>

\* The cached aggregate, read from model_calls the first time it is needed.
KnownTotal(w) ==
    IF recordedTokens[w] = Unknown THEN UsageTotal ELSE recordedTokens[w]

PendingCall(w) ==
    /\ pc[w] = "normalize"
    /\ events[raw[w]].key \in ModelCalls
    /\ ~ HasModelCallForRawEvent(raw[w])

RecordModelCall(w, tokens) ==
    /\ PendingCall(w)
    /\ events[raw[w]].key \notin Malformed
    /\ KnownTotal(w) + tokens <= MaxTotal
    /\ calls' = Append(calls, [raw |-> raw[w], tokens |-> tokens])
    /\ recordedTokens' = [recordedTokens EXCEPT ![w] = KnownTotal(w) + tokens]
    /\ pc' = [pc EXCEPT ![w] = "open"]
    /\ UNCHANGED <<events, dedup, batch, todo, raw, position, acked, crashes>>

\* A malformed call fails before its transaction begins, or inside it once the
\* aggregate has been read; either way nothing of it is stored, and the raw
\* event stays.
RejectModelCall(w) ==
    /\ PendingCall(w)
    /\ events[raw[w]].key \in Malformed
    /\ \E read \in {recordedTokens[w], KnownTotal(w)} :
          recordedTokens' = [recordedTokens EXCEPT ![w] = read]
    /\ pc' = [pc EXCEPT ![w] = "failed"]
    /\ UNCHANGED <<ledgerVars, batch, todo, raw, position, acked, crashes>>

\* Mutant: the new aggregate is cached before it is checked.
RejectAfterCaching(w, tokens) ==
    /\ PendingCall(w)
    /\ events[raw[w]].key \notin Malformed
    /\ KnownTotal(w) + tokens > MaxTotal
    /\ recordedTokens' = [recordedTokens EXCEPT ![w] = KnownTotal(w) + tokens]
    /\ pc' = [pc EXCEPT ![w] = "failed"]
    /\ UNCHANGED <<ledgerVars, batch, todo, raw, position, acked, crashes>>

\* The aggregate would overflow: the transaction is rolled back, but the
\* aggregate it read stays cached.
RejectOverflow(w, tokens) ==
    /\ PendingCall(w)
    /\ events[raw[w]].key \notin Malformed
    /\ KnownTotal(w) + tokens > MaxTotal
    /\ recordedTokens' = [recordedTokens EXCEPT ![w] = KnownTotal(w)]
    /\ pc' = [pc EXCEPT ![w] = "failed"]
    /\ UNCHANGED <<ledgerVars, batch, todo, raw, position, acked, crashes>>

\* All lines are in: the response reports the whole batch as ingested.
Respond(w) ==
    /\ pc[w] = "open"
    /\ todo[w] = {}
    /\ acked' = acked \union batch[w]
    /\ pc' = [pc EXCEPT ![w] = "done"]
    /\ UNCHANGED <<ledgerVars, batch, todo, raw, recordedTokens, position, crashes>>

-----------------------------------------------------------------------------
(* Recording an acceptance boundary.                                       *)

CurrentRawEventSequence == Len(events)

\* Mutant: the position is read without taking the writer lock.
BeginWithoutLock(w) ==
    /\ pc[w] = "closed"
    /\ \E b \in Boundaries : dedup[b] = 0
    /\ position' = [position EXCEPT ![w] = CurrentRawEventSequence]
    /\ pc' = [pc EXCEPT ![w] = "boundary"]
    /\ UNCHANGED <<ledgerVars, batch, todo, raw, recordedTokens, acked, crashes>>

\* The store is opened for writing and the position of the ledger is read.
BeginAcceptanceBoundary(w) ==
    /\ WriterLockFree
    /\ \E b \in Boundaries : dedup[b] = 0
    /\ position' = [position EXCEPT ![w] = CurrentRawEventSequence]
    /\ pc' = [pc EXCEPT ![w] = "boundary"]
    /\ UNCHANGED <<ledgerVars, batch, todo, raw, recordedTokens, acked, crashes>>

\* The marker is refused as stale when the ledger has moved on, and stores
\* the sequence just below its own.
AppendAcceptanceBoundaryMarker(w, b) ==
    /\ pc[w] = "boundary"
    /\ dedup[b] = 0
    /\ position[w] \in {0, NextSequence - 1}
    /\ InsertRawEvent(b, BoundaryChain, NextSequence - 1)
    /\ pc' = [pc EXCEPT ![w] = "done"]
    /\ UNCHANGED <<calls, batch, todo, raw, recordedTokens, position, acked, crashes>>

\* What counts as having happened after the boundary in row k.
RawEventIDsAfterAcceptanceBoundary(k) ==
    {j \in 1..Len(events) : /\ events[j].seq > events[k].boundary
                            /\ events[j].key \notin Boundaries}

-----------------------------------------------------------------------------
Init ==
    /\ events = <<>>
    /\ dedup = [key \in Keys |-> 0]
    /\ calls = <<>>
    /\ pc = [w \in Writers |-> "closed"]
    /\ batch = [w \in Writers |-> {}]
    /\ todo = [w \in Writers |-> {}]
    /\ raw = [w \in Writers |-> 0]
    /\ recordedTokens = [w \in Writers |-> Unknown]
    /\ position = [w \in Writers |-> 0]
    /\ acked = {}
    /\ crashes = 0

\* One step of a handler that is running.
Handle(w) ==
    \/ \E i \in Identities : AppendRawEvent(w, i)
    \/ \E i \in Identities : SuppressDuplicate(w, i)
    \/ SkipNormalization(w)
    \/ \E tokens \in TokenCounts : RecordModelCall(w, tokens)
    \/ RejectModelCall(w)
    \/ \E tokens \in TokenCounts : RejectOverflow(w, tokens)
    \/ Respond(w)
    \/ \E b \in Boundaries : AppendAcceptanceBoundaryMarker(w, b)
    \/ Close(w)

Next ==
    \E w \in Writers :
        \/ \E delivery \in (SUBSET Identities) \ {{}} : Open(w, delivery)
        \/ BeginAcceptanceBoundary(w)
        \/ Handle(w)
        \/ Crash(w)

Spec == Init /\ [][Next]_vars

\* A source that was not told its delivery was ingested delivers it again.
Redeliver(i) == i \notin acked /\ \E w \in Writers : Open(w, {i})

FairSpec ==
    /\ Spec
    /\ \A w \in Writers : WF_vars(Handle(w))
    /\ \A i \in Identities : SF_vars(Redeliver(i))

=============================================================================
