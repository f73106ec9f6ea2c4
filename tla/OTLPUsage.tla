----------------------------- MODULE OTLPUsage ------------------------------
(***************************************************************************)
(* Usage reported by the spans of an OTLP trace.                           *)
(*                                                                         *)
(* Agents export the spans of a trace in requests of any size and order,   *)
(* and export a request again when it is not answered.  The collector      *)
(* handles one request at a time (collectorIngestMu).  Every span becomes  *)
(* a raw event; one that carries usage becomes a model call as well, in a  *)
(* second transaction, and in a third the calls that an ancestor and a     *)
(* descendant span report alike are excluded from consumption, at the      *)
(* ancestor.  A span without usage is only lineage.                        *)
(*                                                                         *)
(* One trace is modelled; its spans have distinct ids.  A usage value      *)
(* stands for provider, model and the six token counts.  The ledger starts *)
(* without calls from before raw events were linked to calls; interactions *)
(* and tool calls change nothing here, and the numbering, chaining and     *)
(* deduplication of raw events is in module Ledger.                        *)
(***************************************************************************)
EXTENDS Naturals, FiniteSets

CONSTANTS
    Spans,     \* the spans of the trace
    Usages,    \* what a span may report
    Lineage,   \* it reports nothing
    NoSpan,    \* the parent of a root, and the span of an idle handler
    MaxCrashes \* bound on crashes

ASSUME OTLPAssumption ==
    /\ IsFiniteSet(Spans)
    /\ NoSpan \notin Spans
    /\ Lineage \notin Usages
    /\ MaxCrashes \in Nat

VARIABLES
    parent,   \* parent_span_id of each span
    usage,    \* what each span reports
    stored,   \* spans whose raw event is in the ledger
    calls,    \* spans with a model call
    excluded, \* calls with usage_reconciled = 1
    pc,       \* "idle", "append", "normalize" or "reconcile"
    request,  \* the spans of the request that is handled
    todo,     \* those still to be appended
    current,  \* the span that is normalised
    acked,    \* spans whose export was answered with success at least once
    crashes   \* crashes so far

traceVars == <<parent, usage>>
vars == <<parent, usage, stored, calls, excluded, pc, request, todo, current,
          acked, crashes>>

-----------------------------------------------------------------------------
(* The span graph, as far as it is stored.                                 *)

Children(s) == {c \in stored : parent[c] = s}

\* The common table expression ancestry: the least set that holds the children
\* of s and the children of its members.
Descendants(s) ==
    {d \in stored :
        \A D \in SUBSET stored :
            Children(s) \subseteq D /\ (\A x \in D : Children(x) \subseteq D) => d \in D}

\* Mutant: only the parent is compared.
DuplicatesOfChildren ==
    {p \in calls : \E c \in calls : c \in Children(p) /\ p # c /\ usage[p] = usage[c]}

\* Mutant: a cycle is not looked for.
DuplicatesInCycles ==
    {p \in calls : \E c \in calls :
        c \in Descendants(p) /\ p # c /\ usage[p] = usage[c]}

\* Calls a descendant reports again, unless the two are in a cycle.
Duplicates ==
    {p \in calls : \E c \in calls :
        /\ c \in Descendants(p)
        /\ p # c
        /\ p \notin Descendants(c)
        /\ usage[p] = usage[c]}

-----------------------------------------------------------------------------
(* Handling a request.                                                     *)

\* An export whose answer is lost is repeated, so it may hold any spans.
Receive(spans) ==
    /\ pc = "idle"
    /\ spans # {}
    /\ pc' = "append"
    /\ request' = spans
    /\ todo' = spans
    /\ UNCHANGED <<traceVars, stored, calls, excluded, current, acked, crashes>>

\* A span that was stored before is suppressed and normalised all the same.
AppendRawEvent(s) ==
    /\ pc = "append"
    /\ s \in todo
    /\ stored' = stored \union {s}
    /\ todo' = todo \ {s}
    /\ current' = s
    /\ pc' = "normalize"
    /\ UNCHANGED <<traceVars, calls, excluded, request, acked, crashes>>

SkipNormalization ==
    /\ pc = "normalize"
    /\ usage[current] = Lineage \/ current \in calls
    /\ current' = NoSpan
    /\ pc' = "append"
    /\ UNCHANGED <<traceVars, stored, calls, excluded, request, todo, acked, crashes>>

RecordModelCall ==
    /\ pc = "normalize"
    /\ usage[current] # Lineage
    /\ current \notin calls
    /\ calls' = calls \union {current}
    /\ pc' = "reconcile"
    /\ UNCHANGED <<traceVars, stored, excluded, request, todo, current, acked, crashes>>

ReconcileOTLPUsage ==
    /\ pc = "reconcile"
    /\ excluded' = excluded \union Duplicates
    /\ current' = NoSpan
    /\ pc' = "append"
    /\ UNCHANGED <<traceVars, stored, calls, request, todo, acked, crashes>>

Exit ==
    /\ pc' = "idle"
    /\ request' = {}
    /\ todo' = {}
    /\ current' = NoSpan

Respond ==
    /\ pc = "append"
    /\ todo = {}
    /\ Exit
    /\ acked' = acked \union request
    /\ UNCHANGED <<traceVars, stored, calls, excluded, crashes>>

\* The collector dies, or the request is cancelled, between two transactions.
Crash ==
    /\ pc # "idle"
    /\ crashes < MaxCrashes
    /\ crashes' = crashes + 1
    /\ Exit
    /\ UNCHANGED <<traceVars, stored, calls, excluded, acked>>

-----------------------------------------------------------------------------
Init ==
    /\ parent \in [Spans -> Spans \union {NoSpan}]
    /\ usage \in [Spans -> Usages \union {Lineage}]
    /\ stored = {}
    /\ calls = {}
    /\ excluded = {}
    /\ pc = "idle"
    /\ request = {}
    /\ todo = {}
    /\ current = NoSpan
    /\ acked = {}
    /\ crashes = 0

Next ==
    \/ \E spans \in SUBSET Spans : Receive(spans)
    \/ \E s \in Spans : AppendRawEvent(s)
    \/ SkipNormalization
    \/ RecordModelCall
    \/ ReconcileOTLPUsage
    \/ Respond
    \/ Crash

Spec == Init /\ [][Next]_vars

=============================================================================
