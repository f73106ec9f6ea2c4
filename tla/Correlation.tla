----------------------------- MODULE Correlation -----------------------------
(***************************************************************************)
(* From a delivered event to the rows that a report reads: prompts become  *)
(* interactions, and the model and tool calls that name the same upstream  *)
(* identity in the same session are linked to them, whichever comes first  *)
(* (ingest/otlp, ingest/qlogevent, ingest/jsonl and the store).            *)
(*                                                                         *)
(* Every statement of the store is a step.  The collector opens the store  *)
(* for each request, a hook without a collector URL and `qlog import` from *)
(* processes of their own; one at a time has the writer lock, and any of   *)
(* them can be cut short between two statements.  Meanwhile the operator   *)
(* changes the capture mode and hooks send events.  An upstream identity   *)
(* is the sequence of its parts, << >> when a source gives none; row       *)
(* number 0 is NULL.  Of a prompt the model keeps what is left of its      *)
(* text: the text, its hash, its redacted form.                            *)
(***************************************************************************)
EXTENDS Integers, Sequences, FiniteSets

CONSTANTS Spans,          \* OTLP spans and log records, see Span
          PluginEvents,   \* what hooks and plugins send, see Event
          Lines,          \* lines of imported NDJSON files
          Legacy,         \* model calls of an old version, without a raw event
          StartModes,     \* modes the operator may have configured at the start
          MaxDeliveries,
          MaxModeChanges,
          MaxCrashes

None == << >>
NULL == 0
NoUsage == 0       \* the usage of a span that reports none
Unnamed == -1      \* that of a call without a provider or a model: it is not counted

Modes == {"off", "hash", "full"}

Span == [service : {"copilot", "claude-code", "codex", "other"}, trace : {"", "t", "u"},
         span : {"", "1", "2", "3"}, session : STRING, root : BOOLEAN, model : BOOLEAN, usage : Nat]

Event == [via : {"otlp", "plugin", "hook", "import"}, source : STRING,
          kind : {"prompt", "model", "tool", "other"}, agent : BOOLEAN, session : STRING,
          upstream : Seq(STRING), parent : Seq(STRING), usage : Nat \cup {Unnamed},
          holds : SUBSET {"text", "hash", "redacted"}]

ASSUME DeliveriesAssumption ==
    /\ Spans \subseteq Span
    /\ PluginEvents \cup Lines \subseteq Event
    /\ Legacy \in Seq([session : STRING, usage : Nat])
    /\ StartModes \subseteq Modes

VARIABLES config,        \* the promptCapture mode of config.yaml, "torn" while it is rewritten
          inForce,       \* every mode that was ever in force
          inbox,         \* hook events on their way to the collector
          ledger,        \* raw events
          sessions,
          interactions,
          calls,         \* model calls and
          tools,         \* tool calls, in the order of their rows
          run,           \* what the two writers are doing
          counters,
          whole          \* events whose last ingestion ran to its end

vars == <<config, inForce, inbox, ledger, sessions, interactions, calls, tools, run, counters,
          whole>>

Workers == {"collector", "local"}

-----------------------------------------------------------------------------
(* What a telemetry record becomes. *)

Identity(s) ==
    IF s.trace = "" THEN None ELSE IF s.span = "" THEN <<s.trace>> ELSE <<s.trace, s.span>>

Telemetry(s, kind, upstream, parent, agent) ==
    [via |-> "otlp", source |-> "otlp-http", kind |-> kind, agent |-> agent,
     session |-> IF s.session = "" THEN s.trace ELSE s.session, upstream |-> upstream,
     parent |-> parent, usage |-> s.usage,
     holds |-> {}]

\* Without a trace, a log record is identified by what it says.
codexLogEvent(s) ==
    LET upstream == IF s.span = "" THEN <<"codex-log", s.session>> ELSE Identity(s)
        complete == s.model /\ s.usage # NoUsage /\ (s.trace = "" <=> s.span = "")
    IN  IF complete /\ (s.trace # "" \/ s.session # "")
        THEN {Telemetry(s, "model", upstream, IF s.trace = "" THEN upstream ELSE <<s.trace>>, TRUE)}
        ELSE {}

claudeSpanEvent(s) ==
    IF s.trace # "" /\ s.span # "" /\ s.model /\ s.usage # NoUsage
    THEN {Telemetry(s, "model", Identity(s), <<s.trace>>, TRUE)}
    ELSE {}

\* A wrapper without a model or without usage is kept as lineage only.
copilotSpanEvent(s) ==
    LET kind == IF s.root THEN "prompt"
                ELSE IF s.model /\ s.usage # NoUsage THEN "model" ELSE "other"
    IN  IF s.trace = "" \/ s.span = "" THEN {}
        ELSE {Telemetry(s, kind, IF s.root THEN <<s.trace>> ELSE Identity(s), <<s.trace>>, TRUE)}

otherSpanEvent(s) ==
    {Telemetry(s, IF s.root THEN "prompt" ELSE IF s.model THEN "model" ELSE "other",
               Identity(s), None, FALSE)}

spanEvents(s) ==
    CASE s.service = "copilot"     -> copilotSpanEvent(s)
      [] s.service = "claude-code" -> claudeSpanEvent(s)
      [] s.service = "codex"       -> codexLogEvent(s)
      [] OTHER                     -> otherSpanEvent(s)

Events == UNION {spanEvents(s) : s \in Spans} \cup PluginEvents \cup Lines

-----------------------------------------------------------------------------
(* What a mode leaves of a prompt.  A payload with a field of the capture  *)
(* has a label, the mode it says it was captured under.                    *)

Allowed(mode) ==
    CASE mode = "off" -> {} [] mode = "hash" -> {"hash"} [] mode = "full" -> {"hash", "redacted"}

\* A configuration that cannot be read counts as "hash".
PromptCaptureMode == IF config = "torn" THEN "hash" ELSE config

\* The fields that a handler lets through; OpenCode's may not have a redacted text.
sanitizePluginPayload(e) ==
    e.holds \ (IF e.source = "opencode-plugin" THEN {"text", "redacted"} ELSE {"text"})

\* The text of anything but a prompt is not looked at.
attachPromptCapture(e, kept, mode) ==
    LET text == e.kind = "prompt" /\ "text" \in e.holds
    IN  IF ~text /\ kept = {}
        THEN [holds |-> {}, label |-> ""]
        ELSE [label |-> mode,
              holds |-> (IF mode # "off" /\ (text \/ "hash" \in kept) THEN {"hash"} ELSE {})
                        \cup (IF mode = "full" /\ text THEN {"redacted"} ELSE {})]

\* Mutant: what is forwarded keeps its redacted text under "full".
PrepareForwardingFull(e) ==
    attachPromptCapture(e, e.holds \ {"text"}, PromptCaptureMode)

PrepareForwarding(e) ==
    attachPromptCapture(e, e.holds \ {"text"},
                        IF PromptCaptureMode = "full" THEN "hash" ELSE PromptCaptureMode)

enforcePromptCapturePolicy(payload, mode) ==
    IF payload.holds = {} /\ payload.label = "" THEN payload
    ELSE [holds |-> payload.holds \cap Allowed(mode), label |-> mode]

-----------------------------------------------------------------------------
(* The importer and the store. *)

isAgentTraceInteraction(e) ==
    /\ e.source = "otlp-http" /\ e.parent # None
    /\ e.kind = "prompt" \/ (e.kind = "model" /\ e.agent)

isCodexResponseRoot(e) == e.source = "codex-app-server" /\ e.kind = "model"

IsRoot(e) ==
    /\ e.upstream # None
    /\ e.kind = "prompt" \/ isCodexResponseRoot(e) \/ isAgentTraceInteraction(e)

RootIdentity(e) == IF isAgentTraceInteraction(e) THEN e.parent ELSE e.upstream

\* Without an identity of its own an event is identified by all it says.
CanonicalIngestionIdentity(e, payload) ==
    [source |-> e.source, session |-> e.session,
     of |-> IF e.upstream # None THEN e.upstream
            ELSE <<"content", e.kind, e.parent, e.usage, payload.holds, payload.label>>]

RowsWith(rows, P(_)) == {i \in DOMAIN rows : P(rows[i])}

CallOf(raw) == RowsWith(calls, LAMBDA c : c.raw = raw)

InteractionByUpstream(source, session, upstream) ==
    RowsWith(interactions, LAMBDA i : i.source = source /\ i.session = session
                                      /\ i.upstream = upstream)

BySessionUpstream(session, upstream) ==
    RowsWith(interactions, LAMBDA i : i.session = session /\ i.upstream = upstream)

\* Only one row will do, and none across sessions.
InteractionBySessionUpstream(session, upstream) ==
    IF session = "" \/ Cardinality(BySessionUpstream(session, upstream)) # 1 THEN NULL
    ELSE CHOOSE i \in BySessionUpstream(session, upstream) : TRUE

\* Mutant: an old row has to name the parent of the event.
LegacyCandidatesOfParent(e) ==
    RowsWith(calls, LAMBDA c : c.raw = None /\ c.session = e.session /\ c.usage = e.usage
                               /\ c.parent = e.parent)

\* The rows of an old version that say exactly what this call says.
LegacyCandidates(e) ==
    RowsWith(calls, LAMBDA c : c.raw = None /\ c.session = e.session /\ c.usage = e.usage)

\* Mutant: rows are adopted across sessions.
backfillAcrossSessions(rows, i, session, upstream) ==
    [r \in DOMAIN rows |->
        IF rows[r].link = NULL /\ upstream # None /\ rows[r].parent = upstream
        THEN [rows[r] EXCEPT !.link = i]
        ELSE rows[r]]

\* An interaction without a session or an identity adopts nothing.
backfill(rows, i, session, upstream) ==
    [r \in DOMAIN rows |->
        IF /\ rows[r].link = NULL /\ session # "" /\ upstream # None
           /\ rows[r].session = session /\ rows[r].parent = upstream
        THEN [rows[r] EXCEPT !.link = i]
        ELSE rows[r]]

-----------------------------------------------------------------------------

Idle == [pc |-> "idle"]

Started(pc, e, payload) ==
    [pc |-> pc, event |-> e, payload |-> payload, raw |-> None, link |-> NULL]

Init ==
    /\ config \in StartModes
    /\ inForce = {config}
    /\ inbox = {} /\ ledger = {} /\ sessions = {} /\ interactions = << >> /\ tools = << >>
    /\ calls = [i \in DOMAIN Legacy |-> [raw |-> None, session |-> Legacy[i].session,
                                         parent |-> None, usage |-> Legacy[i].usage, link |-> NULL]]
    /\ run = [w \in Workers |-> Idle]
    /\ counters = [deliveries |-> 0, changes |-> 0, crashes |-> 0]
    /\ whole = {}

Store == <<ledger, sessions, interactions, calls, tools>>

\* The file is truncated before it is written.
SetPromptCaptureMode ==
    /\ config # "torn" /\ counters.changes < MaxModeChanges
    /\ config' = "torn"
    /\ counters' = [counters EXCEPT !.changes = @ + 1]
    /\ UNCHANGED <<inForce, inbox, Store, run, whole>>

WriteMode(mode) ==
    /\ config = "torn"
    /\ config' = mode
    /\ inForce' = inForce \cup {mode}
    /\ UNCHANGED <<inbox, Store, run, counters, whole>>

\* A hook with a collector URL posts what the mode allows to leave its process.
Forward(e) ==
    /\ e.via = "hook" /\ counters.deliveries < MaxDeliveries
    /\ inbox' = inbox \cup {[event |-> e, payload |-> PrepareForwarding(e)]}
    /\ counters' = [counters EXCEPT !.deliveries = @ + 1]
    /\ UNCHANGED <<config, inForce, Store, run, whole>>

\* Whoever ingests has opened the store, with its writer lock, and closes it in the end.  Nobody
\* waits for the lock: a request is refused, a process of its own gives up.
WriterLockFree == \A w \in Workers : run[w].pc = "idle"

\* A request is served, or a process of its own begins.
Receive(w, e) ==
    /\ WriterLockFree /\ counters.deliveries < MaxDeliveries
    /\ w = "collector" <=> e.via \in {"otlp", "plugin"}
    /\ run' = [run EXCEPT ![w] =
           IF e.via \in {"hook", "plugin"}
           THEN Started("attach", e, [holds |-> sanitizePluginPayload(e), label |-> ""])
           ELSE Started("enforce", e, [holds |-> e.holds \ {"text"},
                                       label |-> IF e.via = "otlp" /\ e.kind = "prompt" /\ e.agent
                                                 THEN "hash" ELSE ""])]
    /\ counters' = [counters EXCEPT !.deliveries = @ + 1]
    /\ UNCHANGED <<config, inForce, inbox, Store, whole>>

ReceiveForwarded(m) ==
    /\ m \in inbox /\ WriterLockFree
    /\ inbox' = inbox \ {m}
    /\ run' = [run EXCEPT !["collector"] =
           Started("attach", [m.event EXCEPT !.holds = m.payload.holds], m.payload)]
    /\ UNCHANGED <<config, inForce, Store, counters, whole>>

\* A hook gives up after its timeout, and nothing sends the event again.
Lose(m) ==
    /\ m \in inbox
    /\ inbox' = inbox \ {m}
    /\ UNCHANGED <<config, inForce, Store, run, counters, whole>>

At(w, pc) == run[w].pc = pc

Goto(w, pc) == run' = [run EXCEPT ![w].pc = pc]

\* The rest of a step of the store: the files and the ghosts stay as they are.
Elsewhere == UNCHANGED <<config, inForce, inbox, counters, whole>>

\* The mode is read twice: to attach the capture, and by the import that follows.
Attach(w) ==
    /\ At(w, "attach")
    /\ LET r == run[w]
           attached == attachPromptCapture(r.event, r.payload.holds, PromptCaptureMode)
       IN  run' = [run EXCEPT ![w].pc = "enforce",
                              ![w].payload = IF r.payload.label = "" THEN attached
                                             ELSE [attached EXCEPT !.label = PromptCaptureMode]]
    /\ Elsewhere /\ UNCHANGED Store

Enforce(w) ==
    /\ At(w, "enforce")
    /\ run' = [run EXCEPT ![w].pc = "append", ![w].payload =
                  enforcePromptCapturePolicy(@, PromptCaptureMode)]
    /\ Elsewhere /\ UNCHANGED Store

AfterCall(e) == IF IsRoot(e) THEN "root" ELSE IF e.kind = "tool" THEN "tool" ELSE "done"

AppendRawEvent(w) ==
    /\ At(w, "append")
    /\ LET e  == run[w].event
           id == CanonicalIngestionIdentity(e, run[w].payload)
       IN  /\ ledger' = IF \E r \in ledger : r.id = id THEN ledger
                        ELSE ledger \cup {[id |-> id, holds |-> run[w].payload.holds]}
           /\ run' = [run EXCEPT ![w].raw = <<id>>,
                                 ![w].pc = IF e.kind = "model" THEN "call" ELSE AfterCall(e)]
    /\ Elsewhere /\ UNCHANGED <<sessions, interactions, calls, tools>>

EnsureSession(e) == sessions' = IF e.session = "" THEN sessions ELSE sessions \cup {e.session}

\* Mutant: the session of a call is not stored.
CheckCallWithoutSession(w) ==
    /\ At(w, "call")
    /\ LET e == run[w].event
       IN  IF CallOf(run[w].raw) # {} \/ e.usage = Unnamed
           THEN Goto(w, AfterCall(e))
           ELSE Goto(w, IF e.parent = None THEN "legacy" ELSE "exact")
    /\ Elsewhere /\ UNCHANGED Store

\* A call that was stored already is not looked at again.
CheckCall(w) ==
    /\ At(w, "call")
    /\ LET e == run[w].event
       IN  IF CallOf(run[w].raw) # {} \/ e.usage = Unnamed
           THEN /\ Goto(w, AfterCall(e))
                /\ UNCHANGED sessions
           ELSE /\ Goto(w, IF e.parent = None THEN "legacy" ELSE "exact")
                /\ EnsureSession(e)
    /\ Elsewhere /\ UNCHANGED <<ledger, interactions, calls, tools>>

BeginTool(w) ==
    /\ At(w, "tool")
    /\ EnsureSession(run[w].event)
    /\ Goto(w, IF run[w].event.parent = None THEN "record" ELSE "exact")
    /\ Elsewhere /\ UNCHANGED <<ledger, interactions, calls, tools>>

AfterLookup(e) == IF e.kind = "tool" THEN "record" ELSE "legacy"

FindExact(w) ==
    /\ At(w, "exact")
    /\ LET e     == run[w].event
           found == InteractionByUpstream(e.source, e.session, e.parent)
       IN  IF found = {} THEN Goto(w, "unique")
           ELSE \E i \in found : run' = [run EXCEPT ![w].link = i, ![w].pc = AfterLookup(e)]
    /\ Elsewhere /\ UNCHANGED Store

FindUnique(w) ==
    /\ At(w, "unique")
    /\ LET e == run[w].event
       IN  run' = [run EXCEPT ![w].link = InteractionBySessionUpstream(e.session, e.parent),
                              ![w].pc = AfterLookup(e)]
    /\ Elsewhere /\ UNCHANGED Store

\* A call of an old version takes the raw event over, if it is the only one.
LinkMatchingLegacyModelCall(w) ==
    /\ At(w, "legacy")
    /\ LET r == run[w]
           candidates == LegacyCandidates(r.event)
       IN  IF CallOf(r.raw) = {} /\ Cardinality(candidates) = 1
           THEN \E i \in candidates :
                   /\ calls' = [calls EXCEPT
                          ![i].raw    = r.raw,
                          ![i].link   = IF @ = NULL THEN r.link ELSE @,
                          ![i].parent = IF @ = None THEN r.event.parent ELSE @]
                   /\ Goto(w, AfterCall(r.event))
           ELSE /\ Goto(w, "record")
                /\ UNCHANGED calls
    /\ Elsewhere /\ UNCHANGED <<ledger, sessions, interactions, tools>>

Row(r) == [raw |-> r.raw, session |-> r.event.session, parent |-> r.event.parent,
           usage |-> r.event.usage, link |-> r.link]

RecordModelCall(w) ==
    /\ At(w, "record") /\ run[w].event.kind = "model"
    /\ calls' = IF CallOf(run[w].raw) = {} THEN Append(calls, Row(run[w])) ELSE calls
    /\ Goto(w, AfterCall(run[w].event))
    /\ Elsewhere /\ UNCHANGED <<ledger, sessions, interactions, tools>>

RecordToolCall(w) ==
    /\ At(w, "record") /\ run[w].event.kind = "tool"
    /\ tools' = IF \E t \in DOMAIN tools : tools[t].raw = run[w].raw THEN tools
                ELSE Append(tools, Row(run[w]))
    /\ Goto(w, "done")
    /\ Elsewhere /\ UNCHANGED <<ledger, sessions, interactions, calls>>

\* Mutant: a repeated prompt adopts nothing.
RecordInteractionOnce(w) ==
    /\ At(w, "root")
    /\ LET e     == run[w].event
           p     == run[w].payload
           found == InteractionByUpstream(e.source, e.session, RootIdentity(e))
           row   == [source |-> e.source, session |-> e.session, upstream |-> RootIdentity(e),
                     holds |-> p.holds, label |-> IF p.label = "" THEN "hash" ELSE p.label]
       IN  IF found # {}
           THEN /\ Goto(w, "done")
                /\ UNCHANGED interactions
           ELSE /\ interactions' = Append(interactions, row)
                /\ run' = [run EXCEPT ![w].link = Len(interactions) + 1, ![w].pc = "adopt calls"]
    /\ Elsewhere /\ UNCHANGED <<ledger, sessions, calls, tools>>

\* A repeated prompt finds its row, and adopts again.
RecordInteraction(w) ==
    /\ At(w, "root")
    /\ LET e     == run[w].event
           p     == run[w].payload
           found == InteractionByUpstream(e.source, e.session, RootIdentity(e))
       IN  /\ interactions' =
                 IF found # {} THEN interactions
                 ELSE Append(interactions,
                             [source |-> e.source, session |-> e.session,
                              upstream |-> RootIdentity(e), holds |-> p.holds,
                              label |-> IF p.label = "" THEN "hash" ELSE p.label])
           /\ \E i \in IF found # {} THEN found ELSE {Len(interactions) + 1} :
                 run' = [run EXCEPT ![w].link = i, ![w].pc = "adopt calls"]
    /\ Elsewhere /\ UNCHANGED <<ledger, sessions, calls, tools>>

AdoptCalls(w) ==
    /\ At(w, "adopt calls")
    /\ calls' = backfill(calls, run[w].link, run[w].event.session, RootIdentity(run[w].event))
    /\ Goto(w, "adopt tools")
    /\ Elsewhere /\ UNCHANGED <<ledger, sessions, interactions, tools>>

\* Tools are adopted only while there is no second candidate.
AdoptTools(w) ==
    /\ At(w, "adopt tools")
    /\ LET e == run[w].event
       IN  tools' = IF Cardinality(BySessionUpstream(e.session, RootIdentity(e))) = 1
                    THEN backfill(tools, run[w].link, e.session, RootIdentity(e))
                    ELSE tools
    /\ Goto(w, "done")
    /\ Elsewhere /\ UNCHANGED <<ledger, sessions, interactions, calls>>

Done(w) ==
    /\ At(w, "done")
    /\ run' = [run EXCEPT ![w] = Idle]
    /\ whole' = whole \cup {run[w].event}
    /\ UNCHANGED <<config, inForce, inbox, Store, counters>>

\* The process dies, its timeout strikes, or a statement fails: the rest is not done.
Abandon(w) ==
    /\ run[w].pc \notin {"idle", "done"} /\ counters.crashes < MaxCrashes
    /\ run' = [run EXCEPT ![w] = Idle]
    /\ whole' = whole \ {run[w].event}
    /\ counters' = [counters EXCEPT !.crashes = @ + 1]
    /\ UNCHANGED <<config, inForce, inbox, Store>>

Ingest(w) ==
    \/ Attach(w) \/ Enforce(w) \/ AppendRawEvent(w)
    \/ CheckCall(w) \/ BeginTool(w) \/ FindExact(w) \/ FindUnique(w)
    \/ LinkMatchingLegacyModelCall(w) \/ RecordModelCall(w) \/ RecordToolCall(w)
    \/ RecordInteraction(w) \/ AdoptCalls(w) \/ AdoptTools(w)
    \/ Done(w) \/ Abandon(w)

Next ==
    \/ SetPromptCaptureMode
    \/ \E mode \in Modes : WriteMode(mode)
    \/ \E e \in Events : Forward(e) \/ (\E w \in Workers : Receive(w, e))
    \/ \E m \in inbox : ReceiveForwarded(m) \/ Lose(m)
    \/ \E w \in Workers : Ingest(w)

Spec == Init /\ [][Next]_vars

=============================================================================
