---------------------------- MODULE MCCorrelation ----------------------------
(* A Copilot turn seen as spans, a Claude span, a Codex log record without a  *)
(* trace, a hook's prompt, a plugin's tool, and lines of a file that tell of  *)
(* the Copilot turn.                                                          *)
EXTENDS CorrelationProperties

MCSpan(service, trace, span, root, usage) ==
    [service |-> service, trace |-> trace, span |-> span, session |-> "s", root |-> root,
     model |-> ~root, usage |-> usage]

MCSpans == {MCSpan("copilot", "t", "1", TRUE, NoUsage), MCSpan("copilot", "t", "2", FALSE, 7),
            MCSpan("claude-code", "u", "1", FALSE, 7), MCSpan("codex", "", "", FALSE, 5)}

MCEvent(via, source, kind, session, upstream, parent, usage, holds) ==
    [via |-> via, source |-> source, kind |-> kind, agent |-> TRUE, session |-> session,
     upstream |-> upstream, parent |-> parent, usage |-> usage, holds |-> holds]

MCPluginEvents ==
    {MCEvent("hook", "claude-code-hook", "prompt", "s", <<"p">>, None, NoUsage, {"text"}),
     MCEvent("plugin", "opencode-plugin", "tool", "s", <<"c">>, <<"t">>, NoUsage, {})}

MCLines ==
    {MCEvent("import", "ndjson", "prompt", "s", <<"t">>, None, NoUsage, {"hash", "redacted"}),
     MCEvent("import", "ndjson", "model", "r", None, <<"t">>, 7, {})}

\* Bound.  The mode decides what is kept of a prompt, a cut decides which rows are linked: a
\* behaviour has one or the other.
MCBound == counters.changes + counters.crashes <= 1

MCLegacy == <<[session |-> "s", usage |-> 7]>>

=============================================================================
