------------------------ MODULE CorrelationProperties ------------------------
(* What the correlation of prompts and calls, and the capture of prompts,   *)
(* promise.                                                                 *)
EXTENDS Correlation

\* The shape of the rows, and the references between them: a link names a row
\* of interactions, a row's raw event is in the ledger, and a call that came
\* in by an event belongs to a session that EnsureSession has stored.
TypeOK ==
    /\ config \in Modes \cup {"torn"} /\ inForce \subseteq Modes
    /\ \A rows \in {calls, tools} : \A r \in DOMAIN rows :
          /\ rows[r].link \in {NULL} \cup DOMAIN interactions
          /\ rows[r].raw = None \/ (\E e \in ledger : rows[r].raw = <<e.id>>)
          /\ rows[r].raw # None /\ rows[r].session # "" => rows[r].session \in sessions
    /\ \A w \in Workers :
          run[w].pc # "idle" => run[w].link \in {NULL} \cup DOMAIN interactions

\* A call is never attributed to another conversation: whatever was linked, by
\* whichever statement and in whatever order, names the upstream identity and
\* the session of its interaction (InteractionBySessionUpstream "never guesses
\* across sessions").
ParentsMatch ==
    \A rows \in {calls, tools} : \A r \in DOMAIN rows :
        rows[r].link # NULL =>
            /\ rows[r].session = interactions[rows[r].link].session
            /\ rows[r].parent  = interactions[rows[r].link].upstream

Quiet == \A w \in Workers : run[w].pc = "idle"

\* Some ingestion of a prompt with this identity ran to its end.
Rooted(row) ==
    \E p \in whole : IsRoot(p) /\ p.session = row.session /\ RootIdentity(p) = row.parent

\* A call finds its prompt, and a prompt its calls, in either order of arrival,
\* across sources, redeliveries and requests that were cut short: nothing that
\* names the only interaction of its session stays without it.
ChildrenFindParents ==
    Quiet =>
        \A rows \in {calls, tools} : \A r \in DOMAIN rows :
            /\ rows[r].link = NULL /\ rows[r].session # "" /\ rows[r].parent # None
            /\ Cardinality(BySessionUpstream(rows[r].session, rows[r].parent)) = 1
            => ~Rooted(rows[r])

\* A call of an old version is not counted again when its event arrives, and no
\* event is counted twice, whatever is redelivered and whoever delivers it: the
\* only row that says the same takes the event over before a row is added.
LegacyIsNotCountedTwice ==
    /\ \A i, j \in DOMAIN calls : calls[i].raw = calls[j].raw /\ calls[i].raw # None => i = j
    /\ \A l \in DOMAIN Legacy :
          LET same == {i \in DOMAIN calls : /\ calls[i].session = Legacy[l].session
                                            /\ calls[i].usage = Legacy[l].usage}
              old  == {k \in DOMAIN Legacy : Legacy[k] = Legacy[l]}
          IN  Cardinality(old) = 1 /\ (\E i \in same : calls[i].raw # None) =>
                  \A i \in same : calls[i].raw # None

\* Prompts stay private: no text leaves its process or is stored, redacted text
\* is stored only where the operator once asked for "full" and never travels to
\* the collector, and nothing is stored beyond what the mode allows that the
\* row says it was captured under -- though the mode is read up to three times
\* on the way and may be changed, or the file be half written, in between.
PromptsStayPrivate ==
    /\ \A m \in inbox : m.payload.holds \subseteq {"hash"}
    /\ \A r \in ledger : r.holds \subseteq {"hash", "redacted"}
                         /\ ("redacted" \in r.holds => "full" \in inForce)
    /\ \A i \in DOMAIN interactions :
          /\ interactions[i].holds \subseteq Allowed(interactions[i].label)
          /\ "redacted" \in interactions[i].holds => "full" \in inForce

=============================================================================
