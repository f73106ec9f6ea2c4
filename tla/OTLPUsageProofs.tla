-------------------------- MODULE OTLPUsageProofs ---------------------------
(***************************************************************************)
(* Proofs about OTLPUsage for every finite trace, whatever its graph: no   *)
(* reconciliation loses usage, and without cycles what is counted does not *)
(* depend on the order in which the spans came.                            *)
(***************************************************************************)
EXTENDS OTLPUsageProperties, FiniteSetTheorems, TLAPS

-----------------------------------------------------------------------------
(* Types.                                                                  *)

\* Every step keeps the types, and the span of a busy handler stays stored.
LEMMA StepKeepsTypes ==
    ASSUME TypeOK, [Next]_vars
    PROVE  TypeOK'
<1> USE DEF TypeOK
<1>1. ASSUME NEW spans \in SUBSET Spans, Receive(spans) PROVE TypeOK'
    BY <1>1 DEF Receive, traceVars
<1>2. ASSUME NEW s \in Spans, AppendRawEvent(s) PROVE TypeOK'
    BY <1>2, OTLPAssumption DEF AppendRawEvent, traceVars
<1>3. CASE SkipNormalization
    BY <1>3 DEF SkipNormalization, traceVars
<1>4. CASE RecordModelCall
    BY <1>4 DEF RecordModelCall, traceVars
<1>5. CASE ReconcileOTLPUsage
    BY <1>5 DEF ReconcileOTLPUsage, Duplicates, traceVars
<1>6. CASE Respond
    <2>1. UNCHANGED <<parent, usage, stored, calls, excluded, crashes>>
        BY <1>6 DEF Respond, traceVars
    <2>2. pc' = "idle" /\ request' = {} /\ todo' = {} /\ current' = NoSpan
        BY <1>6 DEF Respond, Exit
    <2>3. acked' \subseteq stored
        BY <1>6 DEF Respond
    <2> QED
        BY <2>1, <2>2, <2>3
<1>7. CASE Crash
    BY <1>7, OTLPAssumption DEF Crash, Exit, traceVars
<1>8. CASE UNCHANGED vars
    BY <1>8 DEF vars
<1> QED
    BY <1>1, <1>2, <1>3, <1>4, <1>5, <1>6, <1>7, <1>8 DEF Next

\* Every variable keeps its type, for any trace, any requests and any crashes.
THEOREM TypeCorrect == Spec => []TypeOK
<1>1. Init => TypeOK
    BY OTLPAssumption DEF Init, TypeOK
<1>2. TypeOK /\ [Next]_vars => TypeOK'
    BY StepKeepsTypes
<1> QED
    BY <1>1, <1>2, PTL DEF Spec

-----------------------------------------------------------------------------
(* The span graph.                                                         *)

\* Descendants of descendants are descendants.
LEMMA DescendantsAreTransitive ==
    ASSUME NEW s, NEW c \in Descendants(s), NEW d \in Descendants(c)
    PROVE  d \in Descendants(s)
<1> SUFFICES ASSUME NEW D \in SUBSET stored,
                    Children(s) \subseteq D,
                    \A x \in D : Children(x) \subseteq D
             PROVE  d \in D
    BY DEF Descendants
<1>1. c \in D
    BY DEF Descendants
<1>2. Children(c) \subseteq D
    BY <1>1
<1> QED
    BY <1>2 DEF Descendants

\* A span that arrives makes nobody less of a descendant.
LEMMA DescendantsGrow ==
    ASSUME stored \subseteq stored', parent' = parent, NEW s, NEW d \in Descendants(s)
    PROVE  d \in Descendants(s)'
<1>1. \A x : Children(x) \subseteq Children(x)'
    BY DEF Children
<1>2. SUFFICES ASSUME NEW D \in SUBSET stored',
                      Children(s)' \subseteq D,
                      \A x \in D : Children(x)' \subseteq D
               PROVE  d \in D
    BY DEF Descendants
<1> DEFINE E == D \intersect stored
<1>3. /\ E \in SUBSET stored
      /\ Children(s) \subseteq E
      /\ \A x \in E : Children(x) \subseteq E
    BY <1>1, <1>2 DEF Children
<1> QED
    BY <1>3 DEF Descendants

-----------------------------------------------------------------------------
(* Below every call there is one that is counted after a reconciliation.   *)

Below(s) == {s} \union Descendants(s)

\* The calls below p that report what p reports.
Same(p) == {c \in calls : c \in Below(p) /\ usage[c] = usage[p]}

\* One of them has the fewest spans below it.
LEMMA LowestExists ==
    ASSUME TypeOK, NEW p \in calls
    PROVE  \E z \in Same(p) : \A y \in Same(p) :
              ~ (Below(y) \subseteq Below(z) /\ Below(y) # Below(z))
<1> DEFINE T == {Below(z) : z \in Same(p)}
           R == StrictSubsetOrdering(Spans)
<1>1. IsWellFoundedOn(R, FiniteSubsetsOf(Spans))
    BY OTLPAssumption, FS_StrictSubsetOrderingWellFounded
<1>2. \A z \in Same(p) : Below(z) \in SUBSET Spans
    BY DEF Same, Below, Descendants, TypeOK
<1>3. T \subseteq FiniteSubsetsOf(Spans)
    BY <1>2, OTLPAssumption, FS_Subset DEF FiniteSubsetsOf
<1>4. p \in Same(p)
    BY DEF Same, Below
<1>5. T # {}
    BY <1>4
<1>6. \E x \in T : \A y \in T : <<y, x>> \notin R
    <2> HIDE DEF T, R
    <2> QED
        BY <1>1, <1>3, <1>5, WFMin
<1>7. PICK z \in Same(p) : \A y \in T : <<y, Below(z)>> \notin R
    BY <1>6
<1>8. \A y \in Same(p) : Below(y) \in T
    OBVIOUS
<1>9. ASSUME NEW y \in Same(p), Below(y) \subseteq Below(z), Below(y) # Below(z)
      PROVE  FALSE
    <2>1. <<Below(y), Below(z)>> \in R
        BY <1>2, <1>9 DEF StrictSubsetOrdering
    <2> HIDE DEF T, R
    <2> QED
        BY <1>7, <1>8, <2>1
<1> QED
    BY <1>9

\* A call with the fewest spans below it repeats none of the others.
LEMMA LowestIsNoDuplicate ==
    ASSUME NEW p \in calls, NEW z \in Same(p),
           \A y \in Same(p) : ~ (Below(y) \subseteq Below(z) /\ Below(y) # Below(z))
    PROVE  z \notin Duplicates
<1> SUFFICES ASSUME NEW c \in calls,
                    c \in Descendants(z), z # c, z \notin Descendants(c),
                    usage[z] = usage[c]
             PROVE  FALSE
    BY DEF Duplicates
<1>1. Below(c) \subseteq Below(z)
    BY DescendantsAreTransitive DEF Below
<1>2. z \in Below(z) /\ z \notin Below(c)
    BY DEF Below
<1>3. c \in Same(p)
    BY DescendantsAreTransitive DEF Same, Below
<1> QED
    BY <1>1, <1>2, <1>3

\* After a reconciliation every call that is left out has a counted one with
\* the same usage below it.
LEMMA ReconciliationIsCovered ==
    ASSUME TypeOK, ExclusionsAreCovered, NEW p \in excluded \union Duplicates
    PROVE  \E c \in calls \ (excluded \union Duplicates) :
              c \in Descendants(p) /\ usage[c] = usage[p]
<1>1. p \in calls
    BY DEF TypeOK, Duplicates
<1>2. PICK z \in Same(p) : \A y \in Same(p) :
              ~ (Below(y) \subseteq Below(z) /\ Below(y) # Below(z))
    BY <1>1, LowestExists
<1>3. z \notin Duplicates
    BY <1>1, <1>2, LowestIsNoDuplicate
<1>4. CASE z \notin excluded
    <2>1. z # p
        BY <1>3, <1>4
    <2> QED
        BY <1>3, <1>4, <2>1 DEF Same, Below
<1>5. CASE z \in excluded
    <2>1. PICK y \in Counted : y \in Descendants(z) /\ usage[y] = usage[z]
        BY <1>5 DEF ExclusionsAreCovered
    <2>2. y \in Same(p)
        BY <2>1, DescendantsAreTransitive DEF Same, Below, Counted
    <2>3. Below(y) \subseteq Below(z)
        BY <2>1, DescendantsAreTransitive DEF Below
    <2>4. Below(y) = Below(z)
        BY <1>2, <2>2, <2>3
    <2>5. y \notin Duplicates
        BY <1>1, <1>2, <2>2, <2>4, LowestIsNoDuplicate
    <2>6. y # p
        BY <2>1, <2>5 DEF Counted
    <2> QED
        BY <2>1, <2>2, <2>5, <2>6 DEF Same, Below, Counted
<1> QED
    BY <1>4, <1>5

\* Every step keeps exclusions covered.
LEMMA StepKeepsCovered ==
    ASSUME TypeOK, ExclusionsAreCovered, [Next]_vars
    PROVE  ExclusionsAreCovered'
<1>1. ASSUME stored \subseteq stored', calls \subseteq calls',
             UNCHANGED <<parent, usage, excluded>>
      PROVE  ExclusionsAreCovered'
    <2> SUFFICES ASSUME NEW p \in excluded
                 PROVE  \E c \in Counted' : c \in Descendants(p)' /\ usage[c] = usage[p]
        BY <1>1 DEF ExclusionsAreCovered
    <2>1. PICK c \in Counted : c \in Descendants(p) /\ usage[c] = usage[p]
        BY DEF ExclusionsAreCovered
    <2>2. c \in Descendants(p)'
        BY <1>1, <2>1, DescendantsGrow
    <2> QED
        BY <1>1, <2>1, <2>2 DEF Counted
<1>2. CASE ReconcileOTLPUsage
    <2>1. /\ UNCHANGED <<parent, usage, stored, calls>>
          /\ excluded' = excluded \union Duplicates
        BY <1>2 DEF ReconcileOTLPUsage, traceVars
    <2>2. \A s : Descendants(s)' = Descendants(s)
        BY <2>1 DEF Descendants, Children
    <2> QED
        BY <2>1, <2>2, ReconciliationIsCovered DEF ExclusionsAreCovered, Counted
<1>3. ASSUME NEW s \in Spans, AppendRawEvent(s) PROVE ExclusionsAreCovered'
    BY <1>3, <1>1 DEF AppendRawEvent, traceVars
<1>4. CASE RecordModelCall
    BY <1>4, <1>1 DEF RecordModelCall, traceVars
<1>5. ASSUME \/ \E spans \in SUBSET Spans : Receive(spans)
             \/ SkipNormalization \/ Respond \/ Crash \/ UNCHANGED vars
      PROVE  ExclusionsAreCovered'
    BY <1>5, <1>1 DEF Receive, SkipNormalization, Respond, Crash, vars, traceVars
<1> QED
    BY <1>2, <1>3, <1>4, <1>5 DEF Next

\* Whatever graph a trace has, cycles included, and in whatever order, requests
\* and retries its spans arrive, a call is only left out of the totals while a
\* call below it that reports the same is counted.
THEOREM NoUsageIsLost == Spec => []ExclusionsAreCovered
<1>1. Init => ExclusionsAreCovered
    BY DEF Init, ExclusionsAreCovered
<1>2. TypeOK /\ ExclusionsAreCovered /\ [Next]_vars => ExclusionsAreCovered'
    BY StepKeepsCovered
<1> QED
    BY <1>1, <1>2, TypeCorrect, PTL DEF Spec

-----------------------------------------------------------------------------
(* The walk from a span to the root finds the spans that the descent from   *)
(* the root finds it under.                                                 *)

\* A set of numbers has a least one: a number is below another if the interval up to it is
\* contained in the other's.
LEMMA LeastNumber ==
    ASSUME NEW T \in SUBSET Nat, T # {}
    PROVE  \E m \in T : \A n \in T : m <= n
<1> DEFINE Intervals == {1..n : n \in T}
           R == StrictSubsetOrdering(Nat)
<1>1. IsWellFoundedOn(R, FiniteSubsetsOf(Nat))
    BY FS_StrictSubsetOrderingWellFounded
<1>2. \A n \in Nat : IsFiniteSet(1..n) /\ 1..n \in SUBSET Nat
    BY FS_Interval
<1>3. Intervals \subseteq FiniteSubsetsOf(Nat) /\ Intervals # {}
    BY <1>2 DEF FiniteSubsetsOf
<1>4. PICK x \in Intervals : \A y \in Intervals : <<y, x>> \notin R
    <2> HIDE DEF Intervals, R
    <2> QED
        BY <1>1, <1>3, WFMin
<1>5. PICK m \in T : x = 1..m
    OBVIOUS
<1>6. ASSUME NEW n \in T, n < m PROVE FALSE
    <2>1. 1..n \in SUBSET Nat /\ 1..m \in SUBSET Nat /\ m \in 1..m /\ m \notin 1..n
        BY <1>6
    <2>2. 1..n \subseteq 1..m /\ 1..n # 1..m
        BY <1>6, <2>1
    <2>3. <<1..n, 1..m>> \in R
        BY <2>1, <2>2 DEF StrictSubsetOrdering
    <2> QED
        BY <1>4, <1>5, <2>3
<1> QED
    BY <1>6

\* f is the walk of n steps from s.
Walk(f, s, n) ==
    f = [k \in 0..n |-> IF k = 0 THEN s
                        ELSE IF f[k - 1] \in stored THEN parent[f[k - 1]]
                        ELSE NoSpan]

\* There are walks of every length: a shortest one that does not exist would be the one after a
\* walk that does.
LEMMA WalksExist ==
    ASSUME NEW s
    PROVE  \A n \in Nat : \E f : Walk(f, s, n)
<1> DEFINE Missed == {n \in Nat : ~ \E f : Walk(f, s, n)}
<1> SUFFICES ASSUME Missed # {} PROVE FALSE
    OBVIOUS
<1>1. PICK m \in Missed : \A n \in Missed : m <= n
    <2> HIDE DEF Missed
    <2>1. Missed \in SUBSET Nat
        BY DEF Missed
    <2> QED
        BY <2>1, LeastNumber
<1>2. m # 0
    <2> SUFFICES ASSUME m = 0 PROVE FALSE
        OBVIOUS
    <2> DEFINE f == [k \in 0..0 |-> s]
    <2>1. Walk(f, s, 0)
        BY DEF Walk
    <2> QED
        BY <1>1, <2>1
<1>3. m \in Nat /\ m - 1 \in Nat /\ m - 1 \notin Missed
    BY <1>1, <1>2
<1>4. PICK g : Walk(g, s, m - 1)
    BY <1>3
<1> DEFINE Next1 == IF g[m - 1] \in stored THEN parent[g[m - 1]] ELSE NoSpan
           f == [k \in 0..m |-> IF k = m THEN Next1 ELSE g[k]]
<1>5. \A k \in 0..(m - 1) : /\ k \in 0..m /\ k # m /\ (k # 0 => k - 1 \in 0..(m - 1))
                            /\ f[k] = g[k]
    BY <1>3
<1>6. \A k \in 0..(m - 1) : g[k] = IF k = 0 THEN s
                                   ELSE IF g[k - 1] \in stored THEN parent[g[k - 1]]
                                   ELSE NoSpan
    BY <1>4 DEF Walk
<1>7. f[m] = Next1 /\ m - 1 \in 0..(m - 1) /\ f[m - 1] = g[m - 1]
    BY <1>3, <1>5
<1>8. ASSUME NEW k \in 0..m
      PROVE  f[k] = IF k = 0 THEN s
                    ELSE IF f[k - 1] \in stored THEN parent[f[k - 1]]
                    ELSE NoSpan
    <2> HIDE DEF f
    <2>1. CASE k = m
        BY <1>2, <1>7, <2>1
    <2>2. CASE k # m
        <3>1. k \in 0..(m - 1)
            BY <1>3, <2>2
        <3> QED
            BY <1>5, <1>6, <3>1
    <2> QED
        BY <2>1, <2>2
<1>9. Walk(f, s, m)
    <2> DEFINE w == [k \in 0..m |-> IF k = 0 THEN s
                                    ELSE IF f[k - 1] \in stored THEN parent[f[k - 1]]
                                    ELSE NoSpan]
    <2>1. DOMAIN f = 0..m /\ DOMAIN w = 0..m /\ \A k \in 0..m : f[k] = w[k]
        BY <1>8
    <2>2. f = [k \in 0..m |-> f[k]] /\ w = [k \in 0..m |-> w[k]]
        OBVIOUS
    <2> QED
        BY <2>1, <2>2 DEF Walk
<1> QED
    BY <1>1, <1>9

\* The ancestors of s are such a walk.
LEMMA AncestorsAreWalked ==
    ASSUME NEW s
    PROVE  LET N == Cardinality(Spans)
               up == Ancestor(s)
           IN  /\ N \in Nat
               /\ up[0] = s
               /\ \A k \in 1..N : up[k] = IF up[k - 1] \in stored THEN parent[up[k - 1]]
                                          ELSE NoSpan
<1> DEFINE N == Cardinality(Spans)
           up == Ancestor(s)
<1>1. N \in Nat
    BY OTLPAssumption, FS_CardinalityType
<1>2. \E f : Walk(f, s, N)
    BY <1>1, WalksExist
<1>3. up = CHOOSE f : Walk(f, s, N)
    BY DEF Ancestor, Walk
<1>4. Walk(up, s, N)
    BY <1>2, <1>3
<1> HIDE DEF up, N
<1>5. \A k \in 0..N : up[k] = IF k = 0 THEN s
                              ELSE IF up[k - 1] \in stored THEN parent[up[k - 1]]
                              ELSE NoSpan
    BY <1>4 DEF Walk
<1>6. 0 \in 0..N /\ \A k \in 1..N : k \in 0..N /\ k # 0
    BY <1>1
<1> QED
    BY <1>1, <1>5, <1>6 DEF up, N

\* Who walks up to p is under p: the first step of the walk that is, is the start.
LEMMA WalkersAreDescendants ==
    ASSUME TypeOK, NEW p, NEW c, IsAncestor(p, c)
    PROVE  c \in Descendants(p)
<1> DEFINE up == Ancestor(c)
           N == Cardinality(Spans)
<1>1. /\ p \in stored /\ c \in stored
      /\ \E n \in 1..N : up[n] = p
    BY DEF IsAncestor
<1>2. PICK n \in 1..N : up[n] = p
    BY <1>1
<1>3. /\ N \in Nat /\ up[0] = c
      /\ \A k \in 1..N : up[k] = IF up[k - 1] \in stored THEN parent[up[k - 1]] ELSE NoSpan
    BY AncestorsAreWalked
<1>4. NoSpan \notin stored
    BY OTLPAssumption DEF TypeOK
<1> HIDE DEF up, N
<1>5. \A k \in 1..N : up[k] \in stored => up[k - 1] \in stored /\ parent[up[k - 1]] = up[k]
    BY <1>3, <1>4
<1> SUFFICES ASSUME NEW D \in SUBSET stored,
                    Children(p) \subseteq D,
                    \A x \in D : Children(x) \subseteq D
             PROVE  c \in D
    BY <1>1 DEF Descendants
<1> DEFINE In == {k \in 0..(n - 1) : up[k] \in D}
<1>6. n - 1 \in In
    <2>1. up[n - 1] \in Children(p)
        BY <1>1, <1>2, <1>5 DEF Children
    <2> QED
        BY <1>2, <1>3, <2>1
<1>7. In \in SUBSET Nat
    BY <1>2, <1>3
<1>8. PICK m \in In : \A k \in In : m <= k
    <2> HIDE DEF In
    <2> QED
        BY <1>6, <1>7, LeastNumber
<1>9. m \in 0..(n - 1) /\ up[m] \in D
    BY <1>8
<1>10. m = 0
    <2> SUFFICES ASSUME m # 0 PROVE FALSE
        OBVIOUS
    <2>1. m \in 1..N /\ m - 1 \in 0..(n - 1) /\ ~ m <= m - 1
        BY <1>2, <1>3, <1>9
    <2>2. up[m - 1] \in Children(up[m])
        BY <1>5, <1>9, <2>1 DEF Children
    <2>3. up[m - 1] \in D
        BY <1>9, <2>2
    <2> QED
        BY <1>8, <2>1, <2>3
<1> QED
    BY <1>3, <1>9, <1>10

\* Who is under p walks up to it.  A walk as long as there are spans either has passed all of them,
\* or has left the stored ones, or has come back to where it was.  In the last two cases the
\* spans it passed have all their stored parents among them, so that p is one of them.
LEMMA DescendantsAreWalkers ==
    ASSUME TypeOK, NEW p \in stored, NEW c \in Descendants(p)
    PROVE  IsAncestor(p, c)
<1> DEFINE up == Ancestor(c)
           N == Cardinality(Spans)
           Up == {up[k] : k \in 1..N}
<1>1. c \in stored /\ stored \subseteq Spans
    BY DEF Descendants, TypeOK
<1>2. /\ N \in Nat /\ up[0] = c
      /\ \A k \in 1..N : up[k] = IF up[k - 1] \in stored THEN parent[up[k - 1]] ELSE NoSpan
    BY AncestorsAreWalked
<1>3. IsFiniteSet(Spans) /\ N # 0
    BY <1>1, OTLPAssumption, FS_EmptySet
<1> SUFFICES ASSUME p \notin Up PROVE FALSE
    BY <1>1 DEF IsAncestor
<1> HIDE DEF up, N
<1>4. up[1] = parent[c]
    <2>1. 1 \in 1..N /\ 1 - 1 = 0
        BY <1>2, <1>3
    <2> QED
        BY <1>1, <1>2, <2>1
<1>5. PICK j \in 1..N : up[j] \notin stored \/ \E i \in 1..(j - 1) : up[i] = up[j]
    <2> SUFFICES ASSUME \A k \in 1..N : up[k] \in stored,
                        \A k \in 1..N : \A i \in 1..(k - 1) : up[i] # up[k]
                 PROVE  FALSE
        OBVIOUS
    <2> DEFINE f == [k \in 1..N |-> up[k]]
               Others == Spans \ {p}
    <2>1. \A k \in 1..N : up[k] \in Others
        BY <1>1
    <2>2. f \in [1..N -> Others]
        BY <2>1
    <2>3. IsFiniteSet(1..N) /\ Cardinality(1..N) = N
        BY <1>2, FS_Interval
    <2>4. IsFiniteSet(Others) /\ Cardinality(Others) = N - 1
        BY <1>1, <1>3, FS_RemoveElement DEF N
    <2>5. Cardinality(Others) < Cardinality(1..N)
        BY <1>2, <2>3, <2>4
    <2>6. PICK x \in 1..N, y \in 1..N : x # y /\ f[x] = f[y]
        <3> HIDE DEF f, Others
        <3> QED
            BY <2>2, <2>3, <2>4, <2>5, FS_PigeonHole
    <2>7. up[x] = up[y] /\ (x \in 1..(y - 1) \/ y \in 1..(x - 1))
        BY <1>2, <2>6
    <2> QED
        BY <2>7
<1> DEFINE Passed == {up[k] : k \in 1..j}
<1>6. \A x \in Passed : x \in stored /\ parent[x] \in stored => parent[x] \in Passed
    <2> SUFFICES ASSUME NEW k \in 1..j, up[k] \in stored, parent[up[k]] \in stored
                 PROVE  parent[up[k]] \in Passed
        OBVIOUS
    <2>1. \A i \in 1..(j - 1) : up[i] \in stored => parent[up[i]] \in Passed
        <3> TAKE i \in 1..(j - 1)
        <3>1. i + 1 \in 1..j /\ i + 1 \in 1..N /\ (i + 1) - 1 = i
            BY <1>2
        <3> QED
            BY <1>2, <3>1
    <2>2. CASE k \in 1..(j - 1)
        BY <2>1, <2>2
    <2>3. CASE k \notin 1..(j - 1)
        <3>1. k = j
            BY <1>2, <2>3
        <3>2. PICK i \in 1..(j - 1) : up[i] = up[k]
            BY <1>5, <3>1
        <3> QED
            BY <2>1, <3>2
    <2> QED
        BY <2>2, <2>3
<1>7. parent[c] \in Passed /\ p \notin Passed
    <2>1. 1 \in 1..j /\ \A k \in 1..j : k \in 1..N
        BY <1>2
    <2> QED
        BY <1>4, <2>1
<1> DEFINE D == stored \ (Passed \union {c})
<1> HIDE DEF Passed
<1>8. \A x \in stored \ Passed : Children(x) \subseteq D
    BY <1>6, <1>7 DEF Children
<1>9. Children(p) \subseteq D /\ D \in SUBSET stored /\ \A x \in D : Children(x) \subseteq D
    BY <1>7, <1>8
<1>10. c \in D
    <2> HIDE DEF D
    <2> QED
        BY <1>9 DEF Descendants
<1> QED
    BY <1>10

-----------------------------------------------------------------------------
(* What is counted in a trace without cycles.                              *)

\* A reconciliation leaves out the calls that have another one below with the same usage; what was
\* left out before has one as well.
LEMMA ReconciliationCountsLowest ==
    ASSUME TypeOK, ExclusionsAreCovered, ReconcileOTLPUsage, Acyclic
    PROVE  CountsLowest'
<1>1. /\ UNCHANGED <<parent, usage, stored, calls>>
      /\ excluded' = excluded \union Duplicates
    BY DEF ReconcileOTLPUsage, traceVars
<1>2. calls \subseteq stored /\ excluded \subseteq calls
    BY DEF TypeOK
<1>3. \A p, c \in calls : IsAncestor(p, c) <=> c \in Descendants(p)
    BY <1>2, WalkersAreDescendants, DescendantsAreWalkers
<1>4. \A p \in calls : p \notin Descendants(p)
    BY <1>2, DescendantsAreWalkers DEF Acyclic
<1>5. \A p \in calls, c \in calls :
         c \in Descendants(p) => p # c /\ p \notin Descendants(c)
    BY <1>4, DescendantsAreTransitive
<1>6. excluded \subseteq Duplicates
    BY <1>2, <1>5 DEF ExclusionsAreCovered, Counted, Duplicates
<1>7. \A p \in calls : p \in Duplicates <=> \E c \in calls : IsAncestor(p, c) /\ usage[p] = usage[c]
    BY <1>3, <1>5 DEF Duplicates
<1>8. \A p, c : IsAncestor(p, c)' <=> IsAncestor(p, c)
    BY <1>1 DEF IsAncestor, Ancestor
<1>9. Counted' = calls \ Duplicates
    BY <1>1, <1>6 DEF Counted
<1> QED
    BY <1>1, <1>7, <1>8, <1>9 DEF CountsLowest

\* In a trace without cycles what is counted after a reconciliation depends on the spans that are
\* stored, and not on the order, the requests and the retries they came in.
THEOREM OrderDoesNotMatter == Spec => ReconciledInAnyOrder
<1>1. ASSUME TypeOK, ExclusionsAreCovered, [Next]_vars, pc = "reconcile", pc' = "append", Acyclic'
      PROVE  CountsLowest'
    <2>1. ReconcileOTLPUsage
        BY <1>1 DEF Next, Receive, AppendRawEvent, SkipNormalization, RecordModelCall, Respond,
                    Crash, Exit, vars
    <2>2. UNCHANGED <<parent, stored>>
        BY <2>1 DEF ReconcileOTLPUsage, traceVars
    <2>3. Acyclic
        BY <1>1, <2>2 DEF Acyclic, IsAncestor, Ancestor
    <2> QED
        BY <1>1, <2>1, <2>3, ReconciliationCountsLowest
<1>2. TypeOK /\ ExclusionsAreCovered /\ [Next]_vars =>
          [pc = "reconcile" /\ pc' = "append" => (Acyclic => CountsLowest)']_vars
    BY <1>1
<1> QED
    BY <1>2, TypeCorrect, NoUsageIsLost, PTL DEF Spec, ReconciledInAnyOrder

=============================================================================
