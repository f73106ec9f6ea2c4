-------------------------- MODULE AllocationProofs ---------------------------
(***************************************************************************)
(* Proofs about Allocation for every number of calls, projects, keys and   *)
(* revisions.  What sorting returns is not looked into: the proofs hold    *)
(* whatever order a revision is read in, as long as it is always the same. *)
(* What they assume of that order is a named hypothesis of the theorems,   *)
(* satisfied by the constants of MCAllocation.  Sums along a sequence are  *)
(* proved with the least number at which they would fail.                  *)
(***************************************************************************)
EXTENDS AllocationProperties, SequenceTheorems, FiniteSetTheorems, TLAPS

\* What appending a row to a table does to its rows and its length.  The rows
\* need no other type than that of being the table's.
LEMMA AppendRow ==
    ASSUME NEW rows, rows \in Seq({rows[k] : k \in 1..Len(rows)}), NEW row
    PROVE  LET new == Append(rows, row)
           IN  /\ new \in Seq({new[k] : k \in 1..Len(new)})
               /\ Len(new) = Len(rows) + 1
               /\ new[Len(rows) + 1] = row
               /\ \A k \in 1..Len(rows) : new[k] = rows[k]
<1> DEFINE new == Append(rows, row)
           S == {rows[k] : k \in 1..Len(rows)}
           T == {new[k] : k \in 1..Len(new)}
<1>1. /\ Len(rows) \in Nat
      /\ Len(new) = Len(rows) + 1
      /\ new[Len(rows) + 1] = row
      /\ \A k \in 1..Len(rows) : new[k] = rows[k]
    OBVIOUS
<1>2. new \in Seq(S \union {row})
    OBVIOUS
<1>3. \A k \in 1..Len(new) : new[k] \in T
    OBVIOUS
<1>4. new \in [1..Len(new) -> S \union {row}]
    BY <1>2, LenProperties
<1>5. new \in [1..Len(new) -> T]
    <2> HIDE DEF new, T, S
    <2> QED
        BY <1>3, <1>4
<1>6. new \in Seq(T)
    <2> HIDE DEF new, T
    <2> QED
        BY <1>1, <1>5
<1> QED
    BY <1>1, <1>6

\* Tables keyed by call, with a sequence of revisions for each.
Histories ==
    /\ revisions = [c \in Calls |-> revisions[c]]
    /\ heads = [c \in Calls |-> heads[c]]
    /\ projection = [c \in Calls |-> projection[c]]
    /\ \A c \in Calls :
          revisions[c] \in Seq({revisions[c][k] : k \in 1..Len(revisions[c])})

\* A row of allocation_revisions has these columns.
IsRevision(r) ==
    r = [number |-> r.number, parent |-> r.parent, key |-> r.key,
         method |-> r.method, allocations |-> r.allocations,
         previous |-> r.previous, hash |-> r.hash]

\* No hash of a revision is the missing one.
LEMMA HashesAreHashes ==
    ASSUME NEW r, NEW previous
    PROVE  RevisionHash(r, previous) # NoHash
<1> DEFINE hash == RevisionHash(r, previous)
<1>1. Len(hash) = 6
    BY DEF RevisionHash
<1>2. Len(NoHash) = 0
    BY DEF NoHash
<1> QED
    BY <1>1, <1>2

\* What the next revision of a history says, and that its hash covers it.
LEMMA NextRevisionIs ==
    ASSUME NEW c \in Calls, NEW allocations, NEW key, NEW method,
           Len(revisions[c]) \in Nat,
           revisions[c] # <<>> <=> Len(revisions[c]) # 0
    PROVE  LET n == Len(revisions[c])
               r == NextRevision(c, allocations, key, method)
           IN  /\ IsRevision(r)
               /\ r.number = n + 1
               /\ r.parent = n
               /\ r.key = key
               /\ r.method = method
               /\ r.allocations = allocations
               /\ r.previous = (IF n = 0 THEN NoHash ELSE revisions[c][n].hash)
               /\ r.hash = RevisionHash(r, r.previous)
<1> DEFINE n == Len(revisions[c])
           r == NextRevision(c, allocations, key, method)
           sorted == BySlug(allocations)
<1>1. /\ r.number = n + 1
      /\ r.parent = n
      /\ r.key = key
      /\ r.method = method
      /\ r.allocations = allocations
    BY DEF NextRevision
<1>2. r.previous = (IF n = 0 THEN NoHash ELSE revisions[c][n].hash)
    BY DEF NextRevision, Last, NoHead
<1>3. r.hash = <<n + 1, n, key, method, sorted, r.previous>>
    <2> HIDE DEF sorted
    <2> QED
        BY DEF NextRevision, RevisionHash, sorted
<1>4. RevisionHash(r, r.previous) = <<n + 1, n, key, method, sorted, r.previous>>
    BY <1>1 DEF RevisionHash
<1>5. IsRevision(r)
    <2> HIDE DEF sorted
    <2> QED
        BY DEF NextRevision, RevisionHash, IsRevision
<1> QED
    BY <1>1, <1>2, <1>3, <1>4, <1>5

\* What committing a revision does to the tables.
LEMMA CommitAppends ==
    ASSUME Histories, NEW c \in Calls, NEW r, Commit(c, r)
    PROVE  LET n == Len(revisions[c])
           IN  /\ Histories'
               /\ n \in Nat
               /\ revisions[c] # <<>> <=> n # 0
               /\ Len(revisions'[c]) = n + 1
               /\ \A k \in 1..n : revisions'[c][k] = revisions[c][k]
               /\ revisions'[c][n + 1] = r
               /\ heads'[c] = [number |-> r.number, hash |-> r.hash]
               /\ projection'[c] = Projected(r.allocations, r.method)
               /\ \A d \in Calls \ {c} : /\ revisions'[d] = revisions[d]
                                         /\ heads'[d] = heads[d]
                                         /\ projection'[d] = projection[d]
<1> DEFINE h == revisions[c]
           n == Len(h)
<1>1. h \in Seq({h[k] : k \in 1..Len(h)})
    BY DEF Histories
<1>2. /\ n \in Nat
      /\ h # <<>> <=> n # 0
    BY <1>1, LenProperties, EmptySeq
<1>3. /\ revisions' = [d \in Calls |-> IF d = c THEN Append(h, r) ELSE revisions[d]]
      /\ heads' = [d \in Calls |-> IF d = c THEN [number |-> r.number, hash |-> r.hash]
                                   ELSE heads[d]]
      /\ projection' = [d \in Calls |-> IF d = c THEN Projected(r.allocations, r.method)
                                        ELSE projection[d]]
    BY DEF Commit, Histories
<1>4. revisions'[c] = Append(h, r)
    BY <1>3
<1>5. /\ revisions'[c] \in Seq({revisions'[c][k] : k \in 1..Len(revisions'[c])})
      /\ Len(revisions'[c]) = n + 1
      /\ revisions'[c][n + 1] = r
      /\ \A k \in 1..n : revisions'[c][k] = h[k]
    <2> HIDE DEF h
    <2> QED
        BY <1>1, <1>4, AppendRow
<1>6. /\ heads'[c] = [number |-> r.number, hash |-> r.hash]
      /\ projection'[c] = Projected(r.allocations, r.method)
    BY <1>3
<1>7. \A d \in Calls \ {c} : /\ revisions'[d] = revisions[d]
                             /\ heads'[d] = heads[d]
                             /\ projection'[d] = projection[d]
    BY <1>3
<1>8. Histories'
    <2>1. \A d \in Calls :
             revisions'[d] \in Seq({revisions'[d][k] : k \in 1..Len(revisions'[d])})
        <3> TAKE d \in Calls
        <3>1. CASE d = c
            BY <3>1, <1>5
        <3>2. CASE d # c
            <4>1. revisions'[d] = revisions[d]
                BY <3>2, <1>7
            <4>2. revisions[d] \in Seq({revisions[d][k] : k \in 1..Len(revisions[d])})
                BY DEF Histories
            <4> QED
                BY <4>1, <4>2, Zenon
        <3> QED
            BY <3>1, <3>2
    <2>2. /\ revisions' = [d \in Calls |-> revisions'[d]]
          /\ heads' = [d \in Calls |-> heads'[d]]
          /\ projection' = [d \in Calls |-> projection'[d]]
        BY <1>3
    <2> QED
        BY <2>1, <2>2 DEF Histories
<1> QED
    BY <1>2, <1>5, <1>6, <1>7, <1>8

-----------------------------------------------------------------------------
(* Adding up along a sequence.                                             *)

\* A set of numbers has a least one: a number is below another if the interval up to it is
\* contained in the other's.
LEMMA LeastNumber ==
    ASSUME NEW T \in SUBSET Nat, T # {}
    PROVE  \E m \in T : \A n \in T : m <= n
<1> DEFINE Intervals == {1..n : n \in T}
           R == StrictSubsetOrdering(Nat)
<1>1. IsWellFoundedOn(R, FiniteSubsetsOf(Nat))
    BY FS_StrictSubsetOrderingWellFounded
<1>2. \A n \in Nat : IsFiniteSet(1..n) /\ 1..n \in SUBSET Nat
    BY FS_Interval
<1>3. Intervals \subseteq FiniteSubsetsOf(Nat) /\ Intervals # {}
    BY <1>2 DEF FiniteSubsetsOf
<1>4. PICK x \in Intervals : \A y \in Intervals : <<y, x>> \notin R
    <2> HIDE DEF Intervals, R
    <2> QED
        BY <1>1, <1>3, WFMin
<1>5. PICK m \in T : x = 1..m
    OBVIOUS
<1>6. ASSUME NEW n \in T, n < m PROVE FALSE
    <2>1. 1..n \in SUBSET Nat /\ 1..m \in SUBSET Nat /\ m \in 1..m /\ m \notin 1..n
        BY <1>6
    <2>2. 1..n \subseteq 1..m /\ 1..n # 1..m
        BY <1>6, <2>1
    <2>3. <<1..n, 1..m>> \in R
        BY <2>1, <2>2 DEF StrictSubsetOrdering
    <2> QED
        BY <1>4, <1>5, <2>3
<1> QED
    BY <1>6

LEMMA MaxIs ==
    ASSUME NEW n \in Nat, NEW S \in SUBSET (1..n), S # {}
    PROVE  Max(S) \in S /\ \A k \in S : k <= Max(S)
<1> DEFINE Below == {n - k : k \in S}
<1>1. Below \in SUBSET Nat /\ Below # {}
    <2>1. \A k \in S : n - k \in Nat
        OBVIOUS
    <2> QED
        BY <2>1
<1>2. PICK b \in Below : \A d \in Below : b <= d
    <2> HIDE DEF Below
    <2> QED
        BY <1>1, LeastNumber
<1>3. PICK m \in S : b = n - m
    BY <1>2
<1>4. \A k \in S : m >= k
    <2> TAKE k \in S
    <2>1. b <= n - k
        BY <1>2
    <2> QED
        BY <1>3, <2>1
<1>5. Max(S) \in S /\ \A k \in S : Max(S) >= k
    BY <1>4 DEF Max
<1> QED
    BY <1>5

\* f adds up the elements of v at the places in a set, the last of them last.
Folds(f, v, n) ==
    f = [S \in SUBSET (1..n) |-> IF S = {} THEN 0 ELSE f[S \ {Max(S)}] + v[Max(S)]]

\* There is such a function for every n: the one for n is made from the one for n - 1.
LEMMA FoldsExist ==
    ASSUME NEW v
    PROVE  \A n \in Nat : \E f : Folds(f, v, n)
<1> DEFINE Missed == {n \in Nat : ~ \E f : Folds(f, v, n)}
<1> SUFFICES ASSUME Missed # {} PROVE FALSE
    OBVIOUS
<1>1. PICK m \in Missed : \A n \in Missed : m <= n
    <2> HIDE DEF Missed
    <2>1. Missed \in SUBSET Nat
        BY DEF Missed
    <2> QED
        BY <2>1, LeastNumber
<1>2. m # 0
    <2> SUFFICES ASSUME m = 0 PROVE FALSE
        OBVIOUS
    <2> DEFINE f == [S \in SUBSET (1..0) |-> 0]
    <2>1. \A S \in SUBSET (1..0) : S = {}
        OBVIOUS
    <2>2. f = [S \in SUBSET (1..0) |-> IF S = {} THEN 0 ELSE f[S \ {Max(S)}] + v[Max(S)]]
        BY <2>1
    <2>3. Folds(f, v, 0)
        BY <2>2 DEF Folds
    <2> QED
        BY <1>1, <2>3
<1>3. m \in Nat /\ m - 1 \in Nat /\ m - 1 \notin Missed
    BY <1>1, <1>2
<1>4. PICK g : Folds(g, v, m - 1)
    BY <1>3
<1> DEFINE f == [S \in SUBSET (1..m) |-> IF m \in S THEN g[S \ {m}] + v[m] ELSE g[S]]
<1>5. \A S \in SUBSET (1..(m - 1)) : S \in SUBSET (1..m) /\ m \notin S
    BY <1>3
<1>6. \A S \in SUBSET (1..(m - 1)) : f[S] = g[S]
    BY <1>5
<1>7. \A S \in SUBSET (1..(m - 1)) :
         g[S] = IF S = {} THEN 0 ELSE g[S \ {Max(S)}] + v[Max(S)]
    BY <1>4 DEF Folds
<1>8. ASSUME NEW S \in SUBSET (1..m)
      PROVE  f[S] = IF S = {} THEN 0 ELSE f[S \ {Max(S)}] + v[Max(S)]
    <2>1. CASE m \in S
        <3>1. Max(S) = m
            <4>1. Max(S) \in 1..m /\ m <= Max(S)
                BY <1>3, <2>1, MaxIs
            <4> QED
                BY <1>3, <4>1
        <3>2. S \ {m} \in SUBSET (1..(m - 1))
            BY <1>3
        <3>3. f[S] = g[S \ {m}] + v[m] /\ f[S \ {m}] = g[S \ {m}]
            BY <1>6, <2>1, <3>2
        <3> QED
            BY <2>1, <3>1, <3>3
    <2>2. CASE m \notin S
        <3>1. S \in SUBSET (1..(m - 1)) /\ S \ {Max(S)} \in SUBSET (1..(m - 1))
            <4>1. \A k \in 1..m : k # m => k \in 1..(m - 1)
                BY <1>3
            <4> QED
                BY <2>2, <4>1
        <3> HIDE DEF f
        <3> QED
            BY <1>6, <1>7, <3>1
    <2> QED
        BY <2>1, <2>2
<1>9. Folds(f, v, m)
    <2> DEFINE w == [S \in SUBSET (1..m) |-> IF S = {} THEN 0 ELSE f[S \ {Max(S)}] + v[Max(S)]]
    <2>1. \A S \in SUBSET (1..m) : f[S] = w[S]
        BY <1>8
    <2>2. f = [S \in SUBSET (1..m) |-> f[S]] /\ w = [S \in SUBSET (1..m) |-> w[S]]
        OBVIOUS
    <2>3. f = w
        <3> HIDE DEF f, w
        <3> QED
            BY <2>1, <2>2
    <2> QED
        BY <2>3 DEF Folds
<1> QED
    BY <1>1, <1>9

\* t is the sum of what comes up to each place.
Running(t, v, n) == t[0] = 0 /\ \A k \in 1..n : t[k] = t[k - 1] + v[k]

\* Such sums exist, and the fold is the last of any of them.
LEMMA FoldsRun ==
    ASSUME NEW n \in Nat, NEW v, NEW f, Folds(f, v, n)
    PROVE  /\ Running([k \in 0..n |-> f[1..k]], v, n)
           /\ \A t : Running(t, v, n) => f[1..n] = t[n]
<1>1. \A S \in SUBSET (1..n) : f[S] = IF S = {} THEN 0 ELSE f[S \ {Max(S)}] + v[Max(S)]
    BY DEF Folds
<1>2. f[1..0] = 0
    <2>1. {} \in SUBSET (1..n) /\ 1..0 = {}
        OBVIOUS
    <2>2. f[{}] = 0
        BY <1>1, <2>1
    <2> QED
        BY <2>1, <2>2
<1>3. ASSUME NEW k \in 1..n
      PROVE  f[1..k] = f[1..(k - 1)] + v[k]
    <2>1. 1..k \in SUBSET (1..n) /\ 1..k # {} /\ k \in 1..k /\ k \in Nat
        OBVIOUS
    <2>2. Max(1..k) = k
        <3>1. Max(1..k) \in 1..k /\ k <= Max(1..k)
            BY <2>1, MaxIs
        <3> QED
            BY <3>1
    <2>3. (1..k) \ {k} = 1..(k - 1)
        BY <2>1
    <2> QED
        BY <1>1, <2>1, <2>2, <2>3
<1> DEFINE s == [k \in 0..n |-> f[1..k]]
<1>4. Running(s, v, n)
    <2>1. 0 \in 0..n /\ \A k \in 1..n : k \in 0..n /\ k - 1 \in 0..n
        OBVIOUS
    <2>2. s[0] = 0
        BY <1>2, <2>1
    <2>3. \A k \in 1..n : s[k] = s[k - 1] + v[k]
        BY <1>3, <2>1
    <2> QED
        BY <2>2, <2>3 DEF Running
<1>5. ASSUME NEW t, Running(t, v, n)
      PROVE  f[1..n] = t[n]
    <2> DEFINE Off == {k \in 0..n : f[1..k] # t[k]}
    <2> SUFFICES ASSUME Off # {} PROVE FALSE
        OBVIOUS
    <2>1. PICK m \in Off : \A k \in Off : m <= k
        <3> HIDE DEF Off
        <3>1. Off \in SUBSET Nat
            BY DEF Off
        <3> QED
            BY <3>1, LeastNumber
    <2>2. m # 0
        BY <1>2, <1>5, <2>1 DEF Running
    <2>3. m \in 1..n /\ m - 1 \in 0..n /\ ~ m <= m - 1
        BY <2>1, <2>2
    <2>4. f[1..(m - 1)] = t[m - 1]
        BY <2>1, <2>3
    <2> QED
        BY <1>3, <1>5, <2>1, <2>3, <2>4 DEF Running
<1> QED
    BY <1>4, <1>5

Total(v) == FoldLeft(+, 0, v)

\* What a sum over a sequence is.
LEMMA SumIs ==
    ASSUME NEW n \in Nat, NEW v, DOMAIN v = 1..n, NEW t, Running(t, v, n)
    PROVE  Total(v) = t[n]
<1> DEFINE f == CHOOSE f : Folds(f, v, n)
<1>1. Total(v) = f[1..n]
    BY DEF Total, FoldLeft, MapThenFoldSet, Folds
<1>2. Folds(f, v, n)
    <2>1. \E g : Folds(g, v, n)
        BY FoldsExist
    <2> QED
        BY <2>1
<1> HIDE DEF f
<1>3. f[1..n] = t[n]
    BY <1>2, FoldsRun
<1> QED
    BY <1>1, <1>3, Zenon

\* What the points of some allocations add up to.
LEMMA PointsAre ==
    ASSUME NEW n \in Nat, NEW s, DOMAIN s = 1..n
    PROVE  LET v == [k \in 1..n |-> s[k].points]
           IN  /\ \E t : Running(t, v, n)
               /\ \A t : Running(t, v, n) => PointsIn(s) = t[n]
<1> DEFINE v == [k \in 1..n |-> s[k].points]
           Adds(f) == f = [S \in SUBSET (1..n) |-> IF S = {} THEN 0
                                                   ELSE f[S \ {Max(S)}] + s[Max(S)].points]
           f == CHOOSE f : Adds(f)
<1>1. PointsIn(s) = f[1..n]
    BY DEF PointsIn, FoldLeft, MapThenFoldSet
<1>2. ASSUME NEW g PROVE Adds(g) <=> Folds(g, v, n)
    <2>1. \A S \in SUBSET (1..n) : S # {} => v[Max(S)] = s[Max(S)].points
        BY MaxIs
    <2>2. [S \in SUBSET (1..n) |-> IF S = {} THEN 0 ELSE g[S \ {Max(S)}] + s[Max(S)].points]
             = [S \in SUBSET (1..n) |-> IF S = {} THEN 0 ELSE g[S \ {Max(S)}] + v[Max(S)]]
        <3> HIDE DEF v
        <3> QED
            BY <2>1
    <2> QED
        BY <2>2 DEF Folds
<1>3. \E g : Folds(g, v, n)
    BY FoldsExist
<1>4. Adds(f)
    <2>1. \E g : Adds(g)
        BY <1>2, <1>3
    <2> HIDE DEF Adds
    <2> QED
        BY <2>1
<1>5. Folds(f, v, n)
    BY <1>2, <1>4
<1> HIDE DEF f, v
<1>6. /\ Running([k \in 0..n |-> f[1..k]], v, n)
      /\ \A t : Running(t, v, n) => f[1..n] = t[n]
    BY <1>5, FoldsRun
<1>7. \E t : Running(t, v, n)
    BY <1>6
<1> QED
    BY <1>1, <1>6, <1>7 DEF v

\* The rows of an allocation are reported in the order they were written.
LEMMA RowsInOrder ==
    ASSUME NEW n \in Nat, NEW a, DOMAIN a = 1..n, NEW method,
           NEW order \in ReportOrders(Projected(a, method))
    PROVE  /\ DOMAIN order = 1..n
           /\ \A k \in 1..n : order[k].points = a[k].points
<1> DEFINE row == [k \in 1..n |-> [ordinal |-> k - 1, project |-> a[k].project,
                                   points |-> a[k].points, method |-> method]]
           rows == Projected(a, method)
<1>1. rows = {row[k] : k \in 1..n}
    BY DEF Projected
<1>2. \A k \in 1..n : row[k].ordinal = k - 1 /\ row[k].points = a[k].points
    OBVIOUS
<1> HIDE DEF row, rows
<1>3. IsFiniteSet(rows) /\ Cardinality(rows) = n
    <2>1. IsFiniteSet(1..n) /\ Cardinality(1..n) = n
        BY FS_Interval
    <2>2. \A j, k \in 1..n : row[j] = row[k] => j = k
        <3> SUFFICES ASSUME NEW j \in 1..n, NEW k \in 1..n, row[j] = row[k] PROVE j = k
            OBVIOUS
        <3>1. j - 1 = k - 1
            BY <1>2
        <3> QED
            BY <3>1
    <2>3. row \in Bijection(1..n, rows)
        <3>1. row \in [1..n -> rows]
            BY <1>1 DEF row
        <3> QED
            BY <1>1, <2>2, <3>1 DEF Bijection, Injection, Surjection, IsInjective
    <2> QED
        BY <2>1, <2>3, FS_Bijection DEF ExistsBijection
<1>4. /\ order \in [1..n -> rows]
      /\ \A j, k \in 1..n : j # k => order[j] # order[k]
      /\ \A j, k \in 1..n : j < k => order[j].ordinal <= order[k].ordinal
    BY <1>3 DEF ReportOrders, SetToSeqs, rows
<1>5. \A k \in 1..n : \E i \in 1..n : order[k] = row[i]
    BY <1>1, <1>4
<1>6. \A k \in 1..n : order[k].ordinal \in 0..(n - 1)
    <2> TAKE k \in 1..n
    <2>1. PICK i \in 1..n : order[k] = row[i]
        BY <1>5
    <2> QED
        BY <1>2, <2>1
<1>7. \A j, k \in 1..n : j < k => order[j].ordinal < order[k].ordinal
    <2> SUFFICES ASSUME NEW j \in 1..n, NEW k \in 1..n, j < k
                 PROVE  order[j].ordinal < order[k].ordinal
        OBVIOUS
    <2>1. PICK h \in 1..n : order[j] = row[h]
        BY <1>5
    <2>2. PICK i \in 1..n : order[k] = row[i]
        BY <1>5
    <2>3. h # i
        BY <1>4, <2>1, <2>2
    <2>4. order[j].ordinal = h - 1 /\ order[k].ordinal = i - 1
        BY <1>2, <2>1, <2>2
    <2>5. order[j].ordinal <= order[k].ordinal
        BY <1>4
    <2> QED
        BY <2>3, <2>4, <2>5
<1>8. \A k \in 1..n : k - 1 <= order[k].ordinal
    <2> DEFINE Low == {k \in 1..n : ~ k - 1 <= order[k].ordinal}
    <2> SUFFICES ASSUME Low # {} PROVE FALSE
        OBVIOUS
    <2>1. PICK m \in Low : \A k \in Low : m <= k
        <3> HIDE DEF Low
        <3>1. Low \in SUBSET Nat
            BY DEF Low
        <3> QED
            BY <3>1, LeastNumber
    <2>2. m # 1
        BY <1>6, <2>1
    <2>3. m - 1 \in 1..n /\ ~ m <= m - 1 /\ m - 1 < m
        BY <2>1, <2>2
    <2>4. (m - 1) - 1 <= order[m - 1].ordinal
        BY <2>1, <2>3
    <2>5. order[m - 1].ordinal < order[m].ordinal
        BY <1>7, <2>1, <2>3
    <2>6. order[m - 1].ordinal \in 0..(n - 1) /\ order[m].ordinal \in 0..(n - 1)
        BY <1>6, <2>1, <2>3
    <2> DEFINE x == order[m - 1].ordinal
               y == order[m].ordinal
    <2>7. m \in Nat /\ ~ m - 1 <= y /\ (m - 1) - 1 <= x /\ x < y /\ x \in Int /\ y \in Int
        BY <2>1, <2>4, <2>5, <2>6
    <2> HIDE DEF x, y
    <2> QED
        BY <2>7
<1>9. \A k \in 1..n : order[k].ordinal <= k - 1
    <2> DEFINE High == {k \in 0..(n - 1) : ~ order[n - k].ordinal <= (n - k) - 1}
    <2>1. High = {}
        <3> SUFFICES ASSUME High # {} PROVE FALSE
            OBVIOUS
        <3>1. PICK m \in High : \A k \in High : m <= k
            <4> HIDE DEF High
            <4>1. High \in SUBSET Nat
                BY DEF High
            <4> QED
                BY <4>1, LeastNumber
        <3>2. m # 0
            BY <1>6, <3>1
        <3>3. m - 1 \in 0..(n - 1) /\ ~ m <= m - 1 /\ n - (m - 1) = (n - m) + 1
            BY <3>1, <3>2
        <3>4. order[(n - m) + 1].ordinal <= n - m
            <4>1. order[n - (m - 1)].ordinal <= (n - (m - 1)) - 1
                BY <3>1, <3>3
            <4>2. (n - (m - 1)) - 1 = n - m
                BY <3>1
            <4> QED
                BY <3>3, <4>1, <4>2
        <3>5. n - m \in 1..n /\ (n - m) + 1 \in 1..n
            BY <3>1, <3>2
        <3>6. order[n - m].ordinal < order[(n - m) + 1].ordinal
            BY <1>7, <3>5
        <3>7. order[n - m].ordinal \in 0..(n - 1) /\ order[(n - m) + 1].ordinal \in 0..(n - 1)
            BY <1>6, <3>5
        <3> DEFINE x == order[n - m].ordinal
                   y == order[(n - m) + 1].ordinal
                   d == n - m
        <3>8. d \in Nat /\ ~ x <= d - 1 /\ y <= d /\ x < y /\ x \in Int /\ y \in Int
            BY <3>1, <3>4, <3>6, <3>7
        <3> HIDE DEF x, y, d
        <3> QED
            BY <3>8
    <2> TAKE k \in 1..n
    <2>2. n - k \in 0..(n - 1) /\ n - (n - k) = k
        OBVIOUS
    <2>3. n - k \notin High
        BY <2>1
    <2> QED
        BY <2>2, <2>3
<1>10. ASSUME NEW k \in 1..n PROVE order[k].points = a[k].points
    <2>1. PICK i \in 1..n : order[k] = row[i]
        BY <1>5
    <2>2. order[k].ordinal = i - 1
        BY <1>2, <2>1
    <2>3. i = k
        BY <1>8, <1>9, <2>2
    <2> QED
        BY <1>2, <2>1, <2>3
<1> QED
    BY <1>4, <1>10

\* What a call has used up to so many points, without a remainder only at the end.
ShareUpTo(tokens, points) ==
    (tokens \div Whole) * points + ((tokens % Whole) * points) \div Whole

LEMMA SharesUpTo ==
    ASSUME NEW tokens \in Nat
    PROVE  /\ \A points \in Nat : ShareUpTo(tokens, points) \in Nat
           /\ ShareUpTo(tokens, 0) = 0
           /\ ShareUpTo(tokens, Whole) = tokens
<1>1. Whole = 10000
    BY DEF Whole
<1> DEFINE q == tokens \div 10000
           r == tokens % 10000
<1>2. q \in Nat /\ r \in Nat /\ q * 10000 + r = tokens
    OBVIOUS
<1> HIDE DEF q, r
<1>3. \A points \in Nat : q * points \in Nat /\ r * points \in Nat
    BY <1>2
<1>4. \A x \in Nat : x \div 10000 \in Nat
    OBVIOUS
<1>5. \A points \in Nat : q * points + (r * points) \div 10000 \in Nat
    BY <1>3, <1>4
<1>6. q * 0 = 0 /\ r * 0 = 0 /\ 0 \div 10000 = 0 /\ (r * 10000) \div 10000 = r
    BY <1>2
<1>7. \A points : ShareUpTo(tokens, points) = q * points + (r * points) \div 10000
    BY <1>1 DEF ShareUpTo, q, r
<1> QED
    BY <1>1, <1>2, <1>5, <1>6, <1>7

\* The share of each row ends where that of the next begins.
LEMMA SharesOfWhole ==
    ASSUME NEW tokens \in Nat, NEW n \in Nat, NEW order, NEW S, order \in [1..n -> S],
           \A k \in 1..n : order[k].points \in Nat, PointsIn(order) = Whole
    PROVE  Total(SharesOf(tokens, order)) = tokens
<1> DEFINE v == [k \in 1..n |-> order[k].points]
<1>1. order \in Seq(S) /\ Len(order) = n
    OBVIOUS
<1>2. PICK t : Running(t, v, n)
    BY PointsAre
<1>3. t[n] = Whole
    BY <1>2, PointsAre
<1>4. t[0] = 0 /\ \A k \in 1..n : t[k] = t[k - 1] + order[k].points
    BY <1>2 DEF Running
<1>5. \A k \in 0..n : t[k] \in Nat
    <2> DEFINE Off == {k \in 0..n : t[k] \notin Nat}
    <2> SUFFICES ASSUME Off # {} PROVE FALSE
        OBVIOUS
    <2>1. PICK m \in Off : \A k \in Off : m <= k
        <3> HIDE DEF Off
        <3>1. Off \in SUBSET Nat
            BY DEF Off
        <3> QED
            BY <3>1, LeastNumber
    <2>2. m \in 1..n /\ m - 1 \in 0..n /\ ~ m <= m - 1
        BY <1>4, <2>1
    <2>3. t[m - 1] \in Nat
        BY <2>1, <2>2
    <2>4. t[m] = t[m - 1] + order[m].points /\ order[m].points \in Nat
        BY <1>4, <2>2
    <2>5. t[m] \notin Nat
        BY <2>1
    <2> QED
        BY <2>3, <2>4, <2>5
<1>6. ASSUME NEW k \in 1..n
      PROVE  PointsIn(SubSeq(order, 1, k - 1)) = t[k - 1]
    <2> DEFINE before == SubSeq(order, 1, k - 1)
               w == [i \in 1..(k - 1) |-> before[i].points]
    <2>1. /\ before \in Seq(S) /\ Len(before) = k - 1 /\ k - 1 \in Nat
          /\ \A i \in 1..(k - 1) : before[i] = order[i] /\ i \in 1..n
        BY <1>1
    <2>2. DOMAIN before = 1..(k - 1)
        BY <2>1, LenProperties
    <2> HIDE DEF before
    <2>3. Running(t, w, k - 1)
        BY <1>4, <2>1 DEF Running
    <2>4. PointsIn(before) = t[k - 1]
        BY <2>1, <2>2, <2>3, PointsAre
    <2> QED
        BY <2>4 DEF before
<1> DEFINE shares == SharesOf(tokens, order)
           u == [k \in 0..n |-> ShareUpTo(tokens, t[k])]
<1>7. DOMAIN shares = 1..n /\ \A k \in 1..n : shares[k] = ApportionShare(tokens, t[k - 1], order[k].points)
    BY <1>6 DEF SharesOf
<1>8. \A k \in 1..n : shares[k] = ShareUpTo(tokens, t[k]) - ShareUpTo(tokens, t[k - 1])
    <2> HIDE DEF shares
    <2>1. \A offset, points : ApportionShare(tokens, offset, points)
                                = ShareUpTo(tokens, offset + points) - ShareUpTo(tokens, offset)
        BY DEF ApportionShare, ShareUpTo
    <2> QED
        BY <1>4, <1>7, <2>1
<1> HIDE DEF shares
<1>9. Running(u, shares, n)
    <2>1. \A k \in 0..n : u[k] = ShareUpTo(tokens, t[k]) /\ u[k] \in Nat
        BY <1>5, SharesUpTo
    <2>2. 0 \in 0..n /\ \A k \in 1..n : k \in 0..n /\ k - 1 \in 0..n
        OBVIOUS
    <2> HIDE DEF u
    <2>3. u[0] = 0
        BY <1>4, <2>1, <2>2, SharesUpTo
    <2>4. \A k \in 1..n : u[k] = u[k - 1] + shares[k]
        <3> TAKE k \in 1..n
        <3>1. shares[k] = u[k] - u[k - 1] /\ u[k] \in Nat /\ u[k - 1] \in Nat
            BY <1>8, <2>1, <2>2
        <3> QED
            BY <3>1
    <2> QED
        BY <2>3, <2>4 DEF Running
<1>10. u[n] = tokens
    <2>1. n \in 0..n /\ u[n] = ShareUpTo(tokens, t[n])
        OBVIOUS
    <2> QED
        BY <1>3, <2>1, SharesUpTo
<1> HIDE DEF u
<1>11. Total(shares) = u[n]
    BY <1>7, <1>9, SumIs
<1> QED
    BY <1>10, <1>11 DEF shares

\* What a user or the program may ask for.
IsSplit(a) == a \in Seq([project : Projects, points : Nat]) /\ ValidateAllocations(a)

\* However a split is reported, its shares are all that was used.
LEMMA SplitsAddUp ==
    ASSUME NEW a, IsSplit(a), NEW method, NEW tokens \in Nat,
           NEW order \in ReportOrders(Projected(a, method))
    PROVE  Total(SharesOf(tokens, order)) = tokens
<1> DEFINE n == Len(a)
           v == [k \in 1..n |-> a[k].points]
<1>1. n \in Nat /\ DOMAIN a = 1..n /\ \A k \in 1..n : a[k].points \in Nat
    <2>1. n \in Nat /\ DOMAIN a = 1..n /\ a \in [1..n -> [project : Projects, points : Nat]]
        BY LenProperties DEF IsSplit
    <2> HIDE DEF n
    <2> QED
        BY <2>1
<1> HIDE DEF n
<1>2. DOMAIN order = 1..n /\ \A k \in 1..n : order[k].points = a[k].points
    BY <1>1, RowsInOrder
<1>3. order \in [1..n -> Projected(a, method)]
    BY <1>2 DEF ReportOrders, SetToSeqs
<1>4. v = [k \in 1..n |-> order[k].points]
    BY <1>2
<1>5. PICK t : Running(t, v, n)
    BY <1>1, PointsAre
<1>6. PointsIn(a) = t[n] /\ PointsIn(order) = t[n]
    <2>1. PointsIn(a) = t[n]
        BY <1>1, <1>5, PointsAre
    <2>2. Running(t, [k \in 1..n |-> order[k].points], n)
        BY <1>4, <1>5
    <2>3. PointsIn(order) = t[n]
        BY <1>1, <1>2, <2>2, PointsAre
    <2> QED
        BY <2>1, <2>3
<1>7. PointsIn(order) = Whole
    BY <1>6 DEF IsSplit, ValidateAllocations
<1> QED
    BY <1>1, <1>2, <1>3, <1>7, SharesOfWhole

\* All of it for one project.
LEMMA WholeIsSplit ==
    ASSUME NEW p \in Projects
    PROVE  IsSplit(<<[project |-> p, points |-> Whole]>>)
<1> DEFINE a == <<[project |-> p, points |-> Whole]>>
           v == [k \in 1..1 |-> a[k].points]
           t == [k \in 0..1 |-> IF k = 0 THEN 0 ELSE Whole]
<1>1. DOMAIN a = 1..1 /\ a[1].points = Whole /\ Whole \in Nat /\ a # <<>>
      /\ a \in Seq([project : Projects, points : Nat])
    BY AllocationAssumption DEF Whole
<1> HIDE DEF a
<1>2. Running(t, v, 1)
    <2>1. \A k \in 1..1 : k = 1
        OBVIOUS
    <2>2. t[0] = 0 /\ t[1] = Whole /\ v[1] = Whole /\ 0 + Whole = Whole /\ 1 - 1 = 0
        BY <1>1
    <2> HIDE DEF t, v
    <2> QED
        BY <2>1, <2>2 DEF Running
<1>3. t[1] = Whole
    OBVIOUS
<1> HIDE DEF t
<1>4. PointsIn(a) = Whole
    BY <1>1, <1>2, <1>3, PointsAre
<1>5. \A k \in DOMAIN a : a[k].points \in 0..Whole
    BY <1>1
<1> QED
    BY <1>1, <1>4, <1>5 DEF IsSplit, ValidateAllocations, a

-----------------------------------------------------------------------------
(* The invariant of the histories.                                         *)

\* Calls without a row have no history and no projection.
Unrecorded ==
    /\ recorded \subseteq Calls
    /\ \A c \in Calls \ recorded : revisions[c] = <<>> /\ projection[c] = {}

\* Revisions are counted from 1, each on top of the one before.
Numbered ==
    \A c \in Calls : \A k \in 1..Len(revisions[c]) :
        /\ IsRevision(revisions[c][k])
        /\ revisions[c][k].number = k
        /\ revisions[c][k].parent = k - 1

KeysDistinct ==
    \A c \in Calls : \A j, k \in 1..Len(revisions[c]) :
        revisions[c][j].key = revisions[c][k].key => j = k

UpgradeTyped ==
    /\ schema \in 13..LastMigration
    /\ hashPending \in BOOLEAN
    /\ headPending \in BOOLEAN

\* What a revert holds was read from the revision before the selected one.
RevertHolds ==
    reverting # NoRevert =>
        /\ Ready
        /\ reverting.call \in recorded
        /\ reverting.key \in Keys
        /\ reverting.selected \in 2..Len(revisions[reverting.call])
        /\ reverting.allocations =
              BySlug(revisions[reverting.call][reverting.selected - 1].allocations)

HistoryInv ==
    /\ Histories
    /\ Unrecorded
    /\ Numbered
    /\ KeysDistinct
    /\ UpgradeTyped
    /\ RevertHolds

\* Keys the Store makes up itself are not given by users.
KeysReserved == "assign" \notin Keys

\* Splits are written in the order of the slugs, which a single project always
\* is, and no call was split before there was a history.
InSlugOrder ==
    /\ \A request \in Requests : BySlug(request) = request
    /\ \A p \in Projects :
          LET whole == <<[project |-> p, points |-> Whole]>>
          IN  BySlug(whole) = whole
    /\ \A kept \in Legacy : Len(kept) = 1 /\ BySlug(kept) = kept

\* Every revision is stored in the order it is read in.
Ordered ==
    \A c \in Calls : \A k \in 1..Len(revisions[c]) :
        BySlug(revisions[c][k].allocations) = revisions[c][k].allocations

\* Every revision is a split.
Divided ==
    \A c \in Calls : \A k \in 1..Len(revisions[c]) : IsSplit(revisions[c][k].allocations)

\* A decision: one call gets one more revision.
Allocates(c, allocations, key, method) ==
    /\ Ready
    /\ key \notin UsedKeys(c)
    /\ KeysReserved /\ key = "assign" => revisions[c] = <<>>
    /\ InSlugOrder /\ Ordered => BySlug(allocations) = allocations
    /\ InSlugOrder /\ Ordered /\ Divided => IsSplit(allocations)
    /\ Commit(c, NextRevision(c, allocations, key, method))
    /\ recorded' = recorded \union {c}
    /\ reverting' \in {reverting, NoRevert}
    /\ UNCHANGED upgrade

\* The histories and the upgrade stay as they are.
Keeps ==
    /\ UNCHANGED <<revisions, heads, upgrade>>
    /\ recorded \subseteq recorded'
    /\ recorded' \subseteq Calls
    /\ projection' \in {projection, [c \in Calls |-> Rebuilt(revisions[c])]}
    /\ \/ reverting' \in {reverting, NoRevert}
       \/ \E c \in Calls, k \in 1..MaxRevisions, key \in Keys :
             ReadRevertedParent(c, k, key)

\* Every step makes one decision, belongs to an upgrade, or keeps the histories.
LEMMA StepKinds ==
    ASSUME HistoryInv, [Next]_vars
    PROVE  \/ \E c \in Calls : \E allocations, key, method :
                 Allocates(c, allocations, key, method)
           \/ Keeps
           \/ ApplyMigration
           \/ BackfillRevisionHashes
           \/ BackfillRevisionHeads
           \/ Crash
<1> USE DEF HistoryInv
<1>1. ASSUME NEW c \in Calls, NEW attributed \in BOOLEAN, NEW p \in Projects,
             RecordModelCall(c, attributed, p)
      PROVE  \/ Keeps
             \/ \E allocations, key, method : Allocates(c, allocations, key, method)
    <2>1. CASE attributed
        <3>1. revisions[c] = <<>>
            BY <1>1 DEF RecordModelCall, Unrecorded
        <3>2. UsedKeys(c) = {}
            BY <3>1 DEF UsedKeys
        <3>3. Allocates(c, <<[project |-> p, points |-> Whole]>>, "direct", "direct")
            BY <1>1, <2>1, <3>1, <3>2, WholeIsSplit DEF RecordModelCall, Allocates, InSlugOrder
        <3> QED
            BY <3>3
    <2>2. CASE ~ attributed
        BY <1>1, <2>2 DEF RecordModelCall, Keeps, Unrecorded
    <2> QED
        BY <2>1, <2>2
<1>2. ASSUME NEW c \in Calls, NEW allocations, NEW key \in Keys, NEW method,
             AppendAllocationRevision(c, allocations, key, method, FALSE),
             reverting' \in {reverting, NoRevert},
             InSlugOrder /\ Ordered => BySlug(allocations) = allocations,
             InSlugOrder /\ Ordered /\ Divided =>
                allocations \in Seq([project : Projects, points : Nat])
      PROVE  Allocates(c, allocations, key, method)
    BY <1>2 DEF AppendAllocationRevision, Allocates, KeysReserved, IsSplit
<1>3. ASSUME NEW c \in Calls, NEW request \in Requests, NEW key \in Keys,
             ReplaceAllocations(c, request, key)
      PROVE  \E allocations, method : Allocates(c, allocations, key, method)
    BY <1>3, <1>2, AllocationAssumption DEF ReplaceAllocations, InSlugOrder
<1>4. ASSUME NEW c \in Calls, NEW p \in Projects, NEW key \in Keys,
             RepairModelCallAllocation(c, p, key)
      PROVE  \E allocations, method : Allocates(c, allocations, key, method)
    BY <1>4, <1>2, WholeIsSplit DEF RepairModelCallAllocation, InSlugOrder, IsSplit
<1>5. ASSUME NEW c \in Calls, NEW p \in Projects, AssignUnattributedModelCall(c, p)
      PROVE  Allocates(c, <<[project |-> p, points |-> Whole]>>, "assign", "manual")
    BY <1>5, WholeIsSplit DEF AssignUnattributedModelCall, AppendAllocationRevision, Allocates,
                              InSlugOrder
<1>6. ASSUME AppendRevert
      PROVE  \E c \in Calls : \E allocations, key, method :
                Allocates(c, allocations, key, method)
    <2>1. reverting.call \in Calls /\ reverting.key \in Keys
        BY <1>6 DEF AppendRevert, RevertHolds, Unrecorded
    <2>2. Ordered => BySlug(reverting.allocations) = reverting.allocations
        <3> DEFINE d == reverting.call
                   k == reverting.selected - 1
        <3>1. /\ reverting.selected \in 2..Len(revisions[d])
              /\ reverting.allocations = BySlug(revisions[d][k].allocations)
            BY <1>6 DEF AppendRevert, RevertHolds
        <3>2. Len(revisions[d]) \in Nat
            BY <2>1, LenProperties DEF Histories
        <3>3. k \in 1..Len(revisions[d])
            BY <3>1, <3>2
        <3> HIDE DEF k, d
        <3> QED
            BY <2>1, <3>1, <3>3 DEF Ordered, d
    <2>3. Ordered /\ Divided => reverting.allocations \in Seq([project : Projects, points : Nat])
        <3> DEFINE d == reverting.call
                   k == reverting.selected - 1
        <3>1. /\ reverting.selected \in 2..Len(revisions[d])
              /\ reverting.allocations = BySlug(revisions[d][k].allocations)
            BY <1>6 DEF AppendRevert, RevertHolds
        <3>2. Len(revisions[d]) \in Nat
            BY <2>1, LenProperties DEF Histories
        <3>3. k \in 1..Len(revisions[d])
            BY <3>1, <3>2
        <3> HIDE DEF k, d
        <3> QED
            BY <2>1, <3>1, <3>3 DEF Ordered, Divided, IsSplit, d
    <2> QED
        BY <1>6, <1>2, <2>1, <2>2, <2>3 DEF AppendRevert
<1>7. ASSUME NEW c \in Calls, NEW k \in 1..MaxRevisions, NEW key \in Keys,
             ReadRevertedParent(c, k, key)
      PROVE  Keeps
    BY <1>7 DEF ReadRevertedParent, Keeps, tables, Unrecorded
<1>8. ASSUME AnswerRevert \/ RebuildAllocationProjection \/ UNCHANGED vars
      PROVE  Keeps
    BY <1>8 DEF AnswerRevert, RebuildAllocationProjection, Keeps, tables, vars, Unrecorded
<1> QED
    BY <1>1, <1>3, <1>4, <1>5, <1>6, <1>7, <1>8 DEF Next

\* A decision keeps the invariant: the new revision fits the history of its
\* call, and no other history changes.
LEMMA AllocatesKeepsInv ==
    ASSUME HistoryInv, NEW c \in Calls, NEW allocations, NEW key, NEW method,
           Allocates(c, allocations, key, method)
    PROVE  HistoryInv'
<1> USE DEF HistoryInv
<1> DEFINE h == revisions[c]
           n == Len(h)
           r == NextRevision(c, allocations, key, method)
<1>1. /\ Histories'
      /\ n \in Nat
      /\ h # <<>> <=> n # 0
      /\ Len(revisions'[c]) = n + 1
      /\ \A k \in 1..n : revisions'[c][k] = h[k]
      /\ revisions'[c][n + 1] = r
      /\ \A d \in Calls \ {c} : /\ revisions'[d] = revisions[d]
                                /\ projection'[d] = projection[d]
    <2> HIDE DEF r
    <2> QED
        BY CommitAppends DEF Allocates, r
<1>2. /\ IsRevision(r)
      /\ r.number = n + 1
      /\ r.parent = n
      /\ r.key = key
    BY <1>1, NextRevisionIs
<1> HIDE DEF h, n, r
<1>3. Unrecorded'
    BY <1>1 DEF Unrecorded, Allocates
<1>4. Numbered'
    <2> SUFFICES ASSUME NEW d \in Calls, NEW k \in 1..Len(revisions'[d])
                 PROVE  /\ IsRevision(revisions'[d][k])
                        /\ revisions'[d][k].number = k
                        /\ revisions'[d][k].parent = k - 1
        BY DEF Numbered, IsRevision
    <2>1. CASE d # c
        BY <2>1, <1>1 DEF Numbered
    <2>2. CASE d = c /\ k = n + 1
        BY <2>2, <1>1, <1>2
    <2>3. CASE d = c /\ k \in 1..n
        BY <2>3, <1>1 DEF Numbered, h, n
    <2> QED
        BY <2>1, <2>2, <2>3, <1>1
<1>5. KeysDistinct'
    <2>1. \A k \in 1..n : revisions'[c][k].key # key
        <3>1. DOMAIN h = 1..n
            BY LenProperties DEF Histories, h, n
        <3>2. \A k \in 1..n : h[k].key # key
            BY <3>1 DEF Allocates, UsedKeys, h
        <3> QED
            BY <3>2, <1>1
    <2> SUFFICES ASSUME NEW d \in Calls,
                        NEW j \in 1..Len(revisions'[d]), NEW k \in 1..Len(revisions'[d]),
                        revisions'[d][j].key = revisions'[d][k].key
                 PROVE  j = k
        BY DEF KeysDistinct
    <2>2. CASE d # c
        BY <2>2, <1>1 DEF KeysDistinct
    <2>3. CASE d = c /\ j \in 1..n /\ k \in 1..n
        BY <2>3, <1>1 DEF KeysDistinct, h, n
    <2>4. CASE d = c /\ (j = n + 1 \/ k = n + 1)
        BY <2>4, <2>1, <1>1, <1>2
    <2> QED
        BY <2>2, <2>3, <2>4, <1>1
<1>6. UpgradeTyped'
    BY DEF UpgradeTyped, Allocates, upgrade
<1>7. RevertHolds'
    <2> SUFFICES ASSUME reverting' # NoRevert
                 PROVE  /\ Ready'
                        /\ reverting'.call \in recorded'
                        /\ reverting'.key \in Keys
                        /\ reverting'.selected \in 2..Len(revisions'[reverting'.call])
                        /\ reverting'.allocations =
                              BySlug(revisions'[reverting'.call][reverting'.selected - 1].allocations)
        BY DEF RevertHolds
    <2>1. reverting' = reverting
        BY DEF Allocates
    <2>2. Ready'
        BY DEF Allocates, Ready, upgrade
    <2> DEFINE d == reverting.call
    <2>3. /\ d \in recorded
          /\ d \in Calls
          /\ reverting.key \in Keys
          /\ reverting.selected \in 2..Len(revisions[d])
          /\ reverting.allocations = BySlug(revisions[d][reverting.selected - 1].allocations)
        BY <2>1 DEF RevertHolds, Unrecorded
    <2>4. /\ reverting.selected \in 2..Len(revisions'[d])
          /\ revisions'[d][reverting.selected - 1] = revisions[d][reverting.selected - 1]
        <3>1. CASE d = c
            BY <3>1, <2>3, <1>1 DEF h, n
        <3>2. CASE d # c
            BY <3>2, <2>3, <1>1
        <3> QED
            BY <3>1, <3>2
    <2> QED
        BY <2>1, <2>2, <2>3, <2>4 DEF Allocates
<1> QED
    BY <1>1, <1>3, <1>4, <1>5, <1>6, <1>7

\* A read, a rebuilt projection or a call without a project changes no history.
LEMMA KeepsKeepsInv ==
    ASSUME HistoryInv, Keeps
    PROVE  HistoryInv'
<1> USE DEF HistoryInv, Keeps
<1>1. revisions' = revisions /\ heads' = heads
    OBVIOUS
<1>2. \A c \in Calls : projection'[c] \in {projection[c], Rebuilt(revisions[c])}
    BY DEF Histories
<1>3. Histories'
    <2>1. projection' = [c \in Calls |-> projection'[c]]
        BY DEF Histories
    <2>2. ASSUME NEW c \in Calls
          PROVE  revisions'[c] \in Seq({revisions'[c][k] : k \in 1..Len(revisions'[c])})
        <3>1. revisions[c] \in Seq({revisions[c][k] : k \in 1..Len(revisions[c])})
            BY DEF Histories
        <3>2. revisions'[c] = revisions[c]
            BY <1>1
        <3> QED
            BY <3>1, <3>2, Zenon
    <2> QED
        BY <1>1, <2>1, <2>2 DEF Histories
<1>4. Unrecorded'
    <2> SUFFICES ASSUME NEW c \in Calls \ recorded'
                 PROVE  revisions'[c] = <<>> /\ projection'[c] = {}
        BY DEF Unrecorded
    <2>1. revisions[c] = <<>> /\ projection[c] = {}
        BY DEF Unrecorded
    <2>2. Rebuilt(revisions[c]) = {}
        BY <2>1 DEF Rebuilt
    <2> QED
        BY <1>1, <1>2, <2>1, <2>2
<1>5. Numbered' /\ KeysDistinct'
    <2>1. \A c \in Calls : revisions'[c] = revisions[c]
        BY <1>1
    <2>2. KeysDistinct'
        BY <2>1 DEF KeysDistinct
    <2>3. Numbered'
        <3> SUFFICES ASSUME NEW c \in Calls, NEW k \in 1..Len(revisions'[c])
                     PROVE  /\ IsRevision(revisions'[c][k])
                            /\ revisions'[c][k].number = k
                            /\ revisions'[c][k].parent = k - 1
            BY DEF Numbered, IsRevision
        <3> QED
            BY <2>1 DEF Numbered
    <2> QED
        BY <2>2, <2>3
<1>6. UpgradeTyped' /\ (Ready <=> Ready')
    BY DEF UpgradeTyped, Ready, upgrade
<1>7. RevertHolds'
    <2>1. CASE reverting' \in {reverting, NoRevert}
        BY <2>1, <1>1, <1>6 DEF RevertHolds
    <2>2. CASE \E c \in Calls, k \in 1..MaxRevisions, key \in Keys :
                  ReadRevertedParent(c, k, key)
        <3>1. PICK c \in Calls, k \in 1..MaxRevisions, key \in Keys :
                 ReadRevertedParent(c, k, key)
            BY <2>2
        <3>2. DOMAIN revisions[c] = 1..Len(revisions[c]) /\ Len(revisions[c]) \in Nat
            BY LenProperties DEF Histories
        <3>3. /\ k \in 1..Len(revisions[c])
              /\ revisions[c][k].parent # 0
            BY <3>1, <3>2 DEF ReadRevertedParent
        <3>4. revisions[c][k].parent = k - 1 /\ k \in 2..Len(revisions[c])
            BY <3>2, <3>3 DEF Numbered
        <3>5. c \in recorded
            <4>1. revisions[c] # <<>>
                BY <3>2, <3>3, EmptySeq
            <4> QED
                BY <4>1 DEF Unrecorded
        <3>6. reverting' = [call |-> c, selected |-> k, key |-> key,
                            allocations |-> BySlug(revisions[c][k - 1].allocations)]
            BY <3>1, <3>4 DEF ReadRevertedParent
        <3>7. Ready
            BY <3>1 DEF ReadRevertedParent
        <3> QED
            BY <3>4, <3>5, <3>6, <3>7, <1>1, <1>6 DEF RevertHolds
    <2> QED
        BY <2>1, <2>2
<1> QED
    BY <1>3, <1>4, <1>5, <1>6, <1>7

-----------------------------------------------------------------------------
(* Upgrades.                                                               *)

\* Migration 014 gives every allocated call its first revision; the others
\* leave the histories alone.
LEMMA MigrationIs ==
    ASSUME HistoryInv, ApplyMigration
    PROVE  /\ ~ Ready
           /\ schema' = schema + 1
           /\ UNCHANGED <<recorded, heads, projection, reverting>>
           /\ schema' # 14 => revisions' = revisions
           /\ schema' = 14 => \A c \in Calls :
                 revisions'[c] = (IF projection[c] = {} THEN <<>>
                                  ELSE <<LegacyRevision(c)>>)
           /\ Histories'
           /\ UpgradeTyped'
<1> USE DEF HistoryInv
<1>0. ~ Ready
    BY DEF ApplyMigration, Ready, LastMigration
<1>1. /\ schema' = schema + 1
      /\ UNCHANGED <<recorded, heads, projection, reverting>>
      /\ schema' # 14 => revisions' = revisions
      /\ schema' = 14 => revisions' = [c \in Calls |->
            IF projection[c] = {} THEN <<>> ELSE <<LegacyRevision(c)>>]
    BY DEF ApplyMigration
<1>2. UpgradeTyped'
    BY DEF UpgradeTyped, ApplyMigration, LastMigration
<1>3. ASSUME NEW c \in Calls, schema' = 14
      PROVE  revisions'[c] \in Seq({revisions'[c][k] : k \in 1..Len(revisions'[c])})
    <2> DEFINE s == revisions'[c]
               l == LegacyRevision(c)
    <2>1. CASE projection[c] = {}
        <3>1. s = <<>>
            BY <1>1, <1>3, <2>1
        <3> QED
            BY <3>1
    <2>2. CASE projection[c] # {}
        <3>1. s = <<l>>
            BY <1>1, <1>3, <2>2
        <3> HIDE DEF l
        <3>2. <<l>>[1] = l /\ Len(<<l>>) = 1 /\ <<l>> \in Seq({l})
            OBVIOUS
        <3>3. {s[k] : k \in 1..Len(s)} = {l}
            BY <3>1, <3>2
        <3> QED
            BY <3>1, <3>2, <3>3
    <2> QED
        BY <2>1, <2>2
<1>4. Histories'
    <2>1. CASE schema' = 14
        BY <2>1, <1>1, <1>3 DEF Histories
    <2>2. CASE schema' # 14
        <3>1. revisions' = revisions
            BY <2>2, <1>1
        <3>2. \A c \in Calls :
                 revisions'[c] \in Seq({revisions'[c][k] : k \in 1..Len(revisions'[c])})
            BY <3>1, Zenon DEF Histories
        <3> QED
            BY <3>1, <3>2, <1>1 DEF Histories
    <2> QED
        BY <2>1, <2>2
<1> QED
    BY <1>0, <1>1, <1>2, <1>4

\* The first revisions that migration 014 makes have the right shape.
LEMMA MigrationKeepsInv ==
    ASSUME HistoryInv, ApplyMigration
    PROVE  HistoryInv'
<1>1. /\ ~ Ready
      /\ UNCHANGED <<recorded, heads, projection, reverting>>
      /\ schema' # 14 => revisions' = revisions
      /\ schema' = 14 => \A c \in Calls :
            revisions'[c] = (IF projection[c] = {} THEN <<>> ELSE <<LegacyRevision(c)>>)
      /\ Histories'
      /\ UpgradeTyped'
    BY MigrationIs
<1>2. RevertHolds'
    BY <1>1 DEF HistoryInv, RevertHolds
<1>3. CASE schema' # 14
    <2>1. UNCHANGED <<recorded, revisions, projection>>
        BY <1>1, <1>3
    <2>2. Unrecorded'
        BY <2>1 DEF HistoryInv, Unrecorded
    <2>3. Numbered'
        BY <2>1 DEF HistoryInv, Numbered, IsRevision
    <2>4. KeysDistinct'
        BY <2>1 DEF HistoryInv, KeysDistinct
    <2> QED
        BY <1>1, <1>2, <2>2, <2>3, <2>4 DEF HistoryInv
<1>4. CASE schema' = 14
    <2>1. Unrecorded'
        BY <1>1, <1>4 DEF HistoryInv, Unrecorded
    <2>2. \A c \in Calls :
             \/ revisions'[c] = <<>>
             \/ revisions'[c] = <<LegacyRevision(c)>>
        BY <1>1, <1>4
    <2>3. ASSUME NEW c \in Calls, NEW k \in 1..Len(revisions'[c])
          PROVE  k = 1 /\ revisions'[c][k] = LegacyRevision(c)
        <3> DEFINE l == LegacyRevision(c)
        <3> HIDE DEF l
        <3>1. <<l>>[1] = l /\ Len(<<l>>) = 1
            OBVIOUS
        <3>2. revisions'[c] = <<>> \/ revisions'[c] = <<l>>
            BY <2>2 DEF l
        <3>3. CASE revisions'[c] = <<>>
            <4>1. Len(revisions'[c]) = 0
                BY <3>3
            <4> QED
                BY <2>3, <4>1
        <3>4. CASE revisions'[c] = <<l>>
            <4>1. Len(revisions'[c]) = 1 /\ revisions'[c][1] = l
                BY <3>1, <3>4
            <4> QED
                BY <2>3, <4>1 DEF l
        <3> QED
            BY <3>2, <3>3, <3>4
    <2>4. \A c \in Calls : /\ IsRevision(LegacyRevision(c))
                            /\ LegacyRevision(c).number = 1
                            /\ LegacyRevision(c).parent = 0
        BY DEF IsRevision, LegacyRevision
    <2>5. Numbered'
        <3> SUFFICES ASSUME NEW c \in Calls, NEW k \in 1..Len(revisions'[c])
                     PROVE  /\ IsRevision(revisions'[c][k])
                            /\ revisions'[c][k].number = k
                            /\ revisions'[c][k].parent = k - 1
            BY DEF Numbered, IsRevision
        <3> QED
            BY <2>3, <2>4
    <2>6. KeysDistinct'
        BY <2>3 DEF KeysDistinct
    <2> QED
        BY <2>1, <2>5, <2>6, <1>1, <1>2 DEF HistoryInv
<1> QED
    BY <1>3, <1>4

\* The backfill of hashes fills in missing hashes and changes nothing else.
LEMMA BackfillIs ==
    ASSUME HistoryInv, BackfillRevisionHashes
    PROVE  /\ Histories'
           /\ \A c \in Calls :
                 /\ Len(revisions'[c]) = Len(revisions[c])
                 /\ \A k \in 1..Len(revisions[c]) :
                       LET r == revisions[c][k]
                           filled == revisions'[c][k]
                       IN  /\ IsRevision(filled)
                           /\ filled.number = r.number
                           /\ filled.parent = r.parent
                           /\ filled.key = r.key
                           /\ filled.method = r.method
                           /\ filled.allocations = r.allocations
                           /\ filled.previous = r.previous
                           /\ filled.hash = (IF r.hash # NoHash THEN r.hash
                                             ELSE RevisionHash(r, r.previous))
<1> DEFINE Fill(r) == IF r.hash # NoHash THEN r
                      ELSE [r EXCEPT !.hash = RevisionHash(r, r.previous)]
<1>1. /\ revisions' = [c \in Calls |-> [k \in DOMAIN revisions[c] |-> Fill(revisions[c][k])]]
      /\ UNCHANGED <<heads, projection>>
    BY DEF BackfillRevisionHashes
<1>2. ASSUME NEW c \in Calls
      PROVE  /\ DOMAIN revisions[c] = 1..Len(revisions[c])
             /\ Len(revisions[c]) \in Nat
    BY LenProperties DEF HistoryInv, Histories
<1>3. ASSUME NEW c \in Calls
      PROVE  /\ revisions'[c] = [k \in 1..Len(revisions[c]) |-> Fill(revisions[c][k])]
             /\ revisions'[c] \in Seq({revisions'[c][k] : k \in 1..Len(revisions'[c])})
             /\ Len(revisions'[c]) = Len(revisions[c])
    <2> DEFINE n == Len(revisions[c])
               filled == revisions'[c]
    <2>1. filled = [k \in 1..n |-> Fill(revisions[c][k])]
        BY <1>1, <1>2
    <2>2. n \in Nat
        BY <1>2
    <2>3. filled = [k \in 1..n |-> filled[k]]
        <3> HIDE DEF Fill
        <3> QED
            BY <2>1
    <2> HIDE DEF filled, n
    <2>4. filled \in [1..n -> {filled[k] : k \in 1..n}]
        BY <2>3
    <2>5. filled \in Seq({filled[k] : k \in 1..n}) /\ Len(filled) = n
        BY <2>2, <2>4
    <2> QED
        BY <2>1, <2>5 DEF filled, n
<1>4. Histories'
    <2>1. /\ revisions' = [c \in Calls |-> revisions'[c]]
          /\ heads' = [c \in Calls |-> heads'[c]]
          /\ projection' = [c \in Calls |-> projection'[c]]
        BY <1>1 DEF HistoryInv, Histories
    <2> QED
        BY <1>3, <2>1 DEF Histories
<1>5. ASSUME NEW c \in Calls, NEW k \in 1..Len(revisions[c])
      PROVE  LET r == revisions[c][k]
                 filled == revisions'[c][k]
             IN  /\ IsRevision(filled)
                 /\ filled.number = r.number
                 /\ filled.parent = r.parent
                 /\ filled.key = r.key
                 /\ filled.method = r.method
                 /\ filled.allocations = r.allocations
                 /\ filled.previous = r.previous
                 /\ filled.hash = (IF r.hash # NoHash THEN r.hash
                                   ELSE RevisionHash(r, r.previous))
    <2> DEFINE r == revisions[c][k]
               filled == revisions'[c][k]
               hash == RevisionHash(r, r.previous)
    <2>1. filled = IF r.hash # NoHash THEN r ELSE [r EXCEPT !.hash = hash]
        BY <1>3
    <2>2. r = [number |-> r.number, parent |-> r.parent, key |-> r.key,
               method |-> r.method, allocations |-> r.allocations,
               previous |-> r.previous, hash |-> r.hash]
        BY DEF HistoryInv, Numbered, IsRevision
    <2> HIDE DEF r, filled, hash
    <2>3. CASE r.hash # NoHash
        BY <2>1, <2>2, <2>3 DEF IsRevision, r, filled, hash
    <2>4. CASE r.hash = NoHash
        <3>1. [r EXCEPT !.hash = hash] =
                 [number |-> r.number, parent |-> r.parent, key |-> r.key,
                  method |-> r.method, allocations |-> r.allocations,
                  previous |-> r.previous, hash |-> hash]
            BY <2>2
        <3>2. filled = [number |-> r.number, parent |-> r.parent, key |-> r.key,
                        method |-> r.method, allocations |-> r.allocations,
                        previous |-> r.previous, hash |-> hash]
            BY <2>1, <2>4, <3>1
        <3>3. /\ IsRevision(filled)
              /\ filled.number = r.number
              /\ filled.parent = r.parent
              /\ filled.key = r.key
              /\ filled.method = r.method
              /\ filled.allocations = r.allocations
              /\ filled.previous = r.previous
              /\ filled.hash = hash
            BY <3>2 DEF IsRevision
        <3> QED
            BY <2>4, <3>3 DEF r, filled, hash
    <2> QED
        BY <2>3, <2>4
<1> QED
    BY <1>3, <1>4, <1>5

\* The backfill only fills in hashes.
LEMMA BackfillKeepsInv ==
    ASSUME HistoryInv, BackfillRevisionHashes
    PROVE  HistoryInv'
<1>1. /\ Histories'
      /\ \A c \in Calls :
            /\ Len(revisions'[c]) = Len(revisions[c])
            /\ \A k \in 1..Len(revisions[c]) :
                  /\ IsRevision(revisions'[c][k])
                  /\ revisions'[c][k].number = revisions[c][k].number
                  /\ revisions'[c][k].parent = revisions[c][k].parent
                  /\ revisions'[c][k].key = revisions[c][k].key
    BY BackfillIs
<1>2. /\ UNCHANGED <<recorded, projection, reverting, schema, headPending>>
      /\ hashPending' = FALSE
      /\ ~ Ready
    BY DEF BackfillRevisionHashes, Ready
<1>3. Unrecorded'
    <2> SUFFICES ASSUME NEW c \in Calls \ recorded
                 PROVE  revisions'[c] = <<>>
        BY <1>2 DEF HistoryInv, Unrecorded
    <2>1. Len(revisions[c]) = 0
        BY DEF HistoryInv, Unrecorded
    <2> QED
        BY <1>1, <2>1, EmptySeq DEF Histories
<1>4. Numbered' /\ KeysDistinct'
    BY <1>1 DEF HistoryInv, Numbered, KeysDistinct
<1>5. UpgradeTyped'
    BY <1>2 DEF HistoryInv, UpgradeTyped
<1>6. RevertHolds'
    BY <1>2 DEF HistoryInv, RevertHolds
<1> QED
    BY <1>1, <1>3, <1>4, <1>5, <1>6 DEF HistoryInv

\* Filling in the heads, or a crash, leaves the histories alone.
LEMMA HeadsOrCrashKeepInv ==
    ASSUME HistoryInv, BackfillRevisionHeads \/ Crash
    PROVE  HistoryInv'
<1>1. UNCHANGED <<recorded, revisions, projection, schema>>
    BY DEF BackfillRevisionHeads, Crash, tables
<1>2. heads' = [c \in Calls |-> heads'[c]]
    BY DEF BackfillRevisionHeads, Crash, tables, HistoryInv, Histories
<1>3. Histories'
    <2>1. ASSUME NEW c \in Calls
          PROVE  revisions'[c] \in Seq({revisions'[c][k] : k \in 1..Len(revisions'[c])})
        <3>1. revisions[c] \in Seq({revisions[c][k] : k \in 1..Len(revisions[c])})
            BY DEF HistoryInv, Histories
        <3>2. revisions'[c] = revisions[c]
            BY <1>1
        <3> QED
            BY <3>1, <3>2, Zenon
    <2> QED
        BY <1>1, <1>2, <2>1 DEF HistoryInv, Histories
<1>4. Unrecorded'
    BY <1>1 DEF HistoryInv, Unrecorded
<1>5. Numbered' /\ KeysDistinct'
    <2>1. KeysDistinct'
        BY <1>1 DEF HistoryInv, KeysDistinct
    <2>2. Numbered'
        <3> SUFFICES ASSUME NEW c \in Calls, NEW k \in 1..Len(revisions'[c])
                     PROVE  /\ IsRevision(revisions'[c][k])
                            /\ revisions'[c][k].number = k
                            /\ revisions'[c][k].parent = k - 1
            BY DEF Numbered, IsRevision
        <3> QED
            BY <1>1 DEF HistoryInv, Numbered
    <2> QED
        BY <2>1, <2>2
<1>6. UpgradeTyped' /\ RevertHolds'
    <2>1. CASE Crash
        BY <2>1, <1>1 DEF Crash, HistoryInv, UpgradeTyped, RevertHolds
    <2>2. CASE BackfillRevisionHeads
        BY <2>2, <1>1 DEF BackfillRevisionHeads, Ready, HistoryInv, UpgradeTyped, RevertHolds
    <2> QED
        BY <2>1, <2>2
<1> QED
    BY <1>3, <1>4, <1>5, <1>6 DEF HistoryInv

\* Every step preserves the invariant of the histories.
LEMMA StepKeepsInv ==
    ASSUME HistoryInv, [Next]_vars
    PROVE  HistoryInv'
BY StepKinds, AllocatesKeepsInv, KeepsKeepsInv, MigrationKeepsInv, BackfillKeepsInv,
   HeadsOrCrashKeepInv

\* A new ledger, and one of schema 13, have no histories yet.
LEMMA InitInv ==
    ASSUME Init
    PROVE  HistoryInv
<1>1. /\ revisions = [c \in Calls |-> <<>>]
      /\ \A c \in Calls : revisions[c] = <<>> /\ Len(revisions[c]) = 0
    BY DEF Init
<1>2. /\ projection = [c \in Calls |-> projection[c]]
      /\ \A c \in Calls \ recorded : projection[c] = {}
      /\ recorded \subseteq Calls
    BY DEF Init
<1>3. Histories
    BY <1>1, <1>2 DEF Init, Histories
<1>4. Numbered /\ KeysDistinct /\ Unrecorded
    BY <1>1, <1>2 DEF Numbered, KeysDistinct, Unrecorded
<1>5. UpgradeTyped
    <2>1. /\ schema = 13 \/ schema = 17
          /\ hashPending = FALSE
          /\ headPending = FALSE
        BY DEF Init, LastMigration
    <2>2. schema \in 13..LastMigration
        BY <2>1 DEF LastMigration
    <2>3. hashPending \in BOOLEAN /\ headPending \in BOOLEAN
        BY <2>1, Zenon
    <2> QED
        BY <2>2, <2>3, Zenon DEF UpgradeTyped
<1>6. RevertHolds
    BY DEF Init, RevertHolds
<1> QED
    BY <1>3, <1>4, <1>5, <1>6 DEF HistoryInv

\* The histories have their shape in every reachable state: revisions are
\* numbered from 1, each on top of the one before, under distinct keys, and a
\* running revert holds what it read.
THEOREM HistoriesAreWellFormed == Spec => []HistoryInv
<1>1. Init => HistoryInv
    BY InitInv
<1>2. HistoryInv /\ [Next]_vars => HistoryInv'
    BY StepKeepsInv
<1> QED
    BY <1>1, <1>2, PTL DEF Spec

\* A repeated request makes no second revision, whatever came in between
\* (AppendAllocationRevision looks the key up in its own transaction).
THEOREM KeysAreUsedOnce == Spec => []OneRevisionPerKey
<1>1. HistoryInv => OneRevisionPerKey
    <2> SUFFICES ASSUME HistoryInv, NEW c \in Calls
                 PROVE  \A j, k \in DOMAIN revisions[c] :
                           revisions[c][j].key = revisions[c][k].key => j = k
        BY DEF OneRevisionPerKey
    <2>1. DOMAIN revisions[c] = 1..Len(revisions[c])
        BY LenProperties DEF HistoryInv, Histories
    <2> QED
        BY <2>1 DEF HistoryInv, KeysDistinct
<1> QED
    BY <1>1, HistoriesAreWellFormed, PTL

\* A revert restores what was in force before the revision it takes back,
\* though it read that in a transaction before the one it appends in.
THEOREM RevertsRestore == Spec => RevertRestores
<1>1. ASSUME HistoryInv, AppendRevert
      PROVE  LET c == reverting.call
             IN  Last(revisions'[c]).allocations =
                    BySlug(revisions[c][reverting.selected - 1].allocations)
    <2> DEFINE c == reverting.call
               r == NextRevision(c, reverting.allocations, reverting.key, "revert")
    <2>1. /\ c \in Calls
          /\ reverting.allocations =
                BySlug(revisions[c][reverting.selected - 1].allocations)
        BY <1>1 DEF AppendRevert, HistoryInv, RevertHolds, Unrecorded
    <2>2. Commit(c, r)
        BY <1>1 DEF AppendRevert, AppendAllocationRevision
    <2>3. /\ Len(revisions[c]) \in Nat
          /\ revisions[c] # <<>> <=> Len(revisions[c]) # 0
          /\ Len(revisions'[c]) = Len(revisions[c]) + 1
          /\ revisions'[c][Len(revisions[c]) + 1] = r
        <3> HIDE DEF r, c
        <3> QED
            BY <1>1, <2>1, <2>2, CommitAppends DEF HistoryInv
    <2>4. r.allocations = reverting.allocations
        BY DEF NextRevision
    <2>5. Last(revisions'[c]) = r
        BY <2>3 DEF Last
    <2> QED
        BY <2>1, <2>4, <2>5
<1>2. HistoryInv /\ [Next]_vars =>
        [AppendRevert =>
            LET c == reverting.call
            IN  Last(revisions'[c]).allocations =
                   BySlug(revisions[c][reverting.selected - 1].allocations)]_vars
    BY <1>1
<1> QED
    BY <1>2, HistoriesAreWellFormed, PTL DEF Spec, RevertRestores

-----------------------------------------------------------------------------
(* Assignments.                                                            *)

AssignedFirst ==
    \A c \in Calls : \A k \in 1..Len(revisions[c]) :
        revisions[c][k].key = "assign" => k = 1

\* Only AssignUnattributedModelCall uses its key, and only on an empty history.
LEMMA StepKeepsAssigned ==
    ASSUME KeysReserved, HistoryInv, AssignedFirst, [Next]_vars
    PROVE  AssignedFirst'
<1>1. ASSUME NEW c \in Calls, NEW allocations, NEW key, NEW method,
             Allocates(c, allocations, key, method)
      PROVE  AssignedFirst'
    <2> DEFINE n == Len(revisions[c])
               r == NextRevision(c, allocations, key, method)
    <2>1. /\ n \in Nat
          /\ revisions[c] # <<>> <=> n # 0
          /\ Len(revisions'[c]) = n + 1
          /\ \A k \in 1..n : revisions'[c][k] = revisions[c][k]
          /\ revisions'[c][n + 1] = r
          /\ \A d \in Calls \ {c} : revisions'[d] = revisions[d]
        <3> HIDE DEF r
        <3> QED
            BY <1>1, CommitAppends DEF Allocates, HistoryInv, r
    <2>2. r.key = key
        BY DEF NextRevision
    <2>3. key = "assign" => n = 0
        BY <1>1, <2>1 DEF Allocates
    <2> HIDE DEF n, r
    <2> SUFFICES ASSUME NEW d \in Calls, NEW k \in 1..Len(revisions'[d]),
                        revisions'[d][k].key = "assign"
                 PROVE  k = 1
        BY DEF AssignedFirst
    <2>4. CASE d # c
        BY <2>1, <2>4 DEF AssignedFirst
    <2>5. CASE d = c /\ k = n + 1
        BY <2>1, <2>2, <2>3, <2>5
    <2>6. CASE d = c /\ k \in 1..n
        BY <2>1, <2>6 DEF AssignedFirst, n
    <2> QED
        BY <2>1, <2>4, <2>5, <2>6
<1>2. ASSUME Keeps \/ BackfillRevisionHeads \/ Crash
      PROVE  AssignedFirst'
    <2>1. revisions' = revisions
        BY <1>2 DEF Keeps, BackfillRevisionHeads, Crash, tables
    <2> QED
        BY <2>1 DEF AssignedFirst
<1>3. ASSUME BackfillRevisionHashes
      PROVE  AssignedFirst'
    <2>1. \A c \in Calls :
             /\ Len(revisions'[c]) = Len(revisions[c])
             /\ \A k \in 1..Len(revisions[c]) :
                   revisions'[c][k].key = revisions[c][k].key
        BY <1>3, BackfillIs
    <2> QED
        BY <2>1 DEF AssignedFirst
<1>4. ASSUME ApplyMigration
      PROVE  AssignedFirst'
    <2>1. /\ schema' # 14 => revisions' = revisions
          /\ schema' = 14 => \A c \in Calls :
                revisions'[c] = (IF projection[c] = {} THEN <<>>
                                 ELSE <<LegacyRevision(c)>>)
        BY <1>4, MigrationIs
    <2>2. CASE schema' # 14
        BY <2>1, <2>2 DEF AssignedFirst
    <2>3. CASE schema' = 14
        <3> SUFFICES ASSUME NEW c \in Calls, NEW k \in 1..Len(revisions'[c])
                     PROVE  k = 1
            BY DEF AssignedFirst
        <3> DEFINE l == LegacyRevision(c)
        <3>1. revisions'[c] = <<>> \/ revisions'[c] = <<l>>
            BY <2>1, <2>3
        <3> HIDE DEF l
        <3>2. Len(<<>>) = 0 /\ Len(<<l>>) = 1
            OBVIOUS
        <3>3. Len(revisions'[c]) = 0 \/ Len(revisions'[c]) = 1
            BY <3>1, <3>2
        <3>4. k \in 1..0 \/ k \in 1..1
            BY <3>3
        <3> QED
            BY <3>4
    <2> QED
        BY <2>2, <2>3
<1> QED
    BY <1>1, <1>2, <1>3, <1>4, StepKinds

\* Where users cannot give the key the Store makes up for an assignment, an
\* assignment only ever opens a history (AssignUnattributedModelCall).
THEOREM AssignmentsNeverOverride ==
    ASSUME KeysReserved
    PROVE  Spec => []AssignmentsOpenHistories
<1>1. Init => AssignedFirst
    <2>1. Init => \A c \in Calls : Len(revisions[c]) = 0
        BY DEF Init
    <2> QED
        BY <2>1 DEF AssignedFirst
<1>2. HistoryInv /\ AssignedFirst /\ [Next]_vars => AssignedFirst'
    BY StepKeepsAssigned
<1>3. HistoryInv /\ AssignedFirst => AssignmentsOpenHistories
    <2> SUFFICES ASSUME HistoryInv, AssignedFirst, NEW c \in Calls
                 PROVE  \A k \in DOMAIN revisions[c] :
                           revisions[c][k].key = "assign" => k = 1
        BY DEF AssignmentsOpenHistories
    <2>1. DOMAIN revisions[c] = 1..Len(revisions[c])
        BY LenProperties DEF HistoryInv, Histories
    <2> QED
        BY <2>1 DEF AssignedFirst
<1> QED
    BY <1>1, <1>2, <1>3, HistoriesAreWellFormed, PTL DEF Spec

-----------------------------------------------------------------------------
(* Verification of the histories.                                          *)

\* No upgrade dies between a migration and its backfill.
SafeUpgrades == CrashPoints \subseteq 0..14

Linked ==
    \A c \in Calls : \A k \in 1..Len(revisions[c]) :
        revisions[c][k].previous = (IF k = 1 THEN NoHash ELSE revisions[c][k - 1].hash)

\* A hash is right, or it is one that the upgrade is still to fill in.
Hashed ==
    \A c \in Calls : \A k \in 1..Len(revisions[c]) :
        \/ revisions[c][k].hash = RevisionHash(revisions[c][k], revisions[c][k].previous)
        \/ /\ revisions[c][k].hash = NoHash
           /\ Len(revisions[c]) = 1
           /\ schema < 15 \/ hashPending

HeadsFollow ==
    \A c \in Calls :
        \/ heads[c] = NoHead
        \/ /\ Ready
           /\ Len(revisions[c]) # 0
           /\ heads[c] = [number |-> Len(revisions[c]),
                          hash |-> revisions[c][Len(revisions[c])].hash]

VerifyInv == Linked /\ Hashed /\ HeadsFollow

\* A decision is chained to the latest revision and becomes the head.
LEMMA AllocatesKeepsVerify ==
    ASSUME HistoryInv, VerifyInv,
           NEW c \in Calls, NEW allocations, NEW key, NEW method,
           Allocates(c, allocations, key, method)
    PROVE  VerifyInv'
<1> DEFINE h == revisions[c]
           n == Len(h)
           r == NextRevision(c, allocations, key, method)
<1>1. /\ n \in Nat
      /\ h # <<>> <=> n # 0
      /\ Len(revisions'[c]) = n + 1
      /\ \A k \in 1..n : revisions'[c][k] = h[k]
      /\ revisions'[c][n + 1] = r
      /\ heads'[c] = [number |-> r.number, hash |-> r.hash]
      /\ \A d \in Calls \ {c} : /\ revisions'[d] = revisions[d]
                                /\ heads'[d] = heads[d]
    <2> HIDE DEF r
    <2> QED
        BY CommitAppends DEF Allocates, HistoryInv, r
<1>2. /\ r.number = n + 1
      /\ r.previous = (IF n = 0 THEN NoHash ELSE h[n].hash)
      /\ r.hash = RevisionHash(r, r.previous)
    BY <1>1, NextRevisionIs
<1>3. Ready /\ Ready' /\ ~ (schema < 15 \/ hashPending)
    BY DEF Allocates, Ready, upgrade, LastMigration
<1> HIDE DEF h, n, r
<1>4. Linked'
    <2> SUFFICES ASSUME NEW d \in Calls, NEW k \in 1..Len(revisions'[d])
                 PROVE  revisions'[d][k].previous =
                           (IF k = 1 THEN NoHash ELSE revisions'[d][k - 1].hash)
        BY DEF Linked
    <2>1. CASE d # c
        BY <2>1, <1>1 DEF VerifyInv, Linked
    <2>2. CASE d = c /\ k = n + 1
        <3>1. k # 1 => n # 0 /\ k - 1 = n /\ k - 1 \in 1..n
            BY <2>2, <1>1
        <3>2. k = 1 <=> n = 0
            BY <2>2, <1>1
        <3> QED
            BY <2>2, <3>1, <3>2, <1>1, <1>2
    <2>3. CASE d = c /\ k \in 1..n
        <3>1. k # 1 => k - 1 \in 1..n
            BY <2>3, <1>1
        <3> QED
            BY <2>3, <3>1, <1>1 DEF VerifyInv, Linked, h, n
    <2> QED
        BY <2>1, <2>2, <2>3, <1>1
<1>5. Hashed'
    <2> SUFFICES ASSUME NEW d \in Calls, NEW k \in 1..Len(revisions'[d])
                 PROVE  revisions'[d][k].hash =
                           RevisionHash(revisions'[d][k], revisions'[d][k].previous)
        BY DEF Hashed
    <2>1. CASE d # c
        BY <2>1, <1>1, <1>3 DEF VerifyInv, Hashed
    <2>2. CASE d = c /\ k = n + 1
        BY <2>2, <1>1, <1>2
    <2>3. CASE d = c /\ k \in 1..n
        BY <2>3, <1>1, <1>3 DEF VerifyInv, Hashed, h, n
    <2> QED
        BY <2>1, <2>2, <2>3, <1>1
<1>6. HeadsFollow'
    <2> SUFFICES ASSUME NEW d \in Calls
                 PROVE  \/ heads'[d] = NoHead
                        \/ /\ Ready'
                           /\ Len(revisions'[d]) # 0
                           /\ heads'[d] = [number |-> Len(revisions'[d]),
                                           hash |-> revisions'[d][Len(revisions'[d])].hash]
        BY DEF HeadsFollow, NoHead
    <2>1. CASE d = c
        BY <2>1, <1>1, <1>2, <1>3
    <2>2. CASE d # c
        BY <2>2, <1>1, <1>3 DEF VerifyInv, HeadsFollow
    <2> QED
        BY <2>1, <2>2
<1> QED
    BY <1>4, <1>5, <1>6 DEF VerifyInv

\* The revisions of migration 014 wait for their hash.
LEMMA MigrationKeepsVerify ==
    ASSUME HistoryInv, VerifyInv, ApplyMigration
    PROVE  VerifyInv'
<1>1. /\ ~ Ready
      /\ schema' = schema + 1
      /\ UNCHANGED heads
      /\ schema' # 14 => revisions' = revisions
      /\ schema' = 14 => \A c \in Calls :
            revisions'[c] = (IF projection[c] = {} THEN <<>> ELSE <<LegacyRevision(c)>>)
    BY MigrationIs
<1>2. HeadsFollow'
    BY <1>1 DEF VerifyInv, HeadsFollow, NoHead
<1>3. CASE schema' = 14
    <2>1. ASSUME NEW c \in Calls, NEW k \in 1..Len(revisions'[c])
          PROVE  /\ k = 1
                 /\ Len(revisions'[c]) = 1
                 /\ revisions'[c][k] = LegacyRevision(c)
        <3> DEFINE l == LegacyRevision(c)
        <3>1. revisions'[c] = <<>> \/ revisions'[c] = <<l>>
            BY <1>1, <1>3
        <3> HIDE DEF l
        <3>2. CASE revisions'[c] = <<>>
            <4>1. Len(revisions'[c]) = 0
                BY <3>2
            <4> QED
                BY <2>1, <4>1
        <3>3. CASE revisions'[c] = <<l>>
            <4>1. Len(<<l>>) = 1 /\ <<l>>[1] = l
                OBVIOUS
            <4>2. Len(revisions'[c]) = 1 /\ revisions'[c][1] = l
                BY <3>3, <4>1
            <4> QED
                BY <2>1, <4>2 DEF l
        <3> QED
            BY <3>1, <3>2, <3>3
    <2>2. \A c \in Calls : /\ LegacyRevision(c).previous = NoHash
                            /\ LegacyRevision(c).hash = NoHash
        BY DEF LegacyRevision
    <2>3. schema' < 15
        BY <1>3
    <2>4. Linked'
        BY <2>1, <2>2 DEF Linked
    <2>5. Hashed'
        BY <2>1, <2>2, <2>3 DEF Hashed
    <2> QED
        BY <2>4, <2>5, <1>2 DEF VerifyInv
<1>4. CASE schema' # 14
    <2>1. revisions' = revisions
        BY <1>1, <1>4
    <2>2. (schema < 15 \/ hashPending) => (schema' < 15 \/ hashPending')
        <3>1. schema \in Nat
            BY DEF HistoryInv, UpgradeTyped, LastMigration
        <3>2. schema' = schema + 1 /\ (hashPending' <=> (hashPending \/ schema' = 15))
            BY DEF ApplyMigration
        <3> QED
            BY <3>1, <3>2
    <2>3. Linked'
        BY <2>1 DEF VerifyInv, Linked
    <2>4. Hashed'
        BY <2>1, <2>2 DEF VerifyInv, Hashed
    <2> QED
        BY <2>3, <2>4, <1>2 DEF VerifyInv
<1> QED
    BY <1>3, <1>4

\* The backfill hashes every revision the migration left without a hash.
LEMMA BackfillKeepsVerify ==
    ASSUME HistoryInv, VerifyInv, BackfillRevisionHashes
    PROVE  VerifyInv'
<1>1. \A c \in Calls :
         /\ Len(revisions'[c]) = Len(revisions[c])
         /\ \A k \in 1..Len(revisions[c]) :
               LET r == revisions[c][k]
                   filled == revisions'[c][k]
               IN  /\ filled.number = r.number
                   /\ filled.parent = r.parent
                   /\ filled.key = r.key
                   /\ filled.method = r.method
                   /\ filled.allocations = r.allocations
                   /\ filled.previous = r.previous
                   /\ filled.hash = (IF r.hash # NoHash THEN r.hash
                                     ELSE RevisionHash(r, r.previous))
    BY BackfillIs
<1>2. UNCHANGED heads /\ ~ Ready
    BY DEF BackfillRevisionHashes, Ready
<1>3. HeadsFollow'
    BY <1>2 DEF VerifyInv, HeadsFollow, NoHead
<1>4. ASSUME NEW c \in Calls, NEW k \in 1..Len(revisions[c])
      PROVE  /\ revisions'[c][k].hash =
                   RevisionHash(revisions'[c][k], revisions'[c][k].previous)
             /\ Len(revisions[c]) # 1 => revisions'[c][k].hash = revisions[c][k].hash
    <2> DEFINE r == revisions[c][k]
               filled == revisions'[c][k]
    <2>1. RevisionHash(filled, filled.previous) = RevisionHash(r, r.previous)
        BY <1>1 DEF RevisionHash
    <2>2. filled.hash = (IF r.hash # NoHash THEN r.hash ELSE RevisionHash(r, r.previous))
        BY <1>1
    <2>3. \/ r.hash = RevisionHash(r, r.previous)
          \/ r.hash = NoHash /\ Len(revisions[c]) = 1
        BY DEF VerifyInv, Hashed
    <2>4. RevisionHash(r, r.previous) # NoHash
        BY HashesAreHashes
    <2> HIDE DEF r, filled
    <2>5. /\ filled.hash = RevisionHash(filled, filled.previous)
          /\ Len(revisions[c]) # 1 => filled.hash = r.hash
        BY <2>1, <2>2, <2>3, <2>4
    <2> QED
        BY <2>5 DEF r, filled
<1>5. Hashed'
    BY <1>1, <1>4 DEF Hashed
<1>6. Linked'
    <2> SUFFICES ASSUME NEW c \in Calls, NEW k \in 1..Len(revisions'[c])
                 PROVE  revisions'[c][k].previous =
                           (IF k = 1 THEN NoHash ELSE revisions'[c][k - 1].hash)
        BY DEF Linked
    <2>1. k \in 1..Len(revisions[c]) /\ Len(revisions[c]) \in Nat
        BY <1>1, LenProperties DEF HistoryInv, Histories
    <2>2. revisions'[c][k].previous =
             (IF k = 1 THEN NoHash ELSE revisions[c][k - 1].hash)
        BY <2>1, <1>1 DEF VerifyInv, Linked
    <2>3. k # 1 => k - 1 \in 1..Len(revisions[c]) /\ Len(revisions[c]) # 1
        <3> DEFINE n == Len(revisions[c])
        <3>1. n \in Nat /\ k \in 1..n
            BY <2>1
        <3> HIDE DEF n
        <3>2. k # 1 => k - 1 \in 1..n /\ n # 1
            BY <3>1
        <3> QED
            BY <3>2 DEF n
    <2> QED
        BY <2>2, <2>3, <1>4
<1> QED
    BY <1>3, <1>5, <1>6 DEF VerifyInv

\* The backfill of heads points each head at the latest revision.
LEMMA HeadsKeepVerify ==
    ASSUME HistoryInv, VerifyInv, BackfillRevisionHeads
    PROVE  VerifyInv'
<1>1. /\ UNCHANGED <<revisions, schema, hashPending>>
      /\ schema = LastMigration
      /\ ~ hashPending
      /\ ~ headPending'
    BY DEF BackfillRevisionHeads
<1>2. Linked' /\ Hashed'
    BY <1>1 DEF VerifyInv, Linked, Hashed
<1>3. Ready'
    BY <1>1 DEF Ready
<1>4. ~ Ready
    BY DEF BackfillRevisionHeads, Ready
<1>5. HeadsFollow'
    <2> SUFFICES ASSUME NEW c \in Calls
                 PROVE  \/ heads'[c] = NoHead
                        \/ /\ Len(revisions[c]) # 0
                           /\ heads'[c] = [number |-> Len(revisions[c]),
                                           hash |-> revisions[c][Len(revisions[c])].hash]
        BY <1>1, <1>3 DEF HeadsFollow, NoHead
    <2>1. heads[c] = NoHead
        BY <1>4 DEF VerifyInv, HeadsFollow
    <2>2. /\ Len(revisions[c]) \in Nat
          /\ revisions[c] = <<>> <=> Len(revisions[c]) = 0
        BY LenProperties, EmptySeq DEF HistoryInv, Histories
    <2>3. CASE revisions[c] = <<>>
        BY <2>1, <2>3 DEF BackfillRevisionHeads
    <2>4. CASE revisions[c] # <<>>
        <3>1. Len(revisions[c]) \in 1..Len(revisions[c])
            BY <2>2, <2>4
        <3>2. revisions[c][Len(revisions[c])].number = Len(revisions[c])
            BY <3>1 DEF HistoryInv, Numbered
        <3> QED
            BY <2>1, <2>2, <2>4, <3>2 DEF BackfillRevisionHeads, Last
    <2> QED
        BY <2>3, <2>4
<1> QED
    BY <1>2, <1>5 DEF VerifyInv

\* A crash where SafeUpgrades allows it loses no pending backfill.
LEMMA CrashKeepsVerify ==
    ASSUME SafeUpgrades, HistoryInv, VerifyInv, Crash
    PROVE  VerifyInv'
<1>1. UNCHANGED <<revisions, heads, schema>> /\ ~ hashPending' /\ ~ headPending'
    BY DEF Crash, tables
<1>2. Ready => Ready'
    BY <1>1 DEF Ready
<1>3. (schema < 15 \/ hashPending) => schema' < 15
    <2>1. Ready \/ schema \in 0..14
        BY DEF Crash, SafeUpgrades
    <2> QED
        BY <1>1, <2>1 DEF Ready
<1>4. Linked'
    BY <1>1 DEF VerifyInv, Linked
<1>5. Hashed'
    BY <1>1, <1>3 DEF VerifyInv, Hashed
<1>6. HeadsFollow'
    BY <1>1, <1>2 DEF VerifyInv, HeadsFollow
<1> QED
    BY <1>4, <1>5, <1>6 DEF VerifyInv

\* What changes no history changes nothing that is verified about it.
LEMMA KeepsKeepsVerify ==
    ASSUME VerifyInv, Keeps
    PROVE  VerifyInv'
<1>1. UNCHANGED <<revisions, heads, schema, hashPending>> /\ (Ready <=> Ready')
    BY DEF Keeps, upgrade, Ready
<1>2. Linked' /\ Hashed'
    BY <1>1 DEF VerifyInv, Linked, Hashed
<1>3. HeadsFollow'
    BY <1>1 DEF VerifyInv, HeadsFollow
<1> QED
    BY <1>2, <1>3 DEF VerifyInv

\* The chain, the contents and the head of every history pass qlog verify.
HistoriesVerify ==
    Ready => \A c \in Calls : /\ VerifyChain(revisions[c])
                              /\ VerifyContents(revisions[c])
                              /\ VerifyHead(revisions[c], heads[c])

\* A linked, hashed history whose head follows it passes verification.
LEMMA InvImpliesVerified ==
    ASSUME HistoryInv, VerifyInv
    PROVE  HistoriesVerify
<1> SUFFICES ASSUME Ready, NEW c \in Calls
             PROVE  /\ VerifyChain(revisions[c])
                    /\ VerifyContents(revisions[c])
                    /\ VerifyHead(revisions[c], heads[c])
    BY DEF HistoriesVerify
<1> DEFINE h == revisions[c]
           n == Len(h)
<1>1. /\ n \in Nat
      /\ DOMAIN h = 1..n
      /\ h = <<>> <=> n = 0
    BY LenProperties, EmptySeq DEF HistoryInv, Histories
<1>2. \A k \in 1..n :
         /\ h[k].number = k
         /\ h[k].parent = k - 1
         /\ h[k].previous = (IF k = 1 THEN NoHash ELSE h[k - 1].hash)
    BY DEF HistoryInv, Numbered, VerifyInv, Linked
<1>3. \A k \in 1..n : h[k].hash = RevisionHash(h[k], h[k].previous)
    BY DEF VerifyInv, Hashed, Ready, LastMigration
<1>4. \/ heads[c] = NoHead
      \/ n # 0 /\ heads[c] = [number |-> n, hash |-> h[n].hash]
    BY DEF VerifyInv, HeadsFollow
<1> HIDE DEF h, n
<1>5. VerifyContents(h)
    BY <1>1, <1>3 DEF VerifyContents
<1>6. VerifyChain(h)
    <2>1. \A k \in 1..n : h[k].hash # NoHash
        BY <1>3, HashesAreHashes
    <2> QED
        BY <1>1, <1>2, <2>1 DEF VerifyChain
<1>7. VerifyHead(h, heads[c])
    <2>1. CASE heads[c] = NoHead
        BY <2>1 DEF VerifyHead
    <2>2. CASE n # 0 /\ heads[c] = [number |-> n, hash |-> h[n].hash]
        <3>1. n \in 1..n
            BY <1>1, <2>2
        <3>2. Last(h).number = n /\ Last(h).hash = h[n].hash
            BY <1>2, <3>1 DEF Last, n
        <3> QED
            BY <1>1, <2>2, <3>2 DEF VerifyHead
    <2> QED
        BY <1>4, <2>1, <2>2
<1> QED
    BY <1>5, <1>6, <1>7 DEF h

\* Unless an upgrade dies between a migration and its backfill, histories stay linked and hashed.
LEMMA HistoriesAreVerified ==
    ASSUME SafeUpgrades
    PROVE  Spec => []VerifyInv
<1>1. Init => VerifyInv
    <2> SUFFICES ASSUME Init
                 PROVE  VerifyInv
        OBVIOUS
    <2>1. \A c \in Calls : Len(revisions[c]) = 0 /\ heads[c] = NoHead
        BY DEF Init
    <2> QED
        BY <2>1 DEF VerifyInv, Linked, Hashed, HeadsFollow
<1>2. HistoryInv /\ VerifyInv /\ [Next]_vars => VerifyInv'
    BY StepKinds, AllocatesKeepsVerify, KeepsKeepsVerify, MigrationKeepsVerify,
       BackfillKeepsVerify, HeadsKeepVerify, CrashKeepsVerify
<1> QED
    BY <1>1, <1>2, HistoriesAreWellFormed, PTL DEF Spec

\* So every history of a ledger that is open verifies, whatever was decided in whatever order.
THEOREM WrittenHistoriesVerify ==
    ASSUME SafeUpgrades
    PROVE  Spec => []HistoriesVerify
<1>1. HistoryInv /\ VerifyInv => HistoriesVerify
    BY InvImpliesVerified
<1> QED
    BY <1>1, HistoriesAreWellFormed, HistoriesAreVerified, PTL

-----------------------------------------------------------------------------
(* The projection.                                                         *)

\* From migration 014 on the projection is what the history would rebuild;
\* before, there is no history.
ProjectionFollows ==
    \A c \in Calls :
        /\ schema < 14 =>
              /\ revisions[c] = <<>>
              /\ \/ projection[c] = {}
                 \/ \E kept \in Legacy : projection[c] = Projected(kept, "legacy")
        /\ schema >= 14 => projection[c] = Rebuilt(revisions[c])

ProjectionInv == Ordered /\ ProjectionFollows

\* One legacy row becomes one entry of the first revision.
LEMMA LegacyRevisionIs ==
    ASSUME InSlugOrder, NEW c \in Calls, NEW kept \in Legacy,
           projection[c] = Projected(kept, "legacy")
    PROVE  /\ projection[c] # {}
           /\ LegacyRevision(c).allocations = kept
           /\ LegacyRevision(c).method = "legacy"
           /\ BySlug(kept) = kept
<1> DEFINE a == kept[1]
           row == [ordinal |-> 0, project |-> a.project, points |-> a.points,
                   method |-> "legacy"]
<1>1. /\ kept \in Seq([project : Projects, points : Nat])
      /\ Len(kept) = 1
      /\ BySlug(kept) = kept
    BY AllocationAssumption DEF InSlugOrder
<1>2. /\ DOMAIN kept = 1..1
      /\ a \in [project : Projects, points : Nat]
      /\ kept = [k \in 1..1 |-> a]
    <2>1. kept \in [1..1 -> [project : Projects, points : Nat]]
        BY <1>1, LenProperties
    <2>2. \A k \in 1..1 : kept[k] = a
        OBVIOUS
    <2> QED
        BY <2>1, <2>2
<1>3. projection[c] = {row}
    <2>1. \A k \in 1..1 : k = 1
        OBVIOUS
    <2>2. projection[c] = {[ordinal |-> k - 1, project |-> kept[k].project,
                            points |-> kept[k].points, method |-> "legacy"] :
                              k \in 1..1}
        BY <1>2 DEF Projected
    <2>3. [ordinal |-> 1 - 1, project |-> kept[1].project,
           points |-> kept[1].points, method |-> "legacy"] = row
        OBVIOUS
    <2> QED
        BY <2>1, <2>2, <2>3
<1> HIDE DEF row
<1>4. SetToSeq({row}) = [k \in 1..1 |-> row]
    <2>1. Cardinality({row}) = 1
        BY FS_Singleton
    <2>2. SetToSeq({row}) = CHOOSE f \in [1..1 -> {row}] : IsInjective(f)
        BY <2>1 DEF SetToSeq
    <2>3. IsInjective([k \in 1..1 |-> row])
        BY DEF IsInjective
    <2>4. SetToSeq({row}) \in [1..1 -> {row}]
        BY <2>2, <2>3
    <2> QED
        BY <2>4
<1>5. /\ LegacyRevision(c).allocations =
            [k \in 1..1 |-> [project |-> row.project, points |-> row.points]]
      /\ LegacyRevision(c).method = "legacy"
    <2>1. SetToSeq(projection[c]) = [k \in 1..1 |-> row]
        BY <1>3, <1>4
    <2> QED
        BY <2>1 DEF LegacyRevision
<1>6. [project |-> row.project, points |-> row.points] = a
    BY <1>2 DEF row
<1>7. LegacyRevision(c).allocations = kept
    BY <1>2, <1>5, <1>6
<1> QED
    BY <1>1, <1>3, <1>5, <1>7

\* Every revision is made from allocations that are in slug order already.
LEMMA StepKeepsOrdered ==
    ASSUME InSlugOrder, HistoryInv, ProjectionInv, [Next]_vars
    PROVE  Ordered'
<1>1. ASSUME NEW c \in Calls, NEW allocations, NEW key, NEW method,
             Allocates(c, allocations, key, method)
      PROVE  Ordered'
    <2> DEFINE n == Len(revisions[c])
               r == NextRevision(c, allocations, key, method)
    <2>1. /\ n \in Nat
          /\ Len(revisions'[c]) = n + 1
          /\ \A k \in 1..n : revisions'[c][k] = revisions[c][k]
          /\ revisions'[c][n + 1] = r
          /\ \A d \in Calls \ {c} : revisions'[d] = revisions[d]
        <3> HIDE DEF r
        <3> QED
            BY <1>1, CommitAppends DEF Allocates, HistoryInv, r
    <2>2. r.allocations = allocations
        BY DEF NextRevision
    <2>3. BySlug(allocations) = allocations
        BY <1>1 DEF Allocates, ProjectionInv
    <2> HIDE DEF n, r
    <2> SUFFICES ASSUME NEW d \in Calls, NEW k \in 1..Len(revisions'[d])
                 PROVE  BySlug(revisions'[d][k].allocations) = revisions'[d][k].allocations
        BY DEF Ordered
    <2>4. CASE d # c
        BY <2>1, <2>4 DEF ProjectionInv, Ordered
    <2>5. CASE d = c /\ k = n + 1
        BY <2>1, <2>2, <2>3, <2>5
    <2>6. CASE d = c /\ k \in 1..n
        BY <2>1, <2>6 DEF ProjectionInv, Ordered, n
    <2> QED
        BY <2>1, <2>4, <2>5, <2>6
<1>2. ASSUME Keeps \/ BackfillRevisionHeads \/ Crash
      PROVE  Ordered'
    <2>1. revisions' = revisions
        BY <1>2 DEF Keeps, BackfillRevisionHeads, Crash, tables
    <2> QED
        BY <2>1 DEF ProjectionInv, Ordered
<1>3. ASSUME BackfillRevisionHashes
      PROVE  Ordered'
    <2>1. \A c \in Calls :
             /\ Len(revisions'[c]) = Len(revisions[c])
             /\ \A k \in 1..Len(revisions[c]) :
                   revisions'[c][k].allocations = revisions[c][k].allocations
        BY <1>3, BackfillIs
    <2> QED
        BY <2>1 DEF ProjectionInv, Ordered
<1>4. ASSUME ApplyMigration
      PROVE  Ordered'
    <2>1. /\ schema' = schema + 1
          /\ schema' # 14 => revisions' = revisions
          /\ schema' = 14 => \A c \in Calls :
                revisions'[c] = (IF projection[c] = {} THEN <<>>
                                 ELSE <<LegacyRevision(c)>>)
        BY <1>4, MigrationIs
    <2>2. CASE schema' # 14
        BY <2>1, <2>2 DEF ProjectionInv, Ordered
    <2>3. CASE schema' = 14
        <3> SUFFICES ASSUME NEW c \in Calls, NEW k \in 1..Len(revisions'[c])
                     PROVE  BySlug(revisions'[c][k].allocations) = revisions'[c][k].allocations
            BY DEF Ordered
        <3>1. schema < 14
            BY <2>1, <2>3 DEF HistoryInv, UpgradeTyped
        <3>2. CASE projection[c] = {}
            <4>1. revisions'[c] = <<>>
                BY <2>1, <2>3, <3>2
            <4>2. Len(revisions'[c]) = 0
                BY <4>1
            <4> QED
                BY <4>2
        <3>3. CASE projection[c] # {}
            <4> DEFINE l == LegacyRevision(c)
            <4>1. PICK kept \in Legacy : projection[c] = Projected(kept, "legacy")
                BY <3>1, <3>3 DEF ProjectionInv, ProjectionFollows
            <4>2. BySlug(l.allocations) = l.allocations
                BY <4>1, LegacyRevisionIs
            <4>3. revisions'[c] = <<l>>
                BY <2>1, <2>3, <3>3
            <4> HIDE DEF l
            <4>4. k = 1 /\ revisions'[c][k] = l
                <5>1. Len(<<l>>) = 1 /\ <<l>>[1] = l
                    OBVIOUS
                <5> QED
                    BY <4>3, <5>1
            <4> QED
                BY <4>2, <4>4
        <3> QED
            BY <3>2, <3>3
    <2> QED
        BY <2>2, <2>3
<1> QED
    BY <1>1, <1>2, <1>3, <1>4, StepKinds

\* Every step leaves the projection as a rebuild of the latest revision.
LEMMA StepKeepsFollows ==
    ASSUME InSlugOrder, HistoryInv, ProjectionInv, [Next]_vars
    PROVE  ProjectionFollows'
<1>0. schema \in 13..17
    BY DEF HistoryInv, UpgradeTyped, LastMigration
<1>1. ASSUME NEW c \in Calls, NEW allocations, NEW key, NEW method,
             Allocates(c, allocations, key, method)
      PROVE  ProjectionFollows'
    <2> DEFINE r == NextRevision(c, allocations, key, method)
    <2>1. /\ Len(revisions[c]) \in Nat
          /\ Len(revisions'[c]) = Len(revisions[c]) + 1
          /\ revisions'[c][Len(revisions[c]) + 1] = r
          /\ projection'[c] = Projected(r.allocations, r.method)
          /\ \A d \in Calls \ {c} : /\ revisions'[d] = revisions[d]
                                    /\ projection'[d] = projection[d]
        <3> HIDE DEF r
        <3> QED
            BY <1>1, CommitAppends DEF Allocates, HistoryInv, r
    <2>2. r.allocations = allocations
        BY DEF NextRevision
    <2>3. BySlug(allocations) = allocations
        BY <1>1 DEF Allocates, ProjectionInv
    <2>4. schema = 17 /\ schema' = 17
        BY <1>1 DEF Allocates, Ready, upgrade, LastMigration
    <2> HIDE DEF r
    <2>5. Rebuilt(revisions'[c]) = projection'[c]
        <3>1. revisions'[c] # <<>>
            <4>1. Len(revisions'[c]) # 0
                BY <2>1
            <4> QED
                BY <4>1
        <3>2. Last(revisions'[c]) = r
            BY <2>1 DEF Last
        <3> QED
            BY <2>1, <2>2, <2>3, <3>1, <3>2 DEF Rebuilt
    <2>6. \A d \in Calls \ {c} : projection[d] = Rebuilt(revisions[d])
        BY <2>4 DEF ProjectionInv, ProjectionFollows
    <2>7. \A d \in Calls : projection'[d] = Rebuilt(revisions'[d])
        BY <2>1, <2>5, <2>6
    <2> QED
        BY <2>4, <2>7 DEF ProjectionFollows
<1>2. ASSUME Keeps
      PROVE  ProjectionFollows'
    <2>1. UNCHANGED <<revisions, schema>>
        BY <1>2 DEF Keeps, upgrade
    <2>2. \A c \in Calls : projection'[c] \in {projection[c], Rebuilt(revisions[c])}
        BY <1>2 DEF Keeps
    <2>3. \A c \in Calls : revisions[c] = <<>> => Rebuilt(revisions[c]) = {}
        BY DEF Rebuilt
    <2> QED
        BY <2>1, <2>2, <2>3 DEF ProjectionInv, ProjectionFollows
<1>3. ASSUME BackfillRevisionHeads \/ Crash
      PROVE  ProjectionFollows'
    <2>1. UNCHANGED <<revisions, projection, schema>>
        BY <1>3 DEF BackfillRevisionHeads, Crash, tables
    <2> QED
        BY <2>1 DEF ProjectionInv, ProjectionFollows
<1>4. ASSUME BackfillRevisionHashes
      PROVE  ProjectionFollows'
    <2>1. schema = 17 /\ UNCHANGED <<projection, schema>>
        BY <1>4 DEF BackfillRevisionHashes, LastMigration
    <2>2. ASSUME NEW c \in Calls
          PROVE  Rebuilt(revisions'[c]) = Rebuilt(revisions[c])
        <3> DEFINE n == Len(revisions[c])
        <3>1. /\ Len(revisions'[c]) = n
              /\ n # 0 => /\ revisions'[c][n].allocations = revisions[c][n].allocations
                          /\ revisions'[c][n].method = revisions[c][n].method
            <4>1. n \in Nat
                BY LenProperties DEF HistoryInv, Histories
            <4>2. n # 0 => n \in 1..n
                BY <4>1
            <4> QED
                BY <1>4, <4>2, BackfillIs
        <3>2. /\ revisions[c] = <<>> <=> n = 0
              /\ revisions'[c] = <<>> <=> n = 0
            BY <1>4, <3>1, BackfillIs, EmptySeq DEF HistoryInv, Histories
        <3> HIDE DEF n
        <3> QED
            BY <3>1, <3>2 DEF Rebuilt, Last, n
    <2>3. \A c \in Calls : projection[c] = Rebuilt(revisions[c])
        BY <2>1 DEF ProjectionInv, ProjectionFollows
    <2> QED
        BY <2>1, <2>2, <2>3 DEF ProjectionFollows
<1>5. ASSUME ApplyMigration
      PROVE  ProjectionFollows'
    <2>1. /\ schema' = schema + 1
          /\ UNCHANGED projection
          /\ schema' # 14 => revisions' = revisions
          /\ schema' = 14 => \A c \in Calls :
                revisions'[c] = (IF projection[c] = {} THEN <<>>
                                 ELSE <<LegacyRevision(c)>>)
        BY <1>5, MigrationIs
    <2>2. CASE schema' # 14
        BY <2>1, <2>2, <1>0 DEF ProjectionInv, ProjectionFollows
    <2>3. CASE schema' = 14
        <3>1. ASSUME NEW c \in Calls
              PROVE  projection[c] = Rebuilt(revisions'[c])
            <4>1. CASE projection[c] = {}
                BY <2>1, <2>3, <4>1 DEF Rebuilt
            <4>2. CASE projection[c] # {}
                <5> DEFINE l == LegacyRevision(c)
                <5>1. PICK kept \in Legacy : projection[c] = Projected(kept, "legacy")
                    BY <2>1, <2>3, <4>2, <1>0 DEF ProjectionInv, ProjectionFollows
                <5>2. /\ l.allocations = kept
                      /\ l.method = "legacy"
                      /\ BySlug(kept) = kept
                    BY <5>1, LegacyRevisionIs
                <5>3. revisions'[c] = <<l>>
                    BY <2>1, <2>3, <4>2
                <5> HIDE DEF l
                <5>4. <<l>> # <<>> /\ Last(<<l>>) = l
                    BY DEF Last
                <5> QED
                    BY <5>1, <5>2, <5>3, <5>4 DEF Rebuilt
            <4> QED
                BY <4>1, <4>2
        <3> QED
            BY <2>1, <2>3, <3>1 DEF ProjectionFollows
    <2> QED
        BY <2>2, <2>3
<1> QED
    BY <1>1, <1>2, <1>3, <1>4, <1>5, StepKinds

\* For splits written in slug order every revision is stored in the order it
\* is read in, and the projection follows the history through every decision
\* and every step of an upgrade: the strengthening the next two theorems need.
THEOREM ProjectionFollowsHistory ==
    ASSUME InSlugOrder
    PROVE  Spec => []ProjectionInv
<1>1. Init => ProjectionInv
    <2> SUFFICES ASSUME Init
                 PROVE  ProjectionInv
        OBVIOUS
    <2>1. \A c \in Calls : revisions[c] = <<>> /\ Len(revisions[c]) = 0
        BY DEF Init
    <2>2. Ordered
        BY <2>1 DEF Ordered
    <2>3. ASSUME NEW c \in Calls
          PROVE  /\ schema < 14 =>
                       \/ projection[c] = {}
                       \/ \E kept \in Legacy : projection[c] = Projected(kept, "legacy")
                 /\ schema >= 14 => projection[c] = {}
        <3>1. schema = 13 \/ (schema = 17 /\ recorded = {})
            BY DEF Init, LastMigration
        <3>2. PICK kept \in [recorded -> Legacy \union {<<>>}] :
                 projection = [d \in Calls |->
                     IF d \notin recorded THEN {}
                     ELSE {[row EXCEPT !.ordinal = 0] : row \in Projected(kept[d], "legacy")}]
            BY DEF Init
        <3>3. CASE c \notin recorded
            BY <3>2, <3>3
        <3>4. CASE c \in recorded /\ kept[c] = <<>>
            <4>1. Projected(kept[c], "legacy") = {}
                BY <3>4 DEF Projected
            <4> QED
                BY <3>2, <3>4, <4>1
        <3>5. CASE c \in recorded /\ kept[c] \in Legacy
            <4> DEFINE s == kept[c]
            <4>1. Len(s) = 1 /\ s \in Seq([project : Projects, points : Nat])
                BY <3>5, AllocationAssumption DEF InSlugOrder
            <4>2. DOMAIN s = 1..1
                BY <4>1, LenProperties
            <4> HIDE DEF s
            <4>3. \A row \in Projected(s, "legacy") : [row EXCEPT !.ordinal = 0] = row
                <5>1. \A k \in DOMAIN s : k - 1 = 0
                    BY <4>2
                <5> QED
                    BY <5>1 DEF Projected
            <4>4. projection[c] = {[row EXCEPT !.ordinal = 0] : row \in Projected(s, "legacy")}
                BY <3>2, <3>5 DEF s
            <4>5. projection[c] = Projected(s, "legacy")
                BY <4>3, <4>4
            <4> QED
                BY <3>1, <3>5, <4>5 DEF s
        <3> QED
            BY <3>2, <3>3, <3>4, <3>5
    <2>4. ProjectionFollows
        BY <2>1, <2>3 DEF ProjectionFollows, Rebuilt
    <2> QED
        BY <2>2, <2>4 DEF ProjectionInv
<1>2. HistoryInv /\ ProjectionInv /\ [Next]_vars => ProjectionInv'
    BY StepKeepsOrdered, StepKeepsFollows DEF ProjectionInv
<1> QED
    BY <1>1, <1>2, HistoriesAreWellFormed, PTL DEF Spec

\* For splits written in slug order the projection never holds anything but
\* what a rebuild would make of the history (ADR-007), crashes of an upgrade
\* included.
THEOREM ProjectionIsAlwaysRebuildable ==
    ASSUME InSlugOrder
    PROVE  Spec => []ProjectionIsRebuildable
<1>1. ProjectionInv => ProjectionIsRebuildable
    BY DEF ProjectionInv, ProjectionFollows, ProjectionIsRebuildable, Ready, LastMigration
<1> QED
    BY <1>1, ProjectionFollowsHistory, PTL

\* qlog verify accepts the allocations of every ledger the program writes or
\* upgrades, if splits are written in slug order and no upgrade dies between a
\* migration and its backfill.
THEOREM WrittenAllocationsVerify ==
    ASSUME InSlugOrder, SafeUpgrades
    PROVE  Spec => []AllocationsVerify
<1>1. ProjectionIsRebuildable /\ HistoriesVerify => AllocationsVerify
    BY DEF ProjectionIsRebuildable, HistoriesVerify, AllocationsVerify,
           VerifyAllocations, VerifyProjection
<1>2. Spec => []HistoriesVerify
    BY WrittenHistoriesVerify
<1>3. Spec => []ProjectionIsRebuildable
    BY ProjectionIsAlwaysRebuildable
<1> QED
    BY <1>1, <1>2, <1>3, PTL

-----------------------------------------------------------------------------
(* Detection of what was tampered with.                                    *)

\* A history has its head, unless the upgrade is still to write it.  Without a head nobody would
\* miss a history that lost its only revision.
HeadsPresent ==
    \A c \in Calls :
        revisions[c] # <<>> => heads[c] # NoHead \/ schema < 16 \/ headPending

\* Decisions write the head, backfills make up for it.
LEMMA StepKeepsHeads ==
    ASSUME SafeUpgrades, HistoryInv, HeadsPresent, [Next]_vars
    PROVE  HeadsPresent'
<1> USE DEF HistoryInv
<1>1. ASSUME NEW c \in Calls, NEW allocations, NEW key, NEW method,
             Allocates(c, allocations, key, method)
      PROVE  HeadsPresent'
    <2> DEFINE n == Len(revisions[c])
               r == NextRevision(c, allocations, key, method)
    <2>1. /\ n \in Nat
          /\ revisions[c] # <<>> <=> n # 0
          /\ heads'[c] = [number |-> r.number, hash |-> r.hash]
          /\ \A d \in Calls \ {c} : revisions'[d] = revisions[d] /\ heads'[d] = heads[d]
        BY <1>1, CommitAppends DEF Allocates
    <2>2. r.number = n + 1
        BY <2>1, NextRevisionIs
    <2> HIDE DEF r, n
    <2>3. heads'[c] # NoHead
        <3>1. heads'[c].number # 0
            BY <2>1, <2>2
        <3> QED
            BY <3>1 DEF NoHead
    <2>4. UNCHANGED <<schema, headPending>>
        BY <1>1 DEF Allocates, upgrade
    <2> QED
        BY <2>1, <2>3, <2>4 DEF HeadsPresent, NoHead
<1>2. CASE Keeps
    BY <1>2 DEF Keeps, upgrade, HeadsPresent, NoHead
<1>3. CASE ApplyMigration
    <2>1. /\ schema' = schema + 1 /\ schema \in Nat
          /\ headPending' = (headPending \/ schema' = 16)
          /\ heads' = heads
          /\ schema' # 14 => revisions' = revisions
        BY <1>3, MigrationIs DEF ApplyMigration, UpgradeTyped, LastMigration
    <2>2. CASE schema' < 16
        BY <2>2 DEF HeadsPresent
    <2>3. CASE ~ schema' < 16
        <3>1. (schema < 16 => schema' = 16) /\ schema' # 14
            BY <2>1, <2>3
        <3>2. schema < 16 \/ headPending => headPending'
            BY <2>1, <3>1, Zenon
        <3> QED
            BY <2>1, <3>1, <3>2 DEF HeadsPresent, NoHead
    <2> QED
        BY <2>2, <2>3
<1>4. CASE BackfillRevisionHashes
    <2>1. \A c \in Calls : /\ Len(revisions'[c]) = Len(revisions[c])
                           /\ revisions[c] = <<>> <=> Len(revisions[c]) = 0
                           /\ revisions'[c] = <<>> <=> Len(revisions'[c]) = 0
        <3>1. Histories' /\ \A c \in Calls : Len(revisions'[c]) = Len(revisions[c])
            BY <1>4, BackfillIs
        <3>2. \A c \in Calls : revisions[c] = <<>> <=> Len(revisions[c]) = 0
            BY EmptySeq DEF Histories
        <3>3. \A c \in Calls : revisions'[c] = <<>> <=> Len(revisions'[c]) = 0
            BY <3>1, EmptySeq DEF Histories
        <3> QED
            BY <3>1, <3>2, <3>3
    <2>2. UNCHANGED <<heads, schema, headPending>>
        BY <1>4 DEF BackfillRevisionHashes
    <2> QED
        BY <2>1, <2>2 DEF HeadsPresent, NoHead
<1>5. CASE BackfillRevisionHeads
    <2>1. revisions' = revisions
        BY <1>5 DEF BackfillRevisionHeads
    <2>2. ASSUME NEW c \in Calls, revisions[c] # <<>>
          PROVE  heads'[c] # NoHead
        <3>1. CASE heads[c] # NoHead
            BY <1>5, <3>1 DEF BackfillRevisionHeads
        <3>2. CASE heads[c] = NoHead
            <4>1. /\ heads'[c] = [number |-> Last(revisions[c]).number,
                                  hash |-> Last(revisions[c]).hash]
                  /\ Len(revisions[c]) \in Nat /\ Len(revisions[c]) # 0
                BY <1>5, <2>2, <3>2, LenProperties, EmptySeq DEF BackfillRevisionHeads, Histories
            <4>2. Last(revisions[c]).number = Len(revisions[c])
                BY <4>1 DEF Numbered, Last
            <4>3. heads'[c].number # 0
                BY <4>1, <4>2
            <4> QED
                BY <4>3 DEF NoHead
        <3> QED
            BY <3>1, <3>2
    <2> QED
        BY <2>1, <2>2 DEF HeadsPresent, NoHead
<1>6. CASE Crash
    <2>1. UNCHANGED <<revisions, heads, schema>> /\ (Ready \/ schema \in 0..14)
        BY <1>6 DEF Crash, tables, SafeUpgrades
    <2>2. schema < 16 \/ headPending => schema < 16
        BY <2>1 DEF Ready
    <2> QED
        BY <2>1, <2>2 DEF HeadsPresent, NoHead
<1> QED
    BY <1>1, <1>2, <1>3, <1>4, <1>5, <1>6, StepKinds

\* What is left of a sequence without its element k.
LEMMA RemoveAtIs ==
    ASSUME NEW S, NEW s \in Seq(S), NEW k \in 1..Len(s)
    PROVE  /\ Len(RemoveAt(s, k)) = Len(s) - 1
           /\ DOMAIN RemoveAt(s, k) = 1..(Len(s) - 1)
           /\ \A j \in 1..(Len(s) - 1) :
                 RemoveAt(s, k)[j] = IF j < k THEN s[j] ELSE s[j + 1]
<1> DEFINE head == SubSeq(s, 1, k - 1)
           tail == SubSeq(s, k + 1, Len(s))
           n == Len(s)
<1>1. /\ n \in Nat /\ k \in 1..n
      /\ head \in Seq(S) /\ Len(head) = k - 1
      /\ \A j \in 1..(k - 1) : head[j] = s[j]
    OBVIOUS
<1>2. /\ tail \in Seq(S) /\ Len(tail) = n - k
      /\ \A j \in 1..(n - k) : tail[j] = s[k + j]
    OBVIOUS
<1>3. RemoveAt(s, k) = head \o tail
    BY DEF RemoveAt
<1> HIDE DEF head, tail, n
<1>4. /\ Len(head \o tail) = n - 1
      /\ DOMAIN (head \o tail) = 1..(n - 1)
      /\ \A j \in 1..(n - 1) : (head \o tail)[j] = IF j < k THEN head[j] ELSE tail[j - (k - 1)]
    <2>1. Len(head \o tail) = Len(head) + Len(tail) /\ head \o tail \in Seq(S)
        BY <1>1, <1>2
    <2>2. \A j \in 1..(Len(head) + Len(tail)) :
             (head \o tail)[j] = IF j <= Len(head) THEN head[j] ELSE tail[j - Len(head)]
        BY <1>1, <1>2
    <2>3. \A j \in 1..(n - 1) : (j <= k - 1 <=> j < k) /\ (k - 1) + (n - k) = n - 1
        BY <1>1
    <2>4. Len(head) + Len(tail) = n - 1
        BY <1>1, <1>2
    <2> QED
        BY <1>1, <2>1, <2>2, <2>3, <2>4, LenProperties
<1>5. \A j \in 1..(n - 1) : (head \o tail)[j] = IF j < k THEN s[j] ELSE s[j + 1]
    <2> TAKE j \in 1..(n - 1)
    <2>1. CASE j < k
        BY <1>1, <1>4, <2>1
    <2>2. CASE ~ j < k
        <3>1. j - (k - 1) \in 1..(n - k) /\ k + (j - (k - 1)) = j + 1
            BY <1>1, <2>2
        <3> QED
            BY <1>2, <1>4, <2>2, <3>1
    <2> QED
        BY <2>1, <2>2
<1> QED
    BY <1>3, <1>4, <1>5 DEF n

\* A missing revision shows in the numbers of those after it, or in the head.
LEMMA MissingRevisionShows ==
    ASSUME HistoryInv, VerifyInv, HeadsPresent, Ready,
           NEW c \in Calls, NEW k \in 1..Len(revisions[c])
    PROVE  LET left == RemoveAt(revisions[c], k)
           IN  ~ (VerifyChain(left) /\ VerifyHead(left, heads[c]))
<1> DEFINE h == revisions[c]
           n == Len(h)
           left == RemoveAt(h, k)
<1>1. /\ h \in Seq({h[j] : j \in 1..Len(h)})
      /\ n \in Nat /\ k \in 1..n /\ (h = <<>> <=> n = 0)
    BY LenProperties, EmptySeq DEF HistoryInv, Histories
<1>2. /\ Len(left) = n - 1
      /\ DOMAIN left = 1..(n - 1)
      /\ \A j \in 1..(n - 1) : left[j] = IF j < k THEN h[j] ELSE h[j + 1]
    <2> HIDE DEF h
    <2> QED
        BY <1>1, RemoveAtIs
<1>3. \A j \in 1..n : h[j].number = j
    BY DEF HistoryInv, Numbered
<1>4. heads[c] # NoHead
    BY <1>1 DEF HeadsPresent, Ready, LastMigration
<1>5. heads[c].number = n
    <2>1. heads[c] = [number |-> n, hash |-> h[n].hash]
        BY <1>4, Zenon DEF VerifyInv, HeadsFollow
    <2> QED
        BY <2>1
<1> HIDE DEF h, n, left
<1>6. CASE k < n
    <2> SUFFICES ASSUME VerifyChain(left) PROVE FALSE
        BY DEF left, h
    <2>1. k \in DOMAIN left /\ left[k].number = k + 1
        <3>1. k \in 1..(n - 1) /\ k + 1 \in 1..n /\ ~ k < k
            BY <1>1, <1>6
        <3>2. left[k] = h[k + 1]
            BY <1>2, <3>1
        <3> QED
            BY <1>2, <1>3, <3>1, <3>2
    <2>2. left[k].number = k
        BY <2>1, Zenon DEF VerifyChain
    <2> QED
        BY <1>1, <2>1, <2>2
<1>7. CASE k = n
    <2> SUFFICES ASSUME VerifyHead(left, heads[c]) PROVE FALSE
        BY DEF left, h
    <2>1. /\ left # <<>>
          /\ heads[c] = [number |-> Last(left).number, hash |-> Last(left).hash]
        BY <1>4 DEF VerifyHead
    <2>2. heads[c].number = Last(left).number
        BY <2>1
    <2>3. Last(left) = left[n - 1]
        BY <1>2 DEF Last
    <2>4. n - 1 # 0
        <3> SUFFICES ASSUME n = 1 PROVE FALSE
            BY <1>1
        <3>1. DOMAIN left = {}
            BY <1>2
        <3> QED
            BY <1>1, <2>1, <3>1, RemoveAtIs, EmptySeq DEF left
    <2>5. Last(left).number = n - 1
        BY <1>1, <1>2, <1>3, <1>7, <2>3, <2>4
    <2> QED
        BY <1>1, <1>5, <2>2, <2>5
<1> QED
    BY <1>1, <1>6, <1>7

\* A revision that still verifies after a change has its method and its shares.
LEMMA ChangedRevisionShows ==
    ASSUME HistoryInv, VerifyInv, Ready,
           NEW c \in Calls, NEW k \in 1..Len(revisions[c]), NEW request, NEW method,
           VerifyContents([revisions[c] EXCEPT ![k].allocations = request,
                                               ![k].method = method])
    PROVE  /\ method = revisions[c][k].method
           /\ BySlug(request) = BySlug(revisions[c][k].allocations)
<1> DEFINE h == revisions[c]
           r == h[k]
           shared == [h EXCEPT ![k].allocations = request]
           changed == [shared EXCEPT ![k].method = method]
<1>1. h \in [1..Len(h) -> {h[j] : j \in 1..Len(h)}]
    BY LenProperties DEF HistoryInv, Histories
<1>2. r = [number |-> r.number, parent |-> r.parent, key |-> r.key, method |-> r.method,
           allocations |-> r.allocations, previous |-> r.previous, hash |-> r.hash]
    BY DEF HistoryInv, Numbered, IsRevision
<1>3. r.hash = RevisionHash(r, r.previous)
    BY DEF VerifyInv, Hashed, Ready, LastMigration
<1>4. k \in DOMAIN shared /\ shared[k] = [r EXCEPT !.allocations = request]
    <2> HIDE DEF h
    <2> QED
        BY <1>1 DEF h
<1>5. k \in DOMAIN changed /\ changed[k] = [[r EXCEPT !.allocations = request] EXCEPT !.method = method]
    <2> HIDE DEF shared
    <2> QED
        BY <1>4
<1>6. /\ changed[k].hash = r.hash /\ changed[k].previous = r.previous
      /\ changed[k].method = method /\ changed[k].allocations = request
    <2> HIDE DEF changed, r
    <2> QED
        BY <1>2, <1>5
<1>7. changed[k].hash = RevisionHash(changed[k], changed[k].previous)
    <2> HIDE DEF changed
    <2> QED
        BY <1>5 DEF VerifyContents, changed
<1> HIDE DEF changed, r
<1> QED
    BY <1>3, <1>6, <1>7 DEF RevisionHash, r

\* qlog verify misses no revision, no change to one, and no row of the projection
\* (verifyAllocationRevisionChain, -Contents, -Heads, verifyAllocationProjection), under the
\* hypotheses under which it accepts what was written.
THEOREM TamperingShows ==
    ASSUME InSlugOrder, SafeUpgrades
    PROVE  Spec => []TamperingIsDetected
<1>1. Init => HeadsPresent
    BY DEF Init, HeadsPresent
<1>2. HistoryInv /\ HeadsPresent /\ [Next]_vars => HeadsPresent'
    BY StepKeepsHeads
<1>3. HistoryInv /\ VerifyInv /\ HeadsPresent /\ ProjectionIsRebuildable => TamperingIsDetected
    <2> SUFFICES ASSUME HistoryInv, VerifyInv, HeadsPresent, ProjectionIsRebuildable, Ready,
                        NEW c \in Calls, NEW k \in DOMAIN revisions[c]
                 PROVE  /\ ~ VerifyAllocations(RemoveAt(revisions[c], k), heads[c], projection[c])
                        /\ \A request \in Requests, method \in Methods :
                              LET changed == [revisions[c] EXCEPT ![k].allocations = request,
                                                                  ![k].method = method]
                              IN  VerifyAllocations(changed, heads[c], projection[c]) =>
                                     /\ method = revisions[c][k].method
                                     /\ BySlug(request) = BySlug(revisions[c][k].allocations)
                        /\ \A row \in projection[c] :
                              ~ VerifyAllocations(revisions[c], heads[c], projection[c] \ {row})
        BY DEF TamperingIsDetected
    <2>1. k \in 1..Len(revisions[c]) /\ revisions[c] # <<>>
        BY LenProperties, EmptySeq DEF HistoryInv, Histories
    <2>2. ~ VerifyAllocations(RemoveAt(revisions[c], k), heads[c], projection[c])
        BY <2>1, MissingRevisionShows DEF VerifyAllocations
    <2>3. ASSUME NEW request \in Requests, NEW method \in Methods,
                 VerifyAllocations([revisions[c] EXCEPT ![k].allocations = request,
                                                        ![k].method = method],
                                   heads[c], projection[c])
          PROVE  /\ method = revisions[c][k].method
                 /\ BySlug(request) = BySlug(revisions[c][k].allocations)
        BY <2>1, <2>3, ChangedRevisionShows DEF VerifyAllocations
    <2>4. ASSUME NEW row \in projection[c]
          PROVE  ~ VerifyAllocations(revisions[c], heads[c], projection[c] \ {row})
        BY <2>1, <2>4 DEF VerifyAllocations, VerifyProjection, ProjectionIsRebuildable
    <2> QED
        BY <2>2, <2>3, <2>4
<1> QED
    BY <1>1, <1>2, <1>3, HistoriesAreWellFormed, HistoriesAreVerified,
       ProjectionIsAlwaysRebuildable, PTL DEF Spec

-----------------------------------------------------------------------------
(* The shares that projects report.                                        *)

\* Before there was a history calls were divided like after.
LegacyIsDivided == \A kept \in Legacy : ValidateAllocations(kept)

\* Every revision is made from allocations that add up to the whole.
LEMMA StepKeepsDivided ==
    ASSUME InSlugOrder, LegacyIsDivided, HistoryInv, ProjectionInv, Divided, [Next]_vars
    PROVE  Divided'
<1>1. ASSUME NEW c \in Calls, NEW allocations, NEW key, NEW method,
             Allocates(c, allocations, key, method)
      PROVE  Divided'
    <2> DEFINE n == Len(revisions[c])
               r == NextRevision(c, allocations, key, method)
    <2>1. /\ n \in Nat
          /\ Len(revisions'[c]) = n + 1
          /\ \A k \in 1..n : revisions'[c][k] = revisions[c][k]
          /\ revisions'[c][n + 1] = r
          /\ \A d \in Calls \ {c} : revisions'[d] = revisions[d]
        <3> HIDE DEF r
        <3> QED
            BY <1>1, CommitAppends DEF Allocates, HistoryInv, r
    <2>2. r.allocations = allocations
        BY DEF NextRevision
    <2>3. IsSplit(allocations)
        BY <1>1 DEF Allocates, ProjectionInv
    <2> HIDE DEF n, r
    <2> SUFFICES ASSUME NEW d \in Calls, NEW k \in 1..Len(revisions'[d])
                 PROVE  IsSplit(revisions'[d][k].allocations)
        BY DEF Divided
    <2>4. CASE d # c
        BY <2>1, <2>4 DEF Divided
    <2>5. CASE d = c /\ k = n + 1
        BY <2>1, <2>2, <2>3, <2>5
    <2>6. CASE d = c /\ k \in 1..n
        BY <2>1, <2>6 DEF Divided, n
    <2> QED
        BY <2>1, <2>4, <2>5, <2>6
<1>2. ASSUME Keeps \/ BackfillRevisionHeads \/ Crash
      PROVE  Divided'
    <2>1. revisions' = revisions
        BY <1>2 DEF Keeps, BackfillRevisionHeads, Crash, tables
    <2> QED
        BY <2>1 DEF Divided
<1>3. ASSUME BackfillRevisionHashes
      PROVE  Divided'
    <2>1. \A c \in Calls :
             /\ Len(revisions'[c]) = Len(revisions[c])
             /\ \A k \in 1..Len(revisions[c]) :
                   revisions'[c][k].allocations = revisions[c][k].allocations
        BY <1>3, BackfillIs
    <2> QED
        BY <2>1 DEF Divided
<1>4. ASSUME ApplyMigration
      PROVE  Divided'
    <2>1. /\ schema' = schema + 1
          /\ schema' # 14 => revisions' = revisions
          /\ schema' = 14 => \A c \in Calls :
                revisions'[c] = (IF projection[c] = {} THEN <<>>
                                 ELSE <<LegacyRevision(c)>>)
        BY <1>4, MigrationIs
    <2>2. CASE schema' # 14
        BY <2>1, <2>2 DEF Divided
    <2>3. CASE schema' = 14
        <3> SUFFICES ASSUME NEW c \in Calls, NEW k \in 1..Len(revisions'[c])
                     PROVE  IsSplit(revisions'[c][k].allocations)
            BY DEF Divided
        <3>1. schema < 14
            BY <2>1, <2>3 DEF HistoryInv, UpgradeTyped
        <3>2. CASE projection[c] = {}
            <4>1. revisions'[c] = <<>>
                BY <2>1, <2>3, <3>2
            <4>2. Len(revisions'[c]) = 0
                BY <4>1
            <4> QED
                BY <4>2
        <3>3. CASE projection[c] # {}
            <4> DEFINE l == LegacyRevision(c)
            <4>1. PICK kept \in Legacy : projection[c] = Projected(kept, "legacy")
                BY <3>1, <3>3 DEF ProjectionInv, ProjectionFollows
            <4>2. IsSplit(l.allocations)
                BY <4>1, LegacyRevisionIs, AllocationAssumption DEF IsSplit, LegacyIsDivided
            <4>3. revisions'[c] = <<l>>
                BY <2>1, <2>3, <3>3
            <4> HIDE DEF l
            <4>4. k = 1 /\ revisions'[c][k] = l
                <5>1. Len(<<l>>) = 1 /\ <<l>>[1] = l
                    OBVIOUS
                <5> QED
                    BY <4>3, <5>1
            <4> QED
                BY <4>2, <4>4
        <3> QED
            BY <3>2, <3>3
    <2> QED
        BY <2>2, <2>3
<1> QED
    BY <1>1, <1>2, <1>3, <1>4, StepKinds

\* Every projection that is not empty is that of a split.
LEMMA ProjectionsAreSplits ==
    ASSUME InSlugOrder, LegacyIsDivided, HistoryInv, ProjectionInv, Divided,
           NEW c \in Calls, projection[c] # {}
    PROVE  \E a, method : IsSplit(a) /\ projection[c] = Projected(a, method)
<1>1. CASE schema < 14
    <2>1. PICK kept \in Legacy : projection[c] = Projected(kept, "legacy")
        BY <1>1 DEF ProjectionInv, ProjectionFollows
    <2>2. IsSplit(kept)
        BY AllocationAssumption DEF IsSplit, LegacyIsDivided
    <2> QED
        BY <2>1, <2>2
<1>2. CASE ~ schema < 14
    <2> DEFINE h == revisions[c]
               n == Len(h)
    <2>1. projection[c] = Rebuilt(h)
        BY <1>2 DEF ProjectionInv, ProjectionFollows, HistoryInv, UpgradeTyped, LastMigration
    <2>2. h # <<>>
        BY <2>1 DEF Rebuilt
    <2>3. n \in 1..n
        BY <2>2, LenProperties, EmptySeq DEF HistoryInv, Histories
    <2>4. IsSplit(h[n].allocations) /\ BySlug(h[n].allocations) = h[n].allocations
        BY <2>3 DEF Divided, ProjectionInv, Ordered
    <2> HIDE DEF h
    <2>5. projection[c] = Projected(h[n].allocations, h[n].method)
        BY <2>1, <2>2, <2>4 DEF Rebuilt, Last
    <2> QED
        BY <2>4, <2>5
<1> QED
    BY <1>1, <1>2

\* However often a call was split, repaired, reverted, rebuilt or upgraded, its projects report all
\* the tokens that it used, and none twice, to whatever number the shares are rounded
\* (apportionShare): the share of a row ends where that of the next begins.
THEOREM AllTokensAreShared ==
    ASSUME InSlugOrder, LegacyIsDivided, TokensOf \subseteq Nat
    PROVE  Spec => []SharesAddUp
<1>1. Init => Divided
    <2> SUFFICES ASSUME Init PROVE Divided
        OBVIOUS
    <2>1. \A c \in Calls : Len(revisions[c]) = 0
        BY DEF Init
    <2> QED
        BY <2>1 DEF Divided
<1>2. HistoryInv /\ ProjectionInv /\ Divided /\ [Next]_vars => Divided'
    BY StepKeepsDivided
<1>3. HistoryInv /\ ProjectionInv /\ Divided => SharesAddUp
    <2> SUFFICES ASSUME HistoryInv, ProjectionInv, Divided,
                        NEW c \in Calls, NEW tokens \in TokensOf, projection[c] # {},
                        NEW order \in ReportOrders(projection[c])
                 PROVE  Total(SharesOf(tokens, order)) = tokens
        BY Zenon DEF SharesAddUp, Total
    <2>1. PICK a, method : IsSplit(a) /\ projection[c] = Projected(a, method)
        BY ProjectionsAreSplits
    <2>2. tokens \in Nat /\ order \in ReportOrders(Projected(a, method))
        BY <2>1
    <2> QED
        BY <2>1, <2>2, SplitsAddUp
<1> QED
    BY <1>1, <1>2, <1>3, HistoriesAreWellFormed, ProjectionFollowsHistory, PTL DEF Spec

=============================================================================
