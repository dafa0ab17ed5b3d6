---------------------------- MODULE MatrixProofs ----------------------------
(***************************************************************************)
(* Proofs about Matrix: what the queries return for a tool with a valid    *)
(* document, of any number of entries.                                     *)
(*                                                                         *)
(* The loops of the code are recursive functions over the positions of a   *)
(* list.  The first section is what induction on a position needs; it      *)
(* comes from the fact that finite sets are well-founded under inclusion.  *)
(***************************************************************************)
EXTENDS Matrix, FiniteSetTheorems, WellFoundedInduction, TLAPS

-----------------------------------------------------------------------------
(* Induction.                                                              *)

\* A set of natural numbers has a least element.
LEMMA Least ==
    ASSUME NEW T, T \subseteq Nat, T # {}
    PROVE  \E m \in T : \A n \in T : m <= n
<1> DEFINE Below == {0..n : n \in T}
<1>1. Below \subseteq FiniteSubsetsOf(Nat) /\ Below # {}
  <2>1. ASSUME NEW n \in T
        PROVE  0..n \in FiniteSubsetsOf(Nat)
    <3>1. n \in Nat /\ 0..n \in SUBSET Nat
      OBVIOUS
    <3>2. IsFiniteSet(0..n)
      BY <3>1, FS_Interval
    <3> QED
      BY <3>1, <3>2 DEF FiniteSubsetsOf
  <2>2. PICK n \in T : TRUE
    OBVIOUS
  <2>3. 0..n \in Below
    OBVIOUS
  <2> QED
    BY <2>1, <2>3
<1>2. PICK B \in Below : \A C \in Below : <<C, B>> \notin StrictSubsetOrdering(Nat)
  BY <1>1, FS_StrictSubsetOrderingWellFounded, WFMin
<1>3. PICK m \in T : B = 0..m
  BY <1>2
<1>4. ASSUME NEW n \in T, n < m
      PROVE  FALSE
  <2>1. 0..n \subseteq 0..m /\ 0..n # 0..m
    <3>1. m \in Nat /\ n \in Nat /\ m \in 0..m /\ m \notin 0..n
      BY <1>4
    <3> QED
      BY <3>1, <1>4
  <2>2. 0..n \in SUBSET Nat /\ 0..m \in SUBSET Nat /\ 0..n \in Below
    OBVIOUS
  <2>3. <<0..n, 0..m>> \in StrictSubsetOrdering(Nat)
    BY <2>1, <2>2 DEF StrictSubsetOrdering
  <2> QED
    BY <1>2, <1>3, <2>2, <2>3
<1> QED
  BY <1>4

\* What holds at 0 and goes from each position to the next holds up to the last.
LEMMA UpTo ==
    ASSUME NEW n \in Nat, NEW T, 0 \in T, \A i \in 1..n : i - 1 \in T => i \in T
    PROVE  0..n \subseteq T
<1> DEFINE Missing == (0..n) \ T
<1> SUFFICES ASSUME Missing # {} PROVE FALSE
  OBVIOUS
<1>1. PICK m \in Missing : \A k \in Missing : m <= k
  <2>1. Missing \subseteq Nat
    OBVIOUS
  <2> HIDE DEF Missing
  <2> QED
    BY <2>1, Least
<1>2. m \in 1..n /\ m - 1 \in 0..n
  BY <1>1
<1>3. m - 1 \notin Missing
  BY <1>1, <1>2
<1> QED
  BY <1>1, <1>2, <1>3

\* f[i] is the result of the first i steps of a loop that starts with x0.
IsLoop(f, n, X, x0, step) ==
    f \in [0..n -> X] /\ f[0] = x0 /\ \A i \in 1..n : f[i] = step[<<i, f[i - 1]>>]

\* A loop over n positions has its results: step[i, x] is what position i makes of x.
LEMMA Loop ==
    ASSUME NEW n \in Nat, NEW X, NEW x0 \in X, NEW step \in [(1..n) \X X -> X]
    PROVE  \E f : IsLoop(f, n, X, x0, step)
<1> DEFINE T == {k \in 0..n : \E f : IsLoop(f, k, X, x0, step)}
<1>1. 0 \in T
  <2> DEFINE f == [i \in 0..0 |-> x0]
  <2>1. f \in [0..0 -> X]
    OBVIOUS
  <2>2. f[0] = x0 /\ \A i \in 1..0 : f[i] = step[<<i, f[i - 1]>>]
    OBVIOUS
  <2>3. 0 \in 0..n
    OBVIOUS
  <2>4. IsLoop(f, 0, X, x0, step)
    BY <2>1, <2>2 DEF IsLoop
  <2> QED
    BY <2>3, <2>4
<1>2. ASSUME NEW k \in 1..n, k - 1 \in T
      PROVE  k \in T
  <2>1. PICK f \in [0..(k - 1) -> X] :
          f[0] = x0 /\ \A i \in 1..(k - 1) : f[i] = step[<<i, f[i - 1]>>]
    BY <1>2 DEF IsLoop
  <2> DEFINE g == [i \in 0..k |-> IF i = k THEN step[<<k, f[k - 1]>>] ELSE f[i]]
  <2>2. step[<<k, f[k - 1]>>] \in X
    OBVIOUS
  <2>3. g \in [0..k -> X]
    BY <2>2
  <2>4. g[0] = x0
    BY <2>1
  <2>5. ASSUME NEW i \in 1..k
        PROVE  g[i] = step[<<i, g[i - 1]>>]
    <3>1. CASE i = k
      <4>1. g[k] = step[<<k, f[k - 1]>>] /\ g[k - 1] = f[k - 1]
        OBVIOUS
      <4> QED
        BY <3>1, <4>1
    <3>2. CASE i # k
      <4>1. i \in 1..(k - 1) /\ i - 1 \in 0..(k - 1)
        BY <3>2
      <4>2. g[i] = f[i] /\ g[i - 1] = f[i - 1]
        BY <3>2, <4>1
      <4> QED
        BY <2>1, <4>1, <4>2
    <3> QED
      BY <3>1, <3>2
  <2>6. k \in 0..n
    OBVIOUS
  <2>7. IsLoop(g, k, X, x0, step)
    BY <2>3, <2>4, <2>5 DEF IsLoop
  <2> QED
    BY <2>6, <2>7
<1>3. n \in T
  <2> HIDE DEF T
  <2> QED
    BY <1>1, <1>2, UpTo
<1> QED
  BY <1>3

-----------------------------------------------------------------------------
(* The order of versions.                                                  *)

\* What is assumed of the constants: versions parse to four numbers, and a missing
\* one does not.
VersionConstants ==
    /\ Versions \subseteq Nat \X Nat \X Nat \X {0, 1}
    /\ NoVersion \notin Versions /\ BadVersion \notin Versions

\* A version is four numbers.
LEMMA VersionParts ==
    ASSUME VersionConstants, NEW v \in Versions
    PROVE  /\ v[1] \in Nat /\ v[2] \in Nat /\ v[3] \in Nat /\ v[4] \in Nat
           /\ v = <<v[1], v[2], v[3], v[4]>>
BY DEF VersionConstants

\* Versions are compared part by part.
LEMMA GreaterByParts ==
    ASSUME VersionConstants, NEW a \in Versions, NEW b \in Versions
    PROVE  Greater(a, b) <=>
             \/ a[1] > b[1]
             \/ a[1] = b[1] /\ a[2] > b[2]
             \/ a[1] = b[1] /\ a[2] = b[2] /\ a[3] > b[3]
             \/ a[1] = b[1] /\ a[2] = b[2] /\ a[3] = b[3] /\ a[4] > b[4]
<1>1. 1..4 = {1, 2, 3, 4} /\ 1..(1 - 1) = {} /\ 1..(2 - 1) = {1}
      /\ 1..(3 - 1) = {1, 2} /\ 1..(4 - 1) = {1, 2, 3}
  OBVIOUS
<1>2. Greater(a, b) <=> \E i \in {1, 2, 3, 4} : a[i] > b[i] /\ \A j \in 1..(i - 1) : a[j] = b[j]
  BY <1>1 DEF Greater
<1> QED
  BY <1>1, <1>2

\* Of two versions that are not the same, exactly one is greater.
LEMMA GreaterTotal ==
    ASSUME VersionConstants, NEW a \in Versions, NEW b \in Versions
    PROVE  /\ ~(Greater(a, b) /\ Greater(b, a))
           /\ ~Greater(a, a)
           /\ a = b \/ Greater(a, b) \/ Greater(b, a)
BY VersionParts, GreaterByParts

\* A version above a greater one is greater.
LEMMA GreaterTransitive ==
    ASSUME VersionConstants, NEW a \in Versions, NEW b \in Versions, NEW c \in Versions,
           Greater(a, b), Greater(b, c)
    PROVE  Greater(a, c)
BY VersionParts, GreaterByParts

-----------------------------------------------------------------------------
(* What the loop over the entries of a tool returns.                       *)

\* The loop has a result for every number of entries.
LEMMA BestLoop ==
    ASSUME VersionConstants, NEW entries, NEW E, entries \in Seq(E), NEW candidates
    PROVE  \E best \in [0..Len(entries) -> E \union {None}] :
             /\ Best(entries, candidates) = best[Len(entries)]
             /\ best[0] = None
             /\ \A i \in 1..Len(entries) :
                  best[i] = IF i \in candidates
                               /\ (best[i - 1] = None \/ Greater(entries[i].app, best[i - 1].app))
                              THEN entries[i] ELSE best[i - 1]
<1> DEFINE n == Len(entries)
           X == E \union {None}
           After(i, x) == IF i \in candidates /\ (x = None \/ Greater(entries[i].app, x.app))
                            THEN entries[i] ELSE x
           step == [p \in (1..n) \X X |-> After(p[1], p[2])]
           Results(f) == [i \in 0..n |-> IF i = 0 THEN None ELSE After(i, f[i - 1])]
<1>1. n \in Nat /\ None \in X /\ step \in [(1..n) \X X -> X]
  OBVIOUS
<1>2. PICK f \in [0..n -> X] : f[0] = None /\ \A i \in 1..n : f[i] = step[<<i, f[i - 1]>>]
  <2> HIDE DEF n, X, step
  <2>1. \E f : IsLoop(f, n, X, None, step)
    BY <1>1, Loop
  <2> QED
    BY <2>1 DEF IsLoop
<1>3. \A i \in 1..n : f[i] = After(i, f[i - 1])
  <2> SUFFICES ASSUME NEW i \in 1..n PROVE f[i] = After(i, f[i - 1])
    OBVIOUS
  <2>1. <<i, f[i - 1]>> \in (1..n) \X X
    BY <1>1
  <2> HIDE DEF After, X
  <2> QED
    BY <1>2, <2>1
<1>4. f = Results(f)
  <2>1. \A i \in 0..n : f[i] = Results(f)[i]
    <3> HIDE DEF After
    <3> QED
      BY <1>1, <1>2, <1>3
  <2> HIDE DEF After
  <2> QED
    BY <2>1
<1>5. Best(entries, candidates) = (CHOOSE g : g = Results(g))[n]
  BY DEF Best
<1>6. PICK g : g = Results(g) /\ Best(entries, candidates) = g[n]
  <2> HIDE DEF Results, n
  <2> QED
    BY <1>4, <1>5
<1>7. g[0] = None /\ \A i \in 1..n : g[i] = After(i, g[i - 1])
  <2>1. \A i \in 0..n : g[i] = IF i = 0 THEN None ELSE After(i, g[i - 1])
    <3> HIDE DEF After
    <3> QED
      BY <1>6
  <2> HIDE DEF After
  <2> QED
    BY <1>1, <2>1
<1>8. g \in [0..n -> X]
  <2> DEFINE T == {i \in 0..n : g[i] \in X}
  <2>1. 0 \in T
    BY <1>1, <1>7
  <2>2. ASSUME NEW i \in 1..n, i - 1 \in T
        PROVE  i \in T
    BY <1>7, <2>2
  <2>3. 0..n \subseteq T
    <3> HIDE DEF T, n
    <3> QED
      BY <1>1, <2>1, <2>2, UpTo
  <2>4. DOMAIN g = 0..n /\ g = [i \in DOMAIN g |-> g[i]]
    <3> HIDE DEF After
    <3> QED
      BY <1>6
  <2> HIDE DEF X
  <2> QED
    BY <2>3, <2>4
<1> QED
  BY <1>6, <1>7, <1>8

\* It returns None without candidates, and else one that no candidate is above.
LEMMA BestIsHighest ==
    ASSUME VersionConstants, NEW entries, NEW E, entries \in Seq(E), NEW candidates,
           candidates \subseteq DOMAIN entries,
           \A i \in candidates : entries[i].app \in Versions
    PROVE  /\ candidates = {} => Best(entries, candidates) = None
           /\ candidates # {} =>
                \E i \in candidates :
                  /\ Best(entries, candidates) = entries[i]
                  /\ \A j \in candidates : ~Greater(entries[j].app, entries[i].app)
<1> DEFINE n == Len(entries)
           Highest(i, seen) == \A j \in seen : ~Greater(entries[j].app, entries[i].app)
           Right(x, seen) == \/ seen = {} /\ x = None
                            \/ \E i \in seen : x = entries[i] /\ Highest(i, seen)
           Seen(k) == candidates \cap 1..k
<1>1. PICK best \in [0..n -> E \union {None}] :
        /\ Best(entries, candidates) = best[n]
        /\ best[0] = None
        /\ \A i \in 1..n :
             best[i] = IF i \in candidates
                          /\ (best[i - 1] = None \/ Greater(entries[i].app, best[i - 1].app))
                         THEN entries[i] ELSE best[i - 1]
  BY BestLoop
<1>2. n \in Nat /\ candidates \subseteq 1..n
  OBVIOUS
<1>3. \A i \in candidates : entries[i] # None
  BY DEF VersionConstants, None
<1> DEFINE T == {k \in 0..n : Right(best[k], Seen(k))}
<1>4. 0 \in T
  BY <1>1, <1>2
<1>5. ASSUME NEW k \in 1..n, k - 1 \in T
      PROVE  k \in T
  <2>1. k \in 0..n /\ Right(best[k - 1], Seen(k - 1))
    BY <1>5
  <2>2. CASE k \notin candidates
    <3>1. Seen(k) = Seen(k - 1)
      BY <1>2, <2>2
    <3>2. best[k] = best[k - 1]
      BY <1>1, <2>2
    <3> HIDE DEF Right, Seen
    <3> QED
      BY <2>1, <3>1, <3>2
  <2>3. CASE k \in candidates
    <3>1. Seen(k) = Seen(k - 1) \union {k} /\ k \notin Seen(k - 1)
      BY <1>2, <2>3
    <3>2. Seen(k - 1) \subseteq candidates
      OBVIOUS
    <3>3. best[k] = IF best[k - 1] = None \/ Greater(entries[k].app, best[k - 1].app)
                      THEN entries[k] ELSE best[k - 1]
      BY <1>1, <2>3
    <3>4. ~Greater(entries[k].app, entries[k].app)
      BY <2>3, GreaterTotal
    <3> HIDE DEF Seen
    <3>5. CASE Seen(k - 1) = {}
      <4>1. best[k] = entries[k]
        BY <2>1, <3>3, <3>5
      <4>2. Seen(k) = {k}
        BY <3>1, <3>5
      <4> QED
        BY <2>1, <3>4, <4>1, <4>2
    <3>6. CASE Seen(k - 1) # {}
      <4>1. PICK i \in Seen(k - 1) : best[k - 1] = entries[i] /\ Highest(i, Seen(k - 1))
        BY <2>1, <3>6
      <4>2. i \in candidates /\ best[k - 1] # None
        BY <1>3, <3>2, <4>1
      <4>3. CASE Greater(entries[k].app, entries[i].app)
        <5>1. best[k] = entries[k]
          BY <3>3, <4>1, <4>3
        <5>2. ASSUME NEW j \in Seen(k - 1)
              PROVE  ~Greater(entries[j].app, entries[k].app)
          <6>1. ~Greater(entries[j].app, entries[i].app) /\ j \in candidates
            BY <3>2, <4>1
          <6> QED
            BY <2>3, <4>2, <4>3, <6>1, GreaterTransitive, GreaterTotal
        <5>3. Highest(k, Seen(k))
          BY <3>1, <3>4, <5>2
        <5> QED
          BY <2>1, <3>1, <5>1, <5>3
      <4>4. CASE ~Greater(entries[k].app, entries[i].app)
        <5>1. best[k] = entries[i]
          BY <3>3, <4>1, <4>2, <4>4
        <5>2. Highest(i, Seen(k)) /\ i \in Seen(k)
          BY <3>1, <4>1, <4>4
        <5> HIDE DEF Highest
        <5> QED
          BY <2>1, <5>1, <5>2
      <4> QED
        BY <4>3, <4>4
    <3> QED
      BY <3>5, <3>6
  <2> QED
    BY <2>2, <2>3
<1>6. n \in T
  <2> HIDE DEF T, n
  <2>1. 0..n \subseteq T
    BY <1>2, <1>4, <1>5, UpTo
  <2> QED
    BY <1>2, <2>1
<1>7. Seen(n) = candidates
  BY <1>2
<1> HIDE DEF Seen
<1> QED
  BY <1>1, <1>6, <1>7

-----------------------------------------------------------------------------
(* Ascending versions.                                                     *)

\* A version of an ascending list is above every version before it, however
\* many versions are missing in between.
LEMMA AscendingOverGaps ==
    ASSUME VersionConstants, NEW vs, vs \in Seq(Versions \union {NoVersion}), Ascending(vs),
           NEW i \in DOMAIN vs, NEW j \in DOMAIN vs, i < j,
           vs[i] # NoVersion, vs[j] # NoVersion
    PROVE  Greater(vs[j], vs[i])
<1> DEFINE n == Len(vs)
           \* The last version up to position k is the m-th.
           LastUpTo(m, k) == /\ m \in 1..k /\ vs[m] # NoVersion
                         /\ \A l \in (m + 1)..k : vs[l] = NoVersion
           T == {k \in 0..n : i <= k =>
                   \E m \in 1..k : LastUpTo(m, k) /\ (m = i \/ Greater(vs[m], vs[i]))}
<1>1. n \in Nat /\ i \in 1..n /\ j \in 1..n
  OBVIOUS
<1>2. 0 \in T
  BY <1>1
<1>3. ASSUME NEW k \in 1..n, k - 1 \in T
      PROVE  k \in T
  <2>1. CASE k < i
    BY <1>1, <2>1
  <2>2. CASE k = i
    <3>1. LastUpTo(k, k)
      BY <2>2
    <3> QED
      BY <2>2, <3>1
  <2>3. CASE k > i
    <3>1. PICK m \in 1..(k - 1) : LastUpTo(m, k - 1) /\ (m = i \/ Greater(vs[m], vs[i]))
      BY <1>1, <1>3, <2>3
    <3>2. CASE vs[k] = NoVersion
      <4>1. LastUpTo(m, k)
        BY <3>1, <3>2
      <4> HIDE DEF LastUpTo
      <4> QED
        BY <3>1, <4>1
    <3>3. CASE vs[k] # NoVersion
      <4>1. Precedes(vs, m, k)
        BY <3>1, <3>3 DEF Precedes
      <4>2. Greater(vs[k], vs[m])
        BY <4>1 DEF Ascending
      <4>3. {vs[i], vs[m], vs[k]} \subseteq Versions
        BY <1>1, <3>1, <3>3
      <4>4. Greater(vs[k], vs[i])
        BY <3>1, <4>2, <4>3, GreaterTransitive
      <4>5. LastUpTo(k, k)
        BY <3>3
      <4> HIDE DEF LastUpTo
      <4> QED
        BY <4>4, <4>5
    <3> QED
      BY <3>2, <3>3
  <2> QED
    BY <1>1, <2>1, <2>2, <2>3
<1>4. j \in T
  <2> HIDE DEF T, n
  <2>1. 0..n \subseteq T
    BY <1>1, <1>2, <1>3, UpTo
  <2> QED
    BY <1>1, <2>1
<1>5. PICK m \in 1..j : LastUpTo(m, j) /\ (m = i \/ Greater(vs[m], vs[i]))
  BY <1>1, <1>4
<1>6. m = j
  BY <1>1, <1>5
<1> QED
  BY <1>5, <1>6

-----------------------------------------------------------------------------
(* What the queries return for a name whose tool has a valid document.     *)

\* The entries of a valid document ascend, in versions and in charts.
LEMMA ValidEntries ==
    ASSUME VersionConstants, NEW doc \in Document, validateTool(doc)
    PROVE  /\ doc.versions \in Seq(Entry)
           /\ \A i \in DOMAIN doc.versions :
                /\ doc.versions[i].app \in Versions
                /\ doc.versions[i].chart \in Versions \union {NoVersion}
                /\ doc.versions[i].risk \in Risks
           /\ \A i, j \in DOMAIN doc.versions :
                /\ doc.versions[i].app = doc.versions[j].app => i = j
                /\ doc.versions[i].chart = doc.versions[j].chart =>
                     i = j \/ doc.versions[i].chart = NoVersion
<1> DEFINE entries == doc.versions
<1>1. entries \in Seq(Entry)
  BY DEF Document
<1>2. /\ DOMAIN Apps(doc) = DOMAIN entries /\ DOMAIN Charts(doc) = DOMAIN entries
      /\ \A i \in DOMAIN entries :
           Apps(doc)[i] = entries[i].app /\ Charts(doc)[i] = entries[i].chart
  BY DEF Apps, Charts
<1>3. ASSUME NEW i \in DOMAIN entries
      PROVE  /\ entries[i].app \in Versions
             /\ entries[i].chart \in Versions \union {NoVersion}
             /\ entries[i].risk \in Risks
  BY <1>2 DEF validateTool, Range
<1>4. Apps(doc) \in Seq(Versions \union {NoVersion})
  BY <1>1, <1>3 DEF Apps
<1>5. Charts(doc) \in Seq(Versions \union {NoVersion})
  BY <1>1, <1>3 DEF Charts
<1>6. Ascending(Apps(doc)) /\ Ascending(Charts(doc))
  BY DEF validateTool
<1>7. ASSUME NEW i \in DOMAIN entries, NEW j \in DOMAIN entries, i < j
      PROVE  /\ entries[i].app # entries[j].app
             /\ entries[i].chart = entries[j].chart => entries[i].chart = NoVersion
  <2>1. entries[i].app # NoVersion /\ entries[j].app # NoVersion
    BY <1>3 DEF VersionConstants
  <2>2. Greater(entries[j].app, entries[i].app)
    BY <1>2, <1>4, <1>6, <1>7, <2>1, AscendingOverGaps
  <2>3. entries[i].app # entries[j].app
    BY <1>3, <2>2, GreaterTotal
  <2>4. ASSUME entries[i].chart = entries[j].chart, entries[i].chart # NoVersion
        PROVE  FALSE
    <3>1. Greater(entries[j].chart, entries[i].chart)
      BY <1>2, <1>5, <1>6, <1>7, <2>4, AscendingOverGaps
    <3> QED
      BY <1>3, <2>4, <3>1, GreaterTotal
  <2> QED
    BY <2>3, <2>4
<1>8. DOMAIN entries \subseteq Nat
  BY <1>1
<1>9. ASSUME NEW i \in DOMAIN entries, NEW j \in DOMAIN entries
      PROVE  /\ entries[i].app = entries[j].app => i = j
             /\ entries[i].chart = entries[j].chart => i = j \/ entries[i].chart = NoVersion
  <2>1. i < j \/ j < i \/ i = j
    BY <1>8
  <2> QED
    BY <1>7, <2>1
<1> QED
  BY <1>1, <1>3, <1>9

\* LatestSafeVersion: the highest of the safe entries, if there are any.
LEMMA LatestSafeIsHighest ==
    ASSUME VersionConstants, NEW name, Known(name), Tool(name) \in Document, validateTool(Tool(name)),
           NEW current \in Versions, NEW tolerance
    PROVE  LET entries == Tool(name).versions
               rec == LatestSafeVersion(name, current, tolerance)
           IN \/ /\ rec = None
                 /\ \A i \in DOMAIN entries : ~Safe(entries[i], current, tolerance)
              \/ \E i \in DOMAIN entries :
                   /\ rec = entries[i] /\ Safe(entries[i], current, tolerance)
                   /\ \A j \in DOMAIN entries : Safe(entries[j], current, tolerance) =>
                        ~Greater(entries[j].app, entries[i].app)
<1> DEFINE entries == Tool(name).versions
           safe == {i \in DOMAIN entries : Safe(entries[i], current, tolerance)}
<1>1. LatestSafeVersion(name, current, tolerance) = Best(entries, safe)
  BY DEF LatestSafeVersion
<1>2. entries \in Seq(Entry) /\ \A i \in DOMAIN entries : entries[i].app \in Versions
  BY ValidEntries
<1>3. /\ safe = {} => Best(entries, safe) = None
      /\ safe # {} =>
           \E i \in safe :
             /\ Best(entries, safe) = entries[i]
             /\ \A j \in safe : ~Greater(entries[j].app, entries[i].app)
  <2>1. safe \subseteq DOMAIN entries
    OBVIOUS
  <2> HIDE DEF entries, safe
  <2> QED
    BY <1>2, <2>1, BestIsHighest
<1> QED
  BY <1>1, <1>3

\* Resolve: the highest of the entries that cover the version, if there are any.
LEMMA ResolveIsHighest ==
    ASSUME VersionConstants, NEW name, Known(name), Tool(name) \in Document, validateTool(Tool(name)),
           NEW to \in Versions
    PROVE  LET entries == Tool(name).versions
               entry == Resolve(name, to)
           IN \/ /\ entry = None
                 /\ \A i \in DOMAIN entries : ~Covers(entries[i], to)
              \/ \E i \in DOMAIN entries :
                   /\ entry = entries[i] /\ Covers(entries[i], to)
                   /\ \A j \in DOMAIN entries : Covers(entries[j], to) =>
                        ~Greater(entries[j].app, entries[i].app)
<1> DEFINE entries == Tool(name).versions
           covering == {i \in DOMAIN entries : Covers(entries[i], to)}
<1>1. Resolve(name, to) = Best(entries, covering)
  BY DEF Resolve
<1>2. entries \in Seq(Entry) /\ \A i \in DOMAIN entries : entries[i].app \in Versions
  BY ValidEntries
<1>3. /\ covering = {} => Best(entries, covering) = None
      /\ covering # {} =>
           \E i \in covering :
             /\ Best(entries, covering) = entries[i]
             /\ \A j \in covering : ~Greater(entries[j].app, entries[i].app)
  <2>1. covering \subseteq DOMAIN entries
    OBVIOUS
  <2> HIDE DEF entries, covering
  <2> QED
    BY <1>2, <2>1, BestIsHighest
<1> QED
  BY <1>1, <1>3

\* The version of an entry resolves to that entry.
LEMMA EntryResolves ==
    ASSUME VersionConstants, NEW name, Known(name), Tool(name) \in Document, validateTool(Tool(name)),
           NEW i \in DOMAIN Tool(name).versions
    PROVE  Resolve(name, Tool(name).versions[i].app) = Tool(name).versions[i]
<1> DEFINE entries == Tool(name).versions
           to == entries[i].app
<1>1. \A j \in DOMAIN entries : entries[j].app \in Versions
  BY ValidEntries
<1>2. to \in Versions /\ Covers(entries[i], to)
  BY <1>1, GreaterTotal DEF Covers, SameLine
<1>3. PICK j \in DOMAIN entries :
        /\ Resolve(name, to) = entries[j] /\ Covers(entries[j], to)
        /\ ~Greater(to, entries[j].app)
  BY <1>2, ResolveIsHighest
<1>4. entries[j].app = to
  BY <1>1, <1>2, <1>3, GreaterTotal DEF Covers
<1> QED
  BY <1>3, <1>4, ValidEntries

\* AppVersionForChart: the version of the one entry with that chart.
LEMMA ChartLeadsBack ==
    ASSUME VersionConstants, NEW name, Known(name), Tool(name) \in Document, validateTool(Tool(name)),
           NEW i \in DOMAIN Tool(name).versions, Tool(name).versions[i].chart # NoVersion
    PROVE  AppVersionForChart(name, Tool(name).versions[i].chart) = Tool(name).versions[i].app
<1> DEFINE entries == Tool(name).versions
           chart == entries[i].chart
           matching == {k \in DOMAIN entries : entries[k].chart # NoVersion
                                                /\ entries[k].chart = chart}
<1>1. matching = {i} /\ chart # BadVersion /\ i \in Nat
  BY ValidEntries DEF VersionConstants
<1>2. Min({i}) = i
  BY <1>1 DEF Min
<1> QED
  BY <1>1, <1>2 DEF AppVersionForChart
=============================================================================
