----------------------------- MODULE ScanProofs -----------------------------
(***************************************************************************)
(* Proofs about Scan: what a scan reports, for any cluster that changes    *)
(* any number of times while its sources are listed, and whichever of them *)
(* fail.                                                                   *)
(***************************************************************************)
EXTENDS Scan, FiniteSetTheorems, TLAPS

\* What MatrixProofs shows: here, induction over the positions of a list.
MP == INSTANCE MatrixProofs WITH tools <- KnownTools, names <- KnownNames

\* What ReportProofs shows of the tools and the names of a knowledge base.
RP == INSTANCE ReportProofs WITH Specs <- {}, Clusters <- {}

-----------------------------------------------------------------------------
(* Loops and lists.                                                        *)

\* The assumption of MatrixProofs holds.
LEMMA MatrixAssumptions == MP!VersionConstants
BY VersionsAssumption, NoneAssumption DEF MP!VersionConstants

\* What holds at 0 and goes from each position to the next holds up to the last.
LEMMA UpTo ==
    ASSUME NEW n \in Nat, NEW T, 0 \in T, \A i \in 1..n : i - 1 \in T => i \in T
    PROVE  0..n \subseteq T
BY MatrixAssumptions, MP!UpTo

\* "better" is a set of pairs; what is not better one way or the other is equal.
IsBetter(S, better) ==
    /\ \A i, j \in S : <<i, j>> \in better => <<j, i>> \notin better
    /\ \A i, j, k \in S : <<i, k>> \in better => <<i, j>> \in better \/ <<j, k>> \in better

IsFirstBest(i, S, better) ==
    \A j \in S : <<j, i>> \notin better /\ (j < i => <<i, j>> \in better)

\* A loop that keeps the best it has met, and the first of equals, ends with one.
LEMMA FirstBestExists ==
    ASSUME NEW n \in Nat, NEW S, S \subseteq 1..n, S # {}, NEW better, IsBetter(S, better)
    PROVE  \E i \in S : IsFirstBest(i, S, better)
<1> DEFINE IsBest(i, k) == /\ i \in S /\ i \in 1..k
                           /\ \A j \in S : j \in 1..k =>
                                <<j, i>> \notin better /\ (j < i => <<i, j>> \in better)
           T == {k \in 0..n : (\E j \in S : j \in 1..k) => \E i \in S : IsBest(i, k)}
<1>1. /\ \A i, j \in S : <<i, j>> \in better => <<j, i>> \notin better
      /\ \A i, j, k \in S : <<i, k>> \in better => <<i, j>> \in better \/ <<j, k>> \in better
  BY DEF IsBetter
<1>2. 0 \in T
  OBVIOUS
<1>3. ASSUME NEW k \in 1..n, k - 1 \in T
      PROVE  k \in T
  <2>1. \A j \in S : j \in 1..k <=> j \in 1..(k - 1) \/ j = k
    OBVIOUS
  <2>2. CASE k \notin S
    <3>1. \A j \in S : j \in 1..k <=> j \in 1..(k - 1)
      BY <2>1, <2>2
    <3>2. \A i \in S : IsBest(i, k - 1) => IsBest(i, k)
      BY <3>1
    <3> QED
      BY <1>3, <3>1, <3>2
  <2>3. CASE k \in S /\ \A j \in S : j \notin 1..(k - 1)
    <3>1. IsBest(k, k)
      BY <1>1, <2>1, <2>3
    <3> QED
      BY <2>3, <3>1
  <2>4. CASE k \in S /\ \E j \in S : j \in 1..(k - 1)
    <3>1. PICK i \in S : IsBest(i, k - 1)
      BY <1>3, <2>4
    <3>2. CASE <<k, i>> \in better
      <4>1. ASSUME NEW j \in S, j \in 1..(k - 1)
            PROVE  <<j, k>> \notin better /\ <<k, j>> \in better
        BY <1>1, <2>4, <3>1, <3>2, <4>1
      <4>2. <<k, k>> \notin better
        BY <1>1, <2>4
      <4>3. IsBest(k, k)
        BY <2>1, <2>4, <4>1, <4>2
      <4> QED
        BY <2>4, <4>3
    <3>3. CASE <<k, i>> \notin better
      <4>1. ~(k < i)
        BY <3>1
      <4>2. IsBest(i, k)
        BY <2>1, <2>4, <3>1, <3>3, <4>1
      <4> QED
        BY <4>2
    <3> QED
      BY <3>2, <3>3
  <2> QED
    BY <2>2, <2>3, <2>4
<1>4. n \in T
  <2> HIDE DEF T
  <2> QED
    BY <1>2, <1>3, UpTo
<1>5. PICK i \in S : IsBest(i, n)
  BY <1>4
<1> QED
  BY <1>5 DEF IsFirstBest

\* A function on the first numbers is a list.
LEMMA ListOf ==
    ASSUME NEW V, NEW n \in Nat, NEW x, x = [i \in 1..n |-> x[i]], \A i \in 1..n : x[i] \in V
    PROVE  x \in Seq(V) /\ DOMAIN x = 1..n /\ Len(x) = n
<1>1. x \in [1..n -> V]
  OBVIOUS
<1> QED
  BY <1>1

\* A list after another.
LEMMA ConcatRange ==
    ASSUME NEW V, NEW x \in Seq(V), NEW y \in Seq(V)
    PROVE  x \o y \in Seq(V) /\ Range(x \o y) = Range(x) \union Range(y)
<1> DEFINE z == x \o y
<1>1. /\ Len(x) \in Nat /\ Len(y) \in Nat /\ DOMAIN x = 1..Len(x) /\ DOMAIN y = 1..Len(y)
      /\ z \in Seq(V) /\ DOMAIN z = 1..(Len(x) + Len(y))
      /\ \A k \in DOMAIN z : z[k] = IF k <= Len(x) THEN x[k] ELSE y[k - Len(x)]
  OBVIOUS
<1> HIDE DEF z
<1>2. \A k \in DOMAIN z : z[k] \in Range(x) \union Range(y)
  BY <1>1 DEF Range
<1>3. \A i \in DOMAIN x : x[i] \in Range(z)
  BY <1>1 DEF Range
<1>4. ASSUME NEW j \in DOMAIN y
      PROVE  y[j] \in Range(z)
  <2>1. Len(x) + j \in DOMAIN z /\ ~(Len(x) + j <= Len(x)) /\ (Len(x) + j) - Len(x) = j
    BY <1>1
  <2>2. z[Len(x) + j] = y[j]
    BY <1>1, <2>1
  <2> QED
    BY <2>1, <2>2 DEF Range
<1>5. Range(z) = Range(x) \union Range(y)
  BY <1>2, <1>3, <1>4 DEF Range
<1> QED
  BY <1>1, <1>5 DEF z

\* The places in a list of lists.
Places(lists, n) == UNION {{<<i, j>> : j \in DOMAIN lists[i]} : i \in 1..n}

\* The list x has what is at these places, each once; e says where from.
ListsPlaces(x, e, lists, n) ==
    /\ e \in [DOMAIN x -> Places(lists, n)]
    /\ IsInjective(e)
    /\ \A p \in Places(lists, n) : \E k \in DOMAIN x : e[k] = p
    /\ \A k \in DOMAIN x : x[k] = lists[e[k][1]][e[k][2]]

\* One more list at the end.
LEMMA PlacesAppended ==
    ASSUME NEW V, NEW n \in Nat, NEW lists, lists[n + 1] \in Seq(V),
           NEW x \in Seq(V), NEW e, ListsPlaces(x, e, lists, n)
    PROVE  \E d : ListsPlaces(x \o lists[n + 1], d, lists, n + 1)
<1> DEFINE s == lists[n + 1]
           y == x \o s
           d == [k \in DOMAIN y |-> IF k <= Len(x) THEN e[k] ELSE <<n + 1, k - Len(x)>>]
<1>1. /\ Len(x) \in Nat /\ Len(s) \in Nat /\ DOMAIN x = 1..Len(x) /\ DOMAIN s = 1..Len(s)
      /\ y \in Seq(V) /\ DOMAIN y = 1..(Len(x) + Len(s))
      /\ \A k \in DOMAIN y : y[k] = IF k <= Len(x) THEN x[k] ELSE s[k - Len(x)]
  OBVIOUS
<1>2. Places(lists, n + 1) = Places(lists, n) \union {<<n + 1, j>> : j \in DOMAIN s}
  <2>1. 1..(n + 1) = 1..n \union {n + 1}
    OBVIOUS
  <2> QED
    BY <2>1 DEF Places
<1>3. \A p \in Places(lists, n) : p[1] # n + 1
  BY DEF Places
<1> HIDE DEF s, y
<1>4. ASSUME NEW k \in DOMAIN y
      PROVE  /\ k \in DOMAIN x => d[k] = e[k] /\ d[k] \in Places(lists, n) /\ d[k][1] # n + 1
             /\ k \notin DOMAIN x => /\ k - Len(x) \in DOMAIN s
                                     /\ d[k] = <<n + 1, k - Len(x)>>
  BY <1>1, <1>3 DEF ListsPlaces
<1>5. d \in [DOMAIN y -> Places(lists, n + 1)]
  <2>1. \A k \in DOMAIN y : d[k] \in Places(lists, n + 1)
    BY <1>2, <1>4
  <2> QED
    BY <2>1
<1>6. IsInjective(d)
  <2> SUFFICES ASSUME NEW k \in DOMAIN y, NEW l \in DOMAIN y, d[k] = d[l]
               PROVE  k = l
    BY DEF IsInjective
  <2> HIDE DEF d
  <2>1. CASE k \in DOMAIN x /\ l \in DOMAIN x
    BY <1>4, <2>1 DEF ListsPlaces, IsInjective
  <2>2. CASE k \in DOMAIN x /\ l \notin DOMAIN x
    BY <1>4, <2>2
  <2>3. CASE k \notin DOMAIN x /\ l \in DOMAIN x
    BY <1>4, <2>3
  <2>4. CASE k \notin DOMAIN x /\ l \notin DOMAIN x
    <3>1. k - Len(x) = l - Len(x)
      BY <1>4, <2>4
    <3> QED
      BY <1>1, <3>1
  <2> QED
    BY <2>1, <2>2, <2>3, <2>4
<1>7. ASSUME NEW p \in Places(lists, n + 1)
      PROVE  \E k \in DOMAIN y : d[k] = p
  <2>1. CASE p \in Places(lists, n)
    <3>1. PICK k \in DOMAIN x : e[k] = p
      BY <2>1 DEF ListsPlaces
    <3>2. k \in DOMAIN y
      BY <1>1
    <3> QED
      BY <1>4, <3>1, <3>2
  <2>2. CASE \E j \in DOMAIN s : p = <<n + 1, j>>
    <3>1. PICK j \in DOMAIN s : p = <<n + 1, j>>
      BY <2>2
    <3>2. /\ Len(x) + j \in DOMAIN y /\ Len(x) + j \notin DOMAIN x
          /\ (Len(x) + j) - Len(x) = j
      BY <1>1
    <3>3. d[Len(x) + j] = <<n + 1, j>>
      BY <1>4, <3>2
    <3> QED
      BY <3>1, <3>2, <3>3
  <2> QED
    BY <1>2, <2>1, <2>2
<1>8. ASSUME NEW k \in DOMAIN y
      PROVE  y[k] = lists[d[k][1]][d[k][2]]
  <2>1. CASE k \in DOMAIN x
    BY <1>1, <1>4, <2>1 DEF ListsPlaces
  <2>2. CASE k \notin DOMAIN x
    BY <1>1, <1>4, <2>2 DEF s
  <2> QED
    BY <2>1, <2>2
<1>9. ListsPlaces(y, d, lists, n + 1)
  <2> HIDE DEF d
  <2> QED
    BY <1>5, <1>6, <1>7, <1>8 DEF ListsPlaces
<1> QED
  BY <1>9 DEF y, s

\* Lists are put one after the other step by step.
LEMMA FlattenSteps ==
    ASSUME NEW V, NEW lists \in Seq(Seq(V))
    PROVE  \E h \in [0..Len(lists) -> Seq(V)] :
             /\ h[0] = <<>>
             /\ \A i \in 1..Len(lists) : h[i] = h[i - 1] \o lists[i]
             /\ FlattenSeq(lists) = h[Len(lists)]
<1> DEFINE n == Len(lists)
           X == Seq(V)
           Results(f) == [i \in 1..n |-> IF i = 1 THEN lists[1] ELSE f[i - 1] \o lists[i]]
           step == [p \in (1..n) \X X |-> p[2] \o lists[p[1]]]
<1>1. n \in Nat /\ DOMAIN lists = 1..n /\ \A i \in 1..n : lists[i] \in Seq(V)
  OBVIOUS
<1>2. <<>> \in X /\ step \in [(1..n) \X X -> X]
  BY <1>1
<1>3. PICK h : MP!IsLoop(h, n, X, <<>>, step)
  <2> HIDE DEF n, X, step
  <2> QED
    BY <1>1, <1>2, MatrixAssumptions, MP!Loop
<1>4. h \in [0..n -> X] /\ h[0] = <<>> /\ \A i \in 1..n : h[i] = h[i - 1] \o lists[i]
  <2>1. h \in [0..n -> X] /\ h[0] = <<>> /\ \A i \in 1..n : h[i] = step[<<i, h[i - 1]>>]
    BY <1>3 DEF MP!IsLoop
  <2>2. ASSUME NEW i \in 1..n
        PROVE  h[i] = h[i - 1] \o lists[i]
    <3> HIDE DEF X, n
    <3>1. i - 1 \in 0..n
      BY <1>1
    <3>2. <<i, h[i - 1]>> \in (1..n) \X X
      BY <2>1, <3>1
    <3> QED
      BY <2>1, <3>2 DEF step
  <2> QED
    BY <2>1, <2>2
<1>5. CASE n = 0
  <2>1. FlattenSeq(lists) = <<>>
    BY <1>5 DEF FlattenSeq
  <2> QED
    BY <1>4, <1>5, <2>1
<1>6. CASE n # 0
  <2> DEFINE f == [i \in 1..n |-> h[i]]
  <2>1. 1 \in 1..n /\ \A i \in 2..n : i \in 1..n /\ i # 1 /\ i - 1 \in 1..n
    BY <1>1, <1>6
  <2>2. h[1] = lists[1]
    <3>1. h[1] = h[0] \o lists[1]
      <4>1. 1 - 1 = 0
        OBVIOUS
      <4> HIDE DEF n
      <4> QED
        BY <1>4, <2>1, <4>1
    <3> QED
      BY <1>1, <1>4, <2>1, <3>1
  <2>3. f = Results(f)
    <3>1. ASSUME NEW i \in 1..n
          PROVE  f[i] = Results(f)[i]
      <4>1. CASE i = 1
        BY <2>2, <4>1
      <4>2. CASE i # 1
        <5>1. i \in 2..n
          BY <1>1, <4>2
        <5>2. f[i] = h[i - 1] \o lists[i]
          BY <1>4
        <5>3. f[i - 1] = h[i - 1]
          BY <2>1, <5>1
        <5>4. Results(f)[i] = f[i - 1] \o lists[i]
          BY <4>2
        <5> QED
          BY <5>2, <5>3, <5>4
      <4> QED
        BY <4>1, <4>2
    <3> QED
      BY <3>1
  <2>4. FlattenSeq(lists) = (CHOOSE g : g = Results(g))[n]
    BY <1>6 DEF FlattenSeq
  <2>5. PICK g : g = Results(g) /\ FlattenSeq(lists) = g[n]
    <3> HIDE DEF Results, n
    <3> QED
      BY <2>3, <2>4
  <2>6. g[1] = lists[1] /\ \A i \in 2..n : g[i] = g[i - 1] \o lists[i]
    <3>1. \A i \in 1..n : g[i] = IF i = 1 THEN lists[1] ELSE g[i - 1] \o lists[i]
      BY <2>5
    <3> HIDE DEF n
    <3> QED
      BY <2>1, <3>1, Zenon
  <2> DEFINE T == {k \in 0..n : k # 0 => g[k] = h[k]}
  <2>7. 0 \in T
    BY <1>1
  <2>8. ASSUME NEW k \in 1..n, k - 1 \in T
        PROVE  k \in T
    <3>1. CASE k = 1
      BY <1>1, <2>2, <2>6, <3>1
    <3>2. CASE k # 1
      <4>1. k \in 2..n /\ k - 1 # 0
        BY <1>1, <3>2
      <4>2. g[k - 1] = h[k - 1]
        BY <2>8, <4>1
      <4>3. g[k] = h[k]
        BY <1>4, <2>6, <4>1, <4>2
      <4> QED
        BY <1>1, <4>3
    <3> QED
      BY <3>1, <3>2
  <2>9. g[n] = h[n]
    <3> HIDE DEF T, n
    <3>1. 0..n \subseteq T
      BY <1>1, <2>7, <2>8, UpTo
    <3>2. n \in T
      BY <1>1, <3>1
    <3> QED
      BY <1>6, <3>2 DEF T
  <2> QED
    BY <1>4, <2>5, <2>9
<1> QED
  BY <1>5, <1>6

\* Lists put one after the other have what each of them has.
LEMMA FlattenPlaces ==
    ASSUME NEW V, NEW lists \in Seq(Seq(V))
    PROVE  /\ FlattenSeq(lists) \in Seq(V)
           /\ \E e : ListsPlaces(FlattenSeq(lists), e, lists, Len(lists))
<1> DEFINE n == Len(lists)
<1>1. n \in Nat /\ DOMAIN lists = 1..n /\ \A i \in 1..n : lists[i] \in Seq(V)
  OBVIOUS
<1>2. PICK h \in [0..n -> Seq(V)] :
        /\ h[0] = <<>>
        /\ \A i \in 1..n : h[i] = h[i - 1] \o lists[i]
        /\ FlattenSeq(lists) = h[n]
  BY FlattenSteps
<1> DEFINE T == {k \in 0..n : \E e : ListsPlaces(h[k], e, lists, k)}
<1>3. 0 \in T
  <2>1. Places(lists, 0) = {}
    BY DEF Places
  <2>2. ListsPlaces(<<>>, <<>>, lists, 0)
    BY <2>1 DEF ListsPlaces, IsInjective
  <2> HIDE DEF n
  <2>3. 0 \in 0..n /\ h[0] = <<>>
    BY <1>1, <1>2
  <2> QED
    BY <2>2, <2>3
<1>4. ASSUME NEW k \in 1..n, k - 1 \in T
      PROVE  k \in T
  <2> HIDE DEF n
  <2>1. /\ k - 1 \in Nat /\ k - 1 \in 0..n /\ (k - 1) + 1 = k /\ k \in 0..n
        /\ lists[k] \in Seq(V) /\ h[k - 1] \in Seq(V)
    BY <1>1
  <2>2. PICK e : ListsPlaces(h[k - 1], e, lists, k - 1)
    BY <1>4
  <2>3. \E d : ListsPlaces(h[k - 1] \o lists[k], d, lists, k)
    BY <2>1, <2>2, PlacesAppended
  <2> QED
    BY <1>2, <2>1, <2>3
<1>5. n \in T
  <2> HIDE DEF T, n
  <2>1. 0..n \subseteq T
    BY <1>1, <1>3, <1>4, UpTo
  <2> QED
    BY <1>1, <2>1
<1> QED
  BY <1>1, <1>2, <1>5

\* So its elements are theirs.
LEMMA FlattenRange ==
    ASSUME NEW V, NEW lists \in Seq(Seq(V))
    PROVE  /\ FlattenSeq(lists) \in Seq(V)
           /\ Range(FlattenSeq(lists)) = UNION {Range(lists[i]) : i \in DOMAIN lists}
<1> DEFINE x == FlattenSeq(lists)
<1>1. PICK e : ListsPlaces(x, e, lists, Len(lists))
  BY FlattenPlaces
<1>2. DOMAIN lists = 1..Len(lists)
  OBVIOUS
<1> HIDE DEF x
<1>3. ASSUME NEW k \in DOMAIN x
      PROVE  \E i \in DOMAIN lists : x[k] \in Range(lists[i])
  <2>1. e[k] \in Places(lists, Len(lists)) /\ x[k] = lists[e[k][1]][e[k][2]]
    BY <1>1 DEF ListsPlaces
  <2>2. PICK i \in DOMAIN lists : \E j \in DOMAIN lists[i] : e[k] = <<i, j>>
    BY <1>2, <2>1 DEF Places
  <2> QED
    BY <2>1, <2>2 DEF Range
<1>4. ASSUME NEW i \in DOMAIN lists, NEW j \in DOMAIN lists[i]
      PROVE  lists[i][j] \in Range(x)
  <2>1. <<i, j>> \in Places(lists, Len(lists))
    BY <1>2 DEF Places
  <2>2. PICK k \in DOMAIN x : e[k] = <<i, j>>
    BY <1>1, <2>1 DEF ListsPlaces
  <2>3. x[k] = lists[i][j]
    BY <1>1, <2>2 DEF ListsPlaces
  <2> QED
    BY <2>3 DEF Range
<1>5. Range(x) = UNION {Range(lists[i]) : i \in DOMAIN lists}
  BY <1>3, <1>4 DEF Range
<1> QED
  BY <1>5, FlattenPlaces DEF x

\* The lists that Kept puts one after the other.
Singles(list, positions) ==
    [i \in DOMAIN list |-> IF i \in positions THEN <<list[i]>> ELSE <<>>]

\* They are lists.
LEMMA SinglesType ==
    ASSUME NEW V, NEW list \in Seq(V), NEW positions
    PROVE  /\ Singles(list, positions) \in Seq(Seq(V))
           /\ DOMAIN Singles(list, positions) = DOMAIN list
           /\ Len(Singles(list, positions)) = Len(list)
           /\ Kept(list, positions) = FlattenSeq(Singles(list, positions))
<1> DEFINE n == Len(list)
           x == Singles(list, positions)
<1>1. n \in Nat /\ DOMAIN list = 1..n /\ \A i \in 1..n : list[i] \in V
  OBVIOUS
<1>2. \A v \in V : <<v>> \in Seq(V)
  OBVIOUS
<1>3. DOMAIN x = 1..n /\ \A i \in 1..n : x[i] \in Seq(V)
  <2> HIDE DEF n
  <2> QED
    BY <1>1, <1>2 DEF Singles
<1>4. x \in Seq(Seq(V)) /\ Len(x) = n
  <2>1. x = [i \in 1..n |-> x[i]]
    BY <1>1 DEF Singles
  <2> HIDE DEF x, n
  <2> QED
    BY <1>1, <1>3, <2>1, ListOf
<1> QED
  BY <1>1, <1>3, <1>4 DEF Kept, Singles

\* Kept has the elements at the positions, each once.
LEMMA KeptPositions ==
    ASSUME NEW V, NEW list \in Seq(V), NEW positions, positions \subseteq DOMAIN list
    PROVE  \E e \in [DOMAIN Kept(list, positions) -> positions] :
             /\ IsInjective(e)
             /\ \A i \in positions : \E k \in DOMAIN Kept(list, positions) : e[k] = i
             /\ \A k \in DOMAIN Kept(list, positions) : Kept(list, positions)[k] = list[e[k]]
<1> DEFINE lists == Singles(list, positions)
           n == Len(lists)
           x == Kept(list, positions)
<1>1. lists \in Seq(Seq(V)) /\ DOMAIN lists = 1..n /\ DOMAIN lists = DOMAIN list
  BY SinglesType
<1>2. x = FlattenSeq(lists)
  BY SinglesType
<1>3. PICK e : ListsPlaces(x, e, lists, n)
  <2> HIDE DEF lists
  <2> QED
    BY <1>1, <1>2, FlattenPlaces
<1>4. Places(lists, n) = {<<i, 1>> : i \in positions}
  <2>1. \A i \in 1..n : /\ i \in positions => DOMAIN lists[i] = {1} /\ lists[i][1] = list[i]
                        /\ i \notin positions => DOMAIN lists[i] = {}
    <3>1. DOMAIN <<>> = {} /\ \A v : DOMAIN <<v>> = {1} /\ <<v>>[1] = v
      OBVIOUS
    <3> QED
      BY <1>1, <3>1 DEF Singles
  <2>2. positions \subseteq 1..n
    BY <1>1
  <2> HIDE DEF lists, n
  <2> QED
    BY <2>1, <2>2 DEF Places
<1>5. \A i \in positions : lists[i][1] = list[i]
  BY DEF Singles
<1> DEFINE d == [k \in DOMAIN x |-> e[k][1]]
<1> HIDE DEF lists, n, x
<1>6. ASSUME NEW k \in DOMAIN x
      PROVE  d[k] \in positions /\ e[k] = <<d[k], 1>> /\ x[k] = list[d[k]]
  <2>1. e[k] \in Places(lists, n) /\ x[k] = lists[e[k][1]][e[k][2]]
    BY <1>3 DEF ListsPlaces
  <2>2. PICK i \in positions : e[k] = <<i, 1>>
    BY <1>4, <2>1
  <2>3. d[k] = i
    BY <2>2
  <2> QED
    BY <1>5, <2>1, <2>2, <2>3
<1>7. ASSUME NEW i \in positions
      PROVE  \E k \in DOMAIN x : d[k] = i
  <2>1. PICK k \in DOMAIN x : e[k] = <<i, 1>>
    BY <1>3, <1>4 DEF ListsPlaces
  <2> QED
    BY <2>1
<1>8. d \in [DOMAIN x -> positions]
  BY <1>6
<1> HIDE DEF d
<1>9. IsInjective(d)
  BY <1>3, <1>6, <1>8 DEF IsInjective, ListsPlaces
<1>10. /\ d \in [DOMAIN x -> positions] /\ IsInjective(d)
       /\ \A i \in positions : \E k \in DOMAIN x : d[k] = i
       /\ \A k \in DOMAIN x : x[k] = list[d[k]]
  BY <1>6, <1>7, <1>8, <1>9
<1> QED
  BY <1>10 DEF x

\* As a set.
LEMMA KeptRange ==
    ASSUME NEW V, NEW list \in Seq(V), NEW positions, positions \subseteq DOMAIN list
    PROVE  /\ Kept(list, positions) \in Seq(V)
           /\ Range(Kept(list, positions)) = {list[i] : i \in positions}
<1> DEFINE x == Kept(list, positions)
           lists == Singles(list, positions)
<1>1. lists \in Seq(Seq(V)) /\ x = FlattenSeq(lists)
  BY SinglesType
<1>2. x \in Seq(V)
  <2> HIDE DEF lists, x
  <2> QED
    BY <1>1, FlattenPlaces
<1>3. PICK e \in [DOMAIN x -> positions] :
        /\ \A i \in positions : \E k \in DOMAIN x : e[k] = i
        /\ \A k \in DOMAIN x : x[k] = list[e[k]]
  BY KeptPositions
<1> HIDE DEF x
<1>4. Range(x) = {list[i] : i \in positions}
  BY <1>3 DEF Range
<1> QED
  BY <1>2, <1>4 DEF x

-----------------------------------------------------------------------------
(* The knowledge base.                                                     *)

\* The assumptions of ReportProofs hold.
LEMMA ReportAssumptions ==
    /\ RP!KnowledgeAssumption /\ RP!VersionsAssumption /\ RP!NoneAssumption
    /\ RP!ClustersAssumption /\ RP!SpecsAssumption
<1>1. RP!KnowledgeAssumption
  <2>1. M!Document = RP!M!Document
    BY DEF M!Document, RP!M!Document, M!Entry, RP!M!Entry, M!Risks, RP!M!Risks
  <2>2. M!WellFormed(KnowledgeBase) <=> RP!M!WellFormed(KnowledgeBase)
    BY DEF M!WellFormed, RP!M!WellFormed, M!validateTool, RP!M!validateTool,
           M!Declared, RP!M!Declared, M!Ascending, RP!M!Ascending, M!Precedes, RP!M!Precedes,
           M!Greater, RP!M!Greater, M!Apps, RP!M!Apps, M!Charts, RP!M!Charts,
           M!Risks, RP!M!Risks, M!Range, RP!M!Range, M!IsInjective, RP!M!IsInjective
  <2> QED
    BY <2>1, <2>2, KnowledgeAssumption DEF RP!KnowledgeAssumption
<1>2. RP!VersionsAssumption /\ RP!NoneAssumption
  BY VersionsAssumption, NoneAssumption DEF RP!VersionsAssumption, RP!NoneAssumption
<1>3. RP!ClustersAssumption /\ RP!SpecsAssumption
  BY DEF RP!ClustersAssumption, RP!SpecsAssumption
<1> QED
  BY <1>1, <1>2, <1>3

\* The tools are finitely many, have names of the knowledge base, and valid documents.
LEMMA KnownTool ==
    /\ IsFiniteSet(Tools) /\ Tools \subseteq Names
    /\ \A t \in Tools : KnownTools[t] \in M!Document /\ M!validateTool(KnownTools[t])
    /\ \A t \in Tools : t \in DOMAIN KnownNames /\ KnownNames[t] = t
    /\ \A n \in DOMAIN KnownNames : n \in Names /\ KnownNames[n] \in Tools
<1>1. KnownTools = RP!KnownTools /\ Tools = RP!Tools
  BY DEF KnownTools, RP!KnownTools, Tools, RP!Tools, Range, RP!Range
<1>2. KnownNames = RP!KnownNames
  BY <1>1 DEF KnownNames, RP!KnownNames, Range, RP!Range
<1>3. M!Document = RP!M!Document
  BY DEF M!Document, RP!M!Document, M!Entry, RP!M!Entry, M!Risks, RP!M!Risks
<1>4. \A doc : M!validateTool(doc) <=> RP!M!validateTool(doc)
  BY DEF M!validateTool, RP!M!validateTool, M!Ascending, RP!M!Ascending, M!Precedes, RP!M!Precedes,
         M!Greater, RP!M!Greater, M!Apps, RP!M!Apps, M!Charts, RP!M!Charts,
         M!Risks, RP!M!Risks, M!Range, RP!M!Range
<1>5. IsFiniteSet(Tools)
  <2> DEFINE f == [i \in DOMAIN KnowledgeBase |-> KnowledgeBase[i].tool]
  <2>1. IsFiniteSet(DOMAIN KnowledgeBase)
    BY KnowledgeAssumption, FS_Interval
  <2>2. f \in Surjection(DOMAIN KnowledgeBase, Tools)
    BY DEF Surjection, Tools, KnownTools, Range
  <2> HIDE DEF f
  <2> QED
    BY <2>1, <2>2, FS_Surjection
<1> QED
  BY <1>1, <1>2, <1>3, <1>4, <1>5, ReportAssumptions, RP!KnownDocuments, RP!KnownNamesLead

\* More evidence identifies no less, and nothing is identified without a name.
LEMMA ChartIdentified ==
    ASSUME NEW chart, NEW words
    PROVE  /\ NoName \notin Tools
           /\ M!IdentifyChart(chart, words) \in Tools \union {NoName}
           /\ M!IdentifyChart(chart, words) # NoName =>
                /\ chart \in Names /\ chart # NoName
                /\ \A more : M!IdentifyChart(chart, words \union more) = M!IdentifyChart(chart, words)
<1>1. NoName \notin Tools /\ NoName \notin Names
  BY KnownTool, NoneAssumption
<1>2. CASE M!IdentifyChart(chart, words) = NoName
  BY <1>1, <1>2
<1>3. CASE M!IdentifyChart(chart, words) # NoName
  <2>1. /\ M!Known(chart)
        /\ chart \in DOMAIN M!Tool(chart).alias_origins =>
             M!Tool(chart).alias_origins[chart] \cap words # {}
        /\ M!IdentifyChart(chart, words) = KnownNames[chart]
    BY <1>3 DEF M!IdentifyChart
  <2>2. chart \in DOMAIN KnownNames
    BY <2>1 DEF M!Known
  <2>3. ASSUME NEW more
        PROVE  M!IdentifyChart(chart, words \union more) = KnownNames[chart]
    <3>1. chart \in DOMAIN M!Tool(chart).alias_origins =>
            M!Tool(chart).alias_origins[chart] \cap (words \union more) # {}
      BY <2>1
    <3> QED
      BY <2>1, <3>1 DEF M!IdentifyChart
  <2> QED
    BY <1>1, <2>1, <2>2, <2>3, KnownTool
<1> QED
  BY <1>2, <1>3

\* A chart version leads to a version, or to none.
LEMMA ChartApp ==
    ASSUME NEW t \in Tools, NEW chart
    PROVE  M!AppVersionForChart(t, chart) \in Versions \union {NoVersion}
<1> DEFINE entries == KnownTools[t].versions
           matching == {i \in DOMAIN entries : entries[i].chart # NoVersion
                                                /\ entries[i].chart = chart}
<1>1. M!Known(t) /\ M!Tool(t) = KnownTools[t]
  BY KnownTool DEF M!Known, M!Tool
<1>2. CASE matching = {} \/ chart = BadVersion
  BY <1>1, <1>2 DEF M!AppVersionForChart
<1>3. CASE matching # {} /\ chart # BadVersion
  <2>1. KnownTools[t] \in M!Document /\ M!validateTool(KnownTools[t])
    BY KnownTool
  <2>2. entries \in Seq(M!Entry)
    BY <2>1 DEF M!Document
  <2>3. matching \subseteq Nat
    BY <2>2
  <2>4. \E m \in matching : \A i \in matching : m <= i
    <3> HIDE DEF matching
    <3> QED
      BY <1>3, <2>3, MatrixAssumptions, MP!Least
  <2>5. Min(matching) \in matching
    <3> HIDE DEF matching
    <3> QED
      BY <2>4 DEF Min
  <2>6. M!Min(matching) = Min(matching)
    BY DEF M!Min, Min
  <2>7. \A i \in DOMAIN entries : entries[i].app \in Versions
    BY <2>1 DEF M!validateTool, M!Apps, M!Range
  <2>8. M!AppVersionForChart(t, chart) = entries[M!Min(matching)].app
    BY <1>1, <1>3 DEF M!AppVersionForChart
  <2> HIDE DEF entries
  <2> QED
    BY <2>5, <2>6, <2>7, <2>8
<1> QED
  BY <1>2, <1>3

-----------------------------------------------------------------------------
(* What objects are read as.                                               *)

\* The attempt that counts is one of the history that none supersedes.
LEMMA SnapshotThatCounts ==
    ASSUME NEW history \in Seq(Snapshot), history # <<>>
    PROVE  \E i \in DOMAIN history :
             /\ latestDeployedSnapshot(history) = history[i]
             /\ \A j \in DOMAIN history : ~Supersedes(history[j], history[i])
<1> DEFINE n == Len(history)
           S == DOMAIN history
           better == {p \in S \X S : Supersedes(history[p[1]], history[p[2]])}
           Wins(i) == \A j \in S : /\ ~Supersedes(history[j], history[i])
                                   /\ j < i => Supersedes(history[i], history[j])
<1>1. n \in Nat /\ S = 1..n /\ S # {}
  OBVIOUS
<1>2. \A i \in S : history[i].version \in Nat /\ history[i].deployed \in BOOLEAN
  <2>1. \A i \in S : history[i] \in Snapshot
    OBVIOUS
  <2> HIDE DEF S
  <2> QED
    BY <2>1 DEF Snapshot
<1>3. \A i, j \in S : <<i, j>> \in better <=> Supersedes(history[i], history[j])
  OBVIOUS
<1>4. \A i, j \in S : Supersedes(history[i], history[j]) => ~Supersedes(history[j], history[i])
  BY <1>2 DEF Supersedes
<1>5. \A i, j, k \in S : Supersedes(history[i], history[k]) =>
        Supersedes(history[i], history[j]) \/ Supersedes(history[j], history[k])
  BY <1>2 DEF Supersedes
<1>6. \E i \in S : Wins(i)
  <2>1. IsBetter(S, better)
    BY <1>3, <1>4, <1>5 DEF IsBetter
  <2>2. S \subseteq 1..n
    BY <1>1
  <2>3. PICK i \in S : IsFirstBest(i, S, better)
    <3> HIDE DEF S, n, better
    <3> QED
      BY <1>1, <2>1, <2>2, FirstBestExists
  <2> QED
    BY <1>3, <2>3 DEF IsFirstBest
<1>7. latestDeployedSnapshot(history) = history[CHOOSE i \in S : Wins(i)]
  BY DEF latestDeployedSnapshot, FirstBest
<1> HIDE DEF Wins
<1>8. PICK i \in S : Wins(i) /\ latestDeployedSnapshot(history) = history[i]
  BY <1>6, <1>7
<1> QED
  BY <1>8 DEF Wins

\* Finds whose images are among those there may be.
KnownFind == {f \in Find : f.images \in DOMAIN ImageVersions}

\* A HelmRelease, with what its repositories add or without.
LEMMA FluxToolType ==
    ASSUME NEW o \in HelmRelease, NEW repositories \in BOOLEAN
    PROVE  LET f == WithRepositories(o, repositories) IN
           /\ f \in KnownFind
           /\ f.source = "fluxcd" /\ f.images = <<>>
           /\ Place(f) = Place(fluxTool(o)) /\ f.name = fluxTool(o).name
<1> DEFINE t == fluxTool(o)
           f == WithRepositories(o, repositories)
<1>1. /\ o.chart \in Names \union {NoName} /\ o.namespace \in Namespaces /\ o.release \in Releases
      /\ o.words \subseteq Words /\ o.repository \subseteq Words /\ o.history \in Seq(Snapshot)
      /\ o.applied \in VersionOrNone /\ exactVersion(o.chartVersion) \in VersionOrNone
  BY DEF HelmRelease, exactVersion, VersionOrNone
<1>2. o.history # <<>> => latestDeployedSnapshot(o.history) \in Snapshot
  BY <1>1, SnapshotThatCounts
<1>3. "fluxcd" \in DOMAIN sourceRank /\ NoVersion \in VersionOrNone /\ <<>> \in Seq(Seq(STRING))
  BY DEF sourceRank, VersionOrNone
<1>4. /\ t.source = "fluxcd" /\ t.images = <<>> /\ t.words = o.words
      /\ t.name \in Names \union {NoName} /\ t.version \in VersionOrNone
      /\ t.namespace \in Namespaces /\ t.release \in Releases
  BY <1>1, <1>2, <1>3 DEF fluxTool, Snapshot
<1>5. t.chartVersion \in VersionOrNone
  <2>1. CASE o.history # <<>>
    <3>1. t.chartVersion = latestDeployedSnapshot(o.history).chartVersion
      BY <2>1 DEF fluxTool
    <3> QED
      BY <1>2, <2>1, <3>1 DEF Snapshot
  <2>2. CASE o.history = <<>> /\ o.applied # NoVersion
    <3>1. t.chartVersion = o.applied
      BY <2>2 DEF fluxTool
    <3> QED
      BY <1>1, <3>1
  <2>3. CASE o.history = <<>> /\ o.applied = NoVersion
    <3>1. t.chartVersion = exactVersion(o.chartVersion)
      BY <2>3 DEF fluxTool
    <3> QED
      BY <1>1, <3>1
  <2> QED
    BY <2>1, <2>2, <2>3
<1>6. t = [source |-> t.source, name |-> t.name, version |-> t.version,
           chartVersion |-> t.chartVersion, namespace |-> t.namespace, release |-> t.release,
           words |-> t.words, images |-> t.images]
  BY DEF fluxTool
<1>7. t \in Find
  BY <1>1, <1>3, <1>4, <1>5, <1>6 DEF Find
<1>8. f = [t EXCEPT !.words = IF repositories THEN t.words \union o.repository ELSE t.words]
  BY DEF WithRepositories
<1> HIDE DEF t
<1>9. /\ f \in Find /\ f.images = t.images /\ f.source = t.source /\ f.name = t.name
      /\ f.namespace = t.namespace /\ f.release = t.release
  BY <1>1, <1>4, <1>7, <1>8 DEF Find
<1>10. <<>> \in DOMAIN ImageVersions
  BY DEF ImageVersions
<1> QED
  BY <1>4, <1>9, <1>10 DEF KnownFind, Place, t

\* A Helm release.
LEMMA HelmToolType ==
    ASSUME NEW r \in Release
    PROVE  /\ helmTool(r) \in KnownFind
           /\ helmTool(r).source = "helm" /\ helmTool(r).images = <<>>
           /\ Place(helmTool(r)) = Place(r) /\ helmTool(r).namespace = r.namespace
<1>1. "helm" \in DOMAIN sourceRank /\ <<>> \in Seq(Seq(STRING)) /\ <<>> \in DOMAIN ImageVersions
  BY DEF sourceRank, ImageVersions
<1> QED
  BY <1>1 DEF KnownFind, Find, helmTool, Release, Place

\* An Application's sources with a chart.
LEMMA ArgoToolsType ==
    ASSUME NEW app \in Application, app.images \in DOMAIN ImageVersions
    PROVE  /\ argoTools(app) \in Seq(KnownFind)
           /\ \A f \in Range(argoTools(app)) : f.source = "argocd"
<1> DEFINE tools == [i \in DOMAIN app.sources |-> argoTool(app, app.sources[i])]
           charts == {i \in DOMAIN app.sources : app.sources[i].chart # NoName}
           F == {f \in KnownFind : f.source = "argocd"}
<1>1. app.sources \in Seq(Source) /\ app.namespace \in Namespaces /\ app.release \in Releases
      /\ app.images \in Seq(Seq(STRING))
  BY DEF Application
<1>2. "argocd" \in DOMAIN sourceRank /\ NoVersion \in VersionOrNone
  BY DEF sourceRank, VersionOrNone
<1>3. ASSUME NEW s \in Source
      PROVE  argoTool(app, s) \in F
  <2>1. exactVersion(s.target) \in VersionOrNone /\ s.revision \in VersionOrNone
        /\ s.chart \in Names \union {NoName} /\ s.words \subseteq Words
    BY DEF Source, exactVersion, VersionOrNone
  <2> QED
    BY <1>1, <1>2, <2>1 DEF argoTool, KnownFind, Find
<1>4. tools \in Seq(F) /\ DOMAIN tools = DOMAIN app.sources
  <2>1. Len(app.sources) \in Nat /\ DOMAIN app.sources = 1..Len(app.sources)
        /\ \A i \in DOMAIN app.sources : app.sources[i] \in Source
    BY <1>1
  <2>2. \A i \in DOMAIN app.sources : tools[i] \in F
    BY <1>3, <2>1
  <2>3. tools = [i \in 1..Len(app.sources) |-> tools[i]]
    BY <2>1
  <2> HIDE DEF F, tools
  <2> QED
    BY <2>1, <2>2, <2>3, ListOf
<1>5. charts \subseteq DOMAIN tools /\ argoTools(app) = Kept(tools, charts)
  BY <1>4 DEF argoTools
<1>6. Kept(tools, charts) \in Seq(F)
  <2> HIDE DEF tools, charts, F
  <2> QED
    BY <1>4, <1>5, KeptRange
<1> QED
  BY <1>5, <1>6 DEF Range

\* A workload as a tool it is recognised as.
LEMMA RawToolType ==
    ASSUME NEW w \in UNION RawSets, NEW t \in DOMAIN Recognised[w]
    PROVE  /\ t \in Tools /\ rawTool(w, t) \in KnownFind
           /\ rawTool(w, t).source = "raw" /\ rawTool(w, t).version = Recognised[w][t]
           /\ identify(rawTool(w, t)) = t
<1>1. w \in Workload /\ w \in DOMAIN Recognised
  BY SourcesAssumption DEF Recognised
<1>2. t \in Tools
  BY DEF Recognised, ToolsOf
<1>3. "raw" \in DOMAIN sourceRank /\ <<>> \in Seq(Seq(STRING)) /\ <<>> \in DOMAIN ImageVersions
      /\ NoVersion \in VersionOrNone
  BY DEF sourceRank, ImageVersions, VersionOrNone
<1>4. Recognised[w][t] \in VersionOrNone
  BY <1>1, VersionsReadAssumption
<1>5. t \in Names /\ M!CanonicalName(t) = t
  BY <1>2, KnownTool DEF M!CanonicalName, M!Known
<1> QED
  BY <1>1, <1>2, <1>3, <1>4, <1>5 DEF rawTool, KnownFind, Find, Workload, identify

-----------------------------------------------------------------------------
(* What the listings find.                                                 *)

FluxRead(c, repositories) ==
    {WithRepositories(o, repositories) : o \in {p \in Range(c.flux) : Watches(p, fluxTool(p))}}
HelmRead(c, namespace) ==
    {helmTool(r) : r \in {q \in Range(c.helm) : q.namespace = namespace}}
ArgoRead(c) ==
    UNION {Range(argoTools(app)) : app \in {a \in Range(c.argo) : Watches(a, a)}}

\* Flux's list: each HelmRelease of the watched namespaces.
LEMMA FluxListed ==
    ASSUME NEW c, c.flux \in FluxLists, NEW repositories \in BOOLEAN
    PROVE  LET list == Kept([i \in DOMAIN c.flux |-> WithRepositories(c.flux[i], repositories)],
                            {i \in DOMAIN c.flux : Watches(c.flux[i], fluxTool(c.flux[i]))})
           IN list \in Seq(KnownFind) /\ Range(list) = FluxRead(c, repositories)
<1> DEFINE tools == [i \in DOMAIN c.flux |-> WithRepositories(c.flux[i], repositories)]
           seen == {i \in DOMAIN c.flux : Watches(c.flux[i], fluxTool(c.flux[i]))}
           n == Len(c.flux)
<1>1. n \in Nat /\ DOMAIN c.flux = 1..n /\ \A i \in 1..n : c.flux[i] \in HelmRelease
  <2>1. c.flux \in Seq(HelmRelease)
    BY SourcesAssumption
  <2> QED
    BY <2>1
<1>2. \A i \in 1..n : tools[i] \in KnownFind
  BY <1>1, FluxToolType
<1>3. tools \in Seq(KnownFind) /\ DOMAIN tools = 1..n
  <2>1. tools = [i \in 1..n |-> tools[i]]
    BY <1>1
  <2> HIDE DEF tools, n
  <2> QED
    BY <1>1, <1>2, <2>1, ListOf
<1>4. seen \subseteq DOMAIN tools
  BY <1>1, <1>3
<1>5. Kept(tools, seen) \in Seq(KnownFind) /\ Range(Kept(tools, seen)) = {tools[i] : i \in seen}
  <2> HIDE DEF tools, seen
  <2> QED
    BY <1>3, <1>4, KeptRange
<1>6. {tools[i] : i \in seen} = FluxRead(c, repositories)
  BY DEF FluxRead, Range
<1> QED
  BY <1>5, <1>6

\* Helm's list: each release of one namespace, and each once.
LEMMA HelmListed ==
    ASSUME NEW c, c.helm \in HelmLists, NEW namespace
    PROVE  LET list == Kept([i \in DOMAIN c.helm |-> helmTool(c.helm[i])],
                            {i \in DOMAIN c.helm : c.helm[i].namespace = namespace})
           IN /\ list \in Seq(KnownFind) /\ Range(list) = HelmRead(c, namespace)
              /\ \A k, l \in DOMAIN list : Place(list[k]) = Place(list[l]) => k = l
<1> DEFINE tools == [i \in DOMAIN c.helm |-> helmTool(c.helm[i])]
           here == {i \in DOMAIN c.helm : c.helm[i].namespace = namespace}
           n == Len(c.helm)
           list == Kept(tools, here)
<1>1. n \in Nat /\ DOMAIN c.helm = 1..n /\ \A i \in 1..n : c.helm[i] \in Release
  <2>1. c.helm \in Seq(Release)
    BY SourcesAssumption
  <2> QED
    BY <2>1
<1>2. \A i \in 1..n : tools[i] \in KnownFind /\ Place(tools[i]) = Place(c.helm[i])
  BY <1>1, HelmToolType
<1>3. tools \in Seq(KnownFind) /\ DOMAIN tools = 1..n
  <2>1. tools = [i \in 1..n |-> tools[i]]
    BY <1>1
  <2> HIDE DEF tools, n
  <2> QED
    BY <1>1, <1>2, <2>1, ListOf
<1>4. here \subseteq DOMAIN tools
  BY <1>1, <1>3
<1>5. list \in Seq(KnownFind) /\ Range(list) = {tools[i] : i \in here}
  <2> HIDE DEF tools, here
  <2> QED
    BY <1>3, <1>4, KeptRange
<1>6. {tools[i] : i \in here} = HelmRead(c, namespace)
  BY DEF HelmRead, Range
<1>7. PICK e \in [DOMAIN list -> here] :
        IsInjective(e) /\ \A k \in DOMAIN list : list[k] = tools[e[k]]
  <2> HIDE DEF tools, here
  <2> QED
    BY <1>3, <1>4, KeptPositions
<1>8. \A i, j \in 1..n : Place(tools[i]) = Place(tools[j]) => i = j
  <2>1. \A i, j \in 1..n : Place(c.helm[i]) = Place(c.helm[j]) => i = j
    BY <1>1, HelmAssumption DEF Place
  <2> HIDE DEF tools, n
  <2> QED
    BY <1>2, <2>1
<1>9. here \subseteq 1..n
  BY <1>1
<1> HIDE DEF list, tools, here
<1>10. \A k, l \in DOMAIN list : Place(list[k]) = Place(list[l]) => k = l
  BY <1>7, <1>8, <1>9 DEF IsInjective
<1> QED
  BY <1>5, <1>6, <1>10 DEF list, tools, here

\* Argo CD's list: each source with a chart of each Application of the watched namespaces.
LEMMA ArgoListed ==
    ASSUME NEW c, c.argo \in ArgoLists
    PROVE  LET list == FlattenSeq([i \in DOMAIN c.argo |->
                                     IF Watches(c.argo[i], c.argo[i]) THEN argoTools(c.argo[i])
                                     ELSE <<>>])
           IN list \in Seq(KnownFind) /\ Range(list) = ArgoRead(c)
<1> DEFINE lists == [i \in DOMAIN c.argo |->
                       IF Watches(c.argo[i], c.argo[i]) THEN argoTools(c.argo[i]) ELSE <<>>]
           n == Len(c.argo)
<1>1. n \in Nat /\ DOMAIN c.argo = 1..n /\ \A i \in 1..n : c.argo[i] \in Application
  <2>1. c.argo \in Seq(Application)
    BY SourcesAssumption
  <2> QED
    BY <2>1
<1>2. \A i \in 1..n : c.argo[i].images \in DOMAIN ImageVersions
  BY <1>1 DEF ImageVersions, Range
<1>3. \A i \in 1..n : lists[i] \in Seq(KnownFind)
  <2>1. <<>> \in Seq(KnownFind)
    OBVIOUS
  <2> QED
    BY <1>1, <1>2, <2>1, ArgoToolsType
<1>4. lists \in Seq(Seq(KnownFind)) /\ DOMAIN lists = 1..n
  <2>1. lists = [i \in 1..n |-> lists[i]]
    BY <1>1
  <2> HIDE DEF lists, n
  <2> QED
    BY <1>1, <1>3, <2>1, ListOf
<1>5. /\ FlattenSeq(lists) \in Seq(KnownFind)
      /\ Range(FlattenSeq(lists)) = UNION {Range(lists[i]) : i \in DOMAIN lists}
  <2> HIDE DEF lists
  <2> QED
    BY <1>4, FlattenRange
<1>6. UNION {Range(lists[i]) : i \in DOMAIN lists} = ArgoRead(c)
  <2>1. Range(<<>>) = {}
    BY DEF Range
  <2>2. \A i \in DOMAIN lists : Range(lists[i]) =
          IF Watches(c.argo[i], c.argo[i]) THEN Range(argoTools(c.argo[i])) ELSE {}
    BY <2>1
  <2>3. DOMAIN lists = DOMAIN c.argo
    OBVIOUS
  <2> HIDE DEF lists
  <2> QED
    BY <2>2, <2>3 DEF ArgoRead, Range
<1> QED
  BY <1>5, <1>6

\* An order of a finite set has all its elements.
LEMMA OrderOfSet ==
    ASSUME NEW S, IsFiniteSet(S), NEW order \in [1..Cardinality(S) -> S], IsInjective(order)
    PROVE  order \in Seq(S) /\ Range(order) = S
<1> DEFINE n == Cardinality(S)
<1>1. n \in Nat /\ IsFiniteSet(1..n) /\ Cardinality(1..n) = n
  BY FS_CardinalityType, FS_Interval
<1>2. order \in Injection(1..n, S)
  BY DEF Injection
<1>3. order \in Surjection(1..n, S)
  <2> HIDE DEF n
  <2> QED
    BY <1>1, <1>2, FS_Injection DEF n
<1> QED
  BY <1>1, <1>3 DEF Surjection, Range

\* What one more namespace adds to the raw workloads seen.
LEMMA RawListed ==
    ASSUME NEW S, S \in SUBSET UNION RawSets, IsFiniteSet(S), NEW order \in SetToSeqs(S), NEW seen,
           DOMAIN seen \subseteq Tools
    PROVE  LET now == applyDetections(seen, order) IN
           /\ DOMAIN seen \subseteq DOMAIN now /\ DOMAIN now \subseteq Tools
           /\ \A t \in DOMAIN now :
                \/ t \in DOMAIN seen /\ now[t] = seen[t]
                \/ \E w \in S : t \in DOMAIN Recognised[w] /\ now[t] = rawTool(w, t)
           /\ \A t \in DOMAIN seen : seen[t].version \in Versions => now[t].version \in Versions
           /\ \A w \in S : \A t \in DOMAIN Recognised[w] :
                /\ t \in DOMAIN now
                /\ Recognised[w][t] \in Versions => now[t].version \in Versions
<1> DEFINE now == applyDetections(seen, order)
<1>1. order \in Seq(S) /\ Range(order) = S
  <2>1. order \in [1..Cardinality(S) -> S] /\ IsInjective(order)
    BY DEF SetToSeqs, IsInjective
  <2> QED
    BY <2>1, OrderOfSet
<1>2. \A i \in DOMAIN order : order[i] \in S
  BY <1>1
<1>3. \A w \in S : \A t \in DOMAIN Recognised[w] : t \in Tools /\ rawTool(w, t).version = Recognised[w][t]
  BY RawToolType
<1>4. DOMAIN now = DOMAIN seen \union {u \in Tools : Matches(order, u) # {}}
  BY DEF applyDetections
<1> DEFINE Best(t) == IF Shown(order, t) # {} THEN Shown(order, t) ELSE Matches(order, t)
           Keeps(t) == t \in DOMAIN seen /\ (seen[t].version \in Versions \/ Shown(order, t) = {})
<1>5. \A t \in DOMAIN now : now[t] = IF Keeps(t) THEN seen[t] ELSE rawTool(order[Min(Best(t))], t)
  BY DEF applyDetections
<1>6. ASSUME NEW t \in DOMAIN now, ~Keeps(t)
      PROVE  /\ Min(Best(t)) \in Best(t) /\ Best(t) \subseteq Matches(order, t)
             /\ Matches(order, t) \subseteq DOMAIN order
  <2>1. /\ Matches(order, t) \subseteq DOMAIN order /\ Shown(order, t) \subseteq Matches(order, t)
        /\ DOMAIN order \subseteq Nat
    BY <1>1 DEF Matches, Shown
  <2>2. Best(t) # {} /\ Best(t) \subseteq Nat /\ Best(t) \subseteq Matches(order, t)
    BY <1>4, <1>6, <2>1
  <2>3. \E m \in Best(t) : \A i \in Best(t) : m <= i
    <3> HIDE DEF Best
    <3> QED
      BY <2>2, MatrixAssumptions, MP!Least
  <2> HIDE DEF Best
  <2> QED
    BY <2>1, <2>2, <2>3 DEF Min
<1>7. ASSUME NEW t \in DOMAIN now, ~Keeps(t)
      PROVE  \E w \in S : /\ t \in DOMAIN Recognised[w] /\ now[t] = rawTool(w, t)
                          /\ Shown(order, t) # {} => now[t].version \in Versions
  <2> DEFINE m == Min(Best(t))
  <2>1. m \in Best(t) /\ m \in Matches(order, t) /\ m \in DOMAIN order
    BY <1>6, <1>7
  <2>2. now[t] = rawTool(order[m], t)
    BY <1>5, <1>7
  <2>3. t \in DOMAIN Recognised[order[m]]
    BY <2>1 DEF Matches
  <2>4. Shown(order, t) # {} => Recognised[order[m]][t] \in Versions
    BY <2>1 DEF Shown
  <2> HIDE DEF m
  <2> QED
    BY <1>2, <1>3, <2>1, <2>2, <2>3, <2>4
<1>8. ASSUME NEW w \in S, NEW t \in DOMAIN Recognised[w]
      PROVE  /\ t \in DOMAIN now
             /\ Recognised[w][t] \in Versions => Shown(order, t) # {}
  <2>1. PICK i \in DOMAIN order : order[i] = w
    BY <1>1 DEF Range
  <2>2. i \in Matches(order, t)
    BY <2>1 DEF Matches
  <2> QED
    BY <1>3, <1>4, <2>1, <2>2 DEF Shown
<1>9. \A t \in DOMAIN seen : seen[t].version \in Versions => Keeps(t)
  OBVIOUS
<1>10. DOMAIN seen \subseteq DOMAIN now /\ DOMAIN now \subseteq Tools
  BY <1>4
<1>11. \A t \in DOMAIN now : Keeps(t) /\ Shown(order, t) # {} => seen[t].version \in Versions
  OBVIOUS
<1>12. \A t \in DOMAIN now : Keeps(t) => t \in DOMAIN seen
  OBVIOUS
<1> HIDE DEF now, Keeps, Best
<1>13. \A t \in DOMAIN now :
         \/ t \in DOMAIN seen /\ now[t] = seen[t]
         \/ \E w \in S : t \in DOMAIN Recognised[w] /\ now[t] = rawTool(w, t)
  BY <1>5, <1>7, <1>12
<1>14. \A t \in DOMAIN seen : seen[t].version \in Versions => now[t].version \in Versions
  BY <1>5, <1>9, <1>10
<1>15. ASSUME NEW w \in S, NEW t \in DOMAIN Recognised[w]
       PROVE  t \in DOMAIN now /\ (Recognised[w][t] \in Versions => now[t].version \in Versions)
  BY <1>5, <1>7, <1>8, <1>11, <1>15
<1> QED
  BY <1>10, <1>13, <1>14, <1>15 DEF now

-----------------------------------------------------------------------------
(* Records.                                                                *)

\* A find is of a tool of the knowledge base, or of none.
LEMMA IdentifyType ==
    ASSUME NEW f \in KnownFind
    PROVE  identify(f) \in Tools \union {NoName}
BY ChartIdentified, KnownTool DEF identify, M!CanonicalName, M!Known

\* Its version is one, or missing, or none that can be compared.
LEMMA AppVersionType ==
    ASSUME NEW f \in KnownFind, NEW t \in Tools
    PROVE  appVersion(t, f) \in VersionOrNone
<1>1. f.version \in VersionOrNone /\ ImageVersions[f.images][t] \in VersionOrNone
  BY VersionsReadAssumption DEF KnownFind, Find
<1>2. M!AppVersionForChart(t, f.chartVersion) \in VersionOrNone
  BY ChartApp DEF VersionOrNone
<1> QED
  BY <1>1, <1>2 DEF appVersion

\* The record of a find.
LEMMA IdentifiedType ==
    ASSUME NEW f \in KnownFind
    PROVE  /\ Identified(f).name = identify(f) /\ Identified(f).source = f.source
           /\ Place(Identified(f)) = Place(f)
           /\ Identified(f).version = appVersion(identify(f), f)
           /\ identify(f) \in Tools => Identified(f) \in Find
<1>1. f \in Find
  BY DEF KnownFind
<1>2. /\ Identified(f).name = identify(f) /\ Identified(f).source = f.source
      /\ Place(Identified(f)) = Place(f)
      /\ Identified(f).version = appVersion(identify(f), f)
  BY <1>1 DEF Identified, Find, Place
<1>3. ASSUME identify(f) \in Tools
      PROVE  Identified(f) \in Find
  <2>1. identify(f) \in Names /\ appVersion(identify(f), f) \in VersionOrNone
    BY <1>3, KnownTool, AppVersionType
  <2> QED
    BY <1>1, <2>1 DEF Identified, Find
<1> QED
  BY <1>2, <1>3

\* The source ranks first, and then whether a version can be compared.
LEMMA PreferredOrder ==
    ASSUME NEW n, NEW r, \A i \in n : r[i].source \in DOMAIN sourceRank
    PROVE  /\ \A i, j \in n : preferred(r[i], r[j]) => ~preferred(r[j], r[i])
           /\ \A i, j, k \in n : preferred(r[i], r[k]) =>
                preferred(r[i], r[j]) \/ preferred(r[j], r[k])
<1>1. \A i \in n : sourceRank[r[i].source] \in Nat
  BY DEF sourceRank
<1> HIDE DEF sourceRank
<1> QED
  BY <1>1 DEF preferred

\* Every tool found has a record, that of one of its finds none is preferred to.
LEMMA RecordsKept ==
    ASSUME NEW found \in Seq(KnownFind)
    PROVE  /\ DOMAIN Records(found) = {identify(f) : f \in Range(found)} \ {NoName}
           /\ \A t \in DOMAIN Records(found) : \E f \in Range(found) :
                /\ identify(f) = t /\ Records(found)[t] = Identified(f)
                /\ \A g \in Range(found) :
                     identify(g) = t => ~preferred(Identified(g), Identified(f))
<1> DEFINE of(t) == {i \in DOMAIN found : identify(found[i]) = t}
           r == [i \in DOMAIN found |-> Identified(found[i])]
           Wins(i, t) == \A j \in of(t) : /\ ~preferred(r[j], r[i])
                                          /\ j < i => preferred(r[i], r[j])
<1>1. /\ Len(found) \in Nat /\ DOMAIN found = 1..Len(found)
      /\ \A i \in DOMAIN found : found[i] \in KnownFind
  OBVIOUS
<1>2. DOMAIN Records(found) = {identify(f) : f \in Range(found)} \ {NoName}
  BY DEF Records
<1>3. ASSUME NEW t \in DOMAIN Records(found)
      PROVE  \E f \in Range(found) :
               /\ identify(f) = t /\ Records(found)[t] = Identified(f)
               /\ \A g \in Range(found) :
                    identify(g) = t => ~preferred(Identified(g), Identified(f))
  <2> DEFINE better == {p \in of(t) \X of(t) : preferred(r[p[1]], r[p[2]])}
  <2>1. of(t) \subseteq 1..Len(found) /\ of(t) \subseteq DOMAIN found /\ of(t) # {}
    BY <1>1, <1>2 DEF Range
  <2>2. \A i \in of(t) : r[i] = Identified(found[i]) /\ r[i].source \in DOMAIN sourceRank
    BY <1>1, IdentifiedType DEF KnownFind, Find
  <2>3. \A i, j \in of(t) : <<i, j>> \in better <=> preferred(r[i], r[j])
    OBVIOUS
  <2>4. Records(found)[t] = Identified(found[CHOOSE i \in of(t) :
          \A j \in of(t) : /\ ~preferred(Identified(found[j]), Identified(found[i]))
                           /\ j < i => preferred(Identified(found[i]), Identified(found[j]))])
    BY DEF Records, FirstBest
  <2>5. Records(found)[t] = Identified(found[CHOOSE i \in of(t) : Wins(i, t)])
    BY <2>2, <2>4
  <2> HIDE DEF of, r, better
  <2>6. IsBetter(of(t), better)
    <3>1. /\ \A i, j \in of(t) : preferred(r[i], r[j]) => ~preferred(r[j], r[i])
          /\ \A i, j, k \in of(t) : preferred(r[i], r[k]) =>
               preferred(r[i], r[j]) \/ preferred(r[j], r[k])
      BY <2>2, PreferredOrder
    <3> QED
      BY <2>3, <3>1 DEF IsBetter
  <2>7. \E i \in of(t) : IsFirstBest(i, of(t), better)
    BY <1>1, <2>1, <2>6, FirstBestExists
  <2>8. \E i \in of(t) : Wins(i, t)
    BY <2>3, <2>7 DEF IsFirstBest
  <2> HIDE DEF Wins
  <2>9. PICK k \in of(t) : Wins(k, t) /\ Records(found)[t] = Identified(found[k])
    BY <2>5, <2>8
  <2>10. found[k] \in Range(found) /\ identify(found[k]) = t
    BY DEF of, Range
  <2>11. ASSUME NEW g \in Range(found), identify(g) = t
         PROVE  ~preferred(Identified(g), Identified(found[k]))
    <3>1. PICK j \in of(t) : g = found[j]
      BY <2>11 DEF of, Range
    <3> QED
      BY <2>2, <2>9, <3>1 DEF Wins
  <2> QED
    BY <2>9, <2>10, <2>11
<1> QED
  BY <1>2, <1>3

-----------------------------------------------------------------------------
(* The merge, and all finds.                                               *)

FindsTyped ==
    /\ flux \in Seq(KnownFind) /\ helm \in Seq(KnownFind) /\ argo \in Seq(KnownFind)
    /\ raw = [t \in DOMAIN raw |-> raw[t]] /\ DOMAIN raw \subseteq Tools
    /\ \A t \in DOMAIN raw : raw[t] \in KnownFind

\* A release is looked up by its place.
LEMMA ByRelease ==
    ASSUME helm \in Seq(KnownFind)
    PROVE  /\ DOMAIN byRelease = {Place(helm[i]) : i \in DOMAIN helm}
           /\ \A k \in DOMAIN byRelease :
                byRelease[k] \in DOMAIN helm /\ Place(helm[byRelease[k]]) = k
<1> DEFINE S(k) == {i \in DOMAIN helm : Key(helm[i]) = k}
           last(k, i) == /\ i \in DOMAIN helm /\ Key(helm[i]) = k
                         /\ \A j \in DOMAIN helm : Key(helm[j]) = k => j <= i
<1>1. Len(helm) \in Nat /\ DOMAIN helm = 1..Len(helm)
  OBVIOUS
<1>2. \A f : Key(f) = Place(f)
  BY DEF Key, Place
<1>3. DOMAIN byRelease = {Place(helm[i]) : i \in DOMAIN helm}
  BY <1>2 DEF byRelease
<1>4. ASSUME NEW k \in DOMAIN byRelease
      PROVE  byRelease[k] \in DOMAIN helm /\ Place(helm[byRelease[k]]) = k
  <2> DEFINE better == {p \in S(k) \X S(k) : p[1] > p[2]}
  <2>1. S(k) \subseteq 1..Len(helm) /\ S(k) # {}
    BY <1>1, <1>2, <1>3
  <2>2. \A i, j \in S(k) : <<i, j>> \in better <=> i > j
    OBVIOUS
  <2> HIDE DEF better
  <2>3. IsBetter(S(k), better)
    BY <2>1, <2>2 DEF IsBetter
  <2>4. \E i \in S(k) : IsFirstBest(i, S(k), better)
    <3> HIDE DEF S
    <3> QED
      BY <1>1, <2>1, <2>3, FirstBestExists
  <2>5. \E i \in DOMAIN helm : last(k, i)
    <3>1. PICK i \in S(k) : \A j \in S(k) : ~(j > i)
      BY <2>2, <2>4 DEF IsFirstBest
    <3>2. \A j \in S(k) : j <= i
      <4> HIDE DEF S
      <4> QED
        BY <2>1, <3>1
    <3> QED
      BY <3>2
  <2>6. k \in {Key(helm[i]) : i \in DOMAIN helm}
    BY <1>2, <1>3
  <2>7. byRelease[k] = CHOOSE i \in DOMAIN helm :
          Key(helm[i]) = k /\ \A j \in DOMAIN helm : Key(helm[j]) = k => j <= i
    BY <2>6 DEF byRelease
  <2>8. last(k, byRelease[k])
    BY <2>5, <2>7
  <2> QED
    BY <1>2, <2>8
<1> QED
  BY <1>3, <1>4

\* What f becomes when h completes it.
CompletedBy(f, h) ==
    [f EXCEPT !.name = IF f.name = NoName THEN h.name ELSE f.name,
              !.chartVersion = IF f.chartVersion = NoVersion THEN h.chartVersion
                               ELSE f.chartVersion,
              !.version = IF f.version = NoVersion THEN h.version ELSE f.version,
              !.words = f.words \union h.words]

\* A release of Flux is completed by a Helm release at its place, if there is one.
LEMMA CompletedFind ==
    ASSUME helm \in Seq(KnownFind), NEW f \in KnownFind
    PROVE  \/ /\ completed(f) = f
              /\ \A h \in Range(helm) : Place(h) # Place(f)
           \/ \E h \in Range(helm) : Place(h) = Place(f) /\ completed(f) = CompletedBy(f, h)
<1>1. Key(f) = Place(f)
  BY DEF Key, Place
<1>2. CASE Key(f) \notin DOMAIN byRelease
  <2>1. completed(f) = f
    BY <1>2 DEF completed
  <2>2. \A h \in Range(helm) : Place(h) # Place(f)
    BY <1>1, <1>2, ByRelease DEF Range
  <2> QED
    BY <2>1, <2>2
<1>3. CASE Key(f) \in DOMAIN byRelease
  <2>1. byRelease[Key(f)] \in DOMAIN helm /\ Place(helm[byRelease[Key(f)]]) = Place(f)
    BY <1>1, <1>3, ByRelease
  <2>2. completed(f) = CompletedBy(f, helm[byRelease[Key(f)]])
    BY <1>3 DEF completed, CompletedBy
  <2> QED
    BY <2>1, <2>2 DEF Range
<1> QED
  BY <1>2, <1>3

\* It stays at its place in its source, with a name if it had one.
LEMMA CompletedByType ==
    ASSUME NEW f \in KnownFind, NEW h \in KnownFind
    PROVE  LET g == CompletedBy(f, h) IN
           /\ g \in KnownFind /\ g.source = f.source /\ Place(g) = Place(f)
           /\ g.images = f.images /\ g.words = f.words \union h.words
           /\ g.name = (IF f.name = NoName THEN h.name ELSE f.name)
           /\ g.version = (IF f.version = NoVersion THEN h.version ELSE f.version)
           /\ g.chartVersion = (IF f.chartVersion = NoVersion THEN h.chartVersion
                                ELSE f.chartVersion)
BY DEF CompletedBy, KnownFind, Find, Place

\* All finds but the raw ones.
LEMMA ScanAllRange ==
    ASSUME FindsTyped
    PROVE  /\ ScanAll \in Seq(KnownFind)
           /\ Range(ScanAll) = {completed(f) : f \in Range(flux)}
                               \union {helm[i] : i \in DOMAIN helm \ managed} \union Range(argo)
<1> DEFINE x == [i \in DOMAIN flux |-> completed(flux[i])]
           y == mergeFluxManagedReleases
<1>1. flux \in Seq(KnownFind) /\ helm \in Seq(KnownFind) /\ argo \in Seq(KnownFind)
  BY DEF FindsTyped
<1>2. ASSUME NEW f \in KnownFind
      PROVE  completed(f) \in KnownFind
  <2>1. \A h \in Range(helm) : h \in KnownFind
    BY <1>1 DEF Range
  <2> QED
    BY <1>1, <2>1, CompletedFind, CompletedByType
<1>3. x \in Seq(KnownFind) /\ Range(x) = {completed(f) : f \in Range(flux)}
  <2>1. Len(flux) \in Nat /\ DOMAIN flux = 1..Len(flux) /\ \A i \in DOMAIN flux : flux[i] \in KnownFind
    BY <1>1
  <2>2. x = [i \in 1..Len(flux) |-> x[i]] /\ \A i \in 1..Len(flux) : x[i] \in KnownFind
    BY <1>2, <2>1
  <2>3. Range(x) = {completed(f) : f \in Range(flux)}
    BY DEF Range
  <2> HIDE DEF x
  <2> QED
    BY <2>1, <2>2, <2>3, ListOf
<1>4. y \in Seq(KnownFind) /\ Range(y) = {helm[i] : i \in DOMAIN helm \ managed}
  BY <1>1, KeptRange DEF mergeFluxManagedReleases
<1>5. ScanAll = (x \o y) \o argo
  BY DEF ScanAll
<1> HIDE DEF x, y
<1>6. ScanAll \in Seq(KnownFind) /\ Range(ScanAll) = (Range(x) \union Range(y)) \union Range(argo)
  <2>1. x \o y \in Seq(KnownFind) /\ Range(x \o y) = Range(x) \union Range(y)
    BY <1>3, <1>4, ConcatRange
  <2> QED
    <3> DEFINE xy == x \o y
    <3> HIDE DEF xy
    <3>1. xy \in Seq(KnownFind) /\ Range(xy) = Range(x) \union Range(y) /\ ScanAll = xy \o argo
      BY <1>5, <2>1 DEF xy
    <3>2. xy \o argo \in Seq(KnownFind) /\ Range(xy \o argo) = Range(xy) \union Range(argo)
      BY <1>1, <3>1, ConcatRange
    <3> QED
      BY <3>1, <3>2
<1> QED
  BY <1>3, <1>4, <1>6

\* The raw finds, in some order.
LEMMA RawsRange ==
    ASSUME FindsTyped
    PROVE  Raws \in Seq(KnownFind) /\ Range(Raws) = {raw[t] : t \in DOMAIN raw}
<1> DEFINE S == DOMAIN raw
           order == SetToSeq(S)
           n == Cardinality(S)
<1>1. IsFiniteSet(S)
  BY KnownTool, FS_Subset DEF FindsTyped
<1>2. \E o \in [1..n -> S] : IsInjective(o)
  <2> HIDE DEF S
  <2>1. PICK o : o \in Bijection(1..n, S)
    BY <1>1, FS_CardinalityType DEF ExistsBijection
  <2> QED
    BY <2>1 DEF Bijection, Injection
<1>3. order \in [1..n -> S] /\ IsInjective(order)
  BY <1>2 DEF SetToSeq
<1>4. n \in Nat
  BY <1>1, FS_CardinalityType
<1> HIDE DEF S, order, n
<1>5. order \in Seq(S) /\ Range(order) = S
  BY <1>1, <1>3, OrderOfSet DEF n
<1>6. Raws = [i \in 1..n |-> raw[order[i]]]
  BY <1>3 DEF Raws, order, S
<1>7. Raws = [i \in 1..n |-> Raws[i]] /\ \A i \in 1..n : Raws[i] \in KnownFind
  BY <1>3, <1>6 DEF FindsTyped, S
<1>8. Range(Raws) = {raw[t] : t \in S}
  BY <1>3, <1>5, <1>6 DEF Range
<1>9. Raws \in Seq(KnownFind)
  <2> HIDE DEF Raws
  <2> QED
    BY <1>4, <1>7, ListOf
<1> QED
  BY <1>8, <1>9 DEF S

\* All finds.
LEMMA FoundRange ==
    ASSUME FindsTyped, NEW sources
    PROVE  /\ Found(sources) \in Seq(KnownFind)
           /\ Range(Found(sources)) =
                Range(ScanAll) \union (IF "raw" \in sources THEN {raw[t] : t \in DOMAIN raw} ELSE {})
<1>1. CASE "raw" \in sources
  <2>1. ScanAll \in Seq(KnownFind) /\ Raws \in Seq(KnownFind)
        /\ Range(Raws) = {raw[t] : t \in DOMAIN raw}
    BY ScanAllRange, RawsRange
  <2>2. Found(sources) = ScanAll \o Raws
    BY <1>1 DEF Found
  <2> QED
    BY <1>1, <2>1, <2>2, ConcatRange
<1>2. CASE "raw" \notin sources
  BY <1>2, ScanAllRange DEF Found
<1> QED
  BY <1>1, <1>2

-----------------------------------------------------------------------------
(* The inductive invariant: what the finds of each source are of, and when. *)

Clusters == [flux: FluxLists, helm: HelmLists, argo: ArgoLists, raw: RawSets]

BaseInv ==
    /\ before \subseteq Clusters /\ cluster \in before
    /\ watched \in WatchLists
    /\ pc \in {"flux", "helm", "raw", "done"} /\ at \in 1..(Len(watched) + 1)
    /\ FindsTyped
    /\ answered \subseteq {"fluxcd", "repositories", "argocd", "raw"}
    /\ listed \subseteq Range(watched)
    /\ changes \in 0..MaxChanges

\* Flux's releases are those of one cluster.
FluxInv ==
    /\ pc = "flux" => answered = {}
    /\ "fluxcd" \notin answered => flux = <<>>
    /\ "fluxcd" \in answered =>
         \E c \in before : Range(flux) = FluxRead(c, "repositories" \in answered)

\* Helm's are those of a cluster for each namespace listed, and each is there
\* once if no namespace is listed twice.
HelmInv ==
    /\ pc \in {"flux", "helm"} => listed \subseteq {watched[i] : i \in 1..(at - 1)}
    /\ \A h \in Range(helm) : \E c \in before, namespace \in listed : h \in HelmRead(c, namespace)
    /\ \A namespace \in listed : \E c \in before : HelmRead(c, namespace) \subseteq Range(helm)
    /\ IsInjective(watched) =>
         \A i, j \in DOMAIN helm : Place(helm[i]) = Place(helm[j]) => i = j

\* Argo CD's are those of one cluster.
ArgoInv ==
    /\ "argocd" \notin answered => argo = <<>>
    /\ "argocd" \in answered => \E c \in before : Range(argo) = ArgoRead(c)

\* The workloads of the i-th namespace in a cluster have been taken for what they are.
SeenRaw(c, i) ==
    \A w \in c.raw : w.namespace = watched[i] =>
      \A t \in DOMAIN Recognised[w] :
        t \in DOMAIN raw /\ (Recognised[w][t] \in Versions => raw[t].version \in Versions)

OfWorkload(t) ==
    \E c \in before : \E w \in c.raw :
      w.namespace \in Range(watched) /\ t \in DOMAIN Recognised[w] /\ raw[t] = rawTool(w, t)

\* The raw finds are of some cluster each, and nothing listed is left out.
RawInv ==
    /\ pc # "done" => "raw" \notin answered
    /\ pc = "done" => at > Len(watched)
    /\ \A t \in DOMAIN raw : OfWorkload(t)
    /\ pc \in {"raw", "done"} => \A i \in 1..(at - 1) : \E c \in before : SeenRaw(c, i)

\* The result is there at the end.
DoneInv ==
    IF pc = "done"
      THEN /\ installed = Records(Found(answered))
           /\ unknown = {t.name : t \in {u \in Range(Found(answered)) : identify(u) = NoName}}
      ELSE installed = <<>> /\ unknown = {}

IInv == BaseInv /\ FluxInv /\ HelmInv /\ ArgoInv /\ RawInv /\ DoneInv

-----------------------------------------------------------------------------
(* What a step leaves as it is.                                            *)

\* The finds of Flux, Helm and Argo CD stay those of the same cluster.
LEMMA FluxKept ==
    ASSUME FluxInv, flux' = flux, watched' = watched, before \subseteq before',
           "fluxcd" \in answered' <=> "fluxcd" \in answered,
           ("repositories" \in answered') = ("repositories" \in answered),
           pc' = "flux" => answered' = {}
    PROVE  FluxInv'
<1>1. \A c, b : FluxRead(c, b)' = FluxRead(c, b)
  BY DEF FluxRead, Watches
<1> QED
  BY <1>1 DEF FluxInv

LEMMA HelmKept ==
    ASSUME HelmInv, helm' = helm, watched' = watched, listed' = listed, before \subseteq before',
           pc' \in {"flux", "helm"} => pc \in {"flux", "helm"} /\ at' = at
    PROVE  HelmInv'
BY DEF HelmInv

LEMMA ArgoKept ==
    ASSUME ArgoInv, argo' = argo, watched' = watched, before \subseteq before',
           "argocd" \in answered' <=> "argocd" \in answered
    PROVE  ArgoInv'
<1>1. \A c : ArgoRead(c)' = ArgoRead(c)
  BY DEF ArgoRead, Watches
<1> QED
  BY <1>1 DEF ArgoInv

LEMMA RawKept ==
    ASSUME RawInv, raw' = raw, watched' = watched, before \subseteq before',
           pc' # "done" => "raw" \notin answered',
           pc' = "done" => at' > Len(watched),
           pc' \in {"raw", "done"} => at' = 1 \/ (pc \in {"raw", "done"} /\ at' = at)
    PROVE  RawInv'
<1>1. \A t \in DOMAIN raw' : OfWorkload(t)'
  BY DEF RawInv, OfWorkload
<1>2. \A c, i : SeenRaw(c, i)' <=> SeenRaw(c, i)
  BY DEF SeenRaw
<1>3. ASSUME pc' \in {"raw", "done"}
      PROVE  \A i \in 1..(at' - 1) : \E c \in before' : SeenRaw(c, i)
  <2>1. CASE at' = 1
    BY <2>1
  <2>2. CASE pc \in {"raw", "done"} /\ at' = at
    BY <2>2 DEF RawInv
  <2> QED
    BY <1>3, <2>1, <2>2
<1>4. pc' \in {"raw", "done"} => \A i \in 1..(at' - 1) : \E c \in before' : SeenRaw(c, i)'
  BY <1>2, <1>3
<1> QED
  BY <1>1, <1>4 DEF RawInv

LEMMA DoneKept ==
    ASSUME DoneInv, pc # "done", pc' # "done", installed' = installed, unknown' = unknown
    PROVE  DoneInv'
BY DEF DoneInv

\* All finds stay as they are.
LEMMA FoundKept ==
    ASSUME UNCHANGED finds, NEW sources
    PROVE  Found(sources)' = Found(sources)
<1>1. byRelease' = byRelease
  BY DEF finds, byRelease
<1>2. \A f : completed(f)' = completed(f)
  BY <1>1 DEF finds, completed
<1>3. managed' = managed
  BY <1>1 DEF finds, managed
<1>4. mergeFluxManagedReleases' = mergeFluxManagedReleases
  BY <1>3 DEF finds, mergeFluxManagedReleases
<1>5. ScanAll' = ScanAll
  BY <1>2, <1>4 DEF finds, ScanAll
<1>6. Raws' = Raws
  BY DEF finds, Raws
<1> QED
  BY <1>5, <1>6 DEF Found

-----------------------------------------------------------------------------
(* Each step preserves the invariant.                                      *)

\* A scan starts with what is installed, and with no find.
LEMMA InitInv == Init => IInv
<1> SUFFICES ASSUME Init
             PROVE  IInv
  OBVIOUS
<1>1. watched \in Seq(Namespaces)
  BY SourcesAssumption DEF Init
<1>2. at \in 1..(Len(watched) + 1) /\ changes \in 0..MaxChanges
  BY <1>1, SourcesAssumption DEF Init
<1>3. FindsTyped
  <2>1. <<>> \in Seq(KnownFind) /\ DOMAIN <<>> = {} /\ <<>> = [t \in DOMAIN <<>> |-> <<>>[t]]
    OBVIOUS
  <2> QED
    BY <2>1 DEF Init, FindsTyped
<1>4. BaseInv
  BY <1>2, <1>3 DEF Init, BaseInv, Clusters
<1>5. FluxInv /\ ArgoInv /\ DoneInv
  BY DEF Init, FluxInv, ArgoInv, DoneInv
<1>6. HelmInv
  <2>1. Range(<<>>) = {} /\ DOMAIN <<>> = {}
    BY DEF Range
  <2> QED
    BY <2>1 DEF Init, HelmInv
<1>7. RawInv
  <2>1. DOMAIN <<>> = {}
    OBVIOUS
  <2> QED
    BY <2>1 DEF Init, RawInv
<1> QED
  BY <1>4, <1>5, <1>6, <1>7 DEF IInv

\* Flux's releases are listed.
LEMMA ListFluxInv == IInv /\ ListFlux => IInv'
<1> SUFFICES ASSUME IInv, ListFlux
             PROVE  IInv'
  OBVIOUS
<1> USE DEF IInv
<1>1. cluster \in before /\ cluster.flux \in FluxLists
  BY DEF BaseInv, Clusters
<1>2. CASE UNCHANGED <<flux, answered>>
  <2>1. BaseInv'
    BY <1>2 DEF ListFlux, BaseInv, FindsTyped
  <2>2. FluxInv'
    BY <1>2, FluxKept DEF ListFlux
  <2> QED
    BY <1>2, <2>1, <2>2, HelmKept, ArgoKept, RawKept, DoneKept DEF ListFlux, RawInv
<1>3. ASSUME NEW repositories \in BOOLEAN,
             flux' = Kept([i \in DOMAIN cluster.flux |->
                             WithRepositories(cluster.flux[i], repositories)],
                          {i \in DOMAIN cluster.flux :
                             Watches(cluster.flux[i], fluxTool(cluster.flux[i]))}),
             answered' = answered \union {"fluxcd"} \union
                           (IF repositories THEN {"repositories"} ELSE {})
      PROVE  IInv'
  <2>1. flux' \in Seq(KnownFind) /\ Range(flux') = FluxRead(cluster, repositories)
    BY <1>1, <1>3, FluxListed
  <2>2. answered = {}
    BY DEF ListFlux, FluxInv
  <2>3. /\ "fluxcd" \in answered' /\ ("repositories" \in answered') = repositories
        /\ "argocd" \notin answered' /\ "raw" \notin answered'
        /\ answered' \subseteq {"fluxcd", "repositories", "argocd", "raw"}
    BY <1>3, <2>2
  <2>4. BaseInv'
    BY <2>1, <2>3 DEF ListFlux, BaseInv, FindsTyped
  <2>5. FluxInv'
    <3>1. \A c, b : FluxRead(c, b)' = FluxRead(c, b)
      BY DEF ListFlux, FluxRead, Watches
    <3>2. cluster \in before' /\ Range(flux') = FluxRead(cluster, "repositories" \in answered')
      BY <1>1, <2>1, <2>3 DEF ListFlux
    <3>3. pc' # "flux"
      BY DEF ListFlux
    <3> QED
      BY <2>3, <3>1, <3>2, <3>3 DEF FluxInv
  <2>6. HelmInv' /\ DoneInv'
    BY HelmKept, DoneKept DEF ListFlux
  <2>7. ArgoInv'
    BY <2>2, <2>3, ArgoKept DEF ListFlux
  <2>8. RawInv'
    BY <2>3, RawKept DEF ListFlux
  <2> QED
    BY <2>4, <2>5, <2>6, <2>7, <2>8
<1> QED
  BY <1>2, <1>3 DEF ListFlux

\* Helm's releases of one more namespace are listed.
LEMMA ListHelmInv == IInv /\ ListHelm => IInv'
<1> SUFFICES ASSUME IInv, ListHelm
             PROVE  IInv'
  OBVIOUS
<1> USE DEF IInv
<1> DEFINE ns == watched[at]
           list == Kept([i \in DOMAIN cluster.helm |-> helmTool(cluster.helm[i])],
                        {i \in DOMAIN cluster.helm : cluster.helm[i].namespace = ns})
<1>1. cluster \in before /\ cluster.helm \in HelmLists
  BY DEF BaseInv, Clusters
<1>2. watched \in Seq(Namespaces) /\ at \in DOMAIN watched /\ at \in Nat /\ ns \in Range(watched)
      /\ at' = at + 1 /\ at' \in 1..(Len(watched) + 1) /\ DOMAIN watched = 1..Len(watched)
  BY SourcesAssumption DEF ListHelm, BaseInv, Range
<1>3. FluxInv' /\ ArgoInv' /\ DoneInv'
  BY FluxKept, ArgoKept, DoneKept DEF ListHelm
<1>4. RawInv'
  BY RawKept DEF ListHelm, RawInv
<1>5. {watched[i] : i \in 1..(at' - 1)} = {watched[i] : i \in 1..(at - 1)} \union {ns}
  <2>1. 1..(at' - 1) = 1..(at - 1) \union {at}
    BY <1>2
  <2> QED
    BY <2>1
<1>6. listed \subseteq {watched[i] : i \in 1..(at - 1)}
  BY DEF ListHelm, HelmInv
<1>7. CASE UNCHANGED <<helm, listed>>
  <2>1. BaseInv'
    BY <1>2, <1>7 DEF ListHelm, BaseInv, FindsTyped
  <2>2. HelmInv'
    BY <1>5, <1>6, <1>7 DEF ListHelm, HelmInv
  <2> QED
    BY <1>3, <1>4, <2>1, <2>2
<1>8. CASE helm' = helm \o list /\ listed' = listed \union {ns}
  <2>1. /\ list \in Seq(KnownFind) /\ Range(list) = HelmRead(cluster, ns)
        /\ \A k, l \in DOMAIN list : Place(list[k]) = Place(list[l]) => k = l
    BY <1>1, HelmListed
  <2> HIDE DEF list
  <2>2. helm \in Seq(KnownFind)
    BY DEF BaseInv, FindsTyped
  <2>3. helm' \in Seq(KnownFind) /\ Range(helm') = Range(helm) \union Range(list)
    BY <1>8, <2>1, <2>2, ConcatRange
  <2>4. BaseInv'
    BY <1>2, <1>8, <2>3 DEF ListHelm, BaseInv, FindsTyped
  <2>5. listed' \subseteq {watched[i] : i \in 1..(at' - 1)}
    <3> HIDE DEF ns
    <3> QED
      BY <1>5, <1>6, <1>8
  <2>6. ASSUME NEW h \in Range(helm')
        PROVE  \E c \in before', namespace \in listed' : h \in HelmRead(c, namespace)
    <3>1. CASE h \in Range(helm)
      BY <1>8, <3>1 DEF HelmInv, ListHelm
    <3>2. CASE h \in HelmRead(cluster, ns)
      BY <1>1, <1>8, <3>2 DEF ListHelm
    <3> QED
      BY <2>1, <2>3, <3>1, <3>2
  <2>7. ASSUME NEW namespace \in listed'
        PROVE  \E c \in before' : HelmRead(c, namespace) \subseteq Range(helm')
    <3>1. CASE namespace \in listed
      BY <2>3, <3>1 DEF HelmInv, ListHelm
    <3>2. CASE namespace = ns
      BY <1>1, <2>1, <2>3, <3>2 DEF ListHelm
    <3> QED
      BY <1>8, <3>1, <3>2
  <2>8. ASSUME IsInjective(watched)
        PROVE  \A i, j \in DOMAIN helm' : Place(helm'[i]) = Place(helm'[j]) => i = j
    <3>1. ns \notin listed
      BY <1>2, <1>6, <2>8 DEF IsInjective
    <3>2. \A h \in Range(helm) : h.namespace \in listed
      <4>1. ASSUME NEW c \in before, NEW namespace, NEW h \in HelmRead(c, namespace)
            PROVE  h.namespace = namespace
        BY DEF HelmRead, helmTool
      <4> QED
        BY <4>1 DEF HelmInv
    <3>3. \A h \in Range(list) : h.namespace = ns
      BY <2>1 DEF HelmRead, helmTool
    <3>4. /\ Len(helm) \in Nat /\ Len(list) \in Nat /\ DOMAIN helm = 1..Len(helm)
          /\ DOMAIN list = 1..Len(list) /\ DOMAIN helm' = 1..(Len(helm) + Len(list))
          /\ \A k \in DOMAIN helm' : helm'[k] = IF k <= Len(helm) THEN helm[k]
                                                ELSE list[k - Len(helm)]
      BY <1>8, <2>1, <2>2
    <3>5. ASSUME NEW k \in DOMAIN helm'
          PROVE  \/ k \in DOMAIN helm /\ helm'[k] = helm[k] /\ helm'[k].namespace \in listed
                 \/ /\ k - Len(helm) \in DOMAIN list /\ helm'[k] = list[k - Len(helm)]
                    /\ helm'[k].namespace = ns /\ k \in Nat
      BY <3>2, <3>3, <3>4 DEF Range
    <3> SUFFICES ASSUME NEW i \in DOMAIN helm', NEW j \in DOMAIN helm',
                        Place(helm'[i]) = Place(helm'[j])
                 PROVE  i = j
      OBVIOUS
    <3>6. helm'[i].namespace = helm'[j].namespace
      BY DEF Place
    <3>7. CASE i \in DOMAIN helm /\ helm'[i] = helm[i] /\ helm'[i].namespace \in listed
      <4>1. j \in DOMAIN helm /\ helm'[j] = helm[j]
        BY <3>1, <3>5, <3>6, <3>7
      <4> QED
        BY <2>8, <3>7, <4>1 DEF HelmInv
    <3>8. CASE /\ i - Len(helm) \in DOMAIN list /\ helm'[i] = list[i - Len(helm)]
               /\ helm'[i].namespace = ns /\ i \in Nat
      <4>1. j - Len(helm) \in DOMAIN list /\ helm'[j] = list[j - Len(helm)] /\ j \in Nat
        BY <3>1, <3>5, <3>6, <3>8
      <4>2. i - Len(helm) = j - Len(helm)
        BY <2>1, <3>8, <4>1
      <4> QED
        BY <3>4, <3>8, <4>1, <4>2
    <3> QED
      BY <3>5, <3>7, <3>8
  <2>9. HelmInv'
    <3>1. watched' = watched
      BY DEF ListHelm
    <3> QED
      BY <2>5, <2>6, <2>7, <2>8, <3>1 DEF HelmInv
  <2> QED
    BY <1>3, <1>4, <2>4, <2>9
<1> QED
  BY <1>7, <1>8 DEF ListHelm

\* Argo CD's Applications are listed.
LEMMA ListArgoInv == IInv /\ ListArgo => IInv'
<1> SUFFICES ASSUME IInv, ListArgo
             PROVE  IInv'
  OBVIOUS
<1> USE DEF IInv
<1> DEFINE list == FlattenSeq([i \in DOMAIN cluster.argo |->
                                 IF Watches(cluster.argo[i], cluster.argo[i])
                                   THEN argoTools(cluster.argo[i]) ELSE <<>>])
<1>1. cluster \in before /\ cluster.argo \in ArgoLists
  BY DEF BaseInv, Clusters
<1>2. at' \in 1..(Len(watched) + 1)
  <2>1. watched \in Seq(Namespaces)
    BY SourcesAssumption DEF BaseInv
  <2> QED
    BY <2>1 DEF ListArgo
<1>3. HelmInv' /\ DoneInv'
  BY HelmKept, DoneKept DEF ListArgo
<1>4. CASE UNCHANGED <<argo, answered>>
  <2>1. BaseInv'
    BY <1>2, <1>4 DEF ListArgo, BaseInv, FindsTyped
  <2>2. FluxInv' /\ ArgoInv'
    BY <1>4, FluxKept, ArgoKept DEF ListArgo
  <2>3. RawInv'
    BY <1>4, RawKept DEF ListArgo, RawInv
  <2> QED
    BY <1>3, <2>1, <2>2, <2>3
<1>5. CASE argo' = list /\ answered' = answered \union {"argocd"}
  <2>1. list \in Seq(KnownFind) /\ Range(list) = ArgoRead(cluster)
    BY <1>1, ArgoListed
  <2> HIDE DEF list
  <2>2. BaseInv'
    BY <1>2, <1>5, <2>1 DEF ListArgo, BaseInv, FindsTyped
  <2>3. FluxInv'
    BY <1>5, FluxKept DEF ListArgo
  <2>4. ArgoInv'
    <3>1. ArgoRead(cluster)' = ArgoRead(cluster)
      BY DEF ListArgo, ArgoRead, Watches
    <3>2. \E c \in before' : Range(argo') = ArgoRead(c)'
      BY <1>1, <1>5, <2>1, <3>1 DEF ListArgo
    <3> QED
      BY <1>5, <3>2 DEF ArgoInv
  <2>5. RawInv'
    BY <1>5, RawKept DEF ListArgo, RawInv
  <2> QED
    BY <1>3, <2>2, <2>3, <2>4, <2>5
<1> QED
  BY <1>4, <1>5 DEF ListArgo

\* The workloads of one more namespace are listed.
LEMMA ListRawInv == IInv /\ ListRaw => IInv'
<1> SUFFICES ASSUME IInv, ListRaw
             PROVE  IInv'
  OBVIOUS
<1> USE DEF IInv
<1> DEFINE S == {w \in cluster.raw : w.namespace = watched[at]}
<1>1. cluster \in before /\ cluster.raw \in RawSets /\ before \subseteq Clusters
  BY DEF BaseInv, Clusters
<1>2. watched \in Seq(Namespaces) /\ at \in DOMAIN watched /\ at \in Nat
      /\ at' = at + 1 /\ at' \in 1..(Len(watched) + 1) /\ DOMAIN watched = 1..Len(watched)
  BY SourcesAssumption DEF ListRaw, BaseInv
<1>3. S \in SUBSET UNION RawSets /\ IsFiniteSet(S)
  <2>1. IsFiniteSet(cluster.raw)
    BY <1>1, SourcesAssumption
  <2> QED
    BY <1>1, <2>1, FS_Subset
<1>4. PICK order \in SetToSeqs(S) : raw' = applyDetections(raw, order)
  BY DEF ListRaw
<1>5. DOMAIN raw \subseteq Tools
  BY DEF BaseInv, FindsTyped
<1>6. /\ DOMAIN raw \subseteq DOMAIN raw' /\ DOMAIN raw' \subseteq Tools
      /\ \A t \in DOMAIN raw' : \/ t \in DOMAIN raw /\ raw'[t] = raw[t]
                                \/ \E w \in S : t \in DOMAIN Recognised[w] /\ raw'[t] = rawTool(w, t)
      /\ \A t \in DOMAIN raw : raw[t].version \in Versions => raw'[t].version \in Versions
      /\ \A w \in S : \A t \in DOMAIN Recognised[w] :
           /\ t \in DOMAIN raw'
           /\ Recognised[w][t] \in Versions => raw'[t].version \in Versions
  <2> HIDE DEF S
  <2> QED
    BY <1>3, <1>4, <1>5, RawListed
<1>7. /\ \A w \in S : w \in cluster.raw /\ w.namespace = watched[at] /\ w \in UNION RawSets
      /\ \A w \in cluster.raw : w.namespace = watched[at] => w \in S
  BY <1>1
<1>8. raw' = [t \in DOMAIN raw' |-> raw'[t]]
  <2>1. applyDetections(raw, order) =
          [t \in DOMAIN applyDetections(raw, order) |-> applyDetections(raw, order)[t]]
    BY DEF applyDetections
  <2> QED
    BY <1>4, <2>1
<1> HIDE DEF S
<1>9. \A t \in DOMAIN raw' : raw'[t] \in KnownFind
  <2>1. \A w \in S : \A t \in DOMAIN Recognised[w] : rawTool(w, t) \in KnownFind
    BY <1>7, RawToolType
  <2> QED
    BY <1>6, <2>1 DEF BaseInv, FindsTyped
<1>10. BaseInv'
  BY <1>2, <1>6, <1>8, <1>9 DEF ListRaw, BaseInv, FindsTyped
<1>11. FluxInv' /\ HelmInv' /\ ArgoInv' /\ DoneInv'
  BY FluxKept, HelmKept, ArgoKept, DoneKept DEF ListRaw
<1>12. RawInv'
  <2>1. ASSUME NEW t \in DOMAIN raw'
        PROVE  OfWorkload(t)'
    <3>1. watched' = watched /\ before' = before
      BY DEF ListRaw
    <3>2. CASE t \in DOMAIN raw /\ raw'[t] = raw[t]
      BY <3>1, <3>2 DEF RawInv, OfWorkload
    <3>3. CASE \E w \in S : t \in DOMAIN Recognised[w] /\ raw'[t] = rawTool(w, t)
      <4>1. watched[at] \in Range(watched)
        BY <1>2 DEF Range
      <4> QED
        BY <1>1, <1>7, <3>1, <3>3, <4>1 DEF OfWorkload
    <3> QED
      BY <1>6, <3>2, <3>3
  <2>2. ASSUME NEW i \in 1..(at' - 1)
        PROVE  \E c \in before : SeenRaw(c, i)'
    <3>1. watched' = watched
      BY DEF ListRaw
    <3>2. CASE i = at
      <4>1. PICK c \in before : c = cluster
        BY <1>1
      <4>2. SeenRaw(c, i)'
        BY <1>6, <1>7, <3>1, <3>2, <4>1 DEF SeenRaw
      <4> QED
        BY <4>2
    <3>3. CASE i # at
      <4>1. i \in 1..(at - 1)
        BY <1>2, <3>3
      <4>2. RawInv /\ pc = "raw"
        BY DEF ListRaw
      <4>3. PICK c \in before : SeenRaw(c, i)
        BY <4>1, <4>2 DEF RawInv
      <4>4. /\ \A t \in DOMAIN raw : t \in DOMAIN raw'
            /\ \A t \in DOMAIN raw : raw[t].version \in Versions => raw'[t].version \in Versions
        BY <1>6
      <4>5. SeenRaw(c, i)'
        BY <3>1, <4>3, <4>4 DEF SeenRaw
      <4> QED
        BY <4>5
    <3> QED
      BY <3>2, <3>3
  <2>3. before' = before /\ pc' = "raw" /\ "raw" \notin answered'
    BY DEF ListRaw, RawInv
  <2> QED
    BY <2>1, <2>2, <2>3 DEF RawInv
<1> QED
  BY <1>10, <1>11, <1>12

\* The result is made.
LEMMA ResolveInv == IInv /\ resolveInstalled => IInv'
<1> SUFFICES ASSUME IInv, resolveInstalled
             PROVE  IInv'
  OBVIOUS
<1> USE DEF IInv
<1>1. PICK sources \in {answered, answered \union {"raw"}} :
        /\ answered' = sources
        /\ installed' = Records(Found(sources))
        /\ unknown' = {t.name : t \in {u \in Range(Found(sources)) : identify(u) = NoName}}
  BY DEF resolveInstalled
<1>2. /\ "fluxcd" \in answered' <=> "fluxcd" \in answered
      /\ ("repositories" \in answered') = ("repositories" \in answered)
      /\ "argocd" \in answered' <=> "argocd" \in answered
      /\ answered' \subseteq {"fluxcd", "repositories", "argocd", "raw"}
  <2>1. \A x : x # "raw" => (x \in answered' <=> x \in answered)
    BY <1>1
  <2>2. answered' \subseteq {"fluxcd", "repositories", "argocd", "raw"}
    BY <1>1 DEF BaseInv
  <2> QED
    BY <2>1, <2>2
<1>3. UNCHANGED finds /\ flux' = flux /\ helm' = helm /\ argo' = argo /\ raw' = raw
  BY DEF resolveInstalled, finds
<1>4. BaseInv'
  BY <1>2, <1>3 DEF resolveInstalled, BaseInv, FindsTyped
<1>5. FluxInv' /\ HelmInv' /\ ArgoInv'
  BY <1>2, <1>3, FluxKept, HelmKept, ArgoKept DEF resolveInstalled
<1>6. RawInv'
  BY <1>3, RawKept DEF resolveInstalled
<1>7. DoneInv'
  <2>1. Found(sources)' = Found(sources)
    BY <1>3, FoundKept
  <2> QED
    BY <1>1, <2>1 DEF resolveInstalled, DoneInv
<1> QED
  BY <1>4, <1>5, <1>6, <1>7

\* The cluster changes.
LEMMA ChangeClusterInv == IInv /\ ChangeCluster => IInv'
<1> SUFFICES ASSUME IInv, ChangeCluster
             PROVE  IInv'
  OBVIOUS
<1> USE DEF IInv
<1>1. cluster' \in Clusters
  <2>1. cluster \in Clusters
    BY DEF BaseInv
  <2> QED
    BY <2>1 DEF ChangeCluster, Clusters
<1>2. before' = before \union {cluster'} /\ changes' \in 0..MaxChanges
  BY SourcesAssumption DEF ChangeCluster, BaseInv
<1>3. /\ flux' = flux /\ helm' = helm /\ argo' = argo /\ raw' = raw /\ watched' = watched
      /\ pc' = pc /\ pc # "done" /\ at' = at /\ answered' = answered /\ listed' = listed
      /\ installed' = installed /\ unknown' = unknown
  BY DEF ChangeCluster, finds
<1>4. BaseInv'
  BY <1>1, <1>2, <1>3 DEF BaseInv, FindsTyped
<1>5. before \subseteq before'
  BY <1>2
<1>6. FluxInv'
  BY <1>3, <1>5, FluxKept DEF FluxInv
<1>7. HelmInv' /\ ArgoInv' /\ DoneInv'
  BY <1>3, <1>5, HelmKept, ArgoKept, DoneKept
<1>8. RawInv'
  BY <1>3, <1>5, RawKept DEF RawInv, BaseInv
<1> QED
  BY <1>4, <1>6, <1>7, <1>8

\* Nothing happens.
LEMMA StutterInv == IInv /\ UNCHANGED vars => IInv'
<1> SUFFICES ASSUME IInv, UNCHANGED vars
             PROVE  IInv'
  OBVIOUS
<1> USE DEF IInv
<1>1. BaseInv'
  BY DEF vars, BaseInv, FindsTyped
<1>2. FluxInv'
  BY FluxKept DEF vars, FluxInv
<1>3. HelmInv' /\ ArgoInv'
  BY HelmKept, ArgoKept DEF vars
<1>4. RawInv'
  BY RawKept DEF vars, RawInv, BaseInv
<1>5. DoneInv'
  <2>1. Found(answered)' = Found(answered)
    BY FoundKept DEF vars, finds
  <2> QED
    BY <2>1 DEF vars, DoneInv
<1> QED
  BY <1>1, <1>2, <1>3, <1>4, <1>5

\* So it always holds.
THEOREM Invariant == Spec => []IInv
<1>1. IInv /\ [Next]_vars => IInv'
  BY ListFluxInv, ListHelmInv, ListArgoInv, ListRawInv, ResolveInv, ChangeClusterInv, StutterInv
  DEF Next
<1> QED
  BY <1>1, InitInv, PTL DEF Spec

-----------------------------------------------------------------------------
(* What the invariant says of finds and records.                           *)

\* The finds of a cluster's objects, source by source.
LEMMA FindsOfObjects ==
    ASSUME NEW c, NEW g
    PROVE  g \in FindsOf(c) <=>
             \/ \E o \in FluxObjects(c) : g = WithRepositories(o, "repositories" \in answered)
             \/ \E r \in HelmObjects(c) : g = helmTool(r)
             \/ \E app \in ArgoObjects(c) : g \in Range(argoTools(app))
             \/ \E w \in RawObjects(c) : g \in RawRead(w)
<1> DEFINE F == {WithRepositories(o, "repositories" \in answered) : o \in FluxObjects(c)}
           H == {helmTool(r) : r \in HelmObjects(c)}
           A == UNION {Range(argoTools(app)) : app \in ArgoObjects(c)}
           R == UNION {RawRead(w) : w \in RawObjects(c)}
<1>1. FindsOf(c) = F \union H \union A \union R
  BY DEF FindsOf
<1>2. g \in F <=> \E o \in FluxObjects(c) : g = WithRepositories(o, "repositories" \in answered)
  OBVIOUS
<1>3. g \in H <=> \E r \in HelmObjects(c) : g = helmTool(r)
  OBVIOUS
<1>4. g \in A <=> \E app \in ArgoObjects(c) : g \in Range(argoTools(app))
  OBVIOUS
<1>5. g \in R <=> \E w \in RawObjects(c) : g \in RawRead(w)
  OBVIOUS
<1> HIDE DEF F, H, A, R
<1> QED
  BY <1>1, <1>2, <1>3, <1>4, <1>5

\* A find of the objects of a cluster, by its source.
LEMMA FindsBySource ==
    ASSUME NEW c \in Clusters, NEW g \in FindsOf(c)
    PROVE  \/ /\ g.source = "fluxcd" /\ "fluxcd" \in answered
              /\ g \in FluxRead(c, "repositories" \in answered)
           \/ g.source = "helm" /\ g.namespace \in listed /\ g \in HelmRead(c, g.namespace)
           \/ g.source = "argocd" /\ "argocd" \in answered /\ g \in ArgoRead(c)
           \/ /\ g.source = "raw" /\ "raw" \in answered
              /\ \E w \in c.raw : \E u \in DOMAIN Recognised[w] :
                   w.namespace \in Range(watched) /\ g = rawTool(w, u)
<1>1. /\ c.flux \in Seq(HelmRelease) /\ c.helm \in Seq(Release) /\ c.argo \in Seq(Application)
      /\ c.argo \in ArgoLists /\ c.raw \in RawSets
  BY SourcesAssumption DEF Clusters
<1>2. \/ \E o \in FluxObjects(c) : g = WithRepositories(o, "repositories" \in answered)
      \/ \E r \in HelmObjects(c) : g = helmTool(r)
      \/ \E app \in ArgoObjects(c) : g \in Range(argoTools(app))
      \/ \E w \in RawObjects(c) : \E u \in DOMAIN Recognised[w] : g = rawTool(w, u)
  <2>1. \/ \E o \in FluxObjects(c) : g = WithRepositories(o, "repositories" \in answered)
        \/ \E r \in HelmObjects(c) : g = helmTool(r)
        \/ \E app \in ArgoObjects(c) : g \in Range(argoTools(app))
        \/ \E w \in RawObjects(c) : g \in RawRead(w)
    BY FindsOfObjects
  <2> QED
    BY <2>1 DEF RawRead
<1>3. ASSUME NEW o \in FluxObjects(c), g = WithRepositories(o, "repositories" \in answered)
      PROVE  /\ g.source = "fluxcd" /\ "fluxcd" \in answered
             /\ g \in FluxRead(c, "repositories" \in answered)
  <2>1. "fluxcd" \in answered /\ o \in Range(c.flux) /\ Watches(o, fluxTool(o))
    BY DEF FluxObjects
  <2>2. g \in FluxRead(c, "repositories" \in answered)
    BY <1>3, <2>1 DEF FluxRead
  <2>3. o \in HelmRelease /\ ("repositories" \in answered) \in BOOLEAN
    BY <1>1, <2>1 DEF Range
  <2>4. g.source = "fluxcd"
    BY <1>3, <2>3, FluxToolType
  <2> QED
    BY <2>1, <2>2, <2>4
<1>4. ASSUME NEW r \in HelmObjects(c), g = helmTool(r)
      PROVE  g.source = "helm" /\ g.namespace \in listed /\ g \in HelmRead(c, g.namespace)
  BY <1>4 DEF HelmObjects, HelmRead, helmTool
<1>5. ASSUME NEW app \in ArgoObjects(c), g \in Range(argoTools(app))
      PROVE  g.source = "argocd" /\ "argocd" \in answered /\ g \in ArgoRead(c)
  <2>1. "argocd" \in answered /\ app \in Range(c.argo) /\ Watches(app, app)
    BY DEF ArgoObjects
  <2>2. app \in Application /\ app.images \in DOMAIN ImageVersions
    BY <1>1, <2>1 DEF Range, ImageVersions
  <2>3. g.source = "argocd"
    BY <1>5, <2>2, ArgoToolsType
  <2>4. g \in ArgoRead(c)
    BY <1>5, <2>1 DEF ArgoRead
  <2> QED
    BY <2>1, <2>3, <2>4
<1>6. ASSUME NEW w \in RawObjects(c), NEW u \in DOMAIN Recognised[w], g = rawTool(w, u)
      PROVE  /\ g.source = "raw" /\ "raw" \in answered
             /\ \E x \in c.raw : \E y \in DOMAIN Recognised[x] :
                  x.namespace \in Range(watched) /\ g = rawTool(x, y)
  BY <1>6 DEF RawObjects, rawTool
<1> QED
  BY <1>2, <1>3, <1>4, <1>5, <1>6

\* The finds that were listed are of objects of a cluster there was.
LEMMA FluxFinds ==
    ASSUME IInv, NEW f \in Range(flux)
    PROVE  /\ f \in KnownFind /\ f.source = "fluxcd" /\ f.images = <<>>
           /\ \E c \in before : /\ f \in FindsOf(c)
                                /\ \E o \in Range(c.flux) :
                                     Place(f) = Place(fluxTool(o)) /\ f.name = fluxTool(o).name
<1>1. "fluxcd" \in answered
  BY DEF IInv, FluxInv, Range
<1>2. PICK c \in before : f \in FluxRead(c, "repositories" \in answered)
  BY <1>1 DEF IInv, FluxInv
<1>3. PICK o \in Range(c.flux) :
        Watches(o, fluxTool(o)) /\ f = WithRepositories(o, "repositories" \in answered)
  BY <1>2 DEF FluxRead
<1>4. o \in HelmRelease
  BY SourcesAssumption DEF IInv, BaseInv, Clusters, Range
<1>5. /\ f \in KnownFind /\ f.source = "fluxcd" /\ f.images = <<>>
      /\ Place(f) = Place(fluxTool(o)) /\ f.name = fluxTool(o).name
  <2>1. ("repositories" \in answered) \in BOOLEAN
    OBVIOUS
  <2> QED
    BY <1>3, <1>4, <2>1, FluxToolType
<1>6. f \in FindsOf(c)
  BY <1>1, <1>3 DEF FindsOf, FluxObjects
<1> QED
  BY <1>5, <1>6

LEMMA HelmFinds ==
    ASSUME IInv, NEW h \in Range(helm)
    PROVE  /\ h \in KnownFind /\ h.source = "helm" /\ h.images = <<>>
           /\ \E c \in before : h \in FindsOf(c)
<1>1. PICK c \in before, namespace \in listed : h \in HelmRead(c, namespace)
  BY DEF IInv, HelmInv
<1>2. PICK r \in Range(c.helm) : r.namespace = namespace /\ h = helmTool(r)
  BY <1>1 DEF HelmRead
<1>3. r \in Release
  BY SourcesAssumption DEF IInv, BaseInv, Clusters, Range
<1>4. h \in FindsOf(c)
  BY <1>2 DEF FindsOf, HelmObjects
<1> QED
  BY <1>2, <1>3, <1>4, HelmToolType

LEMMA ArgoFinds ==
    ASSUME IInv, NEW f \in Range(argo)
    PROVE  f.source = "argocd" /\ \E c \in before : f \in FindsOf(c)
<1>1. "argocd" \in answered
  BY DEF IInv, ArgoInv, Range
<1>2. PICK c \in before : f \in ArgoRead(c)
  BY <1>1 DEF IInv, ArgoInv
<1>3. PICK app \in Range(c.argo) : Watches(app, app) /\ f \in Range(argoTools(app))
  BY <1>2 DEF ArgoRead
<1>4. app \in Application /\ app.images \in DOMAIN ImageVersions
  BY SourcesAssumption DEF IInv, BaseInv, Clusters, Range, ImageVersions
<1>5. f \in FindsOf(c)
  BY <1>1, <1>3 DEF FindsOf, ArgoObjects
<1> QED
  BY <1>3, <1>4, <1>5, ArgoToolsType

LEMMA RawFinds ==
    ASSUME IInv, "raw" \in answered, NEW t \in DOMAIN raw
    PROVE  /\ raw[t].source = "raw" /\ identify(raw[t]) = t
           /\ \E c \in before : raw[t] \in FindsOf(c)
<1>1. PICK c \in before : \E x \in c.raw : /\ x.namespace \in Range(watched)
                                           /\ t \in DOMAIN Recognised[x] /\ raw[t] = rawTool(x, t)
  BY DEF IInv, RawInv, OfWorkload
<1>2. PICK x \in c.raw : /\ x.namespace \in Range(watched)
                         /\ t \in DOMAIN Recognised[x] /\ raw[t] = rawTool(x, t)
  BY <1>1
<1>3. x \in UNION RawSets
  BY DEF IInv, BaseInv, Clusters
<1>4. raw[t] \in FindsOf(c)
  <2>1. x \in RawObjects(c)
    BY <1>2 DEF RawObjects
  <2>2. raw[t] \in RawRead(x)
    BY <1>2 DEF RawRead
  <2> QED
    BY <2>1, <2>2, FindsOfObjects
<1> QED
  BY <1>2, <1>3, <1>4, RawToolType

\* The finds at the end.
LEMMA AllFinds ==
    ASSUME IInv
    PROVE  /\ Found(answered) \in Seq(KnownFind)
           /\ \A x \in Range(Found(answered)) : x \in KnownFind
           /\ \A x \in Range(Found(answered)) :
                \/ \E f \in Range(flux) : x = completed(f)
                \/ \E i \in DOMAIN helm \ managed : x = helm[i]
                \/ x \in Range(argo)
                \/ "raw" \in answered /\ \E t \in DOMAIN raw : x = raw[t]
           /\ \A f \in Range(flux) : completed(f) \in Range(Found(answered))
           /\ \A i \in DOMAIN helm \ managed : helm[i] \in Range(Found(answered))
           /\ Range(argo) \subseteq Range(Found(answered))
           /\ "raw" \in answered => \A t \in DOMAIN raw : raw[t] \in Range(Found(answered))
<1>1. FindsTyped
  BY DEF IInv, BaseInv
<1>2. /\ Found(answered) \in Seq(KnownFind)
      /\ Range(Found(answered)) =
           Range(ScanAll) \union (IF "raw" \in answered THEN {raw[t] : t \in DOMAIN raw} ELSE {})
  BY <1>1, FoundRange
<1>3. Range(ScanAll) = {completed(f) : f \in Range(flux)}
                       \union {helm[i] : i \in DOMAIN helm \ managed} \union Range(argo)
  BY <1>1, ScanAllRange
<1>4. ASSUME NEW found \in Seq(KnownFind)
      PROVE  \A x \in Range(found) : x \in KnownFind
  BY DEF Range
<1> QED
  BY <1>2, <1>3, <1>4

\* The record of a tool, and what it is of.
LEMMA RecordOf ==
    ASSUME IInv, Done
    PROVE  /\ \A t \in DOMAIN installed : \E x \in Range(Found(answered)) :
                /\ x \in KnownFind /\ identify(x) = t /\ t \in Tools /\ installed[t] = Identified(x)
                /\ \A g \in Range(Found(answered)) :
                     identify(g) = t => ~preferred(Identified(g), Identified(x))
           /\ \A x \in Range(Found(answered)) : identify(x) \in Tools =>
                /\ identify(x) \in DOMAIN installed
                /\ sourceRank[installed[identify(x)].source] >= sourceRank[x.source]
<1>1. installed = Records(Found(answered))
  BY DEF IInv, DoneInv, Done
<1>2. Found(answered) \in Seq(KnownFind)
  BY AllFinds
<1>3. \A x \in Range(Found(answered)) : x \in KnownFind /\ identify(x) \in Tools \union {NoName}
  <2>1. \A x \in Range(Found(answered)) : x \in KnownFind
    BY AllFinds
  <2> QED
    BY <2>1, IdentifyType
<1>4. /\ DOMAIN installed = {identify(f) : f \in Range(Found(answered))} \ {NoName}
      /\ \A t \in DOMAIN installed : \E f \in Range(Found(answered)) :
           /\ identify(f) = t /\ installed[t] = Identified(f)
           /\ \A g \in Range(Found(answered)) :
                identify(g) = t => ~preferred(Identified(g), Identified(f))
  BY <1>1, <1>2, RecordsKept
<1>5. ASSUME NEW x \in Range(Found(answered)), identify(x) \in Tools
      PROVE  /\ identify(x) \in DOMAIN installed
             /\ sourceRank[installed[identify(x)].source] >= sourceRank[x.source]
  <2>1. identify(x) \in DOMAIN installed
    BY <1>4, <1>5, ChartIdentified
  <2>2. PICK f \in Range(Found(answered)) :
          /\ installed[identify(x)] = Identified(f)
          /\ ~preferred(Identified(x), Identified(f))
    BY <1>4, <2>1
  <2>3. Identified(x).source = x.source /\ x.source \in DOMAIN sourceRank
        /\ Identified(f).source = f.source /\ f.source \in DOMAIN sourceRank
    BY <1>3, IdentifiedType DEF KnownFind, Find
  <2>4. sourceRank[x.source] \in Nat /\ sourceRank[f.source] \in Nat
    BY <2>3 DEF sourceRank
  <2> QED
    BY <2>1, <2>2, <2>3, <2>4 DEF preferred
<1> QED
  BY <1>3, <1>4, <1>5

-----------------------------------------------------------------------------
(* Image references.                                                       *)

\* The list s is at the end of the list t.
EndsIn(t, s) ==
    /\ Len(s) <= Len(t)
    /\ \A k \in 1..Len(s) : s[Len(s) + 1 - k] = t[Len(t) + 1 - k]

\* Which is what a suffix is.
LEMMA SuffixAtEnd ==
    ASSUME NEW V, NEW s \in Seq(V), NEW t \in Seq(V)
    PROVE  IsSuffix(s, t) <=> EndsIn(t, s)
<1> DEFINE m == Len(s)
           n == Len(t)
<1>1. m \in Nat /\ n \in Nat /\ DOMAIN s = 1..m /\ DOMAIN t = 1..n
  OBVIOUS
<1>2. /\ Reverse(s) \in Seq(V) /\ Len(Reverse(s)) = m
      /\ \A k \in 1..m : Reverse(s)[k] = s[m + 1 - k]
  BY <1>1 DEF Reverse
<1>3. /\ Reverse(t) \in Seq(V) /\ Len(Reverse(t)) = n
      /\ \A k \in 1..n : Reverse(t)[k] = t[n + 1 - k]
  BY <1>1 DEF Reverse
<1> DEFINE x == Reverse(s)
           y == Reverse(t)
<1> HIDE DEF m, n, x, y
<1>4. IsPrefix(x, y) <=> m <= n /\ \A k \in 1..m : x[k] = y[k]
  <2>1. CASE ~(m <= n)
    BY <1>2, <1>3, <2>1 DEF IsPrefix, x, y
  <2>2. CASE m <= n
    <3>1. SubSeq(x, 1, m) = [k \in 1..m |-> x[k]] /\ SubSeq(y, 1, m) = [k \in 1..m |-> y[k]]
      BY <1>1, <1>2, <1>3, <2>2 DEF x, y
    <3>2. IsPrefix(x, y) <=> SubSeq(x, 1, m) = SubSeq(y, 1, m)
      BY <1>2, <1>3, <2>2 DEF IsPrefix, x, y
    <3> QED
      BY <2>2, <3>1, <3>2
  <2> QED
    BY <2>1, <2>2
<1>5. m <= n => \A k \in 1..m : x[k] = s[m + 1 - k] /\ y[k] = t[n + 1 - k]
  BY <1>1, <1>2, <1>3 DEF x, y
<1> QED
  BY <1>4, <1>5 DEF IsSuffix, EndsIn, m, n, x, y

\* A list, an element and a list, from the end.
LEMMA Joined ==
    ASSUME NEW V, NEW a \in Seq(V), NEW c \in V, NEW p \in Seq(V), NEW x, x = (a \o <<c>>) \o p
    PROVE  /\ x \in Seq(V) /\ Len(x) = Len(a) + 1 + Len(p)
           /\ \A k \in 1..Len(p) : x[Len(x) + 1 - k] = p[Len(p) + 1 - k]
           /\ x[Len(x) - Len(p)] = c
           /\ \A k \in 1..Len(a) : x[Len(x) - Len(p) - k] = a[Len(a) + 1 - k]
<1>1. x \in Seq(V) /\ Len(x) = Len(a) + 1 + Len(p)
  OBVIOUS
<1>2. /\ \A i \in 1..Len(a) : x[i] = a[i]
      /\ x[Len(a) + 1] = c
      /\ \A i \in 1..Len(p) : x[Len(a) + 1 + i] = p[i]
  OBVIOUS
<1>3. ASSUME NEW k \in 1..Len(p)
      PROVE  x[Len(x) + 1 - k] = p[Len(p) + 1 - k]
  <2>1. Len(p) + 1 - k \in 1..Len(p) /\ Len(x) + 1 - k = Len(a) + 1 + (Len(p) + 1 - k)
    BY <1>1
  <2> QED
    BY <1>2, <2>1
<1>4. x[Len(x) - Len(p)] = c
  <2>1. Len(x) - Len(p) = Len(a) + 1
    BY <1>1
  <2> QED
    BY <1>2, <2>1
<1>5. ASSUME NEW k \in 1..Len(a)
      PROVE  x[Len(x) - Len(p) - k] = a[Len(a) + 1 - k]
  <2>1. Len(a) + 1 - k \in 1..Len(a) /\ Len(x) - Len(p) - k = Len(a) + 1 - k
    BY <1>1
  <2> QED
    BY <1>2, <2>1
<1> QED
  BY <1>1, <1>3, <1>4, <1>5

\* Lists joined by an element the last parts do not have end in each other when
\* the last parts are equal and what is before them ends in each other.
LEMMA JoinedEnds ==
    ASSUME NEW V, NEW c \in V, NEW a \in Seq(V), NEW b \in Seq(V), NEW p \in Seq(V), NEW q \in Seq(V),
           c \notin Range(p), c \notin Range(q)
    PROVE  EndsIn((a \o <<c>>) \o p, (b \o <<c>>) \o q) <=> p = q /\ EndsIn(a, b)
<1> DEFINE x == (a \o <<c>>) \o p
           y == (b \o <<c>>) \o q
<1>1. /\ x \in Seq(V) /\ Len(x) = Len(a) + 1 + Len(p)
      /\ \A k \in 1..Len(p) : x[Len(x) + 1 - k] = p[Len(p) + 1 - k]
      /\ x[Len(x) - Len(p)] = c
      /\ \A k \in 1..Len(a) : x[Len(x) - Len(p) - k] = a[Len(a) + 1 - k]
  <2> HIDE DEF x
  <2> QED
    BY Joined DEF x
<1>2. /\ y \in Seq(V) /\ Len(y) = Len(b) + 1 + Len(q)
      /\ \A k \in 1..Len(q) : y[Len(y) + 1 - k] = q[Len(q) + 1 - k]
      /\ y[Len(y) - Len(q)] = c
      /\ \A k \in 1..Len(b) : y[Len(y) - Len(q) - k] = b[Len(b) + 1 - k]
  <2> HIDE DEF y
  <2> QED
    BY Joined DEF y
<1>3. Len(a) \in Nat /\ Len(b) \in Nat /\ Len(p) \in Nat /\ Len(q) \in Nat
  OBVIOUS
<1>4. /\ \A k \in 1..Len(p) : p[Len(p) + 1 - k] # c
      /\ \A k \in 1..Len(q) : q[Len(q) + 1 - k] # c
  <2>1. \A k \in 1..Len(p) : Len(p) + 1 - k \in DOMAIN p
    OBVIOUS
  <2>2. \A k \in 1..Len(q) : Len(q) + 1 - k \in DOMAIN q
    OBVIOUS
  <2> QED
    BY <2>1, <2>2 DEF Range
<1> HIDE DEF x, y
<1>5. ASSUME EndsIn(x, y)
      PROVE  p = q /\ EndsIn(a, b)
  <2>1. Len(y) <= Len(x) /\ \A k \in 1..Len(y) : y[Len(y) + 1 - k] = x[Len(x) + 1 - k]
    BY <1>5 DEF EndsIn
  <2>2. ~(Len(p) < Len(q))
    <3> SUFFICES ASSUME Len(p) < Len(q) PROVE FALSE
      OBVIOUS
    <3> DEFINE k == Len(p) + 1
    <3>1. k \in 1..Len(q) /\ k \in 1..Len(y) /\ Len(x) + 1 - k = Len(x) - Len(p)
      BY <1>1, <1>2, <1>3
    <3> HIDE DEF k
    <3> QED
      BY <1>1, <1>2, <1>4, <2>1, <3>1
  <2>3. ~(Len(q) < Len(p))
    <3> SUFFICES ASSUME Len(q) < Len(p) PROVE FALSE
      OBVIOUS
    <3> DEFINE k == Len(q) + 1
    <3>1. k \in 1..Len(p) /\ k \in 1..Len(y) /\ Len(y) + 1 - k = Len(y) - Len(q)
      BY <1>1, <1>2, <1>3
    <3> HIDE DEF k
    <3> QED
      BY <1>1, <1>2, <1>4, <2>1, <3>1
  <2>4. Len(p) = Len(q) /\ Len(b) <= Len(a)
    <3>1. Len(x) = Len(a) + 1 + Len(p) /\ Len(y) = Len(b) + 1 + Len(q)
      BY <1>1, <1>2
    <3>2. Len(y) <= Len(x)
      BY <2>1
    <3>3. Len(p) = Len(q)
      BY <1>3, <2>2, <2>3
    <3> QED
      BY <1>3, <3>1, <3>2, <3>3
  <2>5. ASSUME NEW i \in 1..Len(p)
        PROVE  p[i] = q[i]
    <3> DEFINE k == Len(p) + 1 - i
    <3>1. k \in 1..Len(p) /\ k \in 1..Len(y) /\ Len(p) + 1 - k = i
      BY <1>1, <1>2, <1>3, <2>4
    <3> HIDE DEF k
    <3> QED
      BY <1>1, <1>2, <2>1, <2>4, <3>1
  <2>6. p = q
    BY <1>3, <2>4, <2>5
  <2>7. ASSUME NEW k \in 1..Len(b)
        PROVE  b[Len(b) + 1 - k] = a[Len(a) + 1 - k]
    <3> DEFINE l == Len(q) + 1 + k
    <3>1. /\ k \in 1..Len(a) /\ l \in 1..Len(y)
          /\ Len(y) + 1 - l = Len(y) - Len(q) - k /\ Len(x) + 1 - l = Len(x) - Len(p) - k
      BY <1>1, <1>2, <1>3, <2>4
    <3> HIDE DEF l
    <3> QED
      BY <1>1, <1>2, <2>1, <3>1
  <2> QED
    BY <2>4, <2>6, <2>7 DEF EndsIn
<1>6. ASSUME p = q, EndsIn(a, b)
      PROVE  EndsIn(x, y)
  <2>1. Len(b) <= Len(a) /\ \A k \in 1..Len(b) : b[Len(b) + 1 - k] = a[Len(a) + 1 - k]
    BY <1>6 DEF EndsIn
  <2>2. Len(y) <= Len(x) /\ Len(p) = Len(q)
    BY <1>1, <1>2, <1>3, <1>6, <2>1
  <2>3. ASSUME NEW k \in 1..Len(y)
        PROVE  y[Len(y) + 1 - k] = x[Len(x) + 1 - k]
    <3>1. CASE k <= Len(p)
      <4>1. k \in 1..Len(p)
        BY <1>3, <3>1
      <4> QED
        BY <1>1, <1>2, <1>6, <4>1
    <3>2. CASE k = Len(p) + 1
      <4>1. Len(y) + 1 - k = Len(y) - Len(q) /\ Len(x) + 1 - k = Len(x) - Len(p)
        BY <1>1, <1>2, <1>3, <2>2, <3>2
      <4> QED
        BY <1>1, <1>2, <4>1
    <3>3. CASE k > Len(p) + 1
      <4> DEFINE l == k - (Len(p) + 1)
      <4>1. /\ l \in 1..Len(b) /\ l \in 1..Len(a)
            /\ Len(y) + 1 - k = Len(y) - Len(q) - l /\ Len(x) + 1 - k = Len(x) - Len(p) - l
        BY <1>1, <1>2, <1>3, <2>1, <2>2, <3>3
      <4> HIDE DEF l
      <4> QED
        BY <1>1, <1>2, <2>1, <4>1
    <3> QED
      BY <1>3, <3>1, <3>2, <3>3
  <2> QED
    BY <2>2, <2>3 DEF EndsIn
<1> QED
  BY <1>5, <1>6 DEF x, y

\* A text that starts with c, or not at all, and goes on by parts without c.
LEMMA EndsOfJoined ==
    ASSUME NEW V, NEW c \in V, NEW m \in Nat, NEW n \in Nat,
           NEW w, w \in [0..m -> Seq(V)], NEW want \in Seq(Seq(V)), Len(want) = m,
           NEW r, r \in [0..n -> Seq(V)], NEW parts \in Seq(Seq(V)), Len(parts) = n,
           w[0] = <<>>, \A j \in 1..m : w[j] = (w[j - 1] \o <<c>>) \o want[j],
           r[0] = <<>>, \A i \in 1..n : r[i] = (r[i - 1] \o <<c>>) \o parts[i],
           \A j \in 1..m : c \notin Range(want[j]), \A i \in 1..n : c \notin Range(parts[i])
    PROVE  EndsIn(r[n], w[m]) <=> EndsIn(parts, want)
<1> DEFINE Same(i, j) == j <= i /\ \A k \in 1..j : want[j + 1 - k] = parts[i + 1 - k]
           T == {j \in 0..m : \A i \in 0..n : EndsIn(r[i], w[j]) <=> Same(i, j)}
<1>1. /\ \A j \in 1..m : j - 1 \in 0..m /\ j \in 0..m /\ want[j] \in Seq(V)
      /\ \A i \in 1..n : i - 1 \in 0..n /\ i \in 0..n /\ parts[i] \in Seq(V)
  OBVIOUS
<1>2. 0 \in T
  <2>1. \A i \in 0..n : r[i] \in Seq(V)
    OBVIOUS
  <2>2. \A i \in 0..n : EndsIn(r[i], <<>>)
    BY <2>1 DEF EndsIn
  <2>3. \A i \in 0..n : Same(i, 0)
    OBVIOUS
  <2> HIDE DEF Same
  <2> QED
    BY <2>2, <2>3
<1>3. ASSUME NEW j \in 1..m, j - 1 \in T
      PROVE  j \in T
  <2> SUFFICES ASSUME NEW i \in 0..n
               PROVE  EndsIn(r[i], w[j]) <=> Same(i, j)
    BY <1>1
  <2>1. w[j - 1] \in Seq(V) /\ w[j] = (w[j - 1] \o <<c>>) \o want[j] /\ want[j] \in Seq(V)
    BY <1>1
  <2>2. CASE i = 0
    <3>1. r[i] = <<>> /\ Len(w[j]) = Len(w[j - 1]) + 1 + Len(want[j])
      BY <2>1, <2>2, Joined
    <3>2. w[j] \in Seq(V) /\ r[i] \in Seq(V)
      BY <1>1
    <3>3. ~EndsIn(r[i], w[j])
      <4>1. Len(w[j - 1]) \in Nat /\ Len(want[j]) \in Nat
        <5>1. \A x \in Seq(V) : Len(x) \in Nat
          OBVIOUS
        <5> QED
          BY <2>1, <5>1, Zenon
      <4>2. Len(r[i]) = 0
        BY <3>1
      <4>3. ~(Len(w[j]) <= Len(r[i]))
        <5>1. \A x, y \in Nat : ~(x + 1 + y <= 0)
          OBVIOUS
        <5> QED
          BY <3>1, <4>1, <4>2, <5>1, Zenon
      <4> QED
        BY <4>3 DEF EndsIn
    <3> QED
      BY <2>2, <3>3
  <2>3. CASE i # 0
    <3>1. i \in 1..n
      BY <2>3
    <3>2. r[i - 1] \in Seq(V) /\ r[i] = (r[i - 1] \o <<c>>) \o parts[i] /\ parts[i] \in Seq(V)
      BY <1>1, <3>1
    <3>3. EndsIn(r[i], w[j]) <=> parts[i] = want[j] /\ EndsIn(r[i - 1], w[j - 1])
      <4>1. c \notin Range(parts[i]) /\ c \notin Range(want[j])
        BY <3>1
      <4>2. EndsIn((r[i - 1] \o <<c>>) \o parts[i], (w[j - 1] \o <<c>>) \o want[j])
              <=> parts[i] = want[j] /\ EndsIn(r[i - 1], w[j - 1])
        <5> DEFINE b == w[j - 1]
                   q == want[j]
                   a == r[i - 1]
                   p == parts[i]
        <5>1. /\ a \in Seq(V) /\ b \in Seq(V) /\ p \in Seq(V) /\ q \in Seq(V)
              /\ c \notin Range(p) /\ c \notin Range(q)
          BY <2>1, <3>2, <4>1
        <5> HIDE DEF a, b, p, q
        <5>2. EndsIn((a \o <<c>>) \o p, (b \o <<c>>) \o q) <=> p = q /\ EndsIn(a, b)
          BY <5>1, JoinedEnds
        <5> QED
          BY <5>2 DEF a, b, p, q
      <4> QED
        BY <2>1, <3>2, <4>2, Zenon
    <3>4. EndsIn(r[i - 1], w[j - 1]) <=> Same(i - 1, j - 1)
      BY <1>1, <1>3, <3>1
    <3>5. Same(i, j) <=> parts[i] = want[j] /\ Same(i - 1, j - 1)
      <4>1. ASSUME Same(i, j)
            PROVE  parts[i] = want[j] /\ Same(i - 1, j - 1)
        <5>1. 1 \in 1..j /\ i + 1 - 1 = i /\ j + 1 - 1 = j
          BY <3>1
        <5>2. parts[i] = want[j]
          <6>1. want[j + 1 - 1] = parts[i + 1 - 1]
            BY <4>1, <5>1
          <6> QED
            BY <5>1, <6>1
        <5>3. ASSUME NEW k \in 1..(j - 1)
              PROVE  want[(j - 1) + 1 - k] = parts[(i - 1) + 1 - k]
          <6>1. k + 1 \in 1..j
            OBVIOUS
          <6>2. j + 1 - (k + 1) = (j - 1) + 1 - k /\ i + 1 - (k + 1) = (i - 1) + 1 - k
            OBVIOUS
          <6>3. want[j + 1 - (k + 1)] = parts[i + 1 - (k + 1)]
            BY <4>1, <6>1
          <6> QED
            BY <6>2, <6>3
        <5> QED
          BY <3>1, <4>1, <5>2, <5>3
      <4>2. ASSUME parts[i] = want[j], Same(i - 1, j - 1)
            PROVE  Same(i, j)
        <5>1. ASSUME NEW k \in 1..j
              PROVE  want[j + 1 - k] = parts[i + 1 - k]
          <6>1. CASE k = 1
            <7>1. i + 1 - k = i /\ j + 1 - k = j
              BY <3>1, <6>1
            <7> QED
              BY <4>2, <7>1
          <6>2. CASE k # 1
            <7>1. /\ k - 1 \in 1..(j - 1)
                  /\ (j - 1) + 1 - (k - 1) = j + 1 - k /\ (i - 1) + 1 - (k - 1) = i + 1 - k
              BY <3>1, <6>2
            <7> QED
              BY <4>2, <7>1
          <6> QED
            BY <6>1, <6>2
        <5> QED
          BY <3>1, <4>2, <5>1
      <4> QED
        BY <4>1, <4>2
    <3> HIDE DEF Same
    <3> QED
      BY <3>3, <3>4, <3>5
  <2> QED
    BY <2>2, <2>3
<1>4. m \in T
  <2> HIDE DEF T
  <2>1. 0..m \subseteq T
    BY <1>2, <1>3, UpTo
  <2> QED
    BY <2>1
<1>5. EndsIn(r[n], w[m]) <=> Same(n, m)
  <2> HIDE DEF Same
  <2>1. n \in 0..n
    OBVIOUS
  <2> QED
    BY <1>4, <2>1
<1>6. EndsIn(parts, want) <=> Same(n, m)
  BY DEF EndsIn
<1> QED
  BY <1>5, <1>6

\* The positions in a text of a word.
At(x, word) == {i \in 1..Len(x) : x[i] = word}

\* What splitImage finds, in terms of the positions.
LEMMA SplitAt ==
    ASSUME NEW image
    PROVE  splitImage(image) =
             LET digest == IF At(image, "@") # {} THEN Min(At(image, "@")) ELSE 0
                 plain == IF digest = 0 THEN image ELSE SubSeq(image, 1, digest - 1)
                 colon == IF At(plain, ":") # {} THEN Max(At(plain, ":")) ELSE 0
                 slash == IF At(plain, "/") # {} THEN Max(At(plain, "/")) ELSE 0
             IN IF colon > slash
                  THEN [repository |-> SubSeq(plain, 1, colon - 1),
                        tag |-> SubSeq(plain, colon + 1, Len(plain))]
                  ELSE [repository |-> plain, tag |-> <<>>]
BY DEF splitImage, SelectInSeq, SelectLastInSeq, At

\* Three texts are put together in either order.
LEMMA ConcatAssociative ==
    ASSUME NEW V, NEW x \in Seq(V), NEW y \in Seq(V), NEW z \in Seq(V)
    PROVE  (x \o y) \o z = x \o (y \o z)
<1>1. Len((x \o y) \o z) = Len(x \o (y \o z))
  OBVIOUS
<1>2. \A i \in 1..Len((x \o y) \o z) : ((x \o y) \o z)[i] = (x \o (y \o z))[i]
  OBVIOUS
<1>3. (x \o y) \o z \in Seq(V) /\ x \o (y \o z) \in Seq(V)
  OBVIOUS
<1> DEFINE s == (x \o y) \o z
           t == x \o (y \o z)
<1> HIDE DEF s, t
<1>4. s = t
  BY <1>1, <1>2, <1>3 DEF s, t
<1> QED
  BY <1>4 DEF s, t

\* Where the words of two texts are in the two together.
LEMMA ConcatAt ==
    ASSUME NEW V, NEW x \in Seq(V), NEW y \in Seq(V)
    PROVE  /\ x \o y \in Seq(V) /\ Len(x \o y) = Len(x) + Len(y)
           /\ \A k \in 1..Len(x) : (x \o y)[k] = x[k]
           /\ \A k \in 1..Len(y) : (x \o y)[Len(x) + k] = y[k]
OBVIOUS

\* A word before a text.
LEMMA ConsAt ==
    ASSUME NEW V, NEW c \in V, NEW y \in Seq(V)
    PROVE  /\ <<c>> \o y \in Seq(V) /\ Len(<<c>> \o y) = Len(y) + 1
           /\ (<<c>> \o y)[1] = c
           /\ \A k \in 1..Len(y) : (<<c>> \o y)[k + 1] = y[k]
OBVIOUS

\* The last position there is.
LEMMA MaxExists ==
    ASSUME NEW n \in Nat, NEW S, S \subseteq 1..n, S # {}
    PROVE  Max(S) \in S /\ \A i \in S : i <= Max(S)
<1> DEFINE better == {p \in S \X S : p[1] > p[2]}
<1>1. IsBetter(S, better)
  BY DEF IsBetter
<1>2. PICK i \in S : IsFirstBest(i, S, better)
  <2> HIDE DEF better
  <2> QED
    BY <1>1, FirstBestExists
<1>3. ASSUME NEW j \in S
      PROVE  i >= j
  <2>1. <<j, i>> \notin better
    BY <1>2 DEF IsFirstBest
  <2>2. ~(j > i)
    BY <2>1
  <2> QED
    BY <2>2
<1> QED
  BY <1>3 DEF Max

\* A text in which every colon is before some "/", and a tag and a digest: the
\* digest is dropped, and the rest taken apart at the colon of the tag.
LEMMA SplitText ==
    ASSUME NEW V, ":" \in V, NEW R \in Seq(V), NEW tag \in Seq(V), NEW digest \in Seq(V),
           "@" \notin Range(R), {":", "/", "@"} \intersect Range(tag) = {},
           \A k \in 1..Len(R) : R[k] = ":" => \E l \in 1..Len(R) : k < l /\ R[l] = "/",
           digest # <<>> => digest[1] = "@"
    PROVE  splitImage((R \o (IF tag = <<>> THEN <<>> ELSE <<":">> \o tag)) \o digest)
             = [repository |-> R, tag |-> tag]
<1> DEFINE T == IF tag = <<>> THEN <<>> ELSE <<":">> \o tag
           P == R \o T
           image == P \o digest
<1>1. /\ T \in Seq(V)
      /\ tag # <<>> => /\ Len(tag) \in Nat /\ Len(T) = Len(tag) + 1 /\ T[1] = ":"
                       /\ \A k \in 1..Len(tag) : T[k + 1] = tag[k]
  <2>1. CASE tag = <<>>
    BY <2>1
  <2>2. CASE tag # <<>>
    <3>1. T = <<":">> \o tag
      BY <2>2
    <3> HIDE DEF T
    <3>2. /\ T \in Seq(V) /\ Len(T) = Len(tag) + 1 /\ T[1] = ":"
          /\ \A k \in 1..Len(tag) : T[k + 1] = tag[k]
      BY <3>1, ConsAt
    <3> QED
      BY <3>2
  <2> QED
    BY <2>1, <2>2
<1>2. \A k \in 1..Len(T) : T[k] \notin {"/", "@"} /\ (T[k] = ":" => k = 1)
  <2>1. CASE tag = <<>>
    BY <2>1
  <2>2. CASE tag # <<>>
    <3> SUFFICES ASSUME NEW k \in 1..Len(T)
                 PROVE  T[k] \notin {"/", "@"} /\ (T[k] = ":" => k = 1)
      OBVIOUS
    <3>1. CASE k = 1
      BY <1>1, <2>2, <3>1
    <3>2. CASE k # 1
      <4>1. k - 1 \in 1..Len(tag) /\ (k - 1) + 1 = k
        BY <1>1, <2>2, <3>2
      <4>2. T[k] = tag[k - 1]
        BY <1>1, <4>1
      <4>3. tag[k - 1] \in Range(tag)
        BY <4>1 DEF Range
      <4> QED
        BY <4>2, <4>3
    <3> QED
      BY <3>1, <3>2
  <2> QED
    BY <2>1, <2>2
<1> HIDE DEF T
<1>3. /\ P \in Seq(V) /\ Len(P) = Len(R) + Len(T)
      /\ \A k \in 1..Len(R) : P[k] = R[k]
      /\ \A k \in 1..Len(T) : P[Len(R) + k] = T[k]
  <2> HIDE DEF P
  <2> QED
    BY <1>1, ConcatAt DEF P
<1>4. Len(R) \in Nat /\ Len(T) \in Nat /\ Len(digest) \in Nat /\ DOMAIN R = 1..Len(R)
  BY <1>1
<1>5. \A k \in 1..Len(P) : \/ k \in 1..Len(R) /\ P[k] = R[k]
                           \/ k - Len(R) \in 1..Len(T) /\ P[k] = T[k - Len(R)]
  <2> SUFFICES ASSUME NEW k \in 1..Len(P)
               PROVE  \/ k \in 1..Len(R) /\ P[k] = R[k]
                      \/ k - Len(R) \in 1..Len(T) /\ P[k] = T[k - Len(R)]
    OBVIOUS
  <2>1. CASE k <= Len(R)
    BY <1>3, <1>4, <2>1
  <2>2. CASE ~(k <= Len(R))
    <3>1. k - Len(R) \in 1..Len(T) /\ Len(R) + (k - Len(R)) = k
      BY <1>3, <1>4, <2>2
    <3> QED
      BY <1>3, <3>1
  <2> QED
    BY <2>1, <2>2
<1> HIDE DEF P
<1>6. \A k \in 1..Len(P) : P[k] # "@"
  <2>1. \A k \in 1..Len(R) : R[k] # "@"
    BY <1>4 DEF Range
  <2>2. \A k \in 1..Len(T) : T[k] # "@"
    BY <1>2
  <2> QED
    BY <1>5, <2>1, <2>2
<1>7. /\ image \in Seq(V) /\ Len(image) = Len(P) + Len(digest)
      /\ \A k \in 1..Len(P) : image[k] = P[k]
      /\ \A k \in 1..Len(digest) : image[Len(P) + k] = digest[k]
  <2>1. image = P \o digest
    OBVIOUS
  <2>2. P \in Seq(V)
    BY <1>3
  <2> HIDE DEF image
  <2> QED
    BY <2>1, <2>2, ConcatAt
<1> HIDE DEF image
<1> DEFINE cut == IF At(image, "@") # {} THEN Min(At(image, "@")) ELSE 0
           plain == IF cut = 0 THEN image ELSE SubSeq(image, 1, cut - 1)
<1>8. plain = P
  <2>1. CASE digest = <<>>
    <3>1. image = P
      BY <1>3, <2>1 DEF image
    <3>2. At(image, "@") = {}
      BY <1>6, <3>1 DEF At
    <3> QED
      BY <3>1, <3>2
  <2>2. CASE digest # <<>>
    <3> DEFINE m == Len(P) + 1
    <3>1. Len(P) \in Nat /\ m \in Nat /\ Len(digest) > 0 /\ 1 \in 1..Len(digest)
      BY <1>3, <1>4, <2>2
    <3>2. m \in 1..Len(image) /\ image[m] = "@"
      BY <1>7, <2>2, <3>1
    <3>3. \A k \in At(image, "@") : m <= k
      <4> SUFFICES ASSUME NEW k \in 1..Len(image), k < m, image[k] = "@"
                   PROVE  FALSE
        BY <1>7, <3>1 DEF At
      <4>1. k \in 1..Len(P)
        BY <3>1
      <4> QED
        BY <1>6, <1>7, <4>1
    <3>4. m \in At(image, "@")
      BY <3>2 DEF At
    <3>5. Min(At(image, "@")) = m
      <4>1. At(image, "@") \subseteq Nat
        BY <1>7 DEF At
      <4> HIDE DEF m
      <4> QED
        BY <3>1, <3>3, <3>4, <4>1 DEF Min
    <3>6. cut = m /\ m # 0 /\ m - 1 = Len(P)
      BY <3>1, <3>4, <3>5
    <3>7. plain = SubSeq(image, 1, Len(P))
      BY <3>6
    <3>8. SubSeq(image, 1, Len(P)) = P
      <4>1. Len(P) <= Len(image)
        BY <1>7, <3>1
      <4> QED
        BY <1>3, <1>7, <3>1, <4>1
    <3> QED
      BY <3>7, <3>8
  <2> QED
    BY <2>1, <2>2
<1> DEFINE colon == IF At(P, ":") # {} THEN Max(At(P, ":")) ELSE 0
           slash == IF At(P, "/") # {} THEN Max(At(P, "/")) ELSE 0
           result == IF colon > slash
                       THEN [repository |-> SubSeq(P, 1, colon - 1),
                             tag |-> SubSeq(P, colon + 1, Len(P))]
                       ELSE [repository |-> P, tag |-> <<>>]
<1>9. splitImage(image) = result
  <2>1. splitImage(image) =
             LET c == IF At(plain, ":") # {} THEN Max(At(plain, ":")) ELSE 0
                 s == IF At(plain, "/") # {} THEN Max(At(plain, "/")) ELSE 0
             IN IF c > s
                  THEN [repository |-> SubSeq(plain, 1, c - 1),
                        tag |-> SubSeq(plain, c + 1, Len(plain))]
                  ELSE [repository |-> plain, tag |-> <<>>]
    BY SplitAt
  <2> HIDE DEF plain
  <2> QED
    BY <1>8, <2>1
<1>10. slash \in 0..Len(R) /\ \A k \in At(P, "/") : k <= slash
  <2>1. At(P, "/") \subseteq 1..Len(R)
    <3>1. \A k \in 1..Len(T) : T[k] # "/"
      BY <1>2
    <3> QED
      BY <1>5, <3>1 DEF At
  <2>2. At(P, "/") # {} => slash \in At(P, "/") /\ \A k \in At(P, "/") : k <= slash
    BY <1>4, <2>1, MaxExists
  <2> QED
    BY <1>4, <2>1, <2>2
<1>11. CASE tag = <<>>
  <2>1. P = R
    BY <1>11 DEF P, T
  <2>2. ~(colon > slash)
    <3>1. CASE At(P, ":") = {}
      BY <1>4, <1>10, <3>1
    <3>2. CASE At(P, ":") # {}
      <4>1. At(P, ":") \subseteq 1..Len(R)
        BY <2>1 DEF At
      <4>2. colon \in At(P, ":")
        BY <1>4, <3>2, <4>1, MaxExists
      <4>3. colon \in 1..Len(R) /\ R[colon] = ":"
        BY <2>1, <4>2 DEF At
      <4>4. PICK l \in 1..Len(R) : colon < l /\ R[l] = "/"
        BY <4>3
      <4>5. l \in At(P, "/")
        BY <2>1, <4>4 DEF At
      <4> HIDE DEF colon, slash
      <4> QED
        BY <1>4, <1>10, <4>3, <4>4, <4>5
    <3> QED
      BY <3>1, <3>2
  <2>3. result = [repository |-> P, tag |-> <<>>]
    BY <2>2
  <2> QED
    BY <1>9, <1>11, <2>1, <2>3 DEF image, P, T
<1>12. CASE tag # <<>>
  <2> DEFINE m == Len(R) + 1
  <2>1. /\ Len(tag) \in Nat /\ Len(T) = Len(tag) + 1 /\ 1 \in 1..Len(T) /\ T[1] = ":"
        /\ Len(P) = Len(R) + 1 + Len(tag)
    <3>1. Len(tag) \in Nat /\ Len(T) = Len(tag) + 1 /\ T[1] = ":" /\ Len(P) = Len(R) + Len(T)
      BY <1>1, <1>3, <1>12
    <3> QED
      BY <1>4, <3>1
  <2>2. m \in At(P, ":")
    BY <1>3, <1>4, <2>1 DEF At
  <2>3. ASSUME NEW k \in At(P, ":")
        PROVE  k <= m
    <3>1. k \in 1..Len(P) /\ P[k] = ":"
      BY DEF At
    <3>2. CASE k \in 1..Len(R)
      BY <1>4, <3>2
    <3>3. CASE k - Len(R) \in 1..Len(T) /\ P[k] = T[k - Len(R)]
      <4>1. k - Len(R) = 1
        BY <1>2, <3>1, <3>3
      <4> QED
        BY <1>4, <3>1, <4>1
    <3> QED
      BY <1>5, <3>1, <3>2, <3>3
  <2>4. colon = m
    <3>1. At(P, ":") \subseteq Nat /\ m \in Nat
      BY <1>4 DEF At
    <3> HIDE DEF m
    <3> QED
      BY <2>2, <2>3, <3>1 DEF Max
  <2>5. colon > slash
    BY <1>4, <1>10, <2>4
  <2>6. result = [repository |-> SubSeq(P, 1, m - 1), tag |-> SubSeq(P, m + 1, Len(P))]
    BY <2>4, <2>5
  <2>7. SubSeq(P, 1, m - 1) = R
    <3>1. m - 1 = Len(R) /\ Len(R) <= Len(P)
      BY <1>4, <2>1
    <3> QED
      BY <1>3, <1>4, <3>1
  <2>8. SubSeq(P, m + 1, Len(P)) = tag
    <3> DEFINE s == SubSeq(P, m + 1, Len(P))
    <3>1. m + 1 \in Nat /\ m + 1 >= 1 /\ Len(P) \in Nat /\ Len(P) - (m + 1) + 1 = Len(tag)
      BY <1>4, <2>1
    <3>2. s \in Seq(V) /\ Len(s) = Len(tag) /\ \A i \in 1..Len(tag) : s[i] = P[m + i]
      BY <1>3, <2>1, <3>1
    <3>3. ASSUME NEW i \in 1..Len(tag)
          PROVE  P[m + i] = tag[i]
      <4>1. i + 1 \in 1..Len(T) /\ Len(R) + (i + 1) = m + i
        BY <1>4, <2>1
      <4> QED
        BY <1>1, <1>3, <4>1
    <3> HIDE DEF s
    <3>4. \A i \in 1..Len(tag) : s[i] = tag[i]
      BY <3>2, <3>3
    <3>5. s = tag
      BY <3>2, <3>4
    <3> QED
      BY <3>5 DEF s
  <2> HIDE DEF m, result
  <2>9. splitImage(image) = [repository |-> R, tag |-> tag]
    BY <1>9, <2>6, <2>7, <2>8
  <2> QED
    BY <2>9 DEF image, P, T
<1> QED
  BY <1>11, <1>12

\* The words of a text.  That a string between quotes is in STRING is all this
\* adds, which the provers do not know.
Tokens == STRING \union {"/", ":", "@", "sha256", "abc"}

\* What is assumed of references, as texts of those words.
LEMMA ReferenceType ==
    ASSUME NEW ref \in References
    PROVE  /\ ref.parts \in Seq(Seq(Tokens)) /\ ref.release \in Seq(Tokens)
           /\ ref.suffix \in Seq(Tokens)
           /\ IsReference(ref)
<1>1. /\ ref.parts \in Seq(Seq(STRING)) /\ ref.release \in Seq(STRING)
      /\ ref.suffix \in Seq(STRING)
  BY DetectionsAssumption
<1>2. STRING \subseteq Tokens
  BY DEF Tokens
<1> HIDE DEF Tokens
<1>3. \A x \in Seq(STRING) : x \in Seq(Tokens)
  <2> SUFFICES ASSUME NEW x \in Seq(STRING)
               PROVE  x \in Seq(Tokens)
    OBVIOUS
  <2>1. Len(x) \in Nat /\ x = [i \in 1..Len(x) |-> x[i]]
    OBVIOUS
  <2>2. \A i \in 1..Len(x) : x[i] \in STRING
    OBVIOUS
  <2> QED
    BY <1>2, <2>1, <2>2, ListOf
<1>4. /\ Len(ref.parts) \in Nat /\ ref.parts = [i \in 1..Len(ref.parts) |-> ref.parts[i]]
      /\ \A i \in 1..Len(ref.parts) : ref.parts[i] \in Seq(Tokens)
  BY <1>1, <1>3
<1>5. ref.parts \in Seq(Seq(Tokens))
  BY <1>4, ListOf
<1> QED
  BY <1>1, <1>3, <1>5, ReferencesAssumption

\* A part added to what is before it.
LEMMA PartAdded ==
    ASSUME NEW V, NEW c \in V, NEW a \in Seq(V), NEW p \in Seq(V), NEW x, x = a \o (<<c>> \o p)
    PROVE  /\ x \in Seq(V) /\ x # <<>>
           /\ <<c>> \o x = ((<<c>> \o a) \o <<c>>) \o p
           /\ Len(x) = Len(a) + (Len(p) + 1) /\ x[Len(a) + 1] = c
           /\ \A k \in 1..Len(x) : \/ k <= Len(a) + 1
                                   \/ /\ k - (Len(a) + 1) \in 1..Len(p)
                                      /\ x[k] = p[k - (Len(a) + 1)]
<1> DEFINE y == <<c>> \o p
<1>1. /\ y \in Seq(V) /\ Len(y) = Len(p) + 1 /\ y[1] = c
      /\ \A k \in 1..Len(p) : y[k + 1] = p[k]
  BY ConsAt
<1> HIDE DEF y
<1>2. x = a \o y
  BY DEF y
<1>3. /\ x \in Seq(V) /\ Len(x) = Len(a) + Len(y)
      /\ \A k \in 1..Len(y) : x[Len(a) + k] = y[k]
      /\ Len(a) \in Nat /\ Len(p) \in Nat
  BY <1>1, <1>2, ConcatAt
<1>4. x # <<>> /\ Len(x) = Len(a) + (Len(p) + 1) /\ x[Len(a) + 1] = c
  <2>1. 1 \in 1..Len(y) /\ Len(x) # 0
    BY <1>1, <1>3
  <2> QED
    BY <1>1, <1>3, <2>1
<1>5. ASSUME NEW k \in 1..Len(x), ~(k <= Len(a) + 1)
      PROVE  k - (Len(a) + 1) \in 1..Len(p) /\ x[k] = p[k - (Len(a) + 1)]
  <2>1. /\ k - (Len(a) + 1) \in 1..Len(p) /\ (k - (Len(a) + 1)) + 1 = k - Len(a)
        /\ k - Len(a) \in 1..Len(y) /\ Len(a) + (k - Len(a)) = k
    BY <1>1, <1>3, <1>4, <1>5
  <2>2. x[k] = y[k - Len(a)]
    BY <1>3, <2>1
  <2> QED
    BY <1>1, <2>1, <2>2
<1>6. <<c>> \o x = ((<<c>> \o a) \o <<c>>) \o p
  <2>1. <<c>> \in Seq(V) /\ <<c>> \o a \in Seq(V)
    OBVIOUS
  <2>2. <<c>> \o x = (<<c>> \o a) \o y
    <3>1. (<<c>> \o a) \o y = <<c>> \o (a \o y)
      BY <1>1, <2>1, ConcatAssociative
    <3> QED
      BY <1>2, <3>1, Zenon
  <2> DEFINE z == <<c>> \o a
  <2> HIDE DEF z
  <2>3. z \o (<<c>> \o p) = (z \o <<c>>) \o p
    BY <2>1, ConcatAssociative DEF z
  <2> QED
    BY <2>2, <2>3 DEF y, z
<1>7. \A k \in 1..Len(x) : \/ k <= Len(a) + 1
                           \/ k - (Len(a) + 1) \in 1..Len(p) /\ x[k] = p[k - (Len(a) + 1)]
  BY <1>5
<1> QED
  BY <1>3, <1>4, <1>6, <1>7

\* A repository is put together part by part; every colon in it is the one
\* before a port, in front of a "/".
LEMMA RepositoryJoined ==
    ASSUME NEW ref \in References
    PROVE  /\ Repository(ref) \in Seq(Tokens) /\ Repository(ref) # <<>>
           /\ "@" \notin Range(Repository(ref))
           /\ \A k \in 1..Len(Repository(ref)) : Repository(ref)[k] = ":" =>
                \E l \in 1..Len(Repository(ref)) : k < l /\ Repository(ref)[l] = "/"
           /\ \E r \in [0..Len(ref.parts) -> Seq(Tokens)] :
                /\ r[0] = <<>>
                /\ \A i \in 1..Len(ref.parts) : r[i] = (r[i - 1] \o <<"/">>) \o ref.parts[i]
                /\ r[Len(ref.parts)] = <<"/">> \o Repository(ref)
<1> DEFINE V == Tokens
           parts == ref.parts
           n == Len(parts)
           lists == [i \in DOMAIN parts |-> IF i = 1 THEN parts[i] ELSE <<"/">> \o parts[i]]
           R == Repository(ref)
<1>1. parts \in Seq(Seq(V)) /\ IsReference(ref) /\ "/" \in V
  BY ReferenceType DEF Tokens
<1> HIDE DEF V
<1>2. /\ n \in Nat /\ n # 0 /\ DOMAIN parts = 1..n
      /\ \A i \in 1..n : parts[i] \in Seq(V) /\ parts[i] # <<>>
  BY <1>1 DEF IsReference
<1>3. ASSUME NEW i \in 1..n, i # 1
      PROVE  /\ <<"/">> \o parts[i] \in Seq(V) /\ Len(<<"/">> \o parts[i]) = Len(parts[i]) + 1
             /\ (<<"/">> \o parts[i])[1] = "/"
             /\ \A k \in 1..Len(parts[i]) : (<<"/">> \o parts[i])[k + 1] = parts[i][k]
  BY <1>1, <1>2, ConsAt
<1>4. lists \in Seq(Seq(V)) /\ Len(lists) = n /\ DOMAIN lists = 1..n
  <2>1. lists = [i \in 1..n |-> lists[i]] /\ \A i \in 1..n : lists[i] \in Seq(V)
    BY <1>2, <1>3
  <2> HIDE DEF lists, n
  <2> QED
    BY <1>2, <2>1, ListOf
<1>5. R = FlattenSeq(lists)
  BY DEF Repository
<1>6. lists[1] = parts[1] /\ \A i \in 2..n : lists[i] = <<"/">> \o parts[i]
  BY <1>2
<1> HIDE DEF lists, n, R
<1>7. PICK h \in [0..n -> Seq(V)] :
        /\ h[0] = <<>>
        /\ \A i \in 1..n : h[i] = h[i - 1] \o lists[i]
        /\ R = h[n]
  BY <1>4, <1>5, FlattenSteps
<1>8. /\ 1 \in 1..n /\ n \in 1..n /\ n \in 0..n
      /\ \A i \in 1..n : i - 1 \in 0..n /\ i \in 0..n /\ (i # 1 => i \in 2..n)
  BY <1>2
<1>9. h[1] = parts[1]
  <2>1. 1 - 1 = 0
    OBVIOUS
  <2>2. h[1] = <<>> \o parts[1]
    BY <1>6, <1>7, <1>8, <2>1
  <2> QED
    BY <1>2, <1>8, <2>2
<1>10. R \in Seq(V)
  BY <1>7, <1>8
<1>11. R # <<>>
  <2>1. CASE n = 1
    BY <1>2, <1>7, <1>8, <1>9, <2>1
  <2>2. CASE n # 1
    <3>1. R = h[n - 1] \o (<<"/">> \o parts[n]) /\ h[n - 1] \in Seq(V) /\ parts[n] \in Seq(V)
      BY <1>2, <1>6, <1>7, <1>8, <2>2
    <3> QED
      BY <1>1, <3>1, PartAdded
  <2> QED
    BY <2>1, <2>2
<1>12. \A i \in 1..n : "@" \notin Range(lists[i])
  <2> SUFFICES ASSUME NEW i \in 1..n, NEW k \in DOMAIN lists[i], lists[i][k] = "@"
               PROVE  FALSE
    BY DEF Range
  <2>1. "@" \notin Range(parts[i])
    BY <1>1, <1>2 DEF IsReference
  <2>2. CASE i = 1
    BY <1>6, <2>1, <2>2 DEF Range
  <2>3. CASE i # 1
    <3>1. lists[i] = <<"/">> \o parts[i]
      BY <1>6, <1>8, <2>3
    <3>2. DOMAIN lists[i] = 1..(Len(parts[i]) + 1) /\ Len(parts[i]) \in Nat
      <4>1. lists[i] \in Seq(V) /\ Len(lists[i]) = Len(parts[i]) + 1
        BY <1>3, <2>3, <3>1
      <4>2. Len(parts[i]) \in Nat
        BY <1>2
      <4> QED
        BY <4>1, <4>2
    <3>3. CASE k = 1
      BY <1>3, <2>3, <3>1, <3>3
    <3>4. CASE k # 1
      <4>1. k - 1 \in 1..Len(parts[i]) /\ (k - 1) + 1 = k
        BY <3>2, <3>4
      <4>2. lists[i][k] = parts[i][k - 1]
        BY <1>3, <2>3, <3>1, <4>1
      <4>3. parts[i][k - 1] \in Range(parts[i])
        BY <1>2, <4>1 DEF Range
      <4> QED
        BY <2>1, <4>2, <4>3
    <3> QED
      BY <3>3, <3>4
  <2> QED
    BY <2>2, <2>3
<1>13. "@" \notin Range(R)
  <2>1. Range(R) = UNION {Range(lists[i]) : i \in DOMAIN lists}
    BY <1>4, <1>5, FlattenRange
  <2> QED
    BY <1>4, <1>12, <2>1
<1>14. ASSUME NEW k \in 1..Len(R), R[k] = ":"
       PROVE  \E l \in 1..Len(R) : k < l /\ R[l] = "/"
  <2>1. n # 1
    <3> SUFFICES ASSUME n = 1 PROVE FALSE
      OBVIOUS
    <3>1. R = parts[1]
      BY <1>7, <1>9
    <3>2. ":" \in Range(parts[1])
      BY <1>2, <1>8, <1>14, <3>1 DEF Range
    <3> QED
      BY <1>1, <1>2, <3>2 DEF IsReference, n
  <2> DEFINE p == parts[n]
             a == h[n - 1]
             m == Len(a) + 1
  <2>2. R = a \o (<<"/">> \o p) /\ a \in Seq(V) /\ p \in Seq(V)
    BY <1>2, <1>6, <1>7, <1>8, <2>1
  <2>3. ":" \notin Range(p) /\ DOMAIN p = 1..Len(p)
    <3>1. n > 1
      BY <1>2, <2>1
    <3>2. ":" \notin Range(p)
      BY <1>1, <1>2, <1>8, <3>1 DEF IsReference
    <3> QED
      BY <2>2, <3>2
  <2>4. Len(a) \in Nat /\ Len(p) \in Nat
    BY <2>2
  <2> HIDE DEF a, p
  <2>5. /\ Len(R) = Len(a) + (Len(p) + 1) /\ R[m] = "/"
        /\ \/ k <= m
           \/ k - m \in 1..Len(p) /\ R[k] = p[k - m]
    BY <1>1, <1>14, <2>2, PartAdded
  <2>6. k <= m
    BY <1>14, <2>3, <2>5 DEF Range
  <2> HIDE DEF m
  <2>7. k # m
    BY <1>14, <2>5
  <2>8. m \in 1..Len(R) /\ k < m
    <3>1. m = Len(a) + 1 /\ Len(R) = Len(a) + (Len(p) + 1)
      BY <2>5 DEF m
    <3> QED
      BY <2>4, <2>6, <2>7, <3>1
  <2> QED
    BY <2>5, <2>8
<1> DEFINE r == [i \in 0..n |-> IF i = 0 THEN <<>> ELSE <<"/">> \o h[i]]
<1>15. r \in [0..n -> Seq(V)]
  <2>1. \A i \in 0..n : <<"/">> \o h[i] \in Seq(V)
    BY <1>1, <1>7, ConsAt
  <2> QED
    BY <2>1
<1>16. r[0] = <<>> /\ r[n] = <<"/">> \o R
  BY <1>2, <1>7, <1>8
<1>17. ASSUME NEW i \in 1..n
       PROVE  r[i] = (r[i - 1] \o <<"/">>) \o parts[i]
  <2>1. r[i] = <<"/">> \o h[i] /\ i \in 0..n /\ i - 1 \in 0..n
    BY <1>8
  <2>2. CASE i = 1
    <3>1. r[i - 1] = <<>> /\ <<>> \o <<"/">> = <<"/">>
      BY <1>1, <1>16, <2>2
    <3> QED
      BY <1>9, <2>1, <2>2, <3>1
  <2>3. CASE i # 1
    <3>1. h[i] = h[i - 1] \o (<<"/">> \o parts[i])
      BY <1>6, <1>7, <1>8, <2>3
    <3>2. h[i - 1] \in Seq(V) /\ parts[i] \in Seq(V)
      BY <1>2, <1>7, <2>1
    <3>3. r[i - 1] = <<"/">> \o h[i - 1]
      BY <1>2, <2>1, <2>3
    <3> HIDE DEF r
    <3>4. <<"/">> \o h[i] = ((<<"/">> \o h[i - 1]) \o <<"/">>) \o parts[i]
      <4> DEFINE a == h[i - 1]
                 p == parts[i]
                 x == h[i]
      <4>1. x = a \o (<<"/">> \o p) /\ a \in Seq(V) /\ p \in Seq(V)
        BY <3>1, <3>2
      <4> HIDE DEF a, p, x
      <4>2. <<"/">> \o x = ((<<"/">> \o a) \o <<"/">>) \o p
        BY <1>1, <4>1, PartAdded
      <4> QED
        BY <4>2 DEF a, p, x
    <3> QED
      BY <2>1, <3>3, <3>4
  <2> QED
    BY <2>2, <2>3
<1> HIDE DEF r
<1>18. \E x \in [0..n -> Seq(V)] :
         /\ x[0] = <<>>
         /\ \A i \in 1..n : x[i] = (x[i - 1] \o <<"/">>) \o parts[i]
         /\ x[n] = <<"/">> \o R
  BY <1>15, <1>16, <1>17
<1> QED
  BY <1>10, <1>11, <1>13, <1>14, <1>18 DEF R, n, V

\* The start of a text ...
LEMMA PrefixAt ==
    ASSUME NEW V, NEW x \in Seq(V), NEW l \in 0..Len(x)
    PROVE  /\ SubSeq(x, 1, l) \in Seq(V) /\ Len(SubSeq(x, 1, l)) = l
           /\ \A k \in 1..l : SubSeq(x, 1, l)[k] = x[k]
OBVIOUS

\* ... and its end.
LEMMA RestAt ==
    ASSUME NEW V, NEW x \in Seq(V), NEW i \in 0..Len(x)
    PROVE  /\ SubSeq(x, i + 1, Len(x)) \in Seq(V)
           /\ Len(SubSeq(x, i + 1, Len(x))) = Len(x) - i
           /\ DOMAIN SubSeq(x, i + 1, Len(x)) = 1..(Len(x) - i)
           /\ \A j \in 1..(Len(x) - i) : SubSeq(x, i + 1, Len(x))[j] = x[i + j]
<1> DEFINE m == i + 1
           n == Len(x)
           y == SubSeq(x, m, n)
<1>1. m \in Int /\ n \in Nat /\ i \in Nat /\ i <= n /\ \A k \in m..n : x[k] \in V
  OBVIOUS
<1>2. m = i + 1 /\ n - m + 1 = n - i
  BY <1>1
<1> HIDE DEF m, n
<1>3. /\ y \in Seq(V) /\ Len(y) = IF m <= n THEN n - m + 1 ELSE 0
      /\ \A j \in 1..(n - m + 1) : y[j] = x[m + j - 1]
  BY <1>1
<1>4. Len(y) = n - i
  BY <1>1, <1>2, <1>3
<1> HIDE DEF y
<1>5. ASSUME NEW j \in 1..(n - i)
      PROVE  y[j] = x[i + j]
  <2>1. m + j - 1 = i + j
    BY <1>1, <1>2
  <2> QED
    BY <1>2, <1>3, <2>1
<1>6. DOMAIN y = 1..(n - i)
  BY <1>3, <1>4
<1> QED
  BY <1>3, <1>4, <1>5, <1>6 DEF m, n, y

\* A text ends in a whole one exactly if it does so with c before both.
LEMMA WholeSuffix ==
    ASSUME NEW V, NEW c \in V, NEW s \in Seq(V), NEW t \in Seq(V)
    PROVE  s = t \/ EndsIn(s, <<c>> \o t) <=> EndsIn(<<c>> \o s, <<c>> \o t)
<1> DEFINE x == <<c>> \o s
           y == <<c>> \o t
<1>1. /\ x \in Seq(V) /\ Len(x) = Len(s) + 1 /\ x[1] = c
      /\ \A k \in 1..Len(s) : x[k + 1] = s[k]
  BY ConsAt
<1>2. /\ y \in Seq(V) /\ Len(y) = Len(t) + 1 /\ y[1] = c
      /\ \A k \in 1..Len(t) : y[k + 1] = t[k]
  BY ConsAt
<1>3. Len(s) \in Nat /\ Len(t) \in Nat
  OBVIOUS
<1>4. s = t => EndsIn(x, y)
  <2> SUFFICES ASSUME s = t PROVE EndsIn(x, y)
    OBVIOUS
  <2>1. x = y
    OBVIOUS
  <2> HIDE DEF x, y
  <2> QED
    BY <1>1, <1>3, <2>1 DEF EndsIn
<1> HIDE DEF x, y
<1>5. ASSUME Len(y) <= Len(s), NEW k \in 1..Len(y)
      PROVE  x[Len(x) + 1 - k] = s[Len(s) + 1 - k]
  <2>1. Len(s) + 1 - k \in 1..Len(s) /\ (Len(s) + 1 - k) + 1 = Len(x) + 1 - k
    BY <1>1, <1>2, <1>3, <1>5
  <2> QED
    BY <1>1, <2>1
<1>6. EndsIn(s, y) => EndsIn(x, y)
  <2> SUFFICES ASSUME EndsIn(s, y) PROVE EndsIn(x, y)
    OBVIOUS
  <2>1. Len(y) <= Len(s) /\ \A k \in 1..Len(y) : y[Len(y) + 1 - k] = s[Len(s) + 1 - k]
    BY DEF EndsIn
  <2>2. Len(y) <= Len(x)
    BY <1>1, <1>2, <1>3, <2>1
  <2> QED
    BY <1>5, <2>1, <2>2 DEF EndsIn
<1>7. ASSUME EndsIn(x, y)
      PROVE  s = t \/ EndsIn(s, y)
  <2>1. Len(y) <= Len(x) /\ \A k \in 1..Len(y) : y[Len(y) + 1 - k] = x[Len(x) + 1 - k]
    BY <1>7 DEF EndsIn
  <2>2. CASE Len(y) <= Len(s)
    BY <1>5, <2>1, <2>2 DEF EndsIn
  <2>3. CASE ~(Len(y) <= Len(s))
    <3>1. Len(y) = Len(x) /\ Len(s) = Len(t)
      <4>1. Len(x) = Len(s) + 1 /\ Len(y) = Len(t) + 1 /\ Len(y) <= Len(x)
        BY <1>1, <1>2, <2>1
      <4> QED
        BY <1>3, <2>3, <4>1
    <3>2. ASSUME NEW i \in 1..Len(s)
          PROVE  s[i] = t[i]
      <4> DEFINE k == Len(s) + 1 - i
      <4>1. k \in 1..Len(y) /\ Len(y) + 1 - k = i + 1 /\ Len(x) + 1 - k = i + 1
        BY <1>1, <1>2, <1>3, <3>1
      <4> HIDE DEF k
      <4> QED
        BY <1>1, <1>2, <2>1, <3>1, <4>1
    <3> QED
      BY <3>1, <3>2
  <2> QED
    BY <2>2, <2>3
<1> QED
  BY <1>4, <1>6, <1>7 DEF x, y

\* Repositories end in each other part by part.
LEMMA RepositoryEnds ==
    ASSUME NEW ref \in References, NEW want \in References
    PROVE  \/ Repository(ref) = Repository(want)
           \/ IsSuffix(<<"/">> \o Repository(want), Repository(ref))
           <=> IsSuffix(want.parts, ref.parts)
<1> DEFINE R == Repository(ref)
           W == Repository(want)
           m == Len(want.parts)
           n == Len(ref.parts)
<1>1. PICK r \in [0..n -> Seq(Tokens)] :
        /\ r[0] = <<>>
        /\ \A i \in 1..n : r[i] = (r[i - 1] \o <<"/">>) \o ref.parts[i]
        /\ r[n] = <<"/">> \o R
  BY RepositoryJoined
<1>2. PICK w \in [0..m -> Seq(Tokens)] :
        /\ w[0] = <<>>
        /\ \A i \in 1..m : w[i] = (w[i - 1] \o <<"/">>) \o want.parts[i]
        /\ w[m] = <<"/">> \o W
  BY RepositoryJoined
<1>3. /\ R \in Seq(Tokens) /\ W \in Seq(Tokens) /\ "/" \in Tokens
      /\ ref.parts \in Seq(Seq(Tokens)) /\ want.parts \in Seq(Seq(Tokens))
      /\ IsReference(ref) /\ IsReference(want)
  BY RepositoryJoined, ReferenceType DEF Tokens
<1> HIDE DEF R, W
<1>4. /\ \A i \in 1..n : "/" \notin Range(ref.parts[i])
      /\ \A j \in 1..m : "/" \notin Range(want.parts[j])
  <2>1. DOMAIN ref.parts = 1..n /\ DOMAIN want.parts = 1..m
    BY <1>3
  <2> QED
    BY <1>3, <2>1 DEF IsReference
<1>5. m \in Nat /\ n \in Nat
  BY <1>3
<1>6. EndsIn(r[n], w[m]) <=> EndsIn(ref.parts, want.parts)
  <2> DEFINE p == ref.parts
             q == want.parts
  <2>1. Len(p) = n /\ Len(q) = m /\ p \in Seq(Seq(Tokens)) /\ q \in Seq(Seq(Tokens))
    BY <1>3
  <2>2. /\ \A i \in 1..n : r[i] = (r[i - 1] \o <<"/">>) \o p[i]
        /\ \A j \in 1..m : w[j] = (w[j - 1] \o <<"/">>) \o q[j]
        /\ \A j \in 1..m : "/" \notin Range(q[j])
        /\ \A i \in 1..n : "/" \notin Range(p[i])
    BY <1>1, <1>2, <1>4
  <2> HIDE DEF p, q, m, n
  <2>3. r[0] = <<>> /\ w[0] = <<>> /\ r \in [0..n -> Seq(Tokens)] /\ w \in [0..m -> Seq(Tokens)]
    BY <1>1, <1>2
  <2>4. "/" \in Tokens
    BY <1>3
  <2>5. EndsIn(r[n], w[m]) <=> EndsIn(p, q)
    BY <1>5, <2>1, <2>2, <2>3, <2>4, EndsOfJoined
  <2> QED
    BY <2>5 DEF p, q
<1>7. EndsIn(ref.parts, want.parts) <=> IsSuffix(want.parts, ref.parts)
  BY <1>3, SuffixAtEnd
<1>8. R = W \/ EndsIn(R, <<"/">> \o W) <=> EndsIn(<<"/">> \o R, <<"/">> \o W)
  BY <1>3, WholeSuffix
<1>9. EndsIn(R, <<"/">> \o W) <=> IsSuffix(<<"/">> \o W, R)
  <2>1. <<"/">> \o W \in Seq(Tokens)
    BY <1>3, ConsAt
  <2> QED
    BY <1>3, <2>1, SuffixAtEnd
<1> QED
  BY <1>1, <1>2, <1>6, <1>7, <1>8, <1>9, Zenon DEF R, W

\* What a reference was written from is read.
LEMMA WrittenRead ==
    ASSUME NEW ref \in References
    PROVE  splitImage(Written(ref))
             = [repository |-> Repository(ref), tag |-> ref.release \o ref.suffix]
<1> DEFINE R == Repository(ref)
           tag == ref.release \o ref.suffix
           digest == IF ref.digest THEN <<"@", "sha256", ":", "abc">> ELSE <<>>
<1>1. /\ R \in Seq(Tokens) /\ "@" \notin Range(R)
      /\ \A k \in 1..Len(R) : R[k] = ":" => \E l \in 1..Len(R) : k < l /\ R[l] = "/"
  BY RepositoryJoined
<1>2. ref.release \in Seq(Tokens) /\ ref.suffix \in Seq(Tokens) /\ IsReference(ref)
  BY ReferenceType
<1>3. tag \in Seq(Tokens) /\ Range(tag) = Range(ref.release) \union Range(ref.suffix)
  BY <1>2, ConcatRange
<1>4. {":", "/", "@"} \intersect Range(tag) = {}
  BY <1>2, <1>3 DEF IsReference
<1>5. digest \in Seq(Tokens) /\ (digest # <<>> => digest[1] = "@")
  <2>1. {"@", "sha256", ":", "abc"} \subseteq Tokens
    BY DEF Tokens
  <2>2. <<"@", "sha256", ":", "abc">> \in Seq(Tokens)
    BY <2>1
  <2> QED
    BY <2>2
<1>6. ":" \in Tokens
  BY DEF Tokens
<1>7. Written(ref) = (R \o (IF tag = <<>> THEN <<>> ELSE <<":">> \o tag)) \o digest
  BY DEF Written
<1> HIDE DEF R, tag, digest
<1>8. splitImage(Written(ref)) = [repository |-> R, tag |-> tag]
  BY <1>1, <1>3, <1>4, <1>5, <1>6, <1>7, SplitText
<1> QED
  BY <1>8 DEF R, tag

-----------------------------------------------------------------------------
(* Versions in texts.                                                      *)

\* In a version a "-" is followed by the name of a pre-release.
LEMMA VersionDashes ==
    ASSUME NEW V, NEW p \in Seq(V), versionPrefix(p), NEW d \in 1..Len(p), p[d] = "-"
    PROVE  d > 1 => d < Len(p) /\ p[d + 1] \in PreReleases
<1> SUFFICES ASSUME d > 1
             PROVE  d < Len(p) /\ p[d + 1] \in PreReleases
  OBVIOUS
<1> DEFINE l == Len(p)
<1>1. PICK i \in 0..l : /\ Numeric(DropV(SubSeq(p, 1, i)))
                        /\ i = l \/ PreRelease(SubSeq(p, i + 1, l))
  BY DEF versionPrefix
<1>2. l \in Nat
  OBVIOUS
<1>3. "-" \notin DOMAIN Number
  BY ReferencesAssumption
<1>4. ~(d <= i)
  <2> SUFFICES ASSUME d <= i PROVE FALSE
    OBVIOUS
  <2> DEFINE s == SubSeq(p, 1, i)
  <2>1. s \in Seq(V) /\ Len(s) = i /\ s[d] = "-"
    BY <1>2
  <2> HIDE DEF s
  <2>2. \E k \in DOMAIN DropV(s) : DropV(s)[k] = "-"
    <3>1. CASE DropV(s) = s
      <4>1. d \in DOMAIN s
        BY <2>1
      <4> QED
        BY <2>1, <3>1, <4>1
    <3>2. CASE DropV(s) = Tail(s)
      <4>1. d - 1 \in DOMAIN Tail(s) /\ Tail(s)[d - 1] = s[d]
        BY <1>2, <2>1
      <4> QED
        BY <2>1, <3>2, <4>1
    <3> QED
      BY <3>1, <3>2 DEF DropV
  <2> QED
    BY <1>1, <1>3, <2>2 DEF Numeric, s
<1>5. i # l /\ PreRelease(SubSeq(p, i + 1, l))
  <2>1. i # l
    BY <1>2, <1>4
  <2> QED
    BY <1>1, <2>1
<1> DEFINE q == SubSeq(p, i + 1, l)
           k == d - i
<1>6. /\ q \in Seq(V) /\ Len(q) = l - i /\ DOMAIN q = 1..(l - i)
      /\ \A j \in 1..(l - i) : q[j] = p[i + j]
  BY RestAt
<1>7. k \in 1..(l - i) /\ i + k = d
  BY <1>2, <1>4
<1> HIDE DEF q, k
<1>8. q[k] = "-"
  BY <1>6, <1>7
<1>9. /\ Len(q) > 1 /\ q[2] \in PreReleases
      /\ \A j \in 3..Len(q) : q[j] \in DOMAIN Number \/ q[j] = "."
  BY <1>5 DEF PreRelease, q
<1>10. k = 1
  <2>1. k # 2
    BY <1>8, <1>9 DEF PreReleases
  <2>2. k \notin 3..Len(q)
    BY <1>3, <1>8, <1>9
  <2> QED
    BY <1>2, <1>6, <1>7, <2>1, <2>2
<1>11. 2 \in 1..(l - i) /\ i + 2 = d + 1 /\ d < l
  BY <1>2, <1>6, <1>7, <1>9, <1>10
<1> QED
  BY <1>6, <1>9, <1>11

\* The version of a tag is the release it was put together from.
LEMMA ReleaseRead ==
    ASSUME NEW ref \in References
    PROVE  CleanVersion(ref.release \o ref.suffix) = ref.release
<1> DEFINE V == Tokens
           rel == ref.release
           suf == ref.suffix
           text == rel \o suf
           n == Len(rel)
           found == {p \in Prefixes(text) : versionPrefix(p)}
<1>1. rel \in Seq(V) /\ suf \in Seq(V) /\ IsReference(ref)
  BY ReferenceType
<1> HIDE DEF V
<1>2. CleanVersion(text)
        = IF found = {} THEN text ELSE CHOOSE p \in found : \A q \in found : Len(q) <= Len(p)
  BY DEF CleanVersion
<1>3. /\ n \in Nat /\ Len(suf) \in Nat
      /\ text \in Seq(V) /\ Len(text) = n + Len(suf)
      /\ \A k \in 1..n : text[k] = rel[k]
      /\ \A k \in 1..Len(suf) : text[n + k] = suf[k]
  <2> HIDE DEF rel, suf
  <2> QED
    BY <1>1, ConcatAt
<1>4. CASE (\A p \in Prefixes(rel) : ~versionPrefix(p)) /\ suf = <<>>
  <2>1. text = rel
    BY <1>1, <1>4
  <2>2. found = {}
    BY <1>4, <2>1
  <2> HIDE DEF text, found
  <2> QED
    BY <1>2, <2>1, <2>2 DEF text
<1>5. CASE /\ versionPrefix(rel)
           /\ \/ suf \in {<<>>, <<"-">>}
              \/ Len(suf) > 1 /\ suf[1] = "-" /\ suf[2] \notin PreReleases
  <2>1. n # 0
    <3> SUFFICES ASSUME n = 0 PROVE FALSE
      OBVIOUS
    <3>1. PICK i \in 0..n : Numeric(DropV(SubSeq(rel, 1, i)))
      BY <1>5 DEF versionPrefix
    <3>2. i = 0 /\ SubSeq(rel, 1, 0) = <<>>
      BY <1>1
    <3>3. DropV(<<>>) = <<>>
      BY DEF DropV
    <3>4. Numeric(<<>>)
      BY <3>1, <3>2, <3>3
    <3>5. Len(<<>>) \notin {1, 3, 5}
      OBVIOUS
    <3> QED
      BY <3>4, <3>5 DEF Numeric
  <2> HIDE DEF text
  <2>2. SubSeq(text, 1, n) = rel
    <3>1. n \in 0..Len(text)
      <4> HIDE DEF n
      <4> QED
        BY <1>3
    <3> DEFINE p == SubSeq(text, 1, n)
    <3>2. p \in Seq(V) /\ Len(p) = n /\ \A k \in 1..n : p[k] = text[k]
      BY <1>3, <3>1, PrefixAt
    <3> HIDE DEF p
    <3>3. \A k \in 1..n : p[k] = rel[k]
      BY <1>3, <3>2
    <3>4. p = rel
      BY <1>1, <3>2, <3>3
    <3> QED
      BY <3>4 DEF p
  <2>3. rel \in found
    <3>1. n \in 0..Len(text)
      <4> HIDE DEF n
      <4> QED
        BY <1>3
    <3> HIDE DEF n
    <3>2. rel \in Prefixes(text)
      BY <2>2, <3>1 DEF Prefixes
    <3> QED
      BY <1>5, <3>2
  <2>4. ASSUME NEW l \in 0..Len(text), versionPrefix(SubSeq(text, 1, l))
        PROVE  l <= n
    <3> SUFFICES ASSUME ~(l <= n) PROVE FALSE
      OBVIOUS
    <3> DEFINE p == SubSeq(text, 1, l)
    <3>1. /\ p \in Seq(V) /\ Len(p) = l /\ \A k \in 1..l : p[k] = text[k]
      BY <1>3, PrefixAt
    <3> HIDE DEF p, rel, suf
    <3>2. n + 1 \in 1..l /\ 1 \in 1..Len(suf) /\ n + 1 > 1
      BY <1>3, <2>1
    <3>3. suf[1] = "-"
      BY <1>5, <3>2
    <3>4. p[n + 1] = "-"
      BY <1>3, <3>1, <3>2, <3>3
    <3>5. n + 1 < l /\ p[n + 2] \in PreReleases
      <4>1. n + 1 < l /\ p[(n + 1) + 1] \in PreReleases
        BY <2>4, <3>1, <3>2, <3>4, VersionDashes DEF p
      <4> QED
        BY <1>3, <4>1
    <3>6. 2 \in 1..Len(suf) /\ n + 2 \in 1..l
      BY <1>3, <3>5
    <3>7. suf[2] \in PreReleases
      BY <1>3, <3>1, <3>5, <3>6
    <3> QED
      BY <1>5, <3>6, <3>7
  <2>5. ASSUME NEW q \in found
        PROVE  q \in Seq(V) /\ Len(q) <= n /\ q = SubSeq(text, 1, Len(q))
    <3>1. PICK l \in 0..Len(text) : q = SubSeq(text, 1, l) /\ versionPrefix(q)
      BY DEF Prefixes
    <3>2. q \in Seq(V) /\ Len(q) = l
      BY <1>3, <3>1, PrefixAt
    <3> QED
      BY <2>4, <3>1, <3>2
  <2> HIDE DEF found
  <2>6. ASSUME NEW p \in found, \A q \in found : Len(q) <= Len(p)
        PROVE  p = rel
    <3>1. n <= Len(p) /\ Len(p) <= n /\ Len(p) \in Nat
      BY <2>3, <2>5, <2>6
    <3>2. Len(p) = n
      BY <1>3, <3>1
    <3> QED
      BY <2>2, <2>5, <3>2
  <2>7. \A q \in found : Len(q) <= Len(rel)
    BY <2>5
  <2> QED
    BY <1>2, <2>3, <2>6, <2>7 DEF text
<1> QED
  BY <1>1, <1>4, <1>5 DEF IsReference

\* An image reference is read as it was put together, whatever it is.
LEMMA ReadBackHolds == ReadBack
<1> SUFFICES ASSUME NEW ref \in References
             PROVE  /\ \A want \in References :
                         imageMatches(Written(ref), Repository(want))
                           <=> IsSuffix(want.parts, ref.parts)
                    /\ CleanVersion(splitImage(Written(ref)).tag) = ref.release
  BY DEF ReadBack
<1> DEFINE split == splitImage(Written(ref))
           R == Repository(ref)
           tag == ref.release \o ref.suffix
<1>1. split = [repository |-> R, tag |-> tag]
  BY WrittenRead
<1> HIDE DEF split, R, tag
<1>2. split.repository = R /\ split.tag = tag
  BY <1>1
<1>3. ASSUME NEW want \in References
      PROVE  imageMatches(Written(ref), Repository(want)) <=> IsSuffix(want.parts, ref.parts)
  <2>1. splitImage(Written(ref)).repository = Repository(ref)
    BY <1>2 DEF split, R
  <2>2. Repository(want) # <<>>
    BY RepositoryJoined
  <2> QED
    BY <2>1, <2>2, RepositoryEnds DEF imageMatches
<1>4. CleanVersion(splitImage(Written(ref)).tag) = ref.release
  BY <1>2, ReleaseRead DEF split, tag
<1> QED
  BY <1>3, <1>4

-----------------------------------------------------------------------------
(* The properties.                                                         *)

\* The state always has its types, and the record of each tool its name.
THEOREM TypeCorrect == Spec => []TypeOK
<1>1. IInv => TypeOK
  <2> SUFFICES ASSUME IInv
               PROVE  TypeOK
    OBVIOUS
  <2>1. KnownFind \subseteq Find
    BY DEF KnownFind
  <2>2. {flux, helm, argo} \subseteq Seq(Find)
    <3>1. flux \in Seq(KnownFind) /\ helm \in Seq(KnownFind) /\ argo \in Seq(KnownFind)
      BY DEF IInv, BaseInv, FindsTyped
    <3>2. ASSUME NEW x \in Seq(KnownFind)
          PROVE  x \in Seq(Find)
      <4>1. Len(x) \in Nat /\ x = [i \in 1..Len(x) |-> x[i]] /\ \A i \in 1..Len(x) : x[i] \in KnownFind
        OBVIOUS
      <4>2. \A i \in 1..Len(x) : x[i] \in Find
        BY <2>1, <4>1
      <4> QED
        BY <4>1, <4>2, ListOf
    <3> QED
      BY <3>1, <3>2
  <2>3. raw \in [DOMAIN raw -> Find] /\ DOMAIN raw \subseteq Tools
    BY <2>1 DEF IInv, BaseInv, FindsTyped
  <2>4. listed \subseteq Namespaces /\ cluster \in Clusters
    BY SourcesAssumption DEF IInv, BaseInv, Range
  <2>5. /\ installed \in [DOMAIN installed -> Find] /\ DOMAIN installed \subseteq Tools
        /\ \A t \in DOMAIN installed : installed[t].name = t
    <3>1. CASE pc = "done"
      <4>1. \A t \in DOMAIN installed : t \in Tools /\ installed[t] \in Find /\ installed[t].name = t
        BY <3>1, RecordOf, IdentifiedType DEF Done
      <4>2. installed = [t \in DOMAIN installed |-> installed[t]]
        BY <3>1 DEF IInv, DoneInv, Records
      <4> QED
        BY <4>1, <4>2
    <3>2. CASE pc # "done"
      <4>1. installed = <<>> /\ DOMAIN <<>> = {} /\ <<>> \in [{} -> Find]
        BY <3>2 DEF IInv, DoneInv
      <4> QED
        BY <4>1
    <3> QED
      BY <3>1, <3>2
  <2>6. unknown \subseteq Names \union {NoName}
    <3>1. \A x \in Range(Found(answered)) : x.name \in Names \union {NoName}
      BY <2>1, AllFinds DEF Find
    <3> QED
      BY <3>1 DEF IInv, DoneInv
  <2> QED
    BY <2>2, <2>3, <2>4, <2>5, <2>6 DEF TypeOK, IInv, BaseInv, Clusters
<1> QED
  BY <1>1, Invariant, PTL

\* The Helm release that is dropped completes the Flux release that stands for it.
LEMMA ManagedCompletes ==
    ASSUME IInv, NEW i \in managed
    PROVE  /\ i \in DOMAIN helm
           /\ \E f \in Range(flux) :
                Place(f) = Place(helm[i]) /\ completed(f) = CompletedBy(f, helm[i])
<1>1. helm \in Seq(KnownFind)
  BY DEF IInv, BaseInv, FindsTyped
<1>2. PICK f \in Range(flux) : Key(f) \in DOMAIN byRelease /\ i = byRelease[Key(f)]
  BY DEF managed
<1>3. i \in DOMAIN helm /\ Place(helm[i]) = Key(f)
  BY <1>1, <1>2, ByRelease
<1>4. completed(f) = CompletedBy(f, helm[i])
  BY <1>2 DEF completed, CompletedBy
<1> QED
  BY <1>3, <1>4 DEF Key, Place

\* A Flux release of a tool is of that tool when it is completed.
LEMMA CompletedTool ==
    ASSUME IInv, NEW f \in Range(flux), identify(f) \in Tools
    PROVE  identify(completed(f)) = identify(f) /\ completed(f).source = f.source
<1>1. helm \in Seq(KnownFind) /\ f \in KnownFind /\ f.source = "fluxcd"
  BY FluxFinds DEF IInv, BaseInv, FindsTyped
<1>2. CASE completed(f) = f
  BY <1>2
<1>3. ASSUME NEW h \in Range(helm), completed(f) = CompletedBy(f, h)
      PROVE  identify(completed(f)) = identify(f) /\ completed(f).source = f.source
  <2>1. h \in KnownFind
    BY HelmFinds
  <2>2. identify(f) = M!IdentifyChart(f.name, f.words) /\ identify(f) # NoName
    BY <1>1, ChartIdentified DEF identify
  <2>3. f.name # NoName
    BY <2>2, ChartIdentified
  <2>4. /\ completed(f).source = "fluxcd" /\ completed(f).name = f.name
        /\ completed(f).words = f.words \union h.words
    BY <1>1, <1>3, <2>1, <2>3, CompletedByType
  <2>5. identify(completed(f)) = M!IdentifyChart(f.name, f.words \union h.words)
    BY <2>4 DEF identify
  <2> QED
    BY <1>1, <2>2, <2>4, <2>5, ChartIdentified
<1> QED
  BY <1>1, <1>2, <1>3, CompletedFind

\* A tool installed all through the scan is among the finds, from a source that
\* ranks no lower.
LEMMA InstalledFound ==
    ASSUME IInv, Done, \A c, d \in before : Reconciled(c, d), NEW t \in Tools,
           NEW f \in FindsOf(cluster),
           \A c \in before : \E g \in FindsOf(c) :
             Place(g) = Place(f) /\ g.source = f.source /\ identify(g) = t
    PROVE  \E x \in Range(Found(answered)) :
             /\ identify(x) = t
             /\ sourceRank[x.source] >= sourceRank[f.source]
<1>1. before \subseteq Clusters /\ cluster \in before
  BY DEF IInv, BaseInv
<1>2. t # NoName
  BY ChartIdentified
<1>3. sourceRank["fluxcd"] = 3 /\ sourceRank["helm"] = 2 /\ sourceRank["argocd"] = 3
      /\ sourceRank["raw"] = 1
  BY DEF sourceRank
<1> HIDE DEF sourceRank
<1>4. CASE f.source = "fluxcd"
  <2>1. "fluxcd" \in answered
    BY <1>1, <1>4, FindsBySource
  <2>2. PICK c \in before : Range(flux) = FluxRead(c, "repositories" \in answered)
    BY <2>1 DEF IInv, FluxInv
  <2>3. PICK g \in FindsOf(c) : g.source = "fluxcd" /\ identify(g) = t
    BY <1>4
  <2>4. g \in Range(flux)
    BY <1>1, <2>2, <2>3, FindsBySource
  <2>5. identify(completed(g)) = t /\ completed(g).source = "fluxcd"
    BY <2>3, <2>4, CompletedTool
  <2>6. completed(g) \in Range(Found(answered))
    BY <2>4, AllFinds
  <2> QED
    BY <1>3, <1>4, <2>5, <2>6
<1>5. CASE f.source = "helm"
  <2>1. f.namespace \in listed
    BY <1>1, <1>5, FindsBySource
  <2>2. PICK c \in before : HelmRead(c, f.namespace) \subseteq Range(helm)
    BY <2>1 DEF IInv, HelmInv
  <2>3. PICK g \in FindsOf(c) : Place(g) = Place(f) /\ g.source = "helm" /\ identify(g) = t
    BY <1>5
  <2>4. g.namespace = f.namespace
    BY <2>3 DEF Place
  <2>5. g \in HelmRead(c, f.namespace)
    BY <1>1, <2>3, <2>4, FindsBySource
  <2>6. PICK r \in Range(c.helm) : g = helmTool(r)
    BY <2>5 DEF HelmRead
  <2>7. r \in Release
    BY <1>1, SourcesAssumption DEF Clusters, Range
  <2>8. Place(g) = Place(r) /\ g.name = r.chart
    BY <2>6, <2>7, HelmToolType DEF helmTool
  <2>9. PICK i \in DOMAIN helm : g = helm[i]
    BY <2>2, <2>5 DEF Range
  <2>10. g \in KnownFind
    BY <2>9, HelmFinds DEF Range
  <2>11. CASE i \notin managed
    <3>1. g \in Range(Found(answered))
      BY <2>9, <2>11, AllFinds
    <3> QED
      BY <1>3, <1>5, <2>3, <3>1
  <2>12. CASE i \in managed
    <3>1. PICK k \in Range(flux) : Place(k) = Place(g) /\ completed(k) = CompletedBy(k, g)
      BY <2>9, <2>12, ManagedCompletes
    <3>2. k \in KnownFind /\ k.source = "fluxcd"
      BY FluxFinds
    <3>3. PICK d \in before : \E o \in Range(d.flux) :
            Place(k) = Place(fluxTool(o)) /\ k.name = fluxTool(o).name
      BY FluxFinds
    <3>4. k.name \in {g.name, NoName}
      BY <2>3, <2>8, <3>1, <3>3 DEF Reconciled
    <3>5. /\ completed(k).source = "fluxcd" /\ completed(k).name = g.name
          /\ completed(k).words = k.words \union g.words
      BY <2>10, <3>1, <3>2, <3>4, CompletedByType
    <3>6. M!IdentifyChart(g.name, g.words) = t
      BY <2>3 DEF identify
    <3>7. M!IdentifyChart(g.name, g.words \union k.words) = t
      BY <1>2, <3>6, ChartIdentified
    <3>8. identify(completed(k)) = t
      BY <3>5, <3>7 DEF identify
    <3>9. completed(k) \in Range(Found(answered))
      BY AllFinds
    <3> QED
      BY <1>3, <1>5, <3>5, <3>8, <3>9
  <2> QED
    BY <2>11, <2>12
<1>6. CASE f.source = "argocd"
  <2>1. "argocd" \in answered
    BY <1>1, <1>6, FindsBySource
  <2>2. PICK c \in before : Range(argo) = ArgoRead(c)
    BY <2>1 DEF IInv, ArgoInv
  <2>3. PICK g \in FindsOf(c) : g.source = "argocd" /\ identify(g) = t
    BY <1>6
  <2>4. g \in Range(argo)
    BY <1>1, <2>2, <2>3, FindsBySource
  <2>5. g \in Range(Found(answered))
    BY <2>4, AllFinds
  <2> QED
    BY <1>3, <1>6, <2>3, <2>5
<1>7. CASE f.source = "raw"
  <2>1. /\ "raw" \in answered
        /\ \E w \in cluster.raw : \E u \in DOMAIN Recognised[w] :
             w.namespace \in Range(watched) /\ f = rawTool(w, u)
    BY <1>1, <1>7, FindsBySource
  <2>2. f.namespace \in Range(watched)
    <3>1. \A w, u : rawTool(w, u).namespace = w.namespace
      BY DEF rawTool
    <3> QED
      BY <2>1, <3>1
  <2>3. PICK i \in DOMAIN watched : f.namespace = watched[i]
    BY <2>2 DEF Range
  <2>4. i \in 1..(at - 1)
    <3>1. watched \in Seq(Namespaces) /\ at \in 1..(Len(watched) + 1) /\ at > Len(watched)
      BY SourcesAssumption DEF IInv, BaseInv, RawInv, Done
    <3> QED
      BY <3>1
  <2>5. PICK c \in before : SeenRaw(c, i)
    BY <2>4 DEF IInv, RawInv, Done
  <2>6. PICK g \in FindsOf(c) : Place(g) = Place(f) /\ g.source = "raw" /\ identify(g) = t
    BY <1>7
  <2>7. PICK w \in c.raw : \E u \in DOMAIN Recognised[w] : g = rawTool(w, u)
    BY <1>1, <2>6, FindsBySource
  <2>8. PICK u \in DOMAIN Recognised[w] : g = rawTool(w, u)
    BY <2>7
  <2>9. w \in UNION RawSets
    BY <1>1 DEF Clusters
  <2>10. u = t
    BY <2>6, <2>8, <2>9, RawToolType
  <2>11. w.namespace = watched[i]
    BY <2>3, <2>6, <2>8 DEF Place, rawTool
  <2>12. t \in DOMAIN raw
    BY <2>5, <2>10, <2>11 DEF SeenRaw
  <2>13. raw[t] \in Range(Found(answered)) /\ raw[t].source = "raw" /\ identify(raw[t]) = t
    BY <2>1, <2>12, AllFinds, RawFinds
  <2> QED
    BY <1>3, <1>7, <2>13
<1> QED
  BY <1>1, <1>4, <1>5, <1>6, <1>7, FindsBySource

\* Neither a failing source, nor a change meanwhile, nor the merge hides a tool.
THEOREM MissesNothing == Spec => []NothingMissed
<1>1. IInv => NothingMissed
  <2> SUFFICES ASSUME IInv, Done, \A c, d \in before : Reconciled(c, d), NEW t \in Tools,
                      NEW f \in FindsOf(cluster),
                      \A c \in before : \E g \in FindsOf(c) :
                        Place(g) = Place(f) /\ g.source = f.source /\ identify(g) = t
               PROVE  /\ t \in DOMAIN installed
                      /\ sourceRank[installed[t].source] >= sourceRank[f.source]
    BY DEF NothingMissed
  <2>1. PICK x \in Range(Found(answered)) :
          identify(x) = t /\ sourceRank[x.source] >= sourceRank[f.source]
    BY InstalledFound
  <2>2. t \in DOMAIN installed /\ sourceRank[installed[t].source] >= sourceRank[x.source]
    BY <2>1, RecordOf
  <2>3. t \in DOMAIN installed => installed[t].source \in DOMAIN sourceRank
    <3>1. t \in DOMAIN installed =>
            \E y \in KnownFind : y.source \in DOMAIN sourceRank /\ installed[t] = Identified(y)
      BY RecordOf DEF KnownFind, Find
    <3> QED
      BY <3>1, IdentifiedType
  <2>4. x.source \in DOMAIN sourceRank
    BY AllFinds DEF KnownFind, Find
  <2>5. f.source \in DOMAIN sourceRank
    <3>1. cluster \in Clusters
      BY DEF IInv, BaseInv
    <3> QED
      BY <3>1, FindsBySource DEF sourceRank
  <2>6. \A s \in DOMAIN sourceRank : sourceRank[s] \in Nat
    BY DEF sourceRank
  <2> HIDE DEF sourceRank
  <2> QED
    BY <2>1, <2>2, <2>3, <2>4, <2>5, <2>6
<1> QED
  BY <1>1, Invariant, PTL

\* The version of a completed release is that of one of the two it is made of.
LEMMA CompletedVersion ==
    ASSUME NEW f \in KnownFind, NEW h \in KnownFind, f.images = h.images, NEW t
    PROVE  appVersion(t, CompletedBy(f, h)) \in {appVersion(t, f), appVersion(t, h)}
<1> DEFINE x == CompletedBy(f, h)
<1>1. /\ x.images = f.images
      /\ x.version = (IF f.version = NoVersion THEN h.version ELSE f.version)
      /\ x.chartVersion = (IF f.chartVersion = NoVersion THEN h.chartVersion ELSE f.chartVersion)
  BY CompletedByType
<1> HIDE DEF x
<1>2. appVersion(t, x) \in {appVersion(t, f), appVersion(t, h)}
  <2>1. CASE f.version # NoVersion
    BY <1>1, <2>1 DEF appVersion
  <2>2. CASE f.version = NoVersion /\ h.version # NoVersion
    BY <1>1, <2>2 DEF appVersion
  <2>3. CASE f.version = NoVersion /\ h.version = NoVersion
    BY <1>1, <2>3 DEF appVersion
  <2> QED
    BY <2>1, <2>2, <2>3
<1> QED
  BY <1>2 DEF x

\* The source and the version of a find are those of an object at its place.
LEMMA FindIsOf ==
    ASSUME IInv, NEW t, NEW x \in Range(Found(answered))
    PROVE  LET same == {f \in UNION {FindsOf(c) : c \in before} : Place(f) = Place(x)}
           IN /\ \E f \in same : f.source = x.source
              /\ \E f \in same : appVersion(t, x) = appVersion(t, f)
<1> DEFINE same == {f \in UNION {FindsOf(c) : c \in before} : Place(f) = Place(x)}
<1>1. \A f : (\E c \in before : f \in FindsOf(c)) /\ Place(f) = Place(x) => f \in same
  OBVIOUS
<1> HIDE DEF same
<1>2. ASSUME \E c \in before : x \in FindsOf(c)
      PROVE  /\ \E g \in same : g.source = x.source
             /\ \E g \in same : appVersion(t, x) = appVersion(t, g)
  BY <1>1, <1>2
<1>3. ASSUME NEW f \in Range(flux), x = completed(f)
      PROVE  /\ \E g \in same : g.source = x.source
             /\ \E g \in same : appVersion(t, x) = appVersion(t, g)
  <2>1. /\ f \in KnownFind /\ f.source = "fluxcd" /\ f.images = <<>>
        /\ \E c \in before : f \in FindsOf(c)
    BY FluxFinds
  <2>2. helm \in Seq(KnownFind)
    BY DEF IInv, BaseInv, FindsTyped
  <2>3. CASE completed(f) = f
    BY <1>1, <1>3, <2>1, <2>3
  <2>4. ASSUME NEW h \in Range(helm), Place(h) = Place(f), completed(f) = CompletedBy(f, h)
        PROVE  /\ \E g \in same : g.source = x.source
               /\ \E g \in same : appVersion(t, x) = appVersion(t, g)
    <3>1. h \in KnownFind /\ h.images = <<>> /\ \E c \in before : h \in FindsOf(c)
      BY HelmFinds
    <3>2. x.source = f.source /\ Place(x) = Place(f)
      BY <1>3, <2>1, <2>4, <3>1, CompletedByType
    <3>3. f \in same /\ h \in same
      BY <1>1, <2>1, <2>4, <3>1, <3>2
    <3>4. appVersion(t, x) \in {appVersion(t, f), appVersion(t, h)}
      BY <1>3, <2>1, <2>4, <3>1, CompletedVersion
    <3> QED
      BY <3>2, <3>3, <3>4
  <2> QED
    BY <2>1, <2>2, <2>3, <2>4, CompletedFind
<1>4. \/ \E f \in Range(flux) : x = completed(f)
      \/ \E c \in before : x \in FindsOf(c)
  <2>1. CASE \E i \in DOMAIN helm \ managed : x = helm[i]
    <3>1. x \in Range(helm)
      BY <2>1 DEF Range
    <3> QED
      BY <3>1, HelmFinds
  <2>2. CASE x \in Range(argo)
    BY <2>2, ArgoFinds
  <2>3. CASE "raw" \in answered /\ \E u \in DOMAIN raw : x = raw[u]
    BY <2>3, RawFinds
  <2> QED
    BY <2>1, <2>2, <2>3, AllFinds
<1>5. (\E f \in same : f.source = x.source) /\ (\E f \in same : appVersion(t, x) = appVersion(t, f))
  BY <1>2, <1>3, <1>4
<1> QED
  BY <1>5 DEF same

\* Every record is that of an installation there was during the scan.
THEOREM InventsNothing == Spec => []NothingInvented
<1>1. IInv => NothingInvented
  <2> SUFFICES ASSUME IInv, Done, NEW t \in DOMAIN installed
               PROVE  LET record == installed[t]
                          same == {f \in UNION {FindsOf(c) : c \in before} :
                                     Place(f) = Place(record)}
                      IN /\ \E f \in same : f.source = record.source
                         /\ record.version \in {NoVersion} \union {appVersion(t, f) : f \in same}
    BY DEF NothingInvented
  <2>1. PICK x \in Range(Found(answered)) :
          x \in KnownFind /\ identify(x) = t /\ installed[t] = Identified(x)
    BY RecordOf
  <2>2. /\ installed[t].source = x.source /\ Place(installed[t]) = Place(x)
        /\ installed[t].version = appVersion(t, x)
    BY <2>1, IdentifiedType
  <2> DEFINE same == {f \in UNION {FindsOf(c) : c \in before} : Place(f) = Place(x)}
  <2>3. /\ \E f \in same : f.source = x.source
        /\ \E f \in same : appVersion(t, x) = appVersion(t, f)
    BY FindIsOf
  <2>4. same = {f \in UNION {FindsOf(c) : c \in before} : Place(f) = Place(installed[t])}
    BY <2>2
  <2> HIDE DEF same
  <2> QED
    BY <2>2, <2>3, <2>4
<1> QED
  BY <1>1, Invariant, PTL

\* A version that can be compared is not hidden by a record without one.
THEOREM KeepsComparableVersions == Spec => []ComparableVersionKept
<1>1. IInv => ComparableVersionKept
  <2> SUFFICES ASSUME IInv, Done, NEW t \in DOMAIN installed,
                      NEW f \in Range(Found(answered)), identify(f) = t,
                      sourceRank[f.source] = sourceRank[installed[t].source],
                      appVersion(t, f) \in Versions
               PROVE  installed[t].version \in Versions
    BY DEF ComparableVersionKept
  <2>1. PICK x \in Range(Found(answered)) :
          /\ x \in KnownFind /\ identify(x) = t /\ installed[t] = Identified(x)
          /\ ~preferred(Identified(f), Identified(x))
    BY RecordOf
  <2>2. f \in KnownFind
    BY AllFinds
  <2>3. Identified(f).source = f.source /\ Identified(f).version = appVersion(t, f)
    BY <2>2, IdentifiedType
  <2> QED
    BY <2>1, <2>3 DEF preferred
<1> QED
  BY <1>1, Invariant, PTL

\* A workload that shows a version is not hidden by one that shows none.
THEOREM KeepsDetectedVersions == Spec => []DetectedVersionKept
<1>1. IInv => DetectedVersionKept
  <2> SUFFICES ASSUME IInv, Done, NEW w, NEW t \in Tools, w.namespace \in Range(watched),
                      \A c \in before : w \in c.raw,
                      t \in DOMAIN Recognised[w], Recognised[w][t] \in Versions
               PROVE  raw[t].version \in Versions
    BY DEF DetectedVersionKept
  <2>1. PICK i \in DOMAIN watched : w.namespace = watched[i]
    BY DEF Range
  <2>2. i \in 1..(at - 1)
    <3>1. watched \in Seq(Namespaces) /\ at \in 1..(Len(watched) + 1) /\ at > Len(watched)
      BY SourcesAssumption DEF IInv, BaseInv, RawInv, Done
    <3> QED
      BY <3>1
  <2>3. PICK c \in before : SeenRaw(c, i)
    BY <2>2 DEF IInv, RawInv, Done
  <2> QED
    BY <2>1, <2>3 DEF SeenRaw
<1> QED
  BY <1>1, Invariant, PTL

\* A failed upgrade is not read as what is installed.
THEOREM ReadsDeployedVersions == Spec => []DeployedVersionRead
<1>1. IInv => DeployedVersionRead
  <2> SUFFICES ASSUME IInv, NEW o \in Range(cluster.flux),
                      {s \in Range(o.history) : s.deployed} # {}
               PROVE  \E s \in {r \in Range(o.history) : r.deployed} :
                        /\ \A r \in {r \in Range(o.history) : r.deployed} : r.version <= s.version
                        /\ <<fluxTool(o).name, fluxTool(o).version>> = <<s.chart, s.app>>
    BY DEF DeployedVersionRead
  <2>1. o \in HelmRelease
    BY SourcesAssumption DEF IInv, BaseInv, Clusters, Range
  <2>2. o.history \in Seq(Snapshot)
    BY <2>1 DEF HelmRelease
  <2> DEFINE history == o.history
  <2>3. history \in Seq(Snapshot) /\ history # <<>>
    BY <2>2 DEF Range
  <2>4. PICK i \in DOMAIN history :
          /\ latestDeployedSnapshot(history) = history[i]
          /\ \A j \in DOMAIN history : ~Supersedes(history[j], history[i])
    BY <2>3, SnapshotThatCounts
  <2>5. \A j \in DOMAIN history : history[j].version \in Nat /\ history[j].deployed \in BOOLEAN
    <3>1. \A j \in DOMAIN history : history[j] \in Snapshot
      BY <2>3
    <3> QED
      BY <3>1 DEF Snapshot
  <2>6. <<fluxTool(o).name, fluxTool(o).version>> = <<history[i].chart, history[i].app>>
    BY <2>3, <2>4 DEF fluxTool
  <2>7. PICK d \in DOMAIN history : history[d].deployed
    BY DEF Range
  <2> HIDE DEF history
  <2>8. history[i].deployed
    BY <2>4, <2>5, <2>7 DEF Supersedes
  <2>9. ASSUME NEW j \in DOMAIN history, history[j].deployed
        PROVE  history[j].version <= history[i].version
    <3>1. history[j].deployed = TRUE /\ history[i].deployed = TRUE
      BY <2>5, <2>8, <2>9
    <3> QED
      BY <2>4, <2>5, <3>1 DEF Supersedes
  <2> QED
    BY <2>6, <2>8, <2>9 DEF history, Range
<1> QED
  BY <1>1, Invariant, PTL

\* A release that Flux manages is reported once.
THEOREM ReportsFluxReleasesOnce == Spec => []FluxReleasesOnce
<1>1. IInv => FluxReleasesOnce
  <2> SUFFICES ASSUME IInv, IsInjective(watched), NEW f \in Range(ScanAll), NEW h \in Range(ScanAll),
                      f.source = "fluxcd", h.source = "helm", Key(f) = Key(h)
               PROVE  FALSE
    BY DEF FluxReleasesOnce
  <2>1. FindsTyped /\ helm \in Seq(KnownFind)
    BY DEF IInv, BaseInv, FindsTyped
  <2>2. Range(ScanAll) = {completed(k) : k \in Range(flux)}
                         \union {helm[i] : i \in DOMAIN helm \ managed} \union Range(argo)
    BY <2>1, ScanAllRange
  <2>3. \A k \in Range(flux) : completed(k).source = "fluxcd" /\ Key(completed(k)) = Key(k)
    <3> SUFFICES ASSUME NEW k \in Range(flux)
                 PROVE  completed(k).source = "fluxcd" /\ Key(completed(k)) = Key(k)
      OBVIOUS
    <3>1. k \in KnownFind /\ k.source = "fluxcd"
      BY FluxFinds
    <3>2. \A g \in Range(helm) : g \in KnownFind
      BY HelmFinds
    <3> QED
      BY <2>1, <3>1, <3>2, CompletedFind, CompletedByType DEF Key, Place
  <2>4. \A i \in DOMAIN helm : helm[i].source = "helm"
    BY HelmFinds DEF Range
  <2>5. \A g \in Range(argo) : g.source = "argocd"
    BY ArgoFinds
  <2>6. PICK k \in Range(flux) : f = completed(k)
    BY <2>2, <2>4, <2>5
  <2>7. PICK i \in DOMAIN helm \ managed : h = helm[i]
    BY <2>2, <2>3, <2>5
  <2>8. Key(k) = Key(helm[i])
    BY <2>3, <2>6, <2>7
  <2>9. Key(k) \in DOMAIN byRelease
    BY <2>1, <2>8, ByRelease DEF Key, Place
  <2>10. byRelease[Key(k)] \in DOMAIN helm /\ Place(helm[byRelease[Key(k)]]) = Place(helm[i])
    BY <2>1, <2>8, <2>9, ByRelease DEF Key, Place
  <2>11. byRelease[Key(k)] = i
    BY <2>10 DEF IInv, HelmInv
  <2>12. byRelease[Key(k)] \in managed
    BY <2>9 DEF managed
  <2> QED
    BY <2>7, <2>11, <2>12
<1> QED
  BY <1>1, Invariant, PTL

\* What an image reference was put together from is read back, whatever
\* registry, port, tag or digest it has: splitImage, imageMatches and
\* CleanVersion take it apart where it was joined.
THEOREM ReadsImagesBack == Spec => []ImagesReadBack
<1>1. ImagesReadBack
  BY ReadBackHolds DEF ImagesReadBack
<1> QED
  BY <1>1, PTL
=============================================================================
