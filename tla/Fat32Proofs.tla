---------------------------- MODULE Fat32Proofs -----------------------------
(***************************************************************************)
(* Proofs about Fat32 for every number of clusters and descriptors, every  *)
(* set of names, and any sequence of calls that is made as calls are meant *)
(* to be.                                                                  *)
(***************************************************************************)
EXTENDS FatListing, FiniteSetTheorems, SequenceTheorems, WellFoundedInduction, TLAPS

(***************************************************************************)
(* Induction, and functions defined by recursion.                          *)
(***************************************************************************)

\* A set of naturals that is not empty has a least element.
LEMMA LeastElement ==
    ASSUME NEW T, T \subseteq Nat, T # {}
    PROVE  \E m \in T : \A k \in T : m <= k
<1>1. IsWellFoundedOn(OpToRel(<, Nat), Nat)
  BY NatLessThanWellFounded, Zenon
<1>2. PICK m \in T : \A k \in T : ~ (<<k, m>> \in OpToRel(<, Nat))
  BY <1>1, WFMin, Zenon
<1>3. ASSUME NEW k \in T PROVE m <= k
  <2>1. ~ (<<k, m>> \in {ss \in Nat \X Nat : ss[1] < ss[2]})
    BY <1>2 DEF OpToRel
  <2>2. QED
    BY <2>1
<1>4. QED
  BY <1>3

\* A set that has 0, and with every number the next, has all up to n.
LEMMA SetInduction ==
    ASSUME NEW n \in Nat, NEW T, 0 \in T, \A k \in 0 .. n - 1 : k \in T => k + 1 \in T
    PROVE  \A k \in 0 .. n : k \in T
<1> DEFINE Out == {k \in 0 .. n : k \notin T}
<1> SUFFICES ASSUME Out # {} PROVE FALSE
  OBVIOUS
<1>1. PICK m \in Out : \A k \in Out : m <= k
  <2>1. Out \subseteq Nat
    OBVIOUS
  <2> HIDE DEF Out
  <2>2. QED
    BY <2>1, LeastElement
<1>2. m \in 0 .. n /\ m \notin T /\ m # 0
  OBVIOUS
<1>3. PICK k \in 0 .. n - 1 : k + 1 = m
  <2>1. m - 1 \in 0 .. n - 1 /\ (m - 1) + 1 = m
    BY <1>2
  <2>2. QED
    BY <2>1
<1>4. k \notin T
  BY <1>2, <1>3
<1>5. QED
  BY <1>1, <1>3, <1>4

\* The function g on 0 .. n starts with first and goes on by step.
Iterates(g, S, first, n, step) ==
    /\ g \in [0 .. n -> S]
    /\ g[0] = first
    /\ \A i \in 1 .. n : g[i] = step[<<i, g[i - 1]>>]

\* There is a function for every recursion over 0 .. n.
LEMMA Iteration ==
    ASSUME NEW S, NEW first \in S, NEW n \in Nat, NEW step \in [(1 .. n) \X S -> S]
    PROVE  \E g : Iterates(g, S, first, n, step)
<1> DEFINE Good(k, g) == g[0] = first /\ \A i \in 1 .. k : g[i] = step[<<i, g[i - 1]>>]
           T == {k \in 0 .. n : \E g \in [0 .. k -> S] : Good(k, g)}
<1>1. 0 \in T
  <2>1. PICK g : g = [i \in 0 .. 0 |-> first]
    OBVIOUS
  <2>2. g \in [0 .. 0 -> S] /\ g[0] = first
    BY <2>1
  <2>3. Good(0, g)
    BY <2>2
  <2>4. 0 \in 0 .. n
    OBVIOUS
  <2> HIDE DEF Good
  <2>5. QED
    BY <2>2, <2>3, <2>4
<1>2. ASSUME NEW k \in 0 .. n - 1, k \in T PROVE k + 1 \in T
  <2>1. PICK g \in [0 .. k -> S] : Good(k, g)
    BY <1>2
  <2>2. PICK e \in S : e = step[<<k + 1, g[k]>>]
    <3>1. k + 1 \in 1 .. n /\ g[k] \in S
      OBVIOUS
    <3>2. QED
      BY <3>1
  <2>3. PICK h : h = [i \in 0 .. k + 1 |-> IF i <= k THEN g[i] ELSE e]
    OBVIOUS
  <2>4. h \in [0 .. k + 1 -> S]
    BY <2>3
  <2>5. /\ \A i \in 0 .. k : h[i] = g[i]
        /\ h[k + 1] = e
    BY <2>3
  <2>6. h[0] = first
    BY <2>1, <2>5
  <2>7. ASSUME NEW i \in 1 .. k + 1 PROVE h[i] = step[<<i, h[i - 1]>>]
    <3>1. i - 1 \in 0 .. k /\ h[i - 1] = g[i - 1]
      BY <2>5
    <3>2. CASE i \in 1 .. k
      <4>1. h[i] = g[i] /\ g[i] = step[<<i, g[i - 1]>>]
        BY <2>1, <2>5, <3>2
      <4>2. QED
        BY <3>1, <4>1
    <3>3. CASE i = k + 1
      <4>1. i - 1 = k /\ h[i] = e
        BY <2>5, <3>3
      <4>2. QED
        BY <2>2, <3>1, <3>3, <4>1
    <3>4. QED
      BY <3>2, <3>3
  <2>8. Good(k + 1, h)
    BY <2>6, <2>7
  <2>9. k + 1 \in 0 .. n
    OBVIOUS
  <2> HIDE DEF Good
  <2>10. QED
    BY <2>4, <2>8, <2>9
<1>3. \A k \in 0 .. n : k \in T
  <2> HIDE DEF T
  <2>1. QED
    BY <1>1, <1>2, SetInduction
<1>4. QED
  BY <1>3 DEF Iterates

(***************************************************************************)
(* Clusters and walks.                                                     *)
(***************************************************************************)

Table == [Cluster -> Cluster \cup {FREE, EOC}]

\* The marks of the table are no clusters.
LEMMA Clusters ==
    /\ TotalClusters \in Nat /\ TotalClusters >= 1
    /\ Cluster \subseteq Nat /\ Root \in Cluster
    /\ FREE \notin Cluster /\ EOC \notin Cluster /\ 0 \notin Cluster /\ FREE # EOC
<1>1. TotalClusters \in Nat /\ TotalClusters >= 1 /\ TotalClusters + 1 < 268435447
  <2>1. TotalClusters \in Nat \ {0} /\ TotalClusters + 1 < 268435447
    BY ONLY FatAssumption, SMT
  <2>2. QED
    BY ONLY <2>1, SMT
<1>2. /\ TotalClusters \in Nat /\ TotalClusters >= 1
      /\ Cluster \subseteq Nat /\ Root \in Cluster
      /\ 0 \notin Cluster
  BY <1>1, SMT DEF Cluster, Root
<1>3. EOC \notin Cluster
  BY <1>1, SMT DEF Cluster, EOC
<1>4. FREE # EOC /\ FREE = 0
  BY SMT DEF FREE, EOC
<1>5. QED
  BY <1>2, <1>3, <1>4

\* w is the chain from c on, as far as a loop over the table goes.
IsWalk(f, c, w) ==
    /\ w \in Seq(Cluster)
    /\ c \notin Cluster => w = << >>
    /\ c \in Cluster => Len(w) >= 1 /\ w[1] = c
    /\ \A k \in 1 .. Len(w) - 1 : w[k + 1] = f[w[k]]

\* What one turn of the loop adds.
WalkStep(f, c, w) ==
    LET d == IF w = << >> THEN c ELSE f[w[Len(w)]]
    IN  IF d \in Cluster THEN Append(w, d) ELSE w

LEMMA WalkStepIs ==
    ASSUME NEW f \in Table, NEW c, NEW w \in Seq(Cluster),
           w # << >> \/ c \notin Cluster => IsWalk(f, c, w)
    PROVE  IsWalk(f, c, WalkStep(f, c, w))
<1>1. CASE w = << >>
  <2>1. CASE c \in Cluster
    <3>1. PICK v \in Seq(Cluster) : v = Append(w, c)
      BY <2>1, AppendProperties, Zenon
    <3>2. WalkStep(f, c, w) = v
      BY <1>1, <2>1, <3>1 DEF WalkStep
    <3>3. Len(v) = 1 /\ v[1] = c
      BY <1>1, <3>1
    <3>4. QED
      BY <2>1, <3>2, <3>3 DEF IsWalk
  <2>2. CASE c \notin Cluster
    BY <1>1, <2>2 DEF WalkStep
  <2>3. QED
    BY <2>1, <2>2
<1>2. CASE w # << >>
  <2>1. PICK d : d = f[w[Len(w)]]
    OBVIOUS
  <2>2. CASE d \in Cluster
    <3>1. PICK v \in Seq(Cluster) : v = Append(w, d)
      BY <2>2, AppendProperties, Zenon
    <3>2. WalkStep(f, c, w) = v
      BY <1>2, <2>1, <2>2, <3>1 DEF WalkStep
    <3>3. /\ Len(v) = Len(w) + 1 /\ Len(w) \in Nat /\ Len(w) >= 1
          /\ v[Len(w) + 1] = d /\ \A k \in 1 .. Len(w) : v[k] = w[k]
      BY <1>2, <3>1
    <3>4. IsWalk(f, c, w)
      BY <1>2
    <3>5. ASSUME NEW k \in 1 .. Len(v) - 1 PROVE v[k + 1] = f[v[k]]
      <4>1. CASE k = Len(w)
        BY <2>1, <3>3, <4>1
      <4>2. CASE k # Len(w)
        <5>1. k \in 1 .. Len(w) - 1 /\ k \in 1 .. Len(w) /\ k + 1 \in 1 .. Len(w)
          BY <3>3, <4>2
        <5>2. w[k + 1] = f[w[k]]
          BY <3>4, <5>1 DEF IsWalk
        <5>3. QED
          BY <3>3, <5>1, <5>2
      <4>3. QED
        BY <4>1, <4>2
    <3>6. c \in Cluster /\ v[1] = c
      BY <1>2, <3>3, <3>4 DEF IsWalk
    <3>7. QED
      BY <3>2, <3>3, <3>5, <3>6 DEF IsWalk
  <2>3. CASE d \notin Cluster
    BY <1>2, <2>1, <2>3 DEF WalkStep
  <2>4. QED
    BY <2>2, <2>3
<1>3. QED
  BY <1>1, <1>2

\* The recursion of Walk: its value after every turn.
Turns(f, c) ==
    CHOOSE walk : walk = [k \in 0 .. TotalClusters |->
        IF k = 0 THEN << >>
        ELSE LET w == walk[k - 1]
                 d == IF w = << >> THEN c ELSE f[w[Len(w)]]
             IN  IF d \in Cluster THEN Append(w, d) ELSE w]

LEMMA WalkTurns == \A f, c : Walk(f, c) = Turns(f, c)[TotalClusters]
BY DEF Walk, Turns

\* Every turn does what WalkStep says.
LEMMA TurnsStep ==
    ASSUME NEW f \in Table, NEW c
    PROVE  /\ Turns(f, c)[0] = << >>
           /\ \A k \in 1 .. TotalClusters : Turns(f, c)[k] = WalkStep(f, c, Turns(f, c)[k - 1])
<1> DEFINE n == TotalClusters
           step == [p \in (1 .. n) \X Seq(Cluster) |-> WalkStep(f, c, p[2])]
           Body(g) == [k \in 0 .. n |->
                          IF k = 0 THEN << >>
                          ELSE LET w == g[k - 1]
                                   d == IF w = << >> THEN c ELSE f[w[Len(w)]]
                               IN  IF d \in Cluster THEN Append(w, d) ELSE w]
<1>1. n \in Nat /\ n >= 1 /\ << >> \in Seq(Cluster)
  BY Clusters
<1>2. \A w \in Seq(Cluster) : WalkStep(f, c, w) \in Seq(Cluster)
  BY DEF WalkStep
<1>3. step \in [(1 .. n) \X Seq(Cluster) -> Seq(Cluster)]
  BY <1>2
<1>4. PICK g \in [0 .. n -> Seq(Cluster)] :
         g[0] = << >> /\ \A k \in 1 .. n : g[k] = step[<<k, g[k - 1]>>]
  <2> HIDE DEF step, n
  <2>1. \E g : Iterates(g, Seq(Cluster), << >>, n, step)
    BY <1>1, <1>3, Iteration
  <2>2. QED
    BY <2>1 DEF Iterates
<1>5. \A k \in 1 .. n : g[k] = WalkStep(f, c, g[k - 1])
  <2>1. ASSUME NEW k \in 1 .. n PROVE g[k] = WalkStep(f, c, g[k - 1])
    <3>1. k - 1 \in 0 .. n /\ g[k - 1] \in Seq(Cluster)
      BY <1>1
    <3>2. step[<<k, g[k - 1]>>] = WalkStep(f, c, g[k - 1])
      BY <3>1
    <3>3. QED
      BY <1>4, <3>2
  <2>2. QED
    BY <2>1
<1>6. g = Body(g)
  <2>1. ASSUME NEW k \in 0 .. n PROVE g[k] = Body(g)[k]
    <3>1. CASE k = 0
      BY <1>4, <3>1
    <3>2. CASE k # 0
      <4>1. k \in 1 .. n
        BY <1>1, <3>2
      <4>2. g[k] = WalkStep(f, c, g[k - 1])
        BY <1>5, <4>1
      <4>3. QED
        BY <3>2, <4>2 DEF WalkStep
    <3>3. QED
      BY <3>1, <3>2
  <2>2. QED
    BY <2>1
<1>7. Turns(f, c) = Body(Turns(f, c))
  BY <1>6 DEF Turns
<1>8. PICK u : u = Turns(f, c) /\ u = Body(u)
  BY <1>7
<1>9. u[0] = << >>
  BY <1>1, <1>8
<1>10. \A k \in 1 .. n : u[k] = WalkStep(f, c, u[k - 1])
  <2>1. ASSUME NEW k \in 1 .. n PROVE u[k] = WalkStep(f, c, u[k - 1])
    <3>1. k \in 0 .. n /\ k # 0
      BY <1>1
    <3>2. Body(u)[k] = WalkStep(f, c, u[k - 1])
      BY <3>1 DEF WalkStep
    <3> HIDE DEF Body
    <3>3. QED
      BY <1>8, <3>2
  <2>2. QED
    BY <2>1
<1>11. QED
  BY <1>8, <1>9, <1>10

\* After every turn there is a chain.
LEMMA TurnsAreWalks ==
    ASSUME NEW f \in Table, NEW c
    PROVE  /\ \A k \in 0 .. TotalClusters : Turns(f, c)[k] \in Seq(Cluster)
           /\ \A k \in 1 .. TotalClusters : IsWalk(f, c, Turns(f, c)[k])
<1>1. PICK u : u = Turns(f, c)
  OBVIOUS
<1>2. /\ u[0] = << >>
      /\ \A k \in 1 .. TotalClusters : u[k] = WalkStep(f, c, u[k - 1])
  BY <1>1, TurnsStep
<1> DEFINE n == TotalClusters
           T == {k \in 0 .. n : u[k] \in Seq(Cluster) /\ (k # 0 => IsWalk(f, c, u[k]))}
<1>3. n \in Nat
  BY Clusters
<1>4. 0 \in T
  <2>1. << >> \in Seq(Cluster) /\ 0 \in 0 .. n
    BY <1>3
  <2>2. QED
    BY <1>2, <2>1
<1>5. ASSUME NEW k \in 0 .. n - 1, k \in T PROVE k + 1 \in T
  <2>1. k + 1 \in 1 .. n /\ k + 1 \in 0 .. n /\ (k + 1) - 1 = k
    BY <1>3
  <2>2. u[k + 1] = WalkStep(f, c, u[k])
    BY <1>2, <2>1
  <2>3. /\ u[k] \in Seq(Cluster)
        /\ u[k] # << >> \/ c \notin Cluster => IsWalk(f, c, u[k])
    <3>1. CASE k = 0
      <4>1. c \notin Cluster => IsWalk(f, c, << >>)
        BY DEF IsWalk
      <4>2. QED
        BY <1>2, <1>5, <3>1, <4>1
    <3>2. CASE k # 0
      BY <1>5, <3>2
    <3>3. QED
      BY <3>1, <3>2
  <2>4. IsWalk(f, c, u[k + 1])
    BY <2>2, <2>3, WalkStepIs
  <2>5. QED
    BY <2>1, <2>4 DEF IsWalk
<1>6. \A k \in 0 .. n : k \in T
  <2> HIDE DEF T
  <2>1. QED
    BY <1>3, <1>4, <1>5, SetInduction
<1>7. QED
  BY <1>1, <1>3, <1>6

\* Walk is a chain.
LEMMA WalkIs ==
    ASSUME NEW f \in Table, NEW c
    PROVE  IsWalk(f, c, Walk(f, c))
<1>1. TotalClusters \in 1 .. TotalClusters
  BY Clusters
<1>2. QED
  BY <1>1, WalkTurns, TurnsAreWalks

\* No link leads to c.
NoLinkTo(f, c) == \A d \in Cluster : f[d] # c

\* No two links lead to the same cluster, and none to a free one.
Links(f) ==
    /\ f \in Table
    /\ \A c, d \in Cluster : f[c] = f[d] /\ f[c] \in Cluster => c = d
    /\ \A c \in Cluster : f[c] \in Cluster => f[f[c]] # FREE

\* The clusters of a chain: the first, and those the links of others lead to.
LEMMA ChainIs ==
    ASSUME NEW f \in Table, NEW c
    PROVE  /\ Chain(f, c) \subseteq Cluster
           /\ c \in Cluster => c \in Chain(f, c)
           /\ c \notin Cluster => Chain(f, c) = {}
           /\ \A d \in Chain(f, c) : d = c \/ \E e \in Chain(f, c) : f[e] = d
<1>1. PICK w : w = Walk(f, c) /\ IsWalk(f, c, w)
  BY WalkIs
<1>2. w \in Seq(Cluster) /\ Len(w) \in Nat /\ \A k \in 1 .. Len(w) : w[k] \in Cluster
  BY <1>1 DEF IsWalk
<1>3. Chain(f, c) = {w[k] : k \in 1 .. Len(w)}
  BY <1>1 DEF Chain
<1>4. c \in Cluster => c \in Chain(f, c)
  <2>1. c \in Cluster => 1 \in 1 .. Len(w) /\ w[1] = c
    BY <1>1, <1>2 DEF IsWalk
  <2>2. QED
    BY <1>3, <2>1
<1>5. c \notin Cluster => Chain(f, c) = {}
  <2>1. c \notin Cluster => Len(w) = 0
    BY <1>1, <1>2 DEF IsWalk
  <2>2. QED
    BY <1>3, <2>1
<1>6. ASSUME NEW d \in Chain(f, c), d # c PROVE \E e \in Chain(f, c) : f[e] = d
  <2>1. PICK k \in 1 .. Len(w) : w[k] = d
    BY <1>3, <1>6
  <2>2. k # 1
    <3>1. c \in Cluster
      BY <1>5, <1>6
    <3>2. QED
      BY <1>1, <1>6, <2>1, <3>1 DEF IsWalk
  <2>3. PICK j \in 1 .. Len(w) - 1 : j + 1 = k
    <3>1. k - 1 \in 1 .. Len(w) - 1 /\ (k - 1) + 1 = k
      BY <1>2, <2>2
    <3>2. QED
      BY <3>1
  <2>4. f[w[j]] = d
    BY <1>1, <2>1, <2>3 DEF IsWalk
  <2>5. j \in 1 .. Len(w)
    BY <1>2
  <2>6. QED
    BY <1>3, <2>4, <2>5
<1>7. QED
  BY <1>2, <1>3, <1>4, <1>5, <1>6

\* A set that has the first cluster, and with every cluster the next, has them all.
LEMMA ChainStays ==
    ASSUME NEW f \in Table, NEW c, NEW T, c \in Cluster => c \in T,
           \A d \in Cluster : d \in T /\ f[d] \in Cluster => f[d] \in T
    PROVE  Chain(f, c) \subseteq T
<1>1. PICK w : w = Walk(f, c) /\ IsWalk(f, c, w)
  BY WalkIs
<1>2. w \in Seq(Cluster) /\ Len(w) \in Nat /\ \A k \in 1 .. Len(w) : w[k] \in Cluster
  BY <1>1 DEF IsWalk
<1>3. c \notin Cluster => Len(w) = 0
  BY <1>1 DEF IsWalk
<1> DEFINE n == Len(w)
           S == {k \in 0 .. n : k # 0 => w[k] \in T}
<1>4. 0 \in S
  BY <1>2
<1>5. ASSUME NEW k \in 0 .. n - 1, k \in S PROVE k + 1 \in S
  <2>1. k + 1 \in 1 .. n /\ k + 1 \in 0 .. n /\ w[k + 1] \in Cluster
    BY <1>2
  <2>2. CASE k = 0
    <3>1. c \in Cluster
      BY <1>3, <2>1
    <3>2. w[k + 1] = c
      BY <1>1, <2>2, <3>1 DEF IsWalk
    <3>3. QED
      BY <2>1, <3>1, <3>2
  <2>3. CASE k # 0
    <3>1. k \in 1 .. n - 1 /\ k \in 1 .. n /\ w[k] \in T
      BY <1>2, <1>5, <2>3
    <3>2. w[k + 1] = f[w[k]]
      BY <1>1, <3>1 DEF IsWalk
    <3>3. w[k + 1] \in T
      BY <1>2, <2>1, <3>1, <3>2
    <3>4. QED
      BY <2>1, <3>3
  <2>4. QED
    BY <2>2, <2>3
<1>6. \A k \in 0 .. n : k \in S
  <2> HIDE DEF S
  <2>1. n \in Nat
    BY <1>2
  <2> HIDE DEF n
  <2>2. QED
    BY <1>4, <1>5, <2>1, SetInduction
<1>7. \A k \in 1 .. n : w[k] \in T
  BY <1>2, <1>6
<1>8. QED
  BY <1>1, <1>7 DEF Chain

\* Chains that start at different clusters no link leads to share nothing.
LEMMA ChainsApart ==
    ASSUME NEW f, Links(f), NEW c, NEW d, c # d, NoLinkTo(f, c), NoLinkTo(f, d)
    PROVE  Chain(f, c) \cap Chain(f, d) = {}
<1> DEFINE T == Cluster \ Chain(f, d)
<1>1. f \in Table
  BY DEF Links
<1>2. /\ Chain(f, c) \subseteq Cluster
      /\ \A e \in Chain(f, d) : e = d \/ \E x \in Chain(f, d) : f[x] = e
      /\ Chain(f, d) \subseteq Cluster
  BY <1>1, ChainIs
<1>3. c \in Cluster => c \in T
  BY <1>2 DEF NoLinkTo
<1>4. ASSUME NEW e \in Cluster, e \in T, f[e] \in Cluster PROVE f[e] \in T
  <2>1. SUFFICES ASSUME f[e] \in Chain(f, d) PROVE FALSE
    BY <1>4
  <2>2. f[e] # d
    BY DEF NoLinkTo
  <2>3. PICK x \in Chain(f, d) : f[x] = f[e]
    BY <1>2, <2>1, <2>2
  <2>4. x = e
    BY <1>2, <1>4, <2>3 DEF Links
  <2>5. QED
    BY <1>4, <2>3, <2>4
<1>5. Chain(f, c) \subseteq T
  <2> HIDE DEF T
  <2>1. QED
    BY <1>1, <1>3, <1>4, ChainStays
<1>6. QED
  BY <1>5

\* A cluster no link leads to is in no chain but its own.
LEMMA HeadAlone ==
    ASSUME NEW f \in Table, NEW c, NEW d, c # d, NoLinkTo(f, d)
    PROVE  d \notin Chain(f, c)
BY ChainIs DEF NoLinkTo

\* A link into a chain comes from the chain, unless it leads to its head.
LEMMA LinkFromChain ==
    ASSUME NEW f, Links(f), NEW c, NoLinkTo(f, c), NEW d \in Cluster, f[d] \in Chain(f, c)
    PROVE  d \in Chain(f, c)
<1>1. f \in Table
  BY DEF Links
<1>2. f[d] # c
  BY DEF NoLinkTo
<1>3. PICK e \in Chain(f, c) : f[e] = f[d]
  BY <1>1, <1>2, ChainIs
<1>4. e \in Cluster /\ f[d] \in Cluster
  BY <1>1, ChainIs
<1>5. e = d
  BY <1>3, <1>4 DEF Links
<1>6. QED
  BY <1>5

\* The turns of a walk only add to it.
LEMMA TurnsGrow ==
    ASSUME NEW f \in Table, NEW c, NEW k \in 0 .. TotalClusters
    PROVE  \A i \in 1 .. Len(Turns(f, c)[k]) : Turns(f, c)[k][i] \in Chain(f, c)
<1>1. PICK u : u = Turns(f, c)
  OBVIOUS
<1> DEFINE n == TotalClusters
           In(s) == {s[i] : i \in 1 .. Len(s)}
           T == {j \in 0 .. n : In(u[n - j]) \subseteq Chain(f, c)}
<1>2. n \in Nat
  BY Clusters
<1>3. \A j \in 0 .. n : u[j] \in Seq(Cluster)
  BY <1>1, TurnsAreWalks
<1>4. 0 \in T
  BY <1>1, <1>2, WalkTurns DEF Chain
<1>5. ASSUME NEW j \in 0 .. n - 1, j \in T PROVE j + 1 \in T
  <2>1. PICK s \in Seq(Cluster) : s = u[n - (j + 1)]
    BY <1>2, <1>3
  <2>2. u[n - j] = WalkStep(f, c, s)
    <3>1. n - j \in 1 .. n /\ (n - j) - 1 = n - (j + 1)
      BY <1>2
    <3>2. QED
      BY <1>1, <2>1, <3>1, TurnsStep
  <2>3. ASSUME NEW i \in 1 .. Len(s) PROVE i \in 1 .. Len(u[n - j]) /\ u[n - j][i] = s[i]
    <3>1. PICK d : d = IF s = << >> THEN c ELSE f[s[Len(s)]]
      OBVIOUS
    <3>2. CASE d \in Cluster
      <4>1. PICK v \in Seq(Cluster) : v = Append(s, d)
        BY <3>2, AppendProperties, Zenon
      <4>2. u[n - j] = v
        BY <2>2, <3>1, <3>2, <4>1 DEF WalkStep
      <4>3. QED
        BY <4>1, <4>2
    <3>3. CASE d \notin Cluster
      BY <2>2, <3>1, <3>3 DEF WalkStep
    <3>4. QED
      BY <3>2, <3>3
  <2>4. In(s) \subseteq Chain(f, c)
    BY <1>5, <2>3
  <2>5. QED
    BY <1>2, <2>1, <2>4
<1>6. \A j \in 0 .. n : j \in T
  <2> HIDE DEF T, n
  <2>1. QED
    BY <1>2, <1>4, <1>5, SetInduction
<1>7. n - k \in 0 .. n /\ n - (n - k) = k
  BY <1>2
<1>8. QED
  BY <1>1, <1>6, <1>7

\* Where two tables agree on a chain, the chain is the same in both.
LEMMA SameWalk ==
    ASSUME NEW f \in Table, NEW g \in Table, NEW c, \A d \in Chain(f, c) : g[d] = f[d]
    PROVE  Walk(g, c) = Walk(f, c) /\ Chain(g, c) = Chain(f, c)
<1>1. PICK u, v : u = Turns(f, c) /\ v = Turns(g, c)
  OBVIOUS
<1> DEFINE n == TotalClusters
           T == {k \in 0 .. n : v[k] = u[k]}
<1>2. n \in Nat
  BY Clusters
<1>3. 0 \in T
  BY <1>1, <1>2, TurnsStep
<1>4. ASSUME NEW k \in 0 .. n - 1, k \in T PROVE k + 1 \in T
  <2>1. k + 1 \in 1 .. n /\ k + 1 \in 0 .. n /\ (k + 1) - 1 = k /\ k \in 0 .. n
    BY <1>2
  <2>2. v[k + 1] = WalkStep(g, c, v[k]) /\ u[k + 1] = WalkStep(f, c, u[k])
    BY <1>1, <2>1, TurnsStep
  <2>3. PICK s \in Seq(Cluster) : s = u[k] /\ s = v[k]
    BY <1>1, <1>4, <2>1, TurnsAreWalks
  <2>4. \A i \in 1 .. Len(s) : s[i] \in Chain(f, c)
    BY <1>1, <2>1, <2>3, TurnsGrow
  <2>5. s # << >> => g[s[Len(s)]] = f[s[Len(s)]]
    <3>1. s # << >> => Len(s) \in 1 .. Len(s)
      OBVIOUS
    <3>2. QED
      BY <2>4, <3>1
  <2>6. WalkStep(g, c, s) = WalkStep(f, c, s)
    BY <2>5 DEF WalkStep
  <2>7. QED
    BY <2>1, <2>2, <2>3, <2>6
<1>5. \A k \in 0 .. n : k \in T
  <2> HIDE DEF T, n
  <2>1. QED
    BY <1>2, <1>3, <1>4, SetInduction
<1>6. v[n] = u[n]
  BY <1>2, <1>5
<1>7. Walk(g, c) = Walk(f, c)
  BY <1>1, <1>6, WalkTurns
<1>8. QED
  BY <1>7 DEF Chain

(***************************************************************************)
(* What allocating and freeing does to the table.                          *)
(***************************************************************************)

\* A list of different clusters.
Distinct(w) == \A i, j \in 1 .. Len(w) : w[i] = w[j] => i = j

LEMMA LinkedIs ==
    ASSUME NEW f \in Table, NEW t, NEW w \in Seq(Cluster), Distinct(w),
           \A i \in 1 .. Len(w) : w[i] # t
    PROVE  LET g == Linked(f, t, w)
           IN  /\ g \in Table
               /\ \A i \in 1 .. Len(w) - 1 : g[w[i]] = w[i + 1]
               /\ w # << >> => g[w[Len(w)]] = EOC
               /\ w # << >> /\ t \in Cluster => g[t] = w[1]
               /\ \A c \in Cluster : c # t /\ (\A i \in 1 .. Len(w) : w[i] # c) => g[c] = f[c]
               /\ w = << >> => g = f
<1> DEFINE New(c) == \E i \in 1 .. Len(w) : c = w[i]
           At1(c) == CHOOSE i \in 1 .. Len(w) : c = w[i]
           Val(c) == IF New(c)
                     THEN IF At1(c) < Len(w) THEN w[At1(c) + 1] ELSE EOC
                     ELSE IF c = t /\ w # << >> THEN w[1] ELSE f[c]
<1>1. PICK g : g = Linked(f, t, w) /\ g = [c \in Cluster |-> Val(c)]
  BY DEF Linked
<1>2. \A c \in Cluster : g[c] = Val(c)
  BY <1>1
<1>3. Len(w) \in Nat /\ (\A i \in 1 .. Len(w) : w[i] \in Cluster)
  OBVIOUS
<1>4. ASSUME NEW i \in 1 .. Len(w)
      PROVE  g[w[i]] = IF i < Len(w) THEN w[i + 1] ELSE EOC
  <2>1. New(w[i]) /\ At1(w[i]) \in 1 .. Len(w) /\ w[At1(w[i])] = w[i]
    OBVIOUS
  <2>2. At1(w[i]) = i
    BY <2>1 DEF Distinct
  <2>3. QED
    BY <1>2, <1>3, <2>1, <2>2
<1>5. \A i \in 1 .. Len(w) - 1 : g[w[i]] = w[i + 1]
  <2>1. \A i \in 1 .. Len(w) - 1 : i \in 1 .. Len(w) /\ i < Len(w)
    BY <1>3
  <2>2. QED
    BY <1>4, <2>1
<1>6. w # << >> => g[w[Len(w)]] = EOC
  <2>1. w # << >> => Len(w) \in 1 .. Len(w) /\ ~ (Len(w) < Len(w))
    BY <1>3
  <2>2. QED
    BY <1>4, <2>1
<1>7. \A c \in Cluster : ~ New(c) => g[c] = IF c = t /\ w # << >> THEN w[1] ELSE f[c]
  BY <1>2
<1>8. ~ New(t)
  OBVIOUS
<1>9. ASSUME NEW c \in Cluster PROVE g[c] \in Cluster \cup {FREE, EOC}
  <2>1. CASE New(c)
    <3>1. PICK i \in 1 .. Len(w) : c = w[i]
      BY <2>1
    <3>2. i < Len(w) => w[i + 1] \in Cluster
      BY <1>3
    <3>3. QED
      BY <1>4, <3>1, <3>2
  <2>2. CASE ~ New(c)
    <3>1. w # << >> => w[1] \in Cluster
      BY <1>3
    <3>2. f[c] \in Cluster \cup {FREE, EOC}
      BY DEF Table
    <3>3. QED
      BY <1>7, <2>2, <3>1, <3>2
  <2>3. QED
    BY <2>1, <2>2
<1>10. g \in Table
  BY <1>1, <1>2, <1>9 DEF Table
<1>11. w = << >> => g = f
  <2>1. ASSUME w = << >> PROVE g = f
    <3>1. \A c \in Cluster : g[c] = f[c]
      BY <1>7, <2>1
    <3>2. QED
      BY <1>10, <3>1 DEF Table
  <2>2. QED
    BY <2>1
<1>12. w # << >> /\ t \in Cluster => g[t] = w[1]
  BY <1>7, <1>8
<1>13. \A c \in Cluster : c # t /\ (\A i \in 1 .. Len(w) : w[i] # c) => g[c] = f[c]
  BY <1>7
<1>14. QED
  BY <1>1, <1>5, <1>6, <1>10, <1>11, <1>12, <1>13

LEMMA FreedIs ==
    ASSUME NEW f \in Table, NEW c
    PROVE  /\ Freed(f, c) \in Table
           /\ \A d \in Cluster : Freed(f, c)[d] = IF d \in Chain(f, c) THEN FREE ELSE f[d]
           /\ c \notin Cluster => Freed(f, c) = f
<1>1. Freed(f, c) \in Table
  BY DEF Freed, Table
<1>2. \A d \in Cluster : Freed(f, c)[d] = IF d \in Chain(f, c) THEN FREE ELSE f[d]
  BY DEF Freed
<1>3. c \notin Cluster => Freed(f, c) = f
  <2>1. c \notin Cluster => \A d \in Cluster : Freed(f, c)[d] = f[d]
    BY <1>2, ChainIs
  <2>2. QED
    BY <1>1, <2>1 DEF Table
<1>4. QED
  BY <1>1, <1>2, <1>3

(***************************************************************************)
(* The forest of chains.  A is a set of owners, h[a] the head of a's chain *)
(* or 0, D the owners that are directories, and J the clusters that hold   *)
(* no directory slots.                                                     *)
(***************************************************************************)

\* No walk from a cluster that no link leads to meets a cluster twice.
LEMMA WalkDistinct ==
    ASSUME NEW f, Links(f), NEW c, NoLinkTo(f, c), NEW w, IsWalk(f, c, w)
    PROVE  Distinct(w)
<1> DEFINE Bad == {j \in 1 .. Len(w) : \E i \in 1 .. j - 1 : w[i] = w[j]}
<1>1. w \in Seq(Cluster) /\ Len(w) \in Nat
  BY DEF IsWalk
<1>2. ASSUME Bad # {} PROVE FALSE
  <2>1. PICK j \in Bad : \A k \in Bad : j <= k
    <3>1. Bad \subseteq Nat
      BY <1>1
    <3> HIDE DEF Bad
    <3>2. QED
      BY <1>2, <3>1, LeastElement
  <2>2. PICK i \in 1 .. j - 1 : w[i] = w[j]
    OBVIOUS
  <2>3. PICK m \in 1 .. Len(w) - 1 : m + 1 = j /\ i <= m
    <3>1. j - 1 \in 1 .. Len(w) - 1 /\ (j - 1) + 1 = j /\ i <= j - 1
      BY <1>1
    <3>2. QED
      BY <3>1
  <2>4. w[j] = f[w[m]] /\ w[m] \in Cluster /\ w[j] \in Cluster
    BY <1>1, <2>3 DEF IsWalk
  <2>5. CASE i = 1
    <3>1. w[1] = c
      BY <1>1, <2>1 DEF IsWalk
    <3>2. QED
      BY <2>2, <2>4, <2>5, <3>1 DEF NoLinkTo
  <2>6. CASE i # 1
    <3>1. PICK k \in 1 .. Len(w) - 1 : k + 1 = i
      <4>1. i - 1 \in 1 .. Len(w) - 1 /\ (i - 1) + 1 = i
        BY <1>1, <2>3, <2>6
      <4>2. QED
        BY <4>1
    <3>2. w[i] = f[w[k]] /\ w[k] \in Cluster
      BY <1>1, <3>1 DEF IsWalk
    <3>3. w[k] = w[m]
      BY <2>2, <2>4, <3>2 DEF Links
    <3>4. k \in 1 .. m - 1 /\ m \in 1 .. Len(w)
      BY <1>1, <2>3, <3>1
    <3>5. m \in Bad
      BY <3>3, <3>4
    <3>6. QED
      BY <2>1, <2>3, <3>5
  <2>7. QED
    BY <2>5, <2>6
<1>3. ASSUME NEW i \in 1 .. Len(w), NEW j \in 1 .. Len(w), w[i] = w[j] PROVE i = j
  <2>1. CASE i < j
    BY <1>1, <1>2, <1>3, <2>1
  <2>2. CASE j < i
    BY <1>1, <1>2, <1>3, <2>2
  <2>3. QED
    BY <1>1, <2>1, <2>2
<1>4. QED
  BY <1>3 DEF Distinct

\* There are not more than TotalClusters different clusters.
LEMMA DistinctSize ==
    ASSUME NEW S, IsFiniteSet(S), NEW w \in Seq(Cluster), Distinct(w),
           \A i \in 1 .. Len(w) : w[i] \in S
    PROVE  Len(w) <= Cardinality(S)
<1>1. Len(w) \in Nat /\ w \in [1 .. Len(w) -> Cluster]
  BY LenProperties
<1>2. IsFiniteSet(1 .. Len(w)) /\ Cardinality(1 .. Len(w)) = Len(w)
  <2>1. /\ IsFiniteSet(1 .. Len(w))
        /\ Cardinality(1 .. Len(w)) = IF 1 > Len(w) THEN 0 ELSE Len(w) - 1 + 1
    BY <1>1, FS_Interval
  <2>2. QED
    BY <1>1, <2>1
<1>3. w \in [1 .. Len(w) -> S]
  BY <1>1
<1>4. Cardinality(S) \in Nat
  BY FS_CardinalityType
<1>5. SUFFICES ASSUME Cardinality(S) < Len(w) PROVE FALSE
  BY <1>1, <1>4
<1>6. \E x, y \in 1 .. Len(w) : x # y /\ w[x] = w[y]
  BY <1>2, <1>3, <1>5, FS_PigeonHole
<1>7. QED
  BY <1>6 DEF Distinct

LEMMA DistinctShort ==
    ASSUME NEW w \in Seq(Cluster), Distinct(w)
    PROVE  Len(w) <= TotalClusters
<1>1. TotalClusters \in Nat
  BY Clusters
<1>2. IsFiniteSet(Cluster) /\ Cardinality(Cluster) = TotalClusters
  <2>1. PICK n \in Int : n = TotalClusters + 1
    BY <1>1
  <2>2. /\ IsFiniteSet(2 .. n)
        /\ Cardinality(2 .. n) = IF 2 > n THEN 0 ELSE n - 2 + 1
    BY FS_Interval
  <2>3. Cluster = 2 .. n
    BY <2>1 DEF Cluster
  <2>4. QED
    BY <2>1, <2>2, <2>3, Clusters
<1>3. QED
  BY <1>2, DistinctSize

\* A walk goes on until it has no next cluster or has met as many as there are.
LEMMA WalkEnds ==
    ASSUME NEW f \in Table, NEW c
    PROVE  \/ Len(Walk(f, c)) = TotalClusters
           \/ WalkStep(f, c, Walk(f, c)) = Walk(f, c)
<1>1. PICK u : u = Turns(f, c)
  OBVIOUS
<1>2. /\ u[0] = << >>
      /\ \A k \in 1 .. TotalClusters : u[k] = WalkStep(f, c, u[k - 1])
  BY <1>1, TurnsStep
<1>3. \A k \in 0 .. TotalClusters : u[k] \in Seq(Cluster)
  BY <1>1, TurnsAreWalks
<1> DEFINE n == TotalClusters
           T == {k \in 0 .. n : Len(u[k]) = k \/ WalkStep(f, c, u[k]) = u[k]}
<1>4. n \in Nat
  BY Clusters
<1>5. 0 \in T
  BY <1>2, <1>4
<1>6. ASSUME NEW k \in 0 .. n - 1, k \in T PROVE k + 1 \in T
  <2>1. k + 1 \in 1 .. n /\ k + 1 \in 0 .. n /\ (k + 1) - 1 = k /\ k \in 0 .. n
    BY <1>4
  <2>2. u[k + 1] = WalkStep(f, c, u[k])
    BY <1>2, <2>1
  <2>3. CASE WalkStep(f, c, u[k]) = u[k]
    BY <2>1, <2>2, <2>3
  <2>4. CASE WalkStep(f, c, u[k]) # u[k]
    <3>1. Len(u[k]) = k /\ u[k] \in Seq(Cluster)
      BY <1>3, <1>6, <2>1, <2>4
    <3>2. PICK d \in Cluster : WalkStep(f, c, u[k]) = Append(u[k], d)
      BY <2>4 DEF WalkStep
    <3>3. Len(u[k + 1]) = k + 1
      BY <2>2, <3>1, <3>2
    <3>4. QED
      BY <2>1, <3>3
  <2>5. QED
    BY <2>3, <2>4
<1>7. \A k \in 0 .. n : k \in T
  <2> HIDE DEF T
  <2>1. QED
    BY <1>4, <1>5, <1>6, SetInduction
<1>8. n \in T
  BY <1>4, <1>7
<1>9. Walk(f, c) = u[n]
  BY <1>1, WalkTurns
<1>10. QED
  BY <1>8, <1>9

\* So it ends where the chain does.
LEMMA WalkComplete ==
    ASSUME NEW f, Links(f), NEW c \in Cluster, NoLinkTo(f, c)
    PROVE  LET w == Walk(f, c)
           IN  w \in Seq(Cluster) /\ Len(w) >= 1 /\ f[w[Len(w)]] \notin Cluster
<1>1. PICK w : w = Walk(f, c)
  OBVIOUS
<1>2. f \in Table
  BY DEF Links
<1>3. IsWalk(f, c, w)
  BY <1>1, <1>2, WalkIs
<1>4. w \in Seq(Cluster) /\ Len(w) >= 1 /\ Len(w) \in Nat /\ w # << >>
  BY <1>3 DEF IsWalk
<1>5. SUFFICES ASSUME f[w[Len(w)]] \in Cluster PROVE FALSE
  BY <1>1, <1>4
<1>6. PICK v \in Seq(Cluster) : v = Append(w, f[w[Len(w)]]) /\ Len(v) = Len(w) + 1
  <2>1. PICK d \in Cluster : d = f[w[Len(w)]]
    BY <1>5
  <2>2. Append(w, d) \in Seq(Cluster) /\ Len(Append(w, d)) = Len(w) + 1
    BY <1>4, AppendProperties
  <2>3. QED
    BY <2>1, <2>2, Zenon
<1>7. WalkStep(f, c, w) = v
  BY <1>4, <1>5, <1>6 DEF WalkStep
<1>8. v # w
  BY <1>4, <1>6
<1>9. Len(w) = TotalClusters
  BY <1>1, <1>2, <1>7, <1>8, WalkEnds
<1>10. IsWalk(f, c, v)
  BY <1>2, <1>3, <1>4, <1>7, WalkStepIs
<1>11. Len(v) <= TotalClusters
  BY <1>10, WalkDistinct, DistinctShort
<1>12. QED
  BY <1>4, <1>6, <1>9, <1>11

LEMMA ChainClosed ==
    ASSUME NEW f, Links(f), NEW c, NoLinkTo(f, c), NEW d \in Chain(f, c), f[d] \in Cluster
    PROVE  f[d] \in Chain(f, c)
<1>1. f \in Table
  BY DEF Links
<1>2. c \in Cluster
  BY <1>1, ChainIs
<1>3. PICK w \in Seq(Cluster) : /\ w = Walk(f, c) /\ Len(w) >= 1
                                /\ f[w[Len(w)]] \notin Cluster /\ IsWalk(f, c, w)
  BY <1>1, <1>2, WalkComplete, WalkIs
<1>4. Chain(f, c) = {w[k] : k \in 1 .. Len(w)}
  BY <1>3 DEF Chain
<1>5. PICK k \in 1 .. Len(w) : d = w[k]
  BY <1>4
<1>6. k + 1 \in 1 .. Len(w) /\ k \in 1 .. Len(w) - 1
  BY <1>3, <1>5
<1>7. f[d] = w[k + 1]
  BY <1>3, <1>5, <1>6 DEF IsWalk
<1>8. QED
  BY <1>4, <1>6, <1>7

\* A chain loses nothing when links are only added,
LEMMA ChainKept ==
    ASSUME NEW f \in Table, NEW g, Links(g), NEW r, NoLinkTo(g, r),
           \A d \in Cluster : f[d] \in Cluster => g[d] = f[d]
    PROVE  Chain(f, r) \subseteq Chain(g, r)
<1>1. g \in Table
  BY DEF Links
<1>2. r \in Cluster => r \in Chain(g, r)
  BY <1>1, ChainIs
<1>3. \A d \in Chain(g, r) : g[d] \in Cluster => g[d] \in Chain(g, r)
  BY ChainClosed
<1>4. \A d \in Cluster : d \in Chain(g, r) /\ f[d] \in Cluster => f[d] \in Chain(g, r)
  BY <1>3
<1>5. QED
  BY <1>2, <1>4, ChainStays

\* and has everything that is linked behind one of its clusters.
LEMMA ChainTakes ==
    ASSUME NEW g, Links(g), NEW r, NoLinkTo(g, r), NEW w \in Seq(Cluster), w # << >>,
           w[1] \in Chain(g, r), \A i \in 1 .. Len(w) - 1 : g[w[i]] = w[i + 1]
    PROVE  \A i \in 1 .. Len(w) : w[i] \in Chain(g, r)
<1>1. PICK n \in Nat : n + 1 = Len(w)
  <2>1. Len(w) - 1 \in Nat /\ (Len(w) - 1) + 1 = Len(w)
    OBVIOUS
  <2>2. QED
    BY <2>1
<1> DEFINE T == {k \in 0 .. n : w[k + 1] \in Chain(g, r)}
<1>2. 0 \in T
  BY <1>1
<1>3. ASSUME NEW k \in 0 .. n - 1, k \in T PROVE k + 1 \in T
  <2>1. PICK i \in 1 .. Len(w) - 1 : i = k + 1 /\ i + 1 \in 1 .. Len(w) /\ i \in 0 .. n
    <3>1. k + 1 \in 1 .. Len(w) - 1 /\ (k + 1) + 1 \in 1 .. Len(w) /\ k + 1 \in 0 .. n
      BY <1>1
    <3>2. QED
      BY <3>1
  <2>2. w[i] \in Chain(g, r) /\ g[w[i]] = w[i + 1] /\ w[i + 1] \in Cluster
    BY <1>3, <2>1
  <2>3. w[i + 1] \in Chain(g, r)
    BY <2>2, ChainClosed
  <2>4. QED
    BY <2>1, <2>3
<1>4. \A k \in 0 .. n : k \in T
  <2> HIDE DEF T
  <2>1. QED
    BY <1>2, <1>3, SetInduction
<1>5. ASSUME NEW i \in 1 .. Len(w) PROVE w[i] \in Chain(g, r)
  <2>1. i - 1 \in 0 .. n /\ (i - 1) + 1 = i
    BY <1>1
  <2>2. QED
    BY <1>4, <2>1
<1>6. QED
  BY <1>5

\* What is free is no directory, and a link leads from directory to directory or
\* from file to file; none leads to the root directory.
Kinds(f, J) ==
    /\ Root \notin J
    /\ \A c \in Cluster :
          /\ f[c] = FREE => c \in J
          /\ f[c] \in Cluster => f[c] # Root /\ (c \in J <=> f[c] \in J)

\* Every head is in use, no link leads to it, and no other owner has it.
Heads(f, A, h, D, J) ==
    /\ \A a \in A : h[a] # 0 =>
          /\ h[a] \in Cluster \ {Root} /\ f[h[a]] # FREE /\ NoLinkTo(f, h[a])
          /\ h[a] \in J <=> a \notin D
    /\ \A a \in A \cap D : h[a] # 0
    /\ \A a, b \in A : h[a] # 0 /\ h[a] = h[b] => a = b

\* Every cluster in use is in the chain of the root directory or of an owner.
Owner(A, h, r) == r = Root \/ \E a \in A : r = h[a]
Covered(f, A, h) ==
    \A c \in Cluster : f[c] # FREE => \E r : Owner(A, h, r) /\ c \in Chain(f, r)

Forest(f, A, h, D, J) ==
    Links(f) /\ Kinds(f, J) /\ Heads(f, A, h, D, J) /\ Covered(f, A, h)

\* The clusters of a file hold no directory slots, those of a directory do.
LEMMA ChainKind ==
    ASSUME NEW f, NEW J, Links(f), Kinds(f, J), NEW c \in Cluster
    PROVE  /\ c \in J => Chain(f, c) \subseteq J
           /\ c \notin J => Chain(f, c) \cap J = {}
<1>1. f \in Table
  BY DEF Links
<1>2. ASSUME c \in J PROVE Chain(f, c) \subseteq J
  <2>1. \A d \in Cluster : d \in J /\ f[d] \in Cluster => f[d] \in J
    BY DEF Kinds
  <2>2. QED
    BY <1>1, <1>2, <2>1, ChainStays
<1>3. ASSUME c \notin J PROVE Chain(f, c) \cap J = {}
  <2> DEFINE T == Cluster \ J
  <2>1. c \in T /\ \A d \in Cluster : d \in T /\ f[d] \in Cluster => f[d] \in T
    BY <1>3 DEF Kinds
  <2> HIDE DEF T
  <2>2. Chain(f, c) \subseteq T
    BY <1>1, <2>1, ChainStays
  <2>3. QED
    BY <2>2 DEF T
<1>4. QED
  BY <1>2, <1>3

\* The chains of two owners share nothing, and none has the root directory.
LEMMA OwnersApart ==
    ASSUME NEW f, NEW A, NEW h, NEW D, NEW J, Forest(f, A, h, D, J), NEW a \in A
    PROVE  /\ \A b \in A : a # b => Chain(f, h[a]) \cap Chain(f, h[b]) = {}
           /\ \A r \in Cluster : NoLinkTo(f, r) /\ r # h[a] => Chain(f, h[a]) \cap Chain(f, r) = {}
<1>1. f \in Table /\ 0 \notin Cluster
  BY Clusters DEF Forest, Links
<1>2. CASE h[a] = 0
  BY <1>1, <1>2, ChainIs
<1>3. CASE h[a] # 0
  <2>1. NoLinkTo(f, h[a])
    BY <1>3 DEF Forest, Heads
  <2>2. ASSUME NEW r \in Cluster, NoLinkTo(f, r), r # h[a]
        PROVE  Chain(f, h[a]) \cap Chain(f, r) = {}
    BY <2>1, <2>2, ChainsApart DEF Forest
  <2>3. ASSUME NEW b \in A, a # b PROVE Chain(f, h[a]) \cap Chain(f, h[b]) = {}
    <3>1. CASE h[b] = 0
      BY <1>1, <3>1, ChainIs
    <3>2. CASE h[b] # 0
      <4>1. NoLinkTo(f, h[b]) /\ h[b] # h[a] /\ h[b] \in Cluster
        BY <1>3, <2>3, <3>2 DEF Forest, Heads
      <4>2. QED
        BY <2>2, <4>1
    <3>3. QED
      BY <3>1, <3>2
  <2>4. QED
    BY <2>2, <2>3
<1>4. QED
  BY <1>2, <1>3

\* What releasing the chain of a head leaves of the table.
LEMMA FreedForest ==
    ASSUME NEW f, NEW J, Links(f), Kinds(f, J), NEW c \in Cluster, c # Root, NoLinkTo(f, c)
    PROVE  LET g == Freed(f, c)
           IN  /\ Links(g) /\ Kinds(g, J \cup Chain(f, c))
               /\ \A x : NoLinkTo(f, x) /\ x # FREE => NoLinkTo(g, x)
               /\ \A x \in Cluster : NoLinkTo(f, x) /\ x # c => x \notin Chain(f, c) /\ g[x] = f[x]
<1> DEFINE C == Chain(f, c)
<1>1. f \in Table
  BY DEF Links
<1>2. PICK g : /\ g = Freed(f, c) /\ g \in Table
               /\ \A d \in Cluster : g[d] = IF d \in C THEN FREE ELSE f[d]
  BY <1>1, FreedIs
<1>3. C \subseteq Cluster /\ FREE \notin Cluster /\ Root \in Cluster
  BY <1>1, ChainIs, Clusters
<1>4. \A d \in Cluster : f[d] \in C => d \in C
  BY LinkFromChain
<1> HIDE DEF C
<1>5. \A d \in Cluster : g[d] \in Cluster => d \notin C /\ g[d] = f[d] /\ f[d] \notin C /\ g[f[d]] = f[f[d]]
  BY <1>2, <1>3, <1>4
<1>6. Links(g)
  BY <1>2, <1>5 DEF Links
<1>7. \A x : NoLinkTo(f, x) /\ x # FREE => NoLinkTo(g, x)
  BY <1>2 DEF NoLinkTo
<1>8. ASSUME NEW x \in Cluster, NoLinkTo(f, x), x # c PROVE x \notin C /\ g[x] = f[x]
  BY <1>1, <1>2, <1>8, HeadAlone DEF C
<1>9. NoLinkTo(f, Root)
  BY <1>3 DEF Kinds, NoLinkTo
<1>10. Root \notin C
  BY <1>3, <1>8, <1>9
<1>11. Kinds(g, J \cup C)
  <2>1. ASSUME NEW d \in Cluster, g[d] = FREE PROVE d \in J \cup C
    BY <1>2, <2>1 DEF Kinds
  <2>2. ASSUME NEW d \in Cluster, g[d] \in Cluster
        PROVE  g[d] # Root /\ (d \in J \cup C <=> g[d] \in J \cup C)
    BY <1>5, <2>2 DEF Kinds
  <2>3. QED
    BY <1>10, <2>1, <2>2 DEF Kinds
<1>12. QED
  BY <1>2, <1>6, <1>7, <1>8, <1>11 DEF C

\* The chains after the chain of an owner has been released.
LEMMA CoverFreed ==
    ASSUME NEW f, NEW A, NEW h, NEW D, NEW J, Forest(f, A, h, D, J), NEW a \in A, h[a] # 0,
           NEW B, A \ {a} \subseteq B, NEW k, \A b \in A \ {a} : k[b] = h[b]
    PROVE  Covered(Freed(f, h[a]), B, k)
<1>1. Links(f) /\ Kinds(f, J) /\ Heads(f, A, h, D, J) /\ Covered(f, A, h) /\ f \in Table
  BY DEF Forest, Links
<1>2. PICK g : /\ g = Freed(f, h[a]) /\ g \in Table
               /\ \A d \in Cluster : g[d] = IF d \in Chain(f, h[a]) THEN FREE ELSE f[d]
  BY <1>1, FreedIs
<1>3. NoLinkTo(f, h[a]) /\ h[a] # Root
  BY <1>1 DEF Heads
<1>4. ASSUME NEW c \in Cluster, g[c] # FREE PROVE \E r : Owner(B, k, r) /\ c \in Chain(g, r)
  <2>1. c \notin Chain(f, h[a]) /\ f[c] # FREE
    BY <1>2, <1>4
  <2>2. PICK r : Owner(A, h, r) /\ c \in Chain(f, r)
    BY <1>1, <2>1 DEF Covered
  <2>3. r # h[a] /\ r # 0
    BY <1>1, <2>1, <2>2, ChainIs, Clusters
  <2>4. Owner(B, k, r)
    BY <2>2, <2>3 DEF Owner
  <2>5. NoLinkTo(f, r)
    <3>1. CASE r = Root
      BY <1>1, <3>1, Clusters DEF Kinds, NoLinkTo
    <3>2. CASE r # Root
      BY <1>1, <2>2, <2>3, <3>2 DEF Heads, Owner
    <3>3. QED
      BY <3>1, <3>2
  <2>6. Chain(f, r) \cap Chain(f, h[a]) = {}
    BY <1>1, <1>3, <2>3, <2>5, ChainsApart
  <2>7. \A d \in Chain(f, r) : d \in Cluster
    BY <1>1, ChainIs
  <2>8. Chain(g, r) = Chain(f, r)
    BY <1>1, <1>2, <2>6, <2>7, SameWalk
  <2>9. QED
    BY <2>2, <2>4, <2>8
<1>5. QED
  BY <1>2, <1>4 DEF Covered

\* The chains after w has been linked behind t, the last cluster of one of them.
LEMMA CoverGrow ==
    ASSUME NEW f \in Table, NEW A, NEW h, Covered(f, A, h), NEW t \in Cluster, f[t] # FREE,
           f[t] \notin Cluster, NEW w \in Seq(Cluster), w # << >>,
           \A i \in 1 .. Len(w) : f[w[i]] = FREE,
           NEW g, Links(g), \A r : Owner(A, h, r) /\ r # 0 => NoLinkTo(g, r),
           g[t] = w[1], \A i \in 1 .. Len(w) - 1 : g[w[i]] = w[i + 1],
           \A c \in Cluster : c # t /\ (\A i \in 1 .. Len(w) : w[i] # c) => g[c] = f[c]
    PROVE  Covered(g, A, h)
<1>1. \A d \in Cluster : f[d] \in Cluster => g[d] = f[d]
  BY Clusters
<1>2. ASSUME NEW r, Owner(A, h, r), NEW c \in Chain(f, r)
      PROVE  NoLinkTo(g, r) /\ c \in Chain(g, r)
  <2>1. r # 0
    BY <1>2, ChainIs, Clusters
  <2>2. NoLinkTo(g, r)
    BY <1>2, <2>1
  <2>3. QED
    BY <1>1, <2>2, ChainKept
<1>3. PICK r : Owner(A, h, r) /\ t \in Chain(f, r)
  BY DEF Covered
<1>4. NoLinkTo(g, r) /\ t \in Chain(g, r)
  BY <1>2, <1>3
<1>5. w[1] \in Cluster
  OBVIOUS
<1>6. w[1] \in Chain(g, r)
  BY <1>4, <1>5, ChainClosed
<1>7. \A i \in 1 .. Len(w) : w[i] \in Chain(g, r)
  BY <1>4, <1>6, ChainTakes
<1>8. ASSUME NEW c \in Cluster, g[c] # FREE PROVE \E s : Owner(A, h, s) /\ c \in Chain(g, s)
  <2>1. CASE \E i \in 1 .. Len(w) : w[i] = c
    BY <1>3, <1>7, <2>1
  <2>2. CASE ~ \E i \in 1 .. Len(w) : w[i] = c
    <3>1. f[c] # FREE
      BY <1>8, <2>2
    <3>2. PICK s : Owner(A, h, s) /\ c \in Chain(f, s)
      BY <3>1 DEF Covered
    <3>3. QED
      BY <1>2, <3>2
  <2>3. QED
    BY <2>1, <2>2
<1>9. QED
  BY <1>8 DEF Covered

\* The chains after an owner that had none has got w.
LEMMA CoverStart ==
    ASSUME NEW f \in Table, NEW A, NEW h, Covered(f, A, h), NEW a \in A, h[a] = 0,
           NEW w \in Seq(Cluster), w # << >>,
           \A i \in 1 .. Len(w) : f[w[i]] = FREE,
           NEW k, k[a] = w[1], \A b \in A \ {a} : k[b] = h[b],
           NEW g, Links(g), \A r : Owner(A, k, r) /\ r # 0 => NoLinkTo(g, r),
           \A i \in 1 .. Len(w) - 1 : g[w[i]] = w[i + 1],
           \A c \in Cluster : (\A i \in 1 .. Len(w) : w[i] # c) => g[c] = f[c]
    PROVE  Covered(g, A, k)
<1>1. \A d \in Cluster : f[d] \in Cluster => g[d] = f[d]
  BY Clusters
<1>2. ASSUME NEW r, Owner(A, h, r), NEW c \in Chain(f, r)
      PROVE  Owner(A, k, r) /\ c \in Chain(g, r)
  <2>1. r # 0
    BY <1>2, ChainIs, Clusters
  <2>2. Owner(A, k, r)
    BY <1>2, <2>1 DEF Owner
  <2>3. NoLinkTo(g, r)
    BY <2>1, <2>2
  <2>4. QED
    BY <1>1, <2>2, <2>3, ChainKept
<1>3. PICK r \in Cluster : r = w[1]
  OBVIOUS
<1>4. Owner(A, k, r) /\ NoLinkTo(g, r)
  BY <1>3, Clusters DEF Owner
<1>5. g \in Table
  BY DEF Links
<1>6. w[1] \in Chain(g, r)
  BY <1>3, <1>5, ChainIs
<1>7. \A i \in 1 .. Len(w) : w[i] \in Chain(g, r)
  BY <1>4, <1>6, ChainTakes
<1>8. ASSUME NEW c \in Cluster, g[c] # FREE PROVE \E s : Owner(A, k, s) /\ c \in Chain(g, s)
  <2>1. CASE \E i \in 1 .. Len(w) : w[i] = c
    BY <1>4, <1>7, <2>1
  <2>2. CASE ~ \E i \in 1 .. Len(w) : w[i] = c
    <3>1. f[c] # FREE
      BY <1>8, <2>2
    <3>2. PICK s : Owner(A, h, s) /\ c \in Chain(f, s)
      BY <3>1 DEF Covered
    <3>3. QED
      BY <1>2, <3>2
  <2>3. QED
    BY <2>1, <2>2
<1>9. QED
  BY <1>8 DEF Covered

\* Owners, and what no link leads to.
LEMMA OwnersAreHeads ==
    ASSUME NEW f, NEW A, NEW h, NEW D, NEW J, Kinds(f, J), Heads(f, A, h, D, J), NEW r,
           Owner(A, h, r), r # 0
    PROVE  NoLinkTo(f, r)
<1>1. CASE r = Root
  BY <1>1, Clusters DEF Kinds, NoLinkTo
<1>2. CASE r # Root
  BY <1>2 DEF Heads, Owner
<1>3. QED
  BY <1>1, <1>2

\* O_TRUNC: the chain of a file goes.
LEMMA CutForest ==
    ASSUME NEW f, NEW A, NEW h, NEW D, NEW J, Forest(f, A, h, D, J), NEW a \in A, a \notin D,
           NEW k, k[a] = 0, \A b \in A \ {a} : k[b] = h[b]
    PROVE  Forest(Freed(f, h[a]), A, k, D, J)
<1>1. f \in Table /\ 0 \notin Cluster
  BY Clusters DEF Forest, Links
<1>2. CASE h[a] = 0
  <2>1. Freed(f, h[a]) = f
    BY <1>1, <1>2, FreedIs
  <2>2. Heads(f, A, k, D, J)
    BY <1>2 DEF Forest, Heads
  <2>3. Covered(f, A, k)
    BY <1>2 DEF Forest, Covered, Owner
  <2>4. QED
    BY <2>1, <2>2, <2>3 DEF Forest
<1>3. CASE h[a] # 0
  <2>1. /\ h[a] \in Cluster /\ h[a] # Root /\ NoLinkTo(f, h[a]) /\ h[a] \in J
        /\ Links(f) /\ Kinds(f, J) /\ Heads(f, A, h, D, J)
    BY <1>3 DEF Forest, Heads
  <2>2. Chain(f, h[a]) \subseteq J
    BY <2>1, ChainKind
  <2>3. PICK g : /\ g = Freed(f, h[a]) /\ Links(g) /\ Kinds(g, J)
                 /\ \A x : NoLinkTo(f, x) /\ x # FREE => NoLinkTo(g, x)
                 /\ \A x \in Cluster : NoLinkTo(f, x) /\ x # h[a] => g[x] = f[x]
    <3>1. J \cup Chain(f, h[a]) = J
      BY <2>2
    <3>2. QED
      BY <2>1, <3>1, FreedForest
  <2>4. ASSUME NEW b \in A, k[b] # 0
        PROVE  /\ b # a /\ k[b] = h[b] /\ h[b] # h[a]
               /\ h[b] \in Cluster \ {Root} /\ g[h[b]] # FREE /\ NoLinkTo(g, h[b])
    <3>1. b # a /\ k[b] = h[b] /\ h[b] # 0
      BY <2>4
    <3>2. h[b] # h[a] /\ h[b] \in Cluster \ {Root} /\ f[h[b]] # FREE /\ NoLinkTo(f, h[b])
      BY <2>1, <3>1 DEF Heads
    <3>3. QED
      BY <2>3, <3>1, <3>2, Clusters
  <2>5. \A b \in A \cap D : k[b] = h[b]
    OBVIOUS
  <2>6. Heads(g, A, k, D, J)
    BY <2>1, <2>4, <2>5 DEF Heads
  <2>7. Covered(g, A, k)
    BY <1>3, <2>3, CoverFreed
  <2>8. QED
    BY <2>3, <2>6, <2>7 DEF Forest
<1>4. QED
  BY <1>2, <1>3

\* SYS_UNLINK: an owner goes with its chain.
LEMMA RemoveForest ==
    ASSUME NEW f, NEW A, NEW h, NEW D, NEW J, Forest(f, A, h, D, J), NEW a \in A,
           NEW k, \A b \in A \ {a} : k[b] = h[b]
    PROVE  Forest(Freed(f, h[a]), A \ {a}, k, D \ {a}, J \cup Chain(f, h[a]))
<1>1. f \in Table /\ 0 \notin Cluster
  BY Clusters DEF Forest, Links
<1>2. CASE h[a] = 0
  <2>1. Freed(f, h[a]) = f /\ J \cup Chain(f, h[a]) = J
    BY <1>1, <1>2, FreedIs, ChainIs
  <2>2. Heads(f, A \ {a}, k, D \ {a}, J)
    BY <1>2 DEF Forest, Heads
  <2>3. Covered(f, A \ {a}, k)
    <3>1. Chain(f, 0) = {}
      BY <1>1, ChainIs
    <3>2. QED
      BY <1>2, <3>1 DEF Forest, Covered, Owner
  <2>4. QED
    BY <2>1, <2>2, <2>3 DEF Forest
<1>3. CASE h[a] # 0
  <2>1. /\ h[a] \in Cluster /\ h[a] # Root /\ NoLinkTo(f, h[a])
        /\ Links(f) /\ Kinds(f, J) /\ Heads(f, A, h, D, J)
    BY <1>3 DEF Forest, Heads
  <2> DEFINE C == Chain(f, h[a])
  <2>2. PICK g :
           /\ g = Freed(f, h[a]) /\ Links(g) /\ Kinds(g, J \cup C)
           /\ \A x : NoLinkTo(f, x) /\ x # FREE => NoLinkTo(g, x)
           /\ \A x \in Cluster : NoLinkTo(f, x) /\ x # h[a] => x \notin C /\ g[x] = f[x]
    BY SMTT(60), <2>1, FreedForest
  <2> DEFINE K == J \cup C
  <2>3. ASSUME NEW b \in A \ {a}, k[b] # 0
        PROVE  /\ k[b] \in Cluster \ {Root} /\ g[k[b]] # FREE /\ NoLinkTo(g, k[b])
               /\ k[b] \in K <=> b \notin D \ {a}
    <3>1. k[b] = h[b] /\ h[b] # 0
      BY <2>3
    <3>2. /\ h[b] # h[a] /\ h[b] \in Cluster \ {Root} /\ f[h[b]] # FREE /\ NoLinkTo(f, h[b])
          /\ h[b] \in J <=> b \notin D
      BY <2>1, <3>1 DEF Heads
    <3>3. QED
      BY <2>2, <3>1, <3>2, Clusters
  <2>4. Heads(g, A \ {a}, k, D \ {a}, K)
    BY <2>1, <2>3 DEF Heads
  <2>5. Covered(g, A \ {a}, k)
    BY <1>3, <2>2, CoverFreed
  <2>6. QED
    BY <2>2, <2>4, <2>5 DEF Forest
<1>4. QED
  BY <1>2, <1>3

\* Clusters that are free: no link leads to them, and no head is one of them.
LEMMA FreeIsNew ==
    ASSUME NEW f, NEW A, NEW h, NEW D, NEW J, Forest(f, A, h, D, J),
           NEW c \in Cluster, f[c] = FREE
    PROVE  /\ c \in J /\ c # Root /\ NoLinkTo(f, c)
           /\ \A a \in A : h[a] # c
<1>1. c \in J /\ c # Root /\ NoLinkTo(f, c)
  BY DEF Forest, Kinds, Links, NoLinkTo
<1>2. \A a \in A : h[a] # c
  BY Clusters DEF Forest, Heads
<1>3. QED
  BY <1>1, <1>2

\* Clusters w are linked behind t; they become directory clusters when t is one.
LEMMA GrowForest ==
    ASSUME NEW f, NEW A, NEW h, NEW D, NEW J, Forest(f, A, h, D, J),
           NEW t \in Cluster, f[t] # FREE, f[t] \notin Cluster,
           NEW w \in Seq(Cluster), Distinct(w), \A i \in 1 .. Len(w) : f[w[i]] = FREE,
           NEW K, K = IF t \in J THEN J ELSE J \ {w[i] : i \in 1 .. Len(w)}
    PROVE  Forest(Linked(f, t, w), A, h, D, K)
<1>1. Links(f) /\ Kinds(f, J) /\ Heads(f, A, h, D, J) /\ f \in Table /\ Covered(f, A, h)
  BY DEF Forest, Links
<1>2. /\ FREE \notin Cluster /\ EOC \notin Cluster /\ FREE # EOC /\ 0 \notin Cluster
      /\ Root \in Cluster
  BY Clusters
<1> DEFINE New == {w[i] : i \in 1 .. Len(w)}
<1>3. /\ New \subseteq Cluster /\ t \notin New
      /\ \A c \in New : f[c] = FREE
  OBVIOUS
<1>4. \A c \in New : /\ c \in J /\ c # Root /\ NoLinkTo(f, c)
                     /\ \A a \in A : h[a] # c
  BY <1>3, FreeIsNew
<1>5. PICK g : /\ g = Linked(f, t, w) /\ g \in Table
               /\ \A i \in 1 .. Len(w) - 1 : g[w[i]] = w[i + 1]
               /\ w # << >> => g[w[Len(w)]] = EOC
               /\ w # << >> => g[t] = w[1]
               /\ \A c \in Cluster \ New : c # t => g[c] = f[c]
               /\ w = << >> => g = f
  BY <1>1, <1>3, LinkedIs
<1>6. CASE w = << >>
  <2>1. K = J
    BY <1>6
  <2>2. QED
    BY <1>1, <1>5, <1>6, <2>1 DEF Forest
<1>7. CASE w # << >>
  <2> DEFINE n == Len(w)
  <2>1. n \in Nat /\ n >= 1
    BY <1>7
  <2>2. \A c \in New : \E i \in 1 .. n : c = w[i]
    OBVIOUS
  \* The old links, and the new ones.
  <2>3. ASSUME NEW c \in Cluster, g[c] \in Cluster
        PROVE  \/ c \notin New /\ c # t /\ g[c] = f[c] /\ g[c] \notin New /\ g[c] # Root
               \/ c = t /\ g[c] = w[1]
               \/ \E i \in 1 .. n - 1 : c = w[i] /\ g[c] = w[i + 1]
    <3>1. CASE c \in New
      <4>1. PICK i \in 1 .. n : c = w[i]
        BY <2>2, <3>1
      <4>2. i # n
        BY <1>2, <1>5, <1>7, <2>3, <4>1
      <4>3. i \in 1 .. n - 1
        BY <2>1, <4>2
      <4>4. QED
        BY <1>5, <4>1, <4>3
    <3>2. CASE c = t
      BY <1>5, <1>7, <3>2
    <3>3. CASE c \notin New /\ c # t
      <4>1. g[c] = f[c]
        BY <1>5, <3>3
      <4>2. g[c] \notin New
        BY <1>4, <4>1 DEF NoLinkTo
      <4>3. g[c] # Root
        BY <1>1, <2>3, <4>1 DEF Kinds
      <4>4. QED
        BY <3>3, <4>1, <4>2, <4>3
    <3>4. QED
      BY <3>1, <3>2, <3>3
  <2>4. /\ 1 \in 1 .. n /\ w[1] \in New
        /\ \A i \in 1 .. n - 1 : /\ i \in 1 .. n /\ i + 1 \in 1 .. n /\ i + 1 # 1
                                 /\ w[i] \in New /\ w[i + 1] \in New
    BY <2>1
  <2>5. \A i, j \in 1 .. n : w[i] = w[j] => i = j
    BY DEF Distinct
  <2> HIDE DEF New, n
  <2>6. ASSUME NEW c \in Cluster, NEW d \in Cluster, g[c] = g[d], g[c] \in Cluster
        PROVE  c = d
    <3>1. CASE c \notin New /\ c # t /\ g[c] = f[c] /\ g[c] \notin New
      <4>1. d \notin New /\ d # t /\ g[d] = f[d]
        BY <2>3, <2>4, <2>6, <3>1
      <4>2. QED
        BY <1>1, <2>6, <3>1, <4>1 DEF Links
    <3>2. CASE c = t /\ g[c] = w[1]
      <4>1. ASSUME NEW i \in 1 .. n - 1 PROVE w[i + 1] # w[1]
        BY <2>4, <2>5
      <4>2. QED
        BY <2>3, <2>4, <2>6, <3>2, <4>1
    <3>3. CASE \E i \in 1 .. n - 1 : c = w[i] /\ g[c] = w[i + 1]
      <4>1. PICK i \in 1 .. n - 1 : c = w[i] /\ g[c] = w[i + 1]
        BY <3>3
      <4>2. w[i + 1] # w[1] /\ w[i + 1] \in New
        BY <2>4, <2>5
      <4>3. PICK j \in 1 .. n - 1 : d = w[j] /\ g[d] = w[j + 1]
        BY <2>3, <2>6, <4>1, <4>2
      <4>4. i + 1 = j + 1
        BY <2>4, <2>5, <2>6, <4>1, <4>3
      <4>5. i = j
        BY <2>1, <4>4
      <4>6. QED
        BY <4>1, <4>3, <4>5
    <3>4. QED
      BY <2>3, <2>6, <3>1, <3>2, <3>3
  <2>7. \A c \in New : g[c] # FREE
    <3>1. ASSUME NEW c \in New PROVE g[c] # FREE
      <4>1. PICK i \in 1 .. n : c = w[i]
        BY <2>2
      <4>2. CASE i = n
        BY <1>2, <1>5, <1>7, <4>1, <4>2 DEF n
      <4>3. CASE i # n
        <5>1. i \in 1 .. n - 1
          BY <2>1, <4>3
        <5>2. g[c] \in New
          BY <1>5, <2>4, <4>1, <5>1 DEF n
        <5>3. QED
          BY <1>2, <1>3, <5>2
      <4>4. QED
        BY <4>2, <4>3
    <3>2. QED
      BY <3>1
  <2>8. g[t] = w[1] /\ g[t] # FREE
    BY <1>2, <1>3, <1>5, <1>7, <2>4
  <2>9. \A c \in Cluster : f[c] # FREE => g[c] # FREE
    BY <1>5, <2>7, <2>8
  <2>10. Links(g)
    <3>1. ASSUME NEW c \in Cluster, g[c] \in Cluster PROVE g[g[c]] # FREE
      <4>1. CASE g[c] \in New
        BY <2>7, <4>1
      <4>2. CASE g[c] \notin New
        <5>1. g[c] = f[c]
          BY <2>3, <2>4, <3>1, <4>2
        <5>2. f[g[c]] # FREE
          BY <1>1, <3>1, <5>1 DEF Links
        <5>3. QED
          BY <2>9, <3>1, <5>2
      <4>3. QED
        BY <4>1, <4>2
    <3>2. QED
      BY <1>5, <2>6, <3>1 DEF Links
  <2>11. /\ t \in J => K = J
         /\ t \notin J => K = J \ New
    BY DEF New
  <2>12. Kinds(g, K)
    <3>1. Root \notin K
      BY <1>1, <2>11 DEF Kinds
    <3>2. ASSUME NEW c \in Cluster, g[c] = FREE PROVE c \in K
      <4>1. c \notin New /\ f[c] = FREE
        BY <1>5, <2>7, <2>8, <3>2
      <4>2. QED
        BY <1>1, <2>11, <4>1 DEF Kinds
    <3>3. ASSUME NEW c \in Cluster, g[c] \in Cluster
          PROVE  g[c] # Root /\ (c \in K <=> g[c] \in K)
      <4>1. CASE c \notin New /\ c # t /\ g[c] = f[c] /\ g[c] \notin New /\ g[c] # Root
        <5>1. c \in J <=> g[c] \in J
          BY <1>1, <3>3, <4>1 DEF Kinds
        <5>2. QED
          BY <2>11, <4>1, <5>1
      <4>2. CASE c = t /\ g[c] = w[1]
        BY <1>3, <1>4, <2>4, <2>11, <4>2
      <4>3. CASE \E i \in 1 .. n - 1 : c = w[i] /\ g[c] = w[i + 1]
        <5>1. c \in New /\ g[c] \in New
          BY <2>4, <4>3
        <5>2. QED
          BY <1>4, <2>11, <5>1
      <4>4. QED
        BY <2>3, <3>3, <4>1, <4>2, <4>3
    <3>4. QED
      BY <3>1, <3>2, <3>3 DEF Kinds
  <2>13. ASSUME NEW x, NoLinkTo(f, x), x \notin New, x # EOC, x \in Cluster PROVE NoLinkTo(g, x)
    <3>1. ASSUME NEW c \in Cluster, g[c] = x PROVE FALSE
      BY <2>3, <2>4, <2>13, <3>1 DEF NoLinkTo
    <3>2. QED
      BY <3>1 DEF NoLinkTo
  <2>14. ASSUME NEW a \in A, h[a] # 0
         PROVE  /\ h[a] \in Cluster \ {Root} /\ g[h[a]] # FREE /\ NoLinkTo(g, h[a])
                /\ h[a] \in K <=> a \notin D
    <3>1. /\ h[a] \in Cluster \ {Root} /\ f[h[a]] # FREE /\ NoLinkTo(f, h[a])
          /\ h[a] \in J <=> a \notin D
          /\ h[a] \notin New
      BY <1>1, <1>4, <2>14 DEF Heads
    <3>2. NoLinkTo(g, h[a])
      BY <1>2, <2>13, <3>1
    <3>3. QED
      BY <2>9, <2>11, <3>1, <3>2
  <2>15. Heads(g, A, h, D, K)
    BY <1>1, <2>14 DEF Heads
  <2>16. Covered(g, A, h)
    <3>1. \A r : Owner(A, h, r) /\ r # 0 => NoLinkTo(g, r)
      BY <2>12, <2>15, OwnersAreHeads
    <3>2. ASSUME NEW c \in Cluster, c # t, \A i \in 1 .. Len(w) : w[i] # c PROVE g[c] = f[c]
      <4>1. c \notin New
        BY <3>2 DEF New
      <4>2. QED
        BY <1>5, <3>2, <4>1
    <3>3. /\ g[t] = w[1] /\ \A i \in 1 .. Len(w) - 1 : g[w[i]] = w[i + 1]
      BY <1>5, <1>7
    <3> HIDE DEF n, New
    <3>4. QED
      BY <1>1, <1>7, <2>10, <3>1, <3>2, <3>3, CoverGrow
  <2>17. QED
    BY <1>5, <2>10, <2>12, <2>15, <2>16 DEF Forest
<1>8. QED
  BY <1>6, <1>7

\* An owner without a chain gets its first clusters.
LEMMA StartForest ==
    ASSUME NEW f, NEW A, NEW h, NEW D, NEW J, Forest(f, A, h, D, J),
           NEW a \in A, a \notin D, h[a] = 0,
           NEW w \in Seq(Cluster), w # << >>, Distinct(w),
           \A i \in 1 .. Len(w) : f[w[i]] = FREE,
           NEW k, k[a] = w[1], \A b \in A \ {a} : k[b] = h[b]
    PROVE  Forest(Linked(f, 0, w), A, k, D, J)
<1>1. Links(f) /\ Kinds(f, J) /\ Heads(f, A, h, D, J) /\ f \in Table /\ Covered(f, A, h)
  BY DEF Forest, Links
<1>2. /\ FREE \notin Cluster /\ EOC \notin Cluster /\ FREE # EOC /\ 0 \notin Cluster
      /\ Root \in Cluster
  BY Clusters
<1> DEFINE New == {w[i] : i \in 1 .. Len(w)}
           n == Len(w)
<1>3. /\ New \subseteq Cluster /\ 0 \notin New
      /\ \A c \in New : f[c] = FREE
  BY <1>2
<1>4. \A c \in New : /\ c \in J /\ c # Root /\ NoLinkTo(f, c)
                     /\ \A b \in A : h[b] # c
  BY <1>3, FreeIsNew
<1>5. PICK g : /\ g = Linked(f, 0, w) /\ g \in Table
               /\ \A i \in 1 .. Len(w) - 1 : g[w[i]] = w[i + 1]
               /\ g[w[Len(w)]] = EOC
               /\ \A c \in Cluster \ New : g[c] = f[c]
  BY <1>1, <1>2, <1>3, LinkedIs
<1>6. n \in Nat /\ n >= 1
  OBVIOUS
<1>7. \A c \in New : \E i \in 1 .. n : c = w[i]
  OBVIOUS
<1>8. /\ 1 \in 1 .. n /\ w[1] \in New
      /\ \A i \in 1 .. n - 1 : /\ i \in 1 .. n /\ i + 1 \in 1 .. n /\ i + 1 # 1
                               /\ w[i] \in New /\ w[i + 1] \in New
  BY <1>6
<1>9. \A i, j \in 1 .. n : w[i] = w[j] => i = j
  BY DEF Distinct
<1>10. /\ \A i \in 1 .. n - 1 : g[w[i]] = w[i + 1]
       /\ g[w[n]] = EOC
  BY <1>5
<1> HIDE DEF New, n
<1>11. ASSUME NEW c \in Cluster, g[c] \in Cluster
       PROVE  \/ c \notin New /\ g[c] = f[c] /\ g[c] \notin New /\ g[c] # Root
              \/ \E i \in 1 .. n - 1 : c = w[i] /\ g[c] = w[i + 1]
  <2>1. CASE c \in New
    <3>1. PICK i \in 1 .. n : c = w[i]
      BY <1>7, <2>1
    <3>2. i # n
      BY <1>2, <1>10, <1>11, <3>1
    <3>3. i \in 1 .. n - 1
      BY <1>6, <3>2
    <3>4. QED
      BY <1>10, <3>1, <3>3
  <2>2. CASE c \notin New
    <3>1. g[c] = f[c]
      BY <1>5, <2>2
    <3>2. g[c] \notin New
      BY <1>4, <3>1 DEF NoLinkTo
    <3>3. g[c] # Root
      BY <1>1, <1>11, <3>1 DEF Kinds
    <3>4. QED
      BY <2>2, <3>1, <3>2, <3>3
  <2>3. QED
    BY <2>1, <2>2
<1>12. ASSUME NEW c \in Cluster, NEW d \in Cluster, g[c] = g[d], g[c] \in Cluster
       PROVE  c = d
  <2>1. CASE c \notin New /\ g[c] = f[c] /\ g[c] \notin New
    <3>1. d \notin New /\ g[d] = f[d]
      <4>1. ~ \E i \in 1 .. n - 1 : d = w[i] /\ g[d] = w[i + 1]
        BY <1>8, <1>12, <2>1
      <4>2. QED
        BY <1>11, <1>12, <4>1
    <3>2. QED
      BY ZenonT(60), <1>1, <1>12, <2>1, <3>1 DEF Links
  <2>2. CASE \E i \in 1 .. n - 1 : c = w[i] /\ g[c] = w[i + 1]
    <3>1. PICK i \in 1 .. n - 1 : c = w[i] /\ g[c] = w[i + 1]
      BY <2>2
    <3>2. PICK j \in 1 .. n - 1 : d = w[j] /\ g[d] = w[j + 1]
      BY <1>8, <1>11, <1>12, <3>1
    <3>3. i + 1 = j + 1
      BY <1>8, <1>9, <1>12, <3>1, <3>2
    <3>4. i = j
      BY <1>6, <3>3
    <3>5. QED
      BY <3>1, <3>2, <3>4
  <2>3. QED
    BY <1>11, <1>12, <2>1, <2>2
<1>13. ASSUME NEW c \in New PROVE g[c] # FREE
  <2>1. PICK i \in 1 .. n : c = w[i]
    BY <1>7
  <2>2. CASE i = n
    BY <1>2, <1>10, <2>1, <2>2
  <2>3. CASE i # n
    <3>1. i \in 1 .. n - 1
      BY <1>6, <2>3
    <3>2. g[c] \in New
      BY <1>8, <1>10, <2>1, <3>1
    <3>3. QED
      BY <1>2, <1>3, <3>2
  <2>4. QED
    BY <2>2, <2>3
<1>14. \A c \in Cluster : f[c] # FREE => g[c] # FREE
  BY <1>5, <1>13
<1>15. Links(g)
  <2>1. ASSUME NEW c \in Cluster, g[c] \in Cluster PROVE g[g[c]] # FREE
    <3>1. CASE g[c] \in New
      BY <1>13, <3>1
    <3>2. CASE g[c] \notin New
      <4>1. g[c] = f[c]
        BY <1>8, <1>11, <2>1, <3>2
      <4>2. f[g[c]] # FREE
        BY <1>1, <2>1, <4>1 DEF Links
      <4>3. QED
        BY <1>14, <2>1, <4>2
    <3>3. QED
      BY <3>1, <3>2
  <2>2. QED
    BY <1>5, <1>12, <2>1 DEF Links
<1>16. Kinds(g, J)
  <2>1. ASSUME NEW c \in Cluster, g[c] = FREE PROVE c \in J
    <3>1. f[c] = FREE
      BY <1>5, <1>13, <2>1
    <3>2. QED
      BY <1>1, <3>1 DEF Kinds
  <2>2. ASSUME NEW c \in Cluster, g[c] \in Cluster PROVE g[c] # Root /\ (c \in J <=> g[c] \in J)
    <3>1. CASE c \notin New /\ g[c] = f[c] /\ g[c] \notin New /\ g[c] # Root
      BY <1>1, <2>2, <3>1 DEF Kinds
    <3>2. CASE \E i \in 1 .. n - 1 : c = w[i] /\ g[c] = w[i + 1]
      BY <1>4, <1>8, <3>2
    <3>3. QED
      BY <1>11, <2>2, <3>1, <3>2
  <2>3. QED
    BY <1>1, <2>1, <2>2 DEF Kinds
<1>17. ASSUME NEW x \in Cluster, NoLinkTo(f, x), x \notin New \/ x = w[1] PROVE NoLinkTo(g, x)
  <2>1. ASSUME NEW c \in Cluster, g[c] = x PROVE FALSE
    <3>1. \A i \in 1 .. n - 1 : w[i + 1] # w[1]
      BY <1>8, <1>9
    <3>2. QED
      BY <1>8, <1>11, <1>17, <2>1, <3>1 DEF NoLinkTo
  <2>2. QED
    BY <2>1 DEF NoLinkTo
<1>18. /\ w[1] \in Cluster \ {Root} /\ g[w[1]] # FREE /\ NoLinkTo(g, w[1]) /\ w[1] \in J
       /\ \A b \in A : h[b] # w[1]
  <2>1. w[1] \in Cluster /\ NoLinkTo(f, w[1])
    BY <1>3, <1>4, <1>8
  <2>2. NoLinkTo(g, w[1])
    BY <1>17, <2>1
  <2>3. QED
    BY <1>4, <1>8, <1>13, <2>1, <2>2
<1>19. ASSUME NEW b \in A, k[b] # 0
       PROVE  /\ k[b] \in Cluster \ {Root} /\ g[k[b]] # FREE /\ NoLinkTo(g, k[b])
              /\ k[b] \in J <=> b \notin D
  <2>1. CASE b = a
    BY <1>18, <2>1
  <2>2. CASE b # a
    <3>1. k[b] = h[b] /\ h[b] # 0
      BY <1>19, <2>2
    <3>2. /\ h[b] \in Cluster \ {Root} /\ f[h[b]] # FREE /\ NoLinkTo(f, h[b])
          /\ h[b] \in J <=> b \notin D
          /\ h[b] \notin New
      BY <1>1, <1>4, <3>1 DEF Heads
    <3>3. NoLinkTo(g, h[b])
      BY <1>17, <3>2
    <3>4. QED
      BY <1>14, <3>1, <3>2, <3>3
  <2>3. QED
    BY <2>1, <2>2
<1>20. \A b \in A \cap D : k[b] # 0
  BY <1>1 DEF Heads
<1>21. \A b, c \in A : k[b] # 0 /\ k[b] = k[c] => b = c
  BY <1>1, <1>18 DEF Heads
<1>22. Heads(g, A, k, D, J)
  BY <1>19, <1>20, <1>21 DEF Heads
<1>23. Covered(g, A, k)
  <2>1. \A r : Owner(A, k, r) /\ r # 0 => NoLinkTo(g, r)
    BY <1>16, <1>22, OwnersAreHeads
  <2>2. ASSUME NEW c \in Cluster, \A i \in 1 .. Len(w) : w[i] # c PROVE g[c] = f[c]
    <3>1. c \notin New
      BY <2>2 DEF New
    <3>2. QED
      BY <1>5, <3>1
  <2>3. \A i \in 1 .. Len(w) - 1 : g[w[i]] = w[i + 1]
    BY <1>5
  <2> HIDE DEF n, New
  <2>4. QED
    BY SMTT(60), <1>1, <1>15, <2>1, <2>2, <2>3, CoverStart
<1>24. QED
  BY <1>5, <1>15, <1>16, <1>22, <1>23 DEF Forest

\* An owner without a chain can be added.
LEMMA AddForest ==
    ASSUME NEW f, NEW A, NEW h, NEW D, NEW J, Forest(f, A, h, D, J), NEW a, a \notin D,
           NEW k, k[a] = 0, \A b \in A : b # a => k[b] = h[b], a \notin A
    PROVE  Forest(f, A \cup {a}, k, D, J)
<1>1. Heads(f, A \cup {a}, k, D, J)
  BY DEF Forest, Heads
<1>2. Covered(f, A \cup {a}, k)
  BY DEF Forest, Covered, Owner
<1>3. QED
  BY <1>1, <1>2 DEF Forest

\* An owner of a single cluster becomes a directory.
LEMMA DirForest ==
    ASSUME NEW f, NEW A, NEW h, NEW D, NEW J, Forest(f, A, h, D, J), NEW a \in A,
           h[a] # 0, a \notin D, f[h[a]] \notin Cluster
    PROVE  Forest(f, A, h, D \cup {a}, J \ {h[a]})
<1>1. Links(f) /\ Kinds(f, J) /\ Heads(f, A, h, D, J)
  BY DEF Forest
<1>2. h[a] \in Cluster /\ f[h[a]] # FREE /\ NoLinkTo(f, h[a])
  BY <1>1 DEF Heads
<1>3. Kinds(f, J \ {h[a]})
  <2>1. ASSUME NEW c \in Cluster, f[c] \in Cluster
        PROVE  f[c] # Root /\ (c \in J \ {h[a]} <=> f[c] \in J \ {h[a]})
    <3>1. c # h[a] /\ f[c] # h[a]
      BY <1>2, <2>1 DEF NoLinkTo
    <3>2. QED
      BY <1>1, <2>1, <3>1 DEF Kinds
  <2>2. QED
    BY <1>1, <1>2, <2>1 DEF Kinds
<1>4. Heads(f, A, h, D \cup {a}, J \ {h[a]})
  <2>1. ASSUME NEW b \in A, h[b] # 0
        PROVE  /\ h[b] \in Cluster \ {Root} /\ f[h[b]] # FREE /\ NoLinkTo(f, h[b])
               /\ h[b] \in J \ {h[a]} <=> b \notin D \cup {a}
    BY <1>1, <2>1 DEF Heads
  <2>2. QED
    BY <1>1, <2>1 DEF Heads
<1>5. QED
  BY <1>1, <1>3, <1>4 DEF Forest, Covered

\* Only what the heads of the owners are matters.
LEMMA SameForest ==
    ASSUME NEW f, NEW A, NEW h, NEW D, NEW J, Forest(f, A, h, D, J),
           NEW k, \A b \in A : k[b] = h[b]
    PROVE  Forest(f, A, k, D, J)
<1>1. Heads(f, A, k, D, J)
  BY DEF Forest, Heads
<1>2. Covered(f, A, k)
  BY DEF Forest, Covered, Owner
<1>3. QED
  BY <1>1, <1>2 DEF Forest

(***************************************************************************)
(* The invariant.  Its parts are about a table f, the contents ct of the   *)
(* clusters and a table fl of open files, so that one lemma serves the     *)
(* states before and after a step.                                         *)
(***************************************************************************)

Locs == Cluster \X (1 .. DirSlots)
Contents == [Cluster -> [1 .. DirSlots -> Slot]]
Files == [Fd -> [is_open : BOOLEAN, first : Cluster \cup {0}, size : 0 .. MaxSize,
                 pos : 0 .. MaxSize, loc : Locs \cup {<<0, 0>>}]]

SlotIn(ct, loc) == ct[loc[1]][loc[2]]
LiveIn(ct) == {loc \in Locs : SlotIn(ct, loc).kind = "live"}
DirsIn(ct) == {loc \in LiveIn(ct) : SlotIn(ct, loc).dir}
JunkIn(ct) == {c \in Cluster : ct[c] = Filled("junk")}

\* The first cluster of an entry, as Holder has it.
IsOpenAt(fl, fd, loc) == fl[fd].is_open /\ fl[fd].loc = loc
HeadAt(ct, fl, loc) ==
    IF \E fd \in Fd : IsOpenAt(fl, fd, loc)
    THEN fl[CHOOSE fd \in Fd : IsOpenAt(fl, fd, loc)].first
    ELSE SlotIn(ct, loc).first
HeadsIn(ct, fl) == [loc \in LiveIn(ct) |-> HeadAt(ct, fl, loc)]

\* What is open is a live entry of a file, and open once.
OpenOK(ct, fl) ==
    /\ \A fd \in Fd : fl[fd].is_open => fl[fd].loc \in LiveIn(ct) \ DirsIn(ct)
    /\ \A fd, e \in Fd : fl[fd].is_open /\ fl[e].is_open /\ fl[fd].loc = fl[e].loc => fd = e

DirForestOK(f, ct, fl) == Forest(f, LiveIn(ct), HeadsIn(ct, fl), DirsIn(ct), JunkIn(ct))

\* The first clusters of directories.
DirHead(ct, c) == c = Root \/ \E loc \in DirsIn(ct) : SlotIn(ct, loc).first = c

\* find_entry on f and ct.
FoundIn(f, ct, dir, name) ==
    LET w == Walk(f, dir)
    IN  {At(w, p) : p \in {q \in Positions(w) :
            /\ SlotIn(ct, At(w, q)).kind = "live" /\ SlotIn(ct, At(w, q)).name = name
            /\ \A r \in 1 .. q - 1 :
                  /\ SlotIn(ct, At(w, r)).kind # "end"
                  /\ ~ (SlotIn(ct, At(w, r)).kind = "live" /\ SlotIn(ct, At(w, r)).name = name)}}

\* The directories d[1], d[2], ... that the names of path lead to from the root.
Leads(f, ct, d, path) ==
    /\ d \in [0 .. Len(path) -> Cluster] /\ d[0] = Root
    /\ \A k \in 1 .. Len(path) : \E loc \in DirsIn(ct) :
          FoundIn(f, ct, d[k - 1], path[k]) = {loc} /\ SlotIn(ct, loc).first = d[k]
    /\ \A i, j \in 0 .. Len(path) : d[i] = d[j] => i = j

\* The way to the current directory: it is never one of those before the last, and
\* the last unless the stack has been full.
PathOK(f, ct, cw, path) ==
    /\ path \in Seq(DirNames) /\ Len(path) <= MAX_PATH_DEPTH
    /\ cw \in Cluster /\ DirHead(ct, cw)
    /\ \E d : /\ Leads(f, ct, d, path)
              /\ \A k \in 0 .. Len(path) - 1 : d[k] # cw
              /\ Len(path) < MAX_PATH_DEPTH => d[Len(path)] = cw

\* The slots of directories: none is file data, the end mark is in the last cluster
\* of the chain only, and no live entry follows it there.
SlotsOK(f, ct) ==
    \A l \in Locs : l[1] \notin JunkIn(ct) =>
        /\ SlotIn(ct, l).kind # "junk"
        /\ SlotIn(ct, l).kind = "end" => f[l[1]] \notin Cluster
        /\ \A m \in Locs : m[1] = l[1] /\ m[2] < l[2] /\ SlotIn(ct, m).kind = "end" =>
              SlotIn(ct, l).kind # "live"

\* The chain of a file has room for its size, as the descriptor has both when the
\* file is open, and the entry when it is not; the size of a directory is 0.
Fits(f, c, size) == size <= ClusterSize * Cardinality(Chain(f, c))
EntryFits(f, ct, l) ==
    IF SlotIn(ct, l).dir THEN SlotIn(ct, l).size = 0
    ELSE Fits(f, SlotIn(ct, l).first, SlotIn(ct, l).size)
SizesOK(f, ct, fl) ==
    /\ \A fd \in Fd : fl[fd].is_open => Fits(f, fl[fd].first, fl[fd].size)
    /\ \A l \in LiveIn(ct) : (\A fd \in Fd : ~ IsOpenAt(fl, fd, l)) => EntryFits(f, ct, l)

FatInv ==
    /\ fat \in Table /\ content \in Contents /\ file \in Files
    /\ OpenOK(content, file)
    /\ DirForestOK(fat, content, file)
    /\ PathOK(fat, content, cwd, path_stack)
    /\ SlotsOK(fat, content)
    /\ SizesOK(fat, content, file)

\* The operators of Fat32 are these, before and after a step.
LEMMA Forms ==
    /\ Live = LiveIn(content) /\ Live' = LiveIn(content')
    /\ \A loc : /\ Holder(loc).first = HeadAt(content, file, loc)
                /\ OpenAt(loc) <=> \E fd \in Fd : IsOpenAt(file, fd, loc)
                /\ SlotAt(loc) = SlotIn(content, loc)
    /\ \A dir, name : find_entry(dir, name) = FoundIn(fat, content, dir, name)
<1>1. Live = LiveIn(content) /\ Live' = LiveIn(content')
  BY DEF Live, LiveIn, SlotAt, SlotIn, Locs
<1>2. ASSUME NEW loc
      PROVE  /\ Holder(loc).first = HeadAt(content, file, loc)
             /\ OpenAt(loc) <=> \E fd \in Fd : IsOpenAt(file, fd, loc)
             /\ SlotAt(loc) = SlotIn(content, loc)
  BY DEF Holder, HeadAt, OpenAt, IsOpenAt, SlotAt, SlotIn
<1>3. \A dir, name : find_entry(dir, name) = FoundIn(fat, content, dir, name)
  BY DEF find_entry, FoundIn, SlotAt, SlotIn
<1>4. QED
  BY <1>1, <1>2, <1>3

\* A position of a walk is a slot of one of its clusters.
LEMMA Places ==
    ASSUME NEW w \in Seq(Cluster), NEW p \in Positions(w)
    PROVE  /\ At(w, p) \in Locs
           /\ \E k \in 1 .. Len(w) : At(w, p)[1] = w[k]
<1>1. DirSlots \in Nat /\ DirSlots >= 1
  BY FatAssumption, SMT
<1>2. Len(w) \in Nat
  OBVIOUS
<1>3. PICK n \in Nat : n = Len(w)
  BY <1>2
<1>4. PICK q : q = p - 1
  OBVIOUS
<1>5. p \in 1 .. n * DirSlots /\ n * DirSlots \in Nat
  BY <1>1, <1>3 DEF Positions
<1>6. q \in Nat /\ q < n * DirSlots
  BY <1>4, <1>5
<1>7. PICK a : a = q \div DirSlots
  OBVIOUS
<1>8. PICK b : b = q % DirSlots
  OBVIOUS
<1>9. a \in Nat /\ b \in 0 .. DirSlots - 1 /\ q = DirSlots * a + b
  BY <1>1, <1>6, <1>7, <1>8
<1>10. a < n
  <2>1. SUFFICES ASSUME a >= n PROVE FALSE
    BY <1>9
  <2>2. PICK e \in Nat : a = n + e
    <3>1. a - n \in Nat /\ a = n + (a - n)
      BY <1>3, <1>9, <2>1
    <3>2. QED
      BY <3>1
  <2>3. DirSlots \in Nat /\ n \in Nat /\ e \in Nat
    BY <1>1
  <2>4. /\ DirSlots * (n + e) = DirSlots * n + DirSlots * e
        /\ DirSlots * n = n * DirSlots
        /\ DirSlots * e \in Nat /\ DirSlots * n \in Nat
    BY ONLY <2>3, SMT
  <2>5. PICK x \in Nat, y \in Nat : x = n * DirSlots /\ y = DirSlots * e
    BY <2>4
  <2>6. q = x + y + b /\ q < x /\ b >= 0 /\ b \in Int
    BY <1>6, <1>9, <2>2, <2>4, <2>5
  <2>7. QED
    BY ONLY <2>5, <2>6
<1>11. a + 1 \in 1 .. Len(w) /\ b + 1 \in 1 .. DirSlots
  BY <1>1, <1>3, <1>9, <1>10
<1>12. At(w, p) = <<w[a + 1], b + 1>>
  BY <1>4, <1>7, <1>8 DEF At
<1>13. w[a + 1] \in Cluster
  BY <1>11
<1>14. QED
  BY <1>11, <1>12, <1>13 DEF Locs

\* Two numbers with the same rest.
LEMMA Division ==
    ASSUME NEW m \in Nat \ {0}, NEW a \in Nat, NEW b \in 0 .. m - 1,
           NEW c \in Nat, NEW d \in 0 .. m - 1
    PROVE  /\ m * a + b < m * c + d => a < c \/ (a = c /\ b < d)
           /\ m * a + b = m * c + d => a = c /\ b = d
<1>1. ASSUME NEW x \in Nat, NEW y \in Nat, NEW u \in 0 .. m - 1, NEW v \in 0 .. m - 1, x < y
      PROVE  m * x + u < m * y + v
  <2>1. PICK e \in Nat : y = x + 1 + e
    <3>1. y - x - 1 \in Nat /\ y = x + 1 + (y - x - 1)
      BY <1>1
    <3>2. QED
      BY <3>1
  <2>2. /\ m * (x + 1 + e) = m * x + m + m * e
        /\ m * x \in Nat /\ m * e \in Nat
    BY ONLY m \in Nat, x \in Nat, e \in Nat, SMT
  <2>3. PICK p \in Nat, q \in Nat : p = m * x /\ q = m * e
    BY <2>2
  <2>4. m * y + v = p + m + q + v
    BY <2>1, <2>2, <2>3
  <2>5. p + u < p + m + q + v
    BY <2>3
  <2>6. QED
    BY <2>3, <2>4, <2>5
<1>2. c < a => m * c + d < m * a + b
  BY <1>1
<1>3. a < c => m * a + b < m * c + d
  BY <1>1
<1>4. m * a \in Nat /\ m * c \in Nat
  BY ONLY m \in Nat, a \in Nat, c \in Nat, SMT
<1>5. PICK p \in Nat, q \in Nat : p = m * a /\ q = m * c
  BY <1>4
<1>6. /\ c < a => q + d < p + b
      /\ a < c => p + b < q + d
      /\ a = c => p = q
  BY <1>2, <1>3, <1>5
<1>7. /\ p + b < q + d => a < c \/ (a = c /\ b < d)
      /\ p + b = q + d => a = c /\ b = d
  BY ONLY <1>6, a \in Nat, c \in Nat, b \in Int, d \in Int, p \in Nat, q \in Nat
<1>8. QED
  BY <1>5, <1>7

\* Every slot of a cluster of the walk has a position, and positions count the
\* clusters of the walk first, then the slots.
LEMMA PlaceOf ==
    ASSUME NEW w \in Seq(Cluster), NEW p
    PROVE  /\ p \in Positions(w) =>
                 \E a \in 1 .. Len(w), b \in 1 .. DirSlots :
                    At(w, p) = <<w[a], b>> /\ p = DirSlots * (a - 1) + b
           /\ \A a \in 1 .. Len(w), b \in 1 .. DirSlots :
                 p = DirSlots * (a - 1) + b => p \in Positions(w) /\ At(w, p) = <<w[a], b>>
<1>1. DirSlots \in Nat \ {0}
  BY FatAssumption, SMT
<1>2. PICK m \in Nat \ {0} : m = DirSlots
  BY <1>1
<1>3. PICK n \in Nat : n = Len(w)
  OBVIOUS
<1>4. n * m \in Nat /\ n * m = m * n
  BY ONLY n \in Nat, m \in Nat, SMT
<1>5. ASSUME p \in Positions(w)
      PROVE  \E a \in 1 .. n, b \in 1 .. m : At(w, p) = <<w[a], b>> /\ p = m * (a - 1) + b
  <2>1. PICK q \in Nat : q = p - 1 /\ q < m * n
    <3>1. p \in 1 .. n * m
      BY <1>2, <1>3, <1>5 DEF Positions
    <3>2. p - 1 \in Nat /\ p - 1 < m * n
      BY <1>4, <3>1
    <3>3. QED
      BY <3>2
  <2>2. PICK a \in Nat, b \in 0 .. m - 1 : a = q \div m /\ b = q % m /\ q = m * a + b
    <3>1. PICK a, b : a = q \div m /\ b = q % m
      OBVIOUS
    <3>2. a \in Nat /\ b \in 0 .. m - 1 /\ q = m * a + b
      BY ONLY q \in Nat, m \in Nat \ {0}, <3>1, SMT
    <3>3. QED
      BY <3>1, <3>2
  <2>3. a < n
    <3>1. 0 \in 0 .. m - 1
      OBVIOUS
    <3>2. m * n + 0 = m * n
      BY <1>4
    <3>3. m * a + b < m * n + 0
      BY <2>1, <2>2, <3>2
    <3>4. QED
      BY <3>1, <3>3, Division
  <2>4. PICK x \in 1 .. n, y \in 1 .. m : x = a + 1 /\ y = b + 1 /\ a = x - 1
    BY <2>3
  <2>5. At(w, p) = <<w[x], y>>
    BY <1>2, <2>1, <2>2, <2>4 DEF At
  <2>6. p = m * (x - 1) + y
    <3>1. m * a \in Int
      BY ONLY m \in Nat, a \in Nat, SMT
    <3>2. PICK z \in Int : z = m * a
      BY <3>1
    <3>3. p = q + 1
      BY <1>4, <2>1, <1>5 DEF Positions
    <3>4. p = z + y
      BY <2>2, <2>4, <3>2, <3>3
    <3>5. QED
      BY <2>4, <3>2, <3>4
  <2>7. QED
    BY <2>5, <2>6
<1>6. ASSUME NEW a \in 1 .. n, NEW b \in 1 .. m, p = m * (a - 1) + b
      PROVE  p \in Positions(w) /\ At(w, p) = <<w[a], b>>
  <2>1. PICK x \in Nat, y \in 0 .. m - 1 : x = a - 1 /\ y = b - 1 /\ a = x + 1 /\ b = y + 1 /\ x < n
    <3>1. a - 1 \in Nat /\ b - 1 \in 0 .. m - 1 /\ a = (a - 1) + 1 /\ b = (b - 1) + 1 /\ a - 1 < n
      OBVIOUS
    <3>2. QED
      BY <3>1
  <2>2. PICK z \in Nat : z = m * x /\ p = z + b
    <3>1. m * x \in Nat
      BY ONLY m \in Nat, x \in Nat, SMT
    <3>2. QED
      BY <1>6, <2>1, <3>1
  <2>3. p - 1 = m * x + y /\ p - 1 \in Nat /\ p \in Nat
    BY <2>1, <2>2
  <2>4. p \in 1 .. n * m
    <3>1. PICK e \in Nat : n = x + 1 + e
      <4>1. n - x - 1 \in Nat /\ n = x + 1 + (n - x - 1)
        BY <2>1
      <4>2. QED
        BY <4>1
    <3>2. m * (x + 1 + e) = m * x + m + m * e /\ m * e \in Nat
      BY ONLY m \in Nat, x \in Nat, e \in Nat, SMT
    <3>3. PICK u \in Nat : u = m * e /\ m * n = z + m + u
      BY <2>2, <3>1, <3>2
    <3>4. p <= z + m + u
      BY <2>1, <2>2
    <3>5. QED
      BY <1>4, <2>3, <3>3, <3>4, <2>2
  <2>5. PICK c \in Nat, d \in 0 .. m - 1 :
           c = (p - 1) \div m /\ d = (p - 1) % m /\ p - 1 = m * c + d
    <3>1. PICK r \in Nat : r = p - 1
      BY <2>3
    <3>2. PICK c, d : c = r \div m /\ d = r % m
      OBVIOUS
    <3>3. c \in Nat /\ d \in 0 .. m - 1 /\ r = m * c + d
      BY ONLY r \in Nat, m \in Nat \ {0}, <3>2, SMT
    <3>4. QED
      BY <3>1, <3>2, <3>3
  <2>6. c = x /\ d = y
    BY <2>3, <2>5, Division
  <2>7. QED
    BY <1>2, <1>3, <2>1, <2>4, <2>5, <2>6 DEF Positions, At
<1>7. QED
  BY <1>2, <1>3, <1>5, <1>6

LEMMA PlacesOrder ==
    ASSUME NEW w \in Seq(Cluster), NEW p \in Positions(w), NEW q \in Positions(w), q < p
    PROVE  \E a, c \in 1 .. Len(w), b, d \in 1 .. DirSlots :
              /\ At(w, p) = <<w[a], b>> /\ At(w, q) = <<w[c], d>>
              /\ c < a \/ (c = a /\ d < b)
<1>1. DirSlots \in Nat \ {0}
  BY FatAssumption, SMT
<1>2. PICK a \in 1 .. Len(w), b \in 1 .. DirSlots :
         At(w, p) = <<w[a], b>> /\ p = DirSlots * (a - 1) + b
  BY PlaceOf
<1>3. PICK c \in 1 .. Len(w), d \in 1 .. DirSlots :
         At(w, q) = <<w[c], d>> /\ q = DirSlots * (c - 1) + d
  BY PlaceOf
<1>4. PICK x \in Nat, y \in 0 .. DirSlots - 1 : x = a - 1 /\ y = b - 1 /\ a = x + 1 /\ b = y + 1
  <2>1. a - 1 \in Nat /\ b - 1 \in 0 .. DirSlots - 1 /\ a = (a - 1) + 1 /\ b = (b - 1) + 1
    BY <1>1
  <2>2. QED
    BY <2>1
<1>5. PICK u \in Nat, v \in 0 .. DirSlots - 1 : u = c - 1 /\ v = d - 1 /\ c = u + 1 /\ d = v + 1
  <2>1. c - 1 \in Nat /\ d - 1 \in 0 .. DirSlots - 1 /\ c = (c - 1) + 1 /\ d = (d - 1) + 1
    BY <1>1
  <2>2. QED
    BY <2>1
<1>6. DirSlots * x \in Nat /\ DirSlots * u \in Nat
  BY ONLY <1>1, x \in Nat, u \in Nat, SMT
<1>7. DirSlots * u + v < DirSlots * x + y
  <2>1. p = DirSlots * x + b /\ q = DirSlots * u + d
    BY ONLY <1>2, <1>3, <1>4, <1>5, Zenon
  <2>2. PICK r \in Nat, s \in Nat : r = DirSlots * x /\ s = DirSlots * u
    BY <1>6
  <2>3. s + v < r + y
    BY <1>1, <1>4, <1>5, <2>1, <2>2
  <2>4. QED
    BY <2>2, <2>3
<1>8. u < x \/ (u = x /\ v < y)
  BY <1>1, <1>7, Division
<1>9. c < a \/ (c = a /\ d < b)
  BY <1>4, <1>5, <1>8
<1>10. QED
  BY <1>2, <1>3, <1>9

LEMMA SlotType ==
    ASSUME NEW ct \in Contents, NEW loc \in Locs
    PROVE  /\ SlotIn(ct, loc) \in Slot
           /\ loc[1] \in Cluster /\ loc[2] \in 1 .. DirSlots /\ loc = <<loc[1], loc[2]>>
           /\ SlotIn(ct, loc) = ct[loc[1]][loc[2]]
<1>1. loc[1] \in Cluster /\ loc[2] \in 1 .. DirSlots /\ loc = <<loc[1], loc[2]>>
  BY DEF Locs
<1>2. ct[loc[1]] \in [1 .. DirSlots -> Slot]
  BY <1>1 DEF Contents
<1>3. ct[loc[1]][loc[2]] \in Slot
  BY <1>1, <1>2
<1>4. QED
  BY <1>1, <1>3 DEF SlotIn

\* The first entry of that name, in the chain of the directory.
LEMMA FoundIs ==
    ASSUME NEW f \in Table, NEW ct \in Contents, NEW dir, NEW name,
           NEW loc \in FoundIn(f, ct, dir, name)
    PROVE  /\ loc \in LiveIn(ct) /\ loc \in Locs /\ loc[1] \in Chain(f, dir)
           /\ SlotIn(ct, loc).name = name
           /\ FoundIn(f, ct, dir, name) = {loc}
<1>1. PICK w : w = Walk(f, dir) /\ w \in Seq(Cluster)
  BY WalkIs DEF IsWalk
<1> DEFINE Hit(q) == SlotIn(ct, At(w, q)).kind = "live" /\ SlotIn(ct, At(w, q)).name = name
           First(q) == /\ Hit(q)
                       /\ \A r \in 1 .. q - 1 : SlotIn(ct, At(w, r)).kind # "end" /\ ~ Hit(r)
<1>2. FoundIn(f, ct, dir, name) = {At(w, p) : p \in {q \in Positions(w) : First(q)}}
  BY <1>1 DEF FoundIn
<1>3. PICK p \in Positions(w) : First(p) /\ loc = At(w, p)
  BY <1>2
<1>4. loc \in Locs /\ loc[1] \in Chain(f, dir)
  <2>1. loc \in Locs /\ \E k \in 1 .. Len(w) : loc[1] = w[k]
    BY <1>1, <1>3, Places
  <2>2. QED
    BY <1>1, <2>1 DEF Chain
<1>5. SlotIn(ct, loc).kind = "live" /\ SlotIn(ct, loc).name = name
  BY <1>3
<1>6. ASSUME NEW q \in Positions(w), First(q) PROVE q = p
  <2>1. p \in Nat /\ q \in Nat /\ p >= 1 /\ q >= 1
    BY DEF Positions
  <2>2. ~ (q < p)
    <3>1. q < p => q \in 1 .. p - 1
      BY <2>1
    <3> HIDE DEF Hit
    <3>2. QED
      BY <1>3, <1>6, <3>1
  <2>3. ~ (p < q)
    <3>1. p < q => p \in 1 .. q - 1
      BY <2>1
    <3> HIDE DEF Hit
    <3>2. QED
      BY <1>3, <1>6, <3>1
  <2>4. QED
    BY <2>1, <2>2, <2>3
<1>7. FoundIn(f, ct, dir, name) = {loc}
  <2> HIDE DEF First
  <2>1. QED
    BY <1>2, <1>3, <1>6
<1>8. QED
  BY <1>4, <1>5, <1>7 DEF LiveIn

\* A search meets only the chain of the directory, and looks at kinds and names.
LEMMA FoundSame ==
    ASSUME NEW f \in Table, NEW g \in Table, NEW ct, NEW cu, NEW dir, NEW name,
           \A c \in Chain(f, dir) : g[c] = f[c],
           \A l \in Locs : l[1] \in Chain(f, dir) =>
               /\ SlotIn(cu, l).kind = SlotIn(ct, l).kind
               /\ SlotIn(cu, l).name = SlotIn(ct, l).name
    PROVE  FoundIn(g, cu, dir, name) = FoundIn(f, ct, dir, name)
<1>1. PICK w : w = Walk(f, dir) /\ w = Walk(g, dir) /\ w \in Seq(Cluster)
  BY SameWalk, WalkIs DEF IsWalk
<1>2. ASSUME NEW p \in Positions(w)
      PROVE  /\ SlotIn(cu, At(w, p)).kind = SlotIn(ct, At(w, p)).kind
             /\ SlotIn(cu, At(w, p)).name = SlotIn(ct, At(w, p)).name
  <2>1. At(w, p) \in Locs /\ \E k \in 1 .. Len(w) : At(w, p)[1] = w[k]
    BY <1>1, Places
  <2>2. At(w, p)[1] \in Chain(f, dir)
    BY <1>1, <2>1 DEF Chain
  <2>3. QED
    BY <2>1, <2>2
<1> DEFINE First(c, q) ==
             /\ SlotIn(c, At(w, q)).kind = "live" /\ SlotIn(c, At(w, q)).name = name
             /\ \A r \in 1 .. q - 1 :
                   /\ SlotIn(c, At(w, r)).kind # "end"
                   /\ ~ (SlotIn(c, At(w, r)).kind = "live" /\ SlotIn(c, At(w, r)).name = name)
<1>3. ASSUME NEW q \in Positions(w) PROVE First(cu, q) <=> First(ct, q)
  <2>1. \A r \in 1 .. q - 1 : r \in Positions(w)
    <3>1. Len(w) * DirSlots \in Int
      <4>1. DirSlots \in Nat
        BY FatAssumption, SMT
      <4>2. QED
        BY <4>1
    <3>2. QED
      BY <3>1 DEF Positions
  <2>2. QED
    BY <1>2, <2>1
<1>4. /\ FoundIn(f, ct, dir, name) = {At(w, p) : p \in {q \in Positions(w) : First(ct, q)}}
      /\ FoundIn(g, cu, dir, name) = {At(w, p) : p \in {q \in Positions(w) : First(cu, q)}}
  BY <1>1 DEF FoundIn
<1> HIDE DEF First
<1>5. QED
  BY <1>3, <1>4

\* The head of an open file is what its descriptor says.
LEMMA HeadOpen ==
    ASSUME NEW ct, NEW fl, OpenOK(ct, fl), NEW fd \in Fd, fl[fd].is_open
    PROVE  HeadAt(ct, fl, fl[fd].loc) = fl[fd].first
<1>1. PICK loc : loc = fl[fd].loc
  OBVIOUS
<1>2. IsOpenAt(fl, fd, loc)
  BY <1>1 DEF IsOpenAt
<1>3. PICK e : e = CHOOSE g \in Fd : IsOpenAt(fl, g, loc)
  OBVIOUS
<1>4. e \in Fd /\ IsOpenAt(fl, e, loc)
  BY <1>2, <1>3
<1>5. e = fd
  BY <1>1, <1>4 DEF OpenOK, IsOpenAt
<1>6. QED
  BY <1>1, <1>2, <1>3, <1>5 DEF HeadAt

LEMMA HeadClosed ==
    ASSUME NEW ct, NEW fl, NEW loc, \A fd \in Fd : ~ IsOpenAt(fl, fd, loc)
    PROVE  HeadAt(ct, fl, loc) = SlotIn(ct, loc).first
BY DEF HeadAt

\* An entry keeps its head when neither its slot nor its descriptor changes it.
LEMMA HeadSame ==
    ASSUME NEW ct, NEW fl, NEW cu, NEW fm, OpenOK(ct, fl), OpenOK(cu, fm), NEW loc,
           \A fd \in Fd : /\ IsOpenAt(fm, fd, loc) <=> IsOpenAt(fl, fd, loc)
                          /\ IsOpenAt(fl, fd, loc) => fm[fd].first = fl[fd].first,
           SlotIn(cu, loc).first = SlotIn(ct, loc).first
    PROVE  HeadAt(cu, fm, loc) = HeadAt(ct, fl, loc)
<1>1. CASE \A fd \in Fd : ~ IsOpenAt(fl, fd, loc)
  <2>1. \A fd \in Fd : ~ IsOpenAt(fm, fd, loc)
    BY <1>1
  <2>2. QED
    BY <1>1, <2>1, HeadClosed
<1>2. CASE \E fd \in Fd : IsOpenAt(fl, fd, loc)
  <2>1. PICK fd \in Fd : IsOpenAt(fl, fd, loc)
    BY <1>2
  <2>2. IsOpenAt(fm, fd, loc)
    BY <2>1
  <2>3. fl[fd].is_open /\ fl[fd].loc = loc /\ fm[fd].is_open /\ fm[fd].loc = loc
    BY <2>1, <2>2 DEF IsOpenAt
  <2>4. HeadAt(ct, fl, loc) = fl[fd].first /\ HeadAt(cu, fm, loc) = fm[fd].first
    BY <2>3, HeadOpen
  <2>5. QED
    BY <2>1, <2>4
<1>3. QED
  BY <1>1, <1>2

\* What is open is no directory, so a directory's head is in its entry.
LEMMA HeadOfDir ==
    ASSUME NEW ct, NEW fl, OpenOK(ct, fl), NEW loc \in DirsIn(ct)
    PROVE  HeadsIn(ct, fl)[loc] = SlotIn(ct, loc).first /\ loc \in LiveIn(ct)
<1>1. loc \in LiveIn(ct)
  BY DEF DirsIn
<1>2. \A fd \in Fd : ~ IsOpenAt(fl, fd, loc)
  BY DEF OpenOK, IsOpenAt
<1>3. QED
  BY <1>1, <1>2, HeadClosed DEF HeadsIn

\* A live slot is in no cluster of file data.
LEMMA LiveNotJunk ==
    ASSUME NEW ct, NEW loc \in Locs, SlotIn(ct, loc).kind # "junk"
    PROVE  loc[1] \in Cluster /\ loc[1] \notin JunkIn(ct)
<1>1. loc[1] \in Cluster /\ loc[2] \in 1 .. DirSlots
  BY DEF Locs
<1>2. Filled("junk")[loc[2]].kind = "junk"
  BY <1>1 DEF Filled, Blank
<1>3. QED
  BY <1>1, <1>2 DEF JunkIn, SlotIn

\* The first cluster of a directory starts a chain of directory clusters.
LEMMA DirHeadIs ==
    ASSUME NEW f, NEW ct, NEW fl, OpenOK(ct, fl), DirForestOK(f, ct, fl),
           NEW c, DirHead(ct, c)
    PROVE  /\ c \in Cluster /\ NoLinkTo(f, c) /\ f[c] # FREE
           /\ Chain(f, c) \cap JunkIn(ct) = {} /\ c \in Chain(f, c)
           /\ \A d \in Chain(f, c) : d \in Cluster /\ f[d] # FREE
<1> DEFINE A == LiveIn(ct)
           h == HeadsIn(ct, fl)
           D == DirsIn(ct)
           J == JunkIn(ct)
<1>1. Links(f) /\ Kinds(f, J) /\ Heads(f, A, h, D, J) /\ f \in Table
  BY DEF DirForestOK, Forest, Links
<1>2. Root \in Cluster
  BY Clusters
<1>3. c \in Cluster /\ NoLinkTo(f, c) /\ c \notin J
  <2>1. CASE c = Root
    BY <1>1, <1>2, <2>1 DEF Kinds, NoLinkTo
  <2>2. CASE c # Root
    <3>1. PICK loc \in D : SlotIn(ct, loc).first = c
      BY <2>2 DEF DirHead
    <3>2. h[loc] = c /\ loc \in A
      BY <3>1, HeadOfDir
    <3> HIDE DEF h, D, A, J
    <3>3. h[loc] # 0
      BY <1>1, <3>1, <3>2 DEF Heads
    <3>4. QED
      BY <1>1, <3>1, <3>2, <3>3 DEF Heads
  <2>3. QED
    BY <2>1, <2>2
<1> HIDE DEF J
<1>4. Chain(f, c) \cap J = {} /\ Chain(f, c) \subseteq Cluster /\ c \in Chain(f, c)
  BY <1>1, <1>3, ChainKind, ChainIs
<1>5. \A d \in Cluster : f[d] = FREE => d \in J
  BY <1>1 DEF Kinds
<1>6. QED
  BY <1>3, <1>4, <1>5 DEF J

\* Different directories have nothing in common.
LEMMA DirsApart ==
    ASSUME NEW f, NEW ct, NEW fl, OpenOK(ct, fl), DirForestOK(f, ct, fl),
           NEW c, DirHead(ct, c), NEW d, DirHead(ct, d), c # d
    PROVE  Chain(f, c) \cap Chain(f, d) = {}
<1>1. NoLinkTo(f, c) /\ NoLinkTo(f, d)
  BY DirHeadIs
<1>2. Links(f)
  BY DEF DirForestOK, Forest
<1>3. QED
  BY <1>1, <1>2, ChainsApart

(***************************************************************************)
(* The way to the current directory.                                       *)
(***************************************************************************)

\* A step from f and ct to g and cu leaves the directory r as it is, but for the
\* sizes and first clusters of its files.
Calm(f, g, ct, cu, r) ==
    \A c \in Chain(f, r) :
        /\ g[c] = f[c]
        /\ \A l \in Locs : l[1] = c =>
              /\ SlotIn(cu, l).kind = SlotIn(ct, l).kind
              /\ SlotIn(cu, l).name = SlotIn(ct, l).name
              /\ SlotIn(cu, l).dir = SlotIn(ct, l).dir
              /\ l \in DirsIn(ct) => SlotIn(cu, l).first = SlotIn(ct, l).first

\* The directories on the way are directories.
LEMMA WayIsDirs ==
    ASSUME NEW f, NEW ct, NEW d, NEW path \in Seq(DirNames), Leads(f, ct, d, path),
           NEW k \in 0 .. Len(path)
    PROVE  DirHead(ct, d[k]) /\ d[k] \in Cluster
<1>1. CASE k = 0
  BY <1>1 DEF Leads, DirHead
<1>2. CASE k # 0
  <2>1. k \in 1 .. Len(path)
    BY <1>2
  <2>2. QED
    BY <2>1 DEF Leads, DirHead
<1>3. QED
  BY <1>1, <1>2

\* The way stays when its directories, but perhaps the last, are left alone.
LEMMA WaySame ==
    ASSUME NEW f \in Table, NEW g \in Table, NEW ct \in Contents, NEW cu, NEW d,
           NEW path \in Seq(DirNames), Leads(f, ct, d, path),
           \A k \in 0 .. Len(path) - 1 : Calm(f, g, ct, cu, d[k])
    PROVE  Leads(g, cu, d, path)
<1>1. ASSUME NEW k \in 1 .. Len(path)
      PROVE  \E loc \in DirsIn(cu) :
                FoundIn(g, cu, d[k - 1], path[k]) = {loc} /\ SlotIn(cu, loc).first = d[k]
  <2>1. PICK loc \in DirsIn(ct) :
           FoundIn(f, ct, d[k - 1], path[k]) = {loc} /\ SlotIn(ct, loc).first = d[k]
    BY DEF Leads
  <2>2. PICK r : r = d[k - 1] /\ Calm(f, g, ct, cu, r)
    <3>1. k - 1 \in 0 .. Len(path) - 1
      OBVIOUS
    <3>2. QED
      BY <3>1
  <2>3. FoundIn(g, cu, r, path[k]) = FoundIn(f, ct, r, path[k])
    BY <2>2, FoundSame DEF Calm
  <2>4. loc \in LiveIn(ct) /\ loc \in Locs /\ loc[1] \in Chain(f, r)
    <3>1. PICK name : name = path[k]
      OBVIOUS
    <3>2. loc \in FoundIn(f, ct, r, name)
      BY <2>1, <2>2, <3>1
    <3>3. QED
      BY <3>2, FoundIs
  <2>5. /\ SlotIn(cu, loc).kind = SlotIn(ct, loc).kind
        /\ SlotIn(cu, loc).dir = SlotIn(ct, loc).dir
        /\ SlotIn(cu, loc).first = SlotIn(ct, loc).first
    BY <2>1, <2>2, <2>4 DEF Calm
  <2>6. loc \in DirsIn(cu)
    BY <2>1, <2>4, <2>5 DEF DirsIn, LiveIn
  <2>7. QED
    BY <2>1, <2>2, <2>3, <2>5, <2>6
<1>2. QED
  BY <1>1 DEF Leads

LEMMA PathSame ==
    ASSUME NEW f \in Table, NEW g \in Table, NEW ct \in Contents, NEW cu, NEW fl,
           OpenOK(ct, fl), DirForestOK(f, ct, fl),
           NEW cw, NEW path, PathOK(f, ct, cw, path), DirHead(cu, cw),
           \A r : DirHead(ct, r) /\ r # cw => Calm(f, g, ct, cu, r)
    PROVE  PathOK(g, cu, cw, path)
<1>1. path \in Seq(DirNames)
  BY DEF PathOK
<1>2. PICK d : /\ Leads(f, ct, d, path)
               /\ \A k \in 0 .. Len(path) - 1 : d[k] # cw
               /\ Len(path) < MAX_PATH_DEPTH => d[Len(path)] = cw
  BY DEF PathOK
<1>3. ASSUME NEW k \in 0 .. Len(path) - 1 PROVE Calm(f, g, ct, cu, d[k])
  <2>1. k \in 0 .. Len(path)
    BY <1>1
  <2>2. DirHead(ct, d[k])
    BY <1>1, <1>2, <2>1, WayIsDirs
  <2>3. QED
    BY <1>2, <2>2
<1>4. Leads(g, cu, d, path)
  BY <1>1, <1>2, <1>3, WaySame
<1>5. QED
  BY <1>2, <1>4 DEF PathOK

\* The recursion of Resolve: the directory after every name.
Resolved(path) ==
    CHOOSE step : step = [k \in 0 .. Len(path) |->
        IF k = 0 THEN Root
        ELSE LET found == find_entry(step[k - 1], path[k])
             IN  IF found = {} THEN -1 ELSE SlotAt(CHOOSE loc \in found : TRUE).first]

LEMMA ResolveSteps == \A path : Resolve(path) = Resolved(path)[Len(path)]
BY DEF Resolve, Resolved

\* Resolve walks the way.
LEMMA ResolveIs ==
    ASSUME NEW d, NEW path \in Seq(DirNames), Leads(fat, content, d, path)
    PROVE  Resolve(path) = d[Len(path)]
<1> DEFINE n == Len(path)
           Body(s) == [k \in 0 .. Len(path) |->
               IF k = 0 THEN Root
               ELSE LET found == find_entry(s[k - 1], path[k])
                    IN  IF found = {} THEN -1 ELSE SlotAt(CHOOSE loc \in found : TRUE).first]
<1>1. n \in Nat
  OBVIOUS
<1>2. ASSUME NEW k \in 1 .. n
      PROVE  \E loc : find_entry(d[k - 1], path[k]) = {loc} /\ SlotAt(loc).first = d[k]
  BY Forms DEF Leads
<1>3. ASSUME NEW s, NEW k \in 1 .. n, s[k - 1] = d[k - 1] PROVE Body(s)[k] = d[k]
  <2>1. PICK loc : find_entry(d[k - 1], path[k]) = {loc} /\ SlotAt(loc).first = d[k]
    BY <1>2
  <2>2. PICK found : found = find_entry(s[k - 1], path[k])
    OBVIOUS
  <2>3. found = {loc} /\ (CHOOSE l \in found : TRUE) = loc
    BY <1>3, <2>1, <2>2
  <2>4. k \in 0 .. n /\ k # 0
    BY <1>1
  <2>5. Body(s)[k] = IF found = {} THEN -1 ELSE SlotAt(CHOOSE l \in found : TRUE).first
    BY <2>2, <2>4
  <2>6. QED
    BY <2>1, <2>3, <2>5
<1>4. d = Body(d)
  <2>1. d \in [0 .. n -> Cluster] /\ d[0] = Root
    BY DEF Leads
  <2>2. ASSUME NEW k \in 0 .. n PROVE d[k] = Body(d)[k]
    <3>1. CASE k = 0
      BY <2>1, <3>1
    <3>2. CASE k # 0
      <4>1. k \in 1 .. n
        BY <1>1, <3>2
      <4> HIDE DEF Body
      <4>2. QED
        BY <1>3, <4>1
    <3>3. QED
      BY <3>1, <3>2
  <2>3. QED
    BY <2>1, <2>2
<1>5. Resolved(path) = Body(Resolved(path))
  BY <1>4 DEF Resolved
<1>6. PICK s : s = Resolved(path) /\ s = Body(s)
  BY <1>5
<1> DEFINE T == {k \in 0 .. n : s[k] = d[k]}
<1>7. 0 \in T
  <2>1. Body(s)[0] = Root
    BY <1>1
  <2> HIDE DEF Body
  <2>2. QED
    BY <1>1, <1>6, <2>1 DEF Leads
<1> HIDE DEF Body
<1>8. ASSUME NEW k \in 0 .. n - 1, k \in T PROVE k + 1 \in T
  <2>1. k + 1 \in 1 .. n /\ (k + 1) - 1 = k /\ k + 1 \in 0 .. n
    BY <1>1
  <2>2. s[k] = d[k]
    BY <1>8
  <2>3. Body(s)[k + 1] = d[k + 1]
    BY <1>3, <2>1, <2>2
  <2>4. QED
    BY <1>6, <2>1, <2>3
<1>9. \A k \in 0 .. n : k \in T
  <2> HIDE DEF T, n
  <2>1. QED
    BY <1>1, <1>7, <1>8, SetInduction
<1>10. QED
  BY <1>1, <1>6, <1>9, ResolveSteps

\* The parts of a way are ways.
LEMMA WayUp ==
    ASSUME NEW f, NEW ct, NEW d, NEW path \in Seq(DirNames), Leads(f, ct, d, path),
           NEW n \in 0 .. Len(path)
    PROVE  LET up == SubSeq(path, 1, n)
               e == [k \in 0 .. n |-> d[k]]
           IN  up \in Seq(DirNames) /\ Len(up) = n /\ Leads(f, ct, e, up)
<1>1. PICK up : up = SubSeq(path, 1, n)
  OBVIOUS
<1>2. up \in Seq(DirNames) /\ Len(up) = n /\ \A k \in 1 .. n : up[k] = path[k]
  BY <1>1
<1>3. PICK e : e = [k \in 0 .. n |-> d[k]]
  OBVIOUS
<1>4. n \in Nat /\ Len(path) \in Nat /\ n <= Len(path)
  OBVIOUS
<1>5. \A k \in 0 .. n : e[k] = d[k] /\ k \in 0 .. Len(path)
  BY <1>3, <1>4
<1>6. e \in [0 .. n -> Cluster] /\ e[0] = Root
  <2>1. d \in [0 .. Len(path) -> Cluster] /\ d[0] = Root
    BY DEF Leads
  <2>2. QED
    BY <1>3, <1>4, <1>5, <2>1
<1>7. ASSUME NEW k \in 1 .. n
      PROVE  \E loc \in DirsIn(ct) :
                FoundIn(f, ct, e[k - 1], up[k]) = {loc} /\ SlotIn(ct, loc).first = e[k]
  <2>1. k \in 1 .. Len(path) /\ k - 1 \in 0 .. n /\ k \in 0 .. n
    BY <1>4
  <2>2. e[k - 1] = d[k - 1] /\ e[k] = d[k] /\ up[k] = path[k]
    BY <1>2, <1>5, <2>1
  <2>3. QED
    BY <2>1, <2>2 DEF Leads
<1>8. \A i, j \in 0 .. n : e[i] = e[j] => i = j
  BY <1>5 DEF Leads
<1>9. Leads(f, ct, e, up)
  BY <1>2, <1>6, <1>7, <1>8 DEF Leads
<1>10. QED
  BY <1>1, <1>2, <1>3, <1>9

LEMMA InvUp ==
    ASSUME FatInv, ChdirUp
    PROVE  FatInv'
<1>1. path_stack \in Seq(DirNames) /\ Len(path_stack) \in Nat /\ Len(path_stack) <= MAX_PATH_DEPTH
  BY DEF FatInv, PathOK
<1>2. MAX_PATH_DEPTH \in Nat
  BY FatAssumption, SMT
<1>3. PICK d : Leads(fat, content, d, path_stack)
  BY DEF FatInv, PathOK
<1>4. path_stack # << >>
  BY DEF ChdirUp
<1>5. PICK n \in 0 .. Len(path_stack) : n = Len(path_stack) - 1
  <2>1. Len(path_stack) - 1 \in 0 .. Len(path_stack)
    BY <1>1, <1>4
  <2>2. QED
    BY <2>1
<1>6. PICK up, e : /\ up = SubSeq(path_stack, 1, n) /\ e = [k \in 0 .. n |-> d[k]]
                   /\ up \in Seq(DirNames) /\ Len(up) = n /\ Leads(fat, content, e, up)
  BY ZenonT(60), <1>1, <1>3, WayUp
<1>7. Resolve(up) = e[n]
  BY <1>6, ResolveIs
<1>8. e[n] \in Cluster /\ DirHead(content, e[n])
  <2>1. n \in 0 .. Len(up)
    BY <1>6
  <2>2. QED
    BY <1>6, <2>1, WayIsDirs
<1>9. e[n] # -1
  BY <1>8, Clusters
<1>10. /\ path_stack' = up /\ cwd' = e[n]
       /\ fat' = fat /\ content' = content /\ file' = file
  BY <1>5, <1>6, <1>7, <1>9 DEF ChdirUp
<1>11. \A k \in 0 .. n - 1 : e[k] # e[n]
  <2>1. \A k \in 0 .. n - 1 : k \in 0 .. n /\ n \in 0 .. n /\ k # n
    BY <1>1
  <2>2. QED
    BY <1>6, <2>1 DEF Leads
<1>12. Len(up) <= MAX_PATH_DEPTH
  BY <1>1, <1>2, <1>5, <1>6
<1>13. PathOK(fat', content', cwd', path_stack')
  BY <1>6, <1>8, <1>10, <1>11, <1>12 DEF PathOK
<1>14. QED
  BY <1>10, <1>13 DEF FatInv

LEMMA InvRoot ==
    ASSUME FatInv, ChdirRoot
    PROVE  FatInv'
<1>1. /\ path_stack' = << >> /\ cwd' = Root
      /\ fat' = fat /\ content' = content /\ file' = file
  BY DEF ChdirRoot
<1>2. PICK d : d = [k \in 0 .. 0 |-> Root]
  OBVIOUS
<1>3. PICK p : p = << >> /\ p \in Seq(DirNames) /\ Len(p) = 0
  BY EmptySeq, Zenon
<1>4. Leads(fat, content, d, p)
  <2>1. d \in [0 .. 0 -> Cluster] /\ d[0] = Root
    BY <1>2, Clusters
  <2>2. QED
    BY <1>3, <2>1 DEF Leads
<1>5. MAX_PATH_DEPTH \in Nat
  BY FatAssumption, SMT
<1>6. PathOK(fat, content, Root, p)
  <2>1. Len(p) <= MAX_PATH_DEPTH /\ d[Len(p)] = Root /\ 0 .. Len(p) - 1 = {}
    BY <1>2, <1>3, <1>5
  <2>2. DirHead(content, Root) /\ Root \in Cluster
    BY Clusters DEF DirHead
  <2>3. QED
    BY <1>3, <1>4, <2>1, <2>2 DEF PathOK
<1>7. QED
  BY <1>1, <1>3, <1>6 DEF FatInv

\* A directory in the current one is not on the way to the current one.
LEMMA ChildNotOnWay ==
    ASSUME FatInv, NEW path \in Seq(DirNames), NEW n \in Nat, n = Len(path),
           NEW d, Leads(fat, content, d, path), \A k \in 0 .. n - 1 : d[k] # cwd,
           NEW loc \in DirsIn(content), loc[1] \in Chain(fat, cwd),
           NEW x, x = SlotIn(content, loc).first, NEW i \in 0 .. n
    PROVE  d[i] # x /\ x # Root
<1>1. /\ fat \in Table /\ content \in Contents /\ OpenOK(content, file)
      /\ DirForestOK(fat, content, file) /\ PathOK(fat, content, cwd, path_stack)
  BY DEF FatInv
<1> DEFINE A == LiveIn(content)
           h == HeadsIn(content, file)
           D == DirsIn(content)
           J == JunkIn(content)
<1>2. Heads(fat, A, h, D, J)
  BY <1>1 DEF DirForestOK, Forest
<1>3. \A l \in D : l \in A /\ h[l] = SlotIn(content, l).first
  BY <1>1, HeadOfDir
<1>4. loc \in D /\ h[loc] = x /\ x # 0 /\ x # Root
  <2>1. loc \in D /\ h[loc] = x /\ loc \in A
    BY <1>3
  <2> HIDE DEF A, h, D, J
  <2>2. h[loc] # 0
    BY <1>2, <2>1 DEF Heads
  <2>3. QED
    BY <1>2, <2>1, <2>2 DEF Heads
<1>5. ASSUME NEW k \in 0 .. n PROVE d[k] # x
  <2>1. CASE k = 0
    BY <1>4, <2>1 DEF Leads
  <2>2. CASE k # 0
    <3>1. PICK j \in 0 .. n - 1 : j = k - 1 /\ k \in 1 .. n /\ j \in 0 .. n
      <4>1. k - 1 \in 0 .. n - 1 /\ k \in 1 .. n /\ k - 1 \in 0 .. n
        BY <2>2
      <4>2. QED
        BY <4>1
    <3>2. PICK l \in D : FoundIn(fat, content, d[j], path[k]) = {l} /\ SlotIn(content, l).first = d[k]
      BY <3>1 DEF Leads
    <3>3. SUFFICES ASSUME d[k] = x PROVE FALSE
      OBVIOUS
    <3>4. l = loc
      <4>1. h[l] = x /\ l \in A /\ loc \in A
        BY <1>3, <1>4, <3>2, <3>3
      <4> HIDE DEF A, h, D, J
      <4>2. QED
        BY <1>2, <1>4, <4>1 DEF Heads
    <3>5. loc[1] \in Chain(fat, d[j])
      <4>1. PICK r, nm : r = d[j] /\ nm = path[k]
        OBVIOUS
      <4>2. loc \in FoundIn(fat, content, r, nm)
        BY <3>2, <3>4, <4>1
      <4>3. QED
        BY <1>1, <4>1, <4>2, FoundIs
    <3>6. DirHead(content, d[j]) /\ DirHead(content, cwd) /\ d[j] # cwd
      <4>1. DirHead(content, d[j])
        BY <3>1, WayIsDirs
      <4>2. QED
        BY <1>1, <3>1, <4>1 DEF PathOK
    <3>7. Chain(fat, d[j]) \cap Chain(fat, cwd) = {}
      BY <1>1, <3>6, DirsApart
    <3>8. QED
      BY <3>5, <3>7
  <2>3. QED
    BY <2>1, <2>2
<1>6. QED
  BY <1>4, <1>5

\* Going down: the new directory is none of those on the way.
LEMMA InvDown ==
    ASSUME FatInv, NEW name \in DirNames, ChdirDown(name)
    PROVE  FatInv'
<1>1. /\ fat \in Table /\ content \in Contents /\ OpenOK(content, file)
      /\ DirForestOK(fat, content, file) /\ PathOK(fat, content, cwd, path_stack)
  BY DEF FatInv
<1>2. PICK path \in Seq(DirNames), n \in Nat :
         path = path_stack /\ n = Len(path) /\ n <= MAX_PATH_DEPTH
  BY <1>1 DEF PathOK
<1>3. MAX_PATH_DEPTH \in Nat
  BY FatAssumption, SMT
<1>4. PICK d : /\ Leads(fat, content, d, path)
               /\ \A k \in 0 .. n - 1 : d[k] # cwd
               /\ n < MAX_PATH_DEPTH => d[n] = cwd
  BY <1>1, <1>2 DEF PathOK
<1>5. PICK loc \in FoundIn(fat, content, cwd, name) :
         /\ SlotIn(content, loc).dir
         /\ cwd' = SlotIn(content, loc).first
         /\ path_stack' = Pushed(name)
         /\ fat' = fat /\ content' = content /\ file' = file
  BY Forms DEF ChdirDown
<1>6. /\ loc \in LiveIn(content) /\ loc[1] \in Chain(fat, cwd)
      /\ FoundIn(fat, content, cwd, name) = {loc}
  BY <1>1, FoundIs
<1>7. loc \in DirsIn(content)
  BY <1>5, <1>6 DEF DirsIn
<1>8. PICK x : x = SlotIn(content, loc).first /\ DirHead(content, x)
  BY <1>7 DEF DirHead
<1>9. x \in Cluster
  BY <1>1, <1>8, DirHeadIs
<1>10. ASSUME NEW k \in 0 .. n PROVE d[k] # x
  BY <1>2, <1>4, <1>6, <1>7, <1>8, ChildNotOnWay
<1>11. CASE n < MAX_PATH_DEPTH
  <2>1. PICK up \in Seq(DirNames) : up = Append(path, name)
    BY AppendProperties, Zenon
  <2>2. Len(up) = n + 1 /\ up[n + 1] = name /\ \A k \in 1 .. n : up[k] = path[k]
    BY <1>2, <2>1
  <2>3. path_stack' = up
    BY <1>2, <1>5, <1>11, <2>1 DEF Pushed
  <2>4. PICK e : e = [k \in 0 .. n + 1 |-> IF k <= n THEN d[k] ELSE x]
    OBVIOUS
  <2>5. d \in [0 .. n -> Cluster] /\ d[0] = Root
    BY <1>2, <1>4 DEF Leads
  <2>6. (\A k \in 0 .. n : e[k] = d[k]) /\ e[n + 1] = x /\ e \in [0 .. n + 1 -> Cluster]
    BY <1>9, <2>4, <2>5
  <2>7. ASSUME NEW k \in 1 .. n + 1
        PROVE  \E l \in DirsIn(content) :
                  FoundIn(fat, content, e[k - 1], up[k]) = {l} /\ SlotIn(content, l).first = e[k]
    <3>1. CASE k = n + 1
      <4>1. e[k - 1] = cwd /\ up[k] = name /\ e[k] = x
        <5>1. k - 1 = n /\ n \in 0 .. n
          BY <3>1
        <5>2. QED
          BY <1>4, <1>11, <2>2, <2>6, <3>1, <5>1
      <4>2. QED
        BY <1>6, <1>7, <1>8, <4>1
    <3>2. CASE k # n + 1
      <4>1. k \in 1 .. n /\ k \in 0 .. n /\ k - 1 \in 0 .. n
        BY <3>2
      <4>2. e[k - 1] = d[k - 1] /\ up[k] = path[k] /\ e[k] = d[k]
        BY <2>2, <2>6, <4>1
      <4>3. QED
        BY <1>2, <1>4, <4>1, <4>2 DEF Leads
    <3>3. QED
      BY <3>1, <3>2
  <2>8. ASSUME NEW i \in 0 .. n + 1, NEW j \in 0 .. n + 1, e[i] = e[j] PROVE i = j
    <3>1. CASE i = n + 1 \/ j = n + 1
      BY <1>10, <2>6, <2>8, <3>1
    <3>2. CASE i # n + 1 /\ j # n + 1
      <4>1. i \in 0 .. n /\ j \in 0 .. n
        BY <3>2
      <4>2. QED
        BY <1>2, <1>4, <2>6, <2>8, <4>1 DEF Leads
    <3>3. QED
      BY <3>1, <3>2
  <2>9. Leads(fat, content, e, up)
    <3>1. e[0] = Root
      BY <2>5, <2>6
    <3>2. QED
      BY <2>2, <2>6, <2>7, <2>8, <3>1 DEF Leads
  <2>10. \A k \in 0 .. Len(up) - 1 : e[k] # x
    BY <1>10, <2>2, <2>6
  <2>11. Len(up) <= MAX_PATH_DEPTH /\ e[Len(up)] = x
    BY <1>3, <1>11, <2>2, <2>6
  <2>12. PathOK(fat, content, x, up)
    BY <1>8, <1>9, <2>9, <2>10, <2>11 DEF PathOK
  <2>13. QED
    BY <1>1, <1>5, <1>8, <2>3, <2>12 DEF FatInv
<1>12. CASE ~ (n < MAX_PATH_DEPTH)
  <2>1. path_stack' = path
    BY <1>2, <1>5, <1>12 DEF Pushed
  <2>2. \A k \in 0 .. n - 1 : d[k] # x
    BY <1>10
  <2>3. PathOK(fat, content, x, path)
    BY <1>2, <1>4, <1>8, <1>9, <1>12, <2>2 DEF PathOK
  <2>4. QED
    BY <1>1, <1>5, <1>8, <2>1, <2>3 DEF FatInv
<1>13. QED
  BY <1>11, <1>12

(***************************************************************************)
(* Calls on open files.                                                    *)
(***************************************************************************)

\* Chains are finite, so a size of 0 always fits.
LEMMA ChainSize ==
    ASSUME NEW f \in Table, NEW c
    PROVE  /\ IsFiniteSet(Chain(f, c)) /\ Cardinality(Chain(f, c)) \in Nat
           /\ Fits(f, c, 0)
<1>1. IsFiniteSet(Cluster)
  <2>1. TotalClusters + 1 \in Int
    BY FatAssumption, SMT
  <2>2. QED
    BY <2>1, FS_Interval DEF Cluster
<1>2. IsFiniteSet(Chain(f, c))
  BY <1>1, ChainIs, FS_Subset
<1>3. Cardinality(Chain(f, c)) \in Nat
  BY <1>2, FS_CardinalityType
<1>4. ClusterSize \in Nat
  BY FatAssumption, SMT
<1>5. PICK k \in Nat : k = Cardinality(Chain(f, c))
  BY <1>3
<1>6. 0 <= ClusterSize * k
  BY ONLY <1>4, k \in Nat, SMT
<1>7. QED
  BY <1>2, <1>3, <1>5, <1>6 DEF Fits

\* Whatever a step does to the file at loc, the others keep their room.
LEMMA SizesSame ==
    ASSUME FatInv, NEW g \in Table, NEW cu, NEW fm, NEW loc,
           \A fd \in Fd : fm[fd].is_open /\ fm[fd].loc # loc =>
               /\ file[fd].is_open /\ fm[fd].loc = file[fd].loc
               /\ fm[fd].first = file[fd].first /\ fm[fd].size = file[fd].size,
           \A l \in LiveIn(cu) : l # loc =>
               /\ l \in LiveIn(content) /\ SlotIn(cu, l) = SlotIn(content, l)
               /\ \A fd \in Fd : IsOpenAt(file, fd, l) => IsOpenAt(fm, fd, l),
           \A l \in LiveIn(content) \ DirsIn(content) : l # loc =>
               \A c \in Chain(fat, HeadAt(content, file, l)) : g[c] = fat[c],
           \A fd \in Fd : fm[fd].is_open /\ fm[fd].loc = loc => Fits(g, fm[fd].first, fm[fd].size),
           loc \in LiveIn(cu) /\ (\A fd \in Fd : ~ IsOpenAt(fm, fd, loc)) => EntryFits(g, cu, loc)
    PROVE  SizesOK(g, cu, fm)
<1>1. /\ fat \in Table /\ OpenOK(content, file) /\ SizesOK(fat, content, file)
  BY DEF FatInv
<1>2. ASSUME NEW l \in LiveIn(content) \ DirsIn(content), l # loc, NEW size,
             NEW x, x = HeadAt(content, file, l), Fits(fat, x, size)
      PROVE  Fits(g, x, size)
  <2>1. \A c \in Chain(fat, x) : g[c] = fat[c]
    BY <1>2
  <2>2. Chain(g, x) = Chain(fat, x)
    BY <1>1, <2>1, SameWalk
  <2>3. QED
    BY <1>2, <2>2 DEF Fits
<1>3. ASSUME NEW fd \in Fd, fm[fd].is_open PROVE Fits(g, fm[fd].first, fm[fd].size)
  <2>1. CASE fm[fd].loc = loc
    BY <1>3, <2>1
  <2>2. CASE fm[fd].loc # loc
    <3>1. PICK l : l = file[fd].loc /\ l # loc /\ file[fd].is_open
      BY <1>3, <2>2
    <3>2. l \in LiveIn(content) \ DirsIn(content)
      BY <1>1, <3>1 DEF OpenOK
    <3>3. HeadAt(content, file, l) = file[fd].first
      BY <1>1, <3>1, HeadOpen
    <3>4. Fits(fat, file[fd].first, file[fd].size)
      BY <1>1, <3>1 DEF SizesOK
    <3>5. Fits(g, file[fd].first, file[fd].size)
      BY <1>2, <3>1, <3>2, <3>3, <3>4
    <3>6. QED
      BY <1>3, <2>2, <3>5
  <2>3. QED
    BY <2>1, <2>2
<1>4. ASSUME NEW l \in LiveIn(cu), \A fd \in Fd : ~ IsOpenAt(fm, fd, l) PROVE EntryFits(g, cu, l)
  <2>1. CASE l = loc
    BY <1>4, <2>1
  <2>2. CASE l # loc
    <3>1. /\ l \in LiveIn(content) /\ SlotIn(cu, l) = SlotIn(content, l)
          /\ \A fd \in Fd : ~ IsOpenAt(file, fd, l)
      BY <1>4, <2>2
    <3>2. EntryFits(fat, content, l)
      BY <1>1, <3>1 DEF SizesOK
    <3>3. CASE l \in DirsIn(content)
      BY <3>1, <3>2, <3>3 DEF EntryFits, DirsIn
    <3>4. CASE l \notin DirsIn(content)
      <4>1. PICK x, size : x = SlotIn(content, l).first /\ size = SlotIn(content, l).size
        OBVIOUS
      <4>2. ~ SlotIn(content, l).dir /\ Fits(fat, x, size)
        BY <3>1, <3>2, <3>4, <4>1 DEF EntryFits, DirsIn
      <4>3. x = HeadAt(content, file, l)
        BY <3>1, <4>1, HeadClosed
      <4>4. Fits(g, x, size)
        BY <1>2, <2>2, <3>1, <3>4, <4>2, <4>3
      <4>5. QED
        BY <3>1, <4>1, <4>2, <4>4 DEF EntryFits
    <3>5. QED
      BY <3>3, <3>4
  <2>3. QED
    BY <2>1, <2>2
<1>5. QED
  BY <1>3, <1>4 DEF SizesOK

\* The clusters of a chain are in use.
LEMMA ChainUsed ==
    ASSUME NEW f, Links(f), NEW c \in Cluster, f[c] # FREE, NEW d \in Chain(f, c)
    PROVE  d \in Cluster /\ f[d] # FREE
<1>1. f \in Table
  BY DEF Links
<1>2. d \in Cluster /\ (d = c \/ \E e \in Chain(f, c) : f[e] = d)
  BY <1>1, ChainIs
<1>3. \A e \in Chain(f, c) : e \in Cluster
  BY <1>1, ChainIs
<1>4. QED
  BY <1>2, <1>3 DEF Links

(***************************************************************************)
(* What a call spares.                                                     *)
(***************************************************************************)

\* The chains of entries are apart from each other, and in use.
LEMMA LiveApart ==
    ASSUME FatInv, NEW a \in LiveIn(content), NEW x, x = HeadAt(content, file, a)
    PROVE  /\ Chain(fat, x) \cap Chain(fat, Root) = {}
           /\ \A b \in LiveIn(content) : a # b =>
                 Chain(fat, x) \cap Chain(fat, HeadAt(content, file, b)) = {}
           /\ \A c \in Chain(fat, x) : c \in Cluster /\ fat[c] # FREE
<1> DEFINE A == LiveIn(content)
           h == HeadsIn(content, file)
           D == DirsIn(content)
           J == JunkIn(content)
<1>1. Forest(fat, A, h, D, J) /\ \A b \in A : h[b] = HeadAt(content, file, b)
  BY DEF FatInv, DirForestOK, HeadsIn
<1>2. h[a] = x /\ a \in A
  BY <1>1
<1> HIDE DEF A, h, D, J
<1>3. Root \in Cluster /\ NoLinkTo(fat, Root) /\ h[a] # Root
  BY <1>1, <1>2, Clusters DEF Forest, Kinds, Heads, NoLinkTo
<1>4. /\ \A b \in A : a # b => Chain(fat, x) \cap Chain(fat, h[b]) = {}
      /\ Chain(fat, x) \cap Chain(fat, Root) = {}
  BY <1>1, <1>2, <1>3, OwnersApart
<1>5. \A c \in Chain(fat, x) : c \in Cluster /\ fat[c] # FREE
  <2>1. fat \in Table /\ Links(fat) /\ (x # 0 => x \in Cluster /\ fat[x] # FREE)
    BY <1>1, <1>2 DEF Forest, Links, Heads
  <2>2. CASE x = 0
    BY <2>1, <2>2, Clusters, ChainIs
  <2>3. CASE x # 0
    BY <2>1, <2>3, ChainUsed
  <2>4. QED
    BY <2>2, <2>3
<1>6. QED
  BY <1>1, <1>4, <1>5 DEF A

\* Beside what is at l, the call changes no entry, no descriptor of one and none of
\* its links: the links it changes are those of the chain of r.
Spares(l, r) ==
    /\ \A x \in LiveIn(content) : x # l =>
          Chain(fat, HeadAt(content, file, x)) \cap Chain(fat, r) = {}
    /\ \A c \in Cluster : fat[c] # FREE /\ c \notin Chain(fat, r) => fat'[c] = fat[c]
    /\ \A x \in LiveIn(content) : x # l => SlotIn(content', x) = SlotIn(content, x)
    /\ \A x \in LiveIn(content), fd \in Fd :
          x # l /\ (IsOpenAt(file, fd, x) \/ IsOpenAt(file', fd, x)) => file'[fd] = file[fd]

OnlyOne == \E l, r : Spares(l, r)

\* A call on the entry at loc.
LEMMA SparesOthers ==
    ASSUME FatInv, NEW loc \in LiveIn(content), NEW r, r = HeadAt(content, file, loc),
           \A c \in Cluster : fat[c] # FREE /\ c \notin Chain(fat, r) => fat'[c] = fat[c],
           \A x \in LiveIn(content) : x # loc => SlotIn(content', x) = SlotIn(content, x),
           \A fd \in Fd : \/ file'[fd] = file[fd]
                          \/ /\ file[fd].is_open => file[fd].loc = loc
                             /\ file'[fd].is_open => file'[fd].loc = loc
    PROVE  OnlyOne
<1>1. \A x \in LiveIn(content) : x # loc =>
          Chain(fat, HeadAt(content, file, x)) \cap Chain(fat, r) = {}
  BY LiveApart
<1>2. \A x \in LiveIn(content), fd \in Fd :
          x # loc /\ (IsOpenAt(file, fd, x) \/ IsOpenAt(file', fd, x)) => file'[fd] = file[fd]
  BY DEF IsOpenAt
<1>3. Spares(loc, r)
  BY <1>1, <1>2 DEF Spares
<1>4. QED
  BY <1>3 DEF OnlyOne

\* A new entry at loc, in the current directory.
LEMMA SparesOld ==
    ASSUME FatInv, NEW loc, loc \notin LiveIn(content),
           \A c \in Cluster : fat[c] # FREE /\ c \notin Chain(fat, cwd) => fat'[c] = fat[c],
           \A x \in LiveIn(content) : SlotIn(content', x) = SlotIn(content, x),
           \A fd \in Fd : file'[fd] = file[fd] \/ (~ file[fd].is_open /\ file'[fd].loc = loc)
    PROVE  OnlyOne
<1>1. OpenOK(content, file) /\ DirHead(content, cwd)
  BY DEF FatInv, PathOK
<1>2. PICK l : \A x \in LiveIn(content) : x # l =>
          Chain(fat, HeadAt(content, file, x)) \cap Chain(fat, cwd) = {}
  <2>1. CASE cwd = Root
    BY <2>1, LiveApart
  <2>2. CASE cwd # Root
    <3>1. PICK l \in DirsIn(content) : SlotIn(content, l).first = cwd
      BY <1>1, <2>2 DEF DirHead
    <3>2. \A fd \in Fd : ~ IsOpenAt(file, fd, l)
      BY <1>1 DEF OpenOK, IsOpenAt
    <3>3. HeadAt(content, file, l) = cwd /\ l \in LiveIn(content)
      BY <3>1, <3>2, HeadClosed DEF DirsIn
    <3>4. QED
      BY <3>3, LiveApart
  <2>3. QED
    BY <2>1, <2>2
<1>3. \A x \in LiveIn(content), fd \in Fd :
          IsOpenAt(file, fd, x) \/ IsOpenAt(file', fd, x) => file'[fd] = file[fd]
  BY DEF IsOpenAt
<1>4. Spares(l, cwd)
  BY <1>2, <1>3 DEF Spares
<1>5. QED
  BY <1>4 DEF OnlyOne

\* A call that changes neither the disk nor the open files.
LEMMA SparesAll ==
    ASSUME FatInv, fat' = fat, content' = content, file' = file
    PROVE  OnlyOne
<1>1. <<0, 0>> \notin LiveIn(content)
  <2>1. ASSUME <<0, 0>> \in Locs PROVE FALSE
    BY <2>1, Clusters DEF Locs
  <2>2. QED
    BY <2>1 DEF LiveIn
<1>2. QED
  BY <1>1, SparesOld

\* A change of positions and sizes leaves the forest alone.
LEMMA InvPos ==
    ASSUME FatInv, file' \in Files,
           \A e \in Fd : /\ file'[e].is_open = file[e].is_open
                         /\ file'[e].first = file[e].first /\ file'[e].loc = file[e].loc
                         /\ file'[e].size = file[e].size,
           fat' = fat, content' = content, cwd' = cwd, path_stack' = path_stack
    PROVE  FatInv'
<1>1. OpenOK(content, file) /\ DirForestOK(fat, content, file)
  BY DEF FatInv
<1>2. OpenOK(content, file')
  BY <1>1 DEF OpenOK
<1>3. ASSUME NEW loc PROVE HeadAt(content, file', loc) = HeadAt(content, file, loc)
  <2>1. \A fd \in Fd : /\ IsOpenAt(file', fd, loc) <=> IsOpenAt(file, fd, loc)
                       /\ IsOpenAt(file, fd, loc) => file'[fd].first = file[fd].first
    BY DEF IsOpenAt
  <2>2. QED
    BY <1>1, <1>2, <2>1, HeadSame
<1>4. HeadsIn(content, file') = HeadsIn(content, file)
  BY <1>3 DEF HeadsIn
<1>5. DirForestOK(fat, content, file')
  BY <1>1, <1>4 DEF DirForestOK
<1>6. SizesOK(fat, content, file')
  <2>1. SizesOK(fat, content, file)
    BY DEF FatInv
  <2>2. QED
    BY <2>1 DEF SizesOK, IsOpenAt
<1>7. QED
  BY <1>2, <1>5, <1>6 DEF FatInv

\* What a descriptor says of an open file.
LEMMA FileType ==
    ASSUME FatInv, NEW fd \in Fd
    PROVE  /\ file[fd].is_open \in BOOLEAN /\ file[fd].first \in Cluster \cup {0}
           /\ file[fd].size \in 0 .. MaxSize /\ file[fd].pos \in 0 .. MaxSize
           /\ file[fd].loc \in Locs \cup {<<0, 0>>}
           /\ file[fd].is_open => /\ file[fd].loc \in LiveIn(content) /\ file[fd].loc \in Locs
                                  /\ file[fd].loc \notin DirsIn(content)
           /\ MaxSize \in Nat
<1>1. file \in Files /\ OpenOK(content, file)
  BY DEF FatInv
<1>2. MaxSize \in Nat
  BY FatAssumption, SMT
<1>3. QED
  BY <1>1, <1>2 DEF Files, OpenOK, LiveIn

LEMMA InvRead ==
    ASSUME FatInv, NEW fd \in Fd, NEW size \in Sizes, Sys_file_read(fd, size)
    PROVE  FatInv' /\ OnlyOne
<1>1. size \in Nat /\ ClusterSize \in Nat
  BY FatAssumption, SMT
<1>2. fat \in Table /\ file \in Files
  BY DEF FatInv
<1>3. PICK w : w = Walk(fat, file[fd].first) /\ Len(w) \in Nat
  BY <1>2, WalkIs DEF IsWalk
<1>4. PICK m \in Nat : m = ClusterSize * Len(w)
  BY <1>1, <1>3
<1>5. PICK p : p = Larger(file[fd].pos,
                          Smaller(Smaller(file[fd].pos + size, file[fd].size), m))
  OBVIOUS
<1>6. p \in 0 .. MaxSize
  BY SMTT(30), <1>1, <1>4, <1>5, FileType DEF Larger, Smaller
<1>7. /\ file' = [file EXCEPT ![fd].pos = p]
      /\ fat' = fat /\ content' = content /\ cwd' = cwd /\ path_stack' = path_stack
  BY <1>3, <1>4, <1>5 DEF Sys_file_read
<1>8. file' \in Files
  BY <1>2, <1>6, <1>7 DEF Files
<1>9. \A e \in Fd : /\ file'[e].is_open = file[e].is_open
                    /\ file'[e].first = file[e].first /\ file'[e].loc = file[e].loc
                    /\ file'[e].size = file[e].size
  BY <1>2, <1>7 DEF Files
<1>10. FatInv'
  BY <1>7, <1>8, <1>9, InvPos
<1>11. OnlyOne
  <2>1. CASE file[fd].is_open
    <3>1. file[fd].loc \in LiveIn(content)
      BY <2>1, FileType
    <3>2. \A e \in Fd : \/ file'[e] = file[e]
                        \/ file[e].loc = file[fd].loc /\ file'[e].loc = file[fd].loc
      BY <1>2, <1>7 DEF Files
    <3>3. QED
      BY <1>7, <3>1, <3>2, SparesOthers
  <2>2. QED
    BY <2>1 DEF Sys_file_read
<1>12. QED
  BY <1>10, <1>11

LEMMA InvSeek ==
    ASSUME FatInv, NEW fd \in Fd, NEW offset, NEW whence, Sys_seek(fd, offset, whence)
    PROVE  FatInv' /\ OnlyOne
<1>1. file \in Files
  BY DEF FatInv
<1>2. PICK p : /\ p \in 0 .. MaxSize /\ file' = [file EXCEPT ![fd].pos = p]
               /\ fat' = fat /\ content' = content /\ cwd' = cwd /\ path_stack' = path_stack
  BY DEF Sys_seek
<1>3. file' \in Files
  BY <1>1, <1>2 DEF Files
<1>4. \A e \in Fd : /\ file'[e].is_open = file[e].is_open
                    /\ file'[e].first = file[e].first /\ file'[e].loc = file[e].loc
                    /\ file'[e].size = file[e].size
  BY <1>1, <1>2 DEF Files
<1>5. FatInv'
  BY <1>2, <1>3, <1>4, InvPos
<1>6. OnlyOne
  <2>1. file[fd].loc \in LiveIn(content)
    BY FileType DEF Sys_seek
  <2>2. \A e \in Fd : \/ file'[e] = file[e]
                      \/ file[e].loc = file[fd].loc /\ file'[e].loc = file[fd].loc
    BY <1>1, <1>2 DEF Files
  <2>3. QED
    BY <1>2, <2>1, <2>2, SparesOthers
<1>7. QED
  BY <1>5, <1>6

\* SYS_CLOSE: the entry takes over what the descriptor knew.
LEMMA InvClose ==
    ASSUME FatInv, NEW fd \in Fd, Sys_close(fd)
    PROVE  FatInv' /\ OnlyOne
<1>1. /\ fat \in Table /\ content \in Contents /\ file \in Files /\ OpenOK(content, file)
      /\ DirForestOK(fat, content, file) /\ PathOK(fat, content, cwd, path_stack)
  BY DEF FatInv
<1>2. PICK loc \in Locs : /\ loc = file[fd].loc /\ file[fd].is_open
                          /\ loc \in LiveIn(content) /\ loc \notin DirsIn(content)
  BY FileType DEF Sys_close
<1>3. PICK a \in Cluster, b \in 1 .. DirSlots : a = loc[1] /\ b = loc[2] /\ loc = <<a, b>>
  BY <1>1, SlotType
<1>4. PICK s \in Slot : /\ s = SlotIn(content, loc) /\ s = content[a][b]
  BY <1>1, <1>3, SlotType
<1>5. PICK z \in Slot : z = [s EXCEPT !.size = file[fd].size, !.first = file[fd].first]
  BY <1>4, FileType DEF Slot
<1>6. /\ z.kind = s.kind /\ z.name = s.name /\ z.dir = s.dir
      /\ z.first = file[fd].first /\ z.size = file[fd].size
  BY <1>4, <1>5 DEF Slot
<1>7. content' = [content EXCEPT ![a] = [content[a] EXCEPT ![b] = z]]
  BY ZenonT(60), <1>1, <1>2, <1>3, <1>4, <1>5 DEF Sys_close, Contents
<1>8. content' \in Contents
  BY <1>1, <1>3, <1>5, <1>7 DEF Contents
<1>9. /\ SlotIn(content', loc) = z
      /\ \A l \in Locs : l # loc => SlotIn(content', l) = SlotIn(content, l)
      /\ \A c \in Cluster : c # a => content'[c] = content[c]
  <2>1. SlotIn(content', loc) = z
    BY <1>1, <1>3, <1>7 DEF Contents, SlotIn
  <2>2. ASSUME NEW l \in Locs, l # loc PROVE SlotIn(content', l) = SlotIn(content, l)
    <3>1. PICK x \in Cluster, y \in 1 .. DirSlots : x = l[1] /\ y = l[2] /\ l = <<x, y>>
      BY <1>1, SlotType
    <3>2. content'[x][y] = content[x][y]
      BY <1>1, <1>3, <1>7, <2>2, <3>1 DEF Contents
    <3>3. QED
      BY <3>1, <3>2 DEF SlotIn
  <2>3. \A c \in Cluster : c # a => content'[c] = content[c]
    BY <1>1, <1>7 DEF Contents
  <2>4. QED
    BY <2>1, <2>2, <2>3
<1>10. \A l \in Locs : /\ SlotIn(content', l).kind = SlotIn(content, l).kind
                       /\ SlotIn(content', l).name = SlotIn(content, l).name
                       /\ SlotIn(content', l).dir = SlotIn(content, l).dir
  BY <1>4, <1>6, <1>9
<1>11. LiveIn(content') = LiveIn(content) /\ DirsIn(content') = DirsIn(content)
  BY <1>10 DEF LiveIn, DirsIn
<1>12. JunkIn(content') = JunkIn(content)
  <2>1. a \notin JunkIn(content) /\ a \notin JunkIn(content')
    <3>1. SlotIn(content, loc).kind = "live" /\ SlotIn(content', loc).kind = "live"
      BY <1>2, <1>10 DEF LiveIn
    <3>2. QED
      BY <1>3, <3>1, LiveNotJunk
  <2>2. QED
    BY <1>9, <2>1 DEF JunkIn
<1>13. /\ file' = [file EXCEPT ![fd] = NoFile]
       /\ fat' = fat /\ cwd' = cwd /\ path_stack' = path_stack
  BY DEF Sys_close
<1>14. file' \in Files
  <2>1. NoFile \in [is_open : BOOLEAN, first : Cluster \cup {0}, size : 0 .. MaxSize,
                    pos : 0 .. MaxSize, loc : Locs \cup {<<0, 0>>}]
    BY FileType DEF NoFile
  <2>2. QED
    BY <1>1, <1>13, <2>1 DEF Files
<1>15. ~ file'[fd].is_open /\ \A e \in Fd : e # fd => file'[e] = file[e]
  BY <1>1, <1>13 DEF Files, NoFile
<1>16. OpenOK(content', file')
  BY <1>1, <1>11, <1>15 DEF OpenOK
<1>17. ASSUME NEW l \in LiveIn(content)
       PROVE  HeadAt(content', file', l) = HeadAt(content, file, l)
  <2>1. CASE l = loc
    <3>1. HeadAt(content, file, l) = file[fd].first
      BY <1>1, <1>2, <2>1, HeadOpen
    <3>2. \A e \in Fd : ~ IsOpenAt(file', e, l)
      BY <1>1, <1>2, <1>15, <2>1 DEF OpenOK, IsOpenAt
    <3>3. HeadAt(content', file', l) = z.first
      BY <1>9, <2>1, <3>2, HeadClosed
    <3>4. QED
      BY <1>6, <3>1, <3>3
  <2>2. CASE l # loc
    <3>1. \A e \in Fd : /\ IsOpenAt(file', e, l) <=> IsOpenAt(file, e, l)
                        /\ IsOpenAt(file, e, l) => file'[e].first = file[e].first
      BY <1>2, <1>15, <2>2 DEF IsOpenAt
    <3>2. SlotIn(content', l).first = SlotIn(content, l).first
      BY <1>9, <2>2 DEF LiveIn
    <3>3. QED
      BY <1>1, <1>16, <3>1, <3>2, HeadSame
  <2>3. QED
    BY <2>1, <2>2
<1>18. HeadsIn(content', file') = HeadsIn(content, file)
  BY <1>11, <1>17 DEF HeadsIn
<1>19. DirForestOK(fat', content', file')
  BY <1>1, <1>11, <1>12, <1>13, <1>18 DEF DirForestOK
<1>20. \A l \in DirsIn(content) : SlotIn(content', l).first = SlotIn(content, l).first
  BY <1>2, <1>9 DEF DirsIn, LiveIn
<1>21. PathOK(fat', content', cwd', path_stack')
  <2>1. DirHead(content', cwd)
    BY <1>1, <1>11, <1>20 DEF PathOK, DirHead
  <2>2. \A r : Calm(fat, fat, content, content', r)
    BY <1>10, <1>20 DEF Calm
  <2>3. PathOK(fat, content', cwd, path_stack)
    BY <1>1, <2>1, <2>2, PathSame
  <2>4. QED
    BY <1>13, <2>3
<1>22. SlotsOK(fat', content')
  <2>1. SlotsOK(fat, content)
    BY DEF FatInv
  <2>2. SlotsOK(fat, content')
    BY <1>10, <1>12, <2>1 DEF SlotsOK
  <2>3. QED
    BY <1>13, <2>2
<1>23. SizesOK(fat', content', file')
  <2>1. PICK cu, fm : cu = content' /\ fm = file'
    OBVIOUS
  <2>2. \A e \in Fd : fm[e].is_open => e # fd /\ fm[e] = file[e]
    BY <1>15, <2>1
  <2>3. \A l \in LiveIn(cu) : l # loc =>
            /\ l \in LiveIn(content) /\ SlotIn(cu, l) = SlotIn(content, l)
            /\ \A e \in Fd : IsOpenAt(file, e, l) => IsOpenAt(fm, e, l)
    BY <1>2, <1>9, <1>11, <1>15, <2>1 DEF IsOpenAt, LiveIn
  <2>4. \A e \in Fd : ~ (fm[e].is_open /\ fm[e].loc = loc)
    BY <1>1, <1>2, <2>2 DEF OpenOK
  <2>5. EntryFits(fat, cu, loc)
    <3>1. Fits(fat, file[fd].first, file[fd].size)
      BY <1>2 DEF FatInv, SizesOK
    <3>2. SlotIn(cu, loc) = z /\ ~ z.dir
      BY <1>2, <1>4, <1>6, <1>9, <2>1 DEF DirsIn
    <3>3. QED
      BY <1>6, <3>1, <3>2 DEF EntryFits
  <2>6. SizesOK(fat, cu, fm)
    BY <1>1, <2>2, <2>3, <2>4, <2>5, SizesSame
  <2>7. QED
    BY <1>13, <2>1, <2>6
<1>24. FatInv'
  BY <1>1, <1>8, <1>13, <1>14, <1>16, <1>19, <1>21, <1>22, <1>23 DEF FatInv
<1>25. OnlyOne
  <2>1. \A e \in Fd : \/ file'[e] = file[e]
                      \/ file[e].loc = loc /\ ~ file'[e].is_open
    BY <1>2, <1>15
  <2>2. \A l \in LiveIn(content) : l # loc => SlotIn(content', l) = SlotIn(content, l)
    BY <1>9 DEF LiveIn
  <2>3. QED
    BY <1>2, <1>13, <2>1, <2>2, SparesOthers
<1>26. QED
  BY <1>24, <1>25

\* What fat32_alloc_cluster hands out: different clusters, all free.
LEMMA NextFitIs ==
    ASSUME NEW n \in Nat, NEW w \in [1 .. n -> Free(fat)], NextFit(w)
    PROVE  /\ w \in Seq(Cluster) /\ Len(w) = n /\ Distinct(w)
           /\ \A i \in 1 .. n : w[i] \in Cluster /\ fat[w[i]] = FREE
<1>1. \A i \in 1 .. n : w[i] \in Cluster /\ fat[w[i]] = FREE
  BY DEF Free
<1>2. w \in [1 .. n -> Cluster]
  BY <1>1
<1>3. w \in Seq(Cluster)
  BY <1>2, SeqDef, Zenon
<1>4. Len(w) = n
  <2>1. DOMAIN w = 1 .. Len(w) /\ Len(w) \in Nat
    BY <1>3, LenProperties, Zenon
  <2>2. DOMAIN w = 1 .. n
    BY <1>2
  <2>3. QED
    BY <2>1, <2>2
<1>5. ASSUME NEW c \in Cluster PROVE Rank(c) \in Int
  <2>1. PICK start \in Cluster : Rank(c) = (c - start + TotalClusters) % TotalClusters
    <3>1. 2 \in Cluster
      BY Clusters DEF Root
    <3>2. QED
      BY <3>1 DEF Rank
  <2>2. c \in Int /\ start \in Int /\ TotalClusters \in Nat /\ TotalClusters >= 1
    BY Clusters
  <2>3. PICK x \in Int : x = c - start + TotalClusters
    BY <2>2
  <2>4. x % TotalClusters \in Int
    BY <2>2
  <2>5. QED
    BY <2>1, <2>3, <2>4
<1>6. Distinct(w)
  <2>1. ASSUME NEW i \in 1 .. n, NEW j \in 1 .. n, i < j PROVE w[i] # w[j]
    <3>1. Rank(w[i]) < Rank(w[j]) /\ Rank(w[i]) \in Int
      BY <1>1, <1>4, <1>5, <2>1 DEF NextFit
    <3>2. QED
      BY <3>1
  <2>2. QED
    BY <1>4, <2>1 DEF Distinct
<1>7. QED
  BY <1>1, <1>3, <1>4, <1>6

\* The chain of a file holds no directory slots.
LEMMA FileChain ==
    ASSUME FatInv, NEW loc \in LiveIn(content) \ DirsIn(content),
           NEW x, x = HeadAt(content, file, loc)
    PROVE  /\ x = HeadsIn(content, file)[loc]
           /\ Chain(fat, x) \subseteq JunkIn(content)
           /\ x # 0 => x \in Cluster /\ fat[x] # FREE
           /\ \A c \in Chain(fat, x) : c \in Cluster /\ fat[c] # FREE /\ content[c] = Filled("junk")
<1> DEFINE A == LiveIn(content)
           h == HeadsIn(content, file)
           D == DirsIn(content)
           J == JunkIn(content)
<1>1. fat \in Table /\ Links(fat) /\ Kinds(fat, J) /\ Heads(fat, A, h, D, J)
  BY DEF FatInv, DirForestOK, Forest
<1>2. h[loc] = x
  BY DEF HeadsIn
<1>3. CASE x = 0
  BY <1>1, <1>2, <1>3, ChainIs, Clusters
<1>4. CASE x # 0
  <2> HIDE DEF h
  <2>1. x \in Cluster /\ fat[x] # FREE /\ x \in J
    BY <1>1, <1>2, <1>4 DEF Heads
  <2> HIDE DEF J
  <2>2. Chain(fat, x) \subseteq J
    BY <1>1, <2>1, ChainKind
  <2>3. \A c \in Chain(fat, x) : c \in Cluster /\ fat[c] # FREE
    BY <1>1, <2>1, ChainUsed
  <2>4. \A c \in J : content[c] = Filled("junk")
    BY DEF J, JunkIn
  <2>5. QED
    BY <1>2, <2>1, <2>2, <2>3, <2>4 DEF h, J
<1>5. QED
  BY <1>3, <1>4

\* A step that changes no content, and of the table only what is free or a file's,
\* leaves the way alone.
\* The chains of two files have nothing in common, nor those of a file and of the
\* current directory.
LEMMA FilesApart ==
    ASSUME FatInv, NEW l \in LiveIn(content) \ DirsIn(content),
           NEW x, x = HeadAt(content, file, l)
    PROVE  /\ Chain(fat, x) \cap Chain(fat, cwd) = {}
           /\ \A m \in LiveIn(content) : m # l =>
                 Chain(fat, x) \cap Chain(fat, HeadAt(content, file, m)) = {}
<1>1. /\ OpenOK(content, file) /\ DirForestOK(fat, content, file) /\ DirHead(content, cwd)
  BY DEF FatInv, PathOK
<1>2. Chain(fat, x) \cap Chain(fat, cwd) = {}
  <2>1. Chain(fat, x) \subseteq JunkIn(content)
    BY FileChain
  <2>2. Chain(fat, cwd) \cap JunkIn(content) = {}
    BY <1>1, DirHeadIs
  <2>3. QED
    BY <2>1, <2>2
<1>3. ASSUME NEW m \in LiveIn(content), m # l
      PROVE  Chain(fat, x) \cap Chain(fat, HeadAt(content, file, m)) = {}
  <2> DEFINE A == LiveIn(content)
             h == HeadsIn(content, file)
             D == DirsIn(content)
             J == JunkIn(content)
  <2>1. Forest(fat, A, h, D, J) /\ l \in A /\ m \in A
    BY <1>1 DEF DirForestOK
  <2>2. h[l] = x /\ h[m] = HeadAt(content, file, m)
    BY DEF HeadsIn
  <2> HIDE DEF A, h, D, J
  <2>3. Chain(fat, h[l]) \cap Chain(fat, h[m]) = {}
    BY <1>3, <2>1, OwnersApart
  <2>4. QED
    BY <2>2, <2>3
<1>4. QED
  BY <1>2, <1>3

LEMMA FileStepSlots ==
    ASSUME FatInv, NEW g, \A c \in Cluster : c \notin JunkIn(content) => g[c] = fat[c]
    PROVE  SlotsOK(g, content)
<1>1. SlotsOK(fat, content) /\ content \in Contents
  BY DEF FatInv
<1>2. \A l \in Locs : l[1] \in Cluster
  BY <1>1, SlotType
<1>3. QED
  BY <1>1, <1>2 DEF SlotsOK

LEMMA FileStepPath ==
    ASSUME FatInv, fat' \in Table, content' = content, cwd' = cwd, path_stack' = path_stack,
           \A c \in Cluster : fat[c] # FREE /\ c \notin JunkIn(content) => fat'[c] = fat[c]
    PROVE  PathOK(fat', content', cwd', path_stack')
<1>1. /\ fat \in Table /\ content \in Contents /\ OpenOK(content, file)
      /\ DirForestOK(fat, content, file) /\ PathOK(fat, content, cwd, path_stack)
  BY DEF FatInv
<1>2. DirHead(content, cwd)
  BY <1>1 DEF PathOK
<1>3. ASSUME NEW r, DirHead(content, r) PROVE Calm(fat, fat', content, content, r)
  <2>1. \A c \in Chain(fat, r) : c \in Cluster /\ fat[c] # FREE /\ c \notin JunkIn(content)
    BY <1>1, <1>3, DirHeadIs
  <2>2. QED
    BY <2>1 DEF Calm
<1>4. PathOK(fat', content, cwd, path_stack)
  BY <1>1, <1>2, <1>3, PathSame
<1>5. QED
  BY <1>4

\* SYS_OPEN of a file that exists.
LEMMA InvOpen ==
    ASSUME FatInv, NEW name, NEW trunc \in BOOLEAN, NEW append \in BOOLEAN,
           Openable(name), OpenExisting(name, trunc, append)
    PROVE  FatInv' /\ OnlyOne
<1>1. /\ fat \in Table /\ content \in Contents /\ file \in Files /\ OpenOK(content, file)
      /\ DirForestOK(fat, content, file) /\ PathOK(fat, content, cwd, path_stack)
  BY DEF FatInv
<1>2. PICK fd \in alloc_fd, loc \in find_entry(cwd, name) :
        LET old == SlotAt(loc)
            cut == trunc /\ old.first >= 2
            size == IF cut THEN 0 ELSE old.size
        IN  /\ file' = [file EXCEPT ![fd] =
                  [is_open |-> TRUE, first |-> IF cut THEN 0 ELSE old.first, size |-> size,
                   pos |-> IF append THEN size ELSE 0, loc |-> loc]]
            /\ fat' = IF cut THEN Freed(fat, old.first) ELSE fat
            /\ content' = IF cut THEN Scrubbed(old.first) ELSE content
            /\ UNCHANGED <<next_free, cwd, path_stack>>
  BY DEF OpenExisting
<1>3. fd \in Fd /\ ~ file[fd].is_open
  BY DEF alloc_fd
<1>4. /\ loc \in LiveIn(content) /\ loc \in Locs
      /\ loc \notin DirsIn(content) /\ \A e \in Fd : ~ IsOpenAt(file, e, loc)
  <2>1. loc \in FoundIn(fat, content, cwd, name)
    BY Forms
  <2>2. loc \in LiveIn(content) /\ loc \in Locs
    BY <1>1, <2>1, FoundIs
  <2>3. ~ SlotIn(content, loc).dir /\ \A e \in Fd : ~ IsOpenAt(file, e, loc)
    BY Forms DEF Openable
  <2>4. QED
    BY <2>2, <2>3 DEF DirsIn
<1>5. PICK s \in Slot : s = SlotIn(content, loc) /\ s = SlotAt(loc)
  BY <1>1, <1>4, SlotType, Forms
<1>6. PICK x \in Cluster \cup {0} : x = s.first /\ x = HeadAt(content, file, loc)
  <2>1. s.first \in Cluster \cup {0}
    BY DEF Slot
  <2>2. HeadAt(content, file, loc) = SlotIn(content, loc).first
    BY <1>4, HeadClosed
  <2>3. QED
    BY <1>5, <2>1, <2>2
<1>7. PICK cut \in BOOLEAN : cut = (trunc /\ x >= 2)
  OBVIOUS
<1>8. PICK rec \in [is_open : BOOLEAN, first : Cluster \cup {0}, size : 0 .. MaxSize,
                    pos : 0 .. MaxSize, loc : Locs \cup {<<0, 0>>}] :
         /\ rec.is_open /\ rec.loc = loc /\ rec.first = IF cut THEN 0 ELSE x
         /\ rec.size = IF cut THEN 0 ELSE s.size
         /\ file' = [file EXCEPT ![fd] = rec]
  <2>1. MaxSize \in Nat
    BY FatAssumption, SMT
  <2>2. PICK size \in 0 .. MaxSize : size = IF cut THEN 0 ELSE s.size
    BY <1>5, <2>1 DEF Slot
  <2>3. PICK pos \in 0 .. MaxSize : pos = IF append THEN size ELSE 0
    BY <2>1
  <2>4. PICK first \in Cluster \cup {0} : first = IF cut THEN 0 ELSE x
    OBVIOUS
  <2>5. PICK rec : rec = [is_open |-> TRUE, first |-> first, size |-> size, pos |-> pos, loc |-> loc]
    OBVIOUS
  <2>6. file' = [file EXCEPT ![fd] = rec]
    BY <1>2, <1>5, <1>6, <1>7, <2>2, <2>3, <2>4, <2>5
  <2>7. rec \in [is_open : BOOLEAN, first : Cluster \cup {0}, size : 0 .. MaxSize,
                 pos : 0 .. MaxSize, loc : Locs \cup {<<0, 0>>}]
    BY <1>4, <2>5
  <2>8. QED
    BY <2>2, <2>4, <2>5, <2>6, <2>7
<1>9. /\ fat' = IF cut THEN Freed(fat, x) ELSE fat
      /\ content' = IF cut THEN Scrubbed(x) ELSE content
      /\ cwd' = cwd /\ path_stack' = path_stack
  BY <1>2, <1>5, <1>6, <1>7
<1>10. /\ x = HeadsIn(content, file)[loc] /\ Chain(fat, x) \subseteq JunkIn(content)
       /\ \A c \in Chain(fat, x) : content[c] = Filled("junk")
  BY <1>4, <1>6, FileChain
<1>11. content' = content
  <2>1. \A c \in Cluster : Scrubbed(x)[c] = content[c]
    BY <1>10 DEF Scrubbed
  <2>2. Scrubbed(x) = content
    BY <1>1, <2>1 DEF Scrubbed, Contents
  <2>3. QED
    BY <1>9, <2>2
<1>12. file' \in Files
  BY <1>1, <1>3, <1>8 DEF Files
<1>13. file'[fd] = rec /\ \A e \in Fd : e # fd => file'[e] = file[e]
  BY <1>1, <1>3, <1>8 DEF Files
<1>14. OpenOK(content, file')
  <2>1. \A e \in Fd : file'[e].is_open => file'[e].loc \in LiveIn(content) \ DirsIn(content)
    BY <1>1, <1>4, <1>8, <1>13 DEF OpenOK
  <2>2. ASSUME NEW e \in Fd, NEW g \in Fd, file'[e].is_open, file'[g].is_open,
               file'[e].loc = file'[g].loc
        PROVE  e = g
    <3>1. \A b \in Fd : b # fd /\ file'[b].is_open => file'[b].loc # loc
      BY <1>4, <1>13 DEF IsOpenAt
    <3>2. QED
      BY <1>1, <1>8, <1>13, <2>2, <3>1 DEF OpenOK
  <2>3. QED
    BY <2>1, <2>2 DEF OpenOK
<1>15. HeadAt(content, file', loc) = IF cut THEN 0 ELSE x
  <2>1. file'[fd].is_open /\ file'[fd].loc = loc /\ file'[fd].first = IF cut THEN 0 ELSE x
    BY <1>8, <1>13
  <2>2. PICK fm : fm = file' /\ OpenOK(content, fm)
    BY <1>14
  <2>3. HeadAt(content, fm, fm[fd].loc) = fm[fd].first
    BY <1>3, <2>1, <2>2, HeadOpen
  <2>4. QED
    BY <2>1, <2>2, <2>3
<1>16. ASSUME NEW l, l # loc PROVE HeadAt(content, file', l) = HeadAt(content, file, l)
  <2>1. \A e \in Fd : /\ IsOpenAt(file', e, l) <=> IsOpenAt(file, e, l)
                      /\ IsOpenAt(file, e, l) => file'[e].first = file[e].first
    BY <1>3, <1>8, <1>13, <1>16 DEF IsOpenAt
  <2>2. QED
    BY <1>1, <1>14, <2>1, HeadSame
<1> DEFINE A == LiveIn(content)
           h == HeadsIn(content, file)
           k == HeadsIn(content, file')
           D == DirsIn(content)
           J == JunkIn(content)
<1>17. k[loc] = (IF cut THEN 0 ELSE x) /\ \A b \in A \ {loc} : k[b] = h[b]
  BY <1>4, <1>15, <1>16 DEF HeadsIn
<1>18. Forest(fat, A, h, D, J) /\ loc \in A /\ loc \notin D /\ h[loc] = x
  BY <1>1, <1>4, <1>10 DEF DirForestOK
<1>19. Forest(fat', A, k, D, J)
  <2> HIDE DEF A, h, k, D, J
  <2>1. CASE cut
    <3>1. k[loc] = 0 /\ fat' = Freed(fat, h[loc])
      BY <1>9, <1>17, <1>18, <2>1
    <3>2. QED
      BY <1>17, <1>18, <3>1, CutForest
  <2>2. CASE ~ cut
    <3>1. fat' = fat /\ \A b \in A : k[b] = h[b]
      BY <1>9, <1>17, <1>18, <2>2
    <3>2. QED
      BY <1>18, <3>1, SameForest
  <2>3. QED
    BY <2>1, <2>2
<1>20. DirForestOK(fat', content', file')
  BY <1>11, <1>19 DEF DirForestOK
<1>21. fat' \in Table /\ \A c \in Cluster : c \notin JunkIn(content) => fat'[c] = fat[c]
  <2>1. CASE cut
    BY <1>1, <1>9, <1>10, <2>1, FreedIs
  <2>2. CASE ~ cut
    BY <1>1, <1>9, <2>2
  <2>3. QED
    BY <2>1, <2>2
<1>22. PathOK(fat', content', cwd', path_stack')
  BY <1>9, <1>11, <1>21, FileStepPath
<1>23. SlotsOK(fat', content')
  BY <1>11, <1>21, FileStepSlots
<1>24. SizesOK(fat', content', file')
  <2>1. PICK g, fm : g = fat' /\ fm = file'
    OBVIOUS
  <2>2. /\ fm[fd] = rec /\ \A e \in Fd : e # fd => fm[e] = file[e]
        /\ \A e \in Fd : e # fd => ~ (fm[e].is_open /\ fm[e].loc = loc)
    BY <1>4, <1>13, <2>1 DEF IsOpenAt
  <2>3. \A e \in Fd : fm[e].is_open /\ fm[e].loc # loc =>
            /\ file[e].is_open /\ fm[e].loc = file[e].loc
            /\ fm[e].first = file[e].first /\ fm[e].size = file[e].size
    BY <1>8, <2>2
  <2>4. \A l \in LiveIn(content), e \in Fd : IsOpenAt(file, e, l) => IsOpenAt(fm, e, l)
    BY <1>3, <2>2 DEF IsOpenAt
  <2>5. ASSUME NEW l \in LiveIn(content) \ DirsIn(content), l # loc,
               NEW c \in Chain(fat, HeadAt(content, file, l))
        PROVE  g[c] = fat[c]
    <3>1. Chain(fat, HeadAt(content, file, l)) \cap Chain(fat, x) = {}
      BY <1>4, <1>6, <2>5, FilesApart
    <3>2. c \in Cluster /\ c \notin Chain(fat, x)
      BY <2>5, <3>1, FileChain
    <3>3. QED
      BY <1>1, <1>9, <2>1, <3>2, FreedIs
  <2>6. Fits(g, rec.first, rec.size)
    <3>1. CASE cut
      BY <1>8, <1>21, <2>1, <3>1, ChainSize
    <3>2. CASE ~ cut
      <4>1. EntryFits(fat, content, loc)
        BY <1>4 DEF FatInv, SizesOK
      <4>2. ~ s.dir
        BY <1>4, <1>5 DEF DirsIn
      <4>3. Fits(fat, x, s.size)
        BY <1>5, <1>6, <4>1, <4>2 DEF EntryFits
      <4>4. QED
        BY <1>8, <1>9, <2>1, <3>2, <4>3
    <3>3. QED
      BY <3>1, <3>2
  <2>7. \A e \in Fd : fm[e].is_open /\ fm[e].loc = loc => Fits(g, fm[e].first, fm[e].size)
    BY <2>2, <2>6
  <2>8. IsOpenAt(fm, fd, loc)
    BY <1>8, <2>2 DEF IsOpenAt
  <2>9. g \in Table
    BY <1>21, <2>1
  <2>10. SizesOK(g, content, fm)
    BY <1>3, <2>3, <2>4, <2>5, <2>7, <2>8, <2>9, SizesSame
  <2>11. QED
    BY <1>11, <2>1, <2>10
<1>25. FatInv'
  BY <1>1, <1>11, <1>12, <1>14, <1>20, <1>21, <1>22, <1>23, <1>24 DEF FatInv
<1>26. OnlyOne
  <2>1. \A c \in Cluster : c \notin Chain(fat, x) => fat'[c] = fat[c]
    BY <1>1, <1>9, FreedIs
  <2>2. \A e \in Fd : \/ file'[e] = file[e]
                      \/ ~ file[e].is_open /\ file'[e].loc = loc
    BY <1>3, <1>8, <1>13
  <2>3. QED
    BY <1>4, <1>6, <1>11, <2>1, <2>2, SparesOthers
<1>27. QED
  BY <1>25, <1>26

\* SYS_FILE_WRITE: the numbers stay in their range.
LEMMA WriteNumbers ==
    ASSUME NEW pos \in 0 .. MaxSize, NEW size \in Nat, pos + size <= MaxSize, NEW have \in Nat
    PROVE  /\ WriteEnd(pos, size, have) \in 0 .. MaxSize
           /\ Larger(0, Needed(pos, size) - have) \in Nat
<1>1. MaxSize \in Nat /\ ClusterSize \in Nat /\ ClusterSize # 0
  BY FatAssumption, SMT
<1>2. PICK m \in Nat : m = have * ClusterSize
  BY <1>1
<1>3. WriteEnd(pos, size, have) \in 0 .. MaxSize
  BY <1>1, <1>2 DEF WriteEnd, Larger, Smaller
<1>4. Needed(pos, size) \in Int
  <2>1. pos \div ClusterSize \in Int
    BY <1>1
  <2>2. PICK a \in Int : a = pos + size - 1
    BY <1>1
  <2>3. a \div ClusterSize \in Int
    BY <1>1
  <2>4. QED
    BY <2>1, <2>2, <2>3 DEF Needed
<1>5. Larger(0, Needed(pos, size) - have) \in Nat
  BY <1>4 DEF Larger
<1>6. QED
  BY <1>3, <1>5

\* The links of a chain that was appended to t.
Joins(f, t, w, g) ==
    /\ \A i \in 1 .. Len(w) - 1 : g[w[i]] = w[i + 1]
    /\ w # << >> /\ t \in Cluster => g[t] = w[1]
    /\ \A c \in Cluster : c # t /\ (\A i \in 1 .. Len(w) : w[i] # c) => g[c] = f[c]

LEMMA LinkedJoins ==
    ASSUME NEW f \in Table, NEW t, NEW w \in Seq(Cluster), Distinct(w),
           \A i \in 1 .. Len(w) : w[i] # t
    PROVE  Joins(f, t, w, Linked(f, t, w))
<1>1. PICK g : g = Linked(f, t, w)
  OBVIOUS
<1>2. /\ \A i \in 1 .. Len(w) - 1 : g[w[i]] = w[i + 1]
      /\ w # << >> /\ t \in Cluster => g[t] = w[1]
      /\ \A c \in Cluster : c # t /\ (\A i \in 1 .. Len(w) : w[i] # c) => g[c] = f[c]
  BY <1>1, LinkedIs
<1>3. QED
  BY <1>1, <1>2 DEF Joins

LEMMA GrownChain ==
    ASSUME NEW f \in Table, NEW x, NEW g, Links(g), NEW y,
           NEW all \in Seq(Cluster), Distinct(all),
           all # << >> => y = all[1] /\ NoLinkTo(g, y),
           \A i \in 1 .. Len(all) - 1 : g[all[i]] = all[i + 1],
           \A c \in Chain(f, x) : \E i \in 1 .. Len(all) : c = all[i]
    PROVE  /\ Len(all) <= Cardinality(Chain(g, y))
           /\ Cardinality(Chain(f, x)) <= Cardinality(Chain(g, y))
<1>1. g \in Table
  BY DEF Links
<1>2. IsFiniteSet(Chain(g, y))
  BY <1>1, ChainSize
<1>3. \A i \in 1 .. Len(all) : all[i] \in Chain(g, y)
  <2>1. CASE all = << >>
    BY <2>1
  <2>2. CASE all # << >>
    <3>1. all[1] \in Cluster
      BY <2>2
    <3>2. all[1] \in Chain(g, y)
      BY <1>1, <2>2, <3>1, ChainIs
    <3>3. QED
      BY <2>2, <3>2, ChainTakes
  <2>3. QED
    BY <2>1, <2>2
<1>4. Len(all) <= Cardinality(Chain(g, y))
  BY <1>2, <1>3, DistinctSize
<1>5. Chain(f, x) \subseteq Chain(g, y)
  BY <1>3
<1>6. QED
  BY <1>2, <1>4, <1>5, FS_Subset

\* and end within the clusters that the file has then.
LEMMA WriteFits ==
    ASSUME NEW pos \in Nat, NEW size \in Nat, NEW have \in Nat, NEW old \in Nat,
           NEW n \in Nat, NEW m \in Nat, n <= m, have <= m, old <= ClusterSize * n,
           NEW end, end = WriteEnd(pos, size, have)
    PROVE  (IF end > pos THEN Larger(old, end) ELSE old) <= ClusterSize * m
<1>1. ClusterSize \in Nat
  BY FatAssumption, SMT
<1>2. ASSUME NEW k \in Nat, k <= m PROVE ClusterSize * k <= ClusterSize * m
  <2>1. PICK d \in Nat : m = k + d
    <3>1. m - k \in Nat /\ m = k + (m - k)
      BY <1>2
    <3>2. QED
      BY <3>1
  <2>2. /\ ClusterSize * (k + d) = ClusterSize * k + ClusterSize * d
        /\ ClusterSize * k \in Nat /\ ClusterSize * d \in Nat
    BY ONLY <1>1, k \in Nat, d \in Nat, SMT
  <2>3. PICK p \in Nat, q \in Nat : p = ClusterSize * k /\ q = ClusterSize * d
    BY <2>2
  <2>4. p <= p + q
    OBVIOUS
  <2>5. QED
    BY <2>1, <2>2, <2>3, <2>4
<1>3. ClusterSize * n <= ClusterSize * m /\ ClusterSize * have <= ClusterSize * m
  BY <1>2
<1>4. PICK u \in Nat, v \in Nat, z \in Nat :
          u = ClusterSize * n /\ v = ClusterSize * have /\ z = ClusterSize * m
          /\ v = have * ClusterSize
  <2>1. /\ ClusterSize * n \in Nat /\ ClusterSize * have \in Nat /\ ClusterSize * m \in Nat
        /\ ClusterSize * have = have * ClusterSize
    BY ONLY <1>1, n \in Nat, have \in Nat, m \in Nat, SMT
  <2>2. QED
    BY <2>1
<1>5. old <= z /\ v <= z
  BY <1>3, <1>4
<1>6. end = Larger(pos, Smaller(pos + size, v))
  BY <1>4 DEF WriteEnd
<1>7. (IF end > pos THEN Larger(old, end) ELSE old) <= z
  BY <1>5, <1>6 DEF Larger, Smaller
<1>8. QED
  BY <1>4, <1>7

LEMMA FreeCount == Cardinality(Free(fat)) \in Nat
<1>1. IsFiniteSet(Cluster)
  <2>1. 2 \in Int /\ TotalClusters + 1 \in Int
    BY Clusters
  <2>2. QED
    BY <2>1, FS_Interval DEF Cluster
<1>2. Free(fat) \subseteq Cluster
  BY DEF Free
<1>3. IsFiniteSet(Free(fat))
  BY <1>1, <1>2, FS_Subset
<1>4. QED
  BY <1>3, FS_CardinalityType

\* What a write does when w are the clusters of the file and new those it gets.
Written(fd, size, w, new) ==
    LET all == w \o new
        end == WriteEnd(file[fd].pos, size, Len(all))
    IN  /\ NextFit(new)
        /\ fat' = Linked(fat, IF w = << >> THEN 0 ELSE w[Len(w)], new)
        /\ content' = [c \in Cluster |->
              IF \E k \in 1 .. Len(all) : /\ c = all[k]
                                          /\ file[fd].pos < k * ClusterSize
                                          /\ (k - 1) * ClusterSize < end
              THEN Filled("junk") ELSE content[c]]
        /\ file' = [file EXCEPT
              ![fd].first = IF all = << >> THEN 0 ELSE all[1],
              ![fd].pos = end,
              ![fd].size = IF end > file[fd].pos THEN Larger(file[fd].size, end)
                           ELSE file[fd].size]

\* SYS_FILE_WRITE.
LEMMA InvWrite ==
    ASSUME FatInv, NEW fd \in Fd, NEW size \in Sizes, file[fd].pos + size <= MaxSize,
           Sys_file_write(fd, size)
    PROVE  FatInv' /\ OnlyOne
<1>1. /\ fat \in Table /\ content \in Contents /\ file \in Files /\ OpenOK(content, file)
      /\ DirForestOK(fat, content, file) /\ PathOK(fat, content, cwd, path_stack)
  BY DEF FatInv
<1>2. file[fd].is_open
  BY DEF Sys_file_write
<1>3. PICK loc \in Locs : /\ loc = file[fd].loc /\ loc \in LiveIn(content)
                          /\ loc \notin DirsIn(content)
  BY <1>2, FileType
<1>4. PICK x \in Cluster \cup {0} : x = file[fd].first /\ x = HeadAt(content, file, loc)
  <2>1. file[fd].first \in Cluster \cup {0}
    BY FileType
  <2>2. HeadAt(content, file, file[fd].loc) = file[fd].first
    BY <1>1, <1>2, HeadOpen
  <2>3. QED
    BY <1>3, <2>1, <2>2
<1>5. /\ x = HeadsIn(content, file)[loc] /\ Chain(fat, x) \subseteq JunkIn(content)
      /\ x # 0 => x \in Cluster /\ fat[x] # FREE
      /\ \A c \in Chain(fat, x) : c \in Cluster /\ fat[c] # FREE /\ content[c] = Filled("junk")
  BY <1>3, <1>4, FileChain
<1>6. PICK w \in Seq(Cluster) : /\ w = Walk(fat, x) /\ IsWalk(fat, x, w)
                                /\ \A k \in 1 .. Len(w) : w[k] \in Chain(fat, x)
  <2>1. IsWalk(fat, x, Walk(fat, x))
    BY <1>1, WalkIs
  <2>2. Walk(fat, x) \in Seq(Cluster)
    BY <2>1 DEF IsWalk
  <2>3. \A k \in 1 .. Len(Walk(fat, x)) : Walk(fat, x)[k] \in Chain(fat, x)
    BY DEF Chain
  <2>4. QED
    BY <2>1, <2>2, <2>3
<1>7. Len(w) \in Nat
  BY <1>6, LenProperties
<1>8. /\ file[fd].pos \in 0 .. MaxSize /\ file[fd].size \in 0 .. MaxSize /\ size \in Nat
      /\ MaxSize \in Nat
  <2>1. size \in Nat
    BY FatAssumption, SMT
  <2>2. QED
    BY <2>1, FileType
<1>9. PICK n \in Nat : \E new \in [1 .. n -> Free(fat)] : Written(fd, size, w, new)
  <2> DEFINE v == Walk(fat, file[fd].first)
             s == IF file[fd].first = 0 \/ fat[v[Len(v)]] = EOC
                  THEN Larger(0, Needed(file[fd].pos, size) - Len(v)) ELSE 0
             m == Smaller(s, Cardinality(Free(fat)))
  <2>1. \E new \in [1 .. m -> Free(fat)] : Written(fd, size, v, new)
    BY Zenon DEF Sys_file_write, Written
  <2>2. v = w
    BY <1>4, <1>6
  <2> HIDE DEF v
  <2>3. s \in Nat
    BY <1>7, <1>8, <2>2, WriteNumbers
  <2> HIDE DEF s
  <2>4. m \in Nat
    BY <2>3, FreeCount DEF Smaller
  <2> HIDE DEF m
  <2>5. QED
    BY <2>1, <2>2, <2>4
<1>10. PICK new \in [1 .. n -> Free(fat)] : Written(fd, size, w, new)
  BY <1>9
<1>11. /\ new \in Seq(Cluster) /\ Len(new) = n /\ Distinct(new)
       /\ \A i \in 1 .. n : new[i] \in Cluster /\ fat[new[i]] = FREE
  <2>1. NextFit(new)
    BY <1>10 DEF Written
  <2>2. QED
    BY <2>1, NextFitIs
<1>12. PICK all \in Seq(Cluster) :
          /\ all = w \o new /\ Len(all) = Len(w) + n
          /\ \A k \in 1 .. Len(all) : all[k] = IF k <= Len(w) THEN w[k] ELSE new[k - Len(w)]
  <2>1. /\ w \o new \in Seq(Cluster) /\ Len(w \o new) = Len(w) + Len(new)
        /\ \A k \in 1 .. Len(w) + Len(new) :
              (w \o new)[k] = IF k <= Len(w) THEN w[k] ELSE new[k - Len(w)]
    BY <1>6, <1>11, ConcatProperties, Zenon
  <2>2. QED
    BY <1>11, <2>1
<1>13. PICK y \in Cluster \cup {0} :
          /\ y = IF all = << >> THEN 0 ELSE all[1]
          /\ w # << >> => y = x /\ y # 0
          /\ w = << >> => x = 0 /\ y = IF n = 0 THEN 0 ELSE new[1]
          /\ n = 0 => y = x
  <2>1. CASE w = << >>
    <3>1. x = 0 /\ Len(w) = 0
      BY <1>6, <2>1 DEF IsWalk
    <3>2. CASE n = 0
      <4>1. all = << >>
        BY <1>12, <3>1, <3>2, EmptySeq
      <4>2. QED
        BY <2>1, <3>1, <3>2, <4>1
    <3>3. CASE n # 0
      <4>1. Len(all) # 0 /\ 1 \in 1 .. Len(all) /\ all[1] = new[1]
        BY <1>12, <3>1, <3>3
      <4>2. all # << >>
        BY <4>1
      <4>3. new[1] \in Cluster
        BY <1>11, <3>3
      <4>4. PICK y \in Cluster : y = new[1]
        BY <4>3
      <4>5. y = all[1]
        BY <4>1, <4>4
      <4>6. QED
        BY <2>1, <3>1, <3>3, <4>2, <4>4, <4>5, Zenon
    <3>4. QED
      BY <3>2, <3>3
  <2>2. CASE w # << >>
    <3>1. Len(w) # 0
      BY <1>6, <2>2, EmptySeq
    <3>2. x \in Cluster /\ w[1] = x
      BY <1>6, <2>2 DEF IsWalk
    <3>3. all # << >> /\ all[1] = x
      BY <1>7, <1>12, <3>1, <3>2
    <3>4. QED
      BY <2>2, <3>2, <3>3, Clusters
  <2>3. QED
    BY <2>1, <2>2
<1>14. content' = content
  <2>1. ASSUME NEW k \in 1 .. Len(all) PROVE content[all[k]] = Filled("junk")
    <3>1. CASE k <= Len(w)
      <4>1. k \in 1 .. Len(w) /\ all[k] = w[k]
        BY <1>7, <1>12, <3>1
      <4>2. QED
        BY <1>5, <1>6, <4>1
    <3>2. CASE k > Len(w)
      <4>1. k - Len(w) \in 1 .. n /\ all[k] = new[k - Len(w)]
        BY <1>7, <1>12, <3>2
      <4>2. all[k] \in Cluster /\ fat[all[k]] = FREE
        BY <1>11, <4>1
      <4>3. all[k] \in JunkIn(content)
        BY <1>1, <4>2 DEF DirForestOK, Forest, Kinds
      <4>4. QED
        BY <4>3 DEF JunkIn
    <3>3. QED
      BY <1>7, <1>12, <3>1, <3>2
  <2>2. PICK T \in SUBSET Cluster :
          /\ \A c \in T : content[c] = Filled("junk")
          /\ content' = [c \in Cluster |-> IF c \in T THEN Filled("junk") ELSE content[c]]
    <3>1. PICK end : end = WriteEnd(file[fd].pos, size, Len(all))
      OBVIOUS
    <3>2. content' = [c \in Cluster |->
              IF \E k \in 1 .. Len(all) : /\ c = all[k]
                                          /\ file[fd].pos < k * ClusterSize
                                          /\ (k - 1) * ClusterSize < end
              THEN Filled("junk") ELSE content[c]]
      BY <1>10, <1>12, <3>1 DEF Written
    <3> DEFINE T == {c \in Cluster : \E k \in 1 .. Len(all) :
                        /\ c = all[k]
                        /\ file[fd].pos < k * ClusterSize
                        /\ (k - 1) * ClusterSize < end}
    <3>3. content' = [c \in Cluster |-> IF c \in T THEN Filled("junk") ELSE content[c]]
      BY <3>2, Zenon
    <3>4. \A c \in T : content[c] = Filled("junk")
      BY <2>1
    <3>5. QED
      BY <3>3, <3>4
  <2>3. \A c \in Cluster : content'[c] = content[c]
    BY <2>2
  <2>4. QED
    BY <1>1, <2>2, <2>3 DEF Contents
<1>15. PICK rec \in [is_open : BOOLEAN, first : Cluster \cup {0}, size : 0 .. MaxSize,
                     pos : 0 .. MaxSize, loc : Locs \cup {<<0, 0>>}] :
          /\ rec.is_open /\ rec.loc = loc /\ rec.first = y
          /\ rec.size = LET end == WriteEnd(file[fd].pos, size, Len(all))
                        IN  IF end > file[fd].pos THEN Larger(file[fd].size, end)
                            ELSE file[fd].size
          /\ file' = [file EXCEPT ![fd] = rec]
  <2>1. PICK end \in 0 .. MaxSize : end = WriteEnd(file[fd].pos, size, Len(all))
    BY <1>8, <1>12, LenProperties, WriteNumbers
  <2>2. PICK sz \in 0 .. MaxSize :
          sz = IF end > file[fd].pos THEN Larger(file[fd].size, end) ELSE file[fd].size
    BY <1>8, <2>1 DEF Larger
  <2>3. file' = [file EXCEPT ![fd].first = y, ![fd].pos = end, ![fd].size = sz]
    BY <1>10, <1>12, <1>13, <2>1, <2>2 DEF Written
  <2>4. PICK rec : rec = [file[fd] EXCEPT !.first = y, !.pos = end, !.size = sz]
    OBVIOUS
  <2>5. /\ rec \in [is_open : BOOLEAN, first : Cluster \cup {0}, size : 0 .. MaxSize,
                    pos : 0 .. MaxSize, loc : Locs \cup {<<0, 0>>}]
        /\ rec.is_open /\ rec.loc = loc /\ rec.first = y /\ rec.size = sz
    BY <1>1, <1>2, <1>3, <2>4 DEF Files
  <2>6. file' = [file EXCEPT ![fd] = rec]
    BY <1>1, <2>3, <2>4 DEF Files
  <2>7. QED
    BY <2>1, <2>2, <2>5, <2>6
<1>16. file' \in Files
  BY <1>1, <1>15 DEF Files
<1>17. file'[fd] = rec /\ \A e \in Fd : e # fd => file'[e] = file[e]
  BY <1>1, <1>15 DEF Files
<1>18. \A e \in Fd : file'[e].is_open = file[e].is_open /\ file'[e].loc = file[e].loc
  BY <1>2, <1>3, <1>15, <1>17
<1>19. OpenOK(content, file')
  BY <1>1, <1>18 DEF OpenOK
<1>20. HeadAt(content, file', loc) = y
  <2>1. file'[fd].is_open /\ file'[fd].loc = loc /\ file'[fd].first = y
    BY <1>15, <1>17
  <2>2. PICK fm : fm = file' /\ OpenOK(content, fm)
    BY <1>19
  <2>3. HeadAt(content, fm, fm[fd].loc) = fm[fd].first
    BY <2>1, <2>2, HeadOpen
  <2>4. QED
    BY <2>1, <2>2, <2>3
<1>21. ASSUME NEW l, l # loc PROVE HeadAt(content, file', l) = HeadAt(content, file, l)
  <2>1. \A e \in Fd : /\ IsOpenAt(file', e, l) <=> IsOpenAt(file, e, l)
                      /\ IsOpenAt(file, e, l) => file'[e].first = file[e].first
    BY <1>3, <1>17, <1>18, <1>21 DEF IsOpenAt
  <2>2. QED
    BY <1>1, <1>19, <2>1, HeadSame
<1> DEFINE A == LiveIn(content)
           h == HeadsIn(content, file)
           k == HeadsIn(content, file')
           D == DirsIn(content)
           J == JunkIn(content)
<1>22. k[loc] = y /\ \A b \in A \ {loc} : k[b] = h[b]
  BY <1>3, <1>20, <1>21 DEF HeadsIn
<1>23. Forest(fat, A, h, D, J) /\ loc \in A /\ loc \notin D /\ h[loc] = x /\ Chain(fat, x) \subseteq J
  BY <1>1, <1>3, <1>5 DEF DirForestOK
<1>24. new # << >> <=> n # 0
  BY <1>11, EmptySeq
<1>25. fat' = Linked(fat, IF w = << >> THEN 0 ELSE w[Len(w)], new)
  BY <1>10 DEF Written
<1>26. \A i \in 1 .. Len(new) : new[i] \in Cluster /\ fat[new[i]] = FREE
  BY <1>11
<1>27. /\ Forest(fat', A, k, D, J) /\ fat' \in Table
       /\ \A c \in Cluster : fat[c] # FREE /\ c \notin J => fat'[c] = fat[c]
  <2> HIDE DEF A, h, k, D, J
  <2>1. CASE w # << >>
    <3>1. Len(w) \in 1 .. Len(w)
      BY <1>6, <1>7, <2>1, EmptySeq
    <3>2. PICK t \in Cluster : t = w[Len(w)] /\ fat[t] # FREE /\ t \in J /\ fat[t] \notin Cluster
      <4>1. x \in Cluster
        BY <1>6, <2>1 DEF IsWalk
      <4>2. x # 0
        BY <4>1, Clusters
      <4>3. Links(fat) /\ NoLinkTo(fat, x)
        BY <1>23, <4>2 DEF Forest, Heads
      <4>4. fat[w[Len(w)]] \notin Cluster
        BY <1>6, <4>1, <4>3, WalkComplete
      <4>5. QED
        BY <1>5, <1>6, <1>23, <3>1, <4>4
    <3>3. fat' = Linked(fat, t, new)
      BY <1>25, <2>1, <3>2
    <3>4. Forest(Linked(fat, t, new), A, h, D, J)
      BY <1>11, <1>23, <1>26, <3>2, GrowForest
    <3>5. \A b \in A : k[b] = h[b]
      BY <1>13, <1>22, <1>23, <2>1
    <3>6. Forest(fat', A, k, D, J)
      BY <3>3, <3>4, <3>5, SameForest
    <3>7. \A i \in 1 .. Len(new) : new[i] # t
      BY <1>26, <3>2
    <3>8. /\ fat' \in Table
          /\ \A c \in Cluster : c # t /\ (\A i \in 1 .. Len(new) : new[i] # c) => fat'[c] = fat[c]
      BY <1>1, <1>11, <3>3, <3>7, LinkedIs
    <3>9. QED
      BY <1>26, <3>2, <3>6, <3>8
  <2>2. CASE w = << >> /\ n # 0
    <3>1. h[loc] = 0 /\ k[loc] = new[1] /\ fat' = Linked(fat, 0, new) /\ new # << >>
      BY <1>13, <1>22, <1>23, <1>24, <1>25, <2>2
    <3>2. Forest(Linked(fat, 0, new), A, k, D, J)
      BY SMTT(60), <1>11, <1>22, <1>23, <1>26, <3>1, StartForest
    <3>3. \A i \in 1 .. Len(new) : new[i] # 0
      BY <1>26, Clusters
    <3>4. /\ fat' \in Table
          /\ \A c \in Cluster : c # 0 /\ (\A i \in 1 .. Len(new) : new[i] # c) => fat'[c] = fat[c]
      BY <1>1, <1>11, <3>1, <3>3, LinkedIs
    <3>5. \A c \in Cluster : fat[c] # FREE => fat'[c] = fat[c]
      BY <1>26, <3>4, Clusters
    <3>6. QED
      BY <3>1, <3>2, <3>4, <3>5
  <2>3. CASE w = << >> /\ n = 0
    <3>1. new = << >> /\ fat' = Linked(fat, 0, new)
      BY <1>24, <1>25, <2>3
    <3>2. \A i \in 1 .. Len(new) : new[i] # 0
      BY <1>26, Clusters
    <3>3. fat' = fat
      BY ZenonT(60), <1>1, <1>11, <3>1, <3>2, LinkedIs
    <3>4. \A b \in A : k[b] = h[b]
      BY <1>13, <1>22, <1>23, <2>3
    <3>5. QED
      BY <1>1, <1>23, <3>3, <3>4, SameForest
  <2>4. QED
    BY <2>1, <2>2, <2>3
<1>28. DirForestOK(fat', content', file')
  BY <1>14, <1>27 DEF DirForestOK
<1>29. cwd' = cwd /\ path_stack' = path_stack
  BY DEF Sys_file_write
<1>30. PathOK(fat', content', cwd', path_stack')
  BY <1>14, <1>27, <1>29, FileStepPath
<1>31. SlotsOK(fat', content')
  <2>1. \A c \in Cluster : fat[c] = FREE => c \in J
    BY <1>1 DEF DirForestOK, Forest, Kinds
  <2>2. \A c \in Cluster : c \notin JunkIn(content) => fat'[c] = fat[c]
    BY <1>27, <2>1
  <2>3. QED
    BY <1>14, <2>2, FileStepSlots
<1>32. /\ Distinct(all) /\ \A i \in 1 .. Len(all) - 1 : fat'[all[i]] = all[i + 1]
       /\ \A c \in Cluster : fat[c] # FREE /\ c \notin Chain(fat, x) => fat'[c] = fat[c]
  <2> HIDE DEF A, h, k, D, J
  <2>1. Distinct(w)
    <3>1. CASE x = 0
      <4>1. w = << >>
        BY <1>6, <3>1, Clusters DEF IsWalk
      <4>2. QED
        BY <4>1 DEF Distinct
    <3>2. CASE x # 0
      <4>1. Links(fat) /\ NoLinkTo(fat, x)
        BY <1>23, <3>2 DEF Forest, Heads
      <4>2. QED
        BY <1>6, <4>1, WalkDistinct
    <3>3. QED
      BY <3>1, <3>2
  <2>2. \A i \in 1 .. Len(w) : w[i] \in Cluster /\ fat[w[i]] # FREE /\ w[i] \in Chain(fat, x)
    BY <1>5, <1>6
  <2>3. \A i \in 1 .. Len(w), j \in 1 .. n : w[i] # new[j]
    BY <1>11, <2>2
  <2>4. ASSUME NEW i \in 1 .. Len(all), NEW j \in 1 .. Len(all), all[i] = all[j] PROVE i = j
    <3>1. CASE i <= Len(w) /\ j <= Len(w)
      <4>1. i \in 1 .. Len(w) /\ j \in 1 .. Len(w) /\ w[i] = w[j]
        BY <1>7, <1>12, <2>4, <3>1
      <4>2. QED
        BY <2>1, <4>1 DEF Distinct
    <3>2. CASE i > Len(w) /\ j > Len(w)
      <4>1. /\ i - Len(w) \in 1 .. n /\ j - Len(w) \in 1 .. n
            /\ new[i - Len(w)] = new[j - Len(w)]
        BY <1>7, <1>12, <2>4, <3>2
      <4>2. i - Len(w) = j - Len(w)
        BY <1>11, <4>1 DEF Distinct
      <4>3. QED
        BY <1>7, <4>2
    <3>3. CASE i <= Len(w) /\ j > Len(w)
      <4>1. i \in 1 .. Len(w) /\ j - Len(w) \in 1 .. n /\ w[i] = new[j - Len(w)]
        BY <1>7, <1>12, <2>4, <3>3
      <4>2. QED
        BY <2>3, <4>1
    <3>4. CASE i > Len(w) /\ j <= Len(w)
      <4>1. j \in 1 .. Len(w) /\ i - Len(w) \in 1 .. n /\ w[j] = new[i - Len(w)]
        BY <1>7, <1>12, <2>4, <3>4
      <4>2. QED
        BY <2>3, <4>1
    <3>5. QED
      BY <1>7, <3>1, <3>2, <3>3, <3>4
  <2>5. PICK t : t = IF w = << >> THEN 0 ELSE w[Len(w)]
    OBVIOUS
  <2>6. w # << >> => Len(w) \in 1 .. Len(w) /\ t = w[Len(w)] /\ t \in Cluster /\ t \in Chain(fat, x)
    BY <1>6, <1>7, <2>2, <2>5, EmptySeq
  <2>7. \A i \in 1 .. Len(new) : new[i] # t
    <3>1. CASE w = << >>
      BY <1>26, <2>5, <3>1, Clusters
    <3>2. CASE w # << >>
      BY <1>11, <2>3, <2>6, <3>2
    <3>3. QED
      BY <3>1, <3>2
  <2>8. /\ \A i \in 1 .. Len(new) - 1 : fat'[new[i]] = new[i + 1]
        /\ new # << >> /\ t \in Cluster => fat'[t] = new[1]
        /\ \A c \in Cluster : c # t /\ (\A i \in 1 .. Len(new) : new[i] # c) => fat'[c] = fat[c]
    <3>1. fat' = Linked(fat, t, new)
      BY <1>25, <2>5
    <3>2. fat \in Table /\ new \in Seq(Cluster) /\ Distinct(new)
      BY <1>1, <1>11
    <3>3. Joins(fat, t, new, Linked(fat, t, new))
      BY <2>7, <3>2, LinkedJoins
    <3>4. QED
      BY <3>1, <3>3 DEF Joins
  <2>9. ASSUME NEW i \in 1 .. Len(all) - 1 PROVE fat'[all[i]] = all[i + 1]
    <3>0. i \in 1 .. Len(all) /\ i + 1 \in 1 .. Len(all) /\ Len(all) = Len(w) + n
      BY <1>7, <1>12
    <3>1. CASE i < Len(w)
      <4>1. i \in 1 .. Len(w) - 1 /\ i \in 1 .. Len(w) /\ Len(w) \in 1 .. Len(w) /\ i # Len(w)
        BY <1>7, <3>1
      <4>2. all[i] = w[i] /\ all[i + 1] = w[i + 1]
        BY <1>7, <1>12, <3>0, <3>1
      <4>3. w[i + 1] = fat[w[i]]
        BY <1>6, <4>1 DEF IsWalk
      <4>4. w[i] # t
        BY <2>1, <2>5, <4>1 DEF Distinct
      <4>5. \A j \in 1 .. Len(new) : new[j] # w[i]
        BY <1>11, <2>3, <4>1
      <4>6. QED
        BY <2>2, <2>8, <4>1, <4>2, <4>3, <4>4, <4>5
    <3>2. CASE i = Len(w)
      <4>1. /\ Len(w) \in 1 .. Len(w) /\ n >= 1 /\ all[i] = w[i] /\ all[i + 1] = new[1]
        BY <1>7, <1>12, <3>0, <3>2
      <4>2. w # << >> /\ new # << >>
        BY <1>11, <4>1
      <4>3. QED
        BY <2>6, <2>8, <3>2, <4>1, <4>2
    <3>3. CASE i > Len(w)
      <4>1. PICK j \in 1 .. Len(new) - 1 : j = i - Len(w) /\ i + 1 - Len(w) = j + 1
        <5>1. i - Len(w) \in 1 .. Len(new) - 1 /\ i + 1 - Len(w) = (i - Len(w)) + 1
          BY <1>7, <1>11, <3>0, <3>3
        <5>2. QED
          BY <5>1
      <4>2. all[i] = new[j] /\ all[i + 1] = new[j + 1]
        BY <1>7, <1>12, <3>0, <3>3, <4>1
      <4>3. QED
        BY <2>8, <4>1, <4>2
    <3>4. QED
      BY <1>7, <3>1, <3>2, <3>3
  <2>10. ASSUME NEW c \in Cluster, fat[c] # FREE, c \notin Chain(fat, x) PROVE fat'[c] = fat[c]
    <3>1. c # t
      BY <2>5, <2>6, <2>10, Clusters
    <3>2. \A j \in 1 .. Len(new) : new[j] # c
      BY <1>26, <2>10
    <3>3. QED
      BY <2>8, <2>10, <3>1, <3>2
  <2>11. QED
    BY <2>4, <2>9, <2>10 DEF Distinct
<1>33. SizesOK(fat', content', file')
  <2> HIDE DEF A, h, k, D, J
  <2>1. PICK g, fm : g = fat' /\ fm = file'
    OBVIOUS
  <2>2. /\ fm[fd] = rec /\ \A e \in Fd : e # fd => fm[e] = file[e]
    BY <1>17, <2>1
  <2>3. \A e \in Fd : file[e].is_open /\ file[e].loc = loc => e = fd
    BY <1>1, <1>2, <1>3 DEF OpenOK
  <2>4. \A e \in Fd : fm[e].is_open /\ fm[e].loc # loc =>
            /\ file[e].is_open /\ fm[e].loc = file[e].loc
            /\ fm[e].first = file[e].first /\ fm[e].size = file[e].size
    BY <1>15, <2>2
  <2>5. \A l \in LiveIn(content), e \in Fd : IsOpenAt(file, e, l) => IsOpenAt(fm, e, l)
    BY <1>2, <1>3, <1>15, <2>2 DEF IsOpenAt
  <2>6. ASSUME NEW l \in LiveIn(content) \ DirsIn(content), l # loc,
               NEW c \in Chain(fat, HeadAt(content, file, l))
        PROVE  g[c] = fat[c]
    <3>1. Chain(fat, HeadAt(content, file, l)) \cap Chain(fat, x) = {}
      BY <1>3, <1>4, <2>6, FilesApart
    <3>2. c \in Cluster /\ fat[c] # FREE /\ c \notin Chain(fat, x)
      BY <2>6, <3>1, FileChain
    <3>3. QED
      BY <1>32, <2>1, <3>2
  <2>7. Links(g) /\ g \in Table /\ (y # 0 => NoLinkTo(g, y))
    BY <1>22, <1>23, <1>27, <2>1 DEF Forest, Heads
  <2>8. /\ Len(all) <= Cardinality(Chain(g, y))
        /\ Cardinality(Chain(fat, x)) <= Cardinality(Chain(g, y))
    <3>1. all # << >> => y = all[1] /\ y # 0
      <4>1. all # << >> => y = all[1] /\ all[1] \in Cluster
        BY <1>13
      <4>2. QED
        BY <4>1, Clusters
    <3>2. \A i \in 1 .. Len(all) - 1 : g[all[i]] = all[i + 1]
      BY <1>32, <2>1
    <3>3. ASSUME NEW c \in Chain(fat, x) PROVE \E i \in 1 .. Len(all) : c = all[i]
      <4>1. PICK i \in 1 .. Len(w) : c = w[i]
        BY <1>6 DEF Chain
      <4>2. i \in 1 .. Len(all) /\ all[i] = w[i]
        BY <1>7, <1>12
      <4>3. QED
        BY <4>1, <4>2
    <3>4. QED
      BY <1>1, <1>32, <2>7, <3>1, <3>2, <3>3, GrownChain
  <2>9. Fits(g, y, rec.size)
    <3>1. Fits(fat, x, file[fd].size)
      BY <1>2, <1>4 DEF FatInv, SizesOK
    <3>2. PICK u \in Nat, v \in Nat, have \in Nat :
             u = Cardinality(Chain(fat, x)) /\ v = Cardinality(Chain(g, y)) /\ have = Len(all)
      BY <1>1, <2>7, ChainSize
    <3>3. PICK pos \in Nat, old \in Nat : pos = file[fd].pos /\ old = file[fd].size
      BY <1>8
    <3>4. old <= ClusterSize * u /\ u <= v /\ have <= v
      BY <2>8, <3>1, <3>2, <3>3 DEF Fits
    <3>5. PICK end : end = WriteEnd(pos, size, have)
      OBVIOUS
    <3>6. (IF end > pos THEN Larger(old, end) ELSE old) <= ClusterSize * v
      BY <1>8, <3>4, <3>5, WriteFits
    <3>7. rec.size = IF end > pos THEN Larger(old, end) ELSE old
      BY <1>15, <3>2, <3>3, <3>5
    <3>8. QED
      BY <3>2, <3>6, <3>7 DEF Fits
  <2>10. \A e \in Fd : fm[e].is_open /\ fm[e].loc = loc => Fits(g, fm[e].first, fm[e].size)
    BY <1>15, <2>2, <2>3, <2>9
  <2>11. IsOpenAt(fm, fd, loc)
    BY <1>15, <2>2 DEF IsOpenAt
  <2>12. SizesOK(g, content, fm)
    BY <2>4, <2>5, <2>6, <2>7, <2>10, <2>11, SizesSame
  <2>13. QED
    BY <1>14, <2>1, <2>12
<1>34. FatInv'
  BY <1>1, <1>14, <1>16, <1>19, <1>27, <1>28, <1>30, <1>31, <1>33 DEF FatInv
<1>35. OnlyOne
  <2>1. \A e \in Fd : \/ file'[e] = file[e]
                      \/ file[e].loc = loc /\ file'[e].loc = loc
    BY <1>3, <1>15, <1>17
  <2>2. \A l \in LiveIn(content) : l # loc => SlotIn(content', l) = SlotIn(content, l)
    BY <1>14
  <2> HIDE DEF A, h, k, D, J
  <2>3. QED
    BY <1>3, <1>4, <1>32, <2>1, <2>2, SparesOthers
<1>36. QED
  BY <1>34, <1>35

(***************************************************************************)
(* New entries.                                                            *)
(***************************************************************************)

\* Sequences of one element.
LEMMA Single ==
    ASSUME NEW S, NEW a \in S
    PROVE  <<a>> \in Seq(S) /\ <<a>> # << >> /\ Len(<<a>>) = 1 /\ <<a>>[1] = a
OBVIOUS

LEMMA SubSeqOne ==
    ASSUME NEW S, NEW w \in Seq(S), NEW m \in 1 .. Len(w)
    PROVE  SubSeq(w, m, m) = <<w[m]>>
<1>1. w[m] \in S /\ m \in Int
  OBVIOUS
<1>2. PICK u \in Seq(S) : u = SubSeq(w, m, m) /\ Len(u) = 1 /\ u[1] = w[m]
  <2>1. \A i \in m .. m : w[i] \in S
    BY <1>1
  <2>2. /\ SubSeq(w, m, m) \in Seq(S)
        /\ Len(SubSeq(w, m, m)) = IF m <= m THEN m - m + 1 ELSE 0
        /\ \A i \in 1 .. m - m + 1 : SubSeq(w, m, m)[i] = w[m + i - 1]
    BY <1>1, <2>1, SubSeqProperties
  <2>3. Len(SubSeq(w, m, m)) = 1 /\ SubSeq(w, m, m)[1] = w[m]
    BY <1>1, <2>2
  <2>4. QED
    BY <2>2, <2>3, Zenon
<1>3. PICK v \in Seq(S) : v = <<w[m]>> /\ Len(v) = 1 /\ v[1] = w[m]
  BY <1>1, Single
<1>4. \A i \in 1 .. Len(u) : u[i] = v[i]
  BY <1>2, <1>3
<1>5. u = v
  BY <1>2, <1>3, <1>4, SeqEqual
<1>6. QED
  BY <1>2, <1>3, <1>5

\* A cluster of file data is one all of whose slots are.
LEMMA JunkSlots ==
    ASSUME NEW ct \in Contents, NEW c \in Cluster
    PROVE  c \in JunkIn(ct) <=> \A i \in 1 .. DirSlots : SlotIn(ct, <<c, i>>) = Blank("junk")
<1>1. ct[c] \in [1 .. DirSlots -> Slot]
  BY DEF Contents
<1>2. ct[c] = Filled("junk") <=> \A i \in 1 .. DirSlots : ct[c][i] = Blank("junk")
  BY <1>1 DEF Filled
<1>3. QED
  BY <1>2 DEF JunkIn, SlotIn

\* A slot fat32_create_entry may use.
LEMMA FreeSlotIs ==
    ASSUME fat \in Table, NEW dir, NEW loc \in FreeSlot(dir)
    PROVE  /\ loc \in Locs /\ loc[1] \in Chain(fat, dir)
           /\ SlotIn(content, loc).kind \in {"end", "del"}
           /\ \A m \in Locs : m[1] = loc[1] /\ m[2] < loc[2] =>
                 SlotIn(content, m).kind \notin {"end", "del"}
<1> DEFINE w == Walk(fat, dir)
<1>1. w \in Seq(Cluster)
  BY WalkIs DEF IsWalk
<1>2. PICK p \in Positions(w) :
         /\ loc = At(w, p) /\ SlotAt(loc).kind \in {"end", "del"}
         /\ \A r \in 1 .. p - 1 : SlotAt(At(w, r)).kind \notin {"end", "del"}
  BY DEF FreeSlot
<1>3. \A i \in 1 .. Len(w) : w[i] \in Chain(fat, dir)
  BY DEF Chain
<1> HIDE DEF w
<1>4. loc \in Locs /\ \E i \in 1 .. Len(w) : loc[1] = w[i]
  BY <1>1, <1>2, Places
<1>5. ASSUME NEW m \in Locs, m[1] = loc[1], m[2] < loc[2]
      PROVE  SlotIn(content, m).kind \notin {"end", "del"}
  <2>1. PICK a \in 1 .. Len(w), b \in 1 .. DirSlots : loc = <<w[a], b>> /\ p = DirSlots * (a - 1) + b
    BY <1>1, <1>2, PlaceOf
  <2>2. PICK c \in 1 .. DirSlots : c = m[2] /\ m = <<w[a], c>> /\ c < b
    BY <1>5, <2>1 DEF Locs
  <2>3. DirSlots \in Nat
    BY FatAssumption, SMT
  <2>4. PICK z \in Int : z = DirSlots * (a - 1)
    BY ONLY <2>3, a \in Int, SMT
  <2>5. PICK q : q = DirSlots * (a - 1) + c
    OBVIOUS
  <2>6. q \in Positions(w) /\ At(w, q) = m
    BY <1>1, <2>2, <2>5, PlaceOf
  <2>7. q \in 1 .. p - 1
    <3>1. p = z + b /\ q = z + c
      BY ONLY <2>1, <2>4, <2>5, Zenon
    <3>2. q \in Nat /\ q # 0
      BY <2>6 DEF Positions
    <3>3. c < b
      BY <2>2
    <3>4. QED
      BY ONLY b \in 1 .. DirSlots, c \in 1 .. DirSlots, z \in Int, <2>3, <3>1, <3>2, <3>3, SMT
  <2>8. QED
    BY <1>2, <2>6, <2>7, Forms
<1>6. QED
  BY <1>2, <1>3, <1>4, <1>5, Forms

\* In a full directory every slot is taken.
LEMMA NoFreeSlot ==
    ASSUME fat \in Table, NEW dir, FreeSlot(dir) = {}, NEW l \in Locs, l[1] \in Chain(fat, dir)
    PROVE  SlotIn(content, l).kind \notin {"end", "del"}
<1> DEFINE w == Walk(fat, dir)
           usable(p) == SlotAt(At(w, p)).kind \in {"end", "del"}
           T == {p \in Positions(w) : usable(p)}
<1>1. w \in Seq(Cluster)
  BY WalkIs DEF IsWalk
<1>2. PICK a \in 1 .. Len(w) : l[1] = w[a]
  BY DEF Chain
<1>3. PICK b \in 1 .. DirSlots : l = <<w[a], b>>
  BY <1>2 DEF Locs
<1>4. FreeSlot(dir) = {At(w, p) : p \in {q \in Positions(w) :
            usable(q) /\ \A r \in 1 .. q - 1 : ~ usable(r)}}
  BY DEF FreeSlot
<1> HIDE DEF w
<1>5. PICK p \in Positions(w) : At(w, p) = l
  <2>1. PICK p : p = DirSlots * (a - 1) + b
    OBVIOUS
  <2>2. QED
    BY <1>1, <1>3, <2>1, PlaceOf
<1>6. SUFFICES ASSUME usable(p) PROVE FALSE
  BY <1>5, Forms
<1>7. T \subseteq Nat /\ T # {}
  BY <1>6 DEF Positions
<1>8. PICK q \in T : \A r \in T : q <= r
  <2> HIDE DEF T
  <2>1. QED
    BY <1>7, LeastElement
<1>9. ASSUME NEW r \in 1 .. q - 1 PROVE ~ usable(r)
  <2>1. q \in Positions(w) /\ q \in Nat
    BY <1>7
  <2>2. r \in Positions(w)
    <3>1. PICK n : n = Len(w) * DirSlots
      OBVIOUS
    <3>2. q \in 1 .. n
      BY <2>1, <3>1 DEF Positions
    <3>3. n \in Int
      <4>1. DirSlots \in Nat
        BY FatAssumption, SMT
      <4>2. PICK k \in Nat : k = Len(w)
        BY <1>1
      <4>3. k * DirSlots \in Int
        BY ONLY <4>1, k \in Nat, SMT
      <4>4. QED
        BY <3>1, <4>2, <4>3
    <3>4. r \in 1 .. n
      BY <2>1, <3>2, <3>3
    <3>5. QED
      BY <3>1, <3>4 DEF Positions
  <2>3. r \in T => q <= r
    BY <1>8
  <2>4. r \notin T
    <3> HIDE DEF T
    <3>1. QED
      BY <2>1, <2>3
  <2>5. QED
    BY <2>2, <2>4
<1>10. At(w, q) \in FreeSlot(dir)
  <2> HIDE DEF usable
  <2>1. q \in Positions(w) /\ usable(q)
    BY <1>8
  <2>2. QED
    BY <1>4, <1>9, <2>1
<1>11. QED
  BY <1>10

\* What the new entry at loc for the chain a does; b is the cluster that the
\* directory gets behind its last, t, or 0.
Added(name, dir, a, b, t, loc) ==
    /\ a \in Cluster /\ fat[a] = FREE
    /\ t \in Chain(fat, cwd) /\ fat[t] \notin Cluster
    /\ b = 0 => /\ loc[1] \in Chain(fat, cwd) /\ SlotIn(content, loc).kind \in {"end", "del"}
                /\ \A m \in Locs : m[1] = loc[1] /\ m[2] < loc[2] =>
                      SlotIn(content, m).kind \notin {"end", "del"}
                /\ fat' = Linked(fat, 0, <<a>>)
    /\ b # 0 => /\ b \in Cluster /\ fat[b] = FREE /\ b # a /\ loc[1] = b /\ loc[2] = 1
                /\ \A m \in Locs : m[1] \in Chain(fat, cwd) =>
                      SlotIn(content, m).kind \notin {"end", "del"}
                /\ fat' = Linked(Linked(fat, 0, <<a>>), t, <<b>>)
    /\ content' \in Contents
    /\ SlotIn(content', loc) = Entry(name, dir, a)
    /\ \A l \in Locs : l # loc =>
          SlotIn(content', l) = IF l[1] = b \/ (dir /\ l[1] = a) THEN Blank("end")
                                ELSE SlotIn(content, l)

LEMMA SlotForms ==
    /\ \A kind \in Kind : Blank(kind) \in Slot /\ Blank(kind).kind = kind
    /\ \A name \in Names, dir \in BOOLEAN, a \in Cluster :
          /\ Entry(name, dir, a) \in Slot /\ Entry(name, dir, a).kind = "live"
          /\ Entry(name, dir, a).dir = dir /\ Entry(name, dir, a).first = a
    /\ \A kind \in Kind : Filled(kind) \in [1 .. DirSlots -> Slot]
<1>1. MaxSize \in Nat
  BY FatAssumption, SMT
<1>2. \A kind \in Kind : Blank(kind) \in Slot /\ Blank(kind).kind = kind
  BY <1>1 DEF Blank, Slot, Kind
<1>3. \A name \in Names, dir \in BOOLEAN, a \in Cluster :
          /\ Entry(name, dir, a) \in Slot /\ Entry(name, dir, a).kind = "live"
          /\ Entry(name, dir, a).dir = dir /\ Entry(name, dir, a).first = a
  BY <1>1 DEF Entry, Slot, Kind
<1>4. \A kind \in Kind : Filled(kind) \in [1 .. DirSlots -> Slot]
  BY <1>2 DEF Filled
<1>5. QED
  BY <1>2, <1>3, <1>4

LEMMA LinkedNone ==
    ASSUME NEW f \in Table, NEW t
    PROVE  Linked(f, t, << >>) = f
<1>1. f = [c \in Cluster |-> f[c]]
  BY DEF Table
<1>2. \A c \in Cluster : Linked(f, t, << >>)[c] = f[c]
  BY DEF Linked
<1>3. QED
  BY <1>1, <1>2 DEF Linked

LEMMA AddedIs ==
    ASSUME FatInv, NEW name \in Names, NEW dir \in BOOLEAN, NEW w \in NewEntryClusters,
           AddEntry(name, dir, w)
    PROVE  \E a, b, t : \E loc \in Locs :
              Added(name, dir, a, b, t, loc) /\ a = w[1] /\ loc = EntryLoc(w)
<1>1. /\ fat \in Table /\ content \in Contents /\ cwd \in Cluster
  BY DEF FatInv, PathOK
<1>2. PICK n \in {1, 2} : n = (IF FreeSlot(cwd) = {} THEN 2 ELSE 1) /\ w \in [1 .. n -> Free(fat)]
                          /\ NextFit(w)
  BY DEF NewEntryClusters
<1>3. /\ w \in Seq(Cluster) /\ Len(w) = n /\ Distinct(w)
      /\ \A i \in 1 .. n : w[i] \in Cluster /\ fat[w[i]] = FREE
  BY <1>2, NextFitIs
<1>4. PICK a \in Cluster : a = w[1] /\ fat[a] = FREE
  BY <1>2, <1>3
<1>5. PICK b \in Cluster \cup {0} : b = IF Len(w) = 2 THEN w[2] ELSE 0
  BY <1>2, <1>3
<1>6. PICK t : /\ t = Walk(fat, cwd)[Len(Walk(fat, cwd))] /\ t \in Chain(fat, cwd)
               /\ fat[t] \notin Cluster
  <2>0. Links(fat) /\ NoLinkTo(fat, cwd)
    <3>1. OpenOK(content, file) /\ DirForestOK(fat, content, file) /\ DirHead(content, cwd)
      BY DEF FatInv, PathOK
    <3>2. QED
      BY <3>1, DirHeadIs DEF DirForestOK, Forest
  <2>1. PICK v \in Seq(Cluster) : /\ v = Walk(fat, cwd) /\ Len(v) >= 1
                                  /\ fat[v[Len(v)]] \notin Cluster
    BY <1>1, <2>0, WalkComplete
  <2>2. Len(v) \in 1 .. Len(v)
    BY <2>1
  <2>3. QED
    BY <2>1, <2>2 DEF Chain
<1>7. PICK loc : loc = EntryLoc(w)
  OBVIOUS
<1>8. SubSeq(w, 1, 1) = <<a>>
  BY <1>2, <1>3, <1>4, SubSeqOne
<1>9. /\ fat' = Linked(Linked(fat, 0, <<a>>), t, SubSeq(w, 2, Len(w)))
      /\ content' = [Zeroed(a, b, dir) EXCEPT ![loc[1]][loc[2]] = Entry(name, dir, a)]
  BY <1>4, <1>5, <1>6, <1>7, <1>8 DEF AddEntry
<1>12. /\ loc \in Locs
       /\ b = 0 => /\ loc[1] \in Chain(fat, cwd) /\ SlotIn(content, loc).kind \in {"end", "del"}
                   /\ \A m \in Locs : m[1] = loc[1] /\ m[2] < loc[2] =>
                         SlotIn(content, m).kind \notin {"end", "del"}
                   /\ fat' = Linked(fat, 0, <<a>>)
       /\ b # 0 => /\ b \in Cluster /\ fat[b] = FREE /\ b # a /\ loc[1] = b /\ loc[2] = 1
                   /\ \A m \in Locs : m[1] \in Chain(fat, cwd) =>
                         SlotIn(content, m).kind \notin {"end", "del"}
                   /\ fat' = Linked(Linked(fat, 0, <<a>>), t, <<b>>)
  <2>1. CASE n = 1
    <3>1. b = 0
      BY <1>3, <1>5, <2>1
    <3>2. loc \in FreeSlot(cwd)
      BY <1>2, <1>3, <1>7, <2>1 DEF EntryLoc
    <3>3. /\ loc \in Locs /\ loc[1] \in Chain(fat, cwd)
          /\ SlotIn(content, loc).kind \in {"end", "del"}
          /\ \A m \in Locs : m[1] = loc[1] /\ m[2] < loc[2] =>
                SlotIn(content, m).kind \notin {"end", "del"}
      BY <1>1, <3>2, FreeSlotIs
    <3>4. fat' = Linked(fat, 0, <<a>>)
      <4>1. SubSeq(w, 2, Len(w)) = << >>
        BY <1>3, <2>1
      <4>2. PICK g : g = Linked(fat, 0, <<a>>)
        OBVIOUS
      <4>3. PICK u \in Seq(Cluster) : u = <<a>> /\ Len(u) = 1 /\ u[1] = a
        BY Single
      <4>4. Distinct(u) /\ \A i \in 1 .. Len(u) : u[i] # 0
        BY <4>3, Clusters DEF Distinct
      <4>5. g \in Table
        BY <1>1, <4>2, <4>3, <4>4, LinkedIs
      <4>6. Linked(g, t, << >>) = g
        BY <4>5, LinkedNone
      <4>7. QED
        BY <1>9, <4>1, <4>2, <4>6
    <3>5. QED
      BY <3>1, <3>3, <3>4
  <2>2. CASE n = 2
    <3>1. b = w[2] /\ b \in Cluster /\ fat[b] = FREE /\ b # 0
      BY <1>3, <1>5, <2>2, Clusters
    <3>2. a # b
      BY <1>3, <1>4, <2>2, <3>1 DEF Distinct
    <3>3. loc = <<b, 1>>
      BY <1>3, <1>7, <2>2, <3>1 DEF EntryLoc
    <3>4. loc \in Locs /\ loc[1] = b /\ loc[2] = 1
      <4>1. DirSlots \in Nat /\ DirSlots # 0
        BY FatAssumption, SMT
      <4>2. QED
        BY <3>1, <3>3, <4>1 DEF Locs
    <3>5. SubSeq(w, 2, Len(w)) = <<b>>
      <4>1. 2 \in 1 .. Len(w) /\ Len(w) = 2
        BY <1>3, <2>2
      <4>2. SubSeq(w, 2, 2) = <<w[2]>>
        BY <1>3, <4>1, SubSeqOne
      <4>3. QED
        BY <3>1, <4>1, <4>2
    <3>6. fat' = Linked(Linked(fat, 0, <<a>>), t, <<b>>)
      BY <1>9, <3>5
    <3>7. \A m \in Locs : m[1] \in Chain(fat, cwd) => SlotIn(content, m).kind \notin {"end", "del"}
      <4>1. FreeSlot(cwd) = {}
        BY <1>2, <2>2
      <4>2. QED
        BY <1>1, <4>1, NoFreeSlot
    <3>8. QED
      BY <3>1, <3>2, <3>4, <3>6, <3>7
  <2>3. QED
    BY <2>1, <2>2
<1>13. PICK z \in Contents :
          /\ z = Zeroed(a, b, dir)
          /\ \A c \in Cluster, i \in 1 .. DirSlots :
                z[c][i] = IF c = b \/ (dir /\ c = a) THEN Blank("end") ELSE content[c][i]
  <2>1. Filled("end") \in [1 .. DirSlots -> Slot] /\ \A i \in 1 .. DirSlots : Filled("end")[i] = Blank("end")
    BY SlotForms DEF Filled, Kind
  <2>2. Zeroed(a, b, dir) \in Contents
    BY <1>1, <2>1 DEF Zeroed, Contents
  <2>3. \A c \in Cluster : Zeroed(a, b, dir)[c] =
            IF c = b \/ (dir /\ c = a) THEN Filled("end") ELSE content[c]
    BY DEF Zeroed
  <2>4. QED
    BY <2>1, <2>2, <2>3
<1>14. PICK ent \in Slot : ent = Entry(name, dir, a)
  BY SlotForms DEF Kind
<1>15. content' = [z EXCEPT ![loc[1]][loc[2]] = ent]
  BY <1>9, <1>13, <1>14
<1>16. loc[1] \in Cluster /\ loc[2] \in 1 .. DirSlots /\ loc = <<loc[1], loc[2]>>
  BY <1>1, <1>12, SlotType
<1>17. content' \in Contents
  BY <1>15, <1>16 DEF Contents
<1>18. SlotIn(content', loc) = ent
  BY <1>15, <1>16 DEF Contents, SlotIn
<1>19. ASSUME NEW l \in Locs, l # loc
       PROVE  SlotIn(content', l) = IF l[1] = b \/ (dir /\ l[1] = a) THEN Blank("end")
                                    ELSE SlotIn(content, l)
  <2>1. l[1] \in Cluster /\ l[2] \in 1 .. DirSlots /\ l = <<l[1], l[2]>>
    BY <1>1, SlotType
  <2>2. l[1] # loc[1] \/ l[2] # loc[2]
    BY <1>16, <1>19, <2>1
  <2>3. content'[l[1]][l[2]] = z[l[1]][l[2]]
    BY <1>15, <1>16, <2>1, <2>2 DEF Contents
  <2>4. QED
    BY <1>13, <2>1, <2>3 DEF SlotIn
<1>20. Added(name, dir, a, b, t, loc)
  BY <1>4, <1>6, <1>12, <1>14, <1>17, <1>18, <1>19 DEF Added
<1>21. QED
  BY <1>4, <1>7, <1>12, <1>20

\* The live entries and the clusters of file data after that.
LEMMA AddedSets ==
    ASSUME FatInv, NEW name \in Names, NEW dir \in BOOLEAN, NEW a, NEW b, NEW t, NEW loc \in Locs,
           Added(name, dir, a, b, t, loc)
    PROVE  /\ loc \notin LiveIn(content)
           /\ \A l \in LiveIn(content) : SlotIn(content', l) = SlotIn(content, l)
           /\ LiveIn(content') = LiveIn(content) \cup {loc}
           /\ DirsIn(content') = IF dir THEN DirsIn(content) \cup {loc} ELSE DirsIn(content)
           /\ JunkIn(content') = (IF dir THEN JunkIn(content) \ {a} ELSE JunkIn(content)) \ {b}
           /\ \A l \in Locs : fat[l[1]] # FREE /\ l[1] \notin Chain(fat, cwd) =>
                 SlotIn(content', l) = SlotIn(content, l)
<1>1. /\ fat \in Table /\ content \in Contents /\ file \in Files /\ OpenOK(content, file)
      /\ DirForestOK(fat, content, file) /\ DirHead(content, cwd)
  BY DEF FatInv, PathOK
<1> DEFINE J == JunkIn(content)
<1>2. \A c \in Cluster : fat[c] = FREE => c \in J
  BY <1>1 DEF DirForestOK, Forest, Kinds
<1>3. \A l \in Locs : l[1] \in J => SlotIn(content, l).kind = "junk"
  <2>1. ASSUME NEW l \in Locs, SlotIn(content, l).kind # "junk" PROVE l[1] \notin J
    BY <2>1, LiveNotJunk
  <2>2. QED
    BY <2>1
<1> HIDE DEF J
<1>4. a \in Cluster /\ fat[a] = FREE /\ a \in J
  BY <1>2 DEF Added
<1>5. b # 0 => b \in Cluster /\ fat[b] = FREE /\ b \in J /\ loc[1] = b
  BY <1>2 DEF Added
<1>6. b = 0 => loc[1] \in Chain(fat, cwd) /\ SlotIn(content, loc).kind \in {"end", "del"}
  BY DEF Added
<1>7. SlotIn(content', loc) = Entry(name, dir, a) /\ content' \in Contents
  BY DEF Added
<1>8. \A l \in Locs : l # loc =>
          SlotIn(content', l) = IF l[1] = b \/ (dir /\ l[1] = a) THEN Blank("end")
                                ELSE SlotIn(content, l)
  BY DEF Added
<1>9. \A l \in Locs : l[1] \in Cluster /\ l[2] \in 1 .. DirSlots /\ l = <<l[1], l[2]>>
  BY <1>1, SlotType
<1>10. Blank("end").kind = "end" /\ Blank("junk").kind = "junk"
  BY SlotForms DEF Kind
<1>11. /\ SlotIn(content', loc).kind = "live" /\ SlotIn(content', loc).dir = dir
  BY <1>4, <1>7, SlotForms
<1>12. SlotIn(content, loc).kind # "live"
  BY <1>3, <1>5, <1>6
<1>13. \A l \in Locs : SlotIn(content, l).kind = "live" =>
          l # loc /\ SlotIn(content', l) = SlotIn(content, l)
  <2>1. ASSUME NEW l \in Locs, SlotIn(content, l).kind = "live"
        PROVE  l # loc /\ SlotIn(content', l) = SlotIn(content, l)
    <3>1. l[1] \notin J /\ l # loc /\ l[1] \in Cluster
      BY <1>3, <1>9, <1>12, <2>1
    <3>2. l[1] # a /\ l[1] # b
      BY <1>4, <1>5, <3>1, Clusters
    <3>3. QED
      BY <1>8, <3>1, <3>2
  <2>2. QED
    BY <2>1
<1>14. \A l \in Locs : l # loc /\ SlotIn(content', l).kind = "live" =>
          SlotIn(content, l).kind = "live"
  BY <1>8, <1>10
<1>15. LiveIn(content') = LiveIn(content) \cup {loc}
  BY <1>11, <1>13, <1>14 DEF LiveIn
<1>16. DirsIn(content') = IF dir THEN DirsIn(content) \cup {loc} ELSE DirsIn(content)
  <2>1. loc \notin LiveIn(content) /\ \A l \in LiveIn(content) : SlotIn(content', l) = SlotIn(content, l)
    BY <1>12, <1>13 DEF LiveIn
  <2>2. QED
    BY <1>11, <1>15, <2>1 DEF DirsIn
<1>17. ASSUME NEW c \in Cluster
       PROVE  c \in JunkIn(content') <=> c \in (IF dir THEN J \ {a} ELSE J) \ {b}
  <2>1. \A i \in 1 .. DirSlots : <<c, i>> \in Locs /\ <<c, i>>[1] = c
    BY DEF Locs
  <2>2. DirSlots \in Nat /\ 1 \in 1 .. DirSlots
    BY FatAssumption, SMT
  <2>3. ASSUME NEW l \in Locs, l[1] = c, SlotIn(content', l).kind # "junk"
        PROVE  c \notin JunkIn(content')
    <3>1. l = <<c, l[2]>> /\ l[2] \in 1 .. DirSlots
      BY <1>9, <2>3
    <3>2. SlotIn(content', l) # Blank("junk")
      BY <1>10, <2>3
    <3>3. PICK ct \in Contents : ct = content'
      BY <1>7
    <3>4. c \notin JunkIn(ct)
      BY <3>1, <3>2, <3>3, JunkSlots
    <3>5. QED
      BY <3>3, <3>4
  <2>4. CASE c = loc[1]
    <3>1. c \notin JunkIn(content')
      BY <1>11, <2>3, <2>4
    <3>2. b = 0 => c \notin J
      BY <1>1, <1>6, <2>4, DirHeadIs DEF J
    <3>3. QED
      BY <1>5, <2>4, <3>1, <3>2
  <2>5. CASE c # loc[1] /\ dir /\ c = a
    <3>1. SlotIn(content', <<c, 1>>) = Blank("end")
      <4>1. <<c, 1>> \in Locs /\ <<c, 1>> # loc /\ <<c, 1>>[1] = a
        BY <2>1, <2>2, <2>5
      <4>2. QED
        BY <1>8, <2>5, <4>1
    <3>2. c \notin JunkIn(content')
      BY <1>10, <2>1, <2>2, <2>3, <3>1
    <3>3. QED
      BY <2>5, <3>2
  <2>6. CASE c # loc[1] /\ ~ (dir /\ c = a)
    <3>1. c # b
      BY <1>5, <2>6, Clusters
    <3>2. \A i \in 1 .. DirSlots : SlotIn(content', <<c, i>>) = SlotIn(content, <<c, i>>)
      <4>1. ASSUME NEW i \in 1 .. DirSlots PROVE SlotIn(content', <<c, i>>) = SlotIn(content, <<c, i>>)
        <5>1. PICK l \in Locs : l = <<c, i>> /\ l[1] = c
          BY <2>1
        <5>2. l # loc
          BY <2>6, <5>1
        <5>3. SlotIn(content', l) = SlotIn(content, l)
          BY <1>8, <2>6, <3>1, <5>1, <5>2
        <5>4. QED
          BY <5>1, <5>3
      <4>2. QED
        BY <4>1
    <3>3. PICK ct \in Contents : ct = content'
      BY <1>7
    <3>4. c \in JunkIn(ct) <=> c \in J
      <4>1. c \in JunkIn(ct) <=> \A i \in 1 .. DirSlots : SlotIn(ct, <<c, i>>) = Blank("junk")
        BY <3>3, JunkSlots
      <4>2. c \in J <=> \A i \in 1 .. DirSlots : SlotIn(content, <<c, i>>) = Blank("junk")
        BY <1>1, JunkSlots DEF J
      <4>3. QED
        BY <3>2, <3>3, <4>1, <4>2
    <3>5. QED
      BY <2>6, <3>1, <3>3, <3>4
  <2>7. QED
    BY <2>4, <2>5, <2>6
<1>18. JunkIn(content') = (IF dir THEN J \ {a} ELSE J) \ {b}
  BY <1>17 DEF JunkIn, J
<1>19. ASSUME NEW l \in Locs, fat[l[1]] # FREE, l[1] \notin Chain(fat, cwd)
       PROVE  SlotIn(content', l) = SlotIn(content, l)
  <2>1. l # loc /\ l[1] # a /\ l[1] # b
    BY <1>4, <1>5, <1>6, <1>9, <1>19, Clusters
  <2>2. QED
    BY <1>8, <2>1
<1>20. loc \notin LiveIn(content) /\ \A l \in LiveIn(content) : SlotIn(content', l) = SlotIn(content, l)
  BY <1>12, <1>13 DEF LiveIn
<1>21. QED
  BY <1>15, <1>16, <1>18, <1>19, <1>20 DEF J

\* A step that adds an entry and leaves the heads of the others as they are.
LEMMA AddedSlots ==
    ASSUME FatInv, NEW name \in Names, NEW dir \in BOOLEAN, NEW a, NEW b, NEW t, NEW loc \in Locs,
           Added(name, dir, a, b, t, loc),
           \A c \in Cluster : fat'[c] \in Cluster => fat[c] \in Cluster \/ (b # 0 /\ c = t)
    PROVE  SlotsOK(fat', content')
<1>1. /\ content \in Contents /\ SlotsOK(fat, content) /\ DirForestOK(fat, content, file)
      /\ OpenOK(content, file) /\ DirHead(content, cwd)
  BY DEF FatInv, PathOK
<1>2. PICK J : /\ J = JunkIn(content)
               /\ JunkIn(content') = (IF dir THEN J \ {a} ELSE J) \ {b}
  BY AddedSets
<1>3. /\ Chain(fat, cwd) \cap J = {}
      /\ \A d \in Chain(fat, cwd) : d \in Cluster /\ fat[d] # FREE
  BY <1>1, <1>2, DirHeadIs
<1>4. /\ a \in Cluster /\ fat[a] = FREE /\ t \in Chain(fat, cwd)
      /\ b # 0 => b \in Cluster /\ fat[b] = FREE
  BY DEF Added
<1>5. \A c \in Cluster : c = a \/ c = b => fat'[c] \notin Cluster
  BY <1>3, <1>4, Clusters
<1>6. /\ SlotIn(content', loc).kind = "live"
      /\ Blank("end").kind = "end"
  BY <1>4, SlotForms DEF Added, Kind
<1>7. \A l \in Locs : l # loc =>
          SlotIn(content', l) = IF l[1] = b \/ (dir /\ l[1] = a) THEN Blank("end")
                                ELSE SlotIn(content, l)
  BY DEF Added
<1>8. \A l \in Locs : l[1] \in Cluster /\ l[2] \in 1 .. DirSlots /\ l = <<l[1], l[2]>>
  BY <1>1, SlotType
<1>9. ASSUME NEW l \in Locs, l[1] \notin JunkIn(content'), l # loc
      PROVE  \/ (l[1] = a \/ l[1] = b) /\ SlotIn(content', l).kind = "end"
             \/ /\ l[1] # b /\ ~ (dir /\ l[1] = a)
                /\ l[1] \notin J /\ SlotIn(content', l) = SlotIn(content, l)
  BY <1>2, <1>6, <1>7, <1>9
<1>10. ASSUME NEW l \in Locs, l[1] \notin JunkIn(content'), SlotIn(content', l).kind = "end"
       PROVE  fat'[l[1]] \notin Cluster
  <2>1. l # loc /\ l[1] \in Cluster
    BY <1>6, <1>8, <1>10
  <2>2. CASE l[1] = a \/ l[1] = b
    BY <1>5, <2>1, <2>2
  <2>3. CASE l[1] \notin J /\ SlotIn(content, l).kind = "end"
    <3>1. fat[l[1]] \notin Cluster
      BY <1>1, <1>2, <2>3 DEF SlotsOK
    <3>2. ~ (b # 0 /\ l[1] = t)
      BY <1>4, <2>3 DEF Added
    <3>3. QED
      BY <2>1, <3>1, <3>2
  <2>4. QED
    BY <1>9, <1>10, <2>1, <2>2, <2>3
<1>11. ASSUME NEW l \in Locs, l[1] \notin JunkIn(content'), NEW m \in Locs, m[1] = l[1], m[2] < l[2],
              SlotIn(content', m).kind = "end"
       PROVE  SlotIn(content', l).kind # "live"
  <2>1. m # loc
    BY <1>6, <1>11
  <2>2. CASE l = loc
    <3>1. CASE b = 0
      <4>1. /\ m[1] \in Chain(fat, cwd) /\ SlotIn(content, m).kind # "end"
        BY <1>11, <2>2, <3>1 DEF Added
      <4>2. m[1] # a /\ m[1] # b
        BY <1>3, <1>4, <3>1, <4>1, Clusters
      <4>3. QED
        BY <1>7, <1>11, <2>1, <4>1, <4>2
    <3>2. CASE b # 0
      <4>1. l[2] = 1 /\ m[2] \in 1 .. DirSlots /\ DirSlots \in Nat
        BY <1>8, <2>2, <3>2, FatAssumption, SMT DEF Added
      <4>2. QED
        BY <1>11, <4>1
    <3>3. QED
      BY <3>1, <3>2
  <2>3. CASE l # loc
    <3>1. CASE SlotIn(content', l).kind = "end"
      BY <3>1
    <3>2. CASE l[1] # b /\ ~ (dir /\ l[1] = a) /\ l[1] \notin J /\ SlotIn(content', l) = SlotIn(content, l)
      <4>1. SlotIn(content', m) = SlotIn(content, m)
        BY <1>7, <1>11, <2>1, <3>2
      <4>2. QED
        BY <1>1, <1>2, <1>11, <3>2, <4>1 DEF SlotsOK
    <3>3. QED
      BY <1>9, <1>11, <2>3, <3>1, <3>2
  <2>4. QED
    BY <2>2, <2>3
<1>12. ASSUME NEW l \in Locs, l[1] \notin JunkIn(content') PROVE SlotIn(content', l).kind # "junk"
  <2>1. CASE l = loc
    BY <1>6, <2>1
  <2>2. CASE l # loc
    BY <1>1, <1>2, <1>9, <1>12, <2>2 DEF SlotsOK
  <2>3. QED
    BY <2>1, <2>2
<1>13. QED
  BY <1>10, <1>11, <1>12 DEF SlotsOK

LEMMA AddedSizes ==
    ASSUME FatInv, NEW name \in Names, NEW dir \in BOOLEAN, NEW a, NEW b, NEW t, NEW loc \in Locs,
           Added(name, dir, a, b, t, loc), fat' \in Table,
           \A c \in Cluster : fat[c] # FREE /\ c \notin Chain(fat, cwd) => fat'[c] = fat[c],
           \A fd \in Fd : \/ file'[fd] = file[fd]
                          \/ /\ ~ file[fd].is_open
                             /\ file'[fd].loc = loc /\ file'[fd].size = 0
    PROVE  SizesOK(fat', content', file')
<1>1. PICK g, cu, fm : g = fat' /\ cu = content' /\ fm = file'
  OBVIOUS
<1>2. /\ g \in Table
      /\ \A fd \in Fd : \/ fm[fd] = file[fd]
                        \/ ~ file[fd].is_open /\ fm[fd].loc = loc /\ fm[fd].size = 0
  <2>1. ASSUME NEW fd \in Fd
        PROVE  \/ fm[fd] = file[fd]
               \/ ~ file[fd].is_open /\ fm[fd].loc = loc /\ fm[fd].size = 0
    <3>1. fm[fd] = file'[fd]
      BY <1>1
    <3>2. QED
      BY <3>1
  <2>2. QED
    BY <1>1, <2>1
<1>3. /\ loc \notin LiveIn(content)
      /\ \A l \in LiveIn(cu) : l # loc => l \in LiveIn(content) /\ SlotIn(cu, l) = SlotIn(content, l)
  <2>1. /\ loc \notin LiveIn(content)
        /\ \A l \in LiveIn(content) : SlotIn(content', l) = SlotIn(content, l)
        /\ LiveIn(content') = LiveIn(content) \cup {loc}
    BY AddedSets
  <2>2. QED
    BY <1>1, <2>1
<1>4. \A fd \in Fd : fm[fd].is_open /\ fm[fd].loc # loc =>
          /\ file[fd].is_open /\ fm[fd].loc = file[fd].loc
          /\ fm[fd].first = file[fd].first /\ fm[fd].size = file[fd].size
  BY <1>2
<1>5. \A l \in LiveIn(cu), fd \in Fd : IsOpenAt(file, fd, l) => IsOpenAt(fm, fd, l)
  BY <1>2 DEF IsOpenAt
<1>6. ASSUME NEW l \in LiveIn(content) \ DirsIn(content), NEW c \in Chain(fat, HeadAt(content, file, l))
      PROVE  g[c] = fat[c]
  <2>1. c \in Cluster /\ fat[c] # FREE
    BY <1>6, FileChain
  <2>2. c \notin Chain(fat, cwd)
    BY <1>6, FilesApart
  <2>3. QED
    BY <1>1, <2>1, <2>2
<1>7. ASSUME NEW fd \in Fd, fm[fd].is_open, fm[fd].loc = loc PROVE Fits(g, fm[fd].first, fm[fd].size)
  <2>1. ~ (file[fd].is_open /\ file[fd].loc = loc)
    BY <1>3 DEF FatInv, OpenOK
  <2>2. fm[fd].size = 0
    BY <1>2, <1>7, <2>1
  <2>3. QED
    BY <1>2, <2>2, ChainSize
<1>8. EntryFits(g, cu, loc)
  <2>1. SlotIn(cu, loc) = Entry(name, dir, a)
    BY <1>1 DEF Added
  <2>2. SlotIn(cu, loc).size = 0
    BY <2>1 DEF Entry
  <2>3. QED
    BY <1>2, <2>2, ChainSize DEF EntryFits
<1>9. SizesOK(g, cu, fm)
  BY <1>2, <1>3, <1>4, <1>5, <1>6, <1>7, <1>8, SizesSame
<1>10. QED
  BY <1>1, <1>9

LEMMA InvAdd ==
    ASSUME FatInv, NEW name \in Names, NEW dir \in BOOLEAN, NEW a, NEW b, NEW t, NEW loc \in Locs,
           Added(name, dir, a, b, t, loc),
           file' \in Files, OpenOK(content', file'),
           HeadAt(content', file', loc) = a,
           \A l \in LiveIn(content) : HeadAt(content', file', l) = HeadAt(content, file, l),
           \A fd \in Fd : \/ file'[fd] = file[fd]
                          \/ /\ ~ file[fd].is_open
                             /\ file'[fd].loc = loc /\ file'[fd].size = 0,
           cwd' = cwd, path_stack' = path_stack
    PROVE  FatInv' /\ OnlyOne
<1>1. /\ fat \in Table /\ content \in Contents /\ file \in Files /\ OpenOK(content, file)
      /\ DirForestOK(fat, content, file) /\ PathOK(fat, content, cwd, path_stack)
      /\ DirHead(content, cwd) /\ content' \in Contents
  BY DEF FatInv, PathOK, Added
<1> DEFINE A == LiveIn(content)
           h == HeadsIn(content, file)
           D == DirsIn(content)
           J == JunkIn(content)
           E == IF dir THEN D \cup {loc} ELSE D
           I == IF dir THEN J \ {a} ELSE J
           k == HeadsIn(content', file')
           g == Linked(fat, 0, <<a>>)
<1>2. /\ loc \notin A /\ \A l \in A : SlotIn(content', l) = SlotIn(content, l)
      /\ LiveIn(content') = A \cup {loc} /\ DirsIn(content') = E /\ JunkIn(content') = I \ {b}
      /\ \A l \in Locs : fat[l[1]] # FREE /\ l[1] \notin Chain(fat, cwd) =>
            SlotIn(content', l) = SlotIn(content, l)
  BY AddedSets
<1>3. Forest(fat, A, h, D, J) /\ D \subseteq A /\ Links(fat)
  BY <1>1 DEF DirForestOK, DirsIn, Forest
<1>4. k[loc] = a /\ \A l \in A : k[l] = h[l]
  BY <1>2 DEF HeadsIn
<1>5. /\ a \in Cluster /\ fat[a] = FREE /\ t \in Chain(fat, cwd) /\ fat[t] \notin Cluster
      /\ b = 0 => fat' = g
      /\ b # 0 => b \in Cluster /\ fat[b] = FREE /\ b # a /\ fat' = Linked(g, t, <<b>>)
  BY DEF Added
<1>6. /\ Chain(fat, cwd) \cap J = {}
      /\ \A d \in Chain(fat, cwd) : d \in Cluster /\ fat[d] # FREE
  BY <1>1, DirHeadIs
<1>7. PICK k1 : k1[loc] = 0 /\ \A l \in A : l # loc => k1[l] = h[l]
  <2>1. PICK k1 : k1 = [l \in A \cup {loc} |-> IF l = loc THEN 0 ELSE h[l]]
    OBVIOUS
  <2>2. QED
    BY <2>1
<1>8. PICK u \in Seq(Cluster) : u = <<a>> /\ u # << >> /\ Len(u) = 1 /\ u[1] = a
  BY <1>5, Single
<1>9. /\ Distinct(u) /\ \A i \in 1 .. Len(u) : fat[u[i]] = FREE /\ u[i] # 0 /\ u[i] = a
      /\ g = Linked(fat, 0, u) /\ u # << >>
  BY <1>5, <1>8, Clusters DEF Distinct
<1> HIDE DEF A, h, D, J, k, g
<1>10. Forest(fat, A \cup {loc}, k1, D, J)
  BY <1>2, <1>3, <1>7, AddForest
<1>11. Forest(g, A \cup {loc}, k, D, J)
  <2>1. loc \in A \cup {loc} /\ loc \notin D /\ k1[loc] = 0 /\ k[loc] = u[1]
    BY <1>2, <1>3, <1>4, <1>7, <1>8
  <2>2. \A l \in (A \cup {loc}) \ {loc} : k[l] = k1[l]
    BY <1>4, <1>7
  <2> HIDE DEF E, I
  <2>3. QED
    BY <1>9, <1>10, <2>1, <2>2, StartForest
<1>12. /\ g \in Table /\ g[a] = EOC
       /\ \A c \in Cluster : c # 0 /\ c # a => g[c] = fat[c]
  <2>1. /\ g \in Table /\ (u # << >> => g[u[Len(u)]] = EOC)
        /\ \A c \in Cluster : c # 0 /\ (\A i \in 1 .. Len(u) : u[i] # c) => g[c] = fat[c]
    BY <1>1, <1>9, LinkedIs
  <2>2. QED
    BY <1>8, <1>9, <2>1
<1>13. Forest(g, A \cup {loc}, k, E, I)
  <2>1. CASE dir
    <3>1. loc \in A \cup {loc} /\ k[loc] # 0 /\ loc \notin D /\ g[k[loc]] \notin Cluster /\ k[loc] = a
      BY <1>2, <1>3, <1>4, <1>5, <1>12, Clusters
    <3>2. Forest(g, A \cup {loc}, k, D \cup {loc}, J \ {k[loc]})
      BY <1>11, <3>1, DirForest
    <3>3. QED
      BY <2>1, <3>1, <3>2
  <2>2. CASE ~ dir
    BY <1>11, <2>2
  <2>3. QED
    BY <2>1, <2>2
<1>14. /\ t \in Cluster /\ t \notin I /\ t # 0
       /\ g[t] = fat[t] /\ g[t] # FREE /\ g[t] \notin Cluster
  BY <1>5, <1>6, <1>12, Clusters
<1>15. /\ Forest(fat', A \cup {loc}, k, E, I \ {b}) /\ fat' \in Table
       /\ \A c \in Cluster : fat[c] # FREE /\ c \notin Chain(fat, cwd) => fat'[c] = fat[c]
       /\ \A c \in Cluster : fat'[c] \in Cluster => fat[c] \in Cluster \/ (b # 0 /\ c = t)
  <2> HIDE DEF E, I
  <2>1. CASE b = 0
    <3>1. I \ {b} = I
      <4>1. \A c \in I : c \in Cluster
        BY DEF I, J, JunkIn
      <4>2. QED
        BY <2>1, <4>1, Clusters
    <3>2. fat' = g
      BY <1>5, <2>1
    <3>3. QED
      BY <1>5, <1>12, <1>13, <3>1, <3>2, Clusters
  <2>2. CASE b # 0
    <3>1. b \in Cluster /\ fat[b] = FREE /\ b # a /\ fat' = Linked(g, t, <<b>>)
      BY <1>5, <2>2
    <3>2. PICK v \in Seq(Cluster) : v = <<b>> /\ v # << >> /\ Len(v) = 1 /\ v[1] = b
      BY <3>1, Single
    <3>3. /\ Distinct(v) /\ \A i \in 1 .. Len(v) : g[v[i]] = FREE /\ v[i] # t /\ v[i] = b
          /\ fat' = Linked(g, t, v)
      BY <1>6, <1>5, <1>12, <2>2, <3>1, <3>2 DEF Distinct
    <3>4. I \ {b} = IF t \in I THEN I ELSE I \ {v[i] : i \in 1 .. Len(v)}
      BY <1>14, <3>2
    <3>5. Forest(Linked(g, t, v), A \cup {loc}, k, E, I \ {b})
      BY <1>13, <1>14, <3>3, <3>4, GrowForest
    <3>6. /\ fat' \in Table /\ (v # << >> => fat'[v[Len(v)]] = EOC)
          /\ \A c \in Cluster : c # t /\ (\A i \in 1 .. Len(v) : v[i] # c) => fat'[c] = g[c]
      BY <1>12, <3>3, LinkedIs
    <3>7. ASSUME NEW c \in Cluster, fat[c] # FREE, c \notin Chain(fat, cwd) PROVE fat'[c] = fat[c]
      <4>1. c # t /\ c # a /\ c # b /\ c # 0
        BY <1>5, <3>1, <3>7, Clusters
      <4>2. QED
        BY <1>12, <3>3, <3>6, <4>1
    <3>8. ASSUME NEW c \in Cluster, fat'[c] \in Cluster PROVE fat[c] \in Cluster \/ c = t
      <4>1. c # b
        BY <3>2, <3>6, <3>8, Clusters
      <4>2. c # t => fat'[c] = g[c]
        BY <3>3, <3>6, <4>1
      <4>3. g[c] \in Cluster => fat[c] \in Cluster
        BY <1>12, Clusters
      <4>4. QED
        BY <3>8, <4>2, <4>3
    <3>9. QED
      BY <2>2, <3>3, <3>5, <3>6, <3>7, <3>8
  <2>3. QED
    BY <2>1, <2>2
<1>16. DirForestOK(fat', content', file')
  BY <1>2, <1>15 DEF DirForestOK, k
<1>17. DirHead(content', cwd)
  <2>1. \A l \in D : l \in DirsIn(content') /\ SlotIn(content', l) = SlotIn(content, l)
    BY <1>2, <1>3
  <2>2. QED
    BY <1>1, <2>1 DEF DirHead, D
<1>18. ASSUME NEW r, DirHead(content, r), r # cwd PROVE Calm(fat, fat', content, content', r)
  <2>1. Chain(fat, r) \cap Chain(fat, cwd) = {}
    BY <1>1, <1>18, DirsApart
  <2>2. \A c \in Chain(fat, r) : c \in Cluster /\ fat[c] # FREE
    BY <1>1, <1>18, DirHeadIs
  <2>3. \A c \in Chain(fat, r) : fat'[c] = fat[c]
    BY <1>15, <2>1, <2>2
  <2>4. \A l \in Locs : l[1] \in Chain(fat, r) => SlotIn(content', l) = SlotIn(content, l)
    BY <1>2, <2>1, <2>2
  <2>5. QED
    BY <2>3, <2>4 DEF Calm
<1>19. PathOK(fat', content', cwd, path_stack)
  BY <1>1, <1>15, <1>17, <1>18, PathSame
<1>20. SlotsOK(fat', content')
  BY <1>15, AddedSlots
<1>21. SizesOK(fat', content', file')
  BY <1>15, AddedSizes
<1>22. FatInv'
  BY <1>1, <1>15, <1>16, <1>19, <1>20, <1>21 DEF FatInv
<1>23. OnlyOne
  <2>1. \A l \in LiveIn(content) : SlotIn(content', l) = SlotIn(content, l)
    BY AddedSets
  <2>2. loc \notin LiveIn(content)
    BY AddedSets
  <2>3. QED
    BY <1>15, <2>1, <2>2, SparesOld
<1>24. QED
  BY <1>22, <1>23

\* A full disk: nothing but the search position changes.
LEMMA InvNoRoom ==
    ASSUME FatInv, NoRoom
    PROVE  FatInv' /\ OnlyOne
<1>1. FatInv'
  BY DEF FatInv, NoRoom
<1>2. QED
  BY <1>1, SparesAll DEF NoRoom

\* SYS_MKDIR.
LEMMA InvMkdir ==
    ASSUME FatInv, NEW name \in DirNames, Sys_mkdir(name)
    PROVE  FatInv' /\ OnlyOne
<1> SUFFICES ASSUME NEW w \in NewEntryClusters, AddEntry(name, TRUE, w),
                    UNCHANGED <<file, cwd, path_stack>>
             PROVE  FatInv' /\ OnlyOne
  BY InvNoRoom DEF Sys_mkdir
<1>1. file \in Files /\ OpenOK(content, file)
  BY DEF FatInv
<1>2. name \in Names
  BY DEF Names
<1>3. PICK a, b, t : \E loc \in Locs : Added(name, TRUE, a, b, t, loc)
  BY <1>2, AddedIs
<1>4. PICK loc \in Locs : Added(name, TRUE, a, b, t, loc)
  BY <1>3
<1>5. /\ loc \notin LiveIn(content)
      /\ \A l \in LiveIn(content) : SlotIn(content', l) = SlotIn(content, l)
      /\ LiveIn(content') = LiveIn(content) \cup {loc}
      /\ DirsIn(content') = DirsIn(content) \cup {loc}
  <2>1. PICK dir \in BOOLEAN : dir = TRUE
    OBVIOUS
  <2>2. Added(name, dir, a, b, t, loc)
    BY <1>4, <2>1
  <2>3. /\ loc \notin LiveIn(content)
        /\ \A l \in LiveIn(content) : SlotIn(content', l) = SlotIn(content, l)
        /\ LiveIn(content') = LiveIn(content) \cup {loc}
        /\ DirsIn(content') = IF dir THEN DirsIn(content) \cup {loc} ELSE DirsIn(content)
    BY <1>2, <2>2, AddedSets
  <2>4. QED
    BY <2>1, <2>3
<1>6. OpenOK(content', file)
  BY <1>1, <1>5 DEF OpenOK
<1>7. HeadAt(content', file, loc) = a
  <2>1. \A fd \in Fd : ~ IsOpenAt(file, fd, loc)
    BY <1>1, <1>5 DEF OpenOK, IsOpenAt
  <2>2. HeadAt(content', file, loc) = SlotIn(content', loc).first
    BY <2>1, HeadClosed
  <2>3. a \in Cluster /\ SlotIn(content', loc) = Entry(name, TRUE, a)
    BY <1>4 DEF Added
  <2>4. QED
    BY <2>2, <2>3 DEF Entry
<1>8. \A l \in LiveIn(content) : HeadAt(content', file, l) = HeadAt(content, file, l)
  BY <1>5 DEF HeadAt
<1>9. QED
  BY <1>1, <1>2, <1>4, <1>6, <1>7, <1>8, InvAdd

\* SYS_OPEN of a file that does not exist.
LEMMA InvNew ==
    ASSUME FatInv, NEW name \in FileNames, OpenNew(name)
    PROVE  FatInv' /\ OnlyOne
<1> SUFFICES ASSUME NEW fd \in alloc_fd, NEW w \in NewEntryClusters, AddEntry(name, FALSE, w),
                    file' = [file EXCEPT ![fd] =
                        [is_open |-> TRUE, first |-> w[1], size |-> 0, pos |-> 0,
                         loc |-> EntryLoc(w)]],
                    UNCHANGED <<cwd, path_stack>>
             PROVE  FatInv' /\ OnlyOne
  BY InvNoRoom DEF OpenNew
<1>1. file \in Files /\ OpenOK(content, file)
  BY DEF FatInv
<1>2. name \in Names
  BY DEF Names
<1>3. PICK a, b, t : \E loc \in Locs :
          Added(name, FALSE, a, b, t, loc) /\ a = w[1] /\ loc = EntryLoc(w)
  BY <1>2, AddedIs
<1>4. PICK loc \in Locs : Added(name, FALSE, a, b, t, loc) /\ a = w[1] /\ loc = EntryLoc(w)
  BY <1>3
<1>5. /\ loc \notin LiveIn(content)
      /\ \A l \in LiveIn(content) : SlotIn(content', l) = SlotIn(content, l)
      /\ LiveIn(content') = LiveIn(content) \cup {loc}
      /\ DirsIn(content') = DirsIn(content)
      /\ DirsIn(content) \subseteq LiveIn(content)
  BY ZenonT(60), <1>2, <1>4, AddedSets DEF DirsIn
<1>6. fd \in Fd /\ ~ file[fd].is_open
  BY DEF alloc_fd
<1>7. PICK rec \in [is_open : BOOLEAN, first : Cluster \cup {0}, size : 0 .. MaxSize,
                    pos : 0 .. MaxSize, loc : Locs \cup {<<0, 0>>}] :
         /\ rec.is_open /\ rec.loc = loc /\ rec.first = a /\ rec.size = 0
         /\ file' = [file EXCEPT ![fd] = rec]
  <2>1. MaxSize \in Nat
    BY FatAssumption, SMT
  <2>2. a \in Cluster
    BY <1>4 DEF Added
  <2>3. PICK rec : rec = [is_open |-> TRUE, first |-> a, size |-> 0, pos |-> 0, loc |-> loc]
    OBVIOUS
  <2>4. rec \in [is_open : BOOLEAN, first : Cluster \cup {0}, size : 0 .. MaxSize,
                 pos : 0 .. MaxSize, loc : Locs \cup {<<0, 0>>}]
    BY <2>1, <2>2, <2>3
  <2>5. file' = [file EXCEPT ![fd] = rec]
    BY <1>4, <2>3
  <2>6. QED
    BY <2>3, <2>4, <2>5
<1>8. file' \in Files
  BY <1>1, <1>6, <1>7 DEF Files
<1>9. file'[fd] = rec /\ \A e \in Fd : e # fd => file'[e] = file[e]
  BY <1>1, <1>6, <1>7 DEF Files
<1>10. OpenOK(content', file')
  <2>1. \A e \in Fd : file'[e].is_open => file'[e].loc \in LiveIn(content') \ DirsIn(content')
    BY <1>1, <1>5, <1>7, <1>9 DEF OpenOK
  <2>2. ASSUME NEW e \in Fd, NEW g \in Fd, file'[e].is_open, file'[g].is_open,
               file'[e].loc = file'[g].loc
        PROVE  e = g
    <3>1. \A d \in Fd : d # fd /\ file'[d].is_open => file'[d].loc # loc
      BY <1>1, <1>5, <1>9 DEF OpenOK
    <3>2. QED
      BY <1>1, <1>7, <1>9, <2>2, <3>1 DEF OpenOK
  <2>3. QED
    BY <2>1, <2>2 DEF OpenOK
<1>11. HeadAt(content', file', loc) = a
  <2>1. file'[fd].is_open /\ file'[fd].loc = loc /\ file'[fd].first = a
    BY <1>7, <1>9
  <2>2. PICK fm, cu : fm = file' /\ cu = content'
    OBVIOUS
  <2>3. OpenOK(cu, fm) /\ fm[fd].is_open
    BY <1>10, <2>1, <2>2
  <2>4. HeadAt(cu, fm, fm[fd].loc) = fm[fd].first
    BY <1>6, <2>3, HeadOpen
  <2>5. QED
    BY <2>1, <2>2, <2>4
<1>12. ASSUME NEW l \in LiveIn(content) PROVE HeadAt(content', file', l) = HeadAt(content, file, l)
  <2>1. \A e \in Fd : /\ IsOpenAt(file', e, l) <=> IsOpenAt(file, e, l)
                      /\ IsOpenAt(file, e, l) => file'[e].first = file[e].first
    BY <1>5, <1>6, <1>7, <1>9 DEF IsOpenAt
  <2>2. SlotIn(content', l).first = SlotIn(content, l).first
    BY <1>5
  <2>3. PICK fm, cu : fm = file' /\ cu = content'
    OBVIOUS
  <2>4. OpenOK(cu, fm) /\ SlotIn(cu, l).first = SlotIn(content, l).first
    BY <1>10, <2>2, <2>3
  <2>5. \A e \in Fd : /\ IsOpenAt(fm, e, l) <=> IsOpenAt(file, e, l)
                      /\ IsOpenAt(file, e, l) => fm[e].first = file[e].first
    BY <2>1, <2>3
  <2>6. HeadAt(cu, fm, l) = HeadAt(content, file, l)
    BY <1>1, <2>4, <2>5, HeadSame
  <2>7. QED
    BY <2>3, <2>6
<1>13. \A e \in Fd : \/ file'[e] = file[e]
                     \/ ~ file[e].is_open /\ file'[e].loc = loc /\ file'[e].size = 0
  BY <1>6, <1>7, <1>9
<1>14. QED
  BY <1>2, <1>4, <1>8, <1>10, <1>11, <1>12, <1>13, InvAdd

(***************************************************************************)
(* SYS_UNLINK.                                                             *)
(***************************************************************************)

\* What unlinking the entry at loc, whose chain starts with x, leaves.
Unlinked(loc, x) ==
    /\ fat' = Freed(fat, x)
    /\ content' \in Contents
    /\ \A l \in Locs : SlotIn(content', l) =
          IF l = loc THEN Blank("del")
          ELSE IF l[1] \in Chain(fat, x) THEN Blank("junk") ELSE SlotIn(content, l)

Put(z, loc, s) == [z EXCEPT ![loc[1]][loc[2]] = s]

LEMMA PutSlot ==
    ASSUME NEW z \in Contents, NEW loc \in Locs, NEW s \in Slot
    PROVE  /\ Put(z, loc, s) \in Contents /\ SlotIn(Put(z, loc, s), loc) = s
           /\ \A l \in Locs : l # loc => SlotIn(Put(z, loc, s), l) = SlotIn(z, l)
<1> DEFINE y == Put(z, loc, s)
<1>1. loc[1] \in Cluster /\ loc[2] \in 1 .. DirSlots /\ loc = <<loc[1], loc[2]>>
  BY SlotType
<1>2. y \in Contents
  BY <1>1 DEF Contents, Put
<1>3. SlotIn(y, loc) = s
  BY <1>1 DEF Contents, SlotIn, Put
<1>4. ASSUME NEW l \in Locs, l # loc PROVE SlotIn(y, l) = SlotIn(z, l)
  <2>1. l[1] \in Cluster /\ l[2] \in 1 .. DirSlots /\ l = <<l[1], l[2]>>
    BY SlotType
  <2>2. l[1] # loc[1] \/ l[2] # loc[2]
    BY <1>1, <1>4, <2>1
  <2>3. QED
    BY <1>1, <2>1, <2>2 DEF Contents, SlotIn, Put
<1>5. QED
  BY <1>2, <1>3, <1>4

LEMMA UnlinkedIs ==
    ASSUME FatInv, NEW loc \in Locs, NEW x, fat' = Freed(fat, x),
           content' = [Scrubbed(x) EXCEPT ![loc[1]][loc[2]] = Blank("del")]
    PROVE  Unlinked(loc, x)
<1>1. content \in Contents
  BY DEF FatInv
<1>2. PICK z \in Contents :
          /\ z = Scrubbed(x)
          /\ \A c \in Cluster, i \in 1 .. DirSlots :
                z[c][i] = IF c \in Chain(fat, x) THEN Blank("junk") ELSE content[c][i]
  <2>1. Filled("junk") \in [1 .. DirSlots -> Slot] /\ \A i \in 1 .. DirSlots : Filled("junk")[i] = Blank("junk")
    BY SlotForms DEF Filled, Kind
  <2>2. Scrubbed(x) \in Contents
    BY <1>1, <2>1 DEF Scrubbed, Contents
  <2>3. \A c \in Cluster : Scrubbed(x)[c] =
            IF c \in Chain(fat, x) THEN Filled("junk") ELSE content[c]
    BY DEF Scrubbed
  <2>4. QED
    BY <2>1, <2>2, <2>3
<1>3. PICK del \in Slot : del = Blank("del")
  BY SlotForms DEF Kind
<1>4. PICK y : y = Put(z, loc, del) /\ y = content'
  BY <1>2, <1>3 DEF Put
<1>5. /\ y \in Contents /\ SlotIn(y, loc) = del
      /\ \A l \in Locs : l # loc => SlotIn(y, l) = SlotIn(z, l)
  <2>1. /\ Put(z, loc, del) \in Contents /\ SlotIn(Put(z, loc, del), loc) = del
        /\ \A l \in Locs : l # loc => SlotIn(Put(z, loc, del), l) = SlotIn(z, l)
    BY PutSlot, ZenonT(60)
  <2>2. y = Put(z, loc, del)
    BY <1>4
  <2>3. QED
    BY <2>1, <2>2, Zenon
<1>6. \A l \in Locs : SlotIn(z, l) = IF l[1] \in Chain(fat, x) THEN Blank("junk")
                                     ELSE SlotIn(content, l)
  BY <1>1, <1>2, SlotType DEF SlotIn
<1>7. content' \in Contents /\ \A l \in Locs : SlotIn(content', l) = SlotIn(y, l)
  BY <1>4, <1>5
<1>8. QED
  BY <1>3, <1>5, <1>6, <1>7 DEF Unlinked

\* No live entry is in the chain that is released, so only the one at loc is gone.
LEMMA UnlinkedSets ==
    ASSUME FatInv, NEW loc \in LiveIn(content), NEW x, Unlinked(loc, x),
           Chain(fat, x) \subseteq Cluster,
           \A l \in LiveIn(content) : l[1] \notin Chain(fat, x)
    PROVE  /\ LiveIn(content') = LiveIn(content) \ {loc}
           /\ DirsIn(content') = DirsIn(content) \ {loc}
           /\ JunkIn(content') = JunkIn(content) \cup Chain(fat, x)
           /\ \A l \in LiveIn(content) \ {loc} : SlotIn(content', l) = SlotIn(content, l)
<1>1. content \in Contents /\ content' \in Contents
  BY DEF FatInv, Unlinked
<1>2. loc \in Locs /\ LiveIn(content) \subseteq Locs /\ loc[1] \notin Chain(fat, x)
  BY DEF LiveIn
<1>3. SlotIn(content', loc) = Blank("del")
  BY <1>2 DEF Unlinked
<1>4. \A l \in Locs : l # loc =>
          SlotIn(content', l) = IF l[1] \in Chain(fat, x) THEN Blank("junk") ELSE SlotIn(content, l)
  BY DEF Unlinked
<1>5. Blank("del").kind = "del" /\ Blank("junk").kind = "junk"
  BY SlotForms DEF Kind
<1>6. \A l \in LiveIn(content) \ {loc} : SlotIn(content', l) = SlotIn(content, l)
  BY <1>2, <1>4
<1>7. LiveIn(content') = LiveIn(content) \ {loc}
  <2>1. ASSUME NEW l \in Locs
        PROVE  SlotIn(content', l).kind = "live" <=> SlotIn(content, l).kind = "live" /\ l # loc
    <3>1. SlotIn(content, l).kind = "live" => l[1] \notin Chain(fat, x)
      BY DEF LiveIn
    <3>2. QED
      BY <1>3, <1>4, <1>5, <3>1
  <2>2. QED
    BY <2>1 DEF LiveIn
<1>8. DirsIn(content') = DirsIn(content) \ {loc}
  BY <1>6, <1>7 DEF DirsIn
<1>9. ASSUME NEW c \in Cluster
      PROVE  c \in JunkIn(content') <=> c \in JunkIn(content) \/ c \in Chain(fat, x)
  <2>1. PICK ct \in Contents : ct = content'
    BY <1>1
  <2>2. c \in JunkIn(ct) <=> \A i \in 1 .. DirSlots : SlotIn(ct, <<c, i>>) = Blank("junk")
    BY JunkSlots
  <2>3. c \in JunkIn(content) <=> \A i \in 1 .. DirSlots : SlotIn(content, <<c, i>>) = Blank("junk")
    BY <1>1, JunkSlots
  <2>4. \A i \in 1 .. DirSlots : <<c, i>> \in Locs /\ <<c, i>>[1] = c
    BY DEF Locs
  <2>5. CASE c = loc[1]
    <3>1. loc[2] \in 1 .. DirSlots /\ loc = <<c, loc[2]>>
      BY <1>1, <1>2, <2>5, SlotType
    <3>2. SlotIn(ct, loc) # Blank("junk") /\ SlotIn(content, loc) # Blank("junk")
      BY <1>3, <1>5, <2>1 DEF LiveIn
    <3>3. c \notin JunkIn(ct) /\ c \notin JunkIn(content)
      BY <2>2, <2>3, <3>1, <3>2
    <3>4. QED
      BY <1>2, <2>1, <2>5, <3>3
  <2>6. CASE c # loc[1]
    <3>1. ASSUME NEW i \in 1 .. DirSlots
          PROVE  SlotIn(ct, <<c, i>>) = IF c \in Chain(fat, x) THEN Blank("junk")
                                        ELSE SlotIn(content, <<c, i>>)
      <4>1. PICK l \in Locs : l = <<c, i>> /\ l[1] = c
        BY <2>4
      <4>2. l # loc
        BY <2>6, <4>1
      <4>3. QED
        BY <1>4, <2>1, <4>1, <4>2
    <3>2. c \in JunkIn(ct) <=> c \in JunkIn(content) \/ c \in Chain(fat, x)
      BY <2>2, <2>3, <3>1
    <3>3. QED
      BY <2>1, <3>2
  <2>7. QED
    BY <2>5, <2>6
<1>10. JunkIn(content') = JunkIn(content) \cup Chain(fat, x)
  <2>1. JunkIn(content') \subseteq Cluster /\ JunkIn(content) \subseteq Cluster
    BY DEF JunkIn
  <2>2. QED
    BY <1>9, <2>1
<1>11. QED
  BY <1>6, <1>7, <1>8, <1>10

LEMMA InvUnlink ==
    ASSUME FatInv, NEW name, Removable(name), Sys_unlink(name)
    PROVE  FatInv' /\ OnlyOne
<1>1. /\ fat \in Table /\ content \in Contents /\ file \in Files /\ OpenOK(content, file)
      /\ DirForestOK(fat, content, file) /\ PathOK(fat, content, cwd, path_stack)
      /\ DirHead(content, cwd) /\ cwd \in Cluster
  BY DEF FatInv, PathOK
<1>2. PICK loc \in find_entry(cwd, name) :
          /\ fat' = Freed(fat, SlotAt(loc).first)
          /\ content' = [Scrubbed(SlotAt(loc).first) EXCEPT ![loc[1]][loc[2]] = Blank("del")]
          /\ UNCHANGED <<next_free, file, cwd, path_stack>>
  BY DEF Sys_unlink
<1>3. loc \in FoundIn(fat, content, cwd, name)
  BY Forms
<1>4. loc \in LiveIn(content) /\ loc \in Locs /\ loc[1] \in Chain(fat, cwd)
  BY <1>1, <1>3, FoundIs
<1>5. PICK x \in Cluster \cup {0} : x = SlotIn(content, loc).first /\ x = SlotAt(loc).first
  <2>1. SlotIn(content, loc) \in Slot /\ SlotAt(loc) = SlotIn(content, loc)
    BY <1>1, <1>4, SlotType, Forms
  <2>2. QED
    BY <2>1 DEF Slot
<1>6. \A fd \in Fd : ~ IsOpenAt(file, fd, loc)
  BY <1>2, Forms DEF Removable
<1>7. x = HeadAt(content, file, loc)
  BY <1>5, <1>6, HeadClosed
<1>8. Unlinked(loc, x) /\ file' = file /\ cwd' = cwd /\ path_stack' = path_stack
  <2>1. /\ fat' = Freed(fat, x)
        /\ content' = [Scrubbed(x) EXCEPT ![loc[1]][loc[2]] = Blank("del")]
    BY <1>2, <1>5
  <2>2. Unlinked(loc, x)
    BY <1>4, <2>1, UnlinkedIs
  <2>3. QED
    BY <1>2, <2>2
<1>9. Chain(fat, x) \subseteq Cluster
  BY <1>1, ChainIs
<1>10. \A l \in LiveIn(content) : l[1] \notin Chain(fat, x)
  <2>1. CASE loc \in DirsIn(content)
    <3>1. \A c \in Chain(fat, x), i \in 1 .. DirSlots : content[c][i].kind # "live"
      BY <1>2, <1>5, <2>1, Forms DEF Removable, DirsIn
    <3>2. \A l \in LiveIn(content) : l[2] \in 1 .. DirSlots /\ content[l[1]][l[2]].kind = "live"
      BY <1>1, SlotType DEF LiveIn
    <3>3. QED
      BY <3>1, <3>2
  <2>2. CASE loc \notin DirsIn(content)
    <3>1. Chain(fat, x) \subseteq JunkIn(content)
      BY <1>4, <1>7, <2>2, FileChain
    <3>2. \A l \in LiveIn(content) : l \in Locs /\ SlotIn(content, l).kind # "junk"
      BY DEF LiveIn
    <3>3. \A l \in LiveIn(content) : l[1] \notin JunkIn(content)
      BY <3>2, LiveNotJunk
    <3>4. QED
      BY <3>1, <3>3
  <2>3. QED
    BY <2>1, <2>2
<1>11. /\ LiveIn(content') = LiveIn(content) \ {loc}
       /\ DirsIn(content') = DirsIn(content) \ {loc}
       /\ JunkIn(content') = JunkIn(content) \cup Chain(fat, x)
       /\ \A l \in LiveIn(content) \ {loc} : SlotIn(content', l) = SlotIn(content, l)
  BY <1>4, <1>8, <1>9, <1>10, UnlinkedSets
<1>12. OpenOK(content', file')
  BY <1>1, <1>6, <1>8, <1>11 DEF OpenOK, IsOpenAt
<1>13. fat' = Freed(fat, x) /\ fat' \in Table /\ content' \in Contents
  BY <1>1, <1>8, FreedIs DEF Unlinked
<1> DEFINE A == LiveIn(content)
           h == HeadsIn(content, file)
           k == HeadsIn(content', file')
           D == DirsIn(content)
           J == JunkIn(content)
<1>14. h[loc] = x /\ loc \in A /\ \A l \in A \ {loc} : k[l] = h[l]
  <2>1. h[loc] = x
    BY <1>4, <1>7 DEF HeadsIn
  <2>2. ASSUME NEW l \in A \ {loc} PROVE HeadAt(content', file', l) = HeadAt(content, file, l)
    BY <1>8, <1>11 DEF HeadAt
  <2>3. QED
    BY <1>4, <1>11, <2>1, <2>2 DEF HeadsIn
<1>15. DirForestOK(fat', content', file')
  <2>1. Forest(fat, A, h, D, J)
    BY <1>1 DEF DirForestOK
  <2> HIDE DEF A, h, k, D, J
  <2>2. Forest(Freed(fat, h[loc]), A \ {loc}, k, D \ {loc}, J \cup Chain(fat, h[loc]))
    BY <1>14, <2>1, RemoveForest
  <2>3. Forest(fat', A \ {loc}, k, D \ {loc}, J \cup Chain(fat, x))
    BY <1>13, <1>14, <2>2
  <2>4. QED
    BY <1>11, <2>3 DEF DirForestOK, A, k, D, J
<1>16. x # cwd /\ loc[1] \notin Chain(fat, x)
  BY <1>4, <1>10
<1>17. DirHead(content', cwd)
  BY <1>1, <1>5, <1>11, <1>16 DEF DirHead, DirsIn
<1>18. PICK path \in Seq(DirNames), n \in Nat :
          path = path_stack /\ n = Len(path) /\ n <= MAX_PATH_DEPTH
  BY <1>1 DEF PathOK
<1>19. PICK d : /\ Leads(fat, content, d, path)
                /\ \A i \in 0 .. n - 1 : d[i] # cwd
                /\ n < MAX_PATH_DEPTH => d[n] = cwd
  BY <1>1, <1>18 DEF PathOK
<1>20. ASSUME NEW i \in 0 .. n - 1 PROVE Calm(fat, fat', content, content', d[i])
  <2>1. PICK r : r = d[i] /\ DirHead(content, r) /\ r # cwd
    <3>1. i \in 0 .. Len(path)
      BY <1>18
    <3>2. DirHead(content, d[i])
      BY <1>19, <3>1, WayIsDirs
    <3>3. QED
      BY <1>19, <3>2
  <2>2. Chain(fat, r) \cap Chain(fat, cwd) = {}
    BY <1>1, <2>1, DirsApart
  <2>3. Chain(fat, r) \cap Chain(fat, x) = {}
    <3>1. CASE loc \in DirsIn(content)
      <4>1. i \in 0 .. n
        OBVIOUS
      <4>2. r # x
        BY <1>4, <1>5, <1>18, <1>19, <2>1, <3>1, <4>1, ChildNotOnWay
      <4>3. DirHead(content, x)
        BY <1>5, <3>1 DEF DirHead
      <4>4. QED
        BY <1>1, <2>1, <4>2, <4>3, DirsApart
    <3>2. CASE loc \notin DirsIn(content)
      <4>1. Chain(fat, x) \subseteq JunkIn(content)
        BY <1>4, <1>7, <3>2, FileChain
      <4>2. Chain(fat, r) \cap JunkIn(content) = {}
        BY <1>1, <2>1, DirHeadIs
      <4>3. QED
        BY <4>1, <4>2
    <3>3. QED
      BY <3>1, <3>2
  <2>4. Chain(fat, r) \subseteq Cluster
    BY <1>1, ChainIs
  <2>5. \A c \in Chain(fat, r) : fat'[c] = fat[c]
    BY <1>1, <1>13, <2>3, <2>4, FreedIs
  <2>6. \A l \in Locs : l[1] \in Chain(fat, r) => SlotIn(content', l) = SlotIn(content, l)
    BY <1>4, <1>8, <2>2, <2>3 DEF Unlinked
  <2>7. Calm(fat, fat', content, content', r)
    BY <2>5, <2>6 DEF Calm
  <2>8. QED
    BY <2>1, <2>7
<1>21. Leads(fat', content', d, path)
  BY <1>1, <1>13, <1>18, <1>19, <1>20, WaySame
<1>22. PathOK(fat', content', cwd', path_stack')
  BY <1>1, <1>8, <1>17, <1>18, <1>19, <1>21 DEF PathOK
<1>23. SlotsOK(fat', content')
  <2>1. SlotsOK(fat, content) /\ \A l \in Locs : l[1] \in Cluster
    BY <1>1, SlotType DEF FatInv
  <2>2. ASSUME NEW l \in Locs, l[1] \notin JunkIn(content')
        PROVE  /\ l[1] \notin JunkIn(content) /\ fat'[l[1]] = fat[l[1]]
               /\ \A m \in Locs : m[1] = l[1] =>
                     SlotIn(content', m) = IF m = loc THEN Blank("del") ELSE SlotIn(content, m)
    <3>1. l[1] \notin JunkIn(content) /\ l[1] \notin Chain(fat, x)
      BY <1>11, <2>2
    <3>2. fat'[l[1]] = fat[l[1]]
      BY <1>1, <1>13, <2>1, <3>1, FreedIs
    <3>3. QED
      BY <1>8, <3>1, <3>2 DEF Unlinked
  <2>3. Blank("del").kind = "del"
    BY SlotForms DEF Kind
  <2>4. QED
    BY <2>1, <2>2, <2>3 DEF SlotsOK
<1>24. SizesOK(fat', content', file')
  <2>1. PICK g, cu : g = fat' /\ cu = content'
    OBVIOUS
  <2>2. \A l \in LiveIn(cu) : l # loc => l \in LiveIn(content) /\ SlotIn(cu, l) = SlotIn(content, l)
    BY <1>11, <2>1
  <2>3. \A e \in Fd : ~ (file[e].is_open /\ file[e].loc = loc)
    BY <1>6 DEF IsOpenAt
  <2>4. ASSUME NEW l \in LiveIn(content) \ DirsIn(content), l # loc,
               NEW c \in Chain(fat, HeadAt(content, file, l))
        PROVE  g[c] = fat[c]
    <3>1. Chain(fat, HeadAt(content, file, l)) \cap Chain(fat, x) = {}
      BY <1>4, <1>7, <2>4, FilesApart
    <3>2. c \in Cluster /\ c \notin Chain(fat, x)
      BY <2>4, <3>1, FileChain
    <3>3. QED
      BY <1>1, <1>13, <2>1, <3>2, FreedIs
  <2>5. g \in Table /\ loc \notin LiveIn(cu)
    BY <1>11, <1>13, <2>1
  <2>6. SizesOK(g, cu, file)
    BY <2>2, <2>3, <2>4, <2>5, SizesSame
  <2>7. QED
    BY <1>8, <2>1, <2>6
<1>25. FatInv'
  BY <1>1, <1>8, <1>12, <1>13, <1>15, <1>22, <1>23, <1>24 DEF FatInv
<1>26. OnlyOne
  <2>1. \A c \in Cluster : c \notin Chain(fat, x) => fat'[c] = fat[c]
    BY <1>1, <1>13, FreedIs
  <2>2. QED
    BY <1>4, <1>7, <1>8, <1>11, <2>1, SparesOthers
<1>27. QED
  BY <1>25, <1>26

(***************************************************************************)
(* The theorems.                                                           *)
(***************************************************************************)

\* The slots of the root directory of a copied disk.
LEMMA RootForms ==
    ASSUME NEW root \in RootSlots
    PROVE  /\ root \in [1 .. DirSlots -> Slot]
           /\ \A i \in 1 .. DirSlots :
                 /\ root[i].kind \in {"end", "lfn", "live"}
                 /\ root[i].kind # "live" => root[i].first = 0
                 /\ root[i].kind = "live" =>
                       /\ root[i].dir = FALSE /\ root[i].first \in {0} \cup (Cluster \ {Root})
                       /\ root[i].size \in Nat /\ root[i].size <= ClusterSize
                       /\ root[i].first = 0 => root[i].size = 0
           /\ \A i, j \in 1 .. DirSlots :
                 root[i].kind = "live" /\ root[j].kind = "live" /\ root[i].first = root[j].first =>
                    i = j \/ root[i].first = 0
           /\ \A i, j \in 1 .. DirSlots : i < j /\ root[i].kind = "end" => root[j].kind = "end"
<1> DEFINE OneSlot == {Blank("end"), Blank("lfn")} \cup Copied
<1>1. root \in [1 .. DirSlots -> OneSlot]
  BY DEF RootSlots
<1>2. /\ MaxSize \in Nat /\ ClusterSize \in Nat /\ DirSlots \in Nat
      /\ 0 .. Smaller(ClusterSize, MaxSize) \subseteq 0 .. MaxSize
      /\ \A s \in 0 .. Smaller(ClusterSize, MaxSize) : s \in Nat /\ s <= ClusterSize
  <2>1. MaxSize \in Nat /\ ClusterSize \in Nat /\ DirSlots \in Nat
    BY FatAssumption, SMT
  <2>2. QED
    BY <2>1 DEF Smaller
<1>3. ASSUME NEW s \in Copied
      PROVE  /\ s \in Slot /\ s.kind = "live" /\ s.dir = FALSE
             /\ s.first \in {0} \cup (Cluster \ {Root})
             /\ s.size \in Nat /\ s.size <= ClusterSize
  <2>1. Copied \subseteq Slot
    BY <1>2 DEF Copied, Slot, Kind, Names
  <2>2. QED
    BY <1>2, <2>1 DEF Copied
<1>4. \A kind \in {"end", "lfn"} :
         Blank(kind) \in Slot /\ Blank(kind).kind = kind /\ Blank(kind).first = 0
  BY SlotForms DEF Blank, Kind
<1>5. ASSUME NEW s \in OneSlot
      PROVE  /\ s \in Slot /\ s.kind \in {"end", "lfn", "live"}
             /\ s.kind # "live" => s.first = 0
             /\ s.kind = "live" => s \in Copied
  BY <1>3, <1>4
<1> HIDE DEF OneSlot
<1>6. \A i \in 1 .. DirSlots : root[i] \in OneSlot
  BY <1>1
<1>7. root \in [1 .. DirSlots -> Slot]
  BY <1>1, <1>5
<1>8. \A i \in 1 .. DirSlots : root[i].kind = "live" => (root[i].first = 0 <=> root[i].size = 0)
  BY DEF RootSlots
<1>9. \A i, j \in 1 .. DirSlots : i < j =>
         /\ root[i].kind = "end" => root[j].kind = "end"
         /\ root[i].kind = "live" /\ root[j].kind = "live" /\ root[i].first = root[j].first =>
               root[i].first = 0
  BY DEF RootSlots
<1>10. ASSUME NEW i \in 1 .. DirSlots, NEW j \in 1 .. DirSlots PROVE i < j \/ i = j \/ j < i
  BY <1>2
<1>11. QED
  BY <1>3, <1>5, <1>6, <1>7, <1>8, <1>9, <1>10

\* A disk as it is mounted: its chains are those of the root directory and of the
\* copied files, of one cluster each.
LEMMA InvInit ==
    ASSUME Init
    PROVE  FatInv
<1>1. PICK root \in RootSlots :
         /\ content = [c \in Cluster |-> IF c = Root THEN root ELSE Filled("junk")]
         /\ fat = [c \in Cluster |->
               IF c = Root \/ \E i \in 1 .. DirSlots : root[i].first = c THEN EOC ELSE FREE]
  BY DEF Init
<1> DEFINE Used == {Root} \cup {root[i].first : i \in 1 .. DirSlots}
<1>2. fat \in Table /\ \A c \in Cluster : fat[c] = IF c \in Used THEN EOC ELSE FREE
  BY <1>1 DEF Table
<1>3. content \in Contents
  <2>1. root \in [1 .. DirSlots -> Slot] /\ Filled("junk") \in [1 .. DirSlots -> Slot]
    BY RootForms, SlotForms DEF Kind
  <2>2. QED
    BY <1>1, <2>1 DEF Contents
<1>4. file \in Files /\ \A fd \in Fd : ~ file[fd].is_open
  <2>1. MaxSize \in Nat
    BY FatAssumption, SMT
  <2>2. QED
    BY <2>1 DEF Init, Files, NoFile
<1>5. OpenOK(content, file)
  BY <1>4 DEF OpenOK
<1>6. DirSlots \in Nat /\ 1 \in 1 .. DirSlots
  BY FatAssumption, SMT
<1>7. ASSUME NEW l \in Locs
      PROVE  /\ l = <<l[1], l[2]>> /\ l[2] \in 1 .. DirSlots
             /\ l[1] = Root => SlotIn(content, l) = root[l[2]]
             /\ l[1] # Root => SlotIn(content, l).kind = "junk"
  <2>1. l[1] \in Cluster /\ l[2] \in 1 .. DirSlots /\ l = <<l[1], l[2]>>
    BY <1>3, SlotType
  <2>2. Blank("junk").kind = "junk"
    BY SlotForms DEF Kind
  <2>3. QED
    BY <1>1, <2>1, <2>2 DEF SlotIn, Filled
<1>8. ASSUME NEW l \in LiveIn(content)
      PROVE  /\ l \in Locs /\ l[1] = Root /\ l[2] \in 1 .. DirSlots /\ l = <<Root, l[2]>>
             /\ SlotIn(content, l) = root[l[2]] /\ root[l[2]].kind = "live"
             /\ HeadsIn(content, file)[l] = root[l[2]].first
  <2>1. l \in Locs /\ SlotIn(content, l).kind = "live"
    BY DEF LiveIn
  <2>2. HeadsIn(content, file)[l] = SlotIn(content, l).first
    BY <1>4 DEF HeadsIn, HeadAt, IsOpenAt
  <2>3. QED
    BY <1>7, <2>1, <2>2
<1>9. DirsIn(content) = {}
  <2>1. ASSUME NEW l \in LiveIn(content) PROVE ~ SlotIn(content, l).dir
    <3>1. PICK s : s = root[l[2]]
      OBVIOUS
    <3>2. SlotIn(content, l) = s /\ s.dir = FALSE
      BY <1>8, <3>1, RootForms
    <3>3. QED
      BY <3>2
  <2>2. QED
    BY <2>1 DEF DirsIn
<1>10. \A c \in Cluster : c \in JunkIn(content) <=> c # Root
  <2>1. Filled("junk")[1].kind = "junk" /\ root[1].kind # "junk"
    BY <1>6, SlotForms, RootForms DEF Filled, Kind
  <2>2. QED
    BY <1>1, <2>1 DEF JunkIn
<1>11. \A c \in Cluster : fat[c] \notin Cluster /\ (fat[c] = FREE <=> c \notin Used)
  BY <1>2, Clusters
<1>12. Links(fat)
  BY <1>2, <1>11 DEF Links
<1>13. Kinds(fat, JunkIn(content))
  BY <1>10, <1>11, Clusters DEF Kinds
<1>14. Heads(fat, LiveIn(content), HeadsIn(content, file), DirsIn(content), JunkIn(content))
  <2> DEFINE h == HeadsIn(content, file)
  <2>1. ASSUME NEW a \in LiveIn(content), h[a] # 0
        PROVE  h[a] \in Cluster \ {Root} /\ h[a] \in Used
    <3>1. PICK i \in 1 .. DirSlots : i = a[2] /\ root[i].kind = "live" /\ h[a] = root[i].first
      BY <1>8
    <3>2. root[i].first \in {0} \cup (Cluster \ {Root}) /\ root[i].first \in Used
      BY <3>1, RootForms
    <3>3. QED
      BY <2>1, <3>1, <3>2
  <2>2. ASSUME NEW a \in LiveIn(content), NEW b \in LiveIn(content), h[a] # 0, h[a] = h[b]
        PROVE  a = b
    <3>1. PICK i \in 1 .. DirSlots :
             a = <<Root, i>> /\ root[i].kind = "live" /\ h[a] = root[i].first
      BY <1>8
    <3>2. PICK j \in 1 .. DirSlots :
             b = <<Root, j>> /\ root[j].kind = "live" /\ h[b] = root[j].first
      BY <1>8
    <3>3. root[i].first = root[j].first /\ root[i].first # 0
      BY <2>2, <3>1, <3>2
    <3>4. i = j
      BY <3>1, <3>2, <3>3, RootForms
    <3>5. QED
      BY <3>1, <3>2, <3>4
  <2> HIDE DEF h, Used
  <2>3. ASSUME NEW a \in LiveIn(content), h[a] # 0
        PROVE  /\ h[a] \in Cluster \ {Root} /\ fat[h[a]] # FREE /\ NoLinkTo(fat, h[a])
               /\ h[a] \in JunkIn(content)
    BY <1>10, <1>11, <2>1, <2>3 DEF NoLinkTo
  <2>4. QED
    BY <1>9, <2>2, <2>3 DEF Heads, h
<1>15. Covered(fat, LiveIn(content), HeadsIn(content, file))
  <2>1. \A c \in Cluster : c \in Chain(fat, c)
    BY <1>2, ChainIs
  <2>2. ASSUME NEW i \in 1 .. DirSlots, root[i].first \in Cluster
        PROVE  <<Root, i>> \in LiveIn(content) /\ HeadsIn(content, file)[<<Root, i>>] = root[i].first
    <3>1. root[i].kind = "live"
      BY <2>2, RootForms, Clusters
    <3>2. PICK l : l = <<Root, i>>
      OBVIOUS
    <3>3. l \in Locs /\ l[1] = Root /\ l[2] = i
      BY <3>2, Clusters DEF Locs
    <3>4. l \in LiveIn(content)
      BY <1>7, <3>1, <3>3 DEF LiveIn
    <3>5. QED
      BY <1>8, <3>2, <3>3, <3>4
  <2>3. ASSUME NEW c \in Cluster, c \in Used
        PROVE  Owner(LiveIn(content), HeadsIn(content, file), c)
    BY <2>2, <2>3 DEF Owner
  <2> HIDE DEF Used
  <2>4. QED
    BY <1>11, <2>1, <2>3 DEF Covered
<1>16. DirForestOK(fat, content, file)
  BY <1>12, <1>13, <1>14, <1>15 DEF DirForestOK, Forest
<1>17. PathOK(fat, content, cwd, path_stack)
  <2>1. PICK path \in Seq(DirNames) : path = << >> /\ Len(path) = 0
    <3>1. << >> \in Seq(DirNames) /\ Len(<< >>) = 0
      OBVIOUS
    <3>2. QED
      BY <3>1, Zenon
  <2>2. path_stack = path /\ cwd = Root
    BY <2>1 DEF Init
  <2>3. MAX_PATH_DEPTH \in Nat
    BY FatAssumption, SMT
  <2>4. PICK d : d = [k \in 0 .. 0 |-> Root]
    OBVIOUS
  <2>5. d \in [0 .. 0 -> Cluster] /\ d[0] = Root
    BY <2>4, Clusters
  <2>6. Leads(fat, content, d, path)
    <3>1. \A i, j \in 0 .. 0 : d[i] = d[j] => i = j
      OBVIOUS
    <3>2. QED
      BY <2>1, <2>5, <3>1 DEF Leads
  <2>7. PathOK(fat, content, Root, path)
    <3>1. Len(path) <= MAX_PATH_DEPTH /\ DirHead(content, Root) /\ Root \in Cluster
      BY <2>1, <2>3, Clusters DEF DirHead
    <3>2. \A k \in 0 .. Len(path) - 1 : d[k] # Root
      BY <2>1
    <3>3. d[Len(path)] = Root
      BY <2>1, <2>5
    <3>4. QED
      BY <2>6, <3>1, <3>2, <3>3 DEF PathOK
  <2>8. QED
    BY <2>2, <2>7
<1>18. SlotsOK(fat, content)
  <2>1. ASSUME NEW l \in Locs, l[1] \notin JunkIn(content)
        PROVE  l[1] = Root /\ SlotIn(content, l) = root[l[2]] /\ l[2] \in 1 .. DirSlots
    <3>1. l[1] \in Cluster
      BY <1>3, SlotType
    <3>2. QED
      BY <1>7, <1>10, <2>1, <3>1
  <2>2. ASSUME NEW l \in Locs, l[1] \notin JunkIn(content)
        PROVE  SlotIn(content, l).kind # "junk" /\ fat[l[1]] \notin Cluster
    BY <1>11, <2>1, <2>2, Clusters, RootForms
  <2>3. ASSUME NEW l \in Locs, l[1] \notin JunkIn(content), NEW m \in Locs,
               m[1] = l[1], m[2] < l[2], SlotIn(content, m).kind = "end"
        PROVE  SlotIn(content, l).kind # "live"
    <3>1. /\ SlotIn(content, l) = root[l[2]] /\ SlotIn(content, m) = root[m[2]]
          /\ l[2] \in 1 .. DirSlots /\ m[2] \in 1 .. DirSlots
      BY <2>1, <2>3
    <3>2. root[l[2]].kind = "end"
      BY <2>3, <3>1, RootForms
    <3>3. QED
      BY <3>1, <3>2
  <2>4. QED
    BY <2>2, <2>3 DEF SlotsOK
<1>19. SizesOK(fat, content, file)
  <2>1. ASSUME NEW l \in LiveIn(content) PROVE EntryFits(fat, content, l)
    <3>1. PICK i \in 1 .. DirSlots : SlotIn(content, l) = root[i] /\ root[i].kind = "live"
      BY <1>8
    <3> DEFINE s == root[i]
    <3>2. /\ s.dir = FALSE /\ s.first \in {0} \cup (Cluster \ {Root})
          /\ s.size \in Nat /\ s.size <= ClusterSize
          /\ s.first = 0 => s.size = 0
      BY <3>1, RootForms
    <3> HIDE DEF s
    <3>3. Fits(fat, s.first, s.size)
      <4>1. CASE s.first = 0
        BY <1>2, <3>2, <4>1, ChainSize
      <4>2. CASE s.first # 0
        <5>1. s.first \in Chain(fat, s.first)
          BY <1>2, <3>2, <4>2, ChainIs
        <5>2. PICK k \in Nat : k = Cardinality(Chain(fat, s.first))
          BY <1>2, ChainSize
        <5>3. k # 0
          BY <1>2, <5>1, <5>2, ChainSize, FS_EmptySet
        <5>4. PICK u \in Nat : u = ClusterSize
          BY FatAssumption, SMT
        <5>5. u <= u * k
          BY ONLY k \in Nat, u \in Nat, <5>3, SMT
        <5>6. PICK z \in Nat : z = s.size /\ z <= u
          BY <3>2, <5>4
        <5>7. z <= u * k
          BY ONLY k \in Nat, u \in Nat, z \in Nat, <5>5, <5>6, SMT
        <5>8. QED
          BY <5>2, <5>4, <5>6, <5>7 DEF Fits
      <4>3. QED
        BY <4>1, <4>2
    <3>4. QED
      BY <3>1, <3>2, <3>3 DEF EntryFits, s
  <2>2. QED
    BY <1>4, <2>1 DEF SizesOK
<1>20. QED
  BY <1>2, <1>3, <1>4, <1>5, <1>16, <1>17, <1>18, <1>19 DEF FatInv

Kept == FatInv' /\ OnlyOne

\* Every call keeps the invariant and touches one entry at most.
LEMMA StepInv ==
    ASSUME FatInv, [Next]_vars
    PROVE  FatInv' /\ OnlyOne
<1> SUFFICES Kept
  BY DEF Kept
<1>1. ASSUME NEW name \in FileNames, Openable(name),
             \E trunc, append \in BOOLEAN : OpenExisting(name, trunc, append)
      PROVE  Kept
  BY <1>1, InvOpen DEF Kept
<1>2. ASSUME NEW name \in FileNames, OpenNew(name) PROVE Kept
  BY <1>2, InvNew DEF Kept
<1>3. ASSUME NEW name \in DirNames, Sys_mkdir(name) PROVE Kept
  BY <1>3, InvMkdir DEF Kept
<1>4. ASSUME NEW name \in DirNames, ChdirDown(name) PROVE Kept
  BY <1>4, InvDown, SparesAll DEF ChdirDown, Kept
<1>5. ASSUME NEW name \in Names, Removable(name), Sys_unlink(name) PROVE Kept
  BY <1>5, InvUnlink DEF Kept
<1>6. ASSUME NEW fd \in Fd, Sys_close(fd) PROVE Kept
  BY <1>6, InvClose DEF Kept
<1>7. ASSUME NEW fd \in Fd, NEW size \in Sizes, Sys_file_read(fd, size) PROVE Kept
  BY <1>7, InvRead DEF Kept
<1>8. ASSUME NEW fd \in Fd, NEW size \in Sizes, file[fd].pos + size <= MaxSize,
             Sys_file_write(fd, size)
      PROVE  Kept
  BY <1>8, InvWrite DEF Kept
<1>9. ASSUME NEW fd \in Fd, NEW offset \in Offsets, NEW whence \in {"SET", "CUR", "END"},
             Sys_seek(fd, offset, whence)
      PROVE  Kept
  BY <1>9, InvSeek DEF Kept
<1>10. CASE ChdirRoot
  BY <1>10, InvRoot, SparesAll DEF ChdirRoot, Kept
<1>11. CASE ChdirUp
  BY <1>11, InvUp, SparesAll DEF ChdirUp, Kept
<1>12. CASE UNCHANGED vars
  <2>1. FatInv'
    BY <1>12 DEF FatInv, vars
  <2>2. QED
    BY <1>12, <2>1, SparesAll DEF vars, Kept
<1>13. QED
  BY <1>1, <1>2, <1>3, <1>4, <1>5, <1>6, <1>7, <1>8, <1>9, <1>10, <1>11, <1>12, Zenon DEF Next

\* The holder of an entry, of the slots ct and the open files fl.
HolderIn(ct, fl, loc) ==
    IF \E fd \in Fd : IsOpenAt(fl, fd, loc)
    THEN fl[CHOOSE fd \in Fd : IsOpenAt(fl, fd, loc)]
    ELSE SlotIn(ct, loc)

LEMMA HolderSame ==
    ASSUME NEW ct, NEW fl, NEW cu, NEW fm, OpenOK(ct, fl), NEW loc,
           SlotIn(cu, loc) = SlotIn(ct, loc),
           \A fd \in Fd : IsOpenAt(fl, fd, loc) \/ IsOpenAt(fm, fd, loc) => fm[fd] = fl[fd]
    PROVE  HolderIn(cu, fm, loc) = HolderIn(ct, fl, loc)
<1>1. \A fd \in Fd : /\ IsOpenAt(fm, fd, loc) <=> IsOpenAt(fl, fd, loc)
                     /\ IsOpenAt(fl, fd, loc) => fm[fd] = fl[fd]
  BY DEF IsOpenAt
<1>2. CASE \A fd \in Fd : ~ IsOpenAt(fl, fd, loc)
  BY <1>1, <1>2 DEF HolderIn
<1>3. CASE \E fd \in Fd : IsOpenAt(fl, fd, loc)
  <2>1. PICK a, b : /\ a = CHOOSE fd \in Fd : IsOpenAt(fl, fd, loc)
                    /\ b = CHOOSE fd \in Fd : IsOpenAt(fm, fd, loc)
    OBVIOUS
  <2>2. \E fd \in Fd : IsOpenAt(fm, fd, loc)
    BY <1>1, <1>3
  <2>3. a \in Fd /\ IsOpenAt(fl, a, loc) /\ b \in Fd /\ IsOpenAt(fm, b, loc)
    BY <1>3, <2>1, <2>2
  <2>4. IsOpenAt(fl, b, loc) /\ fm[b] = fl[b]
    BY <1>1, <2>3
  <2>5. a = b
    BY <2>3, <2>4 DEF OpenOK, IsOpenAt
  <2>6. HolderIn(cu, fm, loc) = fm[b] /\ HolderIn(ct, fl, loc) = fl[a]
    BY <1>3, <2>1, <2>2 DEF HolderIn
  <2>7. QED
    BY <2>4, <2>5, <2>6
<1>4. QED
  BY <1>2, <1>3

\* A call that spares all but one touches at most one.
LEMMA OneTouched ==
    ASSUME FatInv, OnlyOne
    PROVE  Cardinality({loc \in Live : Touched(loc)}) <= 1
<1>1. PICK l, r : Spares(l, r)
  BY DEF OnlyOne
<1>2. OpenOK(content, file)
  BY DEF FatInv
<1>3. ASSUME NEW x \in LiveIn(content), x # l PROVE ~ Touched(x)
  <2>1. Holder(x) = HolderIn(content, file, x) /\ Holder(x)' = HolderIn(content', file', x)
    BY DEF Holder, OpenAt, SlotAt, HolderIn, IsOpenAt, SlotIn
  <2>2. /\ SlotIn(content', x) = SlotIn(content, x)
        /\ \A fd \in Fd : IsOpenAt(file, fd, x) \/ IsOpenAt(file', fd, x) => file'[fd] = file[fd]
    BY <1>1, <1>3 DEF Spares
  <2>3. HolderIn(content', file', x) = HolderIn(content, file, x)
    <3>1. PICK cu, fm : cu = content' /\ fm = file'
      OBVIOUS
    <3>2. /\ SlotIn(cu, x) = SlotIn(content, x)
          /\ \A fd \in Fd : IsOpenAt(file, fd, x) \/ IsOpenAt(fm, fd, x) => fm[fd] = file[fd]
      BY <2>2, <3>1
    <3>3. HolderIn(cu, fm, x) = HolderIn(content, file, x)
      BY <1>2, <3>2, HolderSame
    <3>4. QED
      BY <3>1, <3>3
  <2>4. PICK y : y = HeadAt(content, file, x) /\ Owned(x) = Chain(fat, y)
    BY Forms DEF Owned
  <2>5. \A c \in Chain(fat, y) : c \in Cluster /\ fat[c] # FREE /\ c \notin Chain(fat, r)
    BY <1>1, <1>3, <2>4, LiveApart DEF Spares
  <2>6. \A c \in Chain(fat, y) : fat'[c] = fat[c]
    BY <1>1, <2>5 DEF Spares
  <2>7. QED
    BY <2>1, <2>3, <2>4, <2>6 DEF Touched
<1>4. PICK T : T = {x \in Live : Touched(x)}
  OBVIOUS
<1>5. T = {} \/ T = {l}
  BY <1>3, <1>4, Forms
<1>6. QED
  <2>1. Cardinality({}) = 0 /\ Cardinality({l}) = 1
    BY FS_EmptySet, FS_Singleton
  <2>2. QED
    BY <1>4, <1>5, <2>1

\* The allocation table is a set of disjoint chains, each with one owner, the
\* clusters of files and of directories are never mixed, and the current directory
\* is one of the directories, whatever the calls.
THEOREM FatIsSound == Spec => []FatInv
<1>1. Init => FatInv
  BY InvInit
<1>2. FatInv /\ [Next]_vars => FatInv'
  BY StepInv
<1>3. QED
  BY <1>1, <1>2, PTL DEF Spec

\* No two files or directories ever share a cluster.
THEOREM NothingIsCrossLinked == Spec => []NoCrossLink
<1>1. FatInv => NoCrossLink
  <2> SUFFICES ASSUME FatInv PROVE NoCrossLink
    OBVIOUS
  <2> DEFINE A == LiveIn(content)
             h == HeadsIn(content, file)
             D == DirsIn(content)
             J == JunkIn(content)
  <2>1. Forest(fat, A, h, D, J)
    BY DEF FatInv, DirForestOK
  <2>2. Live = A /\ \A l \in A : Owned(l) = Chain(fat, h[l])
    BY Forms DEF Owned, HeadsIn
  <2>3. ASSUME NEW a \in A
        PROVE  /\ Chain(fat, h[a]) \cap Chain(fat, Root) = {}
               /\ \A b \in A \ {a} : Chain(fat, h[a]) \cap Chain(fat, h[b]) = {}
    <3> HIDE DEF A, h, D, J
    <3>1. Root \in Cluster /\ NoLinkTo(fat, Root)
      BY <2>1, Clusters DEF Forest, Kinds, NoLinkTo
    <3>2. h[a] # Root
      BY <2>1, Clusters DEF Forest, Heads
    <3>3. /\ \A b \in A : a # b => Chain(fat, h[a]) \cap Chain(fat, h[b]) = {}
          /\ \A r \in Cluster : NoLinkTo(fat, r) /\ r # h[a] =>
                Chain(fat, h[a]) \cap Chain(fat, r) = {}
      BY <2>1, OwnersApart
    <3>4. QED
      BY <3>1, <3>2, <3>3
  <2> HIDE DEF A, h, D, J
  <2>4. QED
    BY <2>2, <2>3 DEF NoCrossLink
<1>2. QED
  BY <1>1, FatIsSound, PTL

\* No cluster in use is ever without an owner, calls that fail on a full disk
\* included.
THEOREM NothingIsLost == Spec => []NoLostCluster
<1>1. FatInv => NoLostCluster
  <2> SUFFICES ASSUME FatInv, NEW c \in Cluster, fat[c] # FREE
               PROVE  c \in Chain(fat, Root) \/ \E l \in Live : c \in Owned(l)
    BY DEF NoLostCluster
  <2> DEFINE A == LiveIn(content)
             h == HeadsIn(content, file)
  <2>1. Covered(fat, A, h)
    BY DEF FatInv, DirForestOK, Forest
  <2>2. Live = A /\ \A l \in A : Owned(l) = Chain(fat, h[l])
    BY Forms DEF Owned, HeadsIn
  <2> HIDE DEF A, h
  <2>3. PICK r : Owner(A, h, r) /\ c \in Chain(fat, r)
    BY <2>1 DEF Covered
  <2>4. QED
    BY <2>2, <2>3 DEF Owner
<1>2. QED
  BY <1>1, FatIsSound, PTL

\* What a search of a directory meets up to a position: slots, and no end mark
\* before a live one.
LEMMA SearchMeets ==
    ASSUME FatInv, NEW dir, DirHead(content, dir), NEW p \in Positions(Walk(fat, dir))
    PROVE  /\ SlotAt(At(Walk(fat, dir), p)).kind # "junk"
           /\ SlotAt(At(Walk(fat, dir), p)).kind = "live" =>
                 \A q \in 1 .. p : SlotAt(At(Walk(fat, dir), q)).kind # "end"
<1>1. /\ SlotsOK(fat, content) /\ fat \in Table /\ content \in Contents
      /\ OpenOK(content, file) /\ DirForestOK(fat, content, file)
  BY DEF FatInv
<1>2. DirHead(content, dir)
  OBVIOUS
<1>3. PICK w \in Seq(Cluster) : w = Walk(fat, dir) /\ IsWalk(fat, dir, w)
  BY <1>1, WalkIs DEF IsWalk
<1>4. \A k \in 1 .. Len(w) : w[k] \in Cluster /\ w[k] \notin JunkIn(content)
  <2>1. \A k \in 1 .. Len(w) : w[k] \in Chain(fat, dir)
    BY <1>3 DEF Chain
  <2>2. QED
    BY <1>1, <1>2, <2>1, DirHeadIs
<1>5. \A q \in Positions(w) : /\ At(w, q) \in Locs /\ At(w, q)[1] \notin JunkIn(content)
                              /\ SlotAt(At(w, q)) = SlotIn(content, At(w, q))
  BY <1>4, Places, Forms
<1>6. SlotAt(At(w, p)).kind # "junk"
  BY <1>1, <1>3, <1>5 DEF SlotsOK
<1>7. ASSUME SlotAt(At(w, p)).kind = "live", NEW q \in 1 .. p PROVE SlotAt(At(w, q)).kind # "end"
  <2>1. CASE q = p
    BY <1>7, <2>1
  <2>2. CASE q # p
    <3>1. q \in Positions(w) /\ q < p
      <4>1. PICK n : n = Len(w) * DirSlots
        OBVIOUS
      <4>2. p \in 1 .. n
        BY <1>3, <4>1 DEF Positions
      <4>3. n \in Int
        <5>1. DirSlots \in Nat
          BY FatAssumption, SMT
        <5>2. PICK k \in Nat : k = Len(w)
          OBVIOUS
        <5>3. k * DirSlots \in Int
          BY ONLY <5>1, k \in Nat, SMT
        <5>4. QED
          BY <4>1, <5>2, <5>3
      <4>4. q \in 1 .. n /\ q < p
        BY <2>2, <4>2, <4>3
      <4>5. QED
        BY <4>1, <4>4 DEF Positions
    <3>2. PICK a, c \in 1 .. Len(w), b, d \in 1 .. DirSlots :
             /\ At(w, p) = <<w[a], b>> /\ At(w, q) = <<w[c], d>>
             /\ c < a \/ (c = a /\ d < b)
      BY <1>3, <3>1, PlacesOrder
    <3>3. PICK l \in Locs, m \in Locs :
             /\ l = At(w, p) /\ l[1] = w[a] /\ l[2] = b /\ l[1] \notin JunkIn(content)
             /\ m = At(w, q) /\ m[1] = w[c] /\ m[2] = d /\ m[1] \notin JunkIn(content)
             /\ SlotAt(l) = SlotIn(content, l) /\ SlotAt(m) = SlotIn(content, m)
      BY <1>3, <1>5, <3>1, <3>2
    <3>4. CASE c < a
      <4>1. c \in 1 .. Len(w) - 1 /\ c + 1 \in 1 .. Len(w)
        BY <3>4
      <4>2. fat[w[c]] \in Cluster
        BY <1>3, <1>4, <4>1 DEF IsWalk
      <4>3. QED
        BY <1>1, <3>3, <4>2 DEF SlotsOK
    <3>5. CASE c = a /\ d < b
      BY <1>1, <1>7, <3>3, <3>5 DEF SlotsOK
    <3>6. QED
      BY <3>2, <3>4, <3>5
  <2>3. QED
    BY <2>1, <2>2
<1>8. QED
  BY <1>3, <1>6, <1>7

\* A search of a directory meets all its entries: no file data, and no end mark
\* before a live entry, whatever was created, unlinked and created again.
THEOREM NothingIsHidden == Spec => []NoHiddenEntry
<1>1. FatInv => NoHiddenEntry
  <2> SUFFICES ASSUME FatInv,
                      NEW dir \in {Root} \cup {SlotAt(loc).first : loc \in {l \in Live : SlotAt(l).dir}},
                      NEW p \in Positions(Walk(fat, dir))
               PROVE  /\ SlotAt(At(Walk(fat, dir), p)).kind # "junk"
                      /\ SlotAt(At(Walk(fat, dir), p)).kind = "live" =>
                            \A q \in 1 .. p : SlotAt(At(Walk(fat, dir), q)).kind # "end"
    BY DEF NoHiddenEntry
  <2>1. DirHead(content, dir)
    BY Forms DEF DirHead, DirsIn
  <2>2. QED
    BY <2>1, SearchMeets
<1>2. QED
  BY <1>1, FatIsSound, PTL

\* The chain of a file always has room for its size, also after a write that a
\* full disk has cut short or that starts far past the end.
THEOREM SizesAreCovered == Spec => []SizeCovered
<1>1. FatInv => SizeCovered
  <2> SUFFICES ASSUME FatInv, NEW loc \in Live
               PROVE  Holder(loc).size <= ClusterSize * Cardinality(Owned(loc))
    BY DEF SizeCovered
  <2>1. SizesOK(fat, content, file) /\ fat \in Table /\ loc \in LiveIn(content)
    BY Forms DEF FatInv
  <2>2. CASE \E fd \in Fd : IsOpenAt(file, fd, loc)
    <3>1. PICK holder : holder = CHOOSE fd \in Fd : file[fd].is_open /\ file[fd].loc = loc
      OBVIOUS
    <3>2. holder \in Fd /\ file[holder].is_open
      BY <2>2, <3>1 DEF IsOpenAt
    <3>3. Holder(loc) = file[holder]
      BY <2>2, <3>1 DEF Holder, OpenAt, IsOpenAt
    <3>4. Fits(fat, file[holder].first, file[holder].size)
      BY <2>1, <3>2 DEF SizesOK
    <3>5. QED
      BY <3>3, <3>4 DEF Owned, Fits
  <2>3. CASE \A fd \in Fd : ~ IsOpenAt(file, fd, loc)
    <3>1. Holder(loc) = SlotIn(content, loc)
      BY <2>3, Forms DEF Holder
    <3>2. EntryFits(fat, content, loc)
      BY <2>1, <2>3 DEF SizesOK
    <3>3. Fits(fat, SlotIn(content, loc).first, SlotIn(content, loc).size)
      BY <2>1, <3>2, ChainSize DEF EntryFits
    <3>4. QED
      BY <3>1, <3>3 DEF Owned, Fits
  <2>4. QED
    BY <2>2, <2>3
<1>2. QED
  BY <1>1, FatIsSound, PTL

\* A call changes at most one file or directory that is there: none but the one it
\* is about loses or gets a cluster, or learns a new size.
THEOREM OneAtATime == Spec => OthersUntouched
<1>1. FatInv /\ [Next]_vars => [Cardinality({loc \in Live : Touched(loc)}) <= 1]_vars
  BY StepInv, OneTouched
<1>2. QED
  BY <1>1, FatIsSound, PTL DEF Spec, OthersUntouched

\* No link and no entry ever names a free cluster.
THEOREM NothingDangles == Spec => []NoDanglingLink
<1>1. FatInv => NoDanglingLink
  <2> SUFFICES ASSUME FatInv PROVE NoDanglingLink
    OBVIOUS
  <2> DEFINE A == LiveIn(content)
             h == HeadsIn(content, file)
             D == DirsIn(content)
             J == JunkIn(content)
  <2>1. Links(fat) /\ Heads(fat, A, h, D, J)
    BY DEF FatInv, DirForestOK, Forest
  <2>2. Live = A /\ \A l \in A : Holder(l).first = h[l]
    BY Forms DEF HeadsIn
  <2> HIDE DEF A, h, D, J
  <2>3. \A l \in A : h[l] # 0 => fat[h[l]] # FREE
    BY <2>1 DEF Heads
  <2>4. \A c \in Cluster : fat[c] \in Cluster => fat[fat[c]] # FREE
    BY <2>1 DEF Links
  <2>5. QED
    BY <2>2, <2>3, <2>4 DEF NoDanglingLink
<1>2. QED
  BY <1>1, FatIsSound, PTL

\* The names of the path stack lead to the current directory, so getcwd and ".."
\* are right, as long as the stack is not full.
THEOREM PathLeadsToCwd == Spec => []PathMatchesCwd
<1>1. FatInv => PathMatchesCwd
  <2> SUFFICES ASSUME FatInv PROVE PathMatchesCwd
    OBVIOUS
  <2>1. path_stack \in Seq(DirNames) /\ Len(path_stack) <= MAX_PATH_DEPTH
    BY DEF FatInv, PathOK
  <2>2. PICK d : /\ Leads(fat, content, d, path_stack)
                 /\ Len(path_stack) < MAX_PATH_DEPTH => d[Len(path_stack)] = cwd
    BY DEF FatInv, PathOK
  <2>3. Resolve(path_stack) = d[Len(path_stack)]
    BY <2>1, <2>2, ResolveIs
  <2>4. QED
    BY <2>1, <2>2, <2>3 DEF PathMatchesCwd
<1>2. QED
  BY <1>1, FatIsSound, PTL

(***************************************************************************)
(* Listing a directory.                                                    *)
(***************************************************************************)

\* Different positions are different slots.
LEMMA PlacesApart ==
    ASSUME NEW w \in Seq(Cluster), Distinct(w), NEW p \in Positions(w), NEW q \in Positions(w),
           At(w, p) = At(w, q)
    PROVE  p = q
<1>1. ASSUME NEW x \in Positions(w), NEW y \in Positions(w), y < x PROVE At(w, x) # At(w, y)
  <2>1. PICK a, c \in 1 .. Len(w), b, d \in 1 .. DirSlots :
           /\ At(w, x) = <<w[a], b>> /\ At(w, y) = <<w[c], d>>
           /\ c < a \/ (c = a /\ d < b)
    BY <1>1, PlacesOrder
  <2>2. ASSUME w[a] = w[c], b = d PROVE FALSE
    BY <2>1, <2>2 DEF Distinct
  <2>3. QED
    BY <2>1, <2>2
<1>2. PICK n : n = Len(w) * DirSlots
  OBVIOUS
<1>3. p \in 1 .. n /\ q \in 1 .. n
  BY <1>2 DEF Positions
<1>4. p < q \/ p = q \/ q < p
  BY <1>3
<1>5. QED
  BY <1>1, <1>4

\* The calls so far have returned, for the indices from 0 on, the first entry from
\* there on.
ListingOK ==
    /\ listed \in Seq(Locs) /\ index = Len(listed)
    /\ \A k \in 1 .. Len(listed) :
          \E p \in NextListed(k - 1) : listed[k] = At(Walk(fat, cwd), p)
    /\ ended => NextListed(index) = {}

LEMMA ListingStep ==
    ASSUME FatInv, ListingOK, [readdir \/ Other]_<<vars, listing>>
    PROVE  ListingOK'
<1>1. ASSUME UNCHANGED vars
      PROVE  /\ Walk(fat, cwd)' = Walk(fat, cwd)
             /\ \A i : NextListed(i)' = NextListed(i)
  BY <1>1 DEF vars, NextListed, SlotAt
<1>2. CASE readdir
  <2>1. UNCHANGED vars /\ listed \in Seq(Locs) /\ index = Len(listed)
    BY <1>2 DEF readdir, ListingOK
  <2>2. PICK n \in Nat : n = Len(listed)
    BY <2>1
  <2>3. CASE NextListed(index) = {}
    <3>1. UNCHANGED <<index, listed>>
      BY <1>2, <2>3 DEF readdir
    <3>2. QED
      BY <1>1, <2>1, <2>3, <3>1 DEF ListingOK
  <2>4. CASE NextListed(index) # {}
    <3>1. PICK p \in NextListed(index) :
             /\ listed' = Append(listed, At(Walk(fat, cwd), p))
             /\ index' = index + 1 /\ ended' = FALSE
      BY <1>2, <2>4 DEF readdir
    <3>2. PICK l \in Locs : l = At(Walk(fat, cwd), p)
      <4>1. p \in Positions(Walk(fat, cwd)) /\ Walk(fat, cwd) \in Seq(Cluster)
        BY WalkIs DEF NextListed, IsWalk, FatInv
      <4>2. QED
        BY <4>1, Places
    <3>3. PICK v \in Seq(Locs) :
             /\ v = listed' /\ Len(v) = n + 1 /\ v[n + 1] = l
             /\ \A k \in 1 .. n : v[k] = listed[k]
      <4>1. PICK v : v = Append(listed, l)
        OBVIOUS
      <4>2. /\ v \in Seq(Locs) /\ Len(v) = n + 1 /\ v[n + 1] = l
            /\ \A k \in 1 .. n : v[k] = listed[k]
        BY <2>1, <2>2, <4>1, AppendProperties
      <4>3. QED
        BY <3>1, <3>2, <4>1, <4>2
    <3>4. ASSUME NEW k \in 1 .. n + 1
          PROVE  \E q \in NextListed(k - 1) : v[k] = At(Walk(fat, cwd), q)
      <4>1. CASE k = n + 1
        BY <2>1, <2>2, <3>2, <3>3, <4>1
      <4>2. CASE k # n + 1
        <5>1. k \in 1 .. n
          BY <2>2, <4>2
        <5>2. QED
          BY <2>2, <3>3, <5>1 DEF ListingOK
      <4>3. QED
        BY <4>1, <4>2
    <3>5. QED
      BY <1>1, <2>1, <2>2, <3>1, <3>3, <3>4 DEF ListingOK
  <2>5. QED
    BY <2>3, <2>4
<1>3. CASE Other
  BY <1>3 DEF Other, ListingOK
<1>4. CASE UNCHANGED <<vars, listing>>
  BY <1>1, <1>4 DEF listing, ListingOK
<1>5. QED
  BY <1>2, <1>3, <1>4

\* What is before a position is one, too.
LEMMA PositionsBelow ==
    ASSUME NEW w \in Seq(Cluster), NEW p \in Positions(w)
    PROVE  p \in Nat /\ p >= 1 /\ \A q \in 1 .. p : q \in Positions(w)
<1>1. PICK n : n = Len(w) * DirSlots
  OBVIOUS
<1>2. n \in Int
  <2>1. DirSlots \in Nat
    BY FatAssumption, SMT
  <2>2. PICK k \in Nat : k = Len(w)
    OBVIOUS
  <2>3. k * DirSlots \in Int
    BY ONLY <2>1, k \in Nat, SMT
  <2>4. QED
    BY <1>1, <2>2, <2>3
<1>3. p \in 1 .. n
  BY <1>1 DEF Positions
<1>4. \A q \in 1 .. p : q \in 1 .. n
  BY <1>2, <1>3
<1>5. QED
  BY <1>1, <1>2, <1>3, <1>4 DEF Positions

\* A finished listing has gone past every live entry.
LEMMA PastLive ==
    ASSUME FatInv, ListingOK, ended, NEW p \in Positions(Walk(fat, cwd)),
           SlotAt(At(Walk(fat, cwd), p)).kind = "live"
    PROVE  p \in Nat /\ p >= 1 /\ p <= Len(listed)
<1>1. PICK w, n : w = Walk(fat, cwd) /\ n = Len(listed)
  OBVIOUS
<1> DEFINE kind(q) == SlotAt(At(w, q)).kind
<1>2. /\ content \in Contents /\ DirHead(content, cwd) /\ w \in Seq(Cluster)
      /\ n \in Nat /\ index = n
  BY <1>1, WalkIs DEF FatInv, PathOK, IsWalk, ListingOK
<1>3. p \in Nat /\ p >= 1 /\ (\A q \in 1 .. p : q \in Positions(w))
  BY <1>1, <1>2, PositionsBelow
<1>4. ASSUME NEW q \in 1 .. p PROVE kind(q) \in {"live"} \cup Passed
  <2>1. kind(q) # "junk" /\ kind(q) # "end"
    BY <1>1, <1>2, <1>3, <1>4, SearchMeets
  <2>2. kind(q) \in Kind
    <3>1. At(w, q) \in Locs
      BY <1>2, <1>3, <1>4, Places
    <3>2. QED
      BY <1>2, <3>1, SlotType, Forms DEF Slot
  <2>3. QED
    BY <2>1, <2>2 DEF Kind, Passed
<1>5. ASSUME p > n PROVE FALSE
  <2> DEFINE T == {m \in 1 .. p : m > n /\ kind(m) = "live"}
  <2>1. p \in T /\ T \subseteq Nat
    BY <1>1, <1>3, <1>5
  <2>2. PICK m \in T : \A k \in T : m <= k
    BY <2>1, LeastElement, Zenon
  <2>3. m \in 1 .. p /\ m > n /\ kind(m) = "live" /\ m \in Positions(w)
    BY <1>3, <2>2
  <2>4. ASSUME NEW q \in n + 1 .. m - 1 PROVE kind(q) \in Passed
    <3>1. q \in 1 .. p /\ q > n /\ ~ (m <= q)
      BY <1>2, <1>3, <2>3, <2>4
    <3>2. kind(q) # "live"
      BY <2>2, <3>1
    <3>3. QED
      BY <1>4, <3>1, <3>2
  <2>5. m \in NextListed(n)
    BY <1>1, <2>3, <2>4 DEF NextListed
  <2>6. QED
    BY <1>2, <2>5 DEF ListingOK
<1>6. QED
  BY <1>1, <1>2, <1>3, <1>5

LEMMA EmptyList == \A S : << >> \in Seq(S) /\ Len(<< >>) = 0 /\ 1 .. 0 = {}
OBVIOUS

\* A listing of the current directory that has come to its end has returned every
\* entry, once and once more for every deleted or long-name slot right before it.
THEOREM ListingsAreComplete == LSpec => []ListingComplete
<1>1. LInit => FatInv /\ ListingOK
  BY InvInit, EmptyList DEF LInit, ListingOK
<1>2. FatInv /\ ListingOK /\ [readdir \/ Other]_<<vars, listing>> => FatInv' /\ ListingOK'
  <2>1. [readdir \/ Other]_<<vars, listing>> => [Next]_vars
    BY DEF readdir, Other, vars
  <2>2. QED
    BY <2>1, StepInv, ListingStep
<1>3. FatInv /\ ListingOK => ListingComplete
  <2> SUFFICES ASSUME FatInv, ListingOK, ended, NEW p \in Positions(Walk(fat, cwd)),
                      SlotAt(At(Walk(fat, cwd), p)).kind = "live"
               PROVE  Cardinality({k \in 1 .. Len(listed) : listed[k] = At(Walk(fat, cwd), p)}) =
                      1 + Cardinality({q \in 1 .. p - 1 :
                             \A r \in q .. p - 1 : SlotAt(At(Walk(fat, cwd), r)).kind \in Passed})
    BY DEF ListingComplete, Passed
  <2>1. PICK w, n : w = Walk(fat, cwd) /\ n = Len(listed)
    OBVIOUS
  <2> DEFINE kind(q) == SlotAt(At(w, q)).kind
             B == {q \in 1 .. p - 1 : \A r \in q .. p - 1 : kind(r) \in Passed}
             T == {k \in 1 .. n : listed[k] = At(w, p)}
  <2>2. n \in Nat /\ p \in Nat /\ p >= 1 /\ p <= n /\ kind(p) = "live" /\ p \in Positions(w)
    BY <2>1, PastLive DEF ListingOK
  <2>3. w \in Seq(Cluster) /\ Distinct(w)
    <3>1. fat \in Table /\ Links(fat) /\ NoLinkTo(fat, cwd)
      BY DirHeadIs DEF FatInv, PathOK, DirForestOK, Forest
    <3>2. QED
      BY <2>1, <3>1, WalkIs, WalkDistinct DEF IsWalk
  <2>4. ASSUME NEW k \in 1 .. n PROVE k \in T <=> k \in B \cup {p}
    <3>1. PICK q \in NextListed(k - 1) : listed[k] = At(w, q)
      BY <2>1, <2>4 DEF ListingOK
    <3>2. /\ q \in Positions(w) /\ q \in Nat /\ q >= k /\ kind(q) = "live"
          /\ \A r \in k .. q - 1 : kind(r) \in Passed
      <4>1. q \in Positions(w) /\ q > k - 1 /\ kind(q) = "live"
        BY <2>1, <3>1 DEF NextListed
      <4>2. \A r \in (k - 1) + 1 .. q - 1 : kind(r) \in Passed
        BY <2>1, <3>1 DEF NextListed
      <4>3. q \in Nat
        BY <2>3, <4>1, PositionsBelow
      <4>4. QED
        BY <4>1, <4>2, <4>3
    <3>3. k \in T <=> q = p
      BY <2>2, <2>3, <3>1, <3>2, PlacesApart
    <3>4. k \in B \cup {p} <=> (k <= p /\ \A r \in k .. p - 1 : kind(r) \in Passed)
      BY <2>2
    <3> HIDE DEF B, T
    <3>5. ASSUME q = p PROVE k \in B \cup {p}
      BY <3>2, <3>4, <3>5
    <3>6. ASSUME q # p, k \in B \cup {p} PROVE FALSE
      <4>1. CASE q < p
        <5>1. q \in k .. p - 1
          BY <2>2, <3>2, <4>1
        <5>2. kind(q) \in Passed
          BY <3>4, <3>6, <5>1
        <5>3. QED
          BY <3>2, <5>2 DEF Passed
      <4>2. CASE p < q
        <5>1. p \in k .. q - 1
          BY <2>2, <3>2, <3>4, <3>6, <4>2
        <5>2. kind(p) \in Passed
          BY <3>2, <5>1
        <5>3. QED
          BY <2>2, <5>2 DEF Passed
      <4>3. QED
        BY <2>2, <3>2, <3>6, <4>1, <4>2
    <3>7. QED
      BY <3>3, <3>5, <3>6
  <2>5. T = B \cup {p}
    <3>1. \A k \in B \cup {p} : k \in 1 .. n
      BY <2>2
    <3>2. QED
      BY <2>4, <3>1
  <2>6. IsFiniteSet(B) /\ p \notin B
    <3>1. IsFiniteSet(1 .. p - 1) /\ B \subseteq 1 .. p - 1
      BY <2>2, FS_Interval
    <3>2. p \notin B
      BY <2>2
    <3>3. QED
      BY <3>1, <3>2, FS_Subset
  <2> HIDE DEF B, T
  <2>7. Cardinality(T) = Cardinality(B) + 1 /\ Cardinality(B) \in Nat
    BY <2>5, <2>6, FS_AddElement, FS_CardinalityType
  <2>8. Cardinality(T) = 1 + Cardinality(B)
    BY <2>7
  <2>9. QED
    BY <2>1, <2>8 DEF B, T
<1>4. QED
  BY <1>1, <1>2, <1>3, PTL DEF LSpec

\* The steps of a listing leave the file system alone: with a program that lists a
\* directory, entry by entry between its other calls, the directories stay sound.
THEOREM ListingKeepsDirectories ==
    LSpec => Spec /\ [](NoLostCluster /\ NoHiddenEntry /\ PathMatchesCwd)
<1>1. LInit => Init
  BY DEF LInit
<1>2. [readdir \/ Other]_<<vars, listing>> => [Next]_vars
  BY DEF readdir, Other, vars
<1>3. LSpec => Spec
  BY <1>1, <1>2, PTL DEF LSpec, Spec
<1>4. QED
  BY <1>3, NothingIsLost, NothingIsHidden, PathLeadsToCwd, PTL
=============================================================================
