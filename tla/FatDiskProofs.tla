--------------------------- MODULE FatDiskProofs ----------------------------
(***************************************************************************)
(* Proofs about FatDisk for every disk, every directory and every number   *)
(* of failed accesses and losses of power.                                 *)
(***************************************************************************)
EXTENDS FatDisk, FiniteSetTheorems, SequenceTheorems, TLAPS

-----------------------------------------------------------------------------
(***************************************************************************)
(* What a call still has to do: the writes of the two copies of an entry   *)
(* follow each other.                                                      *)
(***************************************************************************)

\* The two writes of fat32_write_fat.
Twins(a, b) ==
    /\ a.do = "fat" /\ b.do = "fat"
    /\ a.copy = 1 /\ b.copy = 2
    /\ a.c = b.c /\ a.v = b.v

\* The first write is followed by the second; the second comes after the first,
\* unless that has been made already.
Paired(t) ==
    \A k \in 1 .. Len(t) : t[k].do = "fat" =>
        \/ t[k].copy = 1 /\ k + 1 \in 1 .. Len(t) /\ Twins(t[k], t[k + 1])
        \/ t[k].copy = 2 /\ (k = 1 \/ Twins(t[k - 1], t[k]))

IsSequence(t) == \E S : t \in Seq(S)

\* The first copy of an entry is written and the second is not.
HalfDone(t) == t # << >> /\ t[1].do = "fat" /\ t[1].copy = 2

\* Sequences of whole writes.
Whole(t) == IsSequence(t) /\ Paired(t) /\ ~ HalfDone(t)

LEMMA NothingWhole == Whole(<< >>)
<1>1. << >> \in Seq({}) /\ Len(<< >>) = 0
  OBVIOUS
<1>2. QED
  BY <1>1 DEF Whole, IsSequence, Paired, HalfDone

\* An access to anything but the table.
LEMMA OneWhole ==
    ASSUME NEW x, x.do # "fat"
    PROVE  Whole(<<x>>)
<1>1. PICK t : t = <<x>>
  OBVIOUS
<1>2. t \in Seq({x}) /\ Len(t) = 1 /\ t[1] = x
  BY <1>1
<1>3. \A k \in 1 .. Len(t) : t[k].do # "fat"
  BY <1>2
<1>4. QED
  BY <1>1, <1>2, <1>3 DEF Whole, IsSequence, Paired, HalfDone

\* What is left when the head is done, or has failed, and it was no first copy.
LEMMA RestWhole ==
    ASSUME NEW t, IsSequence(t), Paired(t), t # << >>,
           ~ (t[1].do = "fat" /\ t[1].copy = 1)
    PROVE  Whole(Tail(t))
<1>1. PICK S : t \in Seq(S)
  BY DEF IsSequence
<1>2. /\ Tail(t) \in Seq(S) /\ Len(Tail(t)) = Len(t) - 1 /\ Len(t) \in Nat \ {0}
      /\ \A k \in 1 .. Len(t) - 1 : Tail(t)[k] = t[k + 1]
  BY <1>1
<1>3. \A k \in 1 .. Len(t) - 1 : t[k + 1].do = "fat" =>
         \/ /\ t[k + 1].copy = 1 /\ k + 1 \in 1 .. Len(t) - 1
            /\ Twins(t[k + 1], t[k + 2])
         \/ t[k + 1].copy = 2 /\ k > 1 /\ Twins(t[k], t[k + 1])
  <2> SUFFICES ASSUME NEW k \in 1 .. Len(t) - 1, t[k + 1].do = "fat"
               PROVE  \/ /\ t[k + 1].copy = 1 /\ k + 1 \in 1 .. Len(t) - 1
                         /\ Twins(t[k + 1], t[k + 2])
                      \/ t[k + 1].copy = 2 /\ k > 1 /\ Twins(t[k], t[k + 1])
    OBVIOUS
  <2>1. PICK j \in 1 .. Len(t) : j = k + 1 /\ j # 1 /\ j - 1 = k /\ j + 1 = k + 2
    BY <1>2
  <2>2. \/ t[j].copy = 1 /\ j + 1 \in 1 .. Len(t) /\ Twins(t[j], t[j + 1])
        \/ t[j].copy = 2 /\ Twins(t[j - 1], t[j])
    BY <2>1 DEF Paired
  <2>3. Twins(t[j - 1], t[j]) => k # 1
    BY <2>1 DEF Twins
  <2>4. QED
    BY <1>2, <2>1, <2>2, <2>3
<1>4. Paired(Tail(t))
  <2> SUFFICES ASSUME NEW k \in 1 .. Len(Tail(t)), Tail(t)[k].do = "fat"
               PROVE  \/ /\ Tail(t)[k].copy = 1 /\ k + 1 \in 1 .. Len(Tail(t))
                         /\ Twins(Tail(t)[k], Tail(t)[k + 1])
                      \/ /\ Tail(t)[k].copy = 2
                         /\ k = 1 \/ Twins(Tail(t)[k - 1], Tail(t)[k])
    BY DEF Paired
  <2>1. k \in 1 .. Len(t) - 1 /\ Tail(t)[k] = t[k + 1]
    BY <1>2
  <2>2. k + 1 \in 1 .. Len(t) - 1 => Tail(t)[k + 1] = t[k + 2]
    BY <1>2, <2>1
  <2>3. k > 1 => Tail(t)[k - 1] = t[k]
    BY <1>2, <2>1
  <2>4. QED
    BY <1>2, <1>3, <2>1, <2>2, <2>3
<1>5. ~ HalfDone(Tail(t))
  <2> SUFFICES ASSUME Tail(t) # << >>, Tail(t)[1].do = "fat", Tail(t)[1].copy = 2
               PROVE  FALSE
    BY DEF HalfDone
  <2>1. 1 \in 1 .. Len(t) - 1 /\ Tail(t)[1] = t[1 + 1]
    BY <1>2
  <2>2. QED
    BY <1>3, <2>1
<1>6. QED
  BY <1>2, <1>4, <1>5 DEF Whole, IsSequence

\* fat32_write_fat before other accesses.
LEMMA WriteFatWhole ==
    ASSUME NEW c, NEW v, NEW t, Whole(t)
    PROVE  Whole(WriteFat(c, v) \o t) /\ IsSequence(WriteFat(c, v))
<1> DEFINE w == WriteFat(c, v)
           u == w \o t
<1>1. PICK S : t \in Seq(S)
  BY DEF Whole, IsSequence
<1>2. /\ w[1] = [do |-> "fat", copy |-> 1, c |-> c, v |-> v]
      /\ w[2] = [do |-> "fat", copy |-> 2, c |-> c, v |-> v]
      /\ DOMAIN w = 1 .. 2
  BY DEF WriteFat
<1>3. PICK R : w \in [1 .. 2 -> R] /\ S \subseteq R
  <2>1. w \in [1 .. 2 -> S \cup {w[1], w[2]}]
    <3>1. \A i \in 1 .. 2 : w[i] \in S \cup {w[1], w[2]}
      OBVIOUS
    <3>2. w = [i \in 1 .. 2 |-> w[i]]
      BY DEF WriteFat
    <3> HIDE DEF w
    <3>3. QED
      BY <3>1, <3>2
  <2>2. QED
    BY <2>1
<1> HIDE DEF w
<1>4. w \in Seq(R) /\ Len(w) = 2 /\ t \in Seq(R)
  <2>1. w \in Seq(R)
    <3>1. Seq(R) = UNION {[1 .. k -> R] : k \in Nat}
      BY SeqDef
    <3>2. [1 .. 2 -> R] \in {[1 .. k -> R] : k \in Nat}
      OBVIOUS
    <3>3. QED
      BY <1>3, <3>1, <3>2, Zenon
  <2>2. Len(w) = 2
    BY <1>2, <2>1
  <2>3. t \in Seq(R)
    BY <1>1, <1>3
  <2>4. QED
    BY <2>1, <2>2, <2>3
<1>5. /\ u \in Seq(R) /\ Len(u) = Len(t) + 2 /\ Len(t) \in Nat
      /\ u[1] = w[1] /\ u[2] = w[2]
      /\ \A k \in 1 .. Len(t) : u[k + 2] = t[k]
  <2>1. /\ u \in Seq(R) /\ Len(u) = Len(w) + Len(t) /\ Len(t) \in Nat
        /\ \A i \in 1 .. Len(w) + Len(t) :
              u[i] = IF i <= Len(w) THEN w[i] ELSE t[i - Len(w)]
    <3>1. Len(t) \in Nat
      BY <1>4
    <3>2. QED
      BY <1>4, <3>1, ConcatProperties, Zenon
  <2> HIDE DEF u
  <2>2. ASSUME NEW k \in 1 .. Len(t) PROVE u[k + 2] = t[k]
    <3>1. k + 2 \in 1 .. Len(w) + Len(t) /\ ~ (k + 2 <= Len(w)) /\ (k + 2) - Len(w) = k
      BY <1>4, <2>1
    <3>2. QED
      BY <2>1, <3>1
  <2>3. QED
    BY <1>4, <2>1, <2>2
<1> HIDE DEF u
<1>6. Twins(u[1], u[2])
  BY <1>2, <1>5 DEF Twins
<1>7. Paired(u)
  <2> SUFFICES ASSUME NEW k \in 1 .. Len(u), u[k].do = "fat"
               PROVE  \/ u[k].copy = 1 /\ k + 1 \in 1 .. Len(u) /\ Twins(u[k], u[k + 1])
                      \/ u[k].copy = 2 /\ (k = 1 \/ Twins(u[k - 1], u[k]))
    BY DEF Paired
  <2>1. CASE k = 1
    BY <1>5, <1>6, <2>1 DEF Twins
  <2>2. CASE k = 2
    BY <1>5, <1>6, <2>2 DEF Twins
  <2>3. CASE k > 2
    <3>1. PICK j \in 1 .. Len(t) : k = j + 2
      <4>1. k - 2 \in 1 .. Len(t) /\ k = (k - 2) + 2
        BY <1>5, <2>3
      <4>2. QED
        BY <4>1
    <3>2. u[k] = t[j] /\ t[j].do = "fat"
      BY <1>5, <3>1
    <3>3. \/ t[j].copy = 1 /\ j + 1 \in 1 .. Len(t) /\ Twins(t[j], t[j + 1])
          \/ t[j].copy = 2 /\ (j = 1 \/ Twins(t[j - 1], t[j]))
      BY <3>2 DEF Whole, Paired
    <3>4. CASE j = 1 /\ t[j].copy = 2
      <4>1. t # << >>
        BY <1>5, <3>1
      <4>2. QED
        BY <3>2, <3>4, <4>1 DEF Whole, HalfDone
    <3>5. CASE t[j].copy = 1 /\ j + 1 \in 1 .. Len(t) /\ Twins(t[j], t[j + 1])
      <4>1. k + 1 \in 1 .. Len(u) /\ u[k + 1] = t[j + 1]
        <5>1. k + 1 = (j + 1) + 2
          BY <3>1
        <5>2. QED
          BY <1>5, <3>5, <5>1
      <4>2. QED
        BY <3>2, <3>5, <4>1
    <3>6. CASE j # 1 /\ t[j].copy = 2 /\ Twins(t[j - 1], t[j])
      <4>1. u[k - 1] = t[j - 1]
        <5>1. k - 1 = (j - 1) + 2 /\ j - 1 \in 1 .. Len(t)
          BY <1>5, <3>1, <3>6
        <5>2. QED
          BY <1>5, <5>1
      <4>2. QED
        BY <3>2, <3>6, <4>1
    <3>7. QED
      BY <3>3, <3>4, <3>5, <3>6
  <2>4. QED
    BY <1>5, <2>1, <2>2, <2>3
<1>8. ~ HalfDone(u)
  BY <1>6 DEF HalfDone, Twins
<1>9. QED
  BY <1>4, <1>5, <1>7, <1>8 DEF Whole, IsSequence, u, w

\* What is left when the first copy is written: the second.
LEMMA AfterFirst ==
    ASSUME NEW S, NEW t \in Seq(S), Paired(t), Len(t) > 1, Twins(t[1], t[2])
    PROVE  Paired(Tail(t))
<1>1. /\ Tail(t) \in Seq(S) /\ Len(Tail(t)) = Len(t) - 1 /\ Len(t) \in Nat
      /\ \A k \in 1 .. Len(t) - 1 : Tail(t)[k] = t[k + 1]
  BY EmptySeq
<1> SUFFICES ASSUME NEW k \in 1 .. Len(Tail(t)), Tail(t)[k].do = "fat"
             PROVE  \/ /\ Tail(t)[k].copy = 1 /\ k + 1 \in 1 .. Len(Tail(t))
                       /\ Twins(Tail(t)[k], Tail(t)[k + 1])
                    \/ /\ Tail(t)[k].copy = 2
                       /\ k = 1 \/ Twins(Tail(t)[k - 1], Tail(t)[k])
  BY DEF Paired
<1>2. PICK j \in 1 .. Len(t) : /\ j = k + 1 /\ j # 1 /\ j - 1 = k /\ j + 1 = k + 2
                              /\ Tail(t)[k] = t[j]
  BY <1>1
<1>3. \/ t[j].copy = 1 /\ j + 1 \in 1 .. Len(t) /\ Twins(t[j], t[j + 1])
      \/ t[j].copy = 2 /\ Twins(t[j - 1], t[j])
  BY <1>2 DEF Paired
<1>4. j + 1 \in 1 .. Len(t) => k + 1 \in 1 .. Len(Tail(t)) /\ Tail(t)[k + 1] = t[j + 1]
  BY <1>1, <1>2
<1>5. k # 1 => Tail(t)[k - 1] = t[j - 1]
  BY <1>1, <1>2
<1>6. QED
  BY <1>2, <1>3, <1>4, <1>5

\* Any access before others that are whole.
LEMMA OneBefore ==
    ASSUME NEW x, x.do # "fat", NEW t, Whole(t)
    PROVE  Whole(<<x>> \o t)
<1>1. PICK S : t \in Seq(S)
  BY DEF Whole, IsSequence
<1>2. PICK R : S \subseteq R /\ x \in R
  <2>1. S \subseteq S \cup {x} /\ x \in S \cup {x}
    OBVIOUS
  <2>2. QED
    BY <2>1
<1>3. PICK w : w = <<x>>
  OBVIOUS
<1>4. w \in Seq(R) /\ Len(w) = 1 /\ w[1] = x /\ t \in Seq(R) /\ Len(t) \in Nat
  BY <1>1, <1>2, <1>3
<1>5. PICK u : u = w \o t
  OBVIOUS
<1>6. /\ u \in Seq(R) /\ Len(u) = Len(t) + 1 /\ u[1] = x
      /\ \A k \in 1 .. Len(t) : u[k + 1] = t[k]
  <2>1. /\ u \in Seq(R) /\ Len(u) = Len(w) + Len(t)
        /\ \A i \in 1 .. Len(w) + Len(t) :
              u[i] = IF i <= Len(w) THEN w[i] ELSE t[i - Len(w)]
    BY <1>4, <1>5, ConcatProperties, Zenon
  <2>2. ASSUME NEW k \in 1 .. Len(t) PROVE u[k + 1] = t[k]
    <3>1. k + 1 \in 1 .. Len(w) + Len(t) /\ ~ (k + 1 <= Len(w)) /\ (k + 1) - Len(w) = k
      BY <1>4
    <3>2. QED
      BY <2>1, <3>1
  <2>3. QED
    BY <1>4, <2>1, <2>2
<1>7. Paired(u)
  <2> SUFFICES ASSUME NEW k \in 1 .. Len(u), u[k].do = "fat"
               PROVE  \/ u[k].copy = 1 /\ k + 1 \in 1 .. Len(u) /\ Twins(u[k], u[k + 1])
                      \/ u[k].copy = 2 /\ (k = 1 \/ Twins(u[k - 1], u[k]))
    BY DEF Paired
  <2>1. PICK j \in 1 .. Len(t) : k = j + 1
    <3>1. k # 1
      BY <1>6
    <3>2. k - 1 \in 1 .. Len(t) /\ k = (k - 1) + 1
      BY <1>4, <1>6, <3>1
    <3>3. QED
      BY <3>2
  <2>2. u[k] = t[j] /\ t[j].do = "fat"
    BY <1>6, <2>1
  <2>3. \/ t[j].copy = 1 /\ j + 1 \in 1 .. Len(t) /\ Twins(t[j], t[j + 1])
        \/ t[j].copy = 2 /\ (j = 1 \/ Twins(t[j - 1], t[j]))
    BY <2>2 DEF Whole, Paired
  <2>4. CASE j = 1 /\ t[j].copy = 2
    <3>1. t # << >>
      BY <1>4, <2>1
    <3>2. QED
      BY <2>2, <2>4, <3>1 DEF Whole, HalfDone
  <2>5. CASE t[j].copy = 1 /\ j + 1 \in 1 .. Len(t) /\ Twins(t[j], t[j + 1])
    <3>1. k + 1 \in 1 .. Len(u) /\ u[k + 1] = t[j + 1]
      <4>1. k + 1 = (j + 1) + 1
        BY <2>1
      <4>2. QED
        BY <1>4, <1>6, <2>5, <4>1
    <3>2. QED
      BY <2>2, <2>5, <3>1
  <2>6. CASE j # 1 /\ t[j].copy = 2 /\ Twins(t[j - 1], t[j])
    <3>1. u[k - 1] = t[j - 1]
      <4>1. k - 1 = (j - 1) + 1 /\ j - 1 \in 1 .. Len(t)
        BY <1>4, <2>1, <2>6
      <4>2. QED
        BY <1>6, <4>1
    <3>2. QED
      BY <2>2, <2>6, <3>1
  <2>7. QED
    BY <2>3, <2>4, <2>5, <2>6
<1>8. ~ HalfDone(u)
  BY <1>6 DEF HalfDone
<1>9. QED
  BY <1>3, <1>5, <1>6, <1>7, <1>8 DEF Whole, IsSequence

LEMMA Associative ==
    ASSUME NEW r, NEW s, NEW t, IsSequence(r), IsSequence(s), IsSequence(t)
    PROVE  (r \o s) \o t = r \o (s \o t)
<1>1. PICK R, S, T : r \in Seq(R) /\ s \in Seq(S) /\ t \in Seq(T)
  BY DEF IsSequence
<1>2. PICK U : R \subseteq U /\ S \subseteq U /\ T \subseteq U
  <2>1. R \subseteq UNION {R, S, T} /\ S \subseteq UNION {R, S, T} /\ T \subseteq UNION {R, S, T}
    OBVIOUS
  <2>2. QED
    BY <2>1
<1>3. r \in Seq(U) /\ s \in Seq(U) /\ t \in Seq(U)
  BY <1>1, <1>2, SeqMonotonic
<1>4. QED
  BY <1>3, ConcatAssociative

\* The two writes of the table that make a chain longer, and the search after them.
LEMMA ExtendWhole ==
    ASSUME NEW c, NEW n, NEW t, Whole(t)
    PROVE  Whole(Extend(c, n) \o t)
<1>1. /\ Whole(WriteFat(c, n) \o t)
      /\ IsSequence(WriteFat(n, EOC)) /\ IsSequence(WriteFat(c, n)) /\ IsSequence(t)
  BY WriteFatWhole DEF Whole
<1>2. Whole(WriteFat(n, EOC) \o (WriteFat(c, n) \o t))
  BY <1>1, WriteFatWhole
<1>3. Extend(c, n) \o t = WriteFat(n, EOC) \o (WriteFat(c, n) \o t)
  BY <1>1, Associative DEF Extend
<1>4. QED
  BY <1>2, <1>3

\* A step of fat32_free_cluster_chain that goes on.
LEMMA FreeWhole ==
    ASSUME NEW c, NEW d, NEW t, Whole(t)
    PROVE  Whole(WriteFat(c, FREE) \o FreeChain(d) \o t)
<1> DEFINE x == [do |-> "free", c |-> d]
<1>1. Whole(FreeChain(d) \o t)
  BY OneBefore DEF FreeChain
<1>2. /\ Whole(WriteFat(c, FREE) \o (FreeChain(d) \o t))
      /\ IsSequence(WriteFat(c, FREE)) /\ IsSequence(FreeChain(d)) /\ IsSequence(t)
  BY <1>1, WriteFatWhole, OneWhole DEF Whole, FreeChain
<1>3. (WriteFat(c, FREE) \o FreeChain(d)) \o t = WriteFat(c, FREE) \o (FreeChain(d) \o t)
  BY <1>2, Associative
<1>4. QED
  BY <1>2, <1>3

-----------------------------------------------------------------------------
(***************************************************************************)
(* The copies of the table.                                                *)
(***************************************************************************)

Differ == {c \in Cluster : fat[1][c] # fat[2][c]}

\* The entry whose second copy is about to be written.
Ahead == IF HalfDone(op.todo) THEN {op.todo[1].c} ELSE {}

CopyInv ==
    /\ faults \in Nat
    /\ DOMAIN fat = 1 .. 2 /\ DOMAIN fat[1] = Cluster /\ DOMAIN fat[2] = Cluster
    /\ "todo" \in DOMAIN op
    /\ IsSequence(op.todo) /\ Paired(op.todo)
    /\ HalfDone(op.todo) /\ op.todo[1].c \in Cluster =>
          fat[1][op.todo[1].c] = op.todo[1].v
    /\ Cardinality(Differ \ Ahead) <= faults

\* Sets of clusters and their sizes.
LEMMA ClusterSets ==
    ASSUME NEW A, A \subseteq Cluster, NEW B, B \subseteq A
    PROVE  /\ IsFiniteSet(A) /\ Cardinality(A) \in Nat /\ Cardinality(B) \in Nat
           /\ Cardinality(B) <= Cardinality(A)
<1>1. IsFiniteSet(A)
  BY DiskAssumption, FS_Subset
<1>2. IsFiniteSet(B) /\ Cardinality(B) <= Cardinality(A)
  BY <1>1, FS_Subset
<1>3. QED
  BY <1>1, <1>2, FS_CardinalityType

LEMMA OneMore ==
    ASSUME NEW A, A \subseteq Cluster, NEW c
    PROVE  Cardinality(A) <= Cardinality(A \ {c}) + 1
<1>1. IsFiniteSet(A) /\ Cardinality(A) \in Nat
  BY ClusterSets
<1>2. Cardinality(A \ {c}) = IF c \in A THEN Cardinality(A) - 1 ELSE Cardinality(A)
  BY <1>1, FS_RemoveElement, Zenon
<1>3. QED
  BY <1>1, <1>2

\* The head of what is to do, as the first element.
LEMMA FirstIsHead ==
    ASSUME NEW t, IsSequence(t), t # << >>
    PROVE  Head(t) = t[1]
BY DEF IsSequence

\* A step that writes no table leaves the copies as they are.
LEMMA TableKept ==
    ASSUME CopyInv, ~ HalfDone(op.todo), UNCHANGED fat,
           faults' \in Nat, faults <= faults',
           "todo" \in DOMAIN op', Whole(op'.todo)
    PROVE  CopyInv'
<1>1. Ahead = {} /\ Ahead' = {} /\ Differ' = Differ
  BY DEF Ahead, Whole, Differ
<1>2. Cardinality(Differ) \in Nat /\ Cardinality(Differ \ {}) <= faults
  BY <1>1, ClusterSets DEF CopyInv, Differ
<1>3. Cardinality(Differ \ {}) <= faults' /\ Differ \ {} = Differ
  BY <1>2 DEF CopyInv
<1>4. Cardinality(Differ' \ Ahead') <= faults'
  BY <1>1, <1>3
<1>5. QED
  BY <1>4 DEF CopyInv, Whole

\* What a step does that replaces only what is left to do.
LEMMA ThenTodo ==
    ASSUME CopyInv, NEW t, Then(t)
    PROVE  "todo" \in DOMAIN op' /\ op'.todo = t
BY DEF CopyInv, Then

LEMMA StartTodo ==
    ASSUME NEW kind, NEW s, NEW arg, NEW t, Start(kind, s, arg, t)
    PROVE  "todo" \in DOMAIN op' /\ op'.todo = t
BY DEF Start

\* The first copy is written, or the second after it.
LEMMA FatWriteCopies ==
    ASSUME CopyInv, FatWrite
    PROVE  CopyInv'
<1> DEFINE t == op.todo
           h == t[1]
           u == op'.todo
<1>1. /\ t # << >> /\ h.do = "fat" /\ IsSequence(t) /\ Paired(t)
      /\ fat' = [fat EXCEPT ![h.copy][h.c] = h.v]
      /\ "todo" \in DOMAIN op' /\ u = Tail(t) /\ UNCHANGED faults
  BY FirstIsHead, ThenTodo DEF FatWrite, Todo, CopyInv
<1>2. PICK S : t \in Seq(S)
  BY <1>1 DEF IsSequence
<1>3. Len(t) \in Nat \ {0}
  BY <1>1, <1>2
<1>4. /\ h.copy \in 1 .. 2
      /\ h.copy = 1 => Len(t) > 1 /\ Twins(t[1], t[2])
  BY <1>1, <1>3 DEF Paired
<1>5. /\ DOMAIN fat = 1 .. 2 /\ DOMAIN fat[1] = Cluster /\ DOMAIN fat[2] = Cluster
      /\ faults \in Nat
  BY DEF CopyInv
<1> HIDE DEF t, h, u
<1>6. /\ DOMAIN fat' = 1 .. 2 /\ DOMAIN fat'[1] = Cluster /\ DOMAIN fat'[2] = Cluster
      /\ \A i \in 1 .. 2, d \in Cluster :
            fat'[i][d] = IF i = h.copy /\ d = h.c THEN h.v ELSE fat[i][d]
  BY <1>1, <1>4, <1>5
<1>7. CASE h.copy = 1
  <2>1. /\ IsSequence(u) /\ Paired(u) /\ HalfDone(u) /\ u[1] = t[2]
        /\ t[2].c = h.c /\ t[2].v = h.v
    <3>1. Twins(t[1], t[2]) /\ Len(t) > 1
      BY <1>4, <1>7
    <3>2. u \in Seq(S) /\ Len(u) = Len(t) - 1 /\ u[1] = t[2] /\ u # << >>
      <4>1. /\ Tail(t) \in Seq(S) /\ Len(Tail(t)) = Len(t) - 1
            /\ \A i \in 1 .. Len(Tail(t)) : Tail(t)[i] = t[i + 1]
        BY <1>1, <1>2, HeadTailProperties
      <4>2. 1 \in 1 .. Len(Tail(t))
        BY <1>3, <3>1, <4>1
      <4>3. Tail(t)[1] = t[1 + 1] /\ 1 + 1 = 2
        BY <4>1, <4>2
      <4>4. Tail(t) # << >>
        <5>1. PICK r : r = Tail(t)
          OBVIOUS
        <5>2. r \in Seq(S) /\ 1 \in 1 .. Len(r)
          BY <4>1, <4>2, <5>1
        <5>3. r # << >>
          BY <5>2
        <5>4. QED
          BY <5>1, <5>3
      <4>5. QED
        BY <1>1, <4>1, <4>3, <4>4
    <3>3. Paired(u)
      BY <1>1, <1>2, <3>1, AfterFirst
    <3>4. QED
      BY <3>1, <3>2, <3>3 DEF Twins, HalfDone, IsSequence, h
  <2>2. Ahead = {} /\ Ahead' = {h.c}
    BY <1>7, <2>1 DEF Ahead, HalfDone, t, h, u
  <2>3. Differ' \ {h.c} \subseteq Differ
    BY <1>6, <1>7 DEF Differ
  <2>4. Cardinality(Differ' \ Ahead') <= faults
    <3>1. Differ \subseteq Cluster /\ Differ \ {} = Differ
      BY DEF Differ
    <3>2. Cardinality(Differ) <= faults
      BY <2>2, <3>1 DEF CopyInv
    <3>3. /\ Cardinality(Differ' \ {h.c}) <= Cardinality(Differ)
          /\ Cardinality(Differ) \in Nat /\ Cardinality(Differ' \ {h.c}) \in Nat
      BY <2>3, <3>1, ClusterSets
    <3>4. QED
      BY <1>5, <2>2, <3>2, <3>3
  <2>5. h.c \in Cluster => fat'[1][h.c] = h.v
    BY <1>6, <1>7
  <2>6. QED
    BY <1>1, <1>5, <1>6, <2>1, <2>4, <2>5 DEF CopyInv, u
<1>8. CASE h.copy = 2
  <2>1. Whole(u)
    BY <1>1, <1>8, RestWhole DEF h
  <2>2. /\ Ahead = {h.c} /\ Ahead' = {}
        /\ h.c \in Cluster => fat[1][h.c] = h.v
    BY <1>1, <1>8, <2>1 DEF Ahead, HalfDone, Whole, CopyInv, t, h, u
  <2>3. Differ' \subseteq Differ \ {h.c}
    BY <1>6, <1>8, <2>2 DEF Differ
  <2>4. Cardinality(Differ' \ Ahead') <= faults
    <3>1. Differ \ {h.c} \subseteq Cluster /\ Differ' \ {} = Differ'
      BY DEF Differ
    <3>2. /\ Cardinality(Differ') <= Cardinality(Differ \ {h.c})
          /\ Cardinality(Differ') \in Nat /\ Cardinality(Differ \ {h.c}) \in Nat
      BY <2>3, <3>1, ClusterSets
    <3>3. Cardinality(Differ \ {h.c}) <= faults
      BY <2>2 DEF CopyInv
    <3>4. QED
      BY <1>5, <2>2, <3>1, <3>2, <3>3
  <2>5. QED
    BY <1>1, <1>5, <1>6, <2>1, <2>4 DEF CopyInv, Whole, u
<1>9. QED
  BY <1>4, <1>7, <1>8

\* A fault pays for the entry that is left half written.
LEMMA FaultPaid ==
    ASSUME CopyInv, UNCHANGED fat, faults' = faults + 1,
           "todo" \in DOMAIN op', Whole(op'.todo)
    PROVE  CopyInv'
<1>1. faults \in Nat
  BY DEF CopyInv
<1>2. Differ' = Differ /\ Ahead' = {} /\ Differ \subseteq Cluster
  BY DEF Differ, Ahead, Whole
<1>3. PICK c : Ahead \subseteq {c}
  BY DEF Ahead
<1>4. Cardinality(Differ) <= faults + 1
  <2>1. Cardinality(Differ) <= Cardinality(Differ \ {c}) + 1
    BY <1>2, OneMore
  <2>2. Differ \ {c} \subseteq Differ \ Ahead /\ Differ \ Ahead \subseteq Cluster
    BY <1>2, <1>3
  <2>3. /\ Cardinality(Differ \ {c}) <= Cardinality(Differ \ Ahead)
        /\ Cardinality(Differ \ {c}) \in Nat /\ Cardinality(Differ \ Ahead) \in Nat
    BY <2>2, ClusterSets
  <2>4. Cardinality(Differ) \in Nat
    BY <1>2, ClusterSets
  <2>5. Cardinality(Differ \ Ahead) <= faults
    BY DEF CopyInv
  <2>6. QED
    BY <1>1, <2>1, <2>3, <2>4, <2>5
<1>5. Cardinality(Differ' \ Ahead') <= faults'
  <2>1. Differ \ {} = Differ
    OBVIOUS
  <2>2. QED
    BY <1>1, <1>2, <1>4, <2>1
<1>6. QED
  BY <1>1, <1>5 DEF CopyInv, Whole

\* A write that fails costs a fault; if it is that of the first copy, the second
\* is not tried.
LEMMA FatFailsCopies ==
    ASSUME CopyInv, FatFails
    PROVE  CopyInv'
<1> DEFINE t == op.todo
           h == t[1]
           u == op'.todo
<1>1. /\ t # << >> /\ h.do = "fat" /\ IsSequence(t) /\ Paired(t)
      /\ UNCHANGED fat /\ faults' = faults + 1 /\ faults \in Nat
      /\ "todo" \in DOMAIN op'
      /\ u = IF h.copy = 1 THEN Tail(Tail(t)) ELSE Tail(t)
  BY FirstIsHead, ThenTodo DEF FatFails, Todo, CopyInv, Faults
<1>2. PICK S : t \in Seq(S)
  BY <1>1 DEF IsSequence
<1>3. Len(t) \in Nat \ {0}
  BY <1>1, <1>2
<1>4. /\ h.copy \in 1 .. 2
      /\ h.copy = 1 => Len(t) > 1 /\ Twins(t[1], t[2])
  BY <1>1, <1>3 DEF Paired
<1> HIDE DEF t, h, u
<1>5. Whole(u)
  <2>1. CASE h.copy = 1
    <3>1. Twins(t[1], t[2]) /\ Len(t) > 1
      BY <1>4, <2>1
    <3>2. PICK r : r = Tail(t)
      OBVIOUS
    <3>3. r \in Seq(S) /\ r # << >> /\ r[1] = t[2]
      BY <1>2, <1>3, <3>1, <3>2
    <3>4. Paired(r)
      BY <1>1, <1>2, <3>1, <3>2, AfterFirst
    <3>5. IsSequence(r) /\ ~ (r[1].do = "fat" /\ r[1].copy = 1)
      BY <3>1, <3>3 DEF IsSequence, Twins
    <3>6. QED
      BY <1>1, <2>1, <3>2, <3>3, <3>4, <3>5, RestWhole
  <2>2. CASE h.copy = 2
    BY <1>1, <2>2, RestWhole DEF h
  <2>3. QED
    BY <1>4, <2>1, <2>2
<1>6. QED
  BY <1>1, <1>5, FaultPaid DEF u

\* The power is lost: what was to do is forgotten.
LEMMA CrashCopies ==
    ASSUME CopyInv, Crash
    PROVE  CopyInv'
<1>1. UNCHANGED fat /\ faults' = faults + 1 /\ faults \in Nat /\ op' = Idle
  BY DEF Crash, Faults, CopyInv
<1>2. "todo" \in DOMAIN op' /\ op'.todo = << >>
  BY <1>1 DEF Idle
<1>3. QED
  BY <1>1, <1>2, NothingWhole, FaultPaid

\* The call in progress does something else than write the table.
LEMMA StepCopies ==
    ASSUME CopyInv, NEW do \in {"free", "seek", "dir"}, Todo(do), UNCHANGED fat,
           faults' \in Nat, faults <= faults',
           "todo" \in DOMAIN op',
           \/ op'.todo = << >>
           \/ op'.todo = Tail(op.todo)
           \/ \E c, d : op'.todo = WriteFat(c, FREE) \o FreeChain(d) \o Tail(op.todo)
           \/ \E c : op'.todo = WriteFat(c, FREE) \o Tail(op.todo)
           \/ \E c, n, d, k : op'.todo = Extend(c, n) \o Seek(d, k)
           \/ \E c, k : op'.todo = Seek(c, k)
           \/ \E c : op'.todo = FreeChain(c)
    PROVE  CopyInv'
<1>1. /\ op.todo # << >> /\ op.todo[1].do # "fat"
      /\ IsSequence(op.todo) /\ Paired(op.todo)
  BY FirstIsHead DEF Todo, CopyInv
<1>2. ~ HalfDone(op.todo) /\ Whole(Tail(op.todo))
  BY <1>1, RestWhole DEF HalfDone
<1>3. \A d, k : Whole(Seek(d, k)) /\ Whole(FreeChain(d))
  BY OneWhole DEF Seek, FreeChain
<1>4. Whole(op'.todo)
  <2>1. CASE op'.todo = << >>
    BY <2>1, NothingWhole
  <2>2. CASE op'.todo = Tail(op.todo)
    BY <1>2, <2>2
  <2>3. CASE \E c, d : op'.todo = WriteFat(c, FREE) \o FreeChain(d) \o Tail(op.todo)
    BY <1>2, <2>3, FreeWhole
  <2>4. CASE \E c : op'.todo = WriteFat(c, FREE) \o Tail(op.todo)
    BY <1>2, <2>4, WriteFatWhole
  <2>5. CASE \E c, n, d, k : op'.todo = Extend(c, n) \o Seek(d, k)
    BY <1>3, <2>5, ExtendWhole
  <2>6. CASE \E c, k : op'.todo = Seek(c, k)
    BY <1>3, <2>6
  <2>7. CASE \E c : op'.todo = FreeChain(c)
    BY <1>3, <2>7
  <2>8. QED
    BY <2>1, <2>2, <2>3, <2>4, <2>5, <2>6, <2>7
<1>5. QED
  BY <1>2, <1>4, TableKept

\* A call starts, or ends at once.
LEMMA CallCopies ==
    ASSUME CopyInv, op = Idle, UNCHANGED fat, faults' \in Nat, faults <= faults',
           \/ UNCHANGED op
           \/ \E kind, s, arg, t : Start(kind, s, arg, t) /\ Whole(t)
    PROVE  CopyInv'
<1>1. op.todo = << >> /\ "todo" \in DOMAIN op
  BY DEF Idle
<1>2. ~ HalfDone(op.todo)
  BY <1>1 DEF HalfDone
<1>3. "todo" \in DOMAIN op' /\ Whole(op'.todo)
  BY <1>1, NothingWhole, StartTodo
<1>4. QED
  BY <1>2, <1>3, TableKept

\* What the calls start with.
LEMMA CallsWhole ==
    \A c, d, v, k, e :
        /\ Whole(WriteFat(c, v) \o WriteEntry(e))
        /\ Whole(FreeChain(d)) /\ Whole(Seek(d, k)) /\ Whole(WriteEntry(e))
        /\ Whole(WriteFat(c, v) \o Seek(d, k))
        /\ Whole(FreeChain(d) \o WriteEntry(e))
<1> SUFFICES ASSUME NEW c, NEW d, NEW v, NEW k, NEW e
             PROVE  /\ Whole(WriteFat(c, v) \o WriteEntry(e))
                    /\ Whole(FreeChain(d)) /\ Whole(Seek(d, k)) /\ Whole(WriteEntry(e))
                    /\ Whole(WriteFat(c, v) \o Seek(d, k))
                    /\ Whole(FreeChain(d) \o WriteEntry(e))
  OBVIOUS
<1>1. Whole(FreeChain(d)) /\ Whole(Seek(d, k)) /\ Whole(WriteEntry(e))
  BY OneWhole DEF FreeChain, Seek, WriteEntry
<1>2. Whole(WriteFat(c, v) \o WriteEntry(e)) /\ Whole(WriteFat(c, v) \o Seek(d, k))
  BY <1>1, WriteFatWhole
<1>3. Whole(FreeChain(d) \o WriteEntry(e))
  BY <1>1, OneBefore DEF FreeChain
<1>4. QED
  BY <1>1, <1>2, <1>3

\* The calls.
LEMMA CallsCopies ==
    ASSUME CopyInv,
           \/ \E name, c : \E e \in 0 .. MaxFaults : OpenNew(name, c, e)
           \/ \E s, trunc : OpenExisting(s, trunc)
           \/ \E s, pos, c : \E e \in 0 .. MaxFaults : Write(s, pos, c, e)
           \/ \E s : Close(s) \/ Unlink(s)
    PROVE  CopyInv'
<1>1. faults \in Nat /\ MaxFaults \in Nat
  BY DiskAssumption DEF CopyInv
<1>2. ASSUME NEW e \in 0 .. MaxFaults, Faults(e) PROVE faults' \in Nat /\ faults <= faults'
  BY <1>1, <1>2 DEF Faults
<1>3. ASSUME NEW name, NEW c, NEW e \in 0 .. MaxFaults, OpenNew(name, c, e)
      PROVE  CopyInv'
  <2>1. op = Idle /\ UNCHANGED fat /\ Faults(e)
    BY <1>3 DEF OpenNew
  <2>2. \/ UNCHANGED op
        \/ \E kind, s, arg, t : Start(kind, s, arg, t) /\ Whole(t)
    BY <1>3, CallsWhole DEF OpenNew
  <2>3. QED
    BY <1>2, <2>1, <2>2, CallCopies
<1>4. ASSUME NEW s, NEW trunc, OpenExisting(s, trunc) PROVE CopyInv'
  <2>1. op = Idle /\ UNCHANGED <<fat, faults>>
    BY <1>4 DEF OpenExisting
  <2>2. \/ UNCHANGED op
        \/ \E kind, r, arg, t : Start(kind, r, arg, t) /\ Whole(t)
    BY <1>4, CallsWhole DEF OpenExisting
  <2>3. QED
    BY <1>1, <2>1, <2>2, CallCopies
<1>5. ASSUME NEW s, NEW pos, NEW c, NEW e \in 0 .. MaxFaults, Write(s, pos, c, e)
      PROVE  CopyInv'
  <2>1. op = Idle /\ UNCHANGED fat
    BY <1>5 DEF Write
  <2>2. faults' \in Nat /\ faults <= faults'
    <3>1. Faults(e) \/ UNCHANGED faults
      BY <1>5 DEF Write
    <3>2. QED
      BY <1>1, <1>2, <3>1
  <2>3. \/ UNCHANGED op
        \/ \E kind, r, arg, t : Start(kind, r, arg, t) /\ Whole(t)
    <3>1. \/ UNCHANGED op
          \/ Start("write", s, pos, Seek(c, pos))
          \/ Start("write", s, pos, WriteFat(c, EOC) \o Seek(c, pos))
      BY <1>5 DEF Write
    <3>2. QED
      BY <3>1, CallsWhole
  <2>4. QED
    BY <2>1, <2>2, <2>3, CallCopies
<1>6. ASSUME NEW s, Close(s) PROVE CopyInv'
  <2>1. op = Idle /\ UNCHANGED <<fat, faults>>
    BY <1>6 DEF Close
  <2>2. \E kind, r, arg, t : Start(kind, r, arg, t) /\ Whole(t)
    BY <1>6, CallsWhole DEF Close
  <2>3. QED
    BY <1>1, <2>1, <2>2, CallCopies
<1>7. ASSUME NEW s, Unlink(s) PROVE CopyInv'
  <2>1. op = Idle /\ UNCHANGED <<fat, faults>>
    BY <1>7 DEF Unlink
  <2>2. \E kind, r, arg, t : Start(kind, r, arg, t) /\ Whole(t)
    BY <1>7, CallsWhole DEF Unlink
  <2>3. QED
    BY <1>1, <2>1, <2>2, CallCopies
<1>8. QED
  BY <1>3, <1>4, <1>5, <1>6, <1>7

\* Every step.
LEMMA NextCopies == CopyInv /\ [Next]_vars => CopyInv'
<1> SUFFICES ASSUME CopyInv, [Next]_vars PROVE CopyInv'
  OBVIOUS
<1>1. faults \in Nat /\ MaxFaults \in Nat
  BY DiskAssumption DEF CopyInv
<1>2. ASSUME NEW e \in 0 .. MaxFaults, Faults(e) PROVE faults' \in Nat /\ faults <= faults'
  BY <1>1, <1>2 DEF Faults
<1>3. Faults(1) => faults' \in Nat /\ faults <= faults'
  BY <1>1 DEF Faults
<1>4. CASE FreeStep
  <2>1. Todo("free") /\ UNCHANGED fat
    BY <1>4 DEF FreeStep
  <2>2. faults' \in Nat /\ faults <= faults'
    <3>1. Faults(1) \/ UNCHANGED faults
      BY <1>4 DEF FreeStep
    <3>2. QED
      BY <1>1, <1>3, <3>1
  <2>3. PICK t : /\ Then(t)
                /\ \/ t = Tail(op.todo)
                   \/ \E c, d : t = WriteFat(c, FREE) \o FreeChain(d) \o Tail(op.todo)
                   \/ \E c : t = WriteFat(c, FREE) \o Tail(op.todo)
    BY <1>4 DEF FreeStep
  <2>4. "todo" \in DOMAIN op' /\ op'.todo = t
    BY <2>3, ThenTodo
  <2>5. QED
    BY <2>1, <2>2, <2>3, <2>4, StepCopies
<1>5. ASSUME NEW n, NEW e \in 0 .. MaxFaults, SeekStep(n, e) PROVE CopyInv'
  <2>1. Todo("seek") /\ UNCHANGED fat
    BY <1>5 DEF SeekStep
  <2>2. faults' \in Nat /\ faults <= faults'
    <3>1. Faults(e) \/ Faults(1) \/ UNCHANGED faults
      BY <1>5 DEF SeekStep
    <3>2. QED
      BY <1>1, <1>2, <1>3, <3>1
  <2>3. PICK t : /\ Then(t)
                /\ \/ t = << >>
                   \/ \E c, d, k : t = Extend(c, n) \o Seek(d, k)
                   \/ \E c, k : t = Seek(c, k)
    BY <1>5 DEF SeekStep
  <2>4. "todo" \in DOMAIN op' /\ op'.todo = t
    BY <2>3, ThenTodo
  <2>5. QED
    BY <2>1, <2>2, <2>3, <2>4, StepCopies
<1>6. CASE DataWrite
  <2>1. Todo("seek") /\ UNCHANGED fat /\ Then(<< >>) /\ (Faults(1) \/ UNCHANGED faults)
    BY <1>6 DEF DataWrite
  <2>2. "todo" \in DOMAIN op' /\ op'.todo = << >>
    BY <2>1, ThenTodo
  <2>3. faults' \in Nat /\ faults <= faults'
    BY <1>1, <1>3, <2>1
  <2>4. QED
    BY <2>1, <2>2, <2>3, StepCopies
<1>7. CASE EntryWrite
  <2>1. Todo("dir") /\ UNCHANGED <<fat, faults>> /\ Then(Tail(op.todo))
    BY <1>7 DEF EntryWrite
  <2>2. "todo" \in DOMAIN op' /\ op'.todo = Tail(op.todo)
    BY <2>1, ThenTodo
  <2>3. faults' \in Nat /\ faults <= faults'
    BY <1>1, <2>1
  <2>4. QED
    BY <2>1, <2>2, <2>3, StepCopies
<1>8. CASE EntryFails
  <2>1. Todo("dir") /\ UNCHANGED fat /\ Faults(1)
    BY <1>8 DEF EntryFails
  <2>2. /\ "todo" \in DOMAIN op'
        /\ op'.todo = << >> \/ \E c : op'.todo = FreeChain(c)
    <3>1. CASE op.kind = "create"
      <4>1. op' = [op EXCEPT !.kind = "failed", !.todo = FreeChain(op.arg)]
        BY <1>8, <3>1 DEF EntryFails
      <4>2. QED
        BY <4>1 DEF CopyInv
    <3>2. CASE op.kind # "create"
      BY <1>8, <3>2, ThenTodo DEF EntryFails
    <3>3. QED
      BY <3>1, <3>2
  <2>3. QED
    BY <1>3, <2>1, <2>2, StepCopies
<1>9. CASE Return
  <2>1. UNCHANGED <<fat, faults>> /\ op' = Idle /\ op.todo = << >>
    BY <1>9 DEF Return
  <2>2. "todo" \in DOMAIN op' /\ Whole(op'.todo) /\ ~ HalfDone(op.todo)
    BY <2>1, NothingWhole DEF Idle, HalfDone
  <2>3. QED
    BY <1>1, <2>1, <2>2, TableKept
<1>10. CASE UNCHANGED vars
  BY <1>10 DEF vars, CopyInv, Differ, Ahead
<1>11. QED
  BY <1>4, <1>5, <1>6, <1>7, <1>8, <1>9, <1>10, CallsCopies, FatWriteCopies,
     FatFailsCopies, CrashCopies DEF Next

\* The copies of the table, which fat32_write_fat writes one after the other and
\* whose results its callers ignore, differ in at most one entry for every access
\* that failed and every loss of power, and one more while a call is at work.
THEOREM CopiesStayClose == Spec => []CopiesAgree
<1>1. Init => CopyInv
  <2> SUFFICES ASSUME Init PROVE CopyInv
    OBVIOUS
  <2>1. op.todo = << >> /\ "todo" \in DOMAIN op /\ faults = 0
    BY DEF Init, Idle
  <2>2. DOMAIN fat = 1 .. 2 /\ DOMAIN fat[1] = Cluster /\ DOMAIN fat[2] = Cluster
    BY DEF Init
  <2>3. Differ \ Ahead = {}
    BY DEF Init, Differ
  <2>4. Cardinality(Differ \ Ahead) = 0
    BY <2>3, FS_EmptySet
  <2>5. Whole(op.todo)
    BY <2>1, NothingWhole
  <2>6. QED
    BY <2>1, <2>2, <2>4, <2>5 DEF CopyInv, Whole
<1>2. CopyInv => CopiesAgree
  <2> SUFFICES ASSUME CopyInv PROVE CopiesAgree
    OBVIOUS
  <2>1. Differ \subseteq Cluster /\ faults \in Nat /\ Cardinality(Differ) \in Nat
    BY ClusterSets DEF Differ, CopyInv
  <2>2. CASE HalfDone(op.todo)
    <3>1. PICK c : Ahead = {c}
      BY <2>2 DEF Ahead
    <3>2. op # Idle
      BY <2>2 DEF HalfDone, Idle
    <3>3. /\ Cardinality(Differ) <= Cardinality(Differ \ {c}) + 1
          /\ Cardinality(Differ \ {c}) \in Nat /\ Cardinality(Differ \ {c}) <= faults
      BY <2>1, <3>1, OneMore, ClusterSets DEF CopyInv
    <3>4. Cardinality(Differ) <= faults + 1
      BY <2>1, <3>3
    <3>5. QED
      BY <3>2, <3>4 DEF CopiesAgree, Differ
  <2>3. CASE ~ HalfDone(op.todo)
    <3>1. Differ \ Ahead = Differ
      BY <2>3 DEF Ahead
    <3>2. Cardinality(Differ) <= faults
      BY <3>1 DEF CopyInv
    <3>3. Cardinality(Differ) <= faults + IF op = Idle THEN 0 ELSE 1
      BY <2>1, <3>2
    <3>4. QED
      BY <3>3 DEF CopiesAgree, Differ
  <2>4. QED
    BY <2>2, <2>3
<1>3. QED
  BY <1>1, <1>2, NextCopies, PTL DEF Spec

-----------------------------------------------------------------------------
(***************************************************************************)
(* Chains.  A chain is the least set that has its first cluster and with   *)
(* every cluster the next.                                                 *)
(***************************************************************************)

Value == Cluster \cup {FREE, EOC}
First == Cluster \cup {FREE}
Table == [Cluster -> Value]

LEMMA Marks == FREE \notin Cluster /\ EOC \notin Cluster /\ FREE # EOC
BY DiskAssumption DEF FREE, EOC

LEMMA ChainClosed ==
    ASSUME NEW t, NEW c
    PROVE  /\ Chain(t, c) \subseteq Cluster
           /\ LinkClosed(t, Chain(t, c))
           /\ c \in Cluster => c \in Chain(t, c)
           /\ c \notin Cluster => Chain(t, c) = {}
<1>1. LinkClosed(t, Chain(t, c))
  <2> SUFFICES ASSUME NEW d \in Chain(t, c), t[d] \in Cluster, NEW S \in SUBSET Cluster,
                      LinkClosed(t, S), c \in Cluster => c \in S
               PROVE  t[d] \in S
    BY DEF Chain, LinkClosed
  <2>1. d \in S
    BY DEF Chain
  <2>2. QED
    BY <2>1 DEF LinkClosed
<1>2. c \notin Cluster => Chain(t, c) = {}
  <2>1. {} \in SUBSET Cluster /\ LinkClosed(t, {})
    BY DEF LinkClosed
  <2>2. QED
    BY <2>1 DEF Chain
<1>3. QED
  BY <1>1, <1>2 DEF Chain

LEMMA ChainLeast ==
    ASSUME NEW t, NEW c, NEW S, S \subseteq Cluster, LinkClosed(t, S), c \in Cluster => c \in S
    PROVE  Chain(t, c) \subseteq S
BY DEF Chain

LEMMA ChainWithin ==
    ASSUME NEW t, NEW c, NEW d \in Chain(t, c)
    PROVE  Chain(t, d) \subseteq Chain(t, c)
BY ChainClosed, ChainLeast

\* A cluster and the chain behind it.
LEMMA ChainStep ==
    ASSUME NEW t, NEW c \in Cluster
    PROVE  Chain(t, c) = {c} \cup Chain(t, t[c])
<1> DEFINE S == {c} \cup Chain(t, t[c])
<1>1. LinkClosed(t, Chain(t, t[c])) /\ (t[c] \in Cluster => t[c] \in Chain(t, t[c]))
  BY ChainClosed
<1>2. S \subseteq Cluster /\ LinkClosed(t, S) /\ c \in S
  <2>1. LinkClosed(t, S)
    BY <1>1 DEF LinkClosed
  <2>2. QED
    BY <2>1, ChainClosed
<1>3. Chain(t, c) \subseteq S
  <2> HIDE DEF S
  <2>1. QED
    BY <1>2, ChainLeast
<1>4. c \in Chain(t, c)
  BY ChainClosed
<1>5. Chain(t, t[c]) \subseteq Chain(t, c)
  <2>1. CASE t[c] \in Cluster
    <3>1. t[c] \in Chain(t, c)
      BY <1>4, <2>1, ChainClosed DEF LinkClosed
    <3>2. QED
      BY <3>1, ChainWithin
  <2>2. CASE t[c] \notin Cluster
    BY <2>2, ChainClosed
  <2>3. QED
    BY <2>1, <2>2
<1>6. QED
  BY <1>3, <1>4, <1>5

LEMMA ChainEnd ==
    ASSUME NEW t, NEW c \in Cluster, t[c] \notin Cluster
    PROVE  Chain(t, c) = {c}
BY ChainStep, ChainClosed

\* A table that agrees on the chain has the same.
LEMMA ChainSame ==
    ASSUME NEW t, NEW u, NEW c, \A x \in Chain(t, c) : u[x] = t[x]
    PROVE  Chain(u, c) = Chain(t, c)
<1>1. LinkClosed(t, Chain(t, c)) /\ LinkClosed(u, Chain(u, c))
  BY ChainClosed
<1>2. Chain(u, c) \subseteq Chain(t, c)
  <2>1. LinkClosed(u, Chain(t, c))
    BY <1>1 DEF LinkClosed
  <2>2. QED
    BY <2>1, ChainClosed, ChainLeast
<1>3. Chain(t, c) \subseteq Chain(u, c) \cap Chain(t, c)
  <2>1. LinkClosed(t, Chain(u, c) \cap Chain(t, c))
    BY <1>1 DEF LinkClosed
  <2>2. QED
    BY <2>1, ChainClosed, ChainLeast
<1>4. QED
  BY <1>2, <1>3

\* An end mark in a chain is behind each of its clusters.
LEMMA EndBehind ==
    ASSUME NEW t, NEW c, NEW e \in Chain(t, c), t[e] = EOC, NEW d \in Chain(t, c)
    PROVE  e \in Chain(t, d)
<1> DEFINE S == {x \in Chain(t, c) : e \in Chain(t, x)}
<1>1. S \subseteq Cluster /\ (c \in Cluster => c \in S)
  BY ChainClosed
<1>2. ASSUME NEW x \in S, t[x] \in Cluster PROVE t[x] \in S
  <2>1. x \in Cluster /\ x # e
    BY <1>1, <1>2, Marks
  <2>2. e \in Chain(t, t[x])
    BY <1>2, <2>1, ChainStep
  <2>3. t[x] \in Chain(t, c)
    BY <1>2, ChainClosed DEF LinkClosed
  <2>4. QED
    BY <2>2, <2>3
<1>3. LinkClosed(t, S)
  BY <1>2 DEF LinkClosed
<1>4. Chain(t, c) \subseteq S
  <2> HIDE DEF S
  <2>1. QED
    BY <1>1, <1>3, ChainLeast
<1>5. QED
  BY <1>4

\* There is one, and no free cluster.
LEMMA OneEnd ==
    ASSUME NEW t, NEW c, NEW e \in Chain(t, c), t[e] = EOC, NEW d \in Chain(t, c), t[d] \notin Cluster
    PROVE  d = e
<1>1. e \in Chain(t, d) /\ d \in Cluster
  BY EndBehind, ChainClosed
<1>2. QED
  BY <1>1, ChainEnd

\* No cluster is behind itself.
LEMMA NotBack ==
    ASSUME NEW t, NEW c \in Cluster, t[c] \in Cluster, NEW e \in Chain(t, c), t[e] = EOC
    PROVE  c \notin Chain(t, t[c])
<1> SUFFICES ASSUME c \in Chain(t, t[c]) PROVE FALSE
  OBVIOUS
<1> DEFINE S == {x \in Chain(t, c) : c \in Chain(t, x)}
<1>1. S \subseteq Cluster /\ c \in S
  BY ChainClosed
<1>2. ASSUME NEW x \in S, t[x] \in Cluster PROVE t[x] \in S
  <2>1. t[x] \in Chain(t, c) /\ x \in Cluster
    BY <1>2, ChainClosed DEF LinkClosed
  <2>2. c \in Chain(t, t[x])
    BY <1>2, <2>1, ChainStep
  <2>3. QED
    BY <2>1, <2>2
<1>3. LinkClosed(t, S)
  BY <1>2 DEF LinkClosed
<1>4. Chain(t, c) \subseteq S
  <2> HIDE DEF S
  <2>1. QED
    BY <1>1, <1>3, ChainLeast
<1>5. c \in Chain(t, e) /\ e \in Cluster
  BY <1>4, ChainClosed
<1>6. c = e
  BY <1>5, ChainEnd, Marks
<1>7. QED
  BY <1>6, Marks

\* The chain after its last cluster is linked to another one.
LEMMA ChainGrows ==
    ASSUME NEW t \in Table, NEW h, NEW e \in Chain(t, h), t[e] = EOC,
           NEW n \in Cluster, n \notin Chain(t, h), t[n] = EOC,
           NEW u, u = [t EXCEPT ![e] = n]
    PROVE  Chain(u, h) = Chain(t, h) \cup {n} /\ u[n] = EOC
<1>1. /\ e \in Cluster /\ n # e /\ u[e] = n /\ u[n] = EOC
      /\ \A x \in Chain(t, h) : x # e => u[x] = t[x]
  BY ChainClosed DEF Table
<1>2. Chain(u, h) \subseteq Chain(t, h) \cup {n}
  <2>1. LinkClosed(u, Chain(t, h) \cup {n})
    BY <1>1, ChainClosed, Marks DEF LinkClosed
  <2>2. QED
    BY <2>1, ChainClosed, ChainLeast
<1>3. Chain(t, h) \subseteq Chain(u, h) \cap Chain(t, h)
  <2>1. LinkClosed(t, Chain(u, h) \cap Chain(t, h))
    <3>1. ASSUME NEW x \in Chain(u, h) \cap Chain(t, h), t[x] \in Cluster
          PROVE  t[x] \in Chain(u, h) \cap Chain(t, h)
      <4>1. u[x] = t[x]
        BY <1>1, <3>1, Marks
      <4>2. QED
        BY <3>1, <4>1, ChainClosed DEF LinkClosed
    <3>2. QED
      BY <3>1 DEF LinkClosed
  <2>2. QED
    BY <2>1, ChainClosed, ChainLeast
<1>4. n \in Chain(u, h)
  <2>1. e \in Chain(u, h) /\ u[e] \in Cluster
    BY <1>1, <1>3
  <2>2. LinkClosed(u, Chain(u, h))
    BY ChainClosed
  <2>3. QED
    BY <1>1, <2>1, <2>2 DEF LinkClosed
<1>5. QED
  BY <1>1, <1>2, <1>3, <1>4

\* The length of a chain.
LEMMA ChainSize ==
    ASSUME NEW t, NEW c
    PROVE  /\ IsFiniteSet(Chain(t, c)) /\ Cardinality(Chain(t, c)) \in Nat
           /\ c \in Cluster => Cardinality(Chain(t, c)) >= 1
           /\ c \notin Cluster => Cardinality(Chain(t, c)) = 0
<1>1. IsFiniteSet(Chain(t, c)) /\ Cardinality(Chain(t, c)) \in Nat
  BY ChainClosed, ClusterSets
<1>2. c \in Cluster => Cardinality(Chain(t, c)) >= 1
  <2>1. c \in Cluster => Chain(t, c) # {}
    BY ChainClosed
  <2>2. Cardinality(Chain(t, c)) = 0 <=> Chain(t, c) = {}
    BY <1>1, FS_EmptySet
  <2>3. QED
    BY <1>1, <2>1, <2>2
<1>3. c \notin Cluster => Cardinality(Chain(t, c)) = 0
  BY ChainClosed, FS_EmptySet
<1>4. QED
  BY <1>1, <1>2, <1>3

LEMMA OneLonger ==
    ASSUME NEW A, A \subseteq Cluster, NEW n, n \notin A
    PROVE  Cardinality(A \cup {n}) = Cardinality(A) + 1
BY ClusterSets, FS_AddElement

\* Behind the first cluster the chain is one shorter.
LEMMA OneShorter ==
    ASSUME NEW t, NEW c \in Cluster, t[c] \in Cluster, NEW e \in Chain(t, c), t[e] = EOC
    PROVE  Cardinality(Chain(t, c)) = Cardinality(Chain(t, t[c])) + 1
<1>1. c \notin Chain(t, t[c]) /\ Chain(t, c) = Chain(t, t[c]) \cup {c}
  BY NotBack, ChainStep
<1>2. QED
  BY <1>1, OneLonger, ChainClosed

-----------------------------------------------------------------------------
(***************************************************************************)
(* The files that are sure, and the area of the call in progress.          *)
(***************************************************************************)

\* The table t has a chain from h to an end mark, of z clusters or more.
Has(t, h, z) ==
    /\ h \in Cluster => \E e \in Chain(t, h) : t[e] = EOC
    /\ z <= Cardinality(Chain(t, h))

\* The file at s, as the directory d and the descriptors f have it.
Hold(d, f, s) == IF f[s].open THEN f[s] ELSE d[s]

\* The entry has no clusters, or those of its open descriptor.
Entered(d, f, s) ==
    \/ d[s].first = FREE /\ d[s].size = 0
    \/ d[s].first = f[s].first /\ d[s].size <= f[s].size

\* So it is with every open file that O_TRUNC has not cut.
Near(d, f, s) == f[s].open /\ ~ f[s].cut => Entered(d, f, s)

Intact(t, d, f, s) == Has(t, Hold(d, f, s).first, Hold(d, f, s).size) /\ Near(d, f, s)

ChainOf(t, d, f, s) == Chain(t, Hold(d, f, s).first)

FilesOK(t, d, f, K) ==
    \A s \in K : /\ Intact(t, d, f, s)
                 /\ \A r \in K \ {s} : ChainOf(t, d, f, s) \cap ChainOf(t, d, f, r) = {}

\* The clusters that the call may touch: closed under links, and in no file that has
\* to stay as it is.
Area(t, d, f, K, Z) ==
    /\ Z \subseteq Cluster /\ LinkClosed(t, Z)
    /\ \A s \in K : Z \cap ChainOf(t, d, f, s) = {}

\* A table that agrees on the chain.
LEMMA HasSame ==
    ASSUME NEW t, NEW u, NEW h, NEW z, Has(t, h, z), \A x \in Chain(t, h) : u[x] = t[x]
    PROVE  Has(u, h, z) /\ Chain(u, h) = Chain(t, h)
<1>1. Chain(u, h) = Chain(t, h)
  BY ChainSame
<1>2. QED
  BY <1>1 DEF Has

\* The clusters of such a chain are in use.
LEMMA HasUsed ==
    ASSUME NEW t, NEW h, NEW z, Has(t, h, z), NEW x \in Chain(t, h)
    PROVE  t[x] # FREE
<1>1. h \in Cluster
  BY ChainClosed
<1>2. PICK e \in Chain(t, h) : t[e] = EOC
  BY <1>1 DEF Has
<1>3. ASSUME t[x] = FREE PROVE FALSE
  <2>1. x = e
    BY <1>2, <1>3, Marks, OneEnd
  <2>2. QED
    BY <1>2, <1>3, <2>1, Marks
<1>4. QED
  BY <1>3

\* No file at all.
LEMMA HasNone == \A t : Has(t, FREE, 0) /\ Chain(t, FREE) = {}
BY Marks, ChainClosed, ChainSize DEF Has

\* The files of J have the entries and descriptors that they had and their chains are
\* as they were.
Kept(t, u, d, f, g, k, J) ==
    \A s \in J : /\ g[s] = d[s] /\ k[s] = f[s]
                 /\ \A x \in ChainOf(t, d, f, s) : u[x] = t[x]

LEMMA FilesKept ==
    ASSUME NEW t, NEW u, NEW d, NEW f, NEW g, NEW k, NEW K, NEW J,
           FilesOK(t, d, f, K), J \subseteq K, Kept(t, u, d, f, g, k, J)
    PROVE  /\ FilesOK(u, g, k, J)
           /\ \A s \in J : ChainOf(u, g, k, s) = ChainOf(t, d, f, s)
<1> USE DEF Kept
<1>1. ASSUME NEW s \in J
      PROVE  /\ Hold(g, k, s) = Hold(d, f, s) /\ (Near(g, k, s) <=> Near(d, f, s))
             /\ Intact(t, d, f, s)
  BY DEF Hold, Near, Entered, FilesOK
<1>2. ASSUME NEW s \in J PROVE Intact(u, g, k, s) /\ ChainOf(u, g, k, s) = ChainOf(t, d, f, s)
  <2>1. PICK h, z : h = Hold(d, f, s).first /\ z = Hold(d, f, s).size
    OBVIOUS
  <2>2. Has(t, h, z) /\ \A x \in Chain(t, h) : u[x] = t[x]
    BY <1>1, <2>1 DEF Intact, ChainOf
  <2>3. Has(u, h, z) /\ Chain(u, h) = Chain(t, h)
    BY <2>2, HasSame
  <2>4. QED
    BY <1>1, <2>1, <2>3 DEF Intact, ChainOf
<1>3. QED
  BY <1>2 DEF FilesOK

\* One more file, apart from the others.
LEMMA FilesAdd ==
    ASSUME NEW t, NEW d, NEW f, NEW K, NEW s, FilesOK(t, d, f, K), Intact(t, d, f, s),
           \A r \in K : ChainOf(t, d, f, s) \cap ChainOf(t, d, f, r) = {}
    PROVE  FilesOK(t, d, f, K \cup {s})
BY DEF FilesOK

\* The call writes an entry of its area.
LEMMA AreaWrite ==
    ASSUME NEW t \in Table, NEW d, NEW f, NEW K, NEW Z, FilesOK(t, d, f, K), Area(t, d, f, K, Z),
           NEW c \in Z, NEW v \in Z \cup (Value \ Cluster)
    PROVE  LET u == [t EXCEPT ![c] = v]
           IN  u \in Table /\ FilesOK(u, d, f, K) /\ Area(u, d, f, K, Z)
<1>1. PICK u : u = [t EXCEPT ![c] = v]
  OBVIOUS
<1>2. u \in Table /\ u[c] = v /\ \A x \in Cluster : x # c => u[x] = t[x]
  BY <1>1 DEF Table, Area, Value
<1>3. \A s \in K : \A x \in ChainOf(t, d, f, s) : u[x] = t[x]
  BY <1>2, ChainClosed DEF Area, ChainOf
<1>4. /\ FilesOK(u, d, f, K)
      /\ \A s \in K : ChainOf(u, d, f, s) = ChainOf(t, d, f, s)
  <2>1. Kept(t, u, d, f, d, f, K)
    BY <1>3 DEF Kept
  <2>2. QED
    BY <2>1, FilesKept
<1>5. LinkClosed(u, Z)
  BY <1>2 DEF Area, LinkClosed
<1>6. QED
  BY <1>1, <1>2, <1>4, <1>5 DEF Area

\* A free cluster comes to the area.
LEMMA AreaGrows ==
    ASSUME NEW t, NEW d, NEW f, NEW K, NEW Z, FilesOK(t, d, f, K), Area(t, d, f, K, Z),
           NEW n \in Cluster, t[n] = FREE
    PROVE  Area(t, d, f, K, Z \cup {n})
<1>1. \A s \in K : n \notin ChainOf(t, d, f, s)
  BY HasUsed DEF FilesOK, Intact, ChainOf
<1>2. LinkClosed(t, Z \cup {n})
  BY Marks DEF Area, LinkClosed
<1>3. QED
  BY <1>1, <1>2 DEF Area

\* Fewer files, and other entries and descriptors for the rest.
LEMMA AreaKept ==
    ASSUME NEW t, NEW d, NEW f, NEW g, NEW k, NEW K, NEW J, NEW Z, Area(t, d, f, K, Z), J \subseteq K,
           \A s \in J : g[s] = d[s] /\ k[s] = f[s]
    PROVE  Area(t, g, k, J, Z)
BY DEF Area, ChainOf, Hold

\* No area, and that of a chain.
LEMMA AreaOfChain ==
    ASSUME NEW t, NEW d, NEW f, NEW K, NEW c,
           \A s \in K : Chain(t, c) \cap ChainOf(t, d, f, s) = {}
    PROVE  Area(t, d, f, K, Chain(t, c))
BY ChainClosed DEF Area

LEMMA AreaNone == \A t, d, f, K : Area(t, d, f, K, {})
BY DEF Area, LinkClosed

-----------------------------------------------------------------------------
(***************************************************************************)
(* Lists of accesses.                                                      *)
(***************************************************************************)

\* What is left to do, but for a second copy that is still to be written.
Pending(t) == IF t # << >> /\ Head(t).do = "fat" /\ Head(t).copy = 2 THEN Tail(t) ELSE t

W(i, c, v) == [do |-> "fat", copy |-> i, c |-> c, v |-> v]

\* The list u consists of x and then r.
Starts(u, x, r) == IsSequence(u) /\ u # << >> /\ Head(u) = x /\ Tail(u) = r

\* A list that begins with x and goes on with r.
LEMMA OneFirst ==
    ASSUME NEW x, NEW r, IsSequence(r)
    PROVE  /\ IsSequence(<<x>> \o r) /\ <<x>> \o r # << >>
           /\ Head(<<x>> \o r) = x /\ Tail(<<x>> \o r) = r
<1>1. PICK S : r \in Seq(S)
  BY DEF IsSequence
<1>2. PICK R : R = S \cup {x}
  OBVIOUS
<1>3. r \in Seq(R) /\ x \in R
  BY <1>1, <1>2
<1>4. PICK w \in Seq(R) : w = <<x>>
  <2>1. <<x>> \in Seq(R)
    BY <1>3
  <2>2. QED
    BY <2>1
<1>5. PICK u : u = w \o r
  OBVIOUS
<1>6. Len(w) = 1 /\ w[1] = x /\ Len(r) \in Nat
  BY <1>1, <1>4
<1>7. /\ u \in Seq(R) /\ Len(u) = Len(r) + 1 /\ u[1] = x
      /\ \A k \in 1 .. Len(r) : u[k + 1] = r[k]
  <2>1. /\ u \in Seq(R) /\ Len(u) = Len(w) + Len(r)
        /\ \A i \in 1 .. Len(w) + Len(r) :
              u[i] = IF i <= Len(w) THEN w[i] ELSE r[i - Len(w)]
    BY <1>3, <1>5, <1>6, ConcatProperties, Zenon
  <2>2. ASSUME NEW k \in 1 .. Len(r) PROVE u[k + 1] = r[k]
    <3>1. k + 1 \in 1 .. Len(w) + Len(r) /\ ~ (k + 1 <= Len(w)) /\ (k + 1) - Len(w) = k
      BY <1>6
    <3>2. QED
      BY <2>1, <3>1
  <2>3. QED
    BY <1>6, <2>1, <2>2
<1>8. u # << >> /\ Head(u) = x
  BY <1>6, <1>7
<1>9. Tail(u) = r
  <2>1. /\ Tail(u) \in Seq(R) /\ Len(Tail(u)) = Len(r)
        /\ \A k \in 1 .. Len(r) : Tail(u)[k] = u[k + 1]
    BY <1>6, <1>7, <1>8
  <2>2. QED
    BY <1>3, <1>7, <2>1, SeqEqual
<1>10. QED
  BY <1>4, <1>5, <1>7, <1>8, <1>9 DEF IsSequence

\* A list that begins with the writes of both copies.
LEMMA WriteFirst ==
    ASSUME NEW c, NEW v, NEW r, IsSequence(r)
    PROVE  \E s : /\ Starts(WriteFat(c, v) \o r, W(1, c, v), s)
                  /\ Starts(s, W(2, c, v), r)
<1>1. WriteFat(c, v) = <<W(1, c, v), W(2, c, v)>>
  BY DEF WriteFat, W
<1>2. PICK x, y : x = W(1, c, v) /\ y = W(2, c, v)
  OBVIOUS
<1>3. <<x, y>> = <<x>> \o <<y>>
  <2>1. <<x, y>> \in Seq({x, y}) /\ <<x>> \in Seq({x, y}) /\ <<y>> \in Seq({x, y})
    OBVIOUS
  <2>2. PICK w, a, b \in Seq({x, y}) : w = <<x, y>> /\ a = <<x>> /\ b = <<y>>
    BY <2>1
  <2>3. /\ a \o b \in Seq({x, y}) /\ Len(a \o b) = 2 /\ (a \o b)[1] = x /\ (a \o b)[2] = y
        /\ Len(w) = 2 /\ w[1] = x /\ w[2] = y
    BY <2>2
  <2>4. w = a \o b
    BY <2>3, SeqEqual
  <2>5. QED
    BY <2>2, <2>4
<1>4. IsSequence(<<x>>) /\ IsSequence(<<y>>)
  <2>1. <<x>> \in Seq({x}) /\ <<y>> \in Seq({y})
    OBVIOUS
  <2>2. QED
    BY <2>1 DEF IsSequence
<1>5. <<x, y>> \o r = <<x>> \o (<<y>> \o r)
  BY <1>3, <1>4, Associative
<1>6. IsSequence(<<y>> \o r) /\ <<y>> \o r # << >> /\ Head(<<y>> \o r) = y /\ Tail(<<y>> \o r) = r
  BY OneFirst
<1>7. PICK s : s = <<y>> \o r
  OBVIOUS
<1>8. IsSequence(<<x>> \o s) /\ <<x>> \o s # << >> /\ Head(<<x>> \o s) = x /\ Tail(<<x>> \o s) = s
  BY <1>6, <1>7, OneFirst
<1>9. WriteFat(c, v) \o r = <<x>> \o s
  BY <1>1, <1>2, <1>5, <1>7
<1>10. QED
  BY <1>2, <1>6, <1>7, <1>8, <1>9 DEF Starts

LEMMA OneAlone ==
    ASSUME NEW x
    PROVE  Starts(<<x>>, x, << >>) /\ <<x>> \o << >> = <<x>>
<1>1. <<x>> \in Seq({x})
  OBVIOUS
<1>2. PICK w \in Seq({x}) : w = <<x>>
  BY <1>1
<1>3. Len(w) = 1 /\ w[1] = x
  BY <1>2
<1>4. w # << >> /\ Head(w) = x
  BY <1>3
<1>5. Tail(w) \in Seq({x}) /\ Len(Tail(w)) = 0
  BY <1>3, <1>4
<1>6. Tail(w) = << >>
  BY <1>5, EmptySeq
<1>7. w \o << >> = w
  BY ConcatEmptySeq
<1>8. QED
  BY <1>2, <1>4, <1>6, <1>7 DEF Starts, IsSequence

\* The lists of accesses that the calls consist of.
LEMMA Lists ==
    /\ IsSequence(<< >>)
    /\ \A c, k : Starts(Seek(c, k), [do |-> "seek", c |-> c, k |-> k], << >>)
    /\ \A e : Starts(WriteEntry(e), [do |-> "dir", e |-> e], << >>)
    /\ \A c : FreeChain(c) \o << >> = FreeChain(c)
    /\ \A c, r : IsSequence(r) => Starts(FreeChain(c) \o r, [do |-> "free", c |-> c], r)
    /\ \A c, v, r : IsSequence(r) =>
          /\ IsSequence(WriteFat(c, v) \o r)
          /\ \E s : /\ Starts(WriteFat(c, v) \o r, W(1, c, v), s)
                    /\ Starts(s, W(2, c, v), r)
<1>1. IsSequence(<< >>)
  BY NothingWhole DEF Whole
<1>2. ASSUME NEW c, NEW k PROVE Starts(Seek(c, k), [do |-> "seek", c |-> c, k |-> k], << >>)
  BY OneAlone DEF Seek
<1>3. ASSUME NEW e PROVE Starts(WriteEntry(e), [do |-> "dir", e |-> e], << >>)
  BY OneAlone DEF WriteEntry
<1>4. ASSUME NEW c PROVE FreeChain(c) \o << >> = FreeChain(c)
  BY OneAlone DEF FreeChain
<1>5. ASSUME NEW c, NEW r, IsSequence(r)
      PROVE  Starts(FreeChain(c) \o r, [do |-> "free", c |-> c], r)
  BY <1>5, OneFirst DEF FreeChain, Starts
<1>6. ASSUME NEW c, NEW v, NEW r, IsSequence(r)
      PROVE  /\ IsSequence(WriteFat(c, v) \o r)
             /\ \E s : /\ Starts(WriteFat(c, v) \o r, W(1, c, v), s)
                       /\ Starts(s, W(2, c, v), r)
  <2>1. \E s : /\ Starts(WriteFat(c, v) \o r, W(1, c, v), s)
               /\ Starts(s, W(2, c, v), r)
    BY <1>6, WriteFirst
  <2>2. QED
    BY <2>1 DEF Starts
<1>7. QED
  BY <1>1, <1>2, <1>3, <1>4, <1>5, <1>6

-----------------------------------------------------------------------------
(***************************************************************************)
(* The invariant.                                                          *)
(***************************************************************************)

Types ==
    /\ DOMAIN fat = 1 .. 2 /\ fat[1] \in Table
    /\ dir \in [Slot -> [live : BOOLEAN, name : Names \cup {0}, first : First, size : Nat]]
    /\ file \in [Slot -> [open : BOOLEAN, first : First, size : Nat, cut : BOOLEAN]]
    /\ \A s \in Slot : file[s].open => dir[s].live
    /\ DOMAIN op = {"kind", "slot", "arg", "todo"}
    /\ suspect \subseteq Slot

\* The files that no fault may have damaged and no call is at work on.
Sure == Live \ (suspect \cup IF op = Idle THEN {} ELSE {op.slot})

\* fat32_free_cluster_chain, and the accesses after it: each cluster that is read from
\* the table is one of the area or the end.
Releasing(u, rest, Z) ==
    LET next == Z \cup (Value \ Cluster)
    IN  \/ u = rest
        \/ \E d \in next : u = FreeChain(d) \o rest
        \/ \E c \in Z : u = WriteFat(c, FREE) \o rest
        \/ \E c \in Z, d \in next : u = WriteFat(c, FREE) \o (FreeChain(d) \o rest)

Good == op.slot \notin suspect

\* fat32_open of a new file: the cluster has its end mark before the entry names it,
\* and another entry of that name is suspect.
Creating(u, Z) ==
    /\ op.arg \in Z
    /\ \/ \E nm \in Names :
             /\ op.slot \notin Live
             /\ Found(nm) \subseteq suspect
             /\ \/ u = WriteFat(op.arg, EOC) \o WriteEntry(Entry(nm, op.arg, 0))
                \/ /\ u = WriteEntry(Entry(nm, op.arg, 0))
                   /\ Good => fat[1][op.arg] = EOC
       \/ /\ u = << >>
          /\ op.slot \in Live /\ dir[op.slot].first = op.arg /\ dir[op.slot].size = 0
          /\ ~ file[op.slot].open
          /\ Found(dir[op.slot].name) \ {op.slot} \subseteq suspect
          /\ Good => fat[1][op.arg] = EOC

\* The file that fat32_write or fat32_close is at work on.
Own == Chain(fat[1], file[op.slot].first)
Complete == Has(fat[1], file[op.slot].first, file[op.slot].size)

\* fat32_write gives the file its first cluster,
Marking(u, c, k) ==
    /\ u = WriteFat(c, EOC) \o Seek(c, k)
    /\ Good => /\ c = file[op.slot].first /\ k = op.arg /\ file[op.slot].size = 0
               /\ file[op.slot].cut \/ (dir[op.slot].first = FREE /\ dir[op.slot].size = 0)

\* or has come to c, which is not before the position op.arg - k,
Seeking(u, c, k) ==
    /\ u = Seek(c, k)
    /\ Good => /\ Complete /\ c \in Own
               /\ op.arg - k + Cardinality(Chain(fat[1], c)) <= Cardinality(Own)

\* or gives the new cluster n its end mark and links it behind the last one, c.
Linking(u, c, n, k) ==
    /\ \/ u = WriteFat(n, EOC) \o (WriteFat(c, n) \o Seek(n, k))
       \/ u = WriteFat(c, n) \o Seek(n, k) /\ (Good => fat[1][n] = EOC)
    /\ Good => /\ Complete /\ c \in Own /\ fat[1][c] = EOC /\ n \notin Own
               /\ op.arg - k <= Cardinality(Own)

Searching(u, Z) ==
    /\ Good => Near(dir, file, op.slot) /\ Own \subseteq Z
    /\ \/ u = << >> /\ (Good => Complete)
       \/ \E c \in Z, k \in 0 .. op.arg :
             Marking(u, c, k) \/ Seeking(u, c, k) \/ \E n \in Z : Linking(u, c, n, k)

\* fat32_close.
Closing(u, Z) ==
    LET f == file[op.slot]
    IN  /\ u \in {<< >>, WriteEntry(Entry(dir[op.slot].name, f.first, f.size))}
        /\ Good => /\ Complete /\ Own \subseteq Z /\ Near(dir, file, op.slot)
                   /\ u = << >> => Entered(dir, file, op.slot)

\* The call has u left to do, with its area Z.
Doing(u, Z) ==
    \/ op.kind = "create" /\ Creating(u, Z)
    \/ op.kind = "failed" /\ Releasing(u, << >>, Z) /\ op.slot \notin Live \ suspect
    \/ /\ op.kind = "trunc" /\ op.arg = 0
       /\ op.slot \in Found(dir[op.slot].name) /\ ~ file[op.slot].open
       /\ Releasing(u, << >>, Z)
    \/ /\ op.kind = "unlink" /\ ~ file[op.slot].open
       /\ \/ Releasing(u, WriteEntry(Unused), Z)
          \/ u = << >> /\ op.slot \notin Live \ suspect
    \/ op.kind = "write" /\ file[op.slot].open /\ op.arg \in Nat /\ Searching(u, Z)
    \/ op.kind = "close" /\ file[op.slot].open /\ Closing(u, Z)

HarmInv ==
    /\ Types
    /\ FilesOK(fat[1], dir, file, Sure)
    /\ op # Idle =>
          /\ op.slot \in Slot
          /\ \E Z \in SUBSET Cluster :
                Area(fat[1], dir, file, Sure, Z) /\ Doing(Pending(op.todo), Z)

\* A list that is left to do begins with no second copy.
Fresh(u) ==
    /\ IsSequence(u)
    /\ u # << >> /\ Head(u).do = "fat" => Head(u).copy = 1

LEMMA FreshLists ==
    /\ Fresh(<< >>)
    /\ \A c, k : Fresh(Seek(c, k))
    /\ \A e : Fresh(WriteEntry(e))
    /\ \A c, r : Fresh(r) => Fresh(FreeChain(c) \o r)
    /\ \A c, v, r : Fresh(r) => Fresh(WriteFat(c, v) \o r)
<1>1. Fresh(<< >>)
  BY Lists DEF Fresh
<1>2. ASSUME NEW c, NEW k PROVE Fresh(Seek(c, k))
  BY Lists DEF Fresh, Starts
<1>3. ASSUME NEW e PROVE Fresh(WriteEntry(e))
  BY Lists DEF Fresh, Starts
<1>4. ASSUME NEW c, NEW r, Fresh(r) PROVE Fresh(FreeChain(c) \o r)
  <2>1. Starts(FreeChain(c) \o r, [do |-> "free", c |-> c], r)
    BY <1>4, Lists DEF Fresh
  <2>2. QED
    BY <2>1 DEF Fresh, Starts
<1>5. ASSUME NEW c, NEW v, NEW r, Fresh(r) PROVE Fresh(WriteFat(c, v) \o r)
  <2>1. \E s : Starts(WriteFat(c, v) \o r, W(1, c, v), s)
    BY <1>5, Lists DEF Fresh
  <2>2. QED
    BY <2>1 DEF Fresh, Starts, W
<1>6. QED
  BY <1>1, <1>2, <1>3, <1>4, <1>5

LEMMA Shape ==
    ASSUME NEW u, NEW Z, Doing(u, Z)
    PROVE  Fresh(u) /\ op.kind # "idle"
<1>1. Releasing(u, << >>, Z) \/ Releasing(u, WriteEntry(Unused), Z) => Fresh(u)
  BY FreshLists DEF Releasing
<1>2. Creating(u, Z) => Fresh(u)
  BY FreshLists DEF Creating
<1>3. ASSUME Searching(u, Z) PROVE Fresh(u)
  <2>1. \/ u = << >>
        \/ \E c, k : u = WriteFat(c, EOC) \o Seek(c, k) \/ u = Seek(c, k)
        \/ \E c, k, n : \/ u = WriteFat(n, EOC) \o (WriteFat(c, n) \o Seek(n, k))
                         \/ u = WriteFat(c, n) \o Seek(n, k)
    BY <1>3 DEF Searching, Marking, Seeking, Linking
  <2>2. QED
    BY <2>1, FreshLists
<1>4. Closing(u, Z) => Fresh(u)
  BY FreshLists DEF Closing
<1>5. QED
  BY <1>1, <1>2, <1>3, <1>4, FreshLists DEF Doing

\* The list u begins with the two writes of an entry and goes on with r.
Writes(u, c, v, r) ==
    /\ u # << >> /\ Tail(u) # << >> /\ Tail(Tail(u)) = r
    /\ Head(u).do = "fat" /\ Head(u).copy = 1 /\ Head(u).c = c /\ Head(u).v = v
    /\ Head(Tail(u)).do = "fat" /\ Head(Tail(u)).copy = 2

LEMMA WriteHead == \A c, v, r : Fresh(r) => Writes(WriteFat(c, v) \o r, c, v, r)
<1> SUFFICES ASSUME NEW c, NEW v, NEW r, Fresh(r)
             PROVE  Writes(WriteFat(c, v) \o r, c, v, r)
  OBVIOUS
<1>1. PICK u : u = WriteFat(c, v) \o r
  OBVIOUS
<1>2. PICK s : Starts(u, W(1, c, v), s) /\ Starts(s, W(2, c, v), r)
  BY <1>1, Lists DEF Fresh
<1>3. /\ u # << >> /\ Tail(u) = s /\ Head(u) = W(1, c, v)
      /\ s # << >> /\ Head(s) = W(2, c, v) /\ Tail(s) = r
  BY <1>2 DEF Starts
<1>4. \A i : W(i, c, v).do = "fat" /\ W(i, c, v).copy = i /\ W(i, c, v).c = c /\ W(i, c, v).v = v
  BY DEF W
<1>5. Writes(u, c, v, r)
  BY <1>3, <1>4 DEF Writes
<1>6. QED
  BY <1>1, <1>5

LEMMA Heads ==
    /\ \A c, k : LET h == Head(Seek(c, k))
                 IN  /\ Seek(c, k) # << >> /\ Tail(Seek(c, k)) = << >>
                     /\ h.do = "seek" /\ h.c = c /\ h.k = k
    /\ \A e : LET h == Head(WriteEntry(e))
              IN  /\ WriteEntry(e) # << >> /\ Tail(WriteEntry(e)) = << >>
                  /\ h.do = "dir" /\ h.e = e
    /\ \A c, r : Fresh(r) => LET h == Head(FreeChain(c) \o r)
                             IN  /\ FreeChain(c) \o r # << >> /\ Tail(FreeChain(c) \o r) = r
                                 /\ h.do = "free" /\ h.c = c
    /\ \A c, v, r : Fresh(r) =>
          LET h == Head(WriteFat(c, v) \o r)
              s == Tail(WriteFat(c, v) \o r)
          IN  /\ WriteFat(c, v) \o r # << >> /\ s # << >> /\ Tail(s) = r
              /\ h.do = "fat" /\ h.copy = 1 /\ h.c = c /\ h.v = v
              /\ Head(s).do = "fat" /\ Head(s).copy = 2
<1>1. ASSUME NEW c, NEW k
      PROVE  LET h == Head(Seek(c, k))
             IN  /\ Seek(c, k) # << >> /\ Tail(Seek(c, k)) = << >>
                 /\ h.do = "seek" /\ h.c = c /\ h.k = k
  BY Lists DEF Starts
<1>2. ASSUME NEW e
      PROVE  LET h == Head(WriteEntry(e))
             IN  /\ WriteEntry(e) # << >> /\ Tail(WriteEntry(e)) = << >>
                 /\ h.do = "dir" /\ h.e = e
  BY Lists DEF Starts
<1>3. ASSUME NEW c, NEW r, Fresh(r)
      PROVE  LET h == Head(FreeChain(c) \o r)
             IN  /\ FreeChain(c) \o r # << >> /\ Tail(FreeChain(c) \o r) = r
                 /\ h.do = "free" /\ h.c = c
  <2>1. Starts(FreeChain(c) \o r, [do |-> "free", c |-> c], r)
    BY <1>3, Lists DEF Fresh
  <2>2. QED
    BY <2>1 DEF Starts
<1>4. \A c, v, r : Fresh(r) =>
         LET h == Head(WriteFat(c, v) \o r)
             s == Tail(WriteFat(c, v) \o r)
         IN  /\ WriteFat(c, v) \o r # << >> /\ s # << >> /\ Tail(s) = r
             /\ h.do = "fat" /\ h.copy = 1 /\ h.c = c /\ h.v = v
             /\ Head(s).do = "fat" /\ Head(s).copy = 2
  BY WriteHead DEF Writes
<1>5. QED
  BY <1>1, <1>2, <1>3, <1>4

LEMMA LinkingWrites ==
    ASSUME NEW u, NEW c, NEW n, NEW k, Linking(u, c, n, k)
    PROVE  u # << >> /\ Head(u).do = "fat"
<1>1. Fresh(Seek(n, k)) /\ Fresh(WriteFat(c, n) \o Seek(n, k))
  BY FreshLists
<1>2. WriteFat(c, n) \o Seek(n, k) # << >> /\ Head(WriteFat(c, n) \o Seek(n, k)).do = "fat"
  BY <1>1, Heads
<1>3. /\ WriteFat(n, EOC) \o (WriteFat(c, n) \o Seek(n, k)) # << >>
      /\ Head(WriteFat(n, EOC) \o (WriteFat(c, n) \o Seek(n, k))).do = "fat"
  BY <1>1, Heads
<1>4. QED
  BY <1>2, <1>3 DEF Linking

\* A call has u left to do, or before it the second copy of an entry.
Left(t, u) ==
    \/ t = u
    \/ t # << >> /\ Head(t).do = "fat" /\ Head(t).copy = 2 /\ Tail(t) = u

LEMMA Unpack ==
    ASSUME HarmInv, op # Idle
    PROVE  \E Z, u : /\ Z \in SUBSET Cluster /\ Area(fat[1], dir, file, Sure, Z)
                     /\ Doing(u, Z) /\ Fresh(u) /\ Left(op.todo, u)
<1>1. PICK Z \in SUBSET Cluster :
          Area(fat[1], dir, file, Sure, Z) /\ Doing(Pending(op.todo), Z)
  BY DEF HarmInv
<1>2. Left(op.todo, Pending(op.todo))
  BY DEF Left, Pending
<1>3. Fresh(Pending(op.todo))
  BY <1>1, Shape
<1>4. QED
  BY <1>1, <1>2, <1>3

\* A call goes on: only the file at its slot changes.
LEMMA Goes ==
    ASSUME HarmInv, op # Idle, Types', op'.slot = op.slot, op'.kind # "idle",
           \A s \in Slot : s # op.slot => dir'[s] = dir[s] /\ file'[s] = file[s],
           suspect' \ {op.slot} = suspect \ {op.slot},
           FilesOK(fat'[1], dir, file, Sure),
           NEW Z \in SUBSET Cluster, Area(fat'[1], dir, file, Sure, Z),
           NEW u, Fresh(u), Left(op'.todo, u), Doing(u, Z)'
    PROVE  HarmInv'
<1>1. op' # Idle
  BY DEF Idle
<1>2. Sure \subseteq Slot /\ op.slot \notin Sure
  BY DEF Sure, Live
<1>3. Sure' = Sure
  BY <1>1 DEF Sure, Live
<1>4. Kept(fat'[1], fat'[1], dir, file, dir', file', Sure)
  BY <1>2 DEF Kept
<1>5. FilesOK(fat'[1], dir', file', Sure)
  BY <1>4, FilesKept
<1>6. Area(fat'[1], dir', file', Sure, Z)
  BY <1>2, AreaKept
<1>7. Pending(op'.todo) = u
  BY DEF Left, Pending, Fresh
<1>8. op.slot \in Slot
  BY DEF HarmInv
<1>9. QED
  BY <1>1, <1>3, <1>5, <1>6, <1>7, <1>8 DEF HarmInv

-----------------------------------------------------------------------------
(***************************************************************************)
(* The writes of the table.                                                *)
(***************************************************************************)

\* The rest of u, which begins with the writes of an entry of the area.
FatRest(u, r, Z) ==
    \E c \in Z, v \in Z \cup (Value \ Cluster) : u = WriteFat(c, v) \o r

\* The first copy of the entry is written, or it is not and a mark or a link that is
\* missing makes the file of the call suspect.
FirstCopy(h) ==
    \/ fat'[1] = [fat[1] EXCEPT ![h.c] = h.v] /\ suspect' = suspect
    \/ /\ fat'[1] = fat[1]
       /\ suspect' = IF h.v # FREE THEN suspect \cup {op.slot} ELSE suspect

SameCall == UNCHANGED <<dir, file>> /\ op'.kind = op.kind /\ op'.slot = op.slot /\ op'.arg = op.arg

LEMMA FatReleasing ==
    ASSUME NEW Z \in SUBSET Cluster, NEW rest \in {<< >>, WriteEntry(Unused)},
           NEW u, Releasing(u, rest, Z), u # << >>, Head(u).do = "fat"
    PROVE  \E r : FatRest(u, r, Z) /\ Fresh(r) /\ Releasing(r, rest, Z)
<1>1. Fresh(rest) /\ (rest # << >> => Head(rest).do # "fat")
  BY FreshLists, Heads
<1>2. PICK next : next = Z \cup (Value \ Cluster)
  OBVIOUS
<1>3. FREE \in next
  BY <1>2, Marks DEF Value
<1>4. u # rest /\ \A d : Fresh(FreeChain(d) \o rest) /\ u # FreeChain(d) \o rest
  BY <1>1, Heads, FreshLists
<1>5. \/ \E c \in Z : u = WriteFat(c, FREE) \o rest
      \/ \E c \in Z, d \in next : u = WriteFat(c, FREE) \o (FreeChain(d) \o rest)
  BY <1>2, <1>4 DEF Releasing
<1>6. CASE \E c \in Z : u = WriteFat(c, FREE) \o rest
  BY <1>1, <1>2, <1>3, <1>6 DEF FatRest, Releasing
<1>7. CASE \E c \in Z, d \in next : u = WriteFat(c, FREE) \o (FreeChain(d) \o rest)
  <2>1. PICK c \in Z, d \in next : u = WriteFat(c, FREE) \o (FreeChain(d) \o rest)
    BY <1>7
  <2>2. PICK r : r = FreeChain(d) \o rest
    OBVIOUS
  <2>3. FatRest(u, r, Z)
    BY <1>2, <1>3, <2>1, <2>2 DEF FatRest
  <2>4. Releasing(r, rest, Z)
    BY <1>2, <2>1, <2>2 DEF Releasing
  <2>5. QED
    BY <1>4, <2>2, <2>3, <2>4
<1>8. QED
  BY <1>5, <1>6, <1>7

LEMMA FatCreating ==
    ASSUME NEW Z \in SUBSET Cluster, fat[1] \in Table, SameCall,
           NEW u, Creating(u, Z), u # << >>, Head(u).do = "fat", FirstCopy(Head(u))
    PROVE  \E r : FatRest(u, r, Z) /\ Fresh(r) /\ Creating(r, Z)'
<1>1. PICK nm \in Names : /\ op.slot \notin Live /\ Found(nm) \subseteq suspect
                         /\ u = WriteFat(op.arg, EOC) \o WriteEntry(Entry(nm, op.arg, 0))
  BY Heads DEF Creating
<1>2. PICK r : r = WriteEntry(Entry(nm, op.arg, 0))
  OBVIOUS
<1>3. Fresh(r) /\ Head(u).c = op.arg /\ Head(u).v = EOC
  BY <1>1, <1>2, FreshLists, Heads
<1>4. op.arg \in Z /\ EOC \in Value \ Cluster /\ EOC # FREE
  BY Marks DEF Creating, Value
<1>5. FatRest(u, r, Z)
  BY <1>1, <1>2, <1>4 DEF FatRest
<1>6. op.slot \notin suspect' => fat'[1][op.arg] = EOC
  BY <1>3, <1>4 DEF FirstCopy, Table
<1>7. op'.slot \notin Live' /\ Found(nm)' \subseteq suspect'
  <2>1. Live' = Live /\ Found(nm)' = Found(nm) /\ suspect \subseteq suspect'
    BY DEF SameCall, Live, Found, FirstCopy
  <2>2. QED
    BY <1>1, <2>1 DEF SameCall
<1>8. Creating(r, Z)'
  BY <1>2, <1>4, <1>6, <1>7 DEF Creating, SameCall, Good
<1>9. QED
  BY <1>3, <1>5, <1>8

LEMMA FatSearching ==
    ASSUME NEW Z \in SUBSET Cluster, fat[1] \in Table, SameCall, op.arg \in Nat,
           file[op.slot].size \in Nat,
           NEW u, Searching(u, Z), u # << >>, Head(u).do = "fat", FirstCopy(Head(u))
    PROVE  \E r : FatRest(u, r, Z) /\ Fresh(r) /\ Searching(r, Z)'
<1> DEFINE f == file[op.slot]
           t == fat[1]
           w == fat'[1]
<1>1. PICK c \in Z, k \in 0 .. op.arg : Marking(u, c, k) \/ \E n \in Z : Linking(u, c, n, k)
  BY Heads DEF Searching, Seeking
<1>2. /\ file'[op'.slot] = f /\ op'.arg = op.arg
      /\ Near(dir', file', op'.slot) = Near(dir, file, op.slot)
      /\ Own' = Chain(w, f.first) /\ Complete' = Has(w, f.first, f.size)
      /\ Own = Chain(t, f.first) /\ Complete = Has(t, f.first, f.size)
  BY DEF SameCall, Own, Complete
<1>3. ASSUME Good', Head(u).v # FREE
      PROVE  Good /\ w = [t EXCEPT ![Head(u).c] = Head(u).v] /\ Near(dir, file, op.slot) /\ Own \subseteq Z
  BY <1>3 DEF Good, FirstCopy, SameCall, Searching
<1>4. c \in Cluster /\ EOC # FREE /\ EOC \in Value \ Cluster /\ k \in Nat
  BY Marks DEF Value
<1>5. CASE Marking(u, c, k)
  <2>1. PICK r : r = Seek(c, k)
    OBVIOUS
  <2>2. Fresh(r) /\ u = WriteFat(c, EOC) \o r /\ Head(u).c = c /\ Head(u).v = EOC
    BY <1>5, <2>1, FreshLists, Heads DEF Marking
  <2>3. ASSUME Good'
        PROVE  /\ Near(dir, file, op.slot) /\ Own' \subseteq Z /\ Complete' /\ c \in Own'
               /\ op.arg - k + Cardinality(Chain(w, c)) <= Cardinality(Own')
    <3>1. /\ w = [t EXCEPT ![c] = EOC] /\ Near(dir, file, op.slot)
          /\ c = f.first /\ k = op.arg /\ f.size = 0
      BY <1>3, <1>4, <1>5, <2>2, <2>3 DEF Marking
    <3>2. w[c] = EOC
      BY <1>4, <3>1 DEF Table
    <3>3. Chain(w, c) = {c}
      BY <1>4, <3>2, ChainEnd
    <3>4. Cardinality(Chain(w, c)) \in Nat
      BY ChainSize
    <3> HIDE DEF w
    <3>5. Has(w, c, 0)
      BY <3>2, <3>3, <3>4 DEF Has
    <3>6. Own' = {c} /\ Own' = Chain(w, c) /\ Complete'
      BY <1>2, <3>1, <3>3, <3>5
    <3>7. op.arg - k + Cardinality(Chain(w, c)) <= Cardinality(Chain(w, c))
      BY <3>1, <3>4
    <3>8. QED
      BY <3>1, <3>6, <3>7
  <2>4. Seeking(r, c, k)'
    BY <1>2, <2>1, <2>3 DEF Seeking
  <2>5. Searching(r, Z)'
    BY <1>2, <2>3, <2>4 DEF Searching
  <2>6. QED
    BY <1>4, <2>2, <2>5 DEF FatRest
<1>6. ASSUME NEW n \in Z, Linking(u, c, n, k), u = WriteFat(n, EOC) \o (WriteFat(c, n) \o Seek(n, k))
      PROVE  \E r : FatRest(u, r, Z) /\ Fresh(r) /\ Searching(r, Z)'
  <2>1. PICK r : r = WriteFat(c, n) \o Seek(n, k)
    OBVIOUS
  <2>2. Fresh(r) /\ u = WriteFat(n, EOC) \o r /\ Head(u).c = n /\ Head(u).v = EOC
    <3>1. Fresh(r)
      BY <2>1, FreshLists
    <3>2. QED
      BY <1>6, <2>1, <3>1, Heads
  <2>3. ASSUME Good'
        PROVE  /\ Near(dir, file, op.slot) /\ Own' \subseteq Z /\ Complete' /\ c \in Own'
               /\ w[c] = EOC /\ w[n] = EOC /\ n \notin Own' /\ op.arg - k <= Cardinality(Own')
    <3>1. /\ w = [t EXCEPT ![n] = EOC] /\ Near(dir, file, op.slot) /\ Own \subseteq Z
          /\ Complete /\ c \in Own /\ t[c] = EOC /\ n \notin Own /\ op.arg - k <= Cardinality(Own)
      BY <1>3, <1>4, <1>6, <2>2, <2>3 DEF Linking
    <3>2. n \in Cluster /\ Own \subseteq Cluster
      BY ChainClosed DEF Own
    <3>3. w[n] = EOC /\ \A x \in Own : w[x] = t[x]
      BY <3>1, <3>2 DEF Table
    <3> HIDE DEF w
    <3>4. Own' = Own /\ Complete'
      <4>1. Has(t, f.first, f.size) /\ \A x \in Chain(t, f.first) : w[x] = t[x]
        BY <1>2, <3>1, <3>3
      <4>2. QED
        BY <1>2, <4>1, HasSame
    <3>5. QED
      BY <3>1, <3>3, <3>4
  <2>4. Linking(r, c, n, k)'
    BY <1>2, <2>1, <2>3 DEF Linking
  <2>5. Searching(r, Z)'
    BY <1>2, <2>3, <2>4 DEF Searching
  <2>6. QED
    BY <1>4, <2>2, <2>5 DEF FatRest
<1>7. ASSUME NEW n \in Z, Linking(u, c, n, k), u = WriteFat(c, n) \o Seek(n, k)
      PROVE  \E r : FatRest(u, r, Z) /\ Fresh(r) /\ Searching(r, Z)'
  <2>1. PICK r : r = Seek(n, k)
    OBVIOUS
  <2>2. Fresh(r) /\ u = WriteFat(c, n) \o r /\ Head(u).c = c /\ Head(u).v = n
    BY <1>7, <2>1, FreshLists, Heads
  <2>3. n \in Cluster /\ n # FREE
    BY Marks
  <2>4. ASSUME Good'
        PROVE  /\ Near(dir, file, op.slot) /\ Own' \subseteq Z /\ Complete' /\ n \in Own'
               /\ op.arg - k + Cardinality(Chain(w, n)) <= Cardinality(Own')
    <3>1. /\ w = [t EXCEPT ![c] = n] /\ Near(dir, file, op.slot) /\ Own \subseteq Z
          /\ Complete /\ c \in Own /\ t[c] = EOC /\ n \notin Own /\ op.arg - k <= Cardinality(Own)
      BY <1>3, <1>4, <1>7, <2>2, <2>3, <2>4 DEF Linking
    <3>2. t[n] = EOC
      <4>1. u # WriteFat(n, EOC) \o (WriteFat(c, n) \o Seek(n, k))
        <5>1. Fresh(WriteFat(c, n) \o Seek(n, k))
          BY FreshLists
        <5>2. Head(WriteFat(n, EOC) \o (WriteFat(c, n) \o Seek(n, k))).v = EOC
          BY <5>1, Heads
        <5>3. QED
          BY <2>2, <2>3, <5>2, Marks
      <4>2. Good
        BY <1>3, <2>2, <2>3, <2>4
      <4>3. QED
        BY <1>7, <4>1, <4>2 DEF Linking
    <3>3. Chain(w, f.first) = Own \cup {n} /\ w[n] = EOC
      BY <1>2, <2>3, <3>1, <3>2, ChainGrows
    <3>4. Cardinality(Own \cup {n}) = Cardinality(Own) + 1 /\ Own \subseteq Cluster
      BY <3>1, OneLonger, ChainClosed DEF Own
    <3>5. Cardinality(Own) \in Nat /\ f.size <= Cardinality(Own)
      BY <1>2, <3>1, ChainSize DEF Has
    <3> HIDE DEF w
    <3>6. Chain(w, n) = {n}
      BY <2>3, <3>3, ChainEnd, Marks
    <3>7. Cardinality({n}) = 1
      BY FS_Singleton
    <3>8. Complete' /\ Own' = Own \cup {n}
      BY <1>2, <3>3, <3>4, <3>5 DEF Has
    <3>9. op.arg - k + Cardinality(Chain(w, n)) <= Cardinality(Own')
      <4>1. Cardinality(Own') = Cardinality(Own) + 1 /\ Cardinality(Chain(w, n)) = 1
        BY <3>4, <3>6, <3>7, <3>8
      <4>2. QED
        BY <1>4, <3>1, <3>5, <4>1
    <3>10. QED
      BY <3>1, <3>8, <3>9
  <2>5. Seeking(r, n, k)'
    BY <1>2, <2>1, <2>4 DEF Seeking
  <2>6. Searching(r, Z)'
    BY <1>2, <2>4, <2>5 DEF Searching
  <2>7. QED
    BY <1>4, <2>2, <2>6 DEF FatRest
<1>8. QED
  BY <1>1, <1>5, <1>6, <1>7 DEF Linking

LEMMA FatDoing ==
    ASSUME Types, op.slot \in Slot, NEW Z \in SUBSET Cluster, SameCall,
           NEW u, Doing(u, Z), u # << >>, Head(u).do = "fat", FirstCopy(Head(u))
    PROVE  \E r : FatRest(u, r, Z) /\ Fresh(r) /\ Doing(r, Z)'
<1>1. /\ fat[1] \in Table /\ file[op.slot].size \in Nat
      /\ Live' = Live /\ \A nm : Found(nm)' = Found(nm)
      /\ suspect \subseteq suspect'
      /\ dir' = dir /\ file' = file /\ op'.kind = op.kind /\ op'.slot = op.slot /\ op'.arg = op.arg
  BY DEF Types, SameCall, Live, Found, FirstCopy
<1>2. CASE op.kind = "create" /\ Creating(u, Z)
  <2>1. PICK r : FatRest(u, r, Z) /\ Fresh(r) /\ Creating(r, Z)'
    BY <1>1, <1>2, FatCreating
  <2>2. Doing(r, Z)'
    BY <1>1, <1>2, <2>1 DEF Doing
  <2>3. QED
    BY <2>1, <2>2
<1>3. CASE op.kind = "write" /\ file[op.slot].open /\ op.arg \in Nat /\ Searching(u, Z)
  <2>1. PICK r : FatRest(u, r, Z) /\ Fresh(r) /\ Searching(r, Z)'
    BY <1>1, <1>3, FatSearching
  <2>2. Doing(r, Z)'
    BY <1>1, <1>3, <2>1 DEF Doing
  <2>3. QED
    BY <2>1, <2>2
<1>4. CASE /\ Releasing(u, << >>, Z)
           /\ \/ op.kind = "failed" /\ op.slot \notin Live \ suspect
              \/ /\ op.kind = "trunc" /\ op.arg = 0
                 /\ op.slot \in Found(dir[op.slot].name) /\ ~ file[op.slot].open
  <2>1. PICK r : FatRest(u, r, Z) /\ Fresh(r) /\ Releasing(r, << >>, Z)
    BY <1>4, FatReleasing
  <2>2. Doing(r, Z)'
    BY <1>1, <1>4, <2>1 DEF Doing
  <2>3. QED
    BY <2>1, <2>2
<1>5. CASE op.kind = "unlink" /\ ~ file[op.slot].open /\ Releasing(u, WriteEntry(Unused), Z)
  <2>1. PICK r : FatRest(u, r, Z) /\ Fresh(r) /\ Releasing(r, WriteEntry(Unused), Z)
    BY <1>5, FatReleasing
  <2>2. Doing(r, Z)'
    BY <1>1, <1>5, <2>1 DEF Doing
  <2>3. QED
    BY <2>1, <2>2
<1>6. ~ Closing(u, Z)
  BY Heads DEF Closing
<1>7. QED
  BY <1>2, <1>3, <1>4, <1>5, <1>6 DEF Doing

\* Nothing that the call depends on has changed.
LEMMA DoingSame ==
    ASSUME SameCall, suspect' = suspect, fat'[1] = fat[1], NEW Z, NEW u, Doing(u, Z)
    PROVE  Doing(u, Z)'
<1>1. /\ Live' = Live /\ (Good <=> Good') /\ \A nm : Found(nm)' = Found(nm)
      /\ dir' = dir /\ file' = file /\ op'.kind = op.kind /\ op'.slot = op.slot /\ op'.arg = op.arg
  BY DEF SameCall, Live, Found, Good
<1>2. Own' = Own /\ (Complete <=> Complete')
  BY <1>1 DEF Own, Complete
<1>3. Creating(u, Z) => Creating(u, Z)'
  BY <1>1 DEF Creating
<1>4. Searching(u, Z) => Searching(u, Z)'
  <2>1. \A c, k : Marking(u, c, k) => Marking(u, c, k)'
    BY <1>1 DEF Marking
  <2>2. \A c, k : Seeking(u, c, k) => Seeking(u, c, k)'
    BY <1>1, <1>2 DEF Seeking
  <2>3. \A c, n, k : Linking(u, c, n, k) => Linking(u, c, n, k)'
    BY <1>1, <1>2 DEF Linking
  <2>4. QED
    BY <1>1, <1>2, <2>1, <2>2, <2>3 DEF Searching
<1>5. Closing(u, Z) => Closing(u, Z)'
  BY <1>1, <1>2 DEF Closing
<1>6. QED
  BY <1>1, <1>3, <1>4, <1>5 DEF Doing

\* A copy of an entry is written, or it is not.
LEMMA FatHarm ==
    ASSUME HarmInv, FatWrite \/ FatFails
    PROVE  HarmInv'
<1> DEFINE t == op.todo
           h == Head(t)
<1>1. /\ Types /\ DOMAIN fat = 1 .. 2 /\ fat[1] \in Table
      /\ DOMAIN op = {"kind", "slot", "arg", "todo"} /\ FilesOK(fat[1], dir, file, Sure)
  BY DEF HarmInv, Types
<1>2. /\ t # << >> /\ h.do = "fat" /\ SameCall /\ op # Idle
      /\ DOMAIN op' = {"kind", "slot", "arg", "todo"}
  BY <1>1 DEF FatWrite, FatFails, Then, Todo, SameCall, Idle
<1>3. op.slot \in Slot
  BY <1>2 DEF HarmInv
<1>4. PICK Z, u : /\ Z \in SUBSET Cluster /\ Area(fat[1], dir, file, Sure, Z)
                  /\ Doing(u, Z) /\ Fresh(u) /\ Left(t, u)
  BY <1>2, Unpack
<1>5. op.kind # "idle"
  BY <1>4, Shape
<1>6. CASE t # u
  <2>1. h.copy = 2 /\ Tail(t) = u
    BY <1>4, <1>6 DEF Left
  <2>2. /\ suspect' = suspect /\ fat'[1] = fat[1] /\ DOMAIN fat' = 1 .. 2 /\ op'.todo = u
    <3>1. CASE FatWrite
      <4>1. fat' = [fat EXCEPT ![2][h.c] = h.v] /\ suspect' = suspect /\ op'.todo = Tail(t)
        BY <1>1, <2>1, <3>1 DEF FatWrite, Then
      <4>2. QED
        BY <1>1, <2>1, <4>1
    <3>2. CASE FatFails
      <4>1. fat' = fat /\ suspect' = suspect /\ op'.todo = Tail(t)
        BY <1>1, <2>1, <3>2 DEF FatFails, Then
      <4>2. QED
        BY <1>1, <2>1, <4>1
    <3>3. QED
      BY <3>1, <3>2
  <2>3. Doing(u, Z)'
    BY <1>2, <1>4, <2>2, DoingSame
  <2>4. Types'
    BY <1>1, <1>2, <2>2 DEF Types, SameCall
  <2>5. Left(op'.todo, u)
    BY <2>2 DEF Left
  <2>6. QED
    BY <1>1, <1>2, <1>3, <1>4, <1>5, <2>2, <2>3, <2>4, <2>5, Goes DEF SameCall
<1>7. CASE t = u
  <2>1. h.copy = 1
    BY <1>2, <1>4, <1>7 DEF Fresh
  <2>2. /\ FirstCopy(h) /\ DOMAIN fat' = 1 .. 2
        /\ \/ FatWrite /\ op'.todo = Tail(t) /\ fat'[1] = [fat[1] EXCEPT ![h.c] = h.v]
           \/ op'.todo = Tail(Tail(t)) /\ fat'[1] = fat[1]
    BY <1>1, <2>1 DEF FatWrite, FatFails, Then, FirstCopy
  <2>3. PICK r : FatRest(u, r, Z) /\ Fresh(r) /\ Doing(r, Z)'
    BY <1>1, <1>2, <1>3, <1>4, <1>7, <2>2, FatDoing
  <2>4. PICK c \in Z, v \in Z \cup (Value \ Cluster) : u = WriteFat(c, v) \o r
    BY <2>3 DEF FatRest
  <2>5. /\ Tail(t) # << >> /\ Tail(Tail(t)) = r /\ h.c = c /\ h.v = v
        /\ Head(Tail(t)).do = "fat" /\ Head(Tail(t)).copy = 2
    <3>1. /\ Tail(u) # << >> /\ Tail(Tail(u)) = r /\ Head(u).c = c /\ Head(u).v = v
          /\ Head(Tail(u)).do = "fat" /\ Head(Tail(u)).copy = 2
      <4>1. Writes(u, c, v, r)
        BY <2>3, <2>4, WriteHead
      <4>2. QED
        BY <4>1 DEF Writes
    <3>2. QED
      BY <1>7, <3>1
  <2>6. Left(op'.todo, r)
    BY <2>2, <2>5 DEF Left
  <2>7. /\ fat'[1] \in Table /\ FilesOK(fat'[1], dir, file, Sure)
        /\ Area(fat'[1], dir, file, Sure, Z)
    BY <1>1, <1>4, <2>2, <2>5, AreaWrite
  <2>8. suspect' \ {op.slot} = suspect \ {op.slot} /\ suspect' \subseteq Slot
    BY <1>1, <1>3, <2>2 DEF FirstCopy, Types
  <2>9. Types'
    BY <1>1, <1>2, <2>2, <2>7, <2>8 DEF Types, SameCall
  <2>10. QED
    BY <1>2, <1>3, <1>4, <1>5, <2>3, <2>6, <2>7, <2>8, <2>9, Goes DEF SameCall
<1>8. QED
  BY <1>6, <1>7

-----------------------------------------------------------------------------
(***************************************************************************)
(* The other accesses.                                                     *)
(***************************************************************************)

\* A step of the release of a chain leaves what is still a release.
LEMMA FreeReleasing ==
    ASSUME NEW t \in Table, NEW Z \in SUBSET Cluster, LinkClosed(t, Z),
           NEW rest \in {<< >>, WriteEntry(Unused)},
           NEW u, Releasing(u, rest, Z), u # << >>, Head(u).do = "free"
    PROVE  /\ Tail(u) = rest /\ Fresh(rest) /\ Releasing(rest, rest, Z)
           /\ \A d \in Cluster : d = Head(u).c =>
                 /\ Fresh(WriteFat(d, FREE) \o Tail(u))
                 /\ Releasing(WriteFat(d, FREE) \o Tail(u), rest, Z)
                 /\ Fresh(WriteFat(d, FREE) \o FreeChain(t[d]) \o Tail(u))
                 /\ Releasing(WriteFat(d, FREE) \o FreeChain(t[d]) \o Tail(u), rest, Z)
<1>1. Fresh(rest) /\ (rest # << >> => Head(rest).do # "free")
  BY FreshLists, Heads
<1>2. PICK next : next = Z \cup (Value \ Cluster)
  OBVIOUS
<1>3. u # rest /\ \A c : u # WriteFat(c, FREE) \o rest
  BY <1>1, Heads
<1>4. ASSUME NEW c, NEW d, u = WriteFat(c, FREE) \o (FreeChain(d) \o rest) PROVE FALSE
  <2>1. Fresh(FreeChain(d) \o rest)
    BY <1>1, FreshLists
  <2>2. Head(WriteFat(c, FREE) \o (FreeChain(d) \o rest)).do = "fat"
    BY <2>1, Heads
  <2>3. QED
    BY <1>4, <2>2
<1>5. PICK d \in next : u = FreeChain(d) \o rest
  BY <1>2, <1>3, <1>4 DEF Releasing
<1>6. Head(u).c = d /\ Tail(u) = rest
  <2>1. Head(FreeChain(d) \o rest).c = d /\ Tail(FreeChain(d) \o rest) = rest
    BY <1>1, Heads
  <2>2. QED
    BY <1>5, <2>1
<1>7. Releasing(rest, rest, Z)
  BY DEF Releasing
<1>8. ASSUME d \in Cluster, NEW r, r = WriteFat(d, FREE) \o rest,
             NEW q, q = WriteFat(d, FREE) \o FreeChain(t[d]) \o rest
      PROVE  Fresh(r) /\ Releasing(r, rest, Z) /\ Fresh(q) /\ Releasing(q, rest, Z)
  <2>1. PICK f, g : f = FreeChain(t[d]) /\ g = f \o rest
    OBVIOUS
  <2>2. d \in Z /\ t[d] \in Value /\ t[d] \in next
    <3>1. d \in Z
      BY <1>2, <1>8
    <3>2. t[d] \in Value
      BY <1>8 DEF Table
    <3>3. t[d] \in Cluster => t[d] \in Z
      BY <3>1 DEF LinkClosed
    <3>4. QED
      BY <1>2, <3>1, <3>2, <3>3
  <2>3. Fresh(r) /\ Releasing(r, rest, Z)
    <3>1. Fresh(r)
      BY <1>1, <1>8, FreshLists
    <3>2. QED
      BY <1>8, <2>2, <3>1 DEF Releasing
  <2>4. IsSequence(WriteFat(d, FREE)) /\ IsSequence(f) /\ IsSequence(rest)
    <3>1. f \o << >> = f
      BY <2>1, Lists
    <3>2. Fresh(f \o << >>)
      BY <2>1, FreshLists
    <3>3. IsSequence(WriteFat(d, FREE))
      BY WriteFatWhole, NothingWhole
    <3>4. QED
      BY <1>1, <3>1, <3>2, <3>3 DEF Fresh
  <2>5. q = WriteFat(d, FREE) \o g
    <3>1. (WriteFat(d, FREE) \o f) \o rest = WriteFat(d, FREE) \o (f \o rest)
      BY <2>4, Associative
    <3>2. q = (WriteFat(d, FREE) \o f) \o rest
      BY <1>8, <2>1
    <3>3. QED
      BY <2>1, <3>1, <3>2
  <2>6. Fresh(q)
    <3>1. Fresh(g)
      BY <1>1, <2>1, FreshLists
    <3>2. QED
      BY <2>5, <3>1, FreshLists
  <2>7. Releasing(q, rest, Z)
    <3>1. \E c \in Z, e \in next : q = WriteFat(c, FREE) \o (FreeChain(e) \o rest)
      BY <2>1, <2>2, <2>5
    <3>2. QED
      BY <1>2, <3>1 DEF Releasing
  <2>8. QED
    BY <2>3, <2>6, <2>7
<1>9. QED
  BY <1>1, <1>6, <1>7, <1>8

\* What is to do when the head is no write of the table.
LEMMA NotHalf ==
    ASSUME HarmInv, op.todo # << >>, Head(op.todo).do # "fat"
    PROVE  /\ op # Idle /\ op.slot \in Slot /\ op.kind # "idle"
           /\ \E Z \in SUBSET Cluster : /\ Area(fat[1], dir, file, Sure, Z)
                                        /\ Doing(op.todo, Z) /\ Fresh(op.todo)
<1>1. op # Idle
  BY DEF Idle
<1>2. PICK Z, u : /\ Z \in SUBSET Cluster /\ Area(fat[1], dir, file, Sure, Z)
                  /\ Doing(u, Z) /\ Fresh(u) /\ Left(op.todo, u)
  BY <1>1, Unpack
<1>3. u = op.todo
  BY <1>2 DEF Left
<1>4. QED
  BY <1>1, <1>2, <1>3, Shape DEF HarmInv

LEMMA FreeHarm ==
    ASSUME HarmInv, FreeStep
    PROVE  HarmInv'
<1>0. PICK u, r : u = op.todo /\ r = op'.todo
  OBVIOUS
<1>1. /\ Types /\ fat[1] \in Table
      /\ DOMAIN op = {"kind", "slot", "arg", "todo"} /\ FilesOK(fat[1], dir, file, Sure)
  BY DEF HarmInv, Types
<1>2. /\ u # << >> /\ Head(u).do = "free" /\ SameCall /\ UNCHANGED <<fat, suspect>>
      /\ DOMAIN op' = {"kind", "slot", "arg", "todo"}
  <2>1. /\ u # << >> /\ Head(u).do = "free" /\ UNCHANGED <<dir, file, fat, suspect>>
        /\ \E v : Then(v)
    BY <1>0 DEF FreeStep, Todo
  <2>2. QED
    BY <1>1, <2>1 DEF Then, SameCall
<1>12. PICK d, p, q :
          /\ d = Head(u).c /\ p = WriteFat(d, FREE) \o Tail(u)
          /\ q = WriteFat(d, FREE) \o FreeChain(fat[1][d]) \o Tail(u)
  OBVIOUS
<1>13. r = Tail(u) \/ (d \in Cluster /\ r \in {p, q})
  <2>1. op'.todo = r /\ op.todo = u /\ "todo" \in DOMAIN op
    BY <1>0, <1>1
  <2>2. \A t : Then(t) => op'.todo = t
    BY <2>1 DEF Then
  <2>3. Then(Tail(u)) \/ (d \in Cluster /\ (Then(p) \/ Then(q)))
    BY <1>12, <2>1 DEF FreeStep
  <2>4. QED
    BY <2>1, <2>2, <2>3
<1>3. op # Idle /\ op.slot \in Slot /\ op.kind # "idle"
  BY <1>0, <1>2, NotHalf
<1>4. PICK Z \in SUBSET Cluster : Area(fat[1], dir, file, Sure, Z) /\ Doing(u, Z)
  BY <1>0, <1>2, NotHalf
<1>5. LinkClosed(fat[1], Z)
  BY <1>4 DEF Area
<1>6. ~ Creating(u, Z) /\ ~ Searching(u, Z) /\ ~ Closing(u, Z)
  <2>1. ~ Creating(u, Z) /\ ~ Closing(u, Z)
    <3>1. \A e : Fresh(WriteEntry(e))
      BY FreshLists
    <3>2. QED
      BY <1>2, <3>1, Heads DEF Creating, Closing
  <2>2. \A c, k : ~ Marking(u, c, k) /\ ~ Seeking(u, c, k)
    <3>1. \A c, k : Fresh(Seek(c, k))
      BY FreshLists
    <3>2. QED
      BY <1>2, <3>1, Heads DEF Marking, Seeking
  <2>3. \A c, n, k : ~ Linking(u, c, n, k)
    BY <1>2, LinkingWrites
  <2>4. QED
    BY <1>2, <2>1, <2>2, <2>3 DEF Searching
<1>7. /\ Releasing(u, << >>, Z) => Releasing(r, << >>, Z) /\ Fresh(r)
      /\ Releasing(u, WriteEntry(Unused), Z) => Releasing(r, WriteEntry(Unused), Z) /\ Fresh(r)
  <2>1. ASSUME NEW rest \in {<< >>, WriteEntry(Unused)}, Releasing(u, rest, Z)
        PROVE  Releasing(r, rest, Z) /\ Fresh(r)
    <3>1. /\ Fresh(rest) /\ Releasing(rest, rest, Z) /\ rest = Tail(u)
          /\ d \in Cluster => Fresh(p) /\ Releasing(p, rest, Z) /\ Fresh(q) /\ Releasing(q, rest, Z)
      <4>1. PICK t \in Table : t = fat[1]
        BY <1>1
      <4>2. LinkClosed(t, Z)
        BY <1>5, <4>1
      <4>3. /\ Tail(u) = rest /\ Fresh(rest) /\ Releasing(rest, rest, Z)
            /\ \A e \in Cluster : e = Head(u).c =>
                  /\ Fresh(WriteFat(e, FREE) \o Tail(u))
                  /\ Releasing(WriteFat(e, FREE) \o Tail(u), rest, Z)
                  /\ Fresh(WriteFat(e, FREE) \o FreeChain(t[e]) \o Tail(u))
                  /\ Releasing(WriteFat(e, FREE) \o FreeChain(t[e]) \o Tail(u), rest, Z)
        BY <1>2, <2>1, <4>2, FreeReleasing
      <4>4. QED
        BY <1>12, <4>1, <4>3
    <3>2. QED
      BY <1>13, <3>1
  <2>2. QED
    BY <2>1
<1>8. /\ Live' = Live /\ \A nm : Found(nm)' = Found(nm)
      /\ dir' = dir /\ file' = file /\ op'.kind = op.kind /\ op'.slot = op.slot /\ op'.arg = op.arg
  BY <1>2 DEF SameCall, Live, Found
<1>9. Doing(r, Z)' /\ Fresh(r)
  BY <1>2, <1>4, <1>6, <1>7, <1>8 DEF Doing
<1>10. Types' /\ Left(r, r)
  BY <1>1, <1>2, <1>8 DEF Types, Left
<1>11. QED
  BY <1>0, <1>1, <1>2, <1>3, <1>4, <1>8, <1>9, <1>10, Goes

\* The accesses that a list may begin with, besides those to the table.
LEMMA NoFree == \A u, rest, Z : Releasing(u, rest, Z) /\ Fresh(rest) =>
                   u = rest \/ (u # << >> /\ Head(u).do \in {"free", "fat"})
<1> SUFFICES ASSUME NEW u, NEW rest, NEW Z, Releasing(u, rest, Z), Fresh(rest), u # rest
             PROVE  u # << >> /\ Head(u).do \in {"free", "fat"}
  OBVIOUS
<1>1. \A d : Fresh(FreeChain(d) \o rest)
  BY FreshLists
<1>2. \/ \E d : u = FreeChain(d) \o rest
      \/ \E c : u = WriteFat(c, FREE) \o rest
      \/ \E c, d : u = WriteFat(c, FREE) \o (FreeChain(d) \o rest)
  BY DEF Releasing
<1>3. ASSUME NEW c, NEW r, Fresh(r), u = WriteFat(c, FREE) \o r
      PROVE  u # << >> /\ Head(u).do = "fat"
  BY <1>3, Heads
<1>4. ASSUME NEW d, u = FreeChain(d) \o rest
      PROVE  u # << >> /\ Head(u).do = "free"
  BY <1>4, Heads
<1>5. QED
  BY <1>1, <1>2, <1>3, <1>4

LEMMA DoingSeek ==
    ASSUME NEW u, NEW Z, Doing(u, Z), u # << >>, Head(u).do = "seek"
    PROVE  /\ op.kind = "write" /\ file[op.slot].open /\ op.arg \in Nat
           /\ Good => Near(dir, file, op.slot) /\ Own \subseteq Z
           /\ \E c \in Z, k \in 0 .. op.arg : Seeking(u, c, k) /\ Head(u).c = c /\ Head(u).k = k
<1>1. Fresh(<< >>) /\ \A e : Fresh(WriteEntry(e)) /\ Head(WriteEntry(e)).do = "dir"
  BY FreshLists, Heads
<1>2. ~ Releasing(u, << >>, Z) /\ ~ Releasing(u, WriteEntry(Unused), Z)
  BY <1>1, NoFree
<1>3. ~ Creating(u, Z) /\ ~ Closing(u, Z)
  BY <1>1, Heads DEF Creating, Closing
<1>4. \A c, k : ~ Marking(u, c, k)
  <2>1. \A c, k : Fresh(Seek(c, k))
    BY FreshLists
  <2>2. QED
    BY <2>1, Heads DEF Marking
<1>5. \A c, n, k : ~ Linking(u, c, n, k)
  BY LinkingWrites
<1>6. \A c, k : Seeking(u, c, k) => Head(u).c = c /\ Head(u).k = k
  BY Heads DEF Seeking
<1>7. QED
  BY <1>2, <1>3, <1>4, <1>5, <1>6 DEF Doing, Searching

LEMMA DoingEntry ==
    ASSUME NEW u, NEW Z, Doing(u, Z), u # << >>, Head(u).do = "dir"
    PROVE  /\ Tail(u) = << >>
           /\ \/ /\ op.kind = "create" /\ op.arg \in Z /\ op.slot \notin Live
                 /\ \E nm \in Names : Found(nm) \subseteq suspect /\ Head(u).e = Entry(nm, op.arg, 0)
                 /\ Good => fat[1][op.arg] = EOC
              \/ op.kind = "unlink" /\ ~ file[op.slot].open /\ Head(u).e = Unused
              \/ /\ op.kind = "close" /\ file[op.slot].open
                 /\ Head(u).e = Entry(dir[op.slot].name, file[op.slot].first, file[op.slot].size)
                 /\ Good => Complete /\ Own \subseteq Z /\ Near(dir, file, op.slot)
<1>1. Fresh(<< >>) /\ \A e : Fresh(WriteEntry(e)) /\ Head(WriteEntry(e)).do = "dir"
  BY FreshLists, Heads
<1>2. ~ Releasing(u, << >>, Z)
  BY <1>1, NoFree
<1>3. Releasing(u, WriteEntry(Unused), Z) => u = WriteEntry(Unused)
  BY <1>1, NoFree
<1>4. ~ Searching(u, Z)
  <2>1. \A c, k : Fresh(Seek(c, k)) /\ ~ Seeking(u, c, k)
    BY FreshLists, Heads DEF Seeking
  <2>2. \A c, k : ~ Marking(u, c, k)
    BY <2>1, Heads DEF Marking
  <2>3. \A c, n, k : ~ Linking(u, c, n, k)
    BY LinkingWrites
  <2>4. QED
    BY <2>1, <2>2, <2>3 DEF Searching
<1>5. CASE op.kind = "create" /\ Creating(u, Z)
  <2>1. \A c, v, e : u # WriteFat(c, v) \o WriteEntry(e)
    BY <1>1, Heads
  <2>2. PICK nm \in Names : /\ op.slot \notin Live /\ Found(nm) \subseteq suspect
                           /\ u = WriteEntry(Entry(nm, op.arg, 0)) /\ (Good => fat[1][op.arg] = EOC)
    BY <1>5, <2>1 DEF Creating
  <2>3. op.arg \in Z
    BY <1>5 DEF Creating
  <2>4. QED
    BY <1>5, <2>2, <2>3, Heads
<1>6. CASE op.kind = "unlink" /\ ~ file[op.slot].open /\ u = WriteEntry(Unused)
  BY <1>6, Heads
<1>7. CASE op.kind = "close" /\ file[op.slot].open /\ Closing(u, Z)
  BY <1>7, Heads DEF Closing
<1>8. QED
  BY <1>2, <1>3, <1>4, <1>5, <1>6, <1>7 DEF Doing

\* A step of the search of fat32_write.
LEMMA SeekHarm ==
    ASSUME HarmInv, NEW n \in Cluster \cup {FREE}, NEW e \in 0 .. MaxFaults, SeekStep(n, e)
    PROVE  HarmInv'
<1>0. PICK u, r, t : u = op.todo /\ r = op'.todo /\ t = fat[1]
  OBVIOUS
<1>1. /\ Types /\ fat[1] \in Table
      /\ DOMAIN op = {"kind", "slot", "arg", "todo"} /\ FilesOK(fat[1], dir, file, Sure)
  BY DEF HarmInv, Types
<1>2. /\ u # << >> /\ Head(u).do = "seek" /\ SameCall /\ UNCHANGED <<fat, suspect>>
      /\ DOMAIN op' = {"kind", "slot", "arg", "todo"}
  <2>1. /\ u # << >> /\ Head(u).do = "seek" /\ UNCHANGED <<dir, file, fat, suspect>>
        /\ \E v : Then(v)
    BY <1>0 DEF SeekStep, Todo
  <2>2. QED
    BY <1>1, <2>1 DEF Then, SameCall
<1>3. op # Idle /\ op.slot \in Slot /\ op.kind # "idle"
  BY <1>0, <1>2, NotHalf
<1>4. PICK Z \in SUBSET Cluster : Area(t, dir, file, Sure, Z) /\ Doing(u, Z)
  BY <1>0, <1>2, NotHalf
<1>5. /\ op.kind = "write" /\ file[op.slot].open /\ op.arg \in Nat
      /\ Good => Near(dir, file, op.slot) /\ Own \subseteq Z
  BY <1>2, <1>4, DoingSeek
<1>6. PICK c \in Z, k \in 0 .. op.arg : Seeking(u, c, k) /\ Head(u).c = c /\ Head(u).k = k
  BY <1>2, <1>4, DoingSeek
<1>7. k > 0 /\ c \in Cluster /\ t \in Table
  BY <1>0, <1>1, <1>6 DEF SeekStep
<1>8. \/ r = << >>
      \/ t[c] = EOC /\ n \in Free /\ r = Extend(c, n) \o Seek(n, k - 1)
      \/ t[c] \notin {EOC, FREE} /\ r = Seek(t[c], k - 1)
  <2>1. \A v : Then(v) => op'.todo = v
    BY <1>1 DEF Then
  <2>2. \/ Then(<< >>)
        \/ t[c] = EOC /\ n \in Free /\ Then(Extend(c, n) \o Seek(n, k - 1))
        \/ t[c] \notin {EOC, FREE} /\ Then(Seek(t[c], k - 1))
    BY <1>0, <1>6, <1>7, Marks DEF SeekStep, Allocated
  <2>3. QED
    BY <1>0, <2>1, <2>2
<1>9. /\ dir' = dir /\ file' = file /\ op'.kind = op.kind /\ op'.slot = op.slot /\ op'.arg = op.arg
      /\ (Good <=> Good') /\ Own' = Own /\ (Complete <=> Complete') /\ fat'[1] = t
      /\ Own = Chain(t, file[op.slot].first)
      /\ Complete = Has(t, file[op.slot].first, file[op.slot].size)
  BY <1>0, <1>2 DEF SameCall, Good, Own, Complete
<1>10. Good => /\ Complete /\ c \in Own
               /\ op.arg - k + Cardinality(Chain(t, c)) <= Cardinality(Own)
  BY <1>0, <1>6 DEF Seeking
<1>11. /\ Cardinality(Chain(t, c)) \in Nat /\ Cardinality(Chain(t, c)) >= 1
       /\ Cardinality(Own) \in Nat /\ Cardinality(Chain(t, t[c])) \in Nat
  BY <1>7, <1>9, ChainSize
<1>12. Types'
  BY <1>1, <1>2, <1>9 DEF Types
<1>13. CASE r = << >>
  <2>1. Doing(r, Z)'
    BY <1>5, <1>9, <1>10, <1>13 DEF Doing, Searching
  <2>2. Fresh(r) /\ Left(r, r)
    BY <1>13, FreshLists DEF Left
  <2>3. QED
    BY <1>0, <1>1, <1>2, <1>3, <1>4, <1>9, <1>12, <2>1, <2>2, Goes
<1>14. CASE t[c] = EOC /\ n \in Free /\ r = Extend(c, n) \o Seek(n, k - 1)
  <2>1. n \in Cluster /\ t[n] = FREE
    BY <1>0, <1>14 DEF Free
  <2>2. PICK Y \in SUBSET Cluster : Y = Z \cup {n}
    BY <2>1
  <2>3. Area(t, dir, file, Sure, Y)
    BY <1>0, <1>1, <1>4, <2>1, <2>2, AreaGrows
  <2>4. r = WriteFat(n, EOC) \o (WriteFat(c, n) \o Seek(n, k - 1)) /\ Fresh(r)
    <3>1. Fresh(Seek(n, k - 1))
      BY FreshLists
    <3>2. Fresh(WriteFat(c, n) \o Seek(n, k - 1))
      BY <3>1, FreshLists
    <3>3. /\ IsSequence(WriteFat(n, EOC)) /\ IsSequence(WriteFat(c, n))
          /\ IsSequence(Seek(n, k - 1))
      BY <3>1, WriteFatWhole, NothingWhole DEF Fresh
    <3>4. r = WriteFat(n, EOC) \o (WriteFat(c, n) \o Seek(n, k - 1))
      BY <1>14, <3>3, Associative DEF Extend
    <3>5. QED
      BY <3>2, <3>4, FreshLists
  <2>5. Good => n \notin Own
    BY <1>9, <1>10, <2>1, HasUsed
  <2>6. Good => op.arg - (k - 1) <= Cardinality(Own)
    BY <1>5, <1>7, <1>10, <1>11
  <2>7. Linking(r, c, n, k - 1)'
    BY <1>9, <1>10, <1>14, <2>4, <2>5, <2>6 DEF Linking
  <2>8. c \in Y /\ n \in Y /\ k - 1 \in 0 .. op.arg /\ (Good => Own \subseteq Y)
    BY <1>5, <1>6, <1>7, <2>2
  <2>9. Searching(r, Y)'
    BY <1>5, <1>9, <2>7, <2>8 DEF Searching
  <2>10. Doing(r, Y)' /\ Left(r, r)
    BY <1>5, <1>9, <2>9 DEF Doing, Left
  <2>11. QED
    BY <1>0, <1>1, <1>2, <1>3, <1>9, <1>12, <2>3, <2>4, <2>10, Goes
<1>15. CASE t[c] \notin {EOC, FREE} /\ r = Seek(t[c], k - 1)
  <2>1. t[c] \in Cluster /\ t[c] \in Z
    BY <1>4, <1>6, <1>7, <1>15 DEF Table, Value, Area, LinkClosed
  <2>2. ASSUME Good
        PROVE  /\ t[c] \in Own
               /\ op.arg - (k - 1) + Cardinality(Chain(t, t[c])) <= Cardinality(Own)
    <3>1. t[c] \in Own
      BY <1>9, <1>10, <2>1, <2>2, ChainClosed DEF LinkClosed
    <3>2. PICK x \in Own : t[x] = EOC
      <4>1. file[op.slot].first \in Cluster
        BY <1>9, <1>10, <2>2, ChainClosed
      <4>2. QED
        BY <1>9, <1>10, <2>2, <4>1 DEF Has
    <3>3. x \in Chain(t, c)
      BY <1>9, <1>10, <2>2, <3>2, EndBehind
    <3>4. Cardinality(Chain(t, c)) = Cardinality(Chain(t, t[c])) + 1
      BY <1>7, <2>1, <3>2, <3>3, OneShorter
    <3>5. QED
      BY <1>5, <1>7, <1>10, <1>11, <2>2, <3>1, <3>4
  <2>3. Seeking(r, t[c], k - 1)'
    BY <1>9, <1>10, <1>15, <2>2 DEF Seeking
  <2>4. k - 1 \in 0 .. op.arg
    BY <1>5, <1>7
  <2>5. Searching(r, Z)'
    BY <1>5, <1>9, <2>1, <2>3, <2>4 DEF Searching
  <2>6. Doing(r, Z)' /\ Left(r, r) /\ Fresh(r)
    BY <1>5, <1>9, <1>15, <2>5, FreshLists DEF Doing, Left
  <2>7. QED
    BY <1>0, <1>1, <1>2, <1>3, <1>4, <1>9, <1>12, <2>6, Goes
<1>16. QED
  BY <1>8, <1>13, <1>14, <1>15

\* The data of a cluster that the search has come to are written, or are not.
LEMMA DataHarm ==
    ASSUME HarmInv, DataWrite
    PROVE  HarmInv'
<1>0. PICK u, t, f : u = op.todo /\ t = fat[1] /\ f = file[op.slot]
  OBVIOUS
<1>1. /\ Types /\ DOMAIN op = {"kind", "slot", "arg", "todo"} /\ FilesOK(fat[1], dir, file, Sure)
      /\ file \in [Slot -> [open : BOOLEAN, first : First, size : Nat, cut : BOOLEAN]]
      /\ dir \in [Slot -> [live : BOOLEAN, name : Names \cup {0}, first : First, size : Nat]]
  BY DEF HarmInv, Types
<1>2. /\ u # << >> /\ Head(u).do = "seek" /\ Head(u).k = 0 /\ UNCHANGED <<fat, dir, suspect>>
      /\ DOMAIN op' = {"kind", "slot", "arg", "todo"} /\ op'.todo = << >>
      /\ op'.kind = op.kind /\ op'.slot = op.slot /\ op'.arg = op.arg
  BY <1>0, <1>1 DEF DataWrite, Then, Todo
<1>3. op # Idle /\ op.slot \in Slot /\ op.kind # "idle"
  BY <1>0, <1>2, NotHalf
<1>4. PICK Z \in SUBSET Cluster : Area(t, dir, file, Sure, Z) /\ Doing(u, Z)
  BY <1>0, <1>2, NotHalf
<1>5. /\ op.kind = "write" /\ file[op.slot].open /\ op.arg \in Nat
      /\ Good => Near(dir, file, op.slot) /\ Own \subseteq Z
  BY <1>2, <1>4, DoingSeek
<1>6. PICK c \in Z : Seeking(u, c, 0)
  BY <1>2, <1>4, DoingSeek
<1>7. f \in [open : BOOLEAN, first : First, size : Nat, cut : BOOLEAN] /\ f.open
  BY <1>0, <1>1, <1>3, <1>5
<1>8. PICK z \in Nat : /\ file' = [file EXCEPT ![op.slot].size = z]
                       /\ f.size <= z /\ z \in {f.size, op.arg + 1}
  <2>1. CASE UNCHANGED file
    <3>1. file' = [file EXCEPT ![op.slot].size = f.size]
      BY <1>0, <1>1, <1>3, <2>1
    <3>2. f.size \in Nat /\ f.size <= f.size /\ f.size \in {f.size, op.arg + 1}
      BY <1>7
    <3>3. QED
      BY <3>1, <3>2
  <2>2. CASE file' = [file EXCEPT ![op.slot].size =
                          IF op.arg + 1 > f.size THEN op.arg + 1 ELSE f.size]
    <3>1. PICK z : z = IF op.arg + 1 > f.size THEN op.arg + 1 ELSE f.size
      OBVIOUS
    <3>2. z \in Nat /\ f.size <= z /\ z \in {f.size, op.arg + 1}
      BY <1>5, <1>7, <3>1
    <3>3. QED
      BY <2>2, <3>1, <3>2
  <2>3. QED
    BY <1>0, <2>1, <2>2 DEF DataWrite
<1>9. /\ file' \in [Slot -> [open : BOOLEAN, first : First, size : Nat, cut : BOOLEAN]]
      /\ \A s \in Slot : s # op.slot => file'[s] = file[s]
      /\ \A s \in Slot : file'[s].open = file[s].open
      /\ file'[op.slot].open /\ file'[op.slot].first = f.first /\ file'[op.slot].size = z
      /\ file'[op.slot].cut = f.cut
  BY <1>0, <1>1, <1>3, <1>5, <1>7, <1>8
<1>10. Types'
  BY <1>1, <1>2, <1>9 DEF Types
<1>11. ASSUME Good
       PROVE  Near(dir, file', op.slot) /\ Chain(t, f.first) \subseteq Z /\ Has(t, f.first, z)
  <2>1. /\ Has(t, f.first, f.size) /\ c \in Chain(t, f.first)
        /\ op.arg - 0 + Cardinality(Chain(t, c)) <= Cardinality(Chain(t, f.first))
    BY <1>0, <1>6, <1>11 DEF Seeking, Complete, Own
  <2>2. Cardinality(Chain(t, c)) \in Nat /\ Cardinality(Chain(t, c)) >= 1
        /\ Cardinality(Chain(t, f.first)) \in Nat
    BY <1>4, <1>6, ChainSize
  <2>3. z <= Cardinality(Chain(t, f.first))
    BY <1>5, <1>7, <1>8, <2>1, <2>2 DEF Has
  <2>4. Has(t, f.first, z)
    BY <2>1, <2>3 DEF Has
  <2>5. dir[op.slot].size \in Nat
    BY <1>1, <1>3
  <2>6. Near(dir, file', op.slot)
    BY <1>0, <1>5, <1>7, <1>8, <1>9, <1>11, <2>5 DEF Near, Entered
  <2>7. QED
    BY <1>0, <1>5, <1>11, <2>4, <2>6 DEF Own
<1>12. Searching(<< >>, Z)'
  <2>1. /\ dir' = dir /\ (Good <=> Good') /\ op'.slot = op.slot
        /\ Own' = Chain(t, f.first) /\ (Complete' <=> Has(t, f.first, z))
    BY <1>0, <1>2, <1>9 DEF Good, Own, Complete
  <2>2. Good' => Near(dir', file', op'.slot) /\ Own' \subseteq Z /\ Complete'
    BY <1>11, <2>1
  <2>3. QED
    BY <2>2 DEF Searching
<1>13. Doing(<< >>, Z)' /\ Left(op'.todo, << >>) /\ Fresh(<< >>)
  BY <1>2, <1>5, <1>9, <1>12, FreshLists DEF Doing, Left
<1>14. FilesOK(fat'[1], dir, file, Sure) /\ Area(fat'[1], dir, file, Sure, Z)
  BY <1>0, <1>1, <1>2, <1>4
<1>15. QED
  BY <1>2, <1>3, <1>9, <1>10, <1>13, <1>14, Goes

\* The entries of a name, other than the one that is written, were there before.
LEMMA FoundBefore ==
    ASSUME \A s \in Slot : s # op.slot => dir'[s] = dir[s], op.slot \notin Live, op.slot \in Slot,
           NEW nm, dir'[op.slot].live => dir'[op.slot].name = nm
    PROVE  Found(nm)' \ {op.slot} \subseteq Found(nm)
BY DEF Found, Live

\* The entry is written, or the write fails before that or after it.
LEMMA EntryHarm ==
    ASSUME HarmInv, EntryWrite \/ EntryFails
    PROVE  HarmInv'
<1>0. PICK u, t, h : u = op.todo /\ t = fat[1] /\ h = Head(op.todo).e
  OBVIOUS
<1>1. /\ Types /\ DOMAIN op = {"kind", "slot", "arg", "todo"} /\ FilesOK(fat[1], dir, file, Sure)
      /\ file \in [Slot -> [open : BOOLEAN, first : First, size : Nat, cut : BOOLEAN]]
      /\ dir \in [Slot -> [live : BOOLEAN, name : Names \cup {0}, first : First, size : Nat]]
      /\ \A s \in Slot : file[s].open => dir[s].live
      /\ suspect \subseteq Slot
  BY DEF HarmInv, Types
<1>2. u # << >> /\ Head(u).do = "dir" /\ UNCHANGED <<fat, file>>
  BY <1>0 DEF EntryWrite, EntryFails, Todo
<1>3. op # Idle /\ op.slot \in Slot /\ op.kind # "idle"
  BY <1>0, <1>2, NotHalf
<1>4. PICK Z \in SUBSET Cluster : Area(t, dir, file, Sure, Z) /\ Doing(u, Z)
  BY <1>0, <1>2, NotHalf
<1>5. Tail(u) = << >>
  BY <1>2, <1>4, DoingEntry
<1>6. PICK written \in BOOLEAN, fails \in BOOLEAN :
          /\ dir' = IF written THEN [dir EXCEPT ![op.slot] = h] ELSE dir
          /\ ~ fails => written /\ suspect' = IF op.kind = "unlink" THEN suspect \ {op.slot} ELSE suspect
          /\ fails =>
                suspect' = IF \/ op.kind = "create" /\ written
                              \/ op.kind = "unlink" /\ ~ written
                              \/ op.kind = "close" /\ ~ written /\ Stale(op.slot)
                           THEN suspect \cup {op.slot}
                           ELSE IF op.kind = "close" THEN suspect ELSE suspect \ {op.slot}
          /\ op' = IF fails /\ op.kind = "create"
                   THEN [op EXCEPT !.kind = "failed", !.todo = FreeChain(op.arg)]
                   ELSE [op EXCEPT !.todo = << >>]
  <2>1. CASE EntryWrite
    <3>1. /\ dir' = [dir EXCEPT ![op.slot] = h] /\ op' = [op EXCEPT !.todo = << >>]
          /\ suspect' = IF op.kind = "unlink" THEN suspect \ {op.slot} ELSE suspect
      BY <1>0, <1>5, <2>1 DEF EntryWrite, Then
    <3>2. QED
      BY <3>1
  <2>2. CASE EntryFails
    <3>1. op' = IF op.kind = "create"
                THEN [op EXCEPT !.kind = "failed", !.todo = FreeChain(op.arg)]
                ELSE [op EXCEPT !.todo = << >>]
      BY <2>2 DEF EntryFails, Then
    <3>2. PICK written \in BOOLEAN :
             /\ dir' = IF written THEN [dir EXCEPT ![op.slot] = h] ELSE dir
             /\ suspect' = IF \/ op.kind = "create" /\ written
                              \/ op.kind = "unlink" /\ ~ written
                              \/ op.kind = "close" /\ ~ written /\ Stale(op.slot)
                           THEN suspect \cup {op.slot}
                           ELSE IF op.kind = "close" THEN suspect ELSE suspect \ {op.slot}
      BY <1>0, <2>2 DEF EntryFails
    <3>3. QED
      BY <3>1, <3>2
  <2>3. QED
    BY <2>1, <2>2
<1>7. /\ \A s \in Slot : s # op.slot => dir'[s] = dir[s] /\ file'[s] = file[s]
      /\ written => dir'[op.slot] = h
      /\ ~ written => dir' = dir
      /\ file' = file /\ fat'[1] = t
      /\ suspect' \ {op.slot} = suspect \ {op.slot} /\ suspect' \subseteq Slot
  BY <1>0, <1>1, <1>2, <1>3, <1>6
<1>8. /\ DOMAIN op' = {"kind", "slot", "arg", "todo"} /\ op'.slot = op.slot /\ op'.arg = op.arg
      /\ fails /\ op.kind = "create" => op'.kind = "failed" /\ op'.todo = FreeChain(op.arg)
      /\ ~ (fails /\ op.kind = "create") => op'.kind = op.kind /\ op'.todo = << >>
      /\ op'.kind # "idle"
  BY <1>1, <1>3, <1>6
<1>9. FilesOK(fat'[1], dir, file, Sure) /\ Area(fat'[1], dir, file, Sure, Z)
  BY <1>0, <1>1, <1>4, <1>7
<1>10. ASSUME NEW v, Doing(v, Z)', Fresh(v), op'.todo = v,
              h \in [live : BOOLEAN, name : Names \cup {0}, first : First, size : Nat],
              file[op.slot].open => h.live
       PROVE  HarmInv'
  <2>1. Types'
    <3>1. /\ dir' \in [Slot -> [live : BOOLEAN, name : Names \cup {0}, first : First, size : Nat]]
          /\ \A s \in Slot : file'[s].open => dir'[s].live
      BY <1>1, <1>3, <1>6, <1>7, <1>10
    <3>2. QED
      BY <1>1, <1>2, <1>7, <1>8, <3>1 DEF Types
  <2>2. Left(op'.todo, v)
    BY <1>10 DEF Left
  <2>3. QED
    BY <1>3, <1>7, <1>8, <1>9, <1>10, <2>1, <2>2, Goes
<1>11. CASE op.kind = "create"
  <2>1. PICK nm \in Names : Found(nm) \subseteq suspect /\ h = Entry(nm, op.arg, 0)
    BY <1>0, <1>2, <1>4, <1>11, DoingEntry
  <2>2. op.arg \in Z /\ op.slot \notin Live /\ (Good => t[op.arg] = EOC)
    BY <1>0, <1>2, <1>4, <1>11, DoingEntry
  <2>3. /\ h \in [live : BOOLEAN, name : Names \cup {0}, first : First, size : Nat]
        /\ h.live /\ h.name = nm /\ h.first = op.arg /\ h.size = 0
    BY <2>1, <2>2 DEF Entry, First
  <2>4. ~ file[op.slot].open
    BY <1>1, <1>3, <2>2 DEF Live
  <2>5. CASE ~ fails
    <3>1. dir'[op.slot] = h /\ suspect' = suspect /\ op'.kind = "create" /\ op'.todo = << >>
      BY <1>6, <1>7, <1>8, <1>11, <2>5
    <3>2. Found(nm)' \ {op.slot} \subseteq suspect'
      BY <1>3, <1>7, <2>1, <2>2, <2>3, <3>1, FoundBefore
    <3>3. Creating(<< >>, Z)'
      BY <1>3, <1>7, <1>8, <2>2, <2>3, <2>4, <3>1, <3>2 DEF Creating, Good, Live
    <3>4. QED
      BY <1>10, <2>3, <2>4, <3>1, <3>3, FreshLists DEF Doing
  <2>6. CASE fails
    <3>1. PICK v : v = FreeChain(op.arg)
      OBVIOUS
    <3>2. op'.kind = "failed" /\ op'.todo = v
      BY <1>8, <1>11, <2>6, <3>1
    <3>3. Fresh(v) /\ Releasing(v, << >>, Z)
      <4>1. v = FreeChain(op.arg) \o << >> /\ Fresh(FreeChain(op.arg) \o << >>)
        BY <3>1, Lists, FreshLists
      <4>2. QED
        BY <2>2, <4>1 DEF Releasing
    <3>4. op.slot \notin Live' \ suspect'
      <4>1. CASE written
        <5>1. op.slot \in suspect'
          BY <1>6, <1>11, <2>6, <4>1
        <5>2. QED
          BY <5>1
      <4>2. CASE ~ written
        BY <1>7, <2>2, <4>2 DEF Live
      <4>3. QED
        BY <4>1, <4>2
    <3>5. Doing(v, Z)'
      BY <1>8, <3>2, <3>3, <3>4 DEF Doing
    <3>6. QED
      BY <1>10, <2>3, <2>4, <3>2, <3>3, <3>5
  <2>7. QED
    BY <2>5, <2>6
<1>12. CASE op.kind = "unlink"
  <2>1. h = Unused /\ ~ file[op.slot].open
    BY <1>0, <1>2, <1>4, <1>12, DoingEntry
  <2>2. h \in [live : BOOLEAN, name : Names \cup {0}, first : First, size : Nat] /\ ~ h.live
    BY <2>1 DEF Unused, First, FREE
  <2>3. op.slot \notin Live' \ suspect'
    <3>1. CASE written
      BY <1>7, <2>2, <3>1 DEF Live
    <3>2. CASE ~ written
      BY <1>6, <1>12, <3>2
    <3>3. QED
      BY <3>1, <3>2
  <2>4. Doing(<< >>, Z)'
    BY <1>7, <1>8, <1>12, <2>1, <2>3 DEF Doing
  <2>5. QED
    BY <1>8, <1>10, <1>12, <2>1, <2>2, <2>4, FreshLists
<1>13. CASE op.kind = "close"
  <2>1. /\ file[op.slot].open
        /\ h = Entry(dir[op.slot].name, file[op.slot].first, file[op.slot].size)
        /\ Good => Complete /\ Own \subseteq Z /\ Near(dir, file, op.slot)
    BY <1>0, <1>2, <1>4, <1>13, DoingEntry
  <2>2. /\ h \in [live : BOOLEAN, name : Names \cup {0}, first : First, size : Nat]
        /\ h.live /\ h.first = file[op.slot].first /\ h.size = file[op.slot].size
    BY <1>1, <1>3, <2>1 DEF Entry
  <2>3. Own' = Own /\ (Complete' <=> Complete)
    BY <1>0, <1>7, <1>8 DEF Own, Complete
  <2>4. ASSUME Good' PROVE Good /\ Entered(dir', file', op.slot)
    <3>1. Good
      BY <1>6, <1>8, <1>13, <2>4 DEF Good
    <3>2. CASE written
      <4>1. file[op.slot].size \in Nat
        BY <1>1, <1>3
      <4>2. /\ dir'[op.slot].first = file'[op.slot].first
            /\ dir'[op.slot].size <= file'[op.slot].size
        BY <1>7, <2>2, <3>2, <4>1
      <4>3. QED
        BY <3>1, <4>2 DEF Entered
    <3>3. CASE ~ written
      <4>1. ~ file[op.slot].cut
        BY <1>6, <1>8, <1>13, <2>1, <2>4, <3>3 DEF Good, Stale
      <4>2. QED
        BY <1>7, <2>1, <3>1, <3>3, <4>1 DEF Near
    <3>4. QED
      BY <3>1, <3>2, <3>3
  <2>5. Closing(<< >>, Z)'
    BY <1>8, <2>1, <2>3, <2>4 DEF Closing, Near
  <2>6. Doing(<< >>, Z)'
    BY <1>7, <1>8, <1>13, <2>1, <2>5 DEF Doing
  <2>7. QED
    BY <1>8, <1>10, <1>13, <2>2, <2>6, FreshLists
<1>14. QED
  BY <1>2, <1>4, <1>11, <1>12, <1>13, DoingEntry

-----------------------------------------------------------------------------
(***************************************************************************)
(* The end of a call, and the loss of power.                               *)
(***************************************************************************)

LEMMA HasLess ==
    ASSUME NEW t, NEW h, NEW z \in Nat, NEW y \in Nat, y <= z, Has(t, h, z)
    PROVE  Has(t, h, y)
BY ChainSize DEF Has

\* The entry of a file that is open is as good as the descriptor.
LEMMA EnteredHas ==
    ASSUME NEW t, NEW d, NEW f, NEW s, Has(t, f[s].first, f[s].size), Entered(d, f, s),
           d[s].size \in Nat, f[s].size \in Nat
    PROVE  Has(t, d[s].first, d[s].size) /\ Chain(t, d[s].first) \subseteq Chain(t, f[s].first)
<1>1. CASE d[s].first = FREE /\ d[s].size = 0
  BY <1>1, HasNone
<1>2. CASE d[s].first = f[s].first /\ d[s].size <= f[s].size
  BY <1>2, HasLess
<1>3. QED
  BY <1>1, <1>2 DEF Entered

\* A new file: one cluster, the last.
LEMMA HasOne ==
    ASSUME NEW t, NEW c \in Cluster, t[c] = EOC
    PROVE  Has(t, c, 0) /\ Chain(t, c) = {c}
<1>1. Chain(t, c) = {c}
  BY ChainEnd, Marks
<1>2. QED
  BY <1>1, ChainSize DEF Has

\* A call that ends: its file is as it should be, or suspect, or gone.
LEMMA Ends ==
    ASSUME HarmInv, op # Idle, Types', op' = Idle, fat'[1] = fat[1], dir' = dir, suspect' = suspect,
           \A s \in Sure : file'[s] = file[s],
           NEW Z, Area(fat[1], dir, file, Sure, Z),
           op.slot \in Live \ suspect =>
              /\ Intact(fat[1], dir, file', op.slot)
              /\ ChainOf(fat[1], dir, file', op.slot) \subseteq Z
    PROVE  HarmInv'
<1>1. Sure' = Live \ suspect
  BY DEF Sure, Live
<1>2. Sure = (Live \ suspect) \ {op.slot}
  BY DEF Sure
<1>3. FilesOK(fat[1], dir, file, Sure)
  BY DEF HarmInv
<1>4. Kept(fat[1], fat[1], dir, file, dir, file', Sure)
  BY DEF Kept
<1>5. FilesOK(fat[1], dir, file', Sure)
  BY <1>3, <1>4, FilesKept
<1>6. \A s \in Sure : Z \cap ChainOf(fat[1], dir, file', s) = {}
  BY DEF Area, ChainOf, Hold
<1>7. FilesOK(fat[1], dir, file', Live \ suspect)
  <2>1. CASE op.slot \in Live \ suspect
    <3>1. Live \ suspect = Sure \cup {op.slot}
      BY <1>2, <2>1
    <3>2. \A s \in Sure : ChainOf(fat[1], dir, file', op.slot) \cap ChainOf(fat[1], dir, file', s) = {}
      BY <1>6, <2>1
    <3>3. FilesOK(fat[1], dir, file', Sure \cup {op.slot})
      BY <1>5, <2>1, <3>2, FilesAdd
    <3>4. QED
      BY <3>1, <3>3
  <2>2. CASE op.slot \notin Live \ suspect
    <3>1. Live \ suspect = Sure
      BY <1>2, <2>2
    <3>2. QED
      BY <1>5, <3>1
  <2>3. QED
    BY <2>1, <2>2
<1>8. QED
  BY <1>1, <1>7 DEF HarmInv

\* The call returns.
LEMMA ReturnHarm ==
    ASSUME HarmInv, Return
    PROVE  HarmInv'
<1>1. /\ Types /\ DOMAIN op = {"kind", "slot", "arg", "todo"}
      /\ file \in [Slot -> [open : BOOLEAN, first : First, size : Nat, cut : BOOLEAN]]
      /\ dir \in [Slot -> [live : BOOLEAN, name : Names \cup {0}, first : First, size : Nat]]
      /\ \A s \in Slot : file[s].open => dir[s].live
  BY DEF HarmInv, Types
<1>2. /\ op # Idle /\ op.todo = << >> /\ op' = Idle /\ UNCHANGED <<fat, dir, suspect>>
  BY DEF Return
<1>3. op.slot \in Slot
  BY <1>2 DEF HarmInv
<1>4. PICK Z : Z \in SUBSET Cluster /\ Area(fat[1], dir, file, Sure, Z) /\ Doing(<< >>, Z)
  <2>1. PICK Z, u : /\ Z \in SUBSET Cluster /\ Area(fat[1], dir, file, Sure, Z)
                    /\ Doing(u, Z) /\ Left(op.todo, u)
    BY <1>2, Unpack
  <2>2. u = << >>
    BY <1>2, <2>1 DEF Left
  <2>3. QED
    BY <2>1, <2>2
<1>5. PICK t : t = fat[1]
  OBVIOUS
<1>6. DOMAIN op' = {"kind", "slot", "arg", "todo"} /\ Sure \subseteq Slot
  BY <1>2 DEF Idle, Sure, Live
<1>7. ASSUME file' \in [Slot -> [open : BOOLEAN, first : First, size : Nat, cut : BOOLEAN]],
             \A s \in Slot : file'[s].open => dir[s].live,
             \A s \in Sure : file'[s] = file[s],
             op.slot \in Live \ suspect =>
                /\ Intact(t, dir, file', op.slot)
                /\ ChainOf(t, dir, file', op.slot) \subseteq Z
      PROVE  HarmInv'
  <2>1. Types'
    BY <1>1, <1>2, <1>6, <1>7 DEF Types
  <2>2. QED
    BY <1>2, <1>4, <1>5, <1>7, <2>1, Ends
<1>8. CASE op.kind \in {"failed", "unlink", "write"}
  <2>1. file' = file
    BY <1>8 DEF Return
  <2>2. \A e : WriteEntry(e) # << >>
    BY Heads
  <2>3. CASE op.kind \in {"failed", "unlink"}
    <3>1. op.slot \notin Live \ suspect
      <4>1. ~ Releasing(<< >>, WriteEntry(Unused), Z)
        BY <2>2, NoFree, FreshLists
      <4>2. QED
        BY <1>4, <2>3, <4>1 DEF Doing
    <3>2. QED
      BY <1>1, <1>7, <2>1, <3>1
  <2>4. CASE op.kind = "write"
    <3>1. file[op.slot].open /\ Searching(<< >>, Z)
      BY <1>4, <2>4 DEF Doing
    <3>2. \A c, k : << >> # WriteFat(c, EOC) \o Seek(c, k) /\ << >> # Seek(c, k)
      BY FreshLists, Heads
    <3>3. \A c, n, k : << >> # WriteFat(c, n) \o Seek(n, k)
      BY FreshLists, Heads
    <3>4. \A c, n, k : << >> # WriteFat(n, EOC) \o (WriteFat(c, n) \o Seek(n, k))
      <4> SUFFICES ASSUME NEW c, NEW n, NEW k
                   PROVE  << >> # WriteFat(n, EOC) \o (WriteFat(c, n) \o Seek(n, k))
        OBVIOUS
      <4>1. Fresh(Seek(n, k))
        BY FreshLists
      <4>2. Fresh(WriteFat(c, n) \o Seek(n, k))
        BY <4>1, FreshLists
      <4>3. QED
        BY <4>2, Heads
    <3>5. Good => Complete /\ Own \subseteq Z /\ Near(dir, file, op.slot)
      BY <3>1, <3>2, <3>3, <3>4 DEF Searching, Marking, Seeking, Linking
    <3>6. op.slot \in Live \ suspect =>
             /\ Intact(t, dir, file', op.slot)
             /\ ChainOf(t, dir, file', op.slot) \subseteq Z
      BY <1>5, <2>1, <3>1, <3>5 DEF Good, Complete, Own, Intact, ChainOf, Hold
    <3>7. QED
      BY <1>1, <1>7, <2>1, <3>6
  <2>5. QED
    BY <1>8, <2>3, <2>4
<1>9. CASE op.kind = "close"
  <2>1. file' = [file EXCEPT ![op.slot] = Closed]
    BY <1>9 DEF Return
  <2>2. /\ file' \in [Slot -> [open : BOOLEAN, first : First, size : Nat, cut : BOOLEAN]]
        /\ \A s \in Slot : s # op.slot => file'[s] = file[s]
        /\ ~ file'[op.slot].open
    BY <1>1, <1>3, <2>1 DEF Closed, First, FREE
  <2>3. op.slot \notin Sure
    BY <1>2 DEF Sure
  <2>4. Good => /\ Has(t, file[op.slot].first, file[op.slot].size)
                /\ Chain(t, file[op.slot].first) \subseteq Z /\ Entered(dir, file, op.slot)
    BY <1>4, <1>5, <1>9 DEF Doing, Closing, Complete, Own
  <2>5. dir[op.slot].size \in Nat /\ file[op.slot].size \in Nat
    BY <1>1, <1>3
  <2>6. Good => /\ Has(t, dir[op.slot].first, dir[op.slot].size)
                /\ Chain(t, dir[op.slot].first) \subseteq Z
    BY <2>4, <2>5, EnteredHas
  <2>7. op.slot \in Live \ suspect =>
           /\ Intact(t, dir, file', op.slot)
           /\ ChainOf(t, dir, file', op.slot) \subseteq Z
    BY <2>2, <2>6 DEF Good, Intact, ChainOf, Hold, Near
  <2>8. \A s \in Slot : file'[s].open => dir[s].live
    BY <1>1, <2>2
  <2>9. QED
    BY <1>6, <1>7, <2>2, <2>3, <2>7, <2>8
<1>10. CASE op.kind \in {"create", "trunc"}
  <2>1. PICK found : found = Found(dir[op.slot].name)
    OBVIOUS
  <2>2. PICK new : new = Opened(op.arg, 0, op.kind = "trunc")
    OBVIOUS
  <2>3. file' = [s \in Slot |-> IF s \in found THEN new ELSE file[s]]
    BY <1>10, <2>1, <2>2 DEF Return
  <2>4. found \subseteq Live /\ op.slot \notin Sure
    BY <1>2, <2>1 DEF Found, Sure
  <2>5. /\ op.arg \in First
        /\ found \ {op.slot} \subseteq suspect
        /\ op.slot \in Live \ suspect =>
              IF op.slot \in found
              THEN /\ Has(t, op.arg, 0) /\ Chain(t, op.arg) \subseteq Z
                   /\ op.kind = "create" => dir[op.slot].first = op.arg /\ dir[op.slot].size = 0
              ELSE /\ ~ file[op.slot].open /\ Has(t, dir[op.slot].first, dir[op.slot].size)
                   /\ Chain(t, dir[op.slot].first) \subseteq Z
    <3>1. CASE op.kind = "create"
      <4>1. Creating(<< >>, Z)
        BY <1>4, <3>1 DEF Doing
      <4>2. \A c, v, e : << >> # WriteFat(c, v) \o WriteEntry(e) /\ << >> # WriteEntry(e)
        BY FreshLists, Heads
      <4>3. /\ op.arg \in Z /\ op.arg \in Cluster
            /\ dir[op.slot].first = op.arg /\ dir[op.slot].size = 0
            /\ ~ file[op.slot].open /\ found \ {op.slot} \subseteq suspect
            /\ Good => t[op.arg] = EOC
        BY <1>4, <1>5, <2>1, <4>1, <4>2 DEF Creating
      <4>4. Good => Has(t, op.arg, 0) /\ Chain(t, op.arg) \subseteq Z
        BY <4>3, HasOne
      <4>5. QED
        BY <4>3, <4>4 DEF Good, First
    <3>2. CASE op.kind = "trunc"
      <4>1. op.arg = FREE /\ op.slot \in found
        BY <1>4, <2>1, <3>2 DEF Doing, FREE
      <4>2. found \ {op.slot} = {}
        <5>1. ASSUME NEW s \in found PROVE s = op.slot
          <6>1. s \in Slot /\ s <= op.slot /\ op.slot <= s
            BY <2>1, <4>1, <5>1 DEF Found, Live
          <6>2. QED
            BY <1>3, <6>1, DiskAssumption DEF Slot
        <5>2. QED
          BY <5>1
      <4>3. QED
        BY <3>2, <4>1, <4>2, HasNone DEF First
    <3>3. QED
      BY <1>10, <3>1, <3>2
  <2>6. /\ new \in [open : BOOLEAN, first : First, size : Nat, cut : BOOLEAN]
        /\ new.open /\ new.first = op.arg /\ new.size = 0 /\ (new.cut <=> op.kind = "trunc")
    BY <2>2, <2>5 DEF Opened
  <2>7. /\ file' \in [Slot -> [open : BOOLEAN, first : First, size : Nat, cut : BOOLEAN]]
        /\ \A s \in Slot : file'[s].open => dir[s].live
    BY <1>1, <2>3, <2>4, <2>6 DEF Live
  <2>8. \A s \in Sure : file'[s] = file[s]
    BY <2>3, <2>4, <2>5 DEF Sure, Live
  <2>9. ASSUME op.slot \in Live \ suspect
        PROVE  Intact(t, dir, file', op.slot) /\ ChainOf(t, dir, file', op.slot) \subseteq Z
    <3>1. CASE op.slot \in found
      <4>1. file'[op.slot] = new
        BY <1>3, <2>3, <3>1
      <4>2. Near(dir, file', op.slot)
        BY <1>10, <2>5, <2>6, <2>9, <3>1, <4>1 DEF Near, Entered
      <4>3. QED
        BY <2>5, <2>6, <2>9, <3>1, <4>1, <4>2 DEF Intact, ChainOf, Hold
    <3>2. CASE op.slot \notin found
      <4>1. file'[op.slot] = file[op.slot]
        BY <1>3, <2>3, <3>2
      <4>2. QED
        BY <2>5, <2>9, <3>2, <4>1 DEF Intact, ChainOf, Hold, Near
    <3>3. QED
      BY <3>1, <3>2
  <2>10. QED
    BY <1>7, <2>7, <2>8, <2>9
<1>11. QED
  BY <1>4, <1>8, <1>9, <1>10 DEF Doing

\* Fewer files, with other descriptors, and chains that are no more than they were.
LEMMA FilesShrink ==
    ASSUME NEW t, NEW d, NEW f, NEW k, NEW K, NEW J, FilesOK(t, d, f, K), J \subseteq K,
           \A s \in J : Intact(t, d, k, s) /\ ChainOf(t, d, k, s) \subseteq ChainOf(t, d, f, s)
    PROVE  FilesOK(t, d, k, J)
<1>1. ASSUME NEW s \in J, NEW r \in J \ {s}
      PROVE  ChainOf(t, d, k, s) \cap ChainOf(t, d, k, r) = {}
  BY DEF FilesOK
<1>2. QED
  BY <1>1 DEF FilesOK

\* A loss of power: the descriptors are lost, and the entries are as good.
LEMMA CrashHarm ==
    ASSUME HarmInv, Crash
    PROVE  HarmInv'
<1>1. /\ Types /\ FilesOK(fat[1], dir, file, Sure)
      /\ file \in [Slot -> [open : BOOLEAN, first : First, size : Nat, cut : BOOLEAN]]
      /\ dir \in [Slot -> [live : BOOLEAN, name : Names \cup {0}, first : First, size : Nat]]
      /\ \A s \in Slot : file[s].open => dir[s].live
      /\ suspect \subseteq Slot
  BY DEF HarmInv, Types
<1>2. /\ op' = Idle /\ file' = [s \in Slot |-> Closed] /\ UNCHANGED <<fat, dir>>
      /\ suspect' = (suspect \cup InDoubt) \cap Live
  BY DEF Crash
<1>3. PICK t : t = fat[1]
  OBVIOUS
<1>4. /\ file' \in [Slot -> [open : BOOLEAN, first : First, size : Nat, cut : BOOLEAN]]
      /\ \A s \in Slot : ~ file'[s].open
  BY <1>2 DEF Closed, First, FREE
<1>5. Types'
  BY <1>1, <1>2, <1>4 DEF Types, Live, Idle
<1>6. /\ Sure' = Live \ (suspect \cup InDoubt)
      /\ Live \subseteq Slot
  BY <1>2 DEF Sure, Live
<1>7. ASSUME NEW s \in Sure'
      PROVE  /\ s \in Slot /\ s \in Live /\ s \notin suspect /\ ~ Stale(s)
             /\ op.kind \in {"unlink", "trunc"} => s # op.slot
             /\ dir[s].size \in Nat /\ file[s].size \in Nat
  BY <1>1, <1>6 DEF InDoubt
<1>8. ASSUME NEW s \in Sure', s \in Sure
      PROVE  /\ Has(t, dir[s].first, dir[s].size)
             /\ Chain(t, dir[s].first) \subseteq ChainOf(t, dir, file, s)
  <2>1. Intact(t, dir, file, s)
    BY <1>1, <1>3, <1>8 DEF FilesOK
  <2>2. CASE file[s].open
    <3>1. Has(t, file[s].first, file[s].size) /\ Entered(dir, file, s)
      BY <1>7, <2>1, <2>2 DEF Intact, Near, Hold, Stale
    <3>2. ChainOf(t, dir, file, s) = Chain(t, file[s].first)
      BY <2>2 DEF ChainOf, Hold
    <3>3. dir[s].size \in Nat /\ file[s].size \in Nat
      BY <1>7, <1>8
    <3>4. /\ Has(t, dir[s].first, dir[s].size)
          /\ Chain(t, dir[s].first) \subseteq Chain(t, file[s].first)
      BY <3>1, <3>3, EnteredHas
    <3>5. QED
      BY <3>2, <3>4
  <2>3. CASE ~ file[s].open
    BY <2>1, <2>3 DEF Intact, ChainOf, Hold
  <2>4. QED
    BY <2>2, <2>3
<1>9. ASSUME NEW s \in Sure', s \notin Sure
      PROVE  \E Z : /\ Area(t, dir, file, Sure, Z)
                    /\ Has(t, dir[s].first, dir[s].size) /\ Chain(t, dir[s].first) \subseteq Z
  <2>1. op # Idle /\ s = op.slot
    BY <1>7, <1>9 DEF Sure
  <2>2. PICK Z, u : /\ Z \in SUBSET Cluster /\ Area(fat[1], dir, file, Sure, Z) /\ Doing(u, Z)
    BY <2>1, Unpack
  <2>3. Good /\ s \in Live /\ ~ Stale(s) /\ op.kind \notin {"unlink", "trunc"}
    BY <1>7, <1>9, <2>1 DEF Good
  <2>4. Has(t, dir[s].first, dir[s].size) /\ Chain(t, dir[s].first) \subseteq Z
    <3>1. CASE op.kind = "create" /\ Creating(u, Z)
      <4>1. op.arg \in Z /\ t[op.arg] = EOC /\ dir[s].first = op.arg /\ dir[s].size = 0
        BY <1>3, <2>1, <2>3, <3>1 DEF Creating
      <4>2. QED
        BY <2>2, <4>1, HasOne
    <3>2. CASE op.kind = "failed" /\ op.slot \notin Live \ suspect
      BY <2>1, <2>3, <3>2 DEF Good
    <3>3. CASE op.kind = "write" /\ file[op.slot].open /\ Searching(u, Z)
      <4>1. Own \subseteq Z /\ Entered(dir, file, s) /\ ~ file[s].cut
        BY <2>1, <2>3, <3>3 DEF Searching, Near, Stale
      <4>2. Complete \/ (dir[s].first = FREE /\ dir[s].size = 0)
        BY <2>1, <2>3, <3>3, <4>1 DEF Searching, Marking, Seeking, Linking
      <4>3. CASE Complete
        BY <1>3, <1>7, <1>9, <2>1, <4>1, <4>3, EnteredHas DEF Own, Complete
      <4>4. CASE dir[s].first = FREE /\ dir[s].size = 0
        BY <4>4, HasNone
      <4>5. QED
        BY <4>2, <4>3, <4>4
    <3>4. CASE op.kind = "close" /\ file[op.slot].open /\ Closing(u, Z)
      <4>1. Own \subseteq Z /\ Complete /\ Entered(dir, file, s)
        BY <2>1, <2>3, <3>4 DEF Closing, Near, Stale
      <4>2. QED
        BY <1>3, <1>7, <1>9, <2>1, <4>1, EnteredHas DEF Own, Complete
    <3>5. QED
      BY <2>2, <2>3, <3>1, <3>2, <3>3, <3>4 DEF Doing
  <2>5. QED
    BY <1>3, <2>2, <2>4
<1>10. PICK J : J = Sure' \cap Sure
  OBVIOUS
<1>11. PICK k : k = file'
  OBVIOUS
<1>12. \A s \in Sure' : /\ Intact(t, dir, k, s) <=> Has(t, dir[s].first, dir[s].size)
                        /\ ChainOf(t, dir, k, s) = Chain(t, dir[s].first)
  BY <1>4, <1>7, <1>11 DEF Intact, ChainOf, Hold, Near
<1>13. FilesOK(t, dir, k, J)
  <2>1. FilesOK(t, dir, file, Sure) /\ J \subseteq Sure
    BY <1>1, <1>3, <1>10
  <2>2. \A s \in J : Intact(t, dir, k, s) /\ ChainOf(t, dir, k, s) \subseteq ChainOf(t, dir, file, s)
    BY <1>8, <1>10, <1>12
  <2>3. QED
    BY <2>1, <2>2, FilesShrink
<1>14. FilesOK(t, dir, k, Sure')
  <2>1. CASE \E s \in Sure' : s \notin Sure
    <3>1. PICK s \in Sure' : s \notin Sure
      BY <2>1
    <3>2. s = op.slot /\ Sure' = J \cup {s}
      BY <1>7, <1>10, <3>1 DEF Sure
    <3>3. PICK Z : /\ Area(t, dir, file, Sure, Z)
                   /\ Has(t, dir[s].first, dir[s].size) /\ Chain(t, dir[s].first) \subseteq Z
      BY <1>9, <3>1
    <3>4. Intact(t, dir, k, s)
      BY <1>12, <3>3
    <3>5. \A r \in J : ChainOf(t, dir, k, s) \cap ChainOf(t, dir, k, r) = {}
      <4>1. ASSUME NEW r \in J PROVE ChainOf(t, dir, k, s) \cap ChainOf(t, dir, k, r) = {}
        <5>1. Z \cap ChainOf(t, dir, file, r) = {}
          BY <1>10, <3>3 DEF Area
        <5>2. ChainOf(t, dir, k, r) \subseteq ChainOf(t, dir, file, r)
          BY <1>8, <1>10, <1>12
        <5>3. ChainOf(t, dir, k, s) \subseteq Z
          BY <1>12, <3>3
        <5>4. QED
          BY <5>1, <5>2, <5>3
      <4>2. QED
        BY <4>1
    <3>6. FilesOK(t, dir, k, J \cup {s})
      BY <1>13, <3>4, <3>5, FilesAdd
    <3>7. QED
      BY <3>2, <3>6
  <2>2. CASE \A s \in Sure' : s \in Sure
    <3>1. J = Sure'
      BY <1>10, <2>2
    <3>2. QED
      BY <1>13, <3>1
  <2>3. QED
    BY <2>1, <2>2
<1>15. QED
  BY <1>2, <1>3, <1>5, <1>11, <1>14 DEF HarmInv

-----------------------------------------------------------------------------
(***************************************************************************)
(* The start of a call.                                                    *)
(***************************************************************************)

LEMMA Begin ==
    ASSUME HarmInv, op = Idle, Types', fat'[1] = fat[1], dir' = dir, op'.kind # "idle",
           NEW s \in Slot, op'.slot = s, suspect \subseteq suspect',
           \A r \in Slot : r # s => file'[r] = file[r],
           NEW J, J = Live \ (suspect' \cup {s}),
           NEW Z \in SUBSET Cluster, Area(fat[1], dir, file, J, Z),
           NEW u, Fresh(u), op'.todo = u, Doing(u, Z)'
    PROVE  HarmInv'
<1>1. op' # Idle
  BY DEF Idle
<1>2. Sure' = J /\ J \subseteq Sure /\ J \subseteq Slot /\ s \notin J
  BY <1>1 DEF Sure, Live
<1>3. FilesOK(fat[1], dir, file, Sure)
  BY DEF HarmInv
<1>4. Kept(fat[1], fat[1], dir, file, dir, file', J)
  BY <1>2 DEF Kept
<1>5. FilesOK(fat[1], dir, file', J)
  BY <1>2, <1>3, <1>4, FilesKept
<1>6. Area(fat[1], dir, file', J, Z)
  BY <1>2, AreaKept
<1>7. Pending(op'.todo) = u
  BY DEF Pending, Fresh
<1>8. QED
  BY <1>1, <1>2, <1>5, <1>6, <1>7 DEF HarmInv

\* No call in progress, then as before.
LEMMA Rests ==
    ASSUME HarmInv, op = Idle, op' = Idle, Types', fat'[1] = fat[1], dir' = dir,
           suspect \subseteq suspect',
           \A s \in Sure : /\ Intact(fat[1], dir, file', s)
                           /\ ChainOf(fat[1], dir, file', s) = ChainOf(fat[1], dir, file, s)
    PROVE  HarmInv'
<1>1. Sure' \subseteq Sure
  BY DEF Sure, Live
<1>2. FilesOK(fat[1], dir, file, Sure)
  BY DEF HarmInv
<1>3. PICK k : k = file'
  OBVIOUS
<1>4. FilesOK(fat[1], dir, k, Sure')
  BY <1>1, <1>2, <1>3, FilesShrink
<1>5. QED
  BY <1>3, <1>4 DEF HarmInv

\* Its own clusters are the area of a call, if the files that share any are suspect.
LEMMA OwnArea ==
    ASSUME HarmInv, op = Idle, NEW s \in Live, NEW J, J \subseteq Live \ (suspect \cup Sharing(s) \cup {s})
    PROVE  /\ Area(fat[1], dir, file, J, Owned(s)) /\ Owned(s) \in SUBSET Cluster
           /\ Owned(s) = Chain(fat[1], Hold(dir, file, s).first)
<1>1. \A r \in Slot : Owned(r) = ChainOf(fat[1], dir, file, r)
  BY DEF Owned, Holder, ChainOf, Hold
<1>2. s \in Slot /\ J \subseteq Slot
  BY DEF Live
<1>3. \A r \in J : Owned(s) \cap Owned(r) = {}
  <2>1. CASE s \in suspect
    BY <2>1 DEF Sharing
  <2>2. CASE s \notin suspect
    <3>1. s \in Sure /\ J \subseteq Sure \ {s}
      BY <2>2 DEF Sure
    <3>2. QED
      BY <1>1, <1>2, <3>1 DEF HarmInv, FilesOK
  <2>3. QED
    BY <2>1, <2>2
<1>4. Owned(s) = Chain(fat[1], Hold(dir, file, s).first)
  BY <1>1, <1>2 DEF ChainOf
<1>5. \A r \in J : Chain(fat[1], Hold(dir, file, s).first) \cap ChainOf(fat[1], dir, file, r) = {}
  BY <1>1, <1>2, <1>3, <1>4
<1>6. QED
  BY <1>4, <1>5, AreaOfChain, ChainClosed

\* So is a cluster that is free.
LEMMA FreeArea ==
    ASSUME HarmInv, op = Idle, NEW J, J \subseteq Live \ suspect, NEW c \in Cluster, fat[1][c] = FREE
    PROVE  Area(fat[1], dir, file, J, {c})
<1>1. J \subseteq Sure /\ FilesOK(fat[1], dir, file, Sure)
  BY DEF HarmInv, Sure
<1>2. FilesOK(fat[1], dir, file, J)
  BY <1>1 DEF FilesOK
<1>3. Area(fat[1], dir, file, J, {} \cup {c})
  BY <1>2, AreaNone, AreaGrows
<1>4. QED
  BY <1>3

LEMMA Taken ==
    ASSUME NEW c \in First, NEW e, Allocated(c, e), c # FREE
    PROVE  c \in Cluster /\ fat[1][c] = FREE
BY DEF Allocated, Free, First

LEMMA OpenNewHarm ==
    ASSUME HarmInv, NEW name \in Names, NEW c \in First, NEW e, OpenNew(name, c, e)
    PROVE  HarmInv'
<1>1. op = Idle /\ UNCHANGED <<fat, dir, file>> /\ Types
  BY DEF OpenNew, HarmInv
<1>2. PICK s \in FreeSlot :
         /\ \E a : Allocated(c, a)
         /\ \/ c = FREE /\ UNCHANGED <<op, suspect>>
            \/ /\ c # FREE
               /\ suspect' = suspect \cup Found(name)
               /\ Start("create", s, c, WriteFat(c, EOC) \o WriteEntry(Entry(name, c, 0)))
  BY DEF OpenNew
<1>3. s \in Slot /\ s \notin Live
  BY DEF FreeSlot
<1>4. CASE UNCHANGED <<op, suspect>>
  <2>1. Types'
    BY <1>1, <1>4 DEF Types
  <2>2. \A r \in Sure : /\ Intact(fat[1], dir, file', r)
                        /\ ChainOf(fat[1], dir, file', r) = ChainOf(fat[1], dir, file, r)
    BY <1>1 DEF HarmInv, FilesOK
  <2>3. QED
    BY <1>1, <1>4, <2>1, <2>2, Rests
<1>5. CASE /\ c # FREE
           /\ suspect' = suspect \cup Found(name)
           /\ Start("create", s, c, WriteFat(c, EOC) \o WriteEntry(Entry(name, c, 0)))
  <2>1. c \in Cluster /\ fat[1][c] = FREE
    BY <1>2, <1>5, Taken
  <2>2. PICK u : u = WriteFat(c, EOC) \o WriteEntry(Entry(name, c, 0))
    OBVIOUS
  <2>3. /\ op'.kind = "create" /\ op'.slot = s /\ op'.arg = c /\ op'.todo = u
        /\ DOMAIN op' = {"kind", "slot", "arg", "todo"}
    BY <1>5, <2>2 DEF Start
  <2>4. Found(name) \subseteq Slot
    BY DEF Found, Live
  <2>5. Types'
    BY <1>1, <1>5, <2>3, <2>4 DEF Types
  <2>6. PICK J : J = Live \ (suspect' \cup {s})
    OBVIOUS
  <2>7. Area(fat[1], dir, file, J, {c})
    BY <1>1, <1>5, <2>1, <2>6, FreeArea
  <2>8. Fresh(u)
    BY <2>2, FreshLists
  <2>9. Live' = Live /\ Found(name)' = Found(name)
    BY <1>1 DEF Live, Found
  <2>10. Creating(u, {c})'
    BY <1>3, <1>5, <2>2, <2>3, <2>9 DEF Creating
  <2>11. Doing(u, {c})'
    BY <2>3, <2>10 DEF Doing
  <2>12. QED
    BY <1>1, <1>3, <1>5, <2>1, <2>3, <2>5, <2>6, <2>7, <2>8, <2>11, Begin
<1>6. QED
  BY <1>2, <1>4, <1>5

\* The chain of the entry is one to release, with r after it.
LEMMA ReleasesOwn ==
    ASSUME NEW t, NEW c \in First, NEW r
    PROVE  Releasing(FreeChain(c) \o r, r, Chain(t, c))
<1>1. c \in Chain(t, c) \cup (Value \ Cluster)
  BY ChainClosed DEF First, Value
<1>2. QED
  BY <1>1 DEF Releasing

LEMMA OpenExistingHarm ==
    ASSUME HarmInv, NEW s \in Live, NEW trunc, OpenExisting(s, trunc)
    PROVE  HarmInv'
<1>1. /\ op = Idle /\ UNCHANGED <<fat, dir>> /\ Types /\ s \in Slot
      /\ s \in Found(dir[s].name) /\ ~ file[s].open
      /\ dir \in [Slot -> [live : BOOLEAN, name : Names \cup {0}, first : First, size : Nat]]
      /\ file \in [Slot -> [open : BOOLEAN, first : First, size : Nat, cut : BOOLEAN]]
  BY DEF OpenExisting, HarmInv, Types, Live
<1>2. CASE /\ Start("trunc", s, 0, FreeChain(dir[s].first))
           /\ suspect' = suspect \cup Sharing(s)
           /\ UNCHANGED file
  <2>1. PICK u : u = FreeChain(dir[s].first)
    OBVIOUS
  <2>2. /\ op'.kind = "trunc" /\ op'.slot = s /\ op'.arg = 0 /\ op'.todo = u
        /\ DOMAIN op' = {"kind", "slot", "arg", "todo"}
    BY <1>2, <2>1 DEF Start
  <2>3. Types'
    BY <1>1, <1>2, <2>2 DEF Types, Sharing, Live
  <2>4. PICK J : J = Live \ (suspect' \cup {s})
    OBVIOUS
  <2>5. PICK Z : Z = Owned(s)
    OBVIOUS
  <2>6. /\ Area(fat[1], dir, file, J, Z) /\ Z \in SUBSET Cluster
        /\ Z = Chain(fat[1], dir[s].first)
    <3>1. J \subseteq Live \ (suspect \cup Sharing(s) \cup {s})
      BY <1>2, <2>4
    <3>2. QED
      BY <1>1, <2>5, <3>1, OwnArea DEF Hold
  <2>7. dir[s].first \in First
    BY <1>1
  <2>8. u = FreeChain(dir[s].first) \o << >>
    BY <2>1, Lists
  <2>9. Fresh(u) /\ Releasing(u, << >>, Z)
    BY <2>6, <2>7, <2>8, ReleasesOwn, FreshLists
  <2>10. (op.slot \in Found(dir[op.slot].name))'
    BY <1>1, <2>2 DEF Found, Live
  <2>11. Doing(u, Z)'
    BY <1>1, <1>2, <2>2, <2>9, <2>10 DEF Doing
  <2>12. QED
    BY <1>1, <1>2, <2>2, <2>3, <2>4, <2>6, <2>9, <2>11, Begin
<1>3. CASE /\ file' = [file EXCEPT ![s] = Opened(dir[s].first, dir[s].size, FALSE)]
           /\ UNCHANGED <<op, suspect>>
  <2>1. /\ \A r \in Slot : r # s => file'[r] = file[r]
        /\ file' \in [Slot -> [open : BOOLEAN, first : First, size : Nat, cut : BOOLEAN]]
        /\ file'[s].open /\ file'[s].first = dir[s].first /\ file'[s].size = dir[s].size
        /\ dir[s].size \in Nat /\ dir[s].live
    BY <1>1, <1>3 DEF Opened, Live
  <2>2. Types'
    BY <1>1, <1>3, <2>1 DEF Types
  <2>3. ASSUME NEW r \in Sure
        PROVE  /\ Intact(fat[1], dir, file', r)
               /\ ChainOf(fat[1], dir, file', r) = ChainOf(fat[1], dir, file, r)
    <3>1. r \in Slot /\ Intact(fat[1], dir, file, r)
      BY DEF HarmInv, FilesOK, Sure, Live
    <3>2. CASE r = s
      <4>1. Near(dir, file', r)
        BY <2>1, <3>2 DEF Near, Entered
      <4>2. Hold(dir, file', r) = file'[s] /\ Hold(dir, file, r) = dir[s]
        BY <1>1, <2>1, <3>2 DEF Hold
      <4>3. QED
        BY <2>1, <3>1, <4>1, <4>2 DEF Intact, ChainOf
    <3>3. CASE r # s
      BY <2>1, <3>1, <3>3 DEF Intact, ChainOf, Hold, Near, Entered
    <3>4. QED
      BY <3>2, <3>3
  <2>4. QED
    BY <1>1, <1>3, <2>2, <2>3, Rests
<1>4. QED
  BY <1>2, <1>3 DEF OpenExisting

LEMMA UnlinkHarm ==
    ASSUME HarmInv, NEW s \in Live, Unlink(s)
    PROVE  HarmInv'
<1>1. /\ op = Idle /\ UNCHANGED <<fat, dir, file>> /\ Types /\ s \in Slot
      /\ ~ file[s].open /\ suspect' = suspect \cup Sharing(s)
      /\ dir \in [Slot -> [live : BOOLEAN, name : Names \cup {0}, first : First, size : Nat]]
  BY DEF Unlink, HarmInv, Types, Live
<1>2. PICK u : u = FreeChain(dir[s].first) \o WriteEntry(Unused)
  OBVIOUS
<1>3. /\ op'.kind = "unlink" /\ op'.slot = s /\ op'.todo = u
      /\ DOMAIN op' = {"kind", "slot", "arg", "todo"}
  BY <1>2 DEF Unlink, Start
<1>4. Types'
  BY <1>1, <1>3 DEF Types, Sharing, Live
<1>5. PICK J : J = Live \ (suspect' \cup {s})
  OBVIOUS
<1>6. PICK Z : Z = Owned(s)
  OBVIOUS
<1>7. /\ Area(fat[1], dir, file, J, Z) /\ Z \in SUBSET Cluster
      /\ Z = Chain(fat[1], dir[s].first)
  <2>1. J \subseteq Live \ (suspect \cup Sharing(s) \cup {s})
    BY <1>1, <1>5
  <2>2. QED
    BY <1>1, <1>6, <2>1, OwnArea DEF Hold
<1>8. dir[s].first \in First
  BY <1>1
<1>9. Fresh(u) /\ Releasing(u, WriteEntry(Unused), Z)
  BY <1>2, <1>7, <1>8, ReleasesOwn, FreshLists
<1>10. Doing(u, Z)'
  BY <1>1, <1>3, <1>9 DEF Doing
<1>11. QED
  BY <1>1, <1>3, <1>4, <1>5, <1>7, <1>9, <1>10, Begin

LEMMA CloseHarm ==
    ASSUME HarmInv, NEW s \in Live, Close(s)
    PROVE  HarmInv'
<1>1. /\ op = Idle /\ UNCHANGED <<fat, dir, file, suspect>> /\ Types /\ s \in Slot /\ file[s].open
  BY DEF Close, HarmInv, Types, Live
<1>2. PICK u : u = WriteEntry(Entry(dir[s].name, file[s].first, file[s].size))
  OBVIOUS
<1>3. /\ op'.kind = "close" /\ op'.slot = s /\ op'.todo = u
      /\ DOMAIN op' = {"kind", "slot", "arg", "todo"}
  BY <1>2 DEF Close, Start
<1>4. Types'
  BY <1>1, <1>3 DEF Types
<1>5. PICK J : J = Live \ (suspect' \cup {s})
  OBVIOUS
<1>6. PICK Z : Z = IF s \in suspect THEN {} ELSE Owned(s)
  OBVIOUS
<1>7. /\ Area(fat[1], dir, file, J, Z) /\ Z \in SUBSET Cluster
      /\ s \notin suspect => Z = Chain(fat[1], file[s].first)
  <2>1. CASE s \in suspect
    BY <1>6, <2>1, AreaNone
  <2>2. CASE s \notin suspect
    <3>1. J \subseteq Live \ (suspect \cup Sharing(s) \cup {s})
      BY <1>1, <1>5, <2>2 DEF Sharing
    <3>2. QED
      BY <1>1, <1>6, <2>2, <3>1, OwnArea DEF Hold
  <2>3. QED
    BY <2>1, <2>2
<1>8. s \notin suspect => Intact(fat[1], dir, file, s)
  BY <1>1 DEF HarmInv, FilesOK, Sure
<1>9. Closing(u, Z)'
  <2>1. \A e : WriteEntry(e) # << >>
    BY Heads
  <2>2. Good' => /\ Complete' /\ Own' \subseteq Z /\ Near(dir', file', op'.slot)
    BY <1>1, <1>3, <1>7, <1>8 DEF Good, Complete, Own, Intact, Hold
  <2>3. QED
    BY <1>1, <1>2, <1>3, <2>1, <2>2 DEF Closing
<1>10. Doing(u, Z)'
  BY <1>1, <1>3, <1>9 DEF Doing
<1>11. Fresh(u)
  BY <1>2, FreshLists
<1>12. QED
  BY <1>1, <1>3, <1>4, <1>5, <1>7, <1>10, <1>11, Begin

LEMMA WriteHarm ==
    ASSUME HarmInv, NEW s \in Live, NEW pos \in Nat, NEW c \in First, NEW e, Write(s, pos, c, e)
    PROVE  HarmInv'
<1>0. PICK t, f : t = fat[1] /\ f = file[s]
  OBVIOUS
<1>1. /\ op = Idle /\ UNCHANGED <<fat, dir>> /\ Types /\ s \in Slot /\ f.open
      /\ suspect' = suspect \cup Sharing(s) /\ Sharing(s) \subseteq Slot
      /\ dir \in [Slot -> [live : BOOLEAN, name : Names \cup {0}, first : First, size : Nat]]
      /\ file \in [Slot -> [open : BOOLEAN, first : First, size : Nat, cut : BOOLEAN]]
      /\ \A r \in Slot : file[r].open => dir[r].live
      /\ suspect \subseteq Slot /\ DOMAIN fat = 1 .. 2 /\ fat[1] \in Table
      /\ DOMAIN op = {"kind", "slot", "arg", "todo"}
  BY <1>0 DEF Write, HarmInv, Types, Live, Sharing
<1>2. PICK J : J = Live \ (suspect' \cup {s})
  OBVIOUS
<1>3. s \notin suspect => Has(t, f.first, f.size) /\ Near(dir, file, s)
  BY <1>0, <1>1 DEF HarmInv, FilesOK, Sure, Intact, Hold
<1>4. f.first \in First /\ f.size \in Nat /\ dir[s].size \in Nat
  BY <1>0, <1>1
<1>5. CASE /\ f.first # FREE /\ c = f.first
           /\ Start("write", s, pos, Seek(c, pos))
           /\ UNCHANGED file
  <2>1. PICK u : u = Seek(c, pos)
    OBVIOUS
  <2>2. /\ op'.kind = "write" /\ op'.slot = s /\ op'.arg = pos /\ op'.todo = u
        /\ DOMAIN op' = {"kind", "slot", "arg", "todo"}
    BY <1>5, <2>1 DEF Start
  <2>3. Types'
    BY <1>1, <1>5, <2>2 DEF Types
  <2>4. PICK Z : Z = Owned(s)
    OBVIOUS
  <2>5. Area(fat[1], dir, file, J, Z) /\ Z \in SUBSET Cluster /\ Z = Chain(t, c)
    <3>1. J \subseteq Live \ (suspect \cup Sharing(s) \cup {s})
      BY <1>1, <1>2
    <3>2. QED
      BY <1>0, <1>1, <1>5, <2>4, <3>1, OwnArea DEF Hold
  <2>6. c \in Z /\ Cardinality(Z) \in Nat
    BY <1>4, <1>5, <2>5, ChainClosed, ChainSize DEF First
  <2>7. Good' => Complete' /\ Near(dir, file, s)'
    BY <1>0, <1>1, <1>3, <1>5, <2>2 DEF Good, Complete, Near, Entered
  <2>8. Own' = Z
    BY <1>0, <1>1, <1>5, <2>2, <2>5 DEF Own
  <2>9. Seeking(u, c, pos)'
    <3>1. pos - pos + Cardinality(Z) <= Cardinality(Z)
      BY <2>6
    <3>2. QED
      BY <1>0, <1>1, <2>1, <2>2, <2>5, <2>6, <2>7, <2>8, <3>1 DEF Seeking
  <2>10. pos \in 0 .. op'.arg
    BY <2>2
  <2>11. Searching(u, Z)'
    BY <2>2, <2>6, <2>7, <2>8, <2>9, <2>10 DEF Searching
  <2>12. Doing(u, Z)'
    BY <1>0, <1>1, <1>5, <2>2, <2>11 DEF Doing
  <2>13. Fresh(u)
    BY <2>1, FreshLists
  <2>14. QED
    BY <1>1, <1>2, <1>5, <2>2, <2>3, <2>5, <2>12, <2>13, Begin
<1>6. CASE f.first = FREE /\ file' = [file EXCEPT ![s].first = c] /\ c = FREE /\ UNCHANGED op
  <2>1. file' = file
    BY <1>0, <1>1, <1>6
  <2>2. Types'
    BY <1>1, <1>6, <2>1 DEF Types
  <2>3. \A r \in Sure : /\ Intact(fat[1], dir, file', r)
                        /\ ChainOf(fat[1], dir, file', r) = ChainOf(fat[1], dir, file, r)
    BY <2>1 DEF HarmInv, FilesOK
  <2>4. QED
    BY <1>1, <1>6, <2>2, <2>3, Rests
<1>7. CASE /\ f.first = FREE /\ file' = [file EXCEPT ![s].first = c] /\ c # FREE
           /\ Allocated(c, e)
           /\ Start("write", s, pos, WriteFat(c, EOC) \o Seek(c, pos))
  <2>1. PICK u : u = WriteFat(c, EOC) \o Seek(c, pos)
    OBVIOUS
  <2>2. /\ op'.kind = "write" /\ op'.slot = s /\ op'.arg = pos /\ op'.todo = u
        /\ DOMAIN op' = {"kind", "slot", "arg", "todo"}
    BY <1>7, <2>1 DEF Start
  <2>3. c \in Cluster /\ t[c] = FREE
    BY <1>0, <1>7, Taken
  <2>4. /\ \A r \in Slot : r # s => file'[r] = file[r]
        /\ \A r \in Slot : file'[r].open = file[r].open
        /\ file' \in [Slot -> [open : BOOLEAN, first : First, size : Nat, cut : BOOLEAN]]
        /\ file'[s].first = c /\ file'[s].size = f.size /\ file'[s].cut = f.cut
    BY <1>0, <1>1, <1>7
  <2>5. Types'
    BY <1>1, <2>2, <2>4 DEF Types
  <2>6. Area(fat[1], dir, file, J, {c})
    BY <1>0, <1>1, <1>2, <2>3, FreeArea
  <2>7. Own' = {c}
    <3>1. Chain(t, c) = {c}
      BY <2>3, ChainEnd, Marks
    <3>2. QED
      BY <1>0, <1>1, <2>2, <2>4, <3>1 DEF Own
  <2>8. ASSUME s \notin suspect
        PROVE  f.size = 0 /\ (f.cut \/ (dir[s].first = FREE /\ dir[s].size = 0))
    <3>1. Cardinality(Chain(t, FREE)) = 0
      BY Marks, ChainSize
    <3>2. f.size = 0
      BY <1>3, <1>4, <1>7, <2>8, <3>1 DEF Has
    <3>3. f.cut \/ Entered(dir, file, s)
      BY <1>0, <1>1, <1>3, <2>8 DEF Near
    <3>4. QED
      BY <1>0, <1>4, <1>7, <3>2, <3>3 DEF Entered
  <2>9. Good' => s \notin suspect
    BY <1>1, <2>2 DEF Good
  <2>10. Near(dir, file, s)' \/ ~ Good'
    BY <1>1, <2>4, <2>8, <2>9 DEF Near, Entered
  <2>11. Marking(u, c, pos)'
    BY <1>1, <2>1, <2>2, <2>4, <2>8, <2>9 DEF Marking
  <2>12. pos \in 0 .. op'.arg
    BY <2>2
  <2>13. Searching(u, {c})'
    BY <2>2, <2>7, <2>10, <2>11, <2>12 DEF Searching
  <2>14. Doing(u, {c})'
    BY <1>0, <1>1, <2>2, <2>4, <2>13 DEF Doing
  <2>15. Fresh(u)
    BY <2>1, FreshLists
  <2>16. QED
    BY <1>1, <1>2, <2>2, <2>3, <2>4, <2>5, <2>6, <2>14, <2>15, Begin
<1>8. QED
  BY <1>0, <1>5, <1>6, <1>7 DEF Write, FREE

-----------------------------------------------------------------------------
(***************************************************************************)
(* The theorem.                                                            *)
(***************************************************************************)

LEMMA HarmInit ==
    ASSUME Init
    PROVE  HarmInv
<1>1. /\ DOMAIN fat = 1 .. 2 /\ fat[1] = [c \in Cluster |-> FREE] /\ op = Idle /\ suspect = {}
      /\ dir = [s \in Slot |-> Unused] /\ file = [s \in Slot |-> Closed]
  BY DEF Init
<1>2. Types
  BY <1>1 DEF Types, Table, Value, First, Unused, Closed, Idle, FREE
<1>3. Sure = {}
  BY <1>1 DEF Sure, Live, Unused
<1>4. QED
  BY <1>1, <1>2, <1>3 DEF HarmInv, FilesOK

LEMMA HarmStep ==
    ASSUME HarmInv, [Next]_vars
    PROVE  HarmInv'
<1>1. ASSUME NEW name \in Names, NEW c \in Cluster \cup {FREE}, NEW e \in 0 .. MaxFaults, OpenNew(name, c, e)
      PROVE  HarmInv'
  BY <1>1, OpenNewHarm DEF First
<1>2. ASSUME NEW s \in Live, NEW trunc \in BOOLEAN, OpenExisting(s, trunc)
      PROVE  HarmInv'
  BY <1>2, OpenExistingHarm
<1>3. ASSUME NEW s \in Live, NEW pos \in 0 .. MaxPos, NEW c \in Cluster \cup {FREE},
             NEW e \in 0 .. MaxFaults, Write(s, pos, c, e)
      PROVE  HarmInv'
  <2>1. pos \in Nat
    BY DiskAssumption
  <2>2. QED
    BY <1>3, <2>1, WriteHarm DEF First
<1>4. ASSUME NEW s \in Live, Close(s)
      PROVE  HarmInv'
  BY <1>4, CloseHarm
<1>5. ASSUME NEW s \in Live, Unlink(s)
      PROVE  HarmInv'
  BY <1>5, UnlinkHarm
<1>6. CASE FatWrite \/ FatFails
  BY <1>6, FatHarm
<1>7. CASE FreeStep
  BY <1>7, FreeHarm
<1>8. ASSUME NEW n \in Cluster \cup {FREE}, NEW e \in 0 .. MaxFaults, SeekStep(n, e)
      PROVE  HarmInv'
  BY <1>8, SeekHarm
<1>9. CASE DataWrite
  BY <1>9, DataHarm
<1>10. CASE EntryWrite \/ EntryFails
  BY <1>10, EntryHarm
<1>11. CASE Return
  BY <1>11, ReturnHarm
<1>12. CASE Crash
  BY <1>12, CrashHarm
<1>13. CASE UNCHANGED vars
  <2>1. UNCHANGED <<fat, dir, file, op, suspect>>
    BY <1>13 DEF vars
  <2>2. Types /\ FilesOK(fat[1], dir, file, Sure)
    BY DEF HarmInv
  <2>3. Types' /\ FilesOK(fat[1], dir, file, Sure)' /\ Sure' = Sure
    <3>1. Types'
      BY <2>1, <2>2 DEF Types
    <3>2. Sure' = Sure
      BY <2>1 DEF Sure, Live
    <3>3. QED
      BY <2>1, <2>2, <3>1, <3>2
  <2>4. CASE op = Idle
    BY <2>1, <2>3, <2>4 DEF HarmInv
  <2>5. CASE op # Idle
    <3>1. PICK Z \in SUBSET Cluster :
              Area(fat[1], dir, file, Sure, Z) /\ Doing(Pending(op.todo), Z)
      BY <2>5 DEF HarmInv
    <3>2. PICK u : u = Pending(op.todo)
      OBVIOUS
    <3>3. Doing(u, Z)'
      BY <2>1, <3>1, <3>2, DoingSame DEF SameCall
    <3>4. Pending(op'.todo) = u /\ op.slot \in Slot
      BY <2>1, <2>5, <3>2 DEF HarmInv
    <3>5. QED
      BY <2>1, <2>3, <3>1, <3>3, <3>4 DEF HarmInv
  <2>6. QED
    BY <2>4, <2>5
<1>14. QED
  BY <1>1, <1>2, <1>3, <1>4, <1>5, <1>6, <1>7, <1>8, <1>9, <1>10, <1>11, <1>12, <1>13 DEF Next

LEMMA HarmShown ==
    ASSUME HarmInv
    PROVE  HarmContained
<1>1. \A s \in Slot : /\ Owned(s) = Chain(fat[1], Hold(dir, file, s).first)
                      /\ Owned(s) = ChainOf(fat[1], dir, file, s)
                      /\ Holder(s) = Hold(dir, file, s)
  BY DEF Owned, Holder, ChainOf, Hold
<1>2. Sure \subseteq Slot /\ FilesOK(fat[1], dir, file, Sure)
  BY DEF HarmInv, Sure, Live
<1>3. ASSUME NEW s \in Sure
      PROVE  Sound(s) /\ \A r \in Sure \ {s} : Owned(s) \cap Owned(r) = {}
  <2>1. PICK h, z, t : h = Hold(dir, file, s).first /\ z = Hold(dir, file, s).size /\ t = fat[1]
    OBVIOUS
  <2>2. Has(t, h, z) /\ Owned(s) = Chain(t, h)
    BY <1>1, <1>2, <2>1 DEF FilesOK, Intact
  <2>3. \A c \in Owned(s) : t[c] # FREE
    BY <2>2, HasUsed
  <2>4. Owned(s) # {} => \E c \in Owned(s) : t[c] = EOC
    BY <2>2, ChainClosed DEF Has
  <2>5. Cardinality(Owned(s)) >= Holder(s).size
    <3>1. Holder(s).size \in Nat /\ Holder(s).size = z
      BY <1>1, <1>2, <2>1 DEF HarmInv, Types, Hold
    <3>2. Cardinality(Owned(s)) \in Nat
      BY <2>2, ChainSize
    <3>3. QED
      BY <2>2, <3>1, <3>2 DEF Has
  <2>6. Sound(s)
    BY <2>1, <2>3, <2>4, <2>5 DEF Sound
  <2>7. QED
    BY <1>1, <1>2, <2>6 DEF FilesOK
<1>4. QED
  BY <1>3 DEF HarmContained, Sure

\* A failed disk access or a loss of power harms no file but the one whose call it
\* cuts short: every other file's chain in the table is in use, ends with an end mark,
\* is as long as its size asks, and shares no cluster (fat32_write, fat32_open,
\* fat32_unlink and what they call, with their order of disk accesses).
THEOREM HarmStaysContained == Spec => []HarmContained
<1>1. Init => HarmInv
  BY HarmInit
<1>2. HarmInv /\ [Next]_vars => HarmInv'
  BY HarmStep
<1>3. HarmInv => HarmContained
  BY HarmShown
<1>4. QED
  BY <1>1, <1>2, <1>3, PTL DEF Spec
=============================================================================
