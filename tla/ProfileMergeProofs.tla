------------------------- MODULE ProfileMergeProofs -------------------------
(***************************************************************************)
(* What the merge of ProfileMerge.tla guarantees for every set of          *)
(* installations, ids, secret kinds and values: version vectors form a     *)
(* join semilattice under mergeVectors, the pick of two nodes does not     *)
(* depend on which side is local, a protection decision that overrides     *)
(* the clock stays overridden, and no merge leaves an entry sealed in one  *)
(* slot and readable in another.                                           *)
(***************************************************************************)
EXTENDS ProfileMerge, FiniteSetTheorems, WellFoundedInduction, TLAPS

\* An entry is all sealed or all readable, as protectEntity and unprotectEntity leave it.
Unmixed(n) == SealedNode(n) => \A k \in Kinds : n.slots[k] \notin Plains

\* Every entry of a profile is.
UnmixedProfile(p) == \A id \in Ids : p.nodes[id] # NoNode => Unmixed(p.nodes[id])

-----------------------------------------------------------------------------
(* Version vectors: versionVector.ts.                                      *)

\* The greater of two sequence numbers is one of them and bounds both.
LEMMA MaxOfBounds ==
  ASSUME NEW m \in Nat, NEW n \in Nat
  PROVE  MaxOf(m, n) \in Nat /\ MaxOf(m, n) >= m /\ MaxOf(m, n) >= n /\ MaxOf(m, n) = MaxOf(n, m)
BY DEF MaxOf

\* mergeVectors is the least vector that covers both, whichever side is first.
THEOREM MergeVectorsIsJoin ==
  ASSUME NEW a \in Vectors, NEW b \in Vectors
  PROVE  /\ MergeVectors(a, b) \in Vectors
         /\ Covers(MergeVectors(a, b), a)
         /\ Covers(MergeVectors(a, b), b)
         /\ MergeVectors(a, b) = MergeVectors(b, a)
         /\ \A c \in Vectors : Covers(c, a) /\ Covers(c, b) => Covers(c, MergeVectors(a, b))
<1>1. \A d \in Devices : a[d] \in Nat /\ b[d] \in Nat
  BY DEF Vectors
<1>2. \A d \in Devices : /\ MaxOf(a[d], b[d]) \in Nat
                         /\ MaxOf(a[d], b[d]) >= a[d] /\ MaxOf(a[d], b[d]) >= b[d]
                         /\ MaxOf(a[d], b[d]) = MaxOf(b[d], a[d])
  BY <1>1, MaxOfBounds
<1>3. MergeVectors(a, b) \in Vectors
  BY <1>2 DEF MergeVectors, Vectors
<1>4. Covers(MergeVectors(a, b), a) /\ Covers(MergeVectors(a, b), b)
  BY <1>2 DEF MergeVectors, Covers
<1>5. MergeVectors(a, b) = MergeVectors(b, a)
  BY <1>2 DEF MergeVectors
<1>6. ASSUME NEW c \in Vectors, Covers(c, a), Covers(c, b)
      PROVE  Covers(c, MergeVectors(a, b))
  BY <1>6 DEF MergeVectors, Covers, MaxOf
<1>7. QED
  BY <1>3, <1>4, <1>5, <1>6

\* covers is transitive, and antisymmetric.
LEMMA CoversIsOrder ==
  ASSUME NEW a \in Vectors, NEW b \in Vectors, NEW c \in Vectors
  PROVE  /\ Covers(a, a)
         /\ Covers(a, b) /\ Covers(b, c) => Covers(a, c)
         /\ Covers(a, b) /\ Covers(b, a) => a = b
<1>1. \A d \in Devices : a[d] \in Nat /\ b[d] \in Nat /\ c[d] \in Nat
  BY DEF Vectors
<1>2. Covers(a, a) /\ (Covers(a, b) /\ Covers(b, c) => Covers(a, c))
  BY <1>1 DEF Covers
<1>3. ASSUME Covers(a, b), Covers(b, a) PROVE a = b
  <2>1. \A d \in Devices : a[d] = b[d]
    BY <1>1, <1>3 DEF Covers
  <2>2. QED
    BY <2>1 DEF Vectors
<1>4. QED
  BY <1>2, <1>3

\* The join of two concurrent vectors dominates each of them.
LEMMA JoinDominates ==
  ASSUME NEW a \in Vectors, NEW b \in Vectors, Concurrent(a, b)
  PROVE  Dominates(MergeVectors(a, b), a) /\ Dominates(MergeVectors(a, b), b)
<1> DEFINE j == MergeVectors(a, b)
<1>1. j \in Vectors /\ Covers(j, a) /\ Covers(j, b)
  BY MergeVectorsIsJoin
<1>2. ~Covers(a, j)
  BY <1>1, CoversIsOrder DEF Concurrent
<1>3. ~Covers(b, j)
  BY <1>1, CoversIsOrder DEF Concurrent
<1>4. QED
  BY <1>1, <1>2, <1>3 DEF Dominates

-----------------------------------------------------------------------------
(* The greatest of finitely many: versionVector.lastWriter.                *)

\* A finite set of sequence numbers has a greatest one.
LEMMA FiniteHasMax ==
  ASSUME NEW S \in SUBSET Nat, IsFiniteSet(S), S # {}
  PROVE  \E n \in S : \A m \in S : m <= n
<1> DEFINE HasMax(T) == \E n \in T : \A m \in T : m <= n
           bad == {T \in SUBSET S : T # {} /\ ~HasMax(T)}
<1>1. SUFFICES ASSUME bad # {} PROVE FALSE
  <2>1. S \in SUBSET S
    OBVIOUS
  <2> QED BY <2>1
<1>2. bad \subseteq FiniteSubsetsOf(S)
  BY FS_FiniteSubsetsOfFinite
<1>3. IsWellFoundedOn(StrictSubsetOrdering(S), FiniteSubsetsOf(S))
  BY FS_StrictSubsetOrderingWellFounded
<1>4. PICK T \in bad : \A U \in bad : ~(<<U, T>> \in StrictSubsetOrdering(S))
  <2> HIDE DEF bad
  <2> QED BY <1>1, <1>2, <1>3, WFMin, Zenon
<1>5. T \in SUBSET S /\ T # {} /\ ~HasMax(T)
  OBVIOUS
<1>6. PICK n \in T : TRUE
  BY <1>5
<1> DEFINE U == T \ {n}
<1>7. U \in SUBSET S /\ U # T /\ U \subseteq T
  BY <1>5, <1>6
<1>8. U \notin bad
  <2>1. <<U, T>> \in StrictSubsetOrdering(S)
    BY <1>5, <1>7 DEF StrictSubsetOrdering
  <2> HIDE DEF bad, U
  <2> QED BY <1>4, <2>1
<1>9. CASE U = {}
  <2>1. n \in T /\ \A m \in T : m <= n
    BY <1>5, <1>6, <1>9
  <2> QED BY <1>5, <2>1
<1>10. CASE U # {}
  <2>1. PICK p \in U : \A m \in U : m <= p
    BY <1>7, <1>8, <1>10
  <2>2. p \in Nat /\ n \in Nat /\ p \in T
    BY <1>5, <1>6, <1>7, <2>1
  <2>3. CASE n <= p
    <3>1. \A m \in T : m <= p
      BY <2>1, <2>2, <2>3
    <3> QED BY <1>5, <2>2, <3>1
  <2>4. CASE ~(n <= p)
    <3>1. \A m \in T : m <= n
      <4>1. TAKE m \in T
      <4>2. m \in Nat
        BY <1>5
      <4>3. CASE m = n
        BY <2>2, <4>3
      <4>4. CASE m # n
        <5>1. m <= p
          BY <2>1, <4>4
        <5> QED BY <2>2, <2>4, <4>2, <5>1
      <4> QED BY <4>3, <4>4
    <3> QED BY <1>5, <1>6, <3>1
  <2> QED BY <2>3, <2>4
<1> QED BY <1>9, <1>10

\* The last writer of a vector is one of the installations that wrote, and there is always one.
LEMMA LastWriterWrote ==
  ASSUME NEW v \in Vectors
  PROVE  /\ LastWriter(v) \in Nat
         /\ v # EmptyVector => LastWriter(v) \in Devices /\ v[LastWriter(v)] # 0
<1>1. CASE v = EmptyVector
  BY <1>1 DEF LastWriter
<1>2. CASE v # EmptyVector
  <2> DEFINE Wrote(d) == v[d] # 0 /\ \A e \in Devices : v[e] < v[d] \/ (v[e] = v[d] /\ e <= d)
             counts == {v[d] : d \in Devices}
  <2>1. Devices \subseteq Nat /\ IsFiniteSet(Devices) /\ \A d \in Devices : v[d] \in Nat
    BY DevicesAssumption DEF Vectors
  <2>2. PICK some \in Devices : v[some] # 0
    BY <1>2 DEF EmptyVector, Vectors
  <2>3. counts \subseteq Nat /\ counts # {}
    BY <2>1, <2>2
  <2>4. IsFiniteSet(counts)
    <3>1. v \in Surjection(Devices, counts)
      BY DEF Surjection, Vectors
    <3> HIDE DEF counts
    <3> QED BY <2>1, <3>1, FS_Surjection
  <2>5. PICK n \in counts : \A m \in counts : m <= n
    <3> HIDE DEF counts
    <3> QED BY <2>3, <2>4, FiniteHasMax
  <2> DEFINE tied == {d \in Devices : v[d] = n}
  <2>6. tied \subseteq Nat /\ tied # {} /\ IsFiniteSet(tied)
    BY <2>1, <2>5, FS_Subset
  <2>7. PICK d \in tied : \A e \in tied : e <= d
    <3> HIDE DEF tied
    <3> QED BY <2>6, FiniteHasMax
  <2>8. d \in Devices /\ v[d] = n /\ v[d] # 0
    BY <2>1, <2>2, <2>5, <2>7
  <2>9. ASSUME NEW e \in Devices PROVE v[e] < v[d] \/ (v[e] = v[d] /\ e <= d)
    <3>1. v[e] <= n /\ v[e] \in Nat /\ n \in Nat
      BY <2>1, <2>3, <2>5
    <3>2. CASE v[e] = n
      BY <2>7, <2>8, <3>2
    <3>3. CASE v[e] # n
      BY <2>8, <3>1, <3>3
    <3> QED BY <3>2, <3>3
  <2>10. \E w \in Devices : Wrote(w)
    BY <2>8, <2>9
  <2>11. LastWriter(v) = CHOOSE w \in Devices : Wrote(w)
    BY <1>2 DEF LastWriter
  <2>12. LastWriter(v) \in Devices /\ Wrote(LastWriter(v))
    BY <2>10, <2>11
  <2> QED BY <2>1, <2>12
<1> QED BY <1>1, <1>2

-----------------------------------------------------------------------------
(* The pick of two nodes: syncMerge.pickNode, syncPinRule.decideProtection.*)

\* The questions a decision asks are answered yes or no.
LEMMA DecisionsAreBoolean ==
  ASSUME NEW a \in Nodes, NEW b \in Nodes
  PROVE  /\ SealedNode(a) \in BOOLEAN /\ SealedNode(b) \in BOOLEAN
         /\ PickIsA(a, b) \in BOOLEAN
         /\ RuleReaches(a, b) \in BOOLEAN
         /\ LaterDecisionIsA(a, b) \in BOOLEAN
<1>1. SealedNode(a) \in BOOLEAN /\ SealedNode(b) \in BOOLEAN
  BY DEF SealedNode
<1>2. a.at \in Nat /\ b.at \in Nat /\ a.epoch \in Nat /\ b.epoch \in Nat
  BY DEF Nodes
<1>3. PickIsA(a, b) \in BOOLEAN
  BY DEF PickIsA
<1>4. RuleReaches(a, b) \in BOOLEAN
  BY DEF RuleReaches
<1>5. LaterDecisionIsA(a, b) \in BOOLEAN
  <2>1. CASE a.epoch # b.epoch
    <3>1. LaterDecisionIsA(a, b) = (a.epoch > b.epoch)
      BY <2>1 DEF LaterDecisionIsA
    <3>2. QED
      BY <1>2, <3>1
  <2>2. CASE a.epoch = b.epoch
    <3>1. LaterDecisionIsA(a, b) = SealedNode(a)
      BY <2>2 DEF LaterDecisionIsA
    <3>2. QED
      BY <1>1, <3>1
  <2>3. QED
    BY <2>1, <2>2
<1>6. QED
  BY <1>1, <1>3, <1>4, <1>5

\* The node decideProtection keeps, case by case: the rule's side or the clock's, with both
\* vectors where the two disagree.
LEMMA DecisionNode ==
  ASSUME NEW a \in Nodes, NEW b \in Nodes
  PROVE  /\ ~RuleReaches(a, b) /\ PickIsA(a, b) => DecideProtection(a, b).node = a
         /\ ~RuleReaches(a, b) /\ ~PickIsA(a, b) => DecideProtection(a, b).node = b
         /\ RuleReaches(a, b) /\ LaterDecisionIsA(a, b) /\ PickIsA(a, b)
            => DecideProtection(a, b).node = a
         /\ RuleReaches(a, b) /\ ~LaterDecisionIsA(a, b) /\ ~PickIsA(a, b)
            => DecideProtection(a, b).node = b
         /\ RuleReaches(a, b) /\ LaterDecisionIsA(a, b) /\ ~PickIsA(a, b)
            => DecideProtection(a, b).node = [a EXCEPT !.v = MergeVectors(a.v, b.v)]
         /\ RuleReaches(a, b) /\ ~LaterDecisionIsA(a, b) /\ PickIsA(a, b)
            => DecideProtection(a, b).node = [b EXCEPT !.v = MergeVectors(a.v, b.v)]
BY DecisionsAreBoolean DEF DecideProtection

\* pickNode answers the same node of two, whichever of them is the local one.
LEMMA PickIgnoresSides ==
  ASSUME NEW a \in Nodes, NEW b \in Nodes, Distinguished(a, b)
  PROVE  PickIsA(a, b) <=> ~PickIsA(b, a)
<1>1. a.at \in Nat /\ b.at \in Nat /\ LastWriter(a.v) \in Nat /\ LastWriter(b.v) \in Nat
  BY LastWriterWrote DEF Nodes
<1>2. ~(Dominates(a.v, b.v) /\ Dominates(b.v, a.v))
  BY DEF Dominates
<1>3. CASE Dominates(a.v, b.v)
  BY <1>2, <1>3 DEF PickIsA
<1>4. CASE Dominates(b.v, a.v)
  BY <1>2, <1>4 DEF PickIsA
<1>5. CASE ~Dominates(a.v, b.v) /\ ~Dominates(b.v, a.v) /\ a.at # b.at
  BY <1>1, <1>5 DEF PickIsA
<1>6. CASE ~Dominates(a.v, b.v) /\ ~Dominates(b.v, a.v) /\ a.at = b.at
  BY <1>1, <1>6 DEF PickIsA, Distinguished
<1>7. QED
  BY <1>3, <1>4, <1>5, <1>6

\* Two machines that merge the same two copies of an entry keep the same node, with the same
\* vector, protection rule and clock override included: the merge engine's "order-independent",
\* for every pair that causality, the clock or the last writer tells apart.
THEOREM DecisionIgnoresSides ==
  ASSUME NEW a \in Nodes, NEW b \in Nodes, Distinguished(a, b)
  PROVE  DecideProtection(a, b).node = DecideProtection(b, a).node
<1>1. a.epoch \in Nat /\ b.epoch \in Nat /\ a.v \in Vectors /\ b.v \in Vectors
  BY DEF Nodes
<1>2. PickIsA(a, b) <=> ~PickIsA(b, a)
  BY PickIgnoresSides
<1>3. RuleReaches(a, b) <=> RuleReaches(b, a)
  BY DEF RuleReaches
<1>4. RuleReaches(a, b) => (LaterDecisionIsA(a, b) <=> ~LaterDecisionIsA(b, a))
  BY <1>1, DecisionsAreBoolean DEF RuleReaches, LaterDecisionIsA
<1>5. MergeVectors(a.v, b.v) = MergeVectors(b.v, a.v)
  BY <1>1, MergeVectorsIsJoin
<1>6. CASE ~RuleReaches(a, b)
  BY <1>2, <1>3, <1>6, DecisionNode
<1>7. CASE RuleReaches(a, b) /\ LaterDecisionIsA(a, b)
  <2>1. RuleReaches(b, a) /\ ~LaterDecisionIsA(b, a)
    BY <1>3, <1>4, <1>7
  <2>2. CASE PickIsA(a, b)
    BY <1>2, <1>7, <2>1, <2>2, DecisionNode
  <2>3. CASE ~PickIsA(a, b)
    <3>1. PickIsA(b, a)
      BY <1>2, <2>3
    <3>2. DecideProtection(a, b).node = [a EXCEPT !.v = MergeVectors(a.v, b.v)]
      BY <1>7, <2>3, DecisionNode
    <3>3. DecideProtection(b, a).node = [a EXCEPT !.v = MergeVectors(b.v, a.v)]
      BY <2>1, <3>1, DecisionNode
    <3>4. QED
      BY <1>5, <3>2, <3>3
  <2>4. QED
    BY <2>2, <2>3
<1>8. CASE RuleReaches(a, b) /\ ~LaterDecisionIsA(a, b)
  <2>1. RuleReaches(b, a) /\ LaterDecisionIsA(b, a)
    BY <1>3, <1>4, <1>8
  <2>2. CASE ~PickIsA(a, b)
    BY <1>2, <1>8, <2>1, <2>2, DecisionNode
  <2>3. CASE PickIsA(a, b)
    <3>1. ~PickIsA(b, a)
      BY <1>2, <2>3
    <3>2. DecideProtection(a, b).node = [b EXCEPT !.v = MergeVectors(a.v, b.v)]
      BY <1>8, <2>3, DecisionNode
    <3>3. DecideProtection(b, a).node = [b EXCEPT !.v = MergeVectors(b.v, a.v)]
      BY <2>1, <3>1, DecisionNode
    <3>4. QED
      BY <1>5, <3>2, <3>3
  <2>4. QED
    BY <2>2, <2>3
<1>9. QED
  BY <1>6, <1>7, <1>8

\* syncPinRule rule 2: of two concurrent states of an entry with the same count of protection
\* decisions, one sealed and one readable, the sealed one is kept whatever the clocks say.
THEOREM RuleFailsClosed ==
  ASSUME NEW a \in Nodes, NEW b \in Nodes, RuleReaches(a, b), a.epoch = b.epoch
  PROVE  SealedNode(DecideProtection(a, b).node)
<1> DEFINE w == IF LaterDecisionIsA(a, b) THEN a ELSE b
<1>1. SealedNode(w)
  BY DecisionsAreBoolean DEF RuleReaches, LaterDecisionIsA
<1>2. [w EXCEPT !.v = MergeVectors(a.v, b.v)].slots = w.slots
  BY DEF Nodes
<1>3. SealedNode([w EXCEPT !.v = MergeVectors(a.v, b.v)])
  BY <1>1, <1>2 DEF SealedNode
<1>4. DecideProtection(a, b).node \in {w, [w EXCEPT !.v = MergeVectors(a.v, b.v)]}
  BY DecisionNode
<1>5. QED
  BY <1>1, <1>3, <1>4

\* syncPinRule rule 3: where the rule overrode the clock for a racing pair, the kept node carries
\* both vectors; met again, in either order, it wins over the side it overrode by causality, so no
\* later cycle hands the decision back to the clock.
THEOREM OverrideSticks ==
  ASSUME NEW a \in Nodes, NEW b \in Nodes, RuleReaches(a, b), Concurrent(a.v, b.v),
         LaterDecisionIsA(a, b), ~PickIsA(a, b)
  PROVE  LET kept == DecideProtection(a, b).node
         IN  /\ kept.slots = a.slots
             /\ PickIsA(kept, b) /\ ~PickIsA(b, kept)
             /\ DecideProtection(b, kept).node = kept
<1> DEFINE kept == [a EXCEPT !.v = MergeVectors(a.v, b.v)]
<1>1. a.v \in Vectors /\ b.v \in Vectors
  BY DEF Nodes
<1>2. DecideProtection(a, b).node = kept
  BY DecisionNode
<1>3. kept.v = MergeVectors(a.v, b.v) /\ kept.slots = a.slots
  BY DEF Nodes
<1>4. Dominates(kept.v, b.v)
  BY <1>1, <1>3, JoinDominates
<1>5. ~Dominates(b.v, kept.v)
  BY <1>4 DEF Dominates
<1>6. PickIsA(kept, b) /\ ~PickIsA(b, kept)
  BY <1>4, <1>5 DEF PickIsA
<1>7. ~RuleReaches(b, kept)
  BY <1>4 DEF RuleReaches
<1>8. DecideProtection(b, kept).node = kept
  BY <1>6, <1>7 DEF DecideProtection
<1>9. QED
  BY <1>2, <1>3, <1>6, <1>8

-----------------------------------------------------------------------------
(* Three versions: does the order of the merges matter?                    *)

\* The clock of a version that has seen another is ahead of it.
ClocksAgree(x, y) == (Dominates(x.v, y.v) => x.at > y.at) /\ (Dominates(y.v, x.v) => y.at > x.at)

\* The clock's order of versions, the last writer where the clocks are level.
NoEarlier(x, y) == x.at > y.at \/ (x.at = y.at /\ LastWriter(x.v) >= LastWriter(y.v))

\* Between versions of one sealed state whose clocks agree with causality, the decision is the
\* clock's.
LEMMA DecisionIsClocks ==
  ASSUME NEW x \in Nodes, NEW y \in Nodes, ClocksAgree(x, y), SealedNode(x) <=> SealedNode(y)
  PROVE  DecideProtection(x, y).node = IF NoEarlier(x, y) THEN x ELSE y
<1>1. ~RuleReaches(x, y)
  BY DecisionsAreBoolean DEF RuleReaches
<1>2. x.at \in Nat /\ y.at \in Nat /\ LastWriter(x.v) \in Nat /\ LastWriter(y.v) \in Nat
  BY LastWriterWrote DEF Nodes
<1>3. PickIsA(x, y) <=> NoEarlier(x, y)
  <2>1. CASE Dominates(x.v, y.v)
    BY <1>2, <2>1 DEF ClocksAgree, PickIsA, NoEarlier
  <2>2. CASE ~Dominates(x.v, y.v) /\ Dominates(y.v, x.v)
    BY <1>2, <2>2 DEF ClocksAgree, PickIsA, NoEarlier
  <2>3. CASE ~Dominates(x.v, y.v) /\ ~Dominates(y.v, x.v)
    BY <2>3 DEF PickIsA, NoEarlier
  <2> QED BY <2>1, <2>2, <2>3
<1> QED BY <1>1, <1>3, DecisionNode

\* The order in which three versions of an entry meet does not matter, which is what the merge
\* engine says of itself ("order-independent"): the version kept is the same whichever two meet
\* first. It holds where the clocks agree with causality and no version is sealed while another is
\* readable; ThreeMayCycle shows that it needs the first of these.
THEOREM OrderOfThree ==
  ASSUME NEW a \in Nodes, NEW b \in Nodes, NEW c \in Nodes,
         ClocksAgree(a, b), ClocksAgree(b, c), ClocksAgree(a, c),
         SealedNode(a) <=> SealedNode(b), SealedNode(b) <=> SealedNode(c)
  PROVE  DecideProtection(DecideProtection(a, b).node, c).node
           = DecideProtection(a, DecideProtection(b, c).node).node
<1>1. /\ a.at \in Nat /\ b.at \in Nat /\ c.at \in Nat
      /\ LastWriter(a.v) \in Nat /\ LastWriter(b.v) \in Nat /\ LastWriter(c.v) \in Nat
  BY LastWriterWrote DEF Nodes
<1>2. /\ NoEarlier(a, b) /\ NoEarlier(b, c) => NoEarlier(a, c)
      /\ ~NoEarlier(a, b) /\ ~NoEarlier(b, c) => ~NoEarlier(a, c)
      /\ NoEarlier(a, b) \in BOOLEAN /\ NoEarlier(b, c) \in BOOLEAN /\ NoEarlier(a, c) \in BOOLEAN
  BY <1>1 DEF NoEarlier
<1>3. SealedNode(a) <=> SealedNode(c)
  OBVIOUS
<1>4. /\ DecideProtection(a, b).node = IF NoEarlier(a, b) THEN a ELSE b
      /\ DecideProtection(b, c).node = IF NoEarlier(b, c) THEN b ELSE c
      /\ DecideProtection(a, c).node = IF NoEarlier(a, c) THEN a ELSE c
  BY <1>3, DecisionIsClocks
<1>5. CASE NoEarlier(a, b) /\ NoEarlier(b, c)
  BY <1>2, <1>4, <1>5
<1>6. CASE NoEarlier(a, b) /\ ~NoEarlier(b, c)
  BY <1>4, <1>6
<1>7. CASE ~NoEarlier(a, b) /\ NoEarlier(b, c)
  BY <1>4, <1>7
<1>8. CASE ~NoEarlier(a, b) /\ ~NoEarlier(b, c)
  BY <1>2, <1>4, <1>8
<1> QED BY <1>2, <1>5, <1>6, <1>7, <1>8

\* Where a clock is behind, three versions of one entry can each win over the next in a circle, on
\* whichever side they meet: c has seen b, b's clock is ahead of a's and a's ahead of c's. Then it
\* does matter which two machines sync first, and there is no version that the others give way to.
THEOREM ThreeMayCycle ==
  ASSUME NEW n \in Nodes,
         NEW p \in Devices, NEW q \in Devices \ {p}, NEW r \in Devices \ {p, q}
  PROVE  \E a, b, c \in Nodes :
           /\ \A x \in {a, b, c} : x.slots = n.slots /\ x.mark = n.mark /\ x.epoch = n.epoch
           /\ DecideProtection(c, b).node = c /\ DecideProtection(b, c).node = c
           /\ DecideProtection(b, a).node = b /\ DecideProtection(a, b).node = b
           /\ DecideProtection(a, c).node = a /\ DecideProtection(c, a).node = a
           /\ DecideProtection(DecideProtection(a, b).node, c).node
                # DecideProtection(a, DecideProtection(b, c).node).node
<1> DEFINE vb == [d \in Devices |-> IF d = p THEN 1 ELSE 0]
           va == [d \in Devices |-> IF d = q THEN 1 ELSE 0]
           vc == [d \in Devices |-> IF d \in {p, r} THEN 1 ELSE 0]
           a == [n EXCEPT !.v = va, !.at = 2]
           b == [n EXCEPT !.v = vb, !.at = 3]
           c == [n EXCEPT !.v = vc, !.at = 1]
<1>1. va \in Vectors /\ vb \in Vectors /\ vc \in Vectors
  BY DEF Vectors
<1>2. /\ Dominates(vc, vb)
      /\ ~Dominates(vb, va) /\ ~Dominates(va, vb)
      /\ ~Dominates(va, vc) /\ ~Dominates(vc, va)
  <2>1. /\ va[p] = 0 /\ va[q] = 1 /\ va[r] = 0 /\ vb[p] = 1 /\ vb[q] = 0 /\ vb[r] = 0
        /\ vc[p] = 1 /\ vc[q] = 0 /\ vc[r] = 1
    OBVIOUS
  <2>2. \A d \in Devices : vc[d] >= vb[d]
    OBVIOUS
  <2> HIDE DEF va, vb, vc
  <2>3. ~Covers(vb, vc) /\ ~Covers(va, vb) /\ ~Covers(vb, va) /\ ~Covers(va, vc) /\ ~Covers(vc, va)
    BY <2>1 DEF Covers
  <2> QED BY <2>2, <2>3 DEF Dominates, Covers
<1> HIDE DEF va, vb, vc
<1>3. /\ a \in Nodes /\ b \in Nodes /\ c \in Nodes
      /\ a.v = va /\ b.v = vb /\ c.v = vc /\ a.at = 2 /\ b.at = 3 /\ c.at = 1
      /\ \A x \in {a, b, c} : x.slots = n.slots /\ x.mark = n.mark /\ x.epoch = n.epoch
  BY <1>1 DEF Nodes
<1> HIDE DEF a, b, c
<1>4. SealedNode(a) <=> SealedNode(b)
  BY <1>3 DEF SealedNode
<1>5. SealedNode(b) <=> SealedNode(c)
  BY <1>3 DEF SealedNode
<1>6. ~RuleReaches(c, b) /\ ~RuleReaches(b, a) /\ ~RuleReaches(a, c)
  BY <1>3, <1>4, <1>5, DecisionsAreBoolean DEF RuleReaches
<1>7. PickIsA(c, b) /\ PickIsA(b, a) /\ PickIsA(a, c)
  BY <1>2, <1>3 DEF PickIsA
<1>8. Distinguished(c, b) /\ Distinguished(b, a) /\ Distinguished(a, c)
  BY <1>2, <1>3 DEF Distinguished
<1>9. /\ DecideProtection(c, b).node = c /\ DecideProtection(b, a).node = b
      /\ DecideProtection(a, c).node = a
  BY <1>3, <1>6, <1>7, DecisionNode
<1>10. /\ DecideProtection(b, c).node = c /\ DecideProtection(a, b).node = b
       /\ DecideProtection(c, a).node = a
  BY <1>3, <1>8, <1>9, DecisionIgnoresSides
<1>11. a # c
  BY <1>3
<1>12. DecideProtection(DecideProtection(a, b).node, c).node
         # DecideProtection(a, DecideProtection(b, c).node).node
  BY <1>9, <1>10, <1>11
<1> QED BY <1>3, <1>9, <1>10, <1>12

-----------------------------------------------------------------------------
(* Deletions: syncMerge.isDeleted and mergeTombstone.                      *)

\* A vector above another that is not empty is not empty either.
LEMMA CoveringIsNotEmpty ==
  ASSUME NEW a \in Vectors, NEW b \in Vectors, Covers(a, b), b # EmptyVector
  PROVE  a # EmptyVector
<1> SUFFICES ASSUME a = EmptyVector PROVE FALSE
  OBVIOUS
<1>1. \A d \in Devices : b[d] = 0
  BY DEF EmptyVector, Covers, Vectors
<1>2. b = EmptyVector
  BY <1>1 DEF EmptyVector, Vectors
<1> QED BY <1>2

\* A tombstone the node did not see and that is not older deletes it, and one above it always does.
LEMMA DeletedBy ==
  ASSUME NEW tomb \in Tombs, NEW n \in Nodes, tomb.v # EmptyVector, n.v # EmptyVector,
         \/ Covers(tomb.v, n.v)
         \/ ~Covers(n.v, tomb.v) /\ tomb.at >= n.at
  PROVE  IsDeleted(tomb, n)
BY DEF IsDeleted, Concurrent, Dominates

\* What one machine's tombstone deletes, that tombstone joined with any other's still deletes: no
\* machine's deletion is weakened by meeting another's. A tombstone with no vector, as builds before
\* the vectors wrote, speaks of nodes with none only.
THEOREM JoinedTombDeletes ==
  ASSUME NEW s \in Tombs, NEW t \in Tombs, NEW n \in Nodes,
         s.v # EmptyVector \/ n.v = EmptyVector,
         IsDeleted(s, n)
  PROVE  IsDeleted(MergeTomb(s, t), n) /\ IsDeleted(MergeTomb(t, s), n)
<1>1. ASSUME NEW j \in Tombs, Covers(j.v, s.v), j.at >= s.at PROVE IsDeleted(j, n)
  <2>1. j.at \in Nat /\ s.at \in Nat /\ n.at \in Nat /\ j.v \in Vectors /\ s.v \in Vectors /\ n.v \in Vectors
    BY <1>1 DEF Tombs, Nodes
  <2>2. CASE n.v = EmptyVector
    BY <1>1, <2>1, <2>2 DEF IsDeleted
  <2>3. CASE n.v # EmptyVector
    <3>1. s.v # EmptyVector
      BY <2>3
    <3>2. j.v # EmptyVector
      BY <1>1, <2>1, <3>1, CoveringIsNotEmpty
    <3>3. CASE Covers(s.v, n.v)
      <4>1. Covers(j.v, n.v)
        BY <1>1, <2>1, <3>3, CoversIsOrder
      <4> QED BY <2>3, <3>2, <4>1, DeletedBy
    <3>4. CASE ~Covers(s.v, n.v)
      <4>1. ~Covers(n.v, s.v) /\ s.at >= n.at
        BY <2>3, <3>1, <3>4 DEF IsDeleted, Concurrent, Dominates
      <4>2. ~Covers(n.v, j.v)
        BY <1>1, <2>1, <4>1, CoversIsOrder
      <4>3. j.at >= n.at
        BY <1>1, <2>1, <4>1
      <4> QED BY <2>3, <3>2, <4>2, <4>3, DeletedBy
    <3> QED BY <3>3, <3>4
  <2> QED BY <2>2, <2>3
<1>2. /\ s.at \in Nat /\ t.at \in Nat /\ s.v \in Vectors /\ t.v \in Vectors
      /\ s # NoTomb /\ t # NoTomb
  BY NothingAssumption DEF Tombs
<1>3. /\ MergeTomb(s, t) = [at |-> MaxOf(s.at, t.at), v |-> MergeVectors(s.v, t.v)]
      /\ MergeTomb(t, s) = [at |-> MaxOf(t.at, s.at), v |-> MergeVectors(t.v, s.v)]
  BY <1>2 DEF MergeTomb
<1>4. /\ MaxOf(s.at, t.at) \in Nat /\ MaxOf(s.at, t.at) >= s.at /\ MaxOf(t.at, s.at) = MaxOf(s.at, t.at)
      /\ MergeVectors(s.v, t.v) \in Vectors /\ MergeVectors(t.v, s.v) = MergeVectors(s.v, t.v)
      /\ Covers(MergeVectors(s.v, t.v), s.v)
  BY <1>2, MaxOfBounds, MergeVectorsIsJoin
<1>5. MergeTomb(s, t) \in Tombs /\ MergeTomb(t, s) = MergeTomb(s, t)
  BY <1>3, <1>4 DEF Tombs
<1>6. Covers(MergeTomb(s, t).v, s.v) /\ MergeTomb(s, t).at >= s.at
  BY <1>3, <1>4
<1> QED BY <1>1, <1>5, <1>6

\* Whoever deletes the version a race left, by a clock no earlier than it, deletes the version that
\* lost the race too, wherever that is still held: it does not come back.
THEOREM DeletionReachesBoth ==
  ASSUME NEW a \in Nodes, NEW b \in Nodes, a.v # EmptyVector, b.v # EmptyVector,
         NEW tomb \in Tombs,
         Dominates(tomb.v, DecideProtection(a, b).node.v),
         tomb.at >= DecideProtection(a, b).node.at
  PROVE  IsDeleted(tomb, a) /\ IsDeleted(tomb, b)
<1> DEFINE w == DecideProtection(a, b).node
<1>1. /\ a.at \in Nat /\ b.at \in Nat /\ tomb.at \in Nat
      /\ a.v \in Vectors /\ b.v \in Vectors /\ tomb.v \in Vectors
  BY DEF Nodes, Tombs
<1>2. ASSUME NEW k \in Nodes, NEW l \in Nodes, k.v # EmptyVector, l.v # EmptyVector,
             Covers(tomb.v, k.v), tomb.at >= k.at,
             ~Dominates(l.v, k.v), Dominates(k.v, l.v) \/ k.at >= l.at
      PROVE  IsDeleted(tomb, k) /\ IsDeleted(tomb, l)
  <2>1. k.v \in Vectors /\ l.v \in Vectors /\ k.at \in Nat /\ l.at \in Nat
    BY <1>2 DEF Nodes
  <2>2. tomb.v # EmptyVector
    BY <1>1, <1>2, <2>1, CoveringIsNotEmpty
  <2>3. IsDeleted(tomb, k)
    BY <1>2, <2>2, DeletedBy
  <2>4. CASE Covers(k.v, l.v)
    <3>1. Covers(tomb.v, l.v)
      BY <1>1, <1>2, <2>1, <2>4, CoversIsOrder
    <3> QED BY <1>2, <2>2, <2>3, <3>1, DeletedBy
  <2>5. CASE ~Covers(k.v, l.v)
    <3>1. k.at >= l.at
      BY <1>2, <2>5 DEF Dominates
    <3>2. ~Covers(l.v, k.v)
      BY <1>2, <2>5 DEF Dominates
    <3>3. ~Covers(l.v, tomb.v)
      BY <1>1, <1>2, <2>1, <3>2, CoversIsOrder
    <3>4. tomb.at >= l.at
      BY <1>1, <1>2, <2>1, <3>1
    <3> QED BY <1>2, <2>2, <2>3, <3>3, <3>4, DeletedBy
  <2> QED BY <2>4, <2>5
<1>3. \/ w = a /\ PickIsA(a, b)
      \/ w = b /\ ~PickIsA(a, b)
      \/ w.v = MergeVectors(a.v, b.v)
  BY DecisionNode, <1>1 DEF Nodes, DecideProtection
<1>4. Covers(tomb.v, w.v) /\ tomb.at >= w.at
  BY DEF Dominates
<1> HIDE DEF w
<1>5. CASE w = a /\ PickIsA(a, b)
  <2>1. ~Dominates(b.v, a.v) /\ (Dominates(a.v, b.v) \/ a.at >= b.at)
    BY <1>1, <1>5 DEF PickIsA, Dominates
  <2> QED BY <1>2, <1>4, <1>5, <2>1
<1>6. CASE w = b /\ ~PickIsA(a, b)
  <2>1. ~Dominates(a.v, b.v) /\ (Dominates(b.v, a.v) \/ b.at >= a.at)
    BY <1>1, <1>6 DEF PickIsA
  <2> QED BY <1>2, <1>4, <1>6, <2>1
<1>7. CASE w.v = MergeVectors(a.v, b.v)
  <2>1. Covers(w.v, a.v) /\ Covers(w.v, b.v) /\ w.v \in Vectors
    BY <1>1, <1>7, MergeVectorsIsJoin
  <2>2. Covers(tomb.v, a.v) /\ Covers(tomb.v, b.v)
    BY <1>1, <1>4, <2>1, CoversIsOrder
  <2>3. tomb.v # EmptyVector
    BY <1>1, <2>2, CoveringIsNotEmpty
  <2> QED BY <2>2, <2>3, DeletedBy
<1> QED BY <1>3, <1>5, <1>6, <1>7

\* Where the clock of the machine that deletes is behind, the loser outlives the deletion: m wins
\* its race with n, the deletion has seen m and deletes it, and still n stands against it.
THEOREM LoserOutlives ==
  ASSUME NEW k \in Nodes,
         NEW p \in Devices, NEW q \in Devices \ {p}, NEW r \in Devices \ {p, q}
  PROVE  \E m, n \in Nodes, tomb \in Tombs :
           /\ \A x \in {m, n} : x.slots = k.slots /\ x.mark = k.mark /\ x.epoch = k.epoch
           /\ DecideProtection(m, n).node = m /\ DecideProtection(n, m).node = m
           /\ Dominates(tomb.v, m.v) /\ IsDeleted(tomb, m)
           /\ ~IsDeleted(tomb, n)
<1> DEFINE vm == [d \in Devices |-> IF d = r THEN 1 ELSE 0]
           vn == [d \in Devices |-> IF d = q THEN 1 ELSE 0]
           vt == [d \in Devices |-> IF d \in {p, r} THEN 1 ELSE 0]
           m == [k EXCEPT !.v = vm, !.at = 3]
           n == [k EXCEPT !.v = vn, !.at = 2]
           tomb == [v |-> vt, at |-> 1]
<1>1. vm \in Vectors /\ vn \in Vectors /\ vt \in Vectors
  BY DEF Vectors
<1>2. vm # EmptyVector /\ vn # EmptyVector /\ vt # EmptyVector
  <2>1. EmptyVector[p] = 0 /\ EmptyVector[q] = 0 /\ vm[r] = 1 /\ EmptyVector[r] = 0 /\ vn[q] = 1 /\ vt[p] = 1
    BY DEF EmptyVector
  <2> QED BY <2>1
<1>3. /\ ~Covers(vm, vn) /\ ~Covers(vn, vm) /\ ~Covers(vt, vn) /\ ~Covers(vn, vt)
      /\ Covers(vt, vm) /\ ~Covers(vm, vt)
  <2>1. /\ vm[p] = 0 /\ vm[q] = 0 /\ vm[r] = 1 /\ vn[p] = 0 /\ vn[q] = 1 /\ vn[r] = 0
        /\ vt[p] = 1 /\ vt[q] = 0 /\ vt[r] = 1
    OBVIOUS
  <2>2. \A d \in Devices : vt[d] >= vm[d]
    OBVIOUS
  <2> HIDE DEF vm, vn, vt
  <2> QED BY <2>1, <2>2 DEF Covers
<1> HIDE DEF vm, vn, vt
<1>4. /\ m \in Nodes /\ n \in Nodes /\ tomb \in Tombs
      /\ m.v = vm /\ n.v = vn /\ tomb.v = vt /\ m.at = 3 /\ n.at = 2 /\ tomb.at = 1
      /\ \A x \in {m, n} : x.slots = k.slots /\ x.mark = k.mark /\ x.epoch = k.epoch
  BY <1>1 DEF Nodes, Tombs
<1> HIDE DEF m, n, tomb
<1>5. SealedNode(m) <=> SealedNode(n)
  BY <1>4 DEF SealedNode
<1>6. ~RuleReaches(m, n)
  BY <1>4, <1>5, DecisionsAreBoolean DEF RuleReaches
<1>7. PickIsA(m, n) /\ Distinguished(m, n)
  BY <1>3, <1>4 DEF PickIsA, Distinguished, Dominates
<1>8. DecideProtection(m, n).node = m
  BY <1>4, <1>6, <1>7, DecisionNode
<1>9. DecideProtection(n, m).node = m
  BY <1>4, <1>7, <1>8, DecisionIgnoresSides
<1>10. Dominates(tomb.v, m.v) /\ IsDeleted(tomb, m)
  BY <1>2, <1>3, <1>4, DeletedBy DEF Dominates
<1>11. ~IsDeleted(tomb, n)
  BY <1>2, <1>3, <1>4 DEF IsDeleted, Concurrent
<1> QED BY <1>4, <1>8, <1>9, <1>10, <1>11

-----------------------------------------------------------------------------
(* Secrets follow the winner: syncMerge.copySecret.                        *)

\* The slots merged into an unmixed winner are unmixed, whatever the loser held.
LEMMA MergeSlotsUnmixes ==
  ASSUME NEW winner \in Nodes, NEW loser \in Nodes, NEW node, NEW wholesale, NEW known,
         Unmixed(winner), node.slots = MergeSlots(winner, loser, wholesale, known)
  PROVE  Unmixed(node) /\ node.slots \in [Kinds -> Values]
<1>1. CASE SealedNode(winner)
  <2>1. \A k \in Kinds : winner.slots[k] \notin Plains
    BY <1>1 DEF Unmixed
  <2>2. \A k \in Kinds : node.slots[k] \notin Plains
    BY <1>1, <2>1, SlotAssumption DEF MergeSlots
  <2>3. QED
    <3>1. Unmixed(node)
      BY <2>2 DEF Unmixed
    <3>2. node.slots \in [Kinds -> Values]
      BY <1>1 DEF MergeSlots, Values, Nodes
    <3>3. QED
      BY <3>1, <3>2
<1>2. CASE ~SealedNode(winner)
  <2>1. \A k \in Kinds : winner.slots[k] \notin Seals
    BY <1>2 DEF SealedNode
  <2>2. \A k \in Kinds : node.slots[k] \notin Seals
    BY <1>2, <2>1, SlotAssumption DEF MergeSlots
  <2>3. QED
    <3>1. Unmixed(node)
      BY <2>2 DEF Unmixed, SealedNode
    <3>2. node.slots \in [Kinds -> Values]
      BY <1>2 DEF MergeSlots, Values, Nodes
    <3>3. QED
      BY <3>1, <3>2
<1>3. QED
  BY <1>1, <1>2

\* The node a decision keeps is a node.
LEMMA DecisionType ==
  ASSUME NEW a \in Nodes, NEW b \in Nodes
  PROVE  DecideProtection(a, b).node \in Nodes
<1>1. MergeVectors(a.v, b.v) \in Vectors
  BY MergeVectorsIsJoin DEF Nodes
<1>2. /\ [a EXCEPT !.v = MergeVectors(a.v, b.v)] \in Nodes
      /\ [b EXCEPT !.v = MergeVectors(a.v, b.v)] \in Nodes
  BY <1>1 DEF Nodes
<1>3. QED
  BY <1>2, DecisionNode

\* The node kept for one id is a node, and unmixed when both sides were.
LEMMA WinnerUnmixed ==
  ASSUME NEW local \in Profiles, NEW remote \in Profiles, NEW id \in Ids,
         UnmixedProfile(local), UnmixedProfile(remote), Winner(id, local, remote) # NoNode
  PROVE  Winner(id, local, remote) \in Nodes /\ Unmixed(Winner(id, local, remote))
<1> DEFINE a == local.nodes[id]
           b == remote.nodes[id]
<1>1. a \in Nodes \cup {NoNode} /\ b \in Nodes \cup {NoNode}
  BY DEF Profiles
<1>2. (a # NoNode => Unmixed(a)) /\ (b # NoNode => Unmixed(b))
  BY DEF UnmixedProfile
<1>3. CASE a = NoNode \/ b = NoNode
  <2>1. \/ a # NoNode /\ Winner(id, local, remote) = a
        \/ b # NoNode /\ Winner(id, local, remote) = b
    BY <1>3 DEF Winner
  <2>2. QED
    BY <1>1, <1>2, <2>1
<1>4. CASE a # NoNode /\ b # NoNode
  <2> DEFINE kept == DecideProtection(a, b)
             slots == IF kept.local THEN MergeSlots(a, b, kept.wholesale, local.known)
                                    ELSE MergeSlots(b, a, kept.wholesale, remote.known)
             w == [kept.node EXCEPT !.slots = slots]
  <2>1. a \in Nodes /\ b \in Nodes /\ Unmixed(a) /\ Unmixed(b)
    BY <1>1, <1>2, <1>4
  <2>2. Winner(id, local, remote) = w
    BY <1>4 DEF Winner, WithSecrets
  <2>3. kept.node \in Nodes
    BY <2>1, DecisionType
  <2>4. w.slots = slots
    BY <2>3 DEF Nodes
  <2>5. Unmixed(w) /\ w.slots \in [Kinds -> Values]
    <3>1. CASE kept.local
      <4>1. w.slots = MergeSlots(a, b, kept.wholesale, local.known)
        BY <2>4, <3>1
      <4> HIDE DEF a, b, kept, w
      <4>2. QED
        BY <2>1, <4>1, MergeSlotsUnmixes
    <3>2. CASE ~kept.local
      <4>1. w.slots = MergeSlots(b, a, kept.wholesale, remote.known)
        BY <2>4, <3>2
      <4> HIDE DEF a, b, kept, w
      <4>2. QED
        BY <2>1, <4>1, MergeSlotsUnmixes
    <3>3. QED
      BY <3>1, <3>2
  <2>6. w \in Nodes
    BY <2>3, <2>4, <2>5 DEF Nodes
  <2>7. QED
    BY <2>2, <2>5, <2>6
<1>5. QED
  BY <1>3, <1>4

\* syncPinRule rule 4: merging two profiles whose entries are each all sealed or all readable, with
\* any clock, any tombstones and any history of decisions, gives a profile whose entries are.
THEOREM MergeNeverMixes ==
  ASSUME NEW local \in Profiles, NEW remote \in Profiles, NEW now \in Nat,
         UnmixedProfile(local), UnmixedProfile(remote)
  PROVE  UnmixedProfile(MergeProfiles(local, remote, now))
<1> DEFINE survivor == [id \in Ids |->
             Survivor(Winner(id, local, remote), MergeTomb(local.tombs[id], remote.tombs[id]))]
           nodes == MergeNodes(local, remote)
<1>1. ASSUME NEW id \in Ids, survivor[id] # NoNode
      PROVE  survivor[id] \in Nodes /\ Unmixed(survivor[id])
  <2>1. survivor[id] = Winner(id, local, remote) /\ Winner(id, local, remote) # NoNode
    BY <1>1 DEF Survivor
  <2>2. QED
    BY <2>1, WinnerUnmixed
<1>2. ASSUME NEW id \in Ids, nodes[id] # NoNode
      PROVE  Unmixed(nodes[id])
  <2>1. nodes[id] \in {survivor[id], [survivor[id] EXCEPT !.parent = Root]}
    BY DEF MergeNodes, Reparent
  <2>2. survivor[id] # NoNode
    BY <1>2 DEF MergeNodes, Reparent
  <2>3. survivor[id] \in Nodes /\ Unmixed(survivor[id])
    BY <1>1, <2>2
  <2>4. nodes[id].slots = survivor[id].slots
    BY <2>1, <2>3 DEF Nodes
  <2>5. QED
    BY <2>3, <2>4 DEF Unmixed, SealedNode
<1>3. MergeProfiles(local, remote, now).nodes = nodes
  BY DEF MergeProfiles, MergeAround, MergedProfile
<1>4. QED
  BY <1>2, <1>3 DEF UnmixedProfile
-----------------------------------------------------------------------------
(* The profile a merge makes: syncMerge.mergeProfiles.                     *)

\* The vectors a merge joins into the new horizon.
Seen(local, remote, nodes, tombs) ==
  {local.horizon, remote.horizon}
    \cup {nodes[id].v : id \in {i \in Ids : nodes[i] # NoNode}}
    \cup {tombs[id].v : id \in {i \in Ids : tombs[i] # NoTomb}}

\* The horizon a merge leaves is the least vector that covers both horizons, every node kept and
\* every deletion known: it forgets nothing either side had seen and claims nothing nobody saw
\* (syncMerge.mergeProfiles, which never prunes it).
THEOREM HorizonIsJoin ==
  ASSUME NEW local \in Profiles, NEW remote \in Profiles,
         NEW nodes \in [Ids -> Nodes \cup {NoNode}], NEW tombs \in [Ids -> Tombs \cup {NoTomb}]
  PROVE  LET h == MergeHorizon(local, remote, nodes, tombs)
             seen == Seen(local, remote, nodes, tombs)
         IN  /\ h \in Vectors
             /\ \A v \in seen : Covers(h, v)
             /\ \A c \in Vectors : (\A v \in seen : Covers(c, v)) => Covers(c, h)
<1> DEFINE h == MergeHorizon(local, remote, nodes, tombs)
           seen == Seen(local, remote, nodes, tombs)
           at(d) == {v[d] : v \in seen}
           Greatest(n, d) == n \in at(d) /\ \A v \in seen : v[d] <= n
<1>1. seen \subseteq Vectors
  <2>1. local.horizon \in Vectors /\ remote.horizon \in Vectors
    BY DEF Profiles
  <2>2. \A id \in Ids : nodes[id] # NoNode => nodes[id].v \in Vectors
    BY DEF Nodes
  <2>3. \A id \in Ids : tombs[id] # NoTomb => tombs[id].v \in Vectors
    BY DEF Tombs
  <2> QED BY <2>1, <2>2, <2>3 DEF Seen
<1>2. local.horizon \in seen
  BY DEF Seen
<1>3. IsFiniteSet(seen)
  <2> DEFINE kept == {i \in Ids : nodes[i] # NoNode}
             buried == {i \in Ids : tombs[i] # NoTomb}
             ns == {nodes[id].v : id \in kept}
             ts == {tombs[id].v : id \in buried}
  <2>1. IsFiniteSet(kept) /\ IsFiniteSet(buried)
    BY IdsAssumption, FS_Subset
  <2>2. IsFiniteSet(ns)
    <3> DEFINE f == [id \in kept |-> nodes[id].v]
    <3>1. ns = {f[id] : id \in kept}
      OBVIOUS
    <3>2. f \in [kept -> ns]
      OBVIOUS
    <3>3. f \in Surjection(kept, ns)
      BY <3>1, <3>2 DEF Surjection
    <3> HIDE DEF f, ns, kept
    <3> QED BY <2>1, <3>3, FS_Surjection
  <2>3. IsFiniteSet(ts)
    <3> DEFINE f == [id \in buried |-> tombs[id].v]
    <3>1. ts = {f[id] : id \in buried}
      OBVIOUS
    <3>2. f \in [buried -> ts]
      OBVIOUS
    <3>3. f \in Surjection(buried, ts)
      BY <3>1, <3>2 DEF Surjection
    <3> HIDE DEF f, ts, buried
    <3> QED BY <2>1, <3>3, FS_Surjection
  <2>4. IsFiniteSet({local.horizon, remote.horizon})
    <3>1. IsFiniteSet({local.horizon} \cup {remote.horizon})
      BY FS_Singleton, FS_AddElement
    <3>2. {local.horizon} \cup {remote.horizon} = {local.horizon, remote.horizon}
      OBVIOUS
    <3> QED BY <3>1, <3>2
  <2>5. seen = {local.horizon, remote.horizon} \cup ns \cup ts
    BY DEF Seen
  <2> HIDE DEF ns, ts, seen
  <2>6. IsFiniteSet({local.horizon, remote.horizon} \cup ns)
    BY <2>2, <2>4, FS_Union
  <2> QED BY <2>3, <2>5, <2>6, FS_Union
<1>4. ASSUME NEW d \in Devices PROVE \E n : Greatest(n, d)
  <2> HIDE DEF seen
  <2>1. at(d) \subseteq Nat /\ at(d) # {}
    BY <1>1, <1>2 DEF Vectors
  <2>2. IsFiniteSet(at(d))
    <3> DEFINE f == [v \in seen |-> v[d]]
    <3>1. f \in Surjection(seen, at(d))
      BY DEF Surjection
    <3> HIDE DEF f, at
    <3> QED BY <1>3, <3>1, FS_Surjection
  <2>3. PICK n \in at(d) : \A m \in at(d) : m <= n
    <3> HIDE DEF at
    <3> QED BY <2>1, <2>2, FiniteHasMax
  <2>4. \A v \in seen : v[d] \in at(d)
    OBVIOUS
  <2> QED BY <2>3, <2>4
<1>5. \A d \in Devices : h[d] = CHOOSE n \in at(d) : \A v \in seen : v[d] <= n
  BY DEF MergeHorizon, Seen
<1>6. \A d \in Devices : Greatest(h[d], d)
  <2> HIDE DEF seen, h
  <2> QED BY <1>4, <1>5
<1>7. h \in Vectors
  <2>1. \A d \in Devices : h[d] \in Nat
    <3> HIDE DEF seen, h
    <3> QED BY <1>1, <1>6 DEF Vectors
  <2> QED BY <2>1 DEF MergeHorizon, Vectors
<1>8. \A v \in seen : Covers(h, v)
  <2> HIDE DEF seen, h
  <2>1. ASSUME NEW v \in seen, NEW d \in Devices PROVE h[d] >= v[d]
    <3>1. v[d] \in Nat /\ h[d] \in Nat
      BY <1>1, <1>7 DEF Vectors
    <3> QED BY <1>6, <3>1
  <2> QED BY <2>1 DEF Covers
<1>9. ASSUME NEW c \in Vectors, \A v \in seen : Covers(c, v) PROVE Covers(c, h)
  <2> HIDE DEF seen, h
  <2>1. ASSUME NEW d \in Devices PROVE c[d] >= h[d]
    <3>1. PICK v \in seen : h[d] = v[d]
      BY <1>6
    <3> QED BY <1>9, <3>1 DEF Covers
  <2> QED BY <2>1 DEF Covers
<1> QED BY <1>7, <1>8, <1>9
\* The slots merged into a winner are as sealed as the winner's.
LEMMA MergeSlotsKeepSeal ==
  ASSUME NEW winner \in Nodes, NEW loser \in Nodes, NEW wholesale, NEW known,
         NEW node, node.slots = MergeSlots(winner, loser, wholesale, known)
  PROVE  /\ node.slots \in [Kinds -> Values]
         /\ SealedNode(node) <=> SealedNode(winner)
<1>1. winner.slots \in [Kinds -> Values] /\ loser.slots \in [Kinds -> Values]
  BY DEF Nodes
<1>2. CASE SealedNode(winner)
  <2>1. PICK k \in Kinds : winner.slots[k] \in Seals
    BY <1>2 DEF SealedNode
  <2>2. node.slots[k] \in Seals
    BY <2>1, SlotAssumption DEF MergeSlots
  <2>3. node.slots \in [Kinds -> Values]
    BY <1>1, <1>2 DEF MergeSlots, Values
  <2> QED BY <1>2, <2>2, <2>3 DEF SealedNode
<1>3. CASE ~SealedNode(winner)
  <2>1. \A k \in Kinds : winner.slots[k] \notin Seals
    BY <1>3 DEF SealedNode
  <2>2. \A k \in Kinds : node.slots[k] \notin Seals
    BY <1>3, <2>1, SlotAssumption DEF MergeSlots
  <2>3. node.slots \in [Kinds -> Values]
    BY <1>1, <1>3 DEF MergeSlots, Values
  <2> QED BY <1>3, <2>2, <2>3 DEF SealedNode
<1> QED BY <1>2, <1>3

\* The side a decision keeps.
KeepsA(a, b) == IF RuleReaches(a, b) THEN LaterDecisionIsA(a, b) ELSE PickIsA(a, b)

\* n is the winner's node with the loser's values where the winner has none.
Filled(n, winner, loser, known) ==
  /\ n \in Nodes
  /\ n.epoch = winner.epoch /\ n.mark = winner.mark /\ n.at = winner.at /\ n.parent = winner.parent
  /\ n.v \in {winner.v, MergeVectors(winner.v, loser.v)}
  /\ n.v # winner.v => RuleReaches(winner, loser)
  /\ n.slots = MergeSlots(winner, loser, RacedSealed(winner, loser), known)

\* The two parts of a decision: whose node, and whether its slots are taken wholesale.
LEMMA DecisionParts ==
  ASSUME NEW a \in Nodes, NEW b \in Nodes
  PROVE  /\ KeepsA(a, b) \in BOOLEAN
         /\ DecideProtection(a, b).local = KeepsA(a, b)
         /\ DecideProtection(a, b).wholesale = RacedSealed(a, b)
<1>1. KeepsA(a, b) \in BOOLEAN /\ PickIsA(a, b) \in BOOLEAN /\ RacedSealed(a, b) \in BOOLEAN
  BY DecisionsAreBoolean DEF KeepsA, RacedSealed
<1>2. KeepsA(a, b) # PickIsA(a, b) => ~RacedSealed(a, b)
  BY DecisionsAreBoolean DEF KeepsA, RuleReaches, RacedSealed
<1>3. DecideProtection(a, b).local = KeepsA(a, b)
  BY DEF DecideProtection, KeepsA
<1>4. CASE KeepsA(a, b) = PickIsA(a, b)
  BY <1>1, <1>3, <1>4 DEF DecideProtection, KeepsA
<1>5. CASE KeepsA(a, b) # PickIsA(a, b)
  <2>1. DecideProtection(a, b).wholesale = FALSE
    BY <1>5 DEF DecideProtection, KeepsA
  <2> QED BY <1>1, <1>2, <1>3, <1>5, <2>1
<1> QED BY <1>4, <1>5

\* Concurrency and its kin do not depend on the order of the two.
LEMMA RaceIsMutual ==
  ASSUME NEW a \in Nodes, NEW b \in Nodes
  PROVE  /\ RacedSealed(a, b) = RacedSealed(b, a)
         /\ RuleReaches(a, b) = RuleReaches(b, a)
         /\ MergeVectors(a.v, b.v) = MergeVectors(b.v, a.v)
<1>1. MergeVectors(a.v, b.v) = MergeVectors(b.v, a.v)
  BY MergeVectorsIsJoin DEF Nodes
<1>2. RacedSealed(a, b) = RacedSealed(b, a)
  <2>1. RacedSealed(a, b) <=> RacedSealed(b, a)
    BY DEF RacedSealed, Concurrent
  <2> QED BY <2>1 DEF RacedSealed
<1>3. RuleReaches(a, b) = RuleReaches(b, a)
  <2>1. RuleReaches(a, b) <=> RuleReaches(b, a)
    BY DEF RuleReaches
  <2> QED BY <2>1 DEF RuleReaches
<1> QED BY <1>1, <1>2, <1>3

\* What becomes of an entry both sides have: one side's node, filled from the other.
LEMMA WithSecretsFills ==
  ASSUME NEW a \in Nodes, NEW b \in Nodes, NEW aKnows, NEW bKnows
  PROVE  LET n == WithSecrets(DecideProtection(a, b), a, b, aKnows, bKnows)
         IN  /\ KeepsA(a, b) => Filled(n, a, b, aKnows)
             /\ ~KeepsA(a, b) => Filled(n, b, a, bKnows)
<1> DEFINE kept == DecideProtection(a, b)
           n == WithSecrets(kept, a, b, aKnows, bKnows)
<1>1. kept.node \in Nodes
  BY DecisionType
<1>2. kept.local = KeepsA(a, b) /\ kept.wholesale = RacedSealed(a, b) /\ KeepsA(a, b) \in BOOLEAN
  BY DecisionParts
<1>3. a.v \in Vectors /\ b.v \in Vectors
  BY DEF Nodes
<1>4. ASSUME NEW slots \in [Kinds -> Values], n = [kept.node EXCEPT !.slots = slots]
      PROVE  /\ n \in Nodes /\ n.slots = slots
             /\ n.epoch = kept.node.epoch /\ n.mark = kept.node.mark /\ n.at = kept.node.at
             /\ n.parent = kept.node.parent /\ n.v = kept.node.v
  <2> HIDE DEF n, kept
  <2> QED BY <1>1, <1>4 DEF Nodes
<1>5. ASSUME NEW w \in Nodes
      PROVE  LET j == [w EXCEPT !.v = MergeVectors(a.v, b.v)]
             IN  /\ j.epoch = w.epoch /\ j.mark = w.mark /\ j.at = w.at /\ j.parent = w.parent
                 /\ j.v = MergeVectors(a.v, b.v)
  BY DEF Nodes
<1>6. ASSUME KeepsA(a, b)
      PROVE  Filled(n, a, b, aKnows)
  <2> DEFINE slots == MergeSlots(a, b, RacedSealed(a, b), aKnows)
  <2>1. slots \in [Kinds -> Values]
    <3> DEFINE dummy == [slots |-> slots]
    <3>1. dummy.slots = MergeSlots(a, b, RacedSealed(a, b), aKnows)
      OBVIOUS
    <3>2. dummy.slots = slots
      OBVIOUS
    <3> HIDE DEF slots, dummy
    <3>3. dummy.slots \in [Kinds -> Values]
      BY <3>1, MergeSlotsKeepSeal
    <3> QED BY <3>2, <3>3
  <2>2. n = [kept.node EXCEPT !.slots = slots]
    BY <1>2, <1>6 DEF WithSecrets
  <2>3. kept.node = a \/ (RuleReaches(a, b) /\ kept.node = [a EXCEPT !.v = MergeVectors(a.v, b.v)])
    BY <1>6, DecisionNode DEF KeepsA
  <2>4. /\ kept.node.epoch = a.epoch /\ kept.node.mark = a.mark /\ kept.node.at = a.at
        /\ kept.node.parent = a.parent
        /\ kept.node.v = a.v \/ (RuleReaches(a, b) /\ kept.node.v = MergeVectors(a.v, b.v))
    <3> HIDE DEF kept
    <3> QED BY <1>5, <2>3
  <2> HIDE DEF slots, n, kept
  <2>5. n \in Nodes /\ n.slots = slots /\ n.epoch = a.epoch /\ n.mark = a.mark /\ n.at = a.at
        /\ n.parent = a.parent /\ n.v = kept.node.v
    BY <1>4, <2>1, <2>2, <2>4
  <2> QED BY <2>4, <2>5 DEF Filled, slots
<1>7. ASSUME ~KeepsA(a, b)
      PROVE  Filled(n, b, a, bKnows)
  <2> DEFINE slots == MergeSlots(b, a, RacedSealed(b, a), bKnows)
  <2>1. slots \in [Kinds -> Values]
    <3> DEFINE dummy == [slots |-> slots]
    <3>1. dummy.slots = MergeSlots(b, a, RacedSealed(b, a), bKnows)
      OBVIOUS
    <3>2. dummy.slots = slots
      OBVIOUS
    <3> HIDE DEF slots, dummy
    <3>3. dummy.slots \in [Kinds -> Values]
      BY <3>1, MergeSlotsKeepSeal
    <3> QED BY <3>2, <3>3
  <2>2. n = [kept.node EXCEPT !.slots = slots]
    BY <1>2, <1>7, RaceIsMutual DEF WithSecrets
  <2>3. kept.node = b \/ (RuleReaches(b, a) /\ kept.node = [b EXCEPT !.v = MergeVectors(a.v, b.v)])
    BY <1>7, DecisionNode, RaceIsMutual DEF KeepsA
  <2>4. /\ kept.node.epoch = b.epoch /\ kept.node.mark = b.mark /\ kept.node.at = b.at
        /\ kept.node.parent = b.parent
        /\ kept.node.v = b.v \/ (RuleReaches(b, a) /\ kept.node.v = MergeVectors(b.v, a.v))
    <3> HIDE DEF kept
    <3> QED BY <1>5, <2>3, RaceIsMutual
  <2> HIDE DEF slots, n, kept
  <2>5. n \in Nodes /\ n.slots = slots /\ n.epoch = b.epoch /\ n.mark = b.mark /\ n.at = b.at
        /\ n.parent = b.parent /\ n.v = kept.node.v
    BY <1>4, <2>1, <2>2, <2>4
  <2> QED BY <2>4, <2>5 DEF Filled, slots
<1> QED BY <1>6, <1>7

\* The vector of the kept node: the winner's, or both where the rule overrode the clock.
LEMMA WithSecretsVector ==
  ASSUME NEW a \in Nodes, NEW b \in Nodes, NEW aKnows, NEW bKnows
  PROVE  LET n == WithSecrets(DecideProtection(a, b), a, b, aKnows, bKnows)
         IN  /\ KeepsA(a, b) /\ PickIsA(a, b) => n.v = a.v
             /\ ~KeepsA(a, b) /\ ~PickIsA(a, b) => n.v = b.v
             /\ KeepsA(a, b) # PickIsA(a, b) => n.v = MergeVectors(a.v, b.v)
<1> DEFINE kept == DecideProtection(a, b)
           n == WithSecrets(kept, a, b, aKnows, bKnows)
<1>1. kept.node \in Nodes
  BY DecisionType
<1>2. n.v = kept.node.v
  <2> DEFINE slots == IF kept.local THEN MergeSlots(a, b, kept.wholesale, aKnows)
                                    ELSE MergeSlots(b, a, kept.wholesale, bKnows)
  <2>1. n = [kept.node EXCEPT !.slots = slots]
    BY DEF WithSecrets
  <2> HIDE DEF slots, n, kept
  <2> QED BY <1>1, <2>1 DEF Nodes
<1>3. KeepsA(a, b) \in BOOLEAN /\ PickIsA(a, b) \in BOOLEAN
  BY DecisionParts, DecisionsAreBoolean
<1>4. /\ KeepsA(a, b) /\ PickIsA(a, b) => kept.node = a
      /\ ~KeepsA(a, b) /\ ~PickIsA(a, b) => kept.node = b
      /\ KeepsA(a, b) # PickIsA(a, b) => kept.node.v = MergeVectors(a.v, b.v)
  <2>1. ASSUME NEW w \in Nodes PROVE [w EXCEPT !.v = MergeVectors(a.v, b.v)].v = MergeVectors(a.v, b.v)
    BY DEF Nodes
  <2> HIDE DEF kept
  <2> QED BY <1>3, <2>1, DecisionNode DEF KeepsA, kept
<1> HIDE DEF n, kept
<1> QED BY <1>2, <1>4 DEF n, kept

\* Nodes that agree in every part are one.
LEMMA SameNode ==
  ASSUME NEW a \in Nodes, NEW b \in Nodes, a.v = b.v, a.at = b.at, a.parent = b.parent,
         a.epoch = b.epoch, a.mark = b.mark, \A k \in Kinds : a.slots[k] = b.slots[k]
  PROVE  a = b
<1>1. a.slots = b.slots
  BY DEF Nodes
<1> QED BY <1>1 DEF Nodes

\* A value that is filled in has the sealed state of the winner.
LEMMA FillIsAlike ==
  ASSUME NEW n \in Nodes, Unmixed(n), NEW k \in Kinds, n.slots[k] # NoValue
  PROVE  n.slots[k] \in IF SealedNode(n) THEN Seals ELSE Plains
<1>1. n.slots[k] \in Plains \cup Seals
  BY DEF Nodes, Values
<1> QED BY <1>1 DEF Unmixed, SealedNode

\* Filling a winner from a side it was already filled from changes no slot.
LEMMA RefillChangesNothing ==
  ASSUME NEW s \in Nodes, NEW w \in Nodes, NEW l \in Nodes, NEW known, NEW n \in Nodes,
         s.slots = MergeSlots(w, l, RacedSealed(w, l), known),
         RacedSealed(w, l) => RacedSealed(s, l),
         n.slots = MergeSlots(s, l, RacedSealed(s, l), Kinds)
  PROVE  \A k \in Kinds : n.slots[k] = s.slots[k]
<1>1. SealedNode(s) <=> SealedNode(w)
  BY MergeSlotsKeepSeal
<1> TAKE k \in Kinds
<1>2. CASE s.slots[k] # NoValue
  BY <1>2 DEF MergeSlots
<1>3. CASE s.slots[k] = NoValue
  <2>1. CASE RacedSealed(s, l)
    BY <1>3, <2>1 DEF MergeSlots
  <2>2. CASE ~RacedSealed(s, l)
    <3>1. ~RacedSealed(w, l)
      BY <2>2
    <3>2. w.slots[k] = NoValue
      BY <1>3 DEF MergeSlots
    <3>3. l.slots[k] \notin (IF SealedNode(w) THEN Seals ELSE Plains) \/ l.slots[k] = NoValue
      BY <1>3, <3>1, <3>2 DEF MergeSlots
    <3>4. l.slots[k] \notin (IF SealedNode(s) THEN Seals ELSE Plains) \/ l.slots[k] = NoValue
      BY <1>1, <3>3
    <3> QED BY <1>3, <2>2, <3>4 DEF MergeSlots
  <2> QED BY <2>1, <2>2
<1> QED BY <1>2, <1>3

\* Meeting the incoming side again, a node that was filled from it, or that it won, is kept.
LEMMA MetAgain ==
  ASSUME NEW f \in Nodes, NEW s \in Nodes, SealedNode(s) <=> SealedNode(f)
  PROVE  /\ ~RuleReaches(f, s)
         /\ KeepsA(f, s) = PickIsA(f, s)
         /\ Dominates(s.v, f.v) => ~PickIsA(f, s) /\ ~RacedSealed(s, f)
         /\ s.v = f.v /\ s.at = f.at => PickIsA(f, s) /\ ~RacedSealed(f, s)
<1>1. f.v \in Vectors /\ s.v \in Vectors /\ f.at \in Nat /\ s.at \in Nat
  BY DEF Nodes
<1>2. ~RuleReaches(f, s)
  BY DecisionsAreBoolean DEF RuleReaches
<1>3. KeepsA(f, s) = PickIsA(f, s)
  BY <1>2 DEF KeepsA
<1>4. Dominates(s.v, f.v) => ~PickIsA(f, s) /\ ~RacedSealed(s, f)
  BY DEF Dominates, PickIsA, RacedSealed, Concurrent
<1>5. ASSUME s.v = f.v, s.at = f.at PROVE PickIsA(f, s) /\ ~RacedSealed(f, s)
  <2>1. Covers(f.v, f.v) /\ LastWriter(f.v) \in Nat
    BY <1>1, CoversIsOrder, LastWriterWrote
  <2> QED BY <1>1, <1>5, <2>1 DEF PickIsA, Dominates, RacedSealed, Concurrent
<1> QED BY <1>2, <1>3, <1>4, <1>5

\* Where the incoming node won: the next merge with it, from its own side, changes nothing.
LEMMA IncomingStays ==
  ASSUME NEW b \in Nodes, NEW f \in Nodes, NEW s \in Nodes, NEW bKnows,
         s = WithSecrets(DecideProtection(b, f), b, f, bKnows, Kinds), ~KeepsA(b, f)
  PROVE  WithSecrets(DecideProtection(f, s), f, s, Kinds, Kinds) = s
<1> DEFINE t == WithSecrets(DecideProtection(f, s), f, s, Kinds, Kinds)
<1>1. Filled(s, f, b, Kinds)
  BY WithSecretsFills
<1>2. SealedNode(s) <=> SealedNode(f)
  BY <1>1, MergeSlotsKeepSeal DEF Filled
<1>3. f.v \in Vectors /\ b.v \in Vectors /\ s.v \in Vectors
  BY DEF Nodes
<1>4. KeepsA(f, s) = PickIsA(f, s) /\ PickIsA(f, s) \in BOOLEAN /\ ~RuleReaches(f, s)
  BY <1>2, MetAgain, DecisionsAreBoolean
<1>5. /\ KeepsA(f, s) => Filled(t, f, s, Kinds)
      /\ ~KeepsA(f, s) => Filled(t, s, f, Kinds)
  BY WithSecretsFills
<1>6. /\ KeepsA(f, s) => t.v = f.v
      /\ ~KeepsA(f, s) => t.v = s.v
  BY <1>4, WithSecretsVector
<1>7. \A k \in Kinds : f.slots[k] # NoValue => s.slots[k] = f.slots[k]
  BY <1>1 DEF Filled, MergeSlots
<1>8. CASE s.v = f.v
  <2>1. KeepsA(f, s) /\ ~RacedSealed(f, s)
    BY <1>1, <1>2, <1>4, <1>8, MetAgain DEF Filled
  <2>2. Filled(t, f, s, Kinds)
    BY <1>5, <2>1
  <2>3. t \in Nodes /\ t.v = s.v /\ t.at = s.at /\ t.parent = s.parent /\ t.epoch = s.epoch /\ t.mark = s.mark
    BY <1>1, <1>6, <1>8, <2>1, <2>2 DEF Filled
  <2>4. ASSUME NEW k \in Kinds PROVE t.slots[k] = s.slots[k]
    <3>1. t.slots[k] = IF f.slots[k] # NoValue THEN f.slots[k]
                       ELSE IF s.slots[k] \in (IF SealedNode(f) THEN Seals ELSE Plains) THEN s.slots[k] ELSE NoValue
      <4>1. t.slots = MergeSlots(f, s, RacedSealed(f, s), Kinds)
        BY <2>2 DEF Filled
      <4> HIDE DEF t
      <4> QED BY <2>1, <4>1 DEF MergeSlots
    <3>2. CASE f.slots[k] # NoValue
      BY <1>7, <3>1, <3>2
    <3>3. CASE f.slots[k] = NoValue
      <4>1. s.slots[k] = NoValue \/ s.slots[k] \in (IF SealedNode(f) THEN Seals ELSE Plains)
        BY <1>1, <3>3 DEF Filled, MergeSlots
      <4> QED BY <3>1, <3>3, <4>1
    <3> QED BY <3>2, <3>3
  <2> HIDE DEF t
  <2>5. t = s
    BY <2>3, <2>4, SameNode
  <2> QED BY <2>5 DEF t
<1>9. CASE s.v # f.v
  <2>1. s.v = MergeVectors(f.v, b.v)
    BY <1>1, <1>9 DEF Filled
  <2>2. Dominates(s.v, f.v)
    <3>1. Covers(s.v, f.v)
      BY <1>3, <2>1, MergeVectorsIsJoin
    <3>2. ~Covers(f.v, s.v)
      BY <1>3, <1>9, <3>1, CoversIsOrder
    <3> QED BY <3>1, <3>2 DEF Dominates
  <2>3. ~KeepsA(f, s) /\ ~RacedSealed(s, f)
    BY <1>2, <1>4, <2>2, MetAgain
  <2>4. Filled(t, s, f, Kinds)
    BY <1>5, <2>3
  <2>5. t \in Nodes /\ t.v = s.v /\ t.at = s.at /\ t.parent = s.parent /\ t.epoch = s.epoch /\ t.mark = s.mark
    BY <1>6, <2>3, <2>4 DEF Filled
  <2>6. ASSUME NEW k \in Kinds PROVE t.slots[k] = s.slots[k]
    <3>1. t.slots[k] = IF s.slots[k] # NoValue THEN s.slots[k]
                       ELSE IF f.slots[k] \in (IF SealedNode(s) THEN Seals ELSE Plains) THEN f.slots[k] ELSE NoValue
      <4>1. t.slots = MergeSlots(s, f, RacedSealed(s, f), Kinds)
        BY <2>4 DEF Filled
      <4> HIDE DEF t
      <4> QED BY <2>3, <4>1 DEF MergeSlots
    <3> QED BY <1>7, <3>1
  <2> HIDE DEF t
  <2>7. t = s
    BY <2>5, <2>6, SameNode
  <2> QED BY <2>7 DEF t
<1> QED BY <1>8, <1>9

\* Two nodes for which the clock's pick, or the rule of protection, names one side.
ToldApart(b, f) == Distinguished(b, f) \/ (b.v = f.v /\ SealedNode(b) # SealedNode(f))

\* Where the machine's own node won against the incoming one, it wins again when the result meets
\* the incoming side from there, unless the two are copies of one version.
LEMMA OwnStays ==
  ASSUME NEW b \in Nodes, NEW f \in Nodes, NEW s \in Nodes, NEW bKnows,
         s = WithSecrets(DecideProtection(b, f), b, f, bKnows, Kinds), KeepsA(b, f),
         ToldApart(b, f)
  PROVE  WithSecrets(DecideProtection(f, s), f, s, Kinds, Kinds) = s
<1> DEFINE t == WithSecrets(DecideProtection(f, s), f, s, Kinds, Kinds)
<1>1. Filled(s, b, f, bKnows)
  BY WithSecretsFills
<1>2. SealedNode(s) <=> SealedNode(b)
  BY <1>1, MergeSlotsKeepSeal DEF Filled
<1>3. f.v \in Vectors /\ b.v \in Vectors /\ s.v \in Vectors
  BY DEF Nodes
<1>4. /\ SealedNode(s) \in BOOLEAN /\ SealedNode(b) \in BOOLEAN /\ SealedNode(f) \in BOOLEAN
      /\ PickIsA(b, f) \in BOOLEAN /\ PickIsA(f, s) \in BOOLEAN /\ KeepsA(f, s) \in BOOLEAN
  BY DecisionsAreBoolean, DecisionParts
<1>5. ~KeepsA(f, s) => Filled(t, s, f, Kinds)
  BY WithSecretsFills
<1>6. ~Dominates(f.v, b.v)
  <2>1. Dominates(f.v, b.v) => ~RuleReaches(b, f) /\ ~PickIsA(b, f)
    BY DEF Dominates, RuleReaches, PickIsA
  <2> QED BY <2>1 DEF KeepsA
<1>7. Covers(s.v, b.v) /\ (s.v # b.v => Dominates(s.v, f.v))
  <2>1. CASE s.v = b.v
    BY <1>3, <2>1, CoversIsOrder
  <2>2. CASE s.v # b.v
    <3>1. s.v = MergeVectors(b.v, f.v) /\ RuleReaches(b, f)
      BY <1>1, <2>2 DEF Filled
    <3>2. Covers(s.v, b.v) /\ Covers(s.v, f.v)
      BY <1>3, <3>1, MergeVectorsIsJoin
    <3>3. Covers(f.v, s.v) => Dominates(f.v, b.v)
      <4>1. ASSUME Covers(f.v, s.v) PROVE Covers(f.v, b.v) /\ f.v = s.v
        BY <1>3, <3>2, <4>1, CoversIsOrder
      <4>2. Covers(b.v, f.v) /\ Covers(f.v, b.v) => b.v = f.v
        BY <1>3, CoversIsOrder
      <4> QED BY <2>2, <4>1, <4>2 DEF Dominates
    <3> QED BY <1>6, <3>2, <3>3 DEF Dominates
  <2> QED BY <2>1, <2>2
<1>8. RacedSealed(b, f) => RacedSealed(s, f)
  <2>1. RacedSealed(b, f) => s.v = b.v
    BY <1>1, <1>4 DEF RacedSealed, RuleReaches, Filled
  <2> QED BY <1>2, <2>1 DEF RacedSealed
<1>9. ~KeepsA(f, s) /\ t.v = s.v
  <2>1. CASE Dominates(s.v, f.v)
    <3>1. ~RuleReaches(f, s) /\ ~PickIsA(f, s)
      BY <2>1 DEF RuleReaches, PickIsA, Dominates
    <3>2. ~KeepsA(f, s)
      BY <3>1 DEF KeepsA
    <3> QED BY <3>1, <3>2, WithSecretsVector
  <2>2. CASE ~Dominates(s.v, f.v)
    <3>1. s.v = b.v /\ s.at = b.at /\ s.epoch = b.epoch
      BY <1>1, <1>7, <2>2 DEF Filled
    <3>2. RuleReaches(f, s) = RuleReaches(f, b) /\ PickIsA(f, s) = PickIsA(f, b)
      <4>1. RuleReaches(f, s) <=> RuleReaches(f, b)
        BY <1>2, <1>4, <3>1 DEF RuleReaches
      <4>2. PickIsA(f, s) <=> PickIsA(f, b)
        BY <3>1 DEF PickIsA
      <4> QED BY <4>1, <4>2 DEF RuleReaches, PickIsA
    <3>3. RuleReaches(f, b) = RuleReaches(b, f) /\ MergeVectors(b.v, f.v) = MergeVectors(f.v, s.v)
      BY <3>1, RaceIsMutual
    <3>4. Distinguished(b, f) => (PickIsA(b, f) <=> ~PickIsA(f, s))
      BY <3>2, PickIgnoresSides
    <3>5. CASE ~RuleReaches(b, f)
      <4>1. PickIsA(b, f) /\ ~RuleReaches(f, s)
        BY <3>2, <3>3, <3>5 DEF KeepsA
      <4>2. Distinguished(b, f)
        <5>1. b.v = f.v /\ SealedNode(b) # SealedNode(f) => RuleReaches(b, f)
          BY DEF RuleReaches, Dominates
        <5> QED BY <3>5, <5>1 DEF ToldApart
      <4>3. ~PickIsA(f, s)
        BY <3>4, <4>1, <4>2
      <4>4. ~KeepsA(f, s)
        BY <4>1, <4>3 DEF KeepsA
      <4> QED BY <4>3, <4>4, WithSecretsVector
    <3>6. CASE RuleReaches(b, f)
      <4>1. LaterDecisionIsA(b, f) /\ RuleReaches(f, s)
        BY <3>2, <3>3, <3>6 DEF KeepsA
      <4>2. ~LaterDecisionIsA(f, s)
        <5>1. b.epoch \in Nat /\ f.epoch \in Nat
          BY DEF Nodes
        <5>2. SealedNode(b) # SealedNode(f)
          BY <3>6 DEF RuleReaches
        <5> QED BY <1>2, <1>4, <3>1, <4>1, <5>1, <5>2 DEF LaterDecisionIsA
      <4>3. ~KeepsA(f, s)
        BY <4>1, <4>2 DEF KeepsA
      <4>4. CASE ~PickIsA(f, s)
        BY <4>3, <4>4, WithSecretsVector
      <4>5. CASE PickIsA(f, s)
        <5>1. t.v = MergeVectors(b.v, f.v)
          <6>1. t.v = MergeVectors(f.v, s.v)
            BY <1>4, <4>3, <4>5, WithSecretsVector
          <6> HIDE DEF t
          <6> QED BY <3>3, <6>1
        <5>2. CASE Distinguished(b, f)
          <6>1. ~PickIsA(b, f)
            BY <3>4, <4>5, <5>2
          <6>2. s.v = MergeVectors(b.v, f.v)
            BY <1>4, <6>1, WithSecretsVector
          <6> HIDE DEF t
          <6> QED BY <4>3, <5>1, <6>2
        <5>3. CASE b.v = f.v
          <6>1. MergeVectors(b.v, b.v) = b.v
            <7>1. \A d \in Devices : MaxOf(b.v[d], b.v[d]) = b.v[d]
              BY DEF MaxOf
            <7> QED BY <1>3, <7>1 DEF MergeVectors, Vectors
          <6> HIDE DEF t
          <6> QED BY <3>1, <4>3, <5>1, <5>3, <6>1
        <5> QED BY <5>2, <5>3 DEF ToldApart
      <4> QED BY <4>4, <4>5
    <3> QED BY <3>5, <3>6
  <2> QED BY <2>1, <2>2
<1>10. Filled(t, s, f, Kinds)
  BY <1>5, <1>9
<1>11. /\ t \in Nodes /\ t.v = s.v /\ t.at = s.at /\ t.parent = s.parent /\ t.epoch = s.epoch
       /\ t.mark = s.mark /\ t.slots = MergeSlots(s, f, RacedSealed(s, f), Kinds)
  BY <1>9, <1>10 DEF Filled
<1>12. s.slots = MergeSlots(b, f, RacedSealed(b, f), bKnows)
  BY <1>1 DEF Filled
<1> HIDE DEF t
<1>13. \A k \in Kinds : t.slots[k] = s.slots[k]
  BY <1>8, <1>11, <1>12, RefillChangesNothing
<1>14. t = s
  BY <1>11, <1>13, SameNode
<1> QED BY <1>14 DEF t

\* Two copies of one version fill each other's gaps, and either way round the same.
LEMMA CopiesFillAlike ==
  ASSUME NEW b \in Nodes, NEW f \in Nodes, NEW s \in Nodes, NEW bKnows,
         s = WithSecrets(DecideProtection(b, f), b, f, bKnows, Kinds), KeepsA(b, f),
         SameVersion(b, f), SealedNode(b) = SealedNode(f), Unmixed(b), Unmixed(f)
  PROVE  WithSecrets(DecideProtection(f, s), f, s, Kinds, Kinds) = s
<1> DEFINE t == WithSecrets(DecideProtection(f, s), f, s, Kinds, Kinds)
           mayTake == IF SealedNode(b) THEN Seals ELSE Plains
<1>1. /\ b.v = f.v /\ b.at = f.at /\ b.parent = f.parent /\ b.epoch = f.epoch /\ b.mark = f.mark
  <2> DEFINE c == [b EXCEPT !.slots = f.slots]
  <2>1. c.v = b.v /\ c.at = b.at /\ c.parent = b.parent /\ c.epoch = b.epoch /\ c.mark = b.mark
    BY DEF Nodes
  <2>2. c = f
    BY DEF SameVersion
  <2> HIDE DEF c
  <2> QED BY <2>1, <2>2
<1>2. f.v \in Vectors /\ Covers(f.v, f.v)
  BY CoversIsOrder DEF Nodes
<1>3. ~RacedSealed(b, f) /\ ~RuleReaches(b, f)
  BY <1>1, <1>2 DEF RacedSealed, Concurrent, RuleReaches
<1>4. Filled(s, b, f, bKnows)
  BY WithSecretsFills
<1>5. s.v = f.v /\ s.at = f.at /\ s.parent = f.parent /\ s.epoch = f.epoch /\ s.mark = f.mark
  BY <1>1, <1>3, <1>4 DEF Filled
<1>6. s.slots = MergeSlots(b, f, RacedSealed(b, f), bKnows)
  BY <1>4 DEF Filled
<1>7. SealedNode(s) <=> SealedNode(f)
  BY <1>6, MergeSlotsKeepSeal
<1>8. PickIsA(f, s) /\ ~RacedSealed(f, s) /\ KeepsA(f, s)
  BY <1>5, <1>7, MetAgain
<1>9. Filled(t, f, s, Kinds) /\ t.v = f.v
  BY <1>8, WithSecretsFills, WithSecretsVector
<1>10. /\ t \in Nodes /\ t.v = s.v /\ t.at = s.at /\ t.parent = s.parent /\ t.epoch = s.epoch
       /\ t.mark = s.mark /\ t.slots = MergeSlots(f, s, RacedSealed(f, s), Kinds)
  BY <1>5, <1>9 DEF Filled
<1> HIDE DEF t
<1>11. ASSUME NEW k \in Kinds PROVE t.slots[k] = s.slots[k]
  <2>1. b.slots[k] # NoValue => b.slots[k] \in mayTake
    BY FillIsAlike
  <2>2. f.slots[k] # NoValue => f.slots[k] \in mayTake
    BY FillIsAlike
  <2>3. b.slots[k] = f.slots[k] \/ b.slots[k] = NoValue \/ f.slots[k] = NoValue
    BY DEF SameVersion
  <2>4. s.slots[k] = IF b.slots[k] # NoValue THEN b.slots[k] ELSE f.slots[k]
    <3> HIDE DEF mayTake
    <3>1. s.slots[k] = IF b.slots[k] # NoValue THEN b.slots[k]
                       ELSE IF f.slots[k] \in mayTake THEN f.slots[k] ELSE NoValue
      BY <1>3, <1>6 DEF MergeSlots, mayTake
    <3> QED BY <2>2, <3>1
  <2>5. t.slots[k] = IF f.slots[k] # NoValue THEN f.slots[k]
                     ELSE IF s.slots[k] \in mayTake THEN s.slots[k] ELSE NoValue
    BY <1>8, <1>10 DEF MergeSlots
  <2> HIDE DEF mayTake
  <2> QED BY <2>1, <2>2, <2>3, <2>4, <2>5
<1>12. t = s
  BY <1>10, <1>11, SameNode
<1> QED BY <1>12 DEF t

\* A node merged with itself is itself.
LEMMA SelfMerge ==
  ASSUME NEW s \in Nodes
  PROVE  WithSecrets(DecideProtection(s, s), s, s, Kinds, Kinds) = s
<1> DEFINE t == WithSecrets(DecideProtection(s, s), s, s, Kinds, Kinds)
<1>1. KeepsA(s, s) /\ PickIsA(s, s) /\ ~RacedSealed(s, s)
  BY MetAgain
<1>2. Filled(t, s, s, Kinds) /\ t.v = s.v
  BY <1>1, WithSecretsFills, WithSecretsVector
<1>3. /\ t \in Nodes /\ t.v = s.v /\ t.at = s.at /\ t.parent = s.parent /\ t.epoch = s.epoch
      /\ t.mark = s.mark /\ t.slots = MergeSlots(s, s, RacedSealed(s, s), Kinds)
  BY <1>2 DEF Filled
<1> HIDE DEF t
<1>4. \A k \in Kinds : t.slots[k] = s.slots[k]
  BY <1>3 DEF MergeSlots
<1>5. t = s
  BY <1>3, <1>4, SameNode
<1> QED BY <1>5 DEF t

\* The node one machine keeps against the incoming copy is kept again wherever it meets that copy
\* or itself, on either side and with its slots: nothing that a later cycle does with the same two
\* copies flips it. Left out are two copies that causality, the clock and the last writer do not
\* tell apart and that are not copies of one version.
THEOREM MergeSettles ==
  ASSUME NEW b \in Nodes, NEW f \in Nodes, NEW bKnows, Unmixed(b), Unmixed(f),
         Distinguished(b, f) \/ SameVersion(b, f)
  PROVE  LET s == WithSecrets(DecideProtection(b, f), b, f, bKnows, Kinds)
         IN  /\ WithSecrets(DecideProtection(f, s), f, s, Kinds, Kinds) = s
             /\ WithSecrets(DecideProtection(s, s), s, s, Kinds, Kinds) = s
<1> DEFINE s == WithSecrets(DecideProtection(b, f), b, f, bKnows, Kinds)
<1>1. s \in Nodes
  BY WithSecretsFills, DecisionParts DEF Filled
<1>2. SealedNode(b) \in BOOLEAN /\ SealedNode(f) \in BOOLEAN /\ KeepsA(b, f) \in BOOLEAN
  BY DecisionsAreBoolean, DecisionParts
<1>3. SameVersion(b, f) => b.v = f.v
  BY DEF SameVersion, Nodes
<1>4. CASE ~KeepsA(b, f)
  BY <1>1, <1>4, IncomingStays, SelfMerge
<1>5. CASE KeepsA(b, f) /\ SameVersion(b, f) /\ SealedNode(b) = SealedNode(f)
  BY <1>1, <1>5, CopiesFillAlike, SelfMerge
<1>6. CASE KeepsA(b, f) /\ ~(SameVersion(b, f) /\ SealedNode(b) = SealedNode(f))
  <2>1. ToldApart(b, f)
    BY <1>2, <1>3, <1>6 DEF ToldApart
  <2>5. KeepsA(b, f)
    BY <1>6
  <2> HIDE DEF s
  <2>2. s = WithSecrets(DecideProtection(b, f), b, f, bKnows, Kinds)
    BY DEF s
  <2>3. WithSecrets(DecideProtection(f, s), f, s, Kinds, Kinds) = s
    BY <1>1, <2>1, <2>2, <2>5, OwnStays
  <2>4. WithSecrets(DecideProtection(s, s), s, s, Kinds, Kinds) = s
    BY <1>1, SelfMerge
  <2> QED BY <2>3, <2>4 DEF s
<1> QED BY <1>4, <1>5, <1>6

\* A merge makes a profile, whatever the sides hold.
THEOREM MergeIsProfile ==
  ASSUME NEW local \in Profiles, NEW remote \in Profiles, NEW now \in Nat
  PROVE  MergeProfiles(local, remote, now) \in Profiles
<1> DEFINE won == [id \in Ids |-> Winner(id, local, remote)]
           buried == [id \in Ids |-> MergeTomb(local.tombs[id], remote.tombs[id])]
           survivor == [id \in Ids |-> Survivor(Winner(id, local, remote),
                                                MergeTomb(local.tombs[id], remote.tombs[id]))]
           nodes == MergeNodes(local, remote)
           tombs == MergeTombs(local, remote, nodes)
<1>1. ASSUME NEW id \in Ids PROVE Winner(id, local, remote) \in Nodes \cup {NoNode}
  <2> DEFINE a == local.nodes[id]
             b == remote.nodes[id]
  <2>1. a \in Nodes \cup {NoNode} /\ b \in Nodes \cup {NoNode}
    BY DEF Profiles
  <2>2. CASE a = NoNode \/ b = NoNode
    BY <2>1, <2>2 DEF Winner
  <2>3. CASE a # NoNode /\ b # NoNode
    <3>1. Winner(id, local, remote) = WithSecrets(DecideProtection(a, b), a, b, local.known, remote.known)
      BY <2>3 DEF Winner
    <3>2. a \in Nodes /\ b \in Nodes
      BY <2>1, <2>3
    <3> HIDE DEF a, b
    <3>3. WithSecrets(DecideProtection(a, b), a, b, local.known, remote.known) \in Nodes
      BY <3>2, WithSecretsFills DEF Filled
    <3> QED BY <3>1, <3>3
  <2> QED BY <2>2, <2>3
<1>2. ASSUME NEW id \in Ids PROVE MergeTomb(local.tombs[id], remote.tombs[id]) \in Tombs \cup {NoTomb}
  <2> DEFINE s == local.tombs[id]
             t == remote.tombs[id]
  <2>1. s \in Tombs \cup {NoTomb} /\ t \in Tombs \cup {NoTomb}
    BY DEF Profiles
  <2>2. CASE s = NoTomb \/ t = NoTomb
    BY <2>1, <2>2 DEF MergeTomb
  <2>3. CASE s # NoTomb /\ t # NoTomb
    <3>1. s \in Tombs /\ t \in Tombs
      BY <2>1, <2>3
    <3>2. MaxOf(s.at, t.at) \in Nat /\ MergeVectors(s.v, t.v) \in Vectors
      BY <3>1, MaxOfBounds, MergeVectorsIsJoin DEF Tombs
    <3> QED BY <2>3, <3>2 DEF MergeTomb, Tombs
  <2> QED BY <2>2, <2>3
<1>3. \A id \in Ids : survivor[id] \in Nodes \cup {NoNode}
  BY <1>1 DEF Survivor
<1>4. nodes \in [Ids -> Nodes \cup {NoNode}]
  <2>1. ASSUME NEW id \in Ids PROVE nodes[id] \in Nodes \cup {NoNode}
    <3>1. nodes[id] = survivor[id]
          \/ (survivor[id] # NoNode /\ nodes[id] = [survivor[id] EXCEPT !.parent = Root])
      BY DEF MergeNodes, Reparent
    <3> HIDE DEF survivor, nodes
    <3> QED BY <1>3, <3>1 DEF Nodes
  <2> QED BY <2>1 DEF MergeNodes, Reparent
<1>5. tombs \in [Ids -> Tombs \cup {NoTomb}]
  BY <1>2 DEF MergeTombs
<1>6. Prune(tombs, now) \in [Ids -> Tombs \cup {NoTomb}]
  <2> HIDE DEF tombs
  <2> QED BY <1>5 DEF Prune
<1>7. MergeHorizon(local, remote, nodes, tombs) \in Vectors
  <2> HIDE DEF nodes, tombs
  <2> QED BY <1>4, <1>5, HorizonIsJoin
<1>8. MergeProfiles(local, remote, now)
        = [nodes |-> nodes, tombs |-> Prune(tombs, now),
           horizon |-> MergeHorizon(local, remote, nodes, tombs), known |-> Kinds]
  BY DEF MergeProfiles, MergeAround, MergedProfile
<1> HIDE DEF nodes, tombs
<1> QED BY <1>4, <1>6, <1>7, <1>8 DEF Profiles
=============================================================================
