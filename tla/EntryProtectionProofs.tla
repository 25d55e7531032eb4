----------------------- MODULE EntryProtectionProofs -----------------------
(***************************************************************************)
(* What holds of an entry edited, protected and unprotected on any number  *)
(* of installations, for any slots, PINs, clocks and bounds.               *)
(***************************************************************************)
EXTENDS EntryProtection, ProfileMergeProofs

Runs == [kind : {"idle", "protect", "unprotect"}, todo : SUBSET Kinds, open : [Kinds -> Plains \cup {NoValue}]]
Marked(n, on) == [n EXCEPT !.mark = on, !.epoch = @ + 1]
Decisions == [on : BOOLEAN, epoch : Nat, v : Vectors]

\* The values of an entry were typed by now.
Typed(slots, texts) == \A k \in Kinds : slots[k] # NoValue => ValueOf(slots[k]) \in 0..texts

\* A copy holds the entry and nothing else, and nothing of a write that was not made yet.
Sound(p, texts, numbers) ==
  /\ p \in Profiles /\ Entry(p) \in Nodes /\ Entry(p).parent = Root
  /\ \A id \in Ids : p.tombs[id] = NoTomb /\ (id # X => p.nodes[id] = NoNode)
  /\ \A d \in Devices : Entry(p).v[d] <= numbers[d]
  /\ Typed(SlotsOf(p), texts)

\* The shape of the state, in the detail the proofs need.
BoundsOK ==
  /\ setup \in Setups
  /\ writes \in 0..MaxWrites /\ edits \in 0..MaxEdits
  /\ seq \in [Devices -> Nat] /\ \A d \in Devices : seq[d] <= writes + 1
  /\ clock \in [Devices -> 1..MaxTime]

CopiesOK ==
  /\ local \in [Devices -> Profiles]
  /\ Sound(remote, edits, seq)
  /\ \A d \in Devices : Sound(local[d], edits, seq)
  /\ \A d \in Devices : \A k \in Kinds \ KindsOf(d) : SlotsOf(local[d])[k] = NoValue

RunFits(r, kinds, texts) ==
  /\ r \in Runs
  /\ r.kind = "idle" => r = Idle
  /\ r.todo \subseteq kinds
  /\ r.kind = "unprotect" => \A k \in r.todo : r.open[k] \in Plains
  /\ Typed(r.open, texts)

RunsOK == run \in [Devices -> Runs] /\ \A d \in Devices : RunFits(run[d], KindsOf(d), edits)

RecordsOK == kept \in [Devices -> SUBSET (0..MaxEdits)] /\ decisions \subseteq Decisions

Shape == BoundsOK /\ CopiesOK /\ RunsOK /\ RecordsOK

-----------------------------------------------------------------------------
(* The shape of the state.                                                 *)

LEMMA SetupIs ==
  ASSUME setup \in Setups
  PROVE  /\ Legacy \subseteq Devices /\ Interleave \in BOOLEAN
         /\ MaxEdits \in Nat /\ MaxWrites \in Nat /\ MaxTime \in Nat \ {0}
         /\ \A n \in 0..MaxEdits : Plain(n) \in Plains /\ \A d \in Devices : Sealed(n, d) \in Seals
  BY SetupsAssumption, ValuesAssumption
     DEF Legacy, Interleave, MaxEdits, MaxWrites, MaxTime, Plain, Sealed

LEMMA KindsAre == \A d : KindsOf(d) \subseteq Kinds
  BY EntryAssumption DEF KindsOf

\* The values the two forms are made of, and what is read back from them.
LEMMA FormsAre ==
  /\ \A n, d : ValueOf(Plain(n)) = n /\ ValueOf(Sealed(n, d)) = n /\ PinOf(Sealed(n, d)) = d
  /\ \A s \in Plains : ValueOf(s) \in Nat
  /\ \A s \in Seals : ValueOf(s) \in Nat /\ PinOf(s) \in Devices
  BY ValuesAssumption DEF Plain, Sealed, ValueOf, PinOf

LEMMA BumpIs ==
  ASSUME NEW v \in Vectors, NEW d \in Devices, NEW n \in Nat
  PROVE  /\ BumpVector(v, d, n) \in Vectors /\ BumpVector(v, d, n)[d] = n
         /\ \A e \in Devices : e # d => BumpVector(v, d, n)[e] = v[e]
         /\ v[d] <= n => Covers(BumpVector(v, d, n), v)
<1>1. /\ BumpVector(v, d, n) \in Vectors /\ BumpVector(v, d, n)[d] = n
      /\ \A e \in Devices : e # d => BumpVector(v, d, n)[e] = v[e]
  BY DEF BumpVector, Vectors
<1>2. ASSUME v[d] <= n, NEW e \in Devices PROVE BumpVector(v, d, n)[e] >= v[e]
  <2>1. v[e] \in Nat
    BY DEF Vectors
  <2> QED BY <1>1, <1>2, <2>1
<1> QED BY <1>1, <1>2 DEF Covers

\* What a stamped write leaves on its machine: the node under a fresh number.
LEMMA StampedIs ==
  ASSUME BoundsOK, CopiesOK, NEW d \in Devices, NEW t \in 1..MaxTime, NEW n \in Nodes
  PROVE  LET p == Stamped(d, t, n)
         IN  /\ p \in Profiles
             /\ Entry(p) \in Nodes
             /\ Entry(p).v = BumpVector(n.v, d, seq[d] + 1) /\ Entry(p).at = t
             /\ Entry(p).epoch = n.epoch /\ Entry(p).mark = n.mark /\ Entry(p).parent = n.parent
             /\ Entry(p).slots = n.slots
             /\ p.tombs = local[d].tombs /\ p.known = local[d].known
             /\ \A id \in Ids : id # X => p.nodes[id] = local[d].nodes[id]
<1> DEFINE m == [n EXCEPT !.v = BumpVector(n.v, d, seq[d] + 1), !.at = t]
           l == local[d]
<1>1. l \in Profiles /\ seq[d] + 1 \in Nat /\ X \in Ids /\ t \in Nat
  BY SetupIs, EntryAssumption DEF BoundsOK, CopiesOK, Sound
<1>2. BumpVector(n.v, d, seq[d] + 1) \in Vectors
  BY <1>1, BumpIs DEF Nodes
<1>3. /\ m \in Nodes /\ m.v = BumpVector(n.v, d, seq[d] + 1) /\ m.at = t
      /\ m.epoch = n.epoch /\ m.mark = n.mark /\ m.parent = n.parent /\ m.slots = n.slots
  BY <1>1, <1>2 DEF Nodes
<1>4. Stamped(d, t, n) = [l EXCEPT !.nodes[X] = m, !.horizon[d] = MaxOf(l.horizon[d], seq[d] + 1)]
  BY DEF Stamped
<1>5. MaxOf(l.horizon[d], seq[d] + 1) \in Nat
  BY <1>1, MaxOfBounds DEF Profiles, Vectors
<1> HIDE DEF m, l
<1>6. Stamped(d, t, n) \in Profiles
  <2> DEFINE nodes == [l.nodes EXCEPT ![X] = m]
             horizon == [l.horizon EXCEPT ![d] = MaxOf(l.horizon[d], seq[d] + 1)]
  <2>1. nodes \in [Ids -> Nodes \cup {NoNode}]
    BY <1>1, <1>3 DEF Profiles
  <2>2. horizon \in Vectors
    BY <1>1, <1>5 DEF Profiles, Vectors
  <2>3. Stamped(d, t, n) = [l EXCEPT !.nodes = nodes, !.horizon = horizon]
    BY <1>1, <1>4 DEF Profiles
  <2> HIDE DEF nodes, horizon
  <2> QED BY <1>1, <2>1, <2>2, <2>3 DEF Profiles
<1>7. /\ Stamped(d, t, n).nodes[X] = m
      /\ Stamped(d, t, n).tombs = l.tombs /\ Stamped(d, t, n).known = l.known
      /\ \A id \in Ids : id # X => Stamped(d, t, n).nodes[id] = l.nodes[id]
  BY <1>1, <1>4 DEF Profiles
<1>8. Entry(Stamped(d, t, n)) = m
  BY <1>7 DEF Entry
<1> DEFINE p == Stamped(d, t, n)
<1>9. /\ p \in Profiles /\ Entry(p) = m /\ p.tombs = l.tombs /\ p.known = l.known
      /\ \A id \in Ids : id # X => p.nodes[id] = l.nodes[id]
  BY <1>6, <1>7, <1>8
<1> HIDE DEF p
<1>10. /\ Entry(p) \in Nodes
       /\ Entry(p).v = BumpVector(n.v, d, seq[d] + 1) /\ Entry(p).at = t
       /\ Entry(p).epoch = n.epoch /\ Entry(p).mark = n.mark /\ Entry(p).parent = n.parent
       /\ Entry(p).slots = n.slots
  BY <1>3, <1>9
<1> QED BY <1>9, <1>10 DEF p, l

\* A slot written in place.
LEMMA SlotWriteIs ==
  ASSUME NEW p \in Profiles, Entry(p) \in Nodes, NEW k \in Kinds, NEW s \in Values
  PROVE  LET q == [p EXCEPT !.nodes[X].slots[k] = s]
         IN  /\ q \in Profiles /\ Entry(q) \in Nodes
             /\ Entry(q).v = Entry(p).v /\ Entry(q).at = Entry(p).at
             /\ Entry(q).epoch = Entry(p).epoch /\ Entry(q).mark = Entry(p).mark
             /\ Entry(q).parent = Entry(p).parent
             /\ SlotsOf(q) = [SlotsOf(p) EXCEPT ![k] = s]
             /\ q.tombs = p.tombs /\ q.known = p.known
             /\ \A id \in Ids : id # X => q.nodes[id] = p.nodes[id]
<1> DEFINE n == [p.nodes[X] EXCEPT !.slots[k] = s]
           q == [p EXCEPT !.nodes[X].slots[k] = s]
<1>1. X \in Ids
  BY EntryAssumption
<1>2. q = [p EXCEPT !.nodes[X] = n]
  BY <1>1 DEF Profiles
<1>3. /\ n \in Nodes /\ n.v = Entry(p).v /\ n.at = Entry(p).at /\ n.epoch = Entry(p).epoch
      /\ n.mark = Entry(p).mark /\ n.parent = Entry(p).parent
      /\ n.slots = [SlotsOf(p) EXCEPT ![k] = s]
  BY DEF Entry, SlotsOf, Nodes
<1> HIDE DEF n, q
<1>4. q \in Profiles /\ q.nodes[X] = n /\ q.tombs = p.tombs /\ q.known = p.known
      /\ \A id \in Ids : id # X => q.nodes[id] = p.nodes[id]
  BY <1>1, <1>2, <1>3 DEF Profiles
<1> QED BY <1>3, <1>4 DEF q, Entry, SlotsOf

\* What a build with fewer kinds stores of a profile.
LEMMA StorableIs ==
  ASSUME NEW d \in Devices, NEW p \in Profiles, Entry(p) \in Nodes
  PROVE  LET q == Storable(d, p)
         IN  /\ q \in Profiles /\ Entry(q) \in Nodes
             /\ Entry(q).v = Entry(p).v /\ Entry(q).at = Entry(p).at
             /\ Entry(q).epoch = Entry(p).epoch /\ Entry(q).mark = Entry(p).mark
             /\ Entry(q).parent = Entry(p).parent
             /\ SlotsOf(q) = [k \in Kinds |-> IF k \in KindsOf(d) THEN SlotsOf(p)[k] ELSE NoValue]
             /\ q.tombs = p.tombs /\ q.known = KindsOf(d) /\ q.horizon = p.horizon
             /\ \A id \in Ids : id # X => q.nodes[id] = p.nodes[id]
             /\ \A texts, numbers : Sound(p, texts, numbers) => Sound(q, texts, numbers)
             /\ \A k \in Kinds \ KindsOf(d) : SlotsOf(q)[k] = NoValue
<1> DEFINE slots == [k \in Kinds |-> IF k \in KindsOf(d) THEN p.nodes[X].slots[k] ELSE NoValue]
           n == [p.nodes[X] EXCEPT !.slots = slots]
           q == Storable(d, p)
<1>1. X \in Ids /\ KindsOf(d) \subseteq Kinds
  BY EntryAssumption, KindsAre
<1>2. q = [p EXCEPT !.known = KindsOf(d), !.nodes[X] = n]
  BY <1>1 DEF Storable, Profiles
<1>3. slots \in [Kinds -> Values]
  BY DEF Entry, Nodes, Values
<1>4. /\ n \in Nodes /\ n.v = Entry(p).v /\ n.at = Entry(p).at /\ n.epoch = Entry(p).epoch
      /\ n.mark = Entry(p).mark /\ n.parent = Entry(p).parent /\ n.slots = slots
  <2> HIDE DEF slots
  <2> QED BY <1>3 DEF Entry, Nodes
<1>5. /\ q \in Profiles /\ q.nodes[X] = n /\ q.tombs = p.tombs /\ q.known = KindsOf(d)
      /\ q.horizon = p.horizon
      /\ \A id \in Ids : id # X => q.nodes[id] = p.nodes[id]
  <2> HIDE DEF n, q
  <2> QED BY <1>1, <1>2, <1>4 DEF Profiles
<1>6. Entry(q) = n /\ SlotsOf(q) = slots
  <2> HIDE DEF slots, n, q
  <2> QED BY <1>4, <1>5 DEF Entry, SlotsOf
<1>7. slots = [k \in Kinds |-> IF k \in KindsOf(d) THEN SlotsOf(p)[k] ELSE NoValue]
  BY DEF SlotsOf, Entry
<1>8. ASSUME NEW texts, Typed(SlotsOf(p), texts) PROVE Typed(slots, texts)
  <2> HIDE DEF slots
  <2> QED BY <1>7, <1>8 DEF Typed
<1>9. ASSUME NEW texts, NEW numbers, Sound(p, texts, numbers) PROVE Sound(q, texts, numbers)
  <2>1. Typed(slots, texts)
    BY <1>8, <1>9 DEF Sound
  <2> HIDE DEF slots, n, q
  <2> QED BY <1>4, <1>5, <1>6, <1>9, <2>1 DEF Sound
<1> HIDE DEF slots, n
<1> QED BY <1>4, <1>5, <1>6, <1>7, <1>9 DEF q

\* What a machine knows of the entry grows with the numbers and the texts given out.
LEMMA SoundGrows ==
  ASSUME NEW p, NEW e1, NEW e2 \in Nat, NEW s1 \in [Devices -> Nat], NEW s2 \in [Devices -> Nat],
         Sound(p, e1, s1), e1 \in Nat, e1 <= e2, \A d \in Devices : s1[d] <= s2[d]
  PROVE  Sound(p, e2, s2)
<1>1. \A d \in Devices : Entry(p).v[d] \in Nat
  BY DEF Sound, Nodes, Vectors
<1>2. \A d \in Devices : Entry(p).v[d] <= s2[d]
  BY <1>1 DEF Sound
<1>3. Typed(SlotsOf(p), e2)
  BY DEF Sound, Typed
<1> QED BY <1>2, <1>3 DEF Sound

LEMMA ShapeInit == Init => Shape
<1> SUFFICES ASSUME NEW maker \in Devices, Init!(maker) PROVE Shape
  BY DEF Init
<1> DEFINE p == BaseProfile(maker)
           v == BumpVector(EmptyVector, maker, 1)
           n == [v |-> v, at |-> 1, parent |-> Root, epoch |-> 0, mark |-> FALSE,
                 slots |-> [k \in Kinds |-> Plain(0)]]
<1>0. X \in Ids /\ setup \in Setups /\ MaxTime \in Nat \ {0} /\ MaxEdits \in Nat /\ MaxWrites \in Nat
      /\ Plain(0) \in Plains /\ ValueOf(Plain(0)) = 0
  <2>1. MaxTime \in Nat \ {0} /\ MaxEdits \in Nat /\ MaxWrites \in Nat /\ Plain(0) \in Plains
    BY SetupIs
  <2> QED BY <2>1, EntryAssumption, FormsAre
<1>1. /\ v \in Vectors /\ v[maker] = 1
      /\ \A d \in Devices : d # maker => v[d] = 0
  <2>1. EmptyVector \in Vectors /\ \A d \in Devices : EmptyVector[d] = 0
    BY DEF EmptyVector, Vectors
  <2>2. 1 \in Nat
    OBVIOUS
  <2>3. v \in Vectors /\ v[maker] = 1
    BY <2>1, <2>2, BumpIs
  <2>4. \A d \in Devices : d # maker => v[d] = EmptyVector[d]
    BY <2>1, <2>2, BumpIs
  <2> HIDE DEF n, p, v
  <2> QED BY <2>1, <2>3, <2>4
<1>2. n \in Nodes
  <2>1. [k \in Kinds |-> Plain(0)] \in [Kinds -> Values]
    BY <1>0 DEF Values
  <2> HIDE DEF v
  <2> QED BY <1>1, <2>1 DEF Nodes
<1>3. EmptyProfile \in Profiles
  BY DEF EmptyProfile, Profiles, EmptyVector, Vectors
<1>4. p = [EmptyProfile EXCEPT !.nodes[X] = n, !.horizon = v]
  BY DEF BaseProfile
<1>5. p \in Profiles
  <2> HIDE DEF n, v, p
  <2> QED BY <1>0, <1>1, <1>2, <1>3, <1>4 DEF Profiles
<1>6. /\ Entry(p) = n /\ \A id \in Ids : p.tombs[id] = NoTomb /\ (id # X => p.nodes[id] = NoNode)
  <2> HIDE DEF n, v, p
  <2> QED BY <1>0, <1>4 DEF EmptyProfile, Entry
<1>7. /\ n.v = v /\ n.parent = Root /\ n.slots = [k \in Kinds |-> Plain(0)]
  OBVIOUS
<1>8. seq \in [Devices -> Nat] /\ \A d \in Devices : seq[d] = IF d = maker THEN 1 ELSE 0
  OBVIOUS
<1>9. Typed(n.slots, 0)
  BY <1>0, <1>7 DEF Typed
<1>10. Sound(p, edits, seq)
  <2>1. \A d \in Devices : v[d] <= seq[d]
    BY <1>1, <1>8
  <2>2. edits = 0
    OBVIOUS
  <2> HIDE DEF n, v, p
  <2> QED BY <1>2, <1>5, <1>6, <1>7, <1>9, <2>1, <2>2 DEF Sound, SlotsOf
<1>11. ASSUME NEW d \in Devices
       PROVE  /\ Sound(local[d], edits, seq)
              /\ \A k \in Kinds \ KindsOf(d) : SlotsOf(local[d])[k] = NoValue
  <2>1. local[d] = Storable(d, p)
    OBVIOUS
  <2>2. p \in Profiles /\ Entry(p) \in Nodes
    BY <1>2, <1>5, <1>6
  <2> HIDE DEF p, n, v
  <2>3. /\ Sound(Storable(d, p), edits, seq)
        /\ \A k \in Kinds \ KindsOf(d) : SlotsOf(Storable(d, p))[k] = NoValue
    BY <1>10, <2>2, StorableIs
  <2> QED BY <2>1, <2>3
<1> HIDE DEF p
<1>12. BoundsOK
  BY <1>0, <1>8 DEF BoundsOK
<1>13. CopiesOK
  <2>1. \A d \in Devices : local[d] \in Profiles
    BY <1>11 DEF Sound
  <2> QED BY <1>10, <1>11, <2>1 DEF CopiesOK, p
<1>14. RunsOK
  BY <1>0, EntryAssumption DEF RunsOK, Runs, RunFits, Idle, Typed, KindsOf
<1>15. RecordsOK
  BY <1>0 DEF RecordsOK
<1> QED BY <1>12, <1>13, <1>14, <1>15 DEF Shape
-----------------------------------------------------------------------------
(* A cycle: what the merge of two copies leaves of the entry.              *)

LEMMA MergedIs ==
  ASSUME NEW p, NEW q, NEW texts \in Nat, NEW numbers \in [Devices -> Nat], NEW now \in Nat,
         Sound(p, texts, numbers), Sound(q, texts, numbers)
  PROVE  LET m == MergeProfiles(p, q, now)
         IN  /\ Sound(m, texts, numbers) /\ m.known = Kinds
             /\ Entry(m) = WithSecrets(DecideProtection(Entry(p), Entry(q)), Entry(p), Entry(q), p.known, q.known)
             /\ KeepsA(Entry(p), Entry(q)) => Filled(Entry(m), Entry(p), Entry(q), p.known)
             /\ ~KeepsA(Entry(p), Entry(q)) => Filled(Entry(m), Entry(q), Entry(p), q.known)
             /\ \A id \in Ids : id # X => m.nodes[id] = NoNode
             /\ m.horizon = MergeHorizon(p, q, m.nodes, m.tombs)
<1> DEFINE a == p.nodes[X]
           b == q.nodes[X]
           w == WithSecrets(DecideProtection(a, b), a, b, p.known, q.known)
           m == MergeProfiles(p, q, now)
           nodes == MergeNodes(p, q)
           tombs == MergeTombs(p, q, nodes)
<1>1. /\ a \in Nodes /\ b \in Nodes /\ a.parent = Root /\ b.parent = Root
      /\ a = Entry(p) /\ b = Entry(q) /\ X \in Ids
      /\ a # NoNode /\ b # NoNode
  BY EntryAssumption, NothingAssumption DEF Sound, Entry
<1>2. /\ KeepsA(a, b) => Filled(w, a, b, p.known)
      /\ ~KeepsA(a, b) => Filled(w, b, a, q.known)
  <2> HIDE DEF a, b
  <2> QED BY <1>1, WithSecretsFills
<1>3. KeepsA(a, b) \in BOOLEAN
  <2> HIDE DEF a, b
  <2> QED BY <1>1, DecisionParts
<1>4. w \in Nodes /\ w.parent = Root /\ w # NoNode
  <2> HIDE DEF a, b, w
  <2> QED BY <1>1, <1>2, <1>3, NothingAssumption DEF Filled
<1>5. Winner(X, p, q) = w
  BY <1>1 DEF Winner
<1>6. ASSUME NEW id \in Ids
      PROVE  /\ p.tombs[id] = NoTomb /\ q.tombs[id] = NoTomb
             /\ MergeTomb(p.tombs[id], q.tombs[id]) = NoTomb
             /\ id # X => Winner(id, p, q) = NoNode
  <2>1. p.tombs[id] = NoTomb /\ q.tombs[id] = NoTomb
    BY DEF Sound
  <2>2. MergeTomb(p.tombs[id], q.tombs[id]) = NoTomb
    BY <2>1 DEF MergeTomb
  <2>3. id # X => p.nodes[id] = NoNode /\ q.nodes[id] = NoNode
    BY DEF Sound
  <2> QED BY <2>1, <2>2, <2>3 DEF Winner
<1> DEFINE survivor == [id \in Ids |-> Survivor(Winner(id, p, q), MergeTomb(p.tombs[id], q.tombs[id]))]
<1>7. survivor[X] = w /\ \A id \in Ids : id # X => survivor[id] = NoNode
  <2> HIDE DEF w
  <2> QED BY <1>1, <1>5, <1>6 DEF Survivor
<1>8. nodes = Reparent(survivor)
  BY DEF MergeNodes
<1>9. nodes[X] = w /\ \A id \in Ids : id # X => nodes[id] = NoNode
  <2> HIDE DEF survivor, w, nodes
  <2> QED BY <1>1, <1>4, <1>7, <1>8 DEF Reparent
<1>10. \A id \in Ids : tombs[id] = NoTomb
  <2> HIDE DEF nodes
  <2> QED BY <1>6 DEF MergeTombs
<1>11. m = [nodes |-> nodes, tombs |-> Prune(tombs, now),
            horizon |-> MergeHorizon(p, q, nodes, tombs), known |-> Kinds]
  BY DEF MergeProfiles, MergeAround, MergedProfile
<1>12. Prune(tombs, now) = tombs
  <2>1. tombs = [id \in Ids |-> tombs[id]]
    BY DEF MergeTombs
  <2> HIDE DEF tombs
  <2> QED BY <1>10, <2>1 DEF Prune
<1>13. m \in Profiles
  <2>1. p \in Profiles /\ q \in Profiles
    BY DEF Sound
  <2> QED BY <2>1, MergeIsProfile
<1> HIDE DEF nodes, tombs, m
<1>14. /\ m.known = Kinds /\ Entry(m) = w /\ m.nodes = nodes /\ m.tombs = tombs
       /\ m.horizon = MergeHorizon(p, q, nodes, tombs)
  BY <1>9, <1>11, <1>12 DEF Entry
<1>15. \A d \in Devices : w.v[d] <= numbers[d]
  <2>1. TAKE d \in Devices
  <2>2. a.v[d] <= numbers[d] /\ b.v[d] <= numbers[d]
    BY <1>1 DEF Sound
  <2>3. w.v \in {a.v, b.v, MergeVectors(a.v, b.v), MergeVectors(b.v, a.v)}
    <3> HIDE DEF a, b, w
    <3> QED BY <1>2, <1>3 DEF Filled
  <2>4. MergeVectors(a.v, b.v)[d] \in {a.v[d], b.v[d]} /\ MergeVectors(b.v, a.v)[d] \in {a.v[d], b.v[d]}
    BY DEF MergeVectors, MaxOf
  <2> HIDE DEF a, b, w
  <2> QED BY <2>2, <2>3, <2>4
<1>16. Typed(w.slots, texts)
  <2>1. Typed(a.slots, texts) /\ Typed(b.slots, texts)
    BY <1>1 DEF Sound, SlotsOf
  <2>2. \A k \in Kinds : w.slots[k] \in {a.slots[k], b.slots[k], NoValue}
    <3>1. CASE KeepsA(a, b)
      <4> HIDE DEF a, b, w
      <4> QED BY <1>2, <3>1 DEF Filled, MergeSlots
    <3>2. CASE ~KeepsA(a, b)
      <4> HIDE DEF a, b, w
      <4> QED BY <1>2, <3>2 DEF Filled, MergeSlots
    <3> QED BY <3>1, <3>2
  <2> HIDE DEF a, b, w
  <2> QED BY <2>1, <2>2 DEF Typed
<1>17. Sound(m, texts, numbers)
  <2> HIDE DEF a, b, w
  <2> QED BY <1>4, <1>9, <1>10, <1>13, <1>14, <1>15, <1>16 DEF Sound, SlotsOf
<1>18. Entry(m) = WithSecrets(DecideProtection(Entry(p), Entry(q)), Entry(p), Entry(q), p.known, q.known)
  <2>1. w = WithSecrets(DecideProtection(Entry(p), Entry(q)), Entry(p), Entry(q), p.known, q.known)
    BY DEF Entry
  <2> HIDE DEF a, b, w
  <2> QED BY <1>14, <2>1
<1> HIDE DEF a, b, w
<1> QED BY <1>1, <1>2, <1>9, <1>14, <1>17, <1>18 DEF m

\* Steps that change the copy of one machine.
LEMMA CopyChanges ==
  ASSUME Shape, NEW d \in Devices, NEW p, local' = [local EXCEPT ![d] = p], BoundsOK',
         Sound(p, edits', seq'), \A k \in Kinds \ KindsOf(d) : SlotsOf(p)[k] = NoValue,
         remote' = remote \/ Sound(remote', edits', seq'),
         UNCHANGED setup, edits <= edits', \A e \in Devices : seq[e] <= seq'[e]
  PROVE  CopiesOK'
<1>1. /\ edits \in Nat /\ edits' \in Nat /\ seq \in [Devices -> Nat] /\ seq' \in [Devices -> Nat]
  BY SetupIs DEF Shape, BoundsOK, MaxEdits
<1>2. Sound(remote', edits', seq')
  BY <1>1, SoundGrows DEF Shape, CopiesOK
<1>3. \A e \in Devices : e # d => Sound(local[e], edits', seq')
  BY <1>1, SoundGrows DEF Shape, CopiesOK
<1>4. local'[d] = p /\ \A e \in Devices : e # d => local'[e] = local[e]
  BY DEF Shape, CopiesOK
<1>5. \A e \in Devices : KindsOf(e)' = KindsOf(e)
  BY DEF KindsOf, Legacy
<1>6. \A e \in Devices : Sound(local'[e], edits', seq')
  BY <1>3, <1>4
<1>7. local' \in [Devices -> Profiles]
  <2>1. p \in Profiles
    BY DEF Sound
  <2> QED BY <2>1 DEF Shape, CopiesOK
<1>8. \A e \in Devices : \A k \in Kinds \ KindsOf(e)' : SlotsOf(local'[e])[k] = NoValue
  BY <1>4, <1>5 DEF Shape, CopiesOK
<1>9. Sound(remote, edits, seq)' /\ \A e \in Devices : Sound(local[e], edits, seq)'
  BY <1>2, <1>6 DEF Sound, Entry, SlotsOf, Typed
<1>10. \A e \in Devices : \A k \in Kinds \ KindsOf(e)' : SlotsOf(local[e])'[k] = NoValue
  BY <1>8 DEF SlotsOf, Entry
<1> QED BY <1>7, <1>9, <1>10 DEF CopiesOK

LEMMA StampedStep ==
  ASSUME Shape, NEW d \in Devices, NEW t \in 1..MaxTime, NEW n \in Nodes, StampedWrite(d, t, n),
         n.v = Entry(local[d]).v, n.parent = Root, Typed(n.slots, edits'),
         \A k \in Kinds \ KindsOf(d) : n.slots[k] = NoValue,
         UNCHANGED <<setup, remote>>, edits' \in edits..MaxEdits
  PROVE  /\ BoundsOK' /\ CopiesOK'
         /\ local' = [local EXCEPT ![d] = Stamped(d, t, n)]
         /\ seq'[d] = seq[d] + 1 /\ \A e \in Devices : e # d => seq'[e] = seq[e]
<1>0. BoundsOK /\ CopiesOK
  BY DEF Shape
<1>1. /\ MaxEdits \in Nat /\ MaxWrites \in Nat /\ MaxTime \in Nat
      /\ UNCHANGED <<MaxEdits, MaxWrites, MaxTime>>
  BY <1>0, SetupIs DEF BoundsOK, MaxEdits, MaxWrites, MaxTime
<1>2. /\ writes < MaxWrites /\ writes' = writes + 1
      /\ local' = [local EXCEPT ![d] = Stamped(d, t, n)]
      /\ seq' = [seq EXCEPT ![d] = seq[d] + 1]
      /\ clock' = [clock EXCEPT ![d] = t]
  BY DEF StampedWrite
<1>3. /\ seq' \in [Devices -> Nat] /\ seq'[d] = seq[d] + 1
      /\ \A e \in Devices : e # d => seq'[e] = seq[e]
      /\ seq \in [Devices -> Nat]
  BY <1>0, <1>2 DEF BoundsOK
<1>4. BoundsOK'
  <2>1. writes' \in 0..MaxWrites /\ edits' \in 0..MaxEdits /\ clock' \in [Devices -> 1..MaxTime]
    BY <1>0, <1>1, <1>2 DEF BoundsOK
  <2>2. ASSUME NEW e \in Devices PROVE seq'[e] <= writes' + 1
    <3>1. seq[e] <= writes + 1 /\ seq[e] \in Nat /\ writes \in Nat
      BY <1>0, <1>1, <1>3 DEF BoundsOK
    <3>2. seq'[e] \in {seq[e], seq[e] + 1}
      BY <1>3
    <3> QED BY <1>2, <3>1, <3>2
  <2> QED BY <1>0, <1>1, <1>3, <2>1, <2>2 DEF BoundsOK
<1>5. \A e \in Devices : seq[e] <= seq'[e]
  BY <1>3
<1> DEFINE p == Stamped(d, t, n)
<1>6. /\ p \in Profiles /\ Entry(p) \in Nodes
      /\ Entry(p).v = BumpVector(n.v, d, seq[d] + 1) /\ Entry(p).at = t
      /\ Entry(p).parent = n.parent
      /\ Entry(p).slots = n.slots
      /\ p.tombs = local[d].tombs
      /\ \A id \in Ids : id # X => p.nodes[id] = local[d].nodes[id]
  BY <1>0, StampedIs
<1> HIDE DEF p
<1>7. \A e \in Devices : Entry(p).v[e] <= seq'[e]
  <2>1. n.v \in Vectors /\ seq[d] + 1 \in Nat
    BY <1>3 DEF Nodes
  <2>2. Entry(p).v[d] = seq[d] + 1 /\ \A e \in Devices : e # d => Entry(p).v[e] = n.v[e]
    <3> DEFINE bumped == BumpVector(n.v, d, seq[d] + 1)
    <3>1. /\ bumped[d] = seq[d] + 1
          /\ \A e \in Devices : e # d => bumped[e] = n.v[e]
      BY <2>1, BumpIs, Zenon
    <3> QED BY <1>6, <3>1
  <2>3. \A e \in Devices : n.v[e] <= seq[e]
    BY <1>0 DEF CopiesOK, Sound
  <2>4. \A e \in Devices : n.v[e] \in Nat
    BY <2>1 DEF Vectors
  <2>5. ASSUME NEW e \in Devices, e # d PROVE Entry(p).v[e] <= seq'[e]
    BY <1>3, <2>2, <2>3, <2>5
  <2>6. Entry(p).v[d] <= seq'[d]
    BY <1>3, <2>2
  <2> QED BY <2>5, <2>6
<1>8. Sound(p, edits', seq')
  BY <1>0, <1>6, <1>7 DEF CopiesOK, Sound, SlotsOf
<1>9. \A k \in Kinds \ KindsOf(d) : SlotsOf(p)[k] = NoValue
  BY <1>6 DEF SlotsOf
<1>10. edits <= edits'
  BY <1>0, <1>1 DEF BoundsOK
<1>11. CopiesOK'
  BY <1>2, <1>4, <1>5, <1>8, <1>9, <1>10, CopyChanges DEF p
<1> QED BY <1>2, <1>3, <1>4, <1>11
-----------------------------------------------------------------------------
(* The shape after a step.                                                 *)

LEMMA TextsGrow ==
  ASSUME NEW slots, NEW e1 \in Nat, NEW e2 \in Nat, e1 <= e2, Typed(slots, e1)
  PROVE  Typed(slots, e2)
  BY DEF Typed

LEMMA RunChanges ==
  ASSUME Shape, NEW d \in Devices, NEW r, run' = [run EXCEPT ![d] = r], RunFits(r, KindsOf(d), edits'),
         UNCHANGED setup, edits \in Nat, edits' \in Nat, edits <= edits'
  PROVE  RunsOK'
<1>1. run' \in [Devices -> Runs] /\ run'[d] = r /\ \A e \in Devices : e # d => run'[e] = run[e]
  BY DEF Shape, RunsOK, RunFits
<1>2. \A e \in Devices : KindsOf(e)' = KindsOf(e)
  BY DEF KindsOf, Legacy
<1>3. ASSUME NEW e \in Devices PROVE RunFits(run'[e], KindsOf(e)', edits')
  <2>1. CASE e = d
    BY <1>1, <1>2, <2>1
  <2>2. CASE e # d
    <3>1. RunFits(run[e], KindsOf(e), edits)
      BY DEF Shape, RunsOK
    <3>2. Typed(run[e].open, edits')
      BY <3>1, TextsGrow DEF RunFits
    <3> QED BY <1>1, <1>2, <2>2, <3>1, <3>2 DEF RunFits
  <2> QED BY <2>1, <2>2
<1>4. \A e \in Devices : RunFits(run[e], KindsOf(e), edits)'
  BY <1>3 DEF RunFits, Typed, Idle
<1> QED BY <1>1, <1>4 DEF RunsOK

LEMMA ExceptSlots ==
  ASSUME NEW n \in Nodes, NEW k \in Kinds, NEW s \in Values
  PROVE  LET m == [n EXCEPT !.slots[k] = s]
         IN  /\ m \in Nodes /\ m.v = n.v /\ m.at = n.at /\ m.epoch = n.epoch /\ m.mark = n.mark
             /\ m.parent = n.parent /\ m.slots = [n.slots EXCEPT ![k] = s]
             /\ m.slots[k] = s /\ \A j \in Kinds : j # k => m.slots[j] = n.slots[j]
  BY DEF Nodes

\* What a value typed into an entry is stored as.
LEMMA StoredIs ==
  ASSUME Shape, NEW d \in Devices, NEW val \in 0..MaxEdits, NEW s \in StoredForms(d, val)
  PROVE  /\ s \in Plains \cup Seals /\ ValueOf(s) = val
         /\ PinsOf(local[d]) = {} => s \in Plains
         /\ PinsOf(local[d]) # {} => s \in Seals /\ PinOf(s) \in PinsOf(local[d])
<1>1. Plain(val) \in Plains /\ \A p \in Devices : Sealed(val, p) \in Seals
  BY SetupIs DEF Shape, BoundsOK
<1>2. PinsOf(local[d]) \subseteq Devices
  BY FormsAre DEF PinsOf
<1> QED BY <1>1, <1>2, FormsAre DEF StoredForms

LEMMA ShapeEdit ==
  ASSUME Shape, NEW d \in Devices, NEW k \in Kinds, NEW t \in 1..MaxTime, Edit(d, k, t)
  PROVE  Shape'
<1>1. PICK s \in StoredForms(d, edits + 1) :
        StampedWrite(d, t, [Entry(local[d]) EXCEPT !.slots[k] = s])
  BY DEF Edit
<1>2. /\ edits < MaxEdits /\ edits' = edits + 1 /\ k \in KindsOf(d)
      /\ UNCHANGED <<setup, remote, run, kept, decisions>>
  BY DEF Edit
<1>3. edits \in 0..MaxEdits /\ MaxEdits \in Nat /\ edits + 1 \in 0..MaxEdits
  BY <1>2, SetupIs DEF Shape, BoundsOK
<1>4. s \in Values /\ ValueOf(s) = edits'
  BY <1>2, <1>3, StoredIs DEF Values
<1>5. Sound(local[d], edits, seq) /\ \A j \in Kinds \ KindsOf(d) : SlotsOf(local[d])[j] = NoValue
  BY DEF Shape, CopiesOK
<1> DEFINE n == [Entry(local[d]) EXCEPT !.slots[k] = s]
<1>6. /\ n \in Nodes /\ n.v = Entry(local[d]).v /\ n.parent = Root
      /\ n.slots[k] = s /\ \A j \in Kinds : j # k => n.slots[j] = SlotsOf(local[d])[j]
  BY <1>4, <1>5, ExceptSlots DEF Sound, SlotsOf
<1> HIDE DEF n
<1>7. Typed(n.slots, edits')
  <2>1. Typed(SlotsOf(local[d]), edits')
    BY <1>2, <1>3, <1>5, TextsGrow DEF Sound
  <2>2. ValueOf(s) \in 0..edits'
    BY <1>2, <1>3, <1>4
  <2> QED BY <1>6, <2>1, <2>2 DEF Typed
<1>8. \A j \in Kinds \ KindsOf(d) : n.slots[j] = NoValue
  BY <1>2, <1>5, <1>6
<1>9. edits' \in edits..MaxEdits
  BY <1>2, <1>3
<1>10. BoundsOK' /\ CopiesOK'
  BY <1>1, <1>2, <1>6, <1>7, <1>8, <1>9, StampedStep DEF n
<1>11. RunsOK'
  <2>1. run' = [run EXCEPT ![d] = run[d]]
    BY <1>2 DEF Shape, RunsOK
  <2>2. RunFits(run[d], KindsOf(d), edits)
    BY DEF Shape, RunsOK
  <2>3. Typed(run[d].open, edits')
    BY <1>2, <1>3, <2>2, TextsGrow DEF RunFits
  <2>4. RunFits(run[d], KindsOf(d), edits')
    BY <2>2, <2>3 DEF RunFits
  <2>5. edits \in Nat /\ edits' \in Nat /\ edits <= edits'
    BY <1>2, <1>3
  <2> QED BY <1>2, <2>1, <2>4, <2>5, RunChanges
<1>12. RecordsOK'
  BY <1>2 DEF Shape, RecordsOK, MaxEdits
<1> QED BY <1>10, <1>11, <1>12 DEF Shape
LEMMA ShapeClear ==
  ASSUME Shape, NEW d \in Devices, NEW k \in Kinds, NEW t \in 1..MaxTime, Clear(d, k, t)
  PROVE  Shape'
<1>1. /\ StampedWrite(d, t, [Entry(local[d]) EXCEPT !.slots[k] = NoValue])
      /\ UNCHANGED <<setup, remote, run, kept, edits, decisions>>
  BY DEF Clear
<1>2. edits \in 0..MaxEdits /\ MaxEdits \in Nat
  BY SetupIs DEF Shape, BoundsOK
<1>3. Sound(local[d], edits, seq) /\ \A j \in Kinds \ KindsOf(d) : SlotsOf(local[d])[j] = NoValue
  BY DEF Shape, CopiesOK
<1> DEFINE n == [Entry(local[d]) EXCEPT !.slots[k] = NoValue]
<1>4. NoValue \in Values
  BY DEF Values
<1>5. /\ n \in Nodes /\ n.v = Entry(local[d]).v /\ n.parent = Root
      /\ n.slots[k] = NoValue /\ \A j \in Kinds : j # k => n.slots[j] = SlotsOf(local[d])[j]
  BY <1>3, <1>4, ExceptSlots DEF Sound, SlotsOf
<1> HIDE DEF n
<1>6. Typed(n.slots, edits')
  BY <1>1, <1>3, <1>5 DEF Typed, Sound
<1>7. \A j \in Kinds \ KindsOf(d) : n.slots[j] = NoValue
  BY <1>3, <1>5
<1>8. edits' \in edits..MaxEdits
  BY <1>1, <1>2
<1>9. BoundsOK' /\ CopiesOK'
  BY <1>1, <1>5, <1>6, <1>7, <1>8, StampedStep DEF n
<1>10. RunsOK' /\ RecordsOK'
  BY <1>1 DEF Shape, RunsOK, RunFits, RecordsOK, MaxEdits, KindsOf, Legacy, Typed, Idle
<1> QED BY <1>9, <1>10 DEF Shape

\* A run begins, or ends with nothing marked.
LEMMA ShapeRun ==
  ASSUME Shape, NEW d \in Devices, NEW r, run' = [run EXCEPT ![d] = r], RunFits(r, KindsOf(d), edits),
         UNCHANGED <<setup, local, remote, seq, clock, kept, writes, edits, decisions>>
  PROVE  Shape'
<1>1. BoundsOK' /\ CopiesOK' /\ RecordsOK'
  BY DEF Shape, BoundsOK, CopiesOK, RecordsOK, MaxEdits, MaxWrites, MaxTime, KindsOf, Legacy, Sound,
         Entry, SlotsOf, Typed
<1>2. edits \in Nat /\ edits' \in Nat /\ edits <= edits'
  BY SetupIs DEF Shape, BoundsOK
<1>4. RunFits(r, KindsOf(d), edits')
  BY DEF RunFits
<1>3. RunsOK'
  BY <1>2, <1>4, RunChanges
<1> QED BY <1>1, <1>3 DEF Shape

LEMMA IdleFits == ASSUME Shape, NEW d \in Devices, NEW texts PROVE RunFits(Idle, KindsOf(d), texts)
  BY DEF RunFits, Idle, Runs, Typed

LEMMA ShapeStartProtect == ASSUME Shape, NEW d \in Devices, StartProtect(d) PROVE Shape'
<1> DEFINE r == [kind |-> "protect", todo |-> KindsOf(d), open |-> Idle.open]
<1>1. RunFits(r, KindsOf(d), edits)
  BY KindsAre DEF RunFits, Runs, Typed, Idle
<1> QED BY <1>1, ShapeRun DEF StartProtect

LEMMA ShapeStartUnprotect == ASSUME Shape, NEW d \in Devices, StartUnprotect(d) PROVE Shape'
<1> DEFINE sealed == {k \in Kinds : SlotsOf(local[d])[k] \in Seals}
           open == [k \in Kinds |-> IF SlotsOf(local[d])[k] \in Seals
                                    THEN Plain(ValueOf(SlotsOf(local[d])[k])) ELSE NoValue]
           r == [kind |-> "unprotect", todo |-> sealed, open |-> open]
<1>1. Sound(local[d], edits, seq) /\ \A j \in Kinds \ KindsOf(d) : SlotsOf(local[d])[j] = NoValue
  BY DEF Shape, CopiesOK
<1>2. sealed \subseteq KindsOf(d) /\ sealed \subseteq Kinds
  BY <1>1, SlotAssumption
<1>3. \A k \in sealed : ValueOf(SlotsOf(local[d])[k]) \in 0..edits
  BY <1>1, SlotAssumption DEF Sound, Typed
<1>4. edits \in 0..MaxEdits /\ MaxEdits \in Nat /\ \A n \in 0..MaxEdits : Plain(n) \in Plains
  BY SetupIs DEF Shape, BoundsOK
<1>5. \A k \in sealed : open[k] \in Plains /\ ValueOf(open[k]) \in 0..edits
  BY <1>3, <1>4, FormsAre
<1>6. open \in [Kinds -> Plains \cup {NoValue}]
  BY <1>5
<1>7. Typed(open, edits)
  BY <1>5 DEF Typed
<1>8. RunFits(r, KindsOf(d), edits)
  <2> HIDE DEF sealed, open
  <2> QED BY <1>2, <1>5, <1>6, <1>7 DEF RunFits, Runs
<1>9. run' = [run EXCEPT ![d] = r]
  BY DEF StartUnprotect
<1> HIDE DEF r
<1> QED BY <1>8, <1>9, ShapeRun DEF StartUnprotect

\* A slot written in place by a run.
LEMMA SlotStep ==
  ASSUME Shape, NEW d \in Devices, NEW k \in KindsOf(d), NEW s \in Values,
         s # NoValue => ValueOf(s) \in 0..edits,
         local' = [local EXCEPT ![d].nodes[X].slots[k] = s],
         UNCHANGED <<setup, remote, seq, clock, writes, edits>>
  PROVE  /\ BoundsOK' /\ CopiesOK'
         /\ local'[d] = [local[d] EXCEPT !.nodes[X].slots[k] = s]
         /\ \A e \in Devices : e # d => local'[e] = local[e]
<1> DEFINE p == [local[d] EXCEPT !.nodes[X].slots[k] = s]
<1>1. local' = [local EXCEPT ![d] = p]
  BY DEF Shape, CopiesOK
<1>2. Sound(local[d], edits, seq) /\ local \in [Devices -> Profiles] /\ k \in Kinds
  BY KindsAre DEF Shape, CopiesOK
<1>3. /\ p \in Profiles /\ Entry(p) \in Nodes /\ Entry(p).v = Entry(local[d]).v
      /\ Entry(p).parent = Entry(local[d]).parent
      /\ SlotsOf(p) = [SlotsOf(local[d]) EXCEPT ![k] = s]
      /\ p.tombs = local[d].tombs
      /\ \A id \in Ids : id # X => p.nodes[id] = local[d].nodes[id]
  BY <1>2, SlotWriteIs DEF Sound
<1> HIDE DEF p
<1>4. SlotsOf(local[d]) \in [Kinds -> Values]
  BY <1>2 DEF Sound, SlotsOf, Nodes
<1>5. Sound(p, edits, seq)
  <2>1. Typed(SlotsOf(p), edits)
    BY <1>2, <1>3, <1>4 DEF Sound, Typed
  <2> QED BY <1>2, <1>3, <2>1 DEF Sound
<1>6. \A j \in Kinds \ KindsOf(d) : SlotsOf(p)[j] = NoValue
  BY <1>2, <1>3, <1>4 DEF Shape, CopiesOK
<1>7. BoundsOK'
  BY DEF Shape, BoundsOK, MaxEdits, MaxWrites, MaxTime
<1>8. edits <= edits' /\ \A e \in Devices : seq[e] <= seq'[e]
  BY SetupIs DEF Shape, BoundsOK
<1>9. CopiesOK'
  BY <1>1, <1>5, <1>6, <1>7, <1>8, CopyChanges
<1> QED BY <1>1, <1>2, <1>7, <1>9 DEF p

LEMMA NextSlotIs == ASSUME NEW todo \in SUBSET Kinds, todo # {} PROVE NextSlot(todo) \in todo
<1>1. \E k \in Kinds : todo # {} => k \in todo
  OBVIOUS
<1> QED BY <1>1 DEF NextSlot

LEMMA ShapeSealSlot == ASSUME Shape, NEW d \in Devices, NEW k \in Kinds, SealSlot(d, k) PROVE Shape'
<1>1. /\ run' = [run EXCEPT ![d].todo = run[d].todo \ {k}] /\ run[d].kind = "protect"
      /\ UNCHANGED <<setup, remote, seq, clock, kept, writes, edits, decisions>>
      /\ k = NextSlot(run[d].todo) /\ run[d].todo # {}
  BY DEF SealSlot
<1>2. RunFits(run[d], KindsOf(d), edits)
  BY DEF Shape, RunsOK
<1>3. k \in run[d].todo /\ k \in KindsOf(d)
  BY <1>1, <1>2, NextSlotIs DEF RunFits, Runs
<1> DEFINE r == [run[d] EXCEPT !.todo = run[d].todo \ {k}]
<1>4. run' = [run EXCEPT ![d] = r]
  BY <1>1 DEF Shape, RunsOK
<1>5. RunFits(r, KindsOf(d), edits)
  BY <1>1, <1>2 DEF RunFits, Runs
<1> HIDE DEF r
<1>6. /\ edits \in Nat /\ edits' \in Nat /\ edits <= edits'
      /\ RunFits(r, KindsOf(d), edits')
  BY <1>1, <1>5, SetupIs DEF Shape, BoundsOK, RunFits
<1>7. RunsOK'
  BY <1>1, <1>4, <1>6, RunChanges
<1>8. RecordsOK'
  BY <1>1 DEF Shape, RecordsOK, MaxEdits
<1>9. CASE SlotsOf(local[d])[k] \in Plains
  <2> DEFINE s == Sealed(ValueOf(SlotsOf(local[d])[k]), d)
  <2>1. local' = [local EXCEPT ![d].nodes[X].slots[k] = s]
    BY <1>9 DEF SealSlot, SlotsOf, Entry
  <2>2. ValueOf(SlotsOf(local[d])[k]) \in 0..edits
    BY <1>9, SlotAssumption DEF Shape, CopiesOK, Sound, Typed
  <2>3. edits \in 0..MaxEdits /\ MaxEdits \in Nat /\ \A n \in 0..MaxEdits : Sealed(n, d) \in Seals
    BY SetupIs DEF Shape, BoundsOK
  <2>4. s \in Values /\ ValueOf(s) \in 0..edits
    BY <2>2, <2>3, FormsAre DEF Values
  <2> HIDE DEF s
  <2>5. BoundsOK' /\ CopiesOK'
    BY <1>1, <1>3, <2>1, <2>4, SlotStep
  <2> QED BY <1>7, <1>8, <2>5 DEF Shape
<1>10. CASE SlotsOf(local[d])[k] \notin Plains
  <2>1. UNCHANGED local
    BY <1>10 DEF SealSlot
  <2>2. BoundsOK' /\ CopiesOK'
    BY <1>1, <2>1 DEF Shape, BoundsOK, CopiesOK, MaxEdits, MaxWrites, MaxTime, KindsOf, Legacy, Sound,
                      Entry, SlotsOf, Typed
  <2> QED BY <1>7, <1>8, <2>2 DEF Shape
<1> QED BY <1>9, <1>10

LEMMA ShapeStoreOpened == ASSUME Shape, NEW d \in Devices, NEW k \in Kinds, StoreOpened(d, k) PROVE Shape'
<1>1. /\ run' = [run EXCEPT ![d].todo = run[d].todo \ {k}] /\ run[d].kind = "unprotect"
      /\ local' = [local EXCEPT ![d].nodes[X].slots[k] = run[d].open[k]]
      /\ UNCHANGED <<setup, remote, seq, clock, kept, writes, edits, decisions>>
      /\ k = NextSlot(run[d].todo) /\ run[d].todo # {}
  BY DEF StoreOpened
<1>2. RunFits(run[d], KindsOf(d), edits)
  BY DEF Shape, RunsOK
<1>3. k \in run[d].todo /\ k \in KindsOf(d)
  BY <1>1, <1>2, NextSlotIs DEF RunFits, Runs
<1> DEFINE r == [run[d] EXCEPT !.todo = run[d].todo \ {k}]
           s == run[d].open[k]
<1>4. run' = [run EXCEPT ![d] = r]
  BY <1>1 DEF Shape, RunsOK
<1>5. RunFits(r, KindsOf(d), edits)
  BY <1>1, <1>2 DEF RunFits, Runs
<1>6. s \in Plains /\ ValueOf(s) \in 0..edits
  BY <1>1, <1>2, <1>3, SlotAssumption DEF RunFits, Typed
<1> HIDE DEF r
<1>7. /\ edits \in Nat /\ edits' \in Nat /\ edits <= edits'
      /\ RunFits(r, KindsOf(d), edits')
  BY <1>1, <1>5, SetupIs DEF Shape, BoundsOK, RunFits
<1>8. RunsOK'
  BY <1>1, <1>4, <1>7, RunChanges
<1>9. RecordsOK'
  BY <1>1 DEF Shape, RecordsOK, MaxEdits
<1> HIDE DEF s
<1>10. s \in Values
  BY <1>6 DEF Values
<1>11. BoundsOK' /\ CopiesOK'
  BY <1>1, <1>3, <1>6, <1>10, SlotStep DEF s
<1> QED BY <1>8, <1>9, <1>11 DEF Shape

LEMMA MarkedIs ==
  ASSUME NEW n \in Nodes, NEW on \in BOOLEAN
  PROVE  /\ Marked(n, on) \in Nodes /\ Marked(n, on).v = n.v /\ Marked(n, on).parent = n.parent
         /\ Marked(n, on).slots = n.slots /\ Marked(n, on).at = n.at
         /\ Marked(n, on).mark = on /\ Marked(n, on).epoch = n.epoch + 1
<1> DEFINE m == [n EXCEPT !.mark = on]
           e == n.epoch + 1
<1>1. /\ m \in Nodes /\ m.v = n.v /\ m.parent = n.parent /\ m.slots = n.slots /\ m.at = n.at
      /\ m.mark = on /\ m.epoch = n.epoch
  BY DEF Nodes
<1>2. Marked(n, on) = [m EXCEPT !.epoch = e]
  BY <1>1 DEF Marked
<1>3. e \in Nat
  BY DEF Nodes
<1> HIDE DEF m, e
<1> DEFINE r == [m EXCEPT !.epoch = e]
<1>4. r \in Nodes
  BY <1>1, <1>3 DEF Nodes
<1>5. /\ r.v = m.v /\ r.parent = m.parent /\ r.slots = m.slots /\ r.at = m.at
      /\ r.mark = m.mark /\ r.epoch = e
  BY <1>1 DEF Nodes
<1> HIDE DEF r
<1> QED BY <1>1, <1>2, <1>4, <1>5 DEF e, r

\* The mark, the count and the vector in one node write, whichever way the decision went.
LEMMA ShapeMark ==
  ASSUME Shape, NEW d \in Devices, NEW t \in 1..MaxTime, NEW on \in BOOLEAN,
         StampedWrite(d, t, Marked(Entry(local[d]), on)),
         decisions' = decisions \cup
           {[on |-> on, epoch |-> Entry(local[d]).epoch + 1,
             v |-> BumpVector(Entry(local[d]).v, d, seq[d] + 1)]},
         run' = [run EXCEPT ![d] = Idle], UNCHANGED <<setup, remote, kept, edits>>
  PROVE  Shape'
<1> DEFINE n == Entry(local[d])
           m == Marked(n, on)
<1>1. Sound(local[d], edits, seq) /\ \A j \in Kinds \ KindsOf(d) : SlotsOf(local[d])[j] = NoValue
  BY DEF Shape, CopiesOK
<1>2. n \in Nodes
  BY <1>1 DEF Sound
<1>3. m \in Nodes /\ m.v = n.v /\ m.parent = n.parent /\ m.slots = n.slots
  BY <1>2, MarkedIs
<1> HIDE DEF m
<1>4. edits \in Nat /\ edits' \in Nat /\ edits <= edits' /\ edits' \in edits..MaxEdits
  BY SetupIs DEF Shape, BoundsOK
<1>5. m.parent = Root /\ Typed(m.slots, edits') /\ \A j \in Kinds \ KindsOf(d) : m.slots[j] = NoValue
  BY <1>1, <1>3 DEF Sound, SlotsOf
<1>6. BoundsOK' /\ CopiesOK'
  BY <1>3, <1>4, <1>5, StampedStep DEF m
<1>7. RunFits(Idle, KindsOf(d), edits')
  BY IdleFits
<1>8. RunsOK'
  BY <1>4, <1>7, RunChanges
<1> DEFINE q == [on |-> on, epoch |-> n.epoch + 1, v |-> BumpVector(n.v, d, seq[d] + 1)]
<1>9. q \in Decisions
  <2>1. seq[d] + 1 \in Nat /\ n.v \in Vectors /\ n.epoch + 1 \in Nat
    BY <1>2 DEF Shape, BoundsOK, Nodes
  <2>2. BumpVector(n.v, d, seq[d] + 1) \in Vectors
    BY <2>1, BumpIs
  <2> HIDE DEF n
  <2> QED BY <2>1, <2>2 DEF Decisions
<1>10. decisions' = decisions \cup {q}
  OBVIOUS
<1> HIDE DEF q
<1>11. RecordsOK'
  BY <1>9, <1>10 DEF Shape, RecordsOK, MaxEdits
<1> QED BY <1>6, <1>8, <1>11 DEF Shape

LEMMA ShapeMarkProtected ==
  ASSUME Shape, NEW d \in Devices, NEW t \in 1..MaxTime, MarkProtected(d, t) PROVE Shape'
<1>1. run' = [run EXCEPT ![d] = Idle] /\ UNCHANGED <<setup, remote, kept, edits>>
  BY DEF MarkProtected
<1>2. CASE PinsOf(local[d]) \subseteq {d}
  BY <1>1, <1>2, ShapeMark DEF MarkProtected, Marked
<1>3. CASE ~(PinsOf(local[d]) \subseteq {d})
  BY <1>1, <1>3, IdleFits, ShapeRun DEF MarkProtected
<1> QED BY <1>2, <1>3

LEMMA ShapeMarkUnprotected ==
  ASSUME Shape, NEW d \in Devices, NEW t \in 1..MaxTime, MarkUnprotected(d, t) PROVE Shape'
  BY ShapeMark DEF MarkUnprotected, Marked

LEMMA ShapeSync == ASSUME Shape, NEW d \in Devices, Sync(d) PROVE Shape'
<1> DEFINE m == MergeProfiles(local[d], remote, clock[d])
           s == Storable(d, m)
<1>1. /\ local' = [local EXCEPT ![d] = s] /\ remote' = s
      /\ kept' = IF LosesProtected(local[d], remote, s)
                 THEN [kept EXCEPT ![d] = kept[d] \cup ValuesOf(local[d])] ELSE kept
      /\ UNCHANGED <<setup, seq, clock, run, writes, edits, decisions>>
  BY DEF Sync
<1>2. /\ Sound(local[d], edits, seq) /\ Sound(remote, edits, seq) /\ edits \in Nat
      /\ edits \in 0..MaxEdits /\ MaxEdits \in Nat /\ seq \in [Devices -> Nat] /\ clock[d] \in Nat
  BY SetupIs DEF Shape, BoundsOK, CopiesOK
<1>3. Sound(m, edits, seq)
  BY <1>2, MergedIs
<1> HIDE DEF m
<1>4. m \in Profiles /\ Entry(m) \in Nodes
  BY <1>3 DEF Sound
<1>5. Sound(s, edits, seq) /\ \A k \in Kinds \ KindsOf(d) : SlotsOf(s)[k] = NoValue
  BY <1>3, <1>4, StorableIs
<1> HIDE DEF s
<1>6. BoundsOK'
  BY <1>1 DEF Shape, BoundsOK, MaxEdits, MaxWrites, MaxTime
<1>7. edits <= edits' /\ \A e \in Devices : seq[e] <= seq'[e]
  BY <1>1, <1>2
<1>8. Sound(s, edits', seq') /\ Sound(remote', edits', seq')
  BY <1>1, <1>5
<1>9. CopiesOK'
  BY <1>1, <1>5, <1>6, <1>7, <1>8, CopyChanges
<1>10. RunsOK'
  BY <1>1 DEF Shape, RunsOK, RunFits, KindsOf, Legacy, Typed, Idle
<1>11. ValuesOf(local[d]) \subseteq 0..MaxEdits
  BY <1>2 DEF ValuesOf, Sound, Typed
<1>12. kept' \in [Devices -> SUBSET (0..MaxEdits)]
  BY <1>1, <1>11 DEF Shape, RecordsOK
<1>13. RecordsOK'
  BY <1>1, <1>12 DEF Shape, RecordsOK, MaxEdits
<1> QED BY <1>6, <1>9, <1>10, <1>13 DEF Shape

LEMMA ShapeStep == Shape /\ [Next]_vars => Shape'
<1> SUFFICES ASSUME Shape, [Next]_vars PROVE Shape'
  OBVIOUS
<1>1. CASE UNCHANGED vars
  BY <1>1 DEF vars, Shape, BoundsOK, CopiesOK, RunsOK, RecordsOK, MaxEdits, MaxWrites, MaxTime,
              KindsOf, Legacy, Sound, Entry, SlotsOf, Typed, RunFits, Idle
<1>2. CASE Next
  <2>1. PICK d \in Devices :
          \/ Write(d) \/ StartProtect(d) \/ StartUnprotect(d)
          \/ \E k \in Kinds : SealSlot(d, k) \/ StoreOpened(d, k)
          \/ Sync(d)
    BY <1>2 DEF Next
  <2>2. CASE Write(d)
    BY <2>2, ShapeEdit, ShapeClear, ShapeMarkProtected, ShapeMarkUnprotected DEF Write
  <2>3. CASE \E k \in Kinds : SealSlot(d, k) \/ StoreOpened(d, k)
    BY <2>3, ShapeSealSlot, ShapeStoreOpened
  <2> QED BY <2>1, <2>2, <2>3, ShapeStartProtect, ShapeStartUnprotect, ShapeSync
<1> QED BY <1>1, <1>2

LEMMA ShapeAlways == Spec => []Shape
  BY ShapeInit, ShapeStep, PTL DEF Spec

\* Every variable keeps its type and its bound whatever the installations do; in particular no
\* value is ever sealed twice.
THEOREM TypeCorrect == Spec => []TypeOK
<1>1. Shape => TypeOK
  <2> SUFFICES ASSUME Shape PROVE TypeOK
    OBVIOUS
  <2>1. /\ setup \in Setups /\ local \in [Devices -> Profiles] /\ remote \in Profiles
        /\ clock \in [Devices -> 1..MaxTime] /\ kept \in [Devices -> SUBSET (0..MaxEdits)]
        /\ writes \in 0..MaxWrites /\ edits \in 0..MaxEdits
    BY DEF Shape, BoundsOK, CopiesOK, RecordsOK, Sound
  <2>2. seq \in [Devices -> 0..MaxWrites + 1]
    <3>1. MaxWrites \in Nat
      BY <2>1, SetupIs
    <3>2. ASSUME NEW d \in Devices PROVE seq[d] \in 0..MaxWrites + 1
      BY <2>1, <3>1 DEF Shape, BoundsOK
    <3> QED BY <3>2 DEF Shape, BoundsOK
  <2>3. \A d \in Devices : run[d] \in Runs
    BY DEF Shape, RunsOK
  <2> QED BY <2>1, <2>2, <2>3 DEF TypeOK, Runs
<1> QED BY <1>1, ShapeAlways, PTL

-----------------------------------------------------------------------------
(* What a step does to the entry on each machine.                          *)

\* A stamped write: the node it writes, under a number no copy has seen.
LEMMA WriteEffect ==
  ASSUME Shape, NEW d \in Devices, NEW t \in 1..MaxTime, NEW n \in Nodes, StampedWrite(d, t, n),
         n.v = Entry(local[d]).v
  PROVE  /\ Entry(local'[d]).v = BumpVector(n.v, d, seq[d] + 1)
         /\ Entry(local'[d]).epoch = n.epoch /\ Entry(local'[d]).mark = n.mark
         /\ SlotsOf(local'[d]) = n.slots /\ local'[d].known = local[d].known
         /\ Covers(Entry(local'[d]).v, Entry(local[d]).v)
         /\ Entry(local'[d]).v[d] = seq[d] + 1
         /\ \A e \in Devices : e # d => local'[e] = local[e]
<1>1. BoundsOK /\ CopiesOK /\ Sound(local[d], edits, seq) /\ local \in [Devices -> Profiles]
  BY DEF Shape, CopiesOK
<1>2. local' = [local EXCEPT ![d] = Stamped(d, t, n)]
  BY DEF StampedWrite
<1> DEFINE p == Stamped(d, t, n)
           bumped == BumpVector(n.v, d, seq[d] + 1)
<1>3. /\ Entry(p).v = bumped /\ Entry(p).epoch = n.epoch /\ Entry(p).mark = n.mark
      /\ Entry(p).slots = n.slots /\ p.known = local[d].known
  BY <1>1, StampedIs
<1>4. n.v \in Vectors /\ seq[d] \in Nat /\ n.v[d] <= seq[d] /\ n.v[d] \in Nat
  BY <1>1 DEF Nodes, BoundsOK, Sound, Vectors
<1>5. seq[d] + 1 \in Nat /\ n.v[d] <= seq[d] + 1
  BY <1>4
<1>6. bumped[d] = seq[d] + 1 /\ Covers(bumped, n.v)
  <2> DEFINE w == n.v
             z == seq[d] + 1
  <2>1. w \in Vectors /\ z \in Nat /\ w[d] <= z
    BY <1>4, <1>5
  <2> HIDE DEF w, z
  <2>2. BumpVector(w, d, z)[d] = z /\ Covers(BumpVector(w, d, z), w)
    BY <2>1, BumpIs
  <2> QED BY <2>2 DEF w, z
<1> HIDE DEF p, bumped
<1>7. local'[d] = p /\ \A e \in Devices : e # d => local'[e] = local[e]
  BY <1>1, <1>2 DEF p
<1> QED BY <1>3, <1>6, <1>7 DEF SlotsOf, bumped

\* The entry after a cycle of d: the winner's node, filled in from the loser's, and what the build
\* of d can hold of it, in both places.
LEMMA SyncEffect ==
  ASSUME Shape, NEW d \in Devices, Sync(d)
  PROVE  LET a == Entry(local[d])
             b == Entry(remote)
         IN  /\ local'[d] = remote' /\ \A e \in Devices : e # d => local'[e] = local[e]
             /\ remote'.known = KindsOf(d)
             /\ \E n \in Nodes :
                  /\ KeepsA(a, b) => Filled(n, a, b, local[d].known)
                  /\ ~KeepsA(a, b) => Filled(n, b, a, remote.known)
                  /\ Entry(remote').v = n.v /\ Entry(remote').epoch = n.epoch
                  /\ Entry(remote').mark = n.mark
                  /\ SlotsOf(remote') = [k \in Kinds |-> IF k \in KindsOf(d) THEN n.slots[k] ELSE NoValue]
<1> DEFINE m == MergeProfiles(local[d], remote, clock[d])
           s == Storable(d, m)
<1>1. local' = [local EXCEPT ![d] = s] /\ remote' = s
  BY DEF Sync
<1>2. /\ Sound(local[d], edits, seq) /\ Sound(remote, edits, seq) /\ edits \in Nat
      /\ seq \in [Devices -> Nat] /\ clock[d] \in Nat /\ local \in [Devices -> Profiles]
  BY SetupIs DEF Shape, BoundsOK, CopiesOK
<1>3. /\ Sound(m, edits, seq)
      /\ KeepsA(Entry(local[d]), Entry(remote))
           => Filled(Entry(m), Entry(local[d]), Entry(remote), local[d].known)
      /\ ~KeepsA(Entry(local[d]), Entry(remote))
           => Filled(Entry(m), Entry(remote), Entry(local[d]), remote.known)
  BY <1>2, MergedIs
<1> HIDE DEF m
<1>4. m \in Profiles /\ Entry(m) \in Nodes
  BY <1>3 DEF Sound
<1>5. /\ Entry(s).v = Entry(m).v /\ Entry(s).epoch = Entry(m).epoch /\ Entry(s).mark = Entry(m).mark
      /\ SlotsOf(s) = [k \in Kinds |-> IF k \in KindsOf(d) THEN SlotsOf(m)[k] ELSE NoValue]
      /\ s.known = KindsOf(d)
  BY <1>4, StorableIs
<1> HIDE DEF s
<1>6. local'[d] = s /\ remote' = s /\ \A e \in Devices : e # d => local'[e] = local[e]
  BY <1>1, <1>2
<1>7. SlotsOf(m) = Entry(m).slots
  BY DEF SlotsOf
<1> QED BY <1>3, <1>4, <1>5, <1>6, <1>7

\* A slot written by a run moves neither the mark nor the count nor the vector.
LEMMA SlotEffect ==
  ASSUME Shape, NEW d \in Devices, NEW k \in Kinds, SealSlot(d, k) \/ StoreOpened(d, k)
  PROVE  /\ Entry(local'[d]).v = Entry(local[d]).v /\ Entry(local'[d]).epoch = Entry(local[d]).epoch
         /\ Entry(local'[d]).mark = Entry(local[d]).mark /\ local'[d].known = local[d].known
         /\ k \in run[d].todo /\ k \in KindsOf(d)
         /\ run'[d].todo = run[d].todo \ {k} /\ run'[d].kind = run[d].kind
         /\ run'[d].open = run[d].open
         /\ \A e \in Devices : e # d => local'[e] = local[e] /\ run'[e] = run[e]
         /\ \A j \in Kinds : j # k => SlotsOf(local'[d])[j] = SlotsOf(local[d])[j]
         /\ SealSlot(d, k) => SlotsOf(local'[d])[k] =
              IF SlotsOf(local[d])[k] \in Plains THEN Sealed(ValueOf(SlotsOf(local[d])[k]), d)
              ELSE SlotsOf(local[d])[k]
         /\ StoreOpened(d, k) => SlotsOf(local'[d])[k] = run[d].open[k]
<1>1. /\ Sound(local[d], edits, seq) /\ local \in [Devices -> Profiles]
      /\ RunFits(run[d], KindsOf(d), edits) /\ run \in [Devices -> Runs]
      /\ local[d] \in Profiles /\ Entry(local[d]) \in Nodes
  BY DEF Shape, CopiesOK, RunsOK, Sound
<1>2. /\ run' = [run EXCEPT ![d].todo = run[d].todo \ {k}]
      /\ k = NextSlot(run[d].todo) /\ run[d].todo # {}
      /\ SealSlot(d, k) => run[d].kind = "protect"
      /\ StoreOpened(d, k) => run[d].kind = "unprotect"
  BY DEF SealSlot, StoreOpened
<1>3. k \in run[d].todo /\ k \in KindsOf(d)
  BY <1>1, <1>2, NextSlotIs DEF RunFits, Runs
<1>4. /\ run'[d].todo = run[d].todo \ {k} /\ run'[d].kind = run[d].kind /\ run'[d].open = run[d].open
      /\ \A e \in Devices : e # d => run'[e] = run[e]
  BY <1>1, <1>2 DEF Runs
<1> DEFINE old == SlotsOf(local[d])[k]
           s == IF SealSlot(d, k) THEN Sealed(ValueOf(old), d) ELSE run[d].open[k]
<1>5. CASE SealSlot(d, k) /\ old \notin Plains
  <2>1. UNCHANGED local
    BY <1>5 DEF SealSlot
  <2>2. ~StoreOpened(d, k)
    BY <1>2, <1>5
  <2> QED BY <1>3, <1>4, <1>5, <2>1, <2>2
<1>6. CASE ~(SealSlot(d, k) /\ old \notin Plains)
  <2>1. local' = [local EXCEPT ![d].nodes[X].slots[k] = s]
    BY <1>6, <1>2 DEF SealSlot, StoreOpened, SlotsOf, Entry
  <2>2. s \in Values
    <3>1. CASE SealSlot(d, k)
      <4>1. ValueOf(old) \in 0..edits /\ edits \in 0..MaxEdits /\ MaxEdits \in Nat
        BY <1>1, <1>6, <3>1, SetupIs, SlotAssumption DEF Sound, Typed, Shape, BoundsOK
      <4>2. \A n \in 0..MaxEdits : Sealed(n, d) \in Seals
        BY SetupIs DEF Shape, BoundsOK
      <4> QED BY <3>1, <4>1, <4>2 DEF Values
    <3>2. CASE ~SealSlot(d, k)
      BY <1>1, <1>2, <1>3, <3>2 DEF RunFits, Runs, Values
    <3> QED BY <3>1, <3>2
  <2>3. SlotsOf(local[d]) \in [Kinds -> Values]
    BY <1>1 DEF SlotsOf, Nodes
  <2> DEFINE p == [local[d] EXCEPT !.nodes[X].slots[k] = s]
  <2> HIDE DEF s
  <2>4. local'[d] = p /\ \A e \in Devices : e # d => local'[e] = local[e]
    BY <1>1, <2>1
  <2>5. /\ Entry(p).v = Entry(local[d]).v /\ Entry(p).epoch = Entry(local[d]).epoch
        /\ Entry(p).mark = Entry(local[d]).mark /\ p.known = local[d].known
        /\ SlotsOf(p) = [SlotsOf(local[d]) EXCEPT ![k] = s]
    BY <1>1, <2>2, SlotWriteIs
  <2> HIDE DEF p
  <2>6. SlotsOf(p)[k] = s /\ \A j \in Kinds : j # k => SlotsOf(p)[j] = SlotsOf(local[d])[j]
    BY <2>3, <2>5
  <2>7. SealSlot(d, k) => old \in Plains /\ s = Sealed(ValueOf(old), d)
    BY <1>6 DEF s
  <2>8. StoreOpened(d, k) => s = run[d].open[k]
    BY <1>2 DEF s
  <2> QED BY <1>3, <1>4, <2>4, <2>5, <2>6, <2>7, <2>8
<1> QED BY <1>5, <1>6

-----------------------------------------------------------------------------
(* The mark and the count.                                                 *)

\* A node shows the outcome of one of the decisions, and has seen it.
Explained(n, made) ==
  \/ n.epoch = 0 /\ ~n.mark
  \/ \E q \in made : q.epoch = n.epoch /\ q.on = n.mark /\ Covers(n.v, q.v)

Explains == Explained(Entry(remote), decisions) /\ \A d \in Devices : Explained(Entry(local[d]), decisions)

LEMMA ExplainedStays ==
  ASSUME NEW m, NEW n, m.v \in Vectors, n.v \in Vectors, NEW made \in SUBSET Decisions, NEW more,
         made \subseteq more, Explained(m, made),
         n.epoch = m.epoch, n.mark = m.mark, Covers(n.v, m.v)
  PROVE  Explained(n, more)
<1>1. CASE m.epoch = 0 /\ ~m.mark
  BY <1>1 DEF Explained
<1>2. CASE ~(m.epoch = 0 /\ ~m.mark)
  <2>1. PICK q \in made : q.epoch = m.epoch /\ q.on = m.mark /\ Covers(m.v, q.v)
    BY <1>2 DEF Explained
  <2>2. q.v \in Vectors
    BY DEF Decisions
  <2>3. Covers(n.v, q.v)
    BY <2>1, <2>2, CoversIsOrder
  <2> QED BY <2>1, <2>3 DEF Explained
<1> QED BY <1>1, <1>2

\* A copy that is left alone stays explained.
LEMMA VectorsAre ==
  ASSUME Shape
  PROVE  /\ Entry(remote) \in Nodes /\ Entry(remote).v \in Vectors
         /\ \A d \in Devices : Entry(local[d]) \in Nodes /\ Entry(local[d]).v \in Vectors
         /\ decisions \in SUBSET Decisions
  BY DEF Shape, CopiesOK, Sound, Nodes, RecordsOK

\* A step that leaves remote alone and gives d a copy which is explained.
LEMMA ExplainsOne ==
  ASSUME Shape, Explains, NEW d \in Devices, UNCHANGED remote, decisions \subseteq decisions',
         Explained(Entry(local'[d]), decisions'), \A e \in Devices : e # d => local'[e] = local[e]
  PROVE  Explains'
<1>1. ASSUME NEW m, m.v \in Vectors, Explained(m, decisions) PROVE Explained(m, decisions')
  <2>1. Covers(m.v, m.v)
    BY <1>1, CoversIsOrder
  <2> QED BY <1>1, <2>1, VectorsAre, ExplainedStays
<1>2. Explained(Entry(remote'), decisions')
  BY <1>1, VectorsAre DEF Explains
<1>3. ASSUME NEW e \in Devices PROVE Explained(Entry(local'[e]), decisions')
  BY <1>1, VectorsAre DEF Explains
<1>4. Explained(Entry(remote), decisions)' /\ \A e \in Devices : Explained(Entry(local[e]), decisions)'
  BY <1>2, <1>3 DEF Explained, Entry
<1> QED BY <1>4 DEF Explains

LEMMA ExplainsWrite ==
  ASSUME Shape, Explains, NEW d \in Devices, NEW t \in 1..MaxTime, NEW n \in Nodes, StampedWrite(d, t, n),
         n.v = Entry(local[d]).v, UNCHANGED remote, Shape',
         \/ n.epoch = Entry(local[d]).epoch /\ n.mark = Entry(local[d]).mark /\ UNCHANGED decisions
         \/ decisions' = decisions \cup
              {[on |-> n.mark, epoch |-> n.epoch, v |-> BumpVector(n.v, d, seq[d] + 1)]}
  PROVE  Explains'
<1> DEFINE new == Entry(local'[d])
           old == Entry(local[d])
           bumped == BumpVector(n.v, d, seq[d] + 1)
<1>1. /\ new.v = bumped /\ new.epoch = n.epoch /\ new.mark = n.mark /\ Covers(new.v, old.v)
      /\ \A e \in Devices : e # d => local'[e] = local[e]
  BY WriteEffect
<1>2. new \in Nodes /\ new.v \in Vectors
  BY DEF Shape, CopiesOK, Sound, Nodes, Entry
<1>0. \/ n.epoch = old.epoch /\ n.mark = old.mark /\ UNCHANGED decisions
      \/ decisions' = decisions \cup {[on |-> n.mark, epoch |-> n.epoch, v |-> bumped]}
  OBVIOUS
<1> HIDE DEF new, bumped, old
<1>3. decisions \subseteq decisions'
  OBVIOUS
<1>4. Explained(new, decisions')
  <2>1. CASE n.epoch = old.epoch /\ n.mark = old.mark /\ UNCHANGED decisions
    <3>1. old.v \in Vectors /\ Explained(old, decisions) /\ decisions \in SUBSET Decisions
      BY VectorsAre DEF Explains, old
    <3> QED BY <1>1, <1>2, <1>3, <2>1, <3>1, ExplainedStays
  <2>2. CASE decisions' = decisions \cup {[on |-> n.mark, epoch |-> n.epoch, v |-> bumped]}
    <3>1. Covers(new.v, new.v)
      BY <1>2, CoversIsOrder
    <3> DEFINE q == [on |-> n.mark, epoch |-> n.epoch, v |-> bumped]
    <3>2. q \in decisions' /\ q.on = n.mark /\ q.epoch = n.epoch /\ q.v = bumped
      BY <2>2
    <3> HIDE DEF q
    <3>3. q.on = new.mark /\ q.epoch = new.epoch /\ Covers(new.v, q.v)
      BY <1>1, <3>1, <3>2
    <3> QED BY <3>2, <3>3 DEF Explained
  <2> QED BY <1>0, <2>1, <2>2 DEF old, bumped
<1> QED BY <1>1, <1>3, <1>4, ExplainsOne DEF new

LEMMA ExplainsSync == ASSUME Shape, Explains, NEW d \in Devices, Sync(d) PROVE Explains'
<1> DEFINE a == Entry(local[d])
           b == Entry(remote)
           new == Entry(remote')
<1>1. /\ local'[d] = remote' /\ \A e \in Devices : e # d => local'[e] = local[e]
      /\ UNCHANGED decisions
  BY SyncEffect DEF Sync
<1>2. /\ a \in Nodes /\ b \in Nodes /\ a.v \in Vectors /\ b.v \in Vectors
      /\ Explained(a, decisions) /\ Explained(b, decisions) /\ decisions \in SUBSET Decisions
  BY VectorsAre DEF Explains
<1>3. PICK n \in Nodes : /\ KeepsA(a, b) => Filled(n, a, b, local[d].known)
                         /\ ~KeepsA(a, b) => Filled(n, b, a, remote.known)
                         /\ new.v = n.v /\ new.epoch = n.epoch /\ new.mark = n.mark
  BY SyncEffect
<1> HIDE DEF a, b, new
<1>4. /\ Covers(a.v, a.v) /\ Covers(b.v, b.v) /\ MergeVectors(a.v, b.v) \in Vectors
      /\ Covers(MergeVectors(a.v, b.v), a.v) /\ Covers(MergeVectors(a.v, b.v), b.v)
      /\ Covers(MergeVectors(b.v, a.v), a.v) /\ Covers(MergeVectors(b.v, a.v), b.v)
  BY <1>2, CoversIsOrder, MergeVectorsIsJoin
<1>5. n.v \in Vectors
  BY DEF Nodes
<1>6. Explained(new, decisions)
  <2>1. CASE KeepsA(a, b)
    BY <1>2, <1>3, <1>4, <1>5, <2>1, ExplainedStays DEF Filled
  <2>2. CASE ~KeepsA(a, b)
    BY <1>2, <1>3, <1>4, <1>5, <2>2, ExplainedStays DEF Filled
  <2> QED BY <2>1, <2>2
<1>7. /\ Explained(Entry(remote'), decisions')
      /\ \A e \in Devices : Explained(Entry(local'[e]), decisions')
  BY <1>1, <1>6 DEF Explains, new
<1>8. Explained(Entry(remote), decisions)' /\ \A e \in Devices : Explained(Entry(local[e]), decisions)'
  BY <1>7 DEF Explained, Entry
<1> QED BY <1>8 DEF Explains

\* A step of d that leaves the vector, the mark and the count of every copy alone.
LEMMA ExplainsStill ==
  ASSUME Shape, Explains, NEW d \in Devices, UNCHANGED <<remote, decisions>>, Shape',
         Entry(local'[d]).v = Entry(local[d]).v, Entry(local'[d]).epoch = Entry(local[d]).epoch,
         Entry(local'[d]).mark = Entry(local[d]).mark,
         \A e \in Devices : e # d => local'[e] = local[e]
  PROVE  Explains'
<1>1. /\ Entry(local[d]).v \in Vectors /\ Explained(Entry(local[d]), decisions)
      /\ decisions \in SUBSET Decisions
  BY VectorsAre DEF Explains
<1>2. Covers(Entry(local[d]).v, Entry(local[d]).v)
  BY <1>1, CoversIsOrder
<1>3. Explained(Entry(local'[d]), decisions')
  BY <1>1, <1>2, ExplainedStays
<1> QED BY <1>3, ExplainsOne

LEMMA ExplainsStep == Shape /\ Explains /\ [Next]_vars => Explains'
<1> SUFFICES ASSUME Shape, Explains, [Next]_vars PROVE Explains'
  OBVIOUS
<1>0. Shape'
  BY ShapeStep
<1>1. CASE UNCHANGED vars
  BY <1>1 DEF vars, Explains, Explained, Entry
<1>2. ASSUME NEW d \in Devices, NEW t \in 1..MaxTime, NEW k \in Kinds, Edit(d, k, t) \/ Clear(d, k, t)
      PROVE Explains'
  <2>1. \E s \in Values : StampedWrite(d, t, [Entry(local[d]) EXCEPT !.slots[k] = s])
    <3>1. CASE Edit(d, k, t)
      <4>1. edits + 1 \in 0..MaxEdits
        BY <3>1, SetupIs DEF Edit, Shape, BoundsOK
      <4> QED BY <3>1, <4>1, StoredIs DEF Edit, Values
    <3>2. CASE Clear(d, k, t)
      BY <3>2 DEF Clear, Values
    <3> QED BY <1>2, <3>1, <3>2
  <2>2. PICK s \in Values : StampedWrite(d, t, [Entry(local[d]) EXCEPT !.slots[k] = s])
    BY <2>1
  <2> DEFINE n == [Entry(local[d]) EXCEPT !.slots[k] = s]
  <2>3. /\ n \in Nodes /\ n.v = Entry(local[d]).v /\ n.epoch = Entry(local[d]).epoch
        /\ n.mark = Entry(local[d]).mark
    BY VectorsAre, ExceptSlots
  <2>4. UNCHANGED <<remote, decisions>>
    BY <1>2 DEF Edit, Clear
  <2>5. StampedWrite(d, t, n)
    BY <2>2
  <2> HIDE DEF n
  <2> QED BY <1>0, <2>3, <2>4, <2>5, ExplainsWrite
<1>3. ASSUME NEW d \in Devices, NEW t \in 1..MaxTime, NEW on \in BOOLEAN,
             StampedWrite(d, t, Marked(Entry(local[d]), on)), UNCHANGED remote,
             decisions' = decisions \cup
               {[on |-> on, epoch |-> Entry(local[d]).epoch + 1,
                 v |-> BumpVector(Entry(local[d]).v, d, seq[d] + 1)]}
      PROVE Explains'
  <2> DEFINE n == Marked(Entry(local[d]), on)
  <2>1. /\ n \in Nodes /\ n.v = Entry(local[d]).v /\ n.mark = on
        /\ n.epoch = Entry(local[d]).epoch + 1
    BY VectorsAre, MarkedIs
  <2> HIDE DEF n
  <2>2. StampedWrite(d, t, n)
    BY <1>3 DEF n
  <2>3. decisions' = decisions \cup
          {[on |-> n.mark, epoch |-> n.epoch, v |-> BumpVector(n.v, d, seq[d] + 1)]}
    BY <1>3, <2>1
  <2> QED BY <1>0, <1>3, <2>1, <2>2, <2>3, ExplainsWrite
<1>4. ASSUME NEW d \in Devices, NEW t \in 1..MaxTime, MarkProtected(d, t) PROVE Explains'
  <2>1. CASE PinsOf(local[d]) \subseteq {d}
    BY <1>3, <1>4, <2>1 DEF MarkProtected, Marked
  <2>2. CASE ~(PinsOf(local[d]) \subseteq {d})
    BY <1>0, <1>4, <2>2, ExplainsStill DEF MarkProtected
  <2> QED BY <2>1, <2>2
<1>5. ASSUME NEW d \in Devices, NEW t \in 1..MaxTime, MarkUnprotected(d, t) PROVE Explains'
  BY <1>3, <1>5 DEF MarkUnprotected, Marked
<1>6. ASSUME NEW d \in Devices, StartProtect(d) \/ StartUnprotect(d) PROVE Explains'
  BY <1>0, <1>6, ExplainsStill DEF StartProtect, StartUnprotect
<1>7. ASSUME NEW d \in Devices, NEW k \in Kinds, SealSlot(d, k) \/ StoreOpened(d, k) PROVE Explains'
  <2>1. UNCHANGED <<remote, decisions>>
    BY <1>7 DEF SealSlot, StoreOpened
  <2> QED BY <1>0, <1>7, <2>1, SlotEffect, ExplainsStill
<1> QED BY <1>1, <1>2, <1>4, <1>5, <1>6, <1>7, ExplainsSync DEF Next, Write

LEMMA ExplainsInit == Init => Explains
<1> SUFFICES ASSUME Init PROVE Explains
  OBVIOUS
<1>1. PICK maker \in Devices : Init!(maker)
  BY DEF Init
<1> DEFINE p == BaseProfile(maker)
<1>2. Sound(p, edits, seq) /\ p = remote
  BY <1>1, ShapeInit DEF Shape, CopiesOK
<1>3. Entry(p).epoch = 0 /\ ~Entry(p).mark
  BY EntryAssumption DEF Entry, BaseProfile, EmptyProfile
<1> HIDE DEF p
<1>4. \A d \in Devices : Entry(Storable(d, p)).epoch = 0 /\ ~Entry(Storable(d, p)).mark
  BY <1>2, <1>3, StorableIs DEF Sound
<1>5. \A d \in Devices : local[d] = Storable(d, p)
  BY <1>1 DEF p
<1> QED BY <1>2, <1>3, <1>4, <1>5 DEF Explains, Explained

\* syncPinRule.protectionDecision: a decision is one node write, so whatever raced and whatever a
\* cycle found half sealed, every copy of the entry shows the mark and the count of one decision,
\* which its vector covers.
THEOREM MarkAndEpoch == Spec => []MarkAndEpochTogether
<1>1. Explains => MarkAndEpochTogether
  BY DEF Explains, Explained, MarkAndEpochTogether
<1> QED BY <1>1, ExplainsInit, ShapeAlways, ExplainsStep, PTL DEF Spec

-----------------------------------------------------------------------------
(* No mixed entry.                                                         *)

\* What a copy may look like in the middle of a run of its machine.
Whole(p, r) ==
  /\ r.kind = "idle" => Unmixed(Entry(p))
  /\ r.kind = "protect" => \A k \in Kinds \ r.todo : SlotsOf(p)[k] \notin Plains
  /\ r.kind = "unprotect" => \A k \in Kinds \ r.todo : SlotsOf(p)[k] \notin Seals

\* Runs that nothing falls into: one at a time, and every other copy all sealed or all readable.
WholeRuns ==
  ~Interleave =>
    /\ \A d, e \in Devices : run[d].kind # "idle" /\ run[e].kind # "idle" => d = e
    /\ Unmixed(Entry(remote))
    /\ \A d \in Devices : Whole(local[d], run[d])

LEMMA RunIs ==
  ASSUME Shape, NEW d \in Devices
  PROVE  /\ run[d].kind \in {"idle", "protect", "unprotect"} /\ run[d].todo \subseteq Kinds
         /\ run[d].kind = "idle" <=> run[d] = Idle
  BY DEF Shape, RunsOK, RunFits, Runs, Idle

\* The machines that take no step are between runs, and stay as they are.
LEMMA WholeOne ==
  ASSUME WholeRuns, NEW d \in Devices, UNCHANGED setup,
         ~Interleave => \A e \in Devices : e # d => run[e].kind = "idle",
         ~Interleave => Unmixed(Entry(remote')) /\ Whole(local'[d], run'[d]),
         \A e \in Devices : e # d => local'[e] = local[e] /\ run'[e] = run[e]
  PROVE  WholeRuns'
<1> SUFFICES ASSUME ~Interleave PROVE WholeRuns'
  BY DEF WholeRuns, Interleave
<1>1. \A e, f \in Devices : run'[e].kind # "idle" /\ run'[f].kind # "idle" => e = f
  OBVIOUS
<1>2. \A e \in Devices : Whole(local'[e], run'[e])
  BY DEF WholeRuns
<1>3. Unmixed(Entry(remote))' /\ \A e \in Devices : Whole(local[e], run[e])'
  BY <1>2 DEF Whole, Unmixed, Entry, SlotsOf, SealedNode
<1> QED BY <1>1, <1>3 DEF WholeRuns

\* A step that needs its machine to be free, or the only one in a run, finds the others idle.
LEMMA OthersIdle ==
  ASSUME Shape, WholeRuns, NEW d \in Devices, Interleave \/ Quiet \/ run[d].kind # "idle", ~Interleave
  PROVE  \A e \in Devices : e # d => run[e].kind = "idle"
  BY RunIs DEF WholeRuns, Quiet

LEMMA WholeWrite ==
  ASSUME Shape, WholeRuns, NEW d \in Devices, NEW t \in 1..MaxTime, NEW n \in Nodes, StampedWrite(d, t, n),
         n.v = Entry(local[d]).v, UNCHANGED <<setup, remote>>,
         Interleave \/ Quiet \/ run[d].kind # "idle",
         ~Interleave => Unmixed(n),
         run'[d] = Idle, \A e \in Devices : e # d => run'[e] = run[e]
  PROVE  WholeRuns'
<1>1. SlotsOf(local'[d]) = n.slots /\ \A e \in Devices : e # d => local'[e] = local[e]
  BY WriteEffect
<1>2. ~Interleave => Whole(local'[d], run'[d])
  BY <1>1 DEF Whole, Unmixed, SealedNode, SlotsOf, Idle
<1>3. ~Interleave => Unmixed(Entry(remote'))
  BY DEF WholeRuns
<1> QED BY <1>1, <1>2, <1>3, OthersIdle, WholeOne

LEMMA WholeSync == ASSUME Shape, WholeRuns, NEW d \in Devices, Sync(d) PROVE WholeRuns'
<1> DEFINE a == Entry(local[d])
           b == Entry(remote)
<1>1. /\ local'[d] = remote' /\ \A e \in Devices : e # d => local'[e] = local[e]
      /\ UNCHANGED <<setup, run>> /\ (Interleave \/ Quiet)
  BY SyncEffect DEF Sync
<1>2. a \in Nodes /\ b \in Nodes
  BY VectorsAre
<1>3. PICK n \in Nodes : /\ KeepsA(a, b) => Filled(n, a, b, local[d].known)
                         /\ ~KeepsA(a, b) => Filled(n, b, a, remote.known)
                         /\ SlotsOf(remote') = [k \in Kinds |-> IF k \in KindsOf(d) THEN n.slots[k] ELSE NoValue]
  BY SyncEffect
<1>4. ASSUME ~Interleave PROVE Unmixed(Entry(remote')) /\ Whole(local'[d], run'[d])
  <2>1. run[d].kind = "idle"
    BY <1>1, <1>4, RunIs DEF Quiet
  <2>2. Unmixed(a) /\ Unmixed(b)
    BY <1>4, <2>1 DEF WholeRuns, Whole
  <2> HIDE DEF a, b
  <2>3. Unmixed(n)
    <3>1. CASE KeepsA(a, b)
      BY <1>2, <1>3, <2>2, <3>1, MergeSlotsUnmixes DEF Filled
    <3>2. CASE ~KeepsA(a, b)
      BY <1>2, <1>3, <2>2, <3>2, MergeSlotsUnmixes DEF Filled
    <3> QED BY <3>1, <3>2
  <2>4. Unmixed(Entry(remote'))
    BY <1>3, <2>3, SlotAssumption DEF Unmixed, SealedNode, SlotsOf
  <2>5. run'[d].kind = "idle" /\ Unmixed(Entry(local'[d]))
    BY <1>1, <2>1, <2>4
  <2>6. Whole(local'[d], run'[d])
    BY <2>5 DEF Whole
  <2> QED BY <2>4, <2>6
<1>5. ~Interleave => \A e \in Devices : e # d => run[e].kind = "idle"
  BY <1>1, OthersIdle
<1>6. ~Interleave => Unmixed(Entry(remote')) /\ Whole(local'[d], run'[d])
  BY <1>4
<1>7. \A e \in Devices : e # d => local'[e] = local[e] /\ run'[e] = run[e]
  BY <1>1
<1>8. UNCHANGED setup
  BY <1>1
<1> HIDE DEF a, b
<1> QED BY <1>5, <1>6, <1>7, <1>8, WholeOne

\* The value an edit types, and a slot it empties, leave the entry all sealed or all readable.
LEMMA WholeEdit ==
  ASSUME Shape, WholeRuns, NEW d \in Devices, NEW k \in Kinds, NEW t \in 1..MaxTime,
         Edit(d, k, t) \/ Clear(d, k, t)
  PROVE  WholeRuns'
<1>1. PICK s \in Values :
        /\ StampedWrite(d, t, [Entry(local[d]) EXCEPT !.slots[k] = s])
        /\ s \in Seals => PinsOf(local[d]) # {}
        /\ s \in Plains => PinsOf(local[d]) = {}
  <2>1. CASE Edit(d, k, t)
    <3>1. edits + 1 \in 0..MaxEdits
      BY <2>1, SetupIs DEF Edit, Shape, BoundsOK
    <3>2. PICK s \in StoredForms(d, edits + 1) :
            StampedWrite(d, t, [Entry(local[d]) EXCEPT !.slots[k] = s])
      BY <2>1 DEF Edit
    <3>3. /\ s \in Plains \cup Seals
          /\ PinsOf(local[d]) = {} => s \in Plains
          /\ PinsOf(local[d]) # {} => s \in Seals
      BY <3>1, <3>2, StoredIs
    <3>4. /\ s \in Values
          /\ s \in Seals => PinsOf(local[d]) # {}
          /\ s \in Plains => PinsOf(local[d]) = {}
      BY <3>3, SlotAssumption DEF Values
    <3> QED BY <3>2, <3>4
  <2>2. CASE Clear(d, k, t)
    BY <2>2, SlotAssumption DEF Clear, Values
  <2> QED BY <2>1, <2>2
<1>2. /\ UNCHANGED <<setup, remote, run>> /\ Free(d)
  BY DEF Edit, Clear
<1>3. run[d] = Idle /\ (Interleave \/ Quiet)
  BY <1>2 DEF Free
<1> DEFINE n == [Entry(local[d]) EXCEPT !.slots[k] = s]
<1>4. /\ n \in Nodes /\ n.v = Entry(local[d]).v /\ n.slots[k] = s
      /\ \A j \in Kinds : j # k => n.slots[j] = SlotsOf(local[d])[j]
  BY VectorsAre, ExceptSlots DEF SlotsOf
<1>5. StampedWrite(d, t, n)
  BY <1>1
<1> HIDE DEF n
<1>6. ASSUME ~Interleave PROVE Unmixed(n)
  <2>1. Unmixed(Entry(local[d]))
    BY <1>3, <1>6, RunIs DEF WholeRuns, Whole
  <2>2. PinsOf(local[d]) # {} <=> \E j \in Kinds : SlotsOf(local[d])[j] \in Seals
    BY DEF PinsOf
  <2>3. CASE PinsOf(local[d]) = {}
    BY <1>1, <1>4, <2>2, <2>3 DEF Unmixed, SealedNode
  <2>4. CASE PinsOf(local[d]) # {}
    <3>1. \A j \in Kinds : SlotsOf(local[d])[j] \notin Plains
      BY <2>1, <2>2, <2>4 DEF Unmixed, SealedNode, SlotsOf
    <3> QED BY <1>1, <1>4, <2>4, <3>1 DEF Unmixed
  <2> QED BY <2>3, <2>4
<1>7. run'[d] = Idle /\ \A e \in Devices : e # d => run'[e] = run[e]
  BY <1>2, <1>3
<1>8. Interleave \/ Quiet \/ run[d].kind # "idle"
  BY <1>3
<1>9. UNCHANGED <<setup, remote>>
  BY <1>2
<1> QED BY <1>4, <1>5, <1>6, <1>7, <1>8, <1>9, WholeWrite

\* A run has left nothing behind once its last slot is written.
LEMMA WholeEnd ==
  ASSUME Shape, WholeRuns, ~Interleave, NEW d \in Devices, run[d].kind # "idle", run[d].todo = {}
  PROVE  Unmixed(Entry(local[d]))
<1>1. run[d].kind \in {"protect", "unprotect"} /\ Whole(local[d], run[d])
  BY RunIs DEF WholeRuns
<1> QED BY <1>1 DEF Whole, Unmixed, SealedNode, SlotsOf

LEMMA WholeMark ==
  ASSUME Shape, WholeRuns, NEW d \in Devices, NEW t \in 1..MaxTime, NEW on \in BOOLEAN,
         StampedWrite(d, t, Marked(Entry(local[d]), on)), UNCHANGED <<setup, remote>>,
         run' = [run EXCEPT ![d] = Idle], run[d].kind # "idle", run[d].todo = {}
  PROVE  WholeRuns'
<1> DEFINE n == Marked(Entry(local[d]), on)
<1>1. n \in Nodes /\ n.v = Entry(local[d]).v /\ n.slots = SlotsOf(local[d])
  BY VectorsAre, MarkedIs DEF SlotsOf
<1>2. StampedWrite(d, t, n)
  OBVIOUS
<1> HIDE DEF n
<1>3. ~Interleave => Unmixed(n)
  BY <1>1, WholeEnd DEF Unmixed, SealedNode, SlotsOf
<1>4. run'[d] = Idle /\ \A e \in Devices : e # d => run'[e] = run[e]
  BY DEF Shape, RunsOK
<1> QED BY <1>1, <1>2, <1>3, <1>4, WholeWrite

LEMMA WholeStep == Shape /\ WholeRuns /\ [Next]_vars => WholeRuns'
<1> SUFFICES ASSUME Shape, WholeRuns, [Next]_vars PROVE WholeRuns'
  OBVIOUS
<1>1. CASE UNCHANGED vars
  BY <1>1 DEF vars, WholeRuns, Whole, Unmixed, SealedNode, SlotsOf, Entry, Interleave
<1>2. ASSUME NEW d \in Devices, NEW r, run' = [run EXCEPT ![d] = r],
             UNCHANGED <<setup, local, remote>>,
             Interleave \/ Quiet \/ run[d].kind # "idle",
             ~Interleave => Whole(local[d], r)
      PROVE WholeRuns'
  <2>1. /\ run'[d] = r
        /\ \A e \in Devices : e # d => local'[e] = local[e] /\ run'[e] = run[e]
    BY <1>2 DEF Shape, RunsOK
  <2>2. ~Interleave => Unmixed(Entry(remote')) /\ Whole(local'[d], run'[d])
    BY <1>2, <2>1 DEF WholeRuns
  <2>3. ~Interleave => \A e \in Devices : e # d => run[e].kind = "idle"
    BY <1>2, OthersIdle
  <2> QED BY <1>2, <2>1, <2>2, <2>3, WholeOne
<1>3. ASSUME NEW d \in Devices, StartProtect(d) PROVE WholeRuns'
  <2> DEFINE r == [kind |-> "protect", todo |-> KindsOf(d), open |-> Idle.open]
  <2>1. /\ run' = [run EXCEPT ![d] = r] /\ UNCHANGED <<setup, local, remote>>
        /\ Interleave \/ Quiet \/ run[d].kind # "idle"
    BY <1>3 DEF StartProtect, Free
  <2>2. Whole(local[d], r)
    <3>1. \A k \in Kinds \ KindsOf(d) : SlotsOf(local[d])[k] = NoValue
      BY DEF Shape, CopiesOK
    <3> QED BY <3>1, SlotAssumption DEF Whole
  <2> HIDE DEF r
  <2> QED BY <1>2, <2>1, <2>2
<1>4. ASSUME NEW d \in Devices, StartUnprotect(d) PROVE WholeRuns'
  <2> DEFINE r == [kind |-> "unprotect", todo |-> {k \in Kinds : SlotsOf(local[d])[k] \in Seals},
                   open |-> [k \in Kinds |-> IF SlotsOf(local[d])[k] \in Seals
                               THEN Plain(ValueOf(SlotsOf(local[d])[k])) ELSE NoValue]]
  <2>1. /\ run' = [run EXCEPT ![d] = r] /\ UNCHANGED <<setup, local, remote>>
        /\ Interleave \/ Quiet \/ run[d].kind # "idle"
    BY <1>4 DEF StartUnprotect, Free
  <2>2. Whole(local[d], r)
    BY DEF Whole
  <2> HIDE DEF r
  <2> QED BY <1>2, <2>1, <2>2
<1>5. ASSUME NEW d \in Devices, NEW k \in Kinds, SealSlot(d, k) \/ StoreOpened(d, k) PROVE WholeRuns'
  <2>1. /\ run'[d].todo = run[d].todo \ {k} /\ run'[d].kind = run[d].kind
        /\ \A e \in Devices : e # d => local'[e] = local[e] /\ run'[e] = run[e]
        /\ \A j \in Kinds : j # k => SlotsOf(local'[d])[j] = SlotsOf(local[d])[j]
        /\ SealSlot(d, k) => SlotsOf(local'[d])[k] =
             IF SlotsOf(local[d])[k] \in Plains THEN Sealed(ValueOf(SlotsOf(local[d])[k]), d)
             ELSE SlotsOf(local[d])[k]
        /\ StoreOpened(d, k) => SlotsOf(local'[d])[k] = run[d].open[k]
        /\ k \in run[d].todo
    BY <1>5, SlotEffect
  <2>2. /\ SealSlot(d, k) => run[d].kind = "protect"
        /\ StoreOpened(d, k) => run[d].kind = "unprotect"
        /\ UNCHANGED <<setup, remote>>
    BY <1>5 DEF SealSlot, StoreOpened
  <2>3. SealSlot(d, k) => SlotsOf(local'[d])[k] \notin Plains
    <3>1. CASE SlotsOf(local[d])[k] \in Plains
      <4>1. SlotsOf(local[d])[k] # NoValue /\ edits \in 0..MaxEdits /\ MaxEdits \in Nat
        BY <3>1, SlotAssumption, SetupIs DEF Shape, BoundsOK
      <4>2. ValueOf(SlotsOf(local[d])[k]) \in 0..MaxEdits
        BY <4>1 DEF Shape, CopiesOK, Sound, Typed
      <4>3. Sealed(ValueOf(SlotsOf(local[d])[k]), d) \in Seals
        BY <4>2, SetupIs DEF Shape, BoundsOK
      <4> QED BY <2>1, <3>1, <4>3, SlotAssumption
    <3>2. CASE SlotsOf(local[d])[k] \notin Plains
      BY <2>1, <3>2
    <3> QED BY <3>1, <3>2
  <2>4. StoreOpened(d, k) => SlotsOf(local'[d])[k] \notin Seals
    <3>1. StoreOpened(d, k) => run[d].open[k] \in Plains
      BY <2>1, <2>2 DEF Shape, RunsOK, RunFits
    <3> QED BY <2>1, <3>1, SlotAssumption
  <2>5. ~Interleave => Whole(local'[d], run'[d])
    <3> SUFFICES ASSUME ~Interleave PROVE Whole(local'[d], run'[d])
      OBVIOUS
    <3>1. Whole(local[d], run[d])
      BY DEF WholeRuns
    <3>2. CASE SealSlot(d, k)
      BY <2>1, <2>2, <2>3, <3>1, <3>2 DEF Whole
    <3>3. CASE StoreOpened(d, k)
      BY <2>1, <2>2, <2>4, <3>1, <3>3 DEF Whole
    <3> QED BY <1>5, <3>2, <3>3
  <2>6. ~Interleave => \A e \in Devices : e # d => run[e].kind = "idle"
    BY <1>5, <2>2, OthersIdle
  <2>7. ~Interleave => Unmixed(Entry(remote'))
    BY <2>2 DEF WholeRuns
  <2> QED BY <2>1, <2>2, <2>5, <2>6, <2>7, WholeOne
<1>6. ASSUME NEW d \in Devices, NEW t \in 1..MaxTime, MarkProtected(d, t) PROVE WholeRuns'
  <2>1. /\ run[d].kind = "protect" /\ run[d].todo = {} /\ run' = [run EXCEPT ![d] = Idle]
        /\ UNCHANGED <<setup, remote>>
    BY <1>6 DEF MarkProtected
  <2>2. CASE PinsOf(local[d]) \subseteq {d}
    BY <1>6, <2>1, <2>2, WholeMark DEF MarkProtected, Marked
  <2>3. CASE ~(PinsOf(local[d]) \subseteq {d})
    <3>1. UNCHANGED <<setup, local, remote>>
      BY <1>6, <2>3 DEF MarkProtected
    <3>2. ~Interleave => Whole(local[d], Idle)
      BY <2>1, WholeEnd DEF Whole, Idle
    <3> QED BY <1>2, <2>1, <3>1, <3>2
  <2> QED BY <2>2, <2>3
<1>7. ASSUME NEW d \in Devices, NEW t \in 1..MaxTime, MarkUnprotected(d, t) PROVE WholeRuns'
  BY <1>7, WholeMark DEF MarkUnprotected, Marked
<1> QED BY <1>1, <1>3, <1>4, <1>5, <1>6, <1>7, WholeEdit, WholeSync DEF Next, Write

LEMMA WholeInit == Init => WholeRuns
<1> SUFFICES ASSUME Init PROVE WholeRuns
  OBVIOUS
<1>1. PICK maker \in Devices : Init!(maker)
  BY DEF Init
<1> DEFINE p == BaseProfile(maker)
<1>2. Sound(p, edits, seq) /\ p = remote
  BY <1>1, ShapeInit DEF Shape, CopiesOK
<1>3. SlotsOf(p) = [k \in Kinds |-> Plain(0)]
  BY EntryAssumption DEF SlotsOf, Entry, BaseProfile, EmptyProfile
<1>4. Plain(0) \in Plains
  BY <1>1, SetupIs
<1> HIDE DEF p
<1>5. \A d \in Devices : SlotsOf(Storable(d, p)) =
        [k \in Kinds |-> IF k \in KindsOf(d) THEN SlotsOf(p)[k] ELSE NoValue]
  BY <1>2, StorableIs DEF Sound
<1>6. \A d \in Devices : local[d] = Storable(d, p) /\ run[d] = Idle
  BY <1>1 DEF p
<1>7. \A k \in Kinds : SlotsOf(p)[k] \notin Seals /\ \A d \in Devices : SlotsOf(local[d])[k] \notin Seals
  BY <1>3, <1>4, <1>5, <1>6, SlotAssumption
<1>8. Unmixed(Entry(remote)) /\ \A d \in Devices : Unmixed(Entry(local[d]))
  BY <1>2, <1>7 DEF Unmixed, SealedNode, SlotsOf
<1>9. \A d \in Devices : run[d].kind = "idle" /\ Whole(local[d], run[d])
  BY <1>6, <1>8 DEF Whole, Idle
<1> QED BY <1>8, <1>9 DEF WholeRuns

LEMMA WholeAlways == Spec => []WholeRuns
  BY WholeInit, ShapeAlways, WholeStep, PTL DEF Spec

\* syncPinRule rule 4: a run that nothing falls into leaves no copy sealed in one slot and readable
\* in another once it ended, and no merge of such copies does, whatever raced and whichever builds
\* took part.
THEOREM EntryNeverMixed == Spec => []NoMixedEntry
<1>1. Shape /\ WholeRuns => NoMixedEntry
  BY RunIs DEF WholeRuns, Whole, NoMixedEntry, Unmixed, SlotsOf
<1> QED BY <1>1, ShapeAlways, WholeAlways, PTL

-----------------------------------------------------------------------------
(* Only a removal unprotects.                                              *)

Filling(n) == \E k \in Kinds : n.slots[k] # NoValue

\* The count says whether a node is sealed, as long as every decision was to protect.
Counted(n) == SealedNode(n) <=> n.epoch # 0

\* A copy that shows no decision has not seen the write of m that made q.
Unseen(n, q, m) == n.epoch = 0 => n.v[m] < q.v[m]

NoRemoval ==
  ~Interleave /\ Legacy = {} /\ (\A q \in decisions : q.on) /\ \A d \in Devices : run[d].kind # "unprotect"

Standing ==
  /\ Filling(Entry(remote)) /\ \A d \in Devices : Filling(Entry(local[d]))
  /\ Counted(Entry(remote)) /\ \A d \in Devices : run[d].kind = "idle" => Counted(Entry(local[d]))
  /\ \A d \in Devices : run[d].kind = "protect" =>
       Entry(local[d]).epoch = 0 /\ PinsOf(local[d]) \subseteq {d}
  /\ \A q \in decisions : \E m \in Devices :
       /\ Entry(local[m]).epoch # 0 /\ Unseen(Entry(remote), q, m)
       /\ \A e \in Devices : Unseen(Entry(local[e]), q, m)

Stands == NoRemoval => Standing

\* The seal stands: where one side of a merge is sealed, so is the result, and a result that shows
\* no decision has the vector of a side that shows none.
LEMMA SealWins ==
  ASSUME NEW a \in Nodes, NEW b \in Nodes, NEW n \in Nodes, NEW aKnows, NEW bKnows,
         KeepsA(a, b) => Filled(n, a, b, aKnows), ~KeepsA(a, b) => Filled(n, b, a, bKnows),
         Filling(a), Filling(b), Counted(a), Counted(b),
         a.epoch = 0 /\ b.epoch # 0 => ~Covers(a.v, b.v),
         b.epoch = 0 /\ a.epoch # 0 => ~Covers(b.v, a.v)
  PROVE  /\ Filling(n) /\ Counted(n)
         /\ n.epoch = 0 <=> a.epoch = 0 /\ b.epoch = 0
         /\ n.epoch = 0 => n.v = a.v \/ n.v = b.v
<1>1. a.epoch \in Nat /\ b.epoch \in Nat /\ a.v \in Vectors /\ b.v \in Vectors
  BY DEF Nodes
<1>2. ASSUME NEW w \in {a, b}, NEW l \in {a, b}, NEW known, Filled(n, w, l, known)
      PROVE  Filling(n) /\ Counted(n) /\ n.epoch = w.epoch
             /\ (SealedNode(a) = SealedNode(b) => n.v = w.v)
  <2>1. SealedNode(n) <=> SealedNode(w)
    BY <1>2, MergeSlotsKeepSeal DEF Filled
  <2>2. n.epoch = w.epoch /\ n.slots = MergeSlots(w, l, RacedSealed(w, l), known)
    BY <1>2 DEF Filled
  <2>3. Filling(n)
    BY <1>2, <2>2 DEF Filling, MergeSlots
  <2>4. SealedNode(a) = SealedNode(b) => ~RuleReaches(w, l)
    BY <1>2 DEF RuleReaches
  <2> QED BY <1>2, <2>1, <2>2, <2>3, <2>4 DEF Counted, Filled
<1>3. CASE SealedNode(a) <=> SealedNode(b)
  <2>1. a.epoch = 0 <=> b.epoch = 0
    BY <1>3 DEF Counted
  <2>2. SealedNode(a) = SealedNode(b)
    BY <1>3 DEF SealedNode
  <2>3. CASE KeepsA(a, b)
    BY <1>2, <2>1, <2>2, <2>3
  <2>4. CASE ~KeepsA(a, b)
    BY <1>2, <2>1, <2>2, <2>4
  <2> QED BY <2>3, <2>4
<1>4. CASE SealedNode(a) /\ ~SealedNode(b)
  <2>1. a.epoch # 0 /\ b.epoch = 0 /\ ~Covers(b.v, a.v) /\ SealedNode(a) # SealedNode(b)
    BY <1>4 DEF Counted
  <2>2. KeepsA(a, b)
    BY <1>1, <1>4, <2>1 DEF KeepsA, RuleReaches, LaterDecisionIsA, PickIsA, Dominates
  <2> QED BY <1>2, <2>1, <2>2
<1>5. CASE ~SealedNode(a) /\ SealedNode(b)
  <2>1. b.epoch # 0 /\ a.epoch = 0 /\ ~Covers(a.v, b.v) /\ SealedNode(a) # SealedNode(b)
    BY <1>5 DEF Counted
  <2>2. ~KeepsA(a, b)
    BY <1>1, <1>5, <2>1 DEF KeepsA, RuleReaches, LaterDecisionIsA, PickIsA, Dominates
  <2> QED BY <1>2, <2>1, <2>2
<1> QED BY <1>3, <1>4, <1>5

\* A node that shows no decision covers none that shows one.
LEMMA UnseenUncovered ==
  ASSUME Shape, Explains, Standing, NoRemoval,
         NEW a \in {Entry(remote)} \cup {Entry(local[d]) : d \in Devices},
         NEW b \in {Entry(remote)} \cup {Entry(local[d]) : d \in Devices},
         a.epoch = 0, b.epoch # 0
  PROVE  ~Covers(a.v, b.v)
<1>1. a \in Nodes /\ b \in Nodes /\ a.v \in Vectors /\ b.v \in Vectors /\ decisions \in SUBSET Decisions
  BY VectorsAre
<1>2. PICK q \in decisions : Covers(b.v, q.v)
  BY DEF Explains, Explained
<1>3. PICK m \in Devices : Unseen(a, q, m)
  BY DEF Standing
<1>4. q.v \in Vectors
  BY <1>1 DEF Decisions
<1>5. a.v[m] \in Nat /\ b.v[m] \in Nat /\ q.v[m] \in Nat
  BY <1>1, <1>4 DEF Vectors
<1> QED BY <1>2, <1>3, <1>5 DEF Covers, Unseen

\* A step of one machine that moves its count nowhere, and its vector only at its own number.
LEMMA StandsOne ==
  ASSUME Shape, Standing, NEW d \in Devices, UNCHANGED <<remote, decisions>>,
         \A e \in Devices : e # d => local'[e] = local[e] /\ run'[e] = run[e],
         Filling(Entry(local'[d])),
         run'[d].kind = "idle" => Counted(Entry(local'[d])),
         run'[d].kind = "protect" => PinsOf(local'[d]) \subseteq {d} /\ Entry(local'[d]).epoch = 0,
         Entry(local'[d]).epoch = Entry(local[d]).epoch,
         \A e \in Devices : e # d => Entry(local'[d]).v[e] = Entry(local[d]).v[e]
  PROVE  Standing'
<1>1. /\ Filling(Entry(remote')) /\ Counted(Entry(remote'))
      /\ \A e \in Devices : Filling(Entry(local'[e]))
      /\ \A e \in Devices : run'[e].kind = "idle" => Counted(Entry(local'[e]))
      /\ \A e \in Devices : run'[e].kind = "protect" =>
           Entry(local'[e]).epoch = 0 /\ PinsOf(local'[e]) \subseteq {e}
  BY DEF Standing
<1>2. ASSUME NEW q \in decisions'
      PROVE  \E m \in Devices :
               /\ Entry(local'[m]).epoch # 0 /\ Unseen(Entry(remote'), q, m)
               /\ \A e \in Devices : Unseen(Entry(local'[e]), q, m)
  <2>1. PICK m \in Devices :
          /\ Entry(local[m]).epoch # 0 /\ Unseen(Entry(remote), q, m)
          /\ \A e \in Devices : Unseen(Entry(local[e]), q, m)
    BY DEF Standing
  <2>2. Entry(local'[m]).epoch # 0 /\ Unseen(Entry(remote'), q, m)
    BY <2>1
  <2>3. ASSUME NEW e \in Devices PROVE Unseen(Entry(local'[e]), q, m)
    <3>1. CASE e # d
      BY <2>1, <3>1
    <3>2. CASE e = d
      BY <2>1, <3>2 DEF Unseen
    <3> QED BY <3>1, <3>2
  <2> QED BY <2>2, <2>3
<1>3. /\ Filling(Entry(remote))' /\ Counted(Entry(remote))'
      /\ \A e \in Devices : Filling(Entry(local[e]))'
      /\ \A e \in Devices : run'[e].kind = "idle" => Counted(Entry(local[e]))'
      /\ \A e \in Devices : run'[e].kind = "protect" =>
           Entry(local'[e]).epoch = 0 /\ PinsOf(local[e])' \subseteq {e}
  BY <1>1 DEF Filling, Counted, SealedNode, Entry, PinsOf, SlotsOf
<1>4. \A q \in decisions' : \E m \in Devices :
        /\ Entry(local'[m]).epoch # 0 /\ Unseen(Entry(remote), q, m)'
        /\ \A e \in Devices : Unseen(Entry(local[e]), q, m)'
  BY <1>2 DEF Unseen, Entry
<1> QED BY <1>3, <1>4 DEF Standing, Entry

LEMMA StandsEdit ==
  ASSUME Shape, WholeRuns, Stands, NEW d \in Devices, NEW k \in Kinds, NEW t \in 1..MaxTime,
         Edit(d, k, t) \/ Clear(d, k, t)
  PROVE  Stands'
<1> SUFFICES ASSUME NoRemoval' PROVE Standing'
  BY DEF Stands
<1>1. /\ UNCHANGED <<setup, remote, run, decisions>> /\ Free(d)
  BY DEF Edit, Clear
<1>2. NoRemoval
  BY <1>1 DEF NoRemoval, Interleave, Legacy
<1>3. Standing /\ run[d].kind = "idle" /\ ~Interleave
  BY <1>1, <1>2, RunIs DEF Stands, Free, NoRemoval
<1> DEFINE a == Entry(local[d])
<1>4. a \in Nodes /\ Filling(a) /\ Counted(a) /\ Unmixed(a) /\ SlotsOf(local[d]) = a.slots
  BY <1>3, VectorsAre DEF Standing, WholeRuns, Whole, SlotsOf
<1>5. PinsOf(local[d]) # {} <=> SealedNode(a)
  BY DEF PinsOf, SealedNode, SlotsOf
<1> HIDE DEF a
<1>6. PICK s \in Values :
        /\ StampedWrite(d, t, [a EXCEPT !.slots[k] = s])
        /\ s = NoValue => \E j \in Kinds \ {k} : a.slots[j] # NoValue
        /\ s \in Seals => SealedNode(a)
        /\ s \in Plains => ~SealedNode(a)
  <2>1. CASE Edit(d, k, t)
    <3>1. edits + 1 \in 0..MaxEdits
      BY <2>1, SetupIs DEF Edit, Shape, BoundsOK
    <3>2. PICK s \in StoredForms(d, edits + 1) :
            StampedWrite(d, t, [Entry(local[d]) EXCEPT !.slots[k] = s])
      BY <2>1 DEF Edit
    <3>3. /\ s \in Plains \cup Seals
          /\ PinsOf(local[d]) = {} => s \in Plains
          /\ PinsOf(local[d]) # {} => s \in Seals
      BY <3>1, <3>2, StoredIs
    <3>4. /\ s \in Values /\ s # NoValue
          /\ s \in Seals => SealedNode(a)
          /\ s \in Plains => ~SealedNode(a)
      BY <1>5, <3>3, SlotAssumption DEF Values
    <3> QED BY <3>2, <3>4 DEF a
  <2>2. CASE Clear(d, k, t)
    <3>1. /\ StampedWrite(d, t, [a EXCEPT !.slots[k] = NoValue])
          /\ \E j \in Kinds \ {k} : a.slots[j] # NoValue
      BY <1>4, <2>2 DEF Clear, a
    <3> QED BY <3>1, SlotAssumption DEF Values
  <2> QED BY <2>1, <2>2
<1> DEFINE n == [a EXCEPT !.slots[k] = s]
<1>7. /\ n \in Nodes /\ n.v = a.v /\ n.epoch = a.epoch /\ n.slots[k] = s
      /\ \A j \in Kinds : j # k => n.slots[j] = a.slots[j]
  BY <1>4, ExceptSlots
<1>8. StampedWrite(d, t, n)
  BY <1>6
<1> HIDE DEF n
<1>9. n.v = Entry(local[d]).v
  BY <1>7 DEF a
<1>10. /\ Entry(local'[d]).v = BumpVector(n.v, d, seq[d] + 1) /\ Entry(local'[d]).epoch = n.epoch
       /\ SlotsOf(local'[d]) = n.slots
       /\ \A e \in Devices : e # d => local'[e] = local[e]
  BY <1>7, <1>8, <1>9, WriteEffect
<1>11. Filling(n)
  BY <1>6, <1>7 DEF Filling
<1>12. SealedNode(n) <=> SealedNode(a)
  <2>1. CASE ~SealedNode(a)
    BY <1>6, <1>7, <2>1 DEF SealedNode
  <2>2. CASE SealedNode(a)
    <3>1. \A j \in Kinds : a.slots[j] \in Seals \cup {NoValue}
      BY <1>4, <2>2 DEF Unmixed, Nodes, Values
    <3>2. s \in Seals \cup {NoValue}
      BY <1>6, <2>2 DEF Values
    <3>3. \E j \in Kinds : n.slots[j] \in Seals
      BY <1>6, <1>7, <3>1, <3>2
    <3> QED BY <2>2, <3>3 DEF SealedNode
  <2> QED BY <2>1, <2>2
<1>13. Filling(Entry(local'[d])) /\ Counted(Entry(local'[d]))
  BY <1>4, <1>7, <1>10, <1>11, <1>12 DEF Filling, Counted, SealedNode, SlotsOf
<1>14. \A e \in Devices : e # d => Entry(local'[d]).v[e] = Entry(local[d]).v[e]
  <2> DEFINE w == n.v
             z == seq[d] + 1
  <2>1. w \in Vectors /\ z \in Nat
    BY <1>7 DEF Nodes, Shape, BoundsOK
  <2> HIDE DEF w, z
  <2>2. \A e \in Devices : e # d => BumpVector(w, d, z)[e] = w[e]
    BY <2>1, BumpIs
  <2> QED BY <1>9, <1>10, <2>2 DEF w, z
<1>15. Entry(local'[d]).epoch = Entry(local[d]).epoch
  BY <1>7, <1>10 DEF a
<1>16. run'[d].kind = "idle" /\ \A e \in Devices : e # d => local'[e] = local[e] /\ run'[e] = run[e]
  BY <1>1, <1>3, <1>10
<1> QED BY <1>1, <1>3, <1>13, <1>14, <1>15, <1>16, StandsOne

LEMMA StandsSync == ASSUME Shape, Explains, Stands, NEW d \in Devices, Sync(d) PROVE Stands'
<1> SUFFICES ASSUME NoRemoval' PROVE Standing'
  BY DEF Stands
<1> DEFINE a == Entry(local[d])
           b == Entry(remote)
           new == Entry(remote')
<1>1. /\ local'[d] = remote' /\ \A e \in Devices : e # d => local'[e] = local[e]
      /\ UNCHANGED <<setup, run, decisions>> /\ (Interleave \/ Quiet)
  BY SyncEffect DEF Sync
<1>2. NoRemoval
  BY <1>1 DEF NoRemoval, Interleave, Legacy
<1>3. Standing /\ run[d].kind = "idle" /\ KindsOf(d) = Kinds
  BY <1>1, <1>2, RunIs DEF Stands, Quiet, NoRemoval, KindsOf
<1>4. a \in Nodes /\ b \in Nodes /\ Filling(a) /\ Counted(a) /\ Filling(b) /\ Counted(b)
  BY <1>3, VectorsAre DEF Standing
<1>5. /\ a.epoch = 0 /\ b.epoch # 0 => ~Covers(a.v, b.v)
      /\ b.epoch = 0 /\ a.epoch # 0 => ~Covers(b.v, a.v)
  BY <1>2, <1>3, UnseenUncovered
<1>6. PICK n \in Nodes : /\ KeepsA(a, b) => Filled(n, a, b, local[d].known)
                         /\ ~KeepsA(a, b) => Filled(n, b, a, remote.known)
                         /\ new.v = n.v /\ new.epoch = n.epoch
                         /\ SlotsOf(remote') = [k \in Kinds |-> IF k \in KindsOf(d) THEN n.slots[k] ELSE NoValue]
  BY SyncEffect
<1>7. /\ Filling(n) /\ Counted(n)
      /\ n.epoch = 0 <=> a.epoch = 0 /\ b.epoch = 0
      /\ n.epoch = 0 => n.v = a.v \/ n.v = b.v
  <2> HIDE DEF a, b, new
  <2> QED BY <1>4, <1>5, <1>6, SealWins
<1>8. Filling(new) /\ Counted(new)
  <2>1. \A k \in Kinds : new.slots[k] = n.slots[k]
    BY <1>3, <1>6 DEF SlotsOf
  <2> HIDE DEF new
  <2> QED BY <1>6, <1>7, <2>1 DEF Filling, Counted, SealedNode
<1>9. ASSUME NEW q \in decisions'
      PROVE  \E m \in Devices :
               /\ Entry(local'[m]).epoch # 0 /\ Unseen(Entry(remote'), q, m)
               /\ \A e \in Devices : Unseen(Entry(local'[e]), q, m)
  <2>1. PICK m \in Devices :
          /\ Entry(local[m]).epoch # 0 /\ Unseen(b, q, m)
          /\ \A e \in Devices : Unseen(Entry(local[e]), q, m)
    BY <1>1, <1>3 DEF Standing
  <2>2. Unseen(new, q, m)
    <3>1. Unseen(a, q, m)
      BY <2>1
    <3> HIDE DEF a, b, new
    <3> QED BY <1>6, <1>7, <2>1, <3>1 DEF Unseen
  <2>3. Entry(local'[m]).epoch # 0
    <3>1. CASE m # d
      BY <1>1, <2>1, <3>1
    <3>2. CASE m = d
      BY <1>1, <1>6, <1>7, <2>1, <3>2
    <3> QED BY <3>1, <3>2
  <2>4. ASSUME NEW e \in Devices PROVE Unseen(Entry(local'[e]), q, m)
    <3>1. CASE e # d
      BY <1>1, <2>1, <3>1
    <3>2. CASE e = d
      BY <1>1, <2>2, <3>2
    <3> QED BY <3>1, <3>2
  <2> QED BY <2>2, <2>3, <2>4
<1>10. /\ \A e \in Devices : Filling(Entry(local'[e]))
       /\ \A e \in Devices : run'[e].kind = "idle" => Counted(Entry(local'[e]))
       /\ \A e \in Devices : run'[e].kind = "protect" =>
            Entry(local'[e]).epoch = 0 /\ PinsOf(local'[e]) \subseteq {e}
  <2>1. ASSUME NEW e \in Devices, e # d
        PROVE  /\ Filling(Entry(local'[e])) /\ (run'[e].kind = "idle" => Counted(Entry(local'[e])))
               /\ run'[e].kind = "protect" => Entry(local'[e]).epoch = 0 /\ PinsOf(local'[e]) \subseteq {e}
    BY <1>1, <1>3, <2>1 DEF Standing
  <2>2. Filling(Entry(local'[d])) /\ Counted(Entry(local'[d])) /\ run'[d].kind = "idle"
    BY <1>1, <1>3, <1>8
  <2> QED BY <2>1, <2>2
<1>11. /\ Filling(Entry(remote))' /\ Counted(Entry(remote))'
       /\ \A e \in Devices : Filling(Entry(local[e]))'
       /\ \A e \in Devices : run'[e].kind = "idle" => Counted(Entry(local[e]))'
       /\ \A e \in Devices : run'[e].kind = "protect" =>
            Entry(local'[e]).epoch = 0 /\ PinsOf(local[e])' \subseteq {e}
  BY <1>8, <1>10 DEF Filling, Counted, SealedNode, Entry, PinsOf, SlotsOf
<1>12. \A q \in decisions' : \E m \in Devices :
         /\ Entry(local'[m]).epoch # 0 /\ Unseen(Entry(remote), q, m)'
         /\ \A e \in Devices : Unseen(Entry(local[e]), q, m)'
  BY <1>9 DEF Unseen, Entry
<1> HIDE DEF a, b, new
<1> QED BY <1>11, <1>12 DEF Standing, Entry

LEMMA StandsMark ==
  ASSUME Shape, WholeRuns, Stands, NEW d \in Devices, NEW t \in 1..MaxTime, MarkProtected(d, t)
  PROVE  Stands'
<1> SUFFICES ASSUME NoRemoval' PROVE Standing'
  BY DEF Stands
<1> DEFINE a == Entry(local[d])
           n == Marked(a, TRUE)
           bumped == BumpVector(a.v, d, seq[d] + 1)
           made == [on |-> TRUE, epoch |-> a.epoch + 1, v |-> bumped]
           new == Entry(local'[d])
<1>1. /\ run[d].kind = "protect" /\ run[d].todo = {} /\ run' = [run EXCEPT ![d] = Idle]
      /\ UNCHANGED <<setup, remote>>
  BY DEF MarkProtected
<1>2. decisions \subseteq decisions' /\ run'[d] = Idle /\ \A e \in Devices : e # d => run'[e] = run[e]
  BY <1>1 DEF MarkProtected, Shape, RunsOK
<1>3. NoRemoval
  <2>1. ~Interleave /\ Legacy = {} /\ \A q \in decisions : q.on
    BY <1>1, <1>2 DEF NoRemoval, Interleave, Legacy
  <2>2. \A e \in Devices : e # d => run[e].kind # "unprotect"
    BY <1>2 DEF NoRemoval
  <2> QED BY <1>1, <2>1, <2>2 DEF NoRemoval
<1>4. Standing /\ a.epoch = 0 /\ PinsOf(local[d]) \subseteq {d} /\ Filling(a)
  BY <1>1, <1>3 DEF Stands, Standing
<1>5. SealedNode(a)
  <2>1. \A k \in Kinds : a.slots[k] \notin Plains
    BY <1>1, <1>3 DEF WholeRuns, Whole, NoRemoval, SlotsOf
  <2>2. a \in Nodes
    BY VectorsAre
  <2> HIDE DEF a
  <2> QED BY <1>4, <2>1, <2>2 DEF Filling, SealedNode, Nodes, Values
<1>6. StampedWrite(d, t, n) /\ decisions' = decisions \cup {made}
  BY <1>4 DEF MarkProtected, Marked
<1>7. /\ n \in Nodes /\ n.v = a.v /\ n.slots = a.slots /\ n.epoch = a.epoch + 1
      /\ a \in Nodes /\ a.v \in Vectors
  BY VectorsAre, MarkedIs
<1>8. /\ new.v = BumpVector(n.v, d, seq[d] + 1) /\ new.epoch = n.epoch
      /\ SlotsOf(local'[d]) = n.slots /\ new.v[d] = seq[d] + 1
      /\ \A e \in Devices : e # d => local'[e] = local[e]
  <2> HIDE DEF n
  <2> QED BY <1>6, <1>7, WriteEffect
<1>9. new.epoch # 0 /\ Filling(new) /\ Counted(new)
  <2>1. new.epoch # 0 /\ \A k \in Kinds : new.slots[k] = a.slots[k]
    <3>1. new.slots = n.slots
      BY <1>8 DEF SlotsOf
    <3> HIDE DEF new, a, n
    <3> QED BY <1>4, <1>7, <1>8, <3>1
  <2> HIDE DEF new, a
  <2> QED BY <1>4, <1>5, <2>1 DEF Filling, Counted, SealedNode
<1>10. made.v[d] = seq[d] + 1
  <2>1. made.v = bumped /\ bumped = new.v
    BY <1>7, <1>8
  <2> HIDE DEF made, bumped, new
  <2> QED BY <1>8, <2>1
<1>11. /\ Entry(remote).v[d] < seq[d] + 1
       /\ \A e \in Devices : Entry(local[e]).v[d] < seq[d] + 1
  <2>1. seq[d] \in Nat /\ Entry(remote).v[d] \in Nat /\ \A e \in Devices : Entry(local[e]).v[d] \in Nat
    BY VectorsAre DEF Shape, BoundsOK, Vectors
  <2>2. Entry(remote).v[d] <= seq[d] /\ \A e \in Devices : Entry(local[e]).v[d] <= seq[d]
    BY DEF Shape, CopiesOK, Sound
  <2> QED BY <2>1, <2>2
<1>12. ASSUME NEW q \in decisions'
       PROVE  \E m \in Devices :
                /\ Entry(local'[m]).epoch # 0 /\ Unseen(Entry(remote'), q, m)
                /\ \A e \in Devices : Unseen(Entry(local'[e]), q, m)
  <2>1. CASE q \in decisions
    <3>1. PICK m \in Devices :
            /\ Entry(local[m]).epoch # 0 /\ Unseen(Entry(remote), q, m)
            /\ \A e \in Devices : Unseen(Entry(local[e]), q, m)
      BY <1>4, <2>1 DEF Standing
    <3>2. Entry(local'[m]).epoch # 0 /\ Unseen(Entry(remote'), q, m)
      BY <1>1, <1>4, <1>8, <3>1
    <3>3. ASSUME NEW e \in Devices PROVE Unseen(Entry(local'[e]), q, m)
      <4>1. CASE e # d
        BY <1>8, <3>1, <4>1
      <4>2. CASE e = d
        BY <1>9, <4>2 DEF Unseen
      <4> QED BY <4>1, <4>2
    <3> QED BY <3>2, <3>3
  <2>2. CASE q = made
    <3> HIDE DEF made, new
    <3>1. q.v[d] = seq[d] + 1
      BY <1>10, <2>2
    <3>2. Unseen(Entry(remote'), q, d)
      BY <1>1, <1>11, <3>1 DEF Unseen
    <3>3. ASSUME NEW e \in Devices PROVE Unseen(Entry(local'[e]), q, d)
      <4>1. CASE e # d
        BY <1>8, <1>11, <3>1, <4>1 DEF Unseen
      <4>2. CASE e = d
        BY <1>9, <4>2 DEF Unseen, new
      <4> QED BY <4>1, <4>2
    <3>4. Entry(local'[d]).epoch # 0
      BY <1>9 DEF new
    <3> QED BY <3>2, <3>3, <3>4
  <2> HIDE DEF made
  <2> QED BY <1>6, <2>1, <2>2
<1>13. /\ \A e \in Devices : Filling(Entry(local'[e]))
       /\ \A e \in Devices : run'[e].kind = "idle" => Counted(Entry(local'[e]))
       /\ \A e \in Devices : run'[e].kind = "protect" =>
            Entry(local'[e]).epoch = 0 /\ PinsOf(local'[e]) \subseteq {e}
       /\ Filling(Entry(remote')) /\ Counted(Entry(remote'))
  <2>1. ASSUME NEW e \in Devices, e # d
        PROVE  /\ Filling(Entry(local'[e])) /\ (run'[e].kind = "idle" => Counted(Entry(local'[e])))
               /\ run'[e].kind = "protect" => Entry(local'[e]).epoch = 0 /\ PinsOf(local'[e]) \subseteq {e}
    BY <1>2, <1>4, <1>8, <2>1 DEF Standing
  <2>2. Filling(Entry(local'[d])) /\ Counted(Entry(local'[d])) /\ run'[d].kind = "idle"
    BY <1>2, <1>9 DEF Idle
  <2>3. Filling(Entry(remote')) /\ Counted(Entry(remote'))
    BY <1>1, <1>4 DEF Standing
  <2> QED BY <2>1, <2>2, <2>3
<1>14. /\ Filling(Entry(remote))' /\ Counted(Entry(remote))'
       /\ \A e \in Devices : Filling(Entry(local[e]))'
       /\ \A e \in Devices : run'[e].kind = "idle" => Counted(Entry(local[e]))'
       /\ \A e \in Devices : run'[e].kind = "protect" =>
            Entry(local'[e]).epoch = 0 /\ PinsOf(local[e])' \subseteq {e}
  BY <1>13 DEF Filling, Counted, SealedNode, Entry, PinsOf, SlotsOf
<1>15. \A q \in decisions' : \E m \in Devices :
         /\ Entry(local'[m]).epoch # 0 /\ Unseen(Entry(remote), q, m)'
         /\ \A e \in Devices : Unseen(Entry(local[e]), q, m)'
  BY <1>12 DEF Unseen, Entry
<1> HIDE DEF a, n, bumped, made, new
<1> QED BY <1>14, <1>15 DEF Standing, Entry

LEMMA StandsSeal ==
  ASSUME Shape, Stands, NEW d \in Devices, NEW k \in Kinds, SealSlot(d, k)
  PROVE  Stands'
<1> SUFFICES ASSUME NoRemoval' PROVE Standing'
  BY DEF Stands
<1>1. /\ run[d].kind = "protect" /\ UNCHANGED <<setup, remote, decisions>>
  BY DEF SealSlot
<1> DEFINE old == SlotsOf(local[d])[k]
           s == IF old \in Plains THEN Sealed(ValueOf(old), d) ELSE old
<1>2. /\ Entry(local'[d]).v = Entry(local[d]).v /\ Entry(local'[d]).epoch = Entry(local[d]).epoch
      /\ run'[d].kind = run[d].kind
      /\ \A e \in Devices : e # d => local'[e] = local[e] /\ run'[e] = run[e]
      /\ \A j \in Kinds : j # k => SlotsOf(local'[d])[j] = SlotsOf(local[d])[j]
      /\ SlotsOf(local'[d])[k] = s
  BY SlotEffect
<1>3. NoRemoval
  <2>1. \A e \in Devices : run'[e].kind = run[e].kind
    BY <1>2
  <2> QED BY <1>1, <2>1 DEF NoRemoval, Interleave, Legacy
<1>4. /\ Standing /\ Filling(Entry(local[d])) /\ PinsOf(local[d]) \subseteq {d}
      /\ Entry(local[d]).epoch = 0
  BY <1>1, <1>3 DEF Stands, Standing
<1>5. /\ old # NoValue => s # NoValue
      /\ s \in Seals => PinOf(s) = d
  <2>1. CASE old \in Plains
    <3>1. edits \in 0..MaxEdits /\ MaxEdits \in Nat
      BY SetupIs DEF Shape, BoundsOK
    <3>2. ValueOf(old) \in 0..MaxEdits
      BY <2>1, <3>1, SlotAssumption DEF Shape, CopiesOK, Sound, Typed
    <3>3. s = Sealed(ValueOf(old), d) /\ s \in Seals
      BY <2>1, <3>2, SetupIs DEF Shape, BoundsOK
    <3>4. PinOf(Sealed(ValueOf(old), d)) = d
      BY FormsAre
    <3> HIDE DEF s, old
    <3> QED BY <3>3, <3>4, SlotAssumption
  <2>2. CASE old \notin Plains
    <3>1. old \in Seals => PinOf(old) \in PinsOf(local[d])
      BY DEF PinsOf
    <3> QED BY <1>4, <2>2, <3>1
  <2> QED BY <2>1, <2>2
<1> HIDE DEF s
<1>6. Filling(Entry(local'[d]))
  <2>1. PICK j \in Kinds : SlotsOf(local[d])[j] # NoValue
    BY <1>4 DEF Filling, SlotsOf
  <2>2. SlotsOf(local'[d])[j] # NoValue
    BY <1>2, <1>5, <2>1
  <2> QED BY <2>2 DEF Filling, SlotsOf
<1>7. PinsOf(local'[d]) \subseteq {d}
  <2> SUFFICES ASSUME NEW j \in Kinds, SlotsOf(local'[d])[j] \in Seals
               PROVE  PinOf(SlotsOf(local'[d])[j]) = d
    BY DEF PinsOf
  <2>1. CASE j = k
    BY <1>2, <1>5, <2>1
  <2>2. CASE j # k
    <3>1. SlotsOf(local'[d])[j] = SlotsOf(local[d])[j]
      BY <1>2, <2>2
    <3>2. PinOf(SlotsOf(local[d])[j]) \in PinsOf(local[d])
      BY <3>1 DEF PinsOf
    <3> QED BY <1>4, <3>1, <3>2
  <2> QED BY <2>1, <2>2
<1>8. run'[d].kind # "idle" /\ Entry(local'[d]).epoch = 0
  BY <1>1, <1>2, <1>4
<1>9. \A e \in Devices : e # d => Entry(local'[d]).v[e] = Entry(local[d]).v[e]
  BY <1>2
<1> QED BY <1>1, <1>2, <1>4, <1>6, <1>7, <1>8, <1>9, StandsOne

LEMMA StandsStart == ASSUME Shape, Stands, NEW d \in Devices, StartProtect(d) PROVE Stands'
<1> SUFFICES ASSUME NoRemoval' PROVE Standing'
  BY DEF Stands
<1> DEFINE r == [kind |-> "protect", todo |-> KindsOf(d), open |-> Idle.open]
<1>1. /\ run' = [run EXCEPT ![d] = r] /\ Free(d) /\ PinsOf(local[d]) = {}
      /\ UNCHANGED <<setup, local, remote, decisions>>
  BY DEF StartProtect
<1>2. r.kind = "protect"
  OBVIOUS
<1> HIDE DEF r
<1>3. run'[d].kind = "protect" /\ run[d].kind = "idle" /\ \A e \in Devices : e # d => run'[e] = run[e]
  BY <1>1, <1>2, RunIs DEF Shape, RunsOK, Free
<1>4. NoRemoval
  <2>1. \A e \in Devices : run[e].kind # "unprotect"
    BY <1>3 DEF NoRemoval
  <2> QED BY <1>1, <2>1 DEF NoRemoval, Interleave, Legacy
<1>5. Standing /\ Filling(Entry(local[d])) /\ Counted(Entry(local[d]))
  BY <1>3, <1>4 DEF Stands, Standing
<1>6. Entry(local[d]).epoch = 0
  <2>1. ~SealedNode(Entry(local[d]))
    BY <1>1 DEF SealedNode, PinsOf, SlotsOf
  <2> QED BY <1>5, <2>1 DEF Counted
<1>7. /\ PinsOf(local'[d]) \subseteq {d} /\ Entry(local'[d]).epoch = 0 /\ Filling(Entry(local'[d]))
      /\ run'[d].kind # "idle"
      /\ \A e \in Devices : e # d => local'[e] = local[e] /\ run'[e] = run[e]
      /\ \A e \in Devices : e # d => Entry(local'[d]).v[e] = Entry(local[d]).v[e]
      /\ Entry(local'[d]).epoch = Entry(local[d]).epoch
  BY <1>1, <1>3, <1>5, <1>6
<1> QED BY <1>1, <1>5, <1>7, StandsOne

LEMMA StandsStep == Shape /\ WholeRuns /\ Explains /\ Stands /\ [Next]_vars => Stands'
<1> SUFFICES ASSUME Shape, WholeRuns, Explains, Stands, [Next]_vars PROVE Stands'
  OBVIOUS
<1>1. CASE UNCHANGED vars
  BY <1>1 DEF vars, Stands, NoRemoval, Interleave, Legacy, Standing, Filling, Counted, SealedNode,
              Unseen, Entry, SlotsOf, PinsOf
<1>2. ASSUME NEW d \in Devices, StartUnprotect(d) PROVE Stands'
  <2>1. run'[d].kind = "unprotect"
    BY <1>2 DEF StartUnprotect, Shape, RunsOK
  <2> QED BY <2>1 DEF Stands, NoRemoval
<1>3. ASSUME NEW d \in Devices, NEW k \in Kinds, StoreOpened(d, k) PROVE Stands'
  <2>1. run'[d].kind = "unprotect"
    BY <1>3, SlotEffect DEF StoreOpened
  <2> QED BY <2>1 DEF Stands, NoRemoval
<1>4. ASSUME NEW d \in Devices, NEW t \in 1..MaxTime, MarkUnprotected(d, t) PROVE Stands'
  <2> DEFINE q == [on |-> FALSE, epoch |-> Entry(local[d]).epoch + 1,
                   v |-> BumpVector(Entry(local[d]).v, d, seq[d] + 1)]
  <2>1. q \in decisions' /\ ~q.on
    BY <1>4 DEF MarkUnprotected
  <2> HIDE DEF q
  <2> QED BY <2>1 DEF Stands, NoRemoval
<1> QED BY <1>1, <1>2, <1>3, <1>4, StandsEdit, StandsSync, StandsMark, StandsSeal, StandsStart DEF Next, Write

LEMMA StandsInit == Init => Stands
<1> SUFFICES ASSUME Init, NoRemoval PROVE Standing
  BY DEF Stands
<1>1. PICK maker \in Devices : Init!(maker)
  BY DEF Init
<1> DEFINE p == BaseProfile(maker)
<1>2. Sound(p, edits, seq) /\ p = remote
  BY <1>1, ShapeInit DEF Shape, CopiesOK
<1>3. SlotsOf(p) = [k \in Kinds |-> Plain(0)] /\ Entry(p).epoch = 0
  BY EntryAssumption DEF SlotsOf, Entry, BaseProfile, EmptyProfile
<1>4. Plain(0) \in Plains
  BY <1>1, SetupIs
<1> HIDE DEF p
<1>5. ASSUME NEW d \in Devices
      PROVE  /\ SlotsOf(local[d]) = [k \in Kinds |-> IF k \in KindsOf(d) THEN SlotsOf(p)[k] ELSE NoValue]
             /\ Entry(local[d]).epoch = 0 /\ run[d].kind = "idle" /\ KindsOf(d) = Kinds
  <2>1. local[d] = Storable(d, p) /\ run[d] = Idle
    BY <1>1 DEF p
  <2> QED BY <1>2, <1>3, <2>1, StorableIs DEF Sound, Idle, NoRemoval, KindsOf
<1>6. \A k \in Kinds : SlotsOf(p)[k] \in Plains /\ \A d \in Devices : SlotsOf(local[d])[k] \in Plains
  BY <1>3, <1>4, <1>5
<1>7. /\ Filling(Entry(remote)) /\ Counted(Entry(remote))
      /\ \A d \in Devices : Filling(Entry(local[d])) /\ Counted(Entry(local[d]))
  <2>1. ASSUME NEW n, n.epoch = 0, \A k \in Kinds : n.slots[k] \in Plains PROVE Filling(n) /\ Counted(n)
    BY <2>1, EntryAssumption, SlotAssumption DEF Filling, Counted, SealedNode
  <2>2. \A k \in Kinds : Entry(remote).slots[k] \in Plains
    BY <1>2, <1>6 DEF SlotsOf
  <2>3. \A d \in Devices : \A k \in Kinds : Entry(local[d]).slots[k] \in Plains
    BY <1>6 DEF SlotsOf
  <2> QED BY <1>2, <1>3, <1>5, <2>1, <2>2, <2>3
<1>8. decisions = {}
  BY <1>1
<1> QED BY <1>5, <1>7, <1>8 DEF Standing

LEMMA StandsAlways == Spec => []Stands
  BY ExplainsInit, StandsInit, ShapeAlways, WholeAlways, ExplainsStep, StandsStep, PTL DEF Spec

\* syncPinRule: no race undoes a Protect. Whatever the wall clocks said and whoever edited in the
\* meantime, once every machine has synced an entry that was ever protected is sealed, unless
\* somebody removed a PIN from it.
THEOREM SealStands == Spec => []OnlyRemovalUnprotects
<1>1. Shape /\ Stands => OnlyRemovalUnprotects
  <2> SUFFICES ASSUME Shape, Stands, Ordinary, Quiet, Synced, NEW p \in decisions,
                      \A q \in decisions : q.on
               PROVE  SealedNode(Entry(remote))
    BY DEF OnlyRemovalUnprotects
  <2>1. Standing
    BY RunIs DEF Stands, NoRemoval, Ordinary, Quiet
  <2>2. PICK m \in Devices : Entry(local[m]).epoch # 0
    BY <2>1 DEF Standing
  <2>3. Entry(local[m]) = Entry(remote)
    BY DEF Synced, SameProfile, Entry
  <2> QED BY <2>1, <2>2, <2>3 DEF Standing, Counted
<1> QED BY <1>1, ShapeAlways, StandsAlways, PTL

-----------------------------------------------------------------------------
(* Builds that know only some kinds.                                       *)

\* A step that is not a cycle: no copy forgets a write, and an emptied slot is a stamped write.
LEMMA LocalStep ==
  ASSUME Shape, [Next]_vars, \A d \in Devices : ~Sync(d)
  PROVE  /\ UNCHANGED <<setup, remote>>
         /\ \A e \in Devices :
              /\ Covers(Entry(local'[e]).v, Entry(local[e]).v)
              /\ \/ seq'[e] # seq[e]
                 \/ \A k \in Kinds : SlotsOf(local[e])[k] # NoValue => SlotsOf(local'[e])[k] # NoValue
<1> DEFINE Kept(e) == /\ Covers(Entry(local'[e]).v, Entry(local[e]).v)
                      /\ \/ seq'[e] # seq[e]
                         \/ \A k \in Kinds : SlotsOf(local[e])[k] # NoValue => SlotsOf(local'[e])[k] # NoValue
           Goal == UNCHANGED <<setup, remote>> /\ \A e \in Devices : Kept(e)
<1> SUFFICES Goal
  OBVIOUS
<1>1. ASSUME NEW e \in Devices, local'[e] = local[e] PROVE Kept(e)
  <2>1. Covers(Entry(local[e]).v, Entry(local[e]).v)
    BY VectorsAre, CoversIsOrder
  <2> QED BY <1>1, <2>1
<1>2. ASSUME NEW d \in Devices, NEW t \in 1..MaxTime, NEW n \in Nodes, StampedWrite(d, t, n),
             n.v = Entry(local[d]).v, UNCHANGED <<setup, remote>>
      PROVE  Goal
  <2>1. Covers(Entry(local'[d]).v, Entry(local[d]).v) /\ \A e \in Devices : e # d => local'[e] = local[e]
    BY <1>2, WriteEffect
  <2>2. seq'[d] # seq[d]
    <3>1. seq' = [seq EXCEPT ![d] = seq[d] + 1] /\ seq \in [Devices -> Nat]
      BY <1>2 DEF StampedWrite, Shape, BoundsOK
    <3> QED BY <3>1
  <2> QED BY <1>1, <1>2, <2>1, <2>2
<1>3. ASSUME UNCHANGED <<setup, local, remote>> PROVE Goal
  BY <1>1, <1>3
<1>4. CASE UNCHANGED vars
  BY <1>3, <1>4 DEF vars
<1>5. ASSUME NEW d \in Devices, NEW t \in 1..MaxTime, NEW k \in Kinds, Edit(d, k, t) \/ Clear(d, k, t)
      PROVE  Goal
  <2>1. PICK s \in Values : StampedWrite(d, t, [Entry(local[d]) EXCEPT !.slots[k] = s])
    <3>1. CASE Edit(d, k, t)
      <4>1. edits + 1 \in 0..MaxEdits
        BY <3>1, SetupIs DEF Edit, Shape, BoundsOK
      <4> QED BY <3>1, <4>1, StoredIs DEF Edit, Values
    <3>2. CASE Clear(d, k, t)
      BY <3>2 DEF Clear, Values
    <3> QED BY <1>5, <3>1, <3>2
  <2> DEFINE n == [Entry(local[d]) EXCEPT !.slots[k] = s]
  <2>2. n \in Nodes /\ n.v = Entry(local[d]).v
    BY VectorsAre, ExceptSlots
  <2>3. StampedWrite(d, t, n) /\ UNCHANGED <<setup, remote>>
    BY <1>5, <2>1 DEF Edit, Clear
  <2> HIDE DEF n, Goal
  <2> QED BY <1>2, <2>2, <2>3
<1>6. ASSUME NEW d \in Devices, NEW t \in 1..MaxTime, NEW on \in BOOLEAN,
             StampedWrite(d, t, Marked(Entry(local[d]), on)), UNCHANGED <<setup, remote>>
      PROVE  Goal
  <2> HIDE DEF Goal
  <2> QED BY <1>2, <1>6, VectorsAre, MarkedIs
<1>7. ASSUME NEW d \in Devices, NEW t \in 1..MaxTime, MarkProtected(d, t) \/ MarkUnprotected(d, t)
      PROVE  Goal
  <2>1. \/ StampedWrite(d, t, Marked(Entry(local[d]), TRUE))
        \/ StampedWrite(d, t, Marked(Entry(local[d]), FALSE))
        \/ UNCHANGED local
    BY <1>7 DEF MarkProtected, MarkUnprotected, Marked
  <2>2. UNCHANGED <<setup, remote>>
    BY <1>7 DEF MarkProtected, MarkUnprotected
  <2> HIDE DEF Goal
  <2> QED BY <1>3, <1>6, <2>1, <2>2
<1>8. ASSUME NEW d \in Devices, NEW k \in Kinds, SealSlot(d, k) \/ StoreOpened(d, k) PROVE Goal
  <2>1. /\ Entry(local'[d]).v = Entry(local[d]).v
        /\ k \in run[d].todo
        /\ \A e \in Devices : e # d => local'[e] = local[e]
        /\ \A j \in Kinds : j # k => SlotsOf(local'[d])[j] = SlotsOf(local[d])[j]
        /\ SealSlot(d, k) => SlotsOf(local'[d])[k] =
             IF SlotsOf(local[d])[k] \in Plains THEN Sealed(ValueOf(SlotsOf(local[d])[k]), d)
             ELSE SlotsOf(local[d])[k]
        /\ StoreOpened(d, k) => SlotsOf(local'[d])[k] = run[d].open[k]
    BY <1>8, SlotEffect
  <2>2. Covers(Entry(local'[d]).v, Entry(local[d]).v)
    <3>1. Covers(Entry(local[d]).v, Entry(local[d]).v)
      BY VectorsAre, CoversIsOrder
    <3> QED BY <2>1, <3>1
  <2>3. SlotsOf(local[d])[k] # NoValue => SlotsOf(local'[d])[k] # NoValue
    <3>1. CASE SealSlot(d, k)
      <4>1. CASE SlotsOf(local[d])[k] \in Plains
        <5>1. edits \in 0..MaxEdits /\ MaxEdits \in Nat /\ SlotsOf(local[d])[k] # NoValue
          BY <4>1, SetupIs, SlotAssumption DEF Shape, BoundsOK
        <5>2. ValueOf(SlotsOf(local[d])[k]) \in 0..MaxEdits
          BY <5>1 DEF Shape, CopiesOK, Sound, Typed
        <5>3. Sealed(ValueOf(SlotsOf(local[d])[k]), d) \in Seals
          BY <5>2, SetupIs DEF Shape, BoundsOK
        <5> QED BY <2>1, <3>1, <4>1, <5>3, SlotAssumption
      <4>2. CASE SlotsOf(local[d])[k] \notin Plains
        BY <2>1, <3>1, <4>2
      <4> QED BY <4>1, <4>2
    <3>2. CASE StoreOpened(d, k)
      <4>1. run[d].kind = "unprotect"
        BY <3>2 DEF StoreOpened
      <4>2. run[d].open[k] \in Plains
        BY <2>1, <4>1 DEF Shape, RunsOK, RunFits
      <4> QED BY <2>1, <3>2, <4>2, SlotAssumption
    <3> QED BY <1>8, <3>1, <3>2
  <2>4. Kept(d)
    BY <2>1, <2>2, <2>3
  <2>5. UNCHANGED <<setup, remote>>
    BY <1>8 DEF SealSlot, StoreOpened
  <2>6. \A e \in Devices : e # d => Kept(e)
    BY <1>1, <2>1
  <2> HIDE DEF Kept
  <2> QED BY <2>4, <2>5, <2>6
<1>9. CASE Next
  <2>1. PICK d \in Devices :
          \/ \E t \in 1..MaxTime : \/ \E k \in Kinds : Edit(d, k, t) \/ Clear(d, k, t)
                                   \/ MarkProtected(d, t) \/ MarkUnprotected(d, t)
          \/ StartProtect(d) \/ StartUnprotect(d)
          \/ \E k \in Kinds : SealSlot(d, k) \/ StoreOpened(d, k)
    BY <1>9 DEF Next, Write
  <2>2. StartProtect(d) \/ StartUnprotect(d) => UNCHANGED <<setup, local, remote>>
    BY DEF StartProtect, StartUnprotect
  <2> HIDE DEF Goal
  <2>3. CASE \E t \in 1..MaxTime : \/ \E k \in Kinds : Edit(d, k, t) \/ Clear(d, k, t)
                                 \/ MarkProtected(d, t) \/ MarkUnprotected(d, t)
    BY <1>5, <1>7, <2>3
  <2>4. CASE StartProtect(d) \/ StartUnprotect(d)
    BY <1>3, <2>2, <2>4
  <2>5. CASE \E k \in Kinds : SealSlot(d, k) \/ StoreOpened(d, k)
    BY <1>8, <2>5
  <2> QED BY <2>1, <2>3, <2>4, <2>5
<1> QED BY <1>4, <1>9

\* Where all the other machines run an old build, a remote copy with a kind that those cannot hold
\* was written by the new one, and is no news to it.
OwnNews ==
  \A d \in Devices :
    Devices \ {d} = Legacy /\ ~(remote.known \subseteq LegacyKinds)
      => Covers(Entry(local[d]).v, Entry(remote).v)

LEMMA OwnNewsStep == Shape /\ OwnNews /\ [Next]_vars => OwnNews'
<1> SUFFICES ASSUME Shape, OwnNews, [Next]_vars, NEW d \in Devices,
                    Devices \ {d} = Legacy', ~(remote'.known \subseteq LegacyKinds)
             PROVE  Covers(Entry(local'[d]).v, Entry(remote').v)
  BY DEF OwnNews, Entry
<1>0. Shape'
  BY ShapeStep
<1>1. CASE \A e \in Devices : ~Sync(e)
  <2>1. UNCHANGED <<setup, remote>> /\ Covers(Entry(local'[d]).v, Entry(local[d]).v)
    BY <1>1, LocalStep
  <2>2. Covers(Entry(local[d]).v, Entry(remote).v)
    BY <2>1 DEF OwnNews, Legacy
  <2>3. Entry(local'[d]).v \in Vectors /\ Entry(local[d]).v \in Vectors /\ Entry(remote).v \in Vectors
    BY <1>0, VectorsAre DEF Shape, CopiesOK, Sound, Nodes, Entry
  <2>4. Covers(Entry(local'[d]).v, Entry(remote).v)
    BY <2>1, <2>2, <2>3, CoversIsOrder
  <2> QED BY <2>1, <2>4
<1>2. ASSUME NEW e \in Devices, Sync(e) PROVE Covers(Entry(local'[d]).v, Entry(remote').v)
  <2>1. local'[e] = remote' /\ remote'.known = KindsOf(e) /\ UNCHANGED setup
    BY <1>2, SyncEffect DEF Sync
  <2>2. e \notin Legacy
    BY <2>1 DEF KindsOf
  <2>3. e = d
    BY <2>1, <2>2 DEF Legacy
  <2>4. Entry(remote').v \in Vectors
    BY <1>0 DEF Shape, CopiesOK, Sound, Nodes, Entry
  <2>5. Covers(Entry(remote').v, Entry(remote').v)
    BY <2>4, CoversIsOrder
  <2> QED BY <2>1, <2>3, <2>5
<1> QED BY <1>1, <1>2

\* copySecret: where every other machine runs a build that has no map for a kind, no cycle and no
\* step of a Protect or Remove PIN empties a slot of that kind, unless the cycle had to change the
\* sealed state of the entry.
THEOREM OldBuildsDropNothing == Spec => LegacyDropsNothing
<1>1. Init => OwnNews
  <2> SUFFICES ASSUME Init, NEW d \in Devices PROVE Covers(Entry(local[d]).v, Entry(remote).v)
    BY DEF OwnNews
  <2>1. PICK maker \in Devices : Init!(maker)
    BY DEF Init
  <2> DEFINE p == BaseProfile(maker)
  <2>2. Sound(p, edits, seq) /\ p = remote
    BY <2>1, ShapeInit DEF Shape, CopiesOK
  <2>3. local[d] = Storable(d, p)
    BY <2>1
  <2> HIDE DEF p
  <2>4. Entry(local[d]).v = Entry(p).v /\ Entry(p).v \in Vectors
    BY <2>2, <2>3, StorableIs DEF Sound, Nodes
  <2> QED BY <2>2, <2>4, CoversIsOrder
<1> DEFINE Drops(d, k) ==
             /\ SlotsOf(local[d])[k] # NoValue
             /\ SealedNode(Entry(local[d])) = SealedNode(Entry(local'[d]))
             /\ SlotsOf(local'[d])[k] = NoValue /\ seq'[d] = seq[d]
<1>2. ASSUME Shape, WholeRuns, OwnNews, [Next]_vars, ~Interleave,
             NEW d \in {e \in Devices : Devices \ {e} = Legacy}, NEW k \in Kinds \ LegacyKinds
      PROVE  ~Drops(d, k)
  <2>1. CASE \A e \in Devices : ~Sync(e)
    BY <1>2, <2>1, LocalStep
  <2>2. ASSUME NEW e \in Devices, Sync(e), e # d PROVE ~Drops(d, k)
    BY <1>2, <2>2, SyncEffect
  <2>3. ASSUME Sync(d), Drops(d, k) PROVE FALSE
    <3> DEFINE a == Entry(local[d])
               b == Entry(remote)
               new == Entry(remote')
    <3>1. run[d].kind = "idle"
      BY <1>2, <2>3, RunIs DEF Sync, Quiet
    <3>2. Unmixed(a) /\ a \in Nodes /\ b \in Nodes
      BY <1>2, <3>1, VectorsAre DEF WholeRuns, Whole
    <3>3. d \in Devices /\ d \notin Legacy /\ KindsOf(d) = Kinds
      BY DEF KindsOf
    <3>4. PICK n \in Nodes : /\ KeepsA(a, b) => Filled(n, a, b, local[d].known)
                             /\ ~KeepsA(a, b) => Filled(n, b, a, remote.known)
                             /\ SlotsOf(remote') = [j \in Kinds |-> IF j \in KindsOf(d) THEN n.slots[j] ELSE NoValue]
      BY <1>2, <2>3, <3>3, SyncEffect
    <3>5. local'[d] = remote'
      BY <1>2, <2>3, <3>3, SyncEffect
    <3>6. n.slots[k] = NoValue /\ a.slots[k] # NoValue
      BY <2>3, <3>3, <3>4, <3>5 DEF SlotsOf
    <3>7. SealedNode(n) = SealedNode(a)
      <4>1. \A j \in Kinds : new.slots[j] = n.slots[j]
        BY <3>3, <3>4 DEF SlotsOf
      <4>2. SealedNode(new) <=> SealedNode(n)
        <5> HIDE DEF new
        <5> QED BY <4>1 DEF SealedNode
      <4>3. SealedNode(new) = SealedNode(a)
        BY <2>3, <3>5
      <4> HIDE DEF new, a
      <4> QED BY <4>2, <4>3 DEF SealedNode
    <3>8. k \in remote.known => ~RacedSealed(b, a)
      <4>1. k \in remote.known => Covers(a.v, b.v)
        BY <1>2, <3>3 DEF OwnNews
      <4> QED BY <4>1 DEF RacedSealed, Concurrent
    <3> HIDE DEF a, b, new
    <3>9. CASE KeepsA(a, b)
      BY <3>2, <3>4, <3>6, <3>9 DEF Filled, MergeSlots
    <3>10. CASE ~KeepsA(a, b)
      <4>1. n.slots = MergeSlots(b, a, RacedSealed(b, a), remote.known)
        BY <3>4, <3>10 DEF Filled
      <4>2. SealedNode(n) <=> SealedNode(b)
        BY <3>2, <4>1, MergeSlotsKeepSeal
      <4>3. a.slots[k] \in IF SealedNode(b) THEN Seals ELSE Plains
        BY <3>2, <3>6, <3>7, <4>2 DEF Unmixed, SealedNode, Nodes, Values
      <4> QED BY <3>6, <3>8, <4>1, <4>3 DEF MergeSlots
    <3> QED BY <3>9, <3>10
  <2> QED BY <2>1, <2>2, <2>3
<1>3. Shape /\ WholeRuns /\ OwnNews /\ [Next]_vars =>
        [~Interleave => \A d \in {e \in Devices : Devices \ {e} = Legacy}, k \in Kinds \ LegacyKinds :
           (/\ SlotsOf(local[d])[k] # NoValue
            /\ SealedNode(Entry(local[d])) = SealedNode(Entry(local'[d])))
           => SlotsOf(local'[d])[k] # NoValue \/ seq'[d] # seq[d]]_vars
  BY <1>2
<1> QED BY <1>1, <1>3, ShapeAlways, WholeAlways, OwnNewsStep, PTL DEF Spec, LegacyDropsNothing

-----------------------------------------------------------------------------
(* The resolution of a race sticks.                                        *)

\* The horizon of a merge covers both horizons and the entry, and is no greater than it has to be.
LEMMA MergedHorizon ==
  ASSUME NEW p, NEW q, NEW texts \in Nat, NEW numbers \in [Devices -> Nat], NEW now \in Nat,
         Sound(p, texts, numbers), Sound(q, texts, numbers)
  PROVE  LET m == MergeProfiles(p, q, now)
         IN  /\ m.horizon \in Vectors
             /\ Covers(m.horizon, p.horizon) /\ Covers(m.horizon, q.horizon) /\ Covers(m.horizon, Entry(m).v)
             /\ \A h \in Vectors : Covers(h, p.horizon) /\ Covers(h, q.horizon) /\ Covers(h, Entry(m).v)
                                   => Covers(h, m.horizon)
<1> DEFINE m == MergeProfiles(p, q, now)
<1>1. /\ Sound(m, texts, numbers) /\ \A id \in Ids : id # X => m.nodes[id] = NoNode
      /\ m.horizon = MergeHorizon(p, q, m.nodes, m.tombs)
  BY MergedIs
<1> HIDE DEF m
<1>2. /\ p \in Profiles /\ q \in Profiles /\ m.nodes \in [Ids -> Nodes \cup {NoNode}]
      /\ m.tombs \in [Ids -> Tombs \cup {NoTomb}] /\ \A id \in Ids : m.tombs[id] = NoTomb
      /\ X \in Ids /\ m.nodes[X] \in Nodes /\ m.nodes[X] # NoNode
  BY <1>1, EntryAssumption, NothingAssumption DEF Sound, Profiles, Entry
<1>3. Seen(p, q, m.nodes, m.tombs) = {p.horizon, q.horizon, Entry(m).v}
  BY <1>1, <1>2 DEF Seen, Entry
<1>4. /\ m.horizon \in Vectors
      /\ \A v \in Seen(p, q, m.nodes, m.tombs) : Covers(m.horizon, v)
      /\ \A c \in Vectors : (\A v \in Seen(p, q, m.nodes, m.tombs) : Covers(c, v)) => Covers(c, m.horizon)
  BY <1>1, <1>2, HorizonIsJoin
<1>5. ASSUME NEW h \in Vectors, Covers(h, p.horizon), Covers(h, q.horizon), Covers(h, Entry(m).v)
      PROVE  Covers(h, m.horizon)
  BY <1>3, <1>4, <1>5
<1>6. Covers(m.horizon, p.horizon) /\ Covers(m.horizon, q.horizon) /\ Covers(m.horizon, Entry(m).v)
  BY <1>3, <1>4
<1> QED BY <1>4, <1>5, <1>6 DEF m

\* A merge that keeps the entry of a copy which knows all the other one knows leaves that copy.
LEMMA LeavesCopy ==
  ASSUME NEW p, NEW q, NEW texts \in Nat, NEW numbers \in [Devices -> Nat], NEW now \in Nat,
         Sound(p, texts, numbers), Sound(q, texts, numbers),
         Entry(MergeProfiles(p, q, now)) = Entry(q),
         Covers(q.horizon, p.horizon), Covers(q.horizon, Entry(q).v)
  PROVE  SameProfile(MergeProfiles(p, q, now), q)
<1> DEFINE m == MergeProfiles(p, q, now)
<1>1. Sound(m, texts, numbers)
  BY MergedIs
<1>2. /\ m.horizon \in Vectors /\ Covers(m.horizon, q.horizon)
      /\ \A h \in Vectors : Covers(h, p.horizon) /\ Covers(h, q.horizon) /\ Covers(h, Entry(m).v)
                            => Covers(h, m.horizon)
  BY MergedHorizon
<1> HIDE DEF m
<1>3. m \in Profiles /\ q \in Profiles /\ q.horizon \in Vectors
  BY <1>1 DEF Sound, Profiles
<1>4. Covers(q.horizon, q.horizon)
  BY <1>3, CoversIsOrder
<1>5. Entry(m) = Entry(q)
  BY DEF m
<1>6. Covers(q.horizon, m.horizon)
  BY <1>2, <1>3, <1>4, <1>5
<1>7. m.horizon = q.horizon
  BY <1>2, <1>3, <1>6, CoversIsOrder
<1>8. \A id \in Ids : m.nodes[id] = q.nodes[id] /\ m.tombs[id] = q.tombs[id]
  BY <1>1, <1>5 DEF Sound, Entry
<1>9. m.nodes = q.nodes /\ m.tombs = q.tombs
  BY <1>3, <1>8 DEF Profiles
<1> QED BY <1>7, <1>9 DEF SameProfile, m

\* Two copies that met once agree: both sides of the next merge, and the merge of the result with
\* itself, leave it alone.
LEMMA CopiesSettle ==
  ASSUME NEW p, NEW q, NEW texts \in Nat, NEW numbers \in [Devices -> Nat], NEW now \in Nat,
         Sound(p, texts, numbers), Sound(q, texts, numbers), q.known = Kinds,
         Unmixed(Entry(p)), Unmixed(Entry(q)),
         Distinguished(Entry(p), Entry(q)) \/ SameVersion(Entry(p), Entry(q))
  PROVE  LET m == MergeProfiles(p, q, now)
         IN  SameProfile(MergeProfiles(q, m, now), m) /\ SameProfile(MergeProfiles(m, m, now), m)
<1> DEFINE m == MergeProfiles(p, q, now)
           a == Entry(p)
           b == Entry(q)
<1>1. Sound(m, texts, numbers) /\ m.known = Kinds
      /\ Entry(m) = WithSecrets(DecideProtection(a, b), a, b, p.known, Kinds)
  BY MergedIs
<1>2. Covers(m.horizon, q.horizon) /\ Covers(m.horizon, Entry(m).v) /\ m.horizon \in Vectors
  BY MergedHorizon
<1> HIDE DEF m
<1>3. a \in Nodes /\ b \in Nodes
  BY DEF Sound
<1>4. /\ Entry(MergeProfiles(q, m, now)) = WithSecrets(DecideProtection(b, Entry(m)), b, Entry(m), Kinds, Kinds)
      /\ Entry(MergeProfiles(m, m, now))
           = WithSecrets(DecideProtection(Entry(m), Entry(m)), Entry(m), Entry(m), Kinds, Kinds)
  BY <1>1, MergedIs
<1> HIDE DEF a, b
<1>5. /\ WithSecrets(DecideProtection(b, Entry(m)), b, Entry(m), Kinds, Kinds) = Entry(m)
      /\ WithSecrets(DecideProtection(Entry(m), Entry(m)), Entry(m), Entry(m), Kinds, Kinds) = Entry(m)
  BY <1>1, <1>3, MergeSettles DEF a, b
<1>6. SameProfile(MergeProfiles(q, m, now), m)
  BY <1>1, <1>2, <1>4, <1>5, LeavesCopy
<1>7. SameProfile(MergeProfiles(m, m, now), m)
  <2>1. Covers(m.horizon, m.horizon)
    BY <1>2, CoversIsOrder
  <2> QED BY <1>1, <1>2, <1>4, <1>5, <2>1, LeavesCopy
<1> QED BY <1>6, <1>7 DEF m

\* A merge of two unmixed copies is unmixed.
LEMMA MergedUnmixed ==
  ASSUME NEW p, NEW q, NEW texts \in Nat, NEW numbers \in [Devices -> Nat], NEW now \in Nat,
         Sound(p, texts, numbers), Sound(q, texts, numbers), Unmixed(Entry(p)), Unmixed(Entry(q))
  PROVE  LET m == MergeProfiles(p, q, now)
         IN  Sound(m, texts, numbers) /\ m.known = Kinds /\ Unmixed(Entry(m))
<1> DEFINE m == MergeProfiles(p, q, now)
           a == Entry(p)
           b == Entry(q)
<1>1. /\ Sound(m, texts, numbers) /\ m.known = Kinds
      /\ KeepsA(a, b) => Filled(Entry(m), a, b, p.known)
      /\ ~KeepsA(a, b) => Filled(Entry(m), b, a, q.known)
  BY MergedIs
<1> HIDE DEF m
<1>2. a \in Nodes /\ b \in Nodes
  BY DEF Sound
<1>3. CASE KeepsA(a, b)
  <2> HIDE DEF a, b
  <2> QED BY <1>1, <1>2, <1>3, MergeSlotsUnmixes DEF Filled, a, b, m
<1>4. CASE ~KeepsA(a, b)
  <2> HIDE DEF a, b
  <2> QED BY <1>1, <1>2, <1>4, MergeSlotsUnmixes DEF Filled, a, b, m
<1> QED BY <1>3, <1>4

\* One cycle on each of two machines, in turn, brings both to one profile, which neither machine's
\* next cycle changes: whatever raced before, no merge flips back what another machine decided, for
\* any number of installations, values and clocks. It needs the copies to be unmixed, for a gap
\* that one copy of a version fills and the other must not fill differently.
THEOREM ResolutionSticks == Spec => []Settles
<1>1. Shape /\ WholeRuns => Settles
  <2> SUFFICES ASSUME Shape, WholeRuns, Ordinary, Quiet,
                      NEW d \in Devices, NEW e \in Devices \ {d},
                      NEW first, first = MergeProfiles(local[d], remote, MaxTime),
                      NEW second, second = MergeProfiles(local[e], first, MaxTime),
                      Distinguished(Entry(local[e]), Entry(first)) \/ SameVersion(Entry(local[e]), Entry(first))
               PROVE  /\ SameProfile(MergeProfiles(first, second, MaxTime), second)
                      /\ SameProfile(MergeProfiles(second, second, MaxTime), second)
    BY DEF Settles
  <2>1. /\ Sound(local[d], edits, seq) /\ Sound(local[e], edits, seq) /\ Sound(remote, edits, seq)
        /\ edits \in Nat /\ seq \in [Devices -> Nat] /\ MaxTime \in Nat
    BY SetupIs DEF Shape, BoundsOK, CopiesOK, MaxEdits
  <2>2. Unmixed(Entry(local[d])) /\ Unmixed(Entry(local[e])) /\ Unmixed(Entry(remote))
    BY RunIs DEF WholeRuns, Ordinary, Whole, Quiet
  <2>3. Sound(first, edits, seq) /\ first.known = Kinds /\ Unmixed(Entry(first))
    BY <2>1, <2>2, MergedUnmixed
  <2> QED BY <2>1, <2>2, <2>3, CopiesSettle
<1> QED BY <1>1, ShapeAlways, WholeAlways, PTL
=============================================================================
