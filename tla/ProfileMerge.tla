---------------------------- MODULE ProfileMerge ----------------------------
(***************************************************************************)
(* The pure two-way merge of one profile: versionVector.ts (vectors),      *)
(* syncPinRule.ts (which side's protection decision wins) and syncMerge.ts *)
(* (mergeProfiles).                                                        *)
(*                                                                         *)
(* A version vector is a function on Devices, 0 where the code's record    *)
(* has no key (a sequence number is at least 1).  Devices are numbers so   *)
(* that "the lexicographically greatest device id" is the greatest one.    *)
(* A profile maps every id to its node and tombstone, or to their absence. *)
(* The secret maps of one entry are its slots; a slot holds NoValue, a     *)
(* plain value or a sealed envelope.  Attachments and images, which are    *)
(* outside the PIN and always filled in, are left out.                     *)
(***************************************************************************)
EXTENDS Naturals, FiniteSets

CONSTANTS Devices,   \* installations, each with its own sequence
          Ids,       \* node ids
          Root,      \* parentId null
          Kinds,     \* SEALABLE_MAPS: the secret kinds a PIN wraps
          Plains,    \* plain secret values
          Seals,     \* sealed secret values, each under some PIN
          NoValue,   \* the map has no value for the entry
          NoNode,    \* the id is in no tree
          NoTomb,    \* the id has no tombstone
          TombTTL    \* TOMBSTONE_TTL_MS, in ticks

ASSUME DevicesAssumption == Devices \subseteq Nat \ {0} /\ IsFiniteSet(Devices)
ASSUME TombTTLAssumption == TombTTL \in Nat
ASSUME SlotAssumption == Plains \cap Seals = {} /\ NoValue \notin Plains \cup Seals
ASSUME IdsAssumption == IsFiniteSet(Ids)

Vectors == [Devices -> Nat]
Values == Plains \cup Seals \cup {NoValue}
Nodes == [v : Vectors, at : Nat, parent : Ids \cup {Root},
          epoch : Nat, mark : BOOLEAN, slots : [Kinds -> Values]]
Tombs == [v : Vectors, at : Nat]
\* epoch: pinEpoch, the count of protection decisions.  mark: details.pinProtected.
\* known: the kinds the build that wrote this side has a map for.
Profiles == [nodes : [Ids -> Nodes \cup {NoNode}], tombs : [Ids -> Tombs \cup {NoTomb}],
             horizon : Vectors, known : SUBSET Kinds]

ASSUME NothingAssumption == NoNode \notin Nodes /\ NoTomb \notin Tombs

-----------------------------------------------------------------------------
(* Version vectors.                                                        *)

EmptyVector == [d \in Devices |-> 0]
MaxOf(m, n) == IF m >= n THEN m ELSE n
MergeVectors(a, b) == [d \in Devices |-> MaxOf(a[d], b[d])]
Covers(a, b) == \A d \in Devices : a[d] >= b[d]
Dominates(a, b) == Covers(a, b) /\ ~Covers(b, a)
Concurrent(a, b) == ~Covers(a, b) /\ ~Covers(b, a)
BumpVector(v, d, seq) == [v EXCEPT ![d] = seq]

\* The device with the highest sequence, ties to the greater id; 0 (the empty string) for {}.
LastWriter(v) ==
  IF v = EmptyVector THEN 0
  ELSE CHOOSE d \in Devices :
         v[d] # 0 /\ \A e \in Devices : v[e] < v[d] \/ (v[e] = v[d] /\ e <= d)

-----------------------------------------------------------------------------
(* syncPinRule.ts: protection.                                             *)

SealedNode(n) == \E k \in Kinds : n.slots[k] \in Seals

\* Both sealed and neither saw the other: one node wins wholesale.
RacedSealed(a, b) == SealedNode(a) /\ SealedNode(b) /\ Concurrent(a.v, b.v)

\* The rule reaches a pair neither of which dominates and whose sealed states differ.
RuleReaches(a, b) ==
  ~Dominates(a.v, b.v) /\ ~Dominates(b.v, a.v) /\ SealedNode(a) # SealedNode(b)

\* The higher epoch is the later decision; equal epochs fail closed, to the sealed side.
LaterDecisionIsA(a, b) ==
  IF a.epoch # b.epoch THEN a.epoch > b.epoch ELSE SealedNode(a)

-----------------------------------------------------------------------------
(* syncMerge.ts: one id present on both sides.                             *)

\* A slip PickIsA must not make: a tie of the clocks keeps the local side, whoever wrote last.
PickLocalOnTie(a, b) ==
  Dominates(a.v, b.v) \/ (~Dominates(b.v, a.v) /\ a.at >= b.at)

\* pickNode: dominance, then the clock, then the last writer; a tie keeps a.
PickIsA(a, b) ==
  \/ Dominates(a.v, b.v)
  \/ /\ ~Dominates(b.v, a.v)
     /\ \/ a.at > b.at
        \/ a.at = b.at /\ LastWriter(a.v) >= LastWriter(b.v)

\* A slip DecideProtection must not make: the clock alone decides.
DecideByClock(a, b) ==
  [node |-> IF PickIsA(a, b) THEN a ELSE b, local |-> PickIsA(a, b), wholesale |-> RacedSealed(a, b)]

\* decideProtection: the clock's pick, unless the rule picks the other side; then the kept
\* node carries both vectors, so that it dominates what it overrode.
DecideProtection(a, b) ==
  LET clockIsA == PickIsA(a, b)
      keepsA == IF RuleReaches(a, b) THEN LaterDecisionIsA(a, b) ELSE clockIsA
      winner == IF keepsA THEN a ELSE b
  IN  IF keepsA = clockIsA
      THEN [node |-> winner, local |-> keepsA, wholesale |-> RacedSealed(a, b)]
      ELSE [node |-> [winner EXCEPT !.v = MergeVectors(a.v, b.v)], local |-> keepsA,
            wholesale |-> FALSE]

\* Slips MergeSlots must not make: a fallback that takes any value, and a wholesale win that
\* reads a map the winner's build does not have as an empty one.
MergeSlotsUnmatched(winner, loser, wholesale, winnerKnows) ==
  [k \in Kinds |-> IF winner.slots[k] # NoValue THEN winner.slots[k]
                   ELSE IF wholesale THEN NoValue ELSE loser.slots[k]]

MergeSlotsAbsentIsEmpty(winner, loser, wholesale, winnerKnows) ==
  [k \in Kinds |->
    LET mayTake == IF SealedNode(winner) THEN Seals ELSE Plains
    IN  IF winner.slots[k] # NoValue THEN winner.slots[k]
        ELSE IF ~wholesale /\ loser.slots[k] \in mayTake THEN loser.slots[k] ELSE NoValue]

\* copySecret over every sealable slot: the winner's value, else the loser's where its sealed
\* state matches the winner's. A wholesale winner takes none, save for a kind it has no map for.
MergeSlots(winner, loser, wholesale, winnerKnows) ==
  [k \in Kinds |->
    LET mayTake == IF SealedNode(winner) THEN Seals ELSE Plains
    IN  IF winner.slots[k] # NoValue THEN winner.slots[k]
        ELSE IF wholesale /\ k \in winnerKnows THEN NoValue
        ELSE IF loser.slots[k] \in mayTake THEN loser.slots[k] ELSE NoValue]

\* isDeleted: a tombstone against the surviving candidate; the clock decides where a legacy
\* (empty) vector or a genuine race leaves causality silent, and ties delete.
IsDeleted(tomb, n) ==
  IF tomb.v = EmptyVector \/ n.v = EmptyVector \/ Concurrent(n.v, tomb.v)
  THEN tomb.at >= n.at
  ELSE ~Dominates(n.v, tomb.v)

\* Slips IsPhantom must not make: a horizon that has heard of the writer, but not of this write,
\* and a horizon that is not asked at all.
IsPhantomByWriter(n, other, id) ==
  n.v # EmptyVector /\ other.tombs[id] = NoTomb /\ other.horizon[LastWriter(n.v)] > 0

IsPhantomNever(n, other, id) == FALSE

\* A node on one side only that the other side's horizon has already surpassed.
IsPhantom(n, other, id) ==
  /\ n.v # EmptyVector
  /\ other.tombs[id] = NoTomb
  /\ Covers(other.horizon, n.v)

\* The kept node with its secrets.
WithSecrets(kept, a, b, aKnows, bKnows) ==
  [kept.node EXCEPT !.slots = IF kept.local THEN MergeSlots(a, b, kept.wholesale, aKnows)
                                            ELSE MergeSlots(b, a, kept.wholesale, bKnows)]

\* pickWinner with its secrets: the node kept for one id, before tombstones are asked.
Winner(id, local, remote) ==
  LET a == local.nodes[id]
      b == remote.nodes[id]
  IN  CASE a = NoNode /\ b = NoNode -> NoNode
        [] a # NoNode /\ b = NoNode -> IF IsPhantom(a, remote, id) THEN NoNode ELSE a
        [] a = NoNode /\ b # NoNode -> IF IsPhantom(b, local, id) THEN NoNode ELSE b
        [] OTHER -> WithSecrets(DecideProtection(a, b), a, b, local.known, remote.known)

\* Two nodes that causality, the clock or the last writer tells apart.
Distinguished(a, b) ==
  \/ Dominates(a.v, b.v)
  \/ Dominates(b.v, a.v)
  \/ a.at # b.at
  \/ LastWriter(a.v) # LastWriter(b.v)

\* Two copies of one version, that agree in every slot both of them have filled.
SameVersion(a, b) ==
  /\ [a EXCEPT !.slots = b.slots] = b
  /\ \A k \in Kinds : a.slots[k] = b.slots[k] \/ NoValue \in {a.slots[k], b.slots[k]}

-----------------------------------------------------------------------------
(* mergeProfiles.                                                          *)

\* A slip MergeTomb must not make: the other side's deletions are not taken over.
MergeTombOwn(s, t) == s

MergeTomb(s, t) ==
  CASE s = NoTomb -> t
    [] t = NoTomb -> s
    [] OTHER -> [at |-> MaxOf(s.at, t.at), v |-> MergeVectors(s.v, t.v)]

\* What is left of a candidate once its tombstone was asked.
Survivor(n, tomb) ==
  IF n # NoNode /\ tomb # NoTomb /\ IsDeleted(tomb, n) THEN NoNode ELSE n

\* A node whose folder did not survive moves to the root; its vector stays.
Reparent(nodes) ==
  [id \in Ids |->
    IF nodes[id] # NoNode /\ nodes[id].parent # Root /\ nodes[nodes[id].parent] = NoNode
    THEN [nodes[id] EXCEPT !.parent = Root] ELSE nodes[id]]

MergeNodes(local, remote) ==
  Reparent([id \in Ids |->
    Survivor(Winner(id, local, remote), MergeTomb(local.tombs[id], remote.tombs[id]))])

\* Every tombstone of either side whose node did not survive: the pruning comes later.
MergeTombs(local, remote, nodes) ==
  [id \in Ids |-> IF nodes[id] # NoNode THEN NoTomb
                  ELSE MergeTomb(local.tombs[id], remote.tombs[id])]

\* A slip MergeHorizon must not make: the other side's horizon is recomputed, not carried over.
MergeHorizonOwn(local, remote, nodes, tombs) ==
  LET seen == {local.horizon}
              \cup {nodes[id].v : id \in {i \in Ids : nodes[i] # NoNode}}
              \cup {tombs[id].v : id \in {i \in Ids : tombs[i] # NoTomb}}
  IN  [d \in Devices |-> CHOOSE n \in {v[d] : v \in seen} : \A v \in seen : v[d] <= n]

\* What either side knew, every vector kept and every deletion; never pruned.
MergeHorizon(local, remote, nodes, tombs) ==
  LET seen == {local.horizon, remote.horizon}
              \cup {nodes[id].v : id \in {i \in Ids : nodes[i] # NoNode}}
              \cup {tombs[id].v : id \in {i \in Ids : tombs[i] # NoTomb}}
  IN  [d \in Devices |-> CHOOSE n \in {v[d] : v \in seen} : \A v \in seen : v[d] <= n]

\* Tombstones older than the TTL are collected.
Prune(tombs, now) ==
  [id \in Ids |-> IF tombs[id] # NoTomb /\ now > tombs[id].at + TombTTL THEN NoTomb ELSE tombs[id]]

\* The parts of the result, each made from the ones before it: nodes, tombstones, horizon.
MergedProfile(local, remote, nodes, tombs, now) ==
  [nodes |-> nodes, tombs |-> Prune(tombs, now),
   horizon |-> MergeHorizon(local, remote, nodes, tombs), known |-> Kinds]

MergeAround(local, remote, nodes, now) ==
  MergedProfile(local, remote, nodes, MergeTombs(local, remote, nodes), now)

MergeProfiles(local, remote, now) ==
  MergeAround(local, remote, MergeNodes(local, remote), now)

EmptyProfile ==
  [nodes |-> [id \in Ids |-> NoNode], tombs |-> [id \in Ids |-> NoTomb],
   horizon |-> EmptyVector, known |-> Kinds]

\* The snapshots compare by content, not by which build wrote them.
SameProfile(p, q) == p.nodes = q.nodes /\ p.tombs = q.tombs /\ p.horizon = q.horizon
=============================================================================
