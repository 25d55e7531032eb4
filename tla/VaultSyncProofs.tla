-------------------------- MODULE VaultSyncProofs --------------------------
(***************************************************************************)
(* What holds of installations that share one vault, for every number of   *)
(* them, of ids, writes, ticks, faults and restores.  Invariants, each     *)
(* resting on the one before: the shape of the state; that no vector runs  *)
(* ahead of the sequence numbers handed out; what a cycle that read the    *)
(* vault may rely on; and that whoever has heard of a node has the node.   *)
(***************************************************************************)
EXTENDS VaultSync, ProfileMergeProofs

NodeMaps == [Ids -> Nodes \cup {NoNode}]
TombMaps == [Ids -> Tombs \cup {NoTomb}]
Deletions == [ids : SUBSET Ids, nodes : NodeMaps]
Cycles == [pc : {"idle", "read", "snapshot", "apply", "applying", "push", "pushing"},
           raw : Profiles, found : BOOLEAN, fresh : BOOLEAN, untouched : BOOLEAN, tip : BOOLEAN,
           nodes : NodeMaps, merged : Profiles, push : BOOLEAN]

-----------------------------------------------------------------------------
(* The shape of the state.                                                 *)

StoreOK ==
  /\ local \in [Devices -> Profiles]
  /\ deleting \in [Devices -> Deletions]

CyclesOK == cycle \in [Devices -> [Lanes -> Cycles]]

VaultOK ==
  /\ etag \in [Devices -> {"unknown", "current", "stale", "reread"}]
  /\ converged \in [Devices -> BOOLEAN]
  /\ remote \in Profiles /\ exists \in BOOLEAN /\ backup \in Profiles

\* A sequence number is handed out by a write that was counted.
CountsOK ==
  /\ setup \in Setups
  /\ seq \in [Devices -> Nat] /\ \A d \in Devices : seq[d] <= writes
  /\ writes \in 0..MaxWrites
  /\ now \in 1..MaxTime

HistoryOK ==
  /\ made \in [Ids -> Devices \cup {0}]
  /\ gone \subseteq Ids
  /\ top \in [Ids -> Vectors]

Shape == StoreOK /\ CyclesOK /\ VaultOK /\ CountsOK /\ HistoryOK

-----------------------------------------------------------------------------
(* What the steps do to a profile and to the cycles.                       *)

\* The cycles hold what they held, but for the flag a local write lowers.
KeepsCycles ==
  \A e \in Devices, k \in Lanes :
    /\ cycle'[e][k].pc = cycle[e][k].pc /\ cycle'[e][k].raw = cycle[e][k].raw
    /\ cycle'[e][k].fresh = cycle[e][k].fresh /\ cycle'[e][k].nodes = cycle[e][k].nodes
    /\ cycle'[e][k].merged = cycle[e][k].merged

OnlyCycle(d, l, rec) ==
  \A e \in Devices, k \in Lanes :
    cycle'[e][k] = IF e = d /\ k = l THEN rec ELSE cycle[e][k]

\* The empty profile, and nothing under way, have their shape.
LEMMA EmptyShape ==
  /\ EmptyProfile \in Profiles /\ EmptyProfile.nodes \in NodeMaps
  /\ NoCycle \in Cycles /\ NotDeleting \in Deletions
  /\ NoCycle.pc = "idle" /\ NoCycle.raw = EmptyProfile /\ NoCycle.merged = EmptyProfile
  /\ NoCycle.nodes = EmptyProfile.nodes /\ NoCycle.fresh = FALSE
  /\ EmptyVector \in Vectors
<1>1. EmptyVector \in Vectors
  BY DEF EmptyVector, Vectors
<1>2. EmptyProfile \in Profiles /\ EmptyProfile.nodes \in NodeMaps
  BY <1>1 DEF EmptyProfile, Profiles, NodeMaps
<1> QED
  BY <1>1, <1>2 DEF NoCycle, Cycles, NotDeleting, Deletions

\* The parts of a profile.
LEMMA ProfileParts ==
  ASSUME NEW p \in Profiles
  PROVE  /\ p.nodes \in NodeMaps /\ p.tombs \in TombMaps /\ p.horizon \in Vectors
         /\ \A id \in Ids : p.nodes[id] # NoNode => p.nodes[id] \in Nodes /\ p.nodes[id].v \in Vectors
         /\ \A id \in Ids : p.tombs[id] # NoTomb => p.tombs[id] \in Tombs /\ p.tombs[id].v \in Vectors
<1>1. p.nodes \in NodeMaps /\ p.tombs \in TombMaps /\ p.horizon \in Vectors
  BY DEF Profiles, NodeMaps, TombMaps
<1> QED
  BY <1>1 DEF NodeMaps, TombMaps, Nodes, Tombs

\* A profile with its nodes replaced is a profile, and so is one with its tombstones or horizon replaced.
LEMMA NodesReplaced ==
  ASSUME NEW p \in Profiles, NEW ns \in NodeMaps
  PROVE  LET q == [p EXCEPT !.nodes = ns]
         IN  q \in Profiles /\ q.nodes = ns /\ q.tombs = p.tombs /\ q.horizon = p.horizon
BY DEF Profiles, NodeMaps

LEMMA RestReplaced ==
  ASSUME NEW p \in Profiles, NEW ts \in TombMaps, NEW h \in Vectors
  PROVE  LET q == [p EXCEPT !.tombs = ts, !.horizon = h]
         IN  q \in Profiles /\ q.nodes = p.nodes /\ q.tombs = ts /\ q.horizon = h
BY DEF Profiles, TombMaps

\* One installation's profile is replaced.
OnlyLocal(d, q) ==
  /\ local' \in [Devices -> Profiles]
  /\ local'[d] = q
  /\ \A e \in Devices : e # d => local'[e] = local[e]

LEMMA LocalReplaced ==
  ASSUME StoreOK, NEW d \in Devices, NEW q \in Profiles, local' = [local EXCEPT ![d] = q]
  PROVE  OnlyLocal(d, q)
BY DEF StoreOK, OnlyLocal

\* One cycle moves.
LEMMA CycleReplaced ==
  ASSUME CyclesOK, NEW d \in Devices, NEW l \in Lanes, NEW rec \in Cycles,
         cycle' = [cycle EXCEPT ![d][l] = rec]
  PROVE  CyclesOK' /\ OnlyCycle(d, l, rec)
<1> DEFINE f == [cycle[d] EXCEPT ![l] = rec]
<1>1. f \in [Lanes -> Cycles] /\ f[l] = rec /\ \A k \in Lanes : k # l => f[k] = cycle[d][k]
  BY DEF CyclesOK
<1>2. cycle' = [cycle EXCEPT ![d] = f]
  OBVIOUS
<1> HIDE DEF f
<1>3. CyclesOK'
  BY <1>1, <1>2 DEF CyclesOK
<1>4. \A e \in Devices : cycle'[e] = IF e = d THEN f ELSE cycle[e]
  BY <1>2 DEF CyclesOK
<1> QED BY <1>1, <1>3, <1>4 DEF OnlyCycle

\* A vector with one number more, a wall-clock time, a number taken.
LEMMA StampShape ==
  ASSUME Shape, NEW d \in Devices
  PROVE  /\ Stamp(d) \in Nat /\ seq[d] \in Nat /\ seq[d] + 1 \in Nat /\ now \in Nat
         /\ \A v \in Vectors, n \in Nat : BumpVector(v, d, n) \in Vectors /\ [v EXCEPT ![d] = n] \in Vectors
         /\ setup \in Setups /\ MaxWrites \in Nat /\ MaxTime \in Nat \ {0}
<1>1. setup \in Setups /\ MaxWrites \in Nat /\ MaxTime \in Nat \ {0}
  BY SetupsAssumption DEF Shape, CountsOK, MaxWrites, MaxTime
<1>2. now \in Nat /\ seq[d] \in Nat /\ d \in Nat
  BY <1>1, DevicesAssumption DEF Shape, CountsOK
<1>3. Cardinality(Devices) \in Nat
  BY DevicesAssumption, FS_CardinalityType
<1>4. Stamp(d) \in Nat
  BY <1>2, <1>3 DEF Stamp
<1>5. \A v \in Vectors, n \in Nat : BumpVector(v, d, n) \in Vectors /\ [v EXCEPT ![d] = n] \in Vectors
  BY DEF BumpVector, Vectors
<1> QED BY <1>1, <1>2, <1>4, <1>5

\* A local write lowers one flag of the machine's own cycles.
LEMMA TouchedShape ==
  ASSUME CyclesOK, NEW d \in Devices
  PROVE  /\ Touched(d, cycle) \in [Devices -> [Lanes -> Cycles]]
         /\ \A e \in Devices, k \in Lanes :
              LET t == Touched(d, cycle)[e][k]
                  c == cycle[e][k]
              IN  t.pc = c.pc /\ t.raw = c.raw /\ t.fresh = c.fresh /\ t.nodes = c.nodes /\ t.merged = c.merged
<1>1. ASSUME NEW c \in Cycles
      PROVE  LET t == [c EXCEPT !.untouched = FALSE]
             IN  /\ t \in Cycles
                 /\ t.pc = c.pc /\ t.raw = c.raw /\ t.fresh = c.fresh /\ t.nodes = c.nodes /\ t.merged = c.merged
  BY DEF Cycles
<1>2. \A e \in Devices, k \in Lanes : cycle[e][k] \in Cycles
  BY DEF CyclesOK
<1>3. ASSUME NEW e \in Devices, NEW k \in Lanes
      PROVE  Touched(d, cycle)[e][k] = IF e = d THEN [cycle[e][k] EXCEPT !.untouched = FALSE] ELSE cycle[e][k]
  BY DEF Touched, CyclesOK
<1>4. Touched(d, cycle) \in [Devices -> [Lanes -> Cycles]]
  <2> DEFINE f == [l \in Lanes |-> [cycle[d][l] EXCEPT !.untouched = FALSE]]
  <2>1. f \in [Lanes -> Cycles]
    BY <1>1, <1>2
  <2>2. Touched(d, cycle) = [cycle EXCEPT ![d] = f]
    BY DEF Touched
  <2> HIDE DEF f
  <2> QED BY <2>1, <2>2 DEF CyclesOK
<1> QED BY <1>1, <1>2, <1>3, <1>4

\* What PutNode leaves: one node replaced, its tombstone perhaps dropped, the horizon raised at the
\* writer (storageManager.stampVector, bumpHorizonToSeq).
PutNodeStep(d, id, v) ==
  LET node == local'[d].nodes[id]
  IN  /\ local' \in [Devices -> Profiles]
      /\ \A e \in Devices : e # d => local'[e] = local[e]
      /\ node \in Nodes /\ node # NoNode /\ node.v = BumpVector(v, d, seq[d] + 1)
      /\ \A j \in Ids : j # id => /\ local'[d].nodes[j] = local[d].nodes[j]
                                  /\ local'[d].tombs[j] = local[d].tombs[j]
      /\ local'[d].tombs[id] \in {NoTomb, local[d].tombs[id]}
      /\ local'[d].horizon = [local[d].horizon EXCEPT ![d] = MaxOf(local[d].horizon[d], seq[d] + 1)]
      /\ seq' = [seq EXCEPT ![d] = seq[d] + 1]
      /\ top' = [top EXCEPT ![id] = MergeVectors(@, node.v)]
      /\ writes' = writes + 1
      /\ KeepsCycles /\ CyclesOK'
      /\ converged' \in [Devices -> BOOLEAN]

LEMMA PutNodeSteps ==
  ASSUME Shape, NEW d \in Devices, NEW id \in Ids, NEW v \in Vectors, NEW parent \in Ids \cup {Root},
         PutNode(d, id, v, parent)
  PROVE  PutNodeStep(d, id, v)
<1> DEFINE node == [v |-> BumpVector(v, d, seq[d] + 1), at |-> Stamp(d), parent |-> parent,
                    epoch |-> 0, mark |-> FALSE, slots |-> [k \in Kinds |-> NoValue]]
           p == local[d]
           ns == [p.nodes EXCEPT ![id] = node]
           ts == [p.tombs EXCEPT ![id] = IF v = EmptyVector THEN NoTomb ELSE @]
           h == [p.horizon EXCEPT ![d] = MaxOf(p.horizon[d], seq[d] + 1)]
           q == [p EXCEPT !.nodes = ns, !.tombs = ts, !.horizon = h]
<1>1. p \in Profiles /\ local \in [Devices -> Profiles]
  BY DEF Shape, StoreOK
<1>2. node \in Nodes /\ node.v = BumpVector(v, d, seq[d] + 1)
  <2>1. [k \in Kinds |-> NoValue] \in [Kinds -> Values]
    BY DEF Values
  <2>2. BumpVector(v, d, seq[d] + 1) \in Vectors /\ Stamp(d) \in Nat
    BY StampShape
  <2> QED BY <2>1, <2>2 DEF Nodes
<1>3. ns \in NodeMaps /\ ns[id] = node /\ \A j \in Ids : j # id => ns[j] = p.nodes[j]
  <2> HIDE DEF node, p
  <2> QED BY <1>1, <1>2, ProfileParts DEF NodeMaps
<1>4. ts \in TombMaps /\ ts[id] \in {NoTomb, p.tombs[id]} /\ \A j \in Ids : j # id => ts[j] = p.tombs[j]
  <2> HIDE DEF p
  <2> QED BY <1>1, ProfileParts DEF TombMaps
<1>5. h \in Vectors
  <2>1. p.horizon \in Vectors
    BY <1>1, ProfileParts
  <2>2. seq[d] + 1 \in Nat /\ p.horizon[d] \in Nat
    BY <2>1, StampShape DEF Vectors
  <2>3. MaxOf(p.horizon[d], seq[d] + 1) \in Nat
    BY <2>2, MaxOfBounds
  <2> HIDE DEF p
  <2> QED BY <2>1, <2>3 DEF Vectors
<1>6. local' = [local EXCEPT ![d] = q]
  <2>1. local' = [local EXCEPT ![d] =
                    [p EXCEPT !.nodes[id] = node,
                              !.tombs[id] = IF v = EmptyVector THEN NoTomb ELSE p.tombs[id],
                              !.horizon[d] = MaxOf(p.horizon[d], seq[d] + 1)]]
    BY Zenon DEF PutNode
  <2> HIDE DEF p, node
  <2>2. q = [p EXCEPT !.nodes[id] = node,
                      !.tombs[id] = IF v = EmptyVector THEN NoTomb ELSE p.tombs[id],
                      !.horizon[d] = MaxOf(p.horizon[d], seq[d] + 1)]
    BY <1>1 DEF Profiles
  <2> QED BY <2>1, <2>2
<1>7. q \in Profiles /\ q.nodes = ns /\ q.tombs = ts /\ q.horizon = h
  <2>1. p \in Profiles /\ ns \in NodeMaps /\ ts \in TombMaps /\ h \in Vectors
    BY <1>1, <1>3, <1>4, <1>5
  <2> HIDE DEF p, ns, ts, h
  <2> QED BY <2>1 DEF Profiles, NodeMaps, TombMaps
<1>8. local'[d] = q /\ local' \in [Devices -> Profiles] /\ \A e \in Devices : e # d => local'[e] = local[e]
  <2> HIDE DEF q
  <2> QED BY <1>1, <1>6, <1>7
<1>9. /\ seq' = [seq EXCEPT ![d] = @ + 1] /\ writes' = writes + 1
      /\ top' = [top EXCEPT ![id] = MergeVectors(@, node.v)]
      /\ cycle' = Touched(d, cycle) /\ converged' = [converged EXCEPT ![d] = FALSE]
  BY DEF PutNode, Touch
<1>10. KeepsCycles /\ CyclesOK' /\ converged' \in [Devices -> BOOLEAN]
  BY <1>9, TouchedShape DEF Shape, CyclesOK, KeepsCycles, VaultOK
<1> HIDE DEF node, p, ns, ts, h, q
<1>11. local'[d].nodes = ns /\ local'[d].tombs = ts /\ local'[d].horizon = h
  BY <1>7, <1>8
<1>12. local'[d].nodes[id] = node /\ node # NoNode
  BY <1>2, <1>3, <1>11, NothingAssumption
<1>13. h = [local[d].horizon EXCEPT ![d] = MaxOf(local[d].horizon[d], seq[d] + 1)]
  BY DEF h, p
<1> QED
  BY <1>2, <1>3, <1>4, <1>8, <1>9, <1>10, <1>11, <1>12, <1>13 DEF PutNodeStep, p

\* What the first write of a deletion leaves: a tombstone for every node below the one deleted.
TombsStep(d, ids) ==
  /\ ids \subseteq Present(local[d])
  /\ local' \in [Devices -> Profiles]
  /\ \A e \in Devices : e # d => local'[e] = local[e]
  /\ local'[d].nodes = local[d].nodes /\ local'[d].horizon = local[d].horizon
  /\ \A j \in Ids : j \notin ids => local'[d].tombs[j] = local[d].tombs[j]
  /\ \A j \in ids : local'[d].tombs[j].v = BumpVector(local[d].nodes[j].v, d, seq[d] + 1)
  /\ deleting' = [deleting EXCEPT ![d] = [ids |-> ids, nodes |-> local[d].nodes]]
  /\ gone' = gone \cup ids
  /\ seq' = [seq EXCEPT ![d] = seq[d] + 1]
  /\ writes' = writes + 1
  /\ KeepsCycles /\ CyclesOK'
  /\ converged' \in [Devices -> BOOLEAN]

\* The ids of a subtree are in the tree.
LEMMA SubtreePresent ==
  ASSUME NEW nodes, NEW id \in Ids, nodes[id] # NoNode
  PROVE  \A j \in Subtree(nodes, id) : j \in Ids /\ nodes[j] # NoNode
<1> DEFINE S == {j \in Ids : nodes[j] # NoNode}
<1>1. S \in SUBSET Ids /\ id \in S /\ \A j \in Ids : nodes[j] # NoNode /\ nodes[j].parent \in S => j \in S
  OBVIOUS
<1>2. \A j \in Subtree(nodes, id) : j \in Ids /\ j \in S
  <2> HIDE DEF S
  <2> QED BY <1>1 DEF Subtree
<1> QED BY <1>2

LEMMA TouchKeeps ==
  ASSUME Shape, NEW d \in Devices, Touch(d)
  PROVE  KeepsCycles /\ CyclesOK' /\ converged' \in [Devices -> BOOLEAN]
<1>1. cycle' = Touched(d, cycle) /\ converged' = [converged EXCEPT ![d] = FALSE]
  BY DEF Touch
<1> QED BY <1>1, TouchedShape DEF Shape, CyclesOK, KeepsCycles, VaultOK

LEMMA DeleteTombstonesStep ==
  ASSUME Shape, NEW d \in Devices, NEW id \in Ids, DeleteTombstones(d, id)
  PROVE  \E ids \in SUBSET Ids : TombsStep(d, ids)
<1> DEFINE p == local[d]
           ids == Subtree(p.nodes, id)
           tomb(j) == [v |-> BumpVector(p.nodes[j].v, d, seq[d] + 1), at |-> Stamp(d)]
           ts == [j \in Ids |-> IF j \in ids THEN tomb(j) ELSE p.tombs[j]]
           q == [p EXCEPT !.tombs = ts]
<1>1. p \in Profiles /\ p.nodes[id] # NoNode
  BY DEF Shape, StoreOK, DeleteTombstones, Present
<1>2. ids \subseteq Ids /\ \A j \in ids : p.nodes[j] # NoNode
  <2> HIDE DEF p
  <2> QED BY <1>1, SubtreePresent
<1>3. \A j \in ids : tomb(j) \in Tombs
  <2>1. \A j \in ids : p.nodes[j].v \in Vectors
    <3> HIDE DEF p, ids
    <3> QED BY <1>1, <1>2, ProfileParts
  <2> HIDE DEF p, ids
  <2> QED BY <2>1, StampShape DEF Tombs
<1>4. ts \in TombMaps
  <2>1. p.tombs \in TombMaps
    BY <1>1, ProfileParts
  <2> HIDE DEF p, ids, tomb
  <2> QED BY <1>3, <2>1 DEF TombMaps
<1>5. q \in Profiles /\ q.nodes = p.nodes /\ q.tombs = ts /\ q.horizon = p.horizon
  <2> HIDE DEF p, ts
  <2> QED BY <1>1, <1>4 DEF Profiles, TombMaps
<1>6. local' = [local EXCEPT ![d] = q]
  BY Zenon DEF DeleteTombstones
<1>7. OnlyLocal(d, q)
  <2> HIDE DEF q
  <2> QED BY <1>5, <1>6, LocalReplaced DEF Shape
<1>8. /\ deleting' = [deleting EXCEPT ![d] = [ids |-> ids, nodes |-> p.nodes]]
      /\ gone' = gone \cup ids
      /\ seq' = [seq EXCEPT ![d] = @ + 1] /\ writes' = writes + 1 /\ Touch(d)
  BY DEF DeleteTombstones
<1>9. \A j \in Ids : ts[j] = IF j \in ids THEN tomb(j) ELSE p.tombs[j]
  OBVIOUS
<1>10. \A j \in ids : tomb(j).v = BumpVector(p.nodes[j].v, d, seq[d] + 1)
  OBVIOUS
<1> HIDE DEF ids, tomb, ts, q
<1>11. KeepsCycles /\ CyclesOK' /\ converged' \in [Devices -> BOOLEAN]
  BY <1>8, TouchKeeps
<1>12. TombsStep(d, ids)
  BY <1>1, <1>2, <1>5, <1>7, <1>8, <1>9, <1>10, <1>11 DEF TombsStep, OnlyLocal, Present
<1> QED BY <1>2, <1>12

\* What the second write of a deletion leaves.
NodesStep(d) ==
  /\ deleting[d] # NotDeleting
  /\ local' \in [Devices -> Profiles]
  /\ \A e \in Devices : e # d => local'[e] = local[e]
  /\ \A j \in Ids : local'[d].nodes[j] = IF j \in deleting[d].ids THEN NoNode ELSE deleting[d].nodes[j]
  /\ local'[d].tombs = local[d].tombs
  /\ local'[d].horizon = [local[d].horizon EXCEPT ![d] = MaxOf(local[d].horizon[d], seq[d])]
  /\ deleting' = [deleting EXCEPT ![d] = NotDeleting]
  /\ KeepsCycles /\ CyclesOK'
  /\ converged' \in [Devices -> BOOLEAN]

LEMMA DeleteNodesStep ==
  ASSUME Shape, NEW d \in Devices, DeleteNodes(d)
  PROVE  NodesStep(d)
<1> DEFINE p == local[d]
           left == [j \in Ids |-> IF j \in deleting[d].ids THEN NoNode ELSE deleting[d].nodes[j]]
           h == [p.horizon EXCEPT ![d] = MaxOf(p.horizon[d], seq[d])]
           q == [p EXCEPT !.nodes = left, !.horizon = h]
<1>1. p \in Profiles /\ deleting[d] \in Deletions
  BY DEF Shape, StoreOK
<1>2. left \in NodeMaps
  BY <1>1 DEF Deletions, NodeMaps
<1>3. h \in Vectors
  <2>1. p.horizon \in Vectors
    BY <1>1, ProfileParts
  <2>2. p.horizon[d] \in Nat /\ seq[d] \in Nat
    BY <2>1, StampShape DEF Vectors
  <2>3. MaxOf(p.horizon[d], seq[d]) \in Nat
    BY <2>2, MaxOfBounds
  <2> HIDE DEF p
  <2> QED BY <2>1, <2>3, StampShape
<1>4. q \in Profiles /\ q.nodes = left /\ q.tombs = p.tombs /\ q.horizon = h
  <2> HIDE DEF p, left, h
  <2> QED BY <1>1, <1>2, <1>3 DEF Profiles, NodeMaps
<1>5. local' = [local EXCEPT ![d] = q]
  <2>1. local' = [local EXCEPT ![d] = [p EXCEPT !.nodes = left, !.horizon[d] = MaxOf(p.horizon[d], seq[d])]]
    BY Zenon DEF DeleteNodes
  <2> HIDE DEF p, left
  <2>2. q = [p EXCEPT !.nodes = left, !.horizon[d] = MaxOf(p.horizon[d], seq[d])]
    BY <1>1 DEF Profiles
  <2> QED BY <2>1, <2>2
<1>6. OnlyLocal(d, q)
  <2> HIDE DEF q
  <2> QED BY <1>4, <1>5, LocalReplaced DEF Shape
<1>7. deleting[d] # NotDeleting /\ deleting' = [deleting EXCEPT ![d] = NotDeleting] /\ Touch(d)
  BY DEF DeleteNodes
<1>8. \A j \in Ids : left[j] = IF j \in deleting[d].ids THEN NoNode ELSE deleting[d].nodes[j]
  OBVIOUS
<1>9. KeepsCycles /\ CyclesOK' /\ converged' \in [Devices -> BOOLEAN]
  BY <1>7, TouchKeeps
<1> HIDE DEF left, q
<1> QED BY <1>4, <1>6, <1>7, <1>8, <1>9 DEF NodesStep, OnlyLocal

\* One cycle moves to rec, and the others hold what they held.
CyclesMove(d, l, rec) ==
  \A e \in Devices, k \in Lanes :
    IF e = d /\ k = l THEN cycle'[e][k] = rec
    ELSE /\ cycle'[e][k].pc = cycle[e][k].pc /\ cycle'[e][k].raw = cycle[e][k].raw
         /\ cycle'[e][k].fresh = cycle[e][k].fresh /\ cycle'[e][k].nodes = cycle[e][k].nodes
         /\ cycle'[e][k].merged = cycle[e][k].merged

\* What the two writes of applyBundle leave.
ApplyStep(d, l, q, rec) ==
  /\ OnlyLocal(d, q)
  /\ rec \in Cycles
  /\ CyclesOK' /\ CyclesMove(d, l, rec)

\* The cycle that moves while a local write lowers its fellows' flags.
LEMMA TouchedStep ==
  ASSUME CyclesOK, NEW d \in Devices, NEW l \in Lanes, NEW rec \in Cycles,
         cycle' = [Touched(d, cycle) EXCEPT ![d][l] = rec]
  PROVE  CyclesOK' /\ CyclesMove(d, l, rec)
<1> DEFINE t == Touched(d, cycle)
           f == [t[d] EXCEPT ![l] = rec]
<1>1. /\ t \in [Devices -> [Lanes -> Cycles]]
      /\ \A e \in Devices, k \in Lanes :
           /\ t[e][k].pc = cycle[e][k].pc /\ t[e][k].raw = cycle[e][k].raw
           /\ t[e][k].fresh = cycle[e][k].fresh /\ t[e][k].nodes = cycle[e][k].nodes
           /\ t[e][k].merged = cycle[e][k].merged
  BY TouchedShape
<1> HIDE DEF t
<1>2. f \in [Lanes -> Cycles] /\ f[l] = rec /\ \A k \in Lanes : k # l => f[k] = t[d][k]
  BY <1>1
<1>3. cycle' = [t EXCEPT ![d] = f]
  BY DEF t
<1> HIDE DEF f
<1>4. CyclesOK'
  BY <1>1, <1>2, <1>3 DEF CyclesOK
<1>5. \A e \in Devices : cycle'[e] = IF e = d THEN f ELSE t[e]
  BY <1>1, <1>3
<1> QED BY <1>1, <1>2, <1>4, <1>5 DEF CyclesMove

LEMMA ApplyNodesStep ==
  ASSUME Shape, NEW d \in Devices, NEW l \in Lanes, ApplyNodes(d, l)
  PROVE  \E q \in Profiles, rec \in Cycles :
           LET c == cycle[d][l]
           IN  /\ ApplyStep(d, l, q, rec)
               /\ c.pc = "apply" /\ rec.pc = "applying"
               /\ rec.raw = c.raw /\ rec.fresh = c.fresh /\ rec.nodes = c.nodes /\ rec.merged = c.merged
               /\ q.nodes = c.merged.nodes /\ q.tombs = local[d].tombs /\ q.horizon = local[d].horizon
               /\ converged' \in [Devices -> BOOLEAN]
<1> DEFINE c == cycle[d][l]
           q == [local[d] EXCEPT !.nodes = c.merged.nodes]
           rec == [c EXCEPT !.pc = "applying"]
<1>1. c \in Cycles /\ local[d] \in Profiles /\ CyclesOK /\ StoreOK
  BY DEF Shape, CyclesOK, StoreOK
<1>2. c.merged \in Profiles
  BY <1>1 DEF Cycles
<1>3. c.merged.nodes \in NodeMaps
  <2> HIDE DEF c
  <2> QED BY <1>2, ProfileParts
<1>4. q \in Profiles /\ q.nodes = c.merged.nodes /\ q.tombs = local[d].tombs /\ q.horizon = local[d].horizon
  <2> HIDE DEF c
  <2> QED BY <1>1, <1>3 DEF Profiles, NodeMaps
<1>5. rec \in Cycles /\ rec.pc = "applying" /\ rec.raw = c.raw /\ rec.fresh = c.fresh /\ rec.nodes = c.nodes
      /\ rec.merged = c.merged
  <2> HIDE DEF c
  <2> QED BY <1>1 DEF Cycles
<1>6. /\ c.pc = "apply" /\ local' = [local EXCEPT ![d] = q]
      /\ cycle' = [Touched(d, cycle) EXCEPT ![d][l] = rec]
      /\ converged' = [converged EXCEPT ![d] = FALSE]
  BY Zenon DEF ApplyNodes
<1>7. converged' \in [Devices -> BOOLEAN]
  BY <1>6 DEF Shape, VaultOK
<1> HIDE DEF q, rec
<1>8. OnlyLocal(d, q)
  BY <1>1, <1>4, <1>6, LocalReplaced
<1>9. ApplyStep(d, l, q, rec)
  <2>1. CyclesOK' /\ CyclesMove(d, l, rec)
    BY <1>1, <1>5, <1>6, TouchedStep, Zenon
  <2> QED BY <1>5, <1>8, <2>1 DEF ApplyStep
<1> QED BY <1>4, <1>5, <1>6, <1>7, <1>9

LEMMA ApplyRestStep ==
  ASSUME Shape, NEW d \in Devices, NEW l \in Lanes, ApplyRest(d, l)
  PROVE  \E q \in Profiles, rec \in Cycles :
           LET c == cycle[d][l]
           IN  /\ ApplyStep(d, l, q, rec)
               /\ c.pc = "applying"
               /\ rec = NoCycle \/ (/\ rec.pc = "push" /\ rec.raw = c.raw /\ rec.fresh = c.fresh
                                    /\ rec.nodes = c.nodes /\ rec.merged = c.merged)
               /\ q.nodes = local[d].nodes /\ q.tombs = c.merged.tombs /\ q.horizon = c.merged.horizon
<1> DEFINE c == cycle[d][l]
           q == [local[d] EXCEPT !.tombs = c.merged.tombs, !.horizon = c.merged.horizon]
           sent == [c EXCEPT !.pc = "push", !.untouched = FALSE]
           rec == IF c.push THEN sent ELSE NoCycle
<1>1. c \in Cycles /\ local[d] \in Profiles /\ CyclesOK /\ StoreOK
  BY DEF Shape, CyclesOK, StoreOK
<1>2. c.merged \in Profiles
  BY <1>1 DEF Cycles
<1>3. c.merged.tombs \in TombMaps /\ c.merged.horizon \in Vectors
  <2> HIDE DEF c
  <2> QED BY <1>2, ProfileParts
<1>4. q \in Profiles /\ q.nodes = local[d].nodes /\ q.tombs = c.merged.tombs /\ q.horizon = c.merged.horizon
  <2> HIDE DEF c
  <2> QED BY <1>1, <1>3 DEF Profiles, TombMaps
<1>5. sent \in Cycles /\ sent.pc = "push" /\ sent.raw = c.raw /\ sent.fresh = c.fresh /\ sent.nodes = c.nodes
      /\ sent.merged = c.merged
  <2> HIDE DEF c
  <2> QED BY <1>1 DEF Cycles
<1>6. /\ c.pc = "applying" /\ local' = [local EXCEPT ![d] = q]
      /\ cycle' = [Touched(d, cycle) EXCEPT ![d][l] = rec]
  BY Zenon DEF ApplyRest
<1> HIDE DEF q, sent, c
<1>7. rec \in Cycles /\ rec \in {sent, NoCycle}
  BY <1>5, EmptyShape
<1> HIDE DEF rec
<1>8. OnlyLocal(d, q)
  BY <1>1, <1>4, <1>6, LocalReplaced
<1>9. ApplyStep(d, l, q, rec)
  <2>1. CyclesOK' /\ CyclesMove(d, l, rec)
    BY <1>1, <1>6, <1>7, TouchedStep, Zenon
  <2> QED BY <1>7, <1>8, <2>1 DEF ApplyStep
<1> QED BY <1>4, <1>5, <1>6, <1>7, <1>9 DEF c

-----------------------------------------------------------------------------
(* What the steps of a cycle do to it.                                     *)

\* A cycle after a step of its own: its record has the cycle's shape and no other one moved.
CycleStep(d, l, rec) == rec \in Cycles /\ CyclesOK' /\ OnlyCycle(d, l, rec)

\* What a step of a cycle leaves alone in it.
SameReading(rec, c) == rec.raw = c.raw /\ rec.fresh = c.fresh

\* What the merge of a cycle starts from and makes.
Snapshot(d, l) == [local[d] EXCEPT !.nodes = cycle[d][l].nodes]
Merged(d, l) == MergeProfiles(Snapshot(d, l), cycle[d][l].raw, Stamp(d))

LEMMA EndCycleStep ==
  ASSUME CyclesOK, NEW d \in Devices, NEW l \in Lanes, EndCycle(d, l)
  PROVE  CycleStep(d, l, NoCycle)
BY EmptyShape, CycleReplaced DEF EndCycle, CycleStep

LEMMA ReadVaultStep ==
  ASSUME Shape, NEW d \in Devices, NEW l \in Lanes, ReadVault(d, l)
  PROVE  \E rec \in Cycles :
           /\ CycleStep(d, l, rec) /\ rec.pc = "read" /\ rec.raw = remote /\ rec.fresh = TRUE
           /\ rec.nodes = EmptyProfile.nodes /\ rec.merged = EmptyProfile
<1> DEFINE rec == [NoCycle EXCEPT !.pc = "read", !.raw = remote, !.found = exists, !.fresh = TRUE]
<1>1. remote \in Profiles /\ exists \in BOOLEAN /\ CyclesOK
  BY DEF Shape, VaultOK
<1>2. /\ rec \in Cycles /\ rec.pc = "read" /\ rec.raw = remote /\ rec.fresh = TRUE
      /\ rec.nodes = EmptyProfile.nodes /\ rec.merged = EmptyProfile
  BY <1>1, EmptyShape DEF Cycles, NoCycle
<1>3. cycle' = [cycle EXCEPT ![d][l] = rec]
  BY DEF ReadVault, Step
<1> HIDE DEF rec
<1> QED BY <1>1, <1>2, <1>3, CycleReplaced DEF CycleStep

LEMMA SnapshotNodesStep ==
  ASSUME Shape, NEW d \in Devices, NEW l \in Lanes, SnapshotNodes(d, l)
  PROVE  \E rec \in Cycles :
           /\ CycleStep(d, l, rec) /\ cycle[d][l].pc = "read" /\ rec.pc = "snapshot"
           /\ SameReading(rec, cycle[d][l])
           /\ rec.nodes = local[d].nodes /\ rec.merged = cycle[d][l].merged
<1> DEFINE c == cycle[d][l]
           rec == [c EXCEPT !.pc = "snapshot", !.nodes = local[d].nodes, !.untouched = TRUE]
<1>1. c \in Cycles /\ CyclesOK /\ local[d].nodes \in NodeMaps
  BY ProfileParts DEF Shape, CyclesOK, StoreOK
<1>2. /\ rec \in Cycles /\ rec.pc = "snapshot" /\ rec.raw = c.raw /\ rec.fresh = c.fresh
      /\ rec.nodes = local[d].nodes /\ rec.merged = c.merged
  <2> HIDE DEF c
  <2> QED BY <1>1 DEF Cycles
<1>3. cycle' = [cycle EXCEPT ![d][l] = rec] /\ c.pc = "read"
  BY DEF SnapshotNodes, Step
<1> HIDE DEF rec
<1>4. CyclesOK' /\ OnlyCycle(d, l, rec)
  BY <1>1, <1>2, <1>3, CycleReplaced
<1> QED BY <1>2, <1>3, <1>4 DEF CycleStep, SameReading

LEMMA GitResetStep ==
  ASSUME Shape, NEW d \in Devices, NEW l \in Lanes, GitReset(d, l)
  PROVE  \E rec \in Cycles :
           /\ CycleStep(d, l, rec) /\ cycle[d][l].pc = "push" /\ rec.pc = "pushing"
           /\ SameReading(rec, cycle[d][l])
           /\ rec.nodes = cycle[d][l].nodes /\ rec.merged = cycle[d][l].merged
<1> DEFINE c == cycle[d][l]
           rec == [c EXCEPT !.pc = "pushing", !.tip = TRUE]
<1>1. c \in Cycles /\ CyclesOK
  BY DEF Shape, CyclesOK
<1>2. /\ rec \in Cycles /\ rec.pc = "pushing" /\ rec.raw = c.raw /\ rec.fresh = c.fresh
      /\ rec.nodes = c.nodes /\ rec.merged = c.merged
  <2> HIDE DEF c
  <2> QED BY <1>1 DEF Cycles
<1>3. cycle' = [cycle EXCEPT ![d][l] = rec] /\ c.pc = "push"
  BY DEF GitReset, Step
<1> HIDE DEF rec
<1>4. CyclesOK' /\ OnlyCycle(d, l, rec)
  BY <1>1, <1>2, <1>3, CycleReplaced
<1> QED BY <1>2, <1>3, <1>4 DEF CycleStep, SameReading

LEMMA MergedShape ==
  ASSUME Shape, NEW d \in Devices, NEW l \in Lanes
  PROVE  /\ Snapshot(d, l) \in Profiles /\ cycle[d][l].raw \in Profiles /\ Merged(d, l) \in Profiles
         /\ Snapshot(d, l).nodes = cycle[d][l].nodes /\ Snapshot(d, l).tombs = local[d].tombs
         /\ Snapshot(d, l).horizon = local[d].horizon
<1> DEFINE c == cycle[d][l]
           p == local[d]
<1>1. c \in Cycles /\ p \in Profiles
  BY DEF Shape, CyclesOK, StoreOK
<1>2. c.raw \in Profiles /\ c.nodes \in NodeMaps
  <2> HIDE DEF c
  <2> QED BY <1>1 DEF Cycles
<1>3. /\ [p EXCEPT !.nodes = c.nodes] \in Profiles
      /\ [p EXCEPT !.nodes = c.nodes].nodes = c.nodes
      /\ [p EXCEPT !.nodes = c.nodes].tombs = p.tombs
      /\ [p EXCEPT !.nodes = c.nodes].horizon = p.horizon
  <2> HIDE DEF c, p
  <2> QED BY <1>1, <1>2 DEF Profiles, NodeMaps
<1>4. Snapshot(d, l) = [p EXCEPT !.nodes = c.nodes]
  BY DEF Snapshot
<1> HIDE DEF c, p
<1>5. Snapshot(d, l) \in Profiles /\ Snapshot(d, l).nodes = c.nodes /\ Snapshot(d, l).tombs = p.tombs
      /\ Snapshot(d, l).horizon = p.horizon
  BY <1>3, <1>4
<1>6. MergeProfiles(Snapshot(d, l), c.raw, Stamp(d)) \in Profiles
  BY <1>2, <1>5, MergeIsProfile, StampShape
<1> QED BY <1>2, <1>5, <1>6 DEF Merged, c, p

LEMMA MergeSnapshotStep ==
  ASSUME Shape, NEW d \in Devices, NEW l \in Lanes, MergeSnapshot(d, l)
  PROVE  /\ cycle[d][l].pc = "snapshot" /\ converged' \in [Devices -> BOOLEAN]
         /\ \E rec \in Cycles :
              /\ CycleStep(d, l, rec)
              /\ rec = NoCycle \/ (/\ rec.pc \in {"apply", "push"}
                                   /\ SameReading(rec, cycle[d][l])
                                   /\ rec.nodes = cycle[d][l].nodes /\ rec.merged = Merged(d, l))
              /\ rec.pc = "push" => SameProfile(Merged(d, l), Snapshot(d, l))
<1> DEFINE c == cycle[d][l]
           merged == Merged(d, l)
           apply == ~SameProfile(merged, Snapshot(d, l))
           push == ~c.found \/ ~SameProfile(merged, c.raw)
           rec(pc) == [c EXCEPT !.pc = pc, !.merged = merged, !.push = push]
<1>1. c \in Cycles /\ CyclesOK /\ converged \in [Devices -> BOOLEAN]
  BY DEF Shape, CyclesOK, VaultOK
<1>2. merged \in Profiles
  BY MergedShape
<1>3. push \in BOOLEAN
  BY DEF SameProfile
<1>4. ASSUME NEW pc \in {"apply", "push"}
      PROVE  /\ rec(pc) \in Cycles /\ rec(pc).pc = pc /\ rec(pc).raw = c.raw /\ rec(pc).fresh = c.fresh
             /\ rec(pc).nodes = c.nodes /\ rec(pc).merged = merged
  <2> HIDE DEF c, merged, push
  <2> QED BY <1>1, <1>2, <1>3 DEF Cycles
<1>5. /\ c.pc = "snapshot"
      /\ \/ apply /\ Step(d, l, rec("apply")) /\ converged' = [converged EXCEPT ![d] = FALSE]
         \/ ~apply /\ push /\ Step(d, l, rec("push")) /\ converged' = [converged EXCEPT ![d] = FALSE]
         \/ ~apply /\ ~push /\ EndCycle(d, l)
            /\ converged' = [converged EXCEPT ![d] = c.fresh /\ c.untouched]
  BY Zenon DEF MergeSnapshot, Merged, Snapshot
<1>6. (c.fresh /\ c.untouched) \in BOOLEAN
  OBVIOUS
<1>7. converged' \in [Devices -> BOOLEAN]
  <2> HIDE DEF c, rec, apply, push
  <2> QED BY <1>1, <1>5, <1>6
<1> HIDE DEF merged, rec, push
<1>8. CASE apply /\ Step(d, l, rec("apply"))
  <2>1. CycleStep(d, l, rec("apply"))
    BY <1>1, <1>4, <1>8, CycleReplaced DEF Step, CycleStep
  <2> HIDE DEF c, apply
  <2>2. rec("apply") \in Cycles /\ rec("apply").pc = "apply" /\ SameReading(rec("apply"), c)
        /\ rec("apply").nodes = c.nodes /\ rec("apply").merged = merged
    BY <1>4 DEF SameReading
  <2> QED BY <1>5, <1>7, <2>1, <2>2 DEF c, merged
<1>9. CASE ~apply /\ Step(d, l, rec("push"))
  <2>1. CycleStep(d, l, rec("push"))
    BY <1>1, <1>4, <1>9, CycleReplaced DEF Step, CycleStep
  <2>2. SameProfile(merged, Snapshot(d, l))
    BY <1>9
  <2> HIDE DEF c, apply
  <2>3. rec("push") \in Cycles /\ rec("push").pc = "push" /\ SameReading(rec("push"), c)
        /\ rec("push").nodes = c.nodes /\ rec("push").merged = merged
    BY <1>4 DEF SameReading
  <2> QED BY <1>5, <1>7, <2>1, <2>2, <2>3 DEF c, merged
<1>10. CASE EndCycle(d, l)
  <2>1. CycleStep(d, l, NoCycle) /\ NoCycle \in Cycles /\ NoCycle.pc = "idle"
    BY <1>1, <1>10, EndCycleStep, EmptyShape
  <2> HIDE DEF c, apply
  <2> QED BY <1>5, <1>7, <2>1 DEF c
<1> QED BY <1>5, <1>8, <1>9, <1>10

\* What a write that reached the vault leaves.
OverwriteStep(d, l) ==
  /\ remote' = cycle[d][l].merged /\ exists' = TRUE
  /\ CyclesOK'
  /\ \A e \in Devices, k \in Lanes :
       IF e = d /\ k = l THEN cycle'[e][k] = NoCycle
       ELSE /\ cycle'[e][k].pc = cycle[e][k].pc /\ cycle'[e][k].raw = cycle[e][k].raw
            /\ cycle'[e][k].fresh = FALSE
            /\ cycle'[e][k].nodes = cycle[e][k].nodes /\ cycle'[e][k].merged = cycle[e][k].merged
  /\ converged' \in [Devices -> BOOLEAN]

LEMMA OverwriteSteps ==
  ASSUME Shape, NEW d \in Devices, NEW l \in Lanes, NEW after \in {"current", "stale"},
         Overwrite(d, l, after)
  PROVE  /\ OverwriteStep(d, l)
         /\ etag' \in [Devices -> {"unknown", "current", "stale", "reread"}]
         /\ \A e \in Devices :
              etag'[e] = IF e = d THEN after ELSE IF etag[e] = "current" THEN "stale" ELSE etag[e]
<1> DEFINE down(c) == [c EXCEPT !.fresh = FALSE, !.tip = FALSE]
           new(e, k) == IF <<e, k>> = <<d, l>> THEN NoCycle ELSE down(cycle[e][k])
<1>1. \A e \in Devices, k \in Lanes : cycle[e][k] \in Cycles
  BY DEF Shape, CyclesOK
<1>2. ASSUME NEW c \in Cycles
      PROVE  /\ down(c) \in Cycles /\ down(c).pc = c.pc /\ down(c).raw = c.raw /\ down(c).fresh = FALSE
             /\ down(c).nodes = c.nodes /\ down(c).merged = c.merged
  BY DEF Cycles
<1>3. cycle' = [e \in Devices |-> [k \in Lanes |-> new(e, k)]]
  BY DEF Overwrite
<1>4. /\ remote' = cycle[d][l].merged /\ exists' = TRUE
      /\ converged' = [e \in Devices |-> FALSE]
      /\ etag' = [e \in Devices |-> IF e = d THEN after ELSE IF etag[e] = "current" THEN "stale" ELSE etag[e]]
  BY DEF Overwrite
<1> HIDE DEF down
<1>5. \A e \in Devices, k \in Lanes : new(e, k) \in Cycles
  BY <1>1, <1>2, EmptyShape
<1>6. CyclesOK'
  <2> HIDE DEF new
  <2> QED BY <1>3, <1>5 DEF CyclesOK
<1>7. \A e \in Devices, k \in Lanes : cycle'[e][k] = new(e, k)
  <2> HIDE DEF new
  <2> QED BY <1>3
<1>8. etag \in [Devices -> {"unknown", "current", "stale", "reread"}]
  BY DEF Shape, VaultOK
<1>9. ASSUME NEW e \in Devices, NEW k \in Lanes
      PROVE  IF e = d /\ k = l THEN cycle'[e][k] = NoCycle
             ELSE /\ cycle'[e][k].pc = cycle[e][k].pc /\ cycle'[e][k].raw = cycle[e][k].raw
                  /\ cycle'[e][k].fresh = FALSE
                  /\ cycle'[e][k].nodes = cycle[e][k].nodes /\ cycle'[e][k].merged = cycle[e][k].merged
  <2>1. CASE e = d /\ k = l
    BY <1>7, <2>1
  <2>2. CASE ~(e = d /\ k = l)
    <3>1. cycle'[e][k] = down(cycle[e][k]) /\ cycle[e][k] \in Cycles
      BY <1>1, <1>7, <2>2
    <3> QED BY <1>2, <2>2, <3>1
  <2> QED BY <2>1, <2>2
<1>10. OverwriteStep(d, l)
  BY <1>4, <1>6, <1>9 DEF OverwriteStep
<1> QED BY <1>4, <1>8, <1>10

LEMMA RestoreStep ==
  ASSUME Shape, NEW d \in Devices, Restore(d)
  PROVE  /\ OnlyLocal(d, backup) /\ gone' = gone \cup (Present(local[d]) \ Present(backup))
         /\ KeepsCycles /\ CyclesOK' /\ converged' \in [Devices -> BOOLEAN]
<1>1. local' = [local EXCEPT ![d] = backup] /\ Touch(d)
      /\ gone' = gone \cup (Present(local[d]) \ Present(backup))
  BY DEF Restore
<1>2. StoreOK /\ backup \in Profiles
  BY DEF Shape, VaultOK
<1>3. OnlyLocal(d, backup)
  BY <1>1, <1>2, LocalReplaced
<1> QED BY <1>1, <1>3, TouchKeeps

LEMMA CrashStep ==
  ASSUME Shape, NEW d \in Devices, Crash(d)
  PROVE  /\ CyclesOK'
         /\ \A e \in Devices, k \in Lanes : cycle'[e][k] = IF e = d THEN NoCycle ELSE cycle[e][k]
         /\ \A e \in Devices : deleting'[e] = IF e = d THEN NotDeleting ELSE deleting[e]
         /\ deleting' \in [Devices -> Deletions]
         /\ etag' = [etag EXCEPT ![d] = "unknown"] /\ converged' = [converged EXCEPT ![d] = FALSE]
<1>1. /\ cycle' = [cycle EXCEPT ![d] = [l \in Lanes |-> NoCycle]]
      /\ deleting' = [deleting EXCEPT ![d] = NotDeleting]
      /\ etag' = [etag EXCEPT ![d] = "unknown"] /\ converged' = [converged EXCEPT ![d] = FALSE]
  BY DEF Crash
<1>2. CyclesOK /\ deleting \in [Devices -> Deletions]
  BY DEF Shape, StoreOK
<1>3. [l \in Lanes |-> NoCycle] \in [Lanes -> Cycles] /\ NotDeleting \in Deletions
  BY EmptyShape
<1>4. CyclesOK' /\ \A e \in Devices : cycle'[e] = IF e = d THEN [l \in Lanes |-> NoCycle] ELSE cycle[e]
  BY <1>1, <1>2, <1>3 DEF CyclesOK
<1>5. \A e \in Devices, k \in Lanes : cycle'[e][k] = IF e = d THEN NoCycle ELSE cycle[e][k]
  BY <1>4
<1> QED BY <1>1, <1>2, <1>3, <1>4, <1>5

-----------------------------------------------------------------------------
(* Type correctness.                                                       *)

\* A write counts itself and takes one sequence number.
LEMMA CountsKept ==
  ASSUME CountsOK, NEW d \in Devices, writes < MaxWrites, UNCHANGED <<setup, now>>,
         seq' = [seq EXCEPT ![d] = @ + 1], writes' = writes + 1
  PROVE  CountsOK'
<1>1. MaxWrites \in Nat /\ MaxWrites' = MaxWrites /\ MaxTime' = MaxTime
  BY SetupsAssumption DEF CountsOK, MaxWrites, MaxTime
<1>2. writes' \in 0..MaxWrites
  BY <1>1 DEF CountsOK
<1>3. seq' \in [Devices -> Nat] /\ \A e \in Devices : seq'[e] <= writes'
  BY <1>1 DEF CountsOK
<1> QED BY <1>1, <1>2, <1>3 DEF CountsOK

LEMMA PutNodeShape ==
  ASSUME Shape, NEW d \in Devices, NEW id \in Ids, NEW v \in Vectors, PutNodeStep(d, id, v),
         writes < MaxWrites, UNCHANGED <<setup, deleting, etag, remote, exists, backup, now, gone>>,
         made' \in [Ids -> Devices \cup {0}]
  PROVE  Shape'
<1>1. StoreOK' /\ CyclesOK' /\ VaultOK'
  BY DEF Shape, StoreOK, VaultOK, PutNodeStep
<1>2. CountsOK'
  BY CountsKept DEF Shape, PutNodeStep
<1>3. top' \in [Ids -> Vectors]
  <2>1. top \in [Ids -> Vectors] /\ local'[d].nodes[id].v \in Vectors
    BY DEF Shape, HistoryOK, PutNodeStep, Nodes
  <2>2. MergeVectors(top[id], local'[d].nodes[id].v) \in Vectors
    BY <2>1, MergeVectorsIsJoin
  <2> QED BY <2>1, <2>2 DEF PutNodeStep
<1>4. HistoryOK'
  BY <1>3 DEF Shape, HistoryOK
<1> QED BY <1>1, <1>2, <1>4 DEF Shape

LEMMA AddNodeStep ==
  ASSUME Shape, NEW d \in Devices, NEW id \in Ids, AddNode(d, id)
  PROVE  PutNodeStep(d, id, EmptyVector) /\ writes < MaxWrites
<1>1. PICK parent \in Parents(d, id) : PutNode(d, id, EmptyVector, parent)
  BY DEF AddNode
<1>2. parent \in Ids \cup {Root}
  BY DEF Parents, Present
<1> QED BY <1>1, <1>2, PutNodeSteps, EmptyShape DEF AddNode, MayWrite

LEMMA UpdateNodeStep ==
  ASSUME Shape, NEW d \in Devices, NEW id \in Ids, UpdateNode(d, id)
  PROVE  /\ local[d].nodes[id] # NoNode /\ local[d].nodes[id] \in Nodes /\ local[d].nodes[id].v \in Vectors
         /\ PutNodeStep(d, id, local[d].nodes[id].v) /\ writes < MaxWrites
<1> DEFINE p == local[d]
<1>1. p \in Profiles /\ p.nodes[id] # NoNode
  BY DEF Shape, StoreOK, UpdateNode, Present
<1>2. p.nodes[id] \in Nodes /\ p.nodes[id].v \in Vectors
  <2> HIDE DEF p
  <2> QED BY <1>1, ProfileParts
<1>3. PICK parent \in {p.nodes[id].parent} \cup (Parents(d, id) \ Subtree(p.nodes, id)) :
        PutNode(d, id, p.nodes[id].v, parent)
  BY DEF UpdateNode
<1>4. parent \in Ids \cup {Root}
  BY <1>2 DEF Parents, Present, Nodes
<1> QED BY <1>1, <1>2, <1>3, <1>4, PutNodeSteps DEF UpdateNode, MayWrite

\* A cycle's own step changes nothing else.
LEMMA CycleShape ==
  ASSUME Shape, UNCHANGED <<setup, store, remote, exists, backup, now, writes, history>>, CyclesOK',
         etag' \in [Devices -> {"unknown", "current", "stale", "reread"}],
         converged' \in [Devices -> BOOLEAN]
  PROVE  Shape'
<1>1. StoreOK' /\ VaultOK' /\ HistoryOK'
  BY DEF Shape, StoreOK, VaultOK, HistoryOK, store, history
<1>2. CountsOK'
  BY DEF Shape, CountsOK, store, MaxWrites, MaxTime
<1> QED BY <1>1, <1>2 DEF Shape

LEMMA InitShape == Init => Shape
<1> SUFFICES ASSUME Init PROVE Shape
  OBVIOUS
<1>1. StoreOK /\ CyclesOK /\ VaultOK /\ HistoryOK
  BY EmptyShape DEF Init, StoreOK, CyclesOK, VaultOK, HistoryOK
<1>2. CountsOK
  <2>1. setup \in Setups /\ MaxWrites \in Nat /\ MaxTime \in Nat \ {0}
    BY SetupsAssumption DEF Init, MaxWrites, MaxTime
  <2> QED BY <2>1 DEF Init, CountsOK
<1> QED BY <1>1, <1>2 DEF Shape

LEMMA NextShape == Shape /\ [Next]_vars => Shape'
<1> SUFFICES ASSUME Shape, [Next]_vars PROVE Shape'
  OBVIOUS
<1>0. /\ etag \in [Devices -> {"unknown", "current", "stale", "reread"}]
      /\ converged \in [Devices -> BOOLEAN] /\ CyclesOK /\ StoreOK
  BY DEF Shape, VaultOK
<1>1. ASSUME NEW d \in Devices, NEW id \in Ids, AddNode(d, id)
      PROVE  Shape'
  <2>1. PutNodeStep(d, id, EmptyVector) /\ writes < MaxWrites /\ EmptyVector \in Vectors
    BY <1>1, AddNodeStep, EmptyShape
  <2>2. UNCHANGED <<setup, deleting, etag, remote, exists, backup, now, gone>>
        /\ made' \in [Ids -> Devices \cup {0}]
    BY <1>1 DEF AddNode, Shape, HistoryOK
  <2> QED BY <2>1, <2>2, PutNodeShape
<1>2. ASSUME NEW d \in Devices, NEW id \in Ids, UpdateNode(d, id)
      PROVE  Shape'
  <2>1. PutNodeStep(d, id, local[d].nodes[id].v) /\ writes < MaxWrites /\ local[d].nodes[id].v \in Vectors
    BY <1>2, UpdateNodeStep
  <2>2. UNCHANGED <<setup, deleting, etag, remote, exists, backup, now, gone>>
        /\ made' \in [Ids -> Devices \cup {0}]
    BY <1>2 DEF UpdateNode, Shape, HistoryOK
  <2> QED BY <2>1, <2>2, PutNodeShape
<1>3. ASSUME NEW d \in Devices, NEW id \in Ids, DeleteTombstones(d, id)
      PROVE  Shape'
  <2>1. PICK ids \in SUBSET Ids : TombsStep(d, ids)
    BY <1>3, DeleteTombstonesStep
  <2>2. UNCHANGED <<setup, etag, remote, exists, backup, now, made, top>> /\ writes < MaxWrites
    BY <1>3 DEF DeleteTombstones, MayWrite
  <2>3. [ids |-> ids, nodes |-> local[d].nodes] \in Deletions
    BY <1>0, ProfileParts DEF Deletions, StoreOK
  <2>4. StoreOK' /\ VaultOK' /\ HistoryOK' /\ CyclesOK'
    BY <2>1, <2>2, <2>3 DEF Shape, StoreOK, VaultOK, HistoryOK, TombsStep
  <2>5. CountsOK'
    BY <2>1, <2>2, CountsKept DEF Shape, TombsStep
  <2> QED BY <2>4, <2>5 DEF Shape
<1>4. ASSUME NEW d \in Devices, Backup(d)
      PROVE  Shape'
  <2>1. backup' \in Profiles
    BY <1>0, <1>4 DEF Backup, StoreOK
  <2>2. StoreOK' /\ VaultOK' /\ HistoryOK' /\ CyclesOK' /\ CountsOK'
    BY <1>4, <2>1 DEF Shape, StoreOK, VaultOK, HistoryOK, CyclesOK, CountsOK, Backup, store, history,
                      MaxWrites, MaxTime
  <2> QED BY <2>2 DEF Shape
<1>5. ASSUME NEW d \in Devices, Restore(d)
      PROVE  Shape'
  <2>1. OnlyLocal(d, backup) /\ gone' = gone \cup (Present(local[d]) \ Present(backup))
        /\ CyclesOK' /\ converged' \in [Devices -> BOOLEAN]
    BY <1>5, RestoreStep
  <2>2. UNCHANGED <<setup, seq, deleting, etag, remote, exists, backup, now, writes, made, top>>
    BY <1>5 DEF Restore
  <2>3. StoreOK' /\ VaultOK' /\ HistoryOK'
    BY <2>1, <2>2 DEF Shape, StoreOK, VaultOK, HistoryOK, OnlyLocal, Present
  <2>4. CountsOK'
    BY <2>2 DEF Shape, CountsOK, MaxWrites, MaxTime
  <2> QED BY <2>1, <2>3, <2>4 DEF Shape
<1>6. ASSUME NEW d \in Devices, DeleteNodes(d)
      PROVE  Shape'
  <2>1. NodesStep(d)
    BY <1>6, DeleteNodesStep
  <2>2. UNCHANGED <<setup, seq, etag, remote, exists, backup, now, writes, made, gone, top>>
    BY <1>6 DEF DeleteNodes
  <2>3. StoreOK' /\ VaultOK' /\ HistoryOK'
    BY <2>1, <2>2, EmptyShape DEF Shape, StoreOK, VaultOK, HistoryOK, NodesStep
  <2>4. CountsOK'
    BY <2>2 DEF Shape, CountsOK, MaxWrites, MaxTime
  <2> QED BY <2>1, <2>3, <2>4 DEF Shape, NodesStep
<1>7. ASSUME NEW d \in Devices, Crash(d)
      PROVE  Shape'
  <2>1. /\ CyclesOK' /\ deleting' \in [Devices -> Deletions]
        /\ etag' = [etag EXCEPT ![d] = "unknown"] /\ converged' = [converged EXCEPT ![d] = FALSE]
    BY <1>7, CrashStep
  <2>2. UNCHANGED <<setup, local, seq, remote, exists, backup, now, writes, made, gone, top>>
    BY <1>7 DEF Crash, history
  <2>3. StoreOK' /\ VaultOK' /\ HistoryOK'
    BY <1>0, <2>1, <2>2 DEF Shape, StoreOK, VaultOK, HistoryOK
  <2>4. CountsOK'
    BY <2>2 DEF Shape, CountsOK, MaxWrites, MaxTime
  <2> QED BY <2>1, <2>3, <2>4 DEF Shape
<1>8. ASSUME NEW d \in Devices, NEW l \in Lanes, Cycle(d, l) \/ AnswerLost(d, l)
      PROVE  Shape'
  <2>1. CASE ReadVault(d, l)
    <3>1. CyclesOK'
      BY <2>1, ReadVaultStep DEF CycleStep
    <3> QED BY <1>0, <2>1, <3>1, CycleShape DEF ReadVault
  <2>2. CASE IdleCycle(d, l)
    <3>1. CyclesOK'
      BY <1>0, <2>2, EndCycleStep DEF CycleStep, IdleCycle
    <3> QED BY <1>0, <2>2, <3>1, CycleShape DEF IdleCycle
  <2>3. CASE SnapshotNodes(d, l)
    <3>1. CyclesOK'
      BY <2>3, SnapshotNodesStep DEF CycleStep
    <3> QED BY <1>0, <2>3, <3>1, CycleShape DEF SnapshotNodes
  <2>4. CASE MergeSnapshot(d, l)
    <3>1. CyclesOK' /\ converged' \in [Devices -> BOOLEAN]
      BY <2>4, MergeSnapshotStep DEF CycleStep
    <3>2. UNCHANGED <<setup, store, etag, remote, exists, backup, now, writes, history>>
      BY <2>4 DEF MergeSnapshot
    <3> QED BY <1>0, <3>1, <3>2, CycleShape
  <2>5. CASE ApplyNodes(d, l) \/ ApplyRest(d, l)
    <3>1. /\ local' \in [Devices -> Profiles] /\ CyclesOK' /\ converged' \in [Devices -> BOOLEAN]
          /\ UNCHANGED <<setup, seq, deleting, etag, remote, exists, backup, now, writes, history>>
      <4>1. CASE ApplyNodes(d, l)
        BY <4>1, ApplyNodesStep DEF ApplyStep, OnlyLocal, ApplyNodes
      <4>2. CASE ApplyRest(d, l)
        BY <1>0, <4>2, ApplyRestStep DEF ApplyStep, OnlyLocal, ApplyRest
      <4> QED BY <2>5, <4>1, <4>2
    <3>2. StoreOK' /\ VaultOK' /\ HistoryOK'
      BY <3>1 DEF Shape, StoreOK, VaultOK, HistoryOK, history
    <3>3. CountsOK'
      BY <3>1 DEF Shape, CountsOK, MaxWrites, MaxTime
    <3> QED BY <3>1, <3>2, <3>3 DEF Shape
  <2>6. CASE GitReset(d, l)
    <3>1. CyclesOK'
      BY <2>6, GitResetStep DEF CycleStep
    <3> QED BY <1>0, <2>6, <3>1, CycleShape DEF GitReset
  <2>7. CASE WriteVault(d, l) \/ AnswerLost(d, l)
    <3>1. PICK after \in {"current", "stale"} : Overwrite(d, l, after)
      BY <2>7 DEF WriteVault, AnswerLost
    <3>2. OverwriteStep(d, l) /\ etag' \in [Devices -> {"unknown", "current", "stale", "reread"}]
      BY <3>1, OverwriteSteps
    <3>3. UNCHANGED <<setup, store, backup, now, writes, history>>
      BY <2>7 DEF WriteVault, AnswerLost
    <3>4. remote' \in Profiles /\ exists' \in BOOLEAN
      BY <1>0, <3>2 DEF OverwriteStep, CyclesOK, Cycles
    <3>5. StoreOK' /\ VaultOK' /\ HistoryOK'
      BY <3>2, <3>3, <3>4 DEF Shape, StoreOK, VaultOK, HistoryOK, store, history, OverwriteStep
    <3>6. CountsOK'
      BY <3>3 DEF Shape, CountsOK, MaxWrites, MaxTime, store
    <3> QED BY <3>2, <3>5, <3>6 DEF Shape, OverwriteStep
  <2>8. CASE WriteRefused(d, l)
    <3>1. CyclesOK'
      BY <1>0, <2>8, EndCycleStep DEF CycleStep, WriteRefused
    <3>2. /\ UNCHANGED <<setup, store, converged, remote, exists, backup, now, writes, history>>
          /\ etag' = [etag EXCEPT ![d] = "reread"]
      BY <2>8 DEF WriteRefused
    <3> QED BY <1>0, <3>1, <3>2, CycleShape
  <2> QED BY <1>8, <2>1, <2>2, <2>3, <2>4, <2>5, <2>6, <2>7, <2>8 DEF Cycle
<1>9. ASSUME Tick
      PROVE  Shape'
  <2>1. UNCHANGED <<setup, store, cycle, etag, converged, remote, exists, backup, writes, history>>
        /\ now' = now + 1 /\ now < MaxTime
    BY <1>9 DEF Tick
  <2>2. StoreOK' /\ VaultOK' /\ HistoryOK' /\ CyclesOK'
    BY <2>1 DEF Shape, StoreOK, VaultOK, HistoryOK, CyclesOK, store, history
  <2>3. CountsOK'
    <3>1. setup \in Setups /\ setup.time \in Nat
      BY SetupsAssumption DEF Shape, CountsOK
    <3> QED BY <2>1, <3>1 DEF Shape, CountsOK, MaxWrites, MaxTime, store
  <2> QED BY <2>2, <2>3 DEF Shape
<1>10. ASSUME UNCHANGED vars
       PROVE  Shape'
  <2>1. StoreOK' /\ VaultOK' /\ HistoryOK' /\ CyclesOK'
    BY <1>10 DEF Shape, StoreOK, VaultOK, HistoryOK, CyclesOK, vars
  <2>2. CountsOK'
    BY <1>10 DEF Shape, CountsOK, MaxWrites, MaxTime, vars
  <2> QED BY <2>1, <2>2 DEF Shape
<1> QED
  BY <1>1, <1>2, <1>3, <1>4, <1>5, <1>6, <1>7, <1>8, <1>9, <1>10 DEF Next, Person

\* The state keeps its shape: every profile of every machine, cycle, backup and vault is a profile,
\* and no sequence number is handed out that no write took (VaultSync.TypeOK).
THEOREM TypeCorrect == Spec => []TypeOK
<1>1. Shape => TypeOK
  <2> SUFFICES ASSUME Shape PROVE TypeOK
    OBVIOUS
  <2>1. seq \in [Devices -> 0..MaxWrites]
    <3>1. setup \in Setups /\ MaxWrites \in Nat
      BY SetupsAssumption DEF Shape, CountsOK, MaxWrites
    <3>2. \A d \in Devices : seq[d] \in 0..MaxWrites
      BY <3>1 DEF Shape, CountsOK
    <3> QED BY <3>2 DEF Shape, CountsOK
  <2>2. \A d \in Devices : /\ deleting[d].ids \subseteq Ids
                           /\ \A l \in Lanes : cycle[d][l].pc \in {"idle", "read", "snapshot", "apply",
                                                               "applying", "push", "pushing"}
    BY DEF Shape, StoreOK, CyclesOK, Deletions, Cycles
  <2> QED BY <2>1, <2>2 DEF Shape, StoreOK, VaultOK, CountsOK, HistoryOK, TypeOK
<1>2. Spec => []Shape
  BY InitShape, NextShape, PTL DEF Spec
<1> QED BY <1>1, <1>2, PTL

-----------------------------------------------------------------------------
(* What a merge makes of two profiles.                                     *)

\* The vector of the node a merge keeps: one side's, or the join of both.
MergedFrom(v, a, b) ==
  \/ a # NoNode /\ v = a.v
  \/ b # NoNode /\ v = b.v
  \/ a # NoNode /\ b # NoNode /\ v = MergeVectors(a.v, b.v)

\* The same of a tombstone.
BuriedFrom(v, s, t) ==
  \/ s # NoTomb /\ v = s.v
  \/ t # NoTomb /\ v = t.v
  \/ s # NoTomb /\ t # NoTomb /\ v = MergeVectors(s.v, t.v)

\* The winner of one id, by which side has it.
LEMMA WinnerCases ==
  ASSUME NEW p \in Profiles, NEW q \in Profiles, NEW id \in Ids
  PROVE  LET a == p.nodes[id]
             b == q.nodes[id]
             w == Winner(id, p, q)
         IN  /\ a = NoNode /\ b = NoNode => w = NoNode
             /\ a # NoNode /\ b = NoNode => w = IF IsPhantom(a, q, id) THEN NoNode ELSE a
             /\ a = NoNode /\ b # NoNode => w = IF IsPhantom(b, p, id) THEN NoNode ELSE b
             /\ a # NoNode /\ b # NoNode => w # NoNode
             /\ w # NoNode => w \in Nodes /\ MergedFrom(w.v, a, b)
<1> DEFINE a == p.nodes[id]
           b == q.nodes[id]
           w == Winner(id, p, q)
<1>1. (a # NoNode => a \in Nodes) /\ (b # NoNode => b \in Nodes)
  BY ProfileParts
<1>2. CASE a = NoNode \/ b = NoNode
  <2>1. /\ a = NoNode /\ b = NoNode => w = NoNode
        /\ a # NoNode /\ b = NoNode => w = IF IsPhantom(a, q, id) THEN NoNode ELSE a
        /\ a = NoNode /\ b # NoNode => w = IF IsPhantom(b, p, id) THEN NoNode ELSE b
    BY DEF Winner
  <2> HIDE DEF a, b, w
  <2> QED BY <1>1, <1>2, <2>1 DEF MergedFrom, a, b, w
<1>3. CASE a # NoNode /\ b # NoNode
  <2>1. w = WithSecrets(DecideProtection(a, b), a, b, p.known, q.known)
    BY <1>3 DEF Winner
  <2> HIDE DEF a, b, w
  <2>2. Filled(w, a, b, p.known) \/ Filled(w, b, a, q.known)
    BY <1>1, <1>3, <2>1, WithSecretsFills
  <2>3. w \in Nodes /\ w.v \in {a.v, b.v, MergeVectors(a.v, b.v)}
    <3>1. MergeVectors(a.v, b.v) = MergeVectors(b.v, a.v)
      BY <1>1, <1>3, RaceIsMutual
    <3> QED BY <2>2, <3>1 DEF Filled
  <2>4. w # NoNode
    BY <2>3, NothingAssumption
  <2> QED BY <1>3, <2>3, <2>4 DEF MergedFrom, a, b, w
<1> QED BY <1>2, <1>3

\* The tombstone of one id, before the old ones are collected.
LEMMA MergeTombCases ==
  ASSUME NEW s \in Tombs \cup {NoTomb}, NEW t \in Tombs \cup {NoTomb}
  PROVE  /\ MergeTomb(s, t) \in Tombs \cup {NoTomb}
         /\ MergeTomb(s, t) # NoTomb => BuriedFrom(MergeTomb(s, t).v, s, t)
         /\ s = NoTomb /\ t = NoTomb => MergeTomb(s, t) = NoTomb
<1>1. CASE s = NoTomb \/ t = NoTomb
  BY <1>1 DEF MergeTomb, BuriedFrom
<1>2. CASE s # NoTomb /\ t # NoTomb
  <2>1. s.at \in Nat /\ t.at \in Nat /\ s.v \in Vectors /\ t.v \in Vectors
    BY <1>2 DEF Tombs
  <2>2. MaxOf(s.at, t.at) \in Nat /\ MergeVectors(s.v, t.v) \in Vectors
    BY <2>1, MaxOfBounds, MergeVectorsIsJoin
  <2>3. MergeTomb(s, t) = [at |-> MaxOf(s.at, t.at), v |-> MergeVectors(s.v, t.v)]
    BY <1>2 DEF MergeTomb
  <2> QED BY <1>2, <2>2, <2>3 DEF BuriedFrom, Tombs
<1> QED BY <1>1, <1>2

\* A merged profile, id by id, and its horizon (syncMerge.mergeProfiles).
LEMMA MergeCases ==
  ASSUME NEW p \in Profiles, NEW q \in Profiles, NEW time \in Nat
  PROVE  LET r == MergeProfiles(p, q, time)
         IN  /\ r \in Profiles
             /\ \A id \in Ids :
                  /\ r.nodes[id] # NoNode => /\ Winner(id, p, q) # NoNode
                                             /\ r.nodes[id].v = Winner(id, p, q).v
                  /\ p.tombs[id] = NoTomb /\ q.tombs[id] = NoTomb /\ Winner(id, p, q) # NoNode
                       => r.nodes[id] # NoNode
                  /\ r.tombs[id] # NoTomb => BuriedFrom(r.tombs[id].v, p.tombs[id], q.tombs[id])
             /\ Covers(r.horizon, p.horizon) /\ Covers(r.horizon, q.horizon)
             /\ \A c \in Vectors :
                  (/\ Covers(c, p.horizon) /\ Covers(c, q.horizon)
                   /\ \A id \in Ids : r.nodes[id] # NoNode => Covers(c, r.nodes[id].v)
                   /\ \A id \in Ids : \A v \in Vectors :
                        BuriedFrom(v, p.tombs[id], q.tombs[id]) => Covers(c, v))
                  => Covers(c, r.horizon)
<1> DEFINE r == MergeProfiles(p, q, time)
           nodes == MergeNodes(p, q)
           tombs == MergeTombs(p, q, nodes)
           buried(id) == MergeTomb(p.tombs[id], q.tombs[id])
           survivor == [id \in Ids |-> Survivor(Winner(id, p, q), MergeTomb(p.tombs[id], q.tombs[id]))]
<1>1. r \in Profiles
  BY MergeIsProfile
<1>2. r.nodes = nodes /\ r.tombs = Prune(tombs, time) /\ r.horizon = MergeHorizon(p, q, nodes, tombs)
  BY DEF MergeProfiles, MergeAround, MergedProfile
<1>3. \A id \in Ids : p.tombs[id] \in Tombs \cup {NoTomb} /\ q.tombs[id] \in Tombs \cup {NoTomb}
  BY ProfileParts DEF TombMaps
<1>4. ASSUME NEW id \in Ids
      PROVE  /\ buried(id) \in Tombs \cup {NoTomb}
             /\ buried(id) # NoTomb => BuriedFrom(buried(id).v, p.tombs[id], q.tombs[id])
             /\ p.tombs[id] = NoTomb /\ q.tombs[id] = NoTomb => buried(id) = NoTomb
  BY <1>3, MergeTombCases
<1>5. nodes \in NodeMaps
  <2> HIDE DEF r, nodes
  <2> QED BY <1>1, <1>2, ProfileParts
<1>6. ASSUME NEW id \in Ids
      PROVE  /\ nodes[id] # NoNode => /\ Winner(id, p, q) # NoNode /\ nodes[id].v = Winner(id, p, q).v
             /\ p.tombs[id] = NoTomb /\ q.tombs[id] = NoTomb /\ Winner(id, p, q) # NoNode => nodes[id] # NoNode
  <2> DEFINE w == Winner(id, p, q)
  <2>1. w # NoNode => w \in Nodes
    BY WinnerCases
  <2>2. survivor[id] = Survivor(w, buried(id))
    OBVIOUS
  <2>3. /\ survivor[id] # NoNode => survivor[id] = w
        /\ w = NoNode => survivor[id] = NoNode
        /\ buried(id) = NoTomb => survivor[id] = w
    BY <2>2 DEF Survivor
  <2>4. \/ nodes[id] = survivor[id]
        \/ survivor[id] # NoNode /\ nodes[id] = [survivor[id] EXCEPT !.parent = Root]
    BY DEF MergeNodes, Reparent
  <2>5. \A n \in Nodes : LET m == [n EXCEPT !.parent = Root] IN m \in Nodes /\ m.v = n.v
    BY DEF Nodes
  <2> HIDE DEF w, survivor, nodes, buried
  <2>6. nodes[id] # NoNode => w # NoNode /\ nodes[id].v = w.v
    BY <2>1, <2>3, <2>4, <2>5
  <2>7. buried(id) = NoTomb /\ w # NoNode => nodes[id] # NoNode
    <3>1. ASSUME buried(id) = NoTomb, w # NoNode
          PROVE  nodes[id] # NoNode
      <4>1. survivor[id] = w /\ w \in Nodes
        BY <2>1, <2>3, <3>1
      <4>2. nodes[id] \in Nodes
        BY <2>4, <2>5, <4>1
      <4> QED BY <4>2, NothingAssumption
    <3> QED BY <3>1
  <2> QED BY <1>4, <2>6, <2>7 DEF w
<1>7. ASSUME NEW id \in Ids
      PROVE  /\ tombs[id] \in Tombs \cup {NoTomb}
             /\ tombs[id] # NoTomb => BuriedFrom(tombs[id].v, p.tombs[id], q.tombs[id])
  <2>1. tombs[id] \in {NoTomb, buried(id)}
    BY DEF MergeTombs
  <2> HIDE DEF tombs, buried
  <2> QED BY <1>4, <2>1
<1>8. tombs \in TombMaps
  <2>1. tombs = [id \in Ids |-> tombs[id]]
    BY DEF MergeTombs
  <2> HIDE DEF tombs
  <2> QED BY <1>7, <2>1 DEF TombMaps
<1>9. \A id \in Ids : Prune(tombs, time)[id] \in {NoTomb, tombs[id]}
  <2> HIDE DEF tombs
  <2> QED BY DEF Prune
<1> DEFINE h == MergeHorizon(p, q, nodes, tombs)
           seen == Seen(p, q, nodes, tombs)
<1>10. /\ \A v \in seen : Covers(h, v)
       /\ \A c \in Vectors : (\A v \in seen : Covers(c, v)) => Covers(c, h)
  <2> HIDE DEF nodes, tombs
  <2> QED BY <1>5, <1>8, HorizonIsJoin DEF NodeMaps, TombMaps
<1>11. p.horizon \in seen /\ q.horizon \in seen
  BY DEF Seen
<1>12. ASSUME NEW c \in Vectors,
              Covers(c, p.horizon), Covers(c, q.horizon),
              \A id \in Ids : nodes[id] # NoNode => Covers(c, nodes[id].v),
              \A id \in Ids : \A v \in Vectors : BuriedFrom(v, p.tombs[id], q.tombs[id]) => Covers(c, v)
       PROVE  Covers(c, h)
  <2>1. ASSUME NEW id \in Ids, tombs[id] # NoTomb
        PROVE  Covers(c, tombs[id].v)
    <3> HIDE DEF tombs
    <3>1. tombs[id].v \in Vectors /\ BuriedFrom(tombs[id].v, p.tombs[id], q.tombs[id])
      BY <1>7, <2>1 DEF Tombs
    <3> QED BY <1>12, <3>1
  <2> HIDE DEF nodes, tombs
  <2>2. \A v \in seen : Covers(c, v)
    BY <1>12, <2>1 DEF Seen
  <2> HIDE DEF seen, h
  <2> QED BY <1>10, <2>2
<1> HIDE DEF nodes, tombs, buried, survivor, h, seen
<1>13. \A id \in Ids : r.tombs[id] # NoTomb => BuriedFrom(r.tombs[id].v, p.tombs[id], q.tombs[id])
  <2> HIDE DEF r
  <2> QED BY <1>2, <1>7, <1>9
<1>14. Covers(h, p.horizon) /\ Covers(h, q.horizon)
  BY <1>10, <1>11
<1>15. r.horizon = h
  BY <1>2 DEF h
<1> HIDE DEF r
<1>16. \A id \in Ids :
         /\ r.nodes[id] # NoNode => Winner(id, p, q) # NoNode /\ r.nodes[id].v = Winner(id, p, q).v
         /\ p.tombs[id] = NoTomb /\ q.tombs[id] = NoTomb /\ Winner(id, p, q) # NoNode => r.nodes[id] # NoNode
  BY <1>2, <1>6
<1>17. Covers(r.horizon, p.horizon) /\ Covers(r.horizon, q.horizon)
  BY <1>14, <1>15
<1>18. ASSUME NEW c \in Vectors,
              Covers(c, p.horizon), Covers(c, q.horizon),
              \A id \in Ids : r.nodes[id] # NoNode => Covers(c, r.nodes[id].v),
              \A id \in Ids : \A v \in Vectors : BuriedFrom(v, p.tombs[id], q.tombs[id]) => Covers(c, v)
       PROVE  Covers(c, r.horizon)
  <2>1. \A id \in Ids : nodes[id] # NoNode => Covers(c, nodes[id].v)
    BY <1>2, <1>18
  <2> QED BY <1>12, <1>15, <1>18, <2>1
<1> QED BY <1>1, <1>13, <1>16, <1>17, <1>18 DEF r

-----------------------------------------------------------------------------
(* No vector runs ahead of what was handed out: s bounds them by the       *)
(* sequence numbers, t by what history has seen of each node.              *)

NodesSound(ns, s, t, m) ==
  \A id \in Ids : ns[id] # NoNode =>
    /\ ns[id].v # EmptyVector /\ m[id] # 0
    /\ Covers(s, ns[id].v) /\ Covers(t[id], ns[id].v)

\* Only a deletion makes a tombstone.
TombsSound(ts, s, g, m) ==
  \A id \in Ids : ts[id] # NoTomb => Covers(s, ts[id].v) /\ id \in g /\ m[id] # 0

ProfileSound(p, s, t, g, m) ==
  NodesSound(p.nodes, s, t, m) /\ TombsSound(p.tombs, s, g, m) /\ Covers(s, p.horizon)

SoundNodes(ns) == NodesSound(ns, seq, top, made)
SoundProfile(p) == ProfileSound(p, seq, top, gone, made)

StoreSound ==
  \A d \in Devices : /\ SoundProfile(local[d])
                     /\ SoundNodes(deleting[d].nodes) /\ deleting[d].ids \subseteq gone
CyclesSound ==
  \A d \in Devices, l \in Lanes :
    SoundProfile(cycle[d][l].raw) /\ SoundProfile(cycle[d][l].merged) /\ SoundNodes(cycle[d][l].nodes)
VaultSound == SoundProfile(remote) /\ SoundProfile(backup)

Sound == Shape /\ StoreSound /\ CyclesSound /\ VaultSound

\* History and sequence numbers only grow.
Grown ==
  /\ Covers(seq', seq)
  /\ \A id \in Ids : Covers(top'[id], top[id])
  /\ \A id \in Ids : made[id] # 0 => made'[id] = made[id]
  /\ gone \subseteq gone'

\* What was sound stays sound as they grow.
LEMMA SoundGrows ==
  ASSUME NEW s \in Vectors, NEW s2 \in Vectors, NEW t \in [Ids -> Vectors], NEW t2 \in [Ids -> Vectors],
         NEW g, NEW g2, NEW m, NEW m2,
         Covers(s2, s), \A id \in Ids : Covers(t2[id], t[id]), \A id \in Ids : m[id] # 0 => m2[id] = m[id],
         g \subseteq g2
  PROVE  /\ \A ns \in NodeMaps : NodesSound(ns, s, t, m) => NodesSound(ns, s2, t2, m2)
         /\ \A ts \in TombMaps : TombsSound(ts, s, g, m) => TombsSound(ts, s2, g2, m2)
         /\ \A p \in Profiles : ProfileSound(p, s, t, g, m) => ProfileSound(p, s2, t2, g2, m2)
<1>1. \A v \in Vectors : Covers(s, v) => Covers(s2, v)
  BY CoversIsOrder
<1>2. \A v \in Vectors, id \in Ids : Covers(t[id], v) => Covers(t2[id], v)
  BY CoversIsOrder
<1>3. ASSUME NEW ns \in NodeMaps, NodesSound(ns, s, t, m)
      PROVE  NodesSound(ns, s2, t2, m2)
  <2>1. \A id \in Ids : ns[id] # NoNode => ns[id].v \in Vectors
    BY DEF NodeMaps, Nodes
  <2> QED BY <1>1, <1>2, <1>3, <2>1 DEF NodesSound
<1>4. ASSUME NEW ts \in TombMaps, TombsSound(ts, s, g, m)
      PROVE  TombsSound(ts, s2, g2, m2)
  <2>1. \A id \in Ids : ts[id] # NoTomb => ts[id].v \in Vectors
    BY DEF TombMaps, Tombs
  <2> QED BY <1>1, <1>4, <2>1 DEF TombsSound
<1>5. ASSUME NEW p \in Profiles, ProfileSound(p, s, t, g, m)
      PROVE  ProfileSound(p, s2, t2, g2, m2)
  <2>1. p.nodes \in NodeMaps /\ p.tombs \in TombMaps /\ p.horizon \in Vectors
    BY ProfileParts
  <2> QED BY <1>1, <1>3, <1>4, <1>5, <2>1 DEF ProfileSound
<1> QED BY <1>3, <1>4, <1>5

\* The join of two vectors below a bound is below it, and nonempty where one of them is.
LEMMA JoinBelow ==
  ASSUME NEW a \in Vectors, NEW b \in Vectors, NEW c \in Vectors, Covers(c, a), Covers(c, b)
  PROVE  Covers(c, MergeVectors(a, b)) /\ (a # EmptyVector => MergeVectors(a, b) # EmptyVector)
<1>1. Covers(c, MergeVectors(a, b)) /\ Covers(MergeVectors(a, b), a)
  BY MergeVectorsIsJoin
<1>2. Covers(EmptyVector, a) => a = EmptyVector
  <2>1. Covers(a, EmptyVector)
    BY DEF Covers, EmptyVector, Vectors
  <2> QED BY <2>1, CoversIsOrder, EmptyShape
<1> QED BY <1>1, <1>2

\* Of sound profiles a merge makes a sound one.
LEMMA MergeSound ==
  ASSUME NEW p \in Profiles, NEW q \in Profiles, NEW time \in Nat,
         NEW s \in Vectors, NEW t \in [Ids -> Vectors], NEW g, NEW m,
         ProfileSound(p, s, t, g, m), ProfileSound(q, s, t, g, m)
  PROVE  ProfileSound(MergeProfiles(p, q, time), s, t, g, m)
<1> DEFINE r == MergeProfiles(p, q, time)
<1>1. r \in Profiles
  BY MergeIsProfile
<1>2. \A id \in Ids : r.nodes[id] # NoNode => MergedFrom(r.nodes[id].v, p.nodes[id], q.nodes[id])
  <2>1. ASSUME NEW id \in Ids, r.nodes[id] # NoNode
        PROVE  MergedFrom(r.nodes[id].v, p.nodes[id], q.nodes[id])
    <3>1. Winner(id, p, q) # NoNode /\ r.nodes[id].v = Winner(id, p, q).v
      BY <2>1, MergeCases
    <3>2. MergedFrom(Winner(id, p, q).v, p.nodes[id], q.nodes[id])
      BY <3>1, WinnerCases
    <3> HIDE DEF r
    <3> QED BY <3>1, <3>2
  <2> QED BY <2>1
<1>3. \A id \in Ids : r.tombs[id] # NoTomb => BuriedFrom(r.tombs[id].v, p.tombs[id], q.tombs[id])
  BY MergeCases
<1>4. \A c \in Vectors :
        (/\ Covers(c, p.horizon) /\ Covers(c, q.horizon)
         /\ \A id \in Ids : r.nodes[id] # NoNode => Covers(c, r.nodes[id].v)
         /\ \A id \in Ids : \A v \in Vectors : BuriedFrom(v, p.tombs[id], q.tombs[id]) => Covers(c, v))
        => Covers(c, r.horizon)
  BY MergeCases
<1> HIDE DEF r
<1>5. ASSUME NEW id \in Ids
      PROVE  /\ p.nodes[id] # NoNode => p.nodes[id].v \in Vectors
             /\ q.nodes[id] # NoNode => q.nodes[id].v \in Vectors
             /\ p.tombs[id] # NoTomb => p.tombs[id].v \in Vectors
             /\ q.tombs[id] # NoTomb => q.tombs[id].v \in Vectors
  BY ProfileParts
<1>6. NodesSound(r.nodes, s, t, m)
  <2>1. ASSUME NEW id \in Ids, r.nodes[id] # NoNode
        PROVE  /\ r.nodes[id].v # EmptyVector /\ m[id] # 0
               /\ Covers(s, r.nodes[id].v) /\ Covers(t[id], r.nodes[id].v)
    <3> DEFINE a == p.nodes[id]
               b == q.nodes[id]
    <3>1. /\ a # NoNode => /\ a.v \in Vectors /\ a.v # EmptyVector /\ m[id] # 0
                           /\ Covers(s, a.v) /\ Covers(t[id], a.v)
          /\ b # NoNode => /\ b.v \in Vectors /\ b.v # EmptyVector /\ m[id] # 0
                           /\ Covers(s, b.v) /\ Covers(t[id], b.v)
      BY <1>5 DEF ProfileSound, NodesSound
    <3>2. MergedFrom(r.nodes[id].v, a, b)
      BY <1>2, <2>1
    <3> HIDE DEF a, b
    <3> QED BY <3>1, <3>2, JoinBelow DEF MergedFrom
  <2> QED BY <2>1 DEF NodesSound
<1>7. ASSUME NEW id \in Ids, NEW v, BuriedFrom(v, p.tombs[id], q.tombs[id])
      PROVE  Covers(s, v) /\ id \in g /\ m[id] # 0
  <2> DEFINE a == p.tombs[id]
             b == q.tombs[id]
  <2>1. /\ a # NoTomb => a.v \in Vectors /\ Covers(s, a.v) /\ id \in g /\ m[id] # 0
        /\ b # NoTomb => b.v \in Vectors /\ Covers(s, b.v) /\ id \in g /\ m[id] # 0
    BY <1>5 DEF ProfileSound, TombsSound
  <2>2. BuriedFrom(v, a, b)
    BY <1>7
  <2> HIDE DEF a, b
  <2> QED BY <2>1, <2>2, JoinBelow DEF BuriedFrom
<1>8. TombsSound(r.tombs, s, g, m)
  BY <1>3, <1>7 DEF TombsSound
<1>9. Covers(s, r.horizon)
  <2>1. Covers(s, p.horizon) /\ Covers(s, q.horizon)
    BY DEF ProfileSound
  <2>2. \A id \in Ids : r.nodes[id] # NoNode => Covers(s, r.nodes[id].v)
    BY <1>6 DEF NodesSound
  <2>3. \A id \in Ids : \A v \in Vectors : BuriedFrom(v, p.tombs[id], q.tombs[id]) => Covers(s, v)
    BY <1>7
  <2> QED BY <1>4, <2>1, <2>2, <2>3
<1>10. ProfileSound(r, s, t, g, m)
  BY <1>6, <1>8, <1>9 DEF ProfileSound
<1> QED BY <1>10 DEF r

\* Nothing is sound.
LEMMA EmptySound ==
  ASSUME NEW s \in Vectors, NEW t, NEW g, NEW m
  PROVE  ProfileSound(EmptyProfile, s, t, g, m) /\ NodesSound(EmptyProfile.nodes, s, t, m)
<1>1. Covers(s, EmptyVector)
  BY DEF Covers, EmptyVector, Vectors
<1> QED BY <1>1 DEF ProfileSound, NodesSound, TombsSound, EmptyProfile

\* The parts of a sound state have the shapes the lemmas ask for.
LEMMA SoundShape ==
  ASSUME Sound, NEW d \in Devices
  PROVE  /\ Shape
         /\ seq \in Vectors /\ top \in [Ids -> Vectors] /\ gone \subseteq Ids
         /\ remote \in Profiles /\ backup \in Profiles /\ local[d] \in Profiles
         /\ deleting[d] \in Deletions /\ deleting[d].nodes \in NodeMaps /\ deleting[d].ids \subseteq Ids
         /\ \A l \in Lanes : /\ cycle[d][l] \in Cycles /\ cycle[d][l].raw \in Profiles
                             /\ cycle[d][l].merged \in Profiles /\ cycle[d][l].nodes \in NodeMaps
<1>1. Shape /\ seq \in Vectors /\ top \in [Ids -> Vectors] /\ gone \subseteq Ids /\ remote \in Profiles
      /\ backup \in Profiles /\ local[d] \in Profiles /\ deleting[d] \in Deletions
      /\ \A l \in Lanes : cycle[d][l] \in Cycles
  BY DEF Sound, Shape, CountsOK, HistoryOK, VaultOK, StoreOK, CyclesOK, Vectors
<1>2. deleting[d].nodes \in NodeMaps /\ deleting[d].ids \subseteq Ids
  BY <1>1 DEF Deletions
<1>3. \A c \in Cycles : c.raw \in Profiles /\ c.merged \in Profiles /\ c.nodes \in NodeMaps
  BY DEF Cycles
<1> QED BY <1>1, <1>2, <1>3

\* Whatever a step does not touch stays sound.
LEMMA Carried ==
  ASSUME Sound, Shape', Grown
  PROVE  /\ \A ns \in NodeMaps : SoundNodes(ns) => NodesSound(ns, seq', top', made')
         /\ \A ts \in TombMaps : TombsSound(ts, seq, gone, made) => TombsSound(ts, seq', gone', made')
         /\ \A p \in Profiles : SoundProfile(p) => ProfileSound(p, seq', top', gone', made')
<1>1. seq \in Vectors /\ top \in [Ids -> Vectors]
  BY DEF Sound, Shape, CountsOK, HistoryOK, Vectors
<1>2. seq' \in Vectors /\ top' \in [Ids -> Vectors]
  BY DEF Shape, CountsOK, HistoryOK, Vectors
<1> QED BY <1>1, <1>2, SoundGrows DEF Grown, SoundNodes, SoundProfile

LEMMA KeptSound ==
  ASSUME Sound, Shape', Grown
  PROVE  /\ KeepsCycles => CyclesSound'
         /\ UNCHANGED <<remote, backup>> => VaultSound'
         /\ UNCHANGED <<local, deleting>> => StoreSound'
         /\ UNCHANGED cycle => CyclesSound'
<1>1. \A d \in Devices : /\ local[d] \in Profiles /\ deleting[d].nodes \in NodeMaps
                         /\ \A l \in Lanes : /\ cycle[d][l].raw \in Profiles /\ cycle[d][l].merged \in Profiles
                                             /\ cycle[d][l].nodes \in NodeMaps
  BY SoundShape
<1>2. remote \in Profiles /\ backup \in Profiles
  BY DEF Sound, Shape, VaultOK
<1>3. ASSUME KeepsCycles PROVE CyclesSound'
  <2>1. \A d \in Devices, l \in Lanes :
          /\ ProfileSound(cycle[d][l].raw, seq', top', gone', made')
          /\ ProfileSound(cycle[d][l].merged, seq', top', gone', made')
          /\ NodesSound(cycle[d][l].nodes, seq', top', made')
    BY <1>1, Carried DEF Sound, CyclesSound
  <2> QED BY <1>3, <2>1 DEF KeepsCycles, CyclesSound, SoundProfile, SoundNodes
<1>4. ASSUME UNCHANGED <<remote, backup>> PROVE VaultSound'
  <2>1. ProfileSound(remote, seq', top', gone', made') /\ ProfileSound(backup, seq', top', gone', made')
    BY <1>2, Carried DEF Sound, VaultSound
  <2> QED BY <1>4, <2>1 DEF VaultSound, SoundProfile
<1>5. ASSUME UNCHANGED <<local, deleting>> PROVE StoreSound'
  <2>1. \A d \in Devices : /\ ProfileSound(local[d], seq', top', gone', made')
                           /\ NodesSound(deleting[d].nodes, seq', top', made')
                           /\ deleting[d].ids \subseteq gone'
    BY <1>1, Carried DEF Sound, StoreSound, Grown
  <2> QED BY <1>5, <2>1 DEF StoreSound, SoundProfile, SoundNodes
<1>6. UNCHANGED cycle => KeepsCycles
  BY DEF KeepsCycles
<1> QED BY <1>3, <1>4, <1>5, <1>6

\* A machine whose profile and deletion are sound after the step, the others untouched.
LEMMA OneStoreSound ==
  ASSUME Sound, Shape', Grown, NEW d \in Devices,
         \A e \in Devices : e # d => local'[e] = local[e] /\ deleting'[e] = deleting[e],
         SoundProfile(local[d])', SoundNodes(deleting[d].nodes)', (deleting[d].ids \subseteq gone)'
  PROVE  StoreSound'
<1>1. ASSUME NEW e \in Devices, e # d
      PROVE  SoundProfile(local[e])' /\ SoundNodes(deleting[e].nodes)' /\ (deleting[e].ids \subseteq gone)'
  <2>1. local[e] \in Profiles /\ deleting[e].nodes \in NodeMaps
    BY SoundShape
  <2>2. /\ ProfileSound(local[e], seq', top', gone', made') /\ NodesSound(deleting[e].nodes, seq', top', made')
        /\ deleting[e].ids \subseteq gone'
    BY <2>1, Carried DEF Sound, StoreSound, Grown
  <2> QED BY <1>1, <2>2 DEF SoundProfile, SoundNodes
<1> QED BY <1>1 DEF StoreSound

\* Nothing was handed out, seen, made or deleted.
LEMMA NothingGrows ==
  ASSUME Sound, UNCHANGED <<seq, top, made, gone>>
  PROVE  Grown
<1>1. seq \in Vectors /\ top \in [Ids -> Vectors]
  BY DEF Sound, Shape, CountsOK, HistoryOK, Vectors
<1> QED BY <1>1, CoversIsOrder DEF Grown

\* One number of a vector raised.
Raised(v2, v, d, n) == v2 \in Vectors /\ v2[d] = n /\ \A e \in Devices : e # d => v2[e] = v[e]

LEMMA RaisedBy ==
  ASSUME NEW v \in Vectors, NEW d \in Devices, NEW n \in Nat, NEW v2, v2 = [v EXCEPT ![d] = n]
  PROVE  Raised(v2, v, d, n)
BY DEF Raised, Vectors

\* A vector below the sequence numbers, with the next one at its writer, is below the new ones.
LEMMA BumpBelow ==
  ASSUME NEW s \in Vectors, NEW v \in Vectors, NEW d \in Devices, Covers(s, v), NEW s2,
         Raised(s2, s, d, s[d] + 1)
  PROVE  /\ s2 \in Vectors /\ Covers(s2, s)
         /\ Raised(BumpVector(v, d, s[d] + 1), v, d, s[d] + 1)
         /\ Covers(s2, BumpVector(v, d, s[d] + 1)) /\ BumpVector(v, d, s[d] + 1) # EmptyVector
         /\ \A n \in {s[d], s[d] + 1} : \A h : Raised(h, v, d, MaxOf(v[d], n)) =>
              Covers(s2, h) /\ (n = s[d] => Covers(s, h))
<1>1. \A e \in Devices : s[e] \in Nat /\ v[e] \in Nat /\ s[e] >= v[e]
  BY DEF Vectors, Covers
<1> DEFINE w == BumpVector(v, d, s[d] + 1)
<1>2. s2 \in Vectors /\ s2[d] = s[d] + 1 /\ \A e \in Devices : e # d => s2[e] = s[e]
  BY DEF Raised
<1>3. w \in Vectors /\ w[d] = s[d] + 1 /\ \A e \in Devices : e # d => w[e] = v[e]
  BY <1>1 DEF Vectors, BumpVector
<1>4. ASSUME NEW n \in {s[d], s[d] + 1}, NEW h, Raised(h, v, d, MaxOf(v[d], n))
      PROVE  Covers(s2, h) /\ (n = s[d] => Covers(s, h))
  <2>1. n \in Nat /\ n >= v[d]
    BY <1>1
  <2>2. MaxOf(v[d], n) = n
    BY <1>1, <2>1 DEF MaxOf
  <2>3. h \in Vectors /\ h[d] = n /\ \A e \in Devices : e # d => h[e] = v[e]
    BY <1>4, <2>1, <2>2 DEF Raised
  <2> QED BY <1>1, <1>2, <2>3 DEF Covers
<1> HIDE DEF w
<1>5. Covers(s2, s) /\ Covers(s2, w)
  BY <1>1, <1>2, <1>3 DEF Covers
<1>6. w # EmptyVector
  BY <1>1, <1>3 DEF EmptyVector
<1> QED BY <1>2, <1>3, <1>4, <1>5, <1>6 DEF w, Raised

\* A node put by its person is the newest version history has seen of it, below the new numbers.
LEMMA PutNodeSound ==
  ASSUME Sound, Shape', NEW d \in Devices, NEW id \in Ids, NEW v \in Vectors, PutNodeStep(d, id, v),
         Covers(seq, v), UNCHANGED <<deleting, remote, backup, gone>>,
         made'[id] # 0, \A j \in Ids : made[j] # 0 => made'[j] = made[j]
  PROVE  Sound' /\ Grown
<1> DEFINE node == local'[d].nodes[id]
<1>1. seq \in Vectors /\ top \in [Ids -> Vectors] /\ local[d] \in Profiles
  BY SoundShape
<1>2. local'[d] \in Profiles /\ node \in Nodes /\ node.v = BumpVector(v, d, seq[d] + 1)
  BY DEF PutNodeStep
<1>3. seq' = [seq EXCEPT ![d] = seq[d] + 1] /\ top' = [top EXCEPT ![id] = MergeVectors(@, node.v)]
  BY DEF PutNodeStep
<1> DEFINE n == seq[d] + 1
<1>3a. n \in Nat /\ Raised(seq', seq, d, n)
  BY <1>1, <1>3 DEF Raised, Vectors
<1>4. /\ node.v \in Vectors /\ Covers(seq', seq) /\ Covers(seq', node.v) /\ node.v # EmptyVector
  BY <1>1, <1>2, <1>3a, BumpBelow DEF Raised
<1>5. Covers(top'[id], top[id]) /\ Covers(top'[id], node.v)
      /\ \A j \in Ids : j # id => top'[j] = top[j]
  <2> HIDE DEF node
  <2> QED BY <1>1, <1>3, <1>4, MergeVectorsIsJoin
<1>6. Grown
  <2>1. \A j \in Ids : Covers(top'[j], top[j])
    BY <1>1, <1>5, CoversIsOrder
  <2> QED BY <1>4, <2>1 DEF Grown
<1>7. CyclesSound' /\ VaultSound'
  BY <1>6, KeptSound DEF PutNodeStep
<1>8. SoundProfile(local[d])'
  <2>1. ProfileSound(local[d], seq', top', gone', made')
    BY <1>1, <1>6, Carried DEF Sound, StoreSound
  <2>2. NodesSound(local'[d].nodes, seq', top', made')
    <3>1. \A j \in Ids : j # id => local'[d].nodes[j] = local[d].nodes[j]
      BY DEF PutNodeStep
    <3>2. NodesSound(local[d].nodes, seq', top', made')
      BY <2>1 DEF ProfileSound
    <3> HIDE DEF node
    <3>3. local'[d].nodes[id] = node
      BY DEF node
    <3> QED BY <1>4, <1>5, <3>1, <3>2, <3>3 DEF NodesSound
  <2>3. TombsSound(local'[d].tombs, seq', gone', made')
    <3>1. \A j \in Ids : local'[d].tombs[j] \in {NoTomb, local[d].tombs[j]}
      BY DEF PutNodeStep
    <3>2. TombsSound(local[d].tombs, seq', gone', made')
      BY <2>1 DEF ProfileSound
    <3> QED BY <3>1, <3>2 DEF TombsSound
  <2>4. Covers(seq', local'[d].horizon)
    <3>1. local'[d].horizon = [local[d].horizon EXCEPT ![d] = MaxOf(local[d].horizon[d], seq[d] + 1)]
      BY DEF PutNodeStep
    <3>2. Covers(seq, local[d].horizon) /\ local[d].horizon \in Vectors
      BY <1>1, ProfileParts DEF Sound, StoreSound, SoundProfile, ProfileSound
    <3>3. n \in {seq[d], n} /\ local[d].horizon[d] \in Nat
      BY <3>2 DEF Vectors
    <3>4. MaxOf(local[d].horizon[d], n) \in Nat
      BY <1>3a, <3>3, MaxOfBounds
    <3>5. Raised(local'[d].horizon, local[d].horizon, d, MaxOf(local[d].horizon[d], n))
      BY <3>1, <3>2, <3>4, RaisedBy
    <3> QED BY <1>1, <1>3a, <3>2, <3>3, <3>5, BumpBelow
  <2>5. ProfileSound(local'[d], seq', top', gone', made')
    BY <2>2, <2>3, <2>4 DEF ProfileSound
  <2> QED BY <2>5 DEF SoundProfile
<1>9. \A e \in Devices : e # d => local'[e] = local[e] /\ deleting'[e] = deleting[e]
  BY DEF PutNodeStep
<1>10. SoundNodes(deleting[d].nodes)' /\ (deleting[d].ids \subseteq gone)'
  <2>1. deleting[d].nodes \in NodeMaps
    BY SoundShape
  <2>2. NodesSound(deleting[d].nodes, seq', top', made') /\ deleting[d].ids \subseteq gone
    BY <1>6, <2>1, Carried DEF Sound, StoreSound
  <2> QED BY <2>2 DEF SoundNodes
<1>11. StoreSound'
  BY <1>6, <1>8, <1>9, <1>10, OneStoreSound
<1> QED BY <1>6, <1>7, <1>11 DEF Sound

LEMMA TombsSoundStep ==
  ASSUME Sound, Shape', NEW d \in Devices, NEW ids \in SUBSET Ids, TombsStep(d, ids),
         UNCHANGED <<remote, backup, made, top>>
  PROVE  Sound' /\ Grown
<1>1. seq \in Vectors /\ top \in [Ids -> Vectors] /\ local[d] \in Profiles /\ deleting[d] \in Deletions
  BY SoundShape
<1>2. seq' = [seq EXCEPT ![d] = seq[d] + 1] /\ gone' = gone \cup ids
  BY DEF TombsStep
<1> DEFINE n == seq[d] + 1
<1>2a. n \in Nat /\ Raised(seq', seq, d, n)
  BY <1>1, <1>2 DEF Raised, Vectors
<1>3. Covers(seq, seq) /\ Covers(seq', seq)
  BY <1>1, <1>2a, CoversIsOrder, BumpBelow
<1>4. Grown
  BY <1>1, <1>2, <1>3, CoversIsOrder DEF Grown
<1>5. CyclesSound' /\ VaultSound'
  BY <1>4, KeptSound DEF TombsStep
<1>6. ProfileSound(local[d], seq', top', gone', made')
  BY <1>1, <1>4, Carried DEF Sound, StoreSound
<1>7. TombsSound(local'[d].tombs, seq', gone', made')
  <2>1. ASSUME NEW j \in ids
        PROVE  Covers(seq', local'[d].tombs[j].v) /\ j \in gone' /\ made'[j] # 0
    <3>1. local[d].nodes[j] # NoNode /\ local'[d].tombs[j].v = BumpVector(local[d].nodes[j].v, d, seq[d] + 1)
      BY DEF TombsStep, Present
    <3>2. local[d].nodes[j].v \in Vectors
      BY <1>1, <3>1, ProfileParts
    <3>3. Covers(seq, local[d].nodes[j].v) /\ made[j] # 0
      BY <3>1 DEF Sound, StoreSound, SoundProfile, ProfileSound, NodesSound
    <3>4. Covers(seq', local'[d].tombs[j].v)
      BY <1>1, <1>2a, <3>1, <3>2, <3>3, BumpBelow
    <3> QED BY <1>2, <3>3, <3>4
  <2>2. \A j \in Ids : j \notin ids => local'[d].tombs[j] = local[d].tombs[j]
    BY DEF TombsStep
  <2>3. TombsSound(local[d].tombs, seq', gone', made')
    BY <1>6 DEF ProfileSound
  <2> QED BY <2>1, <2>2, <2>3 DEF TombsSound
<1>8. SoundProfile(local[d])'
  <2>1. local'[d].nodes = local[d].nodes /\ local'[d].horizon = local[d].horizon
    BY DEF TombsStep
  <2>2. ProfileSound(local'[d], seq', top', gone', made')
    BY <1>6, <1>7, <2>1 DEF ProfileSound
  <2> QED BY <2>2 DEF SoundProfile
<1>9. SoundNodes(deleting[d].nodes)' /\ (deleting[d].ids \subseteq gone)'
  <2>1. deleting'[d] = [ids |-> ids, nodes |-> local[d].nodes]
    BY DEF TombsStep, Sound, Shape, StoreOK
  <2>2. deleting'[d].nodes = local[d].nodes /\ deleting'[d].ids = ids
    BY <2>1
  <2>3. NodesSound(deleting'[d].nodes, seq', top', made')
    BY <1>6, <2>2 DEF ProfileSound
  <2> QED BY <1>2, <2>2, <2>3 DEF SoundNodes
<1>10. \A e \in Devices : e # d => local'[e] = local[e] /\ deleting'[e] = deleting[e]
  BY DEF TombsStep, Sound, Shape, StoreOK
<1>11. StoreSound'
  BY <1>4, <1>8, <1>9, <1>10, OneStoreSound
<1> QED BY <1>4, <1>5, <1>11 DEF Sound

LEMMA DeleteNodesSound ==
  ASSUME Sound, Shape', NEW d \in Devices, NodesStep(d), UNCHANGED <<seq, remote, backup, made, gone, top>>
  PROVE  Sound' /\ Grown
<1>1. /\ local[d] \in Profiles /\ seq \in Vectors /\ deleting[d].nodes \in NodeMaps
      /\ local[d].horizon \in Vectors
  BY SoundShape, ProfileParts
<1>2. Grown
  BY NothingGrows
<1>3. CyclesSound' /\ VaultSound'
  BY <1>2, KeptSound DEF NodesStep
<1>4. SoundProfile(local[d])'
  <2>1. NodesSound(local'[d].nodes, seq', top', made')
    <3>1. \A j \in Ids : local'[d].nodes[j] \in {NoNode, deleting[d].nodes[j]}
      BY DEF NodesStep
    <3>2. NodesSound(deleting[d].nodes, seq', top', made')
      BY <1>1, <1>2, Carried DEF Sound, StoreSound
    <3> QED BY <3>1, <3>2 DEF NodesSound
  <2>2. TombsSound(local'[d].tombs, seq', gone', made')
    BY DEF NodesStep, Sound, StoreSound, SoundProfile, ProfileSound
  <2>3. Covers(seq', local'[d].horizon)
    <3>1. local'[d].horizon = [local[d].horizon EXCEPT ![d] = MaxOf(local[d].horizon[d], seq[d])]
      BY DEF NodesStep
    <3>2. Covers(seq, local[d].horizon)
      BY DEF Sound, StoreSound, SoundProfile, ProfileSound
    <3>3. \A e \in Devices : seq[e] \in Nat /\ local[d].horizon[e] \in Nat /\ seq[e] >= local[d].horizon[e]
      BY <1>1, <3>2 DEF Vectors, Covers
    <3>4. MaxOf(local[d].horizon[d], seq[d]) = seq[d]
      BY <3>3 DEF MaxOf
    <3>5. Raised(local'[d].horizon, local[d].horizon, d, seq[d])
      BY <1>1, <3>1, <3>3, <3>4, RaisedBy
    <3>6. Covers(seq, local'[d].horizon)
      BY <3>3, <3>5 DEF Raised, Covers
    <3> QED BY <3>6
  <2>4. ProfileSound(local'[d], seq', top', gone', made')
    BY <2>1, <2>2, <2>3 DEF ProfileSound
  <2> QED BY <2>4 DEF SoundProfile
<1>5. deleting'[d] = NotDeleting /\ \A e \in Devices : e # d => local'[e] = local[e] /\ deleting'[e] = deleting[e]
  BY DEF NodesStep, Sound, Shape, StoreOK
<1>6. SoundNodes(deleting[d].nodes)' /\ (deleting[d].ids \subseteq gone)'
  <2>1. seq' \in Vectors
    BY <1>1
  <2>2. NodesSound(EmptyProfile.nodes, seq', top', made')
    BY <2>1, EmptySound
  <2> QED BY <1>5, <2>2 DEF SoundNodes, NotDeleting
<1>7. StoreSound'
  BY <1>2, <1>4, <1>5, <1>6, OneStoreSound
<1> QED BY <1>2, <1>3, <1>7 DEF Sound

\* A step that only replaces one machine's profile, by one whose parts are sound.
LEMMA ReplacedSound ==
  ASSUME Sound, Shape', Grown, NEW d \in Devices, NEW q \in Profiles, OnlyLocal(d, q),
         UNCHANGED <<deleting, seq, top, made>>, ProfileSound(q, seq', top', gone', made')
  PROVE  StoreSound'
<1>1. SoundProfile(local[d])'
  BY DEF OnlyLocal, SoundProfile
<1>2. \A e \in Devices : e # d => local'[e] = local[e] /\ deleting'[e] = deleting[e]
  BY DEF OnlyLocal
<1>3. SoundNodes(deleting[d].nodes)' /\ (deleting[d].ids \subseteq gone)'
  BY DEF Sound, StoreSound, SoundNodes, Grown
<1> QED BY <1>1, <1>2, <1>3, OneStoreSound

\* A cycle's own step: sound where what it now holds is.
LEMMA CycleSound ==
  ASSUME Sound, Shape', NEW d \in Devices, NEW l \in Lanes, NEW rec \in Cycles, CycleStep(d, l, rec),
         UNCHANGED <<setup, store, remote, backup, history>>,
         SoundProfile(rec.raw), SoundProfile(rec.merged), SoundNodes(rec.nodes)
  PROVE  Sound' /\ Grown
<1>1. Grown
  BY NothingGrows DEF store, history
<1>2. VaultSound' /\ StoreSound'
  BY <1>1, KeptSound DEF store
<1>3. CyclesSound'
  <2>1. \A e \in Devices, k \in Lanes : cycle'[e][k] = IF e = d /\ k = l THEN rec ELSE cycle[e][k]
    BY DEF CycleStep, OnlyCycle
  <2>2. \A e \in Devices, k \in Lanes :
          SoundProfile(cycle'[e][k].raw) /\ SoundProfile(cycle'[e][k].merged) /\ SoundNodes(cycle'[e][k].nodes)
    BY <2>1 DEF Sound, CyclesSound
  <2>3. seq' = seq /\ top' = top /\ made' = made /\ gone' = gone
    BY DEF store, history
  <2> QED BY <2>2, <2>3 DEF CyclesSound, SoundProfile, SoundNodes
<1> QED BY <1>1, <1>2, <1>3 DEF Sound

\* A cycle that is over holds nothing.
LEMMA NoCycleSound ==
  ASSUME Sound
  PROVE  SoundProfile(NoCycle.raw) /\ SoundProfile(NoCycle.merged) /\ SoundNodes(NoCycle.nodes)
<1>1. seq \in Vectors
  BY DEF Sound, Shape, CountsOK, Vectors
<1> QED BY <1>1, EmptySound, EmptyShape DEF SoundProfile, SoundNodes

LEMMA MergedIsSound ==
  ASSUME Sound, NEW d \in Devices, NEW l \in Lanes
  PROVE  SoundProfile(Snapshot(d, l)) /\ SoundProfile(Merged(d, l))
<1>1. /\ Snapshot(d, l) \in Profiles /\ cycle[d][l].raw \in Profiles
      /\ Snapshot(d, l).nodes = cycle[d][l].nodes /\ Snapshot(d, l).tombs = local[d].tombs
      /\ Snapshot(d, l).horizon = local[d].horizon
  BY MergedShape DEF Sound
<1>2. SoundProfile(Snapshot(d, l)) /\ SoundProfile(cycle[d][l].raw)
  BY <1>1 DEF Sound, StoreSound, CyclesSound, SoundProfile, SoundNodes, ProfileSound
<1>3. seq \in Vectors /\ top \in [Ids -> Vectors] /\ Stamp(d) \in Nat
  BY SoundShape, StampShape DEF Sound
<1>4. SoundProfile(Merged(d, l))
  BY <1>1, <1>2, <1>3, MergeSound DEF SoundProfile, Merged
<1> QED BY <1>2, <1>4

\* An applied step of a cycle: what the machine now stores and what the cycle now holds are sound.
LEMMA ApplySound ==
  ASSUME Sound, Shape', NEW d \in Devices, NEW l \in Lanes, NEW q \in Profiles, NEW rec \in Cycles,
         ApplyStep(d, l, q, rec), UNCHANGED <<deleting, seq, remote, backup, history>>,
         SoundProfile(q), SoundProfile(rec.raw), SoundProfile(rec.merged), SoundNodes(rec.nodes)
  PROVE  Sound' /\ Grown
<1>1. UNCHANGED <<seq, top, made, gone>>
  BY DEF history
<1>2. Grown
  BY <1>1, NothingGrows
<1>3. StoreSound'
  <2>1. ProfileSound(q, seq', top', gone', made') /\ OnlyLocal(d, q)
    BY <1>1 DEF SoundProfile, ApplyStep
  <2> QED BY <1>1, <1>2, <2>1, ReplacedSound
<1>4. CyclesSound'
  <2>1. \A e \in Devices, k \in Lanes :
          SoundProfile(cycle'[e][k].raw) /\ SoundProfile(cycle'[e][k].merged) /\ SoundNodes(cycle'[e][k].nodes)
    BY DEF ApplyStep, CyclesMove, Sound, CyclesSound
  <2> QED BY <1>1, <2>1 DEF CyclesSound, SoundProfile, SoundNodes
<1>5. VaultSound'
  BY <1>2, KeptSound
<1> QED BY <1>2, <1>3, <1>4, <1>5 DEF Sound

LEMMA InitSound == Init => Sound
<1> SUFFICES ASSUME Init PROVE Sound
  OBVIOUS
<1>1. Shape
  BY InitShape
<1>2. seq \in Vectors
  BY <1>1 DEF Shape, CountsOK, Vectors
<1>3. SoundProfile(EmptyProfile) /\ SoundNodes(EmptyProfile.nodes)
  BY <1>2, EmptySound DEF SoundProfile, SoundNodes
<1>4. StoreSound /\ VaultSound
  BY <1>3 DEF Init, StoreSound, VaultSound, NotDeleting
<1>5. CyclesSound
  BY <1>3, EmptyShape DEF Init, CyclesSound
<1> QED BY <1>1, <1>4, <1>5 DEF Sound

LEMMA CycleStepsSound ==
  ASSUME Sound, Shape', NEW d \in Devices, NEW l \in Lanes, Cycle(d, l) \/ AnswerLost(d, l)
  PROVE  Sound' /\ Grown
<1>1. Shape
  BY DEF Sound
<1>2. /\ CyclesOK /\ SoundProfile(remote) /\ SoundProfile(local[d])
      /\ SoundProfile(cycle[d][l].raw) /\ SoundProfile(cycle[d][l].merged) /\ SoundNodes(cycle[d][l].nodes)
  BY DEF Sound, Shape, StoreSound, CyclesSound, VaultSound
<1>3. /\ SoundProfile(NoCycle.raw) /\ SoundProfile(NoCycle.merged) /\ SoundNodes(NoCycle.nodes)
      /\ NoCycle \in Cycles
  BY NoCycleSound, EmptyShape
<1>4. \A p : SoundProfile(p) => SoundNodes(p.nodes)
  BY DEF SoundProfile, SoundNodes, ProfileSound
<1>5. ASSUME UNCHANGED <<setup, store, remote, backup, history>>,
             NEW rec \in Cycles, CycleStep(d, l, rec),
             SoundProfile(rec.raw), SoundProfile(rec.merged), SoundNodes(rec.nodes)
      PROVE  Sound' /\ Grown
  BY <1>5, CycleSound
<1>6. CASE ReadVault(d, l)
  <2>1. PICK rec \in Cycles : /\ CycleStep(d, l, rec) /\ rec.raw = remote
                              /\ rec.nodes = EmptyProfile.nodes /\ rec.merged = EmptyProfile
    BY <1>1, <1>6, ReadVaultStep
  <2>2. SoundProfile(rec.raw) /\ SoundProfile(rec.merged) /\ SoundNodes(rec.nodes)
    BY <1>2, <1>3, <2>1, EmptyShape
  <2> QED BY <1>5, <1>6, <2>1, <2>2 DEF ReadVault
<1>7. CASE IdleCycle(d, l)
  <2>1. CycleStep(d, l, NoCycle)
    BY <1>2, <1>7, EndCycleStep DEF IdleCycle
  <2> QED BY <1>3, <1>5, <1>7, <2>1 DEF IdleCycle
<1>8. CASE SnapshotNodes(d, l)
  <2>1. PICK rec \in Cycles : /\ CycleStep(d, l, rec) /\ SameReading(rec, cycle[d][l])
                              /\ rec.nodes = local[d].nodes /\ rec.merged = cycle[d][l].merged
    BY <1>1, <1>8, SnapshotNodesStep
  <2>2. SoundProfile(rec.raw) /\ SoundProfile(rec.merged) /\ SoundNodes(rec.nodes)
    BY <1>2, <1>4, <2>1 DEF SameReading
  <2> QED BY <1>5, <1>8, <2>1, <2>2 DEF SnapshotNodes
<1>9. CASE MergeSnapshot(d, l)
  <2>1. PICK rec \in Cycles :
          /\ CycleStep(d, l, rec)
          /\ rec = NoCycle \/ (/\ SameReading(rec, cycle[d][l])
                               /\ rec.nodes = cycle[d][l].nodes /\ rec.merged = Merged(d, l))
    BY <1>1, <1>9, MergeSnapshotStep
  <2>2. SoundProfile(rec.raw) /\ SoundProfile(rec.merged) /\ SoundNodes(rec.nodes)
    BY <1>2, <1>3, <2>1, MergedIsSound DEF SameReading
  <2> QED BY <1>5, <1>9, <2>1, <2>2 DEF MergeSnapshot
<1>10. CASE ApplyNodes(d, l)
  <2>1. PICK q \in Profiles, rec \in Cycles :
          /\ ApplyStep(d, l, q, rec)
          /\ rec.raw = cycle[d][l].raw /\ rec.nodes = cycle[d][l].nodes /\ rec.merged = cycle[d][l].merged
          /\ q.nodes = cycle[d][l].merged.nodes /\ q.tombs = local[d].tombs /\ q.horizon = local[d].horizon
    BY <1>1, <1>10, ApplyNodesStep
  <2>2. SoundProfile(q)
    BY <1>2, <2>1 DEF SoundProfile, ProfileSound
  <2>3. UNCHANGED <<deleting, seq, remote, backup, history>>
    BY <1>10 DEF ApplyNodes
  <2> QED BY <1>2, <2>1, <2>2, <2>3, ApplySound
<1>11. CASE ApplyRest(d, l)
  <2>1. PICK q \in Profiles, rec \in Cycles :
          /\ ApplyStep(d, l, q, rec)
          /\ rec = NoCycle \/ (/\ rec.raw = cycle[d][l].raw /\ rec.nodes = cycle[d][l].nodes
                               /\ rec.merged = cycle[d][l].merged)
          /\ q.nodes = local[d].nodes
          /\ q.tombs = cycle[d][l].merged.tombs /\ q.horizon = cycle[d][l].merged.horizon
    BY <1>1, <1>11, ApplyRestStep
  <2>2. SoundProfile(q)
    BY <1>2, <2>1 DEF SoundProfile, ProfileSound
  <2>3. SoundProfile(rec.raw) /\ SoundProfile(rec.merged) /\ SoundNodes(rec.nodes)
    BY <1>2, <1>3, <2>1
  <2>4. UNCHANGED <<deleting, seq, remote, backup, history>>
    BY <1>11 DEF ApplyRest
  <2> QED BY <2>1, <2>2, <2>3, <2>4, ApplySound
<1>12. CASE GitReset(d, l)
  <2>1. PICK rec \in Cycles : /\ CycleStep(d, l, rec) /\ SameReading(rec, cycle[d][l])
                              /\ rec.nodes = cycle[d][l].nodes /\ rec.merged = cycle[d][l].merged
    BY <1>1, <1>12, GitResetStep
  <2>2. SoundProfile(rec.raw) /\ SoundProfile(rec.merged) /\ SoundNodes(rec.nodes)
    BY <1>2, <2>1 DEF SameReading
  <2> QED BY <1>5, <1>12, <2>1, <2>2 DEF GitReset
<1>13. CASE WriteVault(d, l) \/ AnswerLost(d, l)
  <2>1. PICK after \in {"current", "stale"} : Overwrite(d, l, after)
    BY <1>13 DEF WriteVault, AnswerLost
  <2>2. OverwriteStep(d, l)
    BY <1>1, <2>1, OverwriteSteps
  <2>3. UNCHANGED <<setup, store, backup, history>>
    BY <1>13 DEF WriteVault, AnswerLost
  <2>4. UNCHANGED <<seq, top, made, gone, local, deleting>>
    BY <2>3 DEF store, history
  <2>5. Grown
    BY <2>4, NothingGrows
  <2>6. StoreSound'
    BY <2>4, <2>5, KeptSound
  <2>7. \A e \in Devices, k \in Lanes :
          SoundProfile(cycle'[e][k].raw) /\ SoundProfile(cycle'[e][k].merged) /\ SoundNodes(cycle'[e][k].nodes)
    BY <1>3, <2>2 DEF OverwriteStep, Sound, CyclesSound
  <2>8. CyclesSound'
    BY <2>4, <2>7 DEF CyclesSound, SoundProfile, SoundNodes
  <2>9. VaultSound'
    BY <1>2, <2>2, <2>3, <2>4 DEF OverwriteStep, Sound, VaultSound, SoundProfile
  <2> QED BY <2>5, <2>6, <2>8, <2>9 DEF Sound
<1>14. CASE WriteRefused(d, l)
  <2>1. CycleStep(d, l, NoCycle)
    BY <1>2, <1>14, EndCycleStep DEF WriteRefused
  <2> QED BY <1>3, <1>5, <1>14, <2>1 DEF WriteRefused
<1> QED
  BY <1>6, <1>7, <1>8, <1>9, <1>10, <1>11, <1>12, <1>13, <1>14 DEF Cycle

LEMMA NextSound == Sound /\ [Next]_vars => Sound' /\ Grown
<1> SUFFICES ASSUME Sound, [Next]_vars PROVE Sound' /\ Grown
  OBVIOUS
<1>1. Shape /\ Shape'
  BY NextShape DEF Sound
<1>2. \A d \in Devices : d # 0 /\ SoundProfile(local[d])
  BY DevicesAssumption DEF Sound, StoreSound
<1>3. ASSUME NEW d \in Devices, NEW id \in Ids, AddNode(d, id)
      PROVE  Sound' /\ Grown
  <2>1. PutNodeStep(d, id, EmptyVector) /\ EmptyVector \in Vectors
    BY <1>1, <1>3, AddNodeStep, EmptyShape
  <2>2. UNCHANGED <<deleting, remote, backup, gone>> /\ made[id] = 0 /\ made' = [made EXCEPT ![id] = d]
    BY <1>3 DEF AddNode
  <2>3. made'[id] # 0 /\ \A j \in Ids : made[j] # 0 => made'[j] = made[j]
    BY <1>1, <1>2, <2>2 DEF Shape, HistoryOK
  <2>4. Covers(seq, EmptyVector)
    BY <1>1 DEF Shape, CountsOK, Covers, EmptyVector
  <2> QED BY <1>1, <2>1, <2>2, <2>3, <2>4, PutNodeSound
<1>4. ASSUME NEW d \in Devices, NEW id \in Ids, UpdateNode(d, id)
      PROVE  Sound' /\ Grown
  <2>1. /\ PutNodeStep(d, id, local[d].nodes[id].v) /\ local[d].nodes[id].v \in Vectors
        /\ local[d].nodes[id] # NoNode
    BY <1>1, <1>4, UpdateNodeStep
  <2>2. UNCHANGED <<deleting, remote, backup, gone>> /\ made' = made
    BY <1>4 DEF UpdateNode
  <2>3. made[id] # 0 /\ Covers(seq, local[d].nodes[id].v)
    BY <1>2, <2>1 DEF SoundProfile, ProfileSound, NodesSound
  <2>4. made'[id] # 0 /\ \A j \in Ids : made[j] # 0 => made'[j] = made[j]
    BY <2>2, <2>3
  <2> QED BY <1>1, <2>1, <2>2, <2>3, <2>4, PutNodeSound
<1>5. ASSUME NEW d \in Devices, NEW id \in Ids, DeleteTombstones(d, id)
      PROVE  Sound' /\ Grown
  <2>1. PICK ids \in SUBSET Ids : TombsStep(d, ids)
    BY <1>1, <1>5, DeleteTombstonesStep
  <2>2. UNCHANGED <<remote, backup, made, top>>
    BY <1>5 DEF DeleteTombstones
  <2> QED BY <1>1, <2>1, <2>2, TombsSoundStep
<1>6. ASSUME NEW d \in Devices, Backup(d)
      PROVE  Sound' /\ Grown
  <2>1. UNCHANGED <<local, deleting, cycle, seq, made, gone, top, remote>> /\ backup' = local[d]
    BY <1>6 DEF Backup, store, history
  <2>2. Grown
    BY <2>1, NothingGrows
  <2>3. StoreSound' /\ CyclesSound'
    BY <1>1, <2>1, <2>2, KeptSound
  <2>4. VaultSound'
    BY <1>2, <2>1 DEF Sound, VaultSound, SoundProfile
  <2> QED BY <1>1, <2>2, <2>3, <2>4 DEF Sound
<1>7. ASSUME NEW d \in Devices, Restore(d)
      PROVE  Sound' /\ Grown
  <2>1. OnlyLocal(d, backup) /\ gone' = gone \cup (Present(local[d]) \ Present(backup)) /\ KeepsCycles
    BY <1>1, <1>7, RestoreStep
  <2>2. UNCHANGED <<deleting, seq, remote, backup, made, top>>
    BY <1>7 DEF Restore
  <2>3. Grown
    <3>1. seq \in Vectors /\ top \in [Ids -> Vectors]
      BY <1>1 DEF Shape, CountsOK, HistoryOK, Vectors
    <3> QED BY <2>1, <2>2, <3>1, CoversIsOrder DEF Grown
  <2>4. CyclesSound' /\ VaultSound'
    BY <1>1, <2>1, <2>2, <2>3, KeptSound
  <2>5. backup \in Profiles /\ ProfileSound(backup, seq', top', gone', made')
    BY <1>1, <2>3, Carried DEF Sound, VaultSound, Shape, VaultOK
  <2>6. StoreSound'
    BY <1>1, <2>1, <2>2, <2>3, <2>5, ReplacedSound
  <2> QED BY <1>1, <2>3, <2>4, <2>6 DEF Sound
<1>8. ASSUME NEW d \in Devices, DeleteNodes(d)
      PROVE  Sound' /\ Grown
  BY <1>1, <1>8, DeleteNodesStep, DeleteNodesSound DEF DeleteNodes
<1>9. ASSUME NEW d \in Devices, Crash(d)
      PROVE  Sound' /\ Grown
  <2>1. /\ \A e \in Devices, k \in Lanes : cycle'[e][k] = IF e = d THEN NoCycle ELSE cycle[e][k]
        /\ \A e \in Devices : deleting'[e] = IF e = d THEN NotDeleting ELSE deleting[e]
    BY <1>1, <1>9, CrashStep
  <2>2. UNCHANGED <<local, seq, remote, backup, made, gone, top>>
    BY <1>9 DEF Crash, history
  <2>3. Grown
    BY <2>2, NothingGrows
  <2>4. SoundNodes(NotDeleting.nodes) /\ NotDeleting.ids = {}
    BY NoCycleSound, EmptyShape DEF NotDeleting
  <2>5. StoreSound'
    <3>1. \A e \in Devices : SoundNodes(deleting'[e].nodes) /\ deleting'[e].ids \subseteq gone
      BY <2>1, <2>4 DEF Sound, StoreSound
    <3> QED BY <2>2, <3>1 DEF Sound, StoreSound, SoundNodes, SoundProfile
  <2>6. CyclesSound'
    <3>1. \A e \in Devices, k \in Lanes :
            SoundProfile(cycle'[e][k].raw) /\ SoundProfile(cycle'[e][k].merged) /\ SoundNodes(cycle'[e][k].nodes)
      BY <2>1, NoCycleSound DEF Sound, CyclesSound
    <3> QED BY <2>2, <3>1 DEF CyclesSound, SoundProfile, SoundNodes
  <2>7. VaultSound'
    BY <1>1, <2>2, <2>3, KeptSound
  <2> QED BY <1>1, <2>3, <2>5, <2>6, <2>7 DEF Sound
<1>10. ASSUME NEW d \in Devices, NEW l \in Lanes, Cycle(d, l) \/ AnswerLost(d, l)
       PROVE  Sound' /\ Grown
  BY <1>1, <1>10, CycleStepsSound
<1>11. ASSUME Tick \/ UNCHANGED vars
       PROVE  Sound' /\ Grown
  <2>1. UNCHANGED <<local, deleting, cycle, seq, made, gone, top, remote, backup>>
    BY <1>11 DEF Tick, vars, store, history
  <2>2. Grown
    BY <2>1, NothingGrows
  <2>3. StoreSound' /\ CyclesSound' /\ VaultSound'
    BY <1>1, <2>1, <2>2, KeptSound
  <2> QED BY <1>1, <2>2, <2>3 DEF Sound
<1> QED
  BY <1>3, <1>4, <1>5, <1>6, <1>7, <1>8, <1>9, <1>10, <1>11 DEF Next, Person

-----------------------------------------------------------------------------
(* What a cycle that read the vault may rely on.                           *)

\* One machine runs one cycle at a time.
OneLane == \A k, l \in Lanes : k = l

\* Of a cycle that holds the reading r of the vault under the state e of the version it will state:
\* what still counts as fresh is what the vault holds, and only that may be written over.
Fresh(c, r, e) ==
  c.pc # "idle" => (c.fresh => c.raw = r) /\ e # "unknown" /\ (e = "current" => c.fresh)

\* What a merge made of a reading knows all the reading knew, and holds nothing new that it knew.
Learned(m, raw) ==
  /\ Covers(m.horizon, raw.horizon)
  /\ \A id \in Ids :
       m.nodes[id] # NoNode /\ raw.nodes[id] = NoNode /\ raw.tombs[id] = NoTomb
       => ~Covers(raw.horizon, m.nodes[id].v)

Learnt(c) == c.pc \in {"apply", "applying", "push", "pushing"} => Learned(c.merged, c.raw)

FreshOK ==
  \A d \in Devices, l \in Lanes : Fresh(cycle[d][l], remote, etag[d]) /\ Learnt(cycle[d][l])

\* The steps that replace the vault, and the others.
Replaces(d, l) == Sending(d, l) /\ Accepts(d, l) /\ OverwriteStep(d, l)

LEMMA RemoteStep ==
  ASSUME Shape, [Next]_vars
  PROVE  remote' = remote \/ \E d \in Devices, l \in Lanes : Replaces(d, l)
<1>1. ASSUME NEW d \in Devices, NEW l \in Lanes, WriteVault(d, l) \/ AnswerLost(d, l)
      PROVE  Replaces(d, l)
  <2>1. PICK after \in {"current", "stale"} : Overwrite(d, l, after)
    BY <1>1 DEF WriteVault, AnswerLost
  <2>2. OverwriteStep(d, l)
    BY <2>1, OverwriteSteps
  <2> QED BY <1>1, <2>2 DEF WriteVault, AnswerLost, Replaces
<1>2. ASSUME NEW d \in Devices, Person(d) \/ DeleteNodes(d) \/ Crash(d)
      PROVE  remote' = remote
  BY <1>2 DEF Person, AddNode, UpdateNode, DeleteTombstones, Backup, Restore, DeleteNodes, Crash
<1>3. ASSUME NEW d \in Devices, NEW l \in Lanes, Cycle(d, l)
      PROVE  remote' = remote \/ Replaces(d, l)
  BY <1>1, <1>3 DEF Cycle, ReadVault, IdleCycle, SnapshotNodes, MergeSnapshot, ApplyNodes, ApplyRest,
                    GitReset, WriteRefused
<1>4. Tick \/ UNCHANGED vars => remote' = remote
  BY DEF Tick, vars
<1> QED BY <1>1, <1>2, <1>3, <1>4 DEF Next

\* The cycles hold what they held, and neither the vault nor what they state of it moved.
LEMMA FreshKept ==
  ASSUME FreshOK, KeepsCycles, UNCHANGED <<remote, etag>>
  PROVE  FreshOK'
BY DEF FreshOK, Fresh, Learnt, KeepsCycles

\* One cycle moved, and the vault and what the others state of it did not.
LEMMA FreshMove ==
  ASSUME FreshOK, OneLane, NEW d \in Devices, NEW l \in Lanes, NEW rec, CyclesMove(d, l, rec),
         remote' = remote, \A e \in Devices : e # d => etag'[e] = etag[e],
         Fresh(rec, remote, etag'[d]), Learnt(rec)
  PROVE  FreshOK'
<1>1. ASSUME NEW e \in Devices, NEW k \in Lanes
      PROVE  Fresh(cycle'[e][k], remote, etag'[e]) /\ Learnt(cycle'[e][k])
  <2>1. CASE e = d
    BY <2>1 DEF CyclesMove, OneLane
  <2>2. CASE e # d
    BY <2>2 DEF CyclesMove, FreshOK, Fresh, Learnt
  <2> QED BY <2>1, <2>2
<1> QED BY <1>1 DEF FreshOK

LEMMA StepMoves ==
  ASSUME NEW d \in Devices, NEW l \in Lanes, NEW rec, CycleStep(d, l, rec)
  PROVE  CyclesMove(d, l, rec)
BY DEF CycleStep, OnlyCycle, CyclesMove

\* What a cycle merged with its reading.
LEMMA MergedLearned ==
  ASSUME Sound, NEW d \in Devices, NEW l \in Lanes
  PROVE  Learned(Merged(d, l), cycle[d][l].raw)
<1> DEFINE p == Snapshot(d, l)
           q == cycle[d][l].raw
           r == MergeProfiles(p, q, Stamp(d))
<1>1. p \in Profiles /\ q \in Profiles /\ Stamp(d) \in Nat
  BY MergedShape, StampShape DEF Sound
<1>2. NodesSound(p.nodes, seq, top, made)
  BY MergedIsSound DEF SoundProfile, ProfileSound
<1> HIDE DEF p, q
<1>3. Covers(r.horizon, q.horizon)
  BY <1>1, MergeCases
<1>4. ASSUME NEW id \in Ids, r.nodes[id] # NoNode, q.nodes[id] = NoNode, q.tombs[id] = NoTomb
      PROVE  ~Covers(q.horizon, r.nodes[id].v)
  <2>1. Winner(id, p, q) # NoNode /\ r.nodes[id].v = Winner(id, p, q).v
    BY <1>1, <1>4, MergeCases
  <2>2. p.nodes[id] # NoNode /\ ~IsPhantom(p.nodes[id], q, id) /\ Winner(id, p, q) = p.nodes[id]
    BY <1>1, <1>4, <2>1, WinnerCases
  <2>3. p.nodes[id].v # EmptyVector
    BY <1>2, <2>2 DEF NodesSound
  <2> QED BY <1>4, <2>1, <2>2, <2>3 DEF IsPhantom
<1>5. Learned(r, q)
  BY <1>3, <1>4 DEF Learned
<1> QED BY <1>5 DEF Merged, p, q

LEMMA NextFresh == ASSUME OneLane PROVE Sound /\ FreshOK /\ [Next]_vars => FreshOK'
<1> SUFFICES ASSUME Sound, FreshOK, [Next]_vars PROVE FreshOK'
  OBVIOUS
<1>1. Shape /\ CyclesOK /\ etag \in [Devices -> {"unknown", "current", "stale", "reread"}]
  BY DEF Sound, Shape, VaultOK
<1>2. NoCycle.pc = "idle" /\ NoCycle \in Cycles
  BY EmptyShape
<1>3. \A r, e : Fresh(NoCycle, r, e) /\ Learnt(NoCycle)
  BY <1>2 DEF Fresh, Learnt
<1>4. ASSUME NEW d \in Devices, NEW l \in Lanes
      PROVE  Fresh(cycle[d][l], remote, etag[d]) /\ Learnt(cycle[d][l])
  BY DEF FreshOK
<1>5. ASSUME NEW d \in Devices, Person(d) \/ DeleteNodes(d)
      PROVE  FreshOK'
  <2>1. UNCHANGED <<remote, etag>>
    BY <1>5 DEF Person, AddNode, UpdateNode, DeleteTombstones, Backup, Restore, DeleteNodes
  <2>2. KeepsCycles
    <3>1. ASSUME NEW id \in Ids, AddNode(d, id) \/ UpdateNode(d, id) PROVE KeepsCycles
      BY <1>1, <3>1, AddNodeStep, UpdateNodeStep DEF PutNodeStep
    <3>2. ASSUME NEW id \in Ids, DeleteTombstones(d, id) PROVE KeepsCycles
      BY <1>1, <3>2, DeleteTombstonesStep DEF TombsStep
    <3>3. ASSUME Backup(d) PROVE KeepsCycles
      BY <3>3 DEF Backup, KeepsCycles
    <3>4. ASSUME Restore(d) PROVE KeepsCycles
      BY <1>1, <3>4, RestoreStep
    <3>5. ASSUME DeleteNodes(d) PROVE KeepsCycles
      BY <1>1, <3>5, DeleteNodesStep DEF NodesStep
    <3> QED BY <1>5, <3>1, <3>2, <3>3, <3>4, <3>5 DEF Person
  <2> QED BY <2>1, <2>2, FreshKept
<1>6. ASSUME NEW d \in Devices, Crash(d)
      PROVE  FreshOK'
  <2>1. /\ \A e \in Devices, k \in Lanes : cycle'[e][k] = IF e = d THEN NoCycle ELSE cycle[e][k]
        /\ \A e \in Devices : e # d => etag'[e] = etag[e]
        /\ remote' = remote
    BY <1>1, <1>6, CrashStep DEF Crash
  <2> QED BY <1>3, <1>4, <2>1 DEF FreshOK
<1>7. ASSUME NEW d \in Devices, NEW l \in Lanes, Cycle(d, l)
      PROVE  FreshOK' \/ WriteVault(d, l)
  <2>1. CASE ReadVault(d, l)
    <3>1. PICK rec \in Cycles :
            /\ CycleStep(d, l, rec) /\ rec.pc = "read" /\ rec.raw = remote /\ rec.fresh = TRUE
      BY <1>1, <2>1, ReadVaultStep
    <3>2. remote' = remote /\ etag' = [etag EXCEPT ![d] = "current"]
      BY <2>1 DEF ReadVault
    <3>3. etag'[d] = "current" /\ \A e \in Devices : e # d => etag'[e] = etag[e]
      BY <1>1, <3>2
    <3>4. Fresh(rec, remote, etag'[d]) /\ Learnt(rec)
      BY <3>1, <3>3 DEF Fresh, Learnt
    <3> QED BY <3>1, <3>2, <3>3, <3>4, StepMoves, FreshMove
  <2>2. CASE IdleCycle(d, l)
    <3>1. CyclesMove(d, l, NoCycle) /\ UNCHANGED <<remote, etag>>
      BY <1>1, <2>2, EndCycleStep, StepMoves DEF IdleCycle
    <3> QED BY <1>3, <3>1, FreshMove
  <2>3. CASE SnapshotNodes(d, l)
    <3>1. PICK rec \in Cycles :
            /\ CycleStep(d, l, rec) /\ cycle[d][l].pc = "read" /\ rec.pc = "snapshot"
            /\ SameReading(rec, cycle[d][l])
      BY <1>1, <2>3, SnapshotNodesStep
    <3>2. UNCHANGED <<remote, etag>>
      BY <2>3 DEF SnapshotNodes
    <3>3. Fresh(rec, remote, etag'[d]) /\ Learnt(rec)
      BY <1>4, <3>1, <3>2 DEF Fresh, Learnt, SameReading
    <3> QED BY <3>1, <3>2, <3>3, StepMoves, FreshMove
  <2>4. CASE MergeSnapshot(d, l)
    <3>1. PICK rec \in Cycles :
            /\ CycleStep(d, l, rec)
            /\ rec = NoCycle \/ (/\ rec.pc \in {"apply", "push"}
                                 /\ SameReading(rec, cycle[d][l]) /\ rec.merged = Merged(d, l))
      BY <1>1, <2>4, MergeSnapshotStep
    <3>2. UNCHANGED <<remote, etag>> /\ cycle[d][l].pc = "snapshot"
      BY <2>4 DEF MergeSnapshot
    <3>3. Fresh(rec, remote, etag'[d])
      BY <1>3, <1>4, <3>1, <3>2 DEF Fresh, SameReading
    <3>4. Learnt(rec)
      BY <1>3, <3>1, MergedLearned DEF Learnt, SameReading
    <3> QED BY <3>1, <3>2, <3>3, <3>4, StepMoves, FreshMove
  <2>5. CASE ApplyNodes(d, l)
    <3>1. PICK q \in Profiles, rec \in Cycles :
            /\ ApplyStep(d, l, q, rec) /\ cycle[d][l].pc = "apply" /\ rec.pc = "applying"
            /\ rec.raw = cycle[d][l].raw /\ rec.fresh = cycle[d][l].fresh /\ rec.merged = cycle[d][l].merged
      BY <1>1, <2>5, ApplyNodesStep
    <3>2. UNCHANGED <<remote, etag>>
      BY <2>5 DEF ApplyNodes
    <3>3. Fresh(rec, remote, etag'[d]) /\ Learnt(rec)
      BY <1>4, <3>1, <3>2 DEF Fresh, Learnt
    <3> QED BY <3>1, <3>2, <3>3, FreshMove DEF ApplyStep
  <2>6. CASE ApplyRest(d, l)
    <3>1. PICK q \in Profiles, rec \in Cycles :
            /\ ApplyStep(d, l, q, rec) /\ cycle[d][l].pc = "applying"
            /\ rec = NoCycle \/ (/\ rec.pc = "push" /\ rec.raw = cycle[d][l].raw
                                 /\ rec.fresh = cycle[d][l].fresh /\ rec.merged = cycle[d][l].merged)
      BY <1>1, <2>6, ApplyRestStep
    <3>2. UNCHANGED <<remote, etag>>
      BY <2>6 DEF ApplyRest
    <3>3. Fresh(rec, remote, etag'[d]) /\ Learnt(rec)
      BY <1>3, <1>4, <3>1, <3>2 DEF Fresh, Learnt
    <3> QED BY <3>1, <3>2, <3>3, FreshMove DEF ApplyStep
  <2>7. CASE GitReset(d, l)
    <3>1. PICK rec \in Cycles :
            /\ CycleStep(d, l, rec) /\ cycle[d][l].pc = "push" /\ rec.pc = "pushing"
            /\ SameReading(rec, cycle[d][l]) /\ rec.merged = cycle[d][l].merged
      BY <1>1, <2>7, GitResetStep
    <3>2. UNCHANGED <<remote, etag>>
      BY <2>7 DEF GitReset
    <3>3. Fresh(rec, remote, etag'[d]) /\ Learnt(rec)
      BY <1>4, <3>1, <3>2 DEF Fresh, Learnt, SameReading
    <3> QED BY <3>1, <3>2, <3>3, StepMoves, FreshMove
  <2>8. CASE WriteRefused(d, l)
    <3>1. CyclesMove(d, l, NoCycle) /\ remote' = remote /\ etag' = [etag EXCEPT ![d] = "reread"]
      BY <1>1, <2>8, EndCycleStep, StepMoves DEF WriteRefused
    <3>2. \A e \in Devices : e # d => etag'[e] = etag[e]
      BY <1>1, <3>1
    <3> QED BY <1>3, <3>1, <3>2, FreshMove
  <2> QED BY <1>7, <2>1, <2>2, <2>3, <2>4, <2>5, <2>6, <2>7, <2>8 DEF Cycle
<1>8. ASSUME NEW d \in Devices, NEW l \in Lanes, WriteVault(d, l) \/ AnswerLost(d, l)
      PROVE  FreshOK'
  <2>1. PICK after \in {"current", "stale"} : Overwrite(d, l, after)
    BY <1>8 DEF WriteVault, AnswerLost
  <2>2. /\ OverwriteStep(d, l)
        /\ \A e \in Devices :
             etag'[e] = IF e = d THEN after ELSE IF etag[e] = "current" THEN "stale" ELSE etag[e]
    BY <1>1, <2>1, OverwriteSteps
  <2>3. ASSUME NEW e \in Devices, NEW k \in Lanes
        PROVE  Fresh(cycle'[e][k], remote', etag'[e]) /\ Learnt(cycle'[e][k])
    <3>1. CASE e = d
      BY <1>3, <2>2, <3>1 DEF OverwriteStep, OneLane
    <3>2. CASE e # d
      <4>1. /\ cycle'[e][k].pc = cycle[e][k].pc /\ cycle'[e][k].raw = cycle[e][k].raw
            /\ cycle'[e][k].fresh = FALSE /\ cycle'[e][k].merged = cycle[e][k].merged
        BY <2>2, <3>2 DEF OverwriteStep
      <4>2. etag'[e] = IF etag[e] = "current" THEN "stale" ELSE etag[e]
        BY <2>2, <3>2
      <4> QED BY <1>4, <4>1, <4>2 DEF Fresh, Learnt
    <3> QED BY <3>1, <3>2
  <2> QED BY <2>3 DEF FreshOK
<1>9. ASSUME Tick \/ UNCHANGED vars
      PROVE  FreshOK'
  BY <1>9 DEF Tick, vars, FreshOK
<1> QED BY <1>5, <1>6, <1>7, <1>8, <1>9 DEF Next

\* What a write to a vault server replaces is what its cycle read.
LEMMA ReplacesRead ==
  ASSUME Sound, FreshOK, Transport = "server", NEW d \in Devices, NEW l \in Lanes, Replaces(d, l)
  PROVE  /\ cycle[d][l].fresh /\ cycle[d][l].raw = remote /\ remote' = cycle[d][l].merged
         /\ Learned(remote', remote) /\ SoundProfile(cycle[d][l].merged)
<1>1. cycle[d][l].pc = "push"
  BY DEF Replaces, Sending
<1>2. etag[d] \in {"current", "unknown"}
  BY DEF Replaces, Accepts, ServerAccepts
<1>3. Fresh(cycle[d][l], remote, etag[d]) /\ Learnt(cycle[d][l])
  BY DEF FreshOK
<1>4. cycle[d][l].fresh /\ cycle[d][l].raw = remote /\ Learned(cycle[d][l].merged, remote)
  BY <1>1, <1>2, <1>3 DEF Fresh, Learnt
<1> QED BY <1>4 DEF Replaces, OverwriteStep, Sound, CyclesSound

LEMMA SyncInvariant == ASSUME OneLane PROVE Spec => [](Sound /\ FreshOK)
<1>1. Init => FreshOK
  <2>1. NoCycle.pc = "idle"
    BY EmptyShape
  <2> QED BY <2>1 DEF Init, FreshOK, Fresh, Learnt
<1>2. Init => Sound
  BY InitSound
<1>3. Sound /\ FreshOK /\ [Next]_vars => Sound' /\ FreshOK'
  BY NextSound, NextFresh
<1> QED BY <1>1, <1>2, <1>3, PTL DEF Spec

\* A cycle replaces the version of a vault server's vault it read and no other: two machines that push
\* at once never undo each other's merge (serverTransport.ts, preconditionFor).
THEOREM NoBlindOverwrites == ASSUME OneLane PROVE Spec => NoBlindOverwrite
<1>1. Sound /\ FreshOK /\ [Next]_vars =>
        [\A d \in Devices, l \in Lanes :
           (Transport = "server" /\ Sending(d, l) /\ cycle'[d][l].pc = "idle" /\ remote' # remote)
           => cycle[d][l].fresh]_vars
  <2> SUFFICES ASSUME Sound, FreshOK, [Next]_vars, NEW d \in Devices, NEW l \in Lanes,
                      Transport = "server", Sending(d, l), cycle'[d][l].pc = "idle", remote' # remote
               PROVE  cycle[d][l].fresh
    OBVIOUS
  <2>1. PICK e \in Devices, k \in Lanes : Replaces(e, k)
    BY RemoteStep DEF Sound
  <2>2. cycle[e][k].fresh
    BY <2>1, ReplacesRead
  <2>3. cycle[d][l].pc # "idle"
    BY DEF Sending
  <2>4. e = d /\ k = l
    BY <2>1, <2>3 DEF Replaces, OverwriteStep
  <2> QED BY <2>2, <2>4
<1> QED BY <1>1, SyncInvariant, PTL DEF Spec, NoBlindOverwrite

\* A vault server's vault never loses causal knowledge (syncMerge.ts, mergeHorizon).
THEOREM NeverForgets == ASSUME OneLane PROVE Spec => VaultNeverForgets
<1>1. Sound /\ FreshOK /\ [Next]_vars =>
        [Transport = "server" => Covers(remote'.horizon, remote.horizon)]_vars
  <2> SUFFICES ASSUME Sound, FreshOK, [Next]_vars, Transport = "server"
               PROVE  Covers(remote'.horizon, remote.horizon)
    OBVIOUS
  <2>1. CASE remote' = remote
    <3>1. remote.horizon \in Vectors
      BY ProfileParts DEF Sound, Shape, VaultOK
    <3> QED BY <2>1, <3>1, CoversIsOrder
  <2>2. CASE remote' # remote
    <3>1. PICK e \in Devices, k \in Lanes : Replaces(e, k)
      BY <2>2, RemoteStep DEF Sound
    <3> QED BY <3>1, ReplacesRead DEF Learned
  <2> QED BY <2>1, <2>2
<1> QED BY <1>1, SyncInvariant, PTL DEF Spec, VaultNeverForgets

\* What the vault dropped, and knows every version of, no cycle of any machine brings back
\* (syncMerge.ts, isPhantom).
THEOREM NoResurrection == ASSUME OneLane PROVE Spec => DeletedStaysDeleted
<1>1. Sound /\ FreshOK /\ [Next]_vars =>
        [\A id \in Ids :
           (Transport = "server" /\ id \notin Present(remote) /\ remote.tombs[id] = NoTomb /\ VaultKnows(id))
           => id \notin Present(remote')]_vars
  <2> SUFFICES ASSUME Sound, FreshOK, [Next]_vars, NEW id \in Ids,
                      Transport = "server", id \notin Present(remote), remote.tombs[id] = NoTomb,
                      VaultKnows(id), id \in Present(remote')
               PROVE  FALSE
    OBVIOUS
  <2>1. remote' # remote
    OBVIOUS
  <2>2. PICK e \in Devices, k \in Lanes : Replaces(e, k)
    BY <2>1, RemoteStep DEF Sound
  <2> DEFINE m == cycle[e][k].merged
  <2>3. remote' = m /\ Learned(m, remote) /\ SoundProfile(m)
    BY <2>2, ReplacesRead
  <2>4. m \in Profiles /\ remote.horizon \in Vectors /\ top[id] \in Vectors
    BY SoundShape, ProfileParts
  <2> HIDE DEF m
  <2>5. m.nodes[id] # NoNode /\ remote.nodes[id] = NoNode
    BY <2>3 DEF Present
  <2>6. ~Covers(remote.horizon, m.nodes[id].v)
    BY <2>3, <2>5 DEF Learned
  <2>7. Covers(top[id], m.nodes[id].v) /\ m.nodes[id].v \in Vectors
    BY <2>3, <2>4, <2>5, ProfileParts DEF SoundProfile, ProfileSound, NodesSound
  <2> QED BY <2>4, <2>6, <2>7, CoversIsOrder DEF VaultKnows
<1> QED BY <1>1, SyncInvariant, PTL DEF Spec, DeletedStaysDeleted

-----------------------------------------------------------------------------
(* Where nobody writes inside a cycle, what a machine reads stands still.  *)

\* What a cycle read of the tree, and what it wrote of it, is what the tree still is.
Quiet(c, nodes) ==
  /\ c.pc = "snapshot" => c.nodes = nodes
  /\ c.pc = "applying" => c.merged.nodes = nodes

Still ==
  \A d \in Devices :
    /\ deleting[d] # NotDeleting =>
         deleting[d].nodes = local[d].nodes /\ \A l \in Lanes : cycle[d][l].pc = "idle"
    /\ \A l \in Lanes : Quiet(cycle[d][l], local[d].nodes)

\* A write of one machine, where none of its cycles is under way.
LEMMA StillWrite ==
  ASSUME Still, NEW d \in Devices, KeepsCycles, \A l \in Lanes : cycle[d][l].pc = "idle",
         \A e \in Devices : e # d => local'[e] = local[e] /\ deleting'[e] = deleting[e],
         deleting'[d] # NotDeleting => deleting'[d].nodes = local'[d].nodes
  PROVE  Still'
<1>1. ASSUME NEW e \in Devices, e # d
      PROVE  /\ deleting'[e] # NotDeleting =>
                  deleting'[e].nodes = local'[e].nodes /\ \A l \in Lanes : cycle'[e][l].pc = "idle"
             /\ \A l \in Lanes : Quiet(cycle'[e][l], local'[e].nodes)
  BY <1>1 DEF Still, Quiet, KeepsCycles
<1>2. \A l \in Lanes : cycle'[d][l].pc = "idle" /\ Quiet(cycle'[d][l], local'[d].nodes)
  BY DEF Quiet, KeepsCycles
<1> QED BY <1>1, <1>2 DEF Still

\* A step of a machine's only cycle.
LEMMA StillMove ==
  ASSUME Still, OneLane, NEW d \in Devices, NEW l \in Lanes, NEW rec, CyclesMove(d, l, rec),
         \A e \in Devices : e # d => local'[e] = local[e],
         deleting' = deleting, deleting[d] = NotDeleting, Quiet(rec, local'[d].nodes)
  PROVE  Still'
<1>1. ASSUME NEW e \in Devices, e # d
      PROVE  /\ deleting'[e] # NotDeleting =>
                  deleting'[e].nodes = local'[e].nodes /\ \A k \in Lanes : cycle'[e][k].pc = "idle"
             /\ \A k \in Lanes : Quiet(cycle'[e][k], local'[e].nodes)
  BY <1>1 DEF Still, Quiet, CyclesMove
<1>2. deleting'[d] = NotDeleting /\ \A k \in Lanes : cycle'[d][k] = rec
  BY DEF CyclesMove, OneLane
<1> QED BY <1>1, <1>2 DEF Still

LEMMA NextStill ==
  ASSUME OneLane
  PROVE  Shape /\ ~Interleave /\ Still /\ [Next]_vars => Still'
<1> SUFFICES ASSUME Shape, ~Interleave, Still, [Next]_vars PROVE Still'
  OBVIOUS
<1>1. CyclesOK /\ StoreOK
  BY DEF Shape
<1>2. NoCycle.pc = "idle" /\ \A nodes : Quiet(NoCycle, nodes)
  BY EmptyShape DEF Quiet
<1>3. ASSUME NEW d \in Devices, NEW l \in Lanes, cycle[d][l].pc # "idle"
      PROVE  deleting[d] = NotDeleting
  BY <1>3 DEF Still
<1>4. ASSUME NEW d \in Devices, MayWrite(d)
      PROVE  deleting[d] = NotDeleting /\ \A l \in Lanes : cycle[d][l].pc = "idle"
  BY <1>4 DEF MayWrite, Busy
<1>5. ASSUME NEW d \in Devices, NEW id \in Ids, AddNode(d, id) \/ UpdateNode(d, id)
      PROVE  Still'
  <2>1. PICK v \in Vectors : PutNodeStep(d, id, v)
    BY <1>5, AddNodeStep, UpdateNodeStep, EmptyShape
  <2>2. MayWrite(d) /\ deleting' = deleting
    BY <1>5 DEF AddNode, UpdateNode
  <2>3. KeepsCycles /\ \A e \in Devices : e # d => local'[e] = local[e]
    BY <2>1 DEF PutNodeStep
  <2> QED BY <1>4, <2>2, <2>3, StillWrite
<1>6. ASSUME NEW d \in Devices, NEW id \in Ids, DeleteTombstones(d, id)
      PROVE  Still'
  <2>1. PICK ids \in SUBSET Ids : TombsStep(d, ids)
    BY <1>6, DeleteTombstonesStep
  <2>2. MayWrite(d)
    BY <1>6 DEF DeleteTombstones
  <2>3. deleting'[d] = [ids |-> ids, nodes |-> local[d].nodes]
    BY <1>1, <2>1 DEF TombsStep, StoreOK
  <2>4. deleting'[d].nodes = local'[d].nodes
    BY <2>1, <2>3 DEF TombsStep
  <2>5. \A e \in Devices : e # d => local'[e] = local[e] /\ deleting'[e] = deleting[e]
    BY <1>1, <2>1 DEF TombsStep, StoreOK
  <2>6. KeepsCycles
    BY <2>1 DEF TombsStep
  <2> QED BY <1>4, <2>2, <2>4, <2>5, <2>6, StillWrite
<1>7. ASSUME NEW d \in Devices, Restore(d)
      PROVE  Still'
  <2>1. OnlyLocal(d, backup) /\ KeepsCycles
    BY <1>7, RestoreStep
  <2>2. deleting' = deleting /\ deleting[d] = NotDeleting /\ \A l \in Lanes : cycle[d][l].pc = "idle"
    BY <1>7 DEF Restore, Busy
  <2>3. \A e \in Devices : e # d => local'[e] = local[e]
    BY <2>1 DEF OnlyLocal
  <2> QED BY <2>1, <2>2, <2>3, StillWrite
<1>8. ASSUME NEW d \in Devices, DeleteNodes(d)
      PROVE  Still'
  <2>1. NodesStep(d)
    BY <1>8, DeleteNodesStep
  <2>2. deleting'[d] = NotDeleting
        /\ \A e \in Devices : e # d => local'[e] = local[e] /\ deleting'[e] = deleting[e]
    BY <1>1, <2>1 DEF NodesStep, StoreOK
  <2>3. KeepsCycles /\ \A l \in Lanes : cycle[d][l].pc = "idle"
    BY <2>1 DEF NodesStep, Still
  <2> QED BY <2>2, <2>3, StillWrite
<1>9. ASSUME NEW d \in Devices, Crash(d)
      PROVE  Still'
  <2>1. /\ \A e \in Devices, k \in Lanes : cycle'[e][k] = IF e = d THEN NoCycle ELSE cycle[e][k]
        /\ \A e \in Devices : deleting'[e] = IF e = d THEN NotDeleting ELSE deleting[e]
        /\ local' = local
    BY <1>9, CrashStep DEF Crash
  <2> QED BY <1>2, <2>1 DEF Still
<1>10. ASSUME NEW d \in Devices, NEW l \in Lanes, Cycle(d, l) \/ AnswerLost(d, l)
       PROVE  Still'
  <2>1. CASE ReadVault(d, l)
    <3>1. PICK rec \in Cycles : CycleStep(d, l, rec) /\ rec.pc = "read"
      BY <2>1, ReadVaultStep
    <3>2. UNCHANGED <<local, deleting>> /\ deleting[d] = NotDeleting
      BY <2>1 DEF ReadVault, store
    <3>3. Quiet(rec, local'[d].nodes)
      BY <3>1 DEF Quiet
    <3> QED BY <3>1, <3>2, <3>3, StepMoves, StillMove
  <2>2. CASE IdleCycle(d, l) \/ WriteRefused(d, l)
    <3>1. CyclesMove(d, l, NoCycle)
      BY <1>1, <2>2, EndCycleStep, StepMoves DEF IdleCycle, WriteRefused
    <3>2. UNCHANGED <<local, deleting>> /\ cycle[d][l].pc # "idle"
      BY <2>2 DEF IdleCycle, WriteRefused, Sending, store
    <3> QED BY <1>2, <1>3, <3>1, <3>2, StillMove
  <2>3. CASE SnapshotNodes(d, l)
    <3>1. PICK rec \in Cycles :
            /\ CycleStep(d, l, rec) /\ cycle[d][l].pc = "read" /\ rec.pc = "snapshot"
            /\ rec.nodes = local[d].nodes
      BY <2>3, SnapshotNodesStep
    <3>2. UNCHANGED <<local, deleting>>
      BY <2>3 DEF SnapshotNodes, store
    <3>3. Quiet(rec, local'[d].nodes)
      BY <3>1, <3>2 DEF Quiet
    <3> QED BY <1>3, <3>1, <3>2, <3>3, StepMoves, StillMove
  <2>4. CASE MergeSnapshot(d, l)
    <3>1. PICK rec \in Cycles : CycleStep(d, l, rec) /\ (rec = NoCycle \/ rec.pc \in {"apply", "push"})
      BY <2>4, MergeSnapshotStep
    <3>2. UNCHANGED <<local, deleting>> /\ cycle[d][l].pc = "snapshot"
      BY <2>4 DEF MergeSnapshot, store
    <3>3. Quiet(rec, local'[d].nodes)
      BY <1>2, <3>1 DEF Quiet
    <3> QED BY <1>3, <3>1, <3>2, <3>3, StepMoves, StillMove
  <2>5. CASE ApplyNodes(d, l)
    <3>1. PICK q \in Profiles, rec \in Cycles :
            /\ ApplyStep(d, l, q, rec) /\ cycle[d][l].pc = "apply" /\ rec.pc = "applying"
            /\ rec.merged = cycle[d][l].merged /\ q.nodes = cycle[d][l].merged.nodes
      BY <2>5, ApplyNodesStep
    <3>2. deleting' = deleting
      BY <2>5 DEF ApplyNodes
    <3>3. local'[d] = q /\ CyclesMove(d, l, rec) /\ \A e \in Devices : e # d => local'[e] = local[e]
      BY <3>1 DEF ApplyStep, OnlyLocal
    <3>4. Quiet(rec, local'[d].nodes)
      BY <3>1, <3>3 DEF Quiet
    <3> QED BY <1>3, <3>1, <3>2, <3>3, <3>4, StillMove
  <2>6. CASE ApplyRest(d, l)
    <3>1. PICK q \in Profiles, rec \in Cycles :
            /\ ApplyStep(d, l, q, rec) /\ cycle[d][l].pc = "applying"
            /\ rec = NoCycle \/ rec.pc = "push"
      BY <2>6, ApplyRestStep
    <3>2. deleting' = deleting
      BY <2>6 DEF ApplyRest
    <3>3. CyclesMove(d, l, rec) /\ \A e \in Devices : e # d => local'[e] = local[e]
      BY <3>1 DEF ApplyStep, OnlyLocal
    <3>4. Quiet(rec, local'[d].nodes)
      BY <1>2, <3>1 DEF Quiet
    <3> QED BY <1>3, <3>1, <3>2, <3>3, <3>4, StillMove
  <2>7. CASE GitReset(d, l)
    <3>1. PICK rec \in Cycles : CycleStep(d, l, rec) /\ cycle[d][l].pc = "push" /\ rec.pc = "pushing"
      BY <2>7, GitResetStep
    <3>2. UNCHANGED <<local, deleting>>
      BY <2>7 DEF GitReset, store
    <3>3. Quiet(rec, local'[d].nodes)
      BY <3>1 DEF Quiet
    <3> QED BY <1>3, <3>1, <3>2, <3>3, StepMoves, StillMove
  <2>8. CASE WriteVault(d, l) \/ AnswerLost(d, l)
    <3>1. PICK after \in {"current", "stale"} : Overwrite(d, l, after)
      BY <2>8 DEF WriteVault, AnswerLost
    <3>2. OverwriteStep(d, l)
      BY <3>1, OverwriteSteps
    <3>3. UNCHANGED <<local, deleting>>
      BY <2>8 DEF WriteVault, AnswerLost, store
    <3>4. \A e \in Devices, k \in Lanes :
            \/ cycle'[e][k] = NoCycle
            \/ /\ cycle'[e][k].pc = cycle[e][k].pc /\ cycle'[e][k].nodes = cycle[e][k].nodes
               /\ cycle'[e][k].merged = cycle[e][k].merged
      BY <3>2 DEF OverwriteStep
    <3> QED BY <1>2, <3>3, <3>4 DEF Still, Quiet
  <2> QED BY <1>10, <2>1, <2>2, <2>3, <2>4, <2>5, <2>6, <2>7, <2>8 DEF Cycle
<1>11. ASSUME Tick \/ UNCHANGED vars \/ \E d \in Devices : Backup(d)
       PROVE  Still'
  BY <1>11 DEF Tick, Backup, vars, store, Still
<1> QED
  BY <1>5, <1>6, <1>7, <1>8, <1>9, <1>10, <1>11 DEF Next, Person

-----------------------------------------------------------------------------
(* Whoever has heard of a node has the node, until a person deletes it: id *)
(* was added by m under the number b or carries a number of m past b.      *)

\* Some part of p knows a number of m at b or past it.
Reaches(p, m, b) ==
  \/ p.horizon[m] >= b
  \/ \E j \in Ids : p.nodes[j] # NoNode /\ p.nodes[j].v[m] >= b
  \/ \E j \in Ids : p.tombs[j] # NoTomb /\ p.tombs[j].v[m] >= b

Has(p, id, m, b) ==
  /\ p.nodes[id] # NoNode => p.nodes[id].v[m] >= b
  /\ Reaches(p, m, b) => p.nodes[id] # NoNode

\* A cycle: what it read and what it will write; and it takes nothing out of the tree p it applies to.
CycleHas(c, p, id, m, b) ==
  /\ Has(c.raw, id, m, b) /\ Has(c.merged, id, m, b)
  /\ c.pc = "apply" /\ Reaches(p, m, b) => c.merged.nodes[id] # NoNode

Lives(id, m, b) ==
  /\ local[m].nodes[id] # NoNode
  /\ \A d \in Devices : /\ Has(local[d], id, m, b)
                        /\ \A l \in Lanes : CycleHas(cycle[d][l], local[d], id, m, b)
  /\ Has(remote, id, m, b) /\ Has(backup, id, m, b)

AllLive ==
  \A id \in Ids, m \in Devices :
    made[id] = m /\ id \notin gone => \E b \in 1..seq[m] : Lives(id, m, b)

\* A profile that knows no more of m than one that has the node, and kept the node.
LEMMA HasFrom ==
  ASSUME NEW p, NEW p2, NEW id \in Ids, NEW m, NEW b, Has(p, id, m, b),
         p2.horizon[m] = p.horizon[m],
         \A j \in Ids : p2.nodes[j] # NoNode => p.nodes[j] # NoNode /\ p2.nodes[j].v[m] = p.nodes[j].v[m],
         \A j \in Ids : p2.tombs[j] # NoTomb =>
           \/ p.tombs[j] # NoTomb /\ p2.tombs[j].v[m] = p.tombs[j].v[m]
           \/ p.nodes[j] # NoNode /\ p2.tombs[j].v[m] = p.nodes[j].v[m],
         p.nodes[id] # NoNode => p2.nodes[id] # NoNode
  PROVE  Has(p2, id, m, b)
<1>1. ASSUME Reaches(p2, m, b) PROVE Reaches(p, m, b)
  <2>1. CASE p2.horizon[m] >= b
    BY <2>1 DEF Reaches
  <2>2. ASSUME NEW j \in Ids, p2.nodes[j] # NoNode, p2.nodes[j].v[m] >= b PROVE Reaches(p, m, b)
    BY <2>2 DEF Reaches
  <2>3. ASSUME NEW j \in Ids, p2.tombs[j] # NoTomb, p2.tombs[j].v[m] >= b PROVE Reaches(p, m, b)
    BY <2>3 DEF Reaches
  <2> QED BY <1>1, <2>1, <2>2, <2>3 DEF Reaches
<1> QED BY <1>1 DEF Has

\* A profile that holds nothing reaches nothing.
LEMMA EmptyHas ==
  ASSUME NEW id \in Ids, NEW m \in Devices, NEW b \in Nat \ {0}, NEW p
  PROVE  Has(EmptyProfile, id, m, b) /\ CycleHas(NoCycle, p, id, m, b)
<1>1. Has(EmptyProfile, id, m, b)
  BY DEF Has, Reaches, EmptyProfile, EmptyVector
<1> QED BY <1>1, EmptyShape DEF CycleHas

\* A merge of two profiles that have the node has it, where nobody deleted it.
LEMMA MergeHas ==
  ASSUME NEW p \in Profiles, NEW q \in Profiles, NEW time \in Nat,
         NEW s \in Vectors, NEW t, NEW g, NEW md,
         ProfileSound(p, s, t, g, md), ProfileSound(q, s, t, g, md),
         NEW id \in Ids, id \notin g, NEW m \in Devices, NEW b \in Nat \ {0},
         Has(p, id, m, b), Has(q, id, m, b)
  PROVE  /\ Has(MergeProfiles(p, q, time), id, m, b)
         /\ Reaches(p, m, b) => MergeProfiles(p, q, time).nodes[id] # NoNode
<1> DEFINE r == MergeProfiles(p, q, time)
           a == p.nodes[id]
           z == q.nodes[id]
<1>1. /\ \A j \in Ids : r.nodes[j] # NoNode => /\ Winner(j, p, q) # NoNode
                                               /\ r.nodes[j].v = Winner(j, p, q).v
      /\ p.tombs[id] = NoTomb /\ q.tombs[id] = NoTomb /\ Winner(id, p, q) # NoNode => r.nodes[id] # NoNode
      /\ \A j \in Ids : r.tombs[j] # NoTomb => BuriedFrom(r.tombs[j].v, p.tombs[j], q.tombs[j])
      /\ \A c \in Vectors :
           (/\ Covers(c, p.horizon) /\ Covers(c, q.horizon)
            /\ \A j \in Ids : r.nodes[j] # NoNode => Covers(c, r.nodes[j].v)
            /\ \A j \in Ids : \A v \in Vectors : BuriedFrom(v, p.tombs[j], q.tombs[j]) => Covers(c, v))
           => Covers(c, r.horizon)
      /\ r \in Profiles
  BY MergeCases
<1> HIDE DEF r
<1>2. \A j \in Ids : r.nodes[j] # NoNode => MergedFrom(r.nodes[j].v, p.nodes[j], q.nodes[j])
  BY <1>1, WinnerCases
<1>3. ASSUME NEW j \in Ids
      PROVE  /\ p.nodes[j] # NoNode => p.nodes[j].v \in Vectors /\ Covers(s, p.nodes[j].v)
             /\ q.nodes[j] # NoNode => q.nodes[j].v \in Vectors /\ Covers(s, q.nodes[j].v)
             /\ p.tombs[j] # NoTomb => p.tombs[j].v \in Vectors /\ Covers(s, p.tombs[j].v) /\ j \in g
             /\ q.tombs[j] # NoTomb => q.tombs[j].v \in Vectors /\ Covers(s, q.tombs[j].v) /\ j \in g
  <2>1. /\ p.nodes[j] # NoNode => p.nodes[j].v \in Vectors
        /\ q.nodes[j] # NoNode => q.nodes[j].v \in Vectors
        /\ p.tombs[j] # NoTomb => p.tombs[j].v \in Vectors
        /\ q.tombs[j] # NoTomb => q.tombs[j].v \in Vectors
    BY ProfileParts
  <2> QED BY <2>1 DEF ProfileSound, NodesSound, TombsSound
<1>4. /\ p.horizon \in Vectors /\ q.horizon \in Vectors /\ r.horizon \in Vectors
      /\ Covers(s, p.horizon) /\ Covers(s, q.horizon)
  BY <1>1, ProfileParts DEF ProfileSound
\* One entry of the join of two vectors.
<1>5. \A v \in Vectors, w \in Vectors :
        /\ v[m] >= b => MergeVectors(v, w)[m] >= b
        /\ v[m] < b /\ w[m] < b => MergeVectors(v, w)[m] < b
  BY DEF MergeVectors, MaxOf, Vectors
<1>6. r.nodes[id] # NoNode => r.nodes[id].v[m] >= b
  <2>1. /\ a # NoNode => a.v \in Vectors /\ a.v[m] >= b
        /\ z # NoNode => z.v \in Vectors /\ z.v[m] >= b
    BY <1>3 DEF Has
  <2>2. r.nodes[id] # NoNode => MergedFrom(r.nodes[id].v, a, z)
    BY <1>2
  <2> HIDE DEF a, z
  <2> QED BY <1>5, <2>1, <2>2 DEF MergedFrom
<1>7. a # NoNode \/ z # NoNode => r.nodes[id] # NoNode
  <2>1. p.tombs[id] = NoTomb /\ q.tombs[id] = NoTomb
    BY <1>3
  <2>2. CASE a # NoNode /\ z # NoNode
    BY <1>1, <2>1, <2>2, WinnerCases
  <2>3. CASE a # NoNode /\ z = NoNode
    <3>1. a.v[m] >= b /\ a.v \in Vectors
      BY <1>3, <2>3 DEF Has
    <3>2. ~(q.horizon[m] >= b)
      BY <2>3 DEF Has, Reaches
    <3>3. ~Covers(q.horizon, a.v)
      <4> HIDE DEF a
      <4> QED BY <1>4, <3>1, <3>2 DEF Covers, Vectors
    <3>4. ~IsPhantom(a, q, id)
      BY <3>3 DEF IsPhantom
    <3>5. Winner(id, p, q) = a
      BY <2>3, <3>4, WinnerCases
    <3> QED BY <1>1, <2>1, <2>3, <3>5
  <2>4. CASE a = NoNode /\ z # NoNode
    <3>1. z.v[m] >= b /\ z.v \in Vectors
      BY <1>3, <2>4 DEF Has
    <3>2. ~(p.horizon[m] >= b)
      BY <2>4 DEF Has, Reaches
    <3>3. ~Covers(p.horizon, z.v)
      <4> HIDE DEF z
      <4> QED BY <1>4, <3>1, <3>2 DEF Covers, Vectors
    <3>4. ~IsPhantom(z, p, id)
      BY <3>3 DEF IsPhantom
    <3>5. Winner(id, p, q) = z
      BY <2>4, <3>4, WinnerCases
    <3> QED BY <1>1, <2>1, <2>4, <3>5
  <2> QED BY <2>2, <2>3, <2>4
\* What neither side reached the merge does not reach.
<1>8. ASSUME ~Reaches(p, m, b), ~Reaches(q, m, b)
      PROVE  ~Reaches(r, m, b)
  <2> DEFINE c == [s EXCEPT ![m] = b - 1]
             Low(v) == v \in Vectors /\ Covers(s, v) /\ v[m] < b
  <2>1. c \in Vectors /\ c[m] = b - 1 /\ \A e \in Devices : e # m => c[e] = s[e]
    BY DEF Vectors
  <2>2. \A v : Low(v) => Covers(c, v)
    <3> HIDE DEF c
    <3> QED BY <2>1 DEF Covers, Vectors
  <2>3. \A v, w : Low(v) /\ Low(w) => Low(MergeVectors(v, w))
    BY <1>5, MergeVectorsIsJoin
  <2>4. ASSUME NEW j \in Ids
        PROVE  /\ p.nodes[j] # NoNode => Low(p.nodes[j].v)
               /\ q.nodes[j] # NoNode => Low(q.nodes[j].v)
               /\ p.tombs[j] # NoTomb => Low(p.tombs[j].v)
               /\ q.tombs[j] # NoTomb => Low(q.tombs[j].v)
    <3>1. /\ p.nodes[j] # NoNode => ~(p.nodes[j].v[m] >= b)
          /\ q.nodes[j] # NoNode => ~(q.nodes[j].v[m] >= b)
          /\ p.tombs[j] # NoTomb => ~(p.tombs[j].v[m] >= b)
          /\ q.tombs[j] # NoTomb => ~(q.tombs[j].v[m] >= b)
      BY <1>8 DEF Reaches
    <3>2. \A v \in Vectors : v[m] \in Nat
      BY DEF Vectors
    <3> QED BY <1>3, <3>1, <3>2
  <2>5. Low(p.horizon) /\ Low(q.horizon)
    <3>1. ~(p.horizon[m] >= b) /\ ~(q.horizon[m] >= b)
      BY <1>8 DEF Reaches
    <3> QED BY <1>4, <3>1 DEF Vectors
  <2> HIDE DEF c, Low
  <2>6. \A j \in Ids : r.nodes[j] # NoNode => Low(r.nodes[j].v)
    BY <1>2, <2>3, <2>4 DEF MergedFrom
  <2>7. \A j \in Ids : \A v : BuriedFrom(v, p.tombs[j], q.tombs[j]) => Low(v)
    BY <2>3, <2>4 DEF BuriedFrom
  <2>8. Covers(c, r.horizon)
    BY <1>1, <2>1, <2>2, <2>5, <2>6, <2>7
  <2>9. ~(r.horizon[m] >= b)
    BY <1>4, <2>1, <2>8 DEF Covers, Vectors
  <2>10. \A v : Low(v) => ~(v[m] >= b)
    BY DEF Low, Vectors
  <2> QED BY <1>1, <2>6, <2>7, <2>9, <2>10 DEF Reaches
<1>9. Reaches(p, m, b) => r.nodes[id] # NoNode
  BY <1>7 DEF Has
<1>10. Has(r, id, m, b)
  BY <1>6, <1>7, <1>8 DEF Has
<1> QED BY <1>9, <1>10 DEF r

\* A write of one machine, none of whose cycles is under way, that leaves the node with who has it.
LEMMA LivesWrite ==
  ASSUME NEW id \in Ids, NEW m \in Devices, NEW b, Lives(id, m, b), NEW d \in Devices,
         KeepsCycles, \A l \in Lanes : cycle[d][l].pc = "idle",
         \A e \in Devices : e # d => local'[e] = local[e],
         remote' = remote, backup' = backup, Has(local'[d], id, m, b), local'[m].nodes[id] # NoNode
  PROVE  Lives(id, m, b)'
<1>1. ASSUME NEW e \in Devices
      PROVE  Has(local'[e], id, m, b) /\ \A l \in Lanes : CycleHas(cycle'[e][l], local'[e], id, m, b)
  <2>1. \A l \in Lanes : /\ cycle'[e][l].pc = cycle[e][l].pc /\ cycle'[e][l].raw = cycle[e][l].raw
                         /\ cycle'[e][l].merged = cycle[e][l].merged
                         /\ CycleHas(cycle[e][l], local[e], id, m, b)
    BY DEF KeepsCycles, Lives
  <2>2. CASE e = d
    BY <2>1, <2>2 DEF CycleHas
  <2>3. CASE e # d
    BY <2>1, <2>3 DEF CycleHas, Lives
  <2> QED BY <2>2, <2>3
<1> QED BY <1>1 DEF Lives

\* A step of a machine's only cycle.
LEMMA LivesMove ==
  ASSUME OneLane, NEW id \in Ids, NEW m \in Devices, NEW b, Lives(id, m, b),
         NEW d \in Devices, NEW l \in Lanes, NEW rec, CyclesMove(d, l, rec),
         \A e \in Devices : e # d => local'[e] = local[e],
         remote' = remote, backup' = backup,
         Has(local'[d], id, m, b), CycleHas(rec, local'[d], id, m, b), local'[m].nodes[id] # NoNode
  PROVE  Lives(id, m, b)'
<1>1. ASSUME NEW e \in Devices
      PROVE  Has(local'[e], id, m, b) /\ \A k \in Lanes : CycleHas(cycle'[e][k], local'[e], id, m, b)
  <2>1. CASE e = d
    BY <2>1 DEF CyclesMove, OneLane
  <2>2. CASE e # d
    <3>1. \A k \in Lanes : /\ cycle'[e][k].pc = cycle[e][k].pc /\ cycle'[e][k].raw = cycle[e][k].raw
                           /\ cycle'[e][k].merged = cycle[e][k].merged
                           /\ CycleHas(cycle[e][k], local[e], id, m, b)
      BY <2>2 DEF CyclesMove, Lives
    <3> QED BY <2>2, <3>1 DEF CycleHas, Lives
  <2> QED BY <2>1, <2>2
<1> QED BY <1>1 DEF Lives

\* A node put by its person: the numbers of the others stay, and so does what was there.
LEMMA PutNodeLives ==
  ASSUME Sound, NEW id \in Ids, NEW m \in Devices, NEW b \in 1..seq[m], Lives(id, m, b),
         NEW d \in Devices, NEW j \in Ids, NEW v \in Vectors, PutNodeStep(d, j, v),
         local[d].nodes[j] # NoNode => v = local[d].nodes[j].v,
         local[d].nodes[j] = NoNode => v = EmptyVector /\ j # id,
         \A l \in Lanes : cycle[d][l].pc = "idle", remote' = remote, backup' = backup
  PROVE  Lives(id, m, b)'
<1> DEFINE p == local[d]
           p2 == local'[d]
           w == BumpVector(v, d, seq[d] + 1)
<1>1. p \in Profiles /\ p2 \in Profiles /\ seq \in Vectors /\ v[m] \in Nat /\ b \in Nat \ {0}
  BY SoundShape DEF PutNodeStep, Vectors
<1>2. /\ p2.nodes[j] # NoNode /\ p2.nodes[j].v = w
      /\ \A i \in Ids : i # j => p2.nodes[i] = p.nodes[i] /\ p2.tombs[i] = p.tombs[i]
      /\ p2.tombs[j] \in {NoTomb, p.tombs[j]}
      /\ p2.horizon = [p.horizon EXCEPT ![d] = MaxOf(p.horizon[d], seq[d] + 1)]
      /\ KeepsCycles /\ \A e \in Devices : e # d => local'[e] = local[e]
  BY DEF PutNodeStep
<1>3. m # d => w[m] = v[m] /\ p2.horizon[m] = p.horizon[m]
  <2>1. p.horizon \in Vectors
    BY <1>1, ProfileParts
  <2> HIDE DEF p, p2
  <2> QED BY <1>2, <2>1 DEF BumpVector, Vectors
<1>4. m = d => w[m] = seq[m] + 1
  BY DEF BumpVector, Vectors
<1>5. Has(p, id, m, b) /\ local[m].nodes[id] # NoNode
  BY DEF Lives
<1>6. p.nodes[id] # NoNode => p2.nodes[id] # NoNode
  <2> HIDE DEF p, p2, w
  <2> QED BY <1>2
<1>7. Has(p2, id, m, b)
  <2>1. CASE m = d
    <3>1. p2.nodes[id] # NoNode
      BY <1>5, <1>6, <2>1
    <3>2. p2.nodes[id].v[m] >= b
      <4>1. CASE id = j
        <5>1. w[m] >= b
          BY <1>1, <1>4, <2>1 DEF Vectors
        <5> HIDE DEF p, p2, w
        <5> QED BY <1>2, <4>1, <5>1
      <4>2. CASE id # j
        <5>1. p.nodes[id] # NoNode
          BY <1>5, <2>1
        <5> HIDE DEF p, p2, w
        <5> QED BY <1>2, <1>5, <4>2, <5>1 DEF Has
      <4> QED BY <4>1, <4>2
    <3> QED BY <3>1, <3>2 DEF Has
  <2>2. CASE m # d /\ p.nodes[j] # NoNode
    <3>1. w[m] = p.nodes[j].v[m] /\ p2.horizon[m] = p.horizon[m]
      BY <1>3, <2>2
    <3> HIDE DEF p, p2, w
    <3>2. \A i \in Ids : p2.nodes[i] # NoNode => p.nodes[i] # NoNode /\ p2.nodes[i].v[m] = p.nodes[i].v[m]
      BY <1>2, <2>2, <3>1
    <3>3. \A i \in Ids : p2.tombs[i] # NoTomb => p.tombs[i] # NoTomb /\ p2.tombs[i].v[m] = p.tombs[i].v[m]
      BY <1>2
    <3> QED BY <1>5, <1>6, <3>1, <3>2, <3>3, HasFrom
  <2>3. CASE m # d /\ p.nodes[j] = NoNode
    <3>1. w[m] = 0 /\ p2.horizon[m] = p.horizon[m] /\ j # id
      BY <1>3, <2>3 DEF EmptyVector
    <3> HIDE DEF p, p2, w
    <3>2. ASSUME Reaches(p2, m, b) PROVE Reaches(p, m, b)
      <4>1. CASE p2.horizon[m] >= b
        BY <3>1, <4>1 DEF Reaches
      <4>2. ASSUME NEW i \in Ids, p2.nodes[i] # NoNode, p2.nodes[i].v[m] >= b PROVE Reaches(p, m, b)
        <5>1. i # j
          BY <1>1, <1>2, <3>1, <4>2
        <5> QED BY <1>2, <4>2, <5>1 DEF Reaches
      <4>3. ASSUME NEW i \in Ids, p2.tombs[i] # NoTomb, p2.tombs[i].v[m] >= b PROVE Reaches(p, m, b)
        <5>1. p2.tombs[i] = p.tombs[i]
          BY <1>2, <4>3
        <5> QED BY <4>3, <5>1 DEF Reaches
      <4> QED BY <3>2, <4>1, <4>2, <4>3 DEF Reaches
    <3> QED BY <1>2, <1>5, <3>1, <3>2 DEF Has
  <2> QED BY <2>1, <2>2, <2>3
<1>8. local'[m].nodes[id] # NoNode
  <2>1. CASE m = d
    BY <1>5, <1>6, <2>1
  <2>2. CASE m # d
    BY <1>2, <1>5, <2>2
  <2> QED BY <2>1, <2>2
<1> QED BY <1>2, <1>7, <1>8, LivesWrite

\* The other writes of a person, and of a deletion.
LEMMA PersonLives ==
  ASSUME Sound, ~Interleave, Still, NEW id \in Ids, NEW m \in Devices, NEW b \in 1..seq[m],
         Lives(id, m, b), m = made[id], id \notin gone', NEW d \in Devices, Person(d) \/ DeleteNodes(d)
  PROVE  Lives(id, m, b)'
<1>1. /\ Shape /\ local[d] \in Profiles /\ deleting[d] \in Deletions /\ b \in Nat \ {0} /\ m # 0
      /\ local[d].horizon \in Vectors /\ seq \in Vectors
  <2>1. Shape /\ local[d] \in Profiles /\ deleting[d] \in Deletions /\ seq \in Vectors
    BY SoundShape
  <2> QED BY <2>1, ProfileParts, DevicesAssumption DEF Vectors
<1>2. MayWrite(d) => \A l \in Lanes : cycle[d][l].pc = "idle"
  BY DEF MayWrite, Busy
<1>3. Has(local[d], id, m, b) /\ local[m].nodes[id] # NoNode /\ Has(backup, id, m, b)
  BY DEF Lives
<1>4. ASSUME NEW j \in Ids, AddNode(d, j)
      PROVE  Lives(id, m, b)'
  <2>1. PutNodeStep(d, j, EmptyVector) /\ EmptyVector \in Vectors
    BY <1>1, <1>4, AddNodeStep, EmptyShape
  <2>2. made[j] = 0 /\ MayWrite(d) /\ remote' = remote /\ backup' = backup
    BY <1>4 DEF AddNode
  <2>3. local[d].nodes[j] = NoNode
    BY <2>2 DEF Sound, StoreSound, SoundProfile, ProfileSound, NodesSound
  <2>4. j # id
    BY <1>1, <2>2
  <2> QED BY <1>2, <2>1, <2>2, <2>3, <2>4, PutNodeLives
<1>5. ASSUME NEW j \in Ids, UpdateNode(d, j)
      PROVE  Lives(id, m, b)'
  <2>1. /\ PutNodeStep(d, j, local[d].nodes[j].v) /\ local[d].nodes[j].v \in Vectors
        /\ local[d].nodes[j] # NoNode
    BY <1>1, <1>5, UpdateNodeStep
  <2>2. MayWrite(d) /\ remote' = remote /\ backup' = backup
    BY <1>5 DEF UpdateNode
  <2> QED BY <1>2, <2>1, <2>2, PutNodeLives
<1>6. ASSUME NEW j \in Ids, DeleteTombstones(d, j)
      PROVE  Lives(id, m, b)'
  <2>1. PICK ids \in SUBSET Ids : TombsStep(d, ids)
    BY <1>1, <1>6, DeleteTombstonesStep
  <2>2. MayWrite(d) /\ remote' = remote /\ backup' = backup
    BY <1>6 DEF DeleteTombstones
  <2>3. /\ local'[d].nodes = local[d].nodes /\ local'[d].horizon = local[d].horizon
        /\ KeepsCycles /\ \A e \in Devices : e # d => local'[e] = local[e]
    BY <2>1 DEF TombsStep
  <2>4. local'[m].nodes[id] # NoNode
    BY <1>3, <2>3
  <2>5. Has(local'[d], id, m, b)
    <3>1. CASE m = d
      BY <1>3, <2>3, <3>1 DEF Has
    <3>2. CASE m # d
      <4>1. \A i \in Ids : local'[d].tombs[i] # NoTomb =>
              \/ local[d].tombs[i] # NoTomb /\ local'[d].tombs[i].v[m] = local[d].tombs[i].v[m]
              \/ local[d].nodes[i] # NoNode /\ local'[d].tombs[i].v[m] = local[d].nodes[i].v[m]
        <5>1. ASSUME NEW i \in ids
              PROVE  local[d].nodes[i] # NoNode /\ local'[d].tombs[i].v[m] = local[d].nodes[i].v[m]
          <6>1. /\ local[d].nodes[i] # NoNode
                /\ local'[d].tombs[i].v = BumpVector(local[d].nodes[i].v, d, seq[d] + 1)
            BY <2>1 DEF TombsStep, Present
          <6>2. local[d].nodes[i].v \in Vectors
            BY <1>1, <6>1, ProfileParts
          <6>3. BumpVector(local[d].nodes[i].v, d, seq[d] + 1)[m] = local[d].nodes[i].v[m]
            BY <3>2, <6>2 DEF BumpVector, Vectors
          <6> QED BY <6>1, <6>3
        <5>2. \A i \in Ids : i \notin ids => local'[d].tombs[i] = local[d].tombs[i]
          BY <2>1 DEF TombsStep
        <5> QED BY <5>1, <5>2
      <4> DEFINE p == local[d]
                 q == local'[d]
      <4>2. Has(p, id, m, b)
        BY <1>3
      <4>3. \A i \in Ids : q.tombs[i] # NoTomb =>
              \/ p.tombs[i] # NoTomb /\ q.tombs[i].v[m] = p.tombs[i].v[m]
              \/ p.nodes[i] # NoNode /\ q.tombs[i].v[m] = p.nodes[i].v[m]
        BY <4>1
      <4>4. q.horizon[m] = p.horizon[m] /\ q.nodes = p.nodes
        BY <2>3
      <4> HIDE DEF p, q
      <4>5. /\ \A i \in Ids : q.nodes[i] # NoNode => p.nodes[i] # NoNode /\ q.nodes[i].v[m] = p.nodes[i].v[m]
            /\ p.nodes[id] # NoNode => q.nodes[id] # NoNode
        BY <4>4
      <4>6. Has(q, id, m, b)
        BY <4>2, <4>3, <4>4, <4>5, HasFrom
      <4> QED BY <4>6 DEF q
    <3> QED BY <3>1, <3>2
  <2> QED BY <1>2, <2>2, <2>3, <2>4, <2>5, LivesWrite
<1>7. ASSUME Backup(d)
      PROVE  Lives(id, m, b)'
  <2>1. UNCHANGED <<local, cycle, remote>> /\ backup' = local[d]
    BY <1>7 DEF Backup, store
  <2> QED BY <1>3, <2>1 DEF Lives
<1>8. ASSUME Restore(d)
      PROVE  Lives(id, m, b)'
  <2>1. OnlyLocal(d, backup) /\ KeepsCycles /\ gone' = gone \cup (Present(local[d]) \ Present(backup))
    BY <1>1, <1>8, RestoreStep
  <2>2. remote' = remote /\ backup' = backup /\ \A l \in Lanes : cycle[d][l].pc = "idle"
    BY <1>8 DEF Restore, Busy
  <2>3. local'[d] = backup /\ \A e \in Devices : e # d => local'[e] = local[e]
    BY <2>1 DEF OnlyLocal
  <2>4. local'[m].nodes[id] # NoNode
    <3>1. CASE m = d
      <4>1. id \in Present(local[d]) /\ id \notin (Present(local[d]) \ Present(backup))
        BY <1>3, <2>1, <3>1 DEF Present
      <4> QED BY <2>3, <3>1, <4>1 DEF Present
    <3>2. CASE m # d
      BY <1>3, <2>3, <3>2
    <3> QED BY <3>1, <3>2
  <2> QED BY <1>3, <2>1, <2>2, <2>3, <2>4, LivesWrite
<1>9. ASSUME DeleteNodes(d)
      PROVE  Lives(id, m, b)'
  <2>1. NodesStep(d)
    BY <1>1, <1>9, DeleteNodesStep
  <2>2. remote' = remote /\ backup' = backup /\ gone' = gone
    BY <1>9 DEF DeleteNodes
  <2>3. deleting[d].nodes = local[d].nodes /\ \A l \in Lanes : cycle[d][l].pc = "idle"
    BY <2>1 DEF NodesStep, Still
  <2>4. id \notin deleting[d].ids
    BY <2>2 DEF Sound, StoreSound
  <2>5. \A j \in Ids : local'[d].nodes[j] = IF j \in deleting[d].ids THEN NoNode ELSE local[d].nodes[j]
    BY <2>1, <2>3 DEF NodesStep
  <2>6. KeepsCycles /\ local'[d].tombs = local[d].tombs /\ \A e \in Devices : e # d => local'[e] = local[e]
    BY <2>1 DEF NodesStep
  <2>7. local'[d].nodes[id] = local[d].nodes[id]
    BY <2>4, <2>5
  <2>8. local'[m].nodes[id] # NoNode
    BY <1>3, <2>6, <2>7
  <2>9. Has(local'[d], id, m, b)
    <3>1. CASE m = d
      BY <1>3, <2>7, <3>1 DEF Has
    <3>2. CASE m # d
      <4>1. local'[d].horizon = [local[d].horizon EXCEPT ![d] = MaxOf(local[d].horizon[d], seq[d])]
        BY <2>1 DEF NodesStep
      <4>2. local'[d].horizon[m] = local[d].horizon[m]
        BY <1>1, <3>2, <4>1 DEF Vectors
      <4>3. \A j \in Ids : local'[d].nodes[j] # NoNode =>
              local[d].nodes[j] # NoNode /\ local'[d].nodes[j].v[m] = local[d].nodes[j].v[m]
        BY <2>5
      <4>4. \A j \in Ids : local'[d].tombs[j] # NoTomb =>
              local[d].tombs[j] # NoTomb /\ local'[d].tombs[j].v[m] = local[d].tombs[j].v[m]
        BY <2>6
      <4> QED BY <1>3, <2>7, <4>2, <4>3, <4>4, HasFrom
    <3> QED BY <3>1, <3>2
  <2> QED BY <2>2, <2>3, <2>6, <2>8, <2>9, LivesWrite
<1> QED BY <1>4, <1>5, <1>6, <1>7, <1>8, <1>9 DEF Person

\* The steps of a cycle.
LEMMA CycleLives ==
  ASSUME OneLane, Sound, Still, NEW id \in Ids, NEW m \in Devices, NEW b \in 1..seq[m],
         Lives(id, m, b), id \notin gone,
         NEW d \in Devices, NEW l \in Lanes, Cycle(d, l) \/ AnswerLost(d, l)
  PROVE  Lives(id, m, b)'
<1> DEFINE c == cycle[d][l]
<1>1. /\ Shape /\ CyclesOK /\ b \in Nat \ {0} /\ Stamp(d) \in Nat
      /\ seq \in Vectors /\ local[d] \in Profiles /\ c.raw \in Profiles /\ c.merged \in Profiles
  <2>1. /\ Shape /\ CyclesOK /\ seq \in Vectors /\ local[d] \in Profiles /\ c.raw \in Profiles
        /\ c.merged \in Profiles
    BY SoundShape DEF Shape
  <2> QED BY <2>1, StampShape DEF Vectors
<1>2. /\ Has(local[d], id, m, b) /\ local[m].nodes[id] # NoNode /\ Has(remote, id, m, b)
      /\ Has(backup, id, m, b) /\ CycleHas(c, local[d], id, m, b) /\ Quiet(c, local[d].nodes)
  BY DEF Lives, Still
<1>3. \A p : CycleHas(NoCycle, p, id, m, b) /\ Has(EmptyProfile, id, m, b)
  BY <1>1, EmptyHas
\* A step that moves the cycle alone.
<1>4. ASSUME NEW rec, CyclesMove(d, l, rec), UNCHANGED <<local, remote, backup>>,
             CycleHas(rec, local[d], id, m, b)
      PROVE  Lives(id, m, b)'
  BY <1>2, <1>4, LivesMove
<1>5. CASE ReadVault(d, l)
  <2>1. PICK rec \in Cycles : /\ CycleStep(d, l, rec) /\ rec.pc = "read" /\ rec.raw = remote
                              /\ rec.merged = EmptyProfile
    BY <1>1, <1>5, ReadVaultStep
  <2>2. CycleHas(rec, local[d], id, m, b)
    BY <1>2, <1>3, <2>1 DEF CycleHas
  <2> QED BY <1>4, <1>5, <2>1, <2>2, StepMoves DEF ReadVault, store
<1>6. CASE IdleCycle(d, l) \/ WriteRefused(d, l)
  <2>1. CyclesMove(d, l, NoCycle)
    BY <1>1, <1>6, EndCycleStep, StepMoves DEF IdleCycle, WriteRefused
  <2> QED BY <1>3, <1>4, <1>6, <2>1 DEF IdleCycle, WriteRefused, store
<1>7. CASE SnapshotNodes(d, l)
  <2>1. PICK rec \in Cycles :
          CycleStep(d, l, rec) /\ rec.pc = "snapshot" /\ SameReading(rec, c) /\ rec.merged = c.merged
    BY <1>1, <1>7, SnapshotNodesStep
  <2>2. CycleHas(rec, local[d], id, m, b)
    BY <1>2, <2>1 DEF CycleHas, SameReading
  <2> QED BY <1>4, <1>7, <2>1, <2>2, StepMoves DEF SnapshotNodes, store
<1>8. CASE MergeSnapshot(d, l)
  <2>1. PICK rec \in Cycles :
          /\ CycleStep(d, l, rec)
          /\ rec = NoCycle \/ (SameReading(rec, c) /\ rec.merged = Merged(d, l))
    BY <1>1, <1>8, MergeSnapshotStep
  <2>2. c.pc = "snapshot" /\ UNCHANGED <<local, remote, backup>>
    BY <1>8 DEF MergeSnapshot, store
  <2>3. /\ Snapshot(d, l) \in Profiles /\ Snapshot(d, l).nodes = local[d].nodes
        /\ Snapshot(d, l).tombs = local[d].tombs /\ Snapshot(d, l).horizon = local[d].horizon
    BY <1>1, <1>2, <2>2, MergedShape DEF Quiet
  <2>4. Has(Snapshot(d, l), id, m, b) /\ (Reaches(local[d], m, b) => Reaches(Snapshot(d, l), m, b))
    BY <1>2, <2>3 DEF Has, Reaches
  <2>5. /\ ProfileSound(Snapshot(d, l), seq, top, gone, made)
        /\ ProfileSound(c.raw, seq, top, gone, made)
    BY MergedIsSound DEF Sound, CyclesSound, SoundProfile
  <2>6. Has(c.raw, id, m, b)
    BY <1>2 DEF CycleHas
  <2> HIDE DEF c
  <2>7. /\ Has(MergeProfiles(Snapshot(d, l), c.raw, Stamp(d)), id, m, b)
        /\ Reaches(Snapshot(d, l), m, b) =>
             MergeProfiles(Snapshot(d, l), c.raw, Stamp(d)).nodes[id] # NoNode
    BY <1>1, <2>3, <2>4, <2>5, <2>6, MergeHas
  <2>8. Has(Merged(d, l), id, m, b) /\ (Reaches(local[d], m, b) => Merged(d, l).nodes[id] # NoNode)
    BY <2>4, <2>7 DEF Merged, c
  <2>9. CycleHas(rec, local[d], id, m, b)
    BY <1>3, <2>1, <2>6, <2>8 DEF CycleHas, SameReading
  <2> QED BY <1>4, <2>1, <2>2, <2>9, StepMoves
<1>9. CASE ApplyNodes(d, l)
  <2>1. PICK q \in Profiles, rec \in Cycles :
          /\ ApplyStep(d, l, q, rec) /\ c.pc = "apply" /\ rec.pc = "applying"
          /\ rec.raw = c.raw /\ rec.merged = c.merged
          /\ q.nodes = c.merged.nodes /\ q.tombs = local[d].tombs /\ q.horizon = local[d].horizon
    BY <1>1, <1>9, ApplyNodesStep
  <2>2. local'[d] = q /\ CyclesMove(d, l, rec) /\ \A e \in Devices : e # d => local'[e] = local[e]
    BY <2>1 DEF ApplyStep, OnlyLocal
  <2>3. remote' = remote /\ backup' = backup
    BY <1>9 DEF ApplyNodes
  <2>4. Reaches(local[d], m, b) => c.merged.nodes[id] # NoNode
    BY <1>2, <2>1 DEF CycleHas
  <2>5. Reaches(q, m, b) => Reaches(local[d], m, b) \/ Reaches(c.merged, m, b)
    BY <2>1 DEF Reaches
  <2>6. Has(c.merged, id, m, b)
    BY <1>2 DEF CycleHas
  <2>7. Has(q, id, m, b)
    BY <2>1, <2>4, <2>5, <2>6 DEF Has
  <2>8. CycleHas(rec, q, id, m, b)
    BY <1>2, <2>1 DEF CycleHas
  <2>9. local'[m].nodes[id] # NoNode
    <3>1. CASE m = d
      <4>1. Reaches(local[d], m, b)
        BY <1>2, <3>1 DEF Has, Reaches
      <4> QED BY <2>1, <2>2, <2>4, <3>1, <4>1
    <3>2. CASE m # d
      BY <1>2, <2>2, <3>2
    <3> QED BY <3>1, <3>2
  <2> QED BY <2>2, <2>3, <2>7, <2>8, <2>9, LivesMove
<1>10. CASE ApplyRest(d, l)
  <2>1. PICK q \in Profiles, rec \in Cycles :
          /\ ApplyStep(d, l, q, rec) /\ c.pc = "applying"
          /\ rec = NoCycle \/ (rec.pc = "push" /\ rec.raw = c.raw /\ rec.merged = c.merged)
          /\ q.nodes = local[d].nodes /\ q.tombs = c.merged.tombs /\ q.horizon = c.merged.horizon
    BY <1>1, <1>10, ApplyRestStep
  <2>2. local'[d] = q /\ CyclesMove(d, l, rec) /\ \A e \in Devices : e # d => local'[e] = local[e]
    BY <2>1 DEF ApplyStep, OnlyLocal
  <2>3. remote' = remote /\ backup' = backup
    BY <1>10 DEF ApplyRest
  <2>4. q.nodes = c.merged.nodes
    BY <1>2, <2>1 DEF Quiet
  <2>5. Has(q, id, m, b)
    BY <1>2, <2>1, <2>4 DEF CycleHas, Has, Reaches
  <2>6. CycleHas(rec, q, id, m, b)
    BY <1>2, <1>3, <2>1 DEF CycleHas
  <2>7. local'[m].nodes[id] # NoNode
    BY <1>2, <2>1, <2>2
  <2> QED BY <2>2, <2>3, <2>5, <2>6, <2>7, LivesMove
<1>11. CASE GitReset(d, l)
  <2>1. PICK rec \in Cycles :
          CycleStep(d, l, rec) /\ rec.pc = "pushing" /\ SameReading(rec, c) /\ rec.merged = c.merged
    BY <1>1, <1>11, GitResetStep
  <2>2. CycleHas(rec, local[d], id, m, b)
    BY <1>2, <2>1 DEF CycleHas, SameReading
  <2> QED BY <1>4, <1>11, <2>1, <2>2, StepMoves DEF GitReset, store
<1>12. CASE WriteVault(d, l) \/ AnswerLost(d, l)
  <2>1. PICK after \in {"current", "stale"} : Overwrite(d, l, after)
    BY <1>12 DEF WriteVault, AnswerLost
  <2>2. OverwriteStep(d, l)
    BY <1>1, <2>1, OverwriteSteps
  <2>3. local' = local /\ backup' = backup /\ remote' = c.merged
    BY <1>12, <2>2 DEF WriteVault, AnswerLost, store, OverwriteStep
  <2>4. \A e \in Devices, k \in Lanes :
          \/ cycle'[e][k] = NoCycle
          \/ /\ cycle'[e][k].pc = cycle[e][k].pc /\ cycle'[e][k].raw = cycle[e][k].raw
             /\ cycle'[e][k].merged = cycle[e][k].merged
    BY <2>2 DEF OverwriteStep
  <2>5. \A e \in Devices, k \in Lanes : CycleHas(cycle'[e][k], local[e], id, m, b)
    BY <1>3, <2>4 DEF CycleHas, Lives
  <2>6. Has(c.merged, id, m, b)
    BY <1>2 DEF CycleHas
  <2> QED BY <2>3, <2>5, <2>6 DEF Lives
<1> QED
  BY <1>5, <1>6, <1>7, <1>8, <1>9, <1>10, <1>11, <1>12 DEF Cycle

\* A node just added: its number is new, so nobody has heard of it but its machine.
LEMMA LivesBorn ==
  ASSUME Sound, Sound', ~Interleave, NEW d \in Devices, NEW id \in Ids, AddNode(d, id),
         NEW b, b = seq[d] + 1
  PROVE  Lives(id, d, b)'
<1>1. /\ Shape /\ seq \in Vectors /\ seq[d] \in Nat /\ b \in Nat \ {0}
      /\ made[id] = 0 /\ UNCHANGED <<remote, backup>>
      /\ \A l \in Lanes : cycle[d][l].pc = "idle"
  BY SoundShape DEF Vectors, AddNode, MayWrite, Busy
<1>2. PutNodeStep(d, id, EmptyVector)
  BY <1>1, AddNodeStep
<1>3. ASSUME NEW p \in Profiles, SoundProfile(p)
      PROVE  p.nodes[id] = NoNode /\ ~Reaches(p, d, b) /\ Has(p, id, d, b)
  <2>1. p.nodes[id] = NoNode
    BY <1>1, <1>3 DEF SoundProfile, ProfileSound, NodesSound
  <2>2. \A v \in Vectors : Covers(seq, v) => ~(v[d] >= b)
    BY <1>1 DEF Covers, Vectors
  <2>3. /\ p.horizon \in Vectors /\ Covers(seq, p.horizon)
        /\ \A j \in Ids : p.nodes[j] # NoNode => p.nodes[j].v \in Vectors /\ Covers(seq, p.nodes[j].v)
        /\ \A j \in Ids : p.tombs[j] # NoTomb => p.tombs[j].v \in Vectors /\ Covers(seq, p.tombs[j].v)
    BY <1>3, ProfileParts DEF SoundProfile, ProfileSound, NodesSound, TombsSound
  <2>4. ~Reaches(p, d, b)
    BY <2>2, <2>3 DEF Reaches
  <2> QED BY <2>1, <2>4 DEF Has
<1>4. /\ local'[d].nodes[id] # NoNode /\ local'[d].nodes[id].v[d] >= b
      /\ KeepsCycles /\ \A e \in Devices : e # d => local'[e] = local[e]
  <2>1. BumpVector(EmptyVector, d, b)[d] = b
    BY DEF BumpVector, EmptyVector
  <2> QED BY <1>1, <1>2, <2>1 DEF PutNodeStep
<1>5. /\ Has(remote', id, d, b) /\ Has(backup', id, d, b)
  BY <1>1, <1>3, SoundShape DEF Sound, VaultSound
<1>6. ASSUME NEW e \in Devices
      PROVE  Has(local'[e], id, d, b) /\ \A l \in Lanes : CycleHas(cycle'[e][l], local'[e], id, d, b)
  <2>1. /\ local[e] \in Profiles /\ SoundProfile(local[e])
        /\ \A l \in Lanes : /\ cycle[e][l].raw \in Profiles /\ SoundProfile(cycle[e][l].raw)
                            /\ cycle[e][l].merged \in Profiles /\ SoundProfile(cycle[e][l].merged)
    BY SoundShape DEF Sound, StoreSound, CyclesSound
  <2>2. \A l \in Lanes : /\ cycle'[e][l].pc = cycle[e][l].pc /\ cycle'[e][l].raw = cycle[e][l].raw
                         /\ cycle'[e][l].merged = cycle[e][l].merged
                         /\ Has(cycle[e][l].raw, id, d, b) /\ Has(cycle[e][l].merged, id, d, b)
    BY <1>3, <1>4, <2>1 DEF KeepsCycles
  <2>3. CASE e = d
    BY <1>1, <1>4, <2>2, <2>3 DEF Has, CycleHas
  <2>4. CASE e # d
    <3>1. local'[e] = local[e] /\ ~Reaches(local[e], d, b) /\ Has(local[e], id, d, b)
      BY <1>3, <1>4, <2>1, <2>4
    <3> QED BY <2>2, <3>1 DEF CycleHas
  <2> QED BY <2>3, <2>4
<1> QED BY <1>4, <1>5, <1>6 DEF Lives

\* The situation stays, and only adding a node makes one.
LEMMA OnlyAddNodeMakes ==
  ASSUME [Next]_vars
  PROVE  setup' = setup /\ (made' = made \/ \E d \in Devices, id \in Ids : AddNode(d, id))
<1>1. ASSUME NEW d \in Devices, NEW id \in Ids,
             UpdateNode(d, id) \/ DeleteTombstones(d, id)
      PROVE  setup' = setup /\ made' = made
  BY <1>1 DEF UpdateNode, DeleteTombstones
<1>2. ASSUME NEW d \in Devices, Backup(d) \/ Restore(d) \/ DeleteNodes(d) \/ Crash(d)
      PROVE  setup' = setup /\ made' = made
  BY <1>2 DEF Backup, Restore, DeleteNodes, Crash, history
<1>3. ASSUME NEW d \in Devices, NEW l \in Lanes, Cycle(d, l) \/ AnswerLost(d, l)
      PROVE  setup' = setup /\ made' = made
  BY <1>3 DEF Cycle, ReadVault, IdleCycle, SnapshotNodes, MergeSnapshot, ApplyNodes, ApplyRest, GitReset,
              WriteVault, WriteRefused, AnswerLost, history
<1>4. Tick \/ UNCHANGED vars => setup' = setup /\ made' = made
  BY DEF Tick, vars, history
<1>5. \A d \in Devices, id \in Ids : AddNode(d, id) => setup' = setup
  BY DEF AddNode
<1> QED BY <1>1, <1>2, <1>3, <1>4, <1>5 DEF Next, Person

LEMMA NextLive ==
  ASSUME OneLane
  PROVE  Sound /\ ~Interleave /\ Still /\ AllLive /\ [Next]_vars => AllLive'
<1> SUFFICES ASSUME Sound, ~Interleave, Still, AllLive, [Next]_vars,
                    NEW id \in Ids, NEW m \in Devices, made'[id] = m, id \notin gone'
             PROVE  \E b \in 1..seq'[m] : Lives(id, m, b)'
  BY DEF AllLive
<1>1. Sound' /\ Grown /\ Shape /\ Shape'
  BY NextSound DEF Sound
<1>2. /\ seq \in Vectors /\ seq' \in Vectors /\ made \in [Ids -> Devices \cup {0}] /\ m # 0
  BY <1>1, DevicesAssumption DEF Shape, CountsOK, HistoryOK, Vectors
<1>3. CASE made[id] = 0
  <2>1. made' # made
    BY <1>2, <1>3
  <2>3. PICK d \in Devices, j \in Ids : AddNode(d, j)
    BY <2>1, OnlyAddNodeMakes
  <2>4. made' = [made EXCEPT ![j] = d]
    BY <2>3 DEF AddNode
  <2>5. j = id /\ m = d
    BY <1>2, <1>3, <2>4
  <2>6. seq' = [seq EXCEPT ![d] = seq[d] + 1]
    BY <1>1, <2>3, AddNodeStep DEF PutNodeStep
  <2>7. PICK b \in 1..seq'[d] : b = seq[d] + 1
    BY <1>2, <2>6 DEF Vectors
  <2>8. Lives(id, d, b)'
    BY <1>1, <2>3, <2>5, <2>7, LivesBorn
  <2> QED BY <2>5, <2>7, <2>8
<1>4. CASE made[id] # 0
  <2>1. made[id] = m /\ id \notin gone
    BY <1>1, <1>4 DEF Grown
  <2>2. PICK b \in 1..seq[m] : Lives(id, m, b)
    BY <2>1 DEF AllLive
  <2>3. b \in 1..seq'[m]
    BY <1>1, <1>2 DEF Grown, Covers, Vectors
  <2>4. ASSUME NEW d \in Devices, Person(d) \/ DeleteNodes(d)
        PROVE  Lives(id, m, b)'
    BY <2>1, <2>2, <2>4, PersonLives
  <2>5. ASSUME NEW d \in Devices, Crash(d)
        PROVE  Lives(id, m, b)'
    <3>1. \A e \in Devices, k \in Lanes : cycle'[e][k] = IF e = d THEN NoCycle ELSE cycle[e][k]
      BY <1>1, <2>5, CrashStep
    <3>2. UNCHANGED <<local, remote, backup>>
      BY <2>5 DEF Crash
    <3>3. \A p : CycleHas(NoCycle, p, id, m, b)
      BY <1>2, EmptyHas DEF Vectors
    <3>4. \A e \in Devices, k \in Lanes : CycleHas(cycle'[e][k], local[e], id, m, b)
      BY <2>2, <3>1, <3>3 DEF Lives
    <3> QED BY <2>2, <3>2, <3>4 DEF Lives
  <2>6. ASSUME NEW d \in Devices, NEW l \in Lanes, Cycle(d, l) \/ AnswerLost(d, l)
        PROVE  Lives(id, m, b)'
    BY <2>1, <2>2, <2>6, CycleLives
  <2>7. ASSUME Tick \/ UNCHANGED vars
        PROVE  Lives(id, m, b)'
    <3>1. UNCHANGED <<local, cycle, remote, backup>>
      BY <2>7 DEF Tick, vars, store
    <3> QED BY <2>2, <3>1 DEF Lives
  <2>8. Lives(id, m, b)'
    BY <2>4, <2>5, <2>6, <2>7 DEF Next
  <2> QED BY <2>3, <2>8
<1> QED BY <1>3, <1>4

\* What a person added is in that person's tree until a person deletes it: no merge, restore or push of
\* any machine takes it away, where nobody writes inside a cycle (syncMerge.ts, the phantom rule).
THEOREM NeverVanishing == ASSUME OneLane PROVE Spec => []NeverVanishesBetweenCycles
<1> DEFINE Quietly == ~Interleave => Still /\ AllLive
<1>1. Init => Quietly
  <2> SUFFICES ASSUME Init PROVE Still /\ AllLive
    OBVIOUS
  <2>1. Still
    BY EmptyShape DEF Init, Still, Quiet
  <2>2. AllLive
    BY DevicesAssumption DEF Init, AllLive
  <2> QED BY <2>1, <2>2
<1>2. Sound /\ Quietly /\ [Next]_vars => Quietly'
  <2> SUFFICES ASSUME Sound, Quietly, [Next]_vars, ~Interleave' PROVE Still' /\ AllLive'
    OBVIOUS
  <2>1. setup' = setup
    BY OnlyAddNodeMakes
  <2>2. ~Interleave
    BY <2>1 DEF Interleave
  <2>3. Still /\ AllLive /\ Shape
    BY <2>2 DEF Sound
  <2> HIDE DEF Quietly
  <2> QED BY <2>2, <2>3, NextStill, NextLive
<1>3. Sound /\ Quietly => NeverVanishesBetweenCycles
  <2> SUFFICES ASSUME Sound, AllLive, NEW id \in Ids, made[id] # 0, id \notin gone
               PROVE  id \in Present(local[made[id]])
    BY DEF NeverVanishesBetweenCycles, NeverVanishes
  <2>1. made[id] \in Devices
    BY DEF Sound, Shape, HistoryOK
  <2> QED BY <2>1 DEF AllLive, Lives, Present
<1> HIDE DEF Quietly
<1>4. Spec => []Sound
  BY InitSound, NextSound, PTL DEF Spec
<1> QED BY <1>1, <1>2, <1>3, <1>4, PTL DEF Spec
=============================================================================
