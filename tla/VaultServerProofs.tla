------------------------- MODULE VaultServerProofs -------------------------
(***************************************************************************)
(* What holds of the vault server for every set of people, processes and   *)
(* requests, and every number of refused writes and crashes.  Inductive    *)
(* invariants, each resting on the one before: the shape of the state, who *)
(* holds which gate, and what a request that holds its gate may rely on.   *)
(***************************************************************************)
EXTENDS VaultServer, TLAPS

Kept == {"none", "sent", "withdrawn"}
Works == [todo : SUBSET Shares, cur : Shares \cup {Absent}, taken : SUBSET Shares, stale : SUBSET Shares]

\* The places where a loop has a share in hand.
InHand(c) ==
  \/ c.op = "edit" /\ pc[c] \in {"forget", "tell", "rewrite", "forgetSent", "forgetReceipt"}
  \/ c.op = "sweep" /\ pc[c] \in {"judge", "retire", "expire"}

\* The places of an edit that has read the record it replaces.
HasRead(c) ==
  c.op = "edit" /\ pc[c] \in {"write", "list", "items", "forget", "tell", "rewrite", "sents",
                              "forgetSent", "forgetReceipt"}

\* The shape of the state, in the detail the proofs need.
RequestsOK ==
  /\ WellMade(calls)
  /\ DOMAIN pc = calls /\ DOMAIN seen = calls
  /\ \A c \in calls : HasRead(c) => seen[c] \in Records

GatesOK == gate \in [Procs -> [People -> calls \cup {Free}]]

FilesOK ==
  /\ vault \in [People -> Bodies \cup {Absent}]
  /\ owner \in [People -> BOOLEAN]
  /\ key \in [People -> Nat \cup {Absent}]
  /\ member \in [People -> Records \cup {Absent}]
  /\ inbox \subseteq Shares /\ old \subseteq Shares
  /\ receipt \in [Shares -> Kept]
  /\ refusals \in Nat

LoopsOK ==
  /\ work \in [calls -> Works]
  /\ \A c \in calls : InHand(c) => work[c].cur \in Shares

Shape == RequestsOK /\ GatesOK /\ FilesOK /\ LoopsOK

-----------------------------------------------------------------------------
(* The shape of the state.                                                 *)

LEMMA DefaultIsRecord == DefaultRecord \in Records
  BY DEF DefaultRecord, Records

LEMMA ShapeInit == Init => Shape
<1> SUFFICES ASSUME NEW scene \in Scenes, Init!(scene) PROVE Shape
  BY DEF Init
<1>1. NoWork \in Works
  BY DEF NoWork, Works
<1>2. RequestsOK
  BY SceneAssumption DEF RequestsOK, HasRead
<1>3. GatesOK
  BY DEF GatesOK
<1>4. FilesOK
  BY SceneAssumption DEF FilesOK, Kept
<1>5. LoopsOK
  BY <1>1 DEF LoopsOK, InHand
<1> QED BY <1>2, <1>3, <1>4, <1>5 DEF Shape

\* GateFor, Release: taking and giving back a gate keeps the table of gates a table of gates.
LEMMA GateTyped ==
  ASSUME Shape, NEW c \in calls, UNCHANGED calls, WaitGate(c) \/ Release(c) \/ UNCHANGED gate
  PROVE  GatesOK'
<1>1. ASSUME NEW v \in calls \cup {Free}, gate' = [gate EXCEPT ![c.proc][c.who] = v]
      PROVE  GatesOK'
  <2> DEFINE row == [gate[c.proc] EXCEPT ![c.who] = v]
  <2>1. row \in [People -> calls \cup {Free}]
    BY DEF Shape, GatesOK, RequestsOK, WellMade
  <2>2. gate' = [gate EXCEPT ![c.proc] = row]
    BY <1>1 DEF Shape, GatesOK
  <2> QED BY <2>1, <2>2 DEF Shape, GatesOK
<1>2. CASE WaitGate(c)
  BY <1>1, <1>2 DEF WaitGate
<1>3. CASE Release(c)
  BY <1>1, <1>3 DEF Release, Shape, GatesOK
<1>4. CASE UNCHANGED gate
  BY <1>4 DEF Shape, GatesOK
<1> QED BY <1>2, <1>3, <1>4

LEMMA ShapePut ==
  ASSUME Shape, NEW c \in calls, Put(c), UNCHANGED <<work, shareVars, crashes>>
  PROVE  Shape'
<1> USE DEF At, Go, accountVars, shareVars, Shape
<1>1. RequestsOK'
  BY DEF RequestsOK, HasRead, Put, TryWriteEnter, TryWriteCheck, TryWriteMove, RecordOwner, RegisterEnter, InsertIfAbsent
<1>2. GatesOK'
  BY GateTyped DEF Put, TryWriteEnter, TryWriteCheck, TryWriteMove, RecordOwner, RegisterEnter, InsertIfAbsent
<1>3. FilesOK'
  <2>1. CASE TryWriteEnter(c)
    BY <2>1 DEF FilesOK, RequestsOK, WellMade, TryWriteEnter
  <2>2. CASE TryWriteCheck(c)
    BY <2>2 DEF FilesOK, RequestsOK, WellMade, TryWriteCheck
  <2>3. CASE TryWriteMove(c)
    BY <2>3 DEF FilesOK, RequestsOK, WellMade, TryWriteMove
  <2>4. CASE RecordOwner(c)
    BY <2>4 DEF FilesOK, RequestsOK, WellMade, RecordOwner
  <2>5. CASE RegisterEnter(c)
    BY <2>5 DEF FilesOK, RequestsOK, WellMade, RegisterEnter
  <2>6. CASE InsertIfAbsent(c)
    BY <2>6, DefaultIsRecord DEF FilesOK, RequestsOK, WellMade, InsertIfAbsent
  <2> QED BY <2>1, <2>2, <2>3, <2>4, <2>5, <2>6 DEF Put
<1>4. LoopsOK'
  BY DEF LoopsOK, InHand, RequestsOK, Put, TryWriteEnter, TryWriteCheck, TryWriteMove, RecordOwner, RegisterEnter, InsertIfAbsent
<1> QED BY <1>1, <1>2, <1>3, <1>4

LEMMA ShapeDelete ==
  ASSUME Shape, NEW c \in calls, Delete(c), UNCHANGED <<work, shareVars, crashes>>
  PROVE  Shape'
<1> USE DEF At, Go, accountVars, shareVars, Shape
<1>1. RequestsOK'
  BY DEF RequestsOK, HasRead, Refused, Delete, DeleteEnter, DeleteVault, DeleteOwner, DeleteInbox, DeleteKey, DeleteMember
<1>2. GatesOK'
  BY GateTyped DEF Delete, DeleteEnter, DeleteVault, DeleteOwner, DeleteInbox, DeleteKey, DeleteMember
<1>3. FilesOK'
  <2>1. CASE DeleteEnter(c)
    BY <2>1 DEF FilesOK, RequestsOK, WellMade, DeleteEnter
  <2>2. CASE DeleteVault(c)
    <3>1. vault' \in [People -> Bodies \cup {Absent}]
      BY <2>2 DEF FilesOK, DeleteVault
    <3>2. refusals' \in Nat
      BY <2>2 DEF FilesOK, Refused, DeleteVault
    <3> QED BY <2>2, <3>1, <3>2 DEF FilesOK, DeleteVault
  <2>3. CASE DeleteOwner(c)
    <3>1. owner' \in [People -> BOOLEAN]
      BY <2>3 DEF FilesOK, DeleteOwner
    <3>2. refusals' \in Nat
      BY <2>3 DEF FilesOK, Refused, DeleteOwner
    <3> QED BY <2>3, <3>1, <3>2 DEF FilesOK, DeleteOwner
  <2>4. CASE DeleteInbox(c)
    BY <2>4 DEF FilesOK, RequestsOK, WellMade, Refused, DeleteInbox
  <2>5. CASE DeleteKey(c)
    BY <2>5 DEF FilesOK, RequestsOK, WellMade, Refused, DeleteKey
  <2>6. CASE DeleteMember(c)
    BY <2>6 DEF FilesOK, RequestsOK, WellMade, Refused, DeleteMember
  <2> QED BY <2>1, <2>2, <2>3, <2>4, <2>5, <2>6 DEF Delete
<1>4. LoopsOK'
  BY DEF LoopsOK, InHand, RequestsOK, Delete, DeleteEnter, DeleteVault, DeleteOwner, DeleteInbox, DeleteKey, DeleteMember
<1> QED BY <1>1, <1>2, <1>3, <1>4

LEMMA ShapeGetKey ==
  ASSUME Shape, NEW c \in calls, GetKey(c), UNCHANGED <<work, shareVars, crashes>>
  PROVE  Shape'
<1> USE DEF At, Go, accountVars, shareVars, Shape
<1>1. RequestsOK'
  BY DEF RequestsOK, HasRead, Answered, See, GetKey, KeyFind, KeyEnter, KeyFindAgain, TryCreate, AfterAFailedCreate
<1>2. GatesOK'
  BY GateTyped DEF GetKey, KeyFind, KeyEnter, KeyFindAgain, TryCreate, AfterAFailedCreate
<1>3. FilesOK'
  <2>1. CASE KeyFind(c)
    BY <2>1 DEF FilesOK, RequestsOK, WellMade, KeyFind
  <2>2. CASE KeyEnter(c)
    BY <2>2 DEF FilesOK, RequestsOK, WellMade, KeyEnter
  <2>3. CASE KeyFindAgain(c)
    BY <2>3 DEF FilesOK, RequestsOK, WellMade, KeyFindAgain
  <2>4. CASE TryCreate(c)
    BY <2>4 DEF FilesOK, RequestsOK, WellMade, Refused, TryCreate
  <2>5. CASE AfterAFailedCreate(c)
    BY <2>5 DEF FilesOK, RequestsOK, WellMade, AfterAFailedCreate
  <2> QED BY <2>1, <2>2, <2>3, <2>4, <2>5 DEF GetKey
<1>4. LoopsOK'
  BY DEF LoopsOK, InHand, RequestsOK, Answered, GetKey, KeyFind, KeyEnter, KeyFindAgain, TryCreate, AfterAFailedCreate
<1> QED BY <1>1, <1>2, <1>3, <1>4

LEMMA ShapeEdit ==
  ASSUME Shape, NEW c \in calls, Edit(c), UNCHANGED <<work, shareVars, crashes>>
  PROVE  Shape'
<1> USE DEF At, Go, accountVars, shareVars, Shape
<1>1. RequestsOK'
  <2>1. CASE EditEnter(c)
    BY <2>1 DEF RequestsOK, HasRead, EditEnter
  <2>2. CASE EditRead(c)
    <3>1. seen'[c] \in Records
      BY <2>2, DefaultIsRecord DEF RequestsOK, WellMade, FilesOK, See, EditRead
    <3> QED BY <2>2, <3>1 DEF RequestsOK, HasRead, See, EditRead
  <2>3. CASE EditWrite(c)
    BY <2>3 DEF RequestsOK, HasRead, EditWrite
  <2> QED BY <2>1, <2>2, <2>3 DEF Edit
<1>2. GatesOK'
  BY GateTyped DEF Edit, EditEnter, EditRead, EditWrite
<1>3. FilesOK'
  <2>1. CASE EditEnter(c)
    BY <2>1 DEF FilesOK, RequestsOK, WellMade, EditEnter
  <2>2. CASE EditRead(c)
    BY <2>2 DEF FilesOK, RequestsOK, WellMade, EditRead
  <2>3. CASE EditWrite(c)
    <3>1. seen[c] \in Records
      BY <2>3 DEF RequestsOK, HasRead, EditWrite
    <3>2. /\ [seen[c] EXCEPT !.role = "dev", !.by = "admin"] \in Records
          /\ [seen[c] EXCEPT !.active = (c.set = "unblock"), !.by = "admin"] \in Records
      BY <3>1 DEF Records
    <3> QED BY <2>3, <3>2 DEF FilesOK, RequestsOK, WellMade, EditWrite
  <2> QED BY <2>1, <2>2, <2>3 DEF Edit
<1>4. LoopsOK'
  BY DEF LoopsOK, InHand, RequestsOK, Edit, EditEnter, EditRead, EditWrite
<1> QED BY <1>1, <1>2, <1>3, <1>4

LEMMA ShapeArrive ==
  ASSUME Shape, NEW c \in calls, Arrive(c) \/ Abandon(c), UNCHANGED <<work, shareVars, crashes>>
  PROVE  Shape'
<1> USE DEF Go, accountVars, shareVars, Shape
<1>1. RequestsOK'
  BY DEF RequestsOK, HasRead, Arrive, Abandon, EndsAs
<1>2. GatesOK'
  BY GateTyped DEF Arrive, Abandon
<1>3. FilesOK'
  BY DEF FilesOK, Arrive, Abandon
<1>4. LoopsOK'
  BY DEF LoopsOK, InHand, RequestsOK, Arrive, Abandon, EndsAs
<1> QED BY <1>1, <1>2, <1>3, <1>4

\* A share request and the maintenance leave the gates alone; what they do to their loop and to the
\* files keeps both in shape.
LEMMA ShapeShareCalls ==
  ASSUME Shape, NEW c \in calls, Post(c) \/ Take(c) \/ Withdraw(c) \/ ShareAbandon(c),
         UNCHANGED <<calls, gate, accountVars, issued, old, crashes>>
  PROVE  Shape'
<1> USE DEF At, Go, accountVars, Shape
<1> USE DEF Post, PostCheck, PostWrites, Take, TakeRead, TakeExists, TakeRemove, TakeRow, Withdraw,
            WithdrawRead, WithdrawExists, WithdrawRemove, WithdrawForget, WithdrawRow, ShareAbandon
<1>1. RequestsOK'
  BY DEF RequestsOK, HasRead, See, ShareAbandonable
<1>2. GatesOK'
  BY DEF GatesOK
<1>3. FilesOK'
  BY DEF FilesOK, RequestsOK, WellMade, Kept
<1>4. LoopsOK'
  BY DEF LoopsOK, InHand, RequestsOK, ShareAbandonable
<1> QED BY <1>1, <1>2, <1>3, <1>4

\* The loop of request c after one turn, field by field; the other requests' loops stay.
Turned(c, todo, cur, taken) ==
  /\ work' \in [calls -> Works]
  /\ work'[c].todo = todo /\ work'[c].cur = cur /\ work'[c].taken = taken
  /\ work'[c].stale = work[c].stale
  /\ \A d \in calls \ {c} : work'[d] = work[d]

\* What a turn of a loop over share files does, for any listing and any file.
LEMMA ListTurn ==
  ASSUME work \in [calls -> Works], NEW c \in calls, NEW files \in SUBSET Shares, List(c, files)
  PROVE  Turned(c, files, work[c].cur, work[c].taken)
  BY DEF List, Works, Turned

LEMMA LoopTurn ==
  ASSUME work \in [calls -> Works], NEW c \in calls, NEW s \in Shares
  PROVE  /\ TakeUp(c, s) => Turned(c, work[c].todo, s, work[c].taken)
         /\ DoneWith(c, s) => Turned(c, work[c].todo \ {s}, work[c].cur, work[c].taken)
         /\ DoneTaking(c, s) => Turned(c, work[c].todo \ {s}, work[c].cur, work[c].taken \cup {s})
<1>2. TakeUp(c, s) => Turned(c, work[c].todo, s, work[c].taken)
  BY DEF TakeUp, Works, Turned
<1>3. DoneWith(c, s) => Turned(c, work[c].todo \ {s}, work[c].cur, work[c].taken)
  BY DEF DoneWith, Works, Turned
<1>4. ASSUME DoneTaking(c, s)
      PROVE  Turned(c, work[c].todo \ {s}, work[c].cur, work[c].taken \cup {s})
  <2> DEFINE rest == [work EXCEPT ![c].todo = @ \ {s}]
  <2>1. rest \in [calls -> Works] /\ rest[c].taken = work[c].taken
    BY DEF Works
  <2>2. work' = [rest EXCEPT ![c].taken = work[c].taken \cup {s}]
    BY <1>4 DEF DoneTaking, Works
  <2>3. work' \in [calls -> Works]
    <3> HIDE DEF rest
    <3> QED BY <2>1, <2>2 DEF Works
  <2> QED BY <1>4, <2>3 DEF DoneTaking, Works, Turned
<1> QED BY <1>2, <1>3, <1>4

\* The prune starts over the files that were old when it fixed its cutoff.
LEMMA PruneTurn ==
  ASSUME Shape, NEW c \in calls, PruneList(c)
  PROVE  /\ work' \in [calls -> Works]
         /\ work'[c].todo = inbox \cap old /\ work'[c].stale = old
         /\ \A d \in calls \ {c} : work'[d] = work[d]
<1> DEFINE cut == [work EXCEPT ![c].stale = old]
<1>0. work \in [calls -> Works] /\ old \in SUBSET Shares
  BY DEF Shape, LoopsOK, FilesOK
<1>1. cut \in [calls -> Works]
  BY <1>0 DEF Works
<1>2. cut[c].stale = old /\ \A d \in calls \ {c} : cut[d] = work[d]
  BY <1>0 DEF Works
<1>3. work' = [cut EXCEPT ![c].todo = inbox \cap old]
  BY <1>0 DEF PruneList, Works
<1> HIDE DEF cut
<1> QED BY <1>0, <1>1, <1>2, <1>3 DEF Works

\* A turn of one request's loop keeps the loops in shape, if the request has a share in hand where it
\* comes to need one.
LEMMA LoopKept ==
  ASSUME Shape, NEW c \in calls, UNCHANGED calls,
         \A d \in calls \ {c} : pc'[d] = pc[d],
         NEW todo, NEW cur, NEW taken, Turned(c, todo, cur, taken), InHand(c)' => cur \in Shares
  PROVE  LoopsOK'
  BY DEF Shape, LoopsOK, Turned, InHand

LEMMA ShapeBlock ==
  ASSUME Shape, NEW c \in calls, Block(c), UNCHANGED <<calls, gate, accountVars, issued, old, crashes>>
  PROVE  Shape'
<1> USE DEF At, Go, accountVars, Shape
<1>0. work \in [calls -> Works] /\ work[c].todo \in SUBSET Shares
  BY DEF LoopsOK, Works
<1>1. RequestsOK'
  BY DEF RequestsOK, HasRead, Block, BlockList, BlockItem, BlockForget, BlockTell, BlockRewrite,
         BlockListSent, BlockSent, BlockForgetSent, BlockForgetReceipt, BlockRows
<1>2. GatesOK'
  BY DEF GatesOK
<1>3. FilesOK'
  BY DEF FilesOK, Kept, Refused, Block, BlockList, BlockItem, BlockForget, BlockTell, BlockRewrite,
         BlockListSent, BlockSent, BlockForgetSent, BlockForgetReceipt, BlockRows
<1>4. LoopsOK'
  <2>1. CASE BlockList(c)
    <3>1. InboxOf(c.who) \in SUBSET Shares
      BY <1>0 DEF FilesOK, InboxOf, SentBy
    <3>2. Turned(c, InboxOf(c.who), work[c].cur, work[c].taken)
      BY <1>0, <2>1, <3>1, ListTurn DEF BlockList
    <3>3. ~InHand(c)' /\ \A d \in calls \ {c} : pc'[d] = pc[d]
      BY <2>1 DEF BlockList, InHand, RequestsOK
    <3> QED BY <2>1, <3>2, <3>3, LoopKept DEF BlockList
  <2>2. CASE BlockItem(c)
    <3>1. PICK s \in work[c].todo : TakeUp(c, s) \/ (DoneWith(c, s) /\ UNCHANGED pc)
      BY <2>2 DEF BlockItem
    <3>2. s \in Shares
      BY <1>0
    <3>3. \A d \in calls \ {c} : pc'[d] = pc[d]
      BY <2>2 DEF BlockItem, RequestsOK
    <3>4. CASE TakeUp(c, s)
      <4>1. Turned(c, work[c].todo, s, work[c].taken)
        BY <1>0, <3>2, <3>4, LoopTurn
      <4> QED BY <2>2, <3>2, <3>3, <4>1, LoopKept DEF BlockItem
    <3>5. CASE DoneWith(c, s) /\ UNCHANGED pc
      <4>1. Turned(c, work[c].todo \ {s}, work[c].cur, work[c].taken)
        BY <1>0, <3>2, <3>5, LoopTurn
      <4>2. InHand(c)' => work[c].cur \in Shares
        BY <2>2, <3>5 DEF BlockItem, InHand, LoopsOK, RequestsOK
      <4> QED BY <2>2, <3>3, <4>1, <4>2, LoopKept DEF BlockItem
    <3> QED BY <3>1, <3>4, <3>5
  <2>3. CASE BlockForget(c)
    <3>1. work[c].cur \in Shares
      BY <2>3 DEF BlockForget, LoopsOK, InHand
    <3>2. \A d \in calls \ {c} : pc'[d] = pc[d]
      BY <2>3 DEF BlockForget, RequestsOK
    <3>3. CASE DoneWith(c, work[c].cur)
      <4>1. Turned(c, work[c].todo \ {work[c].cur}, work[c].cur, work[c].taken)
        BY <1>0, <3>1, <3>3, LoopTurn
      <4> QED BY <2>3, <3>1, <3>2, <4>1, LoopKept DEF BlockForget
    <3>4. CASE DoneTaking(c, work[c].cur)
      <4>1. Turned(c, work[c].todo \ {work[c].cur}, work[c].cur, work[c].taken \cup {work[c].cur})
        BY <1>0, <3>1, <3>4, LoopTurn
      <4> QED BY <2>3, <3>1, <3>2, <4>1, LoopKept DEF BlockForget
    <3> QED BY <2>3, <3>3, <3>4 DEF BlockForget
  <2>4. CASE BlockTell(c)
    BY <2>4 DEF BlockTell, LoopsOK, InHand, RequestsOK
  <2>5. CASE BlockRewrite(c)
    BY <2>5 DEF BlockRewrite, LoopsOK, InHand, RequestsOK
  <2>6. CASE BlockListSent(c)
    <3>1. SentBy(c.who) \in SUBSET Shares
      BY <1>0 DEF FilesOK, InboxOf, SentBy
    <3>2. Turned(c, SentBy(c.who), work[c].cur, work[c].taken)
      BY <1>0, <2>6, <3>1, ListTurn DEF BlockListSent
    <3>3. ~InHand(c)' /\ \A d \in calls \ {c} : pc'[d] = pc[d]
      BY <2>6 DEF BlockListSent, InHand, RequestsOK
    <3> QED BY <2>6, <3>2, <3>3, LoopKept DEF BlockListSent
  <2>7. CASE BlockSent(c)
    <3>1. PICK s \in work[c].todo : TakeUp(c, s) \/ (DoneWith(c, s) /\ UNCHANGED pc)
      BY <2>7 DEF BlockSent
    <3>2. s \in Shares
      BY <1>0
    <3>3. \A d \in calls \ {c} : pc'[d] = pc[d]
      BY <2>7 DEF BlockSent, RequestsOK
    <3>4. CASE TakeUp(c, s)
      <4>1. Turned(c, work[c].todo, s, work[c].taken)
        BY <1>0, <3>2, <3>4, LoopTurn
      <4> QED BY <2>7, <3>2, <3>3, <4>1, LoopKept DEF BlockSent
    <3>5. CASE DoneWith(c, s) /\ UNCHANGED pc
      <4>1. Turned(c, work[c].todo \ {s}, work[c].cur, work[c].taken)
        BY <1>0, <3>2, <3>5, LoopTurn
      <4>2. InHand(c)' => work[c].cur \in Shares
        BY <2>7, <3>5 DEF BlockSent, InHand, LoopsOK, RequestsOK
      <4> QED BY <2>7, <3>3, <4>1, <4>2, LoopKept DEF BlockSent
    <3> QED BY <3>1, <3>4, <3>5
  <2>8. CASE BlockForgetSent(c)
    <3>1. work[c].cur \in Shares
      BY <2>8 DEF BlockForgetSent, LoopsOK, InHand
    <3>2. \A d \in calls \ {c} : pc'[d] = pc[d]
      BY <2>8 DEF BlockForgetSent, RequestsOK
    <3>3. CASE DoneWith(c, work[c].cur)
      <4>1. Turned(c, work[c].todo \ {work[c].cur}, work[c].cur, work[c].taken)
        BY <1>0, <3>1, <3>3, LoopTurn
      <4> QED BY <2>8, <3>1, <3>2, <4>1, LoopKept DEF BlockForgetSent
    <3>4. CASE DoneTaking(c, work[c].cur)
      <4>1. Turned(c, work[c].todo \ {work[c].cur}, work[c].cur, work[c].taken \cup {work[c].cur})
        BY <1>0, <3>1, <3>4, LoopTurn
      <4> QED BY <2>8, <3>1, <3>2, <4>1, LoopKept DEF BlockForgetSent
    <3> QED BY <2>8, <3>3, <3>4 DEF BlockForgetSent
  <2>9. CASE BlockForgetReceipt(c)
    BY <2>9 DEF BlockForgetReceipt, LoopsOK, InHand, RequestsOK
  <2>10. CASE BlockRows(c)
    BY <2>10 DEF BlockRows, LoopsOK, InHand, RequestsOK
  <2> QED BY <2>1, <2>2, <2>3, <2>4, <2>5, <2>6, <2>7, <2>8, <2>9, <2>10 DEF Block
<1> QED BY <1>1, <1>2, <1>3, <1>4

LEMMA ShapeSweep ==
  ASSUME Shape, NEW c \in calls, Sweep(c), UNCHANGED <<calls, gate, accountVars, issued, old, crashes>>
  PROVE  Shape'
<1> USE DEF At, Go, accountVars, Shape
<1>0. work \in [calls -> Works] /\ work[c].todo \in SUBSET Shares /\ work[c].stale \in SUBSET Shares
  BY DEF LoopsOK, Works
<1>1. RequestsOK'
  BY DEF RequestsOK, HasRead, See, Sweep, SweepList, SweepRead, SweepJudge, SweepRetire, PruneList,
         PruneRead, PruneForget, PruneListReceipts, PruneReceipt, SweepRows
<1>2. GatesOK'
  BY DEF GatesOK
<1>3. FilesOK'
  BY DEF FilesOK, Kept, Refused, Sweep, SweepList, SweepRead, SweepJudge, SweepRetire, PruneList,
         PruneRead, PruneForget, PruneListReceipts, PruneReceipt, SweepRows
<1>4. LoopsOK'
  <2>1. CASE SweepList(c)
    <3>1. {s \in Shares : receipt[s] # "none"} \in SUBSET Shares
      BY <1>0 DEF FilesOK, InboxOf, SentBy
    <3>2. Turned(c, {s \in Shares : receipt[s] # "none"}, work[c].cur, work[c].taken)
      BY <1>0, <2>1, <3>1, ListTurn DEF SweepList
    <3>3. ~InHand(c)' /\ \A d \in calls \ {c} : pc'[d] = pc[d]
      BY <2>1 DEF SweepList, InHand, RequestsOK
    <3> QED BY <2>1, <3>2, <3>3, LoopKept DEF SweepList
  <2>2. CASE SweepRead(c)
    <3>1. PICK s \in work[c].todo : TakeUp(c, s)
      BY <2>2 DEF SweepRead
    <3>2. s \in Shares
      BY <1>0
    <3>3. Turned(c, work[c].todo, s, work[c].taken)
      BY <1>0, <3>1, <3>2, LoopTurn
    <3>4. \A d \in calls \ {c} : pc'[d] = pc[d]
      BY <2>2 DEF SweepRead, RequestsOK
    <3> QED BY <2>2, <3>2, <3>3, <3>4, LoopKept DEF SweepRead
  <2>3. CASE SweepJudge(c)
    <3>1. work[c].cur \in Shares
      BY <2>3 DEF SweepJudge, LoopsOK, InHand
    <3>2. \A d \in calls \ {c} : pc'[d] = pc[d]
      BY <2>3 DEF SweepJudge, RequestsOK
    <3>3. CASE DoneWith(c, work[c].cur)
      <4>1. Turned(c, work[c].todo \ {work[c].cur}, work[c].cur, work[c].taken)
        BY <1>0, <3>1, <3>3, LoopTurn
      <4> QED BY <2>3, <3>1, <3>2, <4>1, LoopKept DEF SweepJudge
    <3>5. CASE UNCHANGED work
      BY <2>3, <3>1, <3>2, <3>5 DEF SweepJudge, LoopsOK, InHand
    <3> QED BY <2>3, <3>3, <3>5 DEF SweepJudge
  <2>4. CASE SweepRetire(c)
    <3>1. work[c].cur \in Shares
      BY <2>4 DEF SweepRetire, LoopsOK, InHand
    <3>2. \A d \in calls \ {c} : pc'[d] = pc[d]
      BY <2>4 DEF SweepRetire, RequestsOK
    <3>3. CASE DoneWith(c, work[c].cur)
      <4>1. Turned(c, work[c].todo \ {work[c].cur}, work[c].cur, work[c].taken)
        BY <1>0, <3>1, <3>3, LoopTurn
      <4> QED BY <2>4, <3>1, <3>2, <4>1, LoopKept DEF SweepRetire
    <3> QED BY <2>4, <3>3 DEF SweepRetire
  <2>5. CASE PruneList(c)
    <3>1. work' \in [calls -> Works] /\ \A d \in calls \ {c} : work'[d] = work[d]
      BY <2>5, PruneTurn
    <3> QED BY <2>5, <3>1 DEF PruneList, LoopsOK, InHand, RequestsOK
  <2>6. CASE PruneRead(c)
    <3>1. PICK s \in work[c].todo : TakeUp(c, s) \/ (DoneWith(c, s) /\ UNCHANGED pc)
      BY <2>6 DEF PruneRead
    <3>2. s \in Shares
      BY <1>0
    <3>3. \A d \in calls \ {c} : pc'[d] = pc[d]
      BY <2>6 DEF PruneRead, RequestsOK
    <3>4. CASE TakeUp(c, s)
      <4>1. Turned(c, work[c].todo, s, work[c].taken)
        BY <1>0, <3>2, <3>4, LoopTurn
      <4> QED BY <2>6, <3>2, <3>3, <4>1, LoopKept DEF PruneRead
    <3>5. CASE DoneWith(c, s) /\ UNCHANGED pc
      <4>1. Turned(c, work[c].todo \ {s}, work[c].cur, work[c].taken)
        BY <1>0, <3>2, <3>5, LoopTurn
      <4>2. InHand(c)' => work[c].cur \in Shares
        BY <2>6, <3>5 DEF PruneRead, InHand, LoopsOK, RequestsOK
      <4> QED BY <2>6, <3>3, <4>1, <4>2, LoopKept DEF PruneRead
    <3> QED BY <3>1, <3>4, <3>5
  <2>7. CASE PruneForget(c)
    <3>1. work[c].cur \in Shares
      BY <2>7 DEF PruneForget, LoopsOK, InHand
    <3>2. \A d \in calls \ {c} : pc'[d] = pc[d]
      BY <2>7 DEF PruneForget, RequestsOK
    <3>3. CASE DoneWith(c, work[c].cur)
      <4>1. Turned(c, work[c].todo \ {work[c].cur}, work[c].cur, work[c].taken)
        BY <1>0, <3>1, <3>3, LoopTurn
      <4> QED BY <2>7, <3>1, <3>2, <4>1, LoopKept DEF PruneForget
    <3>4. CASE DoneTaking(c, work[c].cur)
      <4>1. Turned(c, work[c].todo \ {work[c].cur}, work[c].cur, work[c].taken \cup {work[c].cur})
        BY <1>0, <3>1, <3>4, LoopTurn
      <4> QED BY <2>7, <3>1, <3>2, <4>1, LoopKept DEF PruneForget
    <3> QED BY <2>7, <3>3, <3>4 DEF PruneForget
  <2>8. CASE PruneListReceipts(c)
    <3>1. {s \in work[c].stale : receipt[s] # "none"} \in SUBSET Shares
      BY <1>0 DEF FilesOK, InboxOf, SentBy
    <3>2. Turned(c, {s \in work[c].stale : receipt[s] # "none"}, work[c].cur, work[c].taken)
      BY <1>0, <2>8, <3>1, ListTurn DEF PruneListReceipts
    <3>3. ~InHand(c)' /\ \A d \in calls \ {c} : pc'[d] = pc[d]
      BY <2>8 DEF PruneListReceipts, InHand, RequestsOK
    <3> QED BY <2>8, <3>2, <3>3, LoopKept DEF PruneListReceipts
  <2>9. CASE PruneReceipt(c)
    <3>1. PICK s \in work[c].todo : DoneWith(c, s)
      BY <2>9 DEF PruneReceipt
    <3>2. Turned(c, work[c].todo \ {s}, work[c].cur, work[c].taken)
      BY <1>0, <3>1, LoopTurn
    <3>3. ~InHand(c)'
      BY <2>9 DEF PruneReceipt, InHand
    <3> QED BY <2>9, <3>2, <3>3, LoopKept DEF PruneReceipt
  <2>10. CASE SweepRows(c)
    <3>1. NoWork \in Works
      BY DEF NoWork, Works
    <3> QED BY <2>10, <3>1 DEF SweepRows, LoopsOK, InHand, RequestsOK
  <2> QED BY <2>1, <2>2, <2>3, <2>4, <2>5, <2>6, <2>7, <2>8, <2>9, <2>10 DEF Sweep
<1> QED BY <1>1, <1>2, <1>3, <1>4

LEMMA ShapeTime == ASSUME Shape, TimePasses PROVE Shape'
<1> USE DEF TimePasses, Age, accountVars, Shape
<1>1. RequestsOK'
  BY DEF RequestsOK, HasRead
<1>2. GatesOK'
  BY DEF GatesOK
<1>3. FilesOK'
  BY DEF FilesOK
<1>4. LoopsOK'
  BY DEF LoopsOK, InHand
<1> QED BY <1>1, <1>2, <1>3, <1>4

LEMMA ShapeCrash == ASSUME Shape, NEW q \in Procs, Crash(q) PROVE Shape'
<1> USE DEF Crash, accountVars, shareVars, Shape, EndsAs, Answers
<1>1. RequestsOK'
  BY DEF RequestsOK, HasRead
<1>2. GatesOK'
  BY DEF GatesOK
<1>3. FilesOK'
  BY DEF FilesOK
<1>4. LoopsOK'
  <2>1. NoWork \in Works
    BY DEF NoWork, Works
  <2> QED BY <2>1 DEF LoopsOK, InHand, RequestsOK
<1> QED BY <1>1, <1>2, <1>3, <1>4

LEMMA ShapeStep == ASSUME Shape, [Next]_vars PROVE Shape'
<1>1. CASE Next
  <2>1. ASSUME NEW c \in calls, AccountStep(c) PROVE Shape'
    BY <2>1, ShapeArrive, ShapePut, ShapeDelete, ShapeGetKey, ShapeEdit DEF AccountStep
  <2>2. ASSUME NEW c \in calls, ShareStep(c) PROVE Shape'
    BY <2>2, ShapeShareCalls, ShapeBlock, ShapeSweep DEF ShareStep
  <2> QED BY <1>1, <2>1, <2>2, ShapeTime, ShapeCrash DEF Next
<1>2. CASE UNCHANGED vars
  <2> USE <1>2 DEF vars, accountVars, shareVars, Shape
  <2>1. RequestsOK' /\ GatesOK'
    BY DEF RequestsOK, HasRead, GatesOK
  <2>2. FilesOK' /\ LoopsOK'
    BY DEF FilesOK, LoopsOK, InHand
  <2> QED BY <2>1, <2>2
<1> QED BY <1>1, <1>2

\* Every file, gate and request is of its kind, whatever requests meet and wherever the disk
\* refuses a write or a process dies.
THEOREM TypeCorrect == Spec => []TypeOK
<1>1. Shape => TypeOK
  BY DEF Shape, RequestsOK, WellMade, GatesOK, FilesOK, LoopsOK, Works, Kept, TypeOK
<1> QED BY <1>1, ShapeInit, ShapeStep, PTL DEF Spec

-----------------------------------------------------------------------------
(* Who holds which gate.                                                   *)

\* A gate that is taken is held by a request of its own process and person, at a place where the
\* code holds it; and a request at such a place holds its gate.
GatesAgree ==
  /\ \A q \in Procs, p \in People :
       gate[q][p] # Free =>
         /\ gate[q][p] \in calls /\ gate[q][p].proc = q /\ gate[q][p].who = p
         /\ pc[gate[q][p]] \in GateHeldAt(gate[q][p])
  /\ \A c \in calls : pc[c] \in GateHeldAt(c) => Held(c)

\* A step of request c, under the gate, to place l.
LEMMA GateUpdate ==
  ASSUME Shape, NEW c \in calls, NEW v, gate' = [gate EXCEPT ![c.proc][c.who] = v]
  PROVE  /\ gate'[c.proc][c.who] = v
         /\ \A q \in Procs, p \in People : q # c.proc \/ p # c.who => gate'[q][p] = gate[q][p]
  BY DEF Shape, GatesOK, RequestsOK, WellMade

LEMMA GateTaken ==
  ASSUME Shape, GatesAgree, NEW c \in calls, UNCHANGED calls, NEW l \in GateHeldAt(c),
         WaitGate(c), Go(c, l)
  PROVE  GatesAgree'
<1>1. /\ gate'[c.proc][c.who] = c
      /\ \A q \in Procs, p \in People : q # c.proc \/ p # c.who => gate'[q][p] = gate[q][p]
  BY GateUpdate DEF WaitGate
<1>2. pc'[c] = l /\ \A d \in calls \ {c} : pc'[d] = pc[d]
  BY DEF Go, Shape, RequestsOK
<1>3. gate[c.proc][c.who] = Free
  BY DEF WaitGate
<1>4. \A d \in calls : d.proc \in Procs /\ d.who \in People /\ d # Free
  BY DEF Shape, RequestsOK, WellMade
<1> QED BY <1>1, <1>2, <1>3, <1>4 DEF GatesAgree, Held

LEMMA GateGiven ==
  ASSUME Shape, GatesAgree, NEW c \in calls, UNCHANGED calls, NEW l, l \notin GateHeldAt(c),
         Release(c), Go(c, l)
  PROVE  GatesAgree'
<1>1. pc'[c] = l /\ \A d \in calls \ {c} : pc'[d] = pc[d]
  BY DEF Go, Shape, RequestsOK
<1>2. \A d \in calls : d.proc \in Procs /\ d.who \in People /\ d # Free
  BY DEF Shape, RequestsOK, WellMade
<1>3. CASE Held(c)
  <2>1. /\ gate'[c.proc][c.who] = Free
        /\ \A q \in Procs, p \in People : q # c.proc \/ p # c.who => gate'[q][p] = gate[q][p]
    BY <1>3, GateUpdate DEF Release
  <2> QED BY <1>1, <1>2, <1>3, <2>1 DEF GatesAgree, Held
<1>4. CASE ~Held(c)
  BY <1>1, <1>2, <1>4 DEF GatesAgree, Held, Release
<1> QED BY <1>3, <1>4

LEMMA GateStays ==
  ASSUME Shape, GatesAgree, NEW c \in calls, UNCHANGED <<calls, gate>>, NEW l,
         pc[c] \in GateHeldAt(c) <=> l \in GateHeldAt(c), Go(c, l)
  PROVE  GatesAgree'
<1>1. pc'[c] = l /\ \A d \in calls \ {c} : pc'[d] = pc[d]
  BY DEF Go, Shape, RequestsOK
<1> QED BY <1>1 DEF GatesAgree, Held

LEMMA GatesAccount ==
  ASSUME Shape, GatesAgree, NEW c \in calls, AccountStep(c)
  PROVE  GatesAgree'
<1>1. CASE TryWriteEnter(c)
  BY <1>1, GateTaken DEF TryWriteEnter, At, GateHeldAt
<1>2. CASE TryWriteCheck(c)
  BY <1>2, GateStays, GateGiven DEF TryWriteCheck, At, GateHeldAt
<1>3. CASE TryWriteMove(c)
  BY <1>3, GateGiven DEF TryWriteMove, At, GateHeldAt
<1>4. CASE RecordOwner(c)
  BY <1>4, GateStays DEF RecordOwner, At, GateHeldAt
<1>5. CASE RegisterEnter(c)
  BY <1>5, GateTaken DEF RegisterEnter, At, GateHeldAt
<1>6. CASE InsertIfAbsent(c)
  BY <1>6, GateStays, GateGiven DEF InsertIfAbsent, At, GateHeldAt
<1>7. CASE DeleteEnter(c)
  BY <1>7, GateTaken DEF DeleteEnter, At, GateHeldAt
<1>8. CASE DeleteVault(c)
  BY <1>8, GateStays, GateGiven DEF DeleteVault, At, GateHeldAt
<1>9. CASE DeleteOwner(c)
  BY <1>9, GateStays DEF DeleteOwner, At, GateHeldAt
<1>10. CASE DeleteInbox(c)
  BY <1>10, GateStays DEF DeleteInbox, At, GateHeldAt
<1>11. CASE DeleteKey(c)
  BY <1>11, GateStays DEF DeleteKey, At, GateHeldAt
<1>12. CASE DeleteMember(c)
  BY <1>12, GateGiven DEF DeleteMember, At, GateHeldAt
<1>13. CASE KeyFind(c)
  BY <1>13, GateStays DEF KeyFind, Answered, At, GateHeldAt
<1>14. CASE KeyEnter(c)
  BY <1>14, GateTaken DEF KeyEnter, At, GateHeldAt
<1>15. CASE KeyFindAgain(c)
  BY <1>15, GateStays, GateGiven DEF KeyFindAgain, Answered, At, GateHeldAt
<1>16. CASE TryCreate(c)
  BY <1>16, GateStays, GateGiven DEF TryCreate, Answered, At, GateHeldAt
<1>17. CASE AfterAFailedCreate(c)
  BY <1>17, GateGiven DEF AfterAFailedCreate, Answered, At, GateHeldAt
<1>18. CASE EditEnter(c)
  BY <1>18, GateTaken DEF EditEnter, At, GateHeldAt
<1>19. CASE EditRead(c)
  BY <1>19, GateStays DEF EditRead, At, GateHeldAt
<1>20. CASE EditWrite(c)
  BY <1>20, GateGiven DEF EditWrite, At, GateHeldAt
<1>21. CASE Arrive(c)
  BY <1>21, GateStays DEF Arrive, At, GateHeldAt
<1>22. CASE Abandon(c)
  BY <1>22, GateGiven DEF Abandon, EndsAs, GateHeldAt
<1> QED BY <1>1, <1>2, <1>3, <1>4, <1>5, <1>6, <1>7, <1>8, <1>9, <1>10, <1>11, <1>12, <1>13, <1>14, <1>15, <1>16, <1>17, <1>18, <1>19, <1>20, <1>21, <1>22 DEF AccountStep, Put, Delete, GetKey, Edit

\* A share step moves no request but its own.
LEMMA SharesOwnPlace ==
  ASSUME Shape, NEW c \in calls, ShareStep(c)
  PROVE  \A d \in calls \ {c} : pc'[d] = pc[d]
  BY DEF ShareStep, Shape, RequestsOK, Go, Post, PostCheck, PostWrites, Take, TakeRead, TakeExists,
         TakeRemove, TakeRow, Withdraw, WithdrawRead, WithdrawExists, WithdrawRemove, WithdrawForget,
         WithdrawRow, ShareAbandon, Block, BlockList, BlockItem, BlockForget, BlockTell, BlockRewrite,
         BlockListSent, BlockSent, BlockForgetSent, BlockForgetReceipt, BlockRows, Sweep, SweepList,
         SweepRead, SweepJudge, SweepRetire, PruneList, PruneRead, PruneForget, PruneListReceipts,
         PruneReceipt, SweepRows

\* The requests a share step is a step of.
LEMMA ShareOps ==
  ASSUME NEW c \in calls, ShareStep(c)
  PROVE  \/ c.op \in {"post", "take", "withdraw", "sweep"}
         \/ c.op = "edit" /\ Block(c)
<1>1. CASE Post(c) \/ Take(c) \/ Withdraw(c) \/ ShareAbandon(c) \/ Sweep(c)
  BY <1>1 DEF At, Post, PostCheck, PostWrites, Take, TakeRead, TakeExists, TakeRemove, TakeRow, Withdraw,
         WithdrawRead, WithdrawExists, WithdrawRemove, WithdrawForget, WithdrawRow, ShareAbandon,
         ShareAbandonable, Sweep, SweepList, SweepRead, SweepJudge, SweepRetire, PruneList, PruneRead,
         PruneForget, PruneListReceipts, PruneReceipt, SweepRows
<1>2. CASE Block(c)
  BY <1>2 DEF At, Block, BlockList, BlockItem, BlockForget, BlockTell, BlockRewrite, BlockListSent,
         BlockSent, BlockForgetSent, BlockForgetReceipt, BlockRows
<1> QED BY <1>1, <1>2 DEF ShareStep

\* Share requests, the withdrawal after a block and the maintenance are at no place that holds a gate.
LEMMA GatesShare ==
  ASSUME Shape, GatesAgree, NEW c \in calls, ShareStep(c)
  PROVE  GatesAgree'
<1>0. UNCHANGED <<calls, gate>>
  BY DEF ShareStep
<1>1. \A d \in calls \ {c} : pc'[d] = pc[d]
  BY SharesOwnPlace
<1>2. pc[c] \notin GateHeldAt(c) /\ pc'[c] \notin GateHeldAt(c)
  <2>1. CASE c.op \in {"post", "take", "withdraw", "sweep"}
    BY <2>1 DEF GateHeldAt
  <2>2. CASE Block(c)
    BY <2>2 DEF Shape, RequestsOK, GateHeldAt, At, Go, Block, BlockList, BlockItem, BlockForget, BlockTell,
           BlockRewrite, BlockListSent, BlockSent, BlockForgetSent, BlockForgetReceipt, BlockRows
  <2> QED BY <2>1, <2>2, ShareOps
<1> QED BY <1>0, <1>1, <1>2 DEF GatesAgree, Held

\* A process that dies takes its gates with it, and none of its requests is left at a place that
\* holds one.
LEMMA GatesCrash == ASSUME Shape, GatesAgree, NEW q \in Procs, Crash(q) PROVE GatesAgree'
<1>1. UNCHANGED calls
  BY DEF Crash
<1>2. /\ \A p \in People : gate'[q][p] = Free
      /\ \A r \in Procs \ {q} : gate'[r] = gate[r]
  BY DEF Crash, Shape, GatesOK
<1>3. \A c \in calls : c.proc # q => pc'[c] = pc[c]
  BY DEF Crash
<1>4. \A c \in calls : c.proc = q => pc'[c] \notin GateHeldAt(c)
  BY DEF Crash, EndsAs, Answers, GateHeldAt
<1>5. \A d \in calls : d.proc \in Procs /\ d.who \in People
  BY DEF Shape, RequestsOK, WellMade
<1> QED BY <1>1, <1>2, <1>3, <1>4, <1>5 DEF GatesAgree, Held

LEMMA GatesStep == ASSUME Shape, GatesAgree, [Next]_vars PROVE GatesAgree'
<1>1. CASE Next
  <2>1. CASE TimePasses
    BY <2>1 DEF TimePasses, Age, GatesAgree, Held
  <2> QED BY <1>1, <2>1, GatesAccount, GatesShare, GatesCrash DEF Next
<1>2. CASE UNCHANGED vars
  BY <1>2 DEF vars, GatesAgree, Held
<1> QED BY <1>1, <1>2

LEMMA GatesInit == Init => GatesAgree
<1> SUFFICES ASSUME NEW scene \in Scenes, Init!(scene) PROVE GatesAgree
  BY DEF Init
<1> QED BY DEF GatesAgree, GateHeldAt

\* No request that returns early, fails, is cancelled by its client or dies with its process leaves
\* a person's gate taken (VaultStore.GateFor and the finally of every method that waits for it).
THEOREM GatesAreGivenBack == Spec => []NoGateLeft
<1>1. Shape /\ GatesAgree => NoGateLeft
  BY DEF GatesAgree, NoGateLeft
<1> QED BY <1>1, ShapeInit, ShapeStep, GatesInit, GatesStep, PTL DEF Spec

-----------------------------------------------------------------------------
(* The login keys.                                                         *)

\* The keys handed out are the one in the file; while there is no file, none was.
KeysAgree ==
  /\ DOMAIN issued = People
  /\ \A p \in People : issued[p] \subseteq {key[p]} /\ (key[p] = Absent => issued[p] = {})

LEMMA KeysInit == Init => KeysAgree
<1> SUFFICES ASSUME NEW scene \in Scenes, Init!(scene) PROVE KeysAgree
  BY DEF Init
<1> QED BY DEF KeysAgree

\* Serving the key that is there, or the key the move has just put where none was.
LEMMA KeysServed ==
  ASSUME Shape, KeysAgree, NEW c \in calls, NEW k, Answered(c, k),
         \/ UNCHANGED key /\ key[c.who] = k /\ k # Absent
         \/ key[c.who] = Absent /\ k # Absent /\ key' = [key EXCEPT ![c.who] = k]
  PROVE  KeysAgree'
<1>0. c.who \in People /\ DOMAIN key = People
  BY DEF Shape, RequestsOK, WellMade, FilesOK
<1>1. issued' = [issued EXCEPT ![c.who] = issued[c.who] \cup {k}]
  BY DEF Answered
<1> QED BY <1>0, <1>1 DEF KeysAgree

LEMMA KeysStep == ASSUME Shape, KeysAgree, [Next]_vars PROVE KeysAgree'
<1>0. ASSUME UNCHANGED <<key, issued>> PROVE KeysAgree'
  BY <1>0 DEF KeysAgree
<1>1. ASSUME NEW c \in calls, AccountStep(c) PROVE KeysAgree'
  <2>1. CASE Arrive(c) \/ Put(c) \/ Edit(c) \/ Abandon(c)
    BY <1>0, <2>1 DEF accountVars, Arrive, Put, TryWriteEnter, TryWriteCheck, TryWriteMove, RecordOwner,
       RegisterEnter, InsertIfAbsent, Edit, EditEnter, EditRead, EditWrite, Abandon
  <2>2. CASE Delete(c) /\ ~DeleteKey(c)
    BY <1>0, <2>2 DEF accountVars, Delete, DeleteEnter, DeleteVault, DeleteOwner, DeleteInbox, DeleteMember
  <2>3. CASE DeleteKey(c)
    <3>1. c.who \in People /\ DOMAIN key = People
      BY DEF Shape, RequestsOK, WellMade, FilesOK
    <3> QED BY <1>0, <2>3, <3>1 DEF DeleteKey, KeysAgree
  <2>4. CASE KeyFind(c)
    BY <1>0, <2>4, KeysServed DEF KeyFind, accountVars
  <2>5. CASE KeyEnter(c)
    BY <1>0, <2>5 DEF KeyEnter, accountVars
  <2>6. CASE KeyFindAgain(c)
    BY <1>0, <2>6, KeysServed DEF KeyFindAgain, accountVars
  <2>7. CASE TryCreate(c)
    <3>1. c.n # Absent
      BY AbsentAssumption DEF Shape, RequestsOK, WellMade
    <3> QED BY <1>0, <2>7, <3>1, KeysServed DEF TryCreate
  <2>8. CASE AfterAFailedCreate(c)
    BY <1>0, <2>8, KeysServed DEF AfterAFailedCreate, accountVars
  <2> QED BY <1>1, <2>1, <2>2, <2>3, <2>4, <2>5, <2>6, <2>7, <2>8 DEF AccountStep, GetKey
<1>2. ASSUME NEW c \in calls, ShareStep(c) PROVE KeysAgree'
  BY <1>0, <1>2 DEF ShareStep, accountVars
<1>3. CASE TimePasses
  BY <1>0, <1>3 DEF TimePasses, accountVars
<1>4. ASSUME NEW q \in Procs, Crash(q) PROVE KeysAgree'
  BY <1>0, <1>4 DEF Crash, accountVars
<1>5. CASE UNCHANGED vars
  BY <1>0, <1>5 DEF vars, accountVars
<1> QED BY <1>1, <1>2, <1>3, <1>4, <1>5 DEF Next

\* However many processes mint for one person at once, and whatever deletions come between, the
\* person's clients were given one key: the one the file holds (LoginKeyStore.MintAsync).
THEOREM OneKey == Spec => []OneKeyHandedOut
<1>1. KeysAgree => OneKeyHandedOut
  BY DEF KeysAgree, OneKeyHandedOut
<1> QED BY <1>1, ShapeInit, ShapeStep, KeysInit, KeysStep, PTL DEF Spec

-----------------------------------------------------------------------------
(* What a request that holds its gate may rely on.                         *)

Writers == {c \in calls : c.op \in {"put", "delete", "edit"}}

PutPlaces == {"new", "start", "check", "move", "owner", "register", "lookup", "insert",
              "403", "412", "204", "gone", "half"}
DeletePlaces == {"new", "start", "vault", "owner", "inbox", "key", "member",
                 "403", "503", "204", "gone", "half"}

\* What was read under the gate still stands where it is used: the version a write was checked
\* against, the record a registration did not find, and the vault a deletion has removed.
Relied ==
  /\ InOneProcess(calls)
  /\ \A c \in calls : c.op = "put" => pc[c] \in PutPlaces
  /\ \A c \in calls : c.op = "delete" => pc[c] \in DeletePlaces
  /\ \A c \in calls : At(c, "put", "move") => Fits(c, vault[c.who])
  /\ \A c \in calls : At(c, "put", "insert") => member[c.who] = Absent
  /\ \A c \in calls : c.op = "delete" /\ pc[c] \in {"owner", "inbox", "key", "member"}
                        => vault[c.who] = Absent

LEMMA ReliedInit == Init => Relied
<1> SUFFICES ASSUME NEW scene \in Scenes, Init!(scene) PROVE Relied
  BY DEF Init
<1> QED BY ProcessAssumption DEF Relied, At, PutPlaces, DeletePlaces

\* The gate keeps the writers of one person's files apart.
LEMMA OneAtATime ==
  ASSUME Shape, GatesAgree, InOneProcess(calls), NEW c \in Writers, NEW d \in Writers,
         c.who = d.who, pc[c] \in GateHeldAt(c), pc[d] \in GateHeldAt(d)
  PROVE  c = d
  BY DEF GatesAgree, Held, InOneProcess, Writers

\* A step of one request that writes the vault or the record of its person only under the gate.
LEMMA ReliedByOthers ==
  ASSUME Shape, GatesAgree, Relied, NEW c \in calls, UNCHANGED calls,
         \A d \in calls \ {c} : pc'[d] = pc[d],
         \A p \in People \ {c.who} : vault'[p] = vault[p] /\ member'[p] = member[p],
         \/ UNCHANGED <<vault, member>>
         \/ c \in Writers /\ pc[c] \in GateHeldAt(c),
         c.op = "put" => pc'[c] \in PutPlaces, c.op = "delete" => pc'[c] \in DeletePlaces,
         At(c, "put", "move")' => Fits(c, vault'[c.who]),
         At(c, "put", "insert")' => member'[c.who] = Absent,
         c.op = "delete" /\ pc'[c] \in {"owner", "inbox", "key", "member"} => vault'[c.who] = Absent
  PROVE  Relied'
<1>0. \A d \in calls : d.who \in People
  BY DEF Shape, RequestsOK, WellMade
<1>1. ASSUME NEW d \in calls \ {c}, d \in Writers, pc[d] \in GateHeldAt(d)
      PROVE  vault'[d.who] = vault[d.who] /\ member'[d.who] = member[d.who]
  BY <1>0, <1>1, OneAtATime DEF Relied
<1>2. ASSUME NEW d \in calls, At(d, "put", "move")' PROVE Fits(d, vault'[d.who])
  BY <1>1, <1>2 DEF Relied, At, GateHeldAt, Writers
<1>3. ASSUME NEW d \in calls, At(d, "put", "insert")' PROVE member'[d.who] = Absent
  BY <1>1, <1>3 DEF Relied, At, GateHeldAt, Writers
<1>4. ASSUME NEW d \in calls, d.op = "delete", pc'[d] \in {"owner", "inbox", "key", "member"}
      PROVE  vault'[d.who] = Absent
  BY <1>1, <1>4 DEF Relied, GateHeldAt, Writers
<1>5. InOneProcess(calls)'
  BY DEF Relied, InOneProcess
<1> QED BY <1>2, <1>3, <1>4, <1>5 DEF Relied

\* An account step moves no request but its own.
LEMMA AccountsOwnPlace ==
  ASSUME Shape, NEW c \in calls, AccountStep(c)
  PROVE  UNCHANGED calls /\ \A d \in calls \ {c} : pc'[d] = pc[d]
  BY DEF AccountStep, Shape, RequestsOK, Go, Answered, Arrive, Abandon, Put, TryWriteEnter, TryWriteCheck,
     TryWriteMove, RecordOwner, RegisterEnter, InsertIfAbsent, Delete, DeleteEnter, DeleteVault, DeleteOwner,
     DeleteInbox, DeleteKey, DeleteMember, GetKey, KeyFind, KeyEnter, KeyFindAgain, TryCreate,
     AfterAFailedCreate, Edit, EditEnter, EditRead, EditWrite

LEMMA ReliedAccount ==
  ASSUME Shape, GatesAgree, Relied, NEW c \in calls, AccountStep(c)
  PROVE  Relied'
<1>0. c.who \in People /\ DOMAIN vault = People /\ DOMAIN member = People
  BY DEF Shape, RequestsOK, WellMade, FilesOK
<1>1. UNCHANGED calls /\ \A d \in calls \ {c} : pc'[d] = pc[d]
  BY AccountsOwnPlace
<1>2. CASE Put(c)
  <2> USE DEF Shape, RequestsOK, At, Go, accountVars, PutPlaces
  <2>1. c.op = "put" /\ pc'[c] \in PutPlaces
    BY <1>2 DEF Put, TryWriteEnter, TryWriteCheck, TryWriteMove, RecordOwner, RegisterEnter, InsertIfAbsent
  <2>2. \A p \in People \ {c.who} : vault'[p] = vault[p] /\ member'[p] = member[p]
    BY <1>0, <1>2 DEF Put, TryWriteEnter, TryWriteCheck, TryWriteMove, RecordOwner, RegisterEnter, InsertIfAbsent
  <2>3. UNCHANGED <<vault, member>> \/ pc[c] \in {"move", "insert"}
    BY <1>2 DEF Put, TryWriteEnter, TryWriteCheck, TryWriteMove, RecordOwner, RegisterEnter, InsertIfAbsent
  <2>4. pc'[c] = "move" => Fits(c, vault'[c.who])
    BY <1>2 DEF Put, TryWriteEnter, TryWriteCheck, TryWriteMove, RecordOwner, RegisterEnter, InsertIfAbsent
  <2>5. pc'[c] = "insert" => member'[c.who] = Absent
    BY <1>2 DEF Put, TryWriteEnter, TryWriteCheck, TryWriteMove, RecordOwner, RegisterEnter, InsertIfAbsent
  <2>6. UNCHANGED <<vault, member>> \/ (c \in Writers /\ pc[c] \in GateHeldAt(c))
    BY <2>1, <2>3 DEF Writers, GateHeldAt
  <2> QED BY <1>1, <2>1, <2>2, <2>4, <2>5, <2>6, ReliedByOthers DEF At
<1>3. CASE Delete(c)
  <2> USE DEF Shape, RequestsOK, At, Go, accountVars, DeletePlaces
  <2>1. c.op = "delete" /\ pc'[c] \in DeletePlaces
    BY <1>3 DEF Delete, DeleteEnter, DeleteVault, DeleteOwner, DeleteInbox, DeleteKey, DeleteMember
  <2>2. \A p \in People \ {c.who} : vault'[p] = vault[p] /\ member'[p] = member[p]
    BY <1>0, <1>3 DEF Delete, DeleteEnter, DeleteVault, DeleteOwner, DeleteInbox, DeleteKey, DeleteMember
  <2>3. UNCHANGED <<vault, member>> \/ pc[c] \in {"vault", "member"}
    BY <1>3 DEF Delete, DeleteEnter, DeleteVault, DeleteOwner, DeleteInbox, DeleteKey, DeleteMember
  <2>4. pc'[c] \in {"owner", "inbox", "key", "member"} => vault'[c.who] = Absent
    BY <1>0, <1>3 DEF Relied, Delete, DeleteEnter, DeleteVault, DeleteOwner, DeleteInbox, DeleteKey, DeleteMember
  <2>5. UNCHANGED <<vault, member>> \/ (c \in Writers /\ pc[c] \in GateHeldAt(c))
    BY <2>1, <2>3 DEF Writers, GateHeldAt
  <2> QED BY <1>1, <2>1, <2>2, <2>4, <2>5, ReliedByOthers DEF At
<1>4. CASE GetKey(c)
  <2>1. c.op = "key" /\ UNCHANGED <<vault, member>>
    BY <1>4 DEF At, accountVars, GetKey, KeyFind, KeyEnter, KeyFindAgain, TryCreate, AfterAFailedCreate
  <2> QED BY <1>1, <2>1, ReliedByOthers DEF At
<1>5. CASE Edit(c)
  <2>1. c.op = "edit" /\ \A p \in People \ {c.who} : vault'[p] = vault[p] /\ member'[p] = member[p]
    BY <1>0, <1>5 DEF At, accountVars, Edit, EditEnter, EditRead, EditWrite
  <2>2. UNCHANGED <<vault, member>> \/ pc[c] = "write"
    BY <1>5 DEF At, accountVars, Edit, EditEnter, EditRead, EditWrite
  <2>3. UNCHANGED <<vault, member>> \/ (c \in Writers /\ pc[c] \in GateHeldAt(c))
    BY <2>1, <2>2 DEF Writers, GateHeldAt
  <2> QED BY <1>1, <2>1, <2>3, ReliedByOthers DEF At
<1>6. CASE Arrive(c) \/ Abandon(c)
  <2>1. UNCHANGED <<vault, member>> /\ pc'[c] \in {"start", "403", "gone", "half"}
    BY <1>6 DEF Shape, RequestsOK, Go, accountVars, Arrive, Abandon, EndsAs
  <2> QED BY <1>1, <2>1, ReliedByOthers DEF At, PutPlaces, DeletePlaces
<1> QED BY <1>2, <1>3, <1>4, <1>5, <1>6 DEF AccountStep

LEMMA ReliedStep == ASSUME Shape, GatesAgree, Relied, [Next]_vars PROVE Relied'
<1>1. ASSUME NEW c \in calls, ShareStep(c) PROVE Relied'
  <2>1. UNCHANGED <<calls, vault, member>> /\ \A d \in calls \ {c} : pc'[d] = pc[d]
    BY <1>1, SharesOwnPlace DEF ShareStep, accountVars
  <2>2. c.op \notin {"put", "delete"}
    BY <1>1, ShareOps
  <2> QED BY <2>1, <2>2, ReliedByOthers DEF At
<1>2. CASE TimePasses
  BY <1>2 DEF TimePasses, Age, accountVars, Relied, At, InOneProcess
<1>3. ASSUME NEW q \in Procs, Crash(q) PROVE Relied'
  <2>1. UNCHANGED <<calls, vault, member>>
    BY <1>3 DEF Crash, accountVars
  <2>2. \A c \in calls : pc'[c] = pc[c] \/ pc'[c] \in {"gone", "half"} \/ (c.op = "sweep" /\ pc'[c] = "new")
    BY <1>3 DEF Crash, EndsAs
  <2> QED BY <2>1, <2>2 DEF Relied, At, InOneProcess, PutPlaces, DeletePlaces
<1>4. CASE UNCHANGED vars
  BY <1>4 DEF vars, accountVars, Relied, At, InOneProcess
<1> QED BY <1>1, <1>2, <1>3, <1>4, ReliedAccount DEF Next

Inv == Shape /\ GatesAgree /\ Relied

LEMMA InvHolds == Spec => []Inv
<1>1. Init => Inv
  BY ShapeInit, GatesInit, ReliedInit DEF Inv
<1>2. Inv /\ [Next]_vars => Inv'
  BY ShapeStep, GatesStep, ReliedStep DEF Inv
<1> QED BY <1>1, <1>2, PTL DEF Spec

\* The actions that take a key away, that change a record, and that change a vault.
LEMMA KeyGoes ==
  ASSUME Shape, Next, NEW p \in People, key[p] # Absent, key'[p] = Absent
  PROVE  \E c \in calls : DeleteKey(c) /\ c.who = p
<1>0. DOMAIN key = People /\ \A c \in calls : c.n # Absent
  BY AbsentAssumption DEF Shape, RequestsOK, WellMade, FilesOK
<1>1. ASSUME NEW c \in calls, AccountStep(c) PROVE DeleteKey(c) /\ c.who = p
  BY <1>0, <1>1 DEF AccountStep, accountVars, Arrive, Put, TryWriteEnter, TryWriteCheck, TryWriteMove,
     RecordOwner, RegisterEnter, InsertIfAbsent, Edit, EditEnter, EditRead, EditWrite, Abandon, Delete,
     DeleteEnter, DeleteVault, DeleteOwner, DeleteInbox, DeleteKey, DeleteMember, GetKey, KeyFind,
     KeyEnter, KeyFindAgain, TryCreate, AfterAFailedCreate
<1> QED BY <1>1 DEF Next, ShareStep, TimePasses, Crash, accountVars

LEMMA MemberChanges ==
  ASSUME Shape, Next, NEW p \in People, member'[p] # member[p]
  PROVE  \E c \in calls :
           /\ c.who = p
           /\ \/ At(c, "put", "insert") /\ member'[p] = DefaultRecord
              \/ DeleteMember(c) /\ member'[p] = Absent
              \/ EditWrite(c) /\ member'[p].by = "admin"
<1>0. DOMAIN member = People
  BY DEF Shape, FilesOK
<1>1. ASSUME NEW c \in calls, AccountStep(c)
      PROVE  InsertIfAbsent(c) \/ DeleteMember(c) \/ EditWrite(c)
  BY <1>1 DEF AccountStep, accountVars, Arrive, Put, TryWriteEnter, TryWriteCheck, TryWriteMove,
     RecordOwner, RegisterEnter, Edit, EditEnter, EditRead, Abandon, Delete,
     DeleteEnter, DeleteVault, DeleteOwner, DeleteInbox, DeleteKey, GetKey, KeyFind,
     KeyEnter, KeyFindAgain, TryCreate, AfterAFailedCreate
<1>2. PICK c \in calls : InsertIfAbsent(c) \/ DeleteMember(c) \/ EditWrite(c)
  BY <1>1 DEF Next, ShareStep, TimePasses, Crash, accountVars
<1>3. CASE InsertIfAbsent(c)
  BY <1>0, <1>3 DEF InsertIfAbsent, accountVars
<1>4. CASE DeleteMember(c)
  BY <1>0, <1>4 DEF DeleteMember
<1>5. CASE EditWrite(c)
  <2>1. seen[c] \in Records
    BY <1>5 DEF EditWrite, At, Shape, RequestsOK, HasRead
  <2>2. /\ [seen[c] EXCEPT !.role = "dev", !.by = "admin"].by = "admin"
        /\ [seen[c] EXCEPT !.active = (c.set = "unblock"), !.by = "admin"].by = "admin"
    BY <2>1 DEF Records
  <2> QED BY <1>0, <1>5, <2>2 DEF EditWrite
<1> QED BY <1>2, <1>3, <1>4, <1>5

\* DELETE /api/vault takes the login key only after the vault is gone, and no write brings a vault
\* back in between, since the deletion holds the person's gate from the vault to the key.
THEOREM KeyOutlivesTheVault == Spec => NoKeyTakenFromAVault
<1>1. ASSUME Inv, [Next]_vars, NEW p \in People, key[p] # Absent, key'[p] = Absent
      PROVE  vault[p] = Absent
  <2>1. Next
    BY <1>1 DEF vars, accountVars
  <2>2. PICK c \in calls : DeleteKey(c) /\ c.who = p
    BY <1>1, <2>1, KeyGoes DEF Inv
  <2> QED BY <1>1, <2>2 DEF Inv, Relied, DeleteKey, At
<1>2. Inv /\ [Next]_vars => [\A p \in People : key[p] # Absent /\ key'[p] = Absent => vault[p] = Absent]_vars
  BY <1>1
<1> QED BY <1>2, InvHolds, PTL DEF Spec, NoKeyTakenFromAVault

\* A sync's registration never replaces a record an administrator wrote: it inserts only where it
\* found none, and holds the gate from the look to the write (OrgMembersStore.InsertIfAbsentAsync).
THEOREM AnEditIsKept == Spec => SyncKeepsAnEdit
<1>1. ASSUME Inv, [Next]_vars, NEW p \in People, member[p] # Absent, member[p].by = "admin"
      PROVE  member'[p] = Absent \/ member'[p].by = "admin"
  <2>1. CASE member'[p] = member[p]
    BY <1>1, <2>1
  <2>2. CASE member'[p] # member[p]
    <3>1. Next
      BY <1>1, <2>2 DEF vars, accountVars
    <3>2. PICK c \in calls :
            /\ c.who = p
            /\ \/ At(c, "put", "insert") /\ member'[p] = DefaultRecord
               \/ DeleteMember(c) /\ member'[p] = Absent
               \/ EditWrite(c) /\ member'[p].by = "admin"
      BY <1>1, <2>2, <3>1, MemberChanges DEF Inv
    <3> QED BY <1>1, <3>2 DEF Inv, Relied
  <2> QED BY <2>1, <2>2
<1>2. Inv /\ [Next]_vars =>
        [\A p \in People : member[p] # Absent /\ member[p].by = "admin"
                             => member'[p] = Absent \/ member'[p].by = "admin"]_vars
  BY <1>1
<1> QED BY <1>2, InvHolds, PTL DEF Spec, SyncKeepsAnEdit

-----------------------------------------------------------------------------
(* The vaults are compare-and-swap registers.                              *)

StatusNow == [c \in VaultCalls |-> StatusOf(c)]

\* A request that moves changes its own status and no other.
LEMMA StatusMoves ==
  ASSUME NEW c \in calls, UNCHANGED calls, \A d \in calls \ {c} : pc'[d] = pc[d]
  PROVE  /\ VaultCalls' = VaultCalls
         /\ c \in VaultCalls => StatusNow' = [StatusNow EXCEPT ![c] = StatusOf(c)']
         /\ c \notin VaultCalls \/ StatusOf(c)' = StatusOf(c) => StatusNow' = StatusNow
<1>1. VaultCalls' = VaultCalls
  BY DEF VaultCalls
<1>2. \A d \in VaultCalls \ {c} : StatusOf(d)' = StatusOf(d)
  BY DEF VaultCalls, StatusOf
<1>3. c \in VaultCalls => StatusNow' = [StatusNow EXCEPT ![c] = StatusOf(c)']
  BY <1>1, <1>2 DEF StatusNow
<1>4. c \notin VaultCalls \/ StatusOf(c)' = StatusOf(c) => StatusNow' = StatusNow
  BY <1>1, <1>2 DEF StatusNow
<1> QED BY <1>1, <1>3, <1>4

\* A step that leaves the vaults alone and ends no operation is a stutter of the register; one that
\* ends an operation with nothing done loses it.
LEMMA RegisterStutters ==
  ASSUME NEW c \in calls, UNCHANGED <<calls, vault>>, \A d \in calls \ {c} : pc'[d] = pc[d],
         \/ c \notin VaultCalls
         \/ StatusOf(c)' = StatusOf(c)
         \/ StatusOf(c) = "open" /\ StatusOf(c)' = "lost"
  PROVE  Register!Next \/ UNCHANGED Register!vars
<1>1. CASE c \notin VaultCalls \/ StatusOf(c)' = StatusOf(c)
  BY <1>1, StatusMoves DEF Register!vars, StatusNow
<1>2. CASE c \in VaultCalls /\ StatusOf(c) = "open" /\ StatusOf(c)' = "lost"
  <2>1. StatusNow' = [d \in DOMAIN StatusNow |->
                        IF d \in {c} /\ StatusNow[d] = "open" THEN "lost" ELSE StatusNow[d]]
    BY <1>2, StatusMoves DEF StatusNow
  <2>2. StatusNow[c] = "open" /\ {c} \in SUBSET DOMAIN StatusNow
    BY <1>2 DEF StatusNow
  <2>3. Register!Lose({c})
    BY <2>1, <2>2 DEF Register!Lose, StatusNow
  <2> QED BY <2>2, <2>3 DEF Register!Next, StatusNow
<1> QED BY <1>1, <1>2

LEMMA RegisterPut ==
  ASSUME Inv, NEW c \in calls, Put(c), UNCHANGED calls, \A d \in calls \ {c} : pc'[d] = pc[d]
  PROVE  Register!Next \/ UNCHANGED Register!vars
<1> USE DEF At, Go, accountVars, Inv, Shape, RequestsOK
<1>0. c.op = "put" /\ c \in VaultCalls
  BY DEF VaultCalls, Put, TryWriteEnter, TryWriteCheck, TryWriteMove, RecordOwner, RegisterEnter, InsertIfAbsent
<1>1. CASE TryWriteMove(c)
  <2>1. StatusOf(c) = "open" /\ StatusOf(c)' = "done" /\ Fits(c, vault[c.who])
    BY <1>1 DEF TryWriteMove, StatusOf, Relied
  <2>2. StatusNow[c] = "open" /\ StatusNow' = [StatusNow EXCEPT ![c] = "done"]
    BY <1>0, <2>1, StatusMoves DEF StatusNow
  <2>3. Register!Write(c)
    BY <1>0, <1>1, <2>1, <2>2 DEF TryWriteMove, Register!Write, Register!Ends, StatusNow, PersonOf, IsPut, BodyOf
  <2> QED BY <1>0, <2>3 DEF Register!Next, StatusNow
<1>2. CASE TryWriteCheck(c) /\ ~Fits(c, vault[c.who])
  <2>1. StatusOf(c) = "open" /\ StatusOf(c)' = "refused" /\ UNCHANGED vault
    BY <1>2 DEF TryWriteCheck, StatusOf
  <2>2. StatusNow[c] = "open" /\ StatusNow' = [StatusNow EXCEPT ![c] = "refused"]
    BY <1>0, <2>1, StatusMoves DEF StatusNow
  <2>3. Register!Refuse(c)
    BY <1>0, <1>2, <2>1, <2>2 DEF Register!Refuse, Register!Ends, StatusNow, PersonOf, IsPut
  <2> QED BY <1>0, <2>3 DEF Register!Next, StatusNow
<1>3. CASE \/ TryWriteEnter(c) \/ RecordOwner(c) \/ RegisterEnter(c) \/ InsertIfAbsent(c)
           \/ TryWriteCheck(c) /\ Fits(c, vault[c.who])
  <2>1. UNCHANGED vault /\ StatusOf(c)' = StatusOf(c)
    BY <1>3 DEF TryWriteEnter, TryWriteCheck, RecordOwner, RegisterEnter, InsertIfAbsent, StatusOf
  <2> QED BY <2>1, RegisterStutters
<1> QED BY <1>1, <1>2, <1>3 DEF Put

LEMMA RegisterDelete ==
  ASSUME Inv, NEW c \in calls, Delete(c), UNCHANGED calls, \A d \in calls \ {c} : pc'[d] = pc[d]
  PROVE  Register!Next \/ UNCHANGED Register!vars
<1> USE DEF At, Go, accountVars, Inv, Shape, RequestsOK
<1>0. c.op = "delete" /\ c \in VaultCalls
  BY DEF VaultCalls, Delete, DeleteEnter, DeleteVault, DeleteOwner, DeleteInbox, DeleteKey, DeleteMember
<1>1. CASE DeleteVault(c)
  <2>0. StatusNow[c] = "open"
    BY <1>0, <1>1 DEF DeleteVault, StatusOf, StatusNow
  <2>1. CASE vault' = [vault EXCEPT ![c.who] = Absent] /\ pc'[c] = "owner"
    <3>1. StatusNow' = [StatusNow EXCEPT ![c] = "done"]
      BY <1>0, <2>1, StatusMoves DEF StatusOf
    <3>2. Register!Remove(c)
      BY <1>0, <2>0, <2>1, <3>1 DEF Register!Remove, Register!Ends, StatusNow, PersonOf, IsPut
    <3> QED BY <1>0, <3>2 DEF Register!Next, StatusNow
  <2>2. CASE UNCHANGED vault /\ pc'[c] = "503"
    <3>1. StatusNow' = [StatusNow EXCEPT ![c] = "refused"]
      BY <1>0, <2>2, StatusMoves DEF StatusOf
    <3>2. Register!Refuse(c)
      BY <1>0, <2>0, <2>2, <3>1 DEF Register!Refuse, Register!Ends, StatusNow, IsPut
    <3> QED BY <1>0, <3>2 DEF Register!Next, StatusNow
  <2> QED BY <1>1, <2>1, <2>2 DEF DeleteVault
<1>2. CASE DeleteEnter(c) \/ DeleteOwner(c) \/ DeleteInbox(c) \/ DeleteKey(c) \/ DeleteMember(c)
  <2>1. UNCHANGED vault /\ StatusOf(c)' = StatusOf(c)
    BY <1>2 DEF DeleteEnter, DeleteOwner, DeleteInbox, DeleteKey, DeleteMember, StatusOf
  <2> QED BY <2>1, RegisterStutters
<1> QED BY <1>1, <1>2 DEF Delete

\* A process that dies loses the operations of its own that had not yet taken effect; the ones that
\* had stay done.
LEMMA RegisterCrash ==
  ASSUME Inv, NEW q \in Procs, Crash(q)
  PROVE  Register!Next \/ UNCHANGED Register!vars
<1> DEFINE cut == {c \in VaultCalls : c.proc = q /\ pc[c] \notin Answers \cup {"new"}}
<1>1. UNCHANGED <<calls, vault>> /\ VaultCalls' = VaultCalls
  BY DEF Crash, accountVars, VaultCalls
<1>2. ASSUME NEW c \in VaultCalls
      PROVE  StatusOf(c)' = IF c \in cut /\ StatusOf(c) = "open" THEN "lost" ELSE StatusOf(c)
  <2>1. CASE c \notin cut
    <3>1. pc'[c] = pc[c]
      BY <1>2, <2>1 DEF Crash, VaultCalls
    <3> QED BY <2>1, <3>1 DEF StatusOf
  <2>2. CASE c \in cut
    <3>1. pc'[c] = EndsAs(c)
      BY <1>2, <2>2 DEF Crash, VaultCalls
    <3>2. CASE c.op = "put"
      <4>1. pc[c] \in PutPlaces \ (Answers \cup {"new"})
        BY <2>2, <3>2 DEF Inv, Relied, VaultCalls
      <4> QED BY <2>2, <3>1, <3>2, <4>1 DEF StatusOf, EndsAs, PutPlaces, Answers
    <3>3. CASE c.op = "delete"
      <4>1. pc[c] \in DeletePlaces \ (Answers \cup {"new"})
        BY <2>2, <3>3 DEF Inv, Relied, VaultCalls
      <4> QED BY <2>2, <3>1, <3>3, <4>1 DEF StatusOf, EndsAs, DeletePlaces, Answers
    <3> QED BY <3>2, <3>3 DEF VaultCalls
  <2> QED BY <2>1, <2>2
<1>3. StatusNow' = [c \in DOMAIN StatusNow |->
                      IF c \in cut /\ StatusNow[c] = "open" THEN "lost" ELSE StatusNow[c]]
  BY <1>1, <1>2 DEF StatusNow
<1>4. cut \in SUBSET DOMAIN StatusNow
  BY DEF StatusNow
<1>5. CASE \E c \in cut : StatusNow[c] = "open"
  <2>1. Register!Lose(cut)
    BY <1>1, <1>3, <1>5 DEF Register!Lose, StatusNow
  <2> QED BY <1>4, <2>1 DEF Register!Next, StatusNow
<1>6. CASE \A c \in cut : StatusNow[c] # "open"
  <2>1. StatusNow' = StatusNow
    BY <1>3, <1>6 DEF StatusNow
  <2> QED BY <1>1, <2>1 DEF Register!vars, StatusNow
<1> QED BY <1>5, <1>6

LEMMA RegisterStep == ASSUME Inv, [Next]_vars PROVE [Register!Next]_Register!vars
<1>1. ASSUME NEW c \in calls, AccountStep(c) PROVE Register!Next \/ UNCHANGED Register!vars
  <2>1. UNCHANGED calls /\ \A d \in calls \ {c} : pc'[d] = pc[d]
    BY <1>1, AccountsOwnPlace DEF Inv
  <2>2. CASE GetKey(c) \/ Edit(c)
    <3>1. c \notin VaultCalls /\ UNCHANGED vault
      BY <2>2 DEF VaultCalls, At, accountVars, GetKey, KeyFind, KeyEnter, KeyFindAgain, TryCreate,
         AfterAFailedCreate, Edit, EditEnter, EditRead, EditWrite
    <3> QED BY <2>1, <3>1, RegisterStutters
  <2>3. CASE Arrive(c)
    <3>1. UNCHANGED vault /\ pc[c] = "new" /\ pc'[c] \in {"403", "start"}
      BY <2>3 DEF Arrive, Go, accountVars, Inv, Shape, RequestsOK
    <3> QED BY <2>1, <3>1, RegisterStutters DEF StatusOf
  <2>4. CASE Abandon(c)
    <3>1. UNCHANGED vault /\ pc[c] \in Abandonable(c) /\ pc'[c] = EndsAs(c)
      BY <2>4 DEF Abandon, Go, accountVars, Inv, Shape, RequestsOK
    <3>2. \/ c \notin VaultCalls
          \/ StatusOf(c)' = StatusOf(c)
          \/ StatusOf(c) = "open" /\ StatusOf(c)' = "lost"
      BY <3>1 DEF VaultCalls, Abandonable, EndsAs, StatusOf
    <3> QED BY <2>1, <3>1, <3>2, RegisterStutters
  <2> QED BY <1>1, <2>1, <2>2, <2>3, <2>4, RegisterPut, RegisterDelete DEF AccountStep
<1>2. ASSUME NEW c \in calls, ShareStep(c) PROVE Register!Next \/ UNCHANGED Register!vars
  <2>1. c \notin VaultCalls
    BY <1>2, ShareOps DEF VaultCalls
  <2>2. UNCHANGED <<calls, vault>> /\ \A d \in calls \ {c} : pc'[d] = pc[d]
    BY <1>2, SharesOwnPlace DEF Inv, ShareStep, accountVars
  <2> QED BY <2>1, <2>2, RegisterStutters
<1>3. CASE UNCHANGED <<calls, pc, vault>>
  BY <1>3 DEF Register!vars, VaultCalls, StatusOf
<1>4. TimePasses \/ UNCHANGED vars => UNCHANGED <<calls, pc, vault>>
  BY DEF TimePasses, Age, vars, accountVars
<1> QED BY <1>1, <1>2, <1>3, <1>4, RegisterCrash DEF Next

\* The several file operations of PUT and DELETE /api/vault, with every failure, cancellation and
\* crash between them, implement one compare-and-swap register for each person.
THEOREM VaultsAreRegisters == Spec => VaultIsARegister
<1>1. Init => Register!Init
  <2> SUFFICES ASSUME NEW scene \in Scenes, Init!(scene) PROVE Register!Init
    BY DEF Init
  <2> QED BY DEF Register!Init, VaultCalls, StatusOf
<1> QED BY <1>1, InvHolds, RegisterStep, PTL DEF Spec, VaultIsARegister, Register!Spec

-----------------------------------------------------------------------------
(* The share store.  A share that waits in an inbox keeps the receipt its  *)
(* sender withdraws it by, for every number of senders, recipients, blocks *)
(* and sweeps.                                                             *)
(*                                                                         *)
(* No gate orders the requests on shares, so the argument rests on what    *)
(* never changes back: a share whose file was written and has gone does    *)
(* not come again.  Each request that is about to take a receipt away      *)
(* knows that of its share.                                                *)

Posts(s) == {c \in calls : c.op = "post" /\ c.share = s}

\* Every request that posts s was answered 201.
Posted(s) == \A c \in Posts(s) : pc[c] = "201"

\* No request has still to write s into its inbox.
Landed(s) == \A c \in Posts(s) : pc[c] \notin {"new", "start", "append"}

\* s has left its inbox for good.
Gone(s) == Landed(s) /\ s \notin inbox

\* What the files of a share say together.
FilesAgree ==
  /\ \A c \in calls, d \in calls :
       c.op = "post" /\ d.op = "post" /\ c.share = d.share => c = d
  /\ \A s \in Shares :
       /\ receipt[s] # "none" => Posted(s)
       /\ receipt[s] = "withdrawn" => Gone(s)
       /\ s \in inbox \cup old => Landed(s)
       /\ refusals = 0 /\ Posted(s) /\ s \in inbox => receipt[s] # "none"

\* What a withdrawal knows of its share.
WithdrawKnows(c) ==
  c.op = "withdraw" =>
    /\ pc[c] \in {"exists", "remove"} => Posted(c.share)
    /\ pc[c] \in {"forget", "late", "dismiss"} => Gone(c.share)

\* What the withdrawal that follows a block knows of the share in hand.
BlockKnows(c) ==
  c.op = "edit" =>
    /\ pc[c] \in {"forget", "forgetSent"} => Landed(work[c].cur)
    /\ pc[c] \in {"tell", "rewrite"} => Gone(work[c].cur)
    /\ pc[c] = "rewrite" => Posted(work[c].cur)
    /\ pc[c] = "forgetReceipt" /\ refusals = 0 => Gone(work[c].cur)

\* What a sweep knows of the share in hand, of those it has listed, and of those it found old.
SweepKnows(c) ==
  c.op = "sweep" =>
    /\ pc[c] \in {"receipts", "judge", "retire"} => \A s \in work[c].todo : Posted(s)
    /\ pc[c] \in {"judge", "retire"} => Posted(work[c].cur)
    /\ pc[c] = "judge" /\ seen[c] = "none" /\ refusals = 0 => Gone(work[c].cur)
    /\ pc[c] = "retire" /\ refusals = 0 => Gone(work[c].cur)
    /\ pc[c] \in {"prune", "expire", "pruneReceipts"} => \A s \in work[c].stale : Landed(s)
    /\ pc[c] \in {"prune", "expire"} /\ refusals = 0
         => \A s \in work[c].stale : s \notin inbox \/ s \in work[c].todo
    /\ pc[c] = "pruneReceipts" => work[c].todo \subseteq work[c].stale
    /\ pc[c] = "pruneReceipts" /\ refusals = 0 => \A s \in work[c].stale : s \notin inbox

Knows(c) == WithdrawKnows(c) /\ BlockKnows(c) /\ SweepKnows(c)

SharesAgree == FilesAgree /\ \A c \in calls : Knows(c)

-----------------------------------------------------------------------------
(* What every step leaves as it is.                                        *)

Writing == {"new", "start", "append"}

\* How a step may change the files of a share, and the requests that post it.
Orderly ==
  /\ UNCHANGED calls
  /\ refusals' = 0 => refusals = 0
  /\ \A d \in calls : d.op = "post" =>
       /\ pc[d] = "201" => pc'[d] = "201"
       /\ pc[d] \notin Writing => pc'[d] \notin Writing
       /\ pc[d] # "201" /\ pc'[d] = "201" => receipt'[d.share] = "sent"
  /\ \A s \in inbox' \ inbox : \E d \in Posts(s) : pc[d] = "append" /\ pc'[d] = "receipt"
  /\ \A s \in Shares :
       \/ receipt'[s] = receipt[s]
       \/ receipt'[s] = "none" /\ (refusals' = 0 => Gone(s))
       \/ receipt'[s] = "withdrawn" /\ Posted(s) /\ Gone(s)
       \/ receipt'[s] = "sent" /\ Posted(s)'
  /\ \A s \in old' \ old : s \in inbox \/ receipt[s] # "none"

LEMMA PostedHasLanded == ASSUME NEW s, Posted(s) PROVE Landed(s)
  BY DEF Posted, Landed

\* What is known of a share stays true.
LEMMA Lasts ==
  ASSUME Orderly, NEW s
  PROVE  /\ Posted(s) => Posted(s)'
         /\ Landed(s) => Landed(s)'
         /\ Landed(s) /\ s \in inbox' => s \in inbox
         /\ Gone(s) => Gone(s)'
<1>1. Posts(s)' = Posts(s)
  BY DEF Orderly, Posts
<1>2. Posted(s) => Posted(s)'
  BY <1>1 DEF Orderly, Posted, Posts
<1>3. Landed(s) => Landed(s)'
  BY <1>1 DEF Orderly, Landed, Posts, Writing
<1>4. Landed(s) /\ s \in inbox' => s \in inbox
  BY DEF Orderly, Landed
<1> QED BY <1>2, <1>3, <1>4 DEF Gone

LEMMA FilesKept == ASSUME Shape, FilesAgree, Orderly PROVE FilesAgree'
<1>0. ASSUME NEW s PROVE Posts(s)' = Posts(s)
  BY DEF Orderly, Posts
<1>1. \A c \in calls', d \in calls' : c.op = "post" /\ d.op = "post" /\ c.share = d.share => c = d
  BY DEF Orderly, FilesAgree
<1>2. ASSUME NEW s \in Shares, receipt'[s] # "none" PROVE Posted(s)'
  BY <1>2, Lasts DEF Orderly, FilesAgree
<1>3. ASSUME NEW s \in Shares, receipt'[s] = "withdrawn" PROVE Gone(s)'
  BY <1>3, Lasts DEF Orderly, FilesAgree
<1>4. ASSUME NEW s \in Shares, s \in inbox' \ inbox PROVE Landed(s)' /\ ~Posted(s)'
  <2>1. PICK d \in Posts(s) : pc'[d] = "receipt"
    BY <1>4 DEF Orderly
  <2>2. \A e \in Posts(s) : e = d
    BY DEF Posts, FilesAgree
  <2> QED BY <1>0, <2>1, <2>2 DEF Landed, Posted
<1>5. ASSUME NEW s \in Shares, s \in inbox' \cup old' PROVE Landed(s)'
  <2>1. CASE s \in inbox' \ inbox
    BY <1>4, <2>1
  <2>2. CASE s \in inbox \cup old
    BY <2>2, Lasts DEF FilesAgree
  <2>3. CASE s \in old' \ old
    BY <2>3, Lasts, PostedHasLanded DEF FilesAgree, Orderly
  <2> QED BY <1>5, <2>1, <2>2, <2>3
<1>6. ASSUME NEW s \in Shares, refusals' = 0, Posted(s)', s \in inbox' PROVE receipt'[s] # "none"
  <2>1. s \in inbox
    BY <1>4, <1>6
  <2>2. CASE Posted(s)
    <3>1. receipt[s] # "none"
      BY <1>6, <2>1, <2>2 DEF FilesAgree, Orderly
    <3> QED BY <1>6, <2>1, <3>1 DEF Orderly, Gone
  <2>3. CASE ~Posted(s)
    <3>1. PICK d \in Posts(s) : pc[d] # "201"
      BY <2>3 DEF Posted
    <3>2. pc'[d] = "201"
      BY <1>0, <1>6 DEF Posted
    <3>3. receipt'[d.share] = "sent" /\ d.share = s
      BY <3>1, <3>2 DEF Orderly, Posts
    <3> QED BY <3>3
  <2> QED BY <2>2, <2>3
<1> QED BY <1>1, <1>2, <1>3, <1>5, <1>6 DEF FilesAgree

\* A request whose place, loop and reading are the same still knows what it knew.
LEMMA StillKnows ==
  ASSUME Shape, Orderly, NEW d \in calls, Knows(d), pc'[d] = pc[d], work'[d] = work[d], seen'[d] = seen[d]
  PROVE  Knows(d)'
<1>1. WithdrawKnows(d)'
  BY Lasts DEF Knows, WithdrawKnows
<1>2. BlockKnows(d)'
  BY Lasts DEF Knows, BlockKnows, Orderly
<1>3. SweepKnows(d)'
  <2> SUFFICES ASSUME d.op = "sweep" PROVE SweepKnows(d)'
    BY DEF SweepKnows
  <2>1. pc[d] \in {"receipts", "judge", "retire"} => \A s \in work[d].todo : Posted(s)'
    BY Lasts DEF Knows, SweepKnows
  <2>2. /\ pc[d] \in {"judge", "retire"} => Posted(work[d].cur)'
        /\ pc[d] = "judge" /\ seen[d] = "none" /\ refusals' = 0 => Gone(work[d].cur)'
        /\ pc[d] = "retire" /\ refusals' = 0 => Gone(work[d].cur)'
    BY Lasts DEF Knows, SweepKnows, Orderly
  <2>3. pc[d] \in {"prune", "expire", "pruneReceipts"} => \A s \in work[d].stale : Landed(s)'
    BY Lasts DEF Knows, SweepKnows
  <2>4. pc[d] \in {"prune", "expire"} /\ refusals' = 0
          => \A s \in work[d].stale : s \notin inbox' \/ s \in work[d].todo
    BY Lasts DEF Knows, SweepKnows, Orderly
  <2>5. pc[d] = "pruneReceipts" /\ refusals' = 0 => \A s \in work[d].stale : s \notin inbox'
    BY Lasts DEF Knows, SweepKnows, Orderly
  <2> QED BY <2>1, <2>2, <2>3, <2>4, <2>5 DEF Knows, SweepKnows
<1> QED BY <1>1, <1>2, <1>3 DEF Knows

\* The places where a request relies on something.
Places(c) ==
  CASE c.op = "withdraw" -> {"exists", "remove", "forget", "late", "dismiss"}
    [] c.op = "edit" -> {"forget", "tell", "rewrite", "forgetSent", "forgetReceipt"}
    [] c.op = "sweep" -> {"receipts", "judge", "retire", "prune", "expire", "pruneReceipts"}
    [] OTHER -> {}

LEMMA NothingToKnow == ASSUME NEW c, pc'[c] \notin Places(c) PROVE Knows(c)'
<1>1. WithdrawKnows(c)'
  BY DEF WithdrawKnows, Places
<1>2. BlockKnows(c)'
  BY DEF BlockKnows, Places
<1>3. SweepKnows(c)'
  BY DEF SweepKnows, Places
<1> QED BY <1>1, <1>2, <1>3 DEF Knows

-----------------------------------------------------------------------------
(* The steps of the requests.                                              *)

\* A request other than the one that moves keeps its place, its loop and its reading.
Alone(c) == \A d \in calls \ {c} : pc'[d] = pc[d] /\ work'[d] = work[d] /\ seen'[d] = seen[d]

LEMMA SharesAlone ==
  ASSUME Shape, NEW c \in calls, ShareStep(c)
  PROVE  Alone(c)
<1> USE DEF Shape, RequestsOK
<1>0. work \in [calls -> Works]
  BY DEF LoopsOK
<1>1. \A d \in calls \ {c} : pc'[d] = pc[d]
  BY SharesOwnPlace
<1>2. CASE Post(c) \/ Take(c) \/ Withdraw(c) \/ ShareAbandon(c)
  BY <1>1, <1>2 DEF Alone, See, Post, PostCheck, PostWrites, Take, TakeRead, TakeExists, TakeRemove,
     TakeRow, Withdraw, WithdrawRead, WithdrawExists, WithdrawRemove, WithdrawForget, WithdrawRow, ShareAbandon
<1>3. CASE Block(c)
  BY <1>0, <1>1, <1>3 DEF Alone, Works, List, TakeUp, DoneWith, DoneTaking, Block, BlockList, BlockItem,
     BlockForget, BlockTell, BlockRewrite, BlockListSent, BlockSent, BlockForgetSent, BlockForgetReceipt, BlockRows
<1>4. CASE Sweep(c)
  BY <1>0, <1>1, <1>4 DEF Alone, See, Works, List, TakeUp, DoneWith, DoneTaking, Sweep, SweepList, SweepRead,
     SweepJudge, SweepRetire, PruneList, PruneRead, PruneForget, PruneListReceipts, PruneReceipt, SweepRows
<1> QED BY <1>2, <1>3, <1>4 DEF ShareStep

\* A step that adds no share file, answers no post and leaves the receipts alone is orderly.
LEMMA OrderlyQuiet ==
  ASSUME Shape, NEW c \in calls, UNCHANGED <<calls, receipt, old>>, Alone(c), inbox' \subseteq inbox,
         refusals' = refusals \/ Refused,
         c.op = "post" => /\ pc[c] # "201" /\ pc'[c] # "201"
                          /\ pc[c] \in Writing \/ pc'[c] \notin Writing
  PROVE  Orderly
<1>1. refusals' = 0 => refusals = 0
  BY DEF Refused, Shape, FilesOK
<1>2. \A d \in calls : d.op = "post" =>
        /\ pc[d] = "201" => pc'[d] = "201"
        /\ pc[d] \notin Writing => pc'[d] \notin Writing
        /\ pc[d] # "201" => pc'[d] # "201"
  BY DEF Alone
<1> QED BY <1>1, <1>2 DEF Orderly

\* A step of a withdrawal, a block or the maintenance that changes the receipt of share s.
LEMMA OrderlyReceipt ==
  ASSUME Shape, NEW c \in calls, c.op # "post", UNCHANGED <<calls, inbox, old>>, Alone(c), NEW s \in Shares,
         NEW v, receipt' = [receipt EXCEPT ![s] = v],
         \/ v = "none" /\ (refusals = 0 => Gone(s))
         \/ v = "withdrawn" /\ Posted(s) /\ Gone(s),
         UNCHANGED refusals
  PROVE  Orderly
<1>1. \A d \in calls : d.op = "post" => pc'[d] = pc[d]
  BY DEF Alone
<1>2. receipt'[s] = v /\ \A r \in Shares \ {s} : receipt'[r] = receipt[r]
  BY DEF Shape, FilesOK
<1> QED BY <1>1, <1>2 DEF Orderly

LEMMA PostAgrees ==
  ASSUME Shape, SharesAgree, NEW c \in calls, ShareStep(c), Post(c) \/ Take(c) \/ ShareAbandon(c)
  PROVE  Orderly /\ Knows(c)'
<1> USE DEF At, Go, Shape, RequestsOK
<1>0. Alone(c) /\ UNCHANGED <<calls, old>>
  BY SharesAlone DEF ShareStep
<1>1. CASE PostCheck(c) \/ Take(c) \/ ShareAbandon(c)
  <2>1. c.op \in {"post", "take"} \/ ShareAbandon(c)
    BY <1>1 DEF PostCheck, Take, TakeRead, TakeExists, TakeRemove, TakeRow
  <2>2. Orderly
    <3>1. UNCHANGED <<receipt, refusals>> /\ inbox' \subseteq inbox
      BY <1>1 DEF PostCheck, Take, TakeRead, TakeExists, TakeRemove, TakeRow, ShareAbandon
    <3>2. c.op = "post" => /\ pc[c] # "201" /\ pc'[c] # "201"
                           /\ pc[c] \in Writing \/ pc'[c] \notin Writing
      BY <1>1 DEF PostCheck, Take, TakeRead, TakeExists, TakeRemove, TakeRow, ShareAbandon, ShareAbandonable, Writing
    <3> QED BY <1>0, <3>1, <3>2, OrderlyQuiet
  <2>3. pc'[c] \notin Places(c)
    BY <1>1, <2>1 DEF PostCheck, ShareAbandon, Places
  <2> QED BY <2>2, <2>3, NothingToKnow
<1>2. CASE At(c, "post", "append") /\ PostWrites(c)
  <2>1. /\ inbox' = inbox \cup {c.share} /\ UNCHANGED <<receipt, refusals>>
        /\ pc'[c] = "receipt" /\ c \in Posts(c.share)
    BY <1>2 DEF PostWrites, Posts
  <2>2. Orderly
    BY <1>0, <1>2, <2>1 DEF Orderly, Alone, Writing
  <2>3. pc'[c] \notin Places(c)
    BY <1>2, <2>1 DEF Places
  <2> QED BY <2>2, <2>3, NothingToKnow
<1>3. CASE At(c, "post", "receipt") /\ PostWrites(c)
  <2>1. /\ receipt' = [receipt EXCEPT ![c.share] = "sent"] /\ UNCHANGED <<inbox, refusals>>
        /\ pc'[c] = "201" /\ c.share \in Shares
    BY <1>3 DEF PostWrites, WellMade
  <2>2. Posts(c.share)' = {c}
    BY <1>0, <1>3 DEF Posts, SharesAgree, FilesAgree
  <2>3. Posted(c.share)'
    BY <2>1, <2>2 DEF Posted
  <2>4. receipt'[c.share] = "sent" /\ \A s \in Shares \ {c.share} : receipt'[s] = receipt[s]
    BY <2>1 DEF FilesOK
  <2>5. Orderly
    BY <1>0, <1>3, <2>1, <2>3, <2>4 DEF Orderly, Alone, Writing
  <2>6. pc'[c] \notin Places(c)
    BY <1>3 DEF Places
  <2> QED BY <2>5, <2>6, NothingToKnow
<1> QED BY <1>1, <1>2, <1>3 DEF Post, PostWrites

LEMMA WithdrawAgrees ==
  ASSUME Shape, SharesAgree, NEW c \in calls, ShareStep(c), Withdraw(c)
  PROVE  Orderly /\ Knows(c)'
<1> USE DEF At, Go, Shape, RequestsOK
<1>0. Alone(c) /\ UNCHANGED <<calls, old>>
  BY SharesAlone DEF ShareStep
<1>1. c.op = "withdraw" /\ c.share \in Shares
  BY DEF WellMade, Withdraw, WithdrawRead, WithdrawExists, WithdrawRemove, WithdrawForget, WithdrawRow
<1>2. WithdrawKnows(c) /\ FilesAgree
  BY DEF SharesAgree, Knows
<1>3. ASSUME WithdrawKnows(c)' PROVE Knows(c)'
  BY <1>1, <1>3 DEF Knows, BlockKnows, SweepKnows
<1>4. CASE WithdrawRead(c)
  <2>1. Orderly
    BY <1>0, <1>1, <1>4, OrderlyQuiet DEF WithdrawRead
  <2>2. /\ pc'[c] = "exists" => Posted(c.share)
        /\ pc'[c] = "dismiss" => Gone(c.share)
        /\ pc'[c] \in {"404", "exists", "dismiss"}
    BY <1>1, <1>2, <1>4 DEF WithdrawRead, FilesAgree
  <2>3. WithdrawKnows(c)'
    BY <2>1, <2>2, Lasts DEF WithdrawKnows
  <2> QED BY <1>3, <2>1, <2>3
<1>5. CASE WithdrawExists(c)
  <2>1. Orderly
    BY <1>0, <1>1, <1>5, OrderlyQuiet DEF WithdrawExists
  <2>2. Posted(c.share) /\ Landed(c.share)
    BY <1>2, <1>5, PostedHasLanded DEF WithdrawExists, WithdrawKnows
  <2>3. /\ pc'[c] = "late" => Gone(c.share)
        /\ pc'[c] \in {"remove", "late"}
    BY <1>5, <2>2 DEF WithdrawExists, Gone
  <2>4. WithdrawKnows(c)'
    BY <2>1, <2>2, <2>3, Lasts DEF WithdrawKnows
  <2> QED BY <1>3, <2>1, <2>4
<1>6. CASE WithdrawRemove(c)
  <2>1. Orderly
    BY <1>0, <1>1, <1>6, OrderlyQuiet DEF WithdrawRemove
  <2>2. Landed(c.share)'
    BY <1>2, <1>6, <2>1, PostedHasLanded, Lasts DEF WithdrawRemove, WithdrawKnows
  <2>3. WithdrawKnows(c)'
    BY <1>0, <1>6, <2>2 DEF WithdrawRemove, WithdrawKnows, Gone
  <2> QED BY <1>3, <2>1, <2>3
<1>7. CASE WithdrawForget(c)
  <2>1. Gone(c.share)
    BY <1>2, <1>7 DEF WithdrawForget, WithdrawKnows
  <2>2. Orderly
    BY <1>0, <1>1, <1>7, <2>1, OrderlyReceipt DEF WithdrawForget
  <2>3. pc'[c] \notin Places(c)
    BY <1>1, <1>7 DEF WithdrawForget, Places
  <2> QED BY <2>2, <2>3, NothingToKnow
<1>8. CASE WithdrawRow(c)
  <2>1. Orderly
    BY <1>0, <1>1, <1>8, OrderlyQuiet DEF WithdrawRow
  <2>2. pc'[c] \notin Places(c)
    BY <1>1, <1>8 DEF WithdrawRow, Places
  <2> QED BY <2>1, <2>2, NothingToKnow
<1> QED BY <1>4, <1>5, <1>6, <1>7, <1>8 DEF Withdraw

LEMMA BlockAgrees ==
  ASSUME Shape, SharesAgree, NEW c \in calls, ShareStep(c), Block(c)
  PROVE  Orderly /\ Knows(c)'
<1> USE DEF At, Go, Shape, RequestsOK
<1>0. Alone(c) /\ UNCHANGED <<calls, old>>
  BY SharesAlone DEF ShareStep
<1>1. c.op = "edit"
  BY DEF Block, BlockList, BlockItem, BlockForget, BlockTell, BlockRewrite, BlockListSent, BlockSent,
         BlockForgetSent, BlockForgetReceipt, BlockRows
<1>2. BlockKnows(c) /\ FilesAgree
  BY DEF SharesAgree, Knows
<1>3. ASSUME BlockKnows(c)' PROVE Knows(c)'
  BY <1>1, <1>3 DEF Knows, WithdrawKnows, SweepKnows
<1>4. work \in [calls -> Works] /\ work[c].todo \in SUBSET Shares
  BY DEF LoopsOK, Works
<1>5. InHand(c) => work[c].cur \in Shares
  BY DEF LoopsOK
<1>6. Refused => refusals' # 0
  BY DEF Refused, FilesOK
<1>7. CASE BlockList(c) \/ BlockListSent(c) \/ BlockRows(c)
  <2>1. Orderly
    BY <1>0, <1>1, <1>7, OrderlyQuiet DEF BlockList, BlockListSent, BlockRows
  <2>2. pc'[c] \notin Places(c)
    BY <1>1, <1>7 DEF BlockList, BlockListSent, BlockRows, Places
  <2> QED BY <2>1, <2>2, NothingToKnow
<1>8. CASE BlockItem(c)
  <2>1. Orderly
    BY <1>0, <1>1, <1>8, OrderlyQuiet DEF BlockItem
  <2>2. PICK s \in work[c].todo : \/ s \in inbox /\ TakeUp(c, s) /\ pc'[c] = "forget"
                                  \/ pc'[c] = "items"
    BY <1>8 DEF BlockItem
  <2>3. CASE s \in inbox /\ TakeUp(c, s) /\ pc'[c] = "forget"
    <3>1. work'[c].cur = s
      BY <1>4, <2>3, LoopTurn DEF Turned
    <3>2. Landed(s)'
      BY <1>2, <1>4, <2>1, <2>3, Lasts DEF FilesAgree
    <3> QED BY <1>3, <2>1, <2>3, <3>1, <3>2 DEF BlockKnows
  <2>4. CASE pc'[c] = "items"
    BY <1>1, <2>1, <2>4, NothingToKnow DEF Places
  <2> QED BY <2>2, <2>3, <2>4
<1>9. CASE BlockForget(c)
  <2>0. work[c].cur \in Shares /\ Landed(work[c].cur)
    BY <1>2, <1>5, <1>9 DEF BlockForget, InHand, BlockKnows
  <2>1. Orderly
    BY <1>0, <1>1, <1>9, OrderlyQuiet DEF BlockForget
  <2>2. CASE inbox' = inbox \ {work[c].cur} /\ DoneTaking(c, work[c].cur) /\ pc'[c] = "tell"
    <3>1. work'[c].cur = work[c].cur
      BY <1>4, <2>0, <2>2, LoopTurn DEF Turned
    <3>2. Gone(work[c].cur)'
      <4>1. Landed(work[c].cur)'
        BY <2>0, <2>1, <3>1, Lasts
      <4> QED BY <2>2, <3>1, <4>1 DEF Gone
    <3> QED BY <1>3, <2>1, <2>2, <3>1, <3>2 DEF BlockKnows
  <2>3. CASE pc'[c] = "items"
    BY <1>1, <2>1, <2>3, NothingToKnow DEF Places
  <2> QED BY <1>9, <2>2, <2>3 DEF BlockForget
<1>10. CASE BlockTell(c)
  <2>0. work[c].cur \in Shares /\ Gone(work[c].cur)
    BY <1>2, <1>5, <1>10 DEF BlockTell, InHand, BlockKnows
  <2>1. Orderly
    BY <1>0, <1>1, <1>10, OrderlyQuiet DEF BlockTell
  <2>2. CASE pc'[c] = "rewrite" /\ receipt[work[c].cur] # "none"
    <3>1. Posted(work[c].cur)
      BY <1>2, <2>0, <2>2 DEF FilesAgree
    <3>2. UNCHANGED work
      BY <1>10 DEF BlockTell
    <3> QED BY <1>3, <2>0, <2>1, <2>2, <3>1, <3>2, Lasts DEF BlockKnows
  <2>3. CASE pc'[c] = "items"
    BY <1>1, <2>1, <2>3, NothingToKnow DEF Places
  <2> QED BY <1>10, <2>2, <2>3 DEF BlockTell
<1>11. CASE BlockRewrite(c)
  <2>0. work[c].cur \in Shares /\ Gone(work[c].cur) /\ Posted(work[c].cur)
    BY <1>2, <1>5, <1>11 DEF BlockRewrite, InHand, BlockKnows
  <2>1. Orderly
    BY <1>0, <1>1, <1>11, <2>0, OrderlyQuiet, OrderlyReceipt DEF BlockRewrite
  <2>2. pc'[c] \notin Places(c)
    BY <1>1, <1>11 DEF BlockRewrite, Places
  <2> QED BY <2>1, <2>2, NothingToKnow
<1>12. CASE BlockSent(c)
  <2>1. Orderly
    BY <1>0, <1>1, <1>12, OrderlyQuiet DEF BlockSent
  <2>2. PICK s \in work[c].todo : \/ receipt[s] # "none" /\ TakeUp(c, s) /\ pc'[c] = "forgetSent"
                                  \/ pc'[c] = "sents"
    BY <1>12 DEF BlockSent
  <2>3. CASE receipt[s] # "none" /\ TakeUp(c, s) /\ pc'[c] = "forgetSent"
    <3>1. work'[c].cur = s
      BY <1>4, <2>3, LoopTurn DEF Turned
    <3>2. Landed(s)'
      BY <1>2, <1>4, <2>1, <2>3, PostedHasLanded, Lasts DEF FilesAgree
    <3> QED BY <1>3, <2>1, <2>3, <3>1, <3>2 DEF BlockKnows
  <2>4. CASE pc'[c] = "sents"
    BY <1>1, <2>1, <2>4, NothingToKnow DEF Places
  <2> QED BY <2>2, <2>3, <2>4
<1>13. CASE BlockForgetSent(c)
  <2>0. work[c].cur \in Shares /\ Landed(work[c].cur)
    BY <1>2, <1>5, <1>13 DEF BlockForgetSent, InHand, BlockKnows
  <2>1. Orderly
    BY <1>0, <1>1, <1>13, OrderlyQuiet DEF BlockForgetSent
  <2>2. work'[c].cur = work[c].cur
    BY <1>4, <1>13, <2>0, LoopTurn DEF Turned, BlockForgetSent
  <2>3. Landed(work[c].cur)'
    BY <2>0, <2>1, <2>2, Lasts
  <2>4. refusals' = 0 => Gone(work[c].cur)'
    BY <1>6, <1>13, <2>2, <2>3 DEF Gone, BlockForgetSent
  <2> QED BY <1>3, <1>13, <2>1, <2>4 DEF BlockKnows, BlockForgetSent
<1>14. CASE BlockForgetReceipt(c)
  <2>0. work[c].cur \in Shares /\ (refusals = 0 => Gone(work[c].cur))
    BY <1>2, <1>5, <1>14 DEF BlockForgetReceipt, InHand, BlockKnows
  <2>1. Orderly
    BY <1>0, <1>1, <1>14, <2>0, OrderlyReceipt DEF BlockForgetReceipt
  <2>2. pc'[c] \notin Places(c)
    BY <1>1, <1>14 DEF BlockForgetReceipt, Places
  <2> QED BY <2>1, <2>2, NothingToKnow
<1> QED BY <1>7, <1>8, <1>9, <1>10, <1>11, <1>12, <1>13, <1>14 DEF Block

LEMMA SweepAgrees ==
  ASSUME Shape, SharesAgree, NEW c \in calls, ShareStep(c), Sweep(c)
  PROVE  Orderly /\ Knows(c)'
<1> USE DEF At, Go, Shape, RequestsOK
<1>0. Alone(c) /\ UNCHANGED <<calls, old>>
  BY SharesAlone DEF ShareStep
<1>1. c.op = "sweep"
  BY DEF Sweep, SweepList, SweepRead, SweepJudge, SweepRetire, PruneList, PruneRead, PruneForget,
         PruneListReceipts, PruneReceipt, SweepRows
<1>2. SweepKnows(c) /\ FilesAgree
  BY DEF SharesAgree, Knows
<1>3. ASSUME SweepKnows(c)' PROVE Knows(c)'
  BY <1>1, <1>3 DEF Knows, WithdrawKnows, BlockKnows
<1>4. work \in [calls -> Works] /\ work[c].todo \in SUBSET Shares /\ work[c].stale \in SUBSET Shares
  BY DEF LoopsOK, Works
<1>5. InHand(c) => work[c].cur \in Shares
  BY DEF LoopsOK
<1>6. Refused => refusals' # 0
  BY DEF Refused, FilesOK
<1>7. CASE SweepList(c)
  <2>1. Orderly
    BY <1>0, <1>1, <1>7, OrderlyQuiet DEF SweepList
  <2>2. work'[c].todo = {s \in Shares : receipt[s] # "none"}
    BY <1>4, <1>7, ListTurn DEF SweepList, Turned
  <2>3. \A s \in work'[c].todo : Posted(s)'
    BY <1>2, <2>1, <2>2, Lasts DEF FilesAgree
  <2> QED BY <1>3, <1>7, <2>1, <2>3 DEF SweepKnows, SweepList
<1>8. CASE SweepRead(c)
  <2>1. Orderly
    BY <1>0, <1>1, <1>8, OrderlyQuiet DEF SweepRead
  <2>2. PICK s \in work[c].todo : TakeUp(c, s) /\ seen'[c] = receipt[s]
    BY <1>8 DEF SweepRead, See
  <2>3. work'[c].todo = work[c].todo /\ work'[c].cur = s
    BY <1>4, <2>2, LoopTurn DEF Turned
  <2>4. \A r \in work[c].todo : Posted(r)
    BY <1>2, <1>8, <1>1 DEF SweepKnows, SweepRead
  <2>5. receipt[s] = "none" /\ refusals = 0 => Gone(s)
    BY <1>2, <1>4, <2>4, PostedHasLanded DEF Gone, FilesAgree
  <2>6. \A r \in work'[c].todo : Posted(r)'
    BY <2>1, <2>3, <2>4, Lasts
  <2>7. seen'[c] = "none" /\ refusals' = 0 => Gone(s)'
    BY <2>1, <2>2, <2>5, Lasts DEF Orderly
  <2> QED BY <1>3, <1>8, <2>1, <2>3, <2>6, <2>7 DEF SweepKnows, SweepRead
<1>9. CASE SweepJudge(c)
  <2>0. /\ work[c].cur \in Shares /\ Posted(work[c].cur) /\ Landed(work[c].cur)
        /\ \A r \in work[c].todo : Posted(r)
    BY <1>1, <1>2, <1>5, <1>9, PostedHasLanded DEF SweepJudge, InHand, SweepKnows
  <2>1. Orderly
    BY <1>0, <1>1, <1>9, OrderlyQuiet DEF SweepJudge
  <2>2. CASE pc'[c] = "retire" /\ UNCHANGED work /\ Retirable(work[c].cur, seen[c])
    <3>1. refusals = 0 => Gone(work[c].cur)
      BY <1>1, <1>2, <1>9, <2>0, <2>2 DEF SweepJudge, SweepKnows, Retirable, Gone
    <3>2. \A r \in work[c].todo : Posted(r)'
      BY <2>0, <2>1, Lasts
    <3>3. Posted(work[c].cur)' /\ (refusals' = 0 => Gone(work[c].cur)')
      BY <2>0, <2>1, <2>2, <3>1, Lasts DEF Orderly
    <3> QED BY <1>3, <2>1, <2>2, <3>2, <3>3 DEF SweepKnows
  <2>3. CASE pc'[c] = "receipts" /\ DoneWith(c, work[c].cur)
    <3>1. work'[c].todo \subseteq work[c].todo
      BY <1>4, <2>0, <2>3, LoopTurn DEF Turned
    <3>2. \A r \in work'[c].todo : Posted(r)'
      BY <2>0, <2>1, <3>1, Lasts
    <3> QED BY <1>3, <2>1, <2>3, <3>2 DEF SweepKnows
  <2> QED BY <1>9, <2>2, <2>3 DEF SweepJudge
<1>10. CASE SweepRetire(c)
  <2>0. /\ work[c].cur \in Shares /\ (refusals = 0 => Gone(work[c].cur))
        /\ \A r \in work[c].todo : Posted(r)
    BY <1>1, <1>2, <1>5, <1>10 DEF SweepRetire, InHand, SweepKnows
  <2>1. Orderly
    BY <1>0, <1>1, <1>10, <2>0, OrderlyQuiet, OrderlyReceipt DEF SweepRetire
  <2>2. work'[c].todo \subseteq work[c].todo
    BY <1>4, <1>10, <2>0, LoopTurn DEF Turned, SweepRetire
  <2>3. \A r \in work'[c].todo : Posted(r)'
    BY <2>0, <2>1, <2>2, Lasts
  <2> QED BY <1>3, <1>10, <2>1, <2>3 DEF SweepKnows, SweepRetire
<1>11. CASE PruneList(c)
  <2>1. Orderly
    BY <1>0, <1>1, <1>11, OrderlyQuiet DEF PruneList
  <2>2. work'[c].todo = inbox \cap old /\ work'[c].stale = old /\ UNCHANGED inbox
    BY <1>11, PruneTurn DEF PruneList
  <2>3. \A s \in work'[c].stale : Landed(s)'
    BY <1>2, <2>1, <2>2, Lasts DEF FilesAgree, FilesOK
  <2> QED BY <1>3, <1>11, <2>1, <2>2, <2>3 DEF SweepKnows, PruneList
<1>12. CASE PruneRead(c)
  <2>0. /\ \A s \in work[c].stale : Landed(s)
        /\ refusals = 0 => \A s \in work[c].stale : s \notin inbox \/ s \in work[c].todo
    BY <1>1, <1>2, <1>12 DEF PruneRead, SweepKnows
  <2>1. Orderly
    BY <1>0, <1>1, <1>12, OrderlyQuiet DEF PruneRead
  <2>2. PICK s \in work[c].todo : \/ TakeUp(c, s)
                                  \/ s \notin inbox /\ DoneWith(c, s)
    BY <1>12 DEF PruneRead
  <2>3. /\ work'[c].stale = work[c].stale
        /\ work'[c].todo = work[c].todo \/ (s \notin inbox /\ work'[c].todo = work[c].todo \ {s})
    BY <1>4, <2>2, LoopTurn DEF Turned
  <2>4. \A r \in work'[c].stale : Landed(r)'
    BY <2>0, <2>1, <2>3, Lasts
  <2>5. refusals' = 0 => \A r \in work'[c].stale : r \notin inbox' \/ r \in work'[c].todo
    BY <1>12, <2>0, <2>3 DEF PruneRead
  <2>6. pc'[c] \in {"prune", "expire"}
    BY <1>12 DEF PruneRead
  <2> QED BY <1>3, <2>1, <2>4, <2>5, <2>6 DEF SweepKnows
<1>13. CASE PruneForget(c)
  <2>0. /\ work[c].cur \in Shares /\ \A s \in work[c].stale : Landed(s)
        /\ refusals = 0 => \A s \in work[c].stale : s \notin inbox \/ s \in work[c].todo
    BY <1>1, <1>2, <1>5, <1>13 DEF PruneForget, InHand, SweepKnows
  <2>1. Orderly
    BY <1>0, <1>1, <1>13, OrderlyQuiet DEF PruneForget
  <2>2. work'[c].stale = work[c].stale /\ work'[c].todo = work[c].todo \ {work[c].cur}
    BY <1>4, <1>13, <2>0, LoopTurn DEF Turned, PruneForget
  <2>3. \A r \in work'[c].stale : Landed(r)'
    BY <2>0, <2>1, <2>2, Lasts
  <2>4. refusals' = 0 => \A r \in work'[c].stale : r \notin inbox' \/ r \in work'[c].todo
    BY <1>6, <1>13, <2>0, <2>2 DEF PruneForget
  <2> QED BY <1>3, <1>13, <2>1, <2>3, <2>4 DEF SweepKnows, PruneForget
<1>14. CASE PruneListReceipts(c)
  <2>0. /\ \A s \in work[c].stale : Landed(s)
        /\ refusals = 0 => \A s \in work[c].stale : s \notin inbox
    BY <1>1, <1>2, <1>14 DEF PruneListReceipts, SweepKnows
  <2>1. Orderly
    BY <1>0, <1>1, <1>14, OrderlyQuiet DEF PruneListReceipts
  <2>2. work'[c].todo = {s \in work[c].stale : receipt[s] # "none"} /\ work'[c].stale = work[c].stale
    <3>1. {s \in work[c].stale : receipt[s] # "none"} \in SUBSET Shares
      BY <1>4
    <3> QED BY <1>4, <1>14, <3>1, ListTurn DEF PruneListReceipts, Turned
  <2>3. \A r \in work'[c].stale : Landed(r)'
    BY <2>0, <2>1, <2>2, Lasts
  <2>4. refusals' = 0 => \A r \in work'[c].stale : r \notin inbox'
    BY <1>14, <2>0, <2>2 DEF PruneListReceipts
  <2> QED BY <1>3, <1>14, <2>1, <2>2, <2>3, <2>4 DEF SweepKnows, PruneListReceipts
<1>15. CASE PruneReceipt(c)
  <2>0. /\ \A s \in work[c].stale : Landed(s)
        /\ refusals = 0 => \A s \in work[c].stale : s \notin inbox
        /\ work[c].todo \subseteq work[c].stale
    BY <1>1, <1>2, <1>15 DEF PruneReceipt, SweepKnows
  <2>1. PICK s \in work[c].todo :
          /\ DoneWith(c, s)
          /\ \/ receipt' = [receipt EXCEPT ![s] = "none"] /\ UNCHANGED refusals
             \/ Refused /\ UNCHANGED receipt
    BY <1>15 DEF PruneReceipt
  <2>2. s \in Shares /\ (refusals = 0 => Gone(s))
    BY <1>4, <2>0 DEF Gone
  <2>3. Orderly
    BY <1>0, <1>1, <1>15, <2>1, <2>2, OrderlyQuiet, OrderlyReceipt DEF PruneReceipt
  <2>4. work'[c].stale = work[c].stale /\ work'[c].todo = work[c].todo \ {s}
    BY <1>4, <2>1, <2>2, LoopTurn DEF Turned
  <2>5. \A r \in work'[c].stale : Landed(r)'
    BY <2>0, <2>3, <2>4, Lasts
  <2>6. refusals' = 0 => \A r \in work'[c].stale : r \notin inbox'
    BY <1>15, <2>0, <2>3, <2>4 DEF PruneReceipt, Orderly
  <2> QED BY <1>3, <1>15, <2>0, <2>3, <2>4, <2>5, <2>6 DEF SweepKnows, PruneReceipt
<1>16. CASE SweepRows(c)
  <2>1. Orderly
    BY <1>0, <1>1, <1>16, OrderlyQuiet DEF SweepRows
  <2>2. pc'[c] \notin Places(c)
    BY <1>1, <1>16 DEF SweepRows, Places
  <2> QED BY <2>1, <2>2, NothingToKnow
<1> QED BY <1>7, <1>8, <1>9, <1>10, <1>11, <1>12, <1>13, <1>14, <1>15, <1>16 DEF Sweep

\* The requests on a person's account: only a deletion touches the shares, and it adds none.
LEMMA AccountAgrees ==
  ASSUME Shape, SharesAgree, NEW c \in calls, AccountStep(c)
  PROVE  Orderly /\ Alone(c) /\ Knows(c)'
<1> USE DEF At, Go, Shape, RequestsOK
<1>0. UNCHANGED <<calls, receipt, old, work>> /\ \A d \in calls \ {c} : pc'[d] = pc[d]
  BY AccountsOwnPlace DEF AccountStep, shareVars
<1>1. CASE Arrive(c) \/ Abandon(c)
  <2>1. Alone(c) /\ UNCHANGED <<inbox, refusals>>
    BY <1>0, <1>1 DEF Alone, Arrive, Abandon
  <2>2. c.op = "post" => pc[c] # "201" /\ pc'[c] # "201" /\ pc[c] \in Writing
    BY <1>1 DEF Arrive, Abandon, Abandonable, Writing
  <2>3. pc'[c] \notin Places(c)
    BY <1>1 DEF Arrive, Abandon, EndsAs, Places
  <2> QED BY <1>0, <2>1, <2>2, <2>3, OrderlyQuiet, NothingToKnow
<1>2. CASE Put(c)
  <2>1. Alone(c) /\ UNCHANGED <<inbox, refusals>> /\ c.op = "put"
    BY <1>0, <1>2 DEF Alone, Put, TryWriteEnter, TryWriteCheck, TryWriteMove, RecordOwner, RegisterEnter,
       InsertIfAbsent
  <2> QED BY <1>0, <2>1, OrderlyQuiet, NothingToKnow DEF Places
<1>3. CASE Delete(c)
  <2>1. Alone(c) /\ c.op = "delete"
    BY <1>0, <1>3 DEF Alone, Delete, DeleteEnter, DeleteVault, DeleteOwner, DeleteInbox, DeleteKey, DeleteMember
  <2>2. inbox' \subseteq inbox /\ (refusals' = refusals \/ Refused)
    BY <1>3 DEF Delete, DeleteEnter, DeleteVault, DeleteOwner, DeleteInbox, DeleteKey, DeleteMember
  <2> QED BY <1>0, <2>1, <2>2, OrderlyQuiet, NothingToKnow DEF Places
<1>4. CASE GetKey(c)
  <2>1. Alone(c) /\ c.op = "key"
    BY <1>0, <1>4 DEF Alone, See, Answered, GetKey, KeyFind, KeyEnter, KeyFindAgain, TryCreate, AfterAFailedCreate
  <2>2. UNCHANGED inbox /\ (refusals' = refusals \/ Refused)
    BY <1>4 DEF GetKey, KeyFind, KeyEnter, KeyFindAgain, TryCreate, AfterAFailedCreate
  <2> QED BY <1>0, <2>1, <2>2, OrderlyQuiet, NothingToKnow DEF Places
<1>5. CASE Edit(c)
  <2>1. Alone(c) /\ UNCHANGED <<inbox, refusals>> /\ c.op = "edit"
    BY <1>0, <1>5 DEF Alone, See, Edit, EditEnter, EditRead, EditWrite
  <2>2. pc'[c] \notin Places(c)
    BY <1>5 DEF Edit, EditEnter, EditRead, EditWrite, Places
  <2> QED BY <1>0, <2>1, <2>2, OrderlyQuiet, NothingToKnow
<1> QED BY <1>1, <1>2, <1>3, <1>4, <1>5 DEF AccountStep

\* Time and a crash: a request that was cut off relies on nothing any more.
LEMMA TimeAgrees == ASSUME Shape, SharesAgree, TimePasses PROVE SharesAgree'
<1>1. Orderly
  BY DEF TimePasses, Age, Orderly
<1>2. UNCHANGED <<calls, pc, work, seen>>
  BY DEF TimePasses, Age
<1> QED BY <1>1, <1>2, FilesKept, StillKnows DEF SharesAgree

LEMMA CrashAgrees == ASSUME Shape, SharesAgree, NEW q \in Procs, Crash(q) PROVE SharesAgree'
<1> USE DEF Shape, RequestsOK
<1>0. UNCHANGED <<calls, receipt, old, inbox, refusals>>
  BY DEF Crash, shareVars
<1>1. ASSUME NEW c \in calls
      PROVE  \/ pc'[c] = pc[c] /\ work'[c] = work[c] /\ seen'[c] = seen[c]
             \/ pc'[c] = pc[c] /\ pc[c] \in Answers \cup {"new"}
             \/ c.op = "sweep" /\ pc'[c] = "new"
             \/ c.op # "sweep" /\ pc[c] \notin Answers /\ pc'[c] \in {"half", "gone"}
  BY DEF Crash, EndsAs, LoopsOK
<1>2. Orderly
  <2>1. ASSUME NEW d \in calls, d.op = "post"
        PROVE  /\ pc[d] = "201" => pc'[d] = "201"
               /\ pc[d] \notin Writing => pc'[d] \notin Writing
               /\ pc[d] # "201" => pc'[d] # "201"
    BY <1>1, <2>1 DEF Answers, Writing
  <2> QED BY <1>0, <2>1 DEF Orderly
<1>3. ASSUME NEW c \in calls PROVE Knows(c)'
  <2>1. CASE pc'[c] = pc[c] /\ work'[c] = work[c] /\ seen'[c] = seen[c]
    BY <1>2, <2>1, StillKnows DEF SharesAgree
  <2>2. CASE pc'[c] \in Answers \cup {"new"}
    BY <2>2, NothingToKnow DEF Answers, Places
  <2> QED BY <1>1, <2>1, <2>2 DEF Answers
<1> QED BY <1>0, <1>2, <1>3, FilesKept DEF SharesAgree

LEMMA SharesStep == ASSUME Shape, SharesAgree, [Next]_vars PROVE SharesAgree'
<1>1. ASSUME NEW c \in calls, Orderly, Alone(c), Knows(c)' PROVE SharesAgree'
  <2>1. ASSUME NEW d \in calls PROVE Knows(d)'
    BY <1>1, StillKnows DEF Alone, SharesAgree
  <2> QED BY <1>1, <2>1, FilesKept DEF SharesAgree, Orderly
<1>2. ASSUME NEW c \in calls, AccountStep(c) PROVE SharesAgree'
  BY <1>1, <1>2, AccountAgrees
<1>3. ASSUME NEW c \in calls, ShareStep(c) PROVE SharesAgree'
  <2>1. Alone(c)
    BY <1>3, SharesAlone
  <2> QED BY <1>1, <1>3, <2>1, PostAgrees, WithdrawAgrees, BlockAgrees, SweepAgrees DEF ShareStep
<1>4. CASE UNCHANGED vars
  <2>1. Orderly
    BY <1>4 DEF vars, shareVars, Orderly
  <2> QED BY <1>4, <2>1, FilesKept, StillKnows DEF SharesAgree, vars
<1>5. CASE Next
  <2>1. (\E c \in calls : AccountStep(c) \/ ShareStep(c)) => SharesAgree'
    BY <1>2, <1>3
  <2> QED BY <1>5, <2>1, TimeAgrees, CrashAgrees DEF Next
<1> QED BY <1>4, <1>5

LEMMA SharesInit == Init => SharesAgree
<1> SUFFICES ASSUME NEW scene \in Scenes, Init!(scene) PROVE SharesAgree
  BY DEF Init
<1>1. \A c, d \in calls : c.op = "post" /\ d.op = "post" /\ c.share = d.share => c = d
  BY ShareAssumption DEF PostedOnce
<1>2. ASSUME NEW s \in inbox PROVE Posts(s) = {}
  BY ShareAssumption DEF PostedOnce, Posts
<1>3. FilesAgree
  BY <1>1, <1>2 DEF FilesAgree, Posted, Landed
<1>4. ASSUME NEW c \in calls PROVE Knows(c)
  BY DEF Knows, WithdrawKnows, BlockKnows, SweepKnows
<1> QED BY <1>3, <1>4 DEF SharesAgree

\* A share answered 201 that still waits in its inbox keeps the receipt by which its sender takes it
\* back, whatever withdrawals, answers, blocks, deletions, sweeps and crashes interleave, as long as
\* the disk refused no deletion: in every step that takes a receipt away, the share has gone first
\* (VaultStore.AppendShareAsync, WithdrawAllInvolvingAsync, ReconcileSentAsync, PruneOlderThanAsync).
THEOREM WaitingHasItsReceipt == Spec => []PendingCanBeWithdrawn
<1>1. Shape /\ SharesAgree => PendingCanBeWithdrawn
  BY DEF Shape, FilesOK, SharesAgree, FilesAgree, Posted, Posts, PendingCanBeWithdrawn
<1> QED BY <1>1, ShapeInit, ShapeStep, SharesInit, SharesStep, PTL DEF Spec
=============================================================================
