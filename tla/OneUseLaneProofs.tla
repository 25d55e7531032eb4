-------------------------- MODULE OneUseLaneProofs -------------------------
(***************************************************************************)
(* SecretCleanup and OneUseLane for any ids, keychain keys, callers and    *)
(* bounds: the types, that an agent uses a one-use entry once, and that no *)
(* listed account shows an entry whose secrets are not all there.          *)
(***************************************************************************)
EXTENDS OneUseLane, SequenceTheorems, WellFoundedInduction, TLAPS

-----------------------------------------------------------------------------
(* The loops over keys.                                                    *)

\* A loop over keys takes one of them: the keys of one entry are in the order of their slots.
LEMMA NextKeyIsOne ==
  ASSUME NEW keys \in SUBSET KeysOf(Ids), keys # {}
  PROVE  NextKey(keys) \in keys
<1> DEFINE slots == {k[2] : k \in keys}
<1>1. slots \subseteq Nat /\ slots # {}
  BY SlotsAssumption DEF KeysOf
<1>2. PICK n \in slots : \A m \in slots : ~(<<m, n>> \in OpToRel(<, Nat))
  <2> HIDE DEF slots
  <2> QED BY <1>1, NatLessThanWellFounded, WFMin, Zenon
<1>3. \A m \in slots : n <= m
  <2> HIDE DEF slots
  <2>1. TAKE m \in slots
  <2>2. m \in Nat /\ n \in Nat
    BY <1>1
  <2>3. ~(m < n)
    BY <1>2, <2>2 DEF OpToRel
  <2> QED BY <2>2, <2>3
<1>4. PICK k \in keys : k[2] = n
  BY <1>2
<1>5. \A other \in keys : k[2] <= other[2]
  BY <1>3, <1>4
<1> QED BY <1>5 DEF NextKey

-----------------------------------------------------------------------------
(* The job on the queue, field by field.                                   *)

Ops == {"none", "create", "apply", "remove", "list", "resume"}
Places == {"idle", "store", "node", "finish", "mark", "nodes", "drop", "clear", "tombs", "unlist", "forget",
           "wiped", "unmark", "list", "ids"}
Jobs == [op : Ops, pc : Places, ids : SUBSET Ids, keys : SUBSET KeysOf(Ids), bundle : Bundles]
DeletionRecords == [pc : {"idle", "nodes", "keys"}, id : Ids, nodes : SUBSET Ids, keys : SUBSET KeysOf(Ids)]

NoBundle == [nodes |-> {}, tombs |-> {}]

LEMMA NoJobIs ==
  /\ NoJob \in Jobs
  /\ NoJob.op = "none" /\ NoJob.pc = "idle" /\ NoJob.ids = {} /\ NoJob.keys = {} /\ NoJob.bundle = NoBundle
<1>1. NoBundle \in Bundles
  BY DEF NoBundle, Bundles
<1>2. NoJob \in Jobs
  BY <1>1 DEF NoJob, Jobs, Ops, Places, NoBundle
<1> QED BY <1>2 DEF NoJob, NoBundle

LEMMA NoDeletionIs ==
  NoDeletion \in DeletionRecords /\ NoDeletion.pc = "idle" /\ NoDeletion.id \in Ids
<1>1. (CHOOSE id \in Ids : TRUE) \in Ids
  BY UsedAssumption
<1> QED BY <1>1 DEF NoDeletion, DeletionRecords

LEMMA Goes ==
  ASSUME job \in Jobs, NEW pc \in Places, Go(pc)
  PROVE  /\ job' \in Jobs /\ job'.pc = pc
         /\ job'.op = job.op /\ job'.ids = job.ids /\ job'.keys = job.keys /\ job'.bundle = job.bundle
BY DEF Jobs, Go

LEMMA Loops ==
  ASSUME job \in Jobs, NEW pc \in Places, NEW after \in Places, NEW keys \in SUBSET KeysOf(Ids), Loop(pc, keys, after)
  PROVE  /\ job' \in Jobs /\ job'.pc = IF keys = {} THEN after ELSE pc
         /\ job'.op = job.op /\ job'.ids = job.ids /\ job'.keys = keys /\ job'.bundle = job.bundle
<1> DEFINE place == IF keys = {} THEN after ELSE pc
<1> DEFINE there == [job EXCEPT !.pc = place]
<1>0. place \in Places
  OBVIOUS
<1>1. /\ there \in Jobs /\ there.pc = place
      /\ there.op = job.op /\ there.ids = job.ids /\ there.keys = job.keys /\ there.bundle = job.bundle
  <2> HIDE DEF place
  <2> QED BY <1>0 DEF Jobs
<1>2. job' = [there EXCEPT !.keys = keys]
  BY DEF Loop
<1> HIDE DEF there, place
<1>3. /\ job' \in Jobs /\ job'.keys = keys
      /\ job'.op = there.op /\ job'.ids = there.ids /\ job'.pc = there.pc /\ job'.bundle = there.bundle
  BY <1>1, <1>2 DEF Jobs
<1> QED BY <1>1, <1>3 DEF place

LEMMA Starts ==
  ASSUME NEW op \in Ops, NEW pc \in Places, NEW ids \in SUBSET Ids, NEW keys \in SUBSET KeysOf(Ids),
         \/ job' = [NoJob EXCEPT !.op = op, !.pc = pc, !.keys = keys] /\ ids = {}
         \/ job' = [NoJob EXCEPT !.op = op, !.pc = pc] /\ ids = {} /\ keys = {}
  PROVE  /\ job' \in Jobs
         /\ job'.op = op /\ job'.pc = pc /\ job'.ids = ids /\ job'.keys = keys /\ job'.bundle = NoBundle
<1>1. NoBundle \in Bundles
  BY DEF NoBundle, Bundles
<1>2. job' = [op |-> op, pc |-> pc, ids |-> ids, keys |-> keys, bundle |-> NoBundle]
  BY DEF NoJob, NoBundle
<1> QED BY <1>1, <1>2 DEF Jobs

-----------------------------------------------------------------------------
(* Shapes: every job at one of its own places.                             *)

StoreOK ==
  /\ listed \in BOOLEAN
  /\ tree \subseteq Ids /\ tombs \subseteq Ids /\ minted \subseteq Ids /\ crossed \subseteq Ids
  /\ chest \subseteq KeysOf(Ids) /\ sweep \subseteq KeysOf(Ids)
  /\ pending \in [account : BOOLEAN, ids : SUBSET Ids]

JobOK ==
  /\ job \in Jobs
  /\ job.op = "none" => job = NoJob
  /\ job.op = "create" => job.pc \in {"store", "node", "finish", "drop"} /\ job.ids # {}
  /\ job.op = "apply" => job.pc \in {"store", "mark", "nodes", "drop", "clear", "tombs"}
  /\ job.op = "remove" => job.pc \in {"unlist", "drop", "forget", "wiped", "unmark"}
  /\ job.op = "list" => job.pc \in {"drop", "forget", "wiped", "unmark", "list"}
  /\ job.op = "resume" => job.pc \in {"drop", "forget", "wiped", "ids"}
  /\ job.pc \in {"store", "drop"} => job.keys # {}

Idle(d) == deletion[d].pc = "idle"

DeletionsOK ==
  /\ deletion \in [Deleters -> DeletionRecords]
  /\ \A d \in Deleters : Idle(d) \/ (deletion[d].keys # {} /\ deletion[d].keys \subseteq KeysOf({deletion[d].id}))

Shape == StoreOK /\ JobOK /\ DeletionsOK

LEMMA KeysOfTypes ==
  /\ \A ids : ids \subseteq Ids => KeysOf(ids) \subseteq KeysOf(Ids)
  /\ \A ids : KeysOf(ids) = {} <=> ids = {}
<1>1. ASSUME NEW ids, ids # {} PROVE KeysOf(ids) # {}
  <2>1. PICK i \in ids, n \in Slots : TRUE
    BY <1>1, SlotsAssumption
  <2>2. <<i, n>> \in KeysOf(ids)
    BY <2>1 DEF KeysOf
  <2> QED BY <2>2
<1>2. KeysOf({}) = {}
  BY DEF KeysOf
<1>3. \A ids : ids \subseteq Ids => KeysOf(ids) \subseteq KeysOf(Ids)
  BY DEF KeysOf
<1> QED BY <1>1, <1>2, <1>3

LEMMA KeysOfParts ==
  /\ \A a, b : a \subseteq b => KeysOf(a) \subseteq KeysOf(b)
  /\ \A a, b : a \cap b = {} => KeysOf(a) \cap KeysOf(b) = {}
  /\ \A a, b : KeysOf(a \cup b) = KeysOf(a) \cup KeysOf(b)
  /\ \A a, b : KeysOf(a \ b) = KeysOf(a) \ KeysOf(b)
  /\ KeysOf({}) = {}
BY DEF KeysOf

\* The record of what is to be cleaned up, when one of its fields is written.
LEMMA PendingIs ==
  ASSUME NEW ids
  PROVE  /\ pending \in [account : BOOLEAN, ids : SUBSET Ids] /\ ids \subseteq Ids
              => /\ [pending EXCEPT !.ids = ids] \in [account : BOOLEAN, ids : SUBSET Ids]
                 /\ [pending EXCEPT !.ids = ids].ids = ids
                 /\ [pending EXCEPT !.ids = ids].account = pending.account
OBVIOUS

LEMMA AccountIs ==
  ASSUME NEW marked \in BOOLEAN, pending \in [account : BOOLEAN, ids : SUBSET Ids]
  PROVE  /\ [pending EXCEPT !.account = marked] \in [account : BOOLEAN, ids : SUBSET Ids]
         /\ [pending EXCEPT !.account = marked].ids = pending.ids
         /\ [pending EXCEPT !.account = marked].account = marked
OBVIOUS

LEMMA ShapeInit == CleanupInit => Shape
<1> SUFFICES ASSUME CleanupInit PROVE Shape
  OBVIOUS
<1>1. StoreOK
  BY KeysOfTypes DEF CleanupInit, StoreOK
<1>2. JobOK
  BY NoJobIs DEF CleanupInit, JobOK
<1>3. DeletionsOK
  BY NoDeletionIs DEF CleanupInit, DeletionsOK, Idle
<1> QED BY <1>1, <1>2, <1>3 DEF Shape

LEMMA StoreStill == ASSUME StoreOK, UNCHANGED <<store, sweep>> PROVE StoreOK'
BY DEF StoreOK, store

LEMMA DeletionsStill == ASSUME DeletionsOK, UNCHANGED deletion PROVE DeletionsOK'
BY DEF DeletionsOK, Idle

LEMMA JobStill == ASSUME JobOK, UNCHANGED job PROVE JobOK'
BY DEF JobOK

LEMMA NoJobOK == ASSUME job' = NoJob PROVE JobOK'
BY NoJobIs DEF JobOK

\* Which job each request begins.
LEMMA CreateBegins ==
  ASSUME NEW id \in Ids, CreateDefers(id)
  PROVE  /\ job' \in Jobs /\ job'.op = "create" /\ job'.pc = "store"
         /\ job'.ids = {id} /\ job'.keys = KeysOf({id}) /\ job'.keys # {}
<1>0. KeysOf({id}) \in SUBSET KeysOf(Ids) /\ KeysOf({id}) # {}
  BY KeysOfTypes
<1>1. job' = [NoJob EXCEPT !.op = "create", !.pc = "store", !.ids = {id}, !.keys = KeysOf({id})]
  BY DEF CreateDefers
<1>2. "create" \in Ops /\ "store" \in Places /\ {id} \in SUBSET Ids /\ NoBundle \in Bundles
  BY DEF Ops, Places, NoBundle, Bundles
<1>3. job' = [op |-> "create", pc |-> "store", ids |-> {id}, keys |-> KeysOf({id}), bundle |-> NoBundle]
  BY <1>1 DEF NoJob, NoBundle
<1> QED BY <1>0, <1>2, <1>3 DEF Jobs

LEMMA ApplyBegins ==
  ASSUME StoreOK, NEW b \in Bundles, ApplyStarts(b)
  PROVE  /\ job' \in Jobs /\ job'.op = "apply" /\ job'.pc = (IF b.nodes = {} THEN "mark" ELSE "store")
         /\ job'.ids = tree /\ job'.keys = KeysOf(b.nodes) /\ job'.bundle = b
         /\ b.nodes # {} => job'.keys # {}
<1>1. b.nodes \subseteq Ids /\ b.tombs \subseteq Ids /\ tree \subseteq Ids
  BY DEF Bundles, StoreOK
<1>2. KeysOf(b.nodes) \in SUBSET KeysOf(Ids) /\ (b.nodes # {} => KeysOf(b.nodes) # {})
  BY <1>1, KeysOfTypes
<1> QED BY <1>1, <1>2 DEF ApplyStarts, Jobs, Ops, Places

LEMMA RemoveBegins == ASSUME RemoveMarks PROVE job' \in Jobs /\ job'.op = "remove" /\ job'.pc = "unlist"
<1>1. job' = [NoJob EXCEPT !.op = "remove", !.pc = "unlist"]
  BY DEF RemoveMarks
<1>2. "remove" \in Ops /\ "unlist" \in Places /\ {} \in SUBSET Ids /\ {} \in SUBSET KeysOf(Ids)
  BY DEF Ops, Places
<1> QED BY <1>1, <1>2, Starts, Zenon

LEMMA ListBegins ==
  ASSUME StoreOK, ListStarts
  PROVE  /\ job' \in Jobs /\ job'.op = "list" /\ job'.pc \in {"drop", "forget", "unmark", "list"}
         /\ job'.pc \in {"drop", "forget"} => pending.account /\ ~listed
         /\ job'.pc = "unmark" => listed
         /\ job'.pc = "list" => ~pending.account
         /\ job'.pc = "drop" => job'.keys # {}
<1>1. tree \subseteq Ids
  BY DEF StoreOK
<1>2. KeysOf(tree) \in SUBSET KeysOf(Ids) /\ (tree # {} => KeysOf(tree) # {})
  BY <1>1, KeysOfTypes
<1>3. "list" \in Ops /\ {} \in SUBSET Ids /\ {} \in SUBSET KeysOf(Ids) /\ {"drop", "forget", "unmark", "list"} \subseteq Places
  BY DEF Ops, Places
<1>4. CASE ~pending.account
  <2>1. job' = [NoJob EXCEPT !.op = "list", !.pc = "list"]
    BY <1>4 DEF ListStarts
  <2>2. job' \in Jobs /\ job'.op = "list" /\ job'.pc = "list"
    BY <1>3, <2>1, Starts, Zenon
  <2> QED BY <1>4, <2>2
<1>5. CASE pending.account /\ listed
  <2>1. job' = [NoJob EXCEPT !.op = "list", !.pc = "unmark"]
    BY <1>5 DEF ListStarts, FinishBeforeReuse
  <2>2. job' \in Jobs /\ job'.op = "list" /\ job'.pc = "unmark"
    BY <1>3, <2>1, Starts, Zenon
  <2> QED BY <1>5, <2>2
<1>6. CASE pending.account /\ ~listed
  <2> DEFINE place == IF tree = {} THEN "forget" ELSE "drop"
  <2>1. job' = [NoJob EXCEPT !.op = "list", !.pc = place, !.keys = KeysOf(tree)] /\ place \in Places
    BY <1>3, <1>6 DEF ListStarts, FinishBeforeReuse
  <2> HIDE DEF place
  <2>2. job' \in Jobs /\ job'.op = "list" /\ job'.pc = place /\ job'.keys = KeysOf(tree)
    BY <1>2, <1>3, <2>1, Starts
  <2> QED BY <1>2, <1>6, <2>2 DEF place
<1> QED BY <1>4, <1>5, <1>6

LEMMA ResumeBegins ==
  ASSUME StoreOK, ResumeStarts
  PROVE  /\ job' \in Jobs /\ job'.op = "resume" /\ job'.pc \in {"drop", "forget", "ids"}
         /\ job'.pc \in {"drop", "forget"} <=> ToResume
         /\ job'.pc = "drop" => job'.keys # {}
<1> DEFINE place == IF ~ToResume THEN "ids" ELSE IF tree = {} THEN "forget" ELSE "drop"
           keys == IF ToResume THEN KeysOf(tree) ELSE {}
<1>1. tree \subseteq Ids /\ pending.ids \in SUBSET Ids
  BY DEF StoreOK
<1>2. keys \in SUBSET KeysOf(Ids) /\ (ToResume /\ tree # {} => keys # {})
  BY <1>1, KeysOfTypes
<1>3. "resume" \in Ops /\ place \in Places /\ NoBundle \in Bundles
  BY DEF Ops, Places, NoBundle, Bundles
<1>4. job' = [NoJob EXCEPT !.op = "resume", !.pc = place, !.ids = pending.ids, !.keys = keys]
  BY DEF ResumeStarts
<1>5. job' \in Jobs /\ job'.op = "resume" /\ job'.pc = place /\ job'.keys = keys
  <2> HIDE DEF place, keys
  <2>1. job' = [op |-> "resume", pc |-> place, ids |-> pending.ids, keys |-> keys, bundle |-> NoBundle]
    BY <1>4 DEF NoJob, NoBundle
  <2> QED BY <1>1, <1>2, <1>3, <2>1 DEF Jobs
<1> HIDE DEF keys
<1> QED BY <1>2, <1>5

LEMMA ShapeAsked == ASSUME Shape, Asked \/ ResumeStarts PROVE Shape'
<1>0. StoreOK /\ JobOK /\ DeletionsOK
  BY DEF Shape
<1>1. ASSUME NEW id \in Ids, CreateDefers(id) PROVE Shape'
  <2>1. StoreOK'
    <3>1. pending' = [pending EXCEPT !.ids = pending.ids \cup {id}] /\ pending.ids \cup {id} \subseteq Ids
      BY <1>0, <1>1 DEF CreateDefers, StoreOK
    <3>2. pending' \in [account : BOOLEAN, ids : SUBSET Ids]
      BY <1>0, <3>1, PendingIs DEF StoreOK
    <3> QED BY <1>0, <1>1, <3>2 DEF CreateDefers, StoreOK
  <2>2. JobOK'
    BY <1>1, CreateBegins DEF JobOK
  <2> QED BY <1>0, <1>1, <2>1, <2>2, DeletionsStill DEF Shape, CreateDefers
<1>2. ASSUME NEW b \in Bundles, ApplyStarts(b) PROVE Shape'
  <2>1. b.nodes \subseteq Ids /\ b.tombs \subseteq Ids
    BY DEF Bundles
  <2>2. StoreOK'
    BY <1>0, <1>2, <2>1 DEF StoreOK, ApplyStarts
  <2>3. JobOK'
    BY <1>0, <1>2, ApplyBegins DEF JobOK
  <2> QED BY <1>0, <1>2, <2>2, <2>3, DeletionsStill DEF Shape, ApplyStarts
<1>3. CASE RemoveMarks
  <2>1. StoreOK'
    BY <1>0, <1>3, AccountIs DEF RemoveMarks, StoreOK
  <2>2. JobOK'
    BY <1>3, RemoveBegins DEF JobOK
  <2> QED BY <1>0, <1>3, <2>1, <2>2, DeletionsStill DEF Shape, RemoveMarks
<1>4. CASE ListStarts
  <2>1. JobOK'
    BY <1>0, <1>4, ListBegins DEF JobOK
  <2>2. StoreOK'
    BY <1>0, <1>4, StoreStill DEF ListStarts
  <2> QED BY <1>0, <1>4, <2>1, <2>2, DeletionsStill DEF Shape, ListStarts
<1>5. CASE ResumeStarts
  <2>1. JobOK'
    BY <1>0, <1>5, ResumeBegins DEF JobOK
  <2>2. StoreOK'
    BY <1>0, <1>5, StoreStill DEF ResumeStarts
  <2> QED BY <1>0, <1>5, <2>1, <2>2, DeletionsStill DEF Shape, ResumeStarts
<1> QED BY <1>1, <1>2, <1>3, <1>4, <1>5 DEF Asked

\* Which jobs are where.
LEMMA Whereabouts ==
  ASSUME JobOK
  PROVE  /\ job.pc = "store" => job.op \in {"create", "apply"}
         /\ job.pc = "drop" => job.op \in {"create", "apply", "remove", "list", "resume"}
         /\ job.pc \in {"forget", "wiped"} => job.op \in {"remove", "list", "resume"}
         /\ job.pc = "unmark" => job.op \in {"remove", "list"}
         /\ job.op = "none" => job.pc = "idle"
         /\ job.keys \in SUBSET KeysOf(Ids) /\ job.ids \subseteq Ids /\ job.bundle \in Bundles
BY NoJobIs DEF JobOK, Jobs, Ops

LEMMA StoresOneKey ==
  ASSUME JobOK, StoreKey
  PROVE  \E k \in job.keys :
           /\ chest' = chest \cup {k}
           /\ job' \in Jobs /\ job'.op = job.op /\ job'.ids = job.ids /\ job'.bundle = job.bundle
           /\ job'.keys = job.keys \ {k}
           /\ job'.pc = IF job'.keys # {} THEN "store" ELSE IF job.op = "create" THEN "node" ELSE "mark"
<1> DEFINE k == NextKey(job.keys)
           after == IF job.op = "create" THEN "node" ELSE "mark"
<1>1. job.keys \in SUBSET KeysOf(Ids) /\ job.keys # {} /\ job \in Jobs
  BY Whereabouts DEF StoreKey, JobOK
<1>2. k \in job.keys
  BY <1>1, NextKeyIsOne
<1>3. chest' = chest \cup {k} /\ Loop("store", job.keys \ {k}, after)
  BY DEF StoreKey
<1>4. "store" \in Places /\ after \in Places /\ job.keys \ {k} \in SUBSET KeysOf(Ids)
  BY <1>1 DEF Places
<1> HIDE DEF k, after
<1>5. /\ job' \in Jobs /\ job'.op = job.op /\ job'.ids = job.ids /\ job'.bundle = job.bundle
      /\ job'.keys = job.keys \ {k} /\ job'.pc = IF job.keys \ {k} = {} THEN after ELSE "store"
  BY <1>1, <1>3, <1>4, Loops
<1> QED BY <1>2, <1>3, <1>5 DEF after

LEMMA DropsOneKey ==
  ASSUME JobOK, DropKey
  PROVE  \E k \in job.keys :
           /\ chest' = chest \ {k}
           /\ \/ job' = NoJob /\ job.op = "create"
              \/ /\ job' \in Jobs /\ job'.op = job.op /\ job'.ids = job.ids /\ job'.bundle = job.bundle
                 /\ job'.keys = job.keys \ {k}
                 /\ job'.keys # {} \/ job.op # "create"
                 /\ job'.pc = IF job'.keys # {} THEN "drop" ELSE IF job.op = "apply" THEN "clear" ELSE "forget"
<1> DEFINE k == NextKey(job.keys)
           after == IF job.op = "apply" THEN "clear" ELSE "forget"
<1>1. job.keys \in SUBSET KeysOf(Ids) /\ job.keys # {} /\ job \in Jobs
  BY Whereabouts DEF DropKey, JobOK
<1>2. k \in job.keys
  BY <1>1, NextKeyIsOne
<1>3. /\ chest' = chest \ {k}
      /\ IF job.op = "create" /\ job.keys = {k} THEN job' = NoJob ELSE Loop("drop", job.keys \ {k}, after)
  BY DEF DropKey
<1>4. "drop" \in Places /\ after \in Places /\ job.keys \ {k} \in SUBSET KeysOf(Ids)
  BY <1>1 DEF Places
<1> HIDE DEF k, after
<1>5. CASE job.op = "create" /\ job.keys = {k}
  BY <1>2, <1>3, <1>5
<1>6. CASE ~(job.op = "create" /\ job.keys = {k})
  <2>1. /\ job' \in Jobs /\ job'.op = job.op /\ job'.ids = job.ids /\ job'.bundle = job.bundle
        /\ job'.keys = job.keys \ {k} /\ job'.pc = IF job.keys \ {k} = {} THEN after ELSE "drop"
    BY <1>1, <1>3, <1>4, <1>6, Loops
  <2>2. job.keys \ {k} # {} \/ job.op # "create"
    BY <1>2, <1>6
  <2> QED BY <1>2, <1>3, <2>1, <2>2 DEF after
<1> QED BY <1>5, <1>6

LEMMA ShapeJob == ASSUME Shape, JobStep PROVE Shape'
<1>0. StoreOK /\ JobOK /\ DeletionsOK /\ job \in Jobs /\ job.ids \subseteq Ids /\ job.keys \subseteq KeysOf(Ids)
  BY Whereabouts DEF Shape, JobOK
<1>1. UNCHANGED deletion
  BY DEF JobStep, StoreKey, CreateNode, CreateFinishes, ApplyMarks, ApplyNodes, DropKey, ApplyClears, ApplyTombs,
         RemoveUnlists, WipeTree, WipeTombs, Unmarks, Lists, ResumeDrops, ResumeEnds
<1>2. DeletionsOK'
  BY <1>0, <1>1, DeletionsStill
<1>3. job.bundle.nodes \subseteq Ids /\ job.bundle.tombs \subseteq Ids
  BY <1>0 DEF Jobs, Bundles
<1> SUFFICES StoreOK' /\ JobOK'
  BY <1>2 DEF Shape
<1>4. CASE StoreKey
  <2>1. StoreOK'
    BY <1>0, <1>4, StoresOneKey DEF StoreKey, StoreOK
  <2>2. JobOK'
    BY <1>0, <1>4, StoresOneKey, Whereabouts DEF StoreKey, JobOK
  <2> QED BY <2>1, <2>2
<1>5. CASE DropKey
  <2>1. StoreOK'
    BY <1>0, <1>5, DropsOneKey DEF DropKey, StoreOK
  <2>2. JobOK'
    <3>1. CASE job' = NoJob
      BY <3>1, NoJobOK
    <3>2. CASE job' # NoJob
      BY <1>0, <1>5, <3>2, DropsOneKey, Whereabouts DEF DropKey, JobOK
    <3> QED BY <3>1, <3>2
  <2> QED BY <2>1, <2>2
<1>6. CASE CreateNode
  <2>1. Go("finish") /\ "finish" \in Places /\ job.op = "create"
    BY <1>6 DEF CreateNode, Places, At
  <2>2. StoreOK'
    BY <1>0, <1>6 DEF CreateNode, StoreOK
  <2>3. JobOK'
    BY <1>0, <2>1, Goes DEF JobOK
  <2> QED BY <2>2, <2>3
<1>7. CASE CreateFinishes
  <2>1. pending' = [pending EXCEPT !.ids = pending.ids \ job.ids] /\ pending.ids \ job.ids \subseteq Ids
    BY <1>0, <1>7 DEF CreateFinishes, StoreOK
  <2>2. pending' \in [account : BOOLEAN, ids : SUBSET Ids]
    BY <1>0, <2>1, PendingIs DEF StoreOK
  <2>3. StoreOK'
    BY <1>0, <1>7, <2>2 DEF CreateFinishes, StoreOK
  <2> QED BY <1>7, <2>3, NoJobOK DEF CreateFinishes
<1>8. CASE ApplyMarks
  <2>1. pending' = [pending EXCEPT !.ids = job.ids \ job.bundle.nodes] /\ job.ids \ job.bundle.nodes \subseteq Ids
    BY <1>0, <1>8 DEF ApplyMarks
  <2>2. pending' \in [account : BOOLEAN, ids : SUBSET Ids]
    BY <1>0, <2>1, PendingIs DEF StoreOK
  <2>3. StoreOK'
    BY <1>0, <1>8, <2>2 DEF ApplyMarks, StoreOK
  <2>4. Go("nodes") /\ "nodes" \in Places /\ job.op = "apply"
    BY <1>8 DEF ApplyMarks, Places, At
  <2>5. JobOK'
    BY <1>0, <2>4, Goes DEF JobOK
  <2> QED BY <2>3, <2>5
<1>9. CASE ApplyNodes
  <2>1. StoreOK'
    BY <1>0, <1>3, <1>9 DEF ApplyNodes, StoreOK
  <2>2. KeysOf(job.ids \ job.bundle.nodes) \in SUBSET KeysOf(Ids)
    BY <1>0, KeysOfTypes
  <2>3. Loop("drop", KeysOf(job.ids \ job.bundle.nodes), "clear") /\ "drop" \in Places /\ "clear" \in Places /\ job.op = "apply"
    BY <1>9 DEF ApplyNodes, Places, At
  <2>4. JobOK'
    BY <1>0, <2>2, <2>3, Loops DEF JobOK
  <2> QED BY <2>1, <2>4
<1>10. CASE ApplyClears
  <2>1. pending' = [pending EXCEPT !.ids = {}]
    BY <1>10 DEF ApplyClears
  <2>2. pending' \in [account : BOOLEAN, ids : SUBSET Ids]
    BY <1>0, <2>1, PendingIs DEF StoreOK
  <2>3. StoreOK'
    BY <1>0, <1>10, <2>2 DEF ApplyClears, StoreOK
  <2>4. Go("tombs") /\ "tombs" \in Places /\ job.op = "apply"
    BY <1>10 DEF ApplyClears, Places, At
  <2>5. JobOK'
    BY <1>0, <2>4, Goes DEF JobOK
  <2> QED BY <2>3, <2>5
<1>11. CASE ApplyTombs
  <2>1. StoreOK'
    BY <1>0, <1>3, <1>11 DEF ApplyTombs, StoreOK
  <2> QED BY <1>11, <2>1, NoJobOK DEF ApplyTombs
<1>12. CASE RemoveUnlists
  <2>1. StoreOK'
    BY <1>0, <1>12 DEF RemoveUnlists, StoreOK
  <2>2. KeysOf(tree) \in SUBSET KeysOf(Ids)
    BY <1>0, KeysOfTypes DEF StoreOK
  <2>3. Loop("drop", KeysOf(tree), "forget") /\ "drop" \in Places /\ "forget" \in Places /\ job.op = "remove"
    BY <1>12 DEF RemoveUnlists, Places, At
  <2>4. JobOK'
    BY <1>0, <2>2, <2>3, Loops DEF JobOK
  <2> QED BY <2>1, <2>4
<1>13. CASE WipeTree
  <2>1. StoreOK'
    BY <1>0, <1>13 DEF WipeTree, StoreOK
  <2>2. Go("wiped") /\ "wiped" \in Places /\ job.op \in {"remove", "list", "resume"}
    BY <1>0, <1>13, Whereabouts DEF WipeTree, Places
  <2>3. JobOK'
    BY <1>0, <2>2, Goes DEF JobOK
  <2> QED BY <2>1, <2>3
<1>14. CASE WipeTombs
  <2> DEFINE place == IF job.op = "resume" THEN "ids" ELSE "unmark"
  <2>1. StoreOK'
    BY <1>0, <1>14 DEF WipeTombs, StoreOK
  <2>2. Go(place) /\ place \in Places /\ job.op \in {"remove", "list", "resume"}
    BY <1>0, <1>14, Whereabouts DEF WipeTombs, Places
  <2>3. /\ job' \in Jobs /\ job'.pc = place /\ job'.op = job.op
    <3> HIDE DEF place
    <3> QED BY <1>0, <2>2, Goes
  <2>4. JobOK'
    BY <1>0, <2>2, <2>3 DEF JobOK
  <2> QED BY <2>1, <2>4
<1>15. CASE Unmarks
  <2>1. StoreOK'
    BY <1>0, <1>15, AccountIs DEF Unmarks, StoreOK
  <2>2. CASE job.op = "list"
    <3>1. Go("list") /\ "list" \in Places
      BY <1>15, <2>2 DEF Unmarks, Places
    <3>2. JobOK'
      BY <1>0, <2>2, <3>1, Goes DEF JobOK
    <3> QED BY <2>1, <3>2
  <2>3. CASE job.op # "list"
    BY <1>15, <2>1, <2>3, NoJobOK DEF Unmarks
  <2> QED BY <2>2, <2>3
<1>16. CASE Lists
  <2>1. StoreOK'
    BY <1>0, <1>16 DEF Lists, StoreOK
  <2> QED BY <1>16, <2>1, NoJobOK DEF Lists
<1>17. CASE ResumeDrops
  <2>1. StoreOK'
    BY <1>0, <1>17 DEF ResumeDrops, StoreOK
  <2> QED BY <1>0, <1>17, <2>1, JobStill DEF ResumeDrops
<1>18. CASE ResumeEnds
  <2>1. StoreOK'
    BY <1>0, <1>18 DEF ResumeEnds, StoreOK
  <2> QED BY <1>18, <2>1, NoJobOK DEF ResumeEnds
<1> QED BY <1>4, <1>5, <1>6, <1>7, <1>8, <1>9, <1>10, <1>11, <1>12, <1>13, <1>14, <1>15, <1>16, <1>17, <1>18 DEF JobStep

\* The deletion under way, after each of its steps: only one deleter's changes.
LEMMA DeletionBegins ==
  ASSUME Shape, NEW d \in Deleters, NEW id \in Ids, DeleteTombstone(d, id)
  PROVE  /\ deletion' \in [Deleters -> DeletionRecords]
         /\ \A e \in Deleters : e # d => deletion'[e] = deletion[e]
         /\ deletion'[d].pc = "nodes" /\ deletion'[d].id = id /\ deletion'[d].nodes = tree
         /\ deletion'[d].keys = KeysOf({id}) /\ KeysOf({id}) # {}
<1> DEFINE begun == [pc |-> "nodes", id |-> id, nodes |-> tree, keys |-> KeysOf({id})]
<1>1. KeysOf({id}) \subseteq KeysOf(Ids) /\ KeysOf({id}) # {} /\ tree \subseteq Ids
  BY KeysOfTypes DEF Shape, StoreOK
<1>2. begun \in DeletionRecords
  BY <1>1 DEF DeletionRecords
<1>3. deletion \in [Deleters -> DeletionRecords] /\ deletion' = [deletion EXCEPT ![d] = begun]
  BY DEF Shape, DeletionsOK, DeleteTombstone
<1>4. begun.pc = "nodes" /\ begun.id = id /\ begun.nodes = tree /\ begun.keys = KeysOf({id})
  OBVIOUS
<1> HIDE DEF begun
<1>5. deletion' \in [Deleters -> DeletionRecords] /\ deletion'[d] = begun /\ \A e \in Deleters : e # d => deletion'[e] = deletion[e]
  BY <1>2, <1>3
<1> QED BY <1>1, <1>3, <1>4, <1>5

LEMMA DeletesTheNode ==
  ASSUME Shape, NEW d \in Deleters, DeleteNode(d)
  PROVE  /\ deletion' \in [Deleters -> DeletionRecords]
         /\ \A e \in Deleters : e # d => deletion'[e] = deletion[e]
         /\ deletion'[d].pc = "keys" /\ deletion'[d].id = deletion[d].id /\ deletion'[d].nodes = {}
         /\ deletion'[d].keys = deletion[d].keys
<1> DEFINE done == [deletion[d] EXCEPT !.pc = "keys"]
           next == [done EXCEPT !.nodes = {}]
<1>1. deletion \in [Deleters -> DeletionRecords] /\ deletion[d].pc = "nodes"
  BY DEF Shape, DeletionsOK, DeleteNode
<1>2. deletion' = [deletion EXCEPT ![d] = next]
  BY <1>1 DEF DeleteNode, DeletionRecords
<1>3. deletion[d] \in DeletionRecords
  BY <1>1
<1>4. /\ done \in DeletionRecords /\ done.pc = "keys" /\ done.id = deletion[d].id /\ done.keys = deletion[d].keys
  BY <1>3 DEF DeletionRecords
<1> HIDE DEF done
<1>5. /\ next \in DeletionRecords /\ next.nodes = {} /\ next.pc = done.pc /\ next.id = done.id /\ next.keys = done.keys
  BY <1>4 DEF DeletionRecords
<1> HIDE DEF next
<1>6. deletion' \in [Deleters -> DeletionRecords] /\ deletion'[d] = next /\ \A e \in Deleters : e # d => deletion'[e] = deletion[e]
  BY <1>1, <1>2, <1>5
<1> QED BY <1>4, <1>5, <1>6

LEMMA DeletesOneKey ==
  ASSUME Shape, NEW d \in Deleters, DeleteKey(d)
  PROVE  \E k \in deletion[d].keys :
           /\ chest' = chest \ {k}
           /\ deletion' \in [Deleters -> DeletionRecords]
           /\ \A e \in Deleters : e # d => deletion'[e] = deletion[e]
           /\ \/ deletion'[d].pc = "idle"
              \/ /\ deletion'[d].pc = "keys" /\ deletion'[d].id = deletion[d].id /\ deletion'[d].nodes = deletion[d].nodes
                 /\ deletion'[d].keys = deletion[d].keys \ {k} /\ deletion'[d].keys # {}
<1> DEFINE k == NextKey(deletion[d].keys)
           fewer == [deletion[d] EXCEPT !.keys = deletion[d].keys \ {k}]
<1>1. deletion \in [Deleters -> DeletionRecords] /\ deletion[d].pc = "keys" /\ deletion[d].keys # {}
  BY DEF Shape, DeletionsOK, DeleteKey, Idle
<1>2. deletion[d] \in DeletionRecords /\ deletion[d].keys \in SUBSET KeysOf(Ids)
  BY <1>1 DEF DeletionRecords
<1>3. k \in deletion[d].keys
  BY <1>1, <1>2, NextKeyIsOne
<1>4. chest' = chest \ {k} /\ deletion' = [deletion EXCEPT ![d] = IF deletion[d].keys \ {k} = {} THEN NoDeletion ELSE fewer]
  BY Zenon DEF DeleteKey
<1> HIDE DEF k
<1>5. /\ fewer \in DeletionRecords /\ fewer.pc = deletion[d].pc /\ fewer.id = deletion[d].id
      /\ fewer.keys = deletion[d].keys \ {k} /\ fewer.nodes = deletion[d].nodes
  BY <1>2 DEF DeletionRecords
<1> HIDE DEF fewer
<1>6. \A e \in Deleters : e # d => deletion'[e] = deletion[e]
  BY <1>1, <1>4
<1>7. CASE deletion[d].keys \ {k} = {}
  <2>1. deletion' \in [Deleters -> DeletionRecords] /\ deletion'[d].pc = "idle"
    BY <1>1, <1>4, <1>7, NoDeletionIs
  <2> QED BY <1>3, <1>4, <1>6, <2>1
<1>8. CASE deletion[d].keys \ {k} # {}
  <2>1. deletion' \in [Deleters -> DeletionRecords] /\ deletion'[d] = fewer
    BY <1>1, <1>4, <1>5, <1>8
  <2> QED BY <1>1, <1>3, <1>4, <1>5, <1>6, <1>8, <2>1
<1> QED BY <1>7, <1>8

LEMMA DeletionStops ==
  ASSUME Shape, NEW d \in Deleters, deletion' = [deletion EXCEPT ![d] = NoDeletion]
  PROVE  /\ deletion' \in [Deleters -> DeletionRecords]
         /\ \A e \in Deleters : deletion'[e] = deletion[e] \/ deletion'[e].pc = "idle"
BY NoDeletionIs DEF Shape, DeletionsOK

LEMMA DeletionsFrom ==
  ASSUME DeletionsOK, NEW d \in Deleters, deletion' \in [Deleters -> DeletionRecords],
         \A e \in Deleters : e # d => deletion'[e] = deletion[e],
         deletion'[d].pc = "idle" \/ (deletion'[d].keys # {} /\ deletion'[d].keys \subseteq KeysOf({deletion'[d].id}))
  PROVE  DeletionsOK'
BY DEF DeletionsOK, Idle

LEMMA ShapeDeletes ==
  ASSUME Shape, NEW d \in Deleters,
         DeleteNode(d) \/ DeleteKey(d) \/ DeletionThrows(d) \/ \E id \in Ids : DeleteTombstone(d, id)
  PROVE  Shape'
<1>0. StoreOK /\ JobOK /\ DeletionsOK /\ deletion[d] \in DeletionRecords
  BY DEF Shape, DeletionsOK
<1>1. ASSUME NEW id \in Ids, DeleteTombstone(d, id) PROVE Shape'
  <2>1. StoreOK'
    BY <1>0, <1>1 DEF DeleteTombstone, StoreOK
  <2>2. DeletionsOK'
    <3>1. /\ deletion' \in [Deleters -> DeletionRecords]
          /\ \A e \in Deleters : e # d => deletion'[e] = deletion[e]
          /\ deletion'[d].keys # {} /\ deletion'[d].keys \subseteq KeysOf({deletion'[d].id})
      BY <1>1, DeletionBegins
    <3> QED BY <1>0, <3>1, DeletionsFrom
  <2> QED BY <1>0, <1>1, <2>1, <2>2, JobStill DEF Shape, DeleteTombstone
<1>2. CASE DeleteNode(d)
  <2>1. StoreOK'
    BY <1>0, <1>2 DEF DeleteNode, StoreOK, DeletionRecords
  <2>2. DeletionsOK'
    <3>1. deletion[d].keys # {} /\ deletion[d].keys \subseteq KeysOf({deletion[d].id})
      BY <1>0, <1>2 DEF DeletionsOK, Idle, DeleteNode
    <3> QED BY <1>0, <1>2, <3>1, DeletesTheNode, DeletionsFrom
  <2> QED BY <1>0, <1>2, <2>1, <2>2, JobStill DEF Shape, DeleteNode
<1>3. CASE DeleteKey(d)
  <2>1. StoreOK'
    BY <1>0, <1>3, DeletesOneKey DEF DeleteKey, StoreOK
  <2>2. DeletionsOK'
    <3>1. deletion[d].keys \subseteq KeysOf({deletion[d].id})
      BY <1>0, <1>3 DEF DeletionsOK, Idle, DeleteKey
    <3> QED BY <1>0, <1>3, <3>1, DeletesOneKey, DeletionsFrom
  <2> QED BY <1>0, <1>3, <2>1, <2>2, JobStill DEF Shape, DeleteKey
<1>4. CASE DeletionThrows(d)
  <2>1. DeletionsOK'
    BY <1>0, <1>4, DeletionStops DEF DeletionsOK, Idle, DeletionThrows
  <2> QED BY <1>0, <1>4, <2>1, JobStill, StoreStill DEF Shape, DeletionThrows
<1> QED BY <1>1, <1>2, <1>3, <1>4

LEMMA SweepsOneKey == ASSUME Shape, SweepKey PROVE \E k \in sweep : chest' = chest \ {k} /\ sweep' = sweep \ {k}
<1>1. sweep \in SUBSET KeysOf(Ids) /\ sweep # {}
  BY DEF Shape, StoreOK, SweepKey
<1>2. NextKey(sweep) \in sweep
  BY <1>1, NextKeyIsOne
<1> QED BY <1>2 DEF SweepKey

LEMMA ShapeSweeps == ASSUME Shape, SweepStarts \/ SweepKey PROVE Shape'
<1>0. StoreOK /\ JobOK /\ DeletionsOK
  BY DEF Shape
<1>1. CASE SweepStarts
  <2>1. OrphanCandidates \subseteq Ids
    BY <1>0 DEF OrphanCandidates, StoreOK
  <2>2. KeysOf(OrphanCandidates) \subseteq KeysOf(Ids)
    BY <2>1, KeysOfTypes
  <2>3. StoreOK'
    BY <1>0, <1>1, <2>1, <2>2 DEF StoreOK, SweepStarts
  <2> QED BY <1>0, <1>1, <2>3, JobStill, DeletionsStill DEF Shape, SweepStarts
<1>2. CASE SweepKey
  <2>1. StoreOK'
    BY <1>0, <1>2, SweepsOneKey DEF StoreOK, SweepKey
  <2> QED BY <1>0, <1>2, <2>1, JobStill, DeletionsStill DEF Shape, SweepKey
<1> QED BY <1>1, <1>2

LEMMA UndoBegins ==
  ASSUME JobOK, CreateThrows
  PROVE  \/ job' = NoJob
         \/ /\ job' \in Jobs /\ job'.op = "create" /\ job'.pc = "drop" /\ job'.ids = job.ids
            /\ job'.keys = KeysOf(job.ids)
<1>1. job \in Jobs /\ job.op = "create" /\ KeysOf(job.ids) \in SUBSET KeysOf(Ids) /\ "drop" \in Places
  BY Whereabouts, KeysOfTypes DEF JobOK, CreateThrows, Places
<1>2. CASE job' = [job EXCEPT !.pc = "drop", !.keys = KeysOf(job.ids)]
  <2> DEFINE there == [job EXCEPT !.pc = "drop"]
  <2>1. /\ there \in Jobs /\ there.pc = "drop" /\ there.op = job.op /\ there.ids = job.ids
    BY <1>1 DEF Jobs
  <2>2. job' = [there EXCEPT !.keys = KeysOf(job.ids)]
    BY <1>2
  <2> HIDE DEF there
  <2>3. /\ job' \in Jobs /\ job'.keys = KeysOf(job.ids) /\ job'.op = there.op /\ job'.ids = there.ids /\ job'.pc = there.pc
    BY <1>1, <2>1, <2>2 DEF Jobs
  <2> QED BY <1>1, <2>1, <2>3
<1> QED BY <1>2 DEF CreateThrows

LEMMA ShapeFaults ==
  ASSUME Shape, Fault
  PROVE  Shape'
<1>0. StoreOK /\ JobOK /\ DeletionsOK /\ job.ids \subseteq Ids
  BY Whereabouts DEF Shape
<1>1. CASE CreateThrows
  <2>1. JobOK'
    <3>1. job.ids # {}
      BY <1>0, <1>1 DEF CreateThrows, JobOK
    <3>2. KeysOf(job.ids) # {}
      BY <3>1, KeysOfTypes
    <3>3. CASE job' = NoJob
      BY <3>3, NoJobOK
    <3>4. CASE job' # NoJob
      BY <1>0, <1>1, <3>1, <3>2, <3>4, UndoBegins DEF JobOK
    <3> QED BY <3>3, <3>4
  <2> QED BY <1>0, <1>1, <2>1, StoreStill, DeletionsStill DEF Shape, CreateThrows
<1>2. CASE CreateLandedAndThrows
  <2>1. StoreOK'
    BY <1>0, <1>2 DEF CreateLandedAndThrows, StoreOK
  <2> QED BY <1>0, <1>2, <2>1, NoJobOK, DeletionsStill DEF Shape, CreateLandedAndThrows
<1>3. CASE JobThrows
  BY <1>0, <1>3, NoJobOK, StoreStill, DeletionsStill DEF Shape, JobThrows
<1>4. ASSUME NEW d \in Deleters, DeletionThrows(d) PROVE Shape'
  BY <1>4, ShapeDeletes
<1> QED BY <1>1, <1>2, <1>3, <1>4 DEF Fault

LEMMA ShapeKilled == ASSUME Shape, Killed PROVE Shape'
<1>0. StoreOK
  BY DEF Shape
<1>1. StoreOK'
  BY <1>0 DEF StoreOK, Killed, store
<1>2. DeletionsOK'
  BY NoDeletionIs DEF Killed, DeletionsOK, Idle
<1> QED BY <1>1, <1>2, NoJobOK DEF Shape, Killed

\* Every step of the store, whoever takes it, and the ones nobody asks for.
Unasked ==
  \/ ResumeStarts \/ JobStep \/ Fault \/ SweepStarts \/ SweepKey \/ Killed
  \/ \E d \in Deleters, id \in Ids : DeleteTombstone(d, id)
  \/ DeletionStep
  \/ UNCHANGED cleanup
CleanupNext == Asked \/ Unasked

LEMMA ShapeNext == ASSUME Shape, CleanupNext PROVE Shape'
<1>1. CASE DeletionStep \/ \E d \in Deleters, id \in Ids : DeleteTombstone(d, id)
  BY <1>1, ShapeDeletes DEF DeletionStep
<1>2. CASE UNCHANGED cleanup
  <2>1. StoreOK /\ JobOK /\ DeletionsOK
    BY DEF Shape
  <2>2. UNCHANGED <<store, sweep>> /\ UNCHANGED job /\ UNCHANGED deletion
    BY <1>2 DEF cleanup, store
  <2> QED BY <2>1, <2>2, StoreStill, JobStill, DeletionsStill DEF Shape
<1> QED BY <1>1, <1>2, ShapeAsked, ShapeJob, ShapeFaults, ShapeSweeps, ShapeKilled DEF CleanupNext, Unasked

\* A step of a behaviour is a step of the store, and counts what was asked for.
LEMMA NextCleans == ASSUME [Next]_vars PROVE CleanupNext /\ (scene = "uses" => Unasked)
<1>1. CASE Writes \/ Resume \/ Sweep \/ Steps \/ Faults \/ Kill \/ Delete
  BY <1>1 DEF CleanupNext, Unasked, Writes, Resume, Sweep, Steps, Faults, Kill, Delete
<1>2. CASE Uses
  <2>1. PICK c \in Callers : Arrive(c) \/ CallStep(c)
    BY <1>2 DEF Uses
  <2>2. UNCHANGED cleanup \/ DeleteTombstone("burn", Used)
    BY <2>1 DEF Arrive, CallStep, Turn, Fails, Answers, Burn, BurnSettles
  <2> QED BY <2>2, UsedAssumption DEF CleanupNext, Unasked
<1>3. CASE UNCHANGED vars
  BY <1>3 DEF CleanupNext, Unasked, vars
<1> QED BY <1>1, <1>2, <1>3 DEF Next

LEMMA AsksCounted == ASSUME asks \in 0..MaxAsks, [Next]_vars PROVE asks' \in 0..MaxAsks
<1>1. CASE Ask
  BY <1>1, AsksAssumption DEF Ask
<1>2. CASE UNCHANGED asks
  BY <1>2
<1> QED BY <1>1, <1>2 DEF Next, vars, Writes, Delete, Resume, Sweep, Steps, Faults, Uses, Kill, Aside,
           Arrive, CallStep, Turn, Fails, Answers, Burn, BurnSettles

-----------------------------------------------------------------------------
(* Used once. While nobody writes, nothing is on the queue, and the tree   *)
(* gains only what a deletion's stale tree puts back: the crossed entries. *)

NothingAsked == job = NoJob /\ pending = [account |-> FALSE, ids |-> {}]

OnlyCrossedReturn == crossed \subseteq crossed' /\ tree' \subseteq tree \cup crossed'

LEMMA NothingAskedStill ==
  ASSUME Shape, NothingAsked, Unasked
  PROVE  NothingAsked' /\ OnlyCrossedReturn
<1>1. job.op = "none" /\ job.pc = "idle"
  BY NoJobIs DEF NothingAsked
<1>2. ~ResumeStarts
  BY DEF ResumeStarts, Resumable, NothingAsked
<1>3. ~JobStep
  BY <1>1 DEF JobStep, At, StoreKey, CreateNode, CreateFinishes, ApplyMarks, ApplyNodes, DropKey, ApplyClears, ApplyTombs,
         RemoveUnlists, WipeTree, WipeTombs, Unmarks, Lists, ResumeDrops, ResumeEnds
<1>4. CASE Fault
  <2>1. PICK d \in Deleters : DeletionThrows(d)
    BY <1>1, <1>4 DEF Fault, CreateThrows, CreateLandedAndThrows, JobThrows, At, NothingAsked
  <2>2. UNCHANGED <<tree, pending, job, crossed>>
    BY <2>1 DEF DeletionThrows, store
  <2> QED BY <2>2 DEF NothingAsked, OnlyCrossedReturn
<1>5. CASE SweepStarts \/ SweepKey
  <2>1. UNCHANGED <<tree, pending, job>> /\ crossed \subseteq crossed'
    BY <1>5 DEF SweepStarts, SweepKey
  <2> QED BY <2>1 DEF NothingAsked, OnlyCrossedReturn
<1>6. CASE Killed
  <2>1. UNCHANGED <<tree, pending, crossed>> /\ job' = NoJob
    BY <1>6 DEF Killed, store
  <2> QED BY <2>1 DEF NothingAsked, OnlyCrossedReturn
<1>7. ASSUME NEW d \in Deleters,
             DeleteNode(d) \/ DeleteKey(d) \/ \E id \in Ids : DeleteTombstone(d, id)
      PROVE  NothingAsked' /\ OnlyCrossedReturn
  <2>1. UNCHANGED <<pending, job>> /\ OnlyCrossedReturn
    BY <1>7 DEF DeleteTombstone, DeleteNode, DeleteKey, OnlyCrossedReturn
  <2> QED BY <2>1 DEF NothingAsked
<1>8. CASE UNCHANGED cleanup
  BY <1>8 DEF NothingAsked, OnlyCrossedReturn, cleanup
<1> QED BY <1>2, <1>3, <1>4, <1>5, <1>6, <1>7, <1>8 DEF Unasked, DeletionStep

Phases == {"away", "queued", "running", "answered", "burning", "over"}
Active == {"running", "answered", "burning"}

LaneOK ==
  /\ call \in [Callers -> Phases] /\ lane \in Seq(Callers)
  /\ spent \in BOOLEAN /\ marks \in BOOLEAN
  /\ \A c \in Callers : call[c] \in Active => lane # <<>> /\ Head(lane) = c

\* What stands between a use and a second one: the lane is spent, the entry has left the tree, or the
\* call that used it still has the lane and will mark it.
Barred ==
  \/ spent \/ Used \notin tree
  \/ \E c \in Callers : call[c] = "answered" \/ (call[c] = "burning" /\ marks)

UsedRight ==
  /\ uses \in {0, 1}
  /\ uses = 1 => Barred
  /\ \A c \in Callers : call[c] = "running" => uses = 0

UsesOK ==
  /\ uses \in Nat /\ asks \in 0..MaxAsks
  /\ Used \notin crossed => UsedRight

ScenesOK ==
  /\ scene = "uses" => NothingAsked
  /\ scene # "uses" => uses = 0 /\ \A c \in Callers : call[c] = "away"

OnceInv == Shape /\ LaneOK /\ UsesOK /\ ScenesOK

LEMMA Leaves ==
  ASSUME LaneOK, NEW c \in Callers, lane # <<>>, Head(lane) = c, LeaveLane(c), spent' \in BOOLEAN, marks' \in BOOLEAN
  PROVE  LaneOK' /\ \A e \in Callers : call'[e] \notin Active
<1>1. call \in [Callers -> Phases] /\ lane \in Seq(Callers) /\ \A e \in Callers : call[e] \in Active => Head(lane) = e
  BY DEF LaneOK
<1>2. Tail(lane) \in Seq(Callers)
  BY <1>1, HeadTailProperties
<1>3. call' \in [Callers -> Phases] /\ call'[c] = "over" /\ \A e \in Callers : e # c => call'[e] = call[e]
  BY <1>1 DEF LeaveLane, Phases
<1>4. \A e \in Callers : call'[e] \notin Active
  BY <1>1, <1>3 DEF Active
<1> QED BY <1>2, <1>3, <1>4 DEF LaneOK, LeaveLane

\* A step that leaves the calls alone.
LEMMA OnceAside ==
  ASSUME OnceInv, CleanupNext, scene = "uses" => Unasked, UNCHANGED <<scene, calls>>, asks' \in 0..MaxAsks
  PROVE  OnceInv'
<1>0. Shape /\ LaneOK /\ UsesOK /\ ScenesOK /\ Shape'
  BY ShapeNext DEF OnceInv
<1>1. UNCHANGED <<scene, call, lane, spent, marks, uses>>
  BY DEF calls
<1>2. LaneOK'
  BY <1>0, <1>1 DEF LaneOK
<1>3. CASE scene = "uses"
  <2>1. NothingAsked' /\ OnlyCrossedReturn
    BY <1>0, <1>3, NothingAskedStill DEF ScenesOK
  <2>2. UsesOK'
    BY <1>0, <1>1, <2>1 DEF UsesOK, UsedRight, Barred, OnlyCrossedReturn
  <2> QED BY <1>0, <1>1, <1>2, <1>3, <2>1, <2>2 DEF OnceInv, ScenesOK
<1>4. CASE scene # "uses"
  BY <1>0, <1>1, <1>2, <1>4 DEF OnceInv, ScenesOK, UsesOK, UsedRight
<1> QED BY <1>3, <1>4

\* A call's step: the lane's part, and then the store's.
LEMMA OnceUses == ASSUME OnceInv, [Next]_vars, Uses PROVE OnceInv'
<1>0. /\ Shape /\ LaneOK /\ UsesOK /\ ScenesOK /\ scene = "uses"
      /\ call \in [Callers -> Phases] /\ lane \in Seq(Callers) /\ spent \in BOOLEAN /\ marks \in BOOLEAN
  BY DEF OnceInv, LaneOK, Uses
<1>1. CleanupNext /\ Unasked
  BY <1>0, NextCleans
<1>2. Shape' /\ NothingAsked' /\ OnlyCrossedReturn
  BY <1>0, <1>1, ShapeNext, NothingAskedStill DEF ScenesOK
<1>3. PICK c \in Callers : Arrive(c) \/ CallStep(c)
  BY DEF Uses
<1>4. scene' = "uses"
  BY <1>0, <1>3 DEF Arrive, CallStep, Turn, Fails, Answers, Burn, BurnSettles
<1> DEFINE Kept == Used \notin crossed' /\ UsedRight
<1> SUFFICES LaneOK' /\ uses' \in Nat /\ (Kept => UsedRight')
  <2>1. asks' \in 0..MaxAsks
    BY <1>0, AsksCounted DEF UsesOK
  <2> QED BY <1>0, <1>2, <1>4, <2>1 DEF OnceInv, ScenesOK, UsesOK, OnlyCrossedReturn
<1>a. uses \in Nat
  BY <1>0 DEF UsesOK
<1>5. \A e \in Callers : call[e] \in Active => lane # <<>> /\ Head(lane) = e
  BY <1>0 DEF LaneOK
<1>6. CASE Arrive(c)
  <2>1. UNCHANGED <<cleanup, spent, marks, uses>> /\ UNCHANGED tree
    BY <1>6 DEF Arrive, cleanup
  <2>2. call' \in [Callers -> Phases] /\ call'[c] \in {"queued", "over"} /\ \A e \in Callers : e # c => call'[e] = call[e]
    BY <1>0, <1>6 DEF Arrive, Phases
  <2>3. lane' \in Seq(Callers) /\ (lane # <<>> => lane' # <<>> /\ Head(lane') = Head(lane))
    <3>1. CASE lane' = lane
      BY <1>0, <3>1
    <3>2. CASE lane' = Append(lane, c)
      BY <1>0, <3>2, AppendProperties
    <3> QED BY <1>6, <3>1, <3>2 DEF Arrive
  <2>4. \A e \in Callers : call'[e] \in Active => lane' # <<>> /\ Head(lane') = e
    BY <1>5, <2>2, <2>3 DEF Active
  <2>5. LaneOK'
    BY <1>0, <2>1, <2>2, <2>3, <2>4 DEF LaneOK
  <2>6. Kept => UsedRight'
    BY <1>0, <1>6, <2>1, <2>2 DEF UsedRight, Barred, Arrive
  <2> QED BY <1>a, <2>1, <2>5, <2>6
<1>7. CASE Turn(c)
  <2>0. UNCHANGED <<cleanup, spent, marks, uses>> /\ UNCHANGED tree /\ lane # <<>> /\ Head(lane) = c /\ call[c] = "queued"
    BY <1>7 DEF Turn, cleanup, ItsTurn
  <2>1. \A e \in Callers : call[e] \notin Active
    BY <1>5, <2>0 DEF Active
  <2>2. CASE MayRun(c) /\ call' = [call EXCEPT ![c] = "running"] /\ UNCHANGED lane
    <3>1. call' \in [Callers -> Phases] /\ call'[c] = "running" /\ \A e \in Callers : e # c => call'[e] = call[e]
      BY <1>0, <2>2 DEF Phases
    <3>2. LaneOK'
      BY <1>0, <2>0, <2>1, <2>2, <3>1 DEF LaneOK
    <3>3. ~Barred
      BY <2>1, <2>2 DEF Barred, MayRun, IsOneUse, Active
    <3>4. Kept => uses' = 0
      BY <1>0, <2>0, <3>3 DEF UsedRight
    <3>5. Kept => UsedRight'
      BY <3>4 DEF UsedRight
    <3> QED BY <1>a, <2>0, <3>2, <3>5
  <2>3. CASE LeaveLane(c)
    <3>1. LaneOK' /\ \A e \in Callers : call'[e] \notin Active
      BY <1>0, <2>0, <2>3, Leaves
    <3>2. Kept => UsedRight'
      BY <1>0, <2>0, <2>1, <3>1 DEF UsedRight, Barred, Active
    <3> QED BY <1>a, <2>0, <3>1, <3>2
  <2> QED BY <1>7, <2>2, <2>3 DEF Turn
<1>8. CASE Fails(c)
  <2>0. UNCHANGED <<cleanup, spent, marks, uses>> /\ LeaveLane(c) /\ call[c] = "running"
    BY <1>8 DEF Fails
  <2>1. lane # <<>> /\ Head(lane) = c
    BY <1>5, <2>0 DEF Active
  <2>2. LaneOK' /\ \A e \in Callers : call'[e] \notin Active
    BY <1>0, <2>0, <2>1, Leaves
  <2>3. Kept => uses' = 0
    BY <1>0, <2>0 DEF UsedRight
  <2>4. Kept => UsedRight'
    BY <2>3 DEF UsedRight
  <2> QED BY <1>a, <2>0, <2>2, <2>4
<1>9. CASE Answers(c)
  <2>0. UNCHANGED <<cleanup, lane, spent, marks>> /\ call[c] = "running" /\ call' = [call EXCEPT ![c] = "answered"]
    BY <1>9 DEF Answers
  <2>1. call' \in [Callers -> Phases] /\ call'[c] = "answered" /\ \A e \in Callers : e # c => call'[e] = call[e]
    BY <1>0, <2>0 DEF Phases
  <2>2. LaneOK'
    BY <1>0, <2>0, <2>1 DEF LaneOK, Active
  <2>3. uses' \in Nat /\ (Kept => uses' = 1)
    BY <1>a, <1>9, <2>0 DEF UsedRight, Answers
  <2>4. \A e \in Callers : call'[e] # "running"
    BY <1>5, <2>0, <2>1 DEF Active
  <2>5. Kept => UsedRight'
    BY <2>1, <2>3, <2>4 DEF UsedRight, Barred
  <2> QED BY <2>2, <2>3, <2>5
<1>10. CASE Burn(c)
  <2>0. UNCHANGED <<lane, spent, uses>> /\ call[c] = "answered" /\ call' = [call EXCEPT ![c] = "burning"] /\ marks' = IsOneUse
    BY <1>10 DEF Burn
  <2>1. call' \in [Callers -> Phases] /\ call'[c] = "burning" /\ \A e \in Callers : e # c => call'[e] = call[e]
    BY <1>0, <2>0 DEF Phases
  <2>2. LaneOK'
    BY <1>0, <2>0, <2>1 DEF LaneOK, Active, IsOneUse
  <2>3. \A e \in Callers : call'[e] # "running"
    BY <1>5, <2>0, <2>1 DEF Active
  <2>4. Kept => Barred'
    BY <1>2, <2>0, <2>1 DEF Barred, IsOneUse, OnlyCrossedReturn
  <2>5. Kept => UsedRight'
    BY <1>0, <2>0, <2>3, <2>4 DEF UsedRight
  <2> QED BY <1>a, <2>0, <2>2, <2>5
<1>11. CASE BurnSettles(c)
  <2>0. /\ UNCHANGED <<cleanup, uses>> /\ UNCHANGED tree /\ LeaveLane(c) /\ call[c] = "burning"
        /\ spent' = (spent \/ marks) /\ marks' = FALSE
    BY <1>11 DEF BurnSettles, cleanup
  <2>1. lane # <<>> /\ Head(lane) = c /\ \A e \in Callers : call[e] \in Active => e = c
    BY <1>5, <2>0 DEF Active
  <2>2. LaneOK' /\ \A e \in Callers : call'[e] \notin Active
    BY <1>0, <2>0, <2>1, Leaves
  <2>3. Barred => Barred'
    BY <1>0, <2>0, <2>1 DEF Barred, Active
  <2>4. Kept => UsedRight'
    BY <1>0, <2>0, <2>2, <2>3 DEF UsedRight, Active
  <2> QED BY <1>a, <2>0, <2>2, <2>4
<1> QED BY <1>3, <1>6, <1>7, <1>8, <1>9, <1>10, <1>11 DEF CallStep

LEMMA OnceNext == ASSUME OnceInv, [Next]_vars PROVE OnceInv'
<1>1. CleanupNext /\ (scene = "uses" => Unasked)
  BY NextCleans
<1>a. asks' \in 0..MaxAsks
  BY AsksCounted DEF OnceInv, UsesOK
<1>2. CASE Kill
  <2>1. Shape' /\ (scene = "uses" => NothingAsked')
    BY <1>1, ShapeNext, NothingAskedStill DEF OnceInv, ScenesOK
  <2>2. /\ call' = [c \in Callers |-> "away"] /\ lane' = <<>> /\ spent' = FALSE /\ marks' = FALSE
        /\ uses' = 0 /\ scene' = scene
    BY <1>2 DEF Kill
  <2>3. LaneOK'
    <3>1. call' \in [Callers -> Phases] /\ lane' \in Seq(Callers) /\ \A c \in Callers : call'[c] \notin Active
      BY <2>2 DEF Phases, Active
    <3> QED BY <2>2, <3>1 DEF LaneOK
  <2>4. UsesOK'
    BY <1>a, <2>2 DEF UsesOK, UsedRight
  <2> QED BY <2>1, <2>2, <2>3, <2>4 DEF OnceInv, ScenesOK
<1>3. CASE Writes \/ Resume \/ Sweep \/ Steps \/ Faults \/ Delete
  <2>1. UNCHANGED <<scene, calls>>
    BY <1>3 DEF Writes, Resume, Sweep, Steps, Faults, Delete, Ask, Aside
  <2> QED BY <1>1, <1>a, <2>1, OnceAside
<1>4. CASE UNCHANGED vars
  <2>1. UNCHANGED <<scene, calls>>
    BY <1>4 DEF vars
  <2> QED BY <1>1, <1>a, <2>1, OnceAside
<1> QED BY <1>2, <1>3, <1>4, OnceUses DEF Next

LEMMA OnceInit == Init => OnceInv
<1> SUFFICES ASSUME Init PROVE OnceInv
  OBVIOUS
<1>1. CleanupInit
  BY DEF Init
<1>2. NothingAsked
  BY <1>1, NoDeletionIs DEF CleanupInit, NothingAsked
<1>3. LaneOK
  <2>1. call = [c \in Callers |-> "away"] /\ lane = <<>> /\ spent = FALSE /\ marks = FALSE
    BY DEF Init
  <2>2. call \in [Callers -> Phases] /\ lane \in Seq(Callers) /\ \A c \in Callers : call[c] \notin Active
    BY <2>1 DEF Phases, Active
  <2> QED BY <2>1, <2>2 DEF LaneOK
<1> QED BY <1>1, <1>2, <1>3, ShapeInit, AsksAssumption DEF Init, OnceInv, UsesOK, UsedRight, ScenesOK

LEMMA OnceAlways == Spec => []OnceInv
BY OnceInit, OnceNext, PTL DEF Spec

\* Every variable keeps its shape in any instance; only the head of the lane is past its queue.
THEOREM TypeCorrect == Spec => []TypeOK
<1>1. OnceInv => TypeOK
  <2> SUFFICES ASSUME OnceInv PROVE TypeOK
    OBVIOUS
  <2>1. CleanupTypeOK
    BY DEF OnceInv, Shape, StoreOK, JobOK, DeletionsOK, Jobs, Ops, Places, DeletionRecords, CleanupTypeOK
  <2> QED BY <2>1 DEF OnceInv, LaneOK, UsesOK, TypeOK, Phases, Active
<1> QED BY <1>1, OnceAlways, PTL

\* However the calls of one window overlap, whoever else deletes the entry meanwhile and whether or
\* not the burn succeeds, an agent's call on a one-use entry succeeds once at most, unless a deletion of
\* another entry put it back: in any number of callers, entries and faults.
THEOREM OneUseOnly == Spec => []UsedOnce
<1>1. OnceInv => UsedOnce
  BY DEF OnceInv, UsesOK, UsedRight, UsedOnce
<1> QED BY <1>1, OnceAlways, PTL

-----------------------------------------------------------------------------
(* No hollow entry. The sound entries are those that work off the queue    *)
(* did not cross. Their keys may be missing only while an unlisted account *)
(* is marked for removal; and every way back to a listed or unmarked       *)
(* account passes a tree with no sound entry. What the queue brings, it    *)
(* has apart from the deletions and the sweep: a create because its id is  *)
(* new, an apply because what it does not have apart is crossed.           *)

Sound == tree \ crossed
Whole == KeysOf(Sound) \subseteq chest
NotHollow == listed \/ ~pending.account => Whole

\* The ids a deletion is about, and those of the tree it will store.
Touched(d) == {deletion[d].id} \cup deletion[d].nodes

\* Every id anywhere was minted, so a new one is nowhere.
Minted ==
  /\ tree \cup tombs \subseteq minted /\ sweep \subseteq KeysOf(minted)
  /\ \A d \in Deleters : Idle(d) \/ Touched(d) \subseteq minted

\* Keys that are being deleted are of no sound entry.
SweepKnows == sweep \cap KeysOf(Sound) = {}
DeletionKnows(d) == deletion[d].pc = "keys" => deletion[d].id \notin Sound

CreateStored ==
  job.op = "create" =>
    /\ job.ids \subseteq minted /\ job.keys \subseteq KeysOf(job.ids)
    /\ job.pc = "store" => KeysOf(job.ids) \subseteq chest \cup job.keys
    /\ job.pc = "node" => KeysOf(job.ids) \subseteq chest

CreateEarly == job.op = "create" /\ job.pc \in {"store", "node", "drop"}

CreateApart ==
  CreateEarly =>
    /\ job.ids \cap (tree \cup tombs) = {} /\ KeysOf(job.ids) \cap sweep = {}
    /\ \A d \in Deleters : Idle(d) \/ Touched(d) \cap job.ids = {}

Coming == Arriving \ crossed

ApplyStored ==
  job.op = "apply" =>
    /\ job.bundle.nodes \cup job.bundle.tombs \subseteq minted
    /\ job.pc = "store" => KeysOf(Coming) \subseteq chest \cup job.keys
    /\ job.pc \in {"mark", "nodes"} => KeysOf(Coming) \subseteq chest
    /\ job.pc = "drop" => job.keys \cap KeysOf(Sound) = {}

ApplyApart ==
  job.op = "apply" =>
    /\ KeysOf(Coming) \cap sweep = {}
    /\ \A d \in Deleters : Idle(d) \/ deletion[d].id \notin Coming

WipeKnows ==
  job.op \in {"remove", "list", "resume"} =>
    /\ job.pc \in {"drop", "forget"} => ~listed /\ pending.account
    /\ job.pc = "unlist" => pending.account
    /\ job.pc = "wiped" => Sound = {}
    /\ job.pc \in {"unmark", "list", "ids"} => Whole

DeletionsKnow == \A d \in Deleters : DeletionKnows(d)

Tidy ==
  /\ NotHollow /\ Minted /\ SweepKnows /\ DeletionsKnow
  /\ CreateStored /\ CreateApart /\ ApplyStored /\ ApplyApart /\ WipeKnows

LEMMA TidyInit == CleanupInit => Tidy
<1> SUFFICES ASSUME CleanupInit PROVE Tidy
  OBVIOUS
<1>1. KeysOf(Sound) \subseteq KeysOf(tree)
  BY KeysOfParts DEF Sound
<1>2. NotHollow /\ SweepKnows
  BY <1>1 DEF CleanupInit, NotHollow, Whole, SweepKnows
<1>3. job.op = "none" /\ \A d \in Deleters : deletion[d].pc = "idle"
  BY NoJobIs, NoDeletionIs DEF CleanupInit
<1>4. Minted
  BY <1>3 DEF CleanupInit, Minted, Idle
<1>5. DeletionsKnow
  BY <1>3 DEF DeletionKnows, DeletionsKnow
<1>6. CreateStored /\ CreateApart /\ ApplyStored /\ ApplyApart /\ WipeKnows
  BY <1>3 DEF CreateStored, CreateApart, CreateEarly, ApplyStored, ApplyApart, WipeKnows
<1> QED BY <1>2, <1>4, <1>5, <1>6 DEF Tidy

\* A step of the queue that makes no entry sound, and takes no key, leaves the rest as it was.
LEMMA Shrinks ==
  ASSUME Tidy, UNCHANGED <<deletion, sweep>>, Sound' \subseteq Sound
  PROVE  SweepKnows' /\ DeletionsKnow' /\ (UNCHANGED chest /\ Whole => Whole')
<1>1. KeysOf(Sound') \subseteq KeysOf(Sound)
  BY KeysOfParts
<1>2. SweepKnows'
  BY <1>1 DEF Tidy, SweepKnows
<1>3. DeletionsKnow'
  BY DEF Tidy, DeletionsKnow, DeletionKnows
<1> QED BY <1>1, <1>2, <1>3 DEF Whole

\* A step of the queue after which no create is on it.
LEMMA TidyQueued ==
  ASSUME Tidy, UNCHANGED <<deletion, sweep>>, minted \subseteq minted', tree' \cup tombs' \subseteq minted',
         job'.op # "create", SweepKnows', DeletionsKnow', NotHollow', ApplyStored', ApplyApart', WipeKnows'
  PROVE  Tidy'
<1>1. KeysOf(minted) \subseteq KeysOf(minted')
  BY KeysOfParts
<1>2. Minted'
  BY <1>1 DEF Tidy, Minted, Idle, Touched
<1>3. CreateStored' /\ CreateApart'
  BY DEF CreateStored, CreateApart, CreateEarly
<1> QED BY <1>2, <1>3 DEF Tidy

\* The queue is empty again, and the store is as it was.
LEMMA TidyEnds ==
  ASSUME Tidy, job' = NoJob, UNCHANGED <<store, deletion, sweep>>
  PROVE  Tidy'
<1>0. UNCHANGED <<listed, tree, chest, tombs, pending, minted, crossed>> /\ job'.op = "none"
  BY NoJobIs DEF store
<1>1. Sound' \subseteq Sound
  BY <1>0 DEF Sound
<1>2. SweepKnows' /\ DeletionsKnow'
  BY <1>0, <1>1, Shrinks
<1>3. NotHollow'
  BY <1>0, <1>1, Shrinks DEF Tidy, NotHollow
<1>4. ApplyStored' /\ ApplyApart' /\ WipeKnows'
  BY <1>0 DEF ApplyStored, ApplyApart, WipeKnows
<1> QED BY <1>0, <1>2, <1>3, <1>4, TidyQueued DEF Tidy, Minted

LEMMA TidyAsked ==
  ASSUME Shape, Tidy, Asked \/ ResumeStarts
  PROVE  Tidy'
<1>0. StoreOK /\ NotHollow /\ tree \cup tombs \subseteq minted
  BY DEF Shape, Tidy, Minted
<1>1. ASSUME NEW id \in Ids, CreateDefers(id) PROVE Tidy'
  <2>0. /\ UNCHANGED <<listed, tree, chest, tombs, deletion, sweep, crossed>>
        /\ minted' = minted \cup {id} /\ id \notin minted /\ pending'.account = pending.account
    BY <1>1 DEF CreateDefers, Shape, StoreOK
  <2>1. /\ job'.op = "create" /\ job'.pc = "store" /\ job'.ids = {id} /\ job'.keys = KeysOf({id})
    BY <1>1, CreateBegins
  <2>2. Sound' \subseteq Sound
    BY <2>0 DEF Sound
  <2>3. SweepKnows' /\ DeletionsKnow' /\ (Whole => Whole')
    BY <2>0, <2>2, Shrinks
  <2>4. NotHollow'
    BY <1>0, <2>0, <2>3 DEF NotHollow
  <2>5. ApplyStored' /\ ApplyApart' /\ WipeKnows'
    BY <2>1 DEF ApplyStored, ApplyApart, WipeKnows
  <2>6. Minted'
    BY <2>0, KeysOfParts DEF Tidy, Minted, Idle, Touched
  <2>7. CreateStored'
    BY <2>0, <2>1 DEF CreateStored
  <2>8. CreateApart'
    <3>1. KeysOf({id}) \cap KeysOf(minted) = {}
      BY <2>0, KeysOfParts
    <3>2. KeysOf({id}) \cap sweep = {}
      BY <3>1 DEF Tidy, Minted
    <3>3. \A d \in Deleters : Idle(d)' \/ Touched(d)' \cap {id} = {}
      BY <2>0 DEF Tidy, Minted, Idle, Touched
    <3> QED BY <1>0, <2>0, <2>1, <3>2, <3>3 DEF CreateApart
  <2> QED BY <2>3, <2>4, <2>5, <2>6, <2>7, <2>8 DEF Tidy
<1>2. ASSUME NEW b \in Bundles, ApplyStarts(b) PROVE Tidy'
  <2>0. /\ UNCHANGED <<listed, tree, chest, tombs, pending, deletion, sweep>>
        /\ minted' = minted \cup b.nodes \cup b.tombs
        /\ crossed' = crossed \cup (b.nodes \cap BeingDeleted)
    BY <1>2 DEF ApplyStarts
  <2>1. job'.op = "apply" /\ job'.pc = (IF b.nodes = {} THEN "mark" ELSE "store") /\ job'.keys = KeysOf(b.nodes) /\ job'.bundle = b
    BY <1>0, <1>2, ApplyBegins
  <2>2. Sound' \subseteq Sound
    BY <2>0 DEF Sound
  <2>3. SweepKnows' /\ DeletionsKnow' /\ (Whole => Whole')
    BY <2>0, <2>2, Shrinks
  <2>4. NotHollow'
    BY <1>0, <2>0, <2>3 DEF NotHollow
  <2>5. Coming' \subseteq b.nodes /\ Coming' \cap BeingDeleted = {}
    BY <2>0, <2>1 DEF Coming, Arriving
  <2>6. ApplyStored'
    BY <2>0, <2>1, <2>5, KeysOfParts DEF ApplyStored
  <2>7. ApplyApart'
    <3>1. KeysOf(Coming') \cap sweep = {}
      BY <2>5 DEF BeingDeleted, KeysOf
    <3>2. \A d \in Deleters : Idle(d) \/ deletion[d].id \in BeingDeleted
      BY DEF BeingDeleted, Idle
    <3> QED BY <2>0, <2>5, <3>1, <3>2 DEF ApplyApart, Idle
  <2> QED BY <1>0, <2>0, <2>1, <2>3, <2>4, <2>6, <2>7, TidyQueued DEF WipeKnows
<1>3. CASE RemoveMarks
  <2>0. /\ UNCHANGED <<listed, tree, chest, tombs, deletion, sweep, minted, crossed>>
        /\ pending'.account = TRUE /\ listed
    BY <1>0, <1>3, AccountIs DEF RemoveMarks, StoreOK
  <2>1. job'.op = "remove" /\ job'.pc = "unlist"
    BY <1>3, RemoveBegins
  <2>2. Sound' \subseteq Sound
    BY <2>0 DEF Sound
  <2>3. SweepKnows' /\ DeletionsKnow' /\ (Whole => Whole')
    BY <2>0, <2>2, Shrinks
  <2>4. NotHollow'
    BY <1>0, <2>0, <2>3 DEF NotHollow
  <2>5. WipeKnows' /\ ApplyStored' /\ ApplyApart'
    BY <2>0, <2>1 DEF WipeKnows, ApplyStored, ApplyApart
  <2> QED BY <1>0, <2>0, <2>1, <2>3, <2>4, <2>5, TidyQueued
<1>4. CASE ListStarts \/ ResumeStarts
  <2>0. UNCHANGED <<listed, tree, chest, tombs, pending, deletion, sweep, minted, crossed>>
    BY <1>4 DEF ListStarts, ResumeStarts, store
  <2>1. Sound' \subseteq Sound
    BY <2>0 DEF Sound
  <2>2. SweepKnows' /\ DeletionsKnow' /\ (Whole => Whole')
    BY <2>0, <2>1, Shrinks
  <2>3. NotHollow'
    BY <1>0, <2>0, <2>2 DEF NotHollow
  <2>4. /\ job'.op \in {"list", "resume"} /\ job'.pc \in {"drop", "forget", "unmark", "list", "ids"}
        /\ job'.pc \in {"drop", "forget"} => pending.account /\ ~listed
        /\ job'.pc \in {"unmark", "list", "ids"} => listed \/ ~pending.account
    <3>1. CASE ListStarts
      BY <1>0, <3>1, ListBegins
    <3>2. CASE ResumeStarts
      BY <1>0, <3>2, ResumeBegins DEF ToResume
    <3> QED BY <1>4, <3>1, <3>2
  <2>5. WipeKnows' /\ ApplyStored' /\ ApplyApart'
    BY <1>0, <2>0, <2>2, <2>4 DEF WipeKnows, ApplyStored, ApplyApart, NotHollow
  <2> QED BY <1>0, <2>0, <2>2, <2>3, <2>4, <2>5, TidyQueued
<1> QED BY <1>1, <1>2, <1>3, <1>4 DEF Asked

\* What a step of a create leaves alone, and what follows for the rest.
LEMMA CreateAside ==
  ASSUME Shape, Tidy, job.op = "create",
         StoreKey \/ CreateNode \/ CreateFinishes \/ DropKey \/ CreateThrows \/ CreateLandedAndThrows
  PROVE  /\ UNCHANGED <<listed, tombs, deletion, sweep, minted, crossed>> /\ pending'.account = pending.account
         /\ job.ids \subseteq minted /\ job.keys \subseteq KeysOf(job.ids)
         /\ job'.op \in {"create", "none"} => ApplyStored' /\ ApplyApart' /\ WipeKnows'
<1>1. job.ids \subseteq minted /\ job.keys \subseteq KeysOf(job.ids)
  BY DEF Tidy, CreateStored
<1>2. pending'.account = pending.account
  <2>1. CASE CreateFinishes
    BY <2>1, PendingIs DEF CreateFinishes, Shape, StoreOK
  <2>2. CASE ~CreateFinishes
    BY <2>2 DEF StoreKey, CreateNode, DropKey, CreateThrows, CreateLandedAndThrows, store
  <2> QED BY <2>1, <2>2
<1>3. UNCHANGED <<listed, tombs, deletion, sweep, minted, crossed>>
  BY DEF StoreKey, CreateNode, CreateFinishes, DropKey, CreateThrows, CreateLandedAndThrows, store
<1>4. job'.op \in {"create", "none"} => ApplyStored' /\ ApplyApart' /\ WipeKnows'
  BY DEF ApplyStored, ApplyApart, WipeKnows
<1> QED BY <1>1, <1>2, <1>3, <1>4

\* A step of a create: the tree may gain its entry, and its keys come or go.
LEMMA TidyCreates ==
  ASSUME Shape, Tidy, job.op = "create",
         StoreKey \/ CreateNode \/ CreateFinishes \/ DropKey \/ CreateThrows \/ CreateLandedAndThrows
  PROVE  Tidy'
<1>0. /\ StoreOK /\ JobOK /\ NotHollow /\ Minted /\ SweepKnows /\ DeletionsKnow /\ CreateStored /\ CreateApart
  BY DEF Shape, Tidy
<1>1. /\ UNCHANGED <<listed, tombs, deletion, sweep, minted, crossed>> /\ pending'.account = pending.account
      /\ job.ids \subseteq minted /\ job.keys \subseteq KeysOf(job.ids)
      /\ job'.op \in {"create", "none"} => ApplyStored' /\ ApplyApart' /\ WipeKnows'
  BY CreateAside
<1>2. CASE StoreKey
  <2>0. PICK k \in job.keys :
          /\ chest' = chest \cup {k} /\ job'.op = job.op /\ job'.ids = job.ids /\ job'.keys = job.keys \ {k}
          /\ job'.pc = IF job'.keys # {} THEN "store" ELSE "node"
    BY <1>0, <1>2, StoresOneKey
  <2>1. UNCHANGED tree /\ job.pc = "store"
    BY <1>2 DEF StoreKey
  <2>2. Sound' = Sound
    BY <1>1, <2>1 DEF Sound
  <2>3. SweepKnows' /\ DeletionsKnow'
    BY <1>1, <2>2, Shrinks
  <2>4. NotHollow'
    BY <1>0, <1>1, <2>0, <2>2 DEF NotHollow, Whole
  <2>5. Minted'
    BY <1>0, <1>1, <2>1 DEF Minted, Idle, Touched
  <2>6. CreateStored'
    BY <1>0, <1>1, <2>0, <2>1 DEF CreateStored
  <2>7. CreateApart'
    BY <1>0, <1>1, <2>0, <2>1 DEF CreateApart, CreateEarly, Idle, Touched
  <2> QED BY <1>1, <2>0, <2>3, <2>4, <2>5, <2>6, <2>7 DEF Tidy
<1>3. CASE DropKey
  <2>0. PICK k \in job.keys :
          /\ chest' = chest \ {k}
          /\ \/ job'.op = "none"
             \/ job'.op = job.op /\ job'.ids = job.ids /\ job'.keys = job.keys \ {k} /\ job'.pc = "drop"
    BY <1>0, <1>3, DropsOneKey, NoJobIs
  <2>1. UNCHANGED tree /\ job.pc = "drop"
    BY <1>3 DEF DropKey
  <2>2. Sound' = Sound /\ Sound \subseteq tree
    BY <1>1, <2>1 DEF Sound
  <2>3. k \notin KeysOf(Sound)
    <3>1. job.ids \cap Sound = {}
      BY <1>0, <2>1, <2>2 DEF CreateApart, CreateEarly
    <3> QED BY <1>1, <2>0, <3>1, KeysOfParts
  <2>4. SweepKnows' /\ DeletionsKnow'
    BY <1>1, <2>2, Shrinks
  <2>5. NotHollow'
    BY <1>0, <1>1, <2>0, <2>2, <2>3 DEF NotHollow, Whole
  <2>6. Minted'
    BY <1>0, <1>1, <2>1 DEF Minted, Idle, Touched
  <2>7. CreateStored'
    BY <1>0, <1>1, <2>0, <2>1 DEF CreateStored
  <2>8. CreateApart'
    BY <1>0, <1>1, <2>0, <2>1 DEF CreateApart, CreateEarly, Idle, Touched
  <2> QED BY <1>1, <2>0, <2>4, <2>5, <2>6, <2>7, <2>8 DEF Tidy
<1>4. CASE CreateNode \/ CreateLandedAndThrows
  <2>0. /\ UNCHANGED chest /\ tree' = tree \cup job.ids /\ job.pc = "node"
        /\ job'.op = "none" \/ (job'.op = "create" /\ job'.ids = job.ids /\ job'.keys = job.keys /\ job'.pc = "finish")
    <3>1. CASE CreateNode
      <4>1. job \in Jobs /\ Go("finish") /\ "finish" \in Places
        BY <1>0, <3>1 DEF CreateNode, JobOK, Places
      <4> QED BY <3>1, <4>1, Goes DEF CreateNode, At
    <3>2. CASE CreateLandedAndThrows
      BY <3>2, NoJobIs DEF CreateLandedAndThrows, At
    <3> QED BY <1>4, <3>1, <3>2
  <2>1. /\ KeysOf(job.ids) \subseteq chest /\ KeysOf(job.ids) \cap sweep = {}
        /\ \A d \in Deleters : Idle(d) \/ Touched(d) \cap job.ids = {}
    BY <1>0, <2>0 DEF CreateStored, CreateApart, CreateEarly
  <2>2. Sound' \subseteq Sound \cup job.ids
    BY <1>1, <2>0 DEF Sound
  <2>3. KeysOf(Sound') \subseteq KeysOf(Sound) \cup KeysOf(job.ids)
    BY <2>2 DEF KeysOf
  <2>4. NotHollow'
    BY <1>0, <1>1, <2>0, <2>1, <2>3 DEF NotHollow, Whole
  <2>5. SweepKnows'
    BY <1>0, <1>1, <2>1, <2>3 DEF SweepKnows
  <2>6. Minted'
    BY <1>0, <1>1, <2>0 DEF Minted, Idle, Touched
  <2>7. DeletionsKnow'
    <3>1. \A d \in Deleters : deletion[d].pc = "keys" => deletion[d].id \notin job.ids
      BY <2>1 DEF Idle, Touched
    <3> QED BY <1>0, <1>1, <2>2, <3>1 DEF DeletionsKnow, DeletionKnows
  <2>8. CreateStored' /\ CreateApart'
    BY <1>1, <2>0 DEF CreateStored, CreateApart, CreateEarly
  <2> QED BY <1>1, <2>0, <2>4, <2>5, <2>6, <2>7, <2>8 DEF Tidy
<1>5. CASE CreateFinishes \/ CreateThrows
  <2>0. /\ UNCHANGED <<chest, tree>>
        /\ \/ job'.op = "none"
           \/ /\ job.pc \in {"store", "node"} /\ job'.op = "create" /\ job'.pc = "drop"
              /\ job'.ids = job.ids /\ job'.keys = KeysOf(job.ids)
    <3>1. CASE CreateThrows
      BY <1>0, <3>1, UndoBegins, NoJobIs DEF CreateThrows, store
    <3>2. CASE CreateFinishes
      BY <3>2, NoJobIs DEF CreateFinishes
    <3> QED BY <1>5, <3>1, <3>2
  <2>1. Sound' = Sound
    BY <1>1, <2>0 DEF Sound
  <2>2. SweepKnows' /\ DeletionsKnow'
    BY <1>1, <2>1, Shrinks
  <2>3. NotHollow'
    BY <1>0, <1>1, <2>0, <2>1 DEF NotHollow, Whole
  <2>4. Minted'
    BY <1>0, <1>1, <2>0 DEF Minted, Idle, Touched
  <2>5. CreateStored'
    BY <1>1, <2>0 DEF CreateStored
  <2>6. CreateApart'
    BY <1>0, <1>1, <2>0 DEF CreateApart, CreateEarly, Idle, Touched
  <2> QED BY <1>1, <2>0, <2>2, <2>3, <2>4, <2>5, <2>6 DEF Tidy
<1> QED BY <1>2, <1>3, <1>4, <1>5

LEMMA TidyApplies ==
  ASSUME Shape, Tidy, job.op = "apply",
         StoreKey \/ ApplyMarks \/ ApplyNodes \/ DropKey \/ ApplyClears \/ ApplyTombs
  PROVE  Tidy'
<1>0. /\ StoreOK /\ JobOK /\ job \in Jobs /\ NotHollow /\ tree \cup tombs \subseteq minted /\ ApplyStored /\ ApplyApart
      /\ job.bundle.nodes \cup job.bundle.tombs \subseteq minted
  BY DEF Shape, Tidy, ApplyStored, Minted, JobOK
<1>1. UNCHANGED <<listed, deletion, sweep, minted, crossed>> /\ pending'.account = pending.account
  <2>1. CASE ApplyMarks \/ ApplyClears
    <3>1. PICK ids : ids \subseteq Ids /\ pending' = [pending EXCEPT !.ids = ids]
      <4>1. job.ids \ job.bundle.nodes \subseteq Ids
        BY <1>0, Whereabouts
      <4> QED BY <2>1, <4>1 DEF ApplyMarks, ApplyClears
    <3>2. pending'.account = pending.account
      BY <1>0, <3>1, PendingIs DEF StoreOK
    <3> QED BY <2>1, <3>2 DEF ApplyMarks, ApplyClears
  <2>2. CASE StoreKey \/ ApplyNodes \/ DropKey \/ ApplyTombs
    BY <2>2 DEF StoreKey, ApplyNodes, DropKey, ApplyTombs
  <2> QED BY <2>1, <2>2
\* The steps that leave the tree alone: no more is arriving than was, and no sound entry loses a key.
<1> DEFINE Quiet == /\ UNCHANGED tree /\ Coming' \subseteq Coming /\ tombs' \subseteq minted
                    /\ \A k \in chest \ chest' : k \notin KeysOf(Sound)
                    /\ job'.op \in {"apply", "none"} /\ ApplyStored'
<1>2. Quiet => Tidy'
  <2> SUFFICES ASSUME Quiet PROVE Tidy'
    OBVIOUS
  <2>1. Sound' = Sound /\ KeysOf(Coming') \subseteq KeysOf(Coming)
    BY <1>1, KeysOfParts DEF Sound
  <2>2. SweepKnows' /\ DeletionsKnow'
    BY <1>1, <2>1, Shrinks
  <2>3. NotHollow'
    BY <1>0, <1>1, <2>1 DEF NotHollow, Whole
  <2>4. ApplyApart'
    BY <1>0, <1>1, <2>1 DEF ApplyApart, Idle
  <2>5. WipeKnows'
    BY DEF WipeKnows
  <2> QED BY <1>0, <1>1, <2>2, <2>3, <2>4, <2>5, TidyQueued
<1>3. CASE StoreKey
  <2>0. PICK k \in job.keys :
          /\ chest' = chest \cup {k} /\ job'.op = job.op /\ job'.bundle = job.bundle /\ job'.keys = job.keys \ {k}
          /\ job'.pc = IF job'.keys # {} THEN "store" ELSE "mark"
    BY <1>0, <1>3, StoresOneKey
  <2>1. UNCHANGED <<tree, tombs>> /\ job.pc = "store"
    BY <1>3 DEF StoreKey
  <2>2. Coming' = Coming
    BY <1>1, <2>0, <2>1 DEF Coming, Arriving
  <2>3. KeysOf(Coming) \subseteq chest' \cup job'.keys
    BY <1>0, <2>0, <2>1 DEF ApplyStored
  <2>4. ApplyStored'
    BY <1>0, <1>1, <2>0, <2>2, <2>3 DEF ApplyStored
  <2> QED BY <1>0, <1>2, <2>0, <2>1, <2>2, <2>4
<1>4. CASE ApplyMarks
  <2>0. UNCHANGED <<tree, tombs, chest>> /\ job.pc = "mark" /\ Go("nodes") /\ "nodes" \in Places
    BY <1>4 DEF ApplyMarks, At, Places
  <2>1. job'.op = job.op /\ job'.bundle = job.bundle /\ job'.pc = "nodes"
    BY <1>0, <2>0, Goes
  <2>2. Coming' = Coming
    BY <1>1, <2>0, <2>1 DEF Coming, Arriving
  <2>3. ApplyStored'
    BY <1>0, <1>1, <2>0, <2>1, <2>2 DEF ApplyStored
  <2> QED BY <1>0, <1>2, <2>0, <2>1, <2>2, <2>3
<1>5. CASE DropKey
  <2>0. PICK k \in job.keys :
          /\ chest' = chest \ {k} /\ job'.op = job.op /\ job'.bundle = job.bundle /\ job'.keys = job.keys \ {k}
          /\ job'.pc \in {"drop", "clear"}
    BY <1>0, <1>5, DropsOneKey
  <2>1. UNCHANGED <<tree, tombs>> /\ job.pc = "drop"
    BY <1>5 DEF DropKey
  <2>2. job.keys \cap KeysOf(Sound) = {} /\ Sound' = Sound
    BY <1>0, <1>1, <2>1 DEF ApplyStored, Sound
  <2>3. Coming' = {}
    BY <2>0 DEF Coming, Arriving
  <2>4. ApplyStored'
    BY <1>0, <1>1, <2>0, <2>2 DEF ApplyStored
  <2> QED BY <1>0, <1>2, <2>0, <2>1, <2>2, <2>3, <2>4
<1>6. CASE ApplyClears
  <2>0. UNCHANGED <<tree, tombs, chest>> /\ Go("tombs") /\ "tombs" \in Places
    BY <1>6 DEF ApplyClears, Places
  <2>1. job'.op = job.op /\ job'.bundle = job.bundle /\ job'.pc = "tombs"
    BY <1>0, <2>0, Goes
  <2>2. Coming' = {}
    BY <2>1 DEF Coming, Arriving
  <2>3. ApplyStored'
    BY <1>0, <1>1, <2>1 DEF ApplyStored
  <2> QED BY <1>0, <1>2, <2>0, <2>1, <2>2, <2>3
<1>7. CASE ApplyTombs
  <2>0. UNCHANGED <<tree, chest>> /\ tombs' = job.bundle.tombs /\ job'.op = "none" /\ job'.pc = "idle"
    BY <1>7, NoJobIs DEF ApplyTombs
  <2>1. Coming' = {} /\ ApplyStored'
    BY <2>0 DEF Coming, Arriving, ApplyStored
  <2> QED BY <1>0, <1>2, <2>0, <2>1
<1>8. CASE ApplyNodes
  <2> DEFINE vanished == job.ids \ job.bundle.nodes
  <2>0. /\ UNCHANGED <<tombs, chest>> /\ tree' = job.bundle.nodes /\ job.pc = "nodes"
        /\ Loop("drop", KeysOf(vanished), "clear") /\ "drop" \in Places /\ "clear" \in Places
    BY <1>8 DEF ApplyNodes, At, Places
  <2>1. KeysOf(vanished) \in SUBSET KeysOf(Ids) /\ KeysOf(vanished) \cap KeysOf(job.bundle.nodes) = {}
    BY <1>0, Whereabouts, KeysOfTypes, KeysOfParts
  <2> HIDE DEF vanished
  <2>2. job'.op = job.op /\ job'.bundle = job.bundle /\ job'.keys = KeysOf(vanished) /\ job'.pc \in {"drop", "clear"}
    BY <1>0, <2>0, <2>1, Loops
  <2>3. Sound' = Coming /\ Sound' \subseteq job.bundle.nodes
    BY <1>1, <2>0 DEF Sound, Coming, Arriving
  <2>4. KeysOf(Sound') \subseteq KeysOf(job.bundle.nodes)
    BY <2>3, KeysOfParts
  <2>5. SweepKnows'
    BY <1>0, <1>1, <2>3 DEF SweepKnows, ApplyApart
  <2>6. DeletionsKnow'
    BY <1>0, <1>1, <2>3 DEF DeletionsKnow, DeletionKnows, ApplyApart, Idle
  <2>7. NotHollow'
    BY <1>0, <2>0, <2>3 DEF NotHollow, Whole, ApplyStored
  <2>8. ApplyStored'
    BY <1>0, <1>1, <2>1, <2>2, <2>4 DEF ApplyStored
  <2>9. Coming' = {}
    BY <2>2 DEF Coming, Arriving
  <2>10. ApplyApart'
    BY <2>9, KeysOfParts DEF ApplyApart
  <2>11. WipeKnows'
    BY <1>0, <2>2 DEF WipeKnows
  <2> QED BY <1>0, <1>1, <2>0, <2>2, <2>5, <2>6, <2>7, <2>8, <2>10, <2>11, TidyQueued
<1> QED BY <1>3, <1>4, <1>5, <1>6, <1>7, <1>8

LEMMA TidyWipes ==
  ASSUME Shape, Tidy, job.op \in {"remove", "list", "resume"},
         \/ DropKey \/ RemoveUnlists \/ WipeTree \/ WipeTombs \/ Unmarks \/ Lists \/ ResumeDrops \/ ResumeEnds
  PROVE  Tidy'
<1>0. /\ StoreOK /\ JobOK /\ job \in Jobs /\ NotHollow /\ tree \cup tombs \subseteq minted /\ WipeKnows
  BY DEF Shape, Tidy, Minted, JobOK
<1>1. UNCHANGED <<deletion, sweep, minted, crossed>>
  BY DEF DropKey, RemoveUnlists, WipeTree, WipeTombs, Unmarks, Lists, ResumeDrops, ResumeEnds
<1> DEFINE Fine == /\ NotHollow' /\ tree' \subseteq tree /\ tombs' \subseteq tombs
                   /\ job'.op \in {"none", "remove", "list", "resume"} /\ WipeKnows'
<1> SUFFICES Fine
  <2> SUFFICES ASSUME Fine PROVE Tidy'
    OBVIOUS
  <2>1. Sound' \subseteq Sound
    BY <1>1 DEF Sound
  <2>2. SweepKnows' /\ DeletionsKnow'
    BY <1>1, <2>1, Shrinks
  <2>3. ApplyStored' /\ ApplyApart'
    BY DEF ApplyStored, ApplyApart
  <2> QED BY <1>0, <1>1, <2>2, <2>3, TidyQueued
<1>2. CASE DropKey
  <2>0. job'.op = job.op /\ job'.pc \in {"drop", "forget"}
    BY <1>0, <1>2, DropsOneKey
  <2>1. UNCHANGED <<listed, tree, tombs, pending>> /\ job.pc = "drop"
    BY <1>2 DEF DropKey
  <2>2. ~listed /\ pending.account
    BY <1>0, <2>1 DEF WipeKnows
  <2> QED BY <1>0, <2>0, <2>1, <2>2 DEF NotHollow, WipeKnows
<1>3. CASE RemoveUnlists
  <2>0. /\ UNCHANGED <<tree, tombs, pending>> /\ listed' = FALSE /\ job.pc = "unlist"
        /\ Loop("drop", KeysOf(tree), "forget") /\ "drop" \in Places /\ "forget" \in Places
    BY <1>3 DEF RemoveUnlists, At, Places
  <2>1. KeysOf(tree) \in SUBSET KeysOf(Ids)
    BY <1>0, KeysOfTypes DEF StoreOK
  <2>2. job'.op = job.op /\ job'.pc \in {"drop", "forget"}
    BY <1>0, <2>0, <2>1, Loops
  <2>3. pending.account
    BY <1>0, <2>0 DEF WipeKnows
  <2> QED BY <1>0, <2>0, <2>2, <2>3 DEF NotHollow, WipeKnows
<1>4. CASE WipeTree
  <2>0. tree' = {} /\ UNCHANGED tombs /\ Go("wiped") /\ "wiped" \in Places
    BY <1>4 DEF WipeTree, Places
  <2>1. job'.op = job.op /\ job'.pc = "wiped"
    BY <1>0, <2>0, Goes
  <2>2. Sound' = {}
    BY <2>0 DEF Sound
  <2>3. Whole'
    BY <2>2, KeysOfParts DEF Whole
  <2> QED BY <1>0, <2>0, <2>1, <2>2, <2>3 DEF NotHollow, WipeKnows
<1>5. CASE WipeTombs
  <2> DEFINE place == IF job.op = "resume" THEN "ids" ELSE "unmark"
  <2>0. UNCHANGED tree /\ tombs' = {} /\ job.pc = "wiped" /\ Go(place) /\ place \in Places
    BY <1>5 DEF WipeTombs, Places
  <2>1. place \in {"ids", "unmark"}
    OBVIOUS
  <2> HIDE DEF place
  <2>2. job'.op = job.op /\ job'.pc = place
    BY <1>0, <2>0, Goes
  <2>3. Sound' = {}
    BY <1>0, <1>1, <2>0 DEF WipeKnows, Sound
  <2>4. Whole'
    BY <2>3, KeysOfParts DEF Whole
  <2> QED BY <1>0, <2>0, <2>1, <2>2, <2>3, <2>4 DEF NotHollow, WipeKnows
<1>6. CASE Unmarks
  <2>0. UNCHANGED <<tree, tombs, chest>> /\ job.pc = "unmark"
    BY <1>6 DEF Unmarks
  <2>1. Whole'
    BY <1>0, <1>1, <2>0 DEF WipeKnows, Whole, Sound
  <2>2. job' = NoJob \/ (job'.op = "list" /\ job'.pc = "list")
    <3>1. CASE job.op = "list"
      <4>1. Go("list") /\ "list" \in Places
        BY <1>6, <3>1 DEF Unmarks, Places
      <4> QED BY <1>0, <3>1, <4>1, Goes
    <3>2. CASE job.op # "list"
      BY <1>6, <3>2 DEF Unmarks
    <3> QED BY <3>1, <3>2
  <2> QED BY <1>0, <2>0, <2>1, <2>2, NoJobIs DEF NotHollow, WipeKnows
<1>7. CASE Lists
  <2>0. UNCHANGED <<tree, tombs, chest>> /\ job.pc = "list" /\ job' = NoJob
    BY <1>7 DEF Lists, At
  <2>1. Whole'
    BY <1>0, <1>1, <2>0 DEF WipeKnows, Whole, Sound
  <2> QED BY <1>0, <2>0, <2>1, NoJobIs DEF NotHollow, WipeKnows
<1>8. CASE ResumeDrops
  <2>0. /\ UNCHANGED <<listed, tree, tombs, pending, job>> /\ job.pc = "ids" /\ ResumeKeys # {}
        /\ chest' = chest \ {NextKey(ResumeKeys)}
    BY <1>8 DEF ResumeDrops, At
  <2>1. ResumeKeys \in SUBSET KeysOf(Ids) /\ ResumeKeys \cap KeysOf(tree) = {}
    BY <1>0, KeysOfParts DEF ResumeKeys, StoreOK
  <2>2. NextKey(ResumeKeys) \in ResumeKeys
    BY <2>0, <2>1, NextKeyIsOne
  <2>3. KeysOf(Sound) \subseteq KeysOf(tree)
    BY KeysOfParts DEF Sound
  <2>4. Sound' = Sound
    BY <1>1, <2>0 DEF Sound
  <2>5. Whole'
    BY <1>0, <2>0, <2>1, <2>2, <2>3, <2>4 DEF WipeKnows, Whole
  <2> QED BY <1>0, <2>0, <2>5 DEF NotHollow, WipeKnows
<1>9. CASE ResumeEnds
  <2>0. UNCHANGED <<tree, tombs, chest>> /\ job.pc = "ids" /\ job' = NoJob
    BY <1>9 DEF ResumeEnds, At
  <2>1. Whole'
    BY <1>0, <1>1, <2>0 DEF WipeKnows, Whole, Sound
  <2> QED BY <1>0, <2>0, <2>1, NoJobIs DEF NotHollow, WipeKnows
<1> QED BY <1>2, <1>3, <1>4, <1>5, <1>6, <1>7, <1>8, <1>9

\* Off the queue. What such a step puts back is crossed, and the keys it takes are nobody's the queue
\* answers for: what the job and the store know still holds.
OutsideQueue ==
  /\ UNCHANGED <<listed, pending, job, minted>>
  /\ crossed \subseteq crossed' /\ tree' \subseteq tree \cup crossed'
  /\ \A k \in chest \ chest' :
       /\ k \notin KeysOf(Sound)
       /\ job.op = "apply" => k \notin KeysOf(Coming)
       /\ CreateEarly => k \notin KeysOf(job.ids)

LEMMA OffQueue ==
  ASSUME Shape, Tidy, OutsideQueue
  PROVE  /\ NotHollow' /\ CreateStored' /\ ApplyStored' /\ WipeKnows'
         /\ Sound' \subseteq Sound /\ KeysOf(Sound') \subseteq KeysOf(Sound)
         /\ Coming' \subseteq Coming /\ KeysOf(Coming') \subseteq KeysOf(Coming)
<1>1. Sound' \subseteq Sound /\ Coming' \subseteq Coming
  BY DEF OutsideQueue, Sound, Coming, Arriving
<1>2. KeysOf(Sound') \subseteq KeysOf(Sound) /\ KeysOf(Coming') \subseteq KeysOf(Coming)
  BY <1>1 DEF KeysOf
<1>3. Whole => Whole'
  BY <1>2 DEF Whole, OutsideQueue
<1>4. NotHollow'
  BY <1>3 DEF Tidy, NotHollow, OutsideQueue
<1>5. WipeKnows'
  BY <1>1, <1>3 DEF Tidy, WipeKnows, OutsideQueue
<1>6. ApplyStored'
  BY <1>2 DEF Tidy, ApplyStored, OutsideQueue
<1>7. CreateStored'
  BY DEF Tidy, CreateStored, CreateEarly, OutsideQueue
<1> QED BY <1>1, <1>2, <1>4, <1>5, <1>6, <1>7

\* A deletion goes on with what it read, or ends.
Continues == \A d \in Deleters : Idle(d)' \/ (~Idle(d) /\ Touched(d)' \subseteq Touched(d) /\ deletion'[d].id = deletion[d].id)

LEMMA ContinuesApart ==
  ASSUME Shape, Tidy, OutsideQueue, Continues, sweep' \subseteq sweep, tombs' \subseteq tombs,
         tree' \subseteq tree \/ \E d \in Deleters : ~Idle(d) /\ tree' \subseteq Touched(d)
  PROVE  Minted' /\ CreateApart' /\ ApplyApart'
<1>0. Minted /\ CreateApart /\ ApplyApart /\ UNCHANGED <<job, minted>> /\ KeysOf(Coming') \subseteq KeysOf(Coming) /\ Coming' \subseteq Coming
  BY OffQueue DEF Tidy, OutsideQueue
<1>1. tree' \subseteq minted
  BY <1>0 DEF Minted
<1>2. CreateEarly => job.ids \cap tree' = {}
  BY <1>0 DEF CreateApart
<1>3. Minted'
  BY <1>0, <1>1 DEF Minted, Continues
<1>4. CreateApart'
  BY <1>0, <1>2 DEF CreateApart, CreateEarly, Continues
<1>5. ApplyApart'
  BY <1>0 DEF ApplyApart, Continues
<1> QED BY <1>3, <1>4, <1>5

LEMMA TidyTombstone == ASSUME Shape, Tidy, NEW d \in Deleters, NEW id \in Ids, DeleteTombstone(d, id) PROVE Tidy'
<1>0. Minted /\ SweepKnows /\ DeletionsKnow /\ CreateApart /\ ApplyApart
  BY DEF Tidy
<1>1. /\ UNCHANGED <<listed, tree, chest, pending, job, sweep, minted>> /\ tombs' = tombs \cup {id} /\ id \in tree
      /\ crossed' = crossed \cup ({id} \cap Arriving)
  BY DEF DeleteTombstone
<1>2. /\ \A e \in Deleters : e # d => deletion'[e] = deletion[e]
      /\ deletion'[d].pc = "nodes" /\ deletion'[d].id = id /\ deletion'[d].nodes = tree
  BY DeletionBegins
<1>3. OutsideQueue
  BY <1>1 DEF OutsideQueue
<1>4. /\ NotHollow' /\ CreateStored' /\ ApplyStored' /\ WipeKnows' /\ Sound' \subseteq Sound
      /\ KeysOf(Sound') \subseteq KeysOf(Sound) /\ KeysOf(Coming') \subseteq KeysOf(Coming) /\ Coming' \subseteq Coming
  BY <1>3, OffQueue
<1>5. SweepKnows'
  BY <1>0, <1>1, <1>4 DEF SweepKnows
<1>6. DeletionsKnow'
  BY <1>0, <1>2, <1>4 DEF DeletionsKnow, DeletionKnows
<1>7. Touched(d)' \subseteq tree /\ \A e \in Deleters : e # d => Touched(e)' = Touched(e) /\ Idle(e)' = Idle(e)
  BY <1>1, <1>2 DEF Touched, Idle
<1>8. Minted'
  BY <1>0, <1>1, <1>7 DEF Minted
<1>9. CreateApart'
  BY <1>0, <1>1, <1>7 DEF CreateApart, CreateEarly
<1>10. ApplyApart'
  <2>1. id \notin Coming'
    BY <1>1 DEF Coming, Arriving
  <2> QED BY <1>0, <1>1, <1>2, <1>4, <2>1 DEF ApplyApart, Idle
<1> QED BY <1>4, <1>5, <1>6, <1>8, <1>9, <1>10 DEF Tidy

LEMMA TidyNode == ASSUME Shape, Tidy, NEW d \in Deleters, DeleteNode(d) PROVE Tidy'
<1>1. /\ UNCHANGED <<listed, chest, tombs, pending, job, sweep, minted>> /\ deletion[d].pc = "nodes"
      /\ tree' = deletion[d].nodes \ {deletion[d].id} /\ crossed' = crossed \cup (tree' \ tree)
  BY DEF DeleteNode
<1>2. /\ \A e \in Deleters : e # d => deletion'[e] = deletion[e]
      /\ deletion'[d].pc = "keys" /\ deletion'[d].id = deletion[d].id /\ deletion'[d].nodes = {}
  BY DeletesTheNode
<1>3. OutsideQueue
  BY <1>1 DEF OutsideQueue
<1>4. /\ NotHollow' /\ CreateStored' /\ ApplyStored' /\ WipeKnows' /\ Sound' \subseteq Sound
      /\ KeysOf(Sound') \subseteq KeysOf(Sound)
  BY <1>3, OffQueue
<1>5. SweepKnows'
  BY <1>1, <1>4 DEF Tidy, SweepKnows
<1>6. DeletionsKnow'
  <2>1. deletion[d].id \notin Sound'
    BY <1>1 DEF Sound
  <2> QED BY <1>2, <1>4, <2>1 DEF Tidy, DeletionsKnow, DeletionKnows
<1>7. Continues
  BY <1>1, <1>2 DEF Continues, Idle, Touched
<1>8. ~Idle(d) /\ tree' \subseteq Touched(d)
  BY <1>1 DEF Idle, Touched
<1>9. Minted' /\ CreateApart' /\ ApplyApart'
  BY <1>1, <1>3, <1>7, <1>8, ContinuesApart
<1> QED BY <1>4, <1>5, <1>6, <1>9 DEF Tidy

LEMMA TidyKey == ASSUME Shape, Tidy, NEW d \in Deleters, DeleteKey(d) PROVE Tidy'
<1>1. UNCHANGED <<listed, tree, tombs, pending, job, sweep, minted, crossed>> /\ deletion[d].pc = "keys"
  BY DEF DeleteKey
<1>2. PICK k \in deletion[d].keys :
        /\ chest' = chest \ {k}
        /\ \A e \in Deleters : e # d => deletion'[e] = deletion[e]
        /\ \/ deletion'[d].pc = "idle"
           \/ deletion'[d].pc = "keys" /\ deletion'[d].id = deletion[d].id /\ deletion'[d].nodes = deletion[d].nodes
  BY DeletesOneKey
<1>3. ~Idle(d) /\ k \in KeysOf({deletion[d].id}) /\ deletion[d].id \notin Sound
  BY <1>1 DEF Shape, DeletionsOK, Idle, Tidy, DeletionsKnow, DeletionKnows
<1>4. OutsideQueue
  <2>1. k \notin KeysOf(Sound)
    BY <1>3, KeysOfParts
  <2>2. job.op = "apply" => k \notin KeysOf(Coming)
    <3>1. job.op = "apply" => deletion[d].id \notin Coming
      BY <1>3 DEF Tidy, ApplyApart
    <3> QED BY <1>3, <3>1, KeysOfParts
  <2>3. CreateEarly => k \notin KeysOf(job.ids)
    <3>1. CreateEarly => deletion[d].id \notin job.ids
      BY <1>3 DEF Tidy, CreateApart, Touched
    <3> QED BY <1>3, <3>1, KeysOfParts
  <2> QED BY <1>1, <1>2, <2>1, <2>2, <2>3 DEF OutsideQueue
<1>5. NotHollow' /\ CreateStored' /\ ApplyStored' /\ WipeKnows'
  BY <1>4, OffQueue
<1>6. Sound' = Sound
  BY <1>1 DEF Sound
<1>7. SweepKnows'
  BY <1>1, <1>6 DEF Tidy, SweepKnows
<1>8. DeletionsKnow'
  BY <1>1, <1>2, <1>6 DEF Tidy, DeletionsKnow, DeletionKnows
<1>9. Continues
  BY <1>2, <1>3 DEF Continues, Idle, Touched
<1>10. Minted' /\ CreateApart' /\ ApplyApart'
  BY <1>1, <1>4, <1>9, ContinuesApart
<1> QED BY <1>5, <1>7, <1>8, <1>10 DEF Tidy

LEMMA TidySweeps == ASSUME Shape, Tidy, SweepStarts \/ SweepKey PROVE Tidy'
<1>0. Minted /\ SweepKnows /\ DeletionsKnow /\ CreateApart /\ ApplyApart
  BY DEF Tidy
<1>1. UNCHANGED <<listed, tree, tombs, pending, job, deletion, minted>>
  BY DEF SweepStarts, SweepKey
<1>2. CASE SweepStarts
  <2>0. /\ UNCHANGED chest /\ sweep' = KeysOf(OrphanCandidates)
        /\ crossed' = crossed \cup (OrphanCandidates \cap Arriving)
        /\ OrphanCandidates \cap tree = {} /\ OrphanCandidates \subseteq tombs
    BY <1>2 DEF SweepStarts, OrphanCandidates
  <2>1. OutsideQueue
    BY <1>1, <2>0 DEF OutsideQueue
  <2>2. /\ NotHollow' /\ CreateStored' /\ ApplyStored' /\ WipeKnows' /\ Sound' \subseteq Sound /\ Coming' \subseteq Coming
    BY <2>1, OffQueue
  <2>3. SweepKnows'
    <3>1. OrphanCandidates \cap Sound' = {}
      BY <1>1, <2>0 DEF Sound
    <3> QED BY <2>0, <3>1, KeysOfParts DEF SweepKnows
  <2>4. DeletionsKnow'
    BY <1>0, <1>1, <2>2 DEF DeletionsKnow, DeletionKnows
  <2>5. Minted'
    <3>1. KeysOf(OrphanCandidates) \subseteq KeysOf(minted)
      BY <1>0, <2>0, KeysOfParts DEF Minted
    <3> QED BY <1>0, <1>1, <2>0, <3>1 DEF Minted, Idle, Touched
  <2>6. CreateApart'
    <3>1. CreateEarly => KeysOf(job.ids) \cap KeysOf(OrphanCandidates) = {}
      <4>1. CreateEarly => job.ids \cap OrphanCandidates = {}
        BY <1>0, <2>0 DEF CreateApart
      <4> QED BY <4>1, KeysOfParts
    <3> QED BY <1>0, <1>1, <2>0, <3>1 DEF CreateApart, CreateEarly, Idle, Touched
  <2>7. ApplyApart'
    <3>1. OrphanCandidates \cap Coming' = {}
      BY <1>1, <2>0 DEF Coming, Arriving
    <3>2. KeysOf(Coming') \cap sweep' = {}
      BY <2>0, <3>1, KeysOfParts
    <3> QED BY <1>0, <1>1, <2>2, <3>2 DEF ApplyApart, Idle
  <2> QED BY <2>2, <2>3, <2>4, <2>5, <2>6, <2>7 DEF Tidy
<1>3. CASE SweepKey
  <2>0. PICK k \in sweep : chest' = chest \ {k} /\ sweep' = sweep \ {k}
    BY <1>3, SweepsOneKey
  <2>1. UNCHANGED crossed
    BY <1>3 DEF SweepKey
  <2>2. OutsideQueue
    BY <1>0, <1>1, <2>0, <2>1 DEF OutsideQueue, SweepKnows, ApplyApart, CreateApart
  <2>3. NotHollow' /\ CreateStored' /\ ApplyStored' /\ WipeKnows'
    BY <2>2, OffQueue
  <2>4. Sound' = Sound
    BY <1>1, <2>1 DEF Sound
  <2>5. SweepKnows' /\ DeletionsKnow'
    BY <1>0, <1>1, <2>0, <2>4 DEF SweepKnows, DeletionsKnow, DeletionKnows
  <2>6. Continues
    BY <1>1 DEF Continues, Idle, Touched
  <2>7. Minted' /\ CreateApart' /\ ApplyApart'
    BY <1>1, <2>0, <2>2, <2>6, ContinuesApart
  <2> QED BY <2>3, <2>5, <2>7 DEF Tidy
<1> QED BY <1>2, <1>3

LEMMA TidyStops ==
  ASSUME Shape, Tidy, JobThrows \/ Killed \/ (\E d \in Deleters : DeletionThrows(d)) \/ UNCHANGED cleanup
  PROVE  Tidy'
<1>1. CASE JobThrows
  BY <1>1, TidyEnds DEF JobThrows
<1>2. CASE Killed
  <2>0. UNCHANGED <<listed, tree, chest, tombs, pending, minted, crossed>> /\ job'.op = "none" /\ sweep' = {}
    BY <1>2, NoJobIs DEF Killed, store
  <2>1. \A d \in Deleters : deletion'[d].pc = "idle"
    BY <1>2, NoDeletionIs DEF Killed
  <2>2. Sound' = Sound
    BY <2>0 DEF Sound
  <2>3. NotHollow' /\ SweepKnows' /\ Minted' /\ DeletionsKnow'
    BY <2>0, <2>1, <2>2 DEF Tidy, NotHollow, Whole, SweepKnows, Minted, DeletionsKnow, DeletionKnows, Idle
  <2> QED BY <2>0, <2>3 DEF Tidy, CreateStored, CreateApart, CreateEarly, ApplyStored, ApplyApart, WipeKnows
<1>3. CASE (\E d \in Deleters : DeletionThrows(d)) \/ UNCHANGED cleanup
  <2>0. UNCHANGED <<listed, tree, chest, tombs, pending, minted, crossed, job, sweep>>
    BY <1>3 DEF DeletionThrows, store, cleanup
  <2>1. \A e \in Deleters : deletion'[e] = deletion[e] \/ deletion'[e].pc = "idle"
    BY <1>3, DeletionStops DEF DeletionThrows, cleanup
  <2>2. OutsideQueue
    BY <2>0 DEF OutsideQueue
  <2>3. NotHollow' /\ CreateStored' /\ ApplyStored' /\ WipeKnows'
    BY <2>2, OffQueue
  <2>4. Sound' = Sound
    BY <2>0 DEF Sound
  <2>5. SweepKnows' /\ DeletionsKnow'
    BY <2>0, <2>1, <2>4 DEF Tidy, SweepKnows, DeletionsKnow, DeletionKnows
  <2>6. Continues
    BY <2>1 DEF Continues, Idle, Touched
  <2>7. Minted' /\ CreateApart' /\ ApplyApart'
    BY <2>0, <2>2, <2>6, ContinuesApart
  <2> QED BY <2>3, <2>5, <2>7 DEF Tidy
<1> QED BY <1>1, <1>2, <1>3

LEMMA TidyNext == ASSUME Shape, Tidy, CleanupNext PROVE Tidy'
<1>0. JobOK
  BY DEF Shape
<1>1. CASE JobStep
  <2>1. job.op # "none"
    BY <1>0, <1>1, Whereabouts DEF JobStep, At, StoreKey, CreateNode, CreateFinishes, ApplyMarks, ApplyNodes, DropKey,
         ApplyClears, ApplyTombs, RemoveUnlists, WipeTree, WipeTombs, Unmarks, Lists, ResumeDrops, ResumeEnds
  <2>2. job.op \in {"create", "apply", "remove", "list", "resume"}
    BY <1>0, <2>1 DEF JobOK, Jobs, Ops
  <2>3. CASE job.op = "create"
    <3>1. StoreKey \/ CreateNode \/ CreateFinishes \/ DropKey
      BY <1>0, <1>1, <2>3, Whereabouts DEF JobStep, At, ApplyMarks, ApplyNodes, ApplyClears, ApplyTombs,
         RemoveUnlists, WipeTree, WipeTombs, Unmarks, Lists, ResumeDrops, ResumeEnds
    <3> QED BY <2>3, <3>1, TidyCreates
  <2>4. CASE job.op = "apply"
    <3>1. StoreKey \/ ApplyMarks \/ ApplyNodes \/ DropKey \/ ApplyClears \/ ApplyTombs
      BY <1>0, <1>1, <2>4, Whereabouts DEF JobStep, At, CreateNode, CreateFinishes,
         RemoveUnlists, WipeTree, WipeTombs, Unmarks, Lists, ResumeDrops, ResumeEnds
    <3> QED BY <2>4, <3>1, TidyApplies
  <2>5. CASE job.op \in {"remove", "list", "resume"}
    <3>1. DropKey \/ RemoveUnlists \/ WipeTree \/ WipeTombs \/ Unmarks \/ Lists \/ ResumeDrops \/ ResumeEnds
      BY <1>0, <1>1, <2>5, Whereabouts DEF JobStep, At, StoreKey, CreateNode, CreateFinishes, ApplyMarks, ApplyNodes,
         ApplyClears, ApplyTombs
    <3> QED BY <2>5, <3>1, TidyWipes
  <2> QED BY <2>2, <2>3, <2>4, <2>5
<1>2. CASE CreateThrows \/ CreateLandedAndThrows
  BY <1>2, TidyCreates DEF CreateThrows, CreateLandedAndThrows, At
<1>3. CASE Fault /\ ~(CreateThrows \/ CreateLandedAndThrows)
  BY <1>3, TidyStops DEF Fault
<1>4. CASE Killed \/ UNCHANGED cleanup
  BY <1>4, TidyStops
<1>5. CASE DeletionStep \/ \E d \in Deleters, id \in Ids : DeleteTombstone(d, id)
  BY <1>5, TidyTombstone, TidyNode, TidyKey DEF DeletionStep
<1> QED BY <1>1, <1>2, <1>3, <1>4, <1>5, TidyAsked, TidySweeps DEF CleanupNext, Unasked

\* The write order holds for any keychain keys per entry, any entries, any number of deletions, of
\* killed windows and of refused writes, whatever runs beside whatever: no listed account shows an
\* entry whose secrets are not all there, save for those that work off the queue crossed.
THEOREM NoneIsHollow == Spec => []NoHollowEntry
<1>1. Init => Shape /\ Tidy
  BY ShapeInit, TidyInit DEF Init
<1>2. Shape /\ Tidy /\ [Next]_vars => (Shape /\ Tidy)'
  BY NextCleans, ShapeNext, TidyNext
<1>3. Shape /\ Tidy => NoHollowEntry
  BY DEF Tidy, NotHollow, Whole, Sound, NoHollowEntry
<1> QED BY <1>1, <1>2, <1>3, PTL DEF Spec
=============================================================================
