--------------------------- MODULE SecretCleanup ---------------------------
(***************************************************************************)
(* One account of one window: its tree of entries in globalState and their *)
(* keys in the OS keychain, which no write can change together.            *)
(* storageManager.ts creates, replaces and removes them in orders that     *)
(* leave a window killed at any await with something a later sweep can     *)
(* finish: entityWrite.ts, pendingCleanup.ts, orphanSweep.ts,              *)
(* ephemeralSweeper.ts.                                                    *)
(*                                                                         *)
(* A key holds something or nothing; an entry claims every key its id      *)
(* owns. One job at a time runs on the write queue; deletions and the      *)
(* orphan sweep are not on it, and run beside it and beside each other. An *)
(* await separates every two steps.                                        *)
(***************************************************************************)
EXTENDS Naturals, FiniteSets

CONSTANTS Ids,        \* entries
          Slots,      \* the keychain keys of one entry, in the order they are written and deleted
          Deleters,   \* who deletes: a person, the expiry clock, the burns of one-use entries
          MaxFaults   \* bound: killed windows and refused writes

ASSUME SlotsAssumption == Slots \subseteq Nat /\ IsFiniteSet(Slots) /\ Slots # {}
ASSUME FaultsAssumption == MaxFaults \in Nat

VARIABLES listed,   \* whether ACCOUNTS_KEY lists the account
          tree,     \* ids of the stored nodes
          chest,    \* keychain keys that hold something
          tombs,    \* tombstoned ids
          pending,  \* PENDING_KEY: a removal under way, ids whose secrets are to go
          job,      \* the work on the write queue
          deletion, \* deleter -> its deleteNodeRecursive under way
          sweep,    \* keys sweepOrphanSecrets has still to delete
          minted,   \* history: ids ever used
          crossed,  \* history: ids that work off the queue put back, or deleted while they arrived
          faults    \* bounded counter

store == <<listed, tree, chest, tombs, pending, minted, crossed>>
cleanup == <<listed, tree, chest, tombs, pending, job, deletion, sweep, minted, crossed, faults>>

KeysOf(ids) == ids \X Slots
Bundles == [nodes : SUBSET Ids, tombs : SUBSET Ids]
NoJob == [op |-> "none", pc |-> "idle", ids |-> {}, keys |-> {}, bundle |-> [nodes |-> {}, tombs |-> {}]]
NoDeletion == [pc |-> "idle", id |-> CHOOSE id \in Ids : TRUE, nodes |-> {}, keys |-> {}]

\* The loops over keys: the order is fixed.
NextKey(keys) == CHOOSE k \in keys : \A other \in keys : k[2] <= other[2]

At(op, pc) == job.op = op /\ job.pc = pc
Go(pc) == job' = [job EXCEPT !.pc = pc]
\* A loop over keys, skipped when there are none.
Loop(pc, keys, after) == job' = [job EXCEPT !.pc = IF keys = {} THEN after ELSE pc, !.keys = keys]
QueueFree == job = NoJob

\* The ids an apply has still to bring.
Arriving == IF job.pc \in {"store", "mark", "nodes"} THEN job.bundle.nodes ELSE {}

\* The ids whose keys work off the queue is deleting or about to.
BeingDeleted ==
  {deletion[d].id : d \in {e \in Deleters : deletion[e].pc # "idle"}} \cup {k[1] : k \in sweep}

-----------------------------------------------------------------------------
(* Creating an entry: createEntityWithSecrets.                             *)

\* deferCleanup, before the first secret; the id is a new uuid.
CreateDefers(id) ==
  /\ QueueFree
  /\ id \notin minted
  /\ pending' = [pending EXCEPT !.ids = @ \cup {id}]
  /\ minted' = minted \cup {id}
  /\ job' = [NoJob EXCEPT !.op = "create", !.pc = "store", !.ids = {id}, !.keys = KeysOf({id})]
  /\ UNCHANGED <<listed, tree, chest, tombs, deletion, sweep, crossed, faults>>

\* writeSecrets of a create, storeSecretMaps of an apply: one key.
StoreKey ==
  /\ job.pc = "store"
  /\ \E k \in {NextKey(job.keys)} :
       /\ chest' = chest \cup {k}
       /\ Loop("store", job.keys \ {k}, IF job.op = "create" THEN "node" ELSE "mark")
  /\ UNCHANGED <<listed, tree, tombs, pending, deletion, sweep, minted, crossed, faults>>

\* addNode: a new id has no tombstone to forget.
CreateNode ==
  /\ At("create", "node")
  /\ tree' = tree \cup job.ids
  /\ Go("finish")
  /\ UNCHANGED <<listed, chest, tombs, pending, deletion, sweep, minted, crossed, faults>>

\* finishCleanup: endSecretCleanup.
CreateFinishes ==
  /\ At("create", "finish")
  /\ pending' = [pending EXCEPT !.ids = @ \ job.ids]
  /\ job' = NoJob
  /\ UNCHANGED <<listed, tree, chest, tombs, deletion, sweep, minted, crossed, faults>>

\* A write of the create threw. nodePresence: absent, and undoSecrets runs; or the sealed tree could
\* not be read, and the record stays.
CreateThrows ==
  /\ faults < MaxFaults
  /\ job.op = "create"
  /\ job.pc \in {"store", "node"}
  /\ \/ job' = [job EXCEPT !.pc = "drop", !.keys = KeysOf(job.ids)]
     \/ job' = NoJob
  /\ faults' = faults + 1
  /\ UNCHANGED <<store, deletion, sweep>>

\* writeNode threw after the node was stored: EntryLandedError, and nothing is undone.
CreateLandedAndThrows ==
  /\ faults < MaxFaults
  /\ At("create", "node")
  /\ tree' = tree \cup job.ids
  /\ job' = NoJob
  /\ faults' = faults + 1
  /\ UNCHANGED <<listed, chest, tombs, pending, deletion, sweep, minted, crossed>>

-----------------------------------------------------------------------------
(* Replacing the tree: applyBundle, of a sync or of a restored backup.     *)

\* The ids the old tree holds are read before anything is written. Nothing asks whether the account
\* is still listed.
ApplyStarts(b) ==
  /\ QueueFree
  /\ b.nodes \cap b.tombs = {}
  /\ minted' = minted \cup b.nodes \cup b.tombs
  /\ job' = [op |-> "apply", pc |-> IF b.nodes = {} THEN "mark" ELSE "store", ids |-> tree,
             keys |-> KeysOf(b.nodes), bundle |-> b]
  /\ crossed' = crossed \cup (b.nodes \cap BeingDeleted)
  /\ UNCHANGED <<listed, tree, chest, tombs, pending, deletion, sweep, faults>>

\* clearSecretsPending, then markSecretsPending of the ids this bundle drops: one write.
ApplyMarks ==
  /\ At("apply", "mark")
  /\ pending' = [pending EXCEPT !.ids = job.ids \ job.bundle.nodes]
  /\ Go("nodes")
  /\ UNCHANGED <<listed, tree, chest, tombs, deletion, sweep, minted, crossed, faults>>

ApplyNodes ==
  /\ At("apply", "nodes")
  /\ tree' = job.bundle.nodes
  /\ Loop("drop", KeysOf(job.ids \ job.bundle.nodes), "clear")
  /\ UNCHANGED <<listed, chest, tombs, pending, deletion, sweep, minted, crossed, faults>>

\* dropVanishedSecrets and forgetHeld, undoSecrets, forgetEntitySecrets: one key.
DropKey ==
  /\ job.pc = "drop"
  /\ \E k \in {NextKey(job.keys)} :
       /\ chest' = chest \ {k}
       /\ IF job.op = "create" /\ job.keys = {k} THEN job' = NoJob
          ELSE Loop("drop", job.keys \ {k}, IF job.op = "apply" THEN "clear" ELSE "forget")
  /\ UNCHANGED <<listed, tree, tombs, pending, deletion, sweep, minted, crossed, faults>>

ApplyClears ==
  /\ At("apply", "clear")
  /\ pending' = [pending EXCEPT !.ids = {}]
  /\ Go("tombs")
  /\ UNCHANGED <<listed, tree, chest, tombs, deletion, sweep, minted, crossed, faults>>

ApplyTombs ==
  /\ At("apply", "tombs")
  /\ tombs' = job.bundle.tombs
  /\ job' = NoJob
  /\ UNCHANGED <<listed, tree, chest, pending, deletion, sweep, minted, crossed, faults>>

-----------------------------------------------------------------------------
(* Removing the account, listing it again, and finishing what was left.    *)

\* removeWithIntent: mark, unlist, wipe, unmark.
RemoveMarks ==
  /\ QueueFree
  /\ listed
  /\ pending' = [pending EXCEPT !.account = TRUE]
  /\ job' = [NoJob EXCEPT !.op = "remove", !.pc = "unlist"]
  /\ UNCHANGED <<listed, tree, chest, tombs, deletion, sweep, minted, crossed, faults>>

RemoveUnlists ==
  /\ At("remove", "unlist")
  /\ listed' = FALSE
  /\ Loop("drop", KeysOf(tree), "forget")
  /\ UNCHANGED <<tree, chest, tombs, pending, deletion, sweep, minted, crossed, faults>>

\* wipeAccountData, after the secrets: the tree, and everything keyed beside it.
WipeTree ==
  /\ job.pc = "forget"
  /\ tree' = {}
  /\ Go("wiped")
  /\ UNCHANGED <<listed, chest, tombs, pending, deletion, sweep, minted, crossed, faults>>

WipeTombs ==
  /\ job.pc = "wiped"
  /\ tombs' = {}
  /\ Go(IF job.op = "resume" THEN "ids" ELSE "unmark")
  /\ UNCHANGED <<listed, tree, chest, pending, deletion, sweep, minted, crossed, faults>>

Unmarks ==
  /\ job.pc = "unmark"
  /\ pending' = [pending EXCEPT !.account = FALSE]
  /\ IF job.op = "list" THEN Go("list") ELSE job' = NoJob
  /\ UNCHANGED <<listed, tree, chest, tombs, deletion, sweep, minted, crossed, faults>>

\* A slip FinishBeforeReuse must not make: the wreckage of the removal is taken for the profile.
ForgetIntentBeforeReuse == job' = [NoJob EXCEPT !.op = "list", !.pc = "unmark"]

\* finishBeforeReuse: an abandoned intent is forgotten, an interrupted removal is finished.
FinishBeforeReuse ==
  IF listed THEN job' = [NoJob EXCEPT !.op = "list", !.pc = "unmark"]
  ELSE job' = [NoJob EXCEPT !.op = "list", !.pc = IF tree = {} THEN "forget" ELSE "drop",
                            !.keys = KeysOf(tree)]

\* upsertAccount, on every sign-in.
ListStarts ==
  /\ QueueFree
  /\ IF pending.account THEN FinishBeforeReuse
     ELSE job' = [NoJob EXCEPT !.op = "list", !.pc = "list"]
  /\ UNCHANGED <<store, deletion, sweep, faults>>

Lists ==
  /\ At("list", "list")
  /\ listed' = TRUE
  /\ job' = NoJob
  /\ UNCHANGED <<tree, chest, tombs, pending, deletion, sweep, minted, crossed, faults>>

\* Which marked account a resume wipes.
ToResume == pending.account /\ ~listed

\* A slip Resumable must not make: it looks among the listed accounts for what is left to finish.
ResumableIfListed == listed /\ (pending.account \/ pending.ids # {})

\* The record names something to finish; an empty one makes the sweep a stutter.
Resumable == pending.account \/ pending.ids # {}

\* resumePending, by the sweeper at start and on its timer.
ResumeStarts ==
  /\ QueueFree
  /\ Resumable
  /\ LET pc == IF ~ToResume THEN "ids" ELSE IF tree = {} THEN "forget" ELSE "drop"
     IN  job' = [NoJob EXCEPT !.op = "resume", !.pc = pc, !.ids = pending.ids,
                              !.keys = IF ToResume THEN KeysOf(tree) ELSE {}]
  /\ UNCHANGED <<store, deletion, sweep, faults>>

\* finishSecretDeletes: the keys of the recorded ids, asked against the tree before every key.
ResumeKeys == KeysOf(job.ids \ tree) \cap chest

ResumeDrops ==
  /\ At("resume", "ids")
  /\ ResumeKeys # {}
  /\ chest' = chest \ {NextKey(ResumeKeys)}
  /\ UNCHANGED <<listed, tree, tombs, pending, job, deletion, sweep, minted, crossed, faults>>

\* EMPTY_PENDING, whatever the record holds by now.
ResumeEnds ==
  /\ At("resume", "ids")
  /\ ResumeKeys = {}
  /\ pending' = [account |-> FALSE, ids |-> {}]
  /\ job' = NoJob
  /\ UNCHANGED <<listed, tree, chest, tombs, deletion, sweep, minted, crossed, faults>>

-----------------------------------------------------------------------------
(* Off the queue: deleteNodeRecursive and sweepOrphanSecrets.              *)

\* The tree is read and the tombstone stored. Nothing asks what else is under way.
DeleteTombstone(d, id) ==
  /\ deletion[d].pc = "idle"
  /\ id \in tree
  /\ tombs' = tombs \cup {id}
  /\ crossed' = crossed \cup ({id} \cap Arriving)
  /\ deletion' = [deletion EXCEPT ![d] = [pc |-> "nodes", id |-> id, nodes |-> tree, keys |-> KeysOf({id})]]
  /\ UNCHANGED <<listed, tree, chest, pending, job, sweep, minted, faults>>

\* The tree as it was read, less the entry: what was deleted since the read is back.
DeleteNode(d) ==
  /\ deletion[d].pc = "nodes"
  /\ tree' = deletion[d].nodes \ {deletion[d].id}
  /\ crossed' = crossed \cup (tree' \ tree)
  /\ deletion' = [deletion EXCEPT ![d].pc = "keys", ![d].nodes = {}]
  /\ UNCHANGED <<listed, chest, tombs, pending, job, sweep, minted, faults>>

DeleteKey(d) ==
  /\ deletion[d].pc = "keys"
  /\ \E k \in {NextKey(deletion[d].keys)} :
       /\ chest' = chest \ {k}
       /\ LET left == deletion[d].keys \ {k}
          IN  deletion' = [deletion EXCEPT ![d] = IF left = {} THEN NoDeletion ELSE [deletion[d] EXCEPT !.keys = left]]
  /\ UNCHANGED <<listed, tree, tombs, pending, job, sweep, minted, crossed, faults>>

\* An id both tombstoned and live is an interrupted deletion: never swept.
OrphanCandidates == tombs \ tree

\* sweepOrphanSecrets, for a listed account: the candidates are read once.
SweepStarts ==
  /\ sweep = {}
  /\ listed
  /\ KeysOf(OrphanCandidates) \cap chest # {}
  /\ sweep' = KeysOf(OrphanCandidates)
  /\ crossed' = crossed \cup (OrphanCandidates \cap Arriving)
  /\ UNCHANGED <<listed, tree, chest, tombs, pending, job, deletion, minted, faults>>

SweepKey ==
  /\ sweep # {}
  /\ \E k \in {NextKey(sweep)} :
       /\ chest' = chest \ {k}
       /\ sweep' = sweep \ {k}
  /\ UNCHANGED <<listed, tree, tombs, pending, job, deletion, minted, crossed, faults>>

-----------------------------------------------------------------------------
(* Faults.                                                                 *)

\* A write threw: the work ends where it is, and the queue goes on.
JobThrows ==
  /\ faults < MaxFaults
  /\ job # NoJob
  /\ job.op = "create" => job.pc \in {"finish", "drop"}
  /\ job' = NoJob
  /\ faults' = faults + 1
  /\ UNCHANGED <<store, deletion, sweep>>

DeletionThrows(d) ==
  /\ faults < MaxFaults
  /\ deletion[d].pc # "idle"
  /\ deletion' = [deletion EXCEPT ![d] = NoDeletion]
  /\ faults' = faults + 1
  /\ UNCHANGED <<store, job, sweep>>

\* The window is killed: whatever was under way stops where it is.
Killed ==
  /\ faults < MaxFaults
  /\ job' = NoJob
  /\ deletion' = [d \in Deleters |-> NoDeletion]
  /\ sweep' = {}
  /\ faults' = faults + 1
  /\ UNCHANGED store

-----------------------------------------------------------------------------
CleanupInit ==
  /\ listed = TRUE
  /\ tree \in SUBSET Ids
  /\ chest = KeysOf(tree)
  /\ tombs = {}
  /\ pending = [account |-> FALSE, ids |-> {}]
  /\ job = NoJob
  /\ deletion = [d \in Deleters |-> NoDeletion]
  /\ sweep = {}
  /\ minted = tree
  /\ crossed = {}
  /\ faults = 0

Asked ==
  \/ \E id \in Ids : CreateDefers(id)
  \/ \E b \in Bundles : ApplyStarts(b)
  \/ RemoveMarks
  \/ ListStarts

JobStep ==
  \/ StoreKey \/ CreateNode \/ CreateFinishes
  \/ ApplyMarks \/ ApplyNodes \/ DropKey \/ ApplyClears \/ ApplyTombs
  \/ RemoveUnlists \/ WipeTree \/ WipeTombs \/ Unmarks \/ Lists
  \/ ResumeDrops \/ ResumeEnds

DeletionStep == \E d \in Deleters : DeleteNode(d) \/ DeleteKey(d)

Fault ==
  \/ CreateThrows \/ CreateLandedAndThrows
  \/ JobThrows
  \/ \E d \in Deleters : DeletionThrows(d)

-----------------------------------------------------------------------------
(* Properties.                                                             *)

\* Every variable has its shape.
CleanupTypeOK ==
  /\ listed \in BOOLEAN
  /\ tree \subseteq Ids /\ tombs \subseteq Ids /\ minted \subseteq Ids /\ crossed \subseteq Ids
  /\ chest \subseteq KeysOf(Ids) /\ sweep \subseteq KeysOf(Ids)
  /\ pending \in [account : BOOLEAN, ids : SUBSET Ids]
  /\ job \in [op : {"none", "create", "apply", "remove", "list", "resume"}, pc : {"idle", "store", "node",
                "finish", "mark", "nodes", "drop", "clear", "tombs", "unlist", "forget", "wiped", "unmark",
                "list", "ids"},
              ids : SUBSET Ids, keys : SUBSET KeysOf(Ids), bundle : Bundles]
  /\ deletion \in [Deleters -> [pc : {"idle", "nodes", "keys"}, id : Ids, nodes : SUBSET Ids,
                                keys : SUBSET KeysOf(Ids)]]

\* The write-order invariant: no listed account shows an entry whose secrets are not all there,
\* wherever a window was killed or a write refused and whatever runs beside whatever; save for the
\* entries that work off the queue crossed: those a deletion's stale tree put back, and those whose
\* keys a deletion or the sweep was deleting while an apply brought them.
NoHollowEntry == listed => KeysOf(tree \ crossed) \subseteq chest

\* The invariant as the code states it, which "permits exactly ONE torn state: bytes in the keychain
\* that no node references". Two deletions that overlap break it.
OneTornState == listed => KeysOf(tree) \subseteq chest

\* A removal that began is finished, by a sweep or before the account is listed again: the tree of
\* an unlisted account that was marked does not stay, save for what a deletion put back.
RemovalFinishes == (pending.account /\ ~listed) ~> (~pending.account /\ tree \subseteq crossed)

\* An id whose secrets wait to be swept leaves the record only when its entry is there or arriving,
\* or its secrets are gone: a killed create leaves "an id the sweep can name" until a sweep names it.
RecordNeverForgets ==
  [][\A id \in pending.ids \ pending'.ids :
       \/ id \in tree' \cup job.bundle.nodes
       \/ KeysOf({id}) \cap chest' = {}]_cleanup
=============================================================================
