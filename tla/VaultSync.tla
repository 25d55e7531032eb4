----------------------------- MODULE VaultSync -----------------------------
(***************************************************************************)
(* One profile on several installations, each with its own store           *)
(* (storageManager.ts), synchronised through one vault by cycles of        *)
(* read, snapshot, merge, apply and write (syncManager.ts) over a vault    *)
(* server, a git repository or a folder (serverTransport.ts,               *)
(* gitTransport.ts, folderTransport.ts).                                   *)
(*                                                                         *)
(* A cycle awaits between its steps, so the person's writes, the other     *)
(* installations and the machine's own second cycle run in between.        *)
(* Version numbers, hashes and change tokens are only ever compared for    *)
(* "still the one I read": each is a flag that the next write lowers.      *)
(* Secrets, unlocking and the escrow riders are left out (Kinds is empty   *)
(* in the instances); a cycle that stops at one of them has changed        *)
(* nothing.                                                                *)
(***************************************************************************)
EXTENDS ProfileMerge

CONSTANTS Lanes,   \* the cycles one machine may have under way at once
          Setups   \* the situations and bounds of an instance, see setup

ASSUME SetupsAssumption ==
  \A s \in Setups :
    /\ s.transport \in {"server", "git", "folder"}
    /\ {s.interleave, s.clocks} \subseteq BOOLEAN
    /\ s.ids \subseteq Ids
    /\ {s.writes, s.faults, s.restores} \subseteq Nat
    /\ s.time \in Nat \ {0}

VARIABLES setup,     \* the situation of this behaviour: the transport; whether the person's writes may
                     \* fall inside the machine's own cycle (interleave); whether two machines never read
                     \* the same wall-clock time (clocks); and bounds: ids people add (ids), nodes added,
                     \* edited and deleted (writes), ticks of the clock (time), crashes and lost answers
                     \* (faults), backups restored (restores)
          local,     \* installation -> its stored profile
          seq,       \* installation -> DEVICE_SEQ_KEY
          deleting,  \* installation -> the deletion between its two writes
          cycle,     \* installation, lane -> the cycle under way
          etag,      \* installation -> what its server transport knows of the vault's version
          converged, \* installation -> the last cycle's mark still matches token and bytes
          remote,    \* the vault
          exists,    \* whether a vault was ever written
          backup,    \* a backup file of some installation's profile
          now,       \* wall-clock ticks
          writes, faults, restores,  \* bounded counters
          made,      \* history: id -> the installation that added it, or 0
          gone,      \* history: ids a person deleted or replaced by a restore
          top        \* history: id -> the join of every vector its node ever carried

Transport == setup.transport
Interleave == setup.interleave
MaxWrites == setup.writes
MaxTime == setup.time
MaxFaults == setup.faults
MaxRestores == setup.restores

store == <<local, seq, deleting>>
history == <<made, gone, top>>
vars == <<setup, local, seq, deleting, cycle, etag, converged, remote, exists, backup, now, writes, faults,
          restores, made, gone, top>>

NotDeleting == [ids |-> {}, nodes |-> EmptyProfile.nodes]
NoCycle == [pc |-> "idle", raw |-> EmptyProfile, found |-> FALSE, fresh |-> FALSE, untouched |-> FALSE,
            tip |-> FALSE,
            nodes |-> EmptyProfile.nodes, merged |-> EmptyProfile, push |-> FALSE]

Stamp(d) == IF setup.clocks THEN now * (Cardinality(Devices) + 1) + d ELSE now

Present(p) == {id \in Ids : p.nodes[id] # NoNode}
Busy(d) == \E l \in Lanes : cycle[d][l].pc # "idle"
\* The storage lease: applyBundle holds it from its first write to its last.
Leased(d) == \E l \in Lanes : cycle[d][l].pc = "applying"

\* A local write moves the change token: no mark and no token read earlier matches any more.
Touched(d, cyc) == [cyc EXCEPT ![d] = [l \in Lanes |-> [cyc[d][l] EXCEPT !.untouched = FALSE]]]
Touch(d) ==
  /\ cycle' = Touched(d, cycle)
  /\ converged' = [converged EXCEPT ![d] = FALSE]

-----------------------------------------------------------------------------
(* The person's writes, on one machine.                                    *)

MayWrite(d) == writes < MaxWrites /\ deleting[d] = NotDeleting /\ (Interleave \/ ~Busy(d))

\* stampVector and bumpHorizonToSeq: the node under a fresh sequence number and the wall clock.
PutNode(d, id, v, parent) ==
  LET p == local[d]
      node == [v |-> BumpVector(v, d, seq[d] + 1), at |-> Stamp(d), parent |-> parent,
               epoch |-> 0, mark |-> FALSE, slots |-> [k \in Kinds |-> NoValue]]
  IN  /\ local' = [local EXCEPT ![d] =
                      [p EXCEPT !.nodes[id] = node,
                                !.tombs[id] = IF v = EmptyVector THEN NoTomb ELSE p.tombs[id],
                                !.horizon[d] = MaxOf(p.horizon[d], seq[d] + 1)]]
      /\ seq' = [seq EXCEPT ![d] = @ + 1]
      /\ top' = [top EXCEPT ![id] = MergeVectors(@, node.v)]
      /\ writes' = writes + 1
      /\ Touch(d)

Parents(d, id) == {Root} \cup (Present(local[d]) \ {id})

\* addNode: ids are fresh; not behind the lease.
AddNode(d, id) ==
  /\ MayWrite(d)
  /\ made[id] = 0
  /\ id \in setup.ids
  /\ \E parent \in Parents(d, id) : PutNode(d, id, EmptyVector, parent)
  /\ made' = [made EXCEPT ![id] = d]
  /\ UNCHANGED <<setup, deleting, etag, remote, exists, backup, now, faults, restores, gone>>

\* A slip Subtree must not make: it follows the parents instead of the children.
SubtreeUpward(nodes, id) == {id} \cup {nodes[j].parent : j \in {i \in {id} : nodes[i] # NoNode}}

\* subtreeOf: the node and everything below it, the least set that holds the node and, with a
\* folder, what lies in it.
Subtree(nodes, id) ==
  LET Closed(S) == id \in S /\ \A j \in Ids : nodes[j] # NoNode /\ nodes[j].parent \in S => j \in S
  IN  {j \in Ids : \A S \in SUBSET Ids : Closed(S) => j \in S}

\* updateNodeFields, behind the lease: some fields, and with moveNode the parent. The caller
\* refuses a folder inside itself.
UpdateNode(d, id) ==
  /\ MayWrite(d)
  /\ ~Leased(d)
  /\ id \in Present(local[d])
  /\ \E parent \in {local[d].nodes[id].parent} \cup (Parents(d, id) \ Subtree(local[d].nodes, id)) :
       PutNode(d, id, local[d].nodes[id].v, parent)
  /\ UNCHANGED <<setup, deleting, etag, remote, exists, backup, now, faults, restores, made, gone>>

\* deleteNodeRecursive, first write: the tree is read and the tombstones are stored. Not behind
\* the lease. One sequence number stands for the run of them the subtree takes.
DeleteTombstones(d, id) ==
  /\ MayWrite(d)
  /\ id \in Present(local[d])
  /\ LET p == local[d]
         ids == Subtree(p.nodes, id)
         tomb(j) == [v |-> BumpVector(p.nodes[j].v, d, seq[d] + 1), at |-> Stamp(d)]
     IN  /\ local' = [local EXCEPT ![d] =
                        [p EXCEPT !.tombs = [j \in Ids |-> IF j \in ids THEN tomb(j) ELSE p.tombs[j]]]]
         /\ deleting' = [deleting EXCEPT ![d] = [ids |-> ids, nodes |-> p.nodes]]
         /\ gone' = gone \cup ids
  /\ seq' = [seq EXCEPT ![d] = @ + 1]
  /\ writes' = writes + 1
  /\ Touch(d)
  /\ UNCHANGED <<setup, etag, remote, exists, backup, now, faults, restores, made, top>>

\* deleteNodeRecursive, second write: the tree as it was READ, less the subtree; the horizon.
DeleteNodes(d) ==
  /\ deleting[d] # NotDeleting
  /\ LET p == local[d]
         left == [j \in Ids |-> IF j \in deleting[d].ids THEN NoNode ELSE deleting[d].nodes[j]]
     IN  local' = [local EXCEPT ![d] =
                     [p EXCEPT !.nodes = left, !.horizon[d] = MaxOf(p.horizon[d], seq[d])]]
  /\ deleting' = [deleting EXCEPT ![d] = NotDeleting]
  /\ Touch(d)
  /\ UNCHANGED <<setup, seq, etag, remote, exists, backup, now, writes, faults, restores, made, gone, top>>

\* A backup of the profile, and its restore: importBundle replaces tree, tombstones and horizon.
Backup(d) ==
  /\ restores < MaxRestores
  /\ backup = EmptyProfile
  /\ Present(local[d]) # {}
  /\ backup' = local[d]
  /\ UNCHANGED <<setup, store, cycle, etag, converged, remote, exists, now, writes, faults, restores, history>>

Restore(d) ==
  /\ restores < MaxRestores
  /\ backup # EmptyProfile
  /\ deleting[d] = NotDeleting
  /\ ~Leased(d)
  /\ Interleave \/ ~Busy(d)
  /\ local' = [local EXCEPT ![d] = backup]
  /\ gone' = gone \cup (Present(local[d]) \ Present(backup))
  /\ restores' = restores + 1
  /\ Touch(d)
  /\ UNCHANGED <<setup, seq, deleting, etag, remote, exists, backup, now, writes, faults, made, top>>

-----------------------------------------------------------------------------
(* A sync cycle: syncProfile.                                              *)

Step(d, l, rec) == cycle' = [cycle EXCEPT ![d][l] = rec]

\* The cycle is over; applied or wrote anything: no mark (markAfterCycle).
EndCycle(d, l) == cycle' = [cycle EXCEPT ![d][l] = NoCycle]

\* A slip ReadVault must not make: a refusal outlives the re-read it asked for.
ReadVaultStillRefused(d, l) ==
  /\ cycle[d][l].pc = "idle"
  /\ Interleave \/ deleting[d] = NotDeleting
  /\ Step(d, l, [NoCycle EXCEPT !.pc = "read", !.raw = remote, !.found = exists, !.fresh = TRUE])
  /\ etag' = [etag EXCEPT ![d] = IF @ = "reread" THEN @ ELSE "current"]
  /\ UNCHANGED <<setup, store, converged, remote, exists, backup, now, writes, faults, restores, history>>

\* transport.readVault: the bytes, and for a server the version every later write will state.
ReadVault(d, l) ==
  /\ cycle[d][l].pc = "idle"
  /\ Interleave \/ deleting[d] = NotDeleting
  /\ Step(d, l, [NoCycle EXCEPT !.pc = "read", !.raw = remote, !.found = exists, !.fresh = TRUE])
  /\ etag' = [etag EXCEPT ![d] = "current"]
  /\ UNCHANGED <<setup, store, converged, remote, exists, backup, now, writes, faults, restores, history>>

\* isIdleCycle: the mark matches the token and the bytes just read.
IdleCycle(d, l) ==
  /\ cycle[d][l].pc = "read"
  /\ converged[d]
  /\ cycle[d][l].fresh
  /\ EndCycle(d, l)
  /\ UNCHANGED <<setup, store, etag, converged, remote, exists, backup, now, writes, faults, restores, history>>

\* The token is read, then exportBundle reads the nodes; the keychain reads that follow are awaited.
SnapshotNodes(d, l) ==
  /\ cycle[d][l].pc = "read"
  /\ ~(converged[d] /\ cycle[d][l].fresh)
  /\ Step(d, l, [cycle[d][l] EXCEPT !.pc = "snapshot", !.nodes = local[d].nodes, !.untouched = TRUE])
  /\ UNCHANGED <<setup, store, etag, converged, remote, exists, backup, now, writes, faults, restores, history>>

\* exportBundle reads tombstones and horizon, and mergeProfiles decides what changed.
MergeSnapshot(d, l) ==
  LET c == cycle[d][l]
      snapshot == [local[d] EXCEPT !.nodes = c.nodes]
  IN  /\ c.pc = "snapshot"
      /\ \E merged \in {MergeProfiles(snapshot, c.raw, Stamp(d))} :
           LET apply == ~SameProfile(merged, snapshot)
               push == ~c.found \/ ~SameProfile(merged, c.raw)
           IN  \/ /\ apply
                  /\ Step(d, l, [c EXCEPT !.pc = "apply", !.merged = merged, !.push = push])
                  /\ converged' = [converged EXCEPT ![d] = FALSE]
               \/ /\ ~apply /\ push
                  /\ Step(d, l, [c EXCEPT !.pc = "push", !.merged = merged, !.push = push])
                  /\ converged' = [converged EXCEPT ![d] = FALSE]
               \/ /\ ~apply /\ ~push
                  /\ EndCycle(d, l)
                  /\ converged' = [converged EXCEPT ![d] = c.fresh /\ c.untouched]
      /\ UNCHANGED <<setup, store, etag, remote, exists, backup, now, writes, faults, restores, history>>

\* applyBundle, under the lease: the tree first, then tombstones and horizon.
ApplyNodes(d, l) ==
  LET c == cycle[d][l]
  IN  /\ c.pc = "apply"
      /\ ~Leased(d)
      /\ local' = [local EXCEPT ![d] = [local[d] EXCEPT !.nodes = c.merged.nodes]]
      /\ cycle' = [Touched(d, cycle) EXCEPT ![d][l] = [c EXCEPT !.pc = "applying"]]
      /\ converged' = [converged EXCEPT ![d] = FALSE]
      /\ UNCHANGED <<setup, seq, deleting, etag, remote, exists, backup, now, writes, faults, restores, history>>

ApplyRest(d, l) ==
  LET c == cycle[d][l]
  IN  /\ c.pc = "applying"
      /\ local' = [local EXCEPT ![d] =
                     [local[d] EXCEPT !.tombs = c.merged.tombs, !.horizon = c.merged.horizon]]
      /\ cycle' = [Touched(d, cycle) EXCEPT ![d][l] =
                     IF c.push THEN [c EXCEPT !.pc = "push", !.untouched = FALSE] ELSE NoCycle]
      /\ UNCHANGED <<setup, seq, deleting, etag, converged, remote, exists, backup, now, writes, faults,
                     restores, history>>

\* The bytes at the location are replaced: every version, hash and mark taken earlier is stale.
Overwrite(d, l, after) ==
  /\ remote' = cycle[d][l].merged
  /\ exists' = TRUE
  /\ cycle' = [e \in Devices |-> [k \in Lanes |->
                 IF <<e, k>> = <<d, l>> THEN NoCycle
                 ELSE [cycle[e][k] EXCEPT !.fresh = FALSE, !.tip = FALSE]]]
  /\ converged' = [e \in Devices |-> FALSE]
  /\ etag' = [e \in Devices |-> IF e = d THEN after ELSE IF etag[e] = "current" THEN "stale" ELSE etag[e]]

\* gitTransport.writeVaultInner, first half: the clone is reset onto the remote's tip and the
\* merged vault is committed on top of it.
GitReset(d, l) ==
  /\ Transport = "git"
  /\ cycle[d][l].pc = "push"
  /\ Step(d, l, [cycle[d][l] EXCEPT !.pc = "pushing", !.tip = TRUE])
  /\ UNCHANGED <<setup, store, etag, converged, remote, exists, backup, now, writes, faults, restores, history>>

\* The cycle is at its PUT, its push or its file write.
Sending(d, l) == cycle[d][l].pc = IF Transport = "git" THEN "pushing" ELSE "push"

\* preconditionFor, and the server's answer: it compares the version a client read (If-Match,
\* If-None-Match), and a client that never read states none.
ServerAccepts(d) == etag[d] \in {"current", "unknown"}

\* A push is rejected when the branch moved since the clone was reset.
GitAccepts(d, l) == cycle[d][l].tip

\* A slip Accepts must not make: the version a write states is not compared.
AcceptsAny(d, l) == Transport = "server" => etag[d] # "reread"

Accepts(d, l) ==
  /\ Transport = "server" => ServerAccepts(d)
  /\ Transport = "git" => GitAccepts(d, l)

WriteVault(d, l) ==
  /\ Sending(d, l)
  /\ Accepts(d, l)
  /\ Overwrite(d, l, "current")
  /\ UNCHANGED <<setup, store, backup, now, writes, faults, restores, history>>

\* 412, a rejected push, or the refusal a client that owes a re-read gives itself: the cycle throws.
WriteRefused(d, l) ==
  /\ Sending(d, l)
  /\ ~Accepts(d, l)
  /\ EndCycle(d, l)
  /\ etag' = [etag EXCEPT ![d] = "reread"]
  /\ UNCHANGED <<setup, store, converged, remote, exists, backup, now, writes, faults, restores, history>>

-----------------------------------------------------------------------------
(* Faults and time.                                                        *)

\* The server took the write and its answer is lost: the client still states the old version.
AnswerLost(d, l) ==
  /\ faults < MaxFaults
  /\ Sending(d, l)
  /\ Accepts(d, l)
  /\ Overwrite(d, l, "stale")
  /\ faults' = faults + 1
  /\ UNCHANGED <<setup, store, backup, now, writes, restores, history>>

\* The window closes: cycles, a deletion between its writes and every in-memory mark are lost.
Crash(d) ==
  /\ faults < MaxFaults
  /\ Busy(d) \/ deleting[d] # NotDeleting
  /\ cycle' = [cycle EXCEPT ![d] = [l \in Lanes |-> NoCycle]]
  /\ deleting' = [deleting EXCEPT ![d] = NotDeleting]
  /\ converged' = [converged EXCEPT ![d] = FALSE]
  /\ etag' = [etag EXCEPT ![d] = "unknown"]
  /\ faults' = faults + 1
  /\ UNCHANGED <<setup, local, seq, remote, exists, backup, now, writes, restores, history>>

Tick ==
  /\ now < MaxTime
  /\ now' = now + 1
  /\ UNCHANGED <<setup, store, cycle, etag, converged, remote, exists, backup, writes, faults, restores, history>>

-----------------------------------------------------------------------------
Init ==
  /\ setup \in Setups
  /\ local = [d \in Devices |-> EmptyProfile]
  /\ seq = [d \in Devices |-> 0]
  /\ deleting = [d \in Devices |-> NotDeleting]
  /\ cycle = [d \in Devices |-> [l \in Lanes |-> NoCycle]]
  /\ etag = [d \in Devices |-> "unknown"]
  /\ converged = [d \in Devices |-> FALSE]
  /\ remote = EmptyProfile
  /\ exists = FALSE
  /\ backup = EmptyProfile
  /\ now = 1
  /\ writes = 0 /\ faults = 0 /\ restores = 0
  /\ made = [id \in Ids |-> 0]
  /\ gone = {}
  /\ top = [id \in Ids |-> EmptyVector]

Person(d) ==
  \/ \E id \in Ids : AddNode(d, id) \/ UpdateNode(d, id) \/ DeleteTombstones(d, id)
  \/ Backup(d)
  \/ Restore(d)

Cycle(d, l) ==
  \/ ReadVault(d, l) \/ IdleCycle(d, l) \/ SnapshotNodes(d, l) \/ MergeSnapshot(d, l)
  \/ ApplyNodes(d, l) \/ ApplyRest(d, l) \/ GitReset(d, l) \/ WriteVault(d, l) \/ WriteRefused(d, l)

Next ==
  \/ \E d \in Devices :
       \/ Person(d)
       \/ DeleteNodes(d)
       \/ Crash(d)
       \/ \E l \in Lanes : Cycle(d, l) \/ AnswerLost(d, l)
  \/ Tick

Spec == Init /\ [][Next]_vars

\* The timer runs cycles for ever, and a step under way completes; nobody has to write, and no
\* fault has to happen.
FairSpec ==
  /\ Spec
  /\ \A d \in Devices : WF_vars(DeleteNodes(d)) /\ \A l \in Lanes : WF_vars(Cycle(d, l))

-----------------------------------------------------------------------------
(* Properties.                                                             *)

\* Every variable has its shape, and no deletion or cycle is left half recorded.
TypeOK ==
  /\ setup \in Setups
  /\ local \in [Devices -> Profiles]
  /\ seq \in [Devices -> 0..MaxWrites]
  /\ remote \in Profiles
  /\ backup \in Profiles
  /\ etag \in [Devices -> {"unknown", "current", "stale", "reread"}]
  /\ converged \in [Devices -> BOOLEAN]
  /\ exists \in BOOLEAN
  /\ now \in 1..MaxTime
  /\ gone \subseteq Ids
  /\ \A d \in Devices :
       /\ deleting[d].ids \subseteq Ids
       /\ \A l \in Lanes : cycle[d][l].pc \in {"idle", "read", "snapshot", "apply", "applying", "push",
                                           "pushing"}

\* A node its person added and nobody deleted is still in that person's tree, whatever the other
\* machines merged, restored or pushed: the horizon never takes it for a phantom.
NeverVanishes ==
  \A id \in Ids : (made[id] # 0 /\ id \notin gone) => id \in Present(local[made[id]])

\* The same, where the person does not write in the middle of the machine's own cycle.
NeverVanishesBetweenCycles == Interleave \/ NeverVanishes

\* The vault's horizon is "never pruned": no write to a vault server forgets causal knowledge, so a
\* deletion stays known after its tombstone was collected.
VaultNeverForgets == [][Transport = "server" => Covers(remote'.horizon, remote.horizon)]_vars

\* What the vault knows of id is all there is: its horizon covers every vector its node ever carried.
VaultKnows(id) == Covers(remote.horizon, top[id])

\* A restored stale backup cannot resurrect a deleted entry: once the vault has dropped an id and
\* collected its tombstone, knowing every vector it had, no cycle of any machine brings it back.
\* A vault server's promise: a git push states no version it read.
DeletedStaysDeleted ==
  [][\A id \in Ids :
       (Transport = "server" /\ id \notin Present(remote) /\ remote.tombs[id] = NoTomb /\ VaultKnows(id))
       => id \notin Present(remote')]_vars

\* While the vault still holds the tombstone, no version the vault knows outlives it either. Only
\* where nobody writes inside a cycle, no backup is restored and no clock is behind another: a write
\* between the two reads of exportBundle reaches the vault as a horizon without its node, a restored
\* half-made deletion as a tombstone older than the node that its own machine edited since, and a
\* tombstone stamped by a clock that is behind stands below the loser of a race its writer has seen
\* (LoserOutlives).
TombstoneStands ==
  [][\A id \in Ids :
       (/\ Transport = "server" /\ ~Interleave /\ MaxRestores = 0 /\ ~setup.clocks
        /\ id \notin Present(remote) /\ remote.tombs[id] # NoTomb /\ VaultKnows(id))
       => id \notin Present(remote')]_vars

\* A cycle never replaces a version of a vault server's vault it has not merged.
NoBlindOverwrite ==
  [][\A d \in Devices, l \in Lanes :
       (Transport = "server" /\ Sending(d, l) /\ cycle'[d][l].pc = "idle" /\ remote' # remote)
       => cycle[d][l].fresh]_vars

\* Once nobody writes any more, every machine and the vault come to hold one profile and stay there.
Convergence == <>[](\A d \in Devices : SameProfile(local[d], remote))
=============================================================================
