# CredsForDevs: a TLA+ model of the vault's shared state

CredsForDevs keeps a developer's credentials in a VS Code extension, synchronises them between
machines through a vault (a server, a git repository or a folder), protects single entries with a
PIN, and lets agents use entries without seeing them. This project models the parts in which
several actors change one piece of state: windows of one machine, machines of one person, requests
at one server, a background job and the person typing meanwhile.

## Inventory

| Part | State it keeps | Operations | Hard because | Right when |
|---|---|---|---|---|
| Window lock (`windowLock.ts`, `leasedQueue.ts`) | a directory, a holder file | take, beat, break a stale claim, release, poll | every call is an await; windows freeze and die | one window writes at a time; nobody waits for ever |
| Version vectors and merge (`versionVector.ts`, `syncMerge.ts`, `syncPinRule.ts`) | none (pure) | compare, join, merge two profiles | clocks, causality and protection name different winners | same winner everywhere; no half-sealed entry; deletions stay |
| Entry PIN (`entityPin.ts`, `pinCommands.ts`, `sealingAtWrite.ts`, `syncProtection.ts`) | sealed slots, mark, epoch, kept versions | Protect, Remove PIN, edit under a PIN, keep the loser | slot by slot, no transaction, racing machines | no race undoes a Protect; nothing lost in silence |
| Profile store (`storageManager.ts`) | tree, tombstones, horizon, sequence number | add, update, move, delete, snapshot, apply | reads before an await used after it | no entry vanishes, none comes back |
| Sync cycle (`syncManager.ts`, `syncIdle.ts`) | the converged mark, the running flag | read, merge, apply, write, mark | person, other machines and a second cycle in between | converges; never overwrites what it has not read |
| Transports (`serverTransport.ts`, `gitTransport.ts`, `folderTransport.ts`) | the version last seen, a clone | readVault, writeVault | lost answers, refusals, concurrent pushes | compare-and-swap |
| Backup and restore (`backupManager.ts`) | backup files | back up, restore | a restore is a rollback | a stale backup resurrects nothing |
| Secret clean-up (`pendingCleanup.ts`, `orphanSweep.ts`, `entityWrite.ts`) | tree, keychain, the record of pending deletions | create, apply, remove, re-list, resume, delete, sweep | tree and keychain cannot change together; a kill at any await | no entry without its secrets; a removal is finished |
| One-use entries (`oneUseLane.ts`, `burnOnUse.ts`, `brokerCall.ts`) | a lane per entry, spent marks | arrive, run, burn, mark | callers overlap the burn | used at most once |
| Rotation (`rotateAction.ts`, `rotationStore.ts`, `rotationQuarantine.ts`) | held values and their index | run, store, hold, release, supersede | the far side changed and the store is refused | the accepted value is never lost |
| SSH agent (`sshAgentManager.ts`, `sshAgentServer.ts`) | served keys, dialogs on screen | load, unload, sign, lock | what a prompt was about changes while it is open | a signature is what was asked and allowed |
| Allow windows (`allowWindows.ts`, `agentConsent.ts`) | windows, fences, a lock epoch | grant, cover, fence, expire | late answers, two clocks | silent only inside a grant nothing has ended |
| Consent turns (`consentTurns.ts`, `keyedQueue.ts`) | per key: the turn, the queue, two counters | arrive, take a turn, time out, leave | a modal cannot be closed | one prompt per key; every caller answered |
| Vault server (`VaultStore.cs`, `LoginKeyStore.cs`, `OrgMembersStore.cs`) | vault, sidecar, login key, registry record | PUT, DELETE, login key, edit | several files, abandoned requests, two processes | a compare-and-swap register; key and vault agree |
| Share store (`VaultStoreOutbox.cs`, `VaultStoreBlocking.cs`, `ShareMaintenance.cs`) | inbox files, receipts, log rows | send, answer, withdraw, block, sweep | two files and no gate | a pending share can be withdrawn; receipts settle |
| Grants and throttles (`grantRegistry.ts`, `pinAttempts.ts`) | grants, counters, cooldowns | grant, use, revoke, count | limits and expiry | a limit is a limit (not modelled) |
| Recovery quorum, server backups (`OrgRecoveryStore.cs`, `BackupRunner.cs`) | requests, a queue | approve, expire, run | concurrent officers, a queue at its limit | not modelled |
| CLI, MCP server, broker client, service defaults, deployment, views | little or none | relay, render, start and stop | processes | not modelled |

Components interact through shared storage (windows of one machine share `globalState` and the
keychain under the window lock), through the vault (machines), and by calls: a local write
schedules a cycle, `pushAccount` starts one directly, a restore replaces the profile, a cycle
applies its merge through the same store, an answered one-use call burns its entry through the
same deletion a person runs, and every door of an entry releases what waits beside it.

## Modules

| Module | On | Models |
|---|---|---|
| `WindowLock` | | the lock directory, one file-system call at a time |
| `ProfileMerge` | | the pure operators of vectors, winner, protection rule and merge |
| `EntryProtection` | `ProfileMerge` | one entry, its slots and mark, on several machines |
| `VaultSync` | `ProfileMerge` | a profile per machine, the cycle, the transports |
| `SecretCleanup`, `OneUseLane` | the second on the first | tree, keychain and pending record of one window; the lane of a one-use entry |
| `RotationQuarantine` | | one rotated secret and the copy held beside its entry |
| `AllowWindows`, `ConsentTurns`, `SshAgent` | the third on both | the book of windows, the queue at the prompt, the agent |
| `VaultAccounts`, `ShareStore`, `VaultServer` | each on the one before | the account's files, the shares, both together with crashes |
| `CasRegister` | | what the server promises of a vault (abstract) |
| `WindowLockProofs`, `ProfileMergeProofs`, `EntryProtectionProofs`, `VaultSyncProofs`, `VaultServerProofs`, `RotationQuarantineProofs`, `OneUseLaneProofs`, `SshAgentProofs` | the module each is named after; `EntryProtectionProofs` and `VaultSyncProofs` also on `ProfileMergeProofs` | theorems |
| `MC...` | | instances |

`WindowLock`. `dir` is what stands at the lock's path (with its holder file and drafts), `pc` where
each window has got to, `beat` the heartbeat in flight, `seen` the age `heldSince` read. Ages stop
at the TTL, so time needs no bound. `Claim` is the mkdir, `ClaimDraft`/`ClaimRename` the holder
file, `ReadHolder`, `StatDir`, `Judge`, `RenameAside` the stale break, `Beat*` the heartbeat,
`Release*` the release, `Poll` the queue's wait, `Crash` a killed host. `breaks` is a history
variable.

`ProfileMerge`. Vectors are functions on installations (0 for a missing key); `PickIsA` is
pickNode, `MergeSlots` copySecret, and `DecideProtection`, `IsDeleted`, `IsPhantom`,
`MergeProfiles` carry the source's names. Installations are numbers, so the order of device ids is
`<=`. One entry's secret maps are its `slots`.

`EntryProtection` takes one entry through edits, clears, Protect and Remove PIN runs and sync cycles
on several machines. A run seals one slot per step and marks the node last; a cycle is one step.
Clocks are free: a write may be stamped with any time from the machine's last one on. Every edit
types a value never used before, and a PIN is named after its machine. `setup` says which situation
a behaviour is in: which machines run an old build, whether cycles fall between the slots of a run,
and the bounds. Properties about whole runs (`~Interleave`), or whole runs of new builds (`Ordinary`),
say so.

`VaultSync` splits the cycle: `ReadVault`, `IdleCycle`, `SnapshotNodes` (token, nodes),
`MergeSnapshot` (tombstones, horizon, merge), `ApplyNodes`, `ApplyRest`, `WriteVault` or
`WriteRefused` (over git after `GitReset`, the fetch and hard reset before the commit). `AddNode`,
`UpdateNode` (with moves), the two writes of a deletion, `Backup` and `Restore` are the person's. A
version, a hash, a change token and a branch tip are only compared for equality with the one read
earlier, so each is a flag (`fresh`, `untouched`, `etag`, `converged`, `tip`) the next write lowers.
`AnswerLost` and `Crash` are the faults. `made`, `gone`, `top` are history variables. `setup` chooses
the transport, whether the person writes inside the machine's own cycle, and the bounds; `Lanes` are
the cycles one machine may run at once (`bg` is `syncAll`, `push` is `pushAccount`).

`SecretCleanup` has the account list, the tree, the keychain (`chest`), the tombstones and the
pending record of one account in one window. A job on the write queue (create, apply, remove, list,
resume) is `job` with its place; deletions and the orphan sweep run outside the queue. Every key and
every record is a step, a step may throw, and `Killed` may come between any two. There is one
deletion per deleter (a person, the expiry clock, a burn), each with the tree it read; deletions and
the sweep run beside every job and beside each other, as in the code. `crossed` is a history variable:
the ids that a deletion's stale tree put back, and those whose keys a deletion or the sweep was
deleting while an apply brought them. `OneUseLane` adds callers of one entry: `Arrive`, `Turn`,
`Answers` or `Fails`, `Burn` (which starts a `SecretCleanup` deletion) and `BurnSettles`. `scene` keeps
the two questions, writers and users, apart, and `asks` counts the writes and deletions asked for
(`MaxAsks`).

`RotationQuarantine` follows one secret of an entry, another secret beside it, the mark, the held
item and its index, and the value the far side accepts. A rotation is `RotateCalls`, `RotateChecks`,
`RotateDraws`, `RotateRuns`, `RotateDecides`, `RotateStores`, then `Supersede`, or `RotateHolds` and,
when that fails too, the hand-over. A release is one process per releaser (`rel`): look, read,
compare, proof, commit under the lease, drop. `Admit`, `Heal` and the answers to a conflict are the
door's; Protect and Remove PIN walk slot by slot (`walk`). What runs under the storage lease is one
step, and everything read before it is a step of its own. `given` is a history variable.

`AllowWindows` is a record (`book`) and operators on it: tickets, fences, grants, both clocks.
`ConsentTurns` is the queue per key with its slot: the running turn, who waits, `live` and
`retained`, the orphan a timed-out turn leaves. `SshAgent` composes them with keys, dialogs, lock and
settings. The extension host runs one event at a time and drains its microtasks before the next:
an event's guard is `Drained`, and the steps of a request between two events are `Microtask`s.
`how`, `clean` and `grants` are ghosts.

`VaultAccounts` makes each request a process over the files of one person; a label is an await or a
place between two file operations. The gate of a person lives in one server process. `ShareStore`
adds inbox files, receipts and log rows, which no gate covers. `VaultServer` runs both; a `scene` is
the set of requests that meet and what is on the disk before, `Abandon` a client that disconnects
(where the code passes the client's token), `refusals` deletions the disk refuses, `Crash` the end
of a process. `CasRegister` is the abstract specification: one register per person, every operation
takes effect at most once and at one instant.

A few definitions in these modules are introduced as "a slip ... must not make". They are never
part of a specification; each is a plausible mistake against which one property was tried.

## Runs

| Run | Instance | Shows |
|---|---|---|
| `lock` | 2 windows, 2 acquisitions each, TTL 1 | `WritersBounded`: holders never outnumber breaks plus the standing claim; `WaitersGetThrough` under `FairSpec` |
| `protection` | 2 machines, 2 slots, 2 clock values; 4 stamped writes, or 3 with a typed edit; or cycles between slot writes; or machine 2 without a map for notes | `OnlyRemovalUnprotects`, `Settles` for whole runs of new builds; `NoMixedEntry`, `LegacyDropsNothing` for whole runs; `MarkAndEpochTogether` for all |
| `vault` | 2 machines, TTL 0; a server with writes inside cycles, a git repository, a restored backup (2 clock values), or cycles nobody writes into (2 clock values); 3 writes, 1 fault | `NeverVanishesBetweenCycles`, `VaultNeverForgets`, `NoBlindOverwrite`, `DeletedStaysDeleted`, `TombstoneStands` |
| `vault_live` | 1 id, 2 writes, 1 fault, distinct clocks | `Convergence` under `FairSpec` |
| `ssh_agent` | 1 key, 3 requests, 1 may wait and 2 be retained, 2 ticks, 2 events | `SlotAccounts`, `OnePromptPerKey`, `SilentOnlyInsideAGrant`, `SignedAsAsked`, `EveryRequestIsAnswered` |
| `server` | 2 people, 2 processes, 2 shares, nine scenes of 2 to 4 requests (the four share scenes with the maintenance besides), 1 refusal, 1 crash | `NoGateLeft`, `OneKeyHandedOut`, `PendingCanBeWithdrawn`, `NoKeyTakenFromAVault`, `SyncKeepsAnEdit`, `ReceiptsSettle`, and that the vault implements `CasRegister` (`VaultIsARegister`) |
| `cleanup` | 2 entries of 2 keys, 3 deleters, 2 writes or deletions asked for, 3 kills or throws, 2 callers | `NoHollowEntry`, `UsedOnce`; `RemovalFinishes` under `FairSpec` |
| `rotation` | 1 rotation and 1 value by hand with 1 fault, or 2 rotations; 1 door, Protect and Remove PIN each | `AcceptedIsKept`, `HeldIsListed`, `NoPlainBesideASeal`, `HeldGoesIn` |

A second acquisition lets a window whose claim was broken claim again while the breaker still acts on
what it read; that `WritersBounded` holds of any number of windows is proved. Two machines and two
slots are what every rule of the merge distinguishes; three writes let one machine write, the other
answer, and the first write again; one fault is placed anywhere. Three requests are a turn, one that
waits and one that finds the queue full; two events are a load and one thing that ends it or its
windows. A scene of the server holds the requests that touch the same file. Two things asked for in
`cleanup` are two deletions beside each other (and beside a burn), a deletion and the job it meets, or
a removal and the listing after it; the resumption, the sweep and the burn are not counted. Three kills
are a job, its resumption and the resumption of that. A rotation, a hand and a door already give a hold
with a conflict; two rotations give a hold the second supersedes. The models stop when their writes,
requests or calls are spent and everything has settled, so deadlock is not checked; what must still
happen is a liveness property.

Four runs record where the code does other than a comment or a document says; each is in
`PROJECT.json` under `findings` with the quoted line.

| Run | Shows |
|---|---|
| `protection_loser` | the losing machine meets an already resolved conflict and keeps no version |
| `vault_torn` | an entry added while the snapshot awaits the keychain is dropped as a phantom |
| `server_answers` | two requests take one share and both record that they removed it |
| `cleanup_record` | an apply clears the pending record, also of a create that died: its secret has no name any more |

### Disagreements that are not runs

Each is visible in the model (by a setup, a scene or a constant given below) or was seen on the way
to it; the passing runs state what is left.

*Lock.* The stale break, the fenced release and the heartbeat each check and then act in a second
call, on whatever stands there by then (`windowLock.ts:110`, `:123`, `:165`); `WritersBounded` is what
is left of exclusion.

*Merge and protection.* `pickNode` keeps the local side when clocks and last writers are equal
(`syncMerge.ts:138`). Two copies of one version whose gaps were filled with different old values are
such a pair (five machines get there), and each machine then keeps its own for good; `Settles` leaves
out what nothing tells apart. Where a wall clock is behind, the version kept of three depends on which
two machines sync first, and three can go round in a circle, each winning over the next
(`syncMerge.ts:122-138`, against `:21-23` "deterministic and order-independent" and
`src_vs_code/README.md:1043-1045` "regardless of merge order"): the theorem `ThreeMayCycle`. A slot
emptied by the latest edit is filled again from the copy it superseded (`syncMerge.ts:416`). A cycle
between the slot writes of a Protect and its mark can put plain values back under the mark
(`pinCommands.ts:462`). Against an old build `OnlyRemovalUnprotects` does not hold.

*Sync.* A git write fetches and resets first and so hides the push it should have been refused for
(`gitTransport.ts:215`, against `:36-39`). `pushAccount` does not ask `running`, and its cycle shares
the known version with the background one (`syncManager.ts:199`, against `serverTransport.ts:149-150`;
`Lanes = {bg, push}`). A person's edit between the two reads of `exportBundle`
(`storageManager.ts:905-917`) reaches the vault as a horizon without its node: a vault that still
holds the node's tombstone then knows a version that outlives it, and the next cycle brings the node
back. That is the edit winning its race as it should, in two steps; `TombstoneStands` is therefore
stated for cycles nobody writes into, and `DeletedStaysDeleted` for a collected tombstone. A deletion
made by a machine whose clock is behind does not hold against the loser of a race that the deleted
version had won: a machine that still holds the loser is asked by the clock and brings the entry
back, although the deleting machine's vault had seen both (`syncMerge.ts:393`, where
`src_vs_code/README.md:1045-1049` says the deletion wins unless the edit is causally newer): the
theorem `LoserOutlives`, and three machines of `VaultSync` with `setup.clocks` get there, so
`TombstoneStands` is stated for clocks that agree. With agreeing clocks `DeletionReachesBoth` says
that the deletion reaches the loser too.

*Clean-up.* Deletions and the orphan sweep are outside the queue, in no lock, and what they act on they
read once: a deletion saves the tree it read before it awaited the tombstone
(`storageManager.ts:622-638`), the sweep deletes the keys of the candidates it listed. So two deletions
that overlap bring an entry back and take its keys: both read {x, y}, the first saves {y} and goes on
to drop the keys of x, the second saves {x}. `orphanSweep.ts:6-10` says that the write order "permits
exactly ONE torn state: bytes in the keychain that no node references"; that invariant is
`OneTornState`, and checked in the place of `NoHollowEntry` it fails in these five steps, with no fault
and nothing on the queue. It fails too when a deletion overlaps an apply or a removal, which it undoes
in part, and when an apply brings an entry whose keys are being deleted. `crossed` has exactly these
entries, and `NoHollowEntry`, `UsedOnce` and `RemovalFinishes` state what is left: every other entry
has all its keys, and a removal that began empties the tree of everything a deletion did not put back.
A one-use entry that is deleted during its use and put back so can be used again. An apply of an
account removed meanwhile fills it again (`syncManager.ts:571`). `wipeAccountData` drops the tombstones
that name orphans, and an apply interrupted before its nodes leaves secrets nothing names. A one-use
entry that an apply drops and brings back during its use is not marked spent, and a kill forgets the
mark.

*Rotation.* Two rotations of one entry may overlap: nothing in the broker puts them in turn, so the
older value may be stored over the later one, and the first's `supersedeHeld` may drop the second's
hold (setups `Overlapping`; against `rotationStore.ts:29`). A value that a person stores by hand, or a
sync brings, while a rotation's own store is pending is overwritten the same way: elsewhere `InTurn`
bars both, and a person's *Store the rotated one* too. Remove PIN stores what it opened, with no
lease and no second look, over a release or an edit in between (`entityPin.ts:186`; setups
`Overtaken`). "Store the rotated one" compares with whatever it reads after its history snapshot, so a
value landing in that moment is overwritten and in no history (`rotationWaiting.ts:151`,
`rotationQuarantine.ts:383`): the model lets no new value in there. A statement that changed the far
side and then failed counts as not run, as `rotateAction.ts:183` says itself.

*Server.* A PUT in flight across a DELETE may leave the sidecar or the registry record without a
vault, and may store a vault sealed to the key just removed. Two processes may log two issued keys for
one person, though one is handed out. The maintenance may retire a receipt that explains itself. A
receipt posted after a block reads as told, a share posted after the block's check lands in the
blocked inbox, a withdrawal may bring back a receipt the sender dismissed, and the deletion of a
person blocked a moment ago removes the block. Between two processes a vault write is no
compare-and-swap; the code promises none, and in the scenes one process answers every PUT and DELETE.

## Fairness

`WindowLock` assumes of each window that has not died that its next call completes, and that time
passes. `VaultSync` assumes that a step of a cycle under way completes and that cycles are started
again and again (the background timer), and that a deletion under way completes; nobody has to write
and no fault has to happen. `Convergence` is checked with clocks that never tie, because of
`pickNode`'s tie: where it keeps the local side, two machines push over each other for ever. The circle
of `ThreeMayCycle` takes three machines and a clock that is behind: with one machine in turn winning
over the copy the one before it pushed, `Convergence` fails there, which the instance does not hold.
`SshAgent` assumes microtasks, the turn's own timer and the clock; no person answers. `VaultServer`
assumes only the maintenance (`ShareMaintenance`'s timer). `OneUseLane` assumes
that what is under way goes on and, strongly, that the resumption the sweeper asks for gets its turn:
the write queue is first in, first out, so later jobs cannot keep it waiting. `RotationQuarantine`
assumes the sweep's timer and the steps of the release it starts.

## Proofs

`WindowLockProofs` proves, for every finite set of windows, every TTL and every number of acquisitions,
`TypeOK` and `WritersBounded` (so that before the first break at most one window runs). `TypeOK` is
inductive by itself. `WritersBounded` is inductive together with it: a claim succeeds only where
nothing stands (one more holder, one more directory), a break takes the directory away and counts, and
the only step that removes a directory without a break is a release, whose window stops holding; what a
directory holds does not matter, which is why a beat or a release that hits another's claim cannot
break the bound.

`ProfileMergeProofs` proves for every set of machines, ids, kinds and values: `mergeVectors` is the
least upper bound (`MergeVectorsIsJoin`); the decision between two copies does not depend on which is
local whenever causality, the clock or the last writer tells them apart (`DecisionIgnoresSides`), and
what it keeps of two copies, slots included, it keeps again from either side and against itself
(`MergeSettles`); of three versions it keeps the same whichever two meet first, as long as the clocks
agree with causality and all or none are sealed (`OrderOfThree`), and without the first of these it
need not (`ThreeMayCycle`, which exhibits three versions for any three machines); the protection rule
fails closed (`RuleFailsClosed`) and its overrides stick (`OverrideSticks`); a merge of profiles with
no half-sealed entry has none (`MergeNeverMixes`); the merged horizon is the least vector that covers
what either side had and everything kept (`HorizonIsJoin`); a merge of profiles is a profile
(`MergeIsProfile`). Of deletions: joining tombstones weakens neither (`JoinedTombDeletes`); deleting
the version a race left deletes the one that lost it, by a clock no earlier than the winner's
(`DeletionReachesBoth`), and by one that is earlier it need not (`LoserOutlives`). The assumptions are
those of `ProfileMerge`: installations are positive numbers and ids are finitely many; plain values,
sealed values, nodes, tombstones and their absence are distinct.

`EntryProtectionProofs` proves, for any number of machines, kinds, PINs, old builds, clocks and
bounds, `TypeOK` and five properties. `Shape` is the type in the detail the rest needs: no copy has
seen a number not given out yet, and a run knows only slots its build has. `SyncEffect` reduces a
cycle to the winner's node filled in from the loser's. `MarkAndEpochTogether` is inductive with it.
`NoMixedEntry` follows from `WholeRuns` (without `interleave` one run is under way at a time, and what
it has left to do is exactly where its copy may be mixed), also with old builds, which the run does
not exclude either. `OnlyRemovalUnprotects` rests on `Standing`: while only Protects were decided, a
copy is sealed exactly when its count is above 0, and a copy whose count is 0 has not seen the number
under which any decision was made, on a machine whose own copy has moved past that; so it never
dominates a sealed copy, and where neither dominates the rule takes the higher count (`SealWins`).
`LegacyDropsNothing` rests on `OwnNews`: beside old builds only, a remote copy that knows the new kinds
was written by the new build and covers nothing it has not seen, so no wholesale win against it can read
a missing map as an emptied slot. It is about behaviours without `interleave`: a cycle that falls
into a Protect finds the entry half sealed, and when it meets another machine's seal the slot not yet
sealed is dropped from the entry and kept among its versions. `SetupsAssumption` and
`ValuesAssumption` say that a situation is well-formed and that every typed text has its two forms.
`Settles` is `MergeSettles` for the entry of two copies, which `WholeRuns` says are unmixed (a gap is
otherwise filled on one side and not on the other), and the horizon, which the second merge of two
copies leaves alone (`CopiesSettle`).

`VaultSyncProofs` proves, for any machines, ids, clocks, writes, faults and restores, `TypeOK`,
`NoBlindOverwrite`, `VaultNeverForgets`, `DeletedStaysDeleted` and `NeverVanishesBetweenCycles`, the
last four under `OneLane`: a machine runs one cycle at a time, which `syncAll` sees to and
`pushAccount` does not (see *Sync* above). Five invariants rest on each other.

- `Shape` is the type with one addition: no machine hands out more sequence numbers than there were
  writes.
- `Sound` says that nothing runs ahead of its history: no node, tombstone or horizon in a tree, a
  cycle, the vault or the backup holds a number its machine has not handed out; a node's vector lies
  below `top` of its id; and only what a person deleted has a tombstone. With it goes the action fact
  `Grown`: sequence numbers, `top`, `made` and `gone` only grow.
- `FreshOK` says what a cycle that read the vault relies on: while its version is still the last one,
  the reading it holds is what the vault holds, and only then is it written over; and what it merged
  has `Learned` that reading, knows all the reading knew and holds nothing new the reading knew.
- `Still` says what stays put where nobody writes inside a cycle: the nodes a snapshot read, and the
  nodes an apply wrote, are the tree's.
- `AllLive` is the strengthening of `NeverVanishes`. Every node that was added and not deleted has a
  number of its maker such that whatever `Reaches` it (a tree, the vault, the backup, what a cycle
  read or will write: its horizon, a node's or a tombstone's vector goes as far) also holds the node,
  at that number or past it. That is what the phantom guard needs: a side that covers a node's vector
  has the node, so nothing that lives is taken for a phantom.

`MergeSound`, `MergeHas` and `MergedLearned` say what a merge does to each of these, from the cases of
`WinnerCases`. Every action then is one lemma per invariant; `RemoteStep` and `ReplacesRead` reduce a
change of the vault to the one cycle that made it. `DeletedStaysDeleted` needs no history: a vault
that knows every version of an id and holds neither its node nor its tombstone takes any node of it
for a phantom. `SetupsAssumption` says that a situation is well-formed and that the clock starts at 1.

`VaultServerProofs` is about any scenes of any number of people, processes, requests, refusals and
crashes. Three invariants rest on each other: the shape of the state (`TypeOK`); who holds which gate
(`GatesAgree`: a taken gate belongs to a request of its own process and person that stands where the
code holds it, and the other way round), of which `NoGateLeft` is one half; and what a request under
its gate may rely on (`Relied`: the version it checked, the record it did not find and the vault it
deleted are still so when it acts on them). From the last follow `NoKeyTakenFromAVault`,
`SyncKeepsAnEdit` and the refinement `VaultIsARegister`: every step is one step of the register of
each person or a stutter. `OneKeyHandedOut` needs none of it, since the key file is put down by a move
that fails where one stands. `ProcessAssumption` (one process takes the writes of a person) is used by
`Relied` only: a gate lives in one process, the code promises no more. `SceneAssumption` and
`AbsentAssumption` say that a scene is well-formed and an absent file is not a file.

Its last part proves `PendingCanBeWithdrawn`. No gate orders the requests on shares, so the
argument rests on what never changes back: a share whose file was written and has gone does not come
again. Every request about to take a receipt away (a withdrawal, a block's, the sweep) is shown to know
that of the share in its hand, from the moment it looked. `ShareAssumption` is that share ids are new.

`RotationQuarantineProofs` proves `TypeOK`, `HeldIsListed`, `NoPlainBesideASeal` and `AcceptedIsKept`,
the last for behaviours whose `setup` is `InPromise`: no second rotation and no value by hand or by
sync while a rotation's store is pending, and no write between the slots of a Remove PIN, which are the
disagreements listed above. A value counts as a rotation's to store until a store took it (`Untaken`),
no longer while it supersedes an older hold. Its invariant `Kept` says that a
value a hold replaced is spent, never to be accepted again, and carries that through what a rotation
has in hand, what a release read under the lease and what a Remove PIN opened. The names of
rotations, hands, doors and texts are distinct (`NamesAssumption`).

`OneUseLaneProofs` proves, on the clean-up below it too, `TypeOK`, `UsedOnce` and `NoHollowEntry`, for
any entries, keys, callers, deleters and bounds, whatever runs beside whatever. `UsedOnce` holds because
the lane is first in, first out, only its head acts, and what was answered is spent or gone before the
next call. `NoHollowEntry` rests on `Tidy`: an entry of the tree that was not crossed lacks a key only
while an unlisted account is marked for removal, every way back to a listed account passes a tree
emptied of such entries, the keys a create or an apply has stored are there unless their id was crossed,
and what a deletion, the sweep or a job still has to delete belongs to no uncrossed entry.

`SshAgentProofs` proves, for any keys, requests and limits, `SlotAccounts`, `OnePromptPerKey`,
`SignedAsAsked`, `TypeOK` and `SilentOnlyInsideAGrant`. `TurnsOK` says who stands where in a key's
queue and that its counters are the cardinalities of those sets; `Screened` that a dialog belongs to
the running turn or to the orphan that keeps the slot; `TicketOK` that a prompt whose answer may still
open a window is not behind a fence; `WindowsOK` that an open window lies inside its grant on the
monotonic clock. `NoneAssumption`, `TurnAssumption` and `AgentAssumption` keep names apart and bounds
natural; `Bound` and `Floor` come from the code's constants.

Only model-checked: `TombstoneStands` of `VaultSync`, which rests on the clock: which tombstones were
not yet collected where, and which of two machines' stamps of one tick is the greater
(`JoinedTombDeletes` and `DeletionReachesBoth` are its steps); and all liveness (fairness is out of
the prover's reach).

## Not modelled

Most of the repository is not shared state: of its implementation lines the larger part is forms and
pages, commands and their wording, formats and parsers, process and socket plumbing, cryptography and
scripts. The map names the lines the modules translate, a small share of the whole; what they cover
is where several actors meet. Everything marked `not_modelled` in `PROJECT.json` is left out for the
reason given there. Inside the modelled parts:

- encryption, unlocking, envelopes and their signatures; escrow and developer binding, which only add
  reasons to write; attachments and images; the sealed metadata slot (a cycle that cannot read it
  stops); id quarantine; legacy nodes without a vector;
- in `EntryProtection`, kept versions other than a lost conflict's and entries with no value; two PINs
  inside one entry are possible after a sync and known to the code (`editPrefill.ts:113`);
- in `VaultSync`, a stamped write stores tree, tombstone and horizon in one step, one sequence number
  stands for the run a subtree deletion takes, and one person does one thing at a time on a machine;
- in `SecretCleanup`, edits of stored secrets and the bound on remembered one-use marks;
- in `RotationQuarantine`, the second rotated slot, history, masking, the copy road of a one-use entry,
  the deletion of an entry with a hold, empty slots and fingerprints of another build; a value not
  yet stored or held when its window is killed is lost with it, in the model as in the code;
- in `SshAgent`, the wire protocol, pipelined requests, a load in flight across dispose, a `before`
  step that throws;
- in `VaultServer`, byte budgets, lists in If-Match, unreadable records, the exemption of officers,
  the project rule on recipients, dismissing a receipt; the code's gates are 64 stripes several people
  may share, the model has one per person.

## Plan

1. Proofs: `TombstoneStands` for `VaultSync`.
2. Folders that race: reparenting carries no vector, so two machines may disagree about a parent
   for ever. To be stated as a step property that does not need the liveness checker.
3. The recovery quorum and the backup queue of the server; the client's half of a share.
4. Grants, throttles and PIN attempts: counters at their limits.
