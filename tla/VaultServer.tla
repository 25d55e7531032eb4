---------------------------- MODULE VaultServer ----------------------------
(***************************************************************************)
(* The vault server: the requests of VaultAccounts and ShareStore running  *)
(* together over one data directory, and the crash of a server process.    *)
(*                                                                         *)
(* A scene says which requests are made and what is on the disk before.    *)
(***************************************************************************)
EXTENDS ShareStore

CONSTANTS Scenes,      \* [calls, vault, key, member, inbox]
          MaxCrashes   \* bound: crashes of a process

\* A request names a person, a process and what its operation needs; its number is its own, and
\* the number of the key it would mint.
WellMade(cs) ==
  /\ Free \notin cs
  /\ \A c \in cs :
       /\ c.who \in People /\ c.proc \in Procs /\ c.n \in Nat
       /\ c.op = "put" => c.body \in Bodies
       /\ c.op \in {"post", "take", "withdraw"} => c.share \in Shares

\* A share id is a new uuid: it is posted once, and is in no inbox before.
PostedOnce(cs, waiting) ==
  \A c \in {d \in cs : d.op = "post"} :
    /\ c.share \notin waiting
    /\ \A d \in cs : d.op = "post" /\ d.share = c.share => d = c

\* The gate orders the writers of a person's files only where they meet in one process.
InOneProcess(cs) ==
  \A c, d \in {e \in cs : e.op \in {"put", "delete", "edit"}} : c.who = d.who => c.proc = d.proc

ASSUME BoundsAssumption == MaxRefusals \in Nat /\ MaxCrashes \in Nat
ASSUME AbsentAssumption == Absent \notin Nat \cup Bodies /\ Absent \notin Records
ASSUME SceneAssumption ==
  \A scene \in Scenes :
    /\ WellMade(scene.calls)
    /\ scene.vault \in [People -> Bodies \cup {Absent}]
    /\ scene.key \in [People -> Nat \cup {Absent}]
    /\ scene.member \in [People -> Records \cup {Absent}]
    /\ scene.inbox \subseteq Shares
ASSUME ShareAssumption == \A scene \in Scenes : PostedOnce(scene.calls, scene.inbox)
ASSUME ProcessAssumption == \A scene \in Scenes : InOneProcess(scene.calls)

VARIABLE crashes

shareVars == <<receipt, rows, old>>
vars == <<calls, pc, seen, gate, accountVars, work, inbox, refusals, issued,
          shareVars, crashes>>

Init ==
  \E scene \in Scenes :
    /\ calls = scene.calls
    /\ pc = [c \in scene.calls |-> "new"]
    /\ seen = [c \in scene.calls |-> Absent]
    /\ work = [c \in scene.calls |-> NoWork]
    /\ gate = [q \in Procs |-> [p \in People |-> Free]]
    /\ vault = scene.vault
    /\ owner = [p \in People |-> scene.vault[p] # Absent]
    /\ key = scene.key
    /\ member = scene.member
    /\ inbox = scene.inbox
    /\ receipt = [s \in Shares |-> IF s \in scene.inbox THEN "sent" ELSE "none"]
    /\ rows = {} /\ old = {}
    /\ refusals = 0 /\ crashes = 0
    /\ issued = [p \in People |-> {}]

AccountStep(c) ==
  /\ Arrive(c) \/ Put(c) \/ Delete(c) \/ GetKey(c) \/ Edit(c) \/ Abandon(c)
  /\ UNCHANGED <<work, shareVars, crashes>>

ShareAbandon(c) ==
  /\ pc[c] \in ShareAbandonable(c) /\ Go(c, "gone")
  /\ UNCHANGED <<seen, work, inbox, receipt, rows, refusals>>

ShareStep(c) ==
  /\ Post(c) \/ Take(c) \/ Withdraw(c) \/ Block(c) \/ Sweep(c) \/ ShareAbandon(c)
  /\ UNCHANGED <<calls, gate, accountVars, issued, old, crashes>>

TimePasses ==
  /\ \E s \in Shares : Age(s)
  /\ UNCHANGED <<calls, gate, accountVars, issued, crashes>>

Answers == {"200", "201", "204", "403", "404", "409", "412", "503", "gone", "half"}

\* A process dies: its requests end where they are, its gates are gone with
\* it, and its maintenance starts over with the next process.
Crash(q) ==
  /\ crashes < MaxCrashes /\ crashes' = crashes + 1
  /\ \E c \in calls : c.proc = q /\ pc[c] \notin Answers \cup {"new"}
  /\ pc' = [c \in calls |-> IF c.proc # q \/ pc[c] \in Answers \cup {"new"} THEN pc[c]
                            ELSE IF c.op = "sweep" THEN "new" ELSE EndsAs(c)]
  /\ gate' = [gate EXCEPT ![q] = [p \in People |-> Free]]
  /\ work' = [c \in calls |-> IF c.proc = q THEN NoWork ELSE work[c]]
  /\ seen' = [c \in calls |-> IF c.proc = q THEN Absent ELSE seen[c]]
  /\ UNCHANGED <<calls, accountVars, inbox, refusals, issued, shareVars>>

Next ==
  \/ \E c \in calls : AccountStep(c) \/ ShareStep(c)
  \/ TimePasses
  \/ \E q \in Procs : Crash(q)

Spec == Init /\ [][Next]_vars

\* The host's timer runs one sweep after another for as long as it is up.
FairSpec == Spec /\ WF_vars(\E c \in calls : c.op = "sweep" /\ ShareStep(c))

----------------------------------------------------------------------------
(* Properties *)

\* Every file, gate and request is of its kind.
TypeOK ==
  /\ \A c \in calls : gate[c.proc][c.who] \in calls \cup {Free}
  /\ vault \in [People -> Bodies \cup {Absent}]
  /\ owner \in [People -> BOOLEAN]
  /\ \A p \in People : key[p] = Absent \/ key[p] \in Nat
  /\ member \in [People -> Records \cup {Absent}]
  /\ inbox \subseteq Shares /\ old \subseteq Shares
  /\ receipt \in [Shares -> {"none", "sent", "withdrawn"}]
  /\ \A c \in calls : work[c].todo \subseteq Shares /\ work[c].taken \subseteq Shares

GateHeldAt(c) ==
  CASE c.op = "put" -> {"check", "move", "lookup", "insert"}
    [] c.op = "delete" -> {"vault", "owner", "inbox", "key", "member"}
    [] c.op = "key" -> {"again", "create", "lost"}
    [] c.op = "edit" -> {"read", "write"}
    [] OTHER -> {}

\* A gate is held only by a request that is between taking it and giving it
\* back: no early return, failure, cancellation or crash leaves a person's
\* gate taken, behind which every later request of theirs would wait.
NoGateLeft ==
  \A q \in Procs, p \in People :
    LET c == gate[q][p] IN c # Free => c \in calls /\ pc[c] \in GateHeldAt(c)

VaultCalls == {c \in calls : c.op \in {"put", "delete"}}

StatusOf(c) ==
  CASE pc[c] \in {"new", "start", "check", "move", "vault"} -> "open"
    [] pc[c] \in {"412", "503"} -> "refused"
    [] pc[c] \in {"403", "gone"} -> "lost"
    [] OTHER -> "done"

PersonOf(c) == c.who
IsPut(c) == c.op = "put"
BodyOf(c) == c.body

Register ==
  INSTANCE CasRegister WITH
    value <- vault, status <- [c \in VaultCalls |-> StatusOf(c)],
    Cell <- PersonOf, IsWrite <- IsPut, Content <- BodyOf

\* PUT and DELETE of a person's vault, made of several file operations,
\* behave as one compare-and-swap register: no write lands on a version its
\* precondition did not name, and what was refused left no trace
\* (VaultStore.TryWriteVaultAsync, DeleteEverythingForAsync).
VaultIsARegister == Register!Spec

\* A login key is never taken from under a vault: when the key file goes,
\* there is no vault that could have been sealed to it (DELETE /api/vault
\* holds one gate from the vault to the key).
NoKeyTakenFromAVault ==
  [][\A p \in People : key[p] # Absent /\ key'[p] = Absent => vault[p] = Absent]_vars

\* Two clients of one person are never given two keys, whichever processes
\* answer them: the keys handed out since the file was last removed are the
\* one in the file (LoginKeyStore.MintAsync).
OneKeyHandedOut == \A p \in People : issued[p] \subseteq {key[p]}

\* A sync that registers its person never replaces a record an administrator
\* wrote, a block above all; only a deletion takes such a record away
\* (OrgMembersStore.InsertIfAbsentAsync).
SyncKeepsAnEdit ==
  [][\A p \in People :
       member[p] # Absent /\ member[p].by = "admin"
         => member'[p] = Absent \/ member'[p].by = "admin"]_vars

\* A share that was answered 201 and still waits in the inbox can be taken
\* back by its sender: the receipt that names it is there, whatever the
\* maintenance, a block and other requests did in between.  A file the disk
\* would not delete is the exception the code accepts.
PendingCanBeWithdrawn ==
  \A s \in inbox :
    (refusals = 0 /\ \A c \in calls : c.op = "post" /\ c.share = s => pc[c] = "201")
      => receipt[s] # "none"

\* A receipt whose share has left the inbox does not stay in the sender's
\* list as pending for ever (VaultStore.ReconcileSentAsync).
ReceiptsSettle ==
  \A s \in Shares : (receipt[s] = "sent" /\ s \notin inbox) ~> (receipt[s] # "sent" \/ s \in inbox)

\* The log carries one departure for one share: "both read it and only one
\* removes it" (VaultStore.TakeShareAsync).
OneDeparture ==
  \A r1, r2 \in rows : r1[1] = r2[1] => r1 = r2
=============================================================================
