--------------------------- MODULE VaultAccounts ---------------------------
(***************************************************************************)
(* One person's account on the vault server (src_minimalapi_server): the   *)
(* vault file, its owner sidecar, the login key and the registry record,   *)
(* and the requests that read and write them: PUT and DELETE /api/vault,   *)
(* GET /api/org/login-key and an administrator's edit of a record.         *)
(*                                                                         *)
(* A request is a process.  A label of pc is an await, or a place between  *)
(* two file operations, where other requests run.  The per-person gate     *)
(* (VaultStore.GateFor) lives in one server process: another process on    *)
(* the same volume has a gate of its own.                                  *)
(***************************************************************************)
EXTENDS Naturals, FiniteSets

CONSTANTS People, Procs,
          Bodies,      \* encrypted vaults
          Shares,      \* share ids
          From(_), To(_),   \* the sender and the recipient of a share
          Absent,      \* no file
          Free,        \* a gate nobody holds
          MaxRefusals  \* bound: file operations the disk refuses

VARIABLES calls,    \* the requests that are made: records [op, who, proc, n, ...]
          pc,       \* where each request is
          seen,     \* what each request read last
          gate,     \* process -> person -> the request that holds the gate
          vault,    \* person -> the vault file, or Absent
          owner,    \* person -> whether the owner sidecar exists
          key,      \* person -> the login key file, or Absent
          member,   \* person -> the registry record, or Absent
          work,     \* a loop over files: what is left, at hand, and taken
          inbox,    \* the share files that wait in their recipient's inbox
          refusals, \* counter for the bound MaxRefusals
          issued    \* ghost: person -> the login keys handed out since the
                    \* key file was last removed

accountVars == <<vault, owner, key, member>>

\* A slip DefaultRecord must not make: a role no build reads back.
DefaultRecordOfNoRole == [role |-> "", active |-> TRUE, by |-> "sync"]

\* MemberRecord.DefaultFor: a person who syncs is an active member.
DefaultRecord == [role |-> "member", active |-> TRUE, by |-> "sync"]

Records == [role : {"member", "dev"}, active : BOOLEAN, by : {"sync", "admin"}]

----------------------------------------------------------------------------
(* The steps of a request *)

At(c, op, l) == c.op = op /\ pc[c] = l

Go(c, l) == pc' = [pc EXCEPT ![c] = l]

See(c, v) == seen' = [seen EXCEPT ![c] = v]

Held(c) == gate[c.proc][c.who] = c

WaitGate(c) ==
  /\ gate[c.proc][c.who] = Free
  /\ gate' = [gate EXCEPT ![c.proc][c.who] = c]

Release(c) ==
  IF Held(c) THEN gate' = [gate EXCEPT ![c.proc][c.who] = Free] ELSE UNCHANGED gate

\* The disk refuses one file operation: a lock, a permission, a full volume.
Refused == refusals < MaxRefusals /\ refusals' = refusals + 1

\* CallerStanding.Decide: only a record that says so refuses its person.
Deactivated(p) == member[p] # Absent /\ ~member[p].active

\* RequireCaller opens every request: a blocked person is refused.
Arrive(c) ==
  /\ pc[c] = "new" /\ c.op \notin {"edit", "sweep"}
  /\ Go(c, IF Deactivated(c.who) THEN "403" ELSE "start")
  /\ UNCHANGED <<calls, seen, gate, accountVars, inbox, refusals, issued>>

----------------------------------------------------------------------------
(* PUT /api/vault *)

\* The precondition: none, If-None-Match: *, If-Match: *, or If-Match with
\* the ETag of the content that was read.  The ETag is a hash of the content.
Fits(c, current) ==
  CASE c.pre = "any" -> TRUE
    [] c.pre = "absent" -> current = Absent
    [] c.pre = "existing" -> current # Absent
    [] OTHER -> current = c.pre

\* A slip TryWriteEnter must not make: the check is made without the gate.
TryWriteEnterUngated(c) ==
  /\ At(c, "put", "start") /\ Go(c, "check")
  /\ UNCHANGED <<calls, seen, gate, accountVars, inbox, refusals, issued>>

TryWriteEnter(c) ==
  /\ At(c, "put", "start") /\ WaitGate(c) /\ Go(c, "check")
  /\ UNCHANGED <<calls, seen, accountVars, inbox, refusals, issued>>

TryWriteCheck(c) ==
  /\ At(c, "put", "check")
  /\ IF Fits(c, vault[c.who])
     THEN Go(c, "move") /\ UNCHANGED gate
     ELSE Go(c, "412") /\ Release(c)
  /\ UNCHANGED <<calls, seen, accountVars, inbox, refusals, issued>>

\* AtomicWriteAsync: the move of the temp file is the write.
TryWriteMove(c) ==
  /\ At(c, "put", "move")
  /\ vault' = [vault EXCEPT ![c.who] = c.body]
  /\ Release(c) /\ Go(c, "owner")
  /\ UNCHANGED <<calls, seen, owner, key, member, inbox, refusals, issued>>

RecordOwner(c) ==
  /\ At(c, "put", "owner")
  /\ owner' = [owner EXCEPT ![c.who] = TRUE]
  /\ Go(c, "register")
  /\ UNCHANGED <<calls, seen, gate, vault, key, member, inbox, refusals, issued>>

RegisterEnter(c) ==
  /\ At(c, "put", "register") /\ WaitGate(c) /\ Go(c, "lookup")
  /\ UNCHANGED <<calls, seen, accountVars, inbox, refusals, issued>>

\* A slip InsertIfAbsent must not make: the caller's record is looked up
\* before the gate is taken, and written once it is held.
InsertLookedUpFirst(c) ==
  \/ /\ At(c, "put", "register")
     /\ Go(c, IF member[c.who] = Absent THEN "insert" ELSE "204")
     /\ UNCHANGED <<calls, seen, gate, accountVars, inbox, refusals, issued>>
  \/ /\ At(c, "put", "insert")
     /\ gate[c.proc][c.who] = Free
     /\ member' = [member EXCEPT ![c.who] = DefaultRecord]
     /\ Go(c, "204")
     /\ UNCHANGED <<calls, seen, gate, vault, owner, key, inbox, refusals, issued>>

\* Only a person with no record is written, decided with the gate held.
InsertIfAbsent(c) ==
  \/ /\ At(c, "put", "lookup")
     /\ IF member[c.who] = Absent
        THEN Go(c, "insert") /\ UNCHANGED gate
        ELSE Go(c, "204") /\ Release(c)
     /\ UNCHANGED <<calls, seen, accountVars, inbox, refusals, issued>>
  \/ /\ At(c, "put", "insert")
     /\ member' = [member EXCEPT ![c.who] = DefaultRecord]
     /\ Release(c) /\ Go(c, "204")
     /\ UNCHANGED <<calls, seen, vault, owner, key, inbox, refusals, issued>>

Put(c) ==
  \/ TryWriteEnter(c) \/ TryWriteCheck(c) \/ TryWriteMove(c)
  \/ RecordOwner(c) \/ RegisterEnter(c) \/ InsertIfAbsent(c)

----------------------------------------------------------------------------
(* DELETE /api/vault: one gate for all of it *)

DeleteEnter(c) ==
  /\ At(c, "delete", "start") /\ WaitGate(c) /\ Go(c, "vault")
  /\ UNCHANGED <<calls, seen, accountVars, inbox, refusals, issued>>

\* A slip DeleteVault must not make: the gate is given up once the vault is
\* gone.
DeleteVaultAndRelease(c) ==
  /\ At(c, "delete", "vault")
  /\ \/ /\ vault' = [vault EXCEPT ![c.who] = Absent]
        /\ Go(c, "owner") /\ UNCHANGED refusals
     \/ Refused /\ Go(c, "503") /\ UNCHANGED vault
  /\ Release(c)
  /\ UNCHANGED <<calls, seen, owner, key, member, inbox, issued>>

\* A slip DeleteVault must not make: an early return outside the finally.
DeleteVaultKeepsGate(c) ==
  /\ At(c, "delete", "vault")
  /\ \/ /\ vault' = [vault EXCEPT ![c.who] = Absent]
        /\ Go(c, "owner") /\ UNCHANGED refusals
     \/ Refused /\ Go(c, "503") /\ UNCHANGED vault
  /\ UNCHANGED <<calls, seen, gate, owner, key, member, inbox, issued>>

\* The vault goes first and alone: if it will not go, nothing else does.
DeleteVault(c) ==
  /\ At(c, "delete", "vault")
  /\ \/ /\ vault' = [vault EXCEPT ![c.who] = Absent]
        /\ Go(c, "owner") /\ UNCHANGED <<gate, refusals>>
     \/ Refused /\ Go(c, "503") /\ Release(c) /\ UNCHANGED vault
  /\ UNCHANGED <<calls, seen, owner, key, member, inbox, issued>>

DeleteOwner(c) ==
  /\ At(c, "delete", "owner") /\ Go(c, "inbox")
  /\ \/ owner' = [owner EXCEPT ![c.who] = FALSE] /\ UNCHANGED refusals
     \/ Refused /\ UNCHANGED owner
  /\ UNCHANGED <<calls, seen, gate, vault, key, member, inbox, issued>>

\* A tree that will not go whole may have lost some of its files.
DeleteInbox(c) ==
  /\ At(c, "delete", "inbox") /\ Go(c, "key")
  /\ \/ inbox' = {s \in inbox : To(s) # c.who} /\ UNCHANGED refusals
     \/ /\ Refused
        /\ \E gone \in SUBSET {s \in inbox : To(s) = c.who} : inbox' = inbox \ gone
  /\ UNCHANGED <<calls, seen, gate, accountVars, issued>>

\* LoginKeyStore.RemoveAsync, with the vault's gate still held.
DeleteKey(c) ==
  /\ At(c, "delete", "key") /\ Go(c, "member")
  /\ \/ /\ key' = [key EXCEPT ![c.who] = Absent]
        /\ issued' = [issued EXCEPT ![c.who] = {}]
        /\ UNCHANGED refusals
     \/ Refused /\ UNCHANGED <<key, issued>>
  /\ UNCHANGED <<calls, seen, gate, vault, owner, member, inbox>>

\* OrgMembersStore.RemoveWhileGateHeld.
DeleteMember(c) ==
  /\ At(c, "delete", "member") /\ Go(c, "204") /\ Release(c)
  /\ \/ member' = [member EXCEPT ![c.who] = Absent] /\ UNCHANGED refusals
     \/ Refused /\ UNCHANGED member
  /\ UNCHANGED <<calls, seen, vault, owner, key, inbox, issued>>

Delete(c) ==
  \/ DeleteEnter(c) \/ DeleteVault(c) \/ DeleteOwner(c) \/ DeleteInbox(c)
  \/ DeleteKey(c) \/ DeleteMember(c)

----------------------------------------------------------------------------
(* GET /api/org/login-key: LoginKeyStore.GetOrMintAsync *)

\* The request is answered with the key k.
Answered(c, k) ==
  /\ issued' = [issued EXCEPT ![c.who] = @ \cup {k}]
  /\ See(c, k) /\ Go(c, "200")

\* The key that exists is served to anybody; only a developer's is minted.
KeyFind(c) ==
  /\ At(c, "key", "start")
  /\ IF key[c.who] # Absent
     THEN Answered(c, key[c.who])
     ELSE /\ Go(c, IF member[c.who] # Absent /\ member[c.who].role = "dev"
                   THEN "mint" ELSE "404")
          /\ UNCHANGED <<seen, issued>>
  /\ UNCHANGED <<calls, gate, accountVars, inbox, refusals>>

KeyEnter(c) ==
  /\ At(c, "key", "mint") /\ WaitGate(c) /\ Go(c, "again")
  /\ UNCHANGED <<calls, seen, accountVars, inbox, refusals, issued>>

\* The loser of a race finds the winner's key under the gate.
KeyFindAgain(c) ==
  /\ At(c, "key", "again")
  /\ IF key[c.who] # Absent
     THEN Answered(c, key[c.who]) /\ Release(c)
     ELSE Go(c, "create") /\ UNCHANGED <<seen, issued, gate>>
  /\ UNCHANGED <<calls, accountVars, inbox, refusals>>

\* A slip TryCreate must not make: the move overwrites a key that exists.
TryCreateOverwriting(c) ==
  /\ At(c, "key", "create")
  /\ \/ /\ key' = [key EXCEPT ![c.who] = c.n]
        /\ Answered(c, c.n) /\ Release(c) /\ UNCHANGED refusals
     \/ Refused /\ Go(c, "lost") /\ UNCHANGED <<key, issued, seen, gate>>
  /\ UNCHANGED <<calls, vault, owner, member, inbox>>

\* The move refuses to overwrite: another process may have minted first.
TryCreate(c) ==
  /\ At(c, "key", "create")
  /\ \/ /\ key[c.who] = Absent
        /\ key' = [key EXCEPT ![c.who] = c.n]
        /\ Answered(c, c.n) /\ Release(c) /\ UNCHANGED refusals
     \/ /\ key[c.who] # Absent /\ Go(c, "lost")
        /\ UNCHANGED <<key, issued, seen, gate, refusals>>
     \/ Refused /\ Go(c, "lost") /\ UNCHANGED <<key, issued, seen, gate>>
  /\ UNCHANGED <<calls, vault, owner, member, inbox>>

\* The disk decides: the winner's key, or a server that cannot write.
AfterAFailedCreate(c) ==
  /\ At(c, "key", "lost") /\ Release(c)
  /\ IF key[c.who] # Absent
     THEN Answered(c, key[c.who])
     ELSE Go(c, "503") /\ UNCHANGED <<seen, issued>>
  /\ UNCHANGED <<calls, accountVars, inbox, refusals>>

GetKey(c) ==
  \/ KeyFind(c) \/ KeyEnter(c) \/ KeyFindAgain(c) \/ TryCreate(c)
  \/ AfterAFailedCreate(c)

----------------------------------------------------------------------------
(* An administrator's edit of a record: OrgMembersStore.UpsertAsync *)

EditEnter(c) ==
  /\ At(c, "edit", "new") /\ WaitGate(c) /\ Go(c, "read")
  /\ UNCHANGED <<calls, seen, accountVars, inbox, refusals, issued>>

EditRead(c) ==
  /\ At(c, "edit", "read")
  /\ See(c, IF member[c.who] = Absent THEN DefaultRecord ELSE member[c.who])
  /\ Go(c, "write")
  /\ UNCHANGED <<calls, gate, accountVars, inbox, refusals, issued>>

\* c.set names the field the edit sets.  A record that is inactive withdraws
\* the person's shares, whether or not it was so before.
EditWrite(c) ==
  /\ At(c, "edit", "write") /\ Release(c)
  /\ LET rec == IF c.set = "dev"
                THEN [seen[c] EXCEPT !.role = "dev", !.by = "admin"]
                ELSE [seen[c] EXCEPT !.active = (c.set = "unblock"), !.by = "admin"]
     IN /\ member' = [member EXCEPT ![c.who] = rec]
        /\ Go(c, IF c.set = "block" THEN "list" ELSE "204")
  /\ UNCHANGED <<calls, seen, vault, owner, key, inbox, refusals, issued>>

Edit(c) == EditEnter(c) \/ EditRead(c) \/ EditWrite(c)

----------------------------------------------------------------------------
(* A request that ends early *)

\* Where a request takes the client's cancellation, or an exception ends it.
\* Once the vault has gone, the rest of a deletion is owed to nobody's
\* patience; the same holds of a block once its record is written.
Abandonable(c) ==
  CASE c.op = "put" -> {"start", "check", "move", "owner", "register", "lookup", "insert"}
    [] c.op = "delete" -> {"start"}
    [] c.op = "key" -> {"mint", "again", "create", "lost"}
    [] c.op = "edit" -> {"read", "write"}
    [] OTHER -> {}

\* A write whose vault has landed stays stored, whatever became of the rest.
EndsAs(c) ==
  IF \/ c.op = "put" /\ pc[c] \in {"owner", "register", "lookup", "insert"}
     \/ c.op = "delete" /\ pc[c] \in {"owner", "inbox", "key", "member"}
  THEN "half" ELSE "gone"

Abandon(c) ==
  /\ pc[c] \in Abandonable(c)
  /\ Go(c, EndsAs(c))
  /\ Release(c)
  /\ UNCHANGED <<calls, seen, accountVars, inbox, refusals, issued>>
=============================================================================
