--------------------------- MODULE MCVaultServer ---------------------------
(* Small scenes of VaultServer for TLC: two people, two shares, requests   *)
(* that meet.                                                              *)
EXTENDS VaultServer, TLC

MCFrom(s) == IF s = "s1" THEN "ann" ELSE "bob"
MCTo(s) == IF s = "s1" THEN "bob" ELSE "ann"

C(op, who, n) == [op |-> op, who |-> who, proc |-> "main", n |-> n]
PutOf(n, body, pre) == C("put", "bob", n) @@ [body |-> body, pre |-> pre]
EditOf(n, who, set) == C("edit", who, n) @@ [set |-> set]
ShareOf(op, who, n, s) == C(op, who, n) @@ [share |-> s]
Beside(c) == [c EXCEPT !.proc = "next"]   \* on the other process
TheSweep == C("sweep", "ann", 0)

Nothing == [p \in People |-> Absent]
Dev == [role |-> "dev", active |-> TRUE, by |-> "admin"]

AccountScene(cs, v, k, m) ==
  [calls |-> cs, vault |-> [Nothing EXCEPT !["bob"] = v],
   key |-> [Nothing EXCEPT !["bob"] = k], member |-> [Nothing EXCEPT !["bob"] = m],
   inbox |-> {}]

ShareScene(cs, waiting) ==
  [calls |-> cs \cup {TheSweep}, vault |-> Nothing, key |-> Nothing,
   member |-> Nothing, inbox |-> waiting]

\* Two machines write over one version, a third, new one finds no vault, and
\* the account is deleted.
Writers == AccountScene(
  {PutOf(1, "b1", "b0"), PutOf(2, "b2", "b0"), PutOf(3, "b1", "absent"),
   C("delete", "bob", 4)}, "b0", 7, Dev)

\* A first sync, a sync of another machine, and a deletion.
FirstSyncs == AccountScene(
  {PutOf(1, "b1", "absent"), PutOf(2, "b2", "existing"), C("delete", "bob", 3)}, Absent, Absent, Absent)

\* A client that names no version, an administrator's block and unblock.
Edits == AccountScene(
  {PutOf(1, "b1", "any"), EditOf(2, "bob", "block"), EditOf(3, "bob", "unblock"),
   C("delete", "bob", 4)}, Absent, Absent, Absent)

\* Two processes on one volume mint, a role is given, an account deleted.
Keys == AccountScene(
  {C("key", "bob", 1), Beside(C("key", "bob", 2)), C("key", "bob", 3),
   C("delete", "bob", 4)}, Absent, Absent, Dev)

Roles == AccountScene(
  {C("key", "bob", 1), Beside(C("key", "bob", 2)), EditOf(3, "bob", "dev"),
   PutOf(4, "b1", "absent")}, Absent, Absent, Absent)

\* A share is sent, answered and withdrawn.
Answering == ShareScene(
  {ShareOf("post", "ann", 1, "s1"), ShareOf("take", "bob", 2, "s1"),
   ShareOf("withdraw", "ann", 3, "s1")}, {})

\* A block meets a share on its way in that its sender takes back.
BlocksArriving == ShareScene(
  {ShareOf("post", "ann", 1, "s1"), EditOf(2, "bob", "block"),
   ShareOf("withdraw", "ann", 3, "s1")}, {})

\* A block meets a share that the blocked person sent.
BlocksWaiting == ShareScene(
  {EditOf(1, "bob", "block"), ShareOf("take", "ann", 2, "s2")}, {"s2"})

\* A recipient deletes the account while a share arrives.
Leaving == ShareScene(
  {ShareOf("post", "ann", 1, "s1"), C("delete", "bob", 2),
   ShareOf("withdraw", "ann", 3, "s1")}, {})

\* Two windows answer one share that its sender takes back.
AnsweringTwice == ShareScene(
  {ShareOf("take", "bob", 1, "s1"), ShareOf("take", "bob", 2, "s1"),
   ShareOf("withdraw", "ann", 3, "s1")}, {"s1"})

AllScenes ==
  {Writers, FirstSyncs, Edits, Keys, Roles, Answering, BlocksArriving,
   BlocksWaiting, Leaving}
AnswerScenes == {AnsweringTwice}
=============================================================================
