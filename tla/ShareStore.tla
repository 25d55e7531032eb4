----------------------------- MODULE ShareStore -----------------------------
(***************************************************************************)
(* Shares on the vault server: the recipient's inbox file, the sender's    *)
(* receipt and the rows of the corporate log, under the requests that      *)
(* send, answer and withdraw a share, the withdrawal that follows a block  *)
(* and the hourly maintenance.  None of them takes a gate: what keeps the  *)
(* two files of a share together is the order of the writes alone.         *)
(***************************************************************************)
EXTENDS VaultAccounts

CONSTANT MaxInboxItems   \* the quota of one inbox

VARIABLES receipt,  \* share -> "none", "sent" or "withdrawn" (carries a reason)
          rows,     \* the log: <<share, request, how the share left the inbox>>
          old       \* the shares older than the maintenance's maximum age

NoWork == [todo |-> {}, cur |-> Absent, taken |-> {}, stale |-> {}]

\* The loop lists its files, takes one up, and is done with it.
List(c, files) == work' = [work EXCEPT ![c].todo = files]
TakeUp(c, s) == work' = [work EXCEPT ![c].cur = s]
DoneWith(c, s) == work' = [work EXCEPT ![c].todo = @ \ {s}]
DoneTaking(c, s) == work' = [work EXCEPT ![c].todo = @ \ {s}, ![c].taken = @ \cup {s}]

InboxOf(p) == {s \in inbox : To(s) = p}
SentBy(p) == {s \in Shares : From(s) = p /\ receipt[s] # "none"}

----------------------------------------------------------------------------
(* POST /api/shares *)

\* The recipient's standing and quota, before anything is written.
PostCheck(c) ==
  /\ At(c, "post", "start")
  /\ Go(c, CASE Deactivated(To(c.share)) -> "403"
             [] Cardinality(InboxOf(To(c.share))) >= MaxInboxItems -> "409"
             [] OTHER -> "append")
  /\ UNCHANGED <<seen, work, inbox, receipt, rows, refusals>>

\* A slip PostWrites must not make: the receipt first.
PostReceiptFirst(c) ==
  \/ /\ At(c, "post", "append") /\ receipt' = [receipt EXCEPT ![c.share] = "sent"]
     /\ Go(c, "receipt") /\ UNCHANGED <<seen, work, inbox, rows, refusals>>
  \/ /\ At(c, "post", "receipt") /\ inbox' = inbox \cup {c.share}
     /\ Go(c, "201") /\ UNCHANGED <<seen, work, receipt, rows, refusals>>

\* AppendShareAsync, then AppendSentAsync.
PostWrites(c) ==
  \/ /\ At(c, "post", "append") /\ inbox' = inbox \cup {c.share}
     /\ Go(c, "receipt") /\ UNCHANGED <<seen, work, receipt, rows, refusals>>
  \/ /\ At(c, "post", "receipt") /\ receipt' = [receipt EXCEPT ![c.share] = "sent"]
     /\ Go(c, "201") /\ UNCHANGED <<seen, work, inbox, rows, refusals>>

Post(c) == PostCheck(c) \/ PostWrites(c)

----------------------------------------------------------------------------
(* DELETE /api/shares/{id}: the recipient accepts or declines *)

TakeRead(c) ==
  /\ At(c, "take", "start") /\ See(c, c.share \in inbox) /\ Go(c, "exists")
  /\ UNCHANGED <<work, inbox, receipt, rows, refusals>>

\* DeleteShare asks whether the file exists, then deletes it; a delete of a
\* file that has gone in between is no error.
TakeExists(c) ==
  /\ At(c, "take", "exists")
  /\ Go(c, IF c.share \in inbox THEN "remove" ELSE "404")
  /\ UNCHANGED <<seen, work, inbox, receipt, rows, refusals>>

TakeRemove(c) ==
  /\ At(c, "take", "remove") /\ inbox' = inbox \ {c.share} /\ Go(c, "row")
  /\ UNCHANGED <<seen, work, receipt, rows, refusals>>

\* A share that could not be read is deleted without a row.
TakeRow(c) ==
  /\ At(c, "take", "row") /\ Go(c, "204")
  /\ rows' = IF seen[c] THEN rows \cup {<<c.share, c, "answered">>} ELSE rows
  /\ UNCHANGED <<seen, work, inbox, receipt, refusals>>

Take(c) == TakeRead(c) \/ TakeExists(c) \/ TakeRemove(c) \/ TakeRow(c)

----------------------------------------------------------------------------
(* DELETE /api/shares/sent/{id}: the sender withdraws or dismisses *)

WithdrawRead(c) ==
  /\ At(c, "withdraw", "start")
  /\ Go(c, CASE receipt[c.share] = "none" -> "404"
             [] receipt[c.share] = "withdrawn" -> "dismiss"
             [] OTHER -> "exists")
  /\ UNCHANGED <<seen, work, inbox, receipt, rows, refusals>>

WithdrawExists(c) ==
  /\ At(c, "withdraw", "exists")
  /\ Go(c, IF c.share \in inbox THEN "remove" ELSE "late")
  /\ UNCHANGED <<seen, work, inbox, receipt, rows, refusals>>

WithdrawRemove(c) ==
  /\ At(c, "withdraw", "remove") /\ inbox' = inbox \ {c.share} /\ Go(c, "forget")
  /\ UNCHANGED <<seen, work, receipt, rows, refusals>>

\* DeleteSent, after a withdrawal, after one that came too late, and when a
\* receipt that carries a reason is dismissed.
WithdrawForget(c) ==
  /\ c.op = "withdraw" /\ pc[c] \in {"forget", "late", "dismiss"}
  /\ receipt' = [receipt EXCEPT ![c.share] = "none"]
  /\ Go(c, CASE pc[c] = "forget" -> "row" [] pc[c] = "late" -> "409" [] OTHER -> "204")
  /\ UNCHANGED <<seen, work, inbox, rows, refusals>>

WithdrawRow(c) ==
  /\ At(c, "withdraw", "row") /\ Go(c, "204")
  /\ rows' = rows \cup {<<c.share, c, "withdrawn">>}
  /\ UNCHANGED <<seen, work, inbox, receipt, refusals>>

Withdraw(c) ==
  \/ WithdrawRead(c) \/ WithdrawExists(c) \/ WithdrawRemove(c)
  \/ WithdrawForget(c) \/ WithdrawRow(c)

----------------------------------------------------------------------------
(* WithdrawAllInvolvingAsync: a block withdraws both directions *)

BlockList(c) ==
  /\ At(c, "edit", "list") /\ List(c, InboxOf(c.who)) /\ Go(c, "items")
  /\ UNCHANGED <<seen, inbox, receipt, rows, refusals>>

\* An item that has gone is skipped.
BlockItem(c) ==
  /\ At(c, "edit", "items")
  /\ \E s \in work[c].todo :
       \/ s \in inbox /\ TakeUp(c, s) /\ Go(c, "forget")
       \/ s \notin inbox /\ DoneWith(c, s) /\ UNCHANGED pc
  /\ UNCHANGED <<seen, inbox, receipt, rows, refusals>>

\* Forget: the delete counts as done though the file may be gone by now.
BlockForget(c) ==
  /\ At(c, "edit", "forget")
  /\ \/ /\ inbox' = inbox \ {work[c].cur} /\ DoneTaking(c, work[c].cur)
        /\ Go(c, "tell") /\ UNCHANGED refusals
     \/ /\ Refused /\ DoneWith(c, work[c].cur) /\ Go(c, "items")
        /\ UNCHANGED inbox
  /\ UNCHANGED <<seen, receipt, rows>>

\* MarkWithdrawnAsync: a missing receipt is not resurrected.
BlockTell(c) ==
  /\ At(c, "edit", "tell")
  /\ Go(c, IF receipt[work[c].cur] = "none" THEN "items" ELSE "rewrite")
  /\ UNCHANGED <<seen, work, inbox, receipt, rows, refusals>>

BlockRewrite(c) ==
  /\ At(c, "edit", "rewrite") /\ Go(c, "items")
  /\ \/ /\ receipt' = [receipt EXCEPT ![work[c].cur] = "withdrawn"]
        /\ UNCHANGED refusals
     \/ Refused /\ UNCHANGED receipt
  /\ UNCHANGED <<seen, work, inbox, rows>>

BlockListSent(c) ==
  /\ At(c, "edit", "items") /\ work[c].todo = {}
  /\ List(c, SentBy(c.who)) /\ Go(c, "sents")
  /\ UNCHANGED <<seen, inbox, receipt, rows, refusals>>

BlockSent(c) ==
  /\ At(c, "edit", "sents")
  /\ \E s \in work[c].todo :
       \/ receipt[s] # "none" /\ TakeUp(c, s) /\ Go(c, "forgetSent")
       \/ receipt[s] = "none" /\ DoneWith(c, s) /\ UNCHANGED pc
  /\ UNCHANGED <<seen, inbox, receipt, rows, refusals>>

\* The recipient's copy goes before the receipt.
BlockForgetSent(c) ==
  /\ At(c, "edit", "forgetSent") /\ Go(c, "forgetReceipt")
  /\ \/ /\ inbox' = inbox \ {work[c].cur} /\ DoneTaking(c, work[c].cur)
        /\ UNCHANGED refusals
     \/ Refused /\ DoneWith(c, work[c].cur) /\ UNCHANGED inbox
  /\ UNCHANGED <<seen, receipt, rows>>

BlockForgetReceipt(c) ==
  /\ At(c, "edit", "forgetReceipt") /\ Go(c, "sents")
  /\ receipt' = [receipt EXCEPT ![work[c].cur] = "none"]
  /\ UNCHANGED <<seen, work, inbox, rows, refusals>>

\* Only a transition leaves rows.  seen[c] is the record the edit replaced.
BlockRows(c) ==
  /\ At(c, "edit", "sents") /\ work[c].todo = {} /\ Go(c, "204")
  /\ rows' = IF seen[c].active
             THEN rows \cup {<<s, c, "blocked">> : s \in work[c].taken} ELSE rows
  /\ UNCHANGED <<seen, work, inbox, receipt, refusals>>

Block(c) ==
  \/ BlockList(c) \/ BlockItem(c) \/ BlockForget(c) \/ BlockTell(c)
  \/ BlockRewrite(c) \/ BlockListSent(c) \/ BlockSent(c)
  \/ BlockForgetSent(c) \/ BlockForgetReceipt(c) \/ BlockRows(c)

----------------------------------------------------------------------------
(* ShareMaintenance.SweepAsync: reconcile, prune, rows; every hour *)

SweepList(c) ==
  /\ At(c, "sweep", "new")
  /\ List(c, {s \in Shares : receipt[s] # "none"}) /\ Go(c, "receipts")
  /\ UNCHANGED <<seen, inbox, receipt, rows, refusals>>

SweepRead(c) ==
  /\ At(c, "sweep", "receipts")
  /\ \E s \in work[c].todo : TakeUp(c, s) /\ See(c, receipt[s])
  /\ Go(c, "judge")
  /\ UNCHANGED <<inbox, receipt, rows, refusals>>

\* A slip Retirable must not make: a receipt of a share that was taken out
\* of an inbox is kept with the ones that carry a reason.
RetirableNever(s, read) == read = "none"

\* Not withdrawn, and no longer pending: a receipt that carries a reason is
\* kept for its sender to read.
Retirable(s, read) == read = "none" \/ (read = "sent" /\ s \notin inbox)

SweepJudge(c) ==
  /\ At(c, "sweep", "judge")
  /\ IF Retirable(work[c].cur, seen[c])
     THEN Go(c, "retire") /\ UNCHANGED work
     ELSE Go(c, "receipts") /\ DoneWith(c, work[c].cur)
  /\ UNCHANGED <<seen, inbox, receipt, rows, refusals>>

SweepRetire(c) ==
  /\ At(c, "sweep", "retire") /\ Go(c, "receipts") /\ DoneWith(c, work[c].cur)
  /\ \/ /\ receipt' = [receipt EXCEPT ![work[c].cur] = "none"]
        /\ UNCHANGED refusals
     \/ Refused /\ UNCHANGED receipt
  /\ UNCHANGED <<seen, inbox, rows>>

\* PruneOlderThanAsync fixes one cutoff, then prunes the inboxes.
PruneList(c) ==
  /\ At(c, "sweep", "receipts") /\ work[c].todo = {}
  /\ work' = [work EXCEPT ![c].stale = old, ![c].todo = inbox \cap old]
  /\ Go(c, "prune")
  /\ UNCHANGED <<seen, inbox, receipt, rows, refusals>>

PruneRead(c) ==
  /\ At(c, "sweep", "prune")
  /\ \E s \in work[c].todo :
       \/ s \in inbox /\ TakeUp(c, s) /\ Go(c, "expire")
       \/ s \notin inbox /\ DoneWith(c, s) /\ UNCHANGED pc
  /\ UNCHANGED <<seen, inbox, receipt, rows, refusals>>

PruneForget(c) ==
  /\ At(c, "sweep", "expire") /\ Go(c, "prune")
  /\ \/ /\ inbox' = inbox \ {work[c].cur} /\ DoneTaking(c, work[c].cur)
        /\ UNCHANGED refusals
     \/ Refused /\ DoneWith(c, work[c].cur) /\ UNCHANGED inbox
  /\ UNCHANGED <<seen, receipt, rows>>

PruneListReceipts(c) ==
  /\ At(c, "sweep", "prune") /\ work[c].todo = {}
  /\ List(c, {s \in work[c].stale : receipt[s] # "none"}) /\ Go(c, "pruneReceipts")
  /\ UNCHANGED <<seen, inbox, receipt, rows, refusals>>

PruneReceipt(c) ==
  /\ At(c, "sweep", "pruneReceipts")
  /\ \E s \in work[c].todo :
       /\ DoneWith(c, s)
       /\ \/ receipt' = [receipt EXCEPT ![s] = "none"] /\ UNCHANGED refusals
          \/ Refused /\ UNCHANGED receipt
  /\ UNCHANGED <<pc, seen, inbox, rows>>

\* One row for each expired share, and the timer starts over.
SweepRows(c) ==
  /\ At(c, "sweep", "pruneReceipts") /\ work[c].todo = {}
  /\ rows' = rows \cup {<<s, c, "expired">> : s \in work[c].taken}
  /\ Go(c, "new") /\ See(c, Absent) /\ work' = [work EXCEPT ![c] = NoWork]
  /\ UNCHANGED <<inbox, receipt, refusals>>

Sweep(c) ==
  \/ SweepList(c) \/ SweepRead(c) \/ SweepJudge(c) \/ SweepRetire(c)
  \/ PruneList(c) \/ PruneRead(c) \/ PruneForget(c)
  \/ PruneListReceipts(c) \/ PruneReceipt(c) \/ SweepRows(c)

----------------------------------------------------------------------------

\* Where the client's cancellation, or an exception, ends a share request.
ShareAbandonable(c) ==
  CASE c.op = "post" -> {"start", "append", "receipt"}
    [] c.op \in {"take", "withdraw"} -> {"start"}
    [] OTHER -> {}

\* A month passes for a share that exists.
Age(s) ==
  /\ s \notin old
  /\ s \in inbox \/ receipt[s] # "none"
  /\ old' = old \cup {s}
  /\ UNCHANGED <<pc, seen, work, inbox, receipt, rows, refusals>>
=============================================================================
