----------------------------- MODULE WindowLock -----------------------------
(***************************************************************************)
(* The cross-window write lock of one profile: windowLock.ts (the lock     *)
(* directory, its holder file, the stale break, the fenced release) under  *)
(* leasedQueue.ts (take, wait, heartbeat, release around one piece of      *)
(* work).  One action per file-system call, because every call is an await *)
(* and any other window may run before it takes effect.                    *)
(*                                                                         *)
(* Time is kept as ages that stop growing at TTL: the code only ever asks  *)
(* whether now() - at has reached LOCK_TTL_MS, so an age of TTL stands for *)
(* every older one and no clock bound is needed.  A window that takes no   *)
(* step while Tick does is a frozen extension host.                        *)
(***************************************************************************)
EXTENDS Naturals, FiniteSets

CONSTANTS Windows,   \* extension hosts that share the profile
          TTL,       \* LOCK_TTL_MS, in ticks
          MaxTakes,  \* bound: acquisitions per window
          NoDir,     \* nothing stands at the lock's path
          NoHolder   \* the directory has no holder file

ASSUME WindowsAssumption == IsFiniteSet(Windows)
ASSUME TTLAssumption == TTL \in Nat \ {0}
ASSUME MaxTakesAssumption == MaxTakes \in Nat

VARIABLES dir,      \* what stands at the lock's path: NoDir or a directory
          pc,       \* where each window's take / work / release has got to
          patient,  \* run (TRUE: poll until held) or runOrSkip (FALSE)
          takes,    \* acquisitions so far: the fencing id is <<window, takes>>
          seen,     \* the age heldSince read
          beat,     \* the heartbeat call in flight: [pc, id]
          breaks    \* history: how many directories have been renamed aside

vars == <<dir, pc, patient, takes, seen, beat, breaks>>

Ids == Windows \X (0 .. MaxTakes)
Ages == 0 .. TTL
Holders == [id : Ids, age : Ages]
Dirs == [age : Ages, holder : Holders \cup {NoHolder}, drafts : SUBSET Holders]

ASSUME NoHolderAssumption == NoHolder \notin Holders
ASSUME NoDirAssumption == NoDir \notin Dirs

Labels == {"idle", "mkdir", "mkdir2", "draft", "rename", "read", "stat", "judge", "aside",
           "pause", "work", "relRead", "relEmpty", "relRmdir", "dead"}

TypeOK ==
  /\ dir \in Dirs \cup {NoDir}
  /\ pc \in [Windows -> Labels]
  /\ patient \in [Windows -> BOOLEAN]
  /\ takes \in [Windows -> 0 .. MaxTakes]
  /\ seen \in [Windows -> Ages]
  /\ beat \in [Windows -> [pc : {"none", "draft", "rename"}, id : Ids]]
  /\ breaks \in Nat

-----------------------------------------------------------------------------
(* The holder file, written through a draft and a rename.                  *)

IdOf(w) == <<w, takes[w]>>
HasHolder == dir # NoDir /\ dir.holder # NoHolder
IsOurs(id) == HasHolder /\ dir.holder.id = id
HasDraft(id) == dir # NoDir /\ \E d \in dir.drafts : d.id = id

\* A slip WriteDraft must not make: a renewed deadline instead of a timestamp of the past.
WriteDraftDeadline(id) ==
  dir' = [dir EXCEPT !.drafts = {d \in @ : d.id # id} \cup {[id |-> id, age |-> 0 - 1]}]

\* writeFile of the draft, stamped now, into whatever directory stands there.
WriteDraft(id) ==
  dir' = [dir EXCEPT !.drafts = {d \in @ : d.id # id} \cup {[id |-> id, age |-> 0]}]

\* rename of the draft over holder.json: a reader sees the old file or the new one.
RenameDraft(id) ==
  \E d \in dir.drafts :
    /\ d.id = id
    /\ dir' = [dir EXCEPT !.holder = d, !.drafts = @ \ {d}]

NoBeat(w) == [pc |-> "none", id |-> <<w, 0>>]
Goto(w, label) == pc' = [pc EXCEPT ![w] = label]

-----------------------------------------------------------------------------
(* LeasedQueue.holding and WindowLock.take.                                *)

Init ==
  /\ dir = NoDir
  /\ pc = [w \in Windows |-> "idle"]
  /\ patient = [w \in Windows |-> TRUE]
  /\ takes = [w \in Windows |-> 0]
  /\ seen = [w \in Windows |-> 0]
  /\ beat = [w \in Windows |-> NoBeat(w)]
  /\ breaks = 0

\* A window's queue starts its next piece of work: run waits, runOrSkip does not.
Request(w) ==
  /\ pc[w] = "idle"
  /\ takes[w] < MaxTakes
  /\ \E p \in BOOLEAN : patient' = [patient EXCEPT ![w] = p]
  /\ Goto(w, "mkdir")
  /\ UNCHANGED <<dir, takes, seen, beat, breaks>>

\* take() answered undefined: poll again, or skip.
NotTaken(w) ==
  /\ Goto(w, IF patient[w] THEN "pause" ELSE "idle")
  /\ patient' = [patient EXCEPT ![w] = TRUE]   \* its initial value: the local is gone

\* A slip Claim must not make: mkdir with `recursive`, for which an existing directory is a success.
ClaimRecursive(w) ==
  /\ pc[w] \in {"mkdir", "mkdir2"}
  /\ takes[w] < MaxTakes
  /\ takes' = [takes EXCEPT ![w] = @ + 1]
  /\ dir' = IF dir # NoDir THEN dir
            ELSE [age |-> 0, holder |-> NoHolder, drafts |-> {}]
  /\ Goto(w, "draft")
  /\ patient' = [patient EXCEPT ![w] = TRUE]
  /\ UNCHANGED <<seen, beat, breaks>>

\* mkdir: atomic. Success is the lock; EEXIST is somebody else's. "mkdir2" is the one retry
\* after a stale break.
Claim(w) ==
  /\ pc[w] \in {"mkdir", "mkdir2"}
  /\ dir = NoDir
  /\ takes[w] < MaxTakes
  /\ takes' = [takes EXCEPT ![w] = @ + 1]
  /\ dir' = [age |-> 0, holder |-> NoHolder, drafts |-> {}]
  /\ Goto(w, "draft")
  /\ patient' = [patient EXCEPT ![w] = TRUE]
  /\ UNCHANGED <<seen, beat, breaks>>

ClaimRefused(w) ==
  /\ dir # NoDir
  /\ \/ pc[w] = "mkdir" /\ Goto(w, "read") /\ UNCHANGED patient
     \/ pc[w] = "mkdir2" /\ NotTaken(w)
  /\ UNCHANGED <<dir, takes, seen, beat, breaks>>

\* The claim's own write of the holder file. ENOENT (broken meanwhile) rejects the whole run.
ClaimDraft(w) ==
  /\ pc[w] = "draft"
  /\ \/ dir # NoDir /\ WriteDraft(IdOf(w)) /\ Goto(w, "rename")
     \/ dir = NoDir /\ Goto(w, "idle") /\ UNCHANGED dir
  /\ UNCHANGED <<patient, takes, seen, beat, breaks>>

ClaimRename(w) ==
  /\ pc[w] = "rename"
  /\ \/ HasDraft(IdOf(w)) /\ RenameDraft(IdOf(w)) /\ Goto(w, "work")
     \/ ~HasDraft(IdOf(w)) /\ Goto(w, "idle") /\ UNCHANGED dir
  /\ UNCHANGED <<patient, takes, seen, beat, breaks>>

\* heldSince, first half: the holder's own timestamp when there is one.
ReadHolder(w) ==
  /\ pc[w] = "read"
  /\ \/ /\ HasHolder
        /\ seen' = [seen EXCEPT ![w] = dir.holder.age]
        /\ Goto(w, "judge")
     \/ /\ ~HasHolder
        /\ Goto(w, "stat")
        /\ UNCHANGED seen
  /\ UNCHANGED <<dir, patient, takes, beat, breaks>>

\* A slip StatDir must not make: no fallback, a directory without a holder file has no age.
StatDirNoFallback(w) ==
  /\ pc[w] = "stat"
  /\ NotTaken(w)
  /\ UNCHANGED <<dir, takes, seen, beat, breaks>>

\* heldSince, second half: the directory's creation time, for a claim that never wrote its file.
StatDir(w) ==
  /\ pc[w] = "stat"
  /\ \/ /\ dir # NoDir
        /\ seen' = [seen EXCEPT ![w] = dir.age]
        /\ Goto(w, "judge")
        /\ UNCHANGED patient
     \/ /\ dir = NoDir
        /\ NotTaken(w)
        /\ UNCHANGED seen
  /\ UNCHANGED <<dir, takes, beat, breaks>>

Judge(w) ==
  /\ pc[w] = "judge"
  /\ \/ /\ seen[w] < TTL
        /\ NotTaken(w)
        /\ seen' = [seen EXCEPT ![w] = 0]
     \/ /\ seen[w] = TTL
        /\ Goto(w, "aside")
        /\ UNCHANGED <<patient, seen>>
  /\ UNCHANGED <<dir, takes, beat, breaks>>

\* The rename aside takes whatever directory has the name by now; the removal of the
\* renamed directory touches nothing shared.
RenameAside(w) ==
  /\ pc[w] = "aside"
  /\ \/ /\ dir # NoDir
        /\ dir' = NoDir
        /\ breaks' = breaks + 1
        /\ Goto(w, "mkdir2")
        /\ UNCHANGED patient
     \/ /\ dir = NoDir
        /\ NotTaken(w)
        /\ UNCHANGED <<dir, breaks>>
  /\ seen' = [seen EXCEPT ![w] = 0]
  /\ UNCHANGED <<takes, beat>>

\* The poll interval has passed: a whole new take().
Poll(w) ==
  /\ pc[w] = "pause"
  /\ Goto(w, "mkdir")
  /\ UNCHANGED <<dir, patient, takes, seen, beat, breaks>>

-----------------------------------------------------------------------------
(* The heartbeat timer (one call in flight at a time) and the release.     *)

BeatEnds(w) == beat' = [beat EXCEPT ![w] = NoBeat(w)]

\* The timer fires while the work runs; beat() first asks whether the lock is still ours.
BeatRead(w) ==
  /\ pc[w] = "work"
  /\ beat[w].pc = "none"
  /\ IsOurs(IdOf(w))
  /\ beat' = [beat EXCEPT ![w] = [pc |-> "draft", id |-> IdOf(w)]]
  /\ UNCHANGED <<dir, pc, patient, takes, seen, breaks>>

\* Stopping the timer does not recall a beat already past its check.
BeatDraft(w) ==
  /\ beat[w].pc = "draft"
  /\ \/ dir # NoDir /\ WriteDraft(beat[w].id) /\ beat' = [beat EXCEPT ![w].pc = "rename"]
     \/ dir = NoDir /\ BeatEnds(w) /\ UNCHANGED dir
  /\ UNCHANGED <<pc, patient, takes, seen, breaks>>

BeatRename(w) ==
  /\ beat[w].pc = "rename"
  /\ \/ HasDraft(beat[w].id) /\ RenameDraft(beat[w].id)
     \/ ~HasDraft(beat[w].id) /\ UNCHANGED dir
  /\ BeatEnds(w)
  /\ UNCHANGED <<pc, patient, takes, seen, breaks>>

WorkDone(w) ==
  /\ pc[w] = "work"
  /\ Goto(w, "relRead")
  /\ UNCHANGED <<dir, patient, takes, seen, beat, breaks>>

\* release: the fence, then rm -r, which empties the directory and then removes it.
ReleaseRead(w) ==
  /\ pc[w] = "relRead"
  /\ Goto(w, IF IsOurs(IdOf(w)) THEN "relEmpty" ELSE "idle")
  /\ UNCHANGED <<dir, patient, takes, seen, beat, breaks>>

ReleaseEmpty(w) ==
  /\ pc[w] = "relEmpty"
  /\ dir' = IF dir = NoDir THEN NoDir ELSE [dir EXCEPT !.holder = NoHolder, !.drafts = {}]
  /\ Goto(w, "relRmdir")
  /\ UNCHANGED <<patient, takes, seen, beat, breaks>>

\* rmdir fails on a directory something was written into meanwhile, and the run rejects.
ReleaseRmdir(w) ==
  /\ pc[w] = "relRmdir"
  /\ dir' = IF dir # NoDir /\ dir.holder = NoHolder /\ dir.drafts = {} THEN NoDir ELSE dir
  /\ Goto(w, "idle")
  /\ UNCHANGED <<patient, takes, seen, beat, breaks>>

-----------------------------------------------------------------------------
(* The environment: time, and a window killed at any point.                *)

Older(age) == IF age < TTL THEN age + 1 ELSE TTL
OlderStamp(h) == [h EXCEPT !.age = Older(@)]

Tick ==
  /\ dir' = IF dir = NoDir THEN NoDir
            ELSE [dir EXCEPT !.age = Older(@),
                             !.holder = IF @ = NoHolder THEN NoHolder ELSE OlderStamp(@),
                             !.drafts = {OlderStamp(d) : d \in @}]
  /\ seen' = [w \in Windows |-> IF pc[w] = "judge" THEN Older(seen[w]) ELSE seen[w]]
  /\ UNCHANGED <<pc, patient, takes, beat, breaks>>

Crash(w) ==
  /\ pc[w] # "dead"
  /\ Goto(w, "dead")
  /\ BeatEnds(w)
  /\ UNCHANGED <<dir, patient, takes, seen, breaks>>

TakeStep(w) ==
  \/ Claim(w) \/ ClaimRefused(w) \/ ClaimDraft(w) \/ ClaimRename(w)
  \/ ReadHolder(w) \/ StatDir(w) \/ Judge(w) \/ RenameAside(w) \/ Poll(w)
BeatStep(w) == BeatDraft(w) \/ BeatRename(w)
ReleaseStep(w) == ReleaseRead(w) \/ ReleaseEmpty(w) \/ ReleaseRmdir(w)

Next ==
  \/ \E w \in Windows :
       \/ Request(w) \/ TakeStep(w) \/ BeatRead(w) \/ BeatStep(w)
       \/ WorkDone(w) \/ ReleaseStep(w) \/ Crash(w)
  \/ Tick

Spec == Init /\ [][Next]_vars

(* An extension host keeps running its awaits, the work it was given ends, *)
(* and the clock moves.  Nothing makes a window ask for the lock, beat or  *)
(* crash.                                                                  *)
Fairness ==
  /\ WF_vars(Tick)
  /\ \A w \in Windows : WF_vars(TakeStep(w) \/ WorkDone(w) \/ ReleaseStep(w))

FairSpec == Spec /\ Fairness

-----------------------------------------------------------------------------
(* Properties.                                                             *)

\* From the mkdir that succeeded to the end of the release.
HoldingLabels == {"draft", "rename", "work", "relRead", "relEmpty", "relRmdir"}
Holding == {w \in Windows : pc[w] \in HoldingLabels}

\* Every stale break costs at most one extra writer: the windows that believe they hold
\* the lock are never more than the directories renamed aside so far, plus the one that
\* stands; before the first break the lock excludes.  This is what the "residual race" of
\* windowLock.ts:31-39 amounts to.
WritersBounded ==
  Cardinality(Holding) <= breaks + (IF dir = NoDir THEN 0 ELSE 1)

\* A window that waits (run, not runOrSkip) does not wait for ever, whatever point another
\* window was killed at: a dead holder's directory is broken, with or without a holder file.
Waiting(w) == patient[w] /\ pc[w] \in {"mkdir", "mkdir2", "read", "stat", "judge", "aside", "pause"}
WaitersGetThrough == \A w \in Windows : Waiting(w) ~> ~Waiting(w)
=============================================================================
