-------------------------- MODULE WindowLockProofs --------------------------
(***************************************************************************)
(* What holds of the window lock for every set of windows, every TTL and   *)
(* every number of acquisitions.  The inductive invariant is TypeOK and    *)
(* WritersBounded: a directory is what a mkdir pays for, and each of the   *)
(* steps that takes the directory away either counts as a break or ends    *)
(* the hold of the window that takes it.                                   *)
(***************************************************************************)
EXTENDS WindowLock, FiniteSetTheorems, TLAPS

-----------------------------------------------------------------------------
(* The holder file's draft and rename keep a directory a directory.        *)

\* The two writes to the holder file keep the directory well formed: writeFile and rename
\* inside the lock directory never remove it.
LEMMA DraftKeepsDir ==
  ASSUME dir \in Dirs, NEW id \in Ids, WriteDraft(id) \/ RenameDraft(id)
  PROVE  dir' \in Dirs
<1>0. 0 \in Ages
  BY TTLAssumption DEF Ages
<1>1. CASE WriteDraft(id)
  <2>1. [id |-> id, age |-> 0] \in Holders
    BY <1>0 DEF Holders
  <2>2. {d \in dir.drafts : d.id # id} \cup {[id |-> id, age |-> 0]} \in SUBSET Holders
    BY <2>1 DEF Dirs
  <2> QED BY <1>1, <2>2 DEF WriteDraft, Dirs
<1>2. CASE RenameDraft(id)
  <2>1. PICK d \in dir.drafts : dir' = [dir EXCEPT !.holder = d, !.drafts = @ \ {d}]
    BY <1>2 DEF RenameDraft
  <2>2. d \in Holders /\ dir.drafts \ {d} \in SUBSET Holders
    BY DEF Dirs
  <2> QED BY <2>1, <2>2 DEF Dirs
<1> QED BY <1>1, <1>2

\* One tick leaves every timestamp an age.
LEMMA OlderIsAge ==
  /\ \A a \in Ages : Older(a) \in Ages
  /\ \A h \in Holders : OlderStamp(h) \in Holders
<1>1. \A a \in Ages : Older(a) \in Ages
  BY TTLAssumption DEF Ages, Older
<1> QED BY <1>1 DEF OlderStamp, Holders

\* An acquisition's fencing id is an id.
LEMMA IdOfIsId == ASSUME TypeOK, NEW w \in Windows PROVE IdOf(w) \in Ids
  BY DEF TypeOK, IdOf, Ids

\* The heartbeat and the read of an idle window are well typed.
LEMMA RestingValues ==
  ASSUME NEW w \in Windows
  PROVE  /\ 0 \in Ages
         /\ NoBeat(w) \in [pc : {"none", "draft", "rename"}, id : Ids]
  BY TTLAssumption, MaxTakesAssumption DEF NoBeat, Ages, Ids

-----------------------------------------------------------------------------
(* Type correctness.                                                       *)

LEMMA TypeInit == Init => TypeOK
  BY RestingValues, MaxTakesAssumption DEF Init, TypeOK, Labels

LEMMA TypeTake ==
  ASSUME TypeOK, NEW w \in Windows, TakeStep(w) \/ Request(w)
  PROVE  TypeOK'
<1> USE DEF TypeOK, Labels
<1>1. CASE Request(w)
  BY <1>1 DEF Request, Goto
<1>2. CASE Claim(w)
  <2>1. takes[w] + 1 \in 0 .. MaxTakes
    BY <1>2, MaxTakesAssumption DEF Claim
  <2>2. dir' \in Dirs
    BY <1>2, <2>1, TTLAssumption DEF Claim, Dirs, Ids, Ages
  <2> QED BY <1>2, <2>1, <2>2 DEF Claim, Goto
<1>3. CASE ClaimRefused(w)
  BY <1>3 DEF ClaimRefused, NotTaken, Goto
<1>4. CASE ClaimDraft(w)
  <2>1. dir' \in Dirs \cup {NoDir}
    BY <1>4, DraftKeepsDir, IdOfIsId DEF ClaimDraft
  <2> QED BY <1>4, <2>1 DEF ClaimDraft, Goto
<1>5. CASE ClaimRename(w)
  <2>1. dir' \in Dirs \cup {NoDir}
    BY <1>5, DraftKeepsDir, IdOfIsId DEF ClaimRename, HasDraft
  <2> QED BY <1>5, <2>1 DEF ClaimRename, Goto
<1>6. CASE ReadHolder(w)
  <2>1. HasHolder => dir.holder.age \in Ages
    BY DEF HasHolder, Dirs, Holders
  <2>2. seen' \in [Windows -> Ages]
    BY <1>6, <2>1 DEF ReadHolder
  <2>3. pc' \in [Windows -> Labels]
    BY <1>6 DEF ReadHolder, Goto
  <2> QED BY <1>6, <2>2, <2>3 DEF ReadHolder
<1>7. CASE StatDir(w)
  <2>1. seen' \in [Windows -> Ages]
    BY <1>7 DEF StatDir, Dirs
  <2>2. pc' \in [Windows -> Labels]
    BY <1>7 DEF StatDir, NotTaken, Goto
  <2>3. patient' \in [Windows -> BOOLEAN]
    BY <1>7 DEF StatDir, NotTaken
  <2> QED BY <1>7, <2>1, <2>2, <2>3 DEF StatDir
<1>8. CASE Judge(w)
  <2>1. seen' \in [Windows -> Ages]
    BY <1>8, RestingValues DEF Judge
  <2>2. pc' \in [Windows -> Labels]
    BY <1>8 DEF Judge, NotTaken, Goto
  <2>3. patient' \in [Windows -> BOOLEAN]
    BY <1>8 DEF Judge, NotTaken
  <2> QED BY <1>8, <2>1, <2>2, <2>3 DEF Judge
<1>9. CASE RenameAside(w)
  <2>1. seen' \in [Windows -> Ages]
    BY <1>9, RestingValues DEF RenameAside
  <2>2. pc' \in [Windows -> Labels]
    BY <1>9 DEF RenameAside, NotTaken, Goto
  <2>3. patient' \in [Windows -> BOOLEAN]
    BY <1>9 DEF RenameAside, NotTaken
  <2>4. dir' \in Dirs \cup {NoDir} /\ breaks' \in Nat
    BY <1>9 DEF RenameAside
  <2> QED BY <1>9, <2>1, <2>2, <2>3, <2>4 DEF RenameAside
<1>10. CASE Poll(w)
  BY <1>10 DEF Poll, Goto
<1> QED BY <1>1, <1>2, <1>3, <1>4, <1>5, <1>6, <1>7, <1>8, <1>9, <1>10 DEF TakeStep

LEMMA TypeHold ==
  ASSUME TypeOK, NEW w \in Windows,
         BeatRead(w) \/ BeatStep(w) \/ WorkDone(w) \/ ReleaseStep(w) \/ Crash(w)
  PROVE  TypeOK'
<1> USE DEF TypeOK, Labels
<1>1. CASE BeatRead(w)
  BY <1>1, IdOfIsId DEF BeatRead
<1>2. CASE BeatDraft(w)
  <2>1. dir' \in Dirs \cup {NoDir}
    BY <1>2, DraftKeepsDir DEF BeatDraft
  <2>2. beat' \in [Windows -> [pc : {"none", "draft", "rename"}, id : Ids]]
    BY <1>2, RestingValues DEF BeatDraft, BeatEnds
  <2> QED BY <1>2, <2>1, <2>2 DEF BeatDraft
<1>3. CASE BeatRename(w)
  <2>1. dir' \in Dirs \cup {NoDir}
    BY <1>3, DraftKeepsDir DEF BeatRename, HasDraft
  <2> QED BY <1>3, <2>1, RestingValues DEF BeatRename, BeatEnds
<1>4. CASE WorkDone(w)
  BY <1>4 DEF WorkDone, Goto
<1>5. CASE ReleaseRead(w)
  BY <1>5 DEF ReleaseRead, Goto
<1>6. CASE ReleaseEmpty(w)
  <2>1. dir' \in Dirs \cup {NoDir}
    BY <1>6 DEF ReleaseEmpty, Dirs
  <2> QED BY <1>6, <2>1 DEF ReleaseEmpty, Goto
<1>7. CASE ReleaseRmdir(w)
  BY <1>7 DEF ReleaseRmdir, Goto
<1>8. CASE Crash(w)
  BY <1>8, RestingValues DEF Crash, BeatEnds, Goto
<1> QED BY <1>1, <1>2, <1>3, <1>4, <1>5, <1>6, <1>7, <1>8 DEF BeatStep, ReleaseStep

LEMMA TypeTick == ASSUME TypeOK, Tick PROVE TypeOK' /\ (dir' = NoDir <=> dir = NoDir)
<1>1. CASE dir = NoDir
  BY <1>1, OlderIsAge DEF Tick, TypeOK, OlderStamp
<1>2. CASE dir \in Dirs
  <2>1. dir.age \in Ages /\ dir.holder \in Holders \cup {NoHolder} /\ dir.drafts \in SUBSET Holders
    BY <1>2 DEF Dirs
  <2>2. {OlderStamp(d) : d \in dir.drafts} \in SUBSET Holders
    BY <2>1, OlderIsAge
  <2>3. dir # NoDir
    BY <1>2, NoDirAssumption
  <2>4. dir' \in Dirs
    BY <1>2, <2>1, <2>2, <2>3, OlderIsAge DEF Tick, Dirs
  <2>5. dir' # NoDir
    BY <2>4, NoDirAssumption
  <2>6. seen' \in [Windows -> Ages]
    BY OlderIsAge DEF Tick, TypeOK, OlderStamp
  <2> QED BY <2>3, <2>4, <2>5, <2>6 DEF Tick, TypeOK
<1> QED BY <1>1, <1>2 DEF TypeOK

LEMMA TypeStep == TypeOK /\ [Next]_vars => TypeOK'
<1> SUFFICES ASSUME TypeOK, [Next]_vars PROVE TypeOK'
  OBVIOUS
<1>1. CASE Next
  BY <1>1, TypeTake, TypeHold, TypeTick DEF Next
<1>2. CASE UNCHANGED vars
  BY <1>2 DEF vars, TypeOK
<1> QED BY <1>1, <1>2

\* Every reachable state is well typed, whatever the windows, the TTL and the bound.
THEOREM WindowLockType == Spec => []TypeOK
  BY TypeInit, TypeStep, PTL DEF Spec

-----------------------------------------------------------------------------
(* The number of writers.                                                  *)

LEMMA HoldingFinite ==
  /\ IsFiniteSet(Holding) /\ Cardinality(Holding) \in Nat
  /\ IsFiniteSet(Holding') /\ Cardinality(Holding') \in Nat
<1>1. Holding \subseteq Windows /\ Holding' \subseteq Windows
  BY DEF Holding
<1> QED BY <1>1, WindowsAssumption, FS_Subset, FS_CardinalityType

\* A step that lets no window in, breaks nothing and leaves the directory standing.
LEMMA QuietStep ==
  ASSUME TypeOK, WritersBounded, Holding' \subseteq Holding,
         breaks' = breaks, dir # NoDir => dir' # NoDir
  PROVE  WritersBounded'
<1>1. Cardinality(Holding') <= Cardinality(Holding)
  BY HoldingFinite, FS_Subset
<1> QED BY <1>1, HoldingFinite DEF WritersBounded, TypeOK

\* The one step that lets a window in: mkdir succeeded, so nothing stood there.
LEMMA ClaimBounded ==
  ASSUME TypeOK, TypeOK', WritersBounded, NEW w \in Windows, Claim(w)
  PROVE  WritersBounded'
<1>1. Holding' = Holding \cup {w}
  BY DEF Claim, Goto, Holding, HoldingLabels, TypeOK
<1>2. Cardinality(Holding') <= Cardinality(Holding) + 1
  BY <1>1, HoldingFinite, FS_AddElement
<1>3. dir = NoDir /\ breaks' = breaks
  BY DEF Claim
<1>4. dir' \in Dirs
  <2>1. takes[w] + 1 \in 0 .. MaxTakes
    BY MaxTakesAssumption DEF Claim, TypeOK
  <2> QED BY <2>1, TTLAssumption DEF Claim, Dirs, Ids, Ages
<1>5. dir' # NoDir
  BY <1>4, NoDirAssumption
<1> QED BY <1>2, <1>3, <1>5, HoldingFinite DEF WritersBounded, TypeOK

\* A stale break: one directory fewer, one break more.
LEMMA AsideBounded ==
  ASSUME TypeOK, WritersBounded, NEW w \in Windows, RenameAside(w)
  PROVE  WritersBounded'
<1>1. Holding' = Holding
  BY DEF RenameAside, NotTaken, Goto, Holding, HoldingLabels, TypeOK
<1>2. CASE dir = NoDir
  BY <1>1, <1>2, QuietStep DEF RenameAside
<1>3. CASE dir # NoDir
  <2>1. dir' = NoDir /\ breaks' = breaks + 1
    BY <1>3 DEF RenameAside
  <2> QED BY <1>1, <1>3, <2>1, HoldingFinite DEF WritersBounded, TypeOK
<1> QED BY <1>2, <1>3

\* The end of a release may take a directory away, the wrong one included, and ends a hold.
LEMMA RmdirBounded ==
  ASSUME TypeOK, WritersBounded, NEW w \in Windows, ReleaseRmdir(w)
  PROVE  WritersBounded'
<1>1. w \in Holding /\ Holding' = Holding \ {w}
  BY DEF ReleaseRmdir, Goto, Holding, HoldingLabels, TypeOK
<1>2. Cardinality(Holding') = Cardinality(Holding) - 1
  BY <1>1, HoldingFinite, FS_RemoveElement
<1>3. breaks' = breaks
  BY DEF ReleaseRmdir
<1> QED BY <1>2, <1>3, HoldingFinite DEF WritersBounded, TypeOK

\* Writing into the directory, or emptying it, leaves it standing.
LEMMA DirStands ==
  ASSUME TypeOK, NEW w \in Windows, dir # NoDir,
         ClaimDraft(w) \/ ClaimRename(w) \/ BeatStep(w) \/ ReleaseEmpty(w)
  PROVE  dir' # NoDir
<1>1. dir \in Dirs
  BY DEF TypeOK
<1>2. beat[w].id \in Ids /\ IdOf(w) \in Ids
  BY IdOfIsId DEF TypeOK
<1>3. \/ dir' = dir
      \/ \E id \in Ids : WriteDraft(id) \/ RenameDraft(id)
      \/ dir' = [dir EXCEPT !.holder = NoHolder, !.drafts = {}]
  BY <1>2 DEF ClaimDraft, ClaimRename, BeatStep, BeatDraft, BeatRename, ReleaseEmpty
<1>4. dir' \in Dirs
  <2>1. CASE dir' = dir
    BY <1>1, <2>1
  <2>2. CASE \E id \in Ids : WriteDraft(id) \/ RenameDraft(id)
    BY <1>1, <2>2, DraftKeepsDir
  <2>3. CASE dir' = [dir EXCEPT !.holder = NoHolder, !.drafts = {}]
    BY <1>1, <2>3 DEF Dirs
  <2> QED BY <1>3, <2>1, <2>2, <2>3
<1> QED BY <1>4, NoDirAssumption

LEMMA WritersStep ==
  TypeOK /\ WritersBounded /\ [Next]_vars => WritersBounded'
<1> SUFFICES ASSUME TypeOK, WritersBounded, [Next]_vars PROVE WritersBounded'
  OBVIOUS
<1> USE DEF HoldingLabels, Holding
<1>0. TypeOK'
  BY TypeStep
<1>1. ASSUME NEW w \in Windows, ClaimDraft(w) \/ ClaimRename(w) \/ BeatStep(w) \/ ReleaseEmpty(w)
      PROVE  WritersBounded'
  <2>1. Holding' \subseteq Holding
    BY <1>1 DEF ClaimDraft, ClaimRename, BeatStep, BeatDraft, BeatRename, ReleaseEmpty, Goto, TypeOK
  <2>2. breaks' = breaks
    BY <1>1 DEF ClaimDraft, ClaimRename, BeatStep, BeatDraft, BeatRename, ReleaseEmpty
  <2> QED BY <1>1, <2>1, <2>2, DirStands, QuietStep
<1>2. ASSUME NEW w \in Windows,
             \/ Request(w) \/ ClaimRefused(w) \/ ReadHolder(w) \/ StatDir(w) \/ Judge(w) \/ Poll(w)
             \/ BeatRead(w) \/ WorkDone(w) \/ ReleaseRead(w) \/ Crash(w)
      PROVE  WritersBounded'
  <2>1. Holding' \subseteq Holding
    BY <1>2 DEF Request, ClaimRefused, ReadHolder, StatDir, Judge, Poll, BeatRead, WorkDone,
                ReleaseRead, Crash, NotTaken, Goto, TypeOK
  <2>2. breaks' = breaks /\ dir' = dir
    BY <1>2 DEF Request, ClaimRefused, ReadHolder, StatDir, Judge, Poll, BeatRead, WorkDone,
                ReleaseRead, Crash
  <2> QED BY <2>1, <2>2, QuietStep
<1>3. CASE Tick
  BY <1>3, TypeTick, QuietStep DEF Tick
<1>4. CASE UNCHANGED vars
  BY <1>4, QuietStep DEF vars
<1> QED BY <1>0, <1>1, <1>2, <1>3, <1>4, ClaimBounded, AsideBounded, RmdirBounded
        DEF Next, TakeStep, ReleaseStep

\* For every set of windows: each stale break admits at most one extra writer, so that no
\* interleaving of claims, heartbeats, releases, breaks and crashes lets in more.
THEOREM WindowLockWriters == Spec => []WritersBounded
<1>1. Init => WritersBounded
  <2> SUFFICES ASSUME Init PROVE WritersBounded
    OBVIOUS
  <2>1. Holding = {}
    BY DEF Init, Holding, HoldingLabels
  <2> QED BY <2>1, FS_EmptySet DEF WritersBounded, Init
<1> QED BY <1>1, WritersStep, WindowLockType, PTL DEF Spec
=============================================================================
