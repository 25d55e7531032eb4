------------------------- MODULE RotationQuarantine ------------------------
(***************************************************************************)
(* A secret that an agent rotates, and the copy held beside its entry      *)
(* while the entry refuses it (rotateAction.ts, rotationStore.ts,          *)
(* rotationQuarantine.ts, rotationWaiting.ts, pinAdmission.ts,             *)
(* entityPin.ts).                                                          *)
(*                                                                         *)
(* One entry with two secrets: the one that is rotated and another.  A     *)
(* rotation changes the far side first and stores after; whoever protects  *)
(* the entry in between makes the store a hold.  Doors, the sweep, Remove  *)
(* PIN and the next rotation release a hold.  What runs under the storage  *)
(* lease is one step; everything read before it is a step of its own.      *)
(* Every rotation and every change by hand has a value of its own, and a   *)
(* fingerprint or a time identifies the value it was taken of.             *)
(***************************************************************************)
EXTENDS Naturals, Sequences

CONSTANTS Rotations,   \* rotate calls of agents, each the name of the value it draws
          Hands,       \* values a person gives the far side and the entry, or a sync brings
          First,       \* the value in the entry and at the far side at the start
          Doors,       \* the times a person opens the entry
          NoText,      \* what unsealedText answers for a sealed value
          NoHold,      \* no held item
          Setups       \* the situations of an instance, see setup

VARIABLES setup,    \* which rotations and values by hand take part (calls), whether changes of
                    \* the far side may overlap (overlap), whether others write between the
                    \* slots of a Remove PIN (cut), and the bounds: failed writes and kills
                    \* (faults), doors, Protects and Remove PINs of each kind (starts)
          pass,     \* the rotated secret's slot
          other,    \* whether the entry's other secret is sealed
          mark,     \* pinProtected
          item,     \* the held value of the slot: value, and what it replaced
          listed,   \* whether the index names the entry
          far,      \* the value the far side accepts
          given,    \* history: values handed to the person, given up by one, or lost with a window
          rot,      \* rotation -> its place, and the fingerprint it took
          rel,      \* releaser -> the release it runs
          walk,     \* door, Protect or Remove PIN -> the slots and mark it still has to write
          opened,   \* what Remove PIN opened, NoText if it was not sealed
          starts,   \* door, Protect or Remove PIN -> how often it was begun
          faults    \* failed writes and killed windows so far

entry == <<pass, other, mark>>
hold == <<item, listed>>
vars == <<setup, entry, hold, far, given, rot, rel, walk, opened, starts, faults>>

Values == {First} \cup Rotations \cup Hands

\* A name is one thing only, and what stands for nothing is none of them.
ASSUME NamesAssumption ==
  /\ First \notin Rotations \cup Hands /\ Rotations \cap Hands = {}
  /\ {"sweep", "protect", "remove"} \cap (Values \cup Doors) = {} /\ Values \cap Doors = {}
  /\ NoText \notin Values
  /\ NoHold \notin [val : Rotations, was : Values \cup {NoText}]
ASSUME SetupsAssumption == \A s \in Setups : s.faults \in Nat

Releasers == Rotations \cup Doors \cup {"sweep", "remove"}
Walkers == Doors \cup {"protect", "remove"}

NoRelease == [pc |-> "idle", door |-> FALSE, forced |-> FALSE, held |-> NoHold, live |-> NoHold, seal |-> "none"]

\* lockedSlotCount and the mark.
AnySealed == pass.sealed \/ other
Protected == mark \/ AnySealed

\* A write of the keychain refused, or a window killed.
Fault == faults < setup.faults /\ faults' = faults + 1

Starts(p) == starts[p] < setup.starts /\ starts' = [starts EXCEPT ![p] = @ + 1]

\* No Remove PIN has opened the slots and still has to store them, or that does not matter.
Uncut == setup.cut \/ walk["remove"] = <<>>

\* Rotations whose value the far side has and no store has yet taken, and with them those that have
\* still to supersede an older hold.
Untaken == {r \in Rotations : rot[r].pc \in {"store", "write", "refused", "failed", "ask", "seal"}}
Unsettled == Untaken \cup {r \in Rotations : rot[r].pc = "supersede"}

\* Unless the setup lets them overlap, the far side does not change while a rotation is unsettled or
\* a person's answer to a conflict is carried out: not by another rotation, and not by a value that a
\* person or a sync brings (ByHand).
InTurn == setup.overlap \/ (Unsettled = {} /\ \A p \in Releasers : ~rel[p].forced)

NoneOpened == [pass |-> NoText, other |-> FALSE]
Away == [pc |-> "away", was |-> NoText, seal |-> "none"]
Goes(r, pc) == rot' = [rot EXCEPT ![r] = IF pc \in {"over", "supersede"} THEN [Away EXCEPT !.pc = pc] ELSE [@ EXCEPT !.pc = pc]]
Ends(p) == rel' = [rel EXCEPT ![p] = NoRelease]

-----------------------------------------------------------------------------
(* A release: rotationQuarantine.releaseHeld, for whoever calls it.        *)

\* releaseBeforeAutomaticUse and releaseUnprotected: the index is asked first.
Begun(pc, door, forced) == [NoRelease EXCEPT !.pc = pc, !.door = door, !.forced = forced]

\* releaseIfUnprotected.
ReleaseLook(p) ==
  /\ rel[p].pc = "look"
  /\ rel' = [rel EXCEPT ![p] =
       IF item = NoHold THEN [@ EXCEPT !.pc = "unlist"]
       ELSE IF Protected THEN NoRelease ELSE [@ EXCEPT !.pc = "read"]]
  /\ UNCHANGED <<setup, starts, entry, hold, far, given, rot, walk, opened, faults>>

\* A slip Unlist must not make: what was read without the lease is believed.
UnlistAsRead(p) ==
  /\ rel[p].pc = "unlist"
  /\ listed' = FALSE
  /\ Ends(p)
  /\ UNCHANGED <<setup, starts, entry, item, far, given, rot, walk, opened, faults>>

\* unlistIfEmpty: read again under the lease.
Unlist(p) ==
  /\ rel[p].pc = "unlist"
  /\ listed' = (listed /\ item # NoHold)
  /\ Ends(p)
  /\ UNCHANGED <<setup, starts, entry, item, far, given, rot, walk, opened, faults>>

\* releaseAll.
ReleaseRead(p) ==
  /\ rel[p].pc = "read"
  /\ rel' = [rel EXCEPT ![p] = IF item = NoHold THEN NoRelease ELSE [@ EXCEPT !.pc = "compare", !.held = item]]
  /\ UNCHANGED <<setup, starts, entry, hold, far, given, rot, walk, opened, faults>>

\* A slip Compared must not make: a value an earlier release wrote is one that changed.
ComparedToWas(p) ==
  IF pass.val = rel[p].held.was \/ rel[p].forced THEN "proof" ELSE "conflict"

\* releaseText: already there, changed since the rotation, or to be written.
Compared(p) ==
  CASE pass.val = rel[p].held.val -> "drop"
    [] pass.val = rel[p].held.was \/ rel[p].forced -> "proof"
    [] OTHER -> "conflict"

\* liveText: a sealed slot is read if this window holds the PIN; a conflict is a question at a door
\* and nothing anywhere else.
ReleaseCompare(p) ==
  /\ rel[p].pc = "compare"
  /\ \/ rel' = [rel EXCEPT ![p] =
          IF Compared(p) = "conflict" /\ ~@.door THEN NoRelease
          ELSE [@ EXCEPT !.pc = Compared(p), !.live = IF Compared(p) = "proof" THEN pass ELSE NoHold]]
     \/ pass.sealed /\ Ends(p)
  /\ UNCHANGED <<setup, starts, entry, hold, far, given, rot, walk, opened, faults>>

\* AT_THE_DOOR and UNATTENDED: under the PIN the door took, in the clear, or not at all.
Proofs(door) ==
  IF door THEN IF AnySealed THEN {"sealed", "none"} ELSE {IF mark THEN "marked" ELSE "plain"}
  ELSE {IF Protected THEN "none" ELSE "plain"}

ReleaseProof(p) ==
  /\ rel[p].pc = "proof"
  /\ \E seal \in Proofs(rel[p].door) :
       rel' = [rel EXCEPT ![p] = IF seal = "none" THEN NoRelease ELSE [@ EXCEPT !.pc = "commit", !.seal = seal]]
  /\ UNCHANGED <<setup, starts, entry, hold, far, given, rot, walk, opened, faults>>

\* A slip MayCommit must not make: what was decided before the lease was taken still stands.
MayCommitAsDecided(seal) == TRUE

\* recheckedEach: a plain write is refused if the entry was protected since its proof.
MayCommit(seal) == seal = "sealed" \/ (~AnySealed /\ (seal = "plain" => ~mark))

\* A slip Unchanged must not make: the hold is asked for, the slot is not.
UnchangedHold(p) == item # NoHold /\ item.val = rel[p].held.val

\* unchangedSince: the slot and the hold are the ones compared.
Unchanged(p) == pass = rel[p].live /\ item # NoHold /\ item.val = rel[p].held.val

\* written: under the lease, and guarded.
ReleaseCommit(p) ==
  /\ rel[p].pc = "commit"
  /\ \/ /\ MayCommit(rel[p].seal) /\ Unchanged(p)
        /\ Uncut \/ rel[p].seal # "sealed"
        /\ pass' = [val |-> rel[p].held.val, sealed |-> rel[p].seal = "sealed"]
        /\ rel' = [rel EXCEPT ![p] = [@ EXCEPT !.pc = "drop", !.live = NoHold, !.seal = "none"]]
        /\ UNCHANGED faults
     \/ /\ ~(MayCommit(rel[p].seal) /\ Unchanged(p))
        /\ Ends(p)
        /\ UNCHANGED <<pass, faults>>
     \/ /\ Fault
        /\ Ends(p)
        /\ UNCHANGED pass
  /\ UNCHANGED <<setup, starts, other, mark, hold, far, given, rot, walk, opened>>

\* dropHeld: only the hold of that time.
IsHold(held) == item # NoHold /\ item.val = held.val

\* settle: the item, then the index. A failure may come before either.
Settle ==
  \/ item' = NoHold /\ listed' = FALSE /\ UNCHANGED faults
  \/ item' \in {item, NoHold} /\ UNCHANGED listed /\ Fault

ReleaseDrop(p) ==
  /\ rel[p].pc = "drop"
  /\ IF IsHold(rel[p].held) THEN Settle ELSE UNCHANGED <<hold, faults>>
  /\ Ends(p)
  /\ UNCHANGED <<setup, starts, entry, far, given, rot, walk, opened>>

Release(p) ==
  \/ ReleaseLook(p) \/ Unlist(p) \/ ReleaseRead(p) \/ ReleaseCompare(p)
  \/ ReleaseProof(p) \/ ReleaseCommit(p) \/ ReleaseDrop(p)

\* EphemeralSweeper: every minute, one pass at a time.
Sweep ==
  /\ rel["sweep"] = NoRelease
  /\ listed
  /\ rel' = [rel EXCEPT !["sweep"] = Begun("look", FALSE, FALSE)]
  /\ UNCHANGED <<setup, starts, entry, hold, far, given, rot, walk, opened, faults>>

-----------------------------------------------------------------------------
(* A rotation: rotateAction.run and rotationStore.storeRotated.            *)

\* rotationCurrent: a value that waits goes in first, whenever the index names the entry.
AutoRelease == IF listed THEN Begun("look", FALSE, FALSE) ELSE NoRelease

\* run, prepare: the mark is read here and refuses; protectedSlot reads the slot after the release.
RotateCalls(r) ==
  /\ r \in setup.calls
  /\ rot[r].pc = "away"
  /\ Goes(r, IF mark THEN "over" ELSE "check")
  /\ rel' = [rel EXCEPT ![r] = IF mark THEN NoRelease ELSE AutoRelease]
  /\ UNCHANGED <<setup, starts, entry, hold, far, given, walk, opened, faults>>

RotateChecks(r) ==
  /\ rot[r].pc = "check"
  /\ rel[r] = NoRelease
  /\ Goes(r, IF pass.sealed THEN "over" ELSE "draw")
  /\ rel' = [rel EXCEPT ![r] = IF pass.sealed THEN NoRelease ELSE AutoRelease]
  /\ UNCHANGED <<setup, starts, entry, hold, far, given, walk, opened, faults>>

\* A slip RotateDraws must not make: no fingerprint is taken of what is replaced.
RotateDrawsUnseen(r) ==
  /\ rot[r].pc = "draw"
  /\ rel[r] = NoRelease
  /\ rot' = [rot EXCEPT ![r] = [pc |-> "run", was |-> NoHold, seal |-> "none"]]
  /\ UNCHANGED <<setup, starts, entry, hold, far, given, rel, walk, opened, faults>>

\* draw: the fingerprint is of the slot as it is read the second time.
RotateDraws(r) ==
  /\ rot[r].pc = "draw"
  /\ rel[r] = NoRelease
  /\ rot' = [rot EXCEPT ![r] = [pc |-> "run", was |-> IF pass.sealed THEN NoText ELSE pass.val, seal |-> "none"]]
  /\ UNCHANGED <<setup, starts, entry, hold, far, given, rel, walk, opened, faults>>

\* ranAndStored: the statement fails, or the far side has the new value.
RotateRuns(r) ==
  /\ rot[r].pc = "run"
  /\ \/ Goes(r, "over") /\ UNCHANGED far
     \/ InTurn /\ far' = r /\ Goes(r, "store")
  /\ UNCHANGED <<setup, starts, entry, hold, given, rel, walk, opened, faults>>

\* unattendedSealing.
RotateDecides(r) ==
  /\ rot[r].pc = "store"
  /\ Goes(r, IF Protected THEN "refused" ELSE "write")
  /\ UNCHANGED <<setup, starts, entry, hold, far, given, rel, walk, opened, faults>>

\* writeUnattended: the plain writer, re-checked under the lease.
RotateStores(r) ==
  /\ rot[r].pc = "write"
  /\ \/ MayCommit("plain") /\ pass' = [val |-> r, sealed |-> FALSE] /\ Goes(r, "supersede") /\ UNCHANGED faults
     \/ ~MayCommit("plain") /\ Goes(r, "refused") /\ UNCHANGED <<pass, faults>>
     \/ Fault /\ Goes(r, "failed") /\ UNCHANGED pass
  /\ UNCHANGED <<setup, starts, other, mark, hold, far, given, rel, walk, opened>>

\* supersedeHeld: whatever older hold there is; best effort.
Supersede(r) ==
  /\ rot[r].pc = "supersede"
  /\ IF item # NoHold THEN Settle ELSE UNCHANGED <<hold, faults>>
  /\ Goes(r, "over")
  /\ UNCHANGED <<setup, starts, entry, far, given, rel, walk, opened>>

\* heldOrHanded, holdRotated: the index, then the item. If that fails too the person is asked for the
\* PIN, or offered the copy when the PIN was not the reason.
RotateHolds(r) ==
  /\ rot[r].pc \in {"refused", "failed"}
  /\ \/ /\ item' = [val |-> r, was |-> rot[r].was] /\ listed' = TRUE
        /\ Goes(r, "over")
        /\ UNCHANGED <<given, faults>>
     \/ /\ Fault
        /\ listed' \in {listed, TRUE} /\ UNCHANGED item
        /\ IF rot[r].pc = "refused" THEN Goes(r, "ask") /\ UNCHANGED given
           ELSE Goes(r, "over") /\ given' = given \cup {r}
  /\ UNCHANGED <<setup, starts, entry, far, rel, walk, opened>>

\* storedUnderPin: the person gives the PIN, or is offered the copy, as after any failure on this road.
HandedAnswer(r) ==
  /\ rot[r].pc = "ask"
  /\ \E seal \in Proofs(TRUE) \cup {"none"} :
       IF seal = "none" THEN Goes(r, "over") /\ given' = given \cup {r}
       ELSE rot' = [rot EXCEPT ![r].pc = "seal", ![r].seal = seal] /\ UNCHANGED given
  /\ UNCHANGED <<setup, starts, entry, hold, far, rel, walk, opened, faults>>

HandedStores(r) ==
  /\ rot[r].pc = "seal"
  /\ \/ /\ MayCommit(rot[r].seal) /\ Uncut
        /\ pass' = [val |-> r, sealed |-> rot[r].seal = "sealed"]
        /\ Goes(r, "supersede") /\ UNCHANGED given
     \/ /\ ~MayCommit(rot[r].seal)
        /\ Goes(r, "over") /\ given' = given \cup {r} /\ UNCHANGED pass
  /\ UNCHANGED <<setup, starts, other, mark, hold, far, rel, walk, opened, faults>>

Rotate(r) ==
  \/ RotateCalls(r) \/ RotateChecks(r) \/ RotateDraws(r) \/ RotateRuns(r)
  \/ RotateDecides(r) \/ RotateStores(r) \/ Supersede(r) \/ RotateHolds(r)
  \/ HandedAnswer(r) \/ HandedStores(r)

-----------------------------------------------------------------------------
(* People: the door, Protect, Remove PIN, and a new value by hand.         *)

\* admit, with the PIN if a slot is sealed: then healProtected, else repairFalseMark.
Admit(d) ==
  /\ Starts(d)
  /\ walk[d] = <<>>
  /\ rel[d] = NoRelease
  /\ IF AnySealed
     THEN walk' = [walk EXCEPT ![d] = <<"mark", "pass", "other">>] /\ UNCHANGED <<mark, rel>>
     ELSE mark' = FALSE /\ rel' = [rel EXCEPT ![d] = Begun("read", TRUE, FALSE)] /\ UNCHANGED walk
  /\ UNCHANGED <<setup, pass, other, hold, far, given, rot, opened, faults>>

\* The next slot of a walk sealed as it is under the lease (lockOne), or the mark set.
Seals(at) ==
  /\ pass' = IF at = "pass" THEN [pass EXCEPT !.sealed = TRUE] ELSE pass
  /\ other' = (other \/ at = "other")
  /\ mark' = (mark \/ at = "mark")

\* healProtected, and the release once it is through.
Heal(d) ==
  /\ walk[d] # <<>>
  /\ Seals(Head(walk[d]))
  /\ walk' = [walk EXCEPT ![d] = Tail(@)]
  /\ rel' = IF Len(walk[d]) = 1 THEN [rel EXCEPT ![d] = Begun("read", TRUE, FALSE)] ELSE rel
  /\ UNCHANGED <<setup, starts, hold, far, given, rot, opened, faults>>

\* storeRotatedAnyway: the current value goes into history, and the release is run past the check.
StoreRotated(d) ==
  /\ rel[d].pc = "conflict"
  /\ InTurn
  /\ given' = given \cup {pass.val}
  /\ rel' = [rel EXCEPT ![d] = Begun("read", TRUE, TRUE)]
  /\ UNCHANGED <<setup, starts, entry, hold, far, rot, walk, opened, faults>>

\* keepCurrent, confirmed.
KeepCurrent(d) ==
  /\ rel[d].pc = "conflict"
  /\ given' = given \cup {rel[d].held.val}
  /\ IF IsHold(rel[d].held) THEN Settle ELSE UNCHANGED <<hold, faults>>
  /\ Ends(d)
  /\ UNCHANGED <<setup, starts, entry, far, rot, walk, opened>>

\* The question is dismissed: the next door asks again.
Dismiss(d) ==
  /\ rel[d].pc = "conflict"
  /\ Ends(d)
  /\ UNCHANGED <<setup, starts, entry, hold, far, given, rot, walk, opened, faults>>

\* Protect with a PIN: the slots, then the mark.
StartProtect ==
  /\ Starts("protect")
  /\ walk["protect"] = <<>>
  /\ ~AnySealed
  /\ walk' = [walk EXCEPT !["protect"] = <<"pass", "other", "mark">>]
  /\ UNCHANGED <<setup, entry, hold, far, given, rot, rel, opened, faults>>

Protect ==
  /\ walk["protect"] # <<>>
  /\ Seals(Head(walk["protect"]))
  /\ walk' = [walk EXCEPT !["protect"] = Tail(@)]
  /\ UNCHANGED <<setup, starts, hold, far, given, rot, rel, opened, faults>>

\* Remove PIN: every sealed slot opened first.
StartRemove ==
  /\ Starts("remove")
  /\ walk["remove"] = <<>>
  /\ rel["remove"] = NoRelease
  /\ AnySealed
  /\ opened' = [pass |-> IF pass.sealed THEN pass.val ELSE NoText, other |-> other]
  /\ walk' = [walk EXCEPT !["remove"] = <<"pass", "other", "mark">>]
  /\ UNCHANGED <<setup, entry, hold, far, given, rot, rel, faults>>

\* unprotectEntity stores what it opened, with no lease and no second look; then the mark, and the
\* release of what waits.
Remove ==
  /\ walk["remove"] # <<>>
  /\ LET at == Head(walk["remove"])
     IN  /\ pass' = IF at = "pass" /\ opened.pass # NoText THEN [val |-> opened.pass, sealed |-> FALSE] ELSE pass
         /\ other' = (other /\ ~(at = "other" /\ opened.other))
         /\ mark' = (mark /\ at # "mark")
         /\ opened' = IF at = "mark" THEN NoneOpened ELSE opened
         /\ rel' = IF at = "mark" THEN [rel EXCEPT !["remove"] = Begun("read", FALSE, FALSE)] ELSE rel
  /\ walk' = [walk EXCEPT !["remove"] = Tail(@)]
  /\ UNCHANGED <<setup, starts, hold, far, given, rot, faults>>

\* A person gives the far side a value and saves it in the entry, or a sync brings one another machine
\* rotated to: sealed if the entry is.
ByHand(h) ==
  /\ h \in setup.calls
  /\ rot[h].pc = "away"
  /\ InTurn /\ Uncut
  /\ far' = h
  /\ pass' = [val |-> h, sealed |-> AnySealed]
  /\ Goes(h, "over")
  /\ UNCHANGED <<setup, starts, other, mark, hold, given, rel, walk, opened, faults>>

\* The window of an actor is killed: a value that is only in its memory goes with it, and a hold may
\* have got as far as the index.
Killed(p) ==
  /\ Fault
  /\ \/ p \in Releasers /\ rel[p] # NoRelease
     \/ p \in Walkers /\ walk[p] # <<>>
     \/ p \in Unsettled
  /\ rel' = [q \in Releasers |-> IF q = p THEN NoRelease ELSE rel[q]]
  /\ walk' = [q \in Walkers |-> IF q = p THEN <<>> ELSE walk[q]]
  /\ rot' = [r \in Rotations \cup Hands |-> IF r = p THEN [Away EXCEPT !.pc = "over"] ELSE rot[r]]
  /\ opened' = IF p = "remove" THEN NoneOpened ELSE opened
  /\ given' = given \cup (Untaken \cap {p})
  /\ listed' \in {listed} \cup (IF p \in Untaken THEN {TRUE} ELSE {})
  /\ UNCHANGED <<setup, starts, entry, item, far>>

-----------------------------------------------------------------------------
Init ==
  /\ setup \in Setups
  /\ pass = [val |-> First, sealed |-> FALSE]
  /\ other = FALSE /\ mark = FALSE
  /\ item = NoHold /\ listed = FALSE
  /\ far = First
  /\ given = {}
  /\ rot = [r \in Rotations \cup Hands |-> Away]
  /\ rel = [p \in Releasers |-> NoRelease]
  /\ walk = [p \in Walkers |-> <<>>]
  /\ opened = NoneOpened
  /\ starts = [p \in Walkers |-> 0]
  /\ faults = 0

Next ==
  \/ \E p \in Releasers : Release(p)
  \/ Sweep
  \/ \E r \in Rotations : Rotate(r)
  \/ \E d \in Doors : Admit(d) \/ Heal(d) \/ StoreRotated(d) \/ KeepCurrent(d) \/ Dismiss(d)
  \/ StartProtect \/ Protect \/ StartRemove \/ Remove
  \/ \E h \in Hands : ByHand(h)
  \/ \E p \in Releasers \cup Walkers : Killed(p)

\* The sweep's timer ticks, and what it started goes on (ephemeralSweeper.ts).
Spec == Init /\ [][Next]_vars /\ WF_vars(Sweep) /\ WF_vars(Release("sweep"))

-----------------------------------------------------------------------------
(* Properties.                                                             *)

\* Every variable has its shape.
TypeOK ==
  /\ setup \in Setups
  /\ pass \in [val : Values, sealed : BOOLEAN]
  /\ other \in BOOLEAN /\ mark \in BOOLEAN /\ listed \in BOOLEAN
  /\ item \in {NoHold} \cup [val : Rotations, was : Values \cup {NoText}]
  /\ far \in Values /\ given \subseteq Values
  /\ \A p \in Releasers : rel[p].pc \in {"idle", "look", "unlist", "read", "compare", "conflict", "proof", "commit", "drop"}
  /\ faults \in 0..setup.faults

\* rotationStore.ts: "the value is never dropped once the far side has changed": it is in the entry,
\* held beside it, with a rotation that has still to store it, or a person got or gave it up - however
\* releases, doors, Protects and sweeps interleave and wherever a write fails; the setup says what else
\* may overlap. A value no store had taken when its window was killed is the one exception. In
\* particular no release puts an older value over the one the far side accepts, and no hold is dropped
\* before its value is in.
AcceptedIsKept ==
  far \in {pass.val} \cup {i.val : i \in {item} \ {NoHold}} \cup Untaken \cup given

\* Rule R3: nothing but Remove PIN writes the secret in the clear while a slot of the entry is sealed.
NoPlainBesideASeal ==
  [][pass' # pass /\ ~pass'.sealed /\ AnySealed => walk' # walk]_vars

\* "Index first, item second": a held value the tree and the sweep cannot find is lost to the person.
HeldIsListed == item # NoHold => listed

\* A value held beside an entry nothing protects goes in without a door.
HeldGoesIn ==
  item # NoHold ~> (item = NoHold \/ Protected \/ pass.val \notin {item.was, item.val})
=============================================================================
