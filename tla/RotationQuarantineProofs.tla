---------------------- MODULE RotationQuarantineProofs ---------------------
(***************************************************************************)
(* What holds of a rotated secret and its held copy for every number of    *)
(* rotations, doors, values by hand, failed writes and killed windows.     *)
(***************************************************************************)
EXTENDS RotationQuarantine, SequenceTheorems, TLAPS

Slots == [val : Values, sealed : BOOLEAN]
Holds == [val : Rotations, was : Values \cup {NoText}]
SealKinds == {"none", "sealed", "marked", "plain"}
Storing == {"store", "write", "refused", "failed", "ask", "seal", "supersede"}
Turns == [pc : {"away", "check", "draw", "run", "over"} \cup Storing, was : Values \cup {NoText}, seal : SealKinds]
ReleasePlaces == {"idle", "look", "unlist", "read", "compare", "conflict", "proof", "commit", "drop"}
Runs == [pc : ReleasePlaces, door : BOOLEAN, forced : BOOLEAN, held : {NoHold} \cup Holds,
         live : {NoHold} \cup Slots, seal : SealKinds]
Parts == {"pass", "other", "mark"}

\* The shape of the state, in the detail the proofs need.
EntryOK == pass \in Slots /\ other \in BOOLEAN /\ mark \in BOOLEAN
HoldOK == item \in {NoHold} \cup Holds /\ listed \in BOOLEAN
OutsideOK == far \in Values /\ given \subseteq Values
RotationsOK == rot \in [Rotations \cup Hands -> Turns]
ReleasesOK == rel \in [Releasers -> Runs]
WalksOK == walk \in [Walkers -> Seq(Parts)] /\ opened \in [pass : Values \cup {NoText}, other : BOOLEAN]
FaultsOK == setup \in Setups /\ faults \in 0..setup.faults

\* A release that has read the hold has it at hand.
Comparing == {"compare", "conflict", "proof", "commit", "drop"}
AtHandOK == \A p \in Releasers : rel[p].pc \in Comparing => rel[p].held # NoHold

Shape == EntryOK /\ HoldOK /\ OutsideOK /\ RotationsOK /\ ReleasesOK /\ AtHandOK /\ WalksOK /\ FaultsOK

-----------------------------------------------------------------------------
(* The shape of the state.                                                 *)

LEMMA Fresh ==
  /\ Away \in Turns /\ NoRelease \in Runs /\ NoneOpened \in [pass : Values \cup {NoText}, other : BOOLEAN]
  /\ \A pc \in ReleasePlaces, door \in BOOLEAN, forced \in BOOLEAN :
       /\ Begun(pc, door, forced) \in Runs
       /\ Begun(pc, door, forced).pc = pc /\ Begun(pc, door, forced).door = door
       /\ Begun(pc, door, forced).forced = forced /\ Begun(pc, door, forced).held = NoHold
       /\ Begun(pc, door, forced).live = NoHold
<1>1. Away \in Turns /\ NoneOpened \in [pass : Values \cup {NoText}, other : BOOLEAN]
  BY DEF Away, Turns, SealKinds, NoneOpened
<1>2. NoRelease \in Runs
  BY DEF NoRelease, Runs, ReleasePlaces, SealKinds
<1>3. ASSUME NEW pc \in ReleasePlaces, NEW door \in BOOLEAN, NEW forced \in BOOLEAN
      PROVE  /\ Begun(pc, door, forced) \in Runs
             /\ Begun(pc, door, forced).pc = pc /\ Begun(pc, door, forced).door = door
             /\ Begun(pc, door, forced).forced = forced /\ Begun(pc, door, forced).held = NoHold
             /\ Begun(pc, door, forced).live = NoHold
  <2> DEFINE placed == [NoRelease EXCEPT !.pc = pc]
  <2> DEFINE doored == [placed EXCEPT !.door = door]
  <2>1. placed \in Runs /\ placed.pc = pc /\ placed.held = NoHold /\ placed.live = NoHold
    BY <1>2 DEF Runs, NoRelease
  <2>2. /\ doored \in Runs /\ doored.pc = pc /\ doored.held = NoHold /\ doored.live = NoHold
        /\ doored.door = door
    <3> HIDE DEF placed
    <3> QED BY <2>1 DEF Runs
  <2>3. Begun(pc, door, forced) = [doored EXCEPT !.forced = forced]
    BY DEF Begun
  <2> HIDE DEF doored
  <2> QED BY <2>2, <2>3 DEF Runs
<1> QED BY <1>1, <1>2, <1>3

LEMMA ShapeInit == Init => Shape
<1> SUFFICES ASSUME Init PROVE Shape
  OBVIOUS
<1> USE DEF Init
<1>1. EntryOK /\ HoldOK /\ OutsideOK
  BY DEF EntryOK, Slots, Values, HoldOK, OutsideOK
<1>2. RotationsOK /\ ReleasesOK
  BY Fresh DEF RotationsOK, ReleasesOK
<1>5. AtHandOK
  BY DEF AtHandOK, Comparing, NoRelease
<1>3. WalksOK
  BY Fresh DEF WalksOK
<1>4. FaultsOK
  BY SetupsAssumption DEF FaultsOK
<1> QED BY <1>1, <1>2, <1>3, <1>4, <1>5 DEF Shape

\* Goes: where a rotation is next, and what it still knows.
LEMMA GoesTo ==
  ASSUME Shape, NEW r \in Rotations \cup Hands, NEW l \in {"check", "draw", "over"} \cup Storing, Goes(r, l)
  PROVE  /\ RotationsOK' /\ rot'[r].pc = l
         /\ rot'[r].was \in {rot[r].was, NoText} /\ rot'[r].seal \in {rot[r].seal, "none"}
         /\ l \in {"over", "supersede"} => rot'[r].was = NoText
         /\ l \notin {"over", "supersede"} => rot'[r].was = rot[r].was /\ rot'[r].seal = rot[r].seal
         /\ \A q \in (Rotations \cup Hands) \ {r} : rot'[q] = rot[q]
<1> DEFINE next == IF l \in {"over", "supersede"} THEN [Away EXCEPT !.pc = l] ELSE [rot[r] EXCEPT !.pc = l]
<1>0. rot \in [Rotations \cup Hands -> Turns]
  BY DEF Shape, RotationsOK
<1>1. /\ next \in Turns /\ next.pc = l
      /\ l \in {"over", "supersede"} => next.was = NoText /\ next.seal = "none"
      /\ l \notin {"over", "supersede"} => next.was = rot[r].was /\ next.seal = rot[r].seal
  BY <1>0, Fresh DEF Turns, Away, SealKinds
<1>2. rot' = [rot EXCEPT ![r] = next]
  BY <1>0 DEF Goes
<1> HIDE DEF next
<1> QED BY <1>0, <1>1, <1>2 DEF RotationsOK

\* One release moves: the others stay.
LEMMA Moved ==
  ASSUME Shape, NEW p \in Releasers, NEW next \in Runs, rel' = [rel EXCEPT ![p] = next]
  PROVE  ReleasesOK' /\ rel'[p] = next /\ \A q \in Releasers \ {p} : rel'[q] = rel[q]
  BY DEF Shape, ReleasesOK

\* The release of p goes on at place l, or is over; the others stay.
RunsOn(p, l, held, live) ==
  /\ ReleasesOK' /\ \A q \in Releasers \ {p} : rel'[q] = rel[q]
  /\ rel'[p].pc = l /\ rel'[p].held = held /\ rel'[p].live = live /\ rel'[p].forced = rel[p].forced

Stops(p) == ReleasesOK' /\ rel'[p] = NoRelease /\ \A q \in Releasers \ {p} : rel'[q] = rel[q]

LEMMA EndsStops == ASSUME Shape, NEW p \in Releasers, Ends(p) PROVE Stops(p)
  BY Fresh, Moved DEF Ends, Stops

LEMMA AtHandStays ==
  ASSUME Shape, NEW p \in Releasers, \A q \in Releasers \ {p} : rel'[q] = rel[q],
         rel'[p].pc \in Comparing => rel'[p].held # NoHold
  PROVE  AtHandOK'
  BY DEF Shape, AtHandOK

LEMMA AtHandStops == ASSUME Shape, NEW p \in Releasers, Stops(p) PROVE AtHandOK'
  BY AtHandStays DEF Stops, NoRelease, Comparing

\* What each step of a release does to the release.
LEMMA LookGoes ==
  ASSUME Shape, NEW p \in Releasers, ReleaseLook(p)
  PROVE  \/ Stops(p)
         \/ RunsOn(p, "unlist", rel[p].held, rel[p].live)
         \/ RunsOn(p, "read", rel[p].held, rel[p].live)
<1>1. ASSUME NEW l \in {"unlist", "read"}, rel' = [rel EXCEPT ![p] = [rel[p] EXCEPT !.pc = l]]
      PROVE  RunsOn(p, l, rel[p].held, rel[p].live)
  <2> DEFINE next == [rel[p] EXCEPT !.pc = l]
  <2>1. /\ next \in Runs /\ next.pc = l /\ next.held = rel[p].held /\ next.live = rel[p].live
        /\ next.forced = rel[p].forced
    BY DEF Shape, ReleasesOK, Runs, ReleasePlaces
  <2>2. rel' = [rel EXCEPT ![p] = next]
    BY <1>1
  <2> HIDE DEF next
  <2> QED BY <2>1, <2>2, Moved DEF RunsOn
<1>2. ASSUME rel' = [rel EXCEPT ![p] = NoRelease] PROVE Stops(p)
  BY <1>2, EndsStops DEF Ends
<1>3. CASE item = NoHold
  BY <1>1, <1>3 DEF ReleaseLook, Shape, ReleasesOK
<1>4. CASE item # NoHold /\ Protected
  BY <1>2, <1>4 DEF ReleaseLook, Shape, ReleasesOK
<1>5. CASE item # NoHold /\ ~Protected
  BY <1>1, <1>5 DEF ReleaseLook, Shape, ReleasesOK
<1> QED BY <1>3, <1>4, <1>5

LEMMA ReadGoes ==
  ASSUME Shape, NEW p \in Releasers, ReleaseRead(p)
  PROVE  Stops(p) \/ (item # NoHold /\ RunsOn(p, "compare", item, rel[p].live))
<1>1. CASE item = NoHold
  BY <1>1, EndsStops DEF ReleaseRead, Ends, Shape, ReleasesOK
<1>2. CASE item # NoHold
  <2> DEFINE at == [rel[p] EXCEPT !.pc = "compare"]
  <2> DEFINE next == [at EXCEPT !.held = item]
  <2>1. at \in Runs /\ at.pc = "compare" /\ at.live = rel[p].live /\ at.forced = rel[p].forced
    BY DEF Shape, ReleasesOK, Runs, ReleasePlaces
  <2>2. rel' = [rel EXCEPT ![p] = next]
    BY <1>2 DEF ReleaseRead, Shape, ReleasesOK
  <2> HIDE DEF at
  <2>3. /\ next \in Runs /\ next.pc = "compare" /\ next.held = item /\ next.live = rel[p].live
        /\ next.forced = rel[p].forced
    BY <2>1 DEF Shape, HoldOK, Runs
  <2> HIDE DEF next
  <2> QED BY <1>2, <2>2, <2>3, Moved DEF RunsOn
<1> QED BY <1>1, <1>2

LEMMA CompareGoes ==
  ASSUME Shape, NEW p \in Releasers, ReleaseCompare(p)
  PROVE  Stops(p) \/ RunsOn(p, Compared(p), rel[p].held, IF Compared(p) = "proof" THEN pass ELSE NoHold)
<1> DEFINE l == Compared(p)
           live == IF Compared(p) = "proof" THEN pass ELSE NoHold
<1>0. l \in ReleasePlaces /\ live \in {NoHold} \cup Slots
  BY DEF Compared, ReleasePlaces, Shape, EntryOK
<1>1. CASE Ends(p)
  BY <1>1, EndsStops
<1>2. CASE rel' = [rel EXCEPT ![p] = [rel[p] EXCEPT !.pc = l, !.live = live]]
  <2> HIDE DEF l, live
  <2> DEFINE at == [rel[p] EXCEPT !.pc = l]
  <2> DEFINE next == [at EXCEPT !.live = live]
  <2>1. at \in Runs /\ at.pc = l /\ at.held = rel[p].held /\ at.forced = rel[p].forced
    BY <1>0 DEF Shape, ReleasesOK, Runs
  <2>2. rel' = [rel EXCEPT ![p] = next]
    BY <1>2 DEF Shape, ReleasesOK
  <2> HIDE DEF at
  <2>3. /\ next \in Runs /\ next.pc = l /\ next.held = rel[p].held /\ next.live = live
        /\ next.forced = rel[p].forced
    BY <1>0, <2>1 DEF Runs
  <2> HIDE DEF next
  <2>4. RunsOn(p, l, rel[p].held, live)
    BY <2>2, <2>3, Moved DEF RunsOn
  <2> QED BY <2>4 DEF l, live
<1> QED BY <1>1, <1>2 DEF ReleaseCompare, Ends, Shape, ReleasesOK

LEMMA ProofGoes ==
  ASSUME Shape, NEW p \in Releasers, ReleaseProof(p)
  PROVE  Stops(p) \/ RunsOn(p, "commit", rel[p].held, rel[p].live)
<1>1. PICK seal \in Proofs(rel[p].door) :
        rel' = [rel EXCEPT ![p] = IF seal = "none" THEN NoRelease ELSE [@ EXCEPT !.pc = "commit", !.seal = seal]]
  BY DEF ReleaseProof
<1>2. seal \in SealKinds
  BY DEF Proofs, SealKinds
<1>3. CASE seal = "none"
  BY <1>1, <1>3, EndsStops DEF Ends, Shape, ReleasesOK
<1>4. CASE seal # "none"
  <2> DEFINE at == [rel[p] EXCEPT !.pc = "commit"]
  <2> DEFINE next == [at EXCEPT !.seal = seal]
  <2>1. /\ at \in Runs /\ at.pc = "commit" /\ at.held = rel[p].held /\ at.live = rel[p].live
        /\ at.forced = rel[p].forced
    BY DEF Shape, ReleasesOK, Runs, ReleasePlaces
  <2>2. rel' = [rel EXCEPT ![p] = next]
    BY <1>1, <1>4 DEF Shape, ReleasesOK
  <2> HIDE DEF at
  <2>3. /\ next \in Runs /\ next.pc = "commit" /\ next.held = rel[p].held /\ next.live = rel[p].live
        /\ next.forced = rel[p].forced
    BY <1>2, <2>1 DEF Runs
  <2> HIDE DEF next
  <2> QED BY <2>2, <2>3, Moved DEF RunsOn
<1> QED BY <1>3, <1>4

LEMMA CommitGoes ==
  ASSUME Shape, NEW p \in Releasers, ReleaseCommit(p)
  PROVE  \/ UNCHANGED pass /\ Stops(p)
         \/ /\ MayCommit(rel[p].seal) /\ Unchanged(p)
            /\ Uncut \/ rel[p].seal # "sealed"
            /\ pass' = [val |-> rel[p].held.val, sealed |-> rel[p].seal = "sealed"]
            /\ RunsOn(p, "drop", rel[p].held, NoHold)
<1>1. ASSUME Ends(p) PROVE Stops(p)
  BY <1>1, EndsStops
<1>2. ASSUME rel' = [rel EXCEPT ![p] = [rel[p] EXCEPT !.pc = "drop", !.live = NoHold, !.seal = "none"]]
      PROVE  RunsOn(p, "drop", rel[p].held, NoHold)
  <2> DEFINE at == [rel[p] EXCEPT !.pc = "drop"]
  <2> DEFINE bare == [at EXCEPT !.live = NoHold]
  <2> DEFINE next == [bare EXCEPT !.seal = "none"]
  <2>1. at \in Runs /\ at.pc = "drop" /\ at.held = rel[p].held /\ at.forced = rel[p].forced
    BY DEF Shape, ReleasesOK, Runs, ReleasePlaces
  <2>2. rel' = [rel EXCEPT ![p] = next]
    BY <1>2 DEF Shape, ReleasesOK
  <2> HIDE DEF at
  <2>3. /\ bare \in Runs /\ bare.pc = "drop" /\ bare.held = rel[p].held /\ bare.live = NoHold
        /\ bare.forced = rel[p].forced
    BY <2>1 DEF Runs
  <2> HIDE DEF bare
  <2>4. /\ next \in Runs /\ next.pc = "drop" /\ next.held = rel[p].held /\ next.live = NoHold
        /\ next.forced = rel[p].forced
    BY <2>3 DEF Runs, SealKinds
  <2> HIDE DEF next
  <2> QED BY <2>2, <2>4, Moved DEF RunsOn
<1> QED BY <1>1, <1>2 DEF ReleaseCommit, Shape, ReleasesOK

\* A step that leaves a part of the state alone leaves its shape alone.
LEMMA Same ==
  ASSUME Shape
  PROVE  /\ UNCHANGED entry => EntryOK'
         /\ UNCHANGED hold => HoldOK'
         /\ UNCHANGED <<far, given>> => OutsideOK'
         /\ UNCHANGED rot => RotationsOK'
         /\ UNCHANGED rel => ReleasesOK' /\ AtHandOK'
         /\ UNCHANGED <<walk, opened>> => WalksOK'
         /\ UNCHANGED setup /\ (faults' = faults \/ Fault) => FaultsOK'
<1>1. UNCHANGED entry => EntryOK'
  BY DEF Shape, EntryOK, entry
<1>2. UNCHANGED hold => HoldOK'
  BY DEF Shape, HoldOK, hold
<1>3. /\ UNCHANGED <<far, given>> => OutsideOK'
      /\ UNCHANGED rot => RotationsOK'
      /\ UNCHANGED rel => ReleasesOK' /\ AtHandOK'
      /\ UNCHANGED <<walk, opened>> => WalksOK'
  BY DEF Shape, OutsideOK, RotationsOK, ReleasesOK, AtHandOK, WalksOK
<1>4. UNCHANGED setup /\ (faults' = faults \/ Fault) => FaultsOK'
  BY SetupsAssumption DEF Shape, FaultsOK, Fault
<1> QED BY <1>1, <1>2, <1>3, <1>4

LEMMA SettleOK == ASSUME Shape, Settle PROVE HoldOK' /\ (faults' = faults \/ Fault)
  BY DEF Shape, HoldOK, Settle

LEMMA ShapeRelease == ASSUME Shape, NEW p \in Releasers, Release(p) PROVE Shape'
<1>1. CASE ReleaseLook(p) \/ ReleaseRead(p) \/ ReleaseCompare(p) \/ ReleaseProof(p)
  <2>1. ReleasesOK'
    BY <1>1, LookGoes, ReadGoes, CompareGoes, ProofGoes DEF Stops, RunsOn
  <2>3. AtHandOK'
    <3>1. CASE Stops(p)
      BY <3>1, AtHandStops
    <3>2. CASE RunsOn(p, "unlist", rel[p].held, rel[p].live) \/ RunsOn(p, "read", rel[p].held, rel[p].live)
      BY <3>2, AtHandStays DEF RunsOn, Comparing
    <3>3. CASE item # NoHold /\ RunsOn(p, "compare", item, rel[p].live)
      BY <3>3, AtHandStays DEF RunsOn
    <3>4. CASE ReleaseCompare(p)
      <4>1. rel[p].held # NoHold
        BY <3>4 DEF Shape, AtHandOK, Comparing, ReleaseCompare
      <4> QED BY <3>1, <3>4, <4>1, CompareGoes, AtHandStays DEF RunsOn
    <3>5. CASE ReleaseProof(p)
      <4>1. rel[p].held # NoHold
        BY <3>5 DEF Shape, AtHandOK, Comparing, ReleaseProof
      <4> QED BY <3>1, <3>5, <4>1, ProofGoes, AtHandStays DEF RunsOn
    <3> QED BY <1>1, <3>1, <3>2, <3>3, <3>4, <3>5, LookGoes, ReadGoes
  <2>2. UNCHANGED <<setup, entry, hold, far, given, rot, walk, opened, faults>>
    BY <1>1 DEF ReleaseLook, ReleaseRead, ReleaseCompare, ReleaseProof
  <2> QED BY <2>1, <2>2, <2>3, Same DEF Shape
<1>2. CASE Unlist(p)
  <2>1. ReleasesOK' /\ AtHandOK'
    BY <1>2, EndsStops, AtHandStops DEF Stops, Unlist
  <2>2. HoldOK'
    BY <1>2 DEF Unlist, Shape, HoldOK
  <2>3. UNCHANGED <<setup, entry, far, given, rot, walk, opened, faults>>
    BY <1>2 DEF Unlist
  <2> QED BY <2>1, <2>2, <2>3, Same DEF Shape
<1>3. CASE ReleaseCommit(p)
  <2>1. ReleasesOK' /\ AtHandOK'
    <3>1. rel[p].held # NoHold
      BY <1>3 DEF Shape, AtHandOK, Comparing, ReleaseCommit
    <3> QED BY <1>3, <3>1, CommitGoes, AtHandStops, AtHandStays DEF Stops, RunsOn
  <2>2. EntryOK'
    <3>1. CASE UNCHANGED pass
      BY <1>3, <3>1 DEF ReleaseCommit, Shape, EntryOK
    <3>2. CASE Unchanged(p) /\ pass' = [val |-> rel[p].held.val, sealed |-> rel[p].seal = "sealed"]
      <4>1. item \in Holds /\ rel[p].held.val = item.val
        BY <3>2 DEF Unchanged, Shape, HoldOK
      <4>2. rel[p].held.val \in Values
        BY <4>1 DEF Holds, Values
      <4> QED BY <1>3, <3>2, <4>2 DEF ReleaseCommit, Shape, EntryOK, Slots
    <3> QED BY <1>3, <3>1, <3>2 DEF ReleaseCommit
  <2>3. UNCHANGED <<setup, hold, far, given, rot, walk, opened>> /\ (faults' = faults \/ Fault)
    BY <1>3 DEF ReleaseCommit
  <2> QED BY <2>1, <2>2, <2>3, Same DEF Shape
<1>4. CASE ReleaseDrop(p)
  <2>1. ReleasesOK' /\ AtHandOK'
    BY <1>4, EndsStops, AtHandStops DEF Stops, ReleaseDrop
  <2>2. HoldOK' /\ (faults' = faults \/ Fault)
    BY <1>4, SettleOK, Same DEF ReleaseDrop
  <2>3. UNCHANGED <<setup, entry, far, given, rot, walk, opened>>
    BY <1>4 DEF ReleaseDrop
  <2> QED BY <2>1, <2>2, <2>3, Same DEF Shape
<1> QED BY <1>1, <1>2, <1>3, <1>4 DEF Release

\* A release that a sweep, a rotation, a door or a Remove PIN begins, or none.
LEMMA Begins ==
  ASSUME Shape, NEW p \in Releasers, NEW l \in {"look", "read"}, NEW door \in BOOLEAN, NEW forced \in BOOLEAN,
         rel' = [rel EXCEPT ![p] = Begun(l, door, forced)]
  PROVE  /\ ReleasesOK' /\ AtHandOK' /\ \A q \in Releasers \ {p} : rel'[q] = rel[q]
         /\ rel'[p].pc = l /\ rel'[p].held = NoHold /\ rel'[p].forced = forced
<1> DEFINE next == Begun(l, door, forced)
<1>1. l \in ReleasePlaces
  BY DEF ReleasePlaces
<1>2. next \in Runs /\ next.pc = l /\ next.held = NoHold /\ next.forced = forced
  BY <1>1, Fresh
<1>3. rel' = [rel EXCEPT ![p] = next]
  OBVIOUS
<1> HIDE DEF next
<1>4. ReleasesOK' /\ rel'[p] = next /\ \A q \in Releasers \ {p} : rel'[q] = rel[q]
  BY <1>2, <1>3, Moved
<1> QED BY <1>2, <1>4, AtHandStays DEF Comparing

LEMMA RotationReleases ==
  ASSUME Shape, NEW r \in Rotations, NEW stop \in BOOLEAN,
         rel' = [rel EXCEPT ![r] = IF stop THEN NoRelease ELSE AutoRelease]
  PROVE  /\ ReleasesOK' /\ AtHandOK' /\ \A q \in Releasers \ {r} : rel'[q] = rel[q]
         /\ rel'[r].pc \in {"idle", "look"} /\ rel'[r].held = NoHold /\ ~rel'[r].forced
<1>0. r \in Releasers
  BY DEF Releasers
<1>1. CASE ~stop /\ listed
  BY <1>0, <1>1, Begins DEF AutoRelease
<1>2. CASE stop \/ ~listed
  <2>1. Stops(r)
    BY <1>0, <1>2, EndsStops DEF AutoRelease, Ends
  <2>2. AtHandOK'
    BY <1>0, <2>1, AtHandStops
  <2> QED BY <2>1, <2>2 DEF Stops, NoRelease
<1> QED BY <1>1, <1>2

LEMMA ShapeRotate == ASSUME Shape, NEW r \in Rotations, Rotate(r) PROVE Shape'
<1>0. r \in Values /\ r \in Releasers
  BY DEF Values, Releasers
<1>1. CASE RotateCalls(r)
  <2>1. RotationsOK'
    BY <1>1, GoesTo DEF RotateCalls
  <2>2. ReleasesOK' /\ AtHandOK'
    BY <1>1, RotationReleases DEF RotateCalls, Shape, EntryOK
  <2>3. UNCHANGED <<setup, entry, hold, far, given, walk, opened, faults>>
    BY <1>1 DEF RotateCalls
  <2> QED BY <2>1, <2>2, <2>3, Same DEF Shape
<1>2. CASE RotateChecks(r)
  <2>1. RotationsOK'
    BY <1>2, GoesTo DEF RotateChecks
  <2>2. ReleasesOK' /\ AtHandOK'
    BY <1>2, RotationReleases DEF RotateChecks, Shape, EntryOK, Slots
  <2>3. UNCHANGED <<setup, entry, hold, far, given, walk, opened, faults>>
    BY <1>2 DEF RotateChecks
  <2> QED BY <2>1, <2>2, <2>3, Same DEF Shape
<1>3. CASE RotateDraws(r)
  <2> DEFINE next == [pc |-> "run", was |-> IF pass.sealed THEN NoText ELSE pass.val, seal |-> "none"]
  <2>1. next \in Turns
    BY DEF Turns, SealKinds, Shape, EntryOK, Slots
  <2>2. RotationsOK'
    <3> HIDE DEF next
    <3>1. rot' = [rot EXCEPT ![r] = next]
      BY <1>3 DEF RotateDraws, next
    <3> QED BY <2>1, <3>1 DEF Shape, RotationsOK
  <2>3. UNCHANGED <<setup, entry, hold, far, given, rel, walk, opened, faults>>
    BY <1>3 DEF RotateDraws
  <2> QED BY <2>2, <2>3, Same DEF Shape
<1>4. CASE RotateRuns(r)
  <2>1. RotationsOK'
    BY <1>4, GoesTo DEF RotateRuns, Storing
  <2>2. OutsideOK'
    BY <1>0, <1>4 DEF RotateRuns, Shape, OutsideOK
  <2>3. UNCHANGED <<setup, entry, hold, rel, walk, opened, faults>>
    BY <1>4 DEF RotateRuns
  <2> QED BY <2>1, <2>2, <2>3, Same DEF Shape
<1>5. CASE RotateDecides(r)
  <2>1. RotationsOK'
    BY <1>5, GoesTo DEF RotateDecides, Storing
  <2>2. UNCHANGED <<setup, entry, hold, far, given, rel, walk, opened, faults>>
    BY <1>5 DEF RotateDecides
  <2> QED BY <2>1, <2>2, Same DEF Shape
<1>6. CASE RotateStores(r)
  <2>1. RotationsOK'
    BY <1>6, GoesTo DEF RotateStores, Storing
  <2>2. EntryOK'
    <3>1. [val |-> r, sealed |-> FALSE] \in Slots
      BY <1>0 DEF Slots
    <3> QED BY <1>6, <3>1 DEF RotateStores, Shape, EntryOK
  <2>3. UNCHANGED <<setup, hold, far, given, rel, walk, opened>> /\ (faults' = faults \/ Fault)
    BY <1>6 DEF RotateStores
  <2> QED BY <2>1, <2>2, <2>3, Same DEF Shape
<1>7. CASE Supersede(r)
  <2>1. RotationsOK'
    BY <1>7, GoesTo DEF Supersede
  <2>2. HoldOK' /\ (faults' = faults \/ Fault)
    BY <1>7, SettleOK, Same DEF Supersede
  <2>3. UNCHANGED <<setup, entry, far, given, rel, walk, opened>>
    BY <1>7 DEF Supersede
  <2> QED BY <2>1, <2>2, <2>3, Same DEF Shape
<1>8. CASE RotateHolds(r)
  <2>1. RotationsOK'
    BY <1>8, GoesTo DEF RotateHolds, Storing
  <2>2. HoldOK'
    <3>1. rot[r].was \in Values \cup {NoText}
      BY DEF Shape, RotationsOK, Turns
    <3>2. [val |-> r, was |-> rot[r].was] \in Holds
      BY <3>1 DEF Holds
    <3> QED BY <1>8, <3>2 DEF RotateHolds, Shape, HoldOK
  <2>3. OutsideOK'
    BY <1>0, <1>8 DEF RotateHolds, Shape, OutsideOK
  <2>4. UNCHANGED <<setup, entry, rel, walk, opened>> /\ (faults' = faults \/ Fault)
    BY <1>8 DEF RotateHolds
  <2> QED BY <2>1, <2>2, <2>3, <2>4, Same DEF Shape
<1>9. CASE HandedAnswer(r)
  <2>1. RotationsOK'
    <3>1. PICK seal \in Proofs(TRUE) \cup {"none"} :
            \/ Goes(r, "over")
            \/ rot' = [rot EXCEPT ![r].pc = "seal", ![r].seal = seal]
      BY <1>9 DEF HandedAnswer
    <3>2. seal \in SealKinds
      BY DEF Proofs, SealKinds
    <3>3. CASE Goes(r, "over")
      BY <3>3, GoesTo
    <3>4. CASE rot' = [rot EXCEPT ![r].pc = "seal", ![r].seal = seal]
      <4> DEFINE asked == [rot EXCEPT ![r].pc = "seal"]
      <4>1. asked \in [Rotations \cup Hands -> Turns]
        BY DEF Shape, RotationsOK, Turns, Storing
      <4>2. rot' = [asked EXCEPT ![r].seal = seal]
        BY <3>4
      <4> HIDE DEF asked
      <4> QED BY <3>2, <4>1, <4>2 DEF RotationsOK, Turns
    <3> QED BY <3>1, <3>3, <3>4
  <2>2. OutsideOK'
    BY <1>0, <1>9 DEF HandedAnswer, Shape, OutsideOK
  <2>3. UNCHANGED <<setup, entry, hold, rel, walk, opened, faults>>
    BY <1>9 DEF HandedAnswer
  <2> QED BY <2>1, <2>2, <2>3, Same DEF Shape
<1>10. CASE HandedStores(r)
  <2>1. RotationsOK'
    BY <1>10, GoesTo DEF HandedStores, Storing
  <2>2. EntryOK'
    <3>1. [val |-> r, sealed |-> (rot[r].seal = "sealed")] \in Slots
      BY <1>0 DEF Slots
    <3> QED BY <1>10, <3>1 DEF HandedStores, Shape, EntryOK
  <2>3. OutsideOK'
    BY <1>0, <1>10 DEF HandedStores, Shape, OutsideOK
  <2>4. UNCHANGED <<setup, hold, rel, walk, opened, faults>>
    BY <1>10 DEF HandedStores
  <2> QED BY <2>1, <2>2, <2>3, <2>4, Same DEF Shape
<1> QED BY <1>1, <1>2, <1>3, <1>4, <1>5, <1>6, <1>7, <1>8, <1>9, <1>10 DEF Rotate

LEMMA SealsOK == ASSUME Shape, NEW at, Seals(at) PROVE EntryOK'
<1>1. [pass EXCEPT !.sealed = TRUE] \in Slots
  BY DEF Shape, EntryOK, Slots
<1> QED BY <1>1 DEF Seals, Shape, EntryOK

\* A walk goes on with what is left of it.
LEMMA WalkOn ==
  ASSUME Shape, NEW p \in Walkers, walk[p] # <<>>, walk' = [walk EXCEPT ![p] = Tail(@)]
  PROVE  walk' \in [Walkers -> Seq(Parts)] /\ walk'[p] # walk[p] /\ walk' # walk
<1>1. walk[p] \in Seq(Parts) /\ walk \in [Walkers -> Seq(Parts)]
  BY DEF Shape, WalksOK
<1>4. ASSUME NEW s \in Seq(Parts), s # <<>>
      PROVE  Tail(s) \in Seq(Parts) /\ Tail(s) # s
  <2>1. Len(s) \in Nat /\ Tail(s) \in Seq(Parts) /\ Len(Tail(s)) = Len(s) - 1
    BY <1>4, LenProperties, HeadTailProperties
  <2>2. \A m, n \in Nat : m = n - 1 => m # n
    OBVIOUS
  <2>3. Len(Tail(s)) \in Nat
    BY <2>1, LenProperties
  <2> QED BY <2>1, <2>2, <2>3, Zenon
<1>2. Tail(walk[p]) \in Seq(Parts) /\ Tail(walk[p]) # walk[p]
  BY <1>1, <1>4, Zenon
<1> QED BY <1>1, <1>2

LEMMA ShapePeople ==
  ASSUME Shape,
         \/ \E d \in Doors : Admit(d) \/ Heal(d) \/ StoreRotated(d) \/ KeepCurrent(d) \/ Dismiss(d)
         \/ \E h \in Hands : ByHand(h)
  PROVE  Shape'
<1>1. ASSUME NEW d \in Doors, Admit(d) PROVE Shape'
  <2>1. d \in Releasers /\ d \in Walkers /\ <<"mark", "pass", "other">> \in Seq(Parts)
    BY DEF Releasers, Walkers, Parts
  <2>2. ReleasesOK' /\ AtHandOK'
    BY <1>1, <2>1, Begins, Same DEF Admit
  <2>3. EntryOK'
    BY <1>1 DEF Admit, Shape, EntryOK
  <2>4. WalksOK'
    BY <1>1, <2>1 DEF Admit, Shape, WalksOK
  <2>5. UNCHANGED <<setup, hold, far, given, rot, faults>>
    BY <1>1 DEF Admit
  <2> QED BY <2>2, <2>3, <2>4, <2>5, Same DEF Shape
<1>2. ASSUME NEW d \in Doors, Heal(d) PROVE Shape'
  <2>1. d \in Releasers /\ d \in Walkers
    BY DEF Releasers, Walkers
  <2>2. ReleasesOK' /\ AtHandOK'
    BY <1>2, <2>1, Begins, Same DEF Heal
  <2>3. EntryOK'
    BY <1>2, SealsOK DEF Heal
  <2>4. WalksOK'
    BY <1>2, <2>1, WalkOn DEF Heal, Shape, WalksOK
  <2>5. UNCHANGED <<setup, hold, far, given, rot, faults>>
    BY <1>2 DEF Heal
  <2> QED BY <2>2, <2>3, <2>4, <2>5, Same DEF Shape
<1>3. ASSUME NEW d \in Doors, StoreRotated(d) PROVE Shape'
  <2>1. d \in Releasers
    BY DEF Releasers
  <2>2. ReleasesOK' /\ AtHandOK'
    BY <1>3, <2>1, Begins DEF StoreRotated
  <2>3. OutsideOK'
    BY <1>3 DEF StoreRotated, Shape, OutsideOK, EntryOK, Slots
  <2>4. UNCHANGED <<setup, entry, hold, rot, walk, opened, faults>>
    BY <1>3 DEF StoreRotated
  <2> QED BY <2>2, <2>3, <2>4, Same DEF Shape
<1>4. ASSUME NEW d \in Doors, KeepCurrent(d) PROVE Shape'
  <2>1. d \in Releasers
    BY DEF Releasers
  <2>2. ReleasesOK' /\ AtHandOK'
    BY <1>4, <2>1, EndsStops, AtHandStops DEF KeepCurrent, Stops
  <2>3. OutsideOK'
    <3>1. rel[d].held \in Holds
      BY <1>4, <2>1 DEF Shape, ReleasesOK, AtHandOK, Comparing, Runs, KeepCurrent
    <3>2. rel[d].held.val \in Values
      BY <3>1 DEF Holds, Values
    <3> QED BY <1>4, <3>2 DEF KeepCurrent, Shape, OutsideOK
  <2>4. HoldOK' /\ (faults' = faults \/ Fault)
    BY <1>4, SettleOK, Same DEF KeepCurrent
  <2>5. UNCHANGED <<setup, entry, rot, walk, opened>>
    BY <1>4 DEF KeepCurrent
  <2> QED BY <2>2, <2>3, <2>4, <2>5, Same DEF Shape
<1>5. ASSUME NEW d \in Doors, Dismiss(d) PROVE Shape'
  <2>1. d \in Releasers
    BY DEF Releasers
  <2>2. ReleasesOK' /\ AtHandOK'
    BY <1>5, <2>1, EndsStops, AtHandStops DEF Dismiss, Stops
  <2>3. UNCHANGED <<setup, entry, hold, far, given, rot, walk, opened, faults>>
    BY <1>5 DEF Dismiss
  <2> QED BY <2>2, <2>3, Same DEF Shape
<1>6. ASSUME NEW h \in Hands, ByHand(h) PROVE Shape'
  <2>1. RotationsOK'
    BY <1>6, GoesTo DEF ByHand
  <2>2. EntryOK'
    <3>1. [val |-> h, sealed |-> AnySealed] \in Slots
      BY DEF Slots, Values, AnySealed, Shape, EntryOK
    <3> QED BY <1>6, <3>1 DEF ByHand, Shape, EntryOK
  <2>3. OutsideOK'
    BY <1>6 DEF ByHand, Shape, OutsideOK, Values
  <2>4. UNCHANGED <<setup, hold, rel, walk, opened, faults>>
    BY <1>6 DEF ByHand
  <2> QED BY <2>1, <2>2, <2>3, <2>4, Same DEF Shape
<1> QED BY <1>1, <1>2, <1>3, <1>4, <1>5, <1>6

LEMMA ShapeWalks == ASSUME Shape, StartProtect \/ Protect \/ StartRemove \/ Remove PROVE Shape'
<1>0. /\ "protect" \in Walkers /\ "remove" \in Walkers /\ "remove" \in Releasers
      /\ <<"pass", "other", "mark">> \in Seq(Parts)
  BY DEF Walkers, Releasers, Parts
<1>1. CASE StartProtect
  <2>1. WalksOK'
    BY <1>0, <1>1 DEF StartProtect, Shape, WalksOK
  <2>2. UNCHANGED <<setup, entry, hold, far, given, rot, rel, faults>>
    BY <1>1 DEF StartProtect
  <2> QED BY <2>1, <2>2, Same DEF Shape
<1>2. CASE Protect
  <2>1. WalksOK'
    BY <1>0, <1>2, WalkOn DEF Protect, Shape, WalksOK
  <2>2. EntryOK'
    BY <1>2, SealsOK DEF Protect
  <2>3. UNCHANGED <<setup, hold, far, given, rot, rel, faults>>
    BY <1>2 DEF Protect
  <2> QED BY <2>1, <2>2, <2>3, Same DEF Shape
<1>3. CASE StartRemove
  <2>1. [pass |-> IF pass.sealed THEN pass.val ELSE NoText, other |-> other]
          \in [pass : Values \cup {NoText}, other : BOOLEAN]
    BY DEF Shape, EntryOK, Slots
  <2>2. WalksOK'
    BY <1>0, <1>3, <2>1 DEF StartRemove, Shape, WalksOK
  <2>3. UNCHANGED <<setup, entry, hold, far, given, rot, rel, faults>>
    BY <1>3 DEF StartRemove
  <2> QED BY <2>2, <2>3, Same DEF Shape
<1>4. CASE Remove
  <2>1. WalksOK'
    <3>1. walk' \in [Walkers -> Seq(Parts)]
      BY <1>0, <1>4, WalkOn DEF Remove
    <3>2. opened' \in [pass : Values \cup {NoText}, other : BOOLEAN]
      BY <1>4, Fresh DEF Remove, Shape, WalksOK
    <3> QED BY <3>1, <3>2 DEF WalksOK
  <2>2. EntryOK'
    <3>1. opened.pass # NoText => [val |-> opened.pass, sealed |-> FALSE] \in Slots
      BY DEF Shape, WalksOK, Slots
    <3>2. pass' \in Slots
      BY <1>4, <3>1 DEF Remove, Shape, EntryOK
    <3> QED BY <1>4, <3>2 DEF Remove, Shape, EntryOK
  <2>3. ReleasesOK' /\ AtHandOK'
    BY <1>0, <1>4, Begins, Same DEF Remove
  <2>4. UNCHANGED <<setup, hold, far, given, rot, faults>>
    BY <1>4 DEF Remove
  <2> QED BY <2>1, <2>2, <2>3, <2>4, Same DEF Shape
<1> QED BY <1>1, <1>2, <1>3, <1>4

LEMMA ShapeKilled == ASSUME Shape, NEW p \in Releasers \cup Walkers, Killed(p) PROVE Shape'
<1>1. RotationsOK'
  <2>1. [Away EXCEPT !.pc = "over"] \in Turns
    BY Fresh DEF Turns
  <2> QED BY <2>1 DEF Killed, Shape, RotationsOK
<1>2. ReleasesOK' /\ AtHandOK'
  <2>1. NoRelease \in Runs /\ NoRelease.pc \notin Comparing
    BY Fresh DEF NoRelease, Comparing
  <2> QED BY <2>1 DEF Killed, Shape, ReleasesOK, AtHandOK
<1>3. WalksOK'
  <2>1. <<>> \in Seq(Parts)
    OBVIOUS
  <2>2. walk' \in [Walkers -> Seq(Parts)]
    BY <2>1 DEF Killed, Shape, WalksOK
  <2>3. opened' \in [pass : Values \cup {NoText}, other : BOOLEAN]
    BY Fresh DEF Killed, Shape, WalksOK
  <2> QED BY <2>2, <2>3 DEF WalksOK
<1>4. OutsideOK'
  BY DEF Killed, Shape, OutsideOK, Untaken, Values
<1>5. HoldOK'
  BY DEF Killed, Shape, HoldOK
<1>6. UNCHANGED <<setup, entry>> /\ Fault
  BY DEF Killed
<1> QED BY <1>1, <1>2, <1>3, <1>4, <1>5, <1>6, Same DEF Shape

LEMMA ShapeStep == ASSUME Shape, [Next]_vars PROVE Shape'
<1>1. CASE Sweep
  <2>1. "sweep" \in Releasers
    BY DEF Releasers
  <2>2. ReleasesOK' /\ AtHandOK'
    BY <1>1, <2>1, Begins DEF Sweep
  <2>3. UNCHANGED <<setup, entry, hold, far, given, rot, walk, opened, faults>>
    BY <1>1 DEF Sweep
  <2> QED BY <2>2, <2>3, Same DEF Shape
<1>2. CASE UNCHANGED vars
  BY <1>2, Same DEF vars, Shape
<1> QED BY <1>1, <1>2, ShapeRelease, ShapeRotate, ShapePeople, ShapeWalks, ShapeKilled DEF Next

\* Every variable has its shape, whatever rotations, doors and sweeps meet and wherever a write fails.
THEOREM TypeCorrect == Spec => []TypeOK
<1>1. Shape => TypeOK
  BY DEF Shape, EntryOK, HoldOK, OutsideOK, ReleasesOK, FaultsOK, Slots, Holds, Runs, ReleasePlaces, TypeOK
<1> QED BY <1>1, ShapeInit, ShapeStep, PTL DEF Spec

-----------------------------------------------------------------------------
(* The index and the item.                                                 *)

LEMMA SettleListed == ASSUME HeldIsListed, Settle PROVE HeldIsListed'
  BY DEF HeldIsListed, Settle

\* The index names the entry for as long as a value is held beside it: the index is written before
\* the item and taken back after it, and an empty reading is made again under the lease
\* (rotationQuarantine.holdRotated, settle, unlistIfEmpty).
THEOREM AHoldIsListed == Spec => []HeldIsListed
<1>1. Init => HeldIsListed
  BY DEF Init, HeldIsListed
<1>2. ASSUME HeldIsListed, [Next]_vars PROVE HeldIsListed'
  <2>0. ASSUME UNCHANGED hold PROVE HeldIsListed'
    BY <1>2, <2>0 DEF HeldIsListed, hold
  <2>1. ASSUME NEW p \in Releasers, Release(p) PROVE HeldIsListed'
    <3>1. CASE Unlist(p)
      BY <1>2, <3>1 DEF Unlist, HeldIsListed
    <3>2. CASE ReleaseDrop(p)
      BY <1>2, <2>0, <3>2, SettleListed DEF ReleaseDrop
    <3>3. CASE UNCHANGED hold
      BY <2>0, <3>3
    <3> QED BY <2>1, <3>1, <3>2, <3>3 DEF Release, ReleaseLook, ReleaseRead, ReleaseCompare, ReleaseProof, ReleaseCommit
  <2>2. ASSUME NEW r \in Rotations, Rotate(r) PROVE HeldIsListed'
    <3>1. CASE Supersede(r)
      BY <1>2, <2>0, <3>1, SettleListed DEF Supersede
    <3>2. CASE RotateHolds(r)
      <4>1. CASE listed' = TRUE
        BY <4>1 DEF HeldIsListed
      <4>2. CASE UNCHANGED <<item, listed>>
        BY <2>0, <4>2 DEF hold
      <4> QED BY <3>2, <4>1, <4>2 DEF RotateHolds
    <3>3. CASE UNCHANGED hold
      BY <2>0, <3>3
    <3> QED BY <2>2, <3>1, <3>2, <3>3 DEF Rotate, RotateCalls, RotateChecks, RotateDraws, RotateRuns,
                                          RotateDecides, RotateStores, HandedAnswer, HandedStores
  <2>3. ASSUME NEW d \in Doors, Admit(d) \/ Heal(d) \/ StoreRotated(d) \/ KeepCurrent(d) \/ Dismiss(d)
        PROVE  HeldIsListed'
    <3>1. CASE KeepCurrent(d)
      BY <1>2, <2>0, <3>1, SettleListed DEF KeepCurrent
    <3>2. CASE UNCHANGED hold
      BY <2>0, <3>2
    <3> QED BY <2>3, <3>1, <3>2 DEF Admit, Heal, StoreRotated, Dismiss
  <2>4. ASSUME NEW p \in Releasers \cup Walkers, Killed(p) PROVE HeldIsListed'
    BY <1>2, <2>4 DEF Killed, HeldIsListed
  <2>5. CASE Sweep \/ StartProtect \/ Protect \/ StartRemove \/ Remove
    BY <2>0, <2>5 DEF Sweep, StartProtect, Protect, StartRemove, Remove
  <2>6. ASSUME NEW h \in Hands, ByHand(h) PROVE HeldIsListed'
    BY <2>0, <2>6 DEF ByHand
  <2>7. CASE UNCHANGED vars
    BY <2>0, <2>7 DEF vars
  <2> QED BY <1>2, <2>1, <2>2, <2>3, <2>4, <2>5, <2>6, <2>7 DEF Next
<1> QED BY <1>1, <1>2, PTL DEF Spec

-----------------------------------------------------------------------------
(* The seal.                                                               *)

\* A write the lease admits is sealed, or goes into an entry none of whose slots is.
LEMMA Admitted == ASSUME NEW seal, MayCommit(seal), seal # "sealed" PROVE ~AnySealed
  BY DEF MayCommit

\* Nothing but Remove PIN writes the secret in the clear while a slot of the entry is sealed: every
\* release and every rotation decides again under the lease, and whoever seals leaves a seal
\* (rotationQuarantine.recheckedEach, entityPin.lockOne).
THEOREM NoPlainWrite == Spec => NoPlainBesideASeal
<1>1. ASSUME Shape, Next, pass' # pass, ~pass'.sealed, AnySealed PROVE walk' # walk
  <2> USE <1>1
  <2>1. ASSUME NEW p \in Releasers, Release(p) PROVE FALSE
    <3>1. ReleaseCommit(p)
      BY <2>1 DEF Release, ReleaseLook, Unlist, ReleaseRead, ReleaseCompare, ReleaseProof, ReleaseDrop, entry
    <3>2. MayCommit(rel[p].seal) /\ pass' = [val |-> rel[p].held.val, sealed |-> rel[p].seal = "sealed"]
      BY <3>1 DEF ReleaseCommit
    <3> QED BY <3>2, Admitted
  <2>2. ASSUME NEW r \in Rotations, Rotate(r) PROVE FALSE
    <3>1. RotateStores(r) \/ HandedStores(r)
      BY <2>2 DEF Rotate, RotateCalls, RotateChecks, RotateDraws, RotateRuns, RotateDecides, Supersede,
                  RotateHolds, HandedAnswer, entry
    <3>2. CASE RotateStores(r)
      BY <3>2, Admitted DEF RotateStores
    <3>3. CASE HandedStores(r)
      <4>1. MayCommit(rot[r].seal) /\ pass' = [val |-> r, sealed |-> rot[r].seal = "sealed"]
        BY <3>3 DEF HandedStores
      <4> QED BY <4>1, Admitted
    <3> QED BY <3>1, <3>2, <3>3
  <2>3. ASSUME NEW at, Seals(at) PROVE FALSE
    <3>1. pass' = [pass EXCEPT !.sealed = TRUE]
      BY <2>3 DEF Seals
    <3> QED BY <3>1 DEF Shape, EntryOK, Slots
  <2>4. ASSUME NEW d \in Doors, Admit(d) \/ Heal(d) \/ StoreRotated(d) \/ KeepCurrent(d) \/ Dismiss(d)
        PROVE  FALSE
    BY <2>3, <2>4 DEF Admit, Heal, StoreRotated, KeepCurrent, Dismiss, entry
  <2>5. CASE Sweep \/ StartProtect \/ Protect \/ StartRemove
    BY <2>3, <2>5 DEF Sweep, StartProtect, Protect, StartRemove, entry
  <2>6. CASE Remove
    <3>1. "remove" \in Walkers
      BY DEF Walkers
    <3> QED BY <2>6, <3>1, WalkOn DEF Remove
  <2>7. ASSUME NEW h \in Hands, ByHand(h) PROVE FALSE
    BY <2>7 DEF ByHand
  <2>8. ASSUME NEW p \in Releasers \cup Walkers, Killed(p) PROVE FALSE
    BY <2>8 DEF Killed, entry
  <2> QED BY <2>1, <2>2, <2>4, <2>5, <2>6, <2>7, <2>8 DEF Next
<1>2. ASSUME Shape, [Next]_vars PROVE [pass' # pass /\ ~pass'.sealed /\ AnySealed => walk' # walk]_vars
  BY <1>1, <1>2
<1> QED BY <1>2, ShapeInit, ShapeStep, PTL DEF Spec, NoPlainBesideASeal

-----------------------------------------------------------------------------
(* The value the far side accepts.  A value is given to the far side once: *)
(* what a hold replaced, spent by then, is never accepted again, so that   *)
(* the comparison with what was replaced tells an overtaken hold.          *)

\* The far side changes in turn, and nothing writes between the slots of a Remove PIN.
InPromise == ~setup.overlap /\ ~setup.cut

\* The far side has had v, or never will.
Spent(v) == v = First \/ (v \in Rotations \cup Hands /\ rot[v].pc \in Storing \cup {"over"})

\* A hold, or one that was read: what it replaced is not what the far side accepts.
Wary(h) == Spent(h.val) /\ h.was # far /\ (h.was = NoText \/ Spent(h.was))

FilesKnow == Spent(far) /\ Spent(pass.val) /\ (item # NoHold => Wary(item))

\* A rotation that has still to store is the one whose value the far side accepts.
RotationKnows(r) ==
  /\ rot[r].pc \in {"run"} \cup Storing => rot[r].was = NoText \/ Spent(rot[r].was)
  /\ rot[r].pc \in Storing => r = far /\ rot[r].was # far
  /\ rot[r].pc = "supersede" => pass.val = far

\* What a release that would write, or drop the hold, relies on.
ReleaseKnows(p) ==
  /\ rel[p].held # NoHold => Wary(rel[p].held)
  /\ rel[p].pc \in {"proof", "commit"} => rel[p].forced \/ rel[p].live.val = rel[p].held.was
  /\ rel[p].pc = "drop" /\ rel[p].held.val = far => pass.val = far \/ far \in given
  /\ rel[p].forced => Unsettled = {} /\ (far \in given \/ item = NoHold \/ item.val = far)

\* What a Remove PIN opened is what is in the slot until it has stored it.
RemoveKnows ==
  /\ walk["remove"] \in {<<>>, <<"pass", "other", "mark">>, <<"other", "mark">>, <<"mark">>}
  /\ walk["remove"] = <<"pass", "other", "mark">> /\ opened.pass # NoText
       => pass.sealed /\ pass.val = opened.pass

\* AcceptedIsKept, counting also a rotation whose value is stored and that has still to supersede.
TakenOrInHand ==
  far \in {pass.val} \cup {i.val : i \in {item} \ {NoHold}} \cup Unsettled \cup given

Kept ==
  /\ InPromise /\ TakenOrInHand /\ FilesKnow /\ RemoveKnows
  /\ \A r \in Rotations : RotationKnows(r)
  /\ \A p \in Releasers : ReleaseKnows(p)

\* What every step leaves true of the far side's value and of what was spent.
Orderly ==
  /\ UNCHANGED setup
  /\ given \subseteq given'
  /\ \A v : Spent(v) => Spent(v)'
  /\ Spent(far)' /\ Spent(pass.val)' /\ (item' \in {item, NoHold} \/ Wary(item)')
  /\ far' # far => InTurn /\ ~Spent(far') /\ far' \in Values
  /\ far' = far => Unsettled' \subseteq Unsettled
  /\ pass.val = far /\ far' = far => pass'.val = far \/ (far \in given' /\ Unsettled = {})
  /\ item' \in {item, NoHold} \/ Unsettled # {}
  /\ (far' = far /\ item' = item /\ Unsettled' = Unsettled) \/ TakenOrInHand'

LEMMA StoringIsUnsettled == Unsettled = {r \in Rotations : rot[r].pc \in Storing}
  BY DEF Unsettled, Untaken, Storing

LEMMA NotInTurn ==
  ASSUME Kept, InTurn
  PROVE  Unsettled = {} /\ \A p \in Releasers : ~rel[p].forced
  BY DEF Kept, InPromise, InTurn

LEMMA WaryStill == ASSUME Shape, Orderly, NEW h, Wary(h) PROVE Wary(h)'
<1>1. h.was # far'
  BY NamesAssumption DEF Orderly, Wary
<1> QED BY <1>1 DEF Orderly, Wary

LEMMA RotationStill ==
  ASSUME Shape, Kept, Orderly, NEW r \in Rotations, rot'[r] = rot[r] PROVE RotationKnows(r)'
<1>0. RotationKnows(r)
  BY DEF Kept
<1>1. rot[r].pc \in Storing => far' = far /\ Unsettled # {}
  BY NotInTurn, StoringIsUnsettled DEF Orderly
<1> QED BY <1>0, <1>1 DEF RotationKnows, Orderly, Storing

LEMMA ReleaseStill ==
  ASSUME Shape, Kept, Orderly, NEW p \in Releasers, rel'[p] = rel[p] PROVE ReleaseKnows(p)'
<1>0. ReleaseKnows(p)
  BY DEF Kept
<1>1. rel[p].held # NoHold => Wary(rel[p].held)'
  BY <1>0, WaryStill DEF ReleaseKnows
<1>2. rel[p].pc = "drop" /\ rel[p].held.val = far' => pass'.val = far' \/ far' \in given'
  <2> SUFFICES ASSUME rel[p].pc = "drop", rel[p].held.val = far' PROVE pass'.val = far' \/ far' \in given'
    OBVIOUS
  <2>1. Spent(rel[p].held.val)
    BY <1>0 DEF Shape, AtHandOK, Comparing, ReleaseKnows, Wary
  <2>2. far' = far
    BY <2>1 DEF Orderly
  <2> QED BY <1>0, <2>2 DEF ReleaseKnows, Orderly
<1>3. rel[p].forced => Unsettled' = {} /\ (far' \in given' \/ item' = NoHold \/ item'.val = far')
  <2> SUFFICES ASSUME rel[p].forced
               PROVE  Unsettled' = {} /\ (far' \in given' \/ item' = NoHold \/ item'.val = far')
    OBVIOUS
  <2>1. far' = far
    BY NotInTurn DEF Orderly
  <2> QED BY <1>0, <2>1 DEF ReleaseKnows, Orderly
<1> QED BY <1>0, <1>1, <1>2, <1>3 DEF ReleaseKnows

\* The parts of the invariant, put together after a step.
LEMMA KeptFrom ==
  ASSUME Shape, Kept, Orderly, RemoveKnows',
         \A r \in Rotations : rot'[r] = rot[r] \/ RotationKnows(r)',
         \A p \in Releasers : rel'[p] = rel[p] \/ ReleaseKnows(p)'
  PROVE  Kept'
<1>1. InPromise'
  BY DEF Kept, InPromise, Orderly
<1>2. TakenOrInHand'
  <2>1. CASE far' = far /\ item' = item /\ Unsettled' = Unsettled
    BY <2>1 DEF Kept, TakenOrInHand, Orderly
  <2> QED BY <2>1 DEF Orderly
<1>3. FilesKnow'
  <2>1. item' # NoHold => Wary(item)'
    <3>1. CASE item' = item
      BY <3>1, WaryStill DEF Kept, FilesKnow
    <3> QED BY <3>1 DEF Orderly
  <2> QED BY <2>1 DEF FilesKnow, Orderly
<1> QED BY <1>1, <1>2, <1>3, RotationStill, ReleaseStill DEF Kept

\* Nothing the invariant speaks of moves but the releases.
LEMMA OrderlyQuiet ==
  ASSUME Shape, Kept, UNCHANGED <<setup, item, far, given, rot>>, pass'.val = pass.val PROVE Orderly
<1>1. Unsettled' = Unsettled
  BY DEF Unsettled, Untaken
<1>2. \A v : Spent(v)' <=> Spent(v)
  BY DEF Spent
<1> QED BY <1>1, <1>2 DEF Orderly, Kept, FilesKnow

LEMMA RemoveStill ==
  ASSUME Kept, walk'["remove"] = walk["remove"], opened' = opened,
         \/ pass' = pass
         \/ pass'.val = pass.val /\ pass'.sealed
         \/ walk["remove"] = <<>>
         \/ ~AnySealed
  PROVE  RemoveKnows'
<1>1. walk["remove"] = <<>> => walk["remove"] # <<"pass", "other", "mark">>
  OBVIOUS
<1> QED BY <1>1 DEF Kept, RemoveKnows, AnySealed

LEMMA StopsKnows == ASSUME NEW p \in Releasers, Stops(p) PROVE ReleaseKnows(p)'
  BY DEF Stops, ReleaseKnows, NoRelease

LEMMA BegunKnows ==
  ASSUME NEW p \in Releasers, rel'[p].pc \in {"idle", "look", "read"}, rel'[p].held = NoHold, ~rel'[p].forced
  PROVE  ReleaseKnows(p)'
  BY DEF ReleaseKnows

LEMMA KeptRelease == ASSUME Shape, Kept, NEW p \in Releasers, Release(p) PROVE Kept'
<1>0. ReleaseKnows(p) /\ FilesKnow
  BY DEF Kept
<1>1. CASE ReleaseLook(p) \/ ReleaseRead(p) \/ ReleaseCompare(p) \/ ReleaseProof(p) \/ Unlist(p)
  <2>1. UNCHANGED <<setup, pass, item, far, given, rot, walk, opened>>
    BY <1>1 DEF ReleaseLook, ReleaseRead, ReleaseCompare, ReleaseProof, Unlist, entry, hold
  <2>2. Orderly
    BY <2>1, OrderlyQuiet
  <2>3. RemoveKnows'
    BY <2>1, RemoveStill
  <2>4. Unsettled' = Unsettled
    BY <2>1 DEF Unsettled, Untaken
  <2>5. ASSUME NEW l, NEW held, NEW live, RunsOn(p, l, held, live), held # NoHold => Wary(held),
               l \in {"proof", "commit"} => rel[p].forced \/ live.val = held.was,
               l = "drop" => pass.val = held.val
        PROVE  ReleaseKnows(p)'
    <3>1. held # NoHold => Wary(held)'
      BY <2>2, <2>5, WaryStill
    <3>2. rel'[p].forced => Unsettled' = {} /\ (far' \in given' \/ item' = NoHold \/ item'.val = far')
      BY <1>0, <2>1, <2>4, <2>5 DEF ReleaseKnows, RunsOn
    <3> QED BY <2>1, <2>5, <3>1, <3>2 DEF ReleaseKnows, RunsOn
  <2>6. ReleaseKnows(p)' /\ \A q \in Releasers \ {p} : rel'[q] = rel[q]
    <3>1. CASE Stops(p)
      BY <3>1, StopsKnows DEF Stops
    <3>2. CASE ReleaseLook(p)
      BY <1>0, <2>5, <3>1, <3>2, LookGoes DEF RunsOn, ReleaseKnows
    <3>3. CASE ReleaseRead(p)
      BY <1>0, <2>5, <3>1, <3>3, ReadGoes DEF RunsOn, FilesKnow
    <3>4. CASE ReleaseCompare(p)
      <4>1. CASE RunsOn(p, Compared(p), rel[p].held, IF Compared(p) = "proof" THEN pass ELSE NoHold)
        <5>1. Compared(p) # "commit" /\ (Compared(p) = "proof" => rel[p].forced \/ pass.val = rel[p].held.was)
          BY DEF Compared
        <5>2. Compared(p) = "drop" => pass.val = rel[p].held.val
          BY DEF Compared
        <5> QED BY <1>0, <2>5, <4>1, <5>1, <5>2 DEF RunsOn, ReleaseKnows
      <4> QED BY <3>1, <3>4, <4>1, CompareGoes
    <3>5. CASE ReleaseProof(p)
      <4>1. rel[p].forced \/ rel[p].live.val = rel[p].held.was
        BY <1>0, <3>5 DEF ReleaseKnows, ReleaseProof
      <4> QED BY <1>0, <2>5, <3>1, <3>5, <4>1, ProofGoes DEF RunsOn, ReleaseKnows
    <3>6. CASE Unlist(p)
      BY <3>1, <3>6, EndsStops DEF Unlist
    <3> QED BY <1>1, <3>2, <3>3, <3>4, <3>5, <3>6
  <2> QED BY <2>1, <2>2, <2>3, <2>6, KeptFrom
<1>2. CASE ReleaseCommit(p)
  <2>0. UNCHANGED <<setup, item, far, given, rot, walk, opened>>
    BY <1>2 DEF ReleaseCommit, hold
  <2>1. CASE UNCHANGED pass /\ Stops(p)
    <3>1. Orderly
      BY <2>0, <2>1, OrderlyQuiet
    <3> QED BY <2>0, <2>1, <3>1, RemoveStill, StopsKnows, KeptFrom DEF Stops
  <2>2. CASE /\ MayCommit(rel[p].seal) /\ Unchanged(p)
             /\ Uncut \/ rel[p].seal # "sealed"
             /\ pass' = [val |-> rel[p].held.val, sealed |-> rel[p].seal = "sealed"]
             /\ RunsOn(p, "drop", rel[p].held, NoHold)
    <3>1. rel[p].held # NoHold /\ Wary(rel[p].held)
      BY <1>0, <1>2 DEF ReleaseCommit, Shape, AtHandOK, Comparing, ReleaseKnows
    <3>2. item # NoHold /\ item.val = rel[p].held.val /\ pass = rel[p].live /\ pass'.val = item.val
      BY <2>2 DEF Unchanged
    <3>3. pass.val = far => pass'.val = far \/ (far \in given /\ Unsettled = {})
      BY <1>0, <1>2, <3>1, <3>2 DEF ReleaseCommit, ReleaseKnows, Wary
    <3>4. Unsettled' = Unsettled /\ \A v : Spent(v)' <=> Spent(v)
      BY <2>0 DEF Unsettled, Untaken, Spent
    <3>5. Orderly
      BY <1>0, <2>0, <3>1, <3>2, <3>3, <3>4 DEF Orderly, FilesKnow, Wary
    <3>7. ReleaseKnows(p)'
      <4>1. Wary(rel[p].held)'
        BY <3>1, <3>5, <2>2, WaryStill DEF RunsOn
      <4>2. rel'[p].forced => Unsettled' = {} /\ (far' \in given' \/ item' = NoHold \/ item'.val = far')
        BY <1>0, <2>0, <3>4, <2>2 DEF ReleaseKnows, RunsOn
      <4> QED BY <3>2, <2>2, <4>1, <4>2 DEF ReleaseKnows, RunsOn
    <3>8. RemoveKnows'
      <4>1. walk["remove"] = <<>> \/ ~AnySealed
        BY <2>2, Admitted DEF Uncut, Kept, InPromise
      <4> QED BY <2>0, <4>1, RemoveStill
    <3> QED BY <2>0, <3>5, <2>2, <3>7, <3>8, KeptFrom DEF RunsOn
  <2> QED BY <1>2, <2>1, <2>2, CommitGoes
<1>3. CASE ReleaseDrop(p)
  <2>0. UNCHANGED <<setup, pass, far, given, rot, walk, opened>> /\ Stops(p)
    BY <1>3, EndsStops DEF ReleaseDrop, entry
  <2>1. Unsettled' = Unsettled /\ \A v : Spent(v)' <=> Spent(v)
    BY <2>0 DEF Unsettled, Untaken, Spent
  <2>2. item' = item \/ (item' = NoHold /\ item.val = rel[p].held.val)
    BY <1>3 DEF ReleaseDrop, Settle, IsHold, hold
  <2>3. item' = NoHold /\ item.val = rel[p].held.val => TakenOrInHand'
    BY <1>0, <1>3, <2>0, <2>1 DEF ReleaseDrop, ReleaseKnows, Kept, TakenOrInHand
  <2>4. Orderly
    BY <1>0, <2>0, <2>1, <2>2, <2>3 DEF Orderly, FilesKnow
  <2> QED BY <2>0, <2>4, RemoveStill, StopsKnows, KeptFrom DEF Stops
<1> QED BY <1>1, <1>2, <1>3 DEF Release

\* One rotation moves: what was spent stays spent.
LEMMA OneMoves ==
  ASSUME Shape, NEW r \in Rotations \cup Hands, \A q \in (Rotations \cup Hands) \ {r} : rot'[q] = rot[q],
         rot[r].pc \in Storing \cup {"over"} => rot'[r].pc \in Storing \cup {"over"}
  PROVE  /\ \A v : Spent(v) => Spent(v)'
         /\ rot'[r].pc \in Storing => Unsettled' = IF r \in Rotations THEN Unsettled \cup {r} ELSE Unsettled
         /\ rot'[r].pc \notin Storing => Unsettled' = Unsettled \ {r}
<1>1. \A v : Spent(v) => Spent(v)'
  BY DEF Spent
<1>2. Unsettled' = {q \in Rotations : rot'[q].pc \in Storing}
  BY DEF Unsettled, Untaken, Storing
<1> QED BY <1>1, <1>2, StoringIsUnsettled

LEMMA KeptRotate == ASSUME Shape, Kept, NEW r \in Rotations, Rotate(r) PROVE Kept'
<1>0. RotationKnows(r) /\ FilesKnow /\ r \in Rotations \cup Hands /\ r \in Values
  BY DEF Kept, Values
<1> DEFINE Others == \A q \in (Rotations \cup Hands) \ {r} : rot'[q] = rot[q]
<1>1. CASE RotateCalls(r) \/ RotateChecks(r)
  <2>0. UNCHANGED <<setup, pass, item, far, given, walk, opened>>
    BY <1>1 DEF RotateCalls, RotateChecks, entry, hold
  <2>1. Others /\ rot[r].pc \notin Storing \cup {"over"} /\ rot'[r].pc \in {"check", "draw", "over"}
    BY <1>0, <1>1, GoesTo DEF RotateCalls, RotateChecks, Storing
  <2>2. (\A v : Spent(v) => Spent(v)') /\ Unsettled' = Unsettled
    BY <1>0, <2>1, OneMoves, StoringIsUnsettled DEF Storing
  <2>3. Orderly
    BY <1>0, <2>0, <2>2 DEF Orderly, FilesKnow
  <2>4. RotationKnows(r)'
    BY <2>1 DEF RotationKnows, Storing
  <2>5. ReleaseKnows(r)' /\ \A q \in Releasers \ {r} : rel'[q] = rel[q]
    <3>1. /\ \A q \in Releasers \ {r} : rel'[q] = rel[q]
          /\ rel'[r].pc \in {"idle", "look"} /\ rel'[r].held = NoHold /\ ~rel'[r].forced
      BY <1>1, RotationReleases DEF RotateCalls, RotateChecks, Shape, EntryOK, Slots
    <3> QED BY <3>1, BegunKnows DEF Releasers
  <2> QED BY <2>0, <2>1, <2>3, <2>4, <2>5, RemoveStill, KeptFrom
<1>2. CASE RotateDraws(r)
  <2>0. UNCHANGED <<setup, pass, item, far, given, rel, walk, opened>>
    BY <1>2 DEF RotateDraws, entry, hold
  <2>1. /\ Others /\ rot[r].pc = "draw" /\ rot'[r].pc = "run"
        /\ rot'[r].was = IF pass.sealed THEN NoText ELSE pass.val
    BY <1>2 DEF RotateDraws, Shape, RotationsOK
  <2>2. (\A v : Spent(v) => Spent(v)') /\ Unsettled' = Unsettled
    BY <1>0, <2>1, OneMoves, StoringIsUnsettled DEF Storing
  <2>3. Orderly
    BY <1>0, <2>0, <2>2 DEF Orderly, FilesKnow
  <2>4. RotationKnows(r)'
    BY <1>0, <2>1, <2>2 DEF RotationKnows, Storing, FilesKnow
  <2> QED BY <2>0, <2>1, <2>3, <2>4, RemoveStill, KeptFrom
<1>3. CASE RotateRuns(r) /\ UNCHANGED far
  <2>0. UNCHANGED <<setup, pass, item, far, given, rel, walk, opened>>
    BY <1>3 DEF RotateRuns, entry, hold
  <2>1. CASE Goes(r, "over")
    <3>1. Others /\ rot[r].pc = "run" /\ rot'[r].pc = "over"
      BY <1>0, <1>3, <2>1, GoesTo DEF RotateRuns
    <3>2. (\A v : Spent(v) => Spent(v)') /\ Unsettled' = Unsettled
      BY <1>0, <3>1, OneMoves, StoringIsUnsettled DEF Storing
    <3>3. Orderly
      BY <1>0, <2>0, <3>2 DEF Orderly, FilesKnow
    <3>4. RotationKnows(r)'
      BY <3>1 DEF RotationKnows, Storing
    <3> QED BY <2>0, <3>1, <3>3, <3>4, RemoveStill, KeptFrom
  <2>2. CASE far' = r
    <3>1. ~Spent(r)
      BY <1>3, NamesAssumption DEF RotateRuns, Spent, Storing
    <3> QED BY <1>0, <1>3, <2>2, <3>1 DEF FilesKnow
  <2> QED BY <1>3, <2>1, <2>2 DEF RotateRuns
<1>4. CASE RotateRuns(r) /\ far' # far
  <2>0. UNCHANGED <<setup, pass, item, given, rel, walk, opened>> /\ InTurn /\ far' = r
    BY <1>4 DEF RotateRuns, entry, hold
  <2>1. Others /\ rot[r].pc = "run" /\ rot'[r].pc = "store" /\ rot'[r].was = rot[r].was
    BY <1>0, <1>4, GoesTo DEF RotateRuns, Storing
  <2>2. (\A v : Spent(v) => Spent(v)') /\ Unsettled' = Unsettled \cup {r}
    BY <1>0, <2>1, OneMoves DEF Storing
  <2>3. ~Spent(r) /\ Spent(r)'
    BY <1>0, <2>1, NamesAssumption DEF Spent, Storing
  <2>4. Orderly
    BY <1>0, <1>4, <2>0, <2>2, <2>3 DEF Orderly, FilesKnow, TakenOrInHand
  <2>5. RotationKnows(r)'
    BY <1>0, <2>0, <2>1, <2>2, <2>3, NamesAssumption DEF RotationKnows, Storing
  <2> QED BY <2>0, <2>1, <2>4, <2>5, RemoveStill, KeptFrom
<1>5. CASE RotateDecides(r)
  <2>0. UNCHANGED <<setup, pass, item, far, given, rel, walk, opened>>
    BY <1>5 DEF RotateDecides, entry, hold
  <2>1. /\ Others /\ rot[r].pc = "store" /\ rot'[r].pc \in {"refused", "write"}
        /\ rot'[r].was = rot[r].was
    BY <1>0, <1>5, GoesTo DEF RotateDecides, Storing
  <2>2. (\A v : Spent(v) => Spent(v)') /\ Unsettled' = Unsettled
    BY <1>0, <2>1, OneMoves, StoringIsUnsettled DEF Storing
  <2>3. Orderly
    BY <1>0, <2>0, <2>2 DEF Orderly, FilesKnow
  <2>4. RotationKnows(r)'
    BY <1>0, <2>0, <2>1, <2>2 DEF RotationKnows, Storing
  <2> QED BY <2>0, <2>1, <2>3, <2>4, RemoveStill, KeptFrom
<1>6. CASE RotateStores(r)
  <2>0. UNCHANGED <<setup, item, far, given, rel, walk, opened>> /\ far = r
    BY <1>0, <1>6 DEF RotateStores, hold, RotationKnows, Storing
  <2>1. CASE ~AnySealed /\ pass' = [val |-> r, sealed |-> FALSE] /\ Goes(r, "supersede")
    <3>1. Others /\ rot[r].pc = "write" /\ rot'[r].pc = "supersede" /\ rot'[r].was = NoText
      BY <1>0, <1>6, <2>1, GoesTo DEF RotateStores, Storing
    <3>2. (\A v : Spent(v) => Spent(v)') /\ Unsettled' = Unsettled
      BY <1>0, <3>1, OneMoves, StoringIsUnsettled DEF Storing
    <3>3. Orderly
      BY <1>0, <2>0, <2>1, <3>2 DEF Orderly, FilesKnow
    <3>4. RotationKnows(r)'
      BY <1>0, <2>0, <2>1, <3>1, NamesAssumption DEF RotationKnows, Storing
    <3> QED BY <2>0, <2>1, <3>1, <3>3, <3>4, RemoveStill, KeptFrom
  <2>2. CASE UNCHANGED pass /\ (Goes(r, "refused") \/ Goes(r, "failed"))
    <3>1. Others /\ rot[r].pc = "write" /\ rot'[r].pc \in {"refused", "failed"} /\ rot'[r].was = rot[r].was
      BY <1>0, <1>6, <2>2, GoesTo DEF RotateStores, Storing
    <3>2. (\A v : Spent(v) => Spent(v)') /\ Unsettled' = Unsettled
      BY <1>0, <3>1, OneMoves, StoringIsUnsettled DEF Storing
    <3>3. Orderly
      BY <1>0, <2>0, <2>2, <3>2 DEF Orderly, FilesKnow
    <3>4. RotationKnows(r)'
      BY <1>0, <2>0, <3>1, <3>2 DEF RotationKnows, Storing
    <3> QED BY <2>0, <2>2, <3>1, <3>3, <3>4, RemoveStill, KeptFrom
  <2> QED BY <1>6, <2>1, <2>2 DEF RotateStores, MayCommit
<1>7. CASE Supersede(r)
  <2>0. UNCHANGED <<setup, pass, far, given, rel, walk, opened>> /\ pass.val = far
    BY <1>0, <1>7 DEF Supersede, entry, RotationKnows
  <2>1. Others /\ rot[r].pc = "supersede" /\ rot'[r].pc = "over"
    BY <1>0, <1>7, GoesTo DEF Supersede
  <2>2. (\A v : Spent(v) => Spent(v)') /\ Unsettled' = Unsettled \ {r}
    BY <1>0, <2>1, OneMoves DEF Storing
  <2>3. item' \in {item, NoHold}
    BY <1>7 DEF Supersede, Settle, hold
  <2>4. Orderly
    BY <1>0, <2>0, <2>2, <2>3 DEF Orderly, FilesKnow, TakenOrInHand
  <2>5. RotationKnows(r)'
    BY <2>1 DEF RotationKnows, Storing
  <2> QED BY <2>0, <2>1, <2>4, <2>5, RemoveStill, KeptFrom
<1>8. CASE RotateHolds(r)
  <2>0. UNCHANGED <<setup, pass, far, rel, walk, opened>> /\ given \subseteq given' /\ far = r /\ r \in Unsettled
    BY <1>0, <1>8, StoringIsUnsettled DEF RotateHolds, entry, RotationKnows, Storing
  <2>1. CASE item' = [val |-> r, was |-> rot[r].was] /\ Goes(r, "over")
    <3>1. Others /\ rot'[r].pc = "over"
      BY <1>0, <2>1, GoesTo
    <3>2. (\A v : Spent(v) => Spent(v)') /\ Unsettled' = Unsettled \ {r}
      BY <1>0, <3>1, OneMoves DEF Storing
    <3>3. item' # NoHold /\ item'.val = r /\ item'.was = rot[r].was
      <4>1. rot[r].was \in Values \cup {NoText}
        BY <1>0 DEF Shape, RotationsOK, Turns
      <4>2. [val |-> r, was |-> rot[r].was] \in [val : Rotations, was : Values \cup {NoText}]
        BY <4>1
      <4> QED BY <2>1, <4>2, NamesAssumption
    <3>4. Wary(item)'
      BY <1>0, <1>8, <2>0, <3>2, <3>3 DEF Wary, RotationKnows, RotateHolds, FilesKnow, Storing
    <3>5. Orderly
      BY <1>0, <2>0, <3>2, <3>3, <3>4 DEF Orderly, FilesKnow, TakenOrInHand
    <3>6. RotationKnows(r)'
      BY <3>1 DEF RotationKnows, Storing
    <3> QED BY <2>0, <3>1, <3>5, <3>6, RemoveStill, KeptFrom
  <2>2. CASE UNCHANGED item /\ Goes(r, "ask")
    <3>1. Others /\ rot'[r].pc = "ask" /\ rot'[r].was = rot[r].was /\ rot[r].pc \in Storing
      BY <1>0, <1>8, <2>2, GoesTo DEF RotateHolds, Storing
    <3>2. (\A v : Spent(v) => Spent(v)') /\ Unsettled' = Unsettled
      BY <1>0, <2>0, <3>1, OneMoves DEF Storing
    <3>3. Orderly
      BY <1>0, <2>0, <2>2, <3>2 DEF Orderly, FilesKnow
    <3>4. RotationKnows(r)'
      BY <1>0, <2>0, <3>1, <3>2 DEF RotationKnows, Storing
    <3> QED BY <2>0, <3>1, <3>3, <3>4, RemoveStill, KeptFrom
  <2>3. CASE UNCHANGED item /\ Goes(r, "over") /\ given' = given \cup {r}
    <3>1. Others /\ rot'[r].pc = "over"
      BY <1>0, <2>3, GoesTo
    <3>2. (\A v : Spent(v) => Spent(v)') /\ Unsettled' = Unsettled \ {r}
      BY <1>0, <3>1, OneMoves DEF Storing
    <3>3. Orderly
      BY <1>0, <2>0, <2>3, <3>2 DEF Orderly, FilesKnow, TakenOrInHand
    <3>4. RotationKnows(r)'
      BY <3>1 DEF RotationKnows, Storing
    <3> QED BY <2>0, <3>1, <3>3, <3>4, RemoveStill, KeptFrom
  <2> QED BY <1>8, <2>1, <2>2, <2>3 DEF RotateHolds
<1>9. CASE HandedAnswer(r)
  <2>0. /\ UNCHANGED <<setup, pass, item, far, rel, walk, opened>> /\ given \subseteq given'
        /\ far = r /\ r \in Unsettled
    BY <1>0, <1>9, StoringIsUnsettled DEF HandedAnswer, entry, hold, RotationKnows, Storing
  <2>1. CASE Goes(r, "over") /\ given' = given \cup {r}
    <3>1. Others /\ rot'[r].pc = "over"
      BY <1>0, <2>1, GoesTo
    <3>2. (\A v : Spent(v) => Spent(v)') /\ Unsettled' = Unsettled \ {r}
      BY <1>0, <3>1, OneMoves DEF Storing
    <3>3. Orderly
      BY <1>0, <2>0, <2>1, <3>2 DEF Orderly, FilesKnow, TakenOrInHand
    <3>4. RotationKnows(r)'
      BY <3>1 DEF RotationKnows, Storing
    <3> QED BY <2>0, <3>1, <3>3, <3>4, RemoveStill, KeptFrom
  <2>2. ASSUME NEW seal, rot' = [rot EXCEPT ![r].pc = "seal", ![r].seal = seal] PROVE Kept'
    <3>1. Others /\ rot'[r].pc = "seal" /\ rot'[r].was = rot[r].was /\ rot[r].pc \in Storing
      BY <1>0, <1>9, <2>2 DEF HandedAnswer, Shape, RotationsOK, Turns, Storing
    <3>2. (\A v : Spent(v) => Spent(v)') /\ Unsettled' = Unsettled
      BY <1>0, <2>0, <3>1, OneMoves DEF Storing
    <3>3. Orderly
      BY <1>0, <2>0, <3>2 DEF Orderly, FilesKnow
    <3>4. RotationKnows(r)'
      BY <1>0, <2>0, <3>1, <3>2 DEF RotationKnows, Storing
    <3> QED BY <2>0, <3>1, <3>3, <3>4, RemoveStill, KeptFrom
  <2> QED BY <1>9, <2>1, <2>2 DEF HandedAnswer
<1>10. CASE HandedStores(r)
  <2>0. /\ UNCHANGED <<setup, item, far, rel, walk, opened>> /\ given \subseteq given'
        /\ far = r /\ r \in Unsettled
    BY <1>0, <1>10, StoringIsUnsettled DEF HandedStores, hold, RotationKnows, Storing
  <2>1. CASE Uncut /\ pass' = [val |-> r, sealed |-> rot[r].seal = "sealed"] /\ Goes(r, "supersede")
    <3>1. Others /\ rot'[r].pc = "supersede" /\ rot'[r].was = NoText
      BY <1>0, <2>1, GoesTo DEF Storing
    <3>2. (\A v : Spent(v) => Spent(v)') /\ Unsettled' = Unsettled
      BY <1>0, <2>0, <3>1, OneMoves DEF Storing
    <3>3. Orderly
      BY <1>0, <2>0, <2>1, <3>2 DEF Orderly, FilesKnow
    <3>4. RotationKnows(r)'
      BY <1>0, <2>0, <2>1, <3>1, NamesAssumption DEF RotationKnows, Storing
    <3>5. walk["remove"] = <<>>
      BY <2>1 DEF Uncut, Kept, InPromise
    <3> QED BY <2>0, <3>1, <3>3, <3>4, <3>5, RemoveStill, KeptFrom
  <2>2. CASE UNCHANGED pass /\ Goes(r, "over") /\ given' = given \cup {r}
    <3>1. Others /\ rot'[r].pc = "over"
      BY <1>0, <2>2, GoesTo
    <3>2. (\A v : Spent(v) => Spent(v)') /\ Unsettled' = Unsettled \ {r}
      BY <1>0, <3>1, OneMoves DEF Storing
    <3>3. Orderly
      BY <1>0, <2>0, <2>2, <3>2 DEF Orderly, FilesKnow, TakenOrInHand
    <3>4. RotationKnows(r)'
      BY <3>1 DEF RotationKnows, Storing
    <3> QED BY <2>0, <2>2, <3>1, <3>3, <3>4, RemoveStill, KeptFrom
  <2> QED BY <1>10, <2>1, <2>2 DEF HandedStores
<1> QED BY <1>1, <1>2, <1>3, <1>4, <1>5, <1>6, <1>7, <1>8, <1>9, <1>10 DEF Rotate

LEMMA SealsKeep == ASSUME Shape, NEW at, Seals(at) PROVE pass' = pass \/ (pass'.val = pass.val /\ pass'.sealed)
<1>1. [pass EXCEPT !.sealed = TRUE].val = pass.val /\ [pass EXCEPT !.sealed = TRUE].sealed
  BY DEF Shape, EntryOK, Slots
<1> QED BY <1>1 DEF Seals

\* Another's walk: what Remove PIN still has to do is not touched.
LEMMA OtherWalk ==
  ASSUME Shape, NEW w \in Doors \cup {"protect"}, NEW v, walk' = [walk EXCEPT ![w] = v]
  PROVE  walk'["remove"] = walk["remove"]
  BY NamesAssumption DEF Shape, WalksOK, Walkers

LEMMA KeptDoors ==
  ASSUME Shape, Kept, NEW d \in Doors, Admit(d) \/ Heal(d) \/ StoreRotated(d) \/ KeepCurrent(d) \/ Dismiss(d)
  PROVE  Kept'
<1>0. d \in Releasers /\ FilesKnow
  BY DEF Releasers, Kept
<1>1. CASE Admit(d)
  <2>0. UNCHANGED <<setup, pass, item, far, given, rot, opened>>
    BY <1>1 DEF Admit, hold
  <2>1. Orderly
    BY <2>0, OrderlyQuiet
  <2>2. walk'["remove"] = walk["remove"]
    BY <1>1, OtherWalk DEF Admit
  <2>3. \A q \in Releasers : rel'[q] = rel[q] \/ ReleaseKnows(q)'
    BY <1>0, <1>1, Begins, BegunKnows DEF Admit
  <2> QED BY <2>0, <2>1, <2>2, <2>3, RemoveStill, KeptFrom
<1>2. CASE Heal(d)
  <2>0. UNCHANGED <<setup, item, far, given, rot, opened>>
    BY <1>2 DEF Heal, hold
  <2>1. pass' = pass \/ (pass'.val = pass.val /\ pass'.sealed)
    BY <1>2, SealsKeep DEF Heal
  <2>2. Orderly
    BY <2>0, <2>1, OrderlyQuiet
  <2>3. walk'["remove"] = walk["remove"]
    BY <1>2, OtherWalk DEF Heal
  <2>4. \A q \in Releasers : rel'[q] = rel[q] \/ ReleaseKnows(q)'
    BY <1>0, <1>2, Begins, BegunKnows DEF Heal
  <2> QED BY <2>0, <2>1, <2>2, <2>3, <2>4, RemoveStill, KeptFrom
<1>3. CASE StoreRotated(d)
  <2>0. UNCHANGED <<setup, pass, item, far, rot, walk, opened>> /\ given' = given \cup {pass.val}
    BY <1>3 DEF StoreRotated, entry, hold
  <2>1. Unsettled' = Unsettled /\ \A v : Spent(v)' <=> Spent(v)
    BY <2>0 DEF Unsettled, Untaken, Spent
  <2>2. Orderly
    BY <1>0, <2>0, <2>1 DEF Orderly, FilesKnow
  <2>3. /\ \A q \in Releasers \ {d} : rel'[q] = rel[q]
        /\ rel'[d].pc = "read" /\ rel'[d].held = NoHold
    BY <1>0, <1>3, Begins DEF StoreRotated
  <2>4. Unsettled = {}
    BY <1>3, NotInTurn DEF StoreRotated
  <2>5. far \in given' \/ item = NoHold \/ item.val = far
    BY <2>0, <2>4 DEF Kept, TakenOrInHand
  <2>6. ReleaseKnows(d)'
    BY <2>0, <2>1, <2>3, <2>4, <2>5 DEF ReleaseKnows
  <2> QED BY <2>0, <2>2, <2>3, <2>6, RemoveStill, KeptFrom
<1>4. CASE KeepCurrent(d)
  <2>0. UNCHANGED <<setup, pass, far, rot, walk, opened>> /\ given' = given \cup {rel[d].held.val} /\ Stops(d)
    BY <1>0, <1>4, EndsStops DEF KeepCurrent, entry
  <2>1. Unsettled' = Unsettled /\ \A v : Spent(v)' <=> Spent(v)
    BY <2>0 DEF Unsettled, Untaken, Spent
  <2>2. item' = item \/ (item' = NoHold /\ item.val = rel[d].held.val)
    BY <1>4 DEF KeepCurrent, Settle, IsHold, hold
  <2>3. item' = NoHold /\ item.val = rel[d].held.val => TakenOrInHand'
    BY <2>0, <2>1 DEF Kept, TakenOrInHand
  <2>4. Orderly
    BY <1>0, <2>0, <2>1, <2>2, <2>3 DEF Orderly, FilesKnow
  <2> QED BY <1>0, <2>0, <2>4, RemoveStill, StopsKnows, KeptFrom DEF Stops
<1>5. CASE Dismiss(d)
  <2>0. UNCHANGED <<setup, pass, item, far, given, rot, walk, opened>> /\ Stops(d)
    BY <1>0, <1>5, EndsStops DEF Dismiss, entry, hold
  <2>1. Orderly
    BY <2>0, OrderlyQuiet
  <2> QED BY <1>0, <2>0, <2>1, RemoveStill, StopsKnows, KeptFrom DEF Stops
<1> QED BY <1>1, <1>2, <1>3, <1>4, <1>5

LEMMA KeptWalks == ASSUME Shape, Kept, StartProtect \/ Protect \/ StartRemove \/ Remove PROVE Kept'
<1>0. RemoveKnows /\ walk \in [Walkers -> Seq(Parts)] /\ "remove" \in Walkers /\ "remove" \in Releasers
  BY DEF Kept, Shape, WalksOK, Walkers, Releasers
<1>1. CASE StartProtect
  <2>0. UNCHANGED <<setup, pass, item, far, given, rot, rel, opened>>
    BY <1>1 DEF StartProtect, entry, hold
  <2>1. Orderly
    BY <2>0, OrderlyQuiet
  <2>2. walk'["remove"] = walk["remove"]
    BY <1>1, OtherWalk DEF StartProtect
  <2> QED BY <2>0, <2>1, <2>2, RemoveStill, KeptFrom
<1>2. CASE Protect
  <2>0. UNCHANGED <<setup, item, far, given, rot, rel, opened>>
    BY <1>2 DEF Protect, hold
  <2>1. pass' = pass \/ (pass'.val = pass.val /\ pass'.sealed)
    BY <1>2, SealsKeep DEF Protect
  <2>2. Orderly
    BY <2>0, <2>1, OrderlyQuiet
  <2>3. walk'["remove"] = walk["remove"]
    BY <1>2, OtherWalk DEF Protect
  <2> QED BY <2>0, <2>1, <2>2, <2>3, RemoveStill, KeptFrom
<1>3. CASE StartRemove
  <2>0. UNCHANGED <<setup, pass, item, far, given, rot, rel>>
    BY <1>3 DEF StartRemove, entry, hold
  <2>1. Orderly
    BY <2>0, OrderlyQuiet
  <2>2. /\ walk'["remove"] = <<"pass", "other", "mark">>
        /\ opened'.pass = IF pass.sealed THEN pass.val ELSE NoText
    BY <1>0, <1>3 DEF StartRemove
  <2>3. RemoveKnows'
    BY <2>0, <2>2 DEF RemoveKnows
  <2> QED BY <2>0, <2>1, <2>3, KeptFrom
<1>4. CASE Remove
  <2>0. UNCHANGED <<setup, item, far, given, rot>> /\ walk'["remove"] = Tail(walk["remove"])
    BY <1>0, <1>4 DEF Remove, hold
  <2>1. walk["remove"] \in {<<"pass", "other", "mark">>, <<"other", "mark">>, <<"mark">>}
    <3>1. walk["remove"] # <<>>
      BY <1>4 DEF Remove
    <3> QED BY <1>0, <3>1 DEF RemoveKnows
  <2>2. walk'["remove"] \in {<<>>, <<"other", "mark">>, <<"mark">>}
    <3>1. Tail(<<"pass", "other", "mark">>) = <<"other", "mark">>
      OBVIOUS
    <3>2. Tail(<<"other", "mark">>) = <<"mark">>
      OBVIOUS
    <3>3. Tail(<<"mark">>) = <<>>
      OBVIOUS
    <3> QED BY <2>0, <2>1, <3>1, <3>2, <3>3, Zenon
  <2>3. RemoveKnows'
    <3>1. <<"pass", "other", "mark">> \notin {<<>>, <<"other", "mark">>, <<"mark">>}
      OBVIOUS
    <3> QED BY <2>2, <3>1 DEF RemoveKnows
  <2>4. pass'.val = pass.val
    <3>1. CASE Head(walk["remove"]) = "pass" /\ opened.pass # NoText
      <4>1. walk["remove"] = <<"pass", "other", "mark">>
        BY <2>1, <3>1
      <4> QED BY <1>0, <1>4, <3>1, <4>1 DEF Remove, RemoveKnows
    <3>2. CASE ~(Head(walk["remove"]) = "pass" /\ opened.pass # NoText)
      BY <1>4, <3>2 DEF Remove
    <3> QED BY <3>1, <3>2
  <2>5. Orderly
    BY <2>0, <2>4, OrderlyQuiet
  <2>6. \A q \in Releasers : rel'[q] = rel[q] \/ ReleaseKnows(q)'
    BY <1>0, <1>4, Begins, BegunKnows DEF Remove
  <2> QED BY <2>0, <2>3, <2>5, <2>6, KeptFrom
<1> QED BY <1>1, <1>2, <1>3, <1>4

LEMMA KeptByHand == ASSUME Shape, Kept, NEW h \in Hands, ByHand(h) PROVE Kept'
<1>0. FilesKnow /\ h \in Rotations \cup Hands /\ h \in Values /\ h \notin Rotations
  BY NamesAssumption DEF Kept, Values
<1>1. /\ UNCHANGED <<setup, item, given, rel, walk, opened>> /\ far' = h /\ pass'.val = h
      /\ InTurn /\ walk["remove"] = <<>>
  BY DEF ByHand, hold, Uncut, Kept, InPromise
<1>2. /\ \A q \in (Rotations \cup Hands) \ {h} : rot'[q] = rot[q]
      /\ rot[h].pc = "away" /\ rot'[h].pc = "over"
  BY <1>0, GoesTo DEF ByHand
<1>3. (\A v : Spent(v) => Spent(v)') /\ Unsettled' = Unsettled
  BY <1>0, <1>2, OneMoves, StoringIsUnsettled DEF Storing
<1>4. ~Spent(h) /\ Spent(h)'
  BY <1>0, <1>2, NamesAssumption DEF Spent, Storing
<1>5. Orderly
  BY <1>0, <1>1, <1>3, <1>4 DEF Orderly, FilesKnow, TakenOrInHand
<1> QED BY <1>0, <1>1, <1>2, <1>5, RemoveStill, KeptFrom

LEMMA KeptKilled == ASSUME Shape, Kept, NEW p \in Releasers \cup Walkers, Killed(p) PROVE Kept'
<1>0. FilesKnow /\ RemoveKnows
  BY DEF Kept
<1>1. UNCHANGED <<setup, pass, item, far>> /\ given' = given \cup (Untaken \cap {p})
  BY DEF Killed, entry
<1>2. /\ \A r \in Rotations \cup Hands : r # p => rot'[r] = rot[r]
      /\ p \in Rotations \cup Hands => rot'[p].pc = "over"
  BY DEF Killed, Away
<1>3. \A v : Spent(v) => Spent(v)'
  BY <1>2 DEF Spent
<1>4. Unsettled' = Unsettled \ {p}
  <2>1. Unsettled' = {q \in Rotations : rot'[q].pc \in Storing}
    BY DEF Unsettled, Untaken, Storing
  <2> QED BY <1>2, <2>1, StoringIsUnsettled DEF Storing
<1>5. TakenOrInHand'
  <2>1. CASE far \in Untaken
    BY <1>1, <1>4, <2>1 DEF TakenOrInHand, Unsettled
  <2>2. CASE far \in Unsettled \ Untaken
    BY <1>1, <2>2 DEF Kept, RotationKnows, TakenOrInHand, Unsettled
  <2>3. CASE far \notin Unsettled
    BY <1>1, <2>3 DEF Kept, TakenOrInHand
  <2> QED BY <2>1, <2>2, <2>3 DEF Unsettled
<1>6. Orderly
  BY <1>0, <1>1, <1>3, <1>4, <1>5 DEF Orderly, FilesKnow
<1>7. ASSUME NEW r \in Rotations PROVE rot'[r] = rot[r] \/ RotationKnows(r)'
  BY <1>2 DEF RotationKnows, Storing
<1>8. ASSUME NEW q \in Releasers PROVE rel'[q] = rel[q] \/ ReleaseKnows(q)'
  BY DEF Killed, ReleaseKnows, NoRelease
<1>9. RemoveKnows'
  <2>1. "remove" \in Walkers
    BY DEF Walkers
  <2>2. CASE p = "remove"
    <3>1. walk'["remove"] = <<>> /\ <<>> # <<"pass", "other", "mark">>
      BY <2>1, <2>2 DEF Killed
    <3> QED BY <3>1 DEF RemoveKnows
  <2>3. CASE p # "remove"
    BY <1>1, <2>1, <2>3, RemoveStill DEF Killed
  <2> QED BY <2>2, <2>3
<1> QED BY <1>6, <1>7, <1>8, <1>9, KeptFrom

LEMMA KeptStep == ASSUME Shape, Kept, [Next]_vars PROVE Kept'
<1>1. CASE Sweep
  <2>0. UNCHANGED <<setup, pass, item, far, given, rot, walk, opened>> /\ "sweep" \in Releasers
    BY <1>1 DEF Sweep, entry, hold, Releasers
  <2>1. Orderly
    BY <2>0, OrderlyQuiet
  <2>2. \A q \in Releasers : rel'[q] = rel[q] \/ ReleaseKnows(q)'
    BY <1>1, <2>0, Begins, BegunKnows DEF Sweep
  <2> QED BY <2>0, <2>1, <2>2, RemoveStill, KeptFrom
<1>2. CASE UNCHANGED vars
  <2>1. UNCHANGED <<setup, pass, item, far, given, rot, rel, walk, opened>>
    BY <1>2 DEF vars, entry, hold
  <2>2. Orderly
    BY <2>1, OrderlyQuiet
  <2> QED BY <2>1, <2>2, RemoveStill, KeptFrom
<1>3. CASE Next
  BY <1>1, <1>3, KeptRelease, KeptRotate, KeptDoors, KeptWalks, KeptByHand, KeptKilled DEF Next
<1> QED BY <1>2, <1>3

LEMMA KeptInit == Init /\ InPromise => Kept
<1> SUFFICES ASSUME Init, InPromise PROVE Kept
  OBVIOUS
<1> USE DEF Init
<1>1. TakenOrInHand /\ FilesKnow
  BY DEF TakenOrInHand, FilesKnow, Spent
<1>2. RemoveKnows
  <2>1. walk["remove"] = <<>> /\ <<>> # <<"pass", "other", "mark">>
    BY DEF Walkers
  <2> QED BY <2>1 DEF RemoveKnows
<1>3. ASSUME NEW r \in Rotations PROVE RotationKnows(r)
  BY DEF RotationKnows, Away, Storing
<1>4. ASSUME NEW p \in Releasers PROVE ReleaseKnows(p)
  BY DEF ReleaseKnows, NoRelease
<1> QED BY <1>1, <1>2, <1>3, <1>4 DEF Kept

\* The value the far side accepts is never dropped: it is in the entry, held beside it, with a rotation
\* that has still to store it, or a person got or gave it up, wherever a write fails and a window is
\* killed. The promise is for changes of the far side that come in turn (none while a value waits for its
\* store) and no write between the slots of a
\* Remove PIN (rotationStore.storeRotated, rotationQuarantine.releaseHeld, supersedeHeld).
THEOREM AcceptedValueIsKept == Spec /\ InPromise => []AcceptedIsKept
<1>1. Kept => AcceptedIsKept
  BY DEF Kept, TakenOrInHand, AcceptedIsKept, Unsettled, RotationKnows
<1> QED BY <1>1, ShapeInit, ShapeStep, KeptInit, KeptStep, PTL DEF Spec
=============================================================================
