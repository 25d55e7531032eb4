-------------------------- MODULE EntryProtection --------------------------
(***************************************************************************)
(* One entry edited, protected with a PIN and unprotected on several       *)
(* installations that sync through one remote copy (syncMerge.ts,          *)
(* syncPinRule.ts, syncProtection.ts, entityPin.ts, pinCommands.ts).       *)
(*                                                                         *)
(* Protect and Remove PIN are not atomic in the code: they write slot by   *)
(* slot and move the mark, the epoch and the version vector last.  A sync  *)
(* cycle is one step here; VaultSync splits it.  Every edit types a fresh  *)
(* value, so that a lost one can be told.  A PIN is named after the        *)
(* installation it was chosen on.                                          *)
(***************************************************************************)
EXTENDS ProfileMerge

CONSTANTS X,                  \* the entry
          LegacyKinds,        \* the kinds that builds from before some kinds have a map for
          Setups              \* the situations and bounds of an instance, see setup

ASSUME EntryAssumption == X \in Ids /\ Kinds # {} /\ LegacyKinds \subseteq Kinds
ASSUME SetupsAssumption ==
  \A s \in Setups :
    /\ s.legacy \subseteq Devices /\ s.interleave \in BOOLEAN
    /\ s.edits \in Nat /\ s.writes \in Nat /\ s.time \in Nat \ {0}
\* Every text a person types has its two forms, in the clear and under each PIN.
ASSUME ValuesAssumption ==
  /\ Plains \subseteq Nat \X {0} /\ Seals \subseteq Nat \X Devices
  /\ \A s \in Setups : (0..s.edits) \X {0} \subseteq Plains /\ (0..s.edits) \X Devices \subseteq Seals

VARIABLES setup,      \* the situation of this behaviour: which installations run an old build
                      \* (legacy), whether other steps may fall between two slot writes of a run
                      \* (interleave), and bounds: edits that type a value (edits), stamped writes
                      \* on all machines (writes), wall clock (time)
          local,      \* installation -> its stored profile
          remote,     \* the vault at the sync location
          seq,        \* installation -> DEVICE_SEQ_KEY
          clock,      \* installation -> its wall clock at its last write
          run,        \* installation -> the Protect / Remove PIN run under way
          kept,       \* installation -> values recorded as kept versions
          writes,     \* how many writes were stamped so far
          edits,      \* how many of them typed a value
          decisions   \* history: the protection decisions ever made

vars == <<setup, local, remote, seq, clock, run, kept, writes, edits, decisions>>

Legacy == setup.legacy
Interleave == setup.interleave
MaxEdits == setup.edits
MaxWrites == setup.writes
MaxTime == setup.time

Idle == [kind |-> "idle", todo |-> {}, open |-> [k \in Kinds |-> NoValue]]
\* A stored value: what was typed and the PIN it is under, 0 for none.
Plain(val) == <<val, 0>>
Sealed(val, pin) == <<val, pin>>
ValueOf(s) == s[1]
PinOf(s) == s[2]

Entry(p) == p.nodes[X]
SlotsOf(p) == Entry(p).slots
PinsOf(p) == {PinOf(SlotsOf(p)[k]) : k \in {j \in Kinds : SlotsOf(p)[j] \in Seals}}
ValuesOf(p) == {ValueOf(SlotsOf(p)[k]) : k \in {j \in Kinds : SlotsOf(p)[j] # NoValue}}
KindsOf(d) == IF d \in Legacy THEN LegacyKinds ELSE Kinds

\* Without Interleave a run is taken without a break: its slot writes touch its own machine only
\* and commute with every step of the others, so only cycles of its own machine are left out.
Quiet == \A d \in Devices : run[d] = Idle
Free(d) == run[d] = Idle /\ (Interleave \/ Quiet)

-----------------------------------------------------------------------------
(* Writes on one machine.                                                  *)

\* stampVector: the node under a fresh sequence number and the wall clock; bumpHorizonToSeq.
Stamped(d, t, n) ==
  [local[d] EXCEPT !.nodes[X] = [n EXCEPT !.v = BumpVector(n.v, d, seq[d] + 1), !.at = t],
                   !.horizon[d] = MaxOf(@, seq[d] + 1)]

StampedWrite(d, t, n) ==
  /\ writes < MaxWrites
  /\ writes' = writes + 1
  /\ t >= clock[d]
  /\ local' = [local EXCEPT ![d] = Stamped(d, t, n)]
  /\ seq' = [seq EXCEPT ![d] = @ + 1]
  /\ clock' = [clock EXCEPT ![d] = t]

\* sealingAtWrite: a value typed into the entry is stored under the PIN of a sealed slot (the one
\* the door asked for), else in the clear.
StoredForms(d, val) ==
  IF PinsOf(local[d]) = {} THEN {Plain(val)} ELSE {Sealed(val, pin) : pin \in PinsOf(local[d])}

\* Saving the form with a new value in one slot.
Edit(d, k, t) ==
  /\ Free(d)
  /\ edits < MaxEdits
  /\ edits' = edits + 1
  /\ k \in KindsOf(d)
  /\ \E s \in StoredForms(d, edits + 1) :
        StampedWrite(d, t, [Entry(local[d]) EXCEPT !.slots[k] = s])
  /\ UNCHANGED <<setup, remote, run, kept, decisions>>

\* Saving the form with one slot emptied. Entries with no value at all are left out.
Clear(d, k, t) ==
  /\ Free(d)
  /\ SlotsOf(local[d])[k] # NoValue
  /\ \E j \in Kinds \ {k} : SlotsOf(local[d])[j] # NoValue
  /\ StampedWrite(d, t, [Entry(local[d]) EXCEPT !.slots[k] = NoValue])
  /\ UNCHANGED <<setup, remote, run, kept, edits, decisions>>

-----------------------------------------------------------------------------
(* Protect with a PIN: every plain slot, then the mark.                    *)

StartProtect(d) ==
  /\ Free(d)
  /\ PinsOf(local[d]) = {}
  /\ run' = [run EXCEPT ![d] = [kind |-> "protect", todo |-> KindsOf(d), open |-> Idle.open]]
  /\ UNCHANGED <<setup, local, remote, seq, clock, kept, writes, edits, decisions>>

\* The slots are written in the fixed order of SECRET_SLOTS.
NextSlot(todo) == CHOOSE k \in Kinds : todo # {} => k \in todo

\* A slip SealSlot must not make: an empty slot is sealed as well.
SealSlotEmptyToo(d, k) ==
  /\ run[d].kind = "protect"
  /\ run[d].todo # {}
  /\ k = NextSlot(run[d].todo)
  /\ run' = [run EXCEPT ![d].todo = @ \ {k}]
  /\ local' = IF SlotsOf(local[d])[k] \notin Seals
              THEN [local EXCEPT ![d].nodes[X].slots[k] =
                      Sealed(IF @ = NoValue THEN NoValue ELSE ValueOf(@), d)]
              ELSE local
  /\ UNCHANGED <<setup, remote, seq, clock, kept, writes, edits, decisions>>

\* lockOne / sealIfStill: whatever plain value the slot holds when the lease is held.
SealSlot(d, k) ==
  /\ run[d].kind = "protect"
  /\ run[d].todo # {}
  /\ k = NextSlot(run[d].todo)
  /\ run' = [run EXCEPT ![d].todo = @ \ {k}]
  /\ local' = IF SlotsOf(local[d])[k] \in Plains
              THEN [local EXCEPT ![d].nodes[X].slots[k] = Sealed(ValueOf(@), d)]
              ELSE local
  /\ UNCHANGED <<setup, remote, seq, clock, kept, writes, edits, decisions>>

\* A slip MarkProtected must not make: the mark moves and the count does not.
MarkProtectedNoEpoch(d, t) ==
  LET n == Entry(local[d])
  IN  /\ run[d].kind = "protect"
      /\ run[d].todo = {}
      /\ run' = [run EXCEPT ![d] = Idle]
      /\ PinsOf(local[d]) \subseteq {d}
      /\ StampedWrite(d, t, [n EXCEPT !.mark = TRUE])
      /\ decisions' = decisions \cup
           {[on |-> TRUE, epoch |-> n.epoch + 1, v |-> BumpVector(n.v, d, seq[d] + 1)]}
      /\ UNCHANGED <<setup, remote, kept, edits>>

\* opensEverySealed, then markProtection(true): mark, epoch and vector in one node write.
\* A slot under another PIN ends the run with nothing marked.
MarkProtected(d, t) ==
  LET n == Entry(local[d])
  IN  /\ run[d].kind = "protect"
      /\ run[d].todo = {}
      /\ run' = [run EXCEPT ![d] = Idle]
      /\ \/ /\ PinsOf(local[d]) \subseteq {d}
            /\ StampedWrite(d, t, [n EXCEPT !.mark = TRUE, !.epoch = @ + 1])
            /\ decisions' = decisions \cup
                 {[on |-> TRUE, epoch |-> n.epoch + 1, v |-> BumpVector(n.v, d, seq[d] + 1)]}
         \/ /\ ~(PinsOf(local[d]) \subseteq {d})
            /\ UNCHANGED <<local, seq, clock, writes, decisions>>
      /\ UNCHANGED <<setup, remote, kept, edits>>

-----------------------------------------------------------------------------
(* Remove PIN: every slot opened in memory, then written, then the mark.   *)

StartUnprotect(d) ==
  /\ Free(d)
  /\ \E pin \in Devices : PinsOf(local[d]) = {pin}
  /\ run' = [run EXCEPT ![d] =
       [kind |-> "unprotect",
        todo |-> {k \in Kinds : SlotsOf(local[d])[k] \in Seals},
        open |-> [k \in Kinds |-> IF SlotsOf(local[d])[k] \in Seals
                                THEN Plain(ValueOf(SlotsOf(local[d])[k])) ELSE NoValue]]]
  /\ UNCHANGED <<setup, local, remote, seq, clock, kept, writes, edits, decisions>>

StoreOpened(d, k) ==
  /\ run[d].kind = "unprotect"
  /\ run[d].todo # {}
  /\ k = NextSlot(run[d].todo)
  /\ run' = [run EXCEPT ![d].todo = @ \ {k}]
  /\ local' = [local EXCEPT ![d].nodes[X].slots[k] = run[d].open[k]]
  /\ UNCHANGED <<setup, remote, seq, clock, kept, writes, edits, decisions>>

MarkUnprotected(d, t) ==
  LET n == Entry(local[d])
  IN  /\ run[d].kind = "unprotect"
      /\ run[d].todo = {}
      /\ run' = [run EXCEPT ![d] = Idle]
      /\ StampedWrite(d, t, [n EXCEPT !.mark = FALSE, !.epoch = @ + 1])
      /\ decisions' = decisions \cup
           {[on |-> FALSE, epoch |-> n.epoch + 1, v |-> BumpVector(n.v, d, seq[d] + 1)]}
      /\ UNCHANGED <<setup, remote, kept, edits>>

-----------------------------------------------------------------------------
(* A sync cycle.                                                           *)

\* protectionConflicts: a raced entry whose sealed state changed, or which lost a sealed value.
LosesProtected(p, r, m) ==
  LET n == Entry(p)
  IN  /\ Concurrent(n.v, Entry(r).v)
      /\ \/ SealedNode(n) # SealedNode(Entry(m))
         \/ \E k \in Kinds : n.slots[k] \in Seals /\ SlotsOf(m)[k] # n.slots[k]

\* A build that knows only some kinds stores and publishes only those.
Storable(d, m) ==
  [m EXCEPT !.known = KindsOf(d),
            !.nodes[X].slots = [k \in Kinds |-> IF k \in KindsOf(d) THEN @[k] ELSE NoValue]]

Sync(d) ==
  /\ Interleave \/ Quiet
  /\ \E m \in {Storable(d, MergeProfiles(local[d], remote, clock[d]))} :
       /\ kept' = IF LosesProtected(local[d], remote, m)
                  THEN [kept EXCEPT ![d] = @ \cup ValuesOf(local[d])] ELSE kept
       /\ local' = [local EXCEPT ![d] = m]
       /\ remote' = m
  /\ <<local', remote'>> # <<local, remote>>
  /\ UNCHANGED <<setup, seq, clock, run, writes, edits, decisions>>

-----------------------------------------------------------------------------
\* The entry was created on some installation, with every slot filled, and every machine has it.
BaseProfile(d) ==
  LET v == BumpVector(EmptyVector, d, 1)
  IN  [EmptyProfile EXCEPT
        !.nodes[X] = [v |-> v, at |-> 1, parent |-> Root, epoch |-> 0, mark |-> FALSE,
                      slots |-> [k \in Kinds |-> Plain(0)]],
        !.horizon = v]

Init ==
  \E maker \in Devices :
    /\ setup \in Setups
    /\ local = [d \in Devices |-> Storable(d, BaseProfile(maker))]
    /\ remote = BaseProfile(maker)
    /\ seq = [d \in Devices |-> IF d = maker THEN 1 ELSE 0]
    /\ clock = [d \in Devices |-> 1]
    /\ run = [d \in Devices |-> Idle]
    /\ kept = [d \in Devices |-> {}]
    /\ writes = 0
    /\ edits = 0
    /\ decisions = {}

Write(d) ==
  \E t \in 1..MaxTime :
    \/ \E k \in Kinds : Edit(d, k, t) \/ Clear(d, k, t)
    \/ MarkProtected(d, t)
    \/ MarkUnprotected(d, t)

Next ==
  \E d \in Devices :
    \/ Write(d)
    \/ StartProtect(d)
    \/ StartUnprotect(d)
    \/ \E k \in Kinds : SealSlot(d, k) \/ StoreOpened(d, k)
    \/ Sync(d)

Spec == Init /\ [][Next]_vars

-----------------------------------------------------------------------------
(* Properties.                                                             *)

\* Builds that know every kind, and runs that no cycle of their own machine cuts in two.
Ordinary == ~Interleave /\ Legacy = {}

Synced == \A d \in Devices : SameProfile(local[d], remote)

\* Every variable is of its shape: in particular the two sealed forms never nest.
TypeOK ==
  /\ setup \in Setups
  /\ local \in [Devices -> Profiles]
  /\ remote \in Profiles
  /\ seq \in [Devices -> 0..MaxWrites + 1]
  /\ clock \in [Devices -> 1..MaxTime]
  /\ kept \in [Devices -> SUBSET (0..MaxEdits)]
  /\ writes \in 0..MaxWrites
  /\ edits \in 0..MaxEdits
  /\ \A d \in Devices :
       /\ run[d].kind \in {"idle", "protect", "unprotect"}
       /\ run[d].todo \subseteq Kinds
       /\ run[d].open \in [Kinds -> Plains \cup {NoValue}]

\* syncPinRule rule 4: whatever raced, and whichever builds took part, no merge leaves an entry
\* sealed in one slot and readable in another, on any machine that is not in the middle of its own
\* Protect or at the sync location.
NoMixedEntry ==
  ~Interleave => \A p \in {remote} \cup {local[d] : d \in {e \in Devices : run[e] = Idle}} :
    SealedNode(Entry(p)) => \A k \in Kinds : SlotsOf(p)[k] \notin Plains

\* syncPinRule: whatever the wall clocks said and whoever edited meanwhile, no race undoes a
\* Protect: once every machine has synced, an entry that was ever protected is readable only if
\* a person removed a PIN from it.
OnlyRemovalUnprotects ==
  (/\ Ordinary
   /\ Quiet
   /\ Synced
   /\ \E p \in decisions : p.on
   /\ ~SealedNode(Entry(remote)))
  => \E p \in decisions : ~p.on

\* syncPinRule.protectionDecision: the mark and the count move in one node write, "so no machine
\* ever sees a new mark with the old count or the other way round". Every copy of the entry,
\* whatever cycles ran between the slot writes, shows the outcome of a decision it has seen.
MarkAndEpochTogether ==
  \A p \in {remote} \cup {local[d] : d \in Devices} :
    LET n == Entry(p)
    IN  \/ n.epoch = 0 /\ ~n.mark
        \/ \E q \in decisions : q.epoch = n.epoch /\ q.on = n.mark /\ Covers(n.v, q.v)

\* The resolution sticks: one cycle on each machine in turn brings both to one profile, which the
\* next cycle leaves alone on every side. No merge flips back what another machine decided. Left
\* out are two sides that no rule tells apart and that do not agree where both hold a value: each
\* machine keeps its own for good.
Settles ==
  Ordinary /\ Quiet => \A d \in Devices : \A e \in Devices \ {d} :
    \A first \in {MergeProfiles(local[d], remote, MaxTime)} :
    \A second \in {MergeProfiles(local[e], first, MaxTime)} :
      Distinguished(Entry(local[e]), Entry(first)) \/ SameVersion(Entry(local[e]), Entry(first)) =>
        /\ SameProfile(MergeProfiles(first, second, MaxTime), second)
        /\ SameProfile(MergeProfiles(second, second, MaxTime), second)

\* copySecret: a build that cannot hold a kind cannot have deleted it. Where every other machine
\* runs such a build, a cycle never empties a slot of that kind unless it had to change the
\* entry's sealed state. A cycle that falls into a Protect finds the entry half sealed, and there
\* the plain half has no place beside a sealed winner.
LegacyDropsNothing ==
  [][~Interleave => \A d \in {e \in Devices : Devices \ {e} = Legacy}, k \in Kinds \ LegacyKinds :
       (/\ SlotsOf(local[d])[k] # NoValue
        /\ SealedNode(Entry(local[d])) = SealedNode(Entry(local'[d])))
       => SlotsOf(local'[d])[k] # NoValue \/ seq'[d] # seq[d]]_vars

(* What the comments say and the code does not do.                         *)

\* syncProtection.ts: the losing side of a conflict about protection "is kept - never dropped in
\* silence". A machine whose edit raced a protection decision, and whose cycle replaces the edited
\* values by that decision's, has them among its kept versions.
LoserIsKept ==
  [][\A d \in Devices :
       LET before == Entry(local[d])
           after == Entry(local'[d])
       IN  (/\ seq'[d] = seq[d]
            /\ SealedNode(before) # SealedNode(after)
            /\ \E p \in decisions : Covers(after.v, p.v) /\ Concurrent(before.v, p.v))
           => ValuesOf(local[d]) \subseteq kept'[d] \cup ValuesOf(local'[d])]_vars
=============================================================================
