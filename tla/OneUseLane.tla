----------------------------- MODULE OneUseLane ----------------------------
(***************************************************************************)
(* An entry an agent may use once, over the store of SecretCleanup:        *)
(* brokerCall.ts asks the lane and the store, oneUseLane.ts queues the     *)
(* calls on the entry, runs one at a time, and burns the entry after its   *)
(* answer was sent.                                                        *)
(***************************************************************************)
EXTENDS SecretCleanup, Sequences

CONSTANTS Callers,  \* broker calls on the one-use entry
          Used,     \* the one-use entry
          MaxAsks,  \* bound: writes and deletions asked for
          Scenes    \* what happens to the window: "writes" or "uses"

ASSUME UsedAssumption == Used \in Ids /\ "burn" \in Deleters
ASSUME AsksAssumption == MaxAsks \in Nat

VARIABLES scene,  \* the scene of this behaviour
          call,   \* caller -> its call's place
          lane,   \* the KeyedQueue of the entry, the running call first
          spent,  \* whether this window has spent the entry
          marks,  \* whether the burn under way will mark the lane (wasOneUse)
          uses,   \* history: successful uses in this window
          asks    \* bounded counter

calls == <<call, lane, spent, marks, uses>>
vars == <<cleanup, scene, calls, asks>>

\* isOneUse asks the store: a deleted entry is not one-use.
IsOneUse == Used \in tree

\* A slip ItsTurn must not make: the next call starts beside the one that runs.
ItsTurnAnyTime(c) == lane # <<>>

ItsTurn(c) == lane # <<>> /\ Head(lane) = c

\* A call leaves its turn, and the next in the lane may start.
LeaveLane(c) ==
  /\ call' = [call EXCEPT ![c] = "over"]
  /\ lane' = Tail(lane)

\* queuedIfOneUse, takesItsTurn: refused when spent; an entry the store does not hold runs at once
\* and answers that it is not there.
Arrive(c) ==
  /\ call[c] = "away"
  /\ IF ~spent /\ IsOneUse
     THEN call' = [call EXCEPT ![c] = "queued"] /\ lane' = Append(lane, c)
     ELSE call' = [call EXCEPT ![c] = "over"] /\ UNCHANGED lane
  /\ UNCHANGED <<cleanup, scene, spent, marks, uses, asks>>

\* A slip MayRun must not make: the lane is not asked again once the turn has come.
MayRunInTurn(c) == IsOneUse

\* afterTheQueue asks the lane; the action finds the entry or answers that it is gone.
MayRun(c) == ~spent /\ IsOneUse

\* afterTheQueue, answer: its turn came. Refused, gone or abandoned by its client, or started.
Turn(c) ==
  /\ call[c] = "queued"
  /\ ItsTurn(c)
  /\ \/ MayRun(c) /\ call' = [call EXCEPT ![c] = "running"] /\ UNCHANGED lane
     \/ LeaveLane(c)
  /\ UNCHANGED <<cleanup, scene, spent, marks, uses, asks>>

\* The action failed: the entry is not spent.
Fails(c) ==
  /\ call[c] = "running"
  /\ LeaveLane(c)
  /\ UNCHANGED <<cleanup, scene, spent, marks, uses, asks>>

\* The action answered 200.
Answers(c) ==
  /\ call[c] = "running"
  /\ call' = [call EXCEPT ![c] = "answered"]
  /\ uses' = uses + 1
  /\ UNCHANGED <<cleanup, scene, lane, spent, marks, asks>>

\* burnAndMark: whether it was one-use is asked before the burn; burnIfOneUse starts the deletion.
Burn(c) ==
  /\ call[c] = "answered"
  /\ marks' = IsOneUse
  /\ call' = [call EXCEPT ![c] = "burning"]
  /\ IF IsOneUse THEN DeleteTombstone("burn", Used) ELSE UNCHANGED cleanup
  /\ UNCHANGED <<scene, lane, spent, uses, asks>>

\* The burn settled, or threw and was reported: the lane is marked either way.
BurnSettles(c) ==
  /\ call[c] = "burning"
  /\ deletion["burn"].pc = "idle"
  /\ spent' = (spent \/ marks)
  /\ marks' = FALSE
  /\ LeaveLane(c)
  /\ UNCHANGED <<cleanup, scene, uses, asks>>

CallStep(c) == Turn(c) \/ Fails(c) \/ Answers(c) \/ Burn(c) \/ BurnSettles(c)

\* The window is killed: its calls and its lane go with it.
Kill ==
  /\ Killed
  /\ call' = [c \in Callers |-> "away"]
  /\ lane' = <<>>
  /\ spent' = FALSE
  /\ marks' = FALSE
  /\ uses' = 0
  /\ UNCHANGED <<scene, asks>>

Init ==
  /\ CleanupInit
  /\ scene \in Scenes
  /\ scene = "uses" => Used \in tree
  /\ call = [c \in Callers |-> "away"]
  /\ lane = <<>>
  /\ spent = FALSE /\ marks = FALSE
  /\ uses = 0
  /\ asks = 0

Ask == asks < MaxAsks /\ asks' = asks + 1 /\ UNCHANGED <<scene, calls>>
Aside == UNCHANGED <<scene, calls, asks>>

Writes == scene = "writes" /\ Asked /\ Ask
Delete == (\E d \in Deleters \ {"burn"}, id \in Ids : DeleteTombstone(d, id)) /\ Ask
Resume == ResumeStarts /\ Aside
Sweep == SweepStarts /\ Aside
Steps == (JobStep \/ DeletionStep \/ SweepKey) /\ Aside
Faults == Fault /\ Aside
Uses == scene = "uses" /\ \E c \in Callers : Arrive(c) \/ CallStep(c)

Next == Writes \/ Delete \/ Resume \/ Sweep \/ Steps \/ Faults \/ Uses \/ Kill

Spec == Init /\ [][Next]_vars

\* Work under way goes on; the queue is first in, first out, so a sweep that keeps asking gets its
\* turn. Nobody has to write, and nothing has to fail.
FairSpec == Spec /\ WF_vars(Steps) /\ SF_vars(Resume)

-----------------------------------------------------------------------------
\* Every variable has its shape, and only the head of the lane is past its queue.
TypeOK ==
  /\ CleanupTypeOK
  /\ call \in [Callers -> {"away", "queued", "running", "answered", "burning", "over"}]
  /\ \A c \in Callers : call[c] \in {"running", "answered", "burning"} => c = Head(lane)
  /\ spent \in BOOLEAN /\ marks \in BOOLEAN
  /\ uses \in Nat /\ asks \in 0..MaxAsks

\* "Until an agent uses it once": however the calls of one window overlap, and whether or not the
\* store let the entry go, one of them succeeds at most; unless a deletion of another entry, which
\* had read the tree before, put the entry back after somebody deleted it.
UsedOnce == Used \notin crossed => uses <= 1
=============================================================================
